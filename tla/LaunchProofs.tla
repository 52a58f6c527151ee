---------------------------- MODULE LaunchProofs -----------------------------
(***************************************************************************)
(* For any command line, any built-in screensavers and whatever ~/.strange *)
(* holds and however it changes: arguments mean what the usage text says,  *)
(* and what is started is what was asked for, the user's own first.        *)
(***************************************************************************)
EXTENDS Launch, NumberLemmas, SequenceTheorems

-----------------------------------------------------------------------------
(* Why they hold: an inductive invariant, in three parts.                  *)

(* The parser stays within the arguments there are.                        *)
WithinArguments ==
  /\ LaunchTypeOK
  /\ Len(argv) <= MaxArgs /\ index <= Len(argv) + 1 /\ leading < index

(* An error, or anything else that comes out of it, ends strange.          *)
EndsOnce == pc # "done" => error = "" /\ outcome = ""

(* The options parsed so far begin at `starts`, and every way to read the  *)
(* whole command line begins with them.                                    *)
ReadSoFar(starts) ==
  /\ OptionsBegin(argv, leading, starts)
  /\ options = Chosen(argv, starts, options.names)
  /\ \A q \in Readings(argv) : leading <= q[1] /\ starts = q[2] \cap (1..leading)

ParserInv ==
  /\ pc = "parse" =>
       /\ \E starts \in SUBSET (1..leading) : ReadSoFar(starts)
       /\ \/ options.names = <<>> /\ index = leading + 1
          \/ /\ index = leading + 2
             /\ argv[leading + 1] \in NameArgs
             /\ options.names = <<argv[leading + 1]>>
       /\ index > 1 => Alone(argv) = "NAMED"
  /\ ParsesAsDocumented

Listed == {catalog[i] : i \in UserRecords}

(* While ~/.strange is read: built-in screensavers first, then what of the *)
(* directory is not left to read.                                          *)
CatalogInv ==
  /\ Len(Builtins) <= Len(catalog)
  /\ \A i \in 1..Len(catalog) :
       IF i <= Len(Builtins) THEN catalog[i] = BuiltinRecords[i]
                             ELSE catalog[i] \in {f \in Files : Classified(f)}
  /\ \A f \in steady \cap Artifacts : f \in unread \cup Listed
  /\ pc = "catalog" /\ ~ cut => unread \cap steady = {}
  /\ edits = 0 =>
       /\ unread \subseteq steady
       /\ steady = {f \in Files : directory[f] # "absent"}
       /\ \A f \in Files : directory[f] = "dangling" => f \in unread
       /\ Listed = Artifacts \ unread
       /\ \A i, j \in UserRecords : catalog[i] = catalog[j] => i = j

NothingRead ==
  /\ catalog = <<>> /\ chosen = NoRecord
  /\ unread = {} /\ steady = {} /\ edits = 0
  /\ directory = [f \in Files |-> "absent"]

(* What is loaded was asked for (StartsWhatWasAsked, before it starts).    *)
Asked ==
  LET names == {options.names[i] : i \in 1..Len(options.names)}
  IN /\ chosen.name \in names
     /\ edits = 0 => \A n \in names : \/ \E i \in 1..Len(Builtins) : Builtins[i] = n
                                      \/ \E f \in Artifacts : f.name = n

LoaderInv ==
  /\ pc \in {"parse", "dispatch", "opendir"} => NothingRead
  /\ pc \in {"readdir", "catalog"} => CatalogInv
  /\ pc \in {"load", "start"} => Asked
  /\ DirectoryDecides /\ UserFirst /\ StartsWhatWasAsked

LaunchInv == WithinArguments /\ EndsOnce /\ ParserInv /\ LoaderInv

-----------------------------------------------------------------------------
(* The catalog's memory.                                                   *)

(* ensure_catalog_capacity finds a capacity, and it is enough.             *)
LEMMA GrownIsEnough ==
  ASSUME NEW c \in Nat, NEW least \in Nat
  PROVE  Grown(c, least) \in Nat /\ Grown(c, least) >= least
<1> DEFINE first == IF c = 0 THEN InitialCapacity ELSE c
           sizes == {first * 2^n : n \in 0..least}
           large == {s \in sizes : s >= least}
<1>1. first \in Nat \ {0}
  BY LaunchAssumption
<1> HIDE DEF first
<1>2. \A n \in 0..least : first * 2^n \in Nat
  BY <1>1, DoublingReaches
<1>3. sizes \subseteq Nat
  BY <1>2
<1>4. first * 2^least \in large
  <2>1. least \in 0..least
    OBVIOUS
  <2>2. first * 2^least >= least
    BY <1>1, DoublingReaches
  <2> QED BY <2>1, <2>2
<1>5. \E s \in large : \A t \in large : s <= t
  <2>1. large \subseteq Nat /\ large # {}
    BY <1>3, <1>4
  <2> HIDE DEF large
  <2> QED BY <2>1, LeastOf
<1>6. \E s \in sizes : s >= least /\ \A t \in sizes : t >= least => s <= t
  BY <1>5
<1> DEFINE chosenSize == CHOOSE s \in sizes :
                           s >= least /\ \A t \in sizes : t >= least => s <= t
<1>7. chosenSize \in sizes /\ chosenSize >= least
  <2> HIDE DEF sizes
  <2> QED BY <1>6
<1>8. Grown(c, least) = IF c >= least THEN c ELSE chosenSize
  BY DEF Grown, first
<1> HIDE DEF sizes, chosenSize
<1> QED BY <1>3, <1>7, <1>8

-----------------------------------------------------------------------------
(* Types.                                                                  *)

LEMMA Bounds == MaxArgs \in Nat /\ MaxEdits \in Nat
BY LaunchAssumption, Zenon

LEMMA EmptyCatalog == <<>> \in Seq(Records) /\ 0 \in Nat /\ Len(<<>>) <= 0
OBVIOUS

LEMMA BuiltinRecordsTyped ==
  /\ BuiltinRecords \in Seq(Records) /\ Len(BuiltinRecords) = Len(Builtins)
  /\ Len(Builtins) \in Nat \ {0}
<1>1. Builtins \in Seq(NameArgs) /\ Builtins # <<>>
  BY LaunchAssumption
<1>2. Len(Builtins) \in Nat \ {0} /\ \A i \in 1..Len(Builtins) : Builtins[i] \in NameArgs
  BY <1>1, LenProperties, ElementOfSeq, EmptySeq
<1>3. \A i \in 1..Len(Builtins) :
        [name |-> Builtins[i], source |-> "BUILTIN"] \in Records
  BY <1>2 DEF Records
<1>4. BuiltinRecords \in [1..Len(Builtins) -> Records]
  BY <1>3 DEF BuiltinRecords
<1> QED BY <1>2, <1>4, IsASeq

(* strange_screensaver_catalog_find returns a record of that name, and     *)
(* none of that name is behind it.                                         *)
LEMMA FindsLast ==
  ASSUME catalog \in Seq(Records), NEW name, At(name) # {}
  PROVE  \E k \in 1..Len(catalog) :
           /\ Find(name) = catalog[k] /\ catalog[k].name = name
           /\ \A j \in 1..Len(catalog) : catalog[j].name = name => j <= k
<1>1. Len(catalog) \in Nat /\ At(name) \subseteq 0..Len(catalog)
  BY LenProperties DEF At
<1>2. \E i \in At(name) : \A j \in At(name) : j <= i
  BY <1>1, GreatestOf
<1> DEFINE k == CHOOSE i \in At(name) : \A j \in At(name) : j <= i
<1>3. k \in At(name) /\ \A j \in At(name) : j <= k
  BY <1>2
<1>4. Find(name) = catalog[k]
  BY DEF Find
<1> HIDE DEF k
<1> QED BY <1>3, <1>4 DEF At

LEMMA WithinInit == Init => WithinArguments
<1> SUFFICES ASSUME Init PROVE WithinArguments
  OBVIOUS
<1>1. PICK n \in 0..MaxArgs : argv \in [1..n -> Args]
  BY DEF Init
<1>2. argv \in Seq(Args) /\ Len(argv) = n
  BY <1>1, LaunchAssumption, IsASeq
<1>3. <<>> \in Seq(NameArgs) /\ <<>> \in Seq(Records) /\ Len(<<>>) = 0
  OBVIOUS
<1>4. options \in Options
  BY <1>3 DEF Init, DefaultOptions, Options, Commands
<1>5. directory \in [Files -> Conditions]
  BY DEF Init, Conditions
<1>6. index \in 1..(MaxArgs + 1) /\ leading \in 0..MaxArgs /\ edits \in 0..MaxEdits
  <2>1. index = 1 /\ leading = 0 /\ edits = 0
    BY DEF Init
  <2> QED BY ONLY <2>1, Bounds
<1>7. catalog \in Seq(Records) /\ capacity \in Nat /\ Len(catalog) <= capacity
  BY EmptyCatalog, Zenon DEF Init
<1>8. Len(argv) <= MaxArgs /\ index <= Len(argv) + 1 /\ leading < index
  <2>1. index = 1 /\ leading = 0 /\ n \in 0..MaxArgs
    BY DEF Init
  <2> QED BY ONLY <2>1, <1>2, Bounds
<1> QED BY <1>2, <1>4, <1>5, <1>6, <1>7, <1>8 DEF Init, WithinArguments, LaunchTypeOK

(* The parser's actions.                                                   *)
LEMMA WithinParse == WithinArguments /\ Parse => WithinArguments'
<1> SUFFICES ASSUME WithinArguments, Parse PROVE WithinArguments'
  OBVIOUS
<1>1. /\ argv \in Seq(Args) /\ Len(argv) \in Nat /\ Len(argv) <= MaxArgs
      /\ index \in Nat \ {0} /\ index <= Len(argv) + 1
      /\ leading \in Nat /\ leading < index /\ MaxArgs \in Nat
  <2>1. /\ argv \in Seq(Args) /\ Len(argv) <= MaxArgs
        /\ index \in 1..(MaxArgs + 1) /\ index <= Len(argv) + 1
        /\ leading \in 0..MaxArgs /\ leading < index
    BY DEF WithinArguments, LaunchTypeOK
  <2> QED BY ONLY <2>1, Bounds, LenProperties
<1>2. options \in Options
  BY DEF WithinArguments, LaunchTypeOK
<1>3. \A i \in 1..Len(argv) : argv[i] \in Args
  BY <1>1, ElementOfSeq
<1>4. /\ UNCHANGED <<argv, dirVars, catalogVars, chosen>>
      /\ pc' \in {"parse", "dispatch", "done"}
      /\ error' \in {error, "usage"} /\ outcome' \in {outcome, "error"}
  BY DEF WithinArguments, LaunchTypeOK, Parse, Help, Flag, DisableKey, Timeout,
     StatusOrList, Random, UnknownOption, Name, EndOfArguments, Rejected, Parsed,
     TakesOption, Parsing, parseVars
<1>5. index' \in Nat \ {0} /\ index' <= Len(argv) + 1 /\ leading' \in Nat /\ leading' < index'
  <2>1. CASE UNCHANGED <<index, leading>>
    BY <1>1, <2>1
  <2>2. CASE Parsing /\ index' = index + 1 /\ leading' \in {leading, leading + 1}
    BY <1>1, <2>2 DEF Parsing
  <2>3. CASE index < Len(argv) /\ index' = index + 2 /\ leading' = leading + 2
    BY <1>1, <2>3
  <2> QED BY <2>1, <2>2, <2>3 DEF Parse, Help, Flag, DisableKey, Timeout,
          StatusOrList, Random, UnknownOption, Name, EndOfArguments, Rejected,
          Parsed, TakesOption, parseVars
<1>6. options' \in Options
  <2>1. CASE Help
    BY <1>2, <2>1 DEF Help, Options, Commands
  <2>2. CASE Flag
    BY <1>2, <2>2 DEF Flag, Rejected, parseVars, Options
  <2>3. CASE DisableKey
    BY <1>2, <2>3 DEF DisableKey, Rejected, parseVars, Options
  <2>4. CASE Timeout
    BY <1>2, <2>4 DEF Timeout, Rejected, parseVars, Options
  <2>5. CASE StatusOrList
    BY <1>2, <2>5 DEF StatusOrList, Rejected, parseVars, Options, Commands
  <2>6. CASE Random
    <3> DEFINE names == SubSeq(argv, index + 1, Len(argv))
    <3>1. CASE UNCHANGED options
      BY <1>2, <3>1
    <3>2. CASE /\ \A i \in 1..Len(names) : names[i] \in NameArgs
               /\ options' = [options EXCEPT !.command = "RANDOM", !.names = names]
      <4>1. names \in Seq(Args)
        BY <1>1, SubSeqProperties
      <4> HIDE DEF names
      <4>2. Len(names) \in Nat /\ names = [i \in 1..Len(names) |-> names[i]]
        BY <4>1, LenProperties
      <4>3. names \in [1..Len(names) -> NameArgs]
        BY <3>2, <4>2
      <4>4. names \in Seq(NameArgs)
        BY <4>2, <4>3, IsASeq
      <4> QED BY <1>2, <3>2, <4>4 DEF Options, Commands
    <3> QED BY <2>6, <3>1, <3>2 DEF Random, Rejected, parseVars
  <2>7. CASE Name
    <3>1. CASE UNCHANGED options
      BY <1>2, <3>1
    <3>2. CASE Arg \in NameArgs /\ options' = [options EXCEPT !.names = <<Arg>>]
      <4>1. <<Arg>> \in Seq(NameArgs)
        BY <3>2
      <4> QED BY <1>2, <3>2, <4>1 DEF Options
    <3> QED BY <2>7, <3>1, <3>2 DEF Name, Rejected, parseVars
  <2>8. CASE UnknownOption \/ EndOfArguments
    BY <1>2, <2>8 DEF UnknownOption, EndOfArguments, Rejected, parseVars
  <2> QED BY <2>1, <2>2, <2>3, <2>4, <2>5, <2>6, <2>7, <2>8 DEF Parse
<1>7. LaunchTypeOK'
  <2>1. index' \in 1..(MaxArgs + 1) /\ leading' \in 0..MaxArgs
    BY <1>1, <1>5
  <2> QED BY <1>4, <1>6, <2>1
          DEF WithinArguments, LaunchTypeOK, dirVars, catalogVars
<1> QED BY <1>1, <1>4, <1>5, <1>7 DEF WithinArguments

(* The other actions.                                                      *)
LEMMA WithinFails ==
  ASSUME WithinArguments, NEW e \in {"memory", "directory", "artifact", "conflict",
                                     "unknown", "load"},
         Fails(e), unread' \subseteq Files
  PROVE  WithinArguments'
<1>1. catalog' \in Seq(Records) /\ capacity' \in Nat /\ Len(catalog') <= capacity'
  BY EmptyCatalog DEF Fails
<1> QED BY <1>1 DEF WithinArguments, LaunchTypeOK, Fails, parseVars

LEMMA WithinDirectory ==
  ASSUME WithinArguments,
         OpenDirectory \/ OpenFails \/ ReadFails \/ EndOfDirectory \/ ReaddirFails
           \/ PrintList
  PROVE  WithinArguments'
<1> USE DEF dirVars, catalogVars, parseVars
<1>1. CASE OpenDirectory
  <2>1. catalog' \in Seq(Records) /\ capacity' \in Nat /\ Len(catalog') <= capacity'
    BY <1>1, BuiltinRecordsTyped, GrownIsEnough DEF OpenDirectory
  <2>2. /\ directory' \in [Files -> Conditions]
        /\ unread' \subseteq Files /\ steady' \subseteq Files
        /\ pc' \in {"readdir", "catalog"}
    BY <1>1 DEF OpenDirectory, WithinArguments, LaunchTypeOK
  <2> QED BY <1>1, <2>1, <2>2 DEF OpenDirectory, WithinArguments, LaunchTypeOK
<1>2. CASE OpenFails \/ ReadFails
  BY <1>2, WithinFails DEF OpenFails, ReadFails, WithinArguments, LaunchTypeOK
<1>3. CASE EndOfDirectory \/ ReaddirFails
  BY <1>3 DEF EndOfDirectory, ReaddirFails, WithinArguments, LaunchTypeOK
<1>4. CASE PrintList
  <2>1. catalog' \in Seq(Records) /\ capacity' \in Nat /\ Len(catalog') <= capacity'
    BY <1>4, EmptyCatalog DEF PrintList
  <2> QED BY <1>4, <2>1 DEF PrintList, WithinArguments, LaunchTypeOK
<1> QED BY <1>1, <1>2, <1>3, <1>4

LEMMA ArtifactIsRecord ==
  ASSUME NEW f \in Files, Classified(f)
  PROVE  f \in Records /\ f.source \in UserSources
BY LaunchAssumption DEF Classified, Records, UserSources

LEMMA WithinEntry ==
  ASSUME WithinArguments, NEW f \in Files, ReadEntry(f)
  PROVE  WithinArguments'
<1> USE DEF dirVars, catalogVars, parseVars
<1>1. unread' \subseteq Files
  BY DEF ReadEntry, WithinArguments, LaunchTypeOK
<1>2. CASE Fails("artifact") \/ Fails("conflict")
  BY <1>1, <1>2, WithinFails
<1>3. CASE UNCHANGED <<pc, parseVars, directory, steady, edits, cut, catalogVars,
                       chosen, error, outcome>>
  BY <1>1, <1>3 DEF WithinArguments, LaunchTypeOK
<1>4. CASE /\ Classified(f)
           /\ catalog' = Append(catalog, f) /\ capacity' = RoomForOneMore
           /\ UNCHANGED <<pc, parseVars, directory, steady, edits, cut, chosen, error,
                          outcome>>
  <2>1. catalog \in Seq(Records) /\ Len(catalog) \in Nat /\ capacity \in Nat
    BY LenProperties DEF WithinArguments, LaunchTypeOK
  <2>2. catalog' \in Seq(Records) /\ Len(catalog') = Len(catalog) + 1
    BY <1>4, <2>1, ArtifactIsRecord, AppendProperties
  <2>3. capacity' \in Nat /\ capacity' >= Len(catalog) + 1
    BY <1>4, <2>1, GrownIsEnough DEF RoomForOneMore
  <2> QED BY <1>1, <1>4, <2>1, <2>2, <2>3 DEF WithinArguments, LaunchTypeOK
<1> QED BY <1>2, <1>3, <1>4 DEF ReadEntry

LEMMA WithinLoader ==
  ASSUME WithinArguments, Dispatch \/ Resolve \/ Unknown \/ Load \/ LoadFails \/ Start
  PROVE  WithinArguments'
<1> USE DEF dirVars, catalogVars, parseVars
<1>1. CASE Dispatch
  <2>1. argv' \in Seq(Args) /\ Len(argv') = 0
    BY <1>1 DEF Dispatch
  <2>2. /\ index' \in 1..(MaxArgs + 1) /\ leading' \in 0..MaxArgs
        /\ 0 <= MaxArgs /\ index' <= 0 + 1 /\ leading' < index'
    BY <1>1, Bounds DEF Dispatch
  <2>3. /\ pc' \in {"done", "opendir"}
        /\ outcome' \in {outcome, "help", "status"}
        /\ UNCHANGED <<options, dirVars, catalogVars, chosen, error>>
    BY <1>1 DEF Dispatch
  <2> QED BY <2>1, <2>2, <2>3 DEF WithinArguments, LaunchTypeOK, WithinArguments, LaunchTypeOK
<1>2. CASE Resolve
  <2>1. catalog \in Seq(Records)
    BY DEF WithinArguments, LaunchTypeOK
  <2>2. \A k \in 1..Len(catalog) : catalog[k] \in Records
    BY <2>1, ElementOfSeq
  <2>3. chosen' \in Records
    BY <1>2, <2>1, <2>2, FindsLast DEF Resolve
  <2> QED BY <1>2, <2>3 DEF Resolve, WithinArguments, LaunchTypeOK
<1>3. CASE Unknown \/ LoadFails
  BY <1>3, WithinFails DEF Unknown, LoadFails, WithinArguments, LaunchTypeOK
<1>4. CASE Load
  <2>1. catalog' \in Seq(Records) /\ capacity' \in Nat /\ Len(catalog') <= capacity'
    BY <1>4, EmptyCatalog DEF Load
  <2> QED BY <1>4, <2>1 DEF Load, WithinArguments, LaunchTypeOK
<1>5. CASE Start
  <2>1. outcome' \in {"not a terminal", "preview", "nested", "run"}
    BY <1>5 DEF Start
  <2> QED BY <1>5, <2>1 DEF Start, WithinArguments, LaunchTypeOK
<1> QED BY <1>1, <1>2, <1>3, <1>4, <1>5

LEMMA WithinEdit ==
  ASSUME WithinArguments, NEW f \in Files, NEW c \in Conditions, Edit(f, c)
  PROVE  WithinArguments'
<1>1. directory' \in [Files -> Conditions]
  BY DEF Edit, WithinArguments, LaunchTypeOK
<1>2. unread' \subseteq Files /\ steady' \subseteq Files
  BY DEF Edit, WithinArguments, LaunchTypeOK
<1>3. edits' \in 0..MaxEdits
  <2>1. edits \in 0..MaxEdits /\ edits < MaxEdits /\ edits' = edits + 1
    BY DEF Edit, WithinArguments, LaunchTypeOK
  <2> QED BY ONLY <2>1, Bounds
<1> QED BY <1>1, <1>2, <1>3
        DEF Edit, WithinArguments, LaunchTypeOK, parseVars, catalogVars

(* Types, the catalog's memory and the parser's place in the arguments.    *)
LEMMA WithinAlways == Spec => []WithinArguments
<1>1. WithinArguments /\ [Next]_vars => WithinArguments'
  <2> SUFFICES ASSUME WithinArguments, [Next]_vars PROVE WithinArguments'
    OBVIOUS
  <2>1. CASE UNCHANGED vars
    BY <2>1 DEF vars, parseVars, dirVars, catalogVars, WithinArguments, LaunchTypeOK
  <2> QED BY <2>1, WithinParse, WithinDirectory, WithinEntry, WithinLoader, WithinEdit
          DEF Next, Done
<1> QED BY <1>1, WithinInit, PTL DEF Spec

LEMMA EndsOnceAlways == Spec => []EndsOnce
<1>1. Init => EndsOnce
  BY DEF Init, EndsOnce
<1>2. EndsOnce /\ [Next]_vars => EndsOnce'
  <2> SUFFICES ASSUME EndsOnce, [Next]_vars PROVE EndsOnce'
    OBVIOUS
  <2>1. CASE Parse
    BY <2>1 DEF EndsOnce, Parse, Help, Flag, DisableKey, Timeout, StatusOrList,
       Random, UnknownOption, Name, EndOfArguments, Rejected, Parsed, TakesOption,
       Parsing
  <2>2. CASE Dispatch \/ OpenDirectory \/ OpenFails \/ ReadFails \/ EndOfDirectory
               \/ ReaddirFails
    BY <2>2 DEF EndsOnce, Dispatch, OpenDirectory, OpenFails, ReadFails,
       EndOfDirectory, ReaddirFails, Fails
  <2>3. CASE PrintList \/ Resolve \/ Unknown \/ Load \/ LoadFails \/ Start
    BY <2>3 DEF EndsOnce, PrintList, Resolve, Unknown, Load, LoadFails, Start, Fails
  <2>4. ASSUME NEW f \in Files, ReadEntry(f) PROVE EndsOnce'
    BY <2>4 DEF EndsOnce, ReadEntry, Fails
  <2>5. ASSUME NEW f \in Files, NEW c \in Conditions, Edit(f, c) PROVE EndsOnce'
    BY <2>5 DEF EndsOnce, Edit
  <2>6. CASE UNCHANGED vars
    BY <2>6 DEF EndsOnce, vars
  <2> QED BY <2>1, <2>2, <2>3, <2>4, <2>5, <2>6 DEF Next, Done
<1> QED BY <1>1, <1>2, PTL DEF Spec

-----------------------------------------------------------------------------
(* The catalog.                                                            *)

LEMMA LoaderInit == Init => LoaderInv
<1> SUFFICES ASSUME Init PROVE LoaderInv
  OBVIOUS
<1>1. NothingRead /\ pc = "parse" /\ error = "" /\ outcome = ""
  BY DEF Init, NothingRead
<1>2. UserRecords = {}
  <2>1. catalog = <<>> /\ Len(catalog) = 0
    BY <1>1 DEF NothingRead
  <2> QED BY <2>1 DEF UserRecords
<1>3. DirectoryDecides
  BY <1>1, <1>2 DEF DirectoryDecides
<1>4. UserFirst
  BY <1>1 DEF UserFirst, NothingRead, NoRecord
<1> QED BY <1>1, <1>3, <1>4 DEF LoaderInv, StartsWhatWasAsked

(* Before ~/.strange is opened there is nothing to go wrong.               *)
LEMMA LoaderParses ==
  ASSUME LoaderInv, EndsOnce, Parse \/ Dispatch
  PROVE  LoaderInv'
<1>1. pc \in {"parse", "dispatch"} /\ error = "" /\ outcome = ""
  BY DEF EndsOnce, Parse, Help, Flag, DisableKey, Timeout, StatusOrList,
     Random, UnknownOption, Name, EndOfArguments, Parsing, Dispatch
<1>2. /\ UNCHANGED <<dirVars, catalogVars, chosen>>
      /\ pc' \in {"parse", "dispatch", "opendir", "done"}
      /\ error' \in {"", "usage"} /\ outcome' \in {"", "error", "help", "status"}
  BY <1>1 DEF Parse, Help, Flag, DisableKey, Timeout, StatusOrList, Random,
     UnknownOption, Name, EndOfArguments, Rejected, Parsed, TakesOption, Parsing,
     Dispatch, parseVars
<1>3. NothingRead
  BY <1>1 DEF LoaderInv
<1>4. NothingRead'
  BY <1>2, <1>3 DEF NothingRead, dirVars, catalogVars
<1>5. UserRecords' = {}
  BY <1>4 DEF NothingRead, UserRecords
<1>6. DirectoryDecides'
  BY <1>2, <1>5 DEF DirectoryDecides
<1>7. UserFirst'
  BY <1>4 DEF UserFirst, NothingRead, NoRecord
<1> QED BY <1>2, <1>4, <1>6, <1>7 DEF LoaderInv, StartsWhatWasAsked

(* A failure leaves no catalog behind, and what was there of the directory *)
(* and what was chosen stay as they are.                                   *)
LEMMA LoaderFails ==
  ASSUME LoaderInv, NEW e, Fails(e),
         edits = 0 /\ e \in {"artifact", "conflict"} => Unusable
  PROVE  LoaderInv'
<1>1. /\ pc' = "done" /\ outcome' = "error" /\ error' = e /\ catalog' = <<>>
      /\ UNCHANGED <<directory, steady, edits, cut, chosen>>
  BY DEF Fails
<1>2. UserRecords' = {}
  BY <1>1 DEF UserRecords
<1>3. Artifacts' = Artifacts /\ Unusable' = Unusable
  BY <1>1 DEF Artifacts, Unusable, Classified
<1>4. DirectoryDecides'
  BY <1>1, <1>2, <1>3 DEF DirectoryDecides
<1>5. UserFirst'
  BY <1>1, <1>3 DEF UserFirst, LoaderInv
<1> QED BY <1>1, <1>4, <1>5 DEF LoaderInv, StartsWhatWasAsked

LEMMA LoaderOpens ==
  ASSUME LoaderInv, EndsOnce, OpenDirectory
  PROVE  LoaderInv'
<1>1. NothingRead /\ error = "" /\ outcome = ""
  BY DEF LoaderInv, EndsOnce, OpenDirectory
<1>2. catalog' = BuiltinRecords /\ UNCHANGED <<edits, cut, chosen, error, outcome>>
  BY DEF OpenDirectory
<1>3. \A i \in 1..Len(catalog') : i <= Len(Builtins) /\ catalog'[i].source = "BUILTIN"
  BY <1>2, BuiltinRecordsTyped DEF BuiltinRecords
<1>4. UserRecords' = {} /\ Listed' = {}
  BY <1>3 DEF UserRecords, Listed
<1>5. pc' \in {"readdir", "catalog"}
  BY DEF OpenDirectory
<1>6. /\ unread' = steady'
      /\ steady' = {f \in Files : directory'[f] # "absent"}
      /\ pc' = "catalog" => steady' = {} /\ \A f \in Files : directory'[f] = "absent"
  <2>1. CASE /\ pc' = "readdir"
             /\ unread' = {f \in Files : directory'[f] # "absent"}
             /\ steady' = unread'
    BY <2>1
  <2>2. CASE pc' = "catalog" /\ UNCHANGED <<directory, unread, steady>>
    BY <1>1, <2>2 DEF NothingRead
  <2> QED BY <2>1, <2>2 DEF OpenDirectory
<1>7. Artifacts' \subseteq unread'
  BY <1>6 DEF Artifacts
<1>8. CatalogInv'
  <2>1. \A i \in 1..Len(catalog') : i <= Len(Builtins) /\ catalog'[i] = BuiltinRecords[i]
    BY <1>2, <1>3
  <2>2. \A f \in Files : directory'[f] = "dangling" => f \in unread'
    BY <1>6
  <2>3. Len(Builtins) <= Len(catalog')
    BY <1>2, BuiltinRecordsTyped
  <2> QED BY <1>4, <1>6, <1>7, <2>1, <2>2, <2>3 DEF CatalogInv
<1>9. DirectoryDecides'
  <2>1. pc' = "catalog" => ~ Unusable' /\ Artifacts' = {}
    BY <1>6 DEF Unusable, Artifacts
  <2>2. Listed' = {catalog'[i] : i \in UserRecords'}
    BY DEF Listed
  <2> QED BY <1>1, <1>2, <1>4, <2>1, <2>2 DEF DirectoryDecides
<1>10. UserFirst'
  BY <1>1, <1>2 DEF UserFirst, NothingRead, NoRecord
<1> QED BY <1>1, <1>2, <1>5, <1>8, <1>9, <1>10 DEF LoaderInv, StartsWhatWasAsked

(* The new record is a user record, behind those there were.               *)
LEMMA Appended ==
  ASSUME catalog \in Seq(Records), NEW f \in Records, f.source # "BUILTIN",
         catalog' = Append(catalog, f)
  PROVE  /\ UserRecords' = UserRecords \cup {Len(catalog) + 1}
         /\ Len(catalog') = Len(catalog) + 1 /\ Len(catalog) \in Nat
         /\ catalog'[Len(catalog) + 1] = f
         /\ \A i \in 1..Len(catalog) : catalog'[i] = catalog[i]
         /\ Listed' = Listed \cup {f}
<1>1. /\ Len(catalog) \in Nat /\ Len(catalog') = Len(catalog) + 1
      /\ catalog'[Len(catalog) + 1] = f
      /\ \A i \in 1..Len(catalog) : catalog'[i] = catalog[i]
  BY AppendProperties, LenProperties
<1>2. UserRecords' = UserRecords \cup {Len(catalog) + 1}
  BY <1>1 DEF UserRecords
<1>3. UserRecords \subseteq 1..Len(catalog)
  BY DEF UserRecords
<1>4. Listed' = {catalog'[i] : i \in UserRecords'}
  BY DEF Listed
<1>5. Listed' = Listed \cup {f}
  BY <1>1, <1>2, <1>3, <1>4 DEF Listed
<1> QED BY <1>1, <1>2, <1>5

(* An entry is read: the catalog has it, it is refused, or it is nothing   *)
(* to strange.                                                             *)
LEMMA LoaderReads ==
  ASSUME LoaderInv, WithinArguments, EndsOnce, NEW f \in Files, ReadEntry(f)
  PROVE  LoaderInv'
<1> USE DEF dirVars, catalogVars, parseVars
<1>1. /\ pc = "readdir" /\ f \in unread /\ unread' = unread \ {f}
      /\ CatalogInv /\ error = "" /\ outcome = "" /\ DirectoryDecides /\ UserFirst
  BY DEF ReadEntry, LoaderInv, EndsOnce
<1>2. CASE directory[f] \in {"absent", "dangling"} /\ Fails("artifact")
  <2>1. edits = 0 => Unusable
    BY <1>1, <1>2 DEF CatalogInv, Unusable
  <2> QED BY <1>2, <2>1, LoaderFails
<1>3. CASE /\ directory[f] # "dangling" /\ (directory[f] = "special" \/ ~ Classified(f))
           /\ UNCHANGED <<pc, parseVars, directory, steady, edits, cut, catalogVars,
                          chosen, error, outcome>>
  <2>1. UserRecords' = UserRecords /\ Listed' = Listed /\ Artifacts' = Artifacts
    BY <1>3 DEF UserRecords, Listed, Artifacts, Classified
  <2>2. f \notin Artifacts
    BY <1>3 DEF Artifacts
  <2>3. CatalogInv'
    BY <1>1, <1>3, <2>1, <2>2 DEF CatalogInv, BuiltinRecords, Classified
  <2>4. DirectoryDecides'
    BY <1>1, <1>3, <2>1 DEF DirectoryDecides
  <2>5. UserFirst'
    BY <1>1, <1>3, <2>1 DEF UserFirst
  <2> QED BY <1>1, <1>3, <2>3, <2>4, <2>5 DEF LoaderInv, StartsWhatWasAsked
<1>4. CASE /\ directory[f] = "regular" /\ Classified(f)
           /\ \E i \in FindUserRecord(f.name) : catalog[i].source # f.source
           /\ Fails("conflict")
  <2>1. PICK i \in UserRecords : catalog[i].name = f.name /\ catalog[i].source # f.source
    BY <1>4 DEF FindUserRecord, UserRecords
  <2>2. catalog[i] \in Listed /\ f \in Artifacts
    BY <1>4, <2>1 DEF Listed, Artifacts
  <2>3. edits = 0 => catalog[i] \in Artifacts
    BY <1>1, <2>2 DEF CatalogInv
  <2>4. edits = 0 => Unusable
    BY <2>1, <2>2, <2>3 DEF Unusable
  <2> QED BY <1>4, <2>4, LoaderFails
<1>5. CASE /\ directory[f] = "regular" /\ Classified(f)
           /\ \A i \in FindUserRecord(f.name) : catalog[i].source = f.source
           /\ catalog' = Append(catalog, f)
           /\ UNCHANGED <<pc, parseVars, directory, steady, edits, cut,
                          chosen, error, outcome>>
  <2>1. catalog \in Seq(Records)
    BY DEF WithinArguments, LaunchTypeOK
  <2>2. f \in Records /\ f.source # "BUILTIN"
    BY <1>5, ArtifactIsRecord DEF UserSources
  <2> DEFINE n == Len(catalog) + 1
  <2>3. /\ UserRecords' = UserRecords \cup {n} /\ Listed' = Listed \cup {f}
        /\ Len(catalog') = n /\ n - 1 = Len(catalog) /\ Len(catalog) \in Nat /\ catalog'[n] = f
        /\ \A i \in 1..(n - 1) : catalog'[i] = catalog[i]
    BY <1>5, <2>1, <2>2, Appended
  <2>4. UserRecords \subseteq 1..(n - 1)
    BY <2>1, LenProperties DEF UserRecords
  <2>5. Artifacts' = Artifacts /\ f \in Artifacts
    BY <1>5 DEF Artifacts, Classified
  <2>6. Len(Builtins) <= Len(catalog)
    BY <1>1 DEF CatalogInv
  <2> HIDE DEF n
  <2>7. CatalogInv'
    <3>1. \A i \in 1..Len(catalog') :
            IF i <= Len(Builtins) THEN catalog'[i] = BuiltinRecords[i]
                                  ELSE catalog'[i] \in {g \in Files : Classified(g)}
      <4> TAKE i \in 1..Len(catalog')
      <4>1. CASE i \in 1..(n - 1)
        BY <1>1, <2>3, <4>1 DEF CatalogInv
      <4>2. CASE i = n
        <5>1. ~ (n <= Len(Builtins))
          BY <2>3, <2>6, BuiltinRecordsTyped DEF n
        <5> QED BY <1>5, <2>3, <4>2, <5>1
      <4>3. i \in 1..(n - 1) \/ i = n
        BY <2>3
      <4> QED BY <4>1, <4>2, <4>3
    <3>2. edits = 0 => \A i, j \in UserRecords' : catalog'[i] = catalog'[j] => i = j
      <4> SUFFICES ASSUME edits = 0, NEW i \in UserRecords', NEW j \in UserRecords',
                          catalog'[i] = catalog'[j]
                   PROVE  i = j
        OBVIOUS
      <4>1. \A k \in UserRecords : catalog'[k] = catalog[k] /\ catalog[k] # f
        <5> TAKE k \in UserRecords
        <5>1. catalog[k] \in Listed /\ f \notin Listed
          BY <1>1 DEF Listed, CatalogInv
        <5> QED BY <2>3, <2>4, <5>1
      <4>2. \A k, l \in UserRecords : catalog[k] = catalog[l] => k = l
        BY <1>1 DEF CatalogInv
      <4>3. i \in UserRecords \cup {n} /\ j \in UserRecords \cup {n} /\ catalog'[n] = f
        BY <2>3
      <4> QED BY <4>1, <4>2, <4>3
    <3>3. edits = 0 => /\ unread' \subseteq steady'
                       /\ steady' = {g \in Files : directory'[g] # "absent"}
                       /\ \A g \in Files : directory'[g] = "dangling" => g \in unread'
                       /\ Listed' = Artifacts' \ unread'
      BY <1>1, <1>5, <2>3, <2>5 DEF CatalogInv
    <3>4. \A g \in steady' \cap Artifacts' : g \in unread' \cup Listed'
      BY <1>1, <1>5, <2>3, <2>5 DEF CatalogInv
    <3>5. Len(Builtins) <= Len(catalog')
      BY <2>3, <2>6, BuiltinRecordsTyped
    <3>6. pc' # "catalog" /\ edits' = edits
      BY <1>1, <1>5
    <3> QED BY <3>1, <3>2, <3>3, <3>4, <3>5, <3>6 DEF CatalogInv
  <2>8. DirectoryDecides'
    <3>4. \A i, j \in UserRecords :
            catalog[i].name = catalog[j].name => catalog[i].source = catalog[j].source
      BY <1>1 DEF DirectoryDecides
    <3>1. \A i \in UserRecords : catalog'[i] = catalog[i]
      BY <2>3, <2>4
    <3>2. \A i \in UserRecords : catalog[i].name = f.name => catalog[i].source = f.source
      BY <1>5 DEF FindUserRecord, UserRecords
    <3>3. \A i, j \in UserRecords' :
            catalog'[i].name = catalog'[j].name => catalog'[i].source = catalog'[j].source
      <4> TAKE i \in UserRecords', j \in UserRecords'
      <4>1. CASE i \in UserRecords /\ j \in UserRecords
        BY <3>1, <3>4, <4>1
      <4>2. CASE i = n \/ j = n
        BY <2>3, <3>1, <3>2, <4>2
      <4> QED BY <2>3, <4>1, <4>2
    <3> QED BY <1>1, <1>5, <3>3 DEF DirectoryDecides
  <2>9. UserFirst'
    BY <1>1, <1>5, <2>5 DEF UserFirst
  <2> QED BY <1>1, <1>5, <2>7, <2>8, <2>9 DEF LoaderInv, StartsWhatWasAsked
<1>6. directory[f] \in Conditions
  BY DEF WithinArguments, LaunchTypeOK
<1>7. CASE directory[f] \in {"absent", "dangling"}
  <2>1. Fails("artifact")
    BY <1>7 DEF ReadEntry
  <2> QED BY <1>2, <1>7, <2>1
<1>8. CASE directory[f] \notin {"absent", "dangling"} /\ (directory[f] = "special" \/ ~ Classified(f))
  BY <1>3, <1>8 DEF ReadEntry
<1>9. CASE directory[f] = "regular" /\ Classified(f)
  BY <1>4, <1>5, <1>9 DEF ReadEntry
<1> QED BY <1>6, <1>7, <1>8, <1>9 DEF Conditions

LEMMA LoaderEnds ==
  ASSUME LoaderInv, EndsOnce, EndOfDirectory
  PROVE  LoaderInv'
<1> USE DEF dirVars, catalogVars, parseVars
<1>1. /\ CatalogInv /\ DirectoryDecides /\ UserFirst /\ error = "" /\ outcome = ""
      /\ pc' = "catalog" /\ unread \cap steady = {}
      /\ UNCHANGED <<parseVars, dirVars, catalogVars, chosen, error, outcome>>
  BY DEF EndOfDirectory, LoaderInv, EndsOnce
<1>2. UserRecords' = UserRecords /\ Listed' = Listed /\ Artifacts' = Artifacts
  BY <1>1 DEF UserRecords, Listed, Artifacts, Classified
<1>3. CatalogInv'
  BY <1>1, <1>2 DEF CatalogInv, BuiltinRecords, Classified
<1>4. edits = 0 => unread = {} /\ Listed = Artifacts
  BY <1>1 DEF CatalogInv
<1>5. \A i, j \in UserRecords :
        catalog[i].name = catalog[j].name => catalog[i].source = catalog[j].source
  BY <1>1 DEF DirectoryDecides
<1>6. edits = 0 => ~ Unusable
  <2> SUFFICES ASSUME edits = 0 PROVE ~ Unusable
    OBVIOUS
  <2>1. \A f \in Files : directory[f] # "dangling"
    BY <1>1, <1>4 DEF CatalogInv
  <2>2. \A f, g \in Artifacts : f.name = g.name => f = g
    <3> SUFFICES ASSUME NEW f \in Artifacts, NEW g \in Artifacts, f.name = g.name
                 PROVE  f = g
      OBVIOUS
    <3>1. PICK i \in UserRecords : catalog[i] = f
      BY <1>4 DEF Listed
    <3>2. PICK j \in UserRecords : catalog[j] = g
      BY <1>4 DEF Listed
    <3>3. f.source = g.source
      BY <1>5, <3>1, <3>2
    <3>4. \A h \in Artifacts : h \in Records
      BY ArtifactIsRecord DEF Artifacts
    <3> QED BY <3>3, <3>4 DEF Records
  <2> QED BY <2>1, <2>2 DEF Unusable
<1>7. edits = 0 => /\ {catalog[i] : i \in UserRecords} = Artifacts
                   /\ \A i, j \in UserRecords : catalog[i] = catalog[j] => i = j
  BY <1>1, <1>4 DEF CatalogInv, Listed
<1>8. Unusable' = Unusable
  BY <1>1, <1>2 DEF Unusable
<1>9. DirectoryDecides'
  BY <1>1, <1>2, <1>5, <1>6, <1>7, <1>8 DEF DirectoryDecides
<1>10. UserFirst'
  BY <1>1, <1>2 DEF UserFirst
<1> QED BY <1>1, <1>3, <1>9, <1>10 DEF LoaderInv, StartsWhatWasAsked

(* readdir fails: what was read is as it was.                              *)
LEMMA LoaderCut ==
  ASSUME LoaderInv, EndsOnce, ReaddirFails
  PROVE  LoaderInv'
<1> USE DEF dirVars, catalogVars, parseVars
<1>1. /\ CatalogInv /\ DirectoryDecides /\ error = "" /\ outcome = ""
      /\ pc' = "catalog" /\ cut'
      /\ UNCHANGED <<directory, unread, steady, edits, catalog, error, outcome>>
  BY DEF ReaddirFails, LoaderInv, EndsOnce
<1>2. UserRecords' = UserRecords /\ Listed' = Listed /\ Artifacts' = Artifacts
  BY <1>1 DEF UserRecords, Listed, Artifacts, Classified
<1>3. CatalogInv'
  BY <1>1, <1>2 DEF CatalogInv, BuiltinRecords, Classified
<1>4. edits = 0 => /\ {catalog[i] : i \in UserRecords} \subseteq Artifacts
                   /\ \A i, j \in UserRecords : catalog[i] = catalog[j] => i = j
  BY <1>1 DEF CatalogInv, Listed
<1>5. DirectoryDecides'
  BY <1>1, <1>2, <1>4 DEF DirectoryDecides
<1>6. UserFirst'
  BY <1>1 DEF UserFirst
<1> QED BY <1>1, <1>3, <1>5, <1>6 DEF LoaderInv, StartsWhatWasAsked

(* The user changes the directory.  What is still steady is as it was.     *)
LEMMA LoaderEdits ==
  ASSUME LoaderInv, WithinArguments, EndsOnce,
         NEW f \in Files, NEW c \in Conditions, Edit(f, c)
  PROVE  LoaderInv'
<1>1. /\ pc \in {"readdir", "catalog", "load"} /\ error = "" /\ outcome = ""
      /\ UNCHANGED <<pc, parseVars, cut, catalogVars, chosen, error, outcome>>
      /\ steady' = steady \ {f} /\ unread \subseteq unread'
      /\ directory' = [directory EXCEPT ![f] = c]
      /\ DirectoryDecides /\ UserFirst
  BY DEF Edit, LoaderInv, EndsOnce
<1>2. edits' # 0
  <2>1. edits \in 0..MaxEdits /\ edits' = edits + 1
    BY DEF Edit, WithinArguments, LaunchTypeOK
  <2> QED BY ONLY <2>1, Bounds
<1>3. \A g \in Files : g \in steady' \cap Artifacts' => g \in steady \cap Artifacts
  <2>1. directory \in [Files -> Conditions]
    BY DEF WithinArguments, LaunchTypeOK
  <2> QED BY <1>1, <2>1 DEF Artifacts, Classified
<1>4. UserRecords' = UserRecords /\ Listed' = Listed
  BY <1>1 DEF UserRecords, Listed, catalogVars
<1>5. pc \in {"readdir", "catalog"} => CatalogInv'
  <2> SUFFICES ASSUME pc \in {"readdir", "catalog"} PROVE CatalogInv'
    OBVIOUS
  <2>1. CatalogInv /\ catalog' = catalog
    BY <1>1 DEF LoaderInv, catalogVars
  <2>2. /\ Len(Builtins) <= Len(catalog')
        /\ \A i \in 1..Len(catalog') :
             IF i <= Len(Builtins) THEN catalog'[i] = BuiltinRecords[i]
                                   ELSE catalog'[i] \in {g \in Files : Classified(g)}
    BY <2>1 DEF CatalogInv
  <2>3. \A g \in steady' \cap Artifacts' : g \in unread' \cup Listed'
    <3> TAKE g \in steady' \cap Artifacts'
    <3>1. g \in Files
      BY DEF Artifacts
    <3> QED BY <1>1, <1>3, <1>4, <2>1, <3>1 DEF CatalogInv
  <2>4. pc' = "catalog" /\ ~ cut' => unread' \cap steady' = {}
    <3> SUFFICES ASSUME pc' = "catalog", ~ cut' PROVE unread' \cap steady' = {}
      OBVIOUS
    <3>1. pc = "catalog" /\ ~ cut
      BY <1>1
    <3>2. unread' = unread
      BY <3>1 DEF Edit
    <3>3. unread \cap steady = {}
      BY <2>1, <3>1 DEF CatalogInv
    <3> QED BY <1>1, <3>2, <3>3
  <2> QED BY <1>2, <2>2, <2>3, <2>4 DEF CatalogInv
<1>6. DirectoryDecides'
  BY <1>1, <1>2, <1>4 DEF DirectoryDecides, catalogVars
<1>7. UserFirst'
  <2> SUFFICES ASSUME chosen.source = "BUILTIN", ~ cut,
                      NEW g \in steady' \cap Artifacts', g.name = chosen.name
               PROVE  FALSE
    BY <1>1 DEF UserFirst
  <2>1. g \in Files
    BY DEF Artifacts
  <2> QED BY <1>1, <1>3, <2>1 DEF UserFirst
<1>8. Asked => Asked'
  BY <1>1, <1>2 DEF Asked, parseVars
<1> QED BY <1>1, <1>5, <1>6, <1>7, <1>8 DEF LoaderInv, StartsWhatWasAsked

(* The record that is found: the last of its name, so the user's if the    *)
(* user has one, and every name asked for is known.                        *)
LEMMA LoaderResolves ==
  ASSUME LoaderInv, WithinArguments, EndsOnce, Resolve
  PROVE  LoaderInv'
<1> USE DEF dirVars, catalogVars, parseVars
<1>1. /\ pc = "catalog" /\ pc' = "load" /\ CatalogInv /\ DirectoryDecides
      /\ error = "" /\ outcome = ""
      /\ UNCHANGED <<parseVars, dirVars, catalogVars, error, outcome>>
      /\ \A i \in 1..Len(options.names) : At(options.names[i]) # {}
  BY DEF Resolve, LoaderInv, EndsOnce, AllKnown
<1>2. catalog \in Seq(Records) /\ Len(catalog) \in Nat
  BY LenProperties DEF WithinArguments, LaunchTypeOK
<1>3. PICK n \in 1..Len(options.names) : chosen' = Find(options.names[n])
  BY DEF Resolve
<1> DEFINE name == options.names[n]
<1>4. PICK k \in 1..Len(catalog) :
        /\ chosen' = catalog[k] /\ catalog[k].name = name
        /\ \A j \in 1..Len(catalog) : catalog[j].name = name => j <= k
  BY <1>1, <1>2, <1>3, FindsLast
<1> HIDE DEF name
<1>5. UserRecords' = UserRecords /\ Artifacts' = Artifacts /\ Unusable' = Unusable
  BY <1>1 DEF UserRecords, Artifacts, Unusable, Classified
<1>6. \A i \in 1..Len(catalog) :
         IF i <= Len(Builtins) THEN catalog[i] = BuiltinRecords[i]
                               ELSE catalog[i] \in {f \in Files : Classified(f)}
  BY <1>1 DEF CatalogInv
<1>7. \A i \in 1..Len(catalog) :
         i <= Len(Builtins) => /\ i \in 1..Len(Builtins)
                               /\ catalog[i] = [name |-> Builtins[i], source |-> "BUILTIN"]
  <2> SUFFICES ASSUME NEW i \in 1..Len(catalog), i <= Len(Builtins)
               PROVE  /\ i \in 1..Len(Builtins)
                      /\ catalog[i] = [name |-> Builtins[i], source |-> "BUILTIN"]
    OBVIOUS
  <2>1. i \in 1..Len(Builtins)
    <3>1. Len(Builtins) \in Nat
      BY BuiltinRecordsTyped
    <3> QED BY <1>2, <3>1
  <2>2. catalog[i] = BuiltinRecords[i]
    BY <1>6
  <2>3. BuiltinRecords[i] = [name |-> Builtins[i], source |-> "BUILTIN"]
    BY <2>1, Zenon DEF BuiltinRecords
  <2> QED BY <2>1, <2>2, <2>3, Zenon
<1>8. \A i \in UserRecords : ~ (i <= Len(Builtins))
  <2> SUFFICES ASSUME NEW i \in UserRecords, i <= Len(Builtins) PROVE FALSE
    OBVIOUS
  <2>1. i \in 1..Len(catalog) /\ catalog[i].source # "BUILTIN"
    BY DEF UserRecords
  <2>2. catalog[i] = [name |-> Builtins[i], source |-> "BUILTIN"]
    BY <1>7, <2>1
  <2> QED BY <2>1, <2>2
<1>9. \A i \in 1..Len(catalog) : ~ (i <= Len(Builtins)) => catalog[i].source # "BUILTIN"
  BY <1>6 DEF Classified, UserSources
<1>10. UserFirst'
  <2> SUFFICES ASSUME catalog[k].source = "BUILTIN", ~ cut,
                      NEW f \in steady \cap Artifacts, f.name = name
               PROVE  FALSE
    BY <1>1, <1>4, <1>5 DEF UserFirst
  <2>1. f \in Listed
    BY <1>1 DEF CatalogInv
  <2>2. PICK i \in UserRecords : catalog[i] = f
    BY <2>1 DEF Listed
  <2>3. i \in 1..Len(catalog) /\ i <= k
    BY <1>4, <2>2 DEF UserRecords
  <2> QED BY <1>8, <1>9, <1>2, <2>2, <2>3, BuiltinRecordsTyped
<1>11. Asked'
  <2> DEFINE names == {options.names[i] : i \in 1..Len(options.names)}
  <2>1. chosen'.name \in names
    BY <1>4 DEF name
  <2>2. edits = 0 => \A m \in names : \/ \E i \in 1..Len(Builtins) : Builtins[i] = m
                                      \/ \E f \in Artifacts : f.name = m
    <3> SUFFICES ASSUME edits = 0, NEW m \in names
                 PROVE  \/ \E i \in 1..Len(Builtins) : Builtins[i] = m
                        \/ \E f \in Artifacts : f.name = m
      BY Zenon
    <3>1. PICK j \in 1..Len(options.names) : m = options.names[j]
      OBVIOUS
    <3>2. PICK i \in 1..Len(catalog) : catalog[i].name = m
      BY <1>1, <3>1 DEF At
    <3>3. CASE i <= Len(Builtins)
      <4>1. i \in 1..Len(Builtins) /\ catalog[i] = [name |-> Builtins[i], source |-> "BUILTIN"]
        BY <1>7, <3>3
      <4>2. Builtins[i] = m
        BY <3>2, <4>1
      <4> QED BY <4>1, <4>2
    <3>4. CASE ~ (i <= Len(Builtins))
      <4>1. i \in UserRecords
        BY <1>9, <3>4 DEF UserRecords
      <4>2. catalog[i] \in Artifacts
        BY <1>1, <4>1 DEF DirectoryDecides
      <4> QED BY <3>2, <4>2
    <3> QED BY <3>3, <3>4
  <2> HIDE DEF names
  <2>3. options' = options /\ edits' = edits
    BY <1>1
  <2> QED BY <1>5, <2>1, <2>2, <2>3 DEF Asked, names
<1>12. DirectoryDecides'
  BY <1>1, <1>5 DEF DirectoryDecides
<1> QED BY <1>1, <1>10, <1>11, <1>12 DEF LoaderInv, StartsWhatWasAsked

(* What follows leaves the choice alone.                                   *)
LEMMA LoaderStarts ==
  ASSUME LoaderInv, EndsOnce, PrintList \/ Load \/ Start
  PROVE  LoaderInv'
<1> USE DEF dirVars, catalogVars, parseVars
<1>1. /\ pc \in {"catalog", "load", "start"} /\ pc' \in {"start", "done"}
      /\ error = "" /\ outcome = "" /\ UserFirst /\ DirectoryDecides
      /\ UNCHANGED <<parseVars, dirVars, chosen, error>>
      /\ catalog' \in {<<>>, catalog}
  BY DEF PrintList, Load, Start, LoaderInv, EndsOnce
<1>2. Artifacts' = Artifacts
  BY <1>1 DEF Artifacts, Classified
<1>3. DirectoryDecides'
  <2>1. catalog' = catalog => UserRecords' = UserRecords
    BY DEF UserRecords
  <2>2. catalog' = <<>> => UserRecords' = {}
    BY DEF UserRecords
  <2> QED BY <1>1, <2>1, <2>2 DEF DirectoryDecides
<1>4. UserFirst'
  BY <1>1, <1>2 DEF UserFirst
<1>5. pc = "catalog" => pc' = "done" /\ outcome' = "list"
  BY DEF PrintList, Load, Start
<1>6. pc \in {"load", "start"} => Asked'
  BY <1>1, <1>2 DEF LoaderInv, Asked
<1>7. Asked' => StartsWhatWasAsked'
  BY DEF Asked, StartsWhatWasAsked
<1>8. StartsWhatWasAsked'
  BY <1>1, <1>5, <1>6, <1>7 DEF StartsWhatWasAsked
<1> QED BY <1>1, <1>3, <1>4, <1>5, <1>6, <1>8 DEF LoaderInv

LEMMA LoaderAlways == Spec => []LoaderInv
<1>1. LoaderInv /\ WithinArguments /\ EndsOnce /\ [Next]_vars => LoaderInv'
  <2> SUFFICES ASSUME LoaderInv, WithinArguments, EndsOnce, [Next]_vars
               PROVE  LoaderInv'
    OBVIOUS
  <2>1. CASE OpenFails \/ ReadFails \/ Unknown \/ LoadFails
    <3>1. \E e \in {"directory", "memory", "unknown", "load"} : Fails(e)
      BY <2>1 DEF OpenFails, ReadFails, Unknown, LoadFails
    <3> QED BY <3>1, LoaderFails
  <2>2. CASE UNCHANGED vars
    <3>1. /\ UserRecords' = UserRecords /\ Artifacts' = Artifacts /\ Listed' = Listed
          /\ Unusable' = Unusable
      BY <2>2 DEF vars, catalogVars, dirVars, UserRecords, Artifacts, Listed, Unusable,
         Classified
    <3>2. /\ (CatalogInv' <=> CatalogInv) /\ (NothingRead' <=> NothingRead)
          /\ (Asked' <=> Asked) /\ (UserFirst' <=> UserFirst)
      BY <2>2, <3>1 DEF vars, parseVars, catalogVars, dirVars, CatalogInv, NothingRead,
         Asked, UserFirst, BuiltinRecords, Classified
    <3>3. /\ (DirectoryDecides' <=> DirectoryDecides)
          /\ (StartsWhatWasAsked' <=> StartsWhatWasAsked)
      BY <2>2, <3>1 DEF vars, parseVars, catalogVars, dirVars, DirectoryDecides,
         StartsWhatWasAsked
    <3>4. pc' = pc
      BY <2>2 DEF vars
    <3> QED BY <3>2, <3>3, <3>4 DEF LoaderInv
  <2> QED BY <2>1, <2>2, LoaderParses, LoaderOpens, LoaderReads, LoaderEnds, LoaderCut, LoaderEdits,
          LoaderResolves, LoaderStarts DEF Next, Done
<1> QED BY <1>1, LoaderInit, WithinAlways, EndsOnceAlways, PTL DEF Spec
-----------------------------------------------------------------------------
(* The grammar.                                                            *)

(* Every way to read the command line a begins with the options in S.      *)
Prefix(a, p, S) ==
  /\ a \in Seq(Args) /\ p \in 0..Len(a) /\ S \subseteq 1..p
  /\ OptionsBegin(a, p, S)
  /\ \A q \in Readings(a) : p <= q[1] /\ S = q[2] \cap (1..p)

(* The options that take a value, and an option and a name are never one.  *)
WithValue == {"--timeout", "--disable-key"}

LEMMA Tokens ==
  /\ NameArgs \cap (Flags \cup WithValue) = {} /\ "--random" \notin NameArgs
  /\ Flags \cap WithValue = {} /\ "--random" \notin Flags \cup WithValue
  /\ NameArgs \cap {"-h", "--help", "--list", "--status"} = {}
  /\ \A o \in WithValue : ValuesOf(o) \subseteq NameArgs /\ "DEFAULT" \notin ValuesOf(o)
BY CommandLineAssumption DEF Flags, WithValue, OptionArgs, ValuesOf, NameArgs

LEMMA ReadingParts ==
  ASSUME NEW a, NEW q \in Readings(a)
  PROVE  /\ q[1] \in 0..(Len(a) - 1) /\ q[2] \subseteq 1..q[1]
         /\ OptionsBegin(a, q[1], q[2])
         /\ (\E i \in q[2] : a[i] = "--now") => \A i \in q[2] : a[i] = "--now"
         /\ Screensavers(a, q[1]) # <<>> /\ q = <<q[1], q[2]>>
BY DEF Readings, AreOptions

(* What follows the options: a name or --random.                           *)
LEMMA NamesFollow ==
  ASSUME NEW a \in Seq(Args), NEW p \in 0..(Len(a) - 1), Screensavers(a, p) # <<>>
  PROVE  /\ a[p + 1] \in NameArgs \cup {"--random"}
         /\ a[p + 1] # "--random" => Len(a) = p + 1
<1> DEFINE rest == SubSeq(a, p + 1, Len(a))
           names == IF rest # <<>> /\ rest[1] = "--random" THEN Tail(rest) ELSE rest
<1>1. Len(a) \in Nat /\ p \in Nat /\ p + 1 \in 1..(Len(a) + 1)
  BY LenProperties
<1>2. rest \in Seq(Args) /\ Len(rest) = Len(a) - p /\ rest[1] = a[p + 1] /\ rest # <<>>
  <2>1. /\ rest \in Seq(Args)
        /\ Len(rest) = IF p + 1 <= Len(a) THEN Len(a) - (p + 1) + 1 ELSE 0
        /\ \A i \in 1..(Len(a) - (p + 1) + 1) : rest[i] = a[(p + 1) + i - 1]
    BY <1>1, SubSeqProperties
  <2> HIDE DEF rest
  <2>2. Len(rest) = Len(a) - p /\ 1 \in 1..(Len(a) - (p + 1) + 1) /\ (p + 1) + 1 - 1 = p + 1
    BY <1>1, <2>1
  <2>3. rest[1] = a[p + 1] /\ Len(rest) # 0
    BY <1>1, <2>1, <2>2
  <2> QED BY <2>1, <2>2, <2>3
<1>3. /\ \A i \in 1..Len(names) : names[i] \in NameArgs
      /\ names = rest => Len(names) = 1
  BY DEF Screensavers
<1> HIDE DEF rest
<1>4. CASE rest[1] = "--random"
  BY <1>2, <1>4
<1>5. CASE rest[1] # "--random"
  <2>1. names = rest
    BY <1>5
  <2>2. Len(rest) = 1 /\ \A i \in 1..Len(rest) : rest[i] \in NameArgs
    <3> HIDE DEF names
    <3> QED BY <1>3, <2>1
  <2>3. a[p + 1] \in NameArgs
    BY <1>2, <2>2
  <2>4. Len(a) = p + 1
    <3>1. Len(a) - p = 1
      BY <1>2, <2>2
    <3> QED BY ONLY <1>1, <3>1
  <2> QED BY <2>3, <2>4
<1> QED BY <1>4, <1>5

(* What a reading has behind the options read so far.                      *)
LEMMA Follows ==
  ASSUME NEW a, NEW p, NEW S, Prefix(a, p, S), NEW q \in Readings(a)
  PROVE  /\ p + 1 \in 1..Len(a) /\ q[1] \in Nat
         /\ \/ /\ q[1] = p /\ q[2] = S
               /\ a[p + 1] \in NameArgs \cup {"--random"}
               /\ a[p + 1] # "--random" => Len(a) = p + 1
            \/ /\ p + 1 <= q[1] /\ p + 1 \in q[2]
               /\ \/ a[p + 1] \in Flags
                  \/ /\ a[p + 1] \in WithValue
                     /\ p + 2 <= q[1] /\ p + 2 \notin q[2]
                     /\ a[p + 2] \in ValuesOf(a[p + 1])
<1> DEFINE n == q[1]
           T == q[2]
<1>1. /\ Len(a) \in Nat /\ p \in 0..Len(a) /\ n \in 0..(Len(a) - 1) /\ p <= n
      /\ T \subseteq 1..n /\ S = T \cap (1..p)
      /\ OptionsBegin(a, n, T) /\ OptionsBegin(a, p, S) /\ Screensavers(a, n) # <<>>
  BY ReadingParts, LenProperties DEF Prefix
<1>2. a \in Seq(Args)
  BY DEF Prefix
<1> HIDE DEF n, T
<1>3. p + 1 \in 1..Len(a) /\ n \in Nat
  BY <1>1
<1>4. CASE n = p
  <2>1. T = S
    BY <1>1, <1>4
  <2>2. p \in 0..(Len(a) - 1) /\ Screensavers(a, p) # <<>>
    BY <1>1, <1>4
  <2>3. /\ a[p + 1] \in NameArgs \cup {"--random"}
        /\ a[p + 1] # "--random" => Len(a) = p + 1
    BY <1>2, <2>2, NamesFollow
  <2> QED BY <1>3, <1>4, <2>1, <2>3 DEF n, T
<1>5. CASE n # p
  <2>1. p + 1 \in 1..n /\ (p + 1) - 1 = p
    BY <1>1, <1>5
  <2>2. p + 1 \in T
    <3> SUFFICES ASSUME p + 1 \notin T PROVE FALSE
      OBVIOUS
    <3>1. p \in T /\ a[p] \notin Flags
      BY <1>1, <2>1 DEF OptionsBegin
    <3>2. p \in S
      BY <1>1, <3>1
    <3>3. p < p
      BY <1>1, <3>1, <3>2 DEF OptionsBegin
    <3> QED BY <1>1, <3>3
  <2>3. \/ a[p + 1] \in Flags
        \/ /\ a[p + 1] \in WithValue
           /\ p + 1 < n /\ (p + 1) + 1 \notin T
           /\ a[(p + 1) + 1] \in ValuesOf(a[p + 1])
    BY <1>1, <2>2 DEF OptionsBegin, WithValue
  <2>4. (p + 1) + 1 = p + 2
    BY <1>1
  <2>5. p + 1 <= n
    BY <2>1
  <2>6. p + 1 < n => p + 2 <= n
    BY <1>1
  <2> QED BY <1>3, <2>2, <2>3, <2>4, <2>5, <2>6 DEF n, T
<1> QED BY <1>4, <1>5

(* An argument that begins no option, nor a name, spoils everything.       *)
LEMMA NoReading ==
  ASSUME NEW a, NEW p, NEW S, Prefix(a, p, S),
         \/ p + 1 \notin 1..Len(a)
         \/ a[p + 1] \in NameArgs /\ p + 2 <= Len(a)
         \/ a[p + 1] \notin NameArgs \cup {"--random"} \cup Flags \cup WithValue
         \/ a[p + 1] \in WithValue /\ ~ (p + 2 <= Len(a) /\ a[p + 2] \in ValuesOf(a[p + 1]))
  PROVE  Readings(a) = {}
<1> SUFFICES ASSUME NEW q \in Readings(a) PROVE FALSE
  OBVIOUS
<1>1. p \in Nat /\ Len(a) \in Nat /\ q[1] \in 0..(Len(a) - 1)
  BY ReadingParts, LenProperties DEF Prefix
<1> QED BY <1>1, Follows, Tokens

(* One more flag.                                                          *)
LEMMA PrefixFlag ==
  ASSUME NEW a, NEW p, NEW S, Prefix(a, p, S), p + 1 \in 1..Len(a), a[p + 1] \in Flags
  PROVE  Prefix(a, p + 1, S \cup {p + 1})
<1>1. p \in Nat /\ a \in Seq(Args) /\ Len(a) \in Nat /\ S \subseteq 1..p
  BY LenProperties DEF Prefix
<1>2. OptionsBegin(a, p + 1, S \cup {p + 1})
  <2>1. \A i \in S : i \in 1..p /\ (i < p => i < p + 1) /\ (i < p => i + 1 # p + 1)
    BY <1>1
  <2>2. (1..(p + 1)) \ (S \cup {p + 1}) = (1..p) \ S
    BY <1>1
  <2>3. OptionsBegin(a, p, S)
    BY DEF Prefix
  <2>4. a[p + 1] # "--timeout"
    BY Tokens DEF WithValue
  <2> QED BY <2>1, <2>2, <2>3, <2>4 DEF OptionsBegin
<1>3. \A q \in Readings(a) :
        p + 1 <= q[1] /\ S \cup {p + 1} = q[2] \cap (1..(p + 1))
  <2> TAKE q \in Readings(a)
  <2>1. p + 1 <= q[1] /\ p + 1 \in q[2]
    BY Follows, Tokens
  <2>2. S = q[2] \cap (1..p)
    BY DEF Prefix
  <2>3. 1..(p + 1) = (1..p) \cup {p + 1}
    BY <1>1
  <2> QED BY <2>1, <2>2, <2>3
<1> QED BY <1>1, <1>2, <1>3 DEF Prefix

(* One more option with its value.                                         *)
LEMMA PrefixValue ==
  ASSUME NEW a, NEW p, NEW S, Prefix(a, p, S), p + 2 \in 1..Len(a),
         a[p + 1] \in WithValue, a[p + 2] \in ValuesOf(a[p + 1]),
         a[p + 1] = "--timeout" => \A i \in S : a[i] # "--timeout"
  PROVE  Prefix(a, p + 2, S \cup {p + 1})
<1>1. p \in Nat /\ a \in Seq(Args) /\ Len(a) \in Nat /\ S \subseteq 1..p
  BY LenProperties DEF Prefix
<1>2. OptionsBegin(a, p + 2, S \cup {p + 1})
  <2>1. \A i \in S : i \in 1..p /\ (i < p => i < p + 2) /\ (i < p => i + 1 # p + 1)
    BY <1>1
  <2>2. OptionsBegin(a, p, S)
    BY DEF Prefix
  <2>3. p + 1 < p + 2 /\ (p + 1) + 1 = p + 2 /\ p + 2 \notin S \cup {p + 1}
    BY <1>1
  <2>4. \A i \in S \cup {p + 1} :
          \/ a[i] \in Flags
          \/ /\ a[i] \in {"--timeout", "--disable-key"}
             /\ i < p + 2 /\ i + 1 \notin S \cup {p + 1}
             /\ a[i + 1] \in ValuesOf(a[i])
    BY <2>1, <2>2, <2>3 DEF OptionsBegin, WithValue
  <2>5. \A i \in (1..(p + 2)) \ (S \cup {p + 1}) :
          i - 1 \in S \cup {p + 1} /\ a[i - 1] \notin Flags
    <3> TAKE i \in (1..(p + 2)) \ (S \cup {p + 1})
    <3>1. CASE i \in 1..p
      BY <2>2, <3>1 DEF OptionsBegin
    <3>2. CASE i = p + 2
      <4>1. i - 1 = p + 1
        BY <1>1, <3>2
      <4> QED BY <4>1, Tokens
    <3>3. i \in 1..p \/ i = p + 2
      BY <1>1
    <3> QED BY <3>1, <3>2, <3>3
  <2>6. \A i, j \in S \cup {p + 1} : a[i] = "--timeout" /\ a[j] = "--timeout" => i = j
    BY <2>2 DEF OptionsBegin
  <2> QED BY <2>4, <2>5, <2>6 DEF OptionsBegin
<1>3. \A q \in Readings(a) :
        p + 2 <= q[1] /\ S \cup {p + 1} = q[2] \cap (1..(p + 2))
  <2> TAKE q \in Readings(a)
  <2>1. p + 2 <= q[1] /\ p + 1 \in q[2] /\ p + 2 \notin q[2]
    BY Follows, Tokens
  <2>2. S = q[2] \cap (1..p)
    BY DEF Prefix
  <2>3. 1..(p + 2) = (1..p) \cup {p + 1, p + 2}
    BY <1>1
  <2> QED BY <2>1, <2>2, <2>3
<1> QED BY <1>1, <1>2, <1>3 DEF Prefix

(* A second --timeout has no meaning.                                      *)
LEMMA TimeoutOnce ==
  ASSUME NEW a, NEW p, NEW S, Prefix(a, p, S), p + 1 \in 1..Len(a),
         a[p + 1] = "--timeout", NEW i \in S, a[i] = "--timeout"
  PROVE  Readings(a) = {}
<1> SUFFICES ASSUME NEW q \in Readings(a) PROVE FALSE
  OBVIOUS
<1>1. p + 1 \in q[2]
  BY Follows, Tokens DEF WithValue
<1>2. i \in q[2] /\ i \in 1..p /\ p \in Nat
  BY DEF Prefix
<1>3. OptionsBegin(a, q[1], q[2])
  BY ReadingParts
<1> QED BY <1>1, <1>2, <1>3 DEF OptionsBegin

-----------------------------------------------------------------------------
(* What the options in S say.                                              *)

(* The last of the options o gives the value.                              *)
LEMMA LastOf ==
  ASSUME NEW a, NEW p \in Nat, NEW S, NEW o,
         NEW at, at = {i \in S : a[i] = o}, at # {}, at \subseteq 0..p
  PROVE  \E k \in at : LastValue(a, S, o) = a[1 + k]
<1>1. LastValue(a, S, o) = a[1 + CHOOSE j \in at : \A k \in at : k <= j]
  BY DEF LastValue
<1>2. \E j \in at : \A k \in at : k <= j
  BY GreatestOf
<1>3. (CHOOSE j \in at : \A k \in at : k <= j) \in at
  BY <1>2
<1> QED BY <1>1, <1>3

(* Which options have a value, and what it is once one more is read.       *)
LEMMA ValueGiven ==
  ASSUME NEW a, NEW p, NEW S, Prefix(a, p, S), NEW o \in WithValue
  PROVE  LastValue(a, S, o) # "DEFAULT" <=> \E i \in S : a[i] = o
<1>1. p \in Nat /\ S \subseteq 1..p /\ OptionsBegin(a, p, S)
  BY LenProperties DEF Prefix
<1>2. ASSUME NEW i \in S, a[i] = o PROVE LastValue(a, S, o) # "DEFAULT"
  <2> DEFINE at == {j \in S : a[j] = o}
  <2>1. i \in at
    BY <1>2
  <2>2. at \subseteq S /\ \A j \in at : a[j] = o
    OBVIOUS
  <2>3. at = {j \in S : a[j] = o}
    OBVIOUS
  <2> HIDE DEF at
  <2>4. at # {} /\ at \subseteq 0..p
    BY <1>1, <2>1, <2>2
  <2>5. PICK k \in at : LastValue(a, S, o) = a[1 + k]
    BY <1>1, <2>3, <2>4, LastOf
  <2>6. a[k] = o /\ k \in S /\ a[k] \notin Flags
    BY <2>2, Tokens
  <2>7. a[k + 1] \in ValuesOf(o)
    BY <1>1, <2>6 DEF OptionsBegin
  <2>8. 1 + k = k + 1
    BY <1>1, <2>6
  <2> QED BY <2>5, <2>7, <2>8, Tokens
<1>3. ASSUME ~ \E i \in S : a[i] = o PROVE LastValue(a, S, o) = "DEFAULT"
  BY <1>3 DEF LastValue
<1> QED BY <1>2, <1>3

LEMMA ValueAdded ==
  ASSUME NEW a, NEW p \in Nat, NEW S, S \subseteq 1..p, NEW o
  PROVE  LastValue(a, S \cup {p + 1}, o)
           = IF a[p + 1] = o THEN a[p + 2] ELSE LastValue(a, S, o)
<1> DEFINE at == {i \in S \cup {p + 1} : a[i] = o}
<1>1. CASE a[p + 1] = o
  <2>1. p + 1 \in at /\ \A j \in at : j <= p + 1 /\ j \in Nat
    BY <1>1
  <2>2. \A i \in at : (\A j \in at : j <= i) => i = p + 1
    BY <2>1
  <2>3. (CHOOSE i \in at : \A j \in at : j <= i) = p + 1
    <3> HIDE DEF at
    <3> QED BY <2>1, <2>2
  <2>4. LastValue(a, S \cup {p + 1}, o) = a[1 + (p + 1)]
    BY <2>1, <2>3 DEF LastValue
  <2>5. 1 + (p + 1) = p + 2
    OBVIOUS
  <2> QED BY <1>1, <2>4, <2>5
<1>2. CASE a[p + 1] # o
  <2>1. at = {i \in S : a[i] = o}
    BY <1>2
  <2> DEFINE V(t) == IF t = {} THEN "DEFAULT"
                     ELSE a[1 + CHOOSE i \in t : \A j \in t : j <= i]
  <2>2. LastValue(a, S \cup {p + 1}, o) = V(at) /\ LastValue(a, S, o) = V({i \in S : a[i] = o})
    BY Zenon DEF LastValue
  <2> HIDE DEF V, at
  <2> QED BY <1>2, <2>1, <2>2
<1> QED BY <1>1, <1>2

(* The options as a record.                                                *)
LEMMA ChosenAs ==
  ASSUME NEW a, NEW S, NEW names, NEW now \in BOOLEAN, NEW cover \in BOOLEAN,
         now <=> \E i \in S : a[i] = "--now",
         cover <=> \E i \in S : a[i] = "--cover-fullscreen"
  PROVE  Chosen(a, S, names) =
           [command |-> "NAMED", preview |-> now, cover |-> cover,
            timeout |-> LastValue(a, S, "--timeout"),
            key |-> LastValue(a, S, "--disable-key"), names |-> names]
<1> DEFINE n == \E i \in S : a[i] = "--now"
           c == \E i \in S : a[i] = "--cover-fullscreen"
<1>1. Chosen(a, S, names) =
           [command |-> "NAMED", preview |-> n, cover |-> c,
            timeout |-> LastValue(a, S, "--timeout"),
            key |-> LastValue(a, S, "--disable-key"), names |-> names]
  BY DEF Chosen
<1>2. n = now /\ c = cover
  BY Zenon
<1> HIDE DEF n, c
<1> QED BY <1>1, <1>2
LEMMA ChosenIs ==
  ASSUME NEW a, NEW S, NEW names
  PROVE  \E now, cover \in BOOLEAN :
           /\ now <=> \E i \in S : a[i] = "--now"
           /\ cover <=> \E i \in S : a[i] = "--cover-fullscreen"
           /\ Chosen(a, S, names) =
                [command |-> "NAMED", preview |-> now, cover |-> cover,
                 timeout |-> LastValue(a, S, "--timeout"),
                 key |-> LastValue(a, S, "--disable-key"), names |-> names]
<1> DEFINE now == \E i \in S : a[i] = "--now"
           cover == \E i \in S : a[i] = "--cover-fullscreen"
<1>1. /\ now \in BOOLEAN /\ cover \in BOOLEAN
      /\ now <=> \E i \in S : a[i] = "--now"
      /\ cover <=> \E i \in S : a[i] = "--cover-fullscreen"
  OBVIOUS
<1> HIDE DEF now, cover
<1> QED BY <1>1, ChosenAs, Zenon

(* The updates the parser and Meaning make.                                *)
Named(o) == [o EXCEPT !.command = "NAMED"]
WithNames(o, names) == [o EXCEPT !.names = names]
AtRandom(o) == [o EXCEPT !.command = "RANDOM"]
RandomWith(o, names) == [o EXCEPT !.command = "RANDOM", !.names = names]

LEMMA ChosenNames ==
  ASSUME NEW a, NEW S, NEW m, NEW n
  PROVE  /\ Named(Chosen(a, S, n)) = Chosen(a, S, n)
         /\ WithNames(Chosen(a, S, n), m) = Chosen(a, S, m)
         /\ RandomWith(Chosen(a, S, n), m) = AtRandom(Chosen(a, S, m))
         /\ Chosen(a, S, m).names = m
<1> DEFINE now == \E i \in S : a[i] = "--now"
           cover == \E i \in S : a[i] = "--cover-fullscreen"
           timeout == LastValue(a, S, "--timeout")
           key == LastValue(a, S, "--disable-key")
<1>1. \A names : Chosen(a, S, names) =
        [command |-> "NAMED", preview |-> now, cover |-> cover,
         timeout |-> timeout, key |-> key, names |-> names]
  BY DEF Chosen
<1> HIDE DEF now, cover, timeout, key
<1>2. Chosen(a, S, m).names = m
  BY <1>1
<1>3. Named(Chosen(a, S, n)) = Chosen(a, S, n)
  BY <1>1 DEF Named
<1>4. WithNames(Chosen(a, S, n), m) = Chosen(a, S, m)
  BY <1>1 DEF WithNames
<1>5. RandomWith(Chosen(a, S, n), m) = AtRandom(Chosen(a, S, m))
  <2> DEFINE random(names) == [command |-> "RANDOM", preview |-> now, cover |-> cover,
                               timeout |-> timeout, key |-> key, names |-> names]
  <2>1. \A o : RandomWith(o, m) = WithNames(AtRandom(o), m)
    BY Zenon DEF RandomWith, WithNames, AtRandom
  <2>2. \A names : AtRandom(Chosen(a, S, names)) = random(names)
    BY <1>1 DEF AtRandom
  <2>3. WithNames(random(n), m) = random(m)
    BY DEF WithNames
  <2> HIDE DEF random
  <2> QED BY <2>1, <2>2, <2>3
<1> QED BY <1>2, <1>3, <1>4, <1>5

(* reject_options_with_preview refuses what the usage text does.           *)
LEMMA PreviewAlone ==
  ASSUME NEW a, NEW p, NEW S, Prefix(a, p, S), NEW names
  PROVE  PreviewRefuses(Chosen(a, S, names))
           <=> ~ ((\E i \in S : a[i] = "--now") => \A i \in S : a[i] = "--now")
<1>1. \A i \in S : a[i] \in {"--now", "--cover-fullscreen", "--timeout", "--disable-key"}
  BY DEF Prefix, OptionsBegin, Flags
<1>2. /\ LastValue(a, S, "--timeout") # "DEFAULT" <=> \E i \in S : a[i] = "--timeout"
      /\ LastValue(a, S, "--disable-key") # "DEFAULT" <=> \E i \in S : a[i] = "--disable-key"
  BY ValueGiven DEF WithValue
<1> QED BY <1>1, <1>2 DEF PreviewRefuses, Chosen

(* Options that are not refused, and names behind them: the only reading.  *)
LEMMA OneReading ==
  ASSUME NEW a, NEW p, NEW S, Prefix(a, p, S), NEW names,
         ~ PreviewRefuses(Chosen(a, S, names)),
         p + 1 \in 1..Len(a), Screensavers(a, p) # <<>>
  PROVE  Readings(a) = {<<p, S>>}
<1>1. p \in Nat /\ Len(a) \in Nat /\ a \in Seq(Args) /\ S \subseteq 1..p
  BY LenProperties DEF Prefix
<1>2. AreOptions(a, p, S)
  BY PreviewAlone DEF Prefix, AreOptions
<1>3. p \in 0..(Len(a) - 1) /\ S \subseteq 1..Len(a)
  BY <1>1
<1>4. <<p, S>> \in Readings(a)
  BY <1>1, <1>2, <1>3 DEF Readings
<1>5. a[p + 1] \in NameArgs \cup {"--random"}
  BY <1>1, <1>3, NamesFollow
<1>6. ASSUME NEW q \in Readings(a) PROVE q = <<p, S>>
  BY <1>5, Follows, ReadingParts, Tokens
<1> QED BY <1>4, <1>6

(* Options that are refused have no meaning, whatever comes behind them.   *)
LEMMA Refused ==
  ASSUME NEW a, NEW p, NEW S, Prefix(a, p, S), NEW names,
         PreviewRefuses(Chosen(a, S, names))
  PROVE  Readings(a) = {}
<1> SUFFICES ASSUME NEW q \in Readings(a) PROVE FALSE
  OBVIOUS
<1>1. S \subseteq q[2]
  BY DEF Prefix
<1>2. (\E i \in q[2] : a[i] = "--now") => \A i \in q[2] : a[i] = "--now"
  BY ReadingParts
<1> QED BY <1>1, <1>2, PreviewAlone

LEMMA MeaningOfReadings ==
  ASSUME NEW a, Alone(a) = "NAMED"
  PROVE  /\ Readings(a) = {} => Meanings(a) = {}
         /\ \A p, S : Readings(a) = {<<p, S>>} => Meanings(a) = {Meaning(a, p, S)}
<1>1. Meanings(a) = {Meaning(a, q[1], q[2]) : q \in Readings(a)}
  BY DEF Meanings
<1>2. ASSUME NEW p, NEW S, Readings(a) = {<<p, S>>}
      PROVE  Meanings(a) = {Meaning(a, p, S)}
  <2>1. <<p, S>>[1] = p /\ <<p, S>>[2] = S
    OBVIOUS
  <2> QED BY <1>1, <1>2, <2>1, Zenon
<1> QED BY <1>1, <1>2

(* --help, --list and --status have their meaning alone only.              *)
LEMMA AloneOnly ==
  ASSUME NEW a \in Seq(Args),
         Len(a) # 1 \/ a[1] \notin {"-h", "--help", "--list", "--status"}
  PROVE  Alone(a) = "NAMED"
<1>1. ASSUME NEW x, a = <<x>> PROVE Len(a) = 1 /\ a[1] = x
  BY <1>1
<1>2. /\ a # <<"-h">> /\ a # <<"--help">>
      /\ a # <<"--list">> /\ a # <<"--status">>
  BY <1>1
<1> QED BY <1>2 DEF Alone

LEMMA AloneIs ==
  ASSUME NEW a \in Seq(Args), Len(a) = 1,
         a[1] \in {"-h", "--help", "--list", "--status"}
  PROVE  /\ a = <<a[1]>>
         /\ Alone(a) = IF a[1] = "--list" THEN "LIST"
                       ELSE IF a[1] = "--status" THEN "STATUS" ELSE "HELP"
<1>1. a = <<a[1]>>
  OBVIOUS
<1>2. \A x, y : <<x>> = <<y>> => x = y
  OBVIOUS
<1>3. CASE a[1] = "--list"
  <2>1. a = <<"--list">> /\ a # <<"-h">> /\ a # <<"--help">> /\ a # <<"--status">>
    BY <1>1, <1>2, <1>3
  <2> QED BY <1>1, <1>3, <2>1 DEF Alone
<1>4. CASE a[1] = "--status"
  <2>1. a = <<"--status">> /\ a # <<"-h">> /\ a # <<"--help">> /\ a # <<"--list">>
    BY <1>1, <1>2, <1>4
  <2> QED BY <1>1, <1>4, <2>1 DEF Alone
<1>5. CASE a[1] \in {"-h", "--help"}
  <2>1. /\ a = <<"-h">> \/ a = <<"--help">>
        /\ a # <<"--status">> /\ a # <<"--list">>
    BY <1>1, <1>2, <1>5
  <2> QED BY <1>1, <1>5, <2>1 DEF Alone
<1> QED BY <1>3, <1>4, <1>5

(* What --random is followed by.                                           *)
LEMMA RandomNames ==
  ASSUME NEW a \in Seq(Args), NEW p \in Nat, p + 1 \in 1..Len(a), a[p + 1] = "--random",
         NEW names, names = SubSeq(a, p + 2, Len(a))
  PROVE  /\ Screensavers(a, p) =
              IF names # <<>> /\ \A i \in 1..Len(names) : names[i] \in NameArgs
              THEN names ELSE <<>>
         /\ names # <<>> <=> p + 1 < Len(a)
<1> DEFINE rest == SubSeq(a, p + 1, Len(a))
<1>1. Len(a) \in Nat /\ p + 1 \in 1..(Len(a) + 1) /\ p + 2 \in 1..(Len(a) + 1)
  BY LenProperties
<1>2. /\ rest \in Seq(Args)
      /\ Len(rest) = IF p + 1 <= Len(a) THEN Len(a) - (p + 1) + 1 ELSE 0
      /\ \A i \in 1..(Len(a) - (p + 1) + 1) : rest[i] = a[(p + 1) + i - 1]
  BY <1>1, SubSeqProperties
<1>3. /\ names \in Seq(Args)
      /\ Len(names) = IF p + 2 <= Len(a) THEN Len(a) - (p + 2) + 1 ELSE 0
      /\ \A i \in 1..(Len(a) - (p + 2) + 1) : names[i] = a[(p + 2) + i - 1]
  BY <1>1, SubSeqProperties
<1>4. Screensavers(a, p) =
        LET ns == IF rest # <<>> /\ rest[1] = "--random" THEN Tail(rest) ELSE rest
        IN IF /\ ns # <<>> /\ \A i \in 1..Len(ns) : ns[i] \in NameArgs
              /\ ns = rest => Len(ns) = 1
           THEN ns ELSE <<>>
  BY DEF Screensavers
<1> HIDE DEF rest
<1>5. /\ Len(rest) = Len(a) - p /\ Len(names) = Len(a) - p - 1
      /\ 1 \in 1..(Len(a) - (p + 1) + 1) /\ (p + 1) + 1 - 1 = p + 1
  BY <1>1, <1>2, <1>3
<1>6. rest # <<>> /\ rest[1] = "--random"
  BY <1>1, <1>2, <1>5
<1>7. /\ Tail(rest) \in Seq(Args) /\ Len(Tail(rest)) = Len(rest) - 1
      /\ \A i \in 1..Len(Tail(rest)) : Tail(rest)[i] = rest[i + 1]
  BY <1>2, <1>6, HeadTailProperties
<1>8. Tail(rest) = names
  <2>1. Len(Tail(rest)) = Len(names)
    BY <1>1, <1>5, <1>7
  <2>2. ASSUME NEW i \in 1..Len(names) PROVE Tail(rest)[i] = names[i]
    <3>1. /\ i \in 1..Len(Tail(rest))
          /\ i + 1 \in 1..(Len(a) - (p + 1) + 1) /\ i \in 1..(Len(a) - (p + 2) + 1)
          /\ (p + 1) + (i + 1) - 1 = (p + 2) + i - 1
      BY <1>1, <1>5, <2>1
    <3> QED BY <1>2, <1>3, <1>7, <3>1
  <2> QED BY <1>3, <1>7, <2>1, <2>2, SeqEqual
<1>9. names # rest
  BY <1>1, <1>5
<1>10. names # <<>> <=> p + 1 < Len(a)
  <2>1. names = <<>> <=> Len(names) = 0
    BY <1>3, EmptySeq
  <2>2. Len(names) = 0 <=> ~ (p + 1 < Len(a))
    BY <1>1, <1>5
  <2> QED BY <2>1, <2>2
<1> QED BY <1>4, <1>6, <1>8, <1>9, <1>10

(* The only name.                                                          *)
LEMMA OneName ==
  ASSUME NEW a \in Seq(Args), NEW p \in Nat, Len(a) = p + 1, a[p + 1] \in NameArgs
  PROVE  Screensavers(a, p) = <<a[p + 1]>>
<1> DEFINE rest == SubSeq(a, p + 1, Len(a))
<1>1. Len(a) \in Nat /\ p + 1 \in 1..(Len(a) + 1)
  OBVIOUS
<1>2. /\ rest \in Seq(Args)
      /\ Len(rest) = IF p + 1 <= Len(a) THEN Len(a) - (p + 1) + 1 ELSE 0
      /\ \A i \in 1..(Len(a) - (p + 1) + 1) : rest[i] = a[(p + 1) + i - 1]
  BY <1>1, SubSeqProperties
<1>3. Screensavers(a, p) =
        LET ns == IF rest # <<>> /\ rest[1] = "--random" THEN Tail(rest) ELSE rest
        IN IF /\ ns # <<>> /\ \A i \in 1..Len(ns) : ns[i] \in NameArgs
              /\ ns = rest => Len(ns) = 1
           THEN ns ELSE <<>>
  BY DEF Screensavers
<1> HIDE DEF rest
<1>4. Len(rest) = 1 /\ 1 \in 1..(Len(a) - (p + 1) + 1) /\ (p + 1) + 1 - 1 = p + 1
  BY <1>1, <1>2
<1>5. rest[1] = a[p + 1] /\ rest[1] # "--random"
  BY <1>2, <1>4, Tokens
<1>6. rest = <<a[p + 1]>>
  BY <1>2, <1>4, <1>5
<1>7. \A i \in 1..Len(rest) : rest[i] \in NameArgs
  BY <1>4, <1>5
<1>8. rest # <<>>
  <2>1. rest = <<>> => Len(rest) = 0
    BY EmptySeq
  <2> QED BY <1>4, <2>1
<1> QED BY <1>3, <1>4, <1>5, <1>6, <1>7, <1>8
-----------------------------------------------------------------------------
(* The parser.                                                             *)

(* Where it stands before each argument.                                   *)
LEMMA ParserStands ==
  ASSUME WithinArguments, EndsOnce, ParserInv, pc = "parse"
  PROVE  /\ argv \in Seq(Args) /\ Len(argv) \in Nat /\ index \in Nat \ {0}
         /\ index <= Len(argv) + 1 /\ leading \in Nat /\ leading < index
         /\ error = "" /\ options \in Options
         /\ \/ options.names = <<>> /\ index = leading + 1
            \/ /\ index = leading + 2
               /\ argv[leading + 1] \in NameArgs
               /\ options.names = <<argv[leading + 1]>>
         /\ options.names = <<>> => index = leading + 1
         /\ options.names # <<>> => /\ index = leading + 2
                                   /\ argv[leading + 1] \in NameArgs
                                   /\ options.names = <<argv[leading + 1]>>
         /\ index > 1 => Alone(argv) = "NAMED"
         /\ \E S \in SUBSET (1..leading) :
              Prefix(argv, leading, S) /\ options = Chosen(argv, S, options.names)
<1>1. /\ argv \in Seq(Args) /\ Len(argv) \in Nat /\ index \in Nat \ {0}
      /\ index <= Len(argv) + 1 /\ leading \in Nat /\ leading < index
  <2>1. /\ argv \in Seq(Args) /\ index \in 1..(MaxArgs + 1) /\ index <= Len(argv) + 1
        /\ leading \in 0..MaxArgs /\ leading < index
    BY DEF WithinArguments, LaunchTypeOK
  <2> QED BY ONLY <2>1, Bounds, LenProperties
<1>2. error = "" /\ options \in Options
  BY DEF EndsOnce, WithinArguments, LaunchTypeOK
<1>3. /\ \/ options.names = <<>> /\ index = leading + 1
         \/ /\ index = leading + 2
            /\ argv[leading + 1] \in NameArgs
            /\ options.names = <<argv[leading + 1]>>
      /\ index > 1 => Alone(argv) = "NAMED"
      /\ \E S \in SUBSET (1..leading) : ReadSoFar(S)
  BY Zenon DEF ParserInv
<1>4. leading \in 0..Len(argv)
  BY <1>1
<1>5. ASSUME NEW S \in SUBSET (1..leading), ReadSoFar(S)
      PROVE  Prefix(argv, leading, S) /\ options = Chosen(argv, S, options.names)
  BY <1>1, <1>4, <1>5 DEF Prefix, ReadSoFar
<1>6. \A x : <<x>> # <<>>
  OBVIOUS
<1> QED BY <1>1, <1>2, <1>3, <1>5, <1>6, Zenon

(* What a step must show: it goes on, it is done, or it rejects.           *)
LEMMA GoesOn ==
  ASSUME pc' = "parse", argv' = argv, error' = "",
         NEW S, Prefix(argv, leading', S), options' = Chosen(argv, S, options'.names),
         \/ options'.names = <<>> /\ index' = leading' + 1
         \/ /\ index' = leading' + 2
            /\ argv[leading' + 1] \in NameArgs
            /\ options'.names = <<argv[leading' + 1]>>,
         Alone(argv) = "NAMED"
  PROVE  ParserInv'
<1>1. S \in SUBSET (1..leading') /\ ReadSoFar(S)'
  BY DEF Prefix, ReadSoFar, Readings, AreOptions
<1> QED BY <1>1 DEF ParserInv, ParsesAsDocumented

LEMMA IsParsed ==
  ASSUME Parsed, error = "", Meanings(argv) = {options'}
  PROVE  ParserInv'
BY DEF Parsed, ParserInv, ParsesAsDocumented

LEMMA IsRejected ==
  ASSUME Rejected, Alone(argv) = "NAMED", Readings(argv) = {}
  PROVE  ParserInv'
<1>1. Meanings(argv) = {}
  BY MeaningOfReadings
<1> QED BY <1>1 DEF Rejected, ParserInv, ParsesAsDocumented, parseVars

(* An option behind a name, and an argument nobody knows.                  *)
LEMMA OutOfPlace ==
  ASSUME WithinArguments, EndsOnce, ParserInv, Parsing,
         \/ ~ Leads
         \/ Arg \notin NameArgs \cup {"--random"} \cup Flags \cup WithValue
         \/ Arg \in WithValue /\ ~ (index < Len(argv) /\ argv[index + 1] \in ValuesOf(Arg))
  PROVE  Readings(argv) = {}
<1>1. PICK S \in SUBSET (1..leading) : Prefix(argv, leading, S)
  BY ParserStands, Zenon DEF Parsing
<1>2. /\ leading \in Nat /\ index \in Nat /\ Len(argv) \in Nat /\ index <= Len(argv)
      /\ \/ index = leading + 1
         \/ index = leading + 2 /\ argv[leading + 1] \in NameArgs
  BY ParserStands DEF Parsing
<1>3. CASE index = leading + 2 /\ argv[leading + 1] \in NameArgs
  BY <1>1, <1>2, <1>3, NoReading
<1>4. CASE index = leading + 1
  <2>1. Leads /\ index + 1 = leading + 2 /\ (index < Len(argv) <=> leading + 2 <= Len(argv))
    BY <1>2, <1>4 DEF Leads
  <2> QED BY <1>1, <1>4, <2>1, NoReading DEF Arg
<1> QED BY <1>2, <1>3, <1>4

LEMMA ParserFlag ==
  ASSUME WithinArguments, EndsOnce, ParserInv, Flag
  PROVE  ParserInv'
<1>1. pc = "parse" /\ Parsing /\ Arg \in Flags /\ index <= Len(argv)
  BY DEF Flag, Parsing
<1>2. PICK S \in SUBSET (1..leading) :
        Prefix(argv, leading, S) /\ options = Chosen(argv, S, options.names)
  BY <1>1, ParserStands, Zenon
<1>3. /\ argv \in Seq(Args) /\ Len(argv) \in Nat
      /\ index \in Nat \ {0} /\ leading \in Nat
  BY <1>1, ParserStands
<1>7. /\ error = "" /\ options \in Options
      /\ options.names # <<>> => index = leading + 2
      /\ index > 1 => Alone(argv) = "NAMED"
  BY <1>1, ParserStands
<1>4. Alone(argv) = "NAMED"
  <2>1. CASE index = 1
    <3>1. argv[1] \notin {"-h", "--help", "--list", "--status"}
      BY <1>1, <2>1 DEF Arg, Flags
    <3> QED BY <1>3, <3>1, AloneOnly
  <2>2. index = 1 \/ index > 1
    BY ONLY <1>3
  <2> QED BY <1>7, <2>1, <2>2, Zenon
<1>5. CASE ~ Leads
  BY <1>1, <1>4, <1>5, OutOfPlace, IsRejected DEF Flag
<1>6. CASE Leads
  <2> DEFINE T == S \cup {leading + 1}
  <2>1. /\ leading + 1 \in 1..Len(argv) /\ argv[leading + 1] = Arg /\ leading' = leading + 1
        /\ index' = leading' + 1 /\ pc' = "parse" /\ argv' = argv /\ error' = ""
        /\ options.names = <<>>
        /\ options' = IF Arg = "--now" THEN [options EXCEPT !.preview = TRUE]
                                      ELSE [options EXCEPT !.cover = TRUE]
    <3>1. index = leading + 1 /\ leading + 1 # leading + 2 /\ leading + 1 \in 1..Len(argv)
      <4>1. index = 1 + leading
        BY <1>6 DEF Leads
      <4>2. index <= Len(argv)
        BY <1>1
      <4> QED BY ONLY <4>1, <4>2, <1>3
    <3> QED BY <1>1, <1>6, <1>7, <3>1 DEF Flag, Arg, TakesOption
  <2>2. Prefix(argv, leading', T)
    BY <1>1, <1>2, <2>1, PrefixFlag
  <2>3. /\ LastValue(argv, T, "--timeout") = LastValue(argv, S, "--timeout")
        /\ LastValue(argv, T, "--disable-key") = LastValue(argv, S, "--disable-key")
    <3>1. leading \in Nat /\ S \subseteq 1..leading
      BY <1>2, <1>3
    <3>2. \A o : LastValue(argv, T, o) = IF argv[leading + 1] = o THEN argv[leading + 2]
                                         ELSE LastValue(argv, S, o)
      BY ONLY <3>1, ValueAdded
    <3> HIDE DEF T
    <3> QED BY <1>1, <2>1, <3>2 DEF Flags
  <2>4. \A o : (\E i \in T : argv[i] = o) <=> (Arg = o \/ \E i \in S : argv[i] = o)
    BY <2>1
  <2>5. options' = Chosen(argv, T, options'.names) /\ options'.names = <<>>
    <3>1. PICK now, cover \in BOOLEAN :
            /\ now <=> \E i \in S : argv[i] = "--now"
            /\ cover <=> \E i \in S : argv[i] = "--cover-fullscreen"
            /\ Chosen(argv, S, options.names) =
                 [command |-> "NAMED", preview |-> now, cover |-> cover,
                  timeout |-> LastValue(argv, S, "--timeout"),
                  key |-> LastValue(argv, S, "--disable-key"), names |-> options.names]
      BY ChosenIs
    <3>2. options =
            [command |-> "NAMED", preview |-> now, cover |-> cover,
             timeout |-> LastValue(argv, S, "--timeout"),
             key |-> LastValue(argv, S, "--disable-key"), names |-> <<>>]
      BY <1>2, <2>1, <3>1
    <3>3. CASE Arg = "--now"
      <4>1. Chosen(argv, T, <<>>) =
              [command |-> "NAMED", preview |-> TRUE, cover |-> cover,
               timeout |-> LastValue(argv, T, "--timeout"),
               key |-> LastValue(argv, T, "--disable-key"), names |-> <<>>]
        <5>1. /\ TRUE <=> \E i \in T : argv[i] = "--now"
              /\ cover <=> \E i \in T : argv[i] = "--cover-fullscreen"
          BY <2>4, <3>1, <3>3
        <5> QED BY <5>1, ChosenAs
      <4>2. options' = [options EXCEPT !.preview = TRUE]
        BY <2>1, <3>3
      <4> HIDE DEF T
      <4> QED BY <2>3, <3>2, <4>1, <4>2
    <3>4. CASE Arg = "--cover-fullscreen"
      <4>1. Chosen(argv, T, <<>>) =
              [command |-> "NAMED", preview |-> now, cover |-> TRUE,
               timeout |-> LastValue(argv, T, "--timeout"),
               key |-> LastValue(argv, T, "--disable-key"), names |-> <<>>]
        <5>1. /\ now <=> \E i \in T : argv[i] = "--now"
              /\ TRUE <=> \E i \in T : argv[i] = "--cover-fullscreen"
          BY <2>4, <3>1, <3>4
        <5> QED BY <5>1, ChosenAs
      <4>2. options' = [options EXCEPT !.cover = TRUE]
        BY <2>1, <3>4
      <4> HIDE DEF T
      <4> QED BY <2>3, <3>2, <4>1, <4>2
    <3> QED BY <1>1, <3>3, <3>4 DEF Flags
  <2> HIDE DEF T
  <2> QED BY <1>4, <2>1, <2>2, <2>5, GoesOn
<1> QED BY <1>5, <1>6

LEMMA ParserValue ==
  ASSUME WithinArguments, EndsOnce, ParserInv, DisableKey \/ Timeout
  PROVE  ParserInv'
<1>1. pc = "parse" /\ Parsing /\ Arg \in WithValue /\ index <= Len(argv)
  BY DEF DisableKey, Timeout, Parsing, WithValue
<1>2. PICK S \in SUBSET (1..leading) :
        Prefix(argv, leading, S) /\ options = Chosen(argv, S, options.names)
  BY <1>1, ParserStands, Zenon
<1>3. /\ argv \in Seq(Args) /\ Len(argv) \in Nat
      /\ index \in Nat \ {0} /\ leading \in Nat
  BY <1>1, ParserStands
<1>7. /\ error = "" /\ options \in Options
      /\ options.names # <<>> => index = leading + 2
      /\ index > 1 => Alone(argv) = "NAMED"
  BY <1>1, ParserStands
<1>4. Alone(argv) = "NAMED"
  <2>1. CASE index = 1
    <3>1. argv[1] \notin {"-h", "--help", "--list", "--status"}
      BY <1>1, <2>1 DEF Arg, WithValue
    <3> QED BY <1>3, <3>1, AloneOnly
  <2>2. index = 1 \/ index > 1
    BY ONLY <1>3
  <2> QED BY <1>7, <2>1, <2>2, Zenon
<1>5. CASE ~ (Leads /\ index < Len(argv) /\ argv[index + 1] \in ValuesOf(Arg))
  <2>1. Rejected
    BY <1>5 DEF DisableKey, Timeout, ValuesOf
  <2> QED BY <1>1, <1>4, <1>5, <2>1, OutOfPlace, IsRejected
<1>6. CASE Leads /\ index < Len(argv) /\ argv[index + 1] \in ValuesOf(Arg)
  <2>1. /\ leading + 1 \in 1..Len(argv) /\ leading + 2 \in 1..Len(argv)
        /\ argv[leading + 1] = Arg /\ index = leading + 1
        /\ index + 1 = leading + 2 /\ argv[leading + 2] = argv[index + 1]
        /\ options.names = <<>>
    <3>1. /\ index = leading + 1 /\ leading + 1 # leading + 2 /\ index + 1 = leading + 2
          /\ leading + 1 \in 1..Len(argv) /\ leading + 2 \in 1..Len(argv)
      <4>1. index = 1 + leading /\ index < Len(argv)
        BY <1>6 DEF Leads
      <4> QED BY ONLY <4>1, <1>3
    <3> QED BY <1>7, <3>1 DEF Arg
  <2>2. CASE Arg = "--timeout" /\ \E i \in S : argv[i] = "--timeout"
    <3>1. options.timeout # "DEFAULT"
      BY <1>2, <2>2, ValueGiven DEF Chosen, WithValue
    <3>2. Rejected
      BY <2>2, <3>1 DEF DisableKey, Timeout
    <3>3. Readings(argv) = {}
      BY <1>2, <2>1, <2>2, TimeoutOnce
    <3> QED BY <1>4, <3>2, <3>3, IsRejected
  <2>3. CASE ~ (Arg = "--timeout" /\ \E i \in S : argv[i] = "--timeout")
    <3> DEFINE T == S \cup {leading + 1}
    <3>1. Arg = "--timeout" => options.timeout = "DEFAULT"
      BY <1>2, <2>3, ValueGiven DEF Chosen, WithValue
    <3>2. /\ TakesOption(2)
          /\ \/ /\ Arg = "--timeout"
                /\ options' = [options EXCEPT !.timeout = argv[leading + 2]]
             \/ /\ Arg = "--disable-key"
                /\ options' = [options EXCEPT !.key = argv[leading + 2]]
      BY <1>1, <1>6, <2>1, <3>1 DEF DisableKey, Timeout, ValuesOf, WithValue
    <3>3. /\ leading' = leading + 2 /\ index' = leading' + 1 /\ pc' = "parse"
          /\ argv' = argv /\ error' = ""
      <4>1. leading' = leading + 2 /\ index' = index + 2
        BY <3>2 DEF TakesOption
      <4>2. index = leading + 1
        BY <2>1
      <4>3. index' = leading' + 1
        BY ONLY <4>1, <4>2, <1>3
      <4> QED BY <1>1, <1>7, <3>2, <4>1, <4>3 DEF TakesOption
    <3>4. Prefix(argv, leading', T)
      BY <1>1, <1>2, <1>6, <2>1, <2>3, <3>3, PrefixValue
    <3>5. /\ LastValue(argv, T, "--timeout")
               = IF Arg = "--timeout" THEN argv[leading + 2]
                                      ELSE LastValue(argv, S, "--timeout")
          /\ LastValue(argv, T, "--disable-key")
               = IF Arg = "--disable-key" THEN argv[leading + 2]
                                          ELSE LastValue(argv, S, "--disable-key")
      <4>1. leading \in Nat /\ S \subseteq 1..leading
        BY <1>2, <1>3
      <4>2. \A o : LastValue(argv, T, o) = IF argv[leading + 1] = o THEN argv[leading + 2]
                                           ELSE LastValue(argv, S, o)
        BY ONLY <4>1, ValueAdded
      <4> HIDE DEF T
      <4> QED BY <2>1, <4>2
    <3>6. \A o : (\E i \in T : argv[i] = o) <=> (Arg = o \/ \E i \in S : argv[i] = o)
      BY <2>1
    <3>7. options' = Chosen(argv, T, options'.names) /\ options'.names = <<>>
      <4>1. PICK now, cover \in BOOLEAN :
              /\ now <=> \E i \in S : argv[i] = "--now"
              /\ cover <=> \E i \in S : argv[i] = "--cover-fullscreen"
              /\ Chosen(argv, S, options.names) =
                   [command |-> "NAMED", preview |-> now, cover |-> cover,
                    timeout |-> LastValue(argv, S, "--timeout"),
                    key |-> LastValue(argv, S, "--disable-key"), names |-> options.names]
        BY ChosenIs
      <4>2. options =
              [command |-> "NAMED", preview |-> now, cover |-> cover,
               timeout |-> LastValue(argv, S, "--timeout"),
               key |-> LastValue(argv, S, "--disable-key"), names |-> <<>>]
        BY <1>2, <2>1, <4>1
      <4>3. Chosen(argv, T, <<>>) =
              [command |-> "NAMED", preview |-> now, cover |-> cover,
               timeout |-> LastValue(argv, T, "--timeout"),
               key |-> LastValue(argv, T, "--disable-key"), names |-> <<>>]
        <5>1. /\ now <=> \E i \in T : argv[i] = "--now"
              /\ cover <=> \E i \in T : argv[i] = "--cover-fullscreen"
          BY <1>1, <3>6, <4>1 DEF WithValue
        <5> HIDE DEF T
        <5> QED BY ONLY <4>1, <5>1, ChosenAs, ZenonT(30)
      <4> HIDE DEF T
      <4> QED BY <3>2, <3>5, <4>2, <4>3
    <3> HIDE DEF T
    <3> QED BY <1>4, <3>3, <3>4, <3>7, GoesOn
  <2> QED BY <2>2, <2>3
<1> QED BY <1>5, <1>6

(* --help, --list, --status, and a dash with anything else.                *)
LEMMA ParserAlone ==
  ASSUME WithinArguments, EndsOnce, ParserInv, Help \/ StatusOrList \/ UnknownOption
  PROVE  ParserInv'
<1>1. pc = "parse"
  BY DEF Help, StatusOrList, UnknownOption, Parsing
<1>2. PICK S \in SUBSET (1..leading) :
        Prefix(argv, leading, S) /\ options = Chosen(argv, S, options.names)
  BY <1>1, ParserStands, Zenon
<1>3. /\ argv \in Seq(Args) /\ Len(argv) \in Nat /\ index \in Nat \ {0}
      /\ leading \in Nat /\ leading < index
  BY <1>1, ParserStands
<1>4. /\ error = ""
      /\ index > 1 => Alone(argv) = "NAMED"
      /\ options.names # <<>> => index = leading + 2
  BY <1>1, ParserStands
<1>5. CASE Len(argv) # 1
  <2>1. Parsing /\ Arg \in {"-h", "--help", "--status", "--list"} /\ Rejected
    BY <1>5 DEF Help, StatusOrList, UnknownOption
  <2>2. Alone(argv) = "NAMED"
    BY <1>3, <1>5, AloneOnly
  <2>3. Arg \notin NameArgs \cup {"--random"} \cup Flags \cup WithValue
    BY <2>1, Tokens DEF Flags, WithValue
  <2> QED BY <2>1, <2>2, <2>3, OutOfPlace, IsRejected
<1>6. CASE Len(argv) = 1
  <2>1. index = 1 /\ Parsed
        /\ argv[1] \in {"-h", "--help", "--status", "--list"}
        /\ options' = [options EXCEPT !.command =
                         IF argv[1] = "--list" THEN "LIST"
                         ELSE IF argv[1] = "--status" THEN "STATUS" ELSE "HELP"]
    <3>1. CASE Help
      <4>1. argv[1] \in {"-h", "--help"}
        BY <3>1 DEF Help
      <4> QED BY <3>1, <4>1 DEF Help
    <3>2. CASE StatusOrList
      <4>1. index <= 1
        BY <1>6, <3>2 DEF StatusOrList, Parsing
      <4>2. index = 1
        BY ONLY <1>3, <4>1
      <4> QED BY <1>6, <3>2, <4>2 DEF StatusOrList, Arg
    <3>3. CASE UnknownOption
      BY <1>6, <3>3 DEF UnknownOption
    <3> QED BY <3>1, <3>2, <3>3
  <2>2. leading = 0 /\ index # leading + 2
    BY ONLY <1>3, <2>1
  <2>3. options.names = <<>> /\ S = {}
    <3>1. 1..0 = {}
      OBVIOUS
    <3>2. S = {}
      BY <1>2, <2>2, <3>1
    <3>3. options.names = <<>>
      BY <1>4, <2>2
    <3> QED BY <3>2, <3>3
  <2>4. Chosen(argv, S, <<>>) = DefaultOptions
    <3>1. \A o : LastValue(argv, S, o) = "DEFAULT"
      BY <2>3 DEF LastValue
    <3>2. /\ FALSE <=> \E i \in S : argv[i] = "--now"
          /\ FALSE <=> \E i \in S : argv[i] = "--cover-fullscreen"
      BY <2>3
    <3> QED BY <3>1, <3>2, ChosenAs DEF DefaultOptions
  <2>5. /\ Alone(argv) = IF argv[1] = "--list" THEN "LIST"
                         ELSE IF argv[1] = "--status" THEN "STATUS" ELSE "HELP"
        /\ options = DefaultOptions
    BY <1>2, <1>3, <1>6, <2>1, <2>3, <2>4, AloneIs
  <2>6. Alone(argv) # "NAMED" /\ options' = [DefaultOptions EXCEPT !.command = Alone(argv)]
    BY <2>1, <2>5
  <2>7. Meanings(argv) = {options'}
    BY <2>6, Zenon DEF Meanings
  <2> QED BY <1>4, <2>1, <2>7, IsParsed
<1> QED BY <1>5, <1>6

LEMMA ParserName ==
  ASSUME WithinArguments, EndsOnce, ParserInv, Name
  PROVE  ParserInv'
<1>1. pc = "parse" /\ Parsing /\ Arg \in NameArgs /\ index <= Len(argv)
  BY DEF Name, Parsing
<1>2. PICK S \in SUBSET (1..leading) :
        Prefix(argv, leading, S) /\ options = Chosen(argv, S, options.names)
  BY <1>1, ParserStands, Zenon
<1>3. /\ argv \in Seq(Args) /\ Len(argv) \in Nat
      /\ index \in Nat \ {0} /\ leading \in Nat
  BY <1>1, ParserStands
<1>7. /\ error = ""
      /\ options.names = <<>> => index = leading + 1
      /\ options.names # <<>> => index = leading + 2
      /\ index > 1 => Alone(argv) = "NAMED"
  BY <1>1, ParserStands
<1>4. Alone(argv) = "NAMED"
  <2>1. CASE index = 1
    <3>1. argv[1] \notin {"-h", "--help", "--list", "--status"}
      BY <1>1, <2>1, Tokens DEF Arg
    <3> QED BY <1>3, <3>1, AloneOnly
  <2>2. index = 1 \/ index > 1
    BY ONLY <1>3
  <2> QED BY <1>7, <2>1, <2>2, Zenon
<1>5. CASE options.names # <<>>
  <2>1. Rejected
    BY <1>5 DEF Name
  <2>2. index # 1 + leading
    <3>1. index = leading + 2
      BY <1>5, <1>7
    <3> QED BY ONLY <1>3, <3>1
  <2> QED BY <1>1, <1>4, <2>1, <2>2, OutOfPlace, IsRejected DEF Leads
<1>6. CASE options.names = <<>>
  <2>1. /\ pc' = "parse" /\ argv' = argv /\ error' = "" /\ leading' = leading
        /\ index' = index + 1 /\ options' = [options EXCEPT !.names = <<Arg>>]
        /\ Arg = argv[leading + 1] /\ index = leading + 1
    BY <1>1, <1>6, <1>7 DEF Name, Arg
  <2>2. index' = leading' + 2
    <3>1. leading' = leading /\ index' = index + 1 /\ index = leading + 1
      BY <2>1
    <3> QED BY ONLY <1>3, <3>1
  <2>3. options' = Chosen(argv, S, <<Arg>>) /\ options'.names = <<Arg>>
    <3> DEFINE n == options.names
    <3>1. options = Chosen(argv, S, n) /\ options' = [options EXCEPT !.names = <<Arg>>]
      BY <1>2, <2>1
    <3> HIDE DEF n
    <3>2. options' = WithNames(options, <<Arg>>)
      BY <3>1, Zenon DEF WithNames
    <3> QED BY <3>1, <3>2, ChosenNames
  <2> QED BY <1>1, <1>2, <1>4, <2>1, <2>2, <2>3, GoesOn
<1> QED BY <1>5, <1>6

LEMMA ParserEnd ==
  ASSUME WithinArguments, EndsOnce, ParserInv, EndOfArguments
  PROVE  ParserInv'
<1>1. pc = "parse" /\ index > Len(argv)
  BY DEF EndOfArguments
<1>2. PICK S \in SUBSET (1..leading) :
        Prefix(argv, leading, S) /\ options = Chosen(argv, S, options.names)
  BY <1>1, ParserStands, Zenon
<1>3. /\ argv \in Seq(Args) /\ Len(argv) \in Nat
      /\ index \in Nat \ {0} /\ leading \in Nat /\ index <= Len(argv) + 1
  BY <1>1, ParserStands
<1>7. /\ error = ""
      /\ options.names = <<>> => index = leading + 1
      /\ options.names # <<>> => /\ index = leading + 2
                                /\ argv[leading + 1] \in NameArgs
                                /\ options.names = <<argv[leading + 1]>>
      /\ index > 1 => Alone(argv) = "NAMED"
  BY <1>1, ParserStands
<1>4. Alone(argv) = "NAMED"
  <2>1. index = 1 => Len(argv) # 1
    BY ONLY <1>1, <1>3
  <2>2. index = 1 \/ index > 1
    BY ONLY <1>3
  <2> QED BY <1>3, <1>7, <2>1, <2>2, AloneOnly
<1>5. CASE options.names = <<>>
  <2>1. leading + 1 \notin 1..Len(argv)
    <3>1. index = leading + 1
      BY <1>5, <1>7
    <3> QED BY ONLY <1>1, <1>3, <3>1
  <2> QED BY <1>2, <1>4, <1>5, <2>1, NoReading, IsRejected DEF EndOfArguments
<1>6. CASE options.names # <<>> /\ PreviewRefuses(options)
  BY <1>2, <1>4, <1>6, Refused, IsRejected DEF EndOfArguments
<1>8. CASE options.names # <<>> /\ ~ PreviewRefuses(options)
  <2>1. index = leading + 2
    BY <1>7, <1>8
  <2>2. Len(argv) = leading + 1 /\ leading + 1 \in 1..Len(argv)
    BY ONLY <1>1, <1>3, <2>1
  <2>3. argv[leading + 1] \in NameArgs /\ options.names = <<argv[leading + 1]>>
    BY <1>7, <1>8
  <2>4. Screensavers(argv, leading) = options.names
    BY <1>3, <2>2, <2>3, OneName
  <2>5. Readings(argv) = {<<leading, S>>}
    BY <1>2, <1>8, <2>2, <2>4, OneReading
  <2>6. Meanings(argv) = {Meaning(argv, leading, S)}
    BY <1>4, <2>5, MeaningOfReadings
  <2>7. Meaning(argv, leading, S) = options
    <3>1. argv[leading + 1] # "--random"
      BY <2>3, Tokens
    <3> DEFINE n == options.names
    <3>2. options = Chosen(argv, S, n) /\ Screensavers(argv, leading) = n
      BY <1>2, <2>4
    <3> HIDE DEF n
    <3>3. Meaning(argv, leading, S) = Named(Chosen(argv, S, n))
      BY <3>1, <3>2 DEF Meaning, Named
    <3> QED BY <3>2, <3>3, ChosenNames
  <2>8. Parsed /\ options' = options
    BY <1>8 DEF EndOfArguments
  <2> QED BY <1>7, <2>6, <2>7, <2>8, IsParsed
<1> QED BY <1>5, <1>6, <1>8

LEMMA ParserRandom ==
  ASSUME WithinArguments, EndsOnce, ParserInv, Random
  PROVE  ParserInv'
<1>1. pc = "parse" /\ Parsing /\ Arg = "--random" /\ index <= Len(argv)
  BY DEF Random, Parsing
<1>2. PICK S \in SUBSET (1..leading) :
        Prefix(argv, leading, S) /\ options = Chosen(argv, S, options.names)
  BY <1>1, ParserStands, Zenon
<1>3. /\ argv \in Seq(Args) /\ Len(argv) \in Nat
      /\ index \in Nat \ {0} /\ leading \in Nat
  BY <1>1, ParserStands
<1>7. /\ error = ""
      /\ index > 1 => Alone(argv) = "NAMED"
  BY <1>1, ParserStands
<1>4. Alone(argv) = "NAMED"
  <2>1. CASE index = 1
    <3>1. argv[1] \notin {"-h", "--help", "--list", "--status"}
      BY <1>1, <2>1 DEF Arg
    <3> QED BY <1>3, <3>1, AloneOnly
  <2>2. index = 1 \/ index > 1
    BY ONLY <1>3
  <2> QED BY <1>7, <2>1, <2>2, Zenon
<1>5. CASE ~ Leads
  BY <1>1, <1>4, <1>5, OutOfPlace, IsRejected DEF Random
<1>6. CASE Leads
  <2> DEFINE names == SubSeq(argv, index + 1, Len(argv))
             known == names # <<>> /\ \A i \in 1..Len(names) : names[i] \in NameArgs
  <2>1. index = 1 + leading
    BY <1>6 DEF Leads
  <2>2. /\ index = leading + 1 /\ index + 1 = leading + 2 /\ leading + 1 \in 1..Len(argv)
        /\ (leading + 1 < Len(argv) <=> index < Len(argv))
    <3>1. index <= Len(argv)
      BY <1>1
    <3> QED BY ONLY <1>3, <2>1, <3>1
  <2>3. argv[leading + 1] = "--random" /\ names = SubSeq(argv, leading + 2, Len(argv))
    BY <1>1, <2>2 DEF Arg
  <2>4. /\ Screensavers(argv, leading) = IF known THEN names ELSE <<>>
        /\ names # <<>> <=> index < Len(argv)
    <3> HIDE DEF names
    <3> QED BY <1>3, <2>2, <2>3, RandomNames
  <2>5. IF ~ PreviewRefuses(options) /\ known
        THEN Parsed /\ options' = [options EXCEPT !.command = "RANDOM", !.names = names]
        ELSE Rejected
    BY <1>1, <1>6, <2>4 DEF Random
  <2> HIDE DEF names
  <2>6. CASE PreviewRefuses(options)
    BY <1>2, <1>4, <2>5, <2>6, Refused, IsRejected
  <2>7. CASE ~ known
    <3>1. ASSUME NEW q \in Readings(argv) PROVE FALSE
      <4>1. q[1] = leading
        BY <1>2, <2>3, Follows, Tokens
      <4>2. Screensavers(argv, leading) # <<>>
        BY <4>1, ReadingParts
      <4> QED BY <2>4, <2>7, <4>2
    <3>2. Readings(argv) = {}
      BY <3>1
    <3> QED BY <1>4, <2>5, <2>7, <3>2, IsRejected
  <2>8. CASE ~ PreviewRefuses(options) /\ known
    <3>1. Screensavers(argv, leading) = names /\ names # <<>>
      BY <2>4, <2>8
    <3>2. Readings(argv) = {<<leading, S>>}
      BY <1>2, <2>2, <2>8, <3>1, OneReading
    <3>3. Meanings(argv) = {Meaning(argv, leading, S)}
      BY <1>4, <3>2, MeaningOfReadings
    <3>4. Meaning(argv, leading, S) = AtRandom(Chosen(argv, S, names))
      BY <2>3, <3>1 DEF Meaning, AtRandom
    <3>5. AtRandom(Chosen(argv, S, names)) = options'
      <4> DEFINE n == options.names
      <4>1. options = Chosen(argv, S, n)
        BY <1>2
      <4>2. options' = RandomWith(options, names)
        BY <2>5, <2>8, Zenon DEF RandomWith
      <4> HIDE DEF n
      <4> QED BY <4>1, <4>2, ChosenNames
    <3>6. Parsed
      BY <2>5, <2>8
    <3> QED BY <1>7, <3>3, <3>4, <3>5, <3>6, IsParsed
  <2> QED BY <2>6, <2>7, <2>8
<1> QED BY <1>5, <1>6

LEMMA ParserInit == Init => ParserInv
<1> SUFFICES ASSUME Init PROVE ParserInv
  OBVIOUS
<1>1. /\ index = 1 /\ leading = 0 /\ options = DefaultOptions
      /\ pc = "parse" /\ error = ""
  BY DEF Init
<1>2. options.names = <<>> /\ index = leading + 1 /\ ~ (index > 1)
  <2>1. index = 1 /\ leading = 0
    BY <1>1
  <2>2. index = leading + 1 /\ ~ (index > 1)
    BY ONLY <2>1
  <2>3. options.names = <<>>
    BY <1>1 DEF DefaultOptions
  <2> QED BY <2>2, <2>3
<1>3. ReadSoFar({})
  <2>1. OptionsBegin(argv, leading, {})
    <3>1. leading = 0
      BY <1>1
    <3>2. 1..leading = {}
      BY ONLY <3>1
    <3> QED BY <3>2 DEF OptionsBegin
  <2>2. options = Chosen(argv, {}, options.names)
    <3>1. \A o : LastValue(argv, {}, o) = "DEFAULT"
      BY DEF LastValue
    <3>2. Chosen(argv, {}, <<>>) = DefaultOptions
      BY <3>1, ChosenAs DEF DefaultOptions
    <3> QED BY <1>1, <1>2, <3>2
  <2>3. \A q \in Readings(argv) : leading <= q[1] /\ {} = q[2] \cap (1..leading)
    <3> TAKE q \in Readings(argv)
    <3>1. q[1] \in 0..(Len(argv) - 1) /\ leading = 0
      BY <1>1, ReadingParts
    <3>2. 1..leading = {} /\ leading <= q[1]
      BY ONLY <3>1
    <3> QED BY <3>2
  <2> QED BY <2>1, <2>2, <2>3 DEF ReadSoFar
<1> QED BY <1>1, <1>2, <1>3 DEF ParserInv, ParsesAsDocumented

LEMMA ParserAlways == Spec => []ParserInv
<1>1. ParserInv /\ WithinArguments /\ EndsOnce /\ [Next]_vars => ParserInv'
  <2> SUFFICES ASSUME ParserInv, WithinArguments, EndsOnce, [Next]_vars
               PROVE  ParserInv'
    OBVIOUS
  <2>1. CASE Parse
    BY <2>1, ParserFlag, ParserValue, ParserAlone, ParserName, ParserEnd, ParserRandom
       DEF Parse
  <2>2. CASE UNCHANGED vars
    BY <2>2 DEF vars, parseVars, ParserInv, ParsesAsDocumented, ReadSoFar
  <2>3. CASE pc # "done" /\ pc' \notin {"parse", "dispatch"} /\ error' # "usage"
    BY <2>3 DEF ParserInv, ParsesAsDocumented
  <2>4. CASE Dispatch \/ OpenDirectory \/ EndOfDirectory \/ ReaddirFails \/ PrintList
               \/ Resolve \/ Load \/ Start
    <3>1. pc # "done" /\ pc' \notin {"parse", "dispatch"} /\ error' = error
      BY <2>4 DEF Dispatch, OpenDirectory, EndOfDirectory, ReaddirFails, PrintList,
         Resolve, Load, Start
    <3> QED BY <2>3, <3>1 DEF EndsOnce
  <2>5. CASE OpenFails \/ ReadFails \/ Unknown \/ LoadFails
    BY <2>3, <2>5 DEF OpenFails, ReadFails, Unknown, LoadFails, Fails
  <2>6. ASSUME NEW f \in Files, ReadEntry(f) PROVE ParserInv'
    <3>1. pc = "readdir" /\ error = ""
      BY <2>6 DEF ReadEntry, EndsOnce
    <3>2. pc' \in {"readdir", "done"} /\ error' \in {"", "artifact", "conflict"}
      BY <2>6, <3>1 DEF ReadEntry, Fails
    <3> QED BY <2>3, <3>1, <3>2
  <2>7. ASSUME NEW f \in Files, NEW c \in Conditions, Edit(f, c) PROVE ParserInv'
    BY <2>3, <2>7 DEF Edit, EndsOnce
  <2> QED BY <2>1, <2>2, <2>4, <2>5, <2>6, <2>7 DEF Next, Done
<1> QED BY <1>1, ParserInit, WithinAlways, EndsOnceAlways, PTL DEF Spec

-----------------------------------------------------------------------------
(* The theorems.                                                           *)

(* The inductive invariant as a whole.                                     *)
THEOREM LaunchInvariant == Spec => []LaunchInv
BY WithinAlways, EndsOnceAlways, ParserAlways, LoaderAlways, PTL DEF LaunchInv

(* Types, and the catalog's records lie within the memory it has: what     *)
(* ensure_catalog_capacity makes of a capacity is always enough.           *)
THEOREM LaunchTypeCorrect == Spec => []LaunchTypeOK
<1>1. WithinArguments => LaunchTypeOK
  BY DEF WithinArguments
<1> QED BY <1>1, WithinAlways, PTL

(* strange_cli_parse accepts exactly the command lines of the usage text,  *)
(* of any length, and makes of each the one thing it means.                *)
THEOREM ParserIsRight == Spec => []ParsesAsDocumented
<1>1. ParserInv => ParsesAsDocumented
  BY DEF ParserInv
<1> QED BY <1>1, ParserAlways, PTL

(* For any number of entries, in any order: what ~/.strange contains       *)
(* decides whether it is accepted and what is in the catalog, in which no  *)
(* name is both a script's and a library's.  A readdir that fails leaves   *)
(* out the rest of it, and nothing else.                                   *)
THEOREM OrderDecidesNothing == Spec => []DirectoryDecides
<1>1. LoaderInv => DirectoryDecides
  BY DEF LoaderInv
<1> QED BY <1>1, LoaderAlways, PTL

(* A built-in screensaver is never chosen over one the user has, if        *)
(* readdir does not fail.                                                  *)
THEOREM UserComesFirst == Spec => []UserFirst
<1>1. LoaderInv => UserFirst
  BY DEF LoaderInv
<1> QED BY <1>1, LoaderAlways, PTL

(* What is started was asked for, and every name asked for was known.      *)
THEOREM StartsTheRightOne == Spec => []StartsWhatWasAsked
<1>1. LoaderInv => StartsWhatWasAsked
  BY DEF LoaderInv
<1> QED BY <1>1, LoaderAlways, PTL
==============================================================================
