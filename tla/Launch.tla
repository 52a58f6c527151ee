------------------------------- MODULE Launch -------------------------------
(***************************************************************************)
(* From the command line to a screensaver (main.c, src/cli.c,              *)
(* src/screensaver_registry.c, src/screensaver_loader.c): arguments are    *)
(* parsed one by one, ~/.strange is read into a catalog after the built-in *)
(* screensavers, and the one asked for is found in it and loaded.          *)
(*                                                                         *)
(* readdir returns entries in any order, and the user may change the       *)
(* directory meanwhile.  An entry is known by the name and kind its file   *)
(* name says.                                                              *)
(*                                                                         *)
(* A definition whose comment begins "Mistake:" is used nowhere: it is a   *)
(* wrong version of the definition after it, which a property must catch.  *)
(***************************************************************************)
EXTENDS CommandLine

CONSTANTS
  Builtins,        \* names of the built-in screensavers, in their order
  Files,           \* entries ~/.strange may have, as [name, source]
  InitialCapacity, \* records a catalog first has room for
  MaxArgs,         \* bound: arguments on the command line
  MaxEdits         \* bound: changes to ~/.strange while strange starts

UserSources == {"LUA", "DYNAMIC"}

ASSUME LaunchAssumption ==
  /\ Builtins \in Seq(NameArgs) /\ Builtins # <<>>
  /\ Files \subseteq [name : NameArgs, source : UserSources \cup {"OTHER"}]
  /\ InitialCapacity \in Nat \ {0}
  /\ MaxArgs \in Nat /\ MaxEdits \in Nat

VARIABLES
  pc,        \* what is done next
  argv,      \* the arguments; dropped once parsed
  index, leading,  \* the parser's index and leading_flag_count
  options,   \* struct strange_cli_options
  directory, \* what each file of ~/.strange is
  unread,    \* entries readdir may return
  steady,    \* history: there since opendir, unchanged
  edits,     \* number of changes the user made
  cut,       \* history: readdir failed, and the rest was not read
  catalog, capacity,  \* struct strange_screensaver_catalog
  chosen,    \* the record found for the name asked for
  error,     \* what error_buffer says
  outcome    \* what strange did in the end

parseVars   == <<argv, index, leading, options>>
catalogVars == <<catalog, capacity>>
dirVars     == <<directory, unread, steady, edits, cut>>
vars == <<pc, parseVars, dirVars, catalogVars, chosen, error, outcome>>

(* "dangling": stat fails; "special": a directory or the like.             *)
Conditions == {"absent", "regular", "special", "dangling"}

Records == [name : NameArgs, source : UserSources \cup {"BUILTIN"}]
NoRecord == [name |-> "", source |-> "OTHER"]

(* Types; and the records of a catalog lie within the memory it has.       *)
LaunchTypeOK ==
  /\ pc \in {"parse", "dispatch", "opendir", "readdir", "catalog", "load",
             "start", "done"}
  /\ argv \in Seq(Args) /\ index \in 1..(MaxArgs + 1) /\ leading \in 0..MaxArgs
  /\ options \in Options
  /\ directory \in [Files -> Conditions]
  /\ unread \subseteq Files /\ steady \subseteq Files
  /\ edits \in 0..MaxEdits /\ cut \in BOOLEAN
  /\ catalog \in Seq(Records) /\ capacity \in Nat
  /\ Len(catalog) <= capacity
  /\ chosen \in Records \cup {NoRecord}
  /\ error \in {"", "usage", "memory", "directory", "artifact", "conflict",
                "unknown", "load"}
  /\ outcome \in {"", "help", "status", "list", "error", "not a terminal",
                  "preview", "nested", "run"}

-----------------------------------------------------------------------------
(* strange_cli_parse: an action for every kind of argument.                *)

Parsing == pc = "parse" /\ index <= Len(argv)
Arg == argv[index]
Leads == index = 1 + leading

Rejected ==
  /\ pc' = "done" /\ outcome' = "error" /\ error' = "usage"
  /\ UNCHANGED <<parseVars, dirVars, catalogVars, chosen>>

Parsed ==
  /\ pc' = "dispatch"
  /\ UNCHANGED <<argv, index, leading, dirVars, catalogVars, chosen, error, outcome>>

(* Goes on behind an option of n arguments.                                *)
TakesOption(n) ==
  /\ leading' = leading + n /\ index' = index + n
  /\ UNCHANGED <<pc, argv, dirVars, catalogVars, chosen, error, outcome>>

(* reject_options_with_preview                                             *)
PreviewRefuses(o) ==
  o.preview /\ (o.cover \/ o.timeout # "DEFAULT" \/ o.key # "DEFAULT")

Help ==
  /\ pc = "parse" /\ index = 1 /\ argv \in {<<"-h">>, <<"--help">>}
  /\ options' = [options EXCEPT !.command = "HELP"]
  /\ Parsed

Flag ==
  /\ Parsing /\ Arg \in Flags
  /\ IF Leads
     THEN /\ options' = IF Arg = "--now" THEN [options EXCEPT !.preview = TRUE]
                                         ELSE [options EXCEPT !.cover = TRUE]
          /\ TakesOption(1)
     ELSE Rejected

DisableKey ==
  /\ Parsing /\ Arg = "--disable-key"
  /\ IF Leads /\ index < Len(argv) /\ argv[index + 1] \in KeyArgs
     THEN /\ options' = [options EXCEPT !.key = argv[index + 1]]
          /\ TakesOption(2)
     ELSE Rejected

(* Mistake: --timeout is taken anywhere.                                   *)
TimeoutAnywhere ==
  /\ Parsing /\ Arg = "--timeout"
  /\ IF /\ options.timeout = "DEFAULT"
        /\ index < Len(argv) /\ argv[index + 1] \in Seconds
     THEN /\ options' = [options EXCEPT !.timeout = argv[index + 1]]
          /\ TakesOption(2)
     ELSE Rejected

Timeout ==
  /\ Parsing /\ Arg = "--timeout"
  /\ IF /\ options.timeout = "DEFAULT" /\ Leads
        /\ index < Len(argv) /\ argv[index + 1] \in Seconds
     THEN /\ options' = [options EXCEPT !.timeout = argv[index + 1]]
          /\ TakesOption(2)
     ELSE Rejected

StatusOrList ==
  /\ Parsing /\ Arg \in {"--status", "--list"}
  /\ IF Len(argv) = 1
     THEN /\ options' = [options EXCEPT
                           !.command = IF Arg = "--list" THEN "LIST" ELSE "STATUS"]
          /\ Parsed
     ELSE Rejected

Random ==
  /\ Parsing /\ Arg = "--random"
  /\ LET names == SubSeq(argv, index + 1, Len(argv))
     IN IF /\ Leads /\ index < Len(argv)
           /\ ~ PreviewRefuses(options)
           /\ \A i \in 1..Len(names) : names[i] \in NameArgs
        THEN /\ options' = [options EXCEPT !.command = "RANDOM", !.names = names]
             /\ Parsed
        ELSE Rejected

UnknownOption ==
  /\ Parsing /\ Arg \in {"-h", "--help"} /\ Len(argv) > 1
  /\ Rejected

Name ==
  /\ Parsing /\ Arg \in NameArgs
  /\ IF options.names = <<>>
     THEN /\ options' = [options EXCEPT !.names = <<Arg>>]
          /\ index' = index + 1
          /\ UNCHANGED <<pc, argv, leading, dirVars, catalogVars, chosen, error, outcome>>
     ELSE Rejected

EndOfArguments ==
  /\ pc = "parse" /\ index > Len(argv)
  /\ IF options.names # <<>> /\ ~ PreviewRefuses(options)
     THEN Parsed /\ UNCHANGED options
     ELSE Rejected

Parse == \/ Help \/ Flag \/ DisableKey \/ Timeout \/ StatusOrList \/ Random
         \/ UnknownOption \/ Name \/ EndOfArguments

(* main goes by the command.                                               *)
Dispatch ==
  /\ pc = "dispatch"
  /\ argv' = <<>> /\ index' = 1 /\ leading' = 0
  /\ IF options.command \in {"HELP", "STATUS"}
     THEN /\ pc' = "done"
          /\ outcome' = IF options.command = "HELP" THEN "help" ELSE "status"
     ELSE pc' = "opendir" /\ UNCHANGED outcome
  /\ UNCHANGED <<options, dirVars, catalogVars, chosen, error>>

-----------------------------------------------------------------------------
(* The catalog.                                                            *)

(* ensure_catalog_capacity: doubled as often as needed.                    *)
Grown(c, least) ==
  IF c >= least THEN c
  ELSE LET first == IF c = 0 THEN InitialCapacity ELSE c
           sizes == {first * 2^n : n \in 0..least}
       IN CHOOSE s \in sizes : s >= least /\ \A t \in sizes : t >= least => s <= t

(* append_builtin_records                                                  *)
BuiltinRecords ==
  [i \in 1..Len(Builtins) |-> [name |-> Builtins[i], source |-> "BUILTIN"]]

(* strange_screensaver_catalog_init failed: the catalog is freed.          *)
Fails(e) ==
  /\ pc' = "done" /\ outcome' = "error" /\ error' = e
  /\ catalog' = <<>> /\ capacity' = 0
  /\ UNCHANGED <<parseVars, directory, steady, edits, cut, chosen>>

(* The catalog begins with the built-in screensavers; then ~/.strange is   *)
(* opened, with whatever there is in it.  It, or HOME, may be missing.     *)
OpenDirectory ==
  /\ pc = "opendir"
  /\ catalog' = BuiltinRecords
  /\ capacity' = Grown(0, Len(Builtins))
  /\ \/ /\ pc' = "readdir"
        /\ directory' \in [Files -> Conditions]
        /\ unread' = {f \in Files : directory'[f] # "absent"}
        /\ steady' = unread'
     \/ pc' = "catalog" /\ UNCHANGED <<directory, unread, steady>>
  /\ UNCHANGED <<parseVars, edits, cut, chosen, error, outcome>>

OpenFails ==
  /\ pc = "opendir"
  /\ \E e \in {"directory", "memory"} : Fails(e)
  /\ UNCHANGED unread

(* Mistake: a built-in screensaver is found, too.                          *)
FindAnyRecord(name) == {i \in 1..Len(catalog) : catalog[i].name = name}

(* find_user_record: where the catalog has user records of that name.      *)
FindUserRecord(name) ==
  {i \in 1..Len(catalog) :
     catalog[i].source # "BUILTIN" /\ catalog[i].name = name}

(* Mistake: room is made for the records there are.                        *)
RoomForAsMany == Grown(capacity, Len(catalog))

RoomForOneMore == Grown(capacity, Len(catalog) + 1)

(* classify_user_artifact, by what the file name ends in.                  *)
Classified(f) == f.source \in UserSources

(* One turn of the loop in discover_user_screensavers.  stat fails for an  *)
(* entry that has gone since, as it does for a dangling link.              *)
ReadEntry(f) ==
  /\ pc = "readdir" /\ f \in unread
  /\ unread' = unread \ {f}
  /\ IF directory[f] \in {"absent", "dangling"} THEN Fails("artifact")
     ELSE IF directory[f] = "special" \/ ~ Classified(f)
     THEN UNCHANGED <<pc, parseVars, directory, steady, edits, cut, catalogVars,
                      chosen, error, outcome>>
     ELSE IF \E i \in FindUserRecord(f.name) : catalog[i].source # f.source
     THEN Fails("conflict")
     ELSE /\ catalog' = Append(catalog, f)
          /\ capacity' = RoomForOneMore
          /\ UNCHANGED <<pc, parseVars, directory, steady, edits, cut,
                         chosen, error, outcome>>

ReadFails ==
  /\ pc = "readdir" /\ unread # {}
  /\ Fails("memory")
  /\ UNCHANGED unread

(* An entry that was changed meanwhile may or may not have been returned.  *)
EndOfDirectory ==
  /\ pc = "readdir" /\ unread \cap steady = {}
  /\ pc' = "catalog"
  /\ UNCHANGED <<parseVars, dirVars, catalogVars, chosen, error, outcome>>

(* readdir returns NULL on an error, too, and errno is not looked at: what *)
(* is left is taken for nothing.                                           *)
ReaddirFails ==
  /\ pc = "readdir"
  /\ pc' = "catalog" /\ cut' = TRUE
  /\ UNCHANGED <<parseVars, directory, unread, steady, edits, catalogVars,
                 chosen, error, outcome>>

Edit(f, condition) ==
  /\ pc \in {"readdir", "catalog", "load"} /\ edits < MaxEdits
  /\ directory[f] # condition
  /\ directory' = [directory EXCEPT ![f] = condition]
  /\ unread' = IF pc = "readdir" /\ condition # "absent" THEN unread \cup {f}
                                                         ELSE unread
  /\ steady' = steady \ {f}
  /\ edits' = edits + 1
  /\ UNCHANGED <<pc, parseVars, cut, catalogVars, chosen, error, outcome>>

-----------------------------------------------------------------------------
(* strange_cli_print_list *)
PrintList ==
  /\ pc = "catalog" /\ options.command = "LIST"
  /\ pc' = "done" /\ outcome' = "list"
  /\ catalog' = <<>> /\ capacity' = 0
  /\ UNCHANGED <<parseVars, dirVars, chosen, error>>

(* Where the catalog has a name, and which record is found for it.         *)
At(name) == {i \in 1..Len(catalog) : catalog[i].name = name}

(* Mistake: the first record of that name is found.                        *)
FindFirst(name) == catalog[CHOOSE i \in At(name) : \A j \in At(name) : i <= j]

(* strange_screensaver_catalog_find: the last one.                         *)
Find(name) == catalog[CHOOSE i \in At(name) : \A j \in At(name) : j <= i]

(* Mistake: some name is known.                                            *)
SomeKnown(names) == \E i \in 1..Len(names) : At(names[i]) # {}

AllKnown(names) == \A i \in 1..Len(names) : At(names[i]) # {}

(* The start of strange_cli_resolve_screensaver, by name or at random: the *)
(* only name when there is one.                                            *)
Resolve ==
  /\ pc = "catalog" /\ options.command # "LIST" /\ AllKnown(options.names)
  /\ \E i \in 1..Len(options.names) :
       At(options.names[i]) # {} /\ chosen' = Find(options.names[i])
  /\ pc' = "load"
  /\ UNCHANGED <<parseVars, dirVars, catalogVars, error, outcome>>

Unknown ==
  /\ pc = "catalog" /\ options.command # "LIST" /\ ~ AllKnown(options.names)
  /\ Fails("unknown")
  /\ UNCHANGED unread

(* strange_screensaver_load, and the catalog is freed.  A library or a     *)
(* script that is still there can be unusable, too.                        *)
Load ==
  /\ pc = "load"
  /\ \A f \in {chosen} \cap Files : directory[f] = "regular"
  /\ pc' = "start" /\ catalog' = <<>> /\ capacity' = 0
  /\ UNCHANGED <<parseVars, dirVars, chosen, error, outcome>>

LoadFails ==
  /\ pc = "load" /\ chosen.source # "BUILTIN"
  /\ Fails("load")
  /\ UNCHANGED unread

(* The end of main: the terminal, and whether strange already wraps it.    *)
Start ==
  /\ pc = "start"
  /\ \E interactive, current \in BOOLEAN :
       outcome' = IF ~ interactive        THEN "not a terminal"
                  ELSE IF options.preview THEN "preview"
                  ELSE IF current         THEN "nested"
                  ELSE "run"
  /\ pc' = "done"
  /\ UNCHANGED <<parseVars, dirVars, catalogVars, chosen, error>>

Done == pc = "done" /\ UNCHANGED vars

Next ==
  \/ Parse \/ Dispatch
  \/ OpenDirectory \/ OpenFails \/ ReadFails \/ EndOfDirectory \/ ReaddirFails
  \/ \E f \in Files : ReadEntry(f) \/ \E c \in Conditions : Edit(f, c)
  \/ PrintList \/ Resolve \/ Unknown \/ Load \/ LoadFails \/ Start \/ Done

Init ==
  /\ pc = "parse"
  /\ argv \in UNION {[1..n -> Args] : n \in 0..MaxArgs}
  /\ index = 1 /\ leading = 0 /\ options = DefaultOptions
  /\ directory = [f \in Files |-> "absent"]
  /\ unread = {} /\ steady = {} /\ edits = 0 /\ cut = FALSE
  /\ catalog = <<>> /\ capacity = 0
  /\ chosen = NoRecord /\ error = "" /\ outcome = ""

Spec == Init /\ [][Next]_vars

-----------------------------------------------------------------------------
(* Properties.                                                             *)

(* The parser, which looks at one argument at a time, accepts exactly the  *)
(* command lines of the usage text, and makes of each the one thing it     *)
(* means.                                                                  *)
ParsesAsDocumented ==
  /\ pc = "dispatch"   => Meanings(argv) = {options}
  /\ error = "usage"   => Meanings(argv) = {}

(* What a directory has for user screensavers, if nobody changes it.       *)
Artifacts == {f \in Files : Classified(f) /\ directory[f] = "regular"}

Unusable ==
  \/ \E f \in Files : directory[f] = "dangling"
  \/ \E f, g \in Artifacts : f.name = g.name /\ f # g

UserRecords == {i \in 1..Len(catalog) : catalog[i].source # "BUILTIN"}

(* The order in which readdir returns the entries decides nothing: whether *)
(* the directory is accepted, and what of it is in the catalog, depend on  *)
(* its contents only, if readdir does not fail; the catalog never has what *)
(* they do not.  And even if it changes meanwhile, a catalog never has a   *)
(* script and a library of one name.                                       *)
DirectoryDecides ==
  /\ edits = 0 =>
       /\ pc = "catalog" =>
            LET read == {catalog[i] : i \in UserRecords}
            IN /\ read \subseteq Artifacts
               /\ \A i, j \in UserRecords : catalog[i] = catalog[j] => i = j
               /\ ~ cut => Artifacts \subseteq read /\ ~ Unusable
       /\ error \in {"artifact", "conflict"} => Unusable
  /\ \A i, j \in UserRecords :
       catalog[i].name = catalog[j].name => catalog[i].source = catalog[j].source

(* A user screensaver takes precedence: a built-in one is only chosen if   *)
(* ~/.strange has no artifact of its name, also where entries change while *)
(* they are read and where the user's then fails to load.  A readdir that  *)
(* fails before it has returned the user's is the one exception: the code  *)
(* cannot tell that from the end of the directory.                         *)
UserFirst ==
  chosen.source = "BUILTIN" /\ ~ cut =>
    ~ \E f \in steady \cap Artifacts : f.name = chosen.name

(* What is started was asked for, and of several names every one is known, *)
(* not only the one that was picked.                                       *)
StartsWhatWasAsked ==
  outcome \in {"preview", "run"} =>
    LET names == {options.names[i] : i \in 1..Len(options.names)}
    IN /\ chosen.name \in names
       /\ edits = 0 => \A n \in names : \/ \E i \in 1..Len(Builtins) : Builtins[i] = n
                                        \/ \E f \in Artifacts : f.name = n
=============================================================================
