---------------------------- MODULE TerminalModes ----------------------------
(***************************************************************************)
(* pty/terminal_modes.c: how strange follows, byte by byte and across any  *)
(* split of the output, the two modes it has to hand back.  Runtime takes  *)
(* a control sequence as one piece; here it is bytes, and the terminal     *)
(* reads the same bytes a whole sequence at a time.                        *)
(*                                                                         *)
(* Modes are small numbers, and the limits on parameters small too.        *)
(***************************************************************************)
EXTENDS Integers, SequencesExt

CONSTANTS
  Digits,         \* the digits that occur, among "0" to "9"
  CursorModes,    \* 25
  ScreenModes,    \* 47, 1047 and 1049
  MaxParameters,  \* STRANGE_TERMINAL_MODES_MAX_PARAMETERS
  ParameterCap,   \* 100000
  MaxLength       \* bound on the bytes of a sequence before its last

Numerals == <<"0", "1", "2", "3", "4", "5", "6", "7", "8", "9">>

ASSUME ModesAssumption ==
  /\ Digits \subseteq ToSet(Numerals)
  /\ MaxParameters \in Nat \ {0} /\ ParameterCap \in Nat
  /\ \A m \in CursorModes \cup ScreenModes : m \in 0..(ParameterCap - 1)

VARIABLES
  modes,     \* struct strange_terminal_modes
  sequence,  \* history: the bytes from the last ESC on, while they wait for more
  terminal,  \* history: the modes the terminal itself has
  plain      \* history: every sequence was within the limits and well formed

trackerVars == <<modes, sequence, terminal, plain>>

Value(digit) == (CHOOSE n \in 1..10 : Numerals[n] = digit) - 1

Finals == {"[", "c", "h", "l", "m"}
Bytes == {"ESC", "?", ";", " "} \cup Finals \cup Digits

-----------------------------------------------------------------------------
(* The parser.                                                             *)

Defaults == [alternate_screen |-> FALSE, cursor_visible |-> TRUE]

ModesInit ==
  [alternate_screen |-> FALSE, cursor_visible |-> TRUE, parse_state |-> "TEXT",
   private_sequence |-> FALSE, parameters |-> [i \in 1..MaxParameters |-> 0],
   parameter_count |-> 0]

(* set_private_mode, for each of a set of modes.                           *)
SetPrivateModes(m, numbers, enabled) ==
  [m EXCEPT
     !.alternate_screen = IF numbers \cap ScreenModes # {} THEN enabled ELSE @,
     !.cursor_visible   = IF numbers \cap CursorModes # {} THEN enabled ELSE @]

(* Mistake: only parameters ended by a semicolon count.                    *)
FinishEnded(m, final) ==
  IF m.private_sequence /\ final \in {"h", "l"}
  THEN SetPrivateModes(m, {m.parameters[i] : i \in {j \in 1..MaxParameters :
                             j <= m.parameter_count}}, final = "h")
  ELSE m

(* finish_csi                                                              *)
FinishCsi(m, final) ==
  IF m.private_sequence /\ final \in {"h", "l"}
  THEN SetPrivateModes(m, {m.parameters[i] : i \in {j \in 1..MaxParameters :
                             j <= m.parameter_count + 1}}, final = "h")
  ELSE m

(* The byte after ESC.                                                     *)
ProcessEscape(m, byte) ==
  CASE byte = "[" -> [ModesInit EXCEPT !.alternate_screen = m.alternate_screen,
                                       !.cursor_visible   = m.cursor_visible,
                                       !.parse_state      = "CSI"]
    [] byte = "c" -> [m EXCEPT !.alternate_screen = FALSE, !.cursor_visible = TRUE,
                                !.parse_state      = "TEXT"]
    [] OTHER      -> [m EXCEPT !.parse_state = "TEXT"]

(* A byte of a control sequence.                                           *)
ProcessCsi(m, byte) ==
  LET i == m.parameter_count + 1
  IN  CASE byte \in Finals ->
             [FinishCsi(m, byte) EXCEPT !.parse_state = "TEXT"]
        [] byte = "?" -> [m EXCEPT !.private_sequence = TRUE]
        [] byte = ";" -> [m EXCEPT !.parameter_count = i]
        [] byte \in Digits /\ i <= MaxParameters /\ m.parameters[i] < ParameterCap ->
             [m EXCEPT !.parameters[i] = 10 * @ + Value(byte)]
        [] OTHER -> m

ProcessByte(m, byte) ==
  IF byte = "ESC" THEN [m EXCEPT !.parse_state = "ESCAPE"]
  ELSE CASE m.parse_state = "ESCAPE" -> ProcessEscape(m, byte)
         [] m.parse_state = "CSI"    -> ProcessCsi(m, byte)
         [] m.parse_state = "TEXT"   -> m

-----------------------------------------------------------------------------
(* The terminal, as the standard for control sequences has it: ESC [, then *)
(* "?" for a private one, numbers between semicolons, and a final byte.    *)

Body(s) == SubSeq(s, 3, Len(s) - 1)

IsControl(s) == Len(s) > 2 /\ s[2] = "["

Complete(s) ==
  IF Len(s) = 2 THEN s[2] # "[" ELSE Len(s) > 2 /\ Last(s) \in Finals

SemicolonsBefore(s, i) == Cardinality({j \in 1..(i - 1) : s[j] = ";"})

(* The k-th number of a sequence, read in decimal; 0 if it has no digits.  *)
Number(s, k) ==
  LET upTo[i \in 0..Len(s)] ==
        IF i = 0 THEN 0
        ELSE IF s[i] \in Digits /\ SemicolonsBefore(s, i) = k - 1
        THEN 10 * upTo[i - 1] + Value(s[i])
        ELSE upTo[i - 1]
  IN  upTo[Len(s)]

NumberCount(s) == 1 + SemicolonsBefore(s, Len(s) + 1)

WellFormed(s) ==
  IsControl(s) => /\ \A i \in 2..Len(Body(s)) : Body(s)[i] # "?"
                  /\ NumberCount(Body(s)) <= MaxParameters

Obey(t, s) ==
  IF s = <<"ESC", "c">> THEN Defaults
  ELSE IF IsControl(s) /\ s[3] = "?" /\ Last(s) \in {"h", "l"}
  THEN SetPrivateModes(t, {Number(Body(s), k) : k \in 1..NumberCount(Body(s))},
                       Last(s) = "h")
  ELSE t

-----------------------------------------------------------------------------
TrackerInit ==
  /\ modes = ModesInit
  /\ sequence = <<>> /\ terminal = Defaults /\ plain = TRUE

(* strange_terminal_modes_write, of one byte.                              *)
Write(byte) ==
  LET s == IF byte = "ESC" THEN <<byte>>
           ELSE IF sequence = <<>> THEN <<>> ELSE Append(sequence, byte)
  IN  /\ Len(sequence) < MaxLength \/ byte \in Finals \cup {"ESC"}
      /\ modes' = ProcessByte(modes, byte)
      /\ IF Complete(s)
         THEN /\ sequence' = <<>>
              /\ terminal' = Obey(terminal, s)
              /\ plain' = (plain /\ WellFormed(s))
         ELSE sequence' = s /\ UNCHANGED <<terminal, plain>>

TrackerNext == \E byte \in Bytes : Write(byte)

TrackerSpec == TrackerInit /\ [][TrackerNext]_trackerVars

(* strange believes of the terminal what is true of it, wherever its reads *)
(* end and whatever else the output holds, as long as no sequence has more *)
(* parameters than strange keeps.  A number that has grown past the cap is *)
(* no longer the number written, but is never taken for a mode.            *)
ModesFollowed ==
  plain => /\ modes.alternate_screen = terminal.alternate_screen
           /\ modes.cursor_visible = terminal.cursor_visible
=============================================================================
