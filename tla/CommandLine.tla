---------------------------- MODULE CommandLine -----------------------------
(***************************************************************************)
(* What a command line is and what it means, as the usage text of          *)
(* src/cli.c puts it: options first, then one name, or --random and any    *)
(* number of them; --help, --list and --status alone.  Launch compares     *)
(* the parser with it.                                                     *)
(*                                                                         *)
(* An argument is a token; of its spelling only whether it is an option, a *)
(* number, a key or a name matters.                                        *)
(***************************************************************************)
EXTENDS Integers, Sequences

CONSTANTS
  Seconds, \* arguments that are a positive number
  KeyArgs, \* arguments that --disable-key accepts
  Words    \* arguments that are neither, and no option

OptionArgs == {"-h", "--help", "--now", "--cover-fullscreen", "--disable-key",
               "--timeout", "--status", "--list", "--random"}

(* Arguments that do not begin with a dash can all be names.               *)
NameArgs == Seconds \cup KeyArgs \cup Words

(* "DEFAULT" stands for a value that was not given, and is no argument.    *)
ASSUME CommandLineAssumption == NameArgs \cap (OptionArgs \cup {"DEFAULT"}) = {}

Args == NameArgs \cup OptionArgs

Commands == {"NAMED", "RANDOM", "LIST", "STATUS", "HELP"}

(* struct strange_cli_options, the name being one of `names`.              *)
Options == [command : Commands, preview : BOOLEAN, cover : BOOLEAN,
            timeout : Seconds \cup {"DEFAULT"}, key : KeyArgs \cup {"DEFAULT"},
            names : Seq(NameArgs)]

(* strange_cli_parse begins with these.                                    *)
DefaultOptions == [command |-> "NAMED", preview |-> FALSE, cover |-> FALSE,
                   timeout |-> "DEFAULT", key |-> "DEFAULT", names |-> <<>>]

-----------------------------------------------------------------------------
(* The grammar.                                                            *)

Flags == {"--now", "--cover-fullscreen"}
ValuesOf(option) == CASE option = "--timeout"     -> Seconds
                      [] option = "--disable-key" -> KeyArgs

(* `starts` are the places in a[1..p] where an option begins.              *)
OptionsBegin(a, p, starts) ==
  /\ \A i \in starts : \/ a[i] \in Flags
                       \/ /\ a[i] \in {"--timeout", "--disable-key"}
                          /\ i < p /\ i + 1 \notin starts
                          /\ a[i + 1] \in ValuesOf(a[i])
  /\ \A i \in (1..p) \ starts :
       i - 1 \in starts /\ a[i - 1] \notin Flags
  /\ \A i, j \in starts : a[i] = "--timeout" /\ a[j] = "--timeout" => i = j

AreOptions(a, p, starts) ==
  /\ OptionsBegin(a, p, starts)
  /\ (\E i \in starts : a[i] = "--now") => \A i \in starts : a[i] = "--now"

Alone(a) ==
  CASE a = <<"-h">> \/ a = <<"--help">> -> "HELP"
    [] a = <<"--list">>                 -> "LIST"
    [] a = <<"--status">>               -> "STATUS"
    [] OTHER                            -> "NAMED"

(* What follows the first p arguments: a name, or --random and names.      *)
Screensavers(a, p) ==
  LET rest == SubSeq(a, p + 1, Len(a))
      names == IF rest # <<>> /\ rest[1] = "--random" THEN Tail(rest) ELSE rest
  IN IF /\ names # <<>> /\ \A i \in 1..Len(names) : names[i] \in NameArgs
        /\ names = rest => Len(names) = 1
     THEN names ELSE <<>>

LastValue(a, starts, option) ==
  LET at == {i \in starts : a[i] = option}
  IN IF at = {} THEN "DEFAULT"
     ELSE a[1 + CHOOSE i \in at : \A j \in at : j <= i]

(* Every way to read a command line as options and what follows them.      *)
Readings(a) ==
  {q \in (0..(Len(a) - 1)) \X SUBSET (1..Len(a)) :
     /\ q[2] \subseteq 1..q[1]
     /\ AreOptions(a, q[1], q[2])
     /\ Screensavers(a, q[1]) # <<>>}

(* The options that begin at `starts`, and those names.                    *)
Chosen(a, starts, names) ==
  [command |-> "NAMED",
   preview |-> \E i \in starts : a[i] = "--now",
   cover   |-> \E i \in starts : a[i] = "--cover-fullscreen",
   timeout |-> LastValue(a, starts, "--timeout"),
   key     |-> LastValue(a, starts, "--disable-key"),
   names   |-> names]

Meaning(a, p, starts) ==
  [Chosen(a, starts, Screensavers(a, p)) EXCEPT
     !.command = IF a[p + 1] = "--random" THEN "RANDOM" ELSE "NAMED"]

(* Every meaning of a command line: at most one, none if it is malformed.  *)
Meanings(a) ==
  IF Alone(a) # "NAMED" THEN {[DefaultOptions EXCEPT !.command = Alone(a)]}
  ELSE {Meaning(a, q[1], q[2]) : q \in Readings(a)}
=============================================================================
