------------------------------ MODULE Session --------------------------------
(***************************************************************************)
(* How a program knows it runs in a terminal strange wraps (src/session.c):*)
(* the shell strange starts has STRANGE_TTY set to the name of its PTY,    *)
(* and everything started from it inherits that, other windows and servers *)
(* that outlive the shell included.  A session counts only on the terminal *)
(* it names.  Names of terminals are used again once they are free.        *)
(***************************************************************************)
CONSTANTS
  Names,    \* of terminals
  None      \* no terminal, or a variable that is not set

ASSUME NoneAssumption == None \notin Names \cup {"window", "strange"}

VARIABLES
  master,   \* who made each terminal: "window", "strange" or None, if closed
  env,      \* STRANGE_TTY in its shell
  runsOn,   \* the terminal that strange, its maker, runs on
  servers,  \* STRANGE_TTY in the programs that have left their terminal
  retired   \* history: the names that were once strange's, and free since

sessionVars == <<master, env, runsOn, servers, retired>>

Open   == {t \in Names : master[t] # None}
Free   == Names \ Open
Wrapped(t) == master[t] = "strange"
Busy(t) == \E n \in Open : runsOn[n] = t

SessionInit ==
  /\ master = [t \in Names |-> None]
  /\ env = [t \in Names |-> None]
  /\ runsOn = [t \in Names |-> None]
  /\ servers = {None}
  /\ retired = {}

(* Mistake: any session counts.                                            *)
HasSession(t) == env[t] # None

(* strange_session_is_current, asked in the shell of terminal t.           *)
IsCurrent(t) == env[t] = t

Opened(n, maker, variable, parent) ==
  /\ n \in Free
  /\ master' = [master EXCEPT ![n] = maker]
  /\ env' = [env EXCEPT ![n] = variable]
  /\ runsOn' = [runsOn EXCEPT ![n] = parent]

(* A window is opened from the desktop, from a shell or by a server, say a *)
(* terminal multiplexer: the variable is inherited.                        *)
OpenWindow(n, variable) ==
  /\ variable \in servers \cup {env[t] : t \in Open}
  /\ Opened(n, "window", variable, None)
  /\ UNCHANGED <<servers, retired>>

(* A server is started and outlives the shell.                             *)
Detach(t) ==
  /\ t \in Open
  /\ servers' = servers \cup {env[t]}
  /\ UNCHANGED <<master, env, runsOn, retired>>

(* main and strange_pty_start_shell: strange runs on t and wraps n, unless *)
(* it takes t for one that is wrapped already.                             *)
RunStrange(t, n) ==
  /\ t \in Open /\ ~ Busy(t)
  /\ ~ IsCurrent(t)
  /\ Opened(n, "strange", n, t)
  /\ UNCHANGED <<servers, retired>>

(* The shell exits, or its window is closed, which ends what runs on it    *)
(* first.                                                                  *)
Close(t) ==
  /\ t \in Open /\ ~ Busy(t)
  /\ master' = [master EXCEPT ![t] = None]
  /\ env' = [env EXCEPT ![t] = None]
  /\ runsOn' = [runsOn EXCEPT ![t] = None]
  /\ retired' = IF Wrapped(t) THEN retired \cup {t} ELSE retired
  /\ UNCHANGED servers

SessionNext ==
  \E t \in Names :
    \/ \E variable \in Names \cup {None} : OpenWindow(t, variable)
    \/ Detach(t)
    \/ \E n \in Names : RunStrange(t, n)
    \/ Close(t)

SessionSpec == SessionInit /\ [][SessionNext]_sessionVars

(* --status always tells the truth in a wrapped terminal, so that strange  *)
(* is not started there again; and where it is wrong elsewhere, the        *)
(* terminal has the name of a wrapped one that is gone.  A variable that   *)
(* was inherited is wrong for no other reason: not because sessions nest,  *)
(* close in any order or leave programs behind.                            *)
SessionTold ==
  \A t \in Open :
    /\ Wrapped(t) => IsCurrent(t)
    /\ IsCurrent(t) => Wrapped(t) \/ t \in retired

(* What the documents say, without exception: --status says whether the    *)
(* current terminal is running under strange, as inherited variables only  *)
(* count on the terminal they name.  It is false of a terminal that got a  *)
(* wrapped one's name after it and was opened by a program started there.  *)
StatusTellsTheTruth == \A t \in Open : IsCurrent(t) <=> Wrapped(t)

-----------------------------------------------------------------------------
(* The inductive invariant behind it: whatever a program has inherited, it *)
(* comes from a terminal that strange wraps or once wrapped.               *)
Known(variable) == variable = None \/ variable \in retired \/ Wrapped(variable)

SessionInv ==
  /\ master \in [Names -> {"window", "strange", None}]
  /\ env \in [Names -> Names \cup {None}]
  /\ servers \subseteq Names \cup {None} /\ retired \subseteq Names
  /\ \A t \in Names : Wrapped(t) => env[t] = t
  /\ \A t \in Names : Known(env[t])
  /\ \A variable \in servers : Known(variable)
=============================================================================
