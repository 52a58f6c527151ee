----------------------------- MODULE WindowSize -----------------------------
(***************************************************************************)
(* How the PTY comes to know the terminal's size (pty/pty.c, and its       *)
(* callers in pty/runtime.c).  Runtime takes strange_pty_sync_window_size  *)
(* as one step and a size as true or not; here sizes are numbers, and the  *)
(* flag, the question and the answer are steps of their own, between which *)
(* the terminal may be resized.  So are the start of the shell, whose size *)
(* is read before the fork and applied by the child in its own time, and   *)
(* the screensaver's way of making a full-screen program repaint.          *)
(*                                                                         *)
(* Of a size only the height is kept.  A definition whose comment begins   *)
(* "Mistake:" is used nowhere: a property must catch it.                   *)
(***************************************************************************)
EXTENDS Integers

CONSTANTS
  TerminalHeights, \* 0 if the terminal does not know its size
  MaxResizes       \* bound on how often it is resized

ASSUME WindowAssumption == TerminalHeights \subseteq Nat /\ MaxResizes \in Nat

VARIABLES
  pc,          \* what strange does next
  after,       \* where it goes on after the current sync
  height,      \* the terminal's height
  resizes,     \* how often it was resized
  handled,     \* the SIGWINCH handler is installed
  flag,        \* resize_requested
  child,       \* "none", "forked", or "running" once it has set the size
  startHeight, \* read_terminal_state's
  asked,       \* terminal_size.ws_row in strange_pty_sync_window_size
  misreport,   \* its argument
  told,        \* the PTY's height
  alt,         \* modes.alternate_screen
  covered,     \* screensaver_visible
  drewOver,    \* drew_over_child_screen
  late,        \* history: a resize came too early to be seen, or acted upon
               \* before the shell applied the size it was given
  due,         \* history: a program drawn over awaits its SIGWINCH
  seen         \* history: the height the PTY was last told, one row off or not

syncVars    == <<after, asked, misreport>>
startVars   == <<handled, child, startHeight>>
screenVars  == <<alt, covered, drewOver>>
outsideVars == <<height, resizes, late>>
ptyVars     == <<told, seen>>
windowVars  == <<pc, syncVars, startVars, screenVars, outsideVars, flag, ptyVars, due>>

(* Mistake: a terminal that does not know its height has no row to take.   *)
MisreportDown(h) == IF h > 0 THEN h - 1 ELSE h

(* The height one row off that a program drawn over is told.               *)
Misreport(h) == IF h > 1 THEN h - 1 ELSE h + 1

WindowInit ==
  /\ pc = "read" /\ after = "check"
  /\ height \in TerminalHeights /\ resizes = 0
  /\ handled = FALSE /\ flag = FALSE
  /\ child = "none" /\ startHeight = 0 /\ told = 0
  /\ asked = 0 /\ misreport = FALSE
  /\ alt = FALSE /\ covered = FALSE /\ drewOver = FALSE
  /\ late = FALSE /\ due = FALSE /\ seen = 0

-----------------------------------------------------------------------------
(* The start of the shell.                                                 *)

ReadTerminalState ==
  /\ pc = "read" /\ pc' = "fork"
  /\ startHeight' = height
  /\ UNCHANGED <<syncVars, handled, child, screenVars, outsideVars, flag, ptyVars, due>>

Fork ==
  /\ pc = "fork" /\ pc' = "install"
  /\ child' = "forked"
  /\ UNCHANGED <<syncVars, handled, startHeight, screenVars, outsideVars, flag,
                 ptyVars, due>>

InstallHandlers ==
  /\ pc = "install" /\ pc' = "top"
  /\ handled' = TRUE
  /\ UNCHANGED <<syncVars, child, startHeight, screenVars, outsideVars, flag,
                 ptyVars, due>>

(* apply_terminal_state, in the child.                                     *)
ApplyTerminalState ==
  /\ child = "forked"
  /\ child' = "running"
  /\ told' = startHeight /\ seen' = startHeight
  /\ UNCHANGED <<pc, syncVars, handled, startHeight, screenVars, outsideVars,
                 flag, due>>

-----------------------------------------------------------------------------
(* The loop.                                                               *)

(* Begin strange_pty_sync_window_size; it returns to phase `next`.         *)
Sync(wrong, next) == pc' = "ask" /\ misreport' = wrong /\ after' = next

(* sync_resize_if_needed and strange_pty_consume_resize_event.             *)
ConsumeResizeEvent ==
  /\ pc = "top"
  /\ IF flag THEN Sync(drewOver, "check")
             ELSE pc' = "check" /\ UNCHANGED <<after, misreport>>
  /\ flag' = FALSE
  /\ UNCHANGED <<asked, startVars, screenVars, outsideVars, ptyVars, due>>

(* TIOCGWINSZ ...                                                          *)
AskTerminal ==
  /\ pc = "ask" /\ pc' = "tell"
  /\ asked' = height
  /\ UNCHANGED <<after, misreport, startVars, screenVars, outsideVars, flag,
                 ptyVars, due>>

(* Mistake: the flag is cleared once the size has been dealt with.         *)
TellAndClear ==
  /\ pc = "tell" /\ pc' = after
  /\ told' = IF misreport THEN Misreport(asked) ELSE asked
  /\ seen' = asked
  /\ due' = (due /\ told' = told)
  /\ late' = (late /\ child # "running")
  /\ flag' = FALSE
  /\ UNCHANGED <<syncVars, startVars, screenVars, height, resizes>>

(* ... and TIOCSWINSZ.  The kernel signals the program if the size is new. *)
TellPty ==
  /\ pc = "tell" /\ pc' = after
  /\ told' = IF misreport THEN Misreport(asked) ELSE asked
  /\ seen' = asked
  /\ due' = (due /\ told' = told)
  /\ late' = (late /\ child # "running")
  /\ UNCHANGED <<syncVars, startVars, screenVars, height, resizes, flag>>

(* TIMEOUT: the screensaver takes the screen.                              *)
StartScreensaver ==
  /\ pc = "check" /\ ~ covered
  /\ covered' = TRUE
  /\ drewOver' = alt
  /\ IF alt THEN Sync(TRUE, "select")
            ELSE pc' = "select" /\ UNCHANGED <<after, misreport>>
  /\ UNCHANGED <<asked, startVars, alt, outsideVars, flag, ptyVars, due>>

(* No event is due.                                                        *)
Check ==
  /\ pc = "check" /\ pc' = "select"
  /\ UNCHANGED <<syncVars, startVars, screenVars, outsideVars, flag, ptyVars, due>>

(* Output may switch screens, once the program that writes it runs.        *)
ScreensAfter == IF child = "running" THEN BOOLEAN ELSE {alt}

(* Mistake: the true height is left to the next resize.                    *)
ExitWithoutSync ==
  /\ covered /\ pc \in {"check", "select"}
  /\ covered' = FALSE /\ drewOver' = FALSE
  /\ alt' \in ScreensAfter
  /\ due' = (due \/ drewOver)
  /\ pc' = IF pc = "check" THEN "select" ELSE "top"
  /\ UNCHANGED <<syncVars, startVars, outsideVars, flag, ptyVars>>

(* exit_screensaver: a key, too much output, or a frame that fails.  The   *)
(* output held back may switch screens; the size is dealt with after it.   *)
ExitScreensaver ==
  /\ covered /\ pc \in {"check", "select"}
  /\ covered' = FALSE /\ drewOver' = FALSE
  /\ alt' \in ScreensAfter
  /\ due' = (due \/ drewOver)
  /\ LET next == IF pc = "check" THEN "select" ELSE "top"
     IN  IF drewOver THEN Sync(FALSE, next)
                     ELSE pc' = next /\ UNCHANGED <<after, misreport>>
  /\ UNCHANGED <<asked, startVars, outsideVars, flag, ptyVars>>

(* select and what it reports; output is held while the screen is covered. *)
Relay ==
  /\ pc = "select" /\ pc' = "top"
  /\ alt' \in IF covered THEN {alt} ELSE ScreensAfter
  /\ UNCHANGED <<syncVars, startVars, covered, drewOver, outsideVars, flag,
                 ptyVars, due>>

Strange ==
  \/ ReadTerminalState \/ Fork \/ InstallHandlers
  \/ ConsumeResizeEvent \/ AskTerminal \/ TellPty
  \/ StartScreensaver \/ Check \/ ExitScreensaver \/ Relay

(* The terminal is resized; request_resize runs if it is installed, else   *)
(* SIGWINCH is ignored.                                                    *)
Resize ==
  /\ resizes < MaxResizes
  /\ height' \in TerminalHeights \ {height}
  /\ resizes' = resizes + 1
  /\ flag' = handled
  /\ late' = /\ pc # "read" /\ startHeight # height'
             /\ child # "running" \/ ~ handled
  /\ UNCHANGED <<pc, syncVars, startVars, screenVars, ptyVars, due>>

WindowNext == Strange \/ ApplyTerminalState \/ Resize

WindowSpec == WindowInit /\ [][WindowNext]_windowVars

(* Neither strange nor the child waits for anything here for ever.         *)
FairWindowSpec ==
  WindowSpec /\ WF_windowVars(Strange) /\ WF_windowVars(ApplyTerminalState)

-----------------------------------------------------------------------------
(* Properties.                                                             *)

Syncing == pc \in {"ask", "tell"}
InLoop  == pc \in {"top", "check", "select", "ask", "tell"}

(* The height the program should be told.                                  *)
Expected == IF drewOver THEN Misreport(height) ELSE height

(* Every phase follows from the ones before it: only a program that runs   *)
(* is ever drawn over, and a height is asked for before it is told.        *)
WindowTypeOK ==
  /\ pc \in {"read", "fork", "install"} \/ InLoop
  /\ after \in {"top", "check", "select"}
  /\ height \in TerminalHeights /\ startHeight \in TerminalHeights \cup {0}
  /\ asked \in TerminalHeights \cup {0} /\ seen \in TerminalHeights \cup {0}
  /\ told \in Nat
  /\ resizes \in 0..MaxResizes
  /\ child \in {"none", "forked", "running"}
  /\ handled \in BOOLEAN /\ flag \in BOOLEAN /\ misreport \in BOOLEAN
  /\ alt \in BOOLEAN /\ covered \in BOOLEAN /\ drewOver \in BOOLEAN
  /\ late \in BOOLEAN /\ due \in BOOLEAN
  /\ drewOver => covered /\ child = "running"

(* No resize is lost.  Whenever strange is not about to look at the size,  *)
(* the PTY has the right one: the terminal's, or one row off while a       *)
(* program is drawn over.  Only while the shell is being started may a     *)
(* resize be missed, until the next one or the next full-screen cover.     *)
SizeFollowed ==
  InLoop /\ ~ Syncing /\ ~ flag /\ child = "running" /\ ~ late => told = Expected

(* A full-screen program that was drawn over is told of a change as the    *)
(* screensaver ends, and so repaints, but in one case: the terminal was    *)
(* resized since strange last looked, to the very height the program was   *)
(* told.                                                                   *)
RepaintsOnWake ==
  [][ pc = "tell" /\ pc' # "tell" /\ after # "check" /\ ~ misreport /\ due'
        => asked # seen ]_windowVars

(* What the comment of strange_pty_sync_window_size says: reporting the    *)
(* true size makes the program repaint.  A screensaver that has ended and  *)
(* a size that has been dealt with leave no repaint owed.  That case makes *)
(* it false: the size is reported, it is no change, and no other follows.  *)
NoRepaintOwed == InLoop /\ ~ Syncing /\ ~ flag /\ ~ covered => ~ due

(* The PTY is told the right size in the end, and again after every resize.*)
SizeSettles == []<>(late \/ told = Expected)

-----------------------------------------------------------------------------
(* The inductive invariant behind both.                                    *)

(* Until the loop begins only the size read before the fork is known.      *)
StartInv ==
  /\ InLoop <=> handled
  /\ flag => handled
  /\ pc \in {"read", "fork"} <=> child = "none"
  /\ alt => child = "running"
  /\ drewOver \/ due => handled /\ child = "running"
  /\ child = "running" /\ ~ handled => told = startHeight
  /\ ~ late /\ pc # "read" /\ (child # "running" \/ ~ handled)
       => startHeight = height

(* What is about to be told is right, unless the flag is up again.         *)
SyncInv ==
  /\ Syncing => misreport = drewOver
  /\ pc = "tell" /\ ~ flag => asked = height
  /\ due \/ (drewOver /\ ~ Syncing) => ~ late
  /\ Syncing /\ after # "check" => child = "running"

(* A program drawn over has been told one row off the height last seen,    *)
(* until strange tells it the true one.                                    *)
CoverInv ==
  /\ drewOver /\ (Syncing => after = "check") => told = Misreport(seen)
  /\ Syncing /\ after # "check" /\ ~ misreport => told = Misreport(seen)

WindowInv == WindowTypeOK /\ SizeFollowed /\ StartInv /\ SyncInv /\ CoverInv
=============================================================================
