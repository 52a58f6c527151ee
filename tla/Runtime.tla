------------------------------ MODULE Runtime -------------------------------
(***************************************************************************)
(* strange_run (pty/runtime.c): the single-threaded loop that relays keys  *)
(* to the wrapped shell and output to the terminal, and covers the screen  *)
(* when nothing was typed for a while.                                     *)
(*                                                                         *)
(* One turn of the loop is a sequence of phases (`pc`), each an action;    *)
(* between any two of them the user, the shell, the kernel and the clock   *)
(* may act.  A phase runs every call the code makes in it, including the   *)
(* exits taken when a call fails.                                          *)
(*                                                                         *)
(* Data is abstracted to identities: each key press is an element of Keys, *)
(* each piece of output an element of Chunks, pressed or written at most   *)
(* once, so a run can tell any two apart.  Of the clock only the age of    *)
(* the last activity is kept, up to the timeout.                           *)
(*                                                                         *)
(* A definition whose comment begins "Mistake:" is used nowhere: it is a   *)
(* wrong version of the definition after it, which a property must catch.  *)
(***************************************************************************)
EXTENDS Naturals, Sequences, StateMachine

CONSTANTS
  Keys,            \* key presses
  DisableKeys,     \* those of the reserved key; {} for --disable-key none
  Chunks,          \* pieces of shell output
  Effect,          \* what each piece does to the terminal's modes
  InputCap,        \* sizeof(pending_input.bytes), in keys
  PtyCap,          \* keys the PTY's input queue holds before EAGAIN
  ReadSize,        \* the most output one read returns
  HeldLimit,       \* STRANGE_HELD_OUTPUT_LIMIT
  Timeout,         \* --timeout, in ticks; the CLI accepts positive ones only
  CoverFullscreen, \* --cover-fullscreen
  Faults,          \* which calls may fail: see FaultKinds
  Surprises        \* which outside events may happen: see SurpriseKinds

(* "split" output comes in two pieces: "head" ends inside a sequence that  *)
(* switches to the alternate screen and "tail" completes it.               *)
Effects == {"text", "altOn", "altOff", "hide", "show", "reset", "head", "tail"}

(* "frame": a screensaver callback; "memory": realloc; "write": write to   *)
(* the terminal; "ioctl": a window size ioctl; "wait": the clock, select,  *)
(* read or waitpid.                                                        *)
FaultKinds == {"frame", "memory", "write", "ioctl", "wait"}

(* "EOF": the terminal is closed; "SHUTDOWN": SIGINT, SIGTERM or SIGHUP;   *)
(* "RESIZE": SIGWINCH; "EXIT": the shell ends of its own accord; "JOB": it *)
(* starts a job that may outlive it.                                       *)
SurpriseKinds == {"EOF", "SHUTDOWN", "RESIZE", "EXIT", "JOB"}

ASSUME RuntimeAssumption ==
  /\ DisableKeys \subseteq Keys
  /\ Effect \in [Chunks -> Effects]
  /\ InputCap \in Nat \ {0}
  /\ PtyCap \in Nat \ {0}
  /\ ReadSize \in Nat \ {0}
  /\ HeldLimit \in Nat
  /\ Timeout \in Nat \ {0}
  /\ CoverFullscreen \in BOOLEAN
  /\ Faults \subseteq FaultKinds
  /\ Surprises \subseteq SurpriseKinds

VARIABLES
  pc,           \* the phase the loop is about to run
  ready,        \* phases select found something for
  room,         \* input_capacity, as computed before select
  state,        \* machine.state
  idle,         \* time since machine.last_activity_at, at most Timeout
  view,         \* what is on the screen and what strange knows of it
  pending,      \* pending_input
  buffer,       \* what is left of the keys just read from the terminal
  tty,          \* keys the terminal queued and strange has not read
  stdinOpen,    \* FALSE once the terminal reports end of file
  ptyIn,        \* keys in the PTY's input queue
  output,       \* shell output in the PTY, not yet read by strange
  shell,        \* the wrapped shell's process
  job,          \* a background job has the PTY's other side open
  hungUp,       \* SIGHUP was sent to the shell
  shutdownRequested, resizeRequested,  \* flags set by signal handlers
  raw,          \* raw_mode_enabled
  failed,       \* strange_run took `goto cleanup` with status 1
  faulted,      \* history: a write or ioctl on the terminal failed
  typed,        \* history: keys in the order they were pressed
  swallowed,    \* history: keys strange read and did not pass on
  received,     \* history: keys the shell has read
  dropped,      \* history: output strange read and did not pass on
  written       \* history: output in the order the shell wrote it

inputVars   == <<pending, buffer, tty, stdinOpen, ptyIn>>
shellVars   == <<shell, job, hungUp>>
signalVars  == <<shutdownRequested, resizeRequested>>
historyVars == <<typed, swallowed, received, dropped, written>>
vars == <<pc, ready, room, state, idle, view, inputVars, output, shellVars,
          signalVars, raw, failed, faulted, historyVars>>

Phases == {"top", "check", "select", "flush", "stdin", "slice", "output",
           "poll", "cleanup", "hangup", "reap", "done"}

(* The modes struct strange_terminal_modes follows; `parse` is "CSI" while *)
(* a sequence has begun and not ended.                                     *)
Modes == [alt : BOOLEAN, cursor : BOOLEAN, parse : {"TEXT", "CSI"}]

View ==
  [modes       : Modes,        \* what strange believes the shell set
   screen      : Modes,        \* what the terminal really is in
   visible     : BOOLEAN,      \* screensaver_visible
   onAlt       : BOOLEAN,      \* on_alternate_screen
   drewOver    : BOOLEAN,      \* drew_over_child_screen
   misreported : BOOLEAN,      \* the PTY was last told a wrong height
   held        : Seq(Chunks),  \* held_output
   shown       : Seq(Chunks)]  \* history: output the terminal was given

TypeOK ==
  /\ pc \in Phases
  /\ ready \subseteq {"flush", "stdin", "output"}
  /\ room \in 0..InputCap
  /\ state \in RuntimeState
  /\ idle \in 0..Timeout
  /\ view \in View
  /\ pending \in Seq(Keys) /\ buffer \in Seq(Keys)
  /\ tty \in Seq(Keys) /\ ptyIn \in Seq(Keys)
  /\ Len(ptyIn) <= PtyCap
  /\ output \in Seq(Chunks)
  /\ shell \in {"running", "closing", "exited", "reaped"}
  /\ stdinOpen \in BOOLEAN /\ job \in BOOLEAN /\ hungUp \in BOOLEAN
  /\ shutdownRequested \in BOOLEAN /\ resizeRequested \in BOOLEAN
  /\ raw \in BOOLEAN /\ failed \in BOOLEAN /\ faulted \in BOOLEAN
  /\ typed \in Seq(Keys) /\ received \in Seq(Keys) /\ swallowed \subseteq Keys
  /\ dropped \in Seq(Chunks) /\ written \in Seq(Chunks)

-----------------------------------------------------------------------------
(* Sequences.                                                              *)
Least(a, b)   == IF a <= b THEN a ELSE b
Take(s, n)    == SubSeq(s, 1, n)
Drop(s, n)    == SubSeq(s, n + 1, Len(s))
Elements(s)   == {s[i] : i \in 1..Len(s)}
LastOf(S)     == CHOOSE i \in S : \A j \in S : j <= i

-----------------------------------------------------------------------------
(* Terminal modes.  strange's parser (terminal_modes.c) and the terminal   *)
(* read output alike, so one operator describes both.                      *)

(* The pieces of `out` after which the alternate screen is known.          *)
AltSettings(m, out) ==
  {i \in 1..Len(out) :
     \/ Effect[out[i]] \in {"altOn", "altOff", "reset"}
     \/ /\ Effect[out[i]] = "tail"
        /\ IF i = 1 THEN m.parse = "CSI" ELSE Effect[out[i - 1]] = "head"}

CursorSettings(out) ==
  {i \in 1..Len(out) : Effect[out[i]] \in {"hide", "show", "reset"}}

(* strange_terminal_modes_write: the modes after reading all of `out`.     *)
ModesAfter(m, out) ==
  LET alts    == AltSettings(m, out)
      cursors == CursorSettings(out)
  IN  [alt    |-> \/ alts = {} /\ m.alt
                  \/ alts # {} /\ Effect[out[LastOf(alts)]] \in {"altOn", "tail"},
       cursor |-> \/ cursors = {} /\ m.cursor
                  \/ cursors # {} /\ Effect[out[LastOf(cursors)]] \in {"show", "reset"},
       parse  |-> IF out = <<>> THEN m.parse
                  ELSE IF Effect[out[Len(out)]] = "head" THEN "CSI" ELSE "TEXT"]

(* Anything strange writes of its own begins with an escape character and  *)
(* ends whatever sequence the terminal was in the middle of.               *)
Interject(m) == [m EXCEPT !.parse = "TEXT"]

-----------------------------------------------------------------------------
(* The screen.                                                             *)

(* Mistake: the true size is reported even while the screen is drawn over. *)
SyncTrueSize(v, misreport) == [v EXCEPT !.misreported = FALSE]

(* strange_pty_sync_window_size                                            *)
SyncWindowSize(v, misreport) == [v EXCEPT !.misreported = misreport]

(* strange_screensaver_enter, once the screensaver itself has started.  A  *)
(* full-screen program's own screen is drawn over, not switched away from. *)
EnterScreensaver(v) ==
  [v EXCEPT !.visible = TRUE,
            !.onAlt   = ~ v.drewOver,
            !.screen  = [alt    |-> v.screen.alt \/ ~ v.drewOver,
                         cursor |-> FALSE,
                         parse  |-> "TEXT"]]

(* What handle_runtime_event does on the way in: note whether a full-      *)
(* screen program's screen is about to be drawn over, and once the         *)
(* screensaver has the screen tell that program a wrong height.            *)
Mark(v) == [v EXCEPT !.drewOver = v.modes.alt]

Cover(v) ==
  LET entered == EnterScreensaver(Mark(v))
  IN  IF v.modes.alt THEN SyncWindowSize(entered, TRUE) ELSE entered

(* Mistake: the cursor is shown whether or not the shell had hidden it.    *)
LeaveShowingCursor(v) ==
  IF ~ v.visible THEN v
  ELSE [v EXCEPT !.visible = FALSE,
                 !.screen  = [alt    |-> v.screen.alt /\ ~ v.onAlt,
                              cursor |-> TRUE,
                              parse  |-> "TEXT"]]

(* strange_screensaver_leave                                               *)
LeaveScreensaver(v) ==
  IF ~ v.visible THEN v
  ELSE [v EXCEPT !.visible = FALSE,
                 !.screen  = [alt    |-> v.screen.alt /\ ~ v.onAlt,
                              cursor |-> v.screen.cursor \/ v.modes.cursor,
                              parse  |-> "TEXT"]]

(* forward_output                                                          *)
ForwardOutput(v, out) ==
  [v EXCEPT !.screen = ModesAfter(v.screen, out),
            !.modes  = ModesAfter(v.modes, out),
            !.shown  = v.shown \o out]

(* Mistake: the buffer is freed and nothing shown.                         *)
ReleaseNothing(v) == [v EXCEPT !.held = <<>>]

(* release_held_output: the buffer is freed even if forwarding fails.      *)
ReleaseHeldOutput(v) == [ForwardOutput(v, v.held) EXCEPT !.held = <<>>]

(* Mistake: the PTY is not told the true size again.                       *)
ExitWithoutSync(v) ==
  [ReleaseHeldOutput(LeaveScreensaver(v)) EXCEPT !.drewOver = FALSE]

(* exit_screensaver, when every call in it succeeds ...                    *)
ExitScreensaver(v) ==
  LET released == ReleaseHeldOutput(LeaveScreensaver(v))
  IN  IF v.drewOver
      THEN SyncWindowSize([released EXCEPT !.drewOver = FALSE], FALSE)
      ELSE released

(* ... and every way it can end: forwarding the held output may fail, and  *)
(* so may telling the PTY the true size afterwards.                        *)
ExitOutcomes(v) ==
  {[view |-> ExitScreensaver(v), ok |-> TRUE]}
  \cup {[view |-> [LeaveScreensaver(v) EXCEPT !.held = <<>>], ok |-> FALSE] :
          f \in IF v.held # <<>> THEN Faults \cap {"write"} ELSE {}}
  \cup {[view |-> [ReleaseHeldOutput(LeaveScreensaver(v))
                     EXCEPT !.drewOver = FALSE],
         ok |-> FALSE] :
          f \in IF v.drewOver THEN Faults \cap {"ioctl"} ELSE {}}

(* Mistake: only waking up uncovers the screen, not shutting down.         *)
WakingOutcomes(v, from, to) ==
  IF Exits(from, to) /\ to = "PASSTHROUGH" THEN ExitOutcomes(v)
  ELSE {[view |-> v, ok |-> TRUE]}

(* What handle_runtime_event does to the screen for an event that does not *)
(* leave the screensaver showing.                                          *)
EventOutcomes(v, from, to) ==
  IF Exits(from, to) THEN ExitOutcomes(v) ELSE {[view |-> v, ok |-> TRUE]}

(* show_notice, and the message of disable_failed_screensaver.             *)
Notice(v) == [v EXCEPT !.screen = Interject(v.screen)]

-----------------------------------------------------------------------------
(* Control flow.                                                           *)

GoTo(phase) == pc' = phase /\ UNCHANGED failed

(* Mistake: return 1 in place of goto cleanup.                             *)
ReturnAtOnce == pc' = "done" /\ failed' = TRUE

(* goto cleanup with status 1.                                             *)
Abort == pc' = "cleanup" /\ failed' = TRUE

(* After select, the loop body skips what select did not report.           *)
FromOutput(found) == IF "output" \in found THEN "output" ELSE "poll"
FromStdin(found)  == IF "stdin" \in found THEN "stdin" ELSE FromOutput(found)
FromFlush(found)  == IF "flush" \in found THEN "flush" ELSE FromStdin(found)

(* After a call with outcome x that the caller checks: carry on with phase *)
(* `next` and v on the screen, or give up.                                 *)
Checked(x, v, next) ==
  IF x.ok THEN view' = v /\ GoTo(next) /\ UNCHANGED faulted
          ELSE view' = x.view /\ Abort /\ faulted' = TRUE

(* The same where the caller ignores the result.                           *)
Ignored(x) == view' = x.view /\ faulted' = (faulted \/ ~ x.ok)

(* disable_failed_screensaver, with v on the screen.                       *)
DisableFailedScreensaver(v, next) ==
  /\ "frame" \in Faults
  /\ state' = NextState("SCREENSAVER_ACTIVE", "DISABLE")
  /\ \E x \in ExitOutcomes(v) : Checked(x, Notice(x.view), next)

(* render_frame: draw another frame, or fail to.                           *)
RenderFrame(v, next) ==
  \/ state' = state /\ view' = v /\ GoTo(next) /\ UNCHANGED faulted
  \/ DisableFailedScreensaver(v, next)

Unaffected == UNCHANGED <<inputVars, output, shellVars, raw, historyVars>>

-----------------------------------------------------------------------------
(* The phases of one turn of the loop.                                     *)

(* sync_resize_if_needed: the flag is cleared before the size is read.     *)
SyncResize ==
  /\ pc = "top"
  /\ IF ~ resizeRequested
     THEN GoTo("check") /\ UNCHANGED <<state, view, faulted, resizeRequested>>
     ELSE LET synced == SyncWindowSize(view, view.drewOver)
          IN  /\ resizeRequested' = FALSE
              /\ \/ /\ "ioctl" \in Faults
                    /\ Abort /\ faulted' = TRUE /\ UNCHANGED <<state, view>>
                 \/ /\ state = "SCREENSAVER_ACTIVE"
                    /\ RenderFrame(synced, "check")
                 \/ /\ state # "SCREENSAVER_ACTIVE"
                    /\ view' = synced /\ GoTo("check")
                    /\ UNCHANGED <<state, faulted>>
  /\ UNCHANGED <<ready, room, idle, shutdownRequested>> /\ Unaffected

(* strange_pty_shutdown_requested: leave the loop with status 0.           *)
CheckShutdown ==
  /\ pc = "check" /\ shutdownRequested
  /\ state' = NextState(state, "SHUTDOWN")
  /\ \E x \in EventOutcomes(view, state, "SHUTTING_DOWN") : Ignored(x)
  /\ GoTo("cleanup")
  /\ UNCHANGED <<ready, room, idle, signalVars>> /\ Unaffected

(* Mistake: the program is noticed only once it has been drawn over.       *)
HoldsOnceCovered ==
  ~ CoverFullscreen /\ view.drewOver /\ state = "PASSTHROUGH"

(* What HOLD is raised for: a full-screen program, not to be covered.      *)
FullscreenHolds ==
  ~ CoverFullscreen /\ view.modes.alt /\ state = "PASSTHROUGH"

(* A full-screen program holds the timer.  The timeout is positive, so it  *)
(* cannot be due in the same turn.                                         *)
HoldTimer ==
  /\ pc = "check" /\ ~ shutdownRequested /\ FullscreenHolds
  /\ idle' = 0
  /\ GoTo("select")
  /\ UNCHANGED <<ready, room, state, view, faulted, signalVars>> /\ Unaffected

(* Mistake: the timer waits for the shell to take what was typed.          *)
DueOnceInputIsTaken == state = "PASSTHROUGH" /\ idle = Timeout /\ pending = <<>>

(* strange_state_machine_timeout_due, in ticks.                            *)
InactivityTimeoutDue == state = "PASSTHROUGH" /\ idle = Timeout

(* TIMEOUT: take over the screen and draw the first frame.  The PTY is     *)
(* told a wrong height when a full-screen program is drawn over.           *)
StartScreensaver ==
  /\ pc = "check" /\ ~ shutdownRequested /\ ~ FullscreenHolds
  /\ InactivityTimeoutDue
  /\ \/ /\ state' = NextState(state, "TIMEOUT")
        /\ view' = Cover(view) /\ GoTo("select") /\ UNCHANGED faulted
     \/ DisableFailedScreensaver(Mark(view), "select")   \* enter fails
     \/ DisableFailedScreensaver(Cover(view), "select")  \* the frame fails
     \/ /\ "ioctl" \in Faults /\ view.modes.alt
        /\ state' = NextState(state, "TIMEOUT")
        /\ view' = EnterScreensaver(Mark(view)) /\ Abort /\ faulted' = TRUE
  /\ UNCHANGED <<ready, room, idle, signalVars>> /\ Unaffected

(* No event is due: draw the next frame if the screensaver is showing.     *)
NextFrame ==
  /\ pc = "check" /\ ~ shutdownRequested /\ ~ FullscreenHolds
  /\ ~ InactivityTimeoutDue
  /\ IF state = "SCREENSAVER_ACTIVE" THEN RenderFrame(view, "select")
     ELSE GoTo("select") /\ UNCHANGED <<state, view, faulted>>
  /\ UNCHANGED <<ready, room, idle, signalVars>> /\ Unaffected

(* Some process has the other side of the PTY open: the shell, or a job it *)
(* has left behind.                                                        *)
OtherSideOpen == shell = "running" \/ job

(* Mistake: nothing is read from the terminal while the PTY is full.       *)
SelectableStdinWithPty ==
  {p \in {"flush", "stdin", "output"} :
     CASE p = "flush"  -> pending # <<>> /\ (Len(ptyIn) < PtyCap \/ ~ OtherSideOpen)
       [] p = "stdin"  -> /\ Len(pending) < InputCap /\ Len(ptyIn) < PtyCap
                          /\ tty # <<>> \/ ~ stdinOpen
       [] p = "output" -> output # <<>> \/ ~ OtherSideOpen}

(* Mistake: while the screensaver shows, only the terminal is watched.     *)
SelectableStdinOnly ==
  {p \in {"flush", "stdin", "output"} :
     CASE p = "flush"  -> state # "SCREENSAVER_ACTIVE" /\ pending # <<>>
                            /\ (Len(ptyIn) < PtyCap \/ ~ OtherSideOpen)
       [] p = "stdin"  -> Len(pending) < InputCap /\ (tty # <<>> \/ ~ stdinOpen)
       [] p = "output" -> state # "SCREENSAVER_ACTIVE"
                            /\ (output # <<>> \/ ~ OtherSideOpen)}

(* What select would report: stdin only while there is room for input, and *)
(* end of file as readable; space in the PTY only while input is pending.  *)
Selectable ==
  {p \in {"flush", "stdin", "output"} :
     CASE p = "flush"  -> pending # <<>> /\ (Len(ptyIn) < PtyCap \/ ~ OtherSideOpen)
       [] p = "stdin"  -> Len(pending) < InputCap /\ (tty # <<>> \/ ~ stdinOpen)
       [] p = "output" -> output # <<>> \/ ~ OtherSideOpen}

(* Mistake: as much is read as could ever be kept.                         *)
WholeCapacity == InputCap

(* input_capacity: what more pending_input can take.                       *)
InputCapacity == InputCap - Len(pending)

(* select returns with what is ready, or with nothing when a tenth of a    *)
(* second or the frame interval has passed.                                *)
Select ==
  /\ pc = "select"
  /\ ready' = Selectable
  /\ room' = InputCapacity
  /\ GoTo(FromFlush(ready'))
  /\ UNCHANGED <<state, idle, view, faulted, signalVars>> /\ Unaffected

(* A signal handler interrupted the wait (EINTR).                          *)
SelectInterrupted ==
  /\ pc = "select" /\ Selectable = {}
  /\ shutdownRequested \/ resizeRequested
  /\ GoTo("top")
  /\ UNCHANGED <<ready, room, state, idle, view, faulted, signalVars>>
  /\ Unaffected

(* The clock, select, a read or waitpid fails for good, with nothing read. *)
WaitFails ==
  /\ "wait" \in Faults
  /\ pc \in {"top", "select", "stdin", "output", "poll"}
  /\ Abort
  /\ UNCHANGED <<ready, room, state, idle, view, faulted, signalVars>>
  /\ Unaffected

(* flush_pending_input: write until the PTY's input queue is full.  The    *)
(* write fails once nobody has the other side open.                        *)
Flush(input, next) ==
  LET n == Least(Len(input), PtyCap - Len(ptyIn))
  IN  IF OtherSideOpen
      THEN /\ ptyIn' = ptyIn \o Take(input, n)
           /\ pending' = Drop(input, n)
           /\ GoTo(next)
      ELSE pending' = input /\ UNCHANGED ptyIn /\ (Abort \/ GoTo(next))

FlushPendingInput ==
  /\ pc = "flush"
  /\ Flush(pending, FromStdin(ready))
  /\ UNCHANGED <<ready, room, state, idle, view, buffer, tty, stdinOpen,
                 output, shellVars, signalVars, raw, faulted, historyVars>>

(* The clock fails once keys were read: they stay in the buffer, for good. *)
ClockFailsOnInput ==
  /\ "wait" \in Faults
  /\ pc = "stdin" /\ tty # <<>>
  /\ buffer' = Take(tty, Least(room, Len(tty)))
  /\ tty' = Drop(tty, Least(room, Len(tty)))
  /\ Abort
  /\ UNCHANGED <<ready, room, state, idle, view, pending, stdinOpen, ptyIn,
                 output, shellVars, signalVars, raw, faulted, historyVars>>

(* handle_stdin_buffer while the screensaver shows: the whole buffer goes  *)
(* into waking it, or into disabling it if the reserved key is in there.   *)
WakeOnInput ==
  /\ pc = "stdin" /\ tty # <<>> /\ state = "SCREENSAVER_ACTIVE"
  /\ LET n        == Least(room, Len(tty))
         keys     == Elements(Take(tty, n))
         disables == keys \cap DisableKeys # {}
         event    == IF disables THEN "DISABLE" ELSE "USER_INPUT"
     IN  /\ tty' = Drop(tty, n)
         /\ swallowed' = swallowed \cup keys
         /\ state' = NextState(state, event)
         /\ idle' = IF RecordsActivity(event) THEN 0 ELSE idle
         /\ \E x \in ExitOutcomes(view) :
              Checked(x, IF disables THEN Notice(x.view) ELSE x.view,
                      FromOutput(ready))
  /\ UNCHANGED <<ready, room, pending, buffer, stdinOpen, ptyIn, output,
                 shellVars, signalVars, raw, typed, received, dropped, written>>

(* handle_stdin_buffer otherwise: the keys read are dealt with slice by    *)
(* slice, a slice ending where a press of the reserved key begins.         *)
ReadInput ==
  /\ pc = "stdin" /\ tty # <<>> /\ state # "SCREENSAVER_ACTIVE"
  /\ buffer' = Take(tty, Least(room, Len(tty)))
  /\ tty' = Drop(tty, Least(room, Len(tty)))
  /\ GoTo("slice")
  /\ UNCHANGED <<ready, room, state, idle, view, pending, stdinOpen, ptyIn,
                 output, shellVars, signalVars, raw, faulted, historyVars>>

AfterSlice(rest) == IF rest = <<>> THEN FromOutput(ready) ELSE "slice"

(* forward_input_slice: append to pending_input what fits there, and flush. *)
ForwardInputSlice ==
  /\ pc = "slice"
  /\ \E n \in 1..Len(buffer) :
       LET joined == pending \o Take(buffer, n)
       IN  /\ Elements(Take(buffer, n)) \cap DisableKeys = {}
           /\ n < Len(buffer) => buffer[n + 1] \in DisableKeys
           /\ buffer' = Drop(buffer, n)
           /\ Flush(Take(joined, Least(InputCap, Len(joined))),
                    AfterSlice(buffer'))
  /\ idle' = 0
  /\ UNCHANGED <<ready, room, state, view, tty, stdinOpen, output, shellVars,
                 signalVars, raw, faulted, historyVars>>

(* disable_from_key, with a notice the first time.                         *)
DisableFromKey ==
  /\ pc = "slice" /\ buffer # <<>> /\ Head(buffer) \in DisableKeys
  /\ buffer' = Tail(buffer)
  /\ swallowed' = swallowed \cup {Head(buffer)}
  /\ state' = NextState(state, "DISABLE")
  /\ view' = IF state = "SCREENSAVER_DISABLED" THEN view ELSE Notice(view)
  /\ GoTo(AfterSlice(buffer'))
  /\ UNCHANGED <<ready, room, idle, pending, tty, stdinOpen, ptyIn, output,
                 shellVars, signalVars, raw, faulted, typed, received, dropped,
                 written>>

(* read returns 0: the terminal went away.  The loop ends after this turn. *)
EndOfInput ==
  /\ pc = "stdin" /\ tty = <<>> /\ ~ stdinOpen
  /\ state' = NextState(state, "SHUTDOWN")
  /\ \E x \in EventOutcomes(view, state, "SHUTTING_DOWN") : Ignored(x)
  /\ GoTo(FromOutput(ready))
  /\ UNCHANGED <<ready, room, idle, signalVars>> /\ Unaffected

(* What one read of the PTY may return.                                    *)
Batches == {Take(output, n) : n \in 1..Least(ReadSize, Len(output))}

(* The clock fails once output was read: it is neither held nor shown.     *)
ClockFailsOnOutput ==
  /\ "wait" \in Faults
  /\ pc = "output"
  /\ \E out \in Batches :
       /\ dropped' = out
       /\ output' = Drop(output, Len(out))
  /\ Abort
  /\ UNCHANGED <<ready, room, state, idle, view, inputVars, shellVars,
                 signalVars, raw, faulted, typed, swallowed, received, written>>

(* Mistake: the last byte of the allowance is never used.                  *)
FitsWithRoomToSpare(out) == Len(view.held) + Len(out) < HeldLimit

(* The limit hold_output checks.                                           *)
FitsHeld(out) == Len(view.held) + Len(out) <= HeldLimit

(* hold_output: the loop starts over without looking at the shell.         *)
HoldOutput ==
  /\ pc = "output" /\ state = "SCREENSAVER_ACTIVE"
  /\ \E out \in Batches :
       /\ FitsHeld(out)
       /\ view' = [view EXCEPT !.held = view.held \o out]
       /\ output' = Drop(output, Len(out))
  /\ GoTo("top")
  /\ UNCHANGED <<ready, room, state, idle, faulted, inputVars, shellVars,
                 signalVars, raw, historyVars>>

(* forward_output, with v on the screen; its failure ends the session.     *)
Forward(v, out) ==
  \/ view' = ForwardOutput(v, out) /\ GoTo("poll") /\ UNCHANGED faulted
  \/ "write" \in Faults /\ view' = v /\ Abort /\ faulted' = TRUE

(* Mistake: output that cannot be held is shown over the screensaver.      *)
OverflowOverCover ==
  /\ pc = "output" /\ state = "SCREENSAVER_ACTIVE"
  /\ \E out \in Batches :
       /\ ~ FitsHeld(out) \/ "memory" \in Faults
       /\ output' = Drop(output, Len(out))
       /\ Forward(view, out)
  /\ UNCHANGED <<ready, room, state, idle, inputVars, shellVars, signalVars, raw,
                 historyVars>>

(* Output that cannot be held, for its size or for want of memory, wakes   *)
(* the screensaver.                                                        *)
OutputOverflow ==
  /\ pc = "output" /\ state = "SCREENSAVER_ACTIVE"
  /\ \E out \in Batches :
       /\ ~ FitsHeld(out) \/ "memory" \in Faults
       /\ output' = Drop(output, Len(out))
       /\ \E x \in ExitOutcomes(view) :
            IF x.ok THEN Forward(x.view, out)
                    ELSE view' = x.view /\ Abort /\ faulted' = TRUE
  /\ state' = NextState(state, "OUTPUT_OVERFLOW")
  /\ idle' = 0
  /\ UNCHANGED <<ready, room, inputVars, shellVars, signalVars, raw, historyVars>>

(* Mistake: output counts as activity.                                     *)
ShowOutputIsActivity ==
  /\ pc = "output" /\ state # "SCREENSAVER_ACTIVE" /\ idle' = 0
  /\ \E out \in Batches : output' = Drop(output, Len(out)) /\ Forward(view, out)
  /\ UNCHANGED <<ready, room, state, inputVars, shellVars, signalVars, raw,
                 historyVars>>

(* Output goes to the terminal as it comes.                                *)
ShowOutput ==
  /\ pc = "output" /\ state # "SCREENSAVER_ACTIVE"
  /\ \E out \in Batches :
       /\ output' = Drop(output, Len(out))
       /\ Forward(view, out)
  /\ UNCHANGED <<ready, room, state, idle, inputVars, shellVars, signalVars,
                 raw, historyVars>>

(* read returns 0 or EIO: no process has the other side open any more.     *)
EndOfOutput ==
  /\ pc = "output" /\ output = <<>> /\ ~ OtherSideOpen
  /\ state' = NextState(state, "SHUTDOWN")
  /\ \E x \in EventOutcomes(view, state, "SHUTTING_DOWN") : Ignored(x)
  /\ GoTo("poll")
  /\ UNCHANGED <<ready, room, idle, signalVars>> /\ Unaffected

(* Mistake: only the end of the shell's output ends the loop.              *)
PollForEndOfOutput ==
  /\ pc = "poll"
  /\ shell' = IF shell = "exited" THEN "reaped" ELSE shell
  /\ GoTo(IF state = "SHUTTING_DOWN" THEN "cleanup" ELSE "top")
  /\ UNCHANGED <<ready, room, state, idle, view, inputVars, output, job,
                 hungUp, signalVars, raw, faulted, historyVars>>

(* strange_pty_poll_shell_exit.                                            *)
PollShellExit ==
  /\ pc = "poll"
  /\ IF shell = "exited"
     THEN /\ shell' = "reaped"
          /\ state' = NextState(state, "SHUTDOWN")
          /\ \E x \in EventOutcomes(view, state, "SHUTTING_DOWN") : Ignored(x)
          /\ GoTo("cleanup")
     ELSE /\ GoTo(IF state = "SHUTTING_DOWN" THEN "cleanup" ELSE "top")
          /\ UNCHANGED <<shell, state, view, faulted>>
  /\ UNCHANGED <<ready, room, idle, inputVars, output, job, hungUp, signalVars,
                 raw, historyVars>>

(* The end of strange_run: uncover the screen if that was not done, leave  *)
(* raw mode (TCSAFLUSH discards the keys that were not read), ...          *)
Cleanup ==
  /\ pc = "cleanup"
  /\ \E x \in EventOutcomes(view, state, "SHUTTING_DOWN") : Ignored(x)
  /\ raw' = FALSE
  /\ tty' = <<>>
  /\ GoTo("hangup")
  /\ UNCHANGED <<ready, room, state, idle, pending, buffer, stdinOpen, ptyIn,
                 output, shellVars, signalVars, historyVars>>

(* Mistake: the shell is waited for without being told.                    *)
HangUpSilently ==
  /\ pc = "hangup"
  /\ shell' = IF shell = "exited" THEN "reaped" ELSE shell
  /\ GoTo("reap")
  /\ UNCHANGED <<ready, room, state, idle, view, inputVars, output, job,
                 hungUp, signalVars, raw, faulted, historyVars>>

(* ... close the PTY and, unless the shell is already gone, hang it up ... *)
HangUp ==
  /\ pc = "hangup"
  /\ shell' = IF shell = "exited" THEN "reaped" ELSE shell
  /\ hungUp' = (shell \in {"running", "closing"})
  /\ GoTo("reap")
  /\ UNCHANGED <<ready, room, state, idle, view, inputVars, output, job,
                 signalVars, raw, faulted, historyVars>>

(* ... and wait for it, without a time limit.                              *)
Reap ==
  /\ pc = "reap" /\ shell \in {"exited", "reaped"}
  /\ shell' = "reaped"
  /\ GoTo("done")
  /\ UNCHANGED <<ready, room, state, idle, view, inputVars, output, job,
                 hungUp, signalVars, raw, faulted, historyVars>>

Strange ==
  \/ SyncResize \/ CheckShutdown \/ HoldTimer \/ StartScreensaver \/ NextFrame
  \/ Select \/ SelectInterrupted \/ WaitFails
  \/ FlushPendingInput \/ WakeOnInput \/ ClockFailsOnInput
  \/ ReadInput \/ ForwardInputSlice \/ DisableFromKey \/ EndOfInput
  \/ HoldOutput \/ OutputOverflow \/ ShowOutput \/ EndOfOutput
  \/ ClockFailsOnOutput
  \/ PollShellExit \/ Cleanup \/ HangUp \/ Reap

-----------------------------------------------------------------------------
(* Everything around strange.  None of it touches strange's own variables. *)

strangeVars == <<pc, ready, room, state, view, pending, buffer, raw, failed,
                 faulted, swallowed, dropped>>

(* The user presses a key.                                                 *)
Press(k) ==
  /\ stdinOpen /\ pc # "done" /\ k \notin Elements(typed)
  /\ typed' = Append(typed, k)
  /\ tty' = Append(tty, k)
  /\ UNCHANGED <<strangeVars, idle, stdinOpen, ptyIn, output, shellVars,
                 signalVars, received, written>>

(* The terminal is closed.                                                 *)
TerminalCloses ==
  /\ "EOF" \in Surprises /\ stdinOpen /\ pc # "done"
  /\ stdinOpen' = FALSE
  /\ UNCHANGED <<strangeVars, idle, tty, ptyIn, output, shellVars, signalVars,
                 typed, received, written>>

ShutdownSignal ==
  /\ "SHUTDOWN" \in Surprises /\ ~ shutdownRequested /\ pc # "done"
  /\ shutdownRequested' = TRUE
  /\ UNCHANGED <<strangeVars, idle, tty, stdinOpen, ptyIn, output, shellVars,
                 resizeRequested, typed, received, written>>

ResizeSignal ==
  /\ "RESIZE" \in Surprises /\ ~ resizeRequested /\ pc # "done"
  /\ resizeRequested' = TRUE
  /\ UNCHANGED <<strangeVars, idle, tty, stdinOpen, ptyIn, output, shellVars,
                 shutdownRequested, typed, received, written>>

(* Time passes; beyond the timeout its age no longer matters.              *)
Tick ==
  /\ idle < Timeout /\ pc # "done"
  /\ idle' = idle + 1
  /\ UNCHANGED <<strangeVars, tty, stdinOpen, ptyIn, output, shellVars,
                 signalVars, typed, received, written>>

(* The shell, and whatever runs in it, reads a key, writes output, and     *)
(* exits: first its end of the PTY closes, then it can be waited for.  A   *)
(* shell that was sent SIGHUP may die from it at once.                     *)
ShellReads ==
  /\ shell = "running" /\ ptyIn # <<>>
  /\ received' = Append(received, Head(ptyIn))
  /\ ptyIn' = Tail(ptyIn)
  /\ UNCHANGED <<strangeVars, idle, tty, stdinOpen, output, shellVars,
                 signalVars, typed, written>>

(* A job writes like the shell, and may go on when the shell is gone.      *)
ShellWrites(c) ==
  /\ OtherSideOpen /\ pc \notin {"reap", "done"}
  /\ c \notin Elements(written)
  /\ written' = Append(written, c)
  /\ output' = Append(output, c)
  /\ UNCHANGED <<strangeVars, idle, tty, stdinOpen, ptyIn, shellVars,
                 signalVars, typed, received>>

ShellCloses ==
  /\ "EXIT" \in Surprises /\ shell = "running"
  /\ shell' = "closing"
  /\ UNCHANGED <<strangeVars, idle, tty, stdinOpen, ptyIn, output, job,
                 hungUp, signalVars, typed, received, written>>

ShellExits ==
  /\ shell = "closing" \/ (shell = "running" /\ hungUp)
  /\ shell' = "exited"
  /\ UNCHANGED <<strangeVars, idle, tty, stdinOpen, ptyIn, output, job,
                 hungUp, signalVars, typed, received, written>>

JobStarts ==
  /\ "JOB" \in Surprises /\ shell = "running" /\ ~ job
  /\ job' = TRUE
  /\ UNCHANGED <<strangeVars, idle, tty, stdinOpen, ptyIn, output, shell,
                 hungUp, signalVars, typed, received, written>>

JobEnds ==
  /\ job /\ job' = FALSE
  /\ UNCHANGED <<strangeVars, idle, tty, stdinOpen, ptyIn, output, shell,
                 hungUp, signalVars, typed, received, written>>

Environment ==
  \/ \E k \in Keys : Press(k)
  \/ TerminalCloses
  \/ ShutdownSignal
  \/ ResizeSignal
  \/ Tick
  \/ ShellReads
  \/ \E c \in Chunks : ShellWrites(c)
  \/ ShellCloses
  \/ ShellExits
  \/ JobStarts
  \/ JobEnds

(* strange has returned from strange_run.                                  *)
Done == pc = "done" /\ UNCHANGED vars

Next == Strange \/ Environment \/ Done

-----------------------------------------------------------------------------
Defaults == [alt |-> FALSE, cursor |-> TRUE, parse |-> "TEXT"]

Init ==
  /\ pc = "top" /\ ready = {} /\ room = 0
  /\ state = "PASSTHROUGH" /\ idle = 0
  /\ view = [modes |-> Defaults, screen |-> Defaults, visible |-> FALSE,
             onAlt |-> FALSE, drewOver |-> FALSE, misreported |-> FALSE,
             held |-> <<>>, shown |-> <<>>]
  /\ pending = <<>> /\ buffer = <<>> /\ tty = <<>> /\ stdinOpen = TRUE /\ ptyIn = <<>>
  /\ output = <<>> /\ shell = "running" /\ job = FALSE /\ hungUp = FALSE
  /\ shutdownRequested = FALSE /\ resizeRequested = FALSE
  /\ raw = TRUE /\ failed = FALSE /\ faulted = FALSE
  /\ typed = <<>> /\ swallowed = {} /\ received = <<>>
  /\ dropped = <<>> /\ written = <<>>

Spec == Init /\ [][Next]_vars

(* strange never stops taking steps: no phase of its loop waits for ever,  *)
(* except the last wait for the shell.  Time passes, and a shell that is   *)
(* exiting, or was sent SIGHUP, exits.  Nothing is assumed of the user, or *)
(* of when the shell reads or writes.                                      *)
FairSpec ==
  Spec /\ WF_vars(Strange) /\ WF_vars(Tick) /\ WF_vars(ShellExits)

-----------------------------------------------------------------------------
(* Properties.                                                             *)

Showing == state = "SCREENSAVER_ACTIVE"

(* The two notions of "the screensaver is showing", the state machine's    *)
(* and the screen's, agree on every path through the loop, failures        *)
(* included, until cleanup has handed the terminal back for good.          *)
CoveredIffActive ==
  IF pc \in {"hangup", "reap", "done"} THEN ~ view.visible
                                       ELSE view.visible <=> Showing

(* Output is kept back, and the PTY is told a wrong height, only while the *)
(* screensaver is showing: no way out of it forgets either.                *)
NothingLeftBehind ==
  ~ view.visible =>
    /\ view.held = <<>>
    /\ view.drewOver \/ view.misreported => faulted

(* Output reaches the terminal once, whole and in the order the shell      *)
(* wrote it, whatever was held back and released in between.  Apart from   *)
(* the terminal failing, only what one read returned is ever lost: when    *)
(* the clock then fails, strange ends with status 1, and shows nothing     *)
(* that was written later.                                                 *)
OutputInOrder ==
  ~ faulted =>
    /\ view.shown \o view.held \o dropped \o output = written
    /\ dropped # <<>> => failed /\ pc \in {"cleanup", "hangup", "reap", "done"}

(* The keys that are on their way to the shell or already there.           *)
KeyFlow == received \o ptyIn \o pending \o buffer \o tty

(* Any two elements of `part` follow each other in `whole` as well.        *)
InOrder(part, whole) ==
  \A i, j \in 1..Len(part) : i < j =>
    \E m, n \in 1..Len(whole) : m < n /\ whole[m] = part[i] /\ whole[n] = part[j]

(* Until raw mode ends, no key is lost, doubled (each is pressed once) or  *)
(* overtaken on its way to the shell.  Only those that woke or disabled    *)
(* the screensaver are taken out: pending_input, which drops what does not *)
(* fit, never overflows.  The rest of one read may be left in the buffer,  *)
(* and so be lost, but only if a failing call makes strange give up.       *)
InputIntact ==
  raw => /\ Elements(KeyFlow) = Elements(typed) \ swallowed
         /\ InOrder(KeyFlow, typed)
         /\ buffer # <<>> => pc = "slice" \/ (pc = "cleanup" /\ failed)

(* Every read of the shell's output ends between two control sequences.    *)
WholeSequences == \A c \in Chunks : Effect[c] # "head"

(* When the screensaver is not showing, the screen is as the shell's own   *)
(* output left it: which screen is up and whether the cursor shows.        *)
(* (Reads that end inside a control sequence break this: RuntimeSplit.)    *)
ScreenHandedBack ==
  ~ view.visible /\ ~ faulted =>
    /\ view.screen.alt = view.modes.alt
    /\ view.screen.cursor = view.modes.cursor

(* Without --cover-fullscreen the screensaver never covers a full-screen   *)
(* program that the terminal was showing.                                  *)
FullscreenNotCovered ==
  view.visible /\ ~ CoverFullscreen => ~ view.modes.alt /\ ~ view.drewOver

(* Once strange has read the reserved key, the screensaver stays off.      *)
DisableKeyHonoured ==
  swallowed \cap DisableKeys # {} =>
    /\ state \in {"SCREENSAVER_DISABLED", "SHUTTING_DOWN"}
    /\ ~ view.visible

(* When strange returns, raw mode is off, the screensaver is gone and the  *)
(* shell is reaped; unless the terminal itself failed, the screen is the   *)
(* shell's.                                                                *)
RestoredAtExit ==
  pc = "done" =>
    /\ ~ raw /\ ~ view.visible /\ view.held = <<>>
    /\ shell = "reaped"
    /\ ~ faulted => ~ view.misreported
    /\ ~ faulted /\ WholeSequences => view.screen = view.modes

(* Only keys count as activity.  The inactivity timer restarts when a key  *)
(* is read, when a full-screen program holds it, or when held output       *)
(* overflows; showing output never restarts it.                            *)
OnlyKeysAreActivity ==
  [][ idle' < idle =>
        \/ tty' # tty \/ buffer' # buffer
        \/ FullscreenHolds
        \/ Showing /\ ~ Showing' /\ output' # output ]_vars

(* Output alone uncovers the screen only when no more of it can be held.   *)
OutputDoesNotWake ==
  [][ Showing /\ ~ Showing' /\ output' # output =>
        Len(view.held) + ReadSize > HeldLimit \/ "memory" \in Faults ]_vars

(* A key wakes the screensaver if there is room for input.                 *)
WakesOnKey ==
  (Showing /\ tty # <<>> /\ Len(pending) < InputCap) ~> ~ view.visible

(* "Any key wakes it": with no such condition.                             *)
AnyKeyWakes == (Showing /\ tty # <<>>) ~> ~ view.visible

(* A terminal nobody types at is covered in the end, unless a full-screen  *)
(* program holds the timer; output does not put it off.                    *)
IdleIsCovered ==
  <>[](state # "PASSTHROUGH" \/ FullscreenHolds \/ pc = "done")

(* Pending input moves on as long as the PTY has room, covered or not.     *)
InputMovesOn ==
  (pending # <<>> /\ Len(ptyIn) < PtyCap)
    ~> (pending = <<>> \/ Len(ptyIn) = PtyCap \/ shell # "running" \/ failed)

(* A request to shut down, and the end of the shell, end strange, also     *)
(* when a job keeps the PTY open, so that no end of output is ever read.   *)
ShutdownCompletes == shutdownRequested ~> pc = "done"
ShellExitCompletes == shell # "running" ~> pc = "done"

(* Output is always read, so the shell is never blocked writing it.        *)
OutputIsRead == output # <<>> ~> (output = <<>> \/ pc = "done")

(* "forwards input and output": what the shell wrote before it exited was  *)
(* shown when strange returns.                                             *)
AllOutputShown ==
  pc = "done" /\ ~ failed /\ ~ faulted /\ ~ hungUp => view.shown = written

-----------------------------------------------------------------------------
(* The inductive invariant behind the safety properties.                   *)

(* A screen is healthy if it can be handed back: while it is covered, the  *)
(* variables that will undo the covering record exactly what was done.     *)
Healthy(v) ==
  /\ v.misreported <=> v.drewOver
  /\ ~ v.visible => ~ v.drewOver
  /\ WholeSequences =>
       /\ v.modes.parse = "TEXT"
       /\ IF v.visible
          THEN /\ v.onAlt <=> ~ v.drewOver
               /\ v.drewOver <=> v.modes.alt
               /\ v.screen = [alt |-> TRUE, cursor |-> FALSE, parse |-> "TEXT"]
          ELSE v.screen = v.modes

HeldInv == ~ view.visible => view.held = <<>>

HealthyInv == ~ faulted => Healthy(view)

(* input_capacity is computed before the flush and used after it: by then  *)
(* it may be too small, never too large.                                   *)
RoomInv ==
  /\ Len(pending) <= InputCap
  /\ pc \in {"flush", "stdin"} => room + Len(pending) <= InputCap
  /\ pc = "slice" => /\ Len(buffer) + Len(pending) <= InputCap
                     /\ ~ Showing

ExitInv ==
  /\ pc \in {"hangup", "reap", "done"} => ~ raw
  /\ pc = "done" => shell = "reaped"

IInv ==
  /\ TypeOK
  /\ CoveredIffActive
  /\ HeldInv
  /\ HealthyInv
  /\ FullscreenNotCovered
  /\ OutputInOrder
  /\ DisableKeyHonoured
  /\ RoomInv
  /\ ExitInv
=============================================================================
