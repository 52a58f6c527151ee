---------------------------- MODULE StateMachine ----------------------------
(***************************************************************************)
(* The state machine of pty/state_machine.c, as pure operators.            *)
(*                                                                         *)
(* A machine is a record with the fields of struct strange_state_machine;  *)
(* a time is a struct timespec, [sec, nsec].  The number of nanoseconds in *)
(* a second is a constant so that TLC can enumerate every timespec of a    *)
(* short interval; the code's value is 1000000000.                         *)
(***************************************************************************)
EXTENDS Integers

CONSTANT NsecPerSec

ASSUME NsecPerSecAssumption == NsecPerSec \in Nat \ {0}

(* enum strange_runtime_state *)
RuntimeState ==
  {"PASSTHROUGH", "SCREENSAVER_ACTIVE", "SCREENSAVER_DISABLED", "SHUTTING_DOWN"}

(* enum strange_runtime_event *)
RuntimeEvent ==
  {"USER_INPUT", "OUTPUT_OVERFLOW", "HOLD", "TIMEOUT", "DISABLE", "SHUTDOWN"}

Timespec == [sec : Nat, nsec : 0..(NsecPerSec - 1)]

Machine == [state : RuntimeState, timeout : Nat, last : Timespec]

-----------------------------------------------------------------------------
(* Mistake: whole seconds are compared and the borrow forgotten.           *)
ReachedIgnoringNanos(start, now, timeout) == now.sec - start.sec >= timeout

(* Mistake: the timeout is over only when it has been exceeded.            *)
ReachedLate(start, now, timeout) ==
  LET borrow == IF now.nsec < start.nsec THEN 1 ELSE 0
  IN  now.sec - start.sec - borrow > timeout

(* timespec_reached_timeout: subtract with a borrow, then compare with a   *)
(* whole number of seconds.                                                *)
Before(a, b) == a.sec < b.sec \/ (a.sec = b.sec /\ a.nsec < b.nsec)

ReachedTimeout(start, now, timeout) ==
  LET borrow  == IF now.nsec < start.nsec THEN 1 ELSE 0
      seconds == now.sec - start.sec - borrow
      nanos   == now.nsec - start.nsec + borrow * NsecPerSec
  IN  /\ ~ Before(now, start)
      /\ seconds > timeout \/ (seconds = timeout /\ nanos >= 0)

(* Mistake: disabling while the screensaver shows merely wakes it.         *)
NextStateDisableWakes(state, event) ==
  CASE event = "SHUTDOWN" -> "SHUTTING_DOWN"
    [] event = "TIMEOUT" /\ state = "PASSTHROUGH" -> "SCREENSAVER_ACTIVE"
    [] event \in {"USER_INPUT", "OUTPUT_OVERFLOW", "DISABLE"}
         /\ state = "SCREENSAVER_ACTIVE" -> "PASSTHROUGH"
    [] event = "DISABLE" /\ state = "PASSTHROUGH" -> "SCREENSAVER_DISABLED"
    [] OTHER -> state

(* strange_state_machine_handle_event: the state an event leads to ...     *)
NextState(state, event) ==
  CASE event \in {"USER_INPUT", "OUTPUT_OVERFLOW"} ->
         IF state = "SCREENSAVER_ACTIVE" THEN "PASSTHROUGH" ELSE state
    [] event = "HOLD" -> state
    [] event = "TIMEOUT" ->
         IF state = "PASSTHROUGH" THEN "SCREENSAVER_ACTIVE" ELSE state
    [] event = "DISABLE" ->
         IF state = "SHUTTING_DOWN" THEN state ELSE "SCREENSAVER_DISABLED"
    [] event = "SHUTDOWN" -> "SHUTTING_DOWN"

(* ... and whether it restarts the inactivity timer.                       *)
RecordsActivity(event) == event \in {"USER_INPUT", "OUTPUT_OVERFLOW", "HOLD"}

HandleEvent(machine, event, now) ==
  [machine EXCEPT
     !.state = NextState(machine.state, event),
     !.last  = IF RecordsActivity(event) THEN now ELSE machine.last]

TimeoutDue(machine, now) ==
  /\ machine.state = "PASSTHROUGH"
  /\ ReachedTimeout(machine.last, now, machine.timeout)

(* make_transition: the two edges the runtime acts on.                     *)
Enters(from, to) == from # "SCREENSAVER_ACTIVE" /\ to = "SCREENSAVER_ACTIVE"
Exits(from, to)  == from = "SCREENSAVER_ACTIVE" /\ to # "SCREENSAVER_ACTIVE"
=============================================================================
