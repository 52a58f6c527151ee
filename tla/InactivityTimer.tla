-------------------------- MODULE InactivityTimer ---------------------------
(***************************************************************************)
(* The state machine driven the way the runtime drives it: the clock moves *)
(* by any amount, events of every kind arrive in any order, and TIMEOUT is *)
(* raised only after strange_state_machine_timeout_due has said so.        *)
(*                                                                         *)
(* The history variable `active` holds the time of the last event that     *)
(* counts as activity, counted in nanoseconds since the epoch of the       *)
(* model, so that the borrow arithmetic on timespecs can be compared with  *)
(* plain subtraction.                                                      *)
(***************************************************************************)
EXTENDS StateMachine

CONSTANTS
  Timeouts,   \* the values of --timeout tried, in seconds
  MaxSeconds  \* bound: the clock stops after this many seconds

ASSUME TimerAssumption ==
  /\ Timeouts \subseteq Nat \ {0}
  /\ MaxSeconds \in Nat

VARIABLES
  machine,  \* struct strange_state_machine
  now,      \* CLOCK_MONOTONIC, a timespec
  active    \* history: Total(time of the last activity)

vars == <<machine, now, active>>

(* A timespec as one number of nanoseconds.                                *)
Total(t) == t.sec * NsecPerSec + t.nsec

(* Types, and the time the machine remembers: that of the last activity,   *)
(* which the clock is never behind.                                        *)
TimerTypeOK ==
  /\ machine \in Machine
  /\ now \in Timespec
  /\ ~ Before(now, machine.last)
  /\ active = Total(machine.last)

-----------------------------------------------------------------------------
(* strange_state_machine_init *)
Init ==
  /\ now \in [sec : {0}, nsec : 0..(NsecPerSec - 1)]
  /\ \E t \in Timeouts :
       machine = [state |-> "PASSTHROUGH", timeout |-> t, last |-> now]
  /\ active = Total(now)

Tick ==
  /\ \E t \in [sec : now.sec..MaxSeconds, nsec : 0..(NsecPerSec - 1)] :
       /\ Before(now, t)
       /\ now' = t
  /\ UNCHANGED <<machine, active>>

Handle(event) ==
  /\ machine' = HandleEvent(machine, event, now)
  /\ active' = IF event \in {"USER_INPUT", "OUTPUT_OVERFLOW", "HOLD"}
               THEN Total(now) ELSE active
  /\ UNCHANGED now

UserInput == Handle("USER_INPUT")

(* Output overflows only what the screensaver is holding back.             *)
OutputOverflow ==
  /\ machine.state = "SCREENSAVER_ACTIVE"
  /\ Handle("OUTPUT_OVERFLOW")

(* The runtime holds the timer only in passthrough.                        *)
Hold ==
  /\ machine.state = "PASSTHROUGH"
  /\ Handle("HOLD")

Timeout ==
  /\ TimeoutDue(machine, now)
  /\ Handle("TIMEOUT")

Disable == Handle("DISABLE")

Shutdown == Handle("SHUTDOWN")

Next ==
  \/ Tick
  \/ UserInput
  \/ OutputOverflow
  \/ Hold
  \/ Timeout
  \/ Disable
  \/ Shutdown

Spec == Init /\ [][Next]_vars

-----------------------------------------------------------------------------
(* The screensaver never starts before the whole timeout has passed since  *)
(* the last activity, however the nanoseconds borrow.                      *)
NeverEarly ==
  [][ Enters(machine.state, machine'.state)
        => Total(now) - active >= machine.timeout * NsecPerSec ]_vars

(* timeout_due is never late either: in passthrough it holds as soon as    *)
(* the exact difference has reached the timeout.                           *)
NeverLate ==
  /\ machine.state = "PASSTHROUGH"
  /\ Total(now) - active >= machine.timeout * NsecPerSec
  => TimeoutDue(machine, now)
=============================================================================
