---------------------------- MODULE PartsProofs -----------------------------
(***************************************************************************)
(* The parts that share no state with others.                              *)
(*   The inactivity timer is exact, for every timeout, every reading of    *)
(* the clock and every number of nanoseconds in a second.                  *)
(*   For any number of terminals, strange recognises every terminal it     *)
(* wraps, and is mistaken only about one whose name it has used before.    *)
(*   Whatever the output holds and however it is cut up, strange knows     *)
(* which of the two modes it has to hand back are set.                     *)
(*   On a screen of any size, and for any layout of its table, denabase's  *)
(* helix and table agree in the row that is in focus, and the table moves  *)
(* up a row at a time.                                                     *)
(***************************************************************************)
EXTENDS InactivityTimer, Session, TerminalModes, Denabase, NumberLemmas,
        SequenceTheorems, TLAPS

-----------------------------------------------------------------------------
(* The inactivity timer.                                                   *)

(* Multiplying keeps the order of whole numbers, and a gap of one becomes  *)
(* a gap of at least the factor.                                           *)
LEMMA Multiply ==
  ASSUME NEW a \in Int, NEW b \in Int, NEW n \in Nat
  PROVE  /\ (a + b) * n = a * n + b * n
         /\ (a - b) * n = a * n - b * n
         /\ a >= b => a * n >= b * n
BY SMTT(30)

(* Whole seconds first, the rest after: how two times compare.             *)
LEMMA Gap ==
  ASSUME NEW d \in Int, NEW t \in Int, NEW n \in Nat, NEW r \in 0..(n - 1)
  PROVE  d * n + r >= t * n <=> d >= t
<1>1. d * n \in Int /\ t * n \in Int
  BY SMT
<1>2. CASE d >= t
  <2>1. d * n >= t * n
    BY <1>2, Multiply
  <2> QED BY <1>1, <1>2, <2>1
<1>3. CASE ~ (d >= t)
  <2>1. t >= d + 1
    BY <1>3
  <2>2. t * n >= (d + 1) * n
    BY <2>1, Multiply
  <2>3. (d + 1) * n = d * n + 1 * n
    BY Multiply
  <2>4. t * n >= d * n + n
    BY <2>2, <2>3, SMT
  <2> QED BY <1>1, <1>3, <2>4
<1> QED BY <1>2, <1>3

(* timespec_reached_timeout computes what it should, borrow included.      *)
LEMMA ReachedExactly ==
  ASSUME NEW start \in Timespec, NEW end \in Timespec, NEW t \in Nat
  PROVE  ReachedTimeout(start, end, t)
           <=> Total(end) - Total(start) >= t * NsecPerSec
<1> DEFINE borrow  == IF end.nsec < start.nsec THEN 1 ELSE 0
           seconds == end.sec - start.sec - borrow
           nanos   == end.nsec - start.nsec + borrow * NsecPerSec
<1>1. /\ NsecPerSec \in Nat \ {0}
      /\ start.sec \in Nat /\ end.sec \in Nat
      /\ start.nsec \in 0..(NsecPerSec - 1) /\ end.nsec \in 0..(NsecPerSec - 1)
  BY NsecPerSecAssumption DEF Timespec
<1>2. seconds \in Int /\ nanos \in 0..(NsecPerSec - 1)
  BY <1>1
<1>3. Total(end) - Total(start) = seconds * NsecPerSec + nanos
  <2>1. (end.sec - start.sec) * NsecPerSec
          = end.sec * NsecPerSec - start.sec * NsecPerSec
    BY <1>1, Multiply
  <2>2. CASE end.nsec < start.nsec
    <3>1. seconds = (end.sec - start.sec) - 1
      BY <1>1, <2>2
    <3>2. ((end.sec - start.sec) - 1) * NsecPerSec
            = (end.sec - start.sec) * NsecPerSec - 1 * NsecPerSec
      BY <1>1, Multiply
    <3>3. nanos = end.nsec - start.nsec + NsecPerSec
      BY <1>1, <2>2
    <3>4. end.sec * NsecPerSec \in Int /\ start.sec * NsecPerSec \in Int
      BY <1>1, SMT
    <3> HIDE DEF seconds, nanos
    <3> QED BY <1>1, <2>1, <3>1, <3>2, <3>3, <3>4 DEF Total
  <2>3. CASE ~ (end.nsec < start.nsec)
    <3>1. seconds = end.sec - start.sec /\ nanos = end.nsec - start.nsec
      BY <1>1, <2>3
    <3>2. end.sec * NsecPerSec \in Int /\ start.sec * NsecPerSec \in Int
      BY <1>1, SMT
    <3> HIDE DEF seconds, nanos
    <3> QED BY <1>1, <2>1, <3>1, <3>2 DEF Total
  <2> QED BY <2>2, <2>3
<1>4. ReachedTimeout(start, end, t) <=> ~ Before(end, start) /\ seconds >= t
  <2>1. ReachedTimeout(start, end, t)
          <=> /\ ~ Before(end, start)
              /\ seconds > t \/ (seconds = t /\ nanos >= 0)
    BY Zenon DEF ReachedTimeout
  <2> HIDE DEF seconds, nanos
  <2> QED BY <1>2, <2>1
<1>5. Before(end, start) => ~ (seconds >= 0)
  BY <1>1 DEF Before
<1>6. ReachedTimeout(start, end, t) <=> seconds >= t
  BY <1>2, <1>4, <1>5
<1> HIDE DEF seconds, nanos
<1>7. seconds * NsecPerSec + nanos >= t * NsecPerSec <=> seconds >= t
  BY <1>1, <1>2, Gap
<1> QED BY <1>3, <1>6, <1>7

(* What the timer remembers is the time of the last activity.              *)
LEMMA TimerInit == Init => TimerTypeOK
<1> SUFFICES ASSUME Init PROVE TimerTypeOK
  OBVIOUS
<1>1. now \in Timespec
  BY NsecPerSecAssumption DEF Init, Timespec
<1>2. PICK t \in Timeouts :
        machine = [state |-> "PASSTHROUGH", timeout |-> t, last |-> now]
  BY DEF Init
<1>3. machine \in Machine /\ machine.last = now
  BY <1>1, <1>2, TimerAssumption DEF Machine, RuntimeState
<1> QED BY <1>1, <1>3 DEF Init, TimerTypeOK, Before, Timespec

(* Every event and every tick keeps it.                                    *)
LEMMA TimerStep == TimerTypeOK /\ [Next]_vars => TimerTypeOK'
<1> SUFFICES ASSUME TimerTypeOK, [Next]_vars PROVE TimerTypeOK'
  OBVIOUS
<1>1. machine \in Machine /\ now \in Timespec /\ machine.last \in Timespec
  BY DEF TimerTypeOK, Machine
<1>2. CASE Tick
  <2>1. PICK t \in [sec : now.sec..MaxSeconds, nsec : 0..(NsecPerSec - 1)] :
          Before(now, t) /\ now' = t
    BY <1>2 DEF Tick
  <2>2. now' \in Timespec
    BY <1>1, <2>1, NsecPerSecAssumption, TimerAssumption DEF Timespec
  <2>3. ~ Before(now', machine.last)
    BY <1>1, <2>1, <2>2 DEF TimerTypeOK, Before, Timespec
  <2> QED BY <1>2, <2>2, <2>3 DEF Tick, TimerTypeOK, Total
<1>3. ASSUME NEW e \in RuntimeEvent, Handle(e) PROVE TimerTypeOK'
  <2>1. NextState(machine.state, e) \in RuntimeState
    BY <1>1 DEF NextState, Machine, RuntimeState, RuntimeEvent
  <2>2. machine' \in Machine /\ now' = now
    BY <1>1, <1>3, <2>1 DEF Handle, HandleEvent, Machine
  <2>3. /\ machine'.last = IF RecordsActivity(e) THEN now ELSE machine.last
        /\ active' = IF RecordsActivity(e) THEN Total(now) ELSE active
    BY <1>1, <1>3 DEF Handle, HandleEvent, Machine, RecordsActivity
  <2>4. ~ Before(now, now)
    BY <1>1 DEF Before, Timespec
  <2> QED BY <1>1, <2>2, <2>3, <2>4 DEF TimerTypeOK
<1>4. CASE UNCHANGED vars
  BY <1>4 DEF vars, TimerTypeOK, Total
<1> QED BY <1>2, <1>3, <1>4 DEF Next, UserInput, OutputOverflow, Hold, Timeout,
        Disable, Shutdown, RuntimeEvent

(* The time of the last activity is remembered exactly.                    *)
THEOREM TimerInvariance == Spec => []TimerTypeOK
<1> QED BY TimerInit, TimerStep, PTL DEF Spec

(* strange_state_machine_timeout_due is never late.                        *)
THEOREM TimerNeverLate == Spec => []NeverLate
<1>1. TimerTypeOK => NeverLate
  <2> SUFFICES ASSUME TimerTypeOK, machine.state = "PASSTHROUGH",
                      Total(now) - active >= machine.timeout * NsecPerSec
               PROVE  TimeoutDue(machine, now)
    BY DEF NeverLate
  <2>1. machine.last \in Timespec /\ now \in Timespec /\ machine.timeout \in Nat
        /\ active = Total(machine.last)
    BY DEF TimerTypeOK, Machine
  <2>2. ReachedTimeout(machine.last, now, machine.timeout)
    BY <2>1, ReachedExactly
  <2> QED BY <2>2 DEF TimeoutDue
<1> QED BY <1>1, TimerInvariance, PTL

(* The screensaver is never started before the whole timeout has passed.   *)
THEOREM TimerNeverEarly == Spec => NeverEarly
<1>1. TimerTypeOK /\ [Next]_vars
        => [Enters(machine.state, machine'.state)
              => Total(now) - active >= machine.timeout * NsecPerSec]_vars
  <2> SUFFICES ASSUME TimerTypeOK, Next, Enters(machine.state, machine'.state)
               PROVE  Total(now) - active >= machine.timeout * NsecPerSec
    OBVIOUS
  <2>1. machine \in Machine
    BY DEF TimerTypeOK
  <2>2. ASSUME NEW e \in RuntimeEvent, Handle(e) PROVE e = "TIMEOUT"
    <3>1. machine'.state = NextState(machine.state, e)
      BY <2>1, <2>2 DEF Handle, HandleEvent, Machine
    <3> QED BY <2>1, <3>1 DEF NextState, Enters, RuntimeEvent
  <2>3. Timeout
    BY <2>2 DEF Next, Tick, UserInput, OutputOverflow, Hold, Disable, Shutdown,
       Enters, RuntimeEvent
  <2>4. ReachedTimeout(machine.last, now, machine.timeout)
    BY <2>3 DEF Timeout, TimeoutDue
  <2>5. machine.last \in Timespec /\ now \in Timespec /\ machine.timeout \in Nat
        /\ active = Total(machine.last)
    BY DEF TimerTypeOK, Machine
  <2> QED BY <2>4, <2>5, ReachedExactly
<1> QED BY <1>1, TimerInvariance, PTL DEF Spec, NeverEarly

-----------------------------------------------------------------------------
(* Sessions inside sessions.                                               *)

(* The first terminal is an unwrapped one.                                 *)
LEMMA SessionInitial == SessionInit => SessionInv
BY NoneAssumption DEF SessionInit, SessionInv, Wrapped, Known

(* A terminal is opened, as a window or by strange.                        *)
LEMMA OpeningKeeps ==
  ASSUME SessionInv, NEW n \in Names, NEW maker \in {"window", "strange"},
         NEW variable \in Names \cup {None}, NEW parent \in Names \cup {None},
         Opened(n, maker, variable, parent), UNCHANGED <<servers, retired>>,
         maker = "strange" => variable = n,
         maker = "window" => Known(variable)
  PROVE  SessionInv'
<1> USE NoneAssumption DEF SessionInv, Wrapped, Opened, Free, Open
<1>1. master' \in [Names -> {"window", "strange", None}]
  OBVIOUS
<1>2. env' \in [Names -> Names \cup {None}]
  OBVIOUS
<1>3. \A v \in Names \cup {None} : Known(v) => Known(v)'
  <2> TAKE v \in Names \cup {None}
  <2> SUFFICES ASSUME Known(v) PROVE Known(v)'
    OBVIOUS
  <2>1. CASE v = None \/ v \in retired
    BY <2>1 DEF Known
  <2>2. CASE Wrapped(v) /\ v \in Names
    BY <2>2 DEF Known
  <2> QED BY <2>1, <2>2 DEF Known
<1>4. Known(variable)'
  <2>1. CASE maker = "window"
    BY <2>1, <1>3
  <2>2. CASE maker = "strange"
    BY <2>2 DEF Known
  <2> QED BY <2>1, <2>2
<1>5. \A t \in Names : Known(env[t])'
  <2> TAKE t \in Names
  <2>1. CASE t = n
    BY <2>1, <1>4
  <2>2. CASE t # n
    BY <2>2, <1>3
  <2> QED BY <2>1, <2>2
<1>6. \A t \in Names : Wrapped(t)' => (env[t] = t)'
  OBVIOUS
<1>7. \A v \in servers' : Known(v)'
  BY <1>3
<1> QED BY <1>1, <1>2, <1>5, <1>6, <1>7

(* A server keeps what its shell had.                                      *)
LEMMA DetachKeeps ==
  ASSUME SessionInv, NEW t \in Names, Detach(t)
  PROVE  SessionInv'
BY DEF SessionInv, Wrapped, Known, Detach

(* A terminal is closed; if it was wrapped, its name lives on in retired.  *)
LEMMA CloseKeeps ==
  ASSUME SessionInv, NEW t \in Names, Close(t)
  PROVE  SessionInv'
<1> USE NoneAssumption DEF SessionInv, Wrapped, Close
<1>1. /\ master' \in [Names -> {"window", "strange", None}]
      /\ env' \in [Names -> Names \cup {None}]
      /\ servers' \subseteq Names \cup {None} /\ retired' \subseteq Names
  OBVIOUS
<1>2. \A v \in Names \cup {None} : Known(v) => Known(v)'
  <2> TAKE v \in Names \cup {None}
  <2>1. CASE v = None \/ v \in retired
    BY <2>1 DEF Known
  <2>2. CASE Wrapped(v) /\ v \in Names
    <3>1. CASE v = t
      BY <2>2, <3>1 DEF Known
    <3>2. CASE v # t
      BY <2>2, <3>2 DEF Known
    <3> QED BY <3>1, <3>2
  <2> QED BY <2>1, <2>2 DEF Known
<1>3. \A n \in Names : Known(env[n])'
  <2> TAKE n \in Names
  <2>1. CASE n = t
    BY <2>1 DEF Known
  <2>2. CASE n # t
    BY <2>2, <1>2
  <2> QED BY <2>1, <2>2
<1>4. \A n \in Names : Wrapped(n)' => (env[n] = n)'
  OBVIOUS
<1>5. \A v \in servers' : Known(v)'
  BY <1>2
<1> QED BY <1>1, <1>3, <1>4, <1>5

(* Whatever a program has inherited names a terminal strange wraps, or     *)
(* once wrapped (OpenWindow, RunStrange, Detach, Close).                   *)
THEOREM SessionInvariance == SessionSpec => []SessionInv
<1>1. SessionInv /\ [SessionNext]_sessionVars => SessionInv'
  <2> SUFFICES ASSUME SessionInv, [SessionNext]_sessionVars PROVE SessionInv'
    OBVIOUS
  <2>1. ASSUME NEW t \in Names, NEW variable \in Names \cup {None},
               OpenWindow(t, variable)
        PROVE  SessionInv'
    <3>1. Known(variable)
      BY <2>1 DEF OpenWindow, SessionInv, Open
    <3> QED BY <2>1, <3>1, OpeningKeeps DEF OpenWindow
  <2>2. ASSUME NEW t \in Names, NEW n \in Names, RunStrange(t, n)
        PROVE  SessionInv'
    BY <2>2, OpeningKeeps DEF RunStrange
  <2>3. CASE UNCHANGED sessionVars
    BY <2>3 DEF sessionVars, SessionInv, Wrapped, Known
  <2> QED BY <2>1, <2>2, <2>3, DetachKeeps, CloseKeeps DEF SessionNext
<1> QED BY <1>1, SessionInitial, PTL DEF SessionSpec

(* strange_session_is_current is right in every wrapped terminal, and      *)
(* wrong only in one with the name of a wrapped one that is gone.          *)
THEOREM SessionIsTold == SessionSpec => []SessionTold
<1>1. SessionInv => SessionTold
  BY NoneAssumption DEF SessionInv, SessionTold, IsCurrent, Known, Open
<1> QED BY <1>1, SessionInvariance, PTL

-----------------------------------------------------------------------------
(* denabase.                                                               *)

(* Division leaves a rest smaller than the divisor.                        *)
LEMMA DivisionWithRest ==
  ASSUME NEW a \in Int, NEW m \in Nat \ {0}
  PROVE  /\ a \div m \in Int /\ a % m \in 0..(m - 1)
         /\ a = (a \div m) * m + (a % m)
BY SMTT(30)

(* There is only one way to divide.                                        *)
LEMMA SameRest ==
  ASSUME NEW m \in Nat \ {0}, NEW p \in Int, NEW q \in Int,
         NEW r \in 0..(m - 1), NEW s \in 0..(m - 1),
         p * m + r = q * m + s
  PROVE  p = q /\ r = s
<1>1. ASSUME NEW k \in Int, NEW j \in Int, k > j PROVE k * m >= j * m + m
  <2>1. k - (j + 1) \in Nat
    BY <1>1
  <2>2. (k - (j + 1)) * m >= 0
    BY <2>1, SMTT(30)
  <2>3. (k - (j + 1)) * m = k * m - (j * m + m)
    BY SMTT(30)
  <2> QED BY <2>2, <2>3, SMTT(30)
<1>2. p * m \in Int /\ q * m \in Int
  BY SMT
<1>3. CASE p > q
  BY <1>1, <1>2, <1>3
<1>4. CASE q > p
  BY <1>1, <1>2, <1>4
<1>5. CASE p = q
  BY <1>2, <1>5
<1> QED BY <1>3, <1>4, <1>5

(* A quotient and a rest are the ones.                                     *)
LEMMA TheRest ==
  ASSUME NEW a \in Int, NEW m \in Nat \ {0}, NEW q \in Int, NEW r \in 0..(m - 1),
         a = q * m + r
  PROVE  a \div m = q /\ a % m = r
<1>1. /\ a \div m \in Int /\ a % m \in 0..(m - 1)
      /\ (a \div m) * m + (a % m) = q * m + r
  BY DivisionWithRest
<1> QED BY <1>1, SameRest

(* One more: the rest grows by one, or starts again.                       *)
LEMMA NextRest ==
  ASSUME NEW a \in Int, NEW m \in Nat \ {0}
  PROVE  /\ (a + 1) % m = ((a % m) + 1) % m
         /\ a % m # m - 1 => (a + 1) \div m = a \div m
<1> DEFINE q == a \div m
           r == a % m
<1>1. q \in Int /\ r \in 0..(m - 1) /\ a = q * m + r
  BY DivisionWithRest
<1> HIDE DEF q, r
<1>2. q * m \in Int /\ (q + 1) * m = q * m + m /\ 0 * m = 0 /\ 1 * m = m
  BY <1>1, SMTT(30)
<1>3. CASE r # m - 1
  <2>1. r + 1 \in 0..(m - 1) /\ a + 1 = q * m + (r + 1) /\ a + 1 \in Int
    BY <1>1, <1>2, <1>3
  <2>2. (a + 1) \div m = q /\ (a + 1) % m = r + 1
    BY <1>1, <2>1, TheRest
  <2>3. (r + 1) % m = r + 1
    <3>1. r + 1 = 0 * m + (r + 1) /\ 0 \in Int /\ r + 1 \in Int
      BY <1>1, <1>2
    <3> QED BY <2>1, <3>1, TheRest
  <2> QED BY <2>2, <2>3 DEF q, r
<1>4. CASE r = m - 1
  <2>1. 0 \in 0..(m - 1) /\ a + 1 = (q + 1) * m + 0 /\ a + 1 \in Int /\ q + 1 \in Int
    BY <1>1, <1>2, <1>4
  <2>2. (a + 1) % m = 0
    BY <2>1, TheRest
  <2>3. (r + 1) % m = 0
    <3>1. r + 1 = 1 * m + 0 /\ 1 \in Int /\ r + 1 \in Int
      BY <1>1, <1>2, <1>4
    <3> QED BY <2>1, <3>1, TheRest
  <2> QED BY <1>4, <2>2, <2>3 DEF q, r
<1> QED BY <1>3, <1>4

(* wrap is what % is in TLA+, also below zero.                             *)
LEMMA WrapIsRest ==
  ASSUME NEW v \in Int, NEW m \in Nat \ {0}
  PROVE  Wrap(v, m) = v % m
<1>1. CASE v >= 0
  <2>1. v \div m \in Int /\ v % m \in 0..(m - 1) /\ v = (v \div m) * m + (v % m)
    BY DivisionWithRest
  <2>2. (v \div m) * m \in Int
    BY <2>1, SMTT(30)
  <2>3. v - (v \div m) * m = v % m
    BY <2>1, <2>2
  <2> QED BY <1>1, <2>1, <2>3 DEF Wrap, Divide
<1>2. CASE v < 0
  <2> DEFINE q == (-v) \div m
             r == (-v) % m
  <2>1. q \in Int /\ r \in 0..(m - 1) /\ -v = q * m + r
    <3>1. -v \in Int
      OBVIOUS
    <3> QED BY <3>1, DivisionWithRest
  <2>2. Wrap(v, m) = LET remainder == v - (-q) * m
                     IN  IF remainder < 0 THEN remainder + m ELSE remainder
    BY <1>2 DEF Wrap, Divide
  <2> HIDE DEF q, r
  <2>3. q * m \in Int /\ (-q) * m = -(q * m) /\ (-q - 1) * m = -(q * m) - m
    BY <2>1, SMTT(30)
  <2>4. v - (-q) * m = -r
    BY <2>1, <2>3
  <2>5. CASE r = 0
    <3>1. v = (-q) * m + 0 /\ -q \in Int /\ 0 \in 0..(m - 1)
      BY <2>1, <2>3, <2>5
    <3>2. v % m = 0
      BY <3>1, TheRest
    <3> QED BY <2>2, <2>4, <2>5, <3>2
  <2>6. CASE r # 0
    <3>1. v = (-q - 1) * m + (m - r) /\ -q - 1 \in Int /\ m - r \in 0..(m - 1)
      BY <2>1, <2>3, <2>6
    <3>2. v % m = m - r
      BY <3>1, TheRest
    <3>3. -r < 0 /\ -r + m = m - r
      BY <2>1, <2>6
    <3> QED BY <2>2, <2>4, <3>2, <3>3
  <2> QED BY <2>1, <2>5, <2>6
<1> QED BY <1>1, <1>2

(* A strand has two rows to a base: floor_divide by two.                   *)
LEMMA HalfOf ==
  ASSUME NEW v \in Int
  PROVE  FloorDivide(v, 2) = v \div 2 /\ Wrap(v, 2) = v % 2
BY DEF FloorDivide, Divide, Wrap

-----------------------------------------------------------------------------
(* The layout is one the sequence fits.                                    *)
LEMMA Layout ==
  ASSUME size \in Sizes, LargeEnough
  PROVE  /\ BasesPerRow \in Nat \ {0} /\ SequenceRows \in Nat \ {0}
         /\ Bases \in 1..SequenceLength /\ Bases = SequenceRows * BasesPerRow
         /\ Loop = 2 * Bases /\ FocusRow \in Int /\ FocusRow >= 3
         /\ FocusRow <= size.h - 3 /\ size.h \in Nat
<1>1. /\ size.w \in Nat /\ size.h \in Nat /\ SequenceLength \in Nat
      /\ BasesPerRow <= SequenceLength
  BY DenabaseAssumption DEF BasesPerRow
<1>2. BasesPerRow \in Nat \ {0}
  BY <1>1 DEF BasesPerRow, LargeEnough
<1>3. /\ SequenceRows \in Int /\ SequenceLength % BasesPerRow \in 0..(BasesPerRow - 1)
      /\ SequenceLength = SequenceRows * BasesPerRow + (SequenceLength % BasesPerRow)
  BY <1>1, <1>2, DivisionWithRest DEF SequenceRows
<1> DEFINE b == BasesPerRow
           s == SequenceRows
<1> HIDE DEF b, s
<1>4. SequenceRows \in Nat \ {0}
  <2>1. SequenceRows <= 0 => SequenceRows * BasesPerRow <= 0
    BY <1>2, <1>3, SMTT(30)
  <2>2. SequenceRows * BasesPerRow \in Int
    BY <1>2, <1>3, SMTT(30)
  <2>3. SequenceRows * BasesPerRow > 0
    BY <1>1, <1>2, <1>3, <2>2
  <2> QED BY <1>3, <2>1, <2>2, <2>3
<1>5. SequenceRows * BasesPerRow \in Nat \ {0}
  BY <1>2, <1>4, SMTT(30)
<1>6. Bases \in 1..SequenceLength /\ Bases = SequenceRows * BasesPerRow
  BY <1>1, <1>2, <1>3, <1>5 DEF Bases
<1>7. Loop = 2 * Bases
  BY <1>6 DEF Loop, RowsPerBase
<1>8. FocusRow \in Int /\ FocusRow >= 3 /\ FocusRow <= size.h - 3
  BY <1>1 DEF FocusRow, LargeEnough
<1> QED BY <1>1, <1>2, <1>4, <1>6, <1>7, <1>8

(* The base a row shows, once the helix has scrolled.                      *)
LEMMA BaseWhenScrolled ==
  ASSUME size \in Sizes, LargeEnough, NEW s \in Nat, s < Loop
  PROVE  /\ Wrap(FloorDivide(s + FocusRow - FocusRow, 2), Bases) = s \div 2
         /\ s \div 2 \in 0..(Bases - 1)
<1>1. Bases \in Nat \ {0} /\ Loop = 2 * Bases /\ FocusRow \in Int
  BY Layout
<1>2. s + FocusRow - FocusRow = s
  BY <1>1
<1>3. FloorDivide(s, 2) = s \div 2
  BY HalfOf
<1>4. s \div 2 \in 0..(Bases - 1) /\ s \div 2 = 0 * Bases + (s \div 2)
  BY <1>1
<1>5. Wrap(s \div 2, Bases) = s \div 2
  <2>1. s \div 2 \in Int /\ 0 \in Int
    BY <1>4
  <2> QED BY <1>1, <1>4, <2>1, WrapIsRest, TheRest
<1> QED BY <1>2, <1>3, <1>4, <1>5

(* The base in the row that is in focus.                                   *)
LEMMA CurrentBaseIs ==
  ASSUME size \in Sizes, scroll \in Nat, Drawn
  PROVE  CurrentBase = scroll \div 2 /\ CurrentBase \in 0..(Bases - 1)
BY BaseWhenScrolled DEF Drawn, CurrentBase, BaseAtRow, RowsPerBase

(* The focus row is one of the rows of the table, and shows the row of     *)
(* the sequence in focus.                                                  *)
LEMMA FocusIsARow ==
  ASSUME size \in Sizes, scroll \in Nat, Drawn
  PROVE  FocusSequenceRow \in 0..(SequenceRows - 1)
<1> DEFINE c == CurrentBase
           b == BasesPerRow
           n == SequenceRows
           r == c % b
<1>1. b \in Nat \ {0} /\ n \in Nat \ {0} /\ c \in 0..(n * b - 1)
  BY Layout, CurrentBaseIs DEF Drawn
<1>2. FocusSequenceRow = c \div b
  BY DEF FocusSequenceRow
<1> DEFINE q == c \div b
<1>3. q \in Int /\ r \in 0..(b - 1) /\ c = q * b + r
  <2> HIDE DEF c, b, n
  <2>1. n * b \in Int
    BY <1>1, SMTT(30)
  <2>2. c \in Int
    BY <1>1, <2>1
  <2> QED BY <1>1, <2>2, DivisionWithRest
<1> HIDE DEF c, b, n, q, r
<1>4. n * b \in Int /\ q * b \in Int
  BY <1>1, <1>3, SMTT(30)
<1>5. ~ (q < 0)
  <2>1. q < 0 => q * b <= -b
    BY <1>1, <1>3, SMTT(30)
  <2> QED BY <1>1, <1>3, <1>4, <2>1
<1>6. ~ (q >= n)
  <2>1. q >= n => q * b >= n * b
    BY <1>1, <1>3, SMTT(30)
  <2> QED BY <1>1, <1>3, <1>4, <2>1
<1>7. q \in 0..(n - 1)
  BY <1>1, <1>3, <1>5, <1>6
<1> QED BY <1>2, <1>7 DEF q, n

(* HalvesAgree, in any state of the right type.                            *)
LEMMA HalvesDoAgree == size \in Sizes /\ scroll \in Nat => HalvesAgree
<1> SUFFICES ASSUME size \in Sizes, scroll \in Nat, Drawn
             PROVE  HalvesAgree!2
  BY DEF HalvesAgree
<1>1. /\ BasesPerRow \in Nat \ {0} /\ SequenceRows \in Nat \ {0}
      /\ Bases \in 1..SequenceLength /\ SequenceLength \in Nat
      /\ FocusRow \in Int /\ FocusRow >= 3 /\ FocusRow <= size.h - 3 /\ size.h \in Nat
  BY Layout, DenabaseAssumption DEF Drawn
<1>2. HasPair(CurrentRow) /\ BaseAtRow(CurrentRow) = CurrentBase
  <2> DEFINE even == scroll - (scroll % 2)
  <2>1. /\ even \in Int /\ even % 2 = 0 /\ even \div 2 = scroll \div 2
        /\ scroll \in Int /\ scroll % 2 \in Int
    OBVIOUS
  <2>2. CurrentRow = FocusRow - (scroll % 2)
    BY <2>1, HalfOf DEF CurrentRow, RowsPerBase
  <2>3. scroll + CurrentRow - FocusRow = even
    BY <1>1, <2>1, <2>2
  <2>4. scroll + FocusRow - FocusRow = scroll
    BY <1>1
  <2> HIDE DEF even
  <2>5. HasPair(CurrentRow)
    BY <2>1, <2>3, HalfOf DEF HasPair, RowsPerBase
  <2>6. BaseAtRow(CurrentRow) = Wrap(scroll \div 2, Bases)
    BY <2>1, <2>3, HalfOf DEF BaseAtRow, RowsPerBase
  <2>7. CurrentBase = Wrap(scroll \div 2, Bases)
    BY <2>1, <2>4, HalfOf DEF BaseAtRow, CurrentBase, RowsPerBase
  <2> QED BY <2>5, <2>6, <2>7
<1>3. ASSUME NEW y \in 0..(size.h - 1)
      PROVE  /\ BaseAtRow(y) \in 0..(SequenceLength - 1)
             /\ BaseAtRow(y + RowsPerBase) = (BaseAtRow(y) + 1) % Bases
  <2> DEFINE v == scroll + y - FocusRow
  <2>1. /\ v \in Int /\ scroll + (y + 2) - FocusRow = v + 2
        /\ (v + 2) \div 2 = (v \div 2) + 1 /\ v \div 2 \in Int
    BY <1>1
  <2> HIDE DEF v
  <2>2. /\ BaseAtRow(y) = Wrap(v \div 2, Bases)
        /\ BaseAtRow(y + RowsPerBase) = Wrap((v \div 2) + 1, Bases)
    BY <2>1, HalfOf DEF BaseAtRow, RowsPerBase, v
  <2>3. Bases \in Nat \ {0} /\ (v \div 2) + 1 \in Int
    BY <1>1, <2>1
  <2>4. /\ BaseAtRow(y) = (v \div 2) % Bases
        /\ BaseAtRow(y + RowsPerBase) = ((v \div 2) + 1) % Bases
    BY <2>1, <2>2, <2>3, WrapIsRest
  <2>5. (v \div 2) % Bases \in 0..(Bases - 1)
    BY <2>1, <2>3, DivisionWithRest
  <2>6. ((v \div 2) + 1) % Bases = (((v \div 2) % Bases) + 1) % Bases
    BY <2>1, <2>3, NextRest
  <2> QED BY <1>1, <2>4, <2>5, <2>6
<1>4. FocusSequenceRow \in 0..(SequenceRows - 1)
  BY FocusIsARow
<1>5. ASSUME NEW y \in TableRows
      PROVE  /\ SequenceRow(y) \in 0..(SequenceRows - 1)
             /\ NextTableRow(y) \in TableRows =>
                  SequenceRow(NextTableRow(y)) = (SequenceRow(y) + 1) % SequenceRows
  <2> DEFINE F == FocusSequenceRow
             Of(x) == F + (IF x - FocusRow < 0 THEN x - FocusRow + 1 ELSE 0)
                        + (IF x - FocusRow > 0 THEN x - FocusRow - 1 ELSE 0)
             z == NextTableRow(y)
  <2>1. \A x : SequenceRow(x) = Wrap(Of(x), SequenceRows)
    BY DEF SequenceRow
  <2>2. F \in Int /\ y \in Int /\ z \in Int
    BY <1>1, <1>4 DEF TableRows, NextTableRow
  <2>3. Of(y) \in Int
    <3> HIDE DEF F
    <3> QED BY <1>1, <2>2
  <2>4. z \in TableRows => Of(z) = Of(y) + 1
    <3> HIDE DEF F
    <3> QED BY <1>1, <2>2 DEF TableRows, NextTableRow
  <2> HIDE DEF Of, z
  <2>5. SequenceRow(y) = Of(y) % SequenceRows
    BY <1>1, <2>1, <2>3, WrapIsRest
  <2>6. SequenceRow(y) \in 0..(SequenceRows - 1)
    BY <1>1, <2>3, <2>5, DivisionWithRest
  <2>7. z \in TableRows => SequenceRow(z) = (SequenceRow(y) + 1) % SequenceRows
    <3> SUFFICES ASSUME z \in TableRows
                 PROVE  SequenceRow(z) = (SequenceRow(y) + 1) % SequenceRows
      OBVIOUS
    <3>1. SequenceRow(z) = Wrap(Of(y) + 1, SequenceRows) /\ Of(y) + 1 \in Int
      BY <2>1, <2>3, <2>4
    <3>2. SequenceRow(z) = (Of(y) + 1) % SequenceRows
      BY <1>1, <3>1, WrapIsRest
    <3>3. (Of(y) + 1) % SequenceRows = ((Of(y) % SequenceRows) + 1) % SequenceRows
      BY <1>1, <2>3, NextRest
    <3> QED BY <2>5, <3>2, <3>3
  <2> QED BY <2>6, <2>7 DEF z
<1>6. SequenceRow(FocusRow) = FocusSequenceRow
  <2> DEFINE F == FocusSequenceRow
  <2>1. SequenceRow(FocusRow) = Wrap(F + 0 + 0, SequenceRows)
    BY <1>1 DEF SequenceRow
  <2>2. F + 0 + 0 = F /\ F = 0 * SequenceRows + F /\ F \in Int
    <3> HIDE DEF F
    <3> QED BY <1>1, <1>4 DEF F
  <2>3. F \in 0..(SequenceRows - 1)
    BY <1>4
  <2> HIDE DEF F
  <2>4. Wrap(F, SequenceRows) = F % SequenceRows /\ 0 \in Int
    BY <1>1, <2>2, WrapIsRest
  <2>5. F % SequenceRows = F
    BY <1>1, <2>2, <2>3, <2>4, TheRest
  <2> QED BY <2>1, <2>2, <2>4, <2>5 DEF F
<1> QED BY <1>2, <1>3, <1>5, <1>6

DenabaseInv == size \in Sizes /\ scroll \in Nat /\ frame \in 0..(FramesPerRow - 1)

(* denabase_update and denabase_resize keep the type of the state.         *)
LEMMA DenabaseInvariant == DenabaseSpec => []DenabaseInv
<1>1. DenabaseInit => DenabaseInv
  BY DEF DenabaseInit, DenabaseInv
<1>2. DenabaseInv /\ [DenabaseNext]_denabaseVars => DenabaseInv'
  <2> SUFFICES ASSUME DenabaseInv, DenabaseNext PROVE DenabaseInv'
    BY DEF DenabaseInv, denabaseVars
  <2>1. CASE DenabaseUpdate
    <3>1. /\ scroll' = IF LargeEnough THEN (IF frame = 0 THEN scroll + 1 ELSE scroll) % Loop
                       ELSE IF frame = 0 THEN scroll + 1 ELSE scroll
          /\ frame' = (frame + 1) % FramesPerRow /\ size' = size
      BY <2>1 DEF DenabaseUpdate
    <3>2. LargeEnough => Loop \in Nat \ {0}
      BY Layout DEF DenabaseInv
    <3>3. \A n \in Nat, m \in Nat \ {0} : n % m \in 0..(m - 1) /\ n % m \in Nat
      <4> TAKE n \in Nat, m \in Nat \ {0}
      <4>1. n % m \in 0..(m - 1)
        BY DivisionWithRest
      <4> QED BY <4>1
    <3>4. FramesPerRow \in Nat \ {0}
      BY DenabaseAssumption
    <3>5. scroll \in Nat /\ scroll + 1 \in Nat /\ frame + 1 \in Nat
      BY DEF DenabaseInv
    <3> QED BY <3>1, <3>2, <3>3, <3>4, <3>5 DEF DenabaseInv
  <2>2. CASE DenabaseResize
    BY <2>2 DEF DenabaseResize, DenabaseInv
  <2> QED BY <2>1, <2>2 DEF DenabaseNext
<1> QED BY <1>1, <1>2, PTL DEF DenabaseSpec

(* The two halves of denabase agree on any screen that is large enough and *)
(* for any sequence that fits a row of it.                                 *)
THEOREM HalvesAlwaysAgree == DenabaseSpec => []HalvesAgree
<1>1. DenabaseInv => HalvesAgree
  BY HalvesDoAgree DEF DenabaseInv
<1> QED BY <1>1, DenabaseInvariant, PTL

(* What TableMovesUp says of a step.                                       *)
LEMMA MovesUp ==
  ASSUME DenabaseInv, [DenabaseNext]_denabaseVars, Drawn, size' = size
  PROVE  \/ CurrentBase' = CurrentBase
         \/ /\ CurrentBase' = (CurrentBase + 1) % Bases
            /\ FocusSequenceRow' # FocusSequenceRow /\ SequenceRows > 1 =>
                 CurrentBase % BasesPerRow = BasesPerRow - 1
<1>1. /\ size \in Sizes /\ scroll \in Nat /\ scroll < Loop /\ LargeEnough
  BY DEF DenabaseInv, Drawn
<1>2. /\ BasesPerRow \in Nat \ {0} /\ SequenceRows \in Nat \ {0}
      /\ Bases \in Nat \ {0} /\ Loop = 2 * Bases /\ Bases = SequenceRows * BasesPerRow
  BY <1>1, Layout
<1>3. CurrentBase = scroll \div 2
  BY <1>1, CurrentBaseIs
<1>4. /\ Bases' = Bases /\ BasesPerRow' = BasesPerRow /\ SequenceRows' = SequenceRows
      /\ Loop' = Loop /\ LargeEnough' = LargeEnough
  BY DEF Bases, BasesPerRow, SequenceRows, Loop, LargeEnough, RowsPerBase
<1>5. \/ scroll' = scroll
      \/ scroll + 1 < Loop /\ scroll' = scroll + 1
      \/ scroll + 1 = Loop /\ scroll' = 0
  <2>1. CASE UNCHANGED scroll
    BY <2>1
  <2>2. CASE scroll' = scroll % Loop
    <3>1. scroll % Loop = scroll
      <4>1. /\ Loop \in Nat \ {0} /\ scroll = 0 * Loop + scroll
            /\ scroll \in Int /\ 0 \in Int /\ scroll \in 0..(Loop - 1)
        BY <1>1, <1>2
      <4> QED BY <4>1, TheRest
    <3> QED BY <2>2, <3>1
  <2>3. CASE scroll' = (scroll + 1) % Loop
    <3>1. CASE scroll + 1 < Loop
      <4>1. /\ Loop \in Nat \ {0} /\ scroll + 1 = 0 * Loop + (scroll + 1)
            /\ scroll + 1 \in Int /\ 0 \in Int /\ scroll + 1 \in 0..(Loop - 1)
        BY <1>1, <1>2, <3>1
      <4>2. (scroll + 1) % Loop = scroll + 1
        BY <4>1, TheRest
      <4> QED BY <2>3, <3>1, <4>2
    <3>2. CASE scroll + 1 = Loop
      <4>1. /\ Loop \in Nat \ {0} /\ scroll + 1 = 1 * Loop + 0
            /\ scroll + 1 \in Int /\ 1 \in Int /\ 0 \in 0..(Loop - 1)
        BY <1>1, <1>2, <3>2
      <4>2. (scroll + 1) % Loop = 0
        BY <4>1, TheRest
      <4> QED BY <2>3, <3>2, <4>2
    <3> QED BY <1>1, <1>2, <3>1, <3>2
  <2> QED BY <1>1, <2>1, <2>2, <2>3
          DEF DenabaseNext, DenabaseUpdate, DenabaseResize, denabaseVars
<1>6. scroll' \in Nat /\ scroll' < Loop /\ Drawn'
  BY <1>1, <1>2, <1>4, <1>5 DEF Drawn
<1>7. CurrentBase' = scroll' \div 2
  <2>1. CurrentBase' = Wrap(FloorDivide(scroll' + FocusRow - FocusRow, 2), Bases)
    BY <1>4 DEF CurrentBase, BaseAtRow, RowsPerBase, FocusRow
  <2> QED BY <1>1, <1>6, <2>1, BaseWhenScrolled
<1> DEFINE c == scroll \div 2
           b == BasesPerRow
<1>8. c \in 0..(Bases - 1) /\ c \in Int
  BY <1>1, <1>2
<1>9. CASE scroll' \div 2 = c
  BY <1>3, <1>7, <1>9
<1>10. CASE scroll' \div 2 = c + 1 /\ c + 1 < Bases
  <2>1. (c + 1) % Bases = c + 1
    <3>1. /\ c + 1 \in Int /\ 0 \in Int /\ c + 1 \in 0..(Bases - 1)
          /\ c + 1 = 0 * Bases + (c + 1)
      <4> HIDE DEF c
      <4> QED BY <1>2, <1>8, <1>10
    <3> QED BY <1>2, <3>1, TheRest
  <2>2. FocusSequenceRow' = (c + 1) \div b /\ FocusSequenceRow = c \div b
    BY <1>3, <1>4, <1>7, <1>10 DEF FocusSequenceRow
  <2>3. c % b # b - 1 => (c + 1) \div b = c \div b
    <3> HIDE DEF c, b
    <3> QED BY <1>2, <1>8, NextRest DEF b
  <2> QED BY <1>3, <1>7, <1>10, <2>1, <2>2, <2>3
<1>11. CASE scroll' \div 2 = 0 /\ c + 1 = Bases
  <2>1. (c + 1) % Bases = 0
    <3>1. /\ c + 1 \in Int /\ 1 \in Int /\ 0 \in 0..(Bases - 1)
          /\ c + 1 = 1 * Bases + 0
      <4> HIDE DEF c
      <4> QED BY <1>2, <1>8, <1>11
    <3> QED BY <1>2, <3>1, TheRest
  <2>2. c % b = b - 1
    <3> DEFINE n == SequenceRows
    <3>1. c + 1 = n * b
      BY <1>2, <1>11
    <3> HIDE DEF c, b, n
    <3>2. n * b = (n - 1) * b + b
      BY <1>2, SMTT(30) DEF b, n
    <3>3. (n - 1) * b \in Int /\ n - 1 \in Int /\ b - 1 \in 0..(b - 1)
      BY <1>2, SMTT(30) DEF b, n
    <3>4. c = (n - 1) * b + (b - 1)
      BY <1>2, <1>8, <3>1, <3>2, <3>3 DEF b
    <3> QED BY <1>2, <1>8, <3>3, <3>4, TheRest DEF b
  <2> QED BY <1>3, <1>7, <1>11, <2>1, <2>2
<1>12. \/ scroll' \div 2 = c
       \/ scroll' \div 2 = c + 1 /\ c + 1 < Bases
       \/ scroll' \div 2 = 0 /\ c + 1 = Bases
  BY <1>1, <1>2, <1>5
<1> QED BY <1>9, <1>10, <1>11, <1>12

(* The table of denabase follows the helix, also where the loop closes.    *)
THEOREM TableAlwaysMovesUp == DenabaseSpec => TableMovesUp
<1>1. DenabaseInv /\ [DenabaseNext]_denabaseVars =>
        [ Drawn /\ size' = size =>
            \/ CurrentBase' = CurrentBase
            \/ /\ CurrentBase' = (CurrentBase + 1) % Bases
               /\ FocusSequenceRow' # FocusSequenceRow /\ SequenceRows > 1 =>
                    CurrentBase % BasesPerRow = BasesPerRow - 1 ]_denabaseVars
  BY MovesUp
<1> QED BY <1>1, DenabaseInvariant, PTL DEF DenabaseSpec, TableMovesUp

-----------------------------------------------------------------------------
(* The terminal's modes: how a number in decimal is read, byte by byte;    *)
(* what strange knows half way through a sequence; the bytes one by one.   *)

(* `read` reads the n bytes whose digits are at D and have the values v.   *)
Reads(read, n, D, v) ==
  read = [i \in 0..n |-> IF i = 0 THEN 0
                         ELSE IF i \in D THEN 10 * read[i - 1] + v[i]
                         ELSE read[i - 1]]

DigitsOf(s, k) == {i \in 1..Len(s) : s[i] \in Digits /\ SemicolonsBefore(s, i) = k - 1}

ValuesOf(s) == [i \in 1..Len(s) |-> Value(s[i])]

(* Reading exists.                                                         *)
LEMMA ReadingExists ==
  ASSUME NEW D, NEW v
  PROVE  \A n \in Nat : \E read : Reads(read, n, D, v)
<1> DEFINE S == {n \in Nat : \E read : Reads(read, n, D, v)}
<1>1. 0 \in S
  <2>1. Reads([i \in 0..0 |-> 0], 0, D, v)
    BY DEF Reads
  <2> QED BY <2>1
<1>2. ASSUME NEW n \in Nat, n \in S PROVE n + 1 \in S
  <2>1. PICK old : Reads(old, n, D, v)
    BY <1>2
  <2> DEFINE read == [i \in 0..(n + 1) |->
                        IF i <= n THEN old[i]
                        ELSE IF i \in D THEN 10 * old[i - 1] + v[i] ELSE old[i - 1]]
             again == [i \in 0..(n + 1) |->
                        IF i = 0 THEN 0
                        ELSE IF i \in D THEN 10 * read[i - 1] + v[i] ELSE read[i - 1]]
  <2>2. \A i \in 0..n : old[i] = IF i = 0 THEN 0
                                 ELSE IF i \in D THEN 10 * old[i - 1] + v[i]
                                 ELSE old[i - 1]
    BY <2>1 DEF Reads
  <2>3. \A i \in 0..(n + 1) : read[i] = again[i]
    <3> TAKE i \in 0..(n + 1)
    <3>1. CASE i = 0
      BY <2>2, <3>1
    <3>2. CASE i \in 1..n
      <4>1. i \in 0..n /\ i - 1 \in 0..n /\ i # 0 /\ i <= n /\ i - 1 <= n /\ i - 1 \in 0..(n + 1)
        BY <3>2
      <4>2. read[i] = old[i] /\ read[i - 1] = old[i - 1]
        BY <4>1
      <4> QED BY <2>2, <4>1, <4>2
    <3>3. CASE i = n + 1
      <4>1. /\ ~ (i <= n) /\ i # 0 /\ i - 1 <= n /\ i - 1 \in 0..(n + 1)
        BY <3>3
      <4>2. read[i - 1] = old[i - 1]
        BY <4>1
      <4> QED BY <4>1, <4>2
    <3> QED BY <3>1, <3>2, <3>3
  <2>4. read = again
    BY <2>3, Zenon
  <2>5. Reads(read, n + 1, D, v)
    BY <2>4 DEF Reads
  <2> QED BY <2>5
<1> HIDE DEF S
<1>3. \A n \in Nat : n \in S
  BY <1>1, <1>2, Upward
<1> QED BY <1>3 DEF S

(* Where two texts agree, so do two ways to read them.                     *)
LEMMA ReadingsAgree ==
  ASSUME NEW n \in Nat, NEW m \in Nat, n <= m, NEW D, NEW E, NEW v, NEW w,
         NEW f, NEW g, Reads(f, n, D, v), Reads(g, m, E, w),
         \A i \in 1..n : (i \in D <=> i \in E) /\ (i \in D => v[i] = w[i])
  PROVE  \A i \in 0..n : f[i] = g[i]
<1> DEFINE S == {i \in Nat : i <= n => f[i] = g[i]}
<1>1. \A i \in 0..n : f[i] = IF i = 0 THEN 0
                             ELSE IF i \in D THEN 10 * f[i - 1] + v[i] ELSE f[i - 1]
  BY DEF Reads
<1>2. \A i \in 0..m : g[i] = IF i = 0 THEN 0
                             ELSE IF i \in E THEN 10 * g[i - 1] + w[i] ELSE g[i - 1]
  BY DEF Reads
<1>3. 0 \in S
  BY <1>1, <1>2
<1>4. ASSUME NEW i \in Nat, i \in S PROVE i + 1 \in S
  <2> SUFFICES ASSUME i + 1 <= n PROVE f[i + 1] = g[i + 1]
    OBVIOUS
  <2>1. /\ i + 1 \in 0..n /\ i + 1 \in 0..m /\ i + 1 # 0 /\ i + 1 - 1 = i
        /\ i + 1 \in 1..n /\ i <= n
    OBVIOUS
  <2>2. f[i] = g[i]
    BY <1>4, <2>1
  <2>3. f[i + 1] = IF i + 1 \in D THEN 10 * f[i] + v[i + 1] ELSE f[i]
    BY <1>1, <2>1
  <2>4. g[i + 1] = IF i + 1 \in E THEN 10 * g[i] + w[i + 1] ELSE g[i]
    BY <1>2, <2>1
  <2> QED BY <2>1, <2>2, <2>3, <2>4
<1> HIDE DEF S
<1>5. \A i \in Nat : i \in S
  BY <1>3, <1>4, Upward
<1> QED BY <1>5 DEF S

(* The last byte is read last.                                             *)
LEMMA LastByte ==
  ASSUME NEW n \in Nat, NEW D, NEW v, NEW f, Reads(f, n + 1, D, v)
  PROVE  f[n + 1] = IF n + 1 \in D THEN 10 * f[n] + v[n + 1] ELSE f[n]
<1>1. n + 1 \in 0..(n + 1) /\ n + 1 # 0 /\ n + 1 - 1 = n
  OBVIOUS
<1>2. \A i \in 0..(n + 1) : f[i] = IF i = 0 THEN 0
                             ELSE IF i \in D THEN 10 * f[i - 1] + v[i] ELSE f[i - 1]
  BY DEF Reads
<1> QED BY <1>1, <1>2

(* A reading of digits gives natural numbers.                              *)
LEMMA ReadingType ==
  ASSUME NEW n \in Nat, NEW D, NEW v, NEW f, Reads(f, n, D, v),
         \A i \in 1..n : i \in D => v[i] \in Nat
  PROVE  \A i \in 0..n : f[i] \in Nat
<1> DEFINE S == {i \in Nat : i <= n => f[i] \in Nat}
<1>1. \A i \in 0..n : f[i] = IF i = 0 THEN 0
                             ELSE IF i \in D THEN 10 * f[i - 1] + v[i] ELSE f[i - 1]
  BY DEF Reads
<1>2. 0 \in S
  BY <1>1
<1>3. ASSUME NEW i \in Nat, i \in S PROVE i + 1 \in S
  <2> SUFFICES ASSUME i + 1 <= n PROVE f[i + 1] \in Nat
    OBVIOUS
  <2>1. /\ i + 1 \in 0..n /\ i + 1 # 0 /\ i + 1 - 1 = i
        /\ i + 1 \in 1..n /\ i <= n
    OBVIOUS
  <2>2. f[i] \in Nat
    BY <1>3, <2>1
  <2>3. f[i + 1] = IF i + 1 \in D THEN 10 * f[i] + v[i + 1] ELSE f[i]
    BY <1>1, <2>1
  <2> QED BY <2>1, <2>2, <2>3
<1> HIDE DEF S
<1>4. \A i \in Nat : i \in S
  BY <1>2, <1>3, Upward
<1> QED BY <1>4 DEF S

(* Number reads.                                                           *)
LEMMA NumberReads ==
  ASSUME NEW s \in Seq(Bytes), NEW k
  PROVE  \E read : Reads(read, Len(s), DigitsOf(s, k), ValuesOf(s))
                   /\ Number(s, k) = read[Len(s)]
<1>0. Len(s) \in Nat
  BY LenProperties
<1> DEFINE Rec(r) == r = [i \in 0..Len(s) |->
             IF i = 0 THEN 0
             ELSE IF s[i] \in Digits /\ SemicolonsBefore(s, i) = k - 1
             THEN 10 * r[i - 1] + Value(s[i]) ELSE r[i - 1]]
<1>1. ASSUME NEW r PROVE Rec(r) <=> Reads(r, Len(s), DigitsOf(s, k), ValuesOf(s))
  <2> DEFINE one == [i \in 0..Len(s) |->
             IF i = 0 THEN 0
             ELSE IF s[i] \in Digits /\ SemicolonsBefore(s, i) = k - 1
             THEN 10 * r[i - 1] + Value(s[i]) ELSE r[i - 1]]
             two == [i \in 0..Len(s) |->
             IF i = 0 THEN 0
             ELSE IF i \in DigitsOf(s, k) THEN 10 * r[i - 1] + ValuesOf(s)[i]
             ELSE r[i - 1]]
  <2>1. ASSUME NEW i \in 0..Len(s) PROVE one[i] = two[i]
    <3>1. CASE i = 0
      BY <3>1
    <3>2. CASE i # 0
      <4>1. i \in 1..Len(s)
        BY <1>0, <3>2
      <4>2. /\ i \in DigitsOf(s, k) <=> s[i] \in Digits /\ SemicolonsBefore(s, i) = k - 1
            /\ ValuesOf(s)[i] = Value(s[i])
        BY <4>1 DEF DigitsOf, ValuesOf
      <4> QED BY <3>2, <4>2
    <3> QED BY <3>1, <3>2
  <2>2. one = two
    BY <2>1, Zenon
  <2> QED BY <2>2 DEF Reads
<1>2. \E f : Rec(f)
  <2>1. \E r : Reads(r, Len(s), DigitsOf(s, k), ValuesOf(s))
    BY <1>0, ReadingExists
  <2> QED BY <1>1, <2>1
<1> DEFINE upTo == CHOOSE r : Rec(r)
<1>3. Rec(upTo)
  <2> HIDE DEF Rec
  <2> QED BY <1>2
<1>4. Number(s, k) = upTo[Len(s)]
  BY DEF Number
<1> HIDE DEF Rec, upTo
<1>5. Reads(upTo, Len(s), DigitsOf(s, k), ValuesOf(s))
  BY <1>1, <1>3
<1> QED BY <1>4, <1>5

LEMMA DigitsAre ==
  /\ Digits \subseteq {"0", "1", "2", "3", "4", "5", "6", "7", "8", "9"}
  /\ \A b \in Digits : Value(b) \in Nat /\ b \notin Finals \cup {"ESC", "?", ";", " "}
<1>1. /\ DOMAIN Numerals = 1..10
      /\ \A i \in 1..10 : Numerals[i] \in {"0", "1", "2", "3", "4", "5", "6", "7", "8", "9"}
  BY DEF Numerals
<1>2. Digits \subseteq {Numerals[i] : i \in 1..10}
  BY <1>1, ModesAssumption DEF ToSet
<1>3. \A b \in Digits : Value(b) \in Nat
  <2> TAKE b \in Digits
  <2>1. \E i \in 1..10 : Numerals[i] = b
    BY <1>2
  <2> DEFINE n == CHOOSE i \in 1..10 : Numerals[i] = b
  <2>2. n \in 1..10
    BY <2>1
  <2>3. Value(b) = n - 1
    BY DEF Value
  <2> HIDE DEF n
  <2> QED BY <2>2, <2>3
<1> QED BY <1>1, <1>2, <1>3 DEF Finals

LEMMA ModeLimits ==
  /\ MaxParameters \in Nat \ {0} /\ ParameterCap \in Nat
  /\ \A n \in CursorModes \cup ScreenModes : n \in 0..(ParameterCap - 1)
BY ModesAssumption

(* Semicolons are counted; one more byte adds at most one, at the end.     *)
LEMMA SemicolonsType ==
  ASSUME NEW s, NEW i \in Nat
  PROVE  SemicolonsBefore(s, i) \in Nat
<1>1. IsFiniteSet(1..(i - 1))
  BY FS_Interval
<1>2. {j \in 1..(i - 1) : s[j] = ";"} \subseteq 1..(i - 1)
  OBVIOUS
<1> QED BY <1>1, <1>2, FS_Subset, FS_CardinalityType DEF SemicolonsBefore

LEMMA SemicolonsAppend ==
  ASSUME NEW s \in Seq(Bytes), NEW byte \in Bytes
  PROVE  /\ \A i \in 1..(Len(s) + 1) :
              SemicolonsBefore(Append(s, byte), i) = SemicolonsBefore(s, i)
         /\ SemicolonsBefore(Append(s, byte), Len(Append(s, byte)) + 1)
              = IF byte = ";" THEN SemicolonsBefore(s, Len(s) + 1) + 1
                              ELSE SemicolonsBefore(s, Len(s) + 1)
<1> DEFINE t == Append(s, byte)
           at(q, i) == {j \in 1..(i - 1) : q[j] = ";"}
<1>1. /\ Len(s) \in Nat /\ Len(t) = Len(s) + 1 /\ t[Len(s) + 1] = byte
      /\ \A i \in 1..Len(s) : t[i] = s[i]
  BY AppendProperties, LenProperties
<1> HIDE DEF t
<1>2. \A i \in 1..(Len(s) + 1) : at(t, i) = at(s, i)
  <2> TAKE i \in 1..(Len(s) + 1)
  <2>1. \A j \in 1..(i - 1) : t[j] = s[j]
    BY <1>1
  <2> QED BY <2>1
<1>3. \A i \in 1..(Len(s) + 1) : SemicolonsBefore(t, i) = SemicolonsBefore(s, i)
  BY <1>2 DEF SemicolonsBefore
<1>4. SemicolonsBefore(t, Len(t) + 1)
        = IF byte = ";" THEN SemicolonsBefore(s, Len(s) + 1) + 1
                        ELSE SemicolonsBefore(s, Len(s) + 1)
  <2> DEFINE n == Len(s)
             old == {j \in 1..n : s[j] = ";"}
             new == {j \in 1..(n + 1) : t[j] = ";"}
  <2>1. n \in Nat /\ Len(t) + 1 - 1 = n + 1 /\ n + 1 - 1 = n
    BY <1>1
  <2>2. /\ Cardinality(new) = SemicolonsBefore(t, Len(t) + 1)
        /\ Cardinality(old) = SemicolonsBefore(s, Len(s) + 1)
    <3>1. 1..(Len(t) + 1 - 1) = 1..(n + 1) /\ 1..(Len(s) + 1 - 1) = 1..n
      BY <2>1
    <3>2. /\ SemicolonsBefore(t, Len(t) + 1)
               = Cardinality({j \in 1..(Len(t) + 1 - 1) : t[j] = ";"})
          /\ SemicolonsBefore(s, Len(s) + 1)
               = Cardinality({j \in 1..(Len(s) + 1 - 1) : s[j] = ";"})
      BY DEF SemicolonsBefore
    <3> QED BY ONLY <3>1, <3>2, Zenon
  <2>3. /\ byte = ";" => new = old \cup {n + 1}
        /\ byte # ";" => new = old
    <3>1. t[n + 1] = byte /\ \A i \in 1..n : t[i] = s[i]
      BY <1>1
    <3> HIDE DEF n
    <3>2. 1..(n + 1) = (1..n) \cup {n + 1}
      BY <2>1
    <3> QED BY <3>1, <3>2
  <2>4. IsFiniteSet(old) /\ n + 1 \notin old
    <3>1. IsFiniteSet(1..n)
      BY <2>1, FS_Interval
    <3>2. old \subseteq 1..n
      OBVIOUS
    <3>3. n + 1 \notin 1..n
      BY <2>1
    <3> QED BY <3>1, <3>2, <3>3, FS_Subset
  <2> HIDE DEF old, new
  <2>6. Cardinality(old \cup {n + 1}) = Cardinality(old) + 1
    BY <2>4, FS_AddElement
  <2>7. CASE byte = ";"
    BY <2>2, <2>3, <2>6, <2>7
  <2>8. CASE byte # ";"
    <3>1. Cardinality(new) = Cardinality(old)
      BY <2>3, <2>8
    <3>2. SemicolonsBefore(t, Len(t) + 1) = SemicolonsBefore(s, Len(s) + 1)
      BY <2>2, <3>1
    <3> QED BY <2>8, <3>2
  <2> QED BY <2>7, <2>8
<1> QED BY <1>3, <1>4 DEF t

(* A digit at the end makes the last number ten times as large; nothing    *)
(* else changes a number.                                                  *)
LEMMA NumberAppend ==
  ASSUME NEW s \in Seq(Bytes), NEW byte \in Bytes, NEW k
  PROVE  /\ Number(s, k) \in Nat
         /\ Number(Append(s, byte), k) =
              IF byte \in Digits /\ SemicolonsBefore(s, Len(s) + 1) = k - 1
              THEN 10 * Number(s, k) + Value(byte) ELSE Number(s, k)
<1> DEFINE t == Append(s, byte)
           n == Len(s)
<1>1. /\ n \in Nat /\ Len(t) = n + 1 /\ t[n + 1] = byte /\ t \in Seq(Bytes)
      /\ \A i \in 1..n : t[i] = s[i]
  BY AppendProperties, LenProperties
<1>2. \A i \in 1..(n + 1) : SemicolonsBefore(t, i) = SemicolonsBefore(s, i)
  BY SemicolonsAppend
<1>3. PICK f : Reads(f, n, DigitsOf(s, k), ValuesOf(s)) /\ Number(s, k) = f[n]
  BY NumberReads
<1> HIDE DEF t
<1>4. PICK g : Reads(g, n + 1, DigitsOf(t, k), ValuesOf(t)) /\ Number(t, k) = g[n + 1]
  BY <1>1, NumberReads
<1> HIDE DEF n
<1>5. \A i \in 1..n : /\ i \in DigitsOf(s, k) <=> i \in DigitsOf(t, k)
                      /\ ValuesOf(s)[i] = ValuesOf(t)[i]
  <2> TAKE i \in 1..n
  <2>1. i \in 1..(n + 1)
    BY <1>1
  <2> QED BY <1>1, <1>2, <2>1 DEF DigitsOf, ValuesOf, n
<1>6. f[n] = g[n]
  <2>1. n <= n + 1 /\ n + 1 \in Nat /\ n \in 0..n
    BY <1>1
  <2>2. \A i \in 0..n : f[i] = g[i]
    BY <1>1, <1>3, <1>4, <1>5, <2>1, ReadingsAgree
  <2> QED BY <2>1, <2>2
<1>7. f[n] \in Nat
  <2>1. \A i \in 1..n : i \in DigitsOf(s, k) => ValuesOf(s)[i] \in Nat
    BY DigitsAre DEF DigitsOf, ValuesOf, n
  <2>2. \A i \in 0..n : f[i] \in Nat
    BY <1>1, <1>3, <2>1, ReadingType
  <2> QED BY <1>1, <2>2
<1>8. g[n + 1] = IF n + 1 \in DigitsOf(t, k) THEN 10 * g[n] + ValuesOf(t)[n + 1] ELSE g[n]
  BY <1>1, <1>4, LastByte
<1>9. /\ n + 1 \in DigitsOf(t, k) <=> byte \in Digits /\ SemicolonsBefore(s, n + 1) = k - 1
      /\ ValuesOf(t)[n + 1] = Value(byte)
  <2>1. n + 1 \in 1..(n + 1)
    BY <1>1
  <2> QED BY <1>1, <1>2, <2>1 DEF DigitsOf, ValuesOf
<1>10. Number(t, k) = IF byte \in Digits /\ SemicolonsBefore(s, n + 1) = k - 1
                      THEN 10 * Number(s, k) + Value(byte) ELSE Number(s, k)
  BY <1>3, <1>4, <1>6, <1>8, <1>9
<1> QED BY <1>3, <1>7, <1>10 DEF t, n

(* A sequence that has just begun has no semicolons and no digits.         *)
LEMMA NothingToRead ==
  /\ SemicolonsBefore(<<>>, 1) = 0
  /\ \A k : Number(<<>>, k) = 0
<1>1. {j \in 1..(1 - 1) : <<>>[j] = ";"} = {}
  OBVIOUS
<1>2. SemicolonsBefore(<<>>, 1) = 0
  BY <1>1, FS_EmptySet DEF SemicolonsBefore
<1>3. ASSUME NEW k PROVE Number(<<>>, k) = 0
  <2>1. <<>> \in Seq(Bytes) /\ Len(<<>>) = 0
    OBVIOUS
  <2>2. PICK f : Reads(f, 0, DigitsOf(<<>>, k), ValuesOf(<<>>)) /\ Number(<<>>, k) = f[0]
    BY <2>1, NumberReads
  <2> QED BY <2>2 DEF Reads
<1> QED BY <1>2, <1>3

Tracked ==
  [alternate_screen : BOOLEAN, cursor_visible : BOOLEAN,
   parse_state : {"TEXT", "ESCAPE", "CSI"}, private_sequence : BOOLEAN,
   parameters : [1..MaxParameters -> Nat], parameter_count : Nat]

Screens == [alternate_screen : BOOLEAN, cursor_visible : BOOLEAN]

(* What the parser knows of a control sequence of which it has read b: its *)
(* numbers, if they are small enough to be those of modes.                 *)
Follows(m, b) ==
  /\ m.parameter_count = SemicolonsBefore(b, Len(b) + 1)
  /\ m.private_sequence <=> \E i \in 1..Len(b) : b[i] = "?"
  /\ \A k \in 1..MaxParameters :
       \/ m.parameters[k] = Number(b, k)
       \/ m.parameters[k] >= ParameterCap /\ Number(b, k) >= ParameterCap

TrackerInv ==
  /\ modes \in Tracked /\ sequence \in Seq(Bytes)
  /\ terminal \in Screens /\ plain \in BOOLEAN
  /\ modes.parse_state = "TEXT"   => sequence = <<>>
  /\ modes.parse_state = "ESCAPE" => sequence = <<"ESC">>
  /\ modes.parse_state = "CSI"    => /\ Len(sequence) >= 2 /\ sequence[2] = "["
                                     /\ Follows(modes, SubSeq(sequence, 3, Len(sequence)))
  /\ ModesFollowed

(* One more byte inside a control sequence.                                *)
LEMMA FollowsByte ==
  ASSUME NEW m \in Tracked, NEW b \in Seq(Bytes), NEW byte \in Bytes,
         byte \notin Finals \cup {"ESC"}, Follows(m, b)
  PROVE  /\ ProcessCsi(m, byte) \in Tracked
         /\ ProcessCsi(m, byte).parse_state = m.parse_state
         /\ ProcessCsi(m, byte).alternate_screen = m.alternate_screen
         /\ ProcessCsi(m, byte).cursor_visible = m.cursor_visible
         /\ Follows(ProcessCsi(m, byte), Append(b, byte))
<1> DEFINE t == Append(b, byte)
           i == m.parameter_count + 1
           p == ProcessCsi(m, byte)
<1>1. /\ Len(b) \in Nat /\ Len(t) = Len(b) + 1 /\ t[Len(b) + 1] = byte
      /\ \A j \in 1..Len(b) : t[j] = b[j]
  BY AppendProperties, LenProperties
<1>2. SemicolonsBefore(t, Len(t) + 1) =
        IF byte = ";" THEN SemicolonsBefore(b, Len(b) + 1) + 1
        ELSE SemicolonsBefore(b, Len(b) + 1)
  BY SemicolonsAppend
<1>3. \A k : /\ Number(b, k) \in Nat
             /\ Number(t, k) =
                  IF byte \in Digits /\ SemicolonsBefore(b, Len(b) + 1) = k - 1
                  THEN 10 * Number(b, k) + Value(byte) ELSE Number(b, k)
  BY NumberAppend
<1>4. /\ m.parameter_count \in Nat /\ m.parameter_count = SemicolonsBefore(b, Len(b) + 1)
      /\ m.parameters \in [1..MaxParameters -> Nat] /\ m.private_sequence \in BOOLEAN
  BY DEF Follows, Tracked
<1> HIDE DEF t
<1>5. (\E j \in 1..Len(t) : t[j] = "?") <=> byte = "?" \/ \E j \in 1..Len(b) : b[j] = "?"
  <2>1. 1..Len(t) = (1..Len(b)) \cup {Len(b) + 1}
    BY <1>1
  <2> QED BY <1>1, <2>1
<1>6. CASE byte = "?"
  <2>1. byte \notin Digits /\ byte # ";" /\ byte \notin Finals
    BY <1>6, DigitsAre DEF Finals
  <2>2. p = [m EXCEPT !.private_sequence = TRUE]
    BY <1>6, <2>1 DEF ProcessCsi
  <2>3. /\ p \in Tracked /\ p.parameters = m.parameters /\ p.private_sequence = TRUE
        /\ p.parameter_count = m.parameter_count /\ p.parse_state = m.parse_state
        /\ p.alternate_screen = m.alternate_screen /\ p.cursor_visible = m.cursor_visible
    BY <2>2 DEF Tracked
  <2> HIDE DEF p
  <2>4. Follows(p, t)
    BY <1>2, <1>3, <1>5, <1>6, <2>1, <2>3 DEF Follows
  <2> QED BY <2>3, <2>4 DEF p, t
<1>7. CASE byte = ";"
  <2>1. byte \notin Digits /\ byte # "?" /\ byte \notin Finals
    BY <1>7, DigitsAre DEF Finals
  <2>2. p = [m EXCEPT !.parameter_count = i]
    BY <1>7, <2>1 DEF ProcessCsi
  <2>3. /\ p \in Tracked /\ p.parameters = m.parameters
        /\ p.private_sequence = m.private_sequence
        /\ p.parameter_count = m.parameter_count + 1 /\ p.parse_state = m.parse_state
        /\ p.alternate_screen = m.alternate_screen /\ p.cursor_visible = m.cursor_visible
    BY <2>2 DEF Tracked
  <2> HIDE DEF p
  <2>4. Follows(p, t)
    BY <1>2, <1>3, <1>4, <1>5, <1>7, <2>1, <2>3 DEF Follows
  <2> QED BY <2>3, <2>4 DEF p, t
<1>8. CASE byte = " " \/ (byte \in Digits /\ ~ (i <= MaxParameters))
  <2>1. byte # "?" /\ byte # ";" /\ byte \notin Finals
        /\ (byte \in Digits => ~ (i <= MaxParameters))
    BY <1>8, DigitsAre DEF Finals
  <2>2. p = m
    BY <2>1 DEF ProcessCsi
  <2>3. \A k \in 1..MaxParameters : Number(t, k) = Number(b, k)
    <3>1. CASE byte \notin Digits
      BY <1>3, <3>1
    <3>2. CASE byte \in Digits
      <4>1. m.parameter_count \in Nat /\ ~ (m.parameter_count + 1 <= MaxParameters)
        BY <1>4, <2>1, <3>2
      <4>2. \A k \in 1..MaxParameters : m.parameter_count # k - 1
        BY ONLY <4>1, ModeLimits
      <4> QED BY <1>3, <1>4, <4>2
    <3> QED BY <3>1, <3>2
  <2>4. Follows(p, t)
    BY <1>2, <1>5, <2>1, <2>2, <2>3 DEF Follows
  <2> QED BY <2>2, <2>4 DEF t
<1>9. CASE byte \in Digits /\ i <= MaxParameters
  <2>1. /\ byte # "?" /\ byte # ";" /\ byte \notin Finals /\ Value(byte) \in Nat
        /\ i \in 1..MaxParameters
    <3>1. i \in 1..MaxParameters
      BY ONLY <1>4, <1>9, ModeLimits
    <3>2. byte # "?" /\ byte # ";" /\ byte \notin Finals /\ Value(byte) \in Nat
      BY <1>9, DigitsAre
    <3> QED BY <3>1, <3>2
  <2>2. \A k \in 1..MaxParameters : k # i => Number(t, k) = Number(b, k)
    BY <1>3, <1>4, ModeLimits
  <2>3. Number(t, i) = 10 * Number(b, i) + Value(byte) /\ Number(b, i) \in Nat
    BY <1>3, <1>4, <1>9
  <2>4. CASE m.parameters[i] < ParameterCap
    <3>1. p = [m EXCEPT !.parameters[i] = 10 * @ + Value(byte)]
      BY <1>9, <2>1, <2>4 DEF ProcessCsi
    <3>2. m.parameters[i] \in Nat /\ 10 * m.parameters[i] + Value(byte) \in Nat
      <4>1. m.parameters[i] \in Nat
        BY ONLY <1>4, <2>1
      <4>2. Value(byte) \in Nat
        BY <2>1
      <4> QED BY ONLY <4>1, <4>2
    <3>3. /\ p.parameters = [m.parameters EXCEPT ![i] = 10 * m.parameters[i] + Value(byte)]
          /\ p.private_sequence = m.private_sequence
          /\ p.parameter_count = m.parameter_count /\ p.parse_state = m.parse_state
          /\ p.alternate_screen = m.alternate_screen /\ p.cursor_visible = m.cursor_visible
      BY <3>1 DEF Tracked
    <3>4. p \in Tracked
      <4> DEFINE q == [m.parameters EXCEPT ![i] = 10 * m.parameters[i] + Value(byte)]
      <4>1. q \in [1..MaxParameters -> Nat]
        BY ONLY <1>4, <2>1, <3>2
      <4> HIDE DEF q
      <4>2. p = [m EXCEPT !.parameters = q]
        BY <3>1 DEF q, Tracked
      <4> HIDE DEF p
      <4> QED BY <4>1, <4>2 DEF Tracked
    <3> HIDE DEF p
    <3>5. m.parameters[i] = Number(b, i)
      <4>1. \/ m.parameters[i] = Number(b, i)
            \/ m.parameters[i] >= ParameterCap /\ Number(b, i) >= ParameterCap
        BY <2>1 DEF Follows
      <4> QED BY ONLY <2>4, <3>2, <4>1, ModeLimits
    <3>6. p.parameters[i] = Number(t, i)
      BY <1>4, <2>1, <2>3, <3>3, <3>5
    <3>7. \A k \in 1..MaxParameters : k # i => p.parameters[k] = m.parameters[k]
      BY <1>4, <2>1, <3>3
    <3> HIDE DEF i
    <3>8. Follows(p, t)
      BY <1>2, <1>5, <2>1, <2>2, <3>3, <3>6, <3>7 DEF Follows
    <3> QED BY <3>3, <3>4, <3>8 DEF p, t
  <2>5. CASE ~ (m.parameters[i] < ParameterCap)
    <3>1. p = m
      BY <2>1, <2>5 DEF ProcessCsi
    <3>2. m.parameters[i] \in Nat /\ m.parameters[i] >= ParameterCap
      <4>1. m.parameters[i] \in Nat
        BY ONLY <1>4, <2>1
      <4> QED BY ONLY <2>5, <4>1, ModeLimits
    <3>3. Number(b, i) >= ParameterCap
      <4>1. \/ m.parameters[i] = Number(b, i)
            \/ m.parameters[i] >= ParameterCap /\ Number(b, i) >= ParameterCap
        BY <2>1 DEF Follows
      <4> QED BY ONLY <3>2, <4>1
    <3>4. Number(t, i) >= ParameterCap
      <4>1. Value(byte) \in Nat
        BY <2>1
      <4> QED BY ONLY <2>3, <3>3, <4>1, ModeLimits
    <3> HIDE DEF i, p
    <3>5. Follows(p, t)
      BY <1>2, <1>5, <2>1, <2>2, <3>1, <3>2, <3>4 DEF Follows
    <3> QED BY <3>1, <3>5 DEF p, t
  <2> QED BY <2>4, <2>5
<1>10. byte \in {"?", ";", " "} \cup Digits
  BY DEF Bytes
<1> QED BY <1>6, <1>7, <1>8, <1>9, <1>10

Agree(m, t) ==
  m.alternate_screen = t.alternate_screen /\ m.cursor_visible = t.cursor_visible

(* Setting modes changes nothing else.                                     *)
LEMMA SetType ==
  ASSUME NEW N, NEW e \in BOOLEAN
  PROVE  /\ \A m \in Tracked : SetPrivateModes(m, N, e) \in Tracked
         /\ \A t \in Screens : SetPrivateModes(t, N, e) \in Screens
<1>1. ASSUME NEW m \in Tracked PROVE SetPrivateModes(m, N, e) \in Tracked
  <2> DEFINE a == IF N \cap ScreenModes # {} THEN e ELSE m.alternate_screen
             c == IF N \cap CursorModes # {} THEN e ELSE m.cursor_visible
  <2>1. a \in BOOLEAN /\ c \in BOOLEAN
    BY <1>1 DEF Tracked
  <2>2. SetPrivateModes(m, N, e) = [m EXCEPT !.alternate_screen = a, !.cursor_visible = c]
    BY DEF SetPrivateModes, Tracked
  <2> HIDE DEF a, c
  <2> QED BY <1>1, <2>1, <2>2 DEF Tracked
<1>2. ASSUME NEW t \in Screens PROVE SetPrivateModes(t, N, e) \in Screens
  <2> DEFINE a == IF N \cap ScreenModes # {} THEN e ELSE t.alternate_screen
             c == IF N \cap CursorModes # {} THEN e ELSE t.cursor_visible
  <2>1. a \in BOOLEAN /\ c \in BOOLEAN
    BY <1>2 DEF Screens
  <2>2. SetPrivateModes(t, N, e) = [t EXCEPT !.alternate_screen = a, !.cursor_visible = c]
    BY DEF SetPrivateModes, Screens
  <2> HIDE DEF a, c
  <2> QED BY <1>2, <2>1, <2>2 DEF Screens
<1> QED BY <1>1, <1>2

(* Setting the same modes keeps the two agreed.                            *)
LEMMA SetAlike ==
  ASSUME NEW m \in Tracked, NEW t \in Screens, Agree(m, t),
         NEW N, NEW P, NEW e \in BOOLEAN,
         N \cap ScreenModes # {} <=> P \cap ScreenModes # {},
         N \cap CursorModes # {} <=> P \cap CursorModes # {}
  PROVE  /\ SetPrivateModes(m, N, e) \in Tracked
         /\ SetPrivateModes(t, P, e) \in Screens
         /\ Agree(SetPrivateModes(m, N, e), SetPrivateModes(t, P, e))
<1> DEFINE a == IF N \cap ScreenModes # {} THEN e ELSE m.alternate_screen
           c == IF N \cap CursorModes # {} THEN e ELSE m.cursor_visible
<1>1. a \in BOOLEAN /\ c \in BOOLEAN
  BY DEF Tracked
<1>2. SetPrivateModes(m, N, e) = [m EXCEPT !.alternate_screen = a, !.cursor_visible = c]
  BY Zenon DEF SetPrivateModes, Tracked
<1>3. SetPrivateModes(t, P, e) = [t EXCEPT !.alternate_screen = a, !.cursor_visible = c]
  <2>1. /\ a = IF P \cap ScreenModes # {} THEN e ELSE t.alternate_screen
        /\ c = IF P \cap CursorModes # {} THEN e ELSE t.cursor_visible
    BY DEF Agree
  <2> HIDE DEF a, c
  <2> QED BY <2>1 DEF SetPrivateModes, Screens
<1> HIDE DEF a, c
<1>4. LET n == [m EXCEPT !.alternate_screen = a, !.cursor_visible = c]
      IN  n \in Tracked /\ n.alternate_screen = a /\ n.cursor_visible = c
  BY <1>1 DEF Tracked
<1>5. LET n == [t EXCEPT !.alternate_screen = a, !.cursor_visible = c]
      IN  n \in Screens /\ n.alternate_screen = a /\ n.cursor_visible = c
  BY <1>1 DEF Screens
<1> QED BY <1>2, <1>3, <1>4, <1>5 DEF Agree

(* The numbers strange keeps are, as far as modes go, those of the text.   *)
LEMMA SameModes ==
  ASSUME NEW m \in Tracked, NEW b \in Seq(Bytes), Follows(m, b),
         NumberCount(b) <= MaxParameters,
         NEW M, M \subseteq CursorModes \cup ScreenModes
  PROVE  {m.parameters[i] : i \in {j \in 1..MaxParameters : j <= m.parameter_count + 1}}
           \cap M # {}
         <=> {Number(b, k) : k \in 1..NumberCount(b)} \cap M # {}
<1> DEFINE kept == {j \in 1..MaxParameters : j <= m.parameter_count + 1}
           numbers == {Number(b, k) : k \in 1..NumberCount(b)}
           values == {m.parameters[i] : i \in kept}
<1>1. m.parameter_count \in Nat /\ NumberCount(b) = m.parameter_count + 1
  BY DEF Tracked, Follows, NumberCount
<1>2. kept = 1..NumberCount(b) /\ kept \subseteq 1..MaxParameters
  <2>1. m.parameter_count + 1 <= MaxParameters
    BY <1>1
  <2>2. kept = 1..(m.parameter_count + 1)
    BY ONLY <1>1, <2>1, ModeLimits
  <2> QED BY <1>1, <2>2
<1> HIDE DEF kept
<1>3. \A k \in kept : \A n \in M : m.parameters[k] = n <=> Number(b, k) = n
  <2> TAKE k \in kept
  <2> TAKE n \in M
  <2>1. k \in 1..MaxParameters
    BY <1>2
  <2>2. \/ m.parameters[k] = Number(b, k)
        \/ m.parameters[k] >= ParameterCap /\ Number(b, k) >= ParameterCap
    BY <2>1 DEF Follows
  <2>3. n \in 0..(ParameterCap - 1) /\ ParameterCap \in Nat
    BY ModeLimits
  <2>4. m.parameters[k] \in Nat /\ Number(b, k) \in Nat
    <3>1. ";" \in Bytes
      BY DEF Bytes
    <3> QED BY <2>1, <3>1, NumberAppend DEF Tracked
  <2> QED BY ONLY <2>2, <2>3, <2>4
<1>4. values \cap M # {} <=> numbers \cap M # {}
  BY <1>2, <1>3
<1> QED BY <1>4 DEF kept

(* The bytes of a text after its first two.                                *)
LEMMA AfterTwo ==
  ASSUME NEW s \in Seq(Bytes), NEW n \in Nat, 2 <= n, n <= Len(s)
  PROVE  /\ SubSeq(s, 3, n) \in Seq(Bytes) /\ Len(SubSeq(s, 3, n)) = n - 2
         /\ \A i \in 1..(n - 2) : SubSeq(s, 3, n)[i] = s[i + 2]
<1> DEFINE b == SubSeq(s, 3, n)
<1>1. \A i \in 3..n : s[i] \in Bytes
  BY ElementOfSeq, LenProperties
<1>2. /\ b \in Seq(Bytes) /\ Len(b) = IF 3 <= n THEN n - 3 + 1 ELSE 0
      /\ \A i \in 1..(n - 3 + 1) : b[i] = s[3 + i - 1]
  BY <1>1, SubSeqProperties
<1> HIDE DEF b
<1>3. Len(b) = n - 2
  BY <1>2
<1>4. ASSUME NEW i \in 1..(n - 2) PROVE b[i] = s[i + 2]
  <2>1. i \in 1..(n - 3 + 1) /\ 3 + i - 1 = i + 2
    OBVIOUS
  <2> QED BY <1>2, <2>1
<1> QED BY <1>2, <1>3, <1>4 DEF b

(* The byte that ends a control sequence: strange does what the terminal   *)
(* does.                                                                   *)
LEMMA FinishedAlike ==
  ASSUME NEW m \in Tracked, NEW t \in Screens, NEW s \in Seq(Bytes),
         NEW final \in Finals, Len(s) >= 2, s[2] = "[",
         Follows(m, SubSeq(s, 3, Len(s)))
  PROVE  /\ FinishCsi(m, final) \in Tracked
         /\ Obey(t, Append(s, final)) \in Screens
         /\ WellFormed(Append(s, final)) \in BOOLEAN
         /\ WellFormed(Append(s, final)) /\ Agree(m, t) =>
              Agree(FinishCsi(m, final), Obey(t, Append(s, final)))
<1> DEFINE b == SubSeq(s, 3, Len(s))
           w == Append(s, final)
<1>1. /\ Len(s) \in Nat /\ final \in Bytes
      /\ w \in Seq(Bytes) /\ Len(w) = Len(s) + 1 /\ w[Len(s) + 1] = final
      /\ \A i \in 1..Len(s) : w[i] = s[i]
  <2>1. final \in Bytes /\ Len(s) \in Nat
    BY LenProperties DEF Bytes
  <2> QED BY <2>1, AppendProperties
<1>2. b \in Seq(Bytes) /\ Len(b) = Len(s) - 2 /\ \A i \in 1..Len(b) : b[i] = s[i + 2]
  <2> DEFINE n == Len(s)
  <2>1. n \in Nat /\ 2 <= n /\ n <= n
    BY <1>1
  <2>2. /\ SubSeq(s, 3, n) \in Seq(Bytes) /\ Len(SubSeq(s, 3, n)) = n - 2
        /\ \A i \in 1..(n - 2) : SubSeq(s, 3, n)[i] = s[i + 2]
    <3>1. n <= Len(s)
      BY <2>1
    <3> HIDE DEF n
    <3> QED BY <2>1, <3>1, AfterTwo
  <2> QED BY <2>2, Zenon
<1> HIDE DEF w
<1>3. Body(w) = b
  <2> DEFINE d == SubSeq(w, 3, Len(w) - 1)
  <2>1. Len(w) - 1 = Len(s)
    BY <1>1
  <2>2. d \in Seq(Bytes) /\ Len(d) = Len(s) - 2 /\ \A i \in 1..Len(d) : d[i] = w[i + 2]
    <3>1. Len(s) <= Len(w)
      BY <1>1
    <3> QED BY <1>1, <2>1, <3>1, AfterTwo
  <2> HIDE DEF d, b
  <2>3. \A i \in 1..Len(d) : d[i] = b[i]
    <3> TAKE i \in 1..Len(d)
    <3>1. i + 2 \in 1..Len(s) /\ i \in 1..Len(b)
      BY <1>1, <1>2, <2>2
    <3> QED BY <1>1, <1>2, <2>2, <3>1
  <2>4. d = b
    BY <1>2, <2>2, <2>3, SeqEqual
  <2> QED BY <2>4 DEF Body, d
<1>4. IsControl(w) /\ Last(w) = final /\ w # <<"ESC", "c">>
  <2>1. Len(w) > 2 /\ w[2] = "[" /\ w[Len(w)] = final
    BY <1>1
  <2> QED BY <2>1 DEF IsControl, Last
<1>5. WellFormed(w) <=> /\ \A i \in 2..Len(b) : b[i] # "?"
                        /\ NumberCount(b) <= MaxParameters
  BY <1>3, <1>4, Zenon DEF WellFormed
<1>6. WellFormed(w) \in BOOLEAN
  BY DEF WellFormed
<1>7. WellFormed(w) => (w[3] = "?" <=> m.private_sequence)
  <2> SUFFICES ASSUME WellFormed(w) PROVE w[3] = "?" <=> m.private_sequence
    OBVIOUS
  <2>1. m.private_sequence <=> \E i \in 1..Len(b) : b[i] = "?"
    BY DEF Follows
  <2> HIDE DEF b
  <2>2. CASE Len(b) = 0
    <3>1. Len(s) + 1 = 3
      <4> DEFINE x == Len(b)
                 y == Len(s)
      <4>1. y \in Nat /\ x = y - 2 /\ x = 0
        BY <1>1, <1>2, <2>2, Zenon
      <4> HIDE DEF x, y
      <4>2. y + 1 = 3
        BY <4>1
      <4> QED BY <4>2 DEF y
    <3>2. final # "?"
      BY DEF Finals
    <3>3. 1..0 = {}
      OBVIOUS
    <3> QED BY <1>1, <2>1, <2>2, <3>1, <3>2, <3>3
  <2>3. CASE Len(b) >= 1
    <3>1. w[3] = s[3] /\ s[3] = b[1] /\ 1 \in 1..Len(b)
      <4>1. 1 \in 1..Len(b) /\ 3 \in 1..Len(s)
        BY <1>1, <1>2, <2>3
      <4>2. b[1] = s[1 + 2]
        BY <1>2, <4>1
      <4> QED BY <1>1, <4>1, <4>2
    <3>2. \A i \in 1..Len(b) : b[i] = "?" => i = 1
      <4> TAKE i \in 1..Len(b)
      <4>1. i # 1 => i \in 2..Len(b)
        BY <1>1, <1>2
      <4> QED BY <1>5, <4>1
    <3> QED BY <2>1, <3>1, <3>2
  <2> QED BY <1>1, <1>2, <2>2, <2>3
<1> DEFINE values == {m.parameters[i] : i \in {j \in 1..MaxParameters :
                        j <= m.parameter_count + 1}}
           numbers == {Number(b, k) : k \in 1..NumberCount(b)}
           on == final = "h"
<1>8. FinishCsi(m, final) = IF m.private_sequence /\ final \in {"h", "l"}
                            THEN SetPrivateModes(m, values, on) ELSE m
  BY DEF FinishCsi
<1>9. Obey(t, w) = IF w[3] = "?" /\ final \in {"h", "l"}
                   THEN SetPrivateModes(t, numbers, on) ELSE t
  BY <1>3, <1>4, Zenon DEF Obey
<1>10. on \in BOOLEAN
  OBVIOUS
<1>11. WellFormed(w) =>
          /\ values \cap ScreenModes # {} <=> numbers \cap ScreenModes # {}
          /\ values \cap CursorModes # {} <=> numbers \cap CursorModes # {}
  <2> HIDE DEF b
  <2>1. b \in Seq(Bytes) /\ Follows(m, b)
    BY <1>2 DEF b
  <2> QED BY <1>5, <2>1, SameModes
<1> HIDE DEF values, numbers, on, b
<1>12. SetPrivateModes(m, values, on) \in Tracked
  BY <1>10, SetType
<1>13. SetPrivateModes(t, numbers, on) \in Screens
  BY <1>10, SetType
<1>14. WellFormed(w) /\ Agree(m, t) => Agree(FinishCsi(m, final), Obey(t, w))
  BY <1>7, <1>8, <1>9, <1>10, <1>11, SetAlike
<1> QED BY <1>6, <1>8, <1>9, <1>12, <1>13, <1>14 DEF w

-----------------------------------------------------------------------------
(* The steps: an ESC, a byte outside a sequence, the byte after ESC, the   *)
(* byte that ends a control sequence and a byte inside one.                *)

LEMMA TrackerStarts == TrackerInit => TrackerInv
<1> SUFFICES ASSUME TrackerInit PROVE TrackerInv
  OBVIOUS
<1>1. [i \in 1..MaxParameters |-> 0] \in [1..MaxParameters -> Nat]
  OBVIOUS
<1>2. modes \in Tracked /\ terminal \in Screens
  BY <1>1, Zenon DEF TrackerInit, ModesInit, Defaults, Tracked, Screens
<1>3. /\ modes.parse_state = "TEXT" /\ modes.alternate_screen = terminal.alternate_screen
      /\ modes.cursor_visible = terminal.cursor_visible
  BY DEF TrackerInit, ModesInit, Defaults
<1> QED BY <1>2, <1>3 DEF TrackerInit, TrackerInv, ModesFollowed

LEMMA TrackerStutters == TrackerInv /\ UNCHANGED trackerVars => TrackerInv'
BY DEF TrackerInv, trackerVars, ModesFollowed

(* What a byte does to the sequence it belongs to.                         *)
LEMMA Written ==
  ASSUME NEW byte \in Bytes, Write(byte), byte # "ESC", sequence # <<>>
  PROVE  LET s == Append(sequence, byte)
         IN  /\ modes' = ProcessByte(modes, byte)
             /\ Complete(s) => /\ sequence' = <<>> /\ terminal' = Obey(terminal, s)
                               /\ plain' = (plain /\ WellFormed(s))
             /\ ~ Complete(s) => /\ sequence' = s /\ terminal' = terminal
                                 /\ plain' = plain
BY DEF Write

LEMMA EscapeByte ==
  ASSUME TrackerInv, Write("ESC")
  PROVE  TrackerInv'
<1>1. /\ <<"ESC">> \in Seq(Bytes) /\ Len(<<"ESC">>) = 1
  BY DEF Bytes
<1>2. ~ Complete(<<"ESC">>)
  BY <1>1 DEF Complete
<1>3. /\ modes' = [modes EXCEPT !.parse_state = "ESCAPE"]
      /\ sequence' = <<"ESC">> /\ terminal' = terminal /\ plain' = plain
  BY <1>2, Zenon DEF Write, ProcessByte
<1>4. /\ modes' \in Tracked /\ modes'.parse_state = "ESCAPE"
      /\ modes'.alternate_screen = modes.alternate_screen
      /\ modes'.cursor_visible = modes.cursor_visible
  BY <1>3 DEF TrackerInv, Tracked
<1> QED BY <1>1, <1>3, <1>4 DEF TrackerInv, ModesFollowed

LEMMA TextByte ==
  ASSUME TrackerInv, NEW byte \in Bytes \ {"ESC"}, Write(byte), modes.parse_state = "TEXT"
  PROVE  TrackerInv'
<1>1. sequence = <<>>
  BY DEF TrackerInv
<1>2. ~ Complete(<<>>)
  BY DEF Complete
<1>3. ProcessByte(modes, byte) = modes
  BY DEF ProcessByte
<1>4. UNCHANGED trackerVars
  BY <1>1, <1>2, <1>3, Zenon DEF Write, trackerVars
<1> QED BY <1>4, TrackerStutters

LEMMA AppendOne ==
  ASSUME NEW x, NEW y
  PROVE  Append(<<x>>, y) = <<x, y>>
<1> DEFINE s == Append(<<x>>, y)
           t == <<x, y>>
<1>1. <<x>> \in Seq({x, y}) /\ Len(<<x>>) = 1 /\ <<x>>[1] = x /\ y \in {x, y}
  OBVIOUS
<1>2. s \in Seq({x, y}) /\ Len(s) = 2 /\ s[1] = x /\ s[2] = y
  BY <1>1, AppendProperties
<1>3. t \in Seq({x, y}) /\ Len(t) = 2 /\ t[1] = x /\ t[2] = y
  OBVIOUS
<1> HIDE DEF s, t
<1>4. Len(s) = Len(t) /\ \A i \in 1..Len(s) : s[i] = t[i]
  BY <1>2, <1>3
<1>5. s = t
  BY <1>2, <1>3, <1>4, SeqEqual
<1> QED BY <1>5 DEF s, t

LEMMA EscapedByte ==
  ASSUME TrackerInv, NEW byte \in Bytes \ {"ESC"}, Write(byte), modes.parse_state = "ESCAPE"
  PROVE  TrackerInv'
<1> DEFINE s == Append(sequence, byte)
<1>1. /\ s = <<"ESC", byte>> /\ Len(s) = 2 /\ s[2] = byte /\ sequence # <<>>
      /\ s \in Seq(Bytes)
  <2>1. sequence = <<"ESC">> /\ byte \in Bytes
    BY DEF TrackerInv
  <2>2. "ESC" \in Bytes
    BY DEF Bytes
  <2>3. s = <<"ESC", byte>>
    BY <2>1, AppendOne
  <2> HIDE DEF s
  <2>4. s \in Seq(Bytes)
    BY <2>1, <2>2, <2>3
  <2> QED BY <2>1, <2>3, <2>4
<1>2. /\ modes' = ProcessEscape(modes, byte)
      /\ Complete(s) => /\ sequence' = <<>> /\ terminal' = Obey(terminal, s)
                        /\ plain' = (plain /\ WellFormed(s))
      /\ ~ Complete(s) => sequence' = s /\ terminal' = terminal /\ plain' = plain
  <2>1. ProcessByte(modes, byte) = ProcessEscape(modes, byte)
    BY DEF ProcessByte
  <2> QED BY <1>1, <2>1, Written
<1> HIDE DEF s
<1>3. Complete(s) <=> byte # "["
  BY <1>1 DEF Complete
<1>4. ~ IsControl(s) /\ WellFormed(s)
  <2>1. ~ IsControl(s)
    BY <1>1 DEF IsControl
  <2> QED BY <2>1 DEF WellFormed
<1>5. s = <<"ESC", "c">> <=> byte = "c"
  BY <1>1
<1>6. Obey(terminal, s) = IF byte = "c" THEN Defaults ELSE terminal
  BY <1>4, <1>5, Zenon DEF Obey
<1>7. CASE byte = "["
  <2>1. modes' = [ModesInit EXCEPT !.alternate_screen = modes.alternate_screen,
                                   !.cursor_visible   = modes.cursor_visible,
                                   !.parse_state      = "CSI"]
    BY <1>2, <1>7 DEF ProcessEscape
  <2>2. /\ modes'.alternate_screen = modes.alternate_screen
        /\ modes'.cursor_visible = modes.cursor_visible /\ modes'.parse_state = "CSI"
        /\ modes'.private_sequence = FALSE /\ modes'.parameter_count = 0
        /\ modes'.parameters = [i \in 1..MaxParameters |-> 0]
    BY <2>1 DEF ModesInit
  <2>3. modes' \in Tracked
    BY <2>1 DEF ModesInit, Tracked, TrackerInv
  <2>4. sequence' = s /\ terminal' = terminal /\ plain' = plain
    BY <1>2, <1>3, <1>7
  <2>5. SubSeq(s, 3, Len(s)) = <<>>
    BY <1>1, SubSeqEmpty
  <2>6. Follows(modes', <<>>)
    <3>1. Len(<<>>) + 1 = 1 /\ 1..Len(<<>>) = {}
      OBVIOUS
    <3>2. \A k \in 1..MaxParameters : modes'.parameters[k] = Number(<<>>, k)
      BY <2>2, NothingToRead
    <3>3. modes'.parameter_count = SemicolonsBefore(<<>>, Len(<<>>) + 1)
      BY <2>2, <3>1, NothingToRead
    <3> QED BY <2>2, <3>1, <3>2, <3>3 DEF Follows
  <2>7. ModesFollowed'
    BY <2>2, <2>4 DEF TrackerInv, ModesFollowed
  <2>8. Len(sequence') >= 2 /\ sequence'[2] = "[" /\ sequence' \in Seq(Bytes)
    BY <1>1, <1>7, <2>4
  <2>9. Follows(modes', SubSeq(sequence', 3, Len(sequence')))
    BY <2>4, <2>5, <2>6
  <2>10. terminal' \in Screens /\ plain' \in BOOLEAN
    BY <2>4 DEF TrackerInv
  <2>11. modes'.parse_state # "TEXT" /\ modes'.parse_state # "ESCAPE"
    BY <2>2
  <2> QED BY <2>3, <2>7, <2>8, <2>9, <2>10, <2>11, Zenon DEF TrackerInv
<1>8. CASE byte = "c"
  <2>1. modes' = [modes EXCEPT !.alternate_screen = FALSE, !.cursor_visible = TRUE,
                               !.parse_state = "TEXT"]
    BY <1>2, <1>8 DEF ProcessEscape
  <2>2. /\ modes' \in Tracked /\ modes'.parse_state = "TEXT"
        /\ modes'.alternate_screen = FALSE /\ modes'.cursor_visible = TRUE
    BY <2>1 DEF TrackerInv, Tracked
  <2>3. sequence' = <<>> /\ terminal' = Defaults /\ plain' = plain
    BY <1>2, <1>3, <1>4, <1>6, <1>8 DEF TrackerInv
  <2>4. /\ Defaults \in Screens /\ Defaults.alternate_screen = FALSE
        /\ Defaults.cursor_visible = TRUE
    BY DEF Defaults, Screens
  <2>5. ModesFollowed'
    BY <2>2, <2>3, <2>4 DEF ModesFollowed
  <2>6. plain' \in BOOLEAN /\ terminal' \in Screens /\ sequence' \in Seq(Bytes)
    BY <2>3, <2>4 DEF TrackerInv
  <2> QED BY <2>2, <2>3, <2>5, <2>6, Zenon DEF TrackerInv
<1>9. CASE byte \notin {"[", "c"}
  <2>1. modes' = [modes EXCEPT !.parse_state = "TEXT"]
    BY <1>2, <1>9 DEF ProcessEscape
  <2>2. /\ modes' \in Tracked /\ modes'.parse_state = "TEXT"
        /\ modes'.alternate_screen = modes.alternate_screen
        /\ modes'.cursor_visible = modes.cursor_visible
    BY <2>1 DEF TrackerInv, Tracked
  <2>3. sequence' = <<>> /\ terminal' = terminal /\ plain' = plain
    BY <1>2, <1>3, <1>4, <1>6, <1>9 DEF TrackerInv
  <2> QED BY <2>2, <2>3 DEF TrackerInv, ModesFollowed
<1> QED BY <1>7, <1>8, <1>9

LEMMA SequenceByte ==
  ASSUME TrackerInv, NEW byte \in Bytes \ {"ESC"}, Write(byte), modes.parse_state = "CSI"
  PROVE  TrackerInv'
<1> DEFINE s == Append(sequence, byte)
           n == Len(sequence)
           b == SubSeq(sequence, 3, n)
<1>1. /\ sequence \in Seq(Bytes) /\ n \in Nat /\ n >= 2 /\ sequence[2] = "["
      /\ Follows(modes, b) /\ modes \in Tracked /\ terminal \in Screens
      /\ plain \in BOOLEAN /\ byte \in Bytes
  BY LenProperties DEF TrackerInv
<1>2. /\ s \in Seq(Bytes) /\ Len(s) = n + 1 /\ s[n + 1] = byte
      /\ \A i \in 1..n : s[i] = sequence[i]
  BY <1>1, AppendProperties
<1>3. /\ modes' = ProcessCsi(modes, byte)
      /\ Complete(s) => /\ sequence' = <<>> /\ terminal' = Obey(terminal, s)
                        /\ plain' = (plain /\ WellFormed(s))
      /\ ~ Complete(s) => sequence' = s /\ terminal' = terminal /\ plain' = plain
  <2>1. sequence # <<>>
    BY <1>1
  <2>2. ProcessByte(modes, byte) = ProcessCsi(modes, byte)
    BY DEF ProcessByte
  <2> QED BY <2>1, <2>2, Written
<1> HIDE DEF s
<1>4. Complete(s) <=> byte \in Finals
  <2>1. Len(s) > 2 /\ s[Len(s)] = byte
    BY <1>1, <1>2
  <2>2. Len(s) # 2
    BY <1>1, <1>2
  <2> QED BY <2>1, <2>2 DEF Complete, Last
<1>5. CASE byte \in Finals
  <2> DEFINE f == FinishCsi(modes, byte)
             o == Obey(terminal, s)
  <2>1. /\ f \in Tracked /\ o \in Screens /\ WellFormed(s) \in BOOLEAN
        /\ WellFormed(s) /\ Agree(modes, terminal) => Agree(f, o)
    <3>1. Follows(modes, SubSeq(sequence, 3, Len(sequence)))
      BY <1>1
    <3> HIDE DEF b
    <3> QED BY <1>1, <1>5, <3>1, FinishedAlike DEF s
  <2>2. modes' = [f EXCEPT !.parse_state = "TEXT"]
    <3>1. byte \notin {"?", ";"} /\ byte \notin Digits
      BY <1>5, DigitsAre DEF Finals
    <3> QED BY <1>3, <1>5, <3>1 DEF ProcessCsi
  <2>3. sequence' = <<>> /\ terminal' = o /\ plain' = (plain /\ WellFormed(s))
    BY <1>3, <1>4, <1>5
  <2> HIDE DEF f, o
  <2>4. /\ modes' \in Tracked /\ modes'.parse_state = "TEXT"
        /\ modes'.alternate_screen = f.alternate_screen
        /\ modes'.cursor_visible = f.cursor_visible
    BY <2>1, <2>2 DEF Tracked
  <2>5. ModesFollowed'
    <3>1. plain => Agree(modes, terminal)
      BY DEF TrackerInv, ModesFollowed, Agree
    <3> QED BY <1>1, <2>1, <2>3, <2>4, <3>1 DEF ModesFollowed, Agree
  <2> QED BY <1>1, <2>1, <2>3, <2>4, <2>5 DEF TrackerInv
<1>6. CASE byte \notin Finals
  <2> DEFINE c == SubSeq(s, 3, n + 1)
  <2>1. b \in Seq(Bytes) /\ Len(b) = n - 2 /\ \A i \in 1..(n - 2) : b[i] = sequence[i + 2]
    <3>1. 2 <= n /\ n <= Len(sequence)
      BY <1>1
    <3> HIDE DEF n
    <3> QED BY <1>1, <3>1, AfterTwo
  <2>2. /\ c \in Seq(Bytes) /\ Len(c) = n - 1 /\ \A i \in 1..(n - 1) : c[i] = s[i + 2]
    <3> HIDE DEF n
    <3> DEFINE k == n + 1
    <3>1. k \in Nat /\ 2 <= k /\ k <= Len(s) /\ k - 2 = n - 1
      BY <1>1, <1>2
    <3> HIDE DEF k
    <3>2. /\ SubSeq(s, 3, k) \in Seq(Bytes) /\ Len(SubSeq(s, 3, k)) = k - 2
          /\ \A i \in 1..(k - 2) : SubSeq(s, 3, k)[i] = s[i + 2]
      BY <1>2, <3>1, AfterTwo
    <3>3. c = SubSeq(s, 3, k)
      BY DEF k
    <3> HIDE DEF c
    <3> QED BY <3>1, <3>2, <3>3, Zenon
  <2> HIDE DEF b, c, n
  <2>3. /\ Append(b, byte) \in Seq(Bytes) /\ Len(Append(b, byte)) = n - 1
        /\ Append(b, byte)[n - 1] = byte /\ \A i \in 1..(n - 2) : Append(b, byte)[i] = b[i]
    <3>1. n - 2 + 1 = n - 1
      BY <1>1
    <3> QED BY <1>1, <2>1, <3>1, AppendProperties
  <2>4. \A i \in 1..(n - 1) : Append(b, byte)[i] = c[i]
    <3> TAKE i \in 1..(n - 1)
    <3>1. CASE i = n - 1
      <4>1. i + 2 = n + 1
        BY <1>1, <3>1
      <4> QED BY <1>2, <2>2, <2>3, <3>1, <4>1
    <3>2. CASE i # n - 1
      <4>1. i \in 1..(n - 2) /\ i + 2 \in 1..n
        BY <1>1, <3>2
      <4> QED BY <1>2, <2>1, <2>2, <2>3, <4>1
    <3> QED BY <3>1, <3>2
  <2>5. c = Append(b, byte)
    <3> DEFINE d == Append(b, byte)
    <3>1. d \in Seq(Bytes) /\ Len(d) = Len(c) /\ \A i \in 1..Len(d) : d[i] = c[i]
      BY <2>2, <2>3, <2>4
    <3> HIDE DEF d
    <3>2. d = c
      BY <2>2, <3>1, SeqEqual
    <3> QED BY <3>2 DEF d
  <2>6. /\ modes' \in Tracked /\ modes'.parse_state = "CSI"
        /\ modes'.alternate_screen = modes.alternate_screen
        /\ modes'.cursor_visible = modes.cursor_visible
        /\ Follows(modes', Append(b, byte))
    BY <1>1, <1>3, <1>6, <2>1, FollowsByte DEF b
  <2>7. sequence' = s /\ terminal' = terminal /\ plain' = plain
    BY <1>3, <1>4, <1>6
  <2>8. Len(sequence') >= 2 /\ sequence'[2] = "[" /\ sequence' \in Seq(Bytes)
    BY <1>1, <1>2, <2>7
  <2>9. Follows(modes', SubSeq(sequence', 3, Len(sequence')))
    BY <1>2, <2>5, <2>6, <2>7 DEF c
  <2>10. ModesFollowed'
    BY <2>6, <2>7 DEF ModesFollowed, TrackerInv
  <2> QED BY <1>1, <2>6, <2>7, <2>8, <2>9, <2>10 DEF TrackerInv
<1> QED BY <1>5, <1>6

(* ModesFollowed, of terminal_modes.c: whatever the output holds and       *)
(* wherever the reads of it end, strange believes of the two modes what is *)
(* true of the terminal, for every set of modes and limits on parameters.  *)
THEOREM ModesAreFollowed == TrackerSpec => []ModesFollowed
<1>1. TrackerInit => TrackerInv
  BY TrackerStarts
<1>2. TrackerInv /\ [TrackerNext]_trackerVars => TrackerInv'
  <2> SUFFICES ASSUME TrackerInv, [TrackerNext]_trackerVars PROVE TrackerInv'
    OBVIOUS
  <2>1. CASE UNCHANGED trackerVars
    BY <2>1, TrackerStutters
  <2>2. CASE TrackerNext
    <3>1. PICK byte \in Bytes : Write(byte)
      BY <2>2 DEF TrackerNext
    <3>2. modes.parse_state \in {"TEXT", "ESCAPE", "CSI"}
      BY DEF TrackerInv, Tracked
    <3>3. CASE byte = "ESC"
      BY <3>1, <3>3, EscapeByte
    <3>4. CASE byte # "ESC"
      BY <3>1, <3>2, <3>4, TextByte, EscapedByte, SequenceByte
    <3> QED BY <3>3, <3>4
  <2> QED BY <2>1, <2>2
<1>3. TrackerInv => ModesFollowed
  BY DEF TrackerInv
<1> QED BY <1>1, <1>2, <1>3, PTL DEF TrackerSpec
=============================================================================
