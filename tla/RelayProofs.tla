----------------------------- MODULE RelayProofs -----------------------------
(***************************************************************************)
(* For every value of the constants Runtime implements Relay: each step is *)
(* a step of Relay's, or one that Relay does not see.                      *)
(***************************************************************************)
EXTENDS RuntimeRelay, RuntimeProofs

(* What is on its way, in the two directions.                              *)
Keyed  == ptyIn \o pending \o buffer \o tty
Unseen == view.held \o dropped \o output
Rest   == dropped \o output

(* Sequences, cut and put together.                                        *)
LEMMA KeysAssociate ==
  \A s, t, u \in Seq(Keys) : (s \o t) \o u = s \o (t \o u)
BY ConcatAssociative

LEMMA Cut ==
  ASSUME NEW S, NEW a \in Seq(S), NEW b \in Seq(S)
  PROVE  /\ SubSeq(a \o b, 1, Len(a)) = a
         /\ SubSeq(a \o b, Len(a) + 1, Len(a \o b)) = b
<1>1. /\ a \o b \in Seq(S) /\ Len(a \o b) = Len(a) + Len(b)
      /\ Len(a) \in Nat /\ Len(b) \in Nat
      /\ \A i \in 1..(Len(a) + Len(b)) :
           (a \o b)[i] = IF i <= Len(a) THEN a[i] ELSE b[i - Len(a)]
  BY ConcatProperties, LenProperties
<1>2. \A i \in 1..(Len(a) + Len(b)) : (a \o b)[i] \in S
  BY <1>1, ElementOfSeq
<1>3. SubSeq(a \o b, 1, Len(a)) = a
  <2> DEFINE s == SubSeq(a \o b, 1, Len(a))
  <2>1. s \in Seq(S) /\ Len(s) = Len(a) /\ \A i \in 1..Len(a) : s[i] = (a \o b)[i]
    BY <1>1, <1>2, SubSeqProperties
  <2> HIDE DEF s
  <2>2. \A i \in 1..Len(s) : s[i] = a[i]
    BY <1>1, <2>1
  <2>3. s = a
    BY <2>1, <2>2, SeqEqual
  <2> QED BY <2>3 DEF s
<1>4. SubSeq(a \o b, Len(a) + 1, Len(a \o b)) = b
  <2>1. Len(a) \in 0..Len(a \o b)
    BY <1>1
  <2>2. /\ Drop(a \o b, Len(a)) \in Seq(S)
        /\ Take(a \o b, Len(a)) \o Drop(a \o b, Len(a)) = a \o b
    BY <1>1, <2>1, TakeDrop
  <2>3. a \o Drop(a \o b, Len(a)) = a \o b
    BY <1>3, <2>2 DEF Take
  <2>4. Drop(a \o b, Len(a)) = b
    BY <2>2, <2>3, ConcatSimplifications
  <2> QED BY <2>4 DEF Drop
<1> QED BY <1>3, <1>4

(* a, b and c as parts of one sequence.                                    *)
LEMMA CutTwice ==
  ASSUME NEW S, NEW a \in Seq(S), NEW b \in Seq(S), NEW c \in Seq(S),
         NEW f, f = (a \o b) \o c
  PROVE  /\ Len(a) + Len(b) \in 0..Len(f) /\ Len(a) \in 0..(Len(a) + Len(b))
         /\ SubSeq(f, 1, Len(a)) = a
         /\ SubSeq(f, Len(a) + Len(b) + 1, Len(f)) = c
<1>1. /\ a \o b \in Seq(S) /\ b \o c \in Seq(S)
      /\ Len(a \o b) = Len(a) + Len(b)
      /\ Len((a \o b) \o c) = Len(a) + Len(b) + Len(c)
      /\ Len(a) \in Nat /\ Len(b) \in Nat /\ Len(c) \in Nat
  BY ConcatProperties, LenProperties
<1>2. (a \o b) \o c = a \o (b \o c)
  BY ConcatAssociative
<1>3. SubSeq((a \o b) \o c, 1, Len(a)) = a
  BY <1>1, <1>2, Cut
<1>4. SubSeq((a \o b) \o c, Len(a \o b) + 1, Len((a \o b) \o c)) = c
  BY <1>1, Cut
<1> QED BY <1>1, <1>3, <1>4

-----------------------------------------------------------------------------
(* Relay's steps, in terms of Runtime's variables.                         *)

(* Nothing Relay speaks of changes.                                        *)
LEMMA Unnoticed ==
  ASSUME view'.visible = view.visible, view'.shown = view.shown,
         Unseen' = Unseen, Keyed' = Keyed, raw' = raw, faulted' = faulted,
         received' = received
  PROVE  [R!Next]_(R!vars)
BY DEF Unseen, Keyed, R!vars, R!mode, R!input, R!output

(* Output a is shown and b is lost, c is still to come.                    *)
LEMMA Shown ==
  ASSUME NEW a \in Seq(Chunks), NEW b \in Seq(Chunks), NEW c \in Seq(Chunks),
         Unseen = (a \o b) \o c, Unseen' = c, view'.shown = view.shown \o a,
         ~ view'.visible, faulted => faulted', b = <<>> \/ faulted'
  PROVE  R!Show
<1>1. /\ Len(a) + Len(b) \in 0..Len(Unseen) /\ Len(a) \in 0..(Len(a) + Len(b))
      /\ SubSeq(Unseen, 1, Len(a)) = a
      /\ SubSeq(Unseen, Len(a) + Len(b) + 1, Len(Unseen)) = c
  BY CutTwice
<1>2. Len(a) < Len(a) + Len(b) => faulted'
  <2>1. CASE b = <<>>
    <3>1. Len(b) = 0 /\ Len(a) \in Nat
      BY <2>1, LenProperties
    <3> QED BY <3>1
  <2> QED BY <2>1
<1> QED BY <1>1, <1>2 DEF R!Show, Unseen

LEMMA UnseenParts ==
  ASSUME TypeOK
  PROVE  /\ view.held \in Seq(Chunks) /\ view.shown \in Seq(Chunks)
         /\ dropped \in Seq(Chunks) /\ output \in Seq(Chunks)
         /\ Rest \in Seq(Chunks) /\ Unseen \in Seq(Chunks)
         /\ Unseen = view.held \o Rest
<1>1. /\ view.held \in Seq(Chunks) /\ view.shown \in Seq(Chunks)
      /\ dropped \in Seq(Chunks) /\ output \in Seq(Chunks)
  BY DEF TypeOK, View
<1>2. Rest \in Seq(Chunks)
  BY <1>1, ConcatProperties DEF Rest
<1>3. (view.held \o dropped) \o output = view.held \o (dropped \o output)
  BY ONLY <1>1, Associativity
<1>4. Unseen = view.held \o Rest
  BY <1>3 DEF Unseen, Rest
<1>5. view.held \o Rest \in Seq(Chunks)
  BY <1>1, <1>2, ConcatProperties
<1> QED BY <1>1, <1>2, <1>4, <1>5

(* As long as the loop runs, nothing was dropped.                          *)
LEMMA NothingDropped ==
  ASSUME TypeOK, dropped = <<>>
  PROVE  Unseen = view.held \o output /\ Rest = output
<1>1. Rest = output
  BY UnseenParts, ConcatEmptySeq DEF Rest
<1> QED BY <1>1, UnseenParts

LEMMA NothingIsShow ==
  ASSUME TypeOK, ~ view'.visible, view'.shown = view.shown, view'.held = view.held,
         UNCHANGED <<dropped, output>>, faulted => faulted'
  PROVE  R!Show
<1>1. Unseen \in Seq(Chunks) /\ view.shown \in Seq(Chunks) /\ <<>> \in Seq(Chunks)
  BY EmptySeq, UnseenParts
<1>2. /\ (<<>> \o <<>>) \o Unseen = Unseen /\ view.shown \o <<>> = view.shown
      /\ Unseen' = Unseen
  BY <1>1, ConcatEmptySeq DEF Unseen
<1> QED BY <1>1, <1>2, Shown

(* However the screensaver is left, what was held is shown, or lost as     *)
(* something failed.                                                       *)
LEMMA ExitShows ==
  ASSUME NEW v \in View, NEW x \in ExitOutcomes(v)
  PROVE  /\ ~ x.view.visible /\ x.view.held = <<>>
         /\ \/ x.view.shown = v.shown \o v.held
            \/ x.view.shown = v.shown /\ ~ x.ok
<1>0. ~ x.view.visible /\ x.view.held = <<>>
  BY OutcomesType
<1>1. CASE x = [view |-> ExitScreensaver(v), ok |-> TRUE]
  BY <1>0, <1>1, ExitType
<1>2. CASE x = [view |-> [LeaveScreensaver(v) EXCEPT !.held = <<>>],
                ok |-> FALSE]
  BY <1>0, <1>2, LeaveType DEF View
<1>3. CASE x = [view |-> [ReleaseHeldOutput(LeaveScreensaver(v))
                            EXCEPT !.drewOver = FALSE],
                ok |-> FALSE]
  <2>1. /\ LeaveScreensaver(v) \in View
        /\ LeaveScreensaver(v).held = v.held /\ LeaveScreensaver(v).shown = v.shown
    BY LeaveType
  <2>2. /\ ReleaseHeldOutput(LeaveScreensaver(v)) \in View
        /\ ReleaseHeldOutput(LeaveScreensaver(v)).shown = v.shown \o v.held
    BY <2>1, ReleaseType
  <2> QED BY <1>0, <1>3, <2>2 DEF View
<1> QED BY <1>1, <1>2, <1>3 DEF ExitOutcomes

LEMMA ExitIsShow ==
  ASSUME TypeOK, NEW v \in View, v.shown = view.shown, v.held = view.held,
         NEW x \in ExitOutcomes(v),
         view'.visible = x.view.visible, view'.shown = x.view.shown,
         view'.held = x.view.held, UNCHANGED <<dropped, output>>,
         faulted => faulted', x.ok \/ faulted'
  PROVE  R!Show
<1>0. view.held \in Seq(Chunks) /\ Rest \in Seq(Chunks) /\ view.shown \in Seq(Chunks)
      /\ <<>> \in Seq(Chunks)
  BY EmptySeq, UnseenParts
<1>1. /\ (view.held \o <<>>) \o Rest = Unseen /\ (<<>> \o view.held) \o Rest = Unseen
      /\ view.shown \o <<>> = view.shown
  BY <1>0, UnseenParts, ConcatEmptySeq
<1>2. /\ ~ view'.visible
      /\ \/ view'.shown = view.shown \o view.held
         \/ view'.shown = view.shown /\ ~ x.ok
  BY ExitShows
<1>u. Unseen' = Rest
  <2>1. Unseen' = (<<>> \o dropped) \o output
    BY ExitShows DEF Unseen
  <2>2. <<>> \o dropped = dropped
    BY UnseenParts, ConcatEmptySeq
  <2> QED BY <2>1, <2>2 DEF Rest
<1>3. CASE view'.shown = view.shown \o view.held
  BY <1>0, <1>1, <1>2, <1>u, <1>3, Shown
<1>4. CASE view'.shown = view.shown /\ ~ x.ok
  BY <1>0, <1>1, <1>2, <1>u, <1>4, Shown
<1> QED BY <1>2, <1>3, <1>4

(* Of p, q and r, q is taken out.                                          *)
LEMMA TakenOut ==
  ASSUME NEW p \in Seq(Keys), NEW q \in Seq(Keys), NEW r \in Seq(Keys),
         Keyed = (p \o q) \o r, Keyed' = p \o r
  PROVE  \E j \in 0..Len(Keyed) : \E i \in 0..j :
           Keyed' = SubSeq(Keyed, 1, i) \o SubSeq(Keyed, j + 1, Len(Keyed))
<1>1. /\ Len(p) + Len(q) \in 0..Len(Keyed) /\ Len(p) \in 0..(Len(p) + Len(q))
      /\ SubSeq(Keyed, 1, Len(p)) = p
      /\ SubSeq(Keyed, Len(p) + Len(q) + 1, Len(Keyed)) = r
  BY CutTwice
<1> QED BY <1>1

-----------------------------------------------------------------------------
(* What Runtime's invariant lacks: keys stay in the buffer of a read only  *)
(* while they are dealt with, or if a failing call ended that, raw mode    *)
(* lasts until cleanup, and only a failing clock drops output.             *)
RelayInv ==
  /\ pc \notin {"slice", "cleanup"} \cup Ending => buffer = <<>>
  /\ pc \notin Ending => raw
  /\ pc \notin {"cleanup"} \cup Ending => dropped = <<>>

LEMMA RelayInvInit == Init => RelayInv
BY DEF Init, RelayInv, Ending

LEMMA RelayInvStep ==
  ASSUME IInv, RelayInv, [Next]_vars
  PROVE  RelayInv'
<1> USE DEF RelayInv, Ending, inputVars, historyVars, Unaffected, GoTo, Abort
<1>0. TypeOK /\ RoomInv /\ Len(pending) <= InputCap
  BY DEF IInv, RoomInv
<1>1. CASE Strange
  <2>1. CASE Cleanup \/ HangUp \/ Reap
    BY <2>1 DEF Cleanup, HangUp, Reap
  <2>2. CASE ReadInput
    BY <2>2 DEF ReadInput
  <2>3. CASE Select
    BY <2>3, FromType DEF Select
  <2>4. CASE FlushPendingInput
    <3>1. pc = "flush" /\ buffer' = buffer /\ raw' = raw /\ dropped' = dropped
      BY <2>4 DEF FlushPendingInput
    <3>2. pc' \in {"stdin", "output", "poll", "cleanup"}
      BY <2>4, FromType DEF FlushPendingInput, Flush
    <3> QED BY <3>1, <3>2
  <2>5. CASE ForwardInputSlice
    <3>1. pc = "slice" /\ raw' = raw /\ dropped' = dropped
      BY <2>5 DEF ForwardInputSlice
    <3>2. pc' = AfterSlice(buffer') \/ pc' = "cleanup"
      BY <1>0, <2>5, ForwardSliceEffect
    <3> QED BY <3>1, <3>2, FromType DEF AfterSlice
  <2>6. CASE DisableFromKey
    <3>1. pc = "slice" /\ raw' = raw /\ dropped' = dropped /\ pc' = AfterSlice(buffer')
      BY <2>6 DEF DisableFromKey
    <3> QED BY <3>1, FromType DEF AfterSlice
  <2>7. CASE ClockFailsOnInput
    BY <2>7 DEF ClockFailsOnInput
  <2>8. CASE ClockFailsOnOutput
    BY <2>8 DEF ClockFailsOnOutput
  <2>9. CASE pc' \notin Ending \cup {"flush", "stdin", "slice"} /\ raw' = raw
               /\ ~ (\/ ReadInput \/ ForwardInputSlice \/ DisableFromKey
                     \/ ClockFailsOnInput \/ ClockFailsOnOutput)
    <3>1. /\ pc \notin {"slice", "cleanup"} \cup Ending
          /\ buffer' = buffer /\ dropped' = dropped
      BY <1>1, <2>9, ZenonT(40) DEF Strange, SyncResize, CheckShutdown, HoldTimer, StartScreensaver,
         NextFrame, Select, SelectInterrupted, WaitFails, FlushPendingInput, WakeOnInput,
         EndOfInput, HoldOutput, OutputOverflow, ShowOutput, EndOfOutput,
         PollShellExit, Cleanup, HangUp, Reap
    <3> QED BY <2>9, <3>1
  <2> QED BY <1>0, <1>1, <2>1, <2>2, <2>3, <2>4, <2>5, <2>6, <2>7, <2>8, <2>9,
               ControlFlow
<1>2. CASE Environment
  BY <1>2 DEF Environment, Press, TerminalCloses, ShutdownSignal, ResizeSignal, Tick,
     ShellReads, ShellWrites, ShellCloses, ShellExits, JobStarts, JobEnds,
     strangeVars
<1>3. CASE UNCHANGED vars
  BY <1>3 DEF vars
<1> QED BY <1>1, <1>2, <1>3 DEF Next, Done

-----------------------------------------------------------------------------
(* What the calls the actions share are to Relay.                          *)

LEMMA ShowIsRelay ==
  ASSUME R!Show, Keyed' = Keyed, received' = received, raw, raw' = raw
  PROVE  [R!Next]_(R!vars)
BY DEF R!Next, R!ShowOutput, R!input, Keyed

LEMMA CheckedIsShow ==
  ASSUME TypeOK, NEW v \in View, v.shown = view.shown, v.held = view.held,
         NEW x \in ExitOutcomes(v), NEW w, w \in {x.view, Notice(x.view)}, NEW next,
         Checked(x, w, next), UNCHANGED <<dropped, output>>
  PROVE  R!Show
<1>1. x.view \in View /\ x.ok \in BOOLEAN /\ faulted \in BOOLEAN
  BY OutcomesType DEF TypeOK
<1>2. w.visible = x.view.visible /\ w.shown = x.view.shown /\ w.held = x.view.held
  BY <1>1 DEF Notice, View
<1> QED BY <1>1, <1>2, ExitIsShow DEF Checked

LEMMA DisableIsShow ==
  ASSUME TypeOK, NEW v \in View, v.shown = view.shown, v.held = view.held, NEW next,
         DisableFailedScreensaver(v, next), UNCHANGED <<dropped, output>>
  PROVE  R!Show
<1>1. PICK x \in ExitOutcomes(v) : Checked(x, Notice(x.view), next)
  BY DEF DisableFailedScreensaver
<1> QED BY <1>1, CheckedIsShow

LEMMA RenderIsRelay ==
  ASSUME TypeOK, NEW v \in View, v.visible = view.visible, v.shown = view.shown,
         v.held = view.held, NEW next, RenderFrame(v, next),
         UNCHANGED <<dropped, output>>, Keyed' = Keyed, received' = received, raw, raw' = raw
  PROVE  [R!Next]_(R!vars)
<1>1. CASE view' = v /\ faulted' = faulted
  BY <1>1, Unnoticed DEF Unseen
<1>2. CASE DisableFailedScreensaver(v, next)
  BY <1>2, DisableIsShow, ShowIsRelay
<1> QED BY <1>1, <1>2 DEF RenderFrame

(* An event that may uncover the screen.                                   *)
LEMMA EventIsShow ==
  ASSUME TypeOK, NEW from, NEW to, NEW x \in EventOutcomes(view, from, to), Ignored(x),
         UNCHANGED <<dropped, output>>
  PROVE  \/ ~ Exits(from, to) /\ view' = view /\ faulted' = faulted
         \/ R!Show
<1>0. view \in View /\ faulted \in BOOLEAN
  BY DEF TypeOK
<1>1. CASE Exits(from, to)
  BY <1>0, <1>1, EventOutcomesType, ExitIsShow DEF Ignored
<1>2. CASE ~ Exits(from, to)
  BY <1>0, <1>2, EventOutcomesType DEF Ignored
<1> QED BY <1>1, <1>2

LEMMA EventIsRelay ==
  ASSUME TypeOK, NEW from, NEW to, NEW x \in EventOutcomes(view, from, to), Ignored(x),
         UNCHANGED <<dropped, output>>, Keyed' = Keyed, received' = received, raw, raw' = raw
  PROVE  [R!Next]_(R!vars)
<1>1. CASE view' = view /\ faulted' = faulted
  BY <1>1, Unnoticed DEF Unseen
<1> QED BY <1>1, EventIsShow, ShowIsRelay

(* flush_pending_input moves keys on and neither drops nor reorders any.   *)
LEMMA FlushKeeps ==
  ASSUME TypeOK, NEW keys \in Seq(Keys), NEW next, Flush(keys, next)
  PROVE  ptyIn' \o pending' = ptyIn \o keys
<1>1. CASE ~ OtherSideOpen
  BY <1>1 DEF Flush
<1>2. CASE OtherSideOpen
  <2> DEFINE n == Least(Len(keys), PtyCap - Len(ptyIn))
  <2>1. ptyIn' = ptyIn \o Take(keys, n) /\ pending' = Drop(keys, n)
    BY <1>2 DEF Flush
  <2>2. ptyIn \in Seq(Keys) /\ Len(ptyIn) \in Nat /\ Len(keys) \in Nat
    BY LenProperties DEF TypeOK
  <2>3. n \in 0..Len(keys)
    BY <2>2, RuntimeAssumption DEF TypeOK, Least
  <2> HIDE DEF n
  <2>4. /\ Take(keys, n) \in Seq(Keys) /\ Drop(keys, n) \in Seq(Keys)
        /\ Take(keys, n) \o Drop(keys, n) = keys
    BY <2>3, TakeDrop
  <2>5. (ptyIn \o Take(keys, n)) \o Drop(keys, n)
          = ptyIn \o (Take(keys, n) \o Drop(keys, n))
    BY <2>2, <2>4, KeysAssociate, Zenon
  <2> QED BY <2>1, <2>4, <2>5
<1> QED BY <1>1, <1>2

-----------------------------------------------------------------------------
(* The steps that move keys.                                               *)

LEMMA KeyTypes ==
  ASSUME TypeOK
  PROVE  /\ ptyIn \in Seq(Keys) /\ pending \in Seq(Keys) /\ buffer \in Seq(Keys)
         /\ tty \in Seq(Keys) /\ ptyIn \o pending \in Seq(Keys)
         /\ (ptyIn \o pending) \o buffer \in Seq(Keys)
BY ConcatProperties DEF TypeOK

LEMMA ReadIsRelay ==
  ASSUME TypeOK, RelayInv, ReadInput \/ ClockFailsOnInput
  PROVE  [R!Next]_(R!vars)
<1> DEFINE n == Least(room, Len(tty))
<1>1. /\ pc = "stdin" /\ buffer' = Take(tty, n) /\ tty' = Drop(tty, n)
      /\ UNCHANGED <<view, faulted, dropped, output, raw, received, ptyIn, pending>>
  BY DEF ReadInput, ClockFailsOnInput, historyVars
<1>t. /\ ptyIn \in Seq(Keys) /\ pending \in Seq(Keys) /\ buffer \in Seq(Keys)
      /\ tty \in Seq(Keys) /\ ptyIn \o pending \in Seq(Keys)
  BY KeyTypes
<1>2. n \in 0..Len(tty)
  BY LenProperties, RuntimeAssumption DEF TypeOK, Least
<1> HIDE DEF n
<1>3. /\ Take(tty, n) \in Seq(Keys) /\ Drop(tty, n) \in Seq(Keys)
      /\ Take(tty, n) \o Drop(tty, n) = tty
  BY <1>2, KeyTypes, TakeDrop
<1>4. buffer = <<>>
  BY <1>1 DEF RelayInv, Ending
<1>5. ((ptyIn \o pending) \o buffer) \o tty = (ptyIn \o pending) \o tty
  BY <1>4, KeyTypes, ConcatEmptySeq
<1>6. ((ptyIn \o pending) \o Take(tty, n)) \o Drop(tty, n) = (ptyIn \o pending) \o tty
  <2>1. Take(tty, n) \in Seq(Keys) /\ Drop(tty, n) \in Seq(Keys)
    BY <1>3
  <2>2. ((ptyIn \o pending) \o Take(tty, n)) \o Drop(tty, n)
          = (ptyIn \o pending) \o (Take(tty, n) \o Drop(tty, n))
    BY ONLY <1>t, <2>1, KeysAssociate
  <2> QED BY <1>3, <2>2
<1>7. Keyed' = Keyed
  BY <1>1, <1>5, <1>6 DEF Keyed
<1> QED BY <1>1, <1>7, Unnoticed DEF Unseen

LEMMA FlushIsRelay ==
  ASSUME TypeOK, FlushPendingInput
  PROVE  [R!Next]_(R!vars)
<1>1. /\ Flush(pending, FromStdin(ready))
      /\ UNCHANGED <<view, faulted, dropped, output, raw, received, buffer, tty>>
  BY DEF FlushPendingInput, historyVars
<1>2. ptyIn' \o pending' = ptyIn \o pending
  BY <1>1, KeyTypes, FlushKeeps
<1> QED BY <1>1, <1>2, Unnoticed DEF Unseen, Keyed

LEMMA SliceIsRelay ==
  ASSUME TypeOK, RoomInv, ForwardInputSlice
  PROVE  [R!Next]_(R!vars)
<1>0. /\ pc = "slice"
      /\ UNCHANGED <<view, faulted, dropped, output, raw, received, tty>>
  BY DEF ForwardInputSlice, historyVars
<1>t. /\ ptyIn \in Seq(Keys) /\ pending \in Seq(Keys) /\ buffer \in Seq(Keys)
      /\ tty \in Seq(Keys) /\ ptyIn \o pending \in Seq(Keys)
  BY KeyTypes
<1>1. PICK n \in 1..Len(buffer) :
        /\ buffer' = Drop(buffer, n)
        /\ Flush(Take(pending \o Take(buffer, n),
                      Least(InputCap, Len(pending \o Take(buffer, n)))),
                 AfterSlice(buffer'))
  BY DEF ForwardInputSlice
<1> DEFINE slice == Take(buffer, n)
           joined == pending \o slice
<1>2. n \in 0..Len(buffer) /\ Len(pending) \in Nat /\ Len(buffer) \in Nat
  BY <1>1, KeyTypes, LenProperties
<1>3. /\ slice \in Seq(Keys) /\ Len(slice) = n /\ Drop(buffer, n) \in Seq(Keys)
      /\ slice \o Drop(buffer, n) = buffer
  BY <1>2, KeyTypes, TakeDrop
<1>4. joined \in Seq(Keys) /\ Len(joined) = Len(pending) + n
  BY <1>3, KeyTypes, ConcatProperties
<1>5. Len(joined) <= InputCap
  BY <1>0, <1>2, <1>4, RuntimeAssumption DEF RoomInv
<1>6. Least(InputCap, Len(joined)) = Len(joined)
  BY <1>2, <1>4, <1>5, RuntimeAssumption DEF Least
<1> HIDE DEF slice
<1>7. Take(joined, Len(joined)) = joined
  <2> HIDE DEF joined
  <2> QED BY <1>4, SubSeqFull DEF Take
<1>8. Flush(joined, AfterSlice(buffer'))
  BY <1>1, <1>6, <1>7 DEF slice
<1>9. ptyIn' \o pending' = ptyIn \o (pending \o slice)
  BY <1>4, <1>8, FlushKeeps
<1>s. slice \in Seq(Keys) /\ Drop(buffer, n) \in Seq(Keys)
  BY <1>3
<1>10. ptyIn \o (pending \o slice) = (ptyIn \o pending) \o slice
  <2>1. ptyIn \in Seq(Keys) /\ pending \in Seq(Keys) /\ slice \in Seq(Keys)
    BY <1>s, <1>t
  <2> QED BY ONLY <2>1, KeysAssociate
<1>11. ((ptyIn \o pending) \o slice) \o Drop(buffer, n)
         = (ptyIn \o pending) \o buffer
  <2>1. ((ptyIn \o pending) \o slice) \o Drop(buffer, n)
         = (ptyIn \o pending) \o (slice \o Drop(buffer, n))
    <3>1. ptyIn \o pending \in Seq(Keys) /\ slice \in Seq(Keys) /\ Drop(buffer, n) \in Seq(Keys)
      BY <1>s, <1>t
    <3> QED BY ONLY <3>1, KeysAssociate
  <2> QED BY <1>3, <2>1
<1>12. Keyed' = Keyed
  BY <1>0, <1>1, <1>9, <1>10, <1>11 DEF Keyed
<1> QED BY <1>0, <1>12, Unnoticed DEF Unseen

(* The reserved key is taken out on its own.                               *)
LEMMA DisableIsRelay ==
  ASSUME TypeOK, RelayInv, DisableFromKey
  PROVE  [R!Next]_(R!vars)
<1> DEFINE k == Head(buffer)
           p == ptyIn \o pending
           r == Tail(buffer) \o tty
<1>t. /\ ptyIn \in Seq(Keys) /\ pending \in Seq(Keys) /\ buffer \in Seq(Keys)
      /\ tty \in Seq(Keys) /\ ptyIn \o pending \in Seq(Keys)
  BY KeyTypes
<1>1. /\ raw /\ buffer # <<>> /\ k \in DisableKeys /\ buffer' = Tail(buffer)
      /\ UNCHANGED <<faulted, dropped, output, raw, received, ptyIn, pending, tty>>
      /\ view' = view \/ view' = Notice(view)
  BY DEF DisableFromKey, RelayInv, Ending
<1>2. view'.visible = view.visible /\ view'.held = view.held /\ view'.shown = view.shown
  BY <1>1 DEF Notice, TypeOK, View
<1>3. /\ k \in Keys /\ <<k>> \in Seq(Keys) /\ Tail(buffer) \in Seq(Keys)
      /\ <<k>> \o Tail(buffer) = buffer
  BY <1>1, KeyTypes, HeadTailProperties
<1>4. p \in Seq(Keys) /\ r \in Seq(Keys) /\ p \o <<k>> \in Seq(Keys)
  BY <1>3, KeyTypes, ConcatProperties
<1>s. <<k>> \in Seq(Keys) /\ Tail(buffer) \in Seq(Keys)
  BY <1>3
<1> HIDE DEF k, p
<1>5. ((p \o <<k>>) \o Tail(buffer)) \o tty = (p \o <<k>>) \o r
  <2>1. p \o <<k>> \in Seq(Keys) /\ Tail(buffer) \in Seq(Keys) /\ tty \in Seq(Keys)
    BY <1>s, <1>t, <1>4
  <2> QED BY ONLY <2>1, KeysAssociate DEF r
<1>6. (p \o <<k>>) \o Tail(buffer) = p \o buffer
  <2>1. (p \o <<k>>) \o Tail(buffer) = p \o (<<k>> \o Tail(buffer))
    BY ONLY <1>s, <1>4, KeysAssociate
  <2> QED BY <1>3, <2>1
<1>7. Keyed = (p \o <<k>>) \o r
  BY <1>5, <1>6 DEF Keyed, p
<1>8. Keyed' = p \o r
  <2>1. (p \o Tail(buffer)) \o tty = p \o r
    <3>1. p \in Seq(Keys) /\ Tail(buffer) \in Seq(Keys) /\ tty \in Seq(Keys)
      BY <1>s, <1>t, <1>4
    <3> QED BY ONLY <3>1, KeysAssociate DEF r
  <2>2. (p \o Tail(buffer)) \o tty = Keyed'
    BY <1>1 DEF Keyed, p
  <2> QED BY <2>1, <2>2, Zenon
<1> HIDE DEF r
<1>9. Len(<<k>>) = 1 /\ Len(p) \in Nat
  BY <1>4, LenProperties
<1>10. /\ Len(p) + 1 \in 0..Len(Keyed)
       /\ SubSeq(Keyed, 1, Len(p)) = p
       /\ SubSeq(Keyed, Len(p) + 1 + 1, Len(Keyed)) = r
  BY <1>3, <1>4, <1>7, <1>9, CutTwice
<1>11. (p \o <<k>>) \o r = p \o (<<k>> \o r)
  BY <1>3, <1>4, KeysAssociate
<1>12. Keyed[Len(p) + 1] = k
  BY <1>3, <1>4, <1>7, <1>9, ConcatProperties
<1> DEFINE i == Len(p) + 1
<1>13. i \in 1..Len(Keyed) /\ i - 1 = Len(p) /\ i + 1 = Len(p) + 1 + 1
  BY <1>4, <1>7, <1>9, <1>10, LenProperties
<1>14. Keyed[i] = k
  BY <1>12
<1>15. Keyed' = SubSeq(Keyed, 1, i - 1) \o SubSeq(Keyed, i + 1, Len(Keyed))
  BY ONLY <1>8, <1>10, <1>13, Zenon
<1>16. k \in DisableKeys
  BY <1>1 DEF k
<1> HIDE DEF i
<1>17. R!Reserve
  BY <1>1, <1>2, <1>13, <1>14, <1>15, <1>16 DEF R!Reserve, R!mode, R!output, Keyed
<1> QED BY <1>17 DEF R!Next

(* What was read of the terminal goes into waking the screensaver.         *)
LEMMA WakeIsRelay ==
  ASSUME IInv, RelayInv, WakeOnInput
  PROVE  [R!Next]_(R!vars)
<1> DEFINE n == Least(room, Len(tty))
           p == (ptyIn \o pending) \o buffer
<1>1. /\ pc = "stdin" /\ state = "SCREENSAVER_ACTIVE" /\ tty' = Drop(tty, n)
      /\ UNCHANGED <<dropped, output, raw, received, ptyIn, pending, buffer>>
  BY DEF WakeOnInput
<1>2. TypeOK /\ view \in View /\ view.visible
  BY <1>1 DEF IInv, TypeOK, CoveredIffActive, Showing
<1>3. n \in 0..Len(tty)
  BY <1>2, LenProperties, RuntimeAssumption DEF TypeOK, Least
<1> HIDE DEF n
<1>4. /\ Take(tty, n) \in Seq(Keys) /\ Drop(tty, n) \in Seq(Keys)
      /\ Take(tty, n) \o Drop(tty, n) = tty
  BY <1>2, <1>3, KeyTypes, TakeDrop
<1>5. p \in Seq(Keys)
  BY <1>2, KeyTypes
<1>6. Keyed = p \o tty /\ Keyed' = p \o Drop(tty, n)
  BY <1>1 DEF Keyed
<1> HIDE DEF p
<1>7. (p \o Take(tty, n)) \o Drop(tty, n) = p \o (Take(tty, n) \o Drop(tty, n))
  <2>1. Take(tty, n) \in Seq(Keys) /\ Drop(tty, n) \in Seq(Keys)
    BY <1>4
  <2> QED BY ONLY <1>5, <2>1, KeysAssociate
<1>8. Keyed = (p \o Take(tty, n)) \o Drop(tty, n)
  BY <1>4, <1>6, <1>7
<1>9. \E j \in 0..Len(Keyed) : \E i \in 0..j :
        Keyed' = SubSeq(Keyed, 1, i) \o SubSeq(Keyed, j + 1, Len(Keyed))
  BY <1>4, <1>5, <1>6, <1>8, TakenOut
<1>10. PICK x \in ExitOutcomes(view) :
         \/ Checked(x, Notice(x.view), FromOutput(ready))
         \/ Checked(x, x.view, FromOutput(ready))
  BY DEF WakeOnInput
<1>11. R!Show
  BY <1>1, <1>2, <1>10, CheckedIsShow
<1>12. R!Wake
  BY <1>1, <1>2, <1>9, <1>11 DEF R!Wake, RelayInv, Ending, Keyed
<1> QED BY <1>12 DEF R!Next

(* The terminal is given back: keys still in it are discarded.             *)
LEMMA CleanupIsRelay ==
  ASSUME IInv, RelayInv, Cleanup
  PROVE  [R!Next]_(R!vars)
<1> DEFINE p == (ptyIn \o pending) \o buffer
<1>1. /\ pc = "cleanup" /\ raw' = FALSE /\ tty' = <<>>
      /\ UNCHANGED <<dropped, output, received, ptyIn, pending, buffer>>
  BY DEF Cleanup, historyVars
<1>2. raw
  BY <1>1 DEF RelayInv, Ending
<1>3. TypeOK /\ view \in View /\ p \in Seq(Keys) /\ tty \in Seq(Keys)
  BY KeyTypes DEF IInv, TypeOK
<1>4. Keyed = p \o tty /\ Keyed' = p
  BY <1>1, <1>3, ConcatEmptySeq DEF Keyed
<1> HIDE DEF p
<1>5. \E i \in 0..Len(Keyed) : Keyed' = SubSeq(Keyed, 1, i)
  <2>1. Len(p) \in 0..Len(Keyed)
    BY <1>3, <1>4, ConcatProperties, LenProperties
  <2>2. SubSeq(Keyed, 1, Len(p)) = p
    BY <1>3, <1>4, Cut
  <2> QED BY <1>4, <2>1, <2>2
<1>6. PICK x \in EventOutcomes(view, state, "SHUTTING_DOWN") : Ignored(x)
  BY DEF Cleanup
<1>7. R!Show
  <2>1. CASE R!Show
    BY <2>1
  <2>2. CASE /\ ~ Exits(state, "SHUTTING_DOWN")
             /\ view' = view /\ faulted' = faulted
    <3>1. ~ view'.visible
      BY <1>1, <2>2 DEF IInv, CoveredIffActive, Showing, Exits
    <3> QED BY <1>1, <1>3, <2>2, <3>1, NothingIsShow
  <2> QED BY <1>1, <1>3, <1>6, <2>1, <2>2, EventIsShow
<1>8. R!GiveBack
  BY <1>1, <1>2, <1>5, <1>7 DEF R!GiveBack, Keyed
<1> QED BY <1>8 DEF R!Next

(* The user types and the shell reads.                                     *)
LEMMA PressIsRelay ==
  ASSUME TypeOK, NEW k \in Keys, Press(k)
  PROVE  [R!Next]_(R!vars)
<1> DEFINE p == (ptyIn \o pending) \o buffer
<1>1. /\ tty' = Append(tty, k)
      /\ UNCHANGED <<view, faulted, dropped, output, raw, received, ptyIn, pending, buffer>>
  BY DEF Press, strangeVars
<1>2. p \in Seq(Keys) /\ tty \in Seq(Keys) /\ <<k>> \in Seq(Keys) /\ p \o tty \in Seq(Keys)
  BY KeyTypes, ConcatProperties
<1>3. Keyed = p \o tty /\ Keyed' = p \o Append(tty, k)
  BY <1>1 DEF Keyed
<1> HIDE DEF p
<1>4. Append(tty, k) = tty \o <<k>> /\ Append(p \o tty, k) = (p \o tty) \o <<k>>
  BY <1>2, AppendIsConcat
<1>5. (p \o tty) \o <<k>> = p \o (tty \o <<k>>)
  BY ONLY <1>2, KeysAssociate
<1>6. Keyed' = Append(Keyed, k)
  BY <1>3, <1>4, <1>5
<1>7. R!Type(k)
  BY <1>1, <1>6 DEF R!Type, R!mode, R!output, Keyed
<1> QED BY <1>7 DEF R!Next

LEMMA ReadsIsRelay ==
  ASSUME TypeOK, ShellReads
  PROVE  [R!Next]_(R!vars)
<1> DEFINE h == <<Head(ptyIn)>>
           t == Tail(ptyIn)
<1>1. /\ ptyIn # <<>> /\ ptyIn' = t /\ received' = Append(received, Head(ptyIn))
      /\ UNCHANGED <<view, faulted, dropped, output, raw, pending, buffer, tty>>
  BY DEF ShellReads, strangeVars
<1>2. /\ ptyIn \in Seq(Keys) /\ pending \in Seq(Keys) /\ buffer \in Seq(Keys)
      /\ tty \in Seq(Keys)
  BY KeyTypes
<1>3. h \in Seq(Keys) /\ t \in Seq(Keys) /\ h \o t = ptyIn
  BY <1>1, <1>2, HeadTailProperties
<1>4. Len(Keyed) > 0 /\ Keyed \in Seq(Keys) /\ Head(Keyed) = Head(ptyIn)
      /\ Tail(Keyed) = ((t \o pending) \o buffer) \o tty
  BY <1>1, <1>2, <1>3, ConcatProperties, HeadTailProperties DEF Keyed
<1>5. Keyed # <<>> /\ Keyed' = Tail(Keyed)
  <2>1. Keyed # <<>>
    BY <1>4, EmptySeq
  <2>2. Keyed' = ((t \o pending) \o buffer) \o tty
    BY <1>1 DEF Keyed
  <2> QED BY <1>4, <2>1, <2>2
<1>6. received' = Append(received, Head(Keyed))
  BY <1>1, <1>4
<1> HIDE DEF h, t
<1>7. R!Deliver
  BY <1>1, <1>5, <1>6 DEF R!Deliver, R!mode, R!output, Keyed
<1> QED BY <1>7 DEF R!Next

-----------------------------------------------------------------------------
(* The steps that move output.                                             *)

LEMMA OutputTypes ==
  ASSUME TypeOK
  PROVE  view \in View /\ output \in Seq(Chunks) /\ view.held \in Seq(Chunks)
           /\ view.shown \in Seq(Chunks)
BY DEF TypeOK, View

LEMMA HoldIsRelay ==
  ASSUME TypeOK, RelayInv, HoldOutput
  PROVE  [R!Next]_(R!vars)
<1>1. PICK out \in Batches : /\ view' = [view EXCEPT !.held = view.held \o out]
                             /\ output' = Drop(output, Len(out))
  BY DEF HoldOutput
<1>2. UNCHANGED <<faulted, raw, received, ptyIn, pending, buffer, tty>>
  BY DEF HoldOutput, inputVars, historyVars
<1>d. dropped = <<>> /\ dropped' = <<>>
  BY DEF HoldOutput, historyVars, RelayInv, Ending
<1>3. out \in Seq(Chunks) /\ output' \in Seq(Chunks) /\ out \o output' = output
  BY <1>1, OutputTypes, BatchType
<1>4. /\ view'.visible = view.visible /\ view'.shown = view.shown
      /\ view'.held = view.held \o out
  BY <1>1, OutputTypes DEF View
<1>5. (view.held \o out) \o output' = view.held \o (out \o output')
  <2>1. view.held \in Seq(Chunks) /\ out \in Seq(Chunks) /\ output' \in Seq(Chunks)
    BY <1>3, OutputTypes
  <2> QED BY ONLY <2>1, Associativity
<1>6. Unseen = view.held \o output
  BY <1>d, NothingDropped
<1>7. Unseen' = (view.held \o out) \o output'
  <2>1. Unseen' = ((view.held \o out) \o <<>>) \o output'
    BY <1>4, <1>d DEF Unseen
  <2>2. view.held \o out \in Seq(Chunks)
    BY <1>3, OutputTypes, ConcatProperties
  <2> QED BY <2>1, <2>2, ConcatEmptySeq
<1> QED BY <1>2, <1>3, <1>4, <1>5, <1>6, <1>7, Unnoticed DEF Keyed

(* Output that was read and dropped stays in flight.                       *)
LEMMA DropIsRelay ==
  ASSUME TypeOK, RelayInv, ClockFailsOnOutput
  PROVE  [R!Next]_(R!vars)
<1>1. PICK out \in Batches : dropped' = out /\ output' = Drop(output, Len(out))
  BY DEF ClockFailsOnOutput
<1>2. UNCHANGED <<view, faulted, raw, received, ptyIn, pending, buffer, tty>>
  BY DEF ClockFailsOnOutput, inputVars
<1>3. out \in Seq(Chunks) /\ output' \in Seq(Chunks) /\ out \o output' = output
  BY <1>1, OutputTypes, BatchType
<1>4. (view.held \o out) \o output' = view.held \o (out \o output')
  <2>1. view.held \in Seq(Chunks) /\ out \in Seq(Chunks) /\ output' \in Seq(Chunks)
    BY <1>3, OutputTypes
  <2> QED BY ONLY <2>1, Associativity
<1>5. dropped = <<>>
  BY DEF ClockFailsOnOutput, RelayInv, Ending
<1>6. Unseen = view.held \o output
  BY <1>5, NothingDropped
<1>7. Unseen' = (view.held \o out) \o output'
  BY <1>1, <1>2 DEF Unseen
<1>8. Unseen' = Unseen
  BY <1>3, <1>4, <1>6, <1>7
<1> QED BY <1>2, <1>8, Unnoticed DEF Keyed

(* forward_output: out is shown, or lost with the terminal.                *)
LEMMA ShowOutputIsRelay ==
  ASSUME IInv, RelayInv, ShowOutput
  PROVE  [R!Next]_(R!vars)
<1>1. PICK out \in Batches : output' = Drop(output, Len(out)) /\ Forward(view, out)
  BY DEF ShowOutput
<1>2. UNCHANGED <<raw, received, ptyIn, pending, buffer, tty>>
  BY DEF ShowOutput, inputVars, historyVars
<1>d. dropped = <<>> /\ dropped' = <<>> /\ raw
  BY DEF ShowOutput, historyVars, RelayInv, Ending
<1>e. <<>> \o <<>> = <<>>
  OBVIOUS
<1>3. TypeOK /\ ~ view.visible /\ view.held = <<>>
  BY DEF IInv, CoveredIffActive, Showing, HeldInv, ShowOutput
<1>4. /\ out \in Seq(Chunks) /\ output' \in Seq(Chunks) /\ out \o output' = output
      /\ output \in Seq(Chunks) /\ <<>> \in Seq(Chunks) /\ view \in View
      /\ view.shown \in Seq(Chunks)
  BY <1>1, <1>3, OutputTypes, BatchType, EmptySeq
<1>5. Unseen = output /\ (out \o <<>>) \o output' = output
      /\ (<<>> \o out) \o output' = output
  BY <1>3, <1>4, <1>d, NothingDropped, ConcatEmptySeq
<1>6. CASE view' = ForwardOutput(view, out) /\ faulted' = faulted
  <2>1. ~ view'.visible /\ view'.held = <<>> /\ view'.shown = view.shown \o out
    BY <1>3, <1>4, <1>6 DEF ForwardOutput, View
  <2>2. Unseen' = output'
    BY <1>4, <1>d, <1>e, <2>1, ConcatEmptySeq DEF Unseen
  <2>3. R!Show
    BY <1>4, <1>5, <1>6, <2>1, <2>2, Shown
  <2> QED BY <1>2, <1>d, <2>3, ShowIsRelay DEF Keyed
<1>7. CASE view' = view /\ faulted' = TRUE
  <2>1. view'.shown = view.shown \o <<>>
    BY <1>4, <1>7, ConcatEmptySeq
  <2>2. Unseen' = output'
    BY <1>3, <1>4, <1>7, <1>d, <1>e, ConcatEmptySeq DEF Unseen
  <2>3. R!Show
    BY <1>3, <1>4, <1>5, <1>7, <2>1, <2>2, Shown
  <2> QED BY <1>2, <1>d, <2>3, ShowIsRelay DEF Keyed
<1> QED BY <1>1, <1>6, <1>7 DEF Forward

(* Output that woke the screensaver: what was held goes first.             *)
LEMMA OverflowIsRelay ==
  ASSUME TypeOK, RelayInv, OutputOverflow
  PROVE  [R!Next]_(R!vars)
<1>1. PICK out \in Batches :
        /\ output' = Drop(output, Len(out))
        /\ \E x \in ExitOutcomes(view) :
             IF x.ok THEN Forward(x.view, out)
                     ELSE view' = x.view /\ Abort /\ faulted' = TRUE
  BY DEF OutputOverflow
<1>2. PICK x \in ExitOutcomes(view) :
        IF x.ok THEN Forward(x.view, out)
                ELSE view' = x.view /\ Abort /\ faulted' = TRUE
  BY <1>1
<1> DEFINE held == view.held
           shown == view.shown
<1>3. Keyed' = Keyed /\ received' = received /\ raw /\ raw' = raw
  BY DEF OutputOverflow, inputVars, historyVars, Keyed, RelayInv, Ending
<1>d. dropped = <<>> /\ dropped' = <<>>
  BY DEF OutputOverflow, historyVars, RelayInv, Ending
<1>e. <<>> \o <<>> = <<>>
  OBVIOUS
<1>4. /\ out \in Seq(Chunks) /\ output' \in Seq(Chunks) /\ out \o output' = output
      /\ output \in Seq(Chunks) /\ view \in View
  BY <1>1, OutputTypes, BatchType
<1>5. held \in Seq(Chunks) /\ shown \in Seq(Chunks) /\ <<>> \in Seq(Chunks)
      /\ held \o out \in Seq(Chunks)
  BY <1>4, OutputTypes, EmptySeq, ConcatProperties
<1>6. /\ x.view \in View /\ x.ok \in BOOLEAN /\ ~ x.view.visible
      /\ x.view.held = <<>>
      /\ \/ x.view.shown = shown \o held
         \/ x.view.shown = shown /\ ~ x.ok
  BY <1>4, OutcomesType, ExitShows
<1>7. Unseen = (held \o out) \o output'
  <2>1. held \in Seq(Chunks) /\ out \in Seq(Chunks) /\ output' \in Seq(Chunks)
    BY <1>4, <1>5
  <2>2. (held \o out) \o output' = held \o (out \o output')
    BY ONLY <2>1, Associativity
  <2> QED BY <1>4, <1>d, <2>2, NothingDropped
<1> HIDE DEF held, shown
<1>8. /\ ((held \o out) \o <<>>) \o output' = Unseen
      /\ (<<>> \o (held \o out)) \o output' = Unseen
  BY <1>5, <1>7, ConcatEmptySeq
<1>9. /\ <<>> \o output' = output'
      /\ shown \o <<>> = shown
  BY <1>4, <1>5, ConcatEmptySeq
<1>10. CASE x.ok /\ view' = ForwardOutput(x.view, out) /\ faulted' = faulted
  <2>1. ~ view'.visible /\ view'.held = <<>> /\ view'.shown = (shown \o held) \o out
    BY <1>6, <1>10 DEF ForwardOutput, View
  <2>2. (shown \o held) \o out = shown \o (held \o out)
    <3>1. shown \in Seq(Chunks) /\ held \in Seq(Chunks) /\ out \in Seq(Chunks)
      BY <1>4, <1>5
    <3> QED BY ONLY <3>1, Associativity
  <2>3. Unseen' = output'
    BY <1>9, <1>d, <1>e, <2>1 DEF Unseen
  <2>4. R!Show
    BY <1>4, <1>5, <1>8, <1>10, <2>1, <2>2, <2>3, Shown DEF shown
  <2> QED BY <1>3, <2>4, ShowIsRelay
<1>11. CASE view' = x.view /\ faulted' = TRUE
  <2>1. /\ ~ view'.visible /\ Unseen' = output' /\ faulted'
        /\ view'.shown = shown \o held \/ view'.shown = shown
    BY <1>6, <1>9, <1>d, <1>e, <1>11 DEF Unseen
  <2>2. R!Show
    <3>1. CASE view'.shown = shown \o held
      BY <1>4, <1>5, <1>7, <2>1, <3>1, Shown DEF shown
    <3>2. CASE view'.shown = shown
      <4>1. view'.shown = shown \o <<>>
        BY <1>9, <3>2
      <4> QED BY <1>4, <1>5, <1>8, <2>1, <4>1, Shown DEF shown
    <3> QED BY <2>1, <3>1, <3>2
  <2> QED BY <1>3, <2>2, ShowIsRelay
<1> QED BY <1>2, <1>6, <1>10, <1>11 DEF Forward

LEMMA WritesIsRelay ==
  ASSUME TypeOK, NEW c \in Chunks, ShellWrites(c)
  PROVE  [R!Next]_(R!vars)
<1>1. /\ output' = Append(output, c)
      /\ UNCHANGED <<view, faulted, dropped, raw, received, ptyIn, pending, buffer, tty>>
  BY DEF ShellWrites, strangeVars
<1>2. view.held \o dropped \in Seq(Chunks) /\ output \in Seq(Chunks)
  BY UnseenParts, ConcatProperties
<1>3. (view.held \o dropped) \o Append(output, c)
        = Append((view.held \o dropped) \o output, c)
  BY <1>2, OrderWrite
<1>4. Unseen' = (view.held \o dropped) \o Append(output, c)
  BY <1>1 DEF Unseen
<1>5. Unseen' = Append(Unseen, c)
  BY <1>3, <1>4 DEF Unseen
<1>6. R!Emit(c)
  BY <1>1, <1>5 DEF R!Emit, R!mode, R!input, Unseen
<1> QED BY <1>6 DEF R!Next

-----------------------------------------------------------------------------
(* Every step.                                                             *)

LEMMA Unchanged ==
  ASSUME UNCHANGED <<view, faulted, dropped, output, raw, received, ptyIn, pending, buffer, tty>>
  PROVE  [R!Next]_(R!vars)
BY Unnoticed DEF Unseen, Keyed

(* sync_resize_if_needed.                                                  *)
LEMMA SyncIsRelay ==
  ASSUME TypeOK, RelayInv, SyncResize
  PROVE  [R!Next]_(R!vars)
<1> DEFINE synced == SyncWindowSize(view, view.drewOver)
<1>1. /\ UNCHANGED <<dropped, output>> /\ Keyed' = Keyed /\ received' = received
      /\ raw /\ raw' = raw
      /\ UNCHANGED <<ptyIn, pending, buffer, tty>>
  BY DEF SyncResize, Unaffected, inputVars, historyVars, Keyed, RelayInv, Ending
<1>2. /\ synced \in View /\ synced.visible = view.visible
      /\ synced.shown = view.shown /\ synced.held = view.held
  BY SyncType DEF TypeOK, View, SyncWindowSize
<1> HIDE DEF synced
<1>3. CASE view' = view /\ faulted' = faulted
  BY <1>1, <1>3, Unchanged
<1>4. CASE view' = view /\ faulted'
  <2>1. R!Break
    BY <1>1, <1>4 DEF R!Break, R!input, R!output, Keyed
  <2> QED BY <2>1 DEF R!Next
<1>5. CASE RenderFrame(synced, "check")
  BY <1>1, <1>2, <1>5, RenderIsRelay
<1>6. CASE view' = synced /\ faulted' = faulted
  BY <1>1, <1>2, <1>6, Unnoticed DEF Unseen
<1> QED BY <1>3, <1>4, <1>5, <1>6 DEF SyncResize, synced

(* Taking the screen, or failing to.                                       *)
LEMMA StartIsRelay ==
  ASSUME IInv, RelayInv, StartScreensaver
  PROVE  [R!Next]_(R!vars)
<1>1. /\ UNCHANGED <<dropped, output>> /\ Keyed' = Keyed /\ received' = received
      /\ raw /\ raw' = raw
      /\ UNCHANGED <<ptyIn, pending, buffer, tty>>
  BY DEF StartScreensaver, Unaffected, inputVars, historyVars, Keyed, RelayInv,
     Ending
<1>2. TypeOK /\ view \in View /\ ~ view.visible /\ raw
  BY DEF IInv, TypeOK, CoveredIffActive, Showing, RelayInv, Ending, StartScreensaver,
     InactivityTimeoutDue
<1>3. /\ Mark(view) \in View
      /\ Mark(view).shown = view.shown /\ Mark(view).held = view.held
  BY <1>2 DEF Mark, View, Modes
<1>4. /\ EnterScreensaver(Mark(view)) \in View
      /\ EnterScreensaver(Mark(view)).visible
      /\ EnterScreensaver(Mark(view)).shown = view.shown
      /\ EnterScreensaver(Mark(view)).held = view.held
  BY <1>3, EnterType DEF EnterScreensaver, View
<1>5. /\ Cover(view) \in View /\ Cover(view).visible
      /\ Cover(view).shown = view.shown /\ Cover(view).held = view.held
  BY <1>4, SyncType DEF Cover, SyncWindowSize, View
<1>6. CASE \/ view' = Cover(view) /\ faulted' = faulted
           \/ view' = EnterScreensaver(Mark(view)) /\ faulted'
  <2>1. /\ view'.visible /\ view'.shown = view.shown /\ view'.held = view.held
        /\ faulted => faulted'
    BY <1>4, <1>5, <1>6
  <2>2. R!Cover
    BY <1>1, <1>2, <2>1 DEF R!Cover, R!input, R!output, Keyed
  <2> QED BY <2>2 DEF R!Next
<1>7. CASE DisableFailedScreensaver(Mark(view), "select")
  BY <1>1, <1>2, <1>3, <1>7, DisableIsShow, ShowIsRelay
<1>8. CASE DisableFailedScreensaver(Cover(view), "select")
  BY <1>1, <1>2, <1>5, <1>8, DisableIsShow, ShowIsRelay
<1> QED BY <1>6, <1>7, <1>8 DEF StartScreensaver

LEMMA FrameIsRelay ==
  ASSUME TypeOK, RelayInv, NextFrame
  PROVE  [R!Next]_(R!vars)
<1>1. /\ UNCHANGED <<dropped, output>> /\ Keyed' = Keyed /\ received' = received
      /\ raw /\ raw' = raw
      /\ UNCHANGED <<ptyIn, pending, buffer, tty>>
  BY DEF NextFrame, Unaffected, inputVars, historyVars, Keyed, RelayInv, Ending
<1>2. CASE RenderFrame(view, "select")
  BY <1>1, <1>2, OutputTypes, RenderIsRelay
<1>3. CASE view' = view /\ faulted' = faulted
  BY <1>1, <1>3, Unchanged
<1> QED BY <1>2, <1>3 DEF NextFrame

(* Events that end the session.                                            *)
LEMMA EndIsRelay ==
  ASSUME TypeOK, RelayInv, CheckShutdown \/ EndOfInput \/ EndOfOutput \/ PollShellExit
  PROVE  [R!Next]_(R!vars)
<1>1. /\ UNCHANGED <<dropped, output>> /\ Keyed' = Keyed /\ received' = received
      /\ raw /\ raw' = raw
      /\ UNCHANGED <<ptyIn, pending, buffer, tty>>
  BY DEF CheckShutdown, EndOfInput, EndOfOutput, PollShellExit, Unaffected, inputVars,
     historyVars, Keyed, RelayInv, Ending
<1>2. CASE \E x \in EventOutcomes(view, state, "SHUTTING_DOWN") : Ignored(x)
  BY <1>1, <1>2, EventIsRelay
<1>3. CASE view' = view /\ faulted' = faulted
  BY <1>1, <1>3, Unchanged
<1> QED BY <1>2, <1>3 DEF CheckShutdown, EndOfInput, EndOfOutput, PollShellExit

LEMMA RelayStep ==
  ASSUME IInv, RelayInv, [Next]_vars
  PROVE  [R!Next]_(R!vars)
<1>0. TypeOK /\ RoomInv
  BY DEF IInv
<1>1. CASE SyncResize \/ StartScreensaver \/ NextFrame
  BY <1>0, <1>1, SyncIsRelay, StartIsRelay, FrameIsRelay
<1>2. CASE CheckShutdown \/ EndOfInput \/ EndOfOutput \/ PollShellExit
  BY <1>0, <1>2, EndIsRelay
<1>3. CASE \/ ReadInput \/ ClockFailsOnInput \/ FlushPendingInput
           \/ ForwardInputSlice \/ DisableFromKey
  BY <1>0, <1>3, ReadIsRelay, FlushIsRelay, SliceIsRelay, DisableIsRelay
<1>4. CASE WakeOnInput \/ Cleanup
  BY <1>4, WakeIsRelay, CleanupIsRelay
<1>5. CASE HoldOutput \/ OutputOverflow \/ ShowOutput \/ ClockFailsOnOutput
  BY <1>0, <1>5, HoldIsRelay, OverflowIsRelay, ShowOutputIsRelay, DropIsRelay
<1>6. CASE \/ HoldTimer \/ Select \/ SelectInterrupted \/ WaitFails
           \/ HangUp \/ Reap
  BY <1>6, Unchanged DEF HoldTimer, Select, SelectInterrupted, WaitFails, HangUp, Reap,
     Unaffected, inputVars, historyVars
<1>7. CASE Strange
  BY <1>1, <1>2, <1>3, <1>4, <1>5, <1>6, <1>7 DEF Strange
<1>8. CASE \E k \in Keys : Press(k)
  BY <1>0, <1>8, PressIsRelay
<1>9. CASE ShellReads
  BY <1>0, <1>9, ReadsIsRelay
<1>10. CASE \E c \in Chunks : ShellWrites(c)
  BY <1>0, <1>10, WritesIsRelay
<1>11. CASE \/ TerminalCloses \/ ShutdownSignal \/ ResizeSignal \/ Tick
            \/ ShellCloses \/ ShellExits \/ JobStarts \/ JobEnds
  BY <1>11, Unchanged DEF TerminalCloses, ShutdownSignal, ResizeSignal, Tick, ShellCloses,
     ShellExits, JobStarts, JobEnds, strangeVars
<1>12. CASE UNCHANGED vars
  BY <1>12, Unchanged DEF vars, inputVars, historyVars
<1> QED
  BY <1>7, <1>8, <1>9, <1>10, <1>11, <1>12 DEF Next, Environment, Done

(* Runtime's start is Relay's.                                             *)
LEMMA RelayStart == Init => R!Init
BY DEF Init, R!Init

(* strange is the relay it promises to be: for any keys, output, sizes of  *)
(* buffers, limits and faults, nothing is shown over the screensaver,      *)
(* nothing overtakes and nothing is lost but where Relay says so.          *)
THEOREM RefinesRelay == Spec => ImplementsRelay
<1>1. Spec => []RelayInv
  BY RelayInvInit, RelayInvStep, Invariance, PTL DEF Spec
<1>2. Spec => R!Spec
  BY <1>1, RelayStart, RelayStep, Invariance, PTL DEF Spec, R!Spec
<1> QED BY <1>2 DEF ImplementsRelay
=============================================================================
