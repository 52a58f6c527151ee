--------------------------- MODULE RuntimeProofs ----------------------------
(***************************************************************************)
(* Theorems about Runtime, for every value of its constants.               *)
(***************************************************************************)
EXTENDS Runtime, SequenceTheorems, TLAPS

(* The parts of a sequence are sequences.                                  *)
LEMMA TakeDrop ==
  ASSUME NEW S, NEW s \in Seq(S), NEW n \in 0..Len(s)
  PROVE  /\ Take(s, n) \in Seq(S) /\ Len(Take(s, n)) = n
         /\ Drop(s, n) \in Seq(S) /\ Len(Drop(s, n)) = Len(s) - n
         /\ Take(s, n) \o Drop(s, n) = s
         /\ Elements(Take(s, n)) \subseteq S
<1>1. Take(s, n) \in Seq(S) /\ Len(Take(s, n)) = n
  BY SubSeqProperties DEF Take
<1>2. Drop(s, n) \in Seq(S) /\ Len(Drop(s, n)) = Len(s) - n
  BY SubSeqProperties, LenProperties DEF Drop
<1>3. Take(s, n) \o Drop(s, n) = s
  <2>1. Len(s) \in Nat
    BY LenProperties
  <2>2. /\ 1 \in 1..(Len(s) + 1)
        /\ n \in (1 - 1)..Len(s)
        /\ Len(s) \in n..Len(s)
    BY <2>1
  <2>3. SubSeq(s, 1, n) \o SubSeq(s, n + 1, Len(s)) = SubSeq(s, 1, Len(s))
    BY ONLY s \in Seq(S), <2>2, ConcatAdjacentSubSeq
  <2>4. SubSeq(s, 1, Len(s)) = s
    BY SubSeqFull
  <2> QED BY <2>3, <2>4 DEF Take, Drop
<1>4. Elements(Take(s, n)) \subseteq S
  BY <1>1 DEF Elements
<1> QED BY <1>1, <1>2, <1>3, <1>4

-----------------------------------------------------------------------------
(* What the operators on the screen return.                                *)

LEMMA ModesAfterType ==
  ASSUME NEW m \in Modes, NEW out \in Seq(Chunks)
  PROVE  ModesAfter(m, out) \in Modes
BY DEF ModesAfter, Modes

LEMMA NothingWritten ==
  ASSUME NEW m \in Modes
  PROVE  ModesAfter(m, <<>>) = m
<1>1. AltSettings(m, <<>>) = {} /\ CursorSettings(<<>>) = {}
  BY DEF AltSettings, CursorSettings
<1> QED BY <1>1 DEF ModesAfter, Modes

(* Output read up to the end of a sequence leaves no sequence open.        *)
LEMMA WholeOutput ==
  ASSUME WholeSequences, NEW m \in Modes, m.parse = "TEXT",
         NEW out \in Seq(Chunks)
  PROVE  ModesAfter(m, out).parse = "TEXT"
<1>1. CASE out = <<>>
  BY <1>1 DEF ModesAfter
<1>2. CASE out # <<>>
  <2>1. out[Len(out)] \in Chunks
    BY <1>2, ElementOfSeq, EmptySeq, LenProperties
  <2> QED BY <1>2, <2>1 DEF ModesAfter, WholeSequences
<1> QED BY <1>1, <1>2

LEMMA SyncType ==
  ASSUME NEW v \in View, NEW b \in BOOLEAN
  PROVE  SyncWindowSize(v, b) \in View
BY DEF SyncWindowSize, View

LEMMA EnterType ==
  ASSUME NEW v \in View
  PROVE  EnterScreensaver(v) \in View
BY DEF EnterScreensaver, View, Modes

LEMMA LeaveType ==
  ASSUME NEW v \in View
  PROVE  /\ LeaveScreensaver(v) \in View
         /\ ~ LeaveScreensaver(v).visible
         /\ LeaveScreensaver(v).held = v.held
         /\ LeaveScreensaver(v).shown = v.shown
         /\ LeaveScreensaver(v).modes = v.modes
         /\ LeaveScreensaver(v).drewOver = v.drewOver
         /\ LeaveScreensaver(v).misreported = v.misreported
BY ZenonT(40) DEF LeaveScreensaver, View, Modes

LEMMA ForwardType ==
  ASSUME NEW v \in View, NEW out \in Seq(Chunks)
  PROVE  ForwardOutput(v, out) \in View
<1>1. /\ ModesAfter(v.screen, out) \in Modes
      /\ ModesAfter(v.modes, out) \in Modes
  BY ModesAfterType DEF View
<1>2. v.shown \o out \in Seq(Chunks)
  BY ConcatProperties DEF View
<1> QED BY <1>1, <1>2 DEF ForwardOutput, View

LEMMA ReleaseType ==
  ASSUME NEW v \in View
  PROVE  /\ ReleaseHeldOutput(v) \in View
         /\ ReleaseHeldOutput(v).held = <<>>
         /\ ReleaseHeldOutput(v).visible = v.visible
         /\ ReleaseHeldOutput(v).drewOver = v.drewOver
         /\ ReleaseHeldOutput(v).misreported = v.misreported
         /\ ReleaseHeldOutput(v).shown = v.shown \o v.held
         /\ ReleaseHeldOutput(v).modes = ModesAfter(v.modes, v.held)
         /\ ReleaseHeldOutput(v).screen = ModesAfter(v.screen, v.held)
<1>1. v.held \in Seq(Chunks) /\ <<>> \in Seq(Chunks)
  BY EmptySeq DEF View
<1>2. ForwardOutput(v, v.held) \in View
  BY <1>1, ForwardType
<1> QED BY <1>1, <1>2 DEF ReleaseHeldOutput, ForwardOutput, View

(* However leaving the screensaver ends, the screen is uncovered and no    *)
(* output is held; if it ends well, the output held went to the terminal   *)
(* and the PTY knows the true size.                                        *)
LEMMA ExitType ==
  ASSUME NEW v \in View
  PROVE  /\ ExitScreensaver(v) \in View
         /\ ~ ExitScreensaver(v).visible
         /\ ExitScreensaver(v).held = <<>>
         /\ ExitScreensaver(v).drewOver = FALSE
         /\ v.drewOver \/ ~ v.misreported => ~ ExitScreensaver(v).misreported
         /\ ExitScreensaver(v).shown = v.shown \o v.held
         /\ ExitScreensaver(v).modes = ModesAfter(v.modes, v.held)
         /\ ExitScreensaver(v).screen
              = ModesAfter(LeaveScreensaver(v).screen, v.held)
<1> DEFINE left == LeaveScreensaver(v)
           released == ReleaseHeldOutput(left)
<1>1. /\ left \in View /\ ~ left.visible /\ left.held = v.held
      /\ left.shown = v.shown /\ left.modes = v.modes
      /\ left.drewOver = v.drewOver /\ left.misreported = v.misreported
  BY LeaveType
<1>2. /\ released \in View /\ released.held = <<>> /\ ~ released.visible
      /\ released.drewOver = v.drewOver
      /\ released.misreported = v.misreported
      /\ released.shown = v.shown \o v.held
      /\ released.modes = ModesAfter(v.modes, v.held)
      /\ released.screen = ModesAfter(left.screen, v.held)
  BY <1>1, ReleaseType, ZenonT(40)
<1>3. ExitScreensaver(v)
        = IF v.drewOver
          THEN SyncWindowSize([released EXCEPT !.drewOver = FALSE], FALSE)
          ELSE released
  BY DEF ExitScreensaver
<1> HIDE DEF left, released
<1>4. v.drewOver \in BOOLEAN /\ v.misreported \in BOOLEAN
  BY DEF View
<1>5. CASE v.drewOver
  BY <1>2, <1>3, <1>5 DEF SyncWindowSize, View, left
<1>6. CASE ~ v.drewOver
  BY <1>2, <1>3, <1>4, <1>6 DEF View, left
<1> QED BY <1>5, <1>6

LEMMA OutcomesType ==
  ASSUME NEW v \in View, NEW x \in ExitOutcomes(v)
  PROVE  /\ x.view \in View /\ x.ok \in BOOLEAN
         /\ ~ x.view.visible /\ x.view.held = <<>>
         /\ x.ok => x.view = ExitScreensaver(v)
<1>1. CASE x = [view |-> ExitScreensaver(v), ok |-> TRUE]
  BY <1>1, ExitType
<1>2. CASE x = [view |-> [LeaveScreensaver(v) EXCEPT !.held = <<>>],
                ok |-> FALSE]
  BY <1>2, LeaveType, EmptySeq DEF View
<1>3. CASE x = [view |-> [ReleaseHeldOutput(LeaveScreensaver(v))
                            EXCEPT !.drewOver = FALSE],
                ok |-> FALSE]
  <2>1. LeaveScreensaver(v) \in View /\ ~ LeaveScreensaver(v).visible
    BY LeaveType
  <2>2. /\ ReleaseHeldOutput(LeaveScreensaver(v)) \in View
        /\ ReleaseHeldOutput(LeaveScreensaver(v)).held = <<>>
        /\ ~ ReleaseHeldOutput(LeaveScreensaver(v)).visible
    BY <2>1, ReleaseType
  <2> QED BY <1>3, <2>2 DEF View
<1> QED BY <1>1, <1>2, <1>3 DEF ExitOutcomes

LEMMA EventOutcomesType ==
  ASSUME NEW v \in View, NEW from, NEW to, NEW x \in EventOutcomes(v, from, to)
  PROVE  /\ x.view \in View /\ x.ok \in BOOLEAN
         /\ Exits(from, to) => x \in ExitOutcomes(v)
         /\ ~ Exits(from, to) => x.view = v /\ x.ok
<1>1. CASE Exits(from, to)
  <2>1. x \in ExitOutcomes(v)
    BY <1>1 DEF EventOutcomes
  <2> QED BY <1>1, <2>1, OutcomesType
<1>2. CASE ~ Exits(from, to)
  <2>1. x = [view |-> v, ok |-> TRUE]
    BY <1>2 DEF EventOutcomes
  <2> QED BY <1>2, <2>1
<1> QED BY <1>1, <1>2

LEMMA NoticeType ==
  ASSUME NEW v \in View
  PROVE  Notice(v) \in View
BY DEF Notice, Interject, View, Modes

LEMMA NextStateType ==
  ASSUME NEW s \in RuntimeState, NEW e \in RuntimeEvent
  PROVE  NextState(s, e) \in RuntimeState
BY DEF NextState, RuntimeState, RuntimeEvent

-----------------------------------------------------------------------------
(* What the operators on the screen do to its health.                      *)

(* Leaving restores the very modes the shell had set.                      *)
LEMMA LeaveRestores ==
  ASSUME NEW v \in View, Healthy(v), WholeSequences
  PROVE  LeaveScreensaver(v).screen = v.modes
<1>1. CASE ~ v.visible
  BY <1>1 DEF Healthy, LeaveScreensaver
<1>2. CASE v.visible
  <2>1. LeaveScreensaver(v).screen
          = [alt    |-> v.screen.alt /\ ~ v.onAlt,
             cursor |-> v.screen.cursor \/ v.modes.cursor,
             parse  |-> "TEXT"]
    BY <1>2 DEF LeaveScreensaver, View
  <2>2. /\ v.screen.alt = TRUE /\ v.screen.cursor = FALSE
        /\ v.onAlt <=> ~ v.modes.alt
        /\ v.modes.parse = "TEXT"
    BY <1>2 DEF Healthy
  <2>3. v.modes \in Modes /\ v.onAlt \in BOOLEAN
    BY DEF View
  <2> QED BY <2>1, <2>2, <2>3 DEF Modes
<1> QED BY <1>1, <1>2

LEMMA ExitHealthy ==
  ASSUME NEW v \in View, Healthy(v)
  PROVE  Healthy(ExitScreensaver(v))
<1>1. /\ ExitScreensaver(v) \in View
      /\ ~ ExitScreensaver(v).visible
      /\ ~ ExitScreensaver(v).drewOver
      /\ ~ ExitScreensaver(v).misreported
  BY ExitType DEF Healthy
<1>2. ASSUME WholeSequences
      PROVE  /\ ExitScreensaver(v).modes.parse = "TEXT"
             /\ ExitScreensaver(v).screen = ExitScreensaver(v).modes
  <2>1. v.modes \in Modes /\ v.held \in Seq(Chunks) /\ v.modes.parse = "TEXT"
    BY <1>2 DEF View, Healthy
  <2>2. ExitScreensaver(v).modes = ModesAfter(v.modes, v.held)
    BY ExitType
  <2>3. ExitScreensaver(v).screen = ModesAfter(LeaveScreensaver(v).screen, v.held)
    BY ExitType
  <2>4. LeaveScreensaver(v).screen = v.modes
    BY <1>2, LeaveRestores
  <2>5. ModesAfter(v.modes, v.held).parse = "TEXT"
    BY <1>2, <2>1, WholeOutput
  <2> QED BY <2>2, <2>3, <2>4, <2>5
<1> QED BY <1>1, <1>2 DEF Healthy

(* A takeover that failed before it drew anything is undone as well.       *)
LEMMA MarkedExitHealthy ==
  ASSUME NEW v \in View, Healthy(v), ~ v.visible, v.held = <<>>
  PROVE  Healthy(ExitScreensaver(Mark(v)))
<1> DEFINE w == Mark(v)
<1>1. /\ w \in View /\ ~ w.visible /\ w.held = <<>> /\ w.modes = v.modes
      /\ w.screen = v.screen /\ ~ w.misreported /\ v.modes \in Modes
  BY DEF Mark, View, Modes, Healthy
<1> HIDE DEF w
<1>2. LeaveScreensaver(w) = w
  BY <1>1 DEF LeaveScreensaver
<1>3. /\ ExitScreensaver(w) \in View
      /\ ~ ExitScreensaver(w).visible
      /\ ~ ExitScreensaver(w).drewOver
      /\ ~ ExitScreensaver(w).misreported
  BY <1>1, ExitType
<1>4. /\ ExitScreensaver(w).modes = ModesAfter(v.modes, <<>>)
      /\ ExitScreensaver(w).screen = ModesAfter(v.screen, <<>>)
  <2>1. /\ ExitScreensaver(w).modes = ModesAfter(w.modes, w.held)
        /\ ExitScreensaver(w).screen
             = ModesAfter(LeaveScreensaver(w).screen, w.held)
    BY <1>1, ExitType
  <2> QED BY <1>1, <1>2, <2>1
<1>5. ASSUME WholeSequences
      PROVE  /\ ExitScreensaver(w).modes.parse = "TEXT"
             /\ ExitScreensaver(w).screen = ExitScreensaver(w).modes
  BY <1>1, <1>4, <1>5, NothingWritten DEF Healthy
<1>6. Healthy(ExitScreensaver(w))
  BY <1>3, <1>5 DEF Healthy
<1> QED BY <1>6 DEF w

LEMMA ForwardHealthy ==
  ASSUME NEW v \in View, Healthy(v), ~ v.visible, NEW out \in Seq(Chunks)
  PROVE  Healthy(ForwardOutput(v, out))
<1>1. /\ ~ ForwardOutput(v, out).visible
      /\ ForwardOutput(v, out).drewOver = v.drewOver
      /\ ForwardOutput(v, out).misreported = v.misreported
      /\ ForwardOutput(v, out).screen = ModesAfter(v.screen, out)
      /\ ForwardOutput(v, out).modes = ModesAfter(v.modes, out)
  BY DEF ForwardOutput, View
<1>2. v.modes \in Modes
  BY DEF View
<1>3. ASSUME WholeSequences
      PROVE  ModesAfter(v.modes, out).parse = "TEXT" /\ v.screen = v.modes
  BY <1>2, <1>3, WholeOutput DEF Healthy
<1> QED BY <1>1, <1>3 DEF Healthy

LEMMA CoverType ==
  ASSUME NEW v \in View
  PROVE  /\ Mark(v) \in View
         /\ EnterScreensaver(Mark(v)) \in View
         /\ EnterScreensaver(Mark(v)).visible
         /\ EnterScreensaver(Mark(v)).modes = v.modes
         /\ EnterScreensaver(Mark(v)).held = v.held
         /\ EnterScreensaver(Mark(v)).drewOver = v.modes.alt
         /\ Cover(v) \in View
         /\ Cover(v).visible
         /\ Cover(v).modes = v.modes
         /\ Cover(v).held = v.held
         /\ Cover(v).shown = v.shown
         /\ Cover(v).drewOver = v.modes.alt
         /\ Cover(v).onAlt = ~ v.modes.alt
         /\ ~ v.misreported => (Cover(v).misreported <=> v.modes.alt)
         /\ Cover(v).screen = [alt    |-> v.screen.alt \/ ~ v.modes.alt,
                               cursor |-> FALSE, parse |-> "TEXT"]
<1> DEFINE entered == EnterScreensaver(Mark(v))
<1>1. /\ Mark(v) \in View /\ Mark(v).modes = v.modes /\ Mark(v).held = v.held
      /\ Mark(v).shown = v.shown /\ Mark(v).drewOver = v.modes.alt
      /\ Mark(v).misreported = v.misreported /\ Mark(v).screen = v.screen
      /\ v.modes.alt \in BOOLEAN /\ v.misreported \in BOOLEAN
  BY DEF Mark, View, Modes
<1>2. /\ entered \in View /\ entered.modes = v.modes /\ entered.held = v.held
      /\ entered.shown = v.shown /\ entered.drewOver = v.modes.alt
      /\ entered.misreported = v.misreported /\ entered.visible
      /\ entered.onAlt = ~ v.modes.alt
      /\ entered.screen = [alt    |-> v.screen.alt \/ ~ v.modes.alt,
                           cursor |-> FALSE, parse |-> "TEXT"]
  BY <1>1, EnterType, ZenonT(40) DEF EnterScreensaver, View
<1>3. Cover(v) = IF v.modes.alt THEN SyncWindowSize(entered, TRUE) ELSE entered
  BY DEF Cover
<1> HIDE DEF entered
<1>4. /\ Cover(v) \in View /\ Cover(v).modes = v.modes /\ Cover(v).held = v.held
      /\ Cover(v).shown = v.shown /\ Cover(v).drewOver = v.modes.alt
      /\ ~ v.misreported => (Cover(v).misreported <=> v.modes.alt)
      /\ Cover(v).visible /\ Cover(v).onAlt = entered.onAlt
      /\ Cover(v).screen = entered.screen
  BY <1>1, <1>2, <1>3, ZenonT(40) DEF SyncWindowSize, View
<1> QED BY <1>1, <1>2, <1>4 DEF entered

LEMMA CoverHealthy ==
  ASSUME NEW v \in View, Healthy(v), ~ v.visible
  PROVE  Healthy(Cover(v))
<1>1. /\ Cover(v).visible /\ Cover(v).modes = v.modes
      /\ Cover(v).drewOver = v.modes.alt /\ Cover(v).onAlt = ~ v.modes.alt
      /\ Cover(v).misreported <=> v.modes.alt
      /\ Cover(v).screen = [alt    |-> v.screen.alt \/ ~ v.modes.alt,
                            cursor |-> FALSE, parse |-> "TEXT"]
  BY CoverType DEF Healthy
<1>2. ASSUME WholeSequences
      PROVE  v.modes.parse = "TEXT" /\ (v.screen.alt \/ ~ v.modes.alt)
  BY <1>2 DEF Healthy
<1> QED BY <1>1, <1>2 DEF Healthy

LEMMA SyncHealthy ==
  ASSUME NEW v \in View, Healthy(v)
  PROVE  Healthy(SyncWindowSize(v, v.drewOver))
BY DEF Healthy, SyncWindowSize, View

LEMMA NoticeHealthy ==
  ASSUME NEW v \in View, Healthy(v), ~ v.visible
  PROVE  Healthy(Notice(v))
<1>1. /\ Notice(v).modes = v.modes /\ ~ Notice(v).visible
      /\ Notice(v).drewOver = v.drewOver
      /\ Notice(v).misreported = v.misreported
      /\ Notice(v).screen = [v.screen EXCEPT !.parse = "TEXT"]
  BY DEF Notice, Interject, View
<1>2. ASSUME WholeSequences
      PROVE  [v.screen EXCEPT !.parse = "TEXT"] = v.modes
  BY <1>2 DEF Healthy, View, Modes
<1> QED BY <1>1, <1>2 DEF Healthy

-----------------------------------------------------------------------------
(* The order of output.                                                    *)

Order(v, out) == v.shown \o v.held \o out

LEMMA Associativity ==
  \A s, t, u \in Seq(Chunks) : (s \o t) \o u = s \o (t \o u)
OBVIOUS

LEMMA OrderExit ==
  ASSUME NEW v \in View, NEW out \in Seq(Chunks)
  PROVE  Order(ExitScreensaver(v), out) = Order(v, out)
<1>1. v.shown \in Seq(Chunks) /\ v.held \in Seq(Chunks)
  BY DEF View
<1>2. v.shown \o v.held \in Seq(Chunks)
  BY <1>1, ConcatProperties
<1>3. (v.shown \o v.held) \o <<>> = v.shown \o v.held
  BY <1>2, ConcatEmptySeq
<1> QED BY <1>3, ExitType DEF Order

LEMMA OrderForward ==
  ASSUME NEW v \in View, v.held = <<>>,
         NEW out \in Seq(Chunks), NEW rest \in Seq(Chunks)
  PROVE  Order(ForwardOutput(v, out), rest) = Order(v, out \o rest)
<1>1. v.shown \in Seq(Chunks)
  BY DEF View
<1>2. /\ ForwardOutput(v, out).shown = v.shown \o out
      /\ ForwardOutput(v, out).held = <<>>
  BY DEF ForwardOutput, View
<1>3. v.shown \o out \in Seq(Chunks)
  BY <1>1, ConcatProperties
<1>4. (v.shown \o out) \o <<>> = v.shown \o out /\ v.shown \o <<>> = v.shown
  BY <1>1, <1>3, ConcatEmptySeq
<1>5. (v.shown \o out) \o rest = v.shown \o (out \o rest)
  BY <1>1, Associativity
<1> QED BY <1>2, <1>4, <1>5 DEF Order

LEMMA OrderHold ==
  ASSUME NEW v \in View, NEW out \in Seq(Chunks), NEW rest \in Seq(Chunks)
  PROVE  Order([v EXCEPT !.held = v.held \o out], rest) = Order(v, out \o rest)
<1>1. v.shown \in Seq(Chunks) /\ v.held \in Seq(Chunks)
  BY DEF View
<1>2. v.shown \o v.held \in Seq(Chunks)
  BY <1>1, ConcatProperties
<1>3. v.shown \o (v.held \o out) = (v.shown \o v.held) \o out
  BY <1>1, Associativity
<1>4. ((v.shown \o v.held) \o out) \o rest = (v.shown \o v.held) \o (out \o rest)
  BY <1>2, Associativity
<1>5. /\ [v EXCEPT !.held = v.held \o out].shown = v.shown
      /\ [v EXCEPT !.held = v.held \o out].held = v.held \o out
  BY DEF View
<1> QED BY <1>3, <1>4, <1>5 DEF Order

LEMMA OrderWrite ==
  ASSUME NEW row \in Seq(Chunks), NEW out \in Seq(Chunks), NEW c \in Chunks
  PROVE  row \o Append(out, c) = Append(row \o out, c)
<1>1. <<c>> \in Seq(Chunks)
  OBVIOUS
<1>2. Append(out, c) = out \o <<c>>
  BY AppendIsConcat
<1>3. row \o out \in Seq(Chunks)
  BY ConcatProperties
<1>4. Append(row \o out, c) = (row \o out) \o <<c>>
  BY <1>3, AppendIsConcat
<1>5. (row \o out) \o <<c>> = row \o (out \o <<c>>)
  BY <1>1, Associativity
<1> QED BY <1>2, <1>4, <1>5

LEMMA OrderType ==
  ASSUME NEW v \in View, NEW out \in Seq(Chunks)
  PROVE  Order(v, out) \in Seq(Chunks)
<1>1. v.shown \in Seq(Chunks) /\ v.held \in Seq(Chunks)
  BY DEF View
<1>2. v.shown \o v.held \in Seq(Chunks)
  BY <1>1, ConcatProperties
<1> QED BY <1>2, ConcatProperties DEF Order

(* Each batch read from the PTY is the front of what was in it.            *)
LEMMA BatchType ==
  ASSUME output \in Seq(Chunks), NEW out \in Batches
  PROVE  /\ out \in Seq(Chunks)
         /\ Drop(output, Len(out)) \in Seq(Chunks)
         /\ out \o Drop(output, Len(out)) = output
<1>1. PICK n \in 1..Least(ReadSize, Len(output)) : out = Take(output, n)
  BY DEF Batches
<1>2. n \in 0..Len(output)
  BY <1>1, RuntimeAssumption, LenProperties DEF Least
<1> QED BY <1>1, <1>2, TakeDrop

-----------------------------------------------------------------------------
(* What the calls the actions share can do.                                *)

(* A checked call failed: the screen is uncovered and the loop left.       *)
GaveUp ==
  /\ view' \in View /\ ~ view'.visible /\ view'.held = <<>>
  /\ pc' = "cleanup" /\ failed' = TRUE /\ faulted' = TRUE

LEMMA CheckedEffect ==
  ASSUME NEW v \in View, NEW x \in ExitOutcomes(v), NEW w, NEW next,
         Checked(x, w, next)
  PROVE  \/ /\ x.view = ExitScreensaver(v) /\ view' = w
            /\ pc' = next /\ failed' = failed /\ faulted' = faulted
         \/ GaveUp
<1>1. CASE x.ok
  BY <1>1, OutcomesType DEF Checked, GoTo
<1>2. CASE ~ x.ok
  BY <1>2, OutcomesType DEF Checked, Abort, GaveUp
<1> QED BY <1>1, <1>2

LEMMA DisableEffect ==
  ASSUME NEW v \in View, NEW next, DisableFailedScreensaver(v, next)
  PROVE  /\ state' = "SCREENSAVER_DISABLED"
         /\ \/ /\ view' = Notice(ExitScreensaver(v))
               /\ pc' = next /\ failed' = failed /\ faulted' = faulted
            \/ GaveUp
<1>1. PICK x \in ExitOutcomes(v) : Checked(x, Notice(x.view), next)
  BY DEF DisableFailedScreensaver
<1>2. state' = "SCREENSAVER_DISABLED"
  BY DEF DisableFailedScreensaver, NextState
<1> QED BY <1>1, <1>2, CheckedEffect

(* The result of an event is ignored: a screensaver that was showing is    *)
(* gone, and if that went wrong the history says so.                       *)
LEMMA IgnoredEffect ==
  ASSUME NEW v \in View, NEW from, NEW to, faulted \in BOOLEAN,
         \E x \in EventOutcomes(v, from, to) : Ignored(x)
  PROVE  /\ view' \in View /\ faulted' \in BOOLEAN
         /\ faulted => faulted'
         /\ ~ Exits(from, to) => view' = v /\ faulted' = faulted
         /\ Exits(from, to) => ~ view'.visible /\ view'.held = <<>>
         /\ Exits(from, to) /\ ~ faulted' => view' = ExitScreensaver(v)
<1>1. PICK x \in EventOutcomes(v, from, to) : Ignored(x)
  OBVIOUS
<1>2. /\ x.view \in View /\ x.ok \in BOOLEAN
      /\ ~ Exits(from, to) => x.view = v /\ x.ok
      /\ Exits(from, to) => x \in ExitOutcomes(v)
  BY EventOutcomesType
<1>3. view' = x.view /\ faulted' = (faulted \/ ~ x.ok)
  BY <1>1 DEF Ignored
<1>4. CASE Exits(from, to)
  BY <1>2, <1>3, <1>4, OutcomesType
<1>5. CASE ~ Exits(from, to)
  BY <1>2, <1>3, <1>5
<1> QED BY <1>4, <1>5

-----------------------------------------------------------------------------
(* Type correctness.                                                       *)

LEMMA InitType == Init => TypeOK
<1> SUFFICES ASSUME Init PROVE TypeOK
  OBVIOUS
<1>1. <<>> \in Seq(Chunks) /\ <<>> \in Seq(Keys) /\ Len(<<>>) = 0
  BY EmptySeq
<1>2. Defaults \in Modes
  BY DEF Defaults, Modes
<1>3. view \in View
  BY <1>1, <1>2 DEF Init, View
<1>4. room \in 0..InputCap /\ idle \in 0..Timeout /\ Len(ptyIn) <= PtyCap
  BY <1>1, RuntimeAssumption DEF Init
<1> QED BY <1>1, <1>3, <1>4 DEF Init, TypeOK, Phases, RuntimeState

(* What Flush leaves in the two buffers it moves keys between.             *)
LEMMA FlushEffect ==
  ASSUME TypeOK, NEW input \in Seq(Keys), NEW next, Flush(input, next)
  PROVE  /\ pending' \in Seq(Keys) /\ Len(pending') <= Len(input)
         /\ ptyIn' \in Seq(Keys) /\ Len(ptyIn') <= PtyCap
         /\ \/ pc' = next /\ failed' = failed
            \/ pc' = "cleanup" /\ failed' = TRUE
<1>1. CASE ~ OtherSideOpen
  <2>1. /\ pending' = input /\ ptyIn' = ptyIn
        /\ \/ pc' = next /\ failed' = failed
           \/ pc' = "cleanup" /\ failed' = TRUE
    BY <1>1 DEF Flush, Abort, GoTo
  <2>2. Len(input) \in Nat
    BY LenProperties
  <2> QED BY <2>1, <2>2 DEF TypeOK
<1>2. CASE OtherSideOpen
  <2> DEFINE n == Least(Len(input), PtyCap - Len(ptyIn))
  <2>1. /\ ptyIn' = ptyIn \o Take(input, n) /\ pending' = Drop(input, n)
        /\ pc' = next /\ failed' = failed
    BY <1>2 DEF Flush, GoTo
  <2>2. ptyIn \in Seq(Keys) /\ Len(ptyIn) \in Nat /\ Len(input) \in Nat
    BY LenProperties DEF TypeOK
  <2>3. n \in 0..Len(input) /\ Len(ptyIn) + n <= PtyCap
    BY <2>2, RuntimeAssumption DEF TypeOK, Least
  <2> HIDE DEF n
  <2>4. /\ Take(input, n) \in Seq(Keys) /\ Len(Take(input, n)) = n
        /\ Drop(input, n) \in Seq(Keys) /\ Len(Drop(input, n)) = Len(input) - n
    BY <2>3, TakeDrop
  <2>5. /\ ptyIn \o Take(input, n) \in Seq(Keys)
        /\ Len(ptyIn \o Take(input, n)) = Len(ptyIn) + n
    BY <2>2, <2>4, ConcatProperties
  <2> QED BY <2>1, <2>2, <2>3, <2>4, <2>5
<1> QED BY <1>1, <1>2

LEMMA ElementsType ==
  ASSUME NEW S, NEW s \in Seq(S)
  PROVE  Elements(s) \subseteq S
BY DEF Elements

LEMMA FromType ==
  ASSUME NEW found
  PROVE  /\ FromOutput(found) \in {"output", "poll"}
         /\ FromStdin(found) \in {"stdin", "output", "poll"}
         /\ FromFlush(found) \in {"flush", "stdin", "output", "poll"}
BY DEF FromOutput, FromStdin, FromFlush

(* What the loop's own bookkeeping looks like after a step.                *)
LEMMA SyncResizeEffect ==
  ASSUME TypeOK, SyncResize
  PROVE  /\ resizeRequested' \in BOOLEAN
         /\ \/ /\ pc' = "check" /\ failed' = failed /\ faulted' = faulted
               /\ state' = state
               /\ view' = view \/ view' = SyncWindowSize(view, view.drewOver)
            \/ /\ pc' = "cleanup" /\ failed' = TRUE /\ faulted' = TRUE
               /\ state' = state /\ view' = view
            \/ /\ state = "SCREENSAVER_ACTIVE"
               /\ state' = "SCREENSAVER_DISABLED"
               /\ \/ /\ pc' = "check" /\ failed' = failed /\ faulted' = faulted
                     /\ view' = Notice(ExitScreensaver(
                                  SyncWindowSize(view, view.drewOver)))
                  \/ GaveUp
<1> DEFINE synced == SyncWindowSize(view, view.drewOver)
<1>1. synced \in View
  BY SyncType DEF TypeOK, View
<1>2. CASE ~ resizeRequested
  BY <1>2 DEF SyncResize, GoTo, TypeOK
<1>3. CASE resizeRequested
  <2>1. resizeRequested' = FALSE
    BY <1>3 DEF SyncResize
  <2>2. \/ "ioctl" \in Faults /\ Abort /\ faulted' = TRUE
           /\ UNCHANGED <<state, view>>
        \/ state = "SCREENSAVER_ACTIVE" /\ RenderFrame(synced, "check")
        \/ state # "SCREENSAVER_ACTIVE" /\ view' = synced /\ GoTo("check")
           /\ UNCHANGED <<state, faulted>>
    BY <1>3 DEF SyncResize
  <2>3. CASE RenderFrame(synced, "check") /\ state = "SCREENSAVER_ACTIVE"
    <3>1. CASE DisableFailedScreensaver(synced, "check")
      BY <1>1, <2>1, <2>3, <3>1, DisableEffect
    <3>2. CASE state' = state /\ view' = synced /\ GoTo("check")
               /\ UNCHANGED faulted
      BY <2>1, <3>2 DEF GoTo
    <3> QED BY <2>3, <3>1, <3>2 DEF RenderFrame
  <2> HIDE DEF synced
  <2> QED BY <2>1, <2>2, <2>3 DEF Abort, GoTo, synced
<1> QED BY <1>2, <1>3 DEF TypeOK

LEMMA StartEffect ==
  ASSUME TypeOK, StartScreensaver
  PROVE  \/ /\ state' = "SCREENSAVER_ACTIVE" /\ view' = Cover(view)
            /\ pc' = "select" /\ failed' = failed /\ faulted' = faulted
         \/ /\ state' = "SCREENSAVER_ACTIVE"
            /\ view' = EnterScreensaver(Mark(view))
            /\ pc' = "cleanup" /\ failed' = TRUE /\ faulted' = TRUE
         \/ /\ state' = "SCREENSAVER_DISABLED"
            /\ \/ /\ pc' = "select" /\ failed' = failed /\ faulted' = faulted
                  /\ \/ view' = Notice(ExitScreensaver(Mark(view)))
                     \/ view' = Notice(ExitScreensaver(Cover(view)))
               \/ GaveUp
<1>1. Mark(view) \in View /\ Cover(view) \in View
  BY CoverType DEF TypeOK
<1>2. NextState(state, "TIMEOUT") = "SCREENSAVER_ACTIVE"
  BY DEF StartScreensaver, InactivityTimeoutDue, NextState
<1>3. CASE DisableFailedScreensaver(Mark(view), "select")
  BY <1>1, <1>3, DisableEffect
<1>4. CASE DisableFailedScreensaver(Cover(view), "select")
  BY <1>1, <1>4, DisableEffect
<1> QED BY <1>2, <1>3, <1>4 DEF StartScreensaver, GoTo, Abort

LEMMA NextFrameEffect ==
  ASSUME TypeOK, NextFrame
  PROVE  \/ /\ state' = state /\ view' = view
            /\ pc' = "select" /\ failed' = failed /\ faulted' = faulted
         \/ /\ state = "SCREENSAVER_ACTIVE"
            /\ state' = "SCREENSAVER_DISABLED"
            /\ \/ /\ pc' = "select" /\ failed' = failed /\ faulted' = faulted
                  /\ view' = Notice(ExitScreensaver(view))
               \/ GaveUp
<1>1. view \in View
  BY DEF TypeOK
<1>2. CASE state = "SCREENSAVER_ACTIVE" /\ DisableFailedScreensaver(view, "select")
  BY <1>1, <1>2, DisableEffect
<1> QED BY <1>2 DEF NextFrame, RenderFrame, GoTo

LEMMA WakeEffect ==
  ASSUME TypeOK, WakeOnInput
  PROVE  /\ tty' \in Seq(Keys) /\ swallowed' \subseteq Keys
         /\ swallowed \subseteq swallowed'
         /\ \/ /\ swallowed' \cap DisableKeys = swallowed \cap DisableKeys
               /\ state' = "PASSTHROUGH" /\ idle' = 0
            \/ state' = "SCREENSAVER_DISABLED" /\ idle' = idle
         /\ \/ /\ \/ view' = ExitScreensaver(view)
                  \/ view' = Notice(ExitScreensaver(view))
               /\ pc' = FromOutput(ready)
               /\ failed' = failed /\ faulted' = faulted
            \/ GaveUp
<1> DEFINE n        == Least(room, Len(tty))
           keys     == Elements(Take(tty, n))
           disables == keys \cap DisableKeys # {}
           event    == IF disables THEN "DISABLE" ELSE "USER_INPUT"
<1>1. n \in 0..Len(tty) /\ tty \in Seq(Keys) /\ view \in View
  BY LenProperties, RuntimeAssumption DEF TypeOK, Least
<1>2. tty' = Drop(tty, n) /\ swallowed' = swallowed \cup keys
      /\ state' = NextState(state, event)
      /\ idle' = IF RecordsActivity(event) THEN 0 ELSE idle
  BY DEF WakeOnInput
<1>3. Drop(tty, n) \in Seq(Keys) /\ keys \subseteq Keys
  <2> HIDE DEF n
  <2> QED BY <1>1, TakeDrop
<1>4. PICK x \in ExitOutcomes(view) :
        Checked(x, IF disables THEN Notice(x.view) ELSE x.view,
                FromOutput(ready))
  BY DEF WakeOnInput
<1> HIDE DEF n, keys
<1>5. \/ /\ swallowed' \cap DisableKeys = swallowed \cap DisableKeys
         /\ state' = "PASSTHROUGH" /\ idle' = 0
      \/ state' = "SCREENSAVER_DISABLED" /\ idle' = idle
  <2>1. state = "SCREENSAVER_ACTIVE"
    BY DEF WakeOnInput
  <2>2. CASE disables
    BY <1>2, <2>1, <2>2 DEF NextState, RecordsActivity
  <2>3. CASE ~ disables
    BY <1>2, <2>1, <2>3 DEF NextState, RecordsActivity
  <2> QED BY <2>2, <2>3
<1> HIDE DEF disables
<1>6. \/ /\ \/ view' = ExitScreensaver(view)
            \/ view' = Notice(ExitScreensaver(view))
         /\ pc' = FromOutput(ready)
         /\ failed' = failed /\ faulted' = faulted
      \/ GaveUp
  BY <1>1, <1>4, CheckedEffect
<1> QED BY <1>2, <1>3, <1>5, <1>6 DEF TypeOK

LEMMA ForwardSliceEffect ==
  ASSUME TypeOK, Len(pending) <= InputCap, ForwardInputSlice
  PROVE  /\ buffer' \in Seq(Keys)
         /\ Len(buffer') + Len(pending') <= Len(buffer) + Len(pending)
         /\ pending' \in Seq(Keys) /\ Len(pending') <= InputCap
         /\ ptyIn' \in Seq(Keys) /\ Len(ptyIn') <= PtyCap
         /\ \/ pc' = AfterSlice(buffer') /\ failed' = failed
            \/ pc' = "cleanup" /\ failed' = TRUE
<1>1. PICK n \in 1..Len(buffer) :
        /\ buffer' = Drop(buffer, n)
        /\ Flush(Take(pending \o Take(buffer, n),
                      Least(InputCap, Len(pending \o Take(buffer, n)))),
                 AfterSlice(buffer'))
  BY DEF ForwardInputSlice
<1> DEFINE joined == pending \o Take(buffer, n)
           fits   == Take(joined, Least(InputCap, Len(joined)))
<1>2. /\ buffer \in Seq(Keys) /\ Len(buffer) \in Nat /\ n \in 0..Len(buffer)
      /\ pending \in Seq(Keys) /\ Len(pending) \in Nat
  BY LenProperties DEF TypeOK
<1>3. /\ Take(buffer, n) \in Seq(Keys) /\ Len(Take(buffer, n)) = n
      /\ Drop(buffer, n) \in Seq(Keys)
      /\ Len(Drop(buffer, n)) = Len(buffer) - n
  BY <1>2, TakeDrop
<1>4. joined \in Seq(Keys) /\ Len(joined) = Len(pending) + n
  BY <1>2, <1>3, ConcatProperties
<1> HIDE DEF joined
<1>5. Least(InputCap, Len(joined)) \in 0..Len(joined)
      /\ Least(InputCap, Len(joined)) <= InputCap
  BY <1>2, <1>4, RuntimeAssumption DEF Least
<1>6. fits \in Seq(Keys) /\ Len(fits) <= InputCap /\ Len(fits) <= Len(joined)
  BY <1>4, <1>5, TakeDrop
<1>7. Flush(fits, AfterSlice(buffer'))
  BY <1>1 DEF joined
<1> HIDE DEF fits
<1>8. /\ pending' \in Seq(Keys) /\ Len(pending') <= Len(fits)
      /\ ptyIn' \in Seq(Keys) /\ Len(ptyIn') <= PtyCap
      /\ \/ pc' = AfterSlice(buffer') /\ failed' = failed
         \/ pc' = "cleanup" /\ failed' = TRUE
  BY <1>6, <1>7, FlushEffect
<1>9. Len(pending') \in Nat /\ Len(fits) \in Nat
  BY <1>6, <1>8, LenProperties
<1> QED BY <1>1, <1>2, <1>3, <1>4, <1>6, <1>8, <1>9, RuntimeAssumption

(* Every step of strange's keeps the types ...                             *)
LEMMA StrangeType ==
  ASSUME TypeOK, Len(pending) <= InputCap, Strange
  PROVE  TypeOK'
<1> USE DEF inputVars, shellVars, signalVars, historyVars, Unaffected
<1>0. /\ view \in View /\ view.drewOver \in BOOLEAN /\ faulted \in BOOLEAN
      /\ state \in RuntimeState /\ output \in Seq(Chunks) /\ room \in 0..InputCap
      /\ NextState(state, "SHUTDOWN") = "SHUTTING_DOWN"
  BY DEF TypeOK, View, NextState
<1>1. CASE SyncResize
  <2>1. /\ SyncWindowSize(view, view.drewOver) \in View
        /\ Notice(ExitScreensaver(SyncWindowSize(view, view.drewOver))) \in View
    BY <1>0, SyncType, ExitType, NoticeType
  <2>2. /\ state' \in RuntimeState /\ view' \in View /\ pc' \in Phases
        /\ failed' \in BOOLEAN /\ faulted' \in BOOLEAN
    BY <1>1, <2>1, SyncResizeEffect DEF TypeOK, Phases, RuntimeState, GaveUp
  <2>3. resizeRequested' \in BOOLEAN
    BY <1>1 DEF SyncResize, TypeOK
  <2> QED BY <1>1, <2>2, <2>3 DEF SyncResize, TypeOK
<1>2. CASE CheckShutdown
  <2>1. view' \in View /\ faulted' \in BOOLEAN
    BY <1>0, <1>2, IgnoredEffect DEF CheckShutdown
  <2> QED BY <1>0, <1>2, <2>1 DEF CheckShutdown, GoTo, TypeOK, Phases, RuntimeState
<1>3. CASE HoldTimer
  BY <1>3, RuntimeAssumption DEF HoldTimer, GoTo, TypeOK, Phases
<1>4. CASE StartScreensaver
  <2>1. /\ Cover(view) \in View /\ Mark(view) \in View
        /\ EnterScreensaver(Mark(view)) \in View
        /\ Notice(ExitScreensaver(Mark(view))) \in View
        /\ Notice(ExitScreensaver(Cover(view))) \in View
    BY <1>0, CoverType, ExitType, NoticeType
  <2>2. /\ state' \in RuntimeState /\ view' \in View /\ pc' \in Phases
        /\ failed' \in BOOLEAN /\ faulted' \in BOOLEAN
    BY <1>4, <2>1, StartEffect DEF TypeOK, Phases, RuntimeState, GaveUp
  <2> QED BY <1>4, <2>2 DEF StartScreensaver, TypeOK
<1>5. CASE NextFrame
  <2>1. Notice(ExitScreensaver(view)) \in View
    BY <1>0, ExitType, NoticeType
  <2>2. /\ state' \in RuntimeState /\ view' \in View /\ pc' \in Phases
        /\ failed' \in BOOLEAN /\ faulted' \in BOOLEAN
    BY <1>5, <2>1, NextFrameEffect DEF TypeOK, Phases, RuntimeState, GaveUp
  <2> QED BY <1>5, <2>2 DEF NextFrame, TypeOK
<1>6. CASE Select
  <2>1. ready' \subseteq {"flush", "stdin", "output"}
    BY <1>6 DEF Select, Selectable
  <2>2. room' \in 0..InputCap
    BY <1>6, LenProperties, RuntimeAssumption DEF Select, InputCapacity, TypeOK
  <2>3. pc' \in Phases /\ failed' = failed
    BY <1>6, FromType DEF Select, GoTo, Phases
  <2> QED BY <1>6, <2>1, <2>2, <2>3 DEF Select, TypeOK
<1>7. CASE SelectInterrupted
  BY <1>7 DEF SelectInterrupted, GoTo, TypeOK, Phases
<1>8. CASE WaitFails
  BY <1>8 DEF WaitFails, Abort, TypeOK, Phases
<1>9. CASE FlushPendingInput
  <2>1. Flush(pending, FromStdin(ready)) /\ pending \in Seq(Keys)
    BY <1>9 DEF FlushPendingInput, TypeOK
  <2>2. /\ pending' \in Seq(Keys) /\ ptyIn' \in Seq(Keys)
        /\ Len(ptyIn') <= PtyCap
        /\ pc' \in Phases /\ failed' \in BOOLEAN
    BY <2>1, FlushEffect, FromType DEF TypeOK, Phases
  <2> QED BY <1>9, <2>2 DEF FlushPendingInput, TypeOK
<1>10. CASE WakeOnInput
  <2>1. /\ ExitScreensaver(view) \in View
        /\ Notice(ExitScreensaver(view)) \in View
        /\ FromOutput(ready) \in Phases
    BY <1>0, ExitType, NoticeType, FromType DEF Phases
  <2>2. tty' \in Seq(Keys) /\ swallowed' \subseteq Keys
    BY <1>10, WakeEffect
  <2>3. state' \in RuntimeState /\ idle' \in 0..Timeout
    BY <1>10, WakeEffect, RuntimeAssumption DEF TypeOK, RuntimeState
  <2>4. view' \in View /\ faulted' \in BOOLEAN
    BY <1>10, <2>1, WakeEffect DEF TypeOK, GaveUp
  <2>5. pc' \in Phases /\ failed' \in BOOLEAN
    BY <1>10, <2>1, WakeEffect DEF TypeOK, GaveUp, Phases
  <2> QED BY <1>10, <2>2, <2>3, <2>4, <2>5 DEF WakeOnInput, TypeOK
<1>11. CASE ReadInput
  <2>1. Least(room, Len(tty)) \in 0..Len(tty) /\ tty \in Seq(Keys)
    BY <1>0, LenProperties, RuntimeAssumption DEF TypeOK, Least
  <2>2. buffer' \in Seq(Keys) /\ tty' \in Seq(Keys)
    BY <1>11, <2>1, TakeDrop DEF ReadInput
  <2> QED BY <1>11, <2>2 DEF ReadInput, GoTo, TypeOK, Phases
<1>12. CASE ForwardInputSlice
  <2>1. AfterSlice(buffer') \in Phases
    BY FromType DEF AfterSlice, Phases
  <2>2. /\ buffer' \in Seq(Keys) /\ pending' \in Seq(Keys)
        /\ ptyIn' \in Seq(Keys) /\ Len(ptyIn') <= PtyCap
        /\ pc' \in Phases /\ failed' \in BOOLEAN
    BY <1>12, <2>1, ForwardSliceEffect DEF TypeOK, Phases
  <2> QED BY <1>12, <2>2, RuntimeAssumption DEF ForwardInputSlice, TypeOK
<1>13. CASE DisableFromKey
  <2>1. Head(buffer) \in Keys /\ Tail(buffer) \in Seq(Keys)
    BY <1>13, HeadTailProperties DEF DisableFromKey, TypeOK
  <2>2. NextState(state, "DISABLE") \in RuntimeState
    BY <1>0, NextStateType DEF RuntimeEvent
  <2>3. view' \in View
    BY <1>0, <1>13, NoticeType DEF DisableFromKey
  <2>4. pc' \in Phases /\ failed' = failed
    BY <1>13, FromType DEF DisableFromKey, AfterSlice, GoTo, Phases
  <2> QED BY <1>13, <2>1, <2>2, <2>3, <2>4 DEF DisableFromKey, TypeOK
<1>14. CASE EndOfInput
  <2>1. view' \in View /\ faulted' \in BOOLEAN
    BY <1>0, <1>14, IgnoredEffect DEF EndOfInput
  <2>2. pc' \in Phases /\ failed' = failed
    BY <1>14, FromType DEF EndOfInput, GoTo, Phases
  <2> QED BY <1>0, <1>14, <2>1, <2>2 DEF EndOfInput, TypeOK, RuntimeState
<1>15. CASE HoldOutput
  <2>1. PICK out \in Batches :
          /\ view' = [view EXCEPT !.held = view.held \o out]
          /\ output' = Drop(output, Len(out))
    BY <1>15 DEF HoldOutput
  <2>2. out \in Seq(Chunks) /\ output' \in Seq(Chunks)
    BY <1>0, <2>1, BatchType
  <2>3. view.held \o out \in Seq(Chunks)
    BY <1>0, <2>2, ConcatProperties DEF View
  <2>4. view' \in View
    BY <1>0, <2>1, <2>3 DEF View
  <2> QED BY <1>15, <2>2, <2>4 DEF HoldOutput, GoTo, TypeOK, Phases
<1>16. CASE OutputOverflow
  <2>1. PICK out \in Batches, x \in ExitOutcomes(view) :
          /\ output' = Drop(output, Len(out))
          /\ IF x.ok THEN Forward(x.view, out)
                     ELSE view' = x.view /\ Abort /\ faulted' = TRUE
    BY <1>16 DEF OutputOverflow
  <2>2. out \in Seq(Chunks) /\ output' \in Seq(Chunks)
    BY <1>0, <2>1, BatchType
  <2>3. x.view \in View /\ ForwardOutput(x.view, out) \in View
    BY <1>0, <2>2, OutcomesType, ForwardType
  <2>4. view' \in View /\ pc' \in Phases /\ failed' \in BOOLEAN
        /\ faulted' \in BOOLEAN
    BY <2>1, <2>3 DEF Forward, GoTo, Abort, Phases, TypeOK
  <2>5. state' \in RuntimeState
    BY <1>0, <1>16, NextStateType DEF OutputOverflow, RuntimeEvent
  <2> QED BY <1>16, <2>2, <2>4, <2>5, RuntimeAssumption DEF OutputOverflow, TypeOK
<1>17. CASE ShowOutput
  <2>1. PICK out \in Batches :
          output' = Drop(output, Len(out)) /\ Forward(view, out)
    BY <1>17 DEF ShowOutput
  <2>2. out \in Seq(Chunks) /\ output' \in Seq(Chunks)
    BY <1>0, <2>1, BatchType
  <2>3. ForwardOutput(view, out) \in View
    BY <1>0, <2>2, ForwardType
  <2>4. view' \in View /\ pc' \in Phases /\ failed' \in BOOLEAN
        /\ faulted' \in BOOLEAN
    BY <1>0, <2>1, <2>3 DEF Forward, GoTo, Abort, Phases, TypeOK
  <2> QED BY <1>17, <2>2, <2>4 DEF ShowOutput, TypeOK
<1>18. CASE EndOfOutput
  <2>1. view' \in View /\ faulted' \in BOOLEAN
    BY <1>0, <1>18, IgnoredEffect DEF EndOfOutput
  <2> QED BY <1>0, <1>18, <2>1 DEF EndOfOutput, GoTo, TypeOK, Phases, RuntimeState
<1>19. CASE PollShellExit
  <2>1. CASE shell = "exited"
    <3>1. view' \in View /\ faulted' \in BOOLEAN
      BY <1>0, <1>19, <2>1, IgnoredEffect DEF PollShellExit
    <3> QED BY <1>0, <1>19, <2>1, <3>1
            DEF PollShellExit, GoTo, TypeOK, Phases, RuntimeState
  <2>2. CASE shell # "exited"
    BY <1>19, <2>2 DEF PollShellExit, GoTo, TypeOK, Phases
  <2> QED BY <2>1, <2>2
<1>20. CASE Cleanup
  <2>1. view' \in View /\ faulted' \in BOOLEAN
    BY <1>0, <1>20, IgnoredEffect DEF Cleanup
  <2>2. tty' \in Seq(Keys)
    BY <1>20, EmptySeq DEF Cleanup
  <2> QED BY <1>20, <2>1, <2>2 DEF Cleanup, GoTo, TypeOK, Phases
<1>21. CASE HangUp
  BY <1>21 DEF HangUp, GoTo, TypeOK, Phases
<1>22. CASE Reap
  BY <1>22 DEF Reap, GoTo, TypeOK, Phases
<1>23. CASE ClockFailsOnInput
  <2>1. Least(room, Len(tty)) \in 0..Len(tty) /\ tty \in Seq(Keys)
    BY <1>0, LenProperties, RuntimeAssumption DEF TypeOK, Least
  <2>2. buffer' \in Seq(Keys) /\ tty' \in Seq(Keys)
    BY <1>23, <2>1, TakeDrop DEF ClockFailsOnInput
  <2> QED BY <1>23, <2>2 DEF ClockFailsOnInput, Abort, TypeOK, Phases
<1>24. CASE ClockFailsOnOutput
  <2>1. PICK out \in Batches : dropped' = out /\ output' = Drop(output, Len(out))
    BY <1>24 DEF ClockFailsOnOutput
  <2>2. dropped' \in Seq(Chunks) /\ output' \in Seq(Chunks)
    BY <1>0, <2>1, BatchType
  <2> QED BY <1>24, <2>2 DEF ClockFailsOnOutput, Abort, TypeOK, Phases
<1> QED BY <1>1, <1>2, <1>3, <1>4, <1>5, <1>6, <1>7, <1>8, <1>9, <1>10, <1>11,
           <1>12, <1>13, <1>14, <1>15, <1>16, <1>17, <1>18, <1>19, <1>20,
           <1>21, <1>22, <1>23, <1>24 DEF Strange

(* ... and so does every step of anything else.                            *)
LEMMA EnvironmentType ==
  ASSUME TypeOK, Environment
  PROVE  TypeOK'
<1> USE DEF shellVars, signalVars, strangeVars
<1>1. CASE \E k \in Keys : Press(k)
  <2>1. PICK k \in Keys : Press(k)
    BY <1>1
  <2>2. Append(typed, k) \in Seq(Keys) /\ Append(tty, k) \in Seq(Keys)
    BY AppendProperties DEF TypeOK
  <2> QED BY <2>1, <2>2 DEF Press, TypeOK
<1>2. CASE TerminalCloses \/ ShutdownSignal \/ ResizeSignal
  BY <1>2, ZenonT(40) DEF TerminalCloses, ShutdownSignal, ResizeSignal, TypeOK
<1>3. CASE Tick
  BY <1>3, RuntimeAssumption DEF Tick, TypeOK
<1>4. CASE ShellReads
  <2>1. ptyIn \in Seq(Keys) /\ ptyIn # <<>> /\ received \in Seq(Keys)
    BY <1>4 DEF ShellReads, TypeOK
  <2>2. /\ Head(ptyIn) \in Keys /\ Tail(ptyIn) \in Seq(Keys)
        /\ Len(Tail(ptyIn)) = Len(ptyIn) - 1 /\ Len(ptyIn) \in Nat
    BY <2>1, HeadTailProperties, LenProperties
  <2>3. Append(received, Head(ptyIn)) \in Seq(Keys)
    BY <2>1, <2>2, AppendProperties
  <2>4. ptyIn' \in Seq(Keys) /\ Len(ptyIn') <= PtyCap /\ received' \in Seq(Keys)
    BY <1>4, <2>2, <2>3, RuntimeAssumption DEF ShellReads, TypeOK
  <2> QED BY <1>4, <2>4 DEF ShellReads, TypeOK
<1>5. CASE \E c \in Chunks : ShellWrites(c)
  <2>1. PICK c \in Chunks : ShellWrites(c)
    BY <1>5
  <2>2. Append(written, c) \in Seq(Chunks) /\ Append(output, c) \in Seq(Chunks)
    BY AppendProperties DEF TypeOK
  <2> QED BY <2>1, <2>2 DEF ShellWrites, TypeOK
<1>6. CASE ShellCloses \/ ShellExits \/ JobStarts \/ JobEnds
  BY <1>6, ZenonT(40) DEF ShellCloses, ShellExits, JobStarts, JobEnds, TypeOK
<1> QED BY <1>1, <1>2, <1>3, <1>4, <1>5, <1>6 DEF Environment

-----------------------------------------------------------------------------
(* The screen.                                                             *)

ScreenInv ==
  /\ CoveredIffActive
  /\ HeldInv
  /\ HealthyInv
  /\ FullscreenNotCovered

Ending == {"hangup", "reap", "done"}

(* A step that leaves the screen uncovered keeps the invariant.            *)
LEMMA UncoveredStep ==
  ASSUME ~ view'.visible, view'.held = <<>>, faulted' \/ Healthy(view'),
         state' # "SCREENSAVER_ACTIVE" \/ pc' \in Ending
  PROVE  ScreenInv'
BY DEF ScreenInv, CoveredIffActive, HeldInv, HealthyInv, FullscreenNotCovered,
       Showing, Ending, Healthy

(* So does one that touches neither the screen nor the state.              *)
LEMMA QuietStep ==
  ASSUME ScreenInv, view' = view, state' = state, faulted => faulted',
         pc \in Ending <=> pc' \in Ending
  PROVE  ScreenInv'
BY DEF ScreenInv, CoveredIffActive, HeldInv, HealthyInv, FullscreenNotCovered,
       Showing, Ending, Healthy

(* Uncovering and printing a message under it.                             *)
LEMMA NoticeExit ==
  ASSUME NEW v \in View
  PROVE  /\ Notice(ExitScreensaver(v)) \in View
         /\ ~ Notice(ExitScreensaver(v)).visible
         /\ Notice(ExitScreensaver(v)).held = <<>>
         /\ Healthy(ExitScreensaver(v)) => Healthy(Notice(ExitScreensaver(v)))
<1>1. /\ ExitScreensaver(v) \in View
      /\ ~ ExitScreensaver(v).visible /\ ExitScreensaver(v).held = <<>>
  BY ExitType
<1>2. /\ ~ Notice(ExitScreensaver(v)).visible
      /\ Notice(ExitScreensaver(v)).held = <<>>
  BY <1>1 DEF Notice, View
<1> QED BY <1>1, <1>2, NoticeType, NoticeHealthy

(* Every event that may only find the screensaver showing by accident.     *)
LEMMA ShutdownStep ==
  ASSUME TypeOK, ScreenInv, pc \notin Ending,
         \E x \in EventOutcomes(view, state, "SHUTTING_DOWN") : Ignored(x),
         state' = "SHUTTING_DOWN" \/ pc' \in Ending
  PROVE  ScreenInv'
<1>1. /\ view \in View /\ faulted \in BOOLEAN /\ HeldInv
      /\ view.visible <=> Showing
      /\ faulted \/ Healthy(view)
  BY DEF TypeOK, ScreenInv, CoveredIffActive, Ending, HealthyInv
<1>2. Exits(state, "SHUTTING_DOWN") <=> Showing
  BY DEF Exits, Showing
<1>3. /\ faulted => faulted'
      /\ ~ Showing => view' = view /\ faulted' = faulted
      /\ Showing => ~ view'.visible /\ view'.held = <<>>
      /\ Showing /\ ~ faulted' => view' = ExitScreensaver(view)
  BY <1>1, <1>2, IgnoredEffect
<1>4. CASE Showing
  <2>1. faulted' \/ Healthy(view')
    BY <1>1, <1>3, <1>4, ExitHealthy
  <2> QED BY <1>3, <1>4, <2>1, UncoveredStep
<1>5. CASE ~ Showing
  <2>1. ~ view'.visible /\ view'.held = <<>> /\ (faulted' \/ Healthy(view'))
    BY <1>1, <1>3, <1>5 DEF HeldInv
  <2> QED BY <2>1, UncoveredStep
<1> QED BY <1>4, <1>5

(* Forwarding output to an uncovered screen, or failing to.                *)
LEMMA ForwardStep ==
  ASSUME NEW v \in View, ~ v.visible, v.held = <<>>, faulted \/ Healthy(v),
         NEW out \in Seq(Chunks), Forward(v, out),
         state' # "SCREENSAVER_ACTIVE"
  PROVE  ScreenInv'
<1>1. CASE view' = ForwardOutput(v, out) /\ faulted' = faulted
  <2>1. ~ ForwardOutput(v, out).visible /\ ForwardOutput(v, out).held = <<>>
    BY DEF ForwardOutput, View
  <2>2. faulted' \/ Healthy(view')
    BY <1>1, ForwardHealthy
  <2> QED BY <1>1, <2>1, <2>2, UncoveredStep
<1>2. CASE view' = v /\ faulted' = TRUE
  BY <1>2, UncoveredStep
<1> QED BY <1>1, <1>2 DEF Forward, Abort

(* A turn of the loop never separates the screen from the state machine,   *)
(* on any path.                                                            *)
LEMMA ScreenStep ==
  ASSUME TypeOK, RoomInv, ScreenInv, Strange
  PROVE  ScreenInv'
<1>0. /\ view \in View /\ faulted \in BOOLEAN /\ view.drewOver \in BOOLEAN
      /\ view.modes.alt \in BOOLEAN
      /\ ~ view.visible => view.held = <<>>
      /\ faulted \/ Healthy(view)
      /\ pc \notin Ending => (view.visible <=> Showing)
      /\ Len(pending) <= InputCap
      /\ pc = "slice" => ~ Showing
  BY DEF RoomInv, TypeOK, View, Modes, ScreenInv, CoveredIffActive, HeldInv, HealthyInv,
         Ending
<1>1. CASE SyncResize
  <2> DEFINE synced == SyncWindowSize(view, view.drewOver)
  <2>1. pc \notin Ending
    BY <1>1 DEF SyncResize, Ending
  <2>2. /\ synced \in View /\ synced.visible = view.visible
        /\ synced.held = view.held /\ synced.modes = view.modes
        /\ synced.drewOver = view.drewOver
        /\ faulted \/ Healthy(synced)
    BY <1>0, SyncType, SyncHealthy DEF SyncWindowSize, View
  <2> HIDE DEF synced
  <2>3. CASE /\ pc' = "check" /\ faulted' = faulted /\ state' = state
             /\ view' = view \/ view' = synced
    BY <1>0, <2>1, <2>2, <2>3
       DEF ScreenInv, CoveredIffActive, HeldInv, HealthyInv, Ending, Showing,
           FullscreenNotCovered
  <2>4. CASE pc' = "cleanup" /\ faulted' = TRUE /\ state' = state /\ view' = view
    BY <2>1, <2>4, QuietStep DEF Ending
  <2>5. CASE /\ state' = "SCREENSAVER_DISABLED" /\ faulted' = faulted
             /\ view' = Notice(ExitScreensaver(synced))
    <3>1. faulted \/ Healthy(ExitScreensaver(synced))
      BY <2>2, ExitHealthy
    <3> QED BY <2>2, <2>5, <3>1, NoticeExit, UncoveredStep
  <2>6. CASE state' = "SCREENSAVER_DISABLED" /\ GaveUp
    BY <2>6, UncoveredStep DEF GaveUp
  <2> QED BY <1>1, <2>3, <2>4, <2>5, <2>6, SyncResizeEffect DEF synced
<1>2. CASE CheckShutdown
  <2>1. pc \notin Ending /\ state' = "SHUTTING_DOWN"
    BY <1>2 DEF CheckShutdown, Ending, NextState
  <2> QED BY <1>2, <2>1, ShutdownStep DEF CheckShutdown
<1>3. CASE HoldTimer
  BY <1>3, QuietStep DEF HoldTimer, GoTo, Ending
<1>4. CASE StartScreensaver
  <2>1. /\ pc \notin Ending /\ ~ view.visible
        /\ ~ CoverFullscreen => ~ view.modes.alt
    BY <1>0, <1>4
       DEF StartScreensaver, InactivityTimeoutDue, Ending, Showing, FullscreenHolds
  <2>2. CASE state' = "SCREENSAVER_ACTIVE" /\ view' = Cover(view)
             /\ pc' = "select" /\ faulted' = faulted
    <3>1. faulted' \/ Healthy(view')
      BY <1>0, <2>1, <2>2, CoverHealthy
    <3>2. /\ view'.visible /\ view'.modes = view.modes
          /\ view'.drewOver = view.modes.alt
      BY <1>0, <2>2, CoverType
    <3> QED BY <2>1, <2>2, <3>1, <3>2
            DEF ScreenInv, CoveredIffActive, HeldInv, HealthyInv, Showing,
                FullscreenNotCovered
  <2>3. CASE state' = "SCREENSAVER_ACTIVE"
             /\ view' = EnterScreensaver(Mark(view))
             /\ pc' = "cleanup" /\ faulted' = TRUE
    <3>1. /\ view'.visible /\ view'.modes = view.modes
          /\ view'.drewOver = view.modes.alt
      BY <1>0, <2>3, CoverType
    <3> QED BY <2>1, <2>3, <3>1
            DEF ScreenInv, CoveredIffActive, HeldInv, HealthyInv, Showing,
                FullscreenNotCovered
  <2>4. CASE state' = "SCREENSAVER_DISABLED" /\ faulted' = faulted
             /\ view' = Notice(ExitScreensaver(Mark(view)))
    <3>1. Mark(view) \in View
      BY <1>0, CoverType
    <3>2. faulted \/ Healthy(ExitScreensaver(Mark(view)))
      BY <1>0, <2>1, MarkedExitHealthy
    <3> QED BY <2>4, <3>1, <3>2, NoticeExit, UncoveredStep
  <2>5. CASE state' = "SCREENSAVER_DISABLED" /\ faulted' = faulted
             /\ view' = Notice(ExitScreensaver(Cover(view)))
    <3>1. Cover(view) \in View
      BY <1>0, CoverType
    <3>2. faulted \/ Healthy(ExitScreensaver(Cover(view)))
      BY <1>0, <2>1, <3>1, CoverHealthy, ExitHealthy
    <3> QED BY <2>5, <3>1, <3>2, NoticeExit, UncoveredStep
  <2>6. CASE state' = "SCREENSAVER_DISABLED" /\ GaveUp
    BY <2>6, UncoveredStep DEF GaveUp
  <2> QED BY <1>4, <2>2, <2>3, <2>4, <2>5, <2>6, StartEffect
<1>5. CASE NextFrame
  <2>1. pc \notin Ending
    BY <1>5 DEF NextFrame, Ending
  <2>2. CASE state' = state /\ view' = view /\ pc' = "select" /\ faulted' = faulted
    BY <2>1, <2>2, QuietStep DEF Ending
  <2>3. CASE state' = "SCREENSAVER_DISABLED" /\ faulted' = faulted
             /\ view' = Notice(ExitScreensaver(view))
    <3>1. faulted \/ Healthy(ExitScreensaver(view))
      BY <1>0, ExitHealthy
    <3> QED BY <1>0, <2>3, <3>1, NoticeExit, UncoveredStep
  <2>4. CASE state' = "SCREENSAVER_DISABLED" /\ GaveUp
    BY <2>4, UncoveredStep DEF GaveUp
  <2> QED BY <1>5, <2>2, <2>3, <2>4, NextFrameEffect
<1>6. CASE Select
  <2>1. pc' \notin Ending
    BY <1>6, FromType DEF Select, GoTo, Ending
  <2> QED BY <1>6, <2>1, QuietStep DEF Select, Ending
<1>7. CASE SelectInterrupted \/ WaitFails \/ ClockFailsOnInput \/ ClockFailsOnOutput
  BY <1>7, QuietStep DEF SelectInterrupted, WaitFails, ClockFailsOnInput,
     ClockFailsOnOutput, GoTo, Abort, Ending
<1>8. CASE FlushPendingInput
  <2>1. Flush(pending, FromStdin(ready)) /\ pending \in Seq(Keys)
    BY <1>8 DEF FlushPendingInput, TypeOK
  <2>2. pc' \notin Ending
    BY <2>1, FlushEffect, FromType DEF Ending
  <2> QED BY <1>8, <2>2, QuietStep DEF FlushPendingInput, Ending
<1>9. CASE WakeOnInput
  <2>1. state' # "SCREENSAVER_ACTIVE"
    BY <1>9, WakeEffect
  <2>2. CASE GaveUp
    BY <2>1, <2>2, UncoveredStep DEF GaveUp
  <2>3. CASE \/ view' = ExitScreensaver(view) /\ faulted' = faulted
             \/ view' = Notice(ExitScreensaver(view)) /\ faulted' = faulted
    <3>1. faulted' \/ Healthy(ExitScreensaver(view))
      BY <1>0, <2>3, ExitHealthy
    <3>2. ~ view'.visible /\ view'.held = <<>> /\ (faulted' \/ Healthy(view'))
      BY <1>0, <2>3, <3>1, ExitType, NoticeExit
    <3> QED BY <2>1, <3>2, UncoveredStep
  <2> QED BY <1>9, <2>2, <2>3, WakeEffect
<1>10. CASE ReadInput
  BY <1>10, QuietStep DEF ReadInput, GoTo, Ending
<1>11. CASE ForwardInputSlice
  <2>1. pc' \notin Ending
    BY <1>0, <1>11, ForwardSliceEffect, FromType DEF AfterSlice, Ending
  <2> QED BY <1>11, <2>1, QuietStep DEF ForwardInputSlice, Ending
<1>12. CASE DisableFromKey
  <2>1. pc = "slice" /\ pc' \notin Ending /\ faulted' = faulted
    BY <1>12, FromType DEF DisableFromKey, GoTo, AfterSlice, Ending
  <2>2. state # "SCREENSAVER_ACTIVE" /\ ~ view.visible
    BY <1>0, <2>1 DEF Ending, Showing
  <2>3. state' # "SCREENSAVER_ACTIVE"
    BY <1>12, <2>2 DEF DisableFromKey, NextState
  <2>4. ~ view'.visible /\ view'.held = <<>> /\ (faulted' \/ Healthy(view'))
    <3>1. CASE view' = view
      BY <1>0, <2>1, <2>2, <3>1
    <3>2. CASE view' = Notice(view)
      <4>1. ~ Notice(view).visible /\ Notice(view).held = view.held
        BY <1>0, <2>2 DEF Notice, View
      <4> QED BY <1>0, <2>1, <2>2, <3>2, <4>1, NoticeHealthy
    <3> QED BY <1>12, <3>1, <3>2 DEF DisableFromKey
  <2> QED BY <2>3, <2>4, UncoveredStep
<1>13. CASE EndOfInput
  <2>1. pc \notin Ending /\ state' = "SHUTTING_DOWN"
    BY <1>13 DEF EndOfInput, Ending, NextState
  <2> QED BY <1>13, <2>1, ShutdownStep DEF EndOfInput
<1>14. CASE HoldOutput
  <2>1. PICK out \in Batches : view' = [view EXCEPT !.held = view.held \o out]
    BY <1>14 DEF HoldOutput
  <2>2. /\ pc \notin Ending /\ pc' \notin Ending /\ Showing /\ Showing'
        /\ faulted' = faulted
    BY <1>14 DEF HoldOutput, GoTo, Ending, Showing
  <2>3. /\ view'.visible = view.visible /\ view'.modes = view.modes
        /\ view'.drewOver = view.drewOver /\ view'.screen = view.screen
        /\ view'.onAlt = view.onAlt /\ view'.misreported = view.misreported
    BY <1>0, <2>1 DEF View
  <2>4. Healthy(view) => Healthy(view')
    BY <2>3 DEF Healthy
  <2> QED BY <1>0, <2>2, <2>3, <2>4
          DEF ScreenInv, CoveredIffActive, HeldInv, HealthyInv, Showing,
              FullscreenNotCovered, Ending
<1>15. CASE OutputOverflow
  <2>1. PICK out \in Batches, x \in ExitOutcomes(view) :
          IF x.ok THEN Forward(x.view, out)
                  ELSE view' = x.view /\ Abort /\ faulted' = TRUE
    BY <1>15 DEF OutputOverflow
  <2>2. out \in Seq(Chunks)
    BY <2>1, BatchType DEF TypeOK
  <2>3. /\ x.view \in View /\ ~ x.view.visible /\ x.view.held = <<>>
        /\ x.ok => x.view = ExitScreensaver(view)
    BY <1>0, OutcomesType
  <2>4. state' # "SCREENSAVER_ACTIVE"
    BY <1>15 DEF OutputOverflow, NextState
  <2>5. CASE x.ok
    <3>1. faulted \/ Healthy(x.view)
      BY <1>0, <2>3, <2>5, ExitHealthy
    <3> QED BY <2>1, <2>2, <2>3, <2>4, <2>5, <3>1, ForwardStep
  <2>6. CASE ~ x.ok
    BY <2>1, <2>3, <2>4, <2>6, UncoveredStep
  <2> QED BY <2>5, <2>6
<1>16. CASE ShowOutput
  <2>1. PICK out \in Batches : Forward(view, out)
    BY <1>16 DEF ShowOutput
  <2>2. out \in Seq(Chunks)
    BY <2>1, BatchType DEF TypeOK
  <2>3. ~ view.visible /\ state' # "SCREENSAVER_ACTIVE"
    BY <1>0, <1>16 DEF ShowOutput, Ending, Showing
  <2> QED BY <1>0, <2>1, <2>2, <2>3, ForwardStep
<1>17. CASE EndOfOutput
  <2>1. pc \notin Ending /\ state' = "SHUTTING_DOWN"
    BY <1>17 DEF EndOfOutput, Ending, NextState
  <2> QED BY <1>17, <2>1, ShutdownStep DEF EndOfOutput
<1>18. CASE PollShellExit
  <2>1. CASE shell = "exited"
    <3>1. pc \notin Ending /\ state' = "SHUTTING_DOWN"
      BY <1>18, <2>1 DEF PollShellExit, Ending, NextState
    <3> QED BY <1>18, <2>1, <3>1, ShutdownStep DEF PollShellExit
  <2>2. CASE shell # "exited"
    BY <1>18, <2>2, QuietStep DEF PollShellExit, GoTo, Ending
  <2> QED BY <2>1, <2>2
<1>19. CASE Cleanup
  <2>1. pc \notin Ending /\ pc' \in Ending
    BY <1>19 DEF Cleanup, GoTo, Ending
  <2> QED BY <1>19, <2>1, ShutdownStep DEF Cleanup
<1>20. CASE HangUp \/ Reap
  BY <1>20, QuietStep DEF HangUp, Reap, GoTo, Ending
<1> QED BY <1>1, <1>2, <1>3, <1>4, <1>5, <1>6, <1>7, <1>8, <1>9, <1>10, <1>11,
           <1>12, <1>13, <1>14, <1>15, <1>16, <1>17, <1>18, <1>19, <1>20
        DEF Strange

-----------------------------------------------------------------------------
(* The order of output, step by step.                                      *)

(* Screens that differ in neither stand for the same output ...            *)
LEMMA OrderSame ==
  ASSUME NEW v, NEW w, w.shown = v.shown, w.held = v.held, NEW out
  PROVE  Order(w, out) = Order(v, out)
BY DEF Order

(* ... also after uncovering, with or without a message.                   *)
LEMMA OrderUncovered ==
  ASSUME NEW v \in View, NEW w \in View, w.shown = v.shown, w.held = v.held,
         NEW out \in Seq(Chunks)
  PROVE  /\ Order(ExitScreensaver(w), out) = Order(v, out)
         /\ Order(Notice(ExitScreensaver(w)), out) = Order(v, out)
<1>1. Order(ExitScreensaver(w), out) = Order(w, out)
  BY OrderExit
<1>2. Order(w, out) = Order(v, out)
  BY OrderSame
<1>3. /\ Notice(ExitScreensaver(w)).shown = ExitScreensaver(w).shown
      /\ Notice(ExitScreensaver(w)).held = ExitScreensaver(w).held
  BY ExitType DEF Notice, View
<1>4. Order(Notice(ExitScreensaver(w)), out) = Order(ExitScreensaver(w), out)
  BY <1>3, OrderSame
<1> QED BY <1>1, <1>2, <1>4

LEMMA ScreenOrder ==
  ASSUME NEW v \in View
  PROVE  /\ Mark(v) \in View /\ Mark(v).shown = v.shown /\ Mark(v).held = v.held
         /\ Cover(v) \in View /\ Cover(v).shown = v.shown /\ Cover(v).held = v.held
         /\ Notice(v).shown = v.shown /\ Notice(v).held = v.held
         /\ SyncWindowSize(v, v.drewOver) \in View
         /\ SyncWindowSize(v, v.drewOver).shown = v.shown
         /\ SyncWindowSize(v, v.drewOver).held = v.held
<1>1. v.drewOver \in BOOLEAN
  BY DEF View
<1> QED BY <1>1, CoverType, SyncType DEF Mark, Notice, SyncWindowSize, View

(* What a step that reads no output leaves of the order.                   *)
KeepsOrder ==
  /\ written' = written /\ output' = output /\ dropped' = dropped
  /\ faulted \/ faulted' \/ Order(view', dropped) = Order(view, dropped)
  /\ faulted => faulted'

(* Ignoring the result of an event loses output only if that is noted.     *)
LEMMA IgnoredOrder ==
  ASSUME TypeOK, \E x \in EventOutcomes(view, state, "SHUTTING_DOWN") : Ignored(x)
  PROVE  /\ faulted => faulted'
         /\ faulted' \/ Order(view', dropped) = Order(view, dropped)
<1>1. view \in View /\ dropped \in Seq(Chunks) /\ faulted \in BOOLEAN
  BY DEF TypeOK
<1>2. Order(ExitScreensaver(view), dropped) = Order(view, dropped)
  BY <1>1, OrderExit
<1> QED BY <1>1, <1>2, IgnoredEffect

LEMMA QuietOrder ==
  ASSUME TypeOK, Strange
  PROVE  KeepsOrder \/ HoldOutput \/ OutputOverflow \/ ShowOutput
         \/ ClockFailsOnOutput
<1> USE DEF historyVars, Unaffected, KeepsOrder
<1>0. view \in View /\ dropped \in Seq(Chunks) /\ faulted \in BOOLEAN
  BY DEF TypeOK
<1>1. CASE SyncResize
  <2> DEFINE synced == SyncWindowSize(view, view.drewOver)
  <2>1. /\ Order(synced, dropped) = Order(view, dropped)
        /\ Order(Notice(ExitScreensaver(synced)), dropped) = Order(view, dropped)
    BY <1>0, ScreenOrder, OrderSame, OrderUncovered
  <2>2. faulted' = faulted \/ faulted' = TRUE
    BY <1>1, SyncResizeEffect DEF GaveUp
  <2>3. faulted' \/ Order(view', dropped) = Order(view, dropped)
    BY <1>1, <2>1, SyncResizeEffect DEF GaveUp
  <2> QED BY <1>1, <2>2, <2>3 DEF SyncResize
<1>2. CASE CheckShutdown \/ EndOfInput \/ EndOfOutput \/ Cleanup
  <2>1. \E x \in EventOutcomes(view, state, "SHUTTING_DOWN") : Ignored(x)
    BY <1>2 DEF CheckShutdown, EndOfInput, EndOfOutput, Cleanup
  <2>2. written' = written /\ output' = output /\ dropped' = dropped
    BY <1>2 DEF CheckShutdown, EndOfInput, EndOfOutput, Cleanup
  <2> QED BY <2>1, <2>2, IgnoredOrder
<1>3. CASE PollShellExit
  <2>1. CASE shell = "exited"
    BY <1>3, <2>1, IgnoredOrder DEF PollShellExit
  <2>2. CASE shell # "exited"
    BY <1>3, <2>2 DEF PollShellExit
  <2> QED BY <2>1, <2>2
<1>4. CASE StartScreensaver
  <2>1. /\ Order(Cover(view), dropped) = Order(view, dropped)
        /\ Order(Notice(ExitScreensaver(Mark(view))), dropped) = Order(view, dropped)
        /\ Order(Notice(ExitScreensaver(Cover(view))), dropped) = Order(view, dropped)
    BY <1>0, ScreenOrder, OrderSame, OrderUncovered
  <2>2. faulted' = faulted \/ faulted' = TRUE
    BY <1>4, StartEffect DEF GaveUp
  <2>3. faulted' \/ Order(view', dropped) = Order(view, dropped)
    BY <1>4, <2>1, StartEffect DEF GaveUp
  <2> QED BY <1>4, <2>2, <2>3 DEF StartScreensaver
<1>5. CASE NextFrame
  <2>1. Order(Notice(ExitScreensaver(view)), dropped) = Order(view, dropped)
    BY <1>0, OrderUncovered
  <2>2. faulted' = faulted \/ faulted' = TRUE
    BY <1>5, NextFrameEffect DEF GaveUp
  <2>3. faulted' \/ Order(view', dropped) = Order(view, dropped)
    BY <1>5, <2>1, NextFrameEffect DEF GaveUp
  <2> QED BY <1>5, <2>2, <2>3 DEF NextFrame
<1>6. CASE WakeOnInput
  <2>1. /\ Order(ExitScreensaver(view), dropped) = Order(view, dropped)
        /\ Order(Notice(ExitScreensaver(view)), dropped) = Order(view, dropped)
    BY <1>0, OrderUncovered
  <2>2. faulted' = faulted \/ faulted' = TRUE
    BY <1>6, WakeEffect DEF GaveUp
  <2>3. faulted' \/ Order(view', dropped) = Order(view, dropped)
    BY <1>6, <2>1, WakeEffect DEF GaveUp
  <2> QED BY <1>6, <2>2, <2>3 DEF WakeOnInput
<1>7. CASE DisableFromKey
  <2>1. Order(Notice(view), dropped) = Order(view, dropped)
    BY <1>0, ScreenOrder, OrderSame
  <2> QED BY <1>7, <2>1 DEF DisableFromKey
<1>8. CASE \/ HoldTimer \/ Select \/ SelectInterrupted \/ WaitFails
           \/ FlushPendingInput \/ ReadInput \/ ForwardInputSlice
           \/ ClockFailsOnInput \/ HangUp \/ Reap
  BY <1>8 DEF HoldTimer, Select, SelectInterrupted, WaitFails, ClockFailsOnInput,
       FlushPendingInput, ReadInput, ForwardInputSlice, HangUp, Reap
<1> QED BY <1>1, <1>2, <1>3, <1>4, <1>5, <1>6, <1>7, <1>8 DEF Strange

(* Once strange has given up it reads no more and shows no more.           *)
LEMMA NoWayBack ==
  ASSUME TypeOK, Strange, pc \in {"cleanup"} \cup Ending
  PROVE  pc' \in {"cleanup"} \cup Ending /\ failed' = failed
<1>1. Cleanup \/ HangUp \/ Reap
  BY ONLY Strange, pc \in {"cleanup"} \cup Ending, Zenon
     DEF Ending, Strange, SyncResize, CheckShutdown, HoldTimer, StartScreensaver,
     NextFrame, Select, SelectInterrupted, WaitFails, FlushPendingInput,
     WakeOnInput, ClockFailsOnInput, ReadInput, ForwardInputSlice,
     DisableFromKey, EndOfInput, HoldOutput, OutputOverflow, ShowOutput,
     EndOfOutput, ClockFailsOnOutput, PollShellExit
<1> QED BY <1>1 DEF Cleanup, HangUp, Reap, GoTo, Ending

LEMMA OrderStep ==
  ASSUME TypeOK, TypeOK', ScreenInv, OutputInOrder, Strange
  PROVE  OutputInOrder'
<1> USE DEF historyVars
<1>0. /\ view \in View /\ output \in Seq(Chunks) /\ faulted \in BOOLEAN
      /\ dropped \in Seq(Chunks) /\ view' \in View /\ output' \in Seq(Chunks)
      /\ faulted \/ Order(view, dropped) \o output = written
      /\ faulted \/ dropped = <<>> \/ (failed /\ pc \in {"cleanup"} \cup Ending)
      /\ ~ view.visible => view.held = <<>>
      /\ pc \notin Ending => (view.visible <=> Showing)
  BY DEF TypeOK, OutputInOrder, Order, ScreenInv, HeldInv, CoveredIffActive, Ending
<1> SUFFICES /\ faulted' \/ Order(view', dropped') \o output' = written'
             /\ \/ faulted' \/ dropped' = <<>>
                \/ failed' /\ pc' \in {"cleanup"} \cup Ending
  BY DEF OutputInOrder, Order, Ending
<1>1. CASE KeepsOrder
  BY <1>0, <1>1, NoWayBack DEF KeepsOrder
<1>a. ASSUME pc = "output", ~ faulted
      PROVE  dropped = <<>> /\ Order(view, output) = written
  <2>1. dropped = <<>>
    BY <1>0, <1>a DEF Ending
  <2>2. view.shown \o view.held \in Seq(Chunks)
    BY <1>0, ConcatProperties DEF View
  <2>3. Order(view, <<>>) = view.shown \o view.held
    BY <2>2, ConcatEmptySeq DEF Order
  <2> QED BY <1>0, <1>a, <2>1, <2>3 DEF Order
<1>b. ASSUME pc = "output", dropped' = dropped, faulted => faulted',
             output' \in Seq(Chunks), view' \in View, written' = written,
             ~ faulted' => Order(view', output') = Order(view, output)
      PROVE  /\ faulted' \/ Order(view', dropped') \o output' = written'
             /\ faulted' \/ dropped' = <<>>
  <2> SUFFICES ASSUME ~ faulted' PROVE
        Order(view', dropped') \o output' = written' /\ dropped' = <<>>
    OBVIOUS
  <2>1. dropped' = <<>> /\ Order(view', output') = written'
    BY <1>a, <1>b
  <2>2. view'.shown \o view'.held \in Seq(Chunks)
    BY <1>b, ConcatProperties DEF View
  <2>3. Order(view', <<>>) = view'.shown \o view'.held
    BY <2>2, ConcatEmptySeq DEF Order
  <2> QED BY <2>1, <2>3 DEF Order
<1>2. CASE HoldOutput
  <2>1. PICK out \in Batches :
          /\ view' = [view EXCEPT !.held = view.held \o out]
          /\ output' = Drop(output, Len(out))
    BY <1>2 DEF HoldOutput
  <2>2. out \in Seq(Chunks) /\ output' \in Seq(Chunks) /\ out \o output' = output
    BY <1>0, <2>1, BatchType
  <2>3. Order(view', output') = Order(view, output)
    <3>1. Order([view EXCEPT !.held = view.held \o out], output')
            = Order(view, out \o output')
      BY <1>0, <2>2, OrderHold
    <3> QED BY <2>1, <2>2, <3>1
  <2>4. /\ pc = "output" /\ dropped' = dropped /\ faulted' = faulted
        /\ written' = written
    BY <1>2 DEF HoldOutput
  <2> QED BY <1>0, <1>b, <2>3, <2>4
<1>3. CASE OutputOverflow
  <2>1. PICK out \in Batches, x \in ExitOutcomes(view) :
          /\ output' = Drop(output, Len(out))
          /\ IF x.ok THEN Forward(x.view, out)
                     ELSE view' = x.view /\ Abort /\ faulted' = TRUE
    BY <1>3 DEF OutputOverflow
  <2>2. out \in Seq(Chunks) /\ output' \in Seq(Chunks) /\ out \o output' = output
    BY <1>0, <2>1, BatchType
  <2>3. CASE x.ok
    <3>1. x.view = ExitScreensaver(view) /\ x.view \in View /\ x.view.held = <<>>
      BY <1>0, <2>3, OutcomesType
    <3>2. faulted' \/ Order(view', output') = Order(x.view, output)
      <4>1. Order(ForwardOutput(x.view, out), output')
              = Order(x.view, out \o output')
        BY <2>2, <3>1, OrderForward
      <4> QED BY <2>1, <2>2, <2>3, <4>1 DEF Forward
    <3>3. Order(x.view, output) = Order(view, output)
      BY <1>0, <3>1, OrderExit
    <3>4. faulted' \/ faulted' = faulted
      BY <2>1, <2>3 DEF Forward
    <3>5. pc = "output" /\ dropped' = dropped /\ written' = written
      BY <1>3 DEF OutputOverflow
    <3> QED BY <1>0, <1>b, <3>2, <3>3, <3>4, <3>5
  <2>4. CASE ~ x.ok
    BY <2>1, <2>4
  <2> QED BY <2>3, <2>4
<1>4. CASE ShowOutput
  <2>1. PICK out \in Batches :
          output' = Drop(output, Len(out)) /\ Forward(view, out)
    BY <1>4 DEF ShowOutput
  <2>2. out \in Seq(Chunks) /\ output' \in Seq(Chunks) /\ out \o output' = output
    BY <1>0, <2>1, BatchType
  <2>3. view.held = <<>>
    BY <1>0, <1>4 DEF ShowOutput, Ending, Showing
  <2>4. faulted' \/ Order(view', output') = Order(view, output)
    <3>1. Order(ForwardOutput(view, out), output') = Order(view, out \o output')
      BY <1>0, <2>2, <2>3, OrderForward
    <3> QED BY <2>1, <2>2, <3>1 DEF Forward
  <2>5. faulted' \/ faulted' = faulted
    BY <2>1 DEF Forward
  <2>6. pc = "output" /\ dropped' = dropped /\ written' = written
    BY <1>4 DEF ShowOutput
  <2> QED BY <1>0, <1>b, <2>4, <2>5, <2>6
<1>5. CASE ClockFailsOnOutput
  <2>1. PICK out \in Batches : dropped' = out /\ output' = Drop(output, Len(out))
    BY <1>5 DEF ClockFailsOnOutput
  <2>2. out \in Seq(Chunks) /\ output' \in Seq(Chunks) /\ out \o output' = output
    BY <1>0, <2>1, BatchType
  <2>3. /\ pc = "output" /\ pc' = "cleanup" /\ failed' = TRUE
        /\ UNCHANGED <<view, faulted, written>>
    BY <1>5 DEF ClockFailsOnOutput, Abort
  <2>4. view.shown \o view.held \in Seq(Chunks)
    BY <1>0, ConcatProperties DEF View
  <2>5. (view.shown \o view.held \o out) \o output'
          = (view.shown \o view.held) \o (out \o output')
    BY <2>2, <2>4, Associativity
  <2>6. Order(view', dropped') \o output' = Order(view, output)
    BY <2>1, <2>2, <2>3, <2>5 DEF Order
  <2> QED BY <1>a, <2>3, <2>6
<1> QED BY <1>1, <1>2, <1>3, <1>4, <1>5, QuietOrder

-----------------------------------------------------------------------------
(* The reserved key, room for input, and the way out.                      *)

LEMMA DisabledStep ==
  ASSUME TypeOK, DisableKeyHonoured, ScreenInv', Strange
  PROVE  DisableKeyHonoured'
<1> DEFINE Off == state \in {"SCREENSAVER_DISABLED", "SHUTTING_DOWN"}
<1> USE DEF historyVars, Unaffected, NextState
<1>1. swallowed \cap DisableKeys # {} => Off
  BY DEF DisableKeyHonoured
<1>2. CASE swallowed' = swallowed /\ (Off => Off')
  <2>1. swallowed' \cap DisableKeys # {} => Off'
    BY <1>1, <1>2
  <2> QED BY <2>1 DEF DisableKeyHonoured, ScreenInv, CoveredIffActive, Showing
<1>3. CASE WakeOnInput
  <2>1. state = "SCREENSAVER_ACTIVE"
    BY <1>3 DEF WakeOnInput
  <2>2. swallowed' \cap DisableKeys # {} => Off'
    BY <1>1, <1>3, <2>1, WakeEffect
  <2> QED BY <2>2 DEF DisableKeyHonoured, ScreenInv, CoveredIffActive, Showing
<1>4. CASE DisableFromKey
  <2>1. Off'
    BY <1>4 DEF DisableFromKey
  <2> QED BY <2>1 DEF DisableKeyHonoured, ScreenInv, CoveredIffActive, Showing
<1>5. CASE CheckShutdown \/ EndOfInput \/ EndOfOutput
  BY <1>2, <1>5 DEF CheckShutdown, EndOfInput, EndOfOutput
<1>6. CASE PollShellExit
  BY <1>2, <1>6 DEF PollShellExit
<1>7. CASE SyncResize
  BY <1>2, <1>7, SyncResizeEffect DEF SyncResize
<1>8. CASE StartScreensaver
  BY <1>2, <1>8 DEF StartScreensaver, InactivityTimeoutDue
<1>9. CASE NextFrame
  BY <1>2, <1>9, NextFrameEffect DEF NextFrame
<1>10. CASE OutputOverflow
  BY <1>2, <1>10 DEF OutputOverflow
<1>11. CASE \/ HoldTimer \/ Select \/ SelectInterrupted \/ WaitFails
            \/ FlushPendingInput \/ ReadInput \/ ForwardInputSlice
            \/ ClockFailsOnInput \/ ClockFailsOnOutput
            \/ HoldOutput \/ ShowOutput \/ Cleanup \/ HangUp \/ Reap
  BY <1>2, <1>11 DEF HoldTimer, Select, SelectInterrupted, WaitFails,
       ClockFailsOnInput, ClockFailsOnOutput,
       FlushPendingInput, ReadInput, ForwardInputSlice, HoldOutput, ShowOutput,
       Cleanup, HangUp, Reap
<1> QED BY <1>3, <1>4, <1>5, <1>6, <1>7, <1>8, <1>9, <1>10, <1>11 DEF Strange

(* Where the loop goes, and which steps move keys about.                   *)
LEMMA ControlFlow ==
  ASSUME TypeOK, RoomInv, Strange
  PROVE  \/ /\ pc' \notin Ending \cup {"flush", "stdin", "slice"}
            /\ pending' = pending /\ raw' = raw
         \/ Select \/ FlushPendingInput \/ ReadInput \/ ForwardInputSlice
         \/ DisableFromKey \/ Cleanup \/ HangUp \/ Reap
<1> USE DEF inputVars, Unaffected, Ending, GoTo, Abort, GaveUp
<1>0. view \in View /\ Len(pending) <= InputCap
  BY DEF TypeOK, RoomInv
<1>1. CASE SyncResize
  <2>1. pc' \in {"check", "cleanup"}
    BY <1>1, SyncResizeEffect
  <2> QED BY <1>1, <2>1 DEF SyncResize
<1>2. CASE StartScreensaver
  <2>1. pc' \in {"select", "cleanup"}
    BY <1>2, StartEffect
  <2> QED BY <1>2, <2>1 DEF StartScreensaver
<1>3. CASE NextFrame
  <2>1. pc' \in {"select", "cleanup"}
    BY <1>3, NextFrameEffect
  <2> QED BY <1>3, <2>1 DEF NextFrame
<1>4. CASE WakeOnInput
  <2>1. pc' \in {"output", "poll", "cleanup"}
    BY <1>4, WakeEffect, FromType
  <2> QED BY <1>4, <2>1 DEF WakeOnInput
<1>5. CASE EndOfInput
  <2>1. pc' \in {"output", "poll"}
    BY <1>5, FromType DEF EndOfInput
  <2> QED BY <1>5, <2>1 DEF EndOfInput
<1>6. CASE OutputOverflow \/ ShowOutput
  <2>1. pc' \in {"poll", "cleanup"}
    BY <1>6 DEF OutputOverflow, ShowOutput, Forward
  <2> QED BY <1>6, <2>1 DEF OutputOverflow, ShowOutput
<1>7. CASE PollShellExit
  BY <1>7 DEF PollShellExit
<1>8. CASE \/ CheckShutdown \/ HoldTimer \/ SelectInterrupted \/ WaitFails
           \/ ClockFailsOnInput \/ ClockFailsOnOutput
           \/ HoldOutput \/ EndOfOutput
  BY <1>8 DEF CheckShutdown, HoldTimer, SelectInterrupted, WaitFails,
       ClockFailsOnInput, ClockFailsOnOutput, HoldOutput, EndOfOutput
<1> QED BY <1>1, <1>2, <1>3, <1>4, <1>5, <1>6, <1>7, <1>8 DEF Strange

(* The room computed before the flush is never more than there is.         *)
LEMMA RoomStep ==
  ASSUME TypeOK, RoomInv, Strange
  PROVE  RoomInv'
<1> USE DEF inputVars, Unaffected, GoTo, RoomInv
<1>0. /\ pending \in Seq(Keys) /\ Len(pending) \in Nat
      /\ buffer \in Seq(Keys) /\ Len(buffer) \in Nat
      /\ tty \in Seq(Keys) /\ Len(tty) \in Nat
      /\ room \in Nat /\ InputCap \in Nat /\ Len(pending) <= InputCap
  BY LenProperties, RuntimeAssumption DEF TypeOK
<1>1. CASE pc' \notin {"flush", "stdin", "slice"} /\ pending' = pending
  BY <1>1
<1>2. CASE Select
  <2>1. pc' # "slice" /\ room' = InputCap - Len(pending) /\ pending' = pending
    BY <1>2, FromType DEF Select, InputCapacity
  <2> QED BY <1>0, <2>1
<1>3. CASE FlushPendingInput
  <2>1. Flush(pending, FromStdin(ready)) /\ pc = "flush" /\ room' = room
    BY <1>3 DEF FlushPendingInput
  <2>2. pending' \in Seq(Keys) /\ Len(pending') <= Len(pending) /\ pc' # "slice"
    BY <1>0, <2>1, FlushEffect, FromType
  <2>3. Len(pending') \in Nat
    BY <2>2, LenProperties
  <2> QED BY <1>0, <2>1, <2>2, <2>3
<1>4. CASE ReadInput
  <2>1. /\ pc = "stdin" /\ pc' = "slice" /\ state' = state
        /\ state # "SCREENSAVER_ACTIVE" /\ pending' = pending
        /\ buffer' = Take(tty, Least(room, Len(tty)))
    BY <1>4 DEF ReadInput
  <2>2. Least(room, Len(tty)) \in 0..Len(tty) /\ Least(room, Len(tty)) <= room
    BY <1>0 DEF Least
  <2>3. Len(buffer') = Least(room, Len(tty))
    BY <1>0, <2>1, <2>2, TakeDrop
  <2> QED BY <1>0, <2>1, <2>2, <2>3 DEF Showing
<1>5. CASE ForwardInputSlice
  <2>1. /\ buffer' \in Seq(Keys) /\ pending' \in Seq(Keys)
        /\ Len(buffer') + Len(pending') <= Len(buffer) + Len(pending)
        /\ Len(pending') <= InputCap
        /\ pc' \notin {"flush", "stdin"}
    BY <1>0, <1>5, ForwardSliceEffect, FromType DEF AfterSlice
  <2>2. pc = "slice" /\ state' = state
    BY <1>5 DEF ForwardInputSlice
  <2>3. Len(buffer') \in Nat /\ Len(pending') \in Nat
    BY <2>1, LenProperties
  <2> QED BY <1>0, <2>1, <2>2, <2>3 DEF Showing
<1>6. CASE DisableFromKey
  <2>1. /\ pc = "slice" /\ buffer # <<>> /\ buffer' = Tail(buffer)
        /\ pending' = pending /\ state' # "SCREENSAVER_ACTIVE"
        /\ pc' \notin {"flush", "stdin"}
    BY <1>6, FromType DEF DisableFromKey, AfterSlice, NextState, Showing
  <2>2. Len(buffer') = Len(buffer) - 1
    BY <1>0, <2>1, HeadTailProperties
  <2> QED BY <1>0, <2>1, <2>2 DEF Showing
<1>7. CASE Cleanup \/ HangUp \/ Reap
  BY <1>1, <1>7 DEF Cleanup, HangUp, Reap
<1> QED BY <1>1, <1>2, <1>3, <1>4, <1>5, <1>6, <1>7, ControlFlow

LEMMA ExitStep ==
  ASSUME TypeOK, RoomInv, ExitInv, Strange
  PROVE  ExitInv'
<1> USE DEF ExitInv, Ending, GoTo
<1>1. CASE pc' \notin Ending
  BY <1>1
<1>2. CASE Cleanup \/ HangUp \/ Reap
  BY <1>2 DEF Cleanup, HangUp, Reap
<1>3. CASE Select \/ FlushPendingInput
  <2>1. pc' \notin Ending
    <3>1. CASE Select
      BY <3>1, FromType DEF Select
    <3>2. CASE FlushPendingInput
      <4>1. Flush(pending, FromStdin(ready)) /\ pending \in Seq(Keys)
        BY <3>2 DEF FlushPendingInput, TypeOK
      <4> QED BY <4>1, FlushEffect, FromType
    <3> QED BY <1>3, <3>1, <3>2
  <2> QED BY <1>1, <2>1
<1>4. CASE ReadInput
  BY <1>1, <1>4 DEF ReadInput
<1>5. CASE ForwardInputSlice
  BY <1>1, <1>5, ForwardSliceEffect, FromType DEF AfterSlice, RoomInv
<1>6. CASE DisableFromKey
  BY <1>1, <1>6, FromType DEF DisableFromKey, AfterSlice
<1> QED BY <1>1, <1>2, <1>3, <1>4, <1>5, <1>6, ControlFlow

-----------------------------------------------------------------------------
(* The whole invariant.                                                    *)

LEMMA InitInv == Init => IInv
<1> SUFFICES ASSUME Init PROVE IInv
  OBVIOUS
<1>1. TypeOK
  BY InitType
<1>2. /\ ~ view.visible /\ view.held = <<>> /\ view.shown = <<>>
      /\ ~ view.drewOver /\ ~ view.misreported
      /\ view.modes = Defaults /\ view.screen = Defaults
      /\ Defaults.parse = "TEXT" /\ ~ Defaults.alt
      /\ output = <<>> /\ dropped = <<>> /\ written = <<>> /\ swallowed = {}
      /\ state = "PASSTHROUGH" /\ pc = "top"
  BY DEF Init, Defaults
<1>3. OutputInOrder
  BY <1>2 DEF OutputInOrder
<1>4. RoomInv
  BY <1>2, RuntimeAssumption DEF Init, RoomInv
<1>5. HealthyInv
  BY <1>2 DEF HealthyInv, Healthy
<1>6. CoveredIffActive /\ HeldInv /\ FullscreenNotCovered /\ DisableKeyHonoured
      /\ ExitInv
  BY <1>2 DEF CoveredIffActive, HeldInv, FullscreenNotCovered,
       DisableKeyHonoured, ExitInv, Showing
<1> QED BY <1>1, <1>3, <1>4, <1>5, <1>6 DEF IInv

(* Nothing outside strange can break it either.                            *)
LEMMA EnvironmentStep ==
  ASSUME IInv, Environment
  PROVE  IInv'
<1> USE DEF IInv, shellVars, signalVars
<1>1. TypeOK'
  BY EnvironmentType
<1>2. UNCHANGED <<pc, room, state, view, pending, buffer, raw, failed, faulted,
                  swallowed, dropped>>
  BY DEF Environment, strangeVars, Press, TerminalCloses, ShutdownSignal,
     ResizeSignal, Tick, ShellReads, ShellWrites, ShellCloses, ShellExits,
     JobStarts, JobEnds
<1>3. /\ CoveredIffActive' /\ HeldInv' /\ HealthyInv' /\ FullscreenNotCovered'
      /\ DisableKeyHonoured' /\ RoomInv'
  BY <1>2 DEF CoveredIffActive, HeldInv, HealthyInv, FullscreenNotCovered,
     DisableKeyHonoured, RoomInv, Showing
<1>4. OutputInOrder'
  <2>1. CASE output' = output /\ written' = written
    BY <1>2, <2>1 DEF OutputInOrder
  <2>2. CASE \E c \in Chunks : ShellWrites(c)
    <3>1. PICK c \in Chunks : ShellWrites(c)
      BY <2>2
    <3>2. Order(view, dropped) \in Seq(Chunks) /\ output \in Seq(Chunks)
      BY OrderType DEF TypeOK
    <3>3. Order(view, dropped) \o Append(output, c)
            = Append(Order(view, dropped) \o output, c)
      BY <3>2, OrderWrite
    <3> QED BY <1>2, <3>1, <3>3 DEF OutputInOrder, Order, ShellWrites
  <2> QED BY <2>1, <2>2 DEF Environment, Press, TerminalCloses, ShutdownSignal,
          ResizeSignal, Tick, ShellReads, ShellCloses, ShellExits,
     JobStarts, JobEnds
<1>5. ExitInv'
  <2>1. shell = "reaped" => shell' = "reaped"
    BY DEF Environment, Press, TerminalCloses, ShutdownSignal, ResizeSignal,
       Tick, ShellReads, ShellWrites, ShellCloses, ShellExits,
     JobStarts, JobEnds
  <2> QED BY <1>2, <2>1 DEF ExitInv
<1> QED BY <1>1, <1>3, <1>4, <1>5

LEMMA StepInv == IInv /\ [Next]_vars => IInv'
<1> SUFFICES ASSUME IInv, [Next]_vars PROVE IInv'
  OBVIOUS
<1>1. CASE Strange
  <2>1. TypeOK /\ RoomInv /\ Len(pending) <= InputCap /\ ScreenInv
    BY DEF IInv, RoomInv, ScreenInv
  <2>2. TypeOK'
    BY <1>1, <2>1, StrangeType
  <2>3. ScreenInv'
    BY <1>1, <2>1, ScreenStep
  <2>4. OutputInOrder' /\ DisableKeyHonoured' /\ RoomInv' /\ ExitInv'
    BY <1>1, <2>1, <2>2, <2>3, OrderStep, DisabledStep, RoomStep, ExitStep DEF IInv
  <2> QED BY <2>2, <2>3, <2>4 DEF IInv, ScreenInv
<1>2. CASE Environment
  BY <1>2, EnvironmentStep
<1>3. CASE UNCHANGED vars
  <2> USE <1>3 DEF vars, inputVars, shellVars, signalVars, historyVars
  <2>1. TypeOK'
    BY DEF IInv, TypeOK
  <2>2. /\ CoveredIffActive' /\ HeldInv' /\ HealthyInv' /\ FullscreenNotCovered'
        /\ OutputInOrder' /\ DisableKeyHonoured' /\ RoomInv' /\ ExitInv'
    BY DEF IInv, CoveredIffActive, HeldInv, HealthyInv, FullscreenNotCovered,
       OutputInOrder, DisableKeyHonoured, RoomInv, ExitInv, Showing
  <2> QED BY <2>1, <2>2 DEF IInv
<1> QED BY <1>1, <1>2, <1>3 DEF Next, Done

(* The inductive invariant holds in every reachable state.                 *)
THEOREM Invariance == Spec => []IInv
<1> QED BY InitInv, StepInv, PTL DEF Spec

(* Type correctness: every variable keeps to the values the code's own     *)
(* declarations allow, the fixed-size buffers included.                    *)
THEOREM TypeCorrect == Spec => []TypeOK
<1>1. IInv => TypeOK
  BY DEF IInv
<1> QED BY <1>1, Invariance, PTL

(* strange_run's state machine and strange_screensaver's screen agree on   *)
(* whether the screensaver is showing, whatever fails.                     *)
THEOREM CoverAgreement == Spec => []CoveredIffActive
<1>1. IInv => CoveredIffActive
  BY DEF IInv
<1> QED BY <1>1, Invariance, PTL

(* exit_screensaver forgets neither held output nor the PTY's true size.   *)
THEOREM NothingForgotten == Spec => []NothingLeftBehind
<1>1. IInv => NothingLeftBehind
  <2> SUFFICES ASSUME IInv, ~ view.visible PROVE
        /\ view.held = <<>>
        /\ view.drewOver \/ view.misreported => faulted
    BY DEF NothingLeftBehind
  <2> QED BY DEF IInv, HeldInv, HealthyInv, Healthy
<1> QED BY <1>1, Invariance, PTL

(* hold_output, release_held_output and forward_output together pass on    *)
(* exactly what the shell wrote, in order.                                 *)
THEOREM OutputOrder == Spec => []OutputInOrder
<1>1. IInv => OutputInOrder
  BY DEF IInv
<1> QED BY <1>1, Invariance, PTL

(* Without --cover-fullscreen a full-screen program is never covered.      *)
THEOREM FullscreenKept == Spec => []FullscreenNotCovered
<1>1. IInv => FullscreenNotCovered
  BY DEF IInv
<1> QED BY <1>1, Invariance, PTL

(* After the reserved key the screensaver stays off.                       *)
THEOREM DisableKept == Spec => []DisableKeyHonoured
<1>1. IInv => DisableKeyHonoured
  BY DEF IInv
<1> QED BY <1>1, Invariance, PTL

(* Provided reads of the shell's output end between control sequences, the *)
(* screen is the shell's own again whenever the screensaver is not up.     *)
THEOREM ScreenRestored == Spec => [](WholeSequences => ScreenHandedBack)
<1>1. IInv => (WholeSequences => ScreenHandedBack)
  BY DEF IInv, HealthyInv, Healthy, ScreenHandedBack
<1> QED BY <1>1, Invariance, PTL

(* What strange_run hands back when it returns, on every path to the end.  *)
THEOREM ExitClean == Spec => []RestoredAtExit
<1>1. IInv => RestoredAtExit
  <2> SUFFICES ASSUME IInv, pc = "done"
               PROVE  /\ ~ raw /\ ~ view.visible /\ view.held = <<>>
                      /\ shell = "reaped"
                      /\ ~ faulted => ~ view.misreported
                      /\ ~ faulted /\ WholeSequences => view.screen = view.modes
    BY DEF RestoredAtExit
  <2>1. ~ raw /\ shell = "reaped" /\ ~ view.visible
    BY DEF IInv, ExitInv, CoveredIffActive
  <2> QED BY <2>1 DEF IInv, HeldInv, HealthyInv, Healthy
<1> QED BY <1>1, Invariance, PTL
-----------------------------------------------------------------------------
(* What ends a quiet time.                                                 *)

(* A terminal found readable is read from: there was room for input when   *)
(* select was asked, and the flush in between leaves that alone.           *)
RoomToRead == pc = "stdin" \/ (pc = "flush" /\ "stdin" \in ready) => room > 0

LEMMA RoomToReadStep ==
  ASSUME IInv, RoomToRead, [Next]_vars
  PROVE  RoomToRead'
<1> USE DEF RoomToRead
<1>0. TypeOK /\ RoomInv /\ Len(pending) \in Nat
  BY LenProperties DEF IInv, TypeOK
<1>1. CASE pc' \notin {"flush", "stdin"}
  BY <1>1
<1>2. CASE Select
  <2>1. /\ ready' = Selectable /\ room' = InputCap - Len(pending)
        /\ pc' = FromFlush(ready')
    BY <1>2 DEF Select, InputCapacity, GoTo
  <2>2. "stdin" \in Selectable => Len(pending) < InputCap
    BY DEF Selectable
  <2>3. pc' = "stdin" => "stdin" \in ready'
    BY <2>1 DEF FromFlush, FromStdin, FromOutput
  <2> QED BY <1>0, <2>1, <2>2, <2>3, RuntimeAssumption
<1>3. CASE FlushPendingInput
  <2>1. pc = "flush" /\ Flush(pending, FromStdin(ready)) /\ room' = room /\ ready' = ready
    BY <1>3 DEF FlushPendingInput
  <2>2. pc' = "stdin" => "stdin" \in ready
    <3>1. pc' = FromStdin(ready) \/ pc' = "cleanup"
      BY <2>1 DEF Flush, GoTo, Abort
    <3> QED BY <3>1 DEF FromStdin, FromOutput
  <2>3. pc' # "flush"
    <3>1. pc' = FromStdin(ready) \/ pc' = "cleanup"
      BY <2>1 DEF Flush, GoTo, Abort
    <3> QED BY <3>1 DEF FromStdin, FromOutput
  <2> QED BY <2>1, <2>2, <2>3
<1>4. CASE ReadInput \/ ForwardInputSlice \/ DisableFromKey
  <2>1. CASE ReadInput
    BY <2>1 DEF ReadInput, GoTo
  <2>2. CASE ForwardInputSlice
    BY <1>0, <2>2, ForwardSliceEffect, FromType DEF AfterSlice, RoomInv
  <2>3. CASE DisableFromKey
    BY <2>3, FromType DEF DisableFromKey, AfterSlice, GoTo
  <2> QED BY <1>4, <2>1, <2>2, <2>3
<1>5. CASE Cleanup \/ HangUp \/ Reap
  BY <1>5 DEF Cleanup, HangUp, Reap, GoTo
<1>6. CASE Strange
  BY <1>0, <1>1, <1>2, <1>3, <1>4, <1>5, <1>6, ControlFlow
<1>7. CASE Environment
  BY <1>7 DEF Environment, Press, TerminalCloses, ShutdownSignal, ResizeSignal, Tick,
     ShellReads, ShellWrites, ShellCloses, ShellExits,
     JobStarts, JobEnds, strangeVars
<1>8. CASE UNCHANGED vars
  BY <1>8 DEF vars
<1> QED BY <1>6, <1>7, <1>8 DEF Next, Done

(* Only these steps touch the timer ...                                    *)
LEMMA TimerSteps ==
  ASSUME TypeOK, [Next]_vars, idle' < idle
  PROVE  HoldTimer \/ WakeOnInput \/ ForwardInputSlice \/ OutputOverflow
<1> USE DEF Unaffected
<1>0. idle \in Nat
  BY RuntimeAssumption DEF TypeOK
<1>1. idle' # idle
  BY <1>0
<1>2. CASE Strange
  BY ONLY <1>1, <1>2, Zenon DEF Strange, SyncResize, CheckShutdown, StartScreensaver,
     NextFrame, Select, SelectInterrupted, WaitFails, FlushPendingInput, ReadInput,
     ClockFailsOnInput, ClockFailsOnOutput, DisableFromKey, EndOfInput, HoldOutput,
     ShowOutput, EndOfOutput, PollShellExit, Cleanup, HangUp, Reap
<1>3. CASE Environment
  BY <1>0, <1>1, <1>3 DEF Environment, Press, TerminalCloses, ShutdownSignal, ResizeSignal,
     Tick, ShellReads, ShellWrites, ShellCloses, ShellExits,
     JobStarts, JobEnds
<1>4. CASE UNCHANGED vars
  BY <1>1, <1>4 DEF vars
<1> QED BY <1>2, <1>3, <1>4 DEF Next, Done

(* ... and only one takes output as it uncovers the screen.                *)
LEMMA OutputUncovers ==
  ASSUME [Next]_vars, Showing, ~ Showing', output' # output
  PROVE  OutputOverflow
<1>1. CASE Strange
  BY <1>1 DEF Strange, Unaffected, Showing, SyncResize, CheckShutdown, HoldTimer,
     StartScreensaver, NextFrame, Select, SelectInterrupted, WaitFails,
     FlushPendingInput, WakeOnInput, ReadInput, ForwardInputSlice, DisableFromKey,
     EndOfInput, HoldOutput, ShowOutput, EndOfOutput, PollShellExit, Cleanup, HangUp, Reap,
     ClockFailsOnInput, ClockFailsOnOutput
<1>2. CASE Environment
  BY <1>2 DEF Environment, Press, TerminalCloses, ShutdownSignal, ResizeSignal, Tick,
     ShellReads, ShellWrites, ShellCloses, ShellExits,
     JobStarts, JobEnds, strangeVars, Showing
<1>3. CASE UNCHANGED vars
  BY <1>3 DEF vars
<1> QED BY <1>1, <1>2, <1>3 DEF Next, Done

(* Keys, an uncovered full-screen program and output that woke the         *)
(* screensaver start the timer again; output that is shown does not.       *)
THEOREM OnlyKeysCount == Spec => OnlyKeysAreActivity
<1> DEFINE Active == idle' < idle =>
        \/ tty' # tty \/ buffer' # buffer
        \/ FullscreenHolds
        \/ Showing /\ ~ Showing' /\ output' # output
<1>1. IInv /\ RoomToRead /\ [Next]_vars => [Active]_vars
  <2> SUFFICES ASSUME IInv, RoomToRead, [Next]_vars, idle' < idle PROVE Active
    OBVIOUS
  <2>0. TypeOK /\ tty \in Seq(Keys) /\ Len(tty) \in Nat /\ room \in Nat
        /\ buffer \in Seq(Keys) /\ Len(buffer) \in Nat
    BY LenProperties, RuntimeAssumption DEF IInv, TypeOK
  <2>1. CASE HoldTimer
    BY <2>1 DEF HoldTimer
  <2>2. CASE WakeOnInput
    <3> DEFINE n == Least(room, Len(tty))
    <3>1. tty # <<>> /\ pc = "stdin" /\ tty' = Drop(tty, n)
      BY <2>2 DEF WakeOnInput
    <3>2. n \in 1..Len(tty)
      <4>1. Len(tty) > 0 /\ room > 0
        BY <2>0, <3>1, EmptySeq DEF RoomToRead
      <4> QED BY <2>0, <4>1 DEF Least
    <3> HIDE DEF n
    <3>3. Len(Drop(tty, n)) = Len(tty) - n
      BY <2>0, <3>2, TakeDrop
    <3> QED BY <2>0, <3>1, <3>2, <3>3
  <2>3. CASE ForwardInputSlice
    <3>1. PICK n \in 1..Len(buffer) : buffer' = Drop(buffer, n)
      BY <2>3 DEF ForwardInputSlice
    <3>2. n \in 0..Len(buffer)
      BY <2>0, <3>1
    <3>3. Len(Drop(buffer, n)) = Len(buffer) - n
      BY <2>0, <3>2, TakeDrop
    <3> QED BY <3>3, <2>0, <3>1, <3>2
  <2>4. CASE OutputOverflow
    <3>1. PICK out \in Batches : output' = Drop(output, Len(out))
      BY <2>4 DEF OutputOverflow
    <3>2. PICK n \in 1..Least(ReadSize, Len(output)) : out = Take(output, n)
      BY <3>1 DEF Batches
    <3>3. output \in Seq(Chunks) /\ Len(output) \in Nat
          /\ n \in 0..Len(output) /\ n > 0
      BY <2>0, <3>2, LenProperties, RuntimeAssumption DEF TypeOK, Least
    <3>4. Len(out) = n
      BY <3>2, <3>3, TakeDrop
    <3>5. Len(Drop(output, n)) = Len(output) - n
      BY <3>3, TakeDrop
    <3>6. Showing /\ ~ Showing'
      BY <2>4 DEF OutputOverflow, Showing, NextState
    <3>7. Len(output') = Len(output) - n
      BY <3>1, <3>4, <3>5
    <3> QED BY <3>3, <3>6, <3>7
  <2> QED BY <2>0, <2>1, <2>2, <2>3, <2>4, TimerSteps
<1>2. Init => RoomToRead
  BY DEF Init, RoomToRead
<1>3. Spec => []RoomToRead
  BY <1>2, RoomToReadStep, Invariance, PTL DEF Spec
<1> QED BY <1>1, <1>3, Invariance, PTL DEF Spec, OnlyKeysAreActivity

(* Output uncovers the screen only once no more of it can be held.         *)
THEOREM OutputLeavesItUp == Spec => OutputDoesNotWake
<1> DEFINE Full == Showing /\ ~ Showing' /\ output' # output =>
        Len(view.held) + ReadSize > HeldLimit \/ "memory" \in Faults
<1>1. IInv /\ [Next]_vars => [Full]_vars
  <2> SUFFICES ASSUME IInv, [Next]_vars, Showing, ~ Showing', output' # output,
                      "memory" \notin Faults
               PROVE  Len(view.held) + ReadSize > HeldLimit
    OBVIOUS
  <2>1. PICK out \in Batches : ~ FitsHeld(out)
    BY OutputUncovers DEF OutputOverflow
  <2>2. Len(out) \in Nat /\ Len(out) <= ReadSize
    <3>1. PICK n \in 1..Least(ReadSize, Len(output)) : out = Take(output, n)
      BY <2>1 DEF Batches
    <3>2. output \in Seq(Chunks) /\ Len(output) \in Nat
      BY LenProperties DEF IInv, TypeOK
    <3>3. n \in 0..Len(output) /\ n <= ReadSize
      BY <3>1, <3>2, RuntimeAssumption DEF Least
    <3> QED BY <3>1, <3>2, <3>3, TakeDrop
  <2>3. Len(view.held) \in Nat
    BY LenProperties DEF IInv, TypeOK, View
  <2> QED BY <2>1, <2>2, <2>3, RuntimeAssumption DEF FitsHeld
<1> QED BY <1>1, Invariance, PTL DEF Spec, OutputDoesNotWake

-----------------------------------------------------------------------------
(* The keys on their way to the shell.                                     *)

Distinct(s) == \A i, j \in 1..Len(s) : s[i] = s[j] => i = j

(* The elements of two sequences, one after the other.                     *)
LEMMA ConcatElements ==
  ASSUME NEW S, NEW s \in Seq(S), NEW t \in Seq(S)
  PROVE  Elements(s \o t) = Elements(s) \cup Elements(t)
<1>1. /\ s \o t \in Seq(S) /\ Len(s \o t) = Len(s) + Len(t)
      /\ Len(s) \in Nat /\ Len(t) \in Nat
      /\ \A i \in 1..(Len(s) + Len(t)) :
           (s \o t)[i] = IF i <= Len(s) THEN s[i] ELSE t[i - Len(s)]
  BY ConcatProperties, LenProperties
<1>2. \A i \in 1..(Len(s) + Len(t)) : (s \o t)[i] \in Elements(s) \cup Elements(t)
  <2> TAKE i \in 1..(Len(s) + Len(t))
  <2>1. CASE i <= Len(s)
    BY <1>1, <2>1 DEF Elements
  <2>2. CASE ~ (i <= Len(s))
    <3>1. i - Len(s) \in 1..Len(t)
      BY <1>1, <2>2
    <3> QED BY <1>1, <2>2, <3>1 DEF Elements
  <2> QED BY <2>1, <2>2
<1>3. \A i \in 1..Len(s) : s[i] \in Elements(s \o t)
  <2> TAKE i \in 1..Len(s)
  <2>1. i \in 1..(Len(s) + Len(t)) /\ (s \o t)[i] = s[i]
    BY <1>1
  <2> QED BY <1>1, <2>1 DEF Elements
<1>4. \A i \in 1..Len(t) : t[i] \in Elements(s \o t)
  <2> TAKE i \in 1..Len(t)
  <2>1. i + Len(s) \in 1..(Len(s) + Len(t)) /\ (s \o t)[i + Len(s)] = t[i]
    BY <1>1
  <2> QED BY <1>1, <2>1 DEF Elements
<1> QED BY <1>1, <1>2, <1>3, <1>4 DEF Elements

(* Taking a piece out of the middle takes out its elements, if no element  *)
(* is there twice, and leaves the others in their order.                   *)
LEMMA PieceTakenOut ==
  ASSUME NEW S, NEW a \in Seq(S), NEW b \in Seq(S), NEW c \in Seq(S),
         NEW whole \in Seq(S), Distinct(whole), InOrder(a \o b \o c, whole)
  PROVE  /\ Elements(a \o c) = Elements(a \o b \o c) \ Elements(b)
         /\ InOrder(a \o c, whole)
<1> DEFINE long  == a \o b \o c
           short == a \o c
<1>1. /\ Len(a) \in Nat /\ Len(b) \in Nat /\ Len(c) \in Nat /\ a \o b \in Seq(S)
      /\ Len(a \o b) = Len(a) + Len(b)
      /\ \A i \in 1..(Len(a) + Len(b)) :
           (a \o b)[i] = IF i <= Len(a) THEN a[i] ELSE b[i - Len(a)]
  BY ConcatProperties, LenProperties
<1>2. /\ long \in Seq(S) /\ Len(long) = Len(a) + Len(b) + Len(c)
      /\ \A i \in 1..(Len(a) + Len(b) + Len(c)) :
           long[i] = IF i <= Len(a) + Len(b) THEN (a \o b)[i]
                     ELSE c[i - (Len(a) + Len(b))]
  BY <1>1, ConcatProperties
<1>3. /\ short \in Seq(S) /\ Len(short) = Len(a) + Len(c)
      /\ \A i \in 1..(Len(a) + Len(c)) :
           short[i] = IF i <= Len(a) THEN a[i] ELSE c[i - Len(a)]
  BY <1>1, ConcatProperties
<1>4. InOrder(long, whole)
  OBVIOUS
<1> HIDE DEF long, short
<1> DEFINE at(i) == IF i <= Len(a) THEN i ELSE i + Len(b)
<1>5. \A i \in 1..Len(short) : at(i) \in 1..Len(long) /\ long[at(i)] = short[i]
  <2> TAKE i \in 1..Len(short)
  <2>1. CASE i <= Len(a)
    <3>1. i \in 1..(Len(a) + Len(b)) /\ i \in 1..(Len(a) + Len(b) + Len(c))
      BY <1>1, <1>3, <2>1
    <3>2. long[i] = a[i] /\ short[i] = a[i]
      BY <1>1, <1>2, <1>3, <2>1, <3>1
    <3> QED BY <1>2, <2>1, <3>1, <3>2
  <2>2. CASE ~ (i <= Len(a))
    <3>1. /\ i + Len(b) \in 1..(Len(a) + Len(b) + Len(c)) /\ ~ (i + Len(b) <= Len(a) + Len(b))
          /\ i + Len(b) - (Len(a) + Len(b)) = i - Len(a)
      BY <1>1, <1>3, <2>2
    <3>2. long[i + Len(b)] = c[i - Len(a)] /\ short[i] = c[i - Len(a)]
      BY <1>2, <1>3, <2>2, <3>1
    <3> QED BY <1>2, <2>2, <3>1, <3>2
  <2> QED BY <2>1, <2>2
<1>6. \A i, j \in 1..Len(short) : i < j => at(i) < at(j)
  BY <1>1, <1>3
<1> HIDE DEF at
<1>7. InOrder(short, whole)
  <2> SUFFICES ASSUME NEW i \in 1..Len(short), NEW j \in 1..Len(short), i < j
               PROVE  \E m, n \in 1..Len(whole) :
                        m < n /\ whole[m] = short[i] /\ whole[n] = short[j]
    BY DEF InOrder
  <2>1. \E m, n \in 1..Len(whole) :
          m < n /\ whole[m] = long[at(i)] /\ whole[n] = long[at(j)]
    BY <1>4, <1>5, <1>6 DEF InOrder
  <2> QED BY <1>5, <2>1
<1>8. Distinct(long)
  <2> SUFFICES ASSUME NEW i \in 1..Len(long), NEW j \in 1..Len(long), i < j
               PROVE  long[i] # long[j]
    BY <1>1, <1>2 DEF Distinct
  <2>1. PICK m \in 1..Len(whole), n \in 1..Len(whole) :
          m < n /\ whole[m] = long[i] /\ whole[n] = long[j]
    BY <1>4 DEF InOrder
  <2>2. Len(whole) \in Nat
    BY LenProperties
  <2>3. m # n
    BY <2>1, <2>2
  <2> QED BY <2>1, <2>3 DEF Distinct
<1>9. \A k \in 1..Len(b) : Len(a) + k \in 1..Len(long) /\ long[Len(a) + k] = b[k]
  <2> TAKE k \in 1..Len(b)
  <2>1. /\ Len(a) + k \in 1..(Len(a) + Len(b)) /\ ~ (Len(a) + k <= Len(a))
        /\ Len(a) + k - Len(a) = k /\ Len(a) + k \in 1..(Len(a) + Len(b) + Len(c))
        /\ Len(a) + k <= Len(a) + Len(b)
    BY <1>1
  <2>2. (a \o b)[Len(a) + k] = b[k]
    BY <1>1, <2>1
  <2> QED BY <1>2, <2>1, <2>2
<1>10. \A i \in 1..Len(short), k \in 1..Len(b) : short[i] # b[k]
  <2> TAKE i \in 1..Len(short), k \in 1..Len(b)
  <2>1. at(i) # Len(a) + k
    BY <1>1, <1>3 DEF at
  <2> QED BY <1>5, <1>8, <1>9, <2>1 DEF Distinct
<1>11. Elements(long) = Elements(a) \cup Elements(b) \cup Elements(c)
  <2>1. Elements(a \o b) = Elements(a) \cup Elements(b)
    BY ConcatElements
  <2>2. Elements((a \o b) \o c) = Elements(a \o b) \cup Elements(c)
    BY <1>1, ConcatElements, ZenonT(40)
  <2> QED BY <2>1, <2>2 DEF long
<1>12. Elements(short) = Elements(a) \cup Elements(c)
  BY ConcatElements DEF short
<1>13. Elements(short) \cap Elements(b) = {}
  BY <1>10 DEF Elements
<1> QED BY <1>7, <1>11, <1>12, <1>13 DEF long, short

(* A new element at the end of both.                                       *)
LEMMA PressedLast ==
  ASSUME NEW S, NEW part \in Seq(S), NEW whole \in Seq(S), NEW k \in S,
         Distinct(whole), InOrder(part, whole), k \notin Elements(whole),
         Elements(part) \subseteq Elements(whole)
  PROVE  /\ Distinct(Append(whole, k))
         /\ Elements(Append(whole, k)) = Elements(whole) \cup {k}
         /\ Elements(Append(part, k)) = Elements(part) \cup {k}
         /\ InOrder(Append(part, k), Append(whole, k))
<1>1. /\ Len(part) \in Nat /\ Len(whole) \in Nat
      /\ Len(Append(part, k)) = Len(part) + 1 /\ Len(Append(whole, k)) = Len(whole) + 1
      /\ \A i \in 1..Len(part) : Append(part, k)[i] = part[i]
      /\ \A i \in 1..Len(whole) : Append(whole, k)[i] = whole[i]
      /\ Append(part, k)[Len(part) + 1] = k /\ Append(whole, k)[Len(whole) + 1] = k
  BY AppendProperties, LenProperties
<1> DEFINE p == Append(part, k)
           w == Append(whole, k)
<1>2. /\ Len(p) = Len(part) + 1 /\ Len(w) = Len(whole) + 1
      /\ \A i \in 1..Len(part) : p[i] = part[i]
      /\ \A i \in 1..Len(whole) : w[i] = whole[i]
      /\ p[Len(part) + 1] = k /\ w[Len(whole) + 1] = k
  BY <1>1
<1> HIDE DEF p, w
<1>3. 1..Len(p) = (1..Len(part)) \cup {Len(part) + 1}
  BY <1>1, <1>2
<1>4. 1..Len(w) = (1..Len(whole)) \cup {Len(whole) + 1}
  BY <1>1, <1>2
<1>5. Elements(p) = Elements(part) \cup {k} /\ Elements(w) = Elements(whole) \cup {k}
  <2>1. Elements(p) = {p[i] : i \in (1..Len(part)) \cup {Len(part) + 1}}
    BY <1>3, Zenon DEF Elements
  <2>2. Elements(p) = {p[i] : i \in 1..Len(part)} \cup {k}
    BY <1>2, <2>1
  <2>3. {p[i] : i \in 1..Len(part)} = Elements(part)
    BY <1>2 DEF Elements
  <2>4. Elements(w) = {w[i] : i \in (1..Len(whole)) \cup {Len(whole) + 1}}
    BY <1>4, Zenon DEF Elements
  <2>5. Elements(w) = {w[i] : i \in 1..Len(whole)} \cup {k}
    BY <1>2, <2>4
  <2>6. {w[i] : i \in 1..Len(whole)} = Elements(whole)
    BY <1>2 DEF Elements
  <2> QED BY <2>2, <2>3, <2>5, <2>6
<1>6. Distinct(w)
  <2>1. \A i \in 1..Len(whole) : w[i] # k
    BY <1>2 DEF Elements
  <2> QED BY <1>2, <1>4, <2>1 DEF Distinct
<1>7. InOrder(p, w)
  <2> SUFFICES ASSUME NEW i \in 1..Len(p), NEW j \in 1..Len(p), i < j
               PROVE  \E m, n \in 1..Len(w) : m < n /\ w[m] = p[i] /\ w[n] = p[j]
    BY DEF InOrder
  <2>1. i \in 1..Len(part)
    BY <1>1, <1>2
  <2>2. CASE j \in 1..Len(part)
    <3>1. PICK m \in 1..Len(whole), n \in 1..Len(whole) :
            m < n /\ whole[m] = part[i] /\ whole[n] = part[j]
      BY <2>1, <2>2 DEF InOrder
    <3> QED BY <1>2, <1>4, <2>1, <2>2, <3>1
  <2>3. CASE j = Len(part) + 1
    <3>1. part[i] \in Elements(part)
      BY <2>1 DEF Elements
    <3>2. PICK m \in 1..Len(whole) : whole[m] = part[i]
      BY <3>1 DEF Elements
    <3>3. m < Len(whole) + 1
      BY <1>1, <3>2
    <3> QED BY <1>2, <1>4, <2>1, <2>3, <3>2, <3>3
  <2> QED BY <1>3, <2>2, <2>3
<1> QED BY <1>5, <1>6, <1>7 DEF p, w

(* Which of a row of queues are put together first makes no difference.    *)
LEMMA Regroup ==
  \A s, t, u \in Seq(Keys) : (s \o t) \o u = s \o (t \o u)
OBVIOUS

(* Flush moves keys from what it is given to the PTY, and no others.       *)
LEMMA FlushKeepsFlow ==
  ASSUME TypeOK, NEW input \in Seq(Keys), NEW next, Flush(input, next)
  PROVE  ptyIn' \o pending' = ptyIn \o input
<1>1. CASE ~ OtherSideOpen
  BY <1>1 DEF Flush
<1>2. CASE OtherSideOpen
  <2> DEFINE n == Least(Len(input), PtyCap - Len(ptyIn))
  <2>1. ptyIn' = ptyIn \o Take(input, n) /\ pending' = Drop(input, n)
    BY <1>2 DEF Flush
  <2>2. ptyIn \in Seq(Keys) /\ Len(ptyIn) \in Nat /\ Len(input) \in Nat
    BY LenProperties DEF TypeOK
  <2>3. n \in 0..Len(input)
    BY <2>2, RuntimeAssumption DEF TypeOK, Least
  <2> HIDE DEF n
  <2>4. /\ Take(input, n) \in Seq(Keys) /\ Drop(input, n) \in Seq(Keys)
        /\ Take(input, n) \o Drop(input, n) = input
    BY <2>3, TakeDrop
  <2>5. (ptyIn \o Take(input, n)) \o Drop(input, n)
          = ptyIn \o (Take(input, n) \o Drop(input, n))
    BY <2>2, <2>4, Regroup
  <2> QED BY <2>1, <2>4, <2>5
<1> QED BY <1>1, <1>2

FlowIntact ==
  raw => /\ Elements(KeyFlow) = Elements(typed) \ swallowed
         /\ InOrder(KeyFlow, typed)

(* strange has dealt with all it has read when it reads more.              *)
ReadDealtWith ==
  raw => (buffer # <<>> => pc = "slice" \/ (pc = "cleanup" /\ failed))

(* Keys are pressed once each, and strange swallows only what was pressed. *)
KeyInv ==
  /\ Distinct(typed)
  /\ raw => swallowed \subseteq Elements(typed)
  /\ FlowIntact
  /\ ReadDealtWith

KeyVars == <<received, ptyIn, pending, buffer, tty, typed, swallowed>>

(* Only these steps of strange's touch the keys.                           *)
LEMMA KeySteps ==
  ASSUME Strange
  PROVE  \/ /\ UNCHANGED KeyVars /\ raw' = raw
            /\ pc \notin {"slice", "cleanup"}
         \/ FlushPendingInput \/ WakeOnInput \/ ReadInput \/ ForwardInputSlice
         \/ ClockFailsOnInput \/ DisableFromKey \/ Cleanup
<1> USE DEF Unaffected, KeyVars, inputVars, historyVars
<1>1. CASE SyncResize \/ CheckShutdown \/ HoldTimer \/ StartScreensaver \/ NextFrame
  BY <1>1, Zenon DEF SyncResize, CheckShutdown, HoldTimer, StartScreensaver, NextFrame
<1>2. CASE Select \/ SelectInterrupted \/ WaitFails
  BY <1>2 DEF Select, SelectInterrupted, WaitFails
<1>3. CASE \/ EndOfInput \/ HoldOutput \/ OutputOverflow \/ ShowOutput
           \/ EndOfOutput \/ ClockFailsOnOutput
  BY <1>3, Zenon DEF EndOfInput, HoldOutput, OutputOverflow, ShowOutput, EndOfOutput,
     ClockFailsOnOutput
<1>4. CASE PollShellExit \/ HangUp \/ Reap
  BY <1>4 DEF PollShellExit, HangUp, Reap
<1> QED BY ONLY Strange, <1>1, <1>2, <1>3, <1>4, Zenon DEF Strange

(* The state as KeyInv needs it.                                           *)
LEMMA KeyFlowTypes ==
  ASSUME TypeOK
  PROVE  /\ received \in Seq(Keys) /\ ptyIn \in Seq(Keys) /\ pending \in Seq(Keys)
         /\ buffer \in Seq(Keys) /\ tty \in Seq(Keys) /\ typed \in Seq(Keys)
         /\ received \o ptyIn \in Seq(Keys) /\ received \o ptyIn \o pending \in Seq(Keys)
         /\ received \o ptyIn \o pending \o buffer \in Seq(Keys) /\ KeyFlow \in Seq(Keys)
         /\ Len(buffer) \in Nat /\ Len(tty) \in Nat /\ Len(pending) \in Nat /\ room \in Nat
<1>1. /\ received \in Seq(Keys) /\ ptyIn \in Seq(Keys) /\ pending \in Seq(Keys)
      /\ buffer \in Seq(Keys) /\ tty \in Seq(Keys) /\ typed \in Seq(Keys)
  BY DEF TypeOK
<1>2. received \o ptyIn \in Seq(Keys)
  BY <1>1, ConcatProperties
<1>3. received \o ptyIn \o pending \in Seq(Keys)
  BY <1>1, <1>2, ConcatProperties
<1>4. received \o ptyIn \o pending \o buffer \in Seq(Keys)
  BY <1>1, <1>3, ConcatProperties
<1>5. KeyFlow \in Seq(Keys)
  BY <1>1, <1>4, ConcatProperties DEF KeyFlow
<1>6. room \in Nat
  BY RuntimeAssumption DEF TypeOK
<1> QED BY <1>1, <1>2, <1>3, <1>4, <1>5, <1>6, LenProperties

(* Steps that move keys on without taking any out.                         *)
LEMMA FlowKept ==
  ASSUME TypeOK, TypeOK', RoomInv, KeyInv, raw,
         \/ FlushPendingInput \/ ReadInput \/ ClockFailsOnInput
         \/ ForwardInputSlice
  PROVE  KeyFlow' = KeyFlow /\ typed' = typed /\ swallowed' = swallowed
<1> USE DEF historyVars
<1>1. CASE FlushPendingInput
  <2>1. /\ Flush(pending, FromStdin(ready))
        /\ UNCHANGED <<received, buffer, tty, typed, swallowed>>
    BY <1>1 DEF FlushPendingInput
  <2>2. ptyIn' \o pending' = ptyIn \o pending
    BY <2>1, KeyFlowTypes, FlushKeepsFlow
  <2>3. /\ ptyIn' \in Seq(Keys) /\ pending' \in Seq(Keys)
        /\ received \in Seq(Keys) /\ ptyIn \in Seq(Keys) /\ pending \in Seq(Keys)
    BY DEF TypeOK
  <2>4. (received \o ptyIn') \o pending' = (received \o ptyIn) \o pending
    <3>1. (received \o ptyIn') \o pending' = received \o (ptyIn' \o pending')
      BY ONLY <2>3, Regroup
    <3>2. (received \o ptyIn) \o pending = received \o (ptyIn \o pending)
      BY ONLY <2>3, Regroup
    <3> QED BY ONLY <2>2, <3>1, <3>2
  <2> QED BY <2>1, <2>4 DEF KeyFlow
<1>2. CASE ReadInput \/ ClockFailsOnInput
  <2> DEFINE n == Least(room, Len(tty))
  <2>1. /\ pc = "stdin" /\ buffer' = Take(tty, n) /\ tty' = Drop(tty, n)
        /\ UNCHANGED <<received, ptyIn, pending, typed, swallowed>>
    BY <1>2 DEF ReadInput, ClockFailsOnInput
  <2>2. buffer = <<>>
    BY <2>1 DEF KeyInv, ReadDealtWith
  <2>3. n \in 0..Len(tty) /\ tty \in Seq(Keys)
    BY KeyFlowTypes DEF Least
  <2> HIDE DEF n
  <2>4. buffer' \o tty' = tty /\ buffer' \in Seq(Keys) /\ tty' \in Seq(Keys)
    BY <2>1, <2>3, TakeDrop
  <2> DEFINE first == received \o ptyIn \o pending
  <2>5. first \in Seq(Keys)
    BY KeyFlowTypes
  <2>6. KeyFlow = first \o <<>> \o tty /\ KeyFlow' = first \o buffer' \o tty'
    BY <2>1, <2>2 DEF KeyFlow
  <2> HIDE DEF first
  <2>7. first \o <<>> = first
    BY <2>5, ConcatEmptySeq
  <2>8. (first \o buffer') \o tty' = first \o (buffer' \o tty')
    BY <2>4, <2>5, Regroup
  <2> QED BY <2>1, <2>4, <2>6, <2>7, <2>8
<1>3. CASE ForwardInputSlice
  <2>1. PICK n \in 1..Len(buffer) :
          /\ buffer' = Drop(buffer, n)
          /\ Flush(Take(pending \o Take(buffer, n),
                        Least(InputCap, Len(pending \o Take(buffer, n)))),
                   AfterSlice(buffer'))
    BY <1>3 DEF ForwardInputSlice
  <2>2. pc = "slice" /\ UNCHANGED <<received, tty, typed, swallowed>>
    BY <1>3 DEF ForwardInputSlice
  <2> DEFINE slice  == Take(buffer, n)
             joined == pending \o slice
  <2>3. n \in 0..Len(buffer) /\ buffer \in Seq(Keys) /\ Len(buffer) \in Nat
    BY KeyFlowTypes
  <2>4. slice \in Seq(Keys) /\ Len(slice) = n /\ slice \o buffer' = buffer
    BY <2>1, <2>3, TakeDrop
  <2> HIDE DEF slice
  <2>5. joined \in Seq(Keys) /\ Len(joined) = Len(pending) + n
    BY <2>4, KeyFlowTypes, ConcatProperties
  <2>6. Len(joined) <= InputCap
    BY <2>2, <2>3, <2>5, KeyFlowTypes, RuntimeAssumption DEF RoomInv
  <2>7. Take(joined, Least(InputCap, Len(joined))) = joined
    <3>1. Len(joined) \in Nat /\ InputCap \in Nat
      BY <2>5, LenProperties, RuntimeAssumption
    <3>2. Least(InputCap, Len(joined)) = Len(joined)
      BY <2>6, <3>1 DEF Least
    <3>3. SubSeq(joined, 1, Len(joined)) = joined
      BY <2>5, SubSeqFull
    <3> QED BY <3>2, <3>3 DEF Take
  <2>8. Flush(Take(joined, Least(InputCap, Len(joined))), AfterSlice(buffer'))
    BY <2>1 DEF slice
  <2>9. Flush(joined, AfterSlice(buffer'))
    BY <2>7, <2>8
  <2>10. ptyIn' \o pending' = ptyIn \o joined
    BY <2>5, <2>9, FlushKeepsFlow
  <2>11. received \in Seq(Keys) /\ ptyIn \in Seq(Keys)
    BY DEF TypeOK
  <2>12. ptyIn' \in Seq(Keys) /\ pending' \in Seq(Keys)
    BY DEF TypeOK
  <2>13. (received \o ptyIn') \o pending' = received \o (ptyIn' \o pending')
    BY ONLY <2>11, <2>12, Regroup
  <2> HIDE DEF joined
  <2>14. joined \in Seq(Keys)
    BY <2>5
  <2>15. (received \o ptyIn) \o joined = received \o (ptyIn \o joined)
    BY ONLY <2>11, <2>14, Regroup
  <2> DEFINE front == received \o ptyIn
             queue == front \o pending
  <2>16. front \in Seq(Keys) /\ queue \in Seq(Keys)
    BY KeyFlowTypes
  <2>17. pending \in Seq(Keys)
    BY DEF TypeOK
  <2>18. slice \in Seq(Keys)
    BY <2>4
  <2>19. (received \o ptyIn') \o pending' = queue \o slice
    <3>1. (received \o ptyIn') \o pending' = front \o joined
      BY ONLY <2>10, <2>13, <2>15
    <3>2. front \o joined = front \o (pending \o slice)
      BY DEF joined
    <3> HIDE DEF front
    <3>3. (front \o pending) \o slice = front \o (pending \o slice)
      BY ONLY <2>16, <2>17, <2>18, Regroup
    <3> QED BY ONLY <3>1, <3>2, <3>3 DEF queue
  <2>20. (queue \o slice) \o buffer' = queue \o buffer
    <3> HIDE DEF queue
    <3>1. buffer' \in Seq(Keys)
      BY DEF TypeOK
    <3>2. (queue \o slice) \o buffer' = queue \o (slice \o buffer')
      BY ONLY <2>16, <2>18, <3>1, Regroup
    <3> QED BY ONLY <2>4, <3>2
  <2>21. KeyFlow = (queue \o buffer) \o tty
         /\ KeyFlow' = (((received \o ptyIn') \o pending') \o buffer') \o tty
    BY <2>2 DEF KeyFlow
  <2> HIDE DEF front, queue
  <2> QED BY ONLY <2>2, <2>19, <2>20, <2>21
<1> QED BY <1>1, <1>2, <1>3

(* What strange swallows was at one place in the row, and leaves it.       *)
LEMMA KeysTakenOut ==
  ASSUME TypeOK, KeyInv, raw, NEW a \in Seq(Keys), NEW b \in Seq(Keys),
         NEW c \in Seq(Keys), KeyFlow = a \o b \o c, KeyFlow' = a \o c,
         typed' = typed, swallowed' = swallowed \cup Elements(b)
  PROVE  Distinct(typed)' /\ swallowed' \subseteq Elements(typed') /\ FlowIntact'
<1>1. /\ Elements(KeyFlow) = Elements(typed) \ swallowed /\ InOrder(KeyFlow, typed)
      /\ Distinct(typed) /\ swallowed \subseteq Elements(typed)
  BY DEF KeyInv, FlowIntact
<1>2. typed \in Seq(Keys)
  BY DEF TypeOK
<1>3. /\ Elements(a \o c) = Elements(a \o b \o c) \ Elements(b)
      /\ InOrder(a \o c, typed)
  BY <1>1, <1>2, PieceTakenOut
<1>4. Elements(KeyFlow') = Elements(KeyFlow) \ Elements(b)
  BY <1>3
<1>5. Elements(b) \subseteq Elements(KeyFlow)
  <2>1. a \o b \in Seq(Keys)
    BY ConcatProperties
  <2>2. Elements((a \o b) \o c) = Elements(a \o b) \cup Elements(c)
    BY <2>1, ConcatElements, ZenonT(40)
  <2>3. Elements(a \o b) = Elements(a) \cup Elements(b)
    BY ConcatElements
  <2> QED BY <2>2, <2>3
<1>6. Elements(KeyFlow)' = Elements(typed') \ swallowed' /\ InOrder(KeyFlow', typed')
  BY <1>1, <1>3, <1>4
<1> QED BY <1>1, <1>5, <1>6 DEF FlowIntact, Distinct

(* Each step that touches the keys keeps what is said of them.             *)
LEMMA KeyStrange ==
  ASSUME TypeOK, TypeOK', RoomInv, ExitInv, KeyInv, Strange
  PROVE  KeyInv'
<1> USE DEF historyVars
<1>1. CASE /\ UNCHANGED KeyVars /\ raw' = raw
           /\ pc \notin {"slice", "cleanup"}
  BY <1>1 DEF KeyVars, KeyInv, FlowIntact, ReadDealtWith, KeyFlow, Distinct
<1>2. CASE Cleanup
  BY <1>2 DEF Cleanup, KeyInv, FlowIntact, ReadDealtWith, Distinct
<1>3. CASE ~ raw /\ (FlushPendingInput \/ WakeOnInput \/ ReadInput \/
                     ClockFailsOnInput \/ ForwardInputSlice \/ DisableFromKey)
  <2>1. raw' = raw /\ typed' = typed
    BY <1>3 DEF FlushPendingInput, WakeOnInput, ReadInput, ForwardInputSlice,
       ClockFailsOnInput, DisableFromKey
  <2> QED BY <1>3, <2>1 DEF KeyInv, FlowIntact, ReadDealtWith, Distinct
<1>4. CASE raw /\ (\/ FlushPendingInput \/ ReadInput \/ ClockFailsOnInput
                   \/ ForwardInputSlice)
  <2>1. KeyFlow' = KeyFlow /\ typed' = typed /\ swallowed' = swallowed
    BY <1>4, FlowKept
  <2>2. FlowIntact' /\ Distinct(typed)' /\ swallowed' \subseteq Elements(typed')
    BY <1>4, <2>1 DEF KeyInv, FlowIntact, Distinct
  <2>3. ReadDealtWith'
    <3>1. CASE FlushPendingInput
      BY <3>1, <1>4 DEF FlushPendingInput, KeyInv, ReadDealtWith
    <3>2. CASE ReadInput \/ ClockFailsOnInput
      BY <3>2 DEF ReadInput, ClockFailsOnInput, GoTo, Abort, ReadDealtWith
    <3>3. CASE ForwardInputSlice
      <4>1. pc' = AfterSlice(buffer') \/ (pc' = "cleanup" /\ failed' = TRUE)
        BY <3>3, ForwardSliceEffect DEF RoomInv
      <4> QED BY <4>1 DEF AfterSlice, ReadDealtWith
    <3> QED BY <1>4, <3>1, <3>2, <3>3
  <2> QED BY <2>2, <2>3 DEF KeyInv
<1>5. CASE raw /\ WakeOnInput
  <2> DEFINE n     == Least(room, Len(tty))
             first == received \o ptyIn \o pending
  <2>1. /\ pc = "stdin" /\ tty' = Drop(tty, n)
        /\ swallowed' = swallowed \cup Elements(Take(tty, n))
        /\ UNCHANGED <<received, ptyIn, pending, buffer, typed>>
    BY <1>5 DEF WakeOnInput
  <2>2. buffer = <<>>
    BY <1>5, <2>1 DEF KeyInv, ReadDealtWith
  <2>3. n \in 0..Len(tty) /\ tty \in Seq(Keys) /\ first \in Seq(Keys)
    BY KeyFlowTypes DEF Least
  <2>4. KeyFlow = first \o <<>> \o tty /\ KeyFlow' = first \o <<>> \o tty'
    BY <2>1, <2>2 DEF KeyFlow
  <2> HIDE DEF n, first
  <2>5. first \o <<>> = first
    BY <2>3, ConcatEmptySeq
  <2>6. /\ Take(tty, n) \in Seq(Keys) /\ Drop(tty, n) \in Seq(Keys)
        /\ Take(tty, n) \o Drop(tty, n) = tty
    BY <2>3, TakeDrop
  <2> DEFINE keys == Take(tty, n)
             rest == Drop(tty, n)
  <2>7. keys \in Seq(Keys) /\ rest \in Seq(Keys) /\ keys \o rest = tty
    BY <2>6
  <2>8. KeyFlow = first \o (keys \o rest) /\ KeyFlow' = first \o rest
    BY <2>1, <2>4, <2>5, <2>7
  <2>9. swallowed' = swallowed \cup Elements(keys) /\ typed' = typed
    BY <2>1
  <2>10. first \in Seq(Keys)
    BY <2>3
  <2> HIDE DEF keys, rest
  <2>11. (first \o keys) \o rest = first \o (keys \o rest)
    BY ONLY <2>7, <2>10, Regroup
  <2>12. Distinct(typed)' /\ swallowed' \subseteq Elements(typed') /\ FlowIntact'
    BY <1>5, <2>7, <2>8, <2>9, <2>10, <2>11, KeysTakenOut
  <2>13. buffer' = <<>>
    BY <2>1, <2>2
  <2> QED BY <2>12, <2>13 DEF KeyInv, ReadDealtWith
<1>6. CASE raw /\ DisableFromKey
  <2> DEFINE first == received \o ptyIn \o pending
             keys  == <<Head(buffer)>>
             rest  == Tail(buffer)
  <2>1. /\ buffer # <<>> /\ buffer' = rest
        /\ swallowed' = swallowed \cup {Head(buffer)}
        /\ UNCHANGED <<received, ptyIn, pending, tty, typed>>
        /\ pc' = AfterSlice(buffer')
    BY <1>6 DEF DisableFromKey, GoTo
  <2>2. buffer \in Seq(Keys) /\ tty \in Seq(Keys) /\ first \in Seq(Keys)
    BY KeyFlowTypes
  <2>3. KeyFlow = first \o buffer \o tty /\ KeyFlow' = first \o rest \o tty
    BY <2>1 DEF KeyFlow
  <2>4. Head(buffer) \in Keys /\ rest \in Seq(Keys) /\ keys \o rest = buffer
    BY <2>1, <2>2
  <2>5. keys \in Seq(Keys) /\ Elements(keys) = {Head(buffer)}
    BY <2>4 DEF Elements
  <2> HIDE DEF first, keys, rest
  <2> DEFINE end == rest \o tty
  <2>6. end \in Seq(Keys)
    BY <2>2, <2>4, ConcatProperties
  <2>7. KeyFlow' = first \o end
    BY <2>2, <2>3, <2>4, Regroup
  <2>8. KeyFlow = (first \o keys) \o end
    <3>1. first \in Seq(Keys)
      BY <2>2
    <3>2. rest \in Seq(Keys) /\ keys \in Seq(Keys)
      BY <2>4, <2>5
    <3>3. first \o (keys \o rest) = (first \o keys) \o rest
      BY ONLY <3>1, <3>2, Regroup
    <3> DEFINE front == first \o keys
    <3>4. front \in Seq(Keys)
      BY <3>1, <3>2, ConcatProperties
    <3> HIDE DEF front
    <3>5. tty \in Seq(Keys) /\ rest \in Seq(Keys)
      BY <2>2, <3>2
    <3>6. (front \o rest) \o tty = front \o (rest \o tty)
      BY ONLY <3>4, <3>5, Regroup
    <3> QED BY ONLY <2>3, <2>4, <3>3, <3>6 DEF front, end
  <2> HIDE DEF end
  <2>9. Distinct(typed)' /\ swallowed' \subseteq Elements(typed') /\ FlowIntact'
    BY <1>6, <2>1, <2>2, <2>5, <2>6, <2>7, <2>8, KeysTakenOut
  <2> QED BY <2>1, <2>9 DEF KeyInv, ReadDealtWith, AfterSlice
<1> QED BY <1>1, <1>2, <1>3, <1>4, <1>5, <1>6, KeySteps

(* The user adds to the end of the row, the shell takes from it what stays *)
(* in the row.                                                             *)
LEMMA KeyEnvironment ==
  ASSUME TypeOK, KeyInv, Environment
  PROVE  KeyInv'
<1>1. UNCHANGED <<pc, raw, failed, pending, buffer, swallowed>>
  BY DEF Environment, strangeVars, Press, TerminalCloses, ShutdownSignal,
     ResizeSignal, Tick, ShellReads, ShellWrites, ShellCloses, ShellExits,
     JobStarts, JobEnds
<1>2. CASE UNCHANGED <<received, ptyIn, tty, typed>>
  BY <1>1, <1>2 DEF KeyInv, FlowIntact, ReadDealtWith, KeyFlow, Distinct
<1>3. CASE ShellReads
  <2>1. /\ ptyIn # <<>> /\ received' = Append(received, Head(ptyIn))
        /\ ptyIn' = Tail(ptyIn) /\ UNCHANGED <<tty, typed>>
    BY <1>3 DEF ShellReads
  <2>2. received \in Seq(Keys) /\ ptyIn \in Seq(Keys)
    BY DEF TypeOK
  <2>3. received' \o ptyIn' = received \o ptyIn
    BY <2>1, <2>2
  <2>4. KeyFlow' = KeyFlow
    BY <1>1, <2>1, <2>3 DEF KeyFlow
  <2> QED BY <1>1, <2>1, <2>4 DEF KeyInv, FlowIntact, ReadDealtWith, Distinct
<1>4. CASE \E k \in Keys : Press(k)
  <2>1. PICK k \in Keys : Press(k)
    BY <1>4
  <2>2. /\ k \notin Elements(typed)
        /\ typed' = Append(typed, k) /\ tty' = Append(tty, k)
        /\ UNCHANGED <<received, ptyIn>>
    BY <2>1 DEF Press
  <2>3. typed \in Seq(Keys) /\ tty \in Seq(Keys) /\ KeyFlow \in Seq(Keys)
        /\ received \o ptyIn \o pending \o buffer \in Seq(Keys)
    BY KeyFlowTypes
  <2>4. Distinct(typed) /\ (raw => swallowed \subseteq Elements(typed))
    BY DEF KeyInv
  <2>5. Distinct(Append(typed, k))
        /\ Elements(Append(typed, k)) = Elements(typed) \cup {k}
    <3>1. /\ Len(typed) \in Nat /\ Len(Append(typed, k)) = Len(typed) + 1
          /\ \A i \in 1..Len(typed) : Append(typed, k)[i] = typed[i]
          /\ Append(typed, k)[Len(typed) + 1] = k
      BY <2>3, AppendProperties, LenProperties
    <3> DEFINE longer == Append(typed, k)
    <3>2. /\ Len(longer) = Len(typed) + 1 /\ longer[Len(typed) + 1] = k
          /\ \A i \in 1..Len(typed) : longer[i] = typed[i]
      BY <3>1
    <3> HIDE DEF longer
    <3>3. 1..Len(longer) = (1..Len(typed)) \cup {Len(typed) + 1}
      BY <3>1, <3>2
    <3>4. \A i \in 1..Len(typed) : longer[i] # k
      BY <2>2, <3>2 DEF Elements
    <3>5. Distinct(longer)
      BY <2>4, <3>2, <3>3, <3>4 DEF Distinct
    <3>6. Elements(longer) = Elements(typed) \cup {k}
      BY <3>2, <3>3 DEF Elements
    <3> QED BY <3>5, <3>6 DEF longer
  <2>6. Distinct(typed)' /\ (raw' => swallowed' \subseteq Elements(typed'))
    BY <1>1, <2>2, <2>4, <2>5 DEF Distinct
  <2>7. raw => FlowIntact'
    <3> SUFFICES ASSUME raw PROVE FlowIntact'
      OBVIOUS
    <3>1. Elements(KeyFlow) = Elements(typed) \ swallowed /\ InOrder(KeyFlow, typed)
      BY DEF KeyInv, FlowIntact
    <3>2. KeyFlow' = Append(KeyFlow, k)
      <4> DEFINE front == received \o ptyIn \o pending \o buffer
      <4>1. KeyFlow = front \o tty /\ KeyFlow' = front \o Append(tty, k)
        BY <1>1, <2>2 DEF KeyFlow
      <4>2. front \in Seq(Keys)
        BY <2>3
      <4> HIDE DEF front
      <4>3. front \o Append(tty, k) = Append(front \o tty, k)
        BY <2>3, <4>2
      <4> QED BY <4>1, <4>3
    <3>3. /\ Elements(Append(KeyFlow, k)) = Elements(KeyFlow) \cup {k}
          /\ InOrder(Append(KeyFlow, k), Append(typed, k))
      <4>1. Elements(KeyFlow) \subseteq Elements(typed)
        BY <3>1
      <4> QED BY <2>2, <2>3, <2>4, <3>1, <4>1, PressedLast
    <3>4. k \notin swallowed
      BY <2>2, <2>4
    <3>5. Elements(Append(KeyFlow, k)) = Elements(Append(typed, k)) \ swallowed
      BY <2>5, <3>1, <3>3, <3>4
    <3> QED BY <1>1, <2>2, <3>2, <3>3, <3>5 DEF FlowIntact
  <2>8. FlowIntact'
    BY <1>1, <2>7 DEF FlowIntact
  <2> QED BY <1>1, <2>6, <2>8 DEF KeyInv, ReadDealtWith
<1> QED BY <1>2, <1>3, <1>4 DEF Environment, TerminalCloses, ShutdownSignal, ResizeSignal,
        Tick, ShellWrites, ShellCloses, ShellExits,
     JobStarts, JobEnds

(* While raw mode lasts, the keys strange passes on arrive, each once and  *)
(* in the order they were pressed, through partial writes, a full PTY and  *)
(* a screensaver that comes and goes; pending_input loses nothing.         *)
THEOREM KeysArrive == Spec => []InputIntact
<1>1. Init => KeyInv
  <2> SUFFICES ASSUME Init PROVE KeyInv
    OBVIOUS
  <2>1. /\ received = <<>> /\ ptyIn = <<>> /\ pending = <<>> /\ buffer = <<>>
        /\ tty = <<>> /\ typed = <<>> /\ swallowed = {}
    BY DEF Init
  <2>2. KeyFlow = <<>>
    BY <2>1 DEF KeyFlow
  <2>3. Len(<<>>) = 0 /\ 1..0 = {}
    OBVIOUS
  <2> QED BY <2>1, <2>2, <2>3 DEF KeyInv, FlowIntact, ReadDealtWith, InOrder, Elements, Distinct
<1>2. IInv /\ IInv' /\ KeyInv /\ [Next]_vars => KeyInv'
  <2> SUFFICES ASSUME IInv, IInv', KeyInv, [Next]_vars PROVE KeyInv'
    OBVIOUS
  <2>1. TypeOK /\ TypeOK' /\ RoomInv /\ ExitInv
    BY DEF IInv
  <2>2. CASE UNCHANGED vars
    BY <2>2 DEF vars, inputVars, historyVars, KeyInv, FlowIntact, ReadDealtWith,
       KeyFlow, Distinct
  <2> QED BY <2>1, <2>2, KeyStrange, KeyEnvironment DEF Next, Done
<1>3. KeyInv => InputIntact
  BY DEF KeyInv, FlowIntact, ReadDealtWith, InputIntact
<1> QED BY <1>1, <1>2, <1>3, Invariance, PTL DEF Spec
=============================================================================
