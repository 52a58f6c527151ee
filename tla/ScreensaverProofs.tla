-------------------------- MODULE ScreensaverProofs ---------------------------
(***************************************************************************)
(* For any handles and faults: callbacks come in order, a script's buffer  *)
(* is dead once its call is over, and nothing of a takeover outlives it.   *)
(***************************************************************************)
EXTENDS Screensaver, TLAPS

LEMMA ScreensaverInitial == ScreensaverInit => ScreensaverInv
BY ScreensaverAssumption
   DEF ScreensaverInit, ScreensaverInv, TakeoverInv, BufferInv, Nothing, Everything,
       Away, Starting, Taken

(* Passing a buffer and taking it back.                                    *)
LEMMA BufferPassed ==
  ASSUME BufferInv, current = Nil, PassBuffer, phase' \in {"init", "update"}
  PROVE  BufferInv'
<1>1. CASE language = "lua"
  <2>1. PICK h \in Handles : current' = h /\ usable' = usable \cup {h}
    BY <1>1 DEF PassBuffer
  <2> QED BY <2>1, ScreensaverAssumption DEF BufferInv
<1>2. CASE language # "lua"
  BY <1>2 DEF PassBuffer, BufferInv, buffers
<1> QED BY <1>1, <1>2

LEMMA BufferTaken ==
  ASSUME BufferInv, TakeBuffer
  PROVE  BufferInv'
BY DEF BufferInv, TakeBuffer

(* A callback never runs in any other phase than its own.                  *)
LEMMA NoBuffer ==
  ASSUME BufferInv, phase \notin {"init", "update"}
  PROVE  current = Nil /\ usable = {}
BY DEF BufferInv

LEMMA ReleaseReleases ==
  ASSUME Everything, Release
  PROVE  refs' = 0 /\ reference' = "noref" /\ ~ alive'
BY DEF Everything, Release

(* What each step does to the takeover.                                    *)
LEMMA TakeoverKept ==
  ASSUME ScreensaverInv, ScreensaverNext
  PROVE  TakeoverInv' /\ caller' = caller
           /\ (phase \in Away \cup Starting \cup Taken \cup {"leave", "cleanup", "aborted"})'
<1> USE DEF ScreensaverInv, TakeoverInv, Nothing, Everything, Away, Starting, Taken,
            fixed, takeover, report, adapter, buffers, user
<1>1. CASE Enter
  BY <1>1 DEF Enter, Fails
<1>2. CASE InitCalled
  BY <1>2 DEF InitCalled, Entered
<1>3. CASE InitReturns
  BY <1>3 DEF InitReturns, Entered
<1>4. CASE InitFails
  BY <1>4 DEF InitFails, Fails
<1>5. CASE Frame
  BY <1>5 DEF Frame, Fails
<1>6. CASE UpdateCalled
  BY <1>6 DEF UpdateCalled
<1>7. CASE UpdateReturns
  BY <1>7 DEF UpdateReturns
<1>8. CASE UpdateFails
  BY <1>8 DEF UpdateFails, Fails
<1>9. CASE Present
  BY <1>9 DEF Present, Fails
<1>10. CASE Leave
  BY <1>10 DEF Leave, Left, Release, AfterLeave
<1>11. CASE CleanupReturns
  BY <1>11 DEF CleanupReturns, Left, Release, AfterLeave
<1>12. CASE CleanupFails
  BY <1>12 DEF CleanupFails, Left, Release, AfterLeave
<1>13. CASE Covered
  BY <1>13 DEF Covered
<1>14. CASE Report
  BY <1>14 DEF Report
<1>15. CASE EndSession
  BY <1>15 DEF EndSession
<1>16. CASE StartPreview
  BY <1>16 DEF StartPreview
<1>17. CASE CheckShutdown
  BY <1>17 DEF CheckShutdown
<1>18. CASE Select
  BY <1>18 DEF Select
<1>19. CASE SelectFails
  BY <1>19 DEF SelectFails, Fails
<1>20. CASE Restore
  BY <1>20 DEF Restore
<1>21. CASE \E callback \in Callbacks : Panic(callback)
  BY <1>21 DEF Panic
<1>22. CASE KeepBuffer
  BY <1>22 DEF KeepBuffer
<1>23. CASE Press
  BY <1>23 DEF Press
<1>24. CASE Signal
  BY <1>24 DEF Signal
<1>25. CASE StrangeGoesOn
  BY ONLY <1>25, <1>1, <1>2, <1>5, <1>6, <1>9, <1>10, <1>13, <1>14, <1>15, <1>16,
          <1>17, <1>18, <1>20, Zenon DEF StrangeGoesOn
<1>26. CASE Callback
  BY ONLY <1>26, <1>3, <1>4, <1>7, <1>8, <1>11, <1>12, Zenon DEF Callback
<1> QED
  BY ONLY ScreensaverNext, <1>19, <1>21, <1>22, <1>23, <1>24, <1>25, <1>26, Zenon DEF ScreensaverNext

(* And what it does to the buffers.                                        *)
LEMMA BuffersKept ==
  ASSUME ScreensaverInv, ScreensaverNext
  PROVE  BufferInv'
<1> USE DEF ScreensaverInv, fixed, buffers
<1>1. CASE InitCalled
  <2>1. CASE "init" \in defined
    BY <1>1, <2>1, NoBuffer, BufferPassed DEF InitCalled
  <2>2. CASE "init" \notin defined
    BY <1>1, <2>2, NoBuffer DEF InitCalled, BufferInv
  <2> QED BY <2>1, <2>2
<1>2. CASE UpdateCalled
  <2>1. CASE "update" \in defined
    BY <1>2, <2>1, NoBuffer, BufferPassed DEF UpdateCalled
  <2>2. CASE "update" \notin defined
    BY <1>2, <2>2, NoBuffer DEF UpdateCalled, BufferInv
  <2> QED BY <2>1, <2>2
<1>3. CASE InitReturns \/ InitFails \/ UpdateReturns \/ UpdateFails
  BY <1>3, BufferTaken DEF InitReturns, InitFails, UpdateReturns, UpdateFails
<1>4. CASE KeepBuffer
  BY <1>4 DEF KeepBuffer, BufferInv
<1>5. CASE Press
  BY <1>5 DEF Press, BufferInv
<1>6. CASE Signal
  BY <1>6 DEF Signal, BufferInv
<1>7. CASE \E callback \in Callbacks : Panic(callback)
  <2>1. phase \notin {"init", "update"} /\ UNCHANGED buffers
    BY <1>7 DEF Panic
  <2> QED BY <2>1, NoBuffer DEF BufferInv
<1>8. CASE Enter \/ Frame \/ Present \/ Leave \/ Covered \/ Report \/ EndSession
  <2>1. phase \notin {"init", "update"} /\ UNCHANGED buffers
    BY <1>8 DEF Enter, Frame, Present, Leave, Covered, Report, EndSession
  <2> QED BY <2>1, NoBuffer DEF BufferInv
<1>9. CASE \/ CleanupReturns \/ CleanupFails \/ StartPreview \/ CheckShutdown
           \/ Select \/ SelectFails \/ Restore
  <2>1. phase \notin {"init", "update"} /\ UNCHANGED buffers
    BY <1>9 DEF CleanupReturns, CleanupFails, StartPreview, CheckShutdown, Select,
                SelectFails, Restore
  <2> QED BY <2>1, NoBuffer DEF BufferInv
<1> QED
  BY <1>1, <1>2, <1>3, <1>4, <1>5, <1>6, <1>7, <1>8, <1>9 DEF ScreensaverNext, StrangeGoesOn, Callback

LEMMA ScreensaverStep == ScreensaverInv /\ [ScreensaverNext]_screensaverVars => ScreensaverInv'
<1> SUFFICES ASSUME ScreensaverInv, [ScreensaverNext]_screensaverVars PROVE ScreensaverInv'
  OBVIOUS
<1>1. CASE ScreensaverNext
  BY <1>1, TakeoverKept, BuffersKept DEF ScreensaverInv
<1>2. CASE UNCHANGED screensaverVars
  BY <1>2 DEF screensaverVars, fixed, takeover, report, adapter, buffers, user, ScreensaverInv,
              TakeoverInv, BufferInv, Nothing, Everything, Away, Starting, Taken
<1> QED BY <1>1, <1>2

(* The invariant: what there is of a takeover in each phase.               *)
THEOREM ScreensaverInvariance == ScreensaverSpec => []ScreensaverInv
BY ScreensaverInitial, ScreensaverStep, PTL DEF ScreensaverSpec

(* However a call ends and however long the script keeps its handle, the   *)
(* buffer behind it can be drawn on during that call only.                 *)
THEOREM BufferIsDead == ScreensaverSpec => []BufferOnlyDuringItsCall
<1>1. ScreensaverInv => BufferOnlyDuringItsCall
  BY DEF ScreensaverInv, BufferInv, TakeoverInv, BufferOnlyDuringItsCall, Starting,
         Taken, Everything
<1> QED BY <1>1, ScreensaverInvariance, PTL

(* Whichever step fails, the screen is handed back and nothing remains.    *)
THEOREM NothingIsKept == ScreensaverSpec => []NothingKept
<1>1. ScreensaverInv => NothingKept
  BY DEF ScreensaverInv, TakeoverInv, Nothing, Away, NothingKept
<1> QED BY <1>1, ScreensaverInvariance, PTL

(* Callbacks are called in the order the registry promises.                *)
THEOREM CallsAreInOrder == ScreensaverSpec => CallsInOrder
<1> DEFINE Order == phase' # phase =>
        /\ phase' = "init" => ~ alive /\ ~ failed
        /\ phase' = "update" => alive /\ ~ failed
        /\ phase' = "cleanup" => alive
<1>1. ScreensaverInv /\ [ScreensaverNext]_screensaverVars => [Order]_screensaverVars
  <2> SUFFICES ASSUME ScreensaverInv, ScreensaverNext, phase' # phase,
                      phase' \in {"init", "update", "cleanup"}
               PROVE  Order
    OBVIOUS
  <2>1. CASE phase' = "init"
    <3>1. InitCalled
      BY <2>1 DEF ScreensaverNext, StrangeGoesOn, Callback, Enter, Fails, InitCalled, Entered, InitReturns,
        InitFails, Frame, UpdateCalled, UpdateReturns, UpdateFails, Present, Leave, Left,
        AfterLeave, CleanupReturns, CleanupFails, Covered, Report, EndSession,
        StartPreview, CheckShutdown, Select, SelectFails, Restore, Panic, KeepBuffer, Press, Signal
    <3> QED BY <2>1, <3>1 DEF InitCalled, ScreensaverInv, TakeoverInv, Starting
  <2>2. CASE phase' = "update"
    <3>1. UpdateCalled
      BY <2>2 DEF ScreensaverNext, StrangeGoesOn, Callback, Enter, Fails, InitCalled, Entered, InitReturns,
        InitFails, Frame, UpdateCalled, UpdateReturns, UpdateFails, Present, Leave, Left,
        AfterLeave, CleanupReturns, CleanupFails, Covered, Report, EndSession,
        StartPreview, CheckShutdown, Select, SelectFails, Restore, Panic, KeepBuffer, Press, Signal
    <3> QED BY <2>2, <3>1 DEF UpdateCalled, ScreensaverInv, TakeoverInv, Taken, Everything
  <2>3. CASE phase' = "cleanup"
    <3>1. Leave /\ visible
      BY <2>3 DEF ScreensaverNext, StrangeGoesOn, Callback, Enter, Fails, InitCalled, Entered, InitReturns,
        InitFails, Frame, UpdateCalled, UpdateReturns, UpdateFails, Present, Leave, Left,
        AfterLeave, CleanupReturns, CleanupFails, Covered, Report, EndSession,
        StartPreview, CheckShutdown, Select, SelectFails, Restore, Panic, KeepBuffer, Press, Signal
    <3> QED BY <2>3, <3>1 DEF Leave, ScreensaverInv, TakeoverInv, Everything
  <2> QED BY <2>1, <2>2, <2>3
<1> QED BY <1>1, ScreensaverInvariance, PTL DEF ScreensaverSpec, CallsInOrder
=============================================================================
