-------------------------- MODULE WindowSizeProofs --------------------------
(***************************************************************************)
(* For any heights and any number of resizes: no resize is lost once the   *)
(* shell has started, and a program drawn over is told of a change as the  *)
(* screensaver ends, if the terminal has the height strange last saw.      *)
(***************************************************************************)
EXTENDS WindowSize, TLAPS

(* The wrong height differs from the true one, even at 0 and 1.            *)
LEMMA MisreportDiffers ==
  ASSUME NEW h \in Nat
  PROVE  Misreport(h) \in Nat /\ Misreport(h) # h
BY DEF Misreport

LEMMA WindowInitial == WindowInit => WindowInv
<1> SUFFICES ASSUME WindowInit PROVE WindowInv
  OBVIOUS
<1> USE WindowAssumption DEF WindowInit
<1>3. resizes \in 0..MaxResizes /\ startHeight \in TerminalHeights \cup {0}
  OBVIOUS
<1>1. WindowTypeOK
  BY <1>3 DEF WindowTypeOK, InLoop
<1>2. SizeFollowed /\ StartInv /\ SyncInv /\ CoverInv
  BY DEF SizeFollowed, StartInv, SyncInv, CoverInv, InLoop, Syncing
<1> QED BY <1>1, <1>2 DEF WindowInv

(* Every step keeps the types.                                             *)
LEMMA WindowStepType ==
  ASSUME WindowInv, WindowNext
  PROVE  WindowTypeOK'
<1> USE WindowAssumption
<1> USE DEF WindowInv, WindowTypeOK, InLoop, syncVars, startVars, screenVars,
            outsideVars, ptyVars
<1>1. CASE ReadTerminalState
  BY <1>1 DEF ReadTerminalState
<1>2. CASE Fork
  <2>1. ~ drewOver
    BY <1>2 DEF Fork, StartInv
  <2> QED BY <1>2, <2>1 DEF Fork
<1>12. CASE InstallHandlers
  BY <1>12 DEF InstallHandlers
<1>8. CASE ApplyTerminalState
  <2>1. told' \in Nat
    BY <1>8 DEF ApplyTerminalState
  <2> QED BY <1>8, <2>1 DEF ApplyTerminalState
<1>9. CASE ConsumeResizeEvent
  BY <1>9, ZenonT(40) DEF ConsumeResizeEvent, Sync
<1>10. CASE AskTerminal
  <2>1. asked' \in TerminalHeights \cup {0}
    BY <1>10 DEF AskTerminal
  <2> QED BY <1>10, <2>1 DEF AskTerminal
<1>11. CASE Check
  BY <1>11 DEF Check
<1>7. CASE Relay
  BY <1>7 DEF Relay, ScreensAfter
<1>3. CASE TellPty
  <2>1. Misreport(asked) \in Nat
    BY MisreportDiffers
  <2> QED BY <1>3, <2>1 DEF TellPty
<1>4. CASE StartScreensaver
  BY <1>4 DEF StartScreensaver, Sync, StartInv
<1>5. CASE ExitScreensaver
  BY <1>5, ZenonT(40) DEF ExitScreensaver, Sync, ScreensAfter
<1>6. CASE Resize
  BY <1>6 DEF Resize
<1> QED BY <1>1, <1>2, <1>3, <1>4, <1>5, <1>6, <1>7, <1>8, <1>9, <1>10, <1>11,
          <1>12
       DEF WindowNext, Strange

(* The steps that start the shell.                                         *)
LEMMA WindowStart ==
  ASSUME WindowInv,
         ReadTerminalState \/ Fork \/ InstallHandlers \/ ApplyTerminalState
  PROVE  SizeFollowed' /\ StartInv' /\ SyncInv' /\ CoverInv'
<1> USE DEF WindowInv, WindowTypeOK, InLoop, Syncing, Expected, SizeFollowed,
            StartInv, SyncInv, CoverInv, syncVars, startVars, screenVars,
            outsideVars, ptyVars
<1>1. CASE ReadTerminalState
  BY <1>1 DEF ReadTerminalState
<1>2. CASE Fork
  BY <1>2 DEF Fork
<1>3. CASE InstallHandlers
  BY <1>3 DEF InstallHandlers
<1>4. CASE ApplyTerminalState
  BY <1>4 DEF ApplyTerminalState
<1> QED BY <1>1, <1>2, <1>3, <1>4

(* The steps of the loop.                                                  *)
LEMMA WindowLoop ==
  ASSUME WindowInv,
         ConsumeResizeEvent \/ AskTerminal \/ TellPty \/ StartScreensaver
           \/ Check \/ ExitScreensaver \/ Relay
  PROVE  SizeFollowed' /\ StartInv' /\ SyncInv' /\ CoverInv'
<1> USE WindowAssumption
<1> USE DEF WindowInv, WindowTypeOK, InLoop, Syncing, Expected, SizeFollowed,
            StartInv, SyncInv, CoverInv, syncVars, startVars, screenVars,
            outsideVars, ptyVars
<1>1. CASE ConsumeResizeEvent
  BY <1>1 DEF ConsumeResizeEvent, Sync
<1>2. CASE AskTerminal
  BY <1>2 DEF AskTerminal
<1>3. CASE TellPty
  BY <1>3 DEF TellPty
<1>4. CASE StartScreensaver
  BY <1>4 DEF StartScreensaver, Sync
<1>5. CASE Check \/ Relay
  BY <1>5 DEF Check, Relay, ScreensAfter
<1>6. CASE ExitScreensaver
  BY <1>6 DEF ExitScreensaver, Sync, ScreensAfter
<1> QED BY <1>1, <1>2, <1>3, <1>4, <1>5, <1>6

LEMMA WindowResize ==
  ASSUME WindowInv, Resize
  PROVE  SizeFollowed' /\ StartInv' /\ SyncInv' /\ CoverInv'
BY DEF Resize, WindowInv, WindowTypeOK, InLoop, Syncing, Expected, SizeFollowed,
       StartInv, SyncInv, CoverInv, syncVars, startVars, screenVars, outsideVars,
       ptyVars

(* What the PTY was told, what it is about to be told and what it should   *)
(* be told stay in step, through resizes at any moment.                    *)
THEOREM WindowInvariance == WindowSpec => []WindowInv
<1>1. WindowInv /\ [WindowNext]_windowVars => WindowInv'
  <2> SUFFICES ASSUME WindowInv, [WindowNext]_windowVars PROVE WindowInv'
    OBVIOUS
  <2>1. CASE WindowNext
    <3>1. WindowTypeOK'
      BY <2>1, WindowStepType
    <3>2. SizeFollowed' /\ StartInv' /\ SyncInv' /\ CoverInv'
      BY <2>1, WindowStart, WindowLoop, WindowResize DEF WindowNext, Strange
    <3> QED BY <3>1, <3>2 DEF WindowInv
  <2>2. CASE UNCHANGED windowVars
    BY <2>2 DEF windowVars, syncVars, startVars, screenVars, outsideVars, ptyVars,
                WindowInv, WindowTypeOK, SizeFollowed, StartInv, SyncInv,
                CoverInv, InLoop, Syncing, Expected
  <2> QED BY <2>1, <2>2
<1> QED BY <1>1, WindowInitial, PTL DEF WindowSpec

(* A program is drawn over only if one runs (StartScreensaver).            *)
THEOREM WindowTyped == WindowSpec => []WindowTypeOK
<1>1. WindowInv => WindowTypeOK
  BY DEF WindowInv
<1> QED BY <1>1, WindowInvariance, PTL

(* Clearing the flag before the size is read loses no resize.              *)
THEOREM NoResizeLost == WindowSpec => []SizeFollowed
<1>1. WindowInv => SizeFollowed
  BY DEF WindowInv
<1> QED BY <1>1, WindowInvariance, PTL

(* Waking up is a change of size to the program, for any height that has   *)
(* not changed since strange last looked.                                  *)
THEOREM WakeRepaints == WindowSpec => RepaintsOnWake
<1>1. WindowInv /\ [WindowNext]_windowVars
        => [pc = "tell" /\ pc' # "tell" /\ after # "check" /\ ~ misreport /\ due'
              => asked # seen]_windowVars
  <2> SUFFICES ASSUME WindowInv, WindowNext, pc = "tell", pc' # "tell",
                      after # "check", ~ misreport, due', asked = seen
               PROVE  FALSE
    BY DEF windowVars
  <2> USE WindowAssumption DEF WindowInv, WindowTypeOK, CoverInv, Syncing
  <2>1. TellPty
    BY DEF WindowNext, Strange, ReadTerminalState, Fork, InstallHandlers,
           ApplyTerminalState, ConsumeResizeEvent, AskTerminal, StartScreensaver,
           Check, ExitScreensaver, Relay, Resize
  <2>2. told' = told /\ told' = asked
    BY <2>1 DEF TellPty
  <2>3. told = Misreport(asked) /\ asked \in Nat
    OBVIOUS
  <2> QED BY <2>2, <2>3, MisreportDiffers
<1> QED BY <1>1, WindowInvariance, PTL DEF WindowSpec, RepaintsOnWake
=============================================================================
