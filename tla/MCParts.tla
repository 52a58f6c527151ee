------------------------------ MODULE MCParts --------------------------------
(* The parts that share no state with others, side by side: in a behaviour *)
(* one of them, the subject, moves, and the others rest.                   *)
EXTENDS InactivityTimer, TerminalModes, DigitalRain, Denabase, Session,
        WindowSize, Screensaver, Renderer

VARIABLE subject

Subjects ==
  {"timer", "modes", "rain", "denabase", "session", "window", "screensaver", "renderer"}

partsVars ==
  <<subject, vars, trackerVars, rainVars, denabaseVars, sessionVars, windowVars,
    screensaverVars, rendererVars>>

\* Sizes of the screen denabase draws on, of odd and even halves.
MCSizes == [w : {7, 8, 12, 14}, h : {6, 7, 10}]

\* One long row and two short ones.
MCTerminalSizes == {[w |-> 4, h |-> 1], [w |-> 2, h |-> 2]}

MCGlyphs == {Space, "*"}

PartsInit ==
  /\ subject \in Subjects
  /\ Init /\ (subject = "timer" \/ machine = [state |-> "PASSTHROUGH",
                timeout |-> CHOOSE t \in Timeouts : TRUE, last |-> [sec |-> 0, nsec |-> 0]])
  /\ TrackerInit
  /\ RainInit /\ (subject = "rain" \/ /\ h = CHOOSE n \in Heights : TRUE
                                      /\ scroll_rate = CHOOSE rate \in Rates : TRUE)
  /\ DenabaseInit /\ (subject = "denabase" \/ /\ frame = 0
                                              /\ size = CHOOSE s \in Sizes : TRUE)
  /\ SessionInit
  /\ WindowInit /\ (subject = "window" \/ height = 0)
  /\ ScreensaverInit /\ (subject = "screensaver" \/ /\ caller = "session"
                                                    /\ language = "native"
                                                    /\ defined = {})
  /\ RendererInit /\ (subject = "renderer" \/ display.h = 1)

\* `step` is one of the part p, and nothing else changes.
Moves(p, step) ==
  /\ subject = p /\ UNCHANGED subject
  /\ step
  /\ IF p = "timer" THEN TRUE ELSE UNCHANGED vars
  /\ IF p = "modes" THEN TRUE ELSE UNCHANGED trackerVars
  /\ IF p = "rain" THEN TRUE ELSE UNCHANGED rainVars
  /\ IF p = "denabase" THEN TRUE ELSE UNCHANGED denabaseVars
  /\ IF p = "session" THEN TRUE ELSE UNCHANGED sessionVars
  /\ IF p = "window" THEN TRUE ELSE UNCHANGED windowVars
  /\ IF p = "screensaver" THEN TRUE ELSE UNCHANGED screensaverVars
  /\ IF p = "renderer" THEN TRUE ELSE UNCHANGED rendererVars

\* strange has returned, or the interpreter has ended it.
Over == phase \in {"done", "aborted"} /\ UNCHANGED screensaverVars

PartsNext ==
  \/ Moves("timer", Next)
  \/ Moves("modes", TrackerNext)
  \/ Moves("rain", RainNext)
  \/ Moves("denabase", DenabaseNext)
  \/ Moves("session", SessionNext)
  \/ Moves("window", WindowNext)
  \/ Moves("screensaver", ScreensaverNext \/ Over)
  \/ Moves("renderer", RendererNext)

\* The fairness of each part that has some.
PartsSpec ==
  /\ PartsInit /\ [][PartsNext]_partsVars
  /\ WF_partsVars(Moves("rain", RainFrame)) /\ SF_partsVars(Moves("rain", DrawTrue))
  /\ WF_partsVars(Moves("window", Strange)) /\ WF_partsVars(Moves("window", ApplyTerminalState))
  /\ WF_partsVars(Moves("screensaver", StrangeGoesOn \/ Callback))
=============================================================================
