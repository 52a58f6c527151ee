SPECIFICATION PartsSpec
CONSTANTS
  NsecPerSec = 3
  Timeouts = {1, 2}
  MaxSeconds = 4
  Digits = {"2", "5"}
  CursorModes = {25}
  ScreenModes = {5}
  MaxParameters = 2
  ParameterCap = 100
  MaxLength = 7
  Heights = {2, 3, 4, 6, 10}
  Rates = {1, 2, 3}
  MinLength = 3
  BufferSize = 9
  Sizes <- MCSizes
  SequenceLength = 13
  FramesPerRow = 2
  MaxScroll = 60
  Names = {t1, t2, t3}
  None = None
  TerminalHeights = {0, 1, 2, 3}
  MaxResizes = 3
  Callers = {"session", "preview"}
  Languages = {"lua", "native"}
  Faults = {"memory", "terminal", "handlers", "select", "lookup"}
  Handles = {h1, h2, h3}
  Nil = Nil
  Space = " "
  Lost = "?"
  Glyphs <- MCGlyphs
  TerminalSizes <- MCTerminalSizes
  MaxGap = 2
  Fallible = TRUE
INVARIANTS NeverLate ModesFollowed HalvesAgree SessionTold SizeFollowed BufferOnlyDuringItsCall NothingKept FrameShown FrameInv
PROPERTIES NeverEarly TableMovesUp StreamsComeAndGo RepaintsOnWake SizeSettles CallsInOrder PreviewEnds
