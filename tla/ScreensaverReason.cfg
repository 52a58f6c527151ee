SPECIFICATION ScreensaverSpec
CONSTANTS
  Callers = {"session"}
  Languages = {"lua"}
  Faults = {}
  Handles = {h1, h2}
  Nil = Nil
INVARIANTS PrintsTheReason
CHECK_DEADLOCK FALSE
