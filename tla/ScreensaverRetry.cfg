SPECIFICATION FairScreensaverSpec
CONSTANTS
  Callers = {"session"}
  Languages = {"lua"}
  Faults = {}
  Handles = {h1, h2}
  Nil = Nil
PROPERTIES OffOnceFailed
CHECK_DEADLOCK FALSE
