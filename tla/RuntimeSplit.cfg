SPECIFICATION Spec
CONSTANTS
  k1 = k1
  k2 = k2
  k3 = k3
  k4 = k4
  q = q
  NsecPerSec = 1
  Keys = {k1}
  DisableKeys = {}
  Chunks = {"head", "tail"}
  Effect <- MCEffect
  InputCap = 1
  PtyCap = 1
  ReadSize = 1
  HeldLimit = 1
  Timeout = 1
  CoverFullscreen = TRUE
  Faults = {}
  Surprises = {}
INVARIANTS ScreenHandedBack
