SPECIFICATION Spec
CONSTANTS
  k1 = k1
  k2 = k2
  k3 = k3
  k4 = k4
  q = q
  NsecPerSec = 1
  Keys = {k1, k2, k3, q}
  DisableKeys = {q}
  Chunks = {"altOn", "altOff"}
  Effect <- MCEffect
  InputCap = 2
  PtyCap = 1
  ReadSize = 2
  HeldLimit = 1
  Timeout = 1
  CoverFullscreen = FALSE
  Faults = {"memory"}
  Surprises = {"EXIT"}
INVARIANTS OutputInOrder FullscreenNotCovered InputIntact DisableKeyHonoured
PROPERTIES OnlyKeysAreActivity ImplementsRelay
SYMMETRY KeySymmetry
