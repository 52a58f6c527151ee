SPECIFICATION SessionSpec
CONSTANTS
  Names = {t1, t2}
  None = None
INVARIANTS StatusTellsTheTruth
