SPECIFICATION WindowSpec
CONSTANTS
  TerminalHeights = {2, 3}
  MaxResizes = 1
INVARIANTS NoRepaintOwed
