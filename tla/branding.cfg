SPECIFICATION Spec
CONSTANTS
  Sessions = {s1, s2}
  Texts = {"claude-ds", ""}
  Borders <- MCBorders
  MaxPanes = 2
  MaxFaults = 1
SYMMETRY Interchangeable
INVARIANTS OneWhale MarkedWhileRunning RestoredInOrder
