CONSTANTS
  s1 = s1  s2 = s2  req1 = req1  req2 = req2
  sonnet = sonnet  llama = llama
  NoSession = NoSession  NoModel = NoModel
  Sessions <- MCSessions
  Ops <- TwoRequests
  Models <- OneModel
  MaxRuntimes = 3
  MaxChanges = 1
SPECIFICATION Spec
SYMMETRY Symmetry
CHECK_DEADLOCK FALSE
INVARIANT SingleWriter
