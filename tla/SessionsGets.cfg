CONSTANTS
  s1 = s1  s2 = s2  get1 = get1  get2 = get2  c1 = c1  c2 = c2
  t1 = t1  m1 = m1
  NoSession = NoSession  NoTitle = NoTitle  NoModel = NoModel
  Sessions <- MCSessions
  Existing <- MCExisting
  Titles <- MCTitles
  Models <- MCModels
  Ops <- MCGets
  Calls <- MCCalls
  MaxEdits = 2
  MaxSends = 2
  MaxFaults = 1
SPECIFICATION Spec
CHECK_DEADLOCK FALSE
INVARIANT RowsNeverStale
