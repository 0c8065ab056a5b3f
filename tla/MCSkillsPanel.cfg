CONSTANTS
  audit = audit  review = review  lint = lint  s1 = s1  c1 = c1  c2 = c2
  Owned <- MCOwned
  OnDisk <- MCOnDisk
  Sessions <- MCSessions
  Calls <- MCCalls
  MaxClicks = 4
  MaxEdits = 2
  MaxFaults = 1
SPECIFICATION PanelSpec
INVARIANT PanelAgrees
CHECK_DEADLOCK FALSE
