CONSTANTS
  audit = audit  audit2 = audit2  review = review  dots = dots  auditDir = auditDir  reviewDir = reviewDir
  brief = brief  long = long  scout = scout  fast = fast  careful = careful
  s1 = s1  s2 = s2  req1 = req1  req2 = req2
  NoDir = NoDir  NoPreset = NoPreset
  Order <- MCOrder
  Dir <- MCDir
  DiskSkills <- MCDisk
  Texts <- MCTexts
  TypeNames <- MCTypes
  Presets <- MCPresets
  FileTypes <- MCFileTypes
  Sessions <- TwoSessions
  Ops <- TwoRequests
  MaxModels = 2
  MaxEdits = 3
SPECIFICATION ConfigSpec
CHECK_DEADLOCK FALSE
INVARIANT SingleModelRuntime
