CONSTANTS
  s1 = s1  s2 = s2  s3 = s3  s4 = s4
  p1 = p1  p2 = p2
  ollama = ollama  hosted = hosted
  NoProvider = NoProvider
  Slots <- MCSlots
  Parents <- MCParents
  Providers <- MCProviders
  Capped <- MCCapped
  ProviderCap <- MCProviderCap
  Depths <- MCDepths
  Global = 3
  PerParent = 2
  MaxDepth = 1
SPECIFICATION Spec
INVARIANT TypeOK
INVARIANT CountersExact
PROPERTY ImplementsPool
CHECK_DEADLOCK FALSE
