CONSTANTS
  p1 = p1  p2 = p2  c1 = c1  c2 = c2
  t1 = t1  t2 = t2  t3 = t3
  ollama = ollama  hosted = hosted
  llama = llama  claude = claude  fuzzy = fuzzy
  NoProvider = NoProvider  NoRef = NoRef
  Parents <- MCParents
  Providers <- MCProviders
  Capped <- MCCapped
  ProviderCap <- MCProviderCap
  Calls <- MCCalls
  ParentOf <- MCParentOf
  Tasks <- MCTasks
  CallOf <- MCCallOf
  Refs <- MCRefs
  Canonical <- OnHosted
  Named <- MCNamed
  Resolves <- MCResolves
  Override <- NoOverride
  Preset <- AllOnLlama
  Global = 2
  PerParent = 2
  MaxDepth = 1
SPECIFICATION Spec
INVARIANT ProviderWithinCap
CHECK_DEADLOCK FALSE
