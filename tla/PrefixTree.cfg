SPECIFICATION Spec
CONSTANTS
  Root = Root
  Stale = Stale
  a = a
  b = b
  c = c
  d = d
  e = e
  r1 = r1
  r2 = r2
  r3 = r3
  Blocks = {a, b, c, d, e}
  Requests = {r1, r2, r3}
  Parent <- MCParent
  Path <- MCPath
  Prompt <- MCPrompt
  NumSlots = 3
  Chunk = 2
  MaxBatch = 2
  Window = 2
  Depth = 2
  Selectors = {a, b}
  Confs <- MCConfs
INVARIANTS
  TypeOK
  OwnershipExact
  PathsResident
  ViewsExact
  AdmittedFits
  IdleIsBacked
CHECK_DEADLOCK FALSE
