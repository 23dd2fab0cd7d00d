SPECIFICATION Spec
CONSTANTS
  pod = pod
  rs = rs
  plan = plan
  event = event
  secret = secret
  node = node
  Kind <- MCKind
  Requests <- DisjointRequests
  MaxLen = 4
CHECK_DEADLOCK FALSE
INVARIANTS
  MergeIsUnion
  NothingExtra
PROPERTIES
  SkipIsSound
  RefinesSets
