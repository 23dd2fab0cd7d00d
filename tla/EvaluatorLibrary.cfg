SPECIFICATION Spec
CONSTANTS
  d = d
  d2 = d2
  p1 = p1
  p2 = p2
  n1 = n1
  Deployment = Deployment
  Pod = Pod
  Node = Node
  Event = Event
  ns = ns
  ns2 = ns2
  NamespaceAll = NamespaceAll
  NamespaceNone = NamespaceNone
  NotCached = NotCached
  Obj <- LibraryObj
  Kind <- MCKind
  Namespaced <- MCNamespaced
  Namespaces <- LibraryNamespaces
  KindOf <- MCKindOf
  NsOf <- LibraryNsOf
  NameOf <- MCNameOf
  OwnersOf <- MCOwnersOf
  Ignored <- MCIgnored
  Requested <- NodeRequested
  Queries <- LibraryQueries
  Related <- LibraryRelated
  MaxChanges = 1
CHECK_DEADLOCK FALSE
INVARIANTS
  TypeOK
  CachesAgree
  OwnershipSound
PROPERTY
  AnswersComplete
