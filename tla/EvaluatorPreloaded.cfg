SPECIFICATION Spec
CONSTANTS
  d = d
  d2 = d2
  p1 = p1
  p2 = p2
  n1 = n1
  Deployment = Deployment
  Pod = Pod
  Node = Node
  Event = Event
  ns = ns
  ns2 = ns2
  NamespaceAll = NamespaceAll
  NamespaceNone = NamespaceNone
  NotCached = NotCached
  Obj <- CliObj
  Kind <- MCKind
  Namespaced <- MCNamespaced
  Namespaces <- CliNamespaces
  KindOf <- MCKindOf
  NsOf <- CliNsOf
  NameOf <- MCNameOf
  OwnersOf <- MCOwnersOf
  Ignored <- MCIgnored
  Requested <- PodRequested
  Queries <- CliQueries
  Related <- NoneRelated
  MaxChanges = 0
CHECK_DEADLOCK FALSE
PROPERTY
  AnswersPreloaded
