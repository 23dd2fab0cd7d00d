SPECIFICATION AnalysisSpec
CONSTANTS
  node = node
  svc = svc
  app = app
  pvc = pvc
  dep = dep
  old = old
  rs = rs
  pod = pod
  co = co
  co2 = co2
  sub = sub
  plan = plan
  plan2 = plan2
  csv = csv
  mco = mco
  route = route
  ns = ns
  mns = mns
  NamespaceAll = NamespaceAll
  NamespaceNone = NamespaceNone
  NotCached = NotCached
  Obj <- MCObj
  Kind <- MCKind
  Namespaced <- MCNamespaced
  Namespaces <- MCNamespaces
  KindOf <- MCKindOf
  NsOf <- MCNsOf
  NameOf <- MCNameOf
  OwnersOf <- MCOwnersOf
  Ignored <- MCIgnored
  Requested <- MCRequested
  Queries <- MCQueries
  Related <- MCRelated
  ContentOf <- MCContentOf
  Late <- MCLate
  Changing <- MCChanging
  mcoNs = mns
  MaxChanges = 2
  MaxDepth = 4
  MaxLost = 1
CHECK_DEADLOCK FALSE
INVARIANTS
  AnalysisTypeOK
  ReportFresh
  OneVersionPerObject
  QuietReportIsTruth
  LastingTroubleReported
  TroubleShown
PROPERTIES
  ImplementsEvaluator
  RunEnds
