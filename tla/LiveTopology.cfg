\* A drop, a change of view within a scope or beyond it, messages and answers in every order.
CONSTANTS
  shop = shop
  api = api
  nodes = nodes
  namespace = namespace
  cluster = cluster
  None = None
  Views = {shop, api, nodes}
  Scopes = {namespace, cluster}
  ScopeOf <- MCScopeOf
  graphKey <- MCGraphKey
  MaxVersion = 1
  MaxSwitches = 1
  MaxRequests = 2
  MaxDrops = 1
CHECK_DEADLOCK FALSE
SPECIFICATION Spec
INVARIANTS
  NeverStranded
PROPERTIES
  EventuallyFresh
  EverythingIsSent
  WatchFollowsView
