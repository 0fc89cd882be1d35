\* One change of view with a fetch under way.
CONSTANTS
  shop = shop
  api = api
  nodes = nodes
  namespace = namespace
  cluster = cluster
  None = None
  Views = {shop, nodes}
  Scopes = {namespace, cluster}
  ScopeOf <- MCScopeOf
  graphKey <- MCGraphKey
  MaxVersion = 0
  MaxSwitches = 1
  MaxRequests = 2
  MaxDrops = 0
CHECK_DEADLOCK FALSE
SPECIFICATION Spec
INVARIANTS
  GraphIsOfView
