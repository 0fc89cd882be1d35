\* One drop after the watch was sent.
CONSTANTS
  shop = shop
  api = api
  nodes = nodes
  namespace = namespace
  cluster = cluster
  None = None
  Views = {shop}
  Scopes = {namespace, cluster}
  ScopeOf <- MCScopeOf
  graphKey <- MCGraphKey
  MaxVersion = 1
  MaxSwitches = 0
  MaxRequests = 1
  MaxDrops = 1
CHECK_DEADLOCK FALSE
SPECIFICATION Spec
PROPERTIES
  ViewIsWatched
