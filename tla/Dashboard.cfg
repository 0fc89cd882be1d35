\* Two moves, dispatched late or not; a Deployment, its pod and container, two kinds listed.
CONSTANTS
  Words <- MCWords
  Cluster <- prod
  Links <- MCLinks
  MaxMoves = 2
  MaxDepth = 2
  Kinds <- MCKinds
  Graphs <- MCGraphs
  Place <- MCPlace
  Namespaces <- MCNamespaces
  Categories = {"all", "workloads"}
  Filters = {"", "Pod"}
  Commands <- MCCommands
  Keep = Keep
  NoNode = NoNode
  NoGraph = NoGraph
  NoRequest = NoRequest
  NoClick = NoClick
  MaxRequests = 1
CHECK_DEADLOCK FALSE
SPECIFICATION Spec
INVARIANTS
  UrlNamesView
  SelectionIsOfView
  NeverBlank
  RequestedTabShows
