\* Two lists of three pages, two paths of each kind of terminal, two or three of everything else
\* that can be selected, asked for or answered.  The graphs and paths are in MCPanels.
CONSTANTS
  pods = pods
  jobs = jobs
  Lists = {pods, jobs}
  NoList = NoList
  Pages = 3
  MaxSwitches = 3
  CanvasGraphs <- MCCanvasGraphs
  Following <- MCFollowing
  Width = 1000
  Height = 600
  Transforms = {"identity", "partway", "other"}
  zoomIdentity = "identity"
  Maps <- MCMaps
  MapWidth = 1000
  MapHeight = 600
  Paths = {"docker1", "docker2", "pod1", "pod2"}
  NoPath = NoPath
  Keyed = {"pod1", "pod2"}
  MaxOpen = 3
  Targets = {"one", "two"}
  NoTarget = "none"
  LogLines = 3
  Samples = 2
  Keys = {"k1", "k2"}
  NoData = NoData
  MaxFetches = 4
  DockerIds = {"c1", "c2", "c3"}
  NoId = "none"
  MaxSelects = 3
  Dirs <- MCDirs
  Mounts <- MCMounts
  Files <- MCFiles
  Binary <- MCBinary
  NoFile = NoFile
  MaxAsked = 2
  Objects = {"o1", "o2"}
  NoObject = NoObject
  Questions = {"delete"}
  MaxVersion = 2
  MaxPanels = 2
  MaxUnderWay = 2
  Hosts = {"local", "remote"}
  Clusters = {"prod", "dev"}
  NoSource = "none"
  MaxRetries = 5
  MaxPicks = 3
CHECK_DEADLOCK FALSE
SPECIFICATION MCSpec
INVARIANTS
  PagesInOrder
  LayoutIsLayered
  NetworksApart
  EnvIsOfContainer
  EditIsOfFile
  NoOrphanShell
  UrlNamesSource
PROPERTIES
  PagesStayInTurn
  KeepsView
  PanelFollowsStream
  AnswersAreCurrent
  ClosesOwnPanel
  NoLostEdit
  ContainersSettle
  ListedInTheEnd
