\* Two streams: a key can be replaced, or two kinds of streams be live.  The safety
\* properties are proved for any number.
CONSTANTS
  logs = logs
  stats = stats
  topology = topology
  s1 = s1
  s2 = s2
  LogsKeys = {logs}
  StatsKeys = {stats}
  TopologyKeys = {topology}
  Streams = {s1, s2}
  Nobody = Nobody
  Unserved = Unserved
  NoStream = NoStream
  MaxBuffer = 1
SPECIFICATION Spec
INVARIANTS
  RegistryMatchesLive
  LateBounded
PROPERTIES
  RegistrySpec
  DisconnectReleasesAll
