\* Two streams of one key: every race between messages and registrations.
CONSTANTS
  logs = logs
  stats = stats
  s1 = s1
  s2 = s2
  Keys = {logs}
  Streams = {s1, s2}
  Nobody = Nobody
  Unserved = Unserved
  NoStream = NoStream
SPECIFICATION Spec
INVARIANTS
  RegistryIsLive
PROPERTIES
  RegistryUnlessRaced
  LastFrame
  DisconnectReleasesAll
