\* One subscription and its withdrawal are enough to leave a stream behind.
CONSTANTS
  logs = logs
  stats = stats
  s1 = s1
  s2 = s2
  Keys = {logs}
  Streams = {s1}
  Nobody = Nobody
  Unserved = Unserved
  NoStream = NoStream
SPECIFICATION Spec
PROPERTIES
  UnsubscribeEndsStreams
