\* Three frames: resizes that overtake each other, keystrokes around the end of the shell.
CONSTANTS
  MaxFrames = 3
CHECK_DEADLOCK FALSE
SPECIFICATION MCSpec
INVARIANTS
  PushNeverBlocks
  DockerClosedUnused
PROPERTIES
  LatestSizeArrives
  SessionEnds
  DockerTerminalEnds
