SPECIFICATION LiveSpec
CONSTANTS
  s1 = s1
  Streams = {s1}
  MaxStreams = 1
  MaxPending = 2
  MaxFrames = 3
  MaxLosses = 2
INVARIANT FramesInOrder ListsFiltered
PROPERTY EndsTogether
