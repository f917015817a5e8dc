\* Two sockets, blocks of two bytes, answers up to more than two blocks.
CONSTANTS
  Sockets = {s1, s2}
  NoSocket = NoSocket
  Streams <- MCStreams
  BufferSize = 2
  Lengths = {1, 5}
SPECIFICATION FairSpec
INVARIANT DeletedOnce
INVARIANT FramingIsRight
INVARIANT NothingIsLost
PROPERTY QueueIsEmptied
PROPERTY StopEnds
CHECK_DEADLOCK FALSE
