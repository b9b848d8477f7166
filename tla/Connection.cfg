CONSTANTS
  ChunkSize = 2
  MaxStreams = 2
  Sizes = {0, 2, 3}
  Window = 1
  Buffer = 1
  MaxEvents = 1
  Drained = Drained
  NoReply = NoReply
SPECIFICATION ConnectionFair
INVARIANTS ConnectionTypeOK Delivery RepliesInOrder ClientCollectsInOrder
PROPERTIES ImplementsByteStreams EveryCommandIsAnswered EveryStreamEnds
CHECK_DEADLOCK FALSE
