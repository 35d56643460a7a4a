\* Play and pause requests and callbacks, over two channels that are reused.
SPECIFICATION Spec
CONSTANTS
  Threads = {t1}
  NChannels = 2
  QueueLen = 1
  ChunkSize = 1
  SubNotes = 1
  Sounds <- ThreeChunks
  Intervals <- NoIntervals
  Ops <- HeardOps
  ZeroOps <- HeardZero
  MaxId = 3
INVARIANTS PlaysWhatWasAsked CallbackOnlyAfterItsSound
PROPERTY ChunksInOrder
