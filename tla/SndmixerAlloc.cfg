\* Two threads racing for ids, two channels: allocation, eviction, removal.
SPECIFICATION Spec
CONSTANTS
  Threads = {t1, t2}
  NChannels = 2
  QueueLen = 2
  ChunkSize = 1
  SubNotes = 1
  Sounds <- ShortKinds
  Intervals <- NoIntervals
  Ops <- AllocOps
  ZeroOps <- AllocZero
  MaxId = 3
INVARIANTS IdsUnique MixerPointersValid QueuedBeforeUsed
PROPERTY RemovedOnlyWhenJustified
