\* Two threads race for a queue of one slot: calls return, STOP takes effect,
\* sounds end and armed sounds start.
SPECIFICATION FairSpec
CONSTANTS
  Threads = {t1, t2}
  NChannels = 1
  QueueLen = 1
  ChunkSize = 1
  SubNotes = 2
  Sounds <- LiveKinds
  Intervals <- EveryOther
  Ops <- LiveOps
  ZeroOps <- LiveZero
  MaxId = 2
PROPERTIES ArmedSoundStarts SoundEnds StopTakesEffect QueueCallReturns
