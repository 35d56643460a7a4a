\* Uploads of several sizes under timeouts, a host that gives up and a power cut;
\* once the host has no more messages the system rests.
SPECIFICATION FairSpec
CONSTANTS
  f = f
  g = g
  Files = {f, g}
  Shapes <- Requests
  HeaderSize = 2
  RingSize = 4
  RdBuf = 3
  NameMax = 2
  SlowHost = TRUE
  MaxMsgs = 2
  MaxGiveUps = 1
  MaxCrashes = 1
INVARIANTS FilesWhole AnsweredOnce AckedIsKept
PROPERTY RequestAnswered
CHECK_DEADLOCK FALSE
