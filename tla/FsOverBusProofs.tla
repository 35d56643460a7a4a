--------------------------- MODULE FsOverBusProofs ---------------------------
(***************************************************************************)
(* Proofs about FS over bus, for messages, rings and buffers of any size   *)
(* and any number of timeouts, power cuts and hosts that give up: types,   *)
(* that messages are answered once and in their order, that files stay     *)
(* whole (FilesWhole) and that an upload answered with ok is kept          *)
(* (AckedIsKept).                                                          *)
(***************************************************************************)
EXTENDS FsOverBus, SequenceTheorems, TLAPS

TaskPcs == {"wait", "loop", "handle", "delay", "reply", "sending", "store",
            "close", "remove", "rename", "copy", "unlink", "sleep", "return"}
Tasks(m) == [pc: TaskPcs, cmd: 0 .. m, recv: Nat, n: Nat, status: {"ok", "er"},
             next: {"wait", "close", "sleep", "return"}, unit: Units, stale: BOOLEAN]
Hosts == [pc: {"idle", "sending", "waiting"}, k: Nat, gaveup: BOOLEAN,
          giveups: 0 .. MaxGiveUps, crashes: 0 .. MaxCrashes]
Spis == [pc: {"wait", "xfer", "send"}, unit: Units]

MsgsOK == msgs \in Seq(Shapes) /\ Len(msgs) <= MaxMsgs
HostOK == host \in Hosts /\ (host.pc # "idle" => msgs # <<>>)
SpiOK  == spi \in Spis
RingOK == ring \in Seq(Units) /\ Len(ring) <= RingSize
FlagOK == notified \in BOOLEAN /\ receiving \in BOOLEAN /\ timer \in BOOLEAN /\ callback \in BOOLEAN
TaskOK == /\ task \in Tasks(Len(msgs))
          /\ task.cmd # 0 => task.recv <= Size(task.cmd)
          /\ receiving \/ task.pc \notin {"wait", "loop"} => task.cmd # 0
FileOK == /\ fptr \in Files \cup {NULL} /\ failed_open \in BOOLEAN
          /\ files \in [Files -> Contents] /\ tmp \in [Files -> Contents]
AnswersOK == answers \in Seq((1 .. MaxMsgs) \X {"ok", "er"})

Typed == MsgsOK /\ HostOK /\ SpiOK /\ RingOK /\ FlagOK /\ TaskOK /\ FileOK /\ AnswersOK

LEMMA TypedIsTypeOK == Typed => TypeOK
  BY DEF Typed, TypeOK, MsgsOK, HostOK, SpiOK, RingOK, FlagOK, TaskOK, FileOK, AnswersOK,
     TaskPcs, Tasks, Hosts, Spis

---------------------------------------------------------------------------
(* The steps.                                                              *)

Go(l) == task' = [task EXCEPT !.pc = l]

(* What a function does to fsob_task: it returns or waits, goes on, or     *)
(* answers the whole message.                                              *)
FnMoves ==
    \/ \E l \in {"return", "delay"} : Go(l)
    \/ task.pc = "close" /\ Go("remove")
    \/ task.pc = "remove" /\ Go("rename")
    \/ task.pc = "handle" /\ Whole /\ Go("copy")
    \/ task.pc = "copy" /\ Go("unlink")
    \/ /\ task.pc \in {"copy", "unlink"} \/ (task.pc = "handle" /\ Whole)
       /\ \E status \in {"ok", "er"}, next \in {"close", "sleep", "return"} : Reply(status, next)

LEMMA FunctionMoves ==
    ASSUME Function
    PROVE  FnMoves /\ FnUnchanged /\ task.pc \notin {"wait", "loop"}
  <1>1. CASE Heartbeat
    BY <1>1 DEF Heartbeat, FnMoves, Back, Go, Whole
  <1>2. CASE WriteNoName \/ WriteNameTooLong
    BY <1>2 DEF WriteNoName, WriteNameTooLong, Writing, FnMoves, Back, Go
  <1>3. CASE WriteOpen
    BY <1>3 DEF WriteOpen, Writing, FnMoves, Back, Go, Whole
  <1>4. CASE WriteOpenFails
    BY <1>4 DEF WriteOpenFails, Writing, FnMoves, Back, Go, Whole
  <1>5. CASE WriteMore
    BY <1>5 DEF WriteMore, Writing, FnMoves, Go, Whole
  <1>6. CASE WriteFailed
    BY <1>6 DEF WriteFailed, Writing, FnMoves, Back, Go, Whole
  <1>7. CASE DelayOver \/ Close \/ Remove \/ Rename
    BY <1>7 DEF DelayOver, Close, Remove, Rename, FnMoves, Back, Go
  <1>8. CASE Partial \/ DelFile \/ CopyRefused \/ ExecFile
    BY <1>8 DEF Partial, DelFile, CopyRefused, ExecFile, Called, FnMoves, Back, Go, Whole
  <1>9. CASE CopyOpen
    BY <1>9 DEF CopyOpen, Called, FnMoves, Go, Whole
  <1>10. CASE CopyWrite \/ Unlink
    BY <1>10 DEF CopyWrite, Unlink, FnMoves, Go
  <1> QED
    BY <1>1, <1>2, <1>3, <1>4, <1>5, <1>6, <1>7, <1>8, <1>9, <1>10 DEF Function

Restarts == Crash \/ Abort \/ DeepSleep

(* A step is one of these. *)
Step ==
    \/ HostBegin \/ HostAnswered \/ HostGivesUp
    \/ SpiBegin \/ SpiTransfer \/ SpiStore \/ SpiEnd
    \/ TimerFires \/ TimerClears
    \/ Wake \/ ReadHeader \/ AwaitHeader \/ ReadPacket \/ ReadNothing \/ ReturnItem
    \/ Function
    \/ ReplyBegin \/ ReplyFetches \/ ReplyStore \/ ReplyEnd
    \/ Restarts
    \/ UNCHANGED vars

LEMMA StepsOfNext == ASSUME [Next]_vars PROVE Step
  BY DEF Next, Host, Stm32, Timer, Task, Replying, Restarts, Step

LEMMA RestartEffect ==
    ASSUME Restarts
    PROVE  Restart /\ (host' = host \/ (host.crashes < MaxCrashes
                                        /\ host' = [host EXCEPT !.crashes = @ + 1]))
  BY DEF Restarts, Crash, Abort, DeepSleep

---------------------------------------------------------------------------
(* Types.                                                                  *)

LEMMA HostStep ==
    ASSUME Typed, Step
    PROVE  MsgsOK' /\ HostOK' /\ Len(msgs') >= Len(msgs)
           /\ (msgs' = msgs \/ \E m \in Shapes : msgs' = Append(msgs, m))
  <1>0. MsgsOK /\ HostOK /\ Len(msgs) \in Nat /\ MaxMsgs \in Nat /\ MaxGiveUps \in Nat
        /\ MaxCrashes \in Nat
    BY FsOverBusAssumption DEF Typed, MsgsOK
  <1>a. ASSUME msgs' = msgs, host' = host
        PROVE  MsgsOK' /\ HostOK' /\ Len(msgs') >= Len(msgs)
    BY <1>0, <1>a DEF MsgsOK, HostOK
  <1>b. ASSUME msgs' = msgs, host' \in Hosts, host'.pc # "idle" => msgs # <<>>
        PROVE  MsgsOK' /\ HostOK' /\ Len(msgs') >= Len(msgs)
    BY <1>0, <1>b DEF MsgsOK, HostOK
  <1>1. CASE HostBegin
    <2>1. PICK m \in Shapes : msgs' = Append(msgs, m)
      BY <1>1 DEF HostBegin
    <2>2. Len(msgs) < MaxMsgs
          /\ host' = [host EXCEPT !.pc = "sending", !.k = 0, !.gaveup = FALSE]
      BY <1>1 DEF HostBegin
    <2>3. msgs' \in Seq(Shapes) /\ Len(msgs') = Len(msgs) + 1 /\ msgs' # <<>>
      BY <1>0, <2>1 DEF MsgsOK
    <2>4. host' \in Hosts
      BY <1>0, <2>2 DEF HostOK, Hosts
    <2>5. MsgsOK' /\ HostOK' /\ Len(msgs') >= Len(msgs)
      BY <1>0, <2>2, <2>3, <2>4 DEF MsgsOK, HostOK
    <2> QED BY <2>1, <2>5
  <1>2. CASE HostAnswered
    <2>1. host' \in Hosts /\ host'.pc = "idle" /\ msgs' = msgs
      BY <1>0, <1>2 DEF HostAnswered, HostOK, Hosts
    <2> QED BY <1>b, <2>1
  <1>3. CASE HostGivesUp
    <2>1. host.giveups \in Nat /\ host.giveups + 1 \in 0 .. MaxGiveUps
      BY <1>0, <1>3 DEF HostGivesUp, HostOK, Hosts
    <2>2. host' \in Hosts /\ host'.pc = "idle" /\ msgs' = msgs
      BY <1>0, <1>3, <2>1 DEF HostGivesUp, HostOK, Hosts
    <2> QED BY <1>b, <2>2
  <1>4. CASE SpiTransfer \/ ReplyFetches
    <2>1. host.pc = "sending" /\ Fetched /\ msgs' = msgs
      BY <1>4 DEF SpiTransfer, ReplyFetches, HasData, SpiUnchanged, SendUnchanged
    <2>2. host.k + 1 \in Nat
      BY <1>0 DEF HostOK, Hosts
    <2>3. host' \in Hosts
      BY <1>0, <2>1, <2>2 DEF Fetched, HostOK, Hosts
    <2>4. msgs # <<>>
      BY <1>0, <2>1 DEF HostOK
    <2> QED BY <1>b, <2>1, <2>3, <2>4
  <1>5. CASE Restarts
    <2>1. msgs' = msgs /\ (host' = host \/ (host.crashes < MaxCrashes
                                            /\ host' = [host EXCEPT !.crashes = @ + 1]))
      BY <1>5, RestartEffect DEF Restart
    <2>2. CASE host' = host
      BY <1>a, <2>1, <2>2
    <2>3. CASE host.crashes < MaxCrashes /\ host' = [host EXCEPT !.crashes = @ + 1]
      <3>1. host.crashes + 1 \in 0 .. MaxCrashes
        BY <1>0, <2>3 DEF HostOK, Hosts
      <3>2. host' \in Hosts /\ host'.pc = host.pc
        BY <1>0, <2>3, <3>1 DEF HostOK, Hosts
      <3>3. host.pc # "idle" => msgs # <<>>
        BY <1>0 DEF HostOK
      <3> QED BY <1>b, <2>1, <3>2, <3>3
    <2> QED BY <2>1, <2>2, <2>3
  <1>6. CASE Function
    BY <1>a, <1>6, FunctionMoves DEF FnUnchanged, hostVars
  <1>7. CASE SpiBegin \/ SpiStore \/ SpiEnd \/ ReplyBegin \/ ReplyStore \/ ReplyEnd
    BY <1>a, <1>7 DEF SpiBegin, SpiStore, SpiEnd, SpiUnchanged, ReplyBegin, ReplyStore,
       ReplyEnd, SendUnchanged
  <1>8. CASE TimerFires \/ TimerClears \/ UNCHANGED vars
    BY <1>a, <1>8 DEF TimerFires, TimerClears, hostVars, vars
  <1>9. CASE Wake \/ ReadHeader \/ AwaitHeader \/ ReadPacket \/ ReadNothing \/ ReturnItem
    BY <1>a, <1>9 DEF Wake, ReadHeader, AwaitHeader, ReadPacket, ReadNothing, ReturnItem,
       TaskUnchanged, hostVars
  <1> QED
    BY <1>1, <1>2, <1>3, <1>4, <1>5, <1>6, <1>7, <1>8, <1>9 DEF Step

LEMMA UnitsOK ==
    ASSUME Typed, HasData
    PROVE  NextUnit \in Units
  <1>1. Len(msgs) \in 1 .. MaxMsgs
    BY FsOverBusAssumption DEF Typed, MsgsOK, HostOK, HasData
  <1>2. host.k + 1 \in Nat
    BY DEF Typed, HostOK, Hosts
  <1> QED
    BY <1>1, <1>2 DEF NextUnit, Units

LEMMA SpiRingFlagStep ==
    ASSUME Typed, Step
    PROVE  SpiOK' /\ RingOK' /\ FlagOK'
  <1>0. SpiOK /\ RingOK /\ FlagOK /\ ring \in Seq(Units) /\ Len(ring) \in Nat /\ RingSize \in Nat
        /\ HeaderSize \in Nat /\ HeaderSize >= 1
    BY FsOverBusAssumption DEF Typed, RingOK
  <1>a. ASSUME spi' = spi PROVE SpiOK'
    BY <1>0, <1>a DEF SpiOK
  <1>b. ASSUME ring' = ring PROVE RingOK'
    BY <1>0, <1>b DEF RingOK
  <1>c. ASSUME ring' = <<>> PROVE RingOK'
    BY <1>0, <1>c DEF RingOK
  <1>d. ASSUME NEW u \in Units, Room, ring' = Append(ring, u) PROVE RingOK'
    BY <1>0, <1>d DEF RingOK, Room
  <1>e. ASSUME NEW k \in Nat, k >= 1, ring' = SubSeq(ring, k, Len(ring)) PROVE RingOK'
    <2>1. CASE k <= Len(ring)
      <3>1. \A i \in k .. Len(ring) : ring[i] \in Units
        BY <1>0, <1>e, ElementOfSeq
      <3>2. ring' \in Seq(Units) /\ Len(ring') = Len(ring) - k + 1
        BY <1>0, <1>e, <2>1, <3>1, SubSeqProperties
      <3>3. Len(ring') <= RingSize
        BY <1>0, <1>e, <3>2 DEF RingOK
      <3> QED BY <3>2, <3>3 DEF RingOK
    <2>2. CASE k > Len(ring)
      <3>1. ring' \in Seq(Units) /\ Len(ring') = 0
        BY <1>0, <1>e, <2>2, SubSeqProperties
      <3> QED BY <1>0, <3>1 DEF RingOK
    <2> QED BY <1>0, <1>e, <2>1, <2>2
  <1>f. UNCHANGED <<notified, receiving, timer, callback>> => FlagOK'
    BY <1>0 DEF FlagOK
  <1>1. CASE HostBegin \/ HostAnswered \/ HostGivesUp
    BY <1>a, <1>b, <1>f, <1>1 DEF HostBegin, HostAnswered, HostGivesUp, ringVars, recvVars
  <1>2. CASE SpiBegin \/ SpiEnd
    <2>1. SpiOK'
      BY <1>0, <1>2 DEF SpiBegin, SpiEnd, SpiOK, Spis
    <2>2. ring' = ring /\ UNCHANGED <<notified, receiving, timer, callback>>
      BY <1>2 DEF SpiBegin, SpiEnd, SpiUnchanged, ringVars, recvVars
    <2> QED BY <1>b, <1>f, <2>1, <2>2
  <1>3. CASE SpiTransfer
    <2>1. NextUnit \in Units
      BY <1>3, UnitsOK DEF SpiTransfer
    <2>2. SpiOK'
      BY <1>3, <2>1 DEF SpiTransfer, SpiOK, Spis
    <2>3. ring' = ring /\ UNCHANGED <<notified, receiving, timer, callback>>
      BY <1>3 DEF SpiTransfer, SpiUnchanged, ringVars, recvVars
    <2> QED BY <1>b, <1>f, <2>2, <2>3
  <1>4. CASE SpiStore
    <2>1. spi.unit \in Units /\ NoUnit \in Units
      BY <1>0 DEF SpiOK, Spis, Units
    <2>2. \/ Room /\ ring' = Append(ring, spi.unit) /\ spi' = [pc |-> "xfer", unit |-> NoUnit]
          \/ ring' = ring /\ spi' = spi
      BY <1>4 DEF SpiStore
    <2>3. SpiOK'
      BY <1>a, <2>1, <2>2 DEF SpiOK, Spis
    <2>4. RingOK'
      BY <1>b, <1>d, <2>1, <2>2
    <2>5. FlagOK'
      BY <1>0, <1>4 DEF SpiStore, SpiUnchanged, FlagOK, recvVars
    <2> QED BY <2>3, <2>4, <2>5
  <1>5. CASE TimerFires \/ TimerClears
    <2>1. SpiOK' /\ RingOK'
      BY <1>a, <1>b, <1>c, <1>5 DEF TimerFires, TimerClears, ringVars
    <2>2. FlagOK'
      BY <1>0, <1>5 DEF TimerFires, TimerClears, ringVars, FlagOK
    <2> QED BY <2>1, <2>2
  <1>6. CASE Wake \/ AwaitHeader \/ ReadPacket \/ ReadNothing
    <2>1. spi' = spi /\ ring' = ring
      BY <1>6 DEF Wake, AwaitHeader, ReadPacket, ReadNothing, TaskUnchanged, ringVars
    <2>2. FlagOK'
      BY <1>0, <1>6 DEF Wake, AwaitHeader, ReadPacket, ReadNothing, TaskUnchanged, ringVars,
         FlagOK
    <2> QED BY <1>a, <1>b, <2>1, <2>2
  <1>7. CASE ReadHeader
    <2>1. spi' = spi /\ (ring' = <<>> \/ ring' = SubSeq(ring, HeaderSize + 1, Len(ring)))
      BY <1>7 DEF ReadHeader, TaskUnchanged
    <2>2. RingOK'
      BY <1>0, <1>c, <1>e, <2>1, HeaderSize + 1 \in Nat /\ HeaderSize + 1 >= 1
    <2>3. FlagOK'
      BY <1>0, <1>7 DEF ReadHeader, TaskUnchanged, FlagOK
    <2> QED BY <1>a, <2>1, <2>2, <2>3
  <1>8. CASE ReturnItem
    <2>1. spi' = spi /\ ring' = SubSeq(ring, task.n + 1, Len(ring))
      BY <1>8 DEF ReturnItem, TaskUnchanged
    <2>2. task.n + 1 \in Nat /\ task.n + 1 >= 1
      BY DEF Typed, TaskOK, Tasks
    <2>3. FlagOK'
      BY <1>0, <1>8 DEF ReturnItem, TaskUnchanged, FlagOK
    <2> QED BY <1>a, <1>e, <2>1, <2>2, <2>3
  <1>9. CASE Function
    BY <1>a, <1>b, <1>f, <1>9, FunctionMoves DEF FnUnchanged, ringVars, recvVars
  <1>10. CASE ReplyBegin \/ ReplyFetches \/ ReplyEnd
    BY <1>a, <1>b, <1>f, <1>10 DEF ReplyBegin, ReplyFetches, ReplyEnd, SendUnchanged,
       ringVars, recvVars
  <1>11. CASE ReplyStore
    <2>1. task.unit \in Units
      BY DEF Typed, TaskOK, Tasks
    <2>2. FlagOK'
      BY <1>0, <1>11 DEF ReplyStore, SendUnchanged, recvVars, FlagOK
    <2> QED BY <1>a, <1>d, <1>11, <2>1, <2>2 DEF ReplyStore, SendUnchanged
  <1>12. CASE Restarts
    <2>1. Restart
      BY <1>12, RestartEffect
    <2>2. SpiOK' /\ FlagOK'
      BY <2>1 DEF Restart, SpiOK, Spis, Units, NoUnit, FlagOK
    <2> QED BY <1>c, <2>1, <2>2 DEF Restart
  <1>13. CASE UNCHANGED vars
    BY <1>a, <1>b, <1>f, <1>13 DEF vars, ringVars, recvVars
  <1> QED
    BY <1>1, <1>2, <1>3, <1>4, <1>5, <1>6, <1>7, <1>8, <1>9, <1>10, <1>11, <1>12, <1>13 DEF Step

LEMMA TaskStep ==
    ASSUME Typed, Step
    PROVE  TaskOK'
  <1>0. TaskOK /\ MsgsOK /\ RingOK /\ Len(msgs) \in Nat /\ HeaderSize \in Nat /\ HeaderSize >= 1
        /\ task.recv \in Nat /\ task.n \in Nat /\ Len(ring) \in Nat /\ RdBuf \in Nat
    BY FsOverBusAssumption DEF Typed, MsgsOK, TaskOK, Tasks, RingOK
  <1>1. /\ Len(msgs') \in Nat /\ Len(msgs') >= Len(msgs)
        /\ msgs' = msgs \/ \E m \in Shapes : msgs' = Append(msgs, m)
    BY HostStep DEF MsgsOK
  <1>2. \A i \in 1 .. Len(msgs) : msgs'[i] = msgs[i]
    BY <1>0, <1>1 DEF MsgsOK
  <1>z. ASSUME task' \in Tasks(Len(msgs')),
               task'.cmd # 0 => task'.recv <= msgs'[task'.cmd].name + msgs'[task'.cmd].data,
               receiving' \/ task'.pc \notin {"wait", "loop"} => task'.cmd # 0
        PROVE  TaskOK'
    BY <1>z DEF TaskOK, Size
  <1>4. Tasks(Len(msgs)) \subseteq Tasks(Len(msgs'))
    BY <1>0, <1>1 DEF Tasks
  <1>5. \A i \in 1 .. Len(msgs) : msgs[i] \in Shapes /\ Size(i) \in Nat
    BY <1>0, FsOverBusAssumption DEF MsgsOK, Size
  <1>6. task.cmd \in 0 .. Len(msgs)
    BY <1>0 DEF TaskOK, Tasks
  <1>a. ASSUME task' \in Tasks(Len(msgs)), task'.cmd = task.cmd, task'.recv = task.recv,
               receiving' \/ task'.pc \notin {"wait", "loop"} =>
                   receiving \/ task.pc \notin {"wait", "loop"}
        PROVE  TaskOK'
    <2>1. task' \in Tasks(Len(msgs'))
      BY <1>4, <1>a
    <2>2. task.cmd # 0 => /\ msgs'[task.cmd] = msgs[task.cmd]
                          /\ task.recv <= msgs[task.cmd].name + msgs[task.cmd].data
      BY <1>0, <1>2, <1>6 DEF TaskOK, Size
    <2>3. receiving' \/ task'.pc \notin {"wait", "loop"} => task'.cmd # 0
      BY <1>0, <1>a DEF TaskOK
    <2> QED BY <1>a, <1>z, <2>1, <2>2, <2>3
  <1>b. ASSUME NEW l \in TaskPcs, task' = [task EXCEPT !.pc = l]
        PROVE  /\ task' \in Tasks(Len(msgs))
               /\ task'.cmd = task.cmd /\ task'.recv = task.recv /\ task'.pc = l
    BY <1>0, <1>b DEF TaskOK, Tasks
  <1>c. ASSUME task' = task, receiving' => receiving PROVE TaskOK'
    BY <1>0, <1>a, <1>c DEF TaskOK
  <1>7. CASE HostBegin \/ HostAnswered \/ HostGivesUp
    BY <1>c, <1>7 DEF HostBegin, HostAnswered, HostGivesUp, recvVars
  <1>8. CASE SpiBegin \/ SpiTransfer \/ SpiStore \/ SpiEnd
    BY <1>c, <1>8 DEF SpiBegin, SpiTransfer, SpiStore, SpiEnd, SpiUnchanged, recvVars
  <1>9. CASE TimerFires
    BY <1>c, <1>9 DEF TimerFires
  <1>10. CASE TimerClears
    <2>1. ASSUME NEW b \in BOOLEAN
          PROVE  /\ [task EXCEPT !.stale = b] \in Tasks(Len(msgs))
                 /\ [task EXCEPT !.stale = b].cmd = task.cmd
                 /\ [task EXCEPT !.stale = b].recv = task.recv
                 /\ [task EXCEPT !.stale = b].pc = task.pc
      BY <1>0 DEF TaskOK, Tasks
    <2>2. Holding \in BOOLEAN
      BY Zenon DEF Holding
    <2>3. task' = [task EXCEPT !.stale = Holding] /\ receiving' = receiving
      BY <1>10 DEF TimerClears
    <2> QED BY <1>a, <2>1, <2>2, <2>3
  <1>11. CASE Wake
    <2>1. task' = [task EXCEPT !.pc = "loop"] /\ receiving' = receiving
      BY <1>11 DEF Wake
    <2>2. task' \in Tasks(Len(msgs)) /\ task'.cmd = task.cmd /\ task'.recv = task.recv
          /\ task'.pc = "loop"
      BY <1>b, <2>1 DEF TaskPcs
    <2> QED BY <1>a, <2>1, <2>2
  <1>12. CASE AwaitHeader
    <2>1. task' = [task EXCEPT !.pc = "wait"] /\ receiving' = receiving
      BY <1>12 DEF AwaitHeader
    <2>2. task' \in Tasks(Len(msgs)) /\ task'.cmd = task.cmd /\ task'.recv = task.recv
          /\ task'.pc = "wait"
      BY <1>b, <2>1 DEF TaskPcs
    <2> QED BY <1>a, <2>1, <2>2
  <1>13. CASE ReadNothing
    <2>1. PICK l \in {"wait", "loop"} : task' = [task EXCEPT !.pc = l]
      BY <1>13 DEF ReadNothing, Continue
    <2>2. task' \in Tasks(Len(msgs)) /\ task'.cmd = task.cmd /\ task'.recv = task.recv
          /\ task'.pc = l
      BY <1>b, <2>1 DEF TaskPcs
    <2>3. receiving' = receiving
      BY <1>13 DEF ReadNothing
    <2> QED BY <1>a, <2>1, <2>2, <2>3
  <1>14. CASE ReturnItem
    <2>1. PICK l \in {"wait", "loop"} : task' = [task EXCEPT !.pc = l, !.n = 0]
      BY <1>14 DEF ReturnItem, Continue
    <2>2. task' \in Tasks(Len(msgs)) /\ task'.cmd = task.cmd /\ task'.recv = task.recv
          /\ task'.pc = l
      BY <1>0, <2>1 DEF TaskPcs, TaskOK, Tasks
    <2>3. receiving' => receiving
      BY <1>14 DEF ReturnItem
    <2> QED BY <1>a, <2>1, <2>2, <2>3
  <1>15. CASE ReadHeader
    <2>1. msgs' = msgs
      BY <1>15 DEF ReadHeader, TaskUnchanged, hostVars
    <2>2. CASE task' = task /\ receiving' = receiving
      BY <1>c, <2>2
    <2>3. CASE ~(task' = task /\ receiving' = receiving)
      <3>1. PICK l \in {"wait", "loop"} :
              /\ IsHeader(SubSeq(ring, 1, HeaderSize))
              /\ task' = [task EXCEPT !.pc = l, !.cmd = SubSeq(ring, 1, HeaderSize)[1][1],
                                      !.recv = 0]
        BY <1>15, <2>3 DEF ReadHeader, Continue
      <3>2. PICK i \in DOMAIN msgs : SubSeq(ring, 1, HeaderSize) = [k \in 1 .. HeaderSize |-> <<i, k>>]
        BY <3>1 DEF IsHeader
      <3>3. SubSeq(ring, 1, HeaderSize)[1][1] = i
        BY <1>0, <3>2
      <3>4. i \in 1 .. Len(msgs)
        BY <1>0 DEF MsgsOK
      <3>5. task' = [task EXCEPT !.pc = l, !.cmd = i, !.recv = 0]
        BY <3>1, <3>3
      <3>6. l \in TaskPcs /\ i \in 0 .. Len(msgs) /\ 0 \in Nat
        BY <3>1, <3>4 DEF TaskPcs
      <3> DEFINE M == Len(msgs)
      <3>7. task \in Tasks(M) /\ i \in 0 .. M
        BY <1>0, <3>6 DEF TaskOK
      <3> HIDE DEF M
      <3>9. task' \in Tasks(M) /\ task'.cmd = i /\ task'.recv = 0
        BY <3>5, <3>6, <3>7 DEF Tasks
      <3>8. msgs[i].name + msgs[i].data \in Nat /\ i # 0
        BY <1>5, <3>4 DEF Size
      <3> QED BY <1>z, <2>1, <3>8, <3>9 DEF M
    <2> QED BY <2>2, <2>3
  <1>16. CASE ReadPacket
    <2>0. task.cmd # 0 /\ receiving /\ receiving' = receiving /\ msgs' = msgs
      BY <1>0, <1>16 DEF ReadPacket, TaskOK, TaskUnchanged, hostVars
    <2>1. PICK n \in 1 .. Least(MaxRead, Len(ring)) :
            task' = [task EXCEPT !.pc = "handle", !.n = n, !.recv = @ + n]
      BY <1>16 DEF ReadPacket
    <2>2. Size(task.cmd) \in Nat /\ task.recv <= Size(task.cmd)
      BY <1>0, <1>5, <1>6, <2>0 DEF TaskOK
    <2>3. n \in Nat /\ task.recv + n \in Nat /\ task.recv + n <= Size(task.cmd)
      BY <1>0, <2>1, <2>2 DEF Least, MaxRead
    <2>4. task' \in Tasks(Len(msgs)) /\ task'.cmd = task.cmd /\ task'.recv = task.recv + n
      BY <1>0, <2>1, <2>3 DEF TaskOK, Tasks, TaskPcs
    <2> QED BY <1>z, <2>0, <2>3, <2>4 DEF Size
  <1>17. CASE Function
    <2>0. FnMoves /\ task.pc \notin {"wait", "loop"} /\ receiving' = receiving
      BY <1>17, FunctionMoves DEF FnUnchanged, recvVars
    <2>1. CASE \E l \in {"return", "delay", "remove", "rename", "copy", "unlink"} : Go(l)
      <3>1. PICK l \in {"return", "delay", "remove", "rename", "copy", "unlink"} : Go(l)
        BY <2>1
      <3>2. task' \in Tasks(Len(msgs)) /\ task'.cmd = task.cmd /\ task'.recv = task.recv
        BY <1>b, <3>1 DEF Go, TaskPcs
      <3> QED BY <1>a, <2>0, <3>2
    <2>2. CASE \E status \in {"ok", "er"}, next \in {"close", "sleep", "return"} :
                 Reply(status, next)
      <3>1. PICK status \in {"ok", "er"}, next \in {"close", "sleep", "return"} :
              Reply(status, next)
        BY <2>2
      <3>2. task' = [task EXCEPT !.pc = "reply", !.status = status, !.next = next]
        BY <3>1 DEF Reply
      <3>3. "reply" \in TaskPcs /\ next \in {"wait", "close", "sleep", "return"}
        BY DEF TaskPcs
      <3>4. task' \in Tasks(Len(msgs)) /\ task'.cmd = task.cmd /\ task'.recv = task.recv
        BY <1>0, <3>2, <3>3 DEF TaskOK, Tasks
      <3> QED BY <1>a, <2>0, <3>4
    <2> QED BY <2>0, <2>1, <2>2 DEF FnMoves
  <1>18. CASE ReplyBegin \/ ReplyFetches \/ ReplyStore \/ ReplyEnd
    <2>0. receiving' = receiving /\ task.pc \notin {"wait", "loop"}
      BY <1>18 DEF ReplyBegin, ReplyFetches, ReplyStore, ReplyEnd, SendUnchanged, recvVars
    <2>1. task' \in Tasks(Len(msgs)) /\ task'.cmd = task.cmd /\ task'.recv = task.recv
      <3>1. CASE ReplyBegin
        BY <1>0, <3>1 DEF ReplyBegin, TaskPcs, TaskOK, Tasks
      <3>2. CASE ReplyFetches
        <4>1. NextUnit \in Units
          BY <3>2, UnitsOK DEF ReplyFetches
        <4> QED BY <1>0, <3>2, <4>1 DEF ReplyFetches, TaskPcs, TaskOK, Tasks
      <3>3. CASE ReplyStore
        <4>1. NoUnit \in Units
          BY DEF Units
        <4> QED BY <1>0, <3>3, <4>1 DEF ReplyStore, TaskPcs, TaskOK, Tasks
      <3>4. CASE ReplyEnd
        <4>1. task.next \in TaskPcs
          BY <1>0 DEF TaskOK, Tasks, TaskPcs
        <4> QED BY <1>b, <3>4, <4>1 DEF ReplyEnd
      <3> QED BY <1>18, <3>1, <3>2, <3>3, <3>4
    <2> QED BY <1>a, <2>0, <2>1
  <1>19. CASE Restarts
    <2>1. task' = TaskInit /\ receiving' = FALSE
      BY <1>19, RestartEffect DEF Restart
    <2>2. task' \in Tasks(Len(msgs')) /\ task'.cmd = 0 /\ task'.pc = "wait"
      BY <1>1, <2>1 DEF TaskInit, Tasks, TaskPcs, Units, NoUnit
    <2> QED BY <1>z, <2>1, <2>2
  <1>20. CASE UNCHANGED vars
    BY <1>c, <1>20 DEF vars, recvVars
  <1> QED
    BY <1>7, <1>8, <1>9, <1>10, <1>11, <1>12, <1>13, <1>14, <1>15, <1>16, <1>17, <1>18, <1>19,
       <1>20 DEF Step

LEMMA FileStep ==
    ASSUME Typed, Step
    PROVE  FileOK'
  <1>0. /\ FileOK /\ MsgsOK /\ TaskOK /\ Len(msgs) \in Nat /\ MaxMsgs \in Nat
        /\ task.recv \in Nat /\ task.n \in Nat
    BY FsOverBusAssumption DEF Typed, MsgsOK, TaskOK, Tasks
  <1>1. NoFile \in Contents /\ Torn \in Contents
    BY <1>0 DEF NoFile, Torn, Contents
  <1>a. ASSUME NEW b \in [Files -> Contents], NEW f, NEW c \in Contents
        PROVE  [b EXCEPT ![f] = c] \in [Files -> Contents]
    OBVIOUS
  <1>b. ASSUME UNCHANGED fileVars PROVE FileOK'
    BY <1>0, <1>b DEF FileOK, fileVars
  <1>c. ASSUME UNCHANGED <<fptr, failed_open, tmp>>, files' \in [Files -> Contents]
        PROVE  FileOK'
    BY <1>0, <1>c DEF FileOK
  <1>d. files \in [Files -> Contents] /\ tmp \in [Files -> Contents]
    BY <1>0 DEF FileOK
  <1>e. task.cmd \in DOMAIN msgs =>
          Cmd.file \in Files /\ Cmd.name \in Nat /\ Cmd.data \in Nat /\ task.cmd \in 1 .. MaxMsgs
    BY <1>0, FsOverBusAssumption DEF MsgsOK, Cmd
  <1>f. task.pc = "handle" => task.cmd \in DOMAIN msgs
    BY <1>0 DEF TaskOK, Tasks, MsgsOK
  <1>2. CASE ~Function /\ ~Restarts
    <2>1. UNCHANGED fileVars
      BY <1>2 DEF Step, HostBegin, HostAnswered, HostGivesUp, SpiBegin, SpiTransfer, SpiStore,
         SpiEnd, SpiUnchanged, TimerFires, TimerClears, Wake, ReadHeader, AwaitHeader, ReadPacket,
         ReadNothing, ReturnItem, ReplyBegin, ReplyFetches, ReplyStore, ReplyEnd, SendUnchanged,
         vars
    <2> QED BY <1>b, <2>1
  <1>3. CASE Restarts
    <2>1. Restart
      BY <1>3, RestartEffect
    <2>2. tmp' \in [Files -> Contents]
      <3>1. ASSUME NEW n \in 0 .. tmp[fptr].len, fptr # NULL
            PROVE  [tmp EXCEPT ![fptr].len = n] \in [Files -> Contents]
        <4>1. tmp[fptr] \in Contents
          BY <1>0, <3>1 DEF FileOK
        <4>2. n \in Nat
          BY <4>1 DEF Contents
        <4>3. [tmp[fptr] EXCEPT !.len = n] \in Contents
          BY <4>1, <4>2 DEF Contents
        <4> QED BY <1>a, <1>d, <4>3
      <3> QED BY <1>d, <2>1, <3>1 DEF Restart
    <2> QED BY <1>d, <2>1, <2>2 DEF Restart, FileOK
  <1>4. CASE Heartbeat \/ DelayOver \/ Close \/ Partial \/ CopyRefused \/ ExecFile
    BY <1>b, <1>4 DEF Heartbeat, DelayOver, Close, Partial, CopyRefused, ExecFile
  <1>5. CASE WriteNoName \/ WriteNameTooLong \/ WriteOpenFails \/ WriteFailed
    BY <1>0, <1>5 DEF WriteNoName, WriteNameTooLong, WriteOpenFails, WriteFailed, FileOK
  <1>6. CASE WriteOpen
    <2>1. task.cmd \in DOMAIN msgs /\ Cmd.name <= task.recv
      BY <1>6, <1>f DEF WriteOpen, Writing, NameReceived
    <2>2. Expected \in BOOLEAN
      BY Zenon DEF Expected
    <2>3. ASSUME NEW b \in BOOLEAN
          PROVE  [id |-> task.cmd, len |-> task.recv - Cmd.name, pure |-> b, cut |-> FALSE]
                   \in Contents
      BY <1>0, <1>e, <2>1 DEF Contents
    <2>4. tmp' \in [Files -> Contents]
      BY <1>6, <1>a, <1>d, <2>2, <2>3 DEF WriteOpen
    <2> QED BY <1>d, <1>e, <1>6, <2>1, <2>4 DEF WriteOpen, FileOK
  <1>7. CASE WriteMore
    <2>1. fptr \in Files /\ tmp[fptr] \in Contents /\ Expected \in BOOLEAN
      <3>1. Expected \in BOOLEAN
        BY Zenon DEF Expected
      <3> QED BY <1>0, <1>7, <3>1 DEF WriteMore, FileOK
    <2>2. ASSUME NEW c \in Contents, NEW b \in BOOLEAN
          PROVE  [c EXCEPT !.len = @ + task.n, !.pure = b] \in Contents
      <3>1. c.len + task.n \in Nat
        BY <1>0 DEF Contents
      <3> QED BY <3>1 DEF Contents
    <2>3. ASSUME NEW b1 \in BOOLEAN, NEW b2 \in BOOLEAN
          PROVE  (b1 /\ b2) \in BOOLEAN
      OBVIOUS
    <2>4. [tmp[fptr] EXCEPT !.len = @ + task.n, !.pure = @ /\ Expected] \in Contents
      <3>1. tmp[fptr].pure \in BOOLEAN
        BY <2>1 DEF Contents
      <3>2. (tmp[fptr].pure /\ Expected) \in BOOLEAN
        BY <2>1, <2>3, <3>1
      <3> QED BY <2>1, <2>2, <3>2
    <2>5. tmp' = [tmp EXCEPT ![fptr] =
                    [tmp[fptr] EXCEPT !.len = @ + task.n, !.pure = @ /\ Expected]]
      BY <1>7, <2>1, <1>d DEF WriteMore
    <2>6. tmp' \in [Files -> Contents]
      BY <1>a, <1>d, <2>4, <2>5
    <2> QED BY <1>0, <1>7, <2>6 DEF WriteMore, FileOK
  <1>8. CASE Remove \/ DelFile \/ Unlink
    BY <1>1, <1>a, <1>c, <1>d, <1>8 DEF Remove, DelFile, Unlink
  <1>9. CASE Rename
    <2>1. \A f \in Files : tmp[f] \in Contents
      BY <1>d
    <2>2. files' \in [Files -> Contents] /\ tmp' \in [Files -> Contents]
      BY <1>1, <1>d, <1>9, <2>1 DEF Rename
    <2> QED BY <1>9, <2>2 DEF Rename, FileOK
  <1>10. CASE CopyOpen
    BY <1>1, <1>a, <1>c, <1>d, <1>10 DEF CopyOpen
  <1>11. CASE CopyWrite
    <2>1. task.cmd \in DOMAIN msgs
      BY <1>0, <1>11 DEF CopyWrite, TaskOK, Tasks, MsgsOK
    <2>2. files[Cmd.file] \in Contents
      BY <1>d, <1>e, <2>1
    <2> QED BY <1>a, <1>c, <1>d, <1>11, <2>2 DEF CopyWrite
  <1> QED
    BY <1>2, <1>3, <1>4, <1>5, <1>6, <1>7, <1>8, <1>9, <1>10, <1>11 DEF Function

LEMMA AnswersStep ==
    ASSUME Typed, Step
    PROVE  AnswersOK'
  <1>0. AnswersOK /\ TaskOK /\ MsgsOK /\ Len(msgs) \in Nat /\ MaxMsgs \in Nat
    BY FsOverBusAssumption DEF Typed, MsgsOK
  <1>1. CASE ReplyEnd
    <2>1. task.cmd \in 1 .. MaxMsgs /\ task.status \in {"ok", "er"}
      BY <1>0, <1>1 DEF ReplyEnd, TaskOK, Tasks, MsgsOK
    <2>2. <<task.cmd, task.status>> \in (1 .. MaxMsgs) \X {"ok", "er"}
      BY <2>1
    <2> QED BY <1>0, <1>1, <2>2 DEF ReplyEnd, AnswersOK
  <1>2. CASE ~ReplyEnd /\ ~Function /\ ~Restarts
    <2>1. answers' = answers
      BY <1>2 DEF Step, HostBegin, HostAnswered, HostGivesUp, SpiBegin, SpiTransfer, SpiStore,
         SpiEnd, SpiUnchanged, TimerFires, TimerClears, Wake, ReadHeader, AwaitHeader, ReadPacket,
         ReadNothing, ReturnItem, TaskUnchanged, ReplyBegin, ReplyFetches, ReplyStore, histVars,
         vars
    <2> QED BY <1>0, <2>1 DEF AnswersOK
  <1>3. CASE Function
    BY <1>0, <1>3, FunctionMoves DEF FnUnchanged, histVars, AnswersOK
  <1>4. CASE Restarts
    BY <1>0, <1>4, RestartEffect DEF Restart, AnswersOK
  <1> QED
    BY <1>1, <1>2, <1>3, <1>4

LEMMA TypedInit == ASSUME Init PROVE Typed
  <1>0. /\ MaxMsgs \in Nat /\ MaxGiveUps \in Nat /\ MaxCrashes \in Nat /\ RingSize \in Nat
    BY FsOverBusAssumption
  <1>a. MsgsOK /\ HostOK
    BY <1>0 DEF Init, HostIdle, MsgsOK, HostOK, Hosts
  <1>b. SpiOK /\ RingOK
    BY <1>0 DEF Init, SpiOK, Spis, Units, NoUnit, RingOK
  <1>c. FlagOK
    BY DEF Init, FlagOK
  <1>1. MsgsOK /\ HostOK /\ SpiOK /\ RingOK /\ FlagOK
    BY <1>a, <1>b, <1>c
  <1>2. TaskOK
    BY <1>0, <1>1 DEF Init, TaskInit, TaskOK, Tasks, TaskPcs, Units, NoUnit, MsgsOK
  <1>3. NoFile \in Contents
    BY <1>0 DEF NoFile, Contents
  <1>d. files \in [Files -> Contents] /\ tmp \in [Files -> Contents]
    BY <1>3 DEF Init
  <1>4. FileOK
    BY <1>d DEF Init, FileOK
  <1>5. AnswersOK
    BY DEF Init, AnswersOK
  <1> QED BY <1>1, <1>2, <1>4, <1>5 DEF Typed

LEMMA TypedStep == ASSUME Typed, [Next]_vars PROVE Typed'
  BY StepsOfNext, HostStep, SpiRingFlagStep, TaskStep, FileStep, AnswersStep DEF Typed

(* The variables keep their types in every behaviour: among them the ring  *)
(* never holds more than the buffer does (fsob_receive_bytes is refused),  *)
(* and fsob_task never reads more than the message it parsed has           *)
(* (received_in_session <= size in backend.c).                             *)
THEOREM FsOverBusTypeCorrect == Spec => []TypeOK
  <1>1. Init => Typed
    BY TypedInit
  <1>2. Typed /\ [Next]_vars => Typed'
    BY TypedStep
  <1> QED BY <1>1, <1>2, TypedIsTypeOK, PTL DEF Spec

---------------------------------------------------------------------------
(* The order of the answers.  A message enters with its first unit: those  *)
(* that may have entered are 1 .. Top.  The first units that wait in the   *)
(* ring, or are about to be stored there, are of messages each after the   *)
(* one before, and after all that were parsed or answered; and until it is *)
(* answered, the message parsed last is after all that were.               *)

Top == IF host.pc = "sending" /\ host.k = 0 THEN Len(msgs) - 1 ELSE Len(msgs)
Start(u) == u[2] = 1
Above(n) == task.cmd < n /\ \A a \in DOMAIN answers : answers[a][1] < n

RingOrder == \A i, j \in DOMAIN ring :
  i < j /\ Start(ring[i]) /\ Start(ring[j]) => ring[i][1] < ring[j][1]
RingAbove == \A i \in DOMAIN ring : Start(ring[i]) => Above(ring[i][1]) /\ ring[i][1] <= Top
Arrives(u) == Start(u) =>
  /\ Above(u[1]) /\ u[1] <= Top
  /\ \A i \in DOMAIN ring : Start(ring[i]) => ring[i][1] < u[1]
InFlight(u) == \/ spi.pc = "send" /\ spi.unit = u
               \/ task.pc = "store" /\ task.unit = u
Flying == \A u \in Units : InFlight(u) => Arrives(u)
Entered == task.cmd <= Top /\ \A a \in DOMAIN answers : answers[a][1] <= Top
Queue == RingOrder /\ RingAbove /\ Flying /\ Entered

Mutex == spi.pc = "wait" \/ ~Sending

ReplyPcs == {"reply", "sending", "store", "copy", "unlink"}
AwaitsAnswer == task.cmd # 0 /\ (task.pc \in ReplyPcs \cup {"handle"}
                                 \/ task.recv < Size(task.cmd))
Unanswered == AwaitsAnswer => \A a \in DOMAIN answers : answers[a][1] < task.cmd
WholeReply == task.pc \in ReplyPcs => task.recv = Size(task.cmd)
Replies == Unanswered /\ WholeReply /\ AnsweredOnce

IInv == Typed /\ Queue /\ Mutex /\ Replies

LEMMA TopStep ==
    ASSUME Typed, Step
    PROVE  Top \in Int /\ Top' \in Int /\ Top' >= Top
  <1>0. /\ MsgsOK /\ HostOK /\ MsgsOK' /\ HostOK' /\ Len(msgs') >= Len(msgs)
        /\ Len(msgs) \in Nat /\ Len(msgs') \in Nat
    BY HostStep DEF Typed, MsgsOK
  <1>1. CASE HostBegin
    <2>1. Len(msgs') = Len(msgs) + 1
      BY <1>0, <1>1 DEF HostBegin, MsgsOK
    <2> QED BY <1>0, <2>1 DEF Top
  <1>2. CASE HostAnswered \/ HostGivesUp \/ SpiTransfer \/ ReplyFetches
    <2>1. msgs' = msgs /\ host.k \in Nat
      BY <1>0, <1>2 DEF HostAnswered, HostGivesUp, SpiTransfer, ReplyFetches, SpiUnchanged,
         SendUnchanged, HostOK, Hosts
    <2>2. host'.pc = "sending" => host'.k = host.k + 1
      BY <1>0, <1>2 DEF HostAnswered, HostGivesUp, SpiTransfer, ReplyFetches, Fetched, HostOK,
         Hosts
    <2> QED BY <1>0, <2>1, <2>2 DEF Top
  <1>3. CASE Restarts
    <2>1. msgs' = msgs /\ host'.pc = host.pc /\ host'.k = host.k
      BY <1>0, <1>3, RestartEffect DEF Restart, HostOK, Hosts
    <2> QED BY <1>0, <2>1 DEF Top
  <1>4. CASE Function
    BY <1>0, <1>4, FunctionMoves DEF FnUnchanged, hostVars, Top
  <1>5. CASE \/ SpiBegin \/ SpiStore \/ SpiEnd \/ TimerFires \/ TimerClears \/ Wake \/ ReadHeader
             \/ AwaitHeader \/ ReadPacket \/ ReadNothing \/ ReturnItem \/ ReplyBegin \/ ReplyStore
             \/ ReplyEnd \/ UNCHANGED vars
    <2>1. UNCHANGED hostVars
      BY <1>5 DEF SpiBegin, SpiStore, SpiEnd, SpiUnchanged, TimerFires, TimerClears, Wake,
         ReadHeader, AwaitHeader, ReadPacket, ReadNothing, ReturnItem, TaskUnchanged, ReplyBegin,
         ReplyStore, ReplyEnd, SendUnchanged, hostVars, vars
    <2> QED BY <1>0, <2>1 DEF hostVars, Top
  <1> QED
    BY <1>1, <1>2, <1>3, <1>4, <1>5 DEF Step

(* The mutual exclusion of stm32_task and a reply.                         *)
LEMMA MutexStep ==
    ASSUME Typed, Mutex, Step
    PROVE  Mutex'
  <1>0. TaskOK /\ SpiOK /\ TaskOK' /\ SpiOK'
    BY TaskStep, SpiRingFlagStep DEF Typed
  <1>1. CASE SpiBegin \/ SpiTransfer \/ SpiStore \/ SpiEnd
    BY <1>0, <1>1 DEF SpiBegin, SpiTransfer, SpiStore, SpiEnd, SpiUnchanged, Mutex, MutexFree,
       Sending, SpiOK, Spis
  <1>2. CASE Restarts
    BY <1>2, RestartEffect DEF Restart, Mutex
  <1>3. CASE Function
    <2>1. spi' = spi
      BY <1>3, FunctionMoves DEF FnUnchanged
    <2>2. ~Sending'
      <3>1. FnMoves
        BY <1>3, FunctionMoves
      <3> QED BY <1>0, <3>1 DEF FnMoves, Go, Reply, Sending, TaskOK, Tasks
    <2> QED BY <2>1, <2>2 DEF Mutex
  <1>4. CASE ReplyBegin \/ ReplyFetches \/ ReplyStore \/ ReplyEnd
    BY <1>0, <1>4 DEF ReplyBegin, ReplyFetches, ReplyStore, ReplyEnd, SendUnchanged, Mutex,
       MutexFree, Sending
  <1>5. CASE \/ Wake \/ ReadHeader \/ AwaitHeader \/ ReadPacket \/ ReadNothing \/ ReturnItem
    <2>1. spi' = spi /\ (task' = task \/ task'.pc \in {"wait", "loop", "handle"})
      BY <1>0, <1>5 DEF Wake, ReadHeader, AwaitHeader, ReadPacket, ReadNothing, ReturnItem,
         TaskUnchanged, Continue, TaskOK, Tasks
    <2> QED BY <2>1 DEF Mutex, Sending
  <1>6. CASE HostBegin \/ HostAnswered \/ HostGivesUp \/ TimerFires \/ TimerClears
             \/ UNCHANGED vars
    <2>1. spi' = spi /\ task'.pc = task.pc
      BY <1>0, <1>6 DEF HostBegin, HostAnswered, HostGivesUp, TimerFires, TimerClears, vars,
         TaskOK, Tasks
    <2> QED BY <2>1 DEF Mutex, Sending
  <1> QED
    BY <1>1, <1>2, <1>3, <1>4, <1>5, <1>6 DEF Step

(* Nothing new enters the queue: units leave the ring from its front, or   *)
(* all of them.                                                            *)
Shifted == \E n \in Nat : \A i \in DOMAIN ring' : i + n \in DOMAIN ring /\ ring'[i] = ring[i + n]

LEMMA QueueShifted ==
    ASSUME Typed, Typed', Step, Queue, Shifted, answers' = answers, task'.cmd \in {task.cmd, 0}
    PROVE  /\ RingOrder' /\ RingAbove' /\ Entered'
           /\ \A u \in Units : Arrives(u) => Arrives(u)'
  <1>0. /\ Top \in Int /\ Top' \in Int /\ Top' >= Top
        /\ \A i \in DOMAIN ring : ring[i][1] \in Nat
        /\ DOMAIN ring \subseteq Nat /\ DOMAIN ring' \subseteq Nat
        /\ \A a \in DOMAIN answers : answers[a][1] \in Nat
        /\ task.cmd \in Nat
    <2>1. ring \in Seq(Units) /\ ring' \in Seq(Units) /\ answers \in Seq((1 .. MaxMsgs) \X {"ok", "er"})
          /\ MaxMsgs \in Nat /\ task.cmd \in Nat
      BY FsOverBusAssumption DEF Typed, RingOK, AnswersOK, TaskOK, Tasks, MsgsOK
    <2>2. \A u \in Units : u[1] \in Nat
      BY DEF Units, NoUnit
    <2> QED BY <2>1, <2>2, TopStep
  <1>1. PICK n \in Nat : \A i \in DOMAIN ring' : i + n \in DOMAIN ring /\ ring'[i] = ring[i + n]
    BY DEF Shifted
  <1>2. ASSUME NEW m \in Nat, Above(m) PROVE Above(m)'
    BY <1>0, <1>2 DEF Above
  <1>3. RingOrder'
    <2>1. ASSUME NEW i \in DOMAIN ring', NEW j \in DOMAIN ring', i < j,
                 Start(ring'[i]), Start(ring'[j])
          PROVE  ring'[i][1] < ring'[j][1]
      <3>1. /\ i + n \in DOMAIN ring /\ ring'[i] = ring[i + n]
            /\ j + n \in DOMAIN ring /\ ring'[j] = ring[j + n] /\ i + n < j + n
        BY <1>0, <1>1, <2>1
      <3> QED BY <2>1, <3>1 DEF Queue, RingOrder
    <2> QED BY <2>1 DEF RingOrder, Start
  <1>4. RingAbove'
    <2>1. ASSUME NEW i \in DOMAIN ring', Start(ring'[i])
          PROVE  /\ task'.cmd < ring'[i][1] /\ ring'[i][1] <= Top'
                 /\ \A a \in DOMAIN answers' : answers'[a][1] < ring'[i][1]
      <3>1. i + n \in DOMAIN ring /\ ring'[i] = ring[i + n]
        BY <1>1
      <3>2. Above(ring[i + n][1]) /\ ring[i + n][1] <= Top /\ ring[i + n][1] \in Nat
        BY <1>0, <2>1, <3>1 DEF Queue, RingAbove
      <3>3. task'.cmd < ring[i + n][1] /\ \A a \in DOMAIN answers' : answers'[a][1] < ring[i + n][1]
        BY <1>0, <3>2 DEF Above
      <3> QED BY <1>0, <3>1, <3>2, <3>3
    <2> QED BY <2>1 DEF RingAbove, Start, Above
  <1>5. ASSUME NEW u \in Units, Arrives(u) PROVE Arrives(u)'
    <2>1. u[1] \in Nat
      BY FsOverBusAssumption DEF Units, NoUnit
    <2>2. ASSUME Start(u), NEW i \in DOMAIN ring', Start(ring'[i])
          PROVE  ring'[i][1] < u[1]
      <3>1. i + n \in DOMAIN ring /\ ring'[i] = ring[i + n]
        BY <1>1
      <3> QED BY <1>5, <2>2, <3>1 DEF Arrives
    <2>3. Start(u) => task'.cmd < u[1] /\ (\A a \in DOMAIN answers' : answers'[a][1] < u[1])
                      /\ u[1] <= Top'
      BY <1>0, <1>5, <2>1 DEF Arrives, Above
    <2> QED BY <2>2, <2>3 DEF Arrives, Above, Start
  <1>6. Entered'
    BY <1>0 DEF Queue, Entered
  <1> QED BY <1>3, <1>4, <1>5, <1>6

LEMMA QueueKept ==
    ASSUME Typed, Typed', Step, Queue, Shifted, answers' = answers, task'.cmd \in {task.cmd, 0},
           spi'.pc = "send" => spi.pc = "send" /\ spi'.unit = spi.unit,
           task'.pc = "store" => task.pc = "store" /\ task'.unit = task.unit
    PROVE  Queue'
  <1>1. RingOrder' /\ RingAbove' /\ Entered' /\ \A u \in Units : Arrives(u) => Arrives(u)'
    BY QueueShifted
  <1>2. \A u \in Units : InFlight(u)' => InFlight(u)
    BY DEF InFlight
  <1>3. Flying'
    BY <1>1, <1>2 DEF Queue, Flying
  <1> QED BY <1>1, <1>3 DEF Queue

(* The unit that is fetched: a first one is of a message that has not      *)
(* entered before.                                                         *)
LEMMA QueueFetched ==
    ASSUME Typed, Typed', Step, Queue, HasData, Fetched, msgs' = msgs, ring' = ring,
           answers' = answers, task'.cmd = task.cmd,
           \A u \in Units : InFlight(u)' => u = NextUnit
    PROVE  Queue'
  <1>0. /\ Top \in Int /\ Top' \in Int /\ Top' >= Top
        /\ Len(msgs) \in Nat /\ host.k \in Nat /\ host.pc = "sending" /\ task.cmd \in Nat
        /\ ring \in Seq(Units) /\ answers \in Seq((1 .. MaxMsgs) \X {"ok", "er"})
    BY TopStep DEF Typed, MsgsOK, HostOK, Hosts, HasData, TaskOK, Tasks, RingOK, AnswersOK
  <1>1. Shifted
    <2>1. \A i \in DOMAIN ring' : i + 0 \in DOMAIN ring /\ ring'[i] = ring[i + 0]
      BY <1>0
    <2> QED BY <2>1 DEF Shifted
  <1>2. RingOrder' /\ RingAbove' /\ Entered'
    BY <1>1, QueueShifted
  <1>3. ASSUME NEW u \in Units, u = NextUnit, Start(u)
        PROVE  Arrives(u)'
    <2>1. u[1] = Len(msgs) /\ host.k = 0
      BY <1>0, <1>3 DEF NextUnit, Start
    <2>2. Top = Len(msgs) - 1 /\ Top' = Len(msgs)
      BY <1>0, <2>1 DEF Top, Fetched, Typed, HostOK, Hosts
    <2>3. MaxMsgs \in Nat /\ \A a \in DOMAIN answers : answers[a][1] \in Nat
      BY <1>0, FsOverBusAssumption
    <2>4. task.cmd < u[1] /\ \A a \in DOMAIN answers : answers[a][1] < u[1]
      BY <1>0, <2>1, <2>2, <2>3 DEF Queue, Entered
    <2>5. ASSUME NEW i \in DOMAIN ring, Start(ring[i])
          PROVE  ring[i][1] < u[1]
      <3>1. ring[i] \in Units
        BY <1>0
      <3>2. ring[i][1] \in Nat /\ ring[i][1] <= Top
        BY <2>5, <3>1, <2>3 DEF Queue, RingAbove, Units, NoUnit
      <3> QED BY <1>0, <2>1, <2>2, <3>2
    <2> QED BY <1>0, <2>1, <2>2, <2>4, <2>5 DEF Arrives, Above, Start
  <1>4. Flying'
    <2>1. \A u \in Units : u = NextUnit => Arrives(u)'
      BY <1>3 DEF Arrives, Start
    <2> QED BY <2>1 DEF Flying
  <1> QED BY <1>2, <1>4 DEF Queue

(* A unit in flight is stored: it becomes the last one of the ring.        *)
LEMMA QueueStored ==
    ASSUME Typed, Typed', Step, Queue, answers' = answers, task'.cmd = task.cmd,
           NEW u \in Units, InFlight(u), ring' = Append(ring, u),
           \A w \in Units : ~InFlight(w)'
    PROVE  Queue'
  <1>0. /\ Top \in Int /\ Top' \in Int /\ Top' >= Top /\ task.cmd \in Nat
        /\ ring \in Seq(Units) /\ answers \in Seq((1 .. MaxMsgs) \X {"ok", "er"})
        /\ Len(ring) \in Nat /\ MaxMsgs \in Nat
    BY TopStep, FsOverBusAssumption DEF Typed, TaskOK, Tasks, RingOK, AnswersOK
  <1>1. Arrives(u)
    BY DEF Queue, Flying
  <1>2. /\ DOMAIN ring = 1 .. Len(ring) /\ DOMAIN ring' = 1 .. Len(ring) + 1
        /\ \A i \in 1 .. Len(ring) : ring'[i] = ring[i]
        /\ ring'[Len(ring) + 1] = u
    BY <1>0
  <1>3. RingOrder'
    <2>1. ASSUME NEW i \in DOMAIN ring', NEW j \in DOMAIN ring', i < j,
                 Start(ring'[i]), Start(ring'[j])
          PROVE  ring'[i][1] < ring'[j][1]
      <3>1. i \in DOMAIN ring /\ ring'[i] = ring[i]
        BY <1>0, <1>2, <2>1
      <3>2. CASE j \in DOMAIN ring
        BY <1>2, <2>1, <3>1, <3>2 DEF Queue, RingOrder
      <3>3. CASE j = Len(ring) + 1
        BY <1>1, <1>2, <2>1, <3>1, <3>3 DEF Arrives
      <3> QED BY <1>0, <1>2, <3>2, <3>3
    <2> QED BY <2>1 DEF RingOrder, Start
  <1>4. RingAbove'
    <2>1. ASSUME NEW i \in DOMAIN ring', Start(ring'[i])
          PROVE  /\ task'.cmd < ring'[i][1] /\ ring'[i][1] <= Top'
                 /\ \A a \in DOMAIN answers' : answers'[a][1] < ring'[i][1]
      <3>1. ring'[i] \in Units /\ ring'[i][1] \in Nat
        BY <1>0, <2>1 DEF Typed, RingOK, Units, NoUnit
      <3>2. Above(ring'[i][1]) /\ ring'[i][1] <= Top
        <4>1. CASE i \in DOMAIN ring
          BY <1>2, <2>1, <4>1 DEF Queue, RingAbove
        <4>2. CASE i = Len(ring) + 1
          BY <1>1, <1>2, <2>1, <4>2 DEF Arrives
        <4> QED BY <1>0, <1>2, <4>1, <4>2
      <3> QED BY <1>0, <3>1, <3>2 DEF Above
    <2> QED BY <2>1 DEF RingAbove, Start, Above
  <1>5. Entered'
    <2>1. \A a \in DOMAIN answers : answers[a][1] \in Nat
      BY <1>0
    <2> QED BY <1>0, <2>1 DEF Queue, Entered
  <1>6. Flying'
    BY DEF Flying
  <1> QED BY <1>3, <1>4, <1>5, <1>6 DEF Queue

(* A header that is parsed leaves the ring: its first unit was the first.  *)
LEMMA QueueParsed ==
    ASSUME Typed, Typed', Step, Queue, answers' = answers,
           NEW i \in DOMAIN msgs, SubSeq(ring, 1, HeaderSize) = [k \in 1 .. HeaderSize |-> <<i, k>>],
           Len(ring) >= HeaderSize, ring' = SubSeq(ring, HeaderSize + 1, Len(ring)),
           task'.cmd = i,
           \A u \in Units : InFlight(u)' => InFlight(u)
    PROVE  Queue' /\ \A a \in DOMAIN answers : answers[a][1] < i
  <1>0. /\ Top \in Int /\ Top' \in Int /\ Top' >= Top /\ task.cmd \in Nat
        /\ ring \in Seq(Units) /\ answers \in Seq((1 .. MaxMsgs) \X {"ok", "er"})
        /\ Len(ring) \in Nat /\ MaxMsgs \in Nat /\ HeaderSize \in Nat /\ HeaderSize >= 1
        /\ msgs \in Seq(Shapes)
    BY TopStep, FsOverBusAssumption DEF Typed, TaskOK, Tasks, RingOK, AnswersOK, MsgsOK
  <1>1. i \in Nat /\ \A a \in DOMAIN answers : answers[a][1] \in Nat
    BY <1>0
  <1>2. ring[1] = <<i, 1>> /\ 1 \in DOMAIN ring /\ Start(ring[1])
    <2>1. SubSeq(ring, 1, HeaderSize)[1] = ring[1]
      BY <1>0
    <2>2. SubSeq(ring, 1, HeaderSize)[1] = <<i, 1>>
      BY <1>0
    <2> QED BY <1>0, <2>1, <2>2 DEF Start
  <1>3. i <= Top /\ \A a \in DOMAIN answers : answers[a][1] < i
    BY <1>2 DEF Queue, RingAbove, Above
  <1>4. /\ DOMAIN ring' = 1 .. Len(ring) - HeaderSize /\ DOMAIN ring = 1 .. Len(ring)
        /\ \A j \in DOMAIN ring' : j + HeaderSize \in DOMAIN ring /\ ring'[j] = ring[j + HeaderSize]
    BY <1>0
  <1>5. RingOrder'
    <2>1. ASSUME NEW j \in DOMAIN ring', NEW k \in DOMAIN ring', j < k,
                 Start(ring'[j]), Start(ring'[k])
          PROVE  ring'[j][1] < ring'[k][1]
      <3>1. j + HeaderSize < k + HeaderSize
        BY <1>0, <1>4, <2>1
      <3> QED BY <1>4, <2>1, <3>1 DEF Queue, RingOrder
    <2> QED BY <2>1 DEF RingOrder, Start
  <1>6. RingAbove'
    <2>1. ASSUME NEW j \in DOMAIN ring', Start(ring'[j])
          PROVE  /\ task'.cmd < ring'[j][1] /\ ring'[j][1] <= Top'
                 /\ \A a \in DOMAIN answers' : answers'[a][1] < ring'[j][1]
      <3>1. ring'[j] \in Units /\ ring'[j][1] \in Nat
        BY <1>0, <2>1 DEF Typed, RingOK, Units, NoUnit
      <3>2. Above(ring'[j][1]) /\ ring'[j][1] <= Top
        BY <1>4, <2>1 DEF Queue, RingAbove
      <3>3. /\ j + HeaderSize \in DOMAIN ring /\ 1 < j + HeaderSize
            /\ ring'[j] = ring[j + HeaderSize] /\ Start(ring[j + HeaderSize])
        BY <1>0, <1>4, <2>1
      <3>4. i < ring'[j][1]
        <4>1. ring[1][1] < ring[j + HeaderSize][1]
          BY <1>2, <3>3 DEF Queue, RingOrder
        <4>2. ring[1][1] = i
          BY <1>2
        <4> QED BY <3>3, <4>1, <4>2
      <3> QED BY <1>0, <3>1, <3>2, <3>4 DEF Above
    <2> QED BY <2>1 DEF RingAbove, Start, Above
  <1>7. ASSUME NEW u \in Units, Arrives(u) PROVE Arrives(u)'
    <2>1. u[1] \in Nat
      BY <1>0 DEF Units, NoUnit
    <2>a. Start(u) => ring[1][1] < u[1] /\ ring[1][1] = i
      BY <1>2, <1>7 DEF Arrives
    <2>b. Start(u) => u[1] <= Top'
      BY <1>0, <1>7, <2>1 DEF Arrives
    <2>c. Start(u) => \A j \in DOMAIN ring' : Start(ring'[j]) => ring'[j][1] < u[1]
      BY <1>4, <1>7 DEF Arrives
    <2>2. Start(u) => /\ i < u[1] /\ u[1] <= Top'
                      /\ \A j \in DOMAIN ring' : Start(ring'[j]) => ring'[j][1] < u[1]
      BY <2>a, <2>b, <2>c
    <2>3. Start(u) => \A a \in DOMAIN answers' : answers'[a][1] < u[1]
      BY <1>7 DEF Arrives, Above
    <2> QED BY <2>2, <2>3 DEF Arrives, Above, Start
  <1>8. Entered'
    BY <1>0, <1>1, <1>3 DEF Queue, Entered
  <1>9. Flying'
    BY <1>7 DEF Queue, Flying
  <1> QED BY <1>3, <1>5, <1>6, <1>8, <1>9 DEF Queue

(* The message parsed last is answered: all that follow are above it.      *)
LEMMA QueueAnswered ==
    ASSUME Typed, Typed', Step, Queue, ring' = ring, task'.cmd = task.cmd,
           NEW status, answers' = Append(answers, <<task.cmd, status>>),
           \A u \in Units : InFlight(u)' => InFlight(u)
    PROVE  Queue'
  <1>0. /\ Top \in Int /\ Top' \in Int /\ Top' >= Top /\ task.cmd \in Nat
        /\ ring \in Seq(Units) /\ answers \in Seq((1 .. MaxMsgs) \X {"ok", "er"})
        /\ Len(answers) \in Nat /\ MaxMsgs \in Nat
    BY TopStep, FsOverBusAssumption DEF Typed, TaskOK, Tasks, RingOK, AnswersOK, MsgsOK
  <1>1. /\ DOMAIN answers' = 1 .. Len(answers) + 1 /\ DOMAIN answers = 1 .. Len(answers)
        /\ \A a \in DOMAIN answers : answers'[a] = answers[a]
        /\ answers'[Len(answers) + 1][1] = task.cmd
    BY <1>0
  <1>2. ASSUME NEW n \in Nat, Above(n) PROVE \A a \in DOMAIN answers' : answers'[a][1] < n
    BY <1>0, <1>1, <1>2 DEF Above
  <1>3. RingOrder'
    BY DEF Queue, RingOrder, Start
  <1>4. RingAbove'
    <2>1. ASSUME NEW j \in DOMAIN ring, Start(ring[j])
          PROVE  /\ task'.cmd < ring[j][1] /\ ring[j][1] <= Top'
                 /\ \A a \in DOMAIN answers' : answers'[a][1] < ring[j][1]
      <3>1. ring[j] \in Units /\ ring[j][1] \in Nat
        BY <1>0, <2>1 DEF Units, NoUnit
      <3>2. Above(ring[j][1]) /\ ring[j][1] <= Top
        BY <2>1 DEF Queue, RingAbove
      <3> QED BY <1>0, <1>2, <3>1, <3>2 DEF Above
    <2> QED BY <2>1 DEF RingAbove, Start, Above
  <1>5. ASSUME NEW u \in Units, Arrives(u) PROVE Arrives(u)'
    <2>1. u[1] \in Nat
      BY <1>0 DEF Units, NoUnit
    <2>2. Start(u) => \A a \in DOMAIN answers' : answers'[a][1] < u[1]
      BY <1>2, <1>5, <2>1 DEF Arrives
    <2>3. Start(u) => task'.cmd < u[1] /\ u[1] <= Top'
      BY <1>0, <1>5, <2>1 DEF Arrives, Above
    <2> QED BY <1>5, <2>2, <2>3 DEF Arrives, Above, Start
  <1>6. Entered'
    <2>1. \A a \in DOMAIN answers : answers[a][1] \in Nat
      BY <1>0
    <2> QED BY <1>0, <1>1, <2>1 DEF Queue, Entered
  <1>7. Flying'
    BY <1>5 DEF Queue, Flying
  <1> QED BY <1>3, <1>4, <1>6, <1>7 DEF Queue

LEMMA QueueStep ==
    ASSUME Typed, Typed', Step, Mutex, Queue
    PROVE  Queue'
  <1>0. /\ ring \in Seq(Units) /\ Len(ring) \in Nat /\ HeaderSize \in Nat /\ HeaderSize >= 1
        /\ task.n \in Nat /\ spi.unit \in Units /\ task.unit \in Units
        /\ TaskOK /\ TaskOK' /\ SpiOK
    BY FsOverBusAssumption DEF Typed, RingOK, TaskOK, Tasks, SpiOK, Spis
  <1>a. ring' = ring \/ ring' = <<>> => Shifted
    <2>1. ring' = ring => \A i \in DOMAIN ring' : i + 0 \in DOMAIN ring /\ ring'[i] = ring[i + 0]
      BY <1>0
    <2>2. ring' = <<>> => \A i \in DOMAIN ring' : i + 0 \in DOMAIN ring /\ ring'[i] = ring[i + 0]
      OBVIOUS
    <2> QED BY <2>1, <2>2 DEF Shifted
  <1>b. ASSUME NEW n \in Nat, ring' = SubSeq(ring, n + 1, Len(ring)) PROVE Shifted
    <2>1. \A i \in DOMAIN ring' : i + n \in DOMAIN ring /\ ring'[i] = ring[i + n]
      BY <1>0, <1>b
    <2> QED BY <2>1 DEF Shifted
  <1>1. CASE HostBegin \/ HostAnswered \/ HostGivesUp
    BY <1>a, <1>1, QueueKept DEF HostBegin, HostAnswered, HostGivesUp, ringVars, histVars
  <1>2. CASE SpiBegin \/ SpiEnd
    <2>1. /\ ring' = ring /\ answers' = answers /\ task' = task
          /\ spi'.pc # "send"
      BY <1>0, <1>2 DEF SpiBegin, SpiEnd, SpiUnchanged, ringVars, histVars, SpiOK, Spis
    <2> QED BY <1>a, <2>1, QueueKept
  <1>3. CASE SpiTransfer
    <2>1. /\ HasData /\ Fetched /\ msgs' = msgs /\ ring' = ring /\ answers' = answers
          /\ task' = task /\ spi.pc = "xfer" /\ spi'.unit = NextUnit
      BY <1>3 DEF SpiTransfer, SpiUnchanged, ringVars, histVars
    <2>2. \A u \in Units : InFlight(u)' => u = NextUnit
      BY <2>1 DEF InFlight, Mutex, Sending
    <2> QED BY <2>1, <2>2, QueueFetched
  <1>4. CASE SpiStore
    <2>1. task' = task /\ answers' = answers /\ spi.pc = "send"
      BY <1>4 DEF SpiStore, SpiUnchanged, histVars
    <2>2. CASE UNCHANGED <<ring, spi>>
      BY <1>a, <2>1, <2>2, QueueKept
    <2>3. CASE Room /\ ring' = Append(ring, spi.unit) /\ spi' = [pc |-> "xfer", unit |-> NoUnit]
      <3>1. InFlight(spi.unit)
        BY <2>1 DEF InFlight
      <3>2. \A w \in Units : ~InFlight(w)'
        BY <2>1, <2>3 DEF InFlight, Mutex, Sending
      <3> QED BY <1>0, <2>1, <2>3, <3>1, <3>2, QueueStored
    <2> QED BY <1>4, <2>2, <2>3 DEF SpiStore
  <1>5. CASE TimerFires \/ TimerClears
    <2>1. /\ ring' = ring \/ ring' = <<>>
          /\ answers' = answers /\ spi' = spi
          /\ task'.pc = task.pc /\ task'.cmd = task.cmd /\ task'.unit = task.unit
      BY <1>0, <1>5 DEF TimerFires, TimerClears, ringVars, histVars, TaskOK, Tasks
    <2> QED BY <1>a, <2>1, QueueKept
  <1>6. CASE Wake \/ AwaitHeader \/ ReadPacket \/ ReadNothing
    <2>1. /\ ring' = ring /\ answers' = answers /\ spi' = spi
          /\ task'.pc # "store" /\ task'.cmd = task.cmd
      BY <1>0, <1>6 DEF Wake, AwaitHeader, ReadPacket, ReadNothing, Continue, TaskUnchanged,
         ringVars, histVars, TaskOK, Tasks
    <2> QED BY <1>a, <2>1, QueueKept
  <1>7. CASE ReadHeader
    <2>0. answers' = answers /\ spi' = spi /\ Len(ring) >= HeaderSize
      BY <1>7 DEF ReadHeader, TaskUnchanged, histVars
    <2>1. CASE ring' = <<>> /\ task' = task
      BY <1>a, <2>0, <2>1, QueueKept
    <2>2. CASE ~(ring' = <<>> /\ task' = task)
      <3>1. PICK l \in {"wait", "loop"} :
              /\ IsHeader(SubSeq(ring, 1, HeaderSize))
              /\ ring' = SubSeq(ring, HeaderSize + 1, Len(ring))
              /\ task' = [task EXCEPT !.pc = l, !.cmd = SubSeq(ring, 1, HeaderSize)[1][1],
                                      !.recv = 0]
        BY <1>7, <2>2 DEF ReadHeader, Continue
      <3>2. PICK i \in DOMAIN msgs : SubSeq(ring, 1, HeaderSize) = [k \in 1 .. HeaderSize |-> <<i, k>>]
        BY <3>1 DEF IsHeader
      <3>3. SubSeq(ring, 1, HeaderSize)[1][1] = i
        BY <1>0, <3>2
      <3>4. task'.cmd = i /\ task'.pc # "store"
        BY <1>0, <3>1, <3>3 DEF TaskOK, Tasks
      <3>5. \A u \in Units : InFlight(u)' => InFlight(u)
        BY <2>0, <3>4 DEF InFlight
      <3> QED BY <2>0, <3>1, <3>2, <3>4, <3>5, QueueParsed
    <2> QED BY <2>1, <2>2
  <1>8. CASE ReturnItem
    <2>1. /\ ring' = SubSeq(ring, task.n + 1, Len(ring)) /\ answers' = answers /\ spi' = spi
          /\ task'.pc # "store" /\ task'.cmd = task.cmd
      BY <1>0, <1>8 DEF ReturnItem, Continue, TaskUnchanged, histVars, TaskOK, Tasks
    <2> QED BY <1>0, <1>b, <2>1, QueueKept
  <1>9. CASE Function
    <2>1. ring' = ring /\ answers' = answers /\ spi' = spi /\ FnMoves
      BY <1>9, FunctionMoves DEF FnUnchanged, ringVars, histVars
    <2>2. task'.pc # "store" /\ task'.cmd = task.cmd
      BY <1>0, <2>1 DEF FnMoves, Go, Reply, TaskOK, Tasks
    <2> QED BY <1>a, <2>1, <2>2, QueueKept
  <1>10. CASE ReplyBegin
    <2>1. /\ ring' = ring /\ answers' = answers /\ spi' = spi
          /\ task'.pc # "store" /\ task'.cmd = task.cmd
      BY <1>0, <1>10 DEF ReplyBegin, SendUnchanged, ringVars, TaskOK, Tasks
    <2> QED BY <1>a, <2>1, QueueKept
  <1>11. CASE ReplyFetches
    <2>1. /\ HasData /\ Fetched /\ msgs' = msgs /\ ring' = ring /\ answers' = answers
          /\ task'.cmd = task.cmd /\ task.pc = "sending" /\ spi' = spi /\ task'.unit = NextUnit
      BY <1>0, <1>11 DEF ReplyFetches, SendUnchanged, ringVars, TaskOK, Tasks
    <2>2. \A u \in Units : InFlight(u)' => u = NextUnit
      BY <2>1 DEF InFlight, Mutex, Sending
    <2> QED BY <2>1, <2>2, QueueFetched
  <1>12. CASE ReplyStore
    <2>1. /\ answers' = answers /\ spi' = spi /\ task.pc = "store" /\ task'.pc = "sending"
          /\ task'.cmd = task.cmd /\ ring' = Append(ring, task.unit)
      BY <1>0, <1>12 DEF ReplyStore, SendUnchanged, TaskOK, Tasks
    <2>2. InFlight(task.unit)
      BY <2>1 DEF InFlight
    <2>3. \A w \in Units : ~InFlight(w)'
      BY <2>1 DEF InFlight, Mutex, Sending
    <2> QED BY <1>0, <2>1, <2>2, <2>3, QueueStored
  <1>13. CASE ReplyEnd
    <2>1. /\ answers' = Append(answers, <<task.cmd, task.status>>) /\ spi' = spi /\ ring' = ring
          /\ task'.pc = task.next /\ task'.cmd = task.cmd
      BY <1>0, <1>13 DEF ReplyEnd, SendUnchanged, ringVars, TaskOK, Tasks
    <2>2. task'.pc # "store"
      BY <1>0, <2>1 DEF TaskOK, Tasks
    <2>3. \A u \in Units : InFlight(u)' => InFlight(u)
      BY <2>1, <2>2 DEF InFlight
    <2> QED BY <2>1, <2>3, QueueAnswered
  <1>14. CASE Restarts
    <2>1. Restart
      BY <1>14, RestartEffect
    <2>2. /\ ring' = <<>> /\ answers' = answers /\ spi'.pc = "wait" /\ task'.pc = "wait"
          /\ task'.cmd = 0
      BY <2>1 DEF Restart, TaskInit
    <2> QED BY <1>a, <2>2, QueueKept
  <1>15. CASE UNCHANGED vars
    BY <1>a, <1>15, QueueKept DEF vars, ringVars, histVars
  <1> QED
    BY <1>1, <1>2, <1>3, <1>4, <1>5, <1>6, <1>7, <1>8, <1>9, <1>10, <1>11, <1>12, <1>13, <1>14,
       <1>15 DEF Step

(* Messages are answered after all that were answered before.              *)
LEMMA RepliesStep ==
    ASSUME Typed, Typed', Step, Queue, Replies
    PROVE  Replies'
  <1>0. /\ TaskOK /\ TaskOK' /\ MsgsOK /\ task.cmd \in 0 .. Len(msgs) /\ task.recv \in Nat
        /\ task.n \in Nat /\ Len(msgs) \in Nat /\ Len(answers) \in Nat
        /\ answers \in Seq((1 .. MaxMsgs) \X {"ok", "er"}) /\ MaxMsgs \in Nat
    BY FsOverBusAssumption DEF Typed, TaskOK, Tasks, MsgsOK, AnswersOK
  <1>m. task.cmd # 0 => msgs'[task.cmd] = msgs[task.cmd]
    <2>1. msgs' = msgs \/ \E m \in Shapes : msgs' = Append(msgs, m)
      BY HostStep
    <2> QED BY <1>0, <2>1 DEF MsgsOK
  <1>a. ASSUME answers' = answers, task'.cmd = task.cmd, task'.recv = task.recv,
               task'.pc \in ReplyPcs \cup {"handle"} => AwaitsAnswer,
               task'.pc \in ReplyPcs => task.cmd # 0 /\ task.recv = Size(task.cmd)
        PROVE  Replies'
    <2>1. AwaitsAnswer' => AwaitsAnswer
      BY <1>m, <1>a DEF AwaitsAnswer, Size
    <2>2. Unanswered' /\ AnsweredOnce'
      BY <1>a, <2>1 DEF Replies, Unanswered, AnsweredOnce
    <2>3. WholeReply'
      BY <1>m, <1>a DEF WholeReply, Size
    <2> QED BY <2>2, <2>3 DEF Replies
  <1>b. ASSUME answers' = answers, task'.cmd = task.cmd, task'.recv = task.recv,
               task'.pc \notin ReplyPcs \cup {"handle"}
        PROVE  Replies'
    BY <1>a, <1>b
  <1>c. ASSUME answers' = answers, task'.cmd = task.cmd, task'.recv = task.recv,
               task'.pc = task.pc
        PROVE  Replies'
    <2>1. task.pc \in ReplyPcs \cup {"handle"} => AwaitsAnswer /\ task.cmd # 0
      BY <1>0 DEF AwaitsAnswer, TaskOK, ReplyPcs
    <2> QED BY <1>a, <1>c, <2>1 DEF Replies, WholeReply
  <1>1. CASE HostBegin \/ HostAnswered \/ HostGivesUp \/ SpiBegin \/ SpiTransfer \/ SpiStore
             \/ SpiEnd \/ UNCHANGED vars
    BY <1>c, <1>1 DEF HostBegin, HostAnswered, HostGivesUp, SpiBegin, SpiTransfer, SpiStore,
       SpiEnd, SpiUnchanged, histVars, vars
  <1>2. CASE TimerFires \/ TimerClears
    <2>1. /\ answers' = answers /\ task'.cmd = task.cmd /\ task'.recv = task.recv
          /\ task'.pc = task.pc
      BY <1>0, <1>2 DEF TimerFires, TimerClears, histVars, TaskOK, Tasks
    <2> QED BY <1>c, <2>1
  <1>3. CASE Wake \/ AwaitHeader \/ ReadNothing \/ ReturnItem
    <2>1. /\ answers' = answers /\ task'.cmd = task.cmd /\ task'.recv = task.recv
          /\ task'.pc \in {"wait", "loop"}
      BY <1>0, <1>3 DEF Wake, AwaitHeader, ReadNothing, ReturnItem, Continue, TaskUnchanged,
         histVars, TaskOK, Tasks
    <2> QED BY <1>b, <2>1 DEF ReplyPcs
  <1>4. CASE ReadHeader
    <2>0. answers' = answers /\ spi' = spi /\ Len(ring) >= HeaderSize
      BY <1>4 DEF ReadHeader, TaskUnchanged, histVars
    <2>1. CASE task' = task
      BY <1>c, <2>0, <2>1
    <2>2. CASE task' # task
      <3>0. HeaderSize \in Nat /\ HeaderSize >= 1 /\ ring \in Seq(Units)
        BY FsOverBusAssumption DEF Typed, RingOK
      <3>1. PICK l \in {"wait", "loop"} :
              /\ IsHeader(SubSeq(ring, 1, HeaderSize))
              /\ ring' = SubSeq(ring, HeaderSize + 1, Len(ring))
              /\ task' = [task EXCEPT !.pc = l, !.cmd = SubSeq(ring, 1, HeaderSize)[1][1],
                                      !.recv = 0]
        BY <1>4, <2>2 DEF ReadHeader, Continue
      <3>2. PICK i \in DOMAIN msgs : SubSeq(ring, 1, HeaderSize) = [k \in 1 .. HeaderSize |-> <<i, k>>]
        BY <3>1 DEF IsHeader
      <3>3. SubSeq(ring, 1, HeaderSize)[1][1] = i
        BY <3>0, <3>2
      <3>4. task'.cmd = i /\ task'.pc \in {"wait", "loop"}
        BY <1>0, <3>1, <3>3 DEF TaskOK, Tasks
      <3>5. \A u \in Units : InFlight(u)' => InFlight(u)
        BY <2>0, <3>4 DEF InFlight
      <3>6. \A a \in DOMAIN answers : answers[a][1] < i
        BY <2>0, <3>1, <3>2, <3>4, <3>5, QueueParsed
      <3>7. Unanswered' /\ AnsweredOnce'
        BY <2>0, <3>4, <3>6 DEF Unanswered, Replies, AnsweredOnce
      <3>8. WholeReply'
        BY <3>4 DEF WholeReply, ReplyPcs
      <3> QED BY <3>7, <3>8 DEF Replies
    <2> QED BY <2>1, <2>2
  <1>5. CASE ReadPacket
    <2>1. /\ answers' = answers /\ task.cmd # 0 /\ receiving
      BY <1>0, <1>5 DEF ReadPacket, TaskUnchanged, histVars, TaskOK
    <2>2. PICK n \in 1 .. Least(MaxRead, Len(ring)) :
            task' = [task EXCEPT !.pc = "handle", !.n = n, !.recv = @ + n]
      BY <1>5 DEF ReadPacket
    <2>3. Size(task.cmd) \in Nat /\ RdBuf \in Nat /\ Len(ring) \in Nat
      <3>1. msgs[task.cmd] \in Shapes
        BY <1>0, <2>1 DEF MsgsOK
      <3>2. Size(task.cmd) \in Nat
        BY <3>1, FsOverBusAssumption DEF Size
      <3> QED BY <3>2, FsOverBusAssumption DEF Typed, RingOK
    <2>4. task.recv < Size(task.cmd)
      BY <1>0, <2>2, <2>3 DEF Least, MaxRead
    <2>5. task'.cmd = task.cmd /\ task'.pc = "handle"
      BY <1>0, <2>2 DEF TaskOK, Tasks
    <2>6. Unanswered' /\ AnsweredOnce'
      BY <2>1, <2>4, <2>5 DEF Unanswered, AwaitsAnswer, Replies, AnsweredOnce
    <2>7. WholeReply'
      BY <2>5 DEF WholeReply, ReplyPcs
    <2> QED BY <2>6, <2>7 DEF Replies
  <1>6. CASE Function
    <2>1. FnMoves /\ answers' = answers /\ task.pc \notin {"wait", "loop"}
      BY <1>6, FunctionMoves DEF FnUnchanged, histVars
    <2>2. task'.cmd = task.cmd /\ task'.recv = task.recv /\ task.cmd # 0
      BY <1>0, <2>1 DEF FnMoves, Go, Reply, TaskOK, Tasks
    <2>3. CASE task'.pc \in {"return", "delay", "remove", "rename"}
      BY <1>b, <2>1, <2>2, <2>3 DEF ReplyPcs
    <2>4. CASE task'.pc \notin {"return", "delay", "remove", "rename"}
      <3>1. task.pc \in {"copy", "unlink"} \/ (task.pc = "handle" /\ Whole)
        BY <1>0, <2>1, <2>4 DEF FnMoves, Go, TaskOK, Tasks
      <3>2. AwaitsAnswer /\ task.recv = Size(task.cmd)
        BY <2>2, <3>1 DEF AwaitsAnswer, Replies, WholeReply, ReplyPcs, Whole
      <3> QED BY <1>a, <2>1, <2>2, <3>2
    <2> QED BY <2>3, <2>4
  <1>7. CASE ReplyBegin \/ ReplyFetches \/ ReplyStore
    <2>1. /\ answers' = answers /\ task'.cmd = task.cmd /\ task'.recv = task.recv
          /\ task.pc \in {"reply", "sending", "store"} /\ task.cmd # 0
      BY <1>0, <1>7 DEF ReplyBegin, ReplyFetches, ReplyStore, TaskOK, Tasks
    <2>2. AwaitsAnswer /\ task.recv = Size(task.cmd)
      BY <2>1 DEF AwaitsAnswer, Replies, WholeReply, ReplyPcs
    <2> QED BY <1>a, <2>1, <2>2
  <1>8. CASE ReplyEnd
    <2>1. /\ answers' = Append(answers, <<task.cmd, task.status>>) /\ task.pc = "sending"
          /\ task'.cmd = task.cmd /\ task'.recv = task.recv /\ task'.pc = task.next
      BY <1>0, <1>8 DEF ReplyEnd, TaskOK, Tasks
    <2>2. task'.pc \in {"wait", "close", "sleep", "return"} /\ task.cmd # 0
      BY <1>0, <2>1 DEF TaskOK, Tasks
    <2>3. task.recv = Size(task.cmd) /\ \A a \in DOMAIN answers : answers[a][1] < task.cmd
      BY <2>1, <2>2 DEF Replies, WholeReply, Unanswered, AwaitsAnswer, ReplyPcs
    <2>4. msgs'[task'.cmd] = msgs[task.cmd] /\ task.cmd \in 1 .. Len(msgs)
      BY <1>0, <1>m, <2>1, <2>2
    <2>5. msgs[task.cmd].name + msgs[task.cmd].data \in Nat
      BY <1>0, <2>4, FsOverBusAssumption DEF MsgsOK
    <2>6. ~AwaitsAnswer'
      BY <2>1, <2>2, <2>3, <2>4, <2>5 DEF AwaitsAnswer, ReplyPcs, Size
    <2>7. WholeReply'
      BY <2>2 DEF WholeReply, ReplyPcs
    <2>8. AnsweredOnce'
      <3>1. /\ DOMAIN answers' = 1 .. Len(answers) + 1 /\ Len(answers') = Len(answers) + 1
            /\ \A a \in 1 .. Len(answers) : answers'[a] = answers[a]
            /\ answers'[Len(answers) + 1][1] = task.cmd
        BY <1>0, <2>1
      <3>2. ASSUME NEW a \in 2 .. Len(answers') PROVE answers'[a - 1][1] < answers'[a][1]
        <4>1. CASE a \in 2 .. Len(answers)
          <5>1. a - 1 \in 1 .. Len(answers) /\ a \in 1 .. Len(answers)
            BY <1>0, <4>1
          <5>2. answers[a - 1][1] < answers[a][1]
            BY <4>1 DEF Replies, AnsweredOnce
          <5> QED BY <3>1, <5>1, <5>2
        <4>2. CASE a = Len(answers) + 1
          <5>1. a - 1 \in 1 .. Len(answers) /\ a - 1 \in DOMAIN answers
            BY <1>0, <3>1, <3>2, <4>2
          <5> QED BY <2>3, <3>1, <4>2, <5>1
        <4> QED BY <1>0, <3>1, <4>1, <4>2
      <3> QED BY <3>2 DEF AnsweredOnce
    <2> QED BY <2>6, <2>7, <2>8 DEF Replies, Unanswered
  <1>9. CASE Restarts
    <2>1. Restart
      BY <1>9, RestartEffect
    <2>2. answers' = answers /\ task'.pc = "wait" /\ task'.cmd = 0
      BY <2>1 DEF Restart, TaskInit
    <2> QED BY <2>2 DEF Replies, Unanswered, AwaitsAnswer, WholeReply, ReplyPcs, AnsweredOnce
  <1> QED
    BY <1>1, <1>2, <1>3, <1>4, <1>5, <1>6, <1>7, <1>8, <1>9 DEF Step

LEMMA Initially == ASSUME Init PROVE IInv
  <1>1. Typed
    BY TypedInit
  <1>2. Mutex /\ Replies
    BY DEF Init, TaskInit, Mutex, Replies, Unanswered, AwaitsAnswer, WholeReply, ReplyPcs,
       AnsweredOnce
  <1>3. Queue
    BY DEF Init, HostIdle, TaskInit, Queue, RingOrder, RingAbove, Flying, InFlight, Entered, Top
  <1> QED BY <1>1, <1>2, <1>3 DEF IInv

LEMMA Inductive == ASSUME IInv, [Next]_vars PROVE IInv'
  <1>1. Typed /\ Typed' /\ Step
    BY TypedStep, StepsOfNext DEF IInv
  <1> QED BY <1>1, MutexStep, QueueStep, RepliesStep DEF IInv

(* Messages are answered once at most, and in their order, for a ring, a   *)
(* header and packets of any size and whatever times out, restarts or      *)
(* gives up: fsob_task answers under the id it parsed last (sendok and     *)
(* sender), and parses the headers in the order in which they were fetched *)
(* (by stm32_task, or by itself within a reply).                           *)
THEOREM MessagesAnsweredOnce == Spec => []AnsweredOnce
  <1>1. Init => IInv
    BY Initially
  <1>2. IInv /\ [Next]_vars => IInv'
    BY Inductive
  <1>3. IInv => AnsweredOnce
    BY DEF IInv, Replies
  <1> QED BY <1>1, <1>2, <1>3, PTL DEF Spec


---------------------------------------------------------------------------
(* FilesWhole.  Its invariant says what an open upload has counted so far, *)
(* what a torn file is torn by, in which order units come, and, while no   *)
(* host began anew too early, that only the last message is in the stream  *)
(* and that a unit it misses once is missing in all that follows.          *)

(* How much of the message the functions have seen; whether it is an open  *)
(* upload; the states in which all of that upload is in its .tmp file.     *)
Received == IF task.pc = "handle" THEN task.recv - task.n ELSE task.recv
Uploading == task.cmd # 0 /\ Cmd.kind = "writefile" /\ fptr # NULL /\ Received > 0
ReplyingPcs == {"reply", "sending", "store"}
Closing == \/ task.pc \in {"close", "remove", "rename"}
           \/ task.pc \in ReplyingPcs /\ task.next = "close"

(* Counted: the .tmp file has as many units as were received after the     *)
(* name, and a file as many as its upload.                                 *)
PacketOK ==
  /\ task.pc = "handle" => task.n \in 1 .. task.recv /\ ~task.stale
  /\ task.pc \in {"wait", "loop"} => task.n = 0 /\ ~task.stale
  /\ task.pc \in ReplyingPcs => task.next # "wait"
  /\ ~task.stale => task.n <= Len(ring)
UploadCounted ==
  /\ Uploading => /\ tmp[fptr].id = task.cmd /\ fptr = Cmd.file
                  /\ tmp[fptr].len + Cmd.name = Received
  /\ Closing => Uploading /\ Whole
FilesCounted == \A f \in Files : files[f] # NoFile /\ ~files[f].cut =>
  files[f].id \in DOMAIN msgs /\ files[f].len = msgs[files[f].id].data
Counted == PacketOK /\ UploadCounted /\ FilesCounted

(* The stream: what waits in the ring, and the unit about to be stored.    *)
InAir == spi.pc = "send" \/ task.pc = "store"
AirUnit == IF spi.pc = "send" THEN spi.unit ELSE task.unit
Stream == IF InAir THEN Append(ring, AirUnit) ELSE ring

(* Copied: what is torn was torn by a copy that still is written, or by    *)
(* one that is over and is never answered with ok.                         *)
Passed(i) == /\ i <= Top
             /\ \A j \in DOMAIN Stream : Start(Stream[j]) => Stream[j][1] > i
Spoiled(i) == /\ i \in DOMAIN msgs /\ msgs[i].kind \in Copies
              /\ ~Answered(i, "ok")
              /\ Passed(i)
              /\ AwaitsAnswer /\ task.cmd = i => task.pc \in ReplyingPcs /\ task.status = "er"
Copying == task.pc \in {"copy", "unlink"} => Cmd.kind \in Copies /\ Cmd.file # Cmd.to
TornExplained == \A f \in Files :
  /\ files[f].cut => (task.pc = "copy" /\ Cmd.to = f) \/ \E i \in DOMAIN msgs : Spoiled(i)
  /\ ~tmp[f].cut
Copied == Copying /\ TornExplained

(* Order: the stream is a part of what the host sent, in its order, so the *)
(* units of a message are at least as far apart as their places in it.     *)
Follows(u, v, d) == u[1] < v[1] \/ (u[1] = v[1] /\ u[2] + d <= v[2])
Steady == \A i, j \in DOMAIN Stream : i < j => Follows(Stream[i], Stream[j], j - i)
Behind == \A i \in DOMAIN Stream : Follows(Stream[i], <<Len(msgs), host.k>>, Len(Stream) - i)
Genuine == /\ \A i \in DOMAIN Stream : /\ Stream[i][1] \in DOMAIN msgs
                                       /\ Stream[i][2] <= HeaderSize + Size(Stream[i][1])
           /\ host.pc = "sending" => host.k < HeaderSize + Size(Len(msgs))
Order == Steady /\ Behind /\ Genuine

(* Calm: as long as no host began anew too early, only units of the last   *)
(* message come after the packet, none once it is answered, and the        *)
(* message that is received is the last.  Base is the unit before the      *)
(* packet; a unit that came in for one that was lost (Gap) leaves too few  *)
(* for the rest, so the message is never whole and its file never renamed. *)
Served == msgs = <<>> \/ \E a \in DOMAIN answers : answers[a][1] = Len(msgs)
Patient == host.pc = "idle" /\ ~host.gaveup => Served
Latest == \A i \in DOMAIN Stream : i > task.n => Stream[i][1] = Len(msgs)
Finished == Served \/ task.pc \in ReplyPcs =>
  host.pc # "sending" /\ Len(Stream) <= task.n
Attending == /\ task.cmd # 0 /\ ~task.stale
             /\ receiving \/ Holding
             /\ task.pc = "handle" \/ task.recv < Size(task.cmd)
Current == (receiving \/ Holding) /\ AwaitsAnswer => task.cmd = Len(msgs)
Gap == IF Uploading /\ ~tmp[fptr].pure THEN 1 ELSE 0
Base == HeaderSize + task.recv - task.n
InStep == Attending =>
  /\ \A i \in DOMAIN Stream : task.pc = "handle" \/ i > task.n =>
       Stream[i][1] = task.cmd /\ Stream[i][2] >= Base + i + Gap
  /\ host.k >= Base + Len(Stream) + Gap
Purely == (\A f \in Files : files[f].pure) /\ (Closing => tmp[fptr].pure)
Calmly == Patient /\ Latest /\ Finished /\ Current /\ InStep /\ Purely
Calm == ~hasty => Calmly

FInv == IInv /\ Counted /\ Copied /\ Order /\ Calm

---------------------------------------------------------------------------
(* Units that are counted.                                                 *)

(* Messages are never changed.                                             *)
LEMMA MsgsKept ==
    ASSUME Typed, Step
    PROVE  \A i \in DOMAIN msgs : i \in DOMAIN msgs' /\ msgs'[i] = msgs[i] /\ Size(i)' = Size(i)
                                  /\ i # 0 /\ Size(i) \in Nat
                                  /\ msgs[i].name \in Nat /\ msgs[i].data \in Nat
                                  /\ msgs[i].file \in Files /\ msgs[i].to \in Files
  <1>1. msgs \in Seq(Shapes) /\ (msgs' = msgs \/ \E m \in Shapes : msgs' = Append(msgs, m))
    BY HostStep DEF Typed, MsgsOK
  <1>2. ASSUME NEW i \in DOMAIN msgs
        PROVE  i \in DOMAIN msgs' /\ msgs'[i] = msgs[i] /\ i # 0 /\ msgs[i] \in Shapes
    BY <1>1
  <1> QED BY <1>2, FsOverBusAssumption DEF Size

(* The message that is parsed, and how much of it.                         *)
LEMMA CmdTyped ==
    ASSUME Typed
    PROVE  /\ task.cmd \in Nat /\ task.recv \in Nat /\ task.n \in Nat
           /\ Len(msgs) \in Nat /\ DOMAIN msgs = 1 .. Len(msgs)
           /\ task.cmd # 0 => /\ task.cmd \in DOMAIN msgs /\ task.recv <= Size(task.cmd)
                              /\ Size(task.cmd) \in Nat
                              /\ Size(task.cmd) = Cmd.name + Cmd.data
                              /\ Cmd.name \in Nat /\ Cmd.data \in Nat
                              /\ Cmd.file \in Files /\ Cmd.to \in Files
           /\ task.pc \notin {"wait", "loop"} => task.cmd # 0
  <1>1. /\ msgs \in Seq(Shapes) /\ Len(msgs) \in Nat /\ task \in Tasks(Len(msgs))
        /\ task.cmd # 0 => task.recv <= Size(task.cmd)
        /\ task.pc \notin {"wait", "loop"} => task.cmd # 0
    BY DEF Typed, MsgsOK, TaskOK
  <1>2. task.cmd # 0 => task.cmd \in DOMAIN msgs /\ msgs[task.cmd] \in Shapes
    BY <1>1 DEF Tasks
  <1> QED BY <1>1, <1>2, FsOverBusAssumption DEF Size, Cmd, Tasks

(* Counted is kept: the packet,                                            *)
LEMMA PacketStep ==
    ASSUME Typed, Typed', Step, PacketOK
    PROVE  PacketOK'
  <1>0. /\ task \in Tasks(Len(msgs)) /\ task.recv \in Nat /\ task.n \in Nat
        /\ ring \in Seq(Units) /\ Len(ring) \in Nat /\ HeaderSize \in Nat
    BY CmdTyped, FsOverBusAssumption DEF Typed, TaskOK, RingOK
  <1>a. ASSUME NEW u \in Units, ring' = Append(ring, u) PROVE Len(ring') = Len(ring) + 1
    BY <1>0, <1>a
  <1>1. CASE HostBegin \/ HostAnswered \/ HostGivesUp \/ SpiBegin \/ SpiTransfer \/ SpiStore
             \/ SpiEnd \/ TimerFires \/ UNCHANGED vars
    <2>1. task' = task /\ (ring' = ring \/ \E u \in Units : ring' = Append(ring, u))
      BY <1>1 DEF Typed, SpiOK, Spis, HostBegin, HostAnswered, HostGivesUp, SpiBegin, SpiTransfer,
         SpiStore, SpiEnd, SpiUnchanged, TimerFires, vars, ringVars
    <2> QED BY <1>0, <1>a, <2>1 DEF PacketOK, ReplyingPcs
  <1>2. CASE TimerClears
    <2>1. /\ task'.pc = task.pc /\ task'.n = task.n /\ task'.recv = task.recv
          /\ task'.next = task.next /\ task'.stale = Holding /\ ring' = <<>>
      BY <1>0, <1>2 DEF TimerClears, Tasks
    <2>0. task.pc # "handle"
      BY <1>2 DEF TimerClears, CoreIdle
    <2>2. CASE Holding
      <3>1. task'.stale
        BY <2>1, <2>2, Zenon
      <3> QED BY <2>0, <2>1, <2>2, <3>1 DEF PacketOK, Holding, ReplyingPcs
    <2>3. CASE ~Holding
      <3>1. task'.pc \in {"wait", "loop"} /\ task'.n = 0 /\ Len(ring') = 0
        BY <2>1, <2>3 DEF PacketOK, Holding
      <3>2. ~task'.stale
        BY <2>1, <2>3, Zenon
      <3> QED BY <3>1, <3>2 DEF PacketOK, ReplyingPcs
    <2> QED BY <2>2, <2>3
  <1>3. CASE Wake \/ AwaitHeader \/ ReadNothing
    BY <1>0, <1>3 DEF Wake, AwaitHeader, ReadNothing, Continue, Tasks, PacketOK, ReplyingPcs,
       ringVars
  <1>4. CASE ReadHeader \/ ReturnItem
    <2>1. /\ task'.pc \in {"wait", "loop"} /\ task'.n = 0 /\ ~task'.stale
          /\ ring' \in Seq(Units)
      BY <1>0, <1>4 DEF ReadHeader, ReturnItem, Continue, Tasks, PacketOK, Typed, RingOK
    <2> QED BY <2>1 DEF PacketOK, ReplyingPcs
  <1>5. CASE ReadPacket
    <2>1. PICK n \in 1 .. Least(MaxRead, Len(ring)) :
            task' = [task EXCEPT !.pc = "handle", !.n = n, !.recv = @ + n]
      BY <1>5 DEF ReadPacket
    <2>2. /\ task'.pc = "handle" /\ task'.n = n /\ task'.recv = task.recv + n /\ ring' = ring
          /\ ~task'.stale
      BY <1>0, <1>5, <2>1 DEF ReadPacket, ringVars, Tasks, PacketOK
    <2>3. task'.n \in Nat /\ n >= 1
      BY <2>1, CmdTyped DEF Typed, TaskOK, Tasks
    <2>4. n <= Len(ring)
      <3>1. MaxRead \in Nat
        <4>1. receiving /\ RdBuf \in Nat
          BY <1>5, FsOverBusAssumption DEF ReadPacket
        <4>2. task.cmd # 0
          BY <4>1 DEF Typed, TaskOK
        <4>3. Size(task.cmd) \in Nat /\ task.recv <= Size(task.cmd)
          BY <4>2, CmdTyped
        <4> QED BY <1>0, <4>1, <4>3 DEF MaxRead, Least
      <3> QED BY <1>0, <2>1, <3>1 DEF Least
    <2> QED BY <1>0, <2>2, <2>3, <2>4 DEF PacketOK, ReplyingPcs
  <1>6. CASE Function
    <2>1. FnMoves /\ ring' = ring
      BY <1>6, FunctionMoves DEF FnUnchanged, ringVars
    <2> QED BY <1>0, <2>1 DEF FnMoves, Go, Reply, Tasks, PacketOK, ReplyingPcs
  <1>7. CASE ReplyBegin \/ ReplyFetches \/ ReplyStore \/ ReplyEnd
    <2>1. ring' = ring \/ ring' = Append(ring, task.unit)
      BY <1>7 DEF ReplyBegin, ReplyFetches, ReplyStore, ReplyEnd, ringVars
    <2>2. Len(ring') >= Len(ring)
      BY <1>0, <1>a, <2>1 DEF Tasks
    <2>3. /\ task'.n = task.n /\ task'.stale = task.stale /\ task.pc \in ReplyingPcs
          /\ \/ task'.pc \in ReplyingPcs /\ task'.next = task.next
             \/ task'.pc = task.next /\ task'.pc \in {"wait", "close", "sleep", "return"}
      BY <1>0, <1>7 DEF ReplyBegin, ReplyFetches, ReplyStore, ReplyEnd, Tasks, ReplyingPcs
    <2> QED BY <1>0, <2>2, <2>3, CmdTyped DEF PacketOK, ReplyingPcs, Typed, RingOK
  <1>8. CASE Restarts
    BY <1>8, RestartEffect DEF Restart, TaskInit, PacketOK, ReplyingPcs
  <1> QED
    BY <1>1, <1>2, <1>3, <1>4, <1>5, <1>6, <1>7, <1>8 DEF Step

(* the open upload, which is begun, grown or dropped by writefile only,    *)
LEMMA UploadStep ==
    ASSUME Typed, Typed', Step, PacketOK, UploadCounted
    PROVE  UploadCounted'
  <1>0. task \in Tasks(Len(msgs))
    BY DEF Typed, TaskOK
  <1>m. task.cmd # 0 => msgs'[task.cmd] = msgs[task.cmd]
    BY CmdTyped, MsgsKept
  <1>a. ASSUME UNCHANGED <<fptr, tmp>>, task'.cmd = task.cmd, task'.recv = task.recv,
               Received' = Received, Closing' => Closing
        PROVE  UploadCounted'
    <2>1. task.cmd # 0 => Cmd' = Cmd
      BY <1>m, <1>a DEF Cmd
    <2>2. Uploading' <=> Uploading
      BY <1>a, <2>1 DEF Uploading
    <2>3. Uploading => (Whole' <=> Whole)
      BY <1>m, <1>a DEF Uploading, Whole, Size
    <2> QED BY <1>a, <2>1, <2>2, <2>3 DEF UploadCounted, Uploading
  <1>b. ASSUME ~Uploading', ~Closing' PROVE UploadCounted'
    BY <1>b DEF UploadCounted
  <1>1. CASE HostBegin \/ HostAnswered \/ HostGivesUp \/ SpiBegin \/ SpiTransfer \/ SpiStore
             \/ SpiEnd \/ TimerFires \/ TimerClears \/ UNCHANGED vars
    <2>1. UNCHANGED <<fptr, tmp>>
      BY <1>1 DEF HostBegin, HostAnswered, HostGivesUp, SpiBegin, SpiTransfer, SpiStore, SpiEnd,
         SpiUnchanged, TimerFires, TimerClears, fileVars, vars
    <2>2. /\ task'.cmd = task.cmd /\ task'.recv = task.recv /\ task'.n = task.n
          /\ task'.pc = task.pc /\ task'.next = task.next
      BY <1>0, <1>1 DEF HostBegin, HostAnswered, HostGivesUp, SpiBegin, SpiTransfer, SpiStore,
         SpiEnd, SpiUnchanged, TimerFires, TimerClears, vars, Tasks
    <2> QED BY <1>a, <2>1, <2>2 DEF Received, Closing
  <1>2. CASE Wake \/ AwaitHeader \/ ReadNothing \/ ReturnItem
    <2>1. UNCHANGED <<fptr, tmp>>
      BY <1>2 DEF Wake, AwaitHeader, ReadNothing, ReturnItem, fileVars
    <2>2. /\ task'.cmd = task.cmd /\ task'.recv = task.recv
          /\ task'.pc \in {"wait", "loop"} /\ task.pc # "handle"
      BY <1>0, <1>2 DEF Wake, AwaitHeader, ReadNothing, ReturnItem, Continue, Tasks
    <2> QED BY <1>a, <2>1, <2>2 DEF Received, Closing, ReplyingPcs
  <1>3. CASE ReadHeader
    <2>1. CASE task' = task
      BY <1>3, <1>a, <2>1 DEF ReadHeader, fileVars, Received, Closing
    <2>2. CASE task' # task
      <3>1. task'.recv = 0 /\ task'.pc \in {"wait", "loop"}
        BY <1>0, <1>3, <2>2 DEF ReadHeader, Continue, Tasks
      <3> QED BY <1>b, <3>1 DEF Uploading, Received, Closing, ReplyingPcs
    <2> QED BY <2>1, <2>2
  <1>4. CASE ReadPacket
    <2>1. PICK n \in 1 .. Least(MaxRead, Len(ring)) :
            task' = [task EXCEPT !.pc = "handle", !.n = n, !.recv = @ + n]
      BY <1>4 DEF ReadPacket
    <2>2. /\ task'.cmd = task.cmd /\ task'.recv = task.recv + n /\ task'.n = n
          /\ task'.pc = "handle" /\ task.pc = "loop"
      BY <1>0, <1>4, <2>1 DEF ReadPacket, Tasks
    <2>3. Received' = Received
      BY <2>2, CmdTyped DEF Received
    <2>4. UNCHANGED <<fptr, tmp>> /\ (task.cmd # 0 => Cmd' = Cmd)
      BY <1>4, <1>m, <2>2 DEF ReadPacket, fileVars, Cmd
    <2>5. ~Closing' /\ (Uploading' <=> Uploading)
      BY <2>2, <2>3, <2>4 DEF Closing, ReplyingPcs, Uploading
    <2> QED BY <2>2, <2>3, <2>4, <2>5 DEF UploadCounted, Uploading
  <1>5. CASE ReplyBegin \/ ReplyFetches \/ ReplyStore \/ ReplyEnd
    <2>1. UNCHANGED <<fptr, tmp>>
      BY <1>5 DEF ReplyBegin, ReplyFetches, ReplyStore, ReplyEnd, SendUnchanged, fileVars
    <2>2. /\ task'.cmd = task.cmd /\ task'.recv = task.recv /\ task.pc \in ReplyingPcs
          /\ \/ task'.pc \in ReplyingPcs /\ task'.next = task.next
             \/ task'.pc = task.next /\ task'.pc \in {"wait", "close", "sleep", "return"}
      BY <1>0, <1>5 DEF ReplyBegin, ReplyFetches, ReplyStore, ReplyEnd, Tasks, ReplyingPcs
    <2> QED BY <1>a, <2>1, <2>2 DEF Received, Closing, ReplyingPcs
  <1>6. CASE Restarts
    <2>1. task'.cmd = 0 /\ task'.pc = "wait"
      BY <1>6, RestartEffect DEF Restart, TaskInit
    <2> QED BY <1>b, <2>1 DEF Uploading, Closing, ReplyingPcs
  <1>7. CASE Function
    <2>0. /\ UNCHANGED msgs /\ task.cmd # 0
          /\ task'.cmd = task.cmd /\ task'.recv = task.recv /\ task'.n = task.n
          /\ task'.pc # "handle"
          /\ \/ task'.next = task.next /\ task'.pc \notin ReplyingPcs
             \/ task'.pc \in ReplyingPcs
      <3>1. FnMoves /\ FnUnchanged /\ task.cmd # 0
        BY <1>7, FunctionMoves, CmdTyped
      <3> QED BY <1>0, <3>1 DEF FnMoves, Go, Reply, FnUnchanged, hostVars, Tasks, ReplyingPcs
    <2>c. Cmd' = Cmd /\ Whole' = Whole /\ Received' = task.recv /\ Size(task.cmd) \in Nat
      BY <2>0, CmdTyped DEF Cmd, Whole, Size, Received
    <2>1. CASE WriteOpen
      <3>1. /\ fptr' = Cmd.file /\ Cmd.file \in Files
            /\ tmp'[Cmd.file].id = task.cmd /\ tmp'[Cmd.file].len = task.recv - Cmd.name
            /\ Cmd.name > 0 /\ Cmd.name <= task.recv /\ Cmd.name \in Nat /\ task.recv \in Nat
            /\ Cmd.kind = "writefile" /\ NULL \notin Files
        BY <2>0, <2>1, CmdTyped, FsOverBusAssumption
           DEF WriteOpen, Writing, NameReceived, Typed, FileOK
      <3>2. Closing' => Whole
        BY <1>0, <2>1 DEF WriteOpen, Back, Reply, Tasks, Closing, ReplyingPcs
      <3> QED BY <2>0, <2>c, <3>1, <3>2 DEF UploadCounted, Uploading
    <2>2. CASE WriteMore
      <3>1. /\ ~First /\ fptr # NULL /\ fptr \in Files /\ task.pc = "handle"
            /\ tmp'[fptr].id = tmp[fptr].id /\ tmp'[fptr].len = tmp[fptr].len + task.n
            /\ fptr' = fptr /\ Cmd.kind = "writefile" /\ tmp[fptr].len \in Nat
        BY <2>2 DEF WriteMore, Writing, Opening, Typed, FileOK, Contents
      <3>2. task.n \in 1 .. task.recv /\ task.recv \in Nat /\ task.recv - task.n > 0
            /\ Cmd.name \in Nat
        BY <2>0, <3>1, CmdTyped DEF PacketOK, First
      <3>3. Uploading /\ Received = task.recv - task.n
        BY <2>0, <3>1, <3>2 DEF Uploading, Received
      <3>4. Closing' => Whole
        BY <1>0, <2>2 DEF WriteMore, Reply, Tasks, Closing, ReplyingPcs
      <3>5. fptr = Cmd.file /\ tmp[fptr].id = task.cmd /\ tmp[fptr].len + Cmd.name = task.recv - task.n
        BY <3>3 DEF UploadCounted
      <3> QED BY <2>0, <2>c, <3>1, <3>2, <3>4, <3>5 DEF UploadCounted, Uploading
    <2>3. CASE WriteNoName \/ WriteNameTooLong \/ WriteOpenFails \/ WriteFailed
      <3>1. fptr' = NULL
        BY <2>3 DEF WriteNoName, WriteNameTooLong, WriteOpenFails, WriteFailed, Opening
      <3>2. ~Closing'
        BY <1>0, <2>3 DEF WriteNoName, WriteNameTooLong, WriteOpenFails, WriteFailed, Back,
           Reply, Tasks, Closing, ReplyingPcs
      <3> QED BY <1>b, <3>1, <3>2 DEF Uploading
    <2>4. CASE Heartbeat \/ Partial \/ DelFile \/ CopyRefused \/ CopyOpen \/ ExecFile
      <3>1. Cmd.kind # "writefile"
        BY <2>4 DEF Heartbeat, Partial, DelFile, CopyRefused, CopyOpen, ExecFile, Called, Copies
      <3>2. ~Closing'
        BY <1>0, <2>4 DEF Heartbeat, Partial, DelFile, CopyRefused, CopyOpen, ExecFile, Back,
           Reply, Tasks, Closing, ReplyingPcs
      <3> QED BY <1>b, <2>c, <3>1, <3>2 DEF Uploading
    <2>5. CASE DelayOver \/ CopyWrite \/ Unlink \/ Close \/ Remove
      <3>1. UNCHANGED <<fptr, tmp>> /\ task.pc # "handle"
        BY <2>5 DEF DelayOver, CopyWrite, Unlink, Close, Remove, fileVars
      <3>2. Closing' => Closing
        BY <1>0, <2>5 DEF DelayOver, CopyWrite, Unlink, Close, Remove, Back,
           Reply, Tasks, Closing, ReplyingPcs
      <3> QED BY <1>a, <2>0, <2>c, <3>1, <3>2 DEF Received
    <2>6. CASE Rename
      <3>1. fptr' = NULL /\ task'.pc = "return"
        BY <1>0, <2>6 DEF Rename, Back, Tasks
      <3> QED BY <1>b, <3>1 DEF Uploading, Closing, ReplyingPcs
    <2> QED BY <1>7, <2>1, <2>2, <2>3, <2>4, <2>5, <2>6 DEF Function
  <1> QED
    BY <1>1, <1>2, <1>3, <1>4, <1>5, <1>6, <1>7 DEF Step

(* and the files, which a rename gives a whole upload.                     *)
LEMMA FilesCountedStep ==
    ASSUME Typed, Typed', Step, PacketOK, UploadCounted, FilesCounted
    PROVE  FilesCounted'
  <1>0. files \in [Files -> Contents] /\ tmp \in [Files -> Contents] /\ fptr \in Files \cup {NULL}
    BY DEF Typed, FileOK
  <1> DEFINE CountedIn(c) == c # NoFile /\ ~c.cut =>
                               c.id \in DOMAIN msgs /\ c.len = msgs[c.id].data
  <1>f. \A f \in Files : CountedIn(files[f])
    BY DEF FilesCounted
  <1>a. ASSUME NEW c, CountedIn(c)
        PROVE  c # NoFile /\ ~c.cut => c.id \in DOMAIN msgs' /\ c.len = msgs'[c.id].data
    BY <1>a, MsgsKept
  <1>n. CountedIn(NoFile) /\ CountedIn(Torn)
    BY DEF Torn
  <1>b. ASSUME \A f \in Files : CountedIn(files'[f]) PROVE FilesCounted'
    BY <1>a, <1>b DEF FilesCounted
  <1> HIDE DEF CountedIn
  <1>1. CASE ~Function /\ ~Restarts
    <2>1. UNCHANGED files
      BY <1>1 DEF Step, HostBegin, HostAnswered, HostGivesUp, SpiBegin, SpiTransfer, SpiStore,
         SpiEnd, SpiUnchanged, TimerFires, TimerClears, Wake, ReadHeader, AwaitHeader, ReadPacket,
         ReadNothing, ReturnItem, ReplyBegin, ReplyFetches, ReplyStore, ReplyEnd, SendUnchanged,
         fileVars, vars
    <2> QED BY <1>b, <1>f, <2>1
  <1>2. CASE Restarts
    BY <1>2, <1>b, <1>f, RestartEffect DEF Restart
  <1>3. CASE Heartbeat \/ DelayOver \/ Close \/ Partial \/ CopyRefused \/ ExecFile \/ WriteNoName
             \/ WriteNameTooLong \/ WriteOpen \/ WriteOpenFails \/ WriteMore \/ WriteFailed
    BY <1>3, <1>b, <1>f DEF Heartbeat, DelayOver, Close, Partial, CopyRefused, ExecFile, fileVars,
       WriteNoName, WriteNameTooLong, WriteOpen, WriteOpenFails, WriteMore, WriteFailed
  <1>4. CASE Remove \/ DelFile \/ Unlink
    BY <1>4, <1>0, <1>b, <1>f, <1>n DEF Remove, DelFile, Unlink
  <1>5. CASE CopyOpen
    BY <1>5, <1>0, <1>b, <1>f, <1>n DEF CopyOpen
  <1>6. CASE CopyWrite
    <2>1. Cmd.file \in Files
      BY <1>6, CmdTyped DEF CopyWrite
    <2> QED BY <1>6, <1>0, <1>b, <1>f, <2>1 DEF CopyWrite
  <1>7. CASE Rename
    <2>1. /\ Uploading /\ Whole /\ task.cmd \in DOMAIN msgs /\ Size(task.cmd) = Cmd.name + Cmd.data
          /\ task.recv \in Nat /\ Cmd.name \in Nat /\ Cmd.data \in Nat
      BY <1>7, CmdTyped DEF Rename, UploadCounted, Closing, Uploading
    <2>2. tmp[fptr].id = task.cmd /\ tmp[fptr].len + Cmd.name = task.recv /\ fptr \in Files
      BY <1>0, <1>7, <2>1 DEF Rename, UploadCounted, Uploading, Received
    <2>3. tmp[fptr].len = Cmd.data
      <3>1. tmp[fptr].len \in Nat
        BY <1>0, <2>2 DEF Contents
      <3> QED BY <2>1, <2>2, <3>1 DEF Whole
    <2>4. CountedIn(tmp[fptr])
      BY <2>1, <2>2, <2>3 DEF CountedIn, Cmd
    <2> QED BY <1>7, <1>0, <1>b, <1>f, <2>2, <2>4 DEF Rename
  <1> QED
    BY <1>1, <1>2, <1>3, <1>4, <1>5, <1>6, <1>7 DEF Function

---------------------------------------------------------------------------
(* The stream and its order.                                               *)

LEMMA StreamIs ==
    ASSUME Typed
    PROVE  /\ Stream \in Seq(Units) /\ Len(Stream) \in Nat /\ DOMAIN Stream = 1 .. Len(Stream)
           /\ ring \in Seq(Units) /\ Len(ring) \in Nat /\ DOMAIN ring = 1 .. Len(ring)
           /\ Len(Stream) = IF InAir THEN Len(ring) + 1 ELSE Len(ring)
           /\ Len(ring) <= Len(Stream)
           /\ \A i \in 1 .. Len(ring) : Stream[i] = ring[i]
           /\ InAir => Stream[Len(ring) + 1] = AirUnit
           /\ \A i \in 1 .. Len(Stream) : /\ Stream[i] = <<Stream[i][1], Stream[i][2]>>
                                          /\ Stream[i][1] \in Nat /\ Stream[i][2] \in Nat
  <1>1. ring \in Seq(Units) /\ Len(ring) \in Nat /\ DOMAIN ring = 1 .. Len(ring)
    BY DEF Typed, RingOK
  <1>2. AirUnit \in Units
    BY DEF AirUnit, Typed, SpiOK, Spis, TaskOK, Tasks
  <1>3. /\ Stream \in Seq(Units) /\ Len(Stream) \in Nat /\ DOMAIN Stream = 1 .. Len(Stream)
        /\ Len(Stream) = IF InAir THEN Len(ring) + 1 ELSE Len(ring)
        /\ \A i \in 1 .. Len(ring) : Stream[i] = ring[i]
        /\ InAir => Stream[Len(ring) + 1] = AirUnit
    BY <1>1, <1>2 DEF Stream
  <1>4. \A u \in Units : u = <<u[1], u[2]>> /\ u[1] \in Nat /\ u[2] \in Nat
    BY FsOverBusAssumption DEF Units, NoUnit
  <1>5. \A i \in 1 .. Len(Stream) : Stream[i] \in Units
    BY <1>3
  <1> QED BY <1>1, <1>3, <1>4, <1>5

LEMMA StreamIsNext ==
    ASSUME Typed'
    PROVE  /\ Stream' \in Seq(Units) /\ Len(Stream') \in Nat /\ DOMAIN Stream' = 1 .. Len(Stream')
           /\ Len(Stream') = IF InAir' THEN Len(ring') + 1 ELSE Len(ring')
           /\ \A i \in 1 .. Len(ring') : Stream'[i] = ring'[i]
           /\ InAir' => Stream'[Len(ring') + 1] = AirUnit'
  <1>1. ring' \in Seq(Units)
    BY DEF Typed, RingOK
  <1>2. AirUnit' \in Units
    BY DEF AirUnit, Typed, SpiOK, Spis, TaskOK, Tasks
  <1> QED BY <1>1, <1>2 DEF Stream

(* Its first d units leave.                                                *)
Advances(d) == /\ Len(Stream') = Len(Stream) - d
               /\ \A j \in 1 .. Len(Stream') : Stream'[j] = Stream[j + d]

(* The steps that neither fetch a unit nor take one from the stream.       *)
Rests == \/ HostBegin \/ HostAnswered \/ HostGivesUp \/ SpiBegin \/ SpiStore \/ SpiEnd \/ TimerFires
         \/ Wake \/ AwaitHeader \/ ReadPacket \/ ReadNothing \/ Function
         \/ ReplyBegin \/ ReplyStore \/ ReplyEnd \/ UNCHANGED vars

(* Where the functions are called, and where they wait.                    *)
FnPcs == {"handle", "delay", "close", "remove", "rename", "copy", "unlink"}

LEMMA FunctionPcs == ASSUME Function PROVE task.pc \in FnPcs
  BY DEF Function, Heartbeat, WriteNoName, WriteNameTooLong, WriteOpen, WriteOpenFails, WriteMore,
     WriteFailed, Writing, DelayOver, Close, Remove, Rename, Partial, DelFile, CopyRefused, CopyOpen,
     CopyWrite, Unlink, ExecFile, Called, FnPcs

StreamMoves ==
  \/ (SpiTransfer \/ ReplyFetches) /\ Stream' = Append(Stream, NextUnit)
  \/ ReturnItem /\ Advances(task.n)
  \/ ReadHeader /\ receiving' /\ Advances(HeaderSize)
  \/ (TimerClears \/ (ReadHeader /\ ~receiving')) /\ Advances(Len(ring))
  \/ Restarts /\ Stream' = <<>>
  \/ Rests /\ Stream' = Stream

(* What each step does to the stream.                                      *)
LEMMA StreamStep ==
    ASSUME Typed, Typed', Step, Mutex, PacketOK
    PROVE  StreamMoves
  <1>0. /\ ring \in Seq(Units) /\ ring' \in Seq(Units) /\ Len(ring) \in Nat
        /\ spi \in Spis /\ task \in Tasks(Len(msgs)) /\ task' \in Tasks(Len(msgs'))
        /\ task.n \in Nat /\ HeaderSize \in Nat /\ HeaderSize >= 1
    BY FsOverBusAssumption DEF Typed, RingOK, SpiOK, TaskOK, Tasks
  <1>s. /\ Len(Stream) = IF InAir THEN Len(ring) + 1 ELSE Len(ring)
        /\ \A i \in 1 .. Len(ring) : Stream[i] = ring[i]
        /\ InAir => Stream[Len(ring) + 1] = AirUnit
        /\ Len(Stream') = IF InAir' THEN Len(ring') + 1 ELSE Len(ring')
        /\ \A i \in 1 .. Len(ring') : Stream'[i] = ring'[i]
        /\ InAir' => Stream'[Len(ring') + 1] = AirUnit'
    BY StreamIs, StreamIsNext
  <1>a. ASSUME NEW d \in 0 .. Len(ring), ring' = SubSeq(ring, d + 1, Len(ring)),
               InAir' <=> InAir, InAir => AirUnit' = AirUnit
        PROVE  Advances(d)
    <2>1. /\ Len(ring') = Len(ring) - d
          /\ \A j \in 1 .. Len(ring') : ring'[j] = ring[j + d]
      BY <1>0, <1>a
    <2>2. ASSUME NEW j \in 1 .. Len(Stream') PROVE Stream'[j] = Stream[j + d]
      <3>1. CASE j <= Len(ring')
        BY <1>0, <1>a, <1>s, <2>1, <2>2, <3>1
      <3>2. CASE j > Len(ring')
        <4>1. InAir /\ InAir' /\ j = Len(ring') + 1 /\ j + d = Len(ring) + 1
          BY <1>0, <1>a, <1>s, <2>1, <2>2, <3>2
        <4> QED BY <1>a, <1>s, <4>1
      <3> QED BY <1>0, <1>a, <1>s, <2>1, <2>2, <3>1, <3>2
    <2>3. Len(Stream') = Len(Stream) - d
      BY <1>0, <1>a, <1>s, <2>1
    <2> QED BY <2>2, <2>3 DEF Advances
  <1>b. ASSUME ring' = <<>>, InAir' <=> InAir, InAir => AirUnit' = AirUnit PROVE Advances(Len(ring))
    <2>1. SubSeq(ring, Len(ring) + 1, Len(ring)) = <<>>
      BY <1>0
    <2> QED BY <1>0, <1>a, <1>b, <2>1
  <1>c. ASSUME ring' = ring, InAir' <=> InAir, InAir => AirUnit' = AirUnit PROVE Stream' = Stream
    BY <1>c DEF Stream
  <1>1. CASE SpiTransfer \/ ReplyFetches
    <2>1. NextUnit \in Units
      BY <1>1, UnitsOK DEF SpiTransfer, ReplyFetches
    <2>2. ~InAir /\ InAir' /\ AirUnit' = NextUnit /\ ring' = ring
      <3>1. CASE SpiTransfer
        <4>1. spi.pc = "xfer" /\ spi'.pc = "send" /\ spi'.unit = NextUnit /\ ring' = ring
          BY <3>1 DEF SpiTransfer, ringVars
        <4> QED BY <4>1 DEF InAir, AirUnit, Mutex, Sending
      <3>2. CASE ReplyFetches
        <4>1. /\ task.pc = "sending" /\ task'.pc = "store" /\ task'.unit = NextUnit
              /\ ring' = ring /\ spi' = spi
          BY <1>0, <3>2 DEF ReplyFetches, SendUnchanged, ringVars, Tasks
        <4> QED BY <4>1 DEF InAir, AirUnit, Mutex, Sending
      <3> QED BY <1>1, <3>1, <3>2
    <2>3. Stream = ring
      BY <2>2, Zenon DEF Stream
    <2>4. Stream' = Append(ring', AirUnit')
      BY <2>2, Zenon DEF Stream
    <2>5. Stream' = Append(Stream, NextUnit)
      BY <2>2, <2>3, <2>4, Zenon
    <2> QED BY <1>1, <2>5 DEF StreamMoves
  <1>2. CASE SpiStore \/ ReplyStore
    <2>1. CASE ring' = ring /\ spi' = spi /\ task' = task
      <3>1. (InAir' <=> InAir) /\ (InAir => AirUnit' = AirUnit)
        BY <2>1, Zenon DEF InAir, AirUnit
      <3> QED BY <1>2, <1>c, <2>1, <3>1 DEF StreamMoves, Rests
    <2>2. CASE ~(ring' = ring /\ spi' = spi /\ task' = task)
      <3>1. InAir /\ ~InAir' /\ ring' = Append(ring, AirUnit)
        <4>1. CASE SpiStore
          <5>1. spi.pc = "send" /\ task' = task /\ spi'.pc = "xfer" /\ ring' = Append(ring, spi.unit)
            BY <2>2, <4>1 DEF SpiStore, SpiUnchanged
          <5> QED BY <5>1 DEF InAir, AirUnit, Mutex, Sending
        <4>2. CASE ReplyStore
          <5>1. /\ task.pc = "store" /\ spi' = spi /\ task'.pc = "sending"
                /\ ring' = Append(ring, task.unit)
            BY <1>0, <4>2 DEF ReplyStore, SendUnchanged, Tasks
          <5> QED BY <5>1 DEF InAir, AirUnit, Mutex, Sending
        <4> QED BY <1>2, <4>1, <4>2
      <3>2. Stream' = ring'
        BY <3>1, Zenon DEF Stream
      <3>3. Stream = Append(ring, AirUnit)
        BY <3>1, Zenon DEF Stream
      <3> QED BY <1>2, <3>1, <3>2, <3>3 DEF StreamMoves, Rests
    <2> QED BY <2>1, <2>2
  <1>3. CASE HostBegin \/ HostAnswered \/ HostGivesUp \/ TimerFires \/ UNCHANGED vars
    <2>1. ring' = ring /\ spi' = spi /\ task' = task
      BY <1>3 DEF HostBegin, HostAnswered, HostGivesUp, TimerFires, ringVars, vars
    <2>2. (InAir' <=> InAir) /\ (InAir => AirUnit' = AirUnit)
      BY <2>1, Zenon DEF InAir, AirUnit
    <2> QED BY <1>3, <1>c, <2>1, <2>2 DEF StreamMoves, Rests
  <1>d. ASSUME spi' = spi, task.pc # "store", task'.pc # "store"
        PROVE  (InAir' <=> InAir) /\ (InAir => AirUnit' = AirUnit)
    BY <1>d DEF InAir, AirUnit
  <1>4. CASE SpiBegin \/ SpiEnd
    <2>1. spi.pc # "send" /\ spi'.pc # "send" /\ task' = task /\ ring' = ring
      BY <1>0, <1>4 DEF SpiBegin, SpiEnd, SpiUnchanged, ringVars, MutexFree, Spis
    <2> QED BY <1>4, <2>1 DEF StreamMoves, Rests, Stream, InAir, AirUnit
  <1>5. CASE Wake \/ AwaitHeader \/ ReadPacket \/ ReadNothing \/ Function \/ ReplyBegin
             \/ ReplyEnd
    <2>1. ring' = ring /\ spi' = spi /\ task.pc # "store" /\ task'.pc # "store"
      <3>1. CASE Function
        <4>1. FnMoves /\ ring' = ring /\ spi' = spi /\ task.pc # "store"
          BY <3>1, FunctionMoves, FunctionPcs DEF FnUnchanged, ringVars, FnPcs
        <4> QED BY <1>0, <4>1 DEF FnMoves, Go, Reply, Tasks
      <3>2. CASE ~Function
        BY <1>0, <1>5, <3>2 DEF Wake, AwaitHeader, ReadPacket, ReadNothing, TaskUnchanged,
           ReplyBegin, ReplyEnd, SendUnchanged, ringVars, Continue, Tasks
      <3> QED BY <3>1, <3>2
    <2> QED BY <1>5, <1>c, <1>d, <2>1 DEF StreamMoves, Rests
  <1>6. CASE TimerClears
    <2>1. ring' = <<>> /\ spi' = spi /\ task'.pc = task.pc /\ task'.unit = task.unit
      BY <1>0, <1>6 DEF TimerClears, Tasks
    <2>2. (InAir' <=> InAir) /\ (InAir => AirUnit' = AirUnit)
      BY <2>1 DEF InAir, AirUnit
    <2> QED BY <1>6, <1>b, <2>1, <2>2 DEF StreamMoves
  <1>7. CASE ReadHeader
    <2>1. spi' = spi /\ task.pc = "loop" /\ task'.pc # "store" /\ ~receiving
          /\ Len(ring) >= HeaderSize
      BY <1>0, <1>7 DEF ReadHeader, TaskUnchanged, Continue, Tasks
    <2>2. (InAir' <=> InAir) /\ (InAir => AirUnit' = AirUnit)
      BY <1>d, <2>1
    <2>3. \/ receiving' /\ ring' = SubSeq(ring, HeaderSize + 1, Len(ring))
          \/ ~receiving' /\ ring' = <<>>
      BY <1>7, <2>1 DEF ReadHeader
    <2>4. CASE receiving' /\ ring' = SubSeq(ring, HeaderSize + 1, Len(ring))
      <3>1. HeaderSize \in 0 .. Len(ring)
        BY <1>0, <2>1
      <3> QED BY <1>7, <1>a, <2>2, <2>4, <3>1 DEF StreamMoves
    <2>5. CASE ~receiving' /\ ring' = <<>>
      BY <1>7, <1>b, <2>2, <2>5 DEF StreamMoves
    <2> QED BY <2>3, <2>4, <2>5
  <1>8. CASE ReturnItem
    <2>1. spi' = spi /\ task.pc = "return" /\ task'.pc # "store" /\ ~task.stale
          /\ ring' = SubSeq(ring, task.n + 1, Len(ring))
      BY <1>0, <1>8 DEF ReturnItem, TaskUnchanged, Continue, Tasks
    <2>2. (InAir' <=> InAir) /\ (InAir => AirUnit' = AirUnit)
      BY <1>d, <2>1
    <2>3. task.n \in 0 .. Len(ring)
      BY <1>0, <2>1 DEF PacketOK
    <2> QED BY <1>8, <1>a, <2>1, <2>2, <2>3 DEF StreamMoves
  <1>9. CASE Restarts
    <2>1. ring' = <<>> /\ spi'.pc = "wait" /\ task'.pc = "wait"
      BY <1>9, RestartEffect DEF Restart, TaskInit
    <2>2. ~InAir'
      BY <2>1 DEF InAir
    <2>3. Stream' = <<>>
      BY <2>1, <2>2 DEF Stream
    <2> QED BY <1>9, <2>3 DEF StreamMoves
  <1> QED
    BY <1>1, <1>2, <1>3, <1>4, <1>5, <1>6, <1>7, <1>8, <1>9 DEF Step

HostKept == /\ msgs' = msgs /\ host'.k = host.k
            /\ (host'.pc = host.pc /\ host'.gaveup = host.gaveup) \/ HostAnswered \/ HostGivesUp

(* The steps that fetch nothing leave the host's part of the order.        *)
LEMMA HostKeptBy ==
    ASSUME Typed, ReturnItem \/ ReadHeader \/ TimerClears \/ Restarts \/ (Rests /\ ~HostBegin)
    PROVE  HostKept
  <1>0. host \in Hosts
    BY DEF Typed, HostOK
  <1>1. CASE Restarts
    BY <1>0, <1>1, RestartEffect DEF Restart, Hosts, HostKept
  <1>2. CASE HostAnswered \/ HostGivesUp
    BY <1>0, <1>2 DEF HostAnswered, HostGivesUp, Hosts, HostKept
  <1>3. CASE Function
    BY <1>3, FunctionMoves DEF FnUnchanged, hostVars, HostKept
  <1>4. CASE ~Restarts /\ ~HostAnswered /\ ~HostGivesUp /\ ~Function
    BY <1>4 DEF ReturnItem, ReadHeader, TimerClears, Rests, SpiBegin, SpiStore, SpiEnd, SpiUnchanged,
       TimerFires, Wake, AwaitHeader, ReadPacket, ReadNothing, TaskUnchanged, ReplyBegin, ReplyStore,
       ReplyEnd, SendUnchanged, vars, hostVars, HostKept
  <1> QED BY <1>1, <1>2, <1>3, <1>4

(* The stream keeps its order as units leave it.                           *)
LEMMA OrderAdvances ==
    ASSUME Typed, Typed', Order, HostKept, NEW d \in Nat, d <= Len(Stream), Advances(d)
    PROVE  Order'
  <1>0. /\ Len(Stream) \in Nat /\ DOMAIN Stream = 1 .. Len(Stream)
        /\ Len(Stream') \in Nat /\ DOMAIN Stream' = 1 .. Len(Stream')
        /\ \A i \in 1 .. Len(Stream) : Stream[i][1] \in Nat /\ Stream[i][2] \in Nat
        /\ Len(Stream') = Len(Stream) - d
        /\ host.k \in Nat /\ Len(msgs) \in Nat /\ DOMAIN msgs = 1 .. Len(msgs)
    BY StreamIs, StreamIsNext, CmdTyped DEF Advances, Typed, HostOK, Hosts
  <1>1. \A i \in 1 .. Len(Stream') : i + d \in 1 .. Len(Stream) /\ Stream'[i] = Stream[i + d]
    BY <1>0 DEF Advances
  <1>2. Steady'
    <2>1. ASSUME NEW i \in DOMAIN Stream', NEW j \in DOMAIN Stream', i < j
          PROVE  Follows(Stream'[i], Stream'[j], j - i)
      <3>1. Follows(Stream[i + d], Stream[j + d], (j + d) - (i + d))
        BY <1>0, <1>1, <2>1 DEF Order, Steady
      <3>2. (j + d) - (i + d) = j - i
        BY <1>0, <2>1
      <3> QED BY <1>0, <1>1, <3>1, <3>2
    <2> QED BY <2>1 DEF Steady, Follows
  <1>3. Behind'
    <2>1. ASSUME NEW i \in DOMAIN Stream'
          PROVE  Follows(Stream'[i], <<Len(msgs'), host'.k>>, Len(Stream') - i)
      <3>1. Follows(Stream[i + d], <<Len(msgs), host.k>>, Len(Stream) - (i + d))
        BY <1>0, <1>1, <2>1 DEF Order, Behind
      <3>2. Len(Stream) - (i + d) = Len(Stream') - i
        BY <1>0, <2>1
      <3> QED BY <1>0, <1>1, <2>1, <3>1, <3>2 DEF HostKept
    <2> QED BY <2>1 DEF Behind, Follows
  <1>4. Genuine'
    <2>1. ASSUME NEW i \in DOMAIN Stream'
          PROVE  Stream'[i][1] \in DOMAIN msgs' /\ Stream'[i][2] <= HeaderSize + Size(Stream'[i][1])
      BY <1>0, <1>1, <2>1 DEF Order, Genuine, HostKept
    <2>2. host'.pc = "sending" => host.pc = "sending"
      BY DEF HostKept, HostAnswered, HostGivesUp, Typed, HostOK, Hosts
    <2>3. host'.pc = "sending" => host'.k < HeaderSize + (msgs'[Len(msgs')].name + msgs'[Len(msgs')].data)
      BY <2>2 DEF Order, Genuine, HostKept, Size
    <2> QED BY <2>1, <2>3 DEF Genuine, Size, HostKept
  <1> QED BY <1>2, <1>3, <1>4 DEF Order

(* Order is kept.                                                          *)
LEMMA OrderStep ==
    ASSUME Typed, Typed', Step, Mutex, PacketOK, Order
    PROVE  Order'
  <1>0. /\ Stream \in Seq(Units)
        /\ Len(Stream) \in Nat /\ DOMAIN Stream = 1 .. Len(Stream)
        /\ \A i \in 1 .. Len(Stream) : Stream[i][1] \in Nat /\ Stream[i][2] \in Nat
        /\ host.k \in Nat /\ Len(msgs) \in Nat /\ DOMAIN msgs = 1 .. Len(msgs)
        /\ HeaderSize \in Nat /\ HeaderSize >= 1 /\ Len(ring) \in Nat /\ Len(ring) <= Len(Stream)
        /\ task.n \in Nat /\ host \in Hosts /\ Len(<<>>) = 0
    BY StreamIs, CmdTyped, FsOverBusAssumption DEF Typed, HostOK, Hosts
  <1>1. CASE (SpiTransfer \/ ReplyFetches) /\ Stream' = Append(Stream, NextUnit)
    <2>1. HasData /\ Fetched /\ msgs' = msgs /\ host.pc = "sending"
      BY <1>1 DEF SpiTransfer, ReplyFetches, SpiUnchanged, SendUnchanged, HasData
    <2>2. NextUnit \in Units /\ NextUnit = <<Len(msgs), host.k + 1>> /\ Len(msgs) \in DOMAIN msgs
      <3>1. Len(msgs) # 0
        BY <2>1, <1>0 DEF Typed, HostOK, MsgsOK
      <3> QED BY <1>0, <2>1, <3>1, UnitsOK DEF NextUnit
    <2>3. /\ DOMAIN Stream' = 1 .. Len(Stream) + 1 /\ Len(Stream') = Len(Stream) + 1
          /\ \A i \in 1 .. Len(Stream) : Stream'[i] = Stream[i]
          /\ Stream'[Len(Stream) + 1] = <<Len(msgs), host.k + 1>>
      BY <1>0, <1>1, <2>2
    <2>4. host'.k = host.k + 1
          /\ (host'.pc = "sending" => host.k + 1 # HeaderSize + Size(Len(msgs)))
      BY <1>0, <2>1 DEF Fetched, Hosts
    <2>5. host.k < HeaderSize + Size(Len(msgs)) /\ Size(Len(msgs)) \in Nat
      BY <2>1, <2>2, MsgsKept DEF Order, Genuine
    <2>6. Steady'
      <3>1. ASSUME NEW i \in DOMAIN Stream', NEW j \in DOMAIN Stream', i < j
            PROVE  Follows(Stream'[i], Stream'[j], j - i)
        <4>1. CASE j <= Len(Stream)
          BY <1>0, <2>3, <3>1, <4>1 DEF Order, Steady
        <4>2. CASE j = Len(Stream) + 1
          <5>0. i \in 1 .. Len(Stream)
            BY <1>0, <2>3, <3>1, <4>2
          <5>1. Follows(Stream[i], <<Len(msgs), host.k>>, Len(Stream) - i)
            BY <1>0, <5>0 DEF Order, Behind
          <5>2. Stream'[i] = Stream[i] /\ Stream[i][1] \in Nat /\ Stream[i][2] \in Nat
            BY <1>0, <2>3, <5>0
          <5>3. Stream'[j] = <<Len(msgs), host.k + 1>>
            BY <2>3, <4>2
          <5> QED BY <1>0, <4>2, <5>0, <5>1, <5>2, <5>3 DEF Follows
        <4> QED BY <1>0, <2>3, <4>1, <4>2
      <3> QED BY <3>1 DEF Steady, Follows
    <2>7. Behind'
      <3>1. ASSUME NEW i \in DOMAIN Stream'
            PROVE  Follows(Stream'[i], <<Len(msgs), host.k + 1>>, Len(Stream) + 1 - i)
        <4>1. CASE i <= Len(Stream)
          <5>0. i \in 1 .. Len(Stream)
            BY <1>0, <2>3, <3>1, <4>1
          <5>1. Follows(Stream[i], <<Len(msgs), host.k>>, Len(Stream) - i)
            BY <1>0, <5>0 DEF Order, Behind
          <5>2. Stream'[i] = Stream[i] /\ Stream[i][1] \in Nat /\ Stream[i][2] \in Nat
            BY <1>0, <2>3, <5>0
          <5> QED BY <1>0, <5>0, <5>1, <5>2 DEF Follows
        <4>2. CASE i = Len(Stream) + 1
          BY <1>0, <2>3, <4>2 DEF Follows
        <4> QED BY <1>0, <2>3, <4>1, <4>2
      <3> QED BY <2>1, <2>3, <2>4, <3>1 DEF Behind, Follows
    <2>8. Genuine'
      <3>1. ASSUME NEW i \in DOMAIN Stream'
            PROVE  Stream'[i][1] \in DOMAIN msgs /\ Stream'[i][2] <= HeaderSize + Size(Stream'[i][1])
        <4>1. CASE i <= Len(Stream)
          BY <1>0, <2>3, <4>1 DEF Order, Genuine
        <4>2. CASE i = Len(Stream) + 1
          BY <1>0, <2>2, <2>3, <2>5, <4>2
        <4> QED BY <1>0, <2>3, <4>1, <4>2
      <3>2. host'.pc = "sending" => host'.k < HeaderSize + Size(Len(msgs))
        <4>1. \A a, b, c \in Nat : a < b + c /\ a + 1 # b + c => a + 1 < b + c
          OBVIOUS
        <4> QED BY <1>0, <2>4, <2>5, <4>1
      <3>3. \A i \in DOMAIN Stream' :
              /\ Stream'[i][1] \in DOMAIN msgs'
              /\ Stream'[i][2] <= HeaderSize + (msgs'[Stream'[i][1]].name + msgs'[Stream'[i][1]].data)
        BY <2>1, <3>1 DEF Size
      <3>4. host'.pc = "sending" =>
              host'.k < HeaderSize + (msgs'[Len(msgs')].name + msgs'[Len(msgs')].data)
        BY <2>1, <3>2 DEF Size
      <3> QED BY <3>3, <3>4 DEF Genuine, Size
    <2> QED BY <2>6, <2>7, <2>8 DEF Order
  <1>2. CASE HostBegin /\ Stream' = Stream
    <2>1. PICK m \in Shapes : msgs' = Append(msgs, m)
      BY <1>2 DEF HostBegin
    <2>2. /\ Len(msgs') = Len(msgs) + 1 /\ host'.k = 0
          /\ \A i \in DOMAIN msgs : i \in DOMAIN msgs' /\ msgs'[i] = msgs[i]
          /\ msgs'[Len(msgs) + 1] = m
      BY <1>0, <1>2, <2>1 DEF HostBegin, Typed, MsgsOK, Hosts
    <2>3. Steady'
      BY <1>2 DEF Order, Steady, Follows
    <2>4. Behind'
      <3>1. ASSUME NEW i \in DOMAIN Stream PROVE Stream[i][1] < Len(msgs')
        BY <1>0, <2>2 DEF Order, Genuine
      <3> QED BY <1>2, <3>1 DEF Behind, Follows
    <2>5. Genuine'
      <3>1. m.name \in Nat /\ m.data \in Nat
        BY FsOverBusAssumption
      <3>2. ASSUME NEW i \in DOMAIN Stream
            PROVE  Stream[i][1] \in DOMAIN msgs'
                   /\ Stream[i][2] <= HeaderSize + (msgs'[Stream[i][1]].name + msgs'[Stream[i][1]].data)
        BY <2>2 DEF Order, Genuine, Size
      <3>3. host'.k < HeaderSize + (msgs'[Len(msgs')].name + msgs'[Len(msgs')].data)
        BY <1>0, <2>2, <3>1
      <3> QED BY <1>2, <3>2, <3>3 DEF Genuine, Size
    <2> QED BY <2>3, <2>4, <2>5 DEF Order
  <1>3. CASE ReturnItem /\ Advances(task.n)
    <2>1. task.n <= Len(Stream)
      BY <1>0, <1>3 DEF ReturnItem, PacketOK
    <2> QED BY <1>0, <1>3, <2>1, HostKeptBy, OrderAdvances
  <1>4. CASE ReadHeader /\ Advances(HeaderSize)
    <2>1. HeaderSize <= Len(Stream)
      BY <1>0, <1>4 DEF ReadHeader
    <2> QED BY <1>0, <1>4, <2>1, HostKeptBy, OrderAdvances
  <1>5. CASE (TimerClears \/ ReadHeader) /\ Advances(Len(ring))
    BY <1>0, <1>5, HostKeptBy, OrderAdvances
  <1>6. CASE Restarts /\ Stream' = <<>>
    <2>1. Advances(Len(Stream))
      BY <1>0, <1>6 DEF Advances
    <2> QED BY <1>0, <1>6, <2>1, HostKeptBy, OrderAdvances
  <1>7. CASE Rests /\ ~HostBegin /\ Stream' = Stream
    <2>1. Advances(0)
      BY <1>0, <1>7 DEF Advances
    <2> QED BY <1>0, <1>7, <2>1, HostKeptBy, OrderAdvances
  <1> QED
    BY <1>1, <1>2, <1>3, <1>4, <1>5, <1>6, <1>7, StreamStep DEF StreamMoves

---------------------------------------------------------------------------
(* Copies.                                                                 *)

(* A message whose header left the stream is not parsed again.             *)
LEMMA PassedStep ==
    ASSUME Typed, Typed', Step, Mutex, PacketOK, NEW i \in Nat, Passed(i)
    PROVE  Passed(i)'
  <1>0. /\ Stream \in Seq(Units) /\ Len(Stream) \in Nat /\ DOMAIN Stream = 1 .. Len(Stream)
        /\ Len(Stream') \in Nat /\ DOMAIN Stream' = 1 .. Len(Stream')
        /\ Top \in Int /\ Top' \in Int /\ Top' >= Top /\ Len(<<>>) = 0
        /\ Len(ring) \in Nat /\ HeaderSize \in Nat /\ task.n \in Nat
    BY StreamIs, StreamIsNext, TopStep, CmdTyped, FsOverBusAssumption
  <1>a. ASSUME NEW d \in Nat, Advances(d) PROVE Passed(i)'
    <2>1. ASSUME NEW j \in DOMAIN Stream' PROVE j + d \in DOMAIN Stream /\ Stream'[j] = Stream[j + d]
      BY <1>0, <1>a DEF Advances
    <2>2. i <= Top'
      BY <1>0 DEF Passed
    <2> QED BY <2>1, <2>2 DEF Passed, Start
  <1>1. CASE (SpiTransfer \/ ReplyFetches) /\ Stream' = Append(Stream, NextUnit)
    <2>1. HasData
      BY <1>1 DEF SpiTransfer, ReplyFetches
    <2>2. NextUnit \in Units /\ NextUnit = <<Len(msgs), host.k + 1>> /\ host.k \in Nat
          /\ Len(msgs) \in Nat
      BY <2>1, UnitsOK, CmdTyped DEF NextUnit, Typed, HostOK, Hosts
    <2>3. /\ DOMAIN Stream' = 1 .. Len(Stream) + 1
          /\ \A j \in 1 .. Len(Stream) : Stream'[j] = Stream[j]
          /\ Stream'[Len(Stream) + 1] = <<Len(msgs), host.k + 1>>
      BY <1>0, <1>1, <2>2
    <2>4. host.k = 0 => i < Len(msgs)
      BY <1>0, <2>1, <2>2 DEF HasData, Top, Passed
    <2>5. ASSUME NEW j \in DOMAIN Stream', Start(Stream'[j]) PROVE Stream'[j][1] > i
      <3>1. CASE j \in 1 .. Len(Stream)
        BY <1>0, <2>3, <2>5, <3>1 DEF Passed
      <3>2. CASE j = Len(Stream) + 1
        BY <2>2, <2>3, <2>4, <2>5, <3>2 DEF Start
      <3> QED BY <1>0, <2>3, <3>1, <3>2
    <2>6. i <= Top'
      BY <1>0 DEF Passed
    <2> QED BY <2>5, <2>6 DEF Passed, Start
  <1>2. CASE Restarts /\ Stream' = <<>>
    BY <1>0, <1>2 DEF Passed
  <1>3. CASE Rests /\ Stream' = Stream
    BY <1>0, <1>3 DEF Passed, Start
  <1> QED BY <1>0, <1>1, <1>2, <1>3, <1>a, StreamStep DEF StreamMoves

(* The header of the message being received left the stream.               *)
LEMMA CmdPassed ==
    ASSUME Typed, Queue, task.cmd # 0
    PROVE  Passed(task.cmd)
  <1>0. /\ DOMAIN Stream = 1 .. Len(Stream) /\ DOMAIN ring = 1 .. Len(ring)
        /\ Len(Stream) = IF InAir THEN Len(ring) + 1 ELSE Len(ring)
        /\ \A i \in 1 .. Len(ring) : Stream[i] = ring[i]
        /\ InAir => Stream[Len(ring) + 1] = AirUnit
        /\ Len(ring) \in Nat /\ Stream \in Seq(Units)
        /\ \A i \in 1 .. Len(Stream) : Stream[i][1] \in Nat
        /\ task.cmd \in Nat
    BY StreamIs, CmdTyped
  <1>1. ASSUME NEW j \in DOMAIN Stream, Start(Stream[j]) PROVE Stream[j][1] > task.cmd
    <2>1. CASE j \in DOMAIN ring
      BY <1>0, <1>1, <2>1 DEF Queue, RingAbove, Above
    <2>2. CASE j \notin DOMAIN ring
      <3>1. InAir /\ Stream[j] = AirUnit
        BY <1>0, <1>1, <2>2
      <3>2. InFlight(AirUnit) /\ AirUnit \in Units
        BY <3>1 DEF InAir, AirUnit, InFlight, Typed, SpiOK, Spis, TaskOK, Tasks
      <3>3. Above(AirUnit[1])
        BY <1>1, <3>1, <3>2 DEF Queue, Flying, Arrives
      <3> QED BY <1>0, <1>1, <3>1, <3>3 DEF Above
    <2> QED BY <2>1, <2>2
  <1> QED BY <1>1 DEF Passed, Queue, Entered

(* A message that awaits its answer did so before, unless it is parsed.    *)
LEMMA AwaitsStep ==
    ASSUME Typed, Typed', Step, Replies, task'.cmd = task.cmd, AwaitsAnswer', ~ReadPacket,
           ~(ReadHeader /\ receiving')
    PROVE  AwaitsAnswer
  <1>0. task \in Tasks(Len(msgs)) /\ task.recv \in Nat
    BY CmdTyped DEF Typed, TaskOK
  <1>1. task.cmd # 0 /\ msgs'[task.cmd] = msgs[task.cmd] /\ Size(task.cmd) \in Nat
    BY MsgsKept, CmdTyped DEF AwaitsAnswer
  <1>a. ASSUME task'.recv = task.recv,
               task'.pc \in ReplyPcs \cup {"handle"} => task.pc \in ReplyPcs \cup {"handle"}
        PROVE  AwaitsAnswer
    BY <1>1, <1>a DEF AwaitsAnswer, Size
  <1>2. CASE HostBegin \/ HostAnswered \/ HostGivesUp \/ SpiBegin \/ SpiTransfer \/ SpiStore
             \/ SpiEnd \/ TimerFires \/ TimerClears \/ UNCHANGED vars
    <2>1. task'.recv = task.recv /\ task'.pc = task.pc
      BY <1>0, <1>2 DEF HostBegin, HostAnswered, HostGivesUp, SpiBegin, SpiTransfer, SpiStore,
         SpiEnd, SpiUnchanged, TimerFires, TimerClears, vars, Tasks
    <2> QED BY <1>a, <2>1
  <1>3. CASE Wake \/ AwaitHeader \/ ReadNothing \/ ReturnItem
    <2>1. task'.recv = task.recv /\ task'.pc \in {"wait", "loop"}
      BY <1>0, <1>3 DEF Wake, AwaitHeader, ReadNothing, ReturnItem, Continue, Tasks
    <2> QED BY <1>a, <2>1 DEF ReplyPcs
  <1>4. CASE Function
    <2>1. FnMoves
      BY <1>4, FunctionMoves
    <2>2. task'.recv = task.recv
      BY <1>0, <2>1 DEF FnMoves, Go, Reply, Tasks
    <2>3. task'.pc \in ReplyPcs \cup {"handle"} => task.pc \in ReplyPcs \cup {"handle"}
      BY <1>0, <2>1 DEF FnMoves, Go, Reply, Tasks, ReplyPcs
    <2> QED BY <1>a, <2>2, <2>3
  <1>5. CASE ReplyBegin \/ ReplyFetches \/ ReplyStore \/ ReplyEnd
    <2>1. task'.recv = task.recv /\ task.pc \in ReplyPcs
      BY <1>0, <1>5 DEF ReplyBegin, ReplyFetches, ReplyStore, ReplyEnd, Tasks, ReplyPcs
    <2> QED BY <1>a, <2>1
  <1>6. CASE Restarts
    BY <1>1, <1>6, RestartEffect DEF Restart, TaskInit
  <1>7. CASE ReadHeader
    <2>1. task' = task
      BY <1>7 DEF ReadHeader
    <2> QED BY <1>a, <2>1
  <1> QED BY <1>2, <1>3, <1>4, <1>5, <1>6, <1>7 DEF Step

(* What is parsed was first in the ring.                                   *)
LEMMA ParsedHeader ==
    ASSUME Typed, ReadHeader, receiving'
    PROVE  /\ task'.cmd \in DOMAIN msgs /\ task'.recv = 0 /\ task'.n = task.n
           /\ task'.pc \in {"wait", "loop"} /\ task'.stale = task.stale
           /\ 1 \in DOMAIN ring /\ HeaderSize \in DOMAIN ring
           /\ ring[1] = <<task'.cmd, 1>> /\ ring[HeaderSize] = <<task'.cmd, HeaderSize>>
  <1>0. /\ task \in Tasks(Len(msgs)) /\ ring \in Seq(Units) /\ Len(ring) \in Nat
        /\ HeaderSize \in Nat /\ HeaderSize >= 1 /\ Len(ring) >= HeaderSize
        /\ DOMAIN msgs = 1 .. Len(msgs)
    BY CmdTyped, FsOverBusAssumption DEF Typed, TaskOK, RingOK, ReadHeader
  <1>1. PICK l \in {"wait", "loop"} :
          /\ IsHeader(SubSeq(ring, 1, HeaderSize))
          /\ task' = [task EXCEPT !.pc = l, !.cmd = SubSeq(ring, 1, HeaderSize)[1][1], !.recv = 0]
    BY DEF ReadHeader, Continue
  <1>2. PICK i \in DOMAIN msgs : SubSeq(ring, 1, HeaderSize) = [k \in 1 .. HeaderSize |-> <<i, k>>]
    BY <1>1 DEF IsHeader
  <1>3. ASSUME NEW k \in 1 .. HeaderSize PROVE ring[k] = <<i, k>>
    <2>1. SubSeq(ring, 1, HeaderSize)[k] = ring[k]
      BY <1>0, <1>3
    <2>2. SubSeq(ring, 1, HeaderSize)[k] = <<i, k>>
      BY <1>2, <1>3
    <2> QED BY <2>1, <2>2
  <1>4. SubSeq(ring, 1, HeaderSize)[1][1] = i
    BY <1>0, <1>2
  <1>5. task'.cmd = i /\ task'.recv = 0 /\ task'.pc \in {"wait", "loop"}
        /\ task'.n = task.n /\ task'.stale = task.stale
    BY <1>0, <1>1, <1>4 DEF Tasks
  <1> QED BY <1>0, <1>3, <1>5

(* A copy that failed, or was cut short, stays without ok.                 *)
LEMMA SpoiledStep ==
    ASSUME Typed, Typed', Step, Mutex, PacketOK, Replies, NEW i \in DOMAIN msgs, Spoiled(i)
    PROVE  Spoiled(i)'
  <1>0. /\ task \in Tasks(Len(msgs)) /\ task.recv \in Nat /\ i \in Nat /\ task.n \in Nat
        /\ answers \in Seq((1 .. MaxMsgs) \X {"ok", "er"})
    BY CmdTyped DEF Typed, TaskOK, AnswersOK
  <1>1. i \in DOMAIN msgs' /\ msgs'[i].kind \in Copies
    BY MsgsKept DEF Spoiled
  <1>2. Passed(i)'
    BY <1>0, PassedStep DEF Spoiled
  <1>3. ~Answered(i, "ok")'
    <2>1. CASE ReplyEnd
      <3>1. answers' = Append(answers, <<task.cmd, task.status>>) /\ task.pc = "sending"
        BY <2>1 DEF ReplyEnd
      <3>2. task.cmd = i => task.status = "er"
        BY <3>1, CmdTyped DEF Spoiled, AwaitsAnswer, ReplyPcs
      <3>3. \A a \in DOMAIN answers' : answers'[a] = <<task.cmd, task.status>>
                                       \/ (a \in DOMAIN answers /\ answers'[a] = answers[a])
        <4>1. <<task.cmd, task.status>> \in (1 .. MaxMsgs) \X {"ok", "er"}
          <5>1. task.cmd \in 1 .. MaxMsgs /\ task.status \in {"ok", "er"}
            BY <1>0, <3>1, CmdTyped, FsOverBusAssumption DEF Tasks, Typed, MsgsOK
          <5> QED BY <5>1
        <4> QED BY <1>0, <3>1, <4>1
      <3> QED BY <3>2, <3>3 DEF Spoiled, Answered
    <2>2. CASE ~ReplyEnd
      <3>1. answers' = answers
        <4>1. CASE Function \/ Restarts
          BY <4>1, FunctionMoves, RestartEffect DEF FnUnchanged, histVars, Restart
        <4>2. CASE ~Function /\ ~Restarts
          BY <2>2, <4>2 DEF Step, HostBegin, HostAnswered, HostGivesUp, SpiBegin, SpiTransfer,
             SpiStore, SpiEnd, SpiUnchanged, TimerFires, TimerClears, Wake, ReadHeader, AwaitHeader,
             ReadPacket, ReadNothing, ReturnItem, TaskUnchanged, ReplyBegin, ReplyFetches, ReplyStore,
             histVars, vars
        <4> QED BY <4>1, <4>2
      <3> QED BY <3>1 DEF Spoiled, Answered
    <2> QED BY <2>1, <2>2
  <1>4. ASSUME AwaitsAnswer', task'.cmd = i
        PROVE  task'.pc \in ReplyingPcs /\ task'.status = "er"
    <2>1. CASE ReadHeader /\ receiving'
      <3>1. ring[1] = <<i, 1>> /\ 1 \in DOMAIN ring
        BY <1>4, <2>1, ParsedHeader
      <3>2. Stream[1] = <<i, 1>> /\ 1 \in DOMAIN Stream
        <4>1. 1 \in 1 .. Len(ring) /\ Stream[1] = ring[1]
          BY <3>1, StreamIs
        <4>2. Len(ring) \in Nat /\ Len(Stream) \in Nat /\ Len(ring) <= Len(Stream)
              /\ DOMAIN Stream = 1 .. Len(Stream)
          BY StreamIs
        <4> QED BY <3>1, <4>1, <4>2
      <3>3. Stream[1][1] = i /\ Stream[1][2] = 1
        BY <3>2
      <3>4. Stream[1][1] > i
        BY <3>2, <3>3 DEF Spoiled, Passed, Start
      <3> QED BY <1>0, <3>3, <3>4
    <2>2. CASE ReadPacket
      <3>1. task'.cmd = task.cmd /\ task.pc = "loop" /\ receiving
        BY <1>0, <2>2 DEF ReadPacket, Tasks
      <3>2. task.cmd # 0 /\ task.recv < Size(task.cmd)
        <4>1. PICK n \in 1 .. Least(MaxRead, Len(ring)) : TRUE
          BY <2>2 DEF ReadPacket
        <4>2. task.cmd # 0
          BY <3>1 DEF Typed, TaskOK
        <4>3. Size(task.cmd) \in Nat /\ RdBuf \in Nat /\ Len(ring) \in Nat
          BY <4>2, CmdTyped, StreamIs, FsOverBusAssumption
        <4> QED BY <1>0, <4>1, <4>2, <4>3 DEF Least, MaxRead
      <3> QED BY <1>4, <3>1, <3>2 DEF Spoiled, AwaitsAnswer, ReplyingPcs
    <2>3. CASE Restarts
      BY <1>0, <1>4, <2>3, RestartEffect DEF Restart, TaskInit, AwaitsAnswer
    <2>4. CASE ~(ReadHeader /\ receiving') /\ ~ReadPacket /\ ~Restarts
      <3>1. task'.cmd = task.cmd
        <4>1. CASE Function
          BY <1>0, <4>1, FunctionMoves DEF FnMoves, Go, Reply, Tasks
        <4>2. CASE ~Function
          BY <1>0, <2>4, <4>2 DEF Step, HostBegin, HostAnswered, HostGivesUp, SpiBegin, SpiTransfer,
             SpiStore, SpiEnd, SpiUnchanged, TimerFires, TimerClears, Wake, ReadHeader, AwaitHeader,
             ReadNothing, ReturnItem, ReplyBegin, ReplyFetches, ReplyStore, ReplyEnd, vars, Tasks
        <4> QED BY <4>1, <4>2
      <3>2. AwaitsAnswer /\ task.pc \in ReplyingPcs /\ task.status = "er"
        BY <1>4, <2>4, <3>1, AwaitsStep DEF Spoiled
      <3>3. CASE ReplyEnd
        <4>1. task'.pc \in {"wait", "close", "sleep", "return"} /\ task'.recv = task.recv
          BY <1>0, <3>3 DEF ReplyEnd, Tasks
        <4>2. task.recv = Size(task.cmd) /\ msgs'[task.cmd] = msgs[task.cmd] /\ Size(task.cmd) \in Nat
          BY <3>2, MsgsKept, CmdTyped DEF Replies, WholeReply, ReplyingPcs, ReplyPcs, AwaitsAnswer
        <4> QED BY <1>4, <3>1, <4>1, <4>2 DEF AwaitsAnswer, ReplyPcs, Size
      <3>4. CASE ~ReplyEnd
        <4>1. ~Function /\ ~Wake /\ ~ReadHeader /\ ~AwaitHeader /\ ~ReadNothing /\ ~ReturnItem
          BY <3>2, FunctionPcs DEF FnPcs, ReplyingPcs, Wake, ReadHeader, AwaitHeader, ReadNothing,
             ReturnItem
        <4> QED BY <1>0, <2>4, <3>2, <3>4, <4>1 DEF Step, HostBegin, HostAnswered, HostGivesUp,
                   SpiBegin, SpiTransfer, SpiStore, SpiEnd, SpiUnchanged, TimerFires, TimerClears,
                   ReplyBegin, ReplyFetches, ReplyStore, ReplyingPcs, vars, Tasks
      <3> QED BY <3>3, <3>4
    <2> QED BY <2>1, <2>2, <2>3, <2>4
  <1> QED BY <1>1, <1>2, <1>3, <1>4 DEF Spoiled

(* Copies: whatever is torn was torn by a copy that is still written, or   *)
(* that is never answered with ok.                                         *)
LEMMA NewlySpoiled ==
    ASSUME Typed, Typed', Step, Mutex, PacketOK, Queue, Replies,
           NEW i \in DOMAIN msgs, i = task.cmd, msgs[i].kind \in Copies, AwaitsAnswer,
           answers' = answers, task'.cmd = 0 \/ (task'.pc = "reply" /\ task'.status = "er")
    PROVE  Spoiled(i)'
  <1>0. i \in Nat /\ i # 0 /\ task.cmd # 0 /\ answers \in Seq((1 .. MaxMsgs) \X {"ok", "er"})
    BY CmdTyped DEF Typed, AnswersOK
  <1>1. Passed(i)
    BY <1>0, CmdPassed DEF Passed, Start
  <1>2. Passed(i)'
    BY <1>0, <1>1, PassedStep
  <1>3. ~Answered(i, "ok")'
    <2>1. \A a \in DOMAIN answers : answers[a][1] < i
      BY DEF Replies, Unanswered
    <2>2. \A a \in DOMAIN answers : answers[a] # <<i, "ok">>
      BY <1>0, <2>1
    <2> QED BY <2>2 DEF Answered
  <1>4. i \in DOMAIN msgs' /\ msgs'[i].kind \in Copies
    BY MsgsKept
  <1>5. AwaitsAnswer' /\ task'.cmd = i => task'.pc \in ReplyingPcs /\ task'.status = "er"
    BY <1>0 DEF ReplyingPcs
  <1> QED BY <1>2, <1>3, <1>4, <1>5 DEF Spoiled

(* Copied is kept.                                                         *)
LEMMA CopiedStep ==
    ASSUME Typed, Typed', Step, Mutex, PacketOK, Queue, Replies, Copied
    PROVE  Copied'
  <1>0. /\ task \in Tasks(Len(msgs)) /\ task.recv \in Nat
        /\ files \in [Files -> Contents] /\ tmp \in [Files -> Contents]
        /\ fptr \in Files \cup {NULL} /\ ~NoFile.cut
    BY CmdTyped DEF Typed, TaskOK, FileOK, NoFile
  <1>c. task.pc \in {"copy", "unlink"} =>
          /\ task.cmd \in DOMAIN msgs /\ Cmd.kind \in Copies /\ Cmd.file # Cmd.to
          /\ Cmd.file \in Files /\ Cmd.to \in Files /\ AwaitsAnswer
    BY CmdTyped DEF Copied, Copying, AwaitsAnswer, ReplyPcs
  <1>m. \A i \in DOMAIN msgs : i \in DOMAIN msgs' /\ msgs'[i] = msgs[i]
    BY MsgsKept
  <1>s. (\E i \in DOMAIN msgs : Spoiled(i)) => \E i \in DOMAIN msgs' : Spoiled(i)'
    BY <1>m, SpoiledStep
  <1> DEFINE Lost == \E i \in DOMAIN msgs' : Spoiled(i)'
  <1>l. ASSUME \A f \in Files : files'[f].cut => Lost, \A f \in Files : ~tmp'[f].cut
        PROVE  TornExplained'
    BY <1>l DEF TornExplained
  <1>f. \A f \in Files : files[f].cut => (task.pc = "copy" /\ Cmd.to = f) \/ Lost
    BY <1>s DEF Copied, TornExplained
  <1>t. \A f \in Files : ~tmp[f].cut
    BY DEF Copied, TornExplained
  <1> HIDE DEF Lost
  <1>1. CASE ~Function /\ ~Restarts
    <2>1. UNCHANGED <<files, tmp>>
      BY <1>1 DEF Step, HostBegin, HostAnswered, HostGivesUp, SpiBegin, SpiTransfer, SpiStore,
         SpiEnd, SpiUnchanged, TimerFires, TimerClears, Wake, ReadHeader, AwaitHeader, ReadPacket,
         ReadNothing, ReturnItem, ReplyBegin, ReplyFetches, ReplyStore, ReplyEnd, SendUnchanged,
         fileVars, vars
    <2>2. CASE task.pc \in {"copy", "unlink"}
      <3>1. task'.pc = task.pc /\ task'.cmd = task.cmd
        BY <1>0, <1>1, <2>2 DEF Step, HostBegin, HostAnswered, HostGivesUp, SpiBegin, SpiTransfer,
           SpiStore, SpiEnd, SpiUnchanged, TimerFires, TimerClears, Wake, ReadHeader, AwaitHeader,
           ReadPacket, ReadNothing, ReturnItem, ReplyBegin, ReplyFetches, ReplyStore, ReplyEnd, vars,
           Tasks
      <3>2. msgs'[task'.cmd] = Cmd
        BY <1>c, <1>m, <2>2, <3>1 DEF Cmd
      <3>3. Copying'
        BY <1>c, <2>2, <3>2 DEF Copying, Cmd
      <3>4. TornExplained'
        BY <1>f, <1>t, <2>1, <3>1, <3>2 DEF TornExplained, Cmd, Lost
      <3> QED BY <3>3, <3>4 DEF Copied
    <2>3. CASE task.pc \notin {"copy", "unlink"}
      <3>1. task'.pc \notin {"copy", "unlink"}
        BY <1>0, <1>1, <2>3 DEF Step, HostBegin, HostAnswered, HostGivesUp, SpiBegin, SpiTransfer,
           SpiStore, SpiEnd, SpiUnchanged, TimerFires, TimerClears, Wake, ReadHeader, AwaitHeader,
           ReadPacket, ReadNothing, ReturnItem, Continue, ReplyBegin, ReplyFetches, ReplyStore,
           ReplyEnd, vars, Tasks
      <3>2. TornExplained'
        BY <1>f, <1>l, <1>t, <2>1, <2>3
      <3> QED BY <3>1, <3>2 DEF Copied, Copying
    <2> QED BY <2>2, <2>3
  <1>2. CASE Restarts
    <2>1. /\ files' = files /\ answers' = answers /\ task'.cmd = 0 /\ task'.pc = "wait"
          /\ \/ tmp' = tmp
             \/ \E n : fptr # NULL /\ tmp' = [tmp EXCEPT ![fptr].len = n]
      BY <1>2, RestartEffect DEF Restart, TaskInit
    <2>2. \A f \in Files : ~tmp'[f].cut
      <3>1. ASSUME NEW n, fptr # NULL, tmp' = [tmp EXCEPT ![fptr].len = n], NEW f \in Files
            PROVE  tmp'[f].cut = tmp[f].cut
        BY <1>0, <3>1 DEF Contents
      <3> QED BY <1>t, <2>1, <3>1
    <2>3. task.pc = "copy" => Lost
      <3>1. SUFFICES ASSUME task.pc = "copy" PROVE Lost
        OBVIOUS
      <3>2. PICK i \in DOMAIN msgs : i = task.cmd
        BY <1>c, <3>1
      <3>3. Spoiled(i)'
        BY <1>c, <2>1, <3>1, <3>2, NewlySpoiled DEF Cmd
      <3> QED BY <1>m, <3>3 DEF Lost
    <2>4. TornExplained'
      BY <1>f, <1>l, <2>1, <2>2, <2>3
    <2> QED BY <2>1, <2>4 DEF Copied, Copying
  <1>3. CASE WriteNoName \/ WriteNameTooLong \/ WriteOpen \/ WriteOpenFails \/ WriteMore \/ WriteFailed
             \/ Heartbeat \/ DelayOver \/ Close \/ Partial \/ CopyRefused \/ ExecFile
             \/ Remove \/ DelFile \/ Rename
    <2>1. task.pc \notin {"copy", "unlink"}
      BY <1>3 DEF WriteNoName, WriteNameTooLong, WriteOpen, WriteOpenFails, WriteMore, WriteFailed,
         Writing, Heartbeat, DelayOver, Close, Partial, CopyRefused, ExecFile, Called, Remove,
         DelFile, Rename
    <2>2. task'.pc \notin {"copy", "unlink"}
      BY <1>0, <1>3 DEF WriteNoName, WriteNameTooLong, WriteOpen, WriteOpenFails, WriteMore,
         WriteFailed, Heartbeat, DelayOver, Close, Partial, CopyRefused, ExecFile, Remove, DelFile,
         Rename, Back, Reply, Tasks
    <2>3. \A f \in Files : ~tmp'[f].cut
      <3>1. CASE WriteOpen
        BY <1>0, <1>t, <3>1 DEF WriteOpen
      <3>2. CASE WriteMore
        BY <1>0, <1>t, <3>2 DEF WriteMore, Contents
      <3>3. CASE Rename
        BY <1>0, <1>t, <3>3 DEF Rename
      <3>4. CASE ~WriteOpen /\ ~WriteMore /\ ~Rename
        BY <1>3, <1>t, <3>4 DEF WriteNoName, WriteNameTooLong, WriteOpenFails, WriteFailed, Heartbeat,
           DelayOver, Close, Partial, CopyRefused, ExecFile, Remove, DelFile, fileVars
      <3> QED BY <3>1, <3>2, <3>3, <3>4
    <2>4. ASSUME NEW f \in Files, files'[f].cut PROVE Lost
      <3>1. CASE Rename
        BY <1>0, <1>f, <1>t, <2>1, <2>4, <3>1 DEF Rename
      <3>2. CASE Remove \/ DelFile
        BY <1>0, <1>f, <2>1, <2>4, <3>2 DEF Remove, DelFile
      <3>3. CASE ~Rename /\ ~Remove /\ ~DelFile
        BY <1>3, <1>f, <2>1, <2>4, <3>3 DEF WriteNoName, WriteNameTooLong, WriteOpen, WriteOpenFails,
           WriteMore, WriteFailed, Heartbeat, DelayOver, Close, Partial, CopyRefused, ExecFile,
           fileVars
      <3> QED BY <3>1, <3>2, <3>3
    <2> QED BY <1>l, <2>2, <2>3, <2>4 DEF Copied, Copying
  <1>4. CASE CopyOpen
    <2>1. /\ task.pc = "handle" /\ Cmd.kind \in Copies /\ Cmd.file # Cmd.to /\ Whole /\ msgs' = msgs
          /\ tmp' = tmp /\ answers' = answers /\ task.cmd \in DOMAIN msgs /\ Cmd.to \in Files
          /\ AwaitsAnswer
      BY <1>4, CmdTyped DEF CopyOpen, Called, FnUnchanged, hostVars, histVars, AwaitsAnswer
    <2>2. PICK target \in BOOLEAN :
            /\ files' = IF target THEN [files EXCEPT ![Cmd.to] = Torn] ELSE files
            /\ \/ target /\ Go("copy")
               \/ Reply("er", "return")
      BY <1>4 DEF CopyOpen, Go
    <2>3. task'.cmd = task.cmd /\ (task'.pc = "copy" \/ (task'.pc = "reply" /\ task'.status = "er"))
      BY <1>0, <2>2 DEF Go, Reply, Tasks
    <2>4. Cmd' = Cmd
      BY <2>1, <2>3 DEF Cmd
    <2>5. task'.pc = "reply" => Lost
      <3>1. SUFFICES ASSUME task'.pc = "reply" PROVE Lost
        OBVIOUS
      <3>2. PICK i \in DOMAIN msgs : i = task.cmd
        BY <2>1
      <3>3. Spoiled(i)'
        BY <2>1, <2>3, <3>1, <3>2, NewlySpoiled DEF Cmd
      <3> QED BY <1>m, <3>3 DEF Lost
    <2>6. TornExplained'
      <3>1. ASSUME NEW f \in Files, files'[f].cut
            PROVE  (task'.pc = "copy" /\ Cmd.to = f) \/ Lost
        BY <1>0, <1>f, <2>1, <2>2, <2>3, <2>5, <3>1
      <3> QED BY <1>t, <2>1, <2>4, <3>1 DEF TornExplained, Lost
    <2>7. Copying'
      BY <2>1, <2>4 DEF Copying
    <2> QED BY <2>6, <2>7 DEF Copied
  <1>5. CASE CopyWrite \/ Unlink
    <2>1. /\ task.pc \in {"copy", "unlink"} /\ tmp' = tmp /\ msgs' = msgs
          /\ task'.cmd = task.cmd /\ task'.pc # "copy"
      BY <1>0, <1>5 DEF CopyWrite, Unlink, FnUnchanged, hostVars, Reply, Tasks
    <2>2. ASSUME NEW f \in Files, files'[f].cut PROVE Lost
      <3>1. CASE CopyWrite
        <4>1. files' = [files EXCEPT ![Cmd.to] = files[Cmd.file]] /\ task.pc = "copy"
          BY <3>1 DEF CopyWrite
        <4> QED BY <1>0, <1>c, <1>f, <2>2, <4>1
      <3>2. CASE Unlink
        BY <1>0, <1>f, <2>2, <3>2 DEF Unlink
      <3> QED BY <1>5, <3>1, <3>2
    <2>3. Copying'
      BY <1>c, <2>1 DEF Copying, Cmd
    <2> QED BY <1>l, <1>t, <2>1, <2>2, <2>3 DEF Copied
  <1> QED BY <1>1, <1>2, <1>3, <1>4, <1>5 DEF Function

---------------------------------------------------------------------------
(* Calm.                                                                   *)

(* The answers grow at their end.                                          *)
LEMMA AnswersGrow ==
    ASSUME Typed, Step
    PROVE  \A a \in DOMAIN answers : a \in DOMAIN answers' /\ answers'[a] = answers[a]
  <1>0. answers \in Seq((1 .. MaxMsgs) \X {"ok", "er"})
    BY DEF Typed, AnswersOK
  <1>1. CASE ReplyEnd
    <2>1. answers' = Append(answers, <<task.cmd, task.status>>) /\ task.pc = "sending"
      BY <1>1 DEF ReplyEnd
    <2>2. <<task.cmd, task.status>> \in (1 .. MaxMsgs) \X {"ok", "er"}
      <3>1. task.cmd \in 1 .. MaxMsgs /\ task.status \in {"ok", "er"}
        BY <2>1, CmdTyped, FsOverBusAssumption DEF TaskOK, Tasks, Typed, MsgsOK
      <3> QED BY <3>1
    <2> QED BY <1>0, <2>1, <2>2
  <1>2. CASE Function \/ Restarts
    BY <1>2, FunctionMoves, RestartEffect DEF FnUnchanged, histVars, Restart
  <1>3. CASE ~ReplyEnd /\ ~Function /\ ~Restarts
    BY <1>3 DEF Step, HostBegin, HostAnswered, HostGivesUp, SpiBegin, SpiTransfer, SpiStore, SpiEnd,
       SpiUnchanged, TimerFires, TimerClears, Wake, ReadHeader, AwaitHeader, ReadPacket, ReadNothing,
       ReturnItem, TaskUnchanged, ReplyBegin, ReplyFetches, ReplyStore, histVars, vars
  <1> QED BY <1>1, <1>2, <1>3

(* A host that never began too early finds the badge ready, or its message *)
(* before answered.                                                        *)
LEMMA HastyStays ==
    ASSUME Step, ~hasty'
    PROVE  ~hasty /\ (HostBegin => ~host.gaveup \/ Quiet)
  <1>1. CASE HostBegin
    BY <1>1 DEF HostBegin
  <1>2. CASE ~HostBegin
    <2>1. hasty' = hasty
      <3>1. CASE Function \/ Restarts
        BY <3>1, FunctionMoves, RestartEffect DEF FnUnchanged, histVars, Restart
      <3>2. CASE ~Function /\ ~Restarts
        BY <1>2, <3>2 DEF Step, HostAnswered, HostGivesUp, SpiBegin, SpiTransfer, SpiStore, SpiEnd,
           SpiUnchanged, TimerFires, TimerClears, Wake, ReadHeader, AwaitHeader, ReadPacket,
           ReadNothing, ReturnItem, TaskUnchanged, ReplyBegin, ReplyFetches, ReplyStore, ReplyEnd,
           SendUnchanged, histVars, vars
      <3> QED BY <3>1, <3>2
    <2>2. ~hasty
      BY <2>1, Zenon
    <2> QED BY <1>2, <2>2
  <1> QED BY <1>1, <1>2

(* Only a header makes fsob_task receive.                                  *)
LEMMA ActiveStep ==
    ASSUME Typed, Typed', Step, ~(ReadHeader /\ receiving'), receiving' \/ Holding'
    PROVE  receiving \/ Holding
  <1>0. task \in Tasks(Len(msgs))
    BY DEF Typed, TaskOK
  <1>1. CASE Function
    BY <1>1, FunctionMoves DEF Holding
  <1>2. CASE Restarts
    BY <1>2, RestartEffect DEF Restart, TaskInit, Holding
  <1>3. CASE ReplyBegin \/ ReplyFetches \/ ReplyStore \/ ReplyEnd \/ ReturnItem \/ ReadPacket
    BY <1>3 DEF ReplyBegin, ReplyFetches, ReplyStore, ReplyEnd, ReturnItem, ReadPacket, Holding
  <1>4. CASE HostBegin \/ HostAnswered \/ HostGivesUp \/ SpiBegin \/ SpiTransfer \/ SpiStore
             \/ SpiEnd \/ TimerFires \/ TimerClears \/ UNCHANGED vars
    <2>1. task'.pc = task.pc /\ (receiving' => receiving)
      BY <1>0, <1>4 DEF HostBegin, HostAnswered, HostGivesUp, SpiBegin, SpiTransfer, SpiStore, SpiEnd,
         SpiUnchanged, TimerFires, TimerClears, recvVars, vars, Tasks
    <2> QED BY <2>1 DEF Holding
  <1>5. CASE Wake \/ AwaitHeader \/ ReadNothing \/ ReadHeader
    <2>1. task'.pc \in {"wait", "loop"}
      BY <1>0, <1>5 DEF Wake, AwaitHeader, ReadNothing, ReadHeader, Continue, Tasks
    <2>2. receiving' => receiving
      BY <1>5 DEF Wake, AwaitHeader, ReadNothing
    <2> QED BY <2>1, <2>2 DEF Holding
  <1> QED BY <1>1, <1>2, <1>3, <1>4, <1>5 DEF Step

(* Calm is kept: a host that waits its turn was answered;                  *)
LEMMA PatientStep ==
    ASSUME Typed, Typed', Step, Mutex, PacketOK, Patient
    PROVE  Patient'
  <1>0. host \in Hosts
    BY DEF Typed, HostOK
  <1>a. ASSUME msgs' = msgs, Served PROVE Served'
    BY <1>a, AnswersGrow DEF Served
  <1>1. CASE HostBegin \/ SpiTransfer \/ ReplyFetches
    BY <1>0, <1>1 DEF HostBegin, SpiTransfer, ReplyFetches, Fetched, HasData, Hosts, Patient
  <1>2. CASE HostKept
    <2>1. CASE HostAnswered
      BY <1>a, <1>2, <2>1 DEF HostAnswered, HostKept, Served, Patient
    <2>2. CASE HostGivesUp
      BY <1>0, <2>2 DEF HostGivesUp, Hosts, Patient
    <2>3. CASE host'.pc = host.pc /\ host'.gaveup = host.gaveup
      BY <1>a, <1>2, <2>3 DEF HostKept, Patient
    <2> QED BY <1>2, <2>1, <2>2, <2>3 DEF HostKept
  <1> QED
    BY <1>1, <1>2, HostKeptBy, StreamStep DEF StreamMoves

(* units of earlier messages do not come to the stream;                    *)
LEMMA LatestAdvances ==
    ASSUME Typed, Typed', Latest, msgs' = msgs, NEW d \in Nat, Advances(d), task'.n + d >= task.n
    PROVE  Latest'
  <1>0. /\ DOMAIN Stream = 1 .. Len(Stream) /\ Len(Stream) \in Nat /\ task.n \in Nat
        /\ DOMAIN Stream' = 1 .. Len(Stream') /\ Len(Stream') \in Nat
    BY StreamIs, StreamIsNext, CmdTyped
  <1>1. task'.n \in Nat
    BY DEF Typed, TaskOK, Tasks
  <1>2. ASSUME NEW i \in DOMAIN Stream', i > task'.n
        PROVE  Stream'[i][1] = Len(msgs')
    <2>1. i + d \in DOMAIN Stream /\ i + d > task.n /\ Stream'[i] = Stream[i + d]
      BY <1>0, <1>1, <1>2 DEF Advances
    <2> QED BY <2>1 DEF Latest
  <1> QED BY <1>2 DEF Latest

(* What the steps that do not touch the packet leave of it.                *)
LEMMA PacketKept ==
    ASSUME Typed, Typed', Rests \/ SpiTransfer \/ ReplyFetches \/ TimerClears, PacketOK
    PROVE  /\ task'.cmd = task.cmd
           /\ \/ task'.n = task.n /\ task'.recv = task.recv
              \/ ReadPacket /\ task.n = 0 /\ task'.n \in Nat /\ task'.recv = task.recv + task'.n
  <1>0. task \in Tasks(Len(msgs)) /\ task.recv \in Nat /\ task' \in Tasks(Len(msgs'))
    BY CmdTyped DEF Typed, TaskOK
  <1>1. CASE Function
    <2>1. FnMoves
      BY <1>1, FunctionMoves
    <2> QED BY <1>0, <2>1 DEF FnMoves, Go, Reply, Tasks
  <1>2. CASE ReadPacket
    <2>1. PICK n \in 1 .. Least(MaxRead, Len(ring)) :
            task' = [task EXCEPT !.pc = "handle", !.n = n, !.recv = @ + n]
      BY <1>2 DEF ReadPacket
    <2>2. task'.cmd = task.cmd /\ task'.n = n /\ task'.recv = task.recv + n
      BY <1>0, <2>1 DEF Tasks
    <2>3. task.n = 0 /\ task'.n \in Nat
      BY <1>0, <1>2 DEF ReadPacket, PacketOK, Tasks
    <2> QED BY <1>2, <2>2, <2>3
  <1>3. CASE HostBegin \/ HostAnswered \/ HostGivesUp \/ SpiBegin \/ SpiTransfer \/ SpiStore
             \/ SpiEnd \/ TimerFires \/ UNCHANGED vars
    BY <1>3 DEF HostBegin, HostAnswered, HostGivesUp, SpiBegin, SpiTransfer, SpiStore,
       SpiEnd, SpiUnchanged, TimerFires, vars
  <1>4. CASE TimerClears \/ Wake \/ AwaitHeader \/ ReadNothing
    BY <1>0, <1>4 DEF TimerClears, Wake, AwaitHeader, ReadNothing, Tasks
  <1>5. CASE ReplyBegin \/ ReplyFetches \/ ReplyStore \/ ReplyEnd
    BY <1>0, <1>5 DEF ReplyBegin, ReplyFetches, ReplyStore, ReplyEnd, Tasks
  <1> QED BY <1>1, <1>2, <1>3, <1>4, <1>5 DEF Rests

(* Nothing of the badge runs for the message before the one that is begun. *)
LEMMA NothingRuns ==
    ASSUME Typed, Queue, Replies, PacketOK, Calmly, HostBegin, ~host.gaveup \/ Quiet
    PROVE  /\ ~((receiving \/ Holding) /\ AwaitsAnswer) /\ task.pc \notin ReplyPcs
           /\ Len(Stream) <= task.n
  <1>1. CASE Quiet
    <2>1. /\ spi.pc # "send" /\ task.pc = "wait" /\ ring = <<>> /\ ~receiving
      BY <1>1 DEF Quiet
    <2>2. Stream = <<>>
      BY <2>1 DEF Stream, InAir
    <2>3. task.n \in Nat
      BY CmdTyped
    <2> QED BY <2>1, <2>2, <2>3 DEF Holding, ReplyPcs
  <1>2. CASE ~host.gaveup
    <2>1. Served
      BY <1>2 DEF HostBegin, Calmly, Patient
    <2>2. Len(Stream) <= task.n
      BY <2>1 DEF Calmly, Finished
    <2>3. ASSUME receiving \/ Holding, AwaitsAnswer PROVE FALSE
      <3>1. task.cmd = Len(msgs) /\ task.cmd # 0 /\ task.cmd \in DOMAIN msgs
        BY <2>3, CmdTyped DEF Calmly, Current, AwaitsAnswer
      <3>2. PICK a \in DOMAIN answers : answers[a][1] = Len(msgs)
        BY <2>1, <3>1 DEF Served
      <3>3. answers[a][1] < task.cmd
        BY <2>3, <3>2 DEF Replies, Unanswered
      <3> QED BY <3>1, <3>2, <3>3, CmdTyped
    <2>4. task.pc \notin ReplyPcs
      <3>1. task.pc \in ReplyPcs => Holding /\ AwaitsAnswer
        BY CmdTyped DEF Holding, AwaitsAnswer, ReplyPcs
      <3> QED BY <2>3, <3>1
    <2> QED BY <2>2, <2>3, <2>4
  <1> QED BY <1>1, <1>2

(* so Calm holds of the message that is begun.                             *)
LEMMA CalmBegins ==
    ASSUME Typed, Typed', Step, Queue, Replies, PacketOK, Calmly, HostBegin, ~host.gaveup \/ Quiet,
           Stream' = Stream
    PROVE  Calmly'
  <1>1. /\ ~((receiving \/ Holding) /\ AwaitsAnswer) /\ task.pc \notin ReplyPcs
        /\ Len(Stream) <= task.n
    BY NothingRuns
  <1>2. /\ task' = task /\ receiving' = receiving /\ answers' = answers /\ host'.pc = "sending"
        /\ files' = files /\ tmp' = tmp /\ fptr' = fptr
    BY DEF HostBegin, recvVars, fileVars, Typed, HostOK, Hosts
  <1>3. Len(msgs') = Len(msgs) + 1 /\ Len(msgs) \in Nat
    <2>1. PICK m \in Shapes : msgs' = Append(msgs, m)
      BY DEF HostBegin
    <2> QED BY <2>1 DEF Typed, MsgsOK
  <1>4. task.cmd # 0 => task.cmd \in DOMAIN msgs /\ Size(task.cmd)' = Size(task.cmd)
    <2>1. ASSUME NEW i \in DOMAIN msgs, i = task.cmd PROVE Size(task.cmd)' = Size(task.cmd)
      BY <1>2, <2>1, MsgsKept DEF Size
    <2> QED BY <2>1, CmdTyped
  <1>5. AwaitsAnswer' => AwaitsAnswer
    BY <1>2, <1>4 DEF AwaitsAnswer
  <1>6. Attending' => (receiving \/ Holding) /\ AwaitsAnswer
    BY <1>2, <1>4 DEF Attending, AwaitsAnswer, Holding
  <1>7. Patient' /\ Latest'
    <2>1. DOMAIN Stream = 1 .. Len(Stream) /\ Len(Stream) \in Nat /\ task.n \in Nat
      BY StreamIs, CmdTyped
    <2> QED BY <1>1, <1>2, <2>1 DEF Patient, Latest
  <1>8. Finished'
    <2>1. ~Served'
      <3>1. \A a \in DOMAIN answers : answers[a][1] <= Len(msgs) /\ answers[a][1] \in Nat
        <4>1. \A a \in DOMAIN answers : answers[a][1] <= Top /\ answers[a][1] \in Nat
          BY FsOverBusAssumption DEF Queue, Entered, Typed, AnswersOK
        <4>2. Top \in Int /\ Top <= Len(msgs)
          BY <1>3 DEF Top
        <4> QED BY <1>3, <4>1, <4>2
      <3>2. msgs' # <<>>
        BY <1>3
      <3> QED BY <1>2, <1>3, <3>1, <3>2 DEF Served
    <2> QED BY <1>1, <1>2, <2>1 DEF Finished
  <1>9. Current'
    BY <1>1, <1>2, <1>5 DEF Current, Holding
  <1>10. InStep'
    BY <1>1, <1>6 DEF InStep
  <1>11. Purely'
    BY <1>2 DEF Calmly, Purely, Closing
  <1> QED BY <1>7, <1>8, <1>9, <1>10, <1>11 DEF Calmly

(* What a step that begins no message leaves of the host's part.           *)
LEMMA MsgsStay ==
    ASSUME Typed, Typed', Step, Mutex, PacketOK, ~HostBegin
    PROVE  /\ msgs' = msgs
           /\ host'.pc = "sending" => host.pc = "sending"
           /\ ~(SpiTransfer \/ ReplyFetches) => host'.k = host.k
  <1>1. CASE SpiTransfer \/ ReplyFetches
    BY <1>1 DEF SpiTransfer, ReplyFetches, SpiUnchanged, SendUnchanged, HasData
  <1>2. CASE HostKept
    <2>1. host \in Hosts
      BY DEF Typed, HostOK
    <2>2. HostAnswered \/ HostGivesUp => host'.pc = "idle"
      BY <2>1 DEF HostAnswered, HostGivesUp, Hosts
    <2> QED BY <1>2, <2>2 DEF HostKept
  <1> QED BY <1>1, <1>2, HostKeptBy, StreamStep DEF StreamMoves

(* The stream past the packet holds the last message.                      *)
LEMMA LatestStep ==
    ASSUME Typed, Typed', Step, Mutex, PacketOK, Latest, ~HostBegin
    PROVE  Latest'
  <1>0. /\ Stream \in Seq(Units) /\ Len(Stream) \in Nat /\ DOMAIN Stream = 1 .. Len(Stream)
        /\ Len(ring) \in Nat /\ HeaderSize \in Nat /\ task.n \in Nat /\ task'.n \in Nat
        /\ msgs' = msgs /\ Len(<<>>) = 0
    BY StreamIs, CmdTyped, MsgsStay, FsOverBusAssumption DEF Typed, TaskOK, Tasks
  <1>1. CASE (SpiTransfer \/ ReplyFetches) /\ Stream' = Append(Stream, NextUnit)
    <2>1. NextUnit \in Units /\ NextUnit[1] = Len(msgs)
      BY <1>1, UnitsOK DEF SpiTransfer, ReplyFetches, NextUnit
    <2>2. /\ DOMAIN Stream' = 1 .. Len(Stream) + 1
          /\ \A i \in 1 .. Len(Stream) : Stream'[i] = Stream[i]
          /\ Stream'[Len(Stream) + 1] = NextUnit
      BY <1>0, <1>1, <2>1
    <2>3. task'.n >= task.n
      BY <1>0, <1>1, PacketKept
    <2>4. ASSUME NEW i \in DOMAIN Stream', i > task'.n PROVE Stream'[i][1] = Len(msgs')
      <3>1. CASE i \in 1 .. Len(Stream)
        BY <1>0, <2>2, <2>3, <2>4, <3>1 DEF Latest
      <3>2. CASE i = Len(Stream) + 1
        BY <1>0, <2>1, <2>2, <3>2
      <3> QED BY <1>0, <2>2, <3>1, <3>2
    <2> QED BY <2>4 DEF Latest
  <1>2. CASE ReturnItem /\ Advances(task.n)
    BY <1>0, <1>2, LatestAdvances
  <1>3. CASE ReadHeader /\ (Advances(HeaderSize) \/ Advances(Len(ring)))
    <2>1. task.n = 0
      BY <1>3 DEF ReadHeader, PacketOK
    <2> QED BY <1>0, <1>3, <2>1, LatestAdvances
  <1>4. CASE TimerClears /\ Advances(Len(ring))
    <2>1. task'.n + Len(ring) >= task.n
      BY <1>0, <1>4, PacketKept
    <2> QED BY <1>0, <1>4, <2>1, LatestAdvances
  <1>5. CASE Restarts /\ Stream' = <<>>
    BY <1>5 DEF Latest
  <1>6. CASE Rests /\ Stream' = Stream
    <2>1. Advances(0) /\ task'.n + 0 >= task.n
      BY <1>0, <1>6, PacketKept DEF Advances
    <2> QED BY <1>0, <2>1, LatestAdvances
  <1> QED BY <1>1, <1>2, <1>3, <1>4, <1>5, <1>6, StreamStep DEF StreamMoves

(* A packet is read only of a message that is not whole.                   *)
LEMMA PacketRead ==
    ASSUME Typed, ReadPacket
    PROVE  /\ task.cmd # 0 /\ task.recv < Size(task.cmd) /\ receiving /\ task.pc = "loop"
           /\ AwaitsAnswer
  <1>1. task.pc = "loop" /\ receiving /\ \E n \in 1 .. Least(MaxRead, Len(ring)) : TRUE
    BY DEF ReadPacket
  <1>2. task.cmd # 0
    BY <1>1 DEF Typed, TaskOK
  <1>3. Size(task.cmd) \in Nat /\ RdBuf \in Nat /\ Len(ring) \in Nat /\ task.recv \in Nat
    BY <1>2, CmdTyped, StreamIs, FsOverBusAssumption
  <1>4. task.recv < Size(task.cmd)
    BY <1>1, <1>3 DEF Least, MaxRead
  <1> QED BY <1>1, <1>2, <1>4 DEF AwaitsAnswer

(* Another message is parsed, or forgotten, in two steps only.             *)
LEMMA CmdKept ==
    ASSUME Typed, Step, ~(ReadHeader /\ receiving'), ~Restarts
    PROVE  task'.cmd = task.cmd
  <1>0. task \in Tasks(Len(msgs))
    BY DEF Typed, TaskOK
  <1>1. CASE Function
    BY <1>0, <1>1, FunctionMoves DEF FnMoves, Go, Reply, Tasks
  <1>2. CASE ~Function
    BY <1>0, <1>2 DEF Step, HostBegin, HostAnswered, HostGivesUp, SpiBegin, SpiTransfer,
       SpiStore, SpiEnd, SpiUnchanged, TimerFires, TimerClears, Wake, ReadHeader, AwaitHeader,
       ReadPacket, ReadNothing, ReturnItem, ReplyBegin, ReplyFetches, ReplyStore, ReplyEnd, vars,
       Tasks
  <1> QED BY <1>1, <1>2

(* The message that is received is the last.                               *)
LEMMA CurrentStep ==
    ASSUME Typed, Typed', Step, Mutex, Replies, PacketOK, Current, Latest, ~HostBegin
    PROVE  Current'
  <1>0. SUFFICES ASSUME (receiving \/ Holding)', AwaitsAnswer'
                 PROVE  task'.cmd = Len(msgs')
    BY DEF Current
  <1>m. msgs' = msgs
    BY MsgsStay
  <1>1. CASE ReadHeader /\ receiving'
    <2>1. 1 \in DOMAIN ring /\ ring[1] = <<task'.cmd, 1>>
      BY <1>1, ParsedHeader
    <2>2. 1 \in DOMAIN Stream /\ Stream[1] = ring[1]
      <3>1. /\ DOMAIN Stream = 1 .. Len(Stream) /\ DOMAIN ring = 1 .. Len(ring)
            /\ Len(ring) <= Len(Stream) /\ Len(ring) \in Nat /\ Len(Stream) \in Nat
            /\ \A i \in 1 .. Len(ring) : Stream[i] = ring[i]
        BY StreamIs
      <3> QED BY <2>1, <3>1
    <2>3. task.n = 0
      BY <1>1 DEF ReadHeader, PacketOK
    <2>4. Stream[1][1] = Len(msgs)
      BY <2>2, <2>3 DEF Latest
    <2> QED BY <1>m, <2>1, <2>2, <2>4
  <1>2. CASE Restarts
    BY <1>0, <1>2, RestartEffect DEF Restart, TaskInit, AwaitsAnswer
  <1>3. CASE ReadPacket
    <2>1. task.cmd = Len(msgs)
      BY <1>3, PacketRead DEF Current
    <2> QED BY <1>3, <1>m, <2>1, CmdKept, RestartEffect DEF ReadPacket, ReadHeader, Restart
  <1>4. CASE ~(ReadHeader /\ receiving') /\ ~Restarts /\ ~ReadPacket
    <2>1. task'.cmd = task.cmd
      BY <1>4, CmdKept
    <2>2. AwaitsAnswer /\ (receiving \/ Holding)
      BY <1>0, <1>4, <2>1, AwaitsStep, ActiveStep DEF Holding
    <2> QED BY <1>m, <2>1, <2>2 DEF Current
  <1> QED BY <1>1, <1>2, <1>3, <1>4

(* A reply begins, or a copy, when the function has the whole message.     *)
LEMMA RepliesBegin ==
    ASSUME Typed, Step, task'.pc \in ReplyPcs, task.pc \notin ReplyPcs
    PROVE  Function /\ task.pc = "handle" /\ Whole
  <1>0. task \in Tasks(Len(msgs))
    BY DEF Typed, TaskOK
  <1>1. CASE Function
    <2>1. FnMoves
      BY <1>1, FunctionMoves
    <2> QED BY <1>0, <1>1, <2>1 DEF FnMoves, Go, Reply, Tasks, ReplyPcs
  <1>2. CASE Restarts
    BY <1>2, RestartEffect DEF Restart, TaskInit, ReplyPcs
  <1>3. CASE ~Function /\ ~Restarts
    BY <1>0, <1>3 DEF Step, HostBegin, HostAnswered, HostGivesUp, SpiBegin, SpiTransfer,
       SpiStore, SpiEnd, SpiUnchanged, TimerFires, TimerClears, Wake, ReadHeader, AwaitHeader,
       ReadPacket, ReadNothing, ReturnItem, Continue, ReplyBegin, ReplyFetches, ReplyStore, ReplyEnd,
       vars, Tasks, ReplyPcs
  <1> QED BY <1>1, <1>2, <1>3

(* Answers are given in one step only.                                     *)
LEMMA AnswersStay ==
    ASSUME Step, ~ReplyEnd
    PROVE  answers' = answers
  <1>1. CASE Function \/ Restarts
    BY <1>1, FunctionMoves, RestartEffect DEF FnUnchanged, histVars, Restart
  <1>2. CASE ~Function /\ ~Restarts
    BY <1>2 DEF Step, HostBegin, HostAnswered, HostGivesUp, SpiBegin, SpiTransfer, SpiStore, SpiEnd,
       SpiUnchanged, TimerFires, TimerClears, Wake, ReadHeader, AwaitHeader, ReadPacket, ReadNothing,
       ReturnItem, TaskUnchanged, ReplyBegin, ReplyFetches, ReplyStore, histVars, vars
  <1> QED BY <1>1, <1>2

(* The packet that makes the message whole is the last there is.           *)
LEMMA WholePacket ==
    ASSUME Typed, PacketOK, Genuine, Current, InStep, task.pc = "handle", Whole
    PROVE  host.pc # "sending" /\ Len(Stream) <= task.n
  <1>1. /\ task.cmd # 0 /\ task.n \in 1 .. task.recv /\ ~task.stale /\ Holding /\ AwaitsAnswer
        /\ task.recv = Size(task.cmd) /\ task.recv \in Nat /\ HeaderSize \in Nat /\ task.n \in Nat
        /\ Len(Stream) \in Nat /\ DOMAIN Stream = 1 .. Len(Stream) /\ Len(ring) \in Nat
        /\ Len(ring) <= Len(Stream) /\ task.n <= Len(ring)
    BY CmdTyped, StreamIs, FsOverBusAssumption DEF PacketOK, Holding, AwaitsAnswer, ReplyPcs, Whole
  <1>2. Gap \in Nat /\ Base \in Nat /\ Base = HeaderSize + Size(task.cmd) - task.n
    BY <1>1 DEF Gap, Base
  <1>3. /\ \A i \in DOMAIN Stream : Stream[i][1] = task.cmd /\ Stream[i][2] >= Base + i + Gap
        /\ host.k >= Base + Len(Stream) + Gap
    BY <1>1 DEF InStep, Attending
  <1>4. Len(Stream) <= task.n
    <2>1. SUFFICES ASSUME Len(Stream) > 0 PROVE Len(Stream) <= task.n
      BY <1>1
    <2>2. Len(Stream) \in DOMAIN Stream
      BY <1>1, <2>1
    <2>3. Stream[Len(Stream)][2] >= Base + Len(Stream) + Gap
      BY <1>3, <2>2
    <2>4. Stream[Len(Stream)][2] <= HeaderSize + Size(task.cmd)
      BY <1>3, <2>2 DEF Genuine
    <2>5. Stream[Len(Stream)][2] \in Nat
      BY <1>1, <2>2, StreamIs
    <2> QED BY <1>1, <1>2, <2>3, <2>4, <2>5
  <1>5. host.pc # "sending"
    <2>1. host.pc = "sending" => host.k < HeaderSize + Size(task.cmd)
      BY <1>1 DEF Current, Genuine
    <2>2. host.k \in Nat
      BY DEF Typed, HostOK, Hosts
    <2> QED BY <1>1, <1>2, <1>3, <2>1, <2>2
  <1> QED BY <1>4, <1>5

(* Nothing of a message comes once it is answered.                         *)
LEMMA FinishedStep ==
    ASSUME Typed, Typed', Step, Mutex, Replies, PacketOK, Genuine, Finished, Current, InStep, ~HostBegin
    PROVE  Finished'
  <1>0. /\ Len(Stream) \in Nat /\ DOMAIN Stream = 1 .. Len(Stream) /\ Len(ring) \in Nat
        /\ Len(Stream') \in Nat /\ Len(ring) <= Len(Stream)
        /\ HeaderSize \in Nat /\ HeaderSize >= 1 /\ task.n \in Nat /\ task'.n \in Nat
        /\ msgs' = msgs /\ Len(<<>>) = 0 /\ (host'.pc = "sending" => host.pc = "sending")
    BY StreamIs, StreamIsNext, CmdTyped, MsgsStay, FsOverBusAssumption DEF Typed, TaskOK, Tasks
  <1>1. SUFFICES ASSUME (Served \/ task.pc \in ReplyPcs)'
                 PROVE  host'.pc # "sending" /\ Len(Stream') <= task'.n
    BY DEF Finished
  <1>2. CASE Served \/ task.pc \in ReplyPcs
    <2>1. host.pc # "sending" /\ Len(Stream) <= task.n
      BY <1>2 DEF Finished
    <2>2. ~SpiTransfer /\ ~ReplyFetches
      BY <2>1 DEF SpiTransfer, ReplyFetches, HasData
    <2>3. ~ReadHeader
      <3>1. ReadHeader => task.n = 0 /\ Len(ring) >= HeaderSize
        BY DEF ReadHeader, PacketOK
      <3> QED BY <1>0, <2>1, <3>1
    <2>4. CASE ReturnItem /\ Advances(task.n)
      BY <1>0, <2>1, <2>4 DEF Advances
    <2>5. CASE TimerClears /\ Advances(Len(ring))
      <3>1. task'.n = task.n \/ (task.n = 0 /\ ReadPacket)
        BY <2>5, PacketKept
      <3> QED BY <1>0, <2>1, <2>5, <3>1 DEF Advances
    <2>6. CASE Restarts /\ Stream' = <<>>
      BY <1>0, <2>1, <2>6
    <2>7. CASE Rests /\ Stream' = Stream
      <3>1. task'.n = task.n \/ task.n = 0
        BY <2>7, PacketKept
      <3> QED BY <1>0, <2>1, <2>7, <3>1
    <2> QED BY <2>2, <2>3, <2>4, <2>5, <2>6, <2>7, StreamStep DEF StreamMoves
  <1>3. CASE ~(Served \/ task.pc \in ReplyPcs)
    <2>1. ~ReplyEnd
      BY <1>3 DEF ReplyEnd, ReplyPcs
    <2>2. ~Served'
      BY <1>0, <1>3, <2>1, AnswersStay DEF Served
    <2>3. Function /\ task.pc = "handle" /\ Whole
      BY <1>1, <1>3, <2>2, RepliesBegin
    <2>4. host.pc # "sending" /\ Len(Stream) <= task.n
      BY <2>3, WholePacket
    <2>5. Stream' = Stream /\ task'.n = task.n
      <3>1. FnMoves /\ ring' = ring /\ spi' = spi /\ task' \in Tasks(Len(msgs'))
        BY <2>3, FunctionMoves DEF FnUnchanged, ringVars, Typed, TaskOK
      <3>2. task'.n = task.n /\ task'.pc # "store" /\ task.pc # "store"
        BY <2>3, <3>1 DEF FnMoves, Go, Reply, Typed, TaskOK, Tasks
      <3> QED BY <3>1, <3>2 DEF Stream, InAir, AirUnit
    <2> QED BY <1>0, <2>4, <2>5
  <1> QED BY <1>2, <1>3

(* Types of what InStep counts.                                            *)
LEMMA BaseIs ==
    ASSUME Typed
    PROVE  /\ Base \in Int /\ Base = HeaderSize + task.recv - task.n /\ Gap \in {0, 1}
           /\ HeaderSize \in Nat /\ task.recv \in Nat /\ task.n \in Nat
           /\ Len(Stream) \in Nat /\ Len(ring) \in Nat /\ Len(ring) <= Len(Stream)
           /\ DOMAIN Stream = 1 .. Len(Stream) /\ host.k \in Nat
           /\ \A i \in DOMAIN Stream : Stream[i][1] \in Nat /\ Stream[i][2] \in Nat
  <1>1. task.recv \in Nat /\ task.n \in Nat /\ HeaderSize \in Nat
    BY CmdTyped, FsOverBusAssumption
  <1>2. Base \in Int /\ Base = HeaderSize + task.recv - task.n
    BY <1>1 DEF Base
  <1>3. Gap \in {0, 1}
    BY DEF Gap
  <1>4. host.k \in Nat
    BY DEF Typed, HostOK, Hosts
  <1>5. /\ Len(Stream) \in Nat /\ Len(ring) \in Nat /\ Len(ring) <= Len(Stream)
        /\ DOMAIN Stream = 1 .. Len(Stream)
        /\ \A i \in DOMAIN Stream : Stream[i][1] \in Nat /\ Stream[i][2] \in Nat
    BY StreamIs
  <1> QED BY <1>1, <1>2, <1>3, <1>4, <1>5

(* Once a unit of the message is missing, it is missing in every later one *)
(* and in what the host has sent.                                          *)
LEMMA Deficit ==
    ASSUME Typed, PacketOK, Order, Current, InStep, task.pc = "handle", Gap = 1 \/ ~Expected
    PROVE  /\ \A i \in DOMAIN Stream : i >= task.n => Stream[i][2] >= Base + i + 1
           /\ host.k >= Base + Len(Stream) + 1
  <1>1. /\ task.n \in 1 .. task.recv /\ task.n <= Len(ring) /\ Attending /\ task.cmd = Len(msgs)
    BY CmdTyped DEF PacketOK, Attending, Holding, AwaitsAnswer, Current
  <1>2. /\ \A i \in DOMAIN Stream : Stream[i][1] = task.cmd /\ Stream[i][2] >= Base + i + Gap
        /\ host.k >= Base + Len(Stream) + Gap
    BY <1>1 DEF InStep
  <1>t. Base \in Int /\ Gap \in {0, 1} /\ Len(Stream) \in Nat /\ host.k \in Nat
    BY BaseIs
  <1>3. CASE Gap = 1
    BY <1>2, <1>3, BaseIs
  <1>4. CASE ~Expected
    <2>1. PICK j \in 1 .. task.n : ring[j] # <<task.cmd, Base + j>>
      BY <1>4 DEF Expected, Base
    <2>2. j \in DOMAIN Stream /\ j \in Nat /\ j <= task.n /\ j <= Len(Stream)
      BY <1>1, BaseIs
    <2>3. Stream[j] = ring[j] /\ Stream[j] = <<Stream[j][1], Stream[j][2]>>
      <3>1. j \in 1 .. Len(ring) /\ j \in 1 .. Len(Stream)
        BY <1>1, <2>2, BaseIs
      <3> QED BY <3>1, StreamIs
    <2>4. Stream[j][2] >= Base + j + 1
      <3>1. Stream[j][2] # Base + j
        BY <1>2, <2>1, <2>2, <2>3
      <3>2. Stream[j][2] >= Base + j + Gap /\ Stream[j][2] \in Nat
        BY <1>2, <2>2, BaseIs
      <3> QED BY <1>t, <2>2, <3>1, <3>2
    <2>5. ASSUME NEW i \in DOMAIN Stream, i >= task.n
          PROVE  Stream[i][2] >= Base + i + 1
      <3>1. CASE i = j
        BY <2>4, <3>1
      <3>2. CASE i # j
        <4>1. j < i /\ i \in Nat
          BY <2>2, <2>5, <3>2, BaseIs
        <4>2. Follows(Stream[j], Stream[i], i - j)
          BY <2>2, <4>1 DEF Order, Steady
        <4>3. Stream[j][1] = task.cmd /\ Stream[i][1] = task.cmd /\ task.cmd \in Nat
              /\ Stream[j][2] \in Nat /\ Stream[i][2] \in Nat
          BY <1>2, <2>2, BaseIs, CmdTyped
        <4>4. Stream[j][2] + (i - j) <= Stream[i][2]
          BY <4>2, <4>3 DEF Follows
        <4>5. ASSUME NEW a \in Nat, NEW b \in Nat, NEW x \in Nat, NEW y \in Nat, NEW z \in Int,
                     x + (b - a) <= y, x >= z + a + 1
              PROVE  y >= z + b + 1
          BY <4>5
        <4> QED BY <1>t, <2>2, <2>4, <4>1, <4>3, <4>4, <4>5
      <3> QED BY <3>1, <3>2
    <2>6. host.k >= Base + Len(Stream) + 1
      <3>1. Follows(Stream[j], <<Len(msgs), host.k>>, Len(Stream) - j)
        BY <2>2 DEF Order, Behind
      <3>2. Stream[j][1] = Len(msgs) /\ Len(msgs) \in Nat /\ Stream[j][2] \in Nat
        BY <1>1, <1>2, <2>2, BaseIs, CmdTyped
      <3>3. Stream[j][2] + (Len(Stream) - j) <= host.k
        BY <3>1, <3>2 DEF Follows
      <3> QED BY <1>t, <2>2, <2>4, <3>2, <3>3
    <2> QED BY <2>5, <2>6
  <1> QED BY <1>3, <1>4

(* A whole message misses nothing.                                         *)
LEMMA WholeIsPure ==
    ASSUME Typed, PacketOK, Order, Current, InStep, task.pc = "handle", Whole
    PROVE  Expected /\ Gap = 0
  <1>1. SUFFICES ASSUME Gap = 1 \/ ~Expected PROVE FALSE
    BY BaseIs
  <1>2. /\ task.n \in 1 .. task.recv /\ task.n <= Len(ring) /\ Attending
    BY CmdTyped DEF PacketOK, Attending, Holding
  <1>3. /\ task.n \in DOMAIN Stream /\ Stream[task.n][1] = task.cmd /\ task.n \in Nat
        /\ Stream[task.n][2] \in Nat
    <2>1. task.n \in DOMAIN Stream /\ task.n \in Nat
      BY <1>2, BaseIs
    <2>2. \A i \in DOMAIN Stream : Stream[i][1] = task.cmd
      BY <1>2 DEF InStep
    <2> QED BY <2>1, <2>2, BaseIs
  <1>4. Stream[task.n][2] >= Base + task.n + 1
    <2>1. task.n >= task.n
      BY <1>3
    <2> QED BY <1>1, <1>3, <2>1, Deficit
  <1>5. Stream[task.n][2] <= HeaderSize + Size(task.cmd)
    BY <1>3 DEF Order, Genuine
  <1>6. Base + task.n = HeaderSize + Size(task.cmd) /\ Size(task.cmd) \in Nat
    BY BaseIs DEF Whole
  <1> QED BY <1>3, <1>4, <1>5, <1>6, BaseIs

(* Steps that leave the upload, and those that move the stream by as many  *)
(* units as the packet.                                                    *)
LEMMA GapKept ==
    ASSUME msgs' = msgs, task'.cmd = task.cmd, fptr' = fptr, tmp' = tmp, Received' = Received
    PROVE  Gap' = Gap
  <1>1. Uploading' <=> Uploading
    BY DEF Uploading, Cmd
  <1> QED BY <1>1 DEF Gap

LEMMA InStepMoves ==
    ASSUME Typed, Typed', InStep, Attending, task'.cmd = task.cmd, Gap' = Gap, host'.k = host.k,
           NEW d \in Nat, d <= Len(Stream), Advances(d), Base' <= Base + d,
           \A i \in DOMAIN Stream' : (task'.pc = "handle" \/ i > task'.n) =>
             (task.pc = "handle" \/ i + d > task.n)
    PROVE  InStep'
  <1>0. Base' \in Int /\ Len(Stream') \in Nat /\ DOMAIN Stream' = 1 .. Len(Stream')
        /\ Len(Stream') = Len(Stream) - d
    BY StreamIsNext, FsOverBusAssumption DEF Base, Typed, TaskOK, Tasks, Advances
  <1>1. ASSUME NEW i \in DOMAIN Stream', task'.pc = "handle" \/ i > task'.n
        PROVE  Stream'[i][1] = task.cmd /\ Stream'[i][2] >= Base' + i + Gap
    <2>1. i + d \in DOMAIN Stream /\ Stream'[i] = Stream[i + d] /\ i \in Nat
      <3>1. Len(Stream) \in Nat /\ DOMAIN Stream = 1 .. Len(Stream)
        BY BaseIs
      <3>2. i \in 1 .. Len(Stream') /\ i \in Nat
        BY <1>0
      <3> QED BY <1>0, <3>1, <3>2 DEF Advances
    <2>2. Stream[i + d][1] = task.cmd /\ Stream[i + d][2] >= Base + (i + d) + Gap
      BY <1>1, <2>1 DEF InStep
    <2>3. Stream[i + d][2] \in Nat /\ Base \in Int /\ Gap \in {0, 1}
      BY <2>1, BaseIs
    <2>4. ASSUME NEW y \in Nat, NEW x \in Nat, NEW g \in {0, 1}, NEW b \in Int, NEW c \in Int,
                 c <= b + d, y >= b + (x + d) + g
          PROVE  y >= c + x + g
      BY <2>4
    <2>5. Stream[i + d][2] >= Base' + i + Gap
      BY <1>0, <2>1, <2>2, <2>3, <2>4
    <2> QED BY <2>1, <2>2, <2>5
  <1>2. host.k >= Base' + Len(Stream') + Gap
    <2>1. host.k >= Base + Len(Stream) + Gap
      BY DEF InStep
    <2>2. Base \in Int /\ Gap \in {0, 1} /\ Len(Stream) \in Nat /\ host.k \in Nat
      BY BaseIs
    <2> QED BY <1>0, <2>1, <2>2
  <1> QED BY <1>1, <1>2 DEF InStep

(* What a function leaves missing was missing, in the packet or before.    *)
LEMMA FunctionGap ==
    ASSUME Typed, Typed', Function, task.pc = "handle", PacketOK
    PROVE  /\ task'.cmd = task.cmd /\ task'.recv = task.recv /\ task'.n = task.n
           /\ task'.pc # "handle" /\ msgs' = msgs /\ host' = host
           /\ Gap' = 1 => Gap = 1 \/ ~Expected
  <1>0. task \in Tasks(Len(msgs))
    BY DEF Typed, TaskOK
  <1>1. /\ task'.cmd = task.cmd /\ task'.recv = task.recv /\ task'.n = task.n
        /\ task'.pc # "handle" /\ msgs' = msgs /\ host' = host
    <2>1. FnMoves /\ FnUnchanged
      BY FunctionMoves
    <2> QED BY <1>0, <2>1 DEF FnMoves, Go, Reply, FnUnchanged, hostVars, Tasks
  <1>2. Cmd' = Cmd /\ task.cmd # 0
    BY <1>1, CmdTyped DEF Cmd
  <1>3. ASSUME Gap' = 1 PROVE Gap = 1 \/ ~Expected
    <2>1. Uploading' /\ ~tmp'[fptr'].pure
      BY <1>3 DEF Gap
    <2>2. fptr' # NULL /\ Cmd.kind = "writefile"
      BY <1>2, <2>1 DEF Uploading
    <2>3. ~(WriteNoName \/ WriteNameTooLong \/ WriteOpenFails \/ WriteFailed)
      BY <2>2 DEF WriteNoName, WriteNameTooLong, WriteOpenFails, WriteFailed, Opening
    <2>4. WriteOpen \/ WriteMore
      BY <2>2, <2>3 DEF Function, Heartbeat, DelayOver, Close, Remove, Rename, Partial,
         DelFile, CopyRefused, CopyOpen, CopyWrite, Unlink, ExecFile, Called, Copies
    <2>5. CASE WriteOpen
      <3>1. fptr' = Cmd.file /\ Cmd.file \in Files /\ tmp \in [Files -> Contents]
        BY <1>2, <2>5, CmdTyped DEF WriteOpen, Typed, FileOK
      <3>2. tmp'[fptr'].pure = Expected
        BY <2>5, <3>1 DEF WriteOpen
      <3> QED BY <2>1, <3>2, Zenon
    <2>6. CASE WriteMore
      <3>1. /\ ~First /\ fptr # NULL /\ fptr \in Files /\ fptr' = fptr
            /\ tmp' = [tmp EXCEPT ![fptr].len = @ + task.n, ![fptr].pure = @ /\ Expected]
            /\ tmp \in [Files -> Contents]
        BY <2>6 DEF WriteMore, Opening, Typed, FileOK
      <3>2. tmp'[fptr].pure = (tmp[fptr].pure /\ Expected)
        BY <3>1 DEF Contents
      <3>3. ~(tmp[fptr].pure /\ Expected)
        BY <2>1, <3>1, <3>2, Zenon
      <3>4. Uploading
        <4>1. task.recv \in Nat /\ task.n \in 1 .. task.recv /\ task.recv # task.n
          BY <3>1, CmdTyped DEF PacketOK, First
        <4>2. Received > 0
          BY <4>1 DEF Received
        <4> QED BY <1>2, <2>2, <3>1, <4>2 DEF Uploading
      <3>5. CASE ~tmp[fptr].pure
        BY <3>4, <3>5 DEF Gap
      <3> QED BY <3>3, <3>5
    <2> QED BY <2>4, <2>5, <2>6
  <1> QED BY <1>1, <1>3

(* A message that is parsed starts in step.                                *)
LEMMA InStepParsed ==
    ASSUME Typed, Typed', PacketOK, Order, Latest, ReadHeader, receiving', Advances(HeaderSize),
           msgs' = msgs, host'.k = host.k
    PROVE  InStep'
  <1>1. /\ task'.recv = 0 /\ task'.n = 0 /\ task.n = 0 /\ HeaderSize \in DOMAIN ring
        /\ ring[HeaderSize] = <<task'.cmd, HeaderSize>> /\ task'.pc \in {"wait", "loop"}
    BY ParsedHeader DEF ReadHeader, PacketOK
  <1>2. Base' = HeaderSize /\ Gap' = 0 /\ HeaderSize \in Nat /\ HeaderSize >= 1
    BY <1>1, FsOverBusAssumption DEF Base, Gap, Uploading, Received
  <1>3. /\ HeaderSize \in DOMAIN Stream /\ Stream[HeaderSize] = <<task'.cmd, HeaderSize>>
        /\ HeaderSize \in 1 .. Len(Stream)
    <2>1. /\ DOMAIN Stream = 1 .. Len(Stream) /\ DOMAIN ring = 1 .. Len(ring)
          /\ Len(ring) <= Len(Stream) /\ Len(ring) \in Nat /\ Len(Stream) \in Nat
          /\ \A i \in 1 .. Len(ring) : Stream[i] = ring[i]
      BY StreamIs
    <2>2. HeaderSize \in 1 .. Len(ring) /\ HeaderSize \in 1 .. Len(Stream)
      BY <1>1, <2>1
    <2> QED BY <1>1, <2>1, <2>2
  <1>4. Len(Stream) \in Nat /\ Len(Stream') = Len(Stream) - HeaderSize
        /\ DOMAIN Stream' = 1 .. Len(Stream')
    BY StreamIsNext, BaseIs DEF Advances
  <1>5. task'.cmd = Len(msgs) /\ Len(msgs) \in Nat
    <2>1. HeaderSize > task.n
      BY <1>1, <1>2
    <2>2. Stream[HeaderSize][1] = Len(msgs)
      BY <1>3, <2>1 DEF Latest
    <2> QED BY <1>3, <2>2, CmdTyped
  <1>6. ASSUME NEW i \in DOMAIN Stream'
        PROVE  Stream'[i][1] = task'.cmd /\ Stream'[i][2] >= HeaderSize + i
    <2>1. /\ i + HeaderSize \in DOMAIN Stream /\ Stream'[i] = Stream[i + HeaderSize]
          /\ i \in Nat /\ i + HeaderSize > task.n /\ HeaderSize < i + HeaderSize
          /\ (i + HeaderSize) - HeaderSize = i
      BY <1>1, <1>2, <1>4, BaseIs DEF Advances
    <2>2. Stream[i + HeaderSize][1] = Len(msgs)
      BY <2>1 DEF Latest
    <2>3. Follows(Stream[HeaderSize], Stream[i + HeaderSize], i)
      BY <1>3, <2>1 DEF Order, Steady
    <2>4. Stream[HeaderSize][1] = Len(msgs) /\ Stream[HeaderSize][2] = HeaderSize
      BY <1>3, <1>5
    <2> QED BY <1>2, <1>5, <2>1, <2>2, <2>3, <2>4 DEF Follows
  <1>7. host.k >= HeaderSize + Len(Stream')
    <2>1. Follows(<<Len(msgs), HeaderSize>>, <<Len(msgs), host.k>>, Len(Stream) - HeaderSize)
      BY <1>3, <1>5 DEF Order, Behind
    <2>2. host.k \in Nat
      BY BaseIs
    <2> QED BY <1>2, <1>4, <1>5, <2>1, <2>2 DEF Follows
  <1>8. HeaderSize + Len(Stream') + 0 = HeaderSize + Len(Stream')
        /\ \A i \in DOMAIN Stream' : HeaderSize + i + 0 = HeaderSize + i
    BY <1>2, <1>4
  <1> QED BY <1>2, <1>6, <1>7, <1>8 DEF InStep

(* A unit that is fetched is in step.                                      *)
LEMMA InStepFetched ==
    ASSUME Typed, Typed', PacketOK, Current, InStep, Replies, SpiTransfer \/ ReplyFetches,
           Stream' = Append(Stream, NextUnit)
    PROVE  InStep'
  <1>1. SUFFICES ASSUME Attending' PROVE InStep'
    BY DEF InStep
  <1>2. HasData /\ Fetched /\ msgs' = msgs /\ fptr' = fptr /\ tmp' = tmp /\ receiving' = receiving
    BY DEF SpiTransfer, ReplyFetches, SpiUnchanged, SendUnchanged, recvVars, fileVars
  <1>3. SpiTransfer /\ task' = task
    <2>1. SUFFICES ASSUME ReplyFetches PROVE FALSE
      BY DEF SpiTransfer, SpiUnchanged
    <2>2. /\ task'.pc = "store" /\ task'.recv = task.recv /\ task'.cmd = task.cmd
          /\ task.pc = "sending"
      BY <2>1 DEF ReplyFetches, Typed, TaskOK, Tasks
    <2>3. task.recv = Size(task.cmd) /\ task.cmd # 0 /\ Size(task.cmd) \in Nat
      BY <2>2, CmdTyped DEF Replies, WholeReply, ReplyPcs
    <2>4. Size(task.cmd)' = Size(task.cmd)
      BY <1>2, <2>2 DEF Size
    <2> QED BY <1>1, <2>2, <2>3, <2>4 DEF Attending
  <1>4. Attending
    BY <1>1, <1>2, <1>3 DEF Attending, Holding, Size
  <1>5. task.cmd = Len(msgs)
    BY <1>4 DEF Attending, AwaitsAnswer, Current
  <1>6. Gap' = Gap /\ Base' = Base /\ host'.k = host.k + 1 /\ host.k \in Nat
    BY <1>2, <1>3, GapKept DEF Base, Received, Fetched, Typed, HostOK, Hosts
  <1>7. /\ DOMAIN Stream' = 1 .. Len(Stream) + 1 /\ Len(Stream') = Len(Stream) + 1
        /\ \A i \in 1 .. Len(Stream) : Stream'[i] = Stream[i]
        /\ Stream'[Len(Stream) + 1] = <<Len(msgs), host.k + 1>>
    <2>1. Stream \in Seq(Units) /\ NextUnit \in Units /\ NextUnit = <<Len(msgs), host.k + 1>>
      BY <1>2, StreamIs, UnitsOK DEF NextUnit
    <2> QED BY <2>1
  <1>8. host.k >= Base + Len(Stream) + Gap
    BY <1>4 DEF InStep
  <1>9. host'.k >= Base + Len(Stream') + Gap
    BY <1>6, <1>7, <1>8, BaseIs
  <1>10. ASSUME NEW i \in DOMAIN Stream', task.pc = "handle" \/ i > task.n
         PROVE  Stream'[i][1] = task.cmd /\ Stream'[i][2] >= Base + i + Gap
    <2>1. CASE i \in 1 .. Len(Stream)
      BY <1>4, <1>7, <1>10, <2>1, BaseIs DEF InStep
    <2>2. CASE i = Len(Stream) + 1
      <3>1. Stream'[i] = <<Len(msgs), host.k + 1>>
        BY <1>7, <2>2
      <3>2. host.k + 1 >= Base + (Len(Stream) + 1) + Gap
        BY <1>6, <1>8, BaseIs
      <3> QED BY <1>5, <2>2, <3>1, <3>2
    <2>3. i \in 1 .. Len(Stream) \/ i = Len(Stream) + 1
      BY <1>7, BaseIs
    <2> QED BY <2>1, <2>2, <2>3
  <1> QED BY <1>3, <1>6, <1>9, <1>10 DEF InStep

(* The steps of the others, and of fsob_task between packets.              *)
LEMMA InStepRests ==
    ASSUME Typed, Typed', Step, ~HostBegin, ~Function, Rests, Stream' = Stream, Mutex, PacketOK,
           Replies, InStep
    PROVE  InStep'
  <1>1. SUFFICES ASSUME Attending' PROVE InStep'
    BY DEF InStep
  <1>0. task \in Tasks(Len(msgs)) /\ task' \in Tasks(Len(msgs'))
    BY DEF Typed, TaskOK
  <1>2. msgs' = msgs /\ host'.k = host.k /\ UNCHANGED <<fptr, tmp>>
    <2>1. UNCHANGED <<fptr, tmp>>
      BY DEF Rests, HostBegin, HostAnswered, HostGivesUp, SpiBegin, SpiStore, SpiEnd, SpiUnchanged,
         TimerFires, Wake, AwaitHeader, ReadPacket, ReadNothing, ReplyBegin, ReplyStore,
         ReplyEnd, SendUnchanged, fileVars, vars
    <2> QED BY <2>1, HostKeptBy DEF HostKept
  <1>3. CASE ReplyBegin \/ ReplyStore \/ ReplyEnd
    <2>1. /\ task'.recv = task.recv /\ task'.cmd = task.cmd /\ task'.pc # "handle"
          /\ task.pc \in {"reply", "sending", "store"}
      BY <1>0, <1>3 DEF ReplyBegin, ReplyStore, ReplyEnd, Tasks
    <2>2. task.recv = Size(task.cmd) /\ task.cmd # 0 /\ Size(task.cmd) \in Nat
      BY <2>1, CmdTyped DEF Replies, WholeReply, ReplyPcs
    <2>3. Size(task.cmd)' = Size(task.cmd)
      BY <1>2, <2>1 DEF Size
    <2> QED BY <1>1, <2>1, <2>2, <2>3 DEF Attending
  <1>4. CASE ReadPacket
    <2>1. /\ task'.cmd = task.cmd /\ task.n = 0 /\ task'.n \in Nat /\ task'.recv = task.recv + task'.n
          /\ task'.pc = "handle" /\ task.pc = "loop" /\ ~task.stale
      <3>1. task'.pc = "handle" /\ task.pc = "loop"
        BY <1>0, <1>4 DEF ReadPacket, Tasks
      <3>2. ~task.stale /\ task.n = 0
        BY <3>1 DEF PacketOK
      <3>3. /\ task'.cmd = task.cmd /\ task'.recv = task.recv + task'.n /\ task'.n \in Nat
        <4>1. PICK n \in 1 .. Least(MaxRead, Len(ring)) :
                task' = [task EXCEPT !.pc = "handle", !.n = n, !.recv = @ + n]
          BY <1>4 DEF ReadPacket
        <4>2. task'.cmd = task.cmd /\ task'.n = n /\ task'.recv = task.recv + n
          BY <1>0, <4>1 DEF Tasks
        <4> QED BY <1>0, <4>2 DEF Tasks
      <3> QED BY <3>1, <3>2, <3>3
    <2>2. Attending
      BY <1>4, <2>1, PacketRead DEF Attending
    <2>3. Received' = Received
      BY <2>1, BaseIs DEF Received
    <2>4. Gap' = Gap
      BY <1>2, <2>1, <2>3, GapKept
    <2>5. Base' = Base
      BY <2>1, BaseIs DEF Base
    <2>6. Advances(0)
      BY BaseIs DEF Advances
    <2>7. Base' <= Base + 0
      BY <2>5, BaseIs
    <2>8. \A i \in DOMAIN Stream' : i + 0 > task.n
      BY <2>1, BaseIs
    <2> QED BY <1>2, <2>1, <2>2, <2>4, <2>6, <2>7, <2>8, BaseIs, InStepMoves
  <1>5. CASE HostAnswered \/ HostGivesUp \/ SpiBegin \/ SpiStore \/ SpiEnd \/ TimerFires
             \/ Wake \/ AwaitHeader \/ ReadNothing \/ UNCHANGED vars
    <2>1. /\ task'.cmd = task.cmd /\ task'.recv = task.recv /\ task'.n = task.n
          /\ task'.stale = task.stale /\ (receiving' => receiving)
          /\ task'.pc = task.pc \/ (task.pc \in {"wait", "loop"} /\ task'.pc \in {"wait", "loop"})
      BY <1>0, <1>5 DEF HostAnswered, HostGivesUp, SpiBegin, SpiStore, SpiEnd, SpiUnchanged, TimerFires,
         Wake, AwaitHeader, ReadNothing, Continue, recvVars, vars, Tasks
    <2>2. (task'.pc = "handle" <=> task.pc = "handle") /\ (Holding' <=> Holding)
      BY <2>1 DEF Holding
    <2>3. Size(task.cmd)' = Size(task.cmd)
      BY <1>2, <2>1 DEF Size
    <2>4. Attending
      BY <1>1, <2>1, <2>2, <2>3, Zenon DEF Attending
    <2>5. Received' = Received
      BY <2>1, <2>2 DEF Received
    <2>6. Gap' = Gap /\ Base' = Base
      BY <1>2, <2>1, <2>5, GapKept DEF Base
    <2>7. Advances(0)
      BY BaseIs DEF Advances
    <2>8. Base' <= Base + 0 /\ \A i \in DOMAIN Stream' : i + 0 = i
      BY <2>6, BaseIs
    <2>9. 0 \in Nat /\ 0 <= Len(Stream)
      BY BaseIs
    <2> QED BY <1>2, <2>1, <2>2, <2>4, <2>6, <2>7, <2>8, <2>9, InStepMoves
  <1> QED BY <1>3, <1>4, <1>5 DEF Rests

(* The functions: what is out of step stays out of step.                   *)
LEMMA InStepFunction ==
    ASSUME Typed, Typed', Function, Stream' = Stream, PacketOK, Replies, Order, Current, InStep,
           UploadCounted
    PROVE  InStep'
  <1>1. SUFFICES ASSUME Attending' PROVE InStep'
    BY DEF InStep
  <1>0. task \in Tasks(Len(msgs))
    BY DEF Typed, TaskOK
  <1>2. /\ task'.cmd = task.cmd /\ task'.recv = task.recv /\ task'.n = task.n /\ task'.stale = task.stale
        /\ msgs' = msgs /\ host' = host /\ receiving' = receiving /\ task'.pc # "handle"
        /\ task.pc \in FnPcs
    <2>1. FnMoves /\ FnUnchanged
      BY FunctionMoves
    <2> QED BY <1>0, <2>1, FunctionPcs DEF FnMoves, Go, Reply, FnUnchanged, hostVars, recvVars, Tasks
  <1>3. task.cmd # 0 /\ task.recv < Size(task.cmd) /\ Size(task.cmd) \in Nat
    <2>1. task.cmd # 0
      BY <1>2, CmdTyped DEF FnPcs
    <2>2. Size(task.cmd)' = Size(task.cmd)
      BY <1>2 DEF Size
    <2> QED BY <1>1, <1>2, <2>1, <2>2, CmdTyped DEF Attending
  <1>4. Attending
    <2>1. Holding /\ ~task.stale
      BY <1>1, <1>2 DEF Attending, Holding, FnPcs
    <2> QED BY <1>3, <2>1 DEF Attending
  <1>5. Base' = Base
    BY <1>2 DEF Base
  <1>6. CASE task.pc = "handle"
    <2>1. Gap' = 1 => Gap = 1 \/ ~Expected
      BY <1>6, FunctionGap
    <2>2. Gap' \in {0, 1}
      BY DEF Gap
    <2>3. /\ \A i \in DOMAIN Stream : Stream[i][1] = task.cmd /\ Stream[i][2] >= Base + i + Gap
          /\ host.k >= Base + Len(Stream) + Gap
      BY <1>4, <1>6 DEF InStep
    <2>4. CASE Gap' = 1
      <3>1. \A i \in DOMAIN Stream : i >= task.n => Stream[i][2] >= Base + i + 1
        BY <1>6, <2>1, <2>4, Deficit
      <3>2. host.k >= Base + Len(Stream) + 1
        BY <1>6, <2>1, <2>4, Deficit
      <3>3. \A i \in DOMAIN Stream : i > task.n => i >= task.n
        BY BaseIs
      <3> QED BY <1>2, <1>5, <2>3, <2>4, <3>1, <3>2, <3>3 DEF InStep
    <2>5. CASE Gap' = 0
      <3>1. ASSUME NEW i \in DOMAIN Stream PROVE Stream[i][2] >= Base + i + 0
        <4>1. Stream[i][2] >= Base + i + Gap /\ Stream[i][2] \in Nat /\ i \in Nat
          BY <2>3, BaseIs
        <4>2. Base \in Int /\ Gap \in {0, 1}
          BY BaseIs
        <4> QED BY <4>1, <4>2
      <3>2. host.k >= Base + Len(Stream) + 0
        BY <2>3, BaseIs
      <3> QED BY <1>2, <1>5, <2>3, <2>5, <3>1, <3>2 DEF InStep
    <2> QED BY <2>2, <2>4, <2>5
  <1>7. CASE task.pc = "delay"
    <2>1. DelayOver
      BY <1>7 DEF Function, Heartbeat, WriteNoName, WriteNameTooLong, WriteOpen, WriteOpenFails,
         WriteMore, WriteFailed, Writing, Close, Remove, Rename, Partial, DelFile, CopyRefused,
         CopyOpen, CopyWrite, Unlink, ExecFile, Called
    <2>2. UNCHANGED <<fptr, tmp>> /\ Received' = Received
      BY <1>2, <1>7, <2>1 DEF DelayOver, fileVars, Received
    <2>3. Gap' = Gap
      BY <1>2, <2>2, GapKept
    <2>4. Advances(0)
      BY BaseIs DEF Advances
    <2>5. Base' <= Base + 0 /\ \A i \in DOMAIN Stream' : i + 0 = i
      BY <1>5, BaseIs
    <2>6. 0 \in Nat /\ 0 <= Len(Stream)
      BY BaseIs
    <2> QED BY <1>2, <1>4, <2>3, <2>4, <2>5, <2>6, InStepMoves
  <1>8. CASE task.pc \in {"close", "remove", "rename"}
    BY <1>3, <1>8, CmdTyped DEF UploadCounted, Closing, Whole
  <1>9. CASE task.pc \in {"copy", "unlink"}
    BY <1>3, <1>9, CmdTyped DEF Replies, WholeReply, ReplyPcs
  <1> QED BY <1>2, <1>6, <1>7, <1>8, <1>9 DEF FnPcs

(* InStep is kept.                                                         *)
LEMMA InStepStep ==
    ASSUME Typed, Typed', Step, ~HostBegin, Mutex, PacketOK, Replies, Order, Current, Latest, InStep,
           UploadCounted
    PROVE  InStep'
  <1>0. /\ task \in Tasks(Len(msgs)) /\ msgs' = msgs
        /\ ~(SpiTransfer \/ ReplyFetches) => host'.k = host.k
    BY MsgsStay DEF Typed, TaskOK
  <1>n. DOMAIN Stream' = 1 .. Len(Stream') /\ Len(Stream') \in Nat
    BY StreamIsNext
  <1>1. CASE (SpiTransfer \/ ReplyFetches) /\ Stream' = Append(Stream, NextUnit)
    BY <1>1, InStepFetched
  <1>2. CASE ReturnItem /\ Advances(task.n)
    <2>1. SUFFICES ASSUME Attending' PROVE InStep'
      BY DEF InStep
    <2>2. /\ task'.cmd = task.cmd /\ task'.recv = task.recv /\ task'.n = 0 /\ ~task.stale
          /\ task.pc = "return" /\ task'.pc \in {"wait", "loop"} /\ UNCHANGED <<fptr, tmp>>
          /\ host'.k = host.k
      BY <1>0, <1>2 DEF ReturnItem, Continue, fileVars, TaskUnchanged, hostVars, Tasks
    <2>3. Size(task.cmd)' = Size(task.cmd)
      BY <1>0, <2>2 DEF Size
    <2>4. Attending
      BY <2>1, <2>2, <2>3 DEF Attending, Holding
    <2>5. Received' = Received
      BY <2>2 DEF Received
    <2>6. Gap' = Gap
      BY <1>0, <2>2, <2>5, GapKept
    <2>7. Base' = Base + task.n /\ task.n \in Nat /\ task.n <= Len(Stream)
      <3>1. HeaderSize \in Nat /\ task.recv \in Nat /\ task.n \in Nat /\ task.n <= Len(Stream)
        BY <2>2, BaseIs DEF PacketOK
      <3>2. Base = HeaderSize + task.recv - task.n /\ Base' = HeaderSize + task.recv - 0
        BY <2>2 DEF Base
      <3> QED BY <3>1, <3>2
    <2>8. \A i \in DOMAIN Stream' : i > 0 => i + task.n > task.n
      <3>1. ASSUME NEW i \in DOMAIN Stream', i > 0 PROVE i + task.n > task.n
        <4>1. i \in Nat /\ task.n \in Nat
          BY <1>n, <2>7
        <4> QED BY <3>1, <4>1
      <3> QED BY <3>1
    <2>9. Base' <= Base + task.n
      BY <2>7, BaseIs
    <2> QED BY <1>2, <2>2, <2>4, <2>6, <2>7, <2>8, <2>9, InStepMoves
  <1>3. CASE ReadHeader /\ receiving' /\ Advances(HeaderSize)
    BY <1>0, <1>3, InStepParsed DEF ReadHeader, SpiTransfer, ReplyFetches, TaskUnchanged, hostVars
  <1>4. CASE ReadHeader /\ ~receiving'
    <2>1. task' = task /\ task.pc = "loop"
      BY <1>4 DEF ReadHeader
    <2>2. ~Attending'
      BY <1>4, <2>1 DEF Attending, Holding
    <2> QED BY <2>2 DEF InStep
  <1>5. CASE TimerClears /\ Advances(Len(ring))
    <2>1. SUFFICES ASSUME Attending' PROVE InStep'
      BY DEF InStep
    <2>2. /\ task'.cmd = task.cmd /\ task'.recv = task.recv /\ task'.n = task.n
          /\ task'.pc = task.pc /\ task'.stale = Holding /\ UNCHANGED <<fptr, tmp>>
          /\ host'.k = host.k /\ receiving' = receiving
      BY <1>0, <1>5 DEF TimerClears, fileVars, hostVars, Tasks
    <2>3. ~Holding
      BY <2>1, <2>2, Zenon DEF Attending
    <2>4. task.pc \in {"wait", "loop"} /\ task.n = 0 /\ ~task.stale
      BY <2>3 DEF Holding, PacketOK
    <2>5. Size(task.cmd)' = Size(task.cmd)
      BY <1>0, <2>2 DEF Size
    <2>6. Attending
      BY <2>1, <2>2, <2>4, <2>5 DEF Attending, Holding
    <2>7. Received' = Received
      BY <2>2 DEF Received
    <2>8. Gap' = Gap /\ Base' = Base
      BY <1>0, <2>2, <2>7, GapKept DEF Base
    <2>9. Base' <= Base + Len(ring) /\ Len(ring) \in Nat /\ Len(ring) <= Len(Stream)
      BY <2>8, BaseIs
    <2>10. \A i \in DOMAIN Stream' : i + Len(ring) > task.n
      <3>1. ASSUME NEW i \in DOMAIN Stream' PROVE i + Len(ring) > 0
        <4>1. i \in Nat /\ i > 0 /\ Len(ring) \in Nat
          BY <1>n, <2>9
        <4> QED BY <4>1
      <3> QED BY <2>4, <3>1
    <2>11. task'.cmd = task.cmd /\ host'.k = host.k /\ Gap' = Gap /\ Advances(Len(ring))
      BY <1>5, <2>2, <2>8
    <2> QED BY <2>6, <2>9, <2>10, <2>11, InStepMoves
  <1>6. CASE Restarts
    <2>1. task'.cmd = 0
      BY <1>6, RestartEffect DEF Restart, TaskInit
    <2> QED BY <2>1 DEF InStep, Attending
  <1>7. CASE Rests /\ Stream' = Stream
    BY <1>7, InStepRests, InStepFunction
  <1> QED BY <1>1, <1>2, <1>3, <1>4, <1>5, <1>6, <1>7, StreamStep DEF StreamMoves

(* Only a whole upload comes to a file.                                    *)
LEMMA PurelyStep ==
    ASSUME Typed, Typed', Step, PacketOK, UploadCounted, Order, Current, InStep, Purely
    PROVE  Purely'
  <1>0. /\ task \in Tasks(Len(msgs)) /\ task.recv \in Nat
        /\ files \in [Files -> Contents] /\ tmp \in [Files -> Contents] /\ fptr \in Files \cup {NULL}
        /\ NoFile.pure /\ Torn.pure
    BY CmdTyped DEF Typed, TaskOK, FileOK, NoFile, Torn
  <1>p. \A f \in Files : files[f].pure
    BY DEF Purely
  <1>a. ASSUME files' = files, tmp' = tmp, fptr' = fptr, Closing' => Closing PROVE Purely'
    BY <1>a DEF Purely
  <1>b. ASSUME \A f \in Files : files'[f].pure, ~Closing' PROVE Purely'
    BY <1>b DEF Purely
  <1>1. CASE ~Function /\ ~Restarts
    <2>1. UNCHANGED <<files, tmp, fptr>>
      BY <1>1 DEF Step, HostBegin, HostAnswered, HostGivesUp, SpiBegin, SpiTransfer, SpiStore,
         SpiEnd, SpiUnchanged, TimerFires, TimerClears, Wake, ReadHeader, AwaitHeader, ReadPacket,
         ReadNothing, ReturnItem, ReplyBegin, ReplyFetches, ReplyStore, ReplyEnd, SendUnchanged,
         fileVars, vars
    <2>2. CASE ReplyBegin \/ ReplyFetches \/ ReplyStore \/ ReplyEnd
      <3>1. /\ task.pc \in ReplyingPcs
            /\ \/ task'.pc \in ReplyingPcs /\ task'.next = task.next
               \/ task'.pc = task.next /\ task'.pc \in {"wait", "close", "sleep", "return"}
        BY <1>0, <2>2 DEF ReplyBegin, ReplyFetches, ReplyStore, ReplyEnd, Tasks, ReplyingPcs
      <3>2. Closing' => Closing
        BY <3>1 DEF Closing, ReplyingPcs
      <3> QED BY <1>a, <2>1, <3>2
    <2>3. CASE ~(ReplyBegin \/ ReplyFetches \/ ReplyStore \/ ReplyEnd)
      <3>1. /\ task'.next = task.next
            /\ task'.pc = task.pc \/ task'.pc \in {"wait", "loop", "handle"}
        BY <1>0, <1>1, <2>3 DEF Step, HostBegin, HostAnswered, HostGivesUp, SpiBegin, SpiTransfer,
           SpiStore, SpiEnd, SpiUnchanged, TimerFires, TimerClears, Wake, ReadHeader, AwaitHeader,
           ReadPacket, ReadNothing, ReturnItem, Continue, vars, Tasks
      <3>2. Closing' => Closing
        BY <3>1 DEF Closing, ReplyingPcs
      <3> QED BY <1>a, <2>1, <3>2
    <2> QED BY <2>2, <2>3
  <1>2. CASE Restarts
    <2>1. files' = files /\ task'.pc = "wait"
      BY <1>2, RestartEffect DEF Restart, TaskInit
    <2> QED BY <1>b, <1>p, <2>1 DEF Closing, ReplyingPcs
  <1>3. CASE WriteNoName \/ WriteNameTooLong \/ WriteOpenFails \/ WriteFailed \/ Heartbeat \/ DelayOver
             \/ Partial \/ CopyRefused \/ ExecFile
    <2>1. files' = files
      BY <1>3 DEF WriteNoName, WriteNameTooLong, WriteOpenFails, WriteFailed, Heartbeat, DelayOver,
         Partial, CopyRefused, ExecFile, fileVars
    <2>2. Back \/ Reply("er", "return") \/ Reply("ok", "return") \/ Reply("ok", "sleep")
      BY <1>3 DEF WriteNoName, WriteNameTooLong, WriteOpenFails, WriteFailed, Heartbeat,
         DelayOver, Partial, CopyRefused, ExecFile
    <2>3. task'.pc = "return" \/ (task'.pc = "reply" /\ task'.next \in {"return", "sleep"})
      BY <1>0, <2>2 DEF Back, Reply, Tasks
    <2>4. ~Closing'
      BY <2>3 DEF Closing, ReplyingPcs
    <2> QED BY <1>b, <1>p, <2>1, <2>4
  <1>4. CASE DelFile \/ CopyOpen \/ CopyWrite \/ Unlink
    <2>1. \A f \in Files : files'[f].pure
      <3>1. CASE DelFile \/ CopyOpen \/ Unlink
        BY <1>0, <1>p, <3>1 DEF DelFile, CopyOpen, Unlink
      <3>2. CASE CopyWrite
        <4>1. Cmd.file \in Files
          BY <3>2, CmdTyped DEF CopyWrite
        <4> QED BY <1>0, <1>p, <3>2, <4>1 DEF CopyWrite
      <3> QED BY <1>4, <3>1, <3>2
    <2>2. Go("copy") \/ Go("unlink") \/ Reply("er", "return") \/ Reply("ok", "return")
      BY <1>4 DEF DelFile, CopyOpen, CopyWrite, Unlink, Go
    <2>3. task'.pc \in {"copy", "unlink"} \/ (task'.pc = "reply" /\ task'.next = "return")
      BY <1>0, <2>2 DEF Go, Reply, Tasks
    <2>4. ~Closing'
      BY <2>3 DEF Closing, ReplyingPcs
    <2> QED BY <1>b, <2>1, <2>4
  <1>5. CASE WriteOpen \/ WriteMore
    <2>1. files' = files /\ task.pc = "handle" /\ task.cmd # 0
      BY <1>5, CmdTyped DEF WriteOpen, WriteMore, Writing
    <2>2. Closing' => Whole
      BY <1>0, <1>5 DEF WriteOpen, WriteMore, Back, Reply, Tasks, Closing, ReplyingPcs
    <2>3. ASSUME Whole PROVE tmp'[fptr'].pure
      <3>1. Expected /\ Gap = 0
        BY <2>1, <2>3, WholeIsPure
      <3>2. CASE WriteOpen
        <4>1. fptr' = Cmd.file /\ Cmd.file \in Files
          BY <2>1, <3>2, CmdTyped DEF WriteOpen
        <4>2. tmp'[fptr'].pure = Expected
          BY <1>0, <3>2, <4>1 DEF WriteOpen
        <4> QED BY <3>1, <4>2, Zenon
      <3>3. CASE WriteMore
        <4>1. /\ ~First /\ fptr # NULL /\ fptr \in Files /\ fptr' = fptr
              /\ tmp' = [tmp EXCEPT ![fptr].len = @ + task.n, ![fptr].pure = @ /\ Expected]
              /\ Cmd.kind = "writefile"
          BY <1>0, <3>3 DEF WriteMore, Writing, Opening
        <4>2. tmp'[fptr].pure = (tmp[fptr].pure /\ Expected)
          BY <1>0, <4>1 DEF Contents
        <4>3. Uploading
          <5>1. task.n \in 1 .. task.recv /\ task.recv # task.n
            BY <2>1, <4>1 DEF PacketOK, First
          <5>2. Received > 0
            BY <1>0, <5>1 DEF Received
          <5> QED BY <2>1, <4>1, <5>2 DEF Uploading
        <4>4. tmp[fptr].pure
          BY <3>1, <4>3 DEF Gap
        <4> QED BY <3>1, <4>1, <4>2, <4>4, Zenon
      <3> QED BY <1>5, <3>2, <3>3
    <2> QED BY <1>p, <2>1, <2>2, <2>3 DEF Purely
  <1>6. CASE Close \/ Remove
    <2>1. fptr' = fptr /\ tmp' = tmp /\ task.pc \in {"close", "remove"}
      BY <1>6 DEF Close, Remove, fileVars
    <2>2. tmp[fptr].pure
      BY <2>1 DEF Purely, Closing
    <2>3. \A f \in Files : files'[f].pure
      BY <1>0, <1>6, <1>p DEF Close, Remove, fileVars
    <2> QED BY <2>1, <2>2, <2>3 DEF Purely
  <1>7. CASE Rename
    <2>1. task'.pc = "return" /\ tmp[fptr].pure /\ files' = [files EXCEPT ![fptr] = tmp[fptr]]
      BY <1>0, <1>7 DEF Rename, Back, Tasks, Purely, Closing
    <2>2. \A f \in Files : files'[f].pure
      BY <1>0, <1>p, <2>1
    <2> QED BY <1>b, <2>1, <2>2 DEF Closing, ReplyingPcs
  <1> QED
    BY <1>1, <1>2, <1>3, <1>4, <1>5, <1>6, <1>7 DEF Function

(* Calm is kept.                                                           *)
LEMMA CalmStep ==
    ASSUME Typed, Typed', Step, Queue, Mutex, Replies, PacketOK, UploadCounted, Order, Calm
    PROVE  Calm'
  <1>1. SUFFICES ASSUME ~hasty' PROVE Calmly'
    BY DEF Calm, Calmly
  <1>2. ~hasty /\ (HostBegin => ~host.gaveup \/ Quiet)
    BY <1>1, HastyStays
  <1>3. Calmly
    BY <1>2 DEF Calm, Calmly
  <1>4. CASE HostBegin
    <2>1. Stream' = Stream
      BY <1>4 DEF HostBegin, ringVars, Stream, InAir, AirUnit
    <2> QED BY <1>2, <1>3, <1>4, <2>1, CalmBegins
  <1>5. CASE ~HostBegin
    <2>1. Patient /\ Latest /\ Finished /\ Current /\ InStep /\ Purely /\ Genuine
      BY <1>3 DEF Calmly, Order
    <2>2. Patient' /\ Latest' /\ Finished'
      BY <1>5, <2>1, PatientStep, LatestStep, FinishedStep
    <2>3. Current' /\ InStep' /\ Purely'
      BY <1>5, <2>1, CurrentStep, InStepStep, PurelyStep
    <2> QED BY <2>2, <2>3 DEF Calmly
  <1> QED BY <1>4, <1>5

---------------------------------------------------------------------------
(* The theorem.                                                            *)

(* The invariant holds at first, is kept, and implies FilesWhole.          *)
LEMMA FilesInitially == ASSUME Init PROVE FInv
  <1>1. IInv
    BY Initially
  <1>2. /\ msgs = <<>> /\ host = HostIdle /\ spi.pc = "wait" /\ ring = <<>> /\ task = TaskInit
        /\ ~receiving /\ fptr = NULL
        /\ \A f \in Files : files[f] = NoFile /\ tmp[f] = NoFile
    BY DEF Init
  <1>3. Stream = <<>> /\ DOMAIN Stream = {} /\ Len(Stream) = 0
    BY <1>2 DEF Stream, InAir, TaskInit
  <1>4. Counted
    BY <1>2 DEF Counted, PacketOK, UploadCounted, FilesCounted, Closing, Uploading, TaskInit,
       ReplyingPcs
  <1>5. Copied
    BY <1>2 DEF Copied, Copying, TornExplained, TaskInit, NoFile
  <1>6. Order
    BY <1>2, <1>3 DEF Order, Steady, Behind, Genuine, HostIdle
  <1>7. Calm
    BY <1>2, <1>3 DEF Calm, Calmly, Patient, Latest, Finished, Current, InStep, Purely, Served,
       HostIdle, TaskInit, Attending, AwaitsAnswer, Closing, ReplyingPcs, NoFile
  <1> QED BY <1>1, <1>4, <1>5, <1>6, <1>7 DEF FInv

LEMMA FilesInductive == ASSUME FInv, [Next]_vars PROVE FInv'
  <1>1. /\ IInv' /\ Typed /\ Typed' /\ Step /\ Queue /\ Mutex /\ Replies
        /\ PacketOK /\ UploadCounted /\ FilesCounted /\ Copied /\ Order /\ Calm
    BY TypedStep, StepsOfNext, Inductive DEF FInv, IInv, Counted
  <1>2. Counted'
    BY <1>1, PacketStep, UploadStep, FilesCountedStep DEF Counted
  <1>3. Copied' /\ Order' /\ Calm'
    BY <1>1, CopiedStep, OrderStep, CalmStep
  <1> QED BY <1>1, <1>2, <1>3 DEF FInv

LEMMA FilesAreWhole == ASSUME FInv PROVE FilesWhole
  <1>1. ASSUME NEW f \in Files, files[f] # NoFile, ~files[f].cut
        PROVE  files[f].len = msgs[files[f].id].data
    BY <1>1 DEF FInv, Counted, FilesCounted
  <1>2. ASSUME NEW f \in Files PROVE hasty \/ files[f].pure
    BY DEF FInv, Calm, Calmly, Purely
  <1>3. ASSUME CopiesAnswered, NEW f \in Files, files[f].cut PROVE FALSE
    <2>1. CASE \E i \in DOMAIN msgs : Spoiled(i)
      BY <1>3, <2>1 DEF Spoiled, Answered, CopiesAnswered
    <2>2. CASE task.pc = "copy"
      <3>1. task.cmd \in DOMAIN msgs /\ Cmd.kind \in Copies /\ AwaitsAnswer /\ task.cmd \in Nat
        BY <2>2, CmdTyped DEF FInv, IInv, Copied, Copying, AwaitsAnswer, ReplyPcs
      <3>2. PICK a \in DOMAIN answers : answers[a] = <<task.cmd, "ok">>
        BY <1>3, <3>1 DEF CopiesAnswered, Cmd
      <3>3. answers[a][1] < task.cmd
        BY <3>1 DEF FInv, IInv, Replies, Unanswered
      <3> QED BY <3>1, <3>2, <3>3
    <2> QED BY <1>3, <2>1, <2>2 DEF FInv, Copied, TornExplained
  <1> QED BY <1>1, <1>2, <1>3 DEF FilesWhole

(* Whatever the host, the timer and the power do and for files, messages   *)
(* and rings of any size: a file never holds part of an upload (writefile  *)
(* and its .tmp file), holds nothing but the units of that upload unless a *)
(* host that gave up began anew before the badge was ready, and is torn    *)
(* only while, or because, a copy was not answered with ok (cpyfile).      *)
THEOREM FilesStayWhole == Spec => []FilesWhole
  <1>1. Init => FInv
    BY FilesInitially
  <1>2. FInv /\ [Next]_vars => FInv'
    BY FilesInductive
  <1>3. FInv => FilesWhole
    BY FilesAreWhole
  <1> QED BY <1>1, <1>2, <1>3, PTL DEF Spec

---------------------------------------------------------------------------
(* Uploads answered with ok are kept: a file moves only when a move was    *)
(* acted on, and is lost only to a message that came after every message   *)
(* answered so far.                                                        *)

Last == IF answers = <<>> THEN 0 ELSE answers[Len(answers)][1]
LastIsLast == \A a \in DOMAIN answers : answers[a][1] <= Last

(* Only an upload is closed and renamed, and that after its ok; a move     *)
(* removes what it has copied.                                             *)
FinishPcs == {"close", "remove", "rename"}
Confirmed ==
  /\ task.pc \in FinishPcs => answers # <<>> /\ answers[Len(answers)] = <<task.cmd, "ok">>
  /\ task.pc \in ReplyingPcs /\ Cmd.kind = "writefile" /\ task.status = "ok" => task.next = "close"
  /\ task.pc \in ReplyingPcs /\ task.next = "close" => task.status = "ok"
Moving == task.pc = "unlink" => Cmd.kind = "mvfile" /\ files[Cmd.to] = files[Cmd.file]

(* The messages acted on reach as far as the last that was answered, or    *)
(* the one that is about to be; what a message replaced stays replaced.    *)
ActedPcs == ReplyPcs \ {"copy"}
Settled == IF task.pc \in ActedPcs THEN task.cmd ELSE Last
Gone(j) == \/ \E a \in DOMAIN answers : answers[a][1] >= j
           \/ task.cmd = j /\ task.pc \in ReplyPcs
Replaced(j, f) ==
  \/ msgs[j].kind = "writefile" /\ msgs[j].file = f /\ Answered(j, "ok")
  \/ msgs[j].kind = "delfile" /\ msgs[j].file = f /\ Gone(j)
  \/ msgs[j].kind \in Copies /\ msgs[j].file # f /\ msgs[j].to = f /\ Gone(j)
Stays(i) == \E f \in Homes(i, Settled + 1) : files[f].id = i
Lost(i) == \E j \in DOMAIN msgs : j > i /\ \E f \in Homes(i, j) : Replaced(j, f)
Acked(i) == msgs[i].kind = "writefile" /\ Answered(i, "ok") /\ ~Undone(i)
AckedSafe == host.crashes = 0 => \A i \in DOMAIN msgs : Acked(i) => Stays(i) \/ Lost(i)

AInv == FInv /\ LastIsLast /\ Confirmed /\ Moving /\ AckedSafe

(* The last answer is a message's, and comes before the one that waits.    *)
LEMMA LastIs ==
    ASSUME Typed, Queue, Replies
    PROVE  /\ Last \in Nat /\ Last <= Len(msgs) /\ Len(msgs) \in Nat
           /\ AwaitsAnswer => Last < task.cmd
           /\ \A a \in DOMAIN answers : answers[a][1] \in Nat
  <1>1. /\ answers \in Seq((1 .. MaxMsgs) \X {"ok", "er"}) /\ Len(msgs) \in Nat /\ task.cmd \in Nat
        /\ \A a \in DOMAIN answers : answers[a][1] <= Top
    BY CmdTyped DEF Typed, AnswersOK, Queue, Entered
  <1>2. \A a \in DOMAIN answers : answers[a][1] \in Nat
    BY <1>1, FsOverBusAssumption
  <1>3. Top \in Int /\ Top <= Len(msgs)
    BY <1>1 DEF Top
  <1>4. CASE answers = <<>>
    BY <1>1, <1>2, <1>4 DEF Last, AwaitsAnswer
  <1>5. CASE answers # <<>>
    <2>1. Len(answers) \in DOMAIN answers /\ Last = answers[Len(answers)][1]
      BY <1>1, <1>5 DEF Last
    <2>2. AwaitsAnswer => answers[Len(answers)][1] < task.cmd
      BY <2>1 DEF Replies, Unanswered
    <2>3. Last \in Nat /\ Last <= Top
      BY <1>1, <1>2, <2>1
    <2> QED BY <1>1, <1>2, <1>3, <2>1, <2>2, <2>3
  <1> QED BY <1>4, <1>5

(* A reply makes its message the last answered; no other step does.        *)
LEMMA LastStep ==
    ASSUME Typed, Step, Queue, Replies, LastIsLast
    PROVE  LastIsLast' /\ (ReplyEnd => Last' = task.cmd) /\ (~ReplyEnd => Last' = Last)
  <1>1. CASE ~ReplyEnd
    <2>1. answers' = answers
      BY <1>1, AnswersStay
    <2> QED BY <1>1, <2>1 DEF LastIsLast, Last
  <1>2. CASE ReplyEnd
    <2>1. /\ answers' = Append(answers, <<task.cmd, task.status>>) /\ task.pc = "sending"
          /\ answers \in Seq((1 .. MaxMsgs) \X {"ok", "er"}) /\ Len(answers) \in Nat
      BY <1>2 DEF ReplyEnd, Typed, AnswersOK
    <2>2. AwaitsAnswer /\ task.cmd \in Nat
      BY <2>1, CmdTyped DEF AwaitsAnswer, ReplyPcs
    <2>3. <<task.cmd, task.status>> \in (1 .. MaxMsgs) \X {"ok", "er"}
      <3>1. task.cmd \in 1 .. MaxMsgs /\ task.status \in {"ok", "er"}
        BY <2>1, CmdTyped, FsOverBusAssumption DEF TaskOK, Tasks, Typed, MsgsOK
      <3> QED BY <3>1
    <2>4. /\ Len(answers') = Len(answers) + 1 /\ answers' # <<>>
          /\ DOMAIN answers' = 1 .. Len(answers) + 1 /\ DOMAIN answers = 1 .. Len(answers)
          /\ answers'[Len(answers')] = <<task.cmd, task.status>>
          /\ \A a \in DOMAIN answers : answers'[a] = answers[a]
      BY <2>1, <2>3
    <2>5. Last' = task.cmd
      BY <2>4 DEF Last
    <2>6. \A a \in DOMAIN answers : answers[a][1] < task.cmd /\ answers[a][1] \in Nat
      BY <2>2, LastIs DEF Replies, Unanswered
    <2>7. ASSUME NEW a \in DOMAIN answers' PROVE answers'[a][1] <= task.cmd
      <3>1. CASE a \in DOMAIN answers
        BY <2>2, <2>4, <2>6, <3>1
      <3>2. CASE a = Len(answers')
        BY <2>2, <2>4, <3>2
      <3> QED BY <2>1, <2>4, <3>1, <3>2
    <2> QED BY <1>2, <2>5, <2>7 DEF LastIsLast
  <1> QED BY <1>1, <1>2

(* What a function answers.                                                *)
LEMMA FunctionReplies ==
    ASSUME Typed, Function, Copying, task'.pc \in ReplyingPcs
    PROVE  /\ task'.cmd = task.cmd /\ Cmd' = Cmd
           /\ \/ task'.status = "er" /\ task'.next = "return"
              \/ task'.status = "ok" /\ task'.next = "close"
              \/ task'.status = "ok" /\ task'.next # "close" /\ Cmd.kind # "writefile"
  <1>0. task \in Tasks(Len(msgs))
    BY DEF Typed, TaskOK
  <1>1. \/ Reply("er", "return") \/ Reply("ok", "close")
        \/ (Reply("ok", "return") \/ Reply("ok", "sleep")) /\ Cmd.kind # "writefile"
    <2>1. CASE WriteOpen \/ WriteMore \/ WriteOpenFails \/ WriteFailed
      BY <1>0, <2>1 DEF WriteOpen, WriteMore, WriteOpenFails, WriteFailed, Back, Tasks, ReplyingPcs
    <2>2. CASE WriteNoName \/ WriteNameTooLong \/ DelayOver \/ Close \/ Remove \/ Rename \/ Partial
      BY <1>0, <2>2 DEF WriteNoName, WriteNameTooLong, DelayOver, Close, Remove, Rename, Partial, Back,
         Tasks, ReplyingPcs
    <2>3. CASE Heartbeat \/ DelFile \/ CopyRefused \/ ExecFile
      BY <1>0, <2>3 DEF Heartbeat, DelFile, CopyRefused, ExecFile, Called, Back, Tasks, ReplyingPcs
    <2>4. CASE CopyOpen
      BY <1>0, <2>4 DEF CopyOpen, Tasks, ReplyingPcs
    <2>5. CASE CopyWrite \/ Unlink
      <3>1. Cmd.kind # "writefile"
        BY <2>5 DEF CopyWrite, Unlink, Copying, Copies
      <3> QED BY <1>0, <2>5, <3>1 DEF CopyWrite, Unlink, Tasks, ReplyingPcs
    <2> QED BY <2>1, <2>2, <2>3, <2>4, <2>5 DEF Function
  <1>2. task'.cmd = task.cmd
    BY <1>0, <1>1 DEF Reply, Tasks
  <1>3. Cmd' = Cmd
    BY <1>2, FunctionMoves DEF FnUnchanged, hostVars, Cmd
  <1> QED BY <1>0, <1>1, <1>2, <1>3 DEF Reply, Tasks

(* Confirmed and Moving are kept.                                         *)
LEMMA ConfirmedStep ==
    ASSUME Typed, Typed', Step, Copying, Confirmed
    PROVE  Confirmed'
  <1>0. task \in Tasks(Len(msgs)) /\ answers \in Seq((1 .. MaxMsgs) \X {"ok", "er"})
    BY DEF Typed, TaskOK, AnswersOK
  <1>a. ASSUME task'.pc \notin FinishPcs, task'.pc \notin ReplyingPcs PROVE Confirmed'
    BY <1>a DEF Confirmed
  <1>1. CASE Function
    <2>1. CASE task'.pc \in ReplyingPcs
      <3>1. task'.pc \notin FinishPcs
        BY <2>1 DEF FinishPcs, ReplyingPcs
      <3> QED BY <1>1, <2>1, <3>1, FunctionReplies DEF Confirmed
    <2>2. CASE task'.pc \notin ReplyingPcs
      <3>1. SUFFICES ASSUME task'.pc \in FinishPcs PROVE Confirmed'
        BY <1>a, <2>2
      <3>2. task.pc \in FinishPcs /\ task'.cmd = task.cmd
        <4>1. FnMoves
          BY <1>1, FunctionMoves
        <4>2. Go("remove") \/ Go("rename") => task.pc \in FinishPcs
          BY <1>0, <1>1, <4>1 DEF FnMoves, Go, Reply, Tasks, FinishPcs
        <4>3. task'.cmd = task.cmd
          BY <1>0, <4>1 DEF FnMoves, Go, Reply, Tasks
        <4>4. Go("remove") \/ Go("rename")
          BY <1>0, <3>1, <4>1 DEF FnMoves, Go, Reply, Tasks, FinishPcs
        <4> QED BY <4>2, <4>3, <4>4
      <3>3. answers' = answers
        BY <1>1, FunctionMoves DEF FnUnchanged, histVars
      <3> QED BY <2>2, <3>2, <3>3 DEF Confirmed
    <2> QED BY <2>1, <2>2
  <1>2. CASE Restarts
    BY <1>2, <1>a, RestartEffect DEF Restart, TaskInit, FinishPcs, ReplyingPcs
  <1>3. CASE ReplyEnd
    <2>1. /\ task'.pc = task.next /\ task.pc \in ReplyingPcs
          /\ answers' = Append(answers, <<task.cmd, task.status>>) /\ task'.cmd = task.cmd
          /\ task.next \in {"wait", "close", "sleep", "return"}
      BY <1>0, <1>3 DEF ReplyEnd, Tasks, ReplyingPcs
    <2>2. task'.pc \notin ReplyingPcs
      BY <2>1 DEF ReplyingPcs
    <2>3. CASE task.next = "close"
      <3>1. task.status = "ok"
        BY <2>1, <2>3 DEF Confirmed
      <3>2. <<task.cmd, task.status>> \in (1 .. MaxMsgs) \X {"ok", "er"}
        <4>1. task.pc = "sending"
          BY <1>3 DEF ReplyEnd
        <4>2. task.cmd \in 1 .. MaxMsgs /\ task.status \in {"ok", "er"}
          BY <4>1, CmdTyped, FsOverBusAssumption DEF TaskOK, Tasks, Typed, MsgsOK
        <4> QED BY <4>2
      <3>3. answers' # <<>> /\ answers'[Len(answers')] = <<task.cmd, task.status>>
        BY <1>0, <2>1, <3>2
      <3> QED BY <2>1, <2>2, <3>1, <3>3 DEF Confirmed
    <2>4. CASE task.next # "close"
      BY <1>a, <2>1, <2>2, <2>4 DEF FinishPcs
    <2> QED BY <2>3, <2>4
  <1>4. CASE ~Function /\ ~Restarts /\ ~ReplyEnd
    <2>1. answers' = answers
      BY <1>4, AnswersStay
    <2>2. \/ task'.pc \in {"wait", "loop", "handle"}
          \/ /\ task'.pc = task.pc \/ (task'.pc \in ReplyingPcs /\ task.pc \in ReplyingPcs)
             /\ task'.next = task.next /\ task'.status = task.status /\ task'.cmd = task.cmd
      <3>1. CASE ReplyBegin \/ ReplyFetches \/ ReplyStore
        BY <1>0, <3>1 DEF ReplyBegin, ReplyFetches, ReplyStore, Tasks, ReplyingPcs
      <3>2. CASE ~(ReplyBegin \/ ReplyFetches \/ ReplyStore)
        BY <1>0, <1>4, <3>2 DEF Step, HostBegin, HostAnswered, HostGivesUp, SpiBegin, SpiTransfer,
           SpiStore, SpiEnd, SpiUnchanged, TimerFires, TimerClears, Wake, ReadHeader, AwaitHeader,
           ReadPacket, ReadNothing, ReturnItem, Continue, vars, Tasks
      <3> QED BY <3>1, <3>2
    <2>3. CASE task'.pc \in {"wait", "loop", "handle"}
      BY <1>a, <2>3 DEF FinishPcs, ReplyingPcs
    <2>4. CASE ~(task'.pc \in {"wait", "loop", "handle"})
      <3>1. task.cmd # 0 => Cmd' = Cmd
        BY <2>2, <2>4, MsgsKept, CmdTyped DEF Cmd
      <3>2. task.pc \in ReplyingPcs => task.cmd # 0
        BY CmdTyped DEF ReplyingPcs
      <3>3. (task'.pc \in ReplyingPcs => task.pc \in ReplyingPcs)
            /\ (task'.pc \in FinishPcs => task.pc \in FinishPcs)
        BY <2>2, <2>4 DEF FinishPcs, ReplyingPcs
      <3> QED BY <2>1, <2>2, <2>4, <3>1, <3>2, <3>3 DEF Confirmed
    <2> QED BY <2>3, <2>4
  <1> QED BY <1>1, <1>2, <1>3, <1>4

LEMMA MovingStep ==
    ASSUME Typed, Typed', Step, Copying, Moving
    PROVE  Moving'
  <1>0. task \in Tasks(Len(msgs)) /\ files \in [Files -> Contents]
    BY DEF Typed, TaskOK, FileOK
  <1>1. SUFFICES ASSUME task'.pc = "unlink" PROVE Moving'
    BY DEF Moving
  <1>2. CASE Function
    <2>1. CopyWrite
      BY <1>0, <1>1, <1>2 DEF Function, Heartbeat, WriteNoName, WriteNameTooLong, WriteOpen,
         WriteOpenFails, WriteMore, WriteFailed, DelayOver, Close, Remove, Rename, Partial, DelFile,
         CopyRefused, CopyOpen, Unlink, ExecFile, Back, Reply, Tasks
    <2>2. /\ Cmd.kind = "mvfile" /\ task'.cmd = task.cmd /\ msgs' = msgs /\ Cmd.file # Cmd.to
          /\ files' = [files EXCEPT ![Cmd.to] = files[Cmd.file]] /\ Cmd.to \in Files
      BY <1>0, <1>1, <2>1, CmdTyped DEF CopyWrite, Copying, Reply, FnUnchanged, hostVars, Tasks
    <2>3. Cmd' = Cmd
      BY <2>2 DEF Cmd
    <2>4. files'[Cmd.to] = files[Cmd.file] /\ files'[Cmd.file] = files[Cmd.file]
      BY <1>0, <2>2
    <2> QED BY <2>2, <2>3, <2>4 DEF Moving
  <1>3. CASE Restarts
    BY <1>1, <1>3, RestartEffect DEF Restart, TaskInit
  <1>4. CASE ~Function /\ ~Restarts
    <2>1. task.pc = "unlink" /\ task'.cmd = task.cmd
      BY <1>0, <1>1, <1>4 DEF Step, HostBegin, HostAnswered, HostGivesUp, SpiBegin, SpiTransfer,
         SpiStore, SpiEnd, SpiUnchanged, TimerFires, TimerClears, Wake, ReadHeader, AwaitHeader,
         ReadPacket, ReadNothing, ReturnItem, Continue, ReplyBegin, ReplyFetches, ReplyStore, ReplyEnd,
         vars, Tasks
    <2>2. files' = files
      BY <1>4 DEF Step, HostBegin, HostAnswered, HostGivesUp, SpiBegin, SpiTransfer, SpiStore,
         SpiEnd, SpiUnchanged, TimerFires, TimerClears, Wake, ReadHeader, AwaitHeader, ReadPacket,
         ReadNothing, ReturnItem, ReplyBegin, ReplyFetches, ReplyStore, ReplyEnd, SendUnchanged,
         fileVars, vars
    <2>3. Cmd' = Cmd
      BY <2>1, MsgsKept, CmdTyped DEF Cmd
    <2> QED BY <2>1, <2>2, <2>3 DEF Moving
  <1> QED BY <1>2, <1>3, <1>4

---------------------------------------------------------------------------
(* What stays once it is so.                                               *)

(* A message that is about to be answered is left by its answer only.      *)
LEMMA ActedUntilAnswered ==
    ASSUME Typed, Step, ~Crash, ~ReplyEnd, task.pc \in ReplyPcs
    PROVE  /\ task'.pc \in ReplyPcs /\ task'.cmd = task.cmd
           /\ task.pc \in ActedPcs => task'.pc \in ActedPcs
  <1>0. task \in Tasks(Len(msgs))
    BY DEF Typed, TaskOK
  <1>1. CASE Function
    <2>1. task.pc \in {"copy", "unlink"}
      BY <1>1, FunctionPcs DEF FnPcs, ReplyPcs
    <2>2. (Go("unlink") /\ task.pc = "copy") \/ Reply("ok", "return")
      BY <1>0, <1>1, <2>1 DEF Function, Heartbeat, WriteNoName, WriteNameTooLong, WriteOpen,
         WriteOpenFails, WriteMore, WriteFailed, Writing, DelayOver, Close, Remove, Rename, Partial,
         DelFile, CopyRefused, CopyOpen, CopyWrite, Unlink, ExecFile, Called, Go
    <2> QED BY <1>0, <2>1, <2>2 DEF Go, Reply, Tasks, ActedPcs, ReplyPcs
  <1>2. CASE ~Function
    BY <1>0, <1>2 DEF Step, HostBegin, HostAnswered, HostGivesUp, SpiBegin, SpiTransfer,
       SpiStore, SpiEnd, SpiUnchanged, TimerFires, TimerClears, Wake, ReadHeader, AwaitHeader,
       ReadPacket, ReadNothing, ReturnItem, ReplyBegin, ReplyFetches, ReplyStore, Restarts,
       Abort, DeepSleep, vars, Tasks, ActedPcs, ReplyPcs
  <1> QED BY <1>1, <1>2

(* Messages that were acted on stay so.                                    *)
LEMMA SettledGrows ==
    ASSUME Typed, Typed', Step, ~Crash, Queue, Queue', Replies, Replies', LastIsLast
    PROVE  Settled \in Nat /\ Settled' \in Nat /\ Settled' >= Settled
  <1>1. /\ Last \in Nat /\ Last' \in Nat /\ task.cmd \in Nat /\ task'.cmd \in Nat
        /\ AwaitsAnswer => Last < task.cmd
        /\ ReplyEnd => Last' = task.cmd
        /\ ~ReplyEnd => Last' = Last
    <2>1. Last \in Nat /\ (AwaitsAnswer => Last < task.cmd) /\ task.cmd \in Nat
      BY LastIs, CmdTyped
    <2>2. Last' \in Nat /\ task'.cmd \in Nat
      <3>1. answers' \in Seq((1 .. MaxMsgs) \X {"ok", "er"}) /\ task' \in Tasks(Len(msgs'))
        BY DEF Typed, AnswersOK, TaskOK
      <3>2. answers' # <<>> => answers'[Len(answers')][1] \in Nat
        BY <3>1, FsOverBusAssumption
      <3>3. Len(msgs') \in Nat
        BY DEF Typed, MsgsOK
      <3> QED BY <3>1, <3>2, <3>3 DEF Last, Tasks
    <2> QED BY <2>1, <2>2, LastStep
  <1>2. ReplyEnd => task.pc = "sending"
    BY DEF ReplyEnd
  <1>3. CASE task.pc \in ActedPcs
    <2>1. CASE ReplyEnd
      <3>1. task'.pc \notin ActedPcs
        BY <2>1 DEF ReplyEnd, Typed, TaskOK, Tasks, ActedPcs, ReplyPcs
      <3> QED BY <1>1, <1>3, <2>1, <3>1 DEF Settled
    <2>2. CASE ~ReplyEnd
      <3>1. task'.pc \in ActedPcs /\ task'.cmd = task.cmd
        BY <1>3, <2>2, ActedUntilAnswered DEF ActedPcs
      <3> QED BY <1>1, <1>3, <3>1 DEF Settled
    <2> QED BY <2>1, <2>2
  <1>4. CASE task.pc \notin ActedPcs
    <2>1. ~ReplyEnd
      BY <1>2, <1>4 DEF ActedPcs, ReplyPcs
    <2>2. CASE task'.pc \notin ActedPcs
      BY <1>1, <1>4, <2>1, <2>2 DEF Settled
    <2>3. CASE task'.pc \in ActedPcs
      <3>1. task.pc = "copy" \/ task.pc = "handle"
        BY <1>4, <2>3, RepliesBegin DEF ActedPcs
      <3>2. AwaitsAnswer
        BY <3>1, CmdTyped DEF AwaitsAnswer, ReplyPcs
      <3>3. ~ReadHeader /\ ~Restarts
        <4>1. ReadHeader => task.pc = "loop"
          BY DEF ReadHeader
        <4>2. Restarts => task'.pc = "wait"
          BY RestartEffect DEF Restart, TaskInit
        <4> QED BY <2>3, <3>1, <4>1, <4>2 DEF ActedPcs, ReplyPcs
      <3>4. task'.cmd = task.cmd
        BY <3>3, CmdKept
      <3> QED BY <1>1, <1>4, <2>3, <3>2, <3>4 DEF Settled
    <2> QED BY <2>2, <2>3
  <1> QED BY <1>3, <1>4

(* Answers stay, and so does what a message has replaced.                  *)
LEMMA AnsweredStays ==
    ASSUME Typed, Step, NEW i, NEW status, Answered(i, status)
    PROVE  Answered(i, status)'
  BY AnswersGrow DEF Answered

LEMMA GoneStays ==
    ASSUME Typed, Step, ~Crash, NEW j \in Nat, Gone(j)
    PROVE  Gone(j)'
  <1>1. CASE \E a \in DOMAIN answers : answers[a][1] >= j
    BY <1>1, AnswersGrow DEF Gone
  <1>2. CASE task.cmd = j /\ task.pc \in ReplyPcs
    <2>1. CASE ReplyEnd
      <3>1. answers' = Append(answers, <<task.cmd, task.status>>) /\ Len(answers) \in Nat
            /\ answers \in Seq((1 .. MaxMsgs) \X {"ok", "er"})
        BY <2>1 DEF ReplyEnd, Typed, AnswersOK
      <3>2. task.cmd \in 1 .. MaxMsgs /\ task.status \in {"ok", "er"}
        BY <1>2, CmdTyped, FsOverBusAssumption DEF TaskOK, Tasks, Typed, MsgsOK, ReplyPcs
      <3>3. <<task.cmd, task.status>> \in (1 .. MaxMsgs) \X {"ok", "er"}
        BY <3>2
      <3>4. /\ Len(answers) + 1 \in DOMAIN answers'
            /\ answers'[Len(answers) + 1] = <<task.cmd, task.status>>
        BY <3>1, <3>3
      <3>5. answers'[Len(answers) + 1][1] >= j
        BY <1>2, <3>4
      <3> QED BY <3>4, <3>5 DEF Gone
    <2>2. CASE ~ReplyEnd
      <3>1. task'.pc \in ReplyPcs /\ task'.cmd = task.cmd
        BY <1>2, <2>2, ActedUntilAnswered
      <3> QED BY <1>2, <3>1 DEF Gone
    <2> QED BY <2>1, <2>2
  <1> QED BY <1>1, <1>2 DEF Gone

(* The places a file may have been moved to become more.                   *)
LEMMA HomesGrow ==
    ASSUME Typed, Typed', Step, NEW i \in DOMAIN msgs, NEW j \in Nat, NEW k \in Nat, j <= k
    PROVE  Homes(i, j) \subseteq Homes(i, k) /\ Homes(i, k) \subseteq Homes(i, k)'
           /\ Homes(i, j) \subseteq Homes(i, k)'
  <1>1. \A l \in DOMAIN msgs : l \in Nat /\ l \in DOMAIN msgs' /\ msgs'[l] = msgs[l]
    BY MsgsKept, CmdTyped
  <1>2. Homes(i, j) \subseteq Homes(i, k)
    BY <1>1 DEF Homes
  <1>3. Homes(i, k) \subseteq Homes(i, k)'
    BY <1>1 DEF Homes
  <1> QED BY <1>2, <1>3

LEMMA LostStays ==
    ASSUME Typed, Typed', Step, ~Crash, NEW i \in DOMAIN msgs, Lost(i)
    PROVE  Lost(i)'
  <1>1. PICK j \in DOMAIN msgs : j > i /\ \E f \in Homes(i, j) : Replaced(j, f)
    BY DEF Lost
  <1>2. PICK f \in Homes(i, j) : Replaced(j, f)
    BY <1>1
  <1>3. j \in Nat /\ j \in DOMAIN msgs' /\ msgs'[j] = msgs[j]
    BY MsgsKept, CmdTyped
  <1>4. f \in Homes(i, j)'
    BY <1>3, HomesGrow
  <1>5. /\ Answered(j, "ok") => Answered(j, "ok")'
        /\ Gone(j) => Gone(j)'
    BY <1>3, AnsweredStays, GoneStays
  <1>6. Replaced(j, f)'
    BY <1>2, <1>3, <1>5 DEF Replaced
  <1> QED BY <1>1, <1>3, <1>4, <1>6 DEF Lost

---------------------------------------------------------------------------
(* What is kept.                                                           *)

(* The steps that change a file, and the file they change.                 *)
FileChanges ==
  \/ (Remove \/ Rename) /\ Closing /\ \A f \in Files : f # fptr => files'[f] = files[f]
  \/ DelFile /\ task'.pc = "reply" /\ \A f \in Files : f # Cmd.file => files'[f] = files[f]
  \/ /\ CopyOpen \/ CopyWrite
     /\ task'.pc \in ReplyPcs /\ Cmd.kind \in Copies /\ Cmd.file # Cmd.to
     /\ \A f \in Files : f # Cmd.to => files'[f] = files[f]
  \/ /\ Unlink /\ task.pc = "unlink" /\ Cmd.file # Cmd.to
     /\ \A f \in Files : f # Cmd.file => files'[f] = files[f]

LEMMA FilesChange ==
    ASSUME Typed, Step, Copying, files' # files
    PROVE  FileChanges /\ ~ReplyEnd /\ task'.cmd = task.cmd
  <1>0. task \in Tasks(Len(msgs)) /\ files \in [Files -> Contents]
    BY DEF Typed, TaskOK, FileOK
  <1>1. Function
    BY RestartEffect DEF Step, HostBegin, HostAnswered, HostGivesUp, SpiBegin, SpiTransfer, SpiStore,
       SpiEnd, SpiUnchanged, TimerFires, TimerClears, Wake, ReadHeader, AwaitHeader, ReadPacket,
       ReadNothing, ReturnItem, ReplyBegin, ReplyFetches, ReplyStore, ReplyEnd, SendUnchanged,
       fileVars, vars, Restart
  <1>2. Remove \/ Rename \/ DelFile \/ CopyOpen \/ CopyWrite \/ Unlink
    BY <1>1 DEF Function, Heartbeat, WriteNoName, WriteNameTooLong, WriteOpen, WriteOpenFails,
       WriteMore, WriteFailed, DelayOver, Close, Partial, CopyRefused, ExecFile, fileVars
  <1>3. task.pc # "sending" /\ task'.cmd = task.cmd
    BY <1>0, <1>1, FunctionMoves, FunctionPcs DEF FnMoves, Go, Reply, Tasks, FnPcs
  <1>4. CASE Remove \/ Rename
    <2>1. Closing /\ \A f \in Files : f # fptr => files'[f] = files[f]
      BY <1>0, <1>4 DEF Remove, Rename, Closing
    <2> QED BY <1>3, <1>4, <2>1 DEF FileChanges, ReplyEnd
  <1>5. CASE DelFile
    <2>1. task'.pc = "reply" /\ \A f \in Files : f # Cmd.file => files'[f] = files[f]
      BY <1>0, <1>5 DEF DelFile, Reply, Tasks
    <2> QED BY <1>3, <1>5, <2>1 DEF FileChanges, ReplyEnd
  <1>6. CASE CopyOpen
    <2>1. /\ task'.pc \in ReplyPcs /\ Cmd.kind \in Copies /\ Cmd.file # Cmd.to
          /\ \A f \in Files : f # Cmd.to => files'[f] = files[f]
      BY <1>0, <1>6 DEF CopyOpen, Called, Reply, Tasks, ReplyPcs
    <2> QED BY <1>3, <1>6, <2>1 DEF FileChanges, ReplyEnd
  <1>7. CASE CopyWrite
    <2>1. /\ task'.pc \in ReplyPcs /\ Cmd.kind \in Copies /\ Cmd.file # Cmd.to
          /\ \A f \in Files : f # Cmd.to => files'[f] = files[f]
      BY <1>0, <1>7 DEF CopyWrite, Copying, Reply, Tasks, ReplyPcs
    <2> QED BY <1>3, <1>7, <2>1 DEF FileChanges, ReplyEnd
  <1>8. CASE Unlink
    <2>1. /\ task.pc = "unlink" /\ Cmd.file # Cmd.to
          /\ \A f \in Files : f # Cmd.file => files'[f] = files[f]
      BY <1>0, <1>8 DEF Unlink, Copying
    <2> QED BY <1>3, <1>8, <2>1 DEF FileChanges, ReplyEnd
  <1> QED BY <1>2, <1>4, <1>5, <1>6, <1>7, <1>8

(* A message that was answered is not after the last answer.               *)
LEMMA AnsweredIs ==
    ASSUME Typed, Queue, Replies, LastIsLast, NEW i, NEW status, Answered(i, status)
    PROVE  i \in DOMAIN msgs /\ i \in Nat /\ i <= Last
  <1>1. PICK a \in DOMAIN answers : answers[a] = <<i, status>>
    BY DEF Answered
  <1>2. answers[a] \in (1 .. MaxMsgs) \X {"ok", "er"}
    BY <1>1 DEF Typed, AnswersOK
  <1>3. i \in 1 .. MaxMsgs /\ answers[a][1] = i
    BY <1>1, <1>2
  <1>4. i <= Last /\ Last <= Len(msgs)
    BY <1>1, <1>3, LastIs DEF LastIsLast
  <1> QED BY <1>3, <1>4, LastIs, CmdTyped, FsOverBusAssumption

(* A file that holds the upload still does, or is lost to the message that *)
(* is handled, or has been moved.                                          *)
LEMMA KeptStep ==
    ASSUME Typed, Typed', Step, ~Crash, Queue, Queue', Replies, Replies', LastIsLast, Confirmed,
           Moving, Copying, UploadCounted, NEW i \in DOMAIN msgs, Acked(i), Stays(i)
    PROVE  Stays(i)' \/ Lost(i)'
  <1>1. PICK f \in Homes(i, Settled + 1) : files[f].id = i
    BY DEF Stays
  <1>2. /\ i \in Nat /\ i <= Last /\ Last \in Nat /\ Settled \in Nat /\ Settled' \in Nat
        /\ Settled' >= Settled /\ task.cmd \in Nat
        /\ AwaitsAnswer => Last < task.cmd
    BY AnsweredIs, LastIs, SettledGrows, CmdTyped DEF Acked
  <1>3. f \in Files
    BY <1>1, MsgsKept DEF Homes
  <1>4. ASSUME NEW g \in Homes(i, Settled + 1), files'[g].id = i PROVE Stays(i)'
    <2>1. PICK j \in Nat : j = Settled + 1
      BY <1>2
    <2>2. PICK k \in Nat : k = Settled' + 1
      BY <1>2 DEF Settled
    <2>3. g \in Homes(i, k)'
      BY <1>2, <1>4, <2>1, <2>2, HomesGrow
    <2>4. g \in Homes(i, Settled + 1)'
      BY <2>2, <2>3 DEF Settled, Homes
    <2> QED BY <1>4, <2>4 DEF Stays
  <1>5. SUFFICES ASSUME files'[f].id # i PROVE Stays(i)' \/ Lost(i)'
    BY <1>1, <1>4
  <1>6. files' # files /\ FileChanges /\ ~ReplyEnd /\ task'.cmd = task.cmd
    BY <1>1, <1>5, FilesChange
  <1>7. CASE (Remove \/ Rename) /\ Closing /\ f = fptr
    <2>1. task.pc \in FinishPcs /\ task.pc \notin ActedPcs
      BY <1>7 DEF Remove, Rename, FinishPcs, ActedPcs, ReplyPcs
    <2>2. /\ task.cmd # 0 /\ Cmd.kind = "writefile" /\ f = Cmd.file /\ task.cmd \in DOMAIN msgs
      BY <1>7, CmdTyped DEF UploadCounted, Uploading
    <2>3. /\ answers # <<>> /\ answers[Len(answers)] = <<task.cmd, "ok">>
          /\ Len(answers) \in DOMAIN answers
      BY <2>1 DEF Confirmed, Typed, AnswersOK
    <2>4. Last = task.cmd /\ Answered(task.cmd, "ok") /\ Settled = task.cmd
      BY <2>1, <2>3 DEF Last, Answered, Settled
    <2>5. i # task.cmd /\ i < task.cmd
      <3>1. i # task.cmd
        BY <2>1 DEF Acked, Undone, FinishPcs
      <3> QED BY <1>2, <2>4, <3>1
    <2>6. f \in Homes(i, task.cmd)
      <3>1. msgs[task.cmd].kind # "mvfile" /\ \A l \in DOMAIN msgs : l \in Nat
        BY <2>2, CmdTyped DEF Cmd
      <3>2. \A l \in DOMAIN msgs : l < task.cmd + 1 /\ msgs[l].kind = "mvfile" => l < task.cmd
        BY <1>2, <3>1
      <3> QED BY <1>1, <2>4, <3>2 DEF Homes
    <2>7. Lost(i)
      BY <2>2, <2>4, <2>5, <2>6 DEF Lost, Replaced, Cmd
    <2> QED BY <2>7, LostStays
  <1>8. ASSUME AwaitsAnswer, task'.pc \in ReplyPcs, task.pc \notin ActedPcs,
               \/ Cmd.kind = "delfile" /\ Cmd.file = f
               \/ Cmd.kind \in Copies /\ Cmd.file # f /\ Cmd.to = f
        PROVE  Lost(i)'
    <2>1. /\ Settled = Last /\ Last < task.cmd /\ task.cmd \in DOMAIN msgs
          /\ i < task.cmd
      BY <1>2, <1>8, CmdTyped DEF Settled, AwaitsAnswer
    <2>2. PICK j \in DOMAIN msgs : j = task.cmd /\ j \in Nat
      BY <1>2, <2>1
    <2>3. f \in Homes(i, j)'
      <3>1. Settled + 1 \in Nat /\ Settled + 1 <= j
        BY <1>2, <2>1, <2>2
      <3> QED BY <1>1, <2>2, <3>1, HomesGrow
    <2>4. j \in DOMAIN msgs' /\ msgs'[j] = msgs[j]
      BY MsgsKept
    <2>5. Gone(j)'
      BY <1>6, <1>8, <2>2 DEF Gone
    <2>6. Replaced(j, f)'
      BY <1>8, <2>2, <2>4, <2>5 DEF Replaced, Cmd
    <2> QED BY <2>1, <2>2, <2>3, <2>4, <2>6 DEF Lost
  <1>9. CASE DelFile /\ task'.pc = "reply" /\ f = Cmd.file
    BY <1>8, <1>9, CmdTyped DEF DelFile, Called, AwaitsAnswer, ReplyPcs, ActedPcs, Typed, TaskOK
  <1>10. CASE /\ CopyOpen \/ CopyWrite
              /\ task'.pc \in ReplyPcs /\ Cmd.kind \in Copies /\ Cmd.file # Cmd.to /\ f = Cmd.to
    <2>1. task.pc \in {"handle", "copy"}
      BY <1>10 DEF CopyOpen, CopyWrite, Called
    <2>2. AwaitsAnswer /\ task.pc \notin ActedPcs
      BY <2>1 DEF AwaitsAnswer, ReplyPcs, ActedPcs, Typed, TaskOK
    <2> QED BY <1>8, <1>10, <2>2
  <1>11. CASE /\ Unlink /\ task.pc = "unlink" /\ Cmd.file # Cmd.to /\ f = Cmd.file
              /\ \A g \in Files : g # Cmd.file => files'[g] = files[g]
    <2>1. AwaitsAnswer /\ Settled = task.cmd /\ task.cmd \in DOMAIN msgs /\ Cmd.to \in Files
      BY <1>11, CmdTyped DEF AwaitsAnswer, ReplyPcs, ActedPcs, Settled, Typed, TaskOK
    <2>2. Cmd.kind = "mvfile" /\ files[Cmd.to] = files[Cmd.file]
      BY <1>11 DEF Moving
    <2>3. files'[Cmd.to].id = i
      BY <1>1, <1>11, <2>1, <2>2
    <2>4. i < task.cmd /\ task.cmd < Settled + 1
      BY <1>2, <2>1
    <2>5. Cmd.to \in Homes(i, Settled + 1)
      BY <2>1, <2>2, <2>4 DEF Homes, Cmd
    <2> QED BY <1>4, <2>3, <2>5
  <1> QED BY <1>1, <1>3, <1>5, <1>6, <1>7, <1>9, <1>10, <1>11 DEF FileChanges

(* An upload that comes to be acknowledged is in its file.                 *)
LEMMA NewlyAcked ==
    ASSUME Typed, Typed', Step, ~Crash, Queue, Queue', Replies, Replies', LastIsLast, Confirmed,
           UploadCounted, NEW i \in DOMAIN msgs, Acked(i)', ~Acked(i)
    PROVE  Stays(i)'
  <1>0. task \in Tasks(Len(msgs)) /\ tmp \in [Files -> Contents] /\ files \in [Files -> Contents]
    BY DEF Typed, TaskOK, FileOK
  <1>1. msgs[i].kind = "writefile" /\ msgs'[i] = msgs[i] /\ i \in DOMAIN msgs'
    BY MsgsKept DEF Acked
  <1>2. CASE ~Answered(i, "ok")
    <2>1. PICK a \in DOMAIN answers' : answers'[a] = <<i, "ok">>
      BY DEF Acked, Answered
    <2>2. ReplyEnd
      BY <1>2, <2>1, AnswersStay DEF Answered
    <2>3. /\ answers' = Append(answers, <<task.cmd, task.status>>) /\ task.pc = "sending"
          /\ task'.pc = task.next /\ task'.cmd = task.cmd /\ Len(answers) \in Nat
          /\ answers \in Seq((1 .. MaxMsgs) \X {"ok", "er"})
      BY <1>0, <2>2 DEF ReplyEnd, Tasks, Typed, AnswersOK
    <2>4. <<task.cmd, task.status>> = <<i, "ok">>
      <3>1. a \in DOMAIN answers => answers[a] # <<i, "ok">>
        BY <1>2 DEF Answered
      <3> QED BY <2>1, <2>3, <3>1
    <2>5. task.cmd = i /\ task.status = "ok"
      BY <2>4
    <2>6. task.next = "close"
      BY <1>1, <2>3, <2>5 DEF Confirmed, ReplyingPcs, Cmd
    <2>7. Undone(i)'
      BY <2>3, <2>5, <2>6 DEF Undone
    <2> QED BY <2>7 DEF Acked
  <1>3. CASE Answered(i, "ok")
    <2>1. task.pc \in FinishPcs /\ task.cmd = i
      BY <1>1, <1>3 DEF Acked, Undone, FinishPcs
    <2>2. ~(task'.pc \in FinishPcs /\ task'.cmd = i)
      BY DEF Acked, Undone, FinishPcs
    <2>3. Function
      BY <1>0, <2>1, <2>2 DEF Step, HostBegin, HostAnswered, HostGivesUp, SpiBegin, SpiTransfer,
         SpiStore, SpiEnd, SpiUnchanged, TimerFires, TimerClears, Wake, ReadHeader, AwaitHeader,
         ReadPacket, ReadNothing, ReturnItem, ReplyBegin, ReplyFetches, ReplyStore, ReplyEnd,
         Restarts, Abort, DeepSleep, vars, Tasks, FinishPcs
    <2>4. Rename
      BY <1>0, <2>1, <2>2, <2>3 DEF Function, Heartbeat, WriteNoName, WriteNameTooLong, WriteOpen,
         WriteOpenFails, WriteMore, WriteFailed, Writing, DelayOver, Close, Remove, Partial, DelFile,
         CopyRefused, CopyOpen, CopyWrite, Unlink, ExecFile, Called, Tasks, FinishPcs
    <2>5. /\ fptr = Cmd.file /\ tmp[fptr].id = i /\ fptr \in Files
      BY <2>1, <2>4, CmdTyped DEF Rename, Closing, UploadCounted, Uploading
    <2>6. files'[Cmd.file].id = i /\ Cmd.file = msgs'[i].file
      BY <1>0, <1>1, <2>1, <2>4, <2>5 DEF Rename, Cmd
    <2>7. msgs'[i].file \in Homes(i, Settled + 1)'
      BY DEF Homes
    <2> QED BY <2>6, <2>7 DEF Stays
  <1> QED BY <1>2, <1>3

(* AckedSafe is kept.                                                      *)
LEMMA AckStep ==
    ASSUME Typed, Typed', Step, Queue, Queue', Replies, Replies', LastIsLast, LastIsLast', Confirmed,
           Moving, Copying, UploadCounted, AckedSafe
    PROVE  AckedSafe'
  <1>1. SUFFICES ASSUME host'.crashes = 0, NEW i \in DOMAIN msgs', Acked(i)'
                 PROVE  Stays(i)' \/ Lost(i)'
    BY DEF AckedSafe
  <1>2. host.crashes = 0 /\ ~Crash
    <2>0. host \in Hosts
      BY DEF Typed, HostOK
    <2>1. Crash => host'.crashes # 0
      BY <2>0, FsOverBusAssumption DEF Crash, Hosts
    <2>2. ~Crash => host'.crashes = host.crashes
      BY <2>0, FunctionMoves DEF Step, HostBegin, HostAnswered, HostGivesUp, SpiBegin, SpiTransfer,
         SpiStore, SpiEnd, SpiUnchanged, TimerFires, TimerClears, Wake, ReadHeader, AwaitHeader,
         ReadPacket, ReadNothing, ReturnItem, TaskUnchanged, FnUnchanged, hostVars, ReplyBegin,
         ReplyFetches, Fetched, ReplyStore, ReplyEnd, Restarts, Abort, DeepSleep, vars, Hosts
    <2> QED BY <1>1, <2>1, <2>2
  <1>3. i \in DOMAIN msgs
    <2>1. PICK a \in DOMAIN answers' : answers'[a] = <<i, "ok">>
      BY <1>1 DEF Acked, Answered
    <2>2. CASE Answered(i, "ok")
      BY <2>2, AnsweredIs
    <2>3. CASE ~Answered(i, "ok")
      <3>1. ReplyEnd
        BY <2>1, <2>3, AnswersStay DEF Answered
      <3>2. msgs' = msgs
        BY <3>1 DEF ReplyEnd, SendUnchanged
      <3> QED BY <1>1, <3>2
    <2> QED BY <2>2, <2>3
  <1>4. CASE ~Acked(i)
    BY <1>1, <1>2, <1>3, <1>4, NewlyAcked
  <1>5. CASE Acked(i) /\ Stays(i)
    BY <1>2, <1>3, <1>5, KeptStep
  <1>6. CASE Acked(i) /\ Lost(i)
    BY <1>2, <1>3, <1>6, LostStays
  <1> QED BY <1>2, <1>3, <1>4, <1>5, <1>6 DEF AckedSafe

---------------------------------------------------------------------------
(* The theorem.                                                            *)

(* The invariant holds at first, is kept, and implies AckedIsKept.         *)
LEMMA AckInitially == ASSUME Init PROVE AInv
  <1>1. FInv
    BY FilesInitially
  <1>2. answers = <<>> /\ task.pc = "wait"
    BY DEF Init, TaskInit
  <1>3. LastIsLast /\ Confirmed /\ Moving
    BY <1>2 DEF LastIsLast, Confirmed, Moving, FinishPcs, ReplyingPcs
  <1>4. AckedSafe
    BY DEF Init, AckedSafe
  <1> QED BY <1>1, <1>3, <1>4 DEF AInv

LEMMA AckInductive == ASSUME AInv, [Next]_vars PROVE AInv'
  <1>1. FInv /\ FInv' /\ Step /\ LastIsLast /\ Confirmed /\ Moving /\ AckedSafe
    BY FilesInductive, StepsOfNext DEF AInv
  <1>2. /\ Typed /\ Typed' /\ Queue /\ Queue' /\ Replies /\ Replies' /\ Copying /\ UploadCounted
    BY <1>1 DEF FInv, IInv, Copied, Counted
  <1>3. LastIsLast'
    BY <1>1, <1>2, LastStep
  <1>4. Confirmed' /\ Moving'
    BY <1>1, <1>2, ConfirmedStep, MovingStep
  <1>5. AckedSafe'
    BY <1>1, <1>2, <1>3, AckStep
  <1> QED BY <1>1, <1>3, <1>4, <1>5 DEF AInv

LEMMA AckedAreKept == ASSUME AInv PROVE AckedIsKept
  <1>1. SUFFICES ASSUME host.crashes = 0, NEW i \in DOMAIN msgs, Acked(i)
                 PROVE  Kept(i)
    BY DEF AckedIsKept, Acked
  <1>2. /\ Last \in Nat /\ Last <= Len(msgs) /\ Len(msgs) \in Nat /\ task.cmd \in Nat
        /\ task.cmd <= Len(msgs) /\ \A l \in DOMAIN msgs : l \in Nat
    BY LastIs, CmdTyped DEF AInv, FInv, IInv, Typed, TaskOK, Tasks
  <1>3. Settled \in Nat /\ Settled <= Len(msgs)
    BY <1>2 DEF Settled
  <1>4. CASE Stays(i)
    <2>1. Homes(i, Settled + 1) \subseteq Homes(i, Len(msgs) + 1)
      BY <1>2, <1>3 DEF Homes
    <2> QED BY <1>4, <2>1 DEF Stays, Kept
  <1>5. CASE Lost(i)
    <2>1. \A j \in DOMAIN msgs : Gone(j) => Reached(j)
      BY <1>2 DEF Gone, Reached
    <2> QED BY <1>5, <2>1 DEF Lost, Kept, Replaced, Overwrites
  <1> QED BY <1>1, <1>4, <1>5 DEF AInv, AckedSafe

(* Unless the power failed, and for files, messages and rings of any size: *)
(* an upload that was answered with ok, and is closed and renamed, is in   *)
(* its file or where mvfile moved it, until another upload is answered     *)
(* with ok, or a message that deletes or copies comes, for one of these    *)
(* files (writefile, delfile and cpyfile).                                 *)
THEOREM AckedStaysKept == Spec => []AckedIsKept
  <1>1. Init => AInv
    BY AckInitially
  <1>2. AInv /\ [Next]_vars => AInv'
    BY AckInductive
  <1>3. AInv => AckedIsKept
    BY AckedAreKept
  <1> QED BY <1>1, <1>2, <1>3, PTL DEF Spec
=============================================================================
