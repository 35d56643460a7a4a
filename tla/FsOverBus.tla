------------------------------ MODULE FsOverBus ------------------------------
(***************************************************************************)
(* The file system over a bus: driver_fsoverbus, with the backend helper.  *)
(*                                                                         *)
(* A host behind an STM32 sends messages: a header, then the payload.      *)
(* stm32_task fetches them in SPI transactions into a ring buffer and      *)
(* notifies fsob_task, which parses headers, hands the payload packet by   *)
(* packet to the function of the command and answers over the same SPI     *)
(* bus, where it may be handed further units of the host.  A one-shot      *)
(* timer gives up messages that stop coming.                               *)
(*                                                                         *)
(* A unit is what one SPI transaction carries (up to 12 bytes); unit k of  *)
(* message i is <<i, k>>.  A header is HeaderSize units, because it need   *)
(* not coincide with a transaction, and no payload looks like a header.    *)
(* The commands are writefile, which uploads a file, delfile, duplfile and *)
(* mvfile, execfile, which restarts the badge, and heartbeat, which stands *)
(* for the functions that change no file and answer a whole message.       *)
(***************************************************************************)
EXTENDS Naturals, Sequences

CONSTANTS
  Files,       \* files of the badge's flash
  Shapes,      \* messages of the host: [kind, file, to, name, data], name and data in units
  HeaderSize,  \* PACKET_HEADER_SIZE
  RingSize,    \* CONFIG_DRIVER_FSOVERBUS_NOBACKEND_HELPER_Size
  RdBuf,       \* RD_BUF_SIZE
  NameMax,     \* 250: most units among which the name of a file may end
  SlowHost,    \* whether the timer may run out while the host is still sending
  MaxMsgs,     \* bound: messages the host begins
  MaxGiveUps,  \* bound: messages the host stops sending or waiting for
  MaxCrashes   \* bound: power cuts

NULL == "NULL"
Copies == {"duplfile", "mvfile"}
Kinds == {"writefile", "heartbeat", "delfile", "execfile"} \cup Copies

ASSUME FsOverBusAssumption ==
  /\ NULL \notin Files
  /\ Shapes \subseteq [kind: Kinds, file: Files, to: Files, name: Nat, data: Nat]
  /\ HeaderSize \in Nat \ {0} /\ RingSize \in Nat /\ RingSize >= HeaderSize
  /\ RdBuf \in Nat \ {0} /\ NameMax \in Nat
  /\ SlowHost \in BOOLEAN
  /\ MaxMsgs \in Nat /\ MaxGiveUps \in Nat /\ MaxCrashes \in Nat

VARIABLES
  msgs,        \* messages begun by the host, message_id is the index
  host,        \* where the host is in the last of them, units sent, whether it gave up the one before
  spi,         \* stm32_task: where it is, the unit it has fetched
  ring,        \* units in the ring buffer, those fsob_task holds included
  notified,    \* notification pending for fsob_task
  task,        \* fsob_task: where it is, and its locals
  receiving,
  timer,       \* whether the one-shot timer "timeout" runs
  callback,    \* whether vTimeoutFunction has cleared receiving and not yet the ring
  fptr,        \* statics of writefile: the upload that is open, NULL if none
  failed_open,
  files, tmp,  \* what the flash holds under dir_name and dir_name_tmp: [id, len, pure, cut]
  answers,     \* history: replies sent, <<message_id, "ok" or "er">>
  disturbed,   \* history: a timeout, a crash or a host that gave up
  hasty        \* history: a host that gave up began anew before the badge was ready

hostVars  == <<msgs, host>>
ringVars  == <<ring, notified>>
recvVars  == <<receiving, timer, callback>>
fileVars  == <<fptr, failed_open, files, tmp>>
histVars  == <<answers, disturbed, hasty>>
vars == <<hostVars, spi, ringVars, task, recvVars, fileVars, histVars>>

Size(i) == msgs[i].name + msgs[i].data
NoUnit == <<0, 0>>
NoFile == [id |-> 0, len |-> 0, pure |-> TRUE, cut |-> FALSE]
Torn   == [id |-> 0, len |-> 0, pure |-> TRUE, cut |-> TRUE]

HostIdle == [pc |-> "idle", k |-> 0, gaveup |-> FALSE, giveups |-> 0, crashes |-> 0]
TaskInit == [pc |-> "wait", cmd |-> 0, recv |-> 0, n |-> 0, status |-> "ok",
             next |-> "wait", unit |-> NoUnit, stale |-> FALSE]

Init ==
  /\ msgs = <<>> /\ host = HostIdle
  /\ spi = [pc |-> "wait", unit |-> NoUnit]
  /\ ring = <<>> /\ notified = FALSE
  /\ task = TaskInit
  /\ receiving = FALSE /\ timer = FALSE /\ callback = FALSE
  /\ fptr = NULL /\ failed_open = FALSE
  /\ files = [f \in Files |-> NoFile] /\ tmp = [f \in Files |-> NoFile]
  /\ answers = <<>> /\ disturbed = FALSE /\ hasty = FALSE

-----------------------------------------------------------------------------
(* The host and the STM32                                                  *)

Quiet == /\ ~receiving /\ ~timer /\ ~callback /\ ring = <<>> /\ ~notified
         /\ spi.pc # "send" /\ task.pc = "wait"

HostBegin ==
  /\ host.pc = "idle"
  /\ Len(msgs) < MaxMsgs
  /\ \E m \in Shapes : msgs' = Append(msgs, m)
  /\ host' = [host EXCEPT !.pc = "sending", !.k = 0, !.gaveup = FALSE]
  /\ hasty' = (hasty \/ (host.gaveup /\ ~Quiet))
  /\ UNCHANGED <<spi, ringVars, task, recvVars, fileVars, answers, disturbed>>

HostAnswered ==
  /\ host.pc = "waiting"
  /\ \E a \in DOMAIN answers : answers[a][1] = Len(msgs)
  /\ host' = [host EXCEPT !.pc = "idle"]
  /\ UNCHANGED <<msgs, spi, ringVars, task, recvVars, fileVars, histVars>>

HostGivesUp ==
  /\ host.pc # "idle"
  /\ host.giveups < MaxGiveUps
  /\ host' = [host EXCEPT !.pc = "idle", !.gaveup = TRUE, !.giveups = @ + 1]
  /\ disturbed' = TRUE
  /\ UNCHANGED <<msgs, spi, ringVars, task, recvVars, fileVars, answers, hasty>>

(* A transaction whose answer carries a unit (process_miso).               *)
HasData  == host.pc = "sending"
NextUnit == <<Len(msgs), host.k + 1>>
Fetched  == host' = IF host.k + 1 = HeaderSize + Size(Len(msgs))
                    THEN [host EXCEPT !.pc = "waiting", !.k = @ + 1]
                    ELSE [host EXCEPT !.k = @ + 1]

-----------------------------------------------------------------------------
(* stm32_task holds SemaphoreHandle1 from SpiBegin to SpiEnd, fsob_task    *)
(* while it sends a reply.                                                 *)

Sending   == task.pc \in {"sending", "store"}
MutexFree == spi.pc = "wait" /\ ~Sending
SpiUnchanged == UNCHANGED <<msgs, task, recvVars, fileVars, histVars>>

SpiBegin ==
  /\ MutexFree
  /\ HasData
  /\ spi' = [spi EXCEPT !.pc = "xfer"]
  /\ UNCHANGED <<host, ringVars>> /\ SpiUnchanged

SpiTransfer ==
  /\ spi.pc = "xfer"
  /\ HasData
  /\ Fetched
  /\ spi' = [pc |-> "send", unit |-> NextUnit]
  /\ UNCHANGED ringVars /\ SpiUnchanged

Room == Len(ring) < RingSize

(* Mutant: only the end of a transfer is notified.                         *)
SpiStoreSilent ==
  /\ spi.pc = "send"
  /\ \/ Room /\ ring' = Append(ring, spi.unit) /\ spi' = [pc |-> "xfer", unit |-> NoUnit]
     \/ ~Room /\ UNCHANGED <<ring, spi>>
  /\ notified' = (notified \/ ~Room)
  /\ UNCHANGED host /\ SpiUnchanged

(* fsob_receive_bytes: retried with a notification while the ring is full. *)
SpiStore ==
  /\ spi.pc = "send"
  /\ \/ Room /\ ring' = Append(ring, spi.unit) /\ spi' = [pc |-> "xfer", unit |-> NoUnit]
     \/ ~Room /\ UNCHANGED <<ring, spi>>
  /\ notified' = TRUE
  /\ UNCHANGED host /\ SpiUnchanged

SpiEnd ==
  /\ spi.pc = "xfer"
  /\ ~HasData
  /\ spi' = [spi EXCEPT !.pc = "wait"]
  /\ UNCHANGED <<host, ringVars>> /\ SpiUnchanged

-----------------------------------------------------------------------------
(* The timer task has the lowest priority and runs only while the other    *)
(* two, on the same core, are blocked; either may preempt its callback.    *)

CoreIdle ==
  /\ ~(spi.pc = "send" /\ Room)
  /\ \/ task.pc = "wait" /\ ~notified
     \/ task.pc \in {"delay", "sending"}
     \/ task.pc = "reply" /\ ~MutexFree
     \/ task.pc = "store" /\ ~Room

Holding == task.pc \notin {"wait", "loop"}

TimerFires ==
  /\ timer /\ ~callback /\ CoreIdle
  /\ SlowHost \/ ~HasData
  /\ receiving' = FALSE /\ timer' = FALSE /\ callback' = TRUE
  /\ disturbed' = TRUE
  /\ UNCHANGED <<hostVars, spi, ringVars, task, fileVars, answers, hasty>>

(* clearBuffer: the ring is replaced, under whatever item fsob_task holds. *)
(* A sender that waits for room waits on the ring that is freed; it is     *)
(* taken to time out and to try again with the new one.                    *)
TimerClears ==
  /\ callback /\ CoreIdle
  /\ callback' = FALSE
  /\ ring' = <<>>
  /\ task' = [task EXCEPT !.stale = Holding]
  /\ UNCHANGED <<hostVars, spi, notified, receiving, timer, fileVars, histVars>>

-----------------------------------------------------------------------------
(* fsob_task: headers and packets                                          *)

TaskUnchanged == UNCHANGED <<hostVars, spi, callback, histVars>>

Wake ==
  /\ task.pc = "wait"
  /\ notified
  /\ notified' = FALSE
  /\ task' = [task EXCEPT !.pc = "loop"]
  /\ UNCHANGED <<ring, receiving, timer, fileVars>> /\ TaskUnchanged

IsHeader(s) == \E i \in DOMAIN msgs : s = [k \in 1 .. HeaderSize |-> <<i, k>>]
Continue(r) == IF r = <<>> THEN "wait" ELSE "loop"

(* A header, or a flush and another round over the empty ring.             *)
ReadHeader ==
  /\ task.pc = "loop" /\ ~receiving
  /\ Len(ring) >= HeaderSize
  /\ LET head == SubSeq(ring, 1, HeaderSize)
         rest == SubSeq(ring, HeaderSize + 1, Len(ring))
     IN  \/ /\ IsHeader(head)
            /\ receiving' = TRUE /\ timer' = TRUE
            /\ ring' = rest
            /\ task' = [task EXCEPT !.pc = Continue(rest), !.cmd = head[1][1], !.recv = 0]
         \/ /\ ~IsHeader(head)
            /\ timer' = FALSE
            /\ ring' = <<>>
            /\ UNCHANGED <<receiving, task>>
  /\ UNCHANGED <<notified, fileVars>> /\ TaskUnchanged

AwaitHeader ==
  /\ task.pc = "loop" /\ ~receiving
  /\ Len(ring) < HeaderSize
  /\ timer' = TRUE
  /\ task' = [task EXCEPT !.pc = "wait"]
  /\ UNCHANGED <<ringVars, receiving, fileVars>> /\ TaskUnchanged

Least(a, b) == IF a <= b THEN a ELSE b
MaxRead == Least(RdBuf, Size(task.cmd) - task.recv)

(* A packet: any number of the units there are, as they may wrap around.   *)
ReadPacket ==
  /\ task.pc = "loop" /\ receiving
  /\ timer' = FALSE
  /\ \E n \in 1 .. Least(MaxRead, Len(ring)) :
       task' = [task EXCEPT !.pc = "handle", !.n = n, !.recv = @ + n]
  /\ UNCHANGED <<ringVars, receiving, fileVars>> /\ TaskUnchanged

(* Nothing in the ring, or nothing left to read of the message: the timer  *)
(* is stopped all the same.                                                *)
ReadNothing ==
  /\ task.pc = "loop" /\ receiving
  /\ ring = <<>> \/ MaxRead = 0
  /\ timer' = FALSE
  /\ task' = [task EXCEPT !.pc = Continue(ring)]
  /\ UNCHANGED <<ringVars, receiving, fileVars>> /\ TaskUnchanged

(* After the function: the item goes back to the ring, if it is still the  *)
(* one it came from (Abort otherwise).                                     *)
ReturnItem ==
  /\ task.pc = "return" /\ ~task.stale
  /\ LET rest == SubSeq(ring, task.n + 1, Len(ring))
     IN  /\ ring' = rest
         /\ task' = [task EXCEPT !.pc = Continue(rest), !.n = 0]
  /\ IF task.recv = Size(task.cmd) THEN receiving' = FALSE /\ UNCHANGED timer
                                   ELSE timer' = TRUE /\ UNCHANGED receiving
  /\ UNCHANGED <<notified, fileVars>> /\ TaskUnchanged

-----------------------------------------------------------------------------
(* fsob_task: handleFSCommand and the functions                            *)

Whole == task.recv = Size(task.cmd)
First == task.recv = task.n
Cmd   == msgs[task.cmd]

FnUnchanged == UNCHANGED <<hostVars, spi, ringVars, recvVars, histVars>>

(* Where the function goes: back, or into sender/sendok and then on.       *)
Back  == task' = [task EXCEPT !.pc = "return"]
Reply(status, next) == task' = [task EXCEPT !.pc = "reply", !.status = status, !.next = next]

Heartbeat ==
  /\ task.pc = "handle" /\ Cmd.kind = "heartbeat"
  /\ IF Whole THEN Reply("ok", "return") ELSE Back
  /\ UNCHANGED fileVars /\ FnUnchanged

Writing == task.pc = "handle" /\ Cmd.kind = "writefile"
Opening == First \/ (fptr = NULL /\ ~failed_open)

(* The packet's units are those of the message, one after the other.       *)
Expected == \A j \in 1 .. task.n :
              ring[j] = <<task.cmd, HeaderSize + task.recv - task.n + j>>

(* No terminator of the name yet: wait for more.                           *)
WriteNoName ==
  /\ Writing /\ Opening
  /\ Cmd.name = 0 \/ task.recv < Cmd.name
  /\ Back
  /\ fptr' = IF First THEN NULL ELSE fptr
  /\ failed_open' = FALSE
  /\ UNCHANGED <<files, tmp>> /\ FnUnchanged

(* The terminator among too many units: fail, without a reply.             *)
WriteNameTooLong ==
  /\ Writing /\ Opening
  /\ Cmd.name > 0 /\ task.recv >= Cmd.name /\ task.recv > NameMax
  /\ Back
  /\ fptr' = NULL /\ failed_open' = TRUE
  /\ UNCHANGED <<files, tmp>> /\ FnUnchanged

NameReceived == Cmd.name > 0 /\ task.recv >= Cmd.name /\ task.recv <= NameMax

WriteOpen ==
  /\ Writing /\ Opening /\ NameReceived
  /\ fptr' = Cmd.file /\ failed_open' = FALSE
  /\ tmp' = [tmp EXCEPT ![Cmd.file] =
               [id |-> task.cmd, len |-> task.recv - Cmd.name, pure |-> Expected,
                cut |-> FALSE]]
  /\ IF Whole THEN Reply("ok", "close") ELSE Back
  /\ UNCHANGED files /\ FnUnchanged

WriteOpenFails ==
  /\ Writing /\ Opening /\ NameReceived
  /\ fptr' = NULL /\ failed_open' = ~Whole
  /\ IF Whole THEN Reply("er", "return") ELSE Back
  /\ UNCHANGED <<files, tmp>> /\ FnUnchanged

(* Mutant: the upload is complete one unit early.                          *)
WriteMoreEarly ==
  /\ Writing /\ ~Opening /\ fptr # NULL
  /\ tmp' = [tmp EXCEPT ![fptr].len = @ + task.n, ![fptr].pure = @ /\ Expected]
  /\ IF task.recv + 1 >= Size(task.cmd) THEN Reply("ok", "close")
     ELSE task' = [task EXCEPT !.pc = "delay"]
  /\ UNCHANGED <<fptr, failed_open, files>> /\ FnUnchanged

WriteMore ==
  /\ Writing /\ ~Opening /\ fptr # NULL
  /\ tmp' = [tmp EXCEPT ![fptr].len = @ + task.n, ![fptr].pure = @ /\ Expected]
  /\ IF Whole THEN Reply("ok", "close") ELSE task' = [task EXCEPT !.pc = "delay"]
  /\ UNCHANGED <<fptr, failed_open, files>> /\ FnUnchanged

(* Mutant: every packet of a failed upload is answered.                    *)
WriteFailedAnswersAll ==
  /\ Writing /\ ~Opening /\ fptr = NULL
  /\ Reply("er", "return")
  /\ UNCHANGED fileVars /\ FnUnchanged

WriteFailed ==
  /\ Writing /\ ~Opening /\ fptr = NULL
  /\ IF Whole THEN Reply("er", "return") /\ failed_open' = FALSE
              ELSE Back /\ UNCHANGED failed_open
  /\ UNCHANGED <<fptr, files, tmp>> /\ FnUnchanged

(* vTaskDelay(1) after a packet of an upload.                              *)
DelayOver ==
  /\ task.pc = "delay"
  /\ Back
  /\ UNCHANGED fileVars /\ FnUnchanged

Close ==
  /\ task.pc = "close"
  /\ task' = [task EXCEPT !.pc = "remove"]
  /\ UNCHANGED fileVars /\ FnUnchanged

Remove ==
  /\ task.pc = "remove"
  /\ files' = [files EXCEPT ![fptr] = NoFile]
  /\ task' = [task EXCEPT !.pc = "rename"]
  /\ UNCHANGED <<fptr, failed_open, tmp>> /\ FnUnchanged

Rename ==
  /\ task.pc = "rename"
  /\ files' = [files EXCEPT ![fptr] = tmp[fptr]]
  /\ tmp' = [tmp EXCEPT ![fptr] = NoFile]
  /\ fptr' = NULL /\ failed_open' = FALSE
  /\ Back
  /\ FnUnchanged

(* The functions below wait for the whole message.                         *)
Partial ==
  /\ task.pc = "handle" /\ Cmd.kind \notin {"heartbeat", "writefile"} /\ ~Whole
  /\ Back
  /\ UNCHANGED fileVars /\ FnUnchanged

Called(kinds) == task.pc = "handle" /\ Cmd.kind \in kinds /\ Whole

DelFile ==
  /\ Called({"delfile"})
  /\ \/ /\ files[Cmd.file] # NoFile
        /\ files' = [files EXCEPT ![Cmd.file] = NoFile]
        /\ Reply("ok", "return")
     \/ Reply("er", "return") /\ UNCHANGED files
  /\ UNCHANGED <<fptr, failed_open, tmp>> /\ FnUnchanged

(* cpyfile: the two names must differ, *)
CopyRefused ==
  /\ Called(Copies) /\ Cmd.file = Cmd.to
  /\ Reply("er", "return")
  /\ UNCHANGED fileVars /\ FnUnchanged

(* and the target is emptied, whether or not the source can be opened.     *)
CopyOpen ==
  /\ Called(Copies) /\ Cmd.file # Cmd.to
  /\ \E source \in {FALSE, files[Cmd.file] # NoFile}, target \in BOOLEAN :
       /\ files' = IF target THEN [files EXCEPT ![Cmd.to] = Torn] ELSE files
       /\ IF source /\ target THEN task' = [task EXCEPT !.pc = "copy"]
                             ELSE Reply("er", "return")
  /\ UNCHANGED <<fptr, failed_open, tmp>> /\ FnUnchanged

(* Mutant: the source of a move is removed before the copy is written.     *)
CopyWriteLast ==
  /\ task.pc = "copy"
  /\ files' = IF Cmd.kind = "mvfile" THEN [files EXCEPT ![Cmd.file] = NoFile]
              ELSE [files EXCEPT ![Cmd.to] = files[Cmd.file]]
  /\ IF Cmd.kind = "mvfile" THEN task' = [task EXCEPT !.pc = "unlink"] ELSE Reply("ok", "return")
  /\ UNCHANGED <<fptr, failed_open, tmp>> /\ FnUnchanged

(* The copy is whole when both are closed; only then a source is removed   *)
(* (or stays, if that fails, which nothing looks at).                      *)
CopyWrite ==
  /\ task.pc = "copy"
  /\ files' = [files EXCEPT ![Cmd.to] = files[Cmd.file]]
  /\ IF Cmd.kind = "mvfile" THEN task' = [task EXCEPT !.pc = "unlink"] ELSE Reply("ok", "return")
  /\ UNCHANGED <<fptr, failed_open, tmp>> /\ FnUnchanged

Unlink ==
  /\ task.pc = "unlink"
  /\ files' \in {files, [files EXCEPT ![Cmd.file] = NoFile]}
  /\ Reply("ok", "return")
  /\ UNCHANGED <<fptr, failed_open, tmp>> /\ FnUnchanged

ExecFile ==
  /\ Called({"execfile"})
  /\ Reply("ok", "sleep")
  /\ UNCHANGED fileVars /\ FnUnchanged

-----------------------------------------------------------------------------
(* fsob_task: fsob_write_bytes of a reply                                  *)

SendUnchanged == UNCHANGED <<msgs, spi, recvVars, fileVars, disturbed, hasty>>

ReplyBegin ==
  /\ task.pc = "reply" /\ MutexFree
  /\ task' = [task EXCEPT !.pc = "sending"]
  /\ UNCHANGED <<host, ringVars, answers>> /\ SendUnchanged

(* The STM32 hands over a unit in the same transaction ...                 *)
ReplyFetches ==
  /\ task.pc = "sending"
  /\ HasData
  /\ Fetched
  /\ task' = [task EXCEPT !.pc = "store", !.unit = NextUnit]
  /\ UNCHANGED <<ringVars, answers>> /\ SendUnchanged

(* ... which fsob_task itself has to store, and waits for room.            *)
ReplyStore ==
  /\ task.pc = "store" /\ Room
  /\ ring' = Append(ring, task.unit)
  /\ notified' = TRUE
  /\ task' = [task EXCEPT !.pc = "sending", !.unit = NoUnit]
  /\ UNCHANGED <<host, answers>> /\ SendUnchanged

ReplyEnd ==
  /\ task.pc = "sending"
  /\ answers' = Append(answers, <<task.cmd, task.status>>)
  /\ task' = [task EXCEPT !.pc = task.next]
  /\ UNCHANGED <<host, ringVars>> /\ SendUnchanged

-----------------------------------------------------------------------------
(* A power cut, or the assertion that fails when an item is returned to a  *)
(* ring that is not its own.  What was not closed may be lost in part.     *)

Restart ==
  /\ spi' = [pc |-> "wait", unit |-> NoUnit]
  /\ ring' = <<>> /\ notified' = FALSE
  /\ task' = TaskInit
  /\ receiving' = FALSE /\ timer' = FALSE /\ callback' = FALSE
  /\ fptr' = NULL /\ failed_open' = FALSE
  /\ \/ UNCHANGED tmp
     \/ /\ fptr # NULL /\ task.pc \notin {"remove", "rename"}
        /\ \E n \in 0 .. tmp[fptr].len : tmp' = [tmp EXCEPT ![fptr].len = n]
  /\ disturbed' = TRUE
  /\ UNCHANGED <<msgs, files, answers, hasty>>

Crash == host.crashes < MaxCrashes /\ host' = [host EXCEPT !.crashes = @ + 1] /\ Restart
Abort == task.pc = "return" /\ task.stale /\ UNCHANGED host /\ Restart

(* execfile: the name is kept in the RTC memory, the badge sleeps a second *)
(* and starts again.                                                       *)
DeepSleep == task.pc = "sleep" /\ UNCHANGED host /\ Restart

-----------------------------------------------------------------------------
Host  == HostBegin \/ HostAnswered \/ HostGivesUp
Stm32 == SpiBegin \/ SpiTransfer \/ SpiStore \/ SpiEnd
Timer == TimerFires \/ TimerClears
Function == Heartbeat \/ WriteNoName \/ WriteNameTooLong \/ WriteOpen \/ WriteOpenFails
            \/ WriteMore \/ WriteFailed \/ DelayOver \/ Close \/ Remove \/ Rename
            \/ Partial \/ DelFile \/ CopyRefused \/ CopyOpen \/ CopyWrite \/ Unlink \/ ExecFile
Replying == ReplyBegin \/ ReplyFetches \/ ReplyStore \/ ReplyEnd
Task  == Wake \/ ReadHeader \/ AwaitHeader \/ ReadPacket \/ ReadNothing \/ ReturnItem
         \/ Function \/ Replying \/ DeepSleep
Next  == Host \/ Stm32 \/ Timer \/ Task \/ Crash \/ Abort

Spec == Init /\ [][Next]_vars

(* FreeRTOS runs every task that is ready; the host notices its answers.   *)
FairSpec == Spec /\ WF_vars(Stm32) /\ WF_vars(Task) /\ WF_vars(Timer) /\ WF_vars(HostAnswered)

-----------------------------------------------------------------------------
Units == {NoUnit} \cup ((1 .. MaxMsgs) \X Nat)
Contents == [id: 0 .. MaxMsgs, len: Nat, pure: BOOLEAN, cut: BOOLEAN]

TypeOK ==
  /\ msgs \in Seq(Shapes) /\ Len(msgs) <= MaxMsgs
  /\ host \in [pc: {"idle", "sending", "waiting"}, k: Nat, gaveup: BOOLEAN,
               giveups: 0 .. MaxGiveUps, crashes: 0 .. MaxCrashes]
  /\ spi \in [pc: {"wait", "xfer", "send"}, unit: Units]
  /\ ring \in Seq(Units) /\ Len(ring) <= RingSize
  /\ notified \in BOOLEAN /\ receiving \in BOOLEAN /\ timer \in BOOLEAN /\ callback \in BOOLEAN
  /\ task \in [pc: {"wait", "loop", "handle", "delay", "reply", "sending", "store",
                    "close", "remove", "rename", "copy", "unlink", "sleep", "return"},
               cmd: 0 .. Len(msgs), recv: Nat, n: Nat, status: {"ok", "er"},
               next: {"wait", "close", "sleep", "return"}, unit: Units, stale: BOOLEAN]
  /\ task.cmd # 0 => task.recv <= Size(task.cmd)
  /\ fptr \in Files \cup {NULL} /\ failed_open \in BOOLEAN
  /\ files \in [Files -> Contents] /\ tmp \in [Files -> Contents]
  /\ answers \in Seq((1 .. MaxMsgs) \X {"ok", "er"})

(* A file never holds part of an upload, whatever the host, the timer and  *)
(* the power did while it came in (writefile goes through a .tmp file);    *)
(* unless a host that gave up began anew before the badge was ready, it    *)
(* never holds units of anything else; and a file is torn only while, or   *)
(* because, a copy was not answered with ok (cpyfile writes in place).     *)
CopiesAnswered == \A i \in DOMAIN msgs :
  msgs[i].kind \in Copies => \E a \in DOMAIN answers : answers[a] = <<i, "ok">>
FilesWhole ==
  /\ \A f \in Files : files[f] # NoFile /\ ~files[f].cut =>
       /\ files[f].len = msgs[files[f].id].data
       /\ hasty \/ files[f].pure
  /\ CopiesAnswered => \A f \in Files : ~files[f].cut

(* A message is answered once at most, and messages in their order, across *)
(* timeouts, restarts and functions that wait inside a reply.              *)
AnsweredOnce == \A a \in 2 .. Len(answers) : answers[a - 1][1] < answers[a][1]

(* Unless the power failed: an upload that was answered with ok, and is    *)
(* closed and renamed, is in its file or where it was moved, until an      *)
(* upload that was answered with ok, or a message that deletes or copies,  *)
(* comes to one of these files; a move keeps it at every moment.           *)
Answered(i, status) == \E a \in DOMAIN answers : answers[a] = <<i, status>>
Undone(i) == task.pc \in {"close", "remove", "rename"} /\ task.cmd = i
Reached(i) == task.cmd >= i \/ \E a \in DOMAIN answers : answers[a][1] >= i
Overwrites(i, f) ==
  \/ msgs[i].kind = "writefile" /\ msgs[i].file = f /\ Answered(i, "ok")
  \/ msgs[i].kind = "delfile" /\ msgs[i].file = f /\ Reached(i)
  \/ msgs[i].kind \in Copies /\ msgs[i].file # f /\ msgs[i].to = f /\ Reached(i)
Homes(i, j) ==
  {msgs[i].file} \cup
  {msgs[k].to : k \in {l \in DOMAIN msgs : l > i /\ l < j /\ msgs[l].kind = "mvfile"}}
Kept(i) ==
  \/ \E f \in Homes(i, Len(msgs) + 1) : files[f].id = i
  \/ \E j \in DOMAIN msgs : j > i /\ \E f \in Homes(i, j) : Overwrites(j, f)
AckedIsKept ==
  host.crashes = 0 =>
    \A i \in DOMAIN msgs :
      msgs[i].kind = "writefile" /\ Answered(i, "ok") /\ ~Undone(i) => Kept(i)

(* While nothing times out, nobody gives up and the power stays, a request *)
(* is answered, except three that fsob_task drops in silence, although the *)
(* driver's README says "All functions return OK or ER": one without       *)
(* payload (ReadNothing: no packet, so no function is called), an upload   *)
(* whose name has no end, and an upload whose last packet is also the one  *)
(* in which the name ends, more than NameMax units into the payload        *)
(* (WriteNameTooLong).  Where packets end depends on when fsob_task runs:  *)
(* it cannot be so for an upload that is short, or that does not fit in    *)
(* RdBuf units from any unit of its name on.                               *)
Answerable(m) == /\ m.name + m.data > 0
                 /\ m.kind = "writefile" => /\ m.name > 0
                                            /\ m.name + m.data <= NameMax \/ m.data >= RdBuf
RequestAnswered ==
  []~disturbed => (host.pc = "waiting" /\ Answerable(msgs[Len(msgs)]) ~> host.pc = "idle")

=============================================================================
