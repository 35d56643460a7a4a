------------------------------ MODULE Microphone ------------------------------
(***************************************************************************)
(* The microphone driver: driver_microphone.c and driver_microphone_buffer.c *)
(* under modmicrophone.c.                                                  *)
(*                                                                         *)
(* The recording task, on one core, puts a malloc'ed copy of every frame   *)
(* the I2S DMA delivers into a ring; the MicroPython task, on the other    *)
(* core, takes frames out and frees them, and starts and stops recording.  *)
(* There is no lock: each action below is one access to what both share.   *)
(* An address is free to be handed out again by malloc once it is freed.   *)
(***************************************************************************)
EXTENDS Naturals, Sequences, FiniteSets

CONSTANTS
  Backlog,      \* frame_backlog of driver_microphone_start (250 in modmicrophone.c)
  Frames,       \* addresses malloc returns
  MaxRead,      \* largest argument of microphone.read
  MaxStarts,    \* bound: calls of driver_microphone_start that get past its guard
  StartMayFail  \* whether the I2S driver or the task creation may fail

NULL == "NULL"

ASSUME MicrophoneAssumption ==
  /\ Backlog \in Nat \ {0}
  /\ NULL \notin Frames
  /\ MaxRead \in Nat
  /\ MaxStarts \in Nat
  /\ StartMayFail \in BOOLEAN

VARIABLES
  g_data,      \* data pointers of the Backlog + 1 slots
  g_head, g_tail,
  filled,      \* allocated frames whose memcpy is done
  heap,        \* frames allocated and not freed
  rec,         \* where the recording task is, "none" if there is no such task
  cl,          \* where the MicroPython task is: pc, frames left to read, waits, frame in hand
  running,     \* g_mic_state.running
  handle,      \* g_task_handle: "null", or that of a "live" or a "deleted" task
  starts,      \* bound: calls of driver_microphone_start so far
  leaked,      \* history: frames no pointer reaches any more
  last         \* history: the ring operation that completed last

ringVars == <<g_data, g_head, g_tail>>
taskVars == <<running, handle, starts>>
vars == <<ringVars, filled, heap, rec, cl, taskVars, leaked, last>>

Slots == 0 .. Backlog
After(i) == (i + 1) % (Backlog + 1)

(* get_used and get_free, as computed from one reading of the two indices  *)
Used == IF g_head < g_tail THEN Backlog - (g_tail - g_head) + 1 ELSE g_head - g_tail
Free == IF g_head < g_tail THEN g_tail - g_head - 1 ELSE Backlog - (g_head - g_tail)

Init ==
  /\ g_data = [i \in Slots |-> NULL]
  /\ g_head = 0 /\ g_tail = 0
  /\ filled = {} /\ heap = {}
  /\ rec = "none"
  /\ cl = [pc |-> "idle", left |-> 0, wait |-> FALSE, data |-> NULL]
  /\ running = FALSE /\ handle = "null" /\ starts = 0
  /\ leaked = {}
  /\ last = <<"reset">>

-----------------------------------------------------------------------------
(* Recording task: ICS41350_record_task and driver_microphone_ring_buffer_put *)

RecUnchanged == UNCHANGED <<g_tail, cl, taskVars, leaked>>

ReadFrame ==
  /\ rec = "read"
  /\ rec' = "put"
  /\ UNCHANGED <<g_data, g_head, filled, heap, last>> /\ RecUnchanged

(* Mutants: the test for room is off by one, either way.                   *)
PutCheckWhenFull ==
  /\ rec = "put"
  /\ Free + 1 > 0
  /\ rec' = "alloc"
  /\ UNCHANGED <<g_data, g_head, filled, heap, last>> /\ RecUnchanged
PutCheckEarly ==
  /\ rec = "put"
  /\ \/ Free > 1 /\ rec' = "alloc" /\ UNCHANGED last
     \/ Free <= 1 /\ rec' = "read" /\ last' = <<"drop">>
  /\ UNCHANGED <<g_data, g_head, filled, heap>> /\ RecUnchanged

(* get_free: the reader's g_tail is read here, and only here.              *)
PutCheck ==
  /\ rec = "put"
  /\ \/ Free > 0 /\ rec' = "alloc" /\ UNCHANGED last
     \/ Free = 0 /\ rec' = "read" /\ last' = <<"drop">>
  /\ UNCHANGED <<g_data, g_head, filled, heap>> /\ RecUnchanged

(* Mutant: the index moves before the frame is there.                      *)
PutAllocPublishes ==
  /\ rec = "alloc"
  /\ \E f \in Frames \ heap :
       /\ heap' = heap \cup {f}
       /\ g_data' = [g_data EXCEPT ![g_head] = f]
       /\ last' = <<"put", f>>
  /\ g_head' = After(g_head)
  /\ rec' = "copy"
  /\ UNCHANGED filled /\ RecUnchanged

PutAlloc ==
  /\ rec = "alloc"
  /\ \E f \in Frames \ heap :
       /\ heap' = heap \cup {f}
       /\ g_data' = [g_data EXCEPT ![g_head] = f]
  /\ rec' = "copy"
  /\ UNCHANGED <<g_head, filled, last>> /\ RecUnchanged

PutCopy ==
  /\ rec = "copy"
  /\ filled' = filled \cup {g_data[g_head]}
  /\ rec' = "publish"
  /\ UNCHANGED <<g_data, g_head, heap, last>> /\ RecUnchanged

PutPublish ==
  /\ rec = "publish"
  /\ g_head' = After(g_head)
  /\ last' = <<"put", g_data[g_head]>>
  /\ rec' = "read"
  /\ UNCHANGED <<g_data, filled, heap>> /\ RecUnchanged

-----------------------------------------------------------------------------
(* MicroPython task: microphone.read and driver_microphone_ring_buffer_get *)

ClUnchanged == UNCHANGED <<g_head, rec, taskVars, leaked>>

(* read() needs a running microphone and waits for a frame; read(n) takes  *)
(* what is there, up to n frames, or all there is for n = 0 (the count goes *)
(* below zero and never comes back to it).                                 *)
Read ==
  /\ cl.pc = "idle"
  /\ \/ running /\ cl' = [cl EXCEPT !.pc = "check", !.left = 1, !.wait = TRUE]
     \/ \E n \in 0 .. MaxRead : cl' = [cl EXCEPT !.pc = "check", !.left = n, !.wait = FALSE]
  /\ UNCHANGED <<g_data, g_tail, filled, heap, last>> /\ ClUnchanged

(* get_used: the recorder's g_head is read here, and only here.            *)
GetCheck ==
  /\ cl.pc = "check"
  /\ \/ Used > 0 /\ cl' = [cl EXCEPT !.pc = "take"] /\ UNCHANGED last
     \/ /\ Used = 0
        /\ cl' = IF cl.wait THEN cl ELSE [cl EXCEPT !.pc = "idle"]
        /\ last' = <<"empty">>
  /\ UNCHANGED <<g_data, g_tail, filled, heap>> /\ ClUnchanged

GetTake ==
  /\ cl.pc = "take"
  /\ cl' = [cl EXCEPT !.pc = "clear", !.data = g_data[g_tail]]
  /\ UNCHANGED <<g_data, g_tail, filled, heap, last>> /\ ClUnchanged

GetClear ==
  /\ cl.pc = "clear"
  /\ g_data' = [g_data EXCEPT ![g_tail] = NULL]
  /\ cl' = [cl EXCEPT !.pc = "advance"]
  /\ UNCHANGED <<g_tail, filled, heap, last>> /\ ClUnchanged

GetAdvance ==
  /\ cl.pc = "advance"
  /\ g_tail' = After(g_tail)
  /\ cl' = [cl EXCEPT !.pc = "use"]
  /\ last' = <<"get", cl.data>>
  /\ UNCHANGED <<g_data, filled, heap>> /\ ClUnchanged

(* Mutant: the frames read are not counted.                                *)
UseFrameUncounted ==
  /\ cl.pc = "use"
  /\ heap' = heap \ {cl.data}
  /\ filled' = filled \ {cl.data}
  /\ cl' = [cl EXCEPT !.pc = IF cl.left = 1 THEN "idle" ELSE "check", !.data = NULL]
  /\ UNCHANGED <<g_data, g_tail, last>> /\ ClUnchanged

(* The frame is copied into a bytearray and freed; read(n) goes on while   *)
(* frames are left to read.                                                *)
UseFrame ==
  /\ cl.pc = "use"
  /\ heap' = heap \ {cl.data}
  /\ filled' = filled \ {cl.data}
  /\ cl' = [cl EXCEPT !.pc = IF cl.left = 1 THEN "idle" ELSE "check",
                      !.left = IF @ = 0 THEN 0 ELSE @ - 1, !.data = NULL]
  /\ UNCHANGED <<g_data, g_tail, last>> /\ ClUnchanged

-----------------------------------------------------------------------------
(* MicroPython task: microphone.enable and microphone.disable              *)

Published == {i \in Slots : IF g_head < g_tail THEN i >= g_tail \/ i < g_head
                                               ELSE i >= g_tail /\ i < g_head}

(* Mutant: the frames left in the ring are not freed.                      *)
StartKeepsFrames ==
  /\ cl.pc = "idle"
  /\ ~running
  /\ starts < MaxStarts
  /\ starts' = starts + 1
  /\ running' = TRUE
  /\ g_data' = [i \in Slots |-> NULL]
  /\ g_head' = 0 /\ g_tail' = 0
  /\ last' = <<"reset">>
  /\ rec' = "read" /\ handle' = "live"
  /\ UNCHANGED <<filled, heap, cl, leaked>>

(* driver_microphone_start: the ring is freed with what is still in it and *)
(* allocated anew; then the I2S driver is set up and the task created, any *)
(* of which may fail and leave running set.                                *)
Start ==
  /\ cl.pc = "idle"
  /\ ~running
  /\ starts < MaxStarts
  /\ starts' = starts + 1
  /\ running' = TRUE
  /\ heap' = heap \ {g_data[i] : i \in Published}
  /\ filled' = filled \ {g_data[i] : i \in Published}
  /\ g_data' = [i \in Slots |-> NULL]
  /\ g_head' = 0 /\ g_tail' = 0
  /\ last' = <<"reset">>
  /\ \/ rec' = "read" /\ handle' = "live"
     \/ StartMayFail /\ UNCHANGED <<rec, handle>>
  /\ UNCHANGED <<cl, leaked>>

(* driver_microphone_stop: the task is deleted wherever it is.  With no    *)
(* task created yet, vTaskDelete(NULL) deletes the caller; with a handle   *)
(* left over from an earlier recording it acts on freed memory, which may  *)
(* go unnoticed or bring the caller down.                                  *)
Stop ==
  /\ cl.pc = "idle"
  /\ running
  /\ \/ /\ handle = "live"
        /\ rec' = "none" /\ handle' = "deleted" /\ running' = FALSE
        /\ leaked' = leaked \cup {f \in {g_data[g_head]} : rec \in {"copy", "publish"}}
        /\ UNCHANGED cl
     \/ /\ handle = "deleted"
        /\ running' = FALSE
        /\ UNCHANGED <<cl, rec, handle, leaked>>
     \/ /\ handle # "live"
        /\ cl' = [cl EXCEPT !.pc = "dead"]
        /\ UNCHANGED <<running, rec, handle, leaked>>
  /\ UNCHANGED <<ringVars, filled, heap, starts, last>>

-----------------------------------------------------------------------------
Recorder == ReadFrame \/ PutCheck \/ PutAlloc \/ PutCopy \/ PutPublish
Getter   == GetCheck \/ GetTake \/ GetClear \/ GetAdvance \/ UseFrame
Client   == Read \/ Getter \/ Start \/ Stop
Next == Recorder \/ Client

Spec == Init /\ [][Next]_vars

(* The DMA keeps delivering frames to the recording task, which has a core *)
(* and the highest priority there; a thread inside read keeps running.     *)
FairSpec == Spec /\ WF_vars(Recorder) /\ WF_vars(Getter)

-----------------------------------------------------------------------------
ClRecords == [pc: {"idle", "check", "take", "clear", "advance", "use", "dead"},
              left: 0 .. MaxRead + 1, wait: BOOLEAN, data: Frames \cup {NULL}]

TypeOK ==
  /\ g_data \in [Slots -> Frames \cup {NULL}]
  /\ g_head \in Slots /\ g_tail \in Slots
  /\ filled \subseteq Frames \cup {NULL} /\ heap \subseteq Frames
  /\ rec \in {"none", "read", "put", "alloc", "copy", "publish"}
  /\ cl \in ClRecords
  /\ running \in BOOLEAN
  /\ handle \in {"null", "live", "deleted"}
  /\ starts \in 0 .. MaxStarts
  /\ leaked \subseteq Frames \cup {NULL}

(* Where the two tasks are inside put and get.                             *)
Writing == rec \in {"copy", "publish"}
Claimed == rec = "alloc" \/ Writing
Taking  == cl.pc \in {"take", "clear", "advance"}

(* The frames in the ring, oldest first: the reader's copy stands for the  *)
(* slot it has cleared and not yet given back.                             *)
Nth(k) == IF g_tail + k - 1 <= Backlog THEN g_tail + k - 1 ELSE g_tail + k - Backlog - 2
Queue  == [k \in 1 .. Used |-> IF k = 1 /\ cl.pc = "advance" THEN cl.data ELSE g_data[Nth(k)]]

(* Each task decides on a reading of the other's index and acts some steps *)
(* later: what it decided still holds then.  So the slot being written is  *)
(* never one the reader can see, the slot being taken is never one the     *)
(* recorder can claim, and a full ring is not published as an empty one.   *)
DecisionsHold ==
  /\ Claimed => Free > 0
  /\ Taking => Used > 0

(* Every frame in the ring is allocated, completely written and there once; *)
(* what the reader hands to Python and then frees is such a frame and no   *)
(* longer in the ring.  So no frame is freed twice or used after its free. *)
FramesOwnedOnce ==
  /\ \A j, k \in 1 .. Used : Queue[j] = Queue[k] => j = k
  /\ \A k \in 1 .. Used : Queue[k] \in heap \cap filled /\ Queue[k] \notin leaked
  /\ cl.pc = "use" => /\ cl.data \in heap \cap filled
                     /\ \A k \in 1 .. Used : Queue[k] # cl.data
  /\ Writing => \A k \in 1 .. Used : Queue[k] # g_data[g_head]

(* No frame is lost track of, restarts included, but the one the recording *)
(* task may be writing when it is deleted: at most one for each stop.      *)
Reachable == {Queue[k] : k \in 1 .. Used} \cup {f \in {cl.data} : cl.pc = "use"}
             \cup {f \in {g_data[g_head]} : Writing}
HeapAccounted ==
  /\ heap = Reachable \cup leaked
  /\ Cardinality(leaked) <= starts

(* Seen from outside, the ring is a bounded queue that drops when it is full. *)
Fifo == INSTANCE FrameFifo WITH q <- Queue, last <- last
ImplementsFifo == Fifo!FifoSpec

(* While the recording task exists, a call of read returns: read() gets its *)
(* frame and read(n) at most n of them.  (read(0) goes on for as long as   *)
(* the recorder keeps up with it.)                                         *)
Reading == cl.pc \in {"check", "take", "clear", "advance", "use"}
ReadReturns == Reading /\ cl.left > 0 /\ rec # "none" ~> ~Reading

=============================================================================
