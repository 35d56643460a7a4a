--------------------------- MODULE MicrophoneProofs ---------------------------
(* Machine-checked proofs about Microphone, for every backlog and heap.    *)
EXTENDS Microphone, SequenceTheorems, FiniteSetTheorems, TLAPS

USE MicrophoneAssumption

-----------------------------------------------------------------------------
(* The arithmetic of the ring                                              *)

LEMMA ModSlots ==
  ASSUME NEW x \in 0 .. Backlog + 1
  PROVE  x % (Backlog + 1) = IF x <= Backlog THEN x ELSE x - (Backlog + 1)
BY SMT

LEMMA AfterSlot ==
  ASSUME NEW i \in Slots
  PROVE  After(i) = IF i = Backlog THEN 0 ELSE i + 1
BY ModSlots DEF After, Slots

(* The free and the used slots, with the head and the tail one slot on.    *)
LEMMA UsedFree ==
  ASSUME TypeOK
  PROVE  /\ Used \in 0 .. Backlog /\ Free = Backlog - Used
         /\ Used = 0 <=> g_head = g_tail
BY DEF TypeOK, Slots, Used, Free

LEMMA NthSlot ==
  ASSUME TypeOK, NEW k \in 1 .. Backlog + 1
  PROVE  /\ Nth(k) \in Slots
         /\ k = 1 <=> Nth(k) = g_tail
         /\ k = Used + 1 <=> Nth(k) = g_head
<1>1. g_tail \in 0 .. Backlog /\ g_head \in 0 .. Backlog
  BY DEF TypeOK, Slots
<1>2. Nth(k) \in Slots /\ (k = 1 <=> Nth(k) = g_tail)
  BY <1>1 DEF Nth, Slots
<1>3. k = Used + 1 <=> Nth(k) = g_head
  BY <1>1 DEF Nth, Used
<1>4. QED
  BY <1>2, <1>3

LEMMA NthInjective ==
  ASSUME TypeOK, NEW j \in 1 .. Backlog + 1, NEW k \in 1 .. Backlog + 1, Nth(j) = Nth(k)
  PROVE  j = k
<1>1. g_tail \in 0 .. Backlog
  BY DEF TypeOK, Slots
<1>2. QED
  BY <1>1 DEF Nth

(* Where a call of read leaves the client.                                 *)
LEMMA ReadClient ==
  ASSUME TypeOK, Read
  PROVE  cl.pc = "idle" /\ cl'.pc = "check"
<1>1. cl \in ClRecords
  BY DEF TypeOK
<1>2. \/ cl' = [cl EXCEPT !.pc = "check", !.left = 1, !.wait = TRUE]
      \/ \E n \in 0 .. MaxRead : cl' = [cl EXCEPT !.pc = "check", !.left = n, !.wait = FALSE]
  BY Zenon DEF Read
<1>3. cl'.pc = "check"
  BY <1>1, <1>2 DEF ClRecords
<1>4. QED
  BY <1>3 DEF Read

-----------------------------------------------------------------------------
(* Types                                                                   *)

LEMMA TypeInit == Init => TypeOK
<1> SUFFICES ASSUME Init PROVE TypeOK
  OBVIOUS
<1>1. cl \in ClRecords
  BY DEF Init, ClRecords
<1>2. /\ g_data \in [Slots -> Frames \cup {NULL}]
      /\ g_head \in Slots /\ g_tail \in Slots
  BY DEF Init, Slots
<1>3. starts \in 0 .. MaxStarts
  BY DEF Init
<1>4. QED
  BY <1>1, <1>2, <1>3 DEF Init, TypeOK

LEMMA RecorderType ==
  ASSUME TypeOK, Recorder
  PROVE  TypeOK'
<1>1. CASE ReadFrame
  BY <1>1 DEF TypeOK, ReadFrame, RecUnchanged, taskVars
<1>2. CASE PutCheck
  BY <1>2 DEF TypeOK, PutCheck, RecUnchanged, taskVars
<1>3. CASE PutAlloc
  BY <1>3 DEF TypeOK, PutAlloc, RecUnchanged, taskVars
<1>4. CASE PutCopy
  <2>1. g_data[g_head] \in Frames \cup {NULL}
    BY DEF TypeOK
  <2>2. QED
    BY <1>4, <2>1 DEF TypeOK, PutCopy, RecUnchanged, taskVars
<1>5. CASE PutPublish
  <2>1. g_head' \in Slots
    BY <1>5, AfterSlot DEF TypeOK, PutPublish, Slots
  <2>2. QED
    BY <1>5, <2>1 DEF TypeOK, PutPublish, RecUnchanged, taskVars
<1>6. QED
  BY <1>1, <1>2, <1>3, <1>4, <1>5 DEF Recorder

LEMMA ClientType ==
  ASSUME TypeOK, Client
  PROVE  TypeOK'
<1>1. cl \in ClRecords /\ g_data[g_tail] \in Frames \cup {NULL}
  BY DEF TypeOK
<1>2. CASE Read
  <2>1. cl' \in ClRecords
    <3>1. \A n \in 0 .. MaxRead + 1 :
            /\ [cl EXCEPT !.pc = "check", !.left = n, !.wait = TRUE] \in ClRecords
            /\ [cl EXCEPT !.pc = "check", !.left = n, !.wait = FALSE] \in ClRecords
      BY <1>1 DEF ClRecords
    <3>2. PICK n \in 0 .. MaxRead + 1 :
            \/ cl' = [cl EXCEPT !.pc = "check", !.left = n, !.wait = TRUE]
            \/ cl' = [cl EXCEPT !.pc = "check", !.left = n, !.wait = FALSE]
      <4>1. 1 \in 0 .. MaxRead + 1 /\ 0 .. MaxRead \subseteq 0 .. MaxRead + 1
        OBVIOUS
      <4>2. QED
        BY <1>2, <4>1, Zenon DEF Read
    <3>3. QED
      BY <3>1, <3>2
  <2>2. QED
    BY <1>2, <2>1 DEF TypeOK, Read, ClUnchanged, taskVars
<1>3. CASE GetCheck
  <2>1. cl' \in ClRecords
    BY <1>1, <1>3 DEF GetCheck, ClRecords
  <2>2. QED
    BY <1>3, <2>1 DEF TypeOK, GetCheck, ClUnchanged, taskVars
<1>4. CASE GetTake
  <2>1. cl' \in ClRecords
    BY <1>1, <1>4 DEF GetTake, ClRecords
  <2>2. QED
    BY <1>4, <2>1 DEF TypeOK, GetTake, ClUnchanged, taskVars
<1>5. CASE GetClear
  <2>1. cl' \in ClRecords
    BY <1>1, <1>5 DEF GetClear, ClRecords
  <2>2. QED
    BY <1>5, <2>1 DEF TypeOK, GetClear, ClUnchanged, taskVars
<1>6. CASE GetAdvance
  <2>1. cl' \in ClRecords
    BY <1>1, <1>6 DEF GetAdvance, ClRecords
  <2>2. g_tail' \in Slots
    BY <1>6, AfterSlot DEF TypeOK, GetAdvance, Slots
  <2>3. QED
    BY <1>6, <2>1, <2>2 DEF TypeOK, GetAdvance, ClUnchanged, taskVars
<1>7. CASE UseFrame
  <2>1. cl' \in ClRecords
    <3>1. \A n \in 0 .. MaxRead + 1, s \in {"idle", "check"} :
            [cl EXCEPT !.pc = s, !.left = n, !.data = NULL] \in ClRecords
      BY <1>1 DEF ClRecords
    <3>2. (IF cl.left = 0 THEN 0 ELSE cl.left - 1) \in 0 .. MaxRead + 1
      BY <1>1 DEF ClRecords
    <3>3. QED
      BY <1>7, <3>1, <3>2 DEF UseFrame
  <2>2. QED
    BY <1>7, <2>1 DEF TypeOK, UseFrame, ClUnchanged, taskVars
<1>8. CASE Start
  <2>1. g_data' \in [Slots -> Frames \cup {NULL}] /\ g_head' \in Slots /\ g_tail' \in Slots
    BY <1>8 DEF Start, Slots
  <2>2. QED
    BY <1>8, <2>1 DEF TypeOK, Start
<1>9. CASE Stop
  <2>1. cl' \in ClRecords
    BY <1>1, <1>9 DEF Stop, ClRecords
  <2>2. QED
    BY <1>9, <2>1 DEF TypeOK, Stop, ringVars
<1>10. QED
  BY <1>2, <1>3, <1>4, <1>5, <1>6, <1>7, <1>8, <1>9 DEF Client, Getter

(* Every variable keeps its type; in particular the two indices stay       *)
(* inside the allocated slots (driver_microphone_buffer.c).                *)
THEOREM MicrophoneTypeCorrect == Spec => []TypeOK
<1>1. TypeOK /\ [Next]_vars => TypeOK'
  <2>1. SUFFICES ASSUME TypeOK, [Next]_vars PROVE TypeOK'
    OBVIOUS
  <2>2. CASE UNCHANGED vars
    BY <2>1, <2>2 DEF TypeOK, vars, ringVars, taskVars
  <2>3. QED
    BY <2>1, <2>2, RecorderType, ClientType DEF Next
<1>2. QED
  BY <1>1, TypeInit, PTL DEF Spec

-----------------------------------------------------------------------------
(* The two tasks do not get into each other's way                          *)

(* Decisions hold, there is a recording task only while its handle is live *)
(* and recording is marked as running, and what each task has written or   *)
(* read so far is still in the slot it works on.                           *)
RingInv ==
  /\ DecisionsHold
  /\ rec # "none" => handle = "live"
  /\ handle = "live" => running
  /\ Writing => g_data[g_head] \in Frames
  /\ cl.pc = "clear" => cl.data = g_data[g_tail]

LEMMA RingInit == Init => RingInv
BY DEF Init, RingInv, DecisionsHold, Claimed, Writing, Taking

LEMMA RecorderRing ==
  ASSUME TypeOK, TypeOK', RingInv, Recorder
  PROVE  RingInv'
<1> USE DEF RingInv
<1>1. UNCHANGED <<g_tail, cl, running, handle>> /\ rec # "none"
  BY DEF Recorder, ReadFrame, PutCheck, PutAlloc, PutCopy, PutPublish, RecUnchanged, taskVars
<1>2. CASE ReadFrame \/ PutCheck
  <2>1. UNCHANGED <<g_data, g_head>> /\ ~Writing' /\ (rec' = "alloc" => Free > 0)
    BY <1>2 DEF ReadFrame, PutCheck, Writing
  <2>2. Free' = Free /\ Used' = Used /\ Taking' = Taking
    BY <1>1, <2>1 DEF Free, Used, Taking
  <2>3. QED
    BY <1>1, <2>1, <2>2 DEF DecisionsHold, Claimed, Writing, TypeOK
<1>3. CASE PutAlloc
  <2>1. PICK f \in Frames : g_data' = [g_data EXCEPT ![g_head] = f]
    BY <1>3 DEF PutAlloc
  <2>2. UNCHANGED g_head /\ Claimed
    BY <1>3 DEF PutAlloc, Claimed
  <2>3. Free' = Free /\ Used' = Used /\ Taking' = Taking
    BY <1>1, <2>2 DEF Free, Used, Taking
  <2>4. g_data'[g_head] = f /\ (Taking => g_data'[g_tail] = g_data[g_tail])
    BY <2>1, UsedFree DEF DecisionsHold, TypeOK
  <2>5. QED
    BY <1>1, <2>2, <2>3, <2>4 DEF DecisionsHold, Taking
<1>4. CASE PutCopy
  <2>1. UNCHANGED <<g_data, g_head>> /\ Claimed /\ Writing
    BY <1>4 DEF PutCopy, Claimed, Writing
  <2>2. Free' = Free /\ Used' = Used /\ Taking' = Taking
    BY <1>1, <2>1 DEF Free, Used, Taking
  <2>3. QED
    BY <1>1, <2>1, <2>2 DEF DecisionsHold
<1>5. CASE PutPublish
  <2>1. ~Claimed' /\ ~Writing' /\ Claimed /\ UNCHANGED g_data
    BY <1>5 DEF PutPublish, Claimed, Writing
  <2>2. Taking' = Taking
    BY <1>1 DEF Taking
  <2>3. Used' = Used + 1
    BY <1>1, <1>5, <2>1, AfterSlot DEF PutPublish, DecisionsHold, Used, Free, TypeOK, Slots
  <2>4. QED
    BY <1>1, <2>1, <2>2, <2>3, UsedFree DEF DecisionsHold
<1>6. QED
  BY <1>2, <1>3, <1>4, <1>5 DEF Recorder

LEMMA ClientRing ==
  ASSUME TypeOK, TypeOK', RingInv, Client
  PROVE  RingInv'
<1> USE DEF RingInv
<1>1. CASE Read \/ GetCheck \/ GetTake \/ UseFrame
  <2>1. UNCHANGED <<g_data, g_head, g_tail, rec, running, handle>>
    BY <1>1 DEF Read, GetCheck, GetTake, UseFrame, ClUnchanged, taskVars
  <2>2. Free' = Free /\ Used' = Used /\ Claimed' = Claimed /\ Writing' = Writing
    BY <2>1 DEF Free, Used, Claimed, Writing
  <2>3. /\ Taking' => Used > 0
        /\ cl'.pc = "clear" => cl'.data = g_data[g_tail]
    <3>1. CASE Read
      BY <3>1, ReadClient DEF Taking
    <3>2. CASE GetCheck
      <4>1. \/ Used > 0 /\ cl'.pc = "take"
            \/ cl'.pc \in {"check", "idle"}
        <5>1. cl \in ClRecords /\ cl.pc = "check"
          BY <3>2 DEF GetCheck, TypeOK
        <5>2. CASE Used > 0 /\ cl' = [cl EXCEPT !.pc = "take"]
          BY <5>1, <5>2 DEF ClRecords
        <5>3. CASE cl' = cl \/ cl' = [cl EXCEPT !.pc = "idle"]
          BY <5>1, <5>3 DEF ClRecords
        <5>4. QED
          BY <3>2, <5>2, <5>3, Zenon DEF GetCheck
      <4>2. QED
        BY <4>1 DEF Taking
    <3>3. CASE GetTake
      BY <3>3 DEF GetTake, Taking, DecisionsHold, TypeOK, ClRecords
    <3>4. CASE UseFrame
      BY <3>4 DEF UseFrame, Taking, TypeOK, ClRecords
    <3>5. QED
      BY <1>1, <3>1, <3>2, <3>3, <3>4
  <2>4. QED
    BY <2>1, <2>2, <2>3 DEF DecisionsHold
<1>2. CASE GetClear
  <2>1. UNCHANGED <<g_head, g_tail, rec, running, handle>> /\ Taking /\ cl'.pc = "advance"
    BY <1>2 DEF GetClear, ClUnchanged, taskVars, Taking, TypeOK, ClRecords
  <2>2. Free' = Free /\ Used' = Used /\ Claimed' = Claimed /\ Writing' = Writing
    BY <2>1 DEF Free, Used, Claimed, Writing
  <2>3. Writing => g_data'[g_head] = g_data[g_head]
    <3>1. g_head # g_tail
      BY <2>1, UsedFree DEF DecisionsHold
    <3>2. QED
      BY <1>2, <3>1 DEF GetClear, TypeOK
  <2>4. QED
    BY <2>1, <2>2, <2>3 DEF DecisionsHold
<1>3. CASE GetAdvance
  <2>1. UNCHANGED <<g_data, g_head, rec, running, handle>> /\ Taking /\ cl'.pc = "use"
    BY <1>3 DEF GetAdvance, ClUnchanged, taskVars, Taking, TypeOK, ClRecords
  <2>2. Used' = Used - 1
    BY <1>3, <2>1, AfterSlot DEF GetAdvance, DecisionsHold, Used, TypeOK, Slots
  <2>3. Claimed' = Claimed /\ Writing' = Writing /\ ~Taking'
    BY <2>1 DEF Claimed, Writing, Taking
  <2>4. Free' = Backlog - Used' /\ Free = Backlog - Used /\ Used \in Nat
    <3>1. Free' = Backlog - Used'
      BY <2>1 DEF TypeOK, Slots, Used, Free
    <3>2. QED
      BY <3>1, UsedFree
  <2>5. QED
    BY <2>1, <2>2, <2>3, <2>4 DEF DecisionsHold
<1>4. CASE Start
  <2>1. rec' \in {"none", "read"} /\ cl' = cl /\ cl.pc = "idle" /\ running'
    BY <1>4 DEF Start
  <2>2. rec' # "none" => handle' = "live"
    BY <1>4 DEF Start
  <2>3. QED
    BY <2>1, <2>2 DEF DecisionsHold, Claimed, Writing, Taking
<1>5. CASE Stop
  <2>1. UNCHANGED ringVars /\ cl.pc = "idle" /\ cl'.pc \in {"idle", "dead"} /\ rec' = "none"
    BY <1>5 DEF Stop, TypeOK, ClRecords
  <2>2. handle' # "live"
    BY <1>5 DEF Stop
  <2>3. QED
    BY <2>1, <2>2 DEF DecisionsHold, Claimed, Writing, Taking
<1>6. QED
  BY <1>1, <1>2, <1>3, <1>4, <1>5 DEF Client, Getter

LEMMA RingInductive == Spec => [](TypeOK /\ RingInv)
<1>1. Init => RingInv
  BY RingInit
<1>2. TypeOK /\ TypeOK' /\ RingInv /\ [Next]_vars => RingInv'
  <2>1. SUFFICES ASSUME TypeOK, TypeOK', RingInv, [Next]_vars PROVE RingInv'
    OBVIOUS
  <2>2. CASE UNCHANGED vars
    BY <2>1, <2>2
    DEF RingInv, vars, ringVars, taskVars, DecisionsHold, Claimed, Writing, Taking, Used, Free
  <2>3. QED
    BY <2>1, <2>2, RecorderRing, ClientRing DEF Next
<1>3. QED
  BY <1>1, <1>2, MicrophoneTypeCorrect, PTL DEF Spec

(* What either task decided on an old reading of the other's index holds    *)
(* for as long as it acts on it (driver_microphone_ring_buffer_put, _get).  *)
THEOREM DecisionsAlwaysHold == Spec => []DecisionsHold
<1>1. RingInv => DecisionsHold
  BY DEF RingInv
<1>2. QED
  BY <1>1, RingInductive, PTL

-----------------------------------------------------------------------------
(* The ring is a bounded queue                                             *)

LEMMA QueueSeq ==
  ASSUME TypeOK
  PROVE  Queue \in Seq(Frames \cup {NULL}) /\ Len(Queue) = Used
<1>1. Used \in Nat /\ \A k \in 1 .. Used : Nth(k) \in Slots
  BY UsedFree, NthSlot
<1>2. cl.data \in Frames \cup {NULL}
  BY DEF TypeOK, ClRecords
<1>3. \A k \in 1 .. Used : (IF k = 1 /\ cl.pc = "advance" THEN cl.data ELSE g_data[Nth(k)])
                          \in Frames \cup {NULL}
  BY <1>1, <1>2 DEF TypeOK
<1>4. QED
  BY <1>1, <1>3 DEF Queue

LEMMA RecorderQueue ==
  ASSUME TypeOK, RingInv, ReadFrame \/ PutCheck \/ PutAlloc \/ PutCopy
  PROVE  Queue' = Queue /\ Used' = Used
<1>1. UNCHANGED <<g_head, g_tail, cl>>
  BY DEF ReadFrame, PutCheck, PutAlloc, PutCopy, RecUnchanged
<1>2. Used' = Used /\ \A k \in 1 .. Used : Nth(k)' = Nth(k)
  BY <1>1 DEF Used, Nth
<1>3. \A k \in 1 .. Used : g_data'[Nth(k)] = g_data[Nth(k)]
  <2>1. CASE PutAlloc
    BY <2>1, NthSlot, UsedFree DEF PutAlloc, TypeOK
  <2>2. CASE UNCHANGED g_data
    BY <2>2
  <2>3. QED
    BY <2>1, <2>2 DEF ReadFrame, PutCheck, PutCopy
<1>4. QED
  BY <1>1, <1>2, <1>3 DEF Queue

LEMMA PublishQueue ==
  ASSUME TypeOK, TypeOK', RingInv, PutPublish
  PROVE  /\ Queue' = Append(Queue, g_data[g_head]) /\ g_data[g_head] \in Frames
         /\ Used \in Nat /\ Used < Backlog /\ Used' = Used + 1
<1>1. /\ UNCHANGED <<g_data, g_tail, cl>> /\ g_head' = After(g_head)
      /\ Claimed /\ g_data[g_head] \in Frames
  BY DEF PutPublish, RecUnchanged, Claimed, Writing, RingInv
<1>2. Used' = Used + 1 /\ Used < Backlog /\ Used \in Nat
  <2>1. Used < Backlog /\ Used \in Nat
    BY <1>1, UsedFree DEF RingInv, DecisionsHold
  <2>2. Used' = Used + 1
    BY <1>1, AfterSlot DEF RingInv, DecisionsHold, Used, Free, TypeOK, Slots
  <2>3. QED
    BY <2>1, <2>2
<1>3. \A k \in 1 .. Used' : Nth(k)' = Nth(k)
  BY <1>1 DEF Nth
<1>4. Nth(Used + 1) = g_head
  BY <1>2, NthSlot
<1>5. cl.pc = "advance" => Used # 0
  BY <1>2 DEF RingInv, DecisionsHold, Taking
<1>6. Queue' = Append(Queue, g_data[g_head])
  <2>1. Queue' = [k \in 1 .. Used + 1 |->
                   IF k = 1 /\ cl.pc = "advance" THEN cl.data ELSE g_data[Nth(k)]]
    BY <1>1, <1>2, <1>3 DEF Queue
  <2>2. Append(Queue, g_data[g_head]) =
          [k \in 1 .. Used + 1 |-> IF k = Used + 1 THEN g_data[g_head] ELSE Queue[k]]
    BY <1>2, QueueSeq
  <2>3. QED
    BY <1>2, <1>4, <1>5, <2>1, <2>2 DEF Queue
<1>7. QED
  BY <1>1, <1>2, <1>6

(* Where the steps that leave the ring alone take the client.              *)
LEMMA ClientSteps ==
  ASSUME TypeOK
  PROVE  /\ Read => cl.pc = "idle" /\ cl'.pc = "check"
         /\ GetCheck => cl.pc = "check" /\ cl'.pc \in {"check", "take", "idle"}
         /\ GetTake => cl.pc = "take" /\ cl'.pc = "clear"
         /\ GetClear => cl.pc = "clear" /\ cl'.pc = "advance" /\ cl'.data = cl.data
         /\ GetAdvance => cl.pc = "advance" /\ cl'.pc = "use" /\ cl'.data = cl.data
         /\ UseFrame => cl.pc = "use" /\ cl'.pc \in {"check", "idle"}
         /\ Stop => cl.pc = "idle" /\ cl'.pc \in {"idle", "dead"}
<1>1. cl \in ClRecords
  BY DEF TypeOK
<1>2. CASE GetCheck
  <2>1. cl.pc = "check" /\ cl' \in {cl, [cl EXCEPT !.pc = "take"], [cl EXCEPT !.pc = "idle"]}
    BY <1>2, Zenon DEF GetCheck
  <2>2. cl'.pc \in {"check", "take", "idle"}
    BY <1>1, <2>1 DEF ClRecords
  <2>3. ~Read /\ ~GetTake /\ ~GetClear /\ ~GetAdvance /\ ~UseFrame /\ ~Stop
    BY <2>1 DEF Read, GetTake, GetClear, GetAdvance, UseFrame, Stop
  <2>4. QED
    BY <2>1, <2>2, <2>3
<1>3. GetTake => cl.pc = "take" /\ cl'.pc = "clear"
  BY <1>1 DEF GetTake, ClRecords
<1>4. GetClear => cl.pc = "clear" /\ cl'.pc = "advance" /\ cl'.data = cl.data
  BY <1>1 DEF GetClear, ClRecords
<1>5. GetAdvance => cl.pc = "advance" /\ cl'.pc = "use" /\ cl'.data = cl.data
  BY <1>1 DEF GetAdvance, ClRecords
<1>6. UseFrame => cl.pc = "use" /\ cl'.pc \in {"check", "idle"}
  BY <1>1 DEF UseFrame, ClRecords
<1>7. Stop => cl.pc = "idle" /\ cl'.pc \in {"idle", "dead"}
  BY <1>1 DEF Stop, ClRecords
<1>8. QED
  BY <1>2, <1>3, <1>4, <1>5, <1>6, <1>7, ReadClient

LEMMA ClientQueue ==
  ASSUME TypeOK, RingInv, Read \/ GetCheck \/ GetTake \/ GetClear \/ UseFrame \/ Stop
  PROVE  Queue' = Queue /\ Used' = Used
<1>1. CASE Read \/ GetCheck \/ GetTake \/ UseFrame \/ Stop
  <2>1. UNCHANGED <<g_data, g_head, g_tail>>
    BY <1>1 DEF Read, GetCheck, GetTake, UseFrame, Stop, ClUnchanged, ringVars
  <2>2. cl.pc # "advance" /\ cl'.pc # "advance"
    BY <1>1, ClientSteps
  <2>3. QED
    BY <2>1, <2>2 DEF Queue, Used, Nth
<1>2. CASE GetClear
  <2>1. /\ UNCHANGED <<g_head, g_tail>> /\ cl.pc = "clear"
        /\ cl'.pc = "advance" /\ cl'.data = g_data[g_tail]
        /\ g_data' = [g_data EXCEPT ![g_tail] = NULL]
    BY <1>2, ClientSteps DEF GetClear, ClUnchanged, RingInv
  <2>2. Used' = Used /\ \A k \in 1 .. Used : Nth(k)' = Nth(k)
    BY <2>1 DEF Used, Nth
  <2>3. \A k \in 1 .. Used :
          /\ k = 1 => Nth(k) = g_tail
          /\ k # 1 => g_data'[Nth(k)] = g_data[Nth(k)]
    BY <2>1, NthSlot, UsedFree DEF TypeOK
  <2>4. QED
    BY <2>1, <2>2, <2>3 DEF Queue
<1>3. QED
  BY <1>1, <1>2

LEMMA AdvanceQueue ==
  ASSUME TypeOK, TypeOK', RingInv, GetAdvance
  PROVE  /\ Queue # <<>> /\ Head(Queue) = cl.data /\ Queue' = Tail(Queue)
         /\ Used \in Nat \ {0} /\ Used' = Used - 1 /\ Queue[1] = cl.data
         /\ \A k \in 1 .. Used' : Queue'[k] = Queue[k + 1]
<1>1. /\ UNCHANGED <<g_data, g_head>> /\ g_tail' = After(g_tail)
      /\ cl.pc = "advance" /\ cl'.pc = "use"
  BY ClientSteps DEF GetAdvance, ClUnchanged
<1>2. Used' = Used - 1 /\ Used \in Nat \ {0}
  <2>1. Used > 0 /\ Used \in Nat
    BY <1>1, UsedFree DEF RingInv, DecisionsHold, Taking
  <2>2. Used' = Used - 1
    BY <1>1, AfterSlot DEF RingInv, DecisionsHold, Taking, Used, TypeOK, Slots
  <2>3. QED
    BY <2>1, <2>2
<1>3. \A k \in 1 .. Used' : Nth(k)' = Nth(k + 1)
  <2>1. g_tail \in 0 .. Backlog /\ g_tail' = IF g_tail = Backlog THEN 0 ELSE g_tail + 1
    BY <1>1, AfterSlot DEF TypeOK, Slots
  <2>2. Used \in 1 .. Backlog /\ Used' = Used - 1
    BY <1>2, UsedFree
  <2>3. SUFFICES ASSUME NEW k \in 1 .. Used' PROVE Nth(k)' = Nth(k + 1)
    OBVIOUS
  <2>4. k \in 1 .. Backlog
    BY <2>2
  <2>5. QED
    BY ONLY MicrophoneAssumption, <2>1, <2>4 DEF Nth
<1>4. Queue # <<>> /\ Head(Queue) = cl.data /\ Queue[1] = cl.data
  BY <1>1, <1>2, QueueSeq DEF Queue
<1>5. Queue' = [k \in 1 .. Used - 1 |-> g_data[Nth(k + 1)]]
  BY <1>1, <1>2, <1>3 DEF Queue
<1>6. \A k \in 1 .. Used - 1 : Queue[k + 1] = g_data[Nth(k + 1)]
  BY <1>2 DEF Queue
<1>7. /\ Tail(Queue) \in Seq(Frames \cup {NULL}) /\ Len(Tail(Queue)) = Used - 1
      /\ \A k \in 1 .. Used - 1 : Tail(Queue)[k] = Queue[k + 1]
  BY <1>2, <1>4, QueueSeq, HeadTailProperties
<1>8. /\ Queue' \in Seq(Frames \cup {NULL}) /\ Len(Queue') = Used - 1
      /\ \A k \in 1 .. Used - 1 : Queue'[k] = g_data[Nth(k + 1)]
  <2>1. \A k \in 1 .. Used - 1 : g_data[Nth(k + 1)] \in Frames \cup {NULL}
    BY <1>2, UsedFree, NthSlot DEF TypeOK
  <2>2. QED
    BY <1>2, <1>5, <2>1
<1>9. Queue' = Tail(Queue)
  BY <1>6, <1>7, <1>8, SeqEqual
<1>10. QED
  BY <1>2, <1>4, <1>6, <1>8, <1>9

LEMMA StartQueue ==
  ASSUME Start
  PROVE  Queue' = <<>> /\ Used' = 0
<1>1. Used' = 0
  BY DEF Start, Used
<1>2. QED
  BY <1>1 DEF Queue

LEMMA RecorderRefines ==
  ASSUME TypeOK, TypeOK', RingInv, Recorder
  PROVE  [Fifo!FifoNext]_(Fifo!fifoVars)
<1>1. CASE ReadFrame \/ PutCopy \/ PutAlloc
  BY <1>1, RecorderQueue DEF ReadFrame, PutCopy, PutAlloc, Fifo!fifoVars
<1>2. CASE PutCheck
  <2>1. UNCHANGED last \/ (Len(Queue) = Backlog /\ last' = <<"drop">>)
    BY <1>2, QueueSeq, UsedFree DEF PutCheck
  <2>2. QED
    BY <1>2, <2>1, RecorderQueue DEF Fifo!FifoNext, Fifo!Drop, Fifo!fifoVars
<1>3. CASE PutPublish
  <2>1. last' = <<"put", g_data[g_head]>>
    BY <1>3 DEF PutPublish
  <2>2. QED
    BY <1>3, <2>1, PublishQueue, QueueSeq DEF Fifo!FifoNext, Fifo!Put
<1>4. QED
  BY <1>1, <1>2, <1>3 DEF Recorder

LEMMA ClientRefines ==
  ASSUME TypeOK, TypeOK', RingInv, Client
  PROVE  [Fifo!FifoNext]_(Fifo!fifoVars)
<1>1. CASE Read \/ GetTake \/ GetClear \/ UseFrame \/ Stop
  BY <1>1, ClientQueue DEF Read, GetTake, GetClear, UseFrame, Stop, Fifo!fifoVars
<1>2. CASE GetCheck
  <2>1. UNCHANGED last \/ (Queue = <<>> /\ last' = <<"empty">>)
    BY <1>2, QueueSeq DEF GetCheck
  <2>2. QED
    BY <1>2, <2>1, ClientQueue DEF Fifo!FifoNext, Fifo!Empty, Fifo!fifoVars
<1>3. CASE GetAdvance
  <2>1. last' = <<"get", cl.data>>
    BY <1>3 DEF GetAdvance
  <2>2. QED
    BY <1>3, <2>1, AdvanceQueue DEF Fifo!FifoNext, Fifo!Get
<1>4. CASE Start
  <2>1. last' = <<"reset">>
    BY <1>4 DEF Start
  <2>2. QED
    BY <1>4, <2>1, StartQueue DEF Fifo!FifoNext, Fifo!Reset
<1>5. QED
  BY <1>1, <1>2, <1>3, <1>4 DEF Client, Getter

(* Whatever the interleaving of the two tasks, the ring is a bounded queue *)
(* that loses a frame only when it is full and delivers the others once,   *)
(* in order and unchanged.                                                 *)
THEOREM RingImplementsFifo == Spec => ImplementsFifo
<1>1. Init => Fifo!FifoInit
  <2>1. SUFFICES ASSUME Init PROVE Fifo!FifoInit
    OBVIOUS
  <2>2. Used = 0
    BY <2>1 DEF Init, Used
  <2>3. Queue = <<>>
    BY <2>2 DEF Queue
  <2>4. QED
    BY <2>1, <2>3 DEF Init, Fifo!FifoInit
<1>2. TypeOK /\ TypeOK' /\ RingInv /\ [Next]_vars => [Fifo!FifoNext]_(Fifo!fifoVars)
  <2>1. SUFFICES ASSUME TypeOK, TypeOK', RingInv, [Next]_vars
                 PROVE  [Fifo!FifoNext]_(Fifo!fifoVars)
    OBVIOUS
  <2>2. CASE UNCHANGED vars
    BY <2>2 DEF vars, ringVars, Fifo!fifoVars, Queue, Used, Nth
  <2>3. QED
    BY <2>1, <2>2, RecorderRefines, ClientRefines DEF Next
<1>3. QED
  BY <1>1, <1>2, RingInductive, PTL DEF Spec, ImplementsFifo, Fifo!FifoSpec

-----------------------------------------------------------------------------
(* Who owns a frame                                                        *)

(* The frame the recorder writes is nobody else's, and complete before it  *)
(* is published; the frame the client uses is not among the leaked ones.   *)
OwnInv ==
  /\ FramesOwnedOnce
  /\ heap = Reachable \cup leaked
  /\ Writing => g_data[g_head] \notin leaked
  /\ Writing /\ cl.pc = "use" => g_data[g_head] # cl.data
  /\ rec = "publish" => g_data[g_head] \in filled
  /\ cl.pc = "use" => cl.data \notin leaked

LEMMA RecorderOwns ==
  ASSUME TypeOK, TypeOK', RingInv, OwnInv, Recorder
  PROVE  OwnInv'
<1> DEFINE w == g_data[g_head]
           InQ == {Queue[k] : k \in 1 .. Used}
<1>1. UNCHANGED <<g_tail, cl, leaked>>
  BY DEF Recorder, ReadFrame, PutCheck, PutAlloc, PutCopy, PutPublish, RecUnchanged
<1>2. CASE ReadFrame \/ PutCheck
  <2>1. /\ UNCHANGED <<g_data, g_head, filled, heap>>
        /\ ~Writing /\ ~Writing' /\ rec' # "publish"
    BY <1>2 DEF ReadFrame, PutCheck, Writing
  <2>2. Queue' = Queue /\ Used' = Used
    BY <1>2, RecorderQueue
  <2>3. QED
    BY <1>1, <2>1, <2>2 DEF OwnInv, FramesOwnedOnce, Reachable
<1>3. CASE PutAlloc
  <2>1. PICK f \in Frames \ heap :
          heap' = heap \cup {f} /\ g_data' = [g_data EXCEPT ![g_head] = f]
    BY <1>3 DEF PutAlloc
  <2>2. /\ UNCHANGED <<g_head, filled>> /\ ~Writing /\ Writing' /\ rec' # "publish"
        /\ g_data'[g_head] = f
    BY <1>3, <2>1 DEF PutAlloc, Writing, TypeOK
  <2>3. Queue' = Queue /\ Used' = Used
    BY <1>3, RecorderQueue
  <2>4. /\ f \notin leaked /\ (cl.pc = "use" => f # cl.data)
        /\ \A k \in 1 .. Used : Queue[k] # f
    BY <2>1 DEF OwnInv, Reachable, FramesOwnedOnce
  <2>5. FramesOwnedOnce'
    BY <1>1, <2>1, <2>2, <2>3, <2>4 DEF OwnInv, FramesOwnedOnce
  <2>6. Reachable' = Reachable \cup {f}
    BY <1>1, <2>2, <2>3 DEF Reachable
  <2>7. QED
    BY <1>1, <2>1, <2>2, <2>4, <2>5, <2>6 DEF OwnInv
<1>4. CASE PutCopy
  <2>1. /\ UNCHANGED <<g_data, g_head, heap>> /\ Writing /\ Writing'
        /\ filled' = filled \cup {w}
    BY <1>4 DEF PutCopy, Writing
  <2>2. Queue' = Queue /\ Used' = Used
    BY <1>4, RecorderQueue
  <2>3. FramesOwnedOnce'
    BY <1>1, <2>1, <2>2 DEF OwnInv, FramesOwnedOnce
  <2>4. Reachable' = Reachable
    BY <1>1, <2>1, <2>2 DEF Reachable
  <2>5. QED
    BY <1>1, <2>1, <2>3, <2>4 DEF OwnInv
<1>5. CASE PutPublish
  <2>1. UNCHANGED <<g_data, filled, heap>> /\ Writing /\ ~Writing' /\ rec' # "publish"
        /\ rec = "publish"
    BY <1>5 DEF PutPublish, Writing
  <2>2. /\ Used \in Nat /\ Used' = Used + 1 /\ Queue'[Used + 1] = w
        /\ \A k \in 1 .. Used : Queue'[k] = Queue[k]
    <3>1. Queue' = Append(Queue, w) /\ Used \in Nat /\ Used' = Used + 1
      BY <1>5, PublishQueue
    <3>2. Queue \in Seq(Frames \cup {NULL}) /\ Len(Queue) = Used
      BY QueueSeq
    <3>3. QED
      BY <3>1, <3>2
  <2>3. \A k \in 1 .. Used' : k \in 1 .. Used \/ k = Used + 1
    BY <2>2
  <2>4. w \in heap
    BY <2>1 DEF OwnInv, Reachable
  <2>5. FramesOwnedOnce'
    <3>1. \A j, k \in 1 .. Used' : Queue'[j] = Queue'[k] => j = k
      BY <2>1, <2>2, <2>3 DEF OwnInv, FramesOwnedOnce
    <3>2. \A k \in 1 .. Used' : Queue'[k] \in heap' \cap filled' /\ Queue'[k] \notin leaked'
      BY <1>1, <2>1, <2>2, <2>3, <2>4 DEF OwnInv, FramesOwnedOnce
    <3>3. cl'.pc = "use" => /\ cl'.data \in heap' \cap filled'
                            /\ \A k \in 1 .. Used' : Queue'[k] # cl'.data
      BY <1>1, <2>1, <2>2, <2>3 DEF OwnInv, FramesOwnedOnce
    <3>4. QED
      BY <2>1, <3>1, <3>2, <3>3 DEF FramesOwnedOnce
  <2>6. Reachable' = Reachable
    <3>1. {Queue'[k] : k \in 1 .. Used'} = InQ \cup {w}
      <4>1. Used + 1 \in 1 .. Used' /\ \A k \in 1 .. Used : k \in 1 .. Used'
        BY <2>2
      <4>2. QED
        BY <2>2, <2>3, <4>1
    <3>2. QED
      BY <1>1, <2>1, <3>1 DEF Reachable
  <2>7. QED
    BY <1>1, <2>1, <2>5, <2>6 DEF OwnInv
<1>6. QED
  BY <1>2, <1>3, <1>4, <1>5 DEF Recorder

(* What Start frees is what is in the ring.                                *)
LEMMA PublishedIsQueue ==
  ASSUME TypeOK, cl.pc # "advance"
  PROVE  {g_data[i] : i \in Published} = {Queue[k] : k \in 1 .. Used}
<1>1. g_tail \in 0 .. Backlog /\ g_head \in 0 .. Backlog
  BY DEF TypeOK, Slots
<1>2. \A k \in 1 .. Used : Nth(k) \in Published
  BY <1>1 DEF Nth, Used, Published, Slots
<1>3. ASSUME NEW i \in Published PROVE \E k \in 1 .. Used : Nth(k) = i
  <2>1. i \in 0 .. Backlog
    BY DEF Published, Slots
  <2>2. CASE i >= g_tail
    <3>1. i - g_tail + 1 \in 1 .. Used /\ Nth(i - g_tail + 1) = i
      BY <1>1, <2>1, <2>2 DEF Nth, Used, Published
    <3>2. QED
      BY <3>1
  <2>3. CASE i < g_tail
    <3>1. i + Backlog + 2 - g_tail \in 1 .. Used /\ Nth(i + Backlog + 2 - g_tail) = i
      BY <1>1, <2>1, <2>3 DEF Nth, Used, Published
    <3>2. QED
      BY <3>1
  <2>4. QED
    BY <1>1, <2>1, <2>2, <2>3
<1>4. \A k \in 1 .. Used : Queue[k] = g_data[Nth(k)]
  BY DEF Queue
<1>5. QED
  BY <1>2, <1>3, <1>4

LEMMA ClientOwns ==
  ASSUME TypeOK, TypeOK', RingInv, OwnInv, Client
  PROVE  OwnInv'
<1> DEFINE w == g_data[g_head]
           InQ == {Queue[k] : k \in 1 .. Used}
<1>1. CASE Read \/ GetCheck \/ GetTake \/ GetClear
  <2>1. UNCHANGED <<g_head, rec, filled, heap, leaked>> /\ Writing' = Writing
    BY <1>1 DEF Read, GetCheck, GetTake, GetClear, ClUnchanged, Writing
  <2>2. cl.pc # "use" /\ cl'.pc # "use"
    BY <1>1, ClientSteps
  <2>3. Writing => g_data'[g_head] = w
    <3>1. CASE GetClear
      <4>1. g_head # g_tail
        BY <3>1, UsedFree DEF GetClear, RingInv, DecisionsHold, Taking
      <4>2. QED
        BY <3>1, <4>1 DEF GetClear, TypeOK
    <3>2. CASE UNCHANGED g_data
      BY <3>2
    <3>3. QED
      BY <1>1, <3>1, <3>2 DEF Read, GetCheck, GetTake
  <2>4. Queue' = Queue /\ Used' = Used
    BY <1>1, ClientQueue
  <2>5. FramesOwnedOnce'
    BY <2>1, <2>2, <2>3, <2>4 DEF OwnInv, FramesOwnedOnce
  <2>6. Reachable' = Reachable
    BY <2>1, <2>2, <2>3, <2>4 DEF Reachable
  <2>7. rec = "publish" => Writing
    BY DEF Writing
  <2>8. QED
    BY <2>1, <2>2, <2>3, <2>5, <2>6, <2>7 DEF OwnInv
<1>2. CASE GetAdvance
  <2>1. UNCHANGED <<g_data, g_head, rec, filled, heap, leaked>> /\ Writing' = Writing
    BY <1>2 DEF GetAdvance, ClUnchanged, Writing
  <2>2. cl.pc = "advance" /\ cl'.pc = "use" /\ cl'.data = cl.data
    BY <1>2, ClientSteps
  <2>3. /\ Used \in Nat \ {0} /\ Used' = Used - 1 /\ Queue[1] = cl.data
        /\ \A k \in 1 .. Used' : Queue'[k] = Queue[k + 1]
    BY <1>2, AdvanceQueue
  <2>4. 1 \in 1 .. Used /\ \A k \in 1 .. Used' : k + 1 \in 1 .. Used /\ k + 1 # 1
    BY <2>3
  <2>5. FramesOwnedOnce'
    <3>1. \A j, k \in 1 .. Used' : Queue'[j] = Queue'[k] => j = k
      <4>1. SUFFICES ASSUME NEW j \in 1 .. Used', NEW k \in 1 .. Used', Queue'[j] = Queue'[k]
                     PROVE  j = k
        OBVIOUS
      <4>2. j + 1 = k + 1
        BY <2>3, <2>4, <4>1 DEF OwnInv, FramesOwnedOnce
      <4>3. QED
        BY <4>2
    <3>2. \A k \in 1 .. Used' : /\ Queue'[k] \in heap' \cap filled' /\ Queue'[k] \notin leaked'
                                /\ Queue'[k] # cl'.data
                                /\ Writing => Queue'[k] # w
      BY <2>1, <2>2, <2>3, <2>4 DEF OwnInv, FramesOwnedOnce
    <3>3. cl'.data \in heap' \cap filled'
      BY <2>1, <2>2, <2>3, <2>4 DEF OwnInv, FramesOwnedOnce
    <3>4. QED
      BY <2>1, <3>1, <3>2, <3>3 DEF FramesOwnedOnce
  <2>6. Reachable' = Reachable
    <3>1. InQ = {Queue'[k] : k \in 1 .. Used'} \cup {cl.data}
      <4>1. ASSUME NEW k \in 1 .. Used
            PROVE  k = 1 \/ (k - 1 \in 1 .. Used' /\ Queue'[k - 1] = Queue[k])
        BY <2>3
      <4>2. InQ \subseteq {Queue'[k] : k \in 1 .. Used'} \cup {cl.data}
        BY <2>3, <4>1
      <4>3. {Queue'[k] : k \in 1 .. Used'} \cup {cl.data} \subseteq InQ
        BY <2>3, <2>4
      <4>4. QED
        BY <4>2, <4>3
    <3>2. QED
      BY <2>1, <2>2, <3>1 DEF Reachable
  <2>7. cl'.data \notin leaked' /\ (Writing => w # cl'.data)
    BY <2>1, <2>2, <2>3, <2>4 DEF OwnInv, FramesOwnedOnce
  <2>8. QED
    BY <2>1, <2>5, <2>6, <2>7 DEF OwnInv
<1>3. CASE UseFrame
  <2>1. /\ UNCHANGED <<g_data, g_head, rec, leaked>> /\ Writing' = Writing
        /\ heap' = heap \ {cl.data} /\ filled' = filled \ {cl.data}
    BY <1>3 DEF UseFrame, ClUnchanged, Writing
  <2>2. cl.pc = "use" /\ cl'.pc # "use"
    BY <1>3, ClientSteps
  <2>3. Queue' = Queue /\ Used' = Used
    BY <1>3, ClientQueue
  <2>4. FramesOwnedOnce'
    BY <2>1, <2>2, <2>3 DEF OwnInv, FramesOwnedOnce
  <2>5. Reachable' = Reachable \ {cl.data}
    <3>1. cl.data \notin InQ
      BY <2>2 DEF OwnInv, FramesOwnedOnce
    <3>2. QED
      BY <2>1, <2>2, <2>3, <3>1 DEF Reachable, OwnInv
  <2>6. rec = "publish" => Writing
    BY DEF Writing
  <2>7. QED
    BY <2>1, <2>2, <2>4, <2>5, <2>6 DEF OwnInv
<1>4. CASE Start
  <2>1. /\ rec = "none" /\ ~Writing
    BY <1>4 DEF Start, RingInv, Writing
  <2>2. /\ ~Writing' /\ rec' # "publish" /\ UNCHANGED <<cl, leaked>> /\ cl.pc = "idle"
        /\ heap' = heap \ {g_data[i] : i \in Published}
    BY <1>4, <2>1 DEF Start, Writing
  <2>3. Queue' = <<>> /\ Used' = 0
    BY <1>4, StartQueue
  <2>4. Reachable = InQ /\ Reachable' = {}
    BY <2>1, <2>2, <2>3 DEF Reachable
  <2>5. heap' = heap \ InQ
    BY <2>2, PublishedIsQueue
  <2>6. InQ \cap leaked = {}
    BY DEF OwnInv, FramesOwnedOnce
  <2>7. heap' = Reachable' \cup leaked'
    BY <2>2, <2>4, <2>5, <2>6 DEF OwnInv
  <2>8. FramesOwnedOnce'
    BY <2>2, <2>3 DEF FramesOwnedOnce
  <2>9. QED
    BY <2>2, <2>7, <2>8 DEF OwnInv
<1>5. CASE Stop
  <2>1. /\ UNCHANGED <<g_data, g_head, filled, heap>> /\ rec' = "none" /\ ~Writing'
        /\ cl.pc # "use" /\ cl'.pc # "use"
    <3>1. UNCHANGED <<g_data, g_head, filled, heap>> /\ rec' = "none"
      BY <1>5 DEF Stop, ringVars, RingInv
    <3>2. QED
      BY <1>5, <3>1, ClientSteps DEF Writing
  <2>2. leaked' = leaked \cup {f \in {w} : Writing}
    <3>1. CASE handle = "live"
      BY <1>5, <3>1 DEF Stop, Writing
    <3>2. CASE handle # "live"
      BY <1>5, <3>2 DEF Stop, RingInv, Writing
    <3>3. QED
      BY <3>1, <3>2
  <2>3. Queue' = Queue /\ Used' = Used
    BY <1>5, ClientQueue
  <2>4. FramesOwnedOnce'
    BY <2>1, <2>2, <2>3 DEF OwnInv, FramesOwnedOnce
  <2>5. Reachable = Reachable' \cup {f \in {w} : Writing}
    BY <2>1, <2>3 DEF Reachable
  <2>6. QED
    BY <2>1, <2>2, <2>4, <2>5 DEF OwnInv
<1>6. QED
  BY <1>1, <1>2, <1>3, <1>4, <1>5 DEF Client, Getter

LEMMA OwnInductive == Spec => []OwnInv
<1>1. Init => OwnInv
  BY DEF Init, OwnInv, FramesOwnedOnce, Reachable, Writing, Used
<1>2. TypeOK /\ TypeOK' /\ RingInv /\ OwnInv /\ [Next]_vars => OwnInv'
  <2>1. SUFFICES ASSUME TypeOK, TypeOK', RingInv, OwnInv, [Next]_vars PROVE OwnInv'
    OBVIOUS
  <2>2. CASE UNCHANGED vars
    <3>1. Queue' = Queue /\ Used' = Used /\ Writing' = Writing
      BY <2>2 DEF vars, ringVars, Queue, Used, Nth, Writing
    <3>2. QED
      BY <2>1, <2>2, <3>1 DEF OwnInv, FramesOwnedOnce, Reachable, vars, ringVars
  <2>3. QED
    BY <2>1, <2>2, RecorderOwns, ClientOwns DEF Next
<1>3. QED
  BY <1>1, <1>2, RingInductive, PTL DEF Spec

(* A frame is allocated, complete and in one place from the moment it is    *)
(* published until Python has copied it: none is freed twice or used after *)
(* its free (driver_microphone_ring_buffer_put, _get, microphone.read).    *)
THEOREM FramesHaveOneOwner == Spec => []FramesOwnedOnce
<1>1. OwnInv => FramesOwnedOnce
  BY DEF OwnInv
<1>2. QED
  BY <1>1, OwnInductive, PTL

(* A recording that is still to be stopped may leak one frame more.        *)
LeakInv ==
  /\ IsFiniteSet(leaked)
  /\ Cardinality(leaked) \in Nat
  /\ Cardinality(leaked) + (IF handle = "live" THEN 1 ELSE 0) <= starts

LEMMA LeakStep ==
  ASSUME TypeOK, RingInv, LeakInv, Next
  PROVE  LeakInv'
<1>1. CASE UNCHANGED <<leaked, handle, starts>>
  BY <1>1 DEF LeakInv
<1>2. CASE Start
  <2>1. UNCHANGED leaked /\ starts' = starts + 1 /\ handle # "live"
    BY <1>2 DEF Start, RingInv
  <2>2. QED
    BY <2>1 DEF LeakInv, TypeOK
<1>3. CASE Stop
  <2>1. CASE handle = "live"
    <3>1. PICK f : leaked' = leaked \/ leaked' = leaked \cup {f}
      BY <1>3, <2>1 DEF Stop
    <3>2. handle' # "live" /\ starts' = starts
      BY <1>3, <2>1 DEF Stop
    <3>3. /\ IsFiniteSet(leaked') /\ Cardinality(leaked') \in Nat
          /\ Cardinality(leaked') <= Cardinality(leaked) + 1
      <4>1. IsFiniteSet(leaked) /\ Cardinality(leaked) \in Nat
        BY DEF LeakInv
      <4>2. CASE leaked' = leaked
        BY <4>1, <4>2
      <4>3. CASE leaked' = leaked \cup {f}
        <5>1. /\ IsFiniteSet(leaked \cup {f})
              /\ Cardinality(leaked \cup {f}) \in {Cardinality(leaked), Cardinality(leaked) + 1}
          BY <4>1, FS_AddElement
        <5>2. QED
          BY <4>1, <4>3, <5>1
      <4>4. QED
        BY <3>1, <4>2, <4>3
    <3>4. QED
      BY <2>1, <3>2, <3>3 DEF LeakInv, TypeOK
  <2>2. CASE handle # "live"
    BY <1>1, <1>3, <2>2 DEF Stop
  <2>3. QED
    BY <2>1, <2>2
<1>4. CASE Recorder \/ Read \/ Getter
  BY <1>1, <1>4
  DEF Recorder, ReadFrame, PutCheck, PutAlloc, PutCopy, PutPublish, RecUnchanged, taskVars,
      Read, Getter, GetCheck, GetTake, GetClear, GetAdvance, UseFrame, ClUnchanged
<1>5. QED
  BY <1>2, <1>3, <1>4 DEF Next, Client

(* Every allocated frame can be reached but for the one a deleted recording *)
(* task was writing, at most one for each start of the recording.          *)
THEOREM HeapStaysAccounted == Spec => []HeapAccounted
<1>1. Init => LeakInv
  BY FS_EmptySet DEF Init, LeakInv
<1>2. TypeOK /\ RingInv /\ LeakInv /\ [Next]_vars => LeakInv'
  <2>1. ASSUME LeakInv, UNCHANGED vars PROVE LeakInv'
    BY <2>1 DEF LeakInv, vars, taskVars
  <2>2. QED
    BY <2>1, LeakStep
<1>3. TypeOK /\ OwnInv /\ LeakInv => HeapAccounted
  BY DEF OwnInv, LeakInv, HeapAccounted, TypeOK
<1>4. QED
  BY <1>1, <1>2, <1>3, RingInductive, OwnInductive, PTL DEF Spec

=============================================================================
