--------------------------- MODULE MpSchedProofs ---------------------------
(***************************************************************************)
(* Proofs about the MicroPython scheduler where every caller runs on the   *)
(* machine's core (OneCore): any number of threads, interrupt sources and  *)
(* slots.                                                                  *)
(***************************************************************************)
EXTENDS MpSched, FiniteSetTheorems, SequenceTheorems, TLAPS

(* Who is inside a section is the one who masks the core's interrupts. *)
Sections ==
    /\ \A p \in Callers : pc[p] # "run" <=> section[VMCore] = p
    /\ \A p \in Callers : pc[p] = "shift" => p \in Threads

(* What the writes of a section rely on. *)
Slots ==
    /\ \A p \in Callers : pc[p] \in {"store", "count"} => sched_sp < SchedDepth
    /\ \A p \in Callers : pc[p] = "count" => sched_stack[sched_sp] = item[p]
    /\ Shifting => sched_sp < SchedDepth /\ idx <= sched_sp
    /\ ~Shifting => idx = 0

(* The inductive invariant. *)
IInv ==
    /\ TypeOK /\ Sections /\ Slots /\ FifoOnce
    /\ IsFiniteSet(Regions) /\ LockCounts /\ WakeupKept

LEMMA CoreIsVMCore ==
    ASSUME OneCore
    PROVE  /\ \A p \in Callers : Core(p) = VMCore
           /\ Cores = {VMCore}
  BY DEF OneCore, Core, Callers, Cores

(* A step is one of the actions. *)
Step ==
    \/ \E p \in Callers : Refuse(p)
    \/ \E p \in Callers : Schedule(p)
    \/ \E p \in Callers : Store(p)
    \/ \E p \in Callers : Count(p)
    \/ KeyboardInterrupt
    \/ \E t \in Threads : Raise(t)
    \/ \E t \in Threads : Take(t)
    \/ \E t \in Threads : Shift(t)
    \/ \E t \in Threads : Call(t)
    \/ \E t \in Threads : Lock(t)
    \/ \E t \in Threads : Return(t)
    \/ \E t \in Threads : LeaveGil(t)
    \/ \E t \in Threads : GilEnter(t)
    \/ UNCHANGED vars

LEMMA StepsOfNext == ASSUME [Next]_vars PROVE Step
  BY DEF Next, ScheduleStep, ThreadStep, HandlePending, SwitchThreads, BlockingCall, Step

---------------------------------------------------------------------------
(* The open regions.                                                       *)

(* A thread with frames is in a region: the one of its youngest frame. *)
LEMMA TopRegion ==
    ASSUME TypeOK, NEW t \in Threads, frames[t] # <<>>
    PROVE  <<t, Len(frames[t])>> \in Regions /\ Len(frames[t]) > 0
  <1>1. frames[t] \in Seq(0..MaxCalls)
    BY DEF TypeOK
  <1>2. Len(frames[t]) \in Nat \ {0}
    BY <1>1, EmptySeq
  <1>3. <<t, Len(frames[t])>> \in {t} \X (1..Len(frames[t]))
    BY <1>2
  <1> QED
    BY <1>2, <1>3 DEF Regions

(* In a region the scheduler is locked, so unlocked there is none. *)
LEMMA LockedInRegion ==
    ASSUME IsFiniteSet(Regions), LockCounts, Regions # {}
    PROVE  sched_state < 0
  <1>1. Cardinality(Regions) \in Nat /\ Cardinality(Regions) # 0
    BY FS_CardinalityType, FS_EmptySet
  <1> QED
    BY <1>1 DEF LockCounts

---------------------------------------------------------------------------
(* Type correctness.                                                       *)

LEMMA TypeInit == Init => TypeOK
  <1> SUFFICES ASSUME Init PROVE TypeOK
    OBVIOUS
  <1> USE DepthAssumption, BoundsAssumption
  <1>1. frames \in [Threads -> Seq(0..MaxCalls)]
    BY DEF Init
  <1>2. accepted \in Seq(0..MaxCalls) /\ started \in Seq(0..MaxCalls)
    BY DEF Init
  <1> QED
    BY <1>1, <1>2 DEF Init, TypeOK, IDLE

LEMMA TypeStep ==
    ASSUME OneCore, IInv, Step
    PROVE  TypeOK'
  <1> USE DepthAssumption, BoundsAssumption, NamesAssumption, CoreIsVMCore
  <1>0. TypeOK /\ Sections /\ Slots /\ IsFiniteSet(Regions) /\ LockCounts
    BY DEF IInv
  <1>1. CASE \E p \in Callers : Refuse(p)
    <2>1. PICK p \in Callers : Refuse(p) BY <1>1
    <2> QED BY <1>0, <2>1 DEF TypeOK, Refuse, stack, control, thread, history
  <1>2. CASE \E p \in Callers : Schedule(p)
    <2>1. PICK p \in Callers : Schedule(p) BY <1>2
    <2>2. Core(p) \in Cores BY <2>1
    <2> QED BY <1>0, <2>1, <2>2 DEF TypeOK, Schedule, Mask, Goto, stack, thread, history,
              IDLE, PENDING
  <1>3. CASE \E p \in Callers : Store(p)
    <2>1. PICK p \in Callers : Store(p) BY <1>3
    <2>2. sched_sp \in 0..(SchedDepth - 1) BY <1>0, <2>1 DEF Slots, Store, TypeOK
    <2>3. sched_stack' \in [0..(SchedDepth - 1) -> 0..MaxCalls]
      BY <1>0, <2>1, <2>2 DEF TypeOK, Store
    <2> QED BY <1>0, <2>1, <2>3 DEF TypeOK, Store, Goto, thread, bounds, history
  <1>4. CASE \E p \in Callers : Count(p)
    <2>1. PICK p \in Callers : Count(p) BY <1>4
    <2>2. sched_sp' \in 0..SchedDepth BY <1>0, <2>1 DEF Slots, Count, TypeOK
    <2>3. accepted' \in Seq(0..MaxCalls) BY <1>0, <2>1 DEF TypeOK, Count
    <2> QED BY <1>0, <2>1, <2>2, <2>3 DEF TypeOK, Count, Unmask, Goto, thread, bounds
  <1>5. CASE KeyboardInterrupt
    BY <1>0, <1>5 DEF TypeOK, KeyboardInterrupt, stack, control, thread, history,
       IDLE, PENDING
  <1>6. CASE \E t \in Threads : Raise(t)
    <2>1. PICK t \in Threads : Raise(t) BY <1>6
    <2>2. sched_state' \in Int /\ sched_state' <= IDLE
      BY <1>0, <2>1 DEF TypeOK, Raise, IDLE
    <2>3. pending_exception' \in BOOLEAN BY <2>1 DEF Raise
    <2> QED BY <1>0, <2>1, <2>2, <2>3 DEF TypeOK, Raise, stack, control, thread, bounds,
              history
  <1>7. CASE \E t \in Threads : Take(t)
    <2>1. PICK t \in Threads : Take(t) BY <1>7
    <2>2. sched_stack[0] \in 0..MaxCalls /\ sched_sp' \in 0..SchedDepth
      BY <1>0, <2>1 DEF TypeOK, Take
    <2>3. started' \in Seq(0..MaxCalls) BY <1>0, <2>1, <2>2 DEF TypeOK, Take
    <2>4. frames' \in [Threads -> Seq(0..MaxCalls)]
      BY <1>0, <2>1, <2>2 DEF TypeOK, Take
    <2>5. section' \in [Cores -> Callers \cup {NoOne}] /\ pc' \in
            [Callers -> {"run", "store", "count", "shift"}]
      BY <1>0, <2>1 DEF TypeOK, Take, Mask, Goto, Callers
    <2>6. sched_state' \in Int /\ sched_state' <= IDLE
      BY <2>1 DEF Take, LOCKED, IDLE
    <2> QED BY <1>0, <2>1, <2>2, <2>3, <2>4, <2>5, <2>6 DEF TypeOK, Take, bounds
  <1>8. CASE \E t \in Threads : Shift(t)
    <2>1. PICK t \in Threads : Shift(t) BY <1>8
    <2>2. idx \in 0..(SchedDepth - 1) /\ idx + 1 \in 0..(SchedDepth - 1)
      BY <1>0, <2>1 DEF TypeOK, Slots, Shift, Shifting
    <2>3. sched_stack' \in [0..(SchedDepth - 1) -> 0..MaxCalls]
      BY <1>0, <2>1, <2>2 DEF TypeOK, Shift
    <2>4. idx' \in 0..SchedDepth BY <2>1, <2>2 DEF Shift
    <2> QED BY <1>0, <2>1, <2>3, <2>4 DEF TypeOK, Shift, thread, bounds, history
  <1>9. CASE \E t \in Threads : Call(t)
    <2>1. PICK t \in Threads : Call(t) BY <1>9
    <2>2. section' \in [Cores -> Callers \cup {NoOne}] /\ pc' \in
            [Callers -> {"run", "store", "count", "shift"}]
      BY <1>0, <2>1 DEF TypeOK, Call, Unmask, Goto, Callers
    <2>3. idx' \in 0..SchedDepth BY <2>1 DEF Call
    <2> QED BY <1>0, <2>1, <2>2, <2>3 DEF TypeOK, Call, stack, thread, bounds, history
  <1>10. CASE \E t \in Threads : Lock(t)
    <2>1. PICK t \in Threads : Lock(t) BY <1>10
    <2>2. frames' \in [Threads -> Seq(0..MaxCalls)] BY <1>0, <2>1 DEF TypeOK, Lock
    <2>3. sched_state' \in Int /\ sched_state' <= IDLE
      BY <1>0, <2>1 DEF TypeOK, Lock, LOCKED, IDLE
    <2> QED BY <1>0, <2>1, <2>2, <2>3 DEF TypeOK, Lock, stack, control, history
  <1>11. CASE \E t \in Threads : Return(t)
    <2>1. PICK t \in Threads : Return(t) BY <1>11
    <2>2. SubSeq(frames[t], 1, Len(frames[t]) - 1) \in Seq(0..MaxCalls)
      BY <1>0, <2>1 DEF TypeOK, Return
    <2>3. frames' \in [Threads -> Seq(0..MaxCalls)] BY <1>0, <2>1, <2>2 DEF TypeOK, Return
    <2>4. sched_state' \in Int /\ sched_state' <= IDLE
      <3>1. Regions # {}
        BY <1>0, <2>1, TopRegion DEF Return
      <3>2. sched_state < 0
        BY <1>0, <3>1, LockedInRegion
      <3> QED BY <1>0, <2>1, <3>2 DEF TypeOK, Return, Unlocked, PENDING, IDLE
    <2> QED BY <1>0, <2>1, <2>3, <2>4 DEF TypeOK, Return, stack, control, bounds, history
  <1>12. CASE \E t \in Threads : LeaveGil(t)
    BY <1>0, <1>12 DEF TypeOK, LeaveGil, stack, control, bounds, history
  <1>13. CASE \E t \in Threads : GilEnter(t)
    BY <1>0, <1>13 DEF TypeOK, GilEnter, stack, control, bounds, history
  <1>14. CASE UNCHANGED vars
    BY <1>0, <1>14 DEF TypeOK, vars, stack, control, thread, bounds, history
  <1> QED
    BY <1>1, <1>2, <1>3, <1>4, <1>5, <1>6, <1>7, <1>8, <1>9, <1>10, <1>11, <1>12,
       <1>13, <1>14 DEF Step

---------------------------------------------------------------------------
(* The sections.                                                           *)

(* On one core, a section that is open excludes every action that does not *)
(* continue it.                                                            *)
LEMMA OneSection ==
    ASSUME OneCore, Sections, NEW p \in Callers, pc[p] # "run",
           NEW q \in Callers
    PROVE  ~Unmasked(q) /\ (q # p => pc[q] = "run")
  <1>1. section[VMCore] = p
    BY DEF Sections
  <1> QED
    BY <1>1, CoreIsVMCore, NamesAssumption DEF Sections, Unmasked

(* With the core unmasked nobody is in a section. *)
LEMMA NoSection ==
    ASSUME OneCore, Sections, NEW q \in Callers, Unmasked(q)
    PROVE  /\ \A p \in Callers : pc[p] = "run"
           /\ ~Shifting /\ ~Storing
           /\ section[VMCore] = NoOne
  <1>1. section[VMCore] = NoOne
    BY CoreIsVMCore DEF Unmasked
  <1> QED
    BY <1>1, NamesAssumption DEF Sections, Shifting, Storing, Callers

(* A caller enters a section, *)
LEMMA Enters ==
    ASSUME OneCore, TypeOK, Sections, NEW p \in Callers, Free(p), NEW l, l # "run",
           l = "shift" => p \in Threads, Mask(p), Goto(p, l)
    PROVE  Sections'
  <1>1. \A q \in Callers : pc[q] = "run"
    BY NoSection DEF Free
  <1>2. section' = [section EXCEPT ![VMCore] = p] /\ pc' = [pc EXCEPT ![p] = l]
    BY CoreIsVMCore DEF Mask, Goto
  <1>3. section'[VMCore] = p /\ pc'[p] = l
    BY <1>2, CoreIsVMCore DEF TypeOK
  <1>4. \A q \in Callers : q # p => pc'[q] = "run"
    BY <1>1, <1>2 DEF TypeOK
  <1> QED
    BY <1>3, <1>4 DEF Sections

(* and leaves it. *)
LEMMA Leaves ==
    ASSUME OneCore, TypeOK, Sections, NEW p \in Callers, pc[p] # "run",
           Unmask(p), Goto(p, "run")
    PROVE  Sections'
  <1>1. \A q \in Callers : q # p => pc[q] = "run"
    BY OneSection
  <1>2. section' = [section EXCEPT ![VMCore] = NoOne] /\ pc' = [pc EXCEPT ![p] = "run"]
    BY CoreIsVMCore DEF Unmask, Goto
  <1>3. section'[VMCore] = NoOne
    BY <1>2, CoreIsVMCore DEF TypeOK
  <1>4. \A q \in Callers : pc'[q] = "run"
    BY <1>1, <1>2 DEF TypeOK
  <1> QED
    BY <1>3, <1>4, NamesAssumption DEF Sections

LEMMA SectionsStep ==
    ASSUME OneCore, IInv, Step
    PROVE  Sections'
  <1>0. TypeOK /\ Sections
    BY DEF IInv
  <1>1. CASE \E p \in Callers : Schedule(p)
    BY <1>0, <1>1, Enters DEF Schedule
  <1>2. CASE \E p \in Callers : Store(p)
    <2>1. PICK p \in Callers : Store(p) BY <1>2
    <2>2. \A q \in Callers : q # p => pc[q] = "run"
      BY <1>0, <2>1, OneSection DEF Store
    <2>3. pc' = [pc EXCEPT ![p] = "count"] /\ pc[p] = "store"
      BY <2>1 DEF Store, Goto
    <2>4. section' = section
      BY <2>1 DEF Store
    <2>5. pc'[p] = "count" /\ \A q \in Callers : q # p => pc'[q] = pc[q]
      BY <1>0, <2>3 DEF TypeOK
    <2> QED BY <1>0, <2>3, <2>4, <2>5 DEF Sections
  <1>3. CASE \E p \in Callers : Count(p)
    BY <1>0, <1>3, Leaves DEF Count
  <1>4. CASE \E t \in Threads : Take(t)
    BY <1>0, <1>4, Enters DEF Take, Callers
  <1>5. CASE \E t \in Threads : Shift(t)
    BY <1>0, <1>5 DEF Shift, Sections
  <1>6. CASE \E t \in Threads : Call(t)
    BY <1>0, <1>6, Leaves DEF Call, Callers
  <1>7. ASSUME UNCHANGED <<section, pc>> PROVE Sections'
    BY <1>0, <1>7 DEF Sections
  <1> QED
    BY <1>1, <1>2, <1>3, <1>4, <1>5, <1>6, <1>7
    DEF Step, Refuse, KeyboardInterrupt, Raise, Lock, Return, LeaveGil, GilEnter, control,
        vars

LEMMA SlotsStep ==
    ASSUME OneCore, IInv, Step
    PROVE  Slots'
  <1> USE DepthAssumption
  <1>0. TypeOK /\ Sections /\ Slots
    BY DEF IInv
  <1>1. CASE \E p \in Callers : Schedule(p)
    <2>1. PICK p \in Callers : Schedule(p) BY <1>1
    <2>2. (\A q \in Callers : pc[q] = "run") /\ ~Shifting
      BY <1>0, <2>1, NoSection DEF Schedule, Free
    <2>3. pc' = [pc EXCEPT ![p] = "store"] /\ sched_sp' = sched_sp /\ idx' = idx
          /\ sched_sp < SchedDepth
      BY <2>1 DEF Schedule, Goto, stack
    <2>4. \A q \in Callers : pc'[q] \in {"run", "store"}
      BY <1>0, <2>2, <2>3 DEF TypeOK
    <2>5. ~Shifting'
      BY <2>4 DEF Shifting, Callers
    <2> QED BY <1>0, <2>2, <2>3, <2>4, <2>5 DEF Slots
  <1>2. CASE \E p \in Callers : Store(p)
    <2>1. PICK p \in Callers : Store(p) BY <1>2
    <2>2. \A q \in Callers : q # p => pc[q] = "run"
      BY <1>0, <2>1, OneSection DEF Store
    <2>3. pc' = [pc EXCEPT ![p] = "count"] /\ pc[p] = "store"
          /\ sched_sp' = sched_sp /\ idx' = idx /\ item' = item
      BY <2>1 DEF Store, Goto
    <2>4. \A q \in Callers : pc[q] # "shift" /\ pc'[q] # "shift"
      BY <1>0, <2>2, <2>3 DEF TypeOK
    <2>5. ~Shifting /\ ~Shifting'
      BY <2>4 DEF Shifting, Callers
    <2>6. sched_sp < SchedDepth
      BY <1>0, <2>3 DEF Slots
    <2>7. sched_stack'[sched_sp] = item[p]
      BY <1>0, <2>1, <2>6 DEF Store, TypeOK
    <2>8. \A q \in Callers : pc'[q] = "count" => q = p
      BY <1>0, <2>2, <2>3 DEF TypeOK
    <2> QED BY <1>0, <2>3, <2>5, <2>6, <2>7, <2>8 DEF Slots
  <1>3. CASE \E p \in Callers : Count(p)
    <2>1. PICK p \in Callers : Count(p) BY <1>3
    <2>2. \A q \in Callers : q # p => pc[q] = "run"
      BY <1>0, <2>1, OneSection DEF Count
    <2>3. pc' = [pc EXCEPT ![p] = "run"] /\ pc[p] = "count" /\ idx' = idx
      BY <2>1 DEF Count, Goto
    <2>4. \A q \in Callers : pc[q] # "shift" /\ pc'[q] = "run"
      BY <1>0, <2>2, <2>3 DEF TypeOK
    <2>5. ~Shifting /\ ~Shifting'
      BY <2>4 DEF Shifting, Callers
    <2> QED BY <1>0, <2>3, <2>4, <2>5 DEF Slots
  <1>4. CASE \E t \in Threads : Take(t)
    <2>1. PICK t \in Threads : Take(t) BY <1>4
    <2>2. (\A q \in Callers : pc[q] = "run") /\ ~Shifting
      BY <1>0, <2>1, NoSection DEF Take, Free, Callers
    <2>3. pc' = [pc EXCEPT ![t] = "shift"] /\ sched_sp' = sched_sp - 1 /\ idx' = idx
          /\ sched_sp > 0
      BY <2>1 DEF Take, Goto
    <2>4. \A q \in Callers : pc'[q] \in {"run", "shift"}
      BY <1>0, <2>2, <2>3 DEF TypeOK
    <2>5. sched_sp' < SchedDepth /\ idx' <= sched_sp' /\ Shifting'
      <3>1. idx = 0
        BY <1>0, <2>2 DEF Slots
      <3>2. pc'[t] = "shift"
        BY <1>0, <2>3 DEF TypeOK, Callers
      <3>3. Shifting'
        BY <3>2 DEF Shifting
      <3> QED BY <1>0, <2>3, <3>1, <3>3 DEF TypeOK
    <2> QED BY <2>4, <2>5 DEF Slots
  <1>5. CASE \E t \in Threads : Shift(t)
    <2>1. PICK t \in Threads : Shift(t) BY <1>5
    <2>2. \A q \in Callers : q # t => pc[q] = "run"
      BY <1>0, <2>1, OneSection DEF Shift, Callers
    <2>3. pc[t] = "shift" /\ pc' = pc /\ sched_sp' = sched_sp /\ idx' = idx + 1
          /\ idx < sched_sp
      BY <2>1 DEF Shift
    <2>4. \A q \in Callers : pc'[q] \notin {"store", "count"}
      BY <2>2, <2>3
    <2>5. Shifting /\ Shifting'
      BY <2>3 DEF Shifting
    <2> QED BY <1>0, <2>3, <2>4, <2>5 DEF Slots, TypeOK
  <1>6. CASE \E t \in Threads : Call(t)
    <2>1. PICK t \in Threads : Call(t) BY <1>6
    <2>2. \A q \in Callers : q # t => pc[q] = "run"
      BY <1>0, <2>1, OneSection DEF Call, Callers
    <2>3. pc' = [pc EXCEPT ![t] = "run"] /\ idx' = 0
      BY <2>1 DEF Call, Goto
    <2>4. \A q \in Callers : pc'[q] = "run"
      BY <1>0, <2>2, <2>3 DEF TypeOK
    <2>5. ~Shifting'
      BY <2>4 DEF Shifting, Callers
    <2> QED BY <2>3, <2>4, <2>5 DEF Slots
  <1>7. ASSUME UNCHANGED <<pc, sched_sp, sched_stack, item, idx>> PROVE Slots'
    BY <1>0, <1>7 DEF Slots, Shifting
  <1> QED
    BY <1>1, <1>2, <1>3, <1>4, <1>5, <1>6, <1>7
    DEF Step, Refuse, KeyboardInterrupt, Raise, Lock, Return, LeaveGil, GilEnter, control,
        stack, vars

---------------------------------------------------------------------------
(* Locks and wake-ups.                                                     *)

(* A frame that is pushed opens one region, *)
LEMMA Pushes ==
    ASSUME TypeOK, IsFiniteSet(Regions), NEW t \in Threads, NEW f \in 0..MaxCalls,
           frames' = [frames EXCEPT ![t] = Append(@, f)]
    PROVE  /\ IsFiniteSet(Regions')
           /\ Cardinality(Regions') = Cardinality(Regions) + 1
           /\ Regions' # {}
  <1> DEFINE r == <<t, Len(frames[t]) + 1>>
  <1>1. frames \in [Threads -> Seq(0..MaxCalls)]
    BY DEF TypeOK
  <1>2. \A u \in Threads : Len(frames[u]) \in Nat
    BY <1>1
  <1>3. \A u \in Threads : Len(frames'[u]) = IF u = t THEN Len(frames[u]) + 1
                                                   ELSE Len(frames[u])
    BY <1>1
  <1>4. \A x : x \in Regions <=> \E u \in Threads : \E i \in 1..Len(frames[u]) : x = <<u, i>>
    BY DEF Regions
  <1>5. \A x : x \in Regions' <=> \E u \in Threads : \E i \in 1..Len(frames'[u]) : x = <<u, i>>
    BY DEF Regions
  <1>6. r \notin Regions
    BY <1>2, <1>4
  <1>7. \A x : x \in Regions' <=> x \in Regions \/ x = r
    <2>1. ASSUME NEW x, x \in Regions' PROVE x \in Regions \/ x = r
      <3>1. PICK u, i : u \in Threads /\ i \in 1..Len(frames'[u]) /\ x = <<u, i>>
        BY <1>5, <2>1
      <3> QED BY <1>2, <1>3, <1>4, <3>1
    <2>2. ASSUME NEW x, x \in Regions PROVE x \in Regions'
      <3>1. PICK u, i : u \in Threads /\ i \in 1..Len(frames[u]) /\ x = <<u, i>>
        BY <1>4, <2>2
      <3>2. i \in 1..Len(frames'[u])
        BY <1>2, <1>3, <3>1
      <3> QED BY <1>5, <3>1, <3>2
    <2>3. r \in Regions'
      <3>1. Len(frames[t]) + 1 \in 1..Len(frames'[t])
        BY <1>2, <1>3
      <3> QED BY <1>5, <3>1
    <2> QED BY <2>1, <2>2, <2>3
  <1>8. Regions' = Regions \cup {r}
    BY <1>7
  <1> QED
    BY <1>6, <1>8, FS_AddElement

(* and one that is popped closes one. *)
LEMMA Pops ==
    ASSUME TypeOK, IsFiniteSet(Regions), NEW t \in Threads, frames[t] # <<>>,
           frames' = [frames EXCEPT ![t] = SubSeq(@, 1, Len(@) - 1)]
    PROVE  /\ IsFiniteSet(Regions')
           /\ Cardinality(Regions') = Cardinality(Regions) - 1
           /\ Regions # {}
  <1> DEFINE r == <<t, Len(frames[t])>>
  <1>1. frames \in [Threads -> Seq(0..MaxCalls)]
    BY DEF TypeOK
  <1>2. \A u \in Threads : Len(frames[u]) \in Nat
    BY <1>1
  <1>3. r \in Regions /\ Len(frames[t]) > 0
    BY TopRegion
  <1>4. Len(frames'[t]) = Len(frames[t]) - 1
    <2>1. frames'[t] = SubSeq(frames[t], 1, Len(frames[t]) - 1)
      BY <1>1
    <2>2. frames[t] \in Seq(0..MaxCalls)
      BY <1>1
    <2>3. Len(SubSeq(frames[t], 1, Len(frames[t]) - 1)) = Len(frames[t]) - 1
      BY <1>2, <1>3, <2>2
    <2> QED BY <1>2, <1>3, <2>1, <2>3
  <1>5. \A u \in Threads : u # t => Len(frames'[u]) = Len(frames[u])
    BY <1>1
  <1>6. \A x : x \in Regions <=> \E u \in Threads : \E i \in 1..Len(frames[u]) : x = <<u, i>>
    BY DEF Regions
  <1>7. \A x : x \in Regions' <=> \E u \in Threads : \E i \in 1..Len(frames'[u]) : x = <<u, i>>
    BY DEF Regions
  <1>8. \A x : x \in Regions' <=> x \in Regions /\ x # r
    <2>1. ASSUME NEW x, x \in Regions' PROVE x \in Regions /\ x # r
      <3>1. PICK u, i : u \in Threads /\ i \in 1..Len(frames'[u]) /\ x = <<u, i>>
        BY <1>7, <2>1
      <3>2. i \in 1..Len(frames[u]) /\ (u = t => i # Len(frames[t]))
        BY <1>2, <1>4, <1>5, <3>1
      <3> QED BY <1>6, <3>1, <3>2
    <2>2. ASSUME NEW x, x \in Regions, x # r PROVE x \in Regions'
      <3>1. PICK u, i : u \in Threads /\ i \in 1..Len(frames[u]) /\ x = <<u, i>>
        BY <1>6, <2>2
      <3>2. i \in 1..Len(frames'[u])
        BY <1>2, <1>4, <1>5, <2>2, <3>1
      <3> QED BY <1>7, <3>1, <3>2
    <2> QED BY <2>1, <2>2
  <1>9. Regions' = Regions \ {r}
    BY <1>8
  <1> QED
    BY <1>3, <1>9, FS_RemoveElement

LEMMA LockStep ==
    ASSUME OneCore, IInv, Step
    PROVE  IsFiniteSet(Regions') /\ LockCounts'
  <1> USE DEF IDLE, PENDING, LOCKED
  <1>0. TypeOK /\ IsFiniteSet(Regions) /\ LockCounts
    BY DEF IInv
  <1>a. Cardinality(Regions) \in Nat /\ (Cardinality(Regions) = 0 <=> Regions = {})
    BY <1>0, FS_CardinalityType, FS_EmptySet
  <1>b. sched_state >= 0 => Regions = {} /\ sched_state \in {IDLE, PENDING}
    BY <1>0, <1>a DEF LockCounts, TypeOK
  <1>1. CASE \E t \in Threads : Take(t)
    <2>1. PICK t \in Threads : Take(t) BY <1>1
    <2>2. sched_stack[0] \in 0..MaxCalls
      BY <1>0, DepthAssumption DEF TypeOK
    <2>3. /\ IsFiniteSet(Regions')
          /\ Cardinality(Regions') = Cardinality(Regions) + 1
          /\ Regions' # {}
      BY <1>0, <2>1, <2>2, Pushes DEF Take
    <2>4. Regions = {}
      BY <1>b, <2>1 DEF Take
    <2>5. Cardinality(Regions') = 1
      BY <1>a, <2>3, <2>4
    <2> QED BY <2>1, <2>3, <2>5 DEF Take, LockCounts
  <1>2. CASE \E t \in Threads : Lock(t)
    <2>1. PICK t \in Threads : Lock(t) BY <1>2
    <2>2. 0 \in 0..MaxCalls
      BY BoundsAssumption
    <2>3. /\ IsFiniteSet(Regions')
          /\ Cardinality(Regions') = Cardinality(Regions) + 1
          /\ Regions' # {}
      BY <1>0, <2>1, <2>2, Pushes DEF Lock
    <2>4. sched_state' = -(Cardinality(Regions) + 1)
      BY <1>0, <1>a, <1>b, <2>1 DEF Lock, LockCounts, TypeOK
    <2> QED BY <2>3, <2>4 DEF LockCounts
  <1>3. CASE \E t \in Threads : Return(t)
    <2>1. PICK t \in Threads : Return(t) BY <1>3
    <2>2. /\ IsFiniteSet(Regions')
          /\ Cardinality(Regions') = Cardinality(Regions) - 1
          /\ Regions # {}
      BY <1>0, <2>1, Pops DEF Return
    <2>3. Cardinality(Regions') = 0 <=> Regions' = {}
      BY <2>2, FS_EmptySet
    <2>4. sched_state = -Cardinality(Regions)
      BY <1>0, <2>2 DEF LockCounts
    <2>5. CASE Regions' = {}
      <3>1. sched_state + 1 = 0
        BY <1>a, <2>2, <2>3, <2>4, <2>5
      <3> QED BY <2>1, <2>2, <2>5, <3>1 DEF Return, Unlocked, LockCounts
    <2>6. CASE Regions' # {}
      <3>1. sched_state + 1 = -Cardinality(Regions') /\ sched_state + 1 # 0
        BY <1>a, <2>2, <2>3, <2>4, <2>6
      <3> QED BY <2>1, <2>2, <2>6, <3>1 DEF Return, Unlocked, LockCounts
    <2> QED BY <2>5, <2>6
  <1>4. ASSUME frames' = frames, (sched_state' = sched_state \/
                 (sched_state \in {IDLE, PENDING} /\ sched_state' \in {IDLE, PENDING}))
        PROVE  IsFiniteSet(Regions') /\ LockCounts'
    <2>1. Regions' = Regions
      BY <1>4 DEF Regions
    <2> QED BY <1>0, <1>b, <1>4, <2>1 DEF LockCounts
  <1>5. ASSUME Step, ~\E t \in Threads : Take(t) \/ Lock(t) \/ Return(t)
        PROVE  frames' = frames /\ (sched_state' = sched_state \/
                 (sched_state \in {IDLE, PENDING} /\ sched_state' \in {IDLE, PENDING}))
    BY <1>5 DEF Step, Refuse, Schedule, Store, Count, KeyboardInterrupt, Raise, Shift, Call,
       LeaveGil, GilEnter, thread, vars
  <1> QED
    BY <1>1, <1>2, <1>3, <1>4, <1>5

LEMMA WakeupStep ==
    ASSUME OneCore, IInv, Step
    PROVE  WakeupKept'
  <1> USE DEF IDLE, PENDING, LOCKED
  <1>0. TypeOK /\ Sections /\ Slots /\ WakeupKept
    BY DEF IInv
  <1>1. CASE \E p \in Callers : Schedule(p)
    <2>1. PICK p \in Callers : Schedule(p) BY <1>1
    <2>2. pc'[p] = "store"
      BY <1>0, <2>1 DEF Schedule, Goto, TypeOK
    <2>3. Storing'
      BY <2>2 DEF Storing
    <2> QED BY <2>1, <2>3 DEF Schedule, WakeupKept
  <1>2. CASE \E p \in Callers : Store(p)
    <2>1. PICK p \in Callers : Store(p) BY <1>2
    <2>2. Storing
      BY <2>1 DEF Storing, Store
    <2>3. pc'[p] = "count"
      BY <1>0, <2>1 DEF Store, Goto, TypeOK
    <2>4. Storing'
      BY <2>3 DEF Storing
    <2> QED BY <1>0, <2>1, <2>2, <2>4 DEF Store, WakeupKept
  <1>3. CASE \E p \in Callers : Count(p)
    <2>1. PICK p \in Callers : Count(p) BY <1>3
    <2>2. Storing
      BY <2>1 DEF Storing, Count
    <2>3. sched_sp' > 0
      BY <1>0, <2>1 DEF Count, TypeOK
    <2> QED BY <1>0, <2>1, <2>2, <2>3 DEF Count, WakeupKept
  <1>4. CASE KeyboardInterrupt
    BY <1>0, <1>4 DEF KeyboardInterrupt, WakeupKept, stack, control
  <1>5. CASE \E t \in Threads : Raise(t)
    <2>1. PICK t \in Threads : Raise(t) BY <1>5
    <2>2. ~Storing
      BY <1>0, <2>1, NoSection DEF Raise, Free, Callers
    <2>3. ~Storing'
      BY <2>1, <2>2 DEF Raise, control, Storing
    <2> QED BY <1>0, <2>1, <2>3 DEF Raise, WakeupKept, stack, TypeOK
  <1>6. CASE \E t \in Threads : Take(t)
    BY <1>6 DEF Take, WakeupKept
  <1>7. CASE \E t \in Threads : Shift(t)
    BY <1>0, <1>7 DEF Shift, WakeupKept, Storing
  <1>8. CASE \E t \in Threads : Call(t)
    <2>1. PICK t \in Threads : Call(t) BY <1>8
    <2>2. \A q \in Callers : q # t => pc[q] = "run"
      BY <1>0, <2>1, OneSection DEF Call, Callers
    <2>3. pc[t] = "shift" /\ pc'[t] = "run" /\ \A q \in Callers : q # t => pc'[q] = pc[q]
      BY <1>0, <2>1 DEF Call, Goto, TypeOK, Callers
    <2>4. ~Storing /\ ~Storing'
      BY <2>2, <2>3 DEF Storing
    <2> QED BY <1>0, <2>1, <2>4 DEF Call, WakeupKept, stack
  <1>9. CASE \E t \in Threads : Lock(t)
    BY <1>0, <1>9 DEF Lock, WakeupKept, TypeOK
  <1>10. CASE \E t \in Threads : Return(t)
    <2>1. PICK t \in Threads : Return(t) BY <1>10
    <2>2. ~Storing
      BY <1>0, <2>1, NoSection DEF Return, Free, Callers
    <2>3. ~Storing'
      BY <2>1, <2>2 DEF Return, control, Storing
    <2>4. sched_state < 0
      BY <1>0, <2>1, TopRegion, LockedInRegion DEF Return, IInv
    <2> QED BY <1>0, <2>1, <2>3, <2>4 DEF Return, Unlocked, WakeupKept, stack, TypeOK
  <1>11. ASSUME UNCHANGED <<sched_state, sched_sp, pending_exception, pc>>
         PROVE  WakeupKept'
    BY <1>0, <1>11 DEF WakeupKept, Storing
  <1> QED
    BY <1>1, <1>2, <1>3, <1>4, <1>5, <1>6, <1>7, <1>8, <1>9, <1>10, <1>11
    DEF Step, Refuse, LeaveGil, GilEnter, control, stack, vars

---------------------------------------------------------------------------
(* The order of the items.                                                 *)

(* FifoOnce, item by item. *)
InFifo ==
    /\ Len(accepted) = Len(started) + sched_sp
    /\ \A i \in 1..Len(started) : accepted[i] = started[i]
    /\ \A i \in 1..sched_sp : accepted[Len(started) + i] = Waiting[i]

LEMMA WaitingIsSeq ==
    ASSUME TypeOK, Slots
    PROVE  Waiting \in Seq(0..MaxCalls) /\ Len(Waiting) = sched_sp
  <1> USE DepthAssumption
  <1>1. ASSUME NEW i \in 1..sched_sp
        PROVE  (IF Shifting /\ i > idx THEN sched_stack[i] ELSE sched_stack[i - 1])
                 \in 0..MaxCalls
    <2>1. sched_stack \in [0..(SchedDepth - 1) -> 0..MaxCalls] /\ sched_sp \in 0..SchedDepth
      BY DEF TypeOK
    <2>2. CASE Shifting
      BY <2>1, <2>2 DEF Slots
    <2>3. CASE ~Shifting
      BY <2>1, <2>3
    <2> QED BY <2>2, <2>3
  <1>2. sched_sp \in Nat
    BY DEF TypeOK
  <1>3. Waiting \in [1..sched_sp -> 0..MaxCalls]
    BY <1>1 DEF Waiting
  <1>4. Waiting \in Seq(0..MaxCalls)
    <2> DEFINE w == Waiting
               S == 0..MaxCalls
    <2>1. w \in [1..sched_sp -> S]
      BY <1>3
    <2> HIDE DEF w, S
    <2>2. w \in Seq(S)
      BY <1>2, <2>1
    <2> QED BY <2>2 DEF w, S
  <1> QED
    BY <1>2, <1>3, <1>4, LenProperties

LEMMA FifoByItems ==
    ASSUME TypeOK, Slots
    PROVE  FifoOnce <=> InFifo
  <1> DEFINE w == Waiting
  <1>1. w \in Seq(0..MaxCalls) /\ Len(w) = sched_sp
    BY WaitingIsSeq
  <1>2. accepted \in Seq(0..MaxCalls) /\ started \in Seq(0..MaxCalls)
    BY DEF TypeOK
  <1>3. FifoOnce <=> accepted = started \o w
    BY DEF FifoOnce
  <1>4. InFifo <=> /\ Len(accepted) = Len(started) + Len(w)
                   /\ \A i \in 1..Len(started) : accepted[i] = started[i]
                   /\ \A i \in 1..Len(w) : accepted[Len(started) + i] = w[i]
    BY <1>1 DEF InFifo
  <1> HIDE DEF w
  <1>5. started \o w \in Seq(0..MaxCalls) /\ Len(started \o w) = Len(started) + Len(w)
    BY <1>1, <1>2
  <1>6. \A i \in 1..Len(started) : (started \o w)[i] = started[i]
    BY <1>1, <1>2
  <1>7. \A i \in 1..Len(w) : (started \o w)[Len(started) + i] = w[i]
    BY <1>1, <1>2
  <1>8. ASSUME FifoOnce PROVE InFifo
    BY <1>3, <1>4, <1>5, <1>6, <1>7, <1>8
  <1>9. ASSUME InFifo PROVE FifoOnce
    <2>1. Len(accepted) = Len(started \o w)
      BY <1>4, <1>5, <1>9
    <2>2. ASSUME NEW i \in 1..Len(accepted) PROVE accepted[i] = (started \o w)[i]
      <3>1. CASE i <= Len(started)
        BY <1>2, <1>4, <1>6, <1>9, <3>1
      <3>2. CASE i > Len(started)
        <4>1. PICK j \in 1..Len(w) : i = Len(started) + j
          <5>1. i - Len(started) \in 1..Len(w)
            BY <1>1, <1>2, <1>4, <1>9, <3>2
          <5> QED BY <1>2, <5>1
        <4> QED BY <1>4, <1>7, <1>9, <4>1
      <3>3. i <= Len(started) \/ i > Len(started)
        BY <1>2
      <3> QED BY <3>1, <3>2, <3>3, Zenon
    <2>3. accepted = started \o w
      BY <1>2, <1>5, <2>1, <2>2, SeqEqual
    <2> QED BY <1>3, <2>3
  <1> QED
    BY <1>8, <1>9

LEMMA FifoStep ==
    ASSUME OneCore, IInv, Step, TypeOK', Slots'
    PROVE  FifoOnce'
  <1> USE DepthAssumption, BoundsAssumption
  <1>0. TypeOK /\ Sections /\ Slots /\ InFifo
    BY FifoByItems DEF IInv
  <1>a. accepted \in Seq(0..MaxCalls) /\ started \in Seq(0..MaxCalls)
        /\ sched_sp \in Nat /\ idx \in Nat
        /\ sched_stack \in [0..(SchedDepth - 1) -> 0..MaxCalls]
    <2>1. accepted \in Seq(0..MaxCalls) /\ started \in Seq(0..MaxCalls)
      BY <1>0, Zenon DEF TypeOK
    <2>2. sched_sp \in 0..SchedDepth /\ idx \in 0..SchedDepth
      BY <1>0 DEF TypeOK
    <2>3. sched_stack \in [0..(SchedDepth - 1) -> 0..MaxCalls]
      BY <1>0, Zenon DEF TypeOK
    <2>4. sched_sp \in Nat /\ idx \in Nat
      BY <2>2
    <2> QED BY <2>1, <2>3, <2>4, Zenon
  <1>b. Len(accepted) \in Nat /\ Len(started) \in Nat
    BY <1>a
  <1>c. InFifo' => FifoOnce'
    <2>1. (FifoOnce <=> InFifo)'
      BY FifoByItems, PTL
    <2> QED BY <2>1
  <1> SUFFICES InFifo'
    BY <1>c
  <1>1. ASSUME UNCHANGED <<accepted, started, sched_sp, Waiting>> PROVE InFifo'
    BY <1>0, <1>1 DEF InFifo
  <1>2. CASE \E p \in Callers : Schedule(p)
    <2>1. PICK p \in Callers : Schedule(p) BY <1>2
    <2>2. ~Shifting
      BY <1>0, <2>1, NoSection DEF Schedule, Free
    <2>3. \A q \in Callers : pc[q] = "run"
      BY <1>0, <2>1, NoSection DEF Schedule, Free
    <2>4. \A q \in Callers : pc'[q] \in {"run", "store"}
      BY <1>0, <2>1, <2>3 DEF Schedule, Goto, TypeOK
    <2>5. ~Shifting'
      BY <2>4 DEF Shifting, Callers
    <2>6. Waiting' = Waiting
      BY <2>1, <2>2, <2>5 DEF Waiting, Schedule, stack
    <2> QED BY <1>1, <2>1, <2>6 DEF Schedule, stack, history
  <1>3. CASE \E p \in Callers : Store(p)
    <2>1. PICK p \in Callers : Store(p) BY <1>3
    <2>2. \A q \in Callers : q # p => pc[q] = "run"
      BY <1>0, <2>1, OneSection DEF Store
    <2>3. \A q \in Callers : pc[q] # "shift" /\ pc'[q] # "shift"
      BY <1>0, <2>1, <2>2 DEF Store, Goto, TypeOK
    <2>4. ~Shifting /\ ~Shifting'
      BY <2>3 DEF Shifting, Callers
    <2>5. \A i \in 1..sched_sp : sched_stack'[i - 1] = sched_stack[i - 1]
      BY <1>a, <2>1 DEF Store
    <2>6. Waiting' = Waiting
      BY <2>1, <2>4, <2>5 DEF Waiting, Store
    <2> QED BY <1>1, <2>1, <2>6 DEF Store, history
  <1>4. CASE \E p \in Callers : Count(p)
    <2>1. PICK p \in Callers : Count(p) BY <1>4
    <2>2. \A q \in Callers : q # p => pc[q] = "run"
      BY <1>0, <2>1, OneSection DEF Count
    <2>3. \A q \in Callers : pc[q] # "shift" /\ pc'[q] # "shift"
      BY <1>0, <2>1, <2>2 DEF Count, Goto, TypeOK
    <2>4. ~Shifting /\ ~Shifting'
      BY <2>3 DEF Shifting, Callers
    <2>5. sched_stack[sched_sp] = item[p] /\ item[p] \in 0..MaxCalls
      BY <1>0, <2>1 DEF Slots, Count, TypeOK
    <2>6. accepted' = Append(accepted, item[p]) /\ started' = started
          /\ sched_sp' = sched_sp + 1 /\ sched_stack' = sched_stack
      BY <2>1 DEF Count
    <2>7. \A i \in 1..sched_sp : Waiting[i] = sched_stack[i - 1]
      BY <2>4 DEF Waiting
    <2>8. \A i \in 1..(sched_sp + 1) : Waiting'[i] = sched_stack[i - 1]
      BY <2>4, <2>6 DEF Waiting
    <2>9. Len(accepted') = Len(accepted) + 1
          /\ (\A i \in 1..Len(accepted) : accepted'[i] = accepted[i])
          /\ accepted'[Len(accepted) + 1] = item[p]
      BY <1>a, <2>5, <2>6
    <2>10. \A i \in 1..Len(started) : accepted'[i] = started'[i]
      BY <1>0, <1>a, <1>b, <2>6, <2>9 DEF InFifo
    <2>11. ASSUME NEW i \in 1..(sched_sp + 1)
           PROVE  accepted'[Len(started) + i] = Waiting'[i]
      <3>1. CASE i = sched_sp + 1
        BY <1>0, <1>a, <1>b, <2>5, <2>8, <2>9, <3>1 DEF InFifo
      <3>2. CASE i \in 1..sched_sp
        <4>1. Len(started) + i \in 1..Len(accepted)
          BY <1>0, <1>a, <1>b, <3>2 DEF InFifo
        <4>2. accepted[Len(started) + i] = sched_stack[i - 1]
          BY <1>0, <2>7, <3>2 DEF InFifo
        <4>3. i \in 1..(sched_sp + 1)
          OBVIOUS
        <4> QED BY <2>8, <2>9, <4>1, <4>2, <4>3
      <3>3. i = sched_sp + 1 \/ i \in 1..sched_sp
        BY <1>a
      <3> QED BY <3>1, <3>2, <3>3, Zenon
    <2>12. Len(accepted') = Len(started') + sched_sp'
      BY <1>0, <1>a, <1>b, <2>6, <2>9 DEF InFifo
    <2> QED BY <2>6, <2>10, <2>11, <2>12 DEF InFifo
  <1>5. CASE \E t \in Threads : Take(t)
    <2>1. PICK t \in Threads : Take(t) BY <1>5
    <2>2. ~Shifting /\ idx = 0
      BY <1>0, <2>1, NoSection DEF Take, Free, Callers, Slots
    <2>3. pc'[t] = "shift"
      BY <1>0, <2>1 DEF Take, Goto, TypeOK, Callers
    <2>4. Shifting'
      BY <2>3 DEF Shifting
    <2>5. accepted' = accepted /\ started' = Append(started, sched_stack[0])
          /\ sched_sp' = sched_sp - 1 /\ sched_sp > 0 /\ sched_stack' = sched_stack
          /\ idx' = idx
      BY <2>1 DEF Take
    <2>6. \A i \in 1..sched_sp : Waiting[i] = sched_stack[i - 1]
      BY <2>2 DEF Waiting
    <2>7. \A i \in 1..(sched_sp - 1) : Waiting'[i] = sched_stack[i]
      BY <1>a, <2>2, <2>4, <2>5 DEF Waiting
    <2>8. sched_stack[0] \in 0..MaxCalls
      BY <1>a
    <2>9. Len(started') = Len(started) + 1
          /\ (\A i \in 1..Len(started) : started'[i] = started[i])
          /\ started'[Len(started) + 1] = sched_stack[0]
      BY <1>a, <2>5, <2>8
    <2>10. accepted[Len(started) + 1] = sched_stack[0]
      <3>1. 1 \in 1..sched_sp
        BY <1>a, <2>5
      <3>2. Waiting[1] = sched_stack[0]
        BY <2>6, <3>1
      <3> QED BY <1>0, <3>1, <3>2 DEF InFifo
    <2>11. \A i \in 1..Len(started') : accepted'[i] = started'[i]
      BY <1>0, <1>b, <2>5, <2>9, <2>10 DEF InFifo
    <2>12. ASSUME NEW i \in 1..(sched_sp - 1)
           PROVE  accepted[Len(started) + 1 + i] = Waiting'[i]
      <3>1. i + 1 \in 1..sched_sp /\ (i + 1) - 1 = i
            /\ Len(started) + 1 + i = Len(started) + (i + 1)
        BY <1>a, <1>b
      <3>2. accepted[Len(started) + (i + 1)] = Waiting[i + 1]
        BY <1>0, <3>1 DEF InFifo
      <3>3. Waiting[i + 1] = sched_stack[i]
        BY <2>6, <3>1
      <3> QED BY <2>7, <3>1, <3>2, <3>3
    <2>13. Len(accepted') = Len(started') + sched_sp'
      <3>1. Len(accepted) = Len(started) + sched_sp
        BY <1>0 DEF InFifo
      <3>2. Len(accepted') = Len(accepted)
        BY <2>5
      <3>3. Len(started') = Len(started) + 1 /\ sched_sp' = sched_sp - 1
        BY <2>5, <2>9
      <3> QED BY <1>a, <1>b, <3>1, <3>2, <3>3
    <2> QED BY <2>5, <2>9, <2>11, <2>12, <2>13 DEF InFifo
  <1>6. CASE \E t \in Threads : Shift(t)
    <2>1. PICK t \in Threads : Shift(t) BY <1>6
    <2>2. Shifting /\ Shifting'
      BY <2>1 DEF Shift, Shifting
    <2>3. sched_sp < SchedDepth /\ idx < sched_sp
      BY <1>0, <2>1, <2>2 DEF Slots, Shift
    <2>4. sched_sp' = sched_sp /\ idx' = idx + 1
          /\ sched_stack' = [sched_stack EXCEPT ![idx] = sched_stack[idx + 1]]
      BY <2>1 DEF Shift
    <2>5. ASSUME NEW i \in 1..sched_sp
          PROVE  (IF i > idx + 1 THEN sched_stack'[i] ELSE sched_stack'[i - 1])
                   = (IF i > idx THEN sched_stack[i] ELSE sched_stack[i - 1])
      <3>1. i \in 0..(SchedDepth - 1) /\ i - 1 \in 0..(SchedDepth - 1)
            /\ idx \in 0..(SchedDepth - 1)
        BY <1>a, <2>3
      <3> QED BY <1>a, <2>4, <3>1
    <2>6. Waiting' = Waiting
      BY <2>2, <2>4, <2>5 DEF Waiting
    <2> QED BY <1>1, <2>1, <2>6 DEF Shift, history
  <1>7. CASE \E t \in Threads : Call(t)
    <2>1. PICK t \in Threads : Call(t) BY <1>7
    <2>2. \A q \in Callers : q # t => pc[q] = "run"
      BY <1>0, <2>1, OneSection DEF Call, Callers
    <2>3. \A q \in Callers : pc'[q] = "run"
      BY <1>0, <2>1, <2>2 DEF Call, Goto, TypeOK
    <2>4. ~Shifting'
      BY <2>3 DEF Shifting, Callers
    <2>5. \A i \in 1..sched_sp : ~(i > idx)
      BY <1>a, <2>1 DEF Call
    <2>6. Waiting' = Waiting
      BY <2>1, <2>4, <2>5 DEF Waiting, Call, stack
    <2> QED BY <1>1, <2>1, <2>6 DEF Call, stack, history
  <1>8. ASSUME UNCHANGED <<accepted, started, sched_sp, sched_stack, idx, pc>> PROVE InFifo'
    <2>1. Waiting' = Waiting
      BY <1>8 DEF Waiting, Shifting
    <2> QED BY <1>1, <1>8, <2>1
  <1>9. InFifo'
    BY <1>2, <1>3, <1>4, <1>5, <1>6, <1>7, <1>8
    DEF Step, Refuse, KeyboardInterrupt, Raise, Lock, Return, LeaveGil, GilEnter, control,
        stack, history, vars
  <1> QED
    BY <1>9

---------------------------------------------------------------------------
(* The invariant.                                                          *)

LEMMA InvInit ==
    ASSUME OneCore, Init
    PROVE  IInv
  <1> USE DepthAssumption, NamesAssumption
  <1>1. TypeOK
    BY TypeInit
  <1>2. (\A p \in Callers : pc[p] = "run") /\ section[VMCore] = NoOne
    BY CoreIsVMCore DEF Init
  <1>3. Sections
    BY <1>2 DEF Sections
  <1>4. ~Shifting /\ ~Storing
    BY <1>2 DEF Shifting, Storing, Callers
  <1>5. Slots
    BY <1>2, <1>4 DEF Slots, Init
  <1>6. FifoOnce
    <2>1. sched_sp = 0 /\ accepted = <<>> /\ started = <<>>
      BY DEF Init
    <2>2. InFifo
      BY <2>1 DEF InFifo
    <2> QED BY <1>1, <1>5, <2>2, FifoByItems
  <1>7. Regions = {}
    BY DEF Regions, Init
  <1>8. IsFiniteSet(Regions)
    BY <1>7, FS_EmptySet
  <1>9. LockCounts
    BY <1>7 DEF LockCounts, Init
  <1>10. WakeupKept
    BY <1>4 DEF WakeupKept, Init, IDLE, PENDING
  <1> QED
    BY <1>1, <1>3, <1>5, <1>6, <1>8, <1>9, <1>10 DEF IInv

LEMMA InvStep ==
    ASSUME OneCore, IInv, [Next]_vars
    PROVE  IInv'
  <1>1. Step
    BY StepsOfNext
  <1>2. TypeOK' /\ Sections' /\ Slots'
    BY <1>1, TypeStep, SectionsStep, SlotsStep
  <1>3. FifoOnce'
    BY <1>1, <1>2, FifoStep
  <1>4. IsFiniteSet(Regions') /\ LockCounts' /\ WakeupKept'
    BY <1>1, LockStep, WakeupStep
  <1> QED
    BY <1>2, <1>3, <1>4 DEF IInv

LEMMA Invariance == ASSUME OneCore PROVE Spec => []IInv
  <1>1. Init => IInv
    BY InvInit
  <1>2. IInv /\ [Next]_vars => IInv'
    BY InvStep
  <1> QED
    BY <1>1, <1>2, PTL DEF Spec

(* Every variable of the scheduler keeps its type: the stack pointer stays *)
(* within MICROPY_SCHEDULER_DEPTH, the lock counter counts locks only.     *)
THEOREM SchedTypeCorrect == ASSUME OneCore PROVE Spec => []TypeOK
  <1>1. IInv => TypeOK
    BY DEF IInv
  <1> QED
    BY <1>1, Invariance, PTL

(* What mp_sched_schedule accepted is started once and in order, whatever  *)
(* interrupts come while mp_handle_pending_tail moves the items.           *)
THEOREM AcceptedRunsInOrder == ASSUME OneCore PROVE Spec => []FifoOnce
  <1>1. IInv => FifoOnce
    BY DEF IInv
  <1> QED
    BY <1>1, Invariance, PTL

(* sched_state counts the open callbacks and finalisers of all threads.    *)
THEOREM LocksAreCounted == ASSUME OneCore PROVE Spec => []LockCounts
  <1>1. IInv => LockCounts
    BY DEF IInv
  <1> QED
    BY <1>1, Invariance, PTL

(* mp_sched_schedule, mp_sched_unlock and the interrupt handler never      *)
(* leave the scheduler idle with work to do, nor pending without.          *)
THEOREM WakeupsAreKept == ASSUME OneCore PROVE Spec => []WakeupKept
  <1>1. IInv => WakeupKept
    BY DEF IInv
  <1> QED
    BY <1>1, Invariance, PTL

(* A step that starts a function or raises Ctrl-C finds no region open.    *)
LEMMA StartsOutside ==
    ASSUME OneCore, IInv, [Next]_vars
    PROVE  started' # started \/ (pending_exception /\ ~pending_exception')
             => Regions = {}
  <1>1. sched_state = PENDING => Regions = {}
    BY LockedInRegion DEF IInv, PENDING
  <1>2. ASSUME Step, sched_state # PENDING
        PROVE  started' = started /\ (pending_exception => pending_exception')
    BY <1>2 DEF Step, Refuse, Schedule, Store, Count, KeyboardInterrupt, Raise, Take, Shift,
       Call, Lock, Return, LeaveGil, GilEnter, history, vars
  <1> QED
    BY <1>1, <1>2, StepsOfNext

(* "A scheduled function will never preempt another scheduled function":   *)
(* nor does it start, or Ctrl-C break, into a region of any thread.        *)
THEOREM CallbacksNeverPreempt == ASSUME OneCore PROVE Spec => NeverPreempts
  <1>1. IInv /\ [Next]_vars =>
          [started' # started \/ (pending_exception /\ ~pending_exception')
             => Regions = {}]_vars
    BY StartsOutside
  <1> QED
    BY <1>1, Invariance, PTL DEF Spec, NeverPreempts

=============================================================================
