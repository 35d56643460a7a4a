------------------------------ MODULE MpSched ------------------------------
(***************************************************************************)
(* The scheduler through which C code hands functions to MicroPython       *)
(* (micropython/py/scheduler.c): interrupt handlers, driver tasks and      *)
(* Python code queue a function, the virtual machine runs the queued       *)
(* functions between two opcodes, one at a time, and Ctrl-C reaches a      *)
(* program as a pending exception along the same path.                     *)
(*                                                                         *)
(* The C code guards its sections with portENTER_CRITICAL_NESTED, which    *)
(* masks the interrupts of the calling core and nothing else: a section    *)
(* excludes what runs on its own core only, so every section that has      *)
(* several writes is one step per write here.                              *)
(***************************************************************************)
EXTENDS Integers, Sequences, FiniteSets

CONSTANTS
    Threads,        \* Python threads, they share the GIL and the core VMCore
    Sources,        \* interrupt handlers and driver tasks that schedule
    CoreOf,         \* the core each source runs on
    VMCore,         \* MainTaskCore
    SchedDepth,     \* MICROPY_SCHEDULER_DEPTH
    MaxCalls,       \* bound: calls of mp_sched_schedule
    MaxDels,        \* bound: finalisers run
    MaxInterrupts,  \* bound: Ctrl-C typed
    NoOne

Cores == {VMCore} \cup {CoreOf[s] : s \in Sources}
Callers == Threads \cup Sources
Core(p) == IF p \in Threads THEN VMCore ELSE CoreOf[p]

ASSUME NamesAssumption ==
    Threads \cap Sources = {} /\ NoOne \notin Callers /\ IsFiniteSet(Threads)
ASSUME DepthAssumption == SchedDepth \in Nat \ {0}
ASSUME BoundsAssumption ==
    MaxCalls \in Nat /\ MaxDels \in Nat /\ MaxInterrupts \in Nat

(* The configurations with CONFIG_FREERTOS_UNICORE. *)
OneCore == \A s \in Sources : CoreOf[s] = VMCore

IDLE    == 1
PENDING == 0
LOCKED  == -1

VARIABLES
    sched_state,       \* IDLE, PENDING, or minus the number of locks
    sched_stack,       \* the slots of sched_stack[]
    sched_sp,
    pending_exception, \* is a KeyboardInterrupt waiting?
    section,           \* who keeps the interrupts of a core masked
    pc,                \* where a caller is inside scheduler.c
    item,              \* the item a caller is storing
    idx,               \* the loop variable of mp_handle_pending_tail
    gil,               \* the thread that holds the GIL
    frames,            \* what a thread has open: a callback, or 0 for __del__
    calls,             \* calls of mp_sched_schedule so far: the items' numbers
    dels,              \* finalisers run so far
    interrupts,        \* Ctrl-C typed so far
    accepted, started  \* history: items accepted and started, in order

stack   == <<sched_stack, sched_sp>>
control == <<section, pc, item, idx>>
thread  == <<gil, frames>>
bounds  == <<calls, dels, interrupts>>
history == <<accepted, started>>
vars == <<sched_state, pending_exception, stack, control, thread, bounds, history>>

Init ==
    /\ sched_state = IDLE
    /\ sched_stack = [i \in 0..(SchedDepth - 1) |-> 0]
    /\ sched_sp = 0
    /\ pending_exception = FALSE
    /\ section = [c \in Cores |-> NoOne]
    /\ pc = [p \in Callers |-> "run"]
    /\ item = [p \in Callers |-> 0]
    /\ idx = 0
    /\ gil \in Threads
    /\ frames = [t \in Threads |-> <<>>]
    /\ dels = 0
    /\ calls = 0
    /\ interrupts = 0
    /\ accepted = <<>>
    /\ started = <<>>

---------------------------------------------------------------------------
(* A source runs whenever no section masks its core; a thread also needs   *)
(* the GIL.                                                                *)
Unmasked(p) == section[Core(p)] = NoOne
Free(p) == pc[p] = "run" /\ Unmasked(p) /\ (p \in Threads => gil = p)
Mask(p)   == section' = [section EXCEPT ![Core(p)] = p]
Unmask(p) == section' = [section EXCEPT ![Core(p)] = NoOne]
Goto(p, l) == pc' = [pc EXCEPT ![p] = l]

(* mp_sched_schedule: refused when the stack is full, *)
Refuse(p) ==
    /\ Free(p) /\ calls < MaxCalls
    /\ sched_sp >= SchedDepth
    /\ calls' = calls + 1
    /\ UNCHANGED <<sched_state, pending_exception, stack, control, thread, dels,
                   interrupts, history>>

(* else an idle scheduler becomes pending, *)
Schedule(p) ==
    /\ Free(p) /\ calls < MaxCalls
    /\ sched_sp < SchedDepth
    /\ sched_state' = IF sched_state = IDLE THEN PENDING ELSE sched_state
    /\ calls' = calls + 1
    /\ item' = [item EXCEPT ![p] = calls + 1]
    /\ Mask(p) /\ Goto(p, "store")
    /\ UNCHANGED <<pending_exception, stack, idx, thread, dels, interrupts, history>>

(* the slot at the stack pointer is filled, *)
Store(p) ==
    /\ pc[p] = "store"
    /\ sched_stack' = [sched_stack EXCEPT ![sched_sp] = item[p]]
    /\ Goto(p, "count")
    /\ UNCHANGED <<sched_state, pending_exception, sched_sp, section, item, idx,
                   thread, bounds, history>>

(* and counted. *)
Count(p) ==
    /\ pc[p] = "count"
    /\ sched_sp' = sched_sp + 1
    /\ accepted' = Append(accepted, item[p])
    /\ item' = [item EXCEPT ![p] = 0]
    /\ Unmask(p) /\ Goto(p, "run")
    /\ UNCHANGED <<sched_state, pending_exception, sched_stack, idx, thread, bounds,
                   started>>

(* The UART interrupt handler, on the core of the machine, finds the       *)
(* interrupt character: an inlined mp_keyboard_interrupt.                  *)
KeyboardInterrupt ==
    /\ section[VMCore] = NoOne /\ interrupts < MaxInterrupts
    /\ interrupts' = interrupts + 1
    /\ pending_exception' = TRUE
    /\ sched_state' = IF sched_state = IDLE THEN PENDING ELSE sched_state
    /\ UNCHANGED <<stack, control, thread, calls, dels, history>>

---------------------------------------------------------------------------
(* Mutant: the scheduler goes idle with items left. *)
RaiseForgets(t) ==
    /\ Free(t) /\ sched_state = PENDING
    /\ pending_exception
    /\ pending_exception' = FALSE
    /\ sched_state' = IDLE
    /\ UNCHANGED <<stack, control, thread, bounds, history>>

(* The virtual machine's check between two opcodes, and mp_handle_pending: *)
(* a pending exception is raised first,                                    *)
Raise(t) ==
    /\ Free(t) /\ sched_state = PENDING
    /\ pending_exception
    /\ pending_exception' = FALSE
    /\ sched_state' = IF sched_sp = 0 THEN IDLE ELSE sched_state
    /\ UNCHANGED <<stack, control, thread, bounds, history>>

(* Mutant: the youngest item is taken, as from a stack. *)
TakeLast(t) ==
    /\ Free(t) /\ sched_state = PENDING
    /\ ~pending_exception /\ sched_sp > 0
    /\ sched_state' = LOCKED
    /\ sched_sp' = sched_sp - 1
    /\ frames' = [frames EXCEPT ![t] = Append(@, sched_stack[sched_sp - 1])]
    /\ started' = Append(started, sched_stack[sched_sp - 1])
    /\ Mask(t) /\ Goto(t, "shift")
    /\ UNCHANGED <<pending_exception, sched_stack, item, idx, gil, bounds, accepted>>

(* else the scheduler is locked and the first item leaves the stack (a      *)
(* scheduler that is pending has one: WakeupKept),                         *)
Take(t) ==
    /\ Free(t) /\ sched_state = PENDING
    /\ ~pending_exception /\ sched_sp > 0
    /\ sched_state' = LOCKED
    /\ sched_sp' = sched_sp - 1
    /\ frames' = [frames EXCEPT ![t] = Append(@, sched_stack[0])]
    /\ started' = Append(started, sched_stack[0])
    /\ Mask(t) /\ Goto(t, "shift")
    /\ UNCHANGED <<pending_exception, sched_stack, item, idx, gil, bounds, accepted>>

(* the others move down one by one, *)
Shift(t) ==
    /\ pc[t] = "shift" /\ idx < sched_sp
    /\ sched_stack' = [sched_stack EXCEPT ![idx] = sched_stack[idx + 1]]
    /\ idx' = idx + 1
    /\ UNCHANGED <<sched_state, pending_exception, sched_sp, section, pc, item,
                   thread, bounds, history>>

(* the argument is built and the section left: the callback runs. *)
Call(t) ==
    /\ pc[t] = "shift" /\ idx >= sched_sp
    /\ idx' = 0
    /\ Unmask(t) /\ Goto(t, "run")
    /\ UNCHANGED <<sched_state, pending_exception, stack, item, thread, bounds, history>>

(* Mutant: locks do not nest. *)
LockOnce(t) ==
    /\ Free(t) /\ dels < MaxDels
    /\ \A i \in 1..Len(frames[t]) : frames[t][i] # 0
    /\ dels' = dels + 1
    /\ sched_state' = LOCKED
    /\ frames' = [frames EXCEPT ![t] = Append(@, 0)]
    /\ UNCHANGED <<pending_exception, stack, control, gil, calls, interrupts, history>>

(* gc_sweep locks the scheduler around the __del__ of an object, a C       *)
(* function that starts no collection of its own.                          *)
Lock(t) ==
    /\ Free(t) /\ dels < MaxDels
    /\ \A i \in 1..Len(frames[t]) : frames[t][i] # 0
    /\ dels' = dels + 1
    /\ sched_state' = IF sched_state < 0 THEN sched_state - 1 ELSE LOCKED
    /\ frames' = [frames EXCEPT ![t] = Append(@, 0)]
    /\ UNCHANGED <<pending_exception, stack, control, gil, calls, interrupts, history>>

(* Mutant: only an exception makes the scheduler pending again. *)
UnlockedForgets ==
    IF sched_state + 1 # 0 THEN sched_state + 1
    ELSE IF pending_exception THEN PENDING ELSE IDLE

(* Mutant: the first unlock unlocks. *)
UnlockedAtOnce ==
    IF pending_exception \/ sched_sp > 0 THEN PENDING ELSE IDLE

(* mp_sched_unlock *)
Unlocked ==
    IF sched_state + 1 # 0 THEN sched_state + 1
    ELSE IF pending_exception \/ sched_sp > 0 THEN PENDING ELSE IDLE

(* A callback or a __del__ returns, or raises, which is caught. *)
Return(t) ==
    /\ Free(t) /\ frames[t] # <<>>
    /\ frames' = [frames EXCEPT ![t] = SubSeq(@, 1, Len(@) - 1)]
    /\ sched_state' = Unlocked
    /\ UNCHANGED <<pending_exception, stack, control, gil, bounds, history>>

LeaveGil(t) ==
    /\ Free(t)
    /\ gil' = NoOne
    /\ UNCHANGED <<sched_state, pending_exception, stack, control, frames, bounds,
                   history>>

(* The machine's loop lets the other threads run, but only when the        *)
(* scheduler is idle,                                                      *)
SwitchThreads(t) == sched_state = IDLE /\ LeaveGil(t)

(* and any code does in a call that blocks, a callback's included. *)
BlockingCall(t) == LeaveGil(t)

GilEnter(t) ==
    /\ gil = NoOne /\ Unmasked(t)
    /\ gil' = t
    /\ UNCHANGED <<sched_state, pending_exception, stack, control, frames, bounds,
                   history>>

---------------------------------------------------------------------------
ScheduleStep(p) == Refuse(p) \/ Schedule(p) \/ Store(p) \/ Count(p)
HandlePending(t) == Raise(t) \/ Take(t)
FinishSection(p) ==
    \/ Store(p) \/ Count(p)
    \/ p \in Threads /\ (Shift(p) \/ Call(p))
ThreadStep(t) ==
    \/ HandlePending(t) \/ Shift(t) \/ Call(t) \/ Lock(t) \/ Return(t)
    \/ SwitchThreads(t) \/ BlockingCall(t) \/ GilEnter(t)

Next ==
    \/ \E p \in Callers : ScheduleStep(p)
    \/ \E t \in Threads : ThreadStep(t)
    \/ KeyboardInterrupt

Spec == Init /\ [][Next]_vars

(* A section ends, the thread that holds the GIL reaches an opcode that    *)
(* checks and one that switches, callbacks and __del__ end, the GIL is a   *)
(* fair mutex.                                                             *)
Fairness ==
    /\ WF_vars(\E p \in Callers : FinishSection(p))
    /\ SF_vars(\E t \in Threads : HandlePending(t))
    /\ \A t \in Threads :
        SF_vars(SwitchThreads(t)) /\ SF_vars(Return(t)) /\ SF_vars(GilEnter(t))

FairSpec == Spec /\ Fairness

(* Beyond what the machine does by itself: no thread computes for ever     *)
(* without a call that blocks.                                             *)
Cooperative == \A t \in Threads : SF_vars(BlockingCall(t))
CooperativeSpec == FairSpec /\ Cooperative

---------------------------------------------------------------------------
TypeOK ==
    /\ sched_state \in Int /\ sched_state <= IDLE
    /\ sched_stack \in [0..(SchedDepth - 1) -> 0..MaxCalls]
    /\ sched_sp \in 0..SchedDepth
    /\ pending_exception \in BOOLEAN
    /\ section \in [Cores -> Callers \cup {NoOne}]
    /\ pc \in [Callers -> {"run", "store", "count", "shift"}]
    /\ item \in [Callers -> 0..MaxCalls]
    /\ idx \in 0..SchedDepth
    /\ gil \in Threads \cup {NoOne}
    /\ frames \in [Threads -> Seq(0..MaxCalls)]
    /\ dels \in 0..MaxDels
    /\ calls \in 0..MaxCalls
    /\ interrupts \in 0..MaxInterrupts
    /\ accepted \in Seq(0..MaxCalls) /\ started \in Seq(0..MaxCalls)

(* The items that wait, in order.  While a thread moves them down, the     *)
(* ones from idx on are still one slot higher.                             *)
Shifting == \E t \in Threads : pc[t] = "shift"
Waiting == [i \in 1..sched_sp |-> IF Shifting /\ i > idx THEN sched_stack[i]
                                  ELSE sched_stack[i - 1]]

(* Every function mp_sched_schedule accepted is started once, and in the   *)
(* order of acceptance, whatever interrupts come between the reads and     *)
(* writes of the stack: nothing is lost, repeated or overtaken.            *)
FifoOnce == accepted = started \o Waiting

(* The regions in which no scheduled function may start: open callbacks    *)
(* and open finalisers, of all threads.                                    *)
Regions == UNION {{t} \X (1..Len(frames[t])) : t \in Threads}

(* The lock counter is the number of open regions, also when a thread is   *)
(* preempted inside its callback and another one locks and unlocks.        *)
LockCounts ==
    IF Regions = {} THEN sched_state \in {IDLE, PENDING}
    ELSE sched_state = -Cardinality(Regions)

Storing == \E p \in Callers : pc[p] \in {"store", "count"}

(* No wake-up is lost and none is empty: an idle scheduler has nothing to  *)
(* do, neither an item (one half stored included) nor a Ctrl-C, and one    *)
(* that is pending has something to do.                                    *)
WakeupKept ==
    /\ sched_state = IDLE => sched_sp = 0 /\ ~pending_exception /\ ~Storing
    /\ sched_state = PENDING => sched_sp > 0 \/ pending_exception \/ Storing

(* "A scheduled function will never preempt another scheduled function",   *)
(* nor start in a critical region of any thread, nor does a Ctrl-C break   *)
(* into one.                                                               *)
NeverPreempts ==
    [][started' # started \/ (pending_exception /\ ~pending_exception')
         => Regions = {}]_vars

(* Each accepted function is started in the end. *)
ScheduledRuns ==
    []<>(Len(started) = Len(accepted))

=============================================================================
