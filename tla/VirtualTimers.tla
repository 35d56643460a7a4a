--------------------------- MODULE VirtualTimers ---------------------------
(***************************************************************************)
(* The timers of python_modules/shared/virtualtimers.py: a list of tasks   *)
(* that the callback of one hardware timer walks through, and that tasks,  *)
(* scheduled callbacks and the program change.                             *)
(*                                                                         *)
(* The timer callback and other scheduled callbacks run between two        *)
(* bytecodes of the program, at a jump, and never inside one another (see  *)
(* MpSched): to the program each is one interruption, and the program's    *)
(* calls are as many steps as there are jumps between their accesses.      *)
(* Time is counted in periods of the timer.                                *)
(***************************************************************************)
EXTENDS Integers, Sequences, SequencesExt

CONSTANTS
    Callbacks,      \* the functions tasks call
    Targets,        \* times given to new and update, or returned by a callback
    TaskOps,        \* what a task may call: "new", "update", "delete"
    ProgramOps,     \* what the program itself may call, besides new
    MaxTasks,       \* bound: tasks created
    MaxCalls        \* bound: calls other than new

ASSUME TargetsAssumption ==
    /\ Targets \subseteq Nat /\ MaxTasks \in Nat /\ MaxCalls \in Nat
    /\ TaskOps \cup ProgramOps \subseteq {"new", "update", "delete"}

VARIABLES
    scheduler,  \* the list, of indices into task
    task,       \* every task created so far
    ticking,    \* whether the hardware timer runs
    tick,       \* timer_callback: where it is, loop index, list length, task called
    prog,       \* the same of a delete or update of the program, and the list
                \* that delete filters, "shared" while that is the global one
    ended,      \* history: tasks that returned no new time, deleted or stopped
    meddled,    \* history: whether a loop over the list had it changed under it
    calls       \* bound: calls so far

vars == <<scheduler, task, ticking, tick, prog, ended, meddled, calls>>

Idle == [at |-> "idle", cb |-> CHOOSE c \in Callbacks : TRUE, target |-> 0,
         i |-> 0, n |-> 0, src |-> <<>>, shared |-> FALSE, acc |-> <<>>]

NoTick == [at |-> "idle", i |-> 0, s |-> 0, item |-> 0]

Init ==
    /\ scheduler = <<>> /\ task = <<>> /\ ticking = TRUE
    /\ tick = NoTick /\ prog = Idle
    /\ ended = {} /\ meddled = FALSE /\ calls = 0

---------------------------------------------------------------------------
(* Calls without a jump between their accesses, or run by a callback.      *)

(* A generator takes the list with its first element; an assignment to     *)
(* scheduler leaves it that list, which new does not append to any more.   *)
Source == IF prog.shared \/ prog.i = 1 THEN scheduler ELSE prog.src
Rebind(list) ==
    /\ scheduler' = list
    /\ prog' = IF prog.shared THEN [prog EXCEPT !.src = scheduler, !.shared = FALSE] ELSE prog

WithCallback(list, c) == {i \in ToSet(list) : task[i].cb = c}

(* What a comprehension over the list has collected after n elements, and  *)
(* what it returns.                                                        *)
Collected(list, gone) ==
    LET acc[n \in 0 .. Len(list)] ==
            IF n = 0 THEN <<>>
            ELSE IF list[n] \in gone THEN acc[n - 1] ELSE Append(acc[n - 1], list[n])
    IN acc
Without(list, gone) == Collected(list, gone)[Len(list)]

New(c, target) ==
    /\ Len(task) < MaxTasks
    /\ task' = Append(task, [pos |-> 0, target |-> target, cb |-> c])
    /\ scheduler' = Append(scheduler, Len(task) + 1)
    /\ UNCHANGED <<prog, ended, calls>>

(* Mutant: the time that has passed is kept. *)
UpdateKeepsPos(c, target) ==
    /\ calls < MaxCalls /\ calls' = calls + 1
    /\ task' = [i \in DOMAIN task |-> IF i \in WithCallback(scheduler, c)
                                      THEN [task[i] EXCEPT !.target = target] ELSE task[i]]
    /\ ended' = ended \ WithCallback(scheduler, c)
    /\ UNCHANGED <<scheduler, prog>>

(* A task that has ended in this tick and is still in the list goes on. *)
Update(c, target) ==
    /\ calls < MaxCalls /\ calls' = calls + 1
    /\ task' = [i \in DOMAIN task |-> IF i \in WithCallback(scheduler, c)
                                      THEN [task[i] EXCEPT !.pos = 0, !.target = target]
                                      ELSE task[i]]
    /\ ended' = ended \ WithCallback(scheduler, c)
    /\ UNCHANGED <<scheduler, prog>>

Delete(c) ==
    /\ calls < MaxCalls /\ calls' = calls + 1
    /\ Rebind(Without(scheduler, WithCallback(scheduler, c)))
    /\ ended' = ended \cup WithCallback(scheduler, c)
    /\ UNCHANGED task

Calls(ops) == \E c \in Callbacks :
    \/ "new" \in ops /\ \E target \in Targets : New(c, target)
    \/ "update" \in ops /\ \E target \in Targets : Update(c, target)
    \/ "delete" \in ops /\ Delete(c)

(* A scheduled callback other than the timer's, or new by the program. *)
ScheduledCallback ==
    /\ tick.at = "idle"
    /\ Calls({"new", "update", "delete"})
    /\ UNCHANGED <<ticking, tick>>

(* stop and begin, by the program or by any callback; a tick that is under *)
(* way goes on over the emptied list.                                      *)
BetweenOrCalled == tick.at \in {"idle", "call"}
Stop ==
    /\ BetweenOrCalled /\ ticking
    /\ calls < MaxCalls /\ calls' = calls + 1
    /\ ticking' = FALSE /\ Rebind(<<>>) /\ ended' = ended \cup ToSet(scheduler)
    /\ UNCHANGED <<task, tick>>

Begin ==
    /\ BetweenOrCalled /\ ~ticking
    /\ ticking' = TRUE
    /\ UNCHANGED <<scheduler, task, tick, prog, ended, calls>>

---------------------------------------------------------------------------
(* timer_callback.                                                         *)

(* Mutant: the loop ends one task too early. *)
TickBeginShort ==
    /\ ticking /\ tick.at = "idle"
    /\ tick' = [tick EXCEPT !.at = "advance", !.i = 1, !.s = Len(scheduler) - 1]
    /\ UNCHANGED <<scheduler, task, ticking, prog, ended, calls>>

TickBegin ==
    /\ ticking /\ tick.at = "idle"
    /\ tick' = [tick EXCEPT !.at = "advance", !.i = 1, !.s = Len(scheduler)]
    /\ UNCHANGED <<scheduler, task, ticking, prog, ended, calls>>

TickRaises ==
    /\ tick.i > Len(scheduler)
    /\ tick' = NoTick
    /\ UNCHANGED task

Advance ==
    /\ tick.at = "advance" /\ tick.i <= tick.s
    /\ \/ TickRaises
       \/ LET i == scheduler[tick.i] IN
          /\ tick.i <= Len(scheduler)
          /\ task' = [task EXCEPT ![i].pos = @ + 1]
          /\ tick' = IF task'[i].pos > task[i].target
                     THEN [tick EXCEPT !.at = "call", !.item = i]
                     ELSE [tick EXCEPT !.i = @ + 1]
    /\ UNCHANGED <<scheduler, ticking, prog, ended, calls>>

TaskCalls ==
    /\ tick.at = "call"
    /\ Calls(TaskOps)
    /\ UNCHANGED <<ticking, tick>>

(* What the callback returned, or -1 if it goes to the task that   *)
(* is at the index now.                                                    *)
TaskReturns ==
    /\ tick.at = "call"
    /\ \E next \in Targets \cup {-1} :
         /\ ended' = IF next > 0 THEN ended ELSE ended \cup {tick.item}
         /\ \/ TickRaises
            \/ LET i == scheduler[tick.i]
                   t == IF next > 0 THEN [pos |-> 0, target |-> next]
                                    ELSE [pos |-> -1, target |-> -1] IN
               /\ tick.i <= Len(scheduler)
               /\ task' = [task EXCEPT ![i].pos = t.pos, ![i].target = t.target]
               /\ tick' = [tick EXCEPT !.at = "advance", !.i = @ + 1]
    /\ UNCHANGED <<scheduler, ticking, prog, calls>>

(* Mutant: off by one in what stays. *)
TickEndDropsNew ==
    /\ tick.at = "advance" /\ tick.i > tick.s
    /\ Rebind(Without(scheduler, {i \in ToSet(scheduler) : task[i].pos <= 0}))
    /\ tick' = NoTick
    /\ UNCHANGED <<task, ticking, ended, calls>>

TickEnd ==
    /\ tick.at = "advance" /\ tick.i > tick.s
    /\ Rebind(Without(scheduler, {i \in ToSet(scheduler) : task[i].pos < 0}))
    /\ tick' = NoTick
    /\ UNCHANGED <<task, ticking, ended, calls>>

---------------------------------------------------------------------------
(* delete and update called by the program, from jump to jump.             *)

ProgramCalls(op, at) ==
    /\ op \in ProgramOps /\ prog.at = "idle" /\ tick.at = "idle"
    /\ calls < MaxCalls /\ calls' = calls + 1
    /\ \E c \in Callbacks, target \in Targets :
         prog' = [Idle EXCEPT !.at = at, !.cb = c, !.target = target,
                              !.i = 1, !.n = Len(scheduler)]
    /\ UNCHANGED <<scheduler, task, ticking, tick, ended>>

ProgramBeginsDelete == ProgramCalls("delete", "find")
ProgramBeginsUpdate == ProgramCalls("update", "compare")

ProgramRaises ==
    /\ prog.i > Len(scheduler)
    /\ prog' = Idle
    /\ UNCHANGED task

(* The loop that only tells whether there is such a task. *)
Find ==
    LET found == prog.i <= Len(scheduler) /\ task[scheduler[prog.i]].cb = prog.cb IN
    /\ prog.at = "find" /\ tick.at = "idle"
    /\ \/ prog.i <= prog.n /\ ProgramRaises
       \/ /\ prog.i <= prog.n => prog.i <= Len(scheduler)
          /\ prog' = IF found \/ prog.i > prog.n
                     THEN [prog EXCEPT !.at = "filter", !.i = 1]
                     ELSE [prog EXCEPT !.i = @ + 1]
          /\ UNCHANGED task
    /\ UNCHANGED <<scheduler, ticking, tick, ended, calls>>

Filter ==
    /\ prog.at = "filter" /\ tick.at = "idle"
    /\ prog.i <= Len(Source)
    /\ prog' = [prog EXCEPT !.i = @ + 1, !.shared = @ \/ prog.i = 1,
                            !.acc = IF task[Source[prog.i]].cb = prog.cb THEN @
                                    ELSE Append(@, Source[prog.i])]
    /\ UNCHANGED <<scheduler, task, ticking, tick, ended, calls>>

Store ==
    /\ prog.at = "filter" /\ tick.at = "idle"
    /\ prog.i > Len(Source)
    /\ scheduler' = prog.acc /\ prog' = Idle
    /\ ended' = ended \cup WithCallback(Source, prog.cb)
    /\ UNCHANGED <<task, ticking, tick, calls>>

Compare ==
    /\ prog.at = "compare" /\ tick.at = "idle"
    /\ \/ prog.i <= prog.n /\ ProgramRaises
       \/ /\ prog.i <= prog.n => prog.i <= Len(scheduler)
          /\ prog' = IF prog.i > prog.n THEN Idle
                     ELSE IF task[scheduler[prog.i]].cb = prog.cb
                          THEN [prog EXCEPT !.at = "assign"]
                          ELSE [prog EXCEPT !.i = @ + 1]
          /\ UNCHANGED task
    /\ UNCHANGED <<scheduler, ticking, tick, ended, calls>>

Assign ==
    /\ prog.at = "assign" /\ tick.at = "idle"
    /\ \/ ProgramRaises /\ UNCHANGED ended
       \/ /\ prog.i <= Len(scheduler)
          /\ ended' = ended \ {scheduler[prog.i]}
          /\ task' = [task EXCEPT ![scheduler[prog.i]].pos = 0,
                                  ![scheduler[prog.i]].target = prog.target]
          /\ prog' = [prog EXCEPT !.at = "compare", !.i = @ + 1]
    /\ UNCHANGED <<scheduler, ticking, tick, calls>>

---------------------------------------------------------------------------
TimerCallback == TickBegin \/ Advance \/ TaskReturns \/ TickEnd
Program == Find \/ Filter \/ Store \/ Compare \/ Assign
Step == \/ TimerCallback \/ TaskCalls \/ ScheduledCallback \/ Stop \/ Begin
        \/ ProgramBeginsDelete \/ ProgramBeginsUpdate \/ Program

(* A callback deletes a task, or stops, while the tick goes through the    *)
(* list, or the list changes while the program's call does.                *)
Meddles ==
    /\ scheduler' # scheduler
    /\ \/ tick.at = "call" /\ Len(scheduler') < Len(scheduler)
       \/ prog.at # "idle" /\ prog'.at # "idle"

Noting(A) == A /\ meddled' = (meddled \/ Meddles)

Next == Noting(Step)

(* The hardware timer repeats, and a callback returns. *)
Spec == Init /\ [][Next]_vars /\ WF_vars(Noting(TimerCallback))

---------------------------------------------------------------------------
(* Between calls the list holds every task that was created and has not    *)
(* come to its end, once, and no other: a task leaves it because its       *)
(* callback returned no new time, or was deleted, or everything stopped,   *)
(* never because a neighbour was, and does not come back after that.  No   *)
(* loop runs past the end of the list.  All this until a call meddles with *)
(* the list another one is going through.                                  *)
TasksListed ==
    ~meddled =>
        /\ tick.at = "idle" /\ prog.at = "idle" =>
               ToSet(scheduler) = DOMAIN task \ ended /\ IsInjective(scheduler)
        /\ tick.at # "idle" => tick.s <= Len(scheduler)
        /\ prog.at \in {"find", "compare", "assign"} => prog.n <= Len(scheduler)

(* Between ticks no task is overdue, whatever the tasks before it did to   *)
(* the list, deletions excepted.                                           *)
OnTime ==
    tick.at = "idle" /\ ~meddled =>
        \A i \in ToSet(scheduler) : task[i].pos \in 0 .. task[i].target

(* A task that stays in the list is called again and again, while the      *)
(* timer runs.                                                             *)
Served ==
    \A i \in 1 .. MaxTasks :
        \/ []<>(tick.at = "call" /\ tick.item = i)
        \/ <>[](i \notin ToSet(scheduler))
        \/ <>[]~ticking

=============================================================================
