----------------------------- MODULE MpThread -----------------------------
(***************************************************************************)
(* Python threads on FreeRTOS tasks (micropython/esp32/mpthreadport.c and  *)
(* py/modthread.c): how a thread is created, runs, is suspended, resumed   *)
(* and notified, sends messages, ends and is cleaned up by the idle task,  *)
(* and what a garbage collection sees of it.                               *)
(*                                                                         *)
(* Each function of mpthreadport.c works on the thread list under          *)
(* thread_mutex, so each is one step; what _thread does around them, with  *)
(* and without the GIL, is one step per call.                              *)
(***************************************************************************)
EXTENDS Integers, Sequences, FiniteSets, SequencesExt

CONSTANTS
    Threads,        \* the thread nodes; a freed one may be used again
    Main,           \* MainTaskHandle
    QueueItems,     \* THREAD_QUEUE_MAX_ITEMS
    MaxCreates,     \* bound: threads created
    MaxStrings,     \* bound: copies of strings on the heap
    MaxDepth,       \* bound: Python frames on a stack
    All,            \* the thread id 0
    NoOne

ASSUME NodesAssumption ==
    Main \in Threads /\ {All, NoOne} \cap Threads = {} /\ IsFiniteSet(Threads)
ASSUME BoundsAssumption ==
    /\ QueueItems \in Nat \ {0} /\ MaxDepth \in Nat \ {0}
    /\ MaxCreates \in Nat /\ MaxStrings \in Nat

VARIABLES
    list,           \* thread: the linked list, its newest node first
    ready, allow_suspend, suspended, waiting, notifyed, deleted, \* the nodes' flags
    threadQueue,    \* how many messages wait in the nodes' queues
    curr_sp,        \* the depth of the frames a collection will look at
    pc,             \* where the thread's task is
    gil,            \* the thread that holds the GIL
    pending,        \* FreeRTOS: threads with a notification that waits
    value,          \* FreeRTOS: threads whose notification value is not 0
    depth,          \* the frames the thread has on its stack
    strings,        \* copies of strings on the heap
    creates,
    fate,           \* history: where a thread's youngest notification is
    leaked,         \* history: copies nothing points to any more
    freed           \* history: arguments and locals of threads that were collected

flags    == <<ready, allow_suspend, suspended, waiting, notifyed, deleted>>
messages == <<threadQueue, strings, leaked>>
notes    == <<pending, value, fate>>
roots    == <<curr_sp, depth, freed>>
vars == <<list, flags, messages, notes, roots, pc, gil, creates>>

Init ==
    /\ list = <<Main>> /\ ready = {Main} /\ gil = Main
    /\ allow_suspend = {} /\ suspended = {} /\ waiting = {}
    /\ notifyed = {} /\ deleted = {}
    /\ threadQueue = [t \in Threads |-> 0]
    /\ curr_sp = [t \in Threads |-> 0]
    /\ depth = [t \in Threads |-> 1]
    /\ pc = [t \in Threads |-> IF t = Main THEN "python" ELSE "none"]
    /\ pending = {} /\ value = {} /\ fate = [t \in Threads |-> "none"]
    /\ strings = 0 /\ leaked = 0 /\ creates = 0 /\ freed = {}

Listed == Range(list)
Runs(t) == t \notin suspended
Goto(t, l) == pc' = [pc EXCEPT ![t] = l]
At(t, l) == pc[t] = l /\ Runs(t)
Python(t) == At(t, "python") /\ gil = t

---------------------------------------------------------------------------
(* The life of a thread.                                                   *)

(* _thread.start_new_thread: the node is linked first, its task starts     *)
(* without the GIL.                                                        *)
Create(t, u) ==
    /\ Python(t) /\ pc[u] = "none" /\ creates < MaxCreates
    /\ creates' = creates + 1
    /\ list' = <<u>> \o list
    /\ Goto(u, "entry")
    /\ UNCHANGED <<flags, messages, notes, roots, gil>>

(* thread_entry takes the GIL, mp_thread_start marks the node. *)
Start(t) ==
    /\ At(t, "entry") /\ gil = NoOne
    /\ gil' = t
    /\ ready' = ready \cup {t}
    /\ curr_sp' = [curr_sp EXCEPT ![t] = depth[t]]
    /\ Goto(t, "python")
    /\ UNCHANGED <<list, allow_suspend, suspended, waiting, notifyed, deleted,
                   messages, notes, depth, freed, creates>>

(* The function returns or raises: thread_entry gives the GIL back, *)
Exit(t) ==
    /\ Python(t) /\ t # Main
    /\ gil' = NoOne
    /\ Goto(t, "finish")
    /\ UNCHANGED <<list, flags, messages, notes, roots, creates>>

(* Mutant: the queue is deleted with the strings still in it. *)
FinishKeepsStrings(t) ==
    /\ At(t, "finish")
    /\ threadQueue' = [threadQueue EXCEPT ![t] = 0]
    /\ strings' = strings
    /\ ready' = ready \ {t} /\ deleted' = deleted \cup {t}
    /\ Goto(t, "delete")
    /\ UNCHANGED <<list, allow_suspend, suspended, waiting, notifyed, notes, roots,
                   leaked, gil, creates>>

(* mp_thread_finish and mp_clean_thread empty and delete its queue, *)
Finish(t) ==
    /\ At(t, "finish")
    /\ threadQueue' = [threadQueue EXCEPT ![t] = 0]
    /\ strings' = strings - threadQueue[t]
    /\ ready' = ready \ {t} /\ deleted' = deleted \cup {t}
    /\ Goto(t, "delete")
    /\ UNCHANGED <<list, allow_suspend, suspended, waiting, notifyed, notes, roots,
                   leaked, gil, creates>>

(* freertos_entry deletes the task, *)
Delete(t) ==
    /\ At(t, "delete")
    /\ Goto(t, "terminated")
    /\ UNCHANGED <<list, flags, messages, notes, roots, gil, creates>>

(* Mutant: the start pointer moves although the node is not the first. *)
CleanUpAllBefore(t) ==
    /\ pc[t] = "terminated"
    /\ \E i \in 1..Len(list) : list[i] = t /\ list' = SubSeq(list, i + 1, Len(list))
    /\ allow_suspend' = allow_suspend \ {t} /\ notifyed' = notifyed \ {t}
    /\ deleted' = deleted \ {t}
    /\ pending' = pending \ {t} /\ value' = value \ {t}
    /\ fate' = [fate EXCEPT ![t] = "none"]
    /\ curr_sp' = [curr_sp EXCEPT ![t] = 0] /\ depth' = [depth EXCEPT ![t] = 1]
    /\ freed' = {f \in freed : f[1] # t}
    /\ Goto(t, "none")
    /\ UNCHANGED <<ready, suspended, waiting, messages, gil, creates>>

(* Mutant: a node is unlinked only behind another one. *)
CleanUpBehind(t) ==
    /\ pc[t] = "terminated" /\ list[1] # t
    /\ \E i \in 1..Len(list) : list[i] = t /\ list' = RemoveAt(list, i)
    /\ allow_suspend' = allow_suspend \ {t} /\ notifyed' = notifyed \ {t}
    /\ deleted' = deleted \ {t}
    /\ pending' = pending \ {t} /\ value' = value \ {t}
    /\ fate' = [fate EXCEPT ![t] = "none"]
    /\ curr_sp' = [curr_sp EXCEPT ![t] = 0] /\ depth' = [depth EXCEPT ![t] = 1]
    /\ freed' = {f \in freed : f[1] # t}
    /\ Goto(t, "none")
    /\ UNCHANGED <<ready, suspended, waiting, messages, gil, creates>>

(* and the idle task, in vPortCleanUpTCB, unlinks and frees the node. *)
CleanUp(t) ==
    /\ pc[t] = "terminated"
    /\ \E i \in 1..Len(list) : list[i] = t /\ list' = RemoveAt(list, i)
    /\ allow_suspend' = allow_suspend \ {t} /\ notifyed' = notifyed \ {t}
    /\ deleted' = deleted \ {t}
    /\ pending' = pending \ {t} /\ value' = value \ {t}
    /\ fate' = [fate EXCEPT ![t] = "none"]
    /\ curr_sp' = [curr_sp EXCEPT ![t] = 0] /\ depth' = [depth EXCEPT ![t] = 1]
    /\ freed' = {f \in freed : f[1] # t}
    /\ Goto(t, "none")
    /\ UNCHANGED <<ready, suspended, waiting, messages, gil, creates>>

---------------------------------------------------------------------------
(* The GIL.                                                                *)

(* Both the machine's loop and a call that blocks let the others run.      *)
BlockingCall(t) ==
    /\ Python(t)
    /\ gil' = NoOne
    /\ Goto(t, "gil")
    /\ UNCHANGED <<list, flags, messages, notes, roots, creates>>

GilEnter(t) ==
    /\ At(t, "gil") \/ At(t, "sleep")
    /\ gil = NoOne
    /\ gil' = t
    /\ Goto(t, "python")
    /\ UNCHANGED <<list, flags, messages, notes, roots, creates>>

(* time.sleep and the drivers that wait with mp_hal_delay_ms, *)
Sleep(t) ==
    /\ Python(t)
    /\ gil' = NoOne
    /\ Goto(t, "sleep")
    /\ UNCHANGED <<list, flags, messages, notes, roots, creates>>

---------------------------------------------------------------------------
(* Suspending and resuming.                                                *)

AllowSuspend(t, allow) ==
    /\ Python(t) /\ t # Main
    /\ allow_suspend' = IF allow THEN allow_suspend \cup {t} ELSE allow_suspend \ {t}
    /\ UNCHANGED <<list, ready, suspended, waiting, notifyed, deleted, messages, notes,
                   roots, pc, gil, creates>>

(* Mutant: also a thread that waits. *)
SuspendWaiting(t, u) ==
    /\ Python(t) /\ u # t /\ u \in Listed
    /\ u \in allow_suspend /\ u \notin suspended
    /\ suspended' = suspended \cup {u}
    /\ pc' = IF pc[u] = "terminated" THEN [pc EXCEPT ![u] = "undeleted"] ELSE pc
    /\ UNCHANGED <<list, ready, allow_suspend, waiting, notifyed, deleted, messages,
                   notes, roots, gil, creates>>

(* mp_thread_suspend does not ask whether the task is deleted: vTaskSuspend *)
(* takes a deleted one from the list the idle task cleans up.               *)
Suspend(t, u) ==
    /\ Python(t) /\ u # t /\ u \in Listed
    /\ u \in allow_suspend /\ u \notin suspended /\ u \notin waiting
    /\ suspended' = suspended \cup {u}
    /\ pc' = IF pc[u] = "terminated" THEN [pc EXCEPT ![u] = "undeleted"] ELSE pc
    /\ UNCHANGED <<list, ready, allow_suspend, waiting, notifyed, deleted, messages,
                   notes, roots, gil, creates>>

Resume(t, u) ==
    /\ Python(t) /\ u # t /\ u \in Listed
    /\ u \in allow_suspend /\ u \in suspended /\ u \notin waiting
    /\ suspended' = suspended \ {u}
    /\ UNCHANGED <<list, ready, allow_suspend, waiting, notifyed, deleted, messages,
                   notes, roots, pc, gil, creates>>

---------------------------------------------------------------------------
(* Notifications.                                                          *)

(* mp_thread_notify: one thread, or all others; an older one is overwritten. *)
Notify(t, to) ==
    LET told == {u \in Listed \ {t} : to \in {u, All}} IN
    /\ Python(t)
    /\ pending' = pending \cup told /\ value' = value \cup told
    /\ fate' = [u \in Threads |-> IF u \in told THEN "sent" ELSE fate[u]]
    /\ notifyed' = notifyed \cup told
    /\ UNCHANGED <<list, ready, allow_suspend, suspended, waiting, deleted, messages,
                   roots, pc, gil, creates>>

Becomes(t, from, to) ==
    fate' = IF fate[t] \in from THEN [fate EXCEPT ![t] = to] ELSE fate

(* Mutant: what ends the sleep is thrown away. *)
PollClears(t) ==
    /\ At(t, "sleep") /\ t \in value
    /\ pending' = pending \ {t} /\ value' = value \ {t}
    /\ Becomes(t, {"sent"}, "polled")
    /\ Goto(t, "gil")
    /\ UNCHANGED <<list, flags, messages, roots, gil, creates>>

(* mp_thread_getnotify(1), which a sleep calls every 50 rounds and which   *)
(* ends it: no notification waits any more, its value stays.  (One that    *)
(* finds no value changes nothing.)                                        *)
Poll(t) ==
    /\ At(t, "sleep") /\ t \in value
    /\ pending' = pending \ {t}
    /\ Becomes(t, {"sent"}, "polled")
    /\ Goto(t, "gil")
    /\ UNCHANGED <<list, flags, messages, value, roots, gil, creates>>

(* _thread.getnotification: the value, whether or not it was polled. *)
GetNotify(t) ==
    /\ Python(t)
    /\ pending' = pending \ {t} /\ value' = value \ {t}
    /\ Becomes(t, {"sent", "polled"}, "none")
    /\ notifyed' = notifyed \ {t}
    /\ UNCHANGED <<list, ready, allow_suspend, suspended, waiting, deleted, messages,
                   roots, pc, gil, creates>>

(* _thread.wait: mp_thread_setblocked, and the GIL is released; *)
Wait(t) ==
    /\ Python(t)
    /\ waiting' = waiting \cup {t}
    /\ gil' = NoOne
    /\ Goto(t, "wait")
    /\ UNCHANGED <<list, ready, allow_suspend, suspended, notifyed, deleted, messages,
                   notes, roots, creates>>

(* the first xTaskNotifyWait takes the value, *)
Woken(t) ==
    /\ At(t, "wait") /\ t \in pending
    /\ pending' = pending \ {t}
    /\ Becomes(t, {"sent"}, "taken")
    /\ Goto(t, "clear")
    /\ UNCHANGED <<list, flags, messages, value, roots, gil, creates>>

(* or its time is over, whatever value a poll has left; *)
TimedOut(t) ==
    /\ At(t, "wait") /\ t \notin pending
    /\ Goto(t, "setnotblocked")
    /\ UNCHANGED <<list, flags, messages, notes, roots, gil, creates>>

(* the second one throws away whatever has come since, *)
Clear(t) ==
    /\ At(t, "clear")
    /\ pending' = pending \ {t} /\ value' = value \ {t}
    /\ Becomes(t, {"sent"}, "none")
    /\ Goto(t, "resetPending")
    /\ UNCHANGED <<list, flags, messages, roots, gil, creates>>

ResetPending(t) ==
    /\ At(t, "resetPending")
    /\ notifyed' = notifyed \ {t}
    /\ Goto(t, "setnotblocked")
    /\ UNCHANGED <<list, ready, allow_suspend, suspended, waiting, deleted, messages,
                   notes, roots, gil, creates>>

(* and after mp_thread_setnotblocked the thread wants the GIL again, to    *)
(* return the value.                                                       *)
SetNotBlocked(t) ==
    /\ At(t, "setnotblocked")
    /\ waiting' = waiting \ {t}
    /\ Becomes(t, {"taken"}, "none")
    /\ Goto(t, "gil")
    /\ UNCHANGED <<list, ready, allow_suspend, suspended, notifyed, deleted, messages,
                   pending, value, roots, gil, creates>>

---------------------------------------------------------------------------
(* Messages.                                                               *)

(* mp_thread_semdmsg walks the list as far as the node it looks for; a     *)
(* broadcast stops at the first node whose queue is deleted.               *)
Recipients(t, to) ==
    {list[i] : i \in {j \in 1..Len(list) :
        /\ list[j] # t /\ to \in {list[j], All}
        /\ list[j] \notin deleted
        /\ to = All => \A k \in 1..j : list[k] # t => list[k] \notin deleted}}

(* Mutant: one message more than the queue has room for. *)
RoomForOneMore == {u \in Threads : threadQueue[u] <= QueueItems}

Room == {u \in Threads : threadQueue[u] < QueueItems}

(* Every recipient gets its own copy of a string; a full queue refuses the *)
(* message and the copy is not freed.  (An integer is a string without a   *)
(* copy.)                                                                  *)
Send(t, to) ==
    LET copies == Recipients(t, to) IN
    /\ Python(t) /\ strings + Cardinality(copies) <= MaxStrings
    /\ threadQueue' = [u \in Threads |-> IF u \in copies \cap Room THEN threadQueue[u] + 1
                                         ELSE threadQueue[u]]
    /\ strings' = strings + Cardinality(copies)
    /\ leaked' = leaked + Cardinality(copies \ Room)
    /\ UNCHANGED <<list, flags, notes, roots, pc, gil, creates>>

(* _thread.getmsg: the Python string is a copy, the buffer is freed. *)
GetMsg(t) ==
    /\ Python(t) /\ threadQueue[t] > 0
    /\ threadQueue' = [threadQueue EXCEPT ![t] = @ - 1]
    /\ strings' = strings - 1
    /\ UNCHANGED <<list, flags, notes, roots, leaked, pc, gil, creates>>

---------------------------------------------------------------------------
LifeStep(t) == Start(t) \/ Exit(t) \/ Finish(t) \/ Delete(t) \/ CleanUp(t)
               \/ \E u \in Threads : Create(t, u)
GilStep(t) == BlockingCall(t) \/ GilEnter(t) \/ Sleep(t) \/ Poll(t)
SuspendStep(t) == (\E allow \in BOOLEAN : AllowSuspend(t, allow))
                  \/ \E u \in Threads : Suspend(t, u) \/ Resume(t, u)
AfterWait(t) == Woken(t) \/ Clear(t) \/ ResetPending(t) \/ SetNotBlocked(t)
NotifyStep(t) == (\E to \in Threads \cup {All} : Notify(t, to))
                 \/ GetNotify(t) \/ Wait(t) \/ AfterWait(t) \/ TimedOut(t)
MessageStep(t) == (\E to \in Threads \cup {All} : Send(t, to)) \/ GetMsg(t)

Next == \E t \in Threads :
    LifeStep(t) \/ GilStep(t) \/ SuspendStep(t) \/ NotifyStep(t) \/ MessageStep(t)

Spec == Init /\ [][Next]_vars

(* The tasks have one priority and the idle task runs whenever they all    *)
(* block: a task that need not wait for the GIL goes on.                   *)
Fairness == \A t \in Threads :
    WF_vars(AfterWait(t)) /\ WF_vars(Finish(t) \/ Delete(t)) /\ WF_vars(CleanUp(t))

FairSpec == Spec /\ Fairness

---------------------------------------------------------------------------
(* Garbage collection.                                                     *)

(* The machine's loop records the stack pointer before it switches,  *)
(* a call that blocks does not.                                            *)
SwitchThreads(t) ==
    /\ Python(t)
    /\ gil' = NoOne
    /\ curr_sp' = [curr_sp EXCEPT ![t] = depth[t]]
    /\ Goto(t, "gil")
    /\ UNCHANGED <<list, flags, messages, notes, depth, freed, creates>>

Call(t) ==
    /\ Python(t) /\ depth[t] < MaxDepth
    /\ depth' = [depth EXCEPT ![t] = @ + 1]
    /\ UNCHANGED <<list, flags, messages, notes, curr_sp, freed, pc, gil, creates>>

Return(t) ==
    /\ Python(t) /\ depth[t] > 1
    /\ depth' = [depth EXCEPT ![t] = @ - 1]
    /\ UNCHANGED <<list, flags, messages, notes, curr_sp, freed, pc, gil, creates>>

(* gc_collect marks the stack of the thread it runs in, and with           *)
(* mp_thread_gc_others the arguments of the threads that are ready and     *)
(* their stacks from the recorded pointer on.  What only the arguments of  *)
(* another thread point to, or only a younger frame of it, is freed.       *)
Unmarked(t) ==
    {<<u, "args">> : u \in {v \in Listed : pc[v] = "entry"}}
    \cup {<<u, "locals">> : u \in {v \in ready \ {t} : depth[v] > curr_sp[v]}}

Collect(t) ==
    /\ Python(t)
    /\ freed' = freed \cup Unmarked(t)
    /\ UNCHANGED <<list, flags, messages, notes, curr_sp, depth, pc, gil, creates>>

GcStep(t) == SwitchThreads(t) \/ Call(t) \/ Return(t) \/ Collect(t)

CollectingSpec ==
    Init /\ [][Next \/ \E t \in Threads : GcStep(t)]_vars

---------------------------------------------------------------------------
TypeOK ==
    /\ Listed \subseteq Threads
    /\ \A f \in {ready, allow_suspend, suspended, waiting, notifyed, deleted} :
         f \subseteq Listed
    /\ threadQueue \in [Threads -> 0..QueueItems]
    /\ curr_sp \in [Threads -> 0..MaxDepth] /\ depth \in [Threads -> 1..MaxDepth]
    /\ pc \in [Threads -> {"none", "entry", "python", "gil", "wait", "clear",
                           "resetPending", "setnotblocked", "sleep", "finish",
                           "delete", "terminated", "undeleted"}]
    /\ gil \in Threads \cup {NoOne}
    /\ pending \subseteq value /\ value \subseteq Listed
    /\ fate \in [Threads -> {"none", "sent", "polled", "taken"}]
    /\ strings \in 0..MaxStrings /\ leaked \in 0..MaxStrings
    /\ creates \in 0..MaxCreates /\ freed \subseteq Listed \X {"args", "locals"}

(* The list is what the tasks are: each node that is not free is linked    *)
(* once, whatever order threads are created, end and are cleaned up in.    *)
ListIntact ==
    /\ \A i, j \in 1..Len(list) : list[i] = list[j] => i = j
    /\ Listed = {t \in Threads : pc[t] # "none"}

(* A suspended thread does not hold the GIL, and can be resumed: it still  *)
(* allows it, and is not between the two halves of a wait, where           *)
(* mp_thread_resume would refuse.  (Locks that are taken without the GIL,  *)
(* sntp_mutex in a sleep for one, are another matter.)                     *)
SuspendedParked ==
    \A t \in suspended : gil # t /\ t \in allow_suspend /\ t \notin waiting

(* The youngest notification of a thread can be read with getnotification, *)
(* and wakes a _thread.wait, until it is read, or thrown away between the  *)
(* two reads of a wait; but once it has ended a sleep, which only looks at *)
(* it, it wakes no wait any more and can still be read.  What a wait has   *)
(* taken it returns.  The flag notifyed, of which isnotified returns the   *)
(* opposite, is not set without a value to be read.                        *)
NotificationKept == \A t \in Threads :
    /\ fate[t] = "sent" => t \in pending \cap value
    /\ fate[t] = "polled" => t \in value
    /\ fate[t] = "taken" => t \in waiting
    /\ t \in notifyed /\ pc[t] # "resetPending" => t \in value

(* Every string copied for a message is in exactly one queue, whoever ends *)
(* with messages unread; only a full queue loses the copy.                 *)
Queued(q) == {m \in Threads \X (1 .. QueueItems) : m[2] <= q[m[1]]}
StringsOwned ==
    /\ \A t \in deleted : threadQueue[t] = 0
    /\ strings = leaked + Cardinality(Queued(threadQueue))

(* A thread that waits is woken by a notification. *)
NotifiedWakes == \A t \in Threads :
    t \in waiting \cap pending ~> t \notin waiting

(* A thread that has ended is unlinked and freed, unless it is suspended   *)
(* on the way: then for ever, if the idle task had not come yet.  Claimed  *)
(* while the idle task runs, that is, while every thread blocks at times.  *)
EndedIsCleaned == \A t \in Threads :
    t \in deleted ~> t \notin deleted \/ t \in suspended \/ pc[t] = "undeleted"

(* "Mark the pointers on thread stack": what a thread's locals point to is  *)
(* not freed by a collection that another thread starts.                    *)
LocalsKept == \A t \in Threads : <<t, "locals">> \notin freed

=============================================================================
