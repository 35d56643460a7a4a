--------------------------- MODULE MpThreadProofs ---------------------------
(***************************************************************************)
(* Proofs about Python threads, for any number of threads and nodes: the   *)
(* thread list, suspension, notifications and the copies of messages.      *)
(***************************************************************************)
EXTENDS MpThread, SequenceTheorems, FiniteSetTheorems, TLAPS

(* The part of the types the proofs rest on. *)
Typed ==
    /\ list \in Seq(Threads)
    /\ DOMAIN pc = Threads
    /\ DOMAIN fate = Threads

(* A thread waits from mp_thread_setblocked to mp_thread_setnotblocked. *)
Blocked ==
    \A t \in Threads :
        t \in waiting <=> pc[t] \in {"wait", "clear", "resetPending", "setnotblocked"}

(* A task the idle task will delete is not suspended. *)
TerminatedRuns == \A t \in Threads : pc[t] = "terminated" => t \notin suspended

(* Only a thread in Python holds the GIL. *)
GilInPython == gil \in Threads => pc[gil] = "python"

SuspendedNodes == suspended \subseteq Threads

(* What waits for a thread has been sent to it and not been read; so a     *)
(* wait that was woken is not about to throw away one that was polled.     *)
Known(t) ==
    /\ t \in pending => fate[t] = "sent"
    /\ pc[t] = "clear" => fate[t] # "polled"
NotesKnown == pending \subseteq Threads /\ \A t \in Threads : Known(t)

(* The inductive invariant. *)
IInv ==
    /\ Typed /\ ListIntact /\ Blocked /\ TerminatedRuns /\ GilInPython
    /\ SuspendedNodes /\ SuspendedParked /\ NotificationKept /\ NotesKnown

(* A step is one of the actions. *)
Step ==
    \/ \E t, u \in Threads : Create(t, u)
    \/ \E t \in Threads : Start(t)
    \/ \E t \in Threads : Exit(t)
    \/ \E t \in Threads : Finish(t)
    \/ \E t \in Threads : Delete(t)
    \/ \E t \in Threads : CleanUp(t)
    \/ \E t \in Threads : BlockingCall(t)
    \/ \E t \in Threads : GilEnter(t)
    \/ \E t \in Threads : Sleep(t)
    \/ \E t \in Threads : Poll(t)
    \/ \E t \in Threads : \E allow \in BOOLEAN : AllowSuspend(t, allow)
    \/ \E t, u \in Threads : Suspend(t, u)
    \/ \E t, u \in Threads : Resume(t, u)
    \/ \E t \in Threads : \E to \in Threads \cup {All} : Notify(t, to)
    \/ \E t \in Threads : GetNotify(t)
    \/ \E t \in Threads : Wait(t)
    \/ \E t \in Threads : Woken(t)
    \/ \E t \in Threads : TimedOut(t)
    \/ \E t \in Threads : Clear(t)
    \/ \E t \in Threads : ResetPending(t)
    \/ \E t \in Threads : SetNotBlocked(t)
    \/ \E t \in Threads : \E to \in Threads \cup {All} : Send(t, to)
    \/ \E t \in Threads : GetMsg(t)
    \/ UNCHANGED vars

LEMMA StepsOfNext == ASSUME [Next]_vars PROVE Step
  BY DEF Next, LifeStep, GilStep, SuspendStep, NotifyStep, MessageStep, AfterWait, Step

---------------------------------------------------------------------------
(* The list.                                                               *)

(* A node linked in front keeps the others, *)
LEMMA LinkInFront ==
    ASSUME NEW l \in Seq(Threads), NEW u \in Threads,
           \A i \in 1..Len(l) : l[i] # u,
           \A i, j \in 1..Len(l) : l[i] = l[j] => i = j
    PROVE  LET n == <<u>> \o l IN
           /\ n \in Seq(Threads)
           /\ \A i, j \in 1..Len(n) : n[i] = n[j] => i = j
           /\ Range(n) = Range(l) \cup {u}
  <1> DEFINE n == <<u>> \o l
  <1>1. n \in Seq(Threads) /\ Len(n) = Len(l) + 1 /\ Len(l) \in Nat
    OBVIOUS
  <1>2. n[1] = u /\ \A i \in 1..Len(l) : n[i + 1] = l[i]
    OBVIOUS
  <1> HIDE DEF n
  <1>3. \A i \in 1..Len(n) : i = 1 \/ (i - 1 \in 1..Len(l) /\ n[i] = l[i - 1])
    <2>1. ASSUME NEW i \in 1..Len(n), i # 1
          PROVE  i - 1 \in 1..Len(l) /\ n[i] = l[i - 1]
      <3>1. i - 1 \in 1..Len(l) /\ (i - 1) + 1 = i
        BY <1>1, <2>1
      <3> QED BY <1>2, <3>1
    <2> QED BY <2>1
  <1>4. \A i, j \in 1..Len(n) : n[i] = n[j] => i = j
    <2>1. ASSUME NEW i \in 1..Len(n), NEW j \in 1..Len(n), n[i] = n[j] PROVE i = j
      <3>1. CASE i = 1 /\ j # 1
        BY <1>2, <1>3, <2>1, <3>1
      <3>2. CASE i # 1 /\ j = 1
        BY <1>2, <1>3, <2>1, <3>2
      <3>3. CASE i # 1 /\ j # 1
        <4>1. i - 1 = j - 1
          BY <1>3, <2>1, <3>3
        <4> QED BY <1>1, <4>1
      <3> QED BY <3>1, <3>2, <3>3
    <2> QED BY <2>1
  <1>5. \A x : x \in Range(n) <=> x = u \/ x \in Range(l)
    <2>1. \A x : x \in Range(n) <=> \E i \in 1..Len(n) : x = n[i]
      BY <1>1, LenProperties DEF Range
    <2>2. \A x : x \in Range(l) <=> \E i \in 1..Len(l) : x = l[i]
      BY DEF Range
    <2>3. ASSUME NEW x, x \in Range(n) PROVE x = u \/ x \in Range(l)
      BY <1>2, <1>3, <2>1, <2>2, <2>3
    <2>4. u \in Range(n)
      <3>1. 1 \in 1..Len(n)
        BY <1>1
      <3> QED BY <1>2, <2>1, <3>1
    <2>5. ASSUME NEW x, x \in Range(l) PROVE x \in Range(n)
      <3>1. PICK i \in 1..Len(l) : x = l[i]
        BY <2>2, <2>5
      <3>2. i + 1 \in 1..Len(n) /\ n[i + 1] = x
        BY <1>1, <1>2, <3>1
      <3> QED BY <2>1, <3>2
    <2> QED BY <2>3, <2>4, <2>5
  <1> QED
    BY <1>1, <1>4, <1>5 DEF n

(* and so does one that is unlinked, wherever it stands. *)
LEMMA Unlink ==
    ASSUME NEW l \in Seq(Threads), NEW k \in 1..Len(l),
           \A i, j \in 1..Len(l) : l[i] = l[j] => i = j
    PROVE  LET n == RemoveAt(l, k) IN
           /\ n \in Seq(Threads)
           /\ \A i, j \in 1..Len(n) : n[i] = n[j] => i = j
           /\ Range(n) = Range(l) \ {l[k]}
  <1> DEFINE a == SubSeq(l, 1, k - 1)
             b == SubSeq(l, k + 1, Len(l))
             n == a \o b
  <1>1. Len(l) \in Nat /\ k \in Nat /\ k >= 1 /\ k <= Len(l)
    OBVIOUS
  <1>2. a \in Seq(Threads) /\ Len(a) = k - 1 /\ \A i \in 1..(k - 1) : a[i] = l[i]
    <2>1. \A i \in 1..(k - 1) : l[i] \in Threads
      BY <1>1
    <2> QED BY <1>1, <2>1
  <1>3. b \in Seq(Threads) /\ Len(b) = Len(l) - k
        /\ \A i \in 1..(Len(l) - k) : b[i] = l[i + k]
    <2>1. \A i \in (k + 1)..Len(l) : l[i] \in Threads
      BY <1>1
    <2> QED BY <1>1, <2>1
  <1> HIDE DEF a, b
  <1>4. n \in Seq(Threads) /\ Len(n) = Len(l) - 1
        /\ (\A i \in 1..(k - 1) : n[i] = a[i])
        /\ (\A i \in k..(Len(l) - 1) : n[i] = b[i - (k - 1)])
    <2>1. n \in Seq(Threads) /\ Len(n) = Len(a) + Len(b)
          /\ \A i \in 1..(Len(a) + Len(b)) :
               n[i] = IF i <= Len(a) THEN a[i] ELSE b[i - Len(a)]
      BY <1>2, <1>3, ConcatProperties
    <2> HIDE DEF n
    <2>2. Len(a) + Len(b) = Len(l) - 1
      BY <1>1, <1>2, <1>3
    <2>3. \A i \in 1..(k - 1) : i \in 1..(Len(l) - 1) /\ i <= k - 1
      BY <1>1
    <2>4. \A i \in k..(Len(l) - 1) : i \in 1..(Len(l) - 1) /\ ~(i <= k - 1)
      BY <1>1
    <2> QED BY <1>2, <2>1, <2>2, <2>3, <2>4
  <1> HIDE DEF n
  <1> DEFINE from(i) == IF i < k THEN i ELSE i + 1
  <1>5. \A i \in 1..Len(n) : from(i) \in 1..Len(l) /\ from(i) # k /\ n[i] = l[from(i)]
    <2>1. ASSUME NEW i \in 1..Len(n), i < k
          PROVE  i \in 1..Len(l) /\ i # k /\ n[i] = l[i]
      <3>1. i \in 1..(k - 1) /\ i \in 1..Len(l)
        BY <1>1, <1>4, <2>1
      <3> QED BY <1>2, <1>4, <2>1, <3>1
    <2>2. ASSUME NEW i \in 1..Len(n), ~(i < k)
          PROVE  i + 1 \in 1..Len(l) /\ i + 1 # k /\ n[i] = l[i + 1]
      <3>1. i \in k..(Len(l) - 1) /\ i + 1 \in 1..Len(l) /\ i + 1 # k
            /\ i - (k - 1) \in 1..(Len(l) - k) /\ (i - (k - 1)) + k = i + 1
        BY <1>1, <1>4, <2>2
      <3> QED BY <1>3, <1>4, <3>1
    <2> QED BY <2>1, <2>2
  <1>6. \A i, j \in 1..Len(n) : n[i] = n[j] => i = j
    <2>1. ASSUME NEW i \in 1..Len(n), NEW j \in 1..Len(n), n[i] = n[j] PROVE i = j
      <3>1. from(i) = from(j)
        BY <1>5, <2>1
      <3> QED BY <1>1, <1>4, <3>1
    <2> QED BY <2>1
  <1>7. \A x : x \in Range(n) <=> x \in Range(l) /\ x # l[k]
    <2>1. \A x : x \in Range(n) <=> \E i \in 1..Len(n) : x = n[i]
      BY <1>4, LenProperties DEF Range
    <2>2. \A x : x \in Range(l) <=> \E i \in 1..Len(l) : x = l[i]
      BY DEF Range
    <2>3. ASSUME NEW x, x \in Range(n) PROVE x \in Range(l) /\ x # l[k]
      <3>1. PICK i \in 1..Len(n) : x = n[i]
        BY <2>1, <2>3
      <3>2. from(i) \in 1..Len(l) /\ from(i) # k /\ x = l[from(i)]
        BY <1>5, <3>1
      <3> QED BY <2>2, <3>2
    <2>4. ASSUME NEW x, x \in Range(l), x # l[k] PROVE x \in Range(n)
      <3>1. PICK i \in 1..Len(l) : x = l[i]
        BY <2>2, <2>4
      <3>2. CASE i < k
        <4>1. i \in 1..Len(n) /\ from(i) = i
          BY <1>1, <1>4, <3>2
        <4> QED BY <1>5, <2>1, <3>1, <4>1
      <3>3. CASE i > k
        <4>1. i - 1 \in 1..Len(n) /\ from(i - 1) = i
          BY <1>1, <1>4, <3>3
        <4> QED BY <1>5, <2>1, <3>1, <4>1
      <3> QED BY <1>1, <2>4, <3>1, <3>2, <3>3
    <2> QED BY <2>3, <2>4
  <1> QED
    BY <1>4, <1>6, <1>7 DEF n, a, b, RemoveAt

LEMMA ListStep ==
    ASSUME IInv, Step
    PROVE  Typed' /\ ListIntact'
  <1>0. Typed /\ ListIntact
    BY DEF IInv
  <1>a. \A i, j \in 1..Len(list) : list[i] = list[j] => i = j
    BY <1>0 DEF ListIntact
  <1>1. CASE \E t, u \in Threads : Create(t, u)
    <2>1. PICK t \in Threads, u \in Threads : Create(t, u) BY <1>1
    <2>2. u \notin Listed
      BY <1>0, <2>1 DEF ListIntact, Create
    <2>3. \A i \in 1..Len(list) : list[i] # u
      BY <1>0, <2>2 DEF Listed, Range, Typed
    <2>4. /\ list' \in Seq(Threads)
          /\ \A i, j \in 1..Len(list') : list'[i] = list'[j] => i = j
          /\ Range(list') = Range(list) \cup {u}
      BY <1>0, <1>a, <2>1, <2>3, LinkInFront DEF Create, Typed
    <2>5. pc' = [pc EXCEPT ![u] = "entry"] /\ fate' = fate
      BY <2>1 DEF Create, Goto, notes
    <2>6. Listed' = {v \in Threads : pc'[v] # "none"}
      BY <1>0, <2>4, <2>5 DEF Listed, ListIntact, Typed
    <2> QED BY <1>0, <2>4, <2>5, <2>6 DEF Typed, ListIntact
  <1>2. CASE \E t \in Threads : CleanUp(t)
    <2>1. PICK t \in Threads : CleanUp(t) BY <1>2
    <2>2. PICK k \in 1..Len(list) : list[k] = t /\ list' = RemoveAt(list, k)
      BY <2>1 DEF CleanUp
    <2>3. /\ list' \in Seq(Threads)
          /\ \A i, j \in 1..Len(list') : list'[i] = list'[j] => i = j
          /\ Range(list') = Range(list) \ {t}
      BY <1>0, <1>a, <2>2, Unlink DEF Typed
    <2>4. pc' = [pc EXCEPT ![t] = "none"] /\ fate' = [fate EXCEPT ![t] = "none"]
      BY <2>1 DEF CleanUp, Goto
    <2>5. Listed' = {v \in Threads : pc'[v] # "none"}
      BY <1>0, <2>3, <2>4 DEF Listed, ListIntact, Typed
    <2> QED BY <1>0, <2>3, <2>4, <2>5 DEF Typed, ListIntact
  <1>3. ASSUME list' = list, DOMAIN pc' = Threads, DOMAIN fate' = Threads,
               \A t \in Threads : pc'[t] = "none" <=> pc[t] = "none"
        PROVE  Typed' /\ ListIntact'
    BY <1>0, <1>3 DEF Typed, ListIntact, Listed
  <1>4. ASSUME list' = list, DOMAIN fate' = Threads, NEW t \in Threads, NEW l,
               pc[t] # "none", l # "none", Goto(t, l)
        PROVE  Typed' /\ ListIntact'
    BY <1>0, <1>3, <1>4 DEF Goto, Typed
  <1>5. ASSUME list' = list, DOMAIN fate' = Threads, pc' = pc
        PROVE  Typed' /\ ListIntact'
    BY <1>0, <1>3, <1>5 DEF Typed
  <1>6. DOMAIN fate = Threads
    BY <1>0 DEF Typed
  <1>7. CASE \E t \in Threads : Start(t) \/ Exit(t) \/ Finish(t) \/ Delete(t)
               \/ BlockingCall(t) \/ GilEnter(t) \/ Sleep(t) \/ Wait(t) \/ TimedOut(t)
               \/ ResetPending(t)
    BY <1>4, <1>6, <1>7 DEF Start, Exit, Finish, Delete, BlockingCall, GilEnter, Sleep, Wait,
       TimedOut, ResetPending, Python, At, notes
  <1>8. CASE \E t \in Threads : Poll(t) \/ Woken(t) \/ Clear(t) \/ SetNotBlocked(t)
    <2>1. PICK t \in Threads : Poll(t) \/ Woken(t) \/ Clear(t) \/ SetNotBlocked(t) BY <1>8
    <2>2. DOMAIN fate' = Threads
      BY <1>6, <2>1 DEF Poll, Woken, Clear, SetNotBlocked, Becomes
    <2> QED BY <1>4, <2>1, <2>2 DEF Poll, Woken, Clear, SetNotBlocked, At
  <1>9. CASE \E t, u \in Threads : Suspend(t, u)
    <2>1. PICK t \in Threads, u \in Threads : Suspend(t, u) BY <1>9
    <2>2. CASE pc[u] = "terminated"
      <3>1. Goto(u, "undeleted") /\ list' = list /\ fate' = fate
        BY <2>1, <2>2 DEF Suspend, Goto, notes
      <3> QED BY <1>4, <1>6, <2>2, <3>1
    <2>3. CASE pc[u] # "terminated"
      BY <1>5, <1>6, <2>1, <2>3 DEF Suspend, notes
    <2> QED BY <2>2, <2>3
  <1>10. CASE \E t \in Threads : \E to \in Threads \cup {All} : Notify(t, to)
    BY <1>5, <1>10 DEF Notify
  <1>11. CASE \E t \in Threads : GetNotify(t)
    <2>1. PICK t \in Threads : GetNotify(t) BY <1>11
    <2>2. DOMAIN fate' = Threads
      BY <1>6, <2>1 DEF GetNotify, Becomes
    <2> QED BY <1>5, <2>1, <2>2 DEF GetNotify
  <1>12. CASE \/ \E t \in Threads : \E allow \in BOOLEAN : AllowSuspend(t, allow)
              \/ \E t, u \in Threads : Resume(t, u)
              \/ \E t \in Threads : \E to \in Threads \cup {All} : Send(t, to)
              \/ \E t \in Threads : GetMsg(t)
              \/ UNCHANGED vars
    <2>1. list' = list /\ pc' = pc /\ fate' = fate
      BY <1>12 DEF AllowSuspend, Resume, Send, GetMsg, vars, notes
    <2> QED BY <1>5, <1>6, <2>1
  <1> QED
    BY <1>1, <1>2, <1>7, <1>8, <1>9, <1>10, <1>11, <1>12 DEF Step

---------------------------------------------------------------------------
(* Waits and suspensions.                                                  *)

(* The control points are the tasks' own: a step moves one thread, and no  *)
(* other.                                                                  *)
LEMMA Moves ==
    ASSUME Typed, NEW t \in Threads, NEW l, Goto(t, l)
    PROVE  pc'[t] = l /\ \A u \in Threads : u # t => pc'[u] = pc[u]
  BY DEF Typed, Goto

Waits == {"wait", "clear", "resetPending", "setnotblocked"}

LEMMA BlockedStep ==
    ASSUME IInv, Step
    PROVE  Blocked'
  <1>0. Typed /\ Blocked
    BY DEF IInv
  <1>1. ASSUME waiting' = waiting, NEW t \in Threads, NEW l, Goto(t, l),
               l \in Waits <=> pc[t] \in Waits
        PROVE  Blocked'
    BY <1>0, <1>1, Moves DEF Blocked, Waits
  <1>2. ASSUME waiting' = waiting, pc' = pc PROVE Blocked'
    BY <1>0, <1>2 DEF Blocked
  <1>3. CASE \E t \in Threads : Wait(t)
    <2>1. PICK t \in Threads : Wait(t) BY <1>3
    <2>2. Goto(t, "wait") /\ waiting' = waiting \cup {t}
      BY <2>1 DEF Wait
    <2> QED BY <1>0, <2>2, Moves DEF Blocked
  <1>4. CASE \E t \in Threads : SetNotBlocked(t)
    <2>1. PICK t \in Threads : SetNotBlocked(t) BY <1>4
    <2>2. Goto(t, "gil") /\ waiting' = waiting \ {t}
      BY <2>1 DEF SetNotBlocked
    <2> QED BY <1>0, <2>2, Moves DEF Blocked
  <1>5. CASE \E t \in Threads : Start(t) \/ Exit(t) \/ Finish(t) \/ Delete(t) \/ CleanUp(t)
               \/ BlockingCall(t) \/ GilEnter(t) \/ Sleep(t)
    BY <1>1, <1>5 DEF Start, Exit, Finish, Delete, CleanUp, BlockingCall, GilEnter, Sleep, Python,
       At, Waits, flags
  <1>6. CASE \E t \in Threads : \/ Poll(t) \/ Woken(t) \/ TimedOut(t) \/ Clear(t)
                                \/ ResetPending(t)
    BY <1>1, <1>6 DEF Poll, Woken, TimedOut, Clear, ResetPending, At, Waits, flags
  <1>7. CASE \E t, u \in Threads : Create(t, u)
    BY <1>1, <1>7 DEF Create, Waits, flags
  <1>8. CASE \E t, u \in Threads : Suspend(t, u)
    <2>1. PICK t \in Threads, u \in Threads : Suspend(t, u) BY <1>8
    <2>2. waiting' = waiting /\ (pc' = pc \/ (pc[u] = "terminated" /\ Goto(u, "undeleted")))
      BY <2>1 DEF Suspend, Goto
    <2> QED BY <1>1, <1>2, <2>2 DEF Waits
  <1>9. ASSUME Step, ~\E t, u \in Threads : Create(t, u) \/ Suspend(t, u),
               ~\E t \in Threads : \/ Start(t) \/ Exit(t) \/ Finish(t) \/ Delete(t)
                                   \/ CleanUp(t) \/ BlockingCall(t) \/ GilEnter(t) \/ Sleep(t)
                                   \/ Poll(t) \/ Wait(t) \/ SetNotBlocked(t) \/ Woken(t)
                                   \/ TimedOut(t) \/ Clear(t) \/ ResetPending(t)
        PROVE  waiting' = waiting /\ pc' = pc
    BY <1>9 DEF Step, AllowSuspend, Resume, Notify, GetNotify, Send, GetMsg, vars, flags
  <1> QED
    BY <1>2, <1>3, <1>4, <1>5, <1>6, <1>7, <1>8, <1>9

LEMMA SuspendedStep ==
    ASSUME IInv, Step
    PROVE  TerminatedRuns' /\ GilInPython' /\ SuspendedNodes' /\ SuspendedParked'
  <1> DEFINE Good == TerminatedRuns' /\ GilInPython' /\ SuspendedNodes' /\ SuspendedParked'
             Keeps == \A v \in suspended :
                         /\ v \in waiting' => v \in waiting
                         /\ v \in allow_suspend => v \in allow_suspend'
  <1>0. Typed /\ Blocked /\ TerminatedRuns /\ GilInPython /\ SuspendedNodes /\ SuspendedParked
    BY DEF IInv
  <1>a. NoOne \notin Threads
    BY NodesAssumption
  (* A thread moves and leaves the GIL alone, lets go of it or takes it; *)
  <1>b. ASSUME suspended' = suspended, Keeps, gil' = gil, NEW t \in Threads, NEW l,
               Goto(t, l), pc[t] # "python", l = "terminated" => t \notin suspended
        PROVE  Good
    <2>1. pc'[t] = l /\ \A v \in Threads : v # t => pc'[v] = pc[v]
      BY <1>0, <1>b, Moves
    <2> QED BY <1>0, <1>b, <2>1
          DEF TerminatedRuns, GilInPython, SuspendedNodes, SuspendedParked
  <1>c. ASSUME suspended' = suspended, Keeps, gil' = NoOne, NEW t \in Threads, NEW l,
               Goto(t, l), l # "terminated"
        PROVE  Good
    <2>1. pc'[t] = l /\ \A v \in Threads : v # t => pc'[v] = pc[v]
      BY <1>0, <1>c, Moves
    <2> QED BY <1>0, <1>a, <1>c, <2>1
          DEF TerminatedRuns, GilInPython, SuspendedNodes, SuspendedParked
  <1>d. ASSUME suspended' = suspended, Keeps, NEW t \in Threads, gil' = t,
               Goto(t, "python"), t \notin suspended
        PROVE  Good
    <2>1. pc'[t] = "python" /\ \A v \in Threads : v # t => pc'[v] = pc[v]
      BY <1>0, <1>d, Moves
    <2> QED BY <1>0, <1>d, <2>1
          DEF TerminatedRuns, GilInPython, SuspendedNodes, SuspendedParked
  (* or none moves. *)
  <1>e. ASSUME suspended' \subseteq suspended, Keeps, gil' = gil, pc' = pc
        PROVE  Good
    BY <1>0, <1>e DEF TerminatedRuns, GilInPython, SuspendedNodes, SuspendedParked
  <1> SUFFICES Good
    OBVIOUS
  <1> HIDE DEF Good
  <1>1. CASE \E t, u \in Threads : Create(t, u)
    BY <1>b, <1>1 DEF Create, flags
  <1>2. CASE \E t \in Threads : Start(t) \/ GilEnter(t)
    BY <1>d, <1>2 DEF Start, GilEnter, At, Runs, flags
  <1>3. CASE \E t \in Threads : Exit(t) \/ BlockingCall(t) \/ Sleep(t)
    BY <1>c, <1>3 DEF Exit, BlockingCall, Sleep, flags
  <1>4. CASE \E t \in Threads : Wait(t)
    BY <1>c, <1>4 DEF Wait, Python, At, Runs
  <1>5. CASE \E t \in Threads : Finish(t) \/ Delete(t)
    BY <1>b, <1>5 DEF Finish, Delete, At, Runs, flags
  <1>6. CASE \E t \in Threads : CleanUp(t)
    <2>1. PICK t \in Threads : CleanUp(t) BY <1>6
    <2>2. pc[t] = "terminated" /\ t \notin suspended
      BY <1>0, <2>1 DEF CleanUp, TerminatedRuns
    <2> QED BY <1>b, <2>1, <2>2 DEF CleanUp
  <1>7. CASE \E t \in Threads : \/ Poll(t) \/ Woken(t) \/ TimedOut(t) \/ Clear(t)
                                \/ ResetPending(t)
    BY <1>b, <1>7 DEF Poll, Woken, TimedOut, Clear, ResetPending, At, flags
  <1>8. CASE \E t \in Threads : SetNotBlocked(t)
    BY <1>b, <1>8 DEF SetNotBlocked, At
  <1>9. CASE \E t \in Threads : \E allow \in BOOLEAN : AllowSuspend(t, allow)
    BY <1>e, <1>9 DEF AllowSuspend, Python, At, Runs
  <1>10. CASE \E t, u \in Threads : Suspend(t, u)
    <2>1. PICK t \in Threads, u \in Threads : Suspend(t, u) BY <1>10
    <2>2. /\ gil = t /\ gil' = gil /\ u # t /\ u \in allow_suspend /\ u \notin waiting
          /\ suspended' = suspended \cup {u} /\ waiting' = waiting
          /\ allow_suspend' = allow_suspend
      BY <2>1 DEF Suspend, Python
    <2>3. (pc' = pc /\ pc[u] # "terminated") \/ Goto(u, "undeleted")
      BY <2>1 DEF Suspend, Goto
    <2>4. pc'[u] # "terminated" /\ \A v \in Threads : v # u => pc'[v] = pc[v]
      BY <1>0, <2>3, Moves
    <2>5. TerminatedRuns'
      BY <1>0, <2>2, <2>4 DEF TerminatedRuns
    <2>6. GilInPython'
      BY <1>0, <2>2, <2>4 DEF GilInPython
    <2>7. SuspendedNodes' /\ SuspendedParked'
      BY <1>0, <2>2 DEF SuspendedNodes, SuspendedParked
    <2> QED BY <2>5, <2>6, <2>7 DEF Good
  <1>11. CASE \E t, u \in Threads : Resume(t, u)
    BY <1>e, <1>11 DEF Resume
  <1>12. CASE \/ \E t \in Threads : \E to \in Threads \cup {All} : Notify(t, to)
              \/ \E t \in Threads : GetNotify(t)
              \/ \E t \in Threads : \E to \in Threads \cup {All} : Send(t, to)
              \/ \E t \in Threads : GetMsg(t)
              \/ UNCHANGED vars
    <2>1. suspended' = suspended /\ waiting' = waiting /\ allow_suspend' = allow_suspend
          /\ gil' = gil /\ pc' = pc
      BY <1>12 DEF Notify, GetNotify, Send, GetMsg, vars, flags
    <2> QED BY <1>e, <2>1
  <1> QED
    BY <1>1, <1>2, <1>3, <1>4, <1>5, <1>6, <1>7, <1>8, <1>9, <1>10, <1>11, <1>12 DEF Step

---------------------------------------------------------------------------
(* Notifications.                                                          *)

(* What NotificationKept and NotesKnown say of one thread. *)
Kept(t) ==
    /\ Known(t)
    /\ fate[t] = "sent" => t \in pending \cap value
    /\ fate[t] = "polled" => t \in value
    /\ fate[t] = "taken" => t \in waiting
    /\ t \in notifyed /\ pc[t] # "resetPending" => t \in value

LEMMA NotificationStep ==
    ASSUME IInv, Step
    PROVE  NotificationKept' /\ NotesKnown'
  <1>0. Typed /\ Blocked /\ \A u \in Threads : Kept(u)
    BY DEF IInv, NotificationKept, NotesKnown, Kept
  <1>d. pending' \subseteq Threads
    <2>1. pending \subseteq Threads /\ Listed \subseteq Threads
      BY DEF IInv, NotesKnown, ListIntact
    <2>2. CASE \E t \in Threads : \E to \in Threads \cup {All} : Notify(t, to)
      BY <2>1, <2>2 DEF Notify
    <2>3. CASE pending' \subseteq pending
      BY <2>1, <2>3
    <2>4. \/ \E t \in Threads : \E to \in Threads \cup {All} : Notify(t, to)
          \/ pending' \subseteq pending
      BY DEF Step, vars, notes, Create, Start, Exit, Finish, Delete, CleanUp, BlockingCall,
         GilEnter, Sleep, Poll, AllowSuspend, Suspend, Resume, GetNotify, Wait, Woken,
         TimedOut, Clear, ResetPending, SetNotBlocked, Send, GetMsg
    <2> QED BY <2>2, <2>3, <2>4
  <1> SUFFICES ASSUME NEW u \in Threads PROVE Kept(u)'
    BY <1>d DEF NotificationKept, NotesKnown, Kept
  <1>1. Kept(u)
    BY <1>0
  (* A thread moves, none to or from the reads of a wait, *)
  <1>a. ASSUME pending' = pending, value' = value, fate' = fate,
               u \in waiting => u \in waiting', notifyed' \subseteq notifyed,
               pc'[u] = "clear" <=> pc[u] = "clear",
               pc'[u] = "resetPending" <=> pc[u] = "resetPending"
        PROVE  Kept(u)'
    BY <1>1, <1>a DEF Kept, Known
  <1>b. ASSUME NEW t \in Threads, NEW l, Goto(t, l), notes' = notes, waiting' = waiting,
               notifyed' = notifyed,
               l \notin {"clear", "resetPending"}, pc[t] \notin {"clear", "resetPending"}
        PROVE  Kept(u)'
    <2>1. pc'[t] = l /\ \A v \in Threads : v # t => pc'[v] = pc[v]
      BY <1>0, <1>b, Moves
    <2> QED BY <1>a, <1>b, <2>1 DEF notes
  (* and one in the wait loses its notification where it read it. *)
  <1>c. ASSUME NEW t \in Threads, Becomes(t, {"sent"}, "none") PROVE
               /\ fate'[t] # "sent" /\ (fate'[t] = "taken" <=> fate[t] = "taken")
               /\ (fate'[t] = "polled" <=> fate[t] = "polled")
               /\ \A v \in Threads : v # t => fate'[v] = fate[v]
    BY <1>0, <1>c DEF Becomes, Typed
  <1>2. CASE \E t, v \in Threads : Create(t, v)
    BY <1>b, <1>2 DEF Create, flags
  <1>3. CASE \E t \in Threads : \/ Start(t) \/ Exit(t) \/ Finish(t) \/ Delete(t)
                                \/ BlockingCall(t) \/ GilEnter(t) \/ Sleep(t) \/ TimedOut(t)
    BY <1>b, <1>3 DEF Start, Exit, Finish, Delete, BlockingCall, GilEnter, Sleep, TimedOut,
       Python, At, flags
  <1>14. CASE \E t \in Threads : Poll(t)
    <2>1. PICK t \in Threads : Poll(t) BY <1>14
    <2>2. pc[t] = "sleep" /\ pc'[t] = "gil" /\ \A v \in Threads : v # t => pc'[v] = pc[v]
      BY <1>0, <2>1, Moves DEF Poll, At
    <2>3. fate'[t] # "sent" /\ (fate'[t] = "taken" <=> fate[t] = "taken")
          /\ \A v \in Threads : v # t => fate'[v] = fate[v]
      BY <1>0, <2>1 DEF Poll, Becomes, Typed
    <2>4. t \in value /\ value' = value /\ pending' = pending \ {t} /\ notifyed' = notifyed
          /\ waiting' = waiting
      BY <2>1 DEF Poll, flags
    <2> QED BY <1>1, <2>2, <2>3, <2>4 DEF Kept, Known
  <1>4. CASE \E t \in Threads : CleanUp(t)
    <2>1. PICK t \in Threads : CleanUp(t) BY <1>4
    <2>2. pc'[t] = "none" /\ \A v \in Threads : v # t => pc'[v] = pc[v]
      BY <1>0, <2>1, Moves DEF CleanUp
    <2>3. fate'[t] = "none" /\ \A v \in Threads : v # t => fate'[v] = fate[v]
      BY <1>0, <2>1 DEF CleanUp, Typed
    <2>4. pending' = pending \ {t} /\ value' = value \ {t} /\ notifyed' = notifyed \ {t}
          /\ waiting' = waiting
      BY <2>1 DEF CleanUp
    <2> QED BY <1>1, <2>2, <2>3, <2>4 DEF Kept, Known
  <1>5. CASE \E t \in Threads : Wait(t)
    <2>1. PICK t \in Threads : Wait(t) BY <1>5
    <2>2. pc'[t] = "wait" /\ \A v \in Threads : v # t => pc'[v] = pc[v]
      BY <1>0, <2>1, Moves DEF Wait
    <2> QED BY <1>a, <2>1, <2>2 DEF Wait, Python, At, notes
  <1>6. CASE \E t \in Threads : Woken(t)
    <2>1. PICK t \in Threads : Woken(t) BY <1>6
    <2>2. pc[t] = "wait" /\ pc'[t] = "clear" /\ \A v \in Threads : v # t => pc'[v] = pc[v]
      BY <1>0, <2>1, Moves DEF Woken, At
    <2>3. t \in waiting
      BY <1>0, <2>1 DEF Woken, At, Blocked
    <2>4. fate'[t] # "sent" /\ (fate'[t] = "polled" => fate[t] = "polled")
          /\ \A v \in Threads : v # t => fate'[v] = fate[v]
      BY <1>0, <2>1 DEF Woken, Becomes, Typed
    <2>5. t \in pending /\ pending' = pending \ {t} /\ value' = value
          /\ notifyed' = notifyed /\ waiting' = waiting
      BY <2>1 DEF Woken, flags
    <2> QED BY <1>1, <2>2, <2>3, <2>4, <2>5 DEF Kept, Known
  <1>7. CASE \E t \in Threads : Clear(t)
    <2>1. PICK t \in Threads : Clear(t) BY <1>7
    <2>2. pc'[t] = "resetPending" /\ \A v \in Threads : v # t => pc'[v] = pc[v]
      BY <1>0, <2>1, Moves DEF Clear
    <2>3. fate'[t] # "sent" /\ (fate'[t] = "taken" <=> fate[t] = "taken")
          /\ (fate'[t] = "polled" <=> fate[t] = "polled")
          /\ \A v \in Threads : v # t => fate'[v] = fate[v]
      BY <1>c, <2>1 DEF Clear
    <2>4. pending' = pending \ {t} /\ value' = value \ {t} /\ notifyed' = notifyed
          /\ waiting' = waiting
      BY <2>1 DEF Clear, flags
    <2>5. fate[t] # "polled"
      BY <1>0, <2>1 DEF Clear, At, Kept, Known
    <2> QED BY <1>1, <2>2, <2>3, <2>4, <2>5 DEF Kept, Known
  <1>8. CASE \E t \in Threads : ResetPending(t)
    <2>1. PICK t \in Threads : ResetPending(t) BY <1>8
    <2>2. pc'[t] = "setnotblocked" /\ \A v \in Threads : v # t => pc'[v] = pc[v]
      BY <1>0, <2>1, Moves DEF ResetPending
    <2>3. pending' = pending /\ value' = value /\ fate' = fate /\ waiting' = waiting
          /\ notifyed' = notifyed \ {t}
      BY <2>1 DEF ResetPending, notes
    <2> QED BY <1>1, <2>2, <2>3 DEF Kept, Known
  <1>9. CASE \E t \in Threads : SetNotBlocked(t)
    <2>1. PICK t \in Threads : SetNotBlocked(t) BY <1>9
    <2>2. pc[t] = "setnotblocked" /\ pc'[t] = "gil"
          /\ \A v \in Threads : v # t => pc'[v] = pc[v]
      BY <1>0, <2>1, Moves DEF SetNotBlocked, At
    <2>3. fate'[t] # "taken" /\ (fate'[t] = "sent" <=> fate[t] = "sent")
          /\ (fate'[t] = "polled" <=> fate[t] = "polled")
          /\ \A v \in Threads : v # t => fate'[v] = fate[v]
      BY <1>0, <2>1 DEF SetNotBlocked, Becomes, Typed
    <2>4. pending' = pending /\ value' = value /\ notifyed' = notifyed
          /\ waiting' = waiting \ {t}
      BY <2>1 DEF SetNotBlocked
    <2> QED BY <1>1, <2>2, <2>3, <2>4 DEF Kept, Known
  <1>10. CASE \E t, v \in Threads : Suspend(t, v)
    <2>1. PICK t \in Threads, v \in Threads : Suspend(t, v) BY <1>10
    <2>2. CASE pc[v] = "terminated"
      BY <1>b, <2>1, <2>2 DEF Suspend, Goto, notes
    <2>3. CASE pc[v] # "terminated"
      BY <1>a, <2>1, <2>3 DEF Suspend, notes
    <2> QED BY <2>2, <2>3
  <1>11. CASE \E t \in Threads : \E to \in Threads \cup {All} : Notify(t, to)
    <2>1. PICK t \in Threads : \E to \in Threads \cup {All} : Notify(t, to) BY <1>11
    <2>2. PICK told :
            /\ pending' = pending \cup told /\ notifyed' = notifyed \cup told
            /\ value' = value \cup told
            /\ fate' = [v \in Threads |-> IF v \in told THEN "sent" ELSE fate[v]]
      BY <2>1 DEF Notify
    <2>3. waiting' = waiting /\ pc' = pc
      BY <2>1 DEF Notify
    <2> QED BY <1>1, <2>2, <2>3 DEF Kept, Known
  <1>12. CASE \E t \in Threads : GetNotify(t)
    <2>1. PICK t \in Threads : GetNotify(t) BY <1>12
    <2>2. fate'[t] \notin {"sent", "polled"} /\ (fate'[t] = "taken" <=> fate[t] = "taken")
          /\ \A v \in Threads : v # t => fate'[v] = fate[v]
      BY <1>0, <2>1 DEF GetNotify, Becomes, Typed
    <2>3. pending' = pending \ {t} /\ value' = value \ {t} /\ notifyed' = notifyed \ {t}
          /\ waiting' = waiting /\ pc' = pc
      BY <2>1 DEF GetNotify
    <2> QED BY <1>1, <2>2, <2>3 DEF Kept, Known
  <1>13. CASE \/ \E t \in Threads : \E allow \in BOOLEAN : AllowSuspend(t, allow)
              \/ \E t, v \in Threads : Resume(t, v)
              \/ \E t \in Threads : \E to \in Threads \cup {All} : Send(t, to)
              \/ \E t \in Threads : GetMsg(t)
              \/ UNCHANGED vars
    <2>1. pending' = pending /\ value' = value /\ fate' = fate /\ waiting' = waiting
          /\ notifyed' = notifyed /\ pc' = pc
      BY <1>13 DEF AllowSuspend, Resume, Send, GetMsg, vars, flags, notes
    <2> QED BY <1>a, <2>1
  <1> QED
    BY <1>2, <1>3, <1>4, <1>5, <1>6, <1>7, <1>8, <1>9, <1>10, <1>11, <1>12, <1>13, <1>14
       DEF Step

---------------------------------------------------------------------------
LEMMA InvInit == Init => IInv
  <1> SUFFICES ASSUME Init PROVE IInv
    OBVIOUS
  <1>1. Typed /\ SuspendedNodes /\ TerminatedRuns /\ GilInPython /\ SuspendedParked
    BY NodesAssumption DEF Init, Typed, SuspendedNodes, TerminatedRuns, GilInPython,
       SuspendedParked
  <1>2. ListIntact
    <2>1. Range(list) = {Main} /\ \A i, j \in 1..Len(list) : list[i] = list[j] => i = j
      BY DEF Init, Range
    <2>2. {t \in Threads : pc[t] # "none"} = {Main}
      BY NodesAssumption DEF Init
    <2> QED BY <2>1, <2>2 DEF ListIntact, Listed
  <1>3. Blocked
    BY DEF Init, Blocked
  <1>4. NotificationKept /\ NotesKnown
    BY DEF Init, NotificationKept, NotesKnown, Known
  <1> QED
    BY <1>1, <1>2, <1>3, <1>4 DEF IInv

LEMMA InvStep == IInv /\ [Next]_vars => IInv'
  <1> SUFFICES ASSUME IInv, Step PROVE IInv'
    BY StepsOfNext
  <1> QED
    BY ListStep, BlockedStep, SuspendedStep, NotificationStep DEF IInv

LEMMA Invariance == Spec => []IInv
  <1>1. Init => IInv
    BY InvInit
  <1>2. IInv /\ [Next]_vars => IInv'
    BY InvStep
  <1> QED
    BY <1>1, <1>2, PTL DEF Spec

(* In whatever order threads are created, end and are unlinked by the idle *)
(* task: the list of mpthreadport.c holds every node in use, once.         *)
THEOREM ThreadListStaysIntact == Spec => []ListIntact
  <1>1. IInv => ListIntact
    BY DEF IInv
  <1> QED
    BY <1>1, Invariance, PTL

(* mp_thread_suspend stops no thread that holds the GIL or is in a wait,   *)
(* and mp_thread_resume does not refuse the one it stopped.                *)
THEOREM SuspendedAreParked == Spec => []SuspendedParked
  <1>1. IInv => SuspendedParked
    BY DEF IInv
  <1> QED
    BY <1>1, Invariance, PTL

(* The value mp_thread_notify gave can be read until it is, or is thrown   *)
(* away in _thread.wait, and wakes a wait unless mp_hal_delay_ms has seen  *)
(* it first; what a wait took, it returns.                                 *)
THEOREM NotificationsAreKept == Spec => []NotificationKept
  <1>1. IInv => NotificationKept
    BY DEF IInv
  <1> QED
    BY <1>1, Invariance, PTL

---------------------------------------------------------------------------
(* Types.                                                                  *)

(* Between mp_thread_start and mp_thread_finish a node is marked ready,    *)
(* after it deleted; a node that is not linked has no flag left.           *)
ReadyPcs == {"python", "gil", "sleep", "wait", "clear", "resetPending", "setnotblocked",
             "finish"}
DeletedPcs == {"delete", "terminated", "undeleted"}
Marked ==
    /\ ready \subseteq Threads /\ \A t \in ready : pc[t] \in ReadyPcs
    /\ deleted \subseteq Threads /\ \A t \in deleted : pc[t] \in DeletedPcs
    /\ waiting \subseteq Threads
    /\ \A f \in {allow_suspend, suspended, notifyed, value} :
         f \subseteq {t \in Threads : pc[t] # "none"}

(* The values; that no more copies than MaxStrings are on the heap and     *)
(* none less than no copy follows from StringsOwned.                       *)
Pcs == {"none", "entry"} \cup ReadyPcs \cup DeletedPcs
Values ==
    /\ threadQueue \in [Threads -> 0..QueueItems]
    /\ curr_sp \in [Threads -> 0..MaxDepth] /\ depth \in [Threads -> 1..MaxDepth]
    /\ pc \in [Threads -> Pcs]
    /\ gil \in Threads \cup {NoOne}
    /\ fate \in [Threads -> {"none", "sent", "polled", "taken"}]
    /\ strings \in Int /\ strings <= MaxStrings /\ leaked \in Nat
    /\ creates \in 0..MaxCreates /\ freed = {}

TInv == Marked /\ Values /\ StringsOwned

LEMMA QueuedFinite ==
    ASSUME NEW q \in [Threads -> 0..QueueItems]
    PROVE  IsFiniteSet(Queued(q)) /\ Cardinality(Queued(q)) \in Nat
  <1> DEFINE P == Threads \X (1 .. QueueItems)
             Q == Queued(q)
  <1>1. IsFiniteSet(1 .. QueueItems)
    BY FS_Interval, BoundsAssumption
  <1>2. IsFiniteSet(P)
    BY <1>1, FS_Product, NodesAssumption
  <1>3. Q \in SUBSET P
    BY DEF Queued
  <1> HIDE DEF P, Q
  <1>4. IsFiniteSet(Q)
    BY <1>2, <1>3, FS_Subset
  <1>5. Cardinality(Q) \in Nat
    BY <1>4, FS_CardinalityType
  <1> QED BY <1>4, <1>5 DEF Q

(* mp_clean_thread empties one queue: as many copies less as it held. *)
LEMMA QueueEmptied ==
    ASSUME NEW q \in [Threads -> 0..QueueItems], NEW t \in Threads
    PROVE  Cardinality(Queued([q EXCEPT ![t] = 0])) = Cardinality(Queued(q)) - q[t]
  <1> DEFINE P == Threads \X (1 .. QueueItems)
             Q == Queued(q)
             R == Queued([q EXCEPT ![t] = 0])
             E == {t} \X (1 .. q[t])
  <1>0. QueueItems \in Nat /\ q[t] \in 0 .. QueueItems
    BY BoundsAssumption
  <1>1. IsFiniteSet(Q)
    BY QueuedFinite
  <1>2. IsFiniteSet(E) /\ Cardinality(E) = q[t]
    <2>1. IsFiniteSet({t}) /\ Cardinality({t}) = 1
      BY FS_Singleton
    <2>2. IsFiniteSet(1 .. q[t]) /\ Cardinality(1 .. q[t]) = q[t]
      BY <1>0, FS_Interval
    <2>3. IsFiniteSet(E) /\ Cardinality(E) = 1 * q[t]
      BY <2>1, <2>2, FS_Product
    <2> QED BY <1>0, <2>3
  <1>3. E \subseteq Q
    BY <1>0 DEF Queued
  <1>4. R = Q \ E
    <2>1. ASSUME NEW m \in P PROVE m \in R <=> m \in Q \ E
      <3>1. m[1] \in Threads /\ m[2] \in 1 .. QueueItems /\ m = <<m[1], m[2]>>
        OBVIOUS
      <3>2. CASE m[1] = t
        BY <1>0, <3>1, <3>2 DEF Queued
      <3>3. CASE m[1] # t
        BY <3>1, <3>3 DEF Queued
      <3> QED BY <3>2, <3>3
    <2>2. R \subseteq P /\ Q \subseteq P
      BY DEF Queued
    <2> HIDE DEF P, Q, R, E
    <2> QED BY <2>1, <2>2
  <1> HIDE DEF P, Q, R, E
  <1>5. Q \cap E = E
    BY <1>3
  <1>6. Cardinality(R) = Cardinality(Q) - q[t]
    <2>1. Cardinality(Q \ E) = Cardinality(Q) - Cardinality(Q \cap E)
      BY <1>1, FS_Difference
    <2> QED BY <1>2, <1>4, <1>5, <2>1
  <1> QED BY <1>6 DEF Q, R

(* mp_thread_getmsg takes one message, *)
LEMMA MessageTaken ==
    ASSUME NEW q \in [Threads -> 0..QueueItems], NEW t \in Threads, q[t] > 0
    PROVE  Cardinality(Queued([q EXCEPT ![t] = @ - 1])) = Cardinality(Queued(q)) - 1
  <1> DEFINE P == Threads \X (1 .. QueueItems)
             Q == Queued(q)
             R == Queued([q EXCEPT ![t] = @ - 1])
             last == <<t, q[t]>>
  <1>0. QueueItems \in Nat /\ q[t] \in 1 .. QueueItems
    BY BoundsAssumption
  <1>1. IsFiniteSet(Q) /\ Cardinality(Q) \in Nat
    BY QueuedFinite
  <1>2. last \in Q
    BY <1>0 DEF Queued
  <1>3. R = Q \ {last}
    <2>1. ASSUME NEW m \in P PROVE m \in R <=> m \in Q \ {last}
      <3>1. m[1] \in Threads /\ m[2] \in 1 .. QueueItems /\ m = <<m[1], m[2]>>
        OBVIOUS
      <3>2. CASE m[1] = t
        BY <1>0, <3>1, <3>2 DEF Queued
      <3>3. CASE m[1] # t
        BY <3>1, <3>3 DEF Queued
      <3> QED BY <3>2, <3>3
    <2>2. R \subseteq P /\ Q \subseteq P
      BY DEF Queued
    <2> HIDE DEF P, Q, R, last
    <2> QED BY <2>1, <2>2
  <1> HIDE DEF P, Q, R, last
  <1>4. Cardinality(R) = Cardinality(Q) - 1
    BY <1>1, <1>2, <1>3, FS_RemoveElement
  <1> QED BY <1>4 DEF Q, R

(* and mp_thread_semdmsg puts one into each queue that has room. *)
LEMMA MessagesSent ==
    ASSUME NEW q \in [Threads -> 0..QueueItems], NEW copies \in SUBSET Threads,
           NEW room, room = {u \in Threads : q[u] < QueueItems}
    PROVE  LET r == [u \in Threads |-> IF u \in copies \cap room THEN q[u] + 1 ELSE q[u]] IN
           /\ r \in [Threads -> 0..QueueItems]
           /\ Cardinality(copies) \in Nat /\ Cardinality(copies \ room) \in Nat
           /\ Cardinality(Queued(r)) + Cardinality(copies \ room)
                = Cardinality(Queued(q)) + Cardinality(copies)
  <1> DEFINE P == Threads \X (1 .. QueueItems)
             r == [u \in Threads |-> IF u \in copies \cap room THEN q[u] + 1 ELSE q[u]]
             Q == Queued(q)
             R == Queued(r)
             C == copies \cap room
             place == [u \in C |-> <<u, q[u] + 1>>]
             N == {place[u] : u \in C}
  <1>0. QueueItems \in Nat /\ \A u \in Threads : q[u] \in 0 .. QueueItems
    BY BoundsAssumption
  <1>1. r \in [Threads -> 0..QueueItems]
    BY <1>0
  <1>2. IsFiniteSet(Q) /\ Cardinality(Q) \in Nat
    BY QueuedFinite
  <1>3. IsFiniteSet(copies) /\ IsFiniteSet(C) /\ IsFiniteSet(copies \ room)
    <2>1. copies \ room \in SUBSET Threads /\ C \in SUBSET Threads
      OBVIOUS
    <2> HIDE DEF C
    <2> QED BY <2>1, FS_Subset, NodesAssumption
  <1>4. /\ Cardinality(copies) \in Nat /\ Cardinality(C) \in Nat
        /\ Cardinality(copies \ room) = Cardinality(copies) - Cardinality(C)
        /\ Cardinality(copies \ room) \in Nat
    BY <1>3, FS_Difference, FS_CardinalityType
  <1>5. IsFiniteSet(N) /\ Cardinality(N) = Cardinality(C)
    <2>1. place \in [C -> N]
      OBVIOUS
    <2>2. \A u, v \in C : place[u] = place[v] => u = v
      OBVIOUS
    <2>3. \A m \in N : \E u \in C : place[u] = m
      OBVIOUS
    <2> HIDE DEF place, C, N
    <2>4. ExistsBijection(C, N)
      BY <2>1, <2>2, <2>3 DEF ExistsBijection, Bijection, Injection, Surjection,
         IsInjective
    <2> QED BY <1>3, <2>4, FS_Bijection
  <1>6. Q \cap N = {} /\ R = Q \cup N
    <2>1. ASSUME NEW m \in P PROVE m \in N <=> m[1] \in C /\ m[2] = q[m[1]] + 1
      <3>1. m = <<m[1], m[2]>>
        OBVIOUS
      <3>2. m \in N <=> \E u \in C : m = <<u, q[u] + 1>>
        OBVIOUS
      <3> QED BY <3>1, <3>2
    <2>2. ASSUME NEW m \in P PROVE (m \in R <=> m \in Q \/ m \in N) /\ ~(m \in Q /\ m \in N)
      <3>1. m[1] \in Threads /\ m[2] \in 1 .. QueueItems
        OBVIOUS
      <3>2. m \in Q <=> m[2] <= q[m[1]]
        BY DEF Queued
      <3>3. m \in R <=> m[2] <= (IF m[1] \in C THEN q[m[1]] + 1 ELSE q[m[1]])
        BY <3>1 DEF Queued
      <3> HIDE DEF P, Q, R, N, C, r
      <3> QED BY <1>0, <2>1, <3>1, <3>2, <3>3
    <2>3. N \subseteq P
      <3>1. ASSUME NEW u \in C PROVE <<u, q[u] + 1>> \in P
        <4>1. u \in Threads /\ q[u] < QueueItems
          OBVIOUS
        <4>2. q[u] + 1 \in 1 .. QueueItems
          BY <1>0, <4>1
        <4> QED BY <4>1, <4>2
      <3> QED BY <3>1
    <2>4. R \subseteq P /\ Q \subseteq P
      BY DEF Queued
    <2> HIDE DEF P, Q, R, N
    <2> QED BY <2>2, <2>3, <2>4
  <1> HIDE DEF P, Q, R, N, C, r
  <1>7. Cardinality(R) = Cardinality(Q) + Cardinality(N)
    <2>1. Cardinality(Q \cap N) = 0
      BY <1>6, FS_EmptySet
    <2>2. Cardinality(Q \cup N) = Cardinality(Q) + Cardinality(N) - Cardinality(Q \cap N)
      BY <1>2, <1>5, FS_Union
    <2> QED BY <1>2, <1>4, <1>5, <1>6, <2>1, <2>2
  <1>8. Cardinality(R) + Cardinality(copies \ room) = Cardinality(Q) + Cardinality(copies)
    BY <1>2, <1>4, <1>5, <1>7
  <1> QED BY <1>1, <1>4, <1>8 DEF Q, R, r

LEMMA MarkedStep ==
    ASSUME IInv, TInv, Step
    PROVE  Marked'
  <1>0. Typed /\ Blocked /\ TerminatedRuns /\ ListIntact /\ Marked
    BY DEF IInv, TInv
  <1>a. Listed \subseteq Threads /\ \A t \in Listed : pc[t] # "none"
    BY <1>0 DEF ListIntact
  (* A thread that goes from a call to another one, its flags as they are, *)
  <1>b. ASSUME flags' = flags, value' \subseteq value,
               NEW t \in Threads, NEW l, Goto(t, l), l # "none",
               pc[t] \in ReadyPcs => l \in ReadyPcs,
               pc[t] \in DeletedPcs => l \in DeletedPcs
        PROVE  Marked'
    <2>1. pc'[t] = l /\ \A u \in Threads : u # t => pc'[u] = pc[u]
      BY <1>0, <1>b, Moves
    <2> QED BY <1>0, <1>b, <2>1 DEF Marked, flags
  (* and a step in which none moves and no mark but those of linked nodes  *)
  (* changes.                                                              *)
  <1>c. ASSUME pc' = pc, ready' = ready, deleted' = deleted, waiting' = waiting,
               \A t : t \in allow_suspend' \cup suspended' \cup notifyed' \cup value' =>
                  \/ t \in Listed
                  \/ t \in allow_suspend \cup suspended \cup notifyed \cup value
        PROVE  Marked'
    BY <1>0, <1>a, <1>c DEF Marked
  <1>1. CASE \E t, u \in Threads : Create(t, u)
    BY <1>b, <1>1 DEF Create, notes, ReadyPcs, DeletedPcs
  <1>2. CASE \E t \in Threads : Start(t)
    <2>1. PICK t \in Threads : Start(t) BY <1>2
    <2>2. pc'[t] = "python" /\ \A u \in Threads : u # t => pc'[u] = pc[u]
      BY <1>0, <2>1, Moves DEF Start
    <2>3. pc[t] = "entry" /\ ready' = ready \cup {t} /\ allow_suspend' = allow_suspend
          /\ suspended' = suspended /\ waiting' = waiting /\ notifyed' = notifyed
          /\ deleted' = deleted /\ value' = value
      BY <2>1 DEF Start, At, notes
    <2> QED BY <1>0, <2>2, <2>3 DEF Marked, ReadyPcs, DeletedPcs
  <1>3. CASE \E t \in Threads : \/ Exit(t) \/ Delete(t) \/ BlockingCall(t) \/ GilEnter(t)
                                \/ Sleep(t) \/ TimedOut(t)
    BY <1>b, <1>3 DEF Exit, Delete, BlockingCall, GilEnter, Sleep, TimedOut, Python, At, notes,
       ReadyPcs, DeletedPcs
  <1>4. CASE \E t \in Threads : Poll(t) \/ Woken(t) \/ Clear(t)
    BY <1>b, <1>4 DEF Poll, Woken, Clear, At, ReadyPcs, DeletedPcs
  <1>5. CASE \E t \in Threads : Finish(t)
    <2>1. PICK t \in Threads : Finish(t) BY <1>5
    <2>2. pc'[t] = "delete" /\ \A u \in Threads : u # t => pc'[u] = pc[u]
      BY <1>0, <2>1, Moves DEF Finish
    <2>3. ready' = ready \ {t} /\ deleted' = deleted \cup {t} /\ waiting' = waiting
          /\ allow_suspend' = allow_suspend /\ suspended' = suspended
          /\ notifyed' = notifyed /\ value' = value
      BY <2>1 DEF Finish, notes
    <2> QED BY <1>0, <2>2, <2>3 DEF Marked, DeletedPcs
  <1>6. CASE \E t \in Threads : CleanUp(t)
    <2>1. PICK t \in Threads : CleanUp(t) BY <1>6
    <2>2. pc'[t] = "none" /\ \A u \in Threads : u # t => pc'[u] = pc[u]
      BY <1>0, <2>1, Moves DEF CleanUp
    <2>3. pc[t] = "terminated" /\ t \notin ready /\ t \notin suspended
      BY <1>0, <2>1 DEF CleanUp, Marked, ReadyPcs, TerminatedRuns
    <2>4. allow_suspend' = allow_suspend \ {t} /\ notifyed' = notifyed \ {t}
          /\ deleted' = deleted \ {t} /\ value' = value \ {t} /\ ready' = ready
          /\ suspended' = suspended /\ waiting' = waiting
      BY <2>1 DEF CleanUp
    <2> QED BY <1>0, <2>2, <2>3, <2>4 DEF Marked
  <1>7. CASE \E t \in Threads : Wait(t) \/ ResetPending(t) \/ SetNotBlocked(t)
    <2>1. PICK t \in Threads : Wait(t) \/ ResetPending(t) \/ SetNotBlocked(t) BY <1>7
    <2>2. PICK l \in ReadyPcs : Goto(t, l)
      BY <2>1 DEF Wait, ResetPending, SetNotBlocked, ReadyPcs
    <2>3. pc'[t] = l /\ \A u \in Threads : u # t => pc'[u] = pc[u]
      BY <1>0, <2>2, Moves
    <2>4. pc[t] \in ReadyPcs
      BY <2>1 DEF Wait, ResetPending, SetNotBlocked, Python, At, ReadyPcs
    <2>5. waiting' \subseteq waiting \cup {t} /\ notifyed' \subseteq notifyed
          /\ ready' = ready /\ deleted' = deleted /\ allow_suspend' = allow_suspend
          /\ suspended' = suspended /\ value' = value
      BY <2>1 DEF Wait, ResetPending, SetNotBlocked, notes
    <2> QED BY <1>0, <2>2, <2>3, <2>4, <2>5 DEF Marked, ReadyPcs, DeletedPcs
  <1>8. CASE \E t, u \in Threads : Suspend(t, u)
    <2>1. PICK t \in Threads, u \in Threads : Suspend(t, u) BY <1>8
    <2>2. u \in Listed /\ suspended' = suspended \cup {u} /\ ready' = ready
          /\ allow_suspend' = allow_suspend /\ waiting' = waiting
          /\ notifyed' = notifyed /\ deleted' = deleted /\ value' = value
      BY <2>1 DEF Suspend, notes
    <2>3. CASE pc[u] = "terminated"
      <3>1. pc'[u] = "undeleted" /\ \A v \in Threads : v # u => pc'[v] = pc[v]
        BY <1>0, <2>1, <2>3 DEF Suspend, Typed
      <3> QED BY <1>0, <2>2, <2>3, <3>1 DEF Marked, ReadyPcs, DeletedPcs
    <2>4. CASE pc[u] # "terminated"
      BY <1>c, <2>1, <2>2, <2>4 DEF Suspend
    <2> QED BY <2>3, <2>4
  <1>9. CASE \E t \in Threads : \E allow \in BOOLEAN : AllowSuspend(t, allow)
    <2>1. PICK t \in Threads, allow \in BOOLEAN : AllowSuspend(t, allow) BY <1>9
    <2>2. pc[t] = "python" /\ pc' = pc /\ allow_suspend' \subseteq allow_suspend \cup {t}
          /\ ready' = ready /\ suspended' = suspended /\ waiting' = waiting
          /\ notifyed' = notifyed /\ deleted' = deleted /\ value' = value
      BY <2>1 DEF AllowSuspend, Python, At, notes
    <2> QED BY <1>0, <2>2 DEF Marked
  <1>10. CASE \E t, u \in Threads : Resume(t, u)
    BY <1>c, <1>10 DEF Resume, notes
  <1>11. CASE \E t \in Threads : \E to \in Threads \cup {All} : Notify(t, to)
    <2>1. PICK t \in Threads, to \in Threads \cup {All} : Notify(t, to) BY <1>11
    <2>2. PICK told : told \subseteq Listed /\ value' = value \cup told
                      /\ notifyed' = notifyed \cup told
      BY <2>1 DEF Notify
    <2> QED BY <1>c, <2>1, <2>2 DEF Notify
  <1>12. CASE \E t \in Threads : GetNotify(t)
    BY <1>c, <1>12 DEF GetNotify
  <1>13. CASE \/ \E t \in Threads : \E to \in Threads \cup {All} : Send(t, to)
              \/ \E t \in Threads : GetMsg(t)
              \/ UNCHANGED vars
    BY <1>c, <1>13 DEF Send, GetMsg, vars, flags, notes
  <1> QED
    BY <1>1, <1>2, <1>3, <1>4, <1>5, <1>6, <1>7, <1>8, <1>9, <1>10, <1>11, <1>12, <1>13
       DEF Step

(* The queues and the heap: a step sends, takes or drops messages, or      *)
(* leaves them alone; what lies on the heap is in a queue or leaked.       *)
LEMMA QueuesStep ==
    ASSUME IInv, TInv, Step
    PROVE  /\ threadQueue' \in [Threads -> 0..QueueItems]
           /\ strings' \in Int /\ strings' <= MaxStrings /\ leaked' \in Nat
           /\ StringsOwned'
  <1>0. /\ threadQueue \in [Threads -> 0..QueueItems] /\ MaxStrings \in Nat
        /\ strings \in Int /\ strings <= MaxStrings /\ leaked \in Nat
        /\ strings = leaked + Cardinality(Queued(threadQueue))
        /\ QueueItems \in Nat /\ Listed \subseteq Threads
    BY BoundsAssumption DEF IInv, TInv, Values, StringsOwned, ListIntact
  <1>d. \A t \in deleted : threadQueue[t] = 0
    BY DEF TInv, StringsOwned
  <1>1. CASE \E t \in Threads : Finish(t)
    <2>1. PICK t \in Threads : Finish(t) BY <1>1
    <2>2. /\ threadQueue' = [threadQueue EXCEPT ![t] = 0]
          /\ strings' = strings - threadQueue[t] /\ leaked' = leaked
          /\ deleted' = deleted \cup {t}
      BY <2>1 DEF Finish
    <2>3. threadQueue' \in [Threads -> 0..QueueItems] /\ threadQueue[t] \in Nat
      BY <1>0, <2>2
    <2>4. Cardinality(Queued(threadQueue')) = Cardinality(Queued(threadQueue)) - threadQueue[t]
      BY <1>0, <2>2, QueueEmptied
    <2>5. Cardinality(Queued(threadQueue)) \in Nat
      BY <1>0, QueuedFinite
    <2>6. \A u \in deleted' : threadQueue'[u] = 0
      BY <1>0, <1>d, <2>2
    <2>7. strings' = leaked' + Cardinality(Queued(threadQueue'))
      BY <1>0, <2>2, <2>3, <2>4, <2>5
    <2> QED BY <1>0, <2>2, <2>3, <2>6, <2>7 DEF StringsOwned
  <1>2. CASE \E t \in Threads : GetMsg(t)
    <2>1. PICK t \in Threads : GetMsg(t) BY <1>2
    <2>2. /\ threadQueue' = [threadQueue EXCEPT ![t] = @ - 1] /\ threadQueue[t] > 0
          /\ strings' = strings - 1 /\ leaked' = leaked /\ deleted' = deleted
      BY <2>1 DEF GetMsg, flags
    <2>3. threadQueue' \in [Threads -> 0..QueueItems]
      BY <1>0, <2>2
    <2>4. Cardinality(Queued(threadQueue')) = Cardinality(Queued(threadQueue)) - 1
      BY <1>0, <2>2, MessageTaken
    <2>5. Cardinality(Queued(threadQueue)) \in Nat
      BY <1>0, QueuedFinite
    <2>6. \A u \in deleted' : threadQueue'[u] = 0
      BY <1>0, <1>d, <2>2
    <2>7. strings' = leaked' + Cardinality(Queued(threadQueue'))
      BY <1>0, <2>2, <2>4, <2>5
    <2> QED BY <1>0, <2>2, <2>3, <2>6, <2>7 DEF StringsOwned
  <1>3. CASE \E t \in Threads : \E to \in Threads \cup {All} : Send(t, to)
    <2>1. PICK t \in Threads, to \in Threads \cup {All} : Send(t, to) BY <1>3
    <2> DEFINE copies == Recipients(t, to)
    <2>2. copies \subseteq Threads /\ \A u \in copies : u \notin deleted
      BY <1>0 DEF Recipients, Listed, Range, IInv, Typed
    <2>3. /\ strings + Cardinality(copies) <= MaxStrings
          /\ threadQueue' = [u \in Threads |-> IF u \in copies \cap Room
                               THEN threadQueue[u] + 1 ELSE threadQueue[u]]
          /\ strings' = strings + Cardinality(copies)
          /\ leaked' = leaked + Cardinality(copies \ Room) /\ deleted' = deleted
      BY <2>1 DEF Send, flags
    <2> HIDE DEF copies
    <2>4. Room = {u \in Threads : threadQueue[u] < QueueItems}
      BY DEF Room
    <2>5. /\ threadQueue' \in [Threads -> 0..QueueItems]
          /\ Cardinality(copies) \in Nat /\ Cardinality(copies \ Room) \in Nat
          /\ Cardinality(Queued(threadQueue')) + Cardinality(copies \ Room)
               = Cardinality(Queued(threadQueue)) + Cardinality(copies)
      BY <1>0, <2>2, <2>3, <2>4, MessagesSent
    <2>6. Cardinality(Queued(threadQueue)) \in Nat /\ Cardinality(Queued(threadQueue')) \in Nat
      BY <1>0, <2>5, QueuedFinite
    <2>7. \A u \in deleted' : threadQueue'[u] = 0
      <3>1. ASSUME NEW u \in deleted PROVE threadQueue'[u] = 0
        <4>1. u \in Threads
          BY DEF TInv, Marked
        <4> QED BY <1>d, <2>2, <2>3, <4>1
      <3> QED BY <2>3, <3>1
    <2>8. strings' = leaked' + Cardinality(Queued(threadQueue'))
      BY <1>0, <2>3, <2>5, <2>6
    <2> QED BY <1>0, <2>3, <2>5, <2>7, <2>8 DEF StringsOwned
  <1>4. CASE threadQueue' = threadQueue /\ strings' = strings /\ leaked' = leaked
             /\ deleted' \subseteq deleted
    BY <1>0, <1>d, <1>4 DEF StringsOwned
  <1>5. \/ \E t \in Threads : Finish(t) \/ GetMsg(t)
        \/ \E t \in Threads : \E to \in Threads \cup {All} : Send(t, to)
        \/ threadQueue' = threadQueue /\ strings' = strings /\ leaked' = leaked
           /\ deleted' \subseteq deleted
    BY DEF Step, vars, flags, messages, Create, Start, Exit, Delete, CleanUp, BlockingCall,
       GilEnter, Sleep, Poll, AllowSuspend, Suspend, Resume, Notify, GetNotify, Wait, Woken,
       TimedOut, Clear, ResetPending, SetNotBlocked
  <1> QED BY <1>1, <1>2, <1>3, <1>4, <1>5

LEMMA ValuesStep ==
    ASSUME IInv, TInv, Step
    PROVE  Values'
  <1>0. Typed /\ Values /\ BoundsAssumption
    BY BoundsAssumption DEF IInv, TInv
  <1>1. pc' \in [Threads -> Pcs]
    <2>1. ASSUME NEW t \in Threads, NEW l \in Pcs, Goto(t, l) PROVE pc' \in [Threads -> Pcs]
      BY <1>0, <2>1 DEF Goto, Values
    <2>2. CASE \E t \in Threads : \/ Start(t) \/ Exit(t) \/ Finish(t) \/ Delete(t)
                 \/ CleanUp(t) \/ BlockingCall(t) \/ GilEnter(t) \/ Sleep(t) \/ Poll(t)
                 \/ Wait(t) \/ Woken(t) \/ TimedOut(t) \/ Clear(t) \/ ResetPending(t)
                 \/ SetNotBlocked(t)
      BY <2>1, <2>2 DEF Start, Exit, Finish, Delete, CleanUp, BlockingCall, GilEnter, Sleep,
         Poll, Wait, Woken, TimedOut, Clear, ResetPending, SetNotBlocked, Pcs, ReadyPcs,
         DeletedPcs
    <2>3. CASE \E t, u \in Threads : Create(t, u) \/ Suspend(t, u)
      BY <1>0, <2>1, <2>3 DEF Create, Suspend, Goto, Pcs, DeletedPcs, Values
    <2>4. CASE pc' = pc
      BY <1>0, <2>4 DEF Values
    <2>5. \/ \E t \in Threads : \/ Start(t) \/ Exit(t) \/ Finish(t) \/ Delete(t)
                 \/ CleanUp(t) \/ BlockingCall(t) \/ GilEnter(t) \/ Sleep(t) \/ Poll(t)
                 \/ Wait(t) \/ Woken(t) \/ TimedOut(t) \/ Clear(t) \/ ResetPending(t)
                 \/ SetNotBlocked(t)
          \/ \E t, u \in Threads : Create(t, u) \/ Suspend(t, u)
          \/ pc' = pc
      BY DEF Step, AllowSuspend, Resume, Notify, GetNotify, Send, GetMsg, vars
    <2> QED BY <2>2, <2>3, <2>4, <2>5
  <1>2. gil' \in Threads \cup {NoOne}
    BY <1>0 DEF Step, Values, vars, Create, Start, Exit, Finish, Delete, CleanUp,
       BlockingCall, GilEnter, Sleep, Poll, AllowSuspend, Suspend, Resume, Notify, GetNotify,
       Wait, Woken, TimedOut, Clear, ResetPending, SetNotBlocked, Send, GetMsg
  <1>3. fate' \in [Threads -> {"none", "sent", "polled", "taken"}]
    <2>1. ASSUME NEW t \in Threads, NEW from, NEW to \in {"none", "polled", "taken"},
                 Becomes(t, from, to)
          PROVE  fate' \in [Threads -> {"none", "sent", "polled", "taken"}]
      BY <1>0, <2>1 DEF Becomes, Values
    <2>2. CASE \E t \in Threads : \/ Poll(t) \/ GetNotify(t) \/ Woken(t) \/ Clear(t)
                                  \/ SetNotBlocked(t)
      BY <2>1, <2>2 DEF Poll, GetNotify, Woken, Clear, SetNotBlocked
    <2>3. CASE \E t \in Threads : \E to \in Threads \cup {All} : Notify(t, to)
      BY <1>0, <2>3 DEF Notify, Values
    <2>4. CASE \E t \in Threads : CleanUp(t)
      BY <1>0, <2>4 DEF CleanUp, Values
    <2>5. CASE fate' = fate
      BY <1>0, <2>5 DEF Values
    <2>6. \/ \E t \in Threads : \/ Poll(t) \/ GetNotify(t) \/ Woken(t) \/ Clear(t)
                               \/ SetNotBlocked(t)
          \/ \E t \in Threads : \E to \in Threads \cup {All} : Notify(t, to)
          \/ \E t \in Threads : CleanUp(t)
          \/ fate' = fate
      BY DEF Step, vars, notes, Create, Start, Exit, Finish, Delete, BlockingCall, GilEnter,
         Sleep, AllowSuspend, Suspend, Resume, Wait, TimedOut, ResetPending, Send, GetMsg
    <2> QED BY <2>2, <2>3, <2>4, <2>5, <2>6
  <1>4. /\ curr_sp' \in [Threads -> 0..MaxDepth] /\ depth' \in [Threads -> 1..MaxDepth]
        /\ freed' = {}
    <2>1. CASE \E t \in Threads : Start(t)
      <3>1. PICK t \in Threads : Start(t) BY <2>1
      <3>2. depth[t] \in 0..MaxDepth
        BY <1>0 DEF Values, BoundsAssumption
      <3> QED BY <1>0, <3>1, <3>2 DEF Start, Values
    <2>2. CASE \E t \in Threads : CleanUp(t)
      <3>1. 0 \in 0..MaxDepth /\ 1 \in 1..MaxDepth
        BY <1>0 DEF BoundsAssumption
      <3> QED BY <1>0, <2>2, <3>1 DEF CleanUp, Values
    <2>3. CASE curr_sp' = curr_sp /\ depth' = depth /\ freed' = freed
      BY <1>0, <2>3 DEF Values
    <2>4. \/ \E t \in Threads : Start(t)
          \/ \E t \in Threads : CleanUp(t)
          \/ curr_sp' = curr_sp /\ depth' = depth /\ freed' = freed
      BY DEF Step, vars, roots, Create, Exit, Finish, Delete, BlockingCall, GilEnter, Sleep,
         Poll, AllowSuspend, Suspend, Resume, Notify, GetNotify, Wait, Woken, TimedOut, Clear,
         ResetPending, SetNotBlocked, Send, GetMsg
    <2> QED BY <2>1, <2>2, <2>3, <2>4
  <1>5. creates' \in 0..MaxCreates
    <2>1. creates' = creates \/ (creates < MaxCreates /\ creates' = creates + 1)
      BY DEF Step, vars, Create, Start, Exit, Finish, Delete, CleanUp, BlockingCall,
         GilEnter, Sleep, Poll, AllowSuspend, Suspend, Resume, Notify, GetNotify, Wait, Woken,
         TimedOut, Clear,
         ResetPending, SetNotBlocked, Send, GetMsg
    <2> QED BY <1>0, <2>1 DEF Values, BoundsAssumption
  <1> QED BY <1>1, <1>2, <1>3, <1>4, <1>5, QueuesStep DEF Values

LEMMA TypesInit == Init => TInv
  <1> SUFFICES ASSUME Init PROVE TInv
    OBVIOUS
  <1>1. Marked
    BY NodesAssumption DEF Init, Marked, ReadyPcs
  <1>2. Values
    BY NodesAssumption, BoundsAssumption DEF Init, Values, Pcs, ReadyPcs
  <1>3. StringsOwned
    <2>1. Queued(threadQueue) = {}
      <3>1. ASSUME NEW m \in Threads \X (1 .. QueueItems) PROVE ~(m[2] <= threadQueue[m[1]])
        <4>1. m[1] \in Threads /\ m[2] \in Nat /\ m[2] >= 1
          BY BoundsAssumption
        <4>2. threadQueue[m[1]] = 0
          BY <4>1 DEF Init
        <4> QED BY <4>1, <4>2
      <3> QED BY <3>1 DEF Queued
    <2>2. strings = 0 /\ leaked = 0 /\ deleted = {}
      BY DEF Init
    <2> QED BY <2>1, <2>2, FS_EmptySet DEF StringsOwned
  <1> QED BY <1>1, <1>2, <1>3 DEF TInv

LEMMA TypesInvariance == Spec => [](IInv /\ TInv)
  <1>1. Init => IInv /\ TInv
    BY InvInit, TypesInit
  <1>2. IInv /\ TInv /\ [Next]_vars => IInv' /\ TInv'
    <2> SUFFICES ASSUME IInv, TInv, [Next]_vars PROVE IInv' /\ TInv'
      OBVIOUS
    <2>1. IInv'
      BY InvStep
    <2>2. Step
      BY StepsOfNext
    <2> QED BY <2>1, <2>2, MarkedStep, QueuesStep, ValuesStep DEF TInv
  <1> QED
    BY <1>1, <1>2, PTL DEF Spec

(* Each copy of a string that mp_thread_semdmsg made is in exactly one     *)
(* queue until mp_thread_getmsg frees it, or the queue's thread ends and   *)
(* mp_clean_thread does; only one refused by a full queue is lost.         *)
THEOREM StringsAreOwned == Spec => []StringsOwned
  <1>1. TInv => StringsOwned
    BY DEF TInv
  <1> QED
    BY <1>1, TypesInvariance, PTL

(* A flag, a notification or a queue belongs to a node that is linked, and *)
(* the heap never holds less than no copy.                                 *)
THEOREM MpThreadTypeCorrect == Spec => []TypeOK
  <1>1. IInv /\ TInv => TypeOK
    <2> SUFFICES ASSUME IInv, TInv PROVE TypeOK
      OBVIOUS
    <2>1. Listed = {t \in Threads : pc[t] # "none"} /\ Marked /\ Values
      BY DEF IInv, TInv, ListIntact
    <2>2. \A f \in {ready, allow_suspend, suspended, waiting, notifyed, deleted} :
            f \subseteq Listed
      <3>1. \A t \in waiting : pc[t] # "none"
        BY <2>1 DEF IInv, Blocked, Marked
      <3>2. ready \subseteq Listed /\ deleted \subseteq Listed /\ waiting \subseteq Listed
        BY <2>1, <3>1 DEF Marked, ReadyPcs, DeletedPcs
      <3>3. allow_suspend \subseteq Listed /\ suspended \subseteq Listed
            /\ notifyed \subseteq Listed
        BY <2>1 DEF Marked
      <3> QED BY <3>2, <3>3
    <2>3. value \subseteq Listed /\ Listed \subseteq Threads
      BY <2>1 DEF Marked
    <2>5. pending \subseteq value
      <3>1. pending \subseteq Threads
        BY DEF IInv, NotesKnown
      <3> QED BY <3>1 DEF IInv, NotesKnown, Known, NotificationKept
    <2>4. strings \in 0..MaxStrings /\ leaked \in 0..MaxStrings
      <3>1. Cardinality(Queued(threadQueue)) \in Nat
        BY <2>1, QueuedFinite DEF Values
      <3>2. strings = leaked + Cardinality(Queued(threadQueue))
        BY DEF TInv, StringsOwned
      <3> QED BY <2>1, <3>1, <3>2, BoundsAssumption DEF Values
    <2> QED
      BY <2>1, <2>2, <2>3, <2>4, <2>5 DEF Values, TypeOK, Pcs, ReadyPcs, DeletedPcs
  <1> QED
    BY <1>1, TypesInvariance, PTL

=============================================================================
