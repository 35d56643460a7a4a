------------------------- MODULE VirtualTimersProofs -------------------------
(***************************************************************************)
(* Proofs about virtualtimers.py, for any number of tasks, callbacks and   *)
(* calls: until a call meddles with the list another one is going through, *)
(* the list holds the tasks that are to go on (TasksListed), and no task   *)
(* is overdue between ticks (OnTime).                                      *)
(***************************************************************************)
EXTENDS VirtualTimers, SequenceTheorems, WellFoundedInduction, TLAPS

---------------------------------------------------------------------------
(* Comprehensions.                                                         *)

(* A set of numbers that is not empty has a least one. *)
LEMMA LeastNumber ==
    ASSUME NEW S \in SUBSET Nat, S # {}
    PROVE  \E n \in S : \A m \in S : n <= m
  <1> DEFINE R == OpToRel(<, Nat)
  <1>1. IsWellFoundedOn(R, Nat)
    BY NatLessThanWellFounded
  <1>2. PICK n \in S : \A y \in S : <<y, n>> \notin R
    <2> HIDE DEF R
    <2> QED BY <1>1, WFMin, Zenon
  <1>3. \A y \in S : ~(y < n)
    BY <1>2 DEF OpToRel
  <1> QED BY <1>3

(* The function that Collected defines exists: it is put together from its *)
(* beginnings, of which a shortest one that did not exist would follow     *)
(* from the one before.                                                    *)
LEMMA CollectedStep ==
    ASSUME NEW list, Len(list) \in Nat, NEW gone
    PROVE  LET acc == Collected(list, gone) IN
           /\ acc[0] = <<>>
           /\ \A n \in 1 .. Len(list) :
                acc[n] = IF list[n] \in gone THEN acc[n - 1] ELSE Append(acc[n - 1], list[n])
  <1> DEFINE next(a, n) == IF list[n] \in gone THEN a ELSE Append(a, list[n])
             Begins(f, m) == f = [n \in 0 .. m |-> IF n = 0 THEN <<>> ELSE next(f[n - 1], n)]
             S == {m \in 0 .. Len(list) : ~\E f : Begins(f, m)}
  <1>1. S = {}
    <2> SUFFICES ASSUME S # {} PROVE FALSE
      OBVIOUS
    <2>1. PICK m \in S : \A k \in S : m <= k
      <3>1. S \in SUBSET Nat
        OBVIOUS
      <3> HIDE DEF S
      <3> QED BY <3>1, LeastNumber
    <2>2. CASE m = 0
      <3> DEFINE f == [n \in 0 .. 0 |-> <<>>]
      <3>1. Begins(f, 0)
        OBVIOUS
      <3> QED BY <2>1, <2>2, <3>1
    <2>3. CASE m # 0
      <3>1. m \in 1 .. Len(list) /\ m - 1 \in 0 .. Len(list) /\ ~(m <= m - 1)
        BY <2>1, <2>3
      <3>2. PICK f : Begins(f, m - 1)
        BY <2>1, <3>1
      <3> DEFINE g == [n \in 0 .. m |-> IF n = m THEN next(f[m - 1], m) ELSE f[n]]
      <3> HIDE DEF next
      <3>3. ASSUME NEW n \in 0 .. m
            PROVE  g[n] = IF n = 0 THEN <<>> ELSE next(g[n - 1], n)
        <4>1. CASE n = m
          <5>1. n # 0 /\ n - 1 \in 0 .. m /\ n - 1 # m
            BY <3>1, <4>1
          <5>2. g[n] = next(f[n - 1], n) /\ g[n - 1] = f[n - 1]
            BY <4>1, <5>1
          <5> HIDE DEF g
          <5> QED BY <5>1, <5>2
        <4>2. CASE n # m
          <5>1. n \in 0 .. (m - 1) /\ g[n] = f[n]
            BY <3>1, <4>2
          <5>2. f[n] = IF n = 0 THEN <<>> ELSE next(f[n - 1], n)
            BY <3>2, <5>1
          <5>3. n # 0 => g[n - 1] = f[n - 1]
            BY <3>1, <4>2
          <5> HIDE DEF g
          <5> QED BY <5>1, <5>2, <5>3
        <4> QED BY <4>1, <4>2
      <3>4. Begins(g, m)
        <4>1. g = [n \in 0 .. m |-> g[n]]
          OBVIOUS
        <4> HIDE DEF g
        <4> QED BY <3>3, <4>1
      <3> HIDE DEF g, Begins
      <3> QED BY <2>1, <3>4
    <2> QED BY <2>2, <2>3
  <1>2. PICK f : Begins(f, Len(list))
    <2>1. Len(list) \in 0 .. Len(list)
      OBVIOUS
    <2> HIDE DEF Begins
    <2> QED BY <1>1, <2>1
  <1> DEFINE acc == Collected(list, gone)
  <1>3. acc = CHOOSE h : Begins(h, Len(list))
    BY DEF Collected
  <1>4. Begins(acc, Len(list))
    <2> HIDE DEF Begins, acc
    <2> QED BY <1>2, <1>3
  <1>5. \A n \in 0 .. Len(list) : acc[n] = IF n = 0 THEN <<>> ELSE next(acc[n - 1], n)
    <2> HIDE DEF acc, next
    <2> QED BY <1>4
  <1> HIDE DEF acc
  <1>6. acc[0] = <<>>
    BY <1>5
  <1>7. \A n \in 1 .. Len(list) :
            acc[n] = IF list[n] \in gone THEN acc[n - 1] ELSE Append(acc[n - 1], list[n])
    BY <1>5
  <1> QED BY <1>6, <1>7 DEF acc

(* Of the first n elements a comprehension has collected those that stay,  *)
(* each once if the list has each once; as many as n only if all stay.     *)
Comprehends(acc, list, gone, n) ==
    /\ Len(acc) <= n
    /\ \A x : x \in ToSet(acc) <=> x \notin gone /\ \E k \in 1 .. n : list[k] = x
    /\ IsInjective(list) => IsInjective(acc)
    /\ Len(acc) = n => \A k \in 1 .. n : list[k] \notin gone /\ acc[k] = list[k]

LEMMA Appended ==
    ASSUME NEW X, NEW acc \in Seq(X), NEW x \in X
    PROVE  /\ Append(acc, x) \in Seq(X) /\ Len(Append(acc, x)) = Len(acc) + 1
           /\ \A k \in 1 .. Len(acc) : Append(acc, x)[k] = acc[k]
           /\ Append(acc, x)[Len(acc) + 1] = x
           /\ \A y : y \in ToSet(Append(acc, x)) <=> y \in ToSet(acc) \/ y = x
           /\ IsInjective(acc) /\ x \notin ToSet(acc) => IsInjective(Append(acc, x))
  <1> DEFINE new == Append(acc, x)
  <1>1. /\ new \in Seq(X) /\ Len(new) = Len(acc) + 1 /\ Len(acc) \in Nat
        /\ \A k \in 1 .. Len(acc) : new[k] = acc[k]
        /\ new[Len(acc) + 1] = x
    BY AppendProperties
  <1>2. DOMAIN acc = 1 .. Len(acc) /\ DOMAIN new = 1 .. Len(new)
    BY <1>1, LenProperties
  <1> HIDE DEF new
  <1>3. \A k \in DOMAIN new : k \in DOMAIN acc \/ k = Len(acc) + 1
    BY <1>1, <1>2
  <1>4. Len(acc) + 1 \in DOMAIN new /\ DOMAIN acc \subseteq DOMAIN new
    BY <1>1, <1>2
  <1>5. \A y : y \in ToSet(new) <=> y \in ToSet(acc) \/ y = x
    BY <1>1, <1>2, <1>3, <1>4 DEF ToSet
  <1>6. IsInjective(acc) /\ x \notin ToSet(acc) => IsInjective(new)
    BY <1>1, <1>2, <1>3 DEF IsInjective, ToSet
  <1> QED BY <1>1, <1>5, <1>6 DEF new

LEMMA CollectedComprehends ==
    ASSUME NEW X, NEW list \in Seq(X), NEW gone
    PROVE  \A n \in 0 .. Len(list) :
             LET acc == Collected(list, gone)[n] IN
             acc \in Seq(X) /\ Comprehends(acc, list, gone, n)
  <1> DEFINE acc == Collected(list, gone)
             P(n) == acc[n] \in Seq(X) /\ Comprehends(acc[n], list, gone, n)
             S == {n \in 0 .. Len(list) : ~P(n)}
  <1>0. Len(list) \in Nat /\ DOMAIN list = 1 .. Len(list)
        /\ \A k \in 1 .. Len(list) : list[k] \in X
    BY LenProperties, ElementOfSeq
  <1>1. acc[0] = <<>>
    BY <1>0, CollectedStep
  <1>2. \A n \in 1 .. Len(list) :
          acc[n] = IF list[n] \in gone THEN acc[n - 1] ELSE Append(acc[n - 1], list[n])
    BY <1>0, CollectedStep
  <1> HIDE DEF acc
  <1>3. P(0)
    <2>1. <<>> \in Seq(X) /\ Len(<<>>) = 0 /\ ToSet(<<>>) = {} /\ IsInjective(<<>>)
      BY EmptySeq DEF ToSet, IsInjective
    <2> QED BY <1>1, <2>1 DEF Comprehends
  <1>4. ASSUME NEW n \in 1 .. Len(list), P(n - 1) PROVE P(n)
    <2> DEFINE a == acc[n - 1]
    <2>1. /\ a \in Seq(X) /\ Len(a) \in Nat /\ Len(a) <= n - 1 /\ n \in Nat /\ n \in DOMAIN list
          /\ list[n] \in X
      BY <1>0, <1>4, LenProperties DEF Comprehends
    <2>2. \A x : x \in ToSet(a) <=> x \notin gone /\ \E k \in 1 .. (n - 1) : list[k] = x
      BY <1>4 DEF Comprehends
    <2>3. IsInjective(list) => IsInjective(a)
      BY <1>4 DEF Comprehends
    <2>4. Len(a) = n - 1 => \A k \in 1 .. (n - 1) : list[k] \notin gone /\ a[k] = list[k]
      BY <1>4 DEF Comprehends
    <2> HIDE DEF a
    <2>5. \A k : k \in 1 .. n <=> k \in 1 .. (n - 1) \/ k = n
      BY <2>1
    <2>6. CASE list[n] \in gone
      <3>1. acc[n] = a
        BY <1>2, <2>6 DEF a
      <3>2. Len(a) <= n /\ Len(a) # n
        BY <2>1
      <3> QED BY <2>1, <2>2, <2>3, <2>5, <2>6, <3>1, <3>2 DEF Comprehends
    <2>7. CASE list[n] \notin gone
      <3> DEFINE b == Append(a, list[n])
      <3>1. acc[n] = b
        BY <1>2, <2>7 DEF a
      <3>2. /\ b \in Seq(X) /\ Len(b) = Len(a) + 1
            /\ \A k \in 1 .. Len(a) : b[k] = a[k]
            /\ b[Len(a) + 1] = list[n]
            /\ \A y : y \in ToSet(b) <=> y \in ToSet(a) \/ y = list[n]
            /\ IsInjective(a) /\ list[n] \notin ToSet(a) => IsInjective(b)
        BY <2>1, Appended
      <3> HIDE DEF b
      <3>3. Len(b) <= n /\ (Len(b) = n => Len(a) = n - 1)
        BY <2>1, <3>2
      <3>4. \A x : x \in ToSet(b) <=> x \notin gone /\ \E k \in 1 .. n : list[k] = x
        BY <2>2, <2>5, <2>7, <3>2
      <3>5. IsInjective(list) => IsInjective(b)
        <4>1. SUFFICES ASSUME IsInjective(list) PROVE list[n] \notin ToSet(a)
          BY <2>3, <3>2
        <4>2. \A k \in 1 .. (n - 1) : k \in DOMAIN list /\ k # n
          BY <1>0, <2>1
        <4> QED BY <2>1, <2>2, <4>1, <4>2 DEF IsInjective
      <3>6. Len(b) = n => \A k \in 1 .. n : list[k] \notin gone /\ b[k] = list[k]
        BY <2>1, <2>4, <2>5, <2>7, <3>2, <3>3
      <3> QED BY <3>1, <3>2, <3>3, <3>4, <3>5, <3>6 DEF Comprehends
    <2> QED BY <2>6, <2>7
  <1>5. S = {}
    <2> SUFFICES ASSUME S # {} PROVE FALSE
      OBVIOUS
    <2>1. PICK m \in S : \A k \in S : m <= k
      <3>1. S \in SUBSET Nat
        OBVIOUS
      <3> HIDE DEF S
      <3> QED BY <3>1, LeastNumber
    <2>2. m \in 0 .. Len(list) /\ ~P(m)
      BY <2>1
    <2> HIDE DEF P
    <2>3. m \in 1 .. Len(list) /\ m - 1 \in 0 .. Len(list) /\ ~(m <= m - 1)
      BY <1>0, <1>3, <2>2
    <2>4. P(m - 1)
      BY <2>1, <2>3
    <2> QED BY <1>4, <2>2, <2>3, <2>4
  <1> HIDE DEF P
  <1>6. \A n \in 0 .. Len(list) : P(n)
    BY <1>5
  <1> QED BY <1>6 DEF P, acc

(* What a comprehension returns. *)
LEMMA WithoutGone ==
    ASSUME NEW X, NEW list \in Seq(X), NEW gone
    PROVE  LET new == Without(list, gone) IN
           /\ new \in Seq(X) /\ ToSet(new) = ToSet(list) \ gone
           /\ IsInjective(list) => IsInjective(new)
           /\ ~(Len(new) < Len(list)) => new = list
  <1> DEFINE new == Without(list, gone)
  <1>0. Len(list) \in Nat /\ DOMAIN list = 1 .. Len(list)
    BY LenProperties
  <1>1. new \in Seq(X) /\ Comprehends(new, list, gone, Len(list))
    <2>1. Len(list) \in 0 .. Len(list)
      BY <1>0
    <2> QED BY <2>1, CollectedComprehends DEF Without
  <1>2. Len(new) \in Nat /\ DOMAIN new = 1 .. Len(new)
    BY <1>1, LenProperties
  <1> HIDE DEF new
  <1>3. ToSet(new) = ToSet(list) \ gone
    <2>1. \A x : x \in ToSet(list) <=> \E k \in 1 .. Len(list) : list[k] = x
      BY <1>0 DEF ToSet
    <2> QED BY <1>1, <2>1 DEF Comprehends
  <1>4. Len(new) <= Len(list)
    BY <1>1 DEF Comprehends
  <1>5. ASSUME ~(Len(new) < Len(list)) PROVE new = list
    <2>1. Len(new) \in Nat /\ Len(list) \in Nat
      BY <1>0, <1>2
    <2>2. Len(new) = Len(list)
      BY <1>4, <1>5, <2>1
    <2>3. \A k \in 1 .. Len(list) : new[k] = list[k]
      BY <1>1, <2>2 DEF Comprehends
    <2> QED BY <1>1, <2>2, <2>3, SeqEqual
  <1> QED BY <1>1, <1>3, <1>5 DEF new, Comprehends

---------------------------------------------------------------------------
(* The invariant.                                                          *)

(* The list: each task in it once, none of those that go on missing; one   *)
(* that has ended is marked until the end of the tick.                     *)
Tasks == [pos : Int, target : Int, cb : Callbacks]
ListOK ==
    /\ task \in Seq(Tasks)
    /\ scheduler \in Seq(DOMAIN task) /\ IsInjective(scheduler)
    /\ DOMAIN task \ ended \subseteq ToSet(scheduler)
    /\ ended \subseteq DOMAIN task
    /\ \A i \in ToSet(scheduler) : i \in ended <=> task[i].pos < 0

(* The tick: where the loop is, and that the tasks behind it have their    *)
(* time or are marked, those before it are not late.                       *)
Timely(t) == t.pos \in 0 .. t.target
Ticks == [at : {"idle", "advance", "call"}, i : Nat, s : Nat, item : Nat]
TickOK ==
    /\ tick \in Ticks
    /\ tick.at = "idle" => \A k \in DOMAIN scheduler : Timely(task[scheduler[k]])
    /\ tick.at # "idle" =>
         /\ tick.s <= Len(scheduler) /\ tick.i \in 1 .. tick.s + 1
         /\ \A k \in DOMAIN scheduler :
              /\ k < tick.i => Timely(task[scheduler[k]]) \/ task[scheduler[k]].pos = -1
              /\ k > tick.i => Timely(task[scheduler[k]])
    /\ tick.at = "advance" => \A k \in DOMAIN scheduler : k = tick.i => Timely(task[scheduler[k]])
    /\ tick.at = "call" =>
         /\ tick.i <= tick.s /\ tick.item = scheduler[tick.i]
         /\ task[tick.item].pos \in Nat

(* A call of the program: its loop stays inside the list, and delete has   *)
(* collected what it went past.                                            *)
ProgOK ==
    /\ prog.at \in {"idle", "find", "filter", "compare", "assign"}
    /\ prog = [at |-> prog.at, cb |-> prog.cb, target |-> prog.target, i |-> prog.i,
               n |-> prog.n, src |-> prog.src, shared |-> prog.shared, acc |-> prog.acc]
    /\ prog.target \in Nat /\ prog.i \in Nat /\ prog.n \in Nat /\ prog.shared \in BOOLEAN
    /\ prog.at \in {"find", "compare", "assign"} =>
         prog.n <= Len(scheduler) /\ prog.i \in 1 .. prog.n + 1
    /\ prog.at = "find" => prog.acc = <<>>
    /\ prog.at = "assign" => prog.i <= prog.n
    /\ prog.at = "filter" =>
         /\ prog.i \in 1 .. Len(scheduler) + 1
         /\ prog.i > 1 /\ ~prog.shared => prog.src = scheduler
         /\ prog.acc = Collected(scheduler, WithCallback(scheduler, prog.cb))[prog.i - 1]

(* The inductive invariant. *)
Good == ListOK /\ TickOK /\ ProgOK
IInv == meddled \in BOOLEAN /\ (~meddled => Good)

---------------------------------------------------------------------------
(* Tasks.                                                                  *)

(* The parts of a state the invariant speaks of. *)
LEMMA ListFacts ==
    ASSUME ListOK
    PROVE  /\ Len(task) \in Nat /\ DOMAIN task = 1 .. Len(task)
           /\ \A i \in DOMAIN task : task[i] \in Tasks /\ task[i].pos \in Int
                /\ task[i].target \in Int
           /\ Len(scheduler) \in Nat /\ DOMAIN scheduler = 1 .. Len(scheduler)
           /\ \A k \in DOMAIN scheduler :
                scheduler[k] \in DOMAIN task /\ scheduler[k] \in ToSet(scheduler)
           /\ ToSet(scheduler) \subseteq DOMAIN task
           /\ \A i \in ToSet(scheduler) : \E k \in DOMAIN scheduler : scheduler[k] = i
  <1>1. Len(task) \in Nat /\ DOMAIN task = 1 .. Len(task) /\ \A i \in DOMAIN task : task[i] \in Tasks
    BY LenProperties, ElementOfSeq DEF ListOK
  <1>2. /\ Len(scheduler) \in Nat /\ DOMAIN scheduler = 1 .. Len(scheduler)
        /\ \A k \in DOMAIN scheduler : scheduler[k] \in DOMAIN task
    <2> DEFINE D == DOMAIN task
    <2>1. scheduler \in Seq(D)
      BY DEF ListOK
    <2> HIDE DEF D
    <2>2. Len(scheduler) \in Nat /\ DOMAIN scheduler = 1 .. Len(scheduler)
          /\ \A k \in DOMAIN scheduler : scheduler[k] \in D
      BY <2>1, LenProperties, ElementOfSeq
    <2> QED BY <2>2 DEF D
  <1>3. \A i : i \in ToSet(scheduler) <=> \E k \in DOMAIN scheduler : scheduler[k] = i
    BY DEF ToSet
  <1>4. \A i \in DOMAIN task : task[i].pos \in Int /\ task[i].target \in Int
    BY <1>1 DEF Tasks
  <1> QED BY <1>1, <1>2, <1>3, <1>4

LEMMA IsSeq ==
    ASSUME NEW X, NEW n \in Nat, NEW f, f = [j \in 1 .. n |-> f[j]],
           \A j \in 1 .. n : f[j] \in X
    PROVE  f \in Seq(X)
  <1>1. f \in [1 .. n -> X]
    OBVIOUS
  <1> QED BY <1>1, SeqDef

(* Setting a task's time leaves the others, and its function, alone. *)
LEMMA TaskSet ==
    ASSUME task \in Seq(Tasks), NEW i \in DOMAIN task, NEW p \in Int, NEW g \in Int,
           task' = [task EXCEPT ![i].pos = p, ![i].target = g]
    PROVE  /\ task' \in Seq(Tasks) /\ DOMAIN task' = DOMAIN task
           /\ task'[i].pos = p /\ task'[i].target = g
           /\ \A j \in DOMAIN task : task'[j].cb = task[j].cb /\ (j # i => task'[j] = task[j])
  <1>1. task[i] \in Tasks /\ DOMAIN task = 1 .. Len(task) /\ Len(task) \in Nat
    BY ElementOfSeq, LenProperties
  <1>2. /\ DOMAIN task' = DOMAIN task /\ task'[i] = [task[i] EXCEPT !.pos = p, !.target = g]
        /\ \A j \in DOMAIN task : j # i => task'[j] = task[j]
    OBVIOUS
  <1>3. task'[i] \in Tasks /\ task'[i].pos = p /\ task'[i].target = g /\ task'[i].cb = task[i].cb
    <2> DEFINE t == task[i]
    <2>1. t.cb \in Callbacks /\ t = [pos |-> t.pos, target |-> t.target, cb |-> t.cb]
      BY <1>1 DEF Tasks
    <2>2. task'[i] = [t EXCEPT !.pos = p, !.target = g]
      BY <1>2
    <2> HIDE DEF t
    <2>3. task'[i] = [pos |-> p, target |-> g, cb |-> t.cb]
      BY <2>1, <2>2
    <2>4. task'[i] \in Tasks
      BY <2>1, <2>3 DEF Tasks
    <2>5. task'[i].pos = p /\ task'[i].target = g /\ task'[i].cb = t.cb
      BY <2>3
    <2> QED BY <2>4, <2>5 DEF t
  <1>4. \A j \in 1 .. Len(task) : task'[j] \in Tasks
    BY <1>1, <1>2, <1>3, ElementOfSeq
  <1>5. task' = [j \in 1 .. Len(task) |-> task'[j]]
    BY <1>1
  <1>6. task' \in Seq(Tasks)
    BY <1>1, <1>4, <1>5, IsSeq
  <1> QED BY <1>2, <1>3, <1>6

LEMMA TaskAdvanced ==
    ASSUME task \in Seq(Tasks), NEW i \in DOMAIN task,
           task' = [task EXCEPT ![i].pos = @ + 1]
    PROVE  /\ task' \in Seq(Tasks) /\ DOMAIN task' = DOMAIN task
           /\ task'[i].pos = task[i].pos + 1 /\ task'[i].target = task[i].target
           /\ \A j \in DOMAIN task : task'[j].cb = task[j].cb /\ (j # i => task'[j] = task[j])
  <1>1. task[i] \in Tasks /\ DOMAIN task = 1 .. Len(task) /\ Len(task) \in Nat
    BY ElementOfSeq, LenProperties
  <1>2. /\ DOMAIN task' = DOMAIN task /\ task'[i] = [task[i] EXCEPT !.pos = @ + 1]
        /\ \A j \in DOMAIN task : j # i => task'[j] = task[j]
    OBVIOUS
  <1>3. task'[i] \in Tasks /\ task'[i].pos = task[i].pos + 1
        /\ task'[i].target = task[i].target /\ task'[i].cb = task[i].cb
    <2> DEFINE t == task[i]
    <2>1. /\ t.pos \in Int /\ t.target \in Int /\ t.cb \in Callbacks
          /\ t = [pos |-> t.pos, target |-> t.target, cb |-> t.cb]
      BY <1>1 DEF Tasks
    <2>2. task'[i] = [t EXCEPT !.pos = t.pos + 1]
      BY <1>2
    <2> HIDE DEF t
    <2>3. task'[i] = [pos |-> t.pos + 1, target |-> t.target, cb |-> t.cb]
      BY <2>1, <2>2
    <2>4. t.pos + 1 \in Int
      BY <2>1
    <2>5. task'[i] \in Tasks
      BY <2>1, <2>3, <2>4 DEF Tasks
    <2>6. task'[i].pos = t.pos + 1 /\ task'[i].target = t.target /\ task'[i].cb = t.cb
      BY <2>3
    <2> QED BY <2>5, <2>6 DEF t
  <1>4. \A j \in 1 .. Len(task) : task'[j] \in Tasks
    BY <1>1, <1>2, <1>3, ElementOfSeq
  <1>5. task' = [j \in 1 .. Len(task) |-> task'[j]]
    BY <1>1
  <1>6. task' \in Seq(Tasks)
    BY <1>1, <1>4, <1>5, IsSeq
  <1> QED BY <1>2, <1>3, <1>6

(* A call of the program goes on while the list and the functions stay. *)
LEMMA ProgStays ==
    ASSUME ListOK, ProgOK, scheduler' = scheduler, DOMAIN task' = DOMAIN task,
           \A i \in DOMAIN task : task'[i].cb = task[i].cb,
           \/ prog' = prog
           \/ prog' = [prog EXCEPT !.src = scheduler, !.shared = FALSE]
    PROVE  ProgOK'
  <1>1. /\ prog' = [at |-> prog'.at, cb |-> prog'.cb, target |-> prog'.target, i |-> prog'.i,
                    n |-> prog'.n, src |-> prog'.src, shared |-> prog'.shared,
                    acc |-> prog'.acc]
        /\ prog'.at = prog.at /\ prog'.cb = prog.cb /\ prog'.target = prog.target
        /\ prog'.i = prog.i /\ prog'.n = prog.n /\ prog'.acc = prog.acc
        /\ prog'.shared \in BOOLEAN
        /\ (prog'.shared = prog.shared /\ prog'.src = prog.src) \/ prog'.src = scheduler
    BY DEF ProgOK
  <1>2. WithCallback(scheduler, prog.cb)' = WithCallback(scheduler, prog.cb)
    BY <1>1, ListFacts DEF WithCallback
  <1> QED BY <1>1, <1>2 DEF ProgOK

---------------------------------------------------------------------------
(* new, update and delete, by a task or between ticks.                     *)

LEMMA NewStep ==
    ASSUME Good, NEW c \in Callbacks, NEW target \in Targets, New(c, target),
           tick' = tick, tick.at \in {"idle", "call"}, ~Meddles
    PROVE  Good'
  <1>0. ListOK /\ TickOK /\ ProgOK /\ target \in Nat
    BY TargetsAssumption DEF Good
  <1> DEFINE n == Len(task) + 1
             r == [pos |-> 0, target |-> target, cb |-> c]
  <1>1. task' = Append(task, r) /\ scheduler' = Append(scheduler, n)
        /\ prog' = prog /\ ended' = ended
    BY DEF New
  <1>2. r \in Tasks
    BY <1>0 DEF Tasks
  <1>3. /\ task' \in Seq(Tasks) /\ Len(task') = n /\ task'[n] = r
        /\ \A i \in DOMAIN task : task'[i] = task[i]
        /\ DOMAIN task' = 1 .. n
    <2>1. task \in Seq(Tasks)
      BY <1>0 DEF ListOK
    <2> HIDE DEF r
    <2> QED BY <1>1, <1>2, <2>1, Appended, LenProperties
  <1>4. DOMAIN task' = DOMAIN task \cup {n} /\ n \notin DOMAIN task /\ n \in Nat
    BY <1>0, <1>3, ListFacts
  <1>5. /\ scheduler' \in Seq(DOMAIN task') /\ Len(scheduler') = Len(scheduler) + 1
        /\ \A k \in 1 .. Len(scheduler) : scheduler'[k] = scheduler[k]
        /\ scheduler'[Len(scheduler) + 1] = n
        /\ \A y : y \in ToSet(scheduler') <=> y \in ToSet(scheduler) \/ y = n
        /\ IsInjective(scheduler) /\ n \notin ToSet(scheduler) => IsInjective(scheduler')
    <2> DEFINE D == DOMAIN task'
    <2>1. scheduler \in Seq(D) /\ n \in D
      <3>1. \A k \in 1 .. Len(scheduler) : scheduler[k] \in D
        BY <1>0, <1>4, ListFacts
      <3>2. scheduler \in Seq(DOMAIN task)
        BY <1>0 DEF ListOK
      <3>3. Len(scheduler) \in Nat /\ DOMAIN scheduler = 1 .. Len(scheduler)
        BY <1>0, ListFacts
      <3>4. scheduler = [k \in 1 .. Len(scheduler) |-> scheduler[k]]
        BY <3>2, <3>3
      <3> HIDE DEF D
      <3>5. scheduler \in Seq(D)
        BY <3>1, <3>3, <3>4
      <3> QED BY <1>4, <3>5 DEF D
    <2> HIDE DEF D, n
    <2> QED BY <1>1, <2>1, Appended DEF D
  <1> HIDE DEF n
  <1>6. n \notin ToSet(scheduler) /\ n \notin ended
    BY <1>0, <1>4, ListFacts DEF ListOK
  <1>7. task'[n].pos = 0 /\ task'[n].target = target
    BY <1>3
  <1> HIDE DEF r
  <1>8. ListOK'
    <2>1. \A i \in ToSet(scheduler') : i \in ended' <=> task'[i].pos < 0
      <3>1. \A i \in ToSet(scheduler) : i \in ended' <=> task'[i].pos < 0
        BY <1>0, <1>1, <1>3, ListFacts DEF ListOK
      <3>2. n \notin ended' /\ ~(task'[n].pos < 0)
        BY <1>1, <1>6, <1>7
      <3> QED BY <1>5, <3>1, <3>2
    <2>2. DOMAIN task' \ ended' \subseteq ToSet(scheduler') /\ ended' \subseteq DOMAIN task'
      BY <1>0, <1>1, <1>4, <1>5 DEF ListOK
    <2>3. IsInjective(scheduler')
      BY <1>0, <1>5, <1>6 DEF ListOK
    <2> QED BY <1>3, <1>5, <2>1, <2>2, <2>3 DEF ListOK
  <1>9. /\ Len(scheduler) \in Nat /\ DOMAIN scheduler = 1 .. Len(scheduler)
        /\ DOMAIN scheduler' = 1 .. Len(scheduler')
    <2>1. ListOK'
      BY <1>8
    <2> QED BY <1>0, <1>5, <2>1, ListFacts, LenProperties DEF ListOK
  <1>10. \A k \in DOMAIN scheduler' :
           \/ k \in DOMAIN scheduler /\ scheduler'[k] = scheduler[k]
              /\ task'[scheduler'[k]] = task[scheduler[k]]
           \/ k = Len(scheduler) + 1 /\ Timely(task'[scheduler'[k]])
    <2>1. ASSUME NEW k \in DOMAIN scheduler' PROVE k \in DOMAIN scheduler \/ k = Len(scheduler) + 1
      BY <1>5, <1>9
    <2>2. ASSUME NEW k \in DOMAIN scheduler
          PROVE  scheduler'[k] = scheduler[k] /\ task'[scheduler'[k]] = task[scheduler[k]]
      BY <1>0, <1>3, <1>5, <1>9, ListFacts
    <2>3. Timely(task'[n])
      BY <1>0, <1>7 DEF Timely
    <2>4. scheduler'[Len(scheduler) + 1] = n
      BY <1>5
    <2> QED BY <2>1, <2>2, <2>3, <2>4 DEF Timely
  <1>11. TickOK'
    <2>1. CASE tick.at = "idle"
      BY <1>0, <1>10, <2>1 DEF TickOK, Ticks, Timely
    <2>2. CASE tick.at = "call"
      <3>1. /\ tick.s <= Len(scheduler') /\ tick.i \in 1 .. tick.s + 1 /\ tick.i <= tick.s
            /\ tick.i \in DOMAIN scheduler /\ tick.i < Len(scheduler) + 1
            /\ tick.s \in Nat /\ tick.i \in Nat
        BY <1>0, <1>5, <1>9, <2>2 DEF TickOK, Ticks
      <3>2. scheduler'[tick.i] = scheduler[tick.i]
            /\ task'[scheduler'[tick.i]] = task[scheduler[tick.i]]
        BY <1>0, <1>3, <1>5, <1>9, <3>1, ListFacts
      <3>3. \A k \in DOMAIN scheduler' :
              /\ k < tick.i => Timely(task'[scheduler'[k]]) \/ task'[scheduler'[k]].pos = -1
              /\ k > tick.i => Timely(task'[scheduler'[k]])
        BY <1>0, <1>9, <1>10, <2>2, <3>1 DEF TickOK, Ticks, Timely
      <3> QED BY <1>0, <2>2, <3>1, <3>2, <3>3 DEF TickOK, Ticks
    <2> QED BY <2>1, <2>2
  <1>12. ProgOK'
    <2>1. scheduler' # scheduler
      BY <1>5, <1>9
    <2>2. prog.at = "idle"
      BY <1>1, <2>1, <1>0 DEF Meddles, ProgOK
    <2> QED BY <1>0, <1>1, <2>2 DEF ProgOK
  <1> QED BY <1>8, <1>11, <1>12 DEF Good

(* Of tasks that got a new time none is late, whatever it was before. *)
LEMMA UpdateStep ==
    ASSUME Good, NEW c \in Callbacks, NEW target \in Targets, Update(c, target),
           tick' = tick, tick.at \in {"idle", "call"}
    PROVE  Good'
  <1>0. ListOK /\ TickOK /\ ProgOK /\ target \in Nat
    BY TargetsAssumption DEF Good
  <1> DEFINE W == WithCallback(scheduler, c)
  <1>1. /\ task' = [i \in DOMAIN task |-> IF i \in W
                        THEN [task[i] EXCEPT !.pos = 0, !.target = target] ELSE task[i]]
        /\ ended' = ended \ W /\ scheduler' = scheduler /\ prog' = prog
    BY DEF Update
  <1>2. W \subseteq ToSet(scheduler)
    BY DEF WithCallback
  <1> HIDE DEF W
  <1>3. ASSUME NEW i \in DOMAIN task
        PROVE  /\ task'[i] \in Tasks /\ task'[i].cb = task[i].cb
               /\ i \in W => task'[i].pos = 0 /\ task'[i].target = target
               /\ i \notin W => task'[i] = task[i]
    <2>1. task[i] \in Tasks
      BY <1>0, ListFacts
    <2>2. task'[i] = IF i \in W THEN [task[i] EXCEPT !.pos = 0, !.target = target] ELSE task[i]
      BY <1>1
    <2>3. CASE i \in W
      <3>1. task'[i] = [task[i] EXCEPT !.pos = 0, !.target = target]
        BY <2>2, <2>3
      <3>2. task'[i] \in Tasks /\ task'[i].pos = 0 /\ task'[i].target = target
            /\ task'[i].cb = task[i].cb
        <4>1. target \in Int
          BY <1>0
        <4>2. task'[i] = [pos |-> 0, target |-> target, cb |-> task[i].cb]
          BY <2>1, <3>1 DEF Tasks
        <4>3. task[i].cb \in Callbacks
          BY <2>1 DEF Tasks
        <4> QED BY <4>1, <4>2, <4>3 DEF Tasks
      <3> QED BY <2>3, <3>2
    <2>4. CASE i \notin W
      BY <2>1, <2>2, <2>4
    <2> QED BY <2>3, <2>4
  <1>4. task' \in Seq(Tasks) /\ DOMAIN task' = DOMAIN task
    <2>1. DOMAIN task' = 1 .. Len(task) /\ task' = [i \in 1 .. Len(task) |-> task'[i]]
          /\ Len(task) \in Nat /\ DOMAIN task = 1 .. Len(task)
      BY <1>0, <1>1, ListFacts
    <2>2. \A i \in 1 .. Len(task) : task'[i] \in Tasks
      BY <1>3, <2>1
    <2> QED BY <2>1, <2>2
  <1>5. ListOK'
    <2>1. \A i \in ToSet(scheduler) : i \in ended' <=> task'[i].pos < 0
      <3>1. ASSUME NEW i \in ToSet(scheduler) PROVE i \in ended' <=> task'[i].pos < 0
        <4>1. i \in DOMAIN task /\ (i \in ended <=> task[i].pos < 0)
          BY <1>0, ListFacts DEF ListOK
        <4>2. CASE i \in W
          <5>1. task'[i].pos = 0 /\ i \notin ended'
            BY <1>1, <1>3, <4>1, <4>2
          <5> QED BY <5>1
        <4>3. CASE i \notin W
          <5>1. task'[i] = task[i] /\ (i \in ended' <=> i \in ended)
            BY <1>1, <1>3, <4>1, <4>3
          <5> QED BY <4>1, <5>1
        <4> QED BY <4>2, <4>3
      <3> QED BY <3>1
    <2> QED BY <1>0, <1>1, <1>2, <1>4, <2>1 DEF ListOK
  <1>6. \A i \in ToSet(scheduler) : Timely(task'[i]) \/ task'[i] = task[i]
    <2>1. ASSUME NEW i \in ToSet(scheduler) PROVE Timely(task'[i]) \/ task'[i] = task[i]
      <3>1. i \in DOMAIN task
        BY <1>0, ListFacts
      <3> QED BY <1>0, <1>3, <3>1 DEF Timely
    <2> QED BY <2>1
  <1>7. \A k \in DOMAIN scheduler :
          Timely(task'[scheduler[k]]) \/ task'[scheduler[k]] = task[scheduler[k]]
    BY <1>0, <1>6, ListFacts
  <1>8. TickOK'
    <2>1. CASE tick.at = "idle"
      BY <1>0, <1>1, <1>7, <2>1 DEF TickOK, Ticks, Timely
    <2>2. CASE tick.at = "call"
      <3>1. tick.i \in DOMAIN scheduler
        BY <1>0, <2>2, ListFacts DEF TickOK, Ticks
      <3>2. task'[tick.item].pos \in Nat
        <4>1. tick.item \in DOMAIN task /\ task[tick.item].pos \in Nat
          BY <1>0, <2>2, <3>1, ListFacts DEF TickOK, Ticks
        <4> QED BY <1>3, <4>1
      <3>3. \A k \in DOMAIN scheduler :
              /\ k < tick.i => Timely(task'[scheduler[k]]) \/ task'[scheduler[k]].pos = -1
              /\ k > tick.i => Timely(task'[scheduler[k]])
        BY <1>0, <1>7, <2>2 DEF TickOK, Ticks, Timely
      <3> QED BY <1>0, <1>1, <2>2, <3>2, <3>3 DEF TickOK, Ticks, Timely
    <2> QED BY <2>1, <2>2
  <1>9. ProgOK'
    BY <1>0, <1>1, <1>3, <1>4, ProgStays
  <1> QED BY <1>5, <1>8, <1>9 DEF Good

(* The list without some tasks of it, which are taken to have ended: while *)
(* nothing walks through the list.                                         *)
LEMMA Shrinks ==
    ASSUME ListOK, ProgOK, NEW gone \in SUBSET ToSet(scheduler), NEW new,
           new = Without(scheduler, gone), Rebind(new), task' = task, ~Meddles
    PROVE  /\ scheduler' = new /\ new \in Seq(DOMAIN task) /\ IsInjective(new)
           /\ ToSet(new) = ToSet(scheduler) \ gone
           /\ tick.at = "call" => new = scheduler /\ gone = {}
           /\ ProgOK'
  <1> DEFINE D == DOMAIN task
  <1>1. scheduler' = new
        /\ prog' = IF prog.shared THEN [prog EXCEPT !.src = scheduler, !.shared = FALSE]
                   ELSE prog
    BY DEF Rebind
  <1>2. /\ new \in Seq(D) /\ ToSet(new) = ToSet(scheduler) \ gone
        /\ IsInjective(scheduler) => IsInjective(new)
        /\ ~(Len(new) < Len(scheduler)) => new = scheduler
    <2>1. scheduler \in Seq(D)
      BY DEF ListOK
    <2> HIDE DEF D
    <2> QED BY <2>1, WithoutGone
  <1>3. new = scheduler => gone = {}
    BY <1>2
  <1>4. IsInjective(new)
    BY <1>2 DEF ListOK
  <1>5. prog'.at = prog.at
    BY <1>1 DEF ProgOK
  <1>6. tick.at = "call" => new = scheduler
    BY <1>1, <1>2 DEF Meddles
  <1>7. ProgOK'
    <2>1. CASE prog.at = "idle"
      BY <1>1, <2>1 DEF ProgOK
    <2>2. CASE prog.at # "idle"
      <3>1. scheduler' = scheduler
        BY <1>5, <2>2 DEF Meddles
      <3> QED BY <1>1, <3>1, ProgStays
    <2> QED BY <2>1, <2>2
  <1> QED BY <1>1, <1>2, <1>3, <1>4, <1>6, <1>7

LEMMA DeleteStep ==
    ASSUME Good, NEW c \in Callbacks, Delete(c), tick' = tick,
           tick.at \in {"idle", "call"}, ~Meddles
    PROVE  Good'
  <1>0. ListOK /\ TickOK /\ ProgOK
    BY DEF Good
  <1> DEFINE W == WithCallback(scheduler, c)
             new == Without(scheduler, W)
  <1>1. Rebind(new) /\ ended' = ended \cup W /\ task' = task
    BY DEF Delete
  <1>2. W \in SUBSET ToSet(scheduler)
    BY DEF WithCallback
  <1> HIDE DEF W
  <1>3. /\ scheduler' = new /\ new \in Seq(DOMAIN task) /\ IsInjective(new)
        /\ ToSet(new) = ToSet(scheduler) \ W
        /\ tick.at = "call" => new = scheduler /\ W = {}
        /\ ProgOK'
    BY <1>0, <1>1, <1>2, Shrinks
  <1> HIDE DEF new
  <1>4. ListOK'
    BY <1>0, <1>1, <1>2, <1>3, ListFacts DEF ListOK
  <1>5. TickOK'
    <2>1. CASE tick.at = "idle"
      <3>1. \A i \in ToSet(scheduler) : Timely(task[i])
        BY <1>0, <2>1, ListFacts DEF TickOK, Ticks
      <3>2. \A k \in DOMAIN new : new[k] \in ToSet(scheduler)
        BY <1>3 DEF ToSet
      <3> QED BY <1>0, <1>1, <1>3, <2>1, <3>1, <3>2 DEF TickOK, Ticks, Timely
    <2>2. CASE tick.at = "call"
      BY <1>0, <1>1, <1>3, <2>2 DEF TickOK, Ticks, Timely
    <2> QED BY <2>1, <2>2
  <1> QED BY <1>3, <1>4, <1>5 DEF Good

---------------------------------------------------------------------------
(* The tick.                                                               *)

LEMMA TickBeginStep ==
    ASSUME Good, TickBegin
    PROVE  Good'
  <1>0. ListOK /\ TickOK /\ ProgOK
    BY DEF Good
  <1>1. /\ scheduler' = scheduler /\ task' = task /\ prog' = prog /\ ended' = ended
        /\ tick.at = "idle" /\ tick' = [tick EXCEPT !.at = "advance", !.i = 1, !.s = Len(scheduler)]
    BY DEF TickBegin
  <1>2. ListOK' /\ ProgOK'
    BY <1>0, <1>1, ProgStays DEF ListOK
  <1>3. /\ tick'.at = "advance" /\ tick'.i = 1 /\ tick'.s = Len(scheduler)
        /\ tick' \in Ticks
    <2>1. tick \in Ticks /\ Len(scheduler) \in Nat
      BY <1>0, ListFacts DEF TickOK, Ticks
    <2> QED BY <1>1, <2>1 DEF Ticks
  <1>4. TickOK'
    BY <1>0, <1>1, <1>3, ListFacts DEF TickOK, Ticks
  <1> QED BY <1>2, <1>4 DEF Good

(* No task comes twice in the list, so the others keep their time. *)
LEMMA OthersKept ==
    ASSUME ListOK, NEW n \in DOMAIN scheduler,
           \A j \in DOMAIN task : j # scheduler[n] => task'[j] = task[j]
    PROVE  \A k \in DOMAIN scheduler : k # n => task'[scheduler[k]] = task[scheduler[k]]
  BY ListFacts DEF ListOK, IsInjective

LEMMA AdvanceStep ==
    ASSUME Good, Advance
    PROVE  Good'
  <1>0. ListOK /\ TickOK /\ ProgOK
    BY DEF Good
  <1>1. tick.at = "advance" /\ tick.i \in DOMAIN scheduler /\ tick.i \in Nat /\ tick.s \in Nat
        /\ tick.i <= tick.s /\ tick.s <= Len(scheduler)
    BY <1>0, ListFacts DEF Advance, TickOK, Ticks
  <1> DEFINE i == scheduler[tick.i]
  <1>2. /\ task' = [task EXCEPT ![i].pos = @ + 1]
        /\ tick' = IF task'[i].pos > task[i].target
                   THEN [tick EXCEPT !.at = "call", !.item = i]
                   ELSE [tick EXCEPT !.i = @ + 1]
        /\ scheduler' = scheduler /\ prog' = prog /\ ended' = ended
    BY <1>0, <1>1, ListFacts DEF Advance, TickRaises
  <1>3. i \in DOMAIN task /\ i \in ToSet(scheduler) /\ Timely(task[i]) /\ i \in Nat
        /\ task[i].pos \in Nat /\ task[i].target \in Int
    <2>1. i \in DOMAIN task /\ i \in ToSet(scheduler) /\ Timely(task[i])
      BY <1>0, <1>1, ListFacts DEF TickOK, Ticks
    <2>2. DOMAIN task \subseteq Nat /\ task[i].target \in Int /\ task[i].pos \in Int
      BY <1>0, <2>1, ListFacts
    <2> QED BY <2>1, <2>2 DEF Timely
  <1> HIDE DEF i
  <1>4. /\ task' \in Seq(Tasks) /\ DOMAIN task' = DOMAIN task
        /\ task'[i].pos = task[i].pos + 1 /\ task'[i].target = task[i].target
        /\ \A j \in DOMAIN task : task'[j].cb = task[j].cb /\ (j # i => task'[j] = task[j])
    BY <1>0, <1>2, <1>3, TaskAdvanced DEF ListOK
  <1>5. ListOK'
    <2>1. \A j \in ToSet(scheduler) : j \in ended <=> task'[j].pos < 0
      <3>1. i \notin ended /\ ~(task'[i].pos < 0)
        BY <1>0, <1>3, <1>4 DEF ListOK
      <3>2. \A j \in ToSet(scheduler) : j # i => (j \in ended <=> task'[j].pos < 0)
        BY <1>0, <1>4, ListFacts DEF ListOK
      <3> QED BY <3>1, <3>2
    <2> QED BY <1>0, <1>2, <1>4, <2>1 DEF ListOK
  <1>6. ProgOK'
    BY <1>0, <1>2, <1>4, ProgStays
  <1>7. \A k \in DOMAIN scheduler : k # tick.i => task'[scheduler[k]] = task[scheduler[k]]
    BY <1>0, <1>1, <1>4, OthersKept DEF i
  <1>8. \A k \in DOMAIN scheduler :
          /\ k < tick.i => Timely(task'[scheduler[k]]) \/ task'[scheduler[k]].pos = -1
          /\ k > tick.i => Timely(task'[scheduler[k]])
    <2>1. \A k \in DOMAIN scheduler : k < tick.i \/ k > tick.i => k # tick.i
      BY <1>0, <1>1, ListFacts
    <2> QED BY <1>0, <1>1, <1>7, <2>1 DEF TickOK, Ticks
  <1>9. TickOK'
    <2>1. CASE task'[i].pos > task[i].target
      <3>1. /\ tick'.at = "call" /\ tick'.i = tick.i /\ tick'.s = tick.s /\ tick'.item = i
            /\ tick' \in Ticks
        <4>1. tick \in Ticks
          BY <1>0 DEF TickOK, Ticks
        <4>2. tick' = [tick EXCEPT !.at = "call", !.item = i] /\ tick.at = "advance"
          BY <1>1, <1>2, <2>1
        <4> QED BY <1>3, <4>1, <4>2 DEF Ticks
      <3>2. task'[i].pos \in Nat /\ tick.i \in 1 .. tick.s + 1
        BY <1>0, <1>1, <1>3, <1>4 DEF TickOK, Ticks
      <3> QED BY <1>1, <1>2, <1>8, <3>1, <3>2 DEF TickOK, Ticks, i
    <2>2. CASE ~(task'[i].pos > task[i].target)
      <3>1. /\ tick'.at = "advance" /\ tick'.i = tick.i + 1 /\ tick'.s = tick.s
            /\ tick' \in Ticks
        <4>1. tick \in Ticks
          BY <1>0 DEF TickOK, Ticks
        <4>2. tick' = [tick EXCEPT !.i = @ + 1] /\ tick.at = "advance"
          BY <1>1, <1>2, <2>2
        <4> QED BY <1>1, <4>1, <4>2 DEF Ticks
      <3>2. Timely(task'[i]) /\ tick.i + 1 \in 1 .. tick.s + 1
        BY <1>1, <1>3, <1>4, <2>2 DEF Timely
      <3>3. \A k \in DOMAIN scheduler :
              /\ k < tick.i + 1 => Timely(task'[scheduler[k]]) \/ task'[scheduler[k]].pos = -1
              /\ k >= tick.i + 1 => Timely(task'[scheduler[k]])
        <4>1. \A k \in DOMAIN scheduler : k < tick.i \/ k = tick.i \/ k > tick.i
          BY <1>0, <1>1, ListFacts
        <4>2. \A k \in DOMAIN scheduler : k >= tick.i + 1 => k > tick.i
          BY <1>0, <1>1, ListFacts
        <4>3. \A k \in DOMAIN scheduler : k < tick.i + 1 => k < tick.i \/ k = tick.i
          BY <1>0, <1>1, ListFacts
        <4> QED BY <1>8, <3>2, <4>2, <4>3 DEF i
      <3>4. \A k \in DOMAIN scheduler : k > tick.i + 1 \/ k = tick.i + 1 => k >= tick.i + 1
        BY <1>0, <1>1, ListFacts
      <3> QED BY <1>1, <1>2, <3>1, <3>2, <3>3, <3>4 DEF TickOK, Ticks
    <2> QED BY <2>1, <2>2
  <1> QED BY <1>5, <1>6, <1>9 DEF Good

LEMMA TaskReturnsStep ==
    ASSUME Good, TaskReturns
    PROVE  Good'
  <1>0. ListOK /\ TickOK /\ ProgOK
    BY DEF Good
  <1>1. tick.at = "call" /\ tick.i \in DOMAIN scheduler /\ tick.i \in Nat /\ tick.s \in Nat
        /\ tick.i <= tick.s /\ tick.s <= Len(scheduler) /\ tick.i <= Len(scheduler)
        /\ tick.item = scheduler[tick.i]
    BY <1>0, ListFacts DEF TaskReturns, TickOK, Ticks
  <1> DEFINE i == scheduler[tick.i]
  <1>2. i \in DOMAIN task /\ i \in ToSet(scheduler) /\ task[i].pos \in Nat /\ i \notin ended
    <2>1. i \in DOMAIN task /\ i \in ToSet(scheduler)
      BY <1>0, <1>1, ListFacts
    <2>2. task[i].pos \in Nat
      BY <1>0, <1>1 DEF TickOK, Ticks
    <2>3. i \in ended <=> task[i].pos < 0
      BY <1>0, <2>1 DEF ListOK
    <2>4. ~(task[i].pos < 0)
      BY <2>2
    <2> HIDE DEF i
    <2> QED BY <2>1, <2>2, <2>3, <2>4
  <1>3. PICK p \in Int, g \in Int :
          /\ task' = [task EXCEPT ![i].pos = p, ![i].target = g]
          /\ \/ p = 0 /\ g \in Nat /\ ended' = ended
             \/ p = -1 /\ ended' = ended \cup {i}
          /\ tick' = [tick EXCEPT !.at = "advance", !.i = @ + 1]
          /\ scheduler' = scheduler /\ prog' = prog
    <2>1. PICK next \in Targets \cup {-1} :
            /\ ended' = IF next > 0 THEN ended ELSE ended \cup {i}
            /\ \/ TickRaises
               \/ LET t == IF next > 0 THEN [pos |-> 0, target |-> next]
                                       ELSE [pos |-> -1, target |-> -1] IN
                  /\ task' = [task EXCEPT ![i].pos = t.pos, ![i].target = t.target]
                  /\ tick' = [tick EXCEPT !.at = "advance", !.i = @ + 1]
      BY <1>1 DEF TaskReturns
    <2>2. ~TickRaises
      BY <1>0, <1>1, ListFacts DEF TickRaises
    <2>3. scheduler' = scheduler /\ prog' = prog
      BY DEF TaskReturns
    <2> HIDE DEF i
    <2>4. CASE next > 0
      <3>1. next \in Nat
        BY <2>4, TargetsAssumption
      <3> QED BY <2>1, <2>2, <2>3, <2>4, <3>1
    <2>5. CASE ~(next > 0)
      BY <2>1, <2>2, <2>3, <2>5
    <2> QED BY <2>4, <2>5
  <1> HIDE DEF i
  <1>4. /\ task' \in Seq(Tasks) /\ DOMAIN task' = DOMAIN task
        /\ task'[i].pos = p /\ task'[i].target = g
        /\ \A j \in DOMAIN task : task'[j].cb = task[j].cb /\ (j # i => task'[j] = task[j])
    BY <1>0, <1>2, <1>3, TaskSet DEF ListOK
  <1>5. ListOK'
    <2>1. \A j \in ToSet(scheduler) : j \in ended' <=> task'[j].pos < 0
      <3>1. i \in ended' <=> task'[i].pos < 0
        BY <1>2, <1>3, <1>4
      <3>2. \A j \in ToSet(scheduler) :
              j # i => task'[j] = task[j] /\ (j \in ended' <=> j \in ended)
        BY <1>0, <1>3, <1>4, ListFacts
      <3>3. \A j \in ToSet(scheduler) : j # i => (j \in ended' <=> task'[j].pos < 0)
        BY <1>0, <3>2 DEF ListOK
      <3> QED BY <3>1, <3>3
    <2>2. DOMAIN task \ ended' \subseteq ToSet(scheduler) /\ ended' \subseteq DOMAIN task
      BY <1>0, <1>2, <1>3 DEF ListOK
    <2> QED BY <1>0, <1>3, <1>4, <2>1, <2>2 DEF ListOK
  <1>6. ProgOK'
    BY <1>0, <1>3, <1>4, ProgStays
  <1>7. \A k \in DOMAIN scheduler : k # tick.i => task'[scheduler[k]] = task[scheduler[k]]
    BY <1>0, <1>1, <1>4, OthersKept DEF i
  <1>8. TickOK'
    <2>1. /\ tick'.at = "advance" /\ tick'.i = tick.i + 1 /\ tick'.s = tick.s
          /\ tick' \in Ticks
      <3>1. tick \in Ticks
        BY <1>0 DEF TickOK, Ticks
      <3>2. tick' = [tick EXCEPT !.at = "advance", !.i = @ + 1]
        BY <1>3
      <3>3. tick = [at |-> tick.at, i |-> tick.i, s |-> tick.s, item |-> tick.item]
            /\ tick.item \in Nat
        BY <3>1 DEF Ticks
      <3>4. tick' = [at |-> "advance", i |-> tick.i + 1, s |-> tick.s, item |-> tick.item]
        BY <3>2, <3>3
      <3> QED BY <1>1, <3>3, <3>4 DEF Ticks
    <2>2. Timely(task'[i]) \/ task'[i].pos = -1
      BY <1>3, <1>4 DEF Timely
    <2>3. \A k \in DOMAIN scheduler :
            /\ k < tick.i => Timely(task'[scheduler[k]]) \/ task'[scheduler[k]].pos = -1
            /\ k > tick.i => Timely(task'[scheduler[k]])
      <3>1. \A k \in DOMAIN scheduler : k < tick.i \/ k > tick.i => k # tick.i
        BY <1>0, <1>1, ListFacts
      <3> QED BY <1>0, <1>1, <1>7, <3>1 DEF TickOK, Ticks
    <2>4. \A k \in DOMAIN scheduler :
            /\ k < tick.i + 1 => Timely(task'[scheduler[k]]) \/ task'[scheduler[k]].pos = -1
            /\ k > tick.i + 1 \/ k = tick.i + 1 => Timely(task'[scheduler[k]])
      <3>1. \A k \in DOMAIN scheduler : k > tick.i + 1 \/ k = tick.i + 1 => k > tick.i
        BY <1>0, <1>1, ListFacts
      <3>2. \A k \in DOMAIN scheduler : k < tick.i + 1 => k < tick.i \/ k = tick.i
        BY <1>0, <1>1, ListFacts
      <3> QED BY <2>2, <2>3, <3>1, <3>2 DEF i
    <2>5. tick.i + 1 \in 1 .. tick.s + 1
      BY <1>1
    <2> QED BY <1>1, <1>3, <2>1, <2>4, <2>5 DEF TickOK, Ticks
  <1> QED BY <1>5, <1>6, <1>8 DEF Good

LEMMA TickEndStep ==
    ASSUME Good, TickEnd, ~Meddles
    PROVE  Good'
  <1>0. ListOK /\ TickOK /\ ProgOK
    BY DEF Good
  <1> DEFINE gone == {i \in ToSet(scheduler) : task[i].pos < 0}
             new == Without(scheduler, gone)
  <1>1. /\ tick.at = "advance" /\ tick' = NoTick /\ Rebind(new)
        /\ task' = task /\ ended' = ended
    BY DEF TickEnd
  <1>2. gone \in SUBSET ToSet(scheduler)
    OBVIOUS
  <1>3. /\ scheduler' = new /\ new \in Seq(DOMAIN task) /\ IsInjective(new)
        /\ ToSet(new) = ToSet(scheduler) \ gone
        /\ ProgOK'
    <2> HIDE DEF gone
    <2> QED BY <1>0, <1>1, <1>2, Shrinks
  <1> HIDE DEF new
  <1>4. ListOK'
    <2>1. \A i \in ToSet(new) : i \in ToSet(scheduler) /\ ~(task[i].pos < 0)
      BY <1>3
    <2>2. DOMAIN task \ ended \subseteq ToSet(new)
      BY <1>0, <1>3 DEF ListOK
    <2> HIDE DEF gone
    <2> QED BY <1>0, <1>1, <1>3, <2>1, <2>2 DEF ListOK
  <1>5. \A k \in DOMAIN new : Timely(task[new[k]])
    <2>1. ASSUME NEW k \in DOMAIN new PROVE Timely(task[new[k]])
      <3>1. new[k] \in ToSet(scheduler) /\ ~(task[new[k]].pos < 0)
        <4>1. new[k] \in ToSet(new)
          BY DEF ToSet
        <4> QED BY <1>3, <4>1
      <3>2. PICK m \in DOMAIN scheduler : scheduler[m] = new[k]
        BY <1>0, <3>1, ListFacts
      <3>3. m < tick.i \/ m = tick.i \/ m > tick.i
        BY <1>0, <3>2, ListFacts DEF TickOK, Ticks
      <3>4. Timely(task[scheduler[m]]) \/ task[scheduler[m]].pos = -1
        BY <1>0, <1>1, <3>3 DEF TickOK, Ticks
      <3> QED BY <3>1, <3>2, <3>4
    <2> QED BY <2>1
  <1>6. TickOK'
    <2>1. tick' \in Ticks /\ tick'.at = "idle"
      BY <1>1 DEF NoTick, Ticks
    <2> QED BY <1>1, <1>3, <1>5, <2>1 DEF TickOK, Ticks
  <1> QED BY <1>3, <1>4, <1>6 DEF Good

LEMMA StopStep ==
    ASSUME Good, Stop, ~Meddles
    PROVE  Good'
  <1>0. ListOK /\ TickOK /\ ProgOK
    BY DEF Good
  <1>1. /\ tick.at \in {"idle", "call"} /\ scheduler' = <<>>
        /\ ended' = ended \cup ToSet(scheduler) /\ task' = task /\ tick' = tick
        /\ prog' = IF prog.shared THEN [prog EXCEPT !.src = scheduler, !.shared = FALSE]
                   ELSE prog
    BY DEF Stop, BetweenOrCalled, Rebind
  (* The list was empty, or neither a tick nor a call was going through it. *)
  <1>6. Len(scheduler) \in Nat /\ (Len(scheduler) = 0 => scheduler = <<>>)
    BY <1>0, EmptySeq DEF ListOK
  <1>7. prog'.at = prog.at
    BY <1>0, <1>1 DEF ProgOK
  <1>8. tick.at = "idle" /\ (scheduler = <<>> \/ prog.at = "idle")
    <2>1. CASE Len(scheduler) = 0
      BY <1>0, <1>1, <1>6, <2>1 DEF TickOK, Ticks
    <2>2. CASE Len(scheduler) > 0
      <3>1. Len(scheduler') < Len(scheduler) /\ scheduler' # scheduler
        BY <1>1, <2>2
      <3> QED BY <1>1, <1>7, <3>1 DEF Meddles
    <2> QED BY <1>6, <2>1, <2>2
  <1>2. <<>> \in Seq(DOMAIN task) /\ ToSet(<<>>) = {} /\ IsInjective(<<>>)
    BY DEF ToSet, IsInjective
  <1>3. ListOK'
    BY <1>0, <1>1, <1>2, ListFacts DEF ListOK
  <1>4. TickOK'
    BY <1>0, <1>1, <1>8 DEF TickOK, Ticks
  <1>5. ProgOK'
    <2>1. CASE prog.at = "idle"
      BY <1>0, <1>1, <2>1 DEF ProgOK
    <2>2. CASE scheduler = <<>>
      <3>1. prog' = [at |-> prog.at, cb |-> prog.cb, target |-> prog.target, i |-> prog.i,
                     n |-> prog.n, src |-> IF prog.shared THEN scheduler ELSE prog.src,
                     shared |-> FALSE, acc |-> prog.acc]
        BY <1>0, <1>1 DEF ProgOK
      <3>2. scheduler' = scheduler /\ WithCallback(scheduler, prog.cb)'
                                      = WithCallback(scheduler, prog.cb)
        BY <1>1, <2>2, <3>1 DEF WithCallback
      <3> QED BY <1>0, <1>1, <3>1, <3>2 DEF ProgOK
    <2> QED BY <1>8, <2>1, <2>2
  <1> QED BY <1>3, <1>4, <1>5 DEF Good

---------------------------------------------------------------------------
(* delete and update of the program, from jump to jump.                    *)

(* A step of the program's loop that leaves list and tasks alone. *)
LEMMA ProgMoves ==
    ASSUME ListOK, TickOK, scheduler' = scheduler, task' = task, tick' = tick,
           ended' = ended, ProgOK'
    PROVE  Good'
  BY DEF Good, ListOK, TickOK

(* Where it may go, if its fields are as they should be. *)
LEMMA ProgAt ==
    ASSUME scheduler' = scheduler, task' = task,
           NEW at, NEW cb, NEW target \in Nat, NEW i \in Nat, NEW n \in Nat, NEW src,
           NEW shared \in BOOLEAN, NEW acc,
           prog' = [at |-> at, cb |-> cb, target |-> target, i |-> i, n |-> n, src |-> src,
                    shared |-> shared, acc |-> acc],
           at \in {"idle", "find", "filter", "compare", "assign"},
           at \in {"find", "compare", "assign"} => n <= Len(scheduler) /\ i \in 1 .. n + 1,
           at = "find" => acc = <<>>,
           at = "assign" => i <= n,
           at = "filter" =>
             /\ i \in 1 .. Len(scheduler) + 1
             /\ i > 1 /\ ~shared => src = scheduler
             /\ acc = Collected(scheduler, WithCallback(scheduler, cb))[i - 1]
    PROVE  ProgOK'
  <1>1. /\ prog'.at = at /\ prog'.cb = cb /\ prog'.target = target /\ prog'.i = i
        /\ prog'.n = n /\ prog'.src = src /\ prog'.shared = shared /\ prog'.acc = acc
    OBVIOUS
  <1>2. WithCallback(scheduler, cb)' = WithCallback(scheduler, cb)
    BY DEF WithCallback
  <1>3. prog' = [at |-> prog'.at, cb |-> prog'.cb, target |-> prog'.target, i |-> prog'.i,
                 n |-> prog'.n, src |-> prog'.src, shared |-> prog'.shared, acc |-> prog'.acc]
    BY <1>1
  <1> QED BY <1>1, <1>2, <1>3 DEF ProgOK

LEMMA Idles ==
    ASSUME prog' = Idle
    PROVE  ProgOK'
  BY DEF ProgOK, Idle

LEMMA ProgramCallsStep ==
    ASSUME Good, NEW op, NEW at \in {"find", "compare"}, ProgramCalls(op, at)
    PROVE  Good'
  <1>0. ListOK /\ TickOK
    BY DEF Good
  <1>1. PICK c \in Callbacks, target \in Targets :
          prog' = [Idle EXCEPT !.at = at, !.cb = c, !.target = target,
                               !.i = 1, !.n = Len(scheduler)]
    BY DEF ProgramCalls
  <1>2. /\ scheduler' = scheduler /\ task' = task /\ tick' = tick /\ ended' = ended
    BY DEF ProgramCalls
  <1>3. prog' = [at |-> at, cb |-> c, target |-> target, i |-> 1, n |-> Len(scheduler),
                 src |-> <<>>, shared |-> FALSE, acc |-> <<>>]
    BY <1>1 DEF Idle
  <1>4. target \in Nat /\ Len(scheduler) \in Nat
    BY <1>0, ListFacts, TargetsAssumption
  <1>5. 1 \in Nat /\ 1 \in 1 .. Len(scheduler) + 1 /\ Len(scheduler) <= Len(scheduler)
    BY <1>4
  <1>6. ProgOK'
    <2>1. CASE at = "find"
      BY <1>2, <1>3, <1>4, <1>5, <2>1, ProgAt
    <2>2. CASE at = "compare"
      BY <1>2, <1>3, <1>4, <1>5, <2>2, ProgAt
    <2> QED BY <2>1, <2>2
  <1> QED BY <1>0, <1>2, <1>6, ProgMoves

LEMMA FindStep ==
    ASSUME Good, Find
    PROVE  Good'
  <1>0. ListOK /\ TickOK /\ ProgOK /\ Len(scheduler) \in Nat
    BY ListFacts DEF Good
  <1>1. /\ scheduler' = scheduler /\ task' = task /\ tick' = tick /\ ended' = ended
        /\ prog.at = "find"
    BY DEF Find, ProgramRaises
  <1>2. /\ prog.n <= Len(scheduler) /\ prog.i \in 1 .. prog.n + 1 /\ prog.acc = <<>>
        /\ prog.i \in Nat /\ prog.n \in Nat /\ prog.target \in Nat /\ prog.shared \in BOOLEAN
        /\ prog = [at |-> prog.at, cb |-> prog.cb, target |-> prog.target, i |-> prog.i,
                  n |-> prog.n, src |-> prog.src, shared |-> prog.shared, acc |-> prog.acc]
    BY <1>0, <1>1 DEF ProgOK
  <1>3. \/ prog' = [prog EXCEPT !.at = "filter", !.i = 1]
        \/ ~(prog.i > prog.n) /\ prog' = [prog EXCEPT !.i = @ + 1]
    BY <1>0, <1>2 DEF Find, ProgramRaises
  <1>4. CASE prog' = [prog EXCEPT !.at = "filter", !.i = 1]
    <2>1. prog' = [at |-> "filter", cb |-> prog.cb, target |-> prog.target, i |-> 1,
                   n |-> prog.n, src |-> prog.src, shared |-> prog.shared, acc |-> <<>>]
      BY <1>2, <1>4
    <2>2. Collected(scheduler, WithCallback(scheduler, prog.cb))[1 - 1] = <<>>
      BY <1>0, CollectedStep
    <2>3. ProgOK'
      BY <1>0, <1>1, <1>2, <2>1, <2>2, ProgAt
    <2> QED BY <1>0, <1>1, <2>3, ProgMoves
  <1>5. CASE ~(prog.i > prog.n) /\ prog' = [prog EXCEPT !.i = @ + 1]
    <2>1. prog' = [at |-> "find", cb |-> prog.cb, target |-> prog.target, i |-> prog.i + 1,
                   n |-> prog.n, src |-> prog.src, shared |-> prog.shared, acc |-> prog.acc]
      BY <1>1, <1>2, <1>5
    <2>2. prog.i + 1 \in 1 .. prog.n + 1 /\ prog.i + 1 \in Nat
      BY <1>2, <1>5
    <2>3. ProgOK'
      BY <1>0, <1>1, <1>2, <2>1, <2>2, ProgAt
    <2> QED BY <1>0, <1>1, <2>3, ProgMoves
  <1> QED BY <1>3, <1>4, <1>5

LEMMA FilterStep ==
    ASSUME Good, Filter
    PROVE  Good'
  <1>0. ListOK /\ TickOK /\ ProgOK /\ Len(scheduler) \in Nat
    BY ListFacts DEF Good
  <1>1. /\ scheduler' = scheduler /\ task' = task /\ tick' = tick /\ ended' = ended
        /\ prog.at = "filter"
    BY DEF Filter
  <1>2. /\ prog.i \in 1 .. Len(scheduler) + 1
        /\ prog.i > 1 /\ ~prog.shared => prog.src = scheduler
        /\ prog.acc = Collected(scheduler, WithCallback(scheduler, prog.cb))[prog.i - 1]
        /\ prog.i \in Nat /\ prog.n \in Nat /\ prog.target \in Nat /\ prog.shared \in BOOLEAN
        /\ prog = [at |-> prog.at, cb |-> prog.cb, target |-> prog.target, i |-> prog.i,
                  n |-> prog.n, src |-> prog.src, shared |-> prog.shared, acc |-> prog.acc]
    BY <1>0, <1>1 DEF ProgOK
  <1>3. Source = scheduler
    BY <1>2 DEF Source
  <1>4. prog.i <= Len(scheduler) /\ prog.i \in 1 .. Len(scheduler)
    BY <1>0, <1>2, <1>3 DEF Filter
  <1> DEFINE W == WithCallback(scheduler, prog.cb)
             acc == IF task[scheduler[prog.i]].cb = prog.cb THEN prog.acc
                    ELSE Append(prog.acc, scheduler[prog.i])
  <1>5. prog' = [prog EXCEPT !.i = @ + 1, !.shared = @ \/ prog.i = 1, !.acc = acc]
    BY <1>3 DEF Filter
  <1>6. scheduler[prog.i] \in W <=> task[scheduler[prog.i]].cb = prog.cb
    BY <1>0, <1>4, ListFacts DEF WithCallback
  <1> HIDE DEF W
  <1>7. acc = Collected(scheduler, W)[prog.i]
    <2>1. Collected(scheduler, W)[prog.i] =
            IF scheduler[prog.i] \in W THEN Collected(scheduler, W)[prog.i - 1]
            ELSE Append(Collected(scheduler, W)[prog.i - 1], scheduler[prog.i])
      BY <1>0, <1>4, CollectedStep
    <2>2. prog.acc = Collected(scheduler, W)[prog.i - 1]
      BY <1>2 DEF W
    <2> QED BY <1>6, <2>1, <2>2
  <1> HIDE DEF acc
  <1> DEFINE i == prog.i + 1
             shared == prog.shared \/ prog.i = 1
  <1>8. prog' = [at |-> "filter", cb |-> prog.cb, target |-> prog.target, i |-> i,
                 n |-> prog.n, src |-> prog.src, shared |-> shared, acc |-> acc]
    BY <1>1, <1>2, <1>5
  <1>9. /\ i \in Nat /\ i \in 1 .. Len(scheduler) + 1 /\ i - 1 = prog.i
        /\ shared \in BOOLEAN /\ (~shared => prog.src = scheduler)
    BY <1>0, <1>2, <1>4
  <1> HIDE DEF i, shared
  <1>10. acc = Collected(scheduler, WithCallback(scheduler, prog.cb))[i - 1]
    BY <1>7, <1>9 DEF W
  <1>11. ProgOK'
    BY <1>1, <1>2, <1>8, <1>9, <1>10, ProgAt
  <1> QED BY <1>0, <1>1, <1>11, ProgMoves

(* What delete stores is the list without the tasks of the function. *)
LEMMA StoreStep ==
    ASSUME Good, Store
    PROVE  Good'
  <1>0. ListOK /\ TickOK /\ ProgOK /\ Len(scheduler) \in Nat
    BY ListFacts DEF Good
  <1>1. /\ task' = task /\ tick' = tick /\ prog' = Idle /\ scheduler' = prog.acc
        /\ ended' = ended \cup WithCallback(Source, prog.cb)
        /\ prog.at = "filter" /\ tick.at = "idle" /\ prog.i > Len(Source)
    BY DEF Store
  <1>2. /\ prog.i \in 1 .. Len(scheduler) + 1 /\ prog.i \in Nat
        /\ prog.i > 1 /\ ~prog.shared => prog.src = scheduler
        /\ prog.acc = Collected(scheduler, WithCallback(scheduler, prog.cb))[prog.i - 1]
    BY <1>0, <1>1 DEF ProgOK
  <1>3. Source = scheduler
    BY <1>2 DEF Source
  <1> DEFINE W == WithCallback(scheduler, prog.cb)
             new == Without(scheduler, W)
  <1>4. prog.acc = new
    <2>1. prog.i - 1 = Len(scheduler)
      BY <1>0, <1>1, <1>2, <1>3
    <2> QED BY <1>2, <2>1 DEF Without
  <1>5. W \subseteq ToSet(scheduler)
    BY DEF WithCallback
  <1>6. /\ new \in Seq(DOMAIN task) /\ ToSet(new) = ToSet(scheduler) \ W /\ IsInjective(new)
    <2> DEFINE D == DOMAIN task
    <2>1. scheduler \in Seq(D) /\ IsInjective(scheduler)
      BY <1>0 DEF ListOK
    <2> HIDE DEF D, W
    <2> QED BY <2>1, WithoutGone DEF D
  <1>7. scheduler' = new /\ ended' = ended \cup W
    BY <1>1, <1>3, <1>4
  <1> HIDE DEF W, new
  <1>8. ListOK'
    BY <1>0, <1>1, <1>5, <1>6, <1>7, ListFacts DEF ListOK
  <1>9. TickOK'
    <2>1. \A i \in ToSet(scheduler) : Timely(task[i])
      BY <1>0, <1>1, ListFacts DEF TickOK, Ticks
    <2>2. \A k \in DOMAIN new : new[k] \in ToSet(scheduler)
      BY <1>6 DEF ToSet
    <2> QED BY <1>0, <1>1, <1>7, <2>1, <2>2 DEF TickOK, Ticks
  <1>10. ProgOK'
    BY <1>1, Idles
  <1> QED BY <1>8, <1>9, <1>10 DEF Good

LEMMA CompareStep ==
    ASSUME Good, Compare
    PROVE  Good'
  <1>0. ListOK /\ TickOK /\ ProgOK /\ Len(scheduler) \in Nat
    BY ListFacts DEF Good
  <1>1. /\ scheduler' = scheduler /\ task' = task /\ tick' = tick /\ ended' = ended
        /\ prog.at = "compare"
    BY DEF Compare, ProgramRaises
  <1>2. /\ prog.n <= Len(scheduler) /\ prog.i \in 1 .. prog.n + 1
        /\ prog.i \in Nat /\ prog.n \in Nat /\ prog.target \in Nat /\ prog.shared \in BOOLEAN
        /\ prog = [at |-> prog.at, cb |-> prog.cb, target |-> prog.target, i |-> prog.i,
                  n |-> prog.n, src |-> prog.src, shared |-> prog.shared, acc |-> prog.acc]
    BY <1>0, <1>1 DEF ProgOK
  <1>3. \/ prog' = Idle
        \/ ~(prog.i > prog.n) /\ prog' = [prog EXCEPT !.at = "assign"]
        \/ ~(prog.i > prog.n) /\ prog' = [prog EXCEPT !.i = @ + 1]
    BY <1>0, <1>2 DEF Compare, ProgramRaises
  <1>4. CASE prog' = Idle
    BY <1>0, <1>1, <1>4, Idles, ProgMoves
  <1>5. CASE ~(prog.i > prog.n) /\ prog' = [prog EXCEPT !.at = "assign"]
    <2>1. prog' = [at |-> "assign", cb |-> prog.cb, target |-> prog.target, i |-> prog.i,
                   n |-> prog.n, src |-> prog.src, shared |-> prog.shared, acc |-> prog.acc]
      BY <1>2, <1>5
    <2>2. prog.i <= prog.n
      BY <1>2, <1>5
    <2>3. ProgOK'
      BY <1>0, <1>1, <1>2, <2>1, <2>2, ProgAt
    <2> QED BY <1>0, <1>1, <2>3, ProgMoves
  <1>6. CASE ~(prog.i > prog.n) /\ prog' = [prog EXCEPT !.i = @ + 1]
    <2>1. prog' = [at |-> "compare", cb |-> prog.cb, target |-> prog.target, i |-> prog.i + 1,
                   n |-> prog.n, src |-> prog.src, shared |-> prog.shared, acc |-> prog.acc]
      BY <1>1, <1>2, <1>6
    <2>2. prog.i + 1 \in 1 .. prog.n + 1 /\ prog.i + 1 \in Nat
      BY <1>2, <1>6
    <2>3. ProgOK'
      BY <1>0, <1>1, <1>2, <2>1, <2>2, ProgAt
    <2> QED BY <1>0, <1>1, <2>3, ProgMoves
  <1> QED BY <1>3, <1>4, <1>5, <1>6

LEMMA AssignStep ==
    ASSUME Good, Assign
    PROVE  Good'
  <1>0. ListOK /\ TickOK /\ ProgOK /\ Len(scheduler) \in Nat
    BY ListFacts DEF Good
  <1>1. scheduler' = scheduler /\ tick' = tick /\ prog.at = "assign" /\ tick.at = "idle"
    BY DEF Assign
  <1>2. /\ prog.n <= Len(scheduler) /\ prog.i \in 1 .. prog.n /\ prog.i \in 1 .. Len(scheduler)
        /\ prog.i \in Nat /\ prog.n \in Nat /\ prog.target \in Nat /\ prog.shared \in BOOLEAN
        /\ prog = [at |-> prog.at, cb |-> prog.cb, target |-> prog.target, i |-> prog.i,
                  n |-> prog.n, src |-> prog.src, shared |-> prog.shared, acc |-> prog.acc]
    BY <1>0, <1>1 DEF ProgOK
  <1> DEFINE i == scheduler[prog.i]
  <1>3. /\ ended' = ended \ {i}
        /\ task' = [task EXCEPT ![i].pos = 0, ![i].target = prog.target]
        /\ prog' = [prog EXCEPT !.at = "compare", !.i = @ + 1]
    BY <1>0, <1>2 DEF Assign, ProgramRaises
  <1>4. i \in DOMAIN task /\ i \in ToSet(scheduler)
    BY <1>0, <1>2, ListFacts
  <1> HIDE DEF i
  <1>5. /\ task' \in Seq(Tasks) /\ DOMAIN task' = DOMAIN task
        /\ task'[i].pos = 0 /\ task'[i].target = prog.target
        /\ \A j \in DOMAIN task : task'[j].cb = task[j].cb /\ (j # i => task'[j] = task[j])
    <2>1. task \in Seq(Tasks) /\ 0 \in Int /\ prog.target \in Int
      BY <1>0, <1>2 DEF ListOK
    <2> QED BY <1>3, <1>4, <2>1, TaskSet
  <1>6. ListOK'
    <2>1. \A j \in ToSet(scheduler) : j \in ended' <=> task'[j].pos < 0
      <3>1. i \notin ended' /\ ~(task'[i].pos < 0)
        BY <1>3, <1>5
      <3>2. \A j \in ToSet(scheduler) :
              j # i => task'[j] = task[j] /\ (j \in ended' <=> j \in ended)
        BY <1>0, <1>3, <1>5, ListFacts
      <3>3. \A j \in ToSet(scheduler) : j # i => (j \in ended' <=> task'[j].pos < 0)
        BY <1>0, <3>2 DEF ListOK
      <3> QED BY <3>1, <3>3
    <2>2. DOMAIN task \ ended' \subseteq ToSet(scheduler) /\ ended' \subseteq DOMAIN task
      BY <1>0, <1>3, <1>4 DEF ListOK
    <2> QED BY <1>0, <1>1, <1>5, <2>1, <2>2 DEF ListOK
  <1>7. TickOK'
    <2>1. Timely(task'[i])
      BY <1>2, <1>5 DEF Timely
    <2>2. \A k \in DOMAIN scheduler : k # prog.i => task'[scheduler[k]] = task[scheduler[k]]
      <3>1. prog.i \in DOMAIN scheduler
        BY <1>0, <1>2, ListFacts
      <3> QED BY <1>0, <1>5, <3>1, OthersKept DEF i
    <2>3. \A k \in DOMAIN scheduler : Timely(task'[scheduler[k]])
      BY <1>0, <1>1, <2>1, <2>2 DEF TickOK, Ticks, i
    <2> QED BY <1>0, <1>1, <2>3 DEF TickOK, Ticks
  <1>8. ProgOK'
    <2>1. prog' = [at |-> "compare", cb |-> prog.cb, target |-> prog.target, i |-> prog.i + 1,
                   n |-> prog.n, src |-> prog.src, shared |-> prog.shared, acc |-> prog.acc]
      BY <1>1, <1>2, <1>3
    <2>2. prog.i + 1 \in 1 .. prog.n + 1 /\ prog.i + 1 \in Nat
      BY <1>2
    <2> QED BY <1>1, <1>2, <2>1, <2>2 DEF ProgOK
  <1> QED BY <1>6, <1>7, <1>8 DEF Good

---------------------------------------------------------------------------
LEMMA CallsStep ==
    ASSUME Good, NEW ops, Calls(ops), tick' = tick, tick.at \in {"idle", "call"}, ~Meddles
    PROVE  Good'
  BY NewStep, UpdateStep, DeleteStep DEF Calls

LEMMA GoodStep ==
    ASSUME Good, Step, ~Meddles
    PROVE  Good'
  <1>1. CASE TickBegin
    BY <1>1, TickBeginStep
  <1>2. CASE Advance
    BY <1>2, AdvanceStep
  <1>3. CASE TaskReturns
    BY <1>3, TaskReturnsStep
  <1>4. CASE TickEnd
    BY <1>4, TickEndStep
  <1>5. CASE TaskCalls
    BY <1>5, CallsStep DEF TaskCalls
  <1>6. CASE ScheduledCallback
    BY <1>6, CallsStep DEF ScheduledCallback
  <1>7. CASE Stop
    BY <1>7, StopStep
  <1>8. CASE Begin
    BY <1>8 DEF Begin, Good, ListOK, TickOK, ProgOK, WithCallback
  <1>9. CASE ProgramBeginsDelete \/ ProgramBeginsUpdate
    BY <1>9, ProgramCallsStep DEF ProgramBeginsDelete, ProgramBeginsUpdate
  <1>10. CASE Find \/ Filter \/ Store
    BY <1>10, FindStep, FilterStep, StoreStep
  <1>11. CASE Compare \/ Assign
    BY <1>11, CompareStep, AssignStep
  <1> QED
    BY <1>1, <1>2, <1>3, <1>4, <1>5, <1>6, <1>7, <1>8, <1>9, <1>10, <1>11
       DEF Step, TimerCallback, Program

LEMMA InvInit == Init => IInv
  <1> SUFFICES ASSUME Init PROVE Good
    BY DEF Init, IInv
  <1>1. ListOK
    BY DEF Init, ListOK, ToSet, IsInjective
  <1>2. TickOK
    BY DEF Init, TickOK, Ticks, NoTick
  <1>3. ProgOK
    BY DEF Init, ProgOK, Idle
  <1> QED BY <1>1, <1>2, <1>3 DEF Good

LEMMA InvStep == IInv /\ [Next]_vars => IInv'
  <1> SUFFICES ASSUME IInv, [Next]_vars PROVE IInv'
    OBVIOUS
  <1>1. CASE Next
    <2>1. Step /\ meddled' = (meddled \/ Meddles)
      BY <1>1 DEF Next, Noting
    <2>2. meddled' \in BOOLEAN /\ (~meddled' => ~meddled /\ ~Meddles)
      BY <2>1 DEF IInv
    <2> QED BY <2>1, <2>2, GoodStep DEF IInv
  <1>2. CASE UNCHANGED vars
    <2>1. Good => Good'
      BY <1>2 DEF vars, Good, ListOK, TickOK, ProgOK, WithCallback
    <2> QED BY <1>2, <2>1 DEF vars, IInv
  <1> QED BY <1>1, <1>2

LEMMA Invariance == Spec => []IInv
  <1>1. Init => IInv
    BY InvInit
  <1>2. IInv /\ [Next]_vars => IInv'
    BY InvStep
  <1> QED
    BY <1>1, <1>2, PTL DEF Spec

(* While no call takes tasks from the list that another one is going       *)
(* through, new, update, delete, stop and the tick keep in the list        *)
(* exactly the tasks that have not ended, and no loop runs past its end.   *)
THEOREM TasksStayListed == Spec => []TasksListed
  <1>1. IInv => TasksListed
    <2> SUFFICES ASSUME IInv, ~meddled PROVE
          /\ tick.at = "idle" /\ prog.at = "idle" =>
               ToSet(scheduler) = DOMAIN task \ ended /\ IsInjective(scheduler)
          /\ tick.at # "idle" => tick.s <= Len(scheduler)
          /\ prog.at \in {"find", "compare", "assign"} => prog.n <= Len(scheduler)
      BY DEF TasksListed
    <2>1. ListOK /\ TickOK /\ ProgOK
      BY DEF IInv, Good
    <2>2. tick.at = "idle" => ToSet(scheduler) = DOMAIN task \ ended
      <3> SUFFICES ASSUME tick.at = "idle" PROVE ToSet(scheduler) = DOMAIN task \ ended
        OBVIOUS
      <3>1. \A i \in ToSet(scheduler) : i \in DOMAIN task /\ Timely(task[i])
        BY <2>1, ListFacts DEF TickOK, Ticks
      <3>2. \A i \in ToSet(scheduler) : i \notin ended
        <4>1. ASSUME NEW i \in ToSet(scheduler) PROVE ~(task[i].pos < 0)
          BY <2>1, <3>1, ListFacts DEF Timely
        <4> QED BY <2>1, <4>1 DEF ListOK
      <3> QED BY <2>1, <3>1, <3>2 DEF ListOK
    <2> QED BY <2>1, <2>2 DEF ListOK, TickOK, ProgOK
  <1> QED
    BY <1>1, Invariance, PTL

(* Between ticks each task in the list has its time before it: timer_      *)
(* callback passed over none, whatever the tasks it called put into the    *)
(* list or gave a new time.                                                *)
THEOREM TasksAreOnTime == Spec => []OnTime
  <1>1. IInv => OnTime
    <2> SUFFICES ASSUME IInv, tick.at = "idle", ~meddled, NEW i \in ToSet(scheduler)
                 PROVE  task[i].pos \in 0 .. task[i].target
      BY DEF OnTime
    <2>1. ListOK /\ TickOK
      BY DEF IInv, Good
    <2>2. Timely(task[i])
      BY <2>1, ListFacts DEF TickOK, Ticks
    <2> QED BY <2>2 DEF Timely
  <1> QED
    BY <1>1, Invariance, PTL

=============================================================================
