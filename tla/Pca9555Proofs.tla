--------------------------- MODULE Pca9555Proofs ---------------------------
(***************************************************************************)
(* Theorems about Pca9555: types, and that no interleaving of edges and    *)
(* reads leaves a callback with a value of the past, for any pins.         *)
(***************************************************************************)
EXTENDS Pca9555, TLAPS

Tasks == [at : {"wait", "port0", "port1", "pins"}, data : SUBSET Pins,
          prev : SUBSET Pins, i : 0 .. 16]

LEMMA TaskType ==
    ASSUME NEW t \in Tasks, NEW a \in {"wait", "port0", "port1", "pins"},
           NEW d \in SUBSET Pins, NEW i \in 0 .. 16
    PROVE  /\ [t EXCEPT !.at = a] \in Tasks /\ [t EXCEPT !.i = i] \in Tasks
           /\ [t EXCEPT !.at = a, !.data = d] \in Tasks
           /\ [t EXCEPT !.at = a, !.prev = d] \in Tasks
           /\ [t EXCEPT !.at = a, !.i = i] \in Tasks
BY DEF Tasks

LEMMA SetBitType == ASSUME NEW S, NEW T \in SUBSET S, NEW p \in S, NEW value
                    PROVE  SetBit(T, p, value) \in SUBSET S
BY DEF SetBit

LEMMA HistoryType ==
    ASSUME NEW h \in [known : SUBSET Pins, high : SUBSET Pins], NEW p \in Pins, NEW value
    PROVE  /\ Learn(h, p, value) \in [known : SUBSET Pins, high : SUBSET Pins]
           /\ Forget(h, p) \in [known : SUBSET Pins, high : SUBSET Pins]
BY SetBitType DEF Learn, Forget

LEMMA ChipType ==
    ASSUME TypeOK
    PROVE  /\ High \subseteq Pins /\ Values \subseteq Pins
           /\ \A n : PortPins(n) \subseteq Pins
BY DEF TypeOK, Registers, High, Values, PortPins, Merge, Differ

LEMMA InitType == InitCache \in [Registers -> SUBSET Pins]
BY PinsAssumption DEF InitCache, Registers

LEMMA SpendType == ASSUME TypeOK, NEW what \in {"changes", "calls", "failures", "restarts"},
                          Spend(what)
                   PROVE  left' \in [{"changes", "calls", "failures", "restarts"} -> Nat]
BY DEF TypeOK, Spend

LEMMA WriteRegType ==
    ASSUME TypeOK, NEW r \in Registers, NEW new \in SUBSET Pins,
           NEW written \in SUBSET Pins, WriteReg(r, new, written)
    PROVE  /\ level' \subseteq Pins /\ seen' \subseteq Pins /\ unheard' \subseteq Pins
           /\ chip' \in [Registers -> SUBSET Pins] /\ cache' \in [Registers -> SUBSET Pins]
           /\ trigger' \in BOOLEAN
           /\ task' = task /\ handler' = handler /\ callback' = callback
           /\ told' = told /\ dropped' = dropped
<1>1. chip' \in [Registers -> SUBSET Pins] /\ cache' \in [Registers -> SUBSET Pins]
  BY DEF TypeOK, WriteReg, Merge
<1>2. unheard' \subseteq Pins
  BY <1>1 DEF TypeOK, WriteReg, Differ, Registers
<1>3. trigger' \in BOOLEAN
  BY DEF WriteReg, EdgeTriggers
<1> QED
  BY <1>1, <1>2, <1>3 DEF TypeOK, WriteReg, reports

LEMMA ConfigureWrites ==
    ASSUME TypeOK, NEW r \in {"config", "polarity"}, NEW p \in Pins, NEW set,
           Configure(r, p, set)
    PROVE  /\ want' = want
           /\ left' \in [{"changes", "calls", "failures", "restarts"} -> Nat]
           /\ \E new \in SUBSET Pins, written \in SUBSET Pins : WriteReg(r, new, written)
<1>1. SetBit(cache[r], p, set) \in SUBSET Pins
  BY SetBitType DEF TypeOK, Registers
<1>2. left' \in [{"changes", "calls", "failures", "restarts"} -> Nat]
  BY SpendType DEF Configure, Call
<1> QED
  BY <1>1, <1>2, ChipType DEF Configure

LEMMA SetValueWrites ==
    ASSUME TypeOK, NEW p \in Pins, NEW value, SetValue(p, value)
    PROVE  /\ want' \in {Learn(want, p, value), Forget(want, p)}
           /\ left' \in [{"changes", "calls", "failures", "restarts"} -> Nat]
           /\ SetBit(cache["output"], p, value) \in SUBSET Pins
           /\ \E written \in {{}, PortPins(p \div 8)} :
                /\ WriteReg("output", SetBit(cache["output"], p, value), written)
                /\ want' = Learn(want, p, value) => written = PortPins(p \div 8)
<1>1. SetBit(cache["output"], p, value) \in SUBSET Pins
  BY SetBitType DEF TypeOK, Registers
<1>2. left' \in [{"changes", "calls", "failures", "restarts"} -> Nat]
  BY SpendType DEF SetValue, Call
<1>3. Forget(want, p) # Learn(want, p, value)
  BY DEF Forget, Learn
<1> QED
  BY <1>1, <1>2, <1>3 DEF SetValue

(* Types are preserved.  TypeOK is what the other proofs rest on.          *)
LEMMA TypeStep == TypeOK /\ [Next]_vars => TypeOK'
<1> SUFFICES ASSUME TypeOK, [Next]_vars PROVE TypeOK'
  OBVIOUS
<1> USE PinsAssumption
<1>a. task \in Tasks /\ 0 \in 0 .. 16 /\ task.data \in SUBSET Pins
  BY DEF TypeOK, Tasks
<1>1. ASSUME NEW p \in Pins, PinChanges(p) PROVE TypeOK'
  <2>1. left' \in [{"changes", "calls", "failures", "restarts"} -> Nat]
    BY <1>1, SpendType DEF PinChanges
  <2>2. level' \subseteq Pins /\ unheard' \subseteq Pins
    BY <1>1 DEF PinChanges, TypeOK, Differ
  <2>3. trigger' \in BOOLEAN
    BY <1>1 DEF PinChanges, EdgeTriggers
  <2> QED
    BY <1>1, <2>1, <2>2, <2>3 DEF PinChanges, TypeOK, calls, reports
<1>2. CASE Restart
  <2>1. left' \in [{"changes", "calls", "failures", "restarts"} -> Nat]
    BY <1>2, SpendType DEF Restart
  <2>2. chip' \in [Registers -> SUBSET Pins]
    BY <1>2, InitType DEF Restart, TypeOK, Registers
  <2> QED
    BY <1>2, <2>1, <2>2, InitType DEF Restart, TypeOK, Fresh, Nothing
<1>3. CASE Take
  <2>1. task' \in Tasks
    BY <1>3, <1>a, TaskType DEF Take
  <2> QED
    BY <1>3, <2>1 DEF Take, TypeOK, calls, reports, Tasks
<1>4. ASSUME NEW n \in {0, 1}, NEW next \in {"port1", "pins"}, ReadPort(n, next)
      PROVE  TypeOK'
  <2>1. Merge(task.data, Values, PortPins(n)) \in SUBSET Pins
    BY ChipType DEF Merge, TypeOK
  <2>2. Merge(seen, High, PortPins(n)) \in SUBSET Pins
    BY ChipType DEF Merge, TypeOK
  <2>3. task' \in Tasks
    BY <1>4, <1>a, <2>1, TaskType DEF ReadPort
  <2> QED
    BY <1>4, <2>2, <2>3 DEF ReadPort, TypeOK, calls, reports, Tasks
<1>5. CASE ReadFails
  <2>1. left' \in [{"changes", "calls", "failures", "restarts"} -> Nat]
    BY <1>5, SpendType DEF ReadFails
  <2>2. unheard' \subseteq Pins
    BY <1>5, ChipType DEF ReadFails, TypeOK, Differ
  <2>3. task' \in Tasks
    BY <1>5, <1>a, TaskType DEF ReadFails
  <2> QED
    BY <1>5, <2>1, <2>2, <2>3 DEF ReadFails, TypeOK, calls, reports, Tasks
<1>6. CASE ReportPin
  <2> PICK p \in Due : /\ task' = [task EXCEPT !.i = p + 1]
                       /\ told' \in {Learn(told, p, p \in task.data), told}
                       /\ dropped' \subseteq dropped \cup {p}
    BY <1>6 DEF ReportPin, reports
  <2>1. p \in Pins
    BY DEF Due, Differ, TypeOK
  <2>2. task' \in Tasks
    <3>1. p + 1 \in 0 .. 16
      BY <2>1
    <3> QED
      BY <3>1, <1>a, TaskType
  <2>3. told' \in [known : SUBSET Pins, high : SUBSET Pins]
    BY <2>1, HistoryType DEF TypeOK
  <2> QED
    BY <1>6, <2>1, <2>2, <2>3 DEF ReportPin, TypeOK, calls, Tasks
<1>7. CASE AllReported
  <2>1. task' \in Tasks
    BY <1>7, <1>a, TaskType DEF AllReported
  <2> QED
    BY <1>7, <2>1 DEF AllReported, TypeOK, calls, reports, Tasks
<1>8. ASSUME NEW p \in Pins, Attach(p) \/ Detach(p) PROVE TypeOK'
  <2>1. left' \in [{"changes", "calls", "failures", "restarts"} -> Nat]
    BY <1>8, SpendType DEF Attach, Detach, Call
  <2>2. told' \in [known : SUBSET Pins, high : SUBSET Pins]
    BY <1>8, HistoryType DEF Attach, Detach, TypeOK, reports
  <2> QED
    BY <1>8, <2>1, <2>2 DEF Attach, Detach, TypeOK, reports
<1>9. ASSUME NEW p \in Pins, GetValue(p) PROVE TypeOK'
  <2>1. left' \in [{"changes", "calls", "failures", "restarts"} -> Nat]
    BY <1>9, SpendType DEF GetValue, Call
  <2>2. seen' \subseteq Pins
    BY <1>9, ChipType DEF GetValue, Merge, TypeOK
  <2> QED
    BY <1>9, <2>1, <2>2 DEF GetValue, TypeOK, calls, reports
<1>10. ASSUME NEW r \in {"config", "polarity"}, NEW p \in Pins, NEW b \in BOOLEAN,
              Configure(r, p, b)
       PROVE  TypeOK'
  <2> PICK new \in SUBSET Pins, written \in SUBSET Pins : WriteReg(r, new, written)
    BY <1>10, ConfigureWrites
  <2>1. r \in Registers
    BY DEF Registers
  <2> QED
    BY <1>10, <2>1, ConfigureWrites, WriteRegType DEF TypeOK
<1>11. ASSUME NEW p \in Pins, NEW b \in BOOLEAN, SetValue(p, b) PROVE TypeOK'
  <2>1. "output" \in Registers
    BY DEF Registers
  <2>2. want' \in [known : SUBSET Pins, high : SUBSET Pins]
    <3>1. want' \in {Learn(want, p, b), Forget(want, p)}
      BY <1>11, SetValueWrites
    <3>2. want \in [known : SUBSET Pins, high : SUBSET Pins]
      BY DEF TypeOK
    <3>3. /\ Learn(want, p, b) \in [known : SUBSET Pins, high : SUBSET Pins]
          /\ Forget(want, p) \in [known : SUBSET Pins, high : SUBSET Pins]
      BY <3>2, HistoryType
    <3> QED
      BY <3>1, <3>3
  <2> PICK written \in {{}, PortPins(p \div 8)} :
           WriteReg("output", SetBit(cache["output"], p, b), written)
    BY <1>11, SetValueWrites
  <2>3. written \in SUBSET Pins
    BY ChipType
  <2> QED
    BY <1>11, <2>1, <2>2, <2>3, SetValueWrites, WriteRegType DEF TypeOK
<1>12. CASE UNCHANGED vars
  BY <1>12 DEF vars, TypeOK
<1> QED
  BY <1>1, <1>2, <1>3, <1>4, <1>5, <1>6, <1>7, <1>8, <1>9, <1>10, <1>11, <1>12
  DEF Next, Task, SetDirection, SetPolarity

LEMMA TypeInit == Init => TypeOK
BY PinsAssumption, InitType DEF Init, TypeOK, Fresh, Nothing

(* Every variable keeps its type: the registers hold bits of the pins, the *)
(* task is at a place it knows.                                            *)
THEOREM Pca9555TypeCorrect == Spec => []TypeOK
<1> QED
  BY TypeInit, TypeStep, PTL DEF Spec

---------------------------------------------------------------------------
(* The inductive invariant of UpToDate.  At rest previous_state is what was *)
(* read; what was read is right for every pin unless an edge is pending or  *)
(* the task is still to read the port; a callback knows the new value of    *)
(* the pins that are reported already, the old one of the others, unless    *)
(* its last report was dropped.                                             *)
Reported(p) == IF task.at = "pins" /\ p < task.i THEN p \in task.data ELSE p \in task.prev
Right(p) == trigger \/ Reads(p) \/ (p \in task.data <=> p \in Values)

Positions == /\ task.at = "wait" => task.prev = task.data
             /\ task.at \in {"port0", "port1"} => task.i = 0
AllRight == \A p \in chip["config"] \ unheard : Right(p)
AllReportedRight ==
    /\ told.known \subseteq handler \cap callback
    /\ \A p \in told.known \ dropped : p \in told.high <=> Reported(p)

IInv == TypeOK /\ Positions /\ AllRight /\ AllReportedRight

LEMMA InputValue ==
    ASSUME TypeOK, NEW p \in chip["config"]
    PROVE  /\ p \in Pins
           /\ p \in Values <=> ~(p \in level <=> p \in chip["polarity"])
BY DEF TypeOK, Registers, Values, High, Merge, Differ

LEMMA PortsCover == \A p \in Pins : p \in PortPins(0) \/ p \in PortPins(1)
<1> SUFFICES ASSUME NEW p \in Pins PROVE p \in PortPins(0) \/ p \in PortPins(1)
  OBVIOUS
<1>1. p \in 0 .. 15
  BY PinsAssumption
<1>2. p \div 8 = 0 \/ p \div 8 = 1
  BY <1>1
<1> QED
  BY <1>2 DEF PortPins

(* A write of registers touches only pins it declares unheard.             *)
LEMMA WriteRegRight ==
    ASSUME IInv, TypeOK', NEW r \in Registers, NEW new \in SUBSET Pins,
           NEW written \in SUBSET Pins, WriteReg(r, new, written)
    PROVE  IInv'
<1>1. Positions' /\ AllReportedRight'
  BY DEF IInv, Positions, AllReportedRight, Reported, WriteReg, reports
<1>2. ASSUME NEW p \in chip'["config"] \ unheard' PROVE Right(p)'
  <2>1. /\ p \in chip["config"] \ unheard
        /\ p \in chip["polarity"] <=> p \in chip'["polarity"]
    BY <1>2 DEF WriteReg, Differ
  <2>2. p \in Values <=> p \in Values'
    <3>1. p \in Values <=> ~(p \in level <=> p \in chip["polarity"])
      BY <2>1, InputValue DEF IInv
    <3>2. p \in Values' <=> ~(p \in level' <=> p \in chip'["polarity"])
      BY <1>2 DEF TypeOK, Registers, Values, High, Merge, Differ
    <3>3. level' = level
      BY DEF WriteReg
    <3> QED
      BY <2>1, <3>1, <3>2, <3>3
  <2>3. Right(p)
    BY <2>1 DEF IInv, AllRight
  <2>4. trigger => trigger'
    BY DEF WriteReg, EdgeTriggers
  <2> QED
    BY <2>2, <2>3, <2>4 DEF Right, Reads, WriteReg
<1> QED
  BY <1>1, <1>2 DEF IInv, AllRight

(* A change of a level is seen by an edge, by a read to come, or unheard.  *)
LEMMA PinChangesRight ==
    ASSUME IInv, TypeOK', NEW p \in Pins, PinChanges(p)
    PROVE  IInv'
<1>1. Positions' /\ AllReportedRight'
  BY DEF IInv, Positions, AllReportedRight, Reported, PinChanges, calls, reports
<1>2. ASSUME NEW q \in chip'["config"] \ unheard' PROVE Right(q)'
  <2>1. /\ q \in chip["config"] \ unheard /\ chip' = chip /\ task' = task
        /\ trigger => trigger'
    BY <1>2 DEF PinChanges, EdgeTriggers
  <2>2. Right(q)
    BY <2>1 DEF IInv, AllRight
  <2>3. CASE q # p
    <3>1. q \in level <=> q \in level'
      BY <2>3 DEF PinChanges, Differ
    <3>2. q \in Values <=> ~(q \in level <=> q \in chip["polarity"])
      BY <2>1, InputValue DEF IInv
    <3>3. q \in Values' <=> ~(q \in level' <=> q \in chip'["polarity"])
      BY <1>2 DEF TypeOK, Registers, Values, High, Merge, Differ
    <3> QED
      BY <2>1, <2>2, <3>1, <3>2, <3>3 DEF Right, Reads
  <2>4. CASE q = p /\ ~Asserted
    <3>1. p \in level <=> p \in seen
      BY <2>1, <2>4 DEF Asserted, Differ
    <3>2. p \in Differ(level', seen')
      BY <3>1 DEF PinChanges, Differ
    <3>3. Asserted'
      BY <2>1, <2>4, <3>2 DEF Asserted
    <3> QED
      BY <2>4, <3>3 DEF PinChanges, EdgeTriggers, Right
  <2>5. CASE q = p /\ Asserted
    <3>1. trigger \/ Reads(p)
      BY <1>2, <2>5 DEF PinChanges
    <3> QED
      BY <2>1, <2>5, <3>1 DEF Right, Reads
  <2> QED
    BY <2>3, <2>4, <2>5
<1> QED
  BY <1>1, <1>2 DEF IInv, AllRight

LEMMA TaskRight == ASSUME IInv, TypeOK', Task PROVE IInv'
<1>1. CASE Take
  <2>1. /\ task'.at = "port0" /\ task'.i = 0 /\ task'.data = task.data
        /\ task'.prev = task.prev
    BY <1>1 DEF Take, IInv, TypeOK
  <2>2. Positions'
    BY <2>1 DEF Positions
  <2>3. AllRight'
    BY <2>1 DEF AllRight, Right, Reads
  <2>4. AllReportedRight'
    BY <1>1, <2>1 DEF IInv, AllReportedRight, Reported, Take, calls, reports
  <2> QED
    BY <2>2, <2>3, <2>4 DEF IInv
<1>2. ASSUME NEW n \in {0, 1}, NEW next, ReadPort(n, next),
             (n = 0 /\ next = "port1") \/ (n = 1 /\ next = "pins")
      PROVE  IInv'
  <2>1. /\ task'.at = next /\ task'.i = 0 /\ task'.prev = task.prev /\ task.i = 0
        /\ task'.data = Merge(task.data, Values, PortPins(n))
    BY <1>2 DEF ReadPort, IInv, TypeOK, Positions
  <2>2. Positions'
    BY <1>2, <2>1 DEF Positions
  <2>3. AllReportedRight'
    <3>1. told' = told /\ dropped' = dropped /\ task.at # "pins"
      BY <1>2 DEF ReadPort, reports
    <3>2. ASSUME NEW p \in told.known \ dropped PROVE p \in told.high <=> Reported(p)'
      <4>1. p \in Pins /\ ~(p < 0)
        BY PinsAssumption DEF IInv, TypeOK
      <4>2. p \in told.high <=> p \in task.prev
        BY <3>1 DEF IInv, AllReportedRight, Reported
      <4> QED
        BY <2>1, <4>1, <4>2 DEF Reported
    <3> QED
      BY <1>2, <3>1, <3>2 DEF ReadPort, IInv, AllReportedRight, calls
  <2>4. ASSUME NEW p \in chip'["config"] \ unheard' PROVE Right(p)'
    <3>1. chip' = chip /\ level' = level /\ trigger' = trigger
      BY <1>2 DEF ReadPort
    <3>2. p \in Pins /\ Values' = Values
      BY <2>4, <3>1, InputValue DEF IInv, Values, High
    <3>3. CASE p \in PortPins(n)
      BY <2>1, <3>2, <3>3 DEF Merge, Right
    <3>4. CASE n = 0 /\ p \notin PortPins(0)
      BY <1>2, <2>1, <3>2, <3>4, PortsCover DEF Right, Reads
    <3>5. CASE n = 1 /\ p \notin PortPins(1)
      <4>1. p \notin unheard /\ Right(p) /\ ~Reads(p)
        BY <1>2, <2>4, <3>1, <3>5 DEF ReadPort, IInv, AllRight, Reads
      <4> QED
        BY <2>1, <3>1, <3>2, <3>5, <4>1 DEF Right, Merge
    <3> QED
      BY <3>3, <3>4, <3>5
  <2> QED
    BY <2>2, <2>3, <2>4 DEF IInv, AllRight
<1>3. CASE ReadFails
  <2>1. /\ task'.at = "pins" /\ task'.i = 0 /\ task.i = 0
        /\ task'.data = task.data /\ task'.prev = task.prev
    BY <1>3 DEF ReadFails, IInv, TypeOK, Positions
  <2>2. /\ chip' = chip /\ level' = level /\ trigger' = trigger
        /\ told' = told /\ dropped' = dropped
    BY <1>3 DEF ReadFails, reports
  <2>3. AllReportedRight'
    <3>1. ASSUME NEW p \in told.known \ dropped PROVE p \in told.high <=> Reported(p)'
      <4>1. p \in Pins /\ ~(p < 0)
        BY PinsAssumption DEF IInv, TypeOK
      <4>2. p \in told.high <=> p \in task.prev
        BY <1>3 DEF IInv, AllReportedRight, Reported, ReadFails
      <4> QED
        BY <2>1, <4>1, <4>2 DEF Reported
    <3> QED
      BY <1>3, <2>2, <3>1 DEF ReadFails, IInv, AllReportedRight, calls
  <2>4. AllRight'
    <3>1. Values' = Values
      BY <2>2 DEF Values, High
    <3>2. trigger' \/ \A p : p \notin unheard' => (p \in task.data <=> p \in Values)
      BY <1>3, <2>2 DEF ReadFails, Differ
    <3> QED
      BY <2>1, <3>1, <3>2 DEF AllRight, Right
  <2> QED
    BY <2>1, <2>3, <2>4 DEF IInv, Positions
<1>4. CASE ReportPin
  <2> PICK p \in Due : /\ \A q \in Due : p <= q
                       /\ task' = [task EXCEPT !.i = p + 1]
                       /\ \/ /\ p \in handler \cap callback /\ dropped' = dropped \ {p}
                             /\ told' = Learn(told, p, p \in task.data)
                          \/ /\ told' = told /\ dropped' = dropped \cup ({p} \cap told.known)
                          \/ /\ told' = told /\ dropped' = dropped
                             /\ p \notin handler \cap callback
    BY <1>4 DEF ReportPin, reports
  <2>1. /\ task'.at = "pins" /\ task'.i = p + 1 /\ task.at = "pins"
        /\ task'.data = task.data /\ task'.prev = task.prev
    BY <1>4 DEF ReportPin, IInv, TypeOK
  <2>2. p \in Pins
    BY DEF Due, Differ, IInv, TypeOK
  <2>3. AllRight'
    BY <1>4, <2>1 DEF IInv, AllRight, Right, Reads, ReportPin, Values, High
  <2>4. AllReportedRight'
    <3> SUFFICES ASSUME NEW q \in told'.known \ dropped' PROVE q \in told'.high <=> Reported(q)'
      <4>1. told'.known \subseteq handler \cap callback
        BY DEF IInv, AllReportedRight, Learn
      <4> QED
        BY <1>4, <4>1 DEF AllReportedRight, ReportPin, calls
    <3>1. q \in Pins /\ q \in Int /\ p \in Int /\ task.i \in Int
      BY <2>2, PinsAssumption DEF IInv, TypeOK
    <3>2. CASE q = p
      <4>1. told' = Learn(told, p, p \in task.data)
        BY <3>2 DEF IInv, AllReportedRight
      <4>2. q \in told'.high <=> q \in task.data
        BY <3>2, <4>1 DEF Learn, SetBit
      <4> QED
        BY <2>1, <3>1, <3>2, <4>2 DEF Reported
    <3>3. CASE q # p
      <4>1. q \in told.known \ dropped /\ (q \in told'.high <=> q \in told.high)
        BY <3>3 DEF Learn, SetBit
      <4>2. q \in told.high <=> Reported(q)
        BY <4>1 DEF IInv, AllReportedRight
      <4>3. task.i <= q /\ q < p => (q \in task.data <=> q \in task.prev)
        BY <3>1 DEF Due, Differ
      <4>4. p >= task.i
        BY DEF Due
      <4> QED
        BY <2>1, <3>1, <3>3, <4>1, <4>2, <4>3, <4>4 DEF Reported
    <3> QED
      BY <3>2, <3>3
  <2> QED
    BY <2>1, <2>3, <2>4 DEF IInv, Positions
<1>5. CASE AllReported
  <2>1. /\ task'.at = "wait" /\ task.at = "pins"
        /\ task'.data = task.data /\ task'.prev = task.data
    BY <1>5 DEF AllReported, IInv, TypeOK
  <2>2. AllRight'
    BY <1>5, <2>1 DEF IInv, AllRight, Right, Reads, AllReported, Values, High
  <2>3. AllReportedRight'
    <3>1. ASSUME NEW p \in told.known \ dropped PROVE p \in told.high <=> p \in task.data
      <4>1. p \in Pins /\ task.i \in Int
        BY DEF IInv, TypeOK
      <4>2. p >= task.i => (p \in task.data <=> p \in task.prev)
        BY <1>5 DEF AllReported, Due, Differ
      <4>3. p \in Int
        BY <4>1, PinsAssumption
      <4> QED
        BY <2>1, <4>1, <4>2, <4>3 DEF IInv, AllReportedRight, Reported
    <3> QED
      BY <1>5, <2>1, <3>1 DEF AllReported, IInv, AllReportedRight, Reported, calls, reports
  <2> QED
    BY <2>1, <2>2, <2>3 DEF IInv, Positions
<1> QED
  <2>1. CASE ReadPort(0, "port1")
    BY <1>2, <2>1
  <2>2. CASE ReadPort(1, "pins")
    BY <1>2, <2>2
  <2> QED
    BY <1>1, <1>3, <1>4, <1>5, <2>1, <2>2 DEF Task

LEMMA Step == IInv /\ [Next]_vars => IInv'
<1> SUFFICES ASSUME IInv, [Next]_vars PROVE IInv'
  OBVIOUS
<1>a. TypeOK'
  BY TypeStep DEF IInv
<1>1. CASE Task
  BY <1>1, <1>a, TaskRight
<1>2. CASE Restart
  <2>1. trigger' /\ task' = Fresh /\ told' = Nothing /\ dropped' = {}
    BY <1>2 DEF Restart
  <2> QED
    BY <1>a, <2>1 DEF IInv, Positions, AllRight, Right, AllReportedRight, Fresh, Nothing
<1>3. ASSUME NEW p \in Pins, PinChanges(p) PROVE IInv'
  BY <1>a, <1>3, PinChangesRight
<1>4. ASSUME NEW p \in Pins, Attach(p) \/ Detach(p) PROVE IInv'
  <2>1. /\ chip' = chip /\ level' = level /\ trigger' = trigger /\ task' = task
        /\ unheard' = unheard
    BY <1>4 DEF Attach, Detach, reports
  <2>2. AllRight'
    BY <2>1 DEF IInv, AllRight, Right, Reads, Values, High
  <2>3. \/ /\ told' = told /\ dropped' = dropped
           /\ handler \subseteq handler' /\ callback' = callback
        \/ /\ told' = Forget(told, p) /\ dropped' = dropped \ {p}
           /\ handler \subseteq handler' /\ callback \ {p} \subseteq callback'
    BY <1>4 DEF Attach, Detach, reports
  <2>4. AllReportedRight'
    BY <2>1, <2>3 DEF IInv, AllReportedRight, Reported, Forget
  <2> QED
    BY <1>a, <2>1, <2>2, <2>4 DEF IInv, Positions
<1>5. ASSUME NEW p \in Pins, GetValue(p) PROVE IInv'
  BY <1>a, <1>5 DEF GetValue, calls, reports, IInv, Positions, AllRight, Right, Reads, Values, High,
                    AllReportedRight, Reported
<1>6. ASSUME NEW r \in {"config", "polarity"}, NEW p \in Pins, NEW b \in BOOLEAN,
             Configure(r, p, b)
      PROVE  IInv'
  <2>1. r \in Registers
    BY DEF Registers
  <2> QED
    BY <1>a, <1>6, <2>1, ConfigureWrites, WriteRegRight DEF IInv
<1>7. ASSUME NEW p \in Pins, NEW b \in BOOLEAN, SetValue(p, b) PROVE IInv'
  <2>1. "output" \in Registers
    BY DEF Registers
  <2>2. \A written \in {{}, PortPins(p \div 8)} : written \in SUBSET Pins
    BY ChipType DEF IInv
  <2> QED
    BY <1>a, <1>7, <2>1, <2>2, SetValueWrites, WriteRegRight DEF IInv
<1>8. CASE UNCHANGED vars
  BY <1>a, <1>8 DEF vars, IInv, Positions, AllRight, Right, Reads, Values, High,
                    AllReportedRight, Reported
<1> QED
  BY <1>1, <1>2, <1>3, <1>4, <1>5, <1>6, <1>7, <1>8 DEF Next, SetDirection, SetPolarity

LEMMA Initially == Init => IInv
<1> SUFFICES ASSUME Init PROVE IInv
  OBVIOUS
<1>1. TypeOK
  BY TypeInit
<1> QED
  BY <1>1 DEF Init, IInv, Positions, AllRight, Right, AllReportedRight, Fresh, Nothing

LEMMA AtRest == IInv => UpToDate
<1> SUFFICES ASSUME IInv, task.at = "wait", ~trigger,
                    NEW p \in chip["config"] \ (unheard \cup dropped), p \in told.known
             PROVE  p \in told.high <=> p \in Values
  BY DEF UpToDate, Agrees
<1>1. p \in task.data <=> p \in Values
  BY DEF IInv, AllRight, Right, Reads
<1>2. task.prev = task.data /\ (p \in told.high <=> p \in task.prev)
  BY DEF IInv, Positions, AllReportedRight, Reported
<1> QED
  BY <1>1, <1>2

(* While the driver rests, every callback was told what its pin reads now, *)
(* for any number of pins, changes, reads in between, failures and         *)
(* restarts; the exceptions are the changes that unheard and dropped name. *)
THEOREM ReportsAreUpToDate == Spec => []UpToDate
<1> QED
  BY Initially, Step, AtRest, PTL DEF Spec

---------------------------------------------------------------------------
(* Settings.  For a pin whose setting is known the copy has it as well,    *)
(* which is what the next write to the same register sends.                *)
Settled == \A p \in want.known : /\ p \in want.high <=> p \in cache["output"]
                                 /\ p \in want.high <=> p \in chip["output"]

LEMMA SettledStep == TypeOK /\ Settled /\ [Next]_vars => Settled'
<1> SUFFICES ASSUME TypeOK, Settled, [Next]_vars PROVE Settled'
  OBVIOUS
<1>1. CASE want' = want /\ cache'["output"] = cache["output"] /\ chip'["output"] = chip["output"]
  BY <1>1 DEF Settled
<1>2. CASE Restart
  BY <1>2 DEF Restart, Nothing, Settled
<1>3. ASSUME NEW r \in {"config", "polarity"}, NEW p \in Pins, NEW b \in BOOLEAN,
             Configure(r, p, b)
      PROVE  Settled'
  <2> PICK new, written : WriteReg(r, new, written)
    BY <1>3, ConfigureWrites
  <2>1. cache'["output"] = cache["output"] /\ chip'["output"] = chip["output"]
    BY DEF WriteReg, TypeOK, Registers
  <2> QED
    BY <1>1, <1>3, <2>1, ConfigureWrites
<1>4. ASSUME NEW p \in Pins, NEW b \in BOOLEAN, SetValue(p, b) PROVE Settled'
  <2> DEFINE new == SetBit(cache["output"], p, b)
  <2> PICK written \in {{}, PortPins(p \div 8)} :
           /\ WriteReg("output", new, written)
           /\ want' = Learn(want, p, b) => written = PortPins(p \div 8)
    BY <1>4, SetValueWrites
  <2>1. cache'["output"] = new /\ chip'["output"] = Merge(chip["output"], new, written)
    BY DEF WriteReg, TypeOK, Registers
  <2>2. want' \in {Learn(want, p, b), Forget(want, p)}
    BY <1>4, SetValueWrites
  <2>3. ASSUME NEW q \in want'.known
        PROVE  /\ q \in want'.high <=> q \in cache'["output"]
               /\ q \in want'.high <=> q \in chip'["output"]
    <3>1. CASE q # p
      <4>1. q \in want.known /\ (q \in want'.high <=> q \in want.high)
        BY <2>2, <3>1 DEF Learn, Forget, SetBit
      <4>2. q \in new <=> q \in cache["output"]
        BY <3>1 DEF SetBit
      <4> QED
        BY <2>1, <4>1, <4>2 DEF Settled, Merge
    <3>2. CASE q = p
      <4>1. want' = Learn(want, p, b)
        BY <2>2, <3>2 DEF Forget
      <4>2. p \in want'.high <=> p \in new
        BY <4>1 DEF Learn, SetBit
      <4>3. p \in written
        BY <4>1 DEF PortPins
      <4> QED
        BY <2>1, <3>2, <4>2, <4>3 DEF Merge
    <3> QED
      BY <3>1, <3>2
  <2> QED
    BY <2>3 DEF Settled
<1> QED
  BY <1>1, <1>2, <1>3, <1>4
  DEF Next, Task, Take, ReadPort, ReadFails, ReportPin, AllReported, PinChanges, Attach, Detach,
      GetValue, SetDirection, SetPolarity, vars, calls

(* An output pin holds what it was last set to, whatever was written to    *)
(* its neighbours and whatever failed in between.                          *)
THEOREM SettingsAreObeyed == Spec => []Obeyed
<1>1. Init => Settled
  BY DEF Init, Nothing, Settled
<1>2. Settled => Obeyed
  BY DEF Settled, Obeyed, Agrees
<1> QED
  BY <1>1, <1>2, SettledStep, Pca9555TypeCorrect, PTL DEF Spec

=============================================================================
