------------------------------ MODULE Pca9555 ------------------------------
(***************************************************************************)
(* The driver of the PCA9555 I/O expander (driver_io_pca9555,              *)
(* modpca9555.c): a task reports the changes of input pins after an edge   *)
(* of the chip's interrupt line, and calls write one pin at a time through *)
(* copies of the chip's registers.                                         *)
(*                                                                         *)
(* The chip holds its interrupt line low while the level of an input pin   *)
(* differs from what was read last; reading a port ends this for the pins  *)
(* of that port only.  Sets of pins stand for the registers' bits.         *)
(***************************************************************************)
EXTENDS Integers, Sequences

CONSTANTS
    Pins,
    AlwaysOutput, AlwaysInput,  \* pins configured as such in Kconfig
    PolarityDefault,            \* CONFIG_DRIVER_PCA9555_POLARITY_0 and _1
    Ops,                        \* the calls made in a run
    MaxChanges, MaxCalls,       \* bounds: changes of levels, calls
    MaxFailures, MaxRestarts    \* bounds: failed transfers, restarts

Registers == {"config", "polarity", "output"}

ASSUME PinsAssumption ==
    /\ Pins \subseteq 0 .. 15
    /\ AlwaysOutput \subseteq Pins /\ AlwaysInput \subseteq Pins
    /\ PolarityDefault \subseteq Pins
    /\ {MaxChanges, MaxCalls, MaxFailures, MaxRestarts} \subseteq Nat

VARIABLES
    level,      \* the pins that something outside drives high
    chip,       \* the chip's registers
    seen,       \* the levels the chip handed out last
    trigger,    \* driver_pca9555_intr_trigger
    cache,      \* reg_config, reg_polarity, reg_output
    task,       \* driver_pca9555_intr_task: where it is, data, previous_state, i
    handler,    \* pins with an interrupt handler
    callback,   \* pins with a Python callback
    told,       \* history: the pins with a call of their callback, and the last values
    dropped,    \* history: pins whose callback is out of date by a dropped report
    want,       \* history: the pins whose last setting is known, and the settings
    unheard,    \* history: pins that changed with no edge to tell of it
    left        \* bounds: what is left of them

vars == <<level, chip, seen, trigger, cache, task, handler, callback, told,
          dropped, want, unheard, left>>
reports == <<told, dropped>>
calls == <<handler, callback, want>>

Nothing == [known |-> {}, high |-> {}]
SetBit(S, p, value) == IF value THEN S \cup {p} ELSE S \ {p}
Learn(h, p, value) == [known |-> h.known \cup {p}, high |-> SetBit(h.high, p, value)]
Forget(h, p) == [known |-> h.known \ {p}, high |-> h.high \ {p}]
Agrees(h, p, S) == p \in h.known => (p \in h.high <=> p \in S)

Spend(what) == left[what] > 0 /\ left' = [left EXCEPT ![what] = @ - 1]

---------------------------------------------------------------------------
(* The chip.                                                               *)

PortPins(n) == {p \in Pins : p \div 8 = n}
Merge(old, new, S) == (old \ S) \cup (new \cap S)
Differ(S, T) == (S \ T) \cup (T \ S)

High == Merge(chip["output"], level, chip["config"])
Values == Differ(High, chip["polarity"])
Asserted == Differ(level, seen) \cap chip["config"] # {}

(* The handler of the falling edge gives the semaphore. *)
EdgeTriggers == trigger' = (trigger \/ (~Asserted /\ Asserted'))

(* Whether the task reads the port of a pin before it waits again. *)
Reads(p) == task.at = "port0" \/ (task.at = "port1" /\ p \in PortPins(1))

PinChanges(p) ==
    /\ p \in chip["config"]
    /\ Spend("changes")
    /\ level' = Differ(level, {p})
    /\ unheard' = IF Asserted /\ ~trigger /\ ~Reads(p) THEN unheard \cup {p} ELSE unheard
    /\ UNCHANGED <<chip, seen, cache, task, calls, reports>>
    /\ EdgeTriggers

---------------------------------------------------------------------------
(* driver_pca9555_init, at power-on and after a restart of the ESP32, when *)
(* the chip keeps its registers and the output register is not written.    *)

Fresh == [at |-> "wait", data |-> {}, prev |-> {}, i |-> 0]
InitCache == [r \in Registers |-> CASE r = "config" -> Pins \ AlwaysOutput
                                    [] r = "polarity" -> PolarityDefault
                                    [] r = "output" -> Pins]

Init ==
    /\ level \in SUBSET Pins /\ seen = {}
    /\ chip = InitCache /\ cache = InitCache
    /\ trigger = TRUE /\ task = Fresh
    /\ handler = {} /\ callback = {}
    /\ told = Nothing /\ dropped = {} /\ want = Nothing /\ unheard = {}
    /\ left = [changes |-> MaxChanges, calls |-> MaxCalls,
               failures |-> MaxFailures, restarts |-> MaxRestarts]

Restart ==
    /\ Spend("restarts")
    /\ chip' = [InitCache EXCEPT !["output"] = chip["output"]]
    /\ cache' = InitCache
    /\ trigger' = TRUE /\ task' = Fresh
    /\ handler' = {} /\ callback' = {}
    /\ told' = Nothing /\ dropped' = {} /\ want' = Nothing /\ unheard' = {}
    /\ UNCHANGED <<level, seen>>

---------------------------------------------------------------------------
(* driver_pca9555_intr_task.                                               *)

Take ==
    /\ task.at = "wait" /\ trigger
    /\ trigger' = FALSE
    /\ task' = [task EXCEPT !.at = "port0", !.i = 0]
    /\ UNCHANGED <<level, chip, seen, cache, calls, reports, unheard, left>>

(* Mutant: the semaphore is cleared when all is read. *)
ReadPortClears(n, next) ==
    /\ task.at = IF n = 0 THEN "port0" ELSE "port1"
    /\ task' = [task EXCEPT !.at = next, !.data = Merge(@, Values, PortPins(n))]
    /\ seen' = Merge(seen, High, PortPins(n))
    /\ unheard' = unheard \ PortPins(n)
    /\ trigger' = (trigger /\ n = 0)
    /\ UNCHANGED <<level, chip, cache, calls, reports, left>>

(* The ports are read one after the other, in one transfer. *)
ReadPort(n, next) ==
    /\ task.at = IF n = 0 THEN "port0" ELSE "port1"
    /\ task' = [task EXCEPT !.at = next, !.data = Merge(@, Values, PortPins(n))]
    /\ seen' = Merge(seen, High, PortPins(n))
    /\ unheard' = unheard \ PortPins(n)
    /\ UNCHANGED <<level, chip, trigger, cache, calls, reports, left>>

(* What is not read stays as it was before; no edge comes until someone    *)
(* reads the port that keeps the line low.                                 *)
ReadFails ==
    /\ task.at \in {"port0", "port1"}
    /\ Spend("failures")
    /\ task' = [task EXCEPT !.at = "pins"]
    /\ unheard' = IF trigger THEN unheard ELSE unheard \cup Differ(task.data, Values)
    /\ UNCHANGED <<level, chip, seen, trigger, cache, calls, reports>>

Due == {p \in Differ(task.data, task.prev) : p >= task.i}

(* The handler is looked up under the mutex and schedules the callback.    *)
(* When the stack of the scheduler is full, of anybody's items, nothing is *)
(* scheduled and nobody looks at that; the pin counts as reported.         *)
ReportPin ==
    /\ task.at = "pins"
    /\ \E p \in Due :
         /\ \A q \in Due : p <= q
         /\ task' = [task EXCEPT !.i = p + 1]
         /\ \/ /\ p \in handler \cap callback
               /\ told' = Learn(told, p, p \in task.data) /\ dropped' = dropped \ {p}
            \/ /\ p \in handler \cap callback
               /\ told' = told /\ dropped' = dropped \cup ({p} \cap told.known)
            \/ p \notin handler \cap callback /\ UNCHANGED reports
    /\ UNCHANGED <<level, chip, seen, trigger, cache, calls, unheard, left>>

(* Mutant: the state of before is kept. *)
AllReportedKeeps ==
    /\ task.at = "pins" /\ Due = {}
    /\ task' = [task EXCEPT !.at = "wait"]
    /\ UNCHANGED <<level, chip, seen, trigger, cache, calls, reports, unheard, left>>

(* A delay lies in between. *)
AllReported ==
    /\ task.at = "pins" /\ Due = {}
    /\ task' = [task EXCEPT !.at = "wait", !.prev = task.data]
    /\ UNCHANGED <<level, chip, seen, trigger, cache, calls, reports, unheard, left>>

Task == Take \/ ReadPort(0, "port1") \/ ReadPort(1, "pins") \/ ReadFails
        \/ ReportPin \/ AllReported

---------------------------------------------------------------------------
(* Calls.  They come from Python, one at a time; a transfer waits for the  *)
(* end of the task's.                                                      *)

Call(op) == op \in Ops /\ Spend("calls")
BusFree == task.at # "port1"

Attach(p) ==
    /\ Call("attach")
    /\ handler' = handler \cup {p}
    /\ \/ /\ callback' = callback \cup {p}
          /\ told' = Forget(told, p) /\ dropped' = dropped \ {p}
       \/ UNCHANGED <<callback, reports>>   \* not a function: raises, too late
    /\ UNCHANGED <<level, chip, seen, trigger, cache, task, want, unheard>>

Detach(p) ==
    /\ Call("attach")
    /\ callback' = callback \ {p}
    /\ told' = Forget(told, p) /\ dropped' = dropped \ {p}
    /\ UNCHANGED <<level, chip, seen, trigger, cache, task, handler, want, unheard>>

(* A write of both ports or of one.  One that fails may have reached the   *)
(* chip, the first port only for instance; the copy is changed anyway.     *)
WriteReg(r, new, written) ==
    /\ cache' = [cache EXCEPT ![r] = new]
    /\ chip' = [chip EXCEPT ![r] = Merge(@, new, written)]
    /\ unheard' = unheard \cup (Differ(chip'["config"], chip["config"])
                                \cup Differ(chip'["polarity"], chip["polarity"]))
    /\ UNCHANGED <<level, seen, task, handler, callback, reports>>
    /\ EdgeTriggers

Configure(r, p, set) ==
    LET new == SetBit(cache[r], p, set) IN
    /\ p \notin AlwaysOutput \cup AlwaysInput
    /\ BusFree
    /\ \/ Call(r) /\ WriteReg(r, new, Pins)
       \/ /\ r \in Ops /\ Spend("failures")
          /\ \E written \in {{}, PortPins(0), Pins} : WriteReg(r, new, written)
    /\ UNCHANGED want

SetDirection(p, output) == Configure("config", p, ~output)
SetPolarity(p, polarity) == Configure("polarity", p, ~polarity)

(* Mutant: the other bits of the copy are not written. *)
SetValueAlone(p, value) ==
    LET new == SetBit({}, p, value) IN
    /\ p \notin cache["config"] /\ BusFree
    /\ Call("output") /\ WriteReg("output", new, PortPins(p \div 8))
    /\ want' = Learn(want, p, value)

SetValue(p, value) ==
    LET new == SetBit(cache["output"], p, value)
        port == PortPins(p \div 8) IN
    /\ p \notin cache["config"] /\ BusFree
    /\ \/ /\ Call("output") /\ WriteReg("output", new, port)
          /\ want' = Learn(want, p, value)
       \/ /\ "output" \in Ops /\ Spend("failures")
          /\ \E written \in {{}, port} : WriteReg("output", new, written)
          /\ want' = Forget(want, p)

(* Reading an input reads its whole port. *)
GetValue(p) ==
    /\ p \in cache["config"] /\ BusFree /\ Call("get")
    /\ seen' = Merge(seen, High, PortPins(p \div 8))
    /\ UNCHANGED <<level, chip, trigger, cache, task, calls, reports, unheard>>

---------------------------------------------------------------------------
Next ==
    \/ Task \/ Restart
    \/ \E p \in Pins :
         \/ PinChanges(p) \/ Attach(p) \/ Detach(p) \/ GetValue(p)
         \/ \E b \in BOOLEAN : SetDirection(p, b) \/ SetPolarity(p, b) \/ SetValue(p, b)

(* The task has priority 10, a transfer ends after a second at the latest, *)
(* and the mutexes are held for no longer.                                 *)
Spec == Init /\ [][Next]_vars /\ WF_vars(Task)

---------------------------------------------------------------------------
TypeOK ==
    /\ level \subseteq Pins /\ seen \subseteq Pins /\ unheard \subseteq Pins
    /\ chip \in [Registers -> SUBSET Pins] /\ cache \in [Registers -> SUBSET Pins]
    /\ trigger \in BOOLEAN
    /\ task \in [at : {"wait", "port0", "port1", "pins"}, data : SUBSET Pins,
                 prev : SUBSET Pins, i : 0 .. 16]
    /\ handler \subseteq Pins /\ callback \subseteq Pins /\ dropped \subseteq Pins
    /\ told \in [known : SUBSET Pins, high : SUBSET Pins]
    /\ want \in [known : SUBSET Pins, high : SUBSET Pins]
    /\ left \in [{"changes", "calls", "failures", "restarts"} -> Nat]

(* While the task waits with no edge pending, the value a callback was     *)
(* last scheduled with is what the pin reads now: no interleaving of       *)
(* edges, reads of the task and reads of others loses a change, and a      *)
(* dropped report costs its own pin only, until that pin's next change.    *)
(* The exceptions are these drops, changes while the line was low already  *)
(* and nobody was going to read that port, failed reads and reconfigured   *)
(* pins (unheard).                                                         *)
UpToDate ==
    task.at = "wait" /\ ~trigger =>
        \A p \in chip["config"] \ (unheard \cup dropped) : Agrees(told, p, Values)

(* An output pin holds what it was last set to, whatever happened to its   *)
(* neighbours in the same register, failed calls included; a failed call   *)
(* or a restart leaves the pin itself unknown.                             *)
Obeyed == \A p \in Pins : Agrees(want, p, chip["output"])

(* When the levels have come to rest, so do the task and what it reports:  *)
(* a callback is not left for good with a value of the past, but for pins  *)
(* whose last report was dropped and those that changed unheard.           *)
AllTold ==
    \A p \in Pins :
        <>[](p \in chip["config"] \ (unheard \cup dropped) => Agrees(told, p, Values))

=============================================================================
