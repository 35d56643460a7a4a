---------------------------- MODULE YModemProofs ----------------------------
(***************************************************************************)
(* Proof that the file arrives (Delivered), for files and limits of every  *)
(* size and a line that loses and garbles whatever it likes.               *)
(***************************************************************************)
EXTENDS YModem, SequenceTheorems, FiniteSetTheorems, TLAPS

Kinds  == {"name", "block", "empty", "EOT", "C", "CA", "bad", "garbage", "a"}
Stages == {"greeting", "name", "afterName", "block", "EOT", "afterEOT", "empty", "sent", "failed"}
Letters == {"ACK", "NAK", "C", "CA", "a"}

(* Items of the line: what the sender numbers; what the receiver answers;  *)
(* acknowledgements, and the answers to packets and EOTs.                  *)
Sent     == {"name", "block", "EOT", "empty"}
Receiving == {i \in DOMAIN toReceiver : toReceiver[i][1] \in Sent}
Tokens   == {i \in DOMAIN toReceiver : toReceiver[i][1] \in Sent \cup {"bad"}}
Acks(q)  == {i \in DOMAIN q : q[i] = "ACK"}
Verdicts == {i \in DOMAIN toSender : toSender[i] \in {"ACK", "NAK"}}

(* The place of an item, and of the sender, in a transfer. *)
Place(p, size) == IF p[1] = "name" THEN 0 ELSE IF p[1] = "block" THEN p[2]
            ELSE IF p[1] = "EOT" THEN size + 1 ELSE size + 2
Pos == IF at \in {"greeting", "name"} THEN 0 ELSE IF at = "afterName" THEN 1
       ELSE IF at = "block" THEN blkNumber ELSE IF at = "EOT" THEN sizeFile + 1
       ELSE IF at = "sent" THEN sizeFile + 3 ELSE sizeFile + 2

SenderTyped ==
    /\ at \in Stages /\ sizeFile \in Nat /\ blkNumber \in Nat
    /\ at = "block" => blkNumber \in 1 .. sizeFile
    /\ at \notin {"block", "failed"} => blkNumber = 0
Numbered(p, size) == IF p[1] = "block" THEN p[2] \in 1 .. size ELSE p[2] = 0
LineTyped ==
    /\ toReceiver \in Seq(Kinds \X Nat) /\ toSender \in Seq(Letters)
    /\ \A i \in Receiving : Numbered(toReceiver[i], sizeFile)
ReceiverTyped ==
    /\ result \in {"open", "received", "failed"} /\ packets_received \in Nat
    /\ eof_cnt \in 0 .. 2 /\ file \in Seq(Nat) /\ spoilt \in Nat
Typed == SenderTyped /\ LineTyped /\ ReceiverTyped

(* The sender is ahead of what was acknowledged only by misread answers,   *)
(* and behind by no more than the packet it repeats.                       *)
Credit ==
    /\ eof_cnt < 2 /\ at # "failed" =>
         Pos + Cardinality(Acks(toSender)) <= packets_received + spoilt
    /\ spoilt <= 1 /\ at \in {"greeting", "name", "afterName", "block"} =>
         packets_received <= Pos + 1

(* What is on its way to the receiver is in order, not ahead of the sender *)
(* or the answers it had, and was taken before at most once.               *)
Ordered ==
    /\ \A i, j \in Receiving : i < j => Place(toReceiver[i], sizeFile) <= Place(toReceiver[j], sizeFile)
    /\ at # "failed" => \A i \in Receiving : Place(toReceiver[i], sizeFile) <= Pos
    /\ eof_cnt < 2 =>
         \A i \in Receiving : Place(toReceiver[i], sizeFile) <= packets_received + spoilt
    /\ spoilt <= 1 =>
         \A i \in Receiving : toReceiver[i][1] \in {"name", "block"} =>
                                packets_received <= Place(toReceiver[i], sizeFile) + 1

(* The file has the blocks that were accepted. *)
Blocks == IF packets_received = 0 THEN 0
          ELSE IF packets_received <= sizeFile THEN packets_received - 1 ELSE sizeFile
Filed ==
    /\ result # "failed" => Len(file) = Blocks
    /\ result = "failed" => file = <<>>
    /\ result = "received" => eof_cnt = 2
    /\ spoilt <= 1 => \A i \in 1 .. Len(file) : file[i] = i
    /\ spoilt = 0 /\ eof_cnt > 0 => packets_received > sizeFile

(* Only a sender that gave up says so. *)
NoAbort == at # "failed" => \A i \in DOMAIN toReceiver : toReceiver[i][1] # "CA"

(* Unless an answer was misread, the line carries one packet or the answer *)
(* to it, and nothing of the kind when the sender waits for a C.           *)
OneToken ==
    spoilt = 0 /\ at # "failed" =>
      /\ \A i \in DOMAIN toReceiver : toReceiver[i][1] # "a"
      /\ at # "sent" => Tokens = {} \/ Verdicts = {}
      /\ \A i, j \in Tokens : i = j
      /\ at # "sent" => \A i, j \in Verdicts : i = j
      /\ at \in {"greeting", "afterName", "afterEOT", "sent"} => Tokens = {}
      /\ at \in {"greeting", "afterName", "afterEOT"} => Verdicts = {}
      /\ \A i \in Receiving : toReceiver[i][1] = at
      /\ at = "EOT" /\ Acks(toSender) # {} => eof_cnt = 2
      /\ at \in {"afterEOT", "empty", "sent"} => eof_cnt = 2
      /\ at = "empty" /\ result = "failed" => Verdicts = {}
      /\ at = "sent" => result # "failed"

(* The inductive invariant. *)
IInv == Typed /\ Credit /\ Ordered /\ Filed /\ NoAbort /\ OneToken

---------------------------------------------------------------------------
(* Queues.                                                                 *)

(* What is left of a queue when its first d items are gone. *)
Shifted(q, new, d) ==
    /\ DOMAIN new = 1 .. Len(new) /\ Len(new) \in Nat /\ Len(new) + d = Len(q)
    /\ \A i \in 1 .. Len(new) : new[i] = q[i + d]

LEMMA TailShifts ==
    ASSUME NEW X, NEW q \in Seq(X), q # <<>>
    PROVE  /\ Tail(q) \in Seq(X) /\ Shifted(q, Tail(q), 1)
           /\ Len(q) \in Nat /\ DOMAIN q = 1 .. Len(q) /\ 1 \in DOMAIN q
           /\ Head(q) = q[1] /\ Head(q) \in X
  <1>1. /\ Tail(q) \in Seq(X) /\ Len(Tail(q)) = Len(q) - 1
        /\ \A i \in 1 .. Len(Tail(q)) : Tail(q)[i] = q[i + 1]
        /\ Head(q) \in X
    BY HeadTailProperties
  <1>2. Len(q) \in Nat \ {0} /\ DOMAIN q = 1 .. Len(q)
    BY EmptySeq, LenProperties
  <1>3. Len(Tail(q)) \in Nat /\ DOMAIN Tail(q) = 1 .. Len(Tail(q))
    BY <1>1, LenProperties
  <1>4. Head(q) = q[1]
    BY <1>2
  <1> QED BY <1>1, <1>2, <1>3, <1>4 DEF Shifted

LEMMA Stays ==
    ASSUME NEW X, NEW q \in Seq(X)
    PROVE  Shifted(q, q, 0) /\ Shifted(q, <<>>, Len(q)) /\ Len(q) \in Nat /\ DOMAIN q = 1 .. Len(q)
  <1>1. Len(q) \in Nat /\ DOMAIN q = 1 .. Len(q)
    BY LenProperties
  <1>2. Len(<<>>) = 0 /\ DOMAIN <<>> = 1 .. 0
    OBVIOUS
  <1> QED BY <1>1, <1>2 DEF Shifted

LEMMA AppendAdds ==
    ASSUME NEW X, NEW q \in Seq(X), NEW x \in X
    PROVE  /\ Append(q, x) \in Seq(X) /\ Len(q) \in Nat
           /\ DOMAIN q = 1 .. Len(q) /\ DOMAIN Append(q, x) = 1 .. Len(q) + 1
           /\ \A i \in 1 .. Len(q) : Append(q, x)[i] = q[i]
           /\ Append(q, x)[Len(q) + 1] = x
  <1>1. Append(q, x) \in Seq(X) /\ Len(Append(q, x)) = Len(q) + 1
        /\ \A i \in 1 .. Len(q) : Append(q, x)[i] = q[i]
        /\ Append(q, x)[Len(q) + 1] = x
    BY AppendProperties
  <1> QED BY <1>1, LenProperties

(* An answer, or two, behind the others. *)
LEMMA Answers1 ==
    ASSUME NEW X, NEW q \in Seq(X), NEW x \in X
    PROVE  q \o <<x>> = Append(q, x)
  OBVIOUS

LEMMA Answers2 ==
    ASSUME NEW X, NEW q \in Seq(X), NEW x \in X, NEW y \in X
    PROVE  q \o <<x, y>> = Append(Append(q, x), y)
  OBVIOUS

---------------------------------------------------------------------------
(* Counting acknowledgements.                                              *)

LEMMA AcksFinite ==
    ASSUME NEW q \in Seq(Letters)
    PROVE  IsFiniteSet(Acks(q)) /\ Cardinality(Acks(q)) \in Nat
  <1>1. Len(q) \in Int /\ 1 \in Int /\ DOMAIN q = 1 .. Len(q)
    BY LenProperties
  <1>2. IsFiniteSet(1 .. Len(q))
    BY <1>1, FS_Interval
  <1>3. Acks(q) \in SUBSET (1 .. Len(q))
    BY <1>1 DEF Acks
  <1> QED BY <1>2, <1>3, FS_Subset, FS_CardinalityType

LEMMA AcksRead ==
    ASSUME NEW q \in Seq(Letters), q # <<>>
    PROVE  Cardinality(Acks(q)) = Cardinality(Acks(Tail(q))) + (IF Head(q) = "ACK" THEN 1 ELSE 0)
  <1> DEFINE t == Tail(q)
             R == Acks(q) \ {1}
             f == [i \in Acks(t) |-> i + 1]
  <1>1. /\ t \in Seq(Letters) /\ Shifted(q, t, 1) /\ Len(q) \in Nat
        /\ DOMAIN q = 1 .. Len(q) /\ 1 \in DOMAIN q /\ Head(q) = q[1]
    BY TailShifts
  <1>2. IsFiniteSet(Acks(t)) /\ IsFiniteSet(Acks(q))
    BY <1>1, AcksFinite
  <1>3. \A i \in Acks(t) : i \in Nat /\ i + 1 \in R
    BY <1>1 DEF Acks, Shifted
  <1>4. \A j \in R : j - 1 \in Acks(t) /\ (j - 1) + 1 = j
    BY <1>1 DEF Acks, Shifted
  <1>5. f \in Bijection(Acks(t), R)
    <2>1. f \in [Acks(t) -> R]
      BY <1>3
    <2>2. \A i, j \in Acks(t) : f[i] = f[j] => i = j
      BY <1>3
    <2>3. \A j \in R : \E i \in Acks(t) : f[i] = j
      BY <1>4
    <2> HIDE DEF f, R
    <2> QED BY <2>1, <2>2, <2>3 DEF Bijection, Injection, Surjection, IsInjective
  <1>6. Cardinality(R) = Cardinality(Acks(t))
    BY <1>2, <1>5, FS_Bijection DEF ExistsBijection
  <1>7. Cardinality(R) = IF 1 \in Acks(q) THEN Cardinality(Acks(q)) - 1 ELSE Cardinality(Acks(q))
    BY <1>2, FS_RemoveElement
  <1>8. 1 \in Acks(q) <=> Head(q) = "ACK"
    BY <1>1 DEF Acks
  <1>9. Cardinality(Acks(q)) \in Nat /\ Cardinality(Acks(t)) \in Nat
    BY <1>1, AcksFinite
  <1> HIDE DEF R
  <1> QED BY <1>6, <1>7, <1>8, <1>9

LEMMA AcksSaid ==
    ASSUME NEW q \in Seq(Letters), NEW x \in Letters
    PROVE  Cardinality(Acks(Append(q, x))) = Cardinality(Acks(q)) + (IF x = "ACK" THEN 1 ELSE 0)
  <1> DEFINE n == Append(q, x)
  <1>1. /\ Len(q) \in Nat /\ DOMAIN q = 1 .. Len(q) /\ DOMAIN n = 1 .. Len(q) + 1
        /\ \A i \in 1 .. Len(q) : n[i] = q[i]
        /\ n[Len(q) + 1] = x
    BY AppendAdds
  <1> HIDE DEF n
  <1>2. IsFiniteSet(Acks(q)) /\ Cardinality(Acks(q)) \in Nat /\ Len(q) + 1 \notin Acks(q)
    <2>1. Len(q) + 1 \notin Acks(q)
      BY <1>1 DEF Acks
    <2> QED BY <2>1, AcksFinite
  <1>3. CASE x = "ACK"
    <2>1. Acks(n) = Acks(q) \cup {Len(q) + 1}
      BY <1>1, <1>3 DEF Acks
    <2> QED BY <1>2, <1>3, <2>1, FS_AddElement DEF n
  <1>4. CASE x # "ACK"
    <2>1. Acks(n) = Acks(q)
      BY <1>1, <1>4 DEF Acks
    <2> QED BY <1>2, <1>4, <2>1 DEF n
  <1> QED BY <1>3, <1>4

LEMMA AcksMisread ==
    ASSUME NEW q \in Seq(Letters), q # <<>>, NEW x \in Letters
    PROVE  LET new == [q EXCEPT ![1] = x] IN
           /\ new \in Seq(Letters) /\ Cardinality(Acks(new)) <= Cardinality(Acks(q)) + 1
  <1> DEFINE n == [q EXCEPT ![1] = x]
  <1>1. 1 \in 1 .. Len(q) /\ DOMAIN q = 1 .. Len(q)
    BY TailShifts
  <1>2. n \in Seq(Letters) /\ Len(n) = Len(q)
        /\ \A j \in 1 .. Len(q) : n[j] = IF j = 1 THEN x ELSE q[j]
    BY <1>1, ExceptSeq
  <1>3. DOMAIN n = 1 .. Len(q)
    BY <1>2, LenProperties
  <1> HIDE DEF n
  <1>4. IsFiniteSet(Acks(q)) /\ Cardinality(Acks(q)) \in Nat
    BY AcksFinite
  <1>5. Acks(n) \in SUBSET (Acks(q) \cup {1})
    BY <1>1, <1>2, <1>3 DEF Acks
  <1>6. /\ IsFiniteSet(Acks(q) \cup {1})
        /\ Cardinality(Acks(q) \cup {1}) <= Cardinality(Acks(q)) + 1
        /\ Cardinality(Acks(q) \cup {1}) \in Nat
    <2> DEFINE A == Acks(q)
    <2>1. IsFiniteSet(A) /\ Cardinality(A) \in Nat
      BY <1>4
    <2> HIDE DEF A
    <2>2. /\ IsFiniteSet(A \cup {1})
          /\ Cardinality(A \cup {1}) = IF 1 \in A THEN Cardinality(A) ELSE Cardinality(A) + 1
      BY <2>1, FS_AddElement
    <2>3. Cardinality(A \cup {1}) <= Cardinality(A) + 1 /\ Cardinality(A \cup {1}) \in Nat
      BY <2>1, <2>2
    <2> QED BY <2>2, <2>3 DEF A
  <1>7. Cardinality(Acks(n)) <= Cardinality(Acks(q) \cup {1}) /\ Cardinality(Acks(n)) \in Nat
    BY <1>2, <1>5, <1>6, FS_Subset, AcksFinite
  <1> QED BY <1>2, <1>4, <1>6, <1>7 DEF n

---------------------------------------------------------------------------
(* The line to the receiver.                                               *)

LEMMA Places ==
    ASSUME Typed
    PROVE  /\ Pos \in Nat
           /\ \A i \in Receiving : Place(toReceiver[i], sizeFile) \in Nat
           /\ sizeFile \in Nat /\ packets_received \in Nat /\ spoilt \in Nat
  <1>1. sizeFile \in Nat /\ Pos \in Nat
    BY DEF Typed, SenderTyped, Pos
  <1>2. ASSUME NEW i \in Receiving PROVE Place(toReceiver[i], sizeFile) \in Nat
    BY <1>1, <1>2 DEF Typed, LineTyped, Numbered, Place
  <1> QED BY <1>1, <1>2 DEF Typed, ReceiverTyped

(* What is left of the line when items are gone from its front. *)
LEMMA LineShrinks ==
    ASSUME Typed, Ordered, NEW d \in Nat, Shifted(toReceiver, toReceiver', d),
           sizeFile' = sizeFile, packets_received' \in Nat,
           packets_received <= packets_received',
           spoilt' \in Nat, spoilt <= spoilt',
           at' # "failed" => at # "failed" /\ Pos <= Pos' /\ Pos' \in Nat,
           eof_cnt' < 2 => eof_cnt < 2,
           \/ packets_received' = packets_received
           \/ spoilt <= 1 =>
                \A i \in Receiving : i > d /\ toReceiver[i][1] \in {"name", "block"} =>
                                        packets_received' <= Place(toReceiver[i], sizeFile) + 1
    PROVE  Ordered' /\ \A i \in Receiving' : Numbered(toReceiver'[i], sizeFile')
  <1>1. \A i \in Receiving' : i \in Nat \ {0} /\ i + d \in Receiving /\ toReceiver'[i] = toReceiver[i + d]
    <2>1. Len(toReceiver) \in Nat /\ DOMAIN toReceiver = 1 .. Len(toReceiver)
      BY LenProperties DEF Typed, LineTyped
    <2> QED BY <2>1 DEF Receiving, Shifted
  <1>2. \A i \in Receiving' : Place(toReceiver'[i], sizeFile') = Place(toReceiver[i + d], sizeFile)
    BY <1>1 DEF Place
  <1>3. \A i \in Receiving : Place(toReceiver[i], sizeFile) \in Nat
    BY Places
  <1>4. Pos \in Nat /\ packets_received \in Nat /\ spoilt \in Nat
    BY Places
  <1>5. \A i, j \in Receiving' : i < j => Place(toReceiver'[i], sizeFile') <= Place(toReceiver'[j], sizeFile')
    <2> SUFFICES ASSUME NEW i \in Receiving', NEW j \in Receiving', i < j
                 PROVE  Place(toReceiver'[i], sizeFile') <= Place(toReceiver'[j], sizeFile')
      OBVIOUS
    <2>1. i + d < j + d /\ i + d \in Receiving /\ j + d \in Receiving
      BY <1>1
    <2>2. Place(toReceiver[i + d], sizeFile) <= Place(toReceiver[j + d], sizeFile)
      BY <2>1 DEF Ordered
    <2> QED BY <1>2, <2>2
  <1>6. at' # "failed" => \A i \in Receiving' : Place(toReceiver'[i], sizeFile') <= Pos'
    <2> SUFFICES ASSUME at' # "failed", NEW i \in Receiving' PROVE Place(toReceiver'[i], sizeFile') <= Pos'
      OBVIOUS
    <2>1. Place(toReceiver[i + d], sizeFile) <= Pos /\ Place(toReceiver[i + d], sizeFile) \in Nat
      BY <1>1, <1>3 DEF Ordered
    <2> QED BY <1>2, <1>4, <2>1
  <1>7. eof_cnt' < 2 =>
          \A i \in Receiving' : Place(toReceiver'[i], sizeFile') <= packets_received' + spoilt'
    <2> SUFFICES ASSUME eof_cnt' < 2, NEW i \in Receiving'
                 PROVE  Place(toReceiver'[i], sizeFile') <= packets_received' + spoilt'
      OBVIOUS
    <2>1. Place(toReceiver[i + d], sizeFile) <= packets_received + spoilt /\ Place(toReceiver[i + d], sizeFile) \in Nat
      BY <1>1, <1>3 DEF Ordered
    <2> QED BY <1>2, <1>4, <2>1
  <1>8. spoilt' <= 1 =>
          \A i \in Receiving' : toReceiver'[i][1] \in {"name", "block"} =>
                                  packets_received' <= Place(toReceiver'[i], sizeFile') + 1
    <2> SUFFICES ASSUME spoilt' <= 1, NEW i \in Receiving', toReceiver'[i][1] \in {"name", "block"}
                 PROVE  packets_received' <= Place(toReceiver'[i], sizeFile') + 1
      OBVIOUS
    <2>1. spoilt <= 1
      BY <1>4
    <2>2. packets_received <= Place(toReceiver[i + d], sizeFile) + 1
      BY <1>1, <2>1 DEF Ordered
    <2>3. i + d > d
      BY <1>1
    <2>4. packets_received' <= Place(toReceiver[i + d], sizeFile) + 1
      BY <1>1, <2>1, <2>2, <2>3
    <2> QED BY <1>2, <2>4
  <1>9. \A i \in Receiving' : Numbered(toReceiver'[i], sizeFile')
    <2> SUFFICES ASSUME NEW i \in Receiving' PROVE Numbered(toReceiver'[i], sizeFile')
      OBVIOUS
    <2>1. Numbered(toReceiver[i + d], sizeFile)
      BY <1>1 DEF Typed, LineTyped
    <2> QED BY <1>1, <2>1 DEF Numbered
  <1> QED BY <1>5, <1>6, <1>7, <1>8, <1>9 DEF Ordered

(* An item at its end. *)
LEMMA Grown ==
    ASSUME Typed, NEW x \in Kinds \X Nat, toReceiver' = Append(toReceiver, x)
    PROVE  /\ toReceiver' \in Seq(Kinds \X Nat)
           /\ \A i \in DOMAIN toReceiver' :
                \/ i \in DOMAIN toReceiver /\ toReceiver'[i] = toReceiver[i] /\ i < Len(toReceiver) + 1
                \/ i = Len(toReceiver) + 1 /\ toReceiver'[i] = x
           /\ \A i \in DOMAIN toReceiver : i \in Nat
           /\ Len(toReceiver) \in Nat
  <1>1. toReceiver \in Seq(Kinds \X Nat)
    BY DEF Typed, LineTyped
  <1>2. /\ toReceiver' \in Seq(Kinds \X Nat) /\ Len(toReceiver) \in Nat
        /\ DOMAIN toReceiver = 1 .. Len(toReceiver)
        /\ DOMAIN toReceiver' = 1 .. Len(toReceiver) + 1
        /\ \A i \in 1 .. Len(toReceiver) : toReceiver'[i] = toReceiver[i]
        /\ toReceiver'[Len(toReceiver) + 1] = x
    BY <1>1, AppendAdds
  <1> QED BY <1>2

LEMMA LineGrows ==
    ASSUME Typed, Ordered,
           NEW x \in Kinds \X Nat, toReceiver' = Append(toReceiver, x),
           sizeFile' = sizeFile, packets_received' = packets_received, eof_cnt' = eof_cnt,
           spoilt' \in Nat, spoilt <= spoilt',
           at' # "failed" => at # "failed" /\ Pos <= Pos' /\ Pos' \in Nat,
           x[1] \in Sent =>
             /\ Numbered(x, sizeFile) /\ Place(x, sizeFile) = Pos' /\ at' # "failed"
             /\ eof_cnt < 2 => Pos' <= packets_received + spoilt
             /\ spoilt <= 1 /\ x[1] \in {"name", "block"} => packets_received <= Pos' + 1
    PROVE  Ordered' /\ \A i \in Receiving' : Numbered(toReceiver'[i], sizeFile')
  <1>1. \A i \in Receiving' :
          \/ i \in Receiving /\ toReceiver'[i] = toReceiver[i]
          \/ i = Len(toReceiver) + 1 /\ toReceiver'[i] = x /\ x[1] \in Sent
    BY Grown DEF Receiving
  <1>2. \A i \in Receiving : i \in Nat /\ i < Len(toReceiver) + 1
    <2>1. Len(toReceiver) \in Nat /\ DOMAIN toReceiver = 1 .. Len(toReceiver)
      BY LenProperties DEF Typed, LineTyped
    <2> QED BY <2>1 DEF Receiving
  <1>3. Len(toReceiver) \in Nat
    BY Grown
  <1>4. /\ \A i \in Receiving : Place(toReceiver[i], sizeFile) \in Nat
        /\ Pos \in Nat /\ packets_received \in Nat /\ spoilt \in Nat
    BY Places
  <1>5. \A i \in Receiving' : Place(toReceiver'[i], sizeFile) \in Nat
    <2>1. x[1] \in Sent => Place(x, sizeFile) \in Nat
      BY DEF Place
    <2> QED BY <1>1, <1>4, <2>1
  <1>6. at # "failed" => \A i \in Receiving : Place(toReceiver[i], sizeFile) <= Pos
    BY DEF Ordered
  <1>7. \A i, j \in Receiving' : i < j => Place(toReceiver'[i], sizeFile') <= Place(toReceiver'[j], sizeFile')
    <2> SUFFICES ASSUME NEW i \in Receiving', NEW j \in Receiving', i < j
                 PROVE  Place(toReceiver'[i], sizeFile) <= Place(toReceiver'[j], sizeFile)
      OBVIOUS
    <2>1. i \in Receiving /\ toReceiver'[i] = toReceiver[i]
      <3>1. j \in Nat /\ j <= Len(toReceiver) + 1
        BY <1>1, <1>2, <1>3
      <3>2. i # Len(toReceiver) + 1
        BY <1>3, <3>1
      <3> QED BY <1>1, <3>2
    <2>2. CASE j \in Receiving /\ toReceiver'[j] = toReceiver[j]
      BY <2>1, <2>2 DEF Ordered
    <2>3. CASE toReceiver'[j] = x /\ x[1] \in Sent
      <3>1. Place(toReceiver[i], sizeFile) <= Pos /\ Pos <= Pos' /\ Pos' \in Nat /\ Place(toReceiver[i], sizeFile) \in Nat
        BY <1>4, <1>6, <2>1, <2>3
      <3> QED BY <1>4, <2>1, <2>3, <3>1
    <2> QED BY <1>1, <2>2, <2>3
  <1>8. at' # "failed" => \A i \in Receiving' : Place(toReceiver'[i], sizeFile') <= Pos'
    <2> SUFFICES ASSUME at' # "failed", NEW i \in Receiving' PROVE Place(toReceiver'[i], sizeFile) <= Pos'
      OBVIOUS
    <2>1. CASE i \in Receiving /\ toReceiver'[i] = toReceiver[i]
      BY <1>4, <1>6, <2>1
    <2>2. CASE toReceiver'[i] = x /\ x[1] \in Sent
      BY <2>2
    <2> QED BY <1>1, <2>1, <2>2
  <1>9. eof_cnt' < 2 =>
          \A i \in Receiving' : Place(toReceiver'[i], sizeFile') <= packets_received' + spoilt'
    <2> SUFFICES ASSUME eof_cnt < 2, NEW i \in Receiving'
                 PROVE  Place(toReceiver'[i], sizeFile) <= packets_received + spoilt'
      OBVIOUS
    <2>1. Place(toReceiver'[i], sizeFile) \in Nat
      BY <1>5
    <2>2. CASE i \in Receiving /\ toReceiver'[i] = toReceiver[i]
      <3>1. Place(toReceiver[i], sizeFile) <= packets_received + spoilt
        BY <2>2 DEF Ordered
      <3> QED BY <1>4, <2>1, <2>2, <3>1
    <2>3. CASE toReceiver'[i] = x /\ x[1] \in Sent
      <3>1. Place(x, sizeFile) <= packets_received + spoilt
        BY <2>3
      <3> QED BY <1>4, <2>1, <2>3, <3>1
    <2> QED BY <1>1, <2>2, <2>3
  <1>10. spoilt' <= 1 =>
          \A i \in Receiving' : toReceiver'[i][1] \in {"name", "block"} =>
                                  packets_received' <= Place(toReceiver'[i], sizeFile') + 1
    <2> SUFFICES ASSUME spoilt' <= 1, NEW i \in Receiving', toReceiver'[i][1] \in {"name", "block"}
                 PROVE  packets_received <= Place(toReceiver'[i], sizeFile) + 1
      OBVIOUS
    <2>1. spoilt <= 1
      BY <1>4
    <2>2. CASE i \in Receiving /\ toReceiver'[i] = toReceiver[i]
      BY <2>1, <2>2 DEF Ordered
    <2>3. CASE toReceiver'[i] = x /\ x[1] \in Sent
      BY <2>1, <2>3
    <2> QED BY <1>1, <2>2, <2>3
  <1>11. \A i \in Receiving' : Numbered(toReceiver'[i], sizeFile')
    <2> SUFFICES ASSUME NEW i \in Receiving' PROVE Numbered(toReceiver'[i], sizeFile)
      OBVIOUS
    <2>1. \A j \in Receiving : Numbered(toReceiver[j], sizeFile)
      BY DEF Typed, LineTyped
    <2> QED BY <1>1, <2>1
  <1> QED BY <1>7, <1>8, <1>9, <1>10, <1>11 DEF Ordered

(* Items that are left are items that were there, *)
LEMMA ShrunkItems ==
    ASSUME Typed, NEW d \in Nat, Shifted(toReceiver, toReceiver', d)
    PROVE  /\ \A i \in DOMAIN toReceiver' : i \in Nat \ {0} /\ i + d \in DOMAIN toReceiver
                                             /\ toReceiver'[i] = toReceiver[i + d]
           /\ \A i \in Tokens' : i \in Nat \ {0} /\ i + d \in Tokens
           /\ \A i \in Receiving' : i + d \in Receiving /\ toReceiver'[i] = toReceiver[i + d]
  <1>1. Len(toReceiver) \in Nat /\ DOMAIN toReceiver = 1 .. Len(toReceiver)
    BY LenProperties DEF Typed, LineTyped
  <1>2. \A i \in DOMAIN toReceiver' : i \in Nat \ {0} /\ i + d \in DOMAIN toReceiver
                                       /\ toReceiver'[i] = toReceiver[i + d]
    BY <1>1 DEF Shifted
  <1> QED BY <1>2 DEF Tokens, Receiving

(* and the others were appended. *)
LEMMA GrownItems ==
    ASSUME Typed, NEW x \in Kinds \X Nat, toReceiver' = Append(toReceiver, x)
    PROVE  /\ \A i \in Tokens' : i \in Tokens \/ (i = Len(toReceiver) + 1 /\ x[1] \in Sent \cup {"bad"})
           /\ \A i \in Receiving' : \/ i \in Receiving /\ toReceiver'[i] = toReceiver[i]
                                    \/ i = Len(toReceiver) + 1 /\ toReceiver'[i] = x /\ x[1] \in Sent
  BY Grown DEF Tokens, Receiving

---------------------------------------------------------------------------
(* The sender.                                                             *)

LEMMA FiledStays ==
    ASSUME Typed, Filed, sizeFile' = sizeFile, receiver' = receiver,
           spoilt' \in Nat, spoilt <= spoilt'
    PROVE  Filed'
  <1>1. spoilt \in Nat
    BY DEF Typed, ReceiverTyped
  <1>2. /\ result' = result /\ file' = file /\ eof_cnt' = eof_cnt
        /\ packets_received' = packets_received
    BY DEF receiver
  <1>3. (spoilt' <= 1 => spoilt <= 1) /\ (spoilt' = 0 => spoilt = 0)
    BY <1>1
  <1> QED BY <1>2, <1>3 DEF Filed, Blocks

LEMMA ReceiverTypedStays ==
    ASSUME ReceiverTyped, receiver' = receiver, spoilt' \in Nat
    PROVE  ReceiverTyped'
  BY DEF ReceiverTyped, receiver

(* A step forward, or the same packet again, after the answer to what was  *)
(* sent last.                                                              *)
LEMMA SenderMoves ==
    ASSUME IInv, Sending, toSender # <<>>, toSender' = Tail(toSender),
           sizeFile' = sizeFile, receiver' = receiver, spoilt' = spoilt,
           NEW s \in Stages, NEW b \in Nat, Transmits(s, b),
           s # "failed", s = "block" => b \in 1 .. sizeFile, s # "block" => b = 0,
           Pos' = Pos + (IF Head(toSender) = "ACK" THEN 1 ELSE 0),
           s \in {"greeting", "name", "afterName", "block"} =>
             at \in {"greeting", "name", "afterName", "block"},
           s \in Sent => Place(<<s, b>>, sizeFile) = Pos',
           spoilt = 0 => Tokens = {} /\ Verdicts' = {},
           spoilt = 0 /\ s \in {"afterEOT", "empty", "sent"} => eof_cnt = 2,
           spoilt = 0 /\ s = "sent" => result # "failed"
    PROVE  IInv'
  <1>1. /\ Typed /\ Credit /\ Ordered /\ Filed /\ NoAbort /\ OneToken
        /\ SenderTyped /\ LineTyped /\ ReceiverTyped
    BY DEF IInv, Typed
  <1>2. /\ at' = s /\ blkNumber' = b
        /\ toReceiver' = IF s \in Sent THEN Append(toReceiver, <<s, b>>) ELSE toReceiver
    BY DEF Transmits, Sent, Packets
  <1>3. /\ result' = result /\ file' = file /\ eof_cnt' = eof_cnt
        /\ packets_received' = packets_received
    BY DEF receiver
  <1>4. toSender' \in Seq(Letters)
    BY <1>1, TailShifts DEF LineTyped
  <1>5. /\ Pos \in Nat /\ Pos' \in Nat /\ Pos <= Pos' /\ spoilt \in Nat
        /\ packets_received \in Nat
    BY <1>1, Places
  <1>6. <<s, b>> \in Kinds \X Nat \/ s \notin Sent
    BY DEF Kinds, Sent
  <1>7. Cardinality(Acks(toSender)) = Cardinality(Acks(toSender')) + (IF Head(toSender) = "ACK" THEN 1 ELSE 0)
    BY <1>1, AcksRead DEF LineTyped
  <1>8. Cardinality(Acks(toSender')) \in Nat
    BY <1>4, AcksFinite
  <1>9. at # "failed" /\ at' # "failed"
    BY <1>2 DEF Sending
  <1>10. Credit'
    <2>1. eof_cnt < 2 => Pos + Cardinality(Acks(toSender)) <= packets_received + spoilt
      BY <1>1, <1>9 DEF Credit
    <2>2. eof_cnt < 2 => Pos' + Cardinality(Acks(toSender')) <= packets_received + spoilt
      BY <1>5, <1>7, <1>8, <2>1
    <2>3. spoilt <= 1 /\ at' \in {"greeting", "name", "afterName", "block"} =>
            packets_received <= Pos + 1
      BY <1>1, <1>2 DEF Credit
    <2>4. spoilt <= 1 /\ at' \in {"greeting", "name", "afterName", "block"} =>
            packets_received <= Pos' + 1
      BY <1>5, <2>3
    <2>5. eof_cnt' < 2 /\ at' # "failed" =>
            Pos' + Cardinality(Acks(toSender')) <= packets_received' + spoilt'
      BY <1>3, <2>2
    <2>6. spoilt' <= 1 /\ at' \in {"greeting", "name", "afterName", "block"} =>
            packets_received' <= Pos' + 1
      BY <1>3, <2>4
    <2> QED BY <2>5, <2>6 DEF Credit, Acks
  <1>11. /\ toReceiver' \in Seq(Kinds \X Nat)
         /\ Ordered' /\ \A i \in Receiving' : Numbered(toReceiver'[i], sizeFile')
    <2>1. CASE s \in Sent
      <3> DEFINE x == <<s, b>>
      <3>1. x[1] = s /\ x[2] = b /\ x \in Kinds \X Nat
        BY <1>6, <2>1
      <3>2. toReceiver' = Append(toReceiver, x)
        BY <1>2, <2>1
      <3>3. eof_cnt < 2 => Pos' <= packets_received + spoilt
        BY <1>3, <1>5, <1>8, <1>9, <1>10 DEF Credit
      <3>4. spoilt <= 1 /\ s \in {"name", "block"} => packets_received <= Pos' + 1
        BY <1>2, <1>3, <1>10 DEF Credit
      <3>5. Numbered(x, sizeFile)
        BY <3>1 DEF Numbered
      <3>6. Place(x, sizeFile) = Pos'
        BY <2>1
      <3> HIDE DEF x
      <3>7. spoilt' \in Nat /\ spoilt <= spoilt'
        BY <1>5
      <3> QED BY <1>1, <1>3, <1>5, <1>9, <3>1, <3>2, <3>3, <3>4, <3>5, <3>6, <3>7, Grown, LineGrows
    <2>2. CASE s \notin Sent
      <3>1. toReceiver' = toReceiver /\ Shifted(toReceiver, toReceiver', 0)
        BY <1>1, <1>2, <2>2, Stays DEF LineTyped
      <3>2. /\ spoilt' \in Nat /\ spoilt <= spoilt' /\ 0 \in Nat
            /\ packets_received' \in Nat /\ packets_received <= packets_received'
        BY <1>3, <1>5
      <3> QED BY <1>1, <1>3, <1>5, <1>9, <3>1, <3>2, LineShrinks DEF LineTyped
    <2> QED BY <2>1, <2>2
  <1>12. OneToken'
    <2> SUFFICES ASSUME spoilt = 0 PROVE OneToken'
      BY DEF OneToken
    <2>1. Tokens = {} /\ Verdicts' = {} /\ Acks(toSender') = {}
      BY DEF Verdicts, Acks
    <2>2. \A i \in DOMAIN toReceiver : toReceiver[i][1] # "a"
      BY <1>1, <1>9 DEF OneToken
    <2>3. Receiving = {}
      BY <2>1 DEF Receiving, Tokens
    <2>4. CASE s \in Sent
      <3>1. <<s, b>> \in Kinds \X Nat /\ toReceiver' = Append(toReceiver, <<s, b>>)
        BY <1>2, <1>6, <2>4
      <3>2. \A i \in Tokens' : i = Len(toReceiver) + 1
        BY <1>1, <2>1, <3>1, GrownItems
      <3>3. \A i \in Receiving' : toReceiver'[i][1] = s
        <4>1. \A i \in Receiving' : toReceiver'[i] = <<s, b>>
          BY <1>1, <2>3, <3>1, GrownItems
        <4> QED BY <4>1
      <3>4. \A i \in DOMAIN toReceiver' : toReceiver'[i][1] # "a"
        <4>1. s # "a"
          BY <2>4 DEF Sent
        <4>2. \A i \in DOMAIN toReceiver' :
              \/ i \in DOMAIN toReceiver /\ toReceiver'[i] = toReceiver[i]
              \/ toReceiver'[i] = <<s, b>>
          BY <1>1, <3>1, Grown
        <4> QED BY <2>2, <4>1, <4>2
      <3>5. at' \notin {"greeting", "afterName", "afterEOT", "sent"}
        BY <1>2, <2>4 DEF Sent
      <3> QED BY <1>2, <1>3, <2>1, <3>2, <3>3, <3>4, <3>5 DEF OneToken
    <2>5. CASE s \notin Sent
      <3>1. toReceiver' = toReceiver
        BY <1>2, <2>5
      <3>2. Tokens' = {} /\ Receiving' = {}
        BY <2>1, <2>3, <3>1 DEF Tokens, Receiving
      <3> QED BY <1>2, <1>3, <2>1, <2>2, <3>1, <3>2 DEF OneToken
    <2> QED BY <2>4, <2>5
  <1>13. SenderTyped'
    BY <1>1, <1>2 DEF SenderTyped
  <1>14. LineTyped' /\ ReceiverTyped' /\ Filed'
    <2>1. spoilt' \in Nat /\ spoilt <= spoilt'
      BY <1>5
    <2> QED BY <1>1, <1>4, <1>11, <2>1, FiledStays, ReceiverTypedStays DEF LineTyped
  <1>15. NoAbort'
    <2>1. \A i \in DOMAIN toReceiver : toReceiver[i][1] # "CA"
      BY <1>1, <1>9 DEF NoAbort
    <2>2. CASE s \in Sent
      <3> DEFINE x == <<s, b>>
      <3>1. x \in Kinds \X Nat /\ x[1] # "CA" /\ toReceiver' = Append(toReceiver, x)
        BY <1>2, <1>6, <2>2 DEF Sent
      <3> HIDE DEF x
      <3>2. \A i \in DOMAIN toReceiver' :
            \/ i \in DOMAIN toReceiver /\ toReceiver'[i] = toReceiver[i]
            \/ toReceiver'[i] = x
        BY <1>1, <3>1, Grown
      <3> QED BY <2>1, <3>1, <3>2 DEF NoAbort
    <2>3. CASE s \notin Sent
      BY <1>2, <2>1, <2>3 DEF NoAbort
    <2> QED BY <2>2, <2>3
  <1> QED BY <1>10, <1>11, <1>12, <1>13, <1>14, <1>15 DEF IInv, Typed

(* What a packet or an EOT was answered is the only thing on the line, and *)
(* while the sender waits for a C there is nothing of the kind.            *)
LEMMA TokenConsumed ==
    ASSUME Typed, OneToken, spoilt = 0, Sending, toSender # <<>>, toSender' = Tail(toSender),
           \/ Head(toSender) \in {"ACK", "NAK"}
           \/ at \in {"greeting", "afterName", "afterEOT"}
    PROVE  Tokens = {} /\ Verdicts' = {}
  <1>1. at \notin {"failed", "sent"}
    BY DEF Sending
  <1>2. /\ Tokens = {} \/ Verdicts = {}
        /\ \A i, j \in Verdicts : i = j
        /\ at \in {"greeting", "afterName", "afterEOT"} => Tokens = {} /\ Verdicts = {}
    BY <1>1 DEF OneToken
  <1>3. /\ Shifted(toSender, toSender', 1) /\ Len(toSender) \in Nat
        /\ DOMAIN toSender = 1 .. Len(toSender) /\ 1 \in DOMAIN toSender
        /\ Head(toSender) = toSender[1]
    BY TailShifts DEF Typed, LineTyped
  <1>4. \A i \in Verdicts' : i + 1 \in Verdicts /\ i + 1 # 1
    BY <1>3 DEF Verdicts, Shifted
  <1>5. CASE Head(toSender) \in {"ACK", "NAK"}
    <2>1. 1 \in Verdicts
      BY <1>3, <1>5 DEF Verdicts
    <2> QED BY <1>2, <1>4, <2>1
  <1>6. CASE at \in {"greeting", "afterName", "afterEOT"}
    BY <1>2, <1>4, <1>6
  <1> QED BY <1>5, <1>6

LEMMA SenderGivesUp ==
    ASSUME IInv, Sending, GivesUp, sizeFile' = sizeFile, receiver' = receiver, spoilt' = spoilt,
           toSender' \in Seq(Letters)
    PROVE  IInv'
  <1>1. /\ Typed /\ Credit /\ Ordered /\ Filed
        /\ SenderTyped /\ LineTyped /\ ReceiverTyped
    BY DEF IInv, Typed
  <1>2. /\ at' = "failed" /\ blkNumber' = blkNumber /\ at # "failed"
        /\ toReceiver' = Append(toReceiver, <<"CA", 0>>)
    BY DEF GivesUp, Sending
  <1>3. /\ result' = result /\ file' = file /\ eof_cnt' = eof_cnt
        /\ packets_received' = packets_received
    BY DEF receiver
  <1>4. spoilt' \in Nat /\ spoilt <= spoilt'
    BY DEF IInv, Typed, ReceiverTyped
  <1>5. /\ toReceiver' \in Seq(Kinds \X Nat)
        /\ Ordered' /\ \A i \in Receiving' : Numbered(toReceiver'[i], sizeFile')
    <2> DEFINE x == <<"CA", 0>>
    <2>1. x \in Kinds \X Nat /\ x[1] \notin Sent
      BY DEF Kinds, Sent
    <2>2. toReceiver' = Append(toReceiver, x)
      BY <1>2
    <2> HIDE DEF x
    <2> QED BY <1>1, <1>2, <1>3, <1>4, <2>1, <2>2, Grown, LineGrows
  <1>6. SenderTyped'
    BY <1>1, <1>2 DEF SenderTyped, Stages
  <1>7. LineTyped' /\ ReceiverTyped' /\ Filed'
    BY <1>1, <1>4, <1>5, FiledStays, ReceiverTypedStays DEF LineTyped
  <1>8. Credit' /\ NoAbort' /\ OneToken'
    BY <1>2 DEF Credit, NoAbort, OneToken
  <1> QED BY <1>5, <1>6, <1>7, <1>8 DEF IInv, Typed

(* The answer that was awaited. *)
LEMMA ProceedStep ==
    ASSUME IInv, Sending, toSender # <<>>, Head(toSender) = Awaited, Proceed,
           toSender' = Tail(toSender), sizeFile' = sizeFile, receiver' = receiver,
           spoilt' = spoilt
    PROVE  IInv'
  <1>1. Typed /\ OneToken /\ SenderTyped /\ sizeFile \in Nat
    BY DEF IInv, Typed, SenderTyped
  <1>2. spoilt = 0 => Tokens = {} /\ Verdicts' = {}
    <2>1. \/ Head(toSender) \in {"ACK", "NAK"}
          \/ at \in {"greeting", "afterName", "afterEOT"}
      BY DEF Awaited
    <2> QED BY <1>1, <2>1, TokenConsumed
  <1>3. Head(toSender) = "ACK" => 1 \in Acks(toSender) /\ 1 \in Verdicts
    BY <1>1, TailShifts DEF Acks, Verdicts, Typed, LineTyped
  <1>4. CASE at = "greeting"
    <2>1. Head(toSender) # "ACK" /\ Transmits("name", 0)
      BY <1>4 DEF Awaited, Proceed
    <2>2. at' = "name" /\ Pos = 0 /\ Pos' = 0
      BY <1>4, <2>1 DEF Transmits, Pos
    <2>3. "name" \in Stages /\ Place(<<"name", 0>>, sizeFile) = 0
      BY DEF Stages, Place
    <2> QED BY <1>2, <1>4, <2>1, <2>2, <2>3, SenderMoves
  <1>5. CASE at = "name"
    <2>1. Head(toSender) = "ACK" /\ Transmits("afterName", 0)
      BY <1>5 DEF Awaited, Proceed
    <2>2. at' = "afterName" /\ Pos = 0 /\ Pos' = 1
      BY <1>5, <2>1 DEF Transmits, Pos
    <2>3. "afterName" \in Stages /\ "afterName" \notin Sent
      BY DEF Stages, Sent
    <2>4. Pos' = Pos + (IF Head(toSender) = "ACK" THEN 1 ELSE 0)
      BY <2>1, <2>2
    <2> QED BY <1>2, <1>5, <2>1, <2>3, <2>4, SenderMoves
  <1>6. CASE at \in {"afterName", "block"}
    <2>1. Pos = blkNumber + (IF at = "afterName" THEN 1 ELSE 0) /\ blkNumber \in Nat
          /\ blkNumber <= sizeFile /\ (Head(toSender) = "ACK" <=> at = "block")
      BY <1>1, <1>6 DEF Pos, SenderTyped, Awaited
    <2>2. CASE blkNumber < sizeFile
      <3>1. Transmits("block", blkNumber + 1)
        BY <1>6, <2>2 DEF Proceed, NextBlock
      <3>2. at' = "block" /\ Pos' = blkNumber + 1
        BY <3>1 DEF Transmits, Pos
      <3>3. blkNumber + 1 \in Nat /\ blkNumber + 1 \in 1 .. sizeFile
        BY <1>1, <2>1, <2>2
      <3>4. "block" \in Stages /\ Place(<<"block", blkNumber + 1>>, sizeFile) = blkNumber + 1
        BY DEF Stages, Place
      <3>5. Pos' = Pos + (IF Head(toSender) = "ACK" THEN 1 ELSE 0)
        BY <1>6, <2>1, <3>2
      <3> QED BY <1>2, <1>6, <3>1, <3>2, <3>3, <3>4, <3>5, SenderMoves
    <2>3. CASE ~(blkNumber < sizeFile)
      <3>1. Transmits("EOT", 0)
        BY <1>6, <2>3 DEF Proceed, NextBlock
      <3>2. at' = "EOT" /\ Pos' = sizeFile + 1 /\ blkNumber = sizeFile
        BY <1>1, <2>1, <2>3, <3>1 DEF Transmits, Pos
      <3>3. "EOT" \in Stages /\ Place(<<"EOT", 0>>, sizeFile) = sizeFile + 1
        BY DEF Stages, Place
      <3>4. Pos' = Pos + (IF Head(toSender) = "ACK" THEN 1 ELSE 0)
        <4>1. CASE at = "afterName"
          <5>1. blkNumber = 0
            BY <1>1, <4>1 DEF SenderTyped
          <5> QED BY <1>1, <2>1, <3>2, <4>1, <5>1
        <4>2. CASE at = "block"
          BY <1>1, <2>1, <3>2, <4>2
        <4> QED BY <1>6, <4>1, <4>2
      <3> QED BY <1>2, <3>1, <3>2, <3>3, <3>4, SenderMoves
    <2> QED BY <2>2, <2>3
  <1>7. CASE at = "EOT"
    <2>1. Head(toSender) = "ACK" /\ Transmits("afterEOT", 0)
      BY <1>7 DEF Awaited, Proceed
    <2>2. at' = "afterEOT" /\ Pos = sizeFile + 1 /\ Pos' = sizeFile + 2
      BY <1>7, <2>1 DEF Transmits, Pos
    <2>3. "afterEOT" \in Stages /\ "afterEOT" \notin Sent
      BY DEF Stages, Sent
    <2>4. spoilt = 0 => eof_cnt = 2
      BY <1>1, <1>3, <1>7, <2>1 DEF OneToken
    <2>5. Pos' = Pos + (IF Head(toSender) = "ACK" THEN 1 ELSE 0)
      BY <1>1, <2>1, <2>2
    <2> QED BY <1>2, <2>1, <2>2, <2>3, <2>4, <2>5, SenderMoves
  <1>8. CASE at = "afterEOT"
    <2>1. Head(toSender) # "ACK" /\ Transmits("empty", 0)
      BY <1>8 DEF Awaited, Proceed
    <2>2. at' = "empty" /\ Pos = sizeFile + 2 /\ Pos' = sizeFile + 2
      BY <1>8, <2>1 DEF Transmits, Pos
    <2>3. "empty" \in Stages /\ Place(<<"empty", 0>>, sizeFile) = sizeFile + 2
      BY DEF Stages, Place
    <2>4. spoilt = 0 => eof_cnt = 2
      BY <1>1, <1>8 DEF OneToken
    <2>5. Pos' = Pos + (IF Head(toSender) = "ACK" THEN 1 ELSE 0)
      BY <1>1, <2>1, <2>2
    <2> QED BY <1>2, <2>1, <2>2, <2>3, <2>4, <2>5, SenderMoves
  <1>9. CASE at = "empty"
    <2>1. Head(toSender) = "ACK" /\ Transmits("sent", 0)
      BY <1>9 DEF Awaited, Proceed
    <2>2. at' = "sent" /\ Pos = sizeFile + 2 /\ Pos' = sizeFile + 3
      BY <1>9, <2>1 DEF Transmits, Pos
    <2>3. "sent" \in Stages /\ "sent" \notin Sent
      BY DEF Stages, Sent
    <2>4. spoilt = 0 => eof_cnt = 2 /\ result # "failed"
      BY <1>1, <1>3, <1>9, <2>1 DEF OneToken
    <2>5. Pos' = Pos + (IF Head(toSender) = "ACK" THEN 1 ELSE 0)
      BY <1>1, <2>1, <2>2
    <2> QED BY <1>2, <2>1, <2>2, <2>3, <2>4, <2>5, SenderMoves
  <1> QED BY <1>4, <1>5, <1>6, <1>7, <1>8, <1>9 DEF Proceed

(* The same again. *)
LEMMA RepeatStep ==
    ASSUME IInv, toSender # <<>>, Head(toSender) = "NAK", at \in Packets \cup {"EOT"},
           Transmits(at, blkNumber), toSender' = Tail(toSender),
           sizeFile' = sizeFile, receiver' = receiver, spoilt' = spoilt
    PROVE  IInv'
  <1>1. Typed /\ OneToken /\ SenderTyped
    BY DEF IInv, Typed
  <1>2. Sending /\ at \in Stages /\ at \in {"name", "block", "EOT", "empty"} /\ blkNumber \in Nat
    BY <1>1 DEF Sending, SenderTyped, Packets
  <1>3. /\ at = "block" => blkNumber \in 1 .. sizeFile
        /\ at # "block" => blkNumber = 0
    BY <1>1, <1>2 DEF SenderTyped
  <1>4. spoilt = 0 => Tokens = {} /\ Verdicts' = {}
    BY <1>1, <1>2, TokenConsumed
  <1>5. at' = at /\ Pos' = Pos /\ Pos \in Nat
    BY <1>1, Places DEF Transmits, Pos
  <1>6. Place(<<at, blkNumber>>, sizeFile) = Pos'
    BY <1>2, <1>5 DEF Place, Pos
  <1>7. spoilt = 0 /\ at \in {"afterEOT", "empty", "sent"} => eof_cnt = 2
    BY <1>1, <1>2 DEF OneToken
  <1>8. Pos' = Pos + (IF Head(toSender) = "ACK" THEN 1 ELSE 0)
    BY <1>5
  <1> QED BY <1>2, <1>3, <1>4, <1>6, <1>7, <1>8, SenderMoves

LEMMA SenderReadsStep ==
    ASSUME IInv, SenderReads
    PROVE  IInv'
  <1>1. /\ Sending /\ toSender # <<>> /\ toSender' = Tail(toSender)
        /\ sizeFile' = sizeFile /\ receiver' = receiver /\ spoilt' = spoilt
    BY DEF SenderReads
  <1>2. toSender' \in Seq(Letters)
    BY <1>1, TailShifts DEF IInv, Typed, LineTyped
  <1>3. \/ Head(toSender) = Awaited /\ Proceed
        \/ /\ Head(toSender) = "NAK" /\ at \in Packets \cup {"EOT"}
           /\ Transmits(at, blkNumber)
        \/ GivesUp
    BY DEF SenderReads
  <1> QED BY <1>1, <1>2, <1>3, ProceedStep, RepeatStep, SenderGivesUp

LEMMA SenderTimesOutStep ==
    ASSUME IInv, SenderTimesOut
    PROVE  IInv'
  <1>1. /\ Sending /\ toSender' = toSender
        /\ sizeFile' = sizeFile /\ receiver' = receiver /\ spoilt' = spoilt
    BY DEF SenderTimesOut
  <1>2. /\ Typed /\ Credit /\ Ordered /\ Filed /\ NoAbort /\ OneToken
        /\ SenderTyped /\ LineTyped /\ ReceiverTyped
    BY DEF IInv, Typed
  <1>3. /\ result' = result /\ file' = file /\ eof_cnt' = eof_cnt
        /\ packets_received' = packets_received
    BY <1>1 DEF receiver
  <1>4. spoilt' \in Nat /\ spoilt <= spoilt' /\ spoilt' = spoilt
    BY <1>1, <1>2 DEF ReceiverTyped
  <1>5. CASE at' = at /\ blkNumber' = blkNumber
    <2>1. Pos' = Pos /\ Pos' \in Nat /\ Pos <= Pos' /\ at # "failed"
      BY <1>1, <1>2, <1>5, Places DEF Pos, Sending
    <2>2. \/ toReceiver' = toReceiver
          \/ at = "greeting" /\ toReceiver' = Append(toReceiver, <<"C", 0>>)
      BY <1>5, <2>1 DEF SenderTimesOut, GivesUp
    <2>3. SenderTyped' /\ ReceiverTyped' /\ Filed' /\ Credit'
      <3>1. Credit'
        BY <1>1, <1>2, <1>3, <1>4, <1>5, <2>1 DEF Credit, Acks
      <3> QED BY <1>1, <1>2, <1>4, <1>5, <3>1, FiledStays, ReceiverTypedStays DEF SenderTyped
    <2>4. CASE toReceiver' = toReceiver
      <3>1. LineTyped' /\ Ordered' /\ NoAbort' /\ OneToken'
        <4>1. Tokens' = Tokens /\ Receiving' = Receiving /\ Verdicts' = Verdicts
              /\ Acks(toSender') = Acks(toSender)
          BY <1>1, <2>4 DEF Tokens, Receiving, Verdicts
        <4>2. LineTyped'
          BY <1>1, <1>2, <2>4, <4>1 DEF LineTyped
        <4>3. Ordered'
          BY <1>1, <1>2, <1>3, <1>4, <1>5, <2>1, <2>4, <4>1 DEF Ordered
        <4>4. OneToken'
          BY <1>2, <1>3, <1>4, <1>5, <2>4, <4>1 DEF OneToken
        <4>5. NoAbort'
          BY <1>2, <1>5, <2>4 DEF NoAbort
        <4> QED BY <4>2, <4>3, <4>4, <4>5
      <3> QED BY <2>3, <3>1 DEF IInv, Typed
    <2>5. CASE at = "greeting" /\ toReceiver' = Append(toReceiver, <<"C", 0>>)
      <3> DEFINE x == <<"C", 0>>
      <3>1. x \in Kinds \X Nat /\ x[1] \notin Sent /\ x[1] \notin {"a", "CA", "bad"}
        BY DEF Kinds, Sent
      <3>2. toReceiver' = Append(toReceiver, x)
        BY <2>5
      <3> HIDE DEF x
      <3>3. LineTyped' /\ Ordered'
        <4>1. toReceiver' \in Seq(Kinds \X Nat)
          BY <1>2, <3>1, <3>2, Grown
        <4>2. Ordered' /\ \A i \in Receiving' : Numbered(toReceiver'[i], sizeFile')
          BY <1>1, <1>2, <1>3, <1>4, <2>1, <3>1, <3>2, LineGrows
        <4> QED BY <1>1, <1>2, <4>1, <4>2 DEF LineTyped
      <3>4. OneToken'
        <4> SUFFICES ASSUME spoilt = 0 PROVE OneToken'
          BY <1>4 DEF OneToken
        <4>1. Tokens = {} /\ Verdicts = {}
              /\ \A i \in DOMAIN toReceiver : toReceiver[i][1] # "a"
          BY <1>2, <2>1, <2>5 DEF OneToken
        <4>2. Tokens' = {} /\ Verdicts' = {} /\ Receiving' = {}
          <5>1. Tokens' = {}
            BY <1>2, <3>1, <3>2, <4>1, GrownItems
          <5> QED BY <1>1, <4>1, <5>1 DEF Verdicts, Receiving, Tokens
        <4>3. \A i \in DOMAIN toReceiver' : toReceiver'[i][1] # "a"
          BY <1>2, <3>1, <3>2, <4>1, Grown
        <4> QED BY <1>5, <2>5, <4>2, <4>3 DEF OneToken
      <3>5. NoAbort'
        BY <1>2, <2>1, <3>1, <3>2, Grown DEF NoAbort
      <3> QED BY <2>3, <3>3, <3>4, <3>5 DEF IInv, Typed
    <2> QED BY <2>2, <2>4, <2>5
  <1>6. CASE GivesUp
    BY <1>1, <1>2, <1>6, SenderGivesUp DEF LineTyped
  <1> QED BY <1>5, <1>6 DEF SenderTimesOut

---------------------------------------------------------------------------
(* The receiver.                                                           *)

(* Of two packets in a row one is in sequence. *)
LEMMA NextNumber ==
    ASSUME NEW a \in Nat, NEW m \in Nat \ {0, 1}
    PROVE  (a + 1) % m # a % m
  <1> DEFINE x == a \div m
             y == (a + 1) \div m
  <1>1. /\ a = (m * x) + (a % m) /\ a + 1 = (m * y) + ((a + 1) % m) /\ x \in Int /\ y \in Int
        /\ a % m \in Int /\ (a + 1) % m \in Int
    OBVIOUS
  <1> HIDE DEF x, y
  <1>2. SUFFICES ASSUME (a + 1) % m = a % m PROVE FALSE
    OBVIOUS
  <1>3. m * (y - x) = 1
    BY <1>1, <1>2
  <1>4. y - x \in Int /\ m \in Int /\ m >= 2
    BY <1>1
  <1>5. \A z \in Int : m * z # 1
    <2> SUFFICES ASSUME NEW z \in Int, m * z = 1 PROVE FALSE
      OBVIOUS
    <2>1. CASE z <= 0
      BY <1>4, <2>1
    <2>2. CASE z >= 1
      BY <1>4, <2>2
    <2> QED BY <2>1, <2>2
  <1> QED BY <1>3, <1>4, <1>5

(* What is said joins the answers. *)
LEMMA SaysOne ==
    ASSUME Typed, NEW x \in Letters, toSender' = toSender \o <<x>>
    PROVE  /\ toSender' \in Seq(Letters) /\ Len(toSender) + 1 \notin Verdicts
           /\ Cardinality(Acks(toSender')) =
                Cardinality(Acks(toSender)) + (IF x = "ACK" THEN 1 ELSE 0)
           /\ Acks(toSender') = Acks(toSender) \cup (IF x = "ACK" THEN {Len(toSender) + 1} ELSE {})
           /\ Verdicts' = Verdicts \cup (IF x \in {"ACK", "NAK"} THEN {Len(toSender) + 1} ELSE {})
  <1>1. toSender \in Seq(Letters) /\ toSender' = Append(toSender, x)
    BY Answers1 DEF Typed, LineTyped
  <1>2. /\ toSender' \in Seq(Letters) /\ Len(toSender) \in Nat
        /\ DOMAIN toSender = 1 .. Len(toSender) /\ DOMAIN toSender' = 1 .. Len(toSender) + 1
        /\ \A i \in 1 .. Len(toSender) : toSender'[i] = toSender[i]
        /\ toSender'[Len(toSender) + 1] = x
    BY <1>1, AppendAdds
  <1>3. Cardinality(Acks(toSender')) = Cardinality(Acks(toSender)) + (IF x = "ACK" THEN 1 ELSE 0)
    BY <1>1, AcksSaid
  <1>4. \A i : i \in DOMAIN toSender' <=> i \in DOMAIN toSender \/ i = Len(toSender) + 1
    BY <1>2
  <1>5. Acks(toSender') = Acks(toSender) \cup (IF x = "ACK" THEN {Len(toSender) + 1} ELSE {})
    BY <1>2, <1>4 DEF Acks
  <1>6. Verdicts' = Verdicts \cup (IF x \in {"ACK", "NAK"} THEN {Len(toSender) + 1} ELSE {})
    BY <1>2, <1>4 DEF Verdicts
  <1>7. Len(toSender) + 1 \notin Verdicts
    BY <1>2 DEF Verdicts
  <1> QED BY <1>2, <1>3, <1>5, <1>6, <1>7

LEMMA SaysAckC ==
    ASSUME Typed, toSender' = toSender \o <<"ACK", "C">>
    PROVE  /\ toSender' \in Seq(Letters)
           /\ Cardinality(Acks(toSender')) = Cardinality(Acks(toSender)) + 1
           /\ Verdicts' = Verdicts \cup {Len(toSender) + 1}
  <1> DEFINE q == Append(toSender, "ACK")
  <1>1. toSender \in Seq(Letters) /\ "ACK" \in Letters /\ "C" \in Letters
    BY DEF Typed, LineTyped, Letters
  <1>2. toSender' = Append(q, "C")
    BY <1>1, Answers2
  <1>3. /\ q \in Seq(Letters) /\ Len(toSender) \in Nat
        /\ DOMAIN toSender = 1 .. Len(toSender) /\ DOMAIN q = 1 .. Len(toSender) + 1
        /\ \A i \in 1 .. Len(toSender) : q[i] = toSender[i]
        /\ q[Len(toSender) + 1] = "ACK"
        /\ Cardinality(Acks(q)) = Cardinality(Acks(toSender)) + 1
    BY <1>1, AppendAdds, AcksSaid
  <1> HIDE DEF q
  <1>4. Len(q) = Len(toSender) + 1
    BY <1>3, LenProperties
  <1>5. /\ toSender' \in Seq(Letters) /\ DOMAIN toSender' = 1 .. Len(q) + 1
        /\ \A i \in 1 .. Len(q) : toSender'[i] = q[i]
        /\ toSender'[Len(q) + 1] = "C"
    BY <1>1, <1>2, <1>3, AppendAdds
  <1>6. Cardinality(Acks(toSender')) = Cardinality(Acks(q)) + (IF "C" = "ACK" THEN 1 ELSE 0)
    BY <1>1, <1>2, <1>3, AcksSaid
  <1>7. \A i : i \in DOMAIN toSender' <=>
                 i \in DOMAIN toSender \/ i = Len(toSender) + 1 \/ i = Len(toSender) + 2
    BY <1>3, <1>4, <1>5
  <1>8. /\ \A i \in DOMAIN toSender : toSender'[i] = toSender[i]
        /\ toSender'[Len(toSender) + 1] = "ACK" /\ toSender'[Len(toSender) + 2] = "C"
    BY <1>3, <1>4, <1>5
  <1>9. Verdicts' = Verdicts \cup {Len(toSender) + 1}
    BY <1>7, <1>8 DEF Verdicts
  <1>10. Cardinality(Acks(toSender)) \in Nat
    BY <1>1, AcksFinite
  <1> QED BY <1>3, <1>5, <1>6, <1>9, <1>10

(* A step of the receiver keeps the invariant if it says no ACK without    *)
(* taking a packet, unless both EOTs have come; and if, while nothing was  *)
(* misread, it answers just a packet or an EOT.                            *)
LEMMA ReceiverKeeps ==
    ASSUME IInv, sender' = sender, spoilt' = spoilt,
           ReceiverTyped', LineTyped', Ordered', Filed', eof_cnt <= eof_cnt',
           NEW d \in Nat, Shifted(toReceiver, toReceiver', d),
           eof_cnt' < 2 /\ at # "failed" =>
             Cardinality(Acks(toSender')) + packets_received <=
               Cardinality(Acks(toSender)) + packets_received',
           spoilt <= 1 /\ at \in {"greeting", "name", "afterName", "block"} =>
             packets_received' <= Pos + 1,
           spoilt = 0 /\ at # "failed" =>
             \/ /\ Verdicts' = Verdicts /\ Acks(toSender') = Acks(toSender)
                /\ at \in {"empty", "sent"} => result' # "failed"
             \/ /\ d = 1 /\ 1 \in Tokens
                /\ Verdicts = {} => \A i, j \in Verdicts' : i = j
                /\ at = "EOT" /\ Acks(toSender') # {} => eof_cnt' = 2
                /\ Verdicts = {} /\ result' = "failed" => Verdicts' = {}
    PROVE  IInv'
  <1>1. /\ Typed /\ Credit /\ NoAbort /\ OneToken /\ SenderTyped /\ LineTyped /\ ReceiverTyped
    BY DEF IInv, Typed
  <1>2. at' = at /\ sizeFile' = sizeFile /\ blkNumber' = blkNumber
    BY DEF sender
  <1>3. SenderTyped' /\ Pos' = Pos /\ Pos \in Nat
    BY <1>1, <1>2, Places DEF SenderTyped, Pos
  <1>4. /\ packets_received \in Nat /\ packets_received' \in Nat /\ spoilt \in Nat
        /\ eof_cnt \in 0 .. 2 /\ eof_cnt' \in 0 .. 2
    BY <1>1 DEF ReceiverTyped
  <1>5. Cardinality(Acks(toSender)) \in Nat /\ Cardinality(Acks(toSender')) \in Nat
    BY <1>1, AcksFinite DEF LineTyped
  <1>6. Credit'
    <2>1. ASSUME eof_cnt' < 2, at # "failed"
          PROVE  Pos + Cardinality(Acks(toSender')) <= packets_received' + spoilt
      <3>1. Pos + Cardinality(Acks(toSender)) <= packets_received + spoilt
        BY <1>1, <1>4, <2>1 DEF Credit
      <3> QED BY <1>3, <1>4, <1>5, <2>1, <3>1
    <2> QED BY <1>2, <1>3, <2>1 DEF Credit, Acks
  <1>7. /\ \A i \in DOMAIN toReceiver' : i \in Nat \ {0} /\ i + d \in DOMAIN toReceiver
                                          /\ toReceiver'[i] = toReceiver[i + d]
        /\ \A i \in Tokens' : i \in Nat \ {0} /\ i + d \in Tokens
        /\ \A i \in Receiving' : i + d \in Receiving /\ toReceiver'[i] = toReceiver[i + d]
    BY <1>1, ShrunkItems
  <1>8. NoAbort'
    BY <1>1, <1>2, <1>7 DEF NoAbort
  <1>9. OneToken'
    <2> SUFFICES ASSUME spoilt = 0, at # "failed" PROVE OneToken'
      BY <1>2 DEF OneToken
    <2>1. /\ \A i \in DOMAIN toReceiver : toReceiver[i][1] # "a"
          /\ at # "sent" => Tokens = {} \/ Verdicts = {}
          /\ \A i, j \in Tokens : i = j
          /\ at # "sent" => \A i, j \in Verdicts : i = j
          /\ at \in {"greeting", "afterName", "afterEOT", "sent"} => Tokens = {}
          /\ at \in {"greeting", "afterName", "afterEOT"} => Verdicts = {}
          /\ \A i \in Receiving : toReceiver[i][1] = at
          /\ at = "EOT" /\ Acks(toSender) # {} => eof_cnt = 2
          /\ at \in {"afterEOT", "empty", "sent"} => eof_cnt = 2
      BY <1>1 DEF OneToken
    <2>2. /\ \A i \in DOMAIN toReceiver' : toReceiver'[i][1] # "a"
          /\ \A i \in Receiving' : toReceiver'[i][1] = at
      BY <1>7, <2>1
    <2>3. eof_cnt = 2 => eof_cnt' = 2
      BY <1>4
    <2>4. \A i, j \in Tokens' : i = j
      <3> SUFFICES ASSUME NEW i \in Tokens', NEW j \in Tokens' PROVE i = j
        OBVIOUS
      <3>1. i + d = j + d /\ i \in Nat /\ j \in Nat
        BY <1>7, <2>1
      <3> QED BY <3>1
    <2>5. CASE /\ Verdicts' = Verdicts /\ Acks(toSender') = Acks(toSender)
               /\ at \in {"empty", "sent"} => result' # "failed"
      <3>1. Tokens = {} => Tokens' = {}
        BY <1>7
      <3> QED BY <1>2, <2>1, <2>2, <2>3, <2>4, <2>5, <3>1 DEF OneToken
    <2>6. CASE /\ d = 1 /\ 1 \in Tokens
               /\ Verdicts = {} => \A i, j \in Verdicts' : i = j
               /\ at = "EOT" /\ Acks(toSender') # {} => eof_cnt' = 2
               /\ Verdicts = {} /\ result' = "failed" => Verdicts' = {}
      <3>1. Verdicts = {} /\ at \notin {"greeting", "afterName", "afterEOT", "sent"}
        BY <2>1, <2>6
      <3>2. Tokens' = {}
        <4>1. ASSUME NEW i \in Tokens' PROVE FALSE
          <5>1. i + 1 = 1 /\ i \in Nat \ {0}
            BY <1>7, <2>1, <2>6
          <5> QED BY <5>1
        <4> QED BY <4>1
      <3> QED BY <1>2, <2>1, <2>2, <2>3, <2>6, <3>1, <3>2 DEF OneToken
    <2> QED BY <2>5, <2>6
  <1> QED BY <1>3, <1>6, <1>8, <1>9 DEF IInv, Typed

(* The item that is read. *)
LEMMA HeadRead ==
    ASSUME Typed, toReceiver # <<>>
    PROVE  /\ Head(toReceiver) = toReceiver[1] /\ Head(toReceiver) \in Kinds \X Nat
           /\ Tail(toReceiver) \in Seq(Kinds \X Nat) /\ Shifted(toReceiver, Tail(toReceiver), 1)
           /\ 1 \in DOMAIN toReceiver
           /\ Head(toReceiver)[1] \in Sent \cup {"bad"} => 1 \in Tokens
           /\ Head(toReceiver)[1] \in Sent => 1 \in Receiving
  <1>1. /\ Tail(toReceiver) \in Seq(Kinds \X Nat) /\ Shifted(toReceiver, Tail(toReceiver), 1)
        /\ 1 \in DOMAIN toReceiver /\ Head(toReceiver) = toReceiver[1]
        /\ Head(toReceiver) \in Kinds \X Nat
    BY TailShifts DEF Typed, LineTyped
  <1> QED BY <1>1 DEF Tokens, Receiving

(* The line after it, if the packet count stays. *)
LEMMA LineLeft ==
    ASSUME IInv, sender' = sender, spoilt' = spoilt, packets_received' = packets_received,
           eof_cnt' \in 0 .. 2, eof_cnt <= eof_cnt',
           NEW d \in Nat, Shifted(toReceiver, toReceiver', d),
           toReceiver' \in Seq(Kinds \X Nat), toSender' \in Seq(Letters)
    PROVE  LineTyped' /\ Ordered'
  <1>1. Typed /\ Ordered
    BY DEF IInv
  <1>2. Pos \in Nat /\ packets_received \in Nat /\ spoilt \in Nat
    BY <1>1, Places
  <1>3. sizeFile' = sizeFile /\ at' = at /\ Pos' = Pos
    BY DEF sender, Pos
  <1>4. /\ packets_received' \in Nat /\ packets_received <= packets_received'
        /\ spoilt' \in Nat /\ spoilt <= spoilt' /\ Pos <= Pos' /\ Pos' \in Nat
    BY <1>2, <1>3
  <1>5. eof_cnt' < 2 => eof_cnt < 2
    BY <1>1 DEF Typed, ReceiverTyped
  <1>6. Ordered' /\ \A i \in Receiving' : Numbered(toReceiver'[i], sizeFile')
    BY <1>1, <1>3, <1>4, <1>5, LineShrinks
  <1> QED BY <1>6 DEF LineTyped

(* The receiver returns an error, *)
LEMMA EndsStep ==
    ASSUME IInv, NEW x \in {"CA", "ACK"}, Ends(x), x = "ACK" => at = "failed",
           sender' = sender, spoilt' = spoilt,
           NEW d \in Nat, Shifted(toReceiver, toReceiver', d), toReceiver' \in Seq(Kinds \X Nat),
           spoilt = 0 /\ at # "failed" => (d = 1 /\ 1 \in Tokens) \/ at \notin {"empty", "sent"}
    PROVE  IInv'
  <1>1. /\ Typed /\ Credit /\ Filed /\ OneToken /\ SenderTyped /\ LineTyped /\ ReceiverTyped
    BY DEF IInv, Typed
  <1>2. /\ toSender' = toSender \o <<x>> /\ result' = "failed" /\ file' = <<>>
        /\ packets_received' = packets_received /\ eof_cnt' = eof_cnt
    BY DEF Ends, Says
  <1>3. x \in Letters /\ x # "NAK"
    BY DEF Letters
  <1>4. /\ toSender' \in Seq(Letters)
        /\ Cardinality(Acks(toSender')) =
             Cardinality(Acks(toSender)) + (IF x = "ACK" THEN 1 ELSE 0)
        /\ Acks(toSender') = Acks(toSender) \cup (IF x = "ACK" THEN {Len(toSender) + 1} ELSE {})
        /\ Verdicts' = Verdicts \cup (IF x \in {"ACK", "NAK"} THEN {Len(toSender) + 1} ELSE {})
    BY <1>1, <1>2, <1>3, SaysOne
  <1>5. /\ packets_received \in Nat /\ spoilt \in Nat /\ eof_cnt \in 0 .. 2
        /\ Cardinality(Acks(toSender)) \in Nat
    BY <1>1, AcksFinite DEF ReceiverTyped, LineTyped
  <1>6. at # "failed" => /\ Cardinality(Acks(toSender')) = Cardinality(Acks(toSender))
                         /\ Acks(toSender') = Acks(toSender) /\ Verdicts' = Verdicts
    <2> SUFFICES ASSUME x = "CA"
                 PROVE  /\ Cardinality(Acks(toSender')) = Cardinality(Acks(toSender))
                        /\ Acks(toSender') = Acks(toSender) /\ Verdicts' = Verdicts
      OBVIOUS
    <2> QED BY <1>4, <1>5
  <1>7. eof_cnt' \in 0 .. 2 /\ eof_cnt <= eof_cnt'
    BY <1>2, <1>5
  <1>8. LineTyped' /\ Ordered'
    BY <1>2, <1>4, <1>7, LineLeft
  <1>9. ReceiverTyped'
    BY <1>1, <1>2, EmptySeq DEF ReceiverTyped
  <1>10. Filed'
    <2>1. Len(file') = 0 /\ ~\E i \in 1 .. Len(file') : TRUE
      BY <1>2
    <2>2. sizeFile' = sizeFile
      BY DEF sender
    <2> QED BY <1>1, <1>2, <2>1, <2>2 DEF Filed
  <1>11. eof_cnt' < 2 /\ at # "failed" =>
           Cardinality(Acks(toSender')) + packets_received <=
             Cardinality(Acks(toSender)) + packets_received'
    BY <1>2, <1>5, <1>6
  <1>12. spoilt <= 1 /\ at \in {"greeting", "name", "afterName", "block"} =>
           packets_received' <= Pos + 1
    BY <1>1, <1>2 DEF Credit
  <1>13. spoilt = 0 /\ at # "failed" =>
           \/ /\ Verdicts' = Verdicts /\ Acks(toSender') = Acks(toSender)
              /\ at \in {"empty", "sent"} => result' # "failed"
           \/ /\ d = 1 /\ 1 \in Tokens
              /\ Verdicts = {} => \A i, j \in Verdicts' : i = j
              /\ at = "EOT" /\ Acks(toSender') # {} => eof_cnt' = 2
              /\ Verdicts = {} /\ result' = "failed" => Verdicts' = {}
    <2> SUFFICES ASSUME spoilt = 0, at # "failed", d = 1 /\ 1 \in Tokens
                 PROVE  /\ Verdicts = {} => \A i, j \in Verdicts' : i = j
                        /\ at = "EOT" /\ Acks(toSender') # {} => eof_cnt' = 2
                        /\ Verdicts = {} /\ result' = "failed" => Verdicts' = {}
      BY <1>6
    <2>1. at = "EOT" /\ Acks(toSender) # {} => eof_cnt = 2
      BY <1>1 DEF OneToken
    <2> QED BY <1>2, <1>6, <2>1
  <1> QED BY <1>7, <1>8, <1>9, <1>10, <1>11, <1>12, <1>13, ReceiverKeeps

(* or counts an error and asks again, *)
LEMMA ToleratedStep ==
    ASSUME IInv, result = "open", NEW limit, NEW x \in {"C", "NAK"}, Tolerated(limit, x),
           sender' = sender, spoilt' = spoilt,
           NEW d \in Nat, Shifted(toReceiver, toReceiver', d), toReceiver' \in Seq(Kinds \X Nat),
           spoilt = 0 /\ at # "failed" =>
             \/ d = 1 /\ 1 \in Tokens
             \/ x = "C" /\ at \notin {"empty", "sent"}
    PROVE  IInv'
  <1>1. /\ Typed /\ Credit /\ Filed /\ OneToken /\ SenderTyped /\ LineTyped /\ ReceiverTyped
    BY DEF IInv, Typed
  <1>2. CASE Ends("CA")
    <2>1. spoilt = 0 /\ at # "failed" => (d = 1 /\ 1 \in Tokens) \/ at \notin {"empty", "sent"}
      OBVIOUS
    <2> QED BY <1>2, <2>1, EndsStep
  <1>3. CASE /\ Says(<<x>>) /\ result' = result /\ packets_received' = packets_received
             /\ eof_cnt' = eof_cnt /\ file' = file
    <2>1. x \in Letters /\ x # "ACK"
      BY DEF Letters
    <2>2. /\ toSender' \in Seq(Letters)
          /\ Cardinality(Acks(toSender')) =
               Cardinality(Acks(toSender)) + (IF x = "ACK" THEN 1 ELSE 0)
          /\ Acks(toSender') = Acks(toSender) \cup (IF x = "ACK" THEN {Len(toSender) + 1} ELSE {})
          /\ Verdicts' = Verdicts \cup (IF x \in {"ACK", "NAK"} THEN {Len(toSender) + 1} ELSE {})
      BY <1>1, <1>3, <2>1, SaysOne DEF Says
    <2>3. /\ packets_received \in Nat /\ spoilt \in Nat /\ eof_cnt \in 0 .. 2
          /\ Cardinality(Acks(toSender)) \in Nat
      BY <1>1, AcksFinite DEF ReceiverTyped, LineTyped
    <2>4. Acks(toSender') = Acks(toSender)
          /\ Cardinality(Acks(toSender')) = Cardinality(Acks(toSender))
      BY <2>1, <2>2
    <2>5. eof_cnt' \in 0 .. 2 /\ eof_cnt <= eof_cnt'
      BY <1>3, <2>3
    <2>6. LineTyped' /\ Ordered'
      BY <1>3, <2>2, <2>5, LineLeft
    <2>7. ReceiverTyped' /\ Filed'
      <3>1. sizeFile' = sizeFile
        BY DEF sender
      <3> QED BY <1>1, <1>3, <3>1 DEF ReceiverTyped, Filed, Blocks
    <2>8. eof_cnt' < 2 /\ at # "failed" =>
            Cardinality(Acks(toSender')) + packets_received <=
              Cardinality(Acks(toSender)) + packets_received'
      BY <1>3, <2>3, <2>4
    <2>9. spoilt <= 1 /\ at \in {"greeting", "name", "afterName", "block"} =>
            packets_received' <= Pos + 1
      BY <1>1, <1>3 DEF Credit
    <2>10. spoilt = 0 /\ at # "failed" =>
           \/ /\ Verdicts' = Verdicts /\ Acks(toSender') = Acks(toSender)
              /\ at \in {"empty", "sent"} => result' # "failed"
           \/ /\ d = 1 /\ 1 \in Tokens
              /\ Verdicts = {} => \A i, j \in Verdicts' : i = j
              /\ at = "EOT" /\ Acks(toSender') # {} => eof_cnt' = 2
              /\ Verdicts = {} /\ result' = "failed" => Verdicts' = {}
      <3> SUFFICES ASSUME spoilt = 0, at # "failed"
                   PROVE  \/ /\ Verdicts' = Verdicts /\ Acks(toSender') = Acks(toSender)
                             /\ at \in {"empty", "sent"} => result' # "failed"
                          \/ /\ d = 1 /\ 1 \in Tokens
                             /\ Verdicts = {} => \A i, j \in Verdicts' : i = j
                             /\ at = "EOT" /\ Acks(toSender') # {} => eof_cnt' = 2
                             /\ Verdicts = {} /\ result' = "failed" => Verdicts' = {}
        OBVIOUS
      <3>1. at = "EOT" /\ Acks(toSender) # {} => eof_cnt = 2
        BY <1>1 DEF OneToken
      <3>2. result' # "failed"
        BY <1>3
      <3>3. CASE x = "C"
        BY <2>2, <2>4, <3>2, <3>3
      <3>4. CASE x = "NAK"
        <4>1. d = 1 /\ 1 \in Tokens
          BY <3>4
        <4> QED BY <1>3, <2>2, <2>4, <3>1, <3>2, <4>1
      <3> QED BY <3>3, <3>4
    <2> QED BY <2>5, <2>6, <2>7, <2>8, <2>9, <2>10, ReceiverKeeps
  <1> QED BY <1>2, <1>3 DEF Tolerated

(* or finds nothing, which after the EOTs is the end. *)
LEMMA NoPacketStep ==
    ASSUME IInv, result = "open", NoPacket,
           sender' = sender, spoilt' = spoilt,
           NEW d \in Nat, Shifted(toReceiver, toReceiver', d), toReceiver' \in Seq(Kinds \X Nat)
    PROVE  IInv'
  <1>1. /\ Typed /\ Credit /\ Filed /\ OneToken /\ SenderTyped /\ LineTyped /\ ReceiverTyped
    BY DEF IInv, Typed
  <1>2. CASE eof_cnt > 1
    <2>1. /\ result' = IF packets_received > 0 THEN "received" ELSE "failed"
          /\ toSender' = toSender /\ packets_received' = packets_received
          /\ eof_cnt' = eof_cnt /\ file' = file
      BY <1>1, <1>2 DEF NoPacket, ReceiverTyped
    <2>2. /\ packets_received \in Nat /\ spoilt \in Nat /\ eof_cnt \in 0 .. 2
          /\ Cardinality(Acks(toSender)) \in Nat /\ sizeFile \in Nat
      BY <1>1, AcksFinite DEF ReceiverTyped, LineTyped, SenderTyped
    <2>3. eof_cnt' \in 0 .. 2 /\ eof_cnt <= eof_cnt' /\ eof_cnt = 2 /\ sizeFile' = sizeFile
      BY <1>2, <2>1, <2>2 DEF sender
    <2>4. LineTyped' /\ Ordered'
      BY <1>1, <2>1, <2>3, LineLeft DEF LineTyped
    <2>5. result' = "failed" => packets_received = 0 /\ file = <<>>
      <3> SUFFICES ASSUME result' = "failed" PROVE packets_received = 0 /\ file = <<>>
        OBVIOUS
      <3>1. packets_received = 0
        BY <2>1, <2>2
      <3>2. Len(file) = 0 /\ file \in Seq(Nat)
        BY <1>1, <3>1 DEF Filed, Blocks, ReceiverTyped
      <3> QED BY <3>1, <3>2, EmptySeq
    <2>6. spoilt = 0 => result' # "failed"
      <3>1. spoilt = 0 => packets_received > sizeFile
        BY <1>1, <2>3 DEF Filed
      <3> QED BY <2>1, <2>2, <3>1
    <2>7. ReceiverTyped' /\ Filed'
      <3>1. result' \in {"received", "failed"} /\ result # "failed"
        BY <2>1
      <3>2. Blocks' = Blocks
        BY <2>1, <2>3 DEF Blocks
      <3>3. ReceiverTyped'
        BY <1>1, <2>1, <3>1 DEF ReceiverTyped
      <3>4. Filed'
        BY <1>1, <2>1, <2>3, <2>5, <3>1, <3>2 DEF Filed
      <3> QED BY <3>3, <3>4
    <2>8. eof_cnt' < 2 /\ at # "failed" =>
            Cardinality(Acks(toSender')) + packets_received <=
              Cardinality(Acks(toSender)) + packets_received'
      BY <2>1, <2>3
    <2>9. spoilt <= 1 /\ at \in {"greeting", "name", "afterName", "block"} =>
            packets_received' <= Pos + 1
      BY <1>1, <2>1 DEF Credit
    <2>10. Verdicts' = Verdicts /\ Acks(toSender') = Acks(toSender)
      BY <2>1 DEF Verdicts, Acks
    <2> QED BY <2>3, <2>4, <2>6, <2>7, <2>8, <2>9, <2>10, ReceiverKeeps
  <1>3. CASE eof_cnt <= 1
    <2>1. Tolerated(MaxErrors, "C")
      BY <1>1, <1>3 DEF NoPacket, ReceiverTyped
    <2>2. spoilt = 0 /\ at # "failed" => at \notin {"empty", "sent"}
      BY <1>1, <1>3 DEF OneToken
    <2> QED BY <2>1, <2>2, ToleratedStep
  <1> QED BY <1>2, <1>3 DEF NoPacket

(* It answers an EOT, and packets that come after both of them.            *)
LEMMA EOTStep ==
    ASSUME IInv, result = "open", toReceiver # <<>>, toReceiver' = Tail(toReceiver),
           Head(toReceiver)[1] = "EOT", EndOfTransmission,
           sender' = sender, spoilt' = spoilt
    PROVE  IInv'
  <1>1. /\ Typed /\ Credit /\ Ordered /\ Filed /\ OneToken
        /\ SenderTyped /\ LineTyped /\ ReceiverTyped
    BY DEF IInv, Typed
  <1>2. /\ eof_cnt' = IF eof_cnt = 0 THEN 1 ELSE 2
        /\ toSender' = toSender \o IF eof_cnt = 0 THEN <<"NAK">> ELSE <<"ACK", "C">>
        /\ result' = result /\ packets_received' = packets_received /\ file' = file
        /\ sizeFile' = sizeFile
    BY DEF EndOfTransmission, Says, sender
  <1>3. /\ 1 \in Tokens /\ 1 \in Receiving /\ Head(toReceiver) = toReceiver[1]
        /\ Shifted(toReceiver, toReceiver', 1) /\ toReceiver' \in Seq(Kinds \X Nat)
    BY <1>1, HeadRead DEF Sent
  <1>4. /\ packets_received \in Nat /\ spoilt \in Nat /\ eof_cnt \in 0 .. 2
        /\ Cardinality(Acks(toSender)) \in Nat /\ sizeFile \in Nat
    BY <1>1, AcksFinite DEF ReceiverTyped, LineTyped, SenderTyped
  <1>5. eof_cnt' \in 0 .. 2 /\ eof_cnt <= eof_cnt' /\ 1 \in Nat
    BY <1>2, <1>4
  <1>6. /\ toSender' \in Seq(Letters)
        /\ Verdicts' = Verdicts \cup {Len(toSender) + 1}
        /\ eof_cnt = 0 => /\ Cardinality(Acks(toSender')) = Cardinality(Acks(toSender))
                          /\ Acks(toSender') = Acks(toSender)
    <2>1. CASE eof_cnt = 0
      <3>1. toSender' = toSender \o <<"NAK">> /\ "NAK" \in Letters
        BY <1>2, <2>1 DEF Letters
      <3> QED BY <1>1, <1>4, <3>1, SaysOne
    <2>2. CASE eof_cnt # 0
      BY <1>1, <1>2, <2>2, SaysAckC
    <2> QED BY <2>1, <2>2
  <1>7. LineTyped' /\ Ordered'
    BY <1>2, <1>3, <1>5, <1>6, LineLeft
  <1>8. spoilt = 0 => packets_received > sizeFile
    <2>1. CASE eof_cnt < 2
      <3>1. Place(toReceiver[1], sizeFile) <= packets_received + spoilt
        BY <1>1, <1>3, <2>1 DEF Ordered
      <3>2. Place(toReceiver[1], sizeFile) = sizeFile + 1
        BY <1>3 DEF Place
      <3> QED BY <1>4, <3>1, <3>2
    <2>2. CASE eof_cnt = 2
      BY <1>1, <2>2 DEF Filed
    <2> QED BY <1>4, <2>1, <2>2
  <1>9. ReceiverTyped' /\ Filed'
    <2>1. Blocks' = Blocks
      BY <1>2 DEF Blocks
    <2>2. ReceiverTyped'
      BY <1>1, <1>2, <1>5 DEF ReceiverTyped
    <2>3. Filed'
      BY <1>1, <1>2, <1>8, <2>1 DEF Filed
    <2> QED BY <2>2, <2>3
  <1>10. eof_cnt' < 2 /\ at # "failed" =>
           Cardinality(Acks(toSender')) + packets_received <=
             Cardinality(Acks(toSender)) + packets_received'
    BY <1>2, <1>4, <1>6
  <1>11. spoilt <= 1 /\ at \in {"greeting", "name", "afterName", "block"} =>
           packets_received' <= Pos + 1
    BY <1>1, <1>2 DEF Credit
  <1>12. spoilt = 0 /\ at # "failed" =>
           /\ Verdicts = {} => \A i, j \in Verdicts' : i = j
           /\ at = "EOT" /\ Acks(toSender') # {} => eof_cnt' = 2
           /\ Verdicts = {} /\ result' = "failed" => Verdicts' = {}
    <2> SUFFICES ASSUME spoilt = 0, at # "failed"
                 PROVE  /\ Verdicts = {} => \A i, j \in Verdicts' : i = j
                        /\ at = "EOT" /\ Acks(toSender') # {} => eof_cnt' = 2
                        /\ Verdicts = {} /\ result' = "failed" => Verdicts' = {}
      OBVIOUS
    <2>1. at = "EOT" /\ Acks(toSender) # {} => eof_cnt = 2
      BY <1>1 DEF OneToken
    <2>2. at = "EOT" /\ Acks(toSender') # {} => eof_cnt' = 2
      BY <1>2, <1>4, <1>6, <2>1
    <2> QED BY <1>2, <1>6, <2>2
  <1> QED BY <1>3, <1>5, <1>7, <1>9, <1>10, <1>11, <1>12, ReceiverKeeps

LEMMA LateStep ==
    ASSUME IInv, result = "open", toReceiver # <<>>, toReceiver' = Tail(toReceiver),
           Head(toReceiver)[1] \in Sent, eof_cnt > 1, Says(<<"ACK">>), UNCHANGED receiver,
           sender' = sender, spoilt' = spoilt
    PROVE  IInv'
  <1>1. /\ Typed /\ Credit /\ Filed /\ OneToken
        /\ SenderTyped /\ LineTyped /\ ReceiverTyped
    BY DEF IInv, Typed
  <1>2. /\ result' = result /\ packets_received' = packets_received /\ file' = file
        /\ eof_cnt' = eof_cnt /\ "ACK" \in Letters
    BY DEF receiver, Letters
  <1>3. /\ 1 \in Tokens /\ Shifted(toReceiver, toReceiver', 1)
        /\ toReceiver' \in Seq(Kinds \X Nat)
    BY <1>1, HeadRead
  <1>4. packets_received \in Nat /\ spoilt \in Nat /\ eof_cnt = 2
    BY <1>1 DEF ReceiverTyped
  <1>5. eof_cnt' \in 0 .. 2 /\ eof_cnt <= eof_cnt' /\ 1 \in Nat /\ spoilt <= spoilt'
    BY <1>2, <1>4
  <1>6. toSender' \in Seq(Letters) /\ Verdicts' = Verdicts \cup {Len(toSender) + 1}
    BY <1>1, <1>2, SaysOne DEF Says
  <1>7. LineTyped' /\ Ordered'
    BY <1>2, <1>3, <1>5, <1>6, LineLeft
  <1>8. ReceiverTyped' /\ Filed'
    <2>1. sizeFile' = sizeFile
      BY DEF sender
    <2> QED BY <1>1, <1>4, <1>5, <2>1, FiledStays, ReceiverTypedStays
  <1>9. eof_cnt' < 2 /\ at # "failed" =>
          Cardinality(Acks(toSender')) + packets_received <=
            Cardinality(Acks(toSender)) + packets_received'
    BY <1>2, <1>4
  <1>10. spoilt <= 1 /\ at \in {"greeting", "name", "afterName", "block"} =>
           packets_received' <= Pos + 1
    BY <1>1, <1>2 DEF Credit
  <1>11. /\ Verdicts = {} => \A i, j \in Verdicts' : i = j
         /\ eof_cnt' = 2 /\ result' # "failed"
    BY <1>2, <1>4, <1>6
  <1> QED BY <1>3, <1>5, <1>7, <1>8, <1>9, <1>10, <1>11, ReceiverKeeps

(* A packet in sequence is the one that was to come, unless answers were   *)
(* misread; so the sender was not behind, nor is what follows on the line. *)
LEMMA InSequenceFacts ==
    ASSUME IInv, toReceiver # <<>>, Head(toReceiver)[1] \in Packets, eof_cnt <= 1,
           InSequence(Head(toReceiver)), spoilt <= 1
    PROVE  /\ Head(toReceiver)[1] \in {"name", "block"} =>
                Place(Head(toReceiver), sizeFile) = packets_received
           /\ Head(toReceiver)[1] = "empty" => packets_received > sizeFile
           /\ at \in {"greeting", "name", "afterName", "block"} => packets_received <= Pos
           /\ \A i \in Receiving : i > 1 /\ toReceiver[i][1] \in {"name", "block"} =>
                packets_received <= Place(toReceiver[i], sizeFile)
           /\ spoilt = 0 /\ at # "failed" => at \in Packets \ {"empty"}
  <1> DEFINE p == Head(toReceiver)
             r == packets_received
  <1>1. /\ Typed /\ Ordered /\ OneToken /\ SenderTyped /\ LineTyped /\ ReceiverTyped
    BY DEF IInv, Typed
  <1>2. /\ p = toReceiver[1] /\ p[1] \in {"name", "block", "empty"} /\ p[1] \in Sent
        /\ 1 \in Receiving /\ p \in Kinds \X Nat /\ p[2] % SeqMod = r % SeqMod
    <2>1. p[1] \in {"name", "block", "empty"} /\ p[1] \in Sent
      BY DEF Packets, Sent
    <2>2. p[2] % SeqMod = r % SeqMod
      BY DEF InSequence, SeqNo
    <2>3. p = toReceiver[1] /\ 1 \in Receiving /\ p \in Kinds \X Nat
      BY <1>1, <2>1, HeadRead
    <2> QED BY <2>1, <2>2, <2>3
  <1>3. /\ r \in Nat /\ spoilt \in Nat /\ sizeFile \in Nat /\ Pos \in Nat
        /\ \A i \in Receiving : Place(toReceiver[i], sizeFile) \in Nat
        /\ SeqMod \in Nat \ {0, 1} /\ p[2] \in Nat /\ eof_cnt < 2
    BY <1>1, <1>2, Places, LimitsAssumption DEF ReceiverTyped
  <1>4. /\ Numbered(p, sizeFile) /\ Place(p, sizeFile) <= r + spoilt
        /\ p[1] \in {"name", "block"} => r <= Place(p, sizeFile) + 1
        /\ at # "failed" => Place(p, sizeFile) <= Pos
        /\ \A i \in Receiving : i > 1 => Place(p, sizeFile) <= Place(toReceiver[i], sizeFile)
        /\ \A i \in Receiving : Numbered(toReceiver[i], sizeFile)
    BY <1>1, <1>2, <1>3 DEF Ordered, LineTyped
  <1> HIDE DEF p, r
  <1>5. p[1] \in {"name", "block"} => Place(p, sizeFile) = r
    <2> SUFFICES ASSUME p[1] \in {"name", "block"} PROVE Place(p, sizeFile) = r
      OBVIOUS
    <2>1. Place(p, sizeFile) = p[2]
      BY <1>4 DEF Place, Numbered
    <2>2. p[2] <= r + 1 /\ r <= p[2] + 1
      BY <1>3, <1>4, <2>1
    <2>3. p[2] # r + 1
      BY <1>2, <1>3, NextNumber
    <2>4. r # p[2] + 1
      BY <1>2, <1>3, NextNumber
    <2> QED BY <1>3, <2>1, <2>2, <2>3, <2>4
  <1>6. p[1] = "empty" => Place(p, sizeFile) = sizeFile + 2 /\ r > sizeFile
    <2> SUFFICES ASSUME p[1] = "empty" PROVE Place(p, sizeFile) = sizeFile + 2 /\ r > sizeFile
      OBVIOUS
    <2>1. Place(p, sizeFile) = sizeFile + 2
      BY DEF Place
    <2> QED BY <1>3, <1>4, <2>1
  <1>7. at \in {"greeting", "name", "afterName", "block"} => r <= Pos
    <2> SUFFICES ASSUME at \in {"greeting", "name", "afterName", "block"} PROVE r <= Pos
      OBVIOUS
    <2>1. Place(p, sizeFile) <= Pos /\ Pos < sizeFile + 2
      BY <1>1, <1>3, <1>4 DEF Pos, SenderTyped
    <2>2. p[1] # "empty"
      BY <1>3, <1>6, <2>1
    <2> QED BY <1>2, <1>5, <2>1, <2>2
  <1>8. \A i \in Receiving : i > 1 /\ toReceiver[i][1] \in {"name", "block"} =>
          r <= Place(toReceiver[i], sizeFile)
    <2> SUFFICES ASSUME NEW i \in Receiving, i > 1, toReceiver[i][1] \in {"name", "block"}
                 PROVE  r <= Place(toReceiver[i], sizeFile)
      OBVIOUS
    <2>1. Place(p, sizeFile) <= Place(toReceiver[i], sizeFile)
      BY <1>4
    <2>2. Place(toReceiver[i], sizeFile) <= sizeFile
      <3>1. Numbered(toReceiver[i], sizeFile)
        BY <1>4
      <3> QED BY <1>3, <3>1 DEF Place, Numbered
    <2>3. p[1] # "empty"
      BY <1>3, <1>6, <2>1, <2>2
    <2> QED BY <1>2, <1>5, <2>1, <2>3
  <1>9. spoilt = 0 /\ at # "failed" => at \in Packets \ {"empty"}
    <2> SUFFICES ASSUME spoilt = 0, at # "failed" PROVE at \in Packets \ {"empty"}
      OBVIOUS
    <2>1. p[1] = at /\ (at = "empty" => eof_cnt = 2)
      BY <1>1, <1>2 DEF OneToken
    <2> QED BY <1>2, <1>3, <2>1 DEF Packets
  <1> QED BY <1>5, <1>6, <1>7, <1>8, <1>9 DEF p, r

LEMMA AcceptedStep ==
    ASSUME IInv, result = "open", toReceiver # <<>>, toReceiver' = Tail(toReceiver),
           Head(toReceiver)[1] \in Packets, eof_cnt <= 1, InSequence(Head(toReceiver)),
           packets_received' = packets_received + 1, eof_cnt' = eof_cnt, result' = result,
           ReceiverTyped', Filed', toSender' \in Seq(Letters),
           Cardinality(Acks(toSender')) = Cardinality(Acks(toSender)) + 1,
           Verdicts' = Verdicts \cup {Len(toSender) + 1},
           sender' = sender, spoilt' = spoilt
    PROVE  IInv'
  <1> DEFINE r == packets_received
  <1>1. /\ Typed /\ Ordered /\ OneToken /\ LineTyped /\ ReceiverTyped
    BY DEF IInv, Typed
  <1>2. Head(toReceiver)[1] \in Sent
    BY DEF Packets, Sent
  <1>3. /\ 1 \in Tokens /\ Shifted(toReceiver, toReceiver', 1)
        /\ toReceiver' \in Seq(Kinds \X Nat) /\ 1 \in Nat
    BY <1>1, <1>2, HeadRead
  <1>4. /\ r \in Nat /\ spoilt \in Nat /\ eof_cnt \in 0 .. 2 /\ Pos \in Nat
        /\ \A i \in Receiving : Place(toReceiver[i], sizeFile) \in Nat
        /\ Cardinality(Acks(toSender)) \in Nat
    BY <1>1, AcksFinite, Places DEF ReceiverTyped, LineTyped
  <1>5. /\ sizeFile' = sizeFile /\ at' = at /\ Pos' = Pos
        /\ spoilt' \in Nat /\ spoilt <= spoilt' /\ Pos <= Pos' /\ Pos' \in Nat
        /\ packets_received' \in Nat /\ packets_received <= packets_received'
        /\ eof_cnt <= eof_cnt'
    BY <1>4 DEF sender, Pos
  <1>6. spoilt <= 1 => /\ at \in {"greeting", "name", "afterName", "block"} => r <= Pos
                       /\ \A i \in Receiving : i > 1 /\ toReceiver[i][1] \in {"name", "block"} =>
                            r <= Place(toReceiver[i], sizeFile)
    BY InSequenceFacts
  <1>7. spoilt = 0 /\ at # "failed" => at # "EOT"
    BY <1>4, InSequenceFacts DEF Packets
  <1>8. spoilt <= 1 => \A i \in Receiving : i > 1 /\ toReceiver[i][1] \in {"name", "block"} =>
                         packets_received' <= Place(toReceiver[i], sizeFile) + 1
    BY <1>4, <1>6
  <1>9. Ordered' /\ \A i \in Receiving' : Numbered(toReceiver'[i], sizeFile')
    BY <1>1, <1>3, <1>5, <1>8, LineShrinks
  <1>10. LineTyped'
    BY <1>3, <1>9 DEF LineTyped
  <1>11. eof_cnt' < 2 /\ at # "failed" =>
           Cardinality(Acks(toSender')) + packets_received <=
             Cardinality(Acks(toSender)) + packets_received'
    BY <1>4
  <1>12. spoilt <= 1 /\ at \in {"greeting", "name", "afterName", "block"} =>
           packets_received' <= Pos + 1
    BY <1>4, <1>6
  <1>13. spoilt = 0 /\ at # "failed" =>
           /\ Verdicts = {} => \A i, j \in Verdicts' : i = j
           /\ at = "EOT" /\ Acks(toSender') # {} => eof_cnt' = 2
           /\ Verdicts = {} /\ result' = "failed" => Verdicts' = {}
    BY <1>7
  <1> QED BY <1>3, <1>5, <1>9, <1>10, <1>11, <1>12, <1>13, ReceiverKeeps

LEMMA NamePacketStep ==
    ASSUME IInv, result = "open", toReceiver # <<>>, toReceiver' = Tail(toReceiver),
           Head(toReceiver)[1] \in Packets, eof_cnt <= 1, InSequence(Head(toReceiver)),
           packets_received = 0, NamePacket, sender' = sender, spoilt' = spoilt
    PROVE  IInv'
  <1>1. /\ Typed /\ Filed /\ SenderTyped /\ LineTyped /\ ReceiverTyped
    BY DEF IInv, Typed
  <1>2. CASE Ends("CA")
    <2>1. Head(toReceiver)[1] \in Sent
      BY DEF Packets, Sent
    <2>2. /\ 1 \in Tokens /\ Shifted(toReceiver, toReceiver', 1)
          /\ toReceiver' \in Seq(Kinds \X Nat) /\ 1 \in Nat
      BY <1>1, <2>1, HeadRead
    <2> QED BY <1>2, <2>2, EndsStep
  <1>3. CASE /\ sizeFile \in 1..MaxSize
             /\ errors' = 0 /\ packets_received' = 1 /\ Says(<<"ACK", "C">>)
             /\ UNCHANGED <<result, eof_cnt, file>>
    <2>1. packets_received' = packets_received + 1 /\ sizeFile' = sizeFile
          /\ sizeFile \in Nat /\ 1 <= sizeFile
      BY <1>1, <1>3 DEF sender, SenderTyped
    <2>2. ReceiverTyped'
      BY <1>1, <1>3 DEF ReceiverTyped
    <2>3. Blocks = 0 /\ Blocks' = 0
      BY <1>3, <2>1 DEF Blocks
    <2>4. spoilt = 0 => ~(eof_cnt > 0)
      BY <1>1, <2>1 DEF Filed
    <2>5. Filed'
      BY <1>1, <1>3, <2>1, <2>3, <2>4 DEF Filed
    <2>6. /\ toSender' \in Seq(Letters)
          /\ Cardinality(Acks(toSender')) = Cardinality(Acks(toSender)) + 1
          /\ Verdicts' = Verdicts \cup {Len(toSender) + 1}
      BY <1>1, <1>3, SaysAckC DEF Says
    <2> QED BY <1>3, <2>1, <2>2, <2>5, <2>6, AcceptedStep
  <1> QED BY <1>2, <1>3 DEF NamePacket

LEMMA DataPacketStep ==
    ASSUME IInv, result = "open", toReceiver # <<>>, toReceiver' = Tail(toReceiver),
           Head(toReceiver)[1] \in Packets, eof_cnt <= 1, InSequence(Head(toReceiver)),
           packets_received > 0, DataPacket(Head(toReceiver)[2]),
           sender' = sender, spoilt' = spoilt
    PROVE  IInv'
  <1> DEFINE r == packets_received
             b == Head(toReceiver)[2]
  <1>1. /\ Typed /\ Filed /\ SenderTyped /\ LineTyped /\ ReceiverTyped
    BY DEF IInv, Typed
  <1>2. CASE Ends("CA")
    <2>1. Head(toReceiver)[1] \in Sent
      BY DEF Packets, Sent
    <2>2. /\ 1 \in Tokens /\ Shifted(toReceiver, toReceiver', 1)
          /\ toReceiver' \in Seq(Kinds \X Nat) /\ 1 \in Nat
      BY <1>1, <2>1, HeadRead
    <2> QED BY <1>2, <2>2, EndsStep
  <1>3. CASE /\ file' = IF Len(file) = sizeFile THEN file ELSE Append(file, b)
             /\ errors' = 0 /\ packets_received' = packets_received + 1 /\ Says(<<"ACK">>)
             /\ UNCHANGED <<result, eof_cnt>>
    <2>1. /\ sizeFile' = sizeFile /\ sizeFile \in Nat /\ r \in Nat \ {0} /\ spoilt \in Nat
          /\ file \in Seq(Nat) /\ Len(file) \in Nat /\ b \in Nat
      BY <1>1, HeadRead, LenProperties DEF sender, SenderTyped, ReceiverTyped
    <2>2. /\ Len(file) = IF r <= sizeFile THEN r - 1 ELSE sizeFile
          /\ Blocks' = IF r + 1 <= sizeFile THEN r ELSE sizeFile
      BY <1>1, <1>3, <2>1 DEF Filed, Blocks
    <2>3. spoilt <= 1 => b = r \/ r > sizeFile
      <3> SUFFICES ASSUME spoilt <= 1, ~(r > sizeFile) PROVE b = r
        OBVIOUS
      <3>1. Head(toReceiver)[1] \in {"name", "block"} /\ Place(Head(toReceiver), sizeFile) = r
        BY InSequenceFacts DEF Packets
      <3> QED BY <2>1, <3>1 DEF Place
    <2>4. /\ file' \in Seq(Nat) /\ Len(file') = Blocks'
          /\ spoilt' <= 1 => \A i \in 1 .. Len(file') : file'[i] = i
      <3>1. spoilt <= 1 => \A i \in 1 .. Len(file) : file[i] = i
        BY <1>1 DEF Filed
      <3>2. CASE Len(file) = sizeFile
        <4>1. Blocks' = sizeFile
          BY <2>1, <2>2, <3>2
        <4> QED BY <1>3, <2>1, <3>1, <3>2, <4>1
      <3>3. CASE Len(file) # sizeFile
        <4>1. file' = Append(file, b)
          BY <1>3, <3>3
        <4>2. /\ file' \in Seq(Nat) /\ Len(file') = Len(file) + 1
              /\ \A i \in 1 .. Len(file) : file'[i] = file[i]
              /\ file'[Len(file) + 1] = b
          BY <2>1, <4>1, AppendProperties
        <4>3. r <= sizeFile /\ Len(file) = r - 1 /\ Blocks' = r
          BY <2>1, <2>2, <3>3
        <4>4. Len(file') = r /\ ~(r > sizeFile)
          BY <2>1, <4>2, <4>3
        <4>5. ASSUME spoilt' <= 1, NEW i \in 1 .. Len(file')
              PROVE  file'[i] = i
          <5>1. CASE i = r
            BY <2>1, <2>3, <4>2, <4>3, <4>4, <4>5, <5>1
          <5>2. CASE i # r
            <6>1. i \in 1 .. Len(file)
              BY <2>1, <4>3, <4>4, <4>5, <5>2
            <6> QED BY <3>1, <4>2, <4>5, <6>1
          <5> QED BY <5>1, <5>2
        <4> QED BY <4>2, <4>3, <4>4, <4>5
      <3> QED BY <3>2, <3>3
    <2>5. ReceiverTyped'
      BY <1>1, <1>3, <2>1, <2>4 DEF ReceiverTyped
    <2>6. spoilt = 0 /\ eof_cnt > 0 => packets_received' > sizeFile
      <3>1. spoilt = 0 /\ eof_cnt > 0 => r > sizeFile
        BY <1>1 DEF Filed
      <3> QED BY <1>3, <2>1, <3>1
    <2>7. Filed'
      <3>1. result' = "open" /\ eof_cnt' = eof_cnt
        BY <1>3
      <3> QED BY <2>1, <2>4, <2>6, <3>1 DEF Filed
    <2>8. /\ toSender' \in Seq(Letters)
          /\ Cardinality(Acks(toSender')) = Cardinality(Acks(toSender)) + 1
          /\ Verdicts' = Verdicts \cup {Len(toSender) + 1}
      <3>1. "ACK" \in Letters
        BY DEF Letters
      <3> QED BY <1>1, <1>3, <3>1, SaysOne DEF Says
    <2> QED BY <1>3, <2>5, <2>7, <2>8, AcceptedStep
  <1> QED BY <1>2, <1>3 DEF DataPacket

LEMMA ReceiverReadsStep ==
    ASSUME IInv, ReceiverReads
    PROVE  IInv'
  <1> DEFINE p == Head(toReceiver)
  <1>1. /\ Typed /\ NoAbort /\ OneToken /\ LineTyped
        /\ result = "open" /\ toReceiver # <<>> /\ sender' = sender /\ spoilt' = spoilt
    BY DEF IInv, Typed, ReceiverReads
  <1>2. /\ p = toReceiver[1] /\ 1 \in DOMAIN toReceiver /\ 1 \in Nat
        /\ Tail(toReceiver) \in Seq(Kinds \X Nat) /\ Shifted(toReceiver, Tail(toReceiver), 1)
        /\ p[1] \in Sent \cup {"bad"} => 1 \in Tokens
    BY <1>1, HeadRead
  <1>3. toReceiver' = IF p[1] \in {"C", "garbage"} THEN <<>> ELSE Tail(toReceiver)
    BY DEF ReceiverReads
  <1>4. CASE p[1] \in Packets /\ Packet(p)
    <2>1. p[1] \in Sent /\ toReceiver' = Tail(toReceiver)
      BY <1>3, <1>4 DEF Packets, Sent
    <2>2. CASE eof_cnt > 1 /\ Says(<<"ACK">>) /\ UNCHANGED receiver
      BY <1>1, <2>1, <2>2, LateStep
    <2>3. CASE Tolerated(MaxWrong, "NAK")
      BY <1>1, <1>2, <2>1, <2>3, ToleratedStep
    <2>4. CASE eof_cnt <= 1 /\ InSequence(p) /\ packets_received = 0 /\ NamePacket
      BY <1>1, <1>4, <2>1, <2>4, NamePacketStep
    <2>5. CASE eof_cnt <= 1 /\ InSequence(p) /\ packets_received > 0 /\ DataPacket(p[2])
      BY <1>1, <1>4, <2>1, <2>5, DataPacketStep
    <2> QED BY <1>4, <2>2, <2>3, <2>4, <2>5 DEF Packet
  <1>5. CASE p[1] = "bad" /\ Tolerated(MaxWrong, "NAK")
    BY <1>1, <1>2, <1>3, <1>5, ToleratedStep
  <1>6. CASE p[1] = "EOT" /\ EndOfTransmission
    BY <1>1, <1>3, <1>6, EOTStep
  <1>7. CASE p[1] = "CA" /\ Ends("ACK")
    <2>1. at = "failed"
      BY <1>1, <1>2, <1>7 DEF NoAbort
    <2> QED BY <1>1, <1>2, <1>3, <1>7, <2>1, EndsStep
  <1>8. CASE p[1] = "a" /\ Ends("CA")
    <2>1. ~(spoilt = 0 /\ at # "failed")
      BY <1>1, <1>2, <1>8 DEF OneToken
    <2> QED BY <1>1, <1>2, <1>3, <1>8, <2>1, EndsStep
  <1>9. CASE p[1] \in {"C", "garbage"} /\ NoPacket
    <2>1. /\ toReceiver' = <<>> /\ toReceiver' \in Seq(Kinds \X Nat)
          /\ Shifted(toReceiver, toReceiver', Len(toReceiver)) /\ Len(toReceiver) \in Nat
      BY <1>1, <1>3, <1>9, Stays, EmptySeq DEF LineTyped
    <2> QED BY <1>1, <1>9, <2>1, NoPacketStep
  <1> QED BY <1>4, <1>5, <1>6, <1>7, <1>8, <1>9 DEF ReceiverReads

LEMMA ReceiverTimesOutStep ==
    ASSUME IInv, ReceiverTimesOut
    PROVE  IInv'
  <1>1. /\ result = "open" /\ NoPacket /\ toReceiver' = toReceiver
        /\ sender' = sender /\ spoilt' = spoilt
    BY DEF ReceiverTimesOut
  <1>2. toReceiver' \in Seq(Kinds \X Nat) /\ Shifted(toReceiver, toReceiver', 0) /\ 0 \in Nat
    BY <1>1, Stays DEF IInv, Typed, LineTyped
  <1> QED BY <1>1, <1>2, NoPacketStep

---------------------------------------------------------------------------
(* The line.                                                               *)

LEMMA Balance ==
    ASSUME NEW p \in Nat, NEW a \in Nat, NEW n \in Nat, NEW r \in Nat, NEW k \in Nat,
           NEW l \in Nat, p + a <= r + k, n + k <= a + l
    PROVE  p + n <= r + l
  OBVIOUS

(* Answers that are lost do no harm, and one that is misread adds no more  *)
(* than one acknowledgement.                                               *)
LEMMA AnswersChange ==
    ASSUME IInv, toReceiver' = toReceiver, sender' = sender, receiver' = receiver,
           spoilt' \in Nat, spoilt <= spoilt', toSender' \in Seq(Letters),
           Cardinality(Acks(toSender')) + spoilt <= Cardinality(Acks(toSender)) + spoilt',
           spoilt' = 0 =>
             /\ Verdicts = {} => Verdicts' = {}
             /\ (\A i, j \in Verdicts : i = j) => \A i, j \in Verdicts' : i = j
             /\ Acks(toSender) = {} => Acks(toSender') = {}
    PROVE  IInv'
  <1>1. /\ Typed /\ Credit /\ Ordered /\ Filed /\ NoAbort /\ OneToken
        /\ SenderTyped /\ LineTyped /\ ReceiverTyped
    BY DEF IInv, Typed
  <1>2. /\ at' = at /\ sizeFile' = sizeFile /\ blkNumber' = blkNumber
        /\ result' = result /\ packets_received' = packets_received /\ eof_cnt' = eof_cnt
        /\ file' = file
    BY DEF sender, receiver
  <1>3. /\ Pos \in Nat /\ packets_received \in Nat /\ spoilt \in Nat
        /\ Cardinality(Acks(toSender)) \in Nat /\ Cardinality(Acks(toSender')) \in Nat
    BY <1>1, Places, AcksFinite DEF LineTyped
  <1>4. Pos' = Pos /\ Pos' \in Nat /\ Pos <= Pos' /\ SenderTyped'
    BY <1>1, <1>2, <1>3 DEF Pos, SenderTyped
  <1>5. Ordered' /\ \A i \in Receiving' : Numbered(toReceiver'[i], sizeFile')
    <2>1. Shifted(toReceiver, toReceiver', 0) /\ 0 \in Nat
      BY <1>1, Stays DEF LineTyped
    <2>2. packets_received' \in Nat /\ packets_received <= packets_received'
      BY <1>2, <1>3
    <2> QED BY <1>1, <1>2, <1>4, <2>1, <2>2, LineShrinks
  <1>6. LineTyped' /\ ReceiverTyped' /\ Filed'
    BY <1>1, <1>2, <1>5, FiledStays, ReceiverTypedStays DEF LineTyped
  <1>7. Credit'
    <2>1. ASSUME eof_cnt < 2, at # "failed"
          PROVE  Pos + Cardinality(Acks(toSender')) <= packets_received + spoilt'
      <3>1. Pos + Cardinality(Acks(toSender)) <= packets_received + spoilt
        BY <1>1, <2>1 DEF Credit
      <3> QED BY <1>3, <3>1, Balance
    <2>2. spoilt' <= 1 /\ at \in {"greeting", "name", "afterName", "block"} =>
            packets_received <= Pos + 1
      BY <1>1, <1>3 DEF Credit
    <2> QED BY <1>2, <1>4, <2>1, <2>2 DEF Credit, Acks
  <1>8. NoAbort'
    BY <1>1, <1>2 DEF NoAbort
  <1>9. OneToken'
    <2> SUFFICES ASSUME spoilt' = 0, at # "failed" PROVE OneToken'
      BY <1>2 DEF OneToken
    <2>1. spoilt = 0 /\ Tokens' = Tokens /\ Receiving' = Receiving
      BY <1>3 DEF Tokens, Receiving
    <2>2. /\ \A i \in DOMAIN toReceiver : toReceiver[i][1] # "a"
          /\ at # "sent" => Tokens = {} \/ Verdicts = {}
          /\ \A i, j \in Tokens : i = j
          /\ at # "sent" => \A i, j \in Verdicts : i = j
          /\ at \in {"greeting", "afterName", "afterEOT", "sent"} => Tokens = {}
          /\ at \in {"greeting", "afterName", "afterEOT"} => Verdicts = {}
          /\ \A i \in Receiving : toReceiver[i][1] = at
          /\ at = "EOT" /\ Acks(toSender) # {} => eof_cnt = 2
          /\ at \in {"afterEOT", "empty", "sent"} => eof_cnt = 2
          /\ at = "empty" /\ result = "failed" => Verdicts = {}
          /\ at = "sent" => result # "failed"
      BY <1>1, <2>1 DEF OneToken
    <2> QED BY <1>2, <2>1, <2>2 DEF OneToken
  <1> QED BY <1>4, <1>5, <1>6, <1>7, <1>8, <1>9 DEF IInv, Typed

LEMMA LoseStep ==
    ASSUME IInv, Lose
    PROVE  IInv'
  <1>1. /\ Typed /\ Credit /\ Filed /\ OneToken
        /\ SenderTyped /\ LineTyped /\ ReceiverTyped
    BY DEF IInv, Typed
  <1>2. /\ sender' = sender /\ receiver' = receiver /\ spoilt' = spoilt
    BY DEF Lose, sender, receiver
  <1>3. /\ at' = at /\ sizeFile' = sizeFile /\ result' = result /\ file' = file
        /\ packets_received' = packets_received /\ eof_cnt' = eof_cnt
    BY <1>2 DEF sender, receiver
  <1>4. /\ packets_received \in Nat /\ spoilt \in Nat /\ eof_cnt \in 0 .. 2
        /\ Cardinality(Acks(toSender)) \in Nat
    BY <1>1, AcksFinite DEF ReceiverTyped, LineTyped
  <1>5. spoilt' \in Nat /\ spoilt <= spoilt'
    BY <1>2, <1>4
  <1>6. CASE result = "open" /\ toReceiver # <<>> /\ toReceiver' = Tail(toReceiver) /\ toSender' = toSender
    <2>1. Shifted(toReceiver, toReceiver', 1) /\ toReceiver' \in Seq(Kinds \X Nat) /\ 1 \in Nat
      BY <1>1, <1>6, HeadRead
    <2>2. eof_cnt' \in 0 .. 2 /\ eof_cnt <= eof_cnt' /\ toSender' \in Seq(Letters)
      BY <1>1, <1>3, <1>4, <1>6 DEF LineTyped
    <2>3. LineTyped' /\ Ordered'
      BY <1>2, <1>3, <2>1, <2>2, LineLeft
    <2>4. ReceiverTyped' /\ Filed'
      BY <1>1, <1>2, <1>3, <1>5, FiledStays, ReceiverTypedStays
    <2>5. eof_cnt' < 2 /\ at # "failed" =>
            Cardinality(Acks(toSender')) + packets_received <=
              Cardinality(Acks(toSender)) + packets_received'
      BY <1>3, <1>4, <1>6
    <2>6. spoilt <= 1 /\ at \in {"greeting", "name", "afterName", "block"} =>
            packets_received' <= Pos + 1
      BY <1>1, <1>3 DEF Credit
    <2>7. /\ Verdicts' = Verdicts /\ Acks(toSender') = Acks(toSender)
          /\ result' # "failed"
      BY <1>3, <1>6 DEF Verdicts, Acks
    <2> QED BY <1>2, <2>1, <2>2, <2>3, <2>4, <2>5, <2>6, <2>7, ReceiverKeeps
  <1>7. CASE toSender # <<>> /\ toSender' = Tail(toSender) /\ toReceiver' = toReceiver
    <2>1. /\ Shifted(toSender, toSender', 1) /\ toSender' \in Seq(Letters)
          /\ Len(toSender) \in Nat /\ DOMAIN toSender = 1 .. Len(toSender)
      BY <1>1, <1>7, TailShifts DEF LineTyped
    <2>2. \A i \in DOMAIN toSender' :
            i \in Nat /\ i + 1 \in DOMAIN toSender /\ toSender'[i] = toSender[i + 1]
      BY <2>1 DEF Shifted
    <2>3. /\ \A i \in Verdicts' : i \in Nat /\ i + 1 \in Verdicts
          /\ \A i \in Acks(toSender') : i + 1 \in Acks(toSender)
      BY <2>2 DEF Verdicts, Acks
    <2>4. (\A i, j \in Verdicts : i = j) => \A i, j \in Verdicts' : i = j
      <3> SUFFICES ASSUME \A i, j \in Verdicts : i = j, NEW i \in Verdicts', NEW j \in Verdicts'
                   PROVE  i = j
        OBVIOUS
      <3>1. i + 1 = j + 1 /\ i \in Nat /\ j \in Nat
        BY <2>3
      <3> QED BY <3>1
    <2>5. Cardinality(Acks(toSender)) = Cardinality(Acks(toSender')) + (IF Head(toSender) = "ACK" THEN 1 ELSE 0)
      BY <1>1, <1>7, AcksRead DEF LineTyped
    <2>6. Cardinality(Acks(toSender')) \in Nat
      BY <2>1, AcksFinite
    <2>7. Cardinality(Acks(toSender')) + spoilt <= Cardinality(Acks(toSender)) + spoilt'
      BY <1>2, <1>4, <2>5, <2>6
    <2> QED BY <1>2, <1>5, <1>7, <2>1, <2>3, <2>4, <2>7, AnswersChange
  <1> QED BY <1>6, <1>7 DEF Lose

LEMMA GarbleStep ==
    ASSUME IInv, Garble
    PROVE  IInv'
  <1>1. /\ Typed /\ Credit /\ Ordered /\ Filed /\ NoAbort /\ OneToken
        /\ SenderTyped /\ LineTyped /\ ReceiverTyped
    BY DEF IInv, Typed
  <1>2. PICK what \in {"bad", "garbage"} :
          /\ toReceiver # <<>> /\ what = "bad" => toReceiver[1][1] \in Packets
          /\ toReceiver' = [toReceiver EXCEPT ![1] = <<what, 0>>]
    BY DEF Garble
  <1> DEFINE x == <<what, 0>>
  <1>3. x \in Kinds \X Nat /\ x[1] = what /\ x[1] \notin Sent /\ x[1] \notin {"a", "CA"}
    BY DEF Kinds, Sent
  <1>4. toReceiver' = [toReceiver EXCEPT ![1] = x]
    BY <1>2
  <1> HIDE DEF x
  <1>5. /\ toSender' = toSender /\ at' = at /\ sizeFile' = sizeFile /\ blkNumber' = blkNumber
        /\ result' = result /\ packets_received' = packets_received /\ eof_cnt' = eof_cnt
        /\ file' = file /\ spoilt' = spoilt
    BY DEF Garble, sender, receiver
  <1>6. toReceiver # <<>>
    BY DEF Garble
  <1>7. 1 \in 1 .. Len(toReceiver) /\ DOMAIN toReceiver = 1 .. Len(toReceiver)
    BY <1>1, <1>6, TailShifts DEF LineTyped
  <1>8. /\ toReceiver' \in Seq(Kinds \X Nat)
        /\ \A i \in 1 .. Len(toReceiver) : toReceiver'[i] = IF i = 1 THEN x ELSE toReceiver[i]
        /\ DOMAIN toReceiver' = DOMAIN toReceiver
    BY <1>1, <1>3, <1>4, <1>7, ExceptSeq DEF LineTyped
  <1>9. \A i \in DOMAIN toReceiver' :
           \/ i \in DOMAIN toReceiver /\ toReceiver'[i] = toReceiver[i]
           \/ i = 1 /\ toReceiver'[i] = x
    BY <1>7, <1>8
  <1>10. \A i \in Receiving' : i \in Receiving /\ toReceiver'[i] = toReceiver[i]
    BY <1>3, <1>9 DEF Receiving
  <1>11. what = "bad" => 1 \in Tokens
    BY <1>2, <1>7 DEF Tokens, Packets, Sent
  <1>12. \A i \in Tokens' : i \in Tokens
    <2>1. \A i \in DOMAIN toReceiver' : toReceiver'[i] = x /\ toReceiver'[i][1] \in Sent \cup {"bad"}
                                          => what = "bad"
      BY <1>3
    <2> QED BY <1>9, <1>11, <2>1 DEF Tokens
  <1>13. Pos' = Pos /\ Acks(toSender') = Acks(toSender) /\ Verdicts' = Verdicts /\ Blocks' = Blocks
    BY <1>5 DEF Pos, Acks, Verdicts, Blocks
  <1>14. SenderTyped' /\ ReceiverTyped' /\ Filed' /\ Credit'
    BY <1>1, <1>5, <1>13 DEF SenderTyped, ReceiverTyped, Filed, Credit
  <1>15. LineTyped'
    BY <1>1, <1>5, <1>8, <1>10 DEF LineTyped
  <1>16. Ordered'
    BY <1>1, <1>5, <1>10, <1>13 DEF Ordered
  <1>17. NoAbort'
    BY <1>1, <1>3, <1>5, <1>9 DEF NoAbort
  <1>18. OneToken'
    <2> SUFFICES ASSUME spoilt = 0, at # "failed" PROVE OneToken'
      BY <1>5 DEF OneToken
    <2>1. /\ \A i \in DOMAIN toReceiver' : toReceiver'[i][1] # "a"
          /\ \A i \in Receiving' : toReceiver'[i][1] = at
      BY <1>1, <1>3, <1>9, <1>10 DEF OneToken
    <2>2. /\ at # "sent" => Tokens' = {} \/ Verdicts = {}
          /\ \A i, j \in Tokens' : i = j
          /\ at \in {"greeting", "afterName", "afterEOT", "sent"} => Tokens' = {}
      BY <1>1, <1>12 DEF OneToken
    <2> QED BY <1>1, <1>5, <1>13, <2>1, <2>2 DEF OneToken
  <1> QED BY <1>14, <1>15, <1>16, <1>17, <1>18 DEF IInv, Typed

LEMMA SpoilStep ==
    ASSUME IInv, Spoil
    PROVE  IInv'
  <1>1. /\ Typed /\ Credit /\ Ordered /\ Filed /\ NoAbort
        /\ SenderTyped /\ LineTyped /\ ReceiverTyped
    BY DEF IInv, Typed
  <1>2. sender' = sender /\ receiver' = receiver /\ spoilt' = spoilt + 1
    BY DEF Spoil
  <1>3. /\ at' = at /\ sizeFile' = sizeFile /\ blkNumber' = blkNumber
        /\ result' = result /\ packets_received' = packets_received /\ eof_cnt' = eof_cnt
    BY <1>2 DEF sender, receiver
  <1>4. /\ packets_received \in Nat /\ spoilt \in Nat /\ Pos \in Nat
        /\ spoilt' \in Nat /\ spoilt <= spoilt' /\ spoilt' # 0
        /\ Cardinality(Acks(toSender)) \in Nat
    BY <1>1, <1>2, Places, AcksFinite DEF LineTyped
  <1>5. CASE toReceiver' = Append(toReceiver, <<"a", 0>>) /\ toSender' = toSender
    <2> DEFINE x == <<"a", 0>>
    <2>1. x \in Kinds \X Nat /\ x[1] \notin Sent /\ x[1] # "CA"
      BY DEF Kinds, Sent
    <2>2. toReceiver' = Append(toReceiver, x)
      BY <1>5
    <2> HIDE DEF x
    <2>3. Pos' = Pos /\ Pos' \in Nat /\ Pos <= Pos' /\ SenderTyped'
      BY <1>1, <1>3, <1>4 DEF Pos, SenderTyped
    <2>4. Ordered' /\ \A i \in Receiving' : Numbered(toReceiver'[i], sizeFile')
      BY <1>1, <1>3, <1>4, <2>1, <2>2, <2>3, LineGrows
    <2>5. LineTyped'
      BY <1>1, <1>5, <2>1, <2>2, <2>4, Grown DEF LineTyped
    <2>6. ReceiverTyped' /\ Filed'
      BY <1>1, <1>2, <1>3, <1>4, FiledStays, ReceiverTypedStays
    <2>7. Credit'
      <3>1. eof_cnt < 2 /\ at # "failed" =>
              Pos + Cardinality(Acks(toSender)) <= packets_received + spoilt'
        BY <1>1, <1>2, <1>4 DEF Credit
      <3>2. spoilt' <= 1 /\ at \in {"greeting", "name", "afterName", "block"} =>
              packets_received <= Pos + 1
        BY <1>1, <1>2, <1>4 DEF Credit
      <3> QED BY <1>3, <1>5, <2>3, <3>1, <3>2 DEF Credit, Acks
    <2>8. NoAbort'
      BY <1>1, <1>3, <2>1, <2>2, Grown DEF NoAbort
    <2>9. OneToken'
      BY <1>4 DEF OneToken
    <2> QED BY <2>3, <2>4, <2>5, <2>6, <2>7, <2>8, <2>9 DEF IInv, Typed
  <1>6. CASE toSender' = Append(toSender, "a") /\ toReceiver' = toReceiver
    <2>1. "a" \in Letters /\ "a" # "ACK"
      BY DEF Letters
    <2>2. /\ toSender' \in Seq(Letters)
          /\ Cardinality(Acks(toSender')) =
               Cardinality(Acks(toSender)) + (IF "a" = "ACK" THEN 1 ELSE 0)
      BY <1>1, <1>6, <2>1, AppendAdds, AcksSaid DEF LineTyped
    <2>3. Cardinality(Acks(toSender')) + spoilt <= Cardinality(Acks(toSender)) + spoilt'
      BY <1>2, <1>4, <2>2
    <2> QED BY <1>2, <1>4, <1>6, <2>2, <2>3, AnswersChange
  <1>7. CASE /\ toReceiver' = toReceiver /\ toSender # <<>>
             /\ \E answer \in Answers : toSender' = [toSender EXCEPT ![1] = answer]
    <2>1. PICK answer \in Answers : toSender' = [toSender EXCEPT ![1] = answer]
      BY <1>7
    <2>2. answer \in Letters
      BY DEF Letters, Answers
    <2>3. /\ toSender' \in Seq(Letters)
          /\ Cardinality(Acks(toSender')) <= Cardinality(Acks(toSender)) + 1
      BY <1>1, <1>7, <2>1, <2>2, AcksMisread DEF LineTyped
    <2>4. Cardinality(Acks(toSender')) \in Nat
      BY <2>3, AcksFinite
    <2>5. Cardinality(Acks(toSender')) + spoilt <= Cardinality(Acks(toSender)) + spoilt'
      BY <1>2, <1>4, <2>3, <2>4
    <2> QED BY <1>2, <1>4, <1>7, <2>3, <2>5, AnswersChange
  <1> QED BY <1>5, <1>6, <1>7 DEF Spoil

---------------------------------------------------------------------------

LEMMA InvInit == Init => IInv
  <1> SUFFICES ASSUME Init PROVE IInv
    OBVIOUS
  <1> DEFINE x == <<"C", 0>>
  <1>1. /\ toReceiver = <<x>> /\ toSender = <<>> /\ at = "greeting" /\ sizeFile \in Nat
        /\ blkNumber = 0 /\ result = "open" /\ packets_received = 0 /\ eof_cnt = 0
        /\ file = <<>> /\ spoilt = 0
    BY SpoiltAssumption DEF Init
  <1>2. x \in Kinds \X Nat /\ x[1] = "C" /\ x[1] \notin Sent \cup {"bad"}
    BY DEF Kinds, Sent
  <1> HIDE DEF x
  <1>3. toReceiver \in Seq(Kinds \X Nat) /\ \A i \in DOMAIN toReceiver : toReceiver[i] = x
    BY <1>1, <1>2
  <1>4. Receiving = {} /\ Tokens = {}
    BY <1>2, <1>3 DEF Receiving, Tokens
  <1>5. DOMAIN toSender = {} /\ toSender \in Seq(Letters) /\ file \in Seq(Nat) /\ Len(file) = 0
    BY <1>1, EmptySeq
  <1>6. Verdicts = {} /\ Acks(toSender) = {} /\ Cardinality(Acks(toSender)) = 0
    BY <1>5, FS_EmptySet DEF Verdicts, Acks
  <1>7. Typed
    BY <1>1, <1>3, <1>4, <1>5 DEF Typed, SenderTyped, LineTyped, ReceiverTyped, Stages
  <1>8. Credit /\ Ordered
    BY <1>1, <1>4, <1>6 DEF Credit, Ordered, Pos
  <1>9. Filed
    BY <1>1, <1>5 DEF Filed, Blocks
  <1>10. NoAbort /\ OneToken
    BY <1>1, <1>2, <1>3, <1>4, <1>6 DEF NoAbort, OneToken
  <1> QED BY <1>7, <1>8, <1>9, <1>10 DEF IInv

LEMMA InvStep == IInv /\ [Next]_vars => IInv'
  <1> SUFFICES ASSUME IInv, [Next]_vars PROVE IInv'
    OBVIOUS
  <1>1. CASE SenderReads
    BY <1>1, SenderReadsStep
  <1>2. CASE SenderTimesOut
    BY <1>2, SenderTimesOutStep
  <1>3. CASE ReceiverReads
    BY <1>3, ReceiverReadsStep
  <1>4. CASE ReceiverTimesOut
    BY <1>4, ReceiverTimesOutStep
  <1>5. CASE Lose
    BY <1>5, LoseStep
  <1>6. CASE Garble
    BY <1>6, GarbleStep
  <1>7. CASE Spoil
    BY <1>7, SpoilStep
  <1>8. CASE UNCHANGED vars
    <2>1. /\ toReceiver' = toReceiver /\ sender' = sender /\ receiver' = receiver
          /\ toSender' = toSender /\ spoilt' = spoilt
      BY <1>8 DEF vars
    <2>2. /\ spoilt' \in Nat /\ spoilt <= spoilt' /\ toSender' \in Seq(Letters)
          /\ Cardinality(Acks(toSender')) + spoilt <= Cardinality(Acks(toSender)) + spoilt'
          /\ Verdicts' = Verdicts /\ Acks(toSender') = Acks(toSender)
      <3>1. /\ spoilt \in Nat /\ toSender \in Seq(Letters) /\ Cardinality(Acks(toSender)) \in Nat
        BY AcksFinite DEF IInv, Typed, LineTyped, ReceiverTyped
      <3>2. Verdicts' = Verdicts /\ Acks(toSender') = Acks(toSender)
        BY <2>1 DEF Verdicts, Acks
      <3> QED BY <2>1, <3>1, <3>2
    <2> QED BY <2>1, <2>2, AnswersChange
  <1> QED BY <1>1, <1>2, <1>3, <1>4, <1>5, <1>6, <1>7, <1>8 DEF Next, SenderStep, ReceiverStep

LEMMA InvDelivers == IInv => Delivered
  <1> SUFFICES ASSUME IInv PROVE Delivered
    OBVIOUS
  <1>1. Filed /\ OneToken /\ SenderTyped /\ ReceiverTyped
    BY DEF IInv, Typed
  <1>2. ASSUME result = "received" \/ at = "sent", spoilt = 0
        PROVE  Len(file) = sizeFile /\ result # "failed"
    <2>1. result # "failed" /\ eof_cnt = 2
      BY <1>1, <1>2 DEF Filed, OneToken
    <2>2. packets_received > sizeFile /\ Len(file) = Blocks
      BY <1>1, <1>2, <2>1 DEF Filed
    <2>3. packets_received \in Nat /\ sizeFile \in Nat
      BY <1>1 DEF SenderTyped, ReceiverTyped
    <2> QED BY <2>1, <2>2, <2>3 DEF Blocks
  <1> QED BY <1>1, <1>2 DEF Filed, Delivered

(* A file that is sent arrives: the receiver has its blocks, in order and  *)
(* none twice, also if one answer was misread; and if none was, success at *)
(* either end means that the file is whole and stays, whatever the line    *)
(* lost or garbled.                                                        *)
THEOREM FileIsDelivered == Spec => []Delivered
  <1>1. Spec => []IInv
    BY InvInit, InvStep, PTL DEF Spec
  <1> QED BY <1>1, InvDelivers, PTL
=============================================================================
