------------------------------ MODULE YModem ------------------------------
(***************************************************************************)
(* A file sent with ymodem.send to ymodem.recv                             *)
(* (micropython/esp32/modymodem.c), one badge at each end of a serial line *)
(* that loses and garbles what it carries.                                 *)
(*                                                                         *)
(* A packet is one item of the line, with the outcome of its checks: a     *)
(* packet that fails them is "bad", one whose start is not recognized is   *)
(* "garbage".  The pair CA CA is the one item "CA".                        *)
(***************************************************************************)
EXTENDS Integers, Sequences

CONSTANTS
    Sizes,          \* the sizes of files that are sent, in blocks
    MaxSize,        \* the largest file that is taken (1000000 bytes)
    SeqMod,         \* packet numbers have 8 bits
    MaxWrong,       \* wrong packets in a row that are tolerated (5)
    MaxErrors,      \* timeouts in a row that are tolerated (45)
    MaxGreetings,   \* times the sender greets (45)
    MaxTries,       \* seconds it waits for an answer (10)
    MaxSpoilt       \* bound: answers misread, or "a" typed at a keyboard

ASSUME LimitsAssumption ==
    /\ SeqMod \in Nat \ {0, 1}
    /\ {MaxSize, MaxWrong, MaxErrors, MaxGreetings, MaxTries} \subseteq Nat
    /\ MaxWrong <= MaxErrors
ASSUME SpoiltAssumption == Sizes \subseteq Nat /\ MaxSpoilt \in Nat

VARIABLES
    toReceiver, toSender,   \* what is on the line
    \* Ymodem_Transmit:
    at,             \* what the sender has sent last and waits for an answer to
    sizeFile,
    blkNumber,
    tries,
    \* Ymodem_Receive:
    result,         \* "open" until it returns
    packets_received, errors, eof_cnt,
    file,           \* the blocks in the file
    spoilt          \* history: how often an answer was misread or "a" typed

sender   == <<at, sizeFile, blkNumber, tries>>
receiver == <<result, packets_received, errors, eof_cnt, file>>
vars == <<toReceiver, toSender, sender, receiver, spoilt>>

Packets == {"name", "block", "empty"}
Answers == {"ACK", "NAK", "C", "CA"}
SeqNo(p) == p[2] % SeqMod

Init ==
    /\ toReceiver = << <<"C", 0>> >> /\ toSender = <<>>
    /\ at = "greeting" /\ sizeFile \in Sizes /\ blkNumber = 0 /\ tries = 0
    /\ result = "open" /\ packets_received = 0 /\ errors = 0 /\ eof_cnt = 0
    /\ file = <<>> /\ spoilt = 0

---------------------------------------------------------------------------
(* The sender.                                                             *)

Transmits(s, b) ==
    /\ at' = s /\ blkNumber' = b /\ tries' = 0
    /\ toReceiver' = IF s \in Packets \cup {"EOT"} THEN Append(toReceiver, <<s, b>>)
                     ELSE toReceiver

(* After the last block, or the name of an empty file, comes EOT. *)
NextBlock == IF blkNumber < sizeFile THEN Transmits("block", blkNumber + 1)
             ELSE Transmits("EOT", 0)

Awaited == IF at \in {"greeting", "afterName", "afterEOT"} THEN "C" ELSE "ACK"

Proceed ==
    \/ at = "greeting"               /\ Transmits("name", 0)
    \/ at = "name"                   /\ Transmits("afterName", 0)
    \/ at \in {"afterName", "block"} /\ NextBlock
    \/ at = "EOT"                    /\ Transmits("afterEOT", 0)
    \/ at = "afterEOT"               /\ Transmits("empty", 0)
    \/ at = "empty"                  /\ Transmits("sent", 0)

GivesUp ==
    /\ at' = "failed" /\ toReceiver' = Append(toReceiver, <<"CA", 0>>)
    /\ UNCHANGED <<blkNumber, tries>>

Sending == at \notin {"sent", "failed"}

(* Ymodem_WaitResponse and what Ymodem_Transmit makes of it; a packet that *)
(* is not acknowledged is sent again however often it was.                 *)
SenderReads ==
    LET answer  == Head(toSender)
        tooLate == at = "greeting" /\ tries >= MaxGreetings
        again   == answer = "NAK" /\ at \in Packets \cup {"EOT"} IN
    /\ Sending /\ toSender # <<>>
    /\ toSender' = Tail(toSender)
    /\ \/ answer = Awaited /\ ~tooLate /\ Proceed
       \/ again /\ Transmits(at, blkNumber)
       \/ (answer # Awaited \/ tooLate) /\ ~again /\ GivesUp
    /\ UNCHANGED <<sizeFile, receiver, spoilt>>

(* Mutant: the wait for an answer does not count. *)
SenderWaitsOn ==
    /\ Sending /\ toSender = <<>>
    /\ \/ /\ at = "greeting" /\ tries <= MaxGreetings
          /\ tries' = tries + 1 /\ toReceiver' = Append(toReceiver, <<"C", 0>>)
          /\ UNCHANGED <<at, blkNumber>>
       \/ at # "greeting" /\ UNCHANGED <<toReceiver, at, blkNumber, tries>>
       \/ at = "greeting" /\ tries > MaxGreetings /\ GivesUp
    /\ UNCHANGED <<sizeFile, toSender, receiver, spoilt>>

(* A second without an answer: the greeting is repeated, the wait for an   *)
(* answer goes on.                                                         *)
SenderTimesOut ==
    /\ Sending /\ toSender = <<>>
    /\ \/ /\ at = "greeting" /\ tries < MaxGreetings
          /\ tries' = tries + 1 /\ toReceiver' = Append(toReceiver, <<"C", 0>>)
          /\ UNCHANGED <<at, blkNumber>>
       \/ /\ at # "greeting" /\ tries + 1 < MaxTries
          /\ tries' = tries + 1
          /\ UNCHANGED <<toReceiver, at, blkNumber>>
       \/ at = "greeting" /\ tries >= MaxGreetings /\ GivesUp
       \/ at # "greeting" /\ tries + 1 >= MaxTries /\ GivesUp
    /\ UNCHANGED <<sizeFile, toSender, receiver, spoilt>>

---------------------------------------------------------------------------
(* The receiver.                                                           *)

Says(answers) == toSender' = toSender \o answers

(* ymodem_recv removes the file if Ymodem_Receive returns an error. *)
Ends(answer) ==
    /\ Says(<<answer>>)
    /\ result' = "failed" /\ file' = <<>>
    /\ UNCHANGED <<packets_received, errors, eof_cnt>>

Tolerated(limit, answer) ==
    \/ /\ errors < limit
       /\ errors' = errors + 1 /\ Says(<<answer>>)
       /\ UNCHANGED <<result, packets_received, eof_cnt, file>>
    \/ errors >= limit /\ Ends("CA")

(* Nothing came for a second, or nothing a packet starts with.  After the  *)
(* second EOT that is the end of the file, however much of it has come;    *)
(* without a name its size is 0, which is no success.                      *)
NoPacket ==
    \/ /\ eof_cnt > 1
       /\ result' = IF packets_received > 0 THEN "received" ELSE "failed"
       /\ UNCHANGED <<toSender, packets_received, errors, eof_cnt, file>>
    \/ eof_cnt <= 1 /\ Tolerated(MaxErrors, "C")

EndOfTransmission ==
    /\ eof_cnt' = IF eof_cnt = 0 THEN 1 ELSE 2
    /\ Says(IF eof_cnt = 0 THEN <<"NAK">> ELSE <<"ACK", "C">>)
    /\ UNCHANGED <<result, packets_received, errors, file>>

(* The first packet in sequence is the name: the empty one could be first   *)
(* only after several misread answers.                                     *)
NamePacket ==
    \/ /\ sizeFile \in 1..MaxSize
       /\ errors' = 0 /\ packets_received' = 1 /\ Says(<<"ACK", "C">>)
       /\ UNCHANGED <<result, eof_cnt, file>>
    \/ sizeFile \notin 1..MaxSize /\ Ends("CA")

(* What follows the last block of the file is not written; fwrite may fail. *)
DataPacket(b) ==
    LET complete == Len(file) = sizeFile IN
    \/ /\ file' = IF complete THEN file ELSE Append(file, b)
       /\ errors' = 0 /\ packets_received' = packets_received + 1 /\ Says(<<"ACK">>)
       /\ UNCHANGED <<result, eof_cnt>>
    \/ ~complete /\ Ends("CA")

(* Mutant: the number of the packet is not compared. *)
AnyNumber(p) == TRUE

InSequence(p) == SeqNo(p) = packets_received % SeqMod

Packet(p) ==
    \/ eof_cnt > 1 /\ Says(<<"ACK">>) /\ UNCHANGED receiver
    \/ eof_cnt <= 1 /\ ~InSequence(p) /\ Tolerated(MaxWrong, "NAK")
    \/ eof_cnt <= 1 /\ InSequence(p) /\ packets_received = 0 /\ NamePacket
    \/ eof_cnt <= 1 /\ InSequence(p) /\ packets_received > 0 /\ DataPacket(p[2])

(* A first byte that is not recognized takes all that waits behind it. *)
ReceiverReads ==
    LET p == Head(toReceiver) IN
    /\ result = "open" /\ toReceiver # <<>>
    /\ toReceiver' = IF p[1] \in {"C", "garbage"} THEN <<>> ELSE Tail(toReceiver)
    /\ \/ p[1] \in Packets /\ Packet(p)
       \/ p[1] = "bad" /\ Tolerated(MaxWrong, "NAK")
       \/ p[1] = "EOT" /\ EndOfTransmission
       \/ p[1] = "CA" /\ Ends("ACK")
       \/ p[1] = "a" /\ Ends("CA")
       \/ p[1] \in {"C", "garbage"} /\ NoPacket
    /\ UNCHANGED <<sender, spoilt>>

ReceiverTimesOut ==
    /\ result = "open" /\ toReceiver = <<>>
    /\ NoPacket
    /\ UNCHANGED <<toReceiver, sender, spoilt>>

---------------------------------------------------------------------------
(* The line, and the people at its ends.                                   *)

Lose ==
    \/ /\ result = "open" /\ toReceiver # <<>>
       /\ toReceiver' = Tail(toReceiver)
       /\ UNCHANGED <<toSender, sender, receiver, spoilt>>
    \/ /\ Sending /\ toSender # <<>>
       /\ toSender' = Tail(toSender)
       /\ UNCHANGED <<toReceiver, sender, receiver, spoilt>>

Garble ==
    /\ result = "open" /\ toReceiver # <<>> /\ toReceiver[1][1] # "garbage"
    /\ \E what \in {"bad", "garbage"} :
         /\ what = "bad" => toReceiver[1][1] \in Packets
         /\ toReceiver' = [toReceiver EXCEPT ![1] = <<what, 0>>]
    /\ UNCHANGED <<toSender, sender, receiver, spoilt>>

Spoil ==
    /\ spoilt < MaxSpoilt /\ spoilt' = spoilt + 1
    /\ \/ /\ result = "open"
          /\ toReceiver' = Append(toReceiver, <<"a", 0>>)
          /\ UNCHANGED toSender
       \/ /\ Sending
          /\ toSender' = Append(toSender, "a")
          /\ UNCHANGED toReceiver
       \/ /\ Sending /\ toSender # <<>>
          /\ \E answer \in Answers \ {Head(toSender)} :
               toSender' = [toSender EXCEPT ![1] = answer]
          /\ UNCHANGED toReceiver
    /\ UNCHANGED <<sender, receiver>>

SenderStep == SenderReads \/ SenderTimesOut
ReceiverStep == ReceiverReads \/ ReceiverTimesOut
Next == SenderStep \/ ReceiverStep \/ Lose \/ Garble \/ Spoil

(* mp_hal_stdin_rx_chr returns a byte or, after a second, none. *)
Fairness == WF_vars(SenderStep) /\ WF_vars(ReceiverStep)
Spec == Init /\ [][Next]_vars /\ Fairness

---------------------------------------------------------------------------
(* The file holds the blocks that were sent, in their order and none twice, *)
(* whatever the line loses and garbles and even if it changes one answer    *)
(* into another; and unless an answer was changed or somebody aborted, when *)
(* either end reports success the file is whole and stays.                  *)
Delivered ==
    /\ spoilt <= 1 => \A i \in 1..Len(file) : file[i] = i
    /\ (result = "received" \/ at = "sent") /\ spoilt = 0
         => Len(file) = sizeFile /\ result # "failed"

(* Both ends return, whatever the line loses or garbles. *)
BothEnd == <>(~Sending /\ result # "open")

=============================================================================
