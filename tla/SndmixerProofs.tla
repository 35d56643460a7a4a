---------------------------- MODULE SndmixerProofs ----------------------------
(***************************************************************************)
(* Proofs about Sndmixer for every number of threads, channels and slots.  *)
(***************************************************************************)
EXTENDS Sndmixer, TLAPS

-----------------------------------------------------------------------------
(* What the operators on channel records return                            *)

LEMMA CleanedUpType ==
  ASSUME NEW r \in ChannelRecords
  PROVE  CleanedUp(r) \in ChannelRecords
BY DEF CleanedUp, ChannelRecords

LEMMA InstalledType ==
  ASSUME NEW r \in ChannelRecords, NEW cmd \in Commands
  PROVE  Installed(r, cmd) \in ChannelRecords
BY DEF Installed, ChannelRecords, Commands

LEMMA UpdatedType ==
  ASSUME NEW r \in ChannelRecords, NEW cmd \in Commands, cmd.op \in ChannelOps
  PROVE  Updated(r, cmd) \in ChannelRecords
<1>1. CASE cmd.op = "STOP"
  BY <1>1, CleanedUpType DEF Updated
<1>2. CASE cmd.op # "STOP"
  BY <1>2 DEF Updated, ChannelRecords, Commands, ChannelOps, Handle
<1>3. QED
  BY <1>1, <1>2

LEMMA AutoStartedType ==
  ASSUME NEW r \in ChannelRecords
  PROVE  AutoStarted(r) \in ChannelRecords
BY DEF AutoStarted, ChannelRecords

LEMMA CallbackType ==
  ASSUME NEW r \in ChannelRecords
  PROVE  Callback(r) \subseteq Calls
BY DEF Callback, ChannelRecords, Calls

LEMMA HeadTail ==
  ASSUME NEW S, NEW q \in Seq(S), q # <<>>
  PROVE  /\ Head(q) \in S
         /\ Tail(q) \in Seq(S)
         /\ Len(q) \in Nat \ {0}
         /\ Len(Tail(q)) = Len(q) - 1
         /\ \A k \in DOMAIN Tail(q) : k + 1 \in DOMAIN q /\ Tail(q)[k] = q[k + 1]
         /\ 1 \in DOMAIN q /\ Head(q) = q[1]
OBVIOUS

-----------------------------------------------------------------------------
(* Type correctness                                                        *)

USE SndmixerAssumption

LEMMA TypeInit == Init => TypeOK
<1>1. SUFFICES ASSUME Init PROVE TypeOK
  OBVIOUS
<1>2. channel \in [Channels -> ChannelRecords]
  BY <1>1 DEF Init, NewChannel, ChannelRecords
<1>3. 1 \in Channels /\ 1 \in 1 .. ChunkSize
  BY DEF Channels
<1>4. mixer \in [pc: {"beat", "drain", "mix", "refill"}, ch: Channels, sample: 1 .. ChunkSize]
  BY <1>1, <1>3 DEF Init
<1>5. cmd_queue \in Seq(Commands) /\ Len(cmd_queue) <= QueueLen
  BY <1>1 DEF Init
<1>6. /\ beat_sync_count \in 0 .. SubNotes - 1 /\ beat_sync_enabled \in BOOLEAN
      /\ curr_id \in Nat /\ fired \subseteq Calls
  <2>1. beat_sync_count = 0 /\ beat_sync_enabled = FALSE /\ curr_id = 0 /\ fired = {}
    BY <1>1 DEF Init
  <2>2. 0 \in 0 .. SubNotes - 1
    OBVIOUS
  <2>3. {} \subseteq Calls
    OBVIOUS
  <2>4. QED
    BY <2>1, <2>2, <2>3
<1>7. /\ pc \in [Threads -> {"idle", "read", "cas", "send"}] /\ old_id \in [Threads -> Nat]
      /\ request \in [Channels -> {"none", "play", "pause", "sync"}]
      /\ heard \in [Channels -> Nat]
  BY <1>1 DEF Init
<1>8. QED
  BY <1>2, <1>4, <1>5, <1>6, <1>7 DEF TypeOK

(* A panic ends in an initial state, and what holds there.                 *)
LEMMA PanicRestarts == Panic => Init'
BY DEF Panic, Init

LEMMA SendType ==
  ASSUME TypeOK, NEW cmd \in Commands, Send(cmd)
  PROVE  cmd_queue' \in Seq(Commands) /\ Len(cmd_queue') <= QueueLen
BY DEF TypeOK, Send

LEMMA NextChannelType ==
  ASSUME TypeOK, NextChannel
  PROVE  mixer' \in [pc: {"beat", "drain", "mix", "refill"}, ch: Channels, sample: 1 .. ChunkSize]
<1>1. mixer \in [pc: {"beat", "drain", "mix", "refill"}, ch: Channels, sample: 1 .. ChunkSize]
  BY DEF TypeOK
<1>2. CASE mixer.ch < NChannels
  <2>1. mixer.ch + 1 \in Channels
    BY <1>1, <1>2 DEF Channels
  <2>2. mixer' = [mixer EXCEPT !.pc = "mix", !.ch = mixer.ch + 1]
    BY <1>2 DEF NextChannel
  <2>3. QED
    BY <1>1, <2>1, <2>2
<1>3. CASE mixer.ch >= NChannels /\ mixer.sample < ChunkSize
  BY <1>1, <1>3 DEF NextChannel, Channels
<1>4. CASE mixer.ch >= NChannels /\ mixer.sample >= ChunkSize
  BY <1>1, <1>4 DEF NextChannel, Channels
<1>5. QED
  BY <1>1, <1>2, <1>3, <1>4 DEF Channels

LEMMA ClientType ==
  ASSUME TypeOK, NEW t \in Threads, Client(t)
  PROVE  TypeOK'
<1>1. CASE ReadId(t)
  BY <1>1 DEF TypeOK, ReadId, beatVars
<1>2. CASE CasId(t)
  <2>1. curr_id' \in Nat /\ pc' \in [Threads -> {"idle", "read", "cas", "send"}]
    <3>1. curr_id \in Nat /\ old_id[t] \in Nat /\ pc \in [Threads -> {"idle", "read", "cas", "send"}]
      BY DEF TypeOK
    <3>2. \/ curr_id' = old_id[t] + 1 /\ pc' = [pc EXCEPT ![t] = "send"]
          \/ curr_id' = curr_id /\ pc' = [pc EXCEPT ![t] = "read"]
      BY <1>2 DEF CasId
    <3>3. QED
      BY <3>1, <3>2
  <2>2. UNCHANGED <<channel, cmd_queue, old_id, beatVars, mixer, request, heard>> /\ fired' = {}
    BY <1>2 DEF CasId
  <2>3. QED
    BY <2>1, <2>2 DEF TypeOK, beatVars
<1>3. CASE SendQueue(t)
  <2>1. PICK snd \in Sounds, p \in {0, 1} :
          Send([op |-> "QUEUE", id |-> old_id[t] + 1, snd |-> snd, param |-> p])
    BY <1>3 DEF SendQueue
  <2>2. [op |-> "QUEUE", id |-> old_id[t] + 1, snd |-> snd, param |-> p] \in Commands
    BY DEF TypeOK, Commands, OpNames
  <2>3. cmd_queue' \in Seq(Commands) /\ Len(cmd_queue') <= QueueLen
    BY <2>1, <2>2, SendType
  <2>4. QED
    BY <1>3, <2>3 DEF TypeOK, SendQueue, beatVars
<1>4. CASE Post(t)
  <2>1. cmd_queue' \in Seq(Commands) /\ Len(cmd_queue') <= QueueLen
    <3>1. CASE \E op \in Ops \cap ChannelOps : \E i \in Returned \cup {0}, p \in Params(op) :
                 Send([op |-> op, id |-> i, snd |-> NoSound, param |-> p])
      <4>1. PICK op \in Ops \cap ChannelOps : \E i \in Returned \cup {0}, p \in Params(op) :
                 Send([op |-> op, id |-> i, snd |-> NoSound, param |-> p])
        BY <3>1
      <4>2. PICK i \in Returned \cup {0}, p \in Params(op) :
                 Send([op |-> op, id |-> i, snd |-> NoSound, param |-> p])
        BY <4>1
      <4>3. i \in Nat /\ p \in Nat
        <5>1. i \in Nat
          BY DEF Returned, TypeOK
        <5>2. Params(op) \subseteq Nat
          BY DEF Params
        <5>3. QED
          BY <5>1, <5>2
      <4>4. [op |-> op, id |-> i, snd |-> NoSound, param |-> p] \in Commands
        BY <4>3 DEF Commands, OpNames, NoSound
      <4>5. QED
        BY <4>2, <4>4, SendType
    <3>2. CASE \E op \in Ops \cap GlobalOps :
                 Send([op |-> op, id |-> 0, snd |-> NoSound, param |-> 0])
      <4>1. PICK op \in Ops \cap GlobalOps :
                 Send([op |-> op, id |-> 0, snd |-> NoSound, param |-> 0])
        BY <3>2
      <4>2. [op |-> op, id |-> 0, snd |-> NoSound, param |-> 0] \in Commands
        BY DEF Commands, OpNames, NoSound
      <4>3. QED
        BY <4>1, <4>2, SendType
    <3>3. QED
      BY <1>4, <3>1, <3>2 DEF Post
  <2>2. QED
    BY <1>4, <2>1 DEF TypeOK, Post, beatVars, clientVars
<1>5. QED
  BY <1>1, <1>2, <1>3, <1>4 DEF Client

LEMMA HandleType ==
  ASSUME TypeOK, HandleCmd
  PROVE  TypeOK'
<1> DEFINE cmd == Head(cmd_queue)
<1>1. /\ cmd \in Commands
      /\ cmd_queue' \in Seq(Commands) /\ Len(cmd_queue') <= QueueLen
  BY HeadTail DEF TypeOK, HandleCmd
<1>2. ASSUME NEW c \in Channels, NEW r \in ChannelRecords, NEW f \in SUBSET Calls,
             InitSource(c, r, f, cmd)
      PROVE  /\ channel' \in [Channels -> ChannelRecords]
             /\ fired' \subseteq Calls
             /\ request' \in [Channels -> {"none", "play", "pause", "sync"}]
             /\ heard' \in [Channels -> Nat]
  <2>1. [CleanedUp(r) EXCEPT !.volume = 255] \in ChannelRecords
    BY CleanedUpType DEF ChannelRecords
  <2>2. Installed(r, cmd) \in ChannelRecords
    BY <1>1, InstalledType
  <2>3. Callback(r) \subseteq Calls
    BY CallbackType
  <2>4. QED
    <3>1. ASSUME NEW x \in ChannelRecords, channel' = [channel EXCEPT ![c] = x]
          PROVE  channel' \in [Channels -> ChannelRecords]
      BY <3>1 DEF TypeOK
    <3>2. channel' \in [Channels -> ChannelRecords]
      BY <1>2, <2>1, <2>2, <3>1 DEF InitSource
    <3>3. fired' \subseteq Calls
      BY <1>2, <2>3 DEF InitSource
    <3>4. /\ request' \in [Channels -> {"none", "play", "pause", "sync"}]
          /\ heard' \in [Channels -> Nat]
      <4>1. request \in [Channels -> {"none", "play", "pause", "sync"}] /\ heard \in [Channels -> Nat]
        BY DEF TypeOK
      <4>2. \/ UNCHANGED <<request, heard>>
            \/ /\ request' = [request EXCEPT ![c] = "none"]
               /\ heard' = [heard EXCEPT ![c] = 0]
        BY <1>2 DEF InitSource
      <4>3. QED
        BY <4>1, <4>2
    <3>5. QED
      BY <3>2, <3>3, <3>4
<1>3. ASSUME NEW c \in Channels
      PROVE  /\ channel[c] \in ChannelRecords
             /\ CleanedUp(channel[c]) \in ChannelRecords
             /\ Callback(channel[c]) \in SUBSET Calls
  BY CleanedUpType, CallbackType DEF TypeOK
<1>4. CASE HandleQueue(cmd)
  <2>1. /\ channel' \in [Channels -> ChannelRecords]
        /\ fired' \subseteq Calls
        /\ request' \in [Channels -> {"none", "play", "pause", "sync"}]
        /\ heard' \in [Channels -> Nat]
    <3>1. CASE \E c \in Channels : InitSource(c, channel[c], {}, cmd)
      BY <1>2, <1>3, <3>1
    <3>2. CASE \E c \in Channels :
                 InitSource(c, CleanedUp(channel[c]), Callback(channel[c]), cmd)
      BY <1>2, <1>3, <3>2
    <3>3. CASE fired' = {} /\ UNCHANGED <<channel, request, heard>>
      BY <3>3 DEF TypeOK
    <3>4. QED
      BY <1>4, <3>1, <3>2, <3>3 DEF HandleQueue
  <2>2. QED
    BY <1>1, <1>4, <2>1 DEF TypeOK, HandleCmd, HandleQueue, beatVars, clientVars
<1>5. CASE HandleBeatSync(cmd)
  BY <1>1, <1>5 DEF TypeOK, HandleCmd, HandleBeatSync, clientVars
<1>6. CASE HandleAll(cmd)
  <2>1. ASSUME NEW r \in ChannelRecords, NEW b \in BOOLEAN
        PROVE  [r EXCEPT !.paused = b] \in ChannelRecords
    BY DEF ChannelRecords
  <2>2. (cmd.op = "PAUSE_ALL") \in BOOLEAN
    OBVIOUS
  <2>3. \A c \in Channels : [channel[c] EXCEPT !.paused = (cmd.op = "PAUSE_ALL")] \in ChannelRecords
    BY <1>3, <2>1, <2>2, Zenon
  <2>4. channel' \in [Channels -> ChannelRecords]
    BY <1>6, <2>3 DEF HandleAll
  <2>5. request' \in [Channels -> {"none", "play", "pause", "sync"}]
    BY <1>6 DEF HandleAll, TypeOK
  <2>6. QED
    BY <1>1, <1>6, <2>4, <2>5 DEF TypeOK, HandleCmd, HandleAll, clientVars, beatVars
<1>7. CASE HandleChannel(cmd)
  <2>1. PICK c \in Channels :
          /\ channel' = [channel EXCEPT ![c] = Updated(@, cmd)]
          /\ request' = [request EXCEPT ![c] = Requested(@, channel[c], cmd)]
          /\ fired' = IF cmd.op = "STOP" THEN Callback(channel[c]) ELSE {}
    BY <1>7 DEF HandleChannel
  <2>2. Updated(channel[c], cmd) \in ChannelRecords
    BY <1>1, <1>3, <1>7, UpdatedType DEF HandleChannel
  <2>3. Requested(request[c], channel[c], cmd) \in {"none", "play", "pause", "sync"}
    BY DEF Requested, TypeOK
  <2>4. QED
    BY <1>1, <1>3, <1>7, <2>1, <2>2, <2>3
    DEF TypeOK, HandleCmd, HandleChannel, clientVars, beatVars
<1>8. CASE HandleUnknown(cmd)
  BY <1>1, <1>8 DEF TypeOK, HandleCmd, HandleUnknown, clientVars, beatVars
<1>9. QED
  BY <1>4, <1>5, <1>6, <1>7, <1>8 DEF HandleCmd

LEMMA MixerType ==
  ASSUME TypeOK, Mixer
  PROVE  TypeOK'
<1> DEFINE ch == mixer.ch
<1>1. /\ ch \in Channels
      /\ channel[ch] \in ChannelRecords
      /\ AutoStarted(channel[ch]) \in ChannelRecords
      /\ CleanedUp(channel[ch]) \in ChannelRecords
      /\ Callback(channel[ch]) \subseteq Calls
  BY AutoStartedType, CleanedUpType, CallbackType DEF TypeOK
<1>2. channel[ch].buffer \in Nat /\ channel[ch].pos \in Nat
  BY <1>1 DEF ChannelRecords
<1>3. CASE NoBeat
  BY <1>3 DEF TypeOK, NoBeat, clientVars, beatVars
<1>4. CASE Beat
  <2>1. beat_sync_count' \in 0 .. SubNotes - 1
    <3>1. beat_sync_count' = (beat_sync_count + 1) % SubNotes
      BY <1>4 DEF Beat
    <3>2. beat_sync_count + 1 \in Nat
      BY DEF TypeOK
    <3>3. QED
      BY <3>1, <3>2
  <2>2. QED
    BY <1>4, <2>1 DEF TypeOK, Beat, clientVars
<1>5. CASE HandleCmd
  BY <1>5, HandleType
<1>6. CASE DrainDone
  <2>1. 1 \in Channels /\ 1 \in 1 .. ChunkSize
    BY DEF Channels
  <2>2. mixer' \in [pc: {"beat", "drain", "mix", "refill"}, ch: Channels, sample: 1 .. ChunkSize]
    BY <1>6, <2>1 DEF DrainDone
  <2>3. QED
    BY <1>6, <2>2 DEF TypeOK, DrainDone, clientVars, beatVars
<1>7. CASE SkipChannel
  BY <1>1, <1>7, NextChannelType DEF TypeOK, SkipChannel, clientVars, beatVars
<1>8. CASE PlaySample
  BY <1>1, <1>2, <1>8, NextChannelType DEF TypeOK, PlaySample, clientVars, beatVars
<1>9. CASE NeedChunk
  <2>1. [AutoStarted(channel[ch]) EXCEPT !.exhausted = TRUE] \in ChannelRecords
    BY <1>1 DEF ChannelRecords
  <2>2. channel' \in [Channels -> ChannelRecords]
    BY <1>1, <1>9, <2>1 DEF NeedChunk, TypeOK
  <2>3. QED
    BY <1>9, <2>2 DEF TypeOK, NeedChunk, clientVars, beatVars
<1>10. CASE Refill
  <2>1. PICK n \in Nat :
          /\ channel' = [channel EXCEPT ![ch] =
                           [@ EXCEPT !.pos = n, !.buffer = n, !.exhausted = FALSE]]
          /\ heard' = [heard EXCEPT ![ch] = n]
    <3>1. (IF channel[ch].source = "synth" THEN 1 ELSE channel[ch].pos + 1) \in Nat
      BY <1>2
    <3>2. QED
      BY <1>10, <3>1 DEF Refill
  <2>2. [channel[ch] EXCEPT !.pos = n, !.buffer = n, !.exhausted = FALSE] \in ChannelRecords
    BY <1>1 DEF ChannelRecords
  <2>3. QED
    BY <1>1, <1>10, <2>1, <2>2, NextChannelType DEF TypeOK, Refill, clientVars, beatVars
<1>11. CASE Rewind \/ RefillShort
  <2>1. PICK n \in Nat :
          channel' = [channel EXCEPT ![ch] = [@ EXCEPT !.pos = n, !.buffer = n]]
    <3>1. channel[ch].len \in Nat
      BY <1>1 DEF ChannelRecords
    <3>2. CASE Rewind
      BY <3>2 DEF Rewind
    <3>3. CASE RefillShort
      BY <3>1, <3>3 DEF RefillShort
    <3>4. QED
      BY <1>11, <3>2, <3>3
  <2>2. [channel[ch] EXCEPT !.pos = n, !.buffer = n] \in ChannelRecords
    BY <1>1 DEF ChannelRecords
  <2>3. QED
    BY <1>1, <1>11, <2>1, <2>2 DEF TypeOK, Rewind, RefillShort, clientVars, beatVars
<1>12. CASE EndOfSound
  BY <1>1, <1>12, NextChannelType DEF TypeOK, EndOfSound, clientVars, beatVars
<1>13. QED
  BY <1>3, <1>4, <1>5, <1>6, <1>7, <1>8, <1>9, <1>10, <1>11, <1>12 DEF Mixer

(* Every variable of the mixer and of its clients keeps its type: in        *)
(* particular the queue never holds more than QueueLen commands and the    *)
(* cursors of the sample loop stay inside the table (sndmixer.c).          *)
THEOREM TypeCorrect == Spec => []TypeOK
<1>0. Init' => TypeOK'
  BY TypeInit, PTL
<1>1. TypeOK /\ [Next]_vars => TypeOK'
  <2>1. SUFFICES ASSUME TypeOK, [Next]_vars PROVE TypeOK'
    OBVIOUS
  <2>2. CASE UNCHANGED vars
    BY <2>1, <2>2 DEF TypeOK, vars, clientVars, beatVars, historyVars
  <2>3. QED
    BY <1>0, <2>1, <2>2, ClientType, MixerType, PanicRestarts DEF Next
<1>2. QED
  BY <1>1, TypeInit, PTL DEF Spec

-----------------------------------------------------------------------------
(* Identity of sounds                                                      *)

LEMMA CleanedUpFields ==
  ASSUME NEW r \in ChannelRecords
  PROVE  /\ CleanedUp(r).id = 0 /\ CleanedUp(r).source = NULL
         /\ Valid(CleanedUp(r))
BY DEF CleanedUp, ChannelRecords, Valid

LEMMA InstalledFields ==
  ASSUME NEW r \in ChannelRecords, NEW cmd \in Commands
  PROVE  /\ Installed(r, cmd).id = cmd.id
         /\ cmd.id # 0 /\ cmd.snd.kind # NULL => Valid(Installed(r, cmd))
BY DEF Installed, Valid

LEMMA UpdatedFields ==
  ASSUME NEW r \in ChannelRecords, NEW cmd \in Commands, cmd.op \in ChannelOps, Valid(r)
  PROVE  /\ Updated(r, cmd).id \in {r.id, 0}
         /\ Valid(Updated(r, cmd))
<1>1. CASE cmd.op = "STOP"
  BY <1>1, CleanedUpFields DEF Updated
<1>2. CASE cmd.op # "STOP"
  <2>1. LET u == Updated(r, cmd)
        IN  u.id = r.id /\ u.source = r.source /\ u.exhausted = r.exhausted /\ u.buffer = r.buffer
    BY <1>2 DEF Updated, ChannelRecords, ChannelOps
  <2>2. QED
    BY <2>1 DEF Valid
<1>3. QED
  BY <1>1, <1>2

LEMMA AutoStartedFields ==
  ASSUME NEW r \in ChannelRecords
  PROVE  LET u == AutoStarted(r)
         IN  /\ u.id = r.id /\ u.source = r.source /\ u.exhausted = r.exhausted
             /\ u.buffer = r.buffer /\ u.pos = r.pos /\ u.len = r.len /\ u.loop = r.loop
BY DEF AutoStarted, ChannelRecords

(* What the ids mean; the parts rest on each other.                        *)
IdInv == IdsUnique /\ IdsIssued /\ QueuedBeforeUsed

LEMMA IdInit == Init => IdInv
BY DEF Init, NewChannel, IdInv, IdsUnique, IdsIssued, QueuedBeforeUsed, Pending, IsQueueCmd

LEMMA IdTypes ==
  ASSUME TypeOK
  PROVE  /\ curr_id \in Nat
         /\ \A t \in Threads : old_id[t] \in Nat
         /\ \A c \in Channels : channel[c].id \in Nat
         /\ DOMAIN cmd_queue = 1 .. Len(cmd_queue) /\ Len(cmd_queue) \in Nat
         /\ \A k \in DOMAIN cmd_queue : cmd_queue[k] \in Commands /\ cmd_queue[k].id \in Nat
<1>1. \A r \in ChannelRecords : r.id \in Nat
  BY DEF ChannelRecords
<1>2. \A m \in Commands : m.id \in Nat
  BY DEF Commands
<1>3. QED
  BY <1>1, <1>2 DEF TypeOK

(* A mixer step keeps the ids apart: it leaves the clients alone, takes s   *)
(* commands (none or the first) from the queue, and every channel keeps or *)
(* loses its id, but for a channel c that gets the id of a received QUEUE. *)
LEMMA IdsKept ==
  ASSUME TypeOK, TypeOK', IdInv, UNCHANGED <<curr_id, pc, old_id>>,
         NEW s \in {0, 1}, NEW c \in Channels,
         \A k \in DOMAIN cmd_queue' : k + s \in DOMAIN cmd_queue /\ cmd_queue'[k] = cmd_queue[k + s],
         \A d \in Channels :
           \/ channel'[d].id = channel[d].id \/ channel'[d].id = 0
           \/ d = c /\ s = 1 /\ IsQueueCmd(1) /\ channel'[d].id = cmd_queue[1].id
  PROVE  IdInv'
<1>1. /\ \A k \in DOMAIN cmd_queue' : k \in Nat /\ k >= 1 /\ (IsQueueCmd(k)' => IsQueueCmd(k + s))
      /\ \A t \in Threads : Pending(t)' <=> Pending(t)
  <2>1. \A k \in DOMAIN cmd_queue' : k \in Nat /\ k >= 1
    BY DEF TypeOK
  <2>2. \A k \in DOMAIN cmd_queue' : IsQueueCmd(k)' => IsQueueCmd(k + s)
    BY DEF IsQueueCmd
  <2>3. \A t \in Threads : Pending(t)' <=> Pending(t)
    BY DEF Pending
  <2>4. QED
    BY <2>1, <2>2, <2>3
<1>2. IdsUnique /\ IdsIssued /\ QueuedBeforeUsed
  BY DEF IdInv
<1>3. IdsIssued'
  <2>1. \A t \in Threads : Pending(t)' => old_id'[t] < curr_id'
    BY <1>1, <1>2 DEF IdsIssued
  <2>2. \A k \in DOMAIN cmd_queue' :
          cmd_queue'[k].op \in {"QUEUE"} \cup ChannelOps =>
            /\ cmd_queue'[k].id \in 0 .. curr_id'
            /\ \A t \in Threads : Pending(t)' => cmd_queue'[k].id # old_id'[t] + 1
    BY <1>1, <1>2 DEF IdsIssued
  <2>3. \A k \in DOMAIN cmd_queue' : IsQueueCmd(k)' =>
          cmd_queue'[k].id # 0 /\ cmd_queue'[k].snd.kind # NULL
    BY <1>1, <1>2 DEF IdsIssued
  <2>4. \A d \in Channels : channel'[d].id <= curr_id'
    BY <1>2, IdTypes DEF IdsIssued, IsQueueCmd
  <2>5. QED
    BY <2>1, <2>2, <2>3, <2>4 DEF IdsIssued
<1>4. IdsUnique'
  <2>1. \A t, u \in Threads : Pending(t)' /\ Pending(u)' /\ old_id'[t] = old_id'[u] => t = u
    BY <1>1, <1>2 DEF IdsUnique
  <2>2. \A j, k \in DOMAIN cmd_queue' :
          IsQueueCmd(j)' /\ IsQueueCmd(k)' /\ cmd_queue'[j].id = cmd_queue'[k].id => j = k
    BY <1>1, <1>2 DEF IdsUnique
  <2>3. \A d, e \in Channels : channel'[d].id # 0 /\ channel'[d].id = channel'[e].id => d = e
    <3>1. \A d \in Channels : IsQueueCmd(1) => cmd_queue[1].id # channel[d].id
      BY <1>2 DEF IdsUnique, IsQueueCmd
    <3>2. QED
      BY <1>2, <3>1 DEF IdsUnique
  <2>4. \A t \in Threads, d \in Channels : Pending(t)' => channel'[d].id # old_id'[t] + 1
    <3>1. \A t \in Threads : IsQueueCmd(1) /\ Pending(t) => cmd_queue[1].id # old_id[t] + 1
      BY <1>2 DEF IdsIssued, IsQueueCmd
    <3>2. QED
      BY <1>1, <1>2, <3>1, IdTypes DEF IdsUnique
  <2>5. \A k \in DOMAIN cmd_queue', d \in Channels :
          IsQueueCmd(k)' => cmd_queue'[k].id # channel'[d].id
    <3>1. \A k \in DOMAIN cmd_queue' : IsQueueCmd(k)' => cmd_queue'[k].id # 0
      BY <1>3 DEF IdsIssued
    <3>2. \A k \in DOMAIN cmd_queue' :
            s = 1 /\ IsQueueCmd(1) /\ IsQueueCmd(k)' => cmd_queue'[k].id # cmd_queue[1].id
      BY <1>1, <1>2 DEF IdsUnique, IsQueueCmd
    <3>3. QED
      BY <1>1, <1>2, <3>1, <3>2 DEF IdsUnique, IsQueueCmd
  <2>6. QED
    BY <2>1, <2>2, <2>3, <2>4, <2>5 DEF IdsUnique
<1>5. QueuedBeforeUsed'
  BY <1>1, <1>2, IdTypes DEF QueuedBeforeUsed
<1>6. QED
  BY <1>3, <1>4, <1>5 DEF IdInv

(* The commands a client appends.                                          *)
LEMMA IdsAppended ==
  ASSUME TypeOK, IdInv, NEW cmd \in Commands, Send(cmd),
         UNCHANGED <<channel, curr_id, old_id>>, NEW t \in Threads,
         \/ /\ cmd.op # "QUEUE" /\ pc' = pc
            /\ cmd.op \in ChannelOps => cmd.id \in Returned \cup {0}
         \/ /\ cmd.op = "QUEUE" /\ cmd.id = old_id[t] + 1 /\ cmd.snd.kind # NULL
            /\ pc[t] = "send" /\ pc' = [pc EXCEPT ![t] = "idle"]
  PROVE  IdInv'
<1> DEFINE n == Len(cmd_queue) + 1
<1>1. /\ n \in Nat /\ DOMAIN cmd_queue' = 1 .. n /\ DOMAIN cmd_queue = 1 .. n - 1
      /\ cmd_queue'[n] = cmd
      /\ \A k \in 1 .. n - 1 : cmd_queue'[k] = cmd_queue[k]
  BY DEF TypeOK, Send
<1>2. \A u \in Threads : Pending(u)' => Pending(u) /\ (cmd.op = "QUEUE" => u # t)
  BY DEF Pending, TypeOK
<1>3. IdsUnique /\ IdsIssued /\ QueuedBeforeUsed
  BY DEF IdInv
<1>4. cmd.op = "QUEUE" => Pending(t) /\ \A u \in Threads : Pending(u)' => old_id[u] # old_id[t]
  BY <1>2, <1>3 DEF IdsUnique, Pending
<1>5. cmd.op \in {"QUEUE"} \cup ChannelOps =>
        /\ cmd.id \in 0 .. curr_id
        /\ cmd.op = "QUEUE" => cmd.id # 0
        /\ \A u \in Threads : Pending(u)' => cmd.id # old_id[u] + 1
  <2>1. CASE cmd.op = "QUEUE"
    BY <1>3, <1>4, <2>1, IdTypes DEF IdsIssued
  <2>2. CASE cmd.op \in ChannelOps /\ cmd.op # "QUEUE"
    BY <1>2, <2>2, IdTypes DEF Returned, Pending
  <2>3. QED
    BY <2>1, <2>2
<1>6. IdsIssued'
  <2>1. \A u \in Threads : Pending(u)' => old_id'[u] < curr_id'
    BY <1>2, <1>3 DEF IdsIssued
  <2>2. \A k \in DOMAIN cmd_queue' :
          cmd_queue'[k].op \in {"QUEUE"} \cup ChannelOps =>
            /\ cmd_queue'[k].id \in 0 .. curr_id'
            /\ \A u \in Threads : Pending(u)' => cmd_queue'[k].id # old_id'[u] + 1
    BY <1>1, <1>2, <1>3, <1>5 DEF IdsIssued
  <2>3. \A k \in DOMAIN cmd_queue' : IsQueueCmd(k)' =>
          cmd_queue'[k].id # 0 /\ cmd_queue'[k].snd.kind # NULL
    BY <1>1, <1>3, <1>5 DEF IdsIssued, IsQueueCmd
  <2>4. \A d \in Channels : channel'[d].id <= curr_id'
    BY <1>3 DEF IdsIssued
  <2>5. QED
    BY <2>1, <2>2, <2>3, <2>4 DEF IdsIssued
<1>7. \A k \in DOMAIN cmd_queue' :
        IsQueueCmd(k)' => (k = n /\ cmd.op = "QUEUE") \/ (k < n /\ IsQueueCmd(k))
  BY <1>1 DEF IsQueueCmd
<1>8. cmd.op = "QUEUE" =>
        /\ \A k \in DOMAIN cmd_queue :
             cmd_queue[k].op \in {"QUEUE"} \cup ChannelOps => cmd_queue[k].id # cmd.id
        /\ \A d \in Channels : channel[d].id # cmd.id
  BY <1>3, <1>4 DEF IdsIssued, IdsUnique
<1>9. IdsUnique'
  <2>1. \A u, v \in Threads : Pending(u)' /\ Pending(v)' /\ old_id'[u] = old_id'[v] => u = v
    BY <1>2, <1>3 DEF IdsUnique
  <2>2. \A j, k \in DOMAIN cmd_queue' :
          IsQueueCmd(j)' /\ IsQueueCmd(k)' /\ cmd_queue'[j].id = cmd_queue'[k].id => j = k
    BY <1>1, <1>3, <1>7, <1>8 DEF IdsUnique, IsQueueCmd
  <2>3. \A d, e \in Channels : channel'[d].id # 0 /\ channel'[d].id = channel'[e].id => d = e
    BY <1>3 DEF IdsUnique
  <2>4. \A u \in Threads, d \in Channels : Pending(u)' => channel'[d].id # old_id'[u] + 1
    BY <1>2, <1>3 DEF IdsUnique
  <2>5. \A k \in DOMAIN cmd_queue', d \in Channels :
          IsQueueCmd(k)' => cmd_queue'[k].id # channel'[d].id
    BY <1>1, <1>3, <1>7, <1>8 DEF IdsUnique, IsQueueCmd
  <2>6. QED
    BY <2>1, <2>2, <2>3, <2>4, <2>5 DEF IdsUnique
<1>10. QueuedBeforeUsed'
  <2>1. SUFFICES ASSUME NEW j \in DOMAIN cmd_queue', NEW k \in DOMAIN cmd_queue',
                        cmd_queue'[j].op \in ChannelOps, IsQueueCmd(k)',
                        cmd_queue'[j].id = cmd_queue'[k].id
                 PROVE  k < j
    BY DEF QueuedBeforeUsed
  <2>2. "QUEUE" \notin ChannelOps
    BY DEF ChannelOps
  <2>3. CASE k = n /\ cmd.op = "QUEUE"
    BY <1>1, <1>8, <2>1, <2>2, <2>3
  <2>4. CASE k < n /\ IsQueueCmd(k)
    BY <1>1, <1>3, <2>1, <2>4 DEF QueuedBeforeUsed
  <2>5. QED
    BY <1>7, <2>1, <2>3, <2>4
<1>11. QED
  BY <1>6, <1>9, <1>10 DEF IdInv

LEMMA IdClient ==
  ASSUME TypeOK, TypeOK', IdInv, NEW t \in Threads, Client(t)
  PROVE  IdInv'
<1>1. IdsUnique /\ IdsIssued /\ QueuedBeforeUsed
  BY DEF IdInv
<1>2. CASE ReadId(t)
  <2>1. \A u \in Threads : Pending(u)' => Pending(u) /\ old_id'[u] = old_id[u]
    BY <1>2 DEF ReadId, Pending, TypeOK
  <2>2. UNCHANGED <<channel, curr_id, cmd_queue>>
    BY <1>2 DEF ReadId
  <2>3. IdsUnique'
    BY <1>1, <2>1, <2>2 DEF IdsUnique, IsQueueCmd
  <2>4. IdsIssued'
    BY <1>1, <2>1, <2>2 DEF IdsIssued, IsQueueCmd
  <2>5. QueuedBeforeUsed'
    BY <1>1, <2>2 DEF QueuedBeforeUsed, IsQueueCmd
  <2>6. QED
    BY <2>3, <2>4, <2>5 DEF IdInv
<1>3. CASE CasId(t)
  <2>1. UNCHANGED <<channel, old_id, cmd_queue>> /\ curr_id' \in Nat /\ curr_id' >= curr_id
    BY <1>3, IdTypes DEF CasId
  <2>2. \A u \in Threads : Pending(u)' =>
          \/ Pending(u)
          \/ u = t /\ curr_id = old_id[t] /\ curr_id' = curr_id + 1
    BY <1>3 DEF CasId, Pending, TypeOK
  <2>3. IdsIssued'
    <3>1. \A u \in Threads : Pending(u)' => old_id'[u] < curr_id'
      BY <1>1, <2>1, <2>2, IdTypes DEF IdsIssued
    <3>2. \A k \in DOMAIN cmd_queue' :
            cmd_queue'[k].op \in {"QUEUE"} \cup ChannelOps =>
              /\ cmd_queue'[k].id \in 0 .. curr_id'
              /\ \A u \in Threads : Pending(u)' => cmd_queue'[k].id # old_id'[u] + 1
      BY <1>1, <2>1, <2>2, IdTypes DEF IdsIssued
    <3>3. QED
      BY <1>1, <2>1, <3>1, <3>2, IdTypes DEF IdsIssued, IsQueueCmd
  <2>4. IdsUnique'
    <3>1. \A u, v \in Threads : Pending(u)' /\ Pending(v)' /\ old_id'[u] = old_id'[v] => u = v
      BY <1>1, <2>1, <2>2, IdTypes DEF IdsUnique, IdsIssued
    <3>2. \A u \in Threads, d \in Channels : Pending(u)' => channel'[d].id # old_id'[u] + 1
      BY <1>1, <2>1, <2>2, IdTypes DEF IdsUnique, IdsIssued
    <3>3. QED
      BY <1>1, <2>1, <3>1, <3>2 DEF IdsUnique, IsQueueCmd
  <2>5. QueuedBeforeUsed'
    BY <1>1, <2>1 DEF QueuedBeforeUsed, IsQueueCmd
  <2>6. QED
    BY <2>3, <2>4, <2>5 DEF IdInv
<1>4. CASE SendQueue(t)
  <2>1. PICK snd \in Sounds, p \in {0, 1} :
          Send([op |-> "QUEUE", id |-> old_id[t] + 1, snd |-> snd, param |-> p])
    BY <1>4 DEF SendQueue
  <2>2. [op |-> "QUEUE", id |-> old_id[t] + 1, snd |-> snd, param |-> p] \in Commands
    BY DEF TypeOK, Commands, OpNames
  <2>3. snd.kind # NULL
    BY DEF Kinds, NULL
  <2>4. QED
    BY <1>4, <2>1, <2>2, <2>3, IdsAppended DEF SendQueue
<1>5. CASE Post(t)
  <2>1. UNCHANGED <<channel, curr_id, old_id, pc>>
    BY <1>5 DEF Post, clientVars
  <2>2. ASSUME NEW op \in Ops \cap ChannelOps, NEW i \in Returned \cup {0}, NEW p \in Params(op),
               Send([op |-> op, id |-> i, snd |-> NoSound, param |-> p])
        PROVE  IdInv'
    <3>1. i \in Nat /\ p \in Nat
      <4>1. i \in Nat
        BY DEF Returned, TypeOK
      <4>2. Params(op) \subseteq Nat
        BY DEF Params
      <4>3. QED
        BY <4>1, <4>2
    <3>2. [op |-> op, id |-> i, snd |-> NoSound, param |-> p] \in Commands
      BY <3>1 DEF Commands, OpNames, NoSound
    <3>3. op # "QUEUE"
      BY DEF ChannelOps
    <3>4. QED
      BY <2>1, <2>2, <3>2, <3>3, IdsAppended
  <2>3. ASSUME NEW op \in Ops \cap GlobalOps,
               Send([op |-> op, id |-> 0, snd |-> NoSound, param |-> 0])
        PROVE  IdInv'
    <3>1. [op |-> op, id |-> 0, snd |-> NoSound, param |-> 0] \in Commands
      BY DEF Commands, OpNames, NoSound
    <3>2. op # "QUEUE" /\ op \notin ChannelOps
      BY DEF ChannelOps, GlobalOps
    <3>3. QED
      BY <2>1, <2>3, <3>1, <3>2, IdsAppended
  <2>4. QED
    BY <1>5, <2>2, <2>3 DEF Post
<1>6. QED
  BY <1>2, <1>3, <1>4, <1>5 DEF Client

(* The steps of the sample loop: the channel under the cursor keeps its     *)
(* sound or is emptied, no other channel changes.                          *)
SampleStep == SkipChannel \/ PlaySample \/ NeedChunk \/ Refill \/ RefillShort \/ Rewind
              \/ EndOfSound

LEMMA SampleStepEffect ==
  ASSUME TypeOK, MixerPointersValid, SampleStep
  PROVE  /\ \A d \in Channels \ {mixer.ch} : channel'[d] = channel[d]
         /\ channel'[mixer.ch].id \in {channel[mixer.ch].id, 0}
         /\ Valid(channel'[mixer.ch])
         /\ mixer'.pc = "refill" => mixer'.ch = mixer.ch /\ Refillable(channel'[mixer.ch])
<1> DEFINE ch == mixer.ch
           r  == channel[ch]
<1>1. /\ ch \in Channels /\ r \in ChannelRecords /\ Valid(r)
      /\ AutoStarted(r) \in ChannelRecords
  BY AutoStartedType DEF TypeOK, MixerPointersValid
<1>2. NextChannel => mixer'.pc # "refill"
  BY DEF NextChannel, TypeOK
<1>3. CASE SkipChannel
  BY <1>1, <1>2, <1>3, AutoStartedFields DEF SkipChannel, Valid, TypeOK
<1>4. CASE PlaySample
  BY <1>1, <1>2, <1>4, AutoStartedFields DEF PlaySample, Valid, TypeOK
<1>5. CASE NeedChunk
  <2>1. LET u == [AutoStarted(r) EXCEPT !.exhausted = TRUE]
        IN  /\ u.id = r.id /\ u.source = r.source /\ u.exhausted = TRUE
            /\ u.paused = AutoStarted(r).paused
    BY <1>1, AutoStartedFields DEF ChannelRecords
  <2>2. channel' = [channel EXCEPT ![ch] = [AutoStarted(r) EXCEPT !.exhausted = TRUE]]
        /\ Active(AutoStarted(r)) /\ mixer'.ch = ch
    BY <1>5 DEF NeedChunk, TypeOK
  <2>3. QED
    BY <1>1, <2>1, <2>2, AutoStartedFields DEF Valid, Active, Refillable, TypeOK
<1>6. CASE Refill
  <2>1. PICK n \in Nat \ {0} :
          channel' = [channel EXCEPT ![ch] = [r EXCEPT !.pos = n, !.buffer = n, !.exhausted = FALSE]]
    <3>1. (IF r.source = "synth" THEN 1 ELSE r.pos + 1) \in Nat \ {0}
      BY <1>1 DEF ChannelRecords
    <3>2. QED
      BY <1>6, <3>1 DEF Refill
  <2>2. LET u == [r EXCEPT !.pos = n, !.buffer = n, !.exhausted = FALSE]
        IN  u.id = r.id /\ u.source = r.source /\ u.buffer = n
    BY <1>1 DEF ChannelRecords
  <2>3. mixer'.pc # "refill"
    BY <1>2, <1>6 DEF Refill
  <2>4. QED
    BY <1>1, <2>1, <2>2, <2>3 DEF Valid, TypeOK
<1>7. CASE Rewind \/ RefillShort
  <2>1. PICK n \in Nat :
          channel' = [channel EXCEPT ![ch] = [r EXCEPT !.pos = n, !.buffer = n]]
    <3>1. r.len \in Nat
      BY <1>1 DEF ChannelRecords
    <3>2. CASE Rewind
      BY <3>2 DEF Rewind
    <3>3. CASE RefillShort
      BY <3>1, <3>3 DEF RefillShort
    <3>4. QED
      BY <1>7, <3>2, <3>3
  <2>2. LET u == [r EXCEPT !.pos = n, !.buffer = n]
        IN  /\ u.id = r.id /\ u.source = r.source /\ u.paused = r.paused
            /\ u.exhausted = r.exhausted
    BY <1>1 DEF ChannelRecords
  <2>3. mixer' = mixer /\ Refillable(r)
    BY <1>7 DEF Rewind, RefillShort, MixerPointersValid
  <2>4. QED
    BY <1>1, <2>1, <2>2, <2>3 DEF Valid, Active, Refillable, TypeOK
<1>8. CASE EndOfSound
  BY <1>1, <1>2, <1>8, CleanedUpFields DEF EndOfSound, TypeOK
<1>9. QED
  BY <1>3, <1>4, <1>5, <1>6, <1>7, <1>8 DEF SampleStep

(* The effect of one command on the table.                                 *)
LEMMA HandleEffect ==
  ASSUME TypeOK, TypeOK', MixerPointersValid, IdInv, HandleCmd
  PROVE  /\ \A d \in Channels : Valid(channel'[d])
         /\ \E c \in Channels : \A d \in Channels :
              \/ channel'[d].id = channel[d].id \/ channel'[d].id = 0
              \/ d = c /\ IsQueueCmd(1) /\ channel'[d].id = cmd_queue[1].id
<1> DEFINE cmd == Head(cmd_queue)
           Fine == /\ \A d \in Channels : Valid(channel'[d])
                   /\ \E c \in Channels : \A d \in Channels :
                        \/ channel'[d].id = channel[d].id \/ channel'[d].id = 0
                        \/ d = c /\ IsQueueCmd(1) /\ channel'[d].id = cmd_queue[1].id
<1>1. /\ cmd \in Commands /\ cmd = cmd_queue[1] /\ 1 \in DOMAIN cmd_queue
      /\ cmd.op = "QUEUE" => cmd.id # 0 /\ cmd.snd.kind # NULL /\ IsQueueCmd(1)
  BY HeadTail DEF TypeOK, HandleCmd, IdInv, IdsIssued, IsQueueCmd
<1>2. /\ \A d \in Channels : channel[d] \in ChannelRecords /\ Valid(channel[d])
      /\ 1 \in Channels
  BY DEF TypeOK, MixerPointersValid, Channels
<1>3. ASSUME NEW c \in Channels, NEW x \in ChannelRecords,
             channel' = [channel EXCEPT ![c] = x], Valid(x),
             x.id \in {channel[c].id, 0} \/ (IsQueueCmd(1) /\ x.id = cmd_queue[1].id)
      PROVE  Fine
  BY <1>2, <1>3 DEF TypeOK
<1>4. ASSUME UNCHANGED channel PROVE Fine
  BY <1>2, <1>4
<1>5. CASE HandleQueue(cmd)
  <2>1. ASSUME NEW c \in Channels, NEW r \in ChannelRecords, Valid(r),
               r.id \in {channel[c].id, 0}, NEW f, InitSource(c, r, f, cmd)
        PROVE  Fine
    <3>1. CASE channel' = [channel EXCEPT ![c] = r]
      BY <1>3, <2>1, <3>1
    <3>2. CASE channel' = [channel EXCEPT ![c] = [CleanedUp(r) EXCEPT !.volume = 255]]
      <4>1. CleanedUp(r) \in ChannelRecords
        BY CleanedUpType
      <4>2. LET x == [CleanedUp(r) EXCEPT !.volume = 255]
            IN  /\ x \in ChannelRecords /\ x.id = CleanedUp(r).id
                /\ x.source = CleanedUp(r).source
        BY <4>1 DEF ChannelRecords
      <4>3. [CleanedUp(r) EXCEPT !.volume = 255].id = 0
            /\ Valid([CleanedUp(r) EXCEPT !.volume = 255])
        BY <4>2, CleanedUpFields DEF Valid
      <4>4. QED
        BY <1>3, <3>2, <4>2, <4>3
    <3>3. CASE channel' = [channel EXCEPT ![c] = Installed(r, cmd)]
      <4>1. Installed(r, cmd) \in ChannelRecords
        BY <1>1, <1>5, InstalledType DEF HandleQueue
      <4>2. /\ Valid(Installed(r, cmd))
            /\ IsQueueCmd(1) /\ Installed(r, cmd).id = cmd_queue[1].id
        BY <1>1, <1>5, InstalledFields DEF HandleQueue
      <4>3. QED
        BY ONLY <1>3, <3>3, <4>1, <4>2, Zenon
    <3>4. QED
      BY <2>1, <3>1, <3>2, <3>3 DEF InitSource
  <2>2. CASE \E c \in Channels : InitSource(c, channel[c], {}, cmd)
    BY <1>2, <2>1, <2>2
  <2>3. CASE \E c \in Channels : InitSource(c, CleanedUp(channel[c]), Callback(channel[c]), cmd)
    BY <1>2, <2>1, <2>3, CleanedUpType, CleanedUpFields
  <2>4. QED
    BY <1>4, <1>5, <2>2, <2>3 DEF HandleQueue
<1>6. CASE HandleBeatSync(cmd)
  BY <1>4, <1>6 DEF HandleBeatSync
<1>7. CASE HandleAll(cmd)
  <2>1. \A c \in Channels : channel'[c] = [channel[c] EXCEPT !.paused = (cmd.op = "PAUSE_ALL")]
    BY <1>7 DEF HandleAll
  <2>2. ASSUME NEW r \in ChannelRecords, NEW b
        PROVE  LET u == [r EXCEPT !.paused = b]
               IN  /\ u.id = r.id /\ u.source = r.source /\ u.exhausted = r.exhausted
                   /\ u.buffer = r.buffer
    BY DEF ChannelRecords
  <2>3. \A c \in Channels :
          LET u == [channel[c] EXCEPT !.paused = (cmd.op = "PAUSE_ALL")]
              r == channel[c]
          IN  /\ u.id = r.id /\ u.source = r.source /\ u.exhausted = r.exhausted
              /\ u.buffer = r.buffer
    BY <1>2, <2>2, Zenon
  <2>4. \A c \in Channels :
          /\ channel'[c].id = channel[c].id /\ channel'[c].source = channel[c].source
          /\ channel'[c].exhausted = channel[c].exhausted
          /\ channel'[c].buffer = channel[c].buffer
    BY <2>1, <2>3, Zenon
  <2>5. QED
    BY <1>2, <2>4 DEF Valid
<1>8. CASE HandleChannel(cmd)
  <2>1. PICK c \in Channels : channel' = [channel EXCEPT ![c] = Updated(@, cmd)]
    BY <1>8 DEF HandleChannel
  <2>2. QED
    BY <1>1, <1>2, <1>3, <1>8, <2>1, UpdatedType, UpdatedFields DEF HandleChannel
<1>9. CASE HandleUnknown(cmd)
  BY <1>4, <1>9 DEF HandleUnknown
<1>10. QED
  BY <1>5, <1>6, <1>7, <1>8, <1>9 DEF HandleCmd

(* A command that follows a null source found a free channel, by id 0.     *)
LEMMA PointersFromChannels ==
  ASSUME \A d \in Channels : Valid(channel'[d]),
         mixer'.pc = "refill" => Refillable(channel'[mixer'.ch])
  PROVE  MixerPointersValid'
BY DEF MixerPointersValid, FollowsNull, IsFirst, With, Valid

LEMMA MixerInv ==
  ASSUME TypeOK, TypeOK', MixerPointersValid, IdInv, Mixer
  PROVE  MixerPointersValid' /\ IdInv'
<1>1. UNCHANGED <<curr_id, pc, old_id>>
  BY DEF Mixer, NoBeat, Beat, HandleCmd, DrainDone, SkipChannel, PlaySample, NeedChunk, Refill,
         RefillShort, Rewind, EndOfSound, clientVars
<1>2. mixer.ch \in Channels
  BY DEF TypeOK
<1>3. CASE HandleCmd
  <2>1. PICK c \in Channels : \A d \in Channels :
          \/ channel'[d].id = channel[d].id \/ channel'[d].id = 0
          \/ d = c /\ IsQueueCmd(1) /\ channel'[d].id = cmd_queue[1].id
    BY <1>3, HandleEffect
  <2>2. \A k \in DOMAIN cmd_queue' : k + 1 \in DOMAIN cmd_queue /\ cmd_queue'[k] = cmd_queue[k + 1]
    BY <1>3, HeadTail DEF HandleCmd, TypeOK
  <2>3. IdInv'
    BY <1>1, <2>1, <2>2, IdsKept
  <2>4. mixer'.pc # "refill"
    BY <1>3 DEF HandleCmd
  <2>5. QED
    BY <1>3, <2>3, <2>4, HandleEffect, PointersFromChannels
<1>4. CASE NoBeat \/ Beat \/ DrainDone
  <2>1. UNCHANGED <<channel, cmd_queue>> /\ mixer'.pc # "refill"
    BY <1>4 DEF NoBeat, Beat, DrainDone, TypeOK
  <2>2. IdInv'
    BY <1>1, <1>2, <2>1, IdsKept, IdTypes
  <2>3. QED
    BY <2>1, <2>2, PointersFromChannels DEF MixerPointersValid
<1>5. CASE SampleStep
  <2>1. UNCHANGED cmd_queue
    BY <1>5 DEF SampleStep, SkipChannel, PlaySample, NeedChunk, Refill, RefillShort,
        Rewind, EndOfSound
  <2>2. \A d \in Channels : channel'[d].id = channel[d].id \/ channel'[d].id = 0
    BY <1>5, SampleStepEffect
  <2>3. IdInv'
    BY <1>1, <1>2, <2>1, <2>2, IdsKept, IdTypes
  <2>4. /\ \A d \in Channels : Valid(channel'[d])
        /\ mixer'.pc = "refill" => Refillable(channel'[mixer'.ch])
    BY <1>5, SampleStepEffect DEF MixerPointersValid
  <2>5. QED
    BY <2>3, <2>4, PointersFromChannels
<1>6. QED
  BY <1>3, <1>4, <1>5 DEF Mixer, SampleStep

(* The inductive invariant.                                                *)
SafetyInv == TypeOK /\ MixerPointersValid /\ IdInv

LEMMA SafetyInductive == Spec => []SafetyInv
<1>1. Init => SafetyInv
  <2>1. SUFFICES ASSUME Init PROVE MixerPointersValid
    BY TypeInit, IdInit DEF SafetyInv
  <2>2. \A c \in Channels : Valid(channel[c])
    BY <2>1 DEF Init, NewChannel, Valid
  <2>3. QED
    BY <2>1, <2>2 DEF Init, MixerPointersValid
<1>0. Init' => SafetyInv'
  BY <1>1, PTL
<1>2. TypeOK' /\ SafetyInv /\ [Next]_vars => SafetyInv'
  <2>1. SUFFICES ASSUME TypeOK', SafetyInv, [Next]_vars PROVE MixerPointersValid' /\ IdInv'
    BY DEF SafetyInv
  <2>2. CASE UNCHANGED vars
    BY <2>1, <2>2
    DEF SafetyInv, vars, clientVars, MixerPointersValid, IdInv, IdsUnique, IdsIssued,
        QueuedBeforeUsed, Pending, IsQueueCmd, FollowsNull, IsFirst, With
  <2>3. CASE \E t \in Threads : Client(t)
    <3>1. UNCHANGED <<channel, mixer>>
      BY <2>3 DEF Client, ReadId, CasId, SendQueue, Post
    <3>2. MixerPointersValid'
      BY <2>1, <3>1, PointersFromChannels DEF SafetyInv, MixerPointersValid
    <3>3. QED
      BY <2>1, <2>3, <3>2, IdClient DEF SafetyInv
  <2>4. CASE Mixer
    BY <2>1, <2>4, MixerInv DEF SafetyInv
  <2>5. CASE Panic
    BY <1>0, <2>5, PanicRestarts DEF SafetyInv
  <2>6. QED
    BY <2>1, <2>2, <2>3, <2>4, <2>5 DEF Next
<1>3. QED
  BY <1>1, <1>2, TypeCorrect, PTL DEF Spec

(* No two sounds share an id, however many threads race in new_id and       *)
(* wherever the sounds are: in a call, in the queue or in a channel.       *)
THEOREM IdsStayUnique == Spec => []IdsUnique
<1>1. SafetyInv => IdsUnique
  BY DEF SafetyInv, IdInv
<1>2. QED
  BY <1>1, SafetyInductive, PTL

(* The mixer never mixes a sample from a buffer that was not filled, and   *)
(* whatever ids Python makes up, nothing but FREQ or WAVEFORM for id 0     *)
(* makes it follow a null source pointer (handle_cmd, sndmixer_task).      *)
THEOREM MixerPointersStayValid == Spec => []MixerPointersValid
<1>1. SafetyInv => MixerPointersValid
  BY DEF SafetyInv
<1>2. QED
  BY <1>1, SafetyInductive, PTL

(* No command overtakes the QUEUE command that creates its sound.          *)
THEOREM CommandsFollowTheirSound == Spec => []QueuedBeforeUsed
<1>1. SafetyInv => QueuedBeforeUsed
  BY DEF SafetyInv, IdInv
<1>2. QED
  BY <1>1, SafetyInductive, PTL

-----------------------------------------------------------------------------
(* Why a sound leaves its channel                                          *)

(* A command changes the sound of one channel only: an empty one, the one   *)
(* its STOP names, or the evictable one that makes room.                   *)
LEMMA HandleRemoval ==
  ASSUME TypeOK, MixerPointersValid, HandleCmd
  PROVE  RemovalJustified
<1> DEFINE cmd == Head(cmd_queue)
<1>1. cmd \in Commands /\ mixer.pc = "drain"
  BY HeadTail DEF TypeOK, HandleCmd
<1>2. \A d \in Channels : channel[d] \in ChannelRecords /\ Valid(channel[d])
  BY DEF TypeOK, MixerPointersValid
<1>3. ASSUME UNCHANGED channel PROVE RemovalJustified
  BY <1>3 DEF RemovalJustified
<1>4. ASSUME NEW c \in Channels, NEW r, NEW f, InitSource(c, r, f, cmd)
      PROVE  \A d \in Channels \ {c} : channel'[d] = channel[d]
  BY <1>4 DEF InitSource, TypeOK
<1>5. CASE HandleQueue(cmd)
  <2>1. CASE \E c \in Channels : IsFirst(c, Free) /\ InitSource(c, channel[c], {}, cmd)
    <3>1. PICK c \in Channels : IsFirst(c, Free) /\ InitSource(c, channel[c], {}, cmd)
      BY <2>1
    <3>2. channel[c].id = 0
      BY <1>2, <3>1 DEF IsFirst, Free, Valid
    <3>3. QED
      BY <1>4, <3>1, <3>2 DEF RemovalJustified
  <2>2. CASE /\ Free = {}
             /\ \E c \in Channels :
                  /\ IsFirst(c, Evictable)
                  /\ InitSource(c, CleanedUp(channel[c]), Callback(channel[c]), cmd)
    <3>1. PICK c \in Channels :
            /\ IsFirst(c, Evictable)
            /\ InitSource(c, CleanedUp(channel[c]), Callback(channel[c]), cmd)
      BY <2>2
    <3>2. channel[c].evictable /\ \A d \in Channels : channel[d].id # 0
      BY <1>2, <2>2, <3>1 DEF IsFirst, Evictable, Free, Valid
    <3>3. cmd.op = "QUEUE"
      BY <1>5 DEF HandleQueue
    <3>4. QED
      BY <1>1, <1>4, <3>1, <3>2, <3>3 DEF RemovalJustified
  <2>3. QED
    BY <1>3, <1>5, <2>1, <2>2 DEF HandleQueue
<1>6. CASE HandleAll(cmd)
  <2>1. ASSUME NEW r \in ChannelRecords, NEW b PROVE [r EXCEPT !.paused = b].id = r.id
    BY DEF ChannelRecords
  <2>2. \A c \in Channels : channel'[c] = [channel[c] EXCEPT !.paused = (cmd.op = "PAUSE_ALL")]
    BY <1>6 DEF HandleAll
  <2>3. \A c \in Channels : [channel[c] EXCEPT !.paused = (cmd.op = "PAUSE_ALL")].id = channel[c].id
    BY <1>2, <2>1, Zenon
  <2>4. \A c \in Channels : channel'[c].id = channel[c].id
    BY <2>2, <2>3, Zenon
  <2>5. QED
    BY <2>4 DEF RemovalJustified
<1>7. CASE HandleChannel(cmd)
  <2>1. PICK c \in Channels :
          /\ IsFirst(c, With(cmd.id))
          /\ channel' = [channel EXCEPT ![c] = Updated(@, cmd)]
    BY <1>7 DEF HandleChannel
  <2>2. channel[c].id = cmd.id
    BY <2>1 DEF IsFirst, With
  <2>3. /\ \A d \in Channels \ {c} : channel'[d] = channel[d]
        /\ channel'[c] = Updated(channel[c], cmd)
    BY <2>1 DEF TypeOK
  <2>4. cmd.op # "STOP" => channel'[c].id = channel[c].id
    BY <1>2, <1>7, <2>3 DEF Updated, ChannelRecords, ChannelOps, HandleChannel
  <2>5. QED
    BY <1>1, <2>2, <2>3, <2>4 DEF RemovalJustified
<1>8. QED
  BY <1>3, <1>5, <1>6, <1>7 DEF HandleCmd, HandleBeatSync, HandleUnknown

(* In the sample loop only the end of a sound empties its channel.         *)
LEMMA SampleRemoval ==
  ASSUME TypeOK, MixerPointersValid, SampleStep
  PROVE  RemovalJustified
<1> DEFINE ch == mixer.ch
           r  == channel[ch]
<1>1. ch \in Channels /\ r \in ChannelRecords /\ AutoStarted(r) \in ChannelRecords
  BY AutoStartedType DEF TypeOK
<1>2. \A d \in Channels \ {ch} : channel'[d] = channel[d]
  BY SampleStepEffect
<1>3. CASE EndOfSound
  BY <1>2, <1>3 DEF EndOfSound, RemovalJustified
<1>4. CASE SkipChannel \/ PlaySample \/ NeedChunk
  <2>1. /\ AutoStarted(r).id = r.id
        /\ [AutoStarted(r) EXCEPT !.exhausted = TRUE].id = r.id
    BY <1>1, AutoStartedFields DEF ChannelRecords
  <2>2. channel'[ch].id = r.id
    BY <1>1, <1>4, <2>1 DEF SkipChannel, PlaySample, NeedChunk, TypeOK
  <2>3. QED
    BY <1>2, <2>2 DEF RemovalJustified
<1>5. CASE Refill \/ RefillShort \/ Rewind
  <2>1. ASSUME NEW n
        PROVE  /\ [r EXCEPT !.pos = n, !.buffer = n, !.exhausted = FALSE].id = r.id
               /\ [r EXCEPT !.pos = n, !.buffer = n].id = r.id
    BY <1>1 DEF ChannelRecords
  <2>2. PICK n :
          \/ channel' = [channel EXCEPT ![ch] =
                           [r EXCEPT !.pos = n, !.buffer = n, !.exhausted = FALSE]]
          \/ channel' = [channel EXCEPT ![ch] = [r EXCEPT !.pos = n, !.buffer = n]]
    BY <1>5 DEF Refill, RefillShort, Rewind
  <2>3. \/ channel'[ch] = [r EXCEPT !.pos = n, !.buffer = n, !.exhausted = FALSE]
        \/ channel'[ch] = [r EXCEPT !.pos = n, !.buffer = n]
    BY <1>1, <2>2, Zenon DEF TypeOK
  <2>4. channel'[ch].id = r.id
    BY <2>1, <2>3, Zenon
  <2>5. QED
    BY <1>2, <2>4 DEF RemovalJustified
<1>6. QED
  BY <1>3, <1>4, <1>5 DEF SampleStep

(* No step of the mixer or of a client takes a sound out of its channel     *)
(* but for its end, its own STOP, a new sound that finds every channel     *)
(* taken and this one evictable (find_free_channel, handle_cmd), or the    *)
(* restart that FREQ or WAVEFORM for id 0 causes.                          *)
THEOREM SoundsLeaveWithReason == Spec => RemovedOnlyWhenJustified
<1>1. SafetyInv /\ [Next]_vars => [RemovalJustified]_vars
  <2>1. SUFFICES ASSUME SafetyInv, Next PROVE RemovalJustified
    OBVIOUS
  <2>2. CASE HandleCmd
    BY <2>1, <2>2, HandleRemoval DEF SafetyInv
  <2>3. CASE SampleStep
    BY <2>1, <2>3, SampleRemoval DEF SafetyInv
  <2>4. CASE NoBeat \/ Beat \/ DrainDone \/ \E t \in Threads : Client(t)
    <3>1. UNCHANGED channel
      BY <2>4 DEF NoBeat, Beat, DrainDone, Client, ReadId, CasId, SendQueue, Post
    <3>2. QED
      BY <3>1 DEF RemovalJustified
  <2>5. CASE Panic
    BY <2>1, <2>5 DEF Panic, FollowsNull, SafetyInv, MixerPointersValid, RemovalJustified
  <2>6. QED
    BY <2>1, <2>2, <2>3, <2>4, <2>5 DEF Next, Mixer, SampleStep
<1>2. QED
  BY <1>1, SafetyInductive, PTL DEF Spec, RemovedOnlyWhenJustified

-----------------------------------------------------------------------------
(* Sounds are played as asked                                              *)

(* What keeps PlaysWhatWasAsked while no sound is started by the beat: no   *)
(* interval is set, nor is one on its way.                                 *)
Faithful(r, q) ==
  /\ r.start_at_next = 0
  /\ r.source # NULL => (r.paused <=> q # "play")
AskedInv ==
  "START_AT_NEXT" \notin Ops =>
    /\ \A k \in DOMAIN cmd_queue : cmd_queue[k].op # "START_AT_NEXT"
    /\ \A c \in Channels : Faithful(channel[c], request[c])

LEMMA UpdatedFaithful ==
  ASSUME NEW r \in ChannelRecords, NEW cmd \in Commands, NEW q, Faithful(r, q),
         cmd.op \in ChannelOps, cmd.op # "START_AT_NEXT"
  PROVE  Faithful(Updated(r, cmd), Requested(q, r, cmd))
<1>1. CASE cmd.op = "STOP"
  <2>1. CleanedUp(r).start_at_next = 0 /\ CleanedUp(r).source = NULL
    BY DEF CleanedUp, ChannelRecords, Faithful
  <2>2. QED
    BY <1>1, <2>1 DEF Updated, Faithful
<1>2. CASE cmd.op = "PLAY"
  <2>1. LET u == [r EXCEPT !.paused = FALSE]
        IN  u.start_at_next = 0 /\ u.paused = FALSE
    BY DEF ChannelRecords, Faithful
  <2>2. QED
    BY <1>2, <2>1 DEF Updated, Requested, Faithful
<1>3. CASE cmd.op = "PAUSE"
  <2>1. LET u == [r EXCEPT !.paused = TRUE]
        IN  u.start_at_next = 0 /\ u.paused = TRUE /\ u.source = r.source
    BY DEF ChannelRecords, Faithful
  <2>2. QED
    BY <1>3, <2>1 DEF Updated, Requested, Faithful
<1>4. CASE cmd.op \in {"LOOP", "VOLUME", "FREQ", "CALLBACK"}
  <2>1. LET u == Updated(r, cmd)
        IN  u.start_at_next = r.start_at_next /\ u.paused = r.paused /\ u.source = r.source
    BY <1>4 DEF Updated, ChannelRecords
  <2>2. Requested(q, r, cmd) = q
    BY <1>4 DEF Requested
  <2>3. QED
    BY <2>1, <2>2 DEF Faithful
<1>5. QED
  BY <1>1, <1>2, <1>3, <1>4 DEF ChannelOps

LEMMA HandleFaithful ==
  ASSUME TypeOK, AskedInv, HandleCmd, "START_AT_NEXT" \notin Ops
  PROVE  \A c \in Channels : Faithful(channel'[c], request'[c])
<1> DEFINE cmd == Head(cmd_queue)
<1>1. cmd \in Commands /\ cmd.op # "START_AT_NEXT"
  BY HeadTail DEF TypeOK, HandleCmd, AskedInv
<1>2. \A c \in Channels : channel[c] \in ChannelRecords /\ Faithful(channel[c], request[c])
  BY DEF TypeOK, AskedInv
<1>3. ASSUME NEW c \in Channels, NEW x, NEW q,
             channel' = [channel EXCEPT ![c] = x], request' = [request EXCEPT ![c] = q],
             Faithful(x, q)
      PROVE  \A d \in Channels : Faithful(channel'[d], request'[d])
  <2>1. channel'[c] = x /\ request'[c] = q
    BY <1>3 DEF TypeOK
  <2>2. \A d \in Channels \ {c} : channel'[d] = channel[d] /\ request'[d] = request[d]
    BY <1>3 DEF TypeOK
  <2>3. QED
    BY <1>2, <1>3, <2>1, <2>2, Zenon
<1>4. ASSUME UNCHANGED <<channel, request>>
      PROVE  \A d \in Channels : Faithful(channel'[d], request'[d])
  BY <1>2, <1>4, Zenon
<1>5. \A c \in Channels : request = [request EXCEPT ![c] = request[c]]
  BY DEF TypeOK
<1>6. ASSUME NEW c \in Channels, NEW r \in ChannelRecords, NEW f,
             r = channel[c] \/ r = CleanedUp(channel[c]), InitSource(c, r, f, cmd)
      PROVE  \A d \in Channels : Faithful(channel'[d], request'[d])
  <2>1. ASSUME NEW z \in ChannelRecords
        PROVE  /\ CleanedUp(z).start_at_next = z.start_at_next /\ CleanedUp(z).source = NULL
               /\ [CleanedUp(z) EXCEPT !.volume = 255].start_at_next = z.start_at_next
               /\ [CleanedUp(z) EXCEPT !.volume = 255].source = NULL
    BY DEF CleanedUp, ChannelRecords
  <2>2. r.start_at_next = 0 /\ (r = channel[c] \/ r.source = NULL)
    BY <1>2, <1>6, <2>1 DEF Faithful
  <2>3. Faithful(r, request[c])
    BY <1>2, <2>2 DEF Faithful
  <2>4. Faithful([CleanedUp(r) EXCEPT !.volume = 255], request[c])
    BY <2>1, <2>2 DEF Faithful
  <2>5. Faithful(Installed(r, cmd), "none")
    BY <2>2 DEF Faithful, Installed
  <2>6. QED
    BY <1>3, <1>5, <1>6, <2>3, <2>4, <2>5 DEF InitSource
<1>7. CASE HandleQueue(cmd)
  <2>1. CASE \E c \in Channels : InitSource(c, channel[c], {}, cmd)
    BY <1>2, <1>6, <2>1
  <2>2. CASE \E c \in Channels : InitSource(c, CleanedUp(channel[c]), Callback(channel[c]), cmd)
    BY <1>2, <1>6, <2>2, CleanedUpType
  <2>3. QED
    BY <1>4, <1>7, <2>1, <2>2 DEF HandleQueue
<1>8. CASE HandleAll(cmd)
  <2>1. SUFFICES ASSUME NEW c \in Channels PROVE Faithful(channel'[c], request'[c])
    OBVIOUS
  <2>2. channel'[c] = [channel[c] EXCEPT !.paused = (cmd.op = "PAUSE_ALL")]
    BY <1>8 DEF HandleAll
  <2>3. request'[c] = IF cmd.op = "RESUME_ALL" THEN "play"
                      ELSE IF channel[c].paused THEN request[c] ELSE "pause"
    BY <1>8 DEF HandleAll
  <2>4. CASE cmd.op = "RESUME_ALL"
    <3>1. channel'[c] = [channel[c] EXCEPT !.paused = FALSE]
      BY <2>2, <2>4
    <3>2. channel'[c].paused = FALSE /\ channel'[c].start_at_next = channel[c].start_at_next
      BY <1>2, <3>1 DEF ChannelRecords
    <3>3. QED
      BY <1>2, <2>3, <2>4, <3>2 DEF Faithful
  <2>5. CASE cmd.op = "PAUSE_ALL"
    <3>1. channel'[c] = [channel[c] EXCEPT !.paused = TRUE]
      BY <2>2, <2>5
    <3>2. /\ channel'[c].paused = TRUE /\ channel'[c].start_at_next = channel[c].start_at_next
          /\ channel'[c].source = channel[c].source
      BY <1>2, <3>1 DEF ChannelRecords
    <3>3. QED
      BY <1>2, <2>3, <2>5, <3>2 DEF Faithful
  <2>6. QED
    BY <1>8, <2>4, <2>5 DEF HandleAll
<1>9. CASE HandleChannel(cmd)
  <2>1. PICK c \in Channels :
          /\ channel' = [channel EXCEPT ![c] = Updated(channel[c], cmd)]
          /\ request' = [request EXCEPT ![c] = Requested(request[c], channel[c], cmd)]
    BY <1>9 DEF HandleChannel
  <2>2. Faithful(Updated(channel[c], cmd), Requested(request[c], channel[c], cmd))
    BY <1>1, <1>2, <1>9, UpdatedFaithful DEF HandleChannel
  <2>3. QED
    BY <1>3, <2>1, <2>2
<1>10. QED
  BY <1>4, <1>7, <1>8, <1>9 DEF HandleCmd, HandleBeatSync, HandleUnknown

LEMMA SampleFaithful ==
  ASSUME TypeOK, AskedInv, SampleStep, "START_AT_NEXT" \notin Ops
  PROVE  \A c \in Channels : Faithful(channel'[c], request'[c])
<1> DEFINE ch == mixer.ch
           r  == channel[ch]
<1>1. /\ ch \in Channels /\ r \in ChannelRecords /\ UNCHANGED request
      /\ \A c \in Channels : Faithful(channel[c], request[c])
  BY DEF TypeOK, AskedInv, SampleStep, SkipChannel, PlaySample, NeedChunk, Refill, RefillShort,
         Rewind, EndOfSound
<1>2. ASSUME NEW x, channel' = [channel EXCEPT ![ch] = x], Faithful(x, request[ch])
      PROVE  \A c \in Channels : Faithful(channel'[c], request'[c])
  <2>1. channel'[ch] = x /\ \A c \in Channels \ {ch} : channel'[c] = channel[c]
    BY <1>1, <1>2 DEF TypeOK
  <2>2. QED
    BY <1>1, <1>2, <2>1, Zenon
<1>3. CASE SkipChannel \/ PlaySample \/ NeedChunk
  <2>1. r.start_at_next = 0
    BY <1>1 DEF Faithful
  <2>2. AutoStarted(r) = r
    <3>1. r.paused \in BOOLEAN /\ ~(r.start_at_next > 0)
      BY <1>1, <2>1 DEF ChannelRecords
    <3>2. (r.paused /\ ~(r.start_at_next > 0 /\ beat_sync_count % r.start_at_next = 0)) = r.paused
      BY <3>1
    <3>3. [r EXCEPT !.paused = r.paused] = r
      BY <1>1 DEF ChannelRecords
    <3>4. QED
      BY <3>2, <3>3 DEF AutoStarted
  <2>3. LET u == [r EXCEPT !.exhausted = TRUE]
        IN  u.start_at_next = r.start_at_next /\ u.source = r.source /\ u.paused = r.paused
    BY <1>1 DEF ChannelRecords
  <2>4. Faithful(r, request[ch]) /\ Faithful([r EXCEPT !.exhausted = TRUE], request[ch])
    BY <1>1, <2>3 DEF Faithful
  <2>5. \/ channel' = [channel EXCEPT ![ch] = r]
        \/ channel' = [channel EXCEPT ![ch] = [r EXCEPT !.exhausted = TRUE]]
    BY <1>3, <2>2 DEF SkipChannel, PlaySample, NeedChunk
  <2>6. QED
    BY <1>2, <2>4, <2>5
<1>4. CASE Refill \/ RefillShort \/ Rewind
  <2>1. PICK n :
          \/ channel' = [channel EXCEPT ![ch] =
                           [r EXCEPT !.pos = n, !.buffer = n, !.exhausted = FALSE]]
          \/ channel' = [channel EXCEPT ![ch] = [r EXCEPT !.pos = n, !.buffer = n]]
    BY <1>4 DEF Refill, RefillShort, Rewind
  <2>2. LET u == [r EXCEPT !.pos = n, !.buffer = n, !.exhausted = FALSE]
            v == [r EXCEPT !.pos = n, !.buffer = n]
        IN  /\ u.start_at_next = r.start_at_next /\ u.source = r.source /\ u.paused = r.paused
            /\ v.start_at_next = r.start_at_next /\ v.source = r.source /\ v.paused = r.paused
    BY <1>1 DEF ChannelRecords
  <2>3. /\ Faithful([r EXCEPT !.pos = n, !.buffer = n, !.exhausted = FALSE], request[ch])
        /\ Faithful([r EXCEPT !.pos = n, !.buffer = n], request[ch])
    BY <1>1, <2>2 DEF Faithful
  <2>4. QED
    BY <1>2, <2>1, <2>3
<1>5. CASE EndOfSound
  <2>1. CleanedUp(r).start_at_next = r.start_at_next /\ CleanedUp(r).source = NULL
    BY <1>1 DEF CleanedUp, ChannelRecords
  <2>2. Faithful(CleanedUp(r), request[ch])
    BY <1>1, <2>1 DEF Faithful
  <2>3. QED
    BY <1>2, <1>5, <2>2 DEF EndOfSound
<1>6. QED
  BY <1>3, <1>4, <1>5 DEF SampleStep

LEMMA AskedStep ==
  ASSUME TypeOK, AskedInv, Next
  PROVE  AskedInv'
<1>1. SUFFICES ASSUME "START_AT_NEXT" \notin Ops
               PROVE  /\ \A k \in DOMAIN cmd_queue' : cmd_queue'[k].op # "START_AT_NEXT"
                      /\ \A c \in Channels : Faithful(channel'[c], request'[c])
  BY DEF AskedInv, Faithful
<1>2. /\ \A k \in DOMAIN cmd_queue : cmd_queue[k].op # "START_AT_NEXT"
      /\ \A c \in Channels : Faithful(channel[c], request[c])
  BY <1>1 DEF AskedInv
<1>3. CASE \E t \in Threads : Client(t)
  <2>1. PICK t \in Threads : Client(t)
    BY <1>3
  <2>2. UNCHANGED <<channel, request>>
    BY <2>1 DEF Client, ReadId, CasId, SendQueue, Post
  <2>3. ASSUME NEW cmd, cmd.op # "START_AT_NEXT", Send(cmd)
        PROVE  \A k \in DOMAIN cmd_queue' : cmd_queue'[k].op # "START_AT_NEXT"
    BY <1>2, <2>3 DEF Send, TypeOK
  <2>4. CASE UNCHANGED cmd_queue
    BY <1>2, <2>2, <2>4
  <2>5. CASE \E cmd : cmd.op # "START_AT_NEXT" /\ Send(cmd)
    BY <1>2, <2>2, <2>3, <2>5
  <2>6. CASE SendQueue(t) \/ Post(t)
    <3>1. ASSUME NEW op, NEW i, NEW snd, NEW p, op # "START_AT_NEXT"
          PROVE  [op |-> op, id |-> i, snd |-> snd, param |-> p].op # "START_AT_NEXT"
      BY <3>1
    <3>2. QED
      BY <1>1, <2>5, <2>6, <3>1 DEF SendQueue, Post
  <2>7. QED
    BY <2>1, <2>4, <2>6 DEF Client, ReadId, CasId
<1>4. CASE HandleCmd
  <2>1. \A k \in DOMAIN cmd_queue' : k + 1 \in DOMAIN cmd_queue /\ cmd_queue'[k] = cmd_queue[k + 1]
    BY <1>4, HeadTail DEF HandleCmd, TypeOK
  <2>2. QED
    BY <1>1, <1>2, <1>4, <2>1, HandleFaithful
<1>5. CASE SampleStep
  <2>1. UNCHANGED cmd_queue
    BY <1>5 DEF SampleStep, SkipChannel, PlaySample, NeedChunk, Refill, RefillShort, Rewind,
                EndOfSound
  <2>2. QED
    BY <1>1, <1>2, <1>5, <2>1, SampleFaithful
<1>6. CASE NoBeat \/ Beat \/ DrainDone
  <2>1. UNCHANGED <<channel, request, cmd_queue>>
    BY <1>6 DEF NoBeat, Beat, DrainDone
  <2>2. QED
    BY <1>2, <2>1
<1>7. CASE Panic
  <2>1. cmd_queue' = <<>> /\ \A c \in Channels : channel'[c] = NewChannel
    BY <1>7 DEF Panic
  <2>2. QED
    BY <2>1 DEF NewChannel, Faithful
<1>8. QED
  BY <1>3, <1>4, <1>5, <1>6, <1>7 DEF Next, Mixer, SampleStep

(* As long as no client uses START_AT_NEXT, a sound in a channel is paused  *)
(* unless the last request for it was to play: nothing of the channel's    *)
(* earlier sounds or of a PAUSE_ALL leaks into it (init_source,            *)
(* clean_up_channel, handle_cmd).                                          *)
THEOREM SoundsPlayAsAsked == Spec => []("START_AT_NEXT" \notin Ops => PlaysWhatWasAsked)
<1>1. Init => AskedInv
  BY DEF Init, NewChannel, AskedInv, Faithful
<1>2. TypeOK /\ AskedInv /\ [Next]_vars => AskedInv'
  <2>1. ASSUME AskedInv, UNCHANGED vars PROVE AskedInv'
    BY <2>1 DEF AskedInv, Faithful, vars, historyVars
  <2>2. QED
    BY <2>1, AskedStep
<1>3. AskedInv => ("START_AT_NEXT" \notin Ops => PlaysWhatWasAsked)
  BY DEF AskedInv, Faithful, PlaysWhatWasAsked
<1>4. QED
  BY <1>1, <1>2, <1>3, TypeCorrect, PTL DEF Spec

-----------------------------------------------------------------------------
(* Callbacks run after their sounds                                        *)

(* A callback may stay in a channel after the sound it was registered for.  *)
(* Its sound is then in no other channel, and never on its way again.      *)
CallbackInv ==
  \A c \in Channels : channel[c].callback # 0 =>
    /\ channel[c].callback <= curr_id
    /\ \A t \in Threads : Pending(t) => channel[c].callback # old_id[t] + 1
    /\ \A k \in DOMAIN cmd_queue : IsQueueCmd(k) => channel[c].callback # cmd_queue[k].id
    /\ \A d \in Channels : channel[d].id = channel[c].callback => d = c

(* What a mixer step may do to the callbacks: keep one, register one for   *)
(* the sound of the channel or for none, and run one whose sound is no longer in the channel.    *)
CallbacksKept ==
  \A d \in Channels :
    \/ channel'[d].callback = channel[d].callback \/ channel'[d].callback = Stray
    \/ /\ channel[d].id # 0 /\ channel'[d].id = channel[d].id
       /\ channel'[d].callback = channel[d].id
FiredAfter ==
  \A e \in fired' :
    /\ e[1] # 0
    /\ \E d \in Channels : e[1] = channel'[d].callback /\ e[1] # channel'[d].id

LEMMA UpdatedCallback ==
  ASSUME NEW r \in ChannelRecords, NEW cmd \in Commands, cmd.op \in ChannelOps
  PROVE  \/ Updated(r, cmd).callback = r.callback
         \/ /\ Updated(r, cmd).id = r.id
            /\ Updated(r, cmd).callback = Handle(cmd.id)
<1>1. CASE cmd.op = "STOP"
  <2>1. CleanedUp(r).callback = r.callback
    BY DEF CleanedUp, ChannelRecords
  <2>2. QED
    BY <1>1, <2>1 DEF Updated
<1>2. CASE cmd.op # "STOP"
  BY <1>2 DEF Updated, ChannelRecords, ChannelOps
<1>3. QED
  BY <1>1, <1>2

LEMMA HandleCallbacks ==
  ASSUME TypeOK, IdInv, CallbackInv, HandleCmd
  PROVE  CallbacksKept /\ FiredAfter
<1> DEFINE cmd == Head(cmd_queue)
<1>1. /\ cmd \in Commands /\ cmd = cmd_queue[1] /\ 1 \in DOMAIN cmd_queue
      /\ cmd.op = "QUEUE" => IsQueueCmd(1)
  BY HeadTail DEF TypeOK, HandleCmd, IdInv, IdsIssued, IsQueueCmd
<1>2. \A d \in Channels : channel[d] \in ChannelRecords
  BY DEF TypeOK
<1>3. ASSUME NEW c \in Channels, NEW x, channel' = [channel EXCEPT ![c] = x],
             x.callback = channel[c].callback,
             \A e \in fired' : e[1] # 0 /\ e[1] = x.callback /\ e[1] # x.id
      PROVE  CallbacksKept /\ FiredAfter
  <2>1. channel'[c] = x /\ \A d \in Channels \ {c} : channel'[d] = channel[d]
    BY <1>3 DEF TypeOK
  <2>2. CallbacksKept
    BY <1>3, <2>1, Zenon DEF CallbacksKept
  <2>3. FiredAfter
    BY <1>3, <2>1, Zenon DEF FiredAfter
  <2>4. QED
    BY <2>2, <2>3
<1>4. ASSUME UNCHANGED channel, fired' = {}
      PROVE  CallbacksKept /\ FiredAfter
  BY <1>4, Zenon DEF CallbacksKept, FiredAfter
<1>5. ASSUME NEW r \in ChannelRecords, NEW e \in Callback(r)
      PROVE  e[1] = r.callback /\ e[1] # 0
  BY <1>5 DEF Callback
<1>6. ASSUME NEW z \in ChannelRecords
      PROVE  /\ CleanedUp(z).callback = z.callback /\ CleanedUp(z).id = 0
             /\ [CleanedUp(z) EXCEPT !.volume = 255].callback = z.callback
             /\ [CleanedUp(z) EXCEPT !.volume = 255].id = 0
  BY DEF CleanedUp, ChannelRecords
<1>7. CASE HandleQueue(cmd)
  <2>1. cmd.op = "QUEUE" /\ \A c \in Channels : channel[c].callback # 0 => channel[c].callback # cmd.id
    BY <1>1, <1>7 DEF HandleQueue, CallbackInv
  <2>2. ASSUME NEW c \in Channels, NEW r \in ChannelRecords, NEW f,
               r.callback = channel[c].callback,
               \A e \in f : e[1] # 0 /\ e[1] = r.callback /\ e[1] # r.id,
               InitSource(c, r, f, cmd)
        PROVE  CallbacksKept /\ FiredAfter
    <3>1. CASE channel' = [channel EXCEPT ![c] = r] /\ fired' = f
      BY <1>3, <2>2, <3>1
    <3>2. CASE /\ channel' = [channel EXCEPT ![c] = [CleanedUp(r) EXCEPT !.volume = 255]]
               /\ fired' = f \cup Callback(r)
      <4>1. \A e \in fired' : e[1] # 0 /\ e[1] = r.callback
        BY <1>5, <2>2, <3>2
      <4>2. /\ [CleanedUp(r) EXCEPT !.volume = 255].callback = r.callback
            /\ [CleanedUp(r) EXCEPT !.volume = 255].id = 0
        BY <1>6
      <4>3. QED
        BY <1>3, <2>2, <3>2, <4>1, <4>2
    <3>3. CASE channel' = [channel EXCEPT ![c] = Installed(r, cmd)] /\ fired' = f
      <4>1. Installed(r, cmd).callback = r.callback /\ Installed(r, cmd).id = cmd.id
        BY DEF Installed
      <4>2. \A e \in fired' : e[1] # 0 /\ e[1] = r.callback /\ e[1] # cmd.id
        BY <2>1, <2>2, <3>3
      <4>3. QED
        BY <1>3, <2>2, <3>3, <4>1, <4>2
    <3>4. QED
      BY <2>2, <3>1, <3>2, <3>3 DEF InitSource
  <2>3. CASE \E c \in Channels : InitSource(c, channel[c], {}, cmd)
    BY <1>2, <2>2, <2>3
  <2>4. CASE \E c \in Channels : InitSource(c, CleanedUp(channel[c]), Callback(channel[c]), cmd)
    <3>1. PICK c \in Channels : InitSource(c, CleanedUp(channel[c]), Callback(channel[c]), cmd)
      BY <2>4
    <3>2. /\ CleanedUp(channel[c]) \in ChannelRecords
          /\ CleanedUp(channel[c]).callback = channel[c].callback /\ CleanedUp(channel[c]).id = 0
          /\ \A e \in Callback(channel[c]) : e[1] # 0 /\ e[1] = channel[c].callback
      BY <1>2, <1>5, <1>6, CleanedUpType
    <3>3. QED
      BY <2>2, <3>1, <3>2
  <2>5. QED
    BY <1>4, <1>7, <2>3, <2>4 DEF HandleQueue
<1>8. CASE HandleAll(cmd)
  <2>1. ASSUME NEW r \in ChannelRecords, NEW b
        PROVE  [r EXCEPT !.paused = b].callback = r.callback
    BY DEF ChannelRecords
  <2>2. \A c \in Channels : channel'[c] = [channel[c] EXCEPT !.paused = (cmd.op = "PAUSE_ALL")]
    BY <1>8 DEF HandleAll
  <2>3. \A c \in Channels :
          [channel[c] EXCEPT !.paused = (cmd.op = "PAUSE_ALL")].callback = channel[c].callback
    BY <1>2, <2>1, Zenon
  <2>4. \A c \in Channels : channel'[c].callback = channel[c].callback
    BY <2>2, <2>3, Zenon
  <2>5. QED
    BY <1>8, <2>4 DEF HandleAll, CallbacksKept, FiredAfter
<1>9. CASE HandleChannel(cmd)
  <2>1. PICK c \in Channels :
          /\ IsFirst(c, With(cmd.id))
          /\ channel' = [channel EXCEPT ![c] = Updated(channel[c], cmd)]
          /\ fired' = IF cmd.op = "STOP" THEN Callback(channel[c]) ELSE {}
    BY <1>9 DEF HandleChannel
  <2>2. channel[c].id = cmd.id
    BY <2>1 DEF IsFirst, With
  <2>3. /\ channel'[c] = Updated(channel[c], cmd)
        /\ \A d \in Channels \ {c} : channel'[d] = channel[d]
    BY <2>1 DEF TypeOK
  <2>4. CallbacksKept
    <3>1. \/ channel'[c].callback = channel[c].callback
          \/ channel'[c].id = channel[c].id /\ channel'[c].callback = Handle(channel[c].id)
      BY <1>1, <1>2, <1>9, <2>2, <2>3, UpdatedCallback DEF HandleChannel
    <3>2. QED
      BY <2>3, <3>1 DEF CallbacksKept, Handle
  <2>5. FiredAfter
    <3>1. CASE cmd.op = "STOP"
      <4>1. channel'[c] = CleanedUp(channel[c])
        BY <2>3, <3>1 DEF Updated
      <4>2. channel'[c].callback = channel[c].callback /\ channel'[c].id = 0
        BY <1>2, <1>6, <4>1
      <4>3. \A e \in fired' : e[1] # 0 /\ e[1] = channel[c].callback
        BY <1>2, <1>5, <2>1, <3>1
      <4>4. QED
        BY <4>2, <4>3 DEF FiredAfter
    <3>2. CASE cmd.op # "STOP"
      BY <2>1, <3>2 DEF FiredAfter
    <3>3. QED
      BY <3>1, <3>2
  <2>6. QED
    BY <2>4, <2>5
<1>10. QED
  BY <1>4, <1>7, <1>8, <1>9 DEF HandleCmd, HandleBeatSync, HandleUnknown

LEMMA SampleCallbacks ==
  ASSUME TypeOK, MixerPointersValid, SampleStep
  PROVE  CallbacksKept /\ FiredAfter
<1> DEFINE ch == mixer.ch
           r  == channel[ch]
<1>1. ch \in Channels /\ r \in ChannelRecords /\ AutoStarted(r) \in ChannelRecords
  BY AutoStartedType DEF TypeOK
<1>2. \A d \in Channels \ {ch} : channel'[d] = channel[d]
  BY SampleStepEffect
<1>3. CASE EndOfSound
  <2>1. CleanedUp(r).callback = r.callback /\ CleanedUp(r).id = 0
    BY <1>1 DEF CleanedUp, ChannelRecords
  <2>2. channel'[ch] = CleanedUp(r)
    BY <1>1, <1>3 DEF EndOfSound, TypeOK
  <2>3. \A e \in fired' : e[1] # 0 /\ e[1] = r.callback
    BY <1>3 DEF EndOfSound, Callback
  <2>4. CallbacksKept
    BY <1>1, <1>2, <2>1, <2>2 DEF CallbacksKept
  <2>5. FiredAfter
    BY <1>1, <2>1, <2>2, <2>3 DEF FiredAfter
  <2>6. QED
    BY <2>4, <2>5
<1>4. CASE SkipChannel \/ PlaySample \/ NeedChunk
  <2>1. /\ AutoStarted(r).callback = r.callback
        /\ [AutoStarted(r) EXCEPT !.exhausted = TRUE].callback = AutoStarted(r).callback
    BY <1>1 DEF AutoStarted, ChannelRecords
  <2>2. channel'[ch].callback = r.callback /\ fired' = {}
    BY <1>1, <1>4, <2>1 DEF SkipChannel, PlaySample, NeedChunk, TypeOK
  <2>3. QED
    BY <1>2, <2>2 DEF CallbacksKept, FiredAfter
<1>5. CASE Refill \/ RefillShort \/ Rewind
  <2>1. PICK n :
          \/ channel' = [channel EXCEPT ![ch] =
                           [r EXCEPT !.pos = n, !.buffer = n, !.exhausted = FALSE]]
          \/ channel' = [channel EXCEPT ![ch] = [r EXCEPT !.pos = n, !.buffer = n]]
    BY <1>5 DEF Refill, RefillShort, Rewind
  <2>2. /\ [r EXCEPT !.pos = n, !.buffer = n, !.exhausted = FALSE].callback = r.callback
        /\ [r EXCEPT !.pos = n, !.buffer = n].callback = r.callback
    BY <1>1 DEF ChannelRecords
  <2>3. \/ channel'[ch] = [r EXCEPT !.pos = n, !.buffer = n, !.exhausted = FALSE]
        \/ channel'[ch] = [r EXCEPT !.pos = n, !.buffer = n]
    BY <1>1, <2>1, Zenon DEF TypeOK
  <2>4. channel'[ch].callback = r.callback
    BY <2>2, <2>3, Zenon
  <2>5. fired' = {}
    BY <1>5 DEF Refill, RefillShort, Rewind
  <2>6. QED
    BY <1>2, <2>4, <2>5 DEF CallbacksKept, FiredAfter
<1>6. QED
  BY <1>3, <1>4, <1>5 DEF SampleStep

(* A mixer step keeps CallbackInv: only the sound a channel holds can be    *)
(* registered in it, and the id of a received QUEUE is no callback's.      *)
LEMMA CallbacksStaySettled ==
  ASSUME TypeOK, TypeOK', IdInv, CallbackInv, CallbacksKept,
         UNCHANGED <<curr_id, pc, old_id>>, NEW s \in {0, 1}, NEW c \in Channels,
         \A k \in DOMAIN cmd_queue' : k + s \in DOMAIN cmd_queue /\ cmd_queue'[k] = cmd_queue[k + s],
         \A d \in Channels :
           \/ channel'[d].id = channel[d].id \/ channel'[d].id = 0
           \/ d = c /\ s = 1 /\ IsQueueCmd(1) /\ channel'[d].id = cmd_queue[1].id
  PROVE  CallbackInv'
<1>1. SUFFICES ASSUME NEW d \in Channels, channel'[d].callback # 0
               PROVE  /\ channel'[d].callback <= curr_id'
                      /\ \A t \in Threads : Pending(t)' => channel'[d].callback # old_id'[t] + 1
                      /\ \A k \in DOMAIN cmd_queue' :
                           IsQueueCmd(k)' => channel'[d].callback # cmd_queue'[k].id
                      /\ \A e \in Channels : channel'[e].id = channel'[d].callback => e = d
  BY DEF CallbackInv
<1> DEFINE h == channel'[d].callback
<1>2. /\ \A k \in DOMAIN cmd_queue' : IsQueueCmd(k)' => IsQueueCmd(k + s)
      /\ \A t \in Threads : Pending(t)' <=> Pending(t)
  BY DEF IsQueueCmd, Pending
<1>3. /\ h <= curr_id
      /\ \A t \in Threads : Pending(t) => h # old_id[t] + 1
      /\ \A k \in DOMAIN cmd_queue : IsQueueCmd(k) => h # cmd_queue[k].id
      /\ \A e \in Channels : channel[e].id = h => e = d
  <2>1. CASE h = channel[d].callback
    BY <1>1, <2>1 DEF CallbackInv
  <2>2. CASE channel[d].id # 0 /\ h = channel[d].id
    BY <2>2 DEF IdInv, IdsUnique, IdsIssued
  <2>3. CASE h = Stray
    BY <2>3, IdTypes DEF Stray, IsQueueCmd
  <2>4. QED
    BY <2>1, <2>2, <2>3 DEF CallbacksKept
<1>4. \A k \in DOMAIN cmd_queue' : IsQueueCmd(k)' => h # cmd_queue'[k].id
  BY <1>2, <1>3
<1>5. \A e \in Channels : channel'[e].id = h => e = d
  BY <1>1, <1>3 DEF IsQueueCmd
<1>6. QED
  BY <1>2, <1>3, <1>4, <1>5

LEMMA CallbackClient ==
  ASSUME TypeOK, TypeOK', IdInv, CallbackInv, NEW t \in Threads, Client(t)
  PROVE  CallbackInv'
<1>1. UNCHANGED channel
  BY DEF Client, ReadId, CasId, SendQueue, Post
<1>2. \A c \in Channels : channel[c].callback \in Int
  <2>1. \A r \in ChannelRecords : r.callback \in Int
    BY DEF ChannelRecords, Stray
  <2>2. QED
    BY <2>1 DEF TypeOK
<1>3. CASE ReadId(t) \/ CasId(t)
  <2>1. UNCHANGED cmd_queue /\ curr_id' \in Nat /\ curr_id' >= curr_id
    BY <1>3, IdTypes DEF ReadId, CasId
  <2>2. \A u \in Threads : Pending(u)' =>
          \/ Pending(u) /\ old_id'[u] = old_id[u]
          \/ old_id'[u] = curr_id
    BY <1>3 DEF ReadId, CasId, Pending, TypeOK
  <2>3. \A c \in Channels : channel[c].callback # 0 =>
          \A u \in Threads : Pending(u)' => channel[c].callback # old_id'[u] + 1
    BY <1>2, <2>2, IdTypes DEF CallbackInv
  <2>4. QED
    BY <1>1, <1>2, <2>1, <2>3, IdTypes DEF CallbackInv, IsQueueCmd
<1>4. ASSUME NEW cmd, Send(cmd), UNCHANGED <<curr_id, old_id>>,
             \A u \in Threads : Pending(u)' => Pending(u),
             cmd.op = "QUEUE" => \E u \in Threads : Pending(u) /\ cmd.id = old_id[u] + 1
      PROVE  CallbackInv'
  <2>1. \A k \in DOMAIN cmd_queue' :
          cmd_queue'[k] = cmd \/ (k \in DOMAIN cmd_queue /\ cmd_queue'[k] = cmd_queue[k])
    BY <1>4 DEF Send, TypeOK
  <2>2. QED
    BY <1>1, <1>4, <2>1 DEF CallbackInv, IsQueueCmd
<1>5. CASE SendQueue(t)
  <2>1. PICK snd, p : Send([op |-> "QUEUE", id |-> old_id[t] + 1, snd |-> snd, param |-> p])
    BY <1>5 DEF SendQueue
  <2>2. Pending(t) /\ \A u \in Threads : Pending(u)' => Pending(u)
    BY <1>5 DEF SendQueue, Pending, TypeOK
  <2>3. QED
    BY <1>4, <1>5, <2>1, <2>2 DEF SendQueue
<1>6. CASE Post(t)
  <2>1. UNCHANGED <<curr_id, old_id, pc>>
    BY <1>6 DEF Post, clientVars
  <2>2. PICK op, i, snd, p :
          /\ op # "QUEUE"
          /\ Send([op |-> op, id |-> i, snd |-> snd, param |-> p])
    BY <1>6 DEF Post, ChannelOps, GlobalOps
  <2>3. QED
    BY <1>4, <2>1, <2>2 DEF Pending
<1>7. QED
  BY <1>3, <1>5, <1>6 DEF Client

LEMMA CallbackMixer ==
  ASSUME TypeOK, TypeOK', MixerPointersValid, IdInv, CallbackInv, Mixer
  PROVE  CallbackInv' /\ FiredAfter
<1>1. UNCHANGED <<curr_id, pc, old_id>>
  BY DEF Mixer, NoBeat, Beat, HandleCmd, DrainDone, SkipChannel, PlaySample, NeedChunk, Refill,
         RefillShort, Rewind, EndOfSound, clientVars
<1>2. mixer.ch \in Channels
  BY DEF TypeOK
<1>3. CASE HandleCmd
  <2>1. PICK c \in Channels : \A d \in Channels :
          \/ channel'[d].id = channel[d].id \/ channel'[d].id = 0
          \/ d = c /\ IsQueueCmd(1) /\ channel'[d].id = cmd_queue[1].id
    BY <1>3, HandleEffect
  <2>2. \A k \in DOMAIN cmd_queue' : k + 1 \in DOMAIN cmd_queue /\ cmd_queue'[k] = cmd_queue[k + 1]
    BY <1>3, HeadTail DEF HandleCmd, TypeOK
  <2>3. QED
    BY <1>1, <1>3, <2>1, <2>2, HandleCallbacks, CallbacksStaySettled
<1>4. CASE SampleStep
  <2>1. UNCHANGED cmd_queue
    BY <1>4 DEF SampleStep, SkipChannel, PlaySample, NeedChunk, Refill, RefillShort,
        Rewind, EndOfSound
  <2>2. \A d \in Channels : channel'[d].id = channel[d].id \/ channel'[d].id = 0
    BY <1>4, SampleStepEffect
  <2>3. QED
    BY <1>1, <1>2, <1>4, <2>1, <2>2, SampleCallbacks, CallbacksStaySettled, IdTypes
<1>5. CASE NoBeat \/ Beat \/ DrainDone
  <2>1. UNCHANGED <<channel, cmd_queue>> /\ fired' = {}
    BY <1>5 DEF NoBeat, Beat, DrainDone
  <2>2. QED
    BY <1>1, <2>1 DEF CallbackInv, FiredAfter, Pending, IsQueueCmd
<1>6. QED
  BY <1>3, <1>4, <1>5 DEF Mixer, SampleStep

(* However long a callback lingers in a channel and whatever sound runs it  *)
(* in the end, its own sound is then neither queued nor playing: it ran    *)
(* out, was stopped or was evicted (clean_up_channel, handle_cmd).         *)
THEOREM CallbacksFollowTheirSound == Spec => []CallbackOnlyAfterItsSound
<1>1. Init => CallbackInv /\ CallbackOnlyAfterItsSound
  BY DEF Init, NewChannel, CallbackInv, CallbackOnlyAfterItsSound
<1>0. Init' => CallbackInv' /\ CallbackOnlyAfterItsSound'
  BY <1>1, PTL
<1>2. ASSUME CallbackInv', FiredAfter PROVE CallbackOnlyAfterItsSound'
  BY <1>2 DEF CallbackInv, FiredAfter, CallbackOnlyAfterItsSound
<1>3. SafetyInv /\ TypeOK' /\ CallbackInv /\ CallbackOnlyAfterItsSound /\ [Next]_vars
        => (CallbackInv /\ CallbackOnlyAfterItsSound)'
  <2>1. SUFFICES ASSUME SafetyInv, TypeOK', CallbackInv, CallbackOnlyAfterItsSound, [Next]_vars
                 PROVE  CallbackInv' /\ CallbackOnlyAfterItsSound'
    OBVIOUS
  <2>2. CASE UNCHANGED vars
    BY <2>1, <2>2 DEF CallbackInv, CallbackOnlyAfterItsSound, Pending, IsQueueCmd, vars,
                      clientVars, historyVars
  <2>3. CASE \E t \in Threads : Client(t)
    <3>1. CallbackInv'
      BY <2>1, <2>3, CallbackClient DEF SafetyInv
    <3>2. fired' = {}
      BY <2>3 DEF Client, ReadId, CasId, SendQueue, Post
    <3>3. QED
      BY <3>1, <3>2 DEF CallbackOnlyAfterItsSound
  <2>4. CASE Mixer
    BY <1>2, <2>1, <2>4, CallbackMixer DEF SafetyInv
  <2>5. CASE Panic
    BY <1>0, <2>5, PanicRestarts
  <2>6. QED
    BY <2>1, <2>2, <2>3, <2>4, <2>5 DEF Next
<1>4. QED
  BY <1>1, <1>3, SafetyInductive, TypeCorrect, PTL DEF Spec

-----------------------------------------------------------------------------
(* Chunks reach the output in order                                        *)

(* Between refills the decoder of a sound with an end has delivered just    *)
(* what was heard.  Within one it may be a short last chunk ahead, or back *)
(* at the start of a loop.                                                 *)
HasEnd(r) == r.source \in {"wav", "opus"}
InStep(r, h) ==
  HasEnd(r) => /\ r.pos = h /\ r.pos <= r.len
               /\ ~r.exhausted => r.buffer = h
Refilling(r, h) ==
  HasEnd(r) => /\ r.pos <= r.len
               /\ \/ r.pos = h
                  \/ r.source = "wav" /\ r.pos = r.len /\ h + 1 = r.len
                  \/ /\ r.source = "wav" /\ r.loop /\ h + 1 >= r.len
                     /\ r.pos <= 1 \/ r.pos = r.len
InRefill(c) == mixer.pc = "refill" /\ mixer.ch = c
HeardInv ==
  \A c \in Channels : /\ ~InRefill(c) => InStep(channel[c], heard[c])
                      /\ InRefill(c) => Refilling(channel[c], heard[c])

LEMMA UpdatedInStep ==
  ASSUME NEW r \in ChannelRecords, NEW cmd \in Commands, NEW h, InStep(r, h),
         cmd.op \in ChannelOps
  PROVE  InStep(Updated(r, cmd), h)
<1>1. CASE cmd.op = "STOP"
  <2>1. CleanedUp(r).source = NULL
    BY CleanedUpFields
  <2>2. QED
    BY <1>1, <2>1 DEF Updated, InStep, HasEnd, NULL
<1>2. CASE cmd.op # "STOP"
  <2>1. LET u == Updated(r, cmd)
        IN  /\ u.source = r.source /\ u.pos = r.pos /\ u.len = r.len
            /\ u.exhausted = r.exhausted /\ u.buffer = r.buffer
    BY <1>2 DEF Updated, ChannelRecords, ChannelOps
  <2>2. QED
    BY <2>1 DEF InStep, HasEnd
<1>3. QED
  BY <1>1, <1>2

LEMMA HandleHeard ==
  ASSUME TypeOK, IdInv, HeardInv, HandleCmd
  PROVE  InOrder /\ \A c \in Channels : InStep(channel'[c], heard'[c])
<1> DEFINE cmd  == Head(cmd_queue)
           Good == InOrder /\ \A c \in Channels : InStep(channel'[c], heard'[c])
<1>1. /\ cmd \in Commands /\ cmd = cmd_queue[1] /\ 1 \in DOMAIN cmd_queue
      /\ cmd.op = "QUEUE" => IsQueueCmd(1)
      /\ mixer.pc = "drain"
  BY HeadTail DEF TypeOK, HandleCmd, IsQueueCmd
<1>2. \A c \in Channels : /\ channel[c] \in ChannelRecords /\ heard[c] \in Nat
                          /\ InStep(channel[c], heard[c])
  BY <1>1 DEF TypeOK, HeardInv, InRefill
<1>3. ASSUME NEW c \in Channels, NEW x, NEW h,
             channel' = [channel EXCEPT ![c] = x], heard' = [heard EXCEPT ![c] = h],
             InStep(x, h), h = heard[c] \/ x.id # channel[c].id
      PROVE  Good
  <2>1. channel'[c] = x /\ heard'[c] = h
    BY <1>3 DEF TypeOK
  <2>2. \A d \in Channels \ {c} : channel'[d] = channel[d] /\ heard'[d] = heard[d]
    BY <1>3 DEF TypeOK
  <2>3. \A d \in Channels : InStep(channel'[d], heard'[d])
    BY <1>2, <1>3, <2>1, <2>2, Zenon
  <2>4. InOrder
    BY <1>3, <2>1, <2>2 DEF InOrder
  <2>5. QED
    BY <2>3, <2>4
<1>4. ASSUME UNCHANGED <<channel, heard>> PROVE Good
  BY <1>2, <1>4, Zenon DEF InOrder
<1>5. \A c \in Channels : heard = [heard EXCEPT ![c] = heard[c]]
  BY DEF TypeOK
<1>6. ASSUME NEW c \in Channels, NEW r \in ChannelRecords, NEW f,
             r = channel[c] \/ r = CleanedUp(channel[c]), InitSource(c, r, f, cmd),
             cmd.op = "QUEUE"
      PROVE  Good
  <2>1. ASSUME NEW z \in ChannelRecords
        PROVE  /\ CleanedUp(z).source = NULL
               /\ [CleanedUp(z) EXCEPT !.volume = 255].source = NULL
    BY DEF CleanedUp, ChannelRecords
  <2>2. r = channel[c] \/ r.source = NULL
    BY <1>2, <1>6, <2>1
  <2>3. InStep(r, heard[c])
    BY <1>2, <2>2 DEF InStep, HasEnd, NULL
  <2>4. InStep([CleanedUp(r) EXCEPT !.volume = 255], heard[c])
    BY <2>1 DEF InStep, HasEnd, NULL
  <2>5. InStep(Installed(r, cmd), 0) /\ Installed(r, cmd).id # channel[c].id
    <3>1. LET u == Installed(r, cmd)
          IN  u.pos = 0 /\ u.len = cmd.snd.len /\ u.exhausted = TRUE /\ u.id = cmd.id
      BY DEF Installed
    <3>2. cmd.snd.len \in Nat
      BY <1>1 DEF Commands
    <3>3. cmd.id # channel[c].id
      BY <1>1, <1>6 DEF IdInv, IdsUnique
    <3>4. QED
      BY <3>1, <3>2, <3>3 DEF InStep
  <2>6. QED
    BY <1>3, <1>5, <1>6, <2>3, <2>4, <2>5 DEF InitSource
<1>7. CASE HandleQueue(cmd)
  <2>1. CASE \E c \in Channels : InitSource(c, channel[c], {}, cmd)
    BY <1>2, <1>6, <1>7, <2>1 DEF HandleQueue
  <2>2. CASE \E c \in Channels : InitSource(c, CleanedUp(channel[c]), Callback(channel[c]), cmd)
    BY <1>2, <1>6, <1>7, <2>2, CleanedUpType DEF HandleQueue
  <2>3. QED
    BY <1>4, <1>7, <2>1, <2>2 DEF HandleQueue
<1>8. CASE HandleAll(cmd)
  <2>1. \A c \in Channels : channel'[c] = [channel[c] EXCEPT !.paused = (cmd.op = "PAUSE_ALL")]
    BY <1>8 DEF HandleAll
  <2>2. ASSUME NEW r \in ChannelRecords, NEW b
        PROVE  LET u == [r EXCEPT !.paused = b]
               IN  /\ u.source = r.source /\ u.pos = r.pos /\ u.len = r.len
                   /\ u.exhausted = r.exhausted /\ u.buffer = r.buffer
    BY DEF ChannelRecords
  <2>3. ASSUME NEW r \in ChannelRecords, NEW b, NEW h, InStep(r, h)
        PROVE  InStep([r EXCEPT !.paused = b], h)
    BY <2>2, <2>3 DEF InStep, HasEnd
  <2>4. \A c \in Channels : InStep([channel[c] EXCEPT !.paused = (cmd.op = "PAUSE_ALL")], heard[c])
    BY <1>2, <2>3, Zenon
  <2>5. heard' = heard
    BY <1>8 DEF HandleAll
  <2>6. QED
    BY <2>1, <2>4, <2>5, Zenon DEF InOrder
<1>9. CASE HandleChannel(cmd)
  <2>1. PICK c \in Channels : channel' = [channel EXCEPT ![c] = Updated(channel[c], cmd)]
    BY <1>9 DEF HandleChannel
  <2>2. heard' = heard /\ InStep(Updated(channel[c], cmd), heard[c])
    BY <1>1, <1>2, <1>9, UpdatedInStep DEF HandleChannel
  <2>3. QED
    BY <1>3, <1>5, <2>1, <2>2
<1>10. QED
  BY <1>4, <1>7, <1>8, <1>9 DEF HandleCmd, HandleBeatSync, HandleUnknown

LEMMA SampleHeard ==
  ASSUME TypeOK, MixerPointersValid, HeardInv, SampleStep
  PROVE  InOrder /\ HeardInv'
<1> DEFINE ch == mixer.ch
           r  == channel[ch]
           h  == heard[ch]
           x  == channel'[ch]
           y  == heard'[ch]
<1>1. /\ ch \in Channels /\ r \in ChannelRecords /\ h \in Nat
      /\ r.pos \in Nat /\ r.len \in Nat /\ r.buffer \in Nat
  <2>1. \A z \in ChannelRecords : z.pos \in Nat /\ z.len \in Nat /\ z.buffer \in Nat
    BY DEF ChannelRecords
  <2>2. QED
    BY <2>1 DEF TypeOK
<1>2. /\ \A d \in Channels \ {ch} : channel'[d] = channel[d] /\ heard'[d] = heard[d]
      /\ mixer'.pc = "refill" => mixer'.ch = ch
  <2>1. UNCHANGED heard \/ \E n : heard' = [heard EXCEPT ![ch] = n]
    BY DEF SampleStep, SkipChannel, PlaySample, NeedChunk, Refill, RefillShort, Rewind, EndOfSound
  <2>2. \A d \in Channels \ {ch} : heard'[d] = heard[d]
    BY <2>1 DEF TypeOK
  <2>3. QED
    BY <2>2, SampleStepEffect
<1>3. NextChannel => mixer'.pc # "refill"
  BY DEF NextChannel, TypeOK
<1>4. ASSUME y # h /\ HasEnd(x) /\ x.id = r.id =>
               \/ y = h + 1 /\ y <= r.len
               \/ r.loop /\ r.source = "wav" /\ h + 1 >= r.len /\ y <= 2,
             mixer'.pc # "refill" => InStep(x, y),
             mixer'.pc = "refill" => Refilling(x, y)
      PROVE  InOrder /\ HeardInv'
  <2>1. InOrder
    BY <1>1, <1>2, <1>4 DEF InOrder, HasEnd
  <2>2. ASSUME NEW d \in Channels \ {ch}
        PROVE  InStep(channel'[d], heard'[d]) /\ ~InRefill(d)'
    <3>1. InStep(channel[d], heard[d])
      BY DEF HeardInv, InRefill
    <3>2. InStep(channel'[d], heard'[d])
      BY <1>2, <3>1, Zenon
    <3>3. QED
      BY <1>2, <3>2 DEF InRefill
  <2>3. /\ ~(mixer'.pc = "refill" /\ mixer'.ch = ch) => InStep(x, y)
        /\ mixer'.pc = "refill" /\ mixer'.ch = ch => Refilling(x, y)
    BY <1>2, <1>4
  <2>4. ASSUME NEW d \in Channels
        PROVE  /\ ~InRefill(d)' => InStep(channel'[d], heard'[d])
               /\ InRefill(d)' => Refilling(channel'[d], heard'[d])
    <3>1. CASE d = ch
      BY <2>3, <3>1, Zenon DEF InRefill
    <3>2. CASE d # ch
      BY <2>2, <3>2
    <3>3. QED
      BY <3>1, <3>2
  <2>5. QED
    BY <2>1, <2>4 DEF HeardInv
<1>5. /\ mixer.pc # "refill" => InStep(r, h)
      /\ mixer.pc = "refill" => Refilling(r, h)
  BY <1>1 DEF HeardInv, InRefill
<1>6. ASSUME NEW z \in ChannelRecords
      PROVE  LET u == AutoStarted(z)
                 v == [AutoStarted(z) EXCEPT !.exhausted = TRUE]
             IN  /\ u.source = z.source /\ u.pos = z.pos /\ u.len = z.len
                 /\ u.exhausted = z.exhausted /\ u.buffer = z.buffer
                 /\ v.source = z.source /\ v.pos = z.pos /\ v.len = z.len
  BY DEF AutoStarted, ChannelRecords
<1>7. CASE SkipChannel \/ PlaySample
  <2>1. x = AutoStarted(r) /\ mixer'.pc # "refill" /\ mixer.pc = "mix"
    BY <1>1, <1>3, <1>7 DEF SkipChannel, PlaySample, TypeOK
  <2>2. InStep(x, h) /\ (HasEnd(x) <=> HasEnd(r))
    BY <1>1, <1>5, <1>6, <2>1 DEF InStep, HasEnd
  <2>3. HasEnd(r) => y = h
    <3>1. CASE SkipChannel
      BY <3>1 DEF SkipChannel
    <3>2. CASE PlaySample
      <4>1. y = r.buffer /\ ~r.exhausted
        BY <1>1, <3>2 DEF PlaySample, TypeOK
      <4>2. QED
        BY <1>5, <2>1, <4>1 DEF InStep
    <3>3. QED
      BY <1>7, <3>1, <3>2
  <2>4. InStep(x, y)
    BY <2>2, <2>3 DEF InStep
  <2>5. QED
    BY <1>4, <2>1, <2>2, <2>3, <2>4
<1>8. CASE NeedChunk
  <2>1. /\ x = [AutoStarted(r) EXCEPT !.exhausted = TRUE] /\ y = h /\ mixer'.pc = "refill"
        /\ mixer.pc = "mix"
    BY <1>1, <1>8 DEF NeedChunk, TypeOK
  <2>2. Refilling(x, y)
    BY <1>1, <1>5, <1>6, <2>1 DEF InStep, Refilling, HasEnd
  <2>3. QED
    BY <1>4, <2>1, <2>2
<1>9. CASE Refill
  <2>1. PICK n \in Nat :
          /\ n = IF r.source = "synth" THEN 1 ELSE r.pos + 1
          /\ x = [r EXCEPT !.pos = n, !.buffer = n, !.exhausted = FALSE]
          /\ y = n
    <3>1. (IF r.source = "synth" THEN 1 ELSE r.pos + 1) \in Nat
      BY <1>1
    <3>2. PICK n \in Nat :
            /\ n = IF r.source = "synth" THEN 1 ELSE r.pos + 1
            /\ channel' = [channel EXCEPT ![ch] =
                             [r EXCEPT !.pos = n, !.buffer = n, !.exhausted = FALSE]]
            /\ heard' = [heard EXCEPT ![ch] = n]
      BY <1>9, <3>1 DEF Refill
    <3>3. /\ x = [r EXCEPT !.pos = n, !.buffer = n, !.exhausted = FALSE]
          /\ y = n
      BY <1>1, <3>2, Zenon DEF TypeOK
    <3>4. QED
      BY <3>2, <3>3
  <2>2. /\ x.source = r.source /\ x.pos = n /\ x.buffer = n /\ x.len = r.len
        /\ mixer.pc = "refill" /\ mixer'.pc # "refill"
    <3>1. LET u == [r EXCEPT !.pos = n, !.buffer = n, !.exhausted = FALSE]
          IN  u.source = r.source /\ u.pos = n /\ u.buffer = n /\ u.len = r.len
      BY <1>1 DEF ChannelRecords
    <3>2. QED
      BY <1>3, <1>9, <2>1, <3>1 DEF Refill
  <2>3. HasEnd(r) => n = r.pos + 1 /\ r.pos < r.len
    BY <1>1, <1>9, <2>1 DEF Refill, AtEnd, HasEnd
  <2>4. InStep(x, y)
    BY <1>1, <2>1, <2>2, <2>3 DEF InStep, HasEnd
  <2>5. HasEnd(r) => \/ y = h + 1 /\ y <= r.len
                     \/ r.loop /\ r.source = "wav" /\ h + 1 >= r.len /\ y <= 2
    BY <1>1, <1>5, <2>1, <2>2, <2>3 DEF Refilling
  <2>6. QED
    BY <1>4, <2>2, <2>4, <2>5 DEF HasEnd
<1>10. CASE RefillShort
  <2>1. /\ x = [r EXCEPT !.pos = r.len, !.buffer = r.len] /\ y = h /\ mixer' = mixer
        /\ mixer.pc = "refill" /\ r.source = "wav" /\ r.pos + 1 = r.len
    BY <1>1, <1>10 DEF RefillShort, TypeOK
  <2>2. x.source = r.source /\ x.pos = r.len /\ x.len = r.len /\ x.loop = r.loop
    BY <1>1, <2>1 DEF ChannelRecords
  <2>3. Refilling(x, y)
    BY <1>1, <1>5, <2>1, <2>2 DEF Refilling, HasEnd
  <2>4. QED
    BY <1>4, <2>1, <2>3
<1>11. CASE Rewind
  <2>1. PICK n \in {0, 1} :
          /\ n = IF r.len > 0 THEN 1 ELSE 0
          /\ x = [r EXCEPT !.pos = n, !.buffer = n]
    BY <1>1, <1>11 DEF Rewind, TypeOK
  <2>2. /\ y = h /\ mixer' = mixer /\ mixer.pc = "refill" /\ r.source = "wav" /\ r.loop
        /\ r.pos >= r.len
    BY <1>11 DEF Rewind, AtEnd
  <2>3. x.source = r.source /\ x.pos = n /\ x.len = r.len /\ x.loop = r.loop
    BY <1>1, <2>1 DEF ChannelRecords
  <2>4. h + 1 >= r.len
    BY <1>1, <1>5, <2>2 DEF Refilling, HasEnd
  <2>5. Refilling(x, y)
    BY <1>1, <2>1, <2>2, <2>3, <2>4 DEF Refilling, HasEnd
  <2>6. QED
    BY <1>4, <2>2, <2>5
<1>12. CASE EndOfSound
  <2>1. x = CleanedUp(r) /\ y = h /\ mixer'.pc # "refill"
    BY <1>1, <1>3, <1>12 DEF EndOfSound, TypeOK
  <2>2. ~HasEnd(x)
    BY <1>1, <2>1, CleanedUpFields DEF HasEnd, NULL
  <2>3. QED
    BY <1>4, <2>1, <2>2 DEF InStep
<1>13. QED
  BY <1>7, <1>8, <1>9, <1>10, <1>11, <1>12 DEF SampleStep

(* A sound with an end is heard chunk by chunk in the order of its decoder, *)
(* across pauses, commands, short last chunks and rewinds (sndmixer_task). *)
THEOREM ChunksStayInOrder == Spec => ChunksInOrder
<1>1. Init => HeardInv
  <2>1. SUFFICES ASSUME Init PROVE HeardInv
    OBVIOUS
  <2>2. mixer.pc # "refill" /\ \A c \in Channels : channel[c].source = NULL
    BY <2>1 DEF Init, NewChannel
  <2>3. QED
    BY <2>2 DEF HeardInv, InRefill, InStep, HasEnd, NULL
<1>0. Init' => HeardInv'
  BY <1>1, PTL
<1>2. SafetyInv /\ HeardInv /\ [Next]_vars => HeardInv' /\ [InOrder]_vars
  <2>1. SUFFICES ASSUME SafetyInv, HeardInv, [Next]_vars
                 PROVE  HeardInv' /\ (InOrder \/ UNCHANGED vars)
    OBVIOUS
  <2>2. ASSUME UNCHANGED <<channel, heard>>, mixer'.pc # "refill" \/ UNCHANGED mixer,
               mixer.pc # "refill" \/ UNCHANGED mixer
        PROVE  HeardInv' /\ InOrder
    BY <2>1, <2>2 DEF HeardInv, InRefill, InStep, Refilling, HasEnd, InOrder
  <2>3. CASE UNCHANGED vars
    BY <2>2, <2>3 DEF vars, historyVars
  <2>4. CASE \E t \in Threads : Client(t)
    BY <2>2, <2>4 DEF Client, ReadId, CasId, SendQueue, Post
  <2>5. CASE NoBeat \/ Beat \/ DrainDone
    <3>1. mixer.pc # "refill" /\ mixer'.pc # "refill" /\ UNCHANGED <<channel, heard>>
      BY <2>1, <2>5 DEF NoBeat, Beat, DrainDone, SafetyInv, TypeOK
    <3>2. QED
      BY <2>2, <3>1
  <2>6. CASE HandleCmd
    <3>1. InOrder /\ \A c \in Channels : InStep(channel'[c], heard'[c])
      BY <2>1, <2>6, HandleHeard DEF SafetyInv
    <3>2. mixer'.pc # "refill"
      BY <2>6 DEF HandleCmd
    <3>3. QED
      BY <3>1, <3>2 DEF HeardInv, InRefill
  <2>7. CASE SampleStep
    BY <2>1, <2>7, SampleHeard DEF SafetyInv
  <2>8. CASE Panic
    <3>1. \A c \in Channels : channel'[c].source = NULL
      BY <2>8 DEF Panic, NewChannel
    <3>2. QED
      BY <1>0, <2>8, <3>1, PanicRestarts DEF InOrder, NULL
  <2>9. QED
    BY <2>1, <2>3, <2>4, <2>5, <2>6, <2>7, <2>8 DEF Next, Mixer, SampleStep
<1>3. QED
  BY <1>1, <1>2, SafetyInductive, PTL DEF Spec, ChunksInOrder

=============================================================================
