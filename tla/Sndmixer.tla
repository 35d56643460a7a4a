------------------------------- MODULE Sndmixer -------------------------------
(***************************************************************************)
(* The sound mixer: components/driver_sndmixer/sndmixer.c.                 *)
(*                                                                         *)
(* Any number of client threads (the MicroPython binding) call the API.    *)
(* A call that queues a sound takes a fresh id with a compare-and-set loop *)
(* and every call pushes one command into a FreeRTOS queue, waiting while  *)
(* it is full.  One mixer task drains the queue, then assembles ChunkSize  *)
(* samples from its channels, refilling the buffer of a channel from its   *)
(* decoder when the accumulator runs past the end of the chunk.            *)
(*                                                                         *)
(* Audio is abstracted to chunks: a sound has "len" chunks, its decoder has *)
(* delivered "pos" of them, and the buffer of a channel holds the number of *)
(* the chunk decoded last (0: allocated but never written, or freed).      *)
(* The fixed-point accumulator is abstracted to "exhausted", its only use: *)
(* (dds_acc >> 16) >= chunksz.                                             *)
(***************************************************************************)
EXTENDS Integers, Sequences, FiniteSets

CONSTANTS
  Threads,     \* client threads that call the API
  NChannels,   \* no_channels of sndmixer_init
  QueueLen,    \* slots of cmd_queue (10 in the code)
  ChunkSize,   \* samples assembled per round (32 in the code)
  SubNotes,    \* period of beat_sync_count (32 in the code)
  Sounds,      \* what clients queue: records [kind, len]
  Intervals,   \* arguments of sndmixer_start_at_next
  Ops,         \* the commands the clients of this instance issue
  ZeroOps,     \* those of them that they also issue for id 0
  MaxId        \* bound: ids handed out

NULL == "NULL"

(* What tells the decoders apart here: "wav" (and mp3) can rewind, "opus"  *)
(* (and mod) ends but refuses to rewind, "synth" never ends.               *)
Kinds == {"wav", "opus", "synth"}

ASSUME SndmixerAssumption ==
  /\ NChannels \in Nat \ {0}
  /\ QueueLen \in Nat \ {0}
  /\ ChunkSize \in Nat \ {0}
  /\ SubNotes \in Nat \ {0}
  /\ Sounds \subseteq [kind: Kinds, len: Nat]
  /\ Intervals \subseteq 0 .. 127   \* what the int8_t start_at_next holds; the header asks for 1 .. 32
  /\ ZeroOps \subseteq Ops
  /\ MaxId \in Nat

VARIABLES
  channel,            \* the channel table
  curr_id,            \* last id handed out
  cmd_queue,          \* commands sent and not yet received
  beat_sync_count,    \* current sub-note
  beat_sync_enabled,
  pc,                 \* where each client thread is inside an API call
  old_id,             \* old_id of new_id() in each thread
  mixer,              \* mixer task: its pc, channel and sample counters
  fired,              \* history: callbacks run by the last step, <<handle, id of the ended sound>>
  request,            \* history: last request handled for the sound in each channel
  heard               \* history: last chunk of the sound in each channel that reached the output

clientVars == <<curr_id, pc, old_id>>
beatVars   == <<beat_sync_count, beat_sync_enabled>>
historyVars == <<fired, request, heard>>
vars == <<channel, clientVars, cmd_queue, beatVars, mixer, historyVars>>

Channels == 1 .. NChannels
NoSound  == [kind |-> NULL, len |-> 0]

-----------------------------------------------------------------------------
(* Client side: the API calls                                              *)

(* calloc of the channel table                                             *)
NewChannel ==
  [id |-> 0, source |-> NULL, len |-> 0, pos |-> 0, tone |-> 0, volume |-> 0,
   evictable |-> FALSE, paused |-> FALSE, loop |-> FALSE, callback |-> 0,
   start_at_next |-> 0, buffer |-> 0, exhausted |-> TRUE]

Init ==
  /\ channel = [c \in Channels |-> NewChannel]
  /\ curr_id = 0
  /\ cmd_queue = <<>>
  /\ beat_sync_count = 0
  /\ beat_sync_enabled = FALSE
  /\ pc = [t \in Threads |-> "idle"]
  /\ old_id = [t \in Threads |-> 0]
  /\ mixer = [pc |-> "beat", ch |-> 1, sample |-> 1]
  /\ fired = {}
  /\ request = [c \in Channels |-> "none"]
  /\ heard = [c \in Channels |-> 0]

(* Mutant: the id is known before the command is in the queue.             *)
ReturnedEarly == 1 .. curr_id

(* Ids a caller can hold: handed out, and their sndmixer_queue_* returned. *)
Returned == {i \in 1 .. curr_id : \A t \in Threads : ~(pc[t] = "send" /\ old_id[t] + 1 = i)}

(* Bound MaxId: a queueing call starts only while an id is left for it.    *)
IdLeft == curr_id + Cardinality({t \in Threads : pc[t] \in {"read", "cas"}}) < MaxId

(* new_id: old_id = curr_id, at the start of a queueing call or on a retry *)
ReadId(t) ==
  /\ \/ pc[t] = "idle" /\ "QUEUE" \in Ops /\ IdLeft
     \/ pc[t] = "read"
  /\ old_id' = [old_id EXCEPT ![t] = curr_id]
  /\ pc' = [pc EXCEPT ![t] = "cas"]
  /\ fired' = {}
  /\ UNCHANGED <<channel, curr_id, cmd_queue, beatVars, mixer, request, heard>>

(* Mutants: the id is stored without the comparison; a failed comparison   *)
(* does not read curr_id again.                                            *)
CasIdUnchecked(t) ==
  /\ pc[t] = "cas"
  /\ curr_id' = old_id[t] + 1
  /\ pc' = [pc EXCEPT ![t] = "send"]
  /\ fired' = {}
  /\ UNCHANGED <<channel, cmd_queue, old_id, beatVars, mixer, request, heard>>
CasIdStale(t) ==
  /\ pc[t] = "cas"
  /\ curr_id = old_id[t]
  /\ curr_id' = old_id[t] + 1
  /\ pc' = [pc EXCEPT ![t] = "send"]
  /\ fired' = {}
  /\ UNCHANGED <<channel, cmd_queue, old_id, beatVars, mixer, request, heard>>

(* new_id: uxPortCompareSet takes old_id + 1, or the loop goes round.      *)
CasId(t) ==
  /\ pc[t] = "cas"
  /\ \/ /\ curr_id = old_id[t]
        /\ curr_id' = old_id[t] + 1
        /\ pc' = [pc EXCEPT ![t] = "send"]
     \/ /\ curr_id # old_id[t]
        /\ pc' = [pc EXCEPT ![t] = "read"]
        /\ UNCHANGED curr_id
  /\ fired' = {}
  /\ UNCHANGED <<channel, cmd_queue, old_id, beatVars, mixer, request, heard>>

(* xQueueSend(cmd_queue, &cmd, portMAX_DELAY)                              *)
Send(cmd) ==
  /\ Len(cmd_queue) < QueueLen
  /\ cmd_queue' = Append(cmd_queue, cmd)

(* sndmixer_queue_*: the command is sent under the id, paused; then the    *)
(* call returns the id.                                                    *)
SendQueue(t) ==
  /\ pc[t] = "send"
  /\ \E snd \in Sounds, evictable \in BOOLEAN :
       /\ evictable => snd.kind = "wav"
       /\ Send([op |-> "QUEUE", id |-> old_id[t] + 1, snd |-> snd,
                param |-> IF evictable THEN 1 ELSE 0])
  /\ pc' = [pc EXCEPT ![t] = "idle"]
  /\ fired' = {}
  /\ UNCHANGED <<channel, curr_id, old_id, beatVars, mixer, request, heard>>

ChannelOps == {"LOOP", "VOLUME", "PLAY", "PAUSE", "STOP", "FREQ", "CALLBACK", "START_AT_NEXT"}
GlobalOps  == {"PAUSE_ALL", "RESUME_ALL", "BEAT_SYNC_START", "BEAT_SYNC_STOP"}

(* The argument beside the id.  FREQ stands for FREQ and WAVEFORM.         *)
Params(op) ==
  CASE op = "LOOP"          -> {0, 1}
    [] op = "VOLUME"        -> {0, 255}
    [] op = "FREQ"          -> {0, 1}
    [] op = "START_AT_NEXT" -> Intervals
    [] OTHER                -> {0}

(* Every other call sends one command and returns.  Python passes any int  *)
(* on as the id (modsndmixer.c).  Of those no call returned, 0 alone finds *)
(* a channel, a free one; a script that guesses the id of a call under way *)
(* is left out.                                                            *)
Post(t) ==
  /\ pc[t] = "idle"
  /\ \/ \E op \in Ops \cap ChannelOps :
        \E i \in Returned \cup {z \in {0} : op \in ZeroOps}, p \in Params(op) :
          Send([op |-> op, id |-> i, snd |-> NoSound, param |-> p])
     \/ \E op \in Ops \cap GlobalOps :
          Send([op |-> op, id |-> 0, snd |-> NoSound, param |-> 0])
  /\ fired' = {}
  /\ UNCHANGED <<channel, clientVars, beatVars, mixer, request, heard>>

-----------------------------------------------------------------------------
(* Mixer task: commands                                                    *)

IsFirst(c, S) == c \in S /\ \A d \in S : c <= d

(* Mutants: every channel may be evicted; only a playing channel is found. *)
EvictableAny    == Channels
WithPlaying(i)  == {c \in Channels : channel[c].id = i /\ ~channel[c].paused}

Free      == {c \in Channels : channel[c].source = NULL}
Evictable == {c \in Channels : channel[c].evictable}
With(i)   == {c \in Channels : channel[c].id = i}

(* clean_up_channel: the callback runs if there is one, then everything but *)
(* the callback, the volume, start_at_next and the accumulator is reset.   *)
CleanedUp(r) ==
  [r EXCEPT !.id = 0, !.source = NULL, !.len = 0, !.pos = 0, !.tone = 0, !.buffer = 0,
            !.evictable = FALSE, !.paused = FALSE, !.loop = FALSE]
Callback(r) == {h \in {<<r.callback, r.id>>} : r.callback # 0}

(* Mutants: the flags of the channel are kept; dds_acc starts at 0.        *)
InstalledKeepsFlags(r, cmd) ==
  [CleanedUp(r) EXCEPT !.id = cmd.id, !.source = cmd.snd.kind, !.len = cmd.snd.len,
                       !.volume = 255, !.exhausted = TRUE, !.paused = r.paused]
InstalledUnforced(r, cmd) ==
  [CleanedUp(r) EXCEPT !.id = cmd.id, !.source = cmd.snd.kind, !.len = cmd.snd.len,
                       !.volume = 255, !.exhausted = FALSE, !.paused = TRUE]

(* init_source on success, and the id and flags handle_cmd then sets: only *)
(* the callback and start_at_next survive from what the channel held.      *)
Installed(r, cmd) ==
  [id |-> cmd.id, source |-> cmd.snd.kind, len |-> cmd.snd.len, pos |-> 0, tone |-> 0,
   volume |-> 255, evictable |-> cmd.param = 1, paused |-> TRUE, loop |-> FALSE,
   callback |-> r.callback, start_at_next |-> r.start_at_next,
   buffer |-> 0, exhausted |-> TRUE]

(* init_source in channel c, whose contents find_free_channel left as r    *)
(* after running the callbacks in f: the decoder refuses the data, malloc  *)
(* of the buffer fails, or the sound is installed.                         *)
InitSource(c, r, f, cmd) ==
  \/ /\ channel' = [channel EXCEPT ![c] = r]
     /\ fired' = f
     /\ UNCHANGED <<request, heard>>
  \/ /\ channel' = [channel EXCEPT ![c] = [CleanedUp(r) EXCEPT !.volume = 255]]
     /\ fired' = f \cup Callback(r)
     /\ UNCHANGED <<request, heard>>
  \/ /\ channel' = [channel EXCEPT ![c] = Installed(r, cmd)]
     /\ fired' = f
     /\ request' = [request EXCEPT ![c] = "none"]
     /\ heard' = [heard EXCEPT ![c] = 0]

(* CMD_QUEUE_*: the first free channel, else the first evictable one, else *)
(* the sound is dropped.                                                   *)
HandleQueue(cmd) ==
  /\ cmd.op = "QUEUE"
  /\ \/ \E c \in Channels : /\ IsFirst(c, Free)
                            /\ InitSource(c, channel[c], {}, cmd)
     \/ /\ Free = {}
        /\ \E c \in Channels :
             /\ IsFirst(c, Evictable)
             /\ InitSource(c, CleanedUp(channel[c]), Callback(channel[c]), cmd)
     \/ /\ Free = {} /\ Evictable = {}
        /\ fired' = {}
        /\ UNCHANGED <<channel, request, heard>>
  /\ UNCHANGED beatVars

HandleBeatSync(cmd) ==
  /\ cmd.op \in {"BEAT_SYNC_START", "BEAT_SYNC_STOP"}
  /\ beat_sync_enabled' = (cmd.op = "BEAT_SYNC_START")
  /\ fired' = {}
  /\ UNCHANGED <<channel, beat_sync_count, request, heard>>

(* PAUSE_ALL and RESUME_ALL flag every channel, free ones included.        *)
HandleAll(cmd) ==
  /\ cmd.op \in {"PAUSE_ALL", "RESUME_ALL"}
  /\ channel' = [c \in Channels |-> [channel[c] EXCEPT !.paused = (cmd.op = "PAUSE_ALL")]]
  /\ request' = [c \in Channels |-> IF cmd.op = "RESUME_ALL" THEN "play"
                                  ELSE IF channel[c].paused THEN request[c] ELSE "pause"]
  /\ fired' = {}
  /\ UNCHANGED <<beatVars, heard>>

(* The callback a client registers is named after the sound it registers   *)
(* it for; Stray is one registered for id 0, hence for no sound.           *)
Stray     == -1
Handle(i) == IF i = 0 THEN Stray ELSE i

Updated(r, cmd) ==
  CASE cmd.op = "LOOP"          -> [r EXCEPT !.loop = (cmd.param = 1)]
    [] cmd.op = "VOLUME"        -> [r EXCEPT !.volume = cmd.param]
    [] cmd.op = "PLAY"          -> [r EXCEPT !.paused = FALSE]
    [] cmd.op = "PAUSE"         -> [r EXCEPT !.paused = TRUE]
    [] cmd.op = "FREQ"          -> [r EXCEPT !.tone = IF r.source = "synth" THEN cmd.param ELSE @]
    [] cmd.op = "CALLBACK"      -> [r EXCEPT !.callback = Handle(cmd.id)]
    [] cmd.op = "START_AT_NEXT" -> [r EXCEPT !.start_at_next = cmd.param]
    [] cmd.op = "STOP"          -> CleanedUp(r)

(* History: pausing counts as a request when the sound was not paused yet. *)
Requested(old, r, cmd) ==
  CASE cmd.op = "PLAY"          -> "play"
    [] cmd.op = "PAUSE"         -> IF r.paused THEN old ELSE "pause"
    [] cmd.op = "START_AT_NEXT" -> IF cmd.param > 0 THEN "sync" ELSE old
    [] OTHER                    -> old

(* FREQ and WAVEFORM look into the source of the channel they find, and    *)
(* id 0 finds a free one, whose source is null.                            *)
FollowsNull(cmd) ==
  cmd.op = "FREQ" /\ \E c \in Channels : IsFirst(c, With(cmd.id)) /\ channel[c].source = NULL

(* A command for one sound acts on the first channel with its id ...       *)
HandleChannel(cmd) ==
  /\ cmd.op \in ChannelOps
  /\ ~FollowsNull(cmd)
  /\ \E c \in Channels :
       /\ IsFirst(c, With(cmd.id))
       /\ channel' = [channel EXCEPT ![c] = Updated(@, cmd)]
       /\ request' = [request EXCEPT ![c] = Requested(@, channel[c], cmd)]
       /\ fired' = IF cmd.op = "STOP" THEN Callback(channel[c]) ELSE {}
  /\ UNCHANGED <<beatVars, heard>>

(* ... and is dropped when no channel has it.                              *)
HandleUnknown(cmd) ==
  /\ cmd.op \in ChannelOps
  /\ With(cmd.id) = {}
  /\ fired' = {}
  /\ UNCHANGED <<channel, beatVars, request, heard>>

(* while (xQueueReceive(cmd_queue, &cmd, 0) == pdTRUE) handle_cmd(&cmd);   *)
HandleCmd ==
  /\ mixer.pc = "drain"
  /\ cmd_queue # <<>>
  /\ cmd_queue' = Tail(cmd_queue)
  /\ LET cmd == Head(cmd_queue)
     IN  \/ HandleQueue(cmd) \/ HandleBeatSync(cmd) \/ HandleAll(cmd)
         \/ HandleChannel(cmd) \/ HandleUnknown(cmd)
  /\ UNCHANGED <<clientVars, mixer>>

(* A null source followed is a processor exception: the badge restarts.    *)
Panic ==
  /\ mixer.pc = "drain"
  /\ cmd_queue # <<>>
  /\ FollowsNull(Head(cmd_queue))
  /\ channel' = [c \in Channels |-> NewChannel]
  /\ curr_id' = 0
  /\ cmd_queue' = <<>>
  /\ beat_sync_count' = 0
  /\ beat_sync_enabled' = FALSE
  /\ pc' = [t \in Threads |-> "idle"]
  /\ old_id' = [t \in Threads |-> 0]
  /\ mixer' = [pc |-> "beat", ch |-> 1, sample |-> 1]
  /\ fired' = {}
  /\ request' = [c \in Channels |-> "none"]
  /\ heard' = [c \in Channels |-> 0]

DrainDone ==
  /\ mixer.pc = "drain"
  /\ cmd_queue = <<>>
  /\ mixer' = [pc |-> "mix", ch |-> 1, sample |-> 1]
  /\ fired' = {}
  /\ UNCHANGED <<channel, clientVars, cmd_queue, beatVars, request, heard>>

-----------------------------------------------------------------------------
(* Mixer task: the beat and the samples                                    *)

(* Head of the task loop, with beat sync off or its next sub-note ahead ... *)
NoBeat ==
  /\ mixer.pc = "beat"
  /\ mixer' = [mixer EXCEPT !.pc = "drain"]
  /\ fired' = {}
  /\ UNCHANGED <<channel, clientVars, cmd_queue, beatVars, request, heard>>

(* Mutant: the count of sub-notes does not wrap.                           *)
BeatSaturates ==
  /\ mixer.pc = "beat"
  /\ beat_sync_enabled
  /\ beat_sync_count' = IF beat_sync_count + 1 < SubNotes THEN beat_sync_count + 1
                                                      ELSE beat_sync_count
  /\ mixer' = [mixer EXCEPT !.pc = "drain"]
  /\ fired' = {}
  /\ UNCHANGED <<channel, clientVars, cmd_queue, beat_sync_enabled, request, heard>>

(* ... and when a sub-note has passed since the last one was counted.      *)
Beat ==
  /\ mixer.pc = "beat"
  /\ beat_sync_enabled
  /\ beat_sync_count' = (beat_sync_count + 1) % SubNotes
  /\ mixer' = [mixer EXCEPT !.pc = "drain"]
  /\ fired' = {}
  /\ UNCHANGED <<channel, clientVars, cmd_queue, beat_sync_enabled, request, heard>>

(* Mutant: one channel too many.                                           *)
NextChannelPastEnd ==
  mixer' = IF mixer.ch <= NChannels THEN [mixer EXCEPT !.pc = "mix", !.ch = @ + 1]
           ELSE IF mixer.sample < ChunkSize
           THEN [pc |-> "mix", ch |-> 1, sample |-> mixer.sample + 1]
           ELSE [pc |-> "beat", ch |-> 1, sample |-> 1]

(* Next channel of this sample, next sample, or push the chunk to I2S.     *)
NextChannel ==
  mixer' = IF mixer.ch < NChannels THEN [mixer EXCEPT !.pc = "mix", !.ch = @ + 1]
           ELSE IF mixer.sample < ChunkSize
           THEN [pc |-> "mix", ch |-> 1, sample |-> mixer.sample + 1]
           ELSE [pc |-> "beat", ch |-> 1, sample |-> 1]

(* A paused channel with an interval is unpaused on its sub-note.          *)
AutoStarted(r) ==
  [r EXCEPT !.paused = @ /\ ~(r.start_at_next > 0 /\ beat_sync_count % r.start_at_next = 0)]

Active(r) == r.source # NULL /\ ~r.paused

SkipChannel ==
  /\ mixer.pc = "mix"
  /\ ~Active(AutoStarted(channel[mixer.ch]))
  /\ channel' = [channel EXCEPT ![mixer.ch] = AutoStarted(@)]
  /\ NextChannel
  /\ fired' = {}
  /\ UNCHANGED <<clientVars, cmd_queue, beatVars, request, heard>>

(* The accumulator is still inside the chunk: the sample is mixed.         *)
PlaySample ==
  /\ mixer.pc = "mix"
  /\ Active(AutoStarted(channel[mixer.ch]))
  /\ ~channel[mixer.ch].exhausted
  /\ channel' = [channel EXCEPT ![mixer.ch] = AutoStarted(@)]
  /\ heard' = [heard EXCEPT ![mixer.ch] = channel[mixer.ch].buffer]
  /\ NextChannel
  /\ fired' = {}
  /\ UNCHANGED <<clientVars, cmd_queue, beatVars, request>>

(* The accumulator runs past the chunk, or did so before: refill first.    *)
NeedChunk ==
  /\ mixer.pc = "mix"
  /\ Active(AutoStarted(channel[mixer.ch]))
  /\ channel' = [channel EXCEPT ![mixer.ch] = [AutoStarted(@) EXCEPT !.exhausted = TRUE]]
  /\ mixer' = [mixer EXCEPT !.pc = "refill"]
  /\ fired' = {}
  /\ UNCHANGED <<clientVars, cmd_queue, beatVars, request, heard>>

(* Mutant: one chunk past the end.                                         *)
AtEndLate(r) == r.source # "synth" /\ r.pos > r.len

AtEnd(r) == r.source # "synth" /\ r.pos >= r.len

(* fill_buffer delivers the next chunk and its first sample is mixed.      *)
Refill ==
  /\ mixer.pc = "refill"
  /\ ~AtEnd(channel[mixer.ch])
  /\ LET n == IF channel[mixer.ch].source = "synth" THEN 1 ELSE channel[mixer.ch].pos + 1
     IN  /\ channel' = [channel EXCEPT ![mixer.ch] =
                          [@ EXCEPT !.pos = n, !.buffer = n, !.exhausted = FALSE]]
         /\ heard' = [heard EXCEPT ![mixer.ch] = n]
  /\ NextChannel
  /\ fired' = {}
  /\ UNCHANGED <<clientVars, cmd_queue, beatVars, request>>

(* The last chunk of a sound may hold fewer samples than the accumulator    *)
(* has overshot (fill_buffer returns r < chunksz): it is decoded, passed   *)
(* over, and the while loop goes round.                                    *)
RefillShort ==
  /\ mixer.pc = "refill"
  /\ channel[mixer.ch].source = "wav"
  /\ channel[mixer.ch].pos + 1 = channel[mixer.ch].len
  /\ LET n == channel[mixer.ch].len
     IN  channel' = [channel EXCEPT ![mixer.ch] = [@ EXCEPT !.pos = n, !.buffer = n]]
  /\ fired' = {}
  /\ UNCHANGED <<clientVars, cmd_queue, beatVars, mixer, request, heard>>

(* Mutant: the callback runs each time the sound goes round.               *)
RewindFires ==
  /\ mixer.pc = "refill"
  /\ AtEnd(channel[mixer.ch])
  /\ channel[mixer.ch].loop
  /\ channel[mixer.ch].source = "wav"
  /\ LET n == IF channel[mixer.ch].len > 0 THEN 1 ELSE 0
     IN  channel' = [channel EXCEPT ![mixer.ch] = [@ EXCEPT !.pos = n, !.buffer = n]]
  /\ fired' = Callback(channel[mixer.ch])
  /\ UNCHANGED <<clientVars, cmd_queue, beatVars, mixer, request, heard>>

(* fill_buffer is at the end of a looping sound that can be rewound: rewind *)
(* and fill the buffer again; then "continue" takes the while loop round   *)
(* with the accumulator and chunksz untouched.                             *)
Rewind ==
  /\ mixer.pc = "refill"
  /\ AtEnd(channel[mixer.ch])
  /\ channel[mixer.ch].loop
  /\ channel[mixer.ch].source = "wav"
  /\ LET n == IF channel[mixer.ch].len > 0 THEN 1 ELSE 0
     IN  channel' = [channel EXCEPT ![mixer.ch] = [@ EXCEPT !.pos = n, !.buffer = n]]
  /\ fired' = {}
  /\ UNCHANGED <<clientVars, cmd_queue, beatVars, mixer, request, heard>>

(* Mutant: a looping sound that cannot be rewound is kept.                 *)
EndOfSoundKeepsLooping ==
  /\ mixer.pc = "refill"
  /\ AtEnd(channel[mixer.ch])
  /\ channel[mixer.ch].loop => channel[mixer.ch].source = "opus"
  /\ channel' = [channel EXCEPT ![mixer.ch] = IF @.loop THEN @ ELSE CleanedUp(@)]
  /\ fired' = {h \in Callback(channel[mixer.ch]) : ~channel[mixer.ch].loop}
  /\ NextChannel
  /\ UNCHANGED <<clientVars, cmd_queue, beatVars, request, heard>>

(* fill_buffer is at the end and the sound does not loop, or cannot.       *)
EndOfSound ==
  /\ mixer.pc = "refill"
  /\ AtEnd(channel[mixer.ch])
  /\ channel[mixer.ch].loop => channel[mixer.ch].source = "opus"
  /\ channel' = [channel EXCEPT ![mixer.ch] = CleanedUp(@)]
  /\ fired' = Callback(channel[mixer.ch])
  /\ NextChannel
  /\ UNCHANGED <<clientVars, cmd_queue, beatVars, request, heard>>

-----------------------------------------------------------------------------
Client(t) == ReadId(t) \/ CasId(t) \/ SendQueue(t) \/ Post(t)
Mixer == NoBeat \/ Beat \/ HandleCmd \/ DrainDone \/ SkipChannel \/ PlaySample \/ NeedChunk
         \/ Refill \/ RefillShort \/ Rewind \/ EndOfSound
Next == Mixer \/ Panic \/ \E t \in Threads : Client(t)

Spec == Init /\ [][Next]_vars

(* The mixer task is always ready or waiting for the I2S DMA; a thread     *)
(* inside new_id keeps running; FreeRTOS wakes the senders blocked on a    *)
(* full queue in turn; the accumulator grows with every sample, so a chunk *)
(* that keeps being played is eventually exhausted, and it shrinks with     *)
(* every chunk passed over, so the mixer does not pass over chunks forever; *)
(* the tick count grows, so while beat sync is on sub-notes keep passing.  *)
(* Clients need not call.                                                  *)
Fairness ==
  /\ WF_vars(Mixer \/ Panic)
  /\ SF_vars(Refill)
  /\ SF_vars(NeedChunk)
  /\ SF_vars(Beat)
  /\ \A t \in Threads : /\ WF_vars(pc[t] # "idle" /\ (ReadId(t) \/ CasId(t)))
                        /\ SF_vars(SendQueue(t))
FairSpec == Spec /\ Fairness

-----------------------------------------------------------------------------
(* Type invariant                                                          *)

OpNames  == {"QUEUE"} \cup ChannelOps \cup GlobalOps
Commands == [op: OpNames, id: Nat, snd: [kind: Kinds \cup {NULL}, len: Nat], param: Nat]
ChannelRecords ==
  [id: Nat, source: Kinds \cup {NULL}, len: Nat, pos: Nat, tone: Nat, volume: Nat,
   evictable: BOOLEAN, paused: BOOLEAN, loop: BOOLEAN, callback: Nat \cup {Stray},
   start_at_next: Nat, buffer: Nat, exhausted: BOOLEAN]

Calls == (Nat \cup {Stray}) \X Nat

TypeOK ==
  /\ channel \in [Channels -> ChannelRecords]
  /\ curr_id \in Nat
  /\ cmd_queue \in Seq(Commands)
  /\ Len(cmd_queue) <= QueueLen
  /\ beat_sync_count \in 0 .. SubNotes - 1
  /\ beat_sync_enabled \in BOOLEAN
  /\ pc \in [Threads -> {"idle", "read", "cas", "send"}]
  /\ old_id \in [Threads -> Nat]
  /\ mixer \in [pc: {"beat", "drain", "mix", "refill"}, ch: Channels, sample: 1 .. ChunkSize]
  /\ fired \subseteq Calls
  /\ request \in [Channels -> {"none", "play", "pause", "sync"}]
  /\ heard \in [Channels -> Nat]

-----------------------------------------------------------------------------
(* Safety                                                                  *)

Pending(t) == pc[t] = "send"
IsQueueCmd(k) == k \in DOMAIN cmd_queue /\ cmd_queue[k].op = "QUEUE"

(* What makes the safety below inductive: the ids in use were handed out,  *)
(* no command carries an id its caller has not been given yet, a QUEUE     *)
(* command has an id of its own and names a decoder.                       *)
IdsIssued ==
  /\ \A t \in Threads : Pending(t) => old_id[t] < curr_id
  /\ \A k \in DOMAIN cmd_queue :
       cmd_queue[k].op \in {"QUEUE"} \cup ChannelOps =>
         /\ cmd_queue[k].id \in 0 .. curr_id
         /\ \A t \in Threads : Pending(t) => cmd_queue[k].id # old_id[t] + 1
  /\ \A k \in DOMAIN cmd_queue : IsQueueCmd(k) => cmd_queue[k].id # 0 /\ cmd_queue[k].snd.kind # NULL
  /\ \A c \in Channels : channel[c].id <= curr_id

(* No two sounds ever share an id: not two threads that race in new_id, not *)
(* a command waiting in the queue, not a channel (new_id, handle_cmd).  An *)
(* id is all that keeps a late command off somebody else's sound.          *)
IdsUnique ==
  /\ \A t, u \in Threads : Pending(t) /\ Pending(u) /\ old_id[t] = old_id[u] => t = u
  /\ \A j, k \in DOMAIN cmd_queue :
       IsQueueCmd(j) /\ IsQueueCmd(k) /\ cmd_queue[j].id = cmd_queue[k].id => j = k
  /\ \A c, d \in Channels : channel[c].id # 0 /\ channel[c].id = channel[d].id => c = d
  /\ \A t \in Threads, c \in Channels : Pending(t) => channel[c].id # old_id[t] + 1
  /\ \A k \in DOMAIN cmd_queue, c \in Channels :
       IsQueueCmd(k) => cmd_queue[k].id # channel[c].id

(* The mixer never mixes a sample out of a buffer nothing was decoded into *)
(* and follows a null source in one case only: FREQ or WAVEFORM for id 0,  *)
(* which Python may pass and a free channel answers to.  Whatever else a   *)
(* command finds by id has a source, the channel being refilled is active, *)
(* and a buffer counts as unexhausted only once it is filled.              *)
Valid(r) ==
  /\ r.id # 0 <=> r.source # NULL
  /\ r.source # NULL /\ ~r.exhausted => r.buffer # 0
Refillable(r) == Active(r) /\ r.exhausted
MixerPointersValid ==
  /\ \A c \in Channels : Valid(channel[c])
  /\ mixer.pc = "refill" => Refillable(channel[mixer.ch])
  /\ cmd_queue # <<>> /\ FollowsNull(Head(cmd_queue)) => Head(cmd_queue).id = 0

(* No command can overtake the QUEUE command that creates its sound, which  *)
(* would silently drop it ("not playing/queued").                          *)
QueuedBeforeUsed ==
  \A j, k \in DOMAIN cmd_queue :
    cmd_queue[j].op \in ChannelOps /\ IsQueueCmd(k) /\ cmd_queue[j].id = cmd_queue[k].id => k < j

(* A sound leaves its channel only when it ended in a refill, when its own *)
(* STOP is handled, when it is evictable, every channel is taken and a new *)
(* sound asks for room (find_free_channel), or when FREQ or WAVEFORM for   *)
(* id 0 restarts the badge.                                                *)
RemovalJustified ==
  \A c \in Channels :
    channel[c].id # 0 /\ channel'[c].id # channel[c].id =>
      \/ mixer.pc = "refill" /\ mixer.ch = c /\ AtEnd(channel[c])
      \/ /\ mixer.pc = "drain"
         /\ \/ Head(cmd_queue).op = "STOP" /\ Head(cmd_queue).id = channel[c].id
            \/ /\ Head(cmd_queue).op = "QUEUE" /\ channel[c].evictable
               /\ \A d \in Channels : channel[d].id # 0
            \/ Head(cmd_queue).op = "FREQ" /\ Head(cmd_queue).id = 0
RemovedOnlyWhenJustified == [][RemovalJustified]_vars

(* While START_AT_NEXT is not used, what is played is exactly what was     *)
(* asked for last: nothing of an earlier sound in the channel, or of the   *)
(* PAUSE_ALL that flagged it while it was free, leaks into a new sound.    *)
PlaysWhatWasAsked ==
  \A c \in Channels : channel[c].source # NULL => (channel[c].paused <=> request[c] # "play")

(* Whatever channel it was left behind in, the callback registered for a   *)
(* sound never runs while that sound is still queued or playing.           *)
CallbackOnlyAfterItsSound ==
  \A e \in fired : /\ \A c \in Channels : channel[c].id # e[1]
                   /\ \A k \in DOMAIN cmd_queue : IsQueueCmd(k) => cmd_queue[k].id # e[1]

(* The chunks of a sound reach the output in the order they were decoded:  *)
(* none is skipped, repeated or played after the end.  A looping sound     *)
(* jumps back from its last chunk only (from the one before, when the last *)
(* one is too short to be heard), to the first or the second one.          *)
InOrder ==
  \A c \in Channels :
    heard'[c] # heard[c] /\ channel'[c].source \in {"wav", "opus"} /\ channel'[c].id = channel[c].id =>
      \/ heard'[c] = heard[c] + 1 /\ heard'[c] <= channel[c].len
      \/ /\ channel[c].loop /\ channel[c].source = "wav"
         /\ heard[c] + 1 >= channel[c].len /\ heard'[c] <= 2
ChunksInOrder == [][InOrder]_vars

-----------------------------------------------------------------------------
(* Liveness                                                                *)

Queued(op, i) == \E k \in DOMAIN cmd_queue : cmd_queue[k].op = op /\ cmd_queue[k].id = i

(* A looping sound of a single chunk holds the mixer for good once it is   *)
(* rewound: "continue" leaves the accumulator past the end, so the chunk   *)
(* is passed over, rewound and passed over again (sndmixer_task).          *)
Trapped ==
  LET r == channel[mixer.ch]
  IN  mixer.pc = "refill" /\ r.source = "wav" /\ r.loop /\ r.len <= 1 /\ AtEnd(r)

(* Once STOP is sent the sound is eventually gone for good, whatever is    *)
(* queued before it and whatever the mixer is doing (sndmixer_stop), but   *)
(* for a mixer that is trapped by a looping sound of a single chunk.       *)
StopTakesEffect ==
  \A i \in 1 .. MaxId :
    Queued("STOP", i) ~> Trapped \/ [](\A c \in Channels : channel[c].id # i)

(* A thread that entered sndmixer_queue_* gets its id back: neither the    *)
(* compare-and-set loop nor the full queue holds it forever, but for a     *)
(* queue that a trapped mixer no longer empties.                           *)
QueueCallReturns == \A t \in Threads : pc[t] # "idle" ~> pc[t] = "idle" \/ Trapped

(* The drain loop ends only on an empty queue, so clients that send without *)
(* a break starve the samples, and a trapped mixer leaves its other sounds *)
(* where they are.  What follows is claimed while neither is the case.     *)
RoundsComplete == []<>(mixer.pc = "beat")

(* A sound armed with start_at_next starts once beat sync runs, unless it  *)
(* is stopped, disarmed or beat sync is stopped first.                     *)
Armed(i) == \E c \in Channels : /\ channel[c].id = i /\ channel[c].paused
                              /\ channel[c].start_at_next > 0
ArmedSoundStarts ==
  RoundsComplete =>
    \A i \in 1 .. MaxId : Armed(i) /\ beat_sync_enabled ~> ~Armed(i) \/ ~beat_sync_enabled

(* A playing sound that has an end and is left alone reaches it and gives  *)
(* its channel back, also when it is told to loop but cannot be rewound.   *)
Playing(i) == \E c \in Channels : /\ channel[c].id = i /\ Active(channel[c])
                                /\ \/ channel[c].source = "opus"
                                   \/ channel[c].source = "wav" /\ ~channel[c].loop
SoundEnds ==
  RoundsComplete => \A i \in 1 .. MaxId : Playing(i) ~> ~Playing(i)

=============================================================================
