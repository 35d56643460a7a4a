------------------------------ MODULE MCSndmixer ------------------------------
(* Instances of Sndmixer for TLC: the sounds, intervals and command sets.  *)
EXTENDS Sndmixer

Wav(n)  == [kind |-> "wav", len |-> n]
Opus(n) == [kind |-> "opus", len |-> n]
Synth   == [kind |-> "synth", len |-> 1]

ShortKinds == {Wav(1), Synth}
ThreeChunks == {Wav(3)}

(* A sound of two chunks loops; one of a single chunk traps the mixer.     *)
LiveKinds  == {Wav(1), Wav(2), Opus(1)}

NoIntervals == {}
EveryOther  == {2}

HeardOps    == {"QUEUE", "PLAY", "PAUSE", "PAUSE_ALL", "RESUME_ALL", "LOOP", "STOP",
                "CALLBACK"}
AllocOps    == {"QUEUE", "PLAY", "FREQ", "STOP"}
(* Commands they also send for id 0, which a free channel answers to.      *)
AllocZero   == {"FREQ"}
HeardZero   == {"CALLBACK", "STOP"}
LiveZero    == {}
(* Sounds start by the beat, which takes fewer commands than PLAY.         *)
LiveOps     == {"QUEUE", "LOOP", "STOP", "START_AT_NEXT", "BEAT_SYNC_START", "BEAT_SYNC_STOP"}
=============================================================================
