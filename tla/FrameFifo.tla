------------------------------- MODULE FrameFifo -------------------------------
(***************************************************************************)
(* What the ring buffer of the microphone promises its two users: a queue  *)
(* of at most Backlog frames, first in, first out, where a frame that finds *)
(* the queue full is dropped (driver_microphone_internal.h).  "last" is the *)
(* operation that completed last, with the frame it moved.                 *)
(***************************************************************************)
EXTENDS Naturals, Sequences

CONSTANTS Frames, Backlog

VARIABLES q, last

fifoVars == <<q, last>>

FifoInit == q = <<>> /\ last = <<"reset">>

Put(f) == Len(q) < Backlog /\ q' = Append(q, f) /\ last' = <<"put", f>>
Drop   == Len(q) = Backlog /\ last' = <<"drop">> /\ UNCHANGED q
Get    == q # <<>> /\ last' = <<"get", Head(q)>> /\ q' = Tail(q)
Empty  == q = <<>> /\ last' = <<"empty">> /\ UNCHANGED q
Reset  == q' = <<>> /\ last' = <<"reset">>

FifoNext == (\E f \in Frames : Put(f)) \/ Drop \/ Get \/ Empty \/ Reset
FifoSpec == FifoInit /\ [][FifoNext]_fifoVars
=============================================================================
