------------------------------ MODULE MCMpSched ------------------------------
(* An instance of MpSched in which every source runs on the machine's core. *)
EXTENDS MpSched

CONSTANTS t1, t2, isr

OnVMCore == [s \in Sources |-> VMCore]

=============================================================================
