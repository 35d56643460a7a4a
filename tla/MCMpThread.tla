----------------------------- MODULE MCMpThread -----------------------------
(* The main thread and two more. *)
EXTENDS MpThread, TLC

CONSTANTS main, t1, t2

MCThreads == {main, t1, t2}
OneMore == {main, t1}
MCSymmetry == Permutations({t1, t2})
=============================================================================
