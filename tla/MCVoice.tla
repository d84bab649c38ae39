------------------------------- MODULE MCVoice -------------------------------
(***************************************************************************)
(* Small instances of Voice for TLC.                                       *)
(***************************************************************************)
EXTENDS Voice, TLC

LoopSymmetry == Permutations(LoopSessions)
=============================================================================
