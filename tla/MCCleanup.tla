----------------------------- MODULE MCCleanup -----------------------------
(* Cleanup for TLC: miners are interchangeable. *)
EXTENDS Cleanup, TLC

MinerSymmetry == Permutations(Miners)
=============================================================================
