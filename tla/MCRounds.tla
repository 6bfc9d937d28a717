------------------------------ MODULE MCRounds ------------------------------
(***************************************************************************)
(* Rounds for TLC: node requests are interchangeable, and so are miners.   *)
(***************************************************************************)
EXTENDS Rounds, TLC

RoundsSymmetry == Permutations(NodeReqs) \cup Permutations(Miners)
=============================================================================
