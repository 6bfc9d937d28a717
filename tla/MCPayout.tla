------------------------------ MODULE MCPayout ------------------------------
(* Payout for TLC: two miners and the fee account. *)
EXTENDS Payout, TLC

CONSTANTS m1, m2

\* Both mined, unevenly; or nobody has a counted deadline.
MCEepsChoices == {(m1 :> 1 @@ m2 :> 2), (m1 :> 0)}

\* Ids of chain transactions are interchangeable.
TxSymmetry == Permutations(TxIds)
=============================================================================
