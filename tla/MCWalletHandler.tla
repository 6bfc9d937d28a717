-------------------------- MODULE MCWalletHandler --------------------------
(* Timestamps for model checking WalletHandler. *)
EXTENDS WalletHandler

\* Two forks that part after block 1.
MCTimestamp == [f1 |-> [h \in 0 .. 3 |-> 4 * h], f2 |-> [h \in 0 .. 3 |-> IF h < 2 THEN 4 * h ELSE 2 + 5 * h]]
=============================================================================
