------------------------------ MODULE Payments ------------------------------
(***************************************************************************)
(* What the payout promises of its payments: amounts are fixed when a      *)
(* payment is booked, at most one transaction of the chain pays it, and it *)
(* is closed after that and only then.                                     *)
(***************************************************************************)
CONSTANTS Rows, Txs, Nothing

VARIABLES
  booked,   \* rows that are payments
  amount,   \* what each of them pays to whom
  paidBy,   \* the transactions on the chain that pay a row
  closed    \* rows that need no more attention

vars == <<booked, amount, paidBy, closed>>

Init ==
  /\ booked = {} /\ closed = {}
  /\ amount = [r \in Rows |-> Nothing]
  /\ paidBy = [r \in Rows |-> {}]

\* New payments; those that are booked keep their amounts.
Book ==
  /\ \E R \in SUBSET (Rows \ booked) : booked' = booked \cup R
  /\ \A r \in booked : amount'[r] = amount[r]
  /\ UNCHANGED <<paidBy, closed>>

Pay(r, t) ==
  /\ r \in booked /\ paidBy[r] = {}
  /\ \A s \in Rows : t \notin paidBy[s]
  /\ paidBy' = [paidBy EXCEPT ![r] = {t}]
  /\ UNCHANGED <<booked, amount, closed>>

Close(r) ==
  /\ r \in booked \ closed /\ paidBy[r] # {}
  /\ closed' = closed \cup {r}
  /\ UNCHANGED <<booked, amount, paidBy>>

Next == Book \/ \E r \in Rows : Close(r) \/ \E t \in Txs : Pay(r, t)

Spec == Init /\ [][Next]_vars
=============================================================================
