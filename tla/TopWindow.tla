----------------------------- MODULE TopWindow -----------------------------
(***************************************************************************)
(* What a window of cached block heights promises: after any sequence of   *)
(* offers, in any order, it holds the Size greatest heights offered.       *)
(***************************************************************************)
EXTENDS Integers, FiniteSets

CONSTANTS Height, Size

VARIABLE window

\* The n greatest members of S.
Greatest(S, n) == {x \in S : Cardinality({y \in S : y > x}) < n}

Init == window = {}

Offer(h) == window' = Greatest(window \cup {h}, Size)

Next == \E h \in Height : Offer(h)

Spec == Init /\ [][Next]_window
=============================================================================
