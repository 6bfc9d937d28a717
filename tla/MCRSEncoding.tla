---------------------------- MODULE MCRSEncoding ----------------------------
(* Account ids and messages for model checking RSEncoding. *)
EXTENDS RSEncoding

\* Ids of every length: all digits d but one, which is e.
MCIds ==
  {[k \in 1 .. n |-> IF k = i THEN e ELSE d] : n \in {1, 2, 5, 12, 19}, d \in {1, 9}, i \in 1 .. 19, e \in {1, 3, 9}}
  \cup {[k \in 1 .. n |-> IF k = i THEN 7 ELSE IF k = 1 THEN 1 ELSE 0] : n \in 2 .. 20, i \in 2 .. 20}
  \cup {<<0>>, MaxUint64}

MCMistyped == {MaxUint64}

MCDeltas == {1, 2, 4, 8, 10, 16, 21, 31}

\* One digit b among digits a, which reaches both sides of 2^64.
MCMessages == {[k \in 1 .. 13 |-> IF k = i THEN b ELSE a] : i \in 1 .. 13, a \in {0, 5, 31}, b \in {0, 1, 15, 16, 31}}

\* The first pair of encoding_test.go, 8KLL-PBYV-6DBC-AM942.
ASSUME KnownAddress ==
  Encode(<<9, 2, 2, 5, 8, 9, 1, 7, 5, 0, 2, 4, 7, 3, 5, 1, 8, 9, 0>>) =
    <<6, 17, 18, 18, Dash, 21, 9, 30, 27, Dash, 4, 11, 9, 10, Dash, 8, 19, 7, 2, 0>>
=============================================================================
