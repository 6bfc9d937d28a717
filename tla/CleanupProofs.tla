--------------------------- MODULE CleanupProofs ---------------------------
(***************************************************************************)
(* CleanDB keeps the accounts of registered miners with recent             *)
(* submissions, and every planck but those of unsent payments to accounts  *)
(* it deletes, for any miners, heights and bounds.  The second rests on    *)
(* sums over accounts: what is needed of SumFunctionOnSet is proved as for *)
(* the payout, with an induction over the subsets of a finite set that     *)
(* takes a set instead of an operator.                                     *)
(***************************************************************************)
EXTENDS Cleanup, FiniteSetTheorems, TLAPS

\* A miner row has its account row, a settled miner its submission until the
\* second statement has run and its miner row until the third has.
SettledInv ==
  /\ miner \subseteq account
  /\ settled \subseteq account
  /\ clean = "miners" => settled \subseteq miner /\ settled \subseteq Submitters
  /\ clean = "accounts" => settled \subseteq miner
  /\ account \subseteq Miners
  /\ block \subseteq Heights
  /\ cur \in Heights

\* The empty database.
LEMMA SettledInit == Init => SettledInv
  BY CleanupAssumption DEF Init, SettledInv, Heights

\* Every step of submissions, forge, new blocks and CleanDB keeps it.
LEMMA SettledInductive == SettledInv /\ [Next]_vars => SettledInv'
<1> SUFFICES ASSUME SettledInv, [Next]_vars PROVE SettledInv'
  OBVIOUS
<1> USE DEF SettledInv
<1>1. CASE NewBlock
  BY <1>1, CleanupAssumption DEF NewBlock, Submitters, Heights
<1>2. CASE CleanBlocks
  <2>1. block' \subseteq Heights /\ settled' \subseteq miner
    BY <1>2 DEF CleanBlocks
  <2>2. settled' \subseteq Submitters'
    BY <1>2, <2>1 DEF CleanBlocks, Submitters
  <2> QED
    BY <1>2, <2>1, <2>2 DEF CleanBlocks
<1>3. CASE CleanMiners
  BY <1>3 DEF CleanMiners
<1>4. CASE CleanAccounts
  BY <1>4 DEF CleanAccounts
<1>5. CASE CleanFails
  BY <1>5 DEF CleanFails, tables
<1>6. ASSUME NEW m \in Miners, Enter(m) PROVE SettledInv'
  BY <1>6 DEF Enter, Submitters
<1>7. ASSUME NEW m \in Miners, Submit(m) PROVE SettledInv'
  <2>1. Submitters \subseteq Submitters'
    BY <1>7 DEF Submit, Submitters
  <2> QED
    BY <1>7, <2>1 DEF Submit
<1>8. ASSUME NEW m \in Miners, Forge(m) PROVE SettledInv'
  BY <1>8 DEF Forge, Submitters
<1>9. ASSUME NEW m \in Miners, Book(m) \/ Paid(m) PROVE SettledInv'
  BY <1>9 DEF Book, Paid, tables, Submitters
<1>10. ASSUME NEW a \in Miners \cup {Fee}, Credit(a) PROVE SettledInv'
  BY <1>10 DEF Credit, tables, Submitters
<1>11. CASE UNCHANGED vars
  BY <1>11 DEF vars, Submitters
<1> QED
  BY <1>1, <1>2, <1>3, <1>4, <1>5, <1>6, <1>7, <1>8, <1>9, <1>10, <1>11 DEF Next

\* CleanDB never deletes the account of a registered miner whose recent
\* submissions it found when it began, whatever runs between its statements.
THEOREM SettledAccountsKept == Spec => []SettledKept
<1>1. Init => SettledInv
  BY SettledInit
<1>2. SettledInv => SettledKept
  BY DEF SettledInv, SettledKept
<1> QED
  BY <1>1, <1>2, SettledInductive, PTL DEF Spec

----------------------------------------------------------------------------
(* Finite sums. *)

\* A nonempty set of naturals has a least element.
LEMMA LeastExists ==
  ASSUME NEW S, S \subseteq Nat, S # {}
  PROVE  \E x \in S : \A y \in S : x <= y
<1>1. \E x \in S : \A y \in S : ~(<<y, x>> \in OpToRel(<, Nat))
  BY NatLessThanWellFounded, WFMin
<1>2. ASSUME NEW x \in S, NEW y \in S, ~(<<y, x>> \in OpToRel(<, Nat)) PROVE x <= y
  <2>1. ~(y < x)
    BY <1>2, Zenon DEF OpToRel
  <2> QED
    BY <2>1
<1> QED
  BY <1>1, <1>2

\* Induction over the subsets of a finite set, the property given as a set P.
LEMMA SubsetInduction ==
  ASSUME NEW S, IsFiniteSet(S), NEW P,
         \A T \in SUBSET S : (\A x \in T : T \ {x} \in P) => T \in P
  PROVE  \A T \in SUBSET S : T \in P
<1> DEFINE Bad == {T \in SUBSET S : T \notin P}
           Sizes == {Cardinality(T) : T \in Bad}
<1> SUFFICES ASSUME Bad # {} PROVE FALSE
  OBVIOUS
<1>1. \A T \in SUBSET S : IsFiniteSet(T) /\ Cardinality(T) \in Nat
  BY FS_Subset, FS_CardinalityType
<1>2. Sizes \subseteq Nat /\ Sizes # {}
  BY <1>1
<1>3. PICK n \in Sizes : \A m \in Sizes : n <= m
  BY <1>2, LeastExists
<1>4. PICK T \in Bad : n = Cardinality(T)
  OBVIOUS
<1>5. PICK x \in T : T \ {x} \notin P
  BY <1>4
<1>6. T \ {x} \in Bad
  BY <1>5
<1>7. Cardinality(T \ {x}) = Cardinality(T) - 1 /\ Cardinality(T) \in Nat
  BY <1>1, FS_RemoveElement
<1>8. Cardinality(T \ {x}) \in Sizes
  BY <1>6
<1> HIDE DEF Sizes, Bad
<1>9. Cardinality(T) <= Cardinality(T \ {x})
  BY <1>3, <1>4, <1>8
<1> QED
  BY <1>7, <1>9

----------------------------------------------------------------------------
\* SumFunctionOnSet takes the members of a set one by one.
Pick(s) == CHOOSE x \in s : TRUE
Sums(f, s, g) == IF s = {} THEN 0 ELSE f[Pick(s)] + g[s \ {Pick(s)}]
IsIter(g, f, S) == g = [s \in SUBSET S |-> Sums(f, s, g)]
Iter(f, S) == CHOOSE g : IsIter(g, f, S)

\* The sum is the value of the recursive function at the whole set.
LEMMA SumIsIter == \A f, S : SumFunctionOnSet(f, S) = Iter(f, S)[S]
  BY DEF SumFunctionOnSet, FoldFunctionOnSet, MapThenFoldSet, Iter, IsIter, Sums, Pick

\* The member taken is one of the set.
LEMMA PickIn == \A s : s # {} => Pick(s) \in s
  BY DEF Pick

\* The recursive function exists, since every set of the recursion is smaller.
LEMMA IterExists ==
  ASSUME NEW f, NEW S, IsFiniteSet(S)
  PROVE  IsIter(Iter(f, S), f, S)
<1> DEFINE Sub(n) == {s \in SUBSET S : Cardinality(s) <= n}
           Good(n) == \E g : g = [s \in Sub(n) |-> Sums(f, s, g)]
           Bad == {n \in Nat : ~Good(n)}
<1>1. \A s \in SUBSET S : IsFiniteSet(s) /\ Cardinality(s) \in Nat /\ Cardinality(s) <= Cardinality(S)
  BY FS_Subset, FS_CardinalityType
<1>2. \A s \in SUBSET S : s # {} => /\ s \ {Pick(s)} \in SUBSET S
                                    /\ Cardinality(s \ {Pick(s)}) = Cardinality(s) - 1
  BY <1>1, PickIn, FS_RemoveElement
<1>3. Good(0)
  <2> DEFINE g == [s \in Sub(0) |-> 0]
  <2>1. \A s \in Sub(0) : s = {}
    BY <1>1, FS_EmptySet
  <2>2. g = [s \in Sub(0) |-> Sums(f, s, g)]
    BY <2>1 DEF Sums
  <2> QED
    BY <2>2
<1>4. ASSUME NEW n \in Nat, Good(n) PROVE Good(n + 1)
  <2>1. PICK g : g = [s \in Sub(n) |-> Sums(f, s, g)]
    BY <1>4
  <2> DEFINE h == [s \in Sub(n + 1) |-> Sums(f, s, g)]
  <2>2. Sub(n) \subseteq Sub(n + 1)
    BY <1>1
  <2>3. \A s \in Sub(n) : h[s] = g[s]
    BY <2>1, <2>2
  <2>4. \A s \in Sub(n + 1) : s # {} => s \ {Pick(s)} \in Sub(n)
    BY <1>1, <1>2
  <2> HIDE DEF Sub
  <2>5. ASSUME NEW s \in Sub(n + 1) PROVE Sums(f, s, g) = Sums(f, s, h)
    BY <2>3, <2>4 DEF Sums
  <2>6. h = [s \in Sub(n + 1) |-> Sums(f, s, h)]
    BY <2>5
  <2> QED
    BY <2>6
<1> HIDE DEF Good
<1>5. Bad = {}
  <2> SUFFICES ASSUME Bad # {} PROVE FALSE
    OBVIOUS
  <2>1. PICK n \in Bad : \A m \in Bad : n <= m
    BY LeastExists
  <2>2. n \in Nat /\ n # 0 /\ ~Good(n)
    BY <1>3
  <2>3. n - 1 \in Nat /\ n - 1 \notin Bad
    BY <2>1, <2>2
  <2> QED
    BY <1>4, <2>2, <2>3
<1>6. Good(Cardinality(S))
  BY <1>1, <1>5
<1>7. Sub(Cardinality(S)) = SUBSET S
  BY <1>1
<1>8. \E g : IsIter(g, f, S)
  BY <1>6, <1>7 DEF Good, IsIter
<1> QED
  BY <1>8 DEF Iter

\* The sum over a part does not depend on the whole.
LEMMA IterPart ==
  ASSUME NEW f, NEW S, IsFiniteSet(S), NEW T \in SUBSET S
  PROVE  Iter(f, S)[T] = Iter(f, T)[T]
<1> DEFINE P == {s \in SUBSET T : Iter(f, S)[s] = Iter(f, T)[s]}
<1>1. IsFiniteSet(T)
  BY FS_Subset
<1>2. \A s \in SUBSET T : s \in SUBSET S
  OBVIOUS
<1>3. IsIter(Iter(f, S), f, S) /\ IsIter(Iter(f, T), f, T)
  BY <1>1, IterExists
<1>4. \A s \in SUBSET T : /\ Iter(f, S)[s] = Sums(f, s, Iter(f, S))
                          /\ Iter(f, T)[s] = Sums(f, s, Iter(f, T))
  BY <1>2, <1>3 DEF IsIter
<1>5. ASSUME NEW s \in SUBSET T, \A x \in s : s \ {x} \in P PROVE s \in P
  BY <1>4, <1>5, PickIn DEF Sums
<1>6. \A s \in SUBSET T : s \in P
  <2> HIDE DEF P
  <2> QED BY <1>1, <1>5, SubsetInduction
<1> QED
  BY <1>6

\* One step of the recursion.
LEMMA SumPick ==
  ASSUME NEW f, NEW S, IsFiniteSet(S)
  PROVE  /\ S = {} => SumFunctionOnSet(f, S) = 0
         /\ S # {} => SumFunctionOnSet(f, S) = f[Pick(S)] + SumFunctionOnSet(f, S \ {Pick(S)})
<1>1. Iter(f, S)[S] = Sums(f, S, Iter(f, S))
  <2>1. IsIter(Iter(f, S), f, S) /\ S \in SUBSET S
    BY IterExists
  <2> QED
    BY <2>1 DEF IsIter
<1>2. S \ {Pick(S)} \in SUBSET S
  OBVIOUS
<1>3. Iter(f, S)[S \ {Pick(S)}] = Iter(f, S \ {Pick(S)})[S \ {Pick(S)}]
  BY <1>2, IterPart
<1> QED
  BY <1>1, <1>3, SumIsIter DEF Sums

\* f has integer values on S.
Ints(f, S) == \A x \in S : f[x] \in Int

\* A sum of integers is one, and not negative if none of them is.
LEMMA SumInt ==
  ASSUME NEW f, NEW S, IsFiniteSet(S), Ints(f, S)
  PROVE  /\ SumFunctionOnSet(f, S) \in Int
         /\ (\A x \in S : f[x] >= 0) => SumFunctionOnSet(f, S) >= 0
<1> DEFINE P == {T \in SUBSET S : /\ SumFunctionOnSet(f, T) \in Int
                                  /\ (\A x \in T : f[x] >= 0) => SumFunctionOnSet(f, T) >= 0}
<1>1. ASSUME NEW T \in SUBSET S, \A x \in T : T \ {x} \in P PROVE T \in P
  <2>1. IsFiniteSet(T)
    BY FS_Subset
  <2>2. CASE T = {}
    <3>1. SumFunctionOnSet(f, T) = 0
      BY <2>1, <2>2, SumPick
    <3> QED
      BY <3>1
  <2>3. CASE T # {}
    <3>1. Pick(T) \in T /\ T \ {Pick(T)} \in P /\ f[Pick(T)] \in Int
      BY <1>1, <2>3, PickIn DEF Ints
    <3>2. SumFunctionOnSet(f, T) = f[Pick(T)] + SumFunctionOnSet(f, T \ {Pick(T)})
      BY <2>1, <2>3, SumPick
    <3> QED
      BY <3>1, <3>2
  <2> QED
    BY <2>2, <2>3
<1>2. \A T \in SUBSET S : T \in P
  <2> HIDE DEF P
  <2> QED BY <1>1, SubsetInduction
<1> QED
  BY <1>2

\* The order does not matter.
LEMMA SumRemove ==
  ASSUME NEW f, NEW S, IsFiniteSet(S), Ints(f, S), NEW x \in S
  PROVE  SumFunctionOnSet(f, S) = f[x] + SumFunctionOnSet(f, S \ {x})
<1> DEFINE P == {T \in SUBSET S : \A y \in T :
                   SumFunctionOnSet(f, T) = f[y] + SumFunctionOnSet(f, T \ {y})}
<1>1. ASSUME NEW T \in SUBSET S, \A y \in T : T \ {y} \in P PROVE T \in P
  <2>1. \A U \in SUBSET S : IsFiniteSet(U) /\ SumFunctionOnSet(f, U) \in Int
    <3>1. ASSUME NEW U \in SUBSET S PROVE IsFiniteSet(U) /\ Ints(f, U)
      BY FS_Subset DEF Ints
    <3> QED
      BY <3>1, SumInt
  <2>2. ASSUME NEW y \in T PROVE SumFunctionOnSet(f, T) = f[y] + SumFunctionOnSet(f, T \ {y})
    <3> DEFINE p == Pick(T)
    <3>1. p \in T /\ T # {} /\ f[p] \in Int /\ f[y] \in Int
      BY <2>2, PickIn DEF Ints
    <3>2. SumFunctionOnSet(f, T) = f[p] + SumFunctionOnSet(f, T \ {p})
      BY <2>1, <3>1, SumPick
    <3>3. CASE p = y
      BY <3>2, <3>3
    <3>4. CASE p # y
      <4>1. y \in T \ {p} /\ p \in T \ {y} /\ T \ {p} \in P /\ T \ {y} \in P
        BY <1>1, <3>1, <3>4
      <4>2. SumFunctionOnSet(f, T \ {p}) = f[y] + SumFunctionOnSet(f, (T \ {p}) \ {y})
        BY <4>1
      <4>3. SumFunctionOnSet(f, T \ {y}) = f[p] + SumFunctionOnSet(f, (T \ {y}) \ {p})
        BY <4>1
      <4>4. (T \ {p}) \ {y} = (T \ {y}) \ {p}
        OBVIOUS
      <4> DEFINE r == SumFunctionOnSet(f, (T \ {y}) \ {p})
      <4>5. r \in Int
        BY <2>1
      <4>6. SumFunctionOnSet(f, T) = f[p] + (f[y] + r) /\ SumFunctionOnSet(f, T \ {y}) = f[p] + r
        BY <3>2, <4>2, <4>3, <4>4
      <4> HIDE DEF r, p
      <4> QED
        BY <3>1, <4>5, <4>6
    <3> QED
      BY <3>3, <3>4
  <2> QED
    BY <2>2
<1>2. \A T \in SUBSET S : T \in P
  <2> HIDE DEF P
  <2> QED BY <1>1, SubsetInduction
<1> QED
  BY <1>2

\* The sum of h is the sum of f and g, if it is so for every member.
LEMMA SumPlus ==
  ASSUME NEW f, NEW g, NEW h, NEW S, IsFiniteSet(S), Ints(f, S), Ints(g, S),
         \A x \in S : h[x] = f[x] + g[x]
  PROVE  SumFunctionOnSet(h, S) = SumFunctionOnSet(f, S) + SumFunctionOnSet(g, S)
<1> DEFINE P == {T \in SUBSET S :
                   SumFunctionOnSet(h, T) = SumFunctionOnSet(f, T) + SumFunctionOnSet(g, T)}
<1>1. ASSUME NEW T \in SUBSET S, \A x \in T : T \ {x} \in P PROVE T \in P
  <2>1. \A U \in SUBSET S : IsFiniteSet(U) /\ SumFunctionOnSet(f, U) \in Int /\ SumFunctionOnSet(g, U) \in Int
    <3>1. ASSUME NEW U \in SUBSET S PROVE IsFiniteSet(U) /\ Ints(f, U) /\ Ints(g, U)
      BY FS_Subset DEF Ints
    <3> QED
      BY <3>1, SumInt
  <2>2. CASE T = {}
    <3>1. \A e : SumFunctionOnSet(e, T) = 0
      BY <2>1, <2>2, SumPick
    <3> QED
      BY <3>1
  <2>3. CASE T # {}
    <3> DEFINE p == Pick(T)
               U == T \ {p}
    <3>1. p \in T /\ U \in P /\ U \in SUBSET S
      BY <1>1, <2>3, PickIn
    <3>2. f[p] \in Int /\ g[p] \in Int /\ h[p] = f[p] + g[p]
      BY <3>1 DEF Ints
    <3>3. /\ SumFunctionOnSet(f, T) = f[p] + SumFunctionOnSet(f, U)
          /\ SumFunctionOnSet(g, T) = g[p] + SumFunctionOnSet(g, U)
          /\ SumFunctionOnSet(h, T) = h[p] + SumFunctionOnSet(h, U)
      BY <2>1, <2>3, SumPick
    <3>4. SumFunctionOnSet(h, U) = SumFunctionOnSet(f, U) + SumFunctionOnSet(g, U)
      BY <3>1
    <3>5. SumFunctionOnSet(f, U) \in Int /\ SumFunctionOnSet(g, U) \in Int
      BY <2>1, <3>1
    <3> HIDE DEF p, U
    <3> QED
      BY <3>2, <3>3, <3>4, <3>5
  <2> QED
    BY <2>2, <2>3
<1>2. \A T \in SUBSET S : T \in P
  <2> HIDE DEF P
  <2> QED BY <1>1, SubsetInduction
<1> QED
  BY <1>2

\* A part where f is 0 does not count; equal functions have equal sums.
LEMMA SumSupport ==
  ASSUME NEW f, NEW g, NEW S, IsFiniteSet(S), Ints(f, S), NEW T \in SUBSET S,
         \A x \in T : g[x] = f[x], \A x \in S \ T : f[x] = 0
  PROVE  SumFunctionOnSet(f, S) = SumFunctionOnSet(g, T)
<1> DEFINE P == {U \in SUBSET S : SumFunctionOnSet(f, U) = SumFunctionOnSet(g, U \cap T)}
<1>1. ASSUME NEW U \in SUBSET S, \A x \in U : U \ {x} \in P PROVE U \in P
  <2>1. IsFiniteSet(U) /\ IsFiniteSet(U \cap T) /\ Ints(f, U) /\ Ints(g, U \cap T)
    BY FS_Subset DEF Ints
  <2>2. CASE U = {}
    BY <2>1, <2>2, SumPick
  <2>3. CASE U # {}
    <3>1. PICK p \in U : TRUE
      BY <2>3
    <3>2. SumFunctionOnSet(f, U) = f[p] + SumFunctionOnSet(f, U \ {p})
      BY <2>1, SumRemove
    <3>3. SumFunctionOnSet(f, U \ {p}) = SumFunctionOnSet(g, (U \ {p}) \cap T)
      BY <1>1
    <3>4. SumFunctionOnSet(f, U \ {p}) \in Int
      <4>1. IsFiniteSet(U \ {p}) /\ Ints(f, U \ {p})
        BY <2>1, FS_Subset DEF Ints
      <4> QED BY <4>1, SumInt
    <3>5. CASE p \in T
      <4>1. (U \ {p}) \cap T = (U \cap T) \ {p} /\ p \in U \cap T
        BY <3>5
      <4>2. SumFunctionOnSet(g, U \cap T) = g[p] + SumFunctionOnSet(g, (U \cap T) \ {p})
        BY <2>1, <4>1, SumRemove
      <4> QED
        BY <3>2, <3>3, <3>5, <4>1, <4>2
    <3>6. CASE p \notin T
      <4>1. (U \ {p}) \cap T = U \cap T /\ f[p] = 0
        BY <3>6
      <4>2. SumFunctionOnSet(f, U) = SumFunctionOnSet(f, U \ {p})
        BY <3>2, <3>4, <4>1
      <4> QED
        BY <3>3, <4>1, <4>2
    <3> QED
      BY <3>5, <3>6
  <2> QED
    BY <2>2, <2>3
<1>2. \A U \in SUBSET S : U \in P
  <2> HIDE DEF P
  <2> QED BY <1>1, SubsetInduction
<1>3. S \cap T = T
  OBVIOUS
<1> QED
  BY <1>2, <1>3

\* Functions that agree on S have the same sum over S.
LEMMA SumSame ==
  ASSUME NEW f, NEW g, NEW S, IsFiniteSet(S), Ints(f, S), \A x \in S : g[x] = f[x]
  PROVE  SumFunctionOnSet(g, S) = SumFunctionOnSet(f, S)
<1>1. S \in SUBSET S /\ \A x \in S \ S : f[x] = 0
  OBVIOUS
<1> QED
  BY <1>1, SumSupport

\* One value changes.
LEMMA SumChange ==
  ASSUME NEW f, NEW g, NEW S, IsFiniteSet(S), Ints(f, S), NEW x \in S, g[x] \in Int,
         \A y \in S \ {x} : g[y] = f[y]
  PROVE  SumFunctionOnSet(g, S) = SumFunctionOnSet(f, S) + g[x] - f[x]
<1>1. Ints(g, S) /\ IsFiniteSet(S \ {x}) /\ Ints(f, S \ {x}) /\ f[x] \in Int
  BY FS_Subset DEF Ints
<1>2. SumFunctionOnSet(g, S \ {x}) = SumFunctionOnSet(f, S \ {x})
  BY <1>1, SumSame
<1>3. /\ SumFunctionOnSet(f, S) = f[x] + SumFunctionOnSet(f, S \ {x})
      /\ SumFunctionOnSet(g, S) = g[x] + SumFunctionOnSet(g, S \ {x})
  BY <1>1, SumRemove
<1>4. SumFunctionOnSet(f, S \ {x}) \in Int
  BY <1>1, SumInt
<1> QED
  BY <1>1, <1>2, <1>3, <1>4

\* A set falls into two parts.
LEMMA SumSplit ==
  ASSUME NEW f, NEW S, IsFiniteSet(S), Ints(f, S), NEW T \in SUBSET S
  PROVE  SumFunctionOnSet(f, S) = SumFunctionOnSet(f, T) + SumFunctionOnSet(f, S \ T)
<1> DEFINE a == [x \in S |-> IF x \in T THEN f[x] ELSE 0]
           b == [x \in S |-> IF x \in T THEN 0 ELSE f[x]]
<1>1. /\ \A x \in T : f[x] = a[x] /\ b[x] = 0
      /\ \A x \in S \ T : f[x] = b[x] /\ a[x] = 0
  OBVIOUS
<1>2. Ints(a, S) /\ Ints(b, S) /\ \A x \in S : f[x] = a[x] + b[x]
  BY DEF Ints
<1>3. S \ T \in SUBSET S /\ S \ (S \ T) = T
  OBVIOUS
<1> HIDE DEF a, b
<1>4. SumFunctionOnSet(a, S) = SumFunctionOnSet(f, T)
  BY <1>1, <1>2, SumSupport
<1>5. SumFunctionOnSet(b, S) = SumFunctionOnSet(f, S \ T)
  BY <1>1, <1>2, <1>3, SumSupport
<1>6. SumFunctionOnSet(f, S) = SumFunctionOnSet(a, S) + SumFunctionOnSet(b, S)
  BY <1>2, SumPlus
<1> QED
  BY <1>4, <1>5, <1>6

\* Zeros add up to zero.
LEMMA SumZero ==
  ASSUME NEW f, NEW S, IsFiniteSet(S), \A x \in S : f[x] = 0
  PROVE  SumFunctionOnSet(f, S) = 0
<1>1. Ints(f, S) /\ {} \in SUBSET S /\ IsFiniteSet({})
  BY FS_EmptySet DEF Ints
<1>2. SumFunctionOnSet(f, S) = SumFunctionOnSet(f, {})
  BY <1>1, SumSupport
<1> QED
  BY <1>1, <1>2, SumPick

\* Sums of naturals are naturals.
LEMMA SumNat ==
  ASSUME NEW f, NEW S, IsFiniteSet(S), \A x \in S : f[x] \in Nat
  PROVE  SumFunctionOnSet(f, S) \in Nat
<1> DEFINE P == {T \in SUBSET S : SumFunctionOnSet(f, T) \in Nat}
<1>1. ASSUME NEW T \in SUBSET S, \A x \in T : T \ {x} \in P PROVE T \in P
  <2>1. IsFiniteSet(T) /\ Ints(f, T)
    BY FS_Subset DEF Ints
  <2>2. CASE T = {}
    <3>1. SumFunctionOnSet(f, T) = 0
      BY <2>1, <2>2, SumPick
    <3> QED
      BY <3>1
  <2>3. CASE T # {}
    <3>1. PICK p \in T : TRUE
      BY <2>3
    <3>2. SumFunctionOnSet(f, T) = f[p] + SumFunctionOnSet(f, T \ {p})
      BY <2>1, SumRemove
    <3>3. f[p] \in Nat /\ SumFunctionOnSet(f, T \ {p}) \in Nat
      BY <1>1
    <3> QED
      BY <3>2, <3>3
  <2> QED
    BY <2>2, <2>3
<1>2. \A T \in SUBSET S : T \in P
  <2> HIDE DEF P
  <2> QED BY <1>1, SubsetInduction
<1> QED
  BY <1>2

----------------------------------------------------------------------------
(* Money. *)

Accounts == Miners \cup {Fee}

\* Amounts are naturals, and all but forfeited ones are accounted for.
MoneyInv ==
  /\ account \subseteq Miners
  /\ pending \in [Accounts -> Nat] /\ owed \in [Miners -> Nat] /\ total \in Int
  /\ MoneyKept

\* Facts about the accounts that every step uses.
LEMMA AccountSums ==
  ASSUME MoneyInv
  PROVE  /\ IsFiniteSet(Miners) /\ IsFiniteSet(Accounts)
         /\ Ints(pending, Accounts) /\ Ints(owed, Miners)
         /\ SumFunctionOnSet(pending, Accounts) \in Int /\ SumFunctionOnSet(owed, Miners) \in Int
         /\ Kept = SumFunctionOnSet(pending, Accounts) + SumFunctionOnSet(owed, Miners)
         /\ Kept \in Int /\ total \in Int /\ Kept <= total /\ (forfeit = {} => Kept = total)
<1>1. IsFiniteSet(Miners) /\ IsFiniteSet(Accounts)
  BY CleanupAssumption, FS_AddElement DEF Accounts
<1>2. Ints(pending, Accounts) /\ Ints(owed, Miners)
  BY DEF MoneyInv, Ints
<1>3. SumFunctionOnSet(pending, Accounts) \in Int /\ SumFunctionOnSet(owed, Miners) \in Int
  BY <1>1, <1>2, SumInt
<1> QED
  BY <1>1, <1>2, <1>3 DEF MoneyInv, MoneyKept, Kept, Accounts

\* The empty database has no money.
LEMMA MoneyInit == Init => MoneyInv
<1> SUFFICES ASSUME Init PROVE MoneyInv
  OBVIOUS
<1>1. IsFiniteSet(Miners) /\ IsFiniteSet(Accounts)
  BY CleanupAssumption, FS_AddElement DEF Accounts
<1>2. /\ pending \in [Accounts -> Nat] /\ owed \in [Miners -> Nat] /\ account \subseteq Miners
      /\ \A a \in Accounts : pending[a] = 0
      /\ \A m \in Miners : owed[m] = 0
      /\ total = 0
  BY DEF Init, Accounts
<1>3. \A f, S : IsFiniteSet(S) /\ (\A x \in S : f[x] = 0) => SumFunctionOnSet(f, S) = 0
  BY SumZero
<1>4. SumFunctionOnSet(pending, Accounts) = 0 /\ SumFunctionOnSet(owed, Miners) = 0
  BY <1>1, <1>2, <1>3
<1> QED
  BY <1>2, <1>4 DEF MoneyInv, MoneyKept, Kept, Accounts

\* The third statement: the fee account gets what the deleted ones had, on top
\* of its own; the payments owed to them are forfeited.
LEMMA CleanAccountsMoney == MoneyInv /\ CleanAccounts => MoneyInv'
<1> SUFFICES ASSUME MoneyInv, CleanAccounts PROVE MoneyInv'
  OBVIOUS
<1> DEFINE gone == account \ miner
           G == gone \cup {Fee}
<1>1. /\ Fee \notin Miners /\ gone \subseteq Miners /\ gone \in SUBSET Miners
      /\ G \in SUBSET Accounts /\ G \ {Fee} = gone /\ Fee \in G
  BY CleanupAssumption DEF MoneyInv, Accounts
<1>2. /\ account' \subseteq Miners
      /\ pending' = [a \in Accounts |->
           IF a = Fee THEN SumFunctionOnSet(pending, G) ELSE IF a \in gone THEN 0 ELSE pending[a]]
      /\ owed' = [m \in Miners |-> IF m \in gone THEN 0 ELSE owed[m]]
      /\ total' = total /\ forfeit' = forfeit \cup {m \in gone : owed[m] > 0}
  BY <1>1 DEF CleanAccounts, FeePending, Accounts, MoneyInv
<1>3. /\ IsFiniteSet(Miners) /\ IsFiniteSet(Accounts)
      /\ Ints(pending, Accounts) /\ Ints(owed, Miners)
      /\ SumFunctionOnSet(pending, Accounts) \in Int /\ SumFunctionOnSet(owed, Miners) \in Int
      /\ Kept = SumFunctionOnSet(pending, Accounts) + SumFunctionOnSet(owed, Miners)
      /\ Kept \in Int /\ total \in Int /\ Kept <= total /\ (forfeit = {} => Kept = total)
  BY AccountSums
<1>4. IsFiniteSet(gone) /\ IsFiniteSet(G) /\ IsFiniteSet(Accounts \ G) /\ IsFiniteSet(Miners \ gone)
  <2>1. Accounts \ G \in SUBSET Accounts /\ Miners \ gone \in SUBSET Miners
    OBVIOUS
  <2> HIDE DEF gone, G
  <2> QED
    BY <1>1, <1>3, <2>1, FS_Subset
<1>5. /\ Ints(pending, G) /\ Ints(pending, Accounts \ G)
      /\ Ints(owed, gone) /\ Ints(owed, Miners \ gone)
  BY <1>1, <1>3 DEF Ints
<1> HIDE DEF gone, G
<1>6. /\ SumFunctionOnSet(pending, G) \in Nat /\ SumFunctionOnSet(pending, Accounts \ G) \in Int
      /\ SumFunctionOnSet(owed, gone) \in Nat /\ SumFunctionOnSet(owed, Miners \ gone) \in Int
  <2>1. (\A a \in G : pending[a] \in Nat) /\ (\A m \in gone : owed[m] \in Nat)
    BY <1>1 DEF MoneyInv
  <2> QED
    BY <1>4, <1>5, <2>1, SumInt, SumNat
<1>7. pending' \in [Accounts -> Nat] /\ owed' \in [Miners -> Nat]
  BY <1>2, <1>6 DEF MoneyInv
<1>8. Ints(pending', Accounts) /\ Ints(pending', G) /\ Ints(owed', Miners)
  BY <1>1, <1>7 DEF Ints
<1>9. SumFunctionOnSet(pending', Accounts) = SumFunctionOnSet(pending, Accounts)
  <2>1. SumFunctionOnSet(pending', G) = SumFunctionOnSet(pending, G)
    <3>1. pending'[Fee] = SumFunctionOnSet(pending, G) /\ \A a \in gone : pending'[a] = 0
      BY <1>1, <1>2 DEF Accounts
    <3>2. SumFunctionOnSet(pending', gone) = 0
      BY <1>4, <3>1, SumZero
    <3>3. SumFunctionOnSet(pending', G) = pending'[Fee] + SumFunctionOnSet(pending', G \ {Fee})
      BY <1>1, <1>4, <1>8, SumRemove
    <3>4. SumFunctionOnSet(pending', G) = SumFunctionOnSet(pending, G) + 0
      BY <1>1, <3>1, <3>2, <3>3, Zenon
    <3> QED
      BY <1>6, <3>4
  <2>2. SumFunctionOnSet(pending', Accounts \ G) = SumFunctionOnSet(pending, Accounts \ G)
    <3>1. \A a \in Accounts \ G : pending'[a] = pending[a]
      BY <1>1, <1>2
    <3> QED
      BY <1>4, <1>5, <3>1, SumSame
  <2>3. /\ SumFunctionOnSet(pending, Accounts)
             = SumFunctionOnSet(pending, G) + SumFunctionOnSet(pending, Accounts \ G)
        /\ SumFunctionOnSet(pending', Accounts)
             = SumFunctionOnSet(pending', G) + SumFunctionOnSet(pending', Accounts \ G)
    BY <1>1, <1>3, <1>8, SumSplit
  <2> QED
    BY <2>1, <2>2, <2>3
<1>10. SumFunctionOnSet(owed', Miners) = SumFunctionOnSet(owed, Miners) - SumFunctionOnSet(owed, gone)
  <2>1. SumFunctionOnSet(owed', Miners) = SumFunctionOnSet(owed, Miners \ gone)
    <3>1. /\ Miners \ gone \in SUBSET Miners
          /\ \A m \in Miners \ gone : owed[m] = owed'[m]
          /\ \A m \in Miners \ (Miners \ gone) : owed'[m] = 0
      BY <1>2
    <3> DEFINE f == owed'
               T == Miners \ gone
    <3>2. /\ IsFiniteSet(Miners) /\ Ints(f, Miners) /\ T \in SUBSET Miners
          /\ \A m \in T : owed[m] = f[m]
          /\ \A m \in Miners \ T : f[m] = 0
      BY <1>3, <1>8, <3>1
    <3> HIDE DEF f, T
    <3>3. SumFunctionOnSet(f, Miners) = SumFunctionOnSet(owed, T)
      BY <3>2, SumSupport
    <3> QED
      BY <3>3 DEF f, T
  <2>2. SumFunctionOnSet(owed, Miners)
          = SumFunctionOnSet(owed, gone) + SumFunctionOnSet(owed, Miners \ gone)
    BY <1>1, <1>3, SumSplit
  <2> QED
    BY <1>6, <2>1, <2>2
<1>11. Kept' = Kept - SumFunctionOnSet(owed, gone)
  BY <1>3, <1>6, <1>9, <1>10 DEF Kept, Accounts
<1>12. forfeit' = {} => SumFunctionOnSet(owed, gone) = 0
  <2> SUFFICES ASSUME forfeit' = {} PROVE SumFunctionOnSet(owed, gone) = 0
    OBVIOUS
  <2>1. \A m \in gone : owed[m] = 0
    BY <1>1, <1>2 DEF MoneyInv
  <2> QED
    BY <1>4, <2>1, SumZero
<1>13. MoneyKept'
  BY <1>2, <1>3, <1>6, <1>11, <1>12 DEF MoneyKept
<1> QED
  BY <1>2, <1>3, <1>7, <1>13 DEF MoneyInv

\* Every step keeps it.
LEMMA MoneyStep == MoneyInv /\ [Next]_vars => MoneyInv'
<1> SUFFICES ASSUME MoneyInv, [Next]_vars PROVE MoneyInv'
  OBVIOUS
<1>0. /\ IsFiniteSet(Miners) /\ IsFiniteSet(Accounts)
      /\ Ints(pending, Accounts) /\ Ints(owed, Miners)
      /\ SumFunctionOnSet(pending, Accounts) \in Int /\ SumFunctionOnSet(owed, Miners) \in Int
      /\ Kept = SumFunctionOnSet(pending, Accounts) + SumFunctionOnSet(owed, Miners)
      /\ Kept \in Int /\ total \in Int /\ Kept <= total /\ (forfeit = {} => Kept = total)
  BY AccountSums
\* Most steps leave the money alone.
<1>a. ASSUME UNCHANGED money, account' \subseteq Miners PROVE MoneyInv'
  BY <1>a DEF money, MoneyInv, MoneyKept, Kept
<1>1. CASE NewBlock \/ CleanBlocks \/ CleanMiners \/ CleanFails \/ UNCHANGED vars
  BY <1>1, <1>a DEF NewBlock, CleanBlocks, CleanMiners, CleanFails, tables, money, vars, MoneyInv
<1>2. CASE CleanAccounts
  BY <1>2, CleanAccountsMoney
<1>3. ASSUME NEW m \in Miners, Enter(m) \/ Submit(m) \/ Forge(m) PROVE MoneyInv'
  BY <1>3, <1>a DEF Enter, Submit, Forge, MoneyInv
<1>4. ASSUME NEW m \in Miners, Book(m) PROVE MoneyInv'
  <2>1. /\ account' = account /\ total' = total /\ forfeit' = forfeit /\ m \in Accounts
        /\ pending' = [pending EXCEPT ![m] = 0]
        /\ owed' = [owed EXCEPT ![m] = owed[m] + pending[m]]
    BY <1>4 DEF Book, tables, Accounts
  <2>2. /\ pending[m] \in Nat /\ owed[m] \in Nat
        /\ pending' \in [Accounts -> Nat] /\ owed' \in [Miners -> Nat]
        /\ pending'[m] = 0 /\ owed'[m] = owed[m] + pending[m]
        /\ \A a \in Accounts \ {m} : pending'[a] = pending[a]
        /\ \A n \in Miners \ {m} : owed'[n] = owed[n]
    BY <2>1 DEF MoneyInv
  <2>3. SumFunctionOnSet(pending', Accounts) = SumFunctionOnSet(pending, Accounts) + 0 - pending[m]
    <3> DEFINE g == pending'
    <3>1. m \in Accounts /\ g[m] = 0 /\ g[m] \in Int /\ \A a \in Accounts \ {m} : g[a] = pending[a]
      BY <2>1, <2>2
    <3> HIDE DEF g
    <3>2. SumFunctionOnSet(g, Accounts) = SumFunctionOnSet(pending, Accounts) + g[m] - pending[m]
      BY <1>0, <3>1, SumChange
    <3> QED
      BY <3>1, <3>2 DEF g
  <2>4. owed'[m] \in Int
    BY <2>2
  <2>5. SumFunctionOnSet(owed', Miners) = SumFunctionOnSet(owed, Miners) + owed'[m] - owed[m]
    BY <1>0, <2>2, <2>4, SumChange
  <2>6. MoneyKept'
    BY <1>0, <2>1, <2>2, <2>3, <2>5 DEF MoneyKept, Kept, Accounts
  <2> QED
    BY <2>1, <2>2, <2>6 DEF MoneyInv
<1>5. ASSUME NEW m \in Miners, Paid(m) PROVE MoneyInv'
  <2>1. /\ account' = account /\ total' = total - owed[m] /\ forfeit' = forfeit /\ pending' = pending
        /\ owed' = [owed EXCEPT ![m] = 0]
    BY <1>5 DEF Paid, tables
  <2>2. /\ owed[m] \in Nat /\ owed' \in [Miners -> Nat] /\ owed'[m] = 0
        /\ \A n \in Miners \ {m} : owed'[n] = owed[n]
    BY <2>1 DEF MoneyInv
  <2>3. SumFunctionOnSet(owed', Miners) = SumFunctionOnSet(owed, Miners) + 0 - owed[m]
    BY <1>0, <2>2, SumChange
  <2>4. MoneyKept'
    BY <1>0, <2>1, <2>2, <2>3 DEF MoneyKept, Kept, Accounts
  <2> QED
    BY <2>1, <2>2, <2>4 DEF MoneyInv
<1>6. ASSUME NEW a \in Miners \cup {Fee}, Credit(a) PROVE MoneyInv'
  <2>1. /\ account' = account /\ total' = total + 1 /\ forfeit' = forfeit /\ owed' = owed
        /\ a \in Accounts
        /\ pending' = [pending EXCEPT ![a] = pending[a] + 1]
    BY <1>6 DEF Credit, tables, Accounts
  <2>2. /\ pending[a] \in Nat /\ pending' \in [Accounts -> Nat] /\ pending'[a] = pending[a] + 1
        /\ \A b \in Accounts \ {a} : pending'[b] = pending[b]
    BY <2>1 DEF MoneyInv
  <2>3. pending'[a] \in Int
    BY <2>2
  <2>4. SumFunctionOnSet(pending', Accounts)
          = SumFunctionOnSet(pending, Accounts) + pending'[a] - pending[a]
    <3> DEFINE g == pending'
    <3>1. a \in Accounts /\ g[a] \in Int /\ \A b \in Accounts \ {a} : g[b] = pending[b]
      BY <2>1, <2>2, <2>3
    <3> HIDE DEF g
    <3>2. SumFunctionOnSet(g, Accounts) = SumFunctionOnSet(pending, Accounts) + g[a] - pending[a]
      BY <1>0, <3>1, SumChange
    <3> QED
      BY <3>2 DEF g
  <2>5. MoneyKept'
    BY <1>0, <2>1, <2>2, <2>4 DEF MoneyKept, Kept, Accounts
  <2> QED
    BY <2>1, <2>2, <2>5 DEF MoneyInv
<1> QED
  BY <1>1, <1>2, <1>3, <1>4, <1>5, <1>6 DEF Next

\* Whatever accounts CleanDB deletes, at whatever point between submissions,
\* rewards and payments: no planck is doubled, and none is lost but those of
\* payments booked for a deleted account and not sent.
THEOREM OnlyForfeitsLost == Spec => []MoneyKept
<1>1. MoneyInv => MoneyKept
  BY DEF MoneyInv
<1> QED
  BY <1>1, MoneyInit, MoneyStep, PTL DEF Spec
=============================================================================
