---------------------------- MODULE PayoutProofs ----------------------------
(***************************************************************************)
(* For any number of miners, heights, rows, chain transactions, wallets    *)
(* and crashes, and any fees and shares: every planck is pending or booked *)
(* once, a block is credited once and for no more than its reward and the  *)
(* rounding, no row is closed unpaid, and none is paid twice as long as no *)
(* wallet answers "Unknown transaction" for a mined one (Lagging = {}).    *)
(*                                                                         *)
(* The amounts are sums over functions, so the module begins with what is  *)
(* needed of SumFunctionOnSet.  The library's induction takes an operator; *)
(* here it is stated with a set of sets (SubsetInduction) instead.         *)
(***************************************************************************)
EXTENDS Payout, FiniteSetTheorems, TLAPS

----------------------------------------------------------------------------
(* Finite sums. *)

\* A nonempty set of naturals has a least element.
LEMMA LeastExists ==
  ASSUME NEW S, S \subseteq Nat, S # {}
  PROVE  \E x \in S : \A y \in S : x <= y
<1>1. \E x \in S : \A y \in S : ~(<<y, x>> \in OpToRel(<, Nat))
  BY NatLessThanWellFounded, WFMin
<1>2. ASSUME NEW x \in S, NEW y \in S, ~(<<y, x>> \in OpToRel(<, Nat)) PROVE x <= y
  <2>1. ~(y < x)
    BY <1>2, Zenon DEF OpToRel
  <2> QED
    BY <2>1
<1> QED
  BY <1>1, <1>2

\* Induction over the subsets of a finite set, the property given as a set P.
LEMMA SubsetInduction ==
  ASSUME NEW S, IsFiniteSet(S), NEW P,
         \A T \in SUBSET S : (\A x \in T : T \ {x} \in P) => T \in P
  PROVE  \A T \in SUBSET S : T \in P
<1> DEFINE Bad == {T \in SUBSET S : T \notin P}
           Sizes == {Cardinality(T) : T \in Bad}
<1> SUFFICES ASSUME Bad # {} PROVE FALSE
  OBVIOUS
<1>1. \A T \in SUBSET S : IsFiniteSet(T) /\ Cardinality(T) \in Nat
  BY FS_Subset, FS_CardinalityType
<1>2. Sizes \subseteq Nat /\ Sizes # {}
  BY <1>1
<1>3. PICK n \in Sizes : \A m \in Sizes : n <= m
  BY <1>2, LeastExists
<1>4. PICK T \in Bad : n = Cardinality(T)
  OBVIOUS
<1>5. PICK x \in T : T \ {x} \notin P
  BY <1>4
<1>6. T \ {x} \in Bad
  BY <1>5
<1>7. Cardinality(T \ {x}) = Cardinality(T) - 1 /\ Cardinality(T) \in Nat
  BY <1>1, FS_RemoveElement
<1>8. Cardinality(T \ {x}) \in Sizes
  BY <1>6
<1> HIDE DEF Sizes, Bad
<1>9. Cardinality(T) <= Cardinality(T \ {x})
  BY <1>3, <1>4, <1>8
<1> QED
  BY <1>7, <1>9

----------------------------------------------------------------------------
\* SumFunctionOnSet takes the members of a set one by one.
Pick(s) == CHOOSE x \in s : TRUE
Sums(f, s, g) == IF s = {} THEN 0 ELSE f[Pick(s)] + g[s \ {Pick(s)}]
IsIter(g, f, S) == g = [s \in SUBSET S |-> Sums(f, s, g)]
Iter(f, S) == CHOOSE g : IsIter(g, f, S)

\* The sum is the value of the recursive function at the whole set.
LEMMA SumIsIter == \A f, S : SumFunctionOnSet(f, S) = Iter(f, S)[S]
  BY DEF SumFunctionOnSet, FoldFunctionOnSet, MapThenFoldSet, Iter, IsIter, Sums, Pick

\* The member taken is one of the set.
LEMMA PickIn == \A s : s # {} => Pick(s) \in s
  BY DEF Pick

\* The recursive function exists, since every set of the recursion is smaller.
LEMMA IterExists ==
  ASSUME NEW f, NEW S, IsFiniteSet(S)
  PROVE  IsIter(Iter(f, S), f, S)
<1> DEFINE Sub(n) == {s \in SUBSET S : Cardinality(s) <= n}
           Good(n) == \E g : g = [s \in Sub(n) |-> Sums(f, s, g)]
           Bad == {n \in Nat : ~Good(n)}
<1>1. \A s \in SUBSET S : IsFiniteSet(s) /\ Cardinality(s) \in Nat /\ Cardinality(s) <= Cardinality(S)
  BY FS_Subset, FS_CardinalityType
<1>2. \A s \in SUBSET S : s # {} => /\ s \ {Pick(s)} \in SUBSET S
                                    /\ Cardinality(s \ {Pick(s)}) = Cardinality(s) - 1
  BY <1>1, PickIn, FS_RemoveElement
<1>3. Good(0)
  <2> DEFINE g == [s \in Sub(0) |-> 0]
  <2>1. \A s \in Sub(0) : s = {}
    BY <1>1, FS_EmptySet
  <2>2. g = [s \in Sub(0) |-> Sums(f, s, g)]
    BY <2>1 DEF Sums
  <2> QED
    BY <2>2
<1>4. ASSUME NEW n \in Nat, Good(n) PROVE Good(n + 1)
  <2>1. PICK g : g = [s \in Sub(n) |-> Sums(f, s, g)]
    BY <1>4
  <2> DEFINE h == [s \in Sub(n + 1) |-> Sums(f, s, g)]
  <2>2. Sub(n) \subseteq Sub(n + 1)
    BY <1>1
  <2>3. \A s \in Sub(n) : h[s] = g[s]
    BY <2>1, <2>2
  <2>4. \A s \in Sub(n + 1) : s # {} => s \ {Pick(s)} \in Sub(n)
    BY <1>1, <1>2
  <2> HIDE DEF Sub
  <2>5. ASSUME NEW s \in Sub(n + 1) PROVE Sums(f, s, g) = Sums(f, s, h)
    BY <2>3, <2>4 DEF Sums
  <2>6. h = [s \in Sub(n + 1) |-> Sums(f, s, h)]
    BY <2>5
  <2> QED
    BY <2>6
<1> HIDE DEF Good
<1>5. Bad = {}
  <2> SUFFICES ASSUME Bad # {} PROVE FALSE
    OBVIOUS
  <2>1. PICK n \in Bad : \A m \in Bad : n <= m
    BY LeastExists
  <2>2. n \in Nat /\ n # 0 /\ ~Good(n)
    BY <1>3
  <2>3. n - 1 \in Nat /\ n - 1 \notin Bad
    BY <2>1, <2>2
  <2> QED
    BY <1>4, <2>2, <2>3
<1>6. Good(Cardinality(S))
  BY <1>1, <1>5
<1>7. Sub(Cardinality(S)) = SUBSET S
  BY <1>1
<1>8. \E g : IsIter(g, f, S)
  BY <1>6, <1>7 DEF Good, IsIter
<1> QED
  BY <1>8 DEF Iter

\* The sum over a part does not depend on the whole.
LEMMA IterPart ==
  ASSUME NEW f, NEW S, IsFiniteSet(S), NEW T \in SUBSET S
  PROVE  Iter(f, S)[T] = Iter(f, T)[T]
<1> DEFINE P == {s \in SUBSET T : Iter(f, S)[s] = Iter(f, T)[s]}
<1>1. IsFiniteSet(T)
  BY FS_Subset
<1>2. \A s \in SUBSET T : s \in SUBSET S
  OBVIOUS
<1>3. IsIter(Iter(f, S), f, S) /\ IsIter(Iter(f, T), f, T)
  BY <1>1, IterExists
<1>4. \A s \in SUBSET T : /\ Iter(f, S)[s] = Sums(f, s, Iter(f, S))
                          /\ Iter(f, T)[s] = Sums(f, s, Iter(f, T))
  BY <1>2, <1>3 DEF IsIter
<1>5. ASSUME NEW s \in SUBSET T, \A x \in s : s \ {x} \in P PROVE s \in P
  BY <1>4, <1>5, PickIn DEF Sums
<1>6. \A s \in SUBSET T : s \in P
  <2> HIDE DEF P
  <2> QED BY <1>1, <1>5, SubsetInduction
<1> QED
  BY <1>6

\* One step of the recursion.
LEMMA SumPick ==
  ASSUME NEW f, NEW S, IsFiniteSet(S)
  PROVE  /\ S = {} => SumFunctionOnSet(f, S) = 0
         /\ S # {} => SumFunctionOnSet(f, S) = f[Pick(S)] + SumFunctionOnSet(f, S \ {Pick(S)})
<1>1. Iter(f, S)[S] = Sums(f, S, Iter(f, S))
  <2>1. IsIter(Iter(f, S), f, S) /\ S \in SUBSET S
    BY IterExists
  <2> QED
    BY <2>1 DEF IsIter
<1>2. S \ {Pick(S)} \in SUBSET S
  OBVIOUS
<1>3. Iter(f, S)[S \ {Pick(S)}] = Iter(f, S \ {Pick(S)})[S \ {Pick(S)}]
  BY <1>2, IterPart
<1> QED
  BY <1>1, <1>3, SumIsIter DEF Sums

\* f has integer values on S.
Ints(f, S) == \A x \in S : f[x] \in Int

\* A sum of integers is one, and not negative if none of them is.
LEMMA SumInt ==
  ASSUME NEW f, NEW S, IsFiniteSet(S), Ints(f, S)
  PROVE  /\ SumFunctionOnSet(f, S) \in Int
         /\ (\A x \in S : f[x] >= 0) => SumFunctionOnSet(f, S) >= 0
<1> DEFINE P == {T \in SUBSET S : /\ SumFunctionOnSet(f, T) \in Int
                                  /\ (\A x \in T : f[x] >= 0) => SumFunctionOnSet(f, T) >= 0}
<1>1. ASSUME NEW T \in SUBSET S, \A x \in T : T \ {x} \in P PROVE T \in P
  <2>1. IsFiniteSet(T)
    BY FS_Subset
  <2>2. CASE T = {}
    <3>1. SumFunctionOnSet(f, T) = 0
      BY <2>1, <2>2, SumPick
    <3> QED
      BY <3>1
  <2>3. CASE T # {}
    <3>1. Pick(T) \in T /\ T \ {Pick(T)} \in P /\ f[Pick(T)] \in Int
      BY <1>1, <2>3, PickIn DEF Ints
    <3>2. SumFunctionOnSet(f, T) = f[Pick(T)] + SumFunctionOnSet(f, T \ {Pick(T)})
      BY <2>1, <2>3, SumPick
    <3> QED
      BY <3>1, <3>2
  <2> QED
    BY <2>2, <2>3
<1>2. \A T \in SUBSET S : T \in P
  <2> HIDE DEF P
  <2> QED BY <1>1, SubsetInduction
<1> QED
  BY <1>2

\* The order does not matter.
LEMMA SumRemove ==
  ASSUME NEW f, NEW S, IsFiniteSet(S), Ints(f, S), NEW x \in S
  PROVE  SumFunctionOnSet(f, S) = f[x] + SumFunctionOnSet(f, S \ {x})
<1> DEFINE P == {T \in SUBSET S : \A y \in T :
                   SumFunctionOnSet(f, T) = f[y] + SumFunctionOnSet(f, T \ {y})}
<1>1. ASSUME NEW T \in SUBSET S, \A y \in T : T \ {y} \in P PROVE T \in P
  <2>1. \A U \in SUBSET S : IsFiniteSet(U) /\ SumFunctionOnSet(f, U) \in Int
    <3>1. ASSUME NEW U \in SUBSET S PROVE IsFiniteSet(U) /\ Ints(f, U)
      BY FS_Subset DEF Ints
    <3> QED
      BY <3>1, SumInt
  <2>2. ASSUME NEW y \in T PROVE SumFunctionOnSet(f, T) = f[y] + SumFunctionOnSet(f, T \ {y})
    <3> DEFINE p == Pick(T)
    <3>1. p \in T /\ T # {} /\ f[p] \in Int /\ f[y] \in Int
      BY <2>2, PickIn DEF Ints
    <3>2. SumFunctionOnSet(f, T) = f[p] + SumFunctionOnSet(f, T \ {p})
      BY <2>1, <3>1, SumPick
    <3>3. CASE p = y
      BY <3>2, <3>3
    <3>4. CASE p # y
      <4>1. y \in T \ {p} /\ p \in T \ {y} /\ T \ {p} \in P /\ T \ {y} \in P
        BY <1>1, <3>1, <3>4
      <4>2. SumFunctionOnSet(f, T \ {p}) = f[y] + SumFunctionOnSet(f, (T \ {p}) \ {y})
        BY <4>1
      <4>3. SumFunctionOnSet(f, T \ {y}) = f[p] + SumFunctionOnSet(f, (T \ {y}) \ {p})
        BY <4>1
      <4>4. (T \ {p}) \ {y} = (T \ {y}) \ {p}
        OBVIOUS
      <4> DEFINE r == SumFunctionOnSet(f, (T \ {y}) \ {p})
      <4>5. r \in Int
        BY <2>1
      <4>6. SumFunctionOnSet(f, T) = f[p] + (f[y] + r) /\ SumFunctionOnSet(f, T \ {y}) = f[p] + r
        BY <3>2, <4>2, <4>3, <4>4
      <4> HIDE DEF r, p
      <4> QED
        BY <3>1, <4>5, <4>6
    <3> QED
      BY <3>3, <3>4
  <2> QED
    BY <2>2
<1>2. \A T \in SUBSET S : T \in P
  <2> HIDE DEF P
  <2> QED BY <1>1, SubsetInduction
<1> QED
  BY <1>2

\* The sum of h is the sum of f and g, if it is so for every member.
LEMMA SumPlus ==
  ASSUME NEW f, NEW g, NEW h, NEW S, IsFiniteSet(S), Ints(f, S), Ints(g, S),
         \A x \in S : h[x] = f[x] + g[x]
  PROVE  SumFunctionOnSet(h, S) = SumFunctionOnSet(f, S) + SumFunctionOnSet(g, S)
<1> DEFINE P == {T \in SUBSET S :
                   SumFunctionOnSet(h, T) = SumFunctionOnSet(f, T) + SumFunctionOnSet(g, T)}
<1>1. ASSUME NEW T \in SUBSET S, \A x \in T : T \ {x} \in P PROVE T \in P
  <2>1. \A U \in SUBSET S : IsFiniteSet(U) /\ SumFunctionOnSet(f, U) \in Int /\ SumFunctionOnSet(g, U) \in Int
    <3>1. ASSUME NEW U \in SUBSET S PROVE IsFiniteSet(U) /\ Ints(f, U) /\ Ints(g, U)
      BY FS_Subset DEF Ints
    <3> QED
      BY <3>1, SumInt
  <2>2. CASE T = {}
    <3>1. \A e : SumFunctionOnSet(e, T) = 0
      BY <2>1, <2>2, SumPick
    <3> QED
      BY <3>1
  <2>3. CASE T # {}
    <3> DEFINE p == Pick(T)
               U == T \ {p}
    <3>1. p \in T /\ U \in P /\ U \in SUBSET S
      BY <1>1, <2>3, PickIn
    <3>2. f[p] \in Int /\ g[p] \in Int /\ h[p] = f[p] + g[p]
      BY <3>1 DEF Ints
    <3>3. /\ SumFunctionOnSet(f, T) = f[p] + SumFunctionOnSet(f, U)
          /\ SumFunctionOnSet(g, T) = g[p] + SumFunctionOnSet(g, U)
          /\ SumFunctionOnSet(h, T) = h[p] + SumFunctionOnSet(h, U)
      BY <2>1, <2>3, SumPick
    <3>4. SumFunctionOnSet(h, U) = SumFunctionOnSet(f, U) + SumFunctionOnSet(g, U)
      BY <3>1
    <3>5. SumFunctionOnSet(f, U) \in Int /\ SumFunctionOnSet(g, U) \in Int
      BY <2>1, <3>1
    <3> HIDE DEF p, U
    <3> QED
      BY <3>2, <3>3, <3>4, <3>5
  <2> QED
    BY <2>2, <2>3
<1>2. \A T \in SUBSET S : T \in P
  <2> HIDE DEF P
  <2> QED BY <1>1, SubsetInduction
<1> QED
  BY <1>2

\* A part where f is 0 does not count; equal functions have equal sums.
LEMMA SumSupport ==
  ASSUME NEW f, NEW g, NEW S, IsFiniteSet(S), Ints(f, S), NEW T \in SUBSET S,
         \A x \in T : g[x] = f[x], \A x \in S \ T : f[x] = 0
  PROVE  SumFunctionOnSet(f, S) = SumFunctionOnSet(g, T)
<1> DEFINE P == {U \in SUBSET S : SumFunctionOnSet(f, U) = SumFunctionOnSet(g, U \cap T)}
<1>1. ASSUME NEW U \in SUBSET S, \A x \in U : U \ {x} \in P PROVE U \in P
  <2>1. IsFiniteSet(U) /\ IsFiniteSet(U \cap T) /\ Ints(f, U) /\ Ints(g, U \cap T)
    BY FS_Subset DEF Ints
  <2>2. CASE U = {}
    BY <2>1, <2>2, SumPick
  <2>3. CASE U # {}
    <3>1. PICK p \in U : TRUE
      BY <2>3
    <3>2. SumFunctionOnSet(f, U) = f[p] + SumFunctionOnSet(f, U \ {p})
      BY <2>1, SumRemove
    <3>3. SumFunctionOnSet(f, U \ {p}) = SumFunctionOnSet(g, (U \ {p}) \cap T)
      BY <1>1
    <3>4. SumFunctionOnSet(f, U \ {p}) \in Int
      <4>1. IsFiniteSet(U \ {p}) /\ Ints(f, U \ {p})
        BY <2>1, FS_Subset DEF Ints
      <4> QED BY <4>1, SumInt
    <3>5. CASE p \in T
      <4>1. (U \ {p}) \cap T = (U \cap T) \ {p} /\ p \in U \cap T
        BY <3>5
      <4>2. SumFunctionOnSet(g, U \cap T) = g[p] + SumFunctionOnSet(g, (U \cap T) \ {p})
        BY <2>1, <4>1, SumRemove
      <4> QED
        BY <3>2, <3>3, <3>5, <4>1, <4>2
    <3>6. CASE p \notin T
      <4>1. (U \ {p}) \cap T = U \cap T /\ f[p] = 0
        BY <3>6
      <4>2. SumFunctionOnSet(f, U) = SumFunctionOnSet(f, U \ {p})
        BY <3>2, <3>4, <4>1
      <4> QED
        BY <3>3, <4>1, <4>2
    <3> QED
      BY <3>5, <3>6
  <2> QED
    BY <2>2, <2>3
<1>2. \A U \in SUBSET S : U \in P
  <2> HIDE DEF P
  <2> QED BY <1>1, SubsetInduction
<1>3. S \cap T = T
  OBVIOUS
<1> QED
  BY <1>2, <1>3

\* Functions that agree on S have the same sum over S.
LEMMA SumSame ==
  ASSUME NEW f, NEW g, NEW S, IsFiniteSet(S), Ints(f, S), \A x \in S : g[x] = f[x]
  PROVE  SumFunctionOnSet(g, S) = SumFunctionOnSet(f, S)
<1>1. S \in SUBSET S /\ \A x \in S \ S : f[x] = 0
  OBVIOUS
<1> QED
  BY <1>1, SumSupport

\* One value changes.
LEMMA SumChange ==
  ASSUME NEW f, NEW g, NEW S, IsFiniteSet(S), Ints(f, S), NEW x \in S, g[x] \in Int,
         \A y \in S \ {x} : g[y] = f[y]
  PROVE  SumFunctionOnSet(g, S) = SumFunctionOnSet(f, S) + g[x] - f[x]
<1>1. Ints(g, S) /\ IsFiniteSet(S \ {x}) /\ Ints(f, S \ {x}) /\ f[x] \in Int
  BY FS_Subset DEF Ints
<1>2. SumFunctionOnSet(g, S \ {x}) = SumFunctionOnSet(f, S \ {x})
  BY <1>1, SumSame
<1>3. /\ SumFunctionOnSet(f, S) = f[x] + SumFunctionOnSet(f, S \ {x})
      /\ SumFunctionOnSet(g, S) = g[x] + SumFunctionOnSet(g, S \ {x})
  BY <1>1, SumRemove
<1>4. SumFunctionOnSet(f, S \ {x}) \in Int
  BY <1>1, SumInt
<1> QED
  BY <1>1, <1>2, <1>3, <1>4

\* A set falls into two parts.
LEMMA SumSplit ==
  ASSUME NEW f, NEW S, IsFiniteSet(S), Ints(f, S), NEW T \in SUBSET S
  PROVE  SumFunctionOnSet(f, S) = SumFunctionOnSet(f, T) + SumFunctionOnSet(f, S \ T)
<1> DEFINE a == [x \in S |-> IF x \in T THEN f[x] ELSE 0]
           b == [x \in S |-> IF x \in T THEN 0 ELSE f[x]]
<1>1. /\ \A x \in T : f[x] = a[x] /\ b[x] = 0
      /\ \A x \in S \ T : f[x] = b[x] /\ a[x] = 0
  OBVIOUS
<1>2. Ints(a, S) /\ Ints(b, S) /\ \A x \in S : f[x] = a[x] + b[x]
  BY DEF Ints
<1>3. S \ T \in SUBSET S /\ S \ (S \ T) = T
  OBVIOUS
<1> HIDE DEF a, b
<1>4. SumFunctionOnSet(a, S) = SumFunctionOnSet(f, T)
  BY <1>1, <1>2, SumSupport
<1>5. SumFunctionOnSet(b, S) = SumFunctionOnSet(f, S \ T)
  BY <1>1, <1>2, <1>3, SumSupport
<1>6. SumFunctionOnSet(f, S) = SumFunctionOnSet(a, S) + SumFunctionOnSet(b, S)
  BY <1>2, SumPlus
<1> QED
  BY <1>4, <1>5, <1>6

\* A set falls into the parts that c sends to the members of T: F is what the
\* parts sum up to.
LEMMA SumFibres ==
  ASSUME NEW f, NEW S, IsFiniteSet(S), Ints(f, S), NEW T, IsFiniteSet(T), NEW c, NEW F,
         \A x \in S : c[x] \in T,
         \A t \in T : F[t] = SumFunctionOnSet(f, {x \in S : c[x] = t})
  PROVE  SumFunctionOnSet(F, T) = SumFunctionOnSet(f, S)
<1> DEFINE Over(U) == {x \in S : c[x] \in U}
           P == {U \in SUBSET T : SumFunctionOnSet(F, U) = SumFunctionOnSet(f, Over(U))}
<1>1. ASSUME NEW U \in SUBSET T, \A t \in U : U \ {t} \in P PROVE U \in P
  <2>1. IsFiniteSet(U) /\ IsFiniteSet(Over(U)) /\ Ints(f, Over(U))
    BY FS_Subset DEF Ints
  <2>2. CASE U = {}
    <3>1. Over(U) = {}
      BY <2>2
    <3>2. SumFunctionOnSet(F, U) = 0 /\ SumFunctionOnSet(f, Over(U)) = 0
      BY <2>1, <2>2, <3>1, SumPick
    <3> QED
      BY <3>2
  <2>3. CASE U # {}
    <3> DEFINE t == Pick(U)
               A == {x \in S : c[x] = t}
    <3>1. t \in U /\ U \ {t} \in P
      BY <1>1, <2>3, PickIn
    <3>2. SumFunctionOnSet(F, U) = F[t] + SumFunctionOnSet(F, U \ {t})
      BY <2>1, <2>3, SumPick
    <3>3. A \in SUBSET Over(U) /\ Over(U) \ A = Over(U \ {t})
      BY <3>1
    <3>4. SumFunctionOnSet(f, Over(U)) = SumFunctionOnSet(f, A) + SumFunctionOnSet(f, Over(U) \ A)
      BY <2>1, <3>3, SumSplit
    <3>5. F[t] = SumFunctionOnSet(f, A)
      BY <3>1
    <3>6. SumFunctionOnSet(F, U \ {t}) = SumFunctionOnSet(f, Over(U \ {t}))
      BY <3>1
    <3> QED
      BY <3>2, <3>3, <3>4, <3>5, <3>6
  <2> QED
    BY <2>2, <2>3
<1>2. \A U \in SUBSET T : U \in P
  <2> HIDE DEF P
  <2> QED BY <1>1, SubsetInduction
<1>3. Over(T) = S
  OBVIOUS
<1> QED
  BY <1>2, <1>3

\* A constant.
LEMMA SumConstant ==
  ASSUME NEW f, NEW S, IsFiniteSet(S), NEW k \in Int, \A x \in S : f[x] = k
  PROVE  SumFunctionOnSet(f, S) = k * Cardinality(S)
<1> DEFINE P == {T \in SUBSET S : SumFunctionOnSet(f, T) = k * Cardinality(T)}
<1>1. ASSUME NEW T \in SUBSET S, \A x \in T : T \ {x} \in P PROVE T \in P
  <2>1. IsFiniteSet(T)
    BY FS_Subset
  <2>2. CASE T = {}
    <3>1. SumFunctionOnSet(f, T) = 0 /\ Cardinality(T) = 0
      BY <2>1, <2>2, SumPick, FS_EmptySet
    <3> QED
      BY <3>1
  <2>3. CASE T # {}
    <3> DEFINE U == T \ {Pick(T)}
    <3>1. Pick(T) \in T /\ U \in P /\ f[Pick(T)] = k
      BY <1>1, <2>3, PickIn
    <3>2. SumFunctionOnSet(f, T) = k + SumFunctionOnSet(f, U)
      BY <2>1, <2>3, <3>1, SumPick
    <3>3. Cardinality(U) = Cardinality(T) - 1 /\ Cardinality(T) \in Nat
      BY <2>1, <3>1, FS_RemoveElement, FS_CardinalityType
    <3>4. SumFunctionOnSet(f, U) = k * Cardinality(U)
      BY <3>1
    <3> DEFINE n == Cardinality(T)
    <3>5. n \in Int /\ SumFunctionOnSet(f, T) = k + k * (n - 1)
      BY <3>2, <3>3, <3>4
    <3> HIDE DEF n
    <3>6. k + k * (n - 1) = k * n
      BY <3>5
    <3> QED
      BY <3>5, <3>6 DEF n
  <2> QED
    BY <2>2, <2>3
<1>2. \A T \in SUBSET S : T \in P
  <2> HIDE DEF P
  <2> QED BY <1>1, SubsetInduction
<1> QED
  BY <1>2

----------------------------------------------------------------------------
(* The books. *)

\* The part of TypeOK the argument needs, with the type of todo per phase.
PayType ==
  /\ jobs \in Phases
  /\ nextRow \in 1 .. MaxRows + 1
  /\ rowStatus \in [RowIds -> {"unused", "unsent", "sent", "confirmed", "deleted"}]
  /\ rowTx \in [RowIds -> TxIds \cup {Null}]
  /\ aged \subseteq RowIds
  /\ txStatus \in [TxIds -> {"dead", "pool", "mined"}]
  /\ txRow \in [TxIds -> RowIds \cup {Null}]
  /\ recorded \subseteq TxIds
  /\ jobs = "record" => sending \in RowIds \X TxIds
  /\ jobs = "validate" => todo \subseteq TxIds
  /\ jobs \in {"send", "record"} => todo \subseteq RowIds

\* Rows are used in the order of their ids.
RowOrder == \A r \in RowIds : rowStatus[r] = "unused" <=> r >= nextRow

\* A row has a chain transaction exactly while it counts as sent or closed,
\* and that transaction is recorded and its own.
RowLink ==
  \A r \in RowIds :
    /\ rowStatus[r] \in {"unused", "unsent"} => rowTx[r] = Null
    /\ rowStatus[r] \in {"sent", "confirmed", "deleted"} =>
         rowTx[r] \in recorded /\ txRow[rowTx[r]] = r

\* A transaction that is old enough to be validated is not in the pool of
\* unconfirmed transactions any more.
AgedSettled ==
  /\ \A r \in aged : rowStatus[r] = "sent" => txStatus[rowTx[r]] # "pool"
  /\ jobs = "validate" => \A t \in todo : txStatus[t] # "pool"

\* What sendMoney has in hand between the payment and its record.
SendingFresh ==
  /\ jobs = "send" => \A r \in todo : rowStatus[r] = "unsent"
  /\ jobs = "record" =>
       /\ \A r \in todo : rowStatus[r] = "unsent" /\ r # sending[1]
       /\ rowStatus[sending[1]] = "unsent"
       /\ sending[2] \notin recorded
       /\ txRow[sending[2]] = sending[1]

ClosedMined ==
  \A r \in RowIds : rowStatus[r] \in {"confirmed", "deleted"} => txStatus[rowTx[r]] = "mined"

BookInv == PayType /\ RowOrder /\ RowLink /\ AgedSettled /\ SendingFresh /\ ClosedMined

----------------------------------------------------------------------------
\* The action of Next that a step takes.
LEMMA NextCases ==
  ASSUME Next
  PROVE  \/ \E top \in Heights \cup {0}, who \in SUBSET Miners : RewardBlocks(top, who)
         \/ \E a \in Miners, msg \in Messages : SetMinPayout(a, msg)
         \/ RewardFails \/ BlockLost
         \/ \E eepsOf \in EepsChoices, g \in Miners : RewardBlock(eepsOf, g)
         \/ RewardDone \/ CreateTransactions \/ CreateNothing
         \/ \E t \in TxIds : \E ans \in Answers(t), known \in BOOLEAN : ValidateTransaction(t, ans, known)
         \/ ValidateDone
         \/ \E r \in RowIds : SendFails(r)
         \/ \E r \in RowIds, t \in TxIds, reached \in BOOLEAN : SendPayment(r, t, reached)
         \/ RecordTransaction \/ SendDone
         \/ \E t \in TxIds : Mine(t)
         \/ \E weekEnds \in BOOLEAN : DayPasses(weekEnds)
         \/ Crash
  BY DEF Next, Jobs, Reward, Validate, Send

\* How many rows a payout to n accounts takes.
LEMMA NumberTxsNat == \A n \in Nat : NumberTxsToCreate(n) \in Nat
  BY RecipientsAssumption DEF NumberTxsToCreate

\* What the wallets say of a transaction: it is found only if it is mined, and
\* if none lags behind, it is unknown only if it is not.
LEMMA WalletsSay ==
  ASSUME NEW t \in TxIds, NEW ans \in Answers(t)
  PROVE  /\ GetTransaction(ans) = "found" => txStatus[t] = "mined"
         /\ Lagging = {} /\ GetTransaction(ans) = "unknown" => txStatus[t] # "mined"
  BY DEF GetTransaction, Answers

----------------------------------------------------------------------------
\* Before the first payout there are no rows and no chain transactions.
LEMMA BookInitial == Init => BookInv
  BY BoundAssumption
  DEF Init, BookInv, PayType, Phases, RowIds, RowOrder, RowLink, AgedSettled,
      SendingFresh, ClosedMined

\* Every database transaction, wallet call, day and crash keeps the books.
LEMMA BookInductive == BookInv /\ [Next]_vars => BookInv'
<1> USE BoundAssumption, NullAssumption
<1> SUFFICES ASSUME BookInv, [Next]_vars PROVE BookInv'
  OBVIOUS
<1> USE DEF Phases
\* The steps that touch neither rows nor chain.
<1>1. ASSUME UNCHANGED <<rowVars, chainVars>>, jobs' \in {"idle", "reward", "create"}
      PROVE  BookInv'
  BY <1>1 DEF BookInv, PayType, RowOrder, RowLink, AgedSettled, SendingFresh,
              ClosedMined, rowVars, chainVars
<1>2. ASSUME NEW top \in Heights \cup {0}, NEW who \in SUBSET Miners, RewardBlocks(top, who)
      PROVE  BookInv'
  BY <1>1, <1>2 DEF RewardBlocks
<1>3. ASSUME NEW a \in Miners, NEW msg \in Messages, SetMinPayout(a, msg) PROVE BookInv'
  BY <1>1, <1>3 DEF SetMinPayout
<1>4. CASE RewardFails \/ BlockLost \/ RewardDone \/ SendDone \/ Crash
  BY <1>1, <1>4 DEF RewardFails, BlockLost, RewardDone, SendDone, Crash
<1>5. ASSUME NEW eepsOf \in EepsChoices, NEW g \in Miners, RewardBlock(eepsOf, g) PROVE BookInv'
  BY <1>1, <1>5 DEF RewardBlock
\* Entering validation: what is fetched has aged.
<1>6. ASSUME UNCHANGED <<rowTx, aged, recorded, chainVars>>, jobs' = "validate",
             todo' = {rowTx[r] : r \in {s \in aged : rowStatus[s] = "sent"}}
      PROVE  /\ jobs' = "validate" => todo' \subseteq TxIds /\ \A t \in todo' : txStatus'[t] # "pool"
  BY <1>6 DEF BookInv, PayType, RowLink, AgedSettled, chainVars
<1>7. CASE CreateTransactions
  <2> DEFINE due == {a \in Accounts : Due(a)}
             n   == Cardinality(due)
  <2>1. n \in Nat
    <3>1. IsFiniteSet(Accounts)
      BY MinersAssumption, FS_AddElement DEF Accounts
    <3>2. IsFiniteSet(due)
      BY <3>1, FS_Subset
    <3> QED BY <3>2, FS_CardinalityType
  <2>2. PICK k \in Nat : k = NumberTxsToCreate(n)
    BY <2>1, NumberTxsNat
  <2>3. /\ nextRow' = nextRow + k /\ nextRow + k <= MaxRows + 1
        /\ rowStatus' = [r \in RowIds |-> IF nextRow <= r /\ r < nextRow + k THEN "unsent" ELSE rowStatus[r]]
        /\ UNCHANGED <<rowTx, aged, recorded, chainVars>> /\ jobs' = "validate"
        /\ todo' = {rowTx[r] : r \in {s \in aged : rowStatus[s] = "sent"}}
    BY <1>7, <2>2 DEF CreateTransactions, NewRows
  <2>4. todo' \subseteq TxIds /\ \A t \in todo' : txStatus'[t] # "pool"
    BY <1>6, <2>3
  <2>5. PayType'
    BY <2>3, <2>4 DEF BookInv, PayType, RowIds, chainVars
  <2>6. RowOrder'
    BY <2>3 DEF BookInv, PayType, RowOrder, RowIds
  <2>7. \A r \in RowIds : rowStatus'[r] # rowStatus[r] => rowStatus[r] = "unused" /\ rowStatus'[r] = "unsent"
    BY <2>3 DEF BookInv, PayType, RowOrder, RowIds
  <2>8. RowLink'
    BY <2>3, <2>7 DEF BookInv, RowLink, chainVars
  <2>9. ClosedMined' /\ SendingFresh'
    BY <2>3, <2>7 DEF BookInv, ClosedMined, SendingFresh, chainVars
  <2>10. AgedSettled'
    BY <2>3, <2>4, <2>7 DEF BookInv, PayType, AgedSettled, chainVars
  <2> QED BY <2>5, <2>6, <2>8, <2>9, <2>10 DEF BookInv
<1>8. CASE CreateNothing
  <2>1. todo' \subseteq TxIds /\ \A t \in todo' : txStatus'[t] # "pool"
    BY <1>6, <1>8 DEF CreateNothing, rowVars
  <2> QED BY <1>8, <2>1 DEF CreateNothing, BookInv, PayType, RowOrder, RowLink, AgedSettled,
            SendingFresh, ClosedMined, rowVars, chainVars
<1>9. ASSUME NEW t \in TxIds, NEW ans \in Answers(t), NEW known \in BOOLEAN,
             ValidateTransaction(t, ans, known)
      PROVE  BookInv'
  <2> DEFINE said == GetTransaction(ans)
  <2>1. /\ jobs = "validate" /\ jobs' = "validate" /\ todo' = todo \ {t} /\ t \in todo
        /\ UNCHANGED <<nextRow, aged, recorded, txStatus, txRow>>
    BY <1>9 DEF ValidateTransaction, chainVars
  <2>2. txStatus[t] # "pool"
    BY <2>1 DEF BookInv, AgedSettled
  <2>3. \A r \in RowIds :
          \/ rowTx'[r] = rowTx[r] /\ rowStatus'[r] = rowStatus[r]
          \/ /\ rowTx[r] = t /\ rowStatus[r] = "sent" /\ txStatus[t] = "mined"
             /\ rowTx'[r] = t /\ rowStatus'[r] \in {"confirmed", "deleted"}
          \/ /\ rowTx[r] = t /\ rowStatus[r] = "sent"
             /\ rowTx'[r] = Null /\ rowStatus'[r] = "unsent"
    <3> TAKE r \in RowIds
    <3>1. CASE r \notin RowsOf(t)
      BY <1>9, <3>1 DEF ValidateTransaction
    <3>2. CASE r \in RowsOf(t) /\ said = "found"
      <4>1. txStatus[t] = "mined"
        BY <3>2, WalletsSay
      <4>2. rowTx'[r] = rowTx[r]
        BY <1>9, <3>2 DEF ValidateTransaction
      <4>3. rowStatus'[r] \in {"confirmed", "deleted"}
        BY <1>9, <3>2 DEF ValidateTransaction, StatusAfter
      <4> QED BY <3>2, <4>1, <4>2, <4>3 DEF RowsOf
    <3>3. CASE r \in RowsOf(t) /\ said = "unknown"
      BY <1>9, <3>3 DEF ValidateTransaction, StatusAfter, RowsOf
    <3>4. CASE r \in RowsOf(t) /\ said = "fail"
      BY <1>9, <3>4 DEF ValidateTransaction, StatusAfter, RowsOf
    <3> QED BY <3>1, <3>2, <3>3, <3>4 DEF GetTransaction
  <2>4. rowTx' \in [RowIds -> TxIds \cup {Null}]
        /\ rowStatus' \in [RowIds -> {"unused", "unsent", "sent", "confirmed", "deleted"}]
    BY <1>9 DEF ValidateTransaction, StatusAfter, GetTransaction, BookInv, PayType
  <2>5. PayType'
    BY <2>1, <2>4 DEF BookInv, PayType
  <2>6. RowOrder'
    BY <2>1, <2>3 DEF BookInv, RowOrder
  <2>7. RowLink'
    BY <2>1, <2>3 DEF BookInv, RowLink
  <2>9. ClosedMined'
    BY <2>1, <2>3 DEF BookInv, ClosedMined
  <2>10. AgedSettled'
    BY <2>1, <2>3 DEF BookInv, PayType, AgedSettled
  <2>11. SendingFresh'
    BY <2>1 DEF SendingFresh
  <2> QED BY <2>5, <2>6, <2>7, <2>9, <2>10, <2>11 DEF BookInv
<1>10. CASE ValidateDone
  BY <1>10 DEF ValidateDone, BookInv, PayType, RowOrder, RowLink, AgedSettled,
               SendingFresh, ClosedMined, rowVars, chainVars
<1>11. ASSUME NEW r \in RowIds, SendFails(r) PROVE BookInv'
  BY <1>11 DEF SendFails, BookInv, PayType, RowOrder, RowLink, AgedSettled,
               SendingFresh, ClosedMined, rowVars, chainVars
<1>12. ASSUME NEW r \in RowIds, NEW t \in TxIds, NEW reached \in BOOLEAN, SendPayment(r, t, reached)
       PROVE  BookInv'
  <2>1. /\ UNCHANGED <<nextRow, rowStatus, rowTx, aged>> /\ recorded' = recorded \ {t}
        /\ jobs = "send" /\ jobs' = "record" /\ sending' = <<r, t>> /\ todo' = todo \ {r} /\ r \in todo
        /\ \A s \in RowIds : rowTx[s] # t
    BY <1>12 DEF SendPayment
  <2>2. /\ txStatus' \in [TxIds -> {"dead", "pool", "mined"}] /\ txRow' \in [TxIds -> RowIds \cup {Null}]
        /\ \A u \in TxIds \ {t} : txStatus'[u] = txStatus[u] /\ txRow'[u] = txRow[u]
        /\ txRow'[t] = r
    BY <1>12 DEF SendPayment, BookInv, PayType
  <2>3. PayType'
    BY <2>1, <2>2 DEF BookInv, PayType
  <2>4. RowOrder'
    BY <2>1 DEF BookInv, RowOrder
  <2>5. RowLink'
    BY <2>1, <2>2 DEF BookInv, PayType, RowLink
  <2>6. AgedSettled' /\ ClosedMined'
    BY <2>1, <2>2 DEF BookInv, PayType, RowLink, AgedSettled, ClosedMined
  <2>7. SendingFresh'
    BY <2>1, <2>2 DEF BookInv, SendingFresh
  <2> QED BY <2>3, <2>4, <2>5, <2>6, <2>7 DEF BookInv
<1>13. CASE RecordTransaction
  <2> DEFINE r == sending[1]
             t == sending[2]
  <2>1. /\ jobs = "record" /\ jobs' = "send" /\ todo' = todo /\ aged' = aged \ {r}
        /\ UNCHANGED <<nextRow, txStatus, txRow>> /\ recorded' = recorded \cup {t}
        /\ rowTx' = [rowTx EXCEPT ![r] = t] /\ rowStatus' = [rowStatus EXCEPT ![r] = "sent"]
    BY <1>13 DEF RecordTransaction, chainVars, AgedWithout
  <2>2. /\ r \in RowIds /\ t \in TxIds /\ rowStatus[r] = "unsent" /\ t \notin recorded
        /\ txRow[t] = r /\ rowTx[r] = Null
        /\ \A s \in todo : rowStatus[s] = "unsent" /\ s # r /\ s \in RowIds
    BY <2>1 DEF BookInv, PayType, SendingFresh, RowLink
  <2>3. /\ rowTx'[r] = t /\ rowStatus'[r] = "sent"
        /\ \A s \in RowIds \ {r} : rowTx'[s] = rowTx[s] /\ rowStatus'[s] = rowStatus[s]
    BY <2>1, <2>2 DEF BookInv, PayType
  <2> HIDE DEF r, t
  <2>4. PayType'
    BY <2>1, <2>2 DEF BookInv, PayType
  <2>5. RowOrder'
    BY <2>1, <2>2, <2>3 DEF BookInv, RowOrder
  <2>6. RowLink'
    BY <2>1, <2>2, <2>3 DEF BookInv, RowLink
  <2>8. ClosedMined'
    BY <2>1, <2>2, <2>3 DEF BookInv, ClosedMined
  <2>9. AgedSettled' /\ SendingFresh'
    BY <2>1, <2>2, <2>3 DEF BookInv, PayType, AgedSettled, SendingFresh
  <2> QED BY <2>4, <2>5, <2>6, <2>8, <2>9 DEF BookInv
<1>14. ASSUME NEW t \in TxIds, Mine(t) PROVE BookInv'
  <2>1. /\ UNCHANGED <<jobs, todo, sending, nextRow, rowStatus, rowTx, aged, recorded, txRow>>
        /\ txStatus' \in [TxIds -> {"dead", "pool", "mined"}] /\ txStatus[t] = "pool"
        /\ txStatus'[t] = "mined" /\ \A u \in TxIds \ {t} : txStatus'[u] = txStatus[u]
    BY <1>14 DEF Mine, BookInv, PayType, jobVars, rowVars
  <2> QED BY <2>1 DEF BookInv, PayType, RowOrder, RowLink, AgedSettled, SendingFresh, ClosedMined
<1>15. ASSUME NEW weekEnds \in BOOLEAN, DayPasses(weekEnds) PROVE BookInv'
  <2>1. /\ UNCHANGED <<jobs, todo, sending, nextRow, rowStatus, rowTx, recorded, txRow>>
        /\ aged' = {r \in RowIds : rowStatus[r] = "sent"}
        /\ txStatus' = [t \in TxIds |-> IF txStatus[t] = "pool" THEN "dead" ELSE txStatus[t]]
    BY <1>15 DEF DayPasses, jobVars
  <2>2. PayType' /\ RowOrder' /\ RowLink' /\ SendingFresh'
    BY <2>1 DEF BookInv, PayType, RowOrder, RowLink, SendingFresh
  <2>3. ClosedMined' /\ AgedSettled'
    BY <2>1 DEF BookInv, PayType, RowLink, ClosedMined, AgedSettled
  <2> QED BY <2>2, <2>3 DEF BookInv
<1>16. CASE UNCHANGED vars
  BY <1>16 DEF vars, jobVars, rowVars, chainVars, BookInv, PayType, RowOrder, RowLink,
               AgedSettled, SendingFresh, ClosedMined
<1> QED
  BY <1>2, <1>3, <1>4, <1>5, <1>7, <1>8, <1>9, <1>10, <1>11, <1>12, <1>13, <1>14, <1>15, <1>16, NextCases

\* The books are in order in every state.
LEMMA BookInvariant == Spec => []BookInv
  BY BookInitial, BookInductive, PTL DEF Spec

\* A row leaves the books only when it was paid, by its own transaction.
THEOREM ClosedPaid == Spec => []ClosedIsPaid
<1>1. BookInv => ClosedIsPaid
  BY NullAssumption DEF BookInv, PayType, RowLink, ClosedMined, ClosedIsPaid
<1> QED BY <1>1, BookInvariant, PTL

----------------------------------------------------------------------------
\* A recorded transaction that is or may get on the chain is the one its row
\* still points to: a row gives up a transaction only when it is dead.
LiveLink ==
  \A t \in recorded : txStatus[t] # "dead" => txRow[t] \in RowIds /\ rowTx[txRow[t]] = t

\* It is so as long as no wallet says "Unknown transaction" of a mined one.
LEMMA LiveInductive == Lagging = {} /\ BookInv /\ LiveLink /\ [Next]_vars => LiveLink'
<1> SUFFICES ASSUME Lagging = {}, BookInv, LiveLink, [Next]_vars PROVE LiveLink'
  OBVIOUS
<1> USE NullAssumption
<1>1. ASSUME UNCHANGED <<rowTx, recorded, chainVars>> PROVE LiveLink'
  BY <1>1 DEF LiveLink, chainVars
<1>2. CASE UNCHANGED <<rowVars, chainVars>>
  BY <1>1, <1>2 DEF rowVars
<1>3. CASE CreateTransactions
  BY <1>1, <1>3 DEF CreateTransactions
<1>4. ASSUME NEW t \in TxIds, NEW ans \in Answers(t), NEW known \in BOOLEAN,
             ValidateTransaction(t, ans, known)
      PROVE  LiveLink'
  <2>1. /\ jobs = "validate" /\ t \in todo /\ UNCHANGED <<recorded, txStatus, txRow>>
        /\ rowTx' = [r \in RowIds |-> IF r \in RowsOf(t) /\ GetTransaction(ans) = "unknown"
                                        THEN Null ELSE rowTx[r]]
    BY <1>4 DEF ValidateTransaction, chainVars
  <2>2. GetTransaction(ans) = "unknown" => txStatus[t] = "dead"
    BY <2>1, WalletsSay DEF BookInv, PayType, AgedSettled
  <2> QED BY <2>1, <2>2 DEF LiveLink, RowsOf
<1>5. ASSUME NEW r \in RowIds, NEW t \in TxIds, NEW reached \in BOOLEAN, SendPayment(r, t, reached)
      PROVE  LiveLink'
  <2>1. UNCHANGED rowTx /\ recorded' = recorded \ {t}
    BY <1>5 DEF SendPayment
  <2>2. \A u \in TxIds \ {t} : txStatus'[u] = txStatus[u] /\ txRow'[u] = txRow[u]
    BY <1>5 DEF SendPayment, BookInv, PayType
  <2> QED BY <2>1, <2>2 DEF LiveLink, BookInv, PayType
<1>6. CASE RecordTransaction
  <2> DEFINE r == sending[1]
             t == sending[2]
  <2>1. /\ jobs = "record" /\ UNCHANGED <<txStatus, txRow>> /\ recorded' = recorded \cup {t}
        /\ rowTx' = [rowTx EXCEPT ![r] = t]
    BY <1>6 DEF RecordTransaction, chainVars
  <2>2. r \in RowIds /\ t \in TxIds /\ txRow[t] = r /\ rowTx[r] = Null
    BY <2>1 DEF BookInv, PayType, SendingFresh, RowLink
  <2>3. rowTx'[r] = t /\ \A s \in RowIds \ {r} : rowTx'[s] = rowTx[s]
    BY <2>1, <2>2 DEF BookInv, PayType
  <2> HIDE DEF r, t
  <2> QED BY <2>1, <2>2, <2>3 DEF BookInv, PayType, LiveLink
<1>7. ASSUME NEW t \in TxIds, Mine(t) PROVE LiveLink'
  <2>1. /\ UNCHANGED <<rowTx, recorded, txRow>> /\ txStatus[t] = "pool"
        /\ \A u \in TxIds \ {t} : txStatus'[u] = txStatus[u]
    BY <1>7 DEF Mine, BookInv, PayType, rowVars
  <2> QED BY <2>1 DEF LiveLink, BookInv, PayType
<1>8. ASSUME NEW weekEnds \in BOOLEAN, DayPasses(weekEnds) PROVE LiveLink'
  BY <1>8 DEF DayPasses, LiveLink, BookInv, PayType
<1>9. UNCHANGED vars => UNCHANGED <<rowVars, chainVars>>
  BY DEF vars
<1>10. ASSUME NEW top \in Heights \cup {0}, NEW who \in SUBSET Miners, RewardBlocks(top, who) PROVE LiveLink'
  BY <1>2, <1>10 DEF RewardBlocks
<1>11. ASSUME NEW a \in Miners, NEW msg \in Messages, SetMinPayout(a, msg) PROVE LiveLink'
  BY <1>2, <1>11 DEF SetMinPayout
<1>12. ASSUME NEW eepsOf \in EepsChoices, NEW g \in Miners, RewardBlock(eepsOf, g) PROVE LiveLink'
  BY <1>2, <1>12 DEF RewardBlock
<1>13. ASSUME NEW r \in RowIds, SendFails(r) PROVE LiveLink'
  BY <1>2, <1>13 DEF SendFails
<1>14. CASE RewardFails \/ BlockLost \/ RewardDone \/ CreateNothing \/ ValidateDone \/ SendDone \/ Crash
  BY <1>2, <1>14 DEF RewardFails, BlockLost, RewardDone, CreateNothing, ValidateDone, SendDone, Crash
<1> QED
  BY <1>2, <1>3, <1>4, <1>5, <1>6, <1>7, <1>8, <1>9, <1>10, <1>11, <1>12, <1>13, <1>14, NextCases

\* If every wallet that answers knows what is mined, no row is paid twice by
\* recorded transactions.  LiveLink is needed because this alone says nothing
\* of a transaction still waiting to be mined when its row is validated.
THEOREM PayoutOnce ==
  ASSUME Lagging = {}
  PROVE  Spec => []NoDoublePayout
<1>1. LiveLink => NoDoublePayout
  BY DEF LiveLink, NoDoublePayout
<1>2. Init => LiveLink
  BY DEF Init, LiveLink
<1>3. BookInv /\ LiveLink /\ [Next]_vars => LiveLink'
  BY LiveInductive
<1> QED BY <1>1, <1>2, <1>3, BookInvariant, PTL DEF Spec

----------------------------------------------------------------------------
(* The ledger of payments. *)

\* The refinement mapping.
Booked == {r \in RowIds : rowStatus[r] # "unused"}
Closed == {r \in RowIds : rowStatus[r] \in {"confirmed", "deleted"}}
PaidBy == [r \in RowIds |-> Paying(r)]

\* Its steps, in these terms.
LEMMA LedgerStutters ==
  ASSUME Booked' = Booked, pay' = pay, PaidBy' = PaidBy, Closed' = Closed
  PROVE  UNCHANGED Ledger!vars
  BY DEF Ledger!vars, Booked, Closed, PaidBy

LEMMA LedgerBooks ==
  ASSUME NEW R \in SUBSET (RowIds \ Booked), Booked' = Booked \cup R,
         \A r \in Booked : pay'[r] = pay[r], PaidBy' = PaidBy, Closed' = Closed
  PROVE  Ledger!Next
<1>1. Ledger!Book
  BY DEF Ledger!Book, Booked, Closed, PaidBy
<1> QED
  BY <1>1 DEF Ledger!Next

LEMMA LedgerPays ==
  ASSUME NEW r \in RowIds, NEW t \in TxIds, r \in Booked, PaidBy[r] = {},
         \A s \in RowIds : t \notin PaidBy[s], PaidBy' = [PaidBy EXCEPT ![r] = {t}],
         Booked' = Booked, pay' = pay, Closed' = Closed
  PROVE  Ledger!Next
<1>1. Ledger!Pay(r, t)
  BY DEF Ledger!Pay, Booked, Closed, PaidBy
<1> QED
  BY <1>1 DEF Ledger!Next

LEMMA LedgerCloses ==
  ASSUME NEW r \in RowIds, r \in Booked \ Closed, PaidBy[r] # {}, Closed' = Closed \cup {r},
         Booked' = Booked, pay' = pay, PaidBy' = PaidBy
  PROVE  Ledger!Next
<1>1. Ledger!Close(r)
  BY DEF Ledger!Close, Booked, Closed, PaidBy
<1> QED
  BY <1>1 DEF Ledger!Next

\* What does not change as long as rows and chain do not.
LEMMA LedgerKept ==
  /\ UNCHANGED rowStatus => Booked' = Booked /\ Closed' = Closed
  /\ UNCHANGED <<recorded, txStatus, txRow>> => PaidBy' = PaidBy
  BY DEF Booked, Closed, PaidBy, Paying

\* A recorded transaction gets on the chain, now or before it was recorded: it
\* is the first that pays its row.
LEMMA FirstPayment ==
  ASSUME BookInv, LiveLink, NEW t \in TxIds, NEW r \in RowIds, txRow[t] = r,
         t \notin recorded \/ txStatus[t] # "mined",
         \A u \in recorded : txStatus[u] = "mined" => txRow[u] # r,
         \A u \in TxIds : u \in recorded' /\ txStatus'[u] = "mined"
                            <=> u = t \/ (u \in recorded /\ txStatus[u] = "mined"),
         txRow' = txRow, recorded' \subseteq TxIds
  PROVE  /\ PaidBy[r] = {} /\ \A s \in RowIds : t \notin PaidBy[s]
         /\ PaidBy' = [PaidBy EXCEPT ![r] = {t}]
<1>1. PaidBy[r] = {} /\ \A s \in RowIds : t \notin PaidBy[s]
  BY DEF PaidBy, Paying
<1>2. recorded \subseteq TxIds
  BY DEF BookInv, PayType
<1>3. ASSUME NEW s \in RowIds PROVE Paying(s)' = IF s = r THEN {t} ELSE Paying(s)
  BY <1>2 DEF Paying
<1>4. PaidBy' = [s \in RowIds |-> Paying(s)']
  BY DEF PaidBy
<1>5. [PaidBy EXCEPT ![r] = {t}] = [s \in RowIds |-> IF s = r THEN {t} ELSE Paying(s)]
  BY DEF PaidBy
<1> QED
  BY <1>1, <1>3, <1>4, <1>5

\* Every step is one of the ledger or none.
LEMMA LedgerStep ==
  ASSUME Lagging = {}, BookInv, LiveLink, [Next]_vars
  PROVE  Ledger!Next \/ UNCHANGED Ledger!vars
<1> USE NullAssumption
<1>1. CASE UNCHANGED <<rowVars, chainVars>>
  BY <1>1, LedgerStutters, LedgerKept DEF rowVars, chainVars
<1>2. UNCHANGED vars => UNCHANGED <<rowVars, chainVars>>
  BY DEF vars
<1>3. CASE CreateTransactions
  <2> DEFINE n == Cardinality({a \in Accounts : Due(a)})
             R == NewRows(n)
  <2>1. /\ rowStatus' = [r \in RowIds |-> IF r \in R THEN "unsent" ELSE rowStatus[r]]
        /\ \A r \in RowIds \ R : pay'[r] = pay[r]
        /\ UNCHANGED <<recorded, txStatus, txRow>>
    BY <1>3 DEF CreateTransactions, chainVars
  <2>2. R \subseteq RowIds /\ \A r \in R : rowStatus[r] = "unused"
    BY BoundAssumption DEF NewRows, BookInv, PayType, RowOrder, RowIds
  <2> HIDE DEF R, n
  <2>3. /\ R \in SUBSET (RowIds \ Booked) /\ Booked' = Booked \cup R /\ Closed' = Closed
        /\ \A r \in Booked : pay'[r] = pay[r]
    BY <2>1, <2>2 DEF Booked, Closed
  <2> QED
    BY <2>1, <2>3, LedgerKept, LedgerBooks
<1>4. ASSUME NEW t \in TxIds, NEW ans \in Answers(t), NEW known \in BOOLEAN,
             ValidateTransaction(t, ans, known)
      PROVE  Ledger!Next \/ UNCHANGED Ledger!vars
  <2>1. /\ UNCHANGED <<recorded, txStatus, txRow, pay>>
        /\ rowStatus' = [r \in RowIds |->
             IF r \in RowsOf(t) THEN StatusAfter(GetTransaction(ans), known) ELSE rowStatus[r]]
    BY <1>4 DEF ValidateTransaction, chainVars
  <2>2. PaidBy' = PaidBy
    BY <2>1, LedgerKept
  \* A transaction belongs to one row.
  <2>3. ASSUME NEW r \in RowsOf(t) PROVE txRow[t] = r /\ r \in RowIds /\ rowStatus[r] = "sent"
                                        /\ t \in recorded
    BY DEF RowsOf, BookInv, RowLink
  <2>4. StatusAfter(GetTransaction(ans), known) # "unused"
    BY DEF StatusAfter, GetTransaction
  <2>5. Booked' = Booked
    BY <2>1, <2>3, <2>4 DEF Booked
  <2>6. CASE RowsOf(t) = {} \/ GetTransaction(ans) # "found"
    <3>1. GetTransaction(ans) # "found" =>
            StatusAfter(GetTransaction(ans), known) \notin {"confirmed", "deleted"}
      BY DEF StatusAfter, GetTransaction
    <3>2. Closed' = Closed
      BY <2>1, <2>3, <2>6, <3>1 DEF Closed
    <3> QED
      BY <2>1, <2>2, <2>5, <3>2, LedgerStutters
  <2>7. CASE RowsOf(t) # {} /\ GetTransaction(ans) = "found"
    <3>1. PICK r \in RowsOf(t) : TRUE
      BY <2>7
    <3>2. RowsOf(t) = {r}
      BY <2>3, <3>1
    <3>3. r \in RowIds /\ r \in Booked \ Closed
      BY <2>3, <3>1 DEF Booked, Closed
    <3>4. StatusAfter(GetTransaction(ans), known) \in {"confirmed", "deleted"}
      BY <2>7 DEF StatusAfter
    <3>5. Closed' = Closed \cup {r}
      BY <2>1, <3>2, <3>3, <3>4 DEF Closed
    <3>6. txStatus[t] = "mined"
      BY <2>7, WalletsSay
    <3>7. PaidBy[r] # {}
      BY <2>3, <3>1, <3>3, <3>6 DEF PaidBy, Paying
    <3> QED
      BY <2>1, <2>2, <2>5, <3>3, <3>5, <3>7, LedgerCloses
  <2> QED
    BY <2>6, <2>7
<1>5. ASSUME NEW r \in RowIds, NEW t \in TxIds, NEW reached \in BOOLEAN, SendPayment(r, t, reached)
      PROVE  Ledger!Next \/ UNCHANGED Ledger!vars
  <2>1. /\ UNCHANGED <<rowStatus, pay>> /\ recorded' = recorded \ {t}
        /\ txStatus[t] = "dead" /\ recorded \subseteq TxIds
        /\ \A u \in TxIds \ {t} : txStatus'[u] = txStatus[u] /\ txRow'[u] = txRow[u]
    BY <1>5 DEF SendPayment, BookInv, PayType
  <2>2. \A s \in RowIds : Paying(s)' = Paying(s)
    BY <2>1 DEF Paying
  <2>3. PaidBy' = PaidBy
    BY <2>2 DEF PaidBy
  <2> QED
    BY <2>1, <2>3, LedgerKept, LedgerStutters
<1>6. CASE RecordTransaction
  <2> DEFINE r == sending[1]
             t == sending[2]
  <2>1. /\ jobs = "record" /\ UNCHANGED <<txStatus, txRow, pay>> /\ recorded' = recorded \cup {t}
        /\ rowStatus' = [rowStatus EXCEPT ![r] = "sent"]
    BY <1>6 DEF RecordTransaction, chainVars
  <2>2. /\ r \in RowIds /\ t \in TxIds /\ t \notin recorded
        /\ txRow[t] = r /\ rowTx[r] = Null /\ rowStatus[r] = "unsent" /\ recorded \subseteq TxIds
    BY <2>1 DEF BookInv, PayType, SendingFresh, RowLink
  <2> HIDE DEF r, t
  <2>3. Booked' = Booked /\ Closed' = Closed /\ r \in Booked
    BY <2>1, <2>2 DEF BookInv, PayType, Booked, Closed
  <2>4. CASE txStatus[t] = "mined"
    <3>1. \A u \in recorded : txStatus[u] = "mined" => txRow[u] # r
      BY <2>2 DEF LiveLink
    <3>2. \A u \in TxIds : u \in recorded' /\ txStatus'[u] = "mined"
                             <=> u = t \/ (u \in recorded /\ txStatus[u] = "mined")
      BY <2>1, <2>4
    <3>3. txRow' = txRow /\ recorded' \subseteq TxIds
      BY <2>1, <2>2
    <3>4. /\ PaidBy[r] = {} /\ \A s \in RowIds : t \notin PaidBy[s]
          /\ PaidBy' = [PaidBy EXCEPT ![r] = {t}]
      BY <2>2, <3>1, <3>2, <3>3, FirstPayment
    <3> QED
      BY <2>1, <2>2, <2>3, <3>4, LedgerPays
  <2>5. CASE txStatus[t] # "mined"
    <3>1. \A s \in RowIds : Paying(s)' = Paying(s)
      BY <2>1, <2>5 DEF Paying
    <3>2. PaidBy' = PaidBy
      BY <3>1 DEF PaidBy
    <3> QED
      BY <2>1, <2>3, <3>2, LedgerStutters
  <2> QED
    BY <2>4, <2>5
<1>7. ASSUME NEW t \in TxIds, Mine(t) PROVE Ledger!Next \/ UNCHANGED Ledger!vars
  <2>1. /\ UNCHANGED <<rowStatus, pay, recorded, txRow>> /\ txStatus[t] = "pool"
        /\ txStatus'[t] = "mined" /\ recorded \subseteq TxIds
        /\ \A u \in TxIds \ {t} : txStatus'[u] = txStatus[u]
    BY <1>7 DEF Mine, BookInv, PayType, rowVars
  <2>2. CASE t \in recorded
    <3> DEFINE r == txRow[t]
    <3>1. r \in RowIds /\ rowTx[r] = t /\ t # Null
      BY <2>1, <2>2 DEF LiveLink
    <3>2. r \in Booked
      BY <3>1 DEF Booked, BookInv, RowLink
    <3> HIDE DEF r
    <3>3. \A u \in recorded : txStatus[u] = "mined" => txRow[u] # r
      BY <2>1, <3>1 DEF LiveLink
    <3>4. \A u \in TxIds : u \in recorded' /\ txStatus'[u] = "mined"
                             <=> u = t \/ (u \in recorded /\ txStatus[u] = "mined")
      BY <2>1, <2>2
    <3>5. txRow[t] = r /\ txRow' = txRow /\ recorded' \subseteq TxIds /\ txStatus[t] # "mined"
      BY <2>1 DEF r
    <3>6. /\ PaidBy[r] = {} /\ \A s \in RowIds : t \notin PaidBy[s]
          /\ PaidBy' = [PaidBy EXCEPT ![r] = {t}]
      BY <3>1, <3>3, <3>4, <3>5, FirstPayment
    <3> QED
      BY <2>1, <3>1, <3>2, <3>6, LedgerKept, LedgerPays
  <2>3. CASE t \notin recorded
    <3>1. \A s \in RowIds : Paying(s)' = Paying(s)
      BY <2>1, <2>3 DEF Paying
    <3>2. PaidBy' = PaidBy
      BY <3>1 DEF PaidBy
    <3> QED
      BY <2>1, <3>2, LedgerKept, LedgerStutters
  <2> QED
    BY <2>2, <2>3
<1>8. ASSUME NEW weekEnds \in BOOLEAN, DayPasses(weekEnds) PROVE UNCHANGED Ledger!vars
  <2>1. /\ UNCHANGED <<rowStatus, pay, recorded, txRow>> /\ recorded \subseteq TxIds
        /\ \A t \in TxIds : txStatus'[t] = "mined" <=> txStatus[t] = "mined"
    BY <1>8 DEF DayPasses, BookInv, PayType
  <2>2. \A s \in RowIds : Paying(s)' = Paying(s)
    BY <2>1 DEF Paying
  <2>3. PaidBy' = PaidBy
    BY <2>2 DEF PaidBy
  <2> QED
    BY <2>1, <2>3, LedgerKept, LedgerStutters
<1>9. ASSUME \/ \E top \in Heights \cup {0}, who \in SUBSET Miners : RewardBlocks(top, who)
             \/ \E a \in Miners, msg \in Messages : SetMinPayout(a, msg)
             \/ \E eepsOf \in EepsChoices, g \in Miners : RewardBlock(eepsOf, g)
             \/ \E r \in RowIds : SendFails(r)
      PROVE  UNCHANGED <<rowVars, chainVars>>
  BY <1>9 DEF RewardBlocks, SetMinPayout, RewardBlock, SendFails
<1>10. ASSUME RewardFails \/ BlockLost \/ RewardDone \/ CreateNothing \/ ValidateDone \/ SendDone \/ Crash
       PROVE  UNCHANGED <<rowVars, chainVars>>
  BY <1>10 DEF RewardFails, BlockLost, RewardDone, CreateNothing, ValidateDone, SendDone, Crash
<1> QED
  BY <1>1, <1>2, <1>3, <1>4, <1>5, <1>6, <1>7, <1>8, <1>9, <1>10, NextCases

\* The payout implements the ledger of Payments, if every wallet that answers
\* knows what is mined: rows keep their amounts, are paid by one recorded
\* transaction, and are closed after that, through crashes, lost broadcasts and
\* retries.
THEOREM PayoutImplementsPayments ==
  ASSUME Lagging = {}
  PROVE  Spec => PaymentsRefine
<1>1. Init => Ledger!Init
  BY DEF Init, Ledger!Init, Paying
<1>2. Init => LiveLink
  BY DEF Init, LiveLink
<1>3. BookInv /\ LiveLink /\ [Next]_vars => LiveLink'
  BY LiveInductive
<1>4. BookInv /\ LiveLink /\ [Next]_vars => [Ledger!Next]_(Ledger!vars)
  BY LedgerStep
<1> QED
  BY <1>1, <1>2, <1>3, <1>4, BookInvariant, PTL DEF Spec, PaymentsRefine, Ledger!Spec

----------------------------------------------------------------------------
(* The split of a reward. *)

\* Products and quotients, for the provers.
LEMMA Arithmetic ==
  /\ \A x, y, z \in Int : x * (y + z) = x * y + x * z
  /\ \A k, x, y \in Int : (k > 0 /\ k * x <= k * y) => x <= y
  /\ \A k, x, y \in Int : (k > 0 /\ k * x < k * y) => x < y
  /\ \A k, x, y \in Int : (k >= 0 /\ x <= y) => k * x <= k * y
  /\ \A x, y \in Nat : x * y \in Nat
<1>1. \A x, y, z \in Int : x * (y + z) = x * y + x * z
  OBVIOUS
<1>2. \A k, x, y \in Int : (k > 0 /\ k * x <= k * y) => x <= y
  OBVIOUS
<1>3. \A k, x, y \in Int : (k > 0 /\ k * x < k * y) => x < y
  OBVIOUS
<1>4. \A k, x, y \in Int : (k >= 0 /\ x <= y) => k * x <= k * y
  OBVIOUS
<1>5. \A x, y \in Nat : x * y \in Nat
  OBVIOUS
<1> QED
  BY <1>1, <1>2, <1>3, <1>4, <1>5

\* What integer division gives.
LEMMA Quotient ==
  ASSUME NEW x \in Int, NEW d \in Nat \ {0}
  PROVE  x \div d \in Int /\ d * (x \div d) <= x /\ x < d * (x \div d) + d
  OBVIOUS

\* Rounding adds at most half a planck.
LEMMA RoundFacts ==
  ASSUME NEW n \in Nat, NEW d \in Nat \ {0}
  PROVE  /\ Round(n, d) \in Nat
         /\ 2 * (d * Round(n, d)) <= 2 * n + d
<1> DEFINE q == (2 * n + d) \div (2 * d)
<1>1. 2 * d \in Nat \ {0} /\ 2 * n + d \in Int
  OBVIOUS
<1>2. q \in Int /\ (2 * d) * q <= 2 * n + d /\ 2 * n + d < (2 * d) * q + 2 * d
  BY <1>1, Quotient
<1> HIDE DEF q
<1>3. (2 * d) * q = 2 * (d * q)
  BY <1>2
<1>4. (2 * d) * (-1) < (2 * d) * q
  BY <1>2
<1>5. -1 < q
  BY <1>1, <1>2, <1>4, Arithmetic
<1>6. Round(n, d) = q
  BY DEF Round, q
<1> QED
  BY <1>2, <1>3, <1>5, <1>6

\* A share of a total is no more than the total.
LEMMA ShareFacts ==
  ASSUME NEW total \in Nat, NEW s \in 0 .. ShareDen
  PROVE  Round(total * s, ShareDen) \in 0 .. total
<1> DEFINE q == Round(total * s, ShareDen)
           d == ShareDen
<1>1. d \in Nat \ {0} /\ s \in Nat /\ s <= d /\ total * s \in Nat
  BY ShareAssumption, Arithmetic
<1>2. q \in Nat /\ 2 * (d * q) <= 2 * (total * s) + d
  BY <1>1, RoundFacts
<1>3. total * s <= total * d /\ total * d \in Int /\ total * d = d * total
  BY <1>1, Arithmetic
<1>4. d * q \in Int
  BY <1>1, <1>2
<1> HIDE DEF q, d
<1>5. d * (total + 1) = d * total + d * 1
  BY <1>1, Arithmetic
<1>6. d * q < d * (total + 1)
  BY <1>1, <1>2, <1>3, <1>4, <1>5
<1>7. q < total + 1
  BY <1>1, <1>2, <1>6, Arithmetic
<1> QED
  BY <1>2, <1>7 DEF q, d

\* The parts of a reward.
LEMMA PartsFacts ==
  ASSUME NEW total \in Nat
  PROVE  /\ PoolFee(total) \in Nat /\ WinnerReward(total) \in Nat /\ Remainder(total) \in Nat
         /\ PoolFee(total) + WinnerReward(total) + Remainder(total) = total
<1>1. PoolFee(total) \in 0 .. total
  BY ShareAssumption, ShareFacts DEF PoolFee
<1> DEFINE rest == total - PoolFee(total)
<1>2. rest \in Nat
  BY <1>1
<1>3. WinnerReward(total) \in 0 .. rest
  <2> HIDE DEF rest
  <2>1. Round(rest * WinnerShare, ShareDen) \in 0 .. rest
    BY <1>2, ShareAssumption, ShareFacts
  <2> QED
    BY <2>1 DEF WinnerReward, rest
<1> QED
  BY <1>1, <1>2, <1>3 DEF Remainder

\* The miners' parts of R together: half a planck more for each of them.
LEMMA RoundedParts ==
  ASSUME NEW e, NEW A, NEW S, IsFiniteSet(S), NEW R \in Nat, NEW E \in Nat \ {0},
         \A x \in S : e[x] \in Nat /\ A[x] = Round(R * e[x], E)
  PROVE  2 * (E * SumFunctionOnSet(A, S)) <= 2 * (R * SumFunctionOnSet(e, S)) + E * Cardinality(S)
<1> DEFINE P == {T \in SUBSET S :
                   2 * (E * SumFunctionOnSet(A, T)) <= 2 * (R * SumFunctionOnSet(e, T)) + E * Cardinality(T)}
<1>1. ASSUME NEW T \in SUBSET S, \A x \in T : T \ {x} \in P PROVE T \in P
  <2>1. IsFiniteSet(T)
    BY FS_Subset
  <2>2. CASE T = {}
    <3>1. SumFunctionOnSet(A, T) = 0 /\ SumFunctionOnSet(e, T) = 0 /\ Cardinality(T) = 0
      BY <2>1, <2>2, SumPick, FS_EmptySet
    <3> QED
      BY <3>1
  <2>3. CASE T # {}
    <3> DEFINE p == Pick(T)
               U == T \ {p}
               a == SumFunctionOnSet(A, U)
               b == SumFunctionOnSet(e, U)
               n == Cardinality(U)
               x == A[p]
               y == e[p]
    <3>1. p \in T /\ U \in P
      BY <1>1, <2>3, PickIn
    <3>2. y \in Nat /\ x = Round(R * y, E)
      BY <3>1
    <3>3. x \in Nat /\ 2 * (E * x) <= 2 * (R * y) + E
      BY <3>2, RoundFacts, Arithmetic
    <3>4. SumFunctionOnSet(A, T) = x + a /\ SumFunctionOnSet(e, T) = y + b
      BY <2>1, <2>3, SumPick
    <3>5. Cardinality(T) = n + 1 /\ n \in Int
      <4>1. n = Cardinality(T) - 1 /\ Cardinality(T) \in Nat
        BY <2>1, <3>1, FS_RemoveElement, FS_CardinalityType
      <4> QED
        BY <4>1
    <3>6. a \in Int /\ b \in Int
      <4>1. ASSUME NEW v \in S PROVE A[v] \in Nat
        <5>1. R * e[v] \in Nat
          BY Arithmetic
        <5> QED
          BY <5>1, RoundFacts
      <4>2. U \in SUBSET S /\ IsFiniteSet(U)
        BY <2>1, FS_Subset
      <4>3. Ints(A, U) /\ Ints(e, U)
        BY <4>1, <4>2 DEF Ints
      <4> QED
        BY <4>2, <4>3, SumInt
    <3>7. 2 * (E * a) <= 2 * (R * b) + E * n
      BY <3>1
    <3> HIDE DEF a, b, n, x, y
    <3>8. /\ E * (x + a) = E * x + E * a /\ R * (y + b) = R * y + R * b /\ E * (n + 1) = E * n + E
          /\ E * x \in Int /\ E * a \in Int /\ R * y \in Int /\ R * b \in Int /\ E * n \in Int
      <4>1. x \in Int /\ y \in Int /\ E \in Int /\ R \in Int /\ E * 1 = E
        BY <3>2, <3>3
      <4>2. E * (x + a) = E * x + E * a
        BY <3>6, <4>1
      <4>3. R * (y + b) = R * y + R * b
        BY <3>6, <4>1
      <4>4. E * (n + 1) = E * n + E
        BY <3>5, <4>1
      <4> QED
        BY <3>5, <3>6, <4>1, <4>2, <4>3, <4>4
    <3>9. 2 * (E * (x + a)) <= 2 * (R * (y + b)) + E * (n + 1)
      BY <3>3, <3>7, <3>8
    <3> QED
      BY <3>4, <3>5, <3>9
  <2> QED
    BY <2>2, <2>3
<1>2. \A T \in SUBSET S : T \in P
  <2> HIDE DEF P
  <2> QED BY <1>1, SubsetInduction
<1> QED
  BY <1>2

\* There are finitely many accounts.
LEMMA AccountsFinite == IsFiniteSet(Accounts)
  BY MinersAssumption, FS_AddElement DEF Accounts

\* At most one miner gets the winner's part w.
LEMMA SpikeSum ==
  ASSUME NEW B, NEW S, IsFiniteSet(S), NEW g, NEW w \in Nat, \A x \in S : B[x] = IF x = g THEN w ELSE 0
  PROVE  SumFunctionOnSet(B, S) \in 0 .. w
<1>1. Ints(B, S)
  BY DEF Ints
<1>2. CASE g \in S
  <2>1. SumFunctionOnSet(B, S) = w + SumFunctionOnSet(B, S \ {g})
    BY <1>1, <1>2, SumRemove
  <2>2. IsFiniteSet(S \ {g}) /\ \A x \in S \ {g} : B[x] = 0
    BY FS_Subset
  <2>3. SumFunctionOnSet(B, S \ {g}) = 0 * Cardinality(S \ {g})
    BY <2>2, SumConstant
  <2>4. Cardinality(S \ {g}) \in Nat
    BY <2>2, FS_CardinalityType
  <2> QED
    BY <2>1, <2>3, <2>4
<1>3. CASE g \notin S
  <2>1. \A x \in S : B[x] = 0
    BY <1>3
  <2>2. SumFunctionOnSet(B, S) = 0 * Cardinality(S)
    BY <2>1, SumConstant
  <2>3. Cardinality(S) \in Nat
    BY FS_CardinalityType
  <2> QED
    BY <2>2, <2>3
<1> QED
  BY <1>2, <1>3

\* What rewardBlock credits for one block: natural amounts to accounts of the
\* pool, together no more than the reward and half a planck per account.
LEMMA SharesFacts ==
  ASSUME NEW eepsOf \in EepsChoices, NEW g \in Miners,
         NEW shares, shares = ShareInPlanckOf(BlockReward, eepsOf, g)
  PROVE  /\ DOMAIN shares \subseteq Accounts
         /\ \A a \in DOMAIN shares : shares[a] \in Nat
         /\ Sum(shares) \in Nat
         /\ 2 * Sum(shares) <= 2 * BlockReward + Cardinality(Accounts)
<1> DEFINE D == SharingMiners(eepsOf)
           E == SumFunctionOnSet(eepsOf, DOMAIN eepsOf)
           f == PoolFee(BlockReward)
           w == WinnerReward(BlockReward)
           R == Remainder(BlockReward)
           c == Cardinality(Accounts)
<1>1. f \in Nat /\ w \in Nat /\ R \in Nat /\ f + w + R = BlockReward /\ BlockReward \in Nat
  BY AmountsAssumption, PartsFacts
<1>2. D \subseteq Miners /\ IsFiniteSet(D) /\ Fee \notin D
  BY EepsAssumption, MinersAssumption, FS_Subset DEF SharingMiners
<1>3. IsFiniteSet(DOMAIN eepsOf) /\ \A x \in DOMAIN eepsOf : eepsOf[x] \in Nat
  BY EepsAssumption, MinersAssumption, FS_Subset
<1>4. E \in Nat
  <2>1. Ints(eepsOf, DOMAIN eepsOf) /\ \A x \in DOMAIN eepsOf : eepsOf[x] >= 0
    BY <1>3 DEF Ints
  <2> QED
    BY <1>3, <2>1, SumInt
<1>5. /\ DOMAIN shares = D \cup {Fee}
      /\ shares[Fee] = f
      /\ \A x \in D : shares[x] = Round(R * eepsOf[x], E) + IF x = g THEN w ELSE 0
  BY <1>2 DEF ShareInPlanckOf
<1>6. D # {} => D = DOMAIN eepsOf /\ E # 0
  BY DEF SharingMiners
<1>7. c \in Nat /\ Cardinality(D) \in Nat /\ Cardinality(D) <= c
  <2>1. D \subseteq Accounts
    BY <1>2 DEF Accounts
  <2> QED
    BY <1>2, <2>1, AccountsFinite, FS_Subset, FS_CardinalityType
<1> HIDE DEF D, E, f, w, R, c
<1>8. ASSUME NEW x \in D PROVE eepsOf[x] \in Nat /\ Round(R * eepsOf[x], E) \in Nat
  <2>1. eepsOf[x] \in Nat /\ E \in Nat \ {0}
    BY <1>3, <1>4, <1>6
  <2>2. R * eepsOf[x] \in Nat
    BY <1>1, <2>1, Arithmetic
  <2> QED
    BY <2>1, <2>2, RoundFacts
<1>9. \A a \in DOMAIN shares : shares[a] \in Nat
  BY <1>1, <1>5, <1>8
<1>10. DOMAIN shares \subseteq Accounts
  BY <1>2, <1>5 DEF Accounts
<1>11. Sum(shares) \in Nat
  <2>1. IsFiniteSet(DOMAIN shares)
    BY <1>10, AccountsFinite, FS_Subset
  <2>2. Ints(shares, DOMAIN shares) /\ \A a \in DOMAIN shares : shares[a] >= 0
    BY <1>9 DEF Ints
  <2> QED
    BY <2>1, <2>2, SumInt DEF Sum
<1>12. Sum(shares) = f + SumFunctionOnSet(shares, D)
  <2>1. IsFiniteSet(D \cup {Fee}) /\ Ints(shares, D \cup {Fee}) /\ Fee \in D \cup {Fee}
    BY <1>2, <1>5, <1>9, FS_AddElement DEF Ints
  <2>2. (D \cup {Fee}) \ {Fee} = D
    BY <1>2
  <2>3. SumFunctionOnSet(shares, D \cup {Fee}) = f + SumFunctionOnSet(shares, (D \cup {Fee}) \ {Fee})
    BY <1>5, <2>1, SumRemove
  <2> QED
    BY <1>5, <2>2, <2>3 DEF Sum
<1>13. 2 * SumFunctionOnSet(shares, D) <= 2 * (R + w) + c /\ SumFunctionOnSet(shares, D) \in Int
  <2>1. CASE D = {}
    <3>1. SumFunctionOnSet(shares, D) = 0
      BY <1>2, <2>1, SumPick
    <3> QED
      BY <1>1, <1>7, <3>1
  <2>2. CASE D # {}
    <3> DEFINE A == [x \in D |-> Round(R * eepsOf[x], E)]
               B == [x \in D |-> IF x = g THEN w ELSE 0]
               a == SumFunctionOnSet(A, D)
               b == SumFunctionOnSet(B, D)
    <3>1. Ints(A, D) /\ Ints(B, D) /\ \A x \in D : shares[x] = A[x] + B[x]
      BY <1>1, <1>5, <1>8 DEF Ints
    <3>2. \A x \in D : B[x] = IF x = g THEN w ELSE 0
      OBVIOUS
    <3>3. \A x \in D : eepsOf[x] \in Nat /\ A[x] = Round(R * eepsOf[x], E)
      BY <1>8
    <3> HIDE DEF A, B
    <3>4. SumFunctionOnSet(shares, D) = a + b
      BY <1>2, <3>1, SumPlus
    <3>5. b \in 0 .. w
      BY <1>1, <1>2, <3>2, SpikeSum
    <3>6. a \in Int
      BY <1>2, <3>1, SumInt
    <3>7. E \in Nat \ {0} /\ SumFunctionOnSet(eepsOf, D) = E
      BY <1>4, <1>6, <2>2 DEF E
    <3>8. 2 * (E * a) <= 2 * (R * E) + E * Cardinality(D)
      BY <1>1, <1>2, <3>3, <3>7, RoundedParts
    <3> HIDE DEF a, b
    <3> DEFINE d == Cardinality(D)
    <3>9. d \in Nat /\ d <= c
      BY <1>7
    <3>10. 2 * (E * a) <= 2 * (R * E) + E * d
      BY <3>8
    <3> HIDE DEF d
    <3>11. E * (2 * a) = 2 * (E * a) /\ E * (2 * R) = 2 * (R * E) /\ E \in Int /\ 2 * R \in Int /\ 2 * a \in Int
      BY <1>1, <3>6, <3>7
    <3>12. E * (2 * R + d) = E * (2 * R) + E * d
      BY <3>9, <3>11, Arithmetic
    <3>13. E * (2 * a) <= E * (2 * R + d)
      BY <3>10, <3>11, <3>12
    <3>14. 2 * R + d \in Int /\ E > 0
      BY <3>7, <3>9, <3>11
    <3>15. 2 * a <= 2 * R + d
      BY <3>11, <3>13, <3>14, Arithmetic
    <3> QED
      BY <1>1, <1>7, <3>4, <3>5, <3>6, <3>9, <3>15
  <2> QED
    BY <2>1, <2>2
<1> DEFINE s == SumFunctionOnSet(shares, D)
<1>14. Sum(shares) = f + s /\ s \in Int /\ 2 * s <= 2 * (R + w) + c
  BY <1>12, <1>13
<1> HIDE DEF s
<1>15. 2 * Sum(shares) <= 2 * BlockReward + c
  BY <1>1, <1>7, <1>14
<1> QED
  BY <1>9, <1>10, <1>11, <1>15 DEF c

----------------------------------------------------------------------------
(* The balances. *)

\* Balances and bookings are whole plancks, and a block that is not verified
\* has not been credited: the loop of RewardBlocks has only such blocks left.
MoneyType ==
  /\ pend \in [Accounts -> Int]
  /\ verified \subseteq Heights
  /\ credit \in [Heights -> Nat]
  /\ \A h \in Heights \ verified : credit[h] = 0
  /\ jobs = "reward" => todo \subseteq Heights \ verified
  /\ \A r \in RowIds : DOMAIN pay[r] \subseteq Accounts /\ Ints(pay[r], DOMAIN pay[r])

\* Before the first block nothing is credited.
LEMMA MoneyInitial == Init => MoneyType /\ CreditBounded
<1> SUFFICES ASSUME Init PROVE MoneyType /\ CreditBounded
  OBVIOUS
<1>1. MoneyType
  BY AmountsAssumption DEF Init, MoneyType, NoPay, Ints
<1>2. Cardinality(Accounts) \in Nat
  BY AccountsFinite, FS_CardinalityType
<1> QED
  BY <1>1, <1>2, AmountsAssumption DEF Init, CreditBounded

\* The height the loop takes next is one of those that are left.
LEMMA NextHeightIn ==
  ASSUME MoneyType, jobs = "reward", todo # {}
  PROVE  NextHeight \in todo /\ NextHeight \in Heights /\ NextHeight \notin verified
<1>1. todo \subseteq Nat /\ todo \subseteq Heights \ verified
  BY HeightsAssumption DEF MoneyType
<1>2. \E x \in todo : \A y \in todo : x <= y
  BY <1>1, LeastExists
<1>3. NextHeight \in todo
  BY <1>2 DEF NextHeight, Min
<1> QED
  BY <1>1, <1>3

\* What RewardBlock does to balances and credits.
LEMMA RewardFacts ==
  ASSUME MoneyType, NEW eepsOf \in EepsChoices, NEW g \in Miners, RewardBlock(eepsOf, g)
  PROVE  \E shares : \E s \in Nat :
           /\ DOMAIN shares \subseteq Accounts /\ \A a \in DOMAIN shares : shares[a] \in Nat
           /\ s = SumFunctionOnSet(shares, DOMAIN shares)
           /\ 2 * s <= 2 * BlockReward + Cardinality(Accounts)
           /\ pend' = [a \in Accounts |-> pend[a] + (IF a \in DOMAIN shares THEN shares[a] ELSE 0)]
           /\ credit' = [credit EXCEPT ![NextHeight] = s]
<1> DEFINE shares == ShareInPlanckOf(BlockReward, eepsOf, g)
           s == SumFunctionOnSet(shares, DOMAIN shares)
<1>1. NextHeight \in Heights /\ NextHeight \notin verified
  BY NextHeightIn DEF RewardBlock
<1>2. /\ pend' = [a \in Accounts |-> pend[a] + (IF a \in DOMAIN shares THEN shares[a] ELSE 0)]
      /\ credit' = [credit EXCEPT ![NextHeight] = credit[NextHeight] + s]
  BY DEF RewardBlock
<1> HIDE DEF shares
<1>3. /\ DOMAIN shares \subseteq Accounts /\ \A a \in DOMAIN shares : shares[a] \in Nat
      /\ s \in Nat /\ 2 * s <= 2 * BlockReward + Cardinality(Accounts)
  BY SharesFacts DEF shares, Sum
<1>4. credit[NextHeight] + s = s
  BY <1>1, <1>3 DEF MoneyType
<1> QED
  BY <1>2, <1>3, <1>4

\* The accounts a payout serves.
Payees == {a \in Accounts : Due(a)}

\* What CreateTransactions does to balances and bookings.
LEMMA CreateFacts ==
  ASSUME CreateTransactions
  PROVE  /\ jobs' = "validate" /\ UNCHANGED <<verified, credit>>
         /\ nextRow + NumberTxsToCreate(Cardinality(Payees)) <= MaxRows + 1
         /\ pend' = [a \in Accounts |->
              (IF a \in Payees THEN 0 ELSE pend[a])
              + (IF a = Fee THEN Cardinality(Payees) * MinerTxFee
                                 - NumberTxsToCreate(Cardinality(Payees)) * PoolTxFee ELSE 0)]
         /\ \A r \in RowIds :
              /\ r \in NewRows(Cardinality(Payees)) =>
                   /\ rowStatus'[r] = "unsent"
                   /\ pay'[r] = [a \in RecipientsOf(SetToSeq(Payees), r) |-> pend[a] - MinerTxFee]
              /\ r \notin NewRows(Cardinality(Payees)) => rowStatus'[r] = rowStatus[r] /\ pay'[r] = pay[r]
  BY DEF CreateTransactions, Payees

\* A payout serves finitely many accounts, with finitely many rows.
LEMMA PayeesFinite ==
  /\ Payees \subseteq Accounts /\ IsFiniteSet(Payees)
  /\ Cardinality(Payees) \in Nat /\ NumberTxsToCreate(Cardinality(Payees)) \in Nat
<1>1. Payees \subseteq Accounts
  BY DEF Payees
<1>2. IsFiniteSet(Payees)
  BY <1>1, AccountsFinite, FS_Subset
<1>3. Cardinality(Payees) \in Nat
  BY <1>2, FS_CardinalityType
<1> QED
  BY <1>1, <1>2, <1>3, NumberTxsNat

\* SetToSeq lists every member of a finite set once.
LEMMA SetToSeqLists ==
  ASSUME NEW S, IsFiniteSet(S)
  PROVE  /\ SetToSeq(S) \in [1 .. Cardinality(S) -> S]
         /\ \A i, j \in 1 .. Cardinality(S) : SetToSeq(S)[i] = SetToSeq(S)[j] => i = j
         /\ \A x \in S : \E i \in 1 .. Cardinality(S) : SetToSeq(S)[i] = x
<1> DEFINE n == Cardinality(S)
           q == SetToSeq(S)
<1>1. n \in Nat /\ \E f \in [1 .. n -> S] : IsInjective(f)
  BY FS_CardinalityType DEF ExistsBijection, Bijection, Injection
<1>2. q \in [1 .. n -> S] /\ IsInjective(q)
  BY <1>1 DEF SetToSeq
<1>3. IsFiniteSet(1 .. n) /\ Cardinality(1 .. n) = n
  BY <1>1, FS_Interval
<1>4. q \in Injection(1 .. n, S)
  BY <1>2 DEF Injection
<1>5. q \in Surjection(1 .. n, S)
  BY <1>3, <1>4, FS_Injection
<1> QED
  BY <1>2, <1>5 DEF IsInjective, Surjection

\* Balances stay whole, and a block is credited only while it is verified.
LEMMA MoneyTypeInductive ==
  MoneyType /\ CreditBounded /\ [Next]_vars => MoneyType' /\ CreditBounded'
<1> SUFFICES ASSUME MoneyType, CreditBounded, [Next]_vars PROVE MoneyType' /\ CreditBounded'
  OBVIOUS
<1> USE AmountsAssumption
<1>1. ASSUME UNCHANGED <<pend, credit, pay>>, verified \subseteq verified', verified' \subseteq Heights,
             jobs' = "reward" => todo' \subseteq Heights \ verified'
      PROVE  MoneyType' /\ CreditBounded'
  BY <1>1 DEF MoneyType, CreditBounded
<1>2. CASE UNCHANGED <<accVars, verified, credit, rowVars>> /\ (jobs' # "reward" \/ UNCHANGED <<jobs, todo>>)
  BY <1>1, <1>2 DEF accVars, rowVars, MoneyType
<1>3. ASSUME NEW top \in Heights \cup {0}, NEW who \in SUBSET Miners, RewardBlocks(top, who)
      PROVE  MoneyType' /\ CreditBounded'
  BY <1>1, <1>3 DEF RewardBlocks, MoneyType, accVars, rowVars
<1>4. ASSUME NEW a \in Miners, NEW msg \in Messages, SetMinPayout(a, msg) PROVE MoneyType' /\ CreditBounded'
  <2>1. UNCHANGED <<jobs, todo, verified, credit, pay>>
    BY <1>4 DEF SetMinPayout, rowVars
  <2>2. pend' \in [Accounts -> Int]
    BY <1>4 DEF SetMinPayout, accVars, Charged, MoneyType, Accounts
  <2> QED
    BY <2>1, <2>2 DEF MoneyType, CreditBounded
<1>5. CASE RewardFails \/ BlockLost
  <2>1. NextHeight \in Heights /\ UNCHANGED <<jobs, pend, credit, pay>> /\ todo' = todo \ {NextHeight}
    BY <1>5, NextHeightIn DEF RewardFails, BlockLost, accVars, rowVars
  <2>2. verified' = verified \/ verified' = verified \cup {NextHeight}
    BY <1>5 DEF RewardFails, BlockLost
  <2> QED
    BY <1>1, <2>1, <2>2 DEF MoneyType
<1>6. ASSUME NEW eepsOf \in EepsChoices, NEW g \in Miners, RewardBlock(eepsOf, g)
      PROVE  MoneyType' /\ CreditBounded'
  <2>1. PICK shares : \E s \in Nat :
           /\ DOMAIN shares \subseteq Accounts /\ \A a \in DOMAIN shares : shares[a] \in Nat
           /\ 2 * s <= 2 * BlockReward + Cardinality(Accounts)
           /\ pend' = [a \in Accounts |-> pend[a] + (IF a \in DOMAIN shares THEN shares[a] ELSE 0)]
           /\ credit' = [credit EXCEPT ![NextHeight] = s]
    BY <1>6, RewardFacts
  <2>2. PICK s \in Nat :
           /\ 2 * s <= 2 * BlockReward + Cardinality(Accounts)
           /\ credit' = [credit EXCEPT ![NextHeight] = s]
    BY <2>1
  <2>3. NextHeight \in Heights
    BY <1>6, NextHeightIn DEF RewardBlock
  <2>4. UNCHANGED <<jobs, pay>> /\ todo' = todo \ {NextHeight} /\ verified' = verified \cup {NextHeight}
    BY <1>6 DEF RewardBlock, rowVars, VerifiedWith
  <2>5. pend' \in [Accounts -> Int]
    BY <2>1 DEF MoneyType
  <2>6. /\ credit' \in [Heights -> Nat] /\ credit'[NextHeight] = s
        /\ \A h \in Heights \ {NextHeight} : credit'[h] = credit[h]
    BY <2>2, <2>3 DEF MoneyType
  <2>7. MoneyType'
    BY <2>3, <2>4, <2>5, <2>6 DEF MoneyType
  <2>8. CreditBounded'
    BY <2>2, <2>6 DEF CreditBounded
  <2> QED
    BY <2>7, <2>8
<1>7. CASE CreateTransactions
  <2> DEFINE n == Cardinality(Payees)
             k == NumberTxsToCreate(n)
  <2>1. n \in Nat /\ k \in Nat /\ Payees \subseteq Accounts /\ IsFiniteSet(Payees)
    BY PayeesFinite
  <2>2. pend' \in [Accounts -> Int]
    BY <1>7, <2>1, CreateFacts DEF MoneyType
  <2>3. \A r : RecipientsOf(SetToSeq(Payees), r) \subseteq Payees
    BY <2>1, SetToSeqLists DEF RecipientsOf
  <2>4. \A r \in RowIds : DOMAIN pay'[r] \subseteq Accounts /\ Ints(pay'[r], DOMAIN pay'[r])
    <3> TAKE r \in RowIds
    <3>1. CASE r \in NewRows(n)
      <4>1. pay'[r] = [a \in RecipientsOf(SetToSeq(Payees), r) |-> pend[a] - MinerTxFee]
        BY <1>7, <3>1, CreateFacts
      <4> QED
        BY <2>1, <2>3, <4>1 DEF MoneyType, Ints
    <3>2. CASE r \notin NewRows(n)
      BY <1>7, <3>2, CreateFacts DEF MoneyType
    <3> QED
      BY <3>1, <3>2
  <2> QED
    BY <1>7, <2>2, <2>4, CreateFacts DEF MoneyType, CreditBounded
<1>8. ASSUME NEW t \in TxIds, NEW ans \in Answers(t), NEW known \in BOOLEAN,
             ValidateTransaction(t, ans, known)
      PROVE  MoneyType' /\ CreditBounded'
  BY <1>1, <1>8 DEF ValidateTransaction, MoneyType, accVars
<1>9. ASSUME NEW r \in RowIds, NEW t \in TxIds, NEW reached \in BOOLEAN, SendPayment(r, t, reached)
      PROVE  MoneyType' /\ CreditBounded'
  BY <1>1, <1>9 DEF SendPayment, MoneyType, accVars
<1>10. CASE RecordTransaction
  BY <1>1, <1>10 DEF RecordTransaction, MoneyType, accVars
<1>11. ASSUME NEW weekEnds \in BOOLEAN, DayPasses(weekEnds) PROVE MoneyType' /\ CreditBounded'
  BY <1>1, <1>11 DEF DayPasses, MoneyType, jobVars
<1>12. ASSUME NEW t \in TxIds, Mine(t) PROVE MoneyType' /\ CreditBounded'
  BY <1>2, <1>12 DEF Mine, jobVars
<1>13. ASSUME NEW r \in RowIds, SendFails(r) PROVE MoneyType' /\ CreditBounded'
  BY <1>2, <1>13 DEF SendFails
<1>14. CASE RewardDone \/ CreateNothing \/ ValidateDone \/ SendDone \/ Crash
  BY <1>2, <1>14 DEF RewardDone, CreateNothing, ValidateDone, SendDone, Crash
<1>15. CASE UNCHANGED vars
  BY <1>2, <1>15 DEF vars, jobVars
<1> QED
  BY <1>3, <1>4, <1>5, <1>6, <1>7, <1>8, <1>9, <1>10, <1>11, <1>12, <1>13, <1>14, <1>15, NextCases

\* No crash between two database transactions lets RewardBlocks credit a block
\* again, and the roundings of rewardBlock never make more of a reward than
\* half a planck per account.
THEOREM CreditsBounded == Spec => []CreditBounded
<1>1. Init => MoneyType /\ CreditBounded
  BY MoneyInitial
<1>2. MoneyType /\ CreditBounded /\ [Next]_vars => MoneyType' /\ CreditBounded'
  BY MoneyTypeInductive
<1> QED BY <1>1, <1>2, PTL DEF Spec

----------------------------------------------------------------------------
(* Conservation. *)

\* The values of the rows, as MoneyConserved sums them up.
Values == [r \in RowIds |-> RowValue(r)]

\* The value of every row is a number.
LEMMA ValuesFacts ==
  ASSUME MoneyType
  PROVE  IsFiniteSet(RowIds) /\ Ints(Values, RowIds) /\ DOMAIN Values = RowIds
<1>1. IsFiniteSet(RowIds)
  BY BoundAssumption, FS_Interval DEF RowIds
<1>2. ASSUME NEW r \in RowIds PROVE RowValue(r) \in Int
  <2>1. DOMAIN pay[r] \subseteq Accounts /\ Ints(pay[r], DOMAIN pay[r])
    BY DEF MoneyType
  <2>2. IsFiniteSet(DOMAIN pay[r])
    BY <2>1, AccountsFinite, FS_Subset
  <2>3. Sum(pay[r]) \in Int
    BY <2>1, <2>2, SumInt DEF Sum
  <2> QED
    BY <2>3, AmountsAssumption DEF RowValue
<1> QED
  BY <1>1, <1>2 DEF Values, Ints

\* The same, after a step.
LEMMA ValuesNext == MoneyType' => Ints(Values', RowIds)
<1>1. MoneyType => Ints(Values, RowIds)
  BY ValuesFacts
<1>2. MoneyType' => Ints(Values, RowIds)'
  BY <1>1, PTL
<1> QED
  BY <1>2 DEF Ints

\* MoneyConserved on the three sums.
LEMMA ConservedSums ==
  ASSUME MoneyType
  PROVE  MoneyConserved <=>
           SumFunctionOnSet(credit, Heights) + Opening * Cardinality(Miners)
             = SumFunctionOnSet(pend, Accounts) + SumFunctionOnSet(Values, RowIds)
<1>1. DOMAIN credit = Heights /\ DOMAIN pend = Accounts /\ DOMAIN Values = RowIds
  BY ValuesFacts DEF MoneyType
<1> QED
  BY <1>1 DEF MoneyConserved, Sum, Values

\* The sums are numbers.
LEMMA SumsInt ==
  ASSUME MoneyType
  PROVE  /\ IsFiniteSet(Heights) /\ Ints(credit, Heights) /\ SumFunctionOnSet(credit, Heights) \in Int
         /\ IsFiniteSet(Accounts) /\ Ints(pend, Accounts) /\ SumFunctionOnSet(pend, Accounts) \in Int
         /\ SumFunctionOnSet(Values, RowIds) \in Int
         /\ Opening * Cardinality(Miners) \in Int
<1>1. IsFiniteSet(Heights) /\ IsFiniteSet(Accounts)
  BY HeightsAssumption, AccountsFinite
<1>2. Ints(credit, Heights) /\ Ints(pend, Accounts)
  BY DEF MoneyType, Ints
<1>3. Cardinality(Miners) \in Nat /\ Opening \in Nat
  BY MinersAssumption, FS_CardinalityType, AmountsAssumption
<1>4. Opening * Cardinality(Miners) \in Int
  BY <1>3, Arithmetic
<1> QED
  BY <1>1, <1>2, <1>4, SumInt, ValuesFacts

\* At first there is nothing but the opening balances.
LEMMA ConservedInitial == Init => MoneyConserved
<1> SUFFICES ASSUME Init PROVE MoneyConserved
  OBVIOUS
<1>1. MoneyType
  BY MoneyInitial
<1>2. SumFunctionOnSet(credit, Heights) = 0
  <2>1. IsFiniteSet(Heights) /\ \A h \in Heights : credit[h] = 0
    BY HeightsAssumption DEF Init
  <2>2. SumFunctionOnSet(credit, Heights) = 0 * Cardinality(Heights)
    BY <2>1, SumConstant
  <2>3. Cardinality(Heights) \in Nat
    BY <2>1, FS_CardinalityType
  <2> QED
    BY <2>2, <2>3
<1>3. SumFunctionOnSet(Values, RowIds) = 0
  <2>1. \A r \in RowIds : Values[r] = 0
    BY DEF Init, Values, RowValue
  <2>2. IsFiniteSet(RowIds)
    BY <1>1, ValuesFacts
  <2>3. SumFunctionOnSet(Values, RowIds) = 0 * Cardinality(RowIds)
    BY <2>1, <2>2, SumConstant
  <2> QED
    BY <2>2, <2>3, FS_CardinalityType
<1>4. SumFunctionOnSet(pend, Accounts) = Opening * Cardinality(Miners)
  <2>1. Ints(pend, Accounts) /\ IsFiniteSet(Accounts) /\ Fee \in Accounts
    BY <1>1, SumsInt DEF Accounts
  <2>2. SumFunctionOnSet(pend, Accounts) = pend[Fee] + SumFunctionOnSet(pend, Accounts \ {Fee})
    BY <2>1, SumRemove
  <2>3. pend[Fee] = 0 /\ Accounts \ {Fee} = Miners /\ \A a \in Miners : pend[a] = Opening
    BY MinersAssumption DEF Init, Accounts
  <2>4. SumFunctionOnSet(pend, Miners) = Opening * Cardinality(Miners)
    BY <2>3, MinersAssumption, AmountsAssumption, SumConstant
  <2>5. Opening * Cardinality(Miners) \in Int
    BY <1>1, SumsInt
  <2>6. SumFunctionOnSet(pend, Accounts) = 0 + SumFunctionOnSet(pend, Miners)
    BY <2>2, <2>3
  <2> QED
    BY <2>4, <2>5, <2>6
<1>5. Opening * Cardinality(Miners) \in Int
  BY <1>1, SumsInt
<1> QED
  BY <1>1, <1>2, <1>3, <1>4, <1>5, ConservedSums

\* A row counts from the moment it is created, whatever its status then is.
LEMMA ValuesKept ==
  ASSUME BookInv, BookInv', UNCHANGED <<nextRow, pay>>
  PROVE  Values' = Values
<1>1. \A r \in RowIds : rowStatus'[r] = "unused" <=> rowStatus[r] = "unused"
  BY DEF BookInv, RowOrder
<1> QED
  BY <1>1 DEF Values, RowValue, Sum

\* A message moves its fee from the miner to the fee account.
LEMMA ChargedSum ==
  ASSUME MoneyType, NEW a \in Miners
  PROVE  SumFunctionOnSet(Charged(a), Accounts) = SumFunctionOnSet(pend, Accounts)
<1> DEFINE p == [pend EXCEPT ![a] = pend[a] - SetFee]
           q == Charged(a)
<1>1. a \in Accounts /\ Fee \in Accounts /\ a # Fee /\ IsFiniteSet(Accounts) /\ Ints(pend, Accounts)
  BY MinersAssumption, SumsInt DEF Accounts
<1>2. pend \in [Accounts -> Int] /\ SetFee \in Int
  BY AmountsAssumption DEF MoneyType
<1>3. /\ p[a] = pend[a] - SetFee /\ p[Fee] = pend[Fee] /\ \A b \in Accounts \ {a} : p[b] = pend[b]
      /\ p \in [Accounts -> Int]
  BY <1>1, <1>2
<1>4. q[Fee] = p[Fee] + SetFee /\ \A b \in Accounts \ {Fee} : q[b] = p[b]
  BY <1>1, <1>2 DEF Charged
<1>5. Ints(p, Accounts) /\ p[a] \in Int /\ q[Fee] \in Int
  BY <1>1, <1>2, <1>3, <1>4 DEF Ints
<1> HIDE DEF p, q
<1>6. SumFunctionOnSet(p, Accounts) = SumFunctionOnSet(pend, Accounts) + p[a] - pend[a]
  BY <1>1, <1>3, <1>5, SumChange
<1>7. SumFunctionOnSet(q, Accounts) = SumFunctionOnSet(p, Accounts) + q[Fee] - p[Fee]
  BY <1>1, <1>4, <1>5, SumChange
<1>8. SumFunctionOnSet(pend, Accounts) \in Int /\ pend[a] \in Int /\ p[Fee] \in Int
  BY <1>1, <1>2, <1>3, SumsInt
<1>9. SumFunctionOnSet(q, Accounts) = SumFunctionOnSet(pend, Accounts)
  BY <1>2, <1>3, <1>4, <1>6, <1>7, <1>8
<1> QED
  BY <1>9 DEF q

\* A reward adds the same to the balances and to the credit of its block.
LEMMA RewardSum ==
  ASSUME MoneyType, NEW eepsOf \in EepsChoices, NEW g \in Miners, RewardBlock(eepsOf, g)
  PROVE  \E s \in Nat :
           /\ SumFunctionOnSet(pend', Accounts) = SumFunctionOnSet(pend, Accounts) + s
           /\ SumFunctionOnSet(credit', Heights) = SumFunctionOnSet(credit, Heights) + s
<1>1. PICK shares : \E s \in Nat :
           /\ DOMAIN shares \subseteq Accounts /\ \A a \in DOMAIN shares : shares[a] \in Nat
           /\ s = SumFunctionOnSet(shares, DOMAIN shares)
           /\ pend' = [a \in Accounts |-> pend[a] + (IF a \in DOMAIN shares THEN shares[a] ELSE 0)]
           /\ credit' = [credit EXCEPT ![NextHeight] = s]
  BY RewardFacts
<1>2. PICK s \in Nat :
           /\ s = SumFunctionOnSet(shares, DOMAIN shares)
           /\ credit' = [credit EXCEPT ![NextHeight] = s]
  BY <1>1
<1> DEFINE add == [a \in Accounts |-> IF a \in DOMAIN shares THEN shares[a] ELSE 0]
           D == DOMAIN shares
<1>3. /\ Ints(add, Accounts) /\ D \in SUBSET Accounts
      /\ \A a \in D : shares[a] = add[a]
      /\ \A a \in Accounts \ D : add[a] = 0
      /\ \A a \in Accounts : pend'[a] = pend[a] + add[a]
  BY <1>1 DEF Ints
<1> HIDE DEF add
<1>4. IsFiniteSet(Accounts) /\ Ints(pend, Accounts) /\ IsFiniteSet(Heights) /\ Ints(credit, Heights)
  BY SumsInt
<1>5. SumFunctionOnSet(add, Accounts) = s
  BY <1>2, <1>3, <1>4, SumSupport
<1>6. SumFunctionOnSet(pend', Accounts) = SumFunctionOnSet(pend, Accounts) + s
  BY <1>3, <1>4, <1>5, SumPlus
<1>7. NextHeight \in Heights /\ NextHeight \notin verified
  BY NextHeightIn DEF RewardBlock
<1>8. /\ credit'[NextHeight] = s /\ credit[NextHeight] = 0
      /\ \A h \in Heights \ {NextHeight} : credit'[h] = credit[h]
  BY <1>2, <1>7 DEF MoneyType
<1>9. SumFunctionOnSet(credit', Heights) = SumFunctionOnSet(credit, Heights) + credit'[NextHeight] - credit[NextHeight]
  BY <1>4, <1>7, <1>8, SumChange
<1>10. SumFunctionOnSet(credit, Heights) \in Int
  BY SumsInt
<1>11. SumFunctionOnSet(credit', Heights) = SumFunctionOnSet(credit, Heights) + s
  BY <1>8, <1>9, <1>10
<1> QED
  BY <1>6, <1>11

\* Of n recipients, everyone finds a place in one of the rows.
LEMMA RowOfRecipient ==
  ASSUME NEW n \in Nat, NEW j \in 1 .. n
  PROVE  /\ (j - 1) \div MaxMultiRecipients \in Nat
         /\ (j - 1) \div MaxMultiRecipients < NumberTxsToCreate(n)
<1> DEFINE m == MaxMultiRecipients
           q == (j - 1) \div m
           d == n \div m
<1>1. m \in Nat \ {0} /\ m \in Int /\ m > 0 /\ j - 1 \in Int /\ n \in Int
  BY RecipientsAssumption
<1>2. q \in Int /\ m * q <= j - 1 /\ j - 1 < m * q + m
  BY <1>1, Quotient
<1>3. d \in Int /\ m * d <= n /\ n < m * d + m
  BY <1>1, Quotient
<1>4. n % m = 0 => n = m * d
  BY <1>1
<1>5. NumberTxsToCreate(n) = IF n % m = 0 THEN d ELSE d + 1
  BY DEF NumberTxsToCreate
<1> HIDE DEF q, d, m
<1>6. m * q \in Int /\ m * d \in Int /\ m * (-1) = -m /\ m * (d + 1) = m * d + m
  BY <1>1, <1>2, <1>3
<1>7. m * (-1) < m * q
  BY <1>1, <1>2, <1>6
<1>8. q > -1
  BY <1>1, <1>2, <1>7, Arithmetic
<1>9. CASE n % m = 0
  <2>1. m * q < m * d
    BY <1>2, <1>4, <1>6, <1>9
  <2>2. q < d
    BY <1>1, <1>2, <1>3, <2>1, Arithmetic
  <2> QED
    BY <1>2, <1>5, <1>8, <1>9, <2>2 DEF q, m
<1>10. CASE n % m # 0
  <2>1. m * q < m * (d + 1) /\ d + 1 \in Int
    BY <1>1, <1>2, <1>3, <1>6
  <2>2. q < d + 1
    BY <1>1, <1>2, <2>1, Arithmetic
  <2> QED
    BY <1>2, <1>5, <1>8, <1>10, <2>2 DEF q, m
<1> QED
  BY <1>9, <1>10

\* The rows a payout fills.
LEMMA NewRowsFacts ==
  ASSUME BookInv, NEW n \in Nat, nextRow + NumberTxsToCreate(n) <= MaxRows + 1
  PROVE  /\ NewRows(n) = nextRow .. nextRow + NumberTxsToCreate(n) - 1
         /\ NewRows(n) \subseteq RowIds
         /\ IsFiniteSet(NewRows(n)) /\ Cardinality(NewRows(n)) = NumberTxsToCreate(n)
         /\ \A r \in NewRows(n) : rowStatus[r] = "unused"
<1> DEFINE k == NumberTxsToCreate(n)
<1>1. k \in Nat /\ nextRow \in Nat /\ nextRow >= 1 /\ MaxRows \in Nat
  BY NumberTxsNat, BoundAssumption DEF BookInv, PayType
<1>2. NewRows(n) = nextRow .. nextRow + k - 1 /\ NewRows(n) \subseteq RowIds
  <2> HIDE DEF k
  <2>1. NewRows(n) = {r \in RowIds : nextRow <= r /\ r < nextRow + k}
    BY DEF NewRows, k
  <2>2. nextRow + k <= MaxRows + 1
    BY DEF k
  <2> QED
    BY <1>1, <2>1, <2>2 DEF RowIds
<1>3. \A r \in NewRows(n) : rowStatus[r] = "unused"
  BY DEF NewRows, BookInv, RowOrder
<1> HIDE DEF k
<1>4. nextRow + k - 1 \in Int /\ nextRow \in Int
  BY <1>1
<1>5. /\ IsFiniteSet(nextRow .. nextRow + k - 1)
      /\ Cardinality(nextRow .. nextRow + k - 1)
           = IF nextRow > nextRow + k - 1 THEN 0 ELSE (nextRow + k - 1) - nextRow + 1
  BY <1>4, FS_Interval
<1>6. (IF nextRow > nextRow + k - 1 THEN 0 ELSE (nextRow + k - 1) - nextRow + 1) = k
  BY <1>1
<1> QED
  BY <1>2, <1>3, <1>5, <1>6 DEF k

\* The recipients of a payout are distributed over its rows: none is left out
\* and none is in two of them.
LEMMA RecipientsPartition ==
  ASSUME BookInv, nextRow + NumberTxsToCreate(Cardinality(Payees)) <= MaxRows + 1
  PROVE  \E c : /\ \A a \in Payees : c[a] \in NewRows(Cardinality(Payees))
                /\ \A r : RecipientsOf(SetToSeq(Payees), r) = {a \in Payees : c[a] = r}
<1> DEFINE n == Cardinality(Payees)
           order == SetToSeq(Payees)
           at(j) == nextRow + (j - 1) \div MaxMultiRecipients
           pos(a) == CHOOSE j \in 1 .. n : order[j] = a
           c == [a \in Payees |-> at(pos(a))]
<1>1. n \in Nat /\ IsFiniteSet(Payees)
  BY PayeesFinite
<1>2. /\ order \in [1 .. n -> Payees]
      /\ \A i, j \in 1 .. n : order[i] = order[j] => i = j
      /\ \A a \in Payees : \E i \in 1 .. n : order[i] = a
  BY <1>1, SetToSeqLists
<1>3. \A a \in Payees : pos(a) \in 1 .. n /\ order[pos(a)] = a
  BY <1>2
<1>4. \A j \in 1 .. n : pos(order[j]) = j
  BY <1>2, <1>3
<1>5. \A j \in 1 .. n : at(j) \in NewRows(n)
  <2> TAKE j \in 1 .. n
  <2> DEFINE q == (j - 1) \div MaxMultiRecipients
             k == NumberTxsToCreate(n)
  <2>1. q \in Nat /\ q < k
    BY <1>1, RowOfRecipient
  <2>2. NewRows(n) = nextRow .. nextRow + k - 1 /\ k \in Nat /\ nextRow \in Nat
    <3>1. NewRows(n) = nextRow .. nextRow + k - 1
      BY <1>1, NewRowsFacts
    <3>2. k \in Nat /\ nextRow \in Nat
      BY <1>1, NumberTxsNat, BoundAssumption DEF BookInv, PayType
    <3> QED
      BY <3>1, <3>2
  <2> HIDE DEF q, k
  <2>3. nextRow + q \in nextRow .. nextRow + k - 1
    BY <2>1, <2>2
  <2> QED
    BY <2>2, <2>3 DEF q
<1>6. \A a \in Payees : c[a] \in NewRows(n)
  BY <1>3, <1>5
<1>7. ASSUME NEW r PROVE RecipientsOf(order, r) = {a \in Payees : c[a] = r}
  <2>1. RecipientsOf(order, r) = {order[i] : i \in {j \in 1 .. n : at(j) = r}}
    BY <1>2 DEF RecipientsOf
  <2> HIDE DEF at, pos
  <2> QED
    BY <1>2, <1>3, <1>4, <2>1
<1> HIDE DEF c
<1> QED
  BY <1>6, <1>7

\* What the payees lose: their balances, less what the fee account keeps.
LEMMA CreateBalances ==
  ASSUME MoneyType, CreateTransactions
  PROVE  SumFunctionOnSet(pend', Accounts) =
           SumFunctionOnSet(pend, Accounts) - SumFunctionOnSet(pend, Payees)
             + (Cardinality(Payees) * MinerTxFee - NumberTxsToCreate(Cardinality(Payees)) * PoolTxFee)
<1> DEFINE kept == Cardinality(Payees) * MinerTxFee - NumberTxsToCreate(Cardinality(Payees)) * PoolTxFee
           left == [a \in Accounts |-> IF a \in Payees THEN 0 ELSE pend[a]]
           T == Accounts \ Payees
<1>1. kept \in Int
  BY PayeesFinite, AmountsAssumption
<1>2. pend' = [a \in Accounts |-> left[a] + (IF a = Fee THEN kept ELSE 0)]
  BY CreateFacts
<1>3. /\ IsFiniteSet(Accounts) /\ Ints(pend, Accounts) /\ Payees \in SUBSET Accounts
      /\ T \in SUBSET Accounts /\ Accounts \ T = Payees /\ Fee \in Accounts
  BY SumsInt, PayeesFinite DEF Accounts
<1>4. Ints(left, Accounts) /\ (\A a \in T : pend[a] = left[a]) /\ (\A a \in Payees : left[a] = 0)
  BY <1>3 DEF Ints
<1> HIDE DEF kept, left
<1>5. left[Fee] \in Int /\ \A a \in Accounts : left[a] \in Int
  BY <1>3, <1>4 DEF Ints
<1>6. pend'[Fee] = left[Fee] + kept /\ pend'[Fee] \in Int /\ \A a \in Accounts \ {Fee} : pend'[a] = left[a]
  BY <1>1, <1>2, <1>3, <1>5
<1>7. SumFunctionOnSet(pend', Accounts) = SumFunctionOnSet(left, Accounts) + pend'[Fee] - left[Fee]
  BY <1>3, <1>4, <1>6, SumChange
<1>8. SumFunctionOnSet(left, Accounts) = SumFunctionOnSet(pend, T)
  BY <1>3, <1>4, SumSupport
<1>9. SumFunctionOnSet(pend, Accounts) = SumFunctionOnSet(pend, Payees) + SumFunctionOnSet(pend, T)
  BY <1>3, SumSplit
<1>10. SumFunctionOnSet(pend, Payees) \in Int /\ SumFunctionOnSet(pend, T) \in Int
  <2>1. IsFiniteSet(Payees) /\ IsFiniteSet(T) /\ Ints(pend, Payees) /\ Ints(pend, T)
    BY <1>3, FS_Subset DEF Ints
  <2> QED
    BY <2>1, SumInt
<1>11. SumFunctionOnSet(pend', Accounts) =
         SumFunctionOnSet(pend, Accounts) - SumFunctionOnSet(pend, Payees) + kept
  BY <1>1, <1>5, <1>6, <1>7, <1>8, <1>9, <1>10
<1> QED
  BY <1>11 DEF kept

\* What the new rows hold: the balances of the payees less their fees, and the
\* fee of every row.
LEMMA CreateValues ==
  ASSUME BookInv, MoneyType, CreateTransactions
  PROVE  SumFunctionOnSet(Values', NewRows(Cardinality(Payees))) =
           SumFunctionOnSet(pend, Payees) - MinerTxFee * Cardinality(Payees)
             + PoolTxFee * NumberTxsToCreate(Cardinality(Payees))
<1> DEFINE n == Cardinality(Payees)
           k == NumberTxsToCreate(n)
           new == NewRows(n)
           net == [a \in Payees |-> pend[a] - MinerTxFee]
           fees == [a \in Payees |-> MinerTxFee]
           F == [r \in new |-> Sum(pay'[r])]
           G == [r \in new |-> PoolTxFee]
<1>1. /\ n \in Nat /\ k \in Nat /\ Payees \in SUBSET Accounts /\ IsFiniteSet(Payees)
      /\ nextRow + k <= MaxRows + 1 /\ MinerTxFee \in Int /\ PoolTxFee \in Int
  BY PayeesFinite, CreateFacts, AmountsAssumption
<1>2. /\ new \in SUBSET RowIds /\ IsFiniteSet(new) /\ Cardinality(new) = k
  BY <1>1, NewRowsFacts
<1>3. PICK c : /\ \A a \in Payees : c[a] \in new
               /\ \A r : RecipientsOf(SetToSeq(Payees), r) = {a \in Payees : c[a] = r}
  BY <1>1, RecipientsPartition
<1>4. Ints(pend, Payees) /\ Ints(net, Payees) /\ Ints(fees, Payees)
  BY <1>1 DEF MoneyType, Ints
<1>5. \A a \in Payees : pend[a] = net[a] + fees[a]
  BY <1>1, <1>4 DEF Ints
<1>6. SumFunctionOnSet(pend, Payees) = SumFunctionOnSet(net, Payees) + SumFunctionOnSet(fees, Payees)
  <2> HIDE DEF net, fees
  <2> QED BY <1>1, <1>4, <1>5, SumPlus
<1>7. SumFunctionOnSet(fees, Payees) = MinerTxFee * n
  <2>1. \A a \in Payees : fees[a] = MinerTxFee
    OBVIOUS
  <2> HIDE DEF fees
  <2> QED BY <1>1, <2>1, SumConstant
<1>8. ASSUME NEW r \in new PROVE F[r] = SumFunctionOnSet(net, {a \in Payees : c[a] = r})
  <2> DEFINE A == {a \in Payees : c[a] = r}
  <2>1. pay'[r] = [a \in A |-> pend[a] - MinerTxFee]
    BY <1>2, <1>3, CreateFacts
  <2>2. DOMAIN pay'[r] = A /\ \A a \in A : pay'[r][a] = net[a]
    BY <2>1
  <2>3. IsFiniteSet(A) /\ Ints(net, A)
    BY <1>1, <1>4, FS_Subset DEF Ints
  <2> HIDE DEF A, net
  <2>4. SumFunctionOnSet(pay'[r], A) = SumFunctionOnSet(net, A)
    BY <2>2, <2>3, SumSame
  <2>5. F[r] = SumFunctionOnSet(pay'[r], DOMAIN pay'[r])
    BY DEF Sum
  <2> QED
    BY <2>2, <2>4, <2>5 DEF A
<1>9. SumFunctionOnSet(F, new) = SumFunctionOnSet(net, Payees)
  <2>1. \A r \in new : F[r] = SumFunctionOnSet(net, {a \in Payees : c[a] = r})
    BY <1>8
  <2>2. \A a \in Payees : c[a] \in new
    BY <1>3
  <2> HIDE DEF F, net, new
  <2> QED BY <1>1, <1>2, <1>4, <2>1, <2>2, SumFibres
<1>10. SumFunctionOnSet(G, new) = PoolTxFee * k
  <2>1. \A r \in new : G[r] = PoolTxFee
    OBVIOUS
  <2>2. SumFunctionOnSet(G, new) = PoolTxFee * Cardinality(new)
    <3> HIDE DEF G, new
    <3> QED BY <1>1, <1>2, <2>1, SumConstant
  <2> QED
    BY <1>2, <2>2
<1>11. Ints(F, new) /\ Ints(G, new)
  <2>1. ASSUME NEW r \in new PROVE F[r] \in Int
    <3> DEFINE A == {a \in Payees : c[a] = r}
    <3>1. IsFiniteSet(A) /\ Ints(net, A)
      BY <1>1, <1>4, FS_Subset DEF Ints
    <3>2. SumFunctionOnSet(net, A) \in Int
      <4> HIDE DEF A, net
      <4> QED BY <3>1, SumInt
    <3> QED
      BY <1>8, <3>2
  <2>2. \A r \in new : G[r] \in Int
    BY <1>1
  <2> HIDE DEF F, G
  <2> QED
    BY <2>1, <2>2 DEF Ints
<1>12. \A r \in new : Values'[r] = F[r] + G[r]
  <2> TAKE r \in new
  <2>1. r \in RowIds /\ rowStatus'[r] = "unsent"
    BY <1>2, CreateFacts
  <2>2. Values'[r] = Sum(pay'[r]) + PoolTxFee
    BY <2>1 DEF Values, RowValue, Sum
  <2> QED
    BY <2>2
<1>13. SumFunctionOnSet(Values', new) = SumFunctionOnSet(F, new) + SumFunctionOnSet(G, new)
  <2> HIDE DEF F, G, new
  <2> QED BY <1>2, <1>11, <1>12, SumPlus
<1>14. SumFunctionOnSet(net, Payees) \in Int
  <2> HIDE DEF net
  <2> QED BY <1>1, <1>4, SumInt
<1>15. MinerTxFee * n \in Int /\ PoolTxFee * k \in Int
  BY <1>1
<1> HIDE DEF n, k, new, net, fees, F, G
<1>16. SumFunctionOnSet(Values', new) = SumFunctionOnSet(pend, Payees) - MinerTxFee * n + PoolTxFee * k
  BY <1>6, <1>7, <1>9, <1>10, <1>13, <1>14, <1>15
<1> QED
  BY <1>16 DEF n, k, new

\* The other rows keep their value, and the new ones had none.
LEMMA CreateRows ==
  ASSUME BookInv, MoneyType, MoneyType', CreateTransactions
  PROVE  SumFunctionOnSet(Values', RowIds) =
           SumFunctionOnSet(Values, RowIds) + SumFunctionOnSet(Values', NewRows(Cardinality(Payees)))
<1> DEFINE new == NewRows(Cardinality(Payees))
           old == RowIds \ new
<1>1. /\ new \in SUBSET RowIds /\ IsFiniteSet(new) /\ Cardinality(new) \in Nat
      /\ \A r \in new : rowStatus[r] = "unused"
  BY PayeesFinite, CreateFacts, NewRowsFacts
<1>2. IsFiniteSet(RowIds) /\ Ints(Values, RowIds)
  BY ValuesFacts
<1>3. Ints(Values', RowIds)
  BY ValuesNext
<1>4. \A r \in new : Values[r] = 0
  BY <1>1 DEF Values, RowValue
<1>5. \A r \in old : Values'[r] = Values[r]
  BY CreateFacts DEF Values, RowValue, Sum
<1> HIDE DEF new
<1>6. SumFunctionOnSet(Values, new) = 0
  <2>1. SumFunctionOnSet(Values, new) = 0 * Cardinality(new)
    BY <1>1, <1>4, SumConstant
  <2> QED
    BY <1>1, <2>1
<1>7. IsFiniteSet(old) /\ Ints(Values, old)
  BY <1>2, FS_Subset DEF Ints
<1>8. SumFunctionOnSet(Values', old) = SumFunctionOnSet(Values, old) /\ SumFunctionOnSet(Values, old) \in Int
  BY <1>5, <1>7, SumSame, SumInt
<1>9. SumFunctionOnSet(Values, RowIds) = SumFunctionOnSet(Values, new) + SumFunctionOnSet(Values, old)
  BY <1>1, <1>2, SumSplit
<1>10. SumFunctionOnSet(Values', RowIds) = SumFunctionOnSet(Values', new) + SumFunctionOnSet(Values', old)
  BY <1>1, <1>2, <1>3, SumSplit
<1>11. SumFunctionOnSet(Values', new) \in Int
  <2>1. Ints(Values', new)
    BY <1>1, <1>3 DEF Ints
  <2> QED
    BY <1>1, <2>1, SumInt
<1>12. SumFunctionOnSet(Values', RowIds) = SumFunctionOnSet(Values, RowIds) + SumFunctionOnSet(Values', new)
  BY <1>6, <1>8, <1>9, <1>10, <1>11
<1> QED
  BY <1>12 DEF new

\* MoneyConserved in the form of ConservedSums.
Balance ==
  SumFunctionOnSet(credit, Heights) + Opening * Cardinality(Miners)
    = SumFunctionOnSet(pend, Accounts) + SumFunctionOnSet(Values, RowIds)

\* Every step that moves money moves it between balances, credits and rows.
LEMMA BalanceInductive ==
  BookInv /\ BookInv' /\ MoneyType /\ MoneyType' /\ Balance /\ [Next]_vars => Balance'
<1> SUFFICES ASSUME BookInv, BookInv', MoneyType, MoneyType', Balance, [Next]_vars PROVE Balance'
  OBVIOUS
<1> DEFINE B == SumFunctionOnSet(pend, Accounts)
           C == SumFunctionOnSet(credit, Heights)
           V == SumFunctionOnSet(Values, RowIds)
           O == Opening * Cardinality(Miners)
<1>0. B \in Int /\ C \in Int /\ V \in Int /\ O \in Int /\ C + O = B + V
  BY SumsInt DEF Balance
<1>1. ASSUME UNCHANGED <<pend, credit, pay, nextRow>> PROVE Balance'
  <2>1. Values' = Values
    BY <1>1, ValuesKept
  <2> QED
    BY <1>1, <2>1 DEF Balance
<1>2. CASE UNCHANGED <<accVars, credit, rowVars>>
  BY <1>1, <1>2 DEF accVars, rowVars
<1>3. ASSUME NEW a \in Miners, NEW msg \in Messages, SetMinPayout(a, msg) PROVE Balance'
  <2>1. UNCHANGED <<credit, pay, nextRow>> /\ (pend' = pend \/ pend' = Charged(a))
    BY <1>3 DEF SetMinPayout, accVars, rowVars
  <2>2. Values' = Values
    BY <2>1, ValuesKept
  <2>3. SumFunctionOnSet(pend', Accounts) = SumFunctionOnSet(pend, Accounts)
    BY <2>1, ChargedSum
  <2> QED
    BY <2>1, <2>2, <2>3 DEF Balance
<1>4. ASSUME NEW eepsOf \in EepsChoices, NEW g \in Miners, RewardBlock(eepsOf, g) PROVE Balance'
  <2>1. PICK s \in Nat : /\ SumFunctionOnSet(pend', Accounts) = B + s
                         /\ SumFunctionOnSet(credit', Heights) = C + s
    BY <1>4, RewardSum
  <2>2. Values' = Values
    BY <1>4, ValuesKept DEF RewardBlock, rowVars
  <2>3. SumFunctionOnSet(Values', RowIds) = V
    BY <2>2
  <2> HIDE DEF B, C, V, O
  <2>4. (C + s) + O = (B + s) + V
    BY <1>0
  <2> QED
    BY <2>1, <2>3, <2>4 DEF Balance, O
<1>5. CASE CreateTransactions
  <2> DEFINE n == Cardinality(Payees)
             k == NumberTxsToCreate(n)
             D == SumFunctionOnSet(pend, Payees)
  <2>1. SumFunctionOnSet(pend', Accounts) = B - D + (n * MinerTxFee - k * PoolTxFee)
    BY <1>5, CreateBalances
  <2>2. SumFunctionOnSet(Values', RowIds) = V + (D - MinerTxFee * n + PoolTxFee * k)
    BY <1>5, CreateValues, CreateRows
  <2>3. SumFunctionOnSet(credit', Heights) = C
    BY <1>5, CreateFacts
  <2>4. n \in Nat /\ k \in Nat /\ MinerTxFee \in Nat /\ PoolTxFee \in Nat
    BY PayeesFinite, AmountsAssumption
  <2>5. D \in Int
    <3>1. IsFiniteSet(Payees) /\ Ints(pend, Payees)
      BY PayeesFinite DEF MoneyType, Ints
    <3> QED
      BY <3>1, SumInt
  <2> HIDE DEF B, C, V, O, n, k, D
  <2>6. n * MinerTxFee = MinerTxFee * n /\ k * PoolTxFee = PoolTxFee * k
        /\ MinerTxFee * n \in Int /\ PoolTxFee * k \in Int
    BY <2>4
  <2>7. C + O = (B - D + (n * MinerTxFee - k * PoolTxFee)) + (V + (D - MinerTxFee * n + PoolTxFee * k))
    BY <1>0, <2>5, <2>6
  <2> QED
    BY <2>1, <2>2, <2>3, <2>7 DEF Balance, O
<1>6. ASSUME NEW t \in TxIds, NEW ans \in Answers(t), NEW known \in BOOLEAN,
             ValidateTransaction(t, ans, known)
      PROVE  Balance'
  BY <1>1, <1>6 DEF ValidateTransaction, accVars
<1>7. ASSUME NEW r \in RowIds, NEW t \in TxIds, NEW reached \in BOOLEAN, SendPayment(r, t, reached)
      PROVE  Balance'
  BY <1>1, <1>7 DEF SendPayment, accVars
<1>8. CASE RecordTransaction
  BY <1>1, <1>8 DEF RecordTransaction, accVars
<1>9. ASSUME NEW weekEnds \in BOOLEAN, DayPasses(weekEnds) PROVE Balance'
  BY <1>1, <1>9 DEF DayPasses
<1>10. ASSUME NEW t \in TxIds, Mine(t) PROVE Balance'
  BY <1>2, <1>10 DEF Mine
<1>11. ASSUME NEW r \in RowIds, SendFails(r) PROVE Balance'
  BY <1>2, <1>11 DEF SendFails
<1>12. ASSUME NEW top \in Heights \cup {0}, NEW who \in SUBSET Miners, RewardBlocks(top, who) PROVE Balance'
  BY <1>2, <1>12 DEF RewardBlocks
<1>13. CASE RewardFails \/ BlockLost \/ RewardDone \/ CreateNothing \/ ValidateDone \/ SendDone \/ Crash
  BY <1>2, <1>13 DEF RewardFails, BlockLost, RewardDone, CreateNothing, ValidateDone, SendDone, Crash
<1>14. CASE UNCHANGED vars
  BY <1>2, <1>14 DEF vars
<1> QED
  BY <1>3, <1>4, <1>5, <1>6, <1>7, <1>8, <1>9, <1>10, <1>11, <1>12, <1>13, <1>14, NextCases

\* No planck is lost or made by the fees of messages, by rewards, or by payouts
\* that fill rows of MaxMultiRecipients, whatever crashes come between.
THEOREM MoneyIsConserved == Spec => []MoneyConserved
<1>1. Init => MoneyType /\ CreditBounded /\ Balance
  BY MoneyInitial, ConservedInitial, ConservedSums DEF Balance
<1>2. MoneyType /\ CreditBounded /\ [Next]_vars => MoneyType' /\ CreditBounded'
  BY MoneyTypeInductive
<1>3. BookInv /\ BookInv' /\ MoneyType /\ MoneyType' /\ Balance /\ [Next]_vars => Balance'
  BY BalanceInductive
<1>4. MoneyType /\ Balance => MoneyConserved
  BY ConservedSums DEF Balance
<1> QED BY <1>1, <1>2, <1>3, <1>4, BookInvariant, PTL DEF Spec

----------------------------------------------------------------------------
(* Types. *)

Plans == [min : MinPayouts \cup {Null}, interval : Intervals \cup {"none"}, date : Dates]

\* What TypeOK says beyond BookInv and MoneyType: the plans, the messages, and
\* what the goroutine has in hand per phase.
RoundType ==
  /\ plan \in [Accounts -> Plans]
  /\ senders \subseteq Miners
  /\ crashes \in 0 .. MaxCrashes
  /\ jobs \in {"idle", "create"} => todo = {}
  /\ jobs # "record" => sending = Null

\* A plan is set by a message and rescheduled by a payout or a day.
LEMMA PlanSteps ==
  /\ \A msg \in Messages : PlanOf(msg) \in Plans
  /\ \A p \in Plans : Rescheduled(p) \in Plans /\ [p EXCEPT !.date = "due"] \in Plans
<1>1. ASSUME NEW msg \in Messages PROVE PlanOf(msg) \in Plans
  <2>1. /\ msg.interval \in Intervals \cup {"none"}
        /\ msg.min = 0 \/ msg.min \in MinPayouts
    BY DEF Messages
  <2>2. (CASE msg.interval = "none" -> "null" [] msg.interval = "now" -> "due" [] OTHER -> "later") \in Dates
    BY DEF Dates
  <2> QED
    BY <2>1, <2>2 DEF PlanOf, Plans
<1>2. ASSUME NEW p \in Plans, NEW d \in Dates PROVE [p EXCEPT !.date = d] \in Plans
  BY DEF Plans
<1>3. "later" \in Dates /\ "null" \in Dates /\ "due" \in Dates
  BY DEF Dates
<1>4. ASSUME NEW p \in Plans PROVE Rescheduled(p) \in Plans
  BY <1>2, <1>3 DEF Rescheduled
<1> QED
  BY <1>1, <1>2, <1>3, <1>4

\* Every step keeps it.
LEMMA RoundTypeInductive == RoundType /\ [Next]_vars => RoundType'
<1> SUFFICES ASSUME RoundType, [Next]_vars PROVE RoundType'
  OBVIOUS
<1> USE BoundAssumption DEF RoundType
<1>1. ASSUME NEW top \in Heights \cup {0}, NEW who \in SUBSET Miners, RewardBlocks(top, who) PROVE RoundType'
  BY <1>1 DEF RewardBlocks, accVars
<1>2. ASSUME NEW a \in Miners, NEW msg \in Messages, SetMinPayout(a, msg) PROVE RoundType'
  <2>1. a \in Accounts /\ PlanOf(msg) \in Plans
    BY PlanSteps DEF Accounts
  <2>2. plan' \in [Accounts -> Plans]
    BY <1>2, <2>1 DEF SetMinPayout, accVars
  <2> QED
    BY <1>2, <2>2 DEF SetMinPayout
<1>3. CASE RewardFails \/ BlockLost
  BY <1>3 DEF RewardFails, BlockLost, accVars
<1>4. ASSUME NEW eepsOf \in EepsChoices, NEW g \in Miners, RewardBlock(eepsOf, g) PROVE RoundType'
  BY <1>4 DEF RewardBlock
<1>5. CASE RewardDone \/ CreateNothing \/ ValidateDone \/ SendDone
  BY <1>5 DEF RewardDone, CreateNothing, ValidateDone, SendDone, accVars
<1>6. CASE CreateTransactions
  <2>1. plan' = [a \in Accounts |-> IF a \in {b \in Accounts : Due(b)} THEN Rescheduled(plan[a]) ELSE plan[a]]
    BY <1>6 DEF CreateTransactions
  <2>2. plan' \in [Accounts -> Plans]
    BY <2>1, PlanSteps
  <2>3. jobs = "create" /\ jobs' = "validate" /\ UNCHANGED <<senders, sending, crashes>>
    BY <1>6 DEF CreateTransactions
  <2> QED
    BY <2>2, <2>3
<1>7. ASSUME NEW t \in TxIds, NEW ans \in Answers(t), NEW known \in BOOLEAN,
             ValidateTransaction(t, ans, known)
      PROVE  RoundType'
  <2>1. jobs = "validate" /\ UNCHANGED <<jobs, senders, sending, plan, crashes>>
    BY <1>7 DEF ValidateTransaction, accVars
  <2> QED
    BY <2>1
<1>8. ASSUME NEW r \in RowIds, SendFails(r) PROVE RoundType'
  BY <1>8 DEF SendFails, accVars
<1>9. ASSUME NEW r \in RowIds, NEW t \in TxIds, NEW reached \in BOOLEAN, SendPayment(r, t, reached)
      PROVE  RoundType'
  BY <1>9 DEF SendPayment, accVars
<1>10. CASE RecordTransaction
  BY <1>10 DEF RecordTransaction, accVars
<1>11. ASSUME NEW t \in TxIds, Mine(t) PROVE RoundType'
  BY <1>11 DEF Mine, accVars, jobVars
<1>12. ASSUME NEW weekEnds \in BOOLEAN, DayPasses(weekEnds) PROVE RoundType'
  <2>1. \A a \in Accounts : plan'[a] = plan[a] \/ plan'[a] = [plan[a] EXCEPT !.date = "due"]
    BY <1>12 DEF DayPasses
  <2>2. plan' \in [Accounts -> Plans]
    BY <1>12, <2>1, PlanSteps DEF DayPasses
  <2> QED
    BY <1>12, <2>2 DEF DayPasses, jobVars
<1>13. CASE Crash
  BY <1>13 DEF Crash, accVars
<1>14. CASE UNCHANGED vars
  BY <1>14 DEF vars, jobVars, accVars
<1> QED
  BY <1>1, <1>2, <1>3, <1>4, <1>5, <1>6, <1>7, <1>8, <1>9, <1>10, <1>11, <1>12, <1>13, <1>14, NextCases

\* Every column keeps a value of its type, and a payment is in hand exactly
\* between the wallet's answer and its record.
THEOREM PayoutTypes == Spec => []TypeOK
<1>1. Init => RoundType
  BY BoundAssumption DEF Init, RoundType, Plans, DefaultPlan, Dates
<1>2. RoundType /\ [Next]_vars => RoundType'
  BY RoundTypeInductive
<1>3. Init => MoneyType /\ CreditBounded
  BY MoneyInitial
<1>4. MoneyType /\ CreditBounded /\ [Next]_vars => MoneyType' /\ CreditBounded'
  BY MoneyTypeInductive
<1>5. BookInv /\ MoneyType /\ RoundType => TypeOK
  <2> SUFFICES ASSUME BookInv, MoneyType, RoundType PROVE TypeOK
    OBVIOUS
  <2>1. todo \subseteq Heights \cup TxIds \cup RowIds
    BY DEF BookInv, PayType, MoneyType, RoundType, Phases
  <2>2. \A a \in Accounts : /\ plan[a].min \in MinPayouts \cup {Null}
                            /\ plan[a].interval \in Intervals \cup {"none"}
                            /\ plan[a].date \in Dates
    BY DEF RoundType, Plans
  <2>3. sending \in {Null} \cup (RowIds \X TxIds) /\ (jobs = "record" <=> sending # Null)
    BY NullAssumption DEF BookInv, PayType, RoundType, RowIds
  <2> QED
    BY <2>1, <2>2, <2>3 DEF TypeOK, BookInv, PayType, MoneyType, RoundType
<1> QED BY <1>1, <1>2, <1>3, <1>4, <1>5, BookInvariant, PTL DEF Spec
=============================================================================
