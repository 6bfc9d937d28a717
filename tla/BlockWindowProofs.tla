------------------------- MODULE BlockWindowProofs -------------------------
(***************************************************************************)
(* The windows of the cache, for any heights and any window length: the    *)
(* list stays sorted and agrees with its index, it holds the NAVG greatest *)
(* heights ever offered, and each window implements TopWindow.             *)
(***************************************************************************)
EXTENDS BlockWindow, FiniteSetTheorems, SequenceTheorems, WellFoundedInduction, TLAPS

\* Greatest of TopWindow, for the length of the windows.
Top(S) == {x \in S : Cardinality({y \in S : y > x}) < NAVG}

Ascending(s) == \A i, j \in DOMAIN s : i < j => s[i] < s[j]

\* What a window is: a sorted list without repetitions, as long as its index
\* has members, which are the greatest of all that was offered.  That only
\* finitely many heights were is in the bound.
Window(k) ==
  /\ heights[k] \in Seq(Height) /\ Len(heights[k]) <= NAVG
  /\ Ascending(heights[k]) /\ ToSet(heights[k]) = index[k]
  /\ Cardinality(index[k]) = Len(heights[k])
  /\ offered[k] \subseteq Height /\ \E n \in Nat : offered[k] \subseteq 0 .. n
  /\ index[k] = Top(offered[k])

BlockWindowInv ==
  /\ heights \in [Kinds -> Seq(Height)]
  /\ index \in [Kinds -> SUBSET Height]
  /\ offered \in [Kinds -> SUBSET Height]
  /\ \A k \in Kinds : Window(k)

----------------------------------------------------------------------------
\* Bounded sets of natural numbers.

\* A nonempty set of natural numbers has a least element.
LEMMA LeastExists ==
  ASSUME NEW S, S \subseteq Nat, S # {}
  PROVE  \E x \in S : \A y \in S : x <= y
<1>1. \E x \in S : \A y \in S : ~(<<y, x>> \in OpToRel(<, Nat))
  BY NatLessThanWellFounded, WFMin
<1>2. ASSUME NEW x \in S, NEW y \in S, ~(<<y, x>> \in OpToRel(<, Nat)) PROVE x <= y
  <2>1. ~(y < x)
    BY <1>2, Zenon DEF OpToRel
  <2> QED
    BY <2>1
<1> QED
  BY <1>1, <1>2

\* A nonempty bounded one has a greatest element, and Max is it.
LEMMA MaxOfBounded ==
  ASSUME NEW n \in Nat, NEW S, S \subseteq 0 .. n, S # {}
  PROVE  Max(S) \in S /\ \A y \in S : Max(S) >= y
<1> DEFINE D == {n - x : x \in S}
<1>1. PICK d \in D : \A e \in D : d <= e
  <2>1. D \subseteq Nat
    OBVIOUS
  <2>2. D # {}
    OBVIOUS
  <2> QED
    BY <2>1, <2>2, LeastExists
<1>2. PICK x \in S : d = n - x
  OBVIOUS
<1>3. \A y \in S : x >= y
  BY <1>1, <1>2
<1> QED
  BY <1>2, <1>3 DEF Max

\* Bounded sets are finite, and their subsets have no more members.
LEMMA BoundedCardinality ==
  ASSUME NEW n \in Nat, NEW S, S \subseteq 0 .. n
  PROVE  /\ IsFiniteSet(S) /\ Cardinality(S) \in Nat
         /\ \A T \in SUBSET S : Cardinality(T) \in Nat /\ Cardinality(T) <= Cardinality(S)
<1>1. IsFiniteSet(S)
  <2>1. IsFiniteSet(0 .. n)
    BY FS_Interval
  <2>2. S \in SUBSET (0 .. n)
    OBVIOUS
  <2> QED
    BY <2>1, <2>2, FS_Subset
<1> QED
  BY <1>1, FS_Subset, FS_CardinalityType

\* A set of at most NAVG heights loses none.
LEMMA TopOfFew ==
  ASSUME NEW n \in Nat, NEW S, S \subseteq 0 .. n, Cardinality(S) <= NAVG
  PROVE  Top(S) = S
<1>0. IsFiniteSet(S) /\ Cardinality(S) \in Nat
  BY BoundedCardinality
<1>1. ASSUME NEW x \in S PROVE Cardinality({y \in S : y > x}) < NAVG
  <2>1. {y \in S : y > x} \in SUBSET (S \ {x})
    OBVIOUS
  <2>2. Cardinality(S \ {x}) = Cardinality(S) - 1 /\ S \ {x} \subseteq 0 .. n
    BY <1>0, FS_RemoveElement
  <2>3. Cardinality({y \in S : y > x}) \in Nat /\ Cardinality({y \in S : y > x}) <= Cardinality(S \ {x})
    BY <2>1, <2>2, BoundedCardinality
  <2> QED
    BY <1>0, <2>2, <2>3, NAVGAssumption
<1> QED
  BY <1>1 DEF Top

\* One more than NAVG heights lose the least.
LEMMA TopDropsLeast ==
  ASSUME NEW n \in Nat, NEW S, S \subseteq 0 .. n, Cardinality(S) = NAVG + 1,
         NEW m \in S, \A y \in S : m <= y
  PROVE  Top(S) = S \ {m}
<1>0. /\ IsFiniteSet(S) /\ \A y \in S : y \in Int
      /\ IsFiniteSet(S \ {m}) /\ Cardinality(S \ {m}) = NAVG
  <2>1. IsFiniteSet(S)
    BY BoundedCardinality
  <2>2. IsFiniteSet(S \ {m}) /\ Cardinality(S \ {m}) = (NAVG + 1) - 1
    BY <2>1, FS_RemoveElement
  <2> QED
    BY <2>1, <2>2, NAVGAssumption
<1>1. ~(Cardinality({y \in S : y > m}) < NAVG)
  <2>1. ASSUME NEW y \in S PROVE y > m <=> y # m
    BY <1>0
  <2>2. {y \in S : y > m} = S \ {m}
    BY <2>1
  <2> QED
    BY <1>0, <2>2, NAVGAssumption
<1>2. ASSUME NEW x \in S \ {m} PROVE Cardinality({y \in S : y > x}) < NAVG
  <2> DEFINE R == (S \ {m}) \ {x}
  <2>1. {y \in S : y > x} \in SUBSET R
    OBVIOUS
  <2>2. Cardinality(R) = NAVG - 1 /\ R \subseteq 0 .. n
    BY <1>0, FS_RemoveElement
  <2>3. Cardinality({y \in S : y > x}) \in Nat /\ Cardinality({y \in S : y > x}) <= Cardinality(R)
    BY <2>1, <2>2, BoundedCardinality
  <2> QED
    BY <2>2, <2>3, NAVGAssumption
<1> QED
  BY <1>1, <1>2 DEF Top

\* The window can forget what it refused or dropped: a new height competes
\* with the greatest alone as it would with the whole history.
LEMMA TopIncremental ==
  ASSUME NEW n \in Nat, NEW S, S \subseteq 0 .. n, NEW h \in 0 .. n
  PROVE  Top(S \cup {h}) = Top(Top(S) \cup {h})
<1> DEFINE G == Top(S)
           A(T, x) == {y \in T : y > x}
<1>0. G \subseteq S /\ S \cup {h} \subseteq 0 .. n /\ G \cup {h} \subseteq 0 .. n
  BY DEF Top
<1>1. ASSUME NEW T, T \subseteq 0 .. n, NEW x, NEW U, U \subseteq A(T, x)
      PROVE  Cardinality(U) \in Nat /\ Cardinality(A(T, x)) \in Nat /\ Cardinality(U) <= Cardinality(A(T, x))
  <2>1. A(T, x) \subseteq 0 .. n
    BY <1>1
  <2> HIDE DEF A
  <2> QED
    BY <1>1, <2>1, BoundedCardinality
<1>2. ASSUME NEW x \in Top(S \cup {h}) PROVE x \in Top(G \cup {h})
  <2>1. x \in S \cup {h} /\ Cardinality(A(S \cup {h}, x)) < NAVG
    BY DEF Top
  <2>2. x \in G \cup {h}
    <3>1. A(S, x) \subseteq A(S \cup {h}, x)
      OBVIOUS
    <3>2. Cardinality(A(S, x)) \in Nat /\ Cardinality(A(S \cup {h}, x)) \in Nat
          /\ Cardinality(A(S, x)) <= Cardinality(A(S \cup {h}, x))
      BY <1>0, <1>1, <3>1
    <3>3. Cardinality(A(S, x)) < NAVG
      BY <2>1, <3>2, NAVGAssumption
    <3> QED
      BY <2>1, <3>3 DEF Top
  <2>3. A(G \cup {h}, x) \subseteq A(S \cup {h}, x)
    BY <1>0
  <2>4. Cardinality(A(G \cup {h}, x)) \in Nat /\ Cardinality(A(S \cup {h}, x)) \in Nat
        /\ Cardinality(A(G \cup {h}, x)) <= Cardinality(A(S \cup {h}, x))
    BY <1>0, <1>1, <2>3
  <2>5. Cardinality(A(G \cup {h}, x)) < NAVG
    BY <2>1, <2>4, NAVGAssumption
  <2> QED
    BY <2>2, <2>5 DEF Top
<1>3. ASSUME NEW x \in Top(G \cup {h}) PROVE x \in Top(S \cup {h})
  <2>1. x \in G \cup {h} /\ Cardinality(A(G \cup {h}, x)) < NAVG
    BY DEF Top
  <2>2. A(S, x) \subseteq G
    <3> SUFFICES ASSUME ~(A(S, x) \subseteq G) PROVE FALSE
      OBVIOUS
    <3> DEFINE B == A(S, x) \ G
               z == Max(B)
    <3>1. B # {} /\ B \subseteq 0 .. n
      BY <1>0
    <3>2. z \in B /\ \A y \in B : z >= y
      <4> HIDE DEF B
      <4> QED
        BY <3>1, MaxOfBounded
    <3>3. z \in S /\ z > x /\ z \notin G
      BY <3>2
    <3> HIDE DEF z
    <3>4. ~(Cardinality(A(S, z)) < NAVG)
      BY <3>3 DEF Top
    <3>5. A(S, z) \subseteq A(G \cup {h}, x)
      <4>1. ASSUME NEW y \in S, y > z PROVE y \in G /\ y > x
        <5>1. x \in 0 .. n /\ y \in 0 .. n /\ z \in 0 .. n
          BY <1>0, <2>1, <3>3
        <5>2. y > x /\ ~(z >= y)
          BY <3>3, <4>1, <5>1
        <5> QED
          BY <3>2, <4>1, <5>2
      <4> QED
        BY <4>1
    <3>6. Cardinality(A(S, z)) \in Nat /\ Cardinality(A(G \cup {h}, x)) \in Nat
          /\ Cardinality(A(S, z)) <= Cardinality(A(G \cup {h}, x))
      BY <1>0, <1>1, <3>5
    <3> QED
      BY <2>1, <3>4, <3>6, NAVGAssumption
  <2>3. A(S \cup {h}, x) = A(G \cup {h}, x)
    BY <1>0, <2>2
  <2> QED
    BY <1>0, <2>1, <2>3 DEF Top
<1> QED
  BY <1>2, <1>3

----------------------------------------------------------------------------
\* The list.

\* Heights are positive numbers: 0 stands for no height.
LEMMA HeightsAreNat == \A h \in Height : h \in Nat /\ h # 0
  BY HeightAssumption

\* A list of heights, for the provers.
LEMMA ListBasics ==
  ASSUME NEW s \in Seq(Height)
  PROVE  /\ Len(s) \in Nat /\ DOMAIN s = 1 .. Len(s)
         /\ \A i \in 1 .. Len(s) : s[i] \in Height /\ s[i] \in Nat
<1>1. Len(s) \in Nat /\ DOMAIN s = 1 .. Len(s)
  OBVIOUS
<1>2. \A i \in 1 .. Len(s) : s[i] \in Height
  OBVIOUS
<1> QED
  BY <1>1, <1>2, HeightsAreNat

\* Where the walk from the back stops, all before is smaller and nothing after.
LEMMA PositionSplits ==
  ASSUME NEW s \in Seq(Height), Ascending(s), NEW h \in Height
  PROVE  /\ PositionOf(s, h) \in 0 .. Len(s)
         /\ \A i \in 1 .. PositionOf(s, h) : s[i] < h
         /\ \A i \in PositionOf(s, h) + 1 .. Len(s) : s[i] >= h
<1>0. /\ Len(s) \in Nat /\ DOMAIN s = 1 .. Len(s)
      /\ h \in Nat /\ \A i \in 1 .. Len(s) : s[i] \in Nat
  BY ListBasics, HeightsAreNat
<1> DEFINE B == {i \in DOMAIN s : s[i] < h}
           p == PositionOf(s, h)
<1>1. CASE B = {}
  <2>1. p = 0
    BY <1>1 DEF PositionOf
  <2> QED
    BY <1>0, <1>1, <2>1
<1>2. CASE B # {}
  <2>1. B \subseteq 0 .. Len(s)
    BY <1>0
  <2>2. p = Max(B)
    BY <1>2 DEF PositionOf
  <2>3. p \in B /\ \A i \in B : p >= i
    <3> HIDE DEF B, p
    <3> QED
      BY <1>0, <1>2, <2>1, <2>2, MaxOfBounded
  <2>4. p \in 1 .. Len(s) /\ s[p] < h
    BY <1>0, <2>3
  <2> HIDE DEF p
  <2>5. ASSUME NEW i \in 1 .. p PROVE s[i] < h
    <3>1. i \in 1 .. Len(s) /\ (i = p \/ i < p)
      BY <1>0, <2>4
    <3>2. s[i] = s[p] \/ s[i] < s[p]
      BY <1>0, <2>4, <3>1 DEF Ascending
    <3> QED
      BY <1>0, <2>4, <3>1, <3>2
  <2>6. ASSUME NEW i \in p + 1 .. Len(s) PROVE s[i] >= h
    <3>1. i \in 1 .. Len(s) /\ ~(p >= i)
      BY <1>0, <2>4
    <3>2. ~(s[i] < h)
      BY <1>0, <2>3, <3>1
    <3> QED
      BY <1>0, <3>1, <3>2
  <2> QED
    BY <1>0, <2>4, <2>5, <2>6 DEF p
<1> QED
  BY <1>1, <1>2

\* t is s with h between the smaller and the greater heights, after p.
Between(s, t, p, h) ==
  /\ p \in 0 .. Len(s) /\ Len(t) = Len(s) + 1 /\ t[p + 1] = h
  /\ \A i \in 1 .. p : t[i] = s[i] /\ s[i] < h
  /\ \A i \in p + 1 .. Len(s) : t[i + 1] = s[i] /\ h < s[i]

\* Such a list is in order.
LEMMA Spliced ==
  ASSUME NEW s \in Seq(Height), NEW t \in Seq(Height), Ascending(s),
         NEW h \in Height, NEW p, Between(s, t, p, h)
  PROVE  Ascending(t) /\ ToSet(t) = ToSet(s) \cup {h}
<1> USE DEF Between
<1>0. /\ Len(s) \in Nat /\ DOMAIN s = 1 .. Len(s) /\ DOMAIN t = 1 .. Len(s) + 1
      /\ h \in Nat /\ \A i \in 1 .. Len(s) : s[i] \in Nat
  BY ListBasics, HeightsAreNat
<1>a. \A i \in 1 .. Len(s) + 1 : i \in 1 .. p \/ i = p + 1 \/ (i - 1 \in p + 1 .. Len(s) /\ t[i] = s[i - 1])
  <2> SUFFICES ASSUME NEW i \in 1 .. Len(s) + 1, i \notin 1 .. p, i # p + 1
               PROVE  i - 1 \in p + 1 .. Len(s) /\ t[i] = s[i - 1]
    OBVIOUS
  <2>1. i - 1 \in p + 1 .. Len(s) /\ i = (i - 1) + 1
    BY <1>0
  <2> QED
    BY <2>1
<1>1. ASSUME NEW i \in 1 .. Len(s) + 1, NEW j \in 1 .. Len(s) + 1, i < j PROVE t[i] < t[j]
  <2>0. \A a, b \in 1 .. Len(s) : a < b => s[a] < s[b]
    BY <1>0 DEF Ascending
  <2>1. CASE i \in 1 .. p
    <3>1. i \in 1 .. Len(s) /\ t[i] = s[i] /\ s[i] < h /\ s[i] \in Nat
      BY <1>0, <2>1
    <3>2. CASE j \in 1 .. p
      BY <1>0, <1>1, <2>0, <3>1, <3>2
    <3>3. CASE j = p + 1
      BY <3>1, <3>3
    <3>4. CASE j - 1 \in p + 1 .. Len(s) /\ t[j] = s[j - 1]
      <4>1. h < s[j - 1] /\ s[j - 1] \in Nat
        BY <1>0, <3>4
      <4> QED
        BY <1>0, <3>1, <3>4, <4>1
    <3> QED
      BY <1>a, <3>2, <3>3, <3>4
  <2>2. CASE i = p + 1
    <3>1. j - 1 \in p + 1 .. Len(s) /\ t[j] = s[j - 1]
      BY <1>0, <1>1, <1>a, <2>2
    <3> QED
      BY <2>2, <3>1
  <2>3. CASE i - 1 \in p + 1 .. Len(s) /\ t[i] = s[i - 1]
    <3>1. j - 1 \in p + 1 .. Len(s) /\ t[j] = s[j - 1]
      BY <1>0, <1>1, <1>a, <2>3
    <3>2. i - 1 \in 1 .. Len(s) /\ j - 1 \in 1 .. Len(s) /\ i - 1 < j - 1
      BY <1>0, <1>1, <2>3, <3>1
    <3> QED
      BY <2>0, <2>3, <3>1, <3>2
  <2> QED
    BY <1>a, <2>1, <2>2, <2>3
<1>2. ASSUME NEW i \in 1 .. Len(s) + 1 PROVE t[i] \in ToSet(s) \cup {h}
  <2>1. CASE i \in 1 .. p
    BY <1>0, <2>1 DEF ToSet
  <2>2. CASE i = p + 1
    BY <2>2
  <2>3. CASE i - 1 \in p + 1 .. Len(s) /\ t[i] = s[i - 1]
    <3>1. i - 1 \in DOMAIN s
      BY <1>0, <2>3
    <3> QED
      BY <2>3, <3>1 DEF ToSet
  <2> QED
    BY <1>a, <2>1, <2>2, <2>3
<1>3. ASSUME NEW i \in 1 .. Len(s) PROVE s[i] \in ToSet(t)
  <2>1. CASE i \in 1 .. p
    <3>1. i \in DOMAIN t /\ t[i] = s[i]
      BY <1>0, <2>1
    <3> QED
      BY <3>1 DEF ToSet
  <2>2. CASE i \in p + 1 .. Len(s)
    <3>1. i + 1 \in DOMAIN t /\ t[i + 1] = s[i]
      BY <1>0, <2>2
    <3> QED
      BY <3>1 DEF ToSet
  <2> QED
    BY <1>0, <2>1, <2>2
<1>4. h \in ToSet(t)
  <2>1. p + 1 \in DOMAIN t
    BY <1>0
  <2> QED
    BY <2>1 DEF ToSet
<1>5. ToSet(t) \subseteq ToSet(s) \cup {h}
  BY <1>0, <1>2 DEF ToSet
<1>6. ToSet(s) \subseteq ToSet(t)
  BY <1>0, <1>3 DEF ToSet
<1>7. Ascending(t)
  BY <1>0, <1>1 DEF Ascending
<1> QED
  BY <1>4, <1>5, <1>6, <1>7

\* InsertAfter.
LEMMA InsertAtList ==
  ASSUME NEW s \in Seq(Height), NEW h \in Height, NEW p \in 0 .. Len(s)
  PROVE  LET t == InsertAt(s, p + 1, h)
         IN  /\ t \in Seq(Height) /\ Len(t) = Len(s) + 1 /\ t[p + 1] = h
             /\ \A i \in 1 .. p : t[i] = s[i]
             /\ \A i \in p + 1 .. Len(s) : t[i + 1] = s[i]
<1>0. Len(s) \in Nat /\ \A i \in 1 .. Len(s) : s[i] \in Height
  OBVIOUS
<1> DEFINE a == SubSeq(s, 1, (p + 1) - 1)
           b == SubSeq(s, p + 1, Len(s))
           u == a \o <<h>>
           t == u \o b
<1>1. a \in Seq(Height) /\ Len(a) = p /\ \A i \in 1 .. p : a[i] = s[i]
  BY <1>0
<1>2. b \in Seq(Height) /\ Len(b) = Len(s) - p /\ \A i \in 1 .. Len(s) - p : b[i] = s[p + i]
  BY <1>0
<1> HIDE DEF a, b
<1>3. u \in Seq(Height) /\ Len(u) = p + 1 /\ u[p + 1] = h /\ \A i \in 1 .. p : u[i] = s[i]
  BY <1>0, <1>1
<1> HIDE DEF u
<1>4. /\ t \in Seq(Height) /\ Len(t) = Len(s) + 1
      /\ \A i \in 1 .. Len(s) + 1 : t[i] = IF i <= p + 1 THEN u[i] ELSE b[i - (p + 1)]
  <2>1. /\ u \o b \in Seq(Height) /\ Len(u \o b) = Len(u) + Len(b)
        /\ \A i \in 1 .. Len(u) + Len(b) : (u \o b)[i] = IF i <= Len(u) THEN u[i] ELSE b[i - Len(u)]
    BY <1>2, <1>3, ConcatProperties, Zenon
  <2>2. Len(u) + Len(b) = Len(s) + 1
    BY <1>0, <1>2, <1>3
  <2> QED
    BY <1>3, <2>1, <2>2, Zenon
<1> HIDE DEF t
<1>5. t[p + 1] = h /\ \A i \in 1 .. p : t[i] = s[i]
  BY <1>0, <1>3, <1>4
<1>6. ASSUME NEW i \in p + 1 .. Len(s) PROVE t[i + 1] = s[i]
  <2>1. i + 1 \in 1 .. Len(s) + 1 /\ ~(i + 1 <= p + 1) /\ (i + 1) - (p + 1) \in 1 .. Len(s) - p
        /\ p + ((i + 1) - (p + 1)) = i
    BY <1>0
  <2>2. t[i + 1] = b[(i + 1) - (p + 1)]
    BY <1>4, <2>1
  <2> QED
    BY <1>2, <2>1, <2>2
<1>7. t = InsertAt(s, p + 1, h)
  BY DEF t, u, a, b, InsertAt
<1> QED
  BY <1>4, <1>5, <1>6, <1>7

\* The front of a list is its least height; without it the order is kept.
LEMMA TailOfList ==
  ASSUME NEW t \in Seq(Height), Ascending(t), Len(t) > 0
  PROVE  /\ Tail(t) \in Seq(Height) /\ Len(Tail(t)) = Len(t) - 1 /\ Ascending(Tail(t))
         /\ ToSet(Tail(t)) = ToSet(t) \ {Head(t)}
         /\ Head(t) = t[1] /\ Head(t) \in ToSet(t) /\ \A y \in ToSet(t) : Head(t) <= y
<1>0. /\ Len(t) \in Nat /\ DOMAIN t = 1 .. Len(t) /\ 1 \in 1 .. Len(t)
      /\ \A i \in 1 .. Len(t) : t[i] \in Nat
  BY ListBasics
<1>1. /\ Tail(t) \in Seq(Height) /\ Len(Tail(t)) = Len(t) - 1
      /\ \A i \in 1 .. Len(t) - 1 : Tail(t)[i] = t[i + 1]
      /\ Head(t) = t[1]
  <2>1. t # <<>>
    OBVIOUS
  <2> QED
    BY <2>1, HeadTailProperties
<1>2. DOMAIN Tail(t) = 1 .. Len(t) - 1
  BY <1>1, LenProperties
<1>3. Ascending(Tail(t))
  <2> SUFFICES ASSUME NEW i \in 1 .. Len(t) - 1, NEW j \in 1 .. Len(t) - 1, i < j
               PROVE  Tail(t)[i] < Tail(t)[j]
    BY <1>2 DEF Ascending
  <2>1. i + 1 \in DOMAIN t /\ j + 1 \in DOMAIN t /\ i + 1 < j + 1
    BY <1>0
  <2>2. t[i + 1] < t[j + 1]
    BY <2>1 DEF Ascending
  <2> QED
    BY <1>1, <2>2
<1>4. \A i \in 2 .. Len(t) : t[1] < t[i]
  BY <1>0 DEF Ascending
<1>5. ToSet(Tail(t)) \subseteq ToSet(t) \ {Head(t)}
  <2> SUFFICES ASSUME NEW i \in 1 .. Len(t) - 1
               PROVE  Tail(t)[i] \in ToSet(t) /\ Tail(t)[i] # Head(t)
    BY <1>2 DEF ToSet
  <2>1. i + 1 \in DOMAIN t /\ i + 1 \in 2 .. Len(t)
    BY <1>0
  <2>2. t[1] < t[i + 1] /\ t[1] \in Nat /\ t[i + 1] \in Nat
    BY <1>0, <1>4, <2>1
  <2>3. t[i + 1] # t[1]
    BY <2>2
  <2> QED
    BY <1>1, <2>1, <2>3 DEF ToSet
<1>6. ToSet(t) \ {Head(t)} \subseteq ToSet(Tail(t))
  <2> SUFFICES ASSUME NEW i \in 1 .. Len(t), t[i] # t[1]
               PROVE  t[i] \in ToSet(Tail(t))
    BY <1>0, <1>1 DEF ToSet
  <2>1. i # 1
    OBVIOUS
  <2>2. i - 1 \in 1 .. Len(t) - 1 /\ (i - 1) + 1 = i
    BY <1>0, <2>1
  <2>3. Tail(t)[i - 1] = t[i]
    BY <1>1, <2>2
  <2> QED
    BY <1>2, <2>2, <2>3 DEF ToSet
<1>7. Head(t) \in ToSet(t) /\ \A y \in ToSet(t) : Head(t) <= y
  <2>1. \A i \in 1 .. Len(t) : t[1] <= t[i]
    BY <1>0, <1>4
  <2> QED
    BY <1>0, <1>1, <2>1 DEF ToSet
<1> QED
  BY <1>1, <1>3, <1>5, <1>6, <1>7

----------------------------------------------------------------------------
\* What add does to its window.
Added(k, h) ==
  /\ heights'[k] \in Seq(Height) /\ Len(heights'[k]) <= NAVG
  /\ Ascending(heights'[k]) /\ ToSet(heights'[k]) = index'[k]
  /\ Cardinality(index'[k]) = Len(heights'[k])
  /\ index'[k] = Top(index[k] \cup {h})
  /\ index[k] \ index'[k] = {removed'} \ {0}

\* addBlock on one window leaves the other one alone.
LEMMA AddStep ==
  ASSUME BlockWindowInv, NEW k \in Kinds, NEW h \in Height, AddBlock(k, h)
  PROVE  /\ Added(k, h)
         /\ \A j \in Kinds \ {k} : heights'[j] = heights[j] /\ index'[j] = index[j]
         /\ heights' \in [Kinds -> Seq(Height)] /\ index' \in [Kinds -> SUBSET Height]
<1> DEFINE s == heights[k]
           I == index[k]
           S == I \cup {h}
           p == PositionOf(s, h)
<1>0. /\ s \in Seq(Height) /\ Len(s) <= NAVG /\ Ascending(s) /\ ToSet(s) = I
      /\ Cardinality(I) = Len(s) /\ I \subseteq Height
      /\ heights \in [Kinds -> Seq(Height)] /\ index \in [Kinds -> SUBSET Height]
  BY DEF BlockWindowInv, Window
<1>1. /\ Len(s) \in Nat /\ DOMAIN s = 1 .. Len(s) /\ h \in Nat /\ h # 0
      /\ \A i \in 1 .. Len(s) : s[i] \in Height /\ s[i] \in Nat
  BY <1>0, ListBasics, HeightsAreNat
<1>2. PICK n \in Nat : S \subseteq 0 .. n
  <2>1. PICK n0 \in Nat : offered[k] \subseteq 0 .. n0
    BY DEF BlockWindowInv, Window
  <2>2. I \subseteq 0 .. n0
    BY <2>1 DEF BlockWindowInv, Window, Top
  <2>3. n0 + h \in Nat /\ 0 .. n0 \subseteq 0 .. (n0 + h) /\ h \in 0 .. (n0 + h)
    BY <1>1
  <2> QED
    BY <2>2, <2>3
<1>3. IsFiniteSet(I) /\ (h \notin I => Cardinality(S) = Len(s) + 1)
  <2>1. IsFiniteSet(I)
    BY <1>2, BoundedCardinality
  <2> QED
    BY <1>0, <2>1, FS_AddElement
<1>4. /\ p \in 0 .. Len(s)
      /\ \A i \in 1 .. p : s[i] < h
      /\ h \notin I => \A i \in p + 1 .. Len(s) : h < s[i]
  <2>1. /\ p \in 0 .. Len(s) /\ \A i \in 1 .. p : s[i] < h
        /\ \A i \in p + 1 .. Len(s) : s[i] >= h
    BY <1>0, PositionSplits
  <2>2. ASSUME h \notin I, NEW i \in p + 1 .. Len(s) PROVE h < s[i]
    <3>1. i \in 1 .. Len(s) /\ s[i] >= h
      BY <1>1, <2>1
    <3>2. s[i] \in I
      BY <1>0, <1>1, <3>1 DEF ToSet
    <3> QED
      BY <1>1, <2>2, <3>1, <3>2
  <2> QED
    BY <2>1, <2>2
<1>5. CASE Known(k, h)
  <2>1. h \in I /\ heights' = heights /\ index' = index /\ removed' = 0
    BY <1>5 DEF Known
  <2>2. Top(S) = I
    <3>1. S = I
      BY <2>1
    <3> QED
      BY <1>0, <1>2, <3>1, TopOfFew
  <2> QED
    BY <1>0, <2>1, <2>2 DEF Added
<1>6. CASE Insert(k, h)
  <2> DEFINE t == InsertAt(s, p + 1, h)
  <2>1. h \notin I /\ p > 0
    BY <1>6 DEF Insert
  <2>2. /\ t \in Seq(Height) /\ Len(t) = Len(s) + 1 /\ t[p + 1] = h
        /\ \A i \in 1 .. p : t[i] = s[i]
        /\ \A i \in p + 1 .. Len(s) : t[i + 1] = s[i]
    BY <1>0, <1>4, InsertAtList
  <2>3. /\ IF Overfull(t)
             THEN /\ heights' = [heights EXCEPT ![k] = Tail(t)]
                  /\ index' = [index EXCEPT ![k] = S \ {Head(t)}]
                  /\ removed' = Head(t)
             ELSE /\ heights' = [heights EXCEPT ![k] = t]
                  /\ index' = [index EXCEPT ![k] = S]
                  /\ removed' = 0
    BY <1>6 DEF Insert, OldHeight
  <2>4. t[1] \in I
    <3>1. 1 \in 1 .. p /\ 1 \in 1 .. Len(s)
      BY <1>1, <1>4, <2>1
    <3> QED
      BY <1>0, <1>1, <2>2, <3>1 DEF ToSet
  <2> HIDE DEF t, p, s, I
  <2>5. Ascending(t) /\ ToSet(t) = S
    <3>1. Between(s, t, p, h)
      BY <1>4, <2>1, <2>2 DEF Between
    <3>2. Ascending(t) /\ ToSet(t) = ToSet(s) \cup {h}
      BY <1>0, <2>2, <3>1, Spliced
    <3> QED
      BY <1>0, <3>2
  <2>6. Cardinality(S) = Len(t)
    BY <1>3, <2>1, <2>2
  <2>7. CASE Overfull(t)
    <3>1. Len(t) = NAVG + 1 /\ Len(t) > 0
      BY <1>0, <1>1, <2>2, <2>7, NAVGAssumption DEF Overfull
    <3>2. /\ Tail(t) \in Seq(Height) /\ Len(Tail(t)) = NAVG /\ Ascending(Tail(t))
          /\ ToSet(Tail(t)) = S \ {Head(t)}
          /\ Head(t) = t[1] /\ Head(t) \in S /\ \A y \in S : Head(t) <= y
      <4>1. (NAVG + 1) - 1 = NAVG
        BY NAVGAssumption
      <4> QED
        BY <2>2, <2>5, <3>1, <4>1, TailOfList
    <3>3. Top(S) = S \ {Head(t)}
      BY <1>2, <2>6, <3>1, <3>2, TopDropsLeast
    <3>4. IsFiniteSet(S) /\ Cardinality(S \ {Head(t)}) = NAVG
      <4>1. IsFiniteSet(S)
        BY <1>2, BoundedCardinality
      <4>2. Cardinality(S \ {Head(t)}) = Cardinality(S) - 1
        BY <3>2, <4>1, FS_RemoveElement
      <4> QED
        BY <2>6, <3>1, <4>1, <4>2, NAVGAssumption
    <3>5. heights'[k] = Tail(t) /\ index'[k] = S \ {Head(t)} /\ removed' = Head(t)
      BY <1>0, <2>3, <2>7
    <3>6. I \ (S \ {Head(t)}) = {Head(t)} \ {0}
      <4>1. Head(t) \in I /\ Head(t) # 0
        BY <1>0, <2>4, <3>2, HeightsAreNat
      <4> QED
        BY <4>1
    <3>7. Len(Tail(t)) <= NAVG
      BY <3>2, NAVGAssumption
    <3>8. Added(k, h)
      BY <3>2, <3>3, <3>4, <3>5, <3>6, <3>7, Zenon DEF Added, I
    <3>9. S \ {Head(t)} \in SUBSET Height
      BY <1>0
    <3>10. heights' = [heights EXCEPT ![k] = Tail(t)] /\ index' = [index EXCEPT ![k] = S \ {Head(t)}]
      BY <2>3, <2>7
    <3> QED
      BY <1>0, <3>2, <3>8, <3>9, <3>10
  <2>8. CASE ~Overfull(t)
    <3>1. Len(t) <= NAVG
      BY <1>1, <2>2, <2>8, NAVGAssumption DEF Overfull
    <3>2. Top(S) = S
      BY <1>2, <2>6, <3>1, TopOfFew
    <3>3. heights'[k] = t /\ index'[k] = S /\ removed' = 0
      BY <1>0, <2>3, <2>8
    <3>4. Added(k, h)
      BY <2>2, <2>5, <2>6, <3>1, <3>2, <3>3 DEF Added, I
    <3>5. heights' = [heights EXCEPT ![k] = t] /\ index' = [index EXCEPT ![k] = S]
      BY <2>3, <2>8
    <3>6. S \in SUBSET Height
      BY <1>0
    <3> HIDE DEF S
    <3> QED
      BY <1>0, <2>2, <3>4, <3>5, <3>6
  <2> QED
    BY <2>7, <2>8
<1>7. CASE PushFront(k, h)
  <2>1. h \notin I /\ p = 0 /\ removed' = 0
    BY <1>7 DEF PushFront
  <2>2. \A i \in 1 .. Len(s) : h < s[i]
    BY <1>4, <2>1
  <2>3. CASE Room(k)
    <3> DEFINE t == <<h>> \o s
    <3>1. heights' = [heights EXCEPT ![k] = t] /\ index' = [index EXCEPT ![k] = S]
      BY <1>7, <2>3 DEF PushFront
    <3>2. /\ t \in Seq(Height) /\ Len(t) = Len(s) + 1 /\ t[1] = h
          /\ \A i \in 1 .. Len(s) : t[i + 1] = s[i]
      BY <1>0, <1>1
    <3>3. Len(t) <= NAVG
      BY <1>1, <2>3, <3>2, NAVGAssumption DEF Room
    <3> HIDE DEF t, s, I
    <3>4. Ascending(t) /\ ToSet(t) = S
      <4>1. Between(s, t, 0, h)
        BY <1>1, <2>2, <3>2 DEF Between
      <4>2. Ascending(t) /\ ToSet(t) = ToSet(s) \cup {h}
        BY <1>0, <3>2, <4>1, Spliced
      <4> QED
        BY <1>0, <4>2
    <3>5. Cardinality(S) = Len(t) /\ Top(S) = S
      <4>1. Cardinality(S) = Len(t)
        BY <1>3, <2>1, <3>2
      <4> QED
        BY <1>2, <3>3, <4>1, TopOfFew
    <3>6. heights'[k] = t /\ index'[k] = S
      BY <1>0, <3>1
    <3>7. Added(k, h)
      BY <2>1, <3>2, <3>3, <3>4, <3>5, <3>6 DEF Added, I
    <3> QED
      BY <1>0, <3>1, <3>2, <3>7
  <2>4. CASE ~Room(k)
    <3>1. heights' = heights /\ index' = index
      BY <1>7, <2>4 DEF PushFront
    <3>2. Len(s) = NAVG
      BY <1>0, <1>1, <2>4, NAVGAssumption DEF Room
    <3>3. \A y \in S : h <= y
      <4>1. \A y \in I : h <= y
        BY <1>0, <1>1, <2>2 DEF ToSet
      <4> QED
        BY <1>1, <4>1
    <3>4. Top(S) = S \ {h}
      BY <1>2, <1>3, <2>1, <3>2, <3>3, TopDropsLeast
    <3>5. S \ {h} = I
      BY <2>1
    <3> QED
      BY <1>0, <2>1, <3>1, <3>4, <3>5 DEF Added
  <2> QED
    BY <2>3, <2>4
<1> QED
  BY <1>5, <1>6, <1>7 DEF AddBlock

----------------------------------------------------------------------------
\* The two windows' Greatest is the Top of this module.
LEMMA TopIsGreatest == \A S : Slow!Greatest(S, NAVG) = Top(S) /\ Fast!Greatest(S, NAVG) = Top(S)
<1>1. \A S : Slow!Cardinality(S) = Cardinality(S) /\ Fast!Cardinality(S) = Cardinality(S)
  BY Zenon DEF Slow!Cardinality, Fast!Cardinality, Cardinality
<1> QED
  BY <1>1, Zenon DEF Slow!Greatest, Fast!Greatest, Top

\* The inductive invariant holds.
THEOREM BlockWindowInvariant == Spec => []BlockWindowInv
<1>1. Init => BlockWindowInv
  <2> SUFFICES ASSUME Init PROVE BlockWindowInv
    OBVIOUS
  <2>1. \A k \in Kinds : heights[k] = <<>> /\ index[k] = {} /\ offered[k] = {}
    BY DEF Init
  <2>2. <<>> \in Seq(Height) /\ Len(<<>>) = 0 /\ Ascending(<<>>) /\ ToSet(<<>>) = {}
    BY DEF Ascending, ToSet
  <2>3. Top({}) = {} /\ Cardinality({}) = 0 /\ {} \subseteq 0 .. 0 /\ 0 \in Nat /\ 0 <= NAVG
    BY FS_EmptySet, NAVGAssumption DEF Top
  <2>4. ASSUME NEW k \in Kinds PROVE Window(k)
    BY <2>1, <2>2, <2>3 DEF Window
  <2> QED
    BY <2>2, <2>4 DEF Init, BlockWindowInv
<1>2. BlockWindowInv /\ [Next]_vars => BlockWindowInv'
  <2> SUFFICES ASSUME BlockWindowInv, [Next]_vars PROVE BlockWindowInv'
    OBVIOUS
  <2>1. CASE UNCHANGED vars
    BY <2>1 DEF vars, BlockWindowInv, Window
  <2>2. CASE Next
    <3>1. PICK k \in Kinds, h \in Height : AddBlock(k, h)
      BY <2>2 DEF Next
    <3>2. /\ Added(k, h)
          /\ \A j \in Kinds \ {k} : heights'[j] = heights[j] /\ index'[j] = index[j]
          /\ heights' \in [Kinds -> Seq(Height)] /\ index' \in [Kinds -> SUBSET Height]
      BY <3>1, AddStep
    <3>3. /\ offered' \in [Kinds -> SUBSET Height] /\ offered'[k] = offered[k] \cup {h}
          /\ \A j \in Kinds \ {k} : offered'[j] = offered[j]
      BY <3>1 DEF AddBlock, BlockWindowInv
    <3>4. PICK n \in Nat : offered'[k] \subseteq 0 .. n
      <4>1. PICK n0 \in Nat : offered[k] \subseteq 0 .. n0
        BY DEF BlockWindowInv, Window
      <4>2. n0 + h \in Nat /\ 0 .. n0 \subseteq 0 .. (n0 + h) /\ h \in 0 .. (n0 + h)
        BY HeightsAreNat
      <4> QED
        BY <3>3, <4>1, <4>2
    <3>5. index'[k] = Top(offered'[k])
      <4>1. index[k] = Top(offered[k])
        BY DEF BlockWindowInv, Window
      <4>2. offered[k] \subseteq 0 .. n /\ h \in 0 .. n
        BY <3>3, <3>4
      <4>3. Top(offered[k] \cup {h}) = Top(Top(offered[k]) \cup {h})
        BY <4>2, TopIncremental
      <4> QED
        BY <3>2, <3>3, <4>1, <4>3 DEF Added
    <3>6. Window(k)'
      BY <3>2, <3>3, <3>4, <3>5 DEF Window, Added
    <3>7. ASSUME NEW j \in Kinds \ {k} PROVE Window(j)'
      BY <3>2, <3>3 DEF Window, BlockWindowInv
    <3> QED
      BY <3>2, <3>3, <3>6, <3>7 DEF BlockWindowInv
  <2> QED
    BY <2>1, <2>2
<1> QED
  BY <1>1, <1>2, PTL DEF Spec

\* The list blocks.add keeps is sorted and holds what its index says, so that
\* Front is the oldest block and wasSlowBlock answers for the list.
THEOREM ListsMatch == Spec => []ListMatchesIndex
<1>1. BlockWindowInv => ListMatchesIndex
  BY DEF BlockWindowInv, Window, Ascending, ListMatchesIndex
<1> QED
  BY <1>1, BlockWindowInvariant, PTL

\* However out of order AddBlock is called, a window holds the NAVG greatest
\* heights of all calls.
THEOREM Remembers == Spec => []RemembersGreatest
<1>1. BlockWindowInv => RemembersGreatest
  BY TopIsGreatest DEF BlockWindowInv, Window, RemembersGreatest
<1> QED
  BY <1>1, BlockWindowInvariant, PTL

\* newBlock is told of exactly the height that leaves a window.
THEOREM RemovalsReported == Spec => RemovedIsReported
<1> DEFINE Reported == UNION {index[k] \ index'[k] : k \in Kinds} = {removed'} \ {0}
<1>1. ASSUME BlockWindowInv, Next PROVE Reported
  <2>1. PICK k \in Kinds, h \in Height : AddBlock(k, h)
    BY <1>1 DEF Next
  <2>2. /\ index[k] \ index'[k] = {removed'} \ {0}
        /\ \A j \in Kinds \ {k} : index'[j] = index[j]
    BY <1>1, <2>1, AddStep DEF Added
  <2>3. \A j \in Kinds \ {k} : index[j] \ index'[j] = {}
    BY <2>2
  <2> QED
    BY <2>2, <2>3
<1>2. BlockWindowInv /\ [Next]_vars => [Reported]_vars
  BY <1>1
<1> QED
  BY <1>2, BlockWindowInvariant, PTL DEF Spec, RemovedIsReported

\* Each window implements TopWindow: cache.AddBlock is an offer to one of them.
THEOREM WindowsImplement == Spec => WindowsRefine
<1>1. Init => Slow!Init /\ Fast!Init
  BY DEF Init, Kinds, Slow!Init, Fast!Init
<1>2. ASSUME BlockWindowInv, [Next]_vars
      PROVE  [Slow!Next]_(index["slow"]) /\ [Fast!Next]_(index["fast"])
  <2>1. CASE UNCHANGED vars
    BY <2>1 DEF vars
  <2>2. CASE Next
    <3>1. PICK k \in Kinds, h \in Height : AddBlock(k, h)
      BY <2>2 DEF Next
    <3>2. /\ index'[k] = Top(index[k] \cup {h})
          /\ \A j \in Kinds \ {k} : index'[j] = index[j]
      BY <1>2, <3>1, AddStep DEF Added
    <3>3. CASE k = "slow"
      <4>1. Slow!Offer(h)
        BY <3>2, <3>3, TopIsGreatest DEF Slow!Offer
      <4>2. index'["fast"] = index["fast"]
        BY <3>2, <3>3 DEF Kinds
      <4> QED
        BY <4>1, <4>2 DEF Slow!Next
    <3>4. CASE k = "fast"
      <4>1. Fast!Offer(h)
        BY <3>2, <3>4, TopIsGreatest DEF Fast!Offer
      <4>2. index'["slow"] = index["slow"]
        BY <3>2, <3>4 DEF Kinds
      <4> QED
        BY <4>1, <4>2 DEF Fast!Next
    <3> QED
      BY <3>3, <3>4 DEF Kinds
  <2> QED
    BY <1>2, <2>1, <2>2
<1>3. BlockWindowInv /\ [Next]_vars => [Slow!Next]_(index["slow"]) /\ [Fast!Next]_(index["fast"])
  BY <1>2
<1> QED
  BY <1>1, <1>3, BlockWindowInvariant, PTL DEF Spec, WindowsRefine, Slow!Spec, Fast!Spec
=============================================================================
