---------------------------- MODULE BlockWindow ----------------------------
(***************************************************************************)
(* The two windows of modelx.cache that remember the last NAVG slow and    *)
(* the last NAVG fast blocks: sorted linked lists with an index.  Heights  *)
(* arrive out of order (a late submission may open a block below the       *)
(* current one, a restart loads them descending), and the height a window  *)
(* drops is the one whose deadlines newBlock removes from every miner.     *)
(***************************************************************************)
EXTENDS Integers, FiniteSets, FiniteSetsExt, Sequences, SequencesExt

CONSTANTS Height,  \* block heights, from 1
          NAVG     \* Cfg.NAVG, the length of each window

ASSUME NAVGAssumption == NAVG \in Nat \ {0}
ASSUME HeightAssumption == Height \subseteq Nat \ {0}

VARIABLES
  heights,  \* heights[k]: the list of window k, front first
  index,    \* index[k]: the keys of its map
  offered,  \* history: every height ever offered to window k
  removed   \* what the last AddBlock returned

vars == <<heights, index, offered, removed>>

Kinds == {"slow", "fast"}

\* InitCache.
Init ==
  /\ heights = [k \in Kinds |-> <<>>]
  /\ index = [k \in Kinds |-> {}]
  /\ offered = [k \in Kinds |-> {}]
  /\ removed = 0

\* Mutant: the walk stops at the first element that is not smaller.
PositionOfFirst(list, h) ==
  IF \A i \in DOMAIN list : list[i] < h THEN Len(list)
  ELSE Min({i \in DOMAIN list : list[i] >= h})

\* The element the walk from the back stops at, 0 if it runs off the front.
PositionOf(list, h) ==
  IF \E i \in DOMAIN list : list[i] < h THEN Max({i \in DOMAIN list : list[i] < h}) ELSE 0

\* Mutant: the window is allowed one height too many.
OverfullLate(list) == Len(list) > NAVG + 1

Overfull(list) == Len(list) > NAVG

\* The height found among the elements is not added again.
Known(k, h) ==
  /\ h \in index[k]
  /\ removed' = 0
  /\ UNCHANGED <<heights, index>>

\* Mutant: an overfull list is cut without telling the caller.
OldHeightSilent(list) == 0

\* What the caller is told when the front of a list goes.
OldHeight(list) == Head(list)

\* InsertAfter, and out goes the front of an overfull list.
Insert(k, h) ==
  LET pos  == PositionOf(heights[k], h)
      list == InsertAt(heights[k], pos + 1, h)
  IN  /\ h \notin index[k]
      /\ pos > 0
      /\ IF Overfull(list)
           THEN /\ heights' = [heights EXCEPT ![k] = Tail(list)]
                /\ index' = [index EXCEPT ![k] = (@ \cup {h}) \ {Head(list)}]
                /\ removed' = OldHeight(list)
           ELSE /\ heights' = [heights EXCEPT ![k] = list]
                /\ index' = [index EXCEPT ![k] = @ \cup {h}]
                /\ removed' = 0

\* Mutant: the smallest height is pushed to the front of a full list as well.
RoomAlways(k) == TRUE

Room(k) == NAVG > Len(heights[k])

\* A height below all others is pushed to the front if there is room.
PushFront(k, h) ==
  /\ h \notin index[k]
  /\ PositionOf(heights[k], h) = 0
  /\ IF Room(k)
       THEN /\ heights' = [heights EXCEPT ![k] = <<h>> \o @]
            /\ index' = [index EXCEPT ![k] = @ \cup {h}]
       ELSE UNCHANGED <<heights, index>>
  /\ removed' = 0

\* AddBlock: the generation time decides the window; add runs under its lock.
AddBlock(k, h) ==
  /\ Known(k, h) \/ Insert(k, h) \/ PushFront(k, h)
  /\ offered' = [offered EXCEPT ![k] = @ \cup {h}]

Next == \E k \in Kinds, h \in Height : AddBlock(k, h)

Spec == Init /\ [][Next]_vars

----------------------------------------------------------------------------
Slow == INSTANCE TopWindow WITH window <- index["slow"], Size <- NAVG
Fast == INSTANCE TopWindow WITH window <- index["fast"], Size <- NAVG

\* Each window implements TopWindow: whatever the order of arrival, what is
\* dropped is the smallest height and what is refused is below all others.
WindowsRefine == Slow!Spec /\ Fast!Spec

\* The list is strictly ascending and agrees with the index, so the front is
\* the oldest height and a lookup tells what the list holds.
ListMatchesIndex ==
  \A k \in Kinds :
    /\ \A i, j \in DOMAIN heights[k] : i < j => heights[k][i] < heights[k][j]
    /\ ToSet(heights[k]) = index[k]

\* The window is the NAVG greatest heights of the whole history, not only of
\* what it held a step before.
RemembersGreatest == \A k \in Kinds : index[k] = Slow!Greatest(offered[k], NAVG)

\* The caller learns of every height that leaves a window and of no other:
\* newBlock takes exactly the returned height out of the miners' deadlines.
RemovedIsReported ==
  [][UNION {index[k] \ index'[k] : k \in Kinds} = {removed'} \ {0}]_vars
=============================================================================
