---------------------------- MODULE RoundsProofs ----------------------------
(***************************************************************************)
(* Rounds and deadlines: types, windows, the agreement of memory and       *)
(* database, who waits for whom, and what makes newBlock panic, for any    *)
(* submissions, miners, heights and window lengths.                        *)
(***************************************************************************)
EXTENDS Rounds, FiniteSetTheorems, WellFoundedInduction, TLAPS

ObjType == [cur : 0 .. MaxHeight, params : SUBSET Height,
            dl : [Height -> 0 .. MaxDeadline], sum : Int]
ReqType == [pc : {"idle", "enter", "old", "open", "insert", "done"},
            miner : Miners \cup {None}, o : 0 .. MaxObjects,
            h : 0 .. MaxHeight, d : 0 .. MaxDeadline]
CallType == [pc : {"idle", "read", "lock", "row", "range"}, h : 0 .. MaxHeight,
             old : 0 .. MaxHeight, removed : 0 .. MaxHeight,
             todo : SUBSET Objects, seen : SUBSET Objects]

\* TypeOK with the records named.
Types ==
  /\ chain \in Height /\ cur \in Height
  /\ slow \subseteq Height /\ fast \subseteq Height /\ blocks \subseteq Height
  /\ rows \in [Miners -> [Height -> 0 .. MaxDeadline]]
  /\ obj \in [Objects -> ObjType]
  /\ used \in 0 .. MaxObjects /\ cache \in [Miners -> 0 .. MaxObjects]
  /\ req \in [Reqs -> ReqType] /\ call \in [Procs -> CallType]
  /\ mu \in Procs \cup {None} /\ panicked \in BOOLEAN /\ lost \subseteq Height

\* A running submission has a miner, an allocated object, a height and a
\* deadline; one that is not running holds no object.
ReqOK(r) ==
  IF req[r].pc \in {"idle", "done"} THEN req[r].o = 0
  ELSE /\ req[r].miner \in Miners /\ req[r].o \in Objects
       /\ req[r].h \in Height /\ req[r].d \in 1 .. MaxDeadline

\* The holder of newBlockMu is about to insert a row or goes through the miners.
Opening == {"row", "range"}

\* A call for a new block has a height, and the submission that made it waits
\* for it; only the holder of newBlockMu opens a block.
CallOK(p) ==
  call[p].pc # "idle" =>
    /\ call[p].h \in Height
    /\ p \in Reqs => req[p].pc = "open"
    /\ call[p].pc \in Opening => mu = p

ProcInv == (\A r \in Reqs : ReqOK(r)) /\ (\A p \in Procs : CallOK(p))

\* The current block has its row and is in no window while no block is being
\* opened; the one being opened, if it is the newer, is in no window, and once
\* it has its row it is not the current one.
WindowInv ==
  /\ WindowsConsistent
  /\ cur \in blocks
  /\ mu = None => cur \notin slow \cup fast
  /\ \A p \in Procs : call[p].pc \in Opening =>
       /\ call[p].h > cur => call[p].h \notin slow \cup fast
       /\ call[p].h < cur => cur \notin slow \cup fast
       /\ call[p].pc = "range" => call[p].h \in blocks /\ call[p].h # cur

\* Who may still write through an object: its miner's entry of the cache, and
\* handlers that got it from there.
Held(m, o) == o # 0 /\ (cache[m] = o \/ \E r \in Reqs : req[r].o = o /\ req[r].miner = m)

\* An object keeps a deadline (dl is not 0) only for rows it inserted itself,
\* so no two objects of a miner keep one for the same height, and what it keeps
\* is the row.
MemoryInv ==
  /\ \A o \in Objects :
       /\ o > used => obj[o] = NewMiner
       /\ \A h \in obj[o].params \cup ({obj[o].cur} \ {0}) : obj[o].dl[h] # 0
  /\ \A r \in Reqs : req[r].pc = "old" => obj[req[r].o].dl[req[r].h] # 0
  /\ \A m \in Miners, o \in Objects : Held(m, o) =>
       /\ o <= used
       /\ \A n \in Miners : Held(n, o) => m = n
       /\ \A h \in Height : obj[o].dl[h] # 0 =>
            /\ obj[o].dl[h] = rows[m][h]
            /\ \A other \in Objects : Held(m, other) /\ other # o => obj[other].dl[h] = 0

\* A submission that waits for a call has one, the holder of newBlockMu opens a
\* block, and a miner it has still to see is still in the cache, for nobody else
\* deletes one meanwhile.
WaitInv ==
  /\ \A r \in Reqs : req[r].pc = "open" => call[r].pc # "idle"
  /\ mu # None => call[mu].pc \in Opening
  /\ \A p \in Procs : call[p].pc = "range" =>
       \A o \in call[p].todo \ call[p].seen : \E m \in Miners : cache[m] = o

\* The current block, or the one that is just being opened to be it.
Upcoming == IF mu # None /\ call[mu].h > cur THEN call[mu].h ELSE cur

\* The row that is due is there already.
Doomed == Due \cap blocks # {}

\* Otherwise every block row, and the one that is due, is of the upcoming block
\* or older, and then in a window, without a generation time, or too old to be
\* opened.
LostInv ==
  ~Doomed =>
    /\ \A h \in slow \cup fast : h < Upcoming
    /\ \A h \in blocks \cup Due :
         h = Upcoming \/ h \in slow \cup fast \cup lost \/ h < Upcoming - NAVG
    /\ \A h \in blocks \cup Due : h <= Upcoming

\* Why a row that is due may be there already; nothing else panics.
DoomInv ==
  /\ \A p \in Procs : call[p].pc = "row" /\ call[p].h \in blocks =>
       (call[p].h = cur /\ call[p].old # cur) \/ call[p].h \in lost
  /\ panicked => Doomed

RoundsInv == Types /\ ProcInv /\ WindowInv /\ MemoryInv /\ WaitInv /\ LostInv /\ DoomInv

----------------------------------------------------------------------------
\* A nonempty set of natural numbers has a least element.
LEMMA LeastExists ==
  ASSUME NEW S, S \subseteq Nat, S # {}
  PROVE  \E x \in S : \A y \in S : x <= y
<1>1. \E x \in S : \A y \in S : ~(<<y, x>> \in OpToRel(<, Nat))
  BY NatLessThanWellFounded, WFMin
<1>2. ASSUME NEW x \in S, NEW y \in S, ~(<<y, x>> \in OpToRel(<, Nat)) PROVE x <= y
  <2>1. ~(y < x)
    BY <1>2, Zenon DEF OpToRel
  <2> QED
    BY <2>1
<1> QED
  BY <1>1, <1>2

\* A nonempty bounded one has a greatest element, and Max is it.
LEMMA MaxOfBounded ==
  ASSUME NEW n \in Nat, NEW S, S \subseteq 0 .. n, S # {}
  PROVE  Max(S) \in S /\ \A y \in S : Max(S) >= y
<1> DEFINE D == {n - x : x \in S}
<1>1. PICK d \in D : \A e \in D : d <= e
  <2>1. D \subseteq Nat
    OBVIOUS
  <2>2. D # {}
    OBVIOUS
  <2> QED
    BY <2>1, <2>2, LeastExists
<1>2. PICK x \in S : d = n - x
  OBVIOUS
<1>3. \A y \in S : x >= y
  BY <1>1, <1>2
<1> QED
  BY <1>2, <1>3 DEF Max

\* A window keeps only heights it has or is given.
LEMMA WindowSubset ==
  ASSUME NEW S, NEW h
  PROVE  W!Greatest(S \cup {h}, NAVG) \subseteq S \cup {h}
  BY DEF W!Greatest

\* What a step may do to the windows: heights go, and one may come.
LEMMA AddBlockSubset ==
  ASSUME NEW kind, NEW h, AddBlock(kind, h)
  PROVE  /\ slow' \subseteq slow \cup {h} /\ fast' \subseteq fast \cup {h}
         /\ slow' = slow \/ fast' = fast
  BY WindowSubset DEF AddBlock

----------------------------------------------------------------------------
\* TypeOK, part by part.
LEMMA TypeParts == (TypeOK <=> Types) /\ (TypeOK' <=> Types')
  BY Zenon DEF TypeOK, Types, ObjType, ReqType, CallType

\* The values calls, requests and objects begin with.
LEMMA IdleTypes == IdleCall \in CallType /\ IdleReq \in ReqType /\ NewMiner \in ObjType
  BY BoundsAssumption DEF IdleCall, CallType, IdleReq, ReqType, NewMiner, NoDeadlines, ObjType

\* A call that has read its block.
LEMMA ReadTypes ==
  ASSUME NEW h \in Height, NEW old \in Height
  PROVE  /\ [IdleCall EXCEPT !.pc = "read", !.h = h] \in CallType
         /\ [IdleCall EXCEPT !.pc = "lock", !.h = h, !.old = old] \in CallType
<1>1. h \in 0 .. MaxHeight /\ old \in 0 .. MaxHeight
  BY BoundsAssumption DEF Height
<1> QED
  BY <1>1, IdleTypes DEF CallType

\* What GetMiningInfo may say, and the poller's call.
LEMMA PollCall ==
  ASSUME Types, Poll
  PROVE  /\ call[Poller].pc = "idle"
         /\ call'[Poller].pc = "lock" /\ call'[Poller].h \in Height /\ call'[Poller].old = cur
         /\ \A q \in Procs \ {Poller} : call'[q] = call[q]
         /\ call' \in [Procs -> CallType]
<1>1. PICK h \in 1 .. chain :
        call' = [call EXCEPT ![Poller] = [IdleCall EXCEPT !.pc = "lock", !.h = h, !.old = cur]]
  BY DEF Poll
<1>2. h \in Height /\ cur \in Height /\ Poller \in Procs
  BY BoundsAssumption DEF Types, Height, Procs
<1> DEFINE new == [IdleCall EXCEPT !.pc = "lock", !.h = h, !.old = cur]
<1>3. new \in CallType /\ new.pc = "lock" /\ new.h = h /\ new.old = cur
  BY <1>2, ReadTypes DEF IdleCall
<1> HIDE DEF new
<1>4. call' = [call EXCEPT ![Poller] = new]
  BY <1>1 DEF new
<1> QED
  BY <1>2, <1>3, <1>4 DEF Types, Poll

\* addDeadlineParams and removeDeadlineParams.
LEMMA ObjectUpdates ==
  ASSUME NEW x \in ObjType, NEW h, slow \subseteq Height
  PROVE  LET y == Removed(Added(x), h)
         IN  /\ y \in ObjType
             /\ y.cur = x.cur /\ y.dl = x.dl
             /\ y.params \subseteq x.params \cup ({x.cur} \ {0})
<1>1. /\ Added(x) \in ObjType /\ Added(x).cur = x.cur /\ Added(x).dl = x.dl
      /\ Added(x).params \subseteq x.params \cup ({x.cur} \ {0})
  <2>1. CASE x.cur \in slow /\ x.cur \notin x.params
    <3>1. x.cur \in Height
      BY <2>1
    <3>2. x.cur # 0
      BY <3>1, BoundsAssumption DEF Height
    <3>3. x.params \cup {x.cur} \in SUBSET Height /\ x.sum + x.dl[x.cur] \in Int
      BY <3>1, BoundsAssumption DEF ObjType
    <3>4. Added(x) = [x EXCEPT !.params = x.params \cup {x.cur}, !.sum = x.sum + x.dl[x.cur]]
      BY <2>1 DEF Added, WasSlowBlock, ObjType
    <3>5. /\ Added(x) \in ObjType /\ Added(x).cur = x.cur /\ Added(x).dl = x.dl
          /\ Added(x).params = x.params \cup {x.cur}
      BY <3>3, <3>4 DEF ObjType
    <3> QED
      BY <3>2, <3>5
  <2>2. CASE ~(x.cur \in slow /\ x.cur \notin x.params)
    BY <2>2 DEF Added, WasSlowBlock
  <2> QED
    BY <2>1, <2>2
<1>2. ASSUME NEW y \in ObjType
      PROVE  /\ Removed(y, h) \in ObjType /\ Removed(y, h).cur = y.cur /\ Removed(y, h).dl = y.dl
             /\ Removed(y, h).params \subseteq y.params
  <2>1. CASE h \in y.params
    <3>1. y.params \ {h} \in SUBSET Height /\ y.sum - y.dl[h] \in Int
      BY <2>1, BoundsAssumption DEF ObjType
    <3>2. Removed(y, h) = [y EXCEPT !.params = y.params \ {h}, !.sum = y.sum - y.dl[h]]
      BY <2>1 DEF Removed, ObjType
    <3>3. /\ Removed(y, h) \in ObjType /\ Removed(y, h).cur = y.cur /\ Removed(y, h).dl = y.dl
          /\ Removed(y, h).params = y.params \ {h}
      BY <3>1, <3>2 DEF ObjType
    <3> QED
      BY <3>3
  <2>2. CASE h \notin y.params
    BY <2>2 DEF Removed
  <2> QED
    BY <2>1, <2>2
<1> QED
  BY <1>1, <1>2

\* What a better and a first deadline do to the object.
LEMMA ObjectDeadlines ==
  ASSUME NEW x \in ObjType, NEW h \in Height, NEW d \in 0 .. MaxDeadline,
         NEW y \in {[x EXCEPT !.dl[h] = d], Improved(x, h, d), Inserted(x, h, d)}
  PROVE  /\ y \in ObjType
         /\ y.dl = [x.dl EXCEPT ![h] = d]
         /\ y.params \cup {y.cur} \subseteq x.params \cup {x.cur, h}
<1> USE BoundsAssumption
<1> DEFINE D == [x.dl EXCEPT ![h] = d]
<1>1. D \in [Height -> 0 .. MaxDeadline]
  BY DEF ObjType
<1>2. CASE y = [x EXCEPT !.dl[h] = d]
  BY <1>2 DEF ObjType
<1>3. CASE y = Improved(x, h, d)
  <2>1. PICK s \in Int : y = [x EXCEPT !.sum = s, !.dl = D]
    <3>1. x.sum + d - x.dl[h] \in Int
      BY DEF ObjType
    <3>2. y = [x EXCEPT !.sum = x.sum + d - x.dl[h], !.dl = D]
      BY <1>3 DEF Improved, ObjType
    <3> QED
      BY <3>1, <3>2, Zenon
  <2> HIDE DEF D
  <2>2. y \in ObjType /\ y.dl = D
    BY <1>1, <2>1 DEF ObjType
  <2>3. y.params \cup {y.cur} \subseteq x.params \cup {x.cur, h}
    BY <2>1 DEF ObjType
  <2> QED
    BY <2>2, <2>3 DEF D
<1>4. CASE y = Inserted(x, h, d) /\ h > x.cur
  <2>1. y = [x EXCEPT !.cur = h, !.dl = D]
    BY <1>4 DEF Inserted, ObjType
  <2>2. h \in 0 .. MaxHeight
    BY DEF Height
  <2> HIDE DEF D
  <2>3. y \in ObjType /\ y.dl = D
    BY <1>1, <2>1, <2>2 DEF ObjType
  <2>4. y.params \cup {y.cur} \subseteq x.params \cup {x.cur, h}
    BY <2>1 DEF ObjType
  <2> QED
    BY <2>3, <2>4 DEF D
<1>5. CASE y = Inserted(x, h, d) /\ ~(h > x.cur)
  <2>1. PICK s \in Int, P \in SUBSET Height :
          P = x.params \cup {h} /\ y = [x EXCEPT !.sum = s, !.params = P, !.dl = D]
    <3>1. x.sum + d \in Int /\ x.params \cup {h} \in SUBSET Height
      BY DEF ObjType
    <3>2. y = [x EXCEPT !.sum = x.sum + d, !.params = x.params \cup {h}, !.dl = D]
      BY <1>5 DEF Inserted, ObjType
    <3> QED
      BY <3>1, <3>2, Zenon
  <2> HIDE DEF D
  <2>2. y \in ObjType /\ y.dl = D
    BY <1>1, <2>1 DEF ObjType
  <2>3. y.params \cup {y.cur} \subseteq x.params \cup {x.cur, h}
    BY <2>1 DEF ObjType
  <2> QED
    BY <2>2, <2>3 DEF D
<1> QED
  BY <1>2, <1>3, <1>4, <1>5

----------------------------------------------------------------------------
\* Every step keeps the types.
LEMMA TypesStep == Types /\ ProcInv /\ [Next]_vars => Types'
<1> SUFFICES ASSUME Types, ProcInv, [Next]_vars PROVE Types'
  OBVIOUS
<1> USE BoundsAssumption
<1>1. CASE ChainGrows
  BY <1>1 DEF ChainGrows, Types, Height
<1>2. CASE Poll
  BY <1>2, PollCall DEF Poll, Types
<1>3. ASSUME NEW p \in Procs, ReadOld(p) PROVE Types'
  <2>1. call' \in [Procs -> CallType]
    <3>1. call[p] \in CallType /\ cur \in 0 .. MaxHeight
      BY DEF Types, Height
    <3>2. [call[p] EXCEPT !.pc = "lock", !.old = cur] \in CallType
      BY <3>1 DEF CallType
    <3>3. call' = [call EXCEPT ![p] = [call[p] EXCEPT !.pc = "lock", !.old = cur]]
      BY <1>3 DEF ReadOld
    <3> QED
      BY <3>2, <3>3 DEF Types
  <2> QED
    BY <1>3, <2>1 DEF ReadOld, Types
<1>4. ASSUME NEW p \in Procs, Returned(p) PROVE req' \in [Reqs -> ReqType]
  BY <1>4 DEF Returned, Types, ReqType, Procs
<1>5. ASSUME NEW p \in Procs, NoNewBlock(p) PROVE Types'
  <2>1. call' \in [Procs -> CallType] /\ req' \in [Reqs -> ReqType]
    BY <1>4, <1>5, IdleTypes DEF NoNewBlock, Types
  <2> QED
    BY <1>5, <2>1 DEF NoNewBlock, Released, Types
<1>6. ASSUME NEW p \in Procs, FillWindow(p) PROVE Types'
  <2>1. call[p].h \in Height /\ call[p] \in CallType
    BY <1>6 DEF ProcInv, CallOK, FillWindow, Types
  <2>2. slow' \subseteq Height /\ fast' \subseteq Height
    <3>1. PICK h \in Height : \E kind : AddBlock(kind, h)
      <4>1. (IF Newer(p) THEN cur ELSE call[p].h) \in Height
        BY <2>1 DEF Types
      <4>2. \E kind \in {"slow", "fast", "failed"} :
              AddBlock(IF Newer(p) \/ kind # "failed" THEN kind ELSE "slow",
                       IF Newer(p) THEN cur ELSE call[p].h)
        BY <1>6, Zenon DEF FillWindow
      <4> QED
        BY <4>1, <4>2
    <3> QED
      BY <3>1, AddBlockSubset DEF Types
  <2>3. (IF Dropped = {} THEN 0 ELSE Max(Dropped)) \in 0 .. MaxHeight
    <3>1. Dropped \subseteq 0 .. MaxHeight
      <4>1. slow \subseteq 0 .. MaxHeight /\ fast \subseteq 0 .. MaxHeight
        BY DEF Types, Height
      <4> QED
        BY <4>1, Zenon DEF Dropped
    <3>2. MaxHeight \in Nat /\ 0 \in 0 .. MaxHeight
      OBVIOUS
    <3>3. Dropped # {} => Max(Dropped) \in Dropped
      BY <3>1, <3>2, MaxOfBounded, Zenon
    <3> HIDE DEF Dropped
    <3> QED
      BY <3>1, <3>2, <3>3
  <2>4. call' \in [Procs -> CallType]
    <3> DEFINE rem == IF Dropped = {} THEN 0 ELSE Max(Dropped)
               new == [call[p] EXCEPT !.pc = "row", !.removed = rem]
    <3>1. call' = [call EXCEPT ![p] = new]
      BY <1>6 DEF FillWindow
    <3>2. rem \in 0 .. MaxHeight
      BY <2>3
    <3> HIDE DEF rem
    <3>3. new \in CallType
      BY <2>1, <3>2 DEF CallType
    <3> QED
      BY <3>1, <3>3 DEF Types
  <2>5. lost' \subseteq Height
    <3>1. lost' = lost \cup {cur} \/ lost' = lost
      BY <1>6, Zenon DEF FillWindow
    <3> QED
      BY <3>1 DEF Types
  <2> QED
    BY <1>6, <2>2, <2>4, <2>5 DEF FillWindow, Types
<1>17. ASSUME NEW p \in Procs, InsertBlock(p) PROVE Types'
  <2>1. call[p].h \in Height /\ call[p] \in CallType
    BY <1>17 DEF ProcInv, CallOK, InsertBlock, Types
  <2>2. {cache[m] : m \in Miners} \ {0} \subseteq Objects
    BY DEF Types, Objects
  <2>3. CASE call[p].h \in blocks
    BY <1>17, <2>3 DEF InsertBlock, Types
  <2>4. CASE call[p].h \notin blocks
    <3> DEFINE new == [call[p] EXCEPT !.pc = "range", !.todo = {cache[m] : m \in Miners} \ {0}]
    <3>1. call' = [call EXCEPT ![p] = new]
      BY <1>17, <2>4 DEF InsertBlock
    <3>2. new \in CallType
      BY <2>1, <2>2 DEF CallType
    <3>3. call' \in [Procs -> CallType]
      BY <3>1, <3>2 DEF Types
    <3> QED
      BY <1>17, <2>1, <2>4, <3>3 DEF InsertBlock, Types
  <2> QED
    BY <2>3, <2>4
<1>7. ASSUME NEW p \in Procs, VisitMiner(p) PROVE Types'
  <2>1. PICK m \in Miners :
          LET o == cache[m]
          IN  /\ o \notin call[p].seen \cup {0}
              /\ obj' = [obj EXCEPT ![o] = Removed(Added(@), call[p].removed)]
              /\ cache' = IF obj[o].cur < call[p].h - InactiveAfter
                            THEN [cache EXCEPT ![m] = 0] ELSE cache
              /\ call' = [call EXCEPT ![p].seen = @ \cup {o}]
    BY <1>7 DEF VisitMiner
  <2>2. cache[m] \in Objects
    BY <2>1 DEF Types, Objects
  <2>3. obj[cache[m]] \in ObjType /\ slow \subseteq Height
    BY <2>2 DEF Types
  <2>4. Removed(Added(obj[cache[m]]), call[p].removed) \in ObjType
    BY <2>3, ObjectUpdates
  <2>5. obj' \in [Objects -> ObjType]
    BY <2>1, <2>4 DEF Types
  <2>6. call' \in [Procs -> CallType]
    BY <2>1, <2>2 DEF Types, CallType
  <2> QED
    BY <1>7, <2>1, <2>5, <2>6 DEF VisitMiner, Types
<1>8. ASSUME NEW p \in Procs, FinishBlock(p) PROVE Types'
  <2>1. call' \in [Procs -> CallType] /\ req' \in [Reqs -> ReqType]
    BY <1>4, <1>8, IdleTypes DEF FinishBlock, Types
  <2>2. call[p].h \in Height
    BY <1>8 DEF ProcInv, CallOK, FinishBlock
  <2> QED
    BY <1>8, <2>1, <2>2 DEF FinishBlock, Types
<1>9. ASSUME NEW r \in Reqs, Start(r) PROVE Types'
  <2>1. PICK m \in Miners, d \in 1 .. MaxDeadline, h \in IF r \in HttpReqs THEN {cur} ELSE 1 .. chain :
          /\ \/ cache[m] # 0 /\ UNCHANGED <<cache, used>>
             \/ /\ cache[m] = 0 /\ used < MaxObjects
                /\ used' = used + 1
                /\ cache' = [cache EXCEPT ![m] = used + 1]
          /\ req' = [req EXCEPT ![r] = [pc |-> "enter", miner |-> m, o |-> cache'[m], h |-> h, d |-> d]]
    BY <1>9 DEF Start
  <2>2. used' \in 0 .. MaxObjects /\ cache' \in [Miners -> 0 .. MaxObjects]
    BY <2>1 DEF Types
  <2>3. h \in Height
    BY <2>1 DEF Types, Height
  <2>4. [pc |-> "enter", miner |-> m, o |-> cache'[m], h |-> h, d |-> d] \in ReqType
    BY <2>2, <2>3 DEF ReqType, Height
  <2> QED
    BY <1>9, <2>1, <2>2, <2>4 DEF Start, Types
<1>10. ASSUME NEW r \in Reqs PROVE Finished(r) \in [Reqs -> ReqType]
  BY DEF Finished, IdleReq, Types, ReqType
<1>11. ASSUME NEW r \in Reqs, req[r].pc \notin {"idle", "done"}
       PROVE  /\ req[r].miner \in Miners /\ req[r].o \in Objects
              /\ req[r].h \in Height /\ req[r].d \in 0 .. MaxDeadline
              /\ [rows EXCEPT ![req[r].miner][req[r].h] = req[r].d]
                   \in [Miners -> [Height -> 0 .. MaxDeadline]]
              /\ obj[req[r].o] \in ObjType
  BY <1>11 DEF ProcInv, ReqOK, Types
<1>12. ASSUME NEW r \in Reqs, SubmitCurrent(r) PROVE Types'
  <2>1. req[r].pc \notin {"idle", "done"}
    BY <1>12 DEF SubmitCurrent, Entering
  <2>2. [obj[req[r].o] EXCEPT !.dl[req[r].h] = req[r].d] \in ObjType
    <3>1. obj[req[r].o] \in ObjType /\ req[r].h \in Height /\ req[r].d \in 0 .. MaxDeadline
      BY <1>11, <2>1
    <3> QED
      BY <3>1, ObjectDeadlines, Zenon
  <2>3. obj' \in [Objects -> ObjType]
    BY <1>12, <2>2 DEF SubmitCurrent, Types
  <2> QED
    BY <1>10, <1>11, <1>12, <2>1, <2>3 DEF SubmitCurrent, Types
<1>13. ASSUME NEW r \in Reqs, Classify(r) PROVE Types'
  <2>1. req[r].pc \notin {"idle", "done"}
    BY <1>13 DEF Classify, Entering
  <2>2. req' \in [Reqs -> ReqType]
    <3>1. ASSUME NEW pc \in {"old", "insert", "open"} PROVE [req EXCEPT ![r].pc = pc] \in [Reqs -> ReqType]
      BY DEF Types, ReqType
    <3> QED
      BY <1>10, <1>13, <3>1, Zenon DEF Classify
  <2>3. call' \in [Procs -> CallType]
    <3>1. [IdleCall EXCEPT !.pc = "read", !.h = req[r].h] \in CallType
      BY <1>11, <2>1, ReadTypes DEF Types
    <3>2. [call EXCEPT ![r] = [IdleCall EXCEPT !.pc = "read", !.h = req[r].h]] \in [Procs -> CallType]
      BY <3>1 DEF Types
    <3> QED
      BY <1>13, <3>2, Zenon DEF Classify, Types
  <2> QED
    BY <1>13, <2>2, <2>3 DEF Classify, Types
<1>14. ASSUME NEW r \in Reqs, SubmitOld(r) PROVE Types'
  <2>1. req[r].pc \notin {"idle", "done"}
    BY <1>14 DEF SubmitOld
  <2>2. Improved(obj[req[r].o], req[r].h, req[r].d) \in ObjType
    <3>1. obj[req[r].o] \in ObjType /\ req[r].h \in Height /\ req[r].d \in 0 .. MaxDeadline
      BY <1>11, <2>1
    <3> QED
      BY <3>1, ObjectDeadlines, Zenon
  <2>3. obj' \in [Objects -> ObjType]
    BY <1>14, <2>2 DEF SubmitOld, Types
  <2> QED
    BY <1>10, <1>11, <1>14, <2>1, <2>3 DEF SubmitOld, Types
<1>15. ASSUME NEW r \in Reqs, Insert(r) PROVE Types'
  <2>1. req[r].pc \notin {"idle", "done"}
    BY <1>15 DEF Insert
  <2>2. Inserted(obj[req[r].o], req[r].h, req[r].d) \in ObjType
    <3>1. obj[req[r].o] \in ObjType /\ req[r].h \in Height /\ req[r].d \in 0 .. MaxDeadline
      BY <1>11, <2>1
    <3> QED
      BY <3>1, ObjectDeadlines, Zenon
  <2>3. obj' \in [Objects -> ObjType]
    BY <1>15, <2>2 DEF Insert, Types
  <2> QED
    BY <1>10, <1>11, <1>15, <2>1, <2>3 DEF Insert, Types
<1>16. CASE UNCHANGED vars
  BY <1>16 DEF vars, Types
<1> QED
  BY <1>1, <1>2, <1>3, <1>5, <1>6, <1>7, <1>8, <1>9, <1>12, <1>13, <1>14, <1>15, <1>16, <1>17 DEF Next

----------------------------------------------------------------------------
\* The fields of submissions and calls that a step leaves alone.
LEMMA ReqGoesOn ==
  ASSUME Types, NEW r \in Reqs, NEW pc, req' = [req EXCEPT ![r].pc = pc]
  PROVE  /\ \A q \in Reqs \ {r} : req'[q] = req[q]
         /\ req'[r].pc = pc /\ req'[r].miner = req[r].miner /\ req'[r].o = req[r].o
         /\ req'[r].h = req[r].h /\ req'[r].d = req[r].d
  BY DEF Types, ReqType

\* A request that ends lets go of its object, and the others keep theirs.
LEMMA ReqEnds ==
  ASSUME Types, NEW r \in Reqs, req' = Finished(r)
  PROVE  /\ \A q \in Reqs \ {r} : req'[q] = req[q]
         /\ req'[r].pc = "done" /\ req'[r].o = 0
         /\ \A q \in Reqs : req'[q].o = 0 \/ (req'[q].o = req[q].o /\ req'[q].miner = req[q].miner)
<1>1. (\A q \in Reqs \ {r} : req'[q] = req[q]) /\ req'[r].pc = "done" /\ req'[r].o = 0
  BY DEF Types, Finished, IdleReq
<1>2. ASSUME NEW q \in Reqs
      PROVE  req'[q].o = 0 \/ (req'[q].o = req[q].o /\ req'[q].miner = req[q].miner)
  <2>1. CASE q = r
    BY <1>1, <2>1, Zenon
  <2>2. CASE q # r
    <3>1. req'[q] = req[q]
      BY <1>1, <2>2
    <3> QED
      BY <3>1, Zenon
  <2> QED
    BY <2>1, <2>2
<1> QED
  BY <1>1, <1>2

\* A call that returns sends its own request on to the INSERT and no other.
LEMMA ReturnedReqs ==
  ASSUME Types, NEW p \in Procs, Returned(p)
  PROVE  /\ \A q \in Reqs \ {p} : req'[q] = req[q]
         /\ p \in Reqs =>
              /\ req'[p].pc = "insert" /\ req'[p].miner = req[p].miner /\ req'[p].o = req[p].o
              /\ req'[p].h = req[p].h /\ req'[p].d = req[p].d
<1>1. CASE p = Poller
  BY <1>1, NamesAssumption DEF Returned, Reqs
<1>2. CASE p # Poller
  <2>1. p \in Reqs /\ req' = [req EXCEPT ![p].pc = "insert"]
    BY <1>2 DEF Returned, Procs
  <2> QED
    BY <2>1, ReqGoesOn
<1> QED
  BY <1>1, <1>2

\* A submission that gets a call back goes on with what it had.
LEMMA ReqOKSame ==
  ASSUME NEW r \in Reqs, ReqOK(r),
         \/ req'[r] = req[r]
         \/ /\ req[r].pc \notin {"idle", "done"} /\ req'[r].pc \notin {"idle", "done"}
            /\ req'[r].miner = req[r].miner /\ req'[r].o = req[r].o
            /\ req'[r].h = req[r].h /\ req'[r].d = req[r].d
         \/ req'[r].pc = "done" /\ req'[r].o = 0
  PROVE  ReqOK(r)'
  BY DEF ReqOK

\* What the two steps of newBlock do to the calls.
LEMMA FillCall ==
  ASSUME Types, NEW p \in Procs, FillWindow(p)
  PROVE  /\ call[p].pc = "lock" /\ mu = None /\ mu' = p
         /\ call'[p].pc = "row" /\ call'[p].h = call[p].h /\ call'[p].old = call[p].old
         /\ \A q \in Procs \ {p} : call'[q] = call[q]
<1>1. PICK rem : call' = [call EXCEPT ![p].pc = "row", ![p].removed = rem]
  BY Zenon DEF FillWindow
<1>2. call[p].pc = "lock" /\ mu = None /\ mu' = p
  BY DEF FillWindow
<1> QED
  BY <1>1, <1>2 DEF Types, CallType

\* The row was not there.
LEMMA InsertCall ==
  ASSUME Types, NEW p \in Procs, InsertBlock(p), call[p].h \notin blocks
  PROVE  /\ call[p].pc = "row" /\ mu' = mu /\ blocks' = blocks \cup {call[p].h}
         /\ call'[p].pc = "range" /\ call'[p].h = call[p].h
         /\ call'[p].todo = {cache[m] : m \in Miners} \ {0}
         /\ \A q \in Procs \ {p} : call'[q] = call[q]
         /\ panicked' = panicked
<1>1. call' = [call EXCEPT ![p].pc = "range", ![p].todo = {cache[m] : m \in Miners} \ {0}]
  BY Zenon DEF InsertBlock
<1>2. /\ call[p].pc = "row" /\ mu' = mu /\ blocks' = blocks \cup {call[p].h}
      /\ panicked' = panicked
  BY DEF InsertBlock
<1> QED
  BY <1>1, <1>2 DEF Types, CallType

\* It was: the process ends.
LEMMA InsertPanics ==
  ASSUME NEW p \in Procs, InsertBlock(p), call[p].h \in blocks
  PROVE  call[p].pc = "row" /\ panicked' /\ UNCHANGED <<cur, slow, fast, blocks, call, mu, lost, cache, req>>
  BY DEF InsertBlock

\* Which rows are due is not changed by steps of other calls.
LEMMA DueKept ==
  ASSUME \A q \in Procs : \/ call'[q] = call[q]
                          \/ call[q].pc # "row" /\ call'[q].pc # "row"
  PROVE  Due' = Due
  BY DEF Due

\* Only the holder of newBlockMu has a row due, between its two steps.
LEMMA FillDue ==
  ASSUME Types, ProcInv, NEW p \in Procs, FillWindow(p)
  PROVE  Due = {} /\ Due' = {call[p].h}
<1>1. \A q \in Procs : call[q].pc # "row"
  BY FillCall, NamesAssumption DEF ProcInv, CallOK, Opening, Procs, Reqs
<1> QED
  BY <1>1, FillCall DEF Due

LEMMA InsertDue ==
  ASSUME Types, ProcInv, NEW p \in Procs, InsertBlock(p), call[p].h \notin blocks
  PROVE  Due = {call[p].h} /\ Due' = {}
<1>1. \A q \in Procs \ {p} : call[q].pc # "row"
  BY InsertCall DEF ProcInv, CallOK, Opening
<1> QED
  BY <1>1, InsertCall DEF Due

\* Every step keeps what calls and requests hold.
LEMMA ProcStep == Types /\ ProcInv /\ [Next]_vars => ProcInv'
<1> SUFFICES ASSUME Types, ProcInv, [Next]_vars PROVE ProcInv'
  OBVIOUS
<1> USE BoundsAssumption
<1>0. /\ \A r \in Reqs : ReqOK(r)
      /\ \A p \in Procs : CallOK(p)
      /\ Poller \in Procs /\ Poller \notin Reqs /\ None \notin Procs
      /\ \A r \in Reqs : r \in Procs
  BY NamesAssumption DEF ProcInv, Procs, Reqs
<1>a. ASSUME req' = req PROVE \A r \in Reqs : ReqOK(r)'
  BY <1>0, <1>a, ReqOKSame
<1>b. ASSUME NEW p \in Procs, CallOK(p), call'[p] = call[p], mu' = mu \/ mu = None,
             p \in Reqs => req'[p] = req[p]
      PROVE  CallOK(p)'
  BY <1>0, <1>b DEF CallOK
<1>c. ASSUME NEW r \in Reqs, req[r].pc # "open", UNCHANGED <<call, mu>>,
             \A q \in Reqs \ {r} : req'[q] = req[q]
      PROVE  \A p \in Procs : CallOK(p)'
  BY <1>0, <1>c DEF CallOK
<1>1. CASE ChainGrows
  BY <1>0, <1>1, <1>a, <1>b DEF ChainGrows, ProcInv
<1>2. CASE Poll
  <2>1. CallOK(Poller)'
    BY <1>0, <1>2, PollCall DEF CallOK, Opening
  <2> QED
    BY <1>0, <1>2, <1>a, <1>b, <2>1, PollCall DEF Poll, ProcInv
<1>3. ASSUME NEW p \in Procs, ReadOld(p) PROVE ProcInv'
  <2>1. /\ call'[p].pc = "lock" /\ call'[p].h = call[p].h
        /\ \A q \in Procs \ {p} : call'[q] = call[q]
    BY <1>3 DEF ReadOld, Types, CallType
  <2>2. CallOK(p)'
    BY <1>0, <1>3, <2>1 DEF CallOK, ReadOld, Opening
  <2> QED
    BY <1>0, <1>3, <1>a, <1>b, <2>1, <2>2 DEF ReadOld, ProcInv
<1>4. ASSUME NEW p \in Procs, call' = [call EXCEPT ![p] = IdleCall], Returned(p),
             call[p].pc # "idle", mu' = None, mu = None \/ mu = p
      PROVE  ProcInv'
  <2>1. CallOK(p)' /\ \A q \in Procs \ {p} : call'[q] = call[q]
    BY <1>4 DEF CallOK, IdleCall, Types
  <2>2. ASSUME NEW q \in Procs \ {p} PROVE CallOK(q)'
    <3>1. call[q].pc \notin Opening
      BY <1>0, <1>4 DEF CallOK, Opening
    <3>2. q \in Reqs => req'[q] = req[q]
      BY <1>4, ReturnedReqs
    <3> QED
      BY <1>0, <2>1, <3>1, <3>2 DEF CallOK
  <2>3. ASSUME NEW q \in Reqs PROVE ReqOK(q)'
    <3>1. CASE q = p
      <4>1. req[q].pc = "open" /\ req'[q].pc = "insert"
        BY <1>0, <1>4, <3>1, ReturnedReqs DEF CallOK
      <4> QED
        BY <1>0, <1>4, <3>1, <4>1, ReqOKSame, ReturnedReqs
    <3>2. CASE q # p
      BY <1>0, <1>4, <3>2, ReqOKSame, ReturnedReqs
    <3> QED
      BY <3>1, <3>2
  <2> QED
    BY <2>1, <2>2, <2>3 DEF ProcInv
<1>5. ASSUME NEW p \in Procs, NoNewBlock(p) PROVE ProcInv'
  BY <1>4, <1>5 DEF NoNewBlock, Released
<1>6. ASSUME NEW p \in Procs, FillWindow(p) PROVE ProcInv'
  <2>1. \A q \in Reqs : ReqOK(q)'
    BY <1>6, <1>a DEF FillWindow
  <2>2. req' = req
    BY <1>6 DEF FillWindow
  <2>3. CallOK(p)'
    BY <1>0, <1>6, <2>2, FillCall DEF CallOK
  <2> QED
    BY <1>0, <1>6, <1>b, <2>1, <2>2, <2>3, FillCall DEF ProcInv
<1>16. ASSUME NEW p \in Procs, InsertBlock(p) PROVE ProcInv'
  <2>1. req' = req /\ mu' = mu
    BY <1>16 DEF InsertBlock
  <2>2. \A q \in Reqs : ReqOK(q)'
    BY <1>a, <2>1
  <2>3. CASE call[p].h \in blocks
    BY <1>0, <1>16, <1>b, <2>1, <2>2, <2>3, InsertPanics DEF ProcInv
  <2>4. CASE call[p].h \notin blocks
    <3>1. CallOK(p)'
      BY <1>0, <1>16, <2>1, <2>4, InsertCall DEF CallOK, Opening
    <3> QED
      BY <1>0, <1>16, <1>b, <2>1, <2>2, <2>4, <3>1, InsertCall DEF ProcInv
  <2> QED
    BY <2>3, <2>4
<1>7. ASSUME NEW p \in Procs, VisitMiner(p) PROVE ProcInv'
  <2>1. /\ call'[p].pc = call[p].pc /\ call'[p].h = call[p].h
        /\ \A q \in Procs \ {p} : call'[q] = call[q]
    BY <1>7 DEF VisitMiner, Types, CallType
  <2>2. CallOK(p)'
    BY <1>0, <1>7, <2>1 DEF CallOK, VisitMiner
  <2> QED
    BY <1>0, <1>7, <1>a, <1>b, <2>1, <2>2 DEF VisitMiner, ProcInv
<1>8. ASSUME NEW p \in Procs, FinishBlock(p) PROVE ProcInv'
  <2>1. mu = p
    BY <1>0, <1>8 DEF FinishBlock, CallOK, Opening
  <2> QED
    BY <1>4, <1>8, <2>1 DEF FinishBlock
<1>9. ASSUME NEW r \in Reqs, Start(r) PROVE ProcInv'
  <2>1. PICK m \in Miners, d \in 1 .. MaxDeadline, h \in IF r \in HttpReqs THEN {cur} ELSE 1 .. chain :
          /\ \/ cache[m] # 0 /\ UNCHANGED <<cache, used>>
             \/ /\ cache[m] = 0 /\ used < MaxObjects
                /\ used' = used + 1
                /\ cache' = [cache EXCEPT ![m] = used + 1]
          /\ req' = [req EXCEPT ![r] = [pc |-> "enter", miner |-> m, o |-> cache'[m], h |-> h, d |-> d]]
    BY <1>9 DEF Start
  <2>2. cache'[m] \in Objects /\ h \in Height
    BY <2>1 DEF Types, Objects, Height
  <2>3. ReqOK(r)'
    BY <2>1, <2>2 DEF ReqOK, Types
  <2>4. \A q \in Reqs \ {r} : req'[q] = req[q]
    BY <2>1 DEF Types
  <2>5. \A q \in Reqs : ReqOK(q)'
    BY <1>0, <2>3, <2>4, ReqOKSame
  <2> QED
    BY <1>9, <1>c, <2>4, <2>5 DEF Start, ProcInv
<1>10. ASSUME NEW r \in Reqs, req[r].pc # "open", req' = Finished(r), UNCHANGED <<call, mu>>
       PROVE  ProcInv'
  <2>1. \A q \in Reqs : ReqOK(q)'
    BY <1>0, <1>10, ReqEnds, ReqOKSame
  <2> QED
    BY <1>10, <1>c, <2>1, ReqEnds DEF ProcInv
<1>11. ASSUME NEW r \in Reqs, SubmitCurrent(r) PROVE ProcInv'
  BY <1>10, <1>11 DEF SubmitCurrent, Entering
<1>12. ASSUME NEW r \in Reqs, Classify(r) PROVE ProcInv'
  <2>1. req[r].pc = "enter"
    BY <1>12 DEF Classify, Entering
  <2>2. CASE req' = Finished(r) /\ UNCHANGED call
    BY <1>10, <1>12, <2>1, <2>2 DEF Classify
  <2>3. CASE UNCHANGED call /\ \E pc \in {"old", "insert"} : req' = [req EXCEPT ![r].pc = pc]
    <3>1. \A q \in Reqs : ReqOK(q)'
      BY <1>0, <2>1, <2>3, ReqGoesOn, ReqOKSame
    <3> QED
      BY <1>12, <1>c, <2>1, <2>3, <3>1, ReqGoesOn DEF Classify, ProcInv
  <2>4. CASE /\ req' = [req EXCEPT ![r].pc = "open"]
             /\ call' = [call EXCEPT ![r] = [IdleCall EXCEPT !.pc = "read", !.h = req[r].h]]
    <3>1. \A q \in Reqs : ReqOK(q)'
      BY <1>0, <2>1, <2>4, ReqGoesOn, ReqOKSame
    <3>2. call'[r].pc = "read" /\ call'[r].h = req[r].h /\ \A q \in Procs \ {r} : call'[q] = call[q]
      BY <1>0, <2>4 DEF Types, IdleCall
    <3>3. CallOK(r)'
      <4>1. req[r].h \in Height
        BY <1>0, <2>1 DEF ReqOK
      <4>2. req'[r].pc = "open"
        BY <2>4, ReqGoesOn
      <4> QED
        BY <3>2, <4>1, <4>2 DEF CallOK, Opening
    <3>4. ASSUME NEW q \in Procs \ {r} PROVE CallOK(q)'
      BY <1>0, <1>12, <1>b, <2>4, <3>2, ReqGoesOn DEF Classify
    <3> QED
      BY <3>1, <3>3, <3>4 DEF ProcInv
  <2> QED
    BY <1>12, <2>2, <2>3, <2>4, Zenon DEF Classify
<1>13. ASSUME NEW r \in Reqs, SubmitOld(r) PROVE ProcInv'
  BY <1>10, <1>13 DEF SubmitOld
<1>14. ASSUME NEW r \in Reqs, Insert(r) PROVE ProcInv'
  BY <1>10, <1>14 DEF Insert
<1>15. CASE UNCHANGED vars
  BY <1>0, <1>15, <1>a, <1>b DEF vars, ProcInv
<1> QED
  BY <1>1, <1>2, <1>3, <1>5, <1>6, <1>7, <1>8, <1>9, <1>11, <1>12, <1>13, <1>14, <1>15, <1>16 DEF Next

----------------------------------------------------------------------------
\* Every step keeps what the windows hold.
LEMMA WindowStep == Types /\ ProcInv /\ WindowInv /\ [Next]_vars => WindowInv'
<1> SUFFICES ASSUME Types, ProcInv, WindowInv, [Next]_vars PROVE WindowInv'
  OBVIOUS
<1>0. /\ \A p \in Procs : call[p].pc \in Opening => mu = p
      /\ None \notin Procs
  BY NamesAssumption DEF ProcInv, CallOK, Procs, Reqs, Opening
\* Steps that touch neither a window nor the lock, and open no block.
<1>a. ASSUME UNCHANGED <<cur, slow, fast, blocks, mu>>, Due' = Due,
             \A q \in Procs : call'[q].pc \in Opening =>
               call'[q].pc = call[q].pc /\ call'[q].h = call[q].h
      PROVE  WindowInv'
  <2>1. WindowsConsistent' /\ cur' \in blocks' /\ (mu' = None => cur' \notin slow' \cup fast')
    BY <1>a DEF WindowInv, WindowsConsistent
  <2>2. ASSUME NEW q \in Procs, call'[q].pc \in Opening
        PROVE  /\ call'[q].h > cur' => call'[q].h \notin slow' \cup fast'
               /\ call'[q].h < cur' => cur' \notin slow' \cup fast'
               /\ call'[q].pc = "range" => call'[q].h \in blocks' /\ call'[q].h # cur'
    BY <1>a, <2>2 DEF WindowInv
  <2> QED
    BY <2>1, <2>2 DEF WindowInv
\* One call goes on, and stays out of newBlock.
<1>b. ASSUME UNCHANGED <<cur, slow, fast, blocks, mu>>, NEW p,
             call[p].pc # "row", call'[p].pc \notin Opening,
             \A q \in Procs \ {p} : call'[q] = call[q]
      PROVE  WindowInv'
  <2>1. Due' = Due
    BY <1>b, DueKept DEF Opening
  <2> QED
    BY <1>a, <1>b, <2>1
<1>c. ASSUME UNCHANGED <<cur, slow, fast, blocks, call, mu>> PROVE WindowInv'
  BY <1>a, <1>c, DueKept
<1>1. CASE ChainGrows
  BY <1>1, <1>c DEF ChainGrows
<1>2. CASE Poll
  BY <1>2, <1>b, PollCall DEF Poll, Opening
<1>3. ASSUME NEW p \in Procs, ReadOld(p) PROVE WindowInv'
  <2>1. /\ call[p].pc = "read" /\ call'[p].pc = "lock"
        /\ \A q \in Procs \ {p} : call'[q] = call[q]
    BY <1>3 DEF ReadOld, Types, CallType
  <2> QED
    BY <1>3, <1>b, <2>1 DEF ReadOld, Opening
<1>4. ASSUME NEW p \in Procs, NoNewBlock(p) PROVE WindowInv'
  <2>1. /\ call[p].pc = "lock" /\ call'[p].pc = "idle"
        /\ \A q \in Procs \ {p} : call'[q] = call[q]
    BY <1>4 DEF NoNewBlock, Types, IdleCall
  <2> QED
    BY <1>4, <1>b, <2>1 DEF NoNewBlock, Released, Opening
<1>5. ASSUME NEW p \in Procs, FillWindow(p) PROVE WindowInv'
  <2> DEFINE h == call[p].h
             x == IF Newer(p) THEN cur ELSE h
  <2>1. /\ cur \notin slow \cup fast /\ cur \in blocks
        /\ \A q \in Procs : call[q].pc \notin Opening
        /\ h \in Height /\ cur \in Height
    BY <1>0, <1>5 DEF FillWindow, WindowInv, ProcInv, CallOK, Types
  <2>2. h \notin slow \cup fast
    BY <1>5 DEF FillWindow, Refused, WasSlowBlock
  <2>3. /\ slow' \subseteq slow \cup {x} /\ fast' \subseteq fast \cup {x}
        /\ slow' = slow \/ fast' = fast
    <3>1. \E kind \in {"slow", "fast", "failed"} :
            AddBlock(IF Newer(p) \/ kind # "failed" THEN kind ELSE "slow", x)
      BY <1>5, Zenon DEF FillWindow
    <3> HIDE DEF x
    <3> QED
      BY <3>1, AddBlockSubset
  <2>4. slow' \cap fast' = {}
    BY <2>1, <2>2, <2>3 DEF WindowInv, WindowsConsistent
  <2>5. UNCHANGED <<cur, blocks>> /\ Due = {} /\ Due' = {h}
    BY <1>5, FillDue DEF FillWindow
  <2>6. WindowsConsistent'
    BY <2>1, <2>3, <2>4, <2>5 DEF WindowInv, WindowsConsistent
  <2>7. /\ h > cur' => h \notin slow' \cup fast'
        /\ h < cur' => cur' \notin slow' \cup fast'
    BY <2>1, <2>2, <2>3, <2>5, BoundsAssumption DEF Newer, Height
  <2>8. /\ mu' = p /\ call'[p].pc = "row" /\ call'[p].h = h
        /\ \A q \in Procs \ {p} : call'[q] = call[q]
    BY <1>5, FillCall
  <2>9. ASSUME NEW q \in Procs, call'[q].pc \in Opening PROVE q = p
    BY <2>1, <2>8, <2>9
  <2> HIDE DEF h
  <2> QED
    BY <1>0, <2>1, <2>5, <2>6, <2>7, <2>8, <2>9 DEF WindowInv
<1>14. ASSUME NEW p \in Procs, InsertBlock(p) PROVE WindowInv'
  <2> DEFINE h == call[p].h
  <2>1. CASE h \in blocks
    BY <1>14, <1>c, <2>1, InsertPanics
  <2>2. CASE h \notin blocks
    <3>1. /\ call[p].pc = "row" /\ mu' = mu /\ blocks' = blocks \cup {h}
          /\ call'[p].pc = "range" /\ call'[p].h = h
          /\ \A q \in Procs \ {p} : call'[q] = call[q]
          /\ Due = {h} /\ Due' = {} /\ UNCHANGED <<cur, slow, fast>>
      BY <1>14, <2>2, InsertCall, InsertDue DEF InsertBlock
    <3>2. h # cur
      BY <2>2 DEF WindowInv
    <3>3. WindowsConsistent' /\ cur' \in blocks' /\ (mu' = None => cur' \notin slow' \cup fast')
      BY <3>1 DEF WindowInv, WindowsConsistent
    <3>4. ASSUME NEW q \in Procs, call'[q].pc \in Opening
          PROVE  /\ call'[q].h > cur' => call'[q].h \notin slow' \cup fast'
                 /\ call'[q].h < cur' => cur' \notin slow' \cup fast'
                 /\ call'[q].pc = "range" => call'[q].h \in blocks' /\ call'[q].h # cur'
      <4>1. CASE q = p
        BY <3>1, <3>2, <4>1 DEF WindowInv, Opening
      <4>2. CASE q # p
        BY <3>1, <3>4, <4>2 DEF WindowInv
      <4> QED
        BY <4>1, <4>2
    <3> QED
      BY <3>3, <3>4 DEF WindowInv
  <2> QED
    BY <2>1, <2>2
<1>6. ASSUME NEW p \in Procs, VisitMiner(p) PROVE WindowInv'
  <2>1. /\ call'[p].pc = call[p].pc /\ call'[p].h = call[p].h
        /\ \A q \in Procs \ {p} : call'[q] = call[q]
    BY <1>6 DEF VisitMiner, Types, CallType
  <2>2. Due' = Due
    BY <1>6, <2>1, DueKept DEF VisitMiner
  <2> QED
    BY <1>6, <1>a, <2>1, <2>2 DEF VisitMiner
<1>7. ASSUME NEW p \in Procs, FinishBlock(p) PROVE WindowInv'
  <2>1. call'[p].pc = "idle" /\ \A q \in Procs \ {p} : call'[q] = call[q]
    BY <1>7 DEF FinishBlock, Types, IdleCall
  <2>2. \A q \in Procs : call'[q].pc \notin Opening
    BY <1>0, <1>7, <2>1 DEF FinishBlock, Opening
  <2>3. /\ call[p].h \in blocks /\ call[p].h # cur
        /\ call[p].h > cur => call[p].h \notin slow \cup fast
        /\ call[p].h < cur => cur \notin slow \cup fast
        /\ call[p].h \in Height /\ cur \in Height
    BY <1>7 DEF WindowInv, FinishBlock, ProcInv, CallOK, Types, Opening
  <2>4. cur' \notin slow \cup fast /\ cur' \in blocks
    BY <1>7, <2>3, BoundsAssumption DEF FinishBlock, Newer, Height, WindowInv
  <2>5. Due = {} /\ Due' = {}
    BY <1>0, <1>7, <2>2 DEF FinishBlock, Due, Opening
  <2> QED
    BY <1>7, <2>2, <2>4, <2>5 DEF FinishBlock, WindowInv, WindowsConsistent
<1>8. ASSUME NEW r \in Reqs, Start(r) PROVE WindowInv'
  BY <1>8, <1>c DEF Start
<1>9. ASSUME NEW r \in Reqs, SubmitCurrent(r) PROVE WindowInv'
  BY <1>9, <1>c DEF SubmitCurrent
<1>10. ASSUME NEW r \in Reqs, Classify(r) PROVE WindowInv'
  <2>1. CASE call' = [call EXCEPT ![r] = [IdleCall EXCEPT !.pc = "read", !.h = req[r].h]]
    <3>1. call'[r].pc = "read" /\ \A q \in Procs \ {r} : call'[q] = call[q]
      BY <2>1 DEF Types, IdleCall, Procs
    <3>2. call[r].pc # "row"
      BY <1>10 DEF Classify, Entering, ProcInv, CallOK, Procs
    <3> QED
      BY <1>10, <1>b, <3>1, <3>2 DEF Classify, Opening
  <2>2. CASE call' = call
    BY <1>10, <1>c, <2>2 DEF Classify
  <2> QED
    BY <1>10, <2>1, <2>2, Zenon DEF Classify
<1>11. ASSUME NEW r \in Reqs, SubmitOld(r) PROVE WindowInv'
  BY <1>11, <1>c DEF SubmitOld
<1>12. ASSUME NEW r \in Reqs, Insert(r) PROVE WindowInv'
  BY <1>12, <1>c DEF Insert
<1>13. CASE UNCHANGED vars
  BY <1>13, <1>c DEF vars
<1> QED
  BY <1>1, <1>2, <1>3, <1>4, <1>5, <1>6, <1>7, <1>8, <1>9, <1>10, <1>11, <1>12, <1>13, <1>14 DEF Next

----------------------------------------------------------------------------
\* Steps that write no deadline and give nobody an object.
LEMMA MemoryKept ==
  ASSUME Types, MemoryInv, UNCHANGED <<rows, used>>,
         \A o \in Objects :
           /\ obj'[o].dl = obj[o].dl /\ (o > used => obj'[o] = obj[o])
           /\ obj'[o].params \cup ({obj'[o].cur} \ {0}) \subseteq obj[o].params \cup ({obj[o].cur} \ {0}),
         \A m \in Miners, o \in Objects : Held(m, o)' => Held(m, o),
         \A r \in Reqs : req'[r].pc = "old" =>
           req'[r].o \in Objects /\ obj[req'[r].o].dl[req'[r].h] # 0
  PROVE  MemoryInv'
<1>1. ASSUME NEW o \in Objects
      PROVE  /\ o > used' => obj'[o] = NewMiner
             /\ \A h \in obj'[o].params \cup ({obj'[o].cur} \ {0}) : obj'[o].dl[h] # 0
  BY DEF MemoryInv
<1>2. \A r \in Reqs : req'[r].pc = "old" => obj'[req'[r].o].dl[req'[r].h] # 0
  OBVIOUS
<1>3. ASSUME NEW m \in Miners, NEW o \in Objects, Held(m, o)'
      PROVE  /\ o <= used'
             /\ \A n \in Miners : Held(n, o)' => m = n
             /\ \A h \in Height : obj'[o].dl[h] # 0 =>
                  /\ obj'[o].dl[h] = rows'[m][h]
                  /\ \A other \in Objects : Held(m, other)' /\ other # o => obj'[other].dl[h] = 0
  BY <1>3 DEF MemoryInv
<1> QED
  BY <1>1, <1>2, <1>3 DEF MemoryInv

\* A submission holds its object until it ends.
LEMMA HolderIs ==
  ASSUME ProcInv, NEW r \in Reqs, req[r].pc \notin {"idle", "done"}
  PROVE  Held(req[r].miner, req[r].o)
  BY BoundsAssumption DEF ProcInv, ReqOK, Held, Objects

\* If no request takes an object and the cache stays, no object is held anew.
LEMMA HeldShrinks ==
  ASSUME ProcInv, UNCHANGED cache, NEW m \in Miners, NEW o \in Objects, Held(m, o)',
         \A r \in Reqs : req'[r].o = 0 \/ (req'[r].o = req[r].o /\ req'[r].miner = req[r].miner)
  PROVE  Held(m, o)
  BY DEF Held

\* A deadline d of miner m for height k is written to the row and to object o,
\* when no other object of the miner keeps one for that height.
Writes(m, o, k, d) ==
  /\ Held(m, o) /\ d # 0 /\ used' = used
  /\ \A n \in Miners, x \in Objects : Held(n, x)' => Held(n, x)
  /\ \A q \in Reqs : req'[q].pc = "old" => req'[q] = req[q]
  /\ obj'[o] \in ObjType /\ \A x \in Objects \ {o} : obj'[x] = obj[x]
  /\ obj'[o].dl[k] = d /\ \A h \in Height \ {k} : obj'[o].dl[h] = obj[o].dl[h]
  /\ obj'[o].params \cup {obj'[o].cur} \subseteq obj[o].params \cup {obj[o].cur, k}
  /\ rows'[m][k] = d
  /\ \A n \in Miners, h \in Height : n # m \/ h # k => rows'[n][h] = rows[n][h]
  /\ \A other \in Objects \ {o} : Held(m, other) => obj[other].dl[k] = 0

\* A deadline that is written to its row and to the only object that knows of it.
LEMMA DeadlineWritten ==
  ASSUME Types, ProcInv, MemoryInv, NEW m \in Miners, NEW o \in Objects, NEW k \in Height, NEW d,
         Writes(m, o, k, d)
  PROVE  MemoryInv'
<1> USE DEF Writes
<1>1. ASSUME NEW x \in Objects
      PROVE  /\ x > used' => obj'[x] = NewMiner
             /\ \A h \in obj'[x].params \cup ({obj'[x].cur} \ {0}) : obj'[x].dl[h] # 0
  <2>1. CASE x # o
    BY <2>1 DEF MemoryInv
  <2>2. CASE x = o
    <3>1. ~(x > used)
      <4>1. o <= used
        BY <1>1 DEF MemoryInv
      <4> QED
        BY <2>2, <4>1, BoundsAssumption DEF Types, Objects
    <3>2. ASSUME NEW h \in obj'[o].params \cup ({obj'[o].cur} \ {0}) PROVE obj'[o].dl[h] # 0
      <4>1. h \in Height /\ h # 0
        BY BoundsAssumption DEF ObjType, Height
      <4>2. CASE h = k
        BY <4>2
      <4>3. CASE h # k
        <5>1. h \in obj[o].params \cup ({obj[o].cur} \ {0})
          BY <4>1, <4>3
        <5>2. obj[o].dl[h] # 0
          BY <5>1 DEF MemoryInv
        <5> QED
          BY <4>1, <4>3, <5>2
      <4> QED
        BY <4>2, <4>3
    <3> QED
      BY <2>2, <3>1, <3>2
  <2> QED
    BY <2>1, <2>2
<1>2. ASSUME NEW q \in Reqs, req'[q].pc = "old" PROVE obj'[req'[q].o].dl[req'[q].h] # 0
  <2>1. req'[q] = req[q] /\ req[q].pc = "old"
    BY <1>2
  <2>2. req[q].o \in Objects /\ req[q].h \in Height /\ obj[req[q].o].dl[req[q].h] # 0
    BY <2>1 DEF ProcInv, ReqOK, MemoryInv
  <2>3. CASE req[q].o = o /\ req[q].h = k
    BY <2>1, <2>3
  <2>4. CASE req[q].o = o /\ req[q].h # k
    BY <2>1, <2>2, <2>4
  <2>5. CASE req[q].o # o
    BY <2>1, <2>2, <2>5
  <2> QED
    BY <2>3, <2>4, <2>5
<1>3. ASSUME NEW n \in Miners, NEW x \in Objects, Held(n, x)'
      PROVE  /\ x <= used'
             /\ \A n2 \in Miners : Held(n2, x)' => n = n2
             /\ \A h \in Height : obj'[x].dl[h] # 0 =>
                  /\ obj'[x].dl[h] = rows'[n][h]
                  /\ \A other \in Objects : Held(n, other)' /\ other # x => obj'[other].dl[h] = 0
  <2>1. /\ Held(n, x) /\ x <= used
        /\ \A n2 \in Miners : Held(n2, x) => n = n2
    BY <1>3 DEF MemoryInv
  <2>2. ASSUME NEW h \in Height, obj'[x].dl[h] # 0
        PROVE  /\ obj'[x].dl[h] = rows'[n][h]
               /\ \A other \in Objects : Held(n, other)' /\ other # x => obj'[other].dl[h] = 0
    <3>1. CASE x = o /\ h = k
      <4>1. n = m
        BY <2>1, <3>1
      <4> QED
        BY <3>1, <4>1
    <3>2. CASE x = o /\ h # k
      <4>1. n = m /\ obj[x].dl[h] # 0 /\ obj'[x].dl[h] = obj[x].dl[h]
        BY <2>1, <2>2, <3>2
      <4>2. /\ obj[x].dl[h] = rows[n][h]
            /\ \A other \in Objects : Held(n, other) /\ other # x => obj[other].dl[h] = 0
        BY <2>1, <4>1 DEF MemoryInv
      <4> QED
        BY <3>2, <4>1, <4>2
    <3>3. CASE x # o
      <4>1. obj'[x] = obj[x] /\ obj[x].dl[h] # 0
        BY <2>2, <3>3
      <4>2. /\ obj[x].dl[h] = rows[n][h]
            /\ \A other \in Objects : Held(n, other) /\ other # x => obj[other].dl[h] = 0
        BY <2>1, <4>1 DEF MemoryInv
      <4>3. n # m \/ h # k
        BY <2>1, <3>3, <4>1
      <4>4. ASSUME NEW other \in Objects, Held(n, other)', other # x PROVE obj'[other].dl[h] = 0
        <5>1. Held(n, other) /\ obj[other].dl[h] = 0
          BY <4>2, <4>4
        <5>2. CASE other = o
          <6>1. n = m
            BY <5>1, <5>2 DEF MemoryInv
          <6> QED
            BY <4>3, <5>1, <5>2, <6>1
        <5>3. CASE other # o
          BY <5>1, <5>3
        <5> QED
          BY <5>2, <5>3
      <4> QED
        BY <4>1, <4>2, <4>3, <4>4
    <3> QED
      BY <3>1, <3>2, <3>3
  <2> QED
    BY <2>1, <2>2
<1> QED
  BY <1>1, <1>2, <1>3 DEF MemoryInv

\* The end of a request that stores a deadline.
LEMMA MemoryWritten ==
  ASSUME Types, ProcInv, MemoryInv, NEW r \in Reqs, req[r].pc \notin {"idle", "done"},
         NEW y \in ObjType,
         y.dl = [obj[req[r].o].dl EXCEPT ![req[r].h] = req[r].d],
         y.params \cup {y.cur} \subseteq obj[req[r].o].params \cup {obj[req[r].o].cur, req[r].h},
         obj' = [obj EXCEPT ![req[r].o] = y],
         rows' = [rows EXCEPT ![req[r].miner][req[r].h] = req[r].d],
         req' = Finished(r), UNCHANGED <<used, cache>>,
         \A other \in Objects \ {req[r].o} :
           Held(req[r].miner, other) => obj[other].dl[req[r].h] = 0
  PROVE  MemoryInv'
<1> DEFINE m == req[r].miner
           o == req[r].o
           k == req[r].h
           d == req[r].d
<1>1. /\ m \in Miners /\ o \in Objects /\ k \in Height /\ d # 0
      /\ Held(m, o)
  BY HolderIs, BoundsAssumption DEF ProcInv, ReqOK
<1>2. /\ \A q \in Reqs \ {r} : req'[q] = req[q]
      /\ req'[r].pc = "done" /\ req'[r].o = 0
      /\ \A q \in Reqs : req'[q].o = 0 \/ (req'[q].o = req[q].o /\ req'[q].miner = req[q].miner)
  BY ReqEnds
<1>3. \A n \in Miners, x \in Objects : Held(n, x)' => Held(n, x)
  BY <1>2, HeldShrinks, Zenon
<1>4. /\ obj'[o] = y /\ \A x \in Objects \ {o} : obj'[x] = obj[x]
      /\ obj[o] \in ObjType
  BY <1>1 DEF Types
<1>5. y.dl[k] = d /\ \A h \in Height \ {k} : y.dl[h] = obj[o].dl[h]
  BY <1>1, <1>4 DEF ObjType
<1>6. /\ rows'[m][k] = d
      /\ \A n \in Miners, h \in Height : n # m \/ h # k => rows'[n][h] = rows[n][h]
  BY <1>1 DEF Types
<1>7. \A q \in Reqs : req'[q].pc = "old" => req'[q] = req[q]
  BY <1>2
<1>8. /\ obj'[o] \in ObjType
      /\ obj'[o].dl[k] = d /\ \A h \in Height \ {k} : obj'[o].dl[h] = obj[o].dl[h]
      /\ obj'[o].params \cup {obj'[o].cur} \subseteq obj[o].params \cup {obj[o].cur, k}
  BY <1>4, <1>5, Zenon
<1>9. used' = used /\ \A other \in Objects \ {o} : Held(m, other) => obj[other].dl[k] = 0
  OBVIOUS
<1> HIDE DEF m, o, k, d
<1>10. Writes(m, o, k, d)
  BY <1>1, <1>3, <1>4, <1>6, <1>7, <1>8, <1>9, Zenon DEF Writes
<1> QED
  BY <1>1, <1>10, DeadlineWritten

\* Every step keeps rows and objects together.
LEMMA MemoryStep == Types /\ ProcInv /\ MemoryInv /\ [Next]_vars => MemoryInv'
<1> SUFFICES ASSUME Types, ProcInv, MemoryInv, [Next]_vars PROVE MemoryInv'
  OBVIOUS
<1>0. \A r \in Reqs : req[r].pc \notin {"idle", "done"} =>
        /\ req[r].miner \in Miners /\ req[r].o \in Objects
        /\ req[r].h \in Height /\ req[r].d \in 1 .. MaxDeadline /\ req[r].d # 0
        /\ req[r].d \in 0 .. MaxDeadline /\ obj[req[r].o] \in ObjType
  BY BoundsAssumption DEF ProcInv, ReqOK, Types
\* Steps of submissions that write nothing, and those of no submission.
<1>a. ASSUME UNCHANGED <<rows, obj, used, cache>>,
             \A r \in Reqs : req'[r].o = 0 \/ (req'[r].o = req[r].o /\ req'[r].miner = req[r].miner),
             \A r \in Reqs : req'[r].pc = "old" =>
               req'[r].o \in Objects /\ obj[req'[r].o].dl[req'[r].h] # 0
      PROVE  MemoryInv'
  <2>1. \A m \in Miners, o \in Objects : Held(m, o)' => Held(m, o)
    BY <1>a, HeldShrinks, Zenon
  <2> QED
    BY <1>a, <2>1, MemoryKept
<1>b. \A r \in Reqs : req[r].pc = "old" => req[r].o \in Objects /\ obj[req[r].o].dl[req[r].h] # 0
  BY <1>0 DEF MemoryInv
<1>c. ASSUME UNCHANGED <<rows, obj, used, cache, req>> PROVE MemoryInv'
  BY <1>a, <1>b, <1>c, Zenon
<1>d. ASSUME NEW p \in Procs, Returned(p), UNCHANGED <<rows, obj, used, cache>> PROVE MemoryInv'
  <2>1. ASSUME NEW r \in Reqs
        PROVE  /\ req'[r].o = req[r].o /\ req'[r].miner = req[r].miner
               /\ req'[r].pc = "old" => req'[r] = req[r]
    <3>1. CASE r = p
      BY <1>d, <3>1, ReturnedReqs
    <3>2. CASE r # p
      <4>1. req'[r] = req[r]
        BY <1>d, <3>2, ReturnedReqs
      <4> QED
        BY <4>1, Zenon
    <3> QED
      BY <3>1, <3>2
  <2> QED
    BY <1>a, <1>b, <1>d, <2>1
<1>e. ASSUME NEW r \in Reqs, req' = Finished(r), UNCHANGED <<rows, obj, used, cache>>
      PROVE  MemoryInv'
  BY <1>a, <1>b, <1>e, ReqEnds
<1>1. CASE ChainGrows
  BY <1>1, <1>c DEF ChainGrows
<1>2. CASE Poll
  BY <1>2, <1>c DEF Poll
<1>3. ASSUME NEW p \in Procs, ReadOld(p) PROVE MemoryInv'
  BY <1>3, <1>c DEF ReadOld
<1>4. ASSUME NEW p \in Procs, NoNewBlock(p) PROVE MemoryInv'
  BY <1>4, <1>d DEF NoNewBlock
<1>5. ASSUME NEW p \in Procs, FillWindow(p) \/ InsertBlock(p) PROVE MemoryInv'
  BY <1>5, <1>c DEF FillWindow, InsertBlock
<1>6. ASSUME NEW p \in Procs, VisitMiner(p) PROVE MemoryInv'
  <2>1. PICK m \in Miners :
          /\ cache[m] \notin call[p].seen \cup {0}
          /\ obj' = [obj EXCEPT ![cache[m]] = Removed(Added(@), call[p].removed)]
          /\ cache' = cache \/ cache' = [cache EXCEPT ![m] = 0]
    BY <1>6 DEF VisitMiner
  <2>2. cache[m] \in Objects
    BY <2>1 DEF Types, Objects
  <2> DEFINE o == cache[m]
             y == Removed(Added(obj[o]), call[p].removed)
  <2>3. obj[o] \in ObjType /\ slow \subseteq Height
    BY <2>2 DEF Types
  <2>4. /\ y.cur = obj[o].cur /\ y.dl = obj[o].dl
        /\ y.params \subseteq obj[o].params \cup ({obj[o].cur} \ {0})
    BY <2>3, ObjectUpdates
  <2>5. obj'[o] = y /\ \A x \in Objects \ {o} : obj'[x] = obj[x]
    BY <2>1, <2>2 DEF Types
  <2>6. Held(m, o) /\ o <= used
    BY <2>1, <2>2 DEF Held, MemoryInv
  <2>7. ~(o > used)
    BY <2>2, <2>6, BoundsAssumption DEF Types, Objects
  <2>8. \A n \in Miners, x \in Objects : Held(n, x)' => Held(n, x)
    <3>1. req' = req
      BY <1>6 DEF VisitMiner
    <3>2. \A n \in Miners : cache'[n] = cache[n] \/ cache'[n] = 0
      BY <2>1 DEF Types
    <3> QED
      BY <3>1, <3>2 DEF Held
  <2> HIDE DEF o, y
  <2>9. ASSUME NEW x \in Objects
        PROVE  /\ obj'[x].dl = obj[x].dl /\ (x > used => obj'[x] = obj[x])
               /\ obj'[x].params \cup ({obj'[x].cur} \ {0}) \subseteq obj[x].params \cup ({obj[x].cur} \ {0})
    <3>1. CASE x = o
      BY <2>4, <2>5, <2>7, <3>1
    <3>2. CASE x # o
      BY <2>5, <3>2
    <3> QED
      BY <3>1, <3>2
  <2>10. UNCHANGED <<rows, used, req>>
    BY <1>6 DEF VisitMiner
  <2> QED
    BY <1>b, <2>8, <2>9, <2>10, MemoryKept
<1>7. ASSUME NEW p \in Procs, FinishBlock(p) PROVE MemoryInv'
  BY <1>7, <1>d DEF FinishBlock
<1>8. ASSUME NEW r \in Reqs, Start(r) PROVE MemoryInv'
  <2>1. PICK m \in Miners :
          /\ \/ cache[m] # 0 /\ UNCHANGED <<cache, used>>
             \/ /\ cache[m] = 0 /\ used < MaxObjects
                /\ used' = used + 1
                /\ cache' = [cache EXCEPT ![m] = used + 1]
          /\ \E d \in 1 .. MaxDeadline, h \in IF r \in HttpReqs THEN {cur} ELSE 1 .. chain :
               req' = [req EXCEPT ![r] = [pc |-> "enter", miner |-> m, o |-> cache'[m], h |-> h, d |-> d]]
    BY <1>8 DEF Start
  <2>2. /\ req'[r].pc = "enter" /\ req'[r].miner = m /\ req'[r].o = cache'[m]
        /\ \A q \in Reqs \ {r} : req'[q] = req[q]
    BY <2>1 DEF Types
  <2>3. UNCHANGED <<rows, obj>>
    BY <1>8 DEF Start
  <2>4. \A q \in Reqs : req'[q].pc = "old" => req'[q].o \in Objects /\ obj[req'[q].o].dl[req'[q].h] # 0
    BY <1>b, <2>2
  <2>5. CASE cache[m] # 0 /\ UNCHANGED <<cache, used>>
    <3>1. ASSUME NEW n \in Miners, NEW x \in Objects, Held(n, x)' PROVE Held(n, x)
      BY <2>2, <2>5, <3>1 DEF Held
    <3> QED
      BY <2>3, <2>4, <2>5, <3>1, MemoryKept
  <2>6. CASE /\ cache[m] = 0 /\ used < MaxObjects
             /\ used' = used + 1
             /\ cache' = [cache EXCEPT ![m] = used + 1]
    <3> DEFINE u == used + 1
    <3>1. u \in Objects /\ cache'[m] = u /\ \A n \in Miners \ {m} : cache'[n] = cache[n]
      BY <2>6, BoundsAssumption DEF Types, Objects
    <3>2. u > used /\ obj[u] = NewMiner
      BY <3>1, BoundsAssumption DEF MemoryInv, Types
    <3>3. \A h \in Height : obj[u].dl[h] = 0
      BY <3>2 DEF NewMiner, NoDeadlines
    <3>4. \A n \in Miners : ~Held(n, u)
      <4>1. ~(u <= used)
        BY BoundsAssumption DEF Types
      <4> QED
        BY <3>1, <4>1 DEF MemoryInv
    <3>5. \A x \in Objects : (x <= used => x <= used') /\ (x > used' => x > used)
      BY <2>6, BoundsAssumption DEF Types, Objects
    <3>6. u <= used'
      BY <2>6, BoundsAssumption DEF Types
    <3> HIDE DEF u
    <3>7. ASSUME NEW n \in Miners, NEW x \in Objects, Held(n, x)'
          PROVE  Held(n, x) \/ (n = m /\ x = u)
      BY <2>2, <2>6, <3>1, <3>7 DEF Held
    <3>8. ASSUME NEW x \in Objects
          PROVE  /\ x > used' => obj'[x] = NewMiner
                 /\ \A h \in obj'[x].params \cup ({obj'[x].cur} \ {0}) : obj'[x].dl[h] # 0
      BY <2>3, <3>5 DEF MemoryInv
    <3>9. ASSUME NEW n \in Miners, NEW x \in Objects, Held(n, x)'
          PROVE  /\ x <= used'
                 /\ \A n2 \in Miners : Held(n2, x)' => n = n2
                 /\ \A h \in Height : obj'[x].dl[h] # 0 =>
                      /\ obj'[x].dl[h] = rows'[n][h]
                      /\ \A other \in Objects : Held(n, other)' /\ other # x => obj'[other].dl[h] = 0
      <4>1. CASE x = u
        <5>1. \A n2 \in Miners : Held(n2, x)' => n2 = m
          BY <3>4, <3>7, <4>1
        <5> QED
          BY <2>3, <3>3, <3>6, <3>9, <4>1, <5>1
      <4>2. CASE x # u
        <5>1. Held(n, x) /\ \A n2 \in Miners : Held(n2, x)' => Held(n2, x)
          BY <3>7, <3>9, <4>2
        <5>2. x <= used' /\ \A n2 \in Miners : Held(n2, x)' => n = n2
          BY <3>5, <5>1 DEF MemoryInv
        <5>3. ASSUME NEW h \in Height, obj[x].dl[h] # 0
              PROVE  /\ obj[x].dl[h] = rows[n][h]
                     /\ \A other \in Objects : Held(n, other) /\ other # x => obj[other].dl[h] = 0
          BY <5>1, <5>3 DEF MemoryInv
        <5>4. ASSUME NEW h \in Height, obj[x].dl[h] # 0,
                     NEW other \in Objects, Held(n, other)', other # x
              PROVE  obj[other].dl[h] = 0
          BY <3>3, <3>7, <5>3, <5>4
        <5> QED
          BY <2>3, <5>2, <5>3, <5>4
      <4> QED
        BY <4>1, <4>2
    <3>10. \A q \in Reqs : req'[q].pc = "old" => obj'[req'[q].o].dl[req'[q].h] # 0
      BY <2>3, <2>4
    <3> QED
      BY <3>8, <3>9, <3>10 DEF MemoryInv
  <2> QED
    BY <2>1, <2>5, <2>6
\* What a better deadline replaces is the only one kept for that height.
<1>f. ASSUME NEW r \in Reqs, req[r].pc \notin {"idle", "done"}, Improves(r)
      PROVE  \A other \in Objects \ {req[r].o} :
               Held(req[r].miner, other) => obj[other].dl[req[r].h] = 0
  <2>1. obj[req[r].o].dl[req[r].h] # 0
    BY <1>0, <1>f, BoundsAssumption DEF Improves, ObjType
  <2>2. Held(req[r].miner, req[r].o)
    BY <1>f, HolderIs
  <2> QED
    BY <1>0, <1>f, <2>1, <2>2 DEF MemoryInv
<1>9. ASSUME NEW r \in Reqs, SubmitCurrent(r) PROVE MemoryInv'
  <2>1. CASE Improves(r)
    <3> DEFINE y == [obj[req[r].o] EXCEPT !.dl[req[r].h] = req[r].d]
    <3>1. req[r].pc \notin {"idle", "done"}
      BY <1>9 DEF SubmitCurrent, Entering
    <3>2. /\ y \in ObjType
          /\ y.dl = [obj[req[r].o].dl EXCEPT ![req[r].h] = req[r].d]
          /\ y.params \cup {y.cur} \subseteq obj[req[r].o].params \cup {obj[req[r].o].cur, req[r].h}
      <4>1. obj[req[r].o] \in ObjType /\ req[r].h \in Height /\ req[r].d \in 0 .. MaxDeadline
        BY <1>0, <3>1
      <4> QED
        BY <4>1, ObjectDeadlines, Zenon
    <3>3. /\ obj' = [obj EXCEPT ![req[r].o] = y]
          /\ rows' = [rows EXCEPT ![req[r].miner][req[r].h] = req[r].d]
          /\ req' = Finished(r) /\ UNCHANGED <<used, cache>>
      BY <1>9, <2>1 DEF SubmitCurrent
    <3> HIDE DEF y
    <3> QED
      BY <1>f, <2>1, <3>1, <3>2, <3>3, MemoryWritten
  <2>2. CASE ~Improves(r)
    BY <1>9, <1>e, <2>2 DEF SubmitCurrent
  <2> QED
    BY <2>1, <2>2
<1>10. ASSUME NEW r \in Reqs, Classify(r) PROVE MemoryInv'
  <2>1. req[r].pc = "enter" /\ UNCHANGED <<rows, obj, used, cache>>
    BY <1>10 DEF Classify, Entering
  <2>2. CASE req' = Finished(r)
    BY <1>e, <2>1, <2>2
  <2>3. CASE \E pc \in {"insert", "open"} : req' = [req EXCEPT ![r].pc = pc]
    BY <1>a, <1>b, <2>1, <2>3, ReqGoesOn
  <2>4. CASE req' = [req EXCEPT ![r].pc = "old"] /\ req[r].h \in obj[req[r].o].params
    <3>1. req[r].o \in Objects /\ obj[req[r].o].dl[req[r].h] # 0
      BY <1>0, <2>1, <2>4 DEF MemoryInv
    <3> QED
      BY <1>a, <1>b, <2>1, <2>4, <3>1, ReqGoesOn
  <2> QED
    BY <1>10, <2>2, <2>3, <2>4, Zenon DEF Classify
<1>11. ASSUME NEW r \in Reqs, SubmitOld(r) PROVE MemoryInv'
  <2>1. CASE Improves(r)
    <3> DEFINE y == Improved(obj[req[r].o], req[r].h, req[r].d)
    <3>1. req[r].pc \notin {"idle", "done"}
      BY <1>11 DEF SubmitOld
    <3>2. /\ y \in ObjType
          /\ y.dl = [obj[req[r].o].dl EXCEPT ![req[r].h] = req[r].d]
          /\ y.params \cup {y.cur} \subseteq obj[req[r].o].params \cup {obj[req[r].o].cur, req[r].h}
      <4>1. obj[req[r].o] \in ObjType /\ req[r].h \in Height /\ req[r].d \in 0 .. MaxDeadline
        BY <1>0, <3>1
      <4> QED
        BY <4>1, ObjectDeadlines, Zenon
    <3>3. /\ obj' = [obj EXCEPT ![req[r].o] = y]
          /\ rows' = [rows EXCEPT ![req[r].miner][req[r].h] = req[r].d]
          /\ req' = Finished(r) /\ UNCHANGED <<used, cache>>
      BY <1>11, <2>1 DEF SubmitOld
    <3> HIDE DEF y
    <3> QED
      BY <1>f, <2>1, <3>1, <3>2, <3>3, MemoryWritten
  <2>2. CASE ~Improves(r)
    BY <1>11, <1>e, <2>2 DEF SubmitOld
  <2> QED
    BY <2>1, <2>2
<1>12. ASSUME NEW r \in Reqs, Insert(r) PROVE MemoryInv'
  <2>1. CASE Insertable(req[r].miner, req[r].h)
    <3> DEFINE y == Inserted(obj[req[r].o], req[r].h, req[r].d)
    <3>1. req[r].pc \notin {"idle", "done"}
      BY <1>12 DEF Insert
    <3>2. /\ y \in ObjType
          /\ y.dl = [obj[req[r].o].dl EXCEPT ![req[r].h] = req[r].d]
          /\ y.params \cup {y.cur} \subseteq obj[req[r].o].params \cup {obj[req[r].o].cur, req[r].h}
      <4>1. obj[req[r].o] \in ObjType /\ req[r].h \in Height /\ req[r].d \in 0 .. MaxDeadline
        BY <1>0, <3>1
      <4> QED
        BY <4>1, ObjectDeadlines, Zenon
    <3>3. /\ obj' = [obj EXCEPT ![req[r].o] = y]
          /\ rows' = [rows EXCEPT ![req[r].miner][req[r].h] = req[r].d]
          /\ req' = Finished(r) /\ UNCHANGED <<used, cache>>
      BY <1>12, <2>1 DEF Insert
    <3>4. \A other \in Objects : Held(req[r].miner, other) => obj[other].dl[req[r].h] = 0
      BY <1>0, <2>1, <3>1 DEF MemoryInv, Insertable
    <3> HIDE DEF y
    <3> QED
      BY <3>1, <3>2, <3>3, <3>4, MemoryWritten
  <2>2. CASE ~Insertable(req[r].miner, req[r].h)
    BY <1>12, <1>e, <2>2 DEF Insert
  <2> QED
    BY <2>1, <2>2
<1>13. CASE UNCHANGED vars
  BY <1>13, <1>c DEF vars
<1> QED
  BY <1>1, <1>2, <1>3, <1>4, <1>5, <1>6, <1>7, <1>8, <1>9, <1>10, <1>11, <1>12, <1>13 DEF Next

----------------------------------------------------------------------------
(* Who waits for whom. *)

\* Steps that touch no call, at most fill an entry of the cache, and send no
\* submission to wait for a call.
LEMMA WaitKept ==
  ASSUME WaitInv, Types, UNCHANGED <<call, mu>>,
         \A m \in Miners : cache'[m] = cache[m] \/ cache[m] = 0,
         \A r \in Reqs : req'[r].pc = "open" => req[r].pc = "open"
  PROVE  WaitInv'
<1>1. ASSUME NEW p \in Procs, call[p].pc = "range", NEW o \in call[p].todo \ call[p].seen
      PROVE  \E m \in Miners : cache'[m] = o
  <2>1. PICK m \in Miners : cache[m] = o
    BY <1>1 DEF WaitInv
  <2>2. o # 0
    BY BoundsAssumption DEF Types, CallType, Objects
  <2> QED
    BY <2>1, <2>2
<1>2. ASSUME NEW r \in Reqs, req'[r].pc = "open" PROVE call[r].pc # "idle"
  BY <1>2 DEF WaitInv
<1>3. mu # None => call[mu].pc \in Opening
  BY DEF WaitInv
<1> QED
  BY <1>1, <1>2, <1>3 DEF WaitInv

\* Steps of one call that neither holds the lock nor takes it.
LEMMA WaitOther ==
  ASSUME WaitInv, NEW p \in Procs, call[p].pc \notin Opening, call'[p].pc \in {"read", "lock"},
         \A q \in Procs \ {p} : call'[q] = call[q], UNCHANGED <<cache, mu>>,
         \A r \in Reqs : req'[r].pc = "open" => req[r].pc = "open" \/ r = p, Types
  PROVE  WaitInv'
<1>0. None \notin Procs /\ \A r \in Reqs : r \in Procs
  BY NamesAssumption DEF Procs, Reqs
<1>1. ASSUME NEW r \in Reqs, req'[r].pc = "open" PROVE call'[r].pc # "idle"
  BY <1>0, <1>1 DEF WaitInv
<1>2. ASSUME mu # None PROVE call'[mu].pc \in Opening
  BY <1>0, <1>2 DEF WaitInv, Types
<1>3. ASSUME NEW q \in Procs, call'[q].pc = "range", NEW o \in call'[q].todo \ call'[q].seen
      PROVE  \E m \in Miners : cache'[m] = o
  BY <1>3 DEF WaitInv
<1> QED
  BY <1>1, <1>2, <1>3 DEF WaitInv

\* A call that returns gives up the lock, if it has it.
LEMMA WaitReturned ==
  ASSUME WaitInv, Types, ProcInv, NEW p \in Procs, call' = [call EXCEPT ![p] = IdleCall],
         Returned(p), mu' = None, mu = None \/ mu = p
  PROVE  WaitInv'
<1>0. /\ None \notin Procs /\ \A r \in Reqs : r \in Procs
      /\ \A q \in Procs : call[q].pc \in Opening => mu = q
  BY NamesAssumption DEF Procs, Reqs, ProcInv, CallOK, Opening
<1>1. call'[p].pc = "idle" /\ \A q \in Procs \ {p} : call'[q] = call[q]
  BY DEF Types, IdleCall
<1>2. ASSUME NEW r \in Reqs, req'[r].pc = "open" PROVE call'[r].pc # "idle"
  <2>1. r # p /\ req'[r] = req[r]
    BY <1>2, ReturnedReqs
  <2> QED
    BY <1>0, <1>1, <1>2, <2>1 DEF WaitInv
<1>3. \A q \in Procs : call'[q].pc \notin Opening
  BY <1>0, <1>1 DEF Opening
<1> QED
  BY <1>2, <1>3 DEF WaitInv, Opening

\* Every step keeps it.
LEMMA WaitStep == Types /\ ProcInv /\ WaitInv /\ [Next]_vars => WaitInv'
<1> SUFFICES ASSUME Types, ProcInv, WaitInv, [Next]_vars PROVE WaitInv'
  OBVIOUS
<1>0. /\ Poller \in Procs /\ Poller \notin Reqs /\ None \notin Procs
      /\ \A r \in Reqs : r \in Procs
      /\ \A q \in Procs : call[q].pc \in Opening => mu = q
  BY NamesAssumption DEF Procs, Reqs, ProcInv, CallOK, Opening
<1>1. CASE ChainGrows
  BY <1>1, WaitKept DEF ChainGrows
<1>2. CASE Poll
  BY <1>0, <1>2, PollCall, WaitOther DEF Poll, Opening
<1>3. ASSUME NEW p \in Procs, ReadOld(p) PROVE WaitInv'
  <2>1. /\ call[p].pc = "read" /\ call'[p].pc = "lock"
        /\ \A q \in Procs \ {p} : call'[q] = call[q]
    BY <1>3 DEF ReadOld, Types, CallType
  <2> QED
    BY <1>3, <2>1, WaitOther DEF ReadOld, Opening
<1>4. ASSUME NEW p \in Procs, NoNewBlock(p) PROVE WaitInv'
  BY <1>4, WaitReturned DEF NoNewBlock, Released
<1>5. ASSUME NEW p \in Procs, FillWindow(p) PROVE WaitInv'
  <2>1. UNCHANGED <<cache, req>> /\ mu = None /\ mu' = p
    BY <1>5 DEF FillWindow
  <2>2. call'[p].pc = "row" /\ \A q \in Procs \ {p} : call'[q] = call[q]
    BY <1>5, FillCall
  <2>3. \A q \in Procs : call'[q].pc # "range"
    BY <1>0, <2>1, <2>2 DEF Opening
  <2>4. \A r \in Reqs : req'[r].pc = "open" => call'[r].pc # "idle"
    BY <1>0, <2>1, <2>2 DEF WaitInv
  <2> QED
    BY <2>1, <2>2, <2>3, <2>4 DEF WaitInv, Opening
<1>13. ASSUME NEW p \in Procs, InsertBlock(p) PROVE WaitInv'
  <2>1. UNCHANGED <<cache, req, mu>> /\ mu = p
    BY <1>0, <1>13 DEF InsertBlock, Opening
  <2>2. CASE call[p].h \in blocks
    BY <1>13, <2>1, <2>2, InsertPanics, WaitKept
  <2>3. CASE call[p].h \notin blocks
    <3>1. /\ call'[p].pc = "range" /\ call'[p].todo = {cache[m] : m \in Miners} \ {0}
          /\ \A q \in Procs \ {p} : call'[q] = call[q]
      BY <1>13, <2>3, InsertCall
    <3>2. \A q \in Procs \ {p} : call'[q].pc # "range"
      BY <1>0, <2>1, <3>1 DEF Opening
    <3>3. \A o \in call'[p].todo \ call'[p].seen : \E m \in Miners : cache'[m] = o
      BY <2>1, <3>1
    <3>4. \A r \in Reqs : req'[r].pc = "open" => call'[r].pc # "idle"
      BY <1>0, <2>1, <3>1 DEF WaitInv
    <3> QED
      BY <2>1, <3>1, <3>2, <3>3, <3>4 DEF WaitInv, Opening
  <2> QED
    BY <2>2, <2>3
<1>6. ASSUME NEW p \in Procs, VisitMiner(p) PROVE WaitInv'
  <2>1. PICK m \in Miners :
          /\ cache' = IF obj[cache[m]].cur < call[p].h - InactiveAfter
                        THEN [cache EXCEPT ![m] = 0] ELSE cache
          /\ call' = [call EXCEPT ![p].seen = @ \cup {cache[m]}]
    BY <1>6 DEF VisitMiner
  <2>2. \A n \in Miners : n # m => cache'[n] = cache[n]
    BY <2>1 DEF Types
  <2>3. /\ call'[p].seen = call[p].seen \cup {cache[m]}
        /\ call'[p].pc = call[p].pc /\ call'[p].todo = call[p].todo
        /\ \A q \in Procs \ {p} : call'[q] = call[q]
    BY <2>1 DEF Types, CallType
  <2>4. call[p].pc = "range" /\ UNCHANGED <<req, mu>>
    BY <1>6 DEF VisitMiner
  <2>5. ASSUME NEW o \in call'[p].todo \ call'[p].seen PROVE \E n \in Miners : cache'[n] = o
    <3>1. PICK n \in Miners : cache[n] = o
      BY <2>3, <2>4 DEF WaitInv
    <3>2. n # m
      BY <2>3, <3>1
    <3> QED
      BY <2>2, <3>1, <3>2
  <2>6. \A q \in Procs \ {p} : call'[q].pc # "range"
    BY <1>0, <2>3, <2>4 DEF Opening
  <2>7. \A r \in Reqs : req'[r].pc = "open" => call'[r].pc # "idle"
    BY <1>0, <2>3, <2>4 DEF WaitInv
  <2>8. mu' # None => call'[mu'].pc \in Opening
    BY <1>0, <2>3, <2>4 DEF Opening
  <2> QED
    BY <2>5, <2>6, <2>7, <2>8 DEF WaitInv
<1>7. ASSUME NEW p \in Procs, FinishBlock(p) PROVE WaitInv'
  BY <1>0, <1>7, WaitReturned DEF FinishBlock, Opening
<1>8. ASSUME NEW r \in Reqs, Start(r) PROVE WaitInv'
  <2>1. PICK m \in Miners, d \in 1 .. MaxDeadline, h \in IF r \in HttpReqs THEN {cur} ELSE 1 .. chain :
          /\ \/ cache[m] # 0 /\ UNCHANGED <<cache, used>>
             \/ /\ cache[m] = 0 /\ used < MaxObjects
                /\ used' = used + 1
                /\ cache' = [cache EXCEPT ![m] = used + 1]
          /\ req' = [req EXCEPT ![r] = [pc |-> "enter", miner |-> m, o |-> cache'[m], h |-> h, d |-> d]]
    BY <1>8 DEF Start
  <2>2. \A n \in Miners : cache'[n] = cache[n] \/ cache[n] = 0
    BY <2>1 DEF Types
  <2>3. \A q \in Reqs : req'[q].pc = "open" => req[q].pc = "open"
    BY <2>1 DEF Types
  <2> QED
    BY <1>8, <2>2, <2>3, WaitKept DEF Start
<1>9. ASSUME NEW r \in Reqs, req' = Finished(r), UNCHANGED <<call, mu, cache>> PROVE WaitInv'
  <2>1. \A q \in Reqs : req'[q].pc = "open" => req[q].pc = "open"
    BY <1>9, ReqEnds
  <2> QED
    BY <1>9, <2>1, WaitKept
<1>10. ASSUME NEW r \in Reqs, SubmitCurrent(r) \/ SubmitOld(r) \/ Insert(r) PROVE WaitInv'
  BY <1>9, <1>10 DEF SubmitCurrent, SubmitOld, Insert
<1>11. ASSUME NEW r \in Reqs, Classify(r) PROVE WaitInv'
  <2>1. CASE req' = Finished(r) /\ UNCHANGED call
    BY <1>9, <1>11, <2>1 DEF Classify
  <2>2. CASE UNCHANGED call /\ \E pc \in {"old", "insert"} : req' = [req EXCEPT ![r].pc = pc]
    <3>1. \A q \in Reqs : req'[q].pc = "open" => req[q].pc = "open"
      BY <2>2, ReqGoesOn
    <3> QED
      BY <1>11, <2>2, <3>1, WaitKept DEF Classify
  <2>3. CASE /\ req' = [req EXCEPT ![r].pc = "open"]
             /\ call' = [call EXCEPT ![r] = [IdleCall EXCEPT !.pc = "read", !.h = req[r].h]]
    <3>1. call'[r].pc = "read" /\ \A q \in Procs \ {r} : call'[q] = call[q]
      BY <1>0, <2>3 DEF Types, IdleCall
    <3>2. call[r].pc \notin Opening
      BY <1>0, <1>11 DEF Classify, Entering, ProcInv, CallOK, Opening
    <3>3. \A q \in Reqs : req'[q].pc = "open" => req[q].pc = "open" \/ q = r
      BY <2>3, ReqGoesOn
    <3> QED
      BY <1>0, <1>11, <3>1, <3>2, <3>3, WaitOther DEF Classify
  <2> QED
    BY <1>11, <2>1, <2>2, <2>3, Zenon DEF Classify
<1>12. CASE UNCHANGED vars
  BY <1>12, WaitKept DEF vars
<1> QED
  BY <1>1, <1>2, <1>3, <1>4, <1>5, <1>6, <1>7, <1>8, <1>10, <1>11, <1>12, <1>13 DEF Next

----------------------------------------------------------------------------
(* Where the block rows are. *)

\* A height that a window of heights below R does not keep is NAVG below R.
LEMMA DroppedIsOld ==
  ASSUME NEW S, S \subseteq Nat, NEW R \in Nat, \A s \in S : s < R,
         NEW x \in S, x \notin W!Greatest(S, NAVG)
  PROVE  x < R - NAVG
<1> DEFINE Above == {y \in S : y > x}
           lo == x + 1
           hi == R - 1
<1>1. x \in Nat /\ NAVG \in Nat /\ lo \in Int /\ hi \in Int /\ lo <= R
  BY BoundsAssumption
<1>2. ~(Cardinality(Above) < NAVG)
  <2>1. \A T : W!Cardinality(T) = Cardinality(T)
    BY Zenon DEF W!Cardinality, Cardinality
  <2> QED
    BY <2>1, Zenon DEF W!Greatest
<1>3. ASSUME NEW y \in Above PROVE y \in lo .. hi
  <2>1. y \in Nat /\ y > x /\ y < R
    BY <1>3
  <2> QED
    BY <1>1, <2>1
<1>4. IsFiniteSet(lo .. hi) /\ Cardinality(lo .. hi) = IF lo > hi THEN 0 ELSE hi - lo + 1
  <2> HIDE DEF lo, hi
  <2> QED
    BY <1>1, FS_Interval
<1>5. IsFiniteSet(Above) /\ Cardinality(Above) <= Cardinality(lo .. hi)
  <2> HIDE DEF Above, lo, hi
  <2> QED
    BY <1>3, <1>4, FS_Subset
<1>6. Cardinality(Above) \in Nat
  BY <1>5, FS_CardinalityType
<1>7. CASE lo > hi
  <2> HIDE DEF Above
  <2> QED
    BY <1>1, <1>2, <1>4, <1>5, <1>6, <1>7
<1>8. CASE ~(lo > hi)
  <2>1. Cardinality(lo .. hi) = R - 1 - x
    <3>1. hi - lo + 1 = R - 1 - x
      BY <1>1
    <3> QED
      BY <1>4, <1>8, <3>1, Zenon
  <2> HIDE DEF Above, lo, hi
  <2> QED
    BY <1>1, <1>2, <1>5, <1>6, <2>1
<1> QED
  BY <1>7, <1>8

\* AddBlock keeps the heights of both windows, and the one given, except for
\* those that are too old.
LEMMA AddBlockKeeps ==
  ASSUME Types, NEW kind \in {"slow", "fast", "failed"}, NEW k \in Height, AddBlock(kind, k),
         NEW R \in Height, \A s \in slow \cup fast \cup {k} : s < R
  PROVE  /\ \A s \in slow' \cup fast' : s < R
         /\ \A s \in slow \cup fast : s \in slow' \cup fast' \/ s < R - NAVG
         /\ kind # "failed" => k \in slow' \cup fast' \/ k < R - NAVG
<1>1. slow \cup {k} \subseteq Nat /\ fast \cup {k} \subseteq Nat /\ R \in Nat
  BY BoundsAssumption DEF Types, Height
<1>2. \A x \in slow \cup {k} : x \in W!Greatest(slow \cup {k}, NAVG) \/ x < R - NAVG
  BY <1>1, DroppedIsOld
<1>3. \A x \in fast \cup {k} : x \in W!Greatest(fast \cup {k}, NAVG) \/ x < R - NAVG
  BY <1>1, DroppedIsOld
<1>4. slow' \subseteq slow \cup {k} /\ fast' \subseteq fast \cup {k}
  BY AddBlockSubset
<1>5. CASE kind = "slow"
  BY <1>2, <1>4, <1>5 DEF AddBlock
<1>6. CASE kind = "fast"
  BY <1>3, <1>4, <1>6 DEF AddBlock
<1>7. CASE kind = "failed"
  BY <1>4, <1>7 DEF AddBlock
<1> QED
  BY <1>5, <1>6, <1>7

\* Steps that open no block keep the rows and the windows, and the block that
\* is the upcoming one.
LEMMA LostKept ==
  ASSUME LostInv, UNCHANGED <<slow, fast, blocks, lost>>, Upcoming' = Upcoming, Due' = Due
  PROVE  LostInv'
  BY DEF LostInv, Doomed

\* Every step keeps it.
LEMMA LostStep ==
  Types /\ ProcInv /\ WindowInv /\ WaitInv /\ LostInv /\ [Next]_vars => LostInv'
<1> SUFFICES ASSUME Types, ProcInv, WindowInv, WaitInv, LostInv, [Next]_vars PROVE LostInv'
  OBVIOUS
<1>0. /\ Poller \in Procs /\ None \notin Procs
      /\ \A r \in Reqs : r \in Procs
      /\ \A q \in Procs : call[q].pc \in Opening => mu = q
      /\ mu # None => mu \in Procs /\ call[mu].pc \in Opening
  BY NamesAssumption DEF Procs, Reqs, ProcInv, CallOK, WaitInv, Types, Opening
<1>a. ASSUME UNCHANGED <<cur, mu, call, slow, fast, blocks, lost>> PROVE LostInv'
  <2>1. Upcoming' = Upcoming /\ Due' = Due
    BY <1>a DEF Upcoming, Due
  <2> QED
    BY <1>a, <2>1, LostKept
\* A call that neither has the lock nor gets it.
<1>b. ASSUME NEW p \in Procs, call[p].pc \notin Opening, call'[p].pc \notin Opening,
             UNCHANGED <<cur, mu, slow, fast, blocks, lost>>,
             \A q \in Procs \ {p} : call'[q] = call[q]
      PROVE  LostInv'
  <2>1. Upcoming' = Upcoming
    BY <1>0, <1>b DEF Upcoming
  <2>2. Due' = Due
    BY <1>b, DueKept DEF Opening
  <2> QED
    BY <1>b, <2>1, <2>2, LostKept
<1>1. CASE ChainGrows
  BY <1>1, <1>a DEF ChainGrows
<1>2. CASE Poll
  BY <1>0, <1>2, <1>b, PollCall DEF Poll, Opening
<1>3. ASSUME NEW p \in Procs, ReadOld(p) PROVE LostInv'
  <2>1. /\ call[p].pc = "read" /\ call'[p].pc = "lock"
        /\ \A q \in Procs \ {p} : call'[q] = call[q]
    BY <1>3 DEF ReadOld, Types, CallType
  <2> QED
    BY <1>3, <1>b, <2>1 DEF ReadOld, Opening
<1>4. ASSUME NEW p \in Procs, NoNewBlock(p) PROVE LostInv'
  <2>1. /\ call[p].pc = "lock" /\ call'[p].pc = "idle"
        /\ \A q \in Procs \ {p} : call'[q] = call[q]
    BY <1>4 DEF NoNewBlock, Types, IdleCall
  <2> QED
    BY <1>4, <1>b, <2>1 DEF NoNewBlock, Released, Opening
<1>5. ASSUME NEW p \in Procs, FillWindow(p) PROVE LostInv'
  <2> DEFINE h == call[p].h
             x == IF Newer(p) THEN cur ELSE h
             R == IF Newer(p) THEN h ELSE cur
  <2>0. /\ UNCHANGED <<cur, blocks>> /\ mu = None /\ mu' = p /\ call'[p].h = h
        /\ Due = {} /\ Due' = {h}
    BY <1>5, FillCall, FillDue DEF FillWindow
  <2>1. CASE h \in blocks
    <3>1. Doomed'
      BY <2>0, <2>1 DEF Doomed
    <3> QED
      BY <3>1 DEF LostInv
  <2>2. CASE h \notin blocks
    <3>1. Upcoming = cur /\ ~Doomed
      BY <2>0 DEF Upcoming, Doomed
    <3>5. Upcoming' = R
      BY <1>0, <2>0 DEF Upcoming, Newer
    <3>6. /\ h \in Height /\ cur \in Height /\ cur \in blocks /\ blocks \subseteq Height
          /\ NAVG \in Nat /\ Height \subseteq Nat
      <4>1. h \in Height
        BY <1>5 DEF FillWindow, ProcInv, CallOK
      <4>2. cur \in Height /\ blocks \subseteq Height
        BY DEF Types
      <4>3. cur \in blocks
        BY DEF WindowInv
      <4>4. NAVG \in Nat /\ Height \subseteq Nat
        BY BoundsAssumption DEF Height
      <4> QED
        BY <4>1, <4>2, <4>3, <4>4
    <3>7. x < R /\ cur <= R /\ x \in Height /\ R \in Height
      <4>1. h # cur /\ h \in Nat /\ cur \in Nat
        BY <2>2, <3>6
      <4>2. CASE h > cur
        BY <3>6, <4>1, <4>2 DEF Newer
      <4>3. CASE ~(h > cur)
        BY <3>6, <4>1, <4>3 DEF Newer
      <4> QED
        BY <4>2, <4>3
    <3>8. /\ \A s \in slow \cup fast : s < cur
          /\ \A b \in blocks : b = cur \/ b \in slow \cup fast \cup lost \/ b < cur - NAVG
          /\ \A b \in blocks : b <= cur
      BY <3>1 DEF LostInv
    <3>9. PICK kind \in {"slow", "fast", "failed"} :
            /\ AddBlock(IF Newer(p) \/ kind # "failed" THEN kind ELSE "slow", x)
            /\ lost' = IF Newer(p) /\ kind = "failed" THEN lost \cup {cur} ELSE lost
      BY <1>5, Zenon DEF FillWindow
    <3> DEFINE as == IF Newer(p) \/ kind # "failed" THEN kind ELSE "slow"
    <3>10. /\ \A s \in slow' \cup fast' : s < R
           /\ \A s \in slow \cup fast : s \in slow' \cup fast' \/ s < R - NAVG
           /\ as # "failed" => x \in slow' \cup fast' \/ x < R - NAVG
      <4>1. as \in {"slow", "fast", "failed"} /\ AddBlock(as, x)
        BY <3>9
      <4>2. \A s \in slow \cup fast \cup {x} : s < R
        <5> HIDE DEF x, R
        <5>1. slow \subseteq Nat /\ fast \subseteq Nat /\ R \in Nat /\ cur \in Nat
          BY <3>6, <3>7 DEF Types
        <5> QED
          BY <3>7, <3>8, <5>1
      <4> HIDE DEF as, x, R
      <4> QED
        BY <3>7, <4>1, <4>2, AddBlockKeeps
    <3>11. ASSUME NEW b \in blocks
           PROVE  /\ b = R \/ b \in slow' \cup fast' \cup lost' \/ b < R - NAVG
                  /\ b <= R
      <4>1. b \in Nat /\ cur \in Nat /\ R \in Nat /\ b <= cur
        BY <3>6, <3>7, <3>8
      <4>2. lost \subseteq lost'
        BY <3>9
      <4>3. CASE b = cur
        <5>1. CASE ~Newer(p)
          <6>1. R = cur
            BY <5>1
          <6> QED
            BY <4>1, <4>3, <6>1
        <5>2. CASE Newer(p)
          BY <3>7, <3>9, <3>10, <4>3, <5>2
        <5> QED
          BY <3>7, <4>1, <4>3, <5>1, <5>2
      <4>4. CASE b # cur
        <5> HIDE DEF R
        <5> QED
          BY <3>6, <3>7, <3>8, <3>10, <4>1, <4>2, <4>4
      <4> QED
        BY <4>3, <4>4
    <3>12. h = R \/ h \in slow' \cup fast' \/ h < R - NAVG
      BY <3>10
    <3>13. h <= R
      <4>1. h \in Nat /\ cur \in Nat
        BY <3>6
      <4> QED
        BY <4>1 DEF Newer
    <3> HIDE DEF R, h
    <3>14. blocks' \cup Due' = blocks \cup {h}
      BY <2>0
    <3> QED
      BY <3>5, <3>10, <3>11, <3>12, <3>13, <3>14 DEF LostInv
  <2> QED
    BY <2>1, <2>2
<1>14. ASSUME NEW p \in Procs, InsertBlock(p) PROVE LostInv'
  <2>1. CASE call[p].h \in blocks
    BY <1>14, <1>a, <2>1, InsertPanics
  <2>2. CASE call[p].h \notin blocks
    <3>1. /\ blocks' \cup Due' = blocks \cup Due /\ ~Doomed
          /\ UNCHANGED <<cur, slow, fast, lost, mu>> /\ mu = p
          /\ call'[p].h = call[p].h
      BY <1>0, <1>14, <2>2, InsertCall, InsertDue DEF InsertBlock, Doomed, Opening
    <3>2. Upcoming' = Upcoming
      BY <3>1 DEF Upcoming
    <3> QED
      BY <3>1, <3>2 DEF LostInv
  <2> QED
    BY <2>1, <2>2
<1>6. ASSUME NEW p \in Procs, VisitMiner(p) PROVE LostInv'
  <2>1. PICK m \in Miners : call' = [call EXCEPT ![p].seen = @ \cup {cache[m]}]
    BY <1>6 DEF VisitMiner
  <2>2. \A q \in Procs : call'[q].h = call[q].h
    BY <2>1 DEF Types, CallType
  <2>3. Upcoming' = Upcoming
    BY <1>0, <1>6, <2>2 DEF VisitMiner, Upcoming
  <2>4. Due' = Due
    BY <1>6, <2>1, DueKept DEF VisitMiner, Types, CallType
  <2> QED
    BY <1>6, <2>3, <2>4, LostKept DEF VisitMiner
<1>7. ASSUME NEW p \in Procs, FinishBlock(p) PROVE LostInv'
  <2>1. mu = p /\ mu' = None /\ cur' = IF call[p].h > cur THEN call[p].h ELSE cur
    BY <1>0, <1>7 DEF FinishBlock, Newer, Opening
  <2>2. Upcoming' = Upcoming
    BY <1>0, <2>1 DEF Upcoming
  <2>3. Due' = Due
    BY <1>7, DueKept DEF FinishBlock, Types, IdleCall
  <2> QED
    BY <1>7, <2>2, <2>3, LostKept DEF FinishBlock
<1>8. ASSUME NEW r \in Reqs, Start(r) \/ SubmitCurrent(r) \/ SubmitOld(r) \/ Insert(r) PROVE LostInv'
  BY <1>8, <1>a DEF Start, SubmitCurrent, SubmitOld, Insert
<1>10. ASSUME NEW r \in Reqs, Classify(r) PROVE LostInv'
  <2>1. CASE call' = call
    BY <1>10, <1>a, <2>1 DEF Classify
  <2>2. CASE call' = [call EXCEPT ![r] = [IdleCall EXCEPT !.pc = "read", !.h = req[r].h]]
    <3>1. call[r].pc \notin Opening
      BY <1>0, <1>10 DEF Classify, Entering, ProcInv, CallOK, Opening
    <3>2. call'[r].pc = "read" /\ \A q \in Procs \ {r} : call'[q] = call[q]
      BY <1>0, <2>2 DEF Types, IdleCall
    <3> QED
      BY <1>0, <1>10, <1>b, <3>1, <3>2 DEF Classify, Opening
  <2> QED
    BY <1>10, <2>1, <2>2, Zenon DEF Classify
<1>13. CASE UNCHANGED vars
  BY <1>13, <1>a DEF vars
<1> QED
  BY <1>1, <1>2, <1>3, <1>4, <1>5, <1>6, <1>7, <1>8, <1>10, <1>13, <1>14 DEF Next

\* A row that is due is there already for one of two reasons, which stay; the
\* INSERT alone panics, and nothing runs after it did.
LEMMA DoomStep ==
  Types /\ ProcInv /\ WindowInv /\ LostInv /\ DoomInv /\ [Next]_vars => DoomInv'
<1> SUFFICES ASSUME Types, ProcInv, WindowInv, LostInv, DoomInv, [Next]_vars PROVE DoomInv'
  OBVIOUS
<1>0. /\ None \notin Procs /\ Poller \in Procs /\ \A r \in Reqs : r \in Procs
      /\ \A q \in Procs : call[q].pc \in Opening => mu = q
  BY NamesAssumption DEF Procs, Reqs, ProcInv, CallOK, Opening
\* Steps of others, while the row is due.
<1>a. ASSUME ~panicked', UNCHANGED <<cur, blocks, lost>>,
             \A q \in Procs : call'[q].pc = "row" => call'[q] = call[q]
      PROVE  DoomInv'
  BY <1>a DEF DoomInv
<1>b. ASSUME ~panicked', \A q \in Procs : call'[q].pc # "row" PROVE DoomInv'
  BY <1>b DEF DoomInv
<1>1. ASSUME NEW p \in Procs, FillWindow(p) PROVE DoomInv'
  <2> DEFINE h == call[p].h
  <2>1. /\ UNCHANGED <<cur, blocks>> /\ ~panicked' /\ mu = None
        /\ call'[p].h = h /\ call'[p].old = call[p].old
        /\ Due = {} /\ \A q \in Procs \ {p} : call'[q] = call[q]
    BY <1>1, FillCall, FillDue DEF FillWindow
  <2>2. lost \subseteq lost'
    <3>1. PICK kind \in {"slow", "fast", "failed"} :
            lost' = IF Newer(p) /\ kind = "failed" THEN lost \cup {cur} ELSE lost
      BY <1>1 DEF FillWindow
    <3> QED
      BY <3>1
  <2>3. h # call[p].old /\ h \notin slow \cup fast /\ ~(h < cur - NAVG)
    BY <1>1 DEF FillWindow, Refused, WasSlowBlock
  <2>4. ASSUME h \in blocks PROVE h = cur \/ h \in lost
    <3>1. ~Doomed /\ Upcoming = cur
      BY <2>1 DEF Doomed, Upcoming
    <3> QED
      BY <2>3, <2>4, <3>1 DEF LostInv
  <2>5. \A q \in Procs \ {p} : call'[q].pc # "row"
    BY <1>0, <2>1 DEF Opening
  <2> HIDE DEF h
  <2> QED
    BY <2>1, <2>2, <2>3, <2>4, <2>5 DEF DoomInv
<1>2. ASSUME NEW p \in Procs, InsertBlock(p) PROVE DoomInv'
  <2>1. CASE call[p].h \in blocks
    <3>1. UNCHANGED <<cur, blocks, call, lost>> /\ call[p].pc = "row"
      BY <1>2, <2>1, InsertPanics
    <3>2. Doomed'
      BY <2>1, <3>1 DEF Doomed, Due
    <3> QED
      BY <3>1, <3>2 DEF DoomInv
  <2>2. CASE call[p].h \notin blocks
    <3>1. ~panicked' /\ Due' = {}
      BY <1>2, <2>2, InsertCall, InsertDue DEF InsertBlock
    <3> QED
      BY <1>b, <3>1 DEF Due
  <2> QED
    BY <2>1, <2>2
<1>3. ASSUME NEW p \in Procs, FinishBlock(p) PROVE DoomInv'
  <2>1. call'[p].pc = "idle" /\ \A q \in Procs \ {p} : call'[q] = call[q]
    BY <1>3 DEF FinishBlock, Types, IdleCall
  <2>2. \A q \in Procs \ {p} : call[q].pc # "row"
    BY <1>0, <1>3 DEF FinishBlock, Opening
  <2> QED
    BY <1>3, <1>b, <2>1, <2>2 DEF FinishBlock
<1>4. CASE ChainGrows
  BY <1>4, <1>a DEF ChainGrows
<1>5. CASE Poll
  BY <1>0, <1>5, <1>a, PollCall DEF Poll
<1>6. ASSUME NEW p \in Procs, ReadOld(p) PROVE DoomInv'
  <2>1. call'[p].pc = "lock" /\ \A q \in Procs \ {p} : call'[q] = call[q]
    BY <1>6 DEF ReadOld, Types, CallType
  <2> QED
    BY <1>6, <1>a, <2>1 DEF ReadOld
<1>7. ASSUME NEW p \in Procs, NoNewBlock(p) PROVE DoomInv'
  <2>1. call'[p].pc = "idle" /\ \A q \in Procs \ {p} : call'[q] = call[q]
    BY <1>7 DEF NoNewBlock, Types, IdleCall
  <2> QED
    BY <1>7, <1>a, <2>1 DEF NoNewBlock
<1>8. ASSUME NEW p \in Procs, VisitMiner(p) PROVE DoomInv'
  <2>1. call'[p].pc = "range" /\ \A q \in Procs \ {p} : call'[q] = call[q]
    BY <1>8 DEF VisitMiner, Types, CallType
  <2> QED
    BY <1>8, <1>a, <2>1 DEF VisitMiner
<1>9. ASSUME NEW r \in Reqs, Start(r) \/ SubmitCurrent(r) \/ SubmitOld(r) \/ Insert(r) PROVE DoomInv'
  BY <1>9, <1>a DEF Start, SubmitCurrent, SubmitOld, Insert, Entering
<1>10. ASSUME NEW r \in Reqs, Classify(r) PROVE DoomInv'
  <2>1. \A q \in Procs : call'[q].pc = "row" => call'[q] = call[q]
    <3>1. CASE call' = call
      BY <3>1
    <3>2. CASE call' = [call EXCEPT ![r] = [IdleCall EXCEPT !.pc = "read", !.h = req[r].h]]
      BY <1>0, <3>2 DEF Types, IdleCall
    <3> QED
      BY <1>10, <3>1, <3>2, Zenon DEF Classify
  <2> QED
    BY <1>10, <1>a, <2>1 DEF Classify, Entering
<1>11. CASE UNCHANGED vars
  BY <1>11 DEF vars, DoomInv, Doomed, Due
<1> QED
  BY <1>1, <1>2, <1>3, <1>4, <1>5, <1>6, <1>7, <1>8, <1>9, <1>10, <1>11 DEF Next

----------------------------------------------------------------------------
\* The pool has just started.
LEMMA InitInv == Init => RoundsInv
<1> SUFFICES ASSUME Init PROVE RoundsInv
  OBVIOUS
<1> USE BoundsAssumption, NamesAssumption
<1>1. Types
  <2>1. First \in Height
    BY DEF Height
  <2>2. NoDeadlines \in [Height -> 0 .. MaxDeadline]
    BY DEF NoDeadlines
  <2>3. /\ rows \in [Miners -> [Height -> 0 .. MaxDeadline]]
        /\ obj \in [Objects -> ObjType] /\ req \in [Reqs -> ReqType] /\ call \in [Procs -> CallType]
    BY <2>2, IdleTypes DEF Init
  <2>4. used \in 0 .. MaxObjects /\ cache \in [Miners -> 0 .. MaxObjects]
    BY DEF Init
  <2>5. /\ chain \in Height /\ cur \in Height
        /\ slow \subseteq Height /\ fast \subseteq Height /\ blocks \subseteq Height
        /\ mu \in Procs \cup {None} /\ panicked \in BOOLEAN /\ lost \subseteq Height
    BY <2>1, Zenon DEF Init
  <2> QED
    BY <2>3, <2>4, <2>5 DEF Types
<1>2. ProcInv
  BY DEF Init, ProcInv, ReqOK, CallOK, IdleReq, IdleCall
<1>a. (\A p \in Procs : call[p].pc = "idle") /\ Due = {}
  BY DEF Init, IdleCall, Due
<1>3. WindowInv
  BY <1>a DEF Init, WindowInv, WindowsConsistent, Opening
<1>4. MemoryInv
  <2>1. \A o \in Objects : obj[o] = NewMiner
    BY DEF Init
  <2>2. NewMiner.params \cup ({NewMiner.cur} \ {0}) = {}
    BY DEF NewMiner
  <2>3. \A m \in Miners, o \in Objects : ~Held(m, o)
    BY DEF Init, Held, IdleReq
  <2>4. \A r \in Reqs : req[r].pc # "old"
    BY DEF Init, IdleReq
  <2> QED
    BY <2>1, <2>2, <2>3, <2>4 DEF MemoryInv
<1>5. WaitInv
  BY DEF Init, WaitInv, IdleReq, IdleCall
<1>6. LostInv
  BY <1>a DEF Init, LostInv, Upcoming
<1>7. DoomInv
  BY <1>a DEF Init, DoomInv
<1> QED
  BY <1>1, <1>2, <1>3, <1>4, <1>5, <1>6, <1>7 DEF RoundsInv

\* The inductive invariant holds.
THEOREM RoundsInvariant == Spec => []RoundsInv
<1>1. RoundsInv /\ [Next]_vars => RoundsInv'
  BY TypesStep, ProcStep, WindowStep, MemoryStep, WaitStep, LostStep, DoomStep DEF RoundsInv
<1> QED
  BY <1>1, InitInv, PTL DEF Spec

\* Heights, rows, objects and locks keep their types; in particular the height
\* newBlock removes is one a window held, and every running submission has an
\* object of the bounded pool.
THEOREM RoundsTypes == Spec => []TypeOK
<1>1. RoundsInv => TypeOK
  BY TypeParts DEF RoundsInv
<1> QED
  BY <1>1, RoundsInvariant, PTL

\* WasSlowBlock classifies a height once, and every height in a window or in
\* the current round has its block row or is the one whose INSERT is next:
\* whatever number of callers opens blocks, in whatever order they get
\* newBlockMu.
THEOREM WindowsAgree == Spec => []WindowsConsistent
<1>1. RoundsInv => WindowsConsistent
  BY DEF RoundsInv, WindowInv
<1> QED
  BY <1>1, RoundsInvariant, PTL

\* What UpdateOrCreateNonceSubmission, addDeadlineParams and
\* removeDeadlineParams leave in a cached miner is what nonce_submission says.
THEOREM MemoryAgrees == Spec => []MemoryMatchesRows
<1>1. RoundsInv => MemoryMatchesRows
  <2> SUFFICES ASSUME RoundsInv, NEW m \in Miners, cache[m] # 0,
                      NEW h \in obj[cache[m]].params \cup ({obj[cache[m]].cur} \ {0})
               PROVE  obj[cache[m]].dl[h] = rows[m][h]
    BY DEF MemoryMatchesRows
  <2> DEFINE o == cache[m]
  <2>1. o \in Objects
    BY BoundsAssumption DEF RoundsInv, Types, Objects
  <2>2. obj[o] \in ObjType
    BY <2>1 DEF RoundsInv, Types
  <2>3. h \in Height
    BY <2>2, BoundsAssumption DEF ObjType, Height
  <2>4. Held(m, o)
    BY DEF Held
  <2>5. obj[o].dl[h] # 0
    BY <2>1 DEF RoundsInv, MemoryInv
  <2> QED
    BY <2>1, <2>3, <2>4, <2>5 DEF RoundsInv, MemoryInv
<1> QED
  BY <1>1, RoundsInvariant, PTL

\* UPDATE nonce_submission only ever lowers a deadline, and no step removes
\* one: the deadline a handler compares with in memory is the one of the row.
THEOREM RowsOnlyImprove == Spec => RowsImprove
<1> DEFINE Better == \A m \in Miners, h \in Height :
                       rows[m][h] # 0 => rows'[m][h] # 0 /\ rows'[m][h] <= rows[m][h]
<1>1. ASSUME RoundsInv, [Next]_vars PROVE Better
  <2>1. \A m \in Miners, h \in Height : rows[m][h] \in 0 .. MaxDeadline
    BY <1>1 DEF RoundsInv, Types
  <2>2. ASSUME rows' = rows PROVE Better
    BY <2>1, <2>2, BoundsAssumption
  <2>3. ASSUME NEW r \in Reqs, req[r].pc \notin {"idle", "done"},
               Improves(r) \/ rows[req[r].miner][req[r].h] = 0,
               rows' = [rows EXCEPT ![req[r].miner][req[r].h] = req[r].d]
        PROVE  Better
    <3> DEFINE q == req[r]
    <3>1. /\ q.miner \in Miners /\ q.o \in Objects /\ q.h \in Height
          /\ q.d \in 1 .. MaxDeadline /\ Held(q.miner, q.o) /\ obj[q.o] \in ObjType
      BY <1>1, <2>3, HolderIs DEF RoundsInv, ProcInv, ReqOK, Types
    <3>2. /\ rows'[q.miner][q.h] = q.d
          /\ \A m \in Miners, h \in Height : m # q.miner \/ h # q.h => rows'[m][h] = rows[m][h]
      BY <1>1, <2>3, <3>1 DEF RoundsInv, Types
    <3>3. rows[q.miner][q.h] # 0 => q.d < rows[q.miner][q.h]
      <4>1. CASE Improves(r)
        <5>1. obj[q.o].dl[q.h] # 0 /\ q.d < obj[q.o].dl[q.h]
          BY <3>1, <4>1, BoundsAssumption DEF Improves, ObjType
        <5>2. obj[q.o].dl[q.h] = rows[q.miner][q.h]
          BY <1>1, <3>1, <5>1 DEF RoundsInv, MemoryInv
        <5> QED
          BY <5>1, <5>2
      <4> QED
        BY <2>3, <4>1
    <3>4. q.d # 0 /\ (rows[q.miner][q.h] # 0 => q.d <= rows[q.miner][q.h])
      BY <2>1, <3>1, <3>3, BoundsAssumption
    <3> HIDE DEF q
    <3> QED
      BY <2>1, <3>1, <3>2, <3>4, BoundsAssumption
  <2>4. ASSUME NEW r \in Reqs, SubmitCurrent(r) PROVE Better
    BY <2>2, <2>3, <2>4 DEF SubmitCurrent, Entering
  <2>5. ASSUME NEW r \in Reqs, SubmitOld(r) PROVE Better
    BY <2>2, <2>3, <2>5 DEF SubmitOld
  <2>6. ASSUME NEW r \in Reqs, Insert(r) PROVE Better
    BY <2>2, <2>3, <2>6 DEF Insert, Insertable
  <2>7. ASSUME NEW p \in Procs,
               \/ ReadOld(p) \/ NoNewBlock(p) \/ FillWindow(p) \/ InsertBlock(p)
               \/ VisitMiner(p) \/ FinishBlock(p)
        PROVE  rows' = rows
    BY <2>7 DEF ReadOld, NoNewBlock, FillWindow, InsertBlock, VisitMiner, FinishBlock
  <2>8. ASSUME NEW r \in Reqs, Start(r) \/ Classify(r) PROVE rows' = rows
    BY <2>8 DEF Start, Classify
  <2>9. ASSUME ChainGrows \/ Poll \/ UNCHANGED vars PROVE rows' = rows
    BY <2>9 DEF ChainGrows, Poll, vars
  <2> QED
    BY <1>1, <2>2, <2>4, <2>5, <2>6, <2>7, <2>8, <2>9 DEF Next
<1>2. RoundsInv /\ [Next]_vars => [Better]_vars
  BY <1>1
<1> QED
  BY <1>2, RoundsInvariant, PTL DEF Spec, RowsImprove

\* StoreCurrentBlock never stores an older block, however late its caller
\* gets newBlockMu.
THEOREM RoundNeverBack == Spec => RoundAdvances
<1>1. ASSUME RoundsInv, [Next]_vars PROVE cur' >= cur
  <2>1. cur \in Height
    BY <1>1 DEF RoundsInv, Types
  <2>2. ASSUME cur' = cur PROVE cur' >= cur
    BY <2>1, <2>2, BoundsAssumption DEF Height
  <2>3. ASSUME NEW p \in Procs, FinishBlock(p) PROVE cur' >= cur
    <3>1. call[p].h \in Height
      BY <1>1, <2>3 DEF RoundsInv, ProcInv, CallOK, FinishBlock
    <3> QED
      BY <2>1, <2>3, <3>1, BoundsAssumption DEF FinishBlock, Newer, Height
  <2>4. ASSUME NEW p \in Procs,
               ReadOld(p) \/ NoNewBlock(p) \/ FillWindow(p) \/ InsertBlock(p) \/ VisitMiner(p)
        PROVE  cur' = cur
    BY <2>4 DEF ReadOld, NoNewBlock, FillWindow, InsertBlock, VisitMiner
  <2>5. ASSUME NEW r \in Reqs,
               Start(r) \/ SubmitCurrent(r) \/ Classify(r) \/ SubmitOld(r) \/ Insert(r)
        PROVE  cur' = cur
    BY <2>5 DEF Start, SubmitCurrent, Classify, SubmitOld, Insert
  <2>6. ASSUME ChainGrows \/ Poll \/ UNCHANGED vars PROVE cur' = cur
    BY <2>6 DEF ChainGrows, Poll, vars
  <2> QED
    BY <1>1, <2>2, <2>3, <2>4, <2>5, <2>6 DEF Next
<1>2. RoundsInv /\ [Next]_vars => [cur' >= cur]_vars
  BY <1>1
<1> QED
  BY <1>2, RoundsInvariant, PTL DEF Spec, RoundAdvances

\* newBlock cannot meet a block row in any other way than the two that
\* PanicExplained names, for any number of submissions and any window length:
\* a row is of the current block, in a window, without a generation time, or
\* NAVG below the current block, where Refused stops the call.
THEOREM PanicsExplained == Spec => []PanicExplained
<1>1. RoundsInv => PanicExplained
  BY DEF RoundsInv, DoomInv, Doomed, Due, PanicExplained
<1> QED
  BY <1>1, RoundsInvariant, PTL

\* Handlers hold a dbMu and wait for newBlockMu, newBlock holds newBlockMu and
\* goes through all miners: there is never a circle of them, whatever their
\* number.
THEOREM NobodyEverHangs == Spec => []NobodyHangs
<1>1. RoundsInv => NobodyHangs
  <2> SUFFICES ASSUME RoundsInv, ~panicked, NEW r \in Reqs, req[r].pc \notin {"idle", "done"}
               PROVE  NobodyHangs
    BY DEF NobodyHangs
  <2>0. Types /\ ProcInv /\ WaitInv /\ r \in Procs /\ None \notin Procs
    BY NamesAssumption DEF RoundsInv, Procs, Reqs
  \* The holder of newBlockMu finds a miner or has seen all.
  <2>1. ASSUME NEW p \in Procs, call[p].pc = "range" PROVE NobodyHangs
    <3>1. CASE call[p].todo \subseteq call[p].seen
      BY <2>1, <3>1 DEF NobodyHangs
    <3>2. CASE ~(call[p].todo \subseteq call[p].seen)
      <4>1. PICK o \in call[p].todo : o \notin call[p].seen
        BY <3>2
      <4>2. PICK m \in Miners : cache[m] = o
        BY <2>0, <2>1, <4>1 DEF WaitInv
      <4>3. o # 0
        BY <2>0, <2>1, BoundsAssumption DEF Types, CallType, Objects
      <4> QED
        BY <2>1, <4>1, <4>2, <4>3 DEF NobodyHangs
    <3> QED
      BY <3>1, <3>2
  \* A submission with a call gets on, or the one it waits for does.
  <2>2. ASSUME NEW q \in Reqs, req[q].pc = "open" PROVE NobodyHangs
    <3>1. q \in Procs /\ call[q].pc \in {"read", "lock", "row", "range"}
      BY <2>0, <2>2 DEF WaitInv, Types, CallType, Procs
    <3>2. CASE mu = None
      BY <2>1, <3>1, <3>2 DEF NobodyHangs
    <3>3. CASE mu # None
      <4>1. mu \in Procs /\ call[mu].pc \in {"row", "range"}
        BY <2>0, <3>3 DEF WaitInv, Types, Opening
      <4> QED
        BY <2>1, <4>1 DEF NobodyHangs
    <3> QED
      BY <3>2, <3>3
  <2>3. ASSUME NEW q \in Reqs, req[q].pc \in {"old", "open", "insert"} PROVE NobodyHangs
    BY <2>2, <2>3 DEF NobodyHangs
  <2>4. CASE req[r].pc = "enter"
    <3>1. CASE Busy(req[r].o)
      BY <2>3, <3>1 DEF Busy
    <3>2. CASE ~Busy(req[r].o)
      BY <2>4, <3>2 DEF NobodyHangs, Entering
    <3> QED
      BY <3>1, <3>2
  <2>5. req[r].pc \in {"enter", "old", "open", "insert"}
    BY <2>0 DEF Types, ReqType
  <2> QED
    BY <2>3, <2>4, <2>5
<1> QED
  BY <1>1, RoundsInvariant, PTL

----------------------------------------------------------------------------
(* A pool without nodes. *)

\* The poller alone opens blocks, so that the current block is still the one it
\* has read when it gets newBlockMu.
PollerInv ==
  /\ \A p \in Procs : call[p].pc \in Opening => p = Poller
  /\ call[Poller].pc = "lock" => call[Poller].old = cur
  /\ call[Poller].pc = "row" => call[Poller].h # cur
  /\ call[Poller].pc # "read"

\* Submissions over HTTP come without a signature and open nothing.
LEMMA PollerStep ==
  ASSUME NodeReqs = {}, RoundsInv, PollerInv, [Next]_vars
  PROVE  PollerInv'
<1>0. /\ Types /\ ProcInv /\ Poller \in Procs /\ Poller \notin Reqs
      /\ \A p \in Procs : p = Poller \/ p \in HttpReqs
      /\ \A r \in Reqs : r \in Procs
  BY NamesAssumption DEF RoundsInv, Procs, Reqs
\* Submissions, and their calls, which open nothing.
<1>a. ASSUME cur' = cur, call'[Poller] = call[Poller],
             \A p \in Procs : call'[p].pc \in Opening => call[p].pc \in Opening
      PROVE  PollerInv'
  BY <1>0, <1>a DEF PollerInv
\* The end of the poller's call.
<1>b. ASSUME call'[Poller].pc = "idle", \A q \in Procs \ {Poller} : call'[q] = call[q]
      PROVE  PollerInv'
  BY <1>0, <1>b DEF PollerInv, Opening
<1>2. CASE ChainGrows
  BY <1>2, <1>a DEF ChainGrows
<1>3. CASE Poll
  <2>1. /\ call'[Poller].pc = "lock" /\ call'[Poller].old = cur
        /\ \A q \in Procs \ {Poller} : call'[q] = call[q]
    BY <1>0, <1>3, PollCall
  <2> QED
    BY <1>3, <2>1 DEF Poll, PollerInv, Opening
<1>4. ASSUME NEW p \in Procs, ReadOld(p) PROVE PollerInv'
  <2>1. /\ call'[p].pc = "lock" /\ call[p].pc = "read"
        /\ \A q \in Procs \ {p} : call'[q] = call[q]
    BY <1>0, <1>4 DEF ReadOld, Types, CallType
  <2>2. p # Poller
    BY <2>1 DEF PollerInv
  <2> QED
    BY <1>0, <1>4, <1>a, <2>1, <2>2 DEF ReadOld, Opening
<1>5. ASSUME NEW p \in Procs, NoNewBlock(p) PROVE PollerInv'
  <2>1. call'[p].pc = "idle" /\ \A q \in Procs \ {p} : call'[q] = call[q]
    BY <1>0, <1>5 DEF NoNewBlock, Types, IdleCall
  <2>2. CASE p = Poller
    BY <1>b, <2>1, <2>2
  <2>3. CASE p # Poller
    BY <1>0, <1>5, <1>a, <2>1, <2>3 DEF NoNewBlock, Opening
  <2> QED
    BY <2>2, <2>3
<1>6. ASSUME NEW p \in Procs, FillWindow(p) PROVE PollerInv'
  <2>1. p = Poller /\ call[p].h # call[p].old /\ cur' = cur
    BY <1>0, <1>6 DEF FillWindow, Refused
  <2>2. /\ call[p].pc = "lock" /\ call'[p].pc = "row" /\ call'[p].h = call[p].h
        /\ \A q \in Procs \ {p} : call'[q] = call[q]
    BY <1>0, <1>6, FillCall
  <2> QED
    BY <2>1, <2>2 DEF PollerInv
<1>7. ASSUME NEW p \in Procs, InsertBlock(p) PROVE PollerInv'
  <2>1. p = Poller /\ cur' = cur
    BY <1>7 DEF InsertBlock, PollerInv, Opening
  <2>2. CASE call[p].h \in blocks
    BY <1>7, <1>a, <2>1, <2>2, InsertPanics
  <2>3. CASE call[p].h \notin blocks
    <3>1. call'[p].pc = "range" /\ \A q \in Procs \ {p} : call'[q] = call[q]
      BY <1>0, <1>7, <2>3, InsertCall
    <3> QED
      BY <2>1, <3>1 DEF PollerInv
  <2> QED
    BY <2>2, <2>3
<1>8. ASSUME NEW p \in Procs, VisitMiner(p) PROVE PollerInv'
  <2>1. PICK m \in Miners : call' = [call EXCEPT ![p].seen = @ \cup {cache[m]}]
    BY <1>8 DEF VisitMiner
  <2>2. \A q \in Procs : call'[q].h = call[q].h /\ call'[q].pc = call[q].pc /\ call'[q].old = call[q].old
    BY <1>0, <2>1 DEF Types, CallType
  <2> QED
    BY <1>0, <1>8, <2>2 DEF VisitMiner, PollerInv
<1>9. ASSUME NEW p \in Procs, FinishBlock(p) PROVE PollerInv'
  <2>1. p = Poller
    BY <1>9 DEF FinishBlock, PollerInv, Opening
  <2>2. call'[p].pc = "idle" /\ \A q \in Procs \ {p} : call'[q] = call[q]
    BY <1>0, <1>9 DEF FinishBlock, Types, IdleCall
  <2> QED
    BY <1>b, <2>1, <2>2
<1>10. ASSUME NEW r \in Reqs, Start(r) \/ SubmitCurrent(r) \/ SubmitOld(r) \/ Insert(r) PROVE PollerInv'
  <2>1. UNCHANGED <<cur, call>>
    BY <1>10 DEF Start, SubmitCurrent, SubmitOld, Insert
  <2> QED
    BY <1>a, <2>1
<1>11. ASSUME NEW r \in Reqs, Classify(r) PROVE PollerInv'
  <2>1. cur' = cur /\ r # Poller /\ r \in Procs
    BY <1>0, <1>11 DEF Classify
  <2>2. CASE call' = call
    BY <1>a, <2>1, <2>2
  <2>3. CASE call' = [call EXCEPT ![r] = [IdleCall EXCEPT !.pc = "read", !.h = req[r].h]]
    <3>1. call'[r].pc = "read" /\ \A q \in Procs \ {r} : call'[q] = call[q]
      BY <1>0, <2>1, <2>3 DEF Types, IdleCall
    <3> QED
      BY <1>0, <1>a, <2>1, <3>1 DEF Opening
  <2> QED
    BY <1>11, <2>2, <2>3, Zenon DEF Classify
<1>12. CASE UNCHANGED vars
  BY <1>12, <1>a DEF vars
<1> QED
  BY <1>2, <1>3, <1>4, <1>5, <1>6, <1>7, <1>8, <1>9, <1>10, <1>11, <1>12 DEF Next

\* Without submissions of nodes one way to die in newBlock is left, whatever
\* heights and generation times the wallets tell: a wallet falls back to a block
\* that ended without a generation time.  The race needs a second caller.
THEOREM PollerPanicsOnLostOnly ==
  ASSUME NodeReqs = {}
  PROVE  Spec => []OnlyLostPanics
<1>1. Init => PollerInv
  <2> SUFFICES ASSUME Init PROVE PollerInv
    OBVIOUS
  <2>1. \A p \in Procs : call[p].pc = "idle"
    BY DEF Init, IdleCall
  <2>2. Poller \in Procs
    BY DEF Procs
  <2> QED
    BY <2>1, <2>2 DEF PollerInv, Opening
<1>2. RoundsInv /\ PollerInv /\ [Next]_vars => PollerInv'
  BY PollerStep
<1>3. RoundsInv /\ PollerInv => OnlyLostPanics
  <2> SUFFICES ASSUME RoundsInv, PollerInv, panicked
               PROVE  \E p \in Procs : call[p].pc = "row" /\ call[p].h \in lost
    BY DEF OnlyLostPanics
  <2>1. PICK p \in Procs : call[p].pc = "row" /\ call[p].h \in blocks
    BY DEF RoundsInv, DoomInv, Doomed, Due
  <2>2. p = Poller
    BY <2>1 DEF PollerInv, Opening
  <2> QED
    BY <2>1, <2>2 DEF RoundsInv, DoomInv, PollerInv
<1> QED
  BY <1>1, <1>2, <1>3, RoundsInvariant, PTL DEF Spec
=============================================================================
