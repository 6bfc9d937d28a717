---------------------------- MODULE ForgeProofs ----------------------------
(***************************************************************************)
(* Type correctness of the forge loop and its handlers, and the two facts  *)
(* its best submission rests on, for any requests, miners, rounds,         *)
(* deadlines and restarts.                                                 *)
(***************************************************************************)
EXTENDS Forge, TLAPS

Running(r) == req[r].pc \in {"store", "label", "send"}

\* A handler past its checks carries a real deadline of a real round, which the
\* chain has reached; once it
\* has stored it, the row of its miner is at least as good; what it sends
\* carries the signature of a round the pool has reached.
HandlerOK(r) ==
  LET s == req[r].sub
  IN  /\ Running(r) => s.miner \in Miners /\ s.of \in Height /\ s.deadline \in 1 .. MaxDeadline
      /\ Running(r) => s.of <= chain
      /\ req[r].pc \in {"label", "send"} =>
           rows[s.miner][s.of] # None /\ rows[s.miner][s.of] <= s.deadline
      /\ req[r].pc = "send" \/ (r \in HttpReqs /\ Running(r)) =>
           s.height \in Height /\ s.sig = s.height /\ s.height <= round

HandlerInv == \A r \in Reqs : HandlerOK(r)

\* The best submission is of a round that was reached, and has its signature
\* unless it was restored: then forge was handed nothing that counts.
BestInv ==
  /\ best.height <= round
  /\ best.sig \in {0, best.height}
  /\ best.sig = 0 => \A h \in Height : h >= best.height => lowest[h] = Infinity

\* A block row names only a nonce row there is.
DbInv == \A h \in Height : dbBest[h] # None => rows[dbBest[h]][h] # None

ForgeInv ==
  /\ TypeOK /\ HandlerInv /\ BestInv /\ DbInv
  /\ BestCoversDelivered /\ RestartFindsBest

----------------------------------------------------------------------------
\* The greater and the smaller of two numbers, which Store and Deliver take.
LEMMA MaxOfTwo ==
  ASSUME NEW a \in Int, NEW b \in Int
  PROVE  Max({a, b}) = IF a >= b THEN a ELSE b
<1>1. \E x \in {a, b} : \A y \in {a, b} : x >= y
  OBVIOUS
<1> QED
  BY <1>1 DEF Max

\* The lower of two deadlines.
LEMMA MinOfTwo ==
  ASSUME NEW a \in Int, NEW b \in Int
  PROVE  Min({a, b}) = IF a <= b THEN a ELSE b
<1>1. \E x \in {a, b} : \A y \in {a, b} : x <= y
  OBVIOUS
<1> QED
  BY <1>1 DEF Min

\* The round without a submission.
LEMMA NoSubmissionType == NoSubmission \in Submission
  BY BoundsAssumption DEF NoSubmission, Submission, Infinity

\* Every step keeps the types; that handlers carry real rounds and block rows
\* real nonce rows is what the steps of Store, Deliver and Restart need.
LEMMA TypeStep ==
  ASSUME TypeOK, HandlerInv, DbInv, [Next]_vars
  PROVE  TypeOK'
<1> USE BoundsAssumption, NoneAssumption DEF TypeOK
<1>1. CASE ChainGrows
  BY <1>1 DEF ChainGrows, Height
<1>2. CASE Poll
  BY <1>2 DEF Poll, Height
<1>3. CASE Restart
  <2>1. RestoredBest(round) \in Submission
    <3>1. CASE dbBest[round] = None
      BY <3>1, NoSubmissionType DEF RestoredBest
    <3>2. CASE dbBest[round] # None
      <4>1. rows[dbBest[round]][round] \in 1 .. MaxDeadline
        BY <3>2 DEF DbInv, Height
      <4> QED
        BY <3>2, <4>1 DEF RestoredBest, Submission, Infinity, Height
    <3> QED
      BY <3>1, <3>2
  <2>2. req' \in [Reqs -> [pc : {"idle", "store", "label", "send", "done"},
                           ri : 0 .. MaxHeight, sub : Submission]]
    BY <1>3, NoSubmissionType DEF Restart, Idle, Done, Handler
  <2>3. timer' \in BOOLEAN /\ sent' \in BOOLEAN
    BY <1>3, Zenon DEF Restart
  <2>4. lowest' \in [Height -> 1 .. Infinity] /\ crashes' \in 0 .. MaxCrashes
    BY <1>3 DEF Restart, Infinity
  <2> QED
    BY <1>3, <2>1, <2>2, <2>3, <2>4, Zenon DEF Restart
<1>4. CASE TimerFires
  <2>1. tries' \in (0 .. Retries - 1) \cup {None}
    BY <1>4 DEF TimerFires
  <2> QED
    BY <1>4, <2>1, Zenon DEF TimerFires
<1>5. CASE Attempt
  <2>1. tries \in 0 .. Retries - 1
    BY <1>5 DEF Attempt
  <2>2. (IF LastTry THEN GivenUp ELSE tries + 1) \in (0 .. Retries - 1) \cup {None}
    BY <2>1 DEF LastTry, GivenUp
  <2> QED
    BY <1>5, <2>2 DEF Attempt
<1>6. ASSUME NEW r \in HttpReqs, Receive(r) PROVE TypeOK'
  <2>1. PICK m \in Miners, d \in 1 .. MaxDeadline :
          req' = [req EXCEPT ![r] =
                    IF WithinLimit(d)
                      THEN Handler("store", round, [height |-> round, sig |-> round, of |-> round,
                                                    deadline |-> d, miner |-> m])
                      ELSE Done]
    BY <1>6 DEF Receive
  <2> DEFINE s == [height |-> round, sig |-> round, of |-> round, deadline |-> d, miner |-> m]
  <2>2. s \in Submission
    BY DEF Submission, Infinity, Height
  <2>3. Handler("store", round, s) \in [pc : {"idle", "store", "label", "send", "done"},
                                        ri : 0 .. MaxHeight, sub : Submission]
    BY <2>2 DEF Handler, Height
  <2>4. Done \in [pc : {"idle", "store", "label", "send", "done"},
                  ri : 0 .. MaxHeight, sub : Submission]
    BY NoSubmissionType DEF Handler, Done
  <2> QED
    BY <1>6, <2>1, <2>3, <2>4 DEF Receive, Reqs
<1>7. ASSUME NEW r \in NodeReqs, ReceiveNode(r) PROVE TypeOK'
  <2>1. PICK m \in Miners, d \in 1 .. MaxDeadline, h \in 1 .. chain :
          req' = [req EXCEPT ![r] =
                    Handler("store", round, [height |-> h, sig |-> h, of |-> h,
                                             deadline |-> d, miner |-> m])]
    BY <1>7 DEF ReceiveNode
  <2> DEFINE s == [height |-> h, sig |-> h, of |-> h, deadline |-> d, miner |-> m]
  <2>2. s \in Submission
    BY DEF Submission, Infinity, Height
  <2>3. Handler("store", round, s) \in [pc : {"idle", "store", "label", "send", "done"},
                                        ri : 0 .. MaxHeight, sub : Submission]
    BY <2>2 DEF Handler, Height
  <2> QED
    BY <1>7, <2>1, <2>3 DEF ReceiveNode, Reqs
<1>8. ASSUME NEW r \in NodeReqs, Label(r) PROVE TypeOK'
  <2>1. req' \in [Reqs -> [pc : {"idle", "store", "label", "send", "done"},
                           ri : 0 .. MaxHeight, sub : Submission]]
    <3>1. r \in Reqs /\ req[r].sub \in Submission /\ round \in 0 .. MaxHeight
      BY DEF Reqs, Height
    <3>2. [req[r].sub EXCEPT !.height = round, !.sig = round] \in Submission
      BY <3>1 DEF Submission
    <3> QED
      BY <1>8, <3>1, <3>2 DEF Label
  <2> QED
    BY <1>8, <2>1 DEF Label
<1>9. ASSUME NEW r \in Reqs, Store(r) PROVE TypeOK'
  <2>1. req[r].sub.miner \in Miners /\ req[r].sub.of \in Height
          /\ req[r].sub.deadline \in 1 .. MaxDeadline
    BY <1>9 DEF Store, HandlerInv, HandlerOK, Running
  <2>2. round' \in Height
    <3>1. round \in Int /\ req[r].sub.of \in Int
      BY <2>1 DEF Height
    <3>2. Max({round, req[r].sub.of}) \in {round, req[r].sub.of}
      BY <3>1, MaxOfTwo, Zenon
    <3> QED
      BY <1>9, <2>1, <3>2 DEF Store
  <2>5. round' <= chain'
    <3>1. round \in Int /\ req[r].sub.of \in Int /\ req[r].sub.of <= chain /\ chain' = chain
      BY <1>9, <2>1 DEF Height, Store, HandlerInv, HandlerOK, Running
    <3>2. Max({round, req[r].sub.of}) \in {round, req[r].sub.of}
      BY <3>1, MaxOfTwo, Zenon
    <3> QED
      BY <1>9, <3>1, <3>2 DEF Store
  <2>3. rows' \in [Miners -> [Height -> (1 .. MaxDeadline) \cup {None}]]
    BY <1>9, <2>1 DEF Store, Better
  <2>4. req' \in [Reqs -> [pc : {"idle", "store", "label", "send", "done"},
                           ri : 0 .. MaxHeight, sub : Submission]]
    BY <1>9, NoSubmissionType DEF Store, Done, Handler
  <2> QED
    BY <1>9, <2>2, <2>3, <2>4, <2>5 DEF Store
<1>10. ASSUME NEW r \in Reqs, StoreFails(r) PROVE TypeOK'
  BY <1>10, NoSubmissionType DEF StoreFails, Done, Handler
<1>11. ASSUME NEW r \in Reqs, Deliver(r) PROVE TypeOK'
  <2>1. req[r].sub \in Submission /\ req[r].sub.miner \in Miners /\ req[r].sub.height \in Height
    BY <1>11 DEF Deliver, HandlerInv, HandlerOK, Running
  <2>2. req' \in [Reqs -> [pc : {"idle", "store", "label", "send", "done"},
                           ri : 0 .. MaxHeight, sub : Submission]]
    BY <1>11, NoSubmissionType DEF Deliver, Done, Handler
  <2>3. lowest' \in [Height -> 1 .. Infinity]
    BY <1>11, <2>1, MinOfTwo DEF Deliver, Submission, Infinity
  <2>4. best' \in Submission /\ dbBest' \in [Height -> Miners \cup {None}]
          /\ timer' \in BOOLEAN /\ sent' \in BOOLEAN
    BY <1>11, <2>1 DEF Deliver, UpdateBestSubmission, Rearmed
  <2> QED
    BY <1>11, <2>2, <2>3, <2>4 DEF Deliver
<1>12. CASE UNCHANGED vars
  BY <1>12 DEF vars
<1> QED
  BY <1>1, <1>2, <1>3, <1>4, <1>5, <1>6, <1>7, <1>8, <1>9, <1>10, <1>11, <1>12 DEF Next

\* The round never goes back, and a stored deadline is never lost or worsened.
LEMMA RowsStep ==
  ASSUME TypeOK, HandlerInv, [Next]_vars
  PROVE  /\ round' >= round
         /\ \A m \in Miners, h \in Height :
              rows[m][h] # None => rows'[m][h] # None /\ rows'[m][h] <= rows[m][h]
<1> USE BoundsAssumption, NoneAssumption
<1>1. ASSUME NEW r \in Reqs, Store(r)
      PROVE  /\ round' >= round
             /\ \A m \in Miners, h \in Height :
                  rows[m][h] # None => rows'[m][h] # None /\ rows'[m][h] <= rows[m][h]
  <2> DEFINE s == req[r].sub
  <2>1. s.miner \in Miners /\ s.of \in Height /\ s.deadline \in 1 .. MaxDeadline
    BY <1>1 DEF Store, HandlerInv, HandlerOK, Running
  <2>2. round \in Int /\ s.of \in Int
    BY <2>1 DEF TypeOK, Height
  <2>3. Max({round, s.of}) = IF round >= s.of THEN round ELSE s.of
    BY <2>2, MaxOfTwo, Zenon
  <2>4. round' >= round
    BY <1>1, <2>2, <2>3 DEF Store
  <2>5. ASSUME NEW m \in Miners, NEW h \in Height, rows[m][h] # None
        PROVE  rows'[m][h] # None /\ rows'[m][h] <= rows[m][h]
    BY <1>1, <2>1, <2>5 DEF Store, Better, TypeOK
  <2> QED
    BY <2>4, <2>5
<1>2. CASE UNCHANGED <<round, rows>>
  BY <1>2 DEF TypeOK, Height
<1>3. CASE Poll
  BY <1>3 DEF Poll, TypeOK, Height
<1>4. [Next]_vars => \/ UNCHANGED <<round, rows>> \/ Poll \/ \E r \in Reqs : Store(r)
  BY DEF Next, ChainGrows, Restart, TimerFires, Attempt, Receive, ReceiveNode, Label, StoreFails,
         Deliver, vars
<1> QED
  BY <1>1, <1>2, <1>3, <1>4

\* A request that does not move keeps it, since rows and rounds only improve;
\* so does one that ends.
LEMMA HandlerKept ==
  ASSUME TypeOK, HandlerInv, DbInv, [Next]_vars, NEW r \in Reqs,
         req'[r] = req[r] \/ ~Running(r)'
  PROVE  HandlerOK(r)'
<1> USE BoundsAssumption, NoneAssumption
<1>1. CASE ~Running(r)'
  BY <1>1, Zenon DEF HandlerOK, Running
<1>2. CASE req'[r] = req[r]
  <2> DEFINE s == req[r].sub
  <2>1. HandlerOK(r)
    BY DEF HandlerInv
  <2>2. /\ round \in Height /\ round' \in Int /\ round' >= round
        /\ \A m \in Miners, h \in Height :
             rows[m][h] # None => rows'[m][h] # None /\ rows'[m][h] <= rows[m][h]
    <3>1. round \in Height /\ round' \in Height
      <4>1. TypeOK'
        BY TypeStep
      <4> QED
        BY <4>1 DEF TypeOK
    <3> QED
      BY <3>1, RowsStep DEF Height
  <2> QED
    <3>1. ASSUME Running(r)
          PROVE  s.miner \in Miners /\ s.of \in Height /\ s.deadline \in 1 .. MaxDeadline
      BY <2>1, <3>1 DEF HandlerOK
    <3>2. ASSUME req[r].pc \in {"label", "send"}
          PROVE  rows'[s.miner][s.of] # None /\ rows'[s.miner][s.of] <= s.deadline
      <4>1. s.miner \in Miners /\ s.of \in Height /\ s.deadline \in 1 .. MaxDeadline
        BY <3>1, <3>2 DEF Running
      <4>2. rows[s.miner][s.of] # None /\ rows[s.miner][s.of] <= s.deadline
        BY <2>1, <3>2 DEF HandlerOK
      <4>3. rows[s.miner][s.of] \in Int /\ rows'[s.miner][s.of] \in Int
        BY <2>2, <4>1, <4>2, TypeStep DEF TypeOK
      <4> QED
        BY <2>2, <4>1, <4>2, <4>3
    <3>3. ASSUME req[r].pc = "send" \/ (r \in HttpReqs /\ Running(r))
          PROVE  s.height \in Height /\ s.sig = s.height /\ s.height <= round'
      BY <2>1, <2>2, <3>3 DEF HandlerOK, Height
    <3>4. ASSUME Running(r) PROVE s.of <= chain'
      <4>1. chain \in Int /\ chain' \in Int /\ chain' >= chain /\ s.of \in Int /\ s.of <= chain
        <5>1. chain' = chain \/ chain' = chain + 1
          BY DEF Next, ChainGrows, Poll, Restart, TimerFires, Attempt, Receive,
                 ReceiveNode, Label, Store, StoreFails, Deliver, vars
        <5>2. chain \in Int /\ s.of \in Int
          BY <3>1, <3>4 DEF TypeOK, Height
        <5>3. s.of <= chain
          BY <2>1, <3>4 DEF HandlerOK
        <5> QED
          BY <5>1, <5>2, <5>3
      <4> QED
        BY <4>1
    <3> QED
      BY <1>2, <3>1, <3>2, <3>3, <3>4 DEF HandlerOK, Running
<1> QED
  BY <1>1, <1>2

\* Every step keeps what handlers know.
LEMMA HandlerStep ==
  ASSUME TypeOK, HandlerInv, DbInv, [Next]_vars
  PROVE  HandlerInv'
<1> USE BoundsAssumption, NoneAssumption
<1> SUFFICES ASSUME NEW q \in Reqs PROVE HandlerOK(q)'
  BY DEF HandlerInv
<1>1. CASE UNCHANGED req
  BY <1>1, HandlerKept
<1>2. CASE Restart
  BY <1>2, HandlerKept DEF Restart, Running, Idle, Done, Handler
<1>3. ASSUME NEW r \in HttpReqs, Receive(r) PROVE HandlerOK(q)'
  <2>1. CASE q # r
    BY <1>3, <2>1, HandlerKept DEF Receive, TypeOK, Reqs
  <2>2. CASE q = r
    BY <1>3, <2>2 DEF Receive, TypeOK, Reqs, HandlerOK, Running, Handler, Done, Height
  <2> QED
    BY <2>1, <2>2
<1>4. ASSUME NEW r \in NodeReqs, ReceiveNode(r) PROVE HandlerOK(q)'
  <2>1. CASE q # r
    BY <1>4, <2>1, HandlerKept DEF ReceiveNode, TypeOK, Reqs
  <2>2. CASE q = r
    BY <1>4, <2>2, KindsAssumption DEF ReceiveNode, TypeOK, Reqs, HandlerOK, Running, Handler, Height
  <2> QED
    BY <2>1, <2>2
<1>5. ASSUME NEW r \in NodeReqs, Label(r) PROVE HandlerOK(q)'
  <2>1. CASE q # r
    BY <1>5, <2>1, HandlerKept DEF Label, TypeOK, Reqs
  <2>2. CASE q = r
    <3> DEFINE s == req[r].sub
    <3>1. r \in Reqs /\ r \notin HttpReqs
      BY KindsAssumption DEF Reqs
    <3>2. HandlerOK(r)
      BY <3>1 DEF HandlerInv
    <3>3. req'[r].pc = "send" /\ req'[r].sub = [s EXCEPT !.height = round, !.sig = round]
      BY <1>5, <3>1 DEF Label, TypeOK
    <3>4. s \in Submission
      BY <3>1 DEF TypeOK
    <3>5. /\ req'[r].sub.height = round /\ req'[r].sub.sig = round
          /\ req'[r].sub.miner = s.miner /\ req'[r].sub.of = s.of
          /\ req'[r].sub.deadline = s.deadline
      BY <3>3, <3>4 DEF Submission
    <3> QED
      BY <1>5, <2>2, <3>2, <3>3, <3>5 DEF Label, TypeOK, HandlerOK, Running, Height
  <2> QED
    BY <2>1, <2>2
<1>6. ASSUME NEW r \in Reqs, Store(r) PROVE HandlerOK(q)'
  <2>1. CASE q # r
    BY <1>6, <2>1, HandlerKept DEF Store, TypeOK
  <2>2. CASE q = r
    <3> DEFINE s == req[r].sub
    <3>1. HandlerOK(r) /\ req[r].pc = "store"
      BY <1>6 DEF HandlerInv, Store
    <3>2. /\ s.miner \in Miners /\ s.of \in Height /\ s.deadline \in 1 .. MaxDeadline
          /\ s.of <= chain'
      BY <1>6, <3>1 DEF HandlerOK, Running, Store
    <3>3. rows'[s.miner][s.of] # None /\ rows'[s.miner][s.of] <= s.deadline
      BY <1>6, <3>2 DEF Store, Better, TypeOK
    <3>4. round' >= round /\ round \in Int /\ round' \in Int
      <4>1. TypeOK'
        BY TypeStep
      <4>2. round \in Height /\ round' \in Height
        BY <4>1 DEF TypeOK
      <4> QED
        BY <4>2, RowsStep DEF Height
    <3>5. CASE r \in HttpReqs
      <4>1. req'[r].pc = "send" /\ req'[r].sub = s
        BY <1>6, <3>5 DEF Store, TypeOK
      <4>2. s.height \in Height /\ s.sig = s.height /\ s.height <= round
        BY <3>1, <3>5 DEF HandlerOK, Running
      <4> QED
        BY <2>2, <3>2, <3>3, <3>4, <4>1, <4>2 DEF HandlerOK, Running, Height
    <3>6. CASE r \notin HttpReqs
      <4>1. \/ req'[r].pc = "label" /\ req'[r].sub = s
            \/ req'[r].pc = "done"
        BY <1>6, <3>6 DEF Store, TypeOK, Done, Handler
      <4> QED
        BY <2>2, <3>2, <3>3, <3>6, <4>1 DEF HandlerOK, Running
    <3> QED
      BY <3>5, <3>6
  <2> QED
    BY <2>1, <2>2
<1>7. ASSUME NEW r \in Reqs, StoreFails(r) PROVE HandlerOK(q)'
  BY <1>7, HandlerKept DEF StoreFails, TypeOK, Running, Done, Handler
<1>8. ASSUME NEW r \in Reqs, Deliver(r) PROVE HandlerOK(q)'
  BY <1>8, HandlerKept DEF Deliver, TypeOK, Running, Done, Handler
<1> QED
  BY <1>1, <1>2, <1>3, <1>4, <1>5, <1>6, <1>7, <1>8
  DEF Next, ChainGrows, Poll, TimerFires, Attempt, vars

\* Every step keeps block rows pointing to nonce rows.
LEMMA DbStep ==
  ASSUME TypeOK, HandlerInv, DbInv, [Next]_vars
  PROVE  DbInv'
<1>1. CASE UNCHANGED dbBest
  BY <1>1, RowsStep, NoneAssumption DEF DbInv, TypeOK
<1>2. ASSUME NEW r \in Reqs, Deliver(r) PROVE DbInv'
  <2>1. req[r].sub.miner \in Miners /\ req[r].sub.height \in Height
    BY <1>2 DEF Deliver, HandlerInv, HandlerOK, Running
  <2> QED
    BY <1>2, <2>1 DEF Deliver, UpdateBestSubmission, DbInv, TypeOK
<1> QED
  BY <1>1, <1>2 DEF Next, ChainGrows, Poll, Restart, TimerFires, Attempt, Receive, ReceiveNode,
                    Label, Store, StoreFails, vars

\* The best submission stays one of a round the pool has reached, and the best
\* of what was delivered.  Signatures tell rounds apart: equal ones mean equal
\* heights, unless the best was restored and nothing was delivered since.
LEMMA BestStep ==
  ASSUME TypeOK, HandlerInv, DbInv, BestInv, BestCoversDelivered, [Next]_vars
  PROVE  BestInv' /\ BestCoversDelivered'
<1> USE BoundsAssumption, NoneAssumption
<1>0. /\ round \in Int /\ round' \in Int /\ round' >= round
      /\ best \in Submission /\ lowest \in [Height -> 1 .. Infinity] /\ Infinity \in Int
  <2>1. TypeOK'
    BY TypeStep
  <2>2. round \in Height /\ round' \in Height
    BY <2>1 DEF TypeOK
  <2> QED
    BY <2>2, RowsStep DEF TypeOK, Height, Infinity
<1>1. CASE UNCHANGED <<best, lowest>>
  BY <1>0, <1>1 DEF BestInv, BestCoversDelivered, Submission
<1>2. CASE Restart
  <2>1. /\ best'.height \in {0, round} /\ best'.sig = 0
        /\ best'.deadline \in 1 .. Infinity
        /\ best'.height = round => best'.deadline <= Infinity
    <3>1. TypeOK'
      BY TypeStep
    <3> QED
      BY <1>2, <3>1 DEF Restart, RestoredBest, NoSubmission, TypeOK, Submission, Height, Infinity
  <2> QED
    BY <1>0, <1>2, <2>1 DEF Restart, BestInv, BestCoversDelivered, TypeOK, Height
<1>3. ASSUME NEW r \in Reqs, Deliver(r) PROVE BestInv' /\ BestCoversDelivered'
  <2> DEFINE s == req[r].sub
  <2>1. /\ s.height \in Height /\ s.sig = s.height /\ s.height <= round
        /\ s.deadline \in 1 .. MaxDeadline
    BY <1>3 DEF Deliver, HandlerInv, HandlerOK, Running
  <2>2. Min({lowest[s.height], s.deadline}) =
          IF lowest[s.height] <= s.deadline THEN lowest[s.height] ELSE s.deadline
    <3>1. lowest[s.height] \in Int /\ s.deadline \in Int
      BY <1>0, <2>1
    <3> QED
      BY <3>1, MinOfTwo, Zenon
  <2>3. /\ \A h \in Height : h # s.height => lowest'[h] = lowest[h]
        /\ lowest'[s.height] = IF lowest[s.height] <= s.deadline THEN lowest[s.height] ELSE s.deadline
    BY <1>0, <1>3, <2>1, <2>2 DEF Deliver
  <2>4. best.height \in Int /\ best.sig \in Int /\ best.deadline \in Int
    BY <1>0 DEF Submission, Infinity
  <2>5. CASE Ignored(s)
    <3>1. best' = best /\ round' = round
      BY <1>3, <2>5 DEF Deliver
    <3>2. \/ s.height < best.height
          \/ s.height = best.height /\ s.deadline >= best.deadline /\ best.sig # 0
      BY <2>1, <2>4, <2>5 DEF Ignored, BestInv, Height
    <3>3. BestInv'
      BY <2>1, <2>3, <2>4, <3>1, <3>2 DEF BestInv, Height
    <3>4. BestCoversDelivered'
      <4> SUFFICES ASSUME NEW h \in Height
                   PROVE  /\ lowest'[h] # Infinity => h <= best.height
                          /\ h = best.height => best.deadline <= lowest'[h]
        BY <3>1 DEF BestCoversDelivered
      <4>1. /\ lowest[h] # Infinity => h <= best.height
            /\ h = best.height => best.deadline <= lowest[h]
        BY DEF BestCoversDelivered
      <4>2. CASE h = s.height
        <5>1. lowest[h] \in Int /\ s.height \in Int /\ s.deadline \in Int
          BY <1>0, <2>1, <4>2 DEF Height, Infinity
        <5>2. lowest'[h] \in {lowest[h], s.deadline}
          BY <2>3, <4>2
        <5>3. h <= best.height
          BY <2>4, <3>2, <4>2, <5>1
        <5>4. h = best.height => best.deadline <= lowest'[h]
          BY <2>4, <3>2, <4>1, <4>2, <5>1, <5>2
        <5> QED
          BY <5>3, <5>4
      <4>3. CASE h # s.height
        BY <2>3, <4>1, <4>3
      <4> QED
        BY <4>2, <4>3
    <3> QED
      BY <3>3, <3>4
  <2>6. CASE ~Ignored(s)
    <3>1. best' = s /\ round' = round
      BY <1>3, <2>6 DEF Deliver
    <3>2. /\ s.height >= best.height
          /\ s.height = best.height =>
               s.deadline < best.deadline \/ lowest[s.height] = Infinity
      BY <2>1, <2>4, <2>6 DEF Ignored, BestInv, Height
    <3>3. BestInv'
      BY <2>1, <3>1 DEF BestInv, Height
    <3>4. BestCoversDelivered'
      <4> SUFFICES ASSUME NEW h \in Height
                   PROVE  /\ lowest'[h] # Infinity => h <= s.height
                          /\ h = s.height => s.deadline <= lowest'[h]
        BY <3>1 DEF BestCoversDelivered
      <4>1. lowest'[h] # Infinity => h <= s.height
        <5>1. CASE h = s.height
          BY <2>1, <5>1 DEF Height
        <5>2. CASE h # s.height
          <6>1. lowest'[h] # Infinity => h <= best.height
            BY <2>3, <5>2 DEF BestCoversDelivered
          <6> QED
            BY <2>1, <2>4, <3>2, <6>1 DEF Height
        <5> QED
          BY <5>1, <5>2
      <4>2. h = s.height => s.deadline <= lowest'[h]
        <5>1. CASE lowest[s.height] = Infinity
          BY <2>1, <2>3, <5>1 DEF Infinity
        <5>2. CASE lowest[s.height] # Infinity
          <6>1. s.height = best.height
            BY <2>1, <2>4, <3>2, <5>2 DEF BestCoversDelivered, Height
          <6>2. best.deadline <= lowest[s.height] /\ s.deadline < best.deadline
            BY <2>1, <3>2, <5>2, <6>1 DEF BestCoversDelivered
          <6> QED
            BY <1>0, <2>1, <2>3, <2>4, <6>2 DEF Infinity
        <5> QED
          BY <5>1, <5>2
      <4> QED
        BY <4>1, <4>2
    <3> QED
      BY <3>3, <3>4
  <2> QED
    BY <2>5, <2>6
<1> QED
  BY <1>1, <1>2, <1>3 DEF Next, ChainGrows, Poll, TimerFires, Attempt, Receive, ReceiveNode,
                          Label, Store, StoreFails, vars

\* The database can restore the best submission of the round: a handler stores
\* before it sends, and a round that opens is newer than the best submission.
LEMMA RestartFindsStep ==
  ASSUME TypeOK, HandlerInv, DbInv, BestInv, RestartFindsBest, [Next]_vars
  PROVE  RestartFindsBest'
<1> USE BoundsAssumption, NoneAssumption
<1>0. TypeOK' /\ DbInv' /\ round \in Height /\ round' \in Height
  <2>1. TypeOK' /\ DbInv'
    BY TypeStep, DbStep
  <2> QED
    BY <2>1 DEF TypeOK
<1>1. CASE UNCHANGED <<best, dbBest>>
  <2> SUFFICES ASSUME best.of = round', best.height = round'
               PROVE  /\ dbBest[round'] # None
                      /\ rows'[dbBest[round']][round'] # None
                      /\ rows'[dbBest[round']][round'] <= best.deadline
    BY <1>1 DEF RestartFindsBest
  <2>1. round' = round
    BY <1>0, RowsStep DEF BestInv, Height
  <2>2. /\ dbBest[round] # None
        /\ rows[dbBest[round]][round] # None
        /\ rows[dbBest[round]][round] <= best.deadline
    BY <2>1 DEF RestartFindsBest
  <2>3. dbBest[round] \in Miners /\ best.deadline \in Int
    BY <1>0, <2>2 DEF TypeOK, Submission, Infinity
  <2>4. /\ rows'[dbBest[round]][round] # None
        /\ rows'[dbBest[round]][round] <= rows[dbBest[round]][round]
    BY <1>0, <2>2, <2>3, RowsStep
  <2>5. rows[dbBest[round]][round] \in Int /\ rows'[dbBest[round]][round] \in Int
    BY <1>0, <2>2, <2>3, <2>4 DEF TypeOK
  <2> QED
    BY <2>1, <2>2, <2>3, <2>4, <2>5
<1>2. CASE Restart
  <2>1. CASE dbBest[round] = None
    BY <1>0, <1>2, <2>1 DEF Restart, RestoredBest, NoSubmission, RestartFindsBest, Height
  <2>2. CASE dbBest[round] # None
    <3>1. rows[dbBest[round]][round] \in 1 .. MaxDeadline
      BY <1>0, <2>2 DEF DbInv, TypeOK
    <3> QED
      BY <1>0, <1>2, <2>2, <3>1 DEF Restart, RestoredBest, RestartFindsBest
  <2> QED
    BY <2>1, <2>2
<1>3. ASSUME NEW r \in Reqs, Deliver(r) PROVE RestartFindsBest'
  <2> DEFINE s == req[r].sub
  <2>1. CASE Ignored(s)
    BY <1>3, <2>1 DEF Deliver, RestartFindsBest
  <2>2. CASE ~Ignored(s)
    <3>1. best' = s /\ round' = round /\ rows' = rows
          /\ dbBest' = [dbBest EXCEPT ![s.height] = IF rows[s.miner][s.height] = None THEN None ELSE s.miner]
      BY <1>3, <2>2 DEF Deliver, UpdateBestSubmission
    <3>2. s.miner \in Miners /\ rows[s.miner][s.of] # None /\ rows[s.miner][s.of] <= s.deadline
      BY <1>3 DEF Deliver, HandlerInv, HandlerOK, Running
    <3> QED
      BY <1>0, <3>1, <3>2 DEF RestartFindsBest, TypeOK
  <2> QED
    BY <2>1, <2>2
<1> QED
  BY <1>1, <1>2, <1>3 DEF Next, ChainGrows, Poll, TimerFires, Attempt, Receive, ReceiveNode,
                          Label, Store, StoreFails, vars

----------------------------------------------------------------------------
\* Init.
LEMMA ForgeInit == Init => ForgeInv
<1> USE BoundsAssumption, NoneAssumption
<1> SUFFICES ASSUME Init PROVE ForgeInv
  OBVIOUS
<1>1. TypeOK
  <2>1. Idle \in [pc : {"idle", "store", "label", "send", "done"},
                  ri : 0 .. MaxHeight, sub : Submission]
    BY NoSubmissionType DEF Idle, Handler
  <2>2. timer \in BOOLEAN /\ sent \in BOOLEAN
    BY Zenon DEF Init
  <2>3. /\ chain \in Height /\ round \in Height /\ crashes \in 0 .. MaxCrashes
        /\ tries = None /\ best \in Submission
        /\ lowest \in [Height -> 1 .. Infinity]
    BY NoSubmissionType DEF Init, Height, Infinity
  <2>4. /\ rows \in [Miners -> [Height -> (1 .. MaxDeadline) \cup {None}]]
        /\ dbBest \in [Height -> Miners \cup {None}]
    BY DEF Init
  <2> QED
    BY <2>1, <2>2, <2>3, <2>4 DEF Init, TypeOK
<1>2. HandlerInv
  BY DEF Init, HandlerInv, HandlerOK, Running, Idle, Handler
<1>3. BestInv /\ DbInv /\ BestCoversDelivered /\ RestartFindsBest
  BY DEF Init, BestInv, DbInv, BestCoversDelivered, RestartFindsBest, NoSubmission, Height, Infinity
<1> QED
  BY <1>1, <1>2, <1>3 DEF ForgeInv

\* Every step of handlers, forge, poller and restart keeps the invariant.
LEMMA ForgeInductive == ForgeInv /\ [Next]_vars => ForgeInv'
  BY TypeStep, HandlerStep, DbStep, BestStep, RestartFindsStep DEF ForgeInv

\* It holds in every state.
LEMMA ForgeInvariant == Spec => []ForgeInv
  BY ForgeInit, ForgeInductive, PTL DEF Spec

\* Rounds, labels and attempts of the forge loop stay in range, through
\* restarts and whatever order requests are served in.
THEOREM ForgeTypes == Spec => []TypeOK
<1>1. ForgeInv => TypeOK
  BY DEF ForgeInv
<1> QED
  BY ForgeInvariant, <1>1, PTL

\* forge keeps the best of what it was handed for its round since it started.
THEOREM BestCovers == Spec => []BestCoversDelivered
<1>1. ForgeInv => BestCoversDelivered
  BY DEF ForgeInv
<1> QED
  BY ForgeInvariant, <1>1, PTL

\* A crash at any moment leaves a block row from which a nonce at least as good
\* as the best of the round can be restored.
THEOREM RestartFinds == Spec => []RestartFindsBest
<1>1. ForgeInv => RestartFindsBest
  BY DEF ForgeInv
<1> QED
  BY ForgeInvariant, <1>1, PTL
=============================================================================
