------------------------ MODULE WalletHandlerProofs ------------------------
(***************************************************************************)
(* For any wallets, forks, timestamps and bounds: a payment reaches the    *)
(* network at most once, the poller panics only over a block that ended    *)
(* without a generation time, and rows keep the times that were told.      *)
(***************************************************************************)
EXTENDS WalletHandler, SequenceTheorems, WellFoundedInduction, TLAPS

Payments == Wallets \X Nat
PayCall == [kind : {"none", "create", "broadcast"}, left : SUBSET Wallets,
            answers : Seq(Payments), kept : Payments \cup {Null}]

\* All a running call has created has its number; a payment on the network is
\* what its call returned, or what the running call broadcasts.
PayInv ==
  /\ pay \in PayCall /\ outcome \in Seq(Payments \cup {Null}) /\ broadcast \subseteq Payments
  /\ pay.kind = "create" => \A i \in DOMAIN pay.answers : pay.answers[i][2] = Number
  /\ pay.kind = "broadcast" => pay.kept \in Payments /\ pay.kept[2] = Number
  /\ \A p \in broadcast :
       \/ p[2] \in 1 .. Len(outcome) /\ p = outcome[p[2]]
       \/ pay.kind = "broadcast" /\ p = pay.kept

Rounds == 1 .. MaxHeight + 1
Kept == [next : Rounds, time : Nat]
PollCall == [kind : {"none", "mining", "previous", "ended"}, left : SUBSET Wallets,
             answers : Seq(Rounds), kept : Kept \cup {Null}]

\* A wallet has a block of every height up to its last.
ViewInv == view \in [Wallets -> [fork : Forks, top : ForkPoint .. MaxHeight]]

\* What the poller keeps between its requests: a height it does not know, and
\* a time of the block before the one asked for, of some fork.
PollInv ==
  /\ round \in Rounds /\ poll \in PollCall
  /\ poll.kind \in {"previous", "ended"} => poll.kept \in Kept
  /\ ~panicked /\ poll.kind \in {"previous", "ended"} => Opened \notin window /\ Opened # round
  /\ ~panicked /\ poll.kind = "ended" => \E f \in Forks : poll.kept.time = Timestamp[f][Asked - 1]

\* A block has a row when it is the current one, went through a window, or
\* ended without a time.
RowInv ==
  /\ genTime \in [Rounds -> Int \cup {Null}]
  /\ \A h \in window : h \in Rounds /\ h < round
  /\ \A h \in Rounds : genTime[h] # Null => h = round \/ (h < round /\ h \in window \cup lost)
  /\ PanicNeedsLostTime
  /\ TimesTold

WalletInv == PayInv /\ ViewInv /\ PollInv /\ RowInv

----------------------------------------------------------------------------
\* GetMiningInfo: heights are bounded, so one of them is the greatest.
LEMMA LeastExists ==
  ASSUME NEW S, S \subseteq Nat, S # {}
  PROVE  \E x \in S : \A y \in S : x <= y
<1>1. \E x \in S : \A y \in S : ~(<<y, x>> \in OpToRel(<, Nat))
  BY NatLessThanWellFounded, WFMin
<1>2. ASSUME NEW x \in S, NEW y \in S, ~(<<y, x>> \in OpToRel(<, Nat)) PROVE x <= y
  <2>1. ~(y < x)
    BY <1>2, Zenon DEF OpToRel
  <2> QED
    BY <2>1
<1> QED
  BY <1>1, <1>2

\* The round that is taken is one a wallet answered, or none.
LEMMA MiningInfoIsAnswer ==
  ASSUME NEW answers \in Seq(Rounds)
  PROVE  MiningInfo(answers) \in Rounds \cup {0}
<1> DEFINE S == ToSet(answers) \cup {0}
           D == {MaxHeight + 1 - x : x \in S}
<1>1. S \subseteq Rounds \cup {0}
  BY DEF ToSet
<1>2. D \subseteq Nat /\ D # {}
  BY <1>1, HeightsAssumption DEF Rounds
<1>3. PICK d \in D : \A e \in D : d <= e
  BY <1>2, LeastExists
<1>4. PICK x \in S : d = MaxHeight + 1 - x
  OBVIOUS
<1>5. ASSUME NEW y \in S PROVE x >= y
  <2>1. d <= MaxHeight + 1 - y
    BY <1>3
  <2>2. x \in Nat /\ y \in Nat
    BY <1>1, HeightsAssumption DEF Rounds
  <2> QED
    BY <1>4, <2>1, <2>2, HeightsAssumption
<1>6. Max(S) \in S
  BY <1>4, <1>5 DEF Max
<1> QED
  BY <1>1, <1>6 DEF MiningInfo

----------------------------------------------------------------------------
\* The payer.

\* The parts of a running payment.
LEMMA PayFields ==
  ASSUME PayInv
  PROVE  /\ pay \in PayCall /\ pay.left \subseteq Wallets /\ pay.answers \in Seq(Payments)
         /\ Len(outcome) \in Nat /\ Number \in Nat /\ Number = Len(outcome) + 1
         /\ DOMAIN pay.answers = 1 .. Len(pay.answers) /\ Len(pay.answers) \in Nat
<1>1. pay \in PayCall /\ pay.answers \in Seq(Payments) /\ outcome \in Seq(Payments \cup {Null})
  BY DEF PayInv, PayCall
<1> QED
  BY <1>1 DEF PayCall, Number

\* A wallet's goroutine ends: nothing new is created.
LEMMA PayFailed ==
  ASSUME PayInv, NEW w, pay' = Failed(pay, w), UNCHANGED <<broadcast, outcome>>
  PROVE  PayInv'
<1>1. pay \in PayCall /\ pay.left \ {w} \in SUBSET Wallets
  BY PayFields
<1>2. pay' \in PayCall /\ pay'.kind = pay.kind /\ pay'.answers = pay.answers /\ pay'.kept = pay.kept
  BY <1>1 DEF Failed, PayCall
<1> QED
  BY <1>2 DEF PayInv, Number

\* The answers of the wallets to a payment.
LEMMA PayStep ==
  ASSUME PayInv, NEW w \in Wallets, Create(w) \/ CreateFails(w) \/ Broadcast(w)
  PROVE  PayInv'
<1>1. CASE Create(w)
  <2> DEFINE p == <<w, Number>>
             ans == Append(pay.answers, p)
  <2>1. /\ pay.kind = "create" /\ UNCHANGED <<broadcast, outcome>>
        /\ pay' = [pay EXCEPT !.left = pay.left \ {w}, !.answers = ans]
    BY <1>1 DEF Create, Answered, CreatedOnly
  <2>2. p \in Payments /\ p[2] = Number
    BY PayFields DEF Payments
  <2>3. /\ ans \in Seq(Payments) /\ DOMAIN ans = 1 .. Len(pay.answers) + 1
        /\ \A i \in DOMAIN ans : ans[i] = p \/ (i \in DOMAIN pay.answers /\ ans[i] = pay.answers[i])
    BY <2>2, PayFields, AppendProperties
  <2>4. pay.left \ {w} \in SUBSET Wallets
    BY PayFields
  <2> HIDE DEF p, ans
  <2>5. pay' \in PayCall /\ pay'.kind = "create" /\ pay'.answers = ans
    BY <2>1, <2>3, <2>4, PayFields DEF PayCall
  <2> QED
    BY <2>1, <2>2, <2>3, <2>5 DEF PayInv, Number
<1>2. CASE CreateFails(w)
  BY <1>2, PayFailed DEF CreateFails, CreatedOnly
<1>3. CASE Broadcast(w)
  <2>1. pay.kind = "broadcast" /\ pay' = Failed(pay, w) /\ UNCHANGED outcome
        /\ (broadcast' = broadcast \/ broadcast' = broadcast \cup {pay.kept})
    BY <1>3 DEF Broadcast
  <2>2. pay.left \ {w} \in SUBSET Wallets
    BY PayFields
  <2>3. pay' \in PayCall /\ pay'.kind = pay.kind /\ pay'.answers = pay.answers /\ pay'.kept = pay.kept
    BY <2>1, <2>2, PayFields DEF Failed, PayCall
  <2> QED
    BY <2>1, <2>3 DEF PayInv, Number
<1> QED
  BY <1>1, <1>2, <1>3

\* The beginning of a payment and the ends of its two phases.
LEMMA PayEnds ==
  ASSUME PayInv, Pay \/ NotCreated \/ Created \/ Broadcasted
  PROVE  PayInv'
<1>1. NoCall \in PayCall /\ NoCall.kind = "none"
  BY DEF NoCall, PayCall
<1>2. ASSUME NEW k \in {"create", "broadcast"}, NEW v \in Payments \cup {Null}
      PROVE  /\ Request(k, v) \in PayCall /\ Request(k, v).kind = k /\ Request(k, v).kept = v
             /\ DOMAIN Request(k, v).answers = {}
  BY DEF Request, PayCall
<1>3. CASE Pay
  <2>1. pay' = Request("create", Null) /\ pay.kind = "none" /\ UNCHANGED <<broadcast, outcome>>
    BY <1>3 DEF Pay
  <2>2. pay' \in PayCall /\ pay'.kind = "create" /\ DOMAIN pay'.answers = {}
    BY <1>2, <2>1
  <2> QED
    BY <2>1, <2>2 DEF PayInv
<1>4. CASE Created
  <2>1. /\ pay' = Request("broadcast", Head(pay.answers)) /\ pay.kind = "create"
        /\ pay.answers # <<>> /\ UNCHANGED <<broadcast, outcome>>
    BY <1>4 DEF Created
  <2>2. Head(pay.answers) \in Payments /\ Head(pay.answers)[2] = Number
    BY <2>1, PayFields DEF PayInv
  <2>3. pay' \in PayCall /\ pay'.kind = "broadcast" /\ pay'.kept = Head(pay.answers)
    BY <1>2, <2>1, <2>2
  <2> QED
    BY <2>1, <2>2, <2>3 DEF PayInv, Number
<1>5. CASE NotCreated \/ Broadcasted
  <2>1. PICK v \in Payments \cup {Null} :
          /\ pay' = NoCall /\ outcome' = Append(outcome, v) /\ broadcast' = broadcast
          /\ pay.kind = "broadcast" => v = pay.kept
    BY <1>5 DEF NotCreated, Broadcasted, PayInv
  <2>2. /\ outcome' \in Seq(Payments \cup {Null}) /\ Len(outcome') = Len(outcome) + 1
        /\ outcome'[Len(outcome) + 1] = v /\ \A i \in 1 .. Len(outcome) : outcome'[i] = outcome[i]
    BY <2>1, AppendProperties DEF PayInv
  <2>3. Len(outcome) \in Nat
    BY PayFields
  <2>4. ASSUME NEW p \in broadcast PROVE p[2] \in 1 .. Len(outcome') /\ p = outcome'[p[2]]
    BY <2>1, <2>2, <2>3 DEF PayInv, Number
  <2> QED
    BY <1>1, <2>1, <2>2, <2>4 DEF PayInv
<1> QED
  BY <1>3, <1>4, <1>5

----------------------------------------------------------------------------
\* The poller.

\* The parts of a running poll.
LEMMA PollFields ==
  ASSUME PollInv
  PROVE  /\ poll \in PollCall /\ poll.left \subseteq Wallets /\ poll.answers \in Seq(Rounds)
         /\ round \in Nat /\ round >= 1 /\ round <= MaxHeight + 1
  BY HeightsAssumption DEF PollInv, PollCall, Rounds

\* Requests of the poller.
LEMMA PollRequest ==
  ASSUME NEW k \in {"mining", "previous", "ended"}, NEW v \in Kept \cup {Null}
  PROVE  Request(k, v) \in PollCall /\ Request(k, v).kind = k /\ Request(k, v).kept = v
  BY DEF Request, PollCall

\* No poll is running.
LEMMA NoPoll == NoCall \in PollCall /\ NoCall.kind = "none"
  BY DEF NoCall, PollCall

\* What a wallet tells of a block it has.
LEMMA BlockTime ==
  ASSUME ViewInv, NEW w \in Wallets, NEW h \in Nat, HasBlock(w, h)
  PROVE  view[w].fork \in Forks /\ h <= MaxHeight /\ Timestamp[view[w].fork][h] \in Nat
<1>1. view[w].fork \in Forks /\ view[w].top \in ForkPoint .. MaxHeight
  BY DEF ViewInv
<1>2. h \in 0 .. MaxHeight
  BY <1>1, HeightsAssumption DEF HasBlock
<1> QED
  BY <1>1, <1>2, TimestampAssumption

\* A wallet's chain grows or changes to another fork.
LEMMA ViewStep ==
  ASSUME ViewInv, NEW w \in Wallets,
         Extend(w) \/ \E f \in Forks, top \in ForkPoint .. MaxHeight : Reorganise(w, f, top)
  PROVE  ViewInv'
<1>1. CASE Extend(w)
  <2>1. view[w] \in [fork : Forks, top : ForkPoint .. MaxHeight] /\ view[w].top < MaxHeight
    BY <1>1 DEF ViewInv, Extend
  <2>2. [view[w] EXCEPT !.top = view[w].top + 1] \in [fork : Forks, top : ForkPoint .. MaxHeight]
    BY <2>1, HeightsAssumption
  <2>3. view' = [view EXCEPT ![w] = [view[w] EXCEPT !.top = view[w].top + 1]]
    BY <1>1 DEF Extend
  <2> QED
    BY <2>2, <2>3 DEF ViewInv
<1>2. CASE \E f \in Forks, top \in ForkPoint .. MaxHeight : Reorganise(w, f, top)
  BY <1>2 DEF Reorganise, ViewInv
<1> QED
  BY <1>1, <1>2

\* A goroutine of a request ends without an answer.
LEMMA PollFailed ==
  ASSUME PollInv, RowInv, NEW w, poll' = Failed(poll, w), UNCHANGED roundVars
  PROVE  PollInv' /\ RowInv'
<1>1. poll.left \ {w} \in SUBSET Wallets
  BY PollFields
<1>2. poll' \in PollCall /\ poll'.kind = poll.kind /\ poll'.kept = poll.kept
  BY <1>1, PollFields DEF Failed, PollCall
<1> QED
  BY <1>2 DEF PollInv, RowInv, roundVars, PanicNeedsLostTime, TimesTold, Opened, Newer, Asked

\* A wallet tells what it mines on.
LEMMA MiningStep ==
  ASSUME PollInv, RowInv, ViewInv, NEW w \in Wallets, TellMiningInfo(w)
  PROVE  PollInv' /\ RowInv'
<1> DEFINE top == view[w].top + 1
<1>1. /\ poll.kind = "mining" /\ UNCHANGED roundVars
      /\ poll' = [poll EXCEPT !.left = poll.left \ {w}, !.answers = Append(poll.answers, top)]
  BY DEF TellMiningInfo, Answered
<1>2. top \in Rounds
  BY HeightsAssumption DEF ViewInv, Rounds
<1>3. poll.left \ {w} \in SUBSET Wallets /\ Append(poll.answers, top) \in Seq(Rounds)
  BY <1>2, PollFields, AppendProperties
<1>4. poll' \in PollCall /\ poll'.kind = "mining"
  BY <1>1, <1>3, PollFields DEF PollCall
<1> QED
  BY <1>1, <1>4 DEF PollInv, RowInv, roundVars, PanicNeedsLostTime, TimesTold, Opened, Newer, Asked

\* A poll begins, finds nothing new, or asks for a generation time.
LEMMA PollStep ==
  ASSUME PollInv, RowInv, Poll \/ MiningInfoOld \/ MiningInfoNew
  PROVE  PollInv' /\ RowInv'
<1>1. CASE Poll
  <2>1. poll' = Request("mining", Null) /\ UNCHANGED roundVars /\ ~panicked
    BY <1>1 DEF Poll
  <2>2. poll' \in PollCall /\ poll'.kind = "mining"
    BY <2>1, PollRequest
  <2> QED
    BY <2>1, <2>2 DEF PollInv, RowInv, roundVars, PanicNeedsLostTime, TimesTold
<1>2. CASE MiningInfoOld
  <2>1. poll' = NoCall /\ UNCHANGED roundVars /\ ~panicked
    BY <1>2 DEF MiningInfoOld
  <2> QED
    BY <2>1, NoPoll DEF PollInv, RowInv, roundVars, PanicNeedsLostTime, TimesTold
<1>3. CASE MiningInfoNew
  <2> DEFINE n == MiningInfo(poll.answers)
             k == [next |-> n, time |-> 0]
  <2>1. ~NothingNew(n) /\ poll' = Request("previous", k) /\ UNCHANGED roundVars /\ ~panicked
    BY <1>3 DEF MiningInfoNew
  <2>2. n \in Rounds /\ n \notin window /\ n # round
    BY <2>1, PollFields, MiningInfoIsAnswer DEF NothingNew
  <2> HIDE DEF n
  <2>3. k \in Kept /\ k.next = n
    BY <2>2 DEF Kept
  <2> HIDE DEF k
  <2>4. poll' \in PollCall /\ poll'.kind = "previous" /\ poll'.kept = k
    BY <2>1, <2>3, PollRequest
  <2> QED
    BY <2>1, <2>2, <2>3, <2>4 DEF PollInv, RowInv, roundVars, PanicNeedsLostTime, TimesTold, Opened
<1> QED
  BY <1>1, <1>2, <1>3

\* The height that is opened, and the one whose time is asked for.
LEMMA AskedFields ==
  ASSUME PollInv, poll.kind \in {"previous", "ended"}, ~panicked
  PROVE  /\ poll.kept \in Kept /\ poll.kept.time \in Nat
         /\ Opened = poll.kept.next /\ Opened \in Rounds /\ Opened \notin window /\ Opened # round
         /\ Asked \in Rounds /\ Asked - 1 \in Nat /\ Asked \in Nat
         /\ IF Newer THEN Asked = round /\ Opened > round ELSE Asked = Opened /\ Opened < round
<1>1. poll.kept \in Kept /\ Opened \notin window /\ Opened # round /\ round \in Rounds
  BY DEF PollInv
<1> QED
  BY <1>1, HeightsAssumption DEF Kept, Rounds, Opened, Newer, Asked

\* The first of the two timestamps: of any fork.
LEMMA PreviousStep ==
  ASSUME PollInv, RowInv, ViewInv, NEW w \in Wallets, TellPrevious(w)
  PROVE  PollInv' /\ RowInv'
<1> DEFINE t == Timestamp[view[w].fork][Asked - 1]
           k == [poll.kept EXCEPT !.time = t]
<1>1. /\ ~panicked /\ poll.kind = "previous" /\ HasBlock(w, Asked - 1) /\ UNCHANGED roundVars
      /\ poll' = Request("ended", k)
  BY DEF TellPrevious
<1>2. view[w].fork \in Forks /\ t \in Nat
  BY <1>1, AskedFields, BlockTime
<1>3. poll.kept \in Kept /\ Opened \notin window /\ Opened # round
  BY <1>1, AskedFields
<1>4. k \in Kept /\ k.next = poll.kept.next /\ k.time = t
  BY <1>2, <1>3 DEF Kept
<1> HIDE DEF k
<1>5. poll' \in PollCall /\ poll'.kind = "ended" /\ poll'.kept = k
  BY <1>1, <1>4, PollRequest
<1>6. Opened' = Opened /\ Asked' = Asked
  BY <1>1, <1>4, <1>5 DEF Opened, Asked, Newer, roundVars
<1>7. \E f \in Forks : poll'.kept.time = Timestamp[f][Asked' - 1]
  BY <1>2, <1>4, <1>5, <1>6
<1>8. PollInv'
  BY <1>1, <1>3, <1>4, <1>5, <1>6, <1>7 DEF PollInv, roundVars
<1> QED
  BY <1>1, <1>8 DEF RowInv, roundVars, PanicNeedsLostTime, TimesTold

\* The INSERT: it fails only for a block that ended without a time.
LEMMA InsertCases ==
  ASSUME PollInv, RowInv, ~panicked, poll.kind \in {"previous", "ended"},
         NEW times \in [Rounds -> Int \cup {Null}], NEW time \in Int, InsertRow(times, time),
         \A h \in Rounds \ {round} : times[h] = genTime[h]
  PROVE  \/ /\ Opened \in lost /\ ~Newer
            /\ genTime' = times /\ panicked' = TRUE /\ UNCHANGED <<round, poll>>
         \/ /\ genTime' \in [Rounds -> Int \cup {Null}] /\ genTime'[Opened] = time
            /\ \A h \in Rounds \ {Opened} : genTime'[h] = times[h]
            /\ round' = (IF Newer THEN Opened ELSE round)
            /\ poll' = NoCall /\ panicked' = FALSE
<1>1. Opened \in Rounds /\ Opened # round /\ Opened \notin window /\ (Newer => Opened > round)
  BY AskedFields
<1>2. CASE times[Opened] = Null
  BY <1>1, <1>2 DEF InsertRow
<1>3. CASE times[Opened] # Null
  <2>1. genTime[Opened] # Null
    BY <1>1, <1>3
  <2>2. Opened < round /\ Opened \in lost
    BY <1>1, <2>1 DEF RowInv
  <2>3. ~Newer
    BY <1>1, <2>2, PollFields, HeightsAssumption DEF Rounds
  <2> QED
    BY <1>3, <2>2, <2>3 DEF InsertRow
<1> QED
  BY <1>2, <1>3

\* The second: the block is in a window from now on, with the time told.
LEMMA EndedStep ==
  ASSUME PollInv, RowInv, ViewInv, NEW w \in Wallets, TellEnded(w)
  PROVE  PollInv' /\ RowInv'
<1> DEFINE f == view[w].fork
           t == Timestamp[f][Asked] - poll.kept.time
           u == Updated(t)
<1>1. /\ ~panicked /\ poll.kind = "ended" /\ HasBlock(w, Asked)
      /\ window' = window \cup {Asked} /\ lost' = lost /\ InsertRow(u, t)
  BY DEF TellEnded
<1>2. f \in Forks /\ Timestamp[f][Asked] \in Nat
  BY <1>1, AskedFields, BlockTime
<1>3. /\ poll.kept.time \in Nat /\ Opened \in Rounds /\ Opened \notin window /\ Opened # round
      /\ Asked \in Rounds /\ round \in Rounds
      /\ IF Newer THEN Asked = round /\ Opened > round ELSE Asked = Opened /\ Opened < round
  BY <1>1, AskedFields DEF PollInv
<1>4. t \in Int
  BY <1>2, <1>3
<1>5. PICK g \in Forks : poll.kept.time = Timestamp[g][Asked - 1]
  BY <1>1 DEF PollInv
<1>6. \E a, b \in Forks : t = Timestamp[a][Asked] - Timestamp[b][Asked - 1]
  BY <1>2, <1>5
<1> HIDE DEF t, f
<1>7. /\ u \in [Rounds -> Int \cup {Null}] /\ \A h \in Rounds \ {round} : u[h] = genTime[h]
      /\ Newer => u[round] = t
  BY <1>3, <1>4 DEF Updated, RowInv
<1> HIDE DEF u
<1>8. \/ /\ Opened \in lost /\ ~Newer
         /\ genTime' = u /\ panicked' = TRUE /\ UNCHANGED <<round, poll>>
      \/ /\ genTime' \in [Rounds -> Int \cup {Null}] /\ genTime'[Opened] = t
         /\ \A h \in Rounds \ {Opened} : genTime'[h] = u[h]
         /\ round' = (IF Newer THEN Opened ELSE round)
         /\ poll' = NoCall /\ panicked' = FALSE
  BY <1>1, <1>4, <1>7, InsertCases
<1>9. PollInv'
  BY <1>1, <1>3, <1>8, NoPoll DEF PollInv
<1>10. \A h \in window' : h \in Rounds /\ h < round'
  BY <1>1, <1>3, <1>8, HeightsAssumption DEF RowInv, Rounds
<1>11. ASSUME NEW h \in Rounds, genTime'[h] # Null
       PROVE  h = round' \/ (h < round' /\ h \in window' \cup lost')
  <2>1. h = round \/ h = Opened \/ (h < round /\ h \in window \cup lost)
    BY <1>3, <1>7, <1>8, <1>11 DEF RowInv
  <2> QED
    BY <1>1, <1>3, <1>8, <2>1, HeightsAssumption DEF Rounds
<1>12. PanicNeedsLostTime'
  BY <1>1, <1>8 DEF PanicNeedsLostTime, Opened
<1>13. ASSUME NEW h \in window' \ lost'
       PROVE  genTime'[h] = Fallback \/ \E a, b \in Forks : genTime'[h] = Timestamp[a][h] - Timestamp[b][h - 1]
  <2>1. CASE h = Asked
    <3>1. genTime'[h] = t
      BY <1>1, <1>3, <1>7, <1>8, <1>13, <2>1
    <3> QED
      BY <1>6, <2>1, <3>1
  <2>2. CASE h # Asked
    <3>1. h \in window \ lost /\ h \in Rounds /\ h # round /\ h # Opened
      BY <1>1, <1>3, <1>13, <2>2, HeightsAssumption DEF RowInv, Rounds
    <3>2. genTime'[h] = genTime[h]
      BY <1>7, <1>8, <3>1
    <3> QED
      BY <3>1, <3>2 DEF RowInv, TimesTold
  <2> QED
    BY <2>1, <2>2
<1>14. genTime' \in [Rounds -> Int \cup {Null}]
  BY <1>7, <1>8
<1> QED
  BY <1>9, <1>10, <1>11, <1>12, <1>13, <1>14 DEF RowInv, TimesTold

\* Nobody tells: the block that ended is lost, a late one gets the fallback.
LEMMA NobodyStep ==
  ASSUME PollInv, RowInv, NobodyTells
  PROVE  PollInv' /\ RowInv'
<1> DEFINE t == IF Newer THEN 0 ELSE Fallback
<1>1. /\ ~panicked /\ poll.kind \in {"previous", "ended"} /\ InsertRow(genTime, t)
      /\ window' = (IF Newer THEN window ELSE window \cup {Opened})
      /\ lost' = (IF Newer THEN lost \cup {round} ELSE lost)
  BY DEF NobodyTells
<1>2. /\ Opened \in Rounds /\ Opened \notin window /\ Opened # round /\ round \in Rounds
      /\ IF Newer THEN Opened > round ELSE Opened < round
  BY <1>1, AskedFields DEF PollInv
<1>3. t \in Int /\ (~Newer => t = Fallback)
  BY NAVGAssumption
<1> HIDE DEF t
<1>4. genTime \in [Rounds -> Int \cup {Null}]
  BY DEF RowInv
<1>5. \/ /\ Opened \in lost /\ ~Newer
         /\ genTime' = genTime /\ panicked' = TRUE /\ UNCHANGED <<round, poll>>
      \/ /\ genTime' \in [Rounds -> Int \cup {Null}] /\ genTime'[Opened] = t
         /\ \A h \in Rounds \ {Opened} : genTime'[h] = genTime[h]
         /\ round' = (IF Newer THEN Opened ELSE round)
         /\ poll' = NoCall /\ panicked' = FALSE
  BY <1>1, <1>3, <1>4, InsertCases
<1>6. PollInv'
  BY <1>1, <1>2, <1>5, NoPoll DEF PollInv
<1>7. \A h \in window' : h \in Rounds /\ h < round'
  BY <1>1, <1>2, <1>5, HeightsAssumption DEF RowInv, Rounds
<1>8. ASSUME NEW h \in Rounds, genTime'[h] # Null
      PROVE  h = round' \/ (h < round' /\ h \in window' \cup lost')
  <2>1. h = round \/ h = Opened \/ (h < round /\ h \in window \cup lost)
    BY <1>2, <1>5, <1>8 DEF RowInv
  <2> QED
    BY <1>1, <1>2, <1>5, <2>1, HeightsAssumption DEF Rounds
<1>9. PanicNeedsLostTime'
  BY <1>1, <1>5 DEF PanicNeedsLostTime, Opened
<1>10. ASSUME NEW h \in window' \ lost'
       PROVE  genTime'[h] = Fallback \/ \E a, b \in Forks : genTime'[h] = Timestamp[a][h] - Timestamp[b][h - 1]
  <2>1. CASE h = Opened
    BY <1>1, <1>2, <1>3, <1>5, <1>10, <2>1
  <2>2. CASE h # Opened
    <3>1. h \in window \ lost /\ h \in Rounds
      BY <1>1, <1>10, <2>2 DEF RowInv
    <3>2. genTime'[h] = genTime[h]
      BY <1>5, <2>2, <3>1
    <3> QED
      BY <3>1, <3>2 DEF RowInv, TimesTold
  <2> QED
    BY <2>1, <2>2
<1> QED
  BY <1>4, <1>5, <1>6, <1>7, <1>8, <1>9, <1>10 DEF RowInv, TimesTold

----------------------------------------------------------------------------
\* Before the first poll and the first payment.
LEMMA WalletInit == Init => WalletInv
<1> SUFFICES ASSUME Init PROVE WalletInv
  OBVIOUS
<1>1. PayInv
  BY DEF Init, PayInv, PayCall, NoCall
<1>2. ViewInv
  <2>1. (CHOOSE f \in Forks : TRUE) \in Forks
    BY HeightsAssumption
  <2> QED
    BY <2>1, HeightsAssumption DEF Init, ViewInv
<1>3. PollInv
  BY NoPoll, HeightsAssumption DEF Init, PollInv, Rounds
<1>4. RowInv
  BY HeightsAssumption DEF Init, RowInv, Rounds, PanicNeedsLostTime, TimesTold
<1> QED
  BY <1>1, <1>2, <1>3, <1>4 DEF WalletInv

\* Payments, chains and generation times keep apart, so that each step is
\* one of the lemmas above and leaves the rest alone.
THEOREM WalletInvariant == Spec => []WalletInv
<1>1. WalletInv /\ [Next]_vars => WalletInv'
  <2> SUFFICES ASSUME WalletInv, [Next]_vars PROVE WalletInv'
    OBVIOUS
  <2> USE DEF WalletInv
  <2>1. ASSUME UNCHANGED <<chainVars>> PROVE ViewInv'
    BY <2>1 DEF chainVars, ViewInv
  <2>2. ASSUME UNCHANGED payVars PROVE PayInv'
    BY <2>2 DEF payVars, PayInv, Number
  <2>3. ASSUME UNCHANGED <<roundVars, poll>> PROVE PollInv' /\ RowInv'
    BY <2>3 DEF roundVars, PollInv, RowInv, PanicNeedsLostTime, TimesTold, Opened, Newer, Asked
  <2>4. CASE Poll \/ MiningInfoOld \/ MiningInfoNew
    <3>1. UNCHANGED chainVars /\ UNCHANGED payVars
      BY <2>4 DEF Poll, MiningInfoOld, MiningInfoNew
    <3> QED
      BY <2>1, <2>2, <2>4, <3>1, PollStep
  <2>5. CASE NobodyTells
    BY <2>1, <2>2, <2>5, NobodyStep DEF NobodyTells
  <2>6. CASE Pay \/ NotCreated \/ Created \/ Broadcasted
    <3>1. UNCHANGED chainVars /\ UNCHANGED <<roundVars, poll>>
      BY <2>6 DEF Pay, NotCreated, Created, Broadcasted
    <3> QED
      BY <2>1, <2>3, <2>6, <3>1, PayEnds
  <2>7. ASSUME NEW w \in Wallets, Create(w) \/ CreateFails(w) \/ Broadcast(w) PROVE WalletInv'
    <3>1. UNCHANGED chainVars /\ UNCHANGED <<roundVars, poll>>
      BY <2>7 DEF Create, CreateFails, Broadcast
    <3> QED
      BY <2>1, <2>3, <2>7, <3>1, PayStep
  <2>8. ASSUME NEW w \in Wallets, TellMiningInfo(w) PROVE WalletInv'
    BY <2>1, <2>2, <2>8, MiningStep DEF TellMiningInfo
  <2>9. ASSUME NEW w \in Wallets, MiningInfoFails(w) \/ TellFails(w) PROVE WalletInv'
    BY <2>1, <2>2, <2>9, PollFailed DEF MiningInfoFails, TellFails
  <2>10. ASSUME NEW w \in Wallets, TellPrevious(w) PROVE WalletInv'
    BY <2>1, <2>2, <2>10, PreviousStep DEF TellPrevious
  <2>11. ASSUME NEW w \in Wallets, TellEnded(w) PROVE WalletInv'
    BY <2>1, <2>2, <2>11, EndedStep DEF TellEnded
  <2>12. ASSUME NEW w \in Wallets,
                Extend(w) \/ \E f \in Forks, top \in ForkPoint .. MaxHeight : Reorganise(w, f, top)
         PROVE  WalletInv'
    <3>1. UNCHANGED payVars /\ UNCHANGED <<roundVars, poll>>
      BY <2>12 DEF Extend, Reorganise
    <3> QED
      BY <2>2, <2>3, <2>12, <3>1, ViewStep
  <2>13. CASE UNCHANGED vars
    BY <2>1, <2>2, <2>3, <2>13 DEF vars, chainVars, roundVars, payVars
  <2> QED
    BY <2>4, <2>5, <2>6, <2>7, <2>8, <2>9, <2>10, <2>11, <2>12, <2>13 DEF Next
<1> QED
  BY <1>1, WalletInit, PTL DEF Spec

\* Of all a call of SendPayment had created, only the transaction whose id it
\* returns reaches the network, whatever wallets fail and when.
THEOREM PaidOnce == Spec => []OnePayment
<1>1. WalletInv => OnePayment
  <2> SUFFICES ASSUME WalletInv, NEW n \in 1 .. Len(outcome), NEW payment \in broadcast, payment[2] = n
               PROVE  payment = outcome[n]
    BY DEF OnePayment
  <2>1. PayInv /\ n # Number /\ (pay.kind = "broadcast" => pay.kept[2] = Number)
    BY PayFields DEF WalletInv, PayInv, Number
  <2> QED
    BY <2>1 DEF PayInv
<1> QED
  BY <1>1, WalletInvariant, PTL

\* The poller panics only over a block that ended while no wallet told its
\* generation time; any other height wallets that lag behind answer, skipped
\* or known, is opened once or ignored.
THEOREM PollerPanicsExplained == Spec => []PanicNeedsLostTime
<1>1. WalletInv => PanicNeedsLostTime
  BY DEF WalletInv, RowInv
<1> QED
  BY <1>1, WalletInvariant, PTL

\* The row of a block that went through a window keeps the time told for it,
\* or the fallback, whatever heights are opened afterwards and in any order.
THEOREM TimesKept == Spec => []TimesTold
<1>1. WalletInv => TimesTold
  BY DEF WalletInv, RowInv
<1> QED
  BY <1>1, WalletInvariant, PTL
=============================================================================
