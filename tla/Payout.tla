------------------------------- MODULE Payout -------------------------------
(***************************************************************************)
(* The money path of modelx, as the pool's single jobs goroutine runs it   *)
(* at every tick of payTicker: RewardBlocks credits won blocks (and serves *)
(* the payout messages miners send to the pool account), Payout moves      *)
(* pending balances into transaction rows, validates the ones sent more    *)
(* than a day ago and sends the ones without a chain transaction.          *)
(*                                                                         *)
(* One action is one database transaction or one wallet call; a crash may  *)
(* fall between any two of them.  The chain and the wallets are the        *)
(* environment.  The copy of pending in the miner cache is display data    *)
(* that nothing here reads, and is left out.                               *)
(***************************************************************************)
EXTENDS RewardSplit, FiniteSets, FiniteSetsExt, Sequences, SequencesExt

CONSTANTS
  Miners,         \* account ids of the miners
  Heights,        \* heights of the blocks to reward
  Unsubmitted,    \* the ones nobody of the pool submitted a nonce for
  BlockReward,    \* their reward and fees, in planck
  Opening,        \* pending every miner has from earlier blocks
  EepsChoices,    \* effective capacities a block may find, per miner
  MinPayouts,     \* thresholds miners ask for in messages; 0 resets
  Intervals,      \* the interval messages: subset of weekly, daily, now
  MinerTxFee, PoolTxFee, MinimumPayout, SetFee,
  MaxMultiRecipients,
  Wallets,        \* the wallets of Cfg.WalletUrls
  Lagging,        \* those whose chain may miss a mined transaction
  TxIds,          \* ids of chain transactions
  MaxRows,        \* bound: rows of table transaction
  MaxCrashes,     \* bound: restarts of the pool
  Null

ASSUME MinersAssumption == IsFiniteSet(Miners) /\ Fee \notin Miners
ASSUME BoundAssumption == MaxRows \in Nat /\ MaxCrashes \in Nat
ASSUME HeightsAssumption == IsFiniteSet(Heights) /\ Heights \subseteq Nat
ASSUME AmountsAssumption ==
  /\ BlockReward \in Nat /\ Opening \in Nat
  /\ MinerTxFee \in Nat /\ PoolTxFee \in Nat /\ SetFee \in Nat
ASSUME EepsAssumption ==
  \A eepsOf \in EepsChoices : DOMAIN eepsOf \subseteq Miners /\ \A m \in DOMAIN eepsOf : eepsOf[m] \in Nat
ASSUME LaggingAssumption == Lagging \subseteq Wallets
ASSUME RecipientsAssumption == MaxMultiRecipients \in Nat \ {0}
ASSUME NullAssumption == Null \notin TxIds /\ Null \notin (1 .. MaxRows) \X TxIds

VARIABLES
  jobs,       \* phase of the jobs goroutine
  senders,    \* accounts whose message is still to be served in this round
  todo,       \* heights, chain transactions or rows the phase has still to handle
  sending,    \* <<row, tx>> sent to the chain but not yet recorded, or Null
  pend,       \* account.pending
  plan,       \* account.min_payout_value, payout_interval, next_payout_date
  verified,   \* heights with block.winner_verified
  credit,     \* history: what rewardBlock has credited for each height
  nextRow,    \* AUTO_INCREMENT of table transaction
  rowStatus,  \* transaction rows: unused, unsent, sent, confirmed, deleted
  rowTx,      \* transaction.transaction_id
  aged,       \* rows whose created lies more than a day back
  pay,        \* transaction_recipient: amount by recipient, per row
  txStatus,   \* the chain: dead (unknown and never to be), pool or mined
  txRow,      \* history: the row a chain transaction pays
  recorded,   \* history: chain transactions whose id was written to their row
  crashes

chainVars == <<txStatus, txRow>>
rowVars   == <<nextRow, rowStatus, rowTx, aged, pay, recorded>>
accVars   == <<pend, plan>>
jobVars   == <<jobs, senders, todo, sending>>
vars == <<jobVars, accVars, verified, credit, rowVars, chainVars, crashes>>

Accounts == Miners \cup {Fee}
RowIds   == 1 .. MaxRows
Phases   == {"idle", "reward", "create", "validate", "send", "record"}
Dates    == {"null", "later", "due"}

DefaultPlan == [min |-> Null, interval |-> "none", date |-> "null"]

\* The columns hold values the schema allows, and a payment waits to be recorded
\* exactly while sendMoney is between the wallet and the UPDATE.
TypeOK ==
  /\ jobs \in Phases
  /\ senders \subseteq Miners
  /\ todo \subseteq Heights \cup TxIds \cup RowIds
  /\ pend \in [Accounts -> Int]
  /\ \A a \in Accounts : /\ plan[a].min \in MinPayouts \cup {Null}
                         /\ plan[a].interval \in Intervals \cup {"none"}
                         /\ plan[a].date \in Dates
  /\ verified \subseteq Heights
  /\ credit \in [Heights -> Nat]
  /\ nextRow \in 1 .. MaxRows + 1
  /\ rowStatus \in [RowIds -> {"unused", "unsent", "sent", "confirmed", "deleted"}]
  /\ rowTx \in [RowIds -> TxIds \cup {Null}]
  /\ aged \subseteq RowIds
  /\ \A r \in RowIds : DOMAIN pay[r] \subseteq Accounts
  /\ txStatus \in [TxIds -> {"dead", "pool", "mined"}]
  /\ txRow \in [TxIds -> RowIds \cup {Null}]
  /\ recorded \subseteq TxIds
  /\ sending \in {Null} \cup (RowIds \X TxIds)
  /\ jobs = "record" <=> sending # Null
  /\ crashes \in 0 .. MaxCrashes

NoPay == [a \in {} |-> 0]

Init ==
  /\ jobs = "idle" /\ senders = {} /\ todo = {} /\ sending = Null
  /\ pend = [a \in Accounts |-> IF a = Fee THEN 0 ELSE Opening]
  /\ plan = [a \in Accounts |-> DefaultPlan]
  /\ verified = {}
  /\ credit = [h \in Heights |-> 0]
  /\ nextRow = 1
  /\ rowStatus = [r \in RowIds |-> "unused"]
  /\ rowTx = [r \in RowIds |-> Null]
  /\ aged = {}
  /\ pay = [r \in RowIds |-> NoPay]
  /\ txStatus = [t \in TxIds |-> "dead"]
  /\ txRow = [t \in TxIds |-> Null]
  /\ recorded = {}
  /\ crashes = 0

----------------------------------------------------------------------------
(* RewardBlocks. *)

\* The blocks that are old enough (any lower part of the open heights) are
\* fetched; those without a submission are verified without further question.
\* If some are left the messages of `who` come with them.
RewardBlocks(top, who) ==
  LET open == {h \in Heights \ verified : h <= top}
  IN  /\ jobs = "idle"
      /\ open \ Unsubmitted = {} => who = {}
      /\ verified' = verified \cup (open \cap Unsubmitted)
      /\ todo' = open \ Unsubmitted
      /\ senders' = who
      /\ jobs' = "reward"
      /\ UNCHANGED <<sending, accVars, credit, rowVars, chainVars, crashes>>

\* A message: an interval, or a threshold with interval "none".
Messages == [interval : Intervals, min : {0}] \cup [interval : {"none"}, min : MinPayouts]

\* "processed msg second time"
OldMsg(a, msg) ==
  IF msg.interval # "none"
    THEN plan[a].interval = msg.interval
    ELSE msg.min # 0 /\ plan[a].min = msg.min

\* Mutant: the threshold 0 is stored instead of NULL.
PlanOfZero(msg) ==
  [min      |-> msg.min,
   interval |-> msg.interval,
   date     |-> IF msg.interval = "none" THEN "null" ELSE "later"]

\* The columns a message sets; 0 resets the threshold to NULL.
PlanOf(msg) ==
  [min      |-> IF msg.min = 0 THEN Null ELSE msg.min,
   interval |-> msg.interval,
   date     |-> CASE msg.interval = "none" -> "null"
                  [] msg.interval = "now"  -> "due"
                  [] OTHER                 -> "later"]

\* Mutant: the fee account is not credited.
ChargedKept(a) == [pend EXCEPT ![a] = @ - SetFee]

\* The balances after account a paid for a change of its plan.
Charged(a) == [pend EXCEPT ![a] = @ - SetFee, ![Fee] = @ + SetFee]

Affordable(a) == pend[a] >= SetFee

\* One message of SetMinPayout: skipped when already served or when the
\* account cannot pay for it, otherwise applied in one transaction.
SetMinPayout(a, msg) ==
  /\ jobs = "reward"
  /\ a \in senders
  /\ senders' = senders \ {a}
  /\ IF OldMsg(a, msg) \/ ~Affordable(a)
       THEN UNCHANGED accVars
       ELSE /\ plan' = [plan EXCEPT ![a] = PlanOf(msg)]
            /\ pend' = Charged(a)
  /\ UNCHANGED <<jobs, todo, sending, verified, credit, rowVars, chainVars, crashes>>

\* The next block of the loop, in ascending order of heights.
NextHeight == Min(todo)

\* WonBlock or the begin of the transaction failed: the block stays open.
RewardFails ==
  /\ jobs = "reward" /\ senders = {} /\ todo # {}
  /\ todo' = todo \ {NextHeight}
  /\ UNCHANGED <<jobs, senders, sending, accVars, verified, credit, rowVars, chainVars, crashes>>

BlockLost ==
  /\ jobs = "reward" /\ senders = {} /\ todo # {}
  /\ todo' = todo \ {NextHeight}
  /\ verified' = verified \cup {NextHeight}
  /\ UNCHANGED <<jobs, senders, sending, accVars, credit, rowVars, chainVars, crashes>>

\* Mutant: winner_verified is forgotten.
VerifiedKept(h) == verified

VerifiedWith(h) == verified \cup {h}

\* rewardBlock: credits and winner_verified in one transaction.  An UPDATE of
\* an account is an addition to its pending.
RewardBlock(eepsOf, generator) ==
  LET shares == ShareInPlanckOf(BlockReward, eepsOf, generator)
  IN  /\ jobs = "reward" /\ senders = {} /\ todo # {}
      /\ todo' = todo \ {NextHeight}
      /\ pend' = [a \in Accounts |-> pend[a] + (IF a \in DOMAIN shares THEN shares[a] ELSE 0)]
      /\ credit' = [credit EXCEPT ![NextHeight] = @ + SumFunctionOnSet(shares, DOMAIN shares)]
      /\ verified' = VerifiedWith(NextHeight)
      /\ UNCHANGED <<jobs, senders, sending, plan, rowVars, chainVars, crashes>>

RewardDone ==
  /\ jobs = "reward" /\ senders = {} /\ todo = {}
  /\ jobs' = "create"
  /\ UNCHANGED <<senders, todo, sending, accVars, verified, credit, rowVars, chainVars, crashes>>

----------------------------------------------------------------------------
(* createTransactions. *)

\* The WHERE clause that selects the accounts to pay.
Due(a) ==
  \/ plan[a].min # Null /\ pend[a] >= plan[a].min + MinerTxFee
  \/ plan[a].date = "due" /\ pend[a] >= MinerTxFee
  \/ plan[a].min = Null /\ plan[a].date = "null" /\ pend[a] >= MinimumPayout + MinerTxFee

NumberTxsToCreate(n) ==
  IF n % MaxMultiRecipients = 0 THEN n \div MaxMultiRecipients ELSE n \div MaxMultiRecipients + 1

\* next_payout_date after a payout; the interval itself stays.
Rescheduled(p) ==
  CASE p.interval \in {"weekly", "daily"} -> [p EXCEPT !.date = "later"]
    [] p.interval = "now"                 -> [p EXCEPT !.date = "null"]
    [] OTHER                              -> p

\* Mutant: the last row in use is filled again.
NewRowsFromLast(n) == {r \in RowIds : nextRow - 1 <= r /\ r < nextRow + NumberTxsToCreate(n)}

\* The rows a payout to n accounts fills, MaxMultiRecipients each.
NewRows(n) == {r \in RowIds : nextRow <= r /\ r < nextRow + NumberTxsToCreate(n)}

\* Recipient i goes to row i / MaxMultiRecipients, counting from zero.
RecipientsOf(order, r) ==
  {order[i] : i \in {j \in DOMAIN order : nextRow + (j - 1) \div MaxMultiRecipients = r}}

\* One transaction takes the pending of every due account and books it, less
\* MinerTxFee, as recipients of new rows; the fee account keeps the difference
\* between what the miners paid and what the rows will cost.
CreateTransactions ==
  LET due   == {a \in Accounts : Due(a)}
      order == SetToSeq(due)
      n     == Cardinality(due)
      new   == NewRows(n)
      kept  == n * MinerTxFee - NumberTxsToCreate(n) * PoolTxFee
  IN  /\ jobs = "create"
      /\ due # {}
      /\ nextRow + NumberTxsToCreate(n) <= MaxRows + 1
      /\ nextRow' = nextRow + NumberTxsToCreate(n)
      /\ pend' = [a \in Accounts |->
                    (IF a \in due THEN 0 ELSE pend[a]) + (IF a = Fee THEN kept ELSE 0)]
      /\ plan' = [a \in Accounts |-> IF a \in due THEN Rescheduled(plan[a]) ELSE plan[a]]
      /\ rowStatus' = [r \in RowIds |-> IF r \in new THEN "unsent" ELSE rowStatus[r]]
      /\ pay' = [r \in RowIds |->
                   IF r \in new
                     THEN [a \in RecipientsOf(order, r) |-> pend[a] - MinerTxFee]
                     ELSE pay[r]]
      /\ jobs' = "validate"
      /\ todo' = {rowTx[r] : r \in {s \in aged : rowStatus[s] = "sent"}}
      /\ UNCHANGED <<senders, sending, verified, credit, rowTx, aged, recorded, chainVars, crashes>>

\* Nothing is due, or the transaction failed and was rolled back.
CreateNothing ==
  /\ jobs = "create"
  /\ jobs' = "validate"
  /\ todo' = {rowTx[r] : r \in {s \in aged : rowStatus[s] = "sent"}}
  /\ UNCHANGED <<senders, sending, accVars, verified, credit, rowVars, chainVars, crashes>>

----------------------------------------------------------------------------
(* validateTransactions. *)

\* What the wallets may say of a transaction: "found" only if it is mined,
\* "unknown" if it is not or the wallet's chain lags; a wallet may fail.
Answers(t) ==
  {ans \in [Wallets -> {"found", "unknown", "fail"}] : \A w \in Wallets :
     /\ ans[w] = "found" => txStatus[t] = "mined"
     /\ ans[w] = "unknown" => txStatus[t] # "mined" \/ w \in Lagging}

\* Mutant: "Unknown transaction" is a failure like any other.
GetTransactionDeaf(ans) ==
  IF \E w \in Wallets : ans[w] = "found" THEN "found" ELSE "fail"

\* GetTransaction asks the wallets until one knows the transaction, and takes
\* one "Unknown transaction" among the refusals for a successful query.
GetTransaction(ans) ==
  IF \E w \in Wallets : ans[w] = "found" THEN "found"
  ELSE IF \E w \in Wallets : ans[w] = "unknown" THEN "unknown"
  ELSE "fail"

RowsOf(t) == {r \in RowIds : rowTx[r] = t /\ rowStatus[r] = "sent"}

StatusAfter(said, knownBlock) ==
  CASE said = "found"   -> IF knownBlock THEN "confirmed" ELSE "deleted"
    [] said = "unknown" -> "unsent"
    [] said = "fail"    -> "sent"

\* One transaction of the loop.  Found: the row gets its block height, or is
\* deleted if the pool does not know that block.  Unknown: the row loses its
\* transaction id and will be sent again.
ValidateTransaction(t, ans, knownBlock) ==
  LET said == GetTransaction(ans)
  IN  /\ jobs = "validate"
      /\ t \in todo
      /\ todo' = todo \ {t}
      /\ rowStatus' = [r \in RowIds |->
           IF r \in RowsOf(t) THEN StatusAfter(said, knownBlock) ELSE rowStatus[r]]
      /\ rowTx' = [r \in RowIds |-> IF r \in RowsOf(t) /\ said = "unknown" THEN Null ELSE rowTx[r]]
      /\ UNCHANGED <<jobs, senders, sending, accVars, verified, credit, nextRow, aged, pay,
                     recorded, chainVars, crashes>>

ValidateDone ==
  /\ jobs = "validate" /\ todo = {}
  /\ jobs' = "send"
  /\ todo' = {r \in RowIds : rowStatus[r] = "unsent"}
  /\ UNCHANGED <<senders, sending, accVars, verified, credit, rowVars, chainVars, crashes>>

----------------------------------------------------------------------------
(* sendMoney. *)

\* The wallets refuse a transfer of nothing or less, and one to nobody.
Payable(r) == DOMAIN pay[r] # {} /\ \A a \in DOMAIN pay[r] : pay[r][a] > 0

\* No wallet created the transaction: the row waits for the next round.
SendFails(r) ==
  /\ jobs = "send" /\ r \in todo
  /\ todo' = todo \ {r}
  /\ UNCHANGED <<jobs, senders, sending, accVars, verified, credit, rowVars, chainVars, crashes>>

\* A fresh chain transaction is created and broadcast; the broadcast may reach
\* no wallet, and its errors are ignored.
SendPayment(r, t, reached) ==
  /\ jobs = "send" /\ r \in todo
  /\ Payable(r)
  /\ txStatus[t] = "dead"
  /\ \A s \in RowIds : rowTx[s] # t
  /\ txStatus' = [txStatus EXCEPT ![t] = IF reached THEN "pool" ELSE "dead"]
  /\ txRow' = [txRow EXCEPT ![t] = r]
  /\ recorded' = recorded \ {t}
  /\ sending' = <<r, t>>
  /\ todo' = todo \ {r}
  /\ jobs' = "record"
  /\ UNCHANGED <<senders, accVars, verified, credit, nextRow, rowStatus, rowTx, aged, pay, crashes>>

\* Mutant: created keeps the time the transaction was first sent.
AgedKept(r) == aged

AgedWithout(r) == aged \ {r}

\* The UPDATE that stores the transaction id and created = NOW().
RecordTransaction ==
  LET r == sending[1]
      t == sending[2]
  IN  /\ jobs = "record"
      /\ rowTx' = [rowTx EXCEPT ![r] = t]
      /\ rowStatus' = [rowStatus EXCEPT ![r] = "sent"]
      /\ aged' = AgedWithout(r)
      /\ recorded' = recorded \cup {t}
      /\ sending' = Null
      /\ jobs' = "send"
      /\ UNCHANGED <<senders, todo, accVars, verified, credit, nextRow, pay, chainVars, crashes>>

SendDone ==
  /\ jobs = "send" /\ todo = {}
  /\ jobs' = "idle"
  /\ UNCHANGED <<senders, todo, sending, accVars, verified, credit, rowVars, chainVars, crashes>>

----------------------------------------------------------------------------
(* Environment. *)

\* A broadcast transaction is included in a block.
Mine(t) ==
  /\ txStatus[t] = "pool"
  /\ txStatus' = [txStatus EXCEPT ![t] = "mined"]
  /\ UNCHANGED <<jobVars, accVars, verified, credit, rowVars, txRow, crashes>>

\* A day goes by: transactions not mined are past their deadline of 1440
\* minutes, what was recorded as sent has aged, daily payouts are due, and
\* weekly ones may be.
DayPasses(weekEnds) ==
  /\ txStatus' = [t \in TxIds |-> IF txStatus[t] = "pool" THEN "dead" ELSE txStatus[t]]
  /\ aged' = {r \in RowIds : rowStatus[r] = "sent"}
  /\ plan' = [a \in Accounts |->
       IF plan[a].date = "later" /\ (plan[a].interval = "daily" \/ weekEnds)
         THEN [plan[a] EXCEPT !.date = "due"] ELSE plan[a]]
  /\ UNCHANGED <<jobVars, pend, verified, credit, nextRow, rowStatus, rowTx, pay, txRow, recorded,
                 crashes>>

\* The process dies and restarts; the jobs goroutine begins a new round.
Crash ==
  /\ crashes < MaxCrashes
  /\ jobs # "idle"
  /\ crashes' = crashes + 1
  /\ jobs' = "idle" /\ senders' = {} /\ todo' = {} /\ sending' = Null
  /\ UNCHANGED <<accVars, verified, credit, rowVars, chainVars>>

----------------------------------------------------------------------------
Reward ==
  \/ \E top \in Heights \cup {0}, who \in SUBSET Miners : RewardBlocks(top, who)
  \/ \E a \in Miners, msg \in Messages : SetMinPayout(a, msg)
  \/ RewardFails
  \/ BlockLost
  \/ \E eepsOf \in EepsChoices, g \in Miners : RewardBlock(eepsOf, g)
  \/ RewardDone

Validate ==
  \/ \E t \in TxIds : \E ans \in Answers(t), known \in BOOLEAN : ValidateTransaction(t, ans, known)
  \/ ValidateDone

Send ==
  \/ \E r \in RowIds : SendFails(r)
  \/ \E r \in RowIds, t \in TxIds, reached \in BOOLEAN : SendPayment(r, t, reached)
  \/ RecordTransaction
  \/ SendDone

Jobs == Reward \/ CreateTransactions \/ CreateNothing \/ Validate \/ Send

Next ==
  \/ Jobs
  \/ \E t \in TxIds : Mine(t)
  \/ \E weekEnds \in BOOLEAN : DayPasses(weekEnds)
  \/ Crash

Spec == Init /\ [][Next]_vars

\* The tickers keep the jobs goroutine going and days pass.  Of the outside
\* world: a wallet that is tried again and again sends, a transaction broadcast
\* again and again is mined, one queried again and again is found.
Fairness ==
  /\ WF_vars(Jobs)
  /\ WF_vars(\E weekEnds \in BOOLEAN : DayPasses(weekEnds))
  /\ \A r \in RowIds : SF_vars(\E t \in TxIds : SendPayment(r, t, TRUE))
  /\ \A t \in TxIds : SF_vars(Mine(t))
  /\ \A t \in TxIds : SF_vars(\E ans \in Answers(t), known \in BOOLEAN :
                                GetTransaction(ans) # "fail" /\ ValidateTransaction(t, ans, known))

FairSpec == Spec /\ Fairness

----------------------------------------------------------------------------
(* Properties. *)

Sum(f) == SumFunctionOnSet(f, DOMAIN f)

\* What a row takes from the pool's account: its payments and the pool's fee.
RowValue(r) == IF rowStatus[r] = "unused" THEN 0 ELSE Sum(pay[r]) + PoolTxFee

\* Every planck ever credited is either still pending on some account or booked
\* on exactly one transaction row.
MoneyConserved ==
  Sum(credit) + Opening * Cardinality(Miners) = Sum(pend) + Sum([r \in RowIds |-> RowValue(r)])

\* A block is credited at most once, whatever crashes, and never for more than
\* its reward plus half a planck of rounding per credited account.
CreditBounded ==
  \A h \in Heights : 2 * credit[h] <= 2 * BlockReward + Cardinality(Accounts)

\* No row is paid twice, except through a payment whose id was never recorded
\* (the crash the comment in sendMoney warns of).
NoDoublePayout ==
  \A t, u \in recorded :
    t # u /\ txStatus[t] = "mined" /\ txStatus[u] = "mined" => txRow[t] # txRow[u]

\* A row is closed (confirmed or deleted) only when its payment is on the chain.
ClosedIsPaid ==
  \A r \in RowIds : rowStatus[r] \in {"confirmed", "deleted"} =>
    rowTx[r] # Null /\ txStatus[rowTx[r]] = "mined" /\ txRow[rowTx[r]] = r

Paying(r) == {t \in recorded : txStatus[t] = "mined" /\ txRow[t] = r}

Ledger == INSTANCE Payments WITH
  Rows <- RowIds, Txs <- TxIds, Nothing <- NoPay,
  booked <- {r \in RowIds : rowStatus[r] # "unused"},
  amount <- pay,
  paidBy <- [r \in RowIds |-> Paying(r)],
  closed <- {r \in RowIds : rowStatus[r] \in {"confirmed", "deleted"}}

\* Creating, sending, recording, validating and sending again, through crashes
\* and lost broadcasts, are together a ledger: a row keeps its amounts, one
\* recorded transaction pays it, whenever it is mined, and it is closed then.
PaymentsRefine == Ledger!Spec

\* "SendPayment(133, 0)" is refused by the wallets, so no row may ask for it:
\* the row and everyone else paid by it would wait forever.
AmountsPositive == \A r \in RowIds : \A a \in DOMAIN pay[r] : pay[r][a] > 0

\* A payment the wallets accept reaches the chain and its row is closed.
RowsSettle ==
  \A r \in RowIds : rowStatus[r] = "unsent" /\ Payable(r)
                      ~> rowStatus[r] \in {"confirmed", "deleted"}
=============================================================================
