--------------------------- MODULE WalletHandler ---------------------------
(***************************************************************************)
(* The pool over several wallets.  A request goes to all of them at once   *)
(* (reqAll: one goroutine each, the answers in the order they arrive) or   *)
(* to one after the other in random order until one succeeds (reqRandom).  *)
(* Wallets fail, lag behind each other and may be on different forks.      *)
(*                                                                         *)
(* Two goroutines use the handler at the same time: the poller, which      *)
(* opens the heights it is told and asks for generation times, and the     *)
(* payer (jobs), whose payment is created by all wallets and broadcast     *)
(* once.  The height may be below the current block, when the wallets that *)
(* answer lag behind.                                                      *)
(***************************************************************************)
EXTENDS Integers, FiniteSets, FiniteSetsExt, Sequences, SequencesExt

CONSTANTS
  Wallets,     \* Cfg.WalletUrls
  Forks,
  ForkPoint,   \* the last height all forks share
  MaxHeight,   \* bound on the blocks of a fork
  Timestamp,   \* Timestamp[f][h]: of the block of height h on fork f
  MaxReorgs,   \* bound on the changes of a fork
  MaxPayments, \* bound on payments
  NAVG,        \* Cfg.NAVG
  Fallback,    \* 4 * 60: the time of a late block nobody tells
  Null

ASSUME HeightsAssumption ==
  Forks # {} /\ ForkPoint \in Nat \ {0} /\ MaxHeight \in Nat /\ ForkPoint <= MaxHeight
\* Heights are above NAVG: currentBlock.Height-uint64(Cfg.NAVG) does not wrap.
ASSUME NAVGAssumption == NAVG \in Nat /\ NAVG <= ForkPoint /\ Fallback \in Nat
ASSUME TimestampAssumption ==
  \A f, g \in Forks : \A h \in 0 .. MaxHeight :
    /\ Timestamp[f][h] \in Nat
    /\ h <= ForkPoint => Timestamp[f][h] = Timestamp[g][h]
    /\ h > 0 => Timestamp[f][h - 1] < Timestamp[f][h]

VARIABLES
  view,       \* a wallet's chain: its fork and last height
  reorgs,     \* changes of a fork so far
  round,      \* Cache.CurrentBlock().Height
  genTime,    \* block.generation_time by height; Null for no row
  window,     \* heights added to a window; those it drops are too old (Rounds)
  lost,       \* history: heights that ended without a generation time
  poll,       \* the poller's running request: its kind, the wallets still to
              \* answer, the answers so far and what is kept between requests
  pay,        \* the payer's
  broadcast,  \* payments that have reached the network, each a wallet and a number
  outcome,    \* what SendPayment returned, by number: Null for an error
  panicked    \* MustExec has ended the process

vars == <<view, reorgs, round, genTime, window, lost, poll, pay, broadcast, outcome, panicked>>
chainVars == <<view, reorgs>>
roundVars == <<round, genTime, window, lost, panicked>>
payVars   == <<pay, broadcast, outcome>>

NoCall == [kind |-> "none", left |-> {}, answers |-> <<>>, kept |-> Null]
Request(kind, kept) == [kind |-> kind, left |-> Wallets, answers |-> <<>>, kept |-> kept]

\* All wallets agree on one fork, and the round is the one they mine on.
Init ==
  /\ view = [w \in Wallets |-> [fork |-> CHOOSE f \in Forks : TRUE, top |-> ForkPoint]]
  /\ reorgs = 0
  /\ round = ForkPoint + 1
  /\ genTime = [h \in 1 .. MaxHeight + 1 |-> IF h = round THEN 0 ELSE Null]
  /\ window = {} /\ lost = {} /\ panicked = FALSE
  /\ poll = NoCall /\ pay = NoCall
  /\ broadcast = {} /\ outcome = <<>>

----------------------------------------------------------------------------
(* The wallets. *)

\* A wallet learns the next block of its fork.
Extend(w) ==
  /\ view[w].top < MaxHeight
  /\ view' = [view EXCEPT ![w].top = @ + 1]
  /\ UNCHANGED <<reorgs, roundVars, poll, payVars>>

\* It moves to another fork.
Reorganise(w, f, top) ==
  /\ reorgs < MaxReorgs /\ f # view[w].fork
  /\ view' = [view EXCEPT ![w] = [fork |-> f, top |-> top]]
  /\ reorgs' = reorgs + 1
  /\ UNCHANGED <<roundVars, poll, payVars>>

HasBlock(w, h) == h <= view[w].top

----------------------------------------------------------------------------
(* reqAll: the step of the goroutine of wallet w. *)

\* It appends its answer.
Answered(call, w, ans) == [call EXCEPT !.left = @ \ {w}, !.answers = Append(@, ans)]

\* The deferred wg.Done of a goroutine whose request failed.
Failed(call, w) == [call EXCEPT !.left = @ \ {w}]

\* wg.Wait returns.
AllDone(call) == call.left = {}

----------------------------------------------------------------------------
(* checkAndAddNewBlock: GetMiningInfo, MaybeSwitchOrNewBlock. *)

Poll ==
  /\ ~panicked /\ poll.kind = "none"
  /\ poll' = Request("mining", Null)
  /\ UNCHANGED <<chainVars, roundVars, payVars>>

TellMiningInfo(w) ==
  /\ ~panicked /\ poll.kind = "mining" /\ w \in poll.left
  /\ poll' = Answered(poll, w, view[w].top + 1)
  /\ UNCHANGED <<chainVars, roundVars, payVars>>

MiningInfoFails(w) ==
  /\ ~panicked /\ poll.kind = "mining" /\ w \in poll.left
  /\ poll' = Failed(poll, w)
  /\ UNCHANGED <<chainVars, roundVars, payVars>>

\* Mutant: the first answer counts.
MiningInfoFirst(answers) == IF answers = <<>> THEN 0 ELSE Head(answers)

\* GetMiningInfo: the greatest height; the empty reply has height 0.
MiningInfo(answers) == Max(ToSet(answers) \cup {0})

\* Mutant: a lower height is taken without a look at the windows.
NothingNewByHeight(n) == n \in {0, round} \/ n < round - NAVG

\* Nobody answered; the current block, where switchBlock fails; a block that
\* has been in a window (WasSlowBlock), or one that is too old.
NothingNew(n) == n \in window \cup {0, round} \/ n < round - NAVG

MiningInfoOld ==
  /\ ~panicked /\ poll.kind = "mining" /\ AllDone(poll)
  /\ NothingNew(MiningInfo(poll.answers))
  /\ poll' = NoCall
  /\ UNCHANGED <<chainVars, roundVars, payVars>>

\* newBlock asks for a generation time.
MiningInfoNew ==
  /\ ~panicked /\ poll.kind = "mining" /\ AllDone(poll)
  /\ ~NothingNew(MiningInfo(poll.answers))
  /\ poll' = Request("previous", [next |-> MiningInfo(poll.answers), time |-> 0])
  /\ UNCHANGED <<chainVars, roundVars, payVars>>

\* The height it is opening, the one whose time it asks for: of the block that
\* ended, or of the late block itself, and the table once that time is known.
Opened == poll.kept.next
Newer == Opened > round
Asked == IF Newer THEN round ELSE Opened
Updated(time) == IF Newer THEN [genTime EXCEPT ![round] = time] ELSE genTime

\* GetGenerationTime: a wallet that has the block tells its timestamp, first
\* of the block before the one asked for.
TellPrevious(w) ==
  /\ ~panicked /\ poll.kind = "previous" /\ w \in poll.left
  /\ HasBlock(w, Asked - 1)
  /\ poll' = Request("ended", [poll.kept EXCEPT !.time = Timestamp[view[w].fork][Asked - 1]])
  /\ UNCHANGED <<chainVars, roundVars, payVars>>

\* newBlock inserts the row of the height and makes a newer one the current
\* block; MustExec panics when the table has the row.
InsertRow(times, time) ==
  \/ /\ times[Opened] = Null
     /\ genTime' = [times EXCEPT ![Opened] = time]
     /\ round' = IF Newer THEN Opened ELSE round
     /\ poll' = NoCall
     /\ UNCHANGED panicked
  \/ /\ times[Opened] # Null
     /\ genTime' = times
     /\ panicked' = TRUE
     /\ UNCHANGED <<round, poll>>

\* Then of that block.  It goes into a window, its row is updated, and the
\* row of a newer block starts with the same time.
TellEnded(w) ==
  LET time == Timestamp[view[w].fork][Asked] - poll.kept.time
  IN  /\ ~panicked /\ poll.kind = "ended" /\ w \in poll.left
      /\ HasBlock(w, Asked)
      /\ window' = window \cup {Asked}
      /\ InsertRow(Updated(time), time)
      /\ UNCHANGED <<chainVars, lost, payVars>>

\* reqRandom: the wallet fails or does not have the block; the next is asked.
TellFails(w) ==
  /\ ~panicked /\ poll.kind \in {"previous", "ended"} /\ w \in poll.left
  /\ poll' = Failed(poll, w)
  /\ UNCHANGED <<chainVars, roundVars, payVars>>

\* All have failed.  A block that ended keeps its row and gets into no window,
\* and the newer one starts with the time 0; a late one gets the fallback.
NobodyTells ==
  /\ ~panicked /\ poll.kind \in {"previous", "ended"} /\ AllDone(poll)
  /\ window' = IF Newer THEN window ELSE window \cup {Opened}
  /\ lost' = IF Newer THEN lost \cup {round} ELSE lost
  /\ InsertRow(genTime, IF Newer THEN 0 ELSE Fallback)
  /\ UNCHANGED <<chainVars, payVars>>

----------------------------------------------------------------------------
(* SendPayment and SendPayments. *)

Number == Len(outcome) + 1

Pay ==
  /\ ~panicked /\ pay.kind = "none" /\ Len(outcome) < MaxPayments
  /\ pay' = Request("create", Null)
  /\ UNCHANGED <<chainVars, roundVars, poll, broadcast, outcome>>

\* Mutant: every wallet broadcasts what it creates.
CreatedSent(payment) == broadcast \cup {payment}

\* The transaction is created with Broadcast: false.
CreatedOnly(payment) == broadcast

\* A wallet creates a transaction of its own, with its own timestamp.
Create(w) ==
  /\ ~panicked /\ pay.kind = "create" /\ w \in pay.left
  /\ pay' = Answered(pay, w, <<w, Number>>)
  /\ broadcast' = CreatedOnly(<<w, Number>>)
  /\ UNCHANGED <<chainVars, roundVars, poll, outcome>>

\* It does not, or its answer is lost.
CreateFails(w) ==
  /\ ~panicked /\ pay.kind = "create" /\ w \in pay.left
  /\ pay' = Failed(pay, w)
  /\ broadcast' \in {broadcast, CreatedOnly(<<w, Number>>)}
  /\ UNCHANGED <<chainVars, roundVars, poll, outcome>>

NotCreated ==
  /\ ~panicked /\ pay.kind = "create" /\ AllDone(pay) /\ pay.answers = <<>>
  /\ pay' = NoCall
  /\ outcome' = Append(outcome, Null)
  /\ UNCHANGED <<chainVars, roundVars, poll, broadcast>>

\* results[0], the first answer, is the one to broadcast.
Created ==
  /\ ~panicked /\ pay.kind = "create" /\ AllDone(pay) /\ pay.answers # <<>>
  /\ pay' = Request("broadcast", Head(pay.answers))
  /\ UNCHANGED <<chainVars, roundVars, poll, broadcast, outcome>>

\* broadcastTransaction: a wallet takes the transaction, or fails, before or
\* after it has passed it on.
Broadcast(w) ==
  /\ ~panicked /\ pay.kind = "broadcast" /\ w \in pay.left
  /\ \E reached \in BOOLEAN : broadcast' = IF reached THEN broadcast \cup {pay.kept} ELSE broadcast
  /\ pay' = Failed(pay, w)
  /\ UNCHANGED <<chainVars, roundVars, poll, outcome>>

\* Errors of the broadcast are ignored: the id is returned in any case.
Broadcasted ==
  /\ ~panicked /\ pay.kind = "broadcast" /\ AllDone(pay)
  /\ pay' = NoCall
  /\ outcome' = Append(outcome, pay.kept)
  /\ UNCHANGED <<chainVars, roundVars, poll, broadcast>>

----------------------------------------------------------------------------
PollDone == MiningInfoOld \/ MiningInfoNew \/ NobodyTells
PayDone  == NotCreated \/ Created \/ Broadcasted

Next ==
  \/ Poll \/ MiningInfoOld \/ MiningInfoNew \/ NobodyTells
  \/ Pay \/ NotCreated \/ Created \/ Broadcasted
  \/ \E w \in Wallets :
       \/ TellMiningInfo(w) \/ MiningInfoFails(w) \/ TellPrevious(w) \/ TellEnded(w) \/ TellFails(w)
       \/ Create(w) \/ CreateFails(w) \/ Broadcast(w)
       \/ Extend(w)
       \/ \E f \in Forks, top \in ForkPoint .. MaxHeight : Reorganise(w, f, top)

\* The poller's ticker fires, goroutines go on, a request ends with an answer
\* or with its timeout, and a wallet asked again and again tells what it mines.
Fairness ==
  /\ WF_vars(Poll) /\ WF_vars(PollDone)
  /\ \A w \in Wallets :
       /\ WF_vars(TellMiningInfo(w) \/ MiningInfoFails(w))
       /\ WF_vars(TellPrevious(w) \/ TellEnded(w) \/ TellFails(w))
       /\ SF_vars(TellMiningInfo(w))

Spec == Init /\ [][Next]_vars /\ Fairness

----------------------------------------------------------------------------
\* A call of SendPayment puts at most one of the transactions the wallets
\* created for it on the network, the one whose id it returns; a call that
\* failed, which sendMoney will repeat, puts none there.
OnePayment ==
  \A n \in 1 .. Len(outcome) : \A payment \in broadcast :
    payment[2] = n => payment = outcome[n]

\* The poller ends the process only over a block that ended while no wallet
\* told its generation time: such a block is in no window, so that wallets
\* that lag behind make newBlock insert its row again.  A block that was
\* skipped, opened late or told twice never does.
PanicNeedsLostTime == panicked => Opened \in lost

\* The row of a block that went through a window holds the difference of two
\* timestamps told for it and the block before, though later rounds and late
\* blocks write the column as well, or the fallback.  The two need not be of
\* one fork: wallets on different forks, or a reorganisation between the
\* requests, mix them, and the time may even be negative.
TimesTold ==
  \A h \in window \ lost :
    \/ genTime[h] = Fallback
    \/ \E f, g \in Forks : genTime[h] = Timestamp[f][h] - Timestamp[g][h - 1]

\* While no such panic ends the process, the pool reaches the height the
\* wallets mine on, though some lag behind, fail, or are on another fork, and
\* though skipped blocks are opened late.
RoundCatchesUp ==
  \A h \in 1 .. MaxHeight + 1 :
    (\E w \in Wallets : view[w].top + 1 = h) ~>
      (panicked \/ round >= h \/ \A w \in Wallets : view[w].top + 1 < h)
=============================================================================
