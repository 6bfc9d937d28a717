------------------------------ MODULE Cleanup ------------------------------
(***************************************************************************)
(* CleanDB, once a day in the jobs goroutine, against submissions, forge   *)
(* and new blocks of other goroutines.  It runs three statements or        *)
(* transactions one after the other: old blocks go, then miners without a  *)
(* submission, then accounts without a miner, whose pending goes to the    *)
(* fee account.  Foreign keys of the schema delete what refers to a        *)
(* deleted row: submissions to their account and block, a block to its     *)
(* best submission, payments to their recipient.                           *)
(*                                                                         *)
(* Submissions are those over HTTP, for the round read at the beginning;   *)
(* deadlines and windows are left to Rounds, payments to Payout.           *)
(***************************************************************************)
EXTENDS Integers, FiniteSets, FiniteSetsExt, Functions

CONSTANTS
  Miners, Fee,
  First,          \* height of the first block
  MaxHeight,
  Keep,           \* 5000: blocks kept behind the current one
  InactiveAfter,  \* Cfg.InactiveAfterXBlocks
  MaxCredits,     \* bound on credited planck
  None

ASSUME CleanupAssumption ==
  /\ IsFiniteSet(Miners) /\ Fee \notin Miners /\ None \notin Miners
  /\ First \in Nat /\ MaxHeight \in Nat /\ Keep \in Nat /\ InactiveAfter \in Nat
  /\ First <= MaxHeight
  /\ First >= Keep /\ First >= InactiveAfter    \* uint64 differences do not wrap

VARIABLES
  cur,      \* Cache.CurrentBlock().Height
  block,    \* heights of the block rows
  best,     \* block.best_nonce_submission_id: the miner it belongs to
  nonce,    \* nonce_submission: <<miner, height>>
  miner,    \* ids of table miner
  account,  \* ids of table account, the fee account aside
  pending,  \* account.pending
  owed,     \* transaction_recipient of unsent rows, by recipient
  total,    \* history: credited and not paid out
  forfeit,  \* history: accounts deleted together with an unsent payment
  cache,    \* Cache.miners: the miner's CurrentBlockHeight, or None
  req,      \* a miner's running submission
  clean,    \* statement CleanDB is at
  settled   \* history: miners with a submission CleanDB was to keep when it began

vars == <<cur, block, best, nonce, miner, account, pending, owed, total, forfeit, cache, req, clean, settled>>
tables == <<block, best, nonce, miner, account>>
money  == <<pending, owed, total, forfeit>>

Heights == First .. MaxHeight
Idle == [pc |-> "idle", h |-> 0, last |-> 0]    \* last: CurrentBlockHeight of its object

\* The pool has just started on an empty database (createFeeAccount).
Init ==
  /\ cur = First /\ block = {First} /\ best = [h \in Heights |-> None]
  /\ nonce = {} /\ miner = {} /\ account = {}
  /\ pending = [a \in Miners \cup {Fee} |-> 0]
  /\ owed = [m \in Miners |-> 0]
  /\ total = 0 /\ forfeit = {}
  /\ cache = [m \in Miners |-> None]
  /\ req = [m \in Miners |-> Idle]
  /\ clean = "idle" /\ settled = {}

----------------------------------------------------------------------------
(* Submissions. *)

\* FirstOrCreateMiner: the cached object, else one for the account row, whether
\* or not there is a miner row, else both rows are created.
Enter(m) ==
  /\ req[m].pc = "idle"
  /\ cache' = IF cache[m] = None THEN [cache EXCEPT ![m] = 0] ELSE cache
  /\ req' = [req EXCEPT ![m] = [pc |-> "entered", h |-> cur, last |-> cache'[m]]]
  /\ IF cache[m] = None /\ m \notin account
       THEN account' = account \cup {m} /\ miner' = miner \cup {m}
       ELSE UNCHANGED <<account, miner>>
  /\ UNCHANGED <<cur, block, best, nonce, money, clean, settled>>

\* UpdateOrCreateNonceSubmission stores no row for a block the miner has one
\* for, since a better deadline changes no key, and may skip one that has ended,
\* by what the windows say.  Otherwise the INSERT meets the two foreign keys and
\* the unique index.
Submit(m) ==
  LET h == req[m].h
      stored == req' = [req EXCEPT ![m].pc = "stored"]
      insertable == m \in account /\ h \in block /\ <<m, h>> \notin nonce
  IN  /\ req[m].pc = "entered"
      /\ \/ /\ req[m].last = h \/ h < cur
            /\ stored /\ UNCHANGED <<nonce, cache>>
         \/ /\ req[m].last # h /\ insertable
            /\ stored
            /\ nonce' = nonce \cup {<<m, h>>}
            /\ cache' = IF cache[m] # None /\ cache[m] < h
                          THEN [cache EXCEPT ![m] = h] ELSE cache
         \/ /\ req[m].last # h /\ ~insertable
            /\ req' = [req EXCEPT ![m] = Idle] /\ UNCHANGED <<nonce, cache>>
      /\ UNCHANGED <<cur, block, best, miner, account, money, clean, settled>>

\* forge takes the submission for the best of its round (UpdateBestSubmission,
\* whose subselect is NULL if the row has gone) or ignores it.
Forge(m) ==
  LET h == req[m].h
  IN  /\ req[m].pc = "stored"
      /\ req' = [req EXCEPT ![m] = Idle]
      /\ \/ UNCHANGED best
         \/ /\ h \in block
            /\ best' = [best EXCEPT ![h] = IF <<m, h>> \in nonce THEN m ELSE None]
      /\ UNCHANGED <<cur, block, nonce, miner, account, money, cache, clean, settled>>

\* newBlock: a row for the next block; miners without a recent submission
\* leave the cache.
NewBlock ==
  /\ cur < MaxHeight
  /\ cur' = cur + 1
  /\ block' = block \cup {cur'}
  /\ cache' = [m \in Miners |->
       IF cache[m] # None /\ cache[m] < cur' - InactiveAfter THEN None ELSE cache[m]]
  /\ UNCHANGED <<best, nonce, miner, account, money, req, clean, settled>>

----------------------------------------------------------------------------
(* The rest of the jobs goroutine, between two runs of CleanDB. *)

\* rewardBlock credits a miner with a submission, or the fee account.
Credit(a) ==
  /\ clean = "idle" /\ total < MaxCredits
  /\ a = Fee \/ \E h \in block : <<a, h>> \in nonce
  /\ pending' = [pending EXCEPT ![a] = @ + 1]
  /\ total' = total + 1
  /\ UNCHANGED <<cur, tables, owed, forfeit, cache, req, clean, settled>>

\* createTransactions books a balance as a payment.
Book(m) ==
  /\ clean = "idle" /\ m \in account /\ pending[m] > 0
  /\ pending' = [pending EXCEPT ![m] = 0]
  /\ owed' = [owed EXCEPT ![m] = @ + pending[m]]
  /\ UNCHANGED <<cur, tables, total, forfeit, cache, req, clean, settled>>

\* sendMoney pays it.
Paid(m) ==
  /\ clean = "idle" /\ owed[m] > 0
  /\ owed' = [owed EXCEPT ![m] = 0]
  /\ total' = total - owed[m]
  /\ UNCHANGED <<cur, tables, pending, forfeit, cache, req, clean, settled>>

----------------------------------------------------------------------------
(* CleanDB. *)

\* DELETE FROM block; its submissions go with it.
CleanBlocks ==
  /\ clean = "idle"
  /\ block' = {h \in block : h >= cur - Keep}
  /\ best' = [h \in Heights |-> IF h \in block' THEN best[h] ELSE None]
  /\ nonce' = {n \in nonce : n[2] \in block'}
  /\ settled' = {m \in miner : \E h \in block' : <<m, h>> \in nonce'}
  /\ clean' = "miners"
  /\ UNCHANGED <<cur, miner, account, money, cache, req>>

\* Mutant: only the submissions of this round count.
SubmittersNow == {m \in Miners : <<m, cur>> \in nonce}

\* SELECT DISTINCT miner_id FROM nonce_submission.
Submitters == {m \in Miners : \E h \in Heights : <<m, h>> \in nonce}

CleanMiners ==
  /\ clean = "miners"
  /\ miner' = miner \cap Submitters
  /\ clean' = "accounts"
  /\ UNCHANGED <<cur, block, best, nonce, account, money, cache, req, settled>>

\* Mutant: what the fee account has already is overwritten.
FeePendingOther(gone) == SumFunctionOnSet(pending, gone)

\* The SUM is over all accounts without a miner, the fee account among them.
FeePending(gone) == SumFunctionOnSet(pending, gone \cup {Fee})

\* Blocks whose best submission is of a deleted account, by ON DELETE CASCADE.
BlocksOf(gone) == {h \in block : best[h] \in gone}

\* The transaction: pending moves, accounts go with all that refers to them.
CleanAccounts ==
  LET gone == account \ miner
  IN  /\ clean = "accounts"
      /\ account' = account \ gone
      /\ pending' = [a \in Miners \cup {Fee} |->
           IF a = Fee THEN FeePending(gone) ELSE IF a \in gone THEN 0 ELSE pending[a]]
      /\ block' = block \ BlocksOf(gone)
      /\ best' = [h \in Heights |-> IF h \in block' THEN best[h] ELSE None]
      /\ nonce' = {n \in nonce : n[1] \notin gone /\ n[2] \in block'}
      /\ owed' = [m \in Miners |-> IF m \in gone THEN 0 ELSE owed[m]]
      /\ forfeit' = forfeit \cup {m \in gone : owed[m] > 0}
      /\ clean' = "idle"
      /\ UNCHANGED <<cur, miner, total, cache, req, settled>>

\* The transaction fails and is rolled back; the miners are gone.
CleanFails ==
  /\ clean = "accounts"
  /\ clean' = "idle"
  /\ UNCHANGED <<cur, tables, money, cache, req, settled>>

----------------------------------------------------------------------------
Next ==
  \/ NewBlock \/ CleanBlocks \/ CleanMiners \/ CleanAccounts \/ CleanFails
  \/ \E m \in Miners : Enter(m) \/ Submit(m) \/ Forge(m) \/ Book(m) \/ Paid(m)
  \/ \E a \in Miners \cup {Fee} : Credit(a)

Spec == Init /\ [][Next]_vars

----------------------------------------------------------------------------
\* What is pending, on the miners' accounts and on the fee account, or booked
\* as a payment that is not sent.
Kept == SumFunctionOnSet(pending, Miners \cup {Fee}) + SumFunctionOnSet(owed, Miners)

\* CleanDB moves balances without doubling a planck, and loses one only with
\* an account it deletes while a payment to it is booked and not sent: the
\* cascade takes the payment's row and nobody gets the amount back.  Balances
\* that are only pending are never lost.
MoneyKept == Kept <= total /\ (forfeit = {} => Kept = total)

\* A registered miner whose recent submissions CleanDB found when it began
\* keeps its account, whatever submissions, best deadlines, new blocks and
\* cascades of other accounts come in between its statements.
SettledKept == settled \subseteq account

\* "bold account got deleted": an account with a submission CleanDB keeps is
\* not deleted.  It is if the miner row is missing, for a submission that came
\* after the second statement or after an earlier CleanDB that failed.
ActiveAccountKept ==
  [][\A m \in account \ account' : \A h \in Heights : <<m, h>> \in nonce => h < cur - Keep]_vars
=============================================================================
