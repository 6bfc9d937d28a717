------------------------------- MODULE Forge -------------------------------
(***************************************************************************)
(* How a deadline reaches the wallets: the HTTP and the node handlers that *)
(* accept a nonce, store it and hand it to the forge goroutine over an     *)
(* unbuffered channel; the forge loop that keeps the best submission and   *)
(* sends it when its timer fires; the poller that opens the next round;    *)
(* and a restart, which finds in the database what memory has lost.        *)
(* The generation signature of a round is its height (switchBlock never    *)
(* replaces one), 0 stands for the empty string.                           *)
(***************************************************************************)
EXTENDS Integers, FiniteSets, FiniteSetsExt

CONSTANTS
  HttpReqs,   \* submitNonce requests of miners
  NodeReqs,   \* SubmitNonce calls of nodes
  Miners,     \* account ids
  MaxHeight,  \* rounds are 1..MaxHeight
  MaxDeadline,    \* deadlines are 1..MaxDeadline
  DeadlineLimit,  \* Cfg.DeadlineLimit, 0 for none
  Retries,    \* nonceSubmissionRetries
  MaxCrashes, \* bound on restarts
  None        \* NULL in the database

ASSUME KindsAssumption == HttpReqs \cap NodeReqs = {}
ASSUME BoundsAssumption ==
  /\ MaxHeight \in Nat \ {0} /\ MaxDeadline \in Nat \ {0} /\ Retries \in Nat \ {0}
  /\ DeadlineLimit \in Nat /\ MaxCrashes \in Nat
ASSUME NoneAssumption == None \notin Miners \cup Nat

VARIABLES
  chain,    \* the height the wallets mine on
  round,    \* Cache.GetRoundInfo().Height, also the newest block row
  req,      \* the handler of each request
  rows,     \* nonce_submission: rows[m][h] is a deadline or None
  dbBest,   \* block.best_nonce_submission_id, as the miner of the row
  best,     \* bestNonceSubmission of forge
  timer,    \* TRUE while "after" has not fired yet
  tries,    \* attempts of a running submitNonce, None in the select
  lowest,   \* history: the lowest deadline forge received per round since it started
  sent,     \* history: best was sent to a wallet since forge adopted it
  crashes

vars == <<chain, round, req, rows, dbBest, best, timer, tries, lowest, sent, crashes>>

Reqs == HttpReqs \cup NodeReqs
Height == 1 .. MaxHeight
Infinity == MaxDeadline + 1    \* ^uint64(0)

\* NonceSubmission; "of" is the round its deadline was computed for.
Submission == [height : 0 .. MaxHeight, sig : 0 .. MaxHeight, of : 0 .. MaxHeight,
               deadline : 1 .. Infinity, miner : Miners \cup {None}]
NoSubmission == [height |-> 0, sig |-> 0, of |-> 0, deadline |-> Infinity, miner |-> None]

Handler(pc, ri, sub) == [pc |-> pc, ri |-> ri, sub |-> sub]
Idle == Handler("idle", 0, NoSubmission)
Done == Handler("done", 0, NoSubmission)

\* Rounds, labels and attempts stay in range: an attempt is one of the first
\* Retries of its submitNonce, and no round is opened that the chain has not
\* reached.
TypeOK ==
  /\ chain \in Height /\ round \in Height /\ round <= chain
  /\ req \in [Reqs -> [pc : {"idle", "store", "label", "send", "done"},
                       ri : 0 .. MaxHeight, sub : Submission]]
  /\ rows \in [Miners -> [Height -> (1 .. MaxDeadline) \cup {None}]]
  /\ dbBest \in [Height -> Miners \cup {None}]
  /\ best \in Submission
  /\ timer \in BOOLEAN
  /\ tries \in (0 .. Retries - 1) \cup {None}
  /\ lowest \in [Height -> 1 .. Infinity] /\ sent \in BOOLEAN
  /\ crashes \in 0 .. MaxCrashes

Init ==
  /\ chain = 1 /\ round = 1
  /\ req = [r \in Reqs |-> Idle]
  /\ rows = [m \in Miners |-> [h \in Height |-> None]]
  /\ dbBest = [h \in Height |-> None]
  /\ best = NoSubmission
  /\ timer = FALSE
  /\ tries = None
  /\ lowest = [h \in Height |-> Infinity] /\ sent = FALSE
  /\ crashes = 0

----------------------------------------------------------------------------
\* The network finds a block.
ChainGrows ==
  /\ chain < MaxHeight
  /\ chain' = chain + 1
  /\ UNCHANGED <<round, req, rows, dbBest, best, timer, tries, lowest, sent, crashes>>

\* checkAndAddNewBlock; the wallets that answer may lag behind the chain.
Poll ==
  /\ \E h \in round + 1 .. chain : round' = h
  /\ UNCHANGED <<chain, req, rows, dbBest, best, timer, tries, lowest, sent, crashes>>

WithinLimit(d) == DeadlineLimit = 0 \/ d <= DeadlineLimit

\* processSubmitNonceRequest up to the answer: the round is read once.
Receive(r) ==
  /\ req[r].pc = "idle"
  /\ \E m \in Miners, d \in 1 .. MaxDeadline :
       req' = [req EXCEPT ![r] =
                 IF WithinLimit(d)
                   THEN Handler("store", round, [height |-> round, sig |-> round, of |-> round,
                                                 deadline |-> d, miner |-> m])
                   ELSE Done]
  /\ UNCHANGED <<chain, round, rows, dbBest, best, timer, tries, lowest, sent, crashes>>

\* nodeServer.SubmitNonce up to UpdateOrCreateNonceSubmission; the node names
\* the height it mined for.
ReceiveNode(r) ==
  /\ req[r].pc = "idle"
  /\ \E m \in Miners, d \in 1 .. MaxDeadline, h \in 1 .. chain :
       req' = [req EXCEPT ![r] =
                 Handler("store", round, [height |-> h, sig |-> h, of |-> h,
                                          deadline |-> d, miner |-> m])]
  /\ UNCHANGED <<chain, round, rows, dbBest, best, timer, tries, lowest, sent, crashes>>

\* What the row keeps.
Better(old, d) == IF old = None \/ d < old THEN d ELSE old

\* UpdateOrCreateNonceSubmission: the row improves, an unknown block is opened.
Store(r) ==
  LET s == req[r].sub
  IN  /\ req[r].pc = "store"
      /\ rows' = [rows EXCEPT ![s.miner][s.of] = Better(@, s.deadline)]
      /\ round' = Max({round, s.of})
      /\ req' = [req EXCEPT ![r] = IF r \in HttpReqs THEN [@ EXCEPT !.pc = "send"]
                                   ELSE IF req[r].ri <= s.of THEN [@ EXCEPT !.pc = "label"]
                                   ELSE Done]
      /\ UNCHANGED <<chain, dbBest, best, timer, tries, lowest, sent, crashes>>

\* A database error: the handler returns, whatever it answered before.
StoreFails(r) ==
  /\ req[r].pc = "store"
  /\ req' = [req EXCEPT ![r] = Done]
  /\ UNCHANGED <<chain, round, rows, dbBest, best, timer, tries, lowest, sent, crashes>>

\* The node handler reads the round again and labels the submission with it.
Label(r) ==
  /\ req[r].pc = "label"
  /\ req' = [req EXCEPT ![r].pc = "send", ![r].sub = [@ EXCEPT !.height = round, !.sig = round]]
  /\ UNCHANGED <<chain, round, rows, dbBest, best, timer, tries, lowest, sent, crashes>>

\* Mutant: heights are not compared.
IgnoredSigOnly(s) == s.sig = best.sig /\ s.deadline >= best.deadline

\* Old blocks and worse deadlines.
Ignored(s) ==
  \/ s.height < best.height
  \/ s.sig = best.sig /\ s.deadline >= best.deadline

\* Mutant: the database is told only of the first best submission of a block.
UpdateBestSubmissionOnce(s) ==
  dbBest' = [dbBest EXCEPT ![s.height] =
               IF @ = None /\ rows[s.miner][s.height] # None THEN s.miner ELSE @]

\* UPDATE block SET best_nonce_submission_id = (SELECT id ...): NULL without a row.
UpdateBestSubmission(s) ==
  dbBest' = [dbBest EXCEPT ![s.height] = IF rows[s.miner][s.height] = None THEN None ELSE s.miner]

\* Mutant: the timer is armed for the first submission of a round only.
RearmedOnce(s) == timer \/ s.height # best.height

\* updateSubmitTimer.
Rearmed(s) == TRUE

\* forge receives a submission.
Deliver(r) ==
  LET s == req[r].sub
  IN  /\ tries = None
      /\ req[r].pc = "send"
      /\ req' = [req EXCEPT ![r] = Done]
      /\ lowest' = [lowest EXCEPT ![s.height] = Min({@, s.deadline})]
      /\ IF Ignored(s) THEN UNCHANGED <<best, dbBest, timer, sent>>
         ELSE /\ best' = s
              /\ UpdateBestSubmission(s)
              /\ timer' = Rearmed(s)
              /\ sent' = FALSE
      /\ UNCHANGED <<chain, round, rows, tries, crashes>>

\* "after" fires: submitNonce begins, and forge receives nothing meanwhile.
TimerFires ==
  /\ tries = None
  /\ timer
  /\ timer' = FALSE
  /\ tries' = 0
  /\ UNCHANGED <<chain, round, req, rows, dbBest, best, lowest, sent, crashes>>

\* Mutant: one attempt more.
LastTryLate == tries = Retries

LastTry == tries + 1 = Retries

\* Mutant: the attempts begin again.
StartedOver == 0

\* submitNonce returns to the select after the last attempt.
GivenUp == None

\* SubmitNonce compares deadlines: only a wallet on that round computes the same.
Acceptable == best.of = chain

\* One attempt; the wallets may also fail.
Attempt ==
  /\ tries # None
  /\ sent' = TRUE
  /\ \/ Acceptable /\ tries' = None
     \/ tries' = IF LastTry THEN GivenUp ELSE tries + 1
  /\ UNCHANGED <<chain, round, req, rows, dbBest, best, timer, lowest, crashes>>

\* GetBestNonceSubmissionOnBlock does not select the generation signature.
RestoredBest(h) ==
  IF dbBest[h] = None THEN NoSubmission
  ELSE [height |-> h, sig |-> 0, of |-> h, miner |-> dbBest[h], deadline |-> rows[dbBest[h]][h]]

\* The process ends and NewPool starts forge on the newest block row.
Restart ==
  /\ crashes < MaxCrashes
  /\ crashes' = crashes + 1
  /\ req' = [r \in Reqs |-> IF req[r].pc = "idle" THEN Idle ELSE Done]
  /\ best' = RestoredBest(round)
  /\ timer' = (dbBest[round] # None)
  /\ tries' = None
  /\ lowest' = [h \in Height |-> Infinity]
  /\ sent' = FALSE
  /\ UNCHANGED <<chain, round, rows, dbBest>>

Next ==
  \/ ChainGrows \/ Poll \/ Restart \/ TimerFires \/ Attempt
  \/ \E r \in HttpReqs : Receive(r)
  \/ \E r \in NodeReqs : ReceiveNode(r) \/ Label(r)
  \/ \E r \in Reqs : Store(r) \/ StoreFails(r) \/ Deliver(r)

Spec == Init /\ [][Next]_vars

\* Handlers and forge run on; timers are finite; the select takes a sender and
\* a fired timer with equal chance, and channel senders queue first in first out.
Fairness ==
  /\ WF_vars(Attempt) /\ SF_vars(TimerFires)
  /\ WF_vars(\E r \in Reqs : Store(r) \/ StoreFails(r) \/ Label(r))
  /\ SF_vars(\E r \in Reqs : Deliver(r))

FairSpec == Spec /\ Fairness

----------------------------------------------------------------------------
\* The best submission is at least as good as everything forge was handed for
\* its round since it started, in whatever order requests of two rounds came,
\* and nothing forge was handed is of a later round.
BestCoversDelivered ==
  \A h \in Height :
    /\ lowest[h] # Infinity => h <= best.height
    /\ h = best.height => best.deadline <= lowest[h]

\* What memory holds as best of the round can be found again after a crash:
\* the block row names a nonce row that is at least as good.
RestartFindsBest ==
  best.of = round /\ best.height = round =>
    /\ dbBest[round] # None
    /\ rows[dbBest[round]][round] # None
    /\ rows[dbBest[round]][round] <= best.deadline

\* A best submission is sent to the wallets at least once unless a better or
\* a newer one replaces it, also when its timer came due during submitNonce.
BestIsTried == []<>(sent \/ best = NoSubmission)

\* Every handler returns: none waits for ever on the channel of forge.
HandlersReturn == []<>(\A r \in Reqs : req[r].pc \in {"idle", "done"})

\* "ignore worse deadlines": the best submission of a round never gets worse.
\* A restarted pool breaks this, its restored best has no signature.
NeverWorse ==
  [][best'.height = best.height => best'.deadline <= best.deadline]_vars

\* The deadline forge waits for is one of the round it is labelled with.  The
\* node handler breaks this when the round moves on before it reads it again.
BestOfItsRound == best.of = best.height
=============================================================================
