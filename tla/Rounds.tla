------------------------------- MODULE Rounds -------------------------------
(***************************************************************************)
(* Rounds and the deadlines kept for them: MaybeSwitchOrNewBlock, called   *)
(* by the poller and by submissions for a block the windows do not hold,   *)
(* against UpdateOrCreateNonceSubmission of concurrent handlers.  Two      *)
(* mutexes order them: newBlockMu, taken after the current block is read,  *)
(* and the dbMu of a miner; the windows and the maps of the miners are     *)
(* read outside of both.  A window is the set of its heights, which        *)
(* BlockWindow shows its list to implement, and weightDeadline of a        *)
(* deadline is the deadline (one base target).                             *)
(***************************************************************************)
EXTENDS Integers, FiniteSets, FiniteSetsExt

CONSTANTS
  HttpReqs,   \* submissions over HTTP, without generation signature
  NodeReqs,   \* submissions of nodes, with one
  Miners,
  First,      \* height of the first block
  MaxHeight,
  MaxDeadline,
  NAVG,       \* Cfg.NAVG
  InactiveAfter,  \* Cfg.InactiveAfterXBlocks
  MaxObjects, \* bound on Miner objects ever allocated
  Poller,     \* the goroutine checkAndAddNewBlockJob
  None

ASSUME BoundsAssumption ==
  /\ NAVG \in Nat \ {0} /\ InactiveAfter \in Nat
  /\ First \in Nat /\ MaxHeight \in Nat /\ MaxDeadline \in Nat /\ MaxObjects \in Nat
  /\ First <= MaxHeight
  /\ First >= NAVG + InactiveAfter    \* uint64 differences do not wrap
ASSUME NamesAssumption ==
  /\ HttpReqs \cap NodeReqs = {}
  /\ Poller \notin HttpReqs \cup NodeReqs
  /\ None \notin HttpReqs \cup NodeReqs \cup {Poller}

VARIABLES
  chain,   \* height the wallets mine on
  cur,     \* Cache.CurrentBlock().Height
  slow, fast,  \* the windows
  blocks,  \* heights of the block rows
  rows,    \* nonce_submission: rows[m][h], 0 for no row
  obj,     \* Miner objects
  used,    \* how many of them are allocated
  cache,   \* Cache.miners: the object of a miner, 0 for none
  req,     \* running submissions
  call,    \* running MaybeSwitchOrNewBlock calls
  mu,      \* holder of newBlockMu
  panicked, \* MustExec failed
  lost     \* history: heights that ended without a generation time

vars == <<chain, cur, slow, fast, blocks, rows, obj, used, cache, req, call, mu, panicked, lost>>

Reqs == HttpReqs \cup NodeReqs
Procs == Reqs \cup {Poller}
Height == 1 .. MaxHeight
Objects == 1 .. MaxObjects
NoDeadlines == [h \in Height |-> 0]

\* Miner: "cur" the height of CurrentDeadlineParams (0 for nil), "params" the
\* keys of DeadlinesParams, "dl" the deadline of the object kept for a height,
\* which CurrentDeadlineParams and DeadlinesParams share.
NewMiner == [cur |-> 0, params |-> {}, dl |-> NoDeadlines, sum |-> 0]
IdleReq == [pc |-> "idle", miner |-> None, o |-> 0, h |-> 0, d |-> 0]
IdleCall == [pc |-> "idle", h |-> 0, old |-> 0, removed |-> 0, todo |-> {}, seen |-> {}]

\* Heights, rows, objects and locks have the types of the code.
TypeOK ==
  /\ chain \in Height /\ cur \in Height
  /\ slow \subseteq Height /\ fast \subseteq Height /\ blocks \subseteq Height
  /\ rows \in [Miners -> [Height -> 0 .. MaxDeadline]]
  /\ obj \in [Objects -> [cur : 0 .. MaxHeight, params : SUBSET Height,
                          dl : [Height -> 0 .. MaxDeadline], sum : Int]]
  /\ used \in 0 .. MaxObjects
  /\ cache \in [Miners -> 0 .. MaxObjects]
  /\ req \in [Reqs -> [pc : {"idle", "enter", "old", "open", "insert", "done"},
                       miner : Miners \cup {None}, o : 0 .. MaxObjects,
                       h : 0 .. MaxHeight, d : 0 .. MaxDeadline]]
  /\ call \in [Procs -> [pc : {"idle", "read", "lock", "row", "range"}, h : 0 .. MaxHeight,
                         old : 0 .. MaxHeight, removed : 0 .. MaxHeight,
                         todo : SUBSET Objects, seen : SUBSET Objects]]
  /\ mu \in Procs \cup {None}
  /\ panicked \in BOOLEAN
  /\ lost \subseteq Height

\* NewModelX on an empty database: newBlock for the block being mined.
Init ==
  /\ chain = First /\ cur = First
  /\ slow = {} /\ fast = {} /\ blocks = {First}
  /\ rows = [m \in Miners |-> NoDeadlines]
  /\ obj = [o \in Objects |-> NewMiner]
  /\ used = 0
  /\ cache = [m \in Miners |-> 0]
  /\ req = [r \in Reqs |-> IdleReq]
  /\ call = [p \in Procs |-> IdleCall]
  /\ mu = None
  /\ panicked = FALSE
  /\ lost = {}

----------------------------------------------------------------------------
\* MaybeSwitchOrNewBlock and newBlock.

WasSlowBlock(h) ==
  IF h \in slow THEN <<TRUE, TRUE>>
  ELSE IF h \in fast THEN <<FALSE, TRUE>> ELSE <<FALSE, FALSE>>

W == INSTANCE TopWindow WITH window <- slow, Size <- NAVG

\* The network finds a block.
ChainGrows ==
  /\ ~panicked /\ chain < MaxHeight
  /\ chain' = chain + 1
  /\ UNCHANGED <<cur, slow, fast, blocks, rows, obj, used, cache, req, call, mu, panicked, lost>>

\* Mutant: asks for the block after the one that is mined.
PollAhead ==
  /\ ~panicked /\ call[Poller].pc = "idle"
  /\ call' = [call EXCEPT ![Poller] = [IdleCall EXCEPT !.pc = "lock", !.h = chain + 1, !.old = cur]]
  /\ UNCHANGED <<chain, cur, slow, fast, blocks, rows, obj, used, cache, req, mu, panicked, lost>>

\* checkAndAddNewBlock: GetMiningInfo, whose height is the greatest of the
\* wallets that answered and may lag behind the chain and the current block, and
\* the beginning of MaybeSwitchOrNewBlock, which reads oldBlock.
Poll ==
  /\ ~panicked /\ call[Poller].pc = "idle"
  /\ \E h \in 1 .. chain :
       call' = [call EXCEPT ![Poller] = [IdleCall EXCEPT !.pc = "lock", !.h = h, !.old = cur]]
  /\ UNCHANGED <<chain, cur, slow, fast, blocks, rows, obj, used, cache, req, mu, panicked, lost>>

\* A submission: oldBlock is read before newBlockMu is taken.
ReadOld(p) ==
  /\ ~panicked /\ call[p].pc = "read"
  /\ call' = [call EXCEPT ![p].pc = "lock", ![p].old = cur]
  /\ UNCHANGED <<chain, cur, slow, fast, blocks, rows, obj, used, cache, req, mu, panicked, lost>>

\* What the caller does next: a handler goes on to its INSERT.
Returned(p) ==
  req' = IF p = Poller THEN req ELSE [req EXCEPT ![p].pc = "insert"]

\* Mutant: a block the windows hold is opened again.
RefusedUnlessOld(p) ==
  call[p].h = call[p].old \/ call[p].h < cur - NAVG \/ p \in HttpReqs

\* Mutant: one more block is young enough to be opened.
RefusedLater(p) ==
  call[p].h \in slow \cup fast \cup {call[p].old} \/ call[p].h < cur - NAVG - 1 \/ p \in HttpReqs

\* No block is opened: the height is the old one (the signatures agree, or
\* switchBlock fails: it decodes "" or names a column there is not), it is in
\* a window, too old, or comes without a signature.
Refused(p) ==
  LET h == call[p].h
  IN  \/ call[p].old = h
      \/ WasSlowBlock(h)[2]
      \/ h < cur - NAVG
      \/ p \in HttpReqs

\* Mutant: an early return leaves newBlockMu locked.
ReleasedNever(p) == p

\* The deferred Unlock.
Released(p) == None

NoNewBlock(p) ==
  /\ ~panicked /\ call[p].pc = "lock" /\ mu = None
  /\ Refused(p)
  /\ mu' = Released(p)
  /\ call' = [call EXCEPT ![p] = IdleCall]
  /\ Returned(p)
  /\ UNCHANGED <<chain, cur, slow, fast, blocks, rows, obj, used, cache, panicked, lost>>

\* Cache.AddBlock; "failed" is an error of getGenerationTime, which leaves
\* a block that ends in no window.
AddBlock(kind, h) ==
  /\ slow' = IF kind = "slow" THEN W!Greatest(slow \cup {h}, NAVG) ELSE slow
  /\ fast' = IF kind = "fast" THEN W!Greatest(fast \cup {h}, NAVG) ELSE fast

Newer(p) == call[p].h > cur

Dropped == (slow \ slow') \cup (fast \ fast')

\* newBlock up to AddBlock: the block that ends goes into a window if the new
\* one is higher, else the late block itself does (4 minutes if the wallets do
\* not tell).  Handlers see the window at once, before the row is there.
FillWindow(p) ==
  /\ ~panicked /\ call[p].pc = "lock" /\ mu = None
  /\ ~Refused(p)
  /\ \E kind \in {"slow", "fast", "failed"} :
       /\ AddBlock(IF Newer(p) \/ kind # "failed" THEN kind ELSE "slow",
                   IF Newer(p) THEN cur ELSE call[p].h)
       /\ lost' = IF Newer(p) /\ kind = "failed" THEN lost \cup {cur} ELSE lost
  /\ mu' = p
  /\ call' = [call EXCEPT ![p].pc = "row",
                ![p].removed = IF Dropped = {} THEN 0 ELSE Max(Dropped)]
  /\ UNCHANGED <<chain, cur, blocks, rows, obj, used, cache, req, panicked>>

\* The INSERT of the block row; one that is there already makes MustExec panic.
InsertBlock(p) ==
  LET h == call[p].h
  IN  /\ ~panicked /\ call[p].pc = "row"
      /\ IF h \in blocks
           THEN panicked' = TRUE /\ UNCHANGED <<blocks, call>>
           ELSE /\ blocks' = blocks \cup {h}
                /\ call' = [call EXCEPT ![p].pc = "range",
                              ![p].todo = {cache[m] : m \in Miners} \ {0}]
                /\ UNCHANGED panicked
      /\ UNCHANGED <<chain, cur, slow, fast, rows, obj, used, cache, req, mu, lost>>

\* addDeadlineParams, if the last block the miner submitted for was slow.
Added(x) ==
  IF WasSlowBlock(x.cur)[1] /\ x.cur \notin x.params
    THEN [x EXCEPT !.params = @ \cup {x.cur}, !.sum = @ + x.dl[x.cur]] ELSE x

\* removeDeadlineParams.
Removed(x, h) ==
  IF h \in x.params THEN [x EXCEPT !.params = @ \ {h}, !.sum = @ - x.dl[h]] ELSE x

\* MinerRange: one miner, under its lock.  A miner cached while the range is
\* running may be visited or not.
VisitMiner(p) ==
  /\ ~panicked /\ call[p].pc = "range"
  /\ \E m \in Miners :
       LET o == cache[m]
       IN  /\ o \notin call[p].seen \cup {0}
           /\ obj' = [obj EXCEPT ![o] = Removed(Added(@), call[p].removed)]
           /\ cache' = IF obj[o].cur < call[p].h - InactiveAfter
                         THEN [cache EXCEPT ![m] = 0] ELSE cache
           /\ call' = [call EXCEPT ![p].seen = @ \cup {o}]
  /\ UNCHANGED <<chain, cur, slow, fast, blocks, rows, used, req, mu, panicked, lost>>

\* StoreCurrentBlock if the block is the newest, and the deferred Unlock.
FinishBlock(p) ==
  /\ ~panicked /\ call[p].pc = "range"
  /\ call[p].todo \subseteq call[p].seen
  /\ cur' = IF Newer(p) THEN call[p].h ELSE cur
  /\ mu' = None
  /\ call' = [call EXCEPT ![p] = IdleCall]
  /\ Returned(p)
  /\ UNCHANGED <<chain, slow, fast, blocks, rows, obj, used, cache, panicked, lost>>

----------------------------------------------------------------------------
\* Submissions.

\* FirstOrCreateMiner; the caller has read the round, a node names a height.
Start(r) ==
  /\ ~panicked /\ req[r].pc = "idle"
  /\ \E m \in Miners, d \in 1 .. MaxDeadline, h \in IF r \in HttpReqs THEN {cur} ELSE 1 .. chain :
       /\ \/ cache[m] # 0 /\ UNCHANGED <<cache, used>>
          \/ /\ cache[m] = 0 /\ used < MaxObjects
             /\ used' = used + 1
             /\ cache' = [cache EXCEPT ![m] = used + 1]
       /\ req' = [req EXCEPT ![r] = [pc |-> "enter", miner |-> m, o |-> cache'[m], h |-> h, d |-> d]]
  /\ UNCHANGED <<chain, cur, slow, fast, blocks, rows, obj, call, mu, panicked, lost>>

\* dbMu of the object is held from the classification to the return.
Busy(o) == \E r \in Reqs : req[r].o = o /\ req[r].pc \in {"old", "open", "insert"}

Entering(r) == ~panicked /\ req[r].pc = "enter" /\ ~Busy(req[r].o)
Finished(r) == [req EXCEPT ![r] = [IdleReq EXCEPT !.pc = "done"]]

\* Mutant: any deadline replaces the last one.
ImprovesAlways(r) == TRUE

\* The deadline is better than the one kept for its height.
Improves(r) == req[r].d < obj[req[r].o].dl[req[r].h]

\* The miner's current block: row and parameters change if the deadline is
\* better.  DeadlinesParams may share the object; the sum is left alone.
SubmitCurrent(r) ==
  LET q == req[r]
  IN  /\ Entering(r)
      /\ obj[q.o].cur = q.h
      /\ IF Improves(r)
           THEN /\ rows' = [rows EXCEPT ![q.miner][q.h] = q.d]
                /\ obj' = [obj EXCEPT ![q.o].dl[q.h] = q.d]
           ELSE UNCHANGED <<rows, obj>>
      /\ req' = Finished(r)
      /\ UNCHANGED <<chain, cur, slow, fast, blocks, used, cache, call, mu, panicked, lost>>

\* "blockExists, slow := WasSlowBlock": the results are taken in the other
\* order, so blockExists says slow, and the return for fast blocks is dead.
Classify(r) ==
  LET q == req[r]
      blockExists == WasSlowBlock(q.h)[1]
      slowBlock   == WasSlowBlock(q.h)[2]
  IN  /\ Entering(r)
      /\ obj[q.o].cur # q.h
      /\ IF blockExists /\ ~slowBlock THEN req' = Finished(r) /\ UNCHANGED call
         ELSE IF q.h \in obj[q.o].params
           THEN req' = [req EXCEPT ![r].pc = "old"] /\ UNCHANGED call
         ELSE IF blockExists THEN req' = [req EXCEPT ![r].pc = "insert"] /\ UNCHANGED call
         ELSE /\ req' = [req EXCEPT ![r].pc = "open"]
              /\ call' = [call EXCEPT ![r] = [IdleCall EXCEPT !.pc = "read", !.h = q.h]]
      /\ UNCHANGED <<chain, cur, slow, fast, blocks, rows, obj, used, cache, mu, panicked, lost>>

\* Mutant: dp.Deadline keeps the old value.
ImprovedSumOnly(x, h, d) == [x EXCEPT !.sum = @ + d - x.dl[h]]

Improved(x, h, d) == [x EXCEPT !.sum = @ + d - x.dl[h], !.dl[h] = d]

\* An older block the miner submitted for.
SubmitOld(r) ==
  LET q == req[r]
  IN  /\ ~panicked /\ q.pc = "old"
      /\ IF Improves(r)
           THEN /\ rows' = [rows EXCEPT ![q.miner][q.h] = q.d]
                /\ obj' = [obj EXCEPT ![q.o] = Improved(@, q.h, q.d)]
           ELSE UNCHANGED <<rows, obj>>
      /\ req' = Finished(r)
      /\ UNCHANGED <<chain, cur, slow, fast, blocks, used, cache, call, mu, panicked, lost>>

\* The unique index and the foreign key of nonce_submission.
Insertable(m, h) == rows[m][h] = 0 /\ h \in blocks

\* The deadline of a newer block becomes the current one; a late one is added
\* to those that are kept.
Inserted(x, h, d) ==
  IF h > x.cur THEN [x EXCEPT !.cur = h, !.dl[h] = d]
  ELSE [x EXCEPT !.sum = @ + d, !.params = @ \cup {h}, !.dl[h] = d]

\* A first submission for a block.
Insert(r) ==
  LET q == req[r]
  IN  /\ ~panicked /\ q.pc = "insert"
      /\ IF Insertable(q.miner, q.h)
           THEN /\ rows' = [rows EXCEPT ![q.miner][q.h] = q.d]
                /\ obj' = [obj EXCEPT ![q.o] = Inserted(@, q.h, q.d)]
           ELSE UNCHANGED <<rows, obj>>
      /\ req' = Finished(r)
      /\ UNCHANGED <<chain, cur, slow, fast, blocks, used, cache, call, mu, panicked, lost>>

Next ==
  \/ ChainGrows \/ Poll
  \/ \E p \in Procs :
       \/ ReadOld(p) \/ NoNewBlock(p) \/ FillWindow(p) \/ InsertBlock(p)
       \/ VisitMiner(p) \/ FinishBlock(p)
  \/ \E r \in Reqs : Start(r) \/ SubmitCurrent(r) \/ Classify(r) \/ SubmitOld(r) \/ Insert(r)

Spec == Init /\ [][Next]_vars

----------------------------------------------------------------------------
\* What a cached miner keeps for a height is what the database keeps: late,
\* better and first submissions and the removals of newBlock never separate
\* them, nor does a handler that still holds an object the cache has dropped.
MemoryMatchesRows ==
  \A m \in Miners : cache[m] # 0 =>
    LET x == obj[cache[m]]
    IN  \A h \in x.params \cup ({x.cur} \ {0}) : x.dl[h] = rows[m][h]

\* A deadline in the database is never lost nor replaced by a worse one.
RowsImprove ==
  [][\A m \in Miners, h \in Height :
       rows[m][h] # 0 => rows'[m][h] # 0 /\ rows'[m][h] <= rows[m][h]]_vars

\* The height whose row the caller with newBlockMu is about to insert.
Due == {call[p].h : p \in {q \in Procs : call[q].pc = "row"}}

\* A height is classified once, and every height of a window or of the current
\* round has a block row, whatever order blocks were opened in: only handlers
\* that look between AddBlock and the INSERT of the same call, and then hit the
\* foreign key, find a height without one.
WindowsConsistent ==
  /\ slow \cap fast = {}
  /\ slow \cup fast \cup {cur} \subseteq blocks \cup Due

\* The current round never goes back, however late a caller gets newBlockMu.
RoundAdvances == [][cur' >= cur]_vars

\* Nobody hangs: newBlock goes through all miners while handlers that hold a
\* dbMu wait for newBlockMu, and still somebody can always go on until every
\* submission has returned.  It is said by what each step waits for: a call for
\* the lock, one that goes through the miners for a miner it has not seen or for
\* none being left, a submission for the dbMu of its miner.
NobodyHangs ==
  \/ panicked
  \/ \A r \in Reqs : req[r].pc \in {"idle", "done"}
  \/ \E p \in Procs :
       \/ call[p].pc \in {"read", "row"}
       \/ call[p].pc = "lock" /\ mu = None
       \/ call[p].pc = "range" /\ \E m \in Miners : cache[m] \notin call[p].seen \cup {0}
       \/ call[p].pc = "range" /\ call[p].todo \subseteq call[p].seen
  \/ \E r \in Reqs : Entering(r) \/ req[r].pc \in {"old", "insert"}

\* The INSERT of newBlock meets a row in two ways only: the block asked for was
\* opened after the caller had read the old one, or it has ended without a
\* generation time, so that no window tells that it was there.  A height that a
\* full window drops is always too old to be opened again.
PanicExplained ==
  panicked => \E p \in Procs :
    /\ call[p].pc = "row" /\ call[p].h \in blocks
    /\ \/ call[p].h = cur /\ call[p].old # cur
       \/ call[p].h \in lost

\* MustExec in newBlock asserts that the block row is new, and so it should be
\* for every block that a window or the current round tells of: only a wallet
\* that falls back to a block without a generation time would break it.  In a
\* pool without nodes that is so; two callers that read the old block before
\* either holds newBlockMu break it at any block.
OnlyLostPanics ==
  panicked => \E p \in Procs : call[p].pc = "row" /\ call[p].h \in lost

\* "all deadlines of blocks with a generation time < tMin will be discarded":
\* no fast block counts for the capacity of a miner.
OnlySlowCounted == \A o \in Objects : obj[o].params \cap fast = {}
=============================================================================
