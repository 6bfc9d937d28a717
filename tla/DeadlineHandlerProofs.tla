----------------------- MODULE DeadlineHandlerProofs -----------------------
(***************************************************************************)
(* Proofs about DeadlineHandler, for every set of requests, every number   *)
(* of workers and every number of lanes.                                   *)
(***************************************************************************)
EXTENDS DeadlineHandler, TLAPS

\* The action of Next that a step takes.
LEMMA NextCases ==
  ASSUME Next
  PROVE  \/ \E r \in Requests : CalcDeadline(r) \/ Collect(r)
         \/ Timeout \/ Dispatch
         \/ \E w \in Workers : TakeBatch(w) \/ Compute(w) \/ Answer(w)
         \/ StopCall \/ StopWorker \/ StopCollector
  BY DEF Next, Collector, WorkerStep, StopStep

\* What TypeOK needs to know of a queue that loses its head or gains a batch.
LEMMA QueueFacts ==
  ASSUME NEW q \in Seq(Batch)
  PROVE  /\ \A b \in Batch : /\ Append(q, b) \in Seq(Batch)
                             /\ Len(Append(q, b)) = Len(q) + 1
                             /\ \A k \in 1 .. Len(q) : Append(q, b)[k] = q[k]
                             /\ Append(q, b)[Len(q) + 1] = b
         /\ Len(q) \in Nat
         /\ q # <<>> => /\ Head(q) = q[1]
                        /\ Head(q) \in Batch
                        /\ Len(q) >= 1
                        /\ Tail(q) \in Seq(Batch)
                        /\ Len(Tail(q)) = Len(q) - 1
                        /\ \A k \in 1 .. Len(q) - 1 : Tail(q)[k] = q[k + 1]
  OBVIOUS

----------------------------------------------------------------------------
(* Type correctness. *)

\* A worker's lane counter: 0 before the kernel ran, short of the batch while
\* it answers, at the end of the batch when it is idle or stopped.
WorkerCounts ==
  \A w \in Workers :
    /\ wpc[w] = "compute" => lane[w] = 0
    /\ wpc[w] = "answer" => lane[w] < batch[w].total
    /\ wpc[w] \in {"idle", "stopped"} => lane[w] = batch[w].total

TypeInv == TypeOK /\ WorkerCounts

\* Every step of callers, collector, workers and Stop keeps TypeInv.
LEMMA TypeInductive == TypeInv /\ [Next]_vars => TypeInv'
<1> USE WorkerAssumption, ParallelAssumption, NoReqAssumption
<1> SUFFICES ASSUME TypeInv, [Next]_vars PROVE TypeInv'
  OBVIOUS
<1> USE DEF TypeInv
<1>1. ASSUME NEW r \in Requests, CalcDeadline(r) PROVE TypeInv'
  BY <1>1 DEF TypeOK, WorkerCounts, CalcDeadline, collectorVars, workerVars
<1>2. ASSUME NEW r \in Requests, Collect(r) PROVE TypeInv'
  <2>1. slots' \in [Slots -> Pointer]
    BY <1>2 DEF TypeOK, Collect, Pointer
  <2>2. pending' \in Slots /\ outTotal' \in 0 .. Parallel /\ coll' \in {"select", "send", "stopped"}
    BY <1>2 DEF TypeOK, Collect, Slots
  <2>3. armed' \in BOOLEAN
    BY <1>2 DEF TypeOK, Collect
  <2>4. caller' \in [Requests -> {"idle", "sending", "waiting", "returned"}]
    BY <1>2 DEF TypeOK, Collect
  <2> QED BY <1>2, <2>1, <2>2, <2>3, <2>4 DEF TypeOK, WorkerCounts, Collect, workerVars
<1>3. CASE Timeout
  <2>1. outTotal' \in 0 .. Parallel
    BY <1>3 DEF TypeOK, Timeout, Slots
  <2> QED BY <1>3, <2>1 DEF TypeOK, WorkerCounts, Timeout, callerVars, workerVars
<1>4. CASE Dispatch
  <2>1. [total |-> outTotal, reqs |-> slots] \in Batch
    BY DEF TypeOK, Batch
  <2>2. queue' \in Seq(Batch) /\ Len(queue') <= WorkerCount
    BY <1>4, <2>1, QueueFacts DEF TypeOK, Dispatch
  <2> QED BY <1>4, <2>2 DEF TypeOK, WorkerCounts, Dispatch, callerVars, workerVars, Slots
<1>5. ASSUME NEW w \in Workers, TakeBatch(w) PROVE TypeInv'
  <2>1. queue' \in Seq(Batch) /\ Len(queue') <= WorkerCount /\ Head(queue) \in Batch
    BY <1>5, QueueFacts DEF TypeOK, TakeBatch
  <2>2. Lanes(w, Head(queue)) \in [Slots -> Pointer]
    BY <2>1 DEF Lanes, Batch, Slots
  <2>3. batch' \in [Workers -> Batch]
    BY <1>5, <2>1 DEF TypeOK, TakeBatch
  <2>4. creqs' \in [Workers -> [Slots -> Pointer]]
    BY <1>5, <2>2 DEF TypeOK, TakeBatch
  <2>5. WorkerCounts'
    BY <1>5 DEF TypeOK, WorkerCounts, TakeBatch
  <2> QED BY <1>5, <2>1, <2>3, <2>4, <2>5 DEF TypeOK, TakeBatch, callerVars, collectorVars
<1>6. ASSUME NEW w \in Workers, Compute(w) PROVE TypeInv'
  <2>1. wpc' \in [Workers -> {"idle", "compute", "answer", "stopped"}] /\ WorkerCounts'
    BY <1>6 DEF TypeOK, WorkerCounts, Compute, PcAt, Batch
  <2>2. native' \in [Requests -> BOOLEAN]
    BY <1>6 DEF Compute
  <2> QED BY <1>6, <2>1, <2>2 DEF TypeOK, Compute, collectorVars
<1>7. ASSUME NEW w \in Workers, Answer(w) PROVE TypeInv'
  <2>1. /\ wpc' \in [Workers -> {"idle", "compute", "answer", "stopped"}]
        /\ lane' \in [Workers -> 0 .. Parallel]
    BY <1>7 DEF TypeOK, WorkerCounts, Answer, PcAt, Batch
  <2>3. WorkerCounts'
    BY <1>7 DEF TypeOK, WorkerCounts, Answer, PcAt, Batch
  <2>2. /\ caller' \in [Requests -> {"idle", "sending", "waiting", "returned"}]
        /\ result' \in [Requests -> {"none", "unset", "computed"}]
    BY <1>7 DEF TypeOK, Answer
  <2> QED BY <1>7, <2>1, <2>2, <2>3 DEF TypeOK, Answer, collectorVars
<1>8. CASE StopCall
  BY <1>8 DEF TypeOK, WorkerCounts, StopCall, callerVars, collectorVars, workerVars
<1>9. CASE StopWorker
  BY <1>9 DEF TypeOK, WorkerCounts, StopWorker, callerVars, collectorVars, Workers
<1>10. CASE StopCollector
  BY <1>10 DEF TypeOK, WorkerCounts, StopCollector, callerVars, workerVars
<1>11. CASE UNCHANGED vars
  BY <1>11 DEF TypeOK, WorkerCounts, vars
<1> QED
  BY <1>1, <1>2, <1>3, <1>4, <1>5, <1>6, <1>7, <1>8, <1>9, <1>10, <1>11, NextCases

\* A new handler satisfies TypeInv.
LEMMA TypeInitial == Init => TypeInv
<1> USE WorkerAssumption, ParallelAssumption, NoReqAssumption
<1> SUFFICES ASSUME Init PROVE TypeInv
  OBVIOUS
<1>1. NoBatch \in Batch
  BY DEF NoBatch, Batch, Slots, Pointer
<1>2. batch \in [Workers -> Batch] /\ WorkerCounts
  BY <1>1 DEF Init, WorkerCounts, NoBatch
<1>3. queue \in Seq(Batch) /\ Len(queue) <= WorkerCount
  BY DEF Init
<1>4. slots \in [Slots -> Pointer] /\ creqs \in [Workers -> [Slots -> Pointer]] /\ pending \in Slots
  BY DEF Init, Slots, Pointer
<1> QED BY <1>2, <1>3, <1>4 DEF Init, TypeInv, TypeOK

\* The counters stay inside the slots, batchReqs inside its capacity, and every
\* pointer is a request or nil.  TypeOK needs WorkerCounts to be inductive:
\* without it a worker could count past the end of its batch.
THEOREM TypeCorrect == Spec => []TypeOK
<1>1. TypeInv => TypeOK
  BY DEF TypeInv
<1> QED BY <1>1, TypeInitial, TypeInductive, PTL DEF Spec

----------------------------------------------------------------------------
(* Timer, Stop and nil lanes. *)

\* A batch that may still reach a kernel has a request in slot 0.
RealFirstSlot ==
  /\ armed \/ pending > 0 \/ coll = "send" => slots[0] # NoReq
  /\ \A k \in 1 .. Len(queue) : queue[k].reqs[0] # NoReq

\* A worker Stop has passed is stopped.
StoppedBehind == \A w \in Workers : w < stopNext => wpc[w] = "stopped"

\* The positions of live requests hold no nil pointer.
NoNilHeld ==
  /\ \A i \in Slots : i < pending => slots[i] # NoReq
  /\ coll = "send" => \A i \in Slots : i < outTotal => slots[i] # NoReq
  /\ \A k \in 1 .. Len(queue) : \A i \in Slots : i < queue[k].total => queue[k].reqs[i] # NoReq

LaneInv == TimerCoversPending /\ RealFirstSlot /\ StoppedBehind /\ NoNilHeld /\ NoNilLane

\* Every step keeps timer, first slot, stopped workers and lanes in order.
LEMMA LaneInductive == TypeInv /\ LaneInv /\ [Next]_vars => LaneInv'
<1> USE WorkerAssumption, ParallelAssumption, NoReqAssumption
<1> SUFFICES ASSUME TypeInv, LaneInv, [Next]_vars PROVE LaneInv'
  OBVIOUS
<1> USE DEF TypeInv, LaneInv
<1>t. TypeOK'
  BY TypeInductive
<1>0. 0 \in Slots
  BY DEF Slots
<1>1. ASSUME NEW r \in Requests, CalcDeadline(r) PROVE LaneInv'
  BY <1>1 DEF CalcDeadline, collectorVars, workerVars, TimerCoversPending, RealFirstSlot,
              StoppedBehind, NoNilHeld, NoNilLane
<1>2. ASSUME NEW r \in Requests, Collect(r) PROVE LaneInv'
  <2>0. armed'
    <3>1. pending = 0 \/ pending > 0
      BY DEF TypeOK, Slots
    <3> QED BY <1>2, <3>1 DEF Collect, TimerCoversPending
  <2>1. TimerCoversPending' /\ StoppedBehind' /\ NoNilLane'
    BY <1>2, <2>0 DEF Collect, workerVars, TimerCoversPending, StoppedBehind, NoNilLane
  <2>2. RealFirstSlot'
    <3>1. slots'[0] # NoReq
      BY <1>2, <1>0 DEF TypeOK, Collect, RealFirstSlot, Slots
    <3> QED BY <1>2, <3>1 DEF Collect, RealFirstSlot
  <2>3. NoNilHeld'
    BY <1>2 DEF TypeOK, Collect, NoNilHeld, Slots
  <2> QED BY <2>1, <2>2, <2>3
<1>3. CASE Timeout
  BY <1>3 DEF TypeOK, Timeout, workerVars, TimerCoversPending, RealFirstSlot,
              StoppedBehind, NoNilHeld, NoNilLane, Slots
<1>4. CASE Dispatch
  <2>1. TimerCoversPending' /\ StoppedBehind' /\ NoNilLane'
    BY <1>4 DEF Dispatch, workerVars, TimerCoversPending, StoppedBehind, NoNilLane
  <2>2. [total |-> outTotal, reqs |-> slots] \in Batch
    BY DEF TypeOK, Batch
  <2>3. RealFirstSlot'
    BY <1>4, <2>2, QueueFacts DEF TypeOK, Dispatch, RealFirstSlot
  <2>4. NoNilHeld'
    BY <1>4, <2>2, QueueFacts DEF TypeOK, Dispatch, NoNilHeld, Slots
  <2> QED BY <2>1, <2>3, <2>4
<1>5. ASSUME NEW w \in Workers, TakeBatch(w) PROVE LaneInv'
  <2>1. /\ Head(queue) = queue[1] /\ 1 \in 1 .. Len(queue)
        /\ Len(queue') = Len(queue) - 1 /\ Len(queue) \in Nat
        /\ \A k \in 1 .. Len(queue') : queue'[k] = queue[k + 1] /\ k + 1 \in 1 .. Len(queue)
    BY <1>5, QueueFacts DEF TypeOK, TakeBatch
  <2>2. TimerCoversPending' /\ StoppedBehind'
    BY <1>5 DEF TypeOK, TakeBatch, collectorVars, TimerCoversPending, StoppedBehind
  <2>3. RealFirstSlot' /\ NoNilHeld'
    BY <1>5, <2>1 DEF TakeBatch, collectorVars, RealFirstSlot, NoNilHeld
  <2>4. \A i \in Slots : Lanes(w, Head(queue))[i] # NoReq
    BY <2>1 DEF Lanes, RealFirstSlot, NoNilHeld
  <2>5. NoNilLane'
    BY <1>5, <2>4 DEF TypeOK, TakeBatch, NoNilLane
  <2> QED BY <2>2, <2>3, <2>5
<1>6. ASSUME NEW w \in Workers, Compute(w) PROVE LaneInv'
  BY <1>6 DEF TypeOK, Compute, PcAt, collectorVars, TimerCoversPending, RealFirstSlot,
              StoppedBehind, NoNilHeld, NoNilLane
<1>7. ASSUME NEW w \in Workers, Answer(w) PROVE LaneInv'
  BY <1>7 DEF TypeOK, Answer, PcAt, collectorVars, TimerCoversPending, RealFirstSlot,
              StoppedBehind, NoNilHeld, NoNilLane
<1>8. CASE StopCall
  BY <1>8 DEF StopCall, callerVars, collectorVars, workerVars, TimerCoversPending, RealFirstSlot,
              StoppedBehind, NoNilHeld, NoNilLane, Workers
<1>9. CASE StopWorker
  BY <1>9 DEF TypeOK, StopWorker, collectorVars, TimerCoversPending, RealFirstSlot,
              StoppedBehind, NoNilHeld, NoNilLane, Workers
<1>10. CASE StopCollector
  BY <1>10 DEF TypeOK, StopCollector, workerVars, TimerCoversPending, RealFirstSlot,
               StoppedBehind, NoNilHeld, NoNilLane, Workers
<1>11. CASE UNCHANGED vars
  BY <1>11 DEF vars, TimerCoversPending, RealFirstSlot, StoppedBehind, NoNilHeld, NoNilLane
<1> QED
  BY <1>1, <1>2, <1>3, <1>4, <1>5, <1>6, <1>7, <1>8, <1>9, <1>10, <1>11, NextCases

\* A new handler satisfies LaneInv: nothing is pending, queued or stopped.
LEMMA LaneInitial == Init => LaneInv
  BY WorkerAssumption, ParallelAssumption
  DEF Init, LaneInv, TimerCoversPending, RealFirstSlot, StoppedBehind, NoNilHeld, NoNilLane,
      Slots, Workers

\* What the timers, the lanes and their arrays rely on holds in every state.
LEMMA LanesSafe == Spec => []LaneInv
  BY TypeInitial, TypeInductive, LaneInitial, LaneInductive, PTL DEF Spec

\* While the collector selects, accepted requests have a live timer: none
\* waits for a batch that only another request would complete.
THEOREM PendingTimed == Spec => []TimerCoversPending
<1>1. LaneInv => TimerCoversPending
  BY DEF LaneInv
<1> QED BY <1>1, LanesSafe, PTL

\* No kernel call dereferences a nil lane, not even for the empty batch of a
\* stale timer.
THEOREM LanesReal == Spec => []NoNilLane
<1>1. LaneInv => NoNilLane
  BY DEF LaneInv
<1> QED BY <1>1, LanesSafe, PTL

\* Stop frees no lane array a worker still uses.
THEOREM FreedUnused == Spec => []NoUseAfterFree
<1>1. LaneInv => NoUseAfterFree
  BY DEF LaneInv, StoppedBehind, NoUseAfterFree
<1> QED BY <1>1, LanesSafe, PTL

----------------------------------------------------------------------------
(* Ownership: every accepted request is in exactly one place. *)

\* The positions whose request is still to be answered: in the collector's
\* slots, in a queued batch, in a worker's batch.
CIdx    == 0 .. (IF coll = "send" THEN outTotal ELSE pending) - 1
QIdx(k) == 0 .. queue[k].total - 1
WIdx(w) == lane[w] .. batch[w].total - 1

Waiting(p) == p \in Requests /\ caller[p] = "waiting"

HeldWaiting ==
  /\ \A i \in CIdx : Waiting(slots[i])
  /\ \A k \in 1 .. Len(queue) : \A i \in QIdx(k) : Waiting(queue[k].reqs[i])
  /\ \A w \in Workers : \A i \in WIdx(w) : Waiting(batch[w].reqs[i])

CDistinct == \A i, j \in CIdx : i # j => slots[i] # slots[j]
QDistinct == \A k, l \in 1 .. Len(queue) : \A i \in QIdx(k), j \in QIdx(l) :
               k # l \/ i # j => queue[k].reqs[i] # queue[l].reqs[j]
WDistinct == \A w, v \in Workers : \A i \in WIdx(w), j \in WIdx(v) :
               w # v \/ i # j => batch[w].reqs[i] # batch[v].reqs[j]
CQDistinct == \A i \in CIdx : \A k \in 1 .. Len(queue) : \A j \in QIdx(k) :
               slots[i] # queue[k].reqs[j]
CWDistinct == \A i \in CIdx : \A w \in Workers : \A j \in WIdx(w) :
               slots[i] # batch[w].reqs[j]
QWDistinct == \A k \in 1 .. Len(queue) : \A i \in QIdx(k) : \A w \in Workers : \A j \in WIdx(w) :
               queue[k].reqs[i] # batch[w].reqs[j]

OwnInv == /\ HeldWaiting
          /\ CDistinct /\ QDistinct /\ WDistinct
          /\ CQDistinct /\ CWDistinct /\ QWDistinct

\* A worker's lanes are its batch until the kernel ran, and then the deadlines
\* it has still to hand out are written.
ComputedInv ==
  /\ \A w \in Workers : wpc[w] = "compute" =>
       \A i \in Slots : i < batch[w].total => creqs[w][i] = batch[w].reqs[i]
  /\ \A w \in Workers : wpc[w] = "answer" => \A i \in WIdx(w) : native[batch[w].reqs[i]]

\* Every step keeps each accepted request in exactly one live position.
LEMMA OwnInductive == TypeInv /\ OwnInv /\ [Next]_vars => OwnInv'
<1> USE WorkerAssumption, ParallelAssumption, NoReqAssumption
<1> SUFFICES ASSUME TypeInv, OwnInv, [Next]_vars PROVE OwnInv'
  OBVIOUS
<1> USE DEF TypeInv
<1>t. TypeOK' /\ WorkerCounts'
  BY TypeInductive
<1>1. ASSUME NEW r \in Requests, CalcDeadline(r) PROVE OwnInv'
  <2>0. \A p : Waiting(p) => Waiting(p)'
    BY <1>1 DEF TypeOK, CalcDeadline, Waiting
  <2>1. HeldWaiting'
    BY <1>1, <2>0 DEF OwnInv, CalcDeadline, collectorVars, workerVars, HeldWaiting, CIdx, QIdx, WIdx
  <2> QED BY <1>1, <2>1 DEF OwnInv, CalcDeadline, collectorVars, workerVars, CDistinct, QDistinct,
            WDistinct, CQDistinct, CWDistinct, QWDistinct, CIdx, QIdx, WIdx
<1>2. ASSUME NEW r \in Requests, Collect(r) PROVE OwnInv'
  <2>1. /\ CIdx = 0 .. pending - 1 /\ CIdx' = 0 .. pending
        /\ pending \in Nat
    BY <1>2 DEF TypeOK, Collect, CIdx, Slots
  <2>2. /\ slots'[pending] = r
        /\ \A i \in CIdx : slots'[i] = slots[i]
    BY <1>2, <2>1 DEF TypeOK, Collect, Slots
  <2>3. \A p \in Requests : Waiting(p) => p # r /\ Waiting(p)'
    BY <1>2 DEF TypeOK, Collect, Waiting
  <2>4. Waiting(r)'
    BY <1>2 DEF TypeOK, Collect, Waiting
  <2>5. \A p : Waiting(p) => p \in Requests
    BY DEF Waiting
  <2>6. queue' = queue /\ batch' = batch /\ lane' = lane
    BY <1>2 DEF Collect, workerVars
  <2>7. HeldWaiting'
    BY <2>1, <2>2, <2>3, <2>4, <2>5, <2>6 DEF OwnInv, HeldWaiting, QIdx, WIdx
  <2>8. CDistinct'
    BY <2>1, <2>2, <2>3, <2>5 DEF OwnInv, HeldWaiting, CDistinct
  <2>9. CQDistinct'
    BY <2>1, <2>2, <2>3, <2>5, <2>6 DEF OwnInv, HeldWaiting, CQDistinct, QIdx
  <2>10. CWDistinct'
    BY <2>1, <2>2, <2>3, <2>5, <2>6 DEF OwnInv, HeldWaiting, CWDistinct, WIdx
  <2>11. QDistinct' /\ WDistinct' /\ QWDistinct'
    BY <2>6 DEF OwnInv, QDistinct, WDistinct, QWDistinct, QIdx, WIdx
  <2> QED BY <2>7, <2>8, <2>9, <2>10, <2>11 DEF OwnInv
<1>3. CASE Timeout
  <2>1. CIdx' = CIdx /\ UNCHANGED <<slots, caller, queue, batch, lane>>
    BY <1>3 DEF Timeout, CIdx, callerVars, workerVars
  <2> QED BY <2>1 DEF OwnInv, HeldWaiting, Waiting, CDistinct, QDistinct,
            WDistinct, CQDistinct, CWDistinct, QWDistinct, QIdx, WIdx
<1>4. CASE Dispatch
  <2> PICK n \in Nat : n = Len(queue) + 1
    BY QueueFacts DEF TypeOK
  <2>1. [total |-> outTotal, reqs |-> slots] \in Batch
    BY DEF TypeOK, Batch
  <2>2. /\ Len(queue') = n /\ Len(queue) \in Nat
        /\ \A k \in 1 .. Len(queue) : queue'[k] = queue[k]
        /\ queue'[n] = [total |-> outTotal, reqs |-> slots]
    BY <1>4, <2>1, QueueFacts DEF TypeOK, Dispatch
  <2>3. /\ CIdx = QIdx(n)' /\ \A k \in 1 .. Len(queue) : QIdx(k)' = QIdx(k)
        /\ CIdx' = {} /\ queue'[n].reqs = slots
    BY <1>4, <2>2 DEF Dispatch, CIdx, QIdx
  <2>4. UNCHANGED <<caller, batch, lane>>
    BY <1>4 DEF Dispatch, callerVars, workerVars
  <2>5. \A k \in 1 .. Len(queue') : k \in 1 .. Len(queue) \/ k = n
    BY <2>2
  <2>6. HeldWaiting'
    BY <2>2, <2>3, <2>4, <2>5 DEF OwnInv, HeldWaiting, Waiting, WIdx
  <2>7. CDistinct' /\ CQDistinct' /\ CWDistinct'
    BY <2>3 DEF CDistinct, CQDistinct, CWDistinct
  <2>8. QDistinct'
    BY <2>2, <2>3, <2>5 DEF OwnInv, CDistinct, QDistinct, CQDistinct
  <2>9. WDistinct' /\ QWDistinct'
    BY <2>2, <2>3, <2>4, <2>5 DEF OwnInv, WDistinct, QWDistinct, CWDistinct, WIdx
  <2> QED BY <2>6, <2>7, <2>8, <2>9 DEF OwnInv
<1>5. ASSUME NEW w \in Workers, TakeBatch(w) PROVE OwnInv'
  <2>1. /\ Head(queue) = queue[1] /\ 1 \in 1 .. Len(queue)
        /\ Len(queue') = Len(queue) - 1 /\ Len(queue) \in Nat
        /\ \A k \in 1 .. Len(queue') : queue'[k] = queue[k + 1] /\ k + 1 \in 1 .. Len(queue) /\ k + 1 # 1
    BY <1>5, QueueFacts DEF TypeOK, TakeBatch
  <2>2. /\ UNCHANGED <<caller, slots>> /\ CIdx' = CIdx
        /\ batch'[w] = queue[1] /\ WIdx(w)' = QIdx(1)
        /\ \A v \in Workers \ {w} : batch'[v] = batch[v] /\ WIdx(v)' = WIdx(v)
        /\ \A k \in 1 .. Len(queue') : QIdx(k)' = QIdx(k + 1)
    BY <1>5, <2>1 DEF TypeOK, TakeBatch, callerVars, collectorVars, CIdx, QIdx, WIdx
  <2>3. HeldWaiting'
    BY <2>1, <2>2 DEF OwnInv, HeldWaiting, Waiting
  <2>4. CDistinct' /\ CQDistinct' /\ CWDistinct'
    BY <2>1, <2>2 DEF OwnInv, CDistinct, CQDistinct, CWDistinct
  <2>5. QDistinct'
    <3>1. \A k, l \in 1 .. Len(queue') : k # l => k + 1 # l + 1
      BY <2>1
    <3> QED BY <2>1, <2>2, <3>1 DEF OwnInv, QDistinct
  <2>6. WDistinct'
    BY <2>1, <2>2 DEF OwnInv, QDistinct, WDistinct, QWDistinct
  <2>7. QWDistinct'
    BY <2>1, <2>2 DEF OwnInv, QDistinct, QWDistinct
  <2> QED BY <2>3, <2>4, <2>5, <2>6, <2>7 DEF OwnInv
<1>6. ASSUME NEW w \in Workers, Compute(w) PROVE OwnInv'
  <2>1. UNCHANGED <<slots, pending, coll, outTotal, caller, queue, batch, lane>>
    BY <1>6 DEF Compute, collectorVars
  <2> QED BY <2>1 DEF OwnInv, HeldWaiting, Waiting, CDistinct, QDistinct, WDistinct,
            CQDistinct, CWDistinct, QWDistinct, CIdx, QIdx, WIdx
<1>7. ASSUME NEW w \in Workers, Answer(w) PROVE OwnInv'
  <2> DEFINE r == Answering(w)
  <2>1. /\ lane[w] \in WIdx(w) /\ r = batch[w].reqs[lane[w]]
        /\ WIdx(w)' = WIdx(w) \ {lane[w]}
        /\ \A v \in Workers \ {w} : WIdx(v)' = WIdx(v)
        /\ UNCHANGED <<slots, queue, batch>> /\ CIdx' = CIdx
        /\ \A k \in 1 .. Len(queue) : QIdx(k)' = QIdx(k)
    BY <1>7 DEF TypeOK, WorkerCounts, Answer, Answering, Batch, collectorVars, CIdx, QIdx, WIdx
  <2>2. \A p : Waiting(p) /\ p # r => Waiting(p)'
    BY <1>7 DEF TypeOK, Answer, Waiting
  <2> HIDE DEF r
  <2>3. HeldWaiting'
    <3>1. \A i \in CIdx' : Waiting(slots[i])'
      BY <2>1, <2>2 DEF OwnInv, HeldWaiting, CWDistinct
    <3>2. \A k \in 1 .. Len(queue') : \A i \in QIdx(k)' : Waiting(queue[k].reqs[i])'
      BY <2>1, <2>2 DEF OwnInv, HeldWaiting, QWDistinct
    <3>3. \A v \in Workers : \A i \in WIdx(v)' : Waiting(batch[v].reqs[i])'
      BY <2>1, <2>2 DEF OwnInv, HeldWaiting, WDistinct
    <3> QED BY <3>1, <3>2, <3>3 DEF HeldWaiting
  <2>4. CDistinct' /\ QDistinct' /\ CQDistinct'
    BY <2>1 DEF OwnInv, CDistinct, QDistinct, CQDistinct
  <2>5. \A v \in Workers : WIdx(v)' \subseteq WIdx(v)
    BY <2>1
  <2>6. WDistinct' /\ CWDistinct' /\ QWDistinct'
    BY <2>1, <2>5 DEF OwnInv, WDistinct, CWDistinct, QWDistinct
  <2> QED BY <2>3, <2>4, <2>6 DEF OwnInv
<1>8. CASE StopCall \/ StopWorker \/ StopCollector \/ UNCHANGED vars
  <2>1. UNCHANGED <<slots, caller, queue, batch, lane>> /\ CIdx' = CIdx
    BY <1>8 DEF StopCall, StopWorker, StopCollector, callerVars, collectorVars, workerVars, vars, CIdx
  <2> QED BY <2>1 DEF OwnInv, HeldWaiting, Waiting, CDistinct, QDistinct, WDistinct,
            CQDistinct, CWDistinct, QWDistinct, QIdx, WIdx
<1> QED
  BY <1>1, <1>2, <1>3, <1>4, <1>5, <1>6, <1>7, <1>8, NextCases

\* A new handler holds no request.
LEMMA OwnInitial == Init => OwnInv
  BY WorkerAssumption, ParallelAssumption
  DEF Init, NoBatch, OwnInv, HeldWaiting, Waiting, CDistinct, QDistinct, WDistinct,
      CQDistinct, CWDistinct, QWDistinct, CIdx, QIdx, WIdx

\* What is handed out was computed, and for that a lane is a live request.
AnswerInv == ComputedInv /\ OwnDeadline

\* Every step keeps what workers hand out, and have handed out, computed.
LEMMA AnswerInductive == TypeInv /\ OwnInv /\ AnswerInv /\ [Next]_vars => AnswerInv'
<1> USE WorkerAssumption, ParallelAssumption, NoReqAssumption
<1> SUFFICES ASSUME TypeInv, OwnInv, AnswerInv, [Next]_vars PROVE AnswerInv'
  OBVIOUS
<1> USE DEF TypeInv, AnswerInv
<1>1. ASSUME NEW r \in Requests, CalcDeadline(r) \/ Collect(r) PROVE AnswerInv'
  <2>1. UNCHANGED <<native, result, workerVars>> /\ \A p \in Requests : caller'[p] = "returned" => caller[p] = "returned"
    BY <1>1 DEF TypeOK, CalcDeadline, Collect
  <2> QED BY <2>1 DEF ComputedInv, OwnDeadline, WIdx, workerVars
<1>2. CASE Timeout \/ Dispatch \/ StopCall \/ StopCollector \/ UNCHANGED vars
  <2>1. UNCHANGED <<callerVars, workerVars>>
    BY <1>2 DEF Timeout, Dispatch, StopCall, StopCollector, vars, callerVars, workerVars
  <2> QED BY <2>1 DEF ComputedInv, OwnDeadline, WIdx, callerVars, workerVars
<1>3. ASSUME NEW w \in Workers, TakeBatch(w) PROVE AnswerInv'
  <2>1. creqs'[w] = Lanes(w, Head(queue)) /\ batch'[w] = Head(queue) /\ wpc'[w] = "compute"
    BY <1>3 DEF TypeOK, TakeBatch
  <2>2. \A v \in Workers \ {w} : /\ creqs'[v] = creqs[v] /\ batch'[v] = batch[v]
                                 /\ wpc'[v] = wpc[v] /\ lane'[v] = lane[v]
    BY <1>3 DEF TypeOK, TakeBatch
  <2>3. UNCHANGED <<native, caller, result>>
    BY <1>3 DEF TakeBatch, callerVars
  <2> QED BY <2>1, <2>2, <2>3 DEF ComputedInv, OwnDeadline, WIdx, Lanes
<1>4. ASSUME NEW w \in Workers, Compute(w) PROVE AnswerInv'
  <2>1. UNCHANGED <<caller, result, batch, lane, creqs>>
    BY <1>4 DEF Compute
  <2>2. \A p \in Requests : (native[p] => native'[p]) /\ (p \in ComputedLanes(w) => native'[p])
    BY <1>4 DEF Compute
  <2>3. /\ \A v \in Workers \ {w} : wpc'[v] = wpc[v]
        /\ wpc[w] = "compute" /\ wpc'[w] \in {"idle", "answer"}
    BY <1>4 DEF TypeOK, Compute, PcAt
  <2>4. \A v \in Workers : \A i \in WIdx(v) : i \in Slots /\ i < batch[v].total
                                              /\ batch[v].reqs[i] \in Requests
    BY DEF TypeOK, Batch, Slots, WIdx, OwnInv, HeldWaiting, Waiting
  <2>5. \A i \in WIdx(w) : native'[batch[w].reqs[i]]
    BY <2>2, <2>3, <2>4 DEF ComputedInv, ComputedLanes
  <2>6. ComputedInv'
    <3>1. \A v \in Workers : WIdx(v)' = WIdx(v)
      BY <2>1 DEF WIdx
    <3> QED BY <2>1, <2>2, <2>3, <2>4, <2>5, <3>1 DEF ComputedInv
  <2> QED BY <2>1, <2>6 DEF OwnDeadline
<1>5. ASSUME NEW w \in Workers, Answer(w) PROVE AnswerInv'
  <2>1. /\ UNCHANGED <<native, batch, creqs>> /\ wpc[w] = "answer" /\ wpc'[w] \in {"idle", "answer"}
        /\ \A v \in Workers \ {w} : wpc'[v] = wpc[v] /\ WIdx(v)' = WIdx(v)
        /\ WIdx(w)' \subseteq WIdx(w) /\ lane[w] \in WIdx(w)
    BY <1>5 DEF TypeOK, WorkerCounts, Answer, Batch, WIdx, PcAt
  <2>2. native[Answering(w)]
    BY <2>1 DEF ComputedInv, Answering
  <2>3. OwnDeadline'
    BY <1>5, <2>2 DEF TypeOK, Answer, OwnDeadline
  <2>4. ComputedInv'
    BY <2>1 DEF ComputedInv
  <2> QED BY <2>3, <2>4
<1>6. CASE StopWorker
  <2>1. UNCHANGED <<native, caller, result, batch, lane, creqs>>
    BY <1>6 DEF StopWorker, callerVars
  <2>2. \A v \in Workers : wpc'[v] \in {"compute", "answer"} => wpc'[v] = wpc[v]
    BY <1>6 DEF TypeOK, StopWorker
  <2> QED BY <2>1, <2>2 DEF ComputedInv, OwnDeadline, WIdx
<1> QED
  BY <1>1, <1>2, <1>3, <1>4, <1>5, <1>6, NextCases

\* A new handler has answered nobody.
LEMMA AnswerInitial == Init => AnswerInv
  BY DEF Init, NoBatch, AnswerInv, ComputedInv, OwnDeadline, WIdx

\* What the answers rely on holds in every state.
LEMMA AnswersCorrect == Spec => [](TypeInv /\ OwnInv /\ AnswerInv)
  BY TypeInitial, TypeInductive, OwnInitial, OwnInductive, AnswerInitial, AnswerInductive,
     PTL DEF Spec

\* processReqs never sends an answer nobody waits for.  This rests on OwnInv:
\* an accepted request is in exactly one live position of the slots, the queued
\* batches and the workers' batches.
THEOREM AnswersFind == Spec => []AnswerFindsCaller
<1>1. TypeInv /\ OwnInv => AnswerFindsCaller
  <2> SUFFICES ASSUME TypeInv, OwnInv PROVE AnswerFindsCaller
    OBVIOUS
  <2>1. \A w \in Workers : wpc[w] = "answer" => lane[w] \in WIdx(w)
    BY ParallelAssumption DEF TypeInv, TypeOK, WorkerCounts, Batch, WIdx
  <2> QED BY <2>1 DEF OwnInv, HeldWaiting, Waiting, AnswerFindsCaller, Answering
<1> QED BY <1>1, AnswersCorrect, PTL

\* No CalcDeadline call returns a deadline the kernel did not write for its
\* own request.
THEOREM OwnAnswers == Spec => []OwnDeadline
<1>1. AnswerInv => OwnDeadline
  BY DEF AnswerInv
<1> QED BY <1>1, AnswersCorrect, PTL
=============================================================================
