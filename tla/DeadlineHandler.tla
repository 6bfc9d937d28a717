-------------------------- MODULE DeadlineHandler --------------------------
(***************************************************************************)
(* The deadline request handler of pkg/burstmath: callers of CalcDeadline  *)
(* hand requests to one collector goroutine, which batches them for the    *)
(* SIMD kernel (Parallel lanes: 8 with AVX2, 4 with SSE4) and passes full  *)
(* or timed-out batches over a bounded channel to WorkerCount workers.     *)
(* A worker runs the kernel and answers each request on its own unbuffered *)
(* channel.                                                                *)
(*                                                                         *)
(* A request is a pointer: the collector's slots, the queued batches and   *)
(* the workers' lanes may all still point to one after it was answered.    *)
(* The deadline itself is abstracted to whether the kernel has written it. *)
(***************************************************************************)
EXTENDS Integers, Sequences, FiniteSets

CONSTANTS Requests,     \* the CalcDeadlineRequest objects, each used once
          WorkerCount,  \* number of workers and capacity of batchReqs
          Parallel,     \* lanes of the kernel in use (avx2Parallel or sse4Parallel)
          NoReq         \* the nil native pointer of an empty slot

ASSUME WorkerAssumption == WorkerCount \in Nat \ {0}
\* With one lane the collector would never take its "batch is full" branch.
ASSUME ParallelAssumption == Parallel \in Nat \ {0, 1}
ASSUME NoReqAssumption == NoReq \notin Requests

VARIABLES
  caller,    \* where each CalcDeadline call stands
  native,    \* native[r]: has the kernel written r's deadline field?
  result,    \* what the call returned: "none", "unset" or "computed"
  slots,     \* the collector's reqs array
  pending,   \* the collector's pending counter
  armed,     \* the collector's timeout channel will still deliver
  coll,      \* the collector: in "select", blocked in "send", or "stopped"
  outTotal,  \* the pending field of the batch the collector is sending
  queue,     \* batchReqs
  wpc,       \* where each worker stands
  batch,     \* the batch a worker has in hand
  lane,      \* the next lane of it to answer
  creqs,     \* the pointer array a worker hands to the kernel
  stopNext   \* Stop: 0 not called, k about to stop worker k, then the collector

vars == <<caller, native, result, slots, pending, armed, coll, outTotal,
          queue, wpc, batch, lane, creqs, stopNext>>

callerVars    == <<caller, native, result>>
collectorVars == <<slots, pending, armed, coll, outTotal>>
workerVars    == <<wpc, batch, lane, creqs>>

Workers == 1 .. WorkerCount
Slots   == 0 .. Parallel - 1
Pointer == Requests \cup {NoReq}
Batch   == [total : 0 .. Parallel, reqs : [Slots -> Pointer]]

NoBatch == [total |-> 0, reqs |-> [i \in Slots |-> NoReq]]

\* Every pointer is a request or nil, the counters stay inside the slots, and
\* batchReqs inside its capacity.
TypeOK ==
  /\ caller \in [Requests -> {"idle", "sending", "waiting", "returned"}]
  /\ native \in [Requests -> BOOLEAN]
  /\ result \in [Requests -> {"none", "unset", "computed"}]
  /\ slots \in [Slots -> Pointer]
  /\ pending \in Slots
  /\ armed \in BOOLEAN
  /\ coll \in {"select", "send", "stopped"}
  /\ outTotal \in 0 .. Parallel
  /\ queue \in Seq(Batch)
  /\ Len(queue) <= WorkerCount
  /\ wpc \in [Workers -> {"idle", "compute", "answer", "stopped"}]
  /\ batch \in [Workers -> Batch]
  /\ lane \in [Workers -> 0 .. Parallel]
  /\ creqs \in [Workers -> [Slots -> Pointer]]
  /\ stopNext \in 0 .. WorkerCount + 2

Init ==
  /\ caller = [r \in Requests |-> "idle"]
  /\ native = [r \in Requests |-> FALSE]
  /\ result = [r \in Requests |-> "none"]
  /\ slots = [i \in Slots |-> NoReq]
  /\ pending = 0
  /\ armed = FALSE
  /\ coll = "select"
  /\ outTotal = 0
  /\ queue = <<>>
  /\ wpc = [w \in Workers |-> "idle"]
  /\ batch = [w \in Workers |-> NoBatch]
  /\ lane = [w \in Workers |-> 0]
  /\ creqs = [w \in Workers |-> [i \in Slots |-> NoReq]]
  /\ stopNext = 0

----------------------------------------------------------------------------
(* Callers. *)

\* NewCalcDeadlineRequest, then CalcDeadline up to its blocking send.
CalcDeadline(r) ==
  /\ caller[r] = "idle"
  /\ caller' = [caller EXCEPT ![r] = "sending"]
  /\ UNCHANGED <<native, result, collectorVars, queue, workerVars, stopNext>>

----------------------------------------------------------------------------
(* The collector: a select over the request channel, the timer and stop. *)

\* Mutant: the timer is armed only by the request that finds it already set.
CollectNoTimer(r) ==
  /\ coll = "select"
  /\ caller[r] = "sending"
  /\ caller' = [caller EXCEPT ![r] = "waiting"]
  /\ slots' = [slots EXCEPT ![pending] = r]
  /\ IF pending = Parallel - 1
       THEN coll' = "send" /\ outTotal' = pending + 1 /\ UNCHANGED pending
       ELSE pending' = pending + 1 /\ UNCHANGED <<coll, outTotal>>
  /\ UNCHANGED <<armed, native, result, queue, workerVars, stopNext>>

\* Receive a request.  The first one of a batch arms the timer, replacing the
\* channel of an older timer; the last one starts the send of a full batch.
\* The older timer is not cleared when a full batch leaves.
Collect(r) ==
  /\ coll = "select"
  /\ caller[r] = "sending"
  /\ caller' = [caller EXCEPT ![r] = "waiting"]
  /\ slots' = [slots EXCEPT ![pending] = r]
  /\ armed' = (armed \/ pending = 0)
  /\ IF pending = Parallel - 1
       THEN coll' = "send" /\ outTotal' = pending + 1 /\ UNCHANGED pending
       ELSE pending' = pending + 1 /\ UNCHANGED <<coll, outTotal>>
  /\ UNCHANGED <<native, result, queue, workerVars, stopNext>>

\* The timer fires: whatever is pending, possibly nothing, goes out.
Timeout ==
  /\ coll = "select"
  /\ armed
  /\ armed' = FALSE
  /\ coll' = "send"
  /\ outTotal' = pending
  /\ UNCHANGED <<callerVars, slots, pending, queue, workerVars, stopNext>>

\* Mutant: pending is not reset after a dispatch.
DispatchKeepsPending ==
  /\ coll = "send"
  /\ Len(queue) < WorkerCount
  /\ queue' = Append(queue, [total |-> outTotal, reqs |-> slots])
  /\ coll' = "select"
  /\ outTotal' = 0
  /\ UNCHANGED <<callerVars, slots, pending, armed, workerVars, stopNext>>

\* Mutant: the send does not wait for room in batchReqs.
DispatchUnbounded ==
  /\ coll = "send"
  /\ queue' = Append(queue, [total |-> outTotal, reqs |-> slots])
  /\ pending' = 0
  /\ coll' = "select"
  /\ outTotal' = 0
  /\ UNCHANGED <<callerVars, slots, armed, workerVars, stopNext>>

\* The blocking send on batchReqs completes.  The array is copied by value;
\* the slots keep pointing to the requests that were sent.
Dispatch ==
  /\ coll = "send"
  /\ Len(queue) < WorkerCount
  /\ queue' = Append(queue, [total |-> outTotal, reqs |-> slots])
  /\ pending' = 0
  /\ coll' = "select"
  /\ outTotal' = 0
  /\ UNCHANGED <<callerVars, slots, armed, workerVars, stopNext>>

----------------------------------------------------------------------------
(* The workers. *)

\* Mutant: the lanes after the last request keep their old pointers.
LanesNoDummies(w, b) ==
  [i \in Slots |-> IF i < b.total THEN b.reqs[i] ELSE creqs[w][i]]

\* The kernel's pointer array: the batch's requests, then dummies.
Lanes(w, b) ==
  [i \in Slots |-> IF i < b.total THEN b.reqs[i] ELSE b.reqs[0]]

\* An idle worker receives the oldest batch and fills its lanes.
TakeBatch(w) ==
  /\ wpc[w] = "idle"
  /\ queue # <<>>
  /\ wpc' = [wpc EXCEPT ![w] = "compute"]
  /\ batch' = [batch EXCEPT ![w] = Head(queue)]
  /\ lane' = [lane EXCEPT ![w] = 0]
  /\ creqs' = [creqs EXCEPT ![w] = Lanes(w, Head(queue))]
  /\ queue' = Tail(queue)
  /\ UNCHANGED <<callerVars, collectorVars, stopNext>>

\* Mutant: a worker leaves its batch after the first answer.
PcAtOne(next, total) == IF next \in {1, total} THEN "idle" ELSE "answer"

\* Where a worker goes when `next` lanes of its batch are answered.
PcAt(next, total) == IF next = total THEN "idle" ELSE "answer"

\* Mutant: the kernel leaves the last lane out.
ComputedLanesShort(w) == {creqs[w][i] : i \in 0 .. Parallel - 2}

\* The requests whose deadline one kernel call writes.
ComputedLanes(w) == {creqs[w][i] : i \in Slots}

\* CalculateDeadlinesAVX2 or CalculateDeadlinesSSE4 on the worker's lanes.
Compute(w) ==
  /\ wpc[w] = "compute"
  /\ native' = [r \in Requests |-> native[r] \/ r \in ComputedLanes(w)]
  /\ wpc' = [wpc EXCEPT ![w] = PcAt(0, batch[w].total)]
  /\ UNCHANGED <<caller, result, collectorVars, queue, batch, lane, creqs, stopNext>>

\* The request whose answer worker w sends next.
Answering(w) == batch[w].reqs[lane[w]]

\* The blocking send of one deadline meets the receive of its caller.
Answer(w) ==
  /\ wpc[w] = "answer"
  /\ LET r == Answering(w)
     IN  /\ r \in Requests
         /\ caller[r] = "waiting"
         /\ caller' = [caller EXCEPT ![r] = "returned"]
         /\ result' = [result EXCEPT ![r] = IF native[r] THEN "computed" ELSE "unset"]
  /\ lane' = [lane EXCEPT ![w] = lane[w] + 1]
  /\ wpc' = [wpc EXCEPT ![w] = PcAt(lane[w] + 1, batch[w].total)]
  /\ UNCHANGED <<native, collectorVars, queue, batch, creqs, stopNext>>

----------------------------------------------------------------------------
(* Stop. *)

StopCall ==
  /\ stopNext = 0
  /\ stopNext' = 1
  /\ UNCHANGED <<callerVars, collectorVars, queue, workerVars>>

\* Mutant: the lane array is freed without waiting for the worker's select.
StopWorkerEager ==
  /\ stopNext \in Workers
  /\ stopNext' = stopNext + 1
  /\ UNCHANGED <<callerVars, collectorVars, queue, workerVars>>

\* Stop meets worker stopNext in its select, then frees its lane array.
StopWorker ==
  /\ stopNext \in Workers
  /\ wpc[stopNext] = "idle"
  /\ wpc' = [wpc EXCEPT ![stopNext] = "stopped"]
  /\ stopNext' = stopNext + 1
  /\ UNCHANGED <<callerVars, collectorVars, queue, batch, lane, creqs>>

\* After the last worker, Stop meets the collector in its select.
StopCollector ==
  /\ stopNext = WorkerCount + 1
  /\ coll = "select"
  /\ coll' = "stopped"
  /\ stopNext' = stopNext + 1
  /\ UNCHANGED <<callerVars, slots, pending, armed, outTotal, queue, workerVars>>

----------------------------------------------------------------------------
Collector     == (\E r \in Requests : Collect(r)) \/ Timeout \/ Dispatch
WorkerStep(w) == TakeBatch(w) \/ Compute(w) \/ Answer(w)
StopStep      == StopWorker \/ StopCollector

Next ==
  \/ \E r \in Requests : CalcDeadline(r)
  \/ Collector
  \/ \E w \in Workers : WorkerStep(w)
  \/ StopCall
  \/ StopStep

Spec == Init /\ [][Next]_vars

\* The Go scheduler runs every goroutine that can run, and an armed timer
\* fires.  Nothing obliges anyone to call CalcDeadline or Stop.
Fairness ==
  /\ WF_vars(Collector)
  /\ \A w \in Workers : WF_vars(WorkerStep(w))
  /\ WF_vars(StopStep)

FairSpec == Spec /\ Fairness

----------------------------------------------------------------------------
(* Properties. *)

\* A worker that has lanes left to answer finds the caller of the next one
\* waiting: no request is in two batches or twice in one, and none is answered
\* twice (processReqs would block forever on the second send).
AnswerFindsCaller ==
  \A w \in Workers : wpc[w] = "answer" =>
    /\ Answering(w) \in Requests
    /\ caller[Answering(w)] = "waiting"

\* CalcDeadline returns only a value the kernel wrote for that very request.
OwnDeadline == \A r \in Requests : caller[r] = "returned" => result[r] = "computed"

\* No lane the kernel dereferences is a nil pointer, also when a stale timer
\* dispatched an empty batch ("dummies to avoid seg faults").
NoNilLane ==
  \A w \in Workers : wpc[w] = "compute" => \A i \in Slots : creqs[w][i] # NoReq

\* Requests the collector has accepted but not dispatched have a live timer,
\* so a batch that never fills is not forgotten.
TimerCoversPending == coll = "select" /\ pending > 0 => armed

\* Stop never frees the lane array of a worker that still uses it.
NoUseAfterFree ==
  \A w \in Workers : w < stopNext => wpc[w] \notin {"compute", "answer"}

\* Every CalcDeadline call returns, unless the handler is being stopped.
EveryCallReturns ==
  \A r \in Requests : caller[r] = "sending" ~> (caller[r] = "returned" \/ stopNext > 0)
=============================================================================
