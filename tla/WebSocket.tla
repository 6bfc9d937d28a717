----------------------------- MODULE WebSocket -----------------------------
(***************************************************************************)
(* The live part of the web server: cacheUpdateJobs watches the modelx     *)
(* cache and hands block infos to webSocketJobs, which queues them for     *)
(* every registered client; each client has a reader, a writer and a       *)
(* subscription goroutine around one bounded channel.                      *)
(*                                                                         *)
(* A send on an unbuffered channel is one step of sender and receiver.     *)
(* QueueMsg is two steps, its length check and its send.  A send on a      *)
(* closed channel panics, which ends the process.  The content of a        *)
(* message is left out unless it is a block info.                          *)
(***************************************************************************)
EXTENDS Integers, Sequences

CONSTANTS
  Clients,     \* connections ever made
  Cap,         \* capacity of Client.msgs
  MaxHeight,   \* bounds on what the cache may hold
  MaxDeadline,
  Other        \* a message that is not a block info

ASSUME BoundsAssumption == Cap \in Nat \ {0} /\ MaxHeight \in Nat \ {0} /\ MaxDeadline \in Nat
ASSUME NamesAssumption ==
  /\ Other \notin [h : 1 .. MaxHeight, d : 0 .. MaxDeadline]
  /\ "select" \notin Clients /\ "range" \notin Clients

VARIABLES
  info,        \* webServer.blockInfo
  updater,     \* cacheUpdateJobs: in its select, or sending a block info or shares
  jobs,        \* webSocketJobs: in its select, in sendToClients ("range") or in
               \* the send to a client, with the message and the clients to serve
  clients,     \* webServer.clients
  client,      \* a connection: the state of its goroutines and of its channel
  panicked

vars == <<info, updater, jobs, clients, client, panicked>>

Infos == [h : 1 .. MaxHeight, d : 0 .. MaxDeadline]    \* deadline 0: none yet
FirstInfo == [h |-> 1, d |-> 0]
Idle == [pc |-> "select", msg |-> Other, todo |-> {}]

\* net: what the network does to the connection; "stalled" takes no more data,
\* "closed" is the server's own doing.
\* owed: the messages subscribe has still to queue before it selects again.
\* update: its ticker runs.  held: the message being written.  shown: history,
\* the last block info the peer was sent.
NewConnection ==
  [net |-> "new", handler |-> "idle", reader |-> "none", writer |-> "none", sub |-> "none",
   owed |-> 0, update |-> FALSE, msgs |-> <<>>, closed |-> FALSE, held |-> Other,
   shown |-> FirstInfo]

\* NewWebServer and Run, before anybody connects.
Init ==
  /\ info = FirstInfo
  /\ updater = "select" /\ jobs = Idle
  /\ clients = {}
  /\ client = [c \in Clients |-> NewConnection]
  /\ panicked = FALSE

----------------------------------------------------------------------------
(* cacheUpdateJobs.  What it finds in the cache is any block and any best  *)
(* submission: one of forge may be of another round, and may get worse.    *)

\* Mutant: the same height is news again.
NewsAgain(h) == h >= info.h

News(h) == h > info.h

\* checkForBlockUpdate up to its send; the cache holds the block of height h.
CheckForBlockUpdate(h) ==
  /\ ~panicked /\ updater = "select"
  /\ News(h)
  /\ info' = [h |-> h, d |-> 0]
  /\ updater' = "block"
  /\ UNCHANGED <<jobs, clients, client, panicked>>

\* checkForNewBestSubmission up to its send; the cache holds a submission for h.
CheckForNewBestSubmission(h, deadline) ==
  /\ ~panicked /\ updater = "select"
  /\ info.h = h
  /\ info.d = 0 \/ info.d > deadline
  /\ info' = [info EXCEPT !.d = deadline]
  /\ updater' = "block"
  /\ UNCHANGED <<jobs, clients, client, panicked>>

\* updateMinerInfos up to its send.
UpdateMinerInfos ==
  /\ ~panicked /\ updater = "select"
  /\ updater' = "shares"
  /\ UNCHANGED <<info, jobs, clients, client, panicked>>

----------------------------------------------------------------------------
(* webSocketJobs. *)

\* Mutant: clients come and go while a message is on its way to them.
SelectingAlways == ~panicked

Selecting == ~panicked /\ jobs.pc = "select"

AddClient(c) ==
  /\ Selecting /\ client[c].handler = "register"
  /\ client' = [client EXCEPT ![c].handler = "done"]
  /\ clients' = clients \cup {c}
  /\ UNCHANGED <<info, updater, jobs, panicked>>

RemoveClient(c) ==
  /\ Selecting /\ client[c].reader = "finish"
  /\ client' = [client EXCEPT ![c].reader = "done"]
  /\ clients' = clients \ {c}
  /\ UNCHANGED <<info, updater, jobs, panicked>>

\* An update of cacheUpdateJobs is received.
ReceiveUpdate ==
  /\ Selecting /\ updater # "select"
  /\ updater' = "select"
  /\ jobs' = [pc |-> "range", msg |-> IF updater = "block" THEN info ELSE Other, todo |-> clients]
  /\ UNCHANGED <<info, clients, client, panicked>>

\* pingTicker or poolStatsTicker.
Tick ==
  /\ Selecting
  /\ jobs' = [pc |-> "range", msg |-> Other, todo |-> clients]
  /\ UNCHANGED <<info, updater, clients, client, panicked>>

\* The check of QueueMsg, which drops the message if there is no room.
Room(c) == Len(client[c].msgs) # Cap

\* sendToClients: QueueMsg for the next client, up to its send.
JobsCheck(c) ==
  /\ ~panicked /\ jobs.pc = "range" /\ c \in jobs.todo
  /\ jobs' = [jobs EXCEPT !.todo = @ \ {c}, !.pc = IF Room(c) THEN c ELSE "range"]
  /\ UNCHANGED <<info, updater, clients, client, panicked>>

\* client.msgs <- msg waits for room, and panics if the channel is closed.
\* "after" is the client once its sender goes on.
Send(c, msg, after) ==
  \/ client[c].closed /\ panicked' = TRUE /\ UNCHANGED client
  \/ /\ ~client[c].closed /\ Len(client[c].msgs) < Cap
     /\ client' = [client EXCEPT ![c] = [after EXCEPT !.msgs = Append(after.msgs, msg)]]
     /\ UNCHANGED panicked

JobsSend(c) ==
  /\ ~panicked /\ jobs.pc = c
  /\ Send(c, jobs.msg, client[c])
  /\ jobs' = [jobs EXCEPT !.pc = "range"]
  /\ UNCHANGED <<info, updater, clients>>

JobsDone ==
  /\ ~panicked /\ jobs.pc = "range" /\ jobs.todo = {}
  /\ jobs' = Idle
  /\ UNCHANGED <<info, updater, clients, client, panicked>>

----------------------------------------------------------------------------
(* Steps of one connection leave the rest of the server alone. *)

Becomes(c, after) ==
  /\ ~panicked
  /\ client' = [client EXCEPT ![c] = after]
  /\ UNCHANGED <<info, updater, jobs, clients, panicked>>

\* webSocketHandler: Upgrade, then the block info to greet with is read.
Upgrade(c) ==
  /\ client[c].handler = "idle"
  /\ Becomes(c, [client[c] EXCEPT !.handler = "greet", !.net = "good", !.held = info])

\* The greeting is written; NewClient starts the three goroutines.
Greeted(x) ==
  [x EXCEPT !.handler = "register", !.reader = "read", !.writer = "range", !.sub = "select",
            !.shown = x.held, !.held = Other]

Greet(c) ==
  /\ client[c].handler = "greet" /\ client[c].net # "stalled"
  /\ Becomes(c, Greeted(client[c]))

\* A write of the greeting fails: there will be no client.
GreetFails(c) ==
  /\ client[c].handler = "greet" /\ client[c].net = "broken"
  /\ Becomes(c, [client[c] EXCEPT !.handler = "done"])

\* The network.
Stall(c) ==
  /\ client[c].net = "good"
  /\ Becomes(c, [client[c] EXCEPT !.net = "stalled"])

Break(c) ==
  /\ client[c].net \in {"good", "stalled"}
  /\ Becomes(c, [client[c] EXCEPT !.net = "broken"])

\* Client.write: range takes a message, or ends at a channel closed and empty.
TakeMsg(c) ==
  /\ client[c].writer = "range" /\ client[c].msgs # <<>>
  /\ Becomes(c, [client[c] EXCEPT !.writer = "write", !.held = Head(client[c].msgs),
                                  !.msgs = Tail(@)])

RangeEnds(c) ==
  /\ client[c].writer = "range" /\ client[c].msgs = <<>> /\ client[c].closed
  /\ Becomes(c, [client[c] EXCEPT !.writer = "ended"])

\* Mutant: the writer ends after a message.
WrittenOnce(x) ==
  [x EXCEPT !.writer = "ended", !.held = Other, !.shown = IF x.held = Other THEN @ ELSE x.held]

\* The writer goes on after a message.
Written(x) ==
  [x EXCEPT !.writer = "range", !.held = Other, !.shown = IF x.held = Other THEN @ ELSE x.held]

\* WriteMessage; what is sent over a breaking connection may be lost unnoticed.
WriteMsg(c) ==
  /\ client[c].writer = "write" /\ client[c].net \in {"good", "broken"}
  /\ Becomes(c, Written(client[c]))

\* WriteMessage fails; nobody empties the channel any more.
WriteFails(c) ==
  /\ client[c].writer = "write" /\ client[c].net \in {"broken", "closed"}
  /\ Becomes(c, [client[c] EXCEPT !.writer = "ended", !.held = Other])

\* Client.read: a message that cannot be parsed changes nothing; one with
\* account 0 is answered by QueueMsg, one with an account goes to subscribe.
ReadZero(c) ==
  /\ client[c].reader = "read" /\ client[c].net # "broken" /\ Room(c)
  /\ Becomes(c, [client[c] EXCEPT !.reader = "queue"])

ReadId(c) ==
  /\ client[c].reader = "read" /\ client[c].net # "broken"
  /\ Becomes(c, [client[c] EXCEPT !.reader = "newid"])

ReaderSend(c) ==
  /\ ~panicked /\ client[c].reader = "queue"
  /\ Send(c, Other, [client[c] EXCEPT !.reader = "read"])
  /\ UNCHANGED <<info, updater, jobs, clients>>

\* ReadMessage fails: the connection broke, or the peer sent a close frame or
\* one that breaks the protocol.  The deferred close begins: client.c.Close().
ReadFails(c) ==
  /\ client[c].reader = "read"
  /\ Becomes(c, [client[c] EXCEPT !.reader = "close", !.net = "closed"])

\* Mutant: the server is told while the subscription still runs.
CloseEarly(x) == [x EXCEPT !.closed = TRUE, !.reader = "finish"]

\* close(client.msgs), then the subscription is stopped, then the server told.
Closed(x) == [x EXCEPT !.closed = TRUE, !.reader = "stop"]

CloseMsgs(c) ==
  /\ client[c].reader = "close"
  /\ Becomes(c, Closed(client[c]))

\* Client.subscribe: an id arrives.  If the cache knows the miner two messages
\* follow and a new ticker, else one message, and an old ticker goes on.
GetId(c, known) ==
  /\ client[c].sub = "select" /\ client[c].reader = "newid"
  /\ Becomes(c, [client[c] EXCEPT !.sub = "check", !.reader = "read",
                   !.owed = IF known THEN 2 ELSE 1, !.update = @ \/ known])

\* The ticker fires; once the miner is unknown it is replaced by one that never does.
Update(c, known) ==
  /\ client[c].sub = "select" /\ client[c].update
  /\ Becomes(c, [client[c] EXCEPT !.sub = "check", !.owed = 1, !.update = known])

Stop(c) ==
  /\ client[c].sub = "select" /\ client[c].reader = "stop"
  /\ Becomes(c, [client[c] EXCEPT !.sub = "ended", !.reader = "finish"])

\* QueueMsg is done for one message.
Queued(x) == [x EXCEPT !.owed = @ - 1, !.sub = IF x.owed = 1 THEN "select" ELSE "check"]

SubCheck(c) ==
  /\ client[c].sub = "check"
  /\ Becomes(c, IF Room(c) THEN [client[c] EXCEPT !.sub = "send"] ELSE Queued(client[c]))

SubSend(c) ==
  /\ ~panicked /\ client[c].sub = "send"
  /\ Send(c, Other, Queued(client[c]))
  /\ UNCHANGED <<info, updater, jobs, clients>>

----------------------------------------------------------------------------
JobsStep == JobsDone \/ \E c \in Clients : JobsCheck(c)
WriterStep(c) == TakeMsg(c) \/ WriteMsg(c)

Next ==
  \/ \E h \in 1 .. MaxHeight :
       \/ CheckForBlockUpdate(h)
       \/ \E deadline \in 1 .. MaxDeadline : CheckForNewBestSubmission(h, deadline)
  \/ UpdateMinerInfos
  \/ ReceiveUpdate \/ Tick \/ JobsDone
  \/ \E c \in Clients :
       \/ AddClient(c) \/ RemoveClient(c) \/ JobsCheck(c) \/ JobsSend(c)
       \/ Upgrade(c) \/ Greet(c) \/ GreetFails(c) \/ Stall(c) \/ Break(c)
       \/ TakeMsg(c) \/ RangeEnds(c) \/ WriteMsg(c) \/ WriteFails(c)
       \/ ReadZero(c) \/ ReadId(c) \/ ReaderSend(c) \/ ReadFails(c) \/ CloseMsgs(c)
       \/ GetId(c, TRUE) \/ GetId(c, FALSE) \/ Update(c, TRUE) \/ Update(c, FALSE) \/ Stop(c)
       \/ SubCheck(c) \/ SubSend(c)

\* Goroutines that can run do.  A select with several ready cases picks one at
\* random, and the senders of a channel are served first in, first out: neither
\* waits for ever while its turn comes up again and again.
Fairness ==
  /\ WF_vars(JobsStep) /\ SF_vars(ReceiveUpdate)
  /\ \A c \in Clients : WF_vars(WriterStep(c)) /\ SF_vars(JobsSend(c))

Spec == Init /\ [][Next]_vars /\ Fairness

----------------------------------------------------------------------------
\* b is what a client may be shown after a: a later round, or the same round
\* with no worse a deadline.
NotBefore(a, b) ==
  \/ b.h > a.h
  \/ b.h = a.h /\ (a.d = 0 \/ (b.d # 0 /\ b.d <= a.d))

\* No client is shown an older round, or a worse deadline of the round it saw:
\* neither the greeting, which is read before the client is registered, nor
\* updates that queue behind others, nor a best of forge that got worse undo
\* what it has seen.
ShownForward == [][\A c \in Clients : NotBefore(client[c].shown, client'[c].shown)]_vars

\* Once a reader has ended, which is when the server has removed its client,
\* no goroutine of that client is left that could send on its closed channel.
EndedIsSilent ==
  \A c \in Clients : client[c].reader \in {"finish", "done"} => client[c].sub = "ended"

\* A send meets a closed channel, and ends the process, only while its client
\* is being closed, or if the client was registered after it had ended.  A
\* client the server has removed is never sent to, not even by an update that
\* was under way.
PanicWhileClosing ==
  panicked => \E c \in Clients :
    /\ client[c].closed
    /\ client[c].reader \in {"stop", "finish"} \/ (client[c].reader = "done" /\ c \in clients)

\* While connections take data, the three senders of a channel never block
\* webSocketJobs for good: an update that was found is taken over.  A client
\* that was closed and removed does not hold back later ones.
Trouble ==
  \/ panicked
  \/ \E c \in Clients :
       client[c].net \in {"stalled", "broken"} \/ client[c].reader \in {"close", "stop", "finish"}
UpdatesFlow == (updater # "select") ~> (updater = "select" \/ Trouble)
=============================================================================
