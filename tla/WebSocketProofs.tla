-------------------------- MODULE WebSocketProofs --------------------------
(***************************************************************************)
(* The live part of the web server, for any connections, channel capacity, *)
(* heights and deadlines: no client is shown an older round, and a send    *)
(* meets a closed channel only while its client closes, or if the client   *)
(* was registered after its end.                                           *)
(***************************************************************************)
EXTENDS WebSocket, SequenceTheorems, TLAPS

Msgs == Infos \cup {Other}
Conn == [net : {"new", "good", "stalled", "broken", "closed"},
         handler : {"idle", "greet", "register", "done"},
         reader : {"none", "read", "queue", "newid", "close", "stop", "finish", "done"},
         writer : {"none", "range", "write", "ended"},
         sub : {"none", "select", "check", "send", "ended"},
         owed : Int, update : BOOLEAN, msgs : Seq(Msgs), closed : BOOLEAN,
         held : Msgs, shown : Infos]
Job == [pc : Clients \cup {"select", "range"}, msg : Msgs, todo : SUBSET Clients]

\* The life of a connection x: it has goroutines and messages only after the
\* greeting; its reader closes the channel when it ends, and tells the server
\* only once the subscription has ended.
Life(x) ==
  /\ x.handler \in {"idle", "greet"} =>
       /\ x.reader = "none" /\ x.writer = "none" /\ x.sub = "none" /\ ~x.closed
       /\ x.msgs = <<>> /\ x.shown = FirstInfo
  /\ x.handler = "greet" => x.held # Other
  /\ x.closed => x.reader \in {"stop", "finish", "done"}
  /\ x.reader \in {"finish", "done"} => x.sub = "ended"

\* Nothing connection x shows, writes or has queued comes after b.
Behind(x, b) ==
  /\ NotBefore(x.shown, b)
  /\ x.held # Other => NotBefore(x.held, b)
  /\ \A i \in DOMAIN x.msgs : x.msgs[i] # Other => NotBefore(x.msgs[i], b)

\* What it will show comes in order.
Ordered(x) ==
  /\ x.held # Other => NotBefore(x.shown, x.held)
  /\ \A i \in DOMAIN x.msgs : x.msgs[i] # Other =>
       /\ NotBefore(x.shown, x.msgs[i])
       /\ x.held # Other => NotBefore(x.held, x.msgs[i])
       /\ \A j \in DOMAIN x.msgs : i < j /\ x.msgs[j] # Other => NotBefore(x.msgs[i], x.msgs[j])

\* The clients webSocketJobs still has to serve with its message.
Served(c) == c \in jobs.todo \/ jobs.pc = c

Types ==
  /\ info \in Infos /\ jobs \in Job /\ clients \subseteq Clients
  /\ client \in [Clients -> Conn]

\* Registered clients have been greeted; nothing they have comes after the
\* message they will get, nor that after the current block info.  Clients leave
\* only when webSocketJobs has served all.
FlowInv ==
  /\ \A c \in Clients : Life(client[c]) /\ Ordered(client[c]) /\ Behind(client[c], info)
  /\ \A c \in Clients : c \in clients \/ Served(c) => client[c].handler = "done"
  /\ \A c \in Clients : Served(c) /\ jobs.msg # Other => Behind(client[c], jobs.msg)
  /\ jobs.msg # Other => NotBefore(jobs.msg, info)
  /\ \A c \in Clients : Served(c) => c \in clients
  /\ jobs.pc = "select" => jobs.todo = {}

WebInv == Types /\ FlowInv /\ PanicWhileClosing

----------------------------------------------------------------------------
\* The order of block infos.

\* The parts of a block info.
LEMMA InfoFields == \A a \in Infos : a.h \in Int /\ a.d \in Int /\ a.h >= 1 /\ a # Other
  BY BoundsAssumption, NamesAssumption DEF Infos

\* No info comes before the first.
LEMMA FirstIsFirst == FirstInfo \in Infos /\ \A a \in Infos : NotBefore(FirstInfo, a)
<1>1. FirstInfo \in Infos
  BY BoundsAssumption DEF FirstInfo, Infos
<1>2. ASSUME NEW a \in Infos PROVE NotBefore(FirstInfo, a)
  BY InfoFields DEF NotBefore, FirstInfo
<1> QED
  BY <1>1, <1>2

\* The order of infos is reflexive.
LEMMA OrderReflexive == \A a \in Infos : NotBefore(a, a)
  BY InfoFields DEF NotBefore

\* The order of infos is transitive.
LEMMA OrderTransitive ==
  ASSUME NEW a \in Infos, NEW b \in Infos, NEW c \in Infos, NotBefore(a, b), NotBefore(b, c)
  PROVE  NotBefore(a, c)
  BY InfoFields DEF NotBefore

----------------------------------------------------------------------------
\* Steps of one connection.

\* The parts of a connection.
LEMMA ConnFields ==
  ASSUME NEW x \in Conn
  PROVE  /\ x.shown \in Infos /\ x.held \in Msgs /\ x.msgs \in Seq(Msgs) /\ Len(x.msgs) \in Nat
         /\ DOMAIN x.msgs = 1 .. Len(x.msgs) /\ \A i \in DOMAIN x.msgs : x.msgs[i] \in Msgs
<1>1. x.shown \in Infos /\ x.held \in Msgs /\ x.msgs \in Seq(Msgs)
  BY DEF Conn
<1> QED
  BY <1>1

\* A client that is behind an info is behind every later one.
LEMMA BehindLater ==
  ASSUME NEW x \in Conn, NEW a \in Infos, NEW b \in Infos, Behind(x, a), NotBefore(a, b)
  PROVE  Behind(x, b)
<1>1. \A m \in Msgs : m # Other => m \in Infos
  BY DEF Msgs
<1> QED
  BY <1>1, ConnFields, OrderTransitive DEF Behind

\* x may become y while others go on.
Step(x, y) ==
  /\ y \in Conn /\ Life(y) /\ Ordered(y)
  /\ NotBefore(x.shown, y.shown)
  /\ x.handler = "done" => y.handler = "done"
  /\ \A b \in Infos : Behind(x, b) => Behind(y, b)

\* Steps that leave the messages alone.
LEMMA ControlStep ==
  ASSUME NEW x \in Conn, Ordered(x), NEW y \in Conn, Life(y),
         y.msgs = x.msgs, y.held = x.held, y.shown = x.shown,
         x.handler = "done" => y.handler = "done"
  PROVE  Step(x, y)
<1>1. NotBefore(x.shown, y.shown)
  BY ConnFields, OrderReflexive
<1> QED
  BY <1>1 DEF Step, Ordered, Behind

\* A message is queued.
LEMMA Appended ==
  ASSUME NEW x \in Conn, Ordered(x), NEW m \in Msgs, m # Other => Behind(x, m),
         NEW y \in Conn, y.msgs = Append(x.msgs, m), y.held = x.held, y.shown = x.shown
  PROVE  /\ Ordered(y) /\ NotBefore(x.shown, y.shown)
         /\ \A b \in Infos : Behind(x, b) /\ (m # Other => NotBefore(m, b)) => Behind(y, b)
<1> DEFINE n == Len(x.msgs)
<1>1. /\ n \in Nat /\ DOMAIN x.msgs = 1 .. n /\ DOMAIN y.msgs = 1 .. n + 1
      /\ y.msgs[n + 1] = m /\ \A i \in 1 .. n : y.msgs[i] = x.msgs[i]
  BY ConnFields, AppendProperties
<1> HIDE DEF n
<1>2. \A i \in 1 .. n + 1 : i \in 1 .. n \/ i = n + 1
  BY <1>1
<1>3. Ordered(y)
  <2>1. ASSUME NEW i \in 1 .. n + 1, y.msgs[i] # Other
        PROVE  /\ NotBefore(y.shown, y.msgs[i])
               /\ y.held # Other => NotBefore(y.held, y.msgs[i])
    BY <1>1, <1>2, <2>1 DEF Ordered, Behind
  <2>2. ASSUME NEW i \in 1 .. n + 1, NEW j \in 1 .. n + 1, i < j, y.msgs[i] # Other, y.msgs[j] # Other
        PROVE  NotBefore(y.msgs[i], y.msgs[j])
    <3>1. i \in 1 .. n
      BY <1>1, <2>2
    <3>2. CASE j \in 1 .. n
      BY <1>1, <2>2, <3>1, <3>2 DEF Ordered
    <3>3. CASE j = n + 1
      BY <1>1, <2>2, <3>1, <3>3 DEF Behind
    <3> QED
      BY <1>2, <3>2, <3>3
  <2> QED
    BY <1>1, <2>1, <2>2 DEF Ordered
<1>4. ASSUME NEW b \in Infos, Behind(x, b), m # Other => NotBefore(m, b) PROVE Behind(y, b)
  BY <1>1, <1>2, <1>4 DEF Behind
<1>5. NotBefore(x.shown, y.shown)
  BY ConnFields, OrderReflexive
<1> QED
  BY <1>3, <1>4, <1>5

\* The writer takes a message.
LEMMA Taken ==
  ASSUME NEW x \in Conn, Ordered(x), x.msgs # <<>>, NEW y \in Conn, Life(y),
         y.msgs = Tail(x.msgs), y.held = Head(x.msgs), y.shown = x.shown,
         x.handler = "done" => y.handler = "done"
  PROVE  Step(x, y)
<1> DEFINE n == Len(x.msgs)
<1>1. /\ n \in Nat /\ n >= 1 /\ DOMAIN x.msgs = 1 .. n /\ DOMAIN y.msgs = 1 .. n - 1
      /\ y.held = x.msgs[1] /\ \A i \in 1 .. n - 1 : y.msgs[i] = x.msgs[i + 1]
  BY ConnFields, HeadTailProperties
<1> HIDE DEF n
<1>2. 1 \in 1 .. n /\ \A i \in 1 .. n - 1 : i + 1 \in 1 .. n /\ 1 < i + 1
  BY <1>1
<1>3. Ordered(y)
  <2>1. ASSUME NEW i \in 1 .. n - 1, y.msgs[i] # Other
        PROVE  /\ NotBefore(y.shown, y.msgs[i])
               /\ y.held # Other => NotBefore(y.held, y.msgs[i])
    BY <1>1, <1>2, <2>1 DEF Ordered
  <2>2. ASSUME NEW i \in 1 .. n - 1, NEW j \in 1 .. n - 1, i < j, y.msgs[i] # Other, y.msgs[j] # Other
        PROVE  NotBefore(y.msgs[i], y.msgs[j])
    <3>1. i + 1 < j + 1
      BY <2>2
    <3> QED
      BY <1>1, <1>2, <2>2, <3>1 DEF Ordered
  <2>3. y.held # Other => NotBefore(y.shown, y.held)
    BY <1>1, <1>2 DEF Ordered
  <2> QED
    BY <1>1, <2>1, <2>2, <2>3 DEF Ordered
<1>4. ASSUME NEW b \in Infos, Behind(x, b) PROVE Behind(y, b)
  BY <1>1, <1>2, <1>4 DEF Behind
<1>5. NotBefore(x.shown, y.shown)
  BY ConnFields, OrderReflexive
<1> QED
  BY <1>3, <1>4, <1>5 DEF Step

\* A message is shown, or the one being written is given up.
LEMMA Shown ==
  ASSUME NEW x \in Conn, Ordered(x), NEW y \in Conn, Life(y),
         y.msgs = x.msgs, y.held = Other,
         y.shown = x.shown \/ (x.held # Other /\ y.shown = x.held),
         x.handler = "done" => y.handler = "done"
  PROVE  Step(x, y)
<1>1. NotBefore(x.shown, y.shown)
  BY ConnFields, OrderReflexive DEF Ordered
<1>2. Ordered(y)
  BY DEF Ordered
<1>3. ASSUME NEW b \in Infos, Behind(x, b) PROVE Behind(y, b)
  BY <1>3 DEF Behind
<1> QED
  BY <1>1, <1>2, <1>3 DEF Step

----------------------------------------------------------------------------
\* Steps of the server.

\* What the next state keeps, and what the clients have been shown so far.
Kept == Types' /\ FlowInv' /\ \A k \in Clients : NotBefore(client[k].shown, client'[k].shown)

\* Connection c becomes y, in keeping with what webSocketJobs is doing.
Change(c, y) ==
  /\ y \in Conn /\ Life(y) /\ Ordered(y) /\ Behind(y, info)
  /\ NotBefore(client[c].shown, y.shown)
  /\ (c \in clients \/ Served(c)) => y.handler = "done"
  /\ (Served(c) /\ jobs.msg # Other) => Behind(y, jobs.msg)
  /\ client' = [client EXCEPT ![c] = y]

\* Meanwhile webSocketJobs may go on with its message, and c register.
Around(c, y) ==
  /\ info' = info /\ jobs' \in Job /\ jobs'.msg = jobs.msg
  /\ \A k \in Clients : Served(k)' => Served(k) /\ k \in clients'
  /\ jobs'.pc = "select" => jobs'.todo = {}
  /\ clients' \subseteq clients \cup {c} /\ (c \in clients' => y.handler = "done")

\* A change of one client that keeps its part of the invariant keeps the whole.
LEMMA OneClient ==
  ASSUME Types, FlowInv, NEW c \in Clients, NEW y, Change(c, y), Around(c, y)
  PROVE  Kept
<1>1. client' \in [Clients -> Conn] /\ client'[c] = y
      /\ \A k \in Clients : k # c => client'[k] = client[k]
  BY DEF Types, Change
<1>2. Types'
  BY <1>1 DEF Types, Around
<1>3. \A k \in Clients : Life(client'[k]) /\ Ordered(client'[k]) /\ Behind(client'[k], info')
  BY <1>1 DEF FlowInv, Change, Around
<1>4. ASSUME NEW k \in Clients, k \in clients' \/ Served(k)' PROVE client'[k].handler = "done"
  BY <1>1, <1>4 DEF FlowInv, Change, Around
<1>5. ASSUME NEW k \in Clients, Served(k)', jobs'.msg # Other PROVE Behind(client'[k], jobs'.msg)
  BY <1>1, <1>5 DEF FlowInv, Change, Around
<1>6. jobs'.msg # Other => NotBefore(jobs'.msg, info')
  BY DEF FlowInv, Around
<1>7. (\A k \in Clients : Served(k)' => k \in clients') /\ (jobs'.pc = "select" => jobs'.todo = {})
  BY DEF Around
<1>8. FlowInv'
  BY <1>3, <1>4, <1>5, <1>6, <1>7 DEF FlowInv, Life, Ordered, Behind, NotBefore
<1>9. ASSUME NEW k \in Clients PROVE NotBefore(client[k].shown, client'[k].shown)
  BY <1>1, <1>9, ConnFields, OrderReflexive DEF Types, Change
<1> QED
  BY <1>2, <1>8, <1>9 DEF Kept

\* A step of a connection alone.
LEMMA StepKeeps ==
  ASSUME Types, FlowInv, NEW c \in Clients, NEW y, Step(client[c], y), Becomes(c, y)
  PROVE  Kept
<1>1. jobs.msg # Other => jobs.msg \in Infos
  BY DEF Types, Job, Msgs
<1>2. Change(c, y)
  BY <1>1 DEF Step, Change, Becomes, FlowInv, Types
<1>3. c \in clients => y.handler = "done"
  BY DEF Step, FlowInv
<1>4. Around(c, y)
  BY <1>3 DEF Around, Becomes, Types, Served, FlowInv
<1> QED
  BY <1>2, <1>4, OneClient

\* Connections have these fields.
LEMMA ConnControl ==
  ASSUME NEW x \in Conn
  PROVE  /\ x.net \in {"new", "good", "stalled", "broken", "closed"}
         /\ x.handler \in {"idle", "greet", "register", "done"}
         /\ x.owed \in Int /\ x.update \in BOOLEAN /\ x.closed \in BOOLEAN
  BY DEF Conn

\* A step of a connection alone that leaves its messages where they are.
LEMMA ControlKeeps ==
  ASSUME Types, FlowInv, NEW c \in Clients, NEW y \in Conn, Life(y), Becomes(c, y),
         y.msgs = client[c].msgs, y.held = client[c].held, y.shown = client[c].shown,
         client[c].handler = "done" => y.handler = "done"
  PROVE  Kept
<1>1. client[c] \in Conn /\ Ordered(client[c])
  BY DEF Types, FlowInv
<1>2. Step(client[c], y)
  BY <1>1, ControlStep
<1> QED
  BY <1>2, StepKeeps

\* The network and the handler.
LEMMA NetworkKeeps ==
  ASSUME Types, FlowInv, NEW c \in Clients, GreetFails(c) \/ Stall(c) \/ Break(c)
  PROVE  Kept
<1> DEFINE x == client[c]
<1>1. x \in Conn /\ Life(x)
  BY DEF Types, FlowInv
<1>2. CASE GreetFails(c)
  <2> DEFINE y == [x EXCEPT !.handler = "done"]
  <2>1. y \in Conn /\ Life(y)
    BY <1>1, <1>2 DEF GreetFails, Conn, Life
  <2> QED
    BY <1>1, <1>2, <2>1, ControlKeeps DEF GreetFails, Conn
<1>3. CASE Stall(c)
  <2> DEFINE y == [x EXCEPT !.net = "stalled"]
  <2>1. y \in Conn /\ Life(y)
    BY <1>1, <1>3 DEF Stall, Conn, Life
  <2> QED
    BY <1>1, <1>3, <2>1, ControlKeeps DEF Stall, Conn
<1>4. CASE Break(c)
  <2> DEFINE y == [x EXCEPT !.net = "broken"]
  <2>1. y \in Conn /\ Life(y)
    BY <1>1, <1>4 DEF Break, Conn, Life
  <2> QED
    BY <1>1, <1>4, <2>1, ControlKeeps DEF Break, Conn
<1> QED
  BY <1>2, <1>3, <1>4

\* The reader.
LEMMA ReaderKeeps ==
  ASSUME Types, FlowInv, NEW c \in Clients,
         ReadZero(c) \/ ReadId(c) \/ ReadFails(c) \/ CloseMsgs(c)
  PROVE  Kept
<1> DEFINE x == client[c]
<1>1. x \in Conn /\ Life(x)
  BY DEF Types, FlowInv
<1>2. CASE ReadZero(c)
  <2> DEFINE y == [x EXCEPT !.reader = "queue"]
  <2>1. y \in Conn /\ Life(y)
    BY <1>1, <1>2 DEF ReadZero, Conn, Life
  <2> QED
    BY <1>1, <1>2, <2>1, ControlKeeps DEF ReadZero, Conn
<1>3. CASE ReadId(c)
  <2> DEFINE y == [x EXCEPT !.reader = "newid"]
  <2>1. y \in Conn /\ Life(y)
    BY <1>1, <1>3 DEF ReadId, Conn, Life
  <2> QED
    BY <1>1, <1>3, <2>1, ControlKeeps DEF ReadId, Conn
<1>4. CASE ReadFails(c)
  <2> DEFINE y == [x EXCEPT !.reader = "close", !.net = "closed"]
  <2>1. y \in Conn /\ Life(y)
    BY <1>1, <1>4 DEF ReadFails, Conn, Life
  <2> QED
    BY <1>1, <1>4, <2>1, ControlKeeps DEF ReadFails, Conn
<1>5. CASE CloseMsgs(c)
  <2> DEFINE y == Closed(x)
  <2>1. y \in Conn /\ Life(y)
    BY <1>1, <1>5 DEF CloseMsgs, Conn, Life, Closed
  <2> QED
    BY <1>1, <1>5, <2>1, ControlKeeps DEF CloseMsgs, Conn, Closed
<1> QED
  BY <1>2, <1>3, <1>4, <1>5

\* QueueMsg done for one message leaves the rest of the connection.
LEMMA QueuedFields ==
  ASSUME NEW x \in Conn, Life(x), x.sub \in {"check", "send"}
  PROVE  /\ Queued(x) \in Conn /\ Life(Queued(x))
         /\ Queued(x).msgs = x.msgs /\ Queued(x).held = x.held /\ Queued(x).shown = x.shown
         /\ Queued(x).handler = x.handler /\ x.handler \notin {"idle", "greet"}
<1> DEFINE s == IF x.owed = 1 THEN "select" ELSE "check"
           y == [x EXCEPT !.owed = x.owed - 1, !.sub = s]
<1>1. s \in {"select", "check"} /\ x.owed - 1 \in Int
  BY DEF Conn
<1>2. Queued(x) = y
  BY DEF Queued
<1> HIDE DEF s
<1>3. y \in Conn /\ y.sub = s
  <2> DEFINE z == [x EXCEPT !.owed = x.owed - 1]
  <2>1. z \in Conn
    BY <1>1, SMTT(40) DEF Conn
  <2>2. y = [z EXCEPT !.sub = s]
    BY SMTT(40) DEF Conn
  <2> HIDE DEF z, y
  <2> QED
    BY <1>1, <2>1, <2>2, SMTT(40) DEF Conn
<1>4. /\ y.msgs = x.msgs /\ y.held = x.held /\ y.shown = x.shown /\ y.handler = x.handler
      /\ y.net = x.net /\ y.reader = x.reader /\ y.writer = x.writer /\ y.closed = x.closed
  BY DEF Conn
<1>5. x.handler \notin {"idle", "greet"} /\ x.reader \notin {"finish", "done"}
  BY DEF Life
<1> HIDE DEF y
<1>6. Life(y)
  BY <1>4, <1>5 DEF Life
<1> QED
  BY <1>2, <1>3, <1>4, <1>5, <1>6

\* The subscription takes up work: an id of the reader, or a tick.
LEMMA SubFields ==
  ASSUME NEW x \in Conn, NEW s \in {"select", "check", "send"}, NEW n \in Int, NEW u \in BOOLEAN
  PROVE  [x EXCEPT !.sub = s, !.owed = n, !.update = u] \in Conn
  BY DEF Conn

\* A change of a connection's control fields keeps its type.
LEMMA IdFields ==
  ASSUME NEW x \in Conn, NEW s \in {"select", "check", "send"}, NEW r \in {"read"},
         NEW n \in Int, NEW u \in BOOLEAN
  PROVE  [x EXCEPT !.sub = s, !.reader = r, !.owed = n, !.update = u] \in Conn
  BY DEF Conn

\* The values those fields are given.
LEMMA Values ==
  /\ "check" \in {"select", "check", "send"} /\ "read" \in {"read"}
  /\ 1 \in Int /\ 2 \in Int /\ TRUE \in BOOLEAN /\ FALSE \in BOOLEAN
  OBVIOUS

\* The subscription and the end of the writer.
LEMMA SubscriptionKeeps ==
  ASSUME Types, FlowInv, NEW c \in Clients,
         RangeEnds(c) \/ Stop(c) \/ Update(c, TRUE) \/ Update(c, FALSE) \/ SubCheck(c) \/ GetId(c, TRUE) \/ GetId(c, FALSE)
  PROVE  Kept
<1> DEFINE x == client[c]
<1>1. x \in Conn /\ Life(x)
  BY DEF Types, FlowInv
<1>2. CASE RangeEnds(c)
  <2> DEFINE y == [x EXCEPT !.writer = "ended"]
  <2>1. y \in Conn /\ Life(y)
    BY <1>1, <1>2 DEF RangeEnds, Conn, Life
  <2> QED
    BY <1>1, <1>2, <2>1, ControlKeeps DEF RangeEnds, Conn
<1>3. CASE Stop(c)
  <2> DEFINE y == [x EXCEPT !.sub = "ended", !.reader = "finish"]
  <2>1. y \in Conn /\ Life(y)
    BY <1>1, <1>3 DEF Stop, Conn, Life
  <2> QED
    BY <1>1, <1>3, <2>1, ControlKeeps DEF Stop, Conn
<1>4. CASE Update(c, TRUE)
  <2> DEFINE y == [x EXCEPT !.sub = "check", !.owed = 1, !.update = TRUE]
  <2>1. y \in Conn /\ Life(y)
    <3>1. x.sub = "select"
      BY <1>4 DEF Update
    <3>2. y \in Conn
      BY <1>1, Values, SubFields, Zenon
    <3> QED
      BY <1>1, <3>1, <3>2 DEF Conn, Life
  <2> QED
    BY <1>1, <1>4, <2>1, ControlKeeps DEF Update, Conn
<1>5. CASE Update(c, FALSE)
  <2> DEFINE y == [x EXCEPT !.sub = "check", !.owed = 1, !.update = FALSE]
  <2>1. y \in Conn /\ Life(y)
    <3>1. x.sub = "select"
      BY <1>5 DEF Update
    <3>2. y \in Conn
      BY <1>1, Values, SubFields, Zenon
    <3> QED
      BY <1>1, <3>1, <3>2 DEF Conn, Life
  <2> QED
    BY <1>1, <1>5, <2>1, ControlKeeps DEF Update, Conn
<1>6. CASE SubCheck(c)
  <2>1. x.sub = "check"
    BY <1>6 DEF SubCheck
  <2>2. CASE Room(c)
    <3> DEFINE y == [x EXCEPT !.sub = "send"]
    <3>1. y \in Conn /\ Life(y)
      BY <1>1, <2>1 DEF Conn, Life
    <3> QED
      BY <1>1, <1>6, <2>2, <3>1, ControlKeeps DEF SubCheck, Conn
  <2>3. CASE ~Room(c)
    <3>1. Becomes(c, Queued(x))
      BY <1>6, <2>3 DEF SubCheck
    <3> QED
      BY <1>1, <2>1, <3>1, QueuedFields, ControlKeeps
  <2> QED
    BY <2>2, <2>3
<1>7. CASE GetId(c, TRUE)
  <2> DEFINE y == [x EXCEPT !.sub = "check", !.reader = "read", !.owed = 2, !.update = TRUE]
  <2>1. y \in Conn /\ Life(y)
    <3>1. x.sub = "select" /\ x.reader = "newid"
      BY <1>7 DEF GetId
    <3>2. y \in Conn
      BY <1>1, Values, IdFields, Zenon
    <3> QED
      BY <1>1, <3>1, <3>2 DEF Conn, Life
  <2> QED
    BY <1>1, <1>7, <2>1, ControlKeeps DEF GetId, Conn
<1>8. CASE GetId(c, FALSE)
  <2> DEFINE y == [x EXCEPT !.sub = "check", !.reader = "read", !.owed = 1, !.update = x.update]
  <2>1. y \in Conn /\ Life(y)
    <3>1. x.sub = "select" /\ x.reader = "newid"
      BY <1>8 DEF GetId
    <3>2. y \in Conn
      BY <1>1, Values, ConnControl, IdFields, Zenon
    <3> QED
      BY <1>1, <3>1, <3>2 DEF Conn, Life
  <2> QED
    BY <1>1, <1>8, <2>1, ControlKeeps DEF GetId, Conn
<1> QED
  BY <1>2, <1>3, <1>4, <1>5, <1>6, <1>7, <1>8

\* A handler upgrades the connection: the info to greet with is the current one.
LEMMA UpgradeKeeps ==
  ASSUME Types, FlowInv, NEW c \in Clients, Upgrade(c)
  PROVE  Kept
<1> DEFINE x == client[c]
           y == [x EXCEPT !.handler = "greet", !.net = "good", !.held = info]
<1>1. x \in Conn /\ Life(x) /\ x.handler = "idle" /\ info \in Infos /\ Becomes(c, y)
  BY DEF Types, FlowInv, Upgrade
<1>2. /\ x.reader = "none" /\ x.writer = "none" /\ x.sub = "none" /\ ~x.closed
      /\ x.msgs = <<>> /\ x.shown = FirstInfo
  BY <1>1 DEF Life
<1>3. info \in Msgs /\ info # Other
  BY <1>1, InfoFields DEF Msgs
<1>4. y \in Conn
  BY <1>1, <1>3 DEF Conn
<1>5. /\ y.handler = "greet" /\ y.net = "good" /\ y.held = info /\ y.msgs = x.msgs /\ y.shown = x.shown
      /\ y.reader = x.reader /\ y.writer = x.writer /\ y.sub = x.sub /\ y.closed = x.closed
  BY <1>1 DEF Conn
<1> HIDE DEF y
<1>6. Life(y)
  BY <1>2, <1>3, <1>5 DEF Life
<1>7. NotBefore(FirstInfo, info) /\ NotBefore(FirstInfo, FirstInfo) /\ NotBefore(info, info)
  BY <1>1, FirstIsFirst, OrderReflexive
<1>8. DOMAIN y.msgs = {}
  BY <1>2, <1>5
<1>9. Ordered(y) /\ Behind(y, info)
  BY <1>2, <1>5, <1>7, <1>8 DEF Ordered, Behind
<1>10. ~(c \in clients \/ Served(c))
  BY <1>1 DEF FlowInv
<1>11. Change(c, y)
  BY <1>1, <1>2, <1>4, <1>5, <1>6, <1>7, <1>9, <1>10 DEF Change, Becomes
<1>12. Around(c, y)
  BY <1>1, <1>10 DEF Around, Becomes, Types, Served, FlowInv
<1> QED
  BY <1>11, <1>12, OneClient

\* The greeting is the first thing a client is shown.
LEMMA GreetKeeps ==
  ASSUME Types, FlowInv, NEW c \in Clients, Greet(c)
  PROVE  Kept
<1> DEFINE x == client[c]
           y == Greeted(x)
<1>1. x \in Conn /\ Life(x) /\ Ordered(x) /\ x.handler = "greet" /\ Becomes(c, y)
  BY DEF Types, FlowInv, Greet
<1>2. x.held # Other /\ x.held \in Infos /\ ~x.closed
  BY <1>1, ConnFields DEF Life, Msgs
<1>3. y \in Conn
  BY <1>1, <1>2 DEF Conn, Greeted, Msgs
<1>4. /\ y.handler = "register" /\ y.reader = "read" /\ y.sub = "select" /\ y.held = Other
      /\ y.shown = x.held /\ y.msgs = x.msgs /\ y.closed = x.closed /\ y.net = x.net
  BY <1>1 DEF Conn, Greeted
<1> HIDE DEF y
<1>5. Life(y)
  BY <1>2, <1>4 DEF Life
<1>6. Step(x, y)
  BY <1>1, <1>2, <1>3, <1>4, <1>5, Shown
<1> QED
  BY <1>1, <1>6, StepKeeps

\* The writer takes a message, writes it or gives up.
LEMMA WriterKeeps ==
  ASSUME Types, FlowInv, NEW c \in Clients, TakeMsg(c) \/ WriteMsg(c) \/ WriteFails(c)
  PROVE  Kept
<1> DEFINE x == client[c]
<1>1. x \in Conn /\ Life(x) /\ Ordered(x)
  BY DEF Types, FlowInv
<1>2. CASE TakeMsg(c)
  <2> DEFINE y == [x EXCEPT !.writer = "write", !.held = Head(x.msgs), !.msgs = Tail(x.msgs)]
  <2>1. x.writer = "range" /\ x.msgs # <<>> /\ Becomes(c, y)
    BY <1>2 DEF TakeMsg
  <2>2. Head(x.msgs) \in Msgs /\ Tail(x.msgs) \in Seq(Msgs)
    BY <1>1, <2>1, ConnFields, HeadTailProperties
  <2>3. y \in Conn
    BY <1>1, <2>2 DEF Conn
  <2>4. /\ y.msgs = Tail(x.msgs) /\ y.held = Head(x.msgs) /\ y.shown = x.shown
        /\ y.handler = x.handler /\ y.net = x.net /\ y.reader = x.reader /\ y.sub = x.sub
        /\ y.closed = x.closed
    BY <1>1 DEF Conn
  <2> HIDE DEF y
  <2>5. Life(y)
    BY <1>1, <2>1, <2>4 DEF Life
  <2>6. Step(x, y)
    BY <1>1, <2>1, <2>3, <2>4, <2>5, Taken
  <2> QED
    BY <2>1, <2>6, StepKeeps
<1>3. CASE WriteMsg(c)
  <2> DEFINE y == Written(x)
  <2>1. x.writer = "write" /\ Becomes(c, y)
    BY <1>3 DEF WriteMsg
  <2>2. y \in Conn
    BY <1>1 DEF Conn, Written, Msgs
  <2>3. /\ y.msgs = x.msgs /\ y.held = Other /\ y.shown = (IF x.held = Other THEN x.shown ELSE x.held)
        /\ y.handler = x.handler /\ y.net = x.net /\ y.reader = x.reader /\ y.sub = x.sub
        /\ y.closed = x.closed
    BY <1>1 DEF Conn, Written
  <2> HIDE DEF y
  <2>4. Life(y)
    BY <1>1, <2>1, <2>3 DEF Life
  <2>5. Step(x, y)
    BY <1>1, <2>2, <2>3, <2>4, Shown
  <2> QED
    BY <2>1, <2>5, StepKeeps
<1>4. CASE WriteFails(c)
  <2> DEFINE y == [x EXCEPT !.writer = "ended", !.held = Other]
  <2>1. x.writer = "write" /\ Becomes(c, y)
    BY <1>4 DEF WriteFails
  <2>2. y \in Conn
    BY <1>1 DEF Conn, Msgs
  <2>3. /\ y.msgs = x.msgs /\ y.held = Other /\ y.shown = x.shown
        /\ y.handler = x.handler /\ y.net = x.net /\ y.reader = x.reader /\ y.sub = x.sub
        /\ y.closed = x.closed
    BY <1>1 DEF Conn
  <2> HIDE DEF y
  <2>4. Life(y)
    BY <1>1, <2>1, <2>3 DEF Life
  <2>5. Step(x, y)
    BY <1>1, <2>2, <2>3, <2>4, Shown
  <2> QED
    BY <2>1, <2>5, StepKeeps
<1> QED
  BY <1>2, <1>3, <1>4

----------------------------------------------------------------------------
\* QueueMsg sends m to connection c, whose sender then goes on as a: the
\* message is queued in order, or the channel was closed, by a client that is
\* closing or still registered, and the process ends.
Sender(c, m, a) ==
  /\ m \in Msgs /\ (m # Other => m = jobs.msg /\ Served(c))
  /\ a \in Conn /\ Life(a) /\ a.handler \notin {"idle", "greet"}
  /\ a.msgs = client[c].msgs /\ a.held = client[c].held /\ a.shown = client[c].shown
  /\ a.handler = client[c].handler
  /\ client[c].reader # "done" \/ c \in clients

\* A goroutine that puts a message into the queue of its client.
LEMMA SendKeeps ==
  ASSUME Types, FlowInv, ~panicked, NEW c \in Clients, NEW m, NEW a, Sender(c, m, a),
         Send(c, m, a), Around(c, client[c]), clients' = clients
  PROVE  Kept /\ PanicWhileClosing'
<1> DEFINE x == client[c]
<1>1. x \in Conn /\ Life(x) /\ Ordered(x) /\ Behind(x, info) /\ info \in Infos
  BY DEF Types, FlowInv
<1>2. CASE x.closed /\ panicked' = TRUE /\ UNCHANGED client
  <2>1. client' = [client EXCEPT ![c] = x]
    BY <1>2 DEF Types
  <2>2. Change(c, x)
    BY <1>1, <2>1, ConnFields, OrderReflexive DEF Change, FlowInv
  <2>3. x.reader \in {"stop", "finish"} \/ (x.reader = "done" /\ c \in clients)
    BY <1>1, <1>2 DEF Life, Sender
  <2>4. PanicWhileClosing'
    BY <1>2, <2>3 DEF PanicWhileClosing
  <2> QED
    BY <2>2, <2>4, OneClient
<1>3. CASE /\ ~x.closed
           /\ client' = [client EXCEPT ![c] = [a EXCEPT !.msgs = Append(a.msgs, m)]]
           /\ UNCHANGED panicked
  <2> DEFINE y == [a EXCEPT !.msgs = Append(a.msgs, m)]
  <2>1. a \in Conn /\ m \in Msgs /\ Life(a) /\ Append(a.msgs, m) \in Seq(Msgs)
    BY ConnFields, AppendProperties DEF Sender
  <2>2. y \in Conn
    BY <2>1 DEF Conn
  <2>3. /\ y.msgs = Append(x.msgs, m) /\ y.held = x.held /\ y.shown = x.shown
        /\ y.handler = x.handler /\ y.handler = a.handler /\ y.net = a.net /\ y.reader = a.reader
        /\ y.sub = a.sub /\ y.closed = a.closed
    BY <2>1 DEF Conn, Sender
  <2>4. client' = [client EXCEPT ![c] = y]
    BY <1>3
  <2> HIDE DEF y
  <2>5. Life(y)
    BY <2>1, <2>3 DEF Life, Sender
  <2>6. m # Other => m \in Infos /\ Behind(x, m) /\ NotBefore(m, info)
    BY <2>1 DEF FlowInv, Sender, Msgs
  <2>7. /\ Ordered(y) /\ NotBefore(x.shown, y.shown)
        /\ \A b \in Infos : Behind(x, b) /\ (m # Other => NotBefore(m, b)) => Behind(y, b)
    BY <1>1, <2>1, <2>2, <2>3, <2>6, Appended
  <2>8. Behind(y, info)
    BY <1>1, <2>6, <2>7
  <2>9. (Served(c) /\ jobs.msg # Other) => Behind(y, jobs.msg)
    <3>1. jobs.msg # Other => jobs.msg \in Infos
      BY DEF Types, Job, Msgs
    <3>2. m # Other => NotBefore(m, m)
      BY <2>6, OrderReflexive
    <3> QED
      BY <2>7, <3>1, <3>2 DEF FlowInv, Sender
  <2>10. Change(c, y)
    BY <2>2, <2>3, <2>4, <2>5, <2>7, <2>8, <2>9 DEF Change, FlowInv
  <2>11. Around(c, y)
    BY <2>3 DEF Around
  <2>12. PanicWhileClosing'
    BY <1>3 DEF PanicWhileClosing
  <2> QED
    BY <2>10, <2>11, <2>12, OneClient
<1> QED
  BY <1>2, <1>3 DEF Send

\* The three senders.
LEMMA SendersKeep ==
  ASSUME Types, FlowInv, NEW c \in Clients, JobsSend(c) \/ ReaderSend(c) \/ SubSend(c)
  PROVE  Kept /\ PanicWhileClosing'
<1> DEFINE x == client[c]
<1>1. x \in Conn /\ Life(x) /\ ~panicked
  BY DEF Types, FlowInv, JobsSend, ReaderSend, SubSend
<1>2. CASE JobsSend(c)
  <2>1. /\ jobs.pc = c /\ Send(c, jobs.msg, x) /\ jobs' = [jobs EXCEPT !.pc = "range"]
        /\ info' = info /\ clients' = clients
    BY <1>2 DEF JobsSend
  <2>2. Served(c) /\ c \in clients /\ x.handler = "done"
    BY <2>1 DEF Served, FlowInv
  <2>3. Sender(c, jobs.msg, x)
    BY <1>1, <2>2 DEF Sender, Types, Job
  <2>4. jobs' \in Job /\ jobs'.msg = jobs.msg /\ jobs'.todo = jobs.todo /\ jobs'.pc = "range"
    BY <2>1 DEF Types, Job
  <2>5. \A k \in Clients : Served(k)' => Served(k) /\ k \in clients'
    BY <2>1, <2>4, NamesAssumption DEF Served, FlowInv
  <2>6. Around(c, x)
    BY <2>1, <2>2, <2>4, <2>5 DEF Around
  <2> QED
    BY <1>1, <2>1, <2>3, <2>6, SendKeeps
<1>3. CASE ReaderSend(c)
  <2> DEFINE a == [x EXCEPT !.reader = "read"]
  <2>1. /\ x.reader = "queue" /\ Send(c, Other, a)
        /\ UNCHANGED <<info, updater, jobs, clients>>
    BY <1>3 DEF ReaderSend
  <2>2. a \in Conn
    BY <1>1 DEF Conn
  <2>3. /\ a.msgs = x.msgs /\ a.held = x.held /\ a.shown = x.shown /\ a.handler = x.handler
        /\ a.net = x.net /\ a.reader = "read" /\ a.sub = x.sub /\ a.closed = x.closed
    BY <1>1 DEF Conn
  <2>4. x.handler \notin {"idle", "greet"} /\ ~x.closed
    BY <1>1, <2>1 DEF Life
  <2> HIDE DEF a
  <2>5. Life(a)
    BY <1>1, <2>3, <2>4 DEF Life
  <2>6. Sender(c, Other, a)
    BY <2>1, <2>2, <2>3, <2>4, <2>5 DEF Sender, Msgs
  <2>7. Around(c, x)
    BY <2>1 DEF Around, Types, FlowInv, Served
  <2> QED
    BY <1>1, <2>1, <2>6, <2>7, SendKeeps
<1>4. CASE SubSend(c)
  <2>1. /\ x.sub = "send" /\ Send(c, Other, Queued(x))
        /\ UNCHANGED <<info, updater, jobs, clients>>
    BY <1>4 DEF SubSend
  <2>2. x.reader # "done"
    BY <1>1, <2>1 DEF Life
  <2>3. Sender(c, Other, Queued(x))
    BY <1>1, <2>1, <2>2, QueuedFields DEF Sender, Msgs
  <2>4. Around(c, x)
    BY <2>1 DEF Around, Types, FlowInv, Served
  <2> QED
    BY <1>1, <2>1, <2>3, <2>4, SendKeeps
<1> QED
  BY <1>2, <1>3, <1>4

----------------------------------------------------------------------------
\* webSocketJobs registers a client, or drops one.
LEMMA RegisterKeeps ==
  ASSUME Types, FlowInv, NEW c \in Clients, AddClient(c) \/ RemoveClient(c)
  PROVE  Kept
<1> DEFINE x == client[c]
<1>1. x \in Conn /\ Life(x) /\ Ordered(x) /\ (jobs.msg # Other => jobs.msg \in Infos)
  BY DEF Types, FlowInv, Job, Msgs
<1>2. CASE AddClient(c)
  <2> DEFINE y == [x EXCEPT !.handler = "done"]
  <2>1. y \in Conn /\ Life(y)
    BY <1>1, <1>2 DEF AddClient, Conn, Life
  <2>2. y.msgs = x.msgs /\ y.held = x.held /\ y.shown = x.shown /\ y.handler = "done"
    BY <1>1 DEF Conn
  <2>3. client' = [client EXCEPT ![c] = y]
    BY <1>2 DEF AddClient
  <2> HIDE DEF y
  <2>4. Step(x, y)
    BY <1>1, <2>1, <2>2, ControlStep
  <2>5. Change(c, y)
    BY <1>1, <2>2, <2>3, <2>4 DEF Change, Step, FlowInv, Types
  <2>6. Around(c, y)
    BY <1>2, <2>2 DEF AddClient, Around, Types, Served, FlowInv
  <2> QED
    BY <2>5, <2>6, OneClient
<1>3. CASE RemoveClient(c)
  <2> DEFINE y == [x EXCEPT !.reader = "done"]
  <2>1. y \in Conn /\ Life(y)
    BY <1>1, <1>3 DEF RemoveClient, Conn, Life
  <2>2. y.msgs = x.msgs /\ y.held = x.held /\ y.shown = x.shown /\ y.handler = x.handler
    BY <1>1 DEF Conn
  <2>3. client' = [client EXCEPT ![c] = y]
    BY <1>3 DEF RemoveClient
  <2> HIDE DEF y
  <2>4. Step(x, y)
    BY <1>1, <2>1, <2>2, ControlStep
  <2>5. Change(c, y)
    BY <1>1, <2>2, <2>3, <2>4 DEF Change, Step, FlowInv, Types
  <2>6. Around(c, y)
    BY <1>3, <2>2, NamesAssumption DEF RemoveClient, Selecting, Around, Types, Served, FlowInv
  <2> QED
    BY <2>5, <2>6, OneClient
<1> QED
  BY <1>2, <1>3

\* cacheUpdateJobs finds a block, or a better deadline of the round.
LEMMA InfoKeeps ==
  ASSUME Types, FlowInv, info' \in Infos, NotBefore(info, info'),
         UNCHANGED <<jobs, clients, client>>
  PROVE  Kept
<1>1. Types'
  BY DEF Types
<1>2. \A c \in Clients : Behind(client[c], info')
  BY BehindLater DEF Types, FlowInv
<1>3. jobs.msg # Other => jobs.msg \in Infos
  BY DEF Types, Job, Msgs
<1>4. jobs.msg # Other => NotBefore(jobs.msg, info')
  BY <1>3, OrderTransitive DEF Types, FlowInv
<1>5. FlowInv'
  BY <1>2, <1>4 DEF FlowInv, Life, Ordered, Behind, NotBefore, Served
<1>6. \A k \in Clients : NotBefore(client[k].shown, client'[k].shown)
  BY ConnFields, OrderReflexive DEF Types
<1> QED
  BY <1>1, <1>5, <1>6 DEF Kept

\* webSocketJobs turns to the clients with a message, or goes on with it.
LEMMA JobsKeeps ==
  ASSUME Types, FlowInv, jobs' \in Job, UNCHANGED <<info, clients, client>>,
         jobs'.msg \in {info, Other, jobs.msg},
         jobs'.pc = "select" => jobs'.todo = {},
         \A c \in Clients : Served(c)' => /\ c \in clients
                                          /\ jobs'.msg \in {info, Other} \/ Served(c)
  PROVE  Kept
<1>1. Types'
  BY DEF Types
<1>2. NotBefore(info, info)
  BY OrderReflexive DEF Types
<1>3. jobs'.msg # Other => NotBefore(jobs'.msg, info)
  BY <1>2 DEF FlowInv
<1>4. \A c \in Clients : Served(c)' /\ jobs'.msg # Other => Behind(client[c], jobs'.msg)
  BY DEF FlowInv
<1>5. \A c \in Clients : c \in clients' \/ Served(c)' => client'[c].handler = "done"
  BY DEF FlowInv
<1>6. FlowInv'
  BY <1>3, <1>4, <1>5 DEF FlowInv, Life, Ordered, Behind, NotBefore
<1>7. \A k \in Clients : NotBefore(client[k].shown, client'[k].shown)
  BY ConnFields, OrderReflexive DEF Types
<1> QED
  BY <1>1, <1>6, <1>7 DEF Kept

\* The steps of cacheUpdateJobs and webSocketJobs.
LEMMA UpdaterKeeps ==
  ASSUME Types, FlowInv, NEW h \in 1 .. MaxHeight,
         \/ CheckForBlockUpdate(h)
         \/ \E deadline \in 1 .. MaxDeadline : CheckForNewBestSubmission(h, deadline)
  PROVE  Kept
<1>1. info \in Infos /\ info.h \in 1 .. MaxHeight /\ info.d \in 0 .. MaxDeadline
  BY DEF Types, Infos
<1>2. CASE CheckForBlockUpdate(h)
  <2>1. info' = [h |-> h, d |-> 0] /\ h > info.h /\ UNCHANGED <<jobs, clients, client>>
    BY <1>2 DEF CheckForBlockUpdate, News
  <2>2. info' \in Infos /\ NotBefore(info, info')
    BY <2>1, BoundsAssumption DEF Infos, NotBefore
  <2> QED
    BY <2>1, <2>2, InfoKeeps
<1>3. CASE \E deadline \in 1 .. MaxDeadline : CheckForNewBestSubmission(h, deadline)
  <2>1. PICK deadline \in 1 .. MaxDeadline : CheckForNewBestSubmission(h, deadline)
    BY <1>3
  <2>2. /\ info' = [info EXCEPT !.d = deadline] /\ (info.d = 0 \/ info.d > deadline)
        /\ UNCHANGED <<jobs, clients, client>>
    BY <2>1 DEF CheckForNewBestSubmission
  <2>3. info' \in Infos /\ info'.h = info.h /\ info'.d = deadline
    BY <1>1, <2>2, BoundsAssumption DEF Infos
  <2>4. NotBefore(info, info')
    BY <1>1, <2>2, <2>3, BoundsAssumption DEF NotBefore
  <2> QED
    BY <2>2, <2>3, <2>4, InfoKeeps
<1> QED
  BY <1>2, <1>3

\* The goroutines that hand out updates.
LEMMA DispatchKeeps ==
  ASSUME Types, FlowInv,
         \/ ReceiveUpdate \/ Tick \/ JobsDone
         \/ \E c \in Clients : JobsCheck(c)
  PROVE  Kept
<1>1. info \in Infos /\ info \in Msgs /\ Other \in Msgs /\ clients \subseteq Clients /\ jobs \in Job
  BY DEF Types, Msgs
<1>2. CASE ReceiveUpdate \/ Tick
  <2>1. PICK m \in {info, Other} : /\ jobs' = [pc |-> "range", msg |-> m, todo |-> clients]
                                   /\ UNCHANGED <<info, clients, client>>
    BY <1>2 DEF ReceiveUpdate, Tick
  <2>2. jobs' \in Job /\ jobs'.msg = m /\ jobs'.todo = clients /\ jobs'.pc = "range"
    BY <1>1, <2>1 DEF Job
  <2>3. \A c \in Clients : Served(c)' => c \in clients
    BY <2>2, NamesAssumption DEF Served
  <2> QED
    BY <2>1, <2>2, <2>3, JobsKeeps
<1>3. CASE JobsDone
  <2>1. jobs' = Idle /\ UNCHANGED <<info, clients, client>>
    BY <1>3 DEF JobsDone
  <2>2. jobs' \in Job /\ jobs'.msg = Other /\ jobs'.todo = {} /\ jobs'.pc = "select"
    BY <1>1, <2>1 DEF Job, Idle
  <2>3. \A c \in Clients : ~Served(c)'
    BY <2>2, NamesAssumption DEF Served
  <2> QED
    BY <2>1, <2>2, <2>3, JobsKeeps
<1>4. CASE \E c \in Clients : JobsCheck(c)
  <2>1. PICK c \in Clients : JobsCheck(c)
    BY <1>4
  <2> DEFINE p == IF Room(c) THEN c ELSE "range"
  <2>2. /\ c \in jobs.todo /\ jobs' = [jobs EXCEPT !.todo = jobs.todo \ {c}, !.pc = p]
        /\ UNCHANGED <<info, clients, client>>
    BY <2>1 DEF JobsCheck
  <2>3. p \in {c, "range"}
    OBVIOUS
  <2> HIDE DEF p
  <2>4. jobs.todo \ {c} \in SUBSET Clients /\ p \in Clients \cup {"select", "range"}
    BY <1>1, <2>3 DEF Job
  <2>5. jobs' \in Job /\ jobs'.msg = jobs.msg /\ jobs'.todo = jobs.todo \ {c} /\ jobs'.pc = p
    BY <1>1, <2>2, <2>4 DEF Job
  <2>6. \A k \in Clients : Served(k)' => Served(k)
    BY <2>2, <2>3, <2>5, NamesAssumption DEF Served
  <2>7. \A k \in Clients : Served(k) => k \in clients
    BY DEF FlowInv
  <2>8. jobs'.pc # "select"
    BY <2>3, <2>5, NamesAssumption
  <2> QED
    BY <2>2, <2>5, <2>6, <2>7, <2>8, JobsKeeps
<1> QED
  BY <1>2, <1>3, <1>4

----------------------------------------------------------------------------
\* The server has just started.
LEMMA WebInit == Init => WebInv
<1> SUFFICES ASSUME Init PROVE WebInv
  OBVIOUS
<1>1. info = FirstInfo /\ FirstInfo \in Infos /\ NotBefore(FirstInfo, FirstInfo)
  BY FirstIsFirst DEF Init
<1>2. /\ NewConnection.net = "new" /\ NewConnection.handler = "idle" /\ NewConnection.reader = "none"
      /\ NewConnection.writer = "none" /\ NewConnection.sub = "none" /\ NewConnection.closed = FALSE
      /\ NewConnection.msgs = <<>> /\ NewConnection.held = Other /\ NewConnection.shown = FirstInfo
      /\ DOMAIN NewConnection.msgs = {}
  BY DEF NewConnection
<1>3. NewConnection \in Conn
  <2>1. Other \in Msgs /\ <<>> \in Seq(Msgs)
    BY DEF Msgs
  <2> QED
    BY <1>1, <2>1 DEF NewConnection, Conn
<1>4. Life(NewConnection) /\ Ordered(NewConnection) /\ Behind(NewConnection, FirstInfo)
  BY <1>1, <1>2 DEF Life, Ordered, Behind
<1>5. jobs = Idle /\ Idle \in Job /\ Idle.msg = Other /\ Idle.todo = {} /\ Idle.pc = "select"
  BY DEF Init, Idle, Job, Msgs
<1>6. clients = {} /\ client = [c \in Clients |-> NewConnection] /\ panicked = FALSE
  BY DEF Init
<1>7. \A c \in Clients : client[c] = NewConnection /\ ~Served(c)
  BY <1>5, <1>6, NamesAssumption DEF Served
<1>8. Types
  BY <1>1, <1>3, <1>5, <1>6 DEF Types
<1>9. FlowInv
  BY <1>1, <1>4, <1>5, <1>6, <1>7 DEF FlowInv
<1> QED
  BY <1>6, <1>8, <1>9 DEF WebInv, PanicWhileClosing

\* Every step keeps the invariant and panics only while a client closes.
LEMMA WebNext ==
  ASSUME WebInv, Next
  PROVE  Kept /\ PanicWhileClosing'
<1> USE DEF WebInv
<1>1. CASE \E h \in 1 .. MaxHeight :
             \/ CheckForBlockUpdate(h)
             \/ \E deadline \in 1 .. MaxDeadline : CheckForNewBestSubmission(h, deadline)
  <2>1. ~panicked /\ UNCHANGED panicked
    BY <1>1 DEF CheckForBlockUpdate, CheckForNewBestSubmission
  <2> QED
    BY <1>1, <2>1, UpdaterKeeps DEF PanicWhileClosing
<1>2. CASE UpdateMinerInfos
  <2>1. ~panicked /\ UNCHANGED <<info, jobs, clients, client, panicked>>
    BY <1>2 DEF UpdateMinerInfos
  <2>2. NotBefore(info, info') /\ info' \in Infos
    BY <2>1, OrderReflexive DEF Types
  <2> QED
    BY <2>1, <2>2, InfoKeeps DEF PanicWhileClosing
<1>3. CASE ReceiveUpdate \/ Tick \/ JobsDone \/ \E c \in Clients : JobsCheck(c)
  <2>1. ~panicked /\ UNCHANGED panicked
    BY <1>3 DEF ReceiveUpdate, Tick, JobsDone, JobsCheck, Selecting
  <2> QED
    BY <1>3, <2>1, DispatchKeeps DEF PanicWhileClosing
<1>4. ASSUME NEW c \in Clients, AddClient(c) \/ RemoveClient(c) PROVE Kept /\ PanicWhileClosing'
  <2>1. ~panicked /\ UNCHANGED panicked
    BY <1>4 DEF AddClient, RemoveClient, Selecting
  <2> QED
    BY <1>4, <2>1, RegisterKeeps DEF PanicWhileClosing
<1>5. ASSUME NEW c \in Clients, JobsSend(c) \/ ReaderSend(c) \/ SubSend(c) PROVE Kept /\ PanicWhileClosing'
  BY <1>5, SendersKeep
<1>6. ASSUME NEW c \in Clients,
             \/ Upgrade(c) \/ Greet(c) \/ GreetFails(c) \/ Stall(c) \/ Break(c)
             \/ TakeMsg(c) \/ RangeEnds(c) \/ WriteMsg(c) \/ WriteFails(c)
             \/ ReadZero(c) \/ ReadId(c) \/ ReadFails(c) \/ CloseMsgs(c)
             \/ GetId(c, TRUE) \/ GetId(c, FALSE) \/ Update(c, TRUE) \/ Update(c, FALSE)
             \/ Stop(c) \/ SubCheck(c)
      PROVE  Kept /\ PanicWhileClosing'
  <2>1. ~panicked /\ UNCHANGED panicked
    BY <1>6 DEF Upgrade, Greet, GreetFails, Stall, Break, TakeMsg, RangeEnds, WriteMsg, WriteFails,
      ReadZero, ReadId, ReadFails, CloseMsgs, GetId, Update, Stop, SubCheck, Becomes
  <2>2. Kept
    BY <1>6, UpgradeKeeps, GreetKeeps, NetworkKeeps, WriterKeeps, ReaderKeeps, SubscriptionKeeps
  <2> QED
    BY <2>1, <2>2 DEF PanicWhileClosing
<1> QED
  BY <1>1, <1>2, <1>3, <1>4, <1>5, <1>6 DEF Next

\* The invariant of the web server's goroutines, for any number of clients.
THEOREM WebSocketInvariant == Spec => []WebInv
<1>1. WebInv /\ [Next]_vars => WebInv'
  <2> SUFFICES ASSUME WebInv, [Next]_vars PROVE WebInv'
    OBVIOUS
  <2>1. CASE Next
    BY <2>1, WebNext DEF WebInv, Kept
  <2>2. CASE UNCHANGED vars
    BY <2>2 DEF vars, WebInv, Types, FlowInv, PanicWhileClosing, Served, Life, Ordered, Behind, NotBefore
  <2> QED
    BY <2>1, <2>2
<1> QED
  BY <1>1, WebInit, PTL DEF Spec

\* No client is shown an older round, or a worse deadline of the round it saw.
THEOREM ShownOnlyForward == Spec => ShownForward
<1>1. WebInv /\ [Next]_vars => [\A c \in Clients : NotBefore(client[c].shown, client'[c].shown)]_vars
  BY WebNext DEF Kept
<1> QED
  BY <1>1, WebSocketInvariant, PTL DEF Spec, ShownForward

\* Once the reader of a client has told the server, its subscription is over:
\* no goroutine of it is left to send on the closed channel.
THEOREM EndedSilent == Spec => []EndedIsSilent
<1>1. WebInv => EndedIsSilent
  BY DEF WebInv, FlowInv, Life, EndedIsSilent
<1> QED
  BY <1>1, WebSocketInvariant, PTL

\* A send panics on a closed channel only while its client is being closed, or
\* if the client was registered after it had ended: a client that was removed
\* is never sent to again.
THEOREM PanicsWhileClosing == Spec => []PanicWhileClosing
<1>1. WebInv => PanicWhileClosing
  BY DEF WebInv
<1> QED
  BY <1>1, WebSocketInvariant, PTL
=============================================================================
