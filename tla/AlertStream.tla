----------------------------- MODULE AlertStream -----------------------------
(***************************************************************************)
(* From a stored alert to a websocket (api/main.py).  A thread that ran    *)
(* the pipeline publishes its own alerts: it takes a snapshot of the       *)
(* queues and asks the event loop, queue by queue, to put the alert.  The  *)
(* loop runs what was scheduled in order; a full queue loses the alert.    *)
(* Alerts of another process on the same database are found by a watcher   *)
(* that looks at the newest row now and then.  An item is an alert with    *)
(* its source: the thread that published it, or the watcher.               *)
(***************************************************************************)
EXTENDS Integers, Sequences, FiniteSets

CONSTANTS
    AlertIds,   \* the alerts that may be stored
    Time,       \* the timestamp of each alert, by which the watcher sorts
    Publishers, \* threads of this process that ingest
    Clients,    \* websockets; each connects once; its queue is new
    QueueSize,  \* 100
    Numbers     \* the chain numbers each alert may get: any; few of them for the model checker

Watcher == "watcher"
Elsewhere == "elsewhere"

ASSUME StreamAssumption ==
    /\ Time \in [AlertIds -> Int]
    /\ QueueSize \in Nat \ {0}
    /\ Numbers \in [AlertIds -> SUBSET (Nat \ {0})]
    /\ Watcher \notin Publishers /\ Elsewhere \notin Publishers

VARIABLES
    number,     \* chain_sequence of the stored alerts
    place,      \* history: the place of an alert in the order of storage
    origin,     \* who stored an alert
    publishing, \* for each thread the alert it publishes and the queues left
    known,      \* last_known_seq of the watcher
    ready,      \* put_nowait calls scheduled in the loop
    client,     \* "new", "open" (its queue is in event_queues) or "closed"
    queue,      \* the queue of each client
    hand,       \* what a client's coroutine took out and is sending
    received,   \* history: what was sent to the client
    dropped,    \* history: what a full queue lost
    published   \* history: the items published to a client

streamVars == <<number, place, origin, publishing, known, ready, client, queue, hand, received, dropped, published>>

Items == AlertIds \X (Publishers \cup {Watcher})
None == <<>>

Open == {c \in Clients : client[c] = "open"}
Recorded == DOMAIN number

StreamInit ==
    /\ number = [a \in {} |-> 0]
    /\ place = [a \in {} |-> 0]
    /\ origin = [a \in {} |-> Elsewhere]
    /\ publishing = [t \in Publishers |-> None]
    /\ known = 0
    /\ ready = <<>>
    /\ client = [c \in Clients |-> "new"]
    /\ queue = [c \in Clients |-> <<>>]
    /\ hand = [c \in Clients |-> None]
    /\ received = [c \in Clients |-> <<>>]
    /\ dropped = [c \in Clients |-> {}]
    /\ published = [c \in Clients |-> {}]

-----------------------------------------------------------------------------
(* Storing and publishing.                                                 *)

\* The number says little: HashChain is shared without a lock, so another thread
\* may put its sequence back or on before it is read, a failed INSERT leaves it
\* ahead of the table, and a failed read behind.
Store(a, by) ==
    /\ a \notin Recorded
    /\ \E n \in Numbers[a] : number' = [b \in Recorded \cup {a} |-> IF b = a THEN n ELSE number[b]]
    /\ place' = [b \in Recorded \cup {a} |-> IF b = a THEN Cardinality(Recorded) + 1 ELSE place[b]]
    /\ origin' = [b \in Recorded \cup {a} |-> IF b = a THEN by ELSE origin[b]]
    /\ UNCHANGED <<known, ready, client, queue, hand, received, dropped>>

\* The pipeline of a thread has stored an alert; publish comes next.
StoreHere(t, a) ==
    /\ publishing[t] = None
    /\ Store(a, t)
    /\ publishing' = [publishing EXCEPT ![t] = [alert |-> a, started |-> FALSE, left |-> {}]]
    /\ UNCHANGED published

\* Another process on the same database: nobody is called.
StoreElsewhere(a) ==
    /\ Store(a, Elsewhere)
    /\ UNCHANGED <<publishing, published>>

PublishedTo(S, item) == [c \in Clients |-> published[c] \cup (IF c \in S THEN {item} ELSE {})]

\* publish returns when no queue is left.
Publishing(t, S) == IF S = {} THEN None ELSE [alert |-> publishing[t].alert, started |-> TRUE, left |-> S]

\* list(event_queues)
Snapshot(t) ==
    /\ publishing[t] # None /\ ~publishing[t].started
    /\ publishing' = [publishing EXCEPT ![t] = Publishing(t, Open)]
    /\ published' = PublishedTo(Open, <<publishing[t].alert, t>>)
    /\ UNCHANGED <<number, place, origin, known, ready, client, queue, hand, received, dropped>>

\* call_soon_threadsafe for the next queue; others run in between.
Schedule(t, c) ==
    /\ publishing[t] # None /\ c \in publishing[t].left
    /\ publishing' = [publishing EXCEPT ![t] = Publishing(t, @.left \ {c})]
    /\ ready' = Append(ready, [to |-> c, item |-> <<publishing[t].alert, t>>])
    /\ UNCHANGED <<number, place, origin, known, client, queue, hand, received, dropped, published>>

-----------------------------------------------------------------------------
(* The event loop: the watcher, the scheduled calls, the websockets.       *)

\* Mutant of IsNewest: the query sorts the other way.
IsOldest(a) == a \in Recorded /\ \A b \in Recorded : Time[b] >= Time[a]

\* alerts(1): ORDER BY timestamp DESC; of two equally recent rows either.
IsNewest(a) == a \in Recorded /\ \A b \in Recorded : Time[b] <= Time[a]

\* The calls that publish schedules for the queues of S, in the order of list(S).
Orders(S) ==
    {order \in [1..Cardinality(S) -> S] :
        /\ \A c \in S : \E i \in DOMAIN order : order[i] = c
        /\ \A i, j \in DOMAIN order : order[i] = order[j] => i = j}

Calls(order, item) == [i \in DOMAIN order |-> [to |-> order[i], item |-> item]]

PublishAll(item) ==
    /\ \E order \in Orders(Open) : ready' = ready \o Calls(order, item)
    /\ published' = PublishedTo(Open, item)

\* Mutant of Watch: what was published is not remembered.
WatchForgetting(a) ==
    /\ IsNewest(a) /\ number[a] > known
    /\ IF known = 0 THEN known' = number[a] /\ UNCHANGED <<ready, published>>
       ELSE PublishAll(<<a, Watcher>>) /\ UNCHANGED known
    /\ UNCHANGED <<number, place, origin, publishing, client, queue, hand, received, dropped>>

\* One round of _watch_db_alerts that finds a new row: zero stands for "never
\* looked", so the first row found is only remembered.
Watch(a) ==
    /\ IsNewest(a) /\ number[a] > known
    /\ known' = number[a]
    /\ IF known = 0 THEN UNCHANGED <<ready, published>> ELSE PublishAll(<<a, Watcher>>)
    /\ UNCHANGED <<number, place, origin, publishing, client, queue, hand, received, dropped>>

\* Mutant of Put: a full queue loses its oldest item instead, and nobody counts it.
PutOverOldest ==
    /\ ready # <<>> /\ Head(ready).to \in Open
    /\ LET c == Head(ready).to IN
       queue' = [queue EXCEPT ![c] = Append(IF Len(@) < QueueSize THEN @ ELSE Tail(@), Head(ready).item)]
    /\ ready' = Tail(ready)
    /\ UNCHANGED <<number, place, origin, publishing, known, client, hand, received, dropped, published>>

\* Mutant of Put: the queue is made without maxsize.
PutUnbounded ==
    /\ ready # <<>> /\ Head(ready).to \in Open
    /\ queue' = [queue EXCEPT ![Head(ready).to] = Append(@, Head(ready).item)]
    /\ ready' = Tail(ready)
    /\ UNCHANGED <<number, place, origin, publishing, known, client, hand, received, dropped, published>>

\* put_nowait, in the loop: QueueFull is raised where nobody catches it; a
\* discarded queue is filled, and nobody reads it.
Put ==
    /\ ready # <<>>
    /\ LET c == Head(ready).to IN
       \/ /\ c \in Open /\ Len(queue[c]) < QueueSize
          /\ queue' = [queue EXCEPT ![c] = Append(@, Head(ready).item)]
          /\ UNCHANGED dropped
       \/ /\ c \in Open /\ Len(queue[c]) >= QueueSize
          /\ dropped' = [dropped EXCEPT ![c] = @ \cup {Head(ready).item}]
          /\ UNCHANGED queue
       \/ c \notin Open /\ UNCHANGED <<queue, dropped>>
    /\ ready' = Tail(ready)
    /\ UNCHANGED <<number, place, origin, publishing, known, client, hand, received, published>>

Connect(c) ==
    /\ client[c] = "new"
    /\ client' = [client EXCEPT ![c] = "open"]
    /\ UNCHANGED <<number, place, origin, publishing, known, ready, queue, hand, received, dropped, published>>

Take(c) ==
    /\ c \in Open /\ hand[c] = None /\ queue[c] # <<>>
    /\ hand' = [hand EXCEPT ![c] = Head(queue[c])]
    /\ queue' = [queue EXCEPT ![c] = Tail(@)]
    /\ UNCHANGED <<number, place, origin, publishing, known, ready, client, received, dropped, published>>

\* send_json returns; a slow client may keep it waiting for any time.
Sent(c) ==
    /\ c \in Open /\ hand[c] # None
    /\ received' = [received EXCEPT ![c] = Append(@, hand[c])]
    /\ hand' = [hand EXCEPT ![c] = None]
    /\ UNCHANGED <<number, place, origin, publishing, known, ready, client, queue, dropped, published>>

\* Any exception ends the coroutine and its queue is discarded with what it holds.
Disconnect(c) ==
    /\ c \in Open
    /\ client' = [client EXCEPT ![c] = "closed"]
    /\ queue' = [queue EXCEPT ![c] = <<>>]
    /\ hand' = [hand EXCEPT ![c] = None]
    /\ received' = [received EXCEPT ![c] = <<>>]
    /\ dropped' = [dropped EXCEPT ![c] = {}]
    /\ published' = [published EXCEPT ![c] = {}]
    /\ UNCHANGED <<number, place, origin, publishing, known, ready>>

-----------------------------------------------------------------------------
InThread(t) ==
    \/ \E a \in AlertIds : StoreHere(t, a)
    \/ Snapshot(t) \/ (\E c \in Clients : Schedule(t, c))

Socket(c) == Connect(c) \/ Take(c) \/ Sent(c) \/ Disconnect(c)

StreamNext ==
    \/ \E t \in Publishers : InThread(t)
    \/ \E a \in AlertIds : StoreElsewhere(a) \/ Watch(a)
    \/ Put
    \/ \E c \in Clients : Socket(c)

StreamSpec == StreamInit /\ [][StreamNext]_streamVars

\* The watcher wakes once a second and the loop runs what is scheduled.
StreamFairSpec == StreamSpec /\ WF_streamVars(\E a \in AlertIds : Watch(a)) /\ WF_streamVars(Put)

-----------------------------------------------------------------------------
StreamTypeOK ==
    /\ Recorded \subseteq AlertIds
    /\ number \in [Recorded -> Nat]
    /\ place \in [Recorded -> 1..Cardinality(Recorded)]
    /\ origin \in [Recorded -> Publishers \cup {Elsewhere}]
    /\ known \in Nat
    /\ \A i \in DOMAIN ready : ready[i].to \in Clients /\ ready[i].item \in Items
    /\ client \in [Clients -> {"new", "open", "closed"}]
    /\ \A c \in Clients :
           /\ Len(queue[c]) <= QueueSize
           /\ c \notin Open => queue[c] = <<>> /\ published[c] = {}

\* What the client got and will get if it reads on.
Got(c) == received[c] \o (IF hand[c] = None THEN <<>> ELSE <<hand[c]>>) \o queue[c]

\* With what is scheduled for it, in the order it will come; calls for the queues
\* of others leave gaps.
Line(c) ==
    LET got == Len(Got(c)) IN
    [n \in 1..got \cup {got + i : i \in {k \in DOMAIN ready : ready[k].to = c}} |->
        IF n <= got THEN Got(c)[n] ELSE ready[n - got].item]
InLine(c) == {Line(c)[n] : n \in DOMAIN Line(c)}
Held(c) == {<<publishing[t].alert, t>> : t \in {u \in Publishers : publishing[u] # None /\ c \in publishing[u].left}}

\* As long as a client is connected, every item published to it is in exactly
\* one place: received, on its way, or lost to a full queue; nothing vanishes
\* between the threads, the loop and the queue.
NothingVanishes ==
    \A c \in Open :
        /\ published[c] = InLine(c) \cup dropped[c] \cup Held(c)
        /\ \A m, n \in DOMAIN Line(c) : Line(c)[m] = Line(c)[n] => m = n
        /\ dropped[c] \cap InLine(c) = {}
        /\ Held(c) \cap (InLine(c) \cup dropped[c]) = {}

\* An item of a thread comes before those it stores later, an item of the
\* watcher before those with a higher number.
Sooner(x, y) ==
    IF x[2] = Watcher THEN number[x[1]] < number[y[1]] ELSE place[x[1]] < place[y[1]]

\* A client gets the alerts of a thread in the order they were stored, whatever
\* numbers they got, and those of the watcher by rising numbers, each once,
\* however threads and the watcher interleave: an alert comes at most twice, from
\* its thread and from the watcher.
InOrderBySource ==
    \A c \in Open : \A i, j \in DOMAIN Line(c) :
        i < j /\ Line(c)[i][2] = Line(c)[j][2] => Sooner(Line(c)[i], Line(c)[j])

\* An alert of another process reaches the queue of every client connected when
\* it is stored, unless the queue is full or the client leaves - provided the
\* watcher had seen an alert before and no stored alert is as recent.
ForeignAlertsArrive ==
    \A a \in AlertIds, c \in Clients :
        (/\ a \in Recorded /\ origin[a] = Elsewhere
         /\ known \in 1..(number[a] - 1)
         /\ \A b \in Recorded \ {a} : Time[b] < Time[a]
         /\ c \in Open)
        ~> (\/ <<a, Watcher>> \in InLine(c) \cup dropped[c]
            \/ \E b \in Recorded \ {a} : Time[b] >= Time[a]
            \/ c \notin Open)
=============================================================================
