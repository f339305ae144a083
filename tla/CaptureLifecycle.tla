--------------------------- MODULE CaptureLifecycle ---------------------------
(***************************************************************************)
(* One LiveNetworkCapture object: the threads that call start and stop     *)
(* (FastAPI runs those endpoints in a thread pool, unsynchronised), the    *)
(* sniffer thread that puts packets into a bounded queue, and the worker   *)
(* thread that takes them out and hands them to the pipeline.              *)
(*                                                                         *)
(* Sniffers and workers are numbered in the order start creates them:      *)
(* _capture_thread and _worker_thread are the last ones.  All of them      *)
(* share the queue and the stop event.  A packet is the number under which *)
(* record_packet, which takes a lock, counted it.                          *)
(***************************************************************************)
EXTENDS Naturals, Sequences, FiniteSets

CONSTANTS
    Controllers,  \* threads that call start and stop
    QueueSize,    \* queue_maxsize
    SniffEnds,    \* how sniff may end by itself: it raises, or it returns
    MaxPackets,   \* bound on the packets seen on the interface
    MaxThreads    \* bound on the sniffers and on the workers created

ASSUME CaptureAssumption ==
    /\ QueueSize \in Nat \ {0}
    /\ SniffEnds \subseteq {"raises", "returns"}
    /\ MaxPackets \in Nat
    /\ MaxThreads \in Nat

Ids == 1..MaxThreads
Packets == 1..MaxPackets

VARIABLES
    stopEvent,  \* stop_event
    status,     \* stats.status
    sniffers,   \* number of sniffer threads created; _capture_thread is the last
    workers,    \* number of worker threads created; _worker_thread is the last
    sniffer,    \* state of each sniffer thread
    worker,     \* state of each worker thread
    hand,       \* the packet a sniffer that is "putting" holds
    desk,       \* the packet a worker that is "processing" holds
    queue,      \* packet_queue
    received,   \* stats.total_packets_received
    dropped,    \* packets counted by record_drop
    processed,  \* packets counted in total_packets_processed
    failed,     \* packets whose decoding or ingestion raised
    caller      \* where each controller is in start or stop

threads == <<sniffers, workers, sniffer, worker, hand, desk>>
packets == <<queue, received, dropped, processed, failed>>
vars == <<stopEvent, status, threads, packets, caller>>

NoPacket == 0

Init ==
    /\ stopEvent = FALSE
    /\ status = "STOPPED"
    /\ sniffers = 0
    /\ workers = 0
    /\ sniffer = [n \in Ids |-> "none"]
    /\ worker = [n \in Ids |-> "none"]
    /\ hand = [n \in Ids |-> NoPacket]
    /\ desk = [n \in Ids |-> NoPacket]
    /\ queue = <<>>
    /\ received = 0
    /\ dropped = {}
    /\ processed = {}
    /\ failed = {}
    /\ caller = [c \in Controllers |-> "idle"]

-----------------------------------------------------------------------------
(* start and stop.                                                         *)

SnifferAlive(n) == sniffer[n] \in {"sniffing", "putting", "filtering"}
WorkerAlive(n) == worker[n] \in {"check", "getting", "processing"}

\* What start asks: is the thread in _capture_thread alive?
CaptureAlive == \E n \in Ids : n = sniffers /\ SnifferAlive(n)

At(c, from, to) ==
    /\ caller[c] = from
    /\ caller' = [caller EXCEPT ![c] = to]

\* The last sniffer is still alive: start answers True and does nothing.
StartRefused(c) ==
    /\ At(c, "idle", "idle")
    /\ CaptureAlive
    /\ UNCHANGED <<stopEvent, status, threads, packets>>

\* Starts that will create a worker: the bound is kept where a start goes on, so
\* that none is stuck by it later.
Starting == {c \in Controllers : caller[c] \in {"clear", "declare", "newWorker"}}

\* Otherwise start goes on, though another call may start a sniffer meanwhile;
\* it clears the stop event ...
StartGoesOn(c) ==
    /\ At(c, "idle", "clear")
    /\ ~CaptureAlive
    /\ workers + Cardinality(Starting) < MaxThreads
    /\ UNCHANGED <<stopEvent, status, threads, packets>>

StartClear(c) ==
    /\ At(c, "clear", "declare")
    /\ stopEvent' = FALSE
    /\ UNCHANGED <<status, threads, packets>>

\* ... declares itself running ...
StartDeclare(c) ==
    /\ At(c, "declare", "newWorker")
    /\ status' = "RUNNING"
    /\ UNCHANGED <<stopEvent, threads, packets>>

\* ... creates a worker and a sniffer, and starts whichever thread the
\* attribute now names.
NewWorker(c) ==
    /\ At(c, "newWorker", "runWorker")
    /\ workers < MaxThreads
    /\ workers' = workers + 1
    /\ worker' = [worker EXCEPT ![workers + 1] = "new"]
    /\ UNCHANGED <<stopEvent, status, sniffers, sniffer, hand, desk, packets>>

RunWorker(c) ==
    /\ At(c, "runWorker", "newSniffer")
    /\ worker[workers] = "new"
    /\ worker' = [worker EXCEPT ![workers] = "check"]
    /\ UNCHANGED <<stopEvent, status, sniffers, workers, sniffer, hand, desk, packets>>

NewSniffer(c) ==
    /\ At(c, "newSniffer", "runSniffer")
    /\ sniffers < MaxThreads
    /\ sniffers' = sniffers + 1
    /\ sniffer' = [sniffer EXCEPT ![sniffers + 1] = "new"]
    /\ UNCHANGED <<stopEvent, status, workers, worker, hand, desk, packets>>

RunSniffer(c) ==
    /\ At(c, "runSniffer", "idle")
    /\ sniffer[sniffers] = "new"
    /\ sniffer' = [sniffer EXCEPT ![sniffers] = "sniffing"]
    /\ UNCHANGED <<stopEvent, status, sniffers, workers, worker, hand, desk, packets>>

\* Another call started that thread first: Thread.start raises.
StartRaises(c) ==
    /\ \/ caller[c] = "runWorker" /\ worker[workers] # "new"
       \/ caller[c] = "runSniffer" /\ sniffer[sniffers] # "new"
    /\ At(c, caller[c], "idle")
    /\ UNCHANGED <<stopEvent, status, threads, packets>>

StopSet(c) ==
    /\ At(c, "idle", "stopping")
    /\ stopEvent' = TRUE
    /\ UNCHANGED <<status, threads, packets>>

StopDeclare(c) ==
    /\ At(c, "stopping", "joinSniffer")
    /\ status' = "STOPPED"
    /\ UNCHANGED <<stopEvent, threads, packets>>

\* stop waits up to one second for the sniffer: the wait runs out when the
\* sniffer sees no packet ...
JoinSniffer(c) ==
    /\ At(c, "joinSniffer", "joinWorker")
    /\ \A n \in Ids : n = sniffers => sniffer[n] \notin {"putting", "filtering"}
    /\ UNCHANGED <<stopEvent, status, threads, packets>>

\* ... and up to one second for the worker: that wait runs out when the
\* worker is busy in the pipeline, or has been told to go on.
JoinWorker(c) ==
    /\ At(c, "joinWorker", "idle")
    /\ \A n \in Ids : n = workers => ~stopEvent \/ worker[n] \notin {"check", "getting"}
    /\ UNCHANGED <<stopEvent, status, threads, packets>>

-----------------------------------------------------------------------------
(* The sniffer thread: _capture_loop.                                      *)

SnifferGoto(n, from, to) ==
    /\ sniffer[n] = from
    /\ sniffer' = [sniffer EXCEPT ![n] = to]

\* packet_handler counts a packet ...
PacketSeen(n) ==
    /\ ~stopEvent
    /\ received < MaxPackets
    /\ SnifferGoto(n, "sniffing", "putting")
    /\ received' = received + 1
    /\ hand' = [hand EXCEPT ![n] = received + 1]
    /\ UNCHANGED <<stopEvent, status, sniffers, workers, worker, desk, queue, dropped,
                   processed, failed, caller>>

\* Mutant of PacketPut: a full queue still takes one packet.
PacketPutFull(n) ==
    /\ SnifferGoto(n, "putting", "filtering")
    /\ hand' = [hand EXCEPT ![n] = NoPacket]
    /\ \/ /\ Len(queue) <= QueueSize
          /\ queue' = Append(queue, hand[n])
          /\ UNCHANGED dropped
       \/ /\ Len(queue) > QueueSize
          /\ dropped' = dropped \union {hand[n]}
          /\ UNCHANGED queue
    /\ UNCHANGED <<stopEvent, status, sniffers, workers, worker, desk, received, processed,
                   failed, caller>>

\* ... and puts it into the queue or counts a drop.
PacketPut(n) ==
    /\ SnifferGoto(n, "putting", "filtering")
    /\ hand' = [hand EXCEPT ![n] = NoPacket]
    /\ \/ /\ Len(queue) < QueueSize
          /\ queue' = Append(queue, hand[n])
          /\ UNCHANGED dropped
       \/ /\ Len(queue) = QueueSize
          /\ dropped' = dropped \union {hand[n]}
          /\ UNCHANGED queue
    /\ UNCHANGED <<stopEvent, status, sniffers, workers, worker, desk, received, processed,
                   failed, caller>>

\* A packet that comes after the stop event is set is not counted.
PacketIgnored(n) ==
    /\ stopEvent
    /\ SnifferGoto(n, "sniffing", "filtering")
    /\ UNCHANGED <<stopEvent, status, sniffers, workers, worker, hand, desk, packets, caller>>

\* After each packet sniff asks stop_filter whether to go on.
AskFilter(n) ==
    /\ SnifferGoto(n, "filtering", IF stopEvent THEN "done" ELSE "sniffing")
    /\ UNCHANGED <<stopEvent, status, sniffers, workers, worker, hand, desk, packets, caller>>

\* sniff raises (no permission, no such interface): the status says so.
SniffRaises(n) ==
    /\ "raises" \in SniffEnds
    /\ SnifferGoto(n, "sniffing", "done")
    /\ status' = "ERROR"
    /\ UNCHANGED <<stopEvent, sniffers, workers, worker, hand, desk, packets, caller>>

\* sniff returns because its socket was closed: nothing is recorded.
SniffReturns(n) ==
    /\ "returns" \in SniffEnds
    /\ SnifferGoto(n, "sniffing", "done")
    /\ UNCHANGED <<stopEvent, status, sniffers, workers, worker, hand, desk, packets, caller>>

-----------------------------------------------------------------------------
(* The worker thread: _process_queue_loop.                                 *)

WorkerGoto(n, from, to) ==
    /\ worker[n] = from
    /\ worker' = [worker EXCEPT ![n] = to]

WorkerCheck(n) ==
    /\ WorkerGoto(n, "check", IF stopEvent THEN "done" ELSE "getting")
    /\ UNCHANGED <<stopEvent, status, sniffers, workers, sniffer, hand, desk, packets, caller>>

\* Mutant of WorkerGet: the worker reads the oldest packet and leaves it.
WorkerPeeks(n) ==
    /\ queue # <<>>
    /\ WorkerGoto(n, "getting", "processing")
    /\ desk' = [desk EXCEPT ![n] = Head(queue)]
    /\ UNCHANGED <<stopEvent, status, sniffers, workers, sniffer, hand, packets, caller>>

WorkerGet(n) ==
    /\ queue # <<>>
    /\ WorkerGoto(n, "getting", "processing")
    /\ desk' = [desk EXCEPT ![n] = Head(queue)]
    /\ queue' = Tail(queue)
    /\ UNCHANGED <<stopEvent, status, sniffers, workers, sniffer, hand, received, dropped,
                   processed, failed, caller>>

\* Mutant of WorkerTimeout: get without a timeout waits for a packet.
WorkerWaits(n) ==
    /\ queue # <<>>
    /\ WorkerGoto(n, "getting", "check")
    /\ UNCHANGED <<stopEvent, status, sniffers, workers, sniffer, hand, desk, packets, caller>>

\* Mutant of WorkerTimeout: the loop ends at the first empty queue.
WorkerGivesUp(n) ==
    /\ queue = <<>>
    /\ WorkerGoto(n, "getting", "done")
    /\ UNCHANGED <<stopEvent, status, sniffers, workers, sniffer, hand, desk, packets, caller>>

\* get(timeout=0.2) finds nothing.
WorkerTimeout(n) ==
    /\ queue = <<>>
    /\ WorkerGoto(n, "getting", "check")
    /\ UNCHANGED <<stopEvent, status, sniffers, workers, sniffer, hand, desk, packets, caller>>

WorkerProcesses(n) ==
    /\ WorkerGoto(n, "processing", "check")
    /\ processed' = processed \union {desk[n]}
    /\ desk' = [desk EXCEPT ![n] = NoPacket]
    /\ UNCHANGED <<stopEvent, status, sniffers, workers, sniffer, hand, queue, received,
                   dropped, failed, caller>>

\* Decoding or ingestion raises; the exception is swallowed.
WorkerFails(n) ==
    /\ WorkerGoto(n, "processing", "check")
    /\ failed' = failed \union {desk[n]}
    /\ desk' = [desk EXCEPT ![n] = NoPacket]
    /\ UNCHANGED <<stopEvent, status, sniffers, workers, sniffer, hand, queue, received,
                   dropped, processed, caller>>

-----------------------------------------------------------------------------
\* A call in progress.
InCall(c) ==
    \/ StartClear(c) \/ StartDeclare(c) \/ NewWorker(c) \/ RunWorker(c)
    \/ NewSniffer(c) \/ RunSniffer(c) \/ StartRaises(c) \/ StopDeclare(c) \/ JoinSniffer(c) \/ JoinWorker(c)

WorkerStep(n) ==
    \/ WorkerCheck(n) \/ WorkerGet(n) \/ WorkerTimeout(n)
    \/ WorkerProcesses(n) \/ WorkerFails(n)

SnifferStep(n) ==
    \/ PacketSeen(n) \/ PacketPut(n) \/ PacketIgnored(n) \/ AskFilter(n)
    \/ SniffRaises(n) \/ SniffReturns(n)

Next ==
    \/ \E c \in Controllers :
          StartRefused(c) \/ StartGoesOn(c) \/ StopSet(c) \/ InCall(c)
    \/ \E n \in Ids : SnifferStep(n) \/ WorkerStep(n)

Spec == Init /\ [][Next]_vars

\* The scheduler runs the workers and the calls in progress; no packet need
\* ever arrive, nobody need ever call, and a sniffer may hang.
FairSpec ==
    /\ Spec
    /\ \A n \in Ids : WF_vars(WorkerStep(n))
    /\ \A c \in Controllers : WF_vars(InCall(c))

-----------------------------------------------------------------------------
(* Properties.                                                             *)

TypeOK ==
    /\ stopEvent \in BOOLEAN
    /\ status \in {"STOPPED", "RUNNING", "ERROR"}
    /\ sniffers \in 0..MaxThreads
    /\ workers \in 0..MaxThreads
    /\ sniffer \in [Ids -> {"none", "new", "sniffing", "putting", "filtering", "done"}]
    /\ worker \in [Ids -> {"none", "new", "check", "getting", "processing", "done"}]
    /\ hand \in [Ids -> Packets \union {NoPacket}]
    /\ desk \in [Ids -> Packets \union {NoPacket}]
    /\ \A n \in Ids : /\ sniffer[n] = "putting" => hand[n] \in Packets
                      /\ worker[n] = "processing" => desk[n] \in Packets
    /\ queue \in Seq(Packets) /\ Len(queue) <= QueueSize
    /\ received \in 0..MaxPackets
    /\ dropped \subseteq Packets
    /\ processed \subseteq Packets
    /\ failed \subseteq Packets
    /\ caller \in [Controllers -> {"idle", "clear", "declare", "newWorker", "runWorker",
                                   "newSniffer", "runSniffer", "stopping", "joinSniffer", "joinWorker"}]

Queued == {queue[i] : i \in DOMAIN queue}
InHand == {hand[n] : n \in {m \in Ids : sniffer[m] = "putting"}}
OnDesk == {desk[n] : n \in {m \in Ids : worker[m] = "processing"}}

\* Every packet counted as received is in exactly one place: in a sniffer's
\* hand, dropped, queued once, on a worker's desk, processed, or failed.
\* Stops, restarts and several pairs at once lose none and repeat none.
EachPacketOnce ==
    LET places == <<InHand, dropped, Queued, OnDesk, processed, failed>>
    IN  /\ UNION {places[i] : i \in DOMAIN places} = 1..received
        /\ \A i, j \in DOMAIN places : i # j => places[i] \intersect places[j] = {}
        /\ \A i, j \in DOMAIN queue : i # j => queue[i] # queue[j]
        /\ \A m, n \in Ids : m # n /\ worker[m] = "processing" /\ worker[n] = "processing"
                                  => desk[m] # desk[n]

\* A stop that is not revoked ends every worker thread, whether or not
\* packets arrive.
StopEndsWorkers ==
    \A n \in Ids : (stopEvent /\ WorkerAlive(n)) ~> (~stopEvent \/ worker[n] = "done")

\* A queued packet is taken out, or the capture is told to stop.
QueueDrains == \A p \in Packets : p \in Queued ~> (p \notin Queued \/ stopEvent)

\* start called now, with no call in progress, either makes a new pair of
\* threads or rightly answers that packets are being captured: the sniffer
\* it finds alive has not been told to stop.
RefusalMeansCapturing ==
    (\A c \in Controllers : caller[c] = "idle") /\ CaptureAlive => ~stopEvent

=============================================================================
