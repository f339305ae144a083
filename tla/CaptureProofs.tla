---------------------------- MODULE CaptureProofs ----------------------------
(***************************************************************************)
(* What TLAPS proves of CaptureLifecycle: for every number of controllers, *)
(* every queue size and every number of threads and packets, types are     *)
(* kept and no counted packet is lost or handed out twice.                 *)
(***************************************************************************)
EXTENDS CaptureLifecycle, TLAPS

USE CaptureAssumption

-----------------------------------------------------------------------------
\* Type correctness; in particular the queue never exceeds its size, with
\* any number of sniffers putting into it.
THEOREM TypeCorrect == Spec => []TypeOK
<1>1. Init => TypeOK
  <2> SUFFICES ASSUME Init PROVE TypeOK
    OBVIOUS
  <2>1. queue \in Seq(Packets) /\ Len(queue) <= QueueSize
    BY DEF Init
  <2>2. received \in 0..MaxPackets /\ sniffers \in 0..MaxThreads /\ workers \in 0..MaxThreads
    BY DEF Init
  <2> QED
    BY <2>1, <2>2 DEF Init, TypeOK
<1>2. TypeOK /\ [Next]_vars => TypeOK'
  <2> SUFFICES ASSUME TypeOK, [Next]_vars
               PROVE  TypeOK'
    OBVIOUS
  <2>1. ASSUME NEW c \in Controllers,
               \/ StartRefused(c) \/ StartGoesOn(c) \/ StartClear(c)
               \/ StartDeclare(c) \/ StartRaises(c)
        PROVE  TypeOK'
    BY <2>1 DEF StartRefused, StartGoesOn, StartClear, StartDeclare, StartRaises, At, TypeOK, threads, packets
  <2>2. ASSUME NEW c \in Controllers, NewWorker(c) \/ RunWorker(c)
        PROVE  TypeOK'
    <3>1. CASE NewWorker(c)
      <4>1. workers' \in 0..MaxThreads
        BY <3>1 DEF NewWorker, TypeOK
      <4> QED
        BY <3>1, <4>1 DEF NewWorker, At, TypeOK, packets
    <3>2. CASE RunWorker(c)
      BY <3>2 DEF RunWorker, At, TypeOK, packets
    <3> QED
      BY <2>2, <3>1, <3>2
  <2>3. ASSUME NEW c \in Controllers, NewSniffer(c) \/ RunSniffer(c)
        PROVE  TypeOK'
    <3>1. CASE NewSniffer(c)
      <4>1. sniffers' \in 0..MaxThreads
        BY <3>1 DEF NewSniffer, TypeOK
      <4> QED
        BY <3>1, <4>1 DEF NewSniffer, At, TypeOK, packets
    <3>2. CASE RunSniffer(c)
      BY <3>2 DEF RunSniffer, At, TypeOK, packets
    <3> QED
      BY <2>3, <3>1, <3>2
  <2>4. ASSUME NEW c \in Controllers,
               StopSet(c) \/ StopDeclare(c) \/ JoinSniffer(c) \/ JoinWorker(c)
        PROVE  TypeOK'
    BY <2>4 DEF StopSet, StopDeclare, JoinSniffer, JoinWorker, At, TypeOK, threads, packets
  <2>5. ASSUME NEW n \in Ids, PacketSeen(n)
        PROVE  TypeOK'
    BY <2>5 DEF PacketSeen, SnifferGoto, TypeOK, Packets
  <2>6. ASSUME NEW n \in Ids, PacketPut(n)
        PROVE  TypeOK'
    <3>1. hand[n] \in Packets
      BY <2>6 DEF PacketPut, SnifferGoto, TypeOK
    <3>2. queue' \in Seq(Packets) /\ Len(queue') <= QueueSize /\ dropped' \subseteq Packets
      <4>1. queue \in Seq(Packets) /\ Len(queue) \in Nat /\ dropped \subseteq Packets
        BY DEF TypeOK
      <4>2. CASE Len(queue) < QueueSize /\ queue' = Append(queue, hand[n]) /\ UNCHANGED dropped
        BY <3>1, <4>1, <4>2
      <4>3. CASE dropped' = dropped \union {hand[n]} /\ UNCHANGED queue
        BY <3>1, <4>1, <4>3 DEF TypeOK
      <4> QED
        BY <2>6, <4>2, <4>3 DEF PacketPut
    <3>3. hand' = [hand EXCEPT ![n] = NoPacket] /\ sniffer' = [sniffer EXCEPT ![n] = "filtering"]
      BY <2>6 DEF PacketPut, SnifferGoto
    <3> QED
      BY <2>6, <3>2, <3>3 DEF PacketPut, TypeOK
  <2>7. ASSUME NEW n \in Ids,
               PacketIgnored(n) \/ AskFilter(n) \/ SniffRaises(n) \/ SniffReturns(n)
        PROVE  TypeOK'
    BY <2>7 DEF PacketIgnored, AskFilter, SniffRaises, SniffReturns, SnifferGoto, TypeOK, packets
  <2>8. ASSUME NEW n \in Ids, WorkerCheck(n) \/ WorkerTimeout(n)
        PROVE  TypeOK'
    BY <2>8 DEF WorkerCheck, WorkerTimeout, WorkerGoto, TypeOK, packets
  <2>9. ASSUME NEW n \in Ids, WorkerGet(n)
        PROVE  TypeOK'
    BY <2>9 DEF WorkerGet, WorkerGoto, TypeOK
  <2>10. ASSUME NEW n \in Ids, WorkerProcesses(n) \/ WorkerFails(n)
         PROVE  TypeOK'
    BY <2>10 DEF WorkerProcesses, WorkerFails, WorkerGoto, TypeOK, NoPacket
  <2>11. CASE UNCHANGED vars
    BY <2>11 DEF vars, threads, packets, TypeOK
  <2> QED
    BY <2>1, <2>2, <2>3, <2>4, <2>5, <2>6, <2>7, <2>8, <2>9, <2>10, <2>11
    DEF Next, InCall, SnifferStep, WorkerStep
<1> QED
  BY <1>1, <1>2, PTL DEF Spec

-----------------------------------------------------------------------------
(* Every counted packet is in exactly one place.                           *)

\* Threads that were not created yet hold nothing, so creating one forgets
\* nothing.
Uncreated ==
    \A n \in Ids : /\ n > sniffers => sniffer[n] = "none"
                   /\ n > workers => worker[n] = "none"

\* Two sniffers never hold the same packet, nor do two workers, and the
\* queue does not repeat one.
HoldersDiffer ==
    /\ \A m, n \in Ids : m # n /\ sniffer[m] = "putting" /\ sniffer[n] = "putting"
                            => hand[m] # hand[n]
    /\ \A m, n \in Ids : m # n /\ worker[m] = "processing" /\ worker[n] = "processing"
                            => desk[m] # desk[n]
    /\ \A i, j \in DOMAIN queue : i # j => queue[i] # queue[j]

\* The places cover what was counted, and exclude each other.
Partition(inHand, out, queued, onDesk, done, broken, count) ==
    /\ \A p : p \in 1..count <=> \/ p \in inHand \/ p \in out \/ p \in queued
                                 \/ p \in onDesk \/ p \in done \/ p \in broken
    /\ \A p \in inHand : p \notin out /\ p \notin queued /\ p \notin onDesk
                                      /\ p \notin done /\ p \notin broken
    /\ \A p \in out : p \notin queued /\ p \notin onDesk /\ p \notin done /\ p \notin broken
    /\ \A p \in queued : p \notin onDesk /\ p \notin done /\ p \notin broken
    /\ \A p \in onDesk : p \notin done /\ p \notin broken
    /\ \A p \in done : p \notin broken

Placed == Partition(InHand, dropped, Queued, OnDesk, processed, failed, received)

PacketInv == Uncreated /\ HoldersDiffer /\ Placed

\* What the packet actions do to the places.
LEMMA SeenMoves ==
    ASSUME TypeOK, NEW n \in Ids, PacketSeen(n)
    PROVE  InHand' = InHand \union {received + 1}
BY DEF TypeOK, PacketSeen, SnifferGoto, InHand

LEMMA PutMoves ==
    ASSUME TypeOK, PacketInv, NEW n \in Ids, PacketPut(n)
    PROVE  /\ hand[n] \in InHand
           /\ InHand' = InHand \ {hand[n]}
           /\ \/ Queued' = Queued \union {hand[n]} /\ dropped' = dropped
              \/ Queued' = Queued /\ dropped' = dropped \union {hand[n]}
           /\ \A i, j \in DOMAIN queue' : i # j => queue'[i] # queue'[j]
<1>1. sniffer[n] = "putting" /\ hand[n] \in InHand
  BY DEF PacketPut, SnifferGoto, InHand
<1>2. InHand' = InHand \ {hand[n]}
  BY DEF TypeOK, PacketPut, SnifferGoto, PacketInv, HoldersDiffer, InHand
<1>3. hand[n] \notin Queued
  BY <1>1 DEF PacketInv, Placed, Partition
<1>4. CASE queue' = Append(queue, hand[n]) /\ dropped' = dropped
  <2>1. queue \in Seq(Packets) /\ hand[n] \in Packets
    BY <1>1 DEF TypeOK
  <2>2. /\ DOMAIN queue = 1..Len(queue) /\ DOMAIN queue' = 1..(Len(queue) + 1)
        /\ Len(queue) \in Nat
        /\ \A i \in 1..Len(queue) : queue'[i] = queue[i]
        /\ queue'[Len(queue) + 1] = hand[n]
    BY <1>4, <2>1
  <2>3. Queued' = Queued \union {hand[n]}
    BY <2>2 DEF Queued
  <2>4. \A i, j \in DOMAIN queue' : i # j => queue'[i] # queue'[j]
    BY <1>3, <2>2 DEF Queued, PacketInv, HoldersDiffer
  <2> QED
    BY <1>1, <1>2, <1>4, <2>3, <2>4
<1>5. CASE queue' = queue /\ dropped' = dropped \union {hand[n]}
  BY <1>1, <1>2, <1>5 DEF Queued, PacketInv, HoldersDiffer
<1> QED
  BY <1>4, <1>5 DEF PacketPut

LEMMA GetMoves ==
    ASSUME TypeOK, PacketInv, NEW n \in Ids, WorkerGet(n)
    PROVE  /\ Head(queue) \in Queued
           /\ Queued' = Queued \ {Head(queue)}
           /\ OnDesk' = OnDesk \union {Head(queue)}
           /\ \A i, j \in DOMAIN queue' : i # j => queue'[i] # queue'[j]
<1>1. queue \in Seq(Packets) /\ queue # <<>> /\ queue' = Tail(queue)
  BY DEF TypeOK, WorkerGet
<1>2. /\ Len(queue) \in Nat \ {0} /\ DOMAIN queue = 1..Len(queue)
      /\ Head(queue) = queue[1]
      /\ DOMAIN queue' = 1..(Len(queue) - 1)
      /\ \A i \in 1..(Len(queue) - 1) : queue'[i] = queue[i + 1]
  BY <1>1
<1>3. \A i, j \in DOMAIN queue : i # j => queue[i] # queue[j]
  BY DEF PacketInv, HoldersDiffer
<1>4. \A i, j \in DOMAIN queue' : i # j => queue'[i] # queue'[j]
  BY <1>2, <1>3
<1>5. Queued' = Queued \ {Head(queue)}
  <2>1. \A i \in DOMAIN queue' : i + 1 \in DOMAIN queue /\ queue'[i] = queue[i + 1]
                                   /\ queue'[i] # queue[1]
    BY <1>2, <1>3
  <2>2. \A i \in DOMAIN queue : i # 1 => i - 1 \in DOMAIN queue' /\ queue'[i - 1] = queue[i]
    BY <1>2
  <2> QED
    BY <1>2, <2>1, <2>2 DEF Queued
<1>6. OnDesk' = OnDesk \union {Head(queue)}
  BY DEF TypeOK, WorkerGet, WorkerGoto, OnDesk
<1> QED
  BY <1>2, <1>4, <1>5, <1>6 DEF Queued

LEMMA DoneMoves ==
    ASSUME TypeOK, PacketInv, NEW n \in Ids, WorkerProcesses(n) \/ WorkerFails(n)
    PROVE  /\ desk[n] \in OnDesk
           /\ OnDesk' = OnDesk \ {desk[n]}
<1>1. /\ worker[n] = "processing" /\ worker' = [worker EXCEPT ![n] = "check"]
      /\ desk' = [desk EXCEPT ![n] = NoPacket]
  BY DEF WorkerProcesses, WorkerFails, WorkerGoto
<1> QED
  BY <1>1 DEF TypeOK, PacketInv, HoldersDiffer, OnDesk

\* A step in which no thread takes or gives a packet.
Handless ==
    /\ UNCHANGED <<queue, received, dropped, processed, failed, hand, desk>>
    /\ \A n \in Ids : /\ sniffer'[n] = "putting" <=> sniffer[n] = "putting"
                      /\ worker'[n] = "processing" <=> worker[n] = "processing"

LEMMA HandlessKeeps ==
    ASSUME PacketInv, Handless, Uncreated'
    PROVE  PacketInv'
<1>1. InHand' = InHand /\ OnDesk' = OnDesk /\ Queued' = Queued
  BY DEF Handless, InHand, OnDesk, Queued
<1>2. HoldersDiffer'
  BY DEF Handless, PacketInv, HoldersDiffer
<1> QED
  BY <1>1, <1>2 DEF Handless, PacketInv, Placed, Partition

\* The strengthening holds of every behaviour.
LEMMA PacketInvHolds == Spec => []PacketInv
<1>1. Init => PacketInv
  <2> SUFFICES ASSUME Init PROVE PacketInv
    OBVIOUS
  <2>1. InHand = {} /\ OnDesk = {} /\ Queued = {} /\ 1..received = {}
    BY DEF Init, InHand, OnDesk, Queued
  <2>2. Placed
    BY <2>1 DEF Init, Placed, Partition
  <2> QED
    BY <2>2 DEF Init, PacketInv, Uncreated, HoldersDiffer
<1>2. TypeOK /\ PacketInv /\ [Next]_vars => PacketInv'
  <2> SUFFICES ASSUME TypeOK, PacketInv, [Next]_vars
               PROVE  PacketInv'
    OBVIOUS
  <2>1. ASSUME NEW c \in Controllers,
               \/ StartRefused(c) \/ StartGoesOn(c) \/ StartClear(c)
               \/ StartDeclare(c) \/ StartRaises(c)
               \/ StopSet(c) \/ StopDeclare(c) \/ JoinSniffer(c) \/ JoinWorker(c)
        PROVE  PacketInv'
    <3>1. UNCHANGED <<threads, packets>>
      BY <2>1 DEF StartRefused, StartGoesOn, StartClear, StartDeclare, StartRaises,
                  StopSet, StopDeclare, JoinSniffer, JoinWorker
    <3>2. Handless /\ Uncreated'
      BY <3>1 DEF threads, packets, Handless, PacketInv, Uncreated
    <3> QED
      BY <3>2, HandlessKeeps
  <2>2. ASSUME NEW c \in Controllers, NewWorker(c)
        PROVE  PacketInv'
    <3>1. workers + 1 \in Ids /\ workers + 1 > workers /\ workers \in Nat
      BY <2>2 DEF NewWorker, TypeOK, Ids
    <3>2. worker[workers + 1] = "none"
      BY <3>1 DEF PacketInv, Uncreated
    <3>3. Handless
      BY <2>2, <3>2 DEF NewWorker, packets, Handless, TypeOK
    <3>4. Uncreated'
      BY <2>2, <3>1 DEF NewWorker, packets, PacketInv, Uncreated, TypeOK, Ids
    <3> QED
      BY <3>3, <3>4, HandlessKeeps
  <2>3. ASSUME NEW c \in Controllers, NewSniffer(c)
        PROVE  PacketInv'
    <3>1. sniffers + 1 \in Ids /\ sniffers + 1 > sniffers /\ sniffers \in Nat
      BY <2>3 DEF NewSniffer, TypeOK, Ids
    <3>2. sniffer[sniffers + 1] = "none"
      BY <3>1 DEF PacketInv, Uncreated
    <3>3. Handless
      BY <2>3, <3>2 DEF NewSniffer, packets, Handless, TypeOK
    <3>4. Uncreated'
      BY <2>3, <3>1 DEF NewSniffer, packets, PacketInv, Uncreated, TypeOK, Ids
    <3> QED
      BY <3>3, <3>4, HandlessKeeps
  <2>4. ASSUME NEW c \in Controllers, RunWorker(c) \/ RunSniffer(c)
        PROVE  PacketInv'
    <3>1. Handless
      BY <2>4 DEF RunWorker, RunSniffer, packets, Handless, TypeOK
    <3>2. Uncreated'
      BY <2>4 DEF RunWorker, RunSniffer, packets, PacketInv, Uncreated, TypeOK
    <3> QED
      BY <3>1, <3>2, HandlessKeeps
  <2>5. ASSUME NEW n \in Ids,
               PacketIgnored(n) \/ AskFilter(n) \/ SniffRaises(n) \/ SniffReturns(n)
        PROVE  PacketInv'
    <3>1. Handless
      BY <2>5 DEF PacketIgnored, AskFilter, SniffRaises, SniffReturns, SnifferGoto,
                  packets, Handless, TypeOK
    <3>2. Uncreated'
      BY <2>5 DEF PacketIgnored, AskFilter, SniffRaises, SniffReturns, SnifferGoto,
                  PacketInv, Uncreated, TypeOK
    <3> QED
      BY <3>1, <3>2, HandlessKeeps
  <2>6. ASSUME NEW n \in Ids, WorkerCheck(n) \/ WorkerTimeout(n)
        PROVE  PacketInv'
    <3>1. Handless
      BY <2>6 DEF WorkerCheck, WorkerTimeout, WorkerGoto, packets, Handless, TypeOK
    <3>2. Uncreated'
      BY <2>6 DEF WorkerCheck, WorkerTimeout, WorkerGoto, PacketInv, Uncreated, TypeOK
    <3> QED
      BY <3>1, <3>2, HandlessKeeps
  <2>7. ASSUME NEW n \in Ids, PacketSeen(n)
        PROVE  PacketInv'
    <3>1. Uncreated'
      BY <2>7 DEF PacketSeen, SnifferGoto, PacketInv, Uncreated, TypeOK
    <3>2. received \in Nat /\ received' = received + 1
      BY <2>7 DEF PacketSeen, TypeOK
    <3>3. \A m \in Ids : sniffer[m] = "putting" => hand[m] \in 1..received
      BY DEF PacketInv, Placed, Partition, InHand
    <3>4. HoldersDiffer'
      BY <2>7, <3>2, <3>3 DEF PacketSeen, SnifferGoto, PacketInv, HoldersDiffer, TypeOK
    <3>5. Queued' = Queued /\ OnDesk' = OnDesk
      BY <2>7 DEF PacketSeen, Queued, OnDesk
    <3>6. InHand' = InHand \union {received + 1}
      BY <2>7, SeenMoves
    <3>7. (\A p : p \in 1..received' <=> p \in 1..received \/ p = received + 1)
            /\ received + 1 \notin 1..received
      BY <3>2
    <3>8. Placed'
      BY <2>7, <3>5, <3>6, <3>7 DEF PacketSeen, PacketInv, Placed, Partition
    <3> QED
      BY <3>1, <3>4, <3>8 DEF PacketInv
  <2>8. ASSUME NEW n \in Ids, PacketPut(n)
        PROVE  PacketInv'
    <3>1. Uncreated'
      BY <2>8 DEF PacketPut, SnifferGoto, PacketInv, Uncreated, TypeOK
    <3>2. /\ hand[n] \in InHand /\ InHand' = InHand \ {hand[n]}
          /\ \/ Queued' = Queued \union {hand[n]} /\ dropped' = dropped
             \/ Queued' = Queued /\ dropped' = dropped \union {hand[n]}
          /\ \A i, j \in DOMAIN queue' : i # j => queue'[i] # queue'[j]
      BY <2>8, PutMoves
    <3>3. HoldersDiffer'
      BY <2>8, <3>2 DEF PacketPut, SnifferGoto, PacketInv, HoldersDiffer, TypeOK
    <3>4. OnDesk' = OnDesk
      BY <2>8 DEF PacketPut, OnDesk
    <3>5. Placed'
      BY <2>8, <3>2, <3>4 DEF PacketPut, PacketInv, Placed, Partition
    <3> QED
      BY <3>1, <3>3, <3>5 DEF PacketInv
  <2>9. ASSUME NEW n \in Ids, WorkerGet(n)
        PROVE  PacketInv'
    <3>1. Uncreated'
      BY <2>9 DEF WorkerGet, WorkerGoto, PacketInv, Uncreated, TypeOK
    <3>2. /\ Head(queue) \in Queued /\ Queued' = Queued \ {Head(queue)}
          /\ OnDesk' = OnDesk \union {Head(queue)}
          /\ \A i, j \in DOMAIN queue' : i # j => queue'[i] # queue'[j]
      BY <2>9, GetMoves
    <3>3. \A m \in Ids : worker[m] = "processing" => desk[m] # Head(queue)
      BY <3>2 DEF PacketInv, Placed, Partition, OnDesk
    <3>4. HoldersDiffer'
      BY <2>9, <3>2, <3>3 DEF WorkerGet, WorkerGoto, PacketInv, HoldersDiffer, TypeOK
    <3>5. InHand' = InHand
      BY <2>9 DEF WorkerGet, InHand
    <3>6. Placed'
      BY <2>9, <3>2, <3>5 DEF WorkerGet, PacketInv, Placed, Partition
    <3> QED
      BY <3>1, <3>4, <3>6 DEF PacketInv
  <2>10. ASSUME NEW n \in Ids, WorkerProcesses(n) \/ WorkerFails(n)
         PROVE  PacketInv'
    <3>1. Uncreated'
      BY <2>10 DEF WorkerProcesses, WorkerFails, WorkerGoto, PacketInv, Uncreated, TypeOK
    <3>2. desk[n] \in OnDesk /\ OnDesk' = OnDesk \ {desk[n]}
      BY <2>10, DoneMoves
    <3>3. HoldersDiffer'
      BY <2>10 DEF WorkerProcesses, WorkerFails, WorkerGoto, PacketInv, HoldersDiffer, TypeOK
    <3>4. InHand' = InHand /\ Queued' = Queued
      BY <2>10 DEF WorkerProcesses, WorkerFails, InHand, Queued
    <3>5. Placed'
      BY <2>10, <3>2, <3>4 DEF WorkerProcesses, WorkerFails, PacketInv, Placed, Partition
    <3> QED
      BY <3>1, <3>3, <3>5 DEF PacketInv
  <2>11. CASE UNCHANGED vars
    <3>1. Handless /\ Uncreated'
      BY <2>11 DEF vars, threads, packets, Handless, PacketInv, Uncreated
    <3> QED
      BY <3>1, HandlessKeeps
  <2> QED
    BY <2>1, <2>2, <2>3, <2>4, <2>5, <2>6, <2>7, <2>8, <2>9, <2>10, <2>11
    DEF Next, InCall, SnifferStep, WorkerStep
<1> QED
  BY <1>1, <1>2, TypeCorrect, PTL DEF Spec

\* No stop, restart or race of controllers loses a counted packet or hands
\* it out twice, whatever the number of sniffers and workers at once.
THEOREM NoPacketLost == Spec => []EachPacketOnce
<1>1. PacketInv => EachPacketOnce
  <2> SUFFICES ASSUME PacketInv PROVE EachPacketOnce
    OBVIOUS
  <2> DEFINE places == <<InHand, dropped, Queued, OnDesk, processed, failed>>
  <2>1. /\ DOMAIN places = 1..6
        /\ places[1] = InHand /\ places[2] = dropped /\ places[3] = Queued
        /\ places[4] = OnDesk /\ places[5] = processed /\ places[6] = failed
    OBVIOUS
  <2> HIDE DEF places
  <2>2. UNION {places[i] : i \in DOMAIN places} = 1..received
    BY <2>1 DEF PacketInv, Placed, Partition
  <2>3. \A i, j \in DOMAIN places : i # j => places[i] \intersect places[j] = {}
    BY <2>1 DEF PacketInv, Placed, Partition
  <2> QED
    BY <2>2, <2>3 DEF EachPacketOnce, places, PacketInv, HoldersDiffer
<1> QED
  BY <1>1, PacketInvHolds, PTL

=============================================================================
