----------------------------- MODULE FlowProofs ------------------------------
(***************************************************************************)
(* What TLAPS proves of FlowTracker, for every set of events, timeout,     *)
(* size of the list and number of events: types, one flow for each         *)
(* conversation, every packet counted once, a TCP state that follows from  *)
(* the packets and, when events come in order, no flow cut without reason  *)
(* and none late for its expiry.                                           *)
(***************************************************************************)
EXTENDS FlowTracker, TLAPS

USE FlowAssumption

-----------------------------------------------------------------------------
(* A step in one piece: the flows as the event left them, of which those   *)
(* with the keys X expire.                                                 *)

Ended(f, now) == [f EXCEPT !.ended = now]

Expiry(e, X) ==
    /\ X \subseteq DOMAIN Touched(e)
    /\ active' = [key \in DOMAIN Touched(e) \ X |-> Touched(e)[key]]
    /\ Gone' = Gone \union {Ended(Touched(e)[key], e.ts) : key \in X}
    /\ \/ /\ lastCleanup' = e.ts
          /\ \A key \in DOMAIN Touched(e) : key \in X <=> Expired(Touched(e)[key], e.ts)
       \/ /\ lastCleanup' = lastCleanup
          /\ e.ts - lastCleanup <= CleanupPeriod
          /\ X = {}

LEMMA StepExpires ==
    ASSUME NEW e \in Inputs, ProcessEvent(e)
    PROVE  \E X : Expiry(e, X)
<1>1. CASE Cleanup(Touched(e), e.ts)
  <2> DEFINE X == {key \in DOMAIN Touched(e) : Expired(Touched(e)[key], e.ts)}
             all == completed \union {Ended(Touched(e)[key], e.ts) : key \in X}
  <2>1. /\ lastCleanup' = e.ts
        /\ active' = [key \in DOMAIN Touched(e) \ X |-> Touched(e)[key]]
        /\ completed' = LastOf(all)
        /\ forgotten' = forgotten \union (all \ LastOf(all))
    BY <1>1 DEF Cleanup, Ended
  <2>2. LastOf(all) \subseteq all
    BY DEF LastOf
  <2>3. Gone' = Gone \union {Ended(Touched(e)[key], e.ts) : key \in X}
    BY <2>1, <2>2 DEF Gone
  <2>4. Expiry(e, X)
    BY <2>1, <2>3 DEF Expiry
  <2> QED
    BY <2>4
<1>2. CASE /\ e.ts - lastCleanup <= CleanupPeriod
           /\ active' = Touched(e)
           /\ UNCHANGED <<completed, lastCleanup, forgotten>>
  <2>1. active' = [key \in DOMAIN Touched(e) \ {} |-> Touched(e)[key]]
    BY <1>2 DEF Touched
  <2>2. Expiry(e, {})
    BY <1>2, <2>1 DEF Expiry, Gone
  <2> QED
    BY <2>2
<1> QED
  BY <1>1, <1>2 DEF ProcessEvent

-----------------------------------------------------------------------------
(* Types.                                                                  *)

KeyOf(e) == Key(e.src, e.dst, e.proto)

LEMMA KeyType ==
    ASSUME NEW e \in Events
    PROVE  KeyOf(e) \in Endpoints \X Endpoints \X Protocols
BY DEF KeyOf, Key, Events

LEMMA TcpStateType ==
    ASSUME NEW state \in States, NEW flags
    PROVE  TcpState(state, flags) \in States
BY DEF TcpState, States

LEMMA EndedType ==
    ASSUME NEW f \in Flows, NEW now \in Int
    PROVE  Ended(f, now) \in Flows
BY DEF Ended, Flows

LEMMA UpdatedType ==
    ASSUME NEW f \in Flows, NEW e \in Events, NEW n \in 1..MaxEvents
    PROVE  Updated(f, e, n) \in Flows
<1>1. TcpState(f.state, e.flags) \in States
  BY TcpStateType DEF Flows
<1>2. e.ts \in Int
  BY DEF Events
<1> QED
  BY <1>1, <1>2 DEF Updated, Flows

LEMMA NewFlowType ==
    ASSUME TypeOK, NEW e \in Inputs, Len(log) < MaxEvents
    PROVE  NewFlow(e) \in Flows
<1>1. e.ts \in Int /\ e.src \in Endpoints /\ e.dst \in Endpoints /\ e.proto \in Protocols
  BY DEF Events
<1>2. Len(log) + 1 \in 1..MaxEvents
  BY DEF TypeOK
<1> QED
  BY <1>1, <1>2 DEF NewFlow, Flows, States

LEMMA TouchedType ==
    ASSUME TypeOK, NEW e \in Inputs, Len(log) < MaxEvents
    PROVE  /\ DOMAIN Touched(e) \subseteq Endpoints \X Endpoints \X Protocols
           /\ \A key \in DOMAIN Touched(e) : Touched(e)[key] \in Flows
           /\ Len(log) \in Nat
           /\ e \in Events /\ e.ts \in Int
<1>1. e \in Events
  OBVIOUS
<1>2. e.ts \in Int
  BY <1>1 DEF Events
<1>3. Len(log) \in Nat /\ Len(log) + 1 \in 1..MaxEvents
  BY DEF TypeOK
<1>4. NewFlow(e) \in Flows
  BY NewFlowType
<1>5. \A key \in DOMAIN active : active[key] \in Flows
  BY DEF TypeOK, ActiveFlows
<1>6. FlowOf(e) \in Flows
  BY <1>1, <1>3, <1>4, <1>5, UpdatedType DEF FlowOf
<1> QED
  BY <1>1, <1>2, <1>3, <1>5, <1>6, KeyType DEF Touched, TypeOK, KeyOf

\* Every variable keeps its type; in particular TcpState never leaves the
\* states that the code names.
THEOREM TypeCorrect == Spec => []TypeOK
<1>1. Init => TypeOK
  BY DEF Init, TypeOK, ActiveFlows
<1>2. TypeOK /\ [Next]_vars => TypeOK'
  <2> SUFFICES ASSUME TypeOK, [Next]_vars PROVE TypeOK'
    OBVIOUS
  <2>1. ASSUME NEW e \in Inputs, ProcessEvent(e)
        PROVE  TypeOK'
    <3>1. Len(log) < MaxEvents
      BY <2>1 DEF ProcessEvent
    <3>2. PICK X : Expiry(e, X)
      BY <2>1, StepExpires
    <3>3. /\ DOMAIN active' \subseteq Endpoints \X Endpoints \X Protocols
          /\ ActiveFlows' \subseteq Flows
      BY <3>1, <3>2, TouchedType DEF Expiry, ActiveFlows
    <3>4. \A key \in X : Ended(Touched(e)[key], e.ts) \in Flows
      BY <3>1, <3>2, TouchedType, EndedType DEF Expiry
    <3>5. completed' \subseteq Flows /\ forgotten' \subseteq Flows
      BY <3>2, <3>4 DEF Expiry, Gone, TypeOK
    <3>6. lastCleanup' \in Int
      BY <3>1, <3>2, TouchedType DEF Expiry, TypeOK
    <3>7. log' \in Seq(Events) /\ Len(log') <= MaxEvents
      BY <2>1, <3>1, TouchedType DEF ProcessEvent, TypeOK
    <3>8. newest' \in Int \union {None} /\ inOrder' \in BOOLEAN
      BY <2>1, <3>1, TouchedType DEF ProcessEvent, TypeOK
    <3> QED
      BY <3>3, <3>5, <3>6, <3>7, <3>8 DEF TypeOK
  <2>2. CASE UNCHANGED vars
    BY <2>2 DEF vars, TypeOK, ActiveFlows
  <2> QED
    BY <2>1, <2>2 DEF Next
<1> QED
  BY <1>1, <1>2, PTL DEF Spec

-----------------------------------------------------------------------------
(* One flow for each conversation.                                         *)

\* Every flow is active under the key of its own endpoints.
KeyInv ==
    \A key \in DOMAIN active :
        key = Key(active[key].src, active[key].dst, active[key].proto)

\* Packets of one conversation, and no others, have the same key.
LEMMA SameKey ==
    ASSUME NEW e, NEW f, e.src \in Nat, e.dst \in Nat, f.src \in Nat, f.dst \in Nat
    PROVE  SameConversation(e, f) <=> Key(e.src, e.dst, e.proto) = Key(f.src, f.dst, f.proto)
BY DEF SameConversation, Key

\* What an event leaves alone: the flows of other keys, and the key of its
\* own flow.
LEMMA TouchedKeys ==
    ASSUME TypeOK, KeyInv, NEW e \in Inputs, Len(log) < MaxEvents
    PROVE  /\ KeyOf(e) \in DOMAIN Touched(e)
           /\ \A key \in DOMAIN Touched(e) :
                 /\ key # KeyOf(e) => key \in DOMAIN active /\ Touched(e)[key] = active[key]
                 /\ key = Key(Touched(e)[key].src, Touched(e)[key].dst, Touched(e)[key].proto)
<1>1. KeyOf(e) \in DOMAIN Touched(e) /\ Touched(e)[KeyOf(e)] = FlowOf(e)
  BY DEF Touched, KeyOf
<1>2. \A key \in DOMAIN Touched(e) :
         key # KeyOf(e) => key \in DOMAIN active /\ Touched(e)[key] = active[key]
  BY DEF Touched, KeyOf
<1>3. \A f \in Flows : LET u == Updated(f, e, Len(log) + 1)
                       IN  u.src = f.src /\ u.dst = f.dst /\ u.proto = f.proto
  BY DEF Updated, Flows
<1>4. CASE KeyOf(e) \in DOMAIN active
  <2>1. active[KeyOf(e)] \in Flows
    BY <1>4 DEF TypeOK, ActiveFlows
  <2>2. FlowOf(e) = Updated(active[KeyOf(e)], e, Len(log) + 1)
    BY <1>4 DEF FlowOf, KeyOf
  <2> QED
    BY <1>1, <1>2, <1>3, <1>4, <2>1, <2>2 DEF KeyInv
<1>5. CASE KeyOf(e) \notin DOMAIN active
  <2>1. NewFlow(e).src = e.src /\ NewFlow(e).dst = e.dst /\ NewFlow(e).proto = e.proto
    BY DEF NewFlow
  <2>2. FlowOf(e) = Updated(NewFlow(e), e, Len(log) + 1)
    BY <1>5 DEF FlowOf, KeyOf
  <2>3. FlowOf(e).src = e.src /\ FlowOf(e).dst = e.dst /\ FlowOf(e).proto = e.proto
    BY <2>1, <2>2 DEF Updated, NewFlow
  <2> QED
    BY <1>1, <1>2, <2>3 DEF KeyInv, KeyOf
<1> QED
  BY <1>4, <1>5

LEMMA KeyInvHolds == Spec => []KeyInv
<1>1. Init => KeyInv
  BY DEF Init, KeyInv
<1>2. TypeOK /\ KeyInv /\ [Next]_vars => KeyInv'
  <2> SUFFICES ASSUME TypeOK, KeyInv, [Next]_vars PROVE KeyInv'
    OBVIOUS
  <2>1. ASSUME NEW e \in Inputs, ProcessEvent(e)
        PROVE  KeyInv'
    <3>1. Len(log) < MaxEvents
      BY <2>1 DEF ProcessEvent
    <3>2. PICK X : Expiry(e, X)
      BY <2>1, StepExpires
    <3> QED
      BY <3>1, <3>2, TouchedKeys DEF Expiry, KeyInv
  <2>2. CASE UNCHANGED vars
    BY <2>2 DEF vars, KeyInv
  <2> QED
    BY <2>1, <2>2 DEF Next
<1> QED
  BY <1>1, <1>2, TypeCorrect, PTL DEF Spec

\* Both directions of a conversation go to one active flow, found under its
\* own key, whatever the order in which they come.
THEOREM OneFlow == Spec => []OneFlowPerConversation
<1>1. TypeOK /\ KeyInv => OneFlowPerConversation
  <2> SUFFICES ASSUME TypeOK, KeyInv
               PROVE  \A key, other \in DOMAIN active :
                         SameConversation(active[key], active[other]) <=> key = other
    BY DEF OneFlowPerConversation, KeyInv
  <2> TAKE key, other \in DOMAIN active
  <2>1. active[key] \in Flows /\ active[other] \in Flows
    BY DEF TypeOK, ActiveFlows
  <2>2. /\ active[key].src \in Nat /\ active[key].dst \in Nat
        /\ active[other].src \in Nat /\ active[other].dst \in Nat
    BY <2>1 DEF Flows
  <2> QED
    BY <2>2, SameKey DEF KeyInv
<1> QED
  BY <1>1, TypeCorrect, KeyInvHolds, PTL

-----------------------------------------------------------------------------
(* Every packet in one flow.                                               *)

\* The flow of key before event e: the active one or the one it starts.
Was(key, e) == IF key \in DOMAIN active THEN active[key] ELSE NewFlow(e)

\* What an event changes of its flow.
LEMMA UpdatedFields ==
    ASSUME NEW f \in Flows, NEW e, NEW n
    PROVE  LET u == Updated(f, e, n)
           IN  /\ u.src = f.src /\ u.dst = f.dst /\ u.proto = f.proto
               /\ u.start = f.start /\ u.born = f.born /\ u.ended = f.ended
               /\ u.last = e.ts
               /\ u.fwd = IF e.src = f.src THEN f.fwd \union {n} ELSE f.fwd
               /\ u.bwd = IF e.src = f.src THEN f.bwd ELSE f.bwd \union {n}
BY DEF Updated, Flows

LEMMA UpdatedPackets ==
    ASSUME NEW f \in Flows, NEW e, NEW n
    PROVE  Packets(Updated(f, e, n)) = Packets(f) \union {n}
<1> DEFINE u == Updated(f, e, n)
<1>1. /\ u.fwd = IF e.src = f.src THEN f.fwd \union {n} ELSE f.fwd
      /\ u.bwd = IF e.src = f.src THEN f.bwd ELSE f.bwd \union {n}
  BY DEF Updated, Flows
<1> HIDE DEF u
<1>2. u.fwd \union u.bwd = f.fwd \union f.bwd \union {n}
  BY <1>1
<1> QED
  BY <1>2 DEF u, Packets

\* What expiry changes of a flow.
LEMMA EndedFields ==
    ASSUME NEW f \in Flows, NEW now
    PROVE  LET g == Ended(f, now)
           IN  /\ g.src = f.src /\ g.dst = f.dst /\ g.proto = f.proto
               /\ g.start = f.start /\ g.last = f.last /\ g.born = f.born
               /\ g.fwd = f.fwd /\ g.bwd = f.bwd /\ g.state = f.state
               /\ g.ended = now
BY DEF Ended, Flows

\* Only active flows have not ended, and no flow counts a packet to come.
Marks ==
    /\ \A f \in ActiveFlows : f.ended = None
    /\ \A f \in Gone : f.ended \in Int

Known == \A f \in AllFlows : Packets(f) \subseteq DOMAIN log

\* The conjuncts of EachPacketCounted.
Counted == \A n \in DOMAIN log : \E f \in AllFlows : n \in Packets(f)

Directed(f) ==
    /\ \A n \in f.fwd : log[n].src = f.src /\ log[n].dst = f.dst /\ log[n].proto = f.proto
    /\ \A n \in f.bwd : log[n].src = f.dst /\ log[n].dst = f.src /\ log[n].proto = f.proto

OneWay(f) == f.fwd \intersect f.bwd = {}

Apart == \A f, g \in AllFlows : f # g => Packets(f) \intersect Packets(g) = {}

PacketInv ==
    /\ Marks /\ Known /\ Counted /\ Apart
    /\ \A f \in AllFlows : Directed(f) /\ OneWay(f)

\* The flows after an event, X having expired.
Left(e, X, key) == IF key \in X THEN Ended(Touched(e)[key], e.ts) ELSE Touched(e)[key]

LEMMA FlowsAfter ==
    ASSUME NEW e, NEW X, Expiry(e, X)
    PROVE  /\ ActiveFlows' = {Touched(e)[key] : key \in DOMAIN Touched(e) \ X}
           /\ AllFlows' = Gone \union {Left(e, X, key) : key \in DOMAIN Touched(e)}
BY DEF Expiry, ActiveFlows, AllFlows, Left

\* The packets of the flow of each key after event e, packet n.
LEMMA PacketsAfter ==
    ASSUME TypeOK, KeyInv, PacketInv, NEW e \in Inputs, NEW X, Expiry(e, X), Len(log) < MaxEvents,
           NEW key \in DOMAIN Touched(e)
    PROVE  LET f == Left(e, X, key)
               n == Len(log) + 1
           IN  /\ key # KeyOf(e) => key \in DOMAIN active /\ Packets(f) = Packets(active[key])
               /\ key = KeyOf(e) /\ key \in DOMAIN active =>
                     Packets(f) = Packets(active[key]) \union {n}
               /\ key = KeyOf(e) /\ key \notin DOMAIN active => Packets(f) = {n}
<1>1. Touched(e)[key] \in Flows
  BY TouchedType
<1>2. Packets(Left(e, X, key)) = Packets(Touched(e)[key])
  BY <1>1, EndedFields DEF Left, Packets
<1>3. key # KeyOf(e) => key \in DOMAIN active /\ Touched(e)[key] = active[key]
  BY TouchedKeys
<1>4. key = KeyOf(e) => Touched(e)[key] = Updated(Was(key, e), e, Len(log) + 1)
  BY DEF Touched, KeyOf, FlowOf, Was
<1>5. key \in DOMAIN active => active[key] \in Flows
  BY DEF TypeOK, ActiveFlows
<1>6. key \in DOMAIN active /\ key = KeyOf(e) =>
         Packets(Touched(e)[key]) = Packets(active[key]) \union {Len(log) + 1}
  BY <1>4, <1>5, UpdatedPackets DEF Was
<1>7. key \notin DOMAIN active /\ key = KeyOf(e) => Packets(Touched(e)[key]) = {Len(log) + 1}
  <2>1. NewFlow(e) \in Flows /\ Packets(NewFlow(e)) = {}
    BY NewFlowType DEF NewFlow, Packets
  <2> QED
    BY <1>4, <2>1, UpdatedPackets DEF Was
<1> QED
  BY <1>2, <1>3, <1>6, <1>7

\* The log after event e: its packet is last, the others stay.
LEMMA LogAfter ==
    ASSUME TypeOK, NEW e \in Inputs, ProcessEvent(e)
    PROVE  /\ Len(log) < MaxEvents /\ Len(log) \in Nat
           /\ DOMAIN log' = DOMAIN log \union {Len(log) + 1}
           /\ Len(log) + 1 \notin DOMAIN log
           /\ log'[Len(log) + 1] = e
           /\ \A n \in DOMAIN log : log'[n] = log[n]
<1>1. log' = Append(log, e) /\ Len(log) < MaxEvents
  BY DEF ProcessEvent
<1>2. log \in Seq(Events) /\ e \in Events
  BY DEF TypeOK
<1> QED
  BY <1>1, <1>2

\* A flow that counts packets n and others keeps to their directions.
LEMMA DirectedAfter ==
    ASSUME TypeOK, KeyInv, PacketInv, NEW e \in Inputs, NEW X, Expiry(e, X), ProcessEvent(e),
           NEW key \in DOMAIN Touched(e), NEW left, left = Left(e, X, key)
    PROVE  Directed(left)' /\ OneWay(left)
<1>1. Touched(e)[key] \in Flows /\ Len(log) < MaxEvents /\ e.ts \in Int
  BY TouchedType, LogAfter
<1>2. key \in DOMAIN active => active[key] \in Flows /\ active[key] \in AllFlows
  BY DEF TypeOK, ActiveFlows, AllFlows
<1>3. \A f \in AllFlows : f.fwd \subseteq DOMAIN log /\ f.bwd \subseteq DOMAIN log
  BY DEF PacketInv, Known, Packets
<1> DEFINE f == Touched(e)[key]
           OldLog(g) == /\ \A n \in g.fwd : n \in DOMAIN log /\ log[n].src = g.src
                                            /\ log[n].dst = g.dst /\ log[n].proto = g.proto
                        /\ \A n \in g.bwd : n \in DOMAIN log /\ log[n].src = g.dst
                                            /\ log[n].dst = g.src /\ log[n].proto = g.proto
           NewLog(g) == /\ \A n \in g.fwd : log'[n].src = g.src
                                            /\ log'[n].dst = g.dst /\ log'[n].proto = g.proto
                        /\ \A n \in g.bwd : log'[n].src = g.dst
                                            /\ log'[n].dst = g.src /\ log'[n].proto = g.proto
<1>4. NewLog(f) /\ OneWay(f)
  <2>1. CASE key # KeyOf(e)
    <3>1. f = active[key] /\ key \in DOMAIN active
      BY <1>1, <2>1, TouchedKeys
    <3>2. Directed(f) /\ OneWay(f) /\ f \in AllFlows
      BY <1>2, <3>1 DEF PacketInv
    <3>3. OldLog(f)
      BY <1>3, <3>2 DEF Directed
    <3> QED
      BY <3>2, <3>3, LogAfter
  <2>2. CASE key = KeyOf(e)
    <3> DEFINE w == Was(key, e)
               n == Len(log) + 1
    <3>1. w \in Flows /\ f = Updated(w, e, n)
      BY <1>1, <1>2, <2>2, NewFlowType DEF Was, Touched, FlowOf, KeyOf
    <3>2. OldLog(w) /\ OneWay(w)
      <4>1. CASE key \in DOMAIN active
        BY <1>2, <1>3, <4>1 DEF Was, PacketInv, Directed
      <4>2. CASE key \notin DOMAIN active
        BY <4>2 DEF Was, NewFlow, OneWay
      <4> QED
        BY <4>1, <4>2
    <3>3. SameConversation(e, w)
      <4>1. Key(f.src, f.dst, f.proto) = KeyOf(e)
        BY <1>1, <2>2, TouchedKeys
      <4>2. f.src = w.src /\ f.dst = w.dst /\ f.proto = w.proto
        BY <3>1 DEF Updated, Flows
      <4>3. w.src \in Nat /\ w.dst \in Nat /\ e.src \in Nat /\ e.dst \in Nat
        BY <3>1 DEF Flows, Events
      <4> QED
        BY <4>1, <4>2, <4>3, SameKey DEF KeyOf
    <3>4. /\ f.src = w.src /\ f.dst = w.dst /\ f.proto = w.proto
          /\ f.fwd = IF e.src = w.src THEN w.fwd \union {n} ELSE w.fwd
          /\ f.bwd = IF e.src = w.src THEN w.bwd ELSE w.bwd \union {n}
      BY <3>1 DEF Updated, Flows
    <3>5. /\ e.proto = w.proto
          /\ e.src = w.src => e.dst = w.dst
          /\ e.src # w.src => e.src = w.dst /\ e.dst = w.src
      BY <3>3 DEF SameConversation
    <3> HIDE DEF w
    <3>6. \A m \in w.fwd \union w.bwd : log'[m] = log[m] /\ m # n
      BY <3>2, LogAfter
    <3>7. OneWay(f)
      BY <3>2, <3>4, <3>6 DEF OneWay
    <3>8. log'[n] = e
      BY LogAfter
    <3> HIDE DEF f, n
    <3>9. NewLog(f)
      BY <3>2, <3>4, <3>5, <3>6, <3>8
    <3> QED
      BY <3>7, <3>9
  <2> QED
    BY <2>1, <2>2
<1>5. LET g == Ended(f, e.ts)
      IN  g.src = f.src /\ g.dst = f.dst /\ g.proto = f.proto /\ g.fwd = f.fwd /\ g.bwd = f.bwd
  BY <1>1, EndedFields
<1>6. NewLog(left) /\ OneWay(left)
  BY <1>4, <1>5 DEF Left, OneWay
<1> QED
  BY <1>6 DEF Directed

LEMMA MarksAfter ==
    ASSUME TypeOK, KeyInv, Marks, NEW e \in Inputs, NEW X, Expiry(e, X), Len(log) < MaxEvents
    PROVE  Marks'
<1>1. ASSUME NEW key \in DOMAIN Touched(e)
      PROVE  /\ Touched(e)[key].ended = None
             /\ Ended(Touched(e)[key], e.ts).ended \in Int
  <2>1. Touched(e)[key] \in Flows /\ e.ts \in Int
    BY TouchedType
  <2>2. key \in DOMAIN active => active[key] \in Flows /\ active[key].ended = None
    BY DEF TypeOK, ActiveFlows, Marks
  <2>3. CASE key # KeyOf(e)
    BY <2>1, <2>2, <2>3, TouchedKeys, EndedFields
  <2>4. CASE key = KeyOf(e)
    <3>1. Touched(e)[key] = Updated(Was(key, e), e, Len(log) + 1)
      BY <2>4 DEF Touched, KeyOf, FlowOf, Was
    <3>2. Was(key, e) \in Flows /\ Was(key, e).ended = None
      BY <2>2, NewFlowType DEF Was, NewFlow
    <3>3. Touched(e)[key].ended = None
      BY <3>1, <3>2 DEF Updated, Flows
    <3> QED
      BY <2>1, <3>3, EndedFields
  <2> QED
    BY <2>3, <2>4
<1>2. \A f \in ActiveFlows' : f.ended = None
  BY <1>1, FlowsAfter
<1>3. \A f \in Gone' : f.ended \in Int
  BY <1>1 DEF Marks, Expiry
<1> QED
  BY <1>2, <1>3 DEF Marks

LEMMA PacketStep ==
    ASSUME TypeOK, KeyInv, PacketInv, NEW e \in Inputs, ProcessEvent(e)
    PROVE  PacketInv'
<1> DEFINE n == Len(log) + 1
<1>1. PICK X : Expiry(e, X)
  BY StepExpires
<1>2. Len(log) < MaxEvents
  BY LogAfter
<1>3. AllFlows' = Gone \union {Left(e, X, key) : key \in DOMAIN Touched(e)}
  BY <1>1, FlowsAfter
<1>4. AllFlows = Gone \union {active[key] : key \in DOMAIN active}
  BY DEF AllFlows, ActiveFlows
<1>5. \A key \in DOMAIN Touched(e) :
         /\ key # KeyOf(e) => key \in DOMAIN active
                              /\ Packets(Left(e, X, key)) = Packets(active[key])
         /\ key = KeyOf(e) /\ key \in DOMAIN active
               => Packets(Left(e, X, key)) = Packets(active[key]) \union {n}
         /\ key = KeyOf(e) /\ key \notin DOMAIN active => Packets(Left(e, X, key)) = {n}
  BY <1>1, <1>2, PacketsAfter
<1>6. KeyOf(e) \in DOMAIN Touched(e) /\ DOMAIN active \subseteq DOMAIN Touched(e)
  BY DEF Touched, KeyOf
<1>7. Marks'
  BY <1>1, <1>2, MarksAfter DEF PacketInv
<1>8. Known'
  <2>1. \A f \in AllFlows' : Packets(f) \subseteq DOMAIN log \union {n}
    BY <1>3, <1>4, <1>5 DEF PacketInv, Known
  <2> QED
    BY <2>1, LogAfter DEF Known, Packets
<1>9. Counted'
  <2>1. ASSUME NEW m \in DOMAIN log \union {n}
        PROVE  \E f \in AllFlows' : m \in Packets(f)
    <3>1. CASE m = n
      <4>1. n \in Packets(Left(e, X, KeyOf(e)))
        BY <1>5, <1>6
      <4> QED
        BY <1>3, <1>6, <3>1, <4>1
    <3>2. CASE m \in DOMAIN log
      <4>1. PICK f \in AllFlows : m \in Packets(f)
        BY <3>2 DEF PacketInv, Counted
      <4>2. CASE f \in Gone
        BY <1>3, <4>1, <4>2
      <4>3. CASE \E key \in DOMAIN active : f = active[key]
        <5>1. PICK key \in DOMAIN active : f = active[key]
          BY <4>3
        <5>2. key \in DOMAIN Touched(e) /\ m \in Packets(Left(e, X, key))
          BY <1>5, <1>6, <4>1, <5>1
        <5> QED
          BY <1>3, <5>2
      <4> QED
        BY <1>4, <4>1, <4>2, <4>3
    <3> QED
      BY <3>1, <3>2
  <2> QED
    BY <2>1, LogAfter DEF Counted, Packets
<1>10. Apart'
  <2>1. \A key, other \in DOMAIN active : key # other => active[key] # active[other]
    BY DEF KeyInv
  <2>2. \A key \in DOMAIN active, g \in Gone : active[key] # g
    BY DEF PacketInv, Marks, ActiveFlows
  <2>3. \A f \in AllFlows : n \notin Packets(f)
    BY LogAfter DEF PacketInv, Known
  <2>4. \A key, other \in DOMAIN Touched(e) :
           key # other => Packets(Left(e, X, key)) \intersect Packets(Left(e, X, other)) = {}
    BY <1>4, <1>5, <2>1, <2>3 DEF PacketInv, Apart
  <2>5. \A key \in DOMAIN Touched(e), g \in Gone :
           Packets(Left(e, X, key)) \intersect Packets(g) = {}
    BY <1>4, <1>5, <2>2, <2>3 DEF PacketInv, Apart
  <2>6. \A f, g \in AllFlows' : f # g => Packets(f) \intersect Packets(g) = {}
    BY <1>3, <1>4, <2>4, <2>5 DEF PacketInv, Apart
  <2> QED
    BY <2>6 DEF Apart, Packets
<1>11. ASSUME NEW f \in AllFlows'
       PROVE  Directed(f)' /\ OneWay(f)
  <2>1. CASE f \in Gone
    <3>1. Directed(f) /\ OneWay(f) /\ f.fwd \subseteq DOMAIN log /\ f.bwd \subseteq DOMAIN log
      BY <2>1 DEF AllFlows, PacketInv, Known, Packets
    <3> QED
      BY <3>1, LogAfter DEF Directed
  <2>2. CASE \E key \in DOMAIN Touched(e) : f = Left(e, X, key)
    BY <1>1, <2>2, DirectedAfter
  <2> QED
    BY <1>3, <2>1, <2>2
<1> QED
  BY <1>7, <1>8, <1>9, <1>10, <1>11 DEF PacketInv, OneWay

LEMMA PacketInvHolds == Spec => []PacketInv
<1>1. Init => PacketInv
  BY DEF Init, PacketInv, Marks, Known, Counted, Apart, AllFlows, ActiveFlows, Gone
<1>2. TypeOK /\ KeyInv /\ PacketInv /\ [Next]_vars => PacketInv'
  <2>1. ASSUME PacketInv, UNCHANGED vars PROVE PacketInv'
    BY <2>1 DEF vars, PacketInv, Marks, Known, Counted, Apart, AllFlows, ActiveFlows, Gone,
                Directed, OneWay, Packets
  <2> QED
    BY <2>1, PacketStep DEF Next
<1> QED
  BY <1>1, <1>2, TypeCorrect, KeyInvHolds, PTL DEF Spec

\* Every packet is counted by exactly one flow, in its direction, for any
\* order of events and any number of expiries.
THEOREM PacketsCounted == Spec => []EachPacketCounted
<1>1. PacketInv => EachPacketCounted
  BY DEF PacketInv, EachPacketCounted, Counted, Apart, Directed, OneWay
<1> QED
  BY <1>1, PacketInvHolds, PTL

-----------------------------------------------------------------------------
(* The TCP state.  A flow's state s is said by the packets P of log l.     *)

Deciding(P, l) == {n \in P : l[n].flags \intersect {"S", "R", "F"} # {}}

Acked(P, l, n) == \E m \in P : m > n /\ l[m].flags = {"A"}

Verdict(flags, acked) ==
    CASE {"S", "A"} \subseteq flags -> IF acked THEN "ESTABLISHED" ELSE "SYN_RCVD"
      [] {"S", "A"} \intersect flags = {"S"} -> "SYN_SENT"
      [] {"S", "R"} \intersect flags = {"R"} -> "RESET"
      [] OTHER -> "FIN_WAIT"

Said(s, P, l) ==
    IF Deciding(P, l) = {}
    THEN s = IF Acked(P, l, 0) THEN "ESTABLISHED" ELSE "UNKNOWN"
    ELSE \E n \in Deciding(P, l) :
            /\ \A m \in Deciding(P, l) : m <= n
            /\ s = Verdict(l[n].flags, Acked(P, l, n))

\* What the packets say does not depend on the rest of the log.
LEMMA SaidOfPackets ==
    ASSUME NEW s, NEW P, NEW l, NEW k, \A m \in P : k[m] = l[m], Said(s, P, l)
    PROVE  Said(s, P, k)
<1>1. Deciding(P, k) = Deciding(P, l)
  BY DEF Deciding
<1>2. \A n : Acked(P, k, n) = Acked(P, l, n)
  BY DEF Acked
<1>3. Deciding(P, l) \subseteq P
  BY DEF Deciding
<1> QED
  BY <1>1, <1>2, <1>3 DEF Said

\* One more packet, later than all of them: TcpState follows what they say.
LEMMA SaidNext ==
    ASSUME NEW s, NEW P \in SUBSET (Nat \ {0}), NEW l, NEW n \in Nat \ {0},
           \A m \in P : m < n, l[n].flags \subseteq {"S", "A", "R", "F"}, Said(s, P, l)
    PROVE  Said(TcpState(s, l[n].flags), P \union {n}, l)
<1> DEFINE fl == l[n].flags
           Q == P \union {n}
           t == TcpState(s, fl)
<1> SUFFICES Said(t, Q, l)
  OBVIOUS
<1>0. \A m \in P : m \in Nat /\ m < n /\ n > m
  OBVIOUS
<1>1. CASE fl \intersect {"S", "R", "F"} # {}
  <2>1. n \in Deciding(Q, l)
    BY <1>1, Zenon DEF Deciding
  <2>2. Deciding(Q, l) \subseteq Q /\ \A m \in Q : m <= n /\ ~(m > n)
    BY <1>0 DEF Deciding
  <2>3. t = Verdict(fl, FALSE)
    BY <1>1 DEF TcpState, Verdict
  <2>4. Acked(Q, l, n) = FALSE
    BY <2>2 DEF Acked
  <2>5. t = Verdict(l[n].flags, Acked(Q, l, n))
    BY <2>3, <2>4
  <2>6. \A m \in Deciding(Q, l) : m <= n
    BY <2>2
  <2> HIDE DEF Q, t
  <2> QED
    BY <2>1, <2>5, <2>6, Zenon DEF Said
<1>2. CASE fl \intersect {"S", "R", "F"} = {}
  <2>1. Deciding(Q, l) = Deciding(P, l)
    BY <1>2 DEF Deciding
  <2>2. fl = {} \/ fl = {"A"}
    BY <1>2
  <2>3. CASE fl = {}
    <3>1. t = s
      BY <2>3 DEF TcpState
    <3>2. \A m : Acked(Q, l, m) = Acked(P, l, m)
      BY <2>3 DEF Acked
    <3> HIDE DEF Q, t
    <3> QED
      BY <2>1, <3>1, <3>2, Zenon DEF Said
  <2>4. CASE fl = {"A"}
    <3>1. t = IF s \in {"SYN_RCVD", "UNKNOWN"} THEN "ESTABLISHED" ELSE s
      BY <2>4 DEF TcpState
    <3>2. \A m \in P \union {0} : Acked(Q, l, m)
      <4>1. n \in Q /\ l[n].flags = {"A"} /\ \A m \in P \union {0} : n > m
        BY <1>0, <2>4
      <4> HIDE DEF Q
      <4> QED
        BY <4>1, Zenon DEF Acked
    <3>3. CASE Deciding(P, l) = {}
      <4>1. s = "ESTABLISHED" \/ s = "UNKNOWN"
        BY <3>3 DEF Said
      <4> QED
        BY <2>1, <3>1, <3>2, <3>3, <4>1 DEF Said
    <3>4. CASE Deciding(P, l) # {}
      <4>1. PICK d \in Deciding(P, l) : /\ \A m \in Deciding(P, l) : m <= d
                                        /\ s = Verdict(l[d].flags, Acked(P, l, d))
        BY <3>4 DEF Said
      <4>2. d \in P
        BY DEF Deciding
      <4>3. t = Verdict(l[d].flags, TRUE)
        BY <3>1, <4>1 DEF Verdict
      <4>4. Acked(Q, l, d)
        BY <3>2, <4>2
      <4> QED
        BY <2>1, <3>4, <4>1, <4>3, <4>4 DEF Said
    <3> QED
      BY <3>3, <3>4
  <2> QED
    BY <2>2, <2>3, <2>4
<1> QED
  BY <1>1, <1>2

TcpSaid(f, l) == f.proto = "TCP" => Said(f.state, Packets(f), l)

TcpInv == \A f \in AllFlows : TcpSaid(f, log)

\* The flow of the event follows its packet; expiry changes no state.
LEMMA TcpSaidAfter ==
    ASSUME TypeOK, KeyInv, PacketInv, TcpInv, NEW e \in Inputs, NEW X, Expiry(e, X),
           ProcessEvent(e), NEW key \in DOMAIN Touched(e), NEW k, k = log'
    PROVE  TcpSaid(Left(e, X, key), k)
<1> DEFINE f == Touched(e)[key]
           n == Len(log) + 1
<1>1. f \in Flows /\ e \in Events /\ n \in Nat \ {0}
  BY TouchedType, LogAfter
<1>2. k[n] = e /\ (\A m \in DOMAIN log : k[m] = log[m]) /\ DOMAIN log = 1..Len(log)
  BY LogAfter DEF TypeOK
<1>3. key \in DOMAIN active => active[key] \in Flows /\ active[key] \in AllFlows
  BY DEF TypeOK, ActiveFlows, AllFlows
<1>4. \A g \in AllFlows : Packets(g) \subseteq DOMAIN log /\ TcpSaid(g, log)
  BY DEF PacketInv, Known, TcpInv
<1>5. TcpSaid(f, k)
  <2>1. CASE key # KeyOf(e)
    <3>1. f = active[key] /\ key \in DOMAIN active
      BY <2>1, TouchedKeys, LogAfter
    <3>2. Packets(f) \subseteq DOMAIN log /\ TcpSaid(f, log)
      BY <1>3, <1>4, <3>1
    <3>3. \A m \in Packets(f) : k[m] = log[m]
      BY <1>2, <3>2
    <3> HIDE DEF f
    <3> QED
      BY <3>2, <3>3, SaidOfPackets DEF TcpSaid
  <2>2. CASE key = KeyOf(e)
    <3> DEFINE w == Was(key, e)
               P == Packets(w)
    <3>1. w \in Flows /\ f = Updated(w, e, n) /\ Len(log) < MaxEvents
      BY <1>3, <2>2, NewFlowType, LogAfter DEF Was, Touched, FlowOf, KeyOf
    <3>2. P \subseteq DOMAIN log /\ TcpSaid(w, log)
      <4>1. CASE key \in DOMAIN active
        BY <1>3, <1>4, <4>1 DEF Was
      <4>2. CASE key \notin DOMAIN active
        <5>1. Packets(w) = {} /\ w.state = "UNKNOWN"
          BY <4>2 DEF Was, NewFlow, Packets
        <5> QED
          BY <5>1 DEF TcpSaid, Said, Deciding, Acked
      <4> QED
        BY <4>1, <4>2
    <3>3. e.flags \subseteq {"S", "A", "R", "F"}
      BY <1>1 DEF Events
    <3>4. f.proto = w.proto /\ f.state = IF e.proto = "TCP" THEN TcpState(w.state, e.flags) ELSE w.state
      BY <3>1 DEF Updated, Flows
    <3>5. Packets(f) = P \union {n}
      BY <3>1, UpdatedPackets
    <3>6. e.proto = w.proto
      <4>1. Key(f.src, f.dst, f.proto) = KeyOf(e)
        BY <2>2, TouchedKeys, LogAfter
      <4> QED
        BY <3>4, <4>1 DEF KeyOf, Key
    <3> HIDE DEF f, w
    <3>7. ASSUME w.proto = "TCP"
          PROVE  Said(TcpState(w.state, e.flags), P \union {n}, k)
      <4>1. Said(w.state, P, k)
        BY <1>2, <3>2, <3>7, SaidOfPackets DEF TcpSaid
      <4>2. P \in SUBSET (Nat \ {0}) /\ \A m \in P : m < n
        BY <1>1, <1>2, <3>2, LogAfter
      <4>3. n \in Nat \ {0}
        BY <1>1
      <4> HIDE DEF P, n
      <4> QED
        BY <1>2, <3>3, <4>1, <4>2, <4>3, SaidNext
    <3> QED
      BY <3>4, <3>5, <3>6, <3>7 DEF TcpSaid
  <2> QED
    BY <2>1, <2>2
<1>6. LET g == Ended(f, e.ts)
      IN  g.proto = f.proto /\ g.state = f.state /\ Packets(g) = Packets(f)
  BY <1>1, EndedFields DEF Packets
<1> QED
  BY <1>5, <1>6 DEF Left, TcpSaid

LEMMA TcpInvHolds == Spec => []TcpInv
<1>1. Init => TcpInv
  BY DEF Init, TcpInv, AllFlows, ActiveFlows, Gone
<1>2. TypeOK /\ KeyInv /\ PacketInv /\ TcpInv /\ [Next]_vars => TcpInv'
  <2>1. ASSUME TypeOK, KeyInv, PacketInv, TcpInv, NEW e \in Inputs, ProcessEvent(e)
        PROVE  TcpInv'
    <3>1. PICK X : Expiry(e, X)
      BY <2>1, StepExpires
    <3>2. PICK k : k = log'
      OBVIOUS
    <3>3. AllFlows' = Gone \union {Left(e, X, key) : key \in DOMAIN Touched(e)}
      BY <3>1, FlowsAfter
    <3>4. \A key \in DOMAIN Touched(e) : TcpSaid(Left(e, X, key), k)
      BY <2>1, <3>1, <3>2, TcpSaidAfter
    <3>5. ASSUME NEW g \in Gone PROVE TcpSaid(g, k)
      <4>1. Packets(g) \subseteq DOMAIN log /\ TcpSaid(g, log)
        BY <2>1 DEF PacketInv, Known, TcpInv, AllFlows
      <4>2. \A m \in Packets(g) : k[m] = log[m]
        BY <2>1, <3>2, <4>1, LogAfter
      <4> QED
        BY <4>1, <4>2, SaidOfPackets DEF TcpSaid
    <3>6. \A f \in AllFlows' : TcpSaid(f, k)
      BY <3>3, <3>4, <3>5
    <3> QED
      BY <3>2, <3>6 DEF TcpInv, TcpSaid, Packets
  <2>2. ASSUME TcpInv, UNCHANGED vars PROVE TcpInv'
    BY <2>2 DEF vars, TcpInv, TcpSaid, AllFlows, ActiveFlows, Gone, Packets
  <2> QED
    BY <2>1, <2>2 DEF Next
<1> QED
  BY <1>1, <1>2, TypeCorrect, KeyInvHolds, PacketInvHolds, PTL DEF Spec

\* The TCP state of every flow, active or not, is what its packets say,
\* for any interleaving of conversations and any number of expiries.
THEOREM StateFromPackets == Spec => []TcpStateFromPackets
<1>1. TcpInv => TcpStateFromPackets
  BY DEF TcpInv, TcpSaid, TcpStateFromPackets, Said, Deciding, Acked, Verdict
<1> QED
  BY <1>1, TcpInvHolds, PTL

-----------------------------------------------------------------------------
(* Events in order.                                                        *)

Reason(f) == \/ f.state = "RESET"
             \/ f.ended - f.last > IdleTimeout
             \/ f.ended - f.start > ActiveTimeout

Born ==
    /\ \A f \in AllFlows : f.born <= Len(log) /\ newest \in Int
    /\ \A f \in ActiveFlows, g \in Gone : SameConversation(g, f) => g.born < f.born

\* A flow ended for a reason, and no later one of its conversation started
\* before that.
Successive ==
    inOrder => /\ \A f \in Gone : f.ended <= newest /\ Reason(f)
               /\ \A f \in Gone, g \in AllFlows :
                     SameConversation(f, g) /\ f.born < g.born => g.start >= f.ended

\* The flows of other keys stay; that of the event has its time, and keeps
\* its start and its place unless it is new.
LEMMA TimesAfter ==
    ASSUME TypeOK, KeyInv, NEW e \in Inputs, Len(log) < MaxEvents,
           NEW key \in DOMAIN Touched(e)
    PROVE  \/ /\ key \in DOMAIN active /\ Touched(e)[key] = active[key]
           \/ /\ key \in DOMAIN active /\ Touched(e)[key].last = e.ts
              /\ Touched(e)[key].start = active[key].start
              /\ Touched(e)[key].born = active[key].born
              /\ Touched(e)[key].src = active[key].src
              /\ Touched(e)[key].dst = active[key].dst
              /\ Touched(e)[key].proto = active[key].proto
           \/ /\ key \notin DOMAIN active /\ Touched(e)[key].last = e.ts
              /\ Touched(e)[key].start = e.ts
              /\ Touched(e)[key].born = Len(log) + 1
<1>1. CASE key # KeyOf(e)
  BY <1>1, TouchedKeys
<1>2. CASE key = KeyOf(e)
  <2>1. Touched(e)[key] = Updated(Was(key, e), e, Len(log) + 1)
    BY <1>2 DEF Touched, KeyOf, FlowOf, Was
  <2>2. Was(key, e) \in Flows
    BY NewFlowType DEF Was, TypeOK, ActiveFlows
  <2>3. /\ Touched(e)[key].last = e.ts
        /\ Touched(e)[key].start = Was(key, e).start
        /\ Touched(e)[key].born = Was(key, e).born
        /\ Touched(e)[key].src = Was(key, e).src
        /\ Touched(e)[key].dst = Was(key, e).dst
        /\ Touched(e)[key].proto = Was(key, e).proto
    BY <2>1, <2>2 DEF Updated, Flows
  <2> QED
    BY <2>3 DEF Was, NewFlow
<1> QED
  BY <1>1, <1>2

\* Flows of two keys belong to two conversations.
LEMMA KeysApart ==
    ASSUME NEW f \in Flows, NEW g \in Flows,
           Key(f.src, f.dst, f.proto) # Key(g.src, g.dst, g.proto)
    PROVE  ~SameConversation(f, g)
<1>1. f.src \in Nat /\ f.dst \in Nat /\ g.src \in Nat /\ g.dst \in Nat
  BY DEF Flows
<1> QED
  BY <1>1, SameKey

LEMMA SameSymmetric ==
    ASSUME NEW f, NEW g
    PROVE  SameConversation(f, g) <=> SameConversation(g, f)
BY DEF SameConversation

LEMMA BornStep ==
    ASSUME TypeOK, KeyInv, Born, NEW e \in Inputs, ProcessEvent(e)
    PROVE  Born'
<1>1. PICK X : Expiry(e, X)
  BY StepExpires
<1>2. Len(log) < MaxEvents /\ Len(log) \in Nat /\ Len(log') = Len(log) + 1
  BY LogAfter DEF ProcessEvent, TypeOK
<1>3. newest' \in Int
  BY <1>2, TouchedType DEF ProcessEvent, TypeOK
<1>4. \A key \in DOMAIN active : active[key] \in Flows /\ active[key].born <= Len(log)
  BY DEF TypeOK, ActiveFlows, Born, AllFlows
<1>5. \A key \in DOMAIN Touched(e) : /\ Touched(e)[key] \in Flows
                                     /\ Touched(e)[key].born <= Len(log) + 1
  BY <1>2, <1>4, TimesAfter, TouchedType DEF Flows
<1>6. \A key \in DOMAIN Touched(e) : /\ Left(e, X, key).born = Touched(e)[key].born
                                     /\ Left(e, X, key) \in Flows
  BY <1>2, <1>5, EndedFields, EndedType, TouchedType DEF Left
<1>7. \A g \in Gone : g \in Flows /\ g.born \in Nat /\ g.born <= Len(log)
  BY DEF TypeOK, Gone, Flows, Born, AllFlows
<1>8. ASSUME NEW f \in AllFlows'
      PROVE  f.born <= Len(log) + 1
  BY <1>1, <1>2, <1>5, <1>6, <1>7, FlowsAfter
<1>9. ASSUME NEW f \in ActiveFlows', NEW g \in Gone', SameConversation(g, f)
      PROVE  g.born < f.born
  <2>1. PICK key \in DOMAIN Touched(e) \ X : f = Touched(e)[key]
    BY <1>1, FlowsAfter
  <2>2. CASE g \in Gone
    <3>1. CASE key \in DOMAIN active
      <4>1. f.born = active[key].born /\ SameConversation(g, active[key])
        BY <1>2, <1>9, <2>1, <3>1, TimesAfter DEF SameConversation
      <4> QED
        BY <2>2, <3>1, <4>1 DEF Born, ActiveFlows
    <3>2. CASE key \notin DOMAIN active
      BY <1>2, <1>7, <2>1, <2>2, <3>2, TimesAfter
    <3> QED
      BY <3>1, <3>2
  <2>3. CASE \E other \in X : g = Ended(Touched(e)[other], e.ts)
    <3>1. PICK other \in X : g = Ended(Touched(e)[other], e.ts)
      BY <2>3
    <3>2. other \in DOMAIN Touched(e) /\ other # key
      BY <1>1, <2>1 DEF Expiry
    <3>3. /\ g \in Flows /\ f \in Flows
          /\ g.src = Touched(e)[other].src /\ g.dst = Touched(e)[other].dst
          /\ g.proto = Touched(e)[other].proto
      <4>1. Touched(e)[other] \in Flows /\ e.ts \in Int /\ f \in Flows
        BY <1>2, <1>5, <2>1, <3>2, TouchedType
      <4>2. g \in Flows
        BY <3>1, <4>1, EndedType
      <4> QED
        BY <3>1, <4>1, <4>2, EndedFields
    <3>4. Key(g.src, g.dst, g.proto) # Key(f.src, f.dst, f.proto)
      BY <1>2, <2>1, <3>2, <3>3, TouchedKeys
    <3> QED
      BY <1>9, <3>3, <3>4, KeysApart
  <2> QED
    BY <1>1, <2>2, <2>3 DEF Expiry
<1> QED
  BY <1>2, <1>3, <1>8, <1>9 DEF Born, SameConversation

LEMMA BornHolds == Spec => []Born
<1>1. Init => Born
  BY DEF Init, Born, AllFlows, ActiveFlows, Gone
<1>2. TypeOK /\ KeyInv /\ Born /\ [Next]_vars => Born'
  <2>1. ASSUME Born, UNCHANGED vars PROVE Born'
    BY <2>1 DEF vars, Born, AllFlows, ActiveFlows, Gone, SameConversation
  <2> QED
    BY <2>1, BornStep DEF Next
<1> QED
  BY <1>1, <1>2, TypeCorrect, KeyInvHolds, PTL DEF Spec

\* In order, the timestamp of an event is the newest.
LEMMA NewestAfter ==
    ASSUME TypeOK, NEW e \in Inputs, ProcessEvent(e), inOrder'
    PROVE  /\ inOrder /\ newest' = e.ts /\ e.ts \in Int
           /\ newest = None \/ (newest \in Int /\ newest <= e.ts)
<1>1. e.ts \in Int
  BY LogAfter, TouchedType
<1>2. newest' = IF newest = None \/ e.ts > newest THEN e.ts ELSE newest
  BY DEF ProcessEvent
<1>3. inOrder /\ (newest = None \/ e.ts >= newest)
  BY DEF ProcessEvent
<1>4. newest \in Int \union {None}
  BY DEF TypeOK
<1> QED
  BY <1>1, <1>2, <1>3, <1>4

\* The flow of each key after an event is the one before or a new one.
LEMMA LeftFields ==
    ASSUME TypeOK, KeyInv, NEW e \in Inputs, NEW X, Expiry(e, X), Len(log) < MaxEvents,
           NEW key \in DOMAIN Touched(e), NEW f, f = Left(e, X, key)
    PROVE  /\ f \in Flows
           /\ key = Key(f.src, f.dst, f.proto)
           /\ \/ /\ key \in DOMAIN active
                 /\ f.start = active[key].start /\ f.born = active[key].born
                 /\ f.src = active[key].src /\ f.dst = active[key].dst
                 /\ f.proto = active[key].proto
              \/ /\ key \notin DOMAIN active
                 /\ f.start = e.ts /\ f.born = Len(log) + 1
<1>1. Touched(e)[key] \in Flows /\ e.ts \in Int
  BY TouchedType
<1>2. key = Key(Touched(e)[key].src, Touched(e)[key].dst, Touched(e)[key].proto)
  BY TouchedKeys
<1>3. CASE key \in X
  <2>1. f = Ended(Touched(e)[key], e.ts) /\ f \in Flows
    BY <1>1, <1>3, EndedType DEF Left
  <2>2. /\ f.src = Touched(e)[key].src /\ f.dst = Touched(e)[key].dst
        /\ f.proto = Touched(e)[key].proto
        /\ f.start = Touched(e)[key].start /\ f.born = Touched(e)[key].born
    BY <1>1, <2>1, EndedFields
  <2> QED
    BY <1>2, <2>1, <2>2, TimesAfter
<1>4. CASE key \notin X
  BY <1>1, <1>2, <1>4, TimesAfter DEF Left
<1> QED
  BY <1>3, <1>4

LEMMA SuccessiveStep ==
    ASSUME TypeOK, KeyInv, Marks, Born, Successive,
           NEW e \in Inputs, ProcessEvent(e), inOrder'
    PROVE  Successive'
<1>1. PICK X : Expiry(e, X)
  BY StepExpires
<1>2. Len(log) < MaxEvents /\ Len(log) \in Nat /\ e.ts \in Int
  BY LogAfter, NewestAfter
<1>3. inOrder /\ newest' = e.ts
  BY NewestAfter
<1>4. \A f \in Gone : /\ f \in Flows /\ f.ended \in Int /\ f.born \in Nat /\ f.born <= Len(log)
                      /\ f.ended <= e.ts /\ Reason(f)
  <2>1. \A f \in Gone : f \in Flows /\ f.ended \in Int /\ f.born \in Nat
    BY DEF TypeOK, Gone, Flows, Marks
  <2>2. \A f \in Gone : /\ f.ended <= newest /\ Reason(f)
                        /\ f.born <= Len(log) /\ newest \in Int
    BY <1>3 DEF Successive, Born, AllFlows
  <2>3. newest \in Int => newest <= e.ts
    BY NewestAfter
  <2> QED
    BY <1>2, <2>1, <2>2, <2>3
<1>5. \A key \in DOMAIN Touched(e) : Touched(e)[key] \in Flows
  BY <1>2, TouchedType
<1>6. ASSUME NEW f \in Gone'
      PROVE  f.ended <= newest' /\ Reason(f)
  <2>1. CASE f \in Gone
    BY <1>3, <1>4, <2>1
  <2>2. CASE \E key \in X : f = Ended(Touched(e)[key], e.ts)
    <3>1. PICK key \in X : f = Ended(Touched(e)[key], e.ts)
      BY <2>2
    <3>2. key \in DOMAIN Touched(e) /\ Expired(Touched(e)[key], e.ts)
      BY <1>1 DEF Expiry
    <3>3. Touched(e)[key].state # "CLOSED"
      BY <1>5, <3>2 DEF Flows, States
    <3>4. /\ f.ended = e.ts /\ f.state = Touched(e)[key].state
          /\ f.last = Touched(e)[key].last /\ f.start = Touched(e)[key].start
      BY <1>5, <3>1, <3>2, EndedFields
    <3> QED
      BY <1>2, <1>3, <3>2, <3>3, <3>4 DEF Expired, Reason
  <2> QED
    BY <1>1, <2>1, <2>2 DEF Expiry
<1>7. ASSUME NEW f \in Gone', NEW g \in AllFlows', SameConversation(f, g), f.born < g.born
      PROVE  g.start >= f.ended
  <2>1. CASE f \in Gone /\ g \in Gone
    BY <1>3, <1>7, <2>1 DEF Successive, AllFlows
  <2>2. CASE f \in Gone /\ g \notin Gone
    <3>1. PICK key \in DOMAIN Touched(e) : g = Left(e, X, key)
      BY <1>1, <2>2, FlowsAfter
    <3>2. CASE key \in DOMAIN active
      <4>1. /\ g.start = active[key].start /\ g.born = active[key].born
            /\ g.src = active[key].src /\ g.dst = active[key].dst
            /\ g.proto = active[key].proto
        BY <1>1, <1>2, <3>1, <3>2, LeftFields
      <4>2. /\ g.start = active[key].start /\ f.born < active[key].born
            /\ SameConversation(f, active[key])
        BY <1>7, <4>1 DEF SameConversation
      <4> QED
        BY <1>3, <2>2, <3>2, <4>2 DEF Successive, AllFlows, ActiveFlows
    <3>3. CASE key \notin DOMAIN active
      BY <1>1, <1>2, <1>4, <2>2, <3>1, <3>3, LeftFields
    <3> QED
      BY <3>2, <3>3
  <2>3. CASE f \notin Gone
    <3>1. PICK key \in X : f = Ended(Touched(e)[key], e.ts)
      BY <1>1, <2>3 DEF Expiry
    <3>2. key \in DOMAIN Touched(e) /\ f = Left(e, X, key)
      BY <1>1, <3>1 DEF Expiry, Left
    <3>3. CASE g \in Gone
      <4>1. CASE key \in DOMAIN active
        <5>1. f.born = active[key].born /\ SameConversation(g, active[key])
          BY <1>1, <1>2, <1>7, <3>2, <4>1, LeftFields DEF SameConversation
        <5>2. g.born < f.born
          BY <3>3, <4>1, <5>1 DEF Born, ActiveFlows
        <5>3. f \in Flows /\ g \in Flows
          BY <1>1, <1>2, <1>4, <3>2, <3>3, LeftFields
        <5> QED
          BY <1>7, <5>2, <5>3 DEF Flows
      <4>2. CASE key \notin DOMAIN active
        BY <1>1, <1>2, <1>4, <1>7, <3>2, <3>3, <4>2, LeftFields
      <4> QED
        BY <4>1, <4>2
    <3>4. CASE g \notin Gone
      <4>1. PICK other \in DOMAIN Touched(e) : g = Left(e, X, other)
        BY <1>1, <3>4, FlowsAfter
      <4>2. /\ f \in Flows /\ key = Key(f.src, f.dst, f.proto)
            /\ g \in Flows /\ other = Key(g.src, g.dst, g.proto)
        BY <1>1, <1>2, <3>2, <4>1, LeftFields
      <4>3. key = other
        BY <1>7, <4>2, KeysApart
      <4> QED
        BY <1>7, <3>2, <4>1, <4>2, <4>3 DEF Flows
    <3> QED
      BY <3>3, <3>4
  <2> QED
    BY <2>1, <2>2, <2>3
<1> QED
  BY <1>6, <1>7 DEF Successive, Reason, SameConversation

LEMMA SuccessiveHolds == Spec => []Successive
<1>1. Init => Successive
  BY DEF Init, Successive, Gone
<1>2. TypeOK /\ KeyInv /\ PacketInv /\ Born /\ Successive /\ [Next]_vars => Successive'
  <2>1. ASSUME Successive, UNCHANGED vars PROVE Successive'
    BY <2>1 DEF vars, Successive, AllFlows, ActiveFlows, Gone, SameConversation, Reason
  <2>2. ~inOrder' => Successive'
    BY DEF Successive
  <2> QED
    BY <2>1, <2>2, SuccessiveStep DEF Next, PacketInv
<1> QED
  BY <1>1, <1>2, TypeCorrect, KeyInvHolds, PacketInvHolds, BornHolds, PTL DEF Spec

\* A conversation whose events come in order is cut in two only by a pause,
\* by its length, or by a reset.
THEOREM NoCutWithoutReason == Spec => []CutForReason
<1>1. TypeOK /\ Marks /\ Successive => CutForReason
  <2> SUFFICES ASSUME TypeOK, Marks, Successive, inOrder,
                      NEW f \in Gone, NEW g \in AllFlows,
                      SameConversation(f, g), f.born < g.born
               PROVE  \/ f.state = "RESET"
                      \/ g.start - f.last > IdleTimeout
                      \/ g.start - f.start > ActiveTimeout
    BY DEF CutForReason
  <2>1. f \in Flows /\ g \in Flows /\ f.ended \in Int
    BY DEF TypeOK, AllFlows, Gone, Marks
  <2>2. g.start >= f.ended /\ Reason(f)
    BY DEF Successive
  <2> QED
    BY <2>1, <2>2 DEF Reason, Flows
<1>2. PacketInv => Marks
  BY DEF PacketInv
<1> QED
  BY <1>1, <1>2, TypeCorrect, PacketInvHolds, SuccessiveHolds, PTL

-----------------------------------------------------------------------------
(* No flow late for its expiry.                                            *)

\* The last cleanup is not long ago, and spared the flows it did not find
\* expired.
Swept ==
    inOrder => /\ newest # None => newest - lastCleanup <= CleanupPeriod
               /\ lastCleanup = Started \/ (newest # None /\ lastCleanup <= newest)
               /\ \A f \in ActiveFlows :
                     /\ newest \in Int /\ f.start <= newest
                     /\ f.start >= Started =>
                           /\ lastCleanup - f.last <= IdleTimeout
                           /\ lastCleanup - f.start <= ActiveTimeout
                           /\ f.state = "RESET" => f.last >= lastCleanup

LEMMA SweptStep ==
    ASSUME TypeOK, KeyInv, Swept, NEW e \in Inputs, ProcessEvent(e), inOrder'
    PROVE  Swept'
<1>1. PICK X : Expiry(e, X)
  BY StepExpires
<1>2. Len(log) < MaxEvents /\ e.ts \in Int /\ lastCleanup \in Int
  BY LogAfter, NewestAfter DEF TypeOK
<1>3. inOrder /\ newest' = e.ts /\ (newest = None \/ (newest \in Int /\ newest <= e.ts))
  BY NewestAfter
<1>4. newest' # None
  BY <1>2, <1>3
<1>5. lastCleanup' = e.ts \/ (lastCleanup' = lastCleanup /\ e.ts - lastCleanup <= CleanupPeriod)
  BY <1>1 DEF Expiry
<1>6. newest' - lastCleanup' <= CleanupPeriod
  BY <1>2, <1>3, <1>5
<1>7. lastCleanup' = Started \/ lastCleanup' <= newest'
  BY <1>2, <1>3, <1>5 DEF Swept
<1>8. ASSUME NEW f \in ActiveFlows'
      PROVE  /\ f.start <= newest'
             /\ f.start >= Started =>
                   /\ lastCleanup' - f.last <= IdleTimeout
                   /\ lastCleanup' - f.start <= ActiveTimeout
                   /\ f.state = "RESET" => f.last >= lastCleanup'
  <2>1. PICK key \in DOMAIN Touched(e) \ X : f = Touched(e)[key]
    BY <1>1, FlowsAfter
  <2>2. f \in Flows
    BY <1>2, <2>1, TouchedType
  <2>3. \/ f \in ActiveFlows
        \/ f.last = e.ts /\ \E g \in ActiveFlows : f.start = g.start
        \/ f.last = e.ts /\ f.start = e.ts
    BY <1>2, <2>1, TimesAfter DEF ActiveFlows
  <2>4. \A g \in ActiveFlows : /\ g \in Flows /\ newest \in Int /\ g.start <= newest
                               /\ g.start >= Started =>
                                     /\ lastCleanup - g.last <= IdleTimeout
                                     /\ lastCleanup - g.start <= ActiveTimeout
                                     /\ g.state = "RESET" => g.last >= lastCleanup
    BY <1>3 DEF Swept, TypeOK
  <2>5. f.start <= newest'
    BY <1>2, <1>3, <2>3, <2>4 DEF Flows
  <2>6. CASE lastCleanup' = e.ts /\ ~Expired(f, e.ts)
    BY <1>2, <2>2, <2>5, <2>6 DEF Expired, Flows
  <2>7. CASE lastCleanup' = lastCleanup
    <3>1. CASE f \in ActiveFlows
      BY <2>4, <2>5, <2>7, <3>1
    <3>2. CASE f.last = e.ts /\ (f.start = e.ts \/ \E g \in ActiveFlows : f.start = g.start)
      <4>1. f.start >= Started => lastCleanup <= e.ts
        BY <1>2, <1>3, <2>2, <2>5 DEF Swept, Flows
      <4>2. f.start = e.ts \/ (f.start >= Started => lastCleanup - f.start <= ActiveTimeout)
        BY <2>4, <3>2
      <4> QED
        BY <1>2, <2>2, <2>5, <2>7, <3>2, <4>1, <4>2 DEF Flows
    <3> QED
      BY <2>3, <3>1, <3>2
  <2> QED
    BY <1>1, <2>1, <2>5, <2>6, <2>7 DEF Expiry
<1> QED
  BY <1>2, <1>3, <1>4, <1>6, <1>7, <1>8 DEF Swept

LEMMA SweptHolds == Spec => []Swept
<1>1. Init => Swept
  BY DEF Init, Swept, ActiveFlows
<1>2. TypeOK /\ KeyInv /\ Swept /\ [Next]_vars => Swept'
  <2>1. ASSUME Swept, UNCHANGED vars PROVE Swept'
    BY <2>1 DEF vars, Swept, ActiveFlows
  <2>2. ~inOrder' => Swept'
    BY DEF Swept
  <2> QED
    BY <2>1, <2>2, SweptStep DEF Next
<1> QED
  BY <1>1, <1>2, TypeCorrect, KeyInvHolds, PTL DEF Spec

\* A flow that started after the tracker is late for its expiry by at most
\* one cleanup period, for events in order.
THEOREM NoLateFlow == Spec => []ExpiryPrompt
<1>1. TypeOK /\ Swept => ExpiryPrompt
  <2> SUFFICES ASSUME TypeOK, Swept, inOrder, NEW f \in ActiveFlows, f.start >= Started
               PROVE  /\ newest - f.last <= IdleTimeout + CleanupPeriod
                      /\ newest - f.start <= ActiveTimeout + CleanupPeriod
                      /\ f.state = "RESET" => newest - f.last <= CleanupPeriod
    BY DEF ExpiryPrompt
  <2>1. f.last \in Int /\ f.start \in Int /\ lastCleanup \in Int
    BY DEF TypeOK, Flows
  <2>2. newest \in Int /\ newest - lastCleanup <= CleanupPeriod
    BY DEF Swept
  <2>3. /\ lastCleanup - f.last <= IdleTimeout
        /\ lastCleanup - f.start <= ActiveTimeout
        /\ f.state = "RESET" => f.last >= lastCleanup
    BY DEF Swept
  <2> QED
    BY <2>1, <2>2, <2>3
<1> QED
  BY <1>1, TypeCorrect, SweptHolds, PTL

==============================================================================
