------------------------- MODULE SlidingWindowProofs -------------------------
(***************************************************************************)
(* What TLAPS proves of SlidingWindow, for every size, slide, set of       *)
(* timestamps and number of calls.  With any number of threads: types, no  *)
(* window skipped, no event accepted twice.  As long as calls do not       *)
(* overlap: windows complete and in order, and every event analysed.       *)
(***************************************************************************)
EXTENDS SlidingWindow, FiniteSetTheorems, TLAPS

USE WindowAssumption

-----------------------------------------------------------------------------
(* Types.                                                                  *)

\* What an assignment to one field of a thread's locals preserves.
LEMMA LocalField ==
    ASSUME NEW t \in Threads, local \in [Threads -> Locals]
    PROVE  /\ \A a \in Arrivals : [local EXCEPT ![t].event = a] \in [Threads -> Locals]
           /\ \A A \in SUBSET Arrivals : [local EXCEPT ![t].ordered = A] \in [Threads -> Locals]
           /\ \A n \in Int : [local EXCEPT ![t].newest = n] \in [Threads -> Locals]
           /\ \A n \in Int : [local EXCEPT ![t].end = n] \in [Threads -> Locals]
           /\ \A K \in SUBSET Keys : [local EXCEPT ![t].kept = K] \in [Threads -> Locals]
           /\ [local EXCEPT ![t] = NoLocal] \in [Threads -> Locals]
  BY DEF Locals, NoLocal

\* The conjunct of TypeOK that says what a thread has at hand at each step.
Located ==
    \A t \in Threads : /\ pc[t] = "append" => local[t].event \in Arrivals
                       /\ pc[t] \in {"loop", "emit", "evict"} => lastEmit # None

\* The arrival that Accept builds.
Arrival(k) == [id |-> calls + 1, key |-> k,
               after |-> IF lastEmit = None THEN k.ts - Slide ELSE lastEmit]

LEMMA ArrivalType ==
    ASSUME TypeOK, NEW k \in Keys, calls < MaxCalls
    PROVE  Arrival(k) \in Arrivals /\ Arrival(k).key = k
<1>1. k.ts \in Int
  BY DEF Keys
<1>2. (IF lastEmit = None THEN k.ts - Slide ELSE lastEmit) \in Int
  BY <1>1 DEF TypeOK
<1>3. calls + 1 \in 1..MaxCalls
  BY DEF TypeOK
<1> QED
  BY <1>2, <1>3 DEF Arrival, Arrivals

\* Every variable keeps its type, with any number of threads inside add; in
\* particular a thread that appends has an event in hand.
THEOREM TypeCorrect == Spec => []TypeOK
<1>1. Init => TypeOK
  <2>1. NoLocal \in Locals /\ "idle" \in Steps
    BY DEF Locals, NoLocal, Steps
  <2> SUFFICES ASSUME Init PROVE TypeOK
    OBVIOUS
  <2>2. local \in [Threads -> Locals] /\ pc \in [Threads -> Steps]
    BY <2>1 DEF Init
  <2>3. calls \in 0..MaxCalls /\ \A t \in Threads : pc[t] = "idle"
    BY DEF Init
  <2> QED
    BY <2>2, <2>3 DEF Init, TypeOK
<1>2. TypeOK /\ [Next]_vars => TypeOK'
  <2> SUFFICES ASSUME TypeOK, [Next]_vars PROVE TypeOK'
    OBVIOUS
  <2>1. ASSUME NEW t \in Threads, NEW k \in Keys, Duplicate(t, k)
        PROVE  TypeOK'
    BY <2>1 DEF Duplicate, Called, Goto, TypeOK, object, Steps
  <2>2. ASSUME NEW t \in Threads, NEW k \in Keys, Accept(t, k)
        PROVE  TypeOK'
    <3>1. Arrival(k) \in Arrivals
      BY <2>2, ArrivalType DEF Accept, Called
    <3>2. local' = [local EXCEPT ![t].event = Arrival(k)]
      BY <2>2 DEF Accept, Arrival
    <3>3. local' \in [Threads -> Locals]
      BY <3>1, <3>2, LocalField DEF TypeOK
    <3>4. accepted' \subseteq Arrivals
      BY <2>2, <3>1 DEF Accept, Arrival, TypeOK
    <3>5. calls' \in 0..MaxCalls /\ overlapped' \in BOOLEAN
      BY <2>2 DEF Accept, Called, TypeOK
    <3>6. pc' \in [Threads -> Steps]
      BY <2>2 DEF Accept, Goto, Steps, TypeOK
    <3>7. Located'
      BY <2>2, <3>1, <3>2 DEF Located, Accept, Goto, TypeOK, Locals
    <3> QED
      BY <2>2, <3>3, <3>4, <3>5, <3>6, <3>7 DEF Accept, TypeOK, Located
  <2>3. ASSUME NEW t \in Threads, AppendEvent(t) \/ Order(t) \/ NoneDue(t) \/ EvictOne(t) \/ EvictDone(t)
        PROVE  TypeOK'
    <3>1. pc' \in [Threads -> Steps]
      BY <2>3 DEF AppendEvent, Order, NoneDue, EvictOne, EvictDone, Goto, Steps, TypeOK
    <3>2. events' \subseteq Arrivals
      BY <2>3 DEF AppendEvent, Order, NoneDue, EvictOne, EvictDone, Goto, TypeOK, object
    <3>3. local' \in [Threads -> Locals]
      BY <2>3, LocalField DEF AppendEvent, Order, NoneDue, EvictOne, EvictDone, TypeOK
    <3>4. Located'
      BY <2>3 DEF Located, object, history, AppendEvent, Order, NoneDue, EvictOne, EvictDone, Goto, TypeOK
    <3> QED
      BY <2>3, <3>1, <3>2, <3>3, <3>4
      DEF AppendEvent, Order, NoneDue, EvictOne, EvictDone, TypeOK, Located, object, history
  <2>4. ASSUME NEW t \in Threads, Store(t) \/ WindowDue(t) \/ Trim(t)
        PROVE  TypeOK'
    <3>1. pc' \in [Threads -> Steps]
      BY <2>4 DEF Store, WindowDue, Trim, Goto, Steps, TypeOK
    <3>2. \A a \in local[t].ordered : a \in Arrivals /\ a.key.ts \in Int
      BY DEF TypeOK, Locals, Arrivals, Keys
    <3>3. local' \in [Threads -> Locals]
      <4>1. CASE Store(t)
        BY <3>2, <4>1, LocalField DEF Store, TypeOK
      <4>2. CASE WindowDue(t)
        <5>1. lastEmit \in Int
          BY <4>2 DEF WindowDue, Goto, TypeOK
        <5>2. lastEmit + Slide \in Int
          BY <5>1
        <5>3. local' = [local EXCEPT ![t].end = lastEmit + Slide] /\ local \in [Threads -> Locals]
          BY <4>2 DEF WindowDue, TypeOK
        <5> QED
          BY <5>2, <5>3, LocalField
      <4>3. CASE Trim(t)
        <5>1. PICK keep \in SUBSET seen : local' = [local EXCEPT ![t].kept = keep]
          BY <4>3 DEF Trim
        <5>2. keep \in SUBSET Keys /\ local \in [Threads -> Locals]
          BY DEF TypeOK
        <5> QED
          BY <5>1, <5>2, LocalField
      <4> QED
        BY <2>4, <4>1, <4>2, <4>3
    <3>4. events' \subseteq Arrivals
      BY <2>4, <3>2 DEF Store, WindowDue, Trim, TypeOK, object
    <3>5. lastEmit' \in Int \union {None}
      BY <2>4, <3>2 DEF Store, WindowDue, Trim, TypeOK, object
    <3>6. Located'
      BY <2>4, <3>2 DEF Located, object, history, Store, WindowDue, Trim, Goto, TypeOK
    <3> QED
      BY <2>4, <3>1, <3>3, <3>4, <3>5, <3>6 DEF Store, WindowDue, Trim, TypeOK, Located, object, history
  <2>5. ASSUME NEW t \in Threads, Emit(t)
        PROVE  TypeOK'
    <3>1. local[t].end \in Int /\ Within(local[t].ordered, local[t].end) \subseteq Arrivals
      BY DEF TypeOK, Locals, Within
    <3> QED
      BY <2>5, <3>1 DEF Emit, Goto, TypeOK, Steps
  <2>6. ASSUME NEW t \in Threads, StoreRaises(t) \/ SeenFits(t) \/ Forget(t)
        PROVE  TypeOK'
    <3>1. local' \in [Threads -> Locals]
      BY <2>6, LocalField DEF StoreRaises, SeenFits, Forget, Return, TypeOK
    <3>2. seen' \subseteq Keys
      BY <2>6 DEF StoreRaises, SeenFits, Forget, TypeOK, Locals, object
    <3> QED
      BY <2>6, <3>1, <3>2
      DEF StoreRaises, SeenFits, Forget, Return, TypeOK, Steps, object, history
  <2>7. CASE UNCHANGED vars
    BY <2>7 DEF vars, TypeOK
  <2> QED
    BY <2>1, <2>2, <2>3, <2>4, <2>5, <2>6, <2>7 DEF Next, InAdd
<1> QED
  BY <1>1, <1>2, PTL DEF Spec

-----------------------------------------------------------------------------
(* Duplicates, with any number of threads.                                 *)

\* As long as the keys accepted fit into seen, seen is exactly these keys
\* and no thread is about to replace it.
Remembered ==
    Cardinality(KeysOf(accepted)) <= SeenMax =>
        /\ seen = KeysOf(accepted)
        /\ \A t \in Threads : pc[t] # "forget"
        /\ \A a, b \in accepted : a.key = b.key => a = b

MemoryInv == IsFiniteSet(KeysOf(accepted)) /\ Remembered

LEMMA MemoryAccept ==
    ASSUME TypeOK, MemoryInv, NEW t \in Threads, NEW k \in Keys, Accept(t, k)
    PROVE  MemoryInv'
<1>1. Arrival(k).key = k /\ accepted' = accepted \union {Arrival(k)}
  BY ArrivalType DEF Accept, Called, Arrival
<1>2. KeysOf(accepted)' = KeysOf(accepted) \union {k}
  BY <1>1 DEF KeysOf
<1>3. /\ IsFiniteSet(KeysOf(accepted)')
      /\ Cardinality(KeysOf(accepted)') = IF k \in KeysOf(accepted)
                                          THEN Cardinality(KeysOf(accepted))
                                          ELSE Cardinality(KeysOf(accepted)) + 1
      /\ Cardinality(KeysOf(accepted)) \in Nat
  BY <1>2, FS_AddElement, FS_CardinalityType DEF MemoryInv
<1>4. ASSUME Cardinality(KeysOf(accepted)') <= SeenMax
      PROVE  /\ seen' = KeysOf(accepted)'
             /\ \A u \in Threads : pc'[u] # "forget"
             /\ \A a, b \in accepted' : a.key = b.key => a = b
  <2>1. Cardinality(KeysOf(accepted)) <= SeenMax
    BY <1>3, <1>4
  <2>2. /\ seen = KeysOf(accepted)
        /\ \A u \in Threads : pc[u] # "forget"
        /\ \A a, b \in accepted : a.key = b.key => a = b
    BY <2>1 DEF MemoryInv, Remembered
  <2>3. k \notin KeysOf(accepted) /\ seen' = seen \union {k}
    BY <2>2 DEF Accept
  <2>4. \A a \in accepted : a.key # k
    BY <2>3 DEF KeysOf
  <2>5. \A u \in Threads : pc'[u] # "forget"
    BY <2>2 DEF Accept, Goto, TypeOK
  <2> QED
    BY <1>1, <1>2, <2>2, <2>3, <2>4, <2>5
<1> QED
  BY <1>3, <1>4 DEF MemoryInv, Remembered

\* However calls overlap, a key that seen still holds is not accepted again:
\* without a trim every key is accepted once.
THEOREM NoEventTwice == Spec => []AcceptedOnce
<1>1. Init => MemoryInv
  <2> SUFFICES ASSUME Init PROVE MemoryInv
    OBVIOUS
  <2>1. KeysOf(accepted) = {} /\ accepted = {} /\ seen = {} /\ \A t \in Threads : pc[t] = "idle"
    BY DEF Init, KeysOf
  <2> QED
    BY <2>1, FS_EmptySet DEF MemoryInv, Remembered
<1>2. TypeOK /\ MemoryInv /\ [Next]_vars => MemoryInv'
  <2> SUFFICES ASSUME TypeOK, MemoryInv, [Next]_vars PROVE MemoryInv'
    OBVIOUS
  <2>1. ASSUME NEW t \in Threads, NEW k \in Keys, Accept(t, k)
        PROVE  MemoryInv'
    BY <2>1, MemoryAccept
  <2>2. ASSUME NEW t \in Threads, Trim(t) \/ Forget(t)
        PROVE  MemoryInv'
    \* seen is larger than SeenMax, or was about to be replaced: the keys
    \* accepted no longer fit.
    <3>1. ~(Cardinality(KeysOf(accepted)) <= SeenMax)
      <4>1. Cardinality(KeysOf(accepted)) \in Nat
        BY FS_CardinalityType DEF MemoryInv
      <4> QED
        BY <2>2, <4>1 DEF Trim, Forget, Goto, MemoryInv, Remembered
    <3>2. accepted' = accepted
      BY <2>2 DEF Trim, Forget, history
    <3> QED
      BY <3>1, <3>2 DEF MemoryInv, Remembered, KeysOf
  <2>3. ASSUME accepted' = accepted, seen' = seen,
               \A u \in Threads : pc'[u] = "forget" => pc[u] = "forget"
        PROVE  MemoryInv'
    BY <2>3 DEF MemoryInv, Remembered, KeysOf
  <2>4. ASSUME NEW t \in Threads, NEW k \in Keys, Duplicate(t, k)
        PROVE  MemoryInv'
    BY <2>3, <2>4 DEF Duplicate, Goto, object, TypeOK
  <2>5. ASSUME NEW t \in Threads,
               \/ AppendEvent(t) \/ Order(t) \/ Store(t) \/ StoreRaises(t) \/ WindowDue(t)
               \/ NoneDue(t) \/ Emit(t) \/ EvictOne(t) \/ EvictDone(t) \/ SeenFits(t)
        PROVE  MemoryInv'
    <3>1. accepted' = accepted /\ seen' = seen
      BY <2>5 DEF AppendEvent, Order, Store, StoreRaises, WindowDue, NoneDue, Emit, EvictOne,
                  EvictDone, SeenFits, object, history
    <3>2. \A u \in Threads : pc'[u] = "forget" => pc[u] = "forget"
      BY <2>5 DEF AppendEvent, Order, Store, StoreRaises, WindowDue, NoneDue, Emit, EvictOne,
                  EvictDone, SeenFits, Return, Goto, TypeOK
    <3> QED
      BY <2>3, <3>1, <3>2
  <2>6. CASE UNCHANGED vars
    BY <2>3, <2>6 DEF vars
  <2> QED
    BY <2>1, <2>2, <2>4, <2>5, <2>6 DEF Next, InAdd
<1>3. MemoryInv => AcceptedOnce
  BY DEF MemoryInv, Remembered, AcceptedOnce
<1> QED
  BY <1>1, <1>2, <1>3, TypeCorrect, PTL DEF Spec

-----------------------------------------------------------------------------
(* The grid of windows, with any number of threads.                        *)

\* last_emit is the end of an emitted window, and every window about to be
\* emitted repeats one or follows one.
Grid ==
    /\ lastEmit = None => ends = {}
    /\ ends # {} => lastEmit \in ends
    /\ \A t \in Threads : pc[t] = "emit" =>
          /\ ends = {} => local[t].end = lastEmit + Slide
          /\ ends # {} => local[t].end \in ends \/ local[t].end - Slide \in ends

GridInv == Grid /\ NoWindowSkipped

LEMMA GridEmit ==
    ASSUME TypeOK, GridInv, NEW t \in Threads, Emit(t)
    PROVE  GridInv'
<1> DEFINE end == local[t].end
<1>1. /\ pc[t] = "emit" /\ pc' = [pc EXCEPT ![t] = "loop"]
      /\ ends' = ends \union {end} /\ lastEmit' = end /\ local' = local
  BY DEF Emit, Goto
<1>2. end \in Int /\ ends \subseteq Int /\ lastEmit \in Int
  BY <1>1 DEF TypeOK, Locals
<1>3. \A u \in Threads : pc'[u] = "emit" => pc[u] = "emit"
  BY <1>1 DEF TypeOK
<1>4. CASE ends = {}
  <2>1. ends' = {end} /\ \A u \in Threads : pc'[u] = "emit" => local'[u].end = end
    BY <1>1, <1>3, <1>4 DEF GridInv, Grid
  <2> QED
    BY <1>1, <1>2, <2>1 DEF GridInv, Grid, NoWindowSkipped
<1>5. CASE ends # {} /\ end \in ends
  <2>1. ends' = ends
    BY <1>1, <1>5
  <2> QED
    BY <1>1, <1>2, <1>3, <1>5, <2>1 DEF GridInv, Grid, NoWindowSkipped
<1>6. CASE ends # {} /\ end - Slide \in ends
  <2>1. NoWindowSkipped'
    <3>1. \A e \in ends : e - Slide \in ends' \/ \A other \in ends' : e <= other
      <4> SUFFICES ASSUME NEW e \in ends, e - Slide \notin ends'
                   PROVE  \A other \in ends' : e <= other
        OBVIOUS
      <4>1. \A other \in ends : e <= other
        BY <1>1 DEF GridInv, NoWindowSkipped
      <4>2. e <= end - Slide
        BY <1>6, <4>1
      <4>3. e <= end
        BY <1>2, <4>2
      <4> QED
        BY <1>1, <4>1, <4>3
    <3> QED
      BY <1>1, <1>6, <3>1 DEF NoWindowSkipped
  <2> QED
    BY <1>1, <1>2, <1>3, <1>6, <2>1 DEF GridInv, Grid
<1> QED
  BY <1>1, <1>4, <1>5, <1>6 DEF GridInv, Grid

LEMMA GridStep == TypeOK /\ GridInv /\ [Next]_vars => GridInv'
<1> SUFFICES ASSUME TypeOK, GridInv, [Next]_vars PROVE GridInv'
  OBVIOUS
<1>1. ASSUME NEW t \in Threads, Emit(t)
      PROVE  GridInv'
  BY <1>1, GridEmit
<1>2. ASSUME NEW t \in Threads, WindowDue(t)
      PROVE  GridInv'
  <2>1. /\ pc[t] = "loop" /\ pc' = [pc EXCEPT ![t] = "emit"]
        /\ local' = [local EXCEPT ![t].end = lastEmit + Slide]
        /\ UNCHANGED <<lastEmit, ends>>
    BY <1>2 DEF WindowDue, Goto, object, history
  <2>2. local \in [Threads -> Locals] /\ pc \in [Threads -> Steps] /\ lastEmit \in Int
    BY <2>1 DEF TypeOK
  <2>3. local'[t].end = lastEmit + Slide
    BY <2>1, <2>2 DEF Locals
  <2>4. \A u \in Threads \ {t} : pc'[u] = pc[u] /\ local'[u] = local[u]
    BY <2>1, <2>2
  <2>5. ends # {} => local'[t].end - Slide \in ends
    BY <2>2, <2>3 DEF GridInv, Grid
  <2> QED
    BY <2>1, <2>3, <2>4, <2>5 DEF GridInv, Grid, NoWindowSkipped
<1>3. ASSUME NEW t \in Threads, Store(t)
      PROVE  GridInv'
  <2>1. /\ pc[t] = "store" /\ pc' = [pc EXCEPT ![t] = "loop"]
        /\ ends' = ends
        /\ lastEmit # None => lastEmit' = lastEmit
        /\ \A u \in Threads \ {t} : local'[u] = local[u]
    BY <1>3 DEF Store, Goto, history, TypeOK
  <2>2. \A u \in Threads : pc'[u] = "emit" => u # t /\ pc[u] = "emit" /\ lastEmit # None
    BY <2>1 DEF TypeOK
  <2>3. CASE lastEmit = None
    BY <2>1, <2>2, <2>3 DEF GridInv, Grid, NoWindowSkipped
  <2>4. CASE lastEmit # None
    BY <2>1, <2>2, <2>4 DEF GridInv, Grid, NoWindowSkipped
  <2> QED
    BY <2>3, <2>4
<1>4. ASSUME UNCHANGED <<lastEmit, ends>>,
             \A u \in Threads : pc'[u] = "emit" => pc[u] = "emit" /\ local'[u].end = local[u].end
      PROVE  GridInv'
  BY <1>4 DEF GridInv, Grid, NoWindowSkipped
<1>5. ASSUME NEW t \in Threads, NEW k \in Keys, Duplicate(t, k) \/ Accept(t, k)
      PROVE  GridInv'
  <2>1. UNCHANGED <<lastEmit, ends>>
    BY <1>5 DEF Duplicate, Accept, object
  <2>2. pc' \in [Threads -> Steps] /\ \A u \in Threads : pc'[u] = "emit" => u # t /\ pc[u] = "emit"
    BY <1>5 DEF Duplicate, Accept, Goto, TypeOK, Steps
  <2>3. \A u \in Threads \ {t} : local'[u] = local[u]
    BY <1>5 DEF Duplicate, Accept, TypeOK
  <2> QED
    BY <1>4, <2>1, <2>2, <2>3
<1>6. ASSUME NEW t \in Threads,
             \/ AppendEvent(t) \/ Order(t) \/ StoreRaises(t) \/ NoneDue(t) \/ EvictOne(t)
             \/ EvictDone(t) \/ SeenFits(t) \/ Trim(t) \/ Forget(t)
      PROVE  GridInv'
  <2>1. UNCHANGED <<lastEmit, ends>>
    BY <1>6 DEF AppendEvent, Order, StoreRaises, NoneDue, EvictOne, EvictDone, SeenFits, Trim,
                Forget, object, history
  <2>2. \A u \in Threads : pc'[u] = "emit" => u # t /\ pc[u] = "emit"
    BY <1>6 DEF AppendEvent, Order, StoreRaises, NoneDue, EvictOne, EvictDone, SeenFits, Trim,
                Forget, Return, Goto, TypeOK
  <2>3. \A u \in Threads \ {t} : local'[u] = local[u]
    BY <1>6 DEF AppendEvent, Order, StoreRaises, NoneDue, EvictOne, EvictDone, SeenFits, Trim,
                Forget, Return, TypeOK
  <2> QED
    BY <1>4, <2>1, <2>2, <2>3
<1>7. CASE UNCHANGED vars
  BY <1>4, <1>7 DEF vars
<1> QED
  BY <1>1, <1>2, <1>3, <1>5, <1>6, <1>7 DEF Next, InAdd

LEMMA GridAlways == Spec => []GridInv
<1>1. Init => GridInv
  BY DEF Init, GridInv, Grid, NoWindowSkipped
<1> QED
  BY <1>1, GridStep, TypeCorrect, PTL DEF Spec

\* However calls overlap, the windows emitted leave no gap: last_emit may go
\* back and windows may be repeated, but none is skipped.
THEOREM NoGap == Spec => []NoWindowSkipped
<1>1. GridInv => NoWindowSkipped
  BY DEF GridInv
<1> QED
  BY <1>1, GridAlways, PTL

-----------------------------------------------------------------------------
(* Calls of add one after the other.                                       *)

Alone == \A t, u \in Threads : pc[t] # "idle" /\ pc[u] # "idle" => t = u

\* Until the first event has started the grid it is the only one.
FirstEvent ==
    lastEmit = None =>
        /\ (\A t \in Threads : pc[t] = "idle") => accepted = {}
        /\ \A t \in Threads : pc[t] # "idle" => /\ pc[t] \in {"append", "order", "store"}
                                                /\ accepted = {local[t].event}

\* What the thread inside add knows of the object.
InPlace ==
    \A t \in Threads :
       /\ pc[t] = "append" => local[t].event \in accepted
       /\ pc[t] \in {"order", "store"} => local[t].event \in events
       /\ pc[t] \in {"store", "loop", "emit"} => local[t].ordered = events
       /\ pc[t] = "emit" => local[t].end = lastEmit + Slide
       /\ pc[t] = "evict" => local[t].newest - lastEmit < Slide

Appending(a) == \E t \in Threads : pc[t] = "append" /\ local[t].event = a

\* An accepted event is in the deque, about to be appended, or too old for
\* any window to come.
Kept ==
    /\ events \subseteq accepted
    /\ \A a \in accepted : \/ a \in events
                           \/ Appending(a)
                           \/ lastEmit # None /\ a.key.ts <= lastEmit - Size

\* The last window emitted is the latest.
Latest == \A end \in ends : end <= lastEmit

TurnInv == InTurn => Alone /\ FirstEvent /\ InPlace /\ Kept /\ Latest

LEMMA TurnAccept ==
    ASSUME TypeOK, TurnInv, NEW t \in Threads, NEW k \in Keys, Accept(t, k)
    PROVE  TurnInv'
<1> SUFFICES ASSUME InTurn' PROVE Alone' /\ FirstEvent' /\ InPlace' /\ Kept' /\ Latest'
  BY DEF TurnInv
<1>1. InTurn /\ \A u \in Threads : pc[u] = "idle"
  BY DEF Accept, Called, Goto, InTurn, TypeOK
<1>2. /\ pc' = [pc EXCEPT ![t] = "append"] /\ local' = [local EXCEPT ![t].event = Arrival(k)]
      /\ accepted' = accepted \union {Arrival(k)}
      /\ UNCHANGED <<events, lastEmit, ends>>
  BY DEF Accept, Goto, Arrival
<1>3. pc'[t] = "append" /\ local'[t].event = Arrival(k) /\ \A u \in Threads \ {t} : pc'[u] = "idle"
  BY <1>1, <1>2 DEF TypeOK, Locals
<1>4. Alone /\ FirstEvent /\ InPlace /\ Kept /\ Latest
  BY <1>1 DEF TurnInv
<1>5. Alone'
  BY <1>3 DEF Alone
<1>6. FirstEvent'
  BY <1>1, <1>2, <1>3, <1>4 DEF FirstEvent
<1>7. InPlace'
  BY <1>2, <1>3 DEF InPlace
<1>8. Kept'
  <2>1. \A a \in accepted : ~Appending(a)
    BY <1>1 DEF Appending
  <2>2. ASSUME NEW a \in accepted'
        PROVE  \/ a \in events'
               \/ \E u \in Threads : pc'[u] = "append" /\ local'[u].event = a
               \/ lastEmit' # None /\ a.key.ts <= lastEmit' - Size
    <3>1. CASE a = Arrival(k)
      BY <1>3, <3>1
    <3>2. CASE a \in accepted
      BY <1>2, <1>4, <2>1, <3>2 DEF Kept
    <3> QED
      BY <1>2, <3>1, <3>2
  <2> QED
    BY <1>2, <1>4, <2>2 DEF Kept, Appending
<1>9. Latest'
  BY <1>2, <1>4 DEF Latest
<1> QED
  BY <1>5, <1>6, <1>7, <1>8, <1>9

\* When calls do not overlap, the thread that takes a step is the only one
\* inside add.
LEMMA TurnAlone ==
    ASSUME TypeOK, TurnInv, InTurn, NEW t \in Threads, InAdd(t)
    PROVE  /\ Alone /\ FirstEvent /\ InPlace /\ Kept /\ Latest
           /\ pc[t] # "idle"
           /\ \A u \in Threads \ {t} : pc[u] = "idle"
           /\ \A u \in Threads \ {t} : pc'[u] = "idle"
<1>1. Alone /\ FirstEvent /\ InPlace /\ Kept /\ Latest
  BY DEF TurnInv
<1>2. pc[t] # "idle"
  BY DEF InAdd, AppendEvent, Order, Store, StoreRaises, WindowDue, NoneDue, Emit, EvictOne,
         EvictDone, SeenFits, Trim, Forget, Goto
<1>3. \A u \in Threads \ {t} : pc'[u] = pc[u]
  BY DEF InAdd, AppendEvent, Order, Store, StoreRaises, WindowDue, NoneDue, Emit, EvictOne,
         EvictDone, SeenFits, Trim, Forget, Goto, Return, TypeOK
<1> QED
  BY <1>1, <1>2, <1>3 DEF Alone

LEMMA TurnInside ==
    ASSUME TypeOK, GridInv, TurnInv, NEW t \in Threads, InAdd(t)
    PROVE  TurnInv'
<1>1. overlapped' = overlapped /\ accepted' = accepted
  BY DEF InAdd, AppendEvent, Order, Store, StoreRaises, WindowDue, NoneDue, Emit, EvictOne,
         EvictDone, SeenFits, Trim, Forget, history
<1> SUFFICES ASSUME InTurn PROVE Alone' /\ FirstEvent' /\ InPlace' /\ Kept' /\ Latest'
  BY <1>1 DEF TurnInv, InTurn
<1>2. /\ Alone /\ FirstEvent /\ InPlace /\ Kept /\ Latest
      /\ pc[t] # "idle"
      /\ \A u \in Threads \ {t} : pc[u] = "idle"
      /\ \A u \in Threads \ {t} : pc'[u] = "idle"
  BY TurnAlone
<1>3. Alone'
  BY <1>2 DEF Alone
<1>4. local \in [Threads -> Locals] /\ pc \in [Threads -> Steps]
  BY DEF TypeOK
<1>5. CASE AppendEvent(t)
  <2>1. /\ pc[t] = "append" /\ pc'[t] = "order" /\ events' = events \union {local[t].event}
        /\ UNCHANGED <<lastEmit, local, accepted, ends>>
    BY <1>4, <1>5 DEF AppendEvent, Goto, history
  <2>2. Kept'
    <3>1. \A a \in accepted : Appending(a) => a = local[t].event
      BY <1>2 DEF Appending
    <3> QED
      BY <1>2, <2>1, <3>1 DEF Kept, InPlace
  <2> QED
    BY <1>2, <1>3, <2>1, <2>2 DEF FirstEvent, InPlace, Latest
<1>6. CASE Order(t)
  <2>1. /\ pc[t] = "order" /\ pc'[t] = "store" /\ local' = [local EXCEPT ![t].ordered = events]
        /\ UNCHANGED <<events, lastEmit, accepted, ends>>
    BY <1>4, <1>6 DEF Order, Goto, object, history
  <2>2. local'[t].ordered = events /\ local'[t].event = local[t].event
    BY <1>4, <2>1 DEF Locals
  <2>3. Kept'
    BY <1>2, <2>1 DEF Kept, Appending
  <2> QED
    BY <1>2, <1>3, <2>1, <2>2, <2>3 DEF FirstEvent, InPlace, Latest
<1>7. CASE Store(t)
  <2>1. /\ pc[t] = "store" /\ pc'[t] = "loop" /\ events' = local[t].ordered
        /\ UNCHANGED <<accepted, ends>>
    BY <1>4, <1>7 DEF Store, Goto, history
  <2>2. events' = events /\ local'[t].ordered = events
    BY <1>2, <1>4, <1>7, <2>1 DEF Store, InPlace, Locals
  <2>3. lastEmit' \in Int /\ (lastEmit # None => lastEmit' = lastEmit)
    BY <1>4, <1>7 DEF Store, TypeOK, Locals, Arrivals, Keys
  <2>4. lastEmit = None => accepted \subseteq events
    BY <1>2, <2>1 DEF FirstEvent, InPlace
  <2>5. Kept'
    <3>1. \A a \in accepted : ~Appending(a)
      BY <1>2, <2>1 DEF Appending
    <3> QED
      BY <1>2, <2>1, <2>2, <2>3, <2>4, <3>1 DEF Kept
  <2>6. Latest'
    <3>1. lastEmit = None => ends = {}
      BY DEF GridInv, Grid
    <3> QED
      BY <1>2, <2>1, <2>3, <3>1 DEF Latest
  <2> QED
    BY <1>2, <1>3, <2>1, <2>2, <2>3, <2>5, <2>6 DEF FirstEvent, InPlace
<1>8. CASE StoreRaises(t)
  \* Impossible: the event that was just appended is in the copy.
  BY <1>2, <1>8 DEF StoreRaises, InPlace
<1>9. CASE WindowDue(t)
  <2>1. /\ pc[t] = "loop" /\ pc'[t] = "emit" /\ lastEmit # None
        /\ local' = [local EXCEPT ![t].end = lastEmit + Slide]
        /\ UNCHANGED <<events, lastEmit, accepted, ends>>
    BY <1>4, <1>9 DEF WindowDue, Goto, object, history, TypeOK
  <2>2. local'[t].end = lastEmit + Slide /\ local'[t].ordered = events
    BY <1>2, <1>4, <2>1 DEF Locals, InPlace
  <2>3. Kept'
    BY <1>2, <2>1 DEF Kept, Appending
  <2> QED
    BY <1>2, <1>3, <2>1, <2>2, <2>3 DEF FirstEvent, InPlace, Latest
<1>10. CASE NoneDue(t)
  <2>1. /\ pc[t] = "loop" /\ pc'[t] = "evict" /\ lastEmit # None
        /\ local[t].newest - lastEmit < Slide
        /\ UNCHANGED <<events, lastEmit, local, accepted, ends>>
    BY <1>4, <1>10 DEF NoneDue, Goto, object, history, TypeOK
  <2>2. Kept'
    BY <1>2, <2>1 DEF Kept, Appending
  <2> QED
    BY <1>2, <1>3, <2>1, <2>2 DEF FirstEvent, InPlace, Latest
<1>11. CASE Emit(t)
  <2>1. /\ pc[t] = "emit" /\ pc'[t] = "loop" /\ ends' = ends \union {local[t].end}
        /\ lastEmit' = local[t].end
        /\ UNCHANGED <<events, local, accepted>>
    BY <1>4, <1>11 DEF Emit, Goto
  <2>2. lastEmit \in Int /\ lastEmit' = lastEmit + Slide
    BY <1>2, <2>1 DEF InPlace, TypeOK
  <2>3. lastEmit' # None /\ lastEmit <= lastEmit'
    BY <2>2
  <2>4. Kept'
    <3>1. ASSUME NEW a \in accepted, a.key.ts <= lastEmit - Size
          PROVE  a.key.ts <= lastEmit' - Size
      <4>1. a.key.ts \in Int
        BY DEF TypeOK, Arrivals, Keys
      <4> QED
        BY <2>2, <3>1, <4>1
    <3>2. \A a \in accepted : ~Appending(a)
      BY <1>2, <2>1 DEF Appending
    <3> QED
      BY <1>2, <2>1, <2>3, <3>1, <3>2 DEF Kept
  <2>5. Latest'
    BY <1>2, <2>1, <2>2 DEF Latest, TypeOK
  <2> QED
    BY <1>2, <1>3, <2>1, <2>3, <2>4, <2>5 DEF FirstEvent, InPlace
<1>12. CASE EvictOne(t)
  <2>1. PICK old \in events : old.key.ts < Cutoff(t) /\ events' = events \ {old}
    BY <1>12 DEF EvictOne
  <2>2. /\ pc[t] = "evict" /\ pc'[t] = "evict" /\ lastEmit # None
        /\ UNCHANGED <<lastEmit, local, accepted, ends>>
    BY <1>4, <1>12 DEF EvictOne, Goto, history, TypeOK
  <2>3. old.key.ts <= lastEmit - Size
    <3>1. old.key.ts \in Int /\ lastEmit \in Int /\ local[t].newest \in Int
      BY <2>2 DEF TypeOK, Arrivals, Keys, Locals
    <3>2. local[t].newest - lastEmit < Slide
      BY <1>2, <2>2 DEF InPlace
    <3> QED
      BY <2>1, <3>1, <3>2 DEF Cutoff
  <2>4. Kept'
    BY <1>2, <2>1, <2>2, <2>3 DEF Kept, Appending
  <2> QED
    BY <1>2, <1>3, <2>2, <2>4 DEF FirstEvent, InPlace, Latest
<1>13. CASE EvictDone(t) \/ SeenFits(t) \/ Trim(t) \/ Forget(t)
  <2>1. /\ pc[t] \in {"evict", "trim", "forget"}
        /\ pc'[t] \in {"trim", "idle", "forget"}
        /\ UNCHANGED <<events, lastEmit, accepted, ends>>
    BY <1>4, <1>13 DEF EvictDone, SeenFits, Trim, Forget, Goto, Return, object, history
  <2>2. lastEmit # None
    BY <1>2, <2>1 DEF FirstEvent
  <2>3. Kept'
    BY <1>2, <2>1, <2>2 DEF Kept, Appending
  <2> QED
    BY <1>2, <1>3, <2>1, <2>2, <2>3 DEF FirstEvent, InPlace, Latest
<1> QED
  BY <1>5, <1>6, <1>7, <1>8, <1>9, <1>10, <1>11, <1>12, <1>13 DEF InAdd

LEMMA TurnAlways == Spec => []TurnInv
<1>1. Init => TurnInv
  BY DEF Init, TurnInv, Alone, FirstEvent, InPlace, Kept, Latest
<1>2. TypeOK /\ GridInv /\ TurnInv /\ [Next]_vars => TurnInv'
  <2> SUFFICES ASSUME TypeOK, GridInv, TurnInv, [Next]_vars PROVE TurnInv'
    OBVIOUS
  <2>1. ASSUME NEW t \in Threads, NEW k \in Keys, Duplicate(t, k)
        PROVE  TurnInv'
    <3>1. pc' = pc /\ UNCHANGED <<object, local, accepted, ends>> /\ (InTurn' => InTurn)
      BY <2>1 DEF Duplicate, Goto, Called, InTurn, TypeOK
    <3> QED
      BY <3>1 DEF TurnInv, Alone, FirstEvent, InPlace, Kept, Appending, Latest, object
  <2>2. CASE UNCHANGED vars
    BY <2>2 DEF vars, TurnInv, InTurn, Alone, FirstEvent, InPlace, Kept, Appending, Latest
  <2> QED
    BY <2>1, <2>2, TurnAccept, TurnInside DEF Next
<1> QED
  BY <1>1, <1>2, TypeCorrect, GridAlways, PTL DEF Spec

\* The window about to be emitted holds all accepted events of its time:
\* what the deque has lost is older than its start.
LEMMA CompleteWindow ==
    ASSUME TypeOK, TurnInv, InTurn, NEW t \in Threads, pc[t] = "emit"
    PROVE  Within(local[t].ordered, local[t].end) = Within(accepted, local[t].end)
<1>1. Alone /\ InPlace /\ Kept
  BY DEF TurnInv
<1>2. local[t].ordered = events /\ local[t].end = lastEmit + Slide /\ lastEmit \in Int
  BY <1>1 DEF InPlace, TypeOK
<1>3. ASSUME NEW a \in accepted, lastEmit + Slide - Size < a.key.ts
      PROVE  a \in events
  <2>1. ~Appending(a)
    BY <1>1 DEF Appending, Alone
  <2>2. a.key.ts \in Int
    BY DEF TypeOK, Arrivals, Keys
  <2>3. ~(a.key.ts <= lastEmit - Size)
    BY <1>2, <1>3, <2>2
  <2> QED
    BY <1>1, <2>1, <2>3 DEF Kept
<1> QED
  BY <1>1, <1>2, <1>3 DEF Within, Kept

\* As long as calls do not overlap, every window is complete when it is
\* emitted: eviction takes no event that a window to come needs.
THEOREM NothingEvictedEarly == Spec => []WindowsComplete
<1>1. TypeOK /\ TurnInv => WindowsComplete
  BY CompleteWindow DEF WindowsComplete
<1> QED
  BY <1>1, TypeCorrect, TurnAlways, PTL

\* As long as calls do not overlap, each window starts one slide after the
\* one before it and after all others.
THEOREM OneSlideApart == Spec => []WindowsInOrder
<1>1. TypeOK /\ GridInv /\ TurnInv => WindowsInOrder
  <2> SUFFICES ASSUME TypeOK, GridInv, TurnInv, InTurn,
                      NEW t \in Threads, pc[t] = "emit", ends # {}
               PROVE  /\ local[t].end - Slide \in ends
                      /\ \A end \in ends : end < local[t].end
    BY DEF WindowsInOrder
  <2>1. local[t].end = lastEmit + Slide /\ lastEmit \in ends /\ lastEmit \in Int
    BY DEF TurnInv, InPlace, GridInv, Grid, TypeOK
  <2>2. \A end \in ends : end \in Int /\ end <= lastEmit
    BY DEF TurnInv, Latest, TypeOK
  <2> QED
    BY <2>1, <2>2
<1> QED
  BY <1>1, TypeCorrect, GridAlways, TurnAlways, PTL

-----------------------------------------------------------------------------
(* Every event is analysed.                                                *)

LEMMA AnalysedStep ==
    ASSUME Slide <= Size,
           TypeOK, GridInv, TurnInv, EveryEventAnalysed, [Next]_vars
    PROVE  EveryEventAnalysed'
<1> SUFFICES ASSUME InTurn', NEW a \in accepted',
                    a.key.ts > a.after + Slide - Size,
                    lastEmit' # None, lastEmit' > a.after, lastEmit' >= a.key.ts
             PROVE  a \in analysed'
  BY DEF EveryEventAnalysed
<1>1. ASSUME NEW t \in Threads, NEW k \in Keys, Accept(t, k)
      PROVE  a \in analysed'
  <2>1. /\ accepted' = accepted \union {Arrival(k)}
        /\ UNCHANGED <<lastEmit, analysed>>
        /\ InTurn
    BY <1>1 DEF Accept, Arrival, Called, InTurn
  <2>2. CASE a \in accepted
    BY <2>1, <2>2 DEF EveryEventAnalysed
  <2>3. CASE a = Arrival(k)
    \* It was accepted after the last window: nothing has moved past it.
    <3>1. a.after = lastEmit /\ lastEmit \in Int
      BY <2>1, <2>3 DEF Arrival, TypeOK
    <3> QED
      BY <2>1, <3>1
  <2> QED
    BY <2>1, <2>2, <2>3
<1>2. ASSUME NEW t \in Threads, Store(t)
      PROVE  a \in analysed'
  <2>1. InTurn /\ pc[t] = "store" /\ UNCHANGED <<accepted, analysed>>
    BY <1>2 DEF Store, Goto, history, InTurn
  <2>2. CASE lastEmit # None
    BY <1>2, <2>1, <2>2 DEF Store, EveryEventAnalysed
  <2>3. CASE lastEmit = None
    \* The first event itself: the grid starts one slide before it.
    <3>1. FirstEvent /\ InPlace
      BY <2>1 DEF TurnInv
    <3>2. accepted = {local[t].event} /\ local[t].ordered = events /\ local[t].event \in events
      BY <2>1, <2>3, <3>1 DEF FirstEvent, InPlace
    <3>3. PICK b \in local[t].ordered : lastEmit' = b.key.ts - Slide /\ a.key.ts <= b.key.ts
      BY <1>2, <2>1, <2>3, <3>2 DEF Store
    <3>4. b = a
      BY <2>1, <3>1, <3>2, <3>3 DEF TurnInv, Kept
    <3>5. a.key.ts \in Int
      BY <2>1 DEF TypeOK, Arrivals, Keys
    <3> QED
      BY <3>3, <3>4, <3>5
  <2> QED
    BY <2>2, <2>3
<1>3. ASSUME NEW t \in Threads, Emit(t)
      PROVE  a \in analysed'
  <2>1. /\ InTurn /\ pc[t] = "emit" /\ accepted' = accepted
        /\ lastEmit' = local[t].end
        /\ analysed' = analysed \union Within(local[t].ordered, local[t].end)
    BY <1>3 DEF Emit, Goto, InTurn
  <2>2. local[t].end = lastEmit + Slide /\ lastEmit \in Int
    BY <2>1 DEF TurnInv, InPlace, TypeOK
  <2>3. a.key.ts \in Int /\ a.after \in Int
    BY <2>1 DEF TypeOK, Arrivals, Keys
  <2>4. CASE lastEmit > a.after /\ lastEmit >= a.key.ts
    BY <2>1, <2>2, <2>4 DEF EveryEventAnalysed
  <2>5. CASE ~(lastEmit > a.after /\ lastEmit >= a.key.ts)
    <3>1. local[t].end - Size < a.key.ts /\ a.key.ts <= local[t].end
      BY <2>1, <2>2, <2>3, <2>5
    <3>2. a \in Within(local[t].ordered, local[t].end)
      BY <2>1, <3>1, CompleteWindow DEF Within
    <3> QED
      BY <2>1, <3>2
  <2> QED
    BY <2>4, <2>5
<1>4. ASSUME UNCHANGED <<accepted, lastEmit, analysed>>, InTurn
      PROVE  a \in analysed'
  BY <1>4 DEF EveryEventAnalysed
<1>5. ASSUME NEW t \in Threads, NEW k \in Keys, Duplicate(t, k)
      PROVE  a \in analysed'
  BY <1>4, <1>5 DEF Duplicate, Called, InTurn, object
<1>6. ASSUME NEW t \in Threads,
             \/ AppendEvent(t) \/ Order(t) \/ StoreRaises(t) \/ WindowDue(t) \/ NoneDue(t)
             \/ EvictOne(t) \/ EvictDone(t) \/ SeenFits(t) \/ Trim(t) \/ Forget(t)
      PROVE  a \in analysed'
  <2>1. UNCHANGED <<accepted, lastEmit, analysed>> /\ InTurn
    BY <1>6 DEF AppendEvent, Order, StoreRaises, WindowDue, NoneDue, EvictOne, EvictDone,
                SeenFits, Trim, Forget, object, history, InTurn
  <2> QED
    BY <1>4, <2>1
<1>7. CASE UNCHANGED vars
  BY <1>4, <1>7 DEF vars, InTurn
<1> QED
  BY <1>1, <1>2, <1>3, <1>5, <1>6, <1>7 DEF Next, InAdd

\* As long as calls do not overlap, and windows overlap or touch, an event
\* that is not too late is held by a window once the windows have moved past
\* it.
THEOREM NoEventMissed ==
    ASSUME Slide <= Size
    PROVE  Spec => []EveryEventAnalysed
<1>1. Init => EveryEventAnalysed
  BY DEF Init, EveryEventAnalysed
<1>2. TypeOK /\ GridInv /\ TurnInv /\ EveryEventAnalysed /\ [Next]_vars => EveryEventAnalysed'
  BY AnalysedStep
<1> QED
  BY <1>1, <1>2, TypeCorrect, GridAlways, TurnAlways, PTL DEF Spec

=============================================================================
