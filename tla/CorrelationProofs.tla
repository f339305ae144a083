-------------------------- MODULE CorrelationProofs --------------------------
(***************************************************************************)
(* What TLAPS proves of Correlation, for any threads, hosts, categories,   *)
(* number of calls and times that satisfy the assumptions: types, the      *)
(* distance and the order of alerts, the severity of incidents, and that   *)
(* the engine with its lock, its old times and its cleanup decides as      *)
(* AlertFilter does.                                                       *)
(***************************************************************************)
EXTENDS Correlation, TLAPS

USE CorrelationAssumption

-----------------------------------------------------------------------------
(* Types.                                                                  *)

LEMMA FunctionIsSeq ==
    ASSUME NEW S, NEW n \in Nat, NEW f \in [1 .. n -> S]
    PROVE  f \in Seq(S) /\ Len(f) = n
OBVIOUS

LEMMA AppendFacts ==
    ASSUME NEW S, NEW s \in Seq(S), NEW e
    PROVE  /\ Len(s) \in Nat /\ DOMAIN s = 1 .. Len(s)
           /\ DOMAIN Append(s, e) = 1 .. Len(s) + 1
           /\ \A i \in DOMAIN s : Append(s, e)[i] = s[i]
           /\ Append(s, e)[Len(s) + 1] = e
OBVIOUS

LEMMA BatchType ==
    ASSUME NEW signals \in Batches
    PROVE  signals \in Seq(Signals)
<1>1. PICK n \in 1 .. MaxBatch : signals \in [1 .. n -> Signals]
  BY DEF Batches
<1>2. n \in Nat
  BY <1>1
<1> QED
  BY <1>1, <1>2, FunctionIsSeq

LEMMA SignalType ==
    ASSUME NEW signal \in Signals
    PROVE  signal.key \in Keys /\ signal.severity \in DOMAIN Rank
BY DEF Signals

LEMMA RankType == \A severity \in DOMAIN Rank : Rank[severity] \in Int
BY DEF Rank

LEMMA HeadType ==
    ASSUME TypeOK, NEW t \in Threads, Handle(t)
    PROVE  /\ Head(batch[t]) \in Signals
           /\ Head(batch[t]).key \in Keys
           /\ Head(batch[t]).severity \in DOMAIN Rank
           /\ Tail(batch[t]) \in Seq(Signals)
           /\ now[t] \in Times
<1>1. batch[t] \in Seq(Signals) /\ batch[t] # <<>> /\ now[t] \in Times
  BY DEF TypeOK, Handle
<1>2. Head(batch[t]) \in Signals /\ Tail(batch[t]) \in Seq(Signals)
  BY <1>1
<1> QED
  BY <1>1, <1>2, SignalType

LEMMA HandleType ==
    ASSUME TypeOK, NEW t \in Threads, Handle(t)
    PROVE  /\ clock' \in Times
           /\ lock' \in Threads \union {Free}
           /\ lastCleanup' \in Times
           /\ pc' \in [Threads -> {"idle", "waiting", "correlating", "reporting"}]
           /\ now' \in [Threads -> Times]
           /\ batch' \in [Threads -> Seq(Signals)]
           /\ published' \in Seq(Nat \ {0})
           /\ calls' \in 0 .. MaxCalls
           /\ DOMAIN seen' \subseteq Keys
           /\ seen' \in [DOMAIN seen' -> Times]
<1>1. batch' \in [Threads -> Seq(Signals)]
  BY HeadType DEF Handle, TypeOK
<1>2. seen' = With(seen, Head(batch[t]).key, now[t])
  BY DEF Handle
<1>3. DOMAIN seen' \subseteq Keys /\ seen' \in [DOMAIN seen' -> Times]
  BY <1>2, HeadType DEF With, TypeOK
<1> QED
  BY <1>1, <1>3 DEF Handle, TypeOK

LEMMA TypeStep == TypeOK /\ [Next]_vars => TypeOK'
<1> SUFFICES ASSUME TypeOK, [Next]_vars PROVE TypeOK'
  OBVIOUS
<1> USE DEF TypeOK
<1>1. CASE Tick
  <2>1. clock' \in Times
    BY <1>1 DEF Tick, Times
  <2> QED
    BY <1>1, <2>1 DEF Tick, shared, local
<1>2. ASSUME NEW t \in Threads, Called(t) PROVE TypeOK'
  <2>1. PICK signals \in Batches : batch' = [batch EXCEPT ![t] = signals]
    BY <1>2 DEF Called
  <2>2. batch' \in [Threads -> Seq(Signals)]
    BY <2>1, BatchType
  <2>3. calls' \in 0 .. MaxCalls
    BY <1>2 DEF Called
  <2> QED
    BY <1>2, <2>2, <2>3 DEF Called, shared
<1>3. ASSUME NEW t \in Threads, Acquire(t) PROVE TypeOK'
  BY <1>3 DEF Acquire
<1>4. ASSUME NEW t \in Threads, Merge(t) PROVE TypeOK'
  <2> DEFINE key == Head(batch[t]).key
             sev == Head(batch[t]).severity
  <2>1. Handle(t) /\ key \in DOMAIN active /\ found' = found
    BY <1>4 DEF Merge, Ongoing
  <2>2. /\ active' = [active EXCEPT ![key].last = now[t], ![key].severity = Upgraded(@, sev)]
        /\ opened' = [opened EXCEPT ![active[key].id].merged = @ \union {sev}]
    BY <1>4 DEF Merge
  <2>3. active[key] \in Incidents /\ now[t] \in Times /\ sev \in DOMAIN Rank
    BY <2>1, HeadType
  <2>4. Upgraded(active[key].severity, sev) \in DOMAIN Rank
    BY <2>3 DEF Upgraded, Incidents
  <2>5. DOMAIN active' \subseteq Keys /\ active' \in [DOMAIN active' -> Incidents]
    BY <2>1, <2>2, <2>3, <2>4 DEF Incidents
  <2>6. opened \in [1 .. Len(opened) -> Openings] /\ Len(opened) \in Nat
    OBVIOUS
  <2>7. ASSUME NEW i \in 1 .. Len(opened) PROVE opened'[i] \in Openings
    <3>1. opened[i] \in Openings
      BY <2>6
    <3>2. opened'[i] = opened[i] \/ opened'[i] = [opened[i] EXCEPT !.merged = @ \union {sev}]
      BY <2>2, <2>6
    <3>3. [opened[i] EXCEPT !.merged = @ \union {sev}] \in Openings
      BY <2>3, <3>1 DEF Openings
    <3> QED
      BY <3>1, <3>2, <3>3
  <2>8. opened' \in [1 .. Len(opened) -> Openings]
    BY <2>2, <2>6, <2>7
  <2>9. opened' \in Seq(Openings)
    BY <2>6, <2>8, FunctionIsSeq
  <2> QED
    BY <2>1, <2>5, <2>9, HandleType
<1>5. ASSUME NEW t \in Threads, Open(t) PROVE TypeOK'
  <2> DEFINE key == Head(batch[t]).key
             sev == Head(batch[t]).severity
             id == Len(opened) + 1
             incident == [id |-> id, first |-> now[t], last |-> now[t], severity |-> sev]
             record == [key |-> key, at |-> now[t], severity |-> sev, merged |-> {sev}]
  <2>1. Handle(t)
    BY <1>5 DEF Open
  <2>2. /\ active' = With(active, key, incident)
        /\ opened' = Append(opened, record)
        /\ found' = [found EXCEPT ![t] = Append(@, id)]
    BY <1>5 DEF Open
  <2>3. key \in Keys /\ sev \in DOMAIN Rank /\ now[t] \in Times /\ id \in Nat \ {0}
    BY <2>1, HeadType
  <2>4. incident \in Incidents
    BY <2>3 DEF Incidents
  <2>5. DOMAIN active' \subseteq Keys /\ active' \in [DOMAIN active' -> Incidents]
    BY <2>2, <2>3, <2>4 DEF With
  <2>6. opened' \in Seq(Openings)
    BY <2>2, <2>3 DEF Openings
  <2>7. found' \in [Threads -> Seq(Nat \ {0})]
    BY <2>2, <2>3
  <2> QED
    BY <2>1, <2>5, <2>6, <2>7, HandleType
<1>6. ASSUME NEW t \in Threads, Finish(t) PROVE TypeOK'
  <2>1. DOMAIN active' \subseteq Keys /\ active' \in [DOMAIN active' -> Incidents] /\ lastCleanup' \in Times
    BY <1>6 DEF Finish
  <2> QED
    BY <1>6, <2>1 DEF Finish
<1>7. ASSUME NEW t \in Threads, Report(t) PROVE TypeOK'
  <2>1. published' \in Seq(Nat \ {0}) /\ found' \in [Threads -> Seq(Nat \ {0})]
    BY <1>7 DEF Report
  <2>2. 0 \in Times
    BY DEF Times
  <2> QED
    BY <1>7, <2>1, <2>2 DEF Report, shared
<1>8. CASE UNCHANGED vars
  BY <1>8 DEF vars
<1> QED
  BY <1>1, <1>2, <1>3, <1>4, <1>5, <1>6, <1>7, <1>8 DEF Next

\* Every variable keeps its type: incidents are keyed by source, target and
\* category, and times never run ahead of the clock's range.
THEOREM TypeCorrect == Spec => []TypeOK
<1>1. Init => TypeOK
  BY DEF Init, TypeOK, Times
<1> QED
  BY <1>1, TypeStep, PTL DEF Spec

-----------------------------------------------------------------------------
(* What one signal changes.                                                *)

KeyOf(t) == Head(batch[t]).key
SeverityOf(t) == Head(batch[t]).severity

LEMMA Numbers ==
    /\ Window \in Nat /\ Retention \in Nat /\ MaxDelay \in Nat /\ MaxTime \in Nat
    /\ Times \subseteq Int
BY DEF Times

Noted(t) ==
    /\ KeyOf(t) \in Keys /\ SeverityOf(t) \in DOMAIN Rank /\ now[t] \in Times
    /\ DOMAIN seen' = DOMAIN seen \union {KeyOf(t)}
    /\ seen'[KeyOf(t)] = now[t]
    /\ \A k \in DOMAIN seen \ {KeyOf(t)} : seen'[k] = seen[k]

LEMMA SeenEffect ==
    ASSUME TypeOK, NEW t \in Threads, Handle(t)
    PROVE  Noted(t)
<1>1. seen' = With(seen, KeyOf(t), now[t])
  BY DEF Handle, KeyOf
<1> QED
  BY <1>1, HeadType DEF Noted, With, KeyOf, SeverityOf

Merged(t) ==
    /\ Handle(t) /\ UNCHANGED found
    /\ KeyOf(t) \in DOMAIN active
    /\ now[t] - active[KeyOf(t)].last <= Window
    /\ DOMAIN active' = DOMAIN active
    /\ \A k \in DOMAIN active : active'[k].id = active[k].id
    /\ \A k \in DOMAIN active \ {KeyOf(t)} : active'[k] = active[k]
    /\ active'[KeyOf(t)].last = now[t]
    /\ active'[KeyOf(t)].severity = Upgraded(active[KeyOf(t)].severity, SeverityOf(t))
    /\ DOMAIN opened' = DOMAIN opened /\ Len(opened') = Len(opened)
    /\ \A i \in DOMAIN opened : opened'[i].key = opened[i].key /\ opened'[i].at = opened[i].at
    /\ \A i \in DOMAIN opened \ {active[KeyOf(t)].id} : opened'[i] = opened[i]
    /\ active[KeyOf(t)].id \in DOMAIN opened =>
          opened'[active[KeyOf(t)].id].merged
              = opened[active[KeyOf(t)].id].merged \union {SeverityOf(t)}

LEMMA MergeEffect ==
    ASSUME TypeOK, NEW t \in Threads, Merge(t)
    PROVE  Merged(t)
<1> DEFINE key == KeyOf(t)
           id == active[key].id
<1>1. /\ Handle(t) /\ UNCHANGED found /\ key \in DOMAIN active /\ now[t] - active[key].last <= Window
      /\ active' = [active EXCEPT ![key].last = now[t],
                                  ![key].severity = Upgraded(@, SeverityOf(t))]
      /\ opened' = [opened EXCEPT ![id].merged = @ \union {SeverityOf(t)}]
  BY DEF Merge, Ongoing, KeyOf, SeverityOf
<1>2. active[key] \in Incidents
  BY <1>1 DEF TypeOK
<1>3. /\ DOMAIN active' = DOMAIN active
      /\ \A k \in DOMAIN active \ {key} : active'[k] = active[k]
      /\ active'[key].id = id
      /\ active'[key].last = now[t]
      /\ active'[key].severity = Upgraded(active[key].severity, SeverityOf(t))
  BY <1>1, <1>2 DEF TypeOK, Incidents
<1>4. opened \in [1 .. Len(opened) -> Openings] /\ Len(opened) \in Nat /\ DOMAIN opened = 1 .. Len(opened)
  BY DEF TypeOK
<1>5. /\ DOMAIN opened' = DOMAIN opened
      /\ \A i \in DOMAIN opened \ {id} : opened'[i] = opened[i]
  BY <1>1, <1>4
<1>6. ASSUME id \in DOMAIN opened
      PROVE  /\ opened'[id].key = opened[id].key /\ opened'[id].at = opened[id].at
             /\ opened'[id].merged = opened[id].merged \union {SeverityOf(t)}
  <2>1. opened'[id] = [opened[id] EXCEPT !.merged = @ \union {SeverityOf(t)}]
    BY <1>1, <1>4, <1>6
  <2>2. opened[id] \in Openings
    BY <1>4, <1>6
  <2> QED
    BY <2>1, <2>2 DEF Openings
<1>7. Len(opened') = Len(opened)
  <2>1. opened' \in Seq(Openings)
    <3>1. Next
      BY DEF Next
    <3>2. TypeOK'
      BY <3>1, TypeStep
    <3> QED
      BY <3>2 DEF TypeOK
  <2>2. DOMAIN opened' = 1 .. Len(opened') /\ Len(opened') \in Nat
    BY <2>1
  <2> QED
    BY <1>4, <1>5, <2>2
<1>8. \A i \in DOMAIN opened : opened'[i].key = opened[i].key /\ opened'[i].at = opened[i].at
  BY <1>5, <1>6
<1>9. \A k \in DOMAIN active : active'[k].id = active[k].id
  BY <1>3
<1> QED
  BY <1>1, <1>3, <1>5, <1>6, <1>7, <1>8, <1>9 DEF Merged

Opened(t) ==
    /\ Handle(t)
    /\ KeyOf(t) \in DOMAIN active => now[t] - active[KeyOf(t)].last > Window
    /\ DOMAIN active' = DOMAIN active \union {KeyOf(t)}
    /\ \A k \in DOMAIN active \ {KeyOf(t)} : active'[k] = active[k]
    /\ active'[KeyOf(t)] = [id |-> Len(opened) + 1, first |-> now[t], last |-> now[t],
                            severity |-> SeverityOf(t)]
    /\ Len(opened) \in Nat /\ Len(opened') = Len(opened) + 1
    /\ DOMAIN opened = 1 .. Len(opened) /\ DOMAIN opened' = 1 .. Len(opened) + 1
    /\ \A i \in DOMAIN opened : opened'[i] = opened[i]
    /\ opened'[Len(opened) + 1] = [key |-> KeyOf(t), at |-> now[t], severity |-> SeverityOf(t),
                                   merged |-> {SeverityOf(t)}]
    /\ found' = [found EXCEPT ![t] = Append(@, Len(opened) + 1)]

LEMMA OpenEffect ==
    ASSUME TypeOK, NEW t \in Threads, Open(t)
    PROVE  Opened(t)
<1> DEFINE incident == [id |-> Len(opened) + 1, first |-> now[t], last |-> now[t],
                        severity |-> SeverityOf(t)]
           record == [key |-> KeyOf(t), at |-> now[t], severity |-> SeverityOf(t),
                      merged |-> {SeverityOf(t)}]
<1>1. /\ Handle(t) /\ ~Ongoing(KeyOf(t), now[t])
      /\ active' = With(active, KeyOf(t), incident)
      /\ opened' = Append(opened, record)
      /\ found' = [found EXCEPT ![t] = Append(@, Len(opened) + 1)]
  BY DEF Open, KeyOf, SeverityOf
<1>2. KeyOf(t) \in DOMAIN active => now[t] - active[KeyOf(t)].last > Window
  <2>1. KeyOf(t) \in DOMAIN active => now[t] \in Int /\ active[KeyOf(t)].last \in Int
    BY Numbers DEF TypeOK, Incidents
  <2> QED
    BY <1>1, <2>1, Numbers DEF Ongoing
<1>3. /\ DOMAIN active' = DOMAIN active \union {KeyOf(t)}
      /\ \A k \in DOMAIN active \ {KeyOf(t)} : active'[k] = active[k]
      /\ active'[KeyOf(t)] = incident
  BY <1>1 DEF With
<1>4. opened \in Seq(Openings)
  BY DEF TypeOK
<1>5. /\ Len(opened) \in Nat /\ Len(opened') = Len(opened) + 1
      /\ DOMAIN opened = 1 .. Len(opened) /\ DOMAIN opened' = 1 .. Len(opened) + 1
      /\ \A i \in DOMAIN opened : opened'[i] = opened[i]
      /\ opened'[Len(opened) + 1] = record
  BY <1>1, <1>4
<1> QED
  BY <1>1, <1>2, <1>3, <1>5 DEF Opened

-----------------------------------------------------------------------------
(* The inductive invariant.                                                *)

\* The time a thread works with is at most MaxDelay old.
TimeInv ==
    /\ \A t \in Threads : pc[t] # "idle" => now[t] <= clock /\ clock <= now[t] + MaxDelay
    /\ \A i \in DOMAIN opened : opened[i].at <= clock

\* An incident is active until its key was silent for the retention time.
KeyInv ==
    /\ \A k \in DOMAIN active :
          /\ active[k].id \in DOMAIN opened
          /\ opened[active[k].id].key = k
          /\ k \in DOMAIN seen
          /\ active[k].last = seen[k]
    /\ \A i \in DOMAIN opened :
          /\ opened[i].key \in DOMAIN seen
          /\ opened[i].at - MaxDelay <= seen[opened[i].key]
    /\ \A k \in DOMAIN seen \ DOMAIN active : seen[k] + Retention < clock

\* What a thread found it opened itself, at its time, and nobody else reports.
FoundInv ==
    /\ \A t \in Threads : pc[t] \in {"idle", "waiting"} => found[t] = <<>>
    /\ \A t \in Threads : \A i \in DOMAIN found[t] :
          found[t][i] \in DOMAIN opened /\ opened[found[t][i]].at = now[t]
    /\ \A t \in Threads : \A i, j \in DOMAIN found[t] : i < j => found[t][i] < found[t][j]
    /\ \A t, u \in Threads : t # u =>
          \A i \in DOMAIN found[t], j \in DOMAIN found[u] : found[t][i] # found[u][j]
    /\ \A i \in DOMAIN published :
          /\ published[i] \in DOMAIN opened
          /\ \A t \in Threads : \A j \in DOMAIN found[t] : published[i] # found[t][j]

LEMMA Histories ==
    ASSUME TypeOK
    PROVE  /\ clock \in Int
           /\ \A t \in Threads : now[t] \in Int
           /\ \A i \in DOMAIN opened : opened[i] \in Openings /\ opened[i].at \in Int
           /\ \A k \in DOMAIN seen : seen[k] \in Int
           /\ \A k \in DOMAIN active : active[k] \in Incidents /\ active[k].last \in Int
<1> USE Numbers DEF TypeOK
<1>1. clock \in Int /\ (\A t \in Threads : now[t] \in Int) /\ (\A k \in DOMAIN seen : seen[k] \in Int)
  OBVIOUS
<1>2. \A i \in DOMAIN opened : opened[i] \in Openings
  OBVIOUS
<1>3. \A i \in DOMAIN opened : opened[i].at \in Int
  BY <1>2 DEF Openings
<1>4. \A k \in DOMAIN active : active[k] \in Incidents /\ active[k].last \in Int
  BY DEF Incidents
<1> QED
  BY <1>1, <1>2, <1>3, <1>4

LEMMA TimeStep == TypeOK /\ TimeInv /\ [Next]_vars => TimeInv'
<1> SUFFICES ASSUME TypeOK, TimeInv, [Next]_vars PROVE TimeInv'
  OBVIOUS
<1> USE Numbers
<1>0. /\ clock \in Int /\ (\A t \in Threads : now[t] \in Int)
      /\ \A i \in DOMAIN opened : opened[i].at \in Int
  BY Histories
<1>1. CASE Tick
  <2>1. UNCHANGED <<now, pc, opened>> /\ clock' = clock + 1
        /\ \A t \in Threads : pc[t] # "idle" => clock < now[t] + MaxDelay
    BY <1>1 DEF Tick, shared, local
  <2> QED
    BY <1>0, <2>1 DEF TimeInv
<1>2. ASSUME NEW t \in Threads, Called(t) PROVE TimeInv'
  <2>1. /\ UNCHANGED <<clock, opened>>
        /\ now' = [now EXCEPT ![t] = clock] /\ pc' = [pc EXCEPT ![t] = "waiting"]
    BY <1>2 DEF Called, shared
  <2>2. /\ now'[t] = clock
        /\ \A u \in Threads \ {t} : now'[u] = now[u] /\ pc'[u] = pc[u]
    BY <2>1 DEF TypeOK
  <2> QED
    BY <1>0, <2>1, <2>2 DEF TimeInv
<1>3. ASSUME NEW t \in Threads, Acquire(t) PROVE TimeInv'
  BY <1>0, <1>3 DEF TimeInv, Acquire, TypeOK
<1>4. ASSUME NEW t \in Threads, Merge(t) PROVE TimeInv'
  <2>1. Merged(t)
    BY <1>4, MergeEffect
  <2>2. UNCHANGED <<clock, now, pc>>
    BY <2>1 DEF Merged, Handle
  <2>3. \A i \in DOMAIN opened' : opened'[i].at <= clock
    BY <2>1 DEF Merged, TimeInv
  <2> QED
    BY <2>2, <2>3 DEF TimeInv
<1>5. ASSUME NEW t \in Threads, Open(t) PROVE TimeInv'
  <2>1. Opened(t)
    BY <1>5, OpenEffect
  <2>2. now[t] <= clock /\ UNCHANGED <<clock, now, pc>>
    BY <2>1 DEF TimeInv, Opened, Handle
  <2>3. \A i \in DOMAIN opened' : opened'[i].at <= clock
    BY <2>1, <2>2 DEF Opened, TimeInv
  <2> QED
    BY <2>2, <2>3 DEF TimeInv
<1>6. ASSUME NEW t \in Threads, Finish(t) PROVE TimeInv'
  BY <1>0, <1>6 DEF TimeInv, Finish, TypeOK
<1>7. ASSUME NEW t \in Threads, Report(t) PROVE TimeInv'
  BY <1>0, <1>7 DEF TimeInv, Report, shared, TypeOK
<1>8. CASE UNCHANGED vars
  BY <1>8 DEF vars, TimeInv
<1> QED
  BY <1>1, <1>2, <1>3, <1>4, <1>5, <1>6, <1>7, <1>8 DEF Next

LEMMA KeyStep == TypeOK /\ TimeInv /\ KeyInv /\ [Next]_vars => KeyInv'
<1> SUFFICES ASSUME TypeOK, TimeInv, KeyInv, [Next]_vars PROVE KeyInv'
  OBVIOUS
<1> USE Numbers
<1>0. /\ clock \in Int
      /\ \A t \in Threads : now[t] \in Int
      /\ \A i \in DOMAIN opened : opened[i].at \in Int
      /\ \A k \in DOMAIN seen : seen[k] \in Int
      /\ \A k \in DOMAIN active : active[k].last \in Int
  BY Histories
<1>1. CASE Tick
  BY <1>0, <1>1 DEF Tick, shared, KeyInv
<1>2. ASSUME NEW t \in Threads, Called(t) PROVE KeyInv'
  BY <1>2 DEF KeyInv, Called, shared
<1>3. ASSUME NEW t \in Threads, Acquire(t) PROVE KeyInv'
  BY <1>3 DEF KeyInv, Acquire
<1>4. ASSUME NEW t \in Threads, Merge(t) PROVE KeyInv'
  <2>1. Handle(t) /\ clock' = clock /\ now[t] \in Int /\ clock <= now[t] + MaxDelay
    BY <1>0, <1>4, MergeEffect DEF Merged, Handle, TimeInv
  <2>2. Noted(t) /\ Merged(t)
    BY <1>4, <2>1, SeenEffect, MergeEffect
  <2>3. \A i \in DOMAIN opened : opened[i].at - MaxDelay <= now[t]
    BY <1>0, <2>1 DEF TimeInv
  <2>4. ASSUME NEW k \in DOMAIN active'
        PROVE  /\ active'[k].id \in DOMAIN opened' /\ opened'[active'[k].id].key = k
               /\ k \in DOMAIN seen' /\ active'[k].last = seen'[k]
    BY <2>1, <2>2 DEF Noted, Merged, KeyInv
  <2>5. ASSUME NEW i \in DOMAIN opened'
        PROVE  opened'[i].key \in DOMAIN seen' /\ opened'[i].at - MaxDelay <= seen'[opened'[i].key]
    BY <2>1, <2>2, <2>3 DEF Noted, Merged, KeyInv
  <2>6. ASSUME NEW k \in DOMAIN seen' \ DOMAIN active' PROVE seen'[k] + Retention < clock'
    BY <2>1, <2>2 DEF Noted, Merged, KeyInv
  <2> QED
    BY <2>4, <2>5, <2>6 DEF KeyInv
<1>5. ASSUME NEW t \in Threads, Open(t) PROVE KeyInv'
  <2>1. Handle(t) /\ clock' = clock /\ now[t] \in Int /\ clock <= now[t] + MaxDelay
    BY <1>0, <1>5, OpenEffect DEF Opened, Handle, TimeInv
  <2>2. Noted(t) /\ Opened(t)
    BY <1>5, <2>1, SeenEffect, OpenEffect
  <2>3. \A i \in DOMAIN opened : opened[i].at - MaxDelay <= now[t]
    BY <1>0, <2>1 DEF TimeInv
  <2>4. ASSUME NEW k \in DOMAIN active'
        PROVE  /\ active'[k].id \in DOMAIN opened' /\ opened'[active'[k].id].key = k
               /\ k \in DOMAIN seen' /\ active'[k].last = seen'[k]
    BY <2>1, <2>2 DEF Noted, Opened, KeyInv
  <2>5. ASSUME NEW i \in DOMAIN opened'
        PROVE  opened'[i].key \in DOMAIN seen' /\ opened'[i].at - MaxDelay <= seen'[opened'[i].key]
    <3>1. CASE i \in DOMAIN opened
      BY <2>1, <2>2, <2>3, <3>1 DEF Noted, Opened, KeyInv
    <3>2. CASE i = Len(opened) + 1
      BY <2>1, <2>2, <3>2 DEF Noted, Opened
    <3> QED
      BY <2>2, <3>1, <3>2 DEF Opened
  <2>6. ASSUME NEW k \in DOMAIN seen' \ DOMAIN active' PROVE seen'[k] + Retention < clock'
    BY <2>1, <2>2 DEF Noted, Opened, KeyInv
  <2> QED
    BY <2>4, <2>5, <2>6 DEF KeyInv
<1>6. ASSUME NEW t \in Threads, Finish(t) PROVE KeyInv'
  <2>1. UNCHANGED <<clock, opened, seen>>
    BY <1>6 DEF Finish
  <2>2. CASE ~CleanupDue(t)
    BY <1>6, <2>1, <2>2 DEF Finish, KeyInv
  <2>3. CASE CleanupDue(t)
    <3>1. active' = [key \in {k \in DOMAIN active : ~Old(k, now[t])} |-> active[key]]
      BY <1>6, <2>3 DEF Finish
    <3>2. now[t] <= clock
      BY <1>6 DEF Finish, TimeInv
    <3>3. ASSUME NEW k \in DOMAIN active \ DOMAIN active' PROVE seen[k] + Retention < clock
      BY <1>0, <3>1, <3>2 DEF Old, KeyInv
    <3> QED
      BY <2>1, <3>1, <3>3 DEF KeyInv
  <2> QED
    BY <2>2, <2>3
<1>7. ASSUME NEW t \in Threads, Report(t) PROVE KeyInv'
  BY <1>7 DEF KeyInv, Report, shared
<1>8. CASE UNCHANGED vars
  BY <1>8 DEF vars, KeyInv
<1> QED
  BY <1>1, <1>2, <1>3, <1>4, <1>5, <1>6, <1>7, <1>8 DEF Next

LEMMA FoundStep == TypeOK /\ FoundInv /\ [Next]_vars => FoundInv'
<1> SUFFICES ASSUME TypeOK, FoundInv, [Next]_vars PROVE FoundInv'
  OBVIOUS
<1>0. /\ found \in [Threads -> Seq(Nat \ {0})] /\ pc \in [Threads -> {"idle", "waiting", "correlating", "reporting"}]
      /\ now \in [Threads -> Times] /\ published \in Seq(Nat \ {0})
  BY DEF TypeOK
<1>1. CASE Tick
  BY <1>1 DEF Tick, shared, local, FoundInv
<1>2. ASSUME NEW t \in Threads, Called(t) PROVE FoundInv'
  <2>1. found[t] = <<>> /\ UNCHANGED <<found, opened, published>>
    BY <1>2 DEF Called, FoundInv, shared
  <2>2. /\ pc' = [pc EXCEPT ![t] = "waiting"] /\ now' = [now EXCEPT ![t] = clock]
    BY <1>2 DEF Called
  <2>3. \A u \in Threads : \A i \in DOMAIN found[u] : now'[u] = now[u]
    BY <1>0, <2>1, <2>2
  <2>4. \A u \in Threads : pc'[u] \in {"idle", "waiting"} => found[u] = <<>>
    BY <1>0, <2>1, <2>2 DEF FoundInv
  <2> QED
    BY <2>1, <2>3, <2>4 DEF FoundInv
<1>3. ASSUME NEW t \in Threads, Acquire(t) PROVE FoundInv'
  BY <1>0, <1>3 DEF FoundInv, Acquire
<1>4. ASSUME NEW t \in Threads, Merge(t) PROVE FoundInv'
  <2>1. Merged(t) /\ UNCHANGED <<found, pc, now, published>>
    BY <1>4, MergeEffect DEF Merged, Handle
  <2> QED
    BY <2>1 DEF Merged, FoundInv
<1>5. ASSUME NEW t \in Threads, Open(t) PROVE FoundInv'
  <2>1. Opened(t) /\ UNCHANGED <<pc, now, published>> /\ pc[t] = "correlating"
    BY <1>5, OpenEffect DEF Opened, Handle
  <2>2. /\ found'[t] = Append(found[t], Len(opened) + 1)
        /\ \A u \in Threads \ {t} : found'[u] = found[u]
        /\ found[t] \in Seq(Nat \ {0})
    BY <1>0, <2>1 DEF Opened
  <2>3. /\ Len(found[t]) \in Nat /\ DOMAIN found[t] = 1 .. Len(found[t])
        /\ DOMAIN found'[t] = 1 .. Len(found[t]) + 1
        /\ \A i \in DOMAIN found[t] : found'[t][i] = found[t][i]
        /\ found'[t][Len(found[t]) + 1] = Len(opened) + 1
    <3> DEFINE new == Append(found[t], Len(opened) + 1)
    <3>1. /\ Len(found[t]) \in Nat /\ DOMAIN found[t] = 1 .. Len(found[t])
          /\ DOMAIN new = 1 .. Len(found[t]) + 1
          /\ \A i \in DOMAIN found[t] : new[i] = found[t][i]
          /\ new[Len(found[t]) + 1] = Len(opened) + 1
      BY <2>2, AppendFacts
    <3> HIDE DEF new
    <3>2. found'[t] = new
      BY <2>2 DEF new
    <3> QED
      BY <3>1, <3>2
  <2>4. Len(opened) \in Nat /\ DOMAIN opened = 1 .. Len(opened) /\ DOMAIN opened' = 1 .. Len(opened) + 1
        /\ (\A i \in DOMAIN opened : opened'[i] = opened[i])
        /\ opened'[Len(opened) + 1].at = now[t]
    BY <2>1 DEF Opened
  <2>5. ASSUME NEW u \in Threads, NEW i \in DOMAIN found'[u]
        PROVE  \/ i \in DOMAIN found[u] /\ found'[u][i] = found[u][i]
               \/ u = t /\ i = Len(found[t]) + 1 /\ found'[u][i] = Len(opened) + 1
    <3>1. CASE u = t
      <4>1. i \in 1 .. Len(found[t]) + 1
        BY <2>3, <3>1
      <4>2. CASE i \in 1 .. Len(found[t])
        BY <2>3, <3>1, <4>2
      <4>3. CASE i = Len(found[t]) + 1
        BY <2>3, <3>1, <4>3
      <4> QED
        BY <2>3, <4>1, <4>2, <4>3
    <3>2. CASE u # t
      BY <2>2, <3>2
    <3> QED
      BY <3>1, <3>2
  <2>6. \A u \in Threads : \A i \in DOMAIN found[u] : found[u][i] \in 1 .. Len(opened)
    BY <2>4 DEF FoundInv
  <2>7. \A u \in Threads : pc'[u] \in {"idle", "waiting"} => found'[u] = <<>>
    BY <2>1, <2>2 DEF FoundInv
  <2>8. ASSUME NEW u \in Threads, NEW i \in DOMAIN found'[u]
        PROVE  found'[u][i] \in DOMAIN opened' /\ opened'[found'[u][i]].at = now'[u]
    BY <2>1, <2>4, <2>5, <2>6 DEF FoundInv
  <2>9. ASSUME NEW u \in Threads, NEW i \in DOMAIN found'[u], NEW j \in DOMAIN found'[u], i < j
        PROVE  found'[u][i] < found'[u][j]
    <3>1. CASE i \in DOMAIN found[u] /\ j \in DOMAIN found[u]
                /\ found'[u][i] = found[u][i] /\ found'[u][j] = found[u][j]
      BY <2>9, <3>1 DEF FoundInv
    <3>2. CASE i \in DOMAIN found[u] /\ found'[u][i] = found[u][i] /\ found'[u][j] = Len(opened) + 1
      BY <2>4, <2>6, <3>2
    <3>3. CASE u = t /\ i = Len(found[t]) + 1
      <4>1. j \in 1 .. Len(found[t]) + 1
        BY <2>3, <3>3
      <4> QED
        BY <2>3, <2>9, <3>3, <4>1
    <3> QED
      BY <2>5, <3>1, <3>2, <3>3
  <2>10. ASSUME NEW u \in Threads, NEW v \in Threads, u # v,
                NEW i \in DOMAIN found'[u], NEW j \in DOMAIN found'[v]
         PROVE  found'[u][i] # found'[v][j]
    BY <2>4, <2>5, <2>6, <2>10 DEF FoundInv
  <2>11. ASSUME NEW i \in DOMAIN published'
         PROVE  /\ published'[i] \in DOMAIN opened'
                /\ \A u \in Threads : \A j \in DOMAIN found'[u] : published'[i] # found'[u][j]
    BY <2>1, <2>4, <2>5, <2>6 DEF FoundInv
  <2> QED
    BY <2>7, <2>8, <2>9, <2>10, <2>11 DEF FoundInv
<1>6. ASSUME NEW t \in Threads, Finish(t) PROVE FoundInv'
  BY <1>0, <1>6 DEF FoundInv, Finish
<1>7. ASSUME NEW t \in Threads, Report(t) PROVE FoundInv'
  <2>1. /\ found'[t] = <<>> /\ (\A u \in Threads \ {t} : found'[u] = found[u])
        /\ (\A u \in Threads \ {t} : now'[u] = now[u] /\ pc'[u] = pc[u])
        /\ UNCHANGED opened
    BY <1>0, <1>7 DEF Report, shared
  <2>2. \A i \in DOMAIN published' :
           \/ i \in DOMAIN published /\ published'[i] = published[i]
           \/ \E j \in DOMAIN found[t] : published'[i] = found[t][j]
    <3>1. published' = published \o found[t] /\ found[t] \in Seq(Nat \ {0})
      BY <1>0, <1>7 DEF Report
    <3> QED
      BY <1>0, <3>1
  <2> QED
    BY <2>1, <2>2 DEF FoundInv
<1>8. CASE UNCHANGED vars
  BY <1>8 DEF vars, FoundInv
<1> QED
  BY <1>1, <1>2, <1>3, <1>4, <1>5, <1>6, <1>7, <1>8 DEF Next

IInv == TypeOK /\ TimeInv /\ KeyInv /\ FoundInv

THEOREM InductiveInvariant == Spec => []IInv
<1>1. Init => IInv
  <2>1. Init => TypeOK
    BY DEF Init, TypeOK, Times
  <2> QED
    BY <2>1 DEF Init, IInv, TimeInv, KeyInv, FoundInv
<1>2. IInv /\ [Next]_vars => IInv'
  BY TypeStep, TimeStep, KeyStep, FoundStep DEF IInv
<1> QED
  BY <1>1, <1>2, PTL DEF Spec

-----------------------------------------------------------------------------
(* The properties.                                                         *)

\* When a thread handles a signal whose key has no ongoing incident, the last
\* signal of that key is older than the window, forgotten or not.
LEMMA NotRepeated ==
    ASSUME IInv, NEW t \in Threads, Open(t), KeyOf(t) \in DOMAIN seen
    PROVE  now[t] - seen[KeyOf(t)] > Window
<1> USE Numbers
<1>1. /\ clock \in Int /\ now[t] \in Int /\ seen[KeyOf(t)] \in Int /\ Opened(t)
      /\ clock <= now[t] + MaxDelay
  <2>1. TypeOK /\ Opened(t)
    BY OpenEffect DEF IInv
  <2>2. clock <= now[t] + MaxDelay
    BY <2>1 DEF IInv, TimeInv, Opened, Handle
  <2> QED
    BY <2>1, <2>2, Histories
<1>2. CASE KeyOf(t) \in DOMAIN active
  BY <1>1, <1>2 DEF Opened, IInv, KeyInv
<1>3. CASE KeyOf(t) \notin DOMAIN active
  <2>1. seen[KeyOf(t)] + Retention < clock
    BY <1>3 DEF IInv, KeyInv
  <2> QED
    BY <1>1, <2>1, DelayAssumption
<1> QED
  BY <1>2, <1>3

LEMMA StepsOfHistory ==
    ASSUME IInv, [Next]_vars
    PROVE  \/ /\ DOMAIN opened' = DOMAIN opened
              /\ \A i \in DOMAIN opened : opened'[i].key = opened[i].key /\ opened'[i].at = opened[i].at
           \/ \E t \in Threads : Open(t)
<1> TypeOK
  BY DEF IInv
<1>1. ASSUME NEW t \in Threads, Merge(t)
      PROVE  /\ DOMAIN opened' = DOMAIN opened
             /\ \A i \in DOMAIN opened : opened'[i].key = opened[i].key /\ opened'[i].at = opened[i].at
  BY <1>1, MergeEffect DEF Merged
<1>2. CASE UNCHANGED opened
  BY <1>2
<1>3. ASSUME NEW t \in Threads, Called(t) \/ Acquire(t) \/ Finish(t) \/ Report(t)
      PROVE  UNCHANGED opened
  BY <1>3 DEF Called, Acquire, Finish, Report, shared
<1>4. Tick \/ UNCHANGED vars => UNCHANGED opened
  BY DEF Tick, shared, vars
<1> QED
  BY <1>1, <1>2, <1>3, <1>4 DEF Next

\* Two alerts of one key are more than Window - MaxDelay apart: no storm,
\* whatever the threads, the waiting for the lock and the cleanup.
THEOREM NoAlertStorm == Spec => []AlertsSpaced
<1>1. Init => AlertsSpaced
  BY DEF Init, AlertsSpaced
<1>2. IInv /\ AlertsSpaced /\ [Next]_vars => AlertsSpaced'
  <2> SUFFICES ASSUME IInv, AlertsSpaced, [Next]_vars PROVE AlertsSpaced'
    OBVIOUS
  <2> USE Numbers
  <2>1. CASE /\ DOMAIN opened' = DOMAIN opened
             /\ \A i \in DOMAIN opened : opened'[i].key = opened[i].key /\ opened'[i].at = opened[i].at
    BY <2>1 DEF AlertsSpaced
  <2>2. ASSUME NEW t \in Threads, Open(t) PROVE AlertsSpaced'
    <3>1. Opened(t) /\ now[t] \in Int /\ (\A i \in DOMAIN opened : opened[i].at \in Int)
          /\ (\A k \in DOMAIN seen : seen[k] \in Int)
      BY <2>2, OpenEffect, Histories DEF IInv
    <3>2. ASSUME NEW i \in DOMAIN opened, opened[i].key = KeyOf(t)
          PROVE  now[t] - opened[i].at > Window - MaxDelay
      <4>1. KeyOf(t) \in DOMAIN seen /\ opened[i].at - MaxDelay <= seen[KeyOf(t)]
        BY <3>2 DEF IInv, KeyInv
      <4>2. now[t] - seen[KeyOf(t)] > Window
        BY <2>2, <4>1, NotRepeated
      <4> QED
        BY <3>1, <4>1, <4>2
    <3>3. ASSUME NEW i \in DOMAIN opened', NEW j \in DOMAIN opened',
                 i < j, opened'[i].key = opened'[j].key
          PROVE  opened'[j].at - opened'[i].at > Window - MaxDelay
      <4>1. CASE i \in DOMAIN opened /\ j \in DOMAIN opened
        BY <3>1, <3>3, <4>1 DEF Opened, AlertsSpaced
      <4>2. CASE i \in DOMAIN opened /\ j = Len(opened) + 1
        BY <3>1, <3>2, <3>3, <4>2 DEF Opened
      <4> QED
        BY <3>1, <3>3, <4>1, <4>2 DEF Opened
    <3> QED
      BY <3>3 DEF AlertsSpaced
  <2> QED
    BY <2>1, <2>2, StepsOfHistory
<1> QED
  BY <1>1, <1>2, InductiveInvariant, PTL DEF Spec

LEMMA KeysStay ==
    ASSUME IInv, [Next]_vars
    PROVE  \A i \in DOMAIN opened : i \in DOMAIN opened' /\ opened'[i].key = opened[i].key
<1>1. ASSUME NEW t \in Threads, Open(t)
      PROVE  \A i \in DOMAIN opened : i \in DOMAIN opened' /\ opened'[i].key = opened[i].key
  <2>1. Opened(t)
    BY <1>1, OpenEffect DEF IInv
  <2> QED
    BY <2>1 DEF Opened
<1>2. CASE /\ DOMAIN opened' = DOMAIN opened
           /\ \A i \in DOMAIN opened : opened'[i].key = opened[i].key /\ opened'[i].at = opened[i].at
  BY <1>2
<1> QED
  BY <1>1, <1>2, StepsOfHistory

LEMMA OthersPublishNothing ==
    ASSUME [Next]_vars
    PROVE  UNCHANGED published \/ \E t \in Threads : Report(t)
BY DEF Next, vars, Tick, Called, Acquire, Merge, Open, Handle, Finish

\* The alerts of one key are handed over in the order they were raised, each
\* once, whatever the order in which threads get to format them.
THEOREM ReportedInOrder == Spec => []PublishedInOrder
<1>1. Init => PublishedInOrder
  BY DEF Init, PublishedInOrder
<1>2. IInv /\ AlertsSpaced /\ PublishedInOrder /\ [Next]_vars => PublishedInOrder'
  <2> SUFFICES ASSUME IInv, AlertsSpaced, PublishedInOrder, [Next]_vars PROVE PublishedInOrder'
    OBVIOUS
  <2> USE Numbers
  <2>0. \A i \in DOMAIN published : published[i] \in DOMAIN opened
    BY DEF IInv, FoundInv
  <2>1. CASE UNCHANGED published
    BY <2>0, <2>1, KeysStay DEF PublishedInOrder
  <2>2. ASSUME NEW t \in Threads, Report(t) PROVE PublishedInOrder'
    <3>1. /\ published' = published \o found[t] /\ opened' = opened
          /\ published \in Seq(Nat \ {0}) /\ found[t] \in Seq(Nat \ {0})
      BY <2>2 DEF Report, shared, IInv, TypeOK
    <3>2. /\ clock \in Int /\ now[t] \in Int /\ clock <= now[t] + MaxDelay
          /\ \A i \in DOMAIN opened : opened[i].at \in Int /\ opened[i].at <= clock
      BY <2>2, Histories DEF Report, IInv, TimeInv
    <3>3. ASSUME NEW a \in DOMAIN published, NEW b \in DOMAIN found[t],
                 opened[published[a]].key = opened[found[t][b]].key
          PROVE  published[a] < found[t][b]
      <4>1. /\ published[a] \in DOMAIN opened /\ found[t][b] \in DOMAIN opened
            /\ published[a] # found[t][b] /\ opened[found[t][b]].at = now[t]
        BY DEF IInv, FoundInv
      <4>2. published[a] \in Int /\ found[t][b] \in Int
        BY <3>1
      <4>3. ~(found[t][b] < published[a])
        <5> SUFFICES ASSUME found[t][b] < published[a] PROVE FALSE
          OBVIOUS
        <5>1. opened[published[a]].at - now[t] > Window - MaxDelay
          BY <3>3, <4>1 DEF AlertsSpaced
        <5> QED
          BY <3>2, <4>1, <5>1, DelayAssumption
      <4> QED
        BY <4>1, <4>2, <4>3
    <3>4. /\ Len(published) \in Nat /\ Len(found[t]) \in Nat
          /\ DOMAIN published = 1 .. Len(published) /\ DOMAIN found[t] = 1 .. Len(found[t])
          /\ DOMAIN published' = 1 .. Len(published) + Len(found[t])
          /\ \A i \in DOMAIN published : published'[i] = published[i]
          /\ \A i \in DOMAIN published' \ DOMAIN published :
                i - Len(published) \in DOMAIN found[t] /\ published'[i] = found[t][i - Len(published)]
      BY <3>1
    <3>5. ASSUME NEW i \in DOMAIN published', NEW j \in DOMAIN published',
                 i < j, opened[published'[i]].key = opened[published'[j]].key
          PROVE  published'[i] < published'[j]
      <4>1. CASE i \in DOMAIN published /\ j \in DOMAIN published
        BY <3>4, <3>5, <4>1 DEF PublishedInOrder
      <4>2. CASE i \in DOMAIN published /\ j \notin DOMAIN published
        BY <3>3, <3>4, <3>5, <4>2
      <4>3. CASE i \notin DOMAIN published /\ j \notin DOMAIN published
        <5> DEFINE a == i - Len(published)
                   b == j - Len(published)
        <5>1. a \in DOMAIN found[t] /\ b \in DOMAIN found[t] /\ a < b
              /\ published'[i] = found[t][a] /\ published'[j] = found[t][b]
          BY <3>4, <3>5, <4>3
        <5> QED
          BY <5>1 DEF IInv, FoundInv
      <4> QED
        BY <3>4, <3>5, <4>1, <4>2, <4>3
    <3> QED
      BY <3>1, <3>5 DEF PublishedInOrder
  <2> QED
    BY <2>1, <2>2, OthersPublishNothing
<1> QED
  BY <1>1, <1>2, InductiveInvariant, NoAlertStorm, PTL DEF Spec

\* An active incident has the highest severity of the signals merged into it,
\* for any order in which they came.
THEOREM HighestSeverity == Spec => []SeverityHighest
<1>1. Init => SeverityHighest
  BY DEF Init, SeverityHighest
<1>2. IInv /\ SeverityHighest /\ [Next]_vars => SeverityHighest'
  <2> SUFFICES ASSUME IInv, SeverityHighest, [Next]_vars PROVE SeverityHighest'
    OBVIOUS
  <2>0. TypeOK
    BY DEF IInv
  <2>1. ASSUME NEW t \in Threads, Merge(t) PROVE SeverityHighest'
    <3>1. Merged(t)
      BY <2>0, <2>1, MergeEffect
    <3> DEFINE id == active[KeyOf(t)].id
               old == active[KeyOf(t)].severity
               new == SeverityOf(t)
    <3>2. /\ id \in DOMAIN opened /\ opened[id].key = KeyOf(t)
          /\ \A k \in DOMAIN active \ {KeyOf(t)} : active[k].id \in DOMAIN opened \ {id}
      BY <3>1 DEF Merged, IInv, KeyInv
    <3>3. ASSUME NEW k \in DOMAIN active'
          PROVE  /\ active'[k].severity \in opened'[active'[k].id].merged
                 /\ \A severity \in opened'[active'[k].id].merged :
                       Rank[severity] <= Rank[active'[k].severity]
      <4>1. CASE k # KeyOf(t)
        BY <3>1, <3>2, <4>1 DEF Merged, SeverityHighest
      <4>2. CASE k = KeyOf(t)
        <5>1. /\ active'[k].id = id /\ opened'[id].merged = opened[id].merged \union {new}
              /\ active'[k].severity = Upgraded(old, new)
          BY <3>1, <3>2, <4>2 DEF Merged
        <5>2. /\ old \in opened[id].merged
              /\ \A severity \in opened[id].merged : Rank[severity] <= Rank[old]
          BY <3>1 DEF SeverityHighest, Merged
        <5>3. new \in DOMAIN Rank /\ opened[id].merged \subseteq DOMAIN Rank
          <6>1. opened[id] \in Openings
            BY <2>0, <3>2, Histories
          <6>2. Handle(t)
            BY <3>1 DEF Merged
          <6> QED
            BY <2>0, <6>1, <6>2, HeadType DEF Openings, SeverityOf
        <5>4. \A severity \in opened[id].merged \union {new} :
                 Rank[severity] \in Int /\ Rank[severity] <= Rank[Upgraded(old, new)]
          BY <5>2, <5>3, RankType DEF Upgraded
        <5>5. Upgraded(old, new) \in opened[id].merged \union {new}
          BY <5>2 DEF Upgraded
        <5> QED
          BY <5>1, <5>4, <5>5
      <4> QED
        BY <4>1, <4>2
    <3> QED
      BY <3>3 DEF SeverityHighest
  <2>2. ASSUME NEW t \in Threads, Open(t) PROVE SeverityHighest'
    <3>1. Opened(t) /\ SeverityOf(t) \in DOMAIN Rank
      BY <2>0, <2>2, OpenEffect, SeenEffect DEF Opened, Noted
    <3>2. \A k \in DOMAIN active : active[k].id \in DOMAIN opened
      BY DEF IInv, KeyInv
    <3>3. ASSUME NEW k \in DOMAIN active'
          PROVE  /\ active'[k].severity \in opened'[active'[k].id].merged
                 /\ \A severity \in opened'[active'[k].id].merged :
                       Rank[severity] <= Rank[active'[k].severity]
      <4>1. CASE k # KeyOf(t)
        BY <3>1, <3>2, <4>1 DEF Opened, SeverityHighest
      <4>2. CASE k = KeyOf(t)
        <5>1. active'[k].severity = SeverityOf(t) /\ opened'[active'[k].id].merged = {SeverityOf(t)}
          BY <3>1, <4>2 DEF Opened
        <5> QED
          BY <3>1, <5>1, RankType
      <4> QED
        BY <4>1, <4>2
    <3> QED
      BY <3>3 DEF SeverityHighest
  <2>3. ASSUME NEW t \in Threads, Finish(t) PROVE SeverityHighest'
    BY <2>3 DEF Finish, SeverityHighest
  <2>4. CASE UNCHANGED <<active, opened>>
    BY <2>4 DEF SeverityHighest
  <2>5. ASSUME NEW t \in Threads, Called(t) \/ Acquire(t) \/ Report(t)
        PROVE  UNCHANGED <<active, opened>>
    BY <2>5 DEF Called, Acquire, Report, shared
  <2>6. Tick \/ UNCHANGED vars => UNCHANGED <<active, opened>>
    BY DEF Tick, shared, vars
  <2> QED
    BY <2>1, <2>2, <2>3, <2>4, <2>5, <2>6 DEF Next
<1> QED
  BY <1>1, <1>2, InductiveInvariant, PTL DEF Spec

-----------------------------------------------------------------------------
(* Refinement.                                                             *)

Raised == [i \in DOMAIN opened |-> [key |-> opened[i].key, at |-> opened[i].at]]

LEMMA MergeRefines ==
    ASSUME IInv, NEW t \in Threads, Merge(t)
    PROVE  Filter!Signal(KeyOf(t), now[t])
<1>1. Merged(t) /\ Noted(t) /\ seen' = With(seen, KeyOf(t), now[t])
  BY MergeEffect, SeenEffect DEF IInv, Merged, Handle, KeyOf
<1>2. KeyOf(t) \in DOMAIN seen /\ now[t] - seen[KeyOf(t)] <= Window
  BY <1>1 DEF Merged, IInv, KeyInv
<1>3. Raised' = Raised
  BY <1>1 DEF Merged, Raised
<1> QED
  BY <1>1, <1>2, <1>3 DEF Filter!Signal, Filter!Repeated, Raised, With

LEMMA OpenRefines ==
    ASSUME IInv, NEW t \in Threads, Open(t)
    PROVE  Filter!Signal(KeyOf(t), now[t])
<1> USE Numbers
<1>1. Opened(t) /\ Noted(t) /\ seen' = With(seen, KeyOf(t), now[t])
  BY OpenEffect, SeenEffect DEF IInv, Opened, Handle, KeyOf
<1>2. ~(KeyOf(t) \in DOMAIN seen /\ now[t] - seen[KeyOf(t)] <= Window)
  <2>1. now[t] \in Int /\ \A k \in DOMAIN seen : seen[k] \in Int
    BY Histories DEF IInv
  <2> QED
    BY <2>1, NotRepeated
<1>3. Raised' = Append(Raised, [key |-> KeyOf(t), at |-> now[t]])
  <2> DEFINE record == [key |-> KeyOf(t), at |-> now[t]]
  <2>1. /\ Len(opened) \in Nat /\ DOMAIN opened = 1 .. Len(opened)
        /\ DOMAIN opened' = 1 .. Len(opened) + 1
        /\ \A i \in DOMAIN opened : opened'[i] = opened[i]
        /\ opened'[Len(opened) + 1].key = KeyOf(t) /\ opened'[Len(opened) + 1].at = now[t]
    BY <1>1 DEF Opened
  <2> DEFINE S == [key : {opened[i].key : i \in DOMAIN opened},
                  at : {opened[i].at : i \in DOMAIN opened}]
  <2>2. Raised \in [1 .. Len(opened) -> S]
    BY <2>1 DEF Raised
  <2> HIDE DEF S
  <2>3. Raised \in Seq(S) /\ Len(Raised) = Len(opened)
    BY <2>1, <2>2, FunctionIsSeq
  <2>4. Append(Raised, record) = [i \in 1 .. Len(Raised) + 1 |->
                                    IF i = Len(Raised) + 1 THEN record ELSE Raised[i]]
    BY <2>3
  <2>5. Raised' = [i \in 1 .. Len(opened) + 1 |->
                     IF i = Len(opened) + 1 THEN record ELSE Raised[i]]
    BY <2>1 DEF Raised
  <2> QED
    BY <2>3, <2>4, <2>5
<1> QED
  BY <1>1, <1>2, <1>3 DEF Filter!Signal, Filter!Repeated, Raised, With

\* The engine decides on every signal as the filter that never forgets and
\* handles signals one by one.
THEOREM EngineImplementsFilter == Spec => ImplementsFilter
<1>1. Init => Filter!Init
  BY DEF Init, Filter!Init
<1>2. IInv /\ [Next]_vars => [Filter!Next]_<<seen, Raised>>
  <2> SUFFICES ASSUME IInv, [Next]_vars PROVE [Filter!Next]_<<seen, Raised>>
    OBVIOUS
  <2>1. ASSUME NEW t \in Threads, Merge(t) \/ Open(t) PROVE Filter!Next
    <3>1. Filter!Signal(KeyOf(t), now[t])
      BY <2>1, MergeRefines, OpenRefines
    <3>2. KeyOf(t) \in Keys /\ now[t] \in Times
      BY <2>1, SeenEffect DEF Merge, Open, Noted, IInv
    <3> QED
      BY <3>1, <3>2 DEF Filter!Next, Filter!Signal, Filter!Repeated
  <2>2. CASE UNCHANGED <<seen, opened>>
    BY <2>2 DEF Raised
  <2>3. ASSUME NEW t \in Threads, Called(t) \/ Acquire(t) \/ Finish(t) \/ Report(t)
        PROVE  UNCHANGED <<seen, opened>>
    BY <2>3 DEF Called, Acquire, Finish, Report, shared
  <2>4. Tick \/ UNCHANGED vars => UNCHANGED <<seen, opened>>
    BY DEF Tick, shared, vars
  <2> QED
    BY <2>1, <2>2, <2>3, <2>4 DEF Next
<1> QED
  BY <1>1, <1>2, InductiveInvariant, PTL DEF Spec, ImplementsFilter, Filter!Spec, Raised
=============================================================================
