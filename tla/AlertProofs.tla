------------------------------ MODULE AlertProofs ------------------------------
(***************************************************************************)
(* What TLAPS proves of the way of an alert, from the table to the         *)
(* websockets.  First EvidenceChain, for every set of threads and of       *)
(* alerts, every set of faults and every bound on the health updates:      *)
(* threads that take turns build a log, and when they do not, no link      *)
(* competes with the digest of a stored row.  Then AlertStream, for every  *)
(* set of threads and websockets, every length of a queue and all the      *)
(* numbers alerts may get: an alert that is published is in one place, and *)
(* the alerts of one source come in order.                                 *)
(***************************************************************************)
EXTENDS EvidenceChain, AlertStream, FiniteSetTheorems, SequenceTheorems, TLAPS

USE ConstantsAssumption

-----------------------------------------------------------------------------
(* Lemmas about payloads and digests.                                      *)

\* Payloads are payloads, whichever side of the table they are on.
LEMMA PayloadType ==
    ASSUME health \in Nat, NEW a \in Alerts
    PROVE  Payload(a) \in Contents /\ Stored(a) \in Contents
BY DEF Payload, Stored, Contents

\* Hashing a payload onto a digest gives a digest.
LEMMA HashType ==
    ASSUME NEW d \in Digests, NEW c \in Contents
    PROVE  Hash(d, c) \in Digests
BY DEF Hash, Digests

\* The row a query for the newest row returns is one of the table.
LEMMA HeadType ==
    ASSUME TypeOK, NEW i \in Heads
    PROVE  AdoptHead(i) \in Chains
<1>1. i \in DOMAIN rows
  BY DEF Heads
<1>2. rows[i] \in Rows
  BY <1>1 DEF TypeOK
<1> QED
  BY <1>2 DEF AdoptHead, Rows, Chains

LEMMA GenesisType == Genesis \in Digests /\ FreshChain \in Chains
BY DEF Genesis, Digests, FreshChain, Chains

LEMMA NoLocalType == NoLocal \in Locals
BY GenesisType DEF NoLocal, Locals


\* INSERT OR REPLACE leaves a table.
LEMMA KeptType ==
    ASSUME TypeOK, NEW a \in Alerts
    PROVE  Kept(a) \in Seq(Rows)
<1>1. rows \in Seq(Rows) /\ Len(rows) \in Nat /\ DOMAIN rows = 1..Len(rows)
  BY DEF TypeOK
<1>2. CASE a \in StoredAlerts
  <2> DEFINE i == CHOOSE i \in DOMAIN rows : rows[i].body.alert = a
  <2>1. i \in 1..Len(rows)
    BY <1>1, <1>2 DEF StoredAlerts
  <2> HIDE DEF i
  <2>2. /\ \A j \in 1..(i - 1) : rows[j] \in Rows
        /\ \A j \in (i + 1)..Len(rows) : rows[j] \in Rows
    BY <1>1, <2>1
  <2>3. i - 1 \in Int /\ i + 1 \in Int /\ Len(rows) \in Int
    BY <1>1, <2>1
  <2>4. SubSeq(rows, 1, i - 1) \in Seq(Rows)
    BY <2>2, <2>3, SubSeqProperties
  <2>5. SubSeq(rows, i + 1, Len(rows)) \in Seq(Rows)
    BY <2>2, <2>3, SubSeqProperties
  <2>6. Kept(a) = SubSeq(rows, 1, i - 1) \o SubSeq(rows, i + 1, Len(rows))
    BY <1>2 DEF Kept, i
  <2> QED
    BY <2>4, <2>5, <2>6, ConcatProperties
<1>3. CASE a \notin StoredAlerts
  BY <1>1, <1>3 DEF Kept
<1> QED
  BY <1>2, <1>3

-----------------------------------------------------------------------------
\* Type correctness: the shared object, the table and what each thread holds
\* stay well formed through every step of append and save_alert, failures
\* and restarts included.
THEOREM TypeCorrect == Spec => []TypeOK
<1>1. Init => TypeOK
  <2>1. Init => stale \in BOOLEAN /\ calm \in BOOLEAN
    BY Zenon DEF Init
  <2> QED
    BY <2>1, GenesisType, NoLocalType DEF Init, TypeOK, Steps
<1>2. TypeOK /\ [Next]_vars => TypeOK'
  <2> SUFFICES ASSUME TypeOK, [Next]_vars
               PROVE  TypeOK'
    OBVIOUS
  <2>1. ASSUME NEW t \in Threads, Observe(t)
        PROVE  TypeOK'
    BY <2>1 DEF Observe, TypeOK, tables, history
  <2>2. ASSUME NEW t \in Threads, NEW a \in Alerts, Raise(t, a)
        PROVE  TypeOK'
    BY <2>2 DEF Raise, Goto, TypeOK, tables, history, Steps, Locals
  <2>3. ASSUME NEW t \in Threads, QueryHead(t)
        PROVE  TypeOK'
    <3>1. CASE rows = <<>> /\ Goto(t, "query", "link") /\ UNCHANGED local
      BY <2>3, <3>1 DEF QueryHead, Goto, TypeOK, tables, history, Steps
    <3>2. CASE \E i \in Heads :
                  /\ Goto(t, "query", "adoptSequence")
                  /\ local' = [local EXCEPT ![t].head = AdoptHead(i)]
      <4>1. PICK i \in Heads : local' = [local EXCEPT ![t].head = AdoptHead(i)]
        BY <3>2
      <4>2. AdoptHead(i) \in Chains
        BY HeadType
      <4>3. local' \in [Threads -> Locals] /\ \A u \in Threads : local'[u].alert = local[u].alert
        BY <4>1, <4>2 DEF TypeOK, Locals
      <4> QED
        BY <2>3, <3>2, <4>3 DEF QueryHead, Goto, TypeOK, tables, history, Steps
    <3> QED
      BY <2>3, <3>1, <3>2 DEF QueryHead
  <2>4. ASSUME NEW t \in Threads, QueryFails(t)
        PROVE  TypeOK'
    BY <2>4 DEF QueryFails, Goto, TypeOK, tables, history, Steps
  <2>5. ASSUME NEW t \in Threads, AdoptSequence(t)
        PROVE  TypeOK'
    BY <2>5 DEF AdoptSequence, Goto, TypeOK, tables, history, Steps, Chains, Locals
  <2>6. ASSUME NEW t \in Threads, AdoptPrevious(t)
        PROVE  TypeOK'
    BY <2>6 DEF AdoptPrevious, Goto, TypeOK, tables, history, Steps, Chains, Locals
  <2>7. ASSUME NEW t \in Threads, Link(t)
        PROVE  TypeOK'
    <3>1. chain' \in Chains
      BY <2>7 DEF Link, TypeOK, Chains
    <3>2. local' \in [Threads -> Locals] /\ \A u \in Threads : local'[u].alert = local[u].alert
      BY <2>7 DEF Link, TypeOK, Chains, Locals
    <3> QED
      BY <2>7, <3>1, <3>2 DEF Link, Goto, TypeOK, tables, history, Steps
  <2>8. ASSUME NEW t \in Threads, Digest(t)
        PROVE  TypeOK'
    <3>1. local[t].alert \in Alerts /\ local[t].prev \in Digests
      BY <2>8 DEF Digest, Goto, TypeOK, Locals
    <3>2. Hash(local[t].prev, Payload(local[t].alert)) \in Digests
      BY <3>1, PayloadType, HashType DEF TypeOK
    <3> QED
      BY <2>8, <3>2 DEF Digest, Goto, TypeOK, tables, history, Steps, Locals
  <2>9. ASSUME NEW t \in Threads, Stamp(t)
        PROVE  TypeOK'
    BY <2>9 DEF Stamp, Goto, TypeOK, tables, history, Steps, Chains, Locals
  <2>10. ASSUME NEW t \in Threads, InsertAlert(t)
         PROVE  TypeOK'
    <3>1. local[t].alert \in Alerts
      BY <2>10 DEF InsertAlert, Goto, TypeOK
    <3>2. RowOf(t) \in Rows
      BY <3>1, PayloadType DEF RowOf, Rows, TypeOK, Locals
    <3>3. Kept(local[t].alert) \in Seq(Rows)
      BY <3>1, KeptType
    <3>4. rows' \in Seq(Rows)
      BY <2>10, <3>2, <3>3, AppendProperties DEF InsertAlert
    <3> QED
      BY <2>10, <3>4 DEF InsertAlert, Goto, TypeOK, Steps, history
  <2>11. ASSUME NEW t \in Threads, InsertEvidence(t)
         PROVE  TypeOK'
    BY <2>11 DEF InsertEvidence, Goto, TypeOK, Steps, history
  <2>12. ASSUME NEW t \in Threads, SaveIncident(t)
         PROVE  TypeOK'
    BY <2>12 DEF SaveIncident, Goto, TypeOK, Steps, history
  <2>13. ASSUME NEW t \in Threads, StatementFails(t)
         PROVE  TypeOK'
    BY <2>13, NoLocalType DEF StatementFails, Leave, TypeOK, tables, history, Steps
  <2>14. ASSUME NEW t \in Threads, Notify(t)
         PROVE  TypeOK'
    BY <2>14, NoLocalType DEF Notify, Leave, TypeOK, tables, history, Steps
  <2>15. CASE Restart
    <3>1. chain' \in Chains
      BY <2>15, GenesisType, HeadType DEF Restart
    <3> QED
      BY <2>15, <3>1, NoLocalType DEF Restart, TypeOK, tables, history, Steps
  <2>16. CASE UNCHANGED vars
    BY <2>16 DEF vars, tables, history, TypeOK
  <2> QED
    BY <2>1, <2>2, <2>3, <2>4, <2>5, <2>6, <2>7, <2>8, <2>9, <2>10, <2>11,
       <2>12, <2>13, <2>14, <2>15, <2>16 DEF Next, Finalize
<1> QED
  BY <1>1, <1>2, PTL DEF Spec

-----------------------------------------------------------------------------
(* Every alert is stored once.                                             *)

Unstored == {"query", "adoptSequence", "adoptPrevious", "link", "digest", "stamp", "insert"}

\* An alert is in the hands of one thread, its uuid was drawn before, and
\* until its row is inserted no row has it.
FreshInv ==
    /\ StoredAlerts \subseteq raised
    /\ \A t \in Threads :
          /\ pc[t] # "idle" => local[t].alert \in raised
          /\ pc[t] \in Unstored => local[t].alert \notin StoredAlerts
    /\ \A t, u \in Threads : t # u /\ pc[t] # "idle" /\ pc[u] # "idle"
                                => local[t].alert # local[u].alert

\* So INSERT OR REPLACE finds nothing to replace.
LEMMA InsertAppends ==
    ASSUME TypeOK, FreshInv, NEW t \in Threads, InsertAlert(t)
    PROVE  /\ rows \in Seq(Rows) /\ RowOf(t) \in Rows
           /\ rows' = Append(rows, RowOf(t))
           /\ StoredAlerts' = StoredAlerts \union {local[t].alert}
<1>1. rows \in Seq(Rows) /\ pc[t] = "insert"
  BY DEF TypeOK, InsertAlert, Goto
<1>2. local[t].alert \notin StoredAlerts
  BY <1>1 DEF FreshInv, Unstored
<1>3. rows' = Append(rows, RowOf(t))
  BY <1>2 DEF InsertAlert, Kept
<1>4. RowOf(t) \in Rows
  <2>1. local[t].alert \in Alerts
    BY <1>1 DEF TypeOK
  <2> QED
    BY <2>1, PayloadType DEF RowOf, Rows, TypeOK, Locals
<1>5. RowOf(t).body.alert = local[t].alert
  BY DEF RowOf, Stored, Payload
<1>6. /\ Len(rows) \in Nat /\ DOMAIN rows = 1..Len(rows)
      /\ DOMAIN rows' = 1..(Len(rows) + 1)
      /\ \A i \in DOMAIN rows : rows'[i] = rows[i]
      /\ rows'[Len(rows) + 1] = RowOf(t)
  BY <1>1, <1>3, <1>4
<1>7. StoredAlerts' = StoredAlerts \union {local[t].alert}
  <2>1. \A i \in DOMAIN rows' : i \in DOMAIN rows \/ i = Len(rows) + 1
    BY <1>6
  <2>2. DOMAIN rows \subseteq DOMAIN rows' /\ Len(rows) + 1 \in DOMAIN rows'
    BY <1>6
  <2>3. StoredAlerts' = {rows'[i].body.alert : i \in DOMAIN rows'}
    BY DEF StoredAlerts
  <2> QED
    BY <1>5, <1>6, <2>1, <2>2, <2>3 DEF StoredAlerts
<1> QED
  BY <1>1, <1>3, <1>4, <1>7

LEMMA FreshInvHolds == Spec => []FreshInv
<1>1. Init => FreshInv
  BY DEF Init, FreshInv, StoredAlerts, Unstored
<1>2. TypeOK /\ FreshInv /\ [Next]_vars => FreshInv'
  <2> SUFFICES ASSUME TypeOK, FreshInv, [Next]_vars
               PROVE  FreshInv'
    OBVIOUS
  <2> DEFINE Holds == /\ rows' = rows /\ raised' = raised
                      /\ \A t \in Threads : pc'[t] # "idle" =>
                            /\ pc[t] # "idle" /\ local'[t].alert = local[t].alert
                            /\ pc'[t] \in Unstored => pc[t] \in Unstored
  <2>1. Holds => FreshInv'
    BY DEF FreshInv, StoredAlerts, Unstored
  <2>2. ASSUME NEW t \in Threads, NEW a \in Alerts, Raise(t, a)
        PROVE  FreshInv'
    <3>1. /\ rows' = rows /\ raised' = raised \union {a} /\ a \notin raised
          /\ local' = [local EXCEPT ![t].alert = a]
          /\ pc[t] = "idle" /\ pc' = [pc EXCEPT ![t] = "query"]
      BY <2>2 DEF Raise, Goto, tables
    <3>2. StoredAlerts' = StoredAlerts
      BY <3>1 DEF StoredAlerts
    <3>3. local \in [Threads -> Locals] /\ pc \in [Threads -> Steps]
      BY DEF TypeOK
    <3>4. \A u \in Threads : /\ local'[u].alert = IF u = t THEN a ELSE local[u].alert
                             /\ pc'[u] = IF u = t THEN "query" ELSE pc[u]
      BY <3>1, <3>3 DEF Locals
    <3> QED
      BY <3>1, <3>2, <3>4 DEF FreshInv, Unstored
  <2>3. ASSUME NEW t \in Threads,
               \/ Observe(t) \/ QueryFails(t) \/ AdoptSequence(t) \/ AdoptPrevious(t)
        PROVE  FreshInv'
    <3>1. Holds
      BY <2>3 DEF Observe, QueryFails, AdoptSequence, AdoptPrevious, Goto, tables, TypeOK, Unstored
    <3> QED
      BY <3>1, <2>1
  <2>4. ASSUME NEW t \in Threads, QueryHead(t)
        PROVE  FreshInv'
    <3>1. Holds
      BY <2>4 DEF QueryHead, Goto, tables, TypeOK, Locals, Unstored
    <3> QED
      BY <3>1, <2>1
  <2>5. ASSUME NEW t \in Threads, Link(t) \/ Digest(t) \/ Stamp(t)
        PROVE  FreshInv'
    <3>1. Holds
      BY <2>5 DEF Link, Digest, Stamp, Goto, tables, TypeOK, Locals, Unstored
    <3> QED
      BY <3>1, <2>1
  <2>6. ASSUME NEW t \in Threads, InsertAlert(t)
        PROVE  FreshInv'
    <3>1. StoredAlerts' = StoredAlerts \union {local[t].alert}
      BY <2>6, InsertAppends
    <3>2. /\ raised' = raised /\ local' = local /\ pc[t] = "insert"
          /\ \A u \in Threads : pc'[u] = IF u = t THEN "evidence" ELSE pc[u]
      BY <2>6 DEF InsertAlert, Goto, TypeOK
    <3>3. pc'[t] \notin Unstored
      BY <3>2 DEF Unstored
    <3>4. \A u \in Threads : pc[u] \in Unstored => pc[u] # "idle"
      BY DEF Unstored
    <3> QED
      BY <3>1, <3>2, <3>3, <3>4 DEF FreshInv
  <2>7. ASSUME NEW t \in Threads,
               InsertEvidence(t) \/ SaveIncident(t) \/ StatementFails(t) \/ Notify(t)
        PROVE  FreshInv'
    <3>1. Holds
      BY <2>7 DEF InsertEvidence, SaveIncident, StatementFails, Notify, Leave, Goto, tables,
                  TypeOK, Unstored
    <3> QED
      BY <3>1, <2>1
  <2>8. CASE Restart
    <3>1. Holds
      BY <2>8 DEF Restart, tables
    <3> QED
      BY <3>1, <2>1
  <2>9. CASE UNCHANGED vars
    BY <2>9, <2>1 DEF vars, tables
  <2> QED
    BY <2>2, <2>3, <2>4, <2>5, <2>6, <2>7, <2>8, <2>9 DEF Next, Finalize
<1> QED
  BY <1>1, <1>2, TypeCorrect, PTL DEF Spec

-----------------------------------------------------------------------------
(* Durability, for any number of threads and any faults.                   *)

\* DurableInOrder, and where a thread is tells which of the three INSERTs
\* of its alert are already committed.
DurableInv ==
    /\ DurableInOrder
    /\ \A t \in Threads :
          /\ pc[t] \in {"evidence", "incident", "notify"} => local[t].alert \in StoredAlerts
          /\ pc[t] \in {"incident", "notify"} => local[t].alert \in evidence
          /\ pc[t] = "notify" => local[t].alert \in incidents

\* The strengthening holds for any number of threads and any faults.
LEMMA DurableInvHolds == Spec => []DurableInv
<1>1. Init => DurableInv
  BY DEF Init, DurableInv, DurableInOrder, StoredAlerts
<1>2. TypeOK /\ FreshInv /\ DurableInv /\ [Next]_vars => DurableInv'
  <2> SUFFICES ASSUME TypeOK, FreshInv, DurableInv, [Next]_vars
               PROVE  DurableInv'
    OBVIOUS
  <2> DEFINE Quiet == /\ UNCHANGED <<rows, evidence, incidents, announced>>
                      /\ \A t \in Threads :
                            pc'[t] \in {"evidence", "incident", "notify"}
                               => pc[t] = pc'[t] /\ local'[t].alert = local[t].alert
  <2>1. Quiet => DurableInv'
    BY DEF DurableInv, DurableInOrder, StoredAlerts
  <2>2. ASSUME NEW t \in Threads, Observe(t) \/ \E a \in Alerts : Raise(t, a)
        PROVE  DurableInv'
    <3>1. Quiet
      BY <2>2 DEF Observe, Raise, Goto, tables, TypeOK, Steps, Locals
    <3> QED
      BY <3>1, <2>1
  <2>3. ASSUME NEW t \in Threads,
               \/ QueryHead(t) \/ QueryFails(t) \/ AdoptSequence(t) \/ AdoptPrevious(t)
        PROVE  DurableInv'
    <3>1. Quiet
      BY <2>3 DEF QueryHead, QueryFails, AdoptSequence, AdoptPrevious, Goto, tables, TypeOK, Locals
    <3> QED
      BY <3>1, <2>1
  <2>4. ASSUME NEW t \in Threads, Link(t) \/ Digest(t) \/ Stamp(t)
        PROVE  DurableInv'
    <3>1. Quiet
      BY <2>4 DEF Link, Digest, Stamp, Goto, tables, TypeOK, Locals
    <3> QED
      BY <3>1, <2>1
  <2>5. ASSUME NEW t \in Threads, InsertAlert(t)
        PROVE  DurableInv'
    <3>1. StoredAlerts \subseteq StoredAlerts' /\ local[t].alert \in StoredAlerts'
      BY <2>5, InsertAppends
    <3> QED
      BY <2>5, <3>1 DEF InsertAlert, Goto, DurableInv, DurableInOrder, TypeOK, StoredAlerts
  <2>6. ASSUME NEW t \in Threads, InsertEvidence(t)
        PROVE  DurableInv'
    BY <2>6 DEF InsertEvidence, Goto, DurableInv, DurableInOrder, TypeOK, StoredAlerts
  <2>7. ASSUME NEW t \in Threads, SaveIncident(t)
        PROVE  DurableInv'
    BY <2>7 DEF SaveIncident, Goto, DurableInv, DurableInOrder, TypeOK, StoredAlerts
  <2>8. ASSUME NEW t \in Threads, StatementFails(t)
        PROVE  DurableInv'
    <3>1. Quiet
      BY <2>8 DEF StatementFails, Leave, tables, TypeOK, Locals
    <3> QED
      BY <3>1, <2>1
  <2>9. ASSUME NEW t \in Threads, Notify(t)
        PROVE  DurableInv'
    BY <2>9 DEF Notify, Leave, tables, DurableInv, DurableInOrder, TypeOK, StoredAlerts
  <2>10. CASE Restart
    <3>1. Quiet
      BY <2>10 DEF Restart, tables
    <3> QED
      BY <3>1, <2>1
  <2>11. CASE UNCHANGED vars
    BY <2>11, <2>1 DEF vars, tables
  <2> QED
    BY <2>2, <2>3, <2>4, <2>5, <2>6, <2>7, <2>8, <2>9, <2>10, <2>11 DEF Next, Finalize
<1> QED
  BY <1>1, <1>2, TypeCorrect, FreshInvHolds, PTL DEF Spec

\* Whoever was told of an alert finds its incident, its evidence and its row
\* in the database, through every failure and restart.
THEOREM Durability == Spec => []DurableInOrder
<1>1. DurableInv => DurableInOrder
  BY DEF DurableInv
<1> QED
  BY <1>1, DurableInvHolds, PTL
-----------------------------------------------------------------------------
(* The unbroken chain: threads one after the other, no stale head used.    *)

\* Memory and table agree on the newest row.
AtHead == chain.sequence = Len(rows) /\ chain.previous = HeadDigest

\* Rows are numbered in table order, each linked to the row before it.
RowsLinked ==
    \A i \in DOMAIN rows :
        /\ rows[i].seq = i
        /\ rows[i].prev = IF i = 1 THEN Genesis ELSE rows[i - 1].hash
        /\ rows[i].body.alert \in WindowAlerts => RowVerifies(i)

\* What a writer that is alone knows of the newest row, step by step.
WriterInv(t) ==
    /\ pc[t] \in {"idle", "query"} => stale \/ AtHead
    /\ pc[t] \in {"adoptSequence", "adoptPrevious"} =>
          local[t].head = [sequence |-> Len(rows), previous |-> HeadDigest]
    /\ pc[t] = "adoptPrevious" => chain.sequence = Len(rows)
    /\ pc[t] \in {"digest", "stamp", "insert"} =>
          /\ chain.sequence = Len(rows) + 1
          /\ local[t].prev = HeadDigest
    /\ pc[t] \in {"digest", "stamp"} => chain.previous = HeadDigest
    /\ pc[t] \in {"stamp", "insert"} =>
          local[t].digest = Hash(HeadDigest, Payload(local[t].alert))
    /\ pc[t] = "insert" =>
          /\ local[t].seq = Len(rows) + 1
          /\ chain.previous = local[t].digest
    /\ pc[t] \in {"link", "evidence", "incident", "notify"} => AtHead

\* The strengthening: ChainLinked alone says nothing of the object in memory
\* from which the next link is taken, nor of who is about to take it.
ChainInv ==
    calm => /\ RowsLinked
            /\ \A t \in Threads : pc[t] # "idle" => Alone(t)
            /\ \A t \in Threads : Alone(t) => WriterInv(t)

\* In a table numbered in order the newest row is the last one.
LEMMA HeadIsLast ==
    ASSUME TypeOK, RowsLinked, NEW i \in Heads
    PROVE  AdoptHead(i) = [sequence |-> Len(rows), previous |-> HeadDigest] /\ rows # <<>>
<1>1. rows \in Seq(Rows) /\ i \in DOMAIN rows /\ \A j \in DOMAIN rows : rows[j].seq <= rows[i].seq
  BY DEF Heads, TypeOK
<1>2. Len(rows) \in Nat /\ DOMAIN rows = 1..Len(rows)
  BY <1>1
<1>3. Len(rows) \in DOMAIN rows
  BY <1>1, <1>2
<1>4. rows[i].seq = i /\ rows[Len(rows)].seq = Len(rows)
  BY <1>1, <1>3 DEF RowsLinked
<1>5. i = Len(rows)
  BY <1>1, <1>2, <1>3, <1>4
<1>6. rows # <<>>
  BY <1>1
<1> QED
  BY <1>4, <1>5, <1>6 DEF AdoptHead, HeadDigest

\* Inserting the row of a writer that knows the newest row keeps the table
\* linked, and leaves memory and table in agreement.
LEMMA InsertKeepsLinks ==
    ASSUME TypeOK, FreshInv, RowsLinked, NEW t \in Threads, WriterInv(t), InsertAlert(t)
    PROVE  RowsLinked' /\ AtHead'
<1>1. /\ rows \in Seq(Rows) /\ rows' = Append(rows, RowOf(t))
      /\ pc[t] = "insert" /\ chain' = chain
  BY InsertAppends DEF InsertAlert, Goto
<1> DEFINE n == Len(rows)
<1>2. /\ n \in Nat
      /\ DOMAIN rows = 1..n /\ DOMAIN rows' = 1..(n + 1) /\ Len(rows') = n + 1
      /\ \A i \in 1..n : rows'[i] = rows[i]
      /\ rows'[n + 1] = RowOf(t)
  BY <1>1
<1>3. RowOf(t).prev = IF n = 0 THEN Genesis ELSE rows[n].hash
  BY <1>1, <1>2 DEF RowOf, WriterInv, HeadDigest
<1>4. RowOf(t).seq = n + 1 /\ RowOf(t).hash = chain.previous /\ chain.sequence = n + 1
  BY <1>1 DEF RowOf, WriterInv
<1>5. ASSUME RowOf(t).body.alert \in WindowAlerts
      PROVE  RowOf(t).hash = Hash(RowOf(t).prev, RowOf(t).body)
  <2>1. local[t].alert \in WindowAlerts
    BY <1>5 DEF RowOf, Stored, Payload
  <2>2. Stored(local[t].alert) = Payload(local[t].alert)
    BY <2>1 DEF Stored, Payload
  <2> QED
    BY <1>1, <2>2 DEF RowOf, WriterInv
<1>6. ASSUME NEW i \in DOMAIN rows'
      PROVE  /\ rows'[i].seq = i
             /\ rows'[i].prev = IF i = 1 THEN Genesis ELSE rows'[i - 1].hash
             /\ rows'[i].body.alert \in WindowAlerts =>
                   rows'[i].hash = Hash(rows'[i].prev, rows'[i].body)
  <2>1. CASE i = n + 1
    <3>1. n # 0 => n \in 1..n /\ rows'[n] = rows[n]
      BY <1>2
    <3> QED
      BY <1>2, <1>3, <1>4, <1>5, <2>1, <3>1
  <2>2. CASE i \in 1..n
    <3>1. i # 1 => i - 1 \in 1..n
      BY <1>2, <2>2
    <3> QED
      BY <1>2, <2>2, <3>1 DEF RowsLinked, RowVerifies
  <2> QED
    BY <1>2, <2>1, <2>2
<1>7. RowsLinked'
  BY <1>6 DEF RowsLinked, RowVerifies
<1>8. HeadDigest' = RowOf(t).hash
  BY <1>1, <1>2 DEF HeadDigest
<1> QED
  BY <1>1, <1>2, <1>4, <1>7, <1>8 DEF AtHead

\* In a table numbered in table order, linking row by row is what the audit
\* checks.
LEMMA LinkedPassesAudit ==
    ASSUME TypeOK, RowsLinked
    PROVE  ChainLinked /\ WindowRowsVerify
<1>1. rows \in Seq(Rows)
  BY DEF TypeOK
<1>2. Len(rows) \in Nat /\ DOMAIN rows = 1..Len(rows)
  BY <1>1
<1>3. \A i, j \in DOMAIN rows : Before(j, i) <=> j < i
  BY <1>2 DEF Before, RowsLinked
<1>4. ASSUME NEW i \in DOMAIN rows
      PROVE  LinkMatches(i)
  <2>1. CASE i = 1
    BY <1>2, <1>3, <2>1 DEF LinkMatches, RowsLinked
  <2>2. CASE i # 1
    <3>1. i - 1 \in DOMAIN rows /\ i - 1 < i
      BY <1>2, <2>2
    <3>2. Precedes(i - 1, i)
      BY <1>2, <1>3, <3>1 DEF Precedes
    <3>3. rows[i].prev = rows[i - 1].hash
      BY <2>2 DEF RowsLinked
    <3> QED
      BY <1>3, <3>1, <3>2, <3>3 DEF LinkMatches
  <2> QED
    BY <2>1, <2>2
<1> QED
  BY <1>4 DEF ChainLinked, WindowRowsVerify, RowsLinked

\* A writer that is alone and keeps its own part keeps the whole.
LEMMA WriterStep ==
    ASSUME NEW t \in Threads, Alone(t), RowsLinked', WriterInv(t)',
           \A u \in Threads \ {t} : pc'[u] = pc[u]
    PROVE  ChainInv'
<1>1. \A u \in Threads \ {t} : pc'[u] = "idle"
  BY DEF Alone
<1>2. Alone(t)'
  BY <1>1 DEF Alone
<1>3. ASSUME NEW u \in Threads \ {t}, Alone(u)'
      PROVE  WriterInv(u)'
  <2>1. pc'[t] = "idle" /\ pc'[u] = "idle"
    BY <1>1, <1>3 DEF Alone
  <2>2. stale' \/ AtHead'
    BY <2>1 DEF WriterInv
  <2> QED
    BY <2>1, <2>2 DEF WriterInv
<1>4. \A u \in Threads \ {t} : pc'[u] = "idle"
  BY <1>1
<1> QED
  BY <1>2, <1>3, <1>4 DEF ChainInv

\* Calm does not come back.
LEMMA CalmBefore ==
    ASSUME [Next]_vars, calm'
    PROVE  calm
BY DEF Next, Finalize, Observe, Raise, QueryHead, QueryFails, AdoptSequence, AdoptPrevious,
       Link, Digest, Stamp, InsertAlert, InsertEvidence, SaveIncident, StatementFails, Notify,
       Restart, vars, history

\* Every step of a writer, and every restart, keeps ChainInv.
LEMMA ChainInvStep ==
    ASSUME TypeOK, FreshInv, ChainInv, [Next]_vars
    PROVE  ChainInv'
<1> SUFFICES ASSUME calm'
             PROVE  ChainInv'
  BY DEF ChainInv
<1> DEFINE SameTable == rows' = rows /\ health' = health
           OnlyAt(t, to) == pc' = [pc EXCEPT ![t] = to]
<1>1. calm /\ RowsLinked
  BY CalmBefore DEF ChainInv
<1>2. /\ \A t \in Threads : pc[t] # "idle" => Alone(t)
      /\ \A t \in Threads : Alone(t) => WriterInv(t)
  BY <1>1 DEF ChainInv
<1>3. rows' = rows => RowsLinked' /\ HeadDigest' = HeadDigest
  BY <1>1 DEF RowsLinked, RowVerifies, HeadDigest
<1>4. SameTable => \A a : Payload(a)' = Payload(a)
  BY DEF Payload
<1>5. Len(rows) \in Nat /\ chain.sequence \in Nat /\ pc \in [Threads -> Steps]
  BY DEF TypeOK, Chains
<1>6. ASSUME NEW t \in Threads, NEW to, OnlyAt(t, to)
      PROVE  pc'[t] = to /\ \A u \in Threads \ {t} : pc'[u] = pc[u]
  BY <1>5, <1>6
<1>7. ASSUME NEW t \in Threads, Observe(t)
      PROVE  ChainInv'
  <2>1. /\ pc' = pc /\ pc[t] = "idle" /\ chain' = chain /\ rows' = rows /\ stale' = stale
        /\ Alone(t)
    BY <1>7 DEF Observe, tables
  <2>2. WriterInv(t)'
    BY <1>2, <1>3, <2>1 DEF WriterInv, AtHead
  <2> QED
    BY <1>3, <2>1, <2>2, WriterStep
<1>8. ASSUME NEW t \in Threads, NEW a \in Alerts, Raise(t, a)
      PROVE  ChainInv'
  <2>1. /\ rows' = rows /\ chain' = chain /\ stale' = stale /\ Alone(t)
        /\ pc[t] = "idle" /\ OnlyAt(t, "query")
    BY <1>8 DEF Raise, Goto, tables
  <2>2. pc'[t] = "query" /\ \A u \in Threads \ {t} : pc'[u] = pc[u]
    BY <1>6, <2>1
  <2>3. WriterInv(t)'
    BY <1>2, <1>3, <2>1, <2>2 DEF WriterInv, AtHead
  <2> QED
    BY <1>3, <2>1, <2>2, <2>3, WriterStep
<1>9. ASSUME NEW t \in Threads, QueryHead(t)
      PROVE  ChainInv'
  <2>1. rows' = rows /\ chain' = chain /\ stale' = stale /\ pc[t] = "query"
    BY <1>9 DEF QueryHead, Goto, tables
  <2>2. Alone(t) /\ (stale \/ AtHead)
    BY <1>2, <2>1 DEF WriterInv
  <2>3. CASE Goto(t, "query", "link") /\ calm' = (calm /\ ~stale)
    <3>1. pc'[t] = "link" /\ \A u \in Threads \ {t} : pc'[u] = pc[u]
      BY <1>6, <2>3 DEF Goto
    <3>2. AtHead
      BY <2>2, <2>3
    <3>3. WriterInv(t)'
      BY <1>3, <2>1, <3>1, <3>2 DEF WriterInv, AtHead
    <3> QED
      BY <1>3, <2>1, <2>2, <3>1, <3>3, WriterStep
  <2>4. CASE \E i \in Heads :
                /\ Goto(t, "query", "adoptSequence")
                /\ local' = [local EXCEPT ![t].head = AdoptHead(i)]
    <3>1. PICK i \in Heads : /\ OnlyAt(t, "adoptSequence")
                             /\ local' = [local EXCEPT ![t].head = AdoptHead(i)]
      BY <2>4 DEF Goto
    <3>2. AdoptHead(i) = [sequence |-> Len(rows), previous |-> HeadDigest]
      BY <1>1, HeadIsLast
    <3>3. local'[t].head = AdoptHead(i)
      BY <3>1 DEF TypeOK, Locals
    <3>4. pc'[t] = "adoptSequence" /\ \A u \in Threads \ {t} : pc'[u] = pc[u]
      BY <1>6, <3>1
    <3>5. WriterInv(t)'
      BY <1>3, <2>1, <3>2, <3>3, <3>4 DEF WriterInv
    <3> QED
      BY <1>3, <2>1, <2>2, <3>4, <3>5, WriterStep
  <2> QED
    BY <1>9, <2>3, <2>4 DEF QueryHead
<1>10. ASSUME NEW t \in Threads, QueryFails(t)
       PROVE  ChainInv'
  <2>1. /\ rows' = rows /\ chain' = chain /\ stale' = stale /\ pc[t] = "query" /\ ~stale
        /\ OnlyAt(t, "link")
    BY <1>10 DEF QueryFails, Goto, tables
  <2>2. pc'[t] = "link" /\ \A u \in Threads \ {t} : pc'[u] = pc[u]
    BY <1>6, <2>1
  <2>3. Alone(t) /\ AtHead
    BY <1>2, <2>1 DEF WriterInv
  <2>4. WriterInv(t)'
    BY <1>3, <2>1, <2>2, <2>3 DEF WriterInv, AtHead
  <2> QED
    BY <1>3, <2>1, <2>2, <2>3, <2>4, WriterStep
<1>11. ASSUME NEW t \in Threads, AdoptSequence(t)
       PROVE  ChainInv'
  <2>1. /\ rows' = rows /\ local' = local /\ pc[t] = "adoptSequence"
        /\ OnlyAt(t, "adoptPrevious")
    BY <1>11 DEF AdoptSequence, Goto, tables
  <2>2. pc'[t] = "adoptPrevious" /\ \A u \in Threads \ {t} : pc'[u] = pc[u]
    BY <1>6, <2>1
  <2>3. Alone(t) /\ local[t].head = [sequence |-> Len(rows), previous |-> HeadDigest]
    BY <1>2, <2>1 DEF WriterInv
  <2>4. chain'.sequence = Len(rows)
    BY <1>11, <2>3 DEF AdoptSequence, TypeOK, Chains
  <2>5. WriterInv(t)'
    BY <1>3, <2>1, <2>2, <2>3, <2>4 DEF WriterInv
  <2> QED
    BY <1>3, <2>1, <2>2, <2>3, <2>5, WriterStep
<1>12. ASSUME NEW t \in Threads, AdoptPrevious(t)
       PROVE  ChainInv'
  <2>1. rows' = rows /\ pc[t] = "adoptPrevious" /\ OnlyAt(t, "link")
    BY <1>12 DEF AdoptPrevious, Goto, tables
  <2>2. pc'[t] = "link" /\ \A u \in Threads \ {t} : pc'[u] = pc[u]
    BY <1>6, <2>1
  <2>3. /\ Alone(t) /\ chain.sequence = Len(rows)
        /\ local[t].head = [sequence |-> Len(rows), previous |-> HeadDigest]
    BY <1>2, <2>1 DEF WriterInv
  <2>4. chain'.previous = HeadDigest /\ chain'.sequence = chain.sequence
    BY <1>12, <2>3 DEF AdoptPrevious, TypeOK, Chains
  <2>5. WriterInv(t)'
    BY <1>3, <2>1, <2>2, <2>3, <2>4 DEF WriterInv, AtHead
  <2> QED
    BY <1>3, <2>1, <2>2, <2>3, <2>5, WriterStep
<1>13. ASSUME NEW t \in Threads, Link(t)
       PROVE  ChainInv'
  <2>1. rows' = rows /\ pc[t] = "link" /\ OnlyAt(t, "digest")
    BY <1>13 DEF Link, Goto, tables
  <2>2. pc'[t] = "digest" /\ \A u \in Threads \ {t} : pc'[u] = pc[u]
    BY <1>6, <2>1
  <2>3. Alone(t) /\ AtHead
    BY <1>2, <2>1 DEF WriterInv
  <2>4. /\ chain'.sequence = Len(rows) + 1 /\ chain'.previous = HeadDigest
        /\ local'[t].prev = HeadDigest
    BY <1>13, <2>3 DEF Link, AtHead, TypeOK, Chains, Locals
  <2>5. WriterInv(t)'
    BY <1>3, <2>1, <2>2, <2>4 DEF WriterInv
  <2> QED
    BY <1>3, <2>1, <2>2, <2>3, <2>5, WriterStep
<1>14. ASSUME NEW t \in Threads, Digest(t)
       PROVE  ChainInv'
  <2>1. SameTable /\ chain' = chain /\ pc[t] = "digest" /\ OnlyAt(t, "stamp")
    BY <1>14 DEF Digest, Goto, tables
  <2>2. pc'[t] = "stamp" /\ \A u \in Threads \ {t} : pc'[u] = pc[u]
    BY <1>6, <2>1
  <2>3. Alone(t) /\ WriterInv(t)
    BY <1>2, <2>1
  <2>4. /\ local'[t].digest = Hash(local[t].prev, Payload(local[t].alert))
        /\ local'[t].prev = local[t].prev /\ local'[t].alert = local[t].alert
    BY <1>14 DEF Digest, TypeOK, Locals
  <2>5. Payload(local[t].alert)' = Payload(local[t].alert)
    BY <2>1, <2>4 DEF Payload
  <2>6. local'[t].digest = Hash(HeadDigest, Payload(local[t].alert))
    BY <2>1, <2>3, <2>4 DEF WriterInv
  <2>7. WriterInv(t)'
    BY <1>3, <2>1, <2>2, <2>3, <2>4, <2>5, <2>6 DEF WriterInv
  <2> QED
    BY <1>3, <2>1, <2>2, <2>3, <2>7, WriterStep
<1>15. ASSUME NEW t \in Threads, Stamp(t)
       PROVE  ChainInv'
  <2>1. SameTable /\ pc[t] = "stamp" /\ OnlyAt(t, "insert")
    BY <1>15 DEF Stamp, Goto, tables
  <2>2. pc'[t] = "insert" /\ \A u \in Threads \ {t} : pc'[u] = pc[u]
    BY <1>6, <2>1
  <2>3. Alone(t) /\ WriterInv(t)
    BY <1>2, <2>1
  <2>4. /\ chain'.previous = local[t].digest /\ chain'.sequence = chain.sequence
        /\ local'[t].seq = chain.sequence
        /\ local'[t].prev = local[t].prev /\ local'[t].alert = local[t].alert
        /\ local'[t].digest = local[t].digest
    BY <1>15 DEF Stamp, TypeOK, Chains, Locals
  <2>5. WriterInv(t)'
    BY <1>3, <1>4, <2>1, <2>2, <2>3, <2>4 DEF WriterInv, Hash
  <2> QED
    BY <1>3, <2>1, <2>2, <2>3, <2>5, WriterStep
<1>16. ASSUME NEW t \in Threads, InsertAlert(t)
       PROVE  ChainInv'
  <2>1. pc[t] = "insert" /\ OnlyAt(t, "evidence")
    BY <1>16 DEF InsertAlert, Goto
  <2>2. pc'[t] = "evidence" /\ \A u \in Threads \ {t} : pc'[u] = pc[u]
    BY <1>6, <2>1
  <2>3. Alone(t) /\ WriterInv(t)
    BY <1>2, <2>1
  <2>4. RowsLinked' /\ AtHead'
    BY <1>1, <1>16, <2>3, InsertKeepsLinks
  <2>5. WriterInv(t)'
    BY <2>2, <2>4 DEF WriterInv
  <2> QED
    BY <2>2, <2>3, <2>4, <2>5, WriterStep
<1>17. ASSUME NEW t \in Threads, InsertEvidence(t) \/ SaveIncident(t)
       PROVE  ChainInv'
  <2>1. /\ rows' = rows /\ chain' = chain /\ pc[t] \in {"evidence", "incident"}
        /\ OnlyAt(t, "incident") \/ OnlyAt(t, "notify")
    BY <1>17 DEF InsertEvidence, SaveIncident, Goto
  <2>2. /\ pc'[t] \in {"incident", "notify"}
        /\ \A u \in Threads \ {t} : pc'[u] = pc[u]
    BY <1>6, <2>1
  <2>3. Alone(t) /\ AtHead
    BY <1>2, <2>1 DEF WriterInv
  <2>4. WriterInv(t)'
    BY <1>3, <2>1, <2>2, <2>3 DEF WriterInv, AtHead
  <2> QED
    BY <1>3, <2>1, <2>2, <2>3, <2>4, WriterStep
<1>18. ASSUME NEW t \in Threads, StatementFails(t) \/ Notify(t)
       PROVE  ChainInv'
  <2>1. /\ rows' = rows /\ chain' = chain /\ OnlyAt(t, "idle")
        /\ pc[t] \in {"insert", "evidence", "incident", "notify"}
    BY <1>18 DEF StatementFails, Notify, Leave, tables
  <2>2. pc'[t] = "idle" /\ \A u \in Threads \ {t} : pc'[u] = pc[u]
    BY <1>6, <2>1
  <2>3. Alone(t) /\ WriterInv(t)
    BY <1>2, <2>1
  <2>4. stale' \/ AtHead
    <3>1. CASE pc[t] = "insert"
      BY <1>18, <3>1 DEF StatementFails, Notify
    <3>2. CASE pc[t] # "insert"
      BY <2>1, <2>3, <3>2 DEF WriterInv
    <3> QED
      BY <3>1, <3>2
  <2>5. WriterInv(t)'
    BY <1>3, <2>1, <2>2, <2>4 DEF WriterInv, AtHead
  <2> QED
    BY <1>3, <2>1, <2>2, <2>3, <2>5, WriterStep
<1>19. CASE Restart
  <2>1. rows' = rows /\ \A t \in Threads : pc'[t] = "idle"
    BY <1>19 DEF Restart, tables
  <2>2. stale' \/ AtHead'
    <3>1. CASE chain' = FreshChain /\ stale' = (rows # <<>>)
      BY <2>1, <3>1 DEF FreshChain, HeadDigest, AtHead
    <3>2. CASE \E i \in Heads : chain' = AdoptHead(i)
      <4>1. PICK i \in Heads : chain' = AdoptHead(i)
        BY <3>2
      <4>2. chain' = [sequence |-> Len(rows), previous |-> HeadDigest]
        BY <1>1, <4>1, HeadIsLast
      <4> QED
        BY <1>3, <2>1, <4>2 DEF AtHead
    <3> QED
      BY <1>19, <3>1, <3>2 DEF Restart
  <2>3. \A t \in Threads : WriterInv(t)'
    BY <2>1, <2>2 DEF WriterInv
  <2> QED
    BY <1>3, <2>1, <2>3 DEF ChainInv
<1>20. CASE UNCHANGED vars
  <2>1. SameTable /\ UNCHANGED <<chain, pc, local, stale>>
    BY <1>20 DEF vars
  <2>2. \A t \in Threads : WriterInv(t) => WriterInv(t)'
    BY <1>3, <1>4, <2>1 DEF WriterInv, AtHead, Hash
  <2> QED
    BY <1>2, <1>3, <2>1, <2>2 DEF ChainInv, Alone
<1> QED
  BY <1>7, <1>8, <1>9, <1>10, <1>11, <1>12, <1>13, <1>14, <1>15, <1>16, <1>17,
     <1>18, <1>19, <1>20 DEF Next, Finalize

LEMMA ChainInvInit == Init => ChainInv
<1>1. Init => RowsLinked /\ AtHead
  BY DEF Init, RowsLinked, AtHead, HeadDigest, FreshChain
<1>2. Init => \A t \in Threads : pc[t] = "idle"
  BY DEF Init
<1> QED
  BY <1>1, <1>2 DEF ChainInv, WriterInv

LEMMA ChainInvHolds == Spec => []ChainInv
<1>1. TypeOK /\ FreshInv /\ ChainInv /\ [Next]_vars => ChainInv'
  BY ChainInvStep
<1> QED
  BY <1>1, ChainInvInit, TypeCorrect, FreshInvHolds, PTL DEF Spec

\* For any number of threads and any faults the audit finds no break before
\* two threads were inside at once or a stale head was used.
THEOREM UnbrokenChain == Spec => []NoBreakWhileCalm
<1>1. TypeOK /\ ChainInv => NoBreakWhileCalm
  BY LinkedPassesAudit DEF ChainInv, NoBreakWhileCalm
<1> QED
  BY <1>1, ChainInvHolds, TypeCorrect, PTL

\* Until then the audit accepts the payload of every window alert.
THEOREM WindowAlertsVerify == Spec => []WindowRowsVerify
<1>1. TypeOK /\ ChainInv => WindowRowsVerify
  BY LinkedPassesAudit DEF ChainInv, WindowRowsVerify
<1> QED
  BY <1>1, ChainInvHolds, TypeCorrect, PTL

-----------------------------------------------------------------------------
(* Refinement: the stored chain is the log of EvidenceLedger.              *)

\* The digest of a row commits to the alerts of all rows up to it.
CommitsToHistory ==
    \A i \in DOMAIN rows :
        /\ DOMAIN rows[i].hash = 1..i
        /\ \A j \in 1..i : rows[i].hash[j].alert = rows[j].body.alert

HistoryInv == calm => CommitsToHistory

\* The alerts of the log are the alerts of the table.
LEMMA LogIsTable ==
    ASSUME TypeOK, CommitsToHistory
    PROVE  {LogEntries[i] : i \in DOMAIN LogEntries} = StoredAlerts
<1>1. rows \in Seq(Rows) /\ Len(rows) \in Nat /\ DOMAIN rows = 1..Len(rows)
  BY DEF TypeOK
<1>2. CASE rows = <<>>
  BY <1>2 DEF LogEntries, HeadDigest, Genesis, StoredAlerts
<1>3. CASE rows # <<>>
  <2>1. Len(rows) \in DOMAIN rows /\ HeadDigest = rows[Len(rows)].hash
    BY <1>1, <1>3 DEF HeadDigest
  <2>2. /\ DOMAIN HeadDigest = DOMAIN rows
        /\ \A j \in DOMAIN rows : HeadDigest[j].alert = rows[j].body.alert
    BY <1>1, <2>1 DEF CommitsToHistory
  <2> QED
    BY <2>2 DEF LogEntries, StoredAlerts
<1> QED
  BY <1>2, <1>3

\* What the insert of a writer that knows the newest row does to the log.
LEMMA InsertExtendsLog ==
    ASSUME NEW t \in Threads, TypeOK, FreshInv, WriterInv(t), CommitsToHistory, InsertAlert(t)
    PROVE  /\ CommitsToHistory'
           /\ LogEntries' = Append(LogEntries, local[t].alert)
<1>1. /\ rows \in Seq(Rows) /\ rows' = Append(rows, RowOf(t))
      /\ pc[t] = "insert"
  BY InsertAppends DEF InsertAlert, Goto
<1> DEFINE n == Len(rows)
<1>2. /\ n \in Nat
      /\ DOMAIN rows = 1..n /\ DOMAIN rows' = 1..(n + 1) /\ Len(rows') = n + 1
      /\ \A i \in 1..n : rows'[i] = rows[i]
      /\ rows'[n + 1] = RowOf(t)
  BY <1>1
<1>3. HeadDigest \in Digests
  <2>1. CASE rows = <<>>
    BY <2>1, GenesisType DEF HeadDigest
  <2>2. CASE rows # <<>>
    <3>1. n \in DOMAIN rows
      BY <1>1, <1>2, <2>2
    <3>2. rows[n] \in Rows
      BY <1>1, <3>1
    <3> QED
      BY <2>2, <3>2 DEF HeadDigest, Rows
  <2> QED
    BY <2>1, <2>2
<1>4. local[t].alert \in Alerts
  BY <1>1 DEF TypeOK
<1>5. Payload(local[t].alert) \in Contents /\ Payload(local[t].alert).alert = local[t].alert
  BY <1>4, PayloadType DEF Payload, TypeOK
<1>6. HeadDigest' = Append(HeadDigest, Payload(local[t].alert))
  BY <1>1, <1>2 DEF HeadDigest, RowOf, WriterInv, Hash
<1>7. /\ DOMAIN HeadDigest = 1..n
      /\ \A j \in 1..n : HeadDigest[j].alert = rows[j].body.alert
  <2>1. CASE rows = <<>>
    BY <1>2, <2>1 DEF HeadDigest, Genesis
  <2>2. CASE rows # <<>>
    BY <1>1, <1>2, <2>2 DEF HeadDigest, CommitsToHistory
  <2> QED
    BY <2>1, <2>2
<1>8. /\ Len(HeadDigest) = n
      /\ DOMAIN HeadDigest' = 1..(n + 1)
      /\ \A j \in 1..n : HeadDigest'[j] = HeadDigest[j]
      /\ HeadDigest'[n + 1] = Payload(local[t].alert)
  BY <1>2, <1>3, <1>5, <1>6, <1>7 DEF Digests
<1>9. RowOf(t).body.alert = local[t].alert /\ RowOf(t).hash = HeadDigest'
  BY <1>1, <1>6 DEF RowOf, Stored, Payload, WriterInv, Hash
<1>10. CommitsToHistory'
  <2> SUFFICES ASSUME NEW i \in DOMAIN rows'
               PROVE  /\ DOMAIN rows'[i].hash = 1..i
                      /\ \A j \in 1..i : rows'[i].hash[j].alert = rows'[j].body.alert
    BY DEF CommitsToHistory
  <2>1. CASE i \in 1..n
    <3>1. \A j \in 1..i : j \in 1..n
      BY <1>2, <2>1
    <3> QED
      BY <1>2, <2>1, <3>1 DEF CommitsToHistory
  <2>2. CASE i = n + 1
    <3>1. \A j \in 1..(n + 1) : j \in 1..n \/ j = n + 1
      BY <1>2
    <3> QED
      BY <1>2, <1>5, <1>7, <1>8, <1>9, <2>2, <3>1
  <2> QED
    BY <1>2, <2>1, <2>2
<1>11. LogEntries' = Append(LogEntries, local[t].alert)
  <2>1. LogEntries = [i \in 1..n |-> HeadDigest[i].alert]
    BY <1>7 DEF LogEntries
  <2>2. LogEntries \in Seq(Alerts) /\ Len(LogEntries) = n
    <3>1. \A i \in 1..n : HeadDigest[i] \in Contents
      BY <1>3, <1>8 DEF Digests
    <3>2. \A i \in 1..n : HeadDigest[i].alert \in Alerts
      BY <3>1 DEF Contents
    <3> QED
      BY <1>2, <2>1, <3>2
  <2>3. LogEntries' = [i \in 1..(n + 1) |-> HeadDigest'[i].alert]
    BY <1>8 DEF LogEntries
  <2>4. LogEntries' \in Seq(Alerts) /\ Len(LogEntries') = n + 1
    <3>1. \A i \in 1..(n + 1) : HeadDigest'[i].alert \in Alerts
      <4>1. \A i \in 1..n : HeadDigest'[i].alert \in Alerts
        BY <1>8, <2>1, <2>2
      <4> QED
        BY <1>2, <1>4, <1>5, <1>8, <4>1
    <3> QED
      BY <1>2, <2>3, <3>1
  <2>5. /\ \A i \in 1..n : LogEntries'[i] = LogEntries[i]
        /\ LogEntries'[n + 1] = local[t].alert
    BY <1>2, <1>5, <1>8, <2>1, <2>3
  <2> QED
    BY <1>2, <1>4, <2>2, <2>4, <2>5
<1> QED
  BY <1>10, <1>11

\* A writer about to store, while calm, knows the newest row.
LEMMA WriterKnows ==
    ASSUME ChainInv, calm, NEW t \in Threads, InsertAlert(t)
    PROVE  WriterInv(t)
BY DEF ChainInv, InsertAlert, Goto

\* The rows commit to their history from step to step.
LEMMA HistoryInvStep ==
    ASSUME TypeOK, FreshInv, ChainInv, HistoryInv, [Next]_vars
    PROVE  HistoryInv'
<1> SUFFICES ASSUME calm'
             PROVE  CommitsToHistory'
  BY DEF HistoryInv
<1>1. calm /\ CommitsToHistory
  BY CalmBefore DEF HistoryInv
<1>2. CASE rows' = rows
  BY <1>1, <1>2 DEF CommitsToHistory
<1>3. ASSUME NEW t \in Threads, InsertAlert(t)
      PROVE  CommitsToHistory'
  BY <1>1, <1>3, WriterKnows, InsertExtendsLog
<1>4. rows' = rows \/ \E t \in Threads : InsertAlert(t)
  BY DEF Next, Finalize, Observe, Raise, QueryHead, QueryFails, AdoptSequence,
         AdoptPrevious, Link, Digest, Stamp, InsertEvidence, SaveIncident,
         StatementFails, Notify, Restart, vars, tables
<1> QED
  BY <1>2, <1>3, <1>4

\* While calm every step of the pipeline is a step of the log, or none.
LEMMA StepRefines ==
    ASSUME TypeOK, FreshInv, ChainInv, HistoryInv, DurableInv, [Next]_vars
    PROVE  [calm' => Ledger!Next]_(Ledger!ledgerVars)
<1> SUFFICES ASSUME calm'
             PROVE  Ledger!Next \/ UNCHANGED Ledger!ledgerVars
  OBVIOUS
<1>0. calm /\ CommitsToHistory
  BY CalmBefore DEF HistoryInv
<1>1. Ledger!Logged = StoredAlerts
  BY <1>0, LogIsTable DEF Ledger!Logged
<1>2. rows' = rows => LogEntries' = LogEntries
  BY DEF LogEntries, HeadDigest
<1>3. ASSUME NEW t \in Threads, InsertAlert(t)
      PROVE  Ledger!Next
  <2>1. LogEntries' = Append(LogEntries, local[t].alert) /\ announced' = announced
    BY <1>0, <1>3, WriterKnows, InsertExtendsLog DEF InsertAlert
  <2>2. local[t].alert \notin StoredAlerts /\ local[t].alert \in Alerts
    BY <1>3 DEF InsertAlert, Goto, FreshInv, Unstored, TypeOK
  <2>3. Ledger!Commit(local[t].alert)
    BY <1>1, <2>1, <2>2 DEF Ledger!Commit
  <2> QED
    BY <2>2, <2>3 DEF Ledger!Next
<1>4. ASSUME NEW t \in Threads, Notify(t)
      PROVE  Ledger!Next
  <2>1. rows' = rows /\ announced' = announced \union {local[t].alert}
    BY <1>4 DEF Notify, tables
  <2>2. local[t].alert \in StoredAlerts /\ local[t].alert \in Alerts
    BY <1>4 DEF Notify, DurableInv, TypeOK
  <2>3. Ledger!Announce(local[t].alert)
    BY <1>1, <1>2, <2>1, <2>2 DEF Ledger!Announce
  <2> QED
    BY <2>2, <2>3 DEF Ledger!Next
<1>5. CASE UNCHANGED <<rows, announced>>
  BY <1>2, <1>5 DEF Ledger!ledgerVars
<1>6. \/ \E t \in Threads : InsertAlert(t) \/ Notify(t)
      \/ UNCHANGED <<rows, announced>>
  BY DEF Next, Finalize, Observe, Raise, QueryHead, QueryFails, AdoptSequence,
         AdoptPrevious, Link, Digest, Stamp, InsertEvidence, SaveIncident,
         StatementFails, Restart, vars, tables
<1> QED
  BY <1>3, <1>4, <1>5, <1>6

\* For any number of threads and any faults the pipeline implements the
\* append-only log for as long as calm lasts: each insert adds one new alert
\* to the history the newest digest commits to, and subscribers hear only of
\* alerts in it.
THEOREM ChainImplementsLedger == Spec => ImplementsLedger
<1>1. Init => Ledger!Init /\ HistoryInv
  BY DEF Init, Ledger!Init, LogEntries, HeadDigest, Genesis, HistoryInv, CommitsToHistory
<1>2. TypeOK /\ FreshInv /\ ChainInv /\ HistoryInv /\ [Next]_vars => HistoryInv'
  BY HistoryInvStep
<1>3. TypeOK /\ FreshInv /\ ChainInv /\ HistoryInv /\ DurableInv /\ [Next]_vars
         => [calm' => Ledger!Next]_(Ledger!ledgerVars)
  BY StepRefines
<1> QED
  BY <1>1, <1>2, <1>3, ChainInvHolds, FreshInvHolds, TypeCorrect, DurableInvHolds, PTL
     DEF Spec, ImplementsLedger, Ledger!Spec

-----------------------------------------------------------------------------
(* What is left of the chain when threads fork it and faults tear it: for  *)
(* every set of threads and every set of faults, two digests that differ   *)
(* are never in use for one alert, so a row never links to a digest that   *)
(* competes with a stored one.                                             *)

\* Every digest some thread or a restart may still read: the head in memory,
\* the two digests of each row, and what the threads hold.
InUse == {chain.previous}
         \union {rows[i].prev : i \in DOMAIN rows}
         \union {rows[i].hash : i \in DOMAIN rows}
         \union {local[t].prev : t \in Threads}
         \union {local[t].digest : t \in Threads}
         \union {local[t].head.previous : t \in Threads}

\* The alert a digest was computed for.
Author(d) == d[Len(d)].alert

Undigested == {"query", "adoptSequence", "adoptPrevious", "link", "digest"}

\* One digest for each alert, and none before the alert is hashed.
OneDigest ==
    /\ \A d \in InUse \ {Genesis} :
          /\ Author(d) \in raised
          /\ \A t \in Threads : pc[t] \in Undigested => local[t].alert # Author(d)
    /\ \A d, e \in InUse \ {Genesis} : Author(d) = Author(e) => d = e

\* A thread about to store an alert, and the row once stored, hold a digest
\* computed for that alert.
DigestOfOwner ==
    /\ \A t \in Threads : pc[t] \in {"stamp", "insert"} =>
          local[t].digest # Genesis /\ Author(local[t].digest) = local[t].alert
    /\ \A i \in DOMAIN rows :
          rows[i].hash # Genesis /\ Author(rows[i].hash) = rows[i].body.alert

DigestInv == OneDigest /\ DigestOfOwner

-----------------------------------------------------------------------------
\* Hashing an alert yields a digest computed for that alert.
LEMMA HashAuthor ==
    ASSUME NEW d \in Digests, NEW a \in Alerts, health \in Nat
    PROVE  /\ Hash(d, Payload(a)) # Genesis
           /\ Author(Hash(d, Payload(a))) = a
<1>1. Payload(a) \in Contents /\ Payload(a).alert = a
  BY PayloadType DEF Payload
<1>2. d \in Seq(Contents)
  BY DEF Digests
<1>3. Len(Append(d, Payload(a))) = Len(d) + 1 /\ Append(d, Payload(a))[Len(d) + 1] = Payload(a)
  BY <1>1, <1>2
<1>4. Len(d) \in Nat /\ Append(d, Payload(a)) # <<>>
  BY <1>1, <1>2
<1> QED
  BY <1>1, <1>3, <1>4 DEF Hash, Genesis, Author

\* A step that stores nothing, hashes nothing and raises nothing only moves
\* digests around or forgets them.
Moving ==
    /\ rows' = rows /\ raised' = raised
    /\ InUse' \subseteq InUse \union {Genesis}
    /\ \A t \in Threads : pc'[t] # "idle" =>
          /\ pc[t] # "idle"
          /\ local'[t].alert = local[t].alert
          /\ pc'[t] \in Undigested => pc[t] \in Undigested
          /\ pc'[t] \in {"stamp", "insert"} =>
                pc[t] \in {"stamp", "insert"} /\ local'[t].digest = local[t].digest

LEMMA MovingKeepsDigests ==
    ASSUME DigestInv, Moving
    PROVE  DigestInv'
<1>1. OneDigest'
  <2>1. \A d \in InUse' \ {Genesis} : d \in InUse \ {Genesis}
    BY DEF Moving
  <2>2. \A t \in Threads : pc'[t] \in Undigested =>
           pc[t] \in Undigested /\ local'[t].alert = local[t].alert
    BY DEF Moving, Undigested
  <2>3. Genesis' = Genesis /\ raised' = raised
    BY DEF Genesis, Moving
  <2>4. \A d \in InUse' \ {Genesis} :
          /\ Author(d) \in raised'
          /\ \A t \in Threads : pc'[t] \in Undigested => local'[t].alert # Author(d)
    BY <2>1, <2>2, <2>3 DEF DigestInv, OneDigest
  <2>5. \A d, e \in InUse' \ {Genesis} : Author(d) = Author(e) => d = e
    BY <2>1 DEF DigestInv, OneDigest
  <2> QED
    BY <2>4, <2>5 DEF OneDigest, Genesis, Author
<1>2. DigestOfOwner'
  BY DEF DigestInv, DigestOfOwner, Moving, Genesis, Author
<1> QED
  BY <1>1, <1>2 DEF DigestInv

\* What is in use after a step, item by item.
LEMMA InUseAfter ==
    ASSUME NEW D,
           chain'.previous \in D,
           rows' = rows,
           InUse \subseteq D,
           \A t \in Threads : local'[t].prev \in D /\ local'[t].digest \in D
                                /\ local'[t].head.previous \in D
    PROVE  InUse' \subseteq D
BY DEF InUse

\* The steps that only move digests around.
LEMMA MovingSteps ==
    ASSUME TypeOK, NEW t \in Threads,
           \/ Observe(t) \/ QueryHead(t) \/ QueryFails(t) \/ AdoptSequence(t)
           \/ AdoptPrevious(t) \/ Link(t) \/ InsertEvidence(t) \/ SaveIncident(t)
           \/ StatementFails(t) \/ Notify(t)
    PROVE  Moving
<1> DEFINE D == InUse \union {Genesis}
<1>1. /\ chain.previous \in D
      /\ \A u \in Threads : local[u].prev \in D /\ local[u].digest \in D
                              /\ local[u].head.previous \in D
      /\ \A i \in DOMAIN rows : rows[i].hash \in D
      /\ NoLocal.prev \in D /\ NoLocal.digest \in D /\ NoLocal.head.previous \in D
  BY DEF InUse, NoLocal, FreshChain
<1>2. local \in [Threads -> Locals] /\ pc \in [Threads -> Steps] /\ chain \in Chains
  BY DEF TypeOK
<1>3. rows' = rows /\ raised' = raised
  BY DEF Observe, QueryHead, QueryFails, AdoptSequence, AdoptPrevious, Link,
         InsertEvidence, SaveIncident, StatementFails, Notify, tables
<1>4. CASE Observe(t) \/ QueryFails(t) \/ InsertEvidence(t) \/ SaveIncident(t)
  <2>1. local' = local /\ chain' = chain
    BY <1>4 DEF Observe, QueryFails, InsertEvidence, SaveIncident
  <2>2. InUse' = InUse
    BY <1>3, <2>1 DEF InUse
  <2> QED
    BY <1>2, <1>3, <1>4, <2>1, <2>2
    DEF Moving, Observe, QueryFails, InsertEvidence, SaveIncident, Goto, Undigested
<1>5. CASE QueryHead(t)
  <2>1. chain' = chain
    BY <1>5 DEF QueryHead
  <2>2. /\ \A u \in Threads : local'[u].alert = local[u].alert
                              /\ local'[u].prev = local[u].prev
                              /\ local'[u].digest = local[u].digest
                              /\ local'[u].head.previous \in D
    <3>1. CASE UNCHANGED local
      BY <1>1, <3>1
    <3>2. CASE \E i \in Heads : local' = [local EXCEPT ![t].head = AdoptHead(i)]
      BY <1>1, <1>2, <3>2 DEF Locals, AdoptHead, Heads
    <3> QED
      BY <1>5, <3>1, <3>2 DEF QueryHead
  <2>3. InUse' \subseteq D
    BY <1>1, <1>3, <2>1, <2>2, InUseAfter
  <2> QED
    BY <1>2, <1>3, <1>5, <2>2, <2>3 DEF Moving, QueryHead, Goto, Undigested
<1>6. CASE AdoptSequence(t) \/ AdoptPrevious(t) \/ Link(t)
  <2>1. chain'.previous \in D
    BY <1>1, <1>2, <1>6 DEF AdoptSequence, AdoptPrevious, Link, Chains
  <2>2. /\ \A u \in Threads : local'[u].alert = local[u].alert
                              /\ local'[u].prev \in D
                              /\ local'[u].digest = local[u].digest
                              /\ local'[u].head = local[u].head
    BY <1>1, <1>2, <1>6 DEF AdoptSequence, AdoptPrevious, Link, Locals
  <2>3. InUse' \subseteq D
    BY <1>1, <1>3, <2>1, <2>2, InUseAfter
  <2> QED
    BY <1>2, <1>3, <1>6, <2>2, <2>3
    DEF Moving, AdoptSequence, AdoptPrevious, Link, Goto, Undigested
<1>7. CASE StatementFails(t) \/ Notify(t)
  <2>1. chain' = chain /\ Leave(t)
    BY <1>7 DEF StatementFails, Notify
  <2>2. \A u \in Threads : local'[u] = local[u] \/ local'[u] = NoLocal
    BY <1>2, <2>1 DEF Leave
  <2>3. InUse' \subseteq D
    BY <1>1, <1>3, <2>1, <2>2, InUseAfter
  <2> QED
    BY <1>2, <1>3, <2>1, <2>3 DEF Moving, Leave, Undigested
<1> QED
  BY <1>4, <1>5, <1>6, <1>7

\* A restart forgets every digest in memory, or adopts one of the table.
LEMMA RestartMoves ==
    ASSUME TypeOK, Restart
    PROVE  Moving
<1>1. /\ rows' = rows /\ raised' = raised
      /\ pc' = [t \in Threads |-> "idle"] /\ local' = [t \in Threads |-> NoLocal]
  BY DEF Restart, tables
<1>2. chain'.previous \in InUse \union {Genesis}
  BY DEF Restart, FreshChain, AdoptHead, Heads, InUse
<1>3. NoLocal.prev = Genesis /\ NoLocal.digest = Genesis /\ NoLocal.head.previous = Genesis
  BY DEF NoLocal, FreshChain
<1>4. InUse' \subseteq InUse \union {Genesis}
  BY <1>1, <1>2, <1>3, InUseAfter
<1> QED
  BY <1>1, <1>4 DEF Moving

-----------------------------------------------------------------------------
\* The strengthening holds for every set of threads and of faults.
LEMMA DigestInvHolds == Spec => []DigestInv
<1>1. Init => DigestInv
  BY DEF Init, DigestInv, OneDigest, DigestOfOwner, InUse, FreshChain,
         NoLocal, Undigested, Genesis
<1>2. TypeOK /\ FreshInv /\ DigestInv /\ [Next]_vars => DigestInv'
  <2> SUFFICES ASSUME TypeOK, FreshInv, DigestInv, [Next]_vars
               PROVE  DigestInv'
    OBVIOUS
  <2>1. local \in [Threads -> Locals] /\ pc \in [Threads -> Steps] /\ chain \in Chains
    BY DEF TypeOK
  <2>2. ASSUME NEW t \in Threads,
               \/ Observe(t) \/ QueryHead(t) \/ QueryFails(t) \/ AdoptSequence(t)
               \/ AdoptPrevious(t) \/ Link(t) \/ InsertEvidence(t) \/ SaveIncident(t)
               \/ StatementFails(t) \/ Notify(t)
        PROVE  DigestInv'
    BY <2>2, MovingSteps, MovingKeepsDigests
  <2>3. CASE Restart
    BY <2>3, RestartMoves, MovingKeepsDigests
  <2>4. ASSUME NEW t \in Threads, NEW a \in Alerts, Raise(t, a)
        PROVE  DigestInv'
    <3>1. /\ rows' = rows /\ chain' = chain /\ raised' = raised \union {a} /\ a \notin raised
          /\ local' = [local EXCEPT ![t].alert = a]
          /\ pc[t] = "idle" /\ pc' = [pc EXCEPT ![t] = "query"]
      BY <2>4 DEF Raise, Goto, tables
    <3>2. \A u \in Threads : /\ local'[u].prev = local[u].prev
                             /\ local'[u].digest = local[u].digest
                             /\ local'[u].head = local[u].head
                             /\ local'[u].alert = IF u = t THEN a ELSE local[u].alert
                             /\ pc'[u] = IF u = t THEN "query" ELSE pc[u]
      BY <2>1, <3>1 DEF Locals
    <3>3. InUse' = InUse
      BY <3>1, <3>2 DEF InUse
    <3>5. OneDigest'
      <4>1. \A d \in InUse \ {Genesis} :
              /\ Author(d) \in raised'
              /\ \A u \in Threads : pc'[u] \in Undigested => local'[u].alert # Author(d)
        BY <3>1, <3>2 DEF DigestInv, OneDigest
      <4> QED
        BY <3>3, <4>1 DEF DigestInv, OneDigest, Genesis, Author
    <3>6. DigestOfOwner'
      BY <3>1, <3>2 DEF DigestInv, DigestOfOwner, Genesis, Author
    <3> QED
      BY <3>5, <3>6 DEF DigestInv
  <2>5. ASSUME NEW t \in Threads, Digest(t)
        PROVE  DigestInv'
    <3> DEFINE h == Hash(local[t].prev, Payload(local[t].alert))
               a == local[t].alert
    <3>1. /\ rows' = rows /\ chain' = chain /\ raised' = raised
          /\ local' = [local EXCEPT ![t].digest = h]
          /\ pc[t] = "digest" /\ pc' = [pc EXCEPT ![t] = "stamp"]
      BY <2>5 DEF Digest, Goto, tables
    <3>2. a \in Alerts /\ local[t].prev \in Digests /\ health \in Nat
      BY <2>1, <3>1 DEF TypeOK, Locals
    <3>3. h # Genesis /\ Author(h) = a
      BY <3>2, HashAuthor
    <3> HIDE DEF h
    <3>4. \A u \in Threads : /\ local'[u].prev = local[u].prev
                             /\ local'[u].digest = IF u = t THEN h ELSE local[u].digest
                             /\ local'[u].head = local[u].head
                             /\ local'[u].alert = local[u].alert
                             /\ pc'[u] = IF u = t THEN "stamp" ELSE pc[u]
      BY <2>1, <3>1 DEF Locals
    <3>5. InUse' \subseteq InUse \union {h}
      BY <3>1, <3>4 DEF InUse
    <3>7. \A d \in InUse \ {Genesis} : Author(d) # a
      BY <3>1 DEF DigestInv, OneDigest, Undigested
    <3>8. a \in raised
      BY <3>1 DEF FreshInv
    <3>9. \A u \in Threads : pc'[u] \in Undigested => pc[u] \in Undigested /\ local[u].alert # a
      BY <3>1, <3>4 DEF FreshInv, Undigested
    <3>10. OneDigest'
      <4>1. \A d \in InUse' \ {Genesis} :
              /\ Author(d) \in raised'
              /\ \A u \in Threads : pc'[u] \in Undigested => local'[u].alert # Author(d)
        BY <3>1, <3>3, <3>4, <3>5, <3>8, <3>9 DEF DigestInv, OneDigest
      <4>2. \A d, e \in InUse' \ {Genesis} : Author(d) = Author(e) => d = e
        BY <3>3, <3>5, <3>7 DEF DigestInv, OneDigest
      <4> QED
        BY <4>1, <4>2 DEF OneDigest, Genesis, Author
    <3>11. DigestOfOwner'
      BY <3>1, <3>3, <3>4 DEF DigestInv, DigestOfOwner, Genesis, Author
    <3> QED
      BY <3>10, <3>11 DEF DigestInv
  <2>6. ASSUME NEW t \in Threads, Stamp(t)
        PROVE  DigestInv'
    <3>1. /\ rows' = rows /\ raised' = raised /\ chain'.previous = local[t].digest
          /\ pc[t] = "stamp" /\ pc' = [pc EXCEPT ![t] = "insert"]
      BY <2>1, <2>6 DEF Stamp, Goto, tables, Chains
    <3>2. \A u \in Threads : /\ local'[u].prev = local[u].prev
                             /\ local'[u].digest = local[u].digest
                             /\ local'[u].head = local[u].head
                             /\ local'[u].alert = local[u].alert
      BY <2>1, <2>6 DEF Stamp, Locals
    <3>3. InUse' \subseteq InUse \union {Genesis}
      BY <3>1, <3>2 DEF InUse
    <3>4. Moving
      BY <2>1, <3>1, <3>2, <3>3 DEF Moving, Undigested
    <3> QED
      BY <3>4, MovingKeepsDigests
  <2>7. ASSUME NEW t \in Threads, InsertAlert(t)
        PROVE  DigestInv'
    <3>1. /\ rows \in Seq(Rows) /\ rows' = Append(rows, RowOf(t))
          /\ raised' = raised /\ chain' = chain /\ local' = local
          /\ pc[t] = "insert" /\ pc' = [pc EXCEPT ![t] = "evidence"]
      BY <2>7, InsertAppends DEF InsertAlert, Goto
    <3>2. /\ \A i \in DOMAIN rows' : (i \in DOMAIN rows /\ rows'[i] = rows[i]) \/ rows'[i] = RowOf(t)
      BY <3>1
    <3>3. /\ RowOf(t).prev = local[t].prev /\ RowOf(t).hash = local[t].digest
          /\ RowOf(t).body.alert = local[t].alert
      BY DEF RowOf, Stored, Payload
    <3>4. InUse' \subseteq InUse
      BY <3>1, <3>2, <3>3 DEF InUse
    <3>6. OneDigest'
      <4>1. \A u \in Threads : pc'[u] \in Undigested => pc[u] \in Undigested
        BY <2>1, <3>1 DEF Undigested
      <4>2. \A d \in InUse' \ {Genesis} :
              /\ Author(d) \in raised'
              /\ \A u \in Threads : pc'[u] \in Undigested => local'[u].alert # Author(d)
        BY <3>1, <3>4, <4>1 DEF DigestInv, OneDigest
      <4>3. \A d, e \in InUse' \ {Genesis} : Author(d) = Author(e) => d = e
        BY <3>4 DEF DigestInv, OneDigest
      <4> QED
        BY <4>2, <4>3 DEF OneDigest, Genesis, Author
    <3>7. DigestOfOwner'
      BY <2>1, <3>1, <3>2, <3>3 DEF DigestInv, DigestOfOwner, Genesis, Author
    <3> QED
      BY <3>6, <3>7 DEF DigestInv
  <2>8. CASE UNCHANGED vars
    <3>1. InUse' = InUse
      BY <2>8 DEF vars, tables, InUse
    <3>2. Moving
      BY <2>8, <3>1 DEF vars, tables, Moving
    <3> QED
      BY <3>2, MovingKeepsDigests
  <2> QED
    BY <2>2, <2>3, <2>4, <2>5, <2>6, <2>7, <2>8 DEF Next, Finalize
<1> QED
  BY <1>1, <1>2, TypeCorrect, FreshInvHolds, PTL DEF Spec

\* Whatever fails and however many threads ingest, a row that links to a
\* digest computed for a stored alert links to the digest stored with it.
THEOREM LinksStayHonest == Spec => []LinksNameStoredDigest
<1>1. DigestInv => LinksNameStoredDigest
  <2> SUFFICES ASSUME DigestInv, NEW i \in DOMAIN rows, NEW j \in DOMAIN rows,
                      rows[i].prev # Genesis,
                      Author(rows[i].prev) = rows[j].body.alert
               PROVE  rows[i].prev = rows[j].hash
    BY DEF LinksNameStoredDigest, Author
  <2>1. rows[i].prev \in InUse /\ rows[j].hash \in InUse
    BY DEF InUse
  <2>2. rows[j].hash # Genesis /\ Author(rows[j].hash) = rows[j].body.alert
    BY DEF DigestInv, DigestOfOwner
  <2> QED
    BY <2>1, <2>2 DEF DigestInv, OneDigest
<1> QED
  BY <1>1, DigestInvHolds, PTL

-----------------------------------------------------------------------------
(* From here on: AlertStream.                                              *)

HIDE ConstantsAssumption
USE StreamAssumption

-----------------------------------------------------------------------------
(* What holds between two steps.  The types, which include that only       *)
(* finitely many alerts are stored and clients connected, and that nothing *)
(* is under way for a websocket that is not there.                         *)

Broadcasts == [alert : AlertIds, started : BOOLEAN, left : SUBSET Clients]

ShapeInv ==
    /\ IsFiniteSet(Recorded) /\ IsFiniteSet(Open)
    /\ publishing \in [Publishers -> Broadcasts \cup {None}]
    /\ ready \in Seq([to : Clients, item : Items])
    /\ queue \in [Clients -> Seq(Items)]
    /\ hand \in [Clients -> Items \cup {None}]
    /\ received \in [Clients -> Seq(Items)]
    /\ dropped \in [Clients -> SUBSET Items]
    /\ published \in [Clients -> SUBSET Items]

QuietInv ==
    \A c \in Clients :
        /\ c \notin Open => received[c] = <<>> /\ hand[c] = None /\ dropped[c] = {}
        /\ client[c] = "new" =>
            /\ \A i \in DOMAIN ready : ready[i].to # c
            /\ \A t \in Publishers : publishing[t] # None => c \notin publishing[t].left

TypeInv == StreamTypeOK /\ ShapeInv

\* The line of a client in two parts: what its queue saw and what is scheduled.
Arrived(c) == {Got(c)[i] : i \in 1..Len(Got(c))}
ComingAt(c) == {k \in 1..Len(ready) : ready[k].to = c}
Coming(c) == {ready[k].item : k \in ComingAt(c)}
Seen(c) == Arrived(c) \cup Coming(c) \cup dropped[c]

\* An item tells who published the alert, and the watcher knows its own.
Genuine(x) ==
    /\ x[1] \in Recorded
    /\ IF x[2] = Watcher THEN number[x[1]] <= known ELSE origin[x[1]] = x[2]

Earlier(x, y) == x[2] = y[2] => Sooner(x, y)

\* Thread t publishes an alert and has not come to the queue of c.
Due(t, c) == publishing[t] # None /\ (publishing[t].started => c \in publishing[t].left)

\* A thread publishes its own alert, and where it has not come yet, everything it
\* published before was stored sooner.
PublishingInv ==
    \A t \in Publishers : publishing[t] # None =>
        /\ publishing[t].alert \in Recorded
        /\ origin[publishing[t].alert] = t

SeenAt(c) ==
    \A x \in Seen(c) :
        /\ Genuine(x)
        /\ \A t \in Publishers : Due(t, c) => Earlier(x, <<publishing[t].alert, t>>)

\* The line is sorted, source by source.
Ordered(c) ==
    /\ \A i, j \in 1..Len(Got(c)) : i < j => Earlier(Got(c)[i], Got(c)[j])
    /\ \A i \in 1..Len(Got(c)), k \in ComingAt(c) : Earlier(Got(c)[i], ready[k].item)
    /\ \A k, l \in ComingAt(c) : k < l => Earlier(ready[k].item, ready[l].item)

\* What was published is in the line, was lost, or is held by its thread.
Accounted(c) ==
    /\ published[c] = Seen(c) \cup Held(c)
    /\ dropped[c] \cap (Arrived(c) \cup Coming(c)) = {}

ClientInv(c) == SeenAt(c) /\ Ordered(c) /\ Accounted(c)

StreamInv == PublishingInv /\ \A c \in Open : ClientInv(c)

-----------------------------------------------------------------------------
(* Types.                                                                  *)

\* An empty hand and an idle thread are not mistaken for a full or a busy one.
LEMMA NoneIsNothing ==
    /\ None \notin Items
    /\ None \notin Broadcasts
<1>1. None \notin Items
  BY DEF None, Items
<1>2. \A b \in Broadcasts : DOMAIN b # DOMAIN None
  BY DEF None, Broadcasts
<1> QED
  BY <1>1, <1>2

LEMMA StoreType ==
    ASSUME TypeInv, NEW a \in AlertIds, NEW by \in Publishers \cup {Elsewhere}, Store(a, by)
    PROVE  /\ Recorded' = Recorded \cup {a}
           /\ Recorded' \subseteq AlertIds
           /\ IsFiniteSet(Recorded')
           /\ Cardinality(Recorded') = Cardinality(Recorded) + 1
           /\ number' \in [Recorded' -> Nat]
           /\ place' \in [Recorded' -> 1..Cardinality(Recorded')]
           /\ origin' \in [Recorded' -> Publishers \cup {Elsewhere}]
<1>1. Recorded' = Recorded \cup {a} /\ a \notin Recorded
  BY DEF Store, Recorded
<1>2. Cardinality(Recorded) \in Nat
  BY FS_CardinalityType DEF TypeInv, ShapeInv
<1>3. IsFiniteSet(Recorded') /\ Cardinality(Recorded') = Cardinality(Recorded) + 1
  BY <1>1, FS_AddElement DEF TypeInv, ShapeInv
<1>4. PICK n \in Numbers[a] : number' = [b \in Recorded \cup {a} |-> IF b = a THEN n ELSE number[b]]
  BY DEF Store
<1>5. n \in Nat
  OBVIOUS
<1>6. number' \in [Recorded' -> Nat]
  BY <1>1, <1>4, <1>5 DEF TypeInv, StreamTypeOK
<1>7. place' \in [Recorded' -> 1..Cardinality(Recorded')]
  <2>1. place' = [b \in Recorded \cup {a} |-> IF b = a THEN Cardinality(Recorded) + 1 ELSE place[b]]
    BY DEF Store
  <2> QED
    BY <1>1, <1>2, <1>3, <2>1 DEF TypeInv, StreamTypeOK
<1>8. origin' \in [Recorded' -> Publishers \cup {Elsewhere}]
  BY <1>1 DEF TypeInv, StreamTypeOK, Store
<1>9. Recorded' \subseteq AlertIds
  BY <1>1 DEF TypeInv, StreamTypeOK
<1> QED
  BY <1>1, <1>3, <1>6, <1>7, <1>8, <1>9

LEMMA PublishingType ==
    ASSUME TypeInv, NEW t \in Publishers, publishing[t] # None, NEW S \in SUBSET Clients
    PROVE  /\ publishing[t] \in Broadcasts
           /\ publishing[t].alert \in AlertIds
           /\ <<publishing[t].alert, t>> \in Items
           /\ Publishing(t, S) \in Broadcasts \cup {None}
BY DEF TypeInv, ShapeInv, Broadcasts, Publishing, Items

LEMMA FunctionIsSequence ==
    ASSUME NEW S, NEW n \in Nat, NEW f \in [1..n -> S]
    PROVE  f \in Seq(S) /\ Len(f) = n
<1>1. f \in Seq(S)
  BY SeqDef, Zenon
<1> QED
  BY <1>1, LenProperties

\* The calls that are scheduled: one for each open queue, in some order.
LEMMA CallsType ==
    ASSUME NEW S \in SUBSET Clients, IsFiniteSet(S), NEW order \in Orders(S), NEW item \in Items
    PROVE  /\ Calls(order, item) \in Seq([to : Clients, item : Items])
           /\ Len(Calls(order, item)) = Cardinality(S)
           /\ order \in [1..Cardinality(S) -> S]
           /\ Cardinality(S) \in Nat
           /\ \A i \in 1..Cardinality(S) : /\ Calls(order, item)[i].to = order[i]
                                            /\ Calls(order, item)[i].item = item
<1>1. Cardinality(S) \in Nat
  BY FS_CardinalityType
<1>2. order \in [1..Cardinality(S) -> S]
  BY DEF Orders
<1>3. Calls(order, item) \in [1..Cardinality(S) -> [to : Clients, item : Items]]
  BY <1>2 DEF Calls
<1>4. \A i \in 1..Cardinality(S) : /\ Calls(order, item)[i].to = order[i]
                                   /\ Calls(order, item)[i].item = item
  BY <1>2 DEF Calls
<1>5. Calls(order, item) \in Seq([to : Clients, item : Items])
  BY <1>1, <1>3, FunctionIsSequence
<1>6. DOMAIN Calls(order, item) = 1..Cardinality(S)
  BY <1>3
<1>7. Len(Calls(order, item)) = Cardinality(S)
  BY <1>1, <1>5, <1>6, LenProperties
<1> QED
  BY <1>1, <1>2, <1>4, <1>5, <1>6, <1>7

LEMMA ReadyShape ==
    ASSUME NEW r \in Seq([to : Clients, item : Items])
    PROVE  /\ Len(r) \in Nat /\ DOMAIN r = 1..Len(r)
           /\ \A i \in DOMAIN r : r[i] \in [to : Clients, item : Items]
           /\ \A i \in DOMAIN r : r[i].to \in Clients /\ r[i].item \in Items
<1>1. Len(r) \in Nat /\ DOMAIN r = 1..Len(r)
  BY LenProperties
<1>2. \A i \in DOMAIN r : r[i] \in [to : Clients, item : Items]
  BY <1>1, ElementOfSeq
<1> QED
  BY <1>1, <1>2

LEMMA StoreHereTypes ==
    ASSUME TypeInv, NEW t \in Publishers, NEW a \in AlertIds, StoreHere(t, a)
    PROVE  TypeInv'
<1>1. Store(a, t) /\ UNCHANGED published
  BY DEF StoreHere
<1>2. UNCHANGED <<known, ready, client, queue, hand, received, dropped>>
  BY <1>1 DEF Store
<1>3. publishing' \in [Publishers -> Broadcasts \cup {None}]
  BY DEF TypeInv, ShapeInv, StoreHere, Broadcasts
<1>4. ShapeInv'
  BY <1>1, <1>2, <1>3, StoreType DEF TypeInv, ShapeInv, Open
<1>5. StreamTypeOK'
  BY <1>1, <1>2, StoreType DEF TypeInv, StreamTypeOK, Open
<1> QED
  BY <1>4, <1>5 DEF TypeInv

LEMMA StoreElsewhereTypes ==
    ASSUME TypeInv, NEW a \in AlertIds, StoreElsewhere(a)
    PROVE  TypeInv'
<1>1. Store(a, Elsewhere) /\ UNCHANGED <<publishing, published>>
  BY DEF StoreElsewhere
<1>2. UNCHANGED <<known, ready, client, queue, hand, received, dropped>>
  BY <1>1 DEF Store
<1>4. ShapeInv'
  BY <1>1, <1>2, StoreType DEF TypeInv, ShapeInv, Open
<1>5. StreamTypeOK'
  BY <1>1, <1>2, StoreType DEF TypeInv, StreamTypeOK, Open
<1> QED
  BY <1>4, <1>5 DEF TypeInv

LEMMA PublishedToType ==
    ASSUME TypeInv, NEW item \in Items, published' = PublishedTo(Open, item)
    PROVE  /\ published' \in [Clients -> SUBSET Items]
           /\ \A c \in Clients \ Open : published'[c] = published[c]
BY DEF TypeInv, ShapeInv, PublishedTo

LEMMA SnapshotTypes ==
    ASSUME TypeInv, NEW t \in Publishers, Snapshot(t)
    PROVE  TypeInv'
<1>1. publishing[t] # None /\ Open \in SUBSET Clients
  BY DEF Snapshot, Open
<1>2. publishing' \in [Publishers -> Broadcasts \cup {None}]
  BY <1>1, PublishingType DEF Snapshot, TypeInv, ShapeInv
<1>3. /\ published' \in [Clients -> SUBSET Items]
      /\ \A c \in Clients \ Open : published'[c] = published[c]
  BY <1>1, PublishingType, PublishedToType DEF Snapshot
<1>4. UNCHANGED <<number, place, origin, known, ready, client, queue, hand, received, dropped>>
  BY DEF Snapshot
<1>5. ShapeInv'
  BY <1>2, <1>3, <1>4 DEF TypeInv, ShapeInv, Open, Recorded
<1>6. StreamTypeOK'
  BY <1>3, <1>4 DEF TypeInv, StreamTypeOK, Open, Recorded
<1> QED
  BY <1>5, <1>6 DEF TypeInv

LEMMA ScheduleTypes ==
    ASSUME TypeInv, NEW t \in Publishers, NEW c \in Clients, Schedule(t, c)
    PROVE  TypeInv'
<1>1. publishing[t] # None /\ c \in publishing[t].left
  BY DEF Schedule
<1>2. publishing[t].left \ {c} \in SUBSET Clients
  BY <1>1, PublishingType DEF Broadcasts
<1>3. publishing' \in [Publishers -> Broadcasts \cup {None}]
  BY <1>1, <1>2, PublishingType DEF Schedule, TypeInv, ShapeInv
<1>4. [to |-> c, item |-> <<publishing[t].alert, t>>] \in [to : Clients, item : Items]
  BY <1>1, PublishingType
<1>5. ready \in Seq([to : Clients, item : Items])
  BY DEF TypeInv, ShapeInv
<1>6. ready' \in Seq([to : Clients, item : Items])
  BY <1>4, <1>5, AppendProperties DEF Schedule
<1>7. UNCHANGED <<number, place, origin, known, client, queue, hand, received, dropped, published>>
  BY DEF Schedule
<1>8. ShapeInv'
  BY <1>3, <1>6, <1>7 DEF TypeInv, ShapeInv, Open, Recorded
<1>9. \A i \in DOMAIN ready' : ready'[i].to \in Clients /\ ready'[i].item \in Items
  BY <1>6, ReadyShape
<1>10. StreamTypeOK'
  BY <1>7, <1>9 DEF TypeInv, StreamTypeOK, Open, Recorded
<1> QED
  BY <1>8, <1>10 DEF TypeInv

LEMMA WatchTypes ==
    ASSUME TypeInv, NEW a \in AlertIds, Watch(a)
    PROVE  TypeInv'
<1>1. a \in Recorded /\ known' = number[a]
  BY DEF Watch, IsNewest
<1>2. known' \in Nat
  BY <1>1 DEF TypeInv, StreamTypeOK
<1>3. UNCHANGED <<number, place, origin, publishing, client, queue, hand, received, dropped>>
  BY DEF Watch
<1>4. /\ ready' \in Seq([to : Clients, item : Items])
      /\ published' \in [Clients -> SUBSET Items]
      /\ \A c \in Clients \ Open : published'[c] = published[c]
  <2>1. CASE known = 0
    BY <2>1 DEF Watch, TypeInv, ShapeInv
  <2>2. CASE known # 0
    <3> DEFINE item == <<a, Watcher>>
    <3>1. item \in Items
      BY DEF Items
    <3>2. PICK order \in Orders(Open) : ready' = ready \o Calls(order, item)
      BY <2>2 DEF Watch, PublishAll
    <3>3. Open \in SUBSET Clients /\ IsFiniteSet(Open)
      BY DEF Open, TypeInv, ShapeInv
    <3>4. Calls(order, item) \in Seq([to : Clients, item : Items])
      BY <3>1, <3>3, CallsType
    <3>5. ready \in Seq([to : Clients, item : Items])
      BY DEF TypeInv, ShapeInv
    <3>6. ready' \in Seq([to : Clients, item : Items])
      BY <3>2, <3>4, <3>5, ConcatProperties
    <3>7. published' = PublishedTo(Open, item)
      BY <2>2 DEF Watch, PublishAll
    <3> QED
      BY <3>1, <3>6, <3>7, PublishedToType
  <2> QED
    BY <2>1, <2>2
<1>5. ShapeInv'
  BY <1>3, <1>4 DEF TypeInv, ShapeInv, Open, Recorded
<1>6. \A i \in DOMAIN ready' : ready'[i].to \in Clients /\ ready'[i].item \in Items
  BY <1>4, ReadyShape
<1>7. StreamTypeOK'
  BY <1>2, <1>3, <1>4, <1>6 DEF TypeInv, StreamTypeOK, Open, Recorded
<1> QED
  BY <1>5, <1>7 DEF TypeInv

LEMMA PutTypes ==
    ASSUME TypeInv, Put
    PROVE  TypeInv'
<1> DEFINE c == Head(ready).to
           item == Head(ready).item
<1>1. ready \in Seq([to : Clients, item : Items]) /\ ready # <<>>
  BY DEF TypeInv, ShapeInv, Put
<1>2. Head(ready) \in [to : Clients, item : Items] /\ ready' \in Seq([to : Clients, item : Items])
  BY <1>1, HeadTailProperties DEF Put
<1>3. c \in Clients /\ item \in Items
  BY <1>2
<1>4. /\ queue[c] \in Seq(Items)
      /\ Append(queue[c], item) \in Seq(Items)
      /\ Len(queue[c]) \in Nat
      /\ Len(Append(queue[c], item)) = Len(queue[c]) + 1
  <2>1. queue[c] \in Seq(Items)
    BY <1>3 DEF TypeInv, ShapeInv
  <2> QED
    BY <1>3, <2>1, AppendProperties, LenProperties
<1>5. UNCHANGED <<number, place, origin, publishing, known, client, hand, received, published>>
  BY DEF Put
<1>6. /\ queue' \in [Clients -> Seq(Items)]
      /\ dropped' \in [Clients -> SUBSET Items]
  <2>1. queue \in [Clients -> Seq(Items)] /\ dropped \in [Clients -> SUBSET Items]
    BY DEF TypeInv, ShapeInv
  <2>2. \/ queue' = [queue EXCEPT ![c] = Append(@, item)]
        \/ queue' = queue
    BY DEF Put
  <2>3. \/ dropped' = [dropped EXCEPT ![c] = @ \cup {item}]
        \/ dropped' = dropped
    BY DEF Put
  <2>4. queue' \in [Clients -> Seq(Items)]
    BY <1>3, <1>4, <2>1, <2>2
  <2>5. dropped[c] \cup {item} \in SUBSET Items
    BY <1>3, <2>1
  <2> QED
    BY <1>3, <2>1, <2>3, <2>4, <2>5
<1>7. \A d \in Clients : Len(queue'[d]) <= QueueSize /\ (d \notin Open => queue'[d] = <<>>)
  <2> SUFFICES ASSUME NEW d \in Clients
               PROVE  Len(queue'[d]) <= QueueSize /\ (d \notin Open => queue'[d] = <<>>)
    OBVIOUS
  <2>1. Len(queue[d]) <= QueueSize /\ (d \notin Open => queue[d] = <<>>)
    BY DEF TypeInv, StreamTypeOK
  <2>2. CASE c \in Open /\ Len(queue[c]) < QueueSize
    <3>1. queue' = [queue EXCEPT ![c] = Append(@, item)]
      BY <2>2, <1>4 DEF Put
    <3>2. queue'[d] = IF d = c THEN Append(queue[c], item) ELSE queue[d]
      BY <3>1, <1>3 DEF TypeInv, ShapeInv
    <3> QED
      BY <2>1, <2>2, <3>2, <1>4
  <2>3. CASE ~(c \in Open /\ Len(queue[c]) < QueueSize)
    BY <2>1, <2>3 DEF Put
  <2> QED
    BY <2>2, <2>3
<1>8. ShapeInv'
  BY <1>2, <1>5, <1>6 DEF TypeInv, ShapeInv, Open, Recorded
<1>9. \A i \in DOMAIN ready' : ready'[i].to \in Clients /\ ready'[i].item \in Items
  BY <1>2, ReadyShape
<1>10. StreamTypeOK'
  BY <1>5, <1>7, <1>9 DEF TypeInv, StreamTypeOK, Open, Recorded
<1> QED
  BY <1>8, <1>10 DEF TypeInv

LEMMA ConnectTypes ==
    ASSUME TypeInv, NEW c \in Clients, Connect(c)
    PROVE  TypeInv' /\ Open' = Open \cup {c}
<1>1. UNCHANGED <<number, place, origin, publishing, known, ready, queue, hand, received, dropped, published>>
  BY DEF Connect
<1>2. client' \in [Clients -> {"new", "open", "closed"}] /\ Open' = Open \cup {c}
  BY DEF Connect, Open, TypeInv, StreamTypeOK
<1>3. IsFiniteSet(Open')
  BY <1>2, FS_AddElement DEF TypeInv, ShapeInv
<1>4. ShapeInv'
  BY <1>1, <1>3 DEF TypeInv, ShapeInv, Recorded
<1>5. StreamTypeOK'
  BY <1>1, <1>2 DEF TypeInv, StreamTypeOK, Recorded
<1> QED
  BY <1>2, <1>4, <1>5 DEF TypeInv

LEMMA TakeTypes ==
    ASSUME TypeInv, NEW c \in Clients, Take(c)
    PROVE  TypeInv'
<1>1. UNCHANGED <<number, place, origin, publishing, known, ready, client, received, dropped, published>>
  BY DEF Take
<1>2. queue[c] \in Seq(Items) /\ queue[c] # <<>> /\ c \in Open
  BY DEF Take, TypeInv, ShapeInv
<1>3. /\ Head(queue[c]) \in Items /\ Tail(queue[c]) \in Seq(Items)
      /\ Len(queue[c]) \in Nat /\ Len(Tail(queue[c])) = Len(queue[c]) - 1
  BY <1>2, HeadTailProperties, LenProperties
<1>4. hand' \in [Clients -> Items \cup {None}] /\ queue' \in [Clients -> Seq(Items)]
  BY <1>3 DEF Take, TypeInv, ShapeInv
<1>5. \A d \in Clients : Len(queue'[d]) <= QueueSize /\ (d \notin Open => queue'[d] = <<>>)
  <2> SUFFICES ASSUME NEW d \in Clients
               PROVE  Len(queue'[d]) <= QueueSize /\ (d \notin Open => queue'[d] = <<>>)
    OBVIOUS
  <2>1. Len(queue[d]) <= QueueSize /\ (d \notin Open => queue[d] = <<>>)
    BY DEF TypeInv, StreamTypeOK
  <2>2. queue'[d] = IF d = c THEN Tail(queue[c]) ELSE queue[d]
    BY DEF Take, TypeInv, ShapeInv
  <2> QED
    BY <1>2, <1>3, <2>1, <2>2
<1>6. ShapeInv'
  BY <1>1, <1>4 DEF TypeInv, ShapeInv, Open, Recorded
<1>7. StreamTypeOK'
  BY <1>1, <1>5 DEF TypeInv, StreamTypeOK, Open, Recorded
<1> QED
  BY <1>6, <1>7 DEF TypeInv

LEMMA SentTypes ==
    ASSUME TypeInv, NEW c \in Clients, Sent(c)
    PROVE  TypeInv'
<1>1. UNCHANGED <<number, place, origin, publishing, known, ready, client, queue, dropped, published>>
  BY DEF Sent
<1>2. hand[c] \in Items /\ received[c] \in Seq(Items)
  BY DEF Sent, TypeInv, ShapeInv
<1>3. Append(received[c], hand[c]) \in Seq(Items)
  BY <1>2, AppendProperties
<1>4. hand' \in [Clients -> Items \cup {None}] /\ received' \in [Clients -> Seq(Items)]
  BY <1>3 DEF Sent, TypeInv, ShapeInv
<1>5. ShapeInv'
  BY <1>1, <1>4 DEF TypeInv, ShapeInv, Open, Recorded
<1>6. StreamTypeOK'
  BY <1>1 DEF TypeInv, StreamTypeOK, Open, Recorded
<1> QED
  BY <1>5, <1>6 DEF TypeInv

LEMMA DisconnectTypes ==
    ASSUME TypeInv, NEW c \in Clients, Disconnect(c)
    PROVE  TypeInv' /\ Open' = Open \ {c}
<1>1. UNCHANGED <<number, place, origin, publishing, known, ready>>
  BY DEF Disconnect
<1>2. client' \in [Clients -> {"new", "open", "closed"}] /\ Open' = Open \ {c}
  BY DEF Disconnect, Open, TypeInv, StreamTypeOK
<1>3. IsFiniteSet(Open')
  BY <1>2, FS_Subset DEF TypeInv, ShapeInv
<1>4. <<>> \in Seq(Items) /\ Len(<<>>) = 0
  BY EmptySeq
<1>5. /\ queue' \in [Clients -> Seq(Items)]
      /\ hand' \in [Clients -> Items \cup {None}]
      /\ received' \in [Clients -> Seq(Items)]
      /\ dropped' \in [Clients -> SUBSET Items]
      /\ published' \in [Clients -> SUBSET Items]
  BY <1>4 DEF Disconnect, TypeInv, ShapeInv
<1>6. \A d \in Clients : /\ Len(queue'[d]) <= QueueSize
                         /\ d \notin Open' => queue'[d] = <<>> /\ published'[d] = {}
  <2> SUFFICES ASSUME NEW d \in Clients
               PROVE  /\ Len(queue'[d]) <= QueueSize
                      /\ d \notin Open' => queue'[d] = <<>> /\ published'[d] = {}
    OBVIOUS
  <2>1. /\ Len(queue[d]) <= QueueSize
        /\ d \notin Open => queue[d] = <<>> /\ published[d] = {}
    BY DEF TypeInv, StreamTypeOK
  <2>2. /\ queue'[d] = IF d = c THEN <<>> ELSE queue[d]
        /\ published'[d] = IF d = c THEN {} ELSE published[d]
    BY DEF Disconnect, TypeInv, ShapeInv
  <2> QED
    BY <1>2, <1>4, <2>1, <2>2
<1>7. ShapeInv'
  BY <1>1, <1>3, <1>5 DEF TypeInv, ShapeInv, Recorded
<1>8. StreamTypeOK'
  BY <1>1, <1>2, <1>6 DEF TypeInv, StreamTypeOK, Recorded
<1> QED
  BY <1>2, <1>7, <1>8 DEF TypeInv

LEMMA TypeInit == StreamInit => TypeInv
<1> SUFFICES ASSUME StreamInit PROVE TypeInv
  OBVIOUS
<1>1. Recorded = {} /\ Open = {}
  BY DEF StreamInit, Recorded, Open
<1>2. IsFiniteSet({}) /\ Cardinality({}) = 0
  BY FS_EmptySet
<1>3. /\ <<>> \in Seq(Items) /\ Len(<<>>) = 0
      /\ <<>> \in Seq([to : Clients, item : Items])
  BY EmptySeq
<1>4. ShapeInv
  BY <1>1, <1>2, <1>3 DEF StreamInit, ShapeInv
<1>5. \A i \in DOMAIN ready : FALSE
  BY DEF StreamInit
<1>6. StreamTypeOK
  BY <1>1, <1>2, <1>3, <1>5 DEF StreamInit, StreamTypeOK
<1> QED
  BY <1>4, <1>6 DEF TypeInv

LEMMA TypeStep == TypeInv /\ [StreamNext]_streamVars => TypeInv'
<1> SUFFICES ASSUME TypeInv, [StreamNext]_streamVars PROVE TypeInv'
  OBVIOUS
<1>1. ASSUME NEW t \in Publishers, NEW a \in AlertIds, StoreHere(t, a) PROVE TypeInv'
  BY <1>1, StoreHereTypes
<1>2. ASSUME NEW t \in Publishers, Snapshot(t) PROVE TypeInv'
  BY <1>2, SnapshotTypes
<1>3. ASSUME NEW t \in Publishers, NEW c \in Clients, Schedule(t, c) PROVE TypeInv'
  BY <1>3, ScheduleTypes
<1>4. ASSUME NEW a \in AlertIds, StoreElsewhere(a) PROVE TypeInv'
  BY <1>4, StoreElsewhereTypes
<1>5. ASSUME NEW a \in AlertIds, Watch(a) PROVE TypeInv'
  BY <1>5, WatchTypes
<1>6. CASE Put
  BY <1>6, PutTypes
<1>7. ASSUME NEW c \in Clients, Socket(c) PROVE TypeInv'
  BY <1>7, ConnectTypes, TakeTypes, SentTypes, DisconnectTypes DEF Socket
<1>8. CASE UNCHANGED streamVars
  BY <1>8 DEF streamVars, TypeInv, StreamTypeOK, ShapeInv, Open, Recorded
<1> QED
  BY <1>1, <1>2, <1>3, <1>4, <1>5, <1>6, <1>7, <1>8 DEF StreamNext, InThread

\* Type correctness: numbers, queues and scheduled calls stay well formed and
\* a queue within its bound, whatever the threads, the other process and the
\* websockets do.
THEOREM StreamTypeCorrect == StreamSpec => []StreamTypeOK
<1>1. TypeInv => StreamTypeOK
  BY DEF TypeInv
<1> QED
  BY <1>1, TypeInit, TypeStep, PTL DEF StreamSpec

-----------------------------------------------------------------------------
(* What the steps do to the calls scheduled in the loop.                   *)

LEMMA ReadyType ==
    ASSUME TypeInv
    PROVE  /\ ready \in Seq([to : Clients, item : Items])
           /\ Len(ready) \in Nat /\ DOMAIN ready = 1..Len(ready)
           /\ \A i \in 1..Len(ready) : ready[i].to \in Clients /\ ready[i].item \in Items
BY ReadyShape DEF TypeInv, ShapeInv

LEMMA ScheduleReady ==
    ASSUME TypeInv, NEW t \in Publishers, NEW c \in Clients, Schedule(t, c)
    PROVE  /\ Len(ready') = Len(ready) + 1
           /\ \A i \in 1..Len(ready) : ready'[i] = ready[i]
           /\ ready'[Len(ready) + 1].to = c
           /\ ready'[Len(ready) + 1].item = <<publishing[t].alert, t>>
<1> DEFINE call == [to |-> c, item |-> <<publishing[t].alert, t>>]
<1>1. call \in [to : Clients, item : Items]
  BY PublishingType DEF Schedule
<1>2. ready' = Append(ready, call)
  BY DEF Schedule
<1> HIDE DEF call
<1>3. /\ Len(ready') = Len(ready) + 1
      /\ \A i \in 1..Len(ready) : ready'[i] = ready[i]
      /\ ready'[Len(ready) + 1] = call
  BY <1>1, <1>2, ReadyType, AppendProperties
<1> QED
  BY <1>3 DEF call

LEMMA PublishAllReady ==
    ASSUME TypeInv, NEW item \in Items, NEW order \in Orders(Open),
           ready' = ready \o Calls(order, item)
    PROVE  /\ Cardinality(Open) \in Nat
           /\ order \in [1..Cardinality(Open) -> Open]
           /\ Len(ready') = Len(ready) + Cardinality(Open)
           /\ \A i \in 1..Len(ready) : ready'[i] = ready[i]
           /\ \A i \in 1..Cardinality(Open) : /\ ready'[Len(ready) + i].to = order[i]
                                              /\ ready'[Len(ready) + i].item = item
<1>1. Open \in SUBSET Clients /\ IsFiniteSet(Open)
  BY DEF Open, TypeInv, ShapeInv
<1> DEFINE calls == Calls(order, item)
           n == Cardinality(Open)
<1>2. /\ calls \in Seq([to : Clients, item : Items])
      /\ Len(calls) = n
      /\ n \in Nat
      /\ order \in [1..n -> Open]
      /\ \A i \in 1..n : calls[i].to = order[i] /\ calls[i].item = item
  <2> HIDE DEF calls, n
  <2>1. PICK S : S = Open
    OBVIOUS
  <2>2. S \in SUBSET Clients /\ IsFiniteSet(S) /\ order \in Orders(S)
    BY <1>1, <2>1
  <2>3. /\ Calls(order, item) \in Seq([to : Clients, item : Items])
        /\ Len(Calls(order, item)) = Cardinality(S)
        /\ order \in [1..Cardinality(S) -> S]
        /\ Cardinality(S) \in Nat
    BY <2>2, CallsType
  <2>4. \A i \in 1..Cardinality(S) : /\ Calls(order, item)[i].to = order[i]
                                     /\ Calls(order, item)[i].item = item
    BY <2>2, CallsType
  <2> QED
    BY <2>1, <2>3, <2>4 DEF calls, n
<1> HIDE DEF calls, n
<1>3. ready' = ready \o calls
  BY DEF calls
<1>4. /\ Len(ready') = Len(ready) + n
      /\ \A i \in 1..(Len(ready) + n) :
             ready'[i] = IF i <= Len(ready) THEN ready[i] ELSE calls[i - Len(ready)]
  BY <1>2, <1>3, ReadyType, ConcatProperties
<1>5. \A i \in 1..n : ready'[Len(ready) + i] = calls[i]
  <2> SUFFICES ASSUME NEW i \in 1..n PROVE ready'[Len(ready) + i] = calls[i]
    OBVIOUS
  <2>1. /\ Len(ready) + i \in 1..(Len(ready) + n) /\ ~(Len(ready) + i <= Len(ready))
        /\ (Len(ready) + i) - Len(ready) = i
    BY <1>2, ReadyType
  <2> QED
    BY <1>4, <2>1
<1>6. \A i \in 1..Len(ready) : ready'[i] = ready[i]
  BY <1>2, <1>4, ReadyType
<1>7. \A i \in 1..n : /\ ready'[Len(ready) + i].to = order[i]
                      /\ ready'[Len(ready) + i].item = item
  BY <1>2, <1>5
<1> QED
  BY <1>2, <1>4, <1>6, <1>7 DEF n

LEMMA PutReady ==
    ASSUME TypeInv, Put
    PROVE  /\ Len(ready) > 0 /\ Len(ready') = Len(ready) - 1
           /\ \A i \in 1..Len(ready') : ready'[i] = ready[i + 1]
           /\ Head(ready) = ready[1]
           /\ ready[1].to \in Clients /\ ready[1].item \in Items
<1>1. ready # <<>> /\ ready' = Tail(ready)
  BY DEF Put
<1>2. /\ Len(ready') = Len(ready) - 1
      /\ \A i \in 1..Len(ready') : ready'[i] = ready[i + 1]
  BY <1>1, ReadyType, HeadTailProperties
<1>3. Head(ready) = ready[1] /\ Len(ready) > 0
  BY <1>1, ReadyType, EmptySeq
<1> QED
  BY <1>2, <1>3, ReadyType

-----------------------------------------------------------------------------
(* Nothing is under way for a websocket that is not there.                 *)

LEMMA LeftAfter ==
    ASSUME TypeInv, NEW t \in Publishers, publishing[t] # None, NEW S \in SUBSET Clients,
           publishing' = [publishing EXCEPT ![t] = Publishing(t, S)]
    PROVE  /\ \A u \in Publishers \ {t} : publishing'[u] = publishing[u]
           /\ publishing'[t] # None <=> S # {}
           /\ publishing'[t] # None => /\ publishing'[t].alert = publishing[t].alert
                                      /\ publishing'[t].started = TRUE
                                      /\ publishing'[t].left = S
<1>1. publishing \in [Publishers -> Broadcasts \cup {None}]
  BY DEF TypeInv, ShapeInv
<1>2. publishing'[t] = Publishing(t, S)
  BY <1>1
<1>3. [alert |-> publishing[t].alert, started |-> TRUE, left |-> S] \in Broadcasts
  BY PublishingType DEF Broadcasts
<1>4. publishing'[t] # None <=> S # {}
  BY <1>2, <1>3, NoneIsNothing DEF Publishing
<1> QED
  BY <1>1, <1>2, <1>4 DEF Publishing

LEMMA StoreHereLeft ==
    ASSUME TypeInv, NEW t \in Publishers, NEW a \in AlertIds, StoreHere(t, a)
    PROVE  /\ \A u \in Publishers \ {t} : publishing'[u] = publishing[u]
           /\ publishing[t] = None
           /\ publishing'[t] # None
           /\ publishing'[t].alert = a
           /\ publishing'[t].started = FALSE
           /\ publishing'[t].left = {}
<1>1. [alert |-> a, started |-> FALSE, left |-> {}] \in Broadcasts
  BY DEF Broadcasts
<1>2. publishing'[t] = [alert |-> a, started |-> FALSE, left |-> {}]
  BY DEF StoreHere, TypeInv, ShapeInv
<1>3. publishing'[t] # None
  BY <1>1, <1>2, NoneIsNothing
<1>4. publishing'[t].alert = a /\ publishing'[t].started = FALSE /\ publishing'[t].left = {}
  BY <1>2
<1> QED
  BY <1>3, <1>4 DEF StoreHere, TypeInv, ShapeInv

LEMMA QuietStep == TypeInv /\ QuietInv /\ [StreamNext]_streamVars => QuietInv'
<1> SUFFICES ASSUME TypeInv, QuietInv, [StreamNext]_streamVars PROVE QuietInv'
  OBVIOUS
<1>T. TypeInv'
  BY TypeStep
<1>D. DOMAIN ready' = 1..Len(ready') /\ Len(ready') \in Nat
  BY <1>T, ReadyShape DEF TypeInv, ShapeInv
<1>1. ASSUME NEW t \in Publishers, NEW a \in AlertIds, StoreHere(t, a) PROVE QuietInv'
  <2>1. UNCHANGED <<ready, client, hand, received, dropped>>
    BY <1>1 DEF StoreHere, Store
  <2>2. /\ \A u \in Publishers \ {t} : publishing'[u] = publishing[u]
        /\ publishing'[t].left = {}
    BY <1>1, StoreHereLeft
  <2> QED
    BY <2>1, <2>2 DEF QuietInv, Open
<1>2. ASSUME NEW t \in Publishers, Snapshot(t) PROVE QuietInv'
  <2>1. UNCHANGED <<ready, client, hand, received, dropped>>
    BY <1>2 DEF Snapshot
  <2>4. publishing[t] # None
    BY <1>2 DEF Snapshot
  <2>2. /\ Open \in SUBSET Clients
        /\ publishing' = [publishing EXCEPT ![t] = Publishing(t, Open)]
    BY <1>2 DEF Snapshot, Open
  <2>3. \A u \in Publishers, c \in Clients :
            publishing'[u] # None /\ c \in publishing'[u].left =>
                c \in Open \/ (publishing[u] # None /\ c \in publishing[u].left)
    <3>1. PICK S : S = Open
      OBVIOUS
    <3>2. S \in SUBSET Clients /\ publishing' = [publishing EXCEPT ![t] = Publishing(t, S)]
      BY <2>2, <3>1
    <3>3. /\ \A u \in Publishers \ {t} : publishing'[u] = publishing[u]
          /\ publishing'[t] # None => publishing'[t].left = S
      BY <2>4, <3>2, LeftAfter
    <3> QED
      BY <3>1, <3>3
  <2> QED
    BY <2>1, <2>3 DEF QuietInv, Open
<1>3. ASSUME NEW t \in Publishers, NEW c \in Clients, Schedule(t, c) PROVE QuietInv'
  <2>1. /\ UNCHANGED <<client, hand, received, dropped>>
        /\ publishing[t] # None /\ c \in publishing[t].left
    BY <1>3 DEF Schedule
  <2>2. /\ publishing[t].left \ {c} \in SUBSET Clients
        /\ publishing' = [publishing EXCEPT ![t] = Publishing(t, publishing[t].left \ {c})]
    BY <1>3, <2>1, PublishingType DEF Schedule, Broadcasts, TypeInv, ShapeInv
  <2>3. \A u \in Publishers, d \in Clients :
            publishing'[u] # None /\ d \in publishing'[u].left =>
                publishing[u] # None /\ d \in publishing[u].left
    <3>1. /\ \A u \in Publishers \ {t} : publishing'[u] = publishing[u]
          /\ publishing'[t] # None => publishing'[t].left = publishing[t].left \ {c}
      BY <2>1, <2>2, LeftAfter
    <3> QED
      BY <2>1, <3>1
  <2>4. client[c] # "new"
    BY <2>1 DEF QuietInv
  <2>5. \A i \in 1..Len(ready') : ready'[i].to = c \/ (i \in 1..Len(ready) /\ ready'[i] = ready[i])
    BY <1>3, ScheduleReady, ReadyType
  <2>6. \A d \in Clients : client[d] = "new" => \A i \in DOMAIN ready' : ready'[i].to # d
    BY <1>D, <2>4, <2>5, ReadyType DEF QuietInv
  <2> QED
    BY <2>1, <2>3, <2>6 DEF QuietInv, Open
<1>4. ASSUME NEW a \in AlertIds, StoreElsewhere(a) PROVE QuietInv'
  BY <1>4 DEF StoreElsewhere, Store, QuietInv, Open
<1>5. ASSUME NEW a \in AlertIds, Watch(a) PROVE QuietInv'
  <2>1. UNCHANGED <<publishing, client, hand, received, dropped>>
    BY <1>5 DEF Watch
  <2>2. \A d \in Clients : client[d] = "new" => \A i \in DOMAIN ready' : ready'[i].to # d
    <3>1. CASE known = 0
      BY <1>5, <3>1 DEF Watch, QuietInv
    <3>2. CASE known # 0
      <4> DEFINE item == <<a, Watcher>>
      <4>1. item \in Items
        BY DEF Items
      <4>2. PICK order \in Orders(Open) : ready' = ready \o Calls(order, item)
        BY <1>5, <3>2 DEF Watch, PublishAll
      <4>3. \A i \in 1..Len(ready') : ready'[i].to \in Open \/ (i \in 1..Len(ready) /\ ready'[i] = ready[i])
        <5> SUFFICES ASSUME NEW i \in 1..Len(ready'), i \notin 1..Len(ready)
                     PROVE  ready'[i].to \in Open
          BY <4>1, <4>2, PublishAllReady
        <5>1. /\ Cardinality(Open) \in Nat /\ Len(ready') = Len(ready) + Cardinality(Open)
              /\ order \in [1..Cardinality(Open) -> Open]
              /\ \A k \in 1..Cardinality(Open) : ready'[Len(ready) + k].to = order[k]
          BY <4>1, <4>2, PublishAllReady
        <5>2. PICK k \in 1..Cardinality(Open) : i = Len(ready) + k
          <6>1. i - Len(ready) \in 1..Cardinality(Open) /\ i = Len(ready) + (i - Len(ready))
            BY <5>1, ReadyType
          <6> QED
            BY <6>1
        <5>3. ready'[i].to = order[k]
          BY <5>1, <5>2
        <5> QED
          BY <5>1, <5>3
      <4> QED
        BY <1>D, <4>3, ReadyType DEF QuietInv, Open
    <3> QED
      BY <3>1, <3>2
  <2> QED
    BY <2>1, <2>2 DEF QuietInv, Open
<1>6. CASE Put
  <2>1. UNCHANGED <<publishing, client, hand, received>>
    BY <1>6 DEF Put
  <2>2. \A c \in Clients : c \notin Open => dropped'[c] = {}
    BY <1>6 DEF Put, QuietInv, TypeInv, ShapeInv
  <2>3. \A i \in DOMAIN ready' : i + 1 \in DOMAIN ready /\ ready'[i] = ready[i + 1]
    BY <1>D, <1>6, PutReady, ReadyType
  <2>4. \A c \in Clients : client[c] = "new" => \A i \in DOMAIN ready' : ready'[i].to # c
    BY <2>3 DEF QuietInv
  <2> QED
    BY <2>1, <2>2, <2>4 DEF QuietInv, Open
<1>7. ASSUME NEW c \in Clients, Connect(c) PROVE QuietInv'
  <2>1. UNCHANGED <<ready, publishing, received, hand, dropped>> /\ Open' = Open \cup {c}
    BY <1>7, ConnectTypes DEF Connect
  <2>2. \A d \in Clients : client'[d] = IF d = c THEN "open" ELSE client[d]
    BY <1>7 DEF Connect, TypeInv, StreamTypeOK
  <2> QED
    BY <2>1, <2>2 DEF QuietInv
<1>8. ASSUME NEW c \in Clients, Take(c) PROVE QuietInv'
  BY <1>8 DEF Take, QuietInv, Open, TypeInv, ShapeInv
<1>9. ASSUME NEW c \in Clients, Sent(c) PROVE QuietInv'
  BY <1>9 DEF Sent, QuietInv, Open, TypeInv, ShapeInv
<1>10. ASSUME NEW c \in Clients, Disconnect(c) PROVE QuietInv'
  <2>1. UNCHANGED <<ready, publishing>> /\ Open' = Open \ {c}
    BY <1>10, DisconnectTypes DEF Disconnect
  <2>2. \A d \in Clients : d # c => /\ client'[d] = client[d] /\ received'[d] = received[d]
                                    /\ hand'[d] = hand[d] /\ dropped'[d] = dropped[d]
    BY <1>10 DEF Disconnect, TypeInv, StreamTypeOK, ShapeInv
  <2>3. client'[c] = "closed" /\ received'[c] = <<>> /\ hand'[c] = None /\ dropped'[c] = {}
    BY <1>10 DEF Disconnect, TypeInv, StreamTypeOK, ShapeInv
  <2> QED
    BY <2>1, <2>2, <2>3 DEF QuietInv
<1>11. CASE UNCHANGED streamVars
  BY <1>11 DEF streamVars, QuietInv, Open
<1> QED
  BY <1>1, <1>2, <1>3, <1>4, <1>5, <1>6, <1>7, <1>8, <1>9, <1>10, <1>11 DEF StreamNext, InThread, Socket

LEMMA HeadFirst ==
    ASSUME NEW S, NEW s \in Seq(S), s # <<>>
    PROVE  <<Head(s)>> \o Tail(s) = s
<1>1. /\ Head(s) \in S /\ Tail(s) \in Seq(S)
      /\ Len(Tail(s)) = Len(s) - 1
      /\ \A i \in 1..Len(Tail(s)) : Tail(s)[i] = s[i + 1]
  BY HeadTailProperties
<1>2. <<Head(s)>> \in Seq(S) /\ Len(<<Head(s)>>) = 1 /\ <<Head(s)>>[1] = Head(s)
  BY <1>1
<1>3. Len(s) \in Nat \ {0} /\ Head(s) = s[1]
  BY LenProperties, EmptySeq
<1> DEFINE u == <<Head(s)>> \o Tail(s)
<1>4. /\ u \in Seq(S)
      /\ Len(u) = 1 + Len(Tail(s))
      /\ \A i \in 1..(1 + Len(Tail(s))) : u[i] = IF i <= 1 THEN <<Head(s)>>[i] ELSE Tail(s)[i - 1]
  BY <1>1, <1>2, ConcatProperties
<1> HIDE DEF u
<1>5. Len(u) = Len(s)
  BY <1>1, <1>3, <1>4
<1>6. ASSUME NEW i \in 1..Len(u) PROVE u[i] = s[i]
  <2>1. CASE i = 1
    BY <1>1, <1>2, <1>3, <1>4, <2>1
  <2>2. CASE i # 1
    <3>1. i - 1 \in 1..Len(Tail(s)) /\ (i - 1) + 1 = i /\ ~(i <= 1) /\ i \in 1..(1 + Len(Tail(s)))
      BY <1>1, <1>3, <1>5, <2>2
    <3> QED
      BY <1>1, <1>4, <3>1
  <2> QED
    BY <2>1, <2>2
<1>7. u = s
  BY <1>4, <1>5, <1>6, SeqEqual
<1> QED
  BY <1>7 DEF u

LEMMA Associate ==
    ASSUME NEW S
    PROVE  \A s, t, u \in Seq(S) : (s \o t) \o u = s \o (t \o u)
BY ConcatAssociative

LEMMA ItemsAssociate == \A s, t, u \in Seq(Items) : (s \o t) \o u = s \o (t \o u)
<1>1. PICK S : S = Items
  OBVIOUS
<1>2. \A s, t, u \in Seq(S) : (s \o t) \o u = s \o (t \o u)
  BY Associate
<1> QED
  BY <1>1, <1>2

-----------------------------------------------------------------------------
(* What the steps do to what a client got.                                 *)

InHand(c) == IF hand[c] = None THEN <<>> ELSE <<hand[c]>>

LEMMA GotType ==
    ASSUME TypeInv, NEW c \in Clients
    PROVE  /\ received[c] \in Seq(Items) /\ InHand(c) \in Seq(Items) /\ queue[c] \in Seq(Items)
           /\ received[c] \o InHand(c) \in Seq(Items)
           /\ Got(c) = (received[c] \o InHand(c)) \o queue[c]
           /\ Got(c) \in Seq(Items)
           /\ Len(Got(c)) \in Nat
           /\ \A i \in 1..Len(Got(c)) : Got(c)[i] \in Items
<1>1. received[c] \in Seq(Items) /\ queue[c] \in Seq(Items)
  BY DEF TypeInv, ShapeInv
<1>2. hand[c] \in Items \cup {None}
  BY DEF TypeInv, ShapeInv
<1>3. InHand(c) \in Seq(Items)
  <2>1. CASE hand[c] = None
    BY <2>1, EmptySeq DEF InHand
  <2>2. CASE hand[c] # None
    BY <1>2, <2>2 DEF InHand
  <2> QED
    BY <2>1, <2>2
<1>4. received[c] \o InHand(c) \in Seq(Items)
  BY <1>1, <1>3, ConcatProperties
<1>5. Got(c) = (received[c] \o InHand(c)) \o queue[c]
  BY DEF Got, InHand
<1>6. Got(c) \in Seq(Items)
  BY <1>1, <1>4, <1>5, ConcatProperties
<1>7. Len(Got(c)) \in Nat /\ \A i \in 1..Len(Got(c)) : Got(c)[i] \in Items
  BY <1>6, LenProperties, ElementOfSeq
<1> QED
  BY <1>1, <1>3, <1>4, <1>5, <1>6, <1>7

LEMMA GotSame ==
    ASSUME NEW c, received'[c] = received[c], hand'[c] = hand[c], queue'[c] = queue[c]
    PROVE  Got(c)' = Got(c)
BY DEF Got

\* What a coroutine takes out of its queue moves to its hand.
LEMMA TakeGot ==
    ASSUME TypeInv, NEW c \in Clients, NEW d \in Clients, Take(c)
    PROVE  Got(d)' = Got(d)
<1>1. CASE d # c
  BY <1>1, GotSame DEF Take, TypeInv, ShapeInv
<1>2. CASE d = c
  <2>1. hand[c] = None /\ queue[c] # <<>> /\ received' = received
    BY DEF Take
  <2>2. hand'[c] = Head(queue[c]) /\ queue'[c] = Tail(queue[c])
    BY DEF Take, TypeInv, ShapeInv
  <2>3. queue[c] \in Seq(Items) /\ received[c] \in Seq(Items)
    BY GotType
  <2>4. Head(queue[c]) \in Items /\ Tail(queue[c]) \in Seq(Items)
    BY <2>1, <2>3, HeadTailProperties
  <2>5. Head(queue[c]) # None
    BY <2>4, NoneIsNothing
  <2>6. Got(c)' = (received[c] \o <<Head(queue[c])>>) \o Tail(queue[c])
    BY <2>1, <2>2, <2>5 DEF Got
  <2>7. Got(c) = (received[c] \o <<>>) \o queue[c]
    BY <2>1 DEF Got
  <2>8. <<Head(queue[c])>> \in Seq(Items)
    BY <2>4
  <2>9. Got(c)' = received[c] \o (<<Head(queue[c])>> \o Tail(queue[c]))
    <3>1. (received[c] \o <<Head(queue[c])>>) \o Tail(queue[c]) = received[c] \o (<<Head(queue[c])>> \o Tail(queue[c]))
      BY <2>3, <2>4, <2>8, ItemsAssociate
    <3> QED
      BY <2>6, <3>1
  <2>10. <<Head(queue[c])>> \o Tail(queue[c]) = queue[c]
    BY <2>1, <2>3, HeadFirst
  <2>11. received[c] \o <<>> = received[c]
    BY <2>3, ConcatEmptySeq
  <2> QED
    BY <1>2, <2>7, <2>9, <2>10, <2>11
<1> QED
  BY <1>1, <1>2

LEMMA SentGot ==
    ASSUME TypeInv, NEW c \in Clients, NEW d \in Clients, Sent(c)
    PROVE  Got(d)' = Got(d)
<1>1. CASE d # c
  BY <1>1, GotSame DEF Sent, TypeInv, ShapeInv
<1>2. CASE d = c
  <2>1. hand[c] # None /\ queue' = queue
    BY DEF Sent
  <2>2. hand'[c] = None /\ received'[c] = Append(received[c], hand[c])
    BY DEF Sent, TypeInv, ShapeInv
  <2>3. queue[c] \in Seq(Items) /\ received[c] \in Seq(Items) /\ hand[c] \in Items
    BY <2>1, GotType DEF TypeInv, ShapeInv
  <2>4. Append(received[c], hand[c]) = received[c] \o <<hand[c]>>
    BY <2>3, AppendIsConcat
  <2>5. Append(received[c], hand[c]) \in Seq(Items)
    BY <2>3, AppendProperties
  <2>6. Append(received[c], hand[c]) \o <<>> = Append(received[c], hand[c])
    BY <2>5, ConcatEmptySeq
  <2>7. Got(c)' = (Append(received[c], hand[c]) \o <<>>) \o queue[c]
    BY <2>1, <2>2 DEF Got
  <2>8. Got(c) = (received[c] \o <<hand[c]>>) \o queue[c]
    BY <2>1 DEF Got
  <2> QED
    BY <1>2, <2>4, <2>6, <2>7, <2>8
<1> QED
  BY <1>1, <1>2

\* Accepted: the queue of c is open and has room.
Accepted(c) == c \in Open /\ Len(queue[c]) < QueueSize

\* An item put into a queue is the last that the client got; other clients, and
\* a full queue, keep what they have.
LEMMA PutGot ==
    ASSUME TypeInv, Put, NEW d \in Clients
    PROVE  /\ ready[1].to = d /\ Accepted(d) => Got(d)' = Append(Got(d), ready[1].item)
           /\ ~(ready[1].to = d /\ Accepted(d)) => Got(d)' = Got(d)
           /\ dropped'[d] = IF ready[1].to = d /\ d \in Open /\ ~Accepted(d)
                            THEN dropped[d] \cup {ready[1].item} ELSE dropped[d]
<1>1. Head(ready) = ready[1] /\ ready[1].to \in Clients /\ ready[1].item \in Items
  BY PutReady
<1>2. PICK c, item : c = ready[1].to /\ item = ready[1].item
  OBVIOUS
<1>3. c \in Clients /\ item \in Items /\ received' = received /\ hand' = hand
  BY <1>1, <1>2 DEF Put
<1>4. /\ Accepted(c) => queue' = [queue EXCEPT ![c] = Append(@, item)] /\ dropped' = dropped
      /\ c \in Open /\ ~Accepted(c) => queue' = queue /\ dropped' = [dropped EXCEPT ![c] = @ \cup {item}]
      /\ c \notin Open => queue' = queue /\ dropped' = dropped
  <2>1. Len(queue[c]) \in Nat
    BY <1>3, GotType, LenProperties
  <2> QED
    BY <1>1, <1>2, <2>1 DEF Put, Accepted
<1>5. ASSUME c = d, Accepted(d) PROVE Got(d)' = Append(Got(d), item)
  <2> DEFINE before == received[d] \o InHand(d)
  <2>1. queue'[d] = Append(queue[d], item)
    BY <1>3, <1>4, <1>5 DEF TypeInv, ShapeInv
  <2>2. /\ before \in Seq(Items) /\ queue[d] \in Seq(Items)
        /\ Got(d) = before \o queue[d] /\ Got(d) \in Seq(Items)
    BY GotType
  <2>3. Got(d)' = before \o Append(queue[d], item)
    BY <1>3, <2>1 DEF Got, InHand
  <2> HIDE DEF before
  <2>4. <<item>> \in Seq(Items)
    BY <1>3
  <2>5. Append(queue[d], item) = queue[d] \o <<item>>
    BY <1>3, <2>2, AppendIsConcat
  <2>6. before \o (queue[d] \o <<item>>) = (before \o queue[d]) \o <<item>>
    BY <2>2, <2>4, ItemsAssociate
  <2>7. Append(Got(d), item) = Got(d) \o <<item>>
    BY <1>3, <2>2, AppendIsConcat
  <2> QED
    BY <2>2, <2>3, <2>5, <2>6, <2>7
<1>6. ASSUME ~(c = d /\ Accepted(d)) PROVE Got(d)' = Got(d)
  <2>1. queue'[d] = queue[d]
    BY <1>3, <1>4, <1>6 DEF TypeInv, ShapeInv
  <2> QED
    BY <1>3, <2>1, GotSame
<1>7. dropped'[d] = IF c = d /\ d \in Open /\ ~Accepted(d) THEN dropped[d] \cup {item} ELSE dropped[d]
  <2>1. dropped \in [Clients -> SUBSET Items]
    BY DEF TypeInv, ShapeInv
  <2>2. CASE c \in Open /\ ~Accepted(c)
    BY <1>3, <1>4, <2>1, <2>2
  <2>3. CASE ~(c \in Open /\ ~Accepted(c))
    BY <1>4, <2>3
  <2> QED
    BY <2>2, <2>3
<1> QED
  BY <1>2, <1>5, <1>6, <1>7

-----------------------------------------------------------------------------
(* What the steps do to the line of a client.                              *)

LEMMA LineType ==
    ASSUME TypeInv, NEW c \in Clients
    PROVE  /\ Len(Got(c)) \in Nat
           /\ ComingAt(c) \subseteq 1..Len(ready)
           /\ \A i \in 1..Len(Got(c)) : Got(c)[i] \in Arrived(c)
           /\ \A k \in ComingAt(c) : ready[k].item \in Coming(c)
           /\ Arrived(c) \in SUBSET Items /\ Coming(c) \in SUBSET Items
           /\ Seen(c) \in SUBSET Items
<1>1. Len(Got(c)) \in Nat /\ Arrived(c) \in SUBSET Items
  BY GotType DEF Arrived
<1>2. ComingAt(c) \subseteq 1..Len(ready) /\ Coming(c) \in SUBSET Items
  BY ReadyType DEF ComingAt, Coming
<1>3. dropped[c] \in SUBSET Items
  BY DEF TypeInv, ShapeInv
<1> QED
  BY <1>1, <1>2, <1>3 DEF Arrived, Coming, Seen

\* What was seen are recorded alerts, with the numbers that they got.
LEMMA SeenRecorded ==
    ASSUME TypeInv, NEW c \in Open, SeenAt(c), NEW x \in Seen(c)
    PROVE  x[1] \in Recorded /\ number[x[1]] \in Nat /\ Genuine(x) /\ x \in Items
<1>1. x[1] \in Recorded /\ Genuine(x)
  BY DEF SeenAt, Genuine
<1> QED
  BY <1>1, LineType DEF TypeInv, StreamTypeOK, Open

\* No alert comes before itself.
LEMMA NotEarlier ==
    ASSUME TypeInv, NEW x, x[1] \in Recorded
    PROVE  ~Earlier(x, x)
<1>1. Cardinality(Recorded) \in Nat
  BY FS_CardinalityType DEF TypeInv, ShapeInv
<1>2. number[x[1]] \in Int /\ place[x[1]] \in Int
  BY <1>1 DEF TypeInv, StreamTypeOK
<1> QED
  BY <1>2 DEF Earlier, Sooner

\* The same line, under numbers and places that only new alerts get.
LEMMA LineStays ==
    ASSUME TypeInv, NEW c \in Open, SeenAt(c), Ordered(c), Got(c)' = Got(c),
           ComingAt(c)' = ComingAt(c), \A k \in ComingAt(c) : ready'[k] = ready[k],
           \A b \in Recorded : number'[b] = number[b] /\ place'[b] = place[b]
    PROVE  /\ Arrived(c)' = Arrived(c) /\ Coming(c)' = Coming(c)
           /\ Ordered(c)'
<1>1. c \in Clients
  BY DEF Open
<1>2. Arrived(c)' = Arrived(c) /\ Coming(c)' = Coming(c)
  BY DEF Arrived, Coming
<1>3. \A x, y \in Arrived(c) \cup Coming(c) : Earlier(x, y) => Earlier(x, y)'
  BY SeenRecorded DEF Earlier, Sooner, Seen
<1>4. \A i, j \in 1..Len(Got(c)) : i < j => Earlier(Got(c)[i], Got(c)[j])'
  BY <1>1, <1>3, LineType DEF Ordered
<1>5. \A i \in 1..Len(Got(c)), k \in ComingAt(c) : Earlier(Got(c)[i], ready[k].item)'
  BY <1>1, <1>3, LineType DEF Ordered
<1>6. \A k, l \in ComingAt(c) : k < l => Earlier(ready[k].item, ready[l].item)'
  BY <1>1, <1>3, LineType DEF Ordered
<1> QED
  BY <1>2, <1>4, <1>5, <1>6 DEF Ordered

\* A call is scheduled behind the others.
LEMMA LineGrows ==
    ASSUME TypeInv, NEW c \in Open, SeenAt(c), Ordered(c), Got(c)' = Got(c), number' = number, place' = place,
           NEW at \in Nat, at > Len(ready), NEW item \in Items,
           ComingAt(c)' = ComingAt(c) \cup {at},
           \A k \in ComingAt(c) : ready'[k] = ready[k],
           ready'[at].item = item,
           \A x \in Seen(c) : Earlier(x, item)
    PROVE  /\ Arrived(c)' = Arrived(c) /\ Coming(c)' = Coming(c) \cup {item}
           /\ Ordered(c)'
<1>1. c \in Clients
  BY DEF Open
<1>2. Arrived(c)' = Arrived(c) /\ Coming(c)' = Coming(c) \cup {item}
  BY DEF Arrived, Coming
<1>3. \A k \in ComingAt(c)' : k = at \/ (k \in ComingAt(c) /\ k < at /\ ready'[k] = ready[k])
  BY <1>1, LineType, ReadyType
<1>4. \A i \in 1..Len(Got(c)) : Got(c)[i] \in Seen(c)
  BY <1>1, LineType DEF Seen
<1>5. \A k \in ComingAt(c) : ready[k].item \in Seen(c)
  BY <1>1, LineType DEF Seen
<1>6. ASSUME NEW i \in 1..Len(Got(c)), NEW j \in 1..Len(Got(c)), i < j
      PROVE  Earlier(Got(c)[i], Got(c)[j])'
  BY <1>6 DEF Ordered, Earlier, Sooner
<1>7. ASSUME NEW i \in 1..Len(Got(c)), NEW k \in ComingAt(c)'
      PROVE  Earlier(Got(c)[i], ready[k].item)'
  <2>1. CASE k = at
    BY <1>4, <2>1 DEF Earlier, Sooner
  <2>2. CASE k # at
    BY <1>3, <1>7, <2>2 DEF Ordered, Earlier, Sooner
  <2> QED
    BY <2>1, <2>2
<1>8. ASSUME NEW k \in ComingAt(c)', NEW l \in ComingAt(c)', k < l
      PROVE  Earlier(ready[k].item, ready[l].item)'
  <2>1. k # at
    BY <1>3, <1>8, <1>1, LineType, ReadyType
  <2>2. CASE l = at
    BY <1>3, <1>5, <1>8, <2>1, <2>2 DEF Earlier, Sooner
  <2>3. CASE l # at
    BY <1>3, <1>8, <2>1, <2>3 DEF Ordered, Earlier, Sooner
  <2> QED
    BY <2>2, <2>3
<1> QED
  BY <1>2, <1>6, <1>7, <1>8 DEF Ordered

\* The calls behind the first move up by one.
LEMMA CallsShift ==
    ASSUME TypeInv, NEW c \in Clients, Put
    PROVE  /\ \A k \in ComingAt(c)' : k \in Nat \ {0} /\ k + 1 \in ComingAt(c) /\ ready'[k] = ready[k + 1]
           /\ \A x \in Coming(c)' : \E k \in ComingAt(c) : k > 1 /\ x = ready[k].item
           /\ ready[1].to # c => Coming(c)' = Coming(c)
           /\ ready[1].to = c => /\ 1 \in ComingAt(c) /\ ready[1].item \in Coming(c)
                                 /\ Coming(c) = Coming(c)' \cup {ready[1].item}
<1>1. /\ Len(ready) > 0 /\ Len(ready) \in Nat /\ Len(ready') = Len(ready) - 1
      /\ \A k \in 1..Len(ready') : ready'[k] = ready[k + 1]
  BY PutReady, ReadyType
<1>2. \A k \in ComingAt(c)' : k \in Nat \ {0} /\ k + 1 \in ComingAt(c) /\ ready'[k] = ready[k + 1] /\ k + 1 > 1
  BY <1>1 DEF ComingAt
<1>3. \A k \in ComingAt(c) : k # 1 => k - 1 \in ComingAt(c)' /\ ready'[k - 1] = ready[k]
  <2> SUFFICES ASSUME NEW k \in ComingAt(c), k # 1
               PROVE  k - 1 \in ComingAt(c)' /\ ready'[k - 1] = ready[k]
    OBVIOUS
  <2>1. k \in 1..Len(ready) /\ ready[k].to = c
    BY DEF ComingAt
  <2>2. k - 1 \in 1..Len(ready') /\ (k - 1) + 1 = k
    BY <1>1, <2>1
  <2>3. ready'[k - 1] = ready[k]
    BY <1>1, <2>2
  <2> QED
    BY <2>1, <2>2, <2>3 DEF ComingAt
<1>4. 1 \in ComingAt(c) <=> ready[1].to = c
  BY <1>1 DEF ComingAt
<1>5. \A x \in Coming(c)' : \E k \in ComingAt(c) : k > 1 /\ x = ready[k].item
  BY <1>2 DEF Coming
<1>6. \A k \in ComingAt(c) : k # 1 => ready[k].item \in Coming(c)'
  <2> SUFFICES ASSUME NEW k \in ComingAt(c), k # 1 PROVE ready[k].item \in Coming(c)'
    OBVIOUS
  <2>1. PICK j \in ComingAt(c)' : ready'[j] = ready[k]
    BY <1>3
  <2> QED
    BY <2>1 DEF Coming
<1>7. Coming(c) = Coming(c)' \cup (IF ready[1].to = c THEN {ready[1].item} ELSE {})
  BY <1>4, <1>5, <1>6 DEF Coming
<1> QED
  BY <1>2, <1>4, <1>5, <1>7 DEF Coming

\* The loop runs the first call, and what the client got stays: the call was for
\* another, or its item is lost.
LEMMA LineShifts ==
    ASSUME TypeInv, NEW c \in Open, SeenAt(c), Ordered(c), Put, Got(c)' = Got(c)
    PROVE  /\ Arrived(c)' = Arrived(c)
           /\ ready[1].to # c => Coming(c)' = Coming(c)
           /\ ready[1].to = c => /\ ready[1].item \in Coming(c)
                                 /\ Coming(c) = Coming(c)' \cup {ready[1].item}
                                 /\ ready[1].item \notin Arrived(c)' \cup Coming(c)'
           /\ Ordered(c)'
<1>1. c \in Clients /\ number' = number /\ place' = place
  BY DEF Open, Put
<1>2. /\ \A k \in ComingAt(c)' : k \in Nat \ {0} /\ k + 1 \in ComingAt(c) /\ ready'[k] = ready[k + 1]
      /\ \A x \in Coming(c)' : \E k \in ComingAt(c) : k > 1 /\ x = ready[k].item
      /\ ready[1].to # c => Coming(c)' = Coming(c)
      /\ ready[1].to = c => /\ 1 \in ComingAt(c) /\ ready[1].item \in Coming(c)
                            /\ Coming(c) = Coming(c)' \cup {ready[1].item}
  BY <1>1, CallsShift
<1>3. Arrived(c)' = Arrived(c)
  BY DEF Arrived
<1>4. ASSUME ready[1].to = c PROVE ready[1].item \notin Arrived(c)' \cup Coming(c)'
  <2>1. 1 \in ComingAt(c) /\ ready[1].item \in Coming(c)
    BY <1>2, <1>4
  <2>2. ~Earlier(ready[1].item, ready[1].item)
    BY <2>1, SeenRecorded, NotEarlier DEF Seen
  <2>3. \A i \in 1..Len(Got(c)) : Earlier(Got(c)[i], ready[1].item)
    BY <2>1 DEF Ordered
  <2>4. \A k \in ComingAt(c) : k > 1 => Earlier(ready[1].item, ready[k].item)
    BY <2>1 DEF Ordered
  <2>5. ready[1].item \notin Arrived(c)
    BY <2>2, <2>3 DEF Arrived
  <2>6. ready[1].item \notin Coming(c)'
    BY <1>2, <2>2, <2>4
  <2> QED
    BY <1>3, <2>5, <2>6
<1>5. ASSUME NEW i \in 1..Len(Got(c)), NEW j \in 1..Len(Got(c)), i < j
      PROVE  Earlier(Got(c)[i], Got(c)[j])'
  BY <1>1, <1>5 DEF Ordered, Earlier, Sooner
<1>6. ASSUME NEW i \in 1..Len(Got(c)), NEW k \in ComingAt(c)'
      PROVE  Earlier(Got(c)[i], ready[k].item)'
  <2>1. k + 1 \in ComingAt(c) /\ ready'[k] = ready[k + 1]
    BY <1>2, <1>6
  <2>2. Earlier(Got(c)[i], ready[k + 1].item)
    BY <2>1 DEF Ordered
  <2> QED
    BY <1>1, <2>1, <2>2 DEF Earlier, Sooner
<1>7. ASSUME NEW k \in ComingAt(c)', NEW l \in ComingAt(c)', k < l
      PROVE  Earlier(ready[k].item, ready[l].item)'
  <2>1. /\ k + 1 \in ComingAt(c) /\ ready'[k] = ready[k + 1]
        /\ l + 1 \in ComingAt(c) /\ ready'[l] = ready[l + 1]
        /\ k + 1 < l + 1
    BY <1>2, <1>7
  <2>2. Earlier(ready[k + 1].item, ready[l + 1].item)
    BY <2>1 DEF Ordered
  <2> QED
    BY <1>1, <2>1, <2>2 DEF Earlier, Sooner
<1>8. Ordered(c)'
  BY <1>5, <1>6, <1>7 DEF Ordered
<1> QED
  BY <1>2, <1>3, <1>4, <1>8

\* The loop puts the first item into the queue: what came becomes what arrived.
LEMMA LineMoves ==
    ASSUME TypeInv, NEW c \in Open, Ordered(c), Put, ready[1].to = c,
           Got(c)' = Append(Got(c), ready[1].item)
    PROVE  /\ Arrived(c)' \cup Coming(c)' = Arrived(c) \cup Coming(c)
           /\ Ordered(c)'
<1>1. c \in Clients /\ number' = number /\ place' = place
  BY DEF Open, Put
<1>2. PICK n, item, got : n = Len(Got(c)) /\ item = ready[1].item /\ got = Got(c)
  OBVIOUS
<1>3. item \in Items
  BY <1>2, PutReady
<1>4. /\ \A k \in ComingAt(c)' : k \in Nat \ {0} /\ k + 1 \in ComingAt(c) /\ ready'[k] = ready[k + 1]
      /\ 1 \in ComingAt(c)
      /\ Coming(c) = Coming(c)' \cup {item}
  BY <1>1, <1>2, CallsShift
<1>5. n \in Nat /\ got \in Seq(Items) /\ n = Len(got)
  BY <1>1, <1>2, GotType
<1>6. /\ Len(Append(got, item)) = n + 1
      /\ \A i \in 1..n : Append(got, item)[i] = got[i]
      /\ Append(got, item)[n + 1] = item
  BY <1>3, <1>5, AppendProperties
<1>7. Got(c)' = Append(got, item)
  BY <1>2
<1>8. \A i \in 1..(n + 1) : i \in 1..n \/ i = n + 1
  BY <1>5
<1>9. n + 1 \in 1..(n + 1) /\ \A i \in 1..n : i \in 1..(n + 1)
  BY <1>5
<1>10. Arrived(c)' = Arrived(c) \cup {item}
  <2>1. Arrived(c)' = {Append(got, item)[i] : i \in 1..(n + 1)}
    BY <1>6, <1>7 DEF Arrived
  <2>2. Arrived(c) = {got[i] : i \in 1..n}
    BY <1>2 DEF Arrived
  <2> QED
    BY <1>6, <1>8, <1>9, <2>1, <2>2
<1>11. /\ \A i, j \in 1..n : i < j => Earlier(got[i], got[j])
       /\ \A i \in 1..n, k \in ComingAt(c) : Earlier(got[i], ready[k].item)
       /\ \A k, l \in ComingAt(c) : k < l => Earlier(ready[k].item, ready[l].item)
  BY <1>2 DEF Ordered
<1>12. ASSUME NEW i \in 1..(n + 1), NEW j \in 1..(n + 1), i < j
       PROVE  Earlier(Append(got, item)[i], Append(got, item)[j])
  <2>1. i \in 1..n
    BY <1>5, <1>12
  <2> QED
    BY <1>2, <1>4, <1>6, <1>8, <1>11, <1>12, <2>1
<1>13. ASSUME NEW i \in 1..(n + 1), NEW k \in ComingAt(c)'
       PROVE  Earlier(Append(got, item)[i], ready'[k].item)
  <2>1. k + 1 \in ComingAt(c) /\ ready'[k] = ready[k + 1] /\ 1 < k + 1
    BY <1>4, <1>13
  <2> QED
    BY <1>2, <1>4, <1>6, <1>8, <1>11, <2>1
<1>14. ASSUME NEW k \in ComingAt(c)', NEW l \in ComingAt(c)', k < l
       PROVE  Earlier(ready'[k].item, ready'[l].item)
  <2>1. /\ k + 1 \in ComingAt(c) /\ ready'[k] = ready[k + 1]
        /\ l + 1 \in ComingAt(c) /\ ready'[l] = ready[l + 1]
        /\ k + 1 < l + 1
    BY <1>4, <1>14
  <2> QED
    BY <1>11, <2>1
<1>15. Ordered(c)'
  BY <1>1, <1>6, <1>7, <1>12, <1>13, <1>14 DEF Ordered, Earlier, Sooner
<1> QED
  BY <1>4, <1>10, <1>15

-----------------------------------------------------------------------------
(* What the steps do to what a thread holds.                               *)

LEMMA StoreHereHeld ==
    ASSUME TypeInv, NEW t \in Publishers, NEW a \in AlertIds, StoreHere(t, a), NEW c
    PROVE  Held(c)' = Held(c)
<1>1. /\ \A u \in Publishers \ {t} : publishing'[u] = publishing[u]
      /\ publishing[t] = None
      /\ publishing'[t].left = {}
  BY StoreHereLeft
<1>2. \A u \in Publishers : (publishing'[u] # None /\ c \in publishing'[u].left) <=>
                            (publishing[u] # None /\ c \in publishing[u].left)
  BY <1>1
<1>3. \A u \in Publishers : publishing[u] # None => publishing'[u] = publishing[u]
  BY <1>1
<1> QED
  BY <1>2, <1>3 DEF Held

LEMMA SnapshotHeld ==
    ASSUME TypeInv, NEW t \in Publishers, Snapshot(t), NEW c \in Open
    PROVE  Held(c)' = Held(c) \cup {<<publishing[t].alert, t>>}
<1>1. PICK S : S = Open
  OBVIOUS
<1>2. /\ S \in SUBSET Clients /\ publishing[t] # None
      /\ publishing' = [publishing EXCEPT ![t] = Publishing(t, S)]
  BY <1>1 DEF Snapshot, Open
<1>3. /\ \A u \in Publishers \ {t} : publishing'[u] = publishing[u]
      /\ publishing'[t] # None <=> S # {}
      /\ publishing'[t] # None => /\ publishing'[t].alert = publishing[t].alert
                                 /\ publishing'[t].left = S
  BY <1>2, LeftAfter
<1>4. publishing'[t] # None /\ publishing'[t].alert = publishing[t].alert /\ c \in publishing'[t].left
  BY <1>1, <1>3
<1>5. \A x : x \in Held(c)' <=> (x \in Held(c) \/ x = <<publishing[t].alert, t>>)
  <2> SUFFICES ASSUME NEW x
               PROVE  x \in Held(c)' <=> (x \in Held(c) \/ x = <<publishing[t].alert, t>>)
    OBVIOUS
  <2>1. x \in Held(c)' <=>
            \E u \in Publishers : /\ publishing'[u] # None /\ c \in publishing'[u].left
                                  /\ x = <<publishing'[u].alert, u>>
    BY DEF Held
  <2>2. x \in Held(c) <=>
            \E u \in Publishers : /\ publishing[u] # None /\ c \in publishing[u].left
                                  /\ x = <<publishing[u].alert, u>>
    BY DEF Held
  <2> QED
    BY <1>2, <1>3, <1>4, <2>1, <2>2
<1> QED
  BY <1>5

LEMMA ScheduleHeld ==
    ASSUME TypeInv, NEW t \in Publishers, NEW c \in Clients, Schedule(t, c), NEW d \in Clients
    PROVE  /\ d # c => Held(d)' = Held(d)
           /\ d = c => Held(d)' \cup {<<publishing[t].alert, t>>} = Held(d)
<1>1. PICK S : S = publishing[t].left \ {c}
  OBVIOUS
<1>2. publishing[t] # None /\ c \in publishing[t].left
  BY DEF Schedule
<1>3. S \in SUBSET Clients
  BY <1>1, <1>2, PublishingType DEF Broadcasts
<1>4. publishing' = [publishing EXCEPT ![t] = Publishing(t, S)]
  BY <1>1 DEF Schedule, TypeInv, ShapeInv
<1>5. /\ \A u \in Publishers \ {t} : publishing'[u] = publishing[u]
      /\ publishing'[t] # None <=> S # {}
      /\ publishing'[t] # None => /\ publishing'[t].alert = publishing[t].alert
                                 /\ publishing'[t].left = S
  BY <1>2, <1>3, <1>4, LeftAfter
<1>6. \A e \in Clients, u \in Publishers :
          (publishing'[u] # None /\ e \in publishing'[u].left) <=>
          (publishing[u] # None /\ e \in publishing[u].left /\ ~(u = t /\ e = c))
  BY <1>1, <1>2, <1>5
<1>7. \A u \in Publishers : publishing'[u] # None => publishing'[u].alert = publishing[u].alert
  BY <1>5
<1>8. \A x : x \in Held(d)' <=>
             \E u \in Publishers : /\ publishing[u] # None /\ d \in publishing[u].left /\ ~(u = t /\ d = c)
                                   /\ x = <<publishing[u].alert, u>>
  <2>1. \A x : x \in Held(d)' <=>
            \E u \in Publishers : /\ publishing'[u] # None /\ d \in publishing'[u].left
                                  /\ x = <<publishing'[u].alert, u>>
    BY DEF Held
  <2> QED
    BY <1>6, <1>7, <2>1
<1>9. \A x : x \in Held(d) <=>
             \E u \in Publishers : /\ publishing[u] # None /\ d \in publishing[u].left
                                   /\ x = <<publishing[u].alert, u>>
  BY DEF Held
<1> QED
  BY <1>2, <1>8, <1>9

-----------------------------------------------------------------------------
(* A thread publishes its own alert.                                       *)

\* A new place is behind the others, which stay.
LEMMA StoreKeeps ==
    ASSUME TypeInv, NEW a \in AlertIds, NEW by \in Publishers \cup {Elsewhere}, Store(a, by)
    PROVE  /\ Recorded' = Recorded \cup {a} /\ a \notin Recorded
           /\ \A b \in Recorded : number'[b] = number[b] /\ place'[b] = place[b] /\ origin'[b] = origin[b]
           /\ origin'[a] = by
           /\ \A b \in Recorded : place'[b] < place'[a]
<1>1. Recorded' = Recorded \cup {a} /\ a \notin Recorded
  BY DEF Store, Recorded
<1>2. \A b \in Recorded : origin'[b] = origin[b]
  BY <1>1 DEF Store
<1>3. origin'[a] = by
  BY DEF Store
<1>4. \A b \in Recorded : number'[b] = number[b]
  BY <1>1 DEF Store
<1>5. place'[a] = Cardinality(Recorded) + 1 /\ \A b \in Recorded : place'[b] = place[b]
  BY <1>1 DEF Store
<1>6. Cardinality(Recorded) \in Nat /\ \A b \in Recorded : place[b] \in 1..Cardinality(Recorded)
  BY FS_CardinalityType DEF TypeInv, ShapeInv, StreamTypeOK
<1>7. \A b \in Recorded : place'[b] < place'[a]
  BY <1>5, <1>6
<1> QED
  BY <1>1, <1>2, <1>3, <1>4, <1>5, <1>7

LEMMA PublishingStep == TypeInv /\ PublishingInv /\ [StreamNext]_streamVars => PublishingInv'
<1> SUFFICES ASSUME TypeInv, PublishingInv, [StreamNext]_streamVars PROVE PublishingInv'
  OBVIOUS
<1>1. ASSUME NEW t \in Publishers, NEW a \in AlertIds, StoreHere(t, a) PROVE PublishingInv'
  <2>1. Store(a, t)
    BY <1>1 DEF StoreHere
  <2>2. /\ Recorded' = Recorded \cup {a} /\ origin'[a] = t
        /\ \A b \in Recorded : origin'[b] = origin[b]
    BY <2>1, StoreKeeps
  <2>3. /\ \A u \in Publishers \ {t} : publishing'[u] = publishing[u]
        /\ publishing'[t].alert = a
    BY <1>1, StoreHereLeft
  <2> QED
    BY <2>2, <2>3 DEF PublishingInv
<1>2. ASSUME NEW a \in AlertIds, StoreElsewhere(a) PROVE PublishingInv'
  <2>1. Store(a, Elsewhere) /\ publishing' = publishing
    BY <1>2 DEF StoreElsewhere
  <2>2. /\ Recorded' = Recorded \cup {a}
        /\ \A b \in Recorded : origin'[b] = origin[b]
    BY <2>1, StoreKeeps
  <2> QED
    BY <2>1, <2>2 DEF PublishingInv
<1>3. ASSUME NEW t \in Publishers, NEW S \in SUBSET Clients, publishing[t] # None,
             publishing' = [publishing EXCEPT ![t] = Publishing(t, S)], UNCHANGED <<number, place, origin>>
      PROVE  PublishingInv'
  <2>1. /\ \A u \in Publishers \ {t} : publishing'[u] = publishing[u]
        /\ publishing'[t] # None => publishing'[t].alert = publishing[t].alert
    BY <1>3, LeftAfter
  <2> QED
    BY <1>3, <2>1 DEF PublishingInv, Recorded
<1>4. ASSUME NEW t \in Publishers, Snapshot(t) PROVE PublishingInv'
  <2>1. PICK S \in SUBSET Clients : S = Open
    BY DEF Open
  <2>2. /\ publishing[t] # None /\ UNCHANGED <<number, place, origin>>
        /\ publishing' = [publishing EXCEPT ![t] = Publishing(t, S)]
    BY <1>4, <2>1 DEF Snapshot
  <2> QED
    BY <1>3, <2>2
<1>5. ASSUME NEW t \in Publishers, NEW c \in Clients, Schedule(t, c) PROVE PublishingInv'
  <2>1. publishing[t] # None
    BY <1>5 DEF Schedule
  <2>2. PICK S \in SUBSET Clients : S = publishing[t].left \ {c}
    BY <2>1, PublishingType DEF Broadcasts
  <2>3. /\ UNCHANGED <<number, place, origin>>
        /\ publishing' = [publishing EXCEPT ![t] = Publishing(t, S)]
    BY <1>5, <2>2 DEF Schedule, TypeInv, ShapeInv
  <2> QED
    BY <1>3, <2>1, <2>3
<1>6. CASE UNCHANGED <<number, place, origin, publishing>>
  BY <1>6 DEF PublishingInv, Recorded
<1> QED
  BY <1>1, <1>2, <1>4, <1>5, <1>6
     DEF StreamNext, InThread, Watch, Put, Socket, Connect, Take, Sent, Disconnect, streamVars

-----------------------------------------------------------------------------
(* Every step keeps the account of every client.                           *)

LEMMA KnownType ==
    ASSUME TypeInv
    PROVE  known \in Int /\ \A b \in Recorded : number[b] \in Int
BY DEF TypeInv, StreamTypeOK

\* Steps that leave the line of a client and what the threads publish.
LEMMA ClientStays ==
    ASSUME TypeInv, StreamInv, NEW c \in Open, Got(c)' = Got(c), ready' = ready,
           dropped'[c] = dropped[c], published'[c] = published[c],
           publishing' = publishing, number' = number, place' = place, origin' = origin,
           known' \in Int, known' >= known
    PROVE  ClientInv(c)'
<1>1. SeenAt(c) /\ Ordered(c) /\ Accounted(c)
  BY DEF StreamInv, ClientInv
<1>2. ComingAt(c)' = ComingAt(c)
  BY DEF ComingAt
<1>3. Arrived(c)' = Arrived(c) /\ Coming(c)' = Coming(c) /\ Ordered(c)'
  BY <1>1, <1>2, LineStays
<1>4. Seen(c)' = Seen(c) /\ Held(c)' = Held(c)
  BY <1>3 DEF Seen, Held
<1>5. \A x \in Seen(c) : Genuine(x)'
  <2> SUFFICES ASSUME NEW x \in Seen(c) PROVE Genuine(x)'
    OBVIOUS
  <2>1. x[1] \in Recorded /\ Genuine(x)
    BY <1>1, SeenRecorded
  <2> QED
    BY <2>1, KnownType DEF Genuine, Recorded
<1>6. SeenAt(c)'
  BY <1>1, <1>4, <1>5 DEF SeenAt, Due, Earlier, Sooner
<1>7. Accounted(c)'
  BY <1>1, <1>3, <1>4 DEF Accounted
<1> QED
  BY <1>3, <1>6, <1>7 DEF ClientInv

\* Storing gives a number and a place; by is the thread that stored, which has nothing else
\* to publish, or another process.
LEMMA StoreClient ==
    ASSUME TypeInv, StreamInv, NEW a \in AlertIds, NEW by \in Publishers \cup {Elsewhere},
           Store(a, by), published' = published, NEW c \in Open, Held(c)' = Held(c),
           \A u \in Publishers : publishing'[u] = publishing[u] \/ (u = by /\ publishing'[u].alert = a)
    PROVE  ClientInv(c)'
<1>1. SeenAt(c) /\ Ordered(c) /\ Accounted(c)
  BY DEF StreamInv, ClientInv
<1>2. UNCHANGED <<known, ready, client, queue, hand, received, dropped>>
  BY DEF Store
<1>3. /\ Recorded' = Recorded \cup {a} /\ a \notin Recorded
      /\ \A b \in Recorded : number'[b] = number[b] /\ place'[b] = place[b] /\ origin'[b] = origin[b]
      /\ \A b \in Recorded : place'[b] < place'[a]
  BY StoreKeeps
<1>4. Got(c)' = Got(c) /\ ComingAt(c)' = ComingAt(c)
  BY <1>2 DEF Got, ComingAt
<1>5. Arrived(c)' = Arrived(c) /\ Coming(c)' = Coming(c) /\ Ordered(c)'
  BY <1>1, <1>2, <1>3, <1>4, LineStays
<1>6. Seen(c)' = Seen(c)
  BY <1>2, <1>5 DEF Seen
<1>7. ASSUME NEW x \in Seen(c) PROVE Genuine(x)'
  BY <1>1, <1>2, <1>3, SeenRecorded DEF Genuine
<1>8. ASSUME NEW x \in Seen(c), NEW u \in Publishers, Due(u, c)'
      PROVE  Earlier(x, <<publishing[u].alert, u>>)'
  <2>1. x[1] \in Recorded /\ Genuine(x)
    BY <1>1, SeenRecorded
  <2>2. CASE publishing'[u] = publishing[u]
    <3>1. Due(u, c)
      BY <1>8, <2>2 DEF Due
    <3>2. Earlier(x, <<publishing[u].alert, u>>)
      BY <1>1, <3>1 DEF SeenAt
    <3>3. publishing[u].alert \in Recorded
      BY <3>1 DEF Due, StreamInv, PublishingInv
    <3> QED
      BY <1>3, <2>1, <2>2, <3>2, <3>3 DEF Earlier, Sooner
  <2>3. CASE u = by /\ publishing'[u].alert = a
    BY <1>3, <2>1, <2>3 DEF Earlier, Sooner
  <2> QED
    BY <2>2, <2>3
<1>9. SeenAt(c)'
  BY <1>6, <1>7, <1>8 DEF SeenAt
<1>10. Accounted(c)'
  BY <1>1, <1>2, <1>5, <1>6 DEF Accounted
<1> QED
  BY <1>5, <1>9, <1>10 DEF ClientInv

LEMMA SnapshotClient ==
    ASSUME TypeInv, StreamInv, NEW t \in Publishers, Snapshot(t), NEW c \in Open
    PROVE  ClientInv(c)'
<1>1. SeenAt(c) /\ Ordered(c) /\ Accounted(c)
  BY DEF StreamInv, ClientInv
<1>2. UNCHANGED <<number, place, origin, known, ready, client, queue, hand, received, dropped>>
  BY DEF Snapshot
<1>3. Got(c)' = Got(c) /\ ComingAt(c)' = ComingAt(c)
  BY <1>2 DEF Got, ComingAt
<1>4. Arrived(c)' = Arrived(c) /\ Coming(c)' = Coming(c) /\ Ordered(c)'
  BY <1>1, <1>2, <1>3, LineStays
<1>5. Seen(c)' = Seen(c)
  BY <1>2, <1>4 DEF Seen
<1>6. Held(c)' = Held(c) \cup {<<publishing[t].alert, t>>}
  BY SnapshotHeld
<1>7. published'[c] = published[c] \cup {<<publishing[t].alert, t>>}
  BY DEF Snapshot, PublishedTo, Open
<1>8. \A u \in Publishers : Due(u, c)' => Due(u, c) /\ publishing'[u].alert = publishing[u].alert
  <2>1. PICK S \in SUBSET Clients : S = Open
    BY DEF Open
  <2>2. /\ publishing[t] # None /\ ~publishing[t].started
        /\ publishing' = [publishing EXCEPT ![t] = Publishing(t, S)]
    BY <2>1 DEF Snapshot
  <2>3. /\ \A u \in Publishers \ {t} : publishing'[u] = publishing[u]
        /\ publishing'[t] # None => publishing'[t].alert = publishing[t].alert
    BY <2>2, LeftAfter
  <2> QED
    BY <2>2, <2>3 DEF Due
<1>9. SeenAt(c)'
  <2>1. \A x \in Seen(c) : Genuine(x)'
    BY <1>1, <1>2 DEF SeenAt, Genuine, Recorded
  <2>2. ASSUME NEW x \in Seen(c), NEW u \in Publishers, Due(u, c)'
        PROVE  Earlier(x, <<publishing[u].alert, u>>)'
    <3>1. Earlier(x, <<publishing[u].alert, u>>) /\ publishing'[u].alert = publishing[u].alert
      BY <1>1, <1>8, <2>2 DEF SeenAt
    <3> QED
      BY <1>2, <3>1 DEF Earlier, Sooner
  <2> QED
    BY <1>5, <2>1, <2>2 DEF SeenAt
<1>10. Accounted(c)'
  BY <1>1, <1>2, <1>4, <1>5, <1>6, <1>7 DEF Accounted
<1> QED
  BY <1>4, <1>9, <1>10 DEF ClientInv

LEMMA ScheduleClient ==
    ASSUME TypeInv, StreamInv, NEW t \in Publishers, NEW d \in Clients, Schedule(t, d), NEW c \in Open
    PROVE  ClientInv(c)'
<1>1. SeenAt(c) /\ Ordered(c) /\ Accounted(c) /\ c \in Clients
  BY DEF StreamInv, ClientInv, Open
<1>2. UNCHANGED <<number, place, origin, known, client, queue, hand, received, dropped, published>>
  BY DEF Schedule
<1>3. PICK item \in Items : item = <<publishing[t].alert, t>>
  BY PublishingType DEF Schedule
<1>4. /\ Len(ready') = Len(ready) + 1
      /\ \A i \in 1..Len(ready) : ready'[i] = ready[i]
      /\ ready'[Len(ready) + 1].to = d
      /\ ready'[Len(ready) + 1].item = item
      /\ Len(ready) \in Nat
  BY <1>3, ScheduleReady, ReadyType
<1>5. Got(c)' = Got(c)
  BY <1>2 DEF Got
<1>6. \A k \in ComingAt(c) : ready'[k] = ready[k]
  BY <1>4 DEF ComingAt
<1>7. ComingAt(c)' = ComingAt(c) \cup (IF d = c THEN {Len(ready) + 1} ELSE {})
  <2>1. \A k \in 1..Len(ready') : k \in 1..Len(ready) \/ k = Len(ready) + 1
    BY <1>4
  <2>2. \A k \in 1..Len(ready) : k \in 1..Len(ready') /\ ready'[k] = ready[k] /\ k # Len(ready) + 1
    BY <1>4
  <2>3. Len(ready) + 1 \in 1..Len(ready')
    BY <1>4
  <2> QED
    BY <1>4, <2>1, <2>2, <2>3 DEF ComingAt
<1>8. publishing[t] # None /\ d \in publishing[t].left
  BY DEF Schedule
<1>9. /\ \A u \in Publishers \ {t} : publishing'[u] = publishing[u]
      /\ publishing'[t] # None => /\ publishing'[t].alert = publishing[t].alert
                                 /\ publishing'[t].started = TRUE
                                 /\ publishing'[t].left = publishing[t].left \ {d}
  <2>1. PICK S \in SUBSET Clients : S = publishing[t].left \ {d}
    BY <1>8, PublishingType DEF Broadcasts
  <2>2. publishing' = [publishing EXCEPT ![t] = Publishing(t, S)]
    BY <2>1 DEF Schedule, TypeInv, ShapeInv
  <2>3. /\ \A u \in Publishers \ {t} : publishing'[u] = publishing[u]
        /\ publishing'[t] # None => /\ publishing'[t].alert = publishing[t].alert
                                   /\ publishing'[t].started = TRUE
                                   /\ publishing'[t].left = S
    BY <1>8, <2>2, LeftAfter
  <2> QED
    BY <2>1, <2>3
<1>10. \A u \in Publishers : Due(u, c)' => /\ Due(u, c) /\ publishing'[u].alert = publishing[u].alert
                                          /\ ~(u = t /\ c = d)
  BY <1>8, <1>9 DEF Due
<1>11. ASSUME NEW x \in Seen(c), NEW u \in Publishers, Due(u, c)'
       PROVE  Earlier(x, <<publishing[u].alert, u>>)'
  <2>1. Earlier(x, <<publishing[u].alert, u>>) /\ publishing'[u].alert = publishing[u].alert
    BY <1>1, <1>10, <1>11 DEF SeenAt
  <2> QED
    BY <1>2, <2>1 DEF Earlier, Sooner
<1>12. \A x : Genuine(x) => Genuine(x)'
  BY <1>2 DEF Genuine, Recorded
<1>13. CASE c # d
  <2>1. Arrived(c)' = Arrived(c) /\ Coming(c)' = Coming(c) /\ Ordered(c)'
    BY <1>1, <1>2, <1>5, <1>6, <1>7, <1>13, LineStays
  <2>2. Seen(c)' = Seen(c)
    BY <1>2, <2>1 DEF Seen
  <2>3. Held(c)' = Held(c)
    BY <1>1, <1>13, ScheduleHeld
  <2>4. SeenAt(c)'
    BY <1>1, <1>11, <1>12, <2>2 DEF SeenAt
  <2>5. Accounted(c)'
    BY <1>1, <1>2, <2>1, <2>2, <2>3 DEF Accounted
  <2> QED
    BY <2>1, <2>4, <2>5 DEF ClientInv
<1>14. CASE c = d
  <2>1. Due(t, c)
    BY <1>8, <1>14 DEF Due
  <2>2. \A x \in Seen(c) : Earlier(x, item)
    BY <1>1, <1>3, <2>1 DEF SeenAt
  <2>3. Arrived(c)' = Arrived(c) /\ Coming(c)' = Coming(c) \cup {item} /\ Ordered(c)'
    <3>1. PICK at \in Nat : at = Len(ready) + 1
      BY <1>4
    <3>2. /\ at > Len(ready) /\ ComingAt(c)' = ComingAt(c) \cup {at}
          /\ ready'[at].item = item /\ number' = number /\ place' = place
      BY <1>2, <1>4, <1>7, <1>14, <3>1
    <3> QED
      BY <1>1, <1>5, <1>6, <2>2, <3>2, LineGrows
  <2>4. Seen(c)' = Seen(c) \cup {item}
    BY <1>2, <2>3 DEF Seen
  <2>5. Held(c)' \cup {item} = Held(c)
    BY <1>3, <1>14, ScheduleHeld
  <2>6. item[1] \in Recorded /\ origin[item[1]] = t /\ item[2] = t /\ t # Watcher
    BY <1>3, <1>8 DEF StreamInv, PublishingInv
  <2>7. Genuine(item)'
    BY <1>2, <2>6 DEF Genuine, Recorded
  <2>8. ASSUME NEW u \in Publishers, Due(u, c)'
        PROVE  Earlier(item, <<publishing[u].alert, u>>)'
    BY <1>10, <1>14, <2>6, <2>8 DEF Earlier, Sooner
  <2>9. SeenAt(c)'
    BY <1>1, <1>11, <1>12, <2>4, <2>7, <2>8 DEF SeenAt
  <2>10. item \notin Seen(c)
    BY <2>2, <2>6, NotEarlier
  <2>11. Accounted(c)'
    BY <1>1, <1>2, <2>3, <2>4, <2>5, <2>10 DEF Accounted, Seen
  <2> QED
    BY <2>3, <2>9, <2>11 DEF ClientInv
<1> QED
  BY <1>13, <1>14

\* The watcher publishes only above what it knows; before it knows anything it
\* only remembers.
LEMMA WatchClient ==
    ASSUME TypeInv, StreamInv, NEW a \in AlertIds, Watch(a), NEW c \in Open
    PROVE  ClientInv(c)'
<1>1. SeenAt(c) /\ Ordered(c) /\ Accounted(c) /\ c \in Clients
  BY DEF StreamInv, ClientInv, Open
<1>2. UNCHANGED <<number, place, origin, publishing, client, queue, hand, received, dropped>>
  BY DEF Watch
<1>3. a \in Recorded /\ known' = number[a] /\ number[a] > known /\ number[a] \in Int /\ known \in Int
  BY KnownType DEF Watch, IsNewest
<1>4. Got(c)' = Got(c)
  BY <1>2 DEF Got
<1>5. CASE known = 0
  <2>1. ready' = ready /\ published' = published
    BY <1>5 DEF Watch
  <2> QED
    BY <1>2, <1>3, <1>4, <2>1, ClientStays
<1>6. CASE known # 0
  <2>1. PICK item \in Items : item = <<a, Watcher>>
    BY DEF Items
  <2>2. PICK order \in Orders(Open) : ready' = ready \o Calls(order, item)
    BY <1>6, <2>1 DEF Watch, PublishAll
  <2>3. published'[c] = published[c] \cup {item}
    BY <1>1, <1>6, <2>1 DEF Watch, PublishAll, PublishedTo
  <2>4. PICK n : n = Cardinality(Open)
    OBVIOUS
  <2>5. /\ n \in Nat /\ order \in [1..n -> Open] /\ Len(ready') = Len(ready) + n
        /\ \A i \in 1..Len(ready) : ready'[i] = ready[i]
        /\ \A i \in 1..n : ready'[Len(ready) + i].to = order[i] /\ ready'[Len(ready) + i].item = item
    BY <2>2, <2>4, PublishAllReady
  <2>6. /\ \A b \in Open : \E i \in DOMAIN order : order[i] = b
        /\ \A i, j \in DOMAIN order : order[i] = order[j] => i = j
    BY <2>2 DEF Orders
  <2>7. DOMAIN order = 1..n
    BY <2>5
  <2>8. PICK k \in 1..n : order[k] = c
    BY <2>6, <2>7
  <2>9. PICK at \in Nat : at = Len(ready) + k
    BY <2>5, ReadyType
  <2>10. at > Len(ready) /\ at \in 1..Len(ready') /\ ready'[at].to = c /\ ready'[at].item = item
    BY <2>5, <2>8, <2>9, ReadyType
  <2>11. ComingAt(c)' = ComingAt(c) \cup {at}
    <3>1. ASSUME NEW j \in 1..Len(ready'), ready'[j].to = c, j # at
          PROVE  j \in ComingAt(c)
      <4>1. CASE j \in 1..Len(ready)
        BY <2>5, <3>1, <4>1 DEF ComingAt
      <4>2. CASE j \notin 1..Len(ready)
        <5>1. PICK i \in 1..n : j = Len(ready) + i
          <6>1. j - Len(ready) \in 1..n /\ j = Len(ready) + (j - Len(ready))
            BY <2>5, <4>2, ReadyType
          <6> QED
            BY <6>1
        <5>2. order[i] = c
          BY <2>5, <3>1, <5>1
        <5>3. i = k
          BY <2>6, <2>7, <2>8, <5>2
        <5> QED
          BY <2>9, <3>1, <5>1, <5>3
      <4> QED
        BY <4>1, <4>2
    <3>2. \A j \in ComingAt(c) : j \in 1..Len(ready') /\ ready'[j].to = c
      BY <2>5, ReadyType DEF ComingAt
    <3> QED
      BY <2>10, <3>1, <3>2 DEF ComingAt
  <2>12. \A j \in ComingAt(c) : ready'[j] = ready[j]
    BY <2>5 DEF ComingAt
  <2>13. ASSUME NEW x \in Seen(c) PROVE Earlier(x, item)
    <3>1. Genuine(x) /\ number[x[1]] \in Int
      BY <1>1, SeenRecorded
    <3> QED
      BY <1>3, <2>1, <3>1 DEF Genuine, Earlier, Sooner
  <2>14. Arrived(c)' = Arrived(c) /\ Coming(c)' = Coming(c) \cup {item} /\ Ordered(c)'
    BY <1>1, <1>2, <1>4, <2>10, <2>11, <2>12, <2>13, LineGrows
  <2>15. Seen(c)' = Seen(c) \cup {item}
    BY <1>2, <2>14 DEF Seen
  <2>16. Held(c)' = Held(c)
    BY <1>2 DEF Held
  <2>17. ASSUME NEW x \in Seen(c) PROVE Genuine(x)'
    <3>1. Genuine(x) /\ x[1] \in Recorded /\ number[x[1]] \in Int
      BY <1>1, SeenRecorded
    <3> QED
      BY <1>2, <1>3, <3>1 DEF Genuine, Recorded
  <2>18. Genuine(item)'
    BY <1>2, <1>3, <2>1 DEF Genuine, Recorded
  <2>19. ASSUME NEW x \in Seen(c)', NEW u \in Publishers, Due(u, c)'
         PROVE  Earlier(x, <<publishing[u].alert, u>>)'
    <3>1. CASE x = item
      BY <2>1, <3>1 DEF Earlier, Sooner
    <3>2. CASE x \in Seen(c)
      BY <1>1, <1>2, <2>19, <3>2 DEF SeenAt, Due, Earlier, Sooner
    <3> QED
      BY <2>15, <2>19, <3>1, <3>2
  <2>20. SeenAt(c)'
    BY <2>15, <2>17, <2>18, <2>19 DEF SeenAt
  <2>21. item \notin Seen(c)
    BY <1>3, <2>1, <2>13, NotEarlier
  <2>22. Accounted(c)'
    BY <1>1, <1>2, <2>3, <2>14, <2>15, <2>16, <2>21 DEF Accounted, Seen
  <2> QED
    BY <2>14, <2>20, <2>22 DEF ClientInv
<1> QED
  BY <1>5, <1>6

\* What the loop runs moves on, or is lost and counted.
LEMMA PutClient ==
    ASSUME TypeInv, StreamInv, Put, NEW c \in Open
    PROVE  ClientInv(c)'
<1>1. SeenAt(c) /\ Ordered(c) /\ Accounted(c) /\ c \in Clients
  BY DEF StreamInv, ClientInv, Open
<1>2. UNCHANGED <<number, place, origin, publishing, known, client, hand, received, published>>
  BY DEF Put
<1>3. /\ ready[1].to = c /\ Accepted(c) => Got(c)' = Append(Got(c), ready[1].item)
      /\ ~(ready[1].to = c /\ Accepted(c)) => Got(c)' = Got(c)
      /\ dropped'[c] = IF ready[1].to = c /\ c \in Open /\ ~Accepted(c)
                       THEN dropped[c] \cup {ready[1].item} ELSE dropped[c]
  BY <1>1, PutGot
<1>4. /\ Ordered(c)'
      /\ Seen(c)' = Seen(c)
      /\ dropped'[c] \cap (Arrived(c)' \cup Coming(c)') = {}
  <2>1. CASE ready[1].to = c /\ Accepted(c)
    <3>1. Arrived(c)' \cup Coming(c)' = Arrived(c) \cup Coming(c) /\ Ordered(c)'
      BY <1>1, <1>3, <2>1, LineMoves
    <3> QED
      BY <1>1, <1>3, <2>1, <3>1 DEF Seen, Accounted
  <2>2. CASE ready[1].to = c /\ ~Accepted(c)
    <3>1. /\ Arrived(c)' = Arrived(c) /\ Ordered(c)'
          /\ ready[1].item \in Coming(c)
          /\ Coming(c) = Coming(c)' \cup {ready[1].item}
          /\ ready[1].item \notin Arrived(c)' \cup Coming(c)'
      BY <1>1, <1>3, <2>2, LineShifts
    <3>2. dropped'[c] = dropped[c] \cup {ready[1].item}
      BY <1>3, <2>2
    <3> QED
      BY <1>1, <3>1, <3>2 DEF Seen, Accounted
  <2>3. CASE ready[1].to # c
    <3>1. /\ Arrived(c)' = Arrived(c) /\ Ordered(c)'
          /\ Coming(c)' = Coming(c)
      BY <1>1, <1>3, <2>3, LineShifts
    <3> QED
      BY <1>1, <1>3, <2>3, <3>1 DEF Seen, Accounted
  <2> QED
    BY <2>1, <2>2, <2>3
<1>5. Held(c)' = Held(c)
  BY <1>2 DEF Held
<1>6. SeenAt(c)'
  BY <1>1, <1>2, <1>4 DEF SeenAt, Genuine, Due, Earlier, Sooner, Recorded
<1>7. Accounted(c)'
  BY <1>1, <1>2, <1>4, <1>5 DEF Accounted
<1> QED
  BY <1>4, <1>6, <1>7 DEF ClientInv

\* A websocket starts with nothing.
LEMMA ConnectClient ==
    ASSUME TypeInv, QuietInv, NEW c \in Clients, Connect(c)
    PROVE  ClientInv(c)'
<1>1. /\ client[c] = "new" /\ c \notin Open
      /\ UNCHANGED <<number, place, origin, publishing, known, ready, queue, hand, received, dropped, published>>
  BY DEF Connect, Open
<1>2. received[c] = <<>> /\ hand[c] = None /\ dropped[c] = {} /\ queue[c] = <<>> /\ published[c] = {}
  BY <1>1 DEF QuietInv, TypeInv, StreamTypeOK
<1>3. <<>> \in Seq(Items) /\ Len(<<>>) = 0
  BY EmptySeq
<1>4. Got(c) = <<>>
  <2>1. Got(c) = (<<>> \o <<>>) \o <<>>
    BY <1>2 DEF Got
  <2>2. <<>> \o <<>> = <<>>
    BY <1>3, ConcatEmptySeq
  <2> QED
    BY <2>1, <2>2
<1>5. Got(c)' = <<>> /\ Arrived(c)' = {}
  <2>1. Got(c)' = <<>>
    BY <1>1, <1>4 DEF Got
  <2> QED
    BY <1>3, <2>1 DEF Arrived
<1>6. ComingAt(c)' = {} /\ Coming(c)' = {}
  BY <1>1, ReadyType DEF QuietInv, ComingAt, Coming
<1>7. Seen(c)' = {} /\ Held(c)' = {}
  BY <1>1, <1>2, <1>5, <1>6 DEF Seen, Held, QuietInv
<1>8. Ordered(c)'
  BY <1>3, <1>5, <1>6 DEF Ordered
<1> QED
  BY <1>1, <1>2, <1>7, <1>8 DEF ClientInv, SeenAt, Accounted

LEMMA StreamStep == TypeInv /\ QuietInv /\ StreamInv /\ [StreamNext]_streamVars => StreamInv'
<1> SUFFICES ASSUME TypeInv, QuietInv, StreamInv, [StreamNext]_streamVars PROVE StreamInv'
  OBVIOUS
<1>1. PublishingInv'
  BY PublishingStep DEF StreamInv
<1>2. known \in Int
  BY KnownType
<1>3. ASSUME NEW t \in Publishers, NEW a \in AlertIds, StoreHere(t, a)
      PROVE  \A c \in Open' : ClientInv(c)'
  <2>1. Store(a, t) /\ published' = published
    BY <1>3 DEF StoreHere
  <2>2. Open' = Open
    BY <2>1 DEF Store, Open
  <2>3. \A u \in Publishers : publishing'[u] = publishing[u] \/ (u = t /\ publishing'[u].alert = a)
    BY <1>3, StoreHereLeft
  <2>4. \A c \in Open : Held(c)' = Held(c)
    BY <1>3, StoreHereHeld
  <2> QED
    BY <2>1, <2>2, <2>3, <2>4, StoreClient
<1>4. ASSUME NEW a \in AlertIds, StoreElsewhere(a)
      PROVE  \A c \in Open' : ClientInv(c)'
  <2>1. Store(a, Elsewhere) /\ published' = published /\ publishing' = publishing
    BY <1>4 DEF StoreElsewhere
  <2>2. Open' = Open
    BY <2>1 DEF Store, Open
  <2>3. \A c \in Open : Held(c)' = Held(c)
    BY <2>1 DEF Held
  <2> QED
    BY <2>1, <2>2, <2>3, StoreClient
<1>5. ASSUME NEW t \in Publishers, Snapshot(t)
      PROVE  \A c \in Open' : ClientInv(c)'
  <2>1. Open' = Open
    BY <1>5 DEF Snapshot, Open
  <2> QED
    BY <1>5, <2>1, SnapshotClient
<1>6. ASSUME NEW t \in Publishers, NEW d \in Clients, Schedule(t, d)
      PROVE  \A c \in Open' : ClientInv(c)'
  <2>1. Open' = Open
    BY <1>6 DEF Schedule, Open
  <2> QED
    BY <1>6, <2>1, ScheduleClient
<1>7. ASSUME NEW a \in AlertIds, Watch(a)
      PROVE  \A c \in Open' : ClientInv(c)'
  <2>1. Open' = Open
    BY <1>7 DEF Watch, Open
  <2> QED
    BY <1>7, <2>1, WatchClient
<1>8. CASE Put
  <2>1. Open' = Open
    BY <1>8 DEF Put, Open
  <2>2. \A c \in Open' : ClientInv(c)'
    BY <1>8, <2>1, PutClient
  <2> QED
    BY <1>1, <2>2 DEF StreamInv
<1>9. ASSUME NEW d \in Clients, Connect(d)
      PROVE  \A c \in Open' : ClientInv(c)'
  <2>1. /\ Open' = Open \cup {d}
        /\ UNCHANGED <<number, place, origin, publishing, known, ready, queue, hand, received, dropped, published>>
    BY <1>9, ConnectTypes DEF Connect
  <2>2. \A c \in Open : Got(c)' = Got(c)
    BY <2>1 DEF Got
  <2>3. \A c \in Open : ClientInv(c)'
    BY <1>2, <2>1, <2>2, ClientStays
  <2> QED
    BY <1>9, <2>1, <2>3, ConnectClient
<1>10. ASSUME NEW d \in Clients, Take(d) \/ Sent(d)
       PROVE  \A c \in Open' : ClientInv(c)'
  <2>1. UNCHANGED <<number, place, origin, publishing, known, ready, client, dropped, published>>
    BY <1>10 DEF Take, Sent
  <2>2. Open' = Open /\ Open \subseteq Clients
    BY <2>1 DEF Open
  <2>3. \A c \in Open : Got(c)' = Got(c)
    BY <1>10, <2>2, TakeGot, SentGot
  <2> QED
    BY <1>2, <2>1, <2>2, <2>3, ClientStays
<1>11. ASSUME NEW d \in Clients, Disconnect(d)
       PROVE  \A c \in Open' : ClientInv(c)'
  <2>1. Open' = Open \ {d} /\ UNCHANGED <<number, place, origin, publishing, known, ready>>
    BY <1>11, DisconnectTypes DEF Disconnect
  <2>2. \A c \in Clients \ {d} :
            /\ received'[c] = received[c] /\ hand'[c] = hand[c] /\ queue'[c] = queue[c]
            /\ dropped'[c] = dropped[c] /\ published'[c] = published[c]
    BY <1>11 DEF Disconnect, TypeInv, ShapeInv
  <2>3. \A c \in Open' : c \in Open /\ c \in Clients \ {d}
    BY <2>1 DEF Open
  <2>4. \A c \in Open' : Got(c)' = Got(c)
    BY <2>2, <2>3, GotSame
  <2> QED
    BY <1>2, <2>1, <2>2, <2>3, <2>4, ClientStays
<1>12. CASE UNCHANGED streamVars
  <2>1. UNCHANGED <<number, place, origin, publishing, known, ready, client, dropped, published>>
    BY <1>12 DEF streamVars
  <2>2. Open' = Open /\ \A c \in Open : Got(c)' = Got(c)
    BY <1>12 DEF streamVars, Open, Got
  <2>3. \A c \in Open' : ClientInv(c)'
    BY <1>2, <2>1, <2>2, ClientStays
  <2> QED
    BY <1>1, <2>3 DEF StreamInv
<1>13. ASSUME \A c \in Open' : ClientInv(c)' PROVE StreamInv'
  BY <1>1, <1>13 DEF StreamInv
<1> QED
  BY <1>3, <1>4, <1>5, <1>6, <1>7, <1>8, <1>9, <1>10, <1>11, <1>12, <1>13
     DEF StreamNext, InThread, Socket

LEMMA StreamInvHolds == StreamSpec => [](TypeInv /\ QuietInv /\ StreamInv)
<1>1. StreamInit => TypeInv /\ QuietInv /\ StreamInv
  <2> SUFFICES ASSUME StreamInit PROVE TypeInv /\ QuietInv /\ StreamInv
    OBVIOUS
  <2>1. TypeInv
    BY TypeInit
  <2>2. Open = {} /\ DOMAIN ready = {}
    BY DEF StreamInit, Open
  <2>3. QuietInv
    BY <2>2 DEF StreamInit, QuietInv
  <2>4. StreamInv
    BY <2>2 DEF StreamInit, StreamInv, PublishingInv
  <2> QED
    BY <2>1, <2>3, <2>4
<1>2. TypeInv /\ QuietInv /\ StreamInv /\ [StreamNext]_streamVars => (TypeInv /\ QuietInv /\ StreamInv)'
  BY TypeStep, QuietStep, StreamStep
<1> QED
  BY <1>1, <1>2, PTL DEF StreamSpec

-----------------------------------------------------------------------------
(* From the two parts of a line to the line.                               *)

\* Line puts what is scheduled behind what arrived.
LEMMA LineParts ==
    ASSUME TypeInv, NEW c \in Clients
    PROVE  /\ DOMAIN Line(c) = 1..Len(Got(c)) \cup {Len(Got(c)) + k : k \in ComingAt(c)}
           /\ \A i \in 1..Len(Got(c)) : Line(c)[i] = Got(c)[i]
           /\ \A k \in ComingAt(c) : Line(c)[Len(Got(c)) + k] = ready[k].item
           /\ InLine(c) = Arrived(c) \cup Coming(c)
<1>1. PICK n, at : n = Len(Got(c)) /\ at = ComingAt(c)
  OBVIOUS
<1>2. n \in Nat /\ \A k \in at : k \in Nat /\ k > 0
  BY <1>1, LineType, ReadyType
<1>3. at = {k \in DOMAIN ready : ready[k].to = c}
  BY <1>1, ReadyType DEF ComingAt
<1>4. Line(c) = [m \in 1..n \cup {n + k : k \in at} |-> IF m <= n THEN Got(c)[m] ELSE ready[m - n].item]
  BY <1>1, <1>3 DEF Line
<1>5. DOMAIN Line(c) = 1..n \cup {n + k : k \in at}
  BY <1>4
<1>6. \A i \in 1..n : Line(c)[i] = Got(c)[i]
  BY <1>2, <1>4
<1>7. ASSUME NEW k \in at PROVE Line(c)[n + k] = ready[k].item
  <2>1. ~(n + k <= n) /\ (n + k) - n = k
    BY <1>2
  <2> QED
    BY <1>4, <2>1
<1>8. \A x : x \in InLine(c) <=> (\E i \in 1..n : x = Got(c)[i]) \/ (\E k \in at : x = ready[k].item)
  <2>1. \A x : x \in InLine(c) <=> \E m \in DOMAIN Line(c) : x = Line(c)[m]
    BY DEF InLine
  <2> QED
    BY <1>5, <1>6, <1>7, <2>1
<1>9. InLine(c) = Arrived(c) \cup Coming(c)
  BY <1>1, <1>8 DEF Arrived, Coming
<1> QED
  BY <1>1, <1>5, <1>6, <1>7, <1>9

LEMMA LineOrdered ==
    ASSUME TypeInv, NEW c \in Clients, Ordered(c),
           NEW i \in DOMAIN Line(c), NEW j \in DOMAIN Line(c), i < j
    PROVE  Earlier(Line(c)[i], Line(c)[j])
<1>1. PICK n, at : n = Len(Got(c)) /\ at = ComingAt(c)
  OBVIOUS
<1>2. n \in Nat /\ \A k \in at : k \in Nat /\ k > 0
  BY <1>1, LineType, ReadyType
<1>3. /\ DOMAIN Line(c) = 1..n \cup {n + k : k \in at}
      /\ \A m \in 1..n : Line(c)[m] = Got(c)[m]
      /\ \A k \in at : Line(c)[n + k] = ready[k].item
  BY <1>1, LineParts
<1>4. /\ \A m, o \in 1..n : m < o => Earlier(Got(c)[m], Got(c)[o])
      /\ \A m \in 1..n, k \in at : Earlier(Got(c)[m], ready[k].item)
      /\ \A k, l \in at : k < l => Earlier(ready[k].item, ready[l].item)
  BY <1>1 DEF Ordered
<1>5. CASE j \in 1..n
  <2>1. i \in 1..n
    BY <1>2, <1>3, <1>5
  <2> QED
    BY <1>3, <1>4, <1>5, <2>1
<1>6. CASE j \notin 1..n
  <2>1. PICK l \in at : j = n + l
    BY <1>3, <1>6
  <2>2. CASE i \in 1..n
    BY <1>3, <1>4, <2>1, <2>2
  <2>3. CASE i \notin 1..n
    <3>1. PICK k \in at : i = n + k
      BY <1>3, <2>3
    <3>2. k < l
      BY <1>2, <2>1, <3>1
    <3> QED
      BY <1>3, <1>4, <2>1, <3>1, <3>2
  <2> QED
    BY <2>2, <2>3
<1> QED
  BY <1>5, <1>6

\* A client gets the alerts of a thread in the order they were stored and those of
\* the watcher by rising numbers, each once, however many threads publish, however
\* the watcher runs between them and whatever numbers the shared chain gave.
THEOREM SourcesInOrder == StreamSpec => []InOrderBySource
<1>1. TypeInv /\ StreamInv => InOrderBySource
  BY LineOrdered DEF StreamInv, ClientInv, InOrderBySource, Earlier, Sooner, Open
<1> QED
  BY <1>1, StreamInvHolds, PTL

\* Every item published to a connected client is in exactly one place: received,
\* on its way, lost to a full queue, or still held by its thread.
THEOREM EveryItemAccounted == StreamSpec => []NothingVanishes
<1>1. TypeInv /\ StreamInv => NothingVanishes
  <2> SUFFICES ASSUME TypeInv, StreamInv, NEW c \in Open
               PROVE  /\ published[c] = InLine(c) \cup dropped[c] \cup Held(c)
                      /\ \A m, n \in DOMAIN Line(c) : Line(c)[m] = Line(c)[n] => m = n
                      /\ dropped[c] \cap InLine(c) = {}
                      /\ Held(c) \cap (InLine(c) \cup dropped[c]) = {}
    BY DEF NothingVanishes
  <2>1. c \in Clients /\ SeenAt(c) /\ Ordered(c) /\ Accounted(c)
    BY DEF StreamInv, ClientInv, Open
  <2>2. InLine(c) = Arrived(c) \cup Coming(c) /\ Seen(c) = InLine(c) \cup dropped[c]
    BY <2>1, LineParts DEF Seen
  <2>3. ASSUME NEW m \in DOMAIN Line(c), NEW n \in DOMAIN Line(c), Line(c)[m] = Line(c)[n]
        PROVE  m = n
    <3>1. m \in Nat /\ n \in Nat
      <4>1. Len(Got(c)) \in Nat /\ \A k \in ComingAt(c) : k \in Nat
        BY <2>1, LineType, ReadyType
      <4>2. DOMAIN Line(c) = 1..Len(Got(c)) \cup {Len(Got(c)) + k : k \in ComingAt(c)}
        BY <2>1, LineParts
      <4> QED
        BY <4>1, <4>2
    <3>2. Line(c)[m] \in Seen(c)
      BY <2>2 DEF InLine
    <3>3. ~Earlier(Line(c)[m], Line(c)[m])
      BY <2>1, <3>2, SeenRecorded, NotEarlier
    <3>4. ~(m < n) /\ ~(n < m)
      BY <2>1, <2>3, <3>3, LineOrdered
    <3> QED
      BY <3>1, <3>4
  <2>4. ASSUME NEW x \in Held(c) PROVE x \notin Seen(c)
    <3>1. PICK t \in Publishers : /\ publishing[t] # None /\ c \in publishing[t].left
                                  /\ x = <<publishing[t].alert, t>>
      BY DEF Held
    <3>2. Due(t, c) /\ publishing[t].alert \in Recorded
      BY <3>1 DEF Due, StreamInv, PublishingInv
    <3>3. ~Earlier(x, x)
      BY <3>1, <3>2, NotEarlier
    <3> QED
      BY <2>1, <3>1, <3>2, <3>3 DEF SeenAt
  <2> QED
    BY <2>1, <2>2, <2>3, <2>4 DEF Accounted
<1> QED
  BY <1>1, StreamInvHolds, PTL
================================================================================
