---------------------------- MODULE EvidenceChain ----------------------------
(***************************************************************************)
(* The evidence path of the detection pipeline: every alert a thread       *)
(* raises is linked into the SHA-256 chain (HashChain.append), written to  *)
(* the alerts table, then to alert_evidence, then to security_incidents,   *)
(* and last handed to the subscribers (_finalize_and_save_alert).          *)
(*                                                                         *)
(* One HashChain object (sequence, previous) and one Repository are shared *)
(* by every thread that calls DetectionPipeline.ingest: the capture worker *)
(* and the threads that serve POST /api/ingest.  Repository takes a lock   *)
(* around each statement; HashChain takes none.  A step below is therefore *)
(* one SQL statement, or the Python statements between two points where    *)
(* the interpreter may switch threads.                                     *)
(*                                                                         *)
(* A digest is modelled as the sequence of payloads it commits to: an      *)
(* injective function of (previous digest, payload), as SHA-256 is taken   *)
(* to be, whose start is the 64 zeros (Genesis).                           *)
(***************************************************************************)
EXTENDS Naturals, Sequences

CONSTANTS
    Threads,       \* threads that call DetectionPipeline.ingest
    WindowAlerts,  \* alerts built by process_window: the table has all their fields
    PacketAlerts,  \* alerts built by _format_and_correlate: some fields have no column
    NoAlert,       \* stands for "no alert in hand"
    Faults,        \* what may go wrong in this instance
    MaxHealth      \* bound on the number of updates of latest_health

Alerts == WindowAlerts \union PacketAlerts

\* read: the SELECT of _sync raises and is swallowed; insert, evidence,
\* incident: the INSERT into that table raises; crash: the process stops
\* between two steps and is started again on the same database.
FaultKinds == {"read", "insert", "evidence", "incident", "crash"}

ASSUME ConstantsAssumption ==
    /\ WindowAlerts \intersect PacketAlerts = {}
    /\ NoAlert \notin WindowAlerts \union PacketAlerts
    /\ Faults \subseteq {"read", "insert", "evidence", "incident", "crash"}
    /\ MaxHealth \in Nat

VARIABLES
    rows,       \* the alerts table, in rowid order
    evidence,   \* ids in alert_evidence
    incidents,  \* alerts whose incident is in security_incidents
    chain,      \* the HashChain object: sequence and previous
    health,     \* version of the contents of DetectionPipeline.latest_health
    raised,     \* alerts whose uuid has been drawn
    announced,  \* alerts handed to the subscribers
    pc,         \* where each thread is in _finalize_and_save_alert
    local,      \* what each thread holds in local variables and in the alert dict
    stale,      \* history: memory may hold a head that is not the newest row's
    calm        \* history: no two threads were inside at once, no stale head was used

tables == <<rows, evidence, incidents>>
history == <<stale, calm>>
vars == <<rows, evidence, incidents, chain, health, raised, announced, pc, local,
          stale, calm>>

-----------------------------------------------------------------------------
(* Payloads, digests and rows.                                             *)

\* What compute_alert_payload serialises.  A window alert embeds the health
\* dict itself; a packet alert carries keys ("dict") that no column holds.
Contents == [alert : Alerts, health : Nat, view : {"dict", "columns"}]

Digests == Seq(Contents)
Genesis == <<>>
Hash(previous, content) == Append(previous, content)

\* Mutant of Payload: every alert carries a key that no column holds.
PayloadWithoutColumn(a) == [alert  |-> a,
                            health |-> IF a \in WindowAlerts THEN health ELSE 0,
                            view   |-> "dict"]

\* The payload of alert a, as held in memory now.
Payload(a) == [alert  |-> a,
               health |-> IF a \in WindowAlerts THEN health ELSE 0,
               view   |-> IF a \in WindowAlerts THEN "columns" ELSE "dict"]

\* The payload a reader of the table finds: the columns, serialised now.
Stored(a) == [Payload(a) EXCEPT !.view = "columns"]

Rows == [seq : Nat, prev : Digests, hash : Digests, body : Contents]

Chains == [sequence : Nat, previous : Digests]

\* Mutant of Heads: ORDER BY chain_sequence without DESC.
HeadsAscending ==
    {i \in DOMAIN rows : \A j \in DOMAIN rows : rows[i].seq <= rows[j].seq}

\* Candidates of ORDER BY chain_sequence DESC LIMIT 1.
Heads == {i \in DOMAIN rows : \A j \in DOMAIN rows : rows[j].seq <= rows[i].seq}

FreshChain == [sequence |-> 0, previous |-> Genesis]
AdoptHead(i) == [sequence |-> rows[i].seq, previous |-> rows[i].hash]

NoLocal == [alert |-> NoAlert, head |-> FreshChain,
            prev |-> Genesis, digest |-> Genesis, seq |-> 0]

Locals == [alert : Alerts \union {NoAlert}, head : Chains,
           prev : Digests, digest : Digests, seq : Nat]

Steps == {"idle", "query", "adoptSequence", "adoptPrevious", "link", "digest",
          "stamp", "insert", "evidence", "incident", "notify"}

-----------------------------------------------------------------------------
Init ==
    /\ rows = <<>>
    /\ evidence = {}
    /\ incidents = {}
    /\ chain = FreshChain
    /\ health = 0
    /\ raised = {}
    /\ announced = {}
    /\ pc = [t \in Threads |-> "idle"]
    /\ local = [t \in Threads |-> NoLocal]
    /\ stale = FALSE
    /\ calm = TRUE

Goto(t, from, to) ==
    /\ pc[t] = from
    /\ pc' = [pc EXCEPT ![t] = to]

\* Mutant of Leave: the alert is dropped, the function goes on.
LeaveHalfway(t) ==
    /\ local' = [local EXCEPT ![t] = NoLocal]
    /\ UNCHANGED pc

\* The thread leaves _finalize_and_save_alert, by return or by exception.
Leave(t) ==
    /\ pc' = [pc EXCEPT ![t] = "idle"]
    /\ local' = [local EXCEPT ![t] = NoLocal]

\* No other thread is between the first and the last line of ingest's work
\* on an alert.
Alone(t) == \A u \in Threads \ {t} : pc[u] = "idle"

\* ingest counts the packet in latest_health, process_window updates the
\* same dict: either way later readers see different contents.  The alert
\* dict of process_window holds this very dict, not a copy of it.
Observe(t) ==
    /\ pc[t] = "idle"
    /\ health < MaxHealth
    /\ health' = health + 1
    /\ calm' = (calm /\ Alone(t))
    /\ UNCHANGED <<tables, chain, raised, announced, pc, local, stale>>

\* A detector returns a new alert and _finalize_and_save_alert is entered.
Raise(t, a) ==
    /\ a \notin raised
    /\ Goto(t, "idle", "query")
    /\ raised' = raised \union {a}
    /\ local' = [local EXCEPT ![t].alert = a]
    /\ calm' = (calm /\ Alone(t))
    /\ UNCHANGED <<tables, chain, health, announced, stale>>

\* Mutant of QueryHead: append does not call _sync.
NoQuery(t) ==
    /\ Goto(t, "query", "link")
    /\ UNCHANGED <<tables, chain, health, raised, announced, local, history>>

\* _sync reads the newest row; an empty table leaves the object as it is.
QueryHead(t) ==
    /\ \/ /\ rows = <<>>
          /\ Goto(t, "query", "link")
          /\ calm' = (calm /\ ~stale)
          /\ UNCHANGED local
       \/ \E i \in Heads :
          /\ Goto(t, "query", "adoptSequence")
          /\ local' = [local EXCEPT ![t].head = AdoptHead(i)]
          /\ UNCHANGED calm
    /\ UNCHANGED <<tables, chain, health, raised, announced, stale>>

\* The SELECT raises; _sync swallows it and the object stays as it is.
QueryFails(t) ==
    /\ "read" \in Faults
    /\ Goto(t, "query", "link")
    /\ calm' = (calm /\ ~stale)
    /\ UNCHANGED <<tables, chain, health, raised, announced, local, stale>>

\* _sync assigns self.sequence, then self.previous: two writes.
AdoptSequence(t) ==
    /\ Goto(t, "adoptSequence", "adoptPrevious")
    /\ chain' = [chain EXCEPT !.sequence = local[t].head.sequence]
    /\ UNCHANGED <<tables, health, raised, announced, local, history>>

AdoptPrevious(t) ==
    /\ Goto(t, "adoptPrevious", "link")
    /\ chain' = [chain EXCEPT !.previous = local[t].head.previous]
    /\ stale' = FALSE
    /\ UNCHANGED <<tables, health, raised, announced, local, calm>>

\* append takes the next sequence number and the digest to link to.
Link(t) ==
    /\ Goto(t, "link", "digest")
    /\ chain' = [chain EXCEPT !.sequence = @ + 1]
    /\ local' = [local EXCEPT ![t].prev = chain.previous]
    /\ UNCHANGED <<tables, health, raised, announced, history>>

\* compute_alert_hash serialises the alert and hashes it.
Digest(t) ==
    /\ Goto(t, "digest", "stamp")
    /\ local' = [local EXCEPT ![t].digest = Hash(local[t].prev, Payload(local[t].alert))]
    /\ UNCHANGED <<tables, chain, health, raised, announced, history>>

\* Mutant of Stamp: the digest is computed again from the shared head.
StampRelinked(t) ==
    /\ Goto(t, "stamp", "insert")
    /\ chain' = [chain EXCEPT !.previous = Hash(@, Payload(local[t].alert))]
    /\ local' = [local EXCEPT ![t].seq = chain.sequence]
    /\ UNCHANGED <<tables, health, raised, announced, history>>

\* The digest becomes the head in memory; the alert gets its three fields.
\* Its chain_sequence is read from the shared object again.
Stamp(t) ==
    /\ Goto(t, "stamp", "insert")
    /\ chain' = [chain EXCEPT !.previous = local[t].digest]
    /\ local' = [local EXCEPT ![t].seq = chain.sequence]
    /\ UNCHANGED <<tables, health, raised, announced, history>>

RowOf(t) == [seq  |-> local[t].seq, prev |-> local[t].prev,
             hash |-> local[t].digest, body |-> Stored(local[t].alert)]

StoredAlerts == {rows[i].body.alert : i \in DOMAIN rows}

\* What INSERT OR REPLACE leaves of the table before it adds its row: a row
\* with the same alert_id goes.
Kept(a) ==
    IF a \in StoredAlerts
    THEN LET i == CHOOSE i \in DOMAIN rows : rows[i].body.alert = a
         IN  SubSeq(rows, 1, i - 1) \o SubSeq(rows, i + 1, Len(rows))
    ELSE rows

\* save_alert, first statement.
InsertAlert(t) ==
    /\ Goto(t, "insert", "evidence")
    /\ rows' = Append(Kept(local[t].alert), RowOf(t))
    /\ UNCHANGED <<evidence, incidents, chain, health, raised, announced, local, history>>

\* save_alert, second statement.
InsertEvidence(t) ==
    /\ Goto(t, "evidence", "incident")
    /\ evidence' = evidence \union {local[t].alert}
    /\ UNCHANGED <<rows, incidents, chain, health, raised, announced, local, history>>

\* Both kinds of alert carry an incident_id.
SaveIncident(t) ==
    /\ Goto(t, "incident", "notify")
    /\ incidents' = incidents \union {local[t].alert}
    /\ UNCHANGED <<rows, evidence, chain, health, raised, announced, local, history>>

\* Mutant of StatementFails: save_alert swallows the exception.
StatementSwallowed(t) ==
    /\ pc[t] \in {"insert", "evidence", "incident"} \intersect Faults
    /\ pc' = [pc EXCEPT ![t] = "notify"]
    /\ stale' = (stale \/ pc[t] = "insert")
    /\ UNCHANGED <<tables, chain, health, raised, announced, local, calm>>

\* The exception of a failed INSERT leaves ingest; the capture worker
\* swallows it, the API answers with an error.  When it is the row that is
\* not stored, memory is left with a head that no row has.
StatementFails(t) ==
    /\ pc[t] \in {"insert", "evidence", "incident"} \intersect Faults
    /\ Leave(t)
    /\ stale' = (stale \/ pc[t] = "insert")
    /\ UNCHANGED <<tables, chain, health, raised, announced, calm>>

\* The callbacks run; what they raise is swallowed.
Notify(t) ==
    /\ pc[t] = "notify"
    /\ announced' = announced \union {local[t].alert}
    /\ Leave(t)
    /\ UNCHANGED <<tables, chain, health, raised, history>>

\* The process stops and is started again: committed rows stay, the new
\* HashChain starts from Genesis and synchronises with the table once.
Restart ==
    /\ "crash" \in Faults
    /\ pc' = [t \in Threads |-> "idle"]
    /\ local' = [t \in Threads |-> NoLocal]
    /\ \/ /\ rows = <<>> \/ "read" \in Faults
          /\ chain' = FreshChain
          /\ stale' = (rows # <<>>)
       \/ /\ \E i \in Heads : chain' = AdoptHead(i)
          /\ stale' = FALSE
    /\ UNCHANGED <<tables, health, raised, announced, calm>>

Finalize(t) ==
    \/ QueryHead(t) \/ QueryFails(t) \/ AdoptSequence(t) \/ AdoptPrevious(t)
    \/ Link(t) \/ Digest(t) \/ Stamp(t)
    \/ InsertAlert(t) \/ InsertEvidence(t) \/ SaveIncident(t)
    \/ StatementFails(t) \/ Notify(t)

Next ==
    \/ \E t \in Threads :
          \/ Observe(t)
          \/ \E a \in Alerts : Raise(t, a)
          \/ Finalize(t)
    \/ Restart

Spec == Init /\ [][Next]_vars

-----------------------------------------------------------------------------
(* The audit: verify_chain over the whole table.  It sorts by              *)
(* chain_sequence, ties in table order, and walks the rows once.           *)

Before(i, j) == \/ rows[i].seq < rows[j].seq
                \/ rows[i].seq = rows[j].seq /\ i < j

\* Row j is the last row the audit visits before row i.
Precedes(j, i) ==
    /\ Before(j, i)
    /\ \A k \in DOMAIN rows : Before(k, i) => k = j \/ Before(k, j)

LinkMatches(i) ==
    IF \E j \in DOMAIN rows : Before(j, i)
    THEN \E j \in DOMAIN rows : Precedes(j, i) /\ rows[i].prev = rows[j].hash
    ELSE rows[i].prev = Genesis

\* verify_alert recomputes the digest from the columns that were read back.
RowVerifies(i) == rows[i].hash = Hash(rows[i].prev, rows[i].body)

-----------------------------------------------------------------------------
(* Properties.                                                             *)

\* Every variable has its type: digests are sequences of payloads, a thread
\* inside _finalize_and_save_alert has an alert in hand.
TypeOK ==
    /\ rows \in Seq(Rows)
    /\ evidence \subseteq Alerts
    /\ incidents \subseteq Alerts
    /\ chain \in Chains
    /\ health \in Nat
    /\ raised \subseteq Alerts
    /\ announced \subseteq Alerts
    /\ pc \in [Threads -> Steps]
    /\ local \in [Threads -> Locals]
    /\ stale \in BOOLEAN /\ calm \in BOOLEAN
    /\ \A t \in Threads : pc[t] # "idle" => local[t].alert \in Alerts

\* The audit finds no break: each row links to the row before it, the first
\* to Genesis (verify_chain's previous_hash comparison).
ChainLinked == \A i \in DOMAIN rows : LinkMatches(i)

\* Threads that enter one after the other never break the chain: not by
\* stopping between any two steps, not by writes that fail, not by reads of
\* the newest row that fail -- unless one fails, or finds the table empty,
\* when memory is already out of step with the table.
NoBreakWhileCalm == calm => ChainLinked

\* Meanwhile the audit accepts the payload of every window alert: what was
\* hashed is what the columns give back, the embedded health dict included.
WindowRowsVerify ==
    calm => \A i \in DOMAIN rows : rows[i].body.alert \in WindowAlerts => RowVerifies(i)

\* save_alert, save_incident and the callbacks keep their order through
\* failures and restarts of any thread: whoever was told of an alert finds
\* its incident, its evidence and its row in the database.
DurableInOrder ==
    /\ announced \subseteq incidents
    /\ incidents \subseteq evidence
    /\ evidence \subseteq StoredAlerts

\* Whatever fails and however threads interleave, a digest that a row links
\* to is never one that competes with a stored row: if the alert it was
\* computed for is in the table, it is stored there under that very digest.
LinksNameStoredDigest ==
    \A i, j \in DOMAIN rows :
        /\ rows[i].prev # Genesis
        /\ rows[i].prev[Len(rows[i].prev)].alert = rows[j].body.alert
        => rows[i].prev = rows[j].hash

-----------------------------------------------------------------------------
(* Refinement.  The log is what the newest digest commits to.              *)

HeadDigest == IF rows = <<>> THEN Genesis ELSE rows[Len(rows)].hash

LogEntries == [i \in DOMAIN HeadDigest |-> HeadDigest[i].alert]

Ledger == INSTANCE EvidenceLedger WITH entries <- LogEntries, kept <- calm

\* While calm lasts the stored chain behaves as the append-only log of
\* EvidenceLedger: each insert extends the history the previous head
\* committed to by one new alert, and subscribers hear only of alerts in
\* that history.
ImplementsLedger == Ledger!Spec

=============================================================================
