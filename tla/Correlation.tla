---------------------------- MODULE Correlation ----------------------------
(***************************************************************************)
(* From the signals of one packet to alerts: every ingesting thread        *)
(* collects the signals of its packet, reads the clock, waits for the lock *)
(* of the correlation engine, merges each signal into the active incident  *)
(* of its key or opens one, now and then drops old incidents, and after    *)
(* the lock is free turns the incidents it opened into alerts.             *)
(*                                                                         *)
(* The clock is read before the lock is asked for, so the time a thread    *)
(* works with may be older than what it finds.  MaxDelay says by how much. *)
(*                                                                         *)
(* Evidence texts, scores, confidence and the list of raw signals are kept *)
(* or shown and never decide anything; they are left out.  So are the      *)
(* methods of an incident: the category is part of the key and determines  *)
(* the method.                                                             *)
(***************************************************************************)
EXTENDS Integers, Sequences, FiniteSets

CONSTANTS
    Threads,        \* threads that ingest
    Sources,        \* source addresses
    Targets,        \* destination addresses, "multiple" included
    Categories,     \* the categories that come up
    Window,         \* dedup_window_seconds
    CleanupPeriod,  \* 30 seconds
    Retention,      \* 60 seconds
    MaxDelay,       \* longest time from reading the clock to handing over alerts
    MaxTime,        \* bound on the clock
    MaxBatch,       \* bound on the signals of one packet
    MaxCalls,       \* bound on the packets with signals
    Free            \* nobody holds the lock

-----------------------------------------------------------------------------
(***************************************************************************)
(* Signals                                                                 *)
(***************************************************************************)

\* What the signature rules report; the rule of DENIAL_OF_SERVICE is declared
\* but never evaluated.
Signatures == {"RECONNAISSANCE", "OT_INTEGRITY_VIOLATION", "INSECURE_PROTOCOL"}
\* What the behavioural detector reports.
Behaviours == {"PORT_SCAN", "NETWORK_SWEEP", "BEACONING", "CONNECTION_ANOMALY"}
\* What the threat intelligence lookup reports.
Reputation == {"KNOWN_MALICIOUS_INFRASTRUCTURE"}

\* SEVERITY_RANKS
Rank == [MEDIUM |-> 3, HIGH |-> 4, CRITICAL |-> 5]

\* The severities each layer gives its categories.
SeveritiesOf(category) ==
    CASE category = "RECONNAISSANCE" -> {"MEDIUM", "HIGH"}
      [] category = "OT_INTEGRITY_VIOLATION" -> {"CRITICAL"}
      [] category \in {"INSECURE_PROTOCOL", "CONNECTION_ANOMALY"} -> {"MEDIUM"}
      [] category \in {"PORT_SCAN", "NETWORK_SWEEP", "BEACONING"} -> {"HIGH"}
      [] category \in Reputation -> {"HIGH", "CRITICAL"}

\* The key of an incident: source, target and category.
Keys == Sources \X Targets \X Categories

Signals == {s \in [key : Keys, severity : DOMAIN Rank] : s.severity \in SeveritiesOf(s.key[3])}

\* The layers of analyze_packet, in their order.
Layer(signal) == IF signal.key[3] \in Signatures THEN 1
                 ELSE IF signal.key[3] \in Behaviours THEN 2 ELSE 3

\* Signals of one packet: all have its source, and only behavioural ones
\* name another target than the packet's own.
OfOnePacket(batch) ==
    \A i, j \in DOMAIN batch :
        /\ batch[i].key[1] = batch[j].key[1]
        /\ i < j => Layer(batch[i]) <= Layer(batch[j])
        /\ Layer(batch[i]) # 2 /\ Layer(batch[j]) # 2 => batch[i].key[2] = batch[j].key[2]

\* analyze_packet calls correlate only when there is a signal.
Batches == {batch \in UNION {[1 .. n -> Signals] : n \in 1 .. MaxBatch} : OfOnePacket(batch)}

ASSUME CorrelationAssumption ==
    /\ Categories \subseteq Signatures \union Behaviours \union Reputation
    /\ {Window, CleanupPeriod, Retention, MaxDelay, MaxTime, MaxBatch, MaxCalls} \subseteq Nat
    /\ Free \notin Threads

\* With a window of 10 and a retention of 60 seconds this gives a thread 5
\* seconds from reading the clock to handing over its alerts.  A window longer
\* than the retention is accepted by the settings and not covered.
ASSUME DelayAssumption ==
    /\ Window + MaxDelay <= Retention
    /\ 2 * MaxDelay <= Window

-----------------------------------------------------------------------------
VARIABLES
    clock,        \* time.time()
    lock,         \* who holds _lock
    active,       \* active_incidents: the incident of each key
    lastCleanup,  \* _last_cleanup
    pc,           \* where each thread is
    now,          \* the time each thread read
    batch,        \* the signals each thread has still to handle
    found,        \* correlated_alerts of each thread, as numbers of incidents
    opened,       \* history: every incident ever opened, in order
    published,    \* history: the incidents handed over as alerts, in order
    calls,        \* history: how often correlate was called
    seen          \* history: when the last signal of each key was handled

vars == <<clock, lock, active, lastCleanup, pc, now, batch, found, opened, published, calls, seen>>
shared == <<lock, active, lastCleanup, opened, seen>>
local == <<pc, now, batch, found>>

Init ==
    /\ clock = 0
    /\ lock = Free
    /\ active = [key \in {} |-> 0]
    /\ lastCleanup = 0
    /\ pc = [t \in Threads |-> "idle"]
    /\ now = [t \in Threads |-> 0]
    /\ batch = [t \in Threads |-> <<>>]
    /\ found = [t \in Threads |-> <<>>]
    /\ opened = <<>>
    /\ published = <<>>
    /\ calls = 0
    /\ seen = [key \in {} |-> 0]

\* Time passes; no thread takes longer than MaxDelay.
Tick ==
    /\ clock < MaxTime
    /\ \A t \in Threads : pc[t] # "idle" => clock < now[t] + MaxDelay
    /\ clock' = clock + 1
    /\ UNCHANGED <<shared, local, published, calls>>

\* A packet gave signals: correlate is called with them and reads the clock.
Called(t) ==
    /\ pc[t] = "idle"
    /\ calls < MaxCalls
    /\ calls' = calls + 1
    /\ \E signals \in Batches : batch' = [batch EXCEPT ![t] = signals]
    /\ now' = [now EXCEPT ![t] = clock]
    /\ pc' = [pc EXCEPT ![t] = "waiting"]
    /\ UNCHANGED <<clock, shared, found, published>>

Acquire(t) ==
    /\ pc[t] = "waiting"
    /\ lock = Free
    /\ lock' = t
    /\ pc' = [pc EXCEPT ![t] = "correlating"]
    /\ UNCHANGED <<clock, active, lastCleanup, opened, seen, now, batch, found, published, calls>>

-----------------------------------------------------------------------------
With(f, key, value) == [k \in DOMAIN f \union {key} |-> IF k = key THEN value ELSE f[k]]

\* Mutant of Ongoing: the window runs from the first signal.
OngoingFixed(key, at) == key \in DOMAIN active /\ at - active[key].first <= Window

\* Mutant of Ongoing: a time before the last signal's counts as another incident.
OngoingForward(key, at) == key \in DOMAIN active /\ at - active[key].last \in 0 .. Window

\* The key has an incident, and its last signal is not older than the window.
Ongoing(key, at) == key \in DOMAIN active /\ at - active[key].last <= Window

\* Mutant of Upgraded: the latest severity.
UpgradedLatest(old, new) == new

\* Upgrade severity if higher.
Upgraded(old, new) == IF Rank[new] > Rank[old] THEN new ELSE old

\* What correlate does with every signal, whichever way it goes.
Handle(t) ==
    /\ pc[t] = "correlating"
    /\ batch[t] # <<>>
    /\ batch' = [batch EXCEPT ![t] = Tail(@)]
    /\ seen' = With(seen, Head(batch[t]).key, now[t])
    /\ UNCHANGED <<clock, lock, lastCleanup, pc, now, published, calls>>

\* Deduplicate into ongoing incident.
Merge(t) ==
    LET signal == Head(batch[t])
        incident == active[signal.key]
    IN  /\ Handle(t)
        /\ Ongoing(signal.key, now[t])
        /\ active' = [active EXCEPT ![signal.key].last = now[t],
                                    ![signal.key].severity = Upgraded(@, signal.severity)]
        /\ opened' = [opened EXCEPT ![incident.id].merged = @ \union {signal.severity}]
        /\ UNCHANGED found

\* Create new incident; the alert is made of it as it is now.
Open(t) ==
    LET signal == Head(batch[t])
        id == Len(opened) + 1
    IN  /\ Handle(t)
        /\ ~Ongoing(signal.key, now[t])
        /\ active' = With(active, signal.key, [id |-> id, first |-> now[t], last |-> now[t],
                                               severity |-> signal.severity])
        /\ opened' = Append(opened, [key |-> signal.key, at |-> now[t],
                                     severity |-> signal.severity, merged |-> {signal.severity}])
        /\ found' = [found EXCEPT ![t] = Append(@, id)]

CleanupDue(t) == now[t] - lastCleanup > CleanupPeriod
Old(key, at) == at - active[key].last > Retention

\* Periodic cleanup of old incidents, if it is due, and the lock is free again.
Finish(t) ==
    /\ pc[t] = "correlating"
    /\ batch[t] = <<>>
    /\ IF CleanupDue(t)
         THEN /\ active' = [key \in {k \in DOMAIN active : ~Old(k, now[t])} |-> active[key]]
              /\ lastCleanup' = now[t]
         ELSE UNCHANGED <<active, lastCleanup>>
    /\ lock' = Free
    /\ pc' = [pc EXCEPT ![t] = "reporting"]
    /\ UNCHANGED <<clock, now, batch, found, opened, published, calls, seen>>

\* Mutant of Report: the incidents stay in the list for the next call.
ReportKeeps(t) ==
    /\ pc[t] = "reporting"
    /\ published' = published \o found[t]
    /\ pc' = [pc EXCEPT ![t] = "idle"]
    /\ now' = [now EXCEPT ![t] = 0]
    /\ UNCHANGED <<clock, shared, batch, found, calls>>

\* _format_and_correlate hands over one alert for each incident opened.  The
\* time the thread read is dead from here on.
Report(t) ==
    /\ pc[t] = "reporting"
    /\ published' = published \o found[t]
    /\ found' = [found EXCEPT ![t] = <<>>]
    /\ pc' = [pc EXCEPT ![t] = "idle"]
    /\ now' = [now EXCEPT ![t] = 0]
    /\ UNCHANGED <<clock, shared, batch, calls>>

Next ==
    \/ Tick
    \/ \E t \in Threads : Called(t) \/ Acquire(t) \/ Merge(t) \/ Open(t) \/ Finish(t) \/ Report(t)

Spec == Init /\ [][Next]_vars

-----------------------------------------------------------------------------
(***************************************************************************)
(* Properties                                                              *)
(***************************************************************************)

Times == 0 .. MaxTime
Incidents == [id : Nat \ {0}, first : Times, last : Times, severity : DOMAIN Rank]
Openings == [key : Keys, at : Times, severity : DOMAIN Rank, merged : SUBSET DOMAIN Rank]

TypeOK ==
    /\ clock \in Times
    /\ lock \in Threads \union {Free}
    /\ DOMAIN active \subseteq Keys
    /\ active \in [DOMAIN active -> Incidents]
    /\ lastCleanup \in Times
    /\ pc \in [Threads -> {"idle", "waiting", "correlating", "reporting"}]
    /\ now \in [Threads -> Times]
    /\ batch \in [Threads -> Seq(Signals)]
    /\ found \in [Threads -> Seq(Nat \ {0})]
    /\ opened \in Seq(Openings)
    /\ published \in Seq(Nat \ {0})
    /\ calls \in 0 .. MaxCalls
    /\ DOMAIN seen \subseteq Keys
    /\ seen \in [DOMAIN seen -> Times]

\* No alert storm: two alerts of one key are more than the window apart, less
\* only what a thread may have waited for the lock with an old time.
AlertsSpaced ==
    \A i, j \in DOMAIN opened :
        i < j /\ opened[i].key = opened[j].key => opened[j].at - opened[i].at > Window - MaxDelay

\* The alerts of one key are handed over in the order they were raised, each
\* once, although threads format them after they let go of the lock.
PublishedInOrder ==
    \A i, j \in DOMAIN published :
        i < j /\ opened[published[i]].key = opened[published[j]].key => published[i] < published[j]

\* An active incident has the highest severity of the signals merged into it.
SeverityHighest ==
    \A key \in DOMAIN active :
        LET incident == active[key]
            merged == opened[incident.id].merged
        IN  /\ incident.severity \in merged
            /\ \A severity \in merged : Rank[severity] <= Rank[incident.severity]

\* The engine, threads, old times and cleanup included, decides on every
\* signal as the filter that never forgets.
Filter == INSTANCE AlertFilter WITH
    last <- seen,
    raised <- [i \in DOMAIN opened |-> [key |-> opened[i].key, at |-> opened[i].at]]

ImplementsFilter == Filter!Spec
=============================================================================
