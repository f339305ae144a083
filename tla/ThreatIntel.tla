----------------------------- MODULE ThreatIntel -----------------------------
(***************************************************************************)
(* ThreatIntelClient (threat_intelligence/client.py) with several threads  *)
(* inside check_ip and a clock.  An address is looked up in the cache, in  *)
(* the Tor list, which is fetched anew when it is an hour old, and at      *)
(* AbuseIPDB, within a limit per minute.  The lock covers the cache, the   *)
(* list and the stamps one by one; requests, clock readings, the check of  *)
(* the list's age and the membership test lie outside.  A verdict carries  *)
(* the moments at which the feeds it rests on were read, or were asked in  *)
(* vain (history).                                                         *)
(***************************************************************************)
EXTENDS Integers, Sequences, FiniteSets

CONSTANTS
    Addresses,    \* public addresses; private ones are answered without state
    IPs,          \* those that are looked up
    Lists,        \* what the Tor list may hold, as sets of addresses
    Threads,
    TTL,          \* cache_ttl_seconds
    CleanTTL,     \* 3600: the cap on an answer without a source
    Refresh,      \* 3600: the age at which the list is fetched again
    Minute,       \* 60: the stretch of the rate limit
    MaxRequests,  \* max_requests_per_minute
    MaxDelay,     \* assumed of the machine: no call of check_ip takes longer
    Horizon       \* bound on the clock, for the model checker

ASSUME IntelAssumption ==
    /\ IPs \subseteq Addresses /\ Lists \subseteq SUBSET Addresses
    /\ TTL \in Nat \ {0} /\ CleanTTL \in Nat \ {0}
    /\ Refresh \in Nat /\ Minute \in Nat /\ MaxRequests \in Nat \ {0}
    /\ MaxDelay \in Nat /\ MaxDelay < Refresh
    /\ Horizon \in Nat

VARIABLES
    config,   \* whether a key is configured and the list is enabled
    clock,
    cache,    \* _cache: the verdict kept for an address, or None
    tor,      \* _tor_exit_ips and _last_tor_refresh; when it was read (history)
    stamps,   \* _request_timestamps, as indices of granted
    granted,  \* history: every request the limit let pass
    thread    \* the call a thread is in

vars == <<config, clock, cache, tor, stamps, granted, thread>>

\* Long before the process started.
Never == -(TTL + CleanTTL + Refresh + MaxDelay)

None == [from |-> "nobody"]
Clean == [from |-> "nobody", bad |-> FALSE, torAt |-> Never, apiAt |-> Never]
Idle == [pc |-> "idle"]

Init ==
    /\ config \in [keyed : BOOLEAN, list : BOOLEAN]
    /\ clock = 0
    /\ cache = [ip \in IPs |-> None]
    /\ tor = [ips |-> {}, refreshed |-> Never, at |-> Never]
    /\ stamps = {}
    /\ granted = <<>>
    /\ thread = [t \in Threads |-> Idle]

At(t, pc) == thread[t].pc = pc

\* No call is held up for longer than MaxDelay.
Tick ==
    /\ clock < Horizon
    /\ \A t \in Threads : ~At(t, "idle") => clock + 1 - thread[t].now <= MaxDelay
    /\ clock' = clock + 1
    /\ UNCHANGED <<config, cache, tor, stamps, granted, thread>>

-----------------------------------------------------------------------------
(* check_ip up to the list.                                                *)

\* now is read before the lock is taken.
Begin(t, ip) ==
    /\ At(t, "idle")
    /\ thread' = [thread EXCEPT ![t] =
                    [pc |-> "lookup", ip |-> ip, now |-> clock, mark |-> clock, ips |-> {}, seen |-> Clean]]
    /\ UNCHANGED <<config, clock, cache, tor, stamps, granted>>

Live(t) == cache[thread[t].ip] # None /\ thread[t].now < cache[thread[t].ip].exp

Hit(t) ==
    /\ At(t, "lookup") /\ Live(t)
    /\ thread' = [thread EXCEPT ![t] = Idle]
    /\ UNCHANGED <<config, clock, cache, tor, stamps, granted>>

Miss(t) ==
    /\ At(t, "lookup") /\ ~Live(t)
    /\ thread' = [thread EXCEPT ![t].pc = IF config.list THEN "clock" ELSE "query"]
    /\ UNCHANGED <<config, clock, cache, tor, stamps, granted>>

\* The reading by which the age is judged, and with which a fetch is labelled.
ReadClock(t) ==
    /\ At(t, "clock")
    /\ thread' = [thread EXCEPT ![t].pc = "age", ![t].mark = clock]
    /\ UNCHANGED <<config, clock, cache, tor, stamps, granted>>

Young(t) == thread[t].mark - tor.refreshed < Refresh /\ tor.ips # {}

\* The list is young and not empty, or it is fetched by every thread that finds it old.
CheckAge(t) ==
    /\ At(t, "age")
    /\ thread' = [thread EXCEPT ![t] =
                    IF Young(t) THEN [@ EXCEPT !.pc = "member", !.mark = thread[t].now]
                    ELSE [@ EXCEPT !.pc = "fetch"]]
    /\ UNCHANGED <<config, clock, cache, tor, stamps, granted>>

Fetch(t) ==
    /\ At(t, "fetch")
    /\ \E ips \in Lists :
           thread' = [thread EXCEPT ![t].pc = "store", ![t].ips = ips, ![t].seen.torAt = clock]
    /\ UNCHANGED <<config, clock, cache, tor, stamps, granted>>

\* Mutant of FetchFails: the attempt counts as a refresh.
FetchFailsMarked(t) ==
    /\ At(t, "fetch")
    /\ tor' = [tor EXCEPT !.refreshed = clock]
    /\ thread' = [thread EXCEPT ![t].pc = "member", ![t].mark = thread[t].now, ![t].seen.torAt = clock]
    /\ UNCHANGED <<config, clock, cache, stamps, granted>>

\* Any exception or status: the old list stays in use, whatever its age.
FetchFails(t) ==
    /\ At(t, "fetch")
    /\ thread' = [thread EXCEPT ![t].pc = "member", ![t].mark = thread[t].now, ![t].seen.torAt = clock]
    /\ UNCHANGED <<config, clock, cache, tor, stamps, granted>>

\* A slow thread may put its older list over a newer one; the label is the
\* clock as it was before the request.
StoreList(t) ==
    /\ At(t, "store")
    /\ tor' = [ips |-> thread[t].ips, refreshed |-> thread[t].mark, at |-> thread[t].seen.torAt]
    /\ thread' = [thread EXCEPT ![t].pc = "member", ![t].mark = thread[t].now, ![t].ips = {},
                    ![t].seen.torAt = Never]
    /\ UNCHANGED <<config, clock, cache, stamps, granted>>

Listed(t) == thread[t].ip \in tor.ips

\* What the test adds to the verdict; the moment of a fetch in vain stays.
Tested(t) ==
    LET old == thread[t].seen IN
    [from |-> IF Listed(t) THEN "tor" ELSE "nobody",
     bad |-> Listed(t),
     torAt |-> IF old.torAt = Never THEN tor.at ELSE old.torAt,
     apiAt |-> old.apiAt]

Member(t) ==
    /\ At(t, "member")
    /\ thread' = [thread EXCEPT ![t].pc = IF Listed(t) THEN "keep" ELSE "query", ![t].seen = Tested(t)]
    /\ UNCHANGED <<config, clock, cache, tor, stamps, granted>>

-----------------------------------------------------------------------------
(* _query_abuseipdb and the answer.                                        *)

\* Without a key there is no request; with one, the limit reads the clock.
Query(t) ==
    /\ At(t, "query")
    /\ thread' = [thread EXCEPT ![t] = IF config.keyed THEN [@ EXCEPT !.pc = "limit", !.mark = clock]
                                               ELSE [@ EXCEPT !.pc = "keep"]]
    /\ UNCHANGED <<config, clock, cache, tor, stamps, granted>>

\* The stamps that the limit counts for a thread that read the clock at now.
Counted(now) == {i \in stamps : now - granted[i].stamp < Minute}

\* Mutant of Refused: one request too many.
RefusedLate(t) == Cardinality(Counted(thread[t].mark)) > MaxRequests

Refused(t) == Cardinality(Counted(thread[t].mark)) >= MaxRequests

\* The old stamps are dropped in both cases.
LimitRefuses(t) ==
    /\ At(t, "limit") /\ Refused(t)
    /\ stamps' = Counted(thread[t].mark)
    /\ thread' = [thread EXCEPT ![t].pc = "keep", ![t].mark = thread[t].now, ![t].seen.apiAt = clock]
    /\ UNCHANGED <<config, clock, cache, tor, granted>>

LimitGrants(t) ==
    /\ At(t, "limit") /\ ~Refused(t)
    /\ granted' = Append(granted, [stamp |-> thread[t].mark, at |-> clock])
    /\ stamps' = Counted(thread[t].mark) \cup {Len(granted) + 1}
    /\ thread' = [thread EXCEPT ![t].pc = "ask", ![t].mark = thread[t].now]
    /\ UNCHANGED <<config, clock, cache, tor>>

\* The score is read against 40.
Replied(t) ==
    /\ At(t, "ask")
    /\ \E bad \in BOOLEAN :
           thread' = [thread EXCEPT ![t].pc = "keep",
                        ![t].seen = [@ EXCEPT !.from = "abuse", !.bad = bad, !.apiAt = clock]]
    /\ UNCHANGED <<config, clock, cache, tor, stamps, granted>>

RequestFails(t) ==
    /\ At(t, "ask")
    /\ thread' = [thread EXCEPT ![t].pc = "keep", ![t].seen.apiAt = clock]
    /\ UNCHANGED <<config, clock, cache, tor, stamps, granted>>

\* Mutant of Life: a clean verdict is kept like any other.
LifeUncapped(seen) == TTL

\* How long a verdict is kept: also a clean one, if AbuseIPDB gave it, for TTL.
Life(seen) == IF seen.from = "nobody" /\ CleanTTL < TTL THEN CleanTTL ELSE TTL

\* Kept and returned, over whatever another thread has kept meanwhile.
Keep(t) ==
    /\ At(t, "keep")
    /\ LET seen == thread[t].seen
           now == thread[t].now
       IN cache' = [cache EXCEPT ![thread[t].ip] =
                      [from |-> seen.from, bad |-> seen.bad, torAt |-> seen.torAt, apiAt |-> seen.apiAt,
                       began |-> now, exp |-> now + Life(seen)]]
    /\ thread' = [thread EXCEPT ![t] = Idle]
    /\ UNCHANGED <<config, clock, tor, stamps, granted>>

Step(t) ==
    \/ \E ip \in IPs : Begin(t, ip)
    \/ Hit(t) \/ Miss(t)
    \/ ReadClock(t) \/ CheckAge(t) \/ Fetch(t) \/ FetchFails(t) \/ StoreList(t) \/ Member(t)
    \/ Query(t) \/ LimitRefuses(t) \/ LimitGrants(t) \/ Replied(t) \/ RequestFails(t)
    \/ Keep(t)

Next == Tick \/ \E t \in Threads : Step(t)

Spec == Init /\ [][Next]_vars

-----------------------------------------------------------------------------
Moment == {Never} \cup Nat
Sources == {"nobody", "tor", "abuse"}
Verdict == [from : Sources, bad : BOOLEAN, torAt : Moment, apiAt : Moment]
Entry == [from : Sources, bad : BOOLEAN, torAt : Moment, apiAt : Moment, began : Nat, exp : Nat]
Busy == {"lookup", "clock", "age", "fetch", "store", "member", "query", "limit", "ask", "keep"}
Call == [pc : Busy, ip : IPs, now : Nat, mark : Nat, ips : SUBSET Addresses, seen : Verdict]

\* The limit never counts more stamps than it grants; entries, calls and the list
\* are whole.
TypeOK ==
    /\ config \in [keyed : BOOLEAN, list : BOOLEAN]
    /\ clock \in Nat
    /\ cache \in [IPs -> {None} \cup Entry]
    /\ tor \in [ips : SUBSET Addresses, refreshed : Moment, at : Moment]
    /\ granted \in Seq([stamp : Nat, at : Nat])
    /\ stamps \subseteq DOMAIN granted /\ Cardinality(stamps) <= MaxRequests
    /\ thread \in [Threads -> {Idle} \cup Call]

\* However the threads interleave reading the clock and taking the lock, no
\* stretch shorter than a minute, less the longest delay, holds more requests
\* than the limit.
RateKept ==
    Cardinality({i \in DOMAIN granted : clock - granted[i].at < Minute - MaxDelay}) <= MaxRequests

\* The answer that ends a call in this step, from the cache or kept in it.
Answers(t) == ~At(t, "idle") /\ thread'[t].pc = "idle"
Answer(t) == cache'[thread[t].ip]

Recent(moment, span) == clock - moment < span

\* An address cannot stay hidden by a clean answer: the list it was missed in was
\* read less than Refresh before a lookup that was made less than the answer's
\* life ago, and AbuseIPDB was asked in it - or either failed to answer then, and
\* the failure hides the address no longer than that.
ListingSurfaces ==
    [][\A t \in Threads : Answers(t) /\ ~Answer(t).bad =>
          LET life == MaxDelay + (IF Answer(t).from = "nobody" /\ CleanTTL < TTL THEN CleanTTL ELSE TTL) IN
          /\ config.list => Recent(Answer(t).torAt, life + Refresh)
          /\ config.keyed => Recent(Answer(t).apiAt, life)]_vars

\* An address that left the feeds is not reported for ever: a malicious verdict
\* rests on what its feed said less than TTL (and for the list Refresh) ago, or
\* the list was asked for in vain since.
ListingExpires ==
    [][\A t \in Threads : Answers(t) /\ Answer(t).bad =>
          \/ Answer(t).from = "tor" /\ Recent(Answer(t).torAt, TTL + MaxDelay + Refresh)
          \/ Answer(t).from = "abuse" /\ Recent(Answer(t).apiAt, TTL + MaxDelay)]_vars
=============================================================================
