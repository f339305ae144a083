-------------------------- MODULE ThreatIntelProofs --------------------------
(***************************************************************************)
(* Proofs about ThreatIntel: the rate limit holds although the clock is    *)
(* read outside the lock, and an answer never rests on older news than its *)
(* life, the age of the list and the delay of the calls allow.             *)
(***************************************************************************)
EXTENDS ThreatIntel, FiniteSetTheorems, TLAPS

\* A call is not older than MaxDelay, and reads the clock within it.
CallsShort ==
    \A t \in Threads : thread[t] # Idle =>
        thread[t].now <= thread[t].mark /\ thread[t].mark <= clock /\ clock <= thread[t].now + MaxDelay

\* A request is let pass soon after its stamp was read, and a stamp that is
\* counted no more is a minute old.
StampsTrue ==
    \A i \in DOMAIN granted :
        /\ granted[i].at <= granted[i].stamp + MaxDelay
        /\ i \notin stamps => granted[i].stamp + Minute <= clock

\* The list is labelled with a time before it was read.
ListLabelled == tor.ips # {} => tor.refreshed <= tor.at

\* What a verdict reached in a call that began at now rests on.
Grounded(seen, now) ==
    /\ ~seen.bad => /\ config.list => now - seen.torAt < Refresh
                    /\ config.keyed => now <= seen.apiAt
    /\ seen.bad => \/ seen.from = "tor" /\ now - seen.torAt < Refresh
                   \/ seen.from = "abuse" /\ now <= seen.apiAt

\* The same along a call, by the point it has reached.
CallGrounded(c) ==
    /\ c.pc \in {"lookup", "clock", "age", "fetch"} => c.seen = Clean
    /\ c.pc = "store" => c.mark <= c.seen.torAt /\ ~c.seen.bad /\ c.seen.from = "nobody"
    /\ c.pc = "member" =>
           /\ c.seen.torAt = Never => c.now - tor.at < Refresh
           /\ c.seen.torAt # Never => c.now <= c.seen.torAt
           /\ ~c.seen.bad /\ c.seen.from = "nobody"
    /\ c.pc \in {"query", "limit", "ask"} =>
           /\ config.list => c.now - c.seen.torAt < Refresh
           /\ ~c.seen.bad /\ c.seen.from = "nobody"
    /\ c.pc = "keep" => Grounded(c.seen, c.now)

CallsGrounded == \A t \in Threads : thread[t] # Idle => CallGrounded(thread[t])

CacheGrounded ==
    \A ip \in IPs : cache[ip] # None =>
        /\ Grounded(cache[ip], cache[ip].began)
        /\ cache[ip].began <= clock
        /\ cache[ip].exp = cache[ip].began + Life(cache[ip])

IInv == TypeOK /\ CallsShort /\ StampsTrue /\ ListLabelled /\ CallsGrounded /\ CacheGrounded

-----------------------------------------------------------------------------
LEMMA NeverPast == Never \in Int /\ Never < 0
  BY IntelAssumption DEF Never

LEMMA CleanTyped == Clean \in Verdict
  BY DEF Clean, Verdict, Sources, Moment

\* A thread inside check_ip holds a whole record.
LEMMA InCall ==
  ASSUME TypeOK, NEW t \in Threads, thread[t].pc # "idle"
  PROVE  thread[t] \in Call
  BY DEF TypeOK, Idle

LEMMA CallNotIdle ==
  ASSUME NEW c \in Call
  PROVE  c # Idle /\ c.pc # "idle"
  BY DEF Call, Idle, Busy

LEMMA Element ==
  ASSUME NEW S, NEW s \in Seq(S)
  PROVE  \A i \in DOMAIN s : s[i] \in S
  OBVIOUS

\* Counting the stamps of one minute.
LEMMA CountedFinite ==
  ASSUME TypeOK, NEW now \in Nat
  PROVE  /\ IsFiniteSet(stamps)
         /\ Counted(now) \subseteq stamps
         /\ IsFiniteSet(Counted(now))
         /\ Cardinality(Counted(now)) \in Nat
         /\ Cardinality(Counted(now)) <= MaxRequests
  <1>1. IsFiniteSet(1..Len(granted)) /\ stamps \subseteq 1..Len(granted)
    <2>1. Len(granted) \in Nat /\ DOMAIN granted = 1..Len(granted)
      BY DEF TypeOK
    <2> QED
      BY <2>1, FS_Interval DEF TypeOK
  <1>2. IsFiniteSet(stamps)
    BY <1>1, FS_Subset
  <1>3. Counted(now) \subseteq stamps
    BY DEF Counted
  <1>4. IsFiniteSet(Counted(now)) /\ Cardinality(Counted(now)) <= Cardinality(stamps)
    BY <1>2, <1>3, FS_Subset
  <1>5. Cardinality(Counted(now)) \in Nat /\ Cardinality(stamps) \in Nat
    BY <1>2, <1>4, FS_CardinalityType
  <1> QED
    BY <1>2, <1>3, <1>4, <1>5, IntelAssumption DEF TypeOK

-----------------------------------------------------------------------------
LEMMA TypeInit == Init => TypeOK
  BY FS_EmptySet, IntelAssumption DEF Init, TypeOK, Moment

LEMMA TypeStep == TypeOK /\ [Next]_vars => TypeOK'
  <1> SUFFICES ASSUME TypeOK, [Next]_vars PROVE TypeOK'
    OBVIOUS
  <1> USE IntelAssumption
  <1>1. CASE Tick
    BY <1>1 DEF TypeOK, Tick
  <1>2. ASSUME NEW t \in Threads, NEW ip \in IPs, Begin(t, ip) PROVE TypeOK'
    <2>1. [pc |-> "lookup", ip |-> ip, now |-> clock, mark |-> clock, ips |-> {}, seen |-> Clean] \in Call
      BY CleanTyped DEF TypeOK, Call, Busy
    <2> QED
      BY <1>2, <2>1 DEF TypeOK, Begin
  <1>3. ASSUME NEW t \in Threads, Hit(t) PROVE TypeOK'
    BY <1>3 DEF TypeOK, Hit
  <1>4. ASSUME NEW t \in Threads, Miss(t) PROVE TypeOK'
    <2>1. thread[t] \in Call
      BY <1>4, InCall DEF Miss, At
    <2>2. thread'[t] \in Call /\ thread' = [thread EXCEPT ![t] = thread'[t]]
      BY <1>4, <2>1 DEF Miss, TypeOK, Call, Busy, Verdict, Sources, Moment
    <2> QED
      BY <1>4, <2>1, <2>2 DEF TypeOK, Miss, Call, Verdict
  <1>5. ASSUME NEW t \in Threads, CheckAge(t) PROVE TypeOK'
    <2>1. thread[t] \in Call
      BY <1>5, InCall DEF CheckAge, At
    <2>2. thread'[t] \in Call /\ thread' = [thread EXCEPT ![t] = thread'[t]]
      BY <1>5, <2>1 DEF CheckAge, Young, TypeOK, Call, Busy, Verdict, Sources, Moment
    <2> QED
      BY <1>5, <2>1, <2>2 DEF TypeOK, CheckAge, Call, Verdict
  <1>6. ASSUME NEW t \in Threads, Fetch(t) PROVE TypeOK'
    <2>1. thread[t] \in Call
      BY <1>6, InCall DEF Fetch, At
    <2>2. thread'[t] \in Call /\ thread' = [thread EXCEPT ![t] = thread'[t]]
      <3>1. PICK ips \in Lists :
              thread' = [thread EXCEPT ![t].pc = "store", ![t].ips = ips, ![t].seen.torAt = clock]
        BY <1>6 DEF Fetch
      <3>2. ips \in SUBSET Addresses /\ clock \in Moment
        BY DEF TypeOK, Moment
      <3> QED
        BY <2>1, <3>1, <3>2 DEF TypeOK, Call, Busy, Verdict
    <2> QED
      BY <1>6, <2>1, <2>2 DEF TypeOK, Fetch, Call, Verdict
  <1>7. ASSUME NEW t \in Threads, FetchFails(t) PROVE TypeOK'
    <2>1. thread[t] \in Call
      BY <1>7, InCall DEF FetchFails, At
    <2>2. thread'[t] \in Call /\ thread' = [thread EXCEPT ![t] = thread'[t]]
      BY <1>7, <2>1 DEF FetchFails, TypeOK, Call, Busy, Verdict, Sources, Moment
    <2> QED
      BY <1>7, <2>1, <2>2 DEF TypeOK, FetchFails, Call, Verdict
  <1>8. ASSUME NEW t \in Threads, StoreList(t) PROVE TypeOK'
    <2>1. thread[t] \in Call
      BY <1>8, InCall DEF StoreList, At
    <2>2. thread'[t] \in Call /\ thread' = [thread EXCEPT ![t] = thread'[t]]
      BY <1>8, <2>1 DEF StoreList, TypeOK, Call, Busy, Verdict, Sources, Moment
    <2>3. thread[t].mark \in Moment /\ thread[t].seen.torAt \in Moment /\ thread[t].ips \in SUBSET Addresses
      BY <2>1 DEF Call, Verdict, Moment
    <2>4. tor' \in [ips : SUBSET Addresses, refreshed : Moment, at : Moment]
      BY <1>8, <2>3 DEF StoreList
    <2> QED
      BY <1>8, <2>2, <2>4 DEF TypeOK, StoreList
  <1>9. ASSUME NEW t \in Threads, Member(t) PROVE TypeOK'
    <2>1. thread[t] \in Call
      BY <1>9, InCall DEF Member, At
    <2>2. thread'[t] \in Call /\ thread' = [thread EXCEPT ![t] = thread'[t]]
      <3>1. Tested(t) \in Verdict
        BY <2>1 DEF TypeOK, Tested, Listed, Call, Verdict, Sources
      <3> QED
        BY <1>9, <2>1, <3>1 DEF Member, TypeOK, Call, Busy
    <2> QED
      BY <1>9, <2>1, <2>2 DEF TypeOK, Member, Call, Verdict
  <1>10. ASSUME NEW t \in Threads, Query(t) PROVE TypeOK'
    <2>1. thread[t] \in Call
      BY <1>10, InCall DEF Query, At
    <2>2. thread'[t] \in Call /\ thread' = [thread EXCEPT ![t] = thread'[t]]
      BY <1>10, <2>1 DEF Query, TypeOK, Call, Busy, Verdict, Sources, Moment
    <2> QED
      BY <1>10, <2>1, <2>2 DEF TypeOK, Query, Call, Verdict
  <1>11. ASSUME NEW t \in Threads, LimitRefuses(t) PROVE TypeOK'
    <2>1. thread[t] \in Call
      BY <1>11, InCall DEF LimitRefuses, At
    <2>2. thread'[t] \in Call /\ thread' = [thread EXCEPT ![t] = thread'[t]]
      BY <1>11, <2>1 DEF LimitRefuses, TypeOK, Call, Busy, Verdict, Moment
    <2> QED
      BY <1>11, <2>1, <2>2, CountedFinite DEF TypeOK, LimitRefuses, Call
  <1>12. ASSUME NEW t \in Threads, LimitGrants(t) PROVE TypeOK'
    <2>1. thread[t] \in Call
      BY <1>12, InCall DEF LimitGrants, At
    <2>2. thread'[t] \in Call /\ thread' = [thread EXCEPT ![t] = thread'[t]]
      BY <1>12, <2>1 DEF LimitGrants, TypeOK, Call, Busy, Verdict, Moment
    <2>3. Cardinality(stamps') <= MaxRequests
      <3>1. Len(granted) + 1 \notin Counted(thread[t].mark)
        BY DEF TypeOK, Counted
      <3>2. Cardinality(Counted(thread[t].mark)) < MaxRequests
        BY <1>12, <2>1, CountedFinite DEF LimitGrants, Refused, Call
      <3>3. Cardinality(stamps') = Cardinality(Counted(thread[t].mark)) + 1
        BY <1>12, <2>1, <3>1, CountedFinite, FS_AddElement DEF LimitGrants, Call
      <3> QED
        BY <2>1, <3>2, <3>3, CountedFinite DEF Call
    <2>4. granted' \in Seq([stamp : Nat, at : Nat]) /\ Len(granted') = Len(granted) + 1
      BY <1>12, <2>1 DEF LimitGrants, TypeOK, Call
    <2>5. stamps' \subseteq DOMAIN granted'
      <3>1. Counted(thread[t].mark) \subseteq DOMAIN granted
        BY DEF TypeOK, Counted
      <3>2. DOMAIN granted' = 1..(Len(granted) + 1) /\ DOMAIN granted = 1..Len(granted) /\ Len(granted) \in Nat
        BY <1>12, <2>4 DEF LimitGrants, TypeOK
      <3> QED
        BY <1>12, <3>1, <3>2 DEF LimitGrants
    <2> QED
      BY <1>12, <2>2, <2>3, <2>4, <2>5 DEF TypeOK, LimitGrants
  <1>13. ASSUME NEW t \in Threads, Replied(t) PROVE TypeOK'
    <2>1. thread[t] \in Call
      BY <1>13, InCall DEF Replied, At
    <2>2. thread'[t] \in Call /\ thread' = [thread EXCEPT ![t] = thread'[t]]
      <3>1. PICK bad \in BOOLEAN :
              thread' = [thread EXCEPT ![t].pc = "keep",
                           ![t].seen = [@ EXCEPT !.from = "abuse", !.bad = bad, !.apiAt = clock]]
        BY <1>13 DEF Replied
      <3> DEFINE seen == [thread[t].seen EXCEPT !.from = "abuse", !.bad = bad, !.apiAt = clock]
      <3>2. seen \in Verdict
        BY <2>1 DEF TypeOK, Call, Verdict, Sources, Moment
      <3>3. thread' = [thread EXCEPT ![t].pc = "keep", ![t].seen = seen]
        BY <2>1, <3>1 DEF TypeOK, Call
      <3> HIDE DEF seen
      <3> QED
        BY <2>1, <3>2, <3>3 DEF TypeOK, Call, Busy
    <2> QED
      BY <1>13, <2>1, <2>2 DEF TypeOK, Replied, Call, Verdict
  <1>14. ASSUME NEW t \in Threads, RequestFails(t) PROVE TypeOK'
    <2>1. thread[t] \in Call
      BY <1>14, InCall DEF RequestFails, At
    <2>2. thread'[t] \in Call /\ thread' = [thread EXCEPT ![t] = thread'[t]]
      BY <1>14, <2>1 DEF RequestFails, TypeOK, Call, Busy, Verdict, Sources, Moment
    <2> QED
      BY <1>14, <2>1, <2>2 DEF TypeOK, RequestFails, Call, Verdict
  <1>15. ASSUME NEW t \in Threads, Keep(t) PROVE TypeOK'
    <2>1. thread[t] \in Call
      BY <1>15, InCall DEF Keep, At
    <2>2. Life(thread[t].seen) \in Nat
      BY DEF Life
    <2> DEFINE e == [from |-> thread[t].seen.from, bad |-> thread[t].seen.bad, torAt |-> thread[t].seen.torAt,
                     apiAt |-> thread[t].seen.apiAt, began |-> thread[t].now,
                     exp |-> thread[t].now + Life(thread[t].seen)]
    <2>3. e \in Entry
      BY <2>1, <2>2 DEF Entry, Call, Verdict
    <2>4. cache' = [cache EXCEPT ![thread[t].ip] = e]
      BY <1>15 DEF Keep
    <2>5. cache' \in [IPs -> {None} \cup Entry]
      BY <2>3, <2>4 DEF TypeOK
    <2> QED
      BY <1>15, <2>5 DEF TypeOK, Keep
  <1>17. ASSUME NEW t \in Threads, ReadClock(t) PROVE TypeOK'
    <2>1. thread[t] \in Call
      BY <1>17, InCall DEF ReadClock, At
    <2>2. thread'[t] \in Call /\ thread' = [thread EXCEPT ![t] = thread'[t]]
      BY <1>17, <2>1 DEF ReadClock, TypeOK, Call, Busy, Verdict, Sources, Moment
    <2> QED
      BY <1>17, <2>1, <2>2 DEF TypeOK, ReadClock, Call, Verdict
  <1>16. CASE UNCHANGED vars
    BY <1>16 DEF TypeOK, vars
  <1> QED
    BY <1>1, <1>2, <1>3, <1>4, <1>5, <1>6, <1>7, <1>8, <1>9, <1>10, <1>11, <1>12, <1>13, <1>14, <1>15, <1>16, <1>17 DEF Next, Step

\* What a step of a thread changes of the calls: its own moves on, reads the
\* clock at most, or ends; the clock stands.
Moves(t) ==
    /\ thread[t] \in Call
    /\ clock' = clock
    /\ \A u \in Threads \ {t} : thread'[u] = thread[u]
    /\ \/ thread'[t] = Idle
       \/ /\ thread'[t].now = thread[t].now /\ thread'[t].ip = thread[t].ip
          /\ thread'[t].mark \in {thread[t].now, thread[t].mark, clock}

LEMMA StepMoves ==
  ASSUME TypeOK, TypeOK', NEW t \in Threads, Step(t), ~\E ip \in IPs : Begin(t, ip)
  PROVE  Moves(t)
  <1>1. CASE Hit(t)
    <2>1. thread[t] \in Call
      BY <1>1, InCall DEF Hit, At
    <2> QED
      BY <1>1, <2>1 DEF Hit, Moves, TypeOK, Call
  <1>2. CASE Miss(t)
    <2>1. thread[t] \in Call
      BY <1>2, InCall DEF Miss, At
    <2> QED
      BY <1>2, <2>1 DEF Miss, Moves, TypeOK, Call
  <1>3. CASE CheckAge(t)
    <2>1. thread[t] \in Call
      BY <1>3, InCall DEF CheckAge, At
    <2> QED
      <3>1. \/ thread' = [thread EXCEPT ![t].pc = "member", ![t].mark = thread[t].now]
            \/ thread' = [thread EXCEPT ![t].pc = "fetch"]
        BY <1>3, <2>1 DEF CheckAge, TypeOK, Call
      <3> QED
        BY <1>3, <2>1, <3>1 DEF CheckAge, Moves, TypeOK, Call
  <1>4. CASE Fetch(t)
    <2>1. thread[t] \in Call
      BY <1>4, InCall DEF Fetch, At
    <2> QED
      BY <1>4, <2>1 DEF Fetch, Moves, TypeOK, Call
  <1>5. CASE FetchFails(t)
    <2>1. thread[t] \in Call
      BY <1>5, InCall DEF FetchFails, At
    <2> QED
      BY <1>5, <2>1 DEF FetchFails, Moves, TypeOK, Call
  <1>6. CASE StoreList(t)
    <2>1. thread[t] \in Call
      BY <1>6, InCall DEF StoreList, At
    <2> QED
      BY <1>6, <2>1 DEF StoreList, Moves, TypeOK, Call
  <1>7. CASE Member(t)
    <2>1. thread[t] \in Call
      BY <1>7, InCall DEF Member, At
    <2> QED
      BY <1>7, <2>1 DEF Member, Moves, TypeOK, Call
  <1>8. CASE Query(t)
    <2>1. thread[t] \in Call
      BY <1>8, InCall DEF Query, At
    <2> QED
      <3>1. \/ thread' = [thread EXCEPT ![t].pc = "keep"]
            \/ thread' = [thread EXCEPT ![t].pc = "limit", ![t].mark = clock]
        BY <1>8, <2>1 DEF Query, TypeOK, Call
      <3> QED
        BY <1>8, <2>1, <3>1 DEF Query, Moves, TypeOK, Call
  <1>9. CASE LimitRefuses(t)
    <2>1. thread[t] \in Call
      BY <1>9, InCall DEF LimitRefuses, At
    <2> QED
      BY <1>9, <2>1 DEF LimitRefuses, Moves, TypeOK, Call
  <1>10. CASE LimitGrants(t)
    <2>1. thread[t] \in Call
      BY <1>10, InCall DEF LimitGrants, At
    <2> QED
      BY <1>10, <2>1 DEF LimitGrants, Moves, TypeOK, Call
  <1>11. CASE Replied(t)
    <2>1. thread[t] \in Call
      BY <1>11, InCall DEF Replied, At
    <2> QED
      BY <1>11, <2>1 DEF Replied, Moves, TypeOK, Call
  <1>12. CASE RequestFails(t)
    <2>1. thread[t] \in Call
      BY <1>12, InCall DEF RequestFails, At
    <2> QED
      BY <1>12, <2>1 DEF RequestFails, Moves, TypeOK, Call
  <1>13. CASE Keep(t)
    <2>1. thread[t] \in Call
      BY <1>13, InCall DEF Keep, At
    <2> QED
      BY <1>13, <2>1 DEF Keep, Moves, TypeOK, Call
  <1>14. CASE ReadClock(t)
    <2>1. thread[t] \in Call
      BY <1>14, InCall DEF ReadClock, At
    <2> QED
      BY <1>14, <2>1 DEF ReadClock, Moves, TypeOK, Call
  <1> QED
    BY <1>1, <1>2, <1>3, <1>4, <1>5, <1>6, <1>7, <1>8, <1>9, <1>10, <1>11, <1>12, <1>13, <1>14 DEF Step

LEMMA CallsShortStep ==
  ASSUME TypeOK, TypeOK', CallsShort, [Next]_vars
  PROVE  CallsShort'
  <1> USE IntelAssumption
  <1>1. CASE Tick
    <2> SUFFICES ASSUME NEW t \in Threads, thread[t] # Idle
                 PROVE  /\ thread[t].now <= thread[t].mark /\ thread[t].mark <= clock'
                        /\ clock' <= thread[t].now + MaxDelay
      BY <1>1 DEF Tick, CallsShort
    <2>1. thread[t] \in Call /\ thread[t].pc # "idle"
      BY CallNotIdle DEF TypeOK
    <2> QED
      BY <1>1, <2>1 DEF Tick, CallsShort, At, TypeOK, Call
  <1>2. ASSUME NEW t \in Threads, NEW ip \in IPs, Begin(t, ip) PROVE CallsShort'
    BY <1>2 DEF Begin, CallsShort, TypeOK
  <1>3. ASSUME NEW t \in Threads, Moves(t) PROVE CallsShort'
    <2>1. thread[t] # Idle /\ thread[t].now \in Nat /\ thread[t].mark \in Nat /\ clock \in Nat
      BY <1>3, CallNotIdle DEF Moves, TypeOK, Call
    <2>2. /\ thread[t].now <= thread[t].mark /\ thread[t].mark <= clock
          /\ clock <= thread[t].now + MaxDelay
      BY <2>1 DEF CallsShort
    <2> SUFFICES ASSUME NEW u \in Threads, thread'[u] # Idle
                 PROVE  /\ thread'[u].now <= thread'[u].mark /\ thread'[u].mark <= clock
                        /\ clock <= thread'[u].now + MaxDelay
      BY <1>3 DEF Moves, CallsShort
    <2>3. CASE u = t
      BY <1>3, <2>1, <2>2, <2>3 DEF Moves
    <2>4. CASE u # t
      BY <1>3, <2>4 DEF Moves, CallsShort
    <2> QED
      BY <2>3, <2>4
  <1>4. CASE UNCHANGED vars
    BY <1>4 DEF vars, CallsShort
  <1> QED
    BY <1>1, <1>2, <1>3, <1>4, StepMoves DEF Next

LEMMA StampsStep ==
  ASSUME TypeOK, TypeOK', CallsShort, StampsTrue, [Next]_vars
  PROVE  StampsTrue'
  <1> USE IntelAssumption
  <1>1. \A i \in DOMAIN granted : granted[i].stamp \in Nat /\ granted[i].at \in Nat
    <2>0. granted \in Seq([stamp : Nat, at : Nat])
      BY DEF TypeOK
    <2>1. \A i \in DOMAIN granted : granted[i] \in [stamp : Nat, at : Nat]
      BY <2>0, Element
    <2> QED
      BY <2>1
  <1>2. CASE Tick
    BY <1>1, <1>2 DEF Tick, StampsTrue, TypeOK
  <1>3. CASE UNCHANGED <<stamps, granted, clock>>
    BY <1>3 DEF StampsTrue
  <1>4. ASSUME NEW t \in Threads, At(t, "limit"), clock' = clock
        PROVE  /\ thread[t].mark \in Nat /\ thread[t].mark <= clock /\ clock <= thread[t].mark + MaxDelay
               /\ \A i \in DOMAIN granted : i \notin Counted(thread[t].mark) => granted[i].stamp + Minute <= clock
    <2>1. thread[t] \in Call
      BY <1>4, InCall DEF At
    <2>2. thread[t].mark \in Nat /\ thread[t].now \in Nat /\ clock \in Nat /\ thread[t] # Idle
      BY <2>1, CallNotIdle DEF Call, TypeOK
    <2>3. thread[t].mark <= clock /\ clock <= thread[t].mark + MaxDelay
      BY <2>2 DEF CallsShort
    <2>4. ASSUME NEW i \in DOMAIN granted, i \notin Counted(thread[t].mark)
          PROVE  granted[i].stamp + Minute <= clock
      BY <1>1, <2>2, <2>3, <2>4 DEF StampsTrue, Counted
    <2> QED
      BY <2>2, <2>3, <2>4
  <1>5. ASSUME NEW t \in Threads, LimitRefuses(t) PROVE StampsTrue'
    BY <1>4, <1>5 DEF LimitRefuses, StampsTrue
  <1>6. ASSUME NEW t \in Threads, LimitGrants(t) PROVE StampsTrue'
    <2>1. granted' = Append(granted, [stamp |-> thread[t].mark, at |-> clock]) /\ clock' = clock
      BY <1>6 DEF LimitGrants
    <2>2. \A i \in DOMAIN granted : granted'[i] = granted[i]
      BY <2>1 DEF TypeOK
    <2>3. granted'[Len(granted) + 1] = [stamp |-> thread[t].mark, at |-> clock]
      BY <2>1 DEF TypeOK
    <2>4. DOMAIN granted' = DOMAIN granted \cup {Len(granted) + 1}
      BY <2>1 DEF TypeOK
    <2>5. stamps' = Counted(thread[t].mark) \cup {Len(granted) + 1}
      BY <1>6 DEF LimitGrants
    <2> QED
      BY <1>4, <1>6, <2>1, <2>2, <2>3, <2>4, <2>5 DEF StampsTrue, LimitGrants
  <1> QED
    BY <1>2, <1>3, <1>5, <1>6
    DEF Next, Step, vars, Begin, Hit, Miss, ReadClock, CheckAge, Fetch, FetchFails, StoreList, Member, Query, Replied,
        RequestFails, Keep

-----------------------------------------------------------------------------
\* A call in progress, its record and what it rests on.
LEMMA CallFacts ==
  ASSUME TypeOK, CallsShort, CallsGrounded, NEW t \in Threads, thread[t].pc # "idle"
  PROVE  /\ thread[t] \in Call /\ thread[t].now \in Nat /\ thread[t].mark \in Nat
         /\ thread[t].seen \in Verdict /\ thread[t].seen.torAt \in Int /\ thread[t].seen.apiAt \in Int
         /\ clock \in Nat /\ tor.at \in Int /\ tor.refreshed \in Int
         /\ thread[t].now <= thread[t].mark /\ thread[t].mark <= clock /\ clock <= thread[t].now + MaxDelay
         /\ CallGrounded(thread[t])
  <1>1. thread[t] \in Call
    BY InCall
  <1>2. thread[t] # Idle
    BY <1>1, CallNotIdle
  <1>3. \A x \in Moment : x \in Int
    BY NeverPast DEF Moment
  <1>4. tor.at \in Moment /\ tor.refreshed \in Moment
    BY DEF TypeOK
  <1>5. thread[t].seen \in Verdict /\ thread[t].seen.torAt \in Moment /\ thread[t].seen.apiAt \in Moment
    BY <1>1 DEF Call, Verdict
  <1>6. thread[t].now \in Nat /\ thread[t].mark \in Nat /\ clock \in Nat
    BY <1>1 DEF Call, TypeOK
  <1> QED
    BY <1>1, <1>2, <1>3, <1>4, <1>5, <1>6 DEF CallsShort, CallsGrounded

LEMMA ListStep ==
  ASSUME TypeOK, CallsShort, CallsGrounded, ListLabelled, [Next]_vars
  PROVE  ListLabelled'
  <1>1. ASSUME NEW t \in Threads, StoreList(t) PROVE ListLabelled'
    <2>1. thread[t].pc = "store" /\ CallGrounded(thread[t])
      BY <1>1, CallFacts DEF StoreList, At
    <2> QED
      BY <1>1, <2>1 DEF StoreList, ListLabelled, CallGrounded
  <1>2. CASE tor' = tor
    BY <1>2 DEF ListLabelled
  <1> QED
    BY <1>1, <1>2
    DEF Next, Step, vars, Tick, Begin, Hit, Miss, ReadClock, CheckAge, Fetch, FetchFails, Member, Query, LimitRefuses,
        LimitGrants, Replied, RequestFails, Keep

\* Where neither the list nor the call changes.
LEMMA Unmoved ==
  ASSUME CallsGrounded, NEW t \in Threads, thread[t] # Idle,
         thread'[t] = thread[t], config' = config, tor' = tor
  PROVE  CallGrounded(thread[t])'
  <1>1. CallGrounded(thread[t])
    BY DEF CallsGrounded
  <1> QED
    BY <1>1 DEF CallGrounded, Grounded

\* A list stored over another was read within the delay of its call, so it is
\* young enough for every other call.
LEMMA Overwritten ==
  ASSUME TypeOK, CallsShort, CallsGrounded, NEW t \in Threads, StoreList(t),
         NEW u \in Threads \ {t}, thread[u] # Idle
  PROVE  CallGrounded(thread[u])'
  <1> USE IntelAssumption
  <1>1. thread[t].pc = "store" /\ CallGrounded(thread[t]) /\ thread[t].seen.torAt \in Int
        /\ thread[t].mark \in Nat /\ thread[t].now \in Nat /\ clock \in Nat
        /\ thread[t].now <= thread[t].mark /\ clock <= thread[t].now + MaxDelay
    BY CallFacts DEF StoreList, At
  <1>2. tor'.at = thread[t].seen.torAt /\ config' = config /\ thread'[u] = thread[u]
    BY DEF StoreList, TypeOK
  <1>3. tor'.at \in Int /\ clock - tor'.at <= MaxDelay
    BY <1>1, <1>2 DEF CallGrounded
  <1>4. thread[u].pc # "idle"
    BY CallNotIdle DEF TypeOK
  <1>5. thread[u].now \in Nat /\ thread[u].now <= clock /\ CallGrounded(thread[u])
    BY <1>4, CallFacts
  <1>6. thread[u].now - tor'.at < Refresh
    BY <1>1, <1>3, <1>5
  <1> QED
    BY <1>2, <1>5, <1>6 DEF CallGrounded, Grounded

LEMMA CallsGroundedStep ==
  ASSUME TypeOK, TypeOK', CallsShort, ListLabelled, CallsGrounded, [Next]_vars
  PROVE  CallsGrounded'
  <1> USE IntelAssumption, NeverPast
  <1>1. CASE UNCHANGED <<thread, config, tor>>
    BY <1>1, Unmoved DEF CallsGrounded
  <1>2. ASSUME NEW t \in Threads, NEW u \in Threads, u # t, thread'[u] # Idle, config' = config,
               thread'[u] = thread[u], tor' = tor \/ StoreList(t)
        PROVE  CallGrounded(thread[u])'
    BY <1>2, Unmoved, Overwritten
  <1>3. ASSUME NEW t \in Threads, NEW ip \in IPs, Begin(t, ip) PROVE CallGrounded(thread[t])'
    <2>1. thread'[t].pc = "lookup" /\ thread'[t].seen = Clean
      BY <1>3 DEF Begin, TypeOK
    <2> QED
      BY <2>1 DEF CallGrounded
  <1>4. ASSUME NEW t \in Threads, Hit(t) PROVE thread'[t] = Idle
    BY <1>4 DEF Hit, TypeOK
  <1>5. ASSUME NEW t \in Threads, Miss(t) PROVE CallGrounded(thread[t])'
    <2>1. CallGrounded(thread[t]) /\ thread[t] \in Call
      BY <1>5, CallFacts DEF Miss, At
    <2> QED
      BY <1>5, <2>1, CallFacts DEF Miss, At, TypeOK, CallGrounded, Grounded, Clean
  <1>6. ASSUME NEW t \in Threads, CheckAge(t) PROVE CallGrounded(thread[t])'
    <2>1. CallGrounded(thread[t]) /\ thread[t] \in Call
      BY <1>6, CallFacts DEF CheckAge, At
    <2>2. /\ thread[t].pc = "age" /\ config' = config /\ thread[t].seen \in Verdict
          /\ thread[t].now \in Nat /\ thread[t].mark \in Nat /\ thread[t].now <= thread[t].mark
      BY <1>6, CallFacts DEF CheckAge, At
    <2>3. thread'[t].seen = Clean /\ thread'[t].now = thread[t].now /\ tor' = tor
      BY <1>6, <2>1, <2>2 DEF CheckAge, CallGrounded, TypeOK, Call
    <2>4. CASE Young(t)
      <3>1. /\ thread[t].mark - tor.refreshed < Refresh
            /\ tor.refreshed <= tor.at /\ tor.at \in Int /\ tor.refreshed \in Int
        BY <1>6, <2>2, <2>4, CallFacts DEF Young, ListLabelled
      <3>2. thread[t].now - tor.at < Refresh
        BY <2>2, <3>1
      <3>3. thread'[t].pc = "member"
        BY <1>6, <2>1, <2>4 DEF CheckAge, TypeOK, Call
      <3> QED
        BY <2>3, <3>2, <3>3 DEF CallGrounded, Clean
    <2>5. CASE ~Young(t)
      <3>1. thread'[t].pc = "fetch"
        BY <1>6, <2>1, <2>5 DEF CheckAge, TypeOK, Call
      <3> QED
        BY <2>3, <3>1 DEF CallGrounded
    <2> QED
      BY <2>4, <2>5
  <1>7. ASSUME NEW t \in Threads, Fetch(t) PROVE CallGrounded(thread[t])'
    <2>1. CallGrounded(thread[t]) /\ thread[t] \in Call
      BY <1>7, CallFacts DEF Fetch, At
    <2> QED
      BY <1>7, <2>1, CallFacts DEF Fetch, At, TypeOK, CallGrounded, Grounded, Clean
  <1>8. ASSUME NEW t \in Threads, FetchFails(t) PROVE CallGrounded(thread[t])'
    <2>1. CallGrounded(thread[t]) /\ thread[t] \in Call
      BY <1>8, CallFacts DEF FetchFails, At
    <2>2. /\ thread[t].pc = "fetch" /\ config' = config /\ thread[t].seen \in Verdict
          /\ thread[t].now \in Nat /\ clock \in Nat /\ thread[t].now <= clock
      BY <1>8, CallFacts DEF FetchFails, At
    <2>3. thread'[t].pc = "member" /\ thread'[t].now = thread[t].now
      BY <1>8, <2>1 DEF FetchFails, TypeOK, Call
    <2>4. thread'[t].seen = [Clean EXCEPT !.torAt = clock]
      BY <1>8, <2>1, <2>2 DEF FetchFails, TypeOK, Call, CallGrounded
    <2> QED
      BY <2>2, <2>3, <2>4 DEF CallGrounded, Clean
  <1>9. ASSUME NEW t \in Threads, StoreList(t) PROVE CallGrounded(thread[t])'
    <2>1. CallGrounded(thread[t]) /\ thread[t] \in Call
      BY <1>9, CallFacts DEF StoreList, At
    <2>2. /\ thread[t].pc = "store" /\ config' = config /\ thread[t].seen \in Verdict
          /\ thread[t].now \in Nat /\ clock \in Nat /\ thread[t].now <= clock
      BY <1>9, CallFacts DEF StoreList, At
    <2>3. thread'[t].pc = "member" /\ thread'[t].now = thread[t].now
      BY <1>9, <2>1 DEF StoreList, TypeOK, Call
    <2>4. thread'[t].seen = [thread[t].seen EXCEPT !.torAt = Never]
      BY <1>9, <2>1 DEF StoreList, TypeOK, Call
    <2>5. tor'.at = thread[t].seen.torAt
      BY <1>9 DEF StoreList
    <2>6. thread[t].seen.torAt \in Int /\ thread[t].now <= thread[t].seen.torAt
      BY <1>9, <2>1, <2>2, CallFacts DEF CallGrounded
    <2>7. thread'[t].now - tor'.at < Refresh
      BY <2>2, <2>3, <2>5, <2>6
    <2>8. thread'[t].seen.torAt = Never /\ ~thread'[t].seen.bad /\ thread'[t].seen.from = "nobody"
      BY <2>1, <2>2, <2>4 DEF CallGrounded, Verdict
    <2> QED
      BY <2>3, <2>7, <2>8 DEF CallGrounded
  <1>10. ASSUME NEW t \in Threads, Member(t) PROVE CallGrounded(thread[t])'
    <2>1. CallGrounded(thread[t]) /\ thread[t] \in Call
      BY <1>10, CallFacts DEF Member, At
    <2>2. /\ thread[t].pc = "member" /\ config' = config /\ thread[t].seen \in Verdict
          /\ thread[t].now \in Nat /\ clock \in Nat /\ thread[t].now <= clock
      BY <1>10, CallFacts DEF Member, At
    <2>3. thread'[t].pc = (IF Listed(t) THEN "keep" ELSE "query") /\ thread'[t].now = thread[t].now
          /\ thread'[t].seen = Tested(t) /\ tor' = tor
      BY <1>10, <2>1 DEF Member, TypeOK, Call
    <2>4. thread[t].seen.torAt \in Int /\ tor.at \in Int
      BY <1>10, <2>2, CallFacts
    <2>5. thread[t].now - Tested(t).torAt < Refresh
      BY <2>1, <2>2, <2>4 DEF Tested, CallGrounded
    <2> QED
      BY <2>2, <2>3, <2>5 DEF CallGrounded, Grounded, Tested
  <1>11. ASSUME NEW t \in Threads, Query(t) PROVE CallGrounded(thread[t])'
    <2>1. CallGrounded(thread[t]) /\ thread[t] \in Call
      BY <1>11, CallFacts DEF Query, At
    <2> QED
      BY <1>11, <2>1, CallFacts DEF Query, At, TypeOK, CallGrounded, Grounded, Clean
  <1>12. ASSUME NEW t \in Threads, LimitRefuses(t) PROVE CallGrounded(thread[t])'
    <2>1. CallGrounded(thread[t]) /\ thread[t] \in Call
      BY <1>12, CallFacts DEF LimitRefuses, At
    <2>2. /\ thread[t].pc = "limit" /\ config' = config /\ thread[t].seen \in Verdict
          /\ thread[t].now \in Nat /\ clock \in Nat /\ thread[t].now <= clock
      BY <1>12, CallFacts DEF LimitRefuses, At
    <2>3. thread'[t].pc = "keep" /\ thread'[t].now = thread[t].now
      BY <1>12, <2>1 DEF LimitRefuses, TypeOK, Call
    <2>4. thread'[t].seen = [thread[t].seen EXCEPT !.apiAt = clock]
      BY <1>12, <2>1 DEF LimitRefuses, TypeOK, Call
    <2>5. /\ thread'[t].seen.apiAt = clock /\ thread'[t].seen.torAt = thread[t].seen.torAt
          /\ ~thread'[t].seen.bad
      BY <2>1, <2>2, <2>4 DEF CallGrounded, Verdict
    <2> QED
      BY <2>1, <2>2, <2>3, <2>5 DEF CallGrounded, Grounded
  <1>13. ASSUME NEW t \in Threads, LimitGrants(t) PROVE CallGrounded(thread[t])'
    <2>1. CallGrounded(thread[t]) /\ thread[t] \in Call
      BY <1>13, CallFacts DEF LimitGrants, At
    <2> QED
      BY <1>13, <2>1, CallFacts DEF LimitGrants, At, TypeOK, CallGrounded, Grounded, Clean
  <1>14. ASSUME NEW t \in Threads, Replied(t) PROVE CallGrounded(thread[t])'
    <2>1. CallGrounded(thread[t]) /\ thread[t] \in Call
      BY <1>14, CallFacts DEF Replied, At
    <2>2. /\ thread[t].pc = "ask" /\ config' = config /\ thread[t].seen \in Verdict
          /\ thread[t].now \in Nat /\ clock \in Nat /\ thread[t].now <= clock
      BY <1>14, CallFacts DEF Replied, At
    <2>3. PICK bad \in BOOLEAN :
            thread' = [thread EXCEPT ![t].pc = "keep",
                         ![t].seen = [@ EXCEPT !.from = "abuse", !.bad = bad, !.apiAt = clock]]
      BY <1>14 DEF Replied
    <2>4. thread'[t].pc = "keep" /\ thread'[t].now = thread[t].now
          /\ thread'[t].seen = [thread[t].seen EXCEPT !.from = "abuse", !.bad = bad, !.apiAt = clock]
      BY <2>1, <2>3 DEF TypeOK, Call
    <2>5. /\ thread'[t].seen.apiAt = clock /\ thread'[t].seen.torAt = thread[t].seen.torAt
          /\ thread'[t].seen.from = "abuse"
      BY <2>2, <2>4 DEF Verdict
    <2> QED
      BY <2>1, <2>2, <2>4, <2>5 DEF CallGrounded, Grounded
  <1>15. ASSUME NEW t \in Threads, RequestFails(t) PROVE CallGrounded(thread[t])'
    <2>1. CallGrounded(thread[t]) /\ thread[t] \in Call
      BY <1>15, CallFacts DEF RequestFails, At
    <2>2. /\ thread[t].pc = "ask" /\ config' = config /\ thread[t].seen \in Verdict
          /\ thread[t].now \in Nat /\ clock \in Nat /\ thread[t].now <= clock
      BY <1>15, CallFacts DEF RequestFails, At
    <2>3. thread'[t].pc = "keep" /\ thread'[t].now = thread[t].now
      BY <1>15, <2>1 DEF RequestFails, TypeOK, Call
    <2>4. thread'[t].seen = [thread[t].seen EXCEPT !.apiAt = clock]
      BY <1>15, <2>1 DEF RequestFails, TypeOK, Call
    <2>5. /\ thread'[t].seen.apiAt = clock /\ thread'[t].seen.torAt = thread[t].seen.torAt
          /\ ~thread'[t].seen.bad
      BY <2>1, <2>2, <2>4 DEF CallGrounded, Verdict
    <2> QED
      BY <2>1, <2>2, <2>3, <2>5 DEF CallGrounded, Grounded
  <1>16. ASSUME NEW t \in Threads, Keep(t) PROVE thread'[t] = Idle
    BY <1>16 DEF Keep, TypeOK
  <1>18. ASSUME NEW t \in Threads, ReadClock(t) PROVE CallGrounded(thread[t])'
    <2>1. CallGrounded(thread[t]) /\ thread[t] \in Call
      BY <1>18, CallFacts DEF ReadClock, At
    <2> QED
      BY <1>18, <2>1, CallFacts DEF ReadClock, At, TypeOK, Call, CallGrounded, Clean
  <1>17. ASSUME NEW t \in Threads, Step(t) PROVE CallsGrounded'
    <2>1. thread'[t] # Idle => CallGrounded(thread[t])'
      BY <1>17, <1>3, <1>4, <1>5, <1>6, <1>7, <1>8, <1>9, <1>10, <1>11, <1>12, <1>13, <1>14, <1>15, <1>16, <1>18 DEF Step
    <2>2. \A u \in Threads \ {t} : thread'[u] = thread[u]
      BY <1>17, StepMoves DEF Moves, Begin, TypeOK
    <2>3. config' = config /\ (tor' = tor \/ StoreList(t))
      BY <1>17
      DEF Step, Begin, Hit, Miss, ReadClock, CheckAge, Fetch, FetchFails, Member, Query, LimitRefuses, LimitGrants, Replied,
          RequestFails, Keep, StoreList
    <2> QED
      BY <1>2, <2>1, <2>2, <2>3 DEF CallsGrounded
  <1> QED
    BY <1>1, <1>17 DEF Next, Tick, vars

LEMMA CacheStep ==
  ASSUME TypeOK, TypeOK', CallsShort, CallsGrounded, CacheGrounded, [Next]_vars
  PROVE  CacheGrounded'
  <1> USE IntelAssumption
  <1>1. \A ip \in IPs : cache[ip] # None => cache[ip].began \in Nat
    BY DEF TypeOK, Entry
  <1>2. CASE cache' = cache /\ config' = config /\ clock' \in {clock, clock + 1}
    BY <1>1, <1>2 DEF CacheGrounded, Grounded, TypeOK
  <1>3. ASSUME NEW t \in Threads, Keep(t) PROVE CacheGrounded'
    <2>1. thread[t] \in Call /\ Grounded(thread[t].seen, thread[t].now) /\ thread[t].now <= clock
      BY <1>3, CallFacts DEF Keep, At, CallGrounded
    <2> DEFINE seen == thread[t].seen
               e == [from |-> seen.from, bad |-> seen.bad, torAt |-> seen.torAt, apiAt |-> seen.apiAt,
                     began |-> thread[t].now, exp |-> thread[t].now + Life(seen)]
    <2>2. thread[t].ip \in IPs /\ cache' = [cache EXCEPT ![thread[t].ip] = e] /\ config' = config /\ clock' = clock
      BY <1>3, <2>1 DEF Keep, Call
    <2>3. Life(e) = Life(seen)
      BY DEF Life
    <2>4. Grounded(e, e.began) /\ e.began <= clock /\ e.exp = e.began + Life(e)
      BY <2>1, <2>3 DEF Grounded
    <2> HIDE DEF e
    <2> SUFFICES ASSUME NEW ip \in IPs, cache'[ip] # None
                 PROVE  /\ Grounded(cache[ip], cache[ip].began)'
                        /\ cache'[ip].began <= clock' /\ cache'[ip].exp = cache'[ip].began + Life(cache'[ip])
      BY DEF CacheGrounded, Life
    <2>5. CASE ip = thread[t].ip
      <3>1. cache'[ip] = e
        BY <2>2, <2>5 DEF TypeOK
      <3> QED
        BY <2>2, <2>4, <3>1 DEF Grounded
    <2>6. CASE ip # thread[t].ip
      <3>1. cache'[ip] = cache[ip]
        BY <2>2, <2>6 DEF TypeOK
      <3> QED
        BY <2>2, <3>1 DEF Grounded, CacheGrounded
    <2> QED
      BY <2>5, <2>6
  <1> QED
    BY <1>2, <1>3
    DEF Next, Step, vars, Tick, Begin, Hit, Miss, ReadClock, CheckAge, Fetch, FetchFails, StoreList, Member, Query,
        LimitRefuses, LimitGrants, Replied, RequestFails

-----------------------------------------------------------------------------
LEMMA IInvInit == Init => IInv
  <1> SUFFICES ASSUME Init PROVE IInv
    OBVIOUS
  <1>1. TypeOK
    BY TypeInit
  <1>2. CallsShort /\ CallsGrounded /\ CacheGrounded
    BY DEF Init, CallsShort, CallsGrounded, CacheGrounded
  <1>3. StampsTrue /\ ListLabelled
    BY DEF Init, StampsTrue, ListLabelled
  <1> QED
    BY <1>1, <1>2, <1>3 DEF IInv

LEMMA IInvStep == IInv /\ [Next]_vars => IInv'
  BY TypeStep, CallsShortStep, StampsStep, ListStep, CallsGroundedStep, CacheStep DEF IInv

LEMMA IInvAlways == Spec => []IInv
  BY IInvInit, IInvStep, PTL DEF Spec

\* Entries, calls, stamps and the list keep their shape, and the limit never
\* counts more stamps than it grants.
THEOREM IntelTypeCorrect == Spec => []TypeOK
  BY IInvAlways, PTL DEF IInv

\* The requests of every stretch shorter than a minute, less the longest delay,
\* are still among the stamps: whoever dropped one read the clock a minute after
\* its stamp.  So the limit that the code puts on the stamps holds for them.
THEOREM IntelRateKept == Spec => []RateKept
  <1> USE IntelAssumption
  <1>1. IInv => RateKept
    <2> SUFFICES ASSUME IInv PROVE RateKept
      OBVIOUS
    <2> DEFINE late == {i \in DOMAIN granted : clock - granted[i].at < Minute - MaxDelay}
    <2>1. TypeOK /\ StampsTrue /\ clock \in Nat
      BY DEF IInv, TypeOK
    <2>2. granted \in Seq([stamp : Nat, at : Nat])
      BY <2>1 DEF TypeOK
    <2>3. \A i \in DOMAIN granted : granted[i] \in [stamp : Nat, at : Nat]
      BY <2>2, Element
    <2>4. late \subseteq stamps
      BY <2>1, <2>3 DEF StampsTrue
    <2>5. IsFiniteSet(stamps)
      BY <2>1, CountedFinite
    <2>6. IsFiniteSet(late) /\ Cardinality(late) <= Cardinality(stamps)
      BY <2>4, <2>5, FS_Subset
    <2>7. Cardinality(late) \in Nat /\ Cardinality(stamps) \in Nat /\ Cardinality(stamps) <= MaxRequests
      BY <2>1, <2>5, <2>6, FS_CardinalityType DEF TypeOK
    <2> QED
      BY <2>6, <2>7 DEF RateKept
  <1> QED
    BY <1>1, IInvAlways, PTL

\* A call that answers either found the answer or keeps it now; in both cases the
\* entry is grounded, and younger than its life and the delay.
LEMMA AnswerGrounded ==
  ASSUME IInv, IInv', Next, NEW t \in Threads, Answers(t)
  PROVE  /\ Answer(t).torAt \in Int /\ Answer(t).apiAt \in Int /\ Answer(t).began \in Nat
         /\ clock \in Nat /\ Life(Answer(t)) \in Nat
         /\ clock < Answer(t).began + Life(Answer(t)) + MaxDelay
         /\ Grounded(Answer(t), Answer(t).began)
  <1> USE IntelAssumption
  <1> DEFINE ip == thread[t].ip
  <1>1. TypeOK /\ TypeOK' /\ CallsShort /\ CallsGrounded /\ CacheGrounded /\ CacheGrounded'
    BY DEF IInv
  <1>2. /\ thread[t] \in Call /\ thread[t].now \in Nat /\ clock \in Nat
        /\ thread[t].now <= clock /\ clock <= thread[t].now + MaxDelay
    BY <1>1, CallFacts DEF Answers, At
  <1>3. PICK u \in Threads : Step(u)
    BY DEF Next, Tick, Answers, At
  <1>4. u = t
    <2>1. ASSUME NEW i \in IPs, Begin(u, i) PROVE u = t
      BY <1>1, <2>1 DEF Begin, Answers, At, TypeOK
    <2>2. CASE ~\E i \in IPs : Begin(u, i)
      BY <1>1, <1>3, <2>2, StepMoves DEF Moves, Answers, At
    <2> QED
      BY <2>1, <2>2
  <1>5. Hit(t) \/ Keep(t)
    <2>1. thread'[t].pc = "idle"
      BY DEF Answers
    <2>2. ~\E i \in IPs : Begin(t, i)
      BY DEF Begin, Answers
    <2>3. ~Miss(t)
      <3> SUFFICES ASSUME Miss(t) PROVE thread'[t].pc # "idle"
        BY <2>1
      <3> QED
        BY <1>1, <1>2 DEF TypeOK, Call, Miss
    <2>4. ~CheckAge(t)
      <3> SUFFICES ASSUME CheckAge(t) PROVE thread'[t].pc # "idle"
        BY <2>1
      <3> QED
        BY <1>1, <1>2 DEF TypeOK, Call, CheckAge
    <2>5. ~Fetch(t)
      <3> SUFFICES ASSUME Fetch(t) PROVE thread'[t].pc # "idle"
        BY <2>1
      <3> QED
        BY <1>1, <1>2 DEF TypeOK, Call, Fetch
    <2>6. ~FetchFails(t)
      <3> SUFFICES ASSUME FetchFails(t) PROVE thread'[t].pc # "idle"
        BY <2>1
      <3> QED
        BY <1>1, <1>2 DEF TypeOK, Call, FetchFails
    <2>7. ~StoreList(t)
      <3> SUFFICES ASSUME StoreList(t) PROVE thread'[t].pc # "idle"
        BY <2>1
      <3> QED
        BY <1>1, <1>2 DEF TypeOK, Call, StoreList
    <2>8. ~Member(t)
      <3> SUFFICES ASSUME Member(t) PROVE thread'[t].pc # "idle"
        BY <2>1
      <3> QED
        BY <1>1, <1>2 DEF TypeOK, Call, Member
    <2>9. ~Query(t)
      <3> SUFFICES ASSUME Query(t) PROVE thread'[t].pc # "idle"
        BY <2>1
      <3> QED
        BY <1>1, <1>2 DEF TypeOK, Call, Query
    <2>10. ~LimitRefuses(t)
      <3> SUFFICES ASSUME LimitRefuses(t) PROVE thread'[t].pc # "idle"
        BY <2>1
      <3> QED
        BY <1>1, <1>2 DEF TypeOK, Call, LimitRefuses
    <2>11. ~LimitGrants(t)
      <3> SUFFICES ASSUME LimitGrants(t) PROVE thread'[t].pc # "idle"
        BY <2>1
      <3> QED
        BY <1>1, <1>2 DEF TypeOK, Call, LimitGrants
    <2>12. ~Replied(t)
      <3> SUFFICES ASSUME Replied(t) PROVE thread'[t].pc # "idle"
        BY <2>1
      <3> QED
        BY <1>1, <1>2 DEF TypeOK, Call, Replied
    <2>13. ~RequestFails(t)
      <3> SUFFICES ASSUME RequestFails(t) PROVE thread'[t].pc # "idle"
        BY <2>1
      <3> QED
        BY <1>1, <1>2 DEF TypeOK, Call, RequestFails
    <2>14. ~ReadClock(t)
      <3> SUFFICES ASSUME ReadClock(t) PROVE thread'[t].pc # "idle"
        BY <2>1
      <3> QED
        BY <1>1, <1>2 DEF TypeOK, Call, ReadClock
    <2> QED
      BY <1>3, <1>4, <2>2, <2>3, <2>4, <2>5, <2>6, <2>7, <2>8, <2>9, <2>10, <2>11, <2>12, <2>13, <2>14 DEF Step
  <1>6. ip \in IPs /\ config' = config /\ clock' = clock
    BY <1>2, <1>5 DEF Hit, Keep, Call
  <1>7. Answer(t) # None /\ clock < Answer(t).exp + MaxDelay
    <2>1. CASE Hit(t)
      <3>1. cache[ip] # None /\ thread[t].now < cache[ip].exp /\ cache' = cache
        BY <2>1 DEF Hit, Live
      <3>2. cache[ip].exp \in Nat
        BY <1>1, <1>6, <3>1 DEF TypeOK, Entry
      <3> QED
        BY <1>2, <3>1, <3>2 DEF Answer
    <2>2. CASE Keep(t)
      <3> DEFINE e == [from |-> thread[t].seen.from, bad |-> thread[t].seen.bad, torAt |-> thread[t].seen.torAt,
                       apiAt |-> thread[t].seen.apiAt, began |-> thread[t].now,
                       exp |-> thread[t].now + Life(thread[t].seen)]
      <3>1. cache' = [cache EXCEPT ![ip] = e]
        BY <2>2 DEF Keep
      <3>2. cache'[ip] = e
        BY <1>1, <1>6, <3>1 DEF TypeOK
      <3>3. e # None
        BY DEF None
      <3>4. Life(thread[t].seen) \in Nat \ {0}
        BY DEF Life
      <3> QED
        BY <1>2, <3>2, <3>3, <3>4 DEF Answer
    <2> QED
      BY <1>5, <2>1, <2>2
  <1>8. Answer(t) \in Entry
    BY <1>1, <1>6, <1>7 DEF Answer, TypeOK
  <1>9. Grounded(Answer(t), Answer(t).began) /\ Answer(t).exp = Answer(t).began + Life(Answer(t))
    <2>0. PICK a \in IPs : a = thread[t].ip
      BY <1>6
    <2>1. Answer(t) = cache'[a] /\ cache'[a] # None
      BY <1>7, <2>0 DEF Answer
    <2>2. Grounded(cache[a], cache[a].began)' /\ cache'[a].exp = cache'[a].began + Life(cache'[a])
      <3>1. CacheGrounded' => \A x \in IPs : cache'[x] # None =>
              /\ Grounded(cache[x], cache[x].began)' /\ cache'[x].exp = cache'[x].began + Life(cache'[x])
        BY DEF CacheGrounded, Life, Grounded
      <3> QED
        BY <1>1, <2>1, <3>1
    <2> QED
      BY <1>6, <2>1, <2>2 DEF Grounded
  <1> QED
    <2>1. \A x \in Moment : x \in Int
      BY NeverPast DEF Moment
    <2>2. Answer(t).torAt \in Int /\ Answer(t).apiAt \in Int /\ Answer(t).began \in Nat
      BY <1>8, <2>1 DEF Entry
    <2>3. Life(Answer(t)) \in Nat
      BY DEF Life
    <2> QED
      BY <1>2, <1>6, <1>7, <1>9, <2>2, <2>3 DEF Grounded

\* A listed address cannot stay hidden: whatever the threads do at once, a clean
\* answer rests on feeds read, or asked in vain, within its life and the age of
\* the list.
THEOREM IntelListingSurfaces == Spec => ListingSurfaces
  <1> USE IntelAssumption
  <1>1. ASSUME IInv, IInv', Next, NEW t \in Threads, Answers(t), ~Answer(t).bad
        PROVE  LET life == MaxDelay + (IF Answer(t).from = "nobody" /\ CleanTTL < TTL THEN CleanTTL ELSE TTL) IN
               /\ config.list => Recent(Answer(t).torAt, life + Refresh)
               /\ config.keyed => Recent(Answer(t).apiAt, life)
    BY <1>1, AnswerGrounded DEF Grounded, Recent, Life
  <1>2. IInv /\ IInv' /\ [Next]_vars =>
          [\A t \in Threads : Answers(t) /\ ~Answer(t).bad =>
              LET life == MaxDelay + (IF Answer(t).from = "nobody" /\ CleanTTL < TTL THEN CleanTTL ELSE TTL) IN
              /\ config.list => Recent(Answer(t).torAt, life + Refresh)
              /\ config.keyed => Recent(Answer(t).apiAt, life)]_vars
    BY <1>1
  <1> QED
    BY <1>2, IInvAlways, PTL DEF Spec, ListingSurfaces

\* An address that left the feeds is not reported for ever.
THEOREM IntelListingExpires == Spec => ListingExpires
  <1> USE IntelAssumption
  <1>1. ASSUME IInv, IInv', Next, NEW t \in Threads, Answers(t), Answer(t).bad
        PROVE  \/ Answer(t).from = "tor" /\ Recent(Answer(t).torAt, TTL + MaxDelay + Refresh)
               \/ Answer(t).from = "abuse" /\ Recent(Answer(t).apiAt, TTL + MaxDelay)
    BY <1>1, AnswerGrounded DEF Grounded, Recent, Life
  <1>2. IInv /\ IInv' /\ [Next]_vars =>
          [\A t \in Threads : Answers(t) /\ Answer(t).bad =>
              \/ Answer(t).from = "tor" /\ Recent(Answer(t).torAt, TTL + MaxDelay + Refresh)
              \/ Answer(t).from = "abuse" /\ Recent(Answer(t).apiAt, TTL + MaxDelay)]_vars
    BY <1>1
  <1> QED
    BY <1>2, IInvAlways, PTL DEF Spec, ListingExpires
=============================================================================
