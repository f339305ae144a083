----------------------------- MODULE FlowTracker -----------------------------
(***************************************************************************)
(* The flow tracker: every ingested event joins the active flow of its     *)
(* conversation or starts one, and now and then the expired flows move to  *)
(* a bounded list of completed ones.  process_event does all of it under   *)
(* one lock, so it is one step; events come with their own timestamps, in  *)
(* whatever order the ingesting threads get the lock.                      *)
(*                                                                         *)
(* A flow counts packets: the model keeps which ones.  Byte counts, packet *)
(* lengths, inter-arrival times, flag counts and application metadata are  *)
(* written here and read only for display; they are left out.              *)
(***************************************************************************)
EXTENDS Integers, Sequences, FiniteSets

CONSTANTS
    Endpoints,      \* (address, port) pairs, as numbers in their order
    Protocols,      \* protocol names, in capitals
    FlagSets,       \* TCP flags of an event: sets of "S", "A", "R", "F"
    Times,          \* timestamps of events
    Started,        \* the wall clock when the tracker was built
    IdleTimeout,    \* idle_timeout
    ActiveTimeout,  \* active_timeout
    CleanupPeriod,  \* 5 seconds
    RingSize,       \* capacity of completed_flows (5000)
    None,           \* no event yet
    Inputs,         \* the events that may come in
    MaxEvents       \* bound on the events processed

Events == [src : Endpoints, dst : Endpoints, proto : Protocols, flags : FlagSets, ts : Times]

ASSUME FlowAssumption ==
    /\ Inputs \subseteq Events
    /\ Endpoints \subseteq Nat
    /\ \A flags \in FlagSets : flags \subseteq {"S", "A", "R", "F"}
    /\ Times \subseteq Int
    /\ Started \in Int
    /\ IdleTimeout \in Nat
    /\ ActiveTimeout \in Nat
    /\ CleanupPeriod \in Nat
    /\ RingSize \in Nat \ {0}
    /\ None \notin Int
    /\ MaxEvents \in Nat

VARIABLES
    active,       \* active_flows: the flow of each canonical key
    completed,    \* completed_flows
    lastCleanup,  \* _last_cleanup
    log,          \* history: the events processed, in order
    forgotten,    \* history: flows that the list of completed ones has dropped
    newest,       \* history: the latest timestamp so far
    inOrder       \* history: no event was older than one before it

vars == <<active, completed, lastCleanup, log, forgotten, newest, inOrder>>

-----------------------------------------------------------------------------
\* Mutant of Key: the key keeps the direction.
DirectedKey(src, dst, proto) == <<src, dst, proto>>

\* make_flow_key: the same for both directions of a conversation.
Key(src, dst, proto) == IF src <= dst THEN <<src, dst, proto>> ELSE <<dst, src, proto>>

\* Cleanup also looks for "CLOSED", a state that no event leads to.
States == {"UNKNOWN", "SYN_SENT", "SYN_RCVD", "ESTABLISHED", "FIN_WAIT", "RESET"}

\* A flow; born is its place in the order of creation, which is the order of
\* the dict, and ended the time of the cleanup that completed it.
Flows == [src : Endpoints, dst : Endpoints, proto : Protocols, start : Int, last : Int,
          fwd : SUBSET (1..MaxEvents), bwd : SUBSET (1..MaxEvents),
          state : States, born : 1..MaxEvents, ended : Int \union {None}]

Init ==
    /\ active = [key \in {} |-> None]
    /\ completed = {}
    /\ lastCleanup = Started
    /\ log = <<>>
    /\ forgotten = {}
    /\ newest = None
    /\ inOrder = TRUE

\* A new FlowRecord.
NewFlow(e) ==
    [src |-> e.src, dst |-> e.dst, proto |-> e.proto, start |-> e.ts, last |-> e.ts,
     fwd |-> {}, bwd |-> {}, state |-> "UNKNOWN",
     born |-> Len(log) + 1, ended |-> None]

\* Mutant of TcpState: an ACK alone completes a handshake without SYN-ACK.
TcpStateLoose(state, flags) ==
    CASE "S" \in flags /\ "A" \notin flags -> "SYN_SENT"
      [] "S" \in flags /\ "A" \in flags -> "SYN_RCVD"
      [] "S" \notin flags /\ "R" \in flags -> "RESET"
      [] "S" \notin flags /\ "R" \notin flags /\ "F" \in flags -> "FIN_WAIT"
      [] flags = {"A"} /\ state \in {"SYN_SENT", "SYN_RCVD", "UNKNOWN"} -> "ESTABLISHED"
      [] OTHER -> state

\* The TCP state after a packet with these flags.
TcpState(state, flags) ==
    CASE "S" \in flags /\ "A" \notin flags -> "SYN_SENT"
      [] "S" \in flags /\ "A" \in flags -> "SYN_RCVD"
      [] "S" \notin flags /\ "R" \in flags -> "RESET"
      [] "S" \notin flags /\ "R" \notin flags /\ "F" \in flags -> "FIN_WAIT"
      [] flags = {"A"} /\ state \in {"SYN_RCVD", "UNKNOWN"} -> "ESTABLISHED"
      [] OTHER -> state

\* The flow f after event e, packet number n: its time is that of the event,
\* even if older, its counter that of the direction.
Updated(f, e, n) ==
    LET forward == e.src = f.src
    IN  [f EXCEPT !.last  = e.ts,
                  !.fwd   = IF forward THEN @ \union {n} ELSE @,
                  !.bwd   = IF forward THEN @ ELSE @ \union {n},
                  !.state = IF e.proto = "TCP" THEN TcpState(@, e.flags) ELSE @]

\* The flow that event e belongs to, with e counted.
FlowOf(e) ==
    LET key == Key(e.src, e.dst, e.proto)
    IN  Updated(IF key \in DOMAIN active THEN active[key] ELSE NewFlow(e), e, Len(log) + 1)

Touched(e) ==
    [key \in DOMAIN active \union {Key(e.src, e.dst, e.proto)} |->
        IF key = Key(e.src, e.dst, e.proto) THEN FlowOf(e) ELSE active[key]]

\* Mutant of Expired: half the idle timeout is enough.
ExpiredEarly(f, now) ==
    \/ 2 * (now - f.last) > IdleTimeout
    \/ now - f.start > ActiveTimeout
    \/ f.state = "RESET"

\* Mutant of Expired: a reset flow waits for its timeout.
ExpiredUnlessReset(f, now) ==
    \/ now - f.last > IdleTimeout
    \/ now - f.start > ActiveTimeout

Expired(f, now) ==
    \/ now - f.last > IdleTimeout
    \/ now - f.start > ActiveTimeout
    \/ f.state \in {"RESET", "CLOSED"}

\* Flow f was appended to the list of completed flows after g.
After(f, g) == \/ f.ended > g.ended
               \/ f.ended = g.ended /\ f.born > g.born

\* What the list keeps of these flows: the last RingSize.
LastOf(flows) == {f \in flows : Cardinality({g \in flows : After(g, f)}) < RingSize}

\* Mutant of Cleanup: expired flows leave the dict and go nowhere.
CleanupLoses(flows, now) ==
    LET expired == {key \in DOMAIN flows : Expired(flows[key], now)}
    IN  /\ lastCleanup' = now
        /\ active' = [key \in DOMAIN flows \ expired |-> flows[key]]
        /\ UNCHANGED <<completed, forgotten>>

\* _cleanup_expired_locked, on the flows as the event left them.
Cleanup(flows, now) ==
    LET expired == {key \in DOMAIN flows : Expired(flows[key], now)}
        all == completed \union {[flows[key] EXCEPT !.ended = now] : key \in expired}
    IN  /\ lastCleanup' = now
        /\ active' = [key \in DOMAIN flows \ expired |-> flows[key]]
        /\ completed' = LastOf(all)
        /\ forgotten' = forgotten \union (all \ LastOf(all))

ProcessEvent(e) ==
    /\ Len(log) < MaxEvents
    /\ log' = Append(log, e)
    /\ newest' = IF newest = None \/ e.ts > newest THEN e.ts ELSE newest
    /\ inOrder' = (inOrder /\ (newest = None \/ e.ts >= newest))
    /\ \/ /\ e.ts - lastCleanup > CleanupPeriod
          /\ Cleanup(Touched(e), e.ts)
       \/ /\ e.ts - lastCleanup <= CleanupPeriod
          /\ active' = Touched(e)
          /\ UNCHANGED <<completed, lastCleanup, forgotten>>

Next == \E e \in Inputs : ProcessEvent(e)

Spec == Init /\ [][Next]_vars

-----------------------------------------------------------------------------
(* Properties.                                                             *)

ActiveFlows == {active[key] : key \in DOMAIN active}
Gone == completed \union forgotten
AllFlows == ActiveFlows \union Gone
Packets(f) == f.fwd \union f.bwd

TypeOK ==
    /\ DOMAIN active \subseteq Endpoints \X Endpoints \X Protocols
    /\ ActiveFlows \subseteq Flows
    /\ completed \subseteq Flows
    /\ forgotten \subseteq Flows
    /\ lastCleanup \in Int
    /\ log \in Seq(Events) /\ Len(log) <= MaxEvents
    /\ newest \in Int \union {None}
    /\ inOrder \in BOOLEAN

\* Two events belong to the same conversation, whatever their direction.
SameConversation(e, f) ==
    /\ e.proto = f.proto
    /\ {e.src, e.dst} = {f.src, f.dst}

\* Two active flows never track the same conversation, and a flow is active
\* under the key of its own endpoints and protocol, under which the next
\* packet of either direction looks for it.
OneFlowPerConversation ==
    /\ \A key, other \in DOMAIN active :
          SameConversation(active[key], active[other]) <=> key = other
    /\ \A key \in DOMAIN active :
          key = Key(active[key].src, active[key].dst, active[key].proto)

\* Every event is counted by one flow only, in the direction it travelled,
\* also when flows expire, start again or are forgotten.
EachPacketCounted ==
    /\ \A n \in DOMAIN log : \E f \in AllFlows : n \in Packets(f)
    /\ \A f \in AllFlows :
          /\ \A n \in f.fwd : log[n].src = f.src /\ log[n].dst = f.dst /\ log[n].proto = f.proto
          /\ \A n \in f.bwd : log[n].src = f.dst /\ log[n].dst = f.src /\ log[n].proto = f.proto
          /\ f.fwd \intersect f.bwd = {}
          /\ \A g \in AllFlows : f # g => Packets(f) \intersect Packets(g) = {}

\* When events come in order a conversation is cut in two only for a reason:
\* it paused for the idle timeout, it went on for the active timeout, or it
\* was reset.
CutForReason ==
    inOrder => \A f \in Gone, g \in AllFlows :
                  SameConversation(f, g) /\ f.born < g.born
                      => \/ f.state = "RESET"
                         \/ g.start - f.last > IdleTimeout
                         \/ g.start - f.start > ActiveTimeout

\* When events come in order, an active flow that started after the tracker
\* did is late for its expiry by at most one cleanup period.
ExpiryPrompt ==
    inOrder => \A f \in ActiveFlows :
                  f.start >= Started
                      => /\ newest - f.last <= IdleTimeout + CleanupPeriod
                         /\ newest - f.start <= ActiveTimeout + CleanupPeriod
                         /\ f.state = "RESET" => newest - f.last <= CleanupPeriod

\* The TCP state is what the packets of the flow say: the last of those with
\* S, R or F decides, and a bare A afterwards completes a handshake.
TcpStateFromPackets ==
    \A f \in AllFlows : f.proto = "TCP" =>
        LET deciding == {n \in Packets(f) : log[n].flags \intersect {"S", "R", "F"} # {}}
            isLast(n) == n \in deciding /\ \A m \in deciding : m <= n
            acked(n) == \E m \in Packets(f) : m > n /\ log[m].flags = {"A"}
        IN  CASE deciding = {} -> f.state = IF acked(0) THEN "ESTABLISHED" ELSE "UNKNOWN"
              [] OTHER -> \E n \in deciding :
                    /\ isLast(n)
                    /\ f.state = CASE {"S", "A"} \subseteq log[n].flags ->
                                        IF acked(n) THEN "ESTABLISHED" ELSE "SYN_RCVD"
                                   [] {"S", "A"} \intersect log[n].flags = {"S"} -> "SYN_SENT"
                                   [] {"S", "R"} \intersect log[n].flags = {"R"} -> "RESET"
                                   [] OTHER -> "FIN_WAIT"

=============================================================================
