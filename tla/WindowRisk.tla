------------------------------ MODULE WindowRisk ------------------------------
(***************************************************************************)
(* process_window and PersistenceEngine.observe (pipeline.py, risk.py): a  *)
(* window becomes an alert when its level is high, or when it is one of    *)
(* several loud windows of its source in a row and the source's last such  *)
(* alert is older than the cooldown.  Several threads process windows, and *)
(* nothing locks the counts or the times of the last alerts.               *)
(***************************************************************************)
EXTENDS Integers, Sequences

CONSTANTS
    Keys,        \* source addresses
    Threads,
    Required,    \* consecutive_windows, at least one
    Cooldown,    \* cooldown_seconds
    MaxDelay,    \* assumed of the machine: no call of observe takes longer
    MaxWindows,  \* bound on the windows of a key
    Horizon      \* bound on the clock

ASSUME RiskAssumption ==
    /\ Required \in Nat \ {0}
    /\ Cooldown \in Nat /\ MaxDelay \in Nat
    /\ MaxWindows \in Nat /\ Horizon \in Nat

VARIABLES
    clock,
    counts,     \* loud windows in a row
    lastAlert,  \* when the last persistent alert was decided
    thread,     \* the window a thread processes
    windows,    \* history: for each key the windows in the order they were counted
    decided     \* history: for each key the persistent alerts in order of decision

vars == <<clock, counts, lastAlert, thread, windows, decided>>

\* datetime.min: the cooldown since then is always over.
Never == -Cooldown

Idle == [pc |-> "idle"]

Init ==
    /\ clock = 0
    /\ counts = [k \in Keys |-> 0]
    /\ lastAlert = [k \in Keys |-> Never]
    /\ thread = [t \in Threads |-> Idle]
    /\ windows = [k \in Keys |-> <<>>]
    /\ decided = [k \in Keys |-> <<>>]

At(t, pc) == thread[t].pc = pc
Inside(t) == thread[t].pc \in {"count", "look", "decide"}
Key(t) == thread[t].key

Tick ==
    /\ clock < Horizon
    /\ \A t \in Threads : Inside(t) => clock + 1 - thread[t].now <= MaxDelay
    /\ clock' = clock + 1
    /\ UNCHANGED <<counts, lastAlert, thread, windows, decided>>

-----------------------------------------------------------------------------
(* observe.  The interpreter may switch threads at its three calls: the    *)
(* clock, datetime.min.replace and last_alert.get.                         *)

\* evaluate has a score, loud from 0.5 on, and a level that depends on other
\* thresholds and on single models; observe reads the clock.
Begin(t, k, loud, high) ==
    /\ At(t, "idle")
    /\ Len(windows[k]) < MaxWindows
    /\ LET others == {u \in Threads : Inside(u) /\ Key(u) = k} IN
       thread' = [u \in Threads |->
           IF u = t
           THEN [pc |-> "count", key |-> k, loud |-> loud, high |-> high, now |-> clock, last |-> Never,
                 nth |-> 0, persistent |-> FALSE, before |-> Len(decided[k]), alone |-> others = {}]
           ELSE IF u \in others THEN [thread[u] EXCEPT !.alone = FALSE] ELSE thread[u]]
    /\ UNCHANGED <<clock, counts, lastAlert, windows, decided>>

\* Mutant of NewCount: a quiet window lowers the count instead of ending the row.
NewCountSlow(t) ==
    IF thread[t].loud THEN counts[Key(t)] + 1
    ELSE IF counts[Key(t)] = 0 THEN 0 ELSE counts[Key(t)] - 1

NewCount(t) == IF thread[t].loud THEN counts[Key(t)] + 1 ELSE 0

Fate(t) == IF NewCount(t) < Required THEN "few" ELSE "inside"

\* Counting and comparing with the required number is one step.
Count(t) ==
    /\ At(t, "count")
    /\ counts' = [counts EXCEPT ![Key(t)] = NewCount(t)]
    /\ windows' = [windows EXCEPT ![Key(t)] =
                     Append(@, [loud |-> thread[t].loud, now |-> thread[t].now, fate |-> Fate(t)])]
    /\ thread' = [thread EXCEPT ![t].pc = IF Fate(t) = "few" THEN "save" ELSE "look",
                                ![t].nth = Len(windows[Key(t)]) + 1]
    /\ UNCHANGED <<clock, lastAlert, decided>>

Look(t) ==
    /\ At(t, "look")
    /\ thread' = [thread EXCEPT ![t].pc = "decide", ![t].last = lastAlert[Key(t)]]
    /\ UNCHANGED <<clock, counts, lastAlert, windows, decided>>

Cool(t) == thread[t].now - thread[t].last < Cooldown

\* Mutant of Suppress: a suppressed window starts the cooldown anew.
SuppressAnew(t) ==
    /\ At(t, "decide") /\ Cool(t)
    /\ lastAlert' = [lastAlert EXCEPT ![Key(t)] = thread[t].now]
    /\ windows' = [windows EXCEPT ![Key(t)][thread[t].nth].fate = "suppressed"]
    /\ thread' = [thread EXCEPT ![t].pc = "save"]
    /\ UNCHANGED <<clock, counts, decided>>

Suppress(t) ==
    /\ At(t, "decide") /\ Cool(t)
    /\ windows' = [windows EXCEPT ![Key(t)][thread[t].nth].fate = "suppressed"]
    /\ thread' = [thread EXCEPT ![t].pc = "save"]
    /\ UNCHANGED <<clock, counts, lastAlert, decided>>

\* Mutant of Announce: the cooldown starts with the first alert and is not renewed.
AnnounceOnce(t) ==
    /\ At(t, "decide") /\ ~Cool(t)
    /\ lastAlert' = [lastAlert EXCEPT ![Key(t)] = IF @ = Never THEN thread[t].now ELSE @]
    /\ windows' = [windows EXCEPT ![Key(t)][thread[t].nth].fate = "announced"]
    /\ decided' = [decided EXCEPT ![Key(t)] =
                     Append(@, [now |-> thread[t].now, before |-> thread[t].before, alone |-> thread[t].alone])]
    /\ thread' = [thread EXCEPT ![t].pc = "save", ![t].persistent = TRUE]
    /\ UNCHANGED <<clock, counts>>

\* A slow thread may move the time of the last alert back.
Announce(t) ==
    /\ At(t, "decide") /\ ~Cool(t)
    /\ lastAlert' = [lastAlert EXCEPT ![Key(t)] = thread[t].now]
    /\ windows' = [windows EXCEPT ![Key(t)][thread[t].nth].fate = "announced"]
    /\ decided' = [decided EXCEPT ![Key(t)] =
                     Append(@, [now |-> thread[t].now, before |-> thread[t].before, alone |-> thread[t].alone])]
    /\ thread' = [thread EXCEPT ![t].pc = "save", ![t].persistent = TRUE]
    /\ UNCHANGED <<clock, counts>>

-----------------------------------------------------------------------------
(* The rest of process_window: the flow is saved, and the alert, if any.   *)

Raises(t) == thread[t].high \/ thread[t].persistent

Settle(t, fate) ==
    /\ windows' = IF thread[t].persistent THEN [windows EXCEPT ![Key(t)][thread[t].nth].fate = fate]
                  ELSE windows
    /\ thread' = [thread EXCEPT ![t] = Idle]
    /\ UNCHANGED <<clock, counts, lastAlert, decided>>

Dismiss(t) == At(t, "save") /\ ~Raises(t) /\ Settle(t, "none")
Save(t) == At(t, "save") /\ Raises(t) /\ Settle(t, "stored")

\* save_flow or a statement of the alert raises: the window is gone and the
\* cooldown it started goes on.
SaveFails(t) == At(t, "save") /\ Settle(t, "lost")

Step(t) ==
    \/ \E k \in Keys, loud, high \in BOOLEAN : Begin(t, k, loud, high)
    \/ Count(t) \/ Look(t) \/ Suppress(t) \/ Announce(t)
    \/ Dismiss(t) \/ Save(t) \/ SaveFails(t)

Next == Tick \/ \E t \in Threads : Step(t)

Spec == Init /\ [][Next]_vars

-----------------------------------------------------------------------------
Moment == {Never} \cup Nat
Fates == {"few", "inside", "suppressed", "announced", "stored", "lost"}
Window == [loud : BOOLEAN, now : Nat, fate : Fates]
Decision == [now : Nat, before : Nat, alone : BOOLEAN]
Call == [pc : {"count", "look", "decide", "save"}, key : Keys, loud : BOOLEAN, high : BOOLEAN, now : Nat,
         last : Moment, nth : Nat, persistent : BOOLEAN, before : Nat, alone : BOOLEAN]

TypeOK ==
    /\ clock \in Nat
    /\ counts \in [Keys -> Nat]
    /\ lastAlert \in [Keys -> Moment]
    /\ thread \in [Threads -> {Idle} \cup Call]
    /\ windows \in [Keys -> Seq(Window)]
    /\ decided \in [Keys -> Seq(Decision)]

\* The window is the last of Required loud ones in a row.
Sustained(k, i) ==
    /\ i >= Required
    /\ \A j \in (i - Required + 1)..i : windows[k][j].loud

\* Windows that threads count at the same time are neither lost nor counted twice:
\* a persistent alert is decided for the last of Required loud windows of a source
\* in a row, whatever is counted while it is being decided.
AlertsSustained ==
    \A k \in Keys : \A i \in DOMAIN windows[k] :
        windows[k][i].fate \in {"announced", "stored", "lost"} => Sustained(k, i)

\* A source that stays loud is silent for no longer than the cooldown: if the last
\* of Required loud windows in a row is not announced, an alert of its source was
\* decided less than a cooldown before it, or while it was being processed.
SustainedAnnounced ==
    \A k \in Keys : \A i \in DOMAIN windows[k] :
        Sustained(k, i) /\ windows[k][i].fate \in {"few", "suppressed"} =>
            \E d \in DOMAIN decided[k] :
                /\ windows[k][i].now - decided[k][d].now < Cooldown
                /\ decided[k][d].now - windows[k][i].now <= MaxDelay

\* Only threads that were in observe together can break the cooldown: of two
\* persistent alerts of a source, the second of a call that began after the first
\* was decided, the times are a cooldown apart, less the longest call; and a whole
\* cooldown if the first call met no other of its source.
CooldownKept ==
    \A k \in Keys : \A i, j \in DOMAIN decided[k] :
        i <= decided[k][j].before =>
            LET apart == decided[k][j].now - decided[k][i].now IN
            /\ apart >= Cooldown - MaxDelay
            /\ decided[k][i].alone => apart >= Cooldown
=============================================================================
