---------------------------- MODULE SlidingWindow ----------------------------
(***************************************************************************)
(* The sliding window of the detection pipeline: SlidingWindow.add takes   *)
(* one event and returns the windows that have become due.                 *)
(*                                                                         *)
(* The object is shared by the threads that call DetectionPipeline.ingest  *)
(* and has no lock, so add is split where the interpreter may switch       *)
(* threads.  A window is emitted when add appends it to its result.        *)
(*                                                                         *)
(* Time is counted in some unit that divides all timestamps, the size and  *)
(* the slide.  The deque is a set of arrivals: sorted keeps it in order of *)
(* time, and nothing depends on the order of events of one moment.         *)
(***************************************************************************)
EXTENDS Integers, FiniteSets

CONSTANTS
    Threads,   \* threads that call add
    Times,     \* timestamps of events
    Tags,      \* the rest of a key: addresses, protocol, length
    Size,      \* size
    Slide,     \* slide
    SeenMax,   \* number of keys beyond which seen is trimmed (10000)
    SeenKeep,  \* number of keys it is trimmed to (5000)
    None,      \* None: no window emitted yet, no event in hand
    MaxCalls   \* bound on the calls of add

Keys == [ts : Times, tag : Tags]

\* An accepted event: its number, its key, and (history) the end of the
\* last window that was emitted before it came.
Arrivals == [id : 1..MaxCalls, key : Keys, after : Int]

ASSUME WindowAssumption ==
    /\ Times \subseteq Int
    /\ Size \in Nat \ {0}
    /\ Slide \in Nat \ {0}
    /\ SeenMax \in Nat
    /\ SeenKeep \in 0..SeenMax
    /\ None \notin Int /\ None \notin Arrivals
    /\ MaxCalls \in Nat

VARIABLES
    seen,       \* the keys remembered
    events,     \* the deque
    lastEmit,   \* last_emit
    calls,      \* number of calls of add so far
    pc,         \* where each thread is in add
    local,      \* the local variables of each call
    accepted,   \* history: every arrival that was not taken for a duplicate
    ends,       \* history: the ends of the windows emitted
    analysed,   \* history: the arrivals that some window held
    overlapped  \* history: two calls of add have been in progress at once

object == <<seen, events, lastEmit>>
history == <<accepted, ends, analysed, overlapped>>
vars == <<seen, events, lastEmit, calls, pc, local, accepted, ends, analysed, overlapped>>

-----------------------------------------------------------------------------
Locals == [event : Arrivals \union {None}, ordered : SUBSET Arrivals, newest : Int,
           end : Int, kept : SUBSET Keys]

NoLocal == [event |-> None, ordered |-> {}, newest |-> 0, end |-> 0, kept |-> {}]

Steps == {"idle", "append", "order", "store", "loop", "emit", "evict", "trim", "forget"}

KeysOf(arrivals) == {a.key : a \in arrivals}

\* Mutant of Within: start = end - slide.
WithinSlide(arrivals, end) == {a \in arrivals : end - Slide < a.key.ts /\ a.key.ts <= end}

\* The arrivals of a window (end - size, end].
Within(arrivals, end) == {a \in arrivals : end - Size < a.key.ts /\ a.key.ts <= end}

Init ==
    /\ seen = {}
    /\ events = {}
    /\ lastEmit = None
    /\ calls = 0
    /\ pc = [t \in Threads |-> "idle"]
    /\ local = [t \in Threads |-> NoLocal]
    /\ accepted = {}
    /\ ends = {}
    /\ analysed = {}
    /\ overlapped = FALSE

Goto(t, from, to) ==
    /\ pc[t] = from
    /\ pc' = [pc EXCEPT ![t] = to]

Return(t) ==
    /\ pc' = [pc EXCEPT ![t] = "idle"]
    /\ local' = [local EXCEPT ![t] = NoLocal]

\* A call of add comes in.
Called(t) ==
    /\ calls < MaxCalls
    /\ calls' = calls + 1
    /\ overlapped' = (overlapped \/ \E u \in Threads \ {t} : pc[u] # "idle")

\* The key is remembered: add returns at once.
Duplicate(t, k) ==
    /\ Goto(t, "idle", "idle")
    /\ Called(t)
    /\ k \in seen
    /\ UNCHANGED <<object, local, accepted, ends, analysed>>

\* Mutant of Accept: the key is not remembered.
AcceptUnseen(t, k) ==
    LET arrival == [id |-> calls + 1, key |-> k,
                    after |-> IF lastEmit = None THEN k.ts - Slide ELSE lastEmit]
    IN  /\ Goto(t, "idle", "append")
        /\ Called(t)
        /\ k \notin seen
        /\ local' = [local EXCEPT ![t].event = arrival]
        /\ accepted' = accepted \union {arrival}
        /\ UNCHANGED <<seen, events, lastEmit, ends, analysed>>

\* The key is new: add remembers it.
Accept(t, k) ==
    LET arrival == [id |-> calls + 1, key |-> k,
                    after |-> IF lastEmit = None THEN k.ts - Slide ELSE lastEmit]
    IN  /\ Goto(t, "idle", "append")
        /\ Called(t)
        /\ k \notin seen
        /\ seen' = seen \union {k}
        /\ local' = [local EXCEPT ![t].event = arrival]
        /\ accepted' = accepted \union {arrival}
        /\ UNCHANGED <<events, lastEmit, ends, analysed>>

AppendEvent(t) ==
    /\ Goto(t, "append", "order")
    /\ events' = events \union {local[t].event}
    /\ UNCHANGED <<seen, lastEmit, calls, local, history>>

\* sorted copies the deque ...
Order(t) ==
    /\ Goto(t, "order", "store")
    /\ local' = [local EXCEPT ![t].ordered = events]
    /\ UNCHANGED <<object, calls, history>>

\* ... and the copy replaces the deque.  The first event starts the grid of
\* windows so that one window ends with it.
Store(t) ==
    /\ Goto(t, "store", "loop")
    /\ events' = local[t].ordered
    /\ \E a \in local[t].ordered :
          /\ \A b \in local[t].ordered : b.key.ts <= a.key.ts
          /\ local' = [local EXCEPT ![t].newest = a.key.ts]
          /\ lastEmit' = IF lastEmit = None THEN a.key.ts - Slide ELSE lastEmit
    /\ UNCHANGED <<seen, calls, history>>

\* Another thread has emptied the deque since this one appended to it:
\* ordered[-1] raises.
StoreRaises(t) ==
    /\ pc[t] = "store"
    /\ local[t].ordered = {}
    /\ events' = {}
    /\ Return(t)
    /\ UNCHANGED <<seen, lastEmit, calls, history>>

\* Mutant of WindowDue: the window ends with the newest event.
WindowDueNow(t) ==
    /\ Goto(t, "loop", "emit")
    /\ local[t].newest - lastEmit >= Slide
    /\ local' = [local EXCEPT ![t].end = local[t].newest]
    /\ UNCHANGED <<object, calls, history>>

\* The while loop: is another window due?
WindowDue(t) ==
    /\ Goto(t, "loop", "emit")
    /\ local[t].newest - lastEmit >= Slide
    /\ local' = [local EXCEPT ![t].end = lastEmit + Slide]
    /\ UNCHANGED <<object, calls, history>>

NoneDue(t) ==
    /\ Goto(t, "loop", "evict")
    /\ local[t].newest - lastEmit < Slide
    /\ UNCHANGED <<object, calls, local, history>>

\* Mutant of Emit: the next window is counted from the newest event.
EmitJumps(t) ==
    /\ Goto(t, "emit", "loop")
    /\ ends' = ends \union {local[t].end}
    /\ analysed' = analysed \union Within(local[t].ordered, local[t].end)
    /\ lastEmit' = local[t].newest
    /\ UNCHANGED <<seen, events, calls, local, accepted, overlapped>>

Emit(t) ==
    /\ Goto(t, "emit", "loop")
    /\ ends' = ends \union {local[t].end}
    /\ analysed' = analysed \union Within(local[t].ordered, local[t].end)
    /\ lastEmit' = local[t].end
    /\ UNCHANGED <<seen, events, calls, local, accepted, overlapped>>

\* Mutant of Cutoff: without the size.
CutoffRecent(t) == local[t].newest - Slide

Cutoff(t) == local[t].newest - Size - Slide

\* The deque loses its old events, one at a time ...
EvictOne(t) ==
    /\ Goto(t, "evict", "evict")
    /\ \E a \in events :
          /\ a.key.ts < Cutoff(t)
          /\ events' = events \ {a}
    /\ UNCHANGED <<seen, lastEmit, calls, local, history>>

\* ... until the first is recent.  The deque is in order unless another
\* thread has just appended to it: then an old event may hide behind.
EvictDone(t) ==
    /\ Goto(t, "evict", "trim")
    /\ overlapped \/ \A a \in events : a.key.ts >= Cutoff(t)
    /\ UNCHANGED <<object, calls, local, history>>

SeenFits(t) ==
    /\ pc[t] = "trim"
    /\ Cardinality(seen) <= SeenMax
    /\ Return(t)
    /\ UNCHANGED <<object, calls, history>>

\* Too many keys: add keeps the last of them in the order of a set, which
\* says nothing about their age ...
Trim(t) ==
    /\ Goto(t, "trim", "forget")
    /\ Cardinality(seen) > SeenMax
    /\ \E keep \in SUBSET seen :
          /\ Cardinality(keep) = SeenKeep
          /\ local' = [local EXCEPT ![t].kept = keep]
    /\ UNCHANGED <<object, calls, history>>

\* ... and replaces seen.
Forget(t) ==
    /\ pc[t] = "forget"
    /\ seen' = local[t].kept
    /\ Return(t)
    /\ UNCHANGED <<events, lastEmit, calls, history>>

InAdd(t) ==
    \/ AppendEvent(t) \/ Order(t) \/ Store(t) \/ StoreRaises(t) \/ WindowDue(t) \/ NoneDue(t)
    \/ Emit(t) \/ EvictOne(t) \/ EvictDone(t) \/ SeenFits(t) \/ Trim(t) \/ Forget(t)

Next ==
    \E t \in Threads :
       \/ \E k \in Keys : Duplicate(t, k) \/ Accept(t, k)
       \/ InAdd(t)

Spec == Init /\ [][Next]_vars

-----------------------------------------------------------------------------
(* Properties.                                                             *)

TypeOK ==
    /\ seen \subseteq Keys
    /\ events \subseteq Arrivals
    /\ lastEmit \in Int \union {None}
    /\ calls \in 0..MaxCalls
    /\ pc \in [Threads -> Steps]
    /\ local \in [Threads -> Locals]
    /\ \A t \in Threads : /\ pc[t] = "append" => local[t].event \in Arrivals
                          /\ pc[t] \in {"loop", "emit", "evict"} => lastEmit # None
    /\ accepted \subseteq Arrivals
    /\ ends \subseteq Int
    /\ analysed \subseteq Arrivals
    /\ overlapped \in BOOLEAN

\* Calls of add did not overlap so far.
InTurn == ~overlapped

\* A window holds every event of its time that was accepted before it is
\* emitted, late ones included: the deque never loses an event that a
\* window still to come needs.
WindowsComplete ==
    InTurn => \A t \in Threads :
                 pc[t] = "emit" => Within(local[t].ordered, local[t].end)
                                       = Within(accepted, local[t].end)

\* Windows come one slide after the other, whatever the order of events and
\* however far time jumps: none is skipped and none repeated.
WindowsInOrder ==
    InTurn => \A t \in Threads :
                 pc[t] = "emit" /\ ends # {}
                     => /\ local[t].end - Slide \in ends
                        /\ \A end \in ends : end < local[t].end

\* An event that is late by less than size - slide is analysed: when the
\* windows have moved past it, one of them held it.
EveryEventAnalysed ==
    InTurn => \A a \in accepted :
                 /\ a.key.ts > a.after + Slide - Size
                 /\ lastEmit # None
                 /\ lastEmit > a.after /\ lastEmit >= a.key.ts
                 => a \in analysed

\* Even when calls overlap no window is skipped: the windows emitted so far
\* leave no gap.
NoWindowSkipped ==
    \A end \in ends : end - Slide \in ends \/ \A other \in ends : end <= other

\* Even when calls overlap an event is accepted once, as long as seen was
\* never trimmed.
AcceptedOnce ==
    Cardinality(KeysOf(accepted)) <= SeenMax
        => \A a, b \in accepted : a.key = b.key => a = b

=============================================================================
