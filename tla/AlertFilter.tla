---------------------------- MODULE AlertFilter ----------------------------
(***************************************************************************)
(* What the correlation engine promises: a signal raises an alert unless a *)
(* signal of the same key came at most Window before it.  The filter never *)
(* forgets a key.                                                          *)
(***************************************************************************)
EXTENDS Integers, Sequences

CONSTANTS
    Keys,    \* what makes two signals the same
    Times,   \* when signals come
    Window   \* the deduplication window

VARIABLES
    last,    \* when the last signal of each key came
    raised   \* the alerts, in the order they were raised

Init ==
    /\ last = [key \in {} |-> 0]
    /\ raised = <<>>

Repeated(key, at) == key \in DOMAIN last /\ at - last[key] <= Window

Signal(key, at) ==
    /\ last' = [k \in DOMAIN last \union {key} |-> IF k = key THEN at ELSE last[k]]
    /\ raised' = IF Repeated(key, at) THEN raised
                                      ELSE Append(raised, [key |-> key, at |-> at])

Next == \E key \in Keys, at \in Times : Signal(key, at)

Spec == Init /\ [][Next]_<<last, raised>>
=============================================================================
