--------------------------- MODULE EvidenceLedger ---------------------------
(***************************************************************************)
(* What the evidence chain of DIODESHIELD promises to the operator who     *)
(* audits it, without saying how it is stored: a log of alerts that only   *)
(* grows, one alert at a time, never the same alert twice, and whose       *)
(* subscribers hear of an alert only after the log holds it.               *)
(*                                                                         *)
(* The detailed specification is EvidenceChain, which implements this one  *)
(* for as long as the writers keep to the rules of its calm.               *)
(***************************************************************************)
EXTENDS Sequences

CONSTANT Alerts      \* the alerts the detectors may raise

VARIABLES entries,   \* the log, oldest alert first
          announced, \* the alerts handed to the subscribers
          kept       \* whether the writers have kept the rules so far

ledgerVars == <<entries, announced>>

Logged == {entries[i] : i \in DOMAIN entries}

Init ==
    /\ entries = <<>>
    /\ announced = {}

Commit(a) ==
    /\ a \notin Logged
    /\ entries' = Append(entries, a)
    /\ UNCHANGED announced

Announce(a) ==
    /\ a \in Logged
    /\ announced' = announced \union {a}
    /\ UNCHANGED entries

Next == \E a \in Alerts : Commit(a) \/ Announce(a)

\* Nothing is promised of a step once the rules are broken.
Spec == Init /\ [][kept' => Next]_ledgerVars

=============================================================================
