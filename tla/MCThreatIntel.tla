---------------------------- MODULE MCThreatIntel ----------------------------
(* The threads are interchangeable.  The clock runs longer than the longest *)
(* life of an answer: of one from the list, TTL + Refresh + MaxDelay; with a *)
(* key, of one from AbuseIPDB, TTL + MaxDelay.                              *)
EXTENDS ThreatIntel, TLC
MCSymmetry == Permutations(Threads)
MCBound == config.keyed => clock <= TTL + MaxDelay + 1
=============================================================================
