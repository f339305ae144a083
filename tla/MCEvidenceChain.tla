--------------------------- MODULE MCEvidenceChain ---------------------------
(***************************************************************************)
(* Instances of EvidenceChain for TLC.  The constants are given in the     *)
(* .cfg files; threads and alerts of one kind are interchangeable, which   *)
(* the runs without liveness properties use as symmetry.                   *)
(***************************************************************************)
EXTENDS EvidenceChain, TLC

Symmetry == Permutations(Threads) \union Permutations(WindowAlerts)

=============================================================================
