---------------------------- MODULE MCWindowRisk ----------------------------
(* The threads are interchangeable.                                        *)
EXTENDS WindowRisk, TLC
MCSymmetry == Permutations(Threads)
=============================================================================
