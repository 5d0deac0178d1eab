-------------------------- MODULE MCReviewExecution --------------------------
(***************************************************************************)
(* ReviewExecution on a small instance.                                    *)
(***************************************************************************)
EXTENDS ReviewExecution, TLC

CONSTANTS s1, s2, e1, c1

\* Every job reviews the same contract: the same bytes were submitted twice.
OneContract == [j \in Jobs |-> c1]

\* Jobs for one contract and workers are interchangeable (safety only).
Symmetry == Permutations(Jobs) \cup Permutations(Workers)
=============================================================================
