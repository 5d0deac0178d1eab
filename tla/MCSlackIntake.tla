---------------------------- MODULE MCSlackIntake ----------------------------
(***************************************************************************)
(* Instances of SlackIntake for TLC: one event with one or two attachments *)
(* and two intake workers, which are interchangeable.                       *)
(***************************************************************************)
EXTENDS SlackIntake, TLC

CONSTANTS e1, f1, f2, w1, w2

OneFile == [e \in {e1} |-> <<f1>>]
TwoFiles == [e \in {e1} |-> <<f1, f2>>]

WorkerSymmetry == Permutations({w1, w2})

=============================================================================
