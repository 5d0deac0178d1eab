--------------------------- MODULE MCSlackDelivery ---------------------------
(***************************************************************************)
(* Instances of SlackDelivery for TLC: a receipt, and the review of a      *)
(* contract, in one thread of one installation.                            *)
(***************************************************************************)
EXTENDS SlackDelivery

CONSTANTS m1, m2, t1, c1

OneThread == [m \in {m1, m2} |-> t1]
ReviewsContract == [m \in {m1, m2} |-> IF m = m2 THEN c1 ELSE NoContract]

=============================================================================
