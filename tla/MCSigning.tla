----------------------------- MODULE MCSigning -----------------------------
(***************************************************************************)
(* Instances of Signing for TLC: two requests of one contract, three       *)
(* signers, two of them with the same mailbox and one optional.            *)
(***************************************************************************)
EXTENDS Signing

CONSTANTS s1, s2, s3, anna, bert

Mailboxes == [s \in {s1, s2, s3} |-> IF s = s3 THEN bert ELSE anna]

=============================================================================
