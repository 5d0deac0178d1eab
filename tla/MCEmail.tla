------------------------------ MODULE MCEmail ------------------------------
(***************************************************************************)
(* Instances of Email for TLC: one email with three attachments, of which  *)
(* one cannot be downloaded and one is no contract file.                   *)
(***************************************************************************)
EXTENDS Email

CONSTANTS h1, h2, d1, d2

AllFaults == {"redelivery", "limit", "failure", "crash", "overrun", "dead_letter",
              "deletion", "unheard", "send"}

=============================================================================
