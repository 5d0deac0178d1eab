----------------------------- MODULE MCAccounts -----------------------------
(***************************************************************************)
(* Instances of Accounts for TLC: the super-admin and two people, two      *)
(* identities that may sign in with any of the mailboxes.                  *)
(***************************************************************************)
EXTENDS Accounts, TLC

CONSTANTS s1, s2, w1, w2, w3, h1, h2

Alike == Permutations({s1, s2}) \cup Permutations({w1, w2, w3}) \cup Permutations({h1, h2})

=============================================================================
