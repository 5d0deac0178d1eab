----------------------------- MODULE MCUploads -----------------------------
(***************************************************************************)
(* An instance of Uploads for TLC: one document uploaded under a pathname  *)
(* and by the form.                                                        *)
(***************************************************************************)
EXTENDS Uploads, TLC

CONSTANTS h1, h2

AllFaults == {"redis", "overrun", "expiry", "publish", "failure", "crash"}

\* The threads of the API are alike.
Alike == Permutations({h1, h2})

=============================================================================
