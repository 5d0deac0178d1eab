------------------------ MODULE MCKnowledgeIndexing ------------------------
(***************************************************************************)
(* Instances of KnowledgeIndexing for TLC: index workers and senders that   *)
(* are alike.                                                               *)
(***************************************************************************)
EXTENDS KnowledgeIndexing, TLC

Alike == Permutations(Workers) \cup Permutations(Senders)

=============================================================================
