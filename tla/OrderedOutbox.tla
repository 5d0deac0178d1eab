---------------------------- MODULE OrderedOutbox ----------------------------
(***************************************************************************)
(* What an outbox with threads promises, whoever drains it: a message has  *)
(* the open messages of its thread ahead of it when it is queued, and is   *)
(* taken by a sender only when none of them is open any more; the provider *)
(* accepts what a sender has taken, however late; what is marked as sent   *)
(* was accepted; what is sent or dropped stays so.  A message whose row is *)
(* deleted, open or not, is forgotten: it may be queued again, behind what *)
(* is there by then, and what was accepted of it stays accepted.  Nothing  *)
(* is said about positions, leases, attempts, tokens or workers.           *)
(***************************************************************************)
CONSTANTS
    Messages,
    ThreadOf,      \* the thread of a message
    Deletable      \* messages whose row may be deleted

VARIABLES
    state,         \* "none", "open", "sent" or "dropped"
    ahead,         \* the messages an open message has to wait for
    hand,          \* what senders have taken and not yet put away
    accepted       \* messages the provider has taken

vars == <<state, ahead, hand, accepted>>

Init ==
    /\ state = [m \in Messages |-> "none"]
    /\ ahead = [m \in Messages |-> {}]
    /\ hand = {} /\ accepted = {}

\* The messages of M are open no longer, and not waited for any more.
Leaves(M, outcome) ==
    /\ state' = [m \in Messages |-> IF m \in M THEN outcome ELSE state[m]]
    /\ ahead' = [m \in Messages |-> IF m \in M THEN {} ELSE ahead[m] \ M]
    /\ hand' \subseteq hand
    /\ UNCHANGED accepted

Queue(m) ==
    /\ state[m] = "none"
    /\ state' = [state EXCEPT ![m] = "open"]
    /\ ahead' = [ahead EXCEPT ![m] = {n \in Messages : ThreadOf[n] = ThreadOf[m] /\ state[n] = "open"}]
    /\ UNCHANGED <<hand, accepted>>

\* The message is dropped before anybody could take it.
Refuse(m) ==
    /\ state[m] = "none"
    /\ state' = [state EXCEPT ![m] = "dropped"]
    /\ UNCHANGED <<ahead, hand, accepted>>

Take(M) ==
    /\ \A m \in M : state[m] = "open" /\ ahead[m] = {}
    /\ hand' = hand \cup M
    /\ UNCHANGED <<state, ahead, accepted>>

PutAway ==
    /\ hand' \subseteq hand
    /\ UNCHANGED <<state, ahead, accepted>>

\* The message may have come to an end under its sender.
Accept(m) ==
    /\ m \in hand
    /\ accepted' = accepted \cup {m}
    /\ UNCHANGED <<state, ahead, hand>>

Send(m) ==
    /\ state[m] = "open" /\ ahead[m] = {} /\ m \in accepted
    /\ Leaves({m}, "sent")

\* Some messages are given up together.
Drop(M) ==
    /\ \A m \in M : state[m] = "open"
    /\ Leaves(M, "dropped")

\* The rows of some messages are deleted, the sent ones included.
Delete(M) ==
    /\ M \subseteq Deletable
    /\ Leaves(M, "none")

Next ==
    \/ \E m \in Messages : Queue(m) \/ Refuse(m) \/ Accept(m) \/ Send(m)
    \/ \E M \in SUBSET Messages : Take(M) \/ Drop(M) \/ Delete(M)
    \/ PutAway

Spec == Init /\ [][Next]_vars
=============================================================================
