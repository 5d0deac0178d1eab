---------------------------- MODULE ReviewPromise ----------------------------
(***************************************************************************)
(* What the review pipeline promises the sender of a Slack submission: a   *)
(* submission that was accepted is answered, it is closed (completed, or   *)
(* given up in the dead-letter queue) only after its answer was queued, or *)
(* with it, and a closed submission stays closed.  Nothing is said about   *)
(* queues, leases, attempts or workers.                                    *)
(***************************************************************************)
CONSTANT Submissions

VARIABLES accepted, answered, closed

vars == <<accepted, answered, closed>>

Init == accepted = {} /\ answered = {} /\ closed = {}

Accept(s) ==
    /\ s \notin accepted
    /\ accepted' = accepted \cup {s}
    /\ UNCHANGED <<answered, closed>>

Answer(s) ==
    /\ s \in accepted \ answered
    /\ answered' = answered \cup {s}
    /\ UNCHANGED <<accepted, closed>>

Close(s) ==
    /\ s \in answered \ closed
    /\ closed' = closed \cup {s}
    /\ UNCHANGED <<accepted, answered>>

\* For whom answering and closing are one step.
Conclude(s) ==
    /\ s \in accepted \ answered
    /\ answered' = answered \cup {s}
    /\ closed' = closed \cup {s}
    /\ UNCHANGED accepted

Next == \E s \in Submissions : Accept(s) \/ Answer(s) \/ Close(s) \/ Conclude(s)

\* Every accepted submission is answered and closed in the end.
Fairness == \A s \in Submissions : WF_vars(Answer(s)) /\ WF_vars(Close(s))

Spec == Init /\ [][Next]_vars /\ Fairness
=============================================================================
