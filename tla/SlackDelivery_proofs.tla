------------------------ MODULE SlackDelivery_proofs ------------------------
(***************************************************************************)
(* Theorems about SlackDelivery, for every set of messages, threads and    *)
(* workers, every number of attempts and tokens, and every selection of    *)
(* faults.  Each property but liveness is proved.                          *)
(***************************************************************************)
EXTENDS SlackDelivery, TLAPS

-----------------------------------------------------------------------------
(* Type correctness *)

\* An empty outbox of an installation that has just been connected.
LEMMA InitTypeOK == Init => TypeOK
<1> SUFFICES ASSUME Init PROVE TypeOK
  OBVIOUS
<1>1. 1 \in Tokens /\ 0 \in 0..MaxAttempts
  BY DeliveryAssumption DEF Tokens
<1>2. row \in [Messages -> Row] /\ \A m \in Messages : row[m].status = "absent"
  BY <1>1 DEF Init, Row, NoRow
<1>3. install \in Install /\ valid \subseteq Tokens /\ leaving \in BOOLEAN
  BY <1>1 DEF Init, Install
<1>4. Idle \in Work
  BY DEF Idle, Work
<1>5. work \in [Workers -> Work] /\ \A w \in Workers : work[w].pc = "idle"
  BY <1>4 DEF Init, Idle
<1>6. QED
  BY <1>2, <1>3, <1>5 DEF Init, TypeOK

\* enqueue_outbound gives a message a position behind its whole thread.
LEMMA InsertIsLast ==
    ASSUME TypeOK, NEW m \in Messages, NEW s \in {"pending", "failed"},
           row[m].status = "absent", Insert(m, s)
    PROVE  /\ row' \in [Messages -> Row]
           /\ row'[m].status = s
           /\ \A n \in Messages : n # m => row'[n] = row[n]
           /\ \A n \in Messages : n # m /\ ThreadOf[n] = ThreadOf[m] => row[n].position < row'[m].position
<1>1. PICK last \in Positions(ThreadOf[m]) :
         /\ \A p \in Positions(ThreadOf[m]) : p <= last
         /\ row' = [row EXCEPT ![m].status = s, ![m].position = last + 1]
  BY DEF Insert
<1>2. \A n \in Messages : row[n].position \in Nat
  BY DEF TypeOK, Row
<1>3. last \in Nat
  BY <1>1, <1>2 DEF Positions
<1>4. \A n \in Messages : ThreadOf[n] = ThreadOf[m] => row[n].position <= last
  BY <1>1 DEF Positions
<1>5. row'[m].position = last + 1 /\ row'[m].status = s
  BY <1>1 DEF TypeOK, Row
<1>6. \A n \in Messages : n # m => row'[n] = row[n]
  BY <1>1 DEF TypeOK
<1>7. row' \in [Messages -> Row]
  <2>1. row[m] \in Row
    BY DEF TypeOK
  <2>2. [row[m] EXCEPT !.status = s, !.position = last + 1] \in Row
    <3>1. last + 1 \in Nat
      BY <1>3
    <3>2. \A p \in Nat : [row[m] EXCEPT !.status = s, !.position = p] \in Row
      BY <2>1 DEF Row, OpenStatuses, ClosedStatuses
    <3>3. QED
      BY <3>1, <3>2
  <2>3. row' = [row EXCEPT ![m] = [row[m] EXCEPT !.status = s, !.position = last + 1]]
    BY <1>1
  <2>4. QED
    BY <2>2, <2>3 DEF TypeOK
<1>8. QED
  BY <1>2, <1>3, <1>4, <1>5, <1>6, <1>7

\* delete_contract takes the rows of one contract and no other.
LEMMA DeletedRows ==
    ASSUME TypeOK, NEW c \in Contracts, DeleteContract(c)
    PROVE  /\ row' \in [Messages -> Row]
           /\ \A m \in Messages : row'[m] = IF ContractOf[m] = c THEN NoRow ELSE row[m]
           /\ NoRow.status = "absent" /\ NoRow.owner = NoWorker
<1>1. NoRow \in Row /\ NoRow.status = "absent" /\ NoRow.owner = NoWorker
  BY DeliveryAssumption DEF NoRow, Row
<1>2. \A m \in Messages : row[m] \in Row
  BY DEF TypeOK
<1>3. QED
  BY <1>1, <1>2 DEF DeleteContract, MessagesOf

\* What the steps other than enqueue_outbound and delete_contract do to the
\* outbox: rows come from rows, keep their positions, and a closed one keeps its
\* status.
RowsKept ==
    /\ row' \in [Messages -> Row]
    /\ \A m \in Messages :
          /\ row'[m].position = row[m].position
          /\ row'[m].status = "absent" <=> row[m].status = "absent"
          /\ Closed(m) => row'[m].status = row[m].status

\* A status written to rows that are open, with a new owner or none.
LEMMA OpenRowKept ==
    ASSUME TypeOK, NEW m, NEW s \in OpenStatuses \cup ClosedStatuses, NEW due \in BOOLEAN,
           m \in Messages => Open(m),
           \/ row' = [row EXCEPT ![m].status = s, ![m].owner = NoWorker]
           \/ row' = [row EXCEPT ![m].status = s, ![m].due = due, ![m].owner = NoWorker]
    PROVE  RowsKept
BY DEF TypeOK, RowsKept, Row, Open, Closed, OpenStatuses, ClosedStatuses

\* disconnect_installation and mark_installation_revoked touch open rows only.
LEMMA CloseAllKept ==
    ASSUME TypeOK, CloseAll
    PROVE  RowsKept /\ \A m \in Messages : row'[m].status \notin OpenStatuses
BY DEF TypeOK, CloseAll, RowsKept, Row, Open, Closed, OpenStatuses, ClosedStatuses

\* claim_due_outbound leases what is open and counts the attempt.
LEMMA ClaimKept ==
    ASSUME TypeOK, NEW w \in Workers, Claim(w)
    PROVE  RowsKept
<1>1. \A m \in Messages : Claimable(m) => row[m].status \in OpenStatuses
  BY DEF Claimable, OpenStatuses
<1>2. \A m \in Messages :
         Claimable(m) => row'[m] = [row[m] EXCEPT !.status = "sending", !.owner = w, !.lapsed = FALSE,
                                    !.attempts = IF @ < MaxAttempts THEN @ + 1 ELSE @]
  BY DEF Claim
<1>3. \A m \in Messages : ~Claimable(m) => row'[m] = row[m]
  BY DEF Claim
<1>4. \A m \in Messages : row[m] \in Row
  BY DEF TypeOK
<1>5. ASSUME NEW m \in Messages, Claimable(m)
      PROVE  row'[m] \in Row /\ row'[m].position = row[m].position /\ row'[m].status = "sending"
  <2>1. row[m] \in Row
    BY <1>4
  <2>2. (IF row[m].attempts < MaxAttempts THEN row[m].attempts + 1 ELSE row[m].attempts) \in 0..MaxAttempts
    BY <2>1, DeliveryAssumption DEF Row
  <2>3. row'[m] = [row[m] EXCEPT !.status = "sending", !.owner = w, !.lapsed = FALSE,
                   !.attempts = IF row[m].attempts < MaxAttempts THEN row[m].attempts + 1 ELSE row[m].attempts]
    BY <1>2, <1>5
  <2>4. QED
    BY <2>1, <2>2, <2>3 DEF Row, OpenStatuses
<1>6. row' \in [Messages -> Row]
  <2>1. \A m \in Messages : row'[m] \in Row
    BY <1>3, <1>4, <1>5
  <2>2. row' = [m \in Messages |-> row'[m]]
    BY DEF Claim
  <2>3. QED
    BY <2>1, <2>2
<1>7. QED
  BY <1>1, <1>3, <1>5, <1>6 DEF RowsKept, Closed, OpenStatuses, ClosedStatuses

\* Every step but enqueue_outbound and delete_contract keeps the rows.
LEMMA StepKeepsRows ==
    ASSUME TypeOK, [Next]_vars
    PROVE  \/ RowsKept
           \/ \E m \in Messages : Enqueue(m) \/ EnqueueOverlapping(m)
           \/ \E c \in Contracts : DeleteContract(c)
<1> SUFFICES ASSUME ~\E m \in Messages : Enqueue(m) \/ EnqueueOverlapping(m),
                    ~\E c \in Contracts : DeleteContract(c)
             PROVE  RowsKept
  OBVIOUS
<1>0. ASSUME UNCHANGED row PROVE RowsKept
  BY <1>0 DEF TypeOK, RowsKept
<1>1. ASSUME NEW m \in Messages, Lapse(m) \/ ComesDue(m) PROVE RowsKept
  <2>1. PICK b \in BOOLEAN : \/ row' = [row EXCEPT ![m].lapsed = b]
                            \/ row' = [row EXCEPT ![m].due = b]
    BY <1>1 DEF Lapse, ComesDue
  <2>2. row[m] \in Row
    BY DEF TypeOK
  <2>3. row' \in [Messages -> Row]
    BY <2>1, <2>2 DEF TypeOK, Row
  <2>4. QED
    BY <2>1, <2>2, <2>3 DEF TypeOK, RowsKept, Row, Closed
<1>2. ASSUME NEW w \in Workers, Claim(w) PROVE RowsKept
  BY <1>2, ClaimKept
<1>3. ASSUME NEW w \in Workers, Mark(w) PROVE RowsKept
  BY <1>0, <1>3, OpenRowKept DEF Mark, Owns, Open, OpenStatuses, ClosedStatuses
<1>4. ASSUME NEW w \in Workers, Reschedule(w) PROVE RowsKept
  <2>1. CASE Owns(w) /\ Active
    <3>1. PICK s \in OpenStatuses \cup ClosedStatuses :
             row' = [row EXCEPT ![work[w].item].status = s, ![work[w].item].due = FALSE,
                                ![work[w].item].owner = NoWorker]
      BY <1>4, <2>1 DEF Reschedule, OpenStatuses, ClosedStatuses
    <3>2. QED
      BY <2>1, <3>1, OpenRowKept DEF Owns, Open, OpenStatuses
  <2>2. CASE ~(Owns(w) /\ Active)
    BY <1>0, <1>4, <2>2 DEF Reschedule
  <2>3. QED
    BY <2>1, <2>2
<1>5. ASSUME NEW w \in Workers, Revoked(w) PROVE RowsKept
  BY <1>5, CloseAllKept DEF Revoked
<1>6. ASSUME Disconnect PROVE RowsKept
  BY <1>0, <1>6, CloseAllKept DEF Disconnect
<1>7. QED
  BY <1>0, <1>1, <1>2, <1>3, <1>4, <1>5, <1>6
  DEF Next, vars, Deliver, Take, Drained, Post, PostRefused, PostTimesOut, PostUnauthorized,
      Slow, Crash, Reconnect, Leave, Uninstall

\* What a delivery worker has in hand after each of its steps.
LEMMA WorkerSteps ==
    ASSUME TypeOK, NEW w \in Workers, Deliver(w) \/ PostTimesOut(w) \/ Slow(w) \/ Crash(w)
    PROVE  \E now \in Work :
              /\ work' = [work EXCEPT ![w] = now]
              /\ now.pc \notin {"idle", "next"} => now.item \in now.items
              /\ now.pc = "idle" => now.items = {}
              /\ Claim(w) \/ now.items \subseteq work[w].items
<1> DEFINE Goal(now) == /\ now \in Work
                        /\ work' = [work EXCEPT ![w] = now]
                        /\ now.pc \notin {"idle", "next"} => now.item \in now.items
                        /\ now.pc = "idle" => now.items = {}
                        /\ Claim(w) \/ now.items \subseteq work[w].items
<1>0. work[w] \in Work /\ (work[w].pc \notin {"idle", "next"} => work[w].item \in work[w].items)
  BY DEF TypeOK
<1>1. ASSUME Claim(w) PROVE \E now : Goal(now)
  <2>1. Goal([work[w] EXCEPT !.pc = "next", !.items = {m \in Messages : Claimable(m)}])
    BY <1>0, <1>1 DEF Claim, Work
  <2>2. QED
    BY <2>1
<1>2. ASSUME Take(w) PROVE \E now : Goal(now)
  <2>1. PICK m \in work[w].items :
           work' = [work EXCEPT ![w].item = m,
                                ![w].token = IF Active THEN install.token ELSE 0,
                                ![w].pc = IF Active THEN "post" ELSE "inactive"]
    BY <1>2 DEF Take
  <2>2. (IF Active THEN install.token ELSE 0) \in {0} \cup Tokens
    BY DEF TypeOK, Install
  <2>3. Goal([work[w] EXCEPT !.item = m, !.token = IF Active THEN install.token ELSE 0,
                             !.pc = IF Active THEN "post" ELSE "inactive"])
    BY <1>0, <2>1, <2>2 DEF Work
  <2>4. QED
    BY <2>3
<1>3. ASSUME Drained(w) \/ Crash(w) PROVE \E now : Goal(now)
  <2>1. Goal(Idle)
    BY <1>3 DEF Drained, Crash, Idle, Work
  <2>2. QED
    BY <2>1
<1>4. ASSUME Mark(w) \/ Reschedule(w) \/ Revoked(w) PROVE \E now : Goal(now)
  <2>1. Goal([work[w] EXCEPT !.items = @ \ {work[w].item}, !.item = NoMessage, !.token = 0, !.pc = "next"])
    <3>1. NextItem(w)
      BY <1>4 DEF Mark, Reschedule, Revoked
    <3>2. QED
      BY <1>0, <3>1 DEF NextItem, Work
  <2>2. QED
    BY <2>1
<1>5. ASSUME Post(w) \/ PostTimesOut(w) \/ PostRefused(w) \/ PostUnauthorized(w) PROVE \E now : Goal(now)
  <2>1. PICK pc \in {"mark", "reschedule", "revoked"} : work' = [work EXCEPT ![w].pc = pc]
    BY <1>5 DEF Post, PostTimesOut, PostRefused, PostUnauthorized
  <2>2. work[w].item \in work[w].items
    BY <1>0, <1>5 DEF Post, PostTimesOut, PostRefused, PostUnauthorized, At
  <2>3. Goal([work[w] EXCEPT !.pc = pc])
    BY <1>0, <2>1, <2>2 DEF Work
  <2>4. QED
    BY <2>3
<1>6. ASSUME Slow(w) PROVE \E now : Goal(now)
  <2>1. Goal([work[w] EXCEPT !.slow = TRUE])
    BY <1>0, <1>6 DEF Slow, Work, At
  <2>2. QED
    BY <2>1
<1>7. QED
  BY <1>1, <1>2, <1>3, <1>4, <1>5, <1>6 DEF Deliver

\* Only the message in hand is posted.
LEMMA PostedTypeOK ==
    ASSUME TypeOK, NEW w \in Workers, Deliver(w) \/ PostTimesOut(w) \/ Slow(w) \/ Crash(w)
    PROVE  posted' \subseteq Messages
<1>1. CASE Post(w) \/ PostTimesOut(w)
  <2>1. work[w].item \in work[w].items /\ work[w] \in Work
    BY <1>1 DEF Post, PostTimesOut, At, TypeOK
  <2>2. QED
    BY <1>1, <2>1 DEF Post, PostTimesOut, TypeOK, Work
<1>2. CASE ~(Post(w) \/ PostTimesOut(w))
  BY <1>2 DEF TypeOK, Deliver, Claim, Take, Drained, PostRefused, PostUnauthorized, Mark, Reschedule,
              Revoked, Slow, Crash
<1>3. QED
  BY <1>1, <1>2

\* A step has at most one fault in it.
LEMMA StepMishaps ==
    ASSUME [Next]_vars
    PROVE  UNCHANGED mishaps \/ \E kind \in FaultKinds : Fault(kind)
BY DEF Next, vars, FaultKinds, Enqueue, EnqueueOverlapping, Lapse, ComesDue, Deliver, Claim, Take,
       Drained, Post, PostRefused, PostTimesOut, PostUnauthorized, Mark, Reschedule, Revoked,
       Slow, Crash, Reconnect, Leave, Disconnect, Uninstall, DeleteContract

\* Only delete_contract deletes, and one contract at a time.
LEMMA StepDeletes ==
    ASSUME [Next]_vars
    PROVE  UNCHANGED deleted \/ \E c \in Contracts : deleted' = deleted \cup {c}
BY DEF Next, vars, Enqueue, EnqueueOverlapping, Lapse, ComesDue, Deliver, Claim, Take, Drained, Post,
       PostRefused, PostTimesOut, PostUnauthorized, Mark, Reschedule, Revoked, Slow, Crash,
       Reconnect, Leave, Disconnect, Uninstall, DeleteContract

\* Every operation keeps the state well-typed, and no two messages of a thread
\* ever get the same position.
THEOREM TypeInductive == TypeOK /\ [Next]_vars => TypeOK'
<1> SUFFICES ASSUME TypeOK, [Next]_vars PROVE TypeOK'
  OBVIOUS
<1>1. /\ row' \in [Messages -> Row]
      /\ \A m, n \in Messages :
            /\ m # n /\ ThreadOf[m] = ThreadOf[n]
            /\ row'[m].status # "absent" /\ row'[n].status # "absent"
            => row'[m].position # row'[n].position
  <2>1. CASE RowsKept
    BY <2>1 DEF RowsKept, TypeOK
  <2>2. ASSUME NEW k \in Messages, Enqueue(k) \/ EnqueueOverlapping(k)
        PROVE  <1>1!:
    <3>1. PICK s \in {"pending", "failed"} : row[k].status = "absent" /\ Insert(k, s)
      BY <2>2 DEF Enqueue, EnqueueOverlapping
    <3>2. /\ row' \in [Messages -> Row]
          /\ \A n \in Messages : n # k => row'[n] = row[n]
          /\ \A n \in Messages : n # k /\ ThreadOf[n] = ThreadOf[k] => row[n].position < row'[k].position
      BY <3>1, InsertIsLast
    <3>3. \A n \in Messages : row[n].position \in Nat /\ row'[n].position \in Nat
      BY <3>2 DEF TypeOK, Row
    <3>4. QED
      BY <3>2, <3>3 DEF TypeOK
  <2>3. ASSUME NEW c \in Contracts, DeleteContract(c) PROVE <1>1!:
    BY <2>3, DeletedRows DEF TypeOK
  <2>4. QED
    BY <2>1, <2>2, <2>3, StepKeepsRows
<1>2. install' \in Install /\ leaving' \in BOOLEAN /\ valid' \subseteq Tokens
  <2>1. ASSUME NEW again \in BOOLEAN, Reconnect(again) PROVE <1>2!:
    BY <2>1 DEF Reconnect, Connect, TypeOK, Install
  <2>2. CASE Leave \/ Disconnect \/ Uninstall
    BY <2>2 DEF Leave, Disconnect, Uninstall, TypeOK, Install
  <2>3. ASSUME NEW w \in Workers, Revoked(w) PROVE <1>2!:
    BY <2>3 DEF Revoked, TypeOK, Install
  <2>4. CASE UNCHANGED <<install, leaving, valid>>
    BY <2>4 DEF TypeOK
  <2>5. QED
    BY <2>1, <2>2, <2>3, <2>4
    DEF Next, vars, Enqueue, EnqueueOverlapping, Lapse, ComesDue, Deliver, Claim, Take, Drained, Post,
        PostRefused, PostTimesOut, PostUnauthorized, Mark, Reschedule, Slow, Crash, DeleteContract
<1>3. /\ work' \in [Workers -> Work]
      /\ \A w \in Workers : work'[w].pc \notin {"idle", "next"} => work'[w].item \in work'[w].items
      /\ posted' \subseteq Messages
  <2>1. ASSUME NEW w \in Workers, Deliver(w) \/ PostTimesOut(w) \/ Slow(w) \/ Crash(w) PROVE <1>3!:
    <3>1. PICK now \in Work :
            /\ work' = [work EXCEPT ![w] = now]
            /\ now.pc \notin {"idle", "next"} => now.item \in now.items
      BY <2>1, WorkerSteps
    <3>2. posted' \subseteq Messages
      BY <2>1, PostedTypeOK
    <3>3. QED
      BY <3>1, <3>2 DEF TypeOK
  <2>2. QED
    BY <2>1 DEF TypeOK, Next, vars, Enqueue, EnqueueOverlapping, Lapse, ComesDue, Reconnect, Leave,
                Disconnect, Uninstall, DeleteContract
<1>4. mishaps' \subseteq Faults
  BY StepMishaps DEF TypeOK, Fault
<1>5. deleted' \subseteq Contracts
  BY StepDeletes DEF TypeOK
<1>6. QED
  BY <1>1, <1>2, <1>3, <1>4, <1>5 DEF TypeOK

\* The outbox, the installation and the workers stay well-typed, and the
\* positions of a thread distinct.
THEOREM TypeCorrect == Spec => []TypeOK
<1>1. QED
  BY InitTypeOK, TypeInductive, PTL DEF Spec

-----------------------------------------------------------------------------
(* Closed messages *)

\* No step of any worker, however late, reopens a message that was sent or
\* given up: mark_outbound_sent and reschedule_outbound ask for the lease.  Only
\* the deletion of its contract ends it, and takes its row.
THEOREM ClosedForGood == Spec => ClosedStaysClosed
<1> DEFINE Keeps == \A m \in Messages : Closed(m) =>
                       \/ row'[m].status = row[m].status
                       \/ ContractOf[m] \in deleted' \ deleted /\ row'[m] = NoRow
<1>1. TypeOK /\ [Next]_vars => [Keeps]_vars
  <2> SUFFICES ASSUME TypeOK, [Next]_vars PROVE Keeps
    OBVIOUS
  <2>1. CASE RowsKept
    BY <2>1 DEF RowsKept
  <2>2. ASSUME NEW k \in Messages, Enqueue(k) \/ EnqueueOverlapping(k) PROVE Keeps
    <3>1. PICK s \in {"pending", "failed"} : row[k].status = "absent" /\ Insert(k, s)
      BY <2>2 DEF Enqueue, EnqueueOverlapping
    <3>2. \A n \in Messages : n # k => row'[n] = row[n]
      BY <3>1, InsertIsLast
    <3>3. QED
      BY <3>1, <3>2 DEF Closed, ClosedStatuses
  <2>3. ASSUME NEW c \in Contracts, DeleteContract(c) PROVE Keeps
    <3>1. c \in deleted' \ deleted
      BY <2>3 DEF DeleteContract
    <3>2. QED
      BY <2>3, <3>1, DeletedRows
  <2>4. QED
    BY <2>1, <2>2, <2>3, StepKeepsRows
<1>2. QED
  BY <1>1, TypeCorrect, PTL DEF Spec, ClosedStaysClosed

-----------------------------------------------------------------------------
(* The order of a thread *)

\* What a worker has claimed has only closed messages before it, whether or
\* not it still owns it: closed messages stay closed, and enqueue_outbound
\* never puts a message before an existing one.  When the contract of the message
\* was deleted since, that holds of a row the worker owns, and the row may have
\* gone or come again behind others when it owns none.
OwnsRow(w, m) == row[m].status = "sending" /\ row[m].owner = w

ClaimedInOrder ==
    \A w \in Workers : \A m \in work[w].items :
        ContractOf[m] \notin deleted \/ OwnsRow(w, m) =>
            /\ row[m].status # "absent"
            /\ \A n \in Messages : Earlier(n, m) => Closed(n)

\* A worker that waits for work holds nothing, and one that marks holds what
\* Slack accepted.
HandedOut ==
    \A w \in Workers : /\ At(w, "mark") => work[w].item \in posted
                       /\ At(w, "idle") => work[w].items = {}

\* A message keeps the earlier ones it has, all closed, through every step but
\* the deletion of its own contract.
LEMMA OrderKept ==
    ASSUME TypeOK, [Next]_vars, NEW m \in Messages, row[m].status # "absent",
           \A n \in Messages : Earlier(n, m) => Closed(n),
           row'[m].status # "absent"
    PROVE  \A n \in Messages : Earlier(n, m)' => Closed(n)'
<1>1. CASE RowsKept
  BY <1>1 DEF RowsKept, Earlier, Closed
<1>2. ASSUME NEW k \in Messages, Enqueue(k) \/ EnqueueOverlapping(k)
      PROVE  \A n \in Messages : Earlier(n, m)' => Closed(n)'
  <2>1. PICK s \in {"pending", "failed"} : row[k].status = "absent" /\ Insert(k, s)
    BY <1>2 DEF Enqueue, EnqueueOverlapping
  <2>2. /\ row' \in [Messages -> Row]
        /\ \A n \in Messages : n # k => row'[n] = row[n]
        /\ \A n \in Messages : n # k /\ ThreadOf[n] = ThreadOf[k] => row[n].position < row'[k].position
    BY <2>1, InsertIsLast
  <2>3. k # m /\ row'[m] = row[m]
    BY <2>1, <2>2
  <2>4. row[m].position \in Nat /\ row'[k].position \in Nat
    BY <2>2 DEF TypeOK, Row
  <2>5. ~Earlier(k, m)'
    BY <2>2, <2>3, <2>4 DEF Earlier
  <2>6. QED
    BY <2>2, <2>3, <2>5 DEF Earlier, Closed
<1>3. ASSUME NEW c \in Contracts, DeleteContract(c)
      PROVE  \A n \in Messages : Earlier(n, m)' => Closed(n)'
  BY <1>3, DeletedRows DEF Earlier, Closed
<1>4. QED
  BY <1>1, <1>2, <1>3, StepKeepsRows

\* Only claim_due_outbound makes a worker the owner of a row.
LEMMA OwnedBefore ==
    ASSUME TypeOK, [Next]_vars, NEW w \in Workers, ~Claim(w), NEW m \in Messages, OwnsRow(w, m)'
    PROVE  OwnsRow(w, m)
<1> USE DEF OwnsRow
<1>0. w # NoWorker /\ row[m] \in Row
  BY DeliveryAssumption DEF TypeOK
<1>1. ASSUME NEW k \in Messages, Enqueue(k) \/ EnqueueOverlapping(k) PROVE OwnsRow(w, m)
  <2>1. PICK s \in {"pending", "failed"} : row[k].status = "absent" /\ Insert(k, s)
    BY <1>1 DEF Enqueue, EnqueueOverlapping
  <2>2. row'[k].status = s /\ \A n \in Messages : n # k => row'[n] = row[n]
    BY <2>1, InsertIsLast
  <2>3. QED
    BY <2>2
<1>2. ASSUME NEW k \in Messages, Lapse(k) \/ ComesDue(k) PROVE OwnsRow(w, m)
  BY <1>2 DEF Lapse, ComesDue, TypeOK, Row
<1>3. ASSUME NEW v \in Workers, Claim(v) PROVE OwnsRow(w, m)
  <2>1. CASE Claimable(m)
    <3>1. row'[m] = [row[m] EXCEPT !.status = "sending", !.owner = v, !.lapsed = FALSE,
                                   !.attempts = IF @ < MaxAttempts THEN @ + 1 ELSE @]
      BY <1>3, <2>1 DEF Claim
    <3>2. row'[m].owner = v
      BY <1>0, <3>1 DEF Row
    <3>3. QED
      BY <1>3, <3>2
  <2>2. CASE ~Claimable(m)
    BY <1>3, <2>2 DEF Claim
  <2>3. QED
    BY <2>1, <2>2
<1>4. ASSUME NEW v \in Workers, Mark(v) \/ Reschedule(v) PROVE OwnsRow(w, m)
  <2>1. CASE row' = row
    BY <2>1
  <2>2. CASE row' # row
    <3>1. PICK k, s, d : \/ row' = [row EXCEPT ![k].status = s, ![k].owner = NoWorker]
                         \/ row' = [row EXCEPT ![k].status = s, ![k].due = d, ![k].owner = NoWorker]
      BY <1>4, <2>2 DEF Mark, Reschedule
    <3>2. QED
      BY <1>0, <3>1 DEF TypeOK, Row
  <2>3. QED
    BY <2>1, <2>2
<1>5. ASSUME CloseAll PROVE OwnsRow(w, m)
  BY <1>0, <1>5 DEF CloseAll, Row
<1>6. ASSUME NEW c \in Contracts, DeleteContract(c) PROVE OwnsRow(w, m)
  BY <1>0, <1>6, DeletedRows
<1>7. CASE UNCHANGED row
  BY <1>7
<1>8. QED
  BY <1>1, <1>2, <1>3, <1>4, <1>5, <1>6, <1>7
  DEF Next, vars, Deliver, Take, Drained, Post, PostRefused, PostTimesOut, PostUnauthorized, Revoked,
      Slow, Crash, Reconnect, Leave, Disconnect, Uninstall

\* A worker comes by a message through claim_due_outbound alone, and has none
\* before.
LEMMA ClaimedBefore ==
    ASSUME TypeOK, [Next]_vars, NEW w \in Workers, ~Claim(w)
    PROVE  work'[w].items \subseteq work[w].items
<1>1. CASE UNCHANGED work
  BY <1>1
<1>2. ASSUME NEW v \in Workers, Deliver(v) \/ PostTimesOut(v) \/ Slow(v) \/ Crash(v)
      PROVE  work'[w].items \subseteq work[w].items
  <2>1. PICK now \in Work :
           /\ work' = [work EXCEPT ![v] = now]
           /\ Claim(v) \/ now.items \subseteq work[v].items
    BY <1>2, WorkerSteps
  <2>2. QED
    BY <2>1 DEF TypeOK
<1>3. QED
  BY <1>1, <1>2 DEF Next, vars, Enqueue, EnqueueOverlapping, Lapse, ComesDue, Reconnect, Leave,
                    Disconnect, Uninstall, DeleteContract

\* claim_due_outbound asks for the order; every other step leaves a worker what
\* it had or less.
THEOREM ClaimedInOrderInductive ==
    TypeOK /\ HandedOut /\ ClaimedInOrder /\ [Next]_vars => ClaimedInOrder'
<1> SUFFICES ASSUME TypeOK, HandedOut, ClaimedInOrder, [Next]_vars,
                    NEW w \in Workers, NEW m \in work'[w].items,
                    ContractOf[m] \notin deleted' \/ OwnsRow(w, m)'
             PROVE  /\ row'[m].status # "absent"
                    /\ \A n \in Messages : Earlier(n, m)' => Closed(n)'
  BY DEF ClaimedInOrder
<1>1. CASE ~Claim(w)
  <2>1. m \in work[w].items /\ m \in Messages
    BY <1>1, ClaimedBefore DEF TypeOK, Work
  <2>2. ContractOf[m] \notin deleted \/ OwnsRow(w, m)
    BY <1>1, <2>1, OwnedBefore, StepDeletes
  <2>3. row[m].status # "absent" /\ \A n \in Messages : Earlier(n, m) => Closed(n)
    BY <2>1, <2>2 DEF ClaimedInOrder
  <2>4. row'[m].status # "absent"
    <3>1. CASE RowsKept
      BY <2>1, <2>3, <3>1 DEF RowsKept
    <3>2. ASSUME NEW k \in Messages, Enqueue(k) \/ EnqueueOverlapping(k) PROVE row'[m].status # "absent"
      <4>1. PICK s \in {"pending", "failed"} : row[k].status = "absent" /\ Insert(k, s)
        BY <3>2 DEF Enqueue, EnqueueOverlapping
      <4>2. \A n \in Messages : n # k => row'[n] = row[n]
        BY <4>1, InsertIsLast
      <4>3. QED
        BY <2>1, <2>3, <4>1, <4>2
    <3>3. ASSUME NEW c \in Contracts, DeleteContract(c) PROVE row'[m].status # "absent"
      <4>1. CASE ContractOf[m] = c
        <5>1. c \in deleted' /\ row'[m].status = "absent"
          BY <2>1, <3>3, <4>1, DeletedRows DEF DeleteContract
        <5>2. QED
          BY <4>1, <5>1 DEF OwnsRow
      <4>2. CASE ContractOf[m] # c
        BY <2>1, <2>3, <3>3, <4>2, DeletedRows
      <4>3. QED
        BY <4>1, <4>2
    <3>4. QED
      BY <3>1, <3>2, <3>3, StepKeepsRows
  <2>5. QED
    BY <2>1, <2>3, <2>4, OrderKept
<1>2. CASE Claim(w)
  <2>1. m \in Messages /\ Claimable(m)
    <3>1. work[w] \in Work
      BY DEF TypeOK
    <3>2. work'[w].items = {k \in Messages : Claimable(k)}
      BY <1>2, <3>1 DEF Claim, TypeOK, Work
    <3>3. QED
      BY <3>2
  <2>2. row[m].status # "absent"
    BY <2>1 DEF Claimable
  <2>3. ASSUME NEW n \in Messages, Earlier(n, m) PROVE Closed(n)
    BY <2>1, <2>3 DEF Claimable, Earlier, Open, Closed, TypeOK, Row
  <2>4. row'[m].status # "absent"
    BY <1>2, <2>1, <2>2, ClaimKept DEF RowsKept
  <2>5. QED
    BY <2>1, <2>2, <2>3, <2>4, OrderKept
<1>3. QED
  BY <1>1, <1>2

\* The place "mark" is reached from the post alone, with the message posted.
LEMMA HandedOutInductive == TypeOK /\ HandedOut /\ [Next]_vars => HandedOut'
<1> SUFFICES ASSUME TypeOK, HandedOut, [Next]_vars PROVE HandedOut'
  OBVIOUS
<1>1. ASSUME NEW w \in Workers, At(w, "idle")' PROVE work'[w].items = {}
  <2>1. CASE work'[w] = work[w]
    BY <1>1, <2>1 DEF HandedOut, At
  <2>2. ASSUME NEW v \in Workers, Deliver(v) \/ PostTimesOut(v) \/ Slow(v) \/ Crash(v)
        PROVE  work'[w].items = {}
    <3>1. PICK now : work' = [work EXCEPT ![v] = now] /\ (now.pc = "idle" => now.items = {})
      BY <2>2, WorkerSteps
    <3>2. QED
      BY <1>1, <2>1, <3>1 DEF At, TypeOK
  <2>3. QED
    BY <2>1, <2>2 DEF Next, vars, Enqueue, EnqueueOverlapping, Lapse, ComesDue, Reconnect, Leave,
                      Disconnect, Uninstall, DeleteContract
<1>2. posted \subseteq posted'
  BY DEF Next, vars, Enqueue, EnqueueOverlapping, Lapse, ComesDue, Deliver, Claim, Take, Drained, Post,
         PostRefused, PostTimesOut, PostUnauthorized, Mark, Reschedule, Revoked, Slow, Crash, Reconnect,
         Leave, Disconnect, Uninstall, DeleteContract
<1>3. ASSUME NEW w \in Workers, At(w, "mark")' PROVE work'[w].item \in posted'
  <2>1. CASE Post(w)
    BY <2>1 DEF Post, TypeOK, Work
  <2>2. CASE work'[w].item = work[w].item /\ work'[w].pc = work[w].pc
    BY <1>2, <1>3, <2>2 DEF HandedOut, At
  <2>3. CASE UNCHANGED work
    BY <2>2, <2>3
  <2>4. ASSUME NEW v \in Workers, Deliver(v) \/ PostTimesOut(v) \/ Slow(v) \/ Crash(v)
        PROVE  work'[w].item \in posted'
    <3>1. work[w] \in Work /\ work \in [Workers -> Work]
      BY DEF TypeOK
    <3>2. CASE v # w
      <4>1. \E now : work' = [work EXCEPT ![v] = now]
        BY <2>4, WorkerSteps
      <4>2. work'[w] = work[w]
        BY <3>2, <4>1
      <4>3. QED
        BY <2>2, <4>2
    <3>3. CASE v = w /\ (Slow(w) \/ Post(w))
      BY <2>1, <2>2, <3>1, <3>3 DEF Slow, Work
    <3>4. CASE v = w /\ ~(Slow(w) \/ Post(w))
      <4>1. CASE Claim(w) \/ Take(w) \/ Drained(w) \/ Crash(w)
        <5>1. CASE Take(w)
          <6>1. PICK m \in work[w].items :
                   work' = [work EXCEPT ![w].item = m, ![w].token = IF Active THEN install.token ELSE 0,
                                        ![w].pc = IF Active THEN "post" ELSE "inactive"]
            BY <5>1 DEF Take
          <6>2. work'[w].pc = IF Active THEN "post" ELSE "inactive"
            BY <3>1, <6>1 DEF Work
          <6>3. QED
            BY <1>3, <6>2 DEF At
        <5>2. CASE Claim(w)
          BY <1>3, <3>1, <5>2 DEF Claim, Work, At
        <5>3. CASE Drained(w) \/ Crash(w)
          BY <1>3, <3>1, <5>3 DEF Drained, Crash, Idle, At
        <5>4. QED
          BY <4>1, <5>1, <5>2, <5>3
      <4>2. CASE Mark(w) \/ Reschedule(w) \/ Revoked(w)
        BY <1>3, <3>1, <4>2 DEF Mark, Reschedule, Revoked, NextItem, Work, At
      <4>3. CASE PostRefused(w) \/ PostTimesOut(w) \/ PostUnauthorized(w)
        BY <1>3, <3>1, <4>3 DEF PostRefused, PostTimesOut, PostUnauthorized, Work, At
      <4>4. QED
        BY <2>4, <3>4, <4>1, <4>2, <4>3 DEF Deliver
    <3>5. QED
      BY <3>2, <3>3, <3>4
  <2>5. QED
    BY <2>3, <2>4 DEF Next, vars, Enqueue, EnqueueOverlapping, Lapse, ComesDue, Reconnect, Leave,
                      Disconnect, Uninstall, DeleteContract
<1>4. QED
  BY <1>1, <1>3 DEF HandedOut

\* Slack accepts the messages of a thread in the order in which they were
\* queued, whatever leases lapse and whichever workers are late.
THEOREM OrderOfThreads == Spec => ThreadsKeepOrder
<1> DEFINE InOrder == \A m \in posted' \ posted, n \in Messages :
                          ContractOf[m] \notin deleted /\ Earlier(n, m) => Closed(n)
<1>1. Init => HandedOut /\ ClaimedInOrder
  BY DEF Init, ClaimedInOrder, HandedOut, Idle, At
<1>2. TypeOK /\ ClaimedInOrder /\ [Next]_vars => [InOrder]_vars
  <2> SUFFICES ASSUME TypeOK, ClaimedInOrder, [Next]_vars, NEW m \in posted' \ posted,
                      ContractOf[m] \notin deleted
               PROVE  \A n \in Messages : Earlier(n, m) => Closed(n)
    OBVIOUS
  <2>1. PICK w \in Workers : Post(w) \/ PostTimesOut(w)
    BY DEF Next, vars, Enqueue, EnqueueOverlapping, Lapse, ComesDue, Deliver, Claim, Take, Drained,
           PostRefused, PostUnauthorized, Mark, Reschedule, Revoked, Slow, Crash, Reconnect, Leave,
           Disconnect, Uninstall, DeleteContract
  <2>2. m = work[w].item /\ work[w].item \in work[w].items
    BY <2>1 DEF Post, PostTimesOut, At, TypeOK
  <2>3. QED
    BY <2>2 DEF ClaimedInOrder
<1>3. QED
  BY <1>1, <1>2, TypeCorrect, HandedOutInductive, ClaimedInOrderInductive, PTL DEF Spec, ThreadsKeepOrder

-----------------------------------------------------------------------------
(* The installation *)

\* Whatever closes the installation closes its outbox in the same transaction,
\* and reschedule_outbound, which reads it again, opens nothing afterwards.
THEOREM InactiveInductive == TypeOK /\ InactiveHasNothingOpen /\ [Next]_vars => InactiveHasNothingOpen'
<1> SUFFICES ASSUME TypeOK, InactiveHasNothingOpen, [Next]_vars PROVE InactiveHasNothingOpen'
  OBVIOUS
<1> USE DEF InactiveHasNothingOpen, Active
<1>0. "overlap" \in mishaps => "overlap" \in mishaps'
  BY StepMishaps DEF Fault
<1>1. CASE UNCHANGED <<row, install>>
  BY <1>0, <1>1 DEF Open
<1>2. ASSUME NEW k \in Messages, Enqueue(k) PROVE InactiveHasNothingOpen'
  <2>1. row[k].status = "absent" /\ Insert(k, IF Active THEN "pending" ELSE "failed")
    BY <1>2 DEF Enqueue
  <2>2. /\ row'[k].status = IF Active THEN "pending" ELSE "failed"
        /\ \A n \in Messages : n # k => row'[n] = row[n]
    BY <2>1, InsertIsLast
  <2>3. install' = install
    BY <1>2 DEF Enqueue
  <2>4. QED
    BY <1>0, <2>2, <2>3 DEF Open, OpenStatuses
<1>3. ASSUME NEW k \in Messages, EnqueueOverlapping(k) PROVE InactiveHasNothingOpen'
  BY <1>3 DEF EnqueueOverlapping, Fault
<1>4. ASSUME NEW k \in Messages, Lapse(k) \/ ComesDue(k) PROVE InactiveHasNothingOpen'
  <2>1. /\ row[k].status \in OpenStatuses
        /\ install' = install
    BY <1>4 DEF Lapse, ComesDue, OpenStatuses
  <2>2. "overlap" \in mishaps \/ install.status = "active"
    BY <2>1 DEF Open
  <2>3. QED
    BY <1>0, <2>1, <2>2
<1>5. ASSUME NEW w \in Workers, Claim(w) PROVE InactiveHasNothingOpen'
  <2>1. \A m \in Messages : Open(m)' => Open(m)
    BY <1>5 DEF Claim, Claimable, Open, OpenStatuses
  <2>2. install' = install
    BY <1>5 DEF Claim
  <2>3. QED
    BY <1>0, <2>1, <2>2
<1>6. ASSUME NEW w \in Workers, Mark(w) \/ Reschedule(w) PROVE InactiveHasNothingOpen'
  <2>1. install' = install
    BY <1>6 DEF Mark, Reschedule
  <2>2. CASE install.status = "active" \/ row' = row
    BY <1>0, <2>1, <2>2 DEF Open
  <2>3. CASE install.status # "active" /\ row' # row
    <3>1. Mark(w) /\ row' = [row EXCEPT ![work[w].item].status = "sent", ![work[w].item].owner = NoWorker]
      BY <1>6, <2>3 DEF Mark, Reschedule
    <3>2. \A m \in Messages : Open(m)' => Open(m)
      BY <3>1 DEF Open, OpenStatuses, TypeOK, Row
    <3>3. QED
      BY <1>0, <2>1, <3>2
  <2>4. QED
    BY <2>2, <2>3
<1>7. ASSUME NEW w \in Workers, Revoked(w) PROVE InactiveHasNothingOpen'
  BY <1>7, CloseAllKept DEF Revoked, Open
<1>8. ASSUME NEW again \in BOOLEAN, Reconnect(again) PROVE InactiveHasNothingOpen'
  BY <1>8 DEF Reconnect, Connect
<1>9. CASE Disconnect
  <2>1. CASE install.status = "active"
    BY <1>9, <2>1, CloseAllKept DEF Disconnect, Open
  <2>2. CASE install.status # "active"
    BY <1>1, <1>9, <2>2 DEF Disconnect
  <2>3. QED
    BY <2>1, <2>2
<1>10. ASSUME NEW c \in Contracts, DeleteContract(c) PROVE InactiveHasNothingOpen'
  <2>1. \A m \in Messages : Open(m)' => Open(m)
    BY <1>10, DeletedRows DEF Open, OpenStatuses
  <2>2. install' = install
    BY <1>10 DEF DeleteContract
  <2>3. QED
    BY <1>0, <2>1, <2>2
<1>11. QED
  BY <1>1, <1>2, <1>3, <1>4, <1>5, <1>6, <1>7, <1>8, <1>9, <1>10
  DEF Next, vars, Deliver, Take, Drained, Post, PostRefused, PostTimesOut, PostUnauthorized,
      Slow, Crash, Leave, Uninstall

\* An installation that was disconnected or found revoked has nothing left to
\* send, unless a transaction of enqueue_outbound overlapped that.
THEOREM InactiveIsEmpty == Spec => []InactiveHasNothingOpen
<1>1. Init => InactiveHasNothingOpen
  BY DEF Init, InactiveHasNothingOpen, Active
<1>2. QED
  BY <1>1, TypeCorrect, InactiveInductive, PTL DEF Spec

\* Slack honours the token of the row or none, and none once a disconnect
\* request has revoked it, until the installation is connected again.
TokensInv ==
    /\ valid \subseteq {install.token}
    /\ "reinstall" \notin mishaps /\ (leaving \/ install.status = "disconnected") => valid = {}

\* Connecting replaces the only valid token, and the disconnect request revokes
\* it before it touches the row.
THEOREM TokensInductive == TypeOK /\ TokensInv /\ [Next]_vars => TokensInv'
<1> SUFFICES ASSUME TypeOK, TokensInv, [Next]_vars PROVE TokensInv'
  OBVIOUS
<1>0. "reinstall" \in mishaps => "reinstall" \in mishaps'
  BY StepMishaps DEF Fault
<1>1. CASE UNCHANGED <<install, leaving, valid>>
  BY <1>0, <1>1 DEF TokensInv
<1>2. ASSUME NEW again \in BOOLEAN, Reconnect(again) PROVE TokensInv'
  <2>1. install'.token = Granted /\ install'.status = "active" /\ valid' = valid \cup {Granted}
    BY <1>2 DEF Reconnect, Connect
  <2>2. valid' \subseteq {install'.token}
    BY <2>1 DEF Granted, TokensInv
  <2>3. "reinstall" \in mishaps' \/ ~leaving'
    BY <1>2 DEF Reconnect, Fault
  <2>4. QED
    BY <2>1, <2>2, <2>3 DEF TokensInv
<1>3. CASE Leave
  BY <1>3 DEF Leave, TokensInv
<1>4. CASE Disconnect
  <2>1. leaving /\ valid' = valid /\ install'.token = install.token
    BY <1>4 DEF Disconnect, TypeOK, Install
  <2>2. QED
    BY <1>0, <2>1 DEF TokensInv
<1>5. CASE Uninstall
  BY <1>0, <1>5 DEF Uninstall, TokensInv
<1>6. ASSUME NEW w \in Workers, Revoked(w) PROVE TokensInv'
  <2>1. install'.token = install.token /\ install'.status # "disconnected"
    BY <1>6 DEF Revoked, TypeOK, Install
  <2>2. QED
    BY <1>0, <1>6, <2>1 DEF Revoked, TokensInv
<1>7. QED
  BY <1>1, <1>2, <1>3, <1>4, <1>5, <1>6
  DEF Next, vars, Enqueue, EnqueueOverlapping, Lapse, ComesDue, Deliver, Claim, Take, Drained, Post,
      PostRefused, PostTimesOut, PostUnauthorized, Mark, Reschedule, Slow, Crash, DeleteContract

\* A worker that read the token before the owner disconnected cannot post with
\* it afterwards: auth.revoke comes before the row is changed.
THEOREM DisconnectSilences == Spec => DisconnectedIsSilent
<1> DEFINE Silent == install.status = "disconnected" /\ "reinstall" \notin mishaps => posted' = posted
<1>1. Init => TokensInv
  BY DEF Init, TokensInv
<1>2. TokensInv /\ [Next]_vars => [Silent]_vars
  <2> SUFFICES ASSUME TokensInv, [Next]_vars, install.status = "disconnected", "reinstall" \notin mishaps
               PROVE  posted' = posted
    OBVIOUS
  <2>1. valid = {}
    BY DEF TokensInv
  <2>2. \A w \in Workers : ~Post(w) /\ ~PostTimesOut(w)
    BY <2>1 DEF Post, PostTimesOut
  <2>3. QED
    BY <2>2 DEF Next, vars, Enqueue, EnqueueOverlapping, Lapse, ComesDue, Deliver, Claim, Take, Drained,
                PostRefused, PostUnauthorized, Mark, Reschedule, Revoked, Slow, Crash, Reconnect, Leave,
                Disconnect, Uninstall, DeleteContract
<1>3. QED
  BY <1>1, <1>2, TypeCorrect, TokensInductive, PTL DEF Spec, DisconnectedIsSilent

-----------------------------------------------------------------------------
(* The outbox promised by OrderedOutbox *)

\* Pending and leased messages are open to the abstract outbox.
LEMMA OpenState == \A m \in Messages : Open(m) => OutboxState(m) = "open"
BY DEF OutboxState, Open, OpenStatuses

Hand == UNION {work[w].items : w \in Workers}

\* Only claim_due_outbound hands anything out.
LEMMA HandShrinks ==
    ASSUME TypeOK, [Next]_vars, ~\E w \in Workers : Claim(w)
    PROVE  Hand' \subseteq Hand
BY ClaimedBefore DEF Hand

\* A step that neither opens nor closes a message changes nothing the abstract
\* outbox knows of the rows.
LEMMA QuietRows ==
    ASSUME TypeOK, RowsKept, \A m \in Messages : Open(m)' <=> Open(m)
    PROVE  UNCHANGED <<[m \in Messages |-> OutboxState(m)], [m \in Messages |-> WaitsFor(m)]>>
<1>1. \A m, n \in Messages : Earlier(n, m)' <=> Earlier(n, m)
  BY DEF RowsKept, Earlier
<1>2. ASSUME NEW m \in Messages PROVE (OutboxState(m))' = OutboxState(m)
  <2>1. row[m] \in Row /\ row'[m] \in Row
    BY DEF TypeOK, RowsKept
  <2>2. QED
    BY <2>1 DEF RowsKept, OutboxState, Open, Closed, Row, OpenStatuses, ClosedStatuses
<1>3. ASSUME NEW m \in Messages PROVE (WaitsFor(m))' = WaitsFor(m)
  BY <1>1 DEF WaitsFor
<1>4. QED
  BY <1>2, <1>3

\* Closing some open messages lets go of those that waited for them.
LEMMA ClosingRows ==
    ASSUME TypeOK, RowsKept, Hand' \subseteq Hand, UNCHANGED posted,
           NEW M \in SUBSET Messages, NEW s \in ClosedStatuses,
           \A m \in M : Open(m) /\ row'[m].status = s,
           \A m \in Messages \ M : Open(m)' <=> Open(m)
    PROVE  Outbox!Leaves(M, IF s = "sent" THEN "sent" ELSE "dropped")
<1>1. \A m, n \in Messages : Earlier(n, m)' <=> Earlier(n, m)
  BY DEF RowsKept, Earlier
<1>2. \A m \in Messages : row[m] \in Row /\ row'[m] \in Row
  BY DEF TypeOK, RowsKept
<1>3. \A m \in M : ~Open(m)'
  BY DEF Open, OpenStatuses, ClosedStatuses
<1>4. ASSUME NEW m \in Messages
      PROVE  (OutboxState(m))' =
                 IF m \in M THEN IF s = "sent" THEN "sent" ELSE "dropped" ELSE OutboxState(m)
  <2>1. CASE m \in M
    BY <1>3, <2>1 DEF OutboxState, Open, OpenStatuses, ClosedStatuses
  <2>2. CASE m \notin M
    BY <1>2, <2>2 DEF RowsKept, OutboxState, Open, Closed, Row, OpenStatuses, ClosedStatuses
  <2>3. QED
    BY <2>1, <2>2
<1>5. ASSUME NEW m \in Messages PROVE (WaitsFor(m))' = IF m \in M THEN {} ELSE WaitsFor(m) \ M
  <2>1. \A n \in Messages : Open(n)' <=> Open(n) /\ n \notin M
    BY <1>3
  <2>2. QED
    BY <1>1, <2>1 DEF WaitsFor
<1>6. QED
  BY <1>4, <1>5 DEF Outbox!Leaves, Hand

\* What a worker has claimed is in hand, and waits for nothing while it is the
\* worker's.
LEMMA ClaimedIsInHand ==
    ASSUME TypeOK, NEW w \in Workers, NEW m \in work[w].items
    PROVE  m \in Messages /\ m \in Hand
BY DEF TypeOK, Work, Hand

LEMMA OwnedWaitsForNothing ==
    ASSUME TypeOK, ClaimedInOrder, NEW w \in Workers, NEW m \in work[w].items, OwnsRow(w, m)
    PROVE  WaitsFor(m) = {}
BY DEF ClaimedInOrder, Closed, Open, OpenStatuses, ClosedStatuses, WaitsFor

OutboxInv == TypeOK /\ ClaimedInOrder /\ HandedOut

\* enqueue_outbound puts the message behind what is open in its thread.
LEMMA EnqueueIsQueue ==
    ASSUME OutboxInv, [Next]_vars, NEW k \in Messages, Enqueue(k) \/ EnqueueOverlapping(k)
    PROVE  Outbox!Queue(k) \/ Outbox!Refuse(k)
<1> USE DEF OutboxInv
<1>1. PICK s \in {"pending", "failed"} : row[k].status = "absent" /\ Insert(k, s)
  BY DEF Enqueue, EnqueueOverlapping
<1>2. /\ row' \in [Messages -> Row] /\ row'[k].status = s
      /\ \A n \in Messages : n # k => row'[n] = row[n]
      /\ \A n \in Messages : n # k /\ ThreadOf[n] = ThreadOf[k] => row[n].position < row'[k].position
  BY <1>1, InsertIsLast
<1>3. posted' = posted /\ Hand' = Hand
  BY DEF Enqueue, EnqueueOverlapping, Hand
<1>4. \A n \in Messages : row[n] \in Row /\ row'[n] \in Row /\ row[n].position \in Nat /\ row'[n].position \in Nat
  BY <1>2 DEF TypeOK, Row
<1>5. OutboxState(k) = "none" /\ (OutboxState(k))' = IF s = "pending" THEN "open" ELSE "dropped"
  BY <1>1, <1>2 DEF OutboxState, Open, OpenStatuses
<1>6. \A n \in Messages : n # k => (OutboxState(n))' = OutboxState(n)
  BY <1>2 DEF OutboxState, Open
<1>7. ASSUME NEW n \in Messages, n # k PROVE (WaitsFor(n))' = WaitsFor(n)
  <2>1. row'[n] = row[n] /\ row[n].position \in Nat /\ row'[k].position \in Nat
    BY <1>2, <1>4, <1>7
  <2>2. ~Earlier(k, n)'
    BY <1>2, <1>7, <2>1 DEF Earlier
  <2>3. ~Earlier(k, n)
    BY <1>1 DEF Earlier
  <2>4. \A o \in Messages : o # k => (Earlier(o, n)' <=> Earlier(o, n)) /\ (Open(o)' <=> Open(o))
    BY <1>2, <1>7 DEF Earlier, Open
  <2>5. Open(n)' <=> Open(n)
    BY <2>1 DEF Open
  <2>6. QED
    BY <2>2, <2>3, <2>4, <2>5 DEF WaitsFor
<1>8. WaitsFor(k) = {}
  BY <1>1 DEF WaitsFor, Earlier
<1>9. CASE s = "pending"
  <2>1. Open(k)' /\ ~Open(k)
    BY <1>1, <1>2, <1>9 DEF Open, OpenStatuses
  <2>2. \A n \in Messages : Earlier(n, k)' /\ Open(n)' <=> ThreadOf[n] = ThreadOf[k] /\ Open(n)
    BY <1>1, <1>2, <1>4, <2>1 DEF Earlier, Open, OpenStatuses
  <2>3. \A n \in Messages : OutboxState(n) = "open" <=> Open(n)
    <3>1. ASSUME NEW n \in Messages, Open(n) PROVE OutboxState(n) = "open"
      BY <3>1 DEF OutboxState, Open, OpenStatuses
    <3>2. ASSUME NEW n \in Messages, ~Open(n) PROVE OutboxState(n) # "open"
      <4>1. row[n].status \in {"absent", "sent", "failed"}
        BY <1>4, <3>2 DEF Row, Open, OpenStatuses, ClosedStatuses
      <4>2. QED
        BY <3>2, <4>1 DEF OutboxState
    <3>3. QED
      BY <3>1, <3>2
  <2>4. (WaitsFor(k))' = {n \in Messages : ThreadOf[n] = ThreadOf[k] /\ OutboxState(n) = "open"}
    BY <2>1, <2>2, <2>3 DEF WaitsFor
  <2>5. QED
    BY <1>3, <1>5, <1>6, <1>7, <1>9, <2>4 DEF Outbox!Queue, Hand
<1>10. CASE s = "failed"
  <2>1. ~Open(k)'
    BY <1>2, <1>10 DEF Open, OpenStatuses
  <2>2. (WaitsFor(k))' = {}
    BY <2>1 DEF WaitsFor
  <2>3. QED
    BY <1>3, <1>5, <1>6, <1>7, <1>8, <1>10, <2>2 DEF Outbox!Refuse, Hand
<1>11. QED
  BY <1>9, <1>10

\* claim_due_outbound hands out what is due and waits for nothing.
LEMMA ClaimIsTake ==
    ASSUME OutboxInv, NEW w \in Workers, Claim(w)
    PROVE  \E M \in SUBSET Messages : Outbox!Take(M)
<1> USE DEF OutboxInv
<1>0. PICK M \in SUBSET Messages : M = {m \in Messages : Claimable(m)}
  OBVIOUS
<1>1. \A m \in Messages : Claimable(m) => row'[m].status = "sending" /\ Open(m)
  BY DEF TypeOK, Row, Claim, Claimable, Open, OpenStatuses
<1>2. \A m \in Messages : ~Claimable(m) => row'[m] = row[m]
  BY DEF Claim
<1>3. \A m \in Messages : Open(m)' <=> Open(m)
  BY <1>1, <1>2 DEF Open, OpenStatuses
<1>4. UNCHANGED <<[m \in Messages |-> OutboxState(m)], [m \in Messages |-> WaitsFor(m)]>>
  BY <1>3, ClaimKept, QuietRows
<1>5. \A m \in M : OutboxState(m) = "open" /\ WaitsFor(m) = {}
  BY <1>0, <1>1, OpenState DEF Claimable, WaitsFor
<1>6. Hand' = Hand \cup M
  <2>1. work[w].items = {} /\ work'[w].items = M
    BY <1>0 DEF Claim, HandedOut, TypeOK, Work
  <2>2. \A v \in Workers : v # w => work'[v] = work[v]
    BY DEF Claim, TypeOK
  <2>3. QED
    BY <2>1, <2>2 DEF Hand
<1>7. posted' = posted
  BY DEF Claim
<1>8. QED
  BY <1>4, <1>5, <1>6, <1>7 DEF Outbox!Take, Hand

\* chat.postMessage takes what a sender has in hand, also when the sender has
\* lost the lease or the row was closed under it.
LEMMA PostIsAccept ==
    ASSUME OutboxInv, NEW w \in Workers, Post(w) \/ PostTimesOut(w)
    PROVE  \E m \in Messages : Outbox!Accept(m)
<1>1. work[w].item \in work[w].items
  BY DEF OutboxInv, TypeOK, Post, PostTimesOut, At
<1>2. PICK m \in Messages : m = work[w].item /\ m \in Hand
  BY <1>1, ClaimedIsInHand DEF OutboxInv
<1>3. row' = row /\ posted' = posted \cup {work[w].item}
  BY DEF Post, PostTimesOut
<1>4. UNCHANGED <<[k \in Messages |-> OutboxState(k)], [k \in Messages |-> WaitsFor(k)]>>
  BY <1>3 DEF OutboxState, WaitsFor, Open, Earlier
<1>5. \A v \in Workers : work'[v].items = work[v].items
  BY DEF OutboxInv, TypeOK, Work, Post, PostTimesOut
<1>6. QED
  BY <1>2, <1>3, <1>4, <1>5 DEF Outbox!Accept, Hand

\* Whatever changes no row and accepts nothing puts something away at most.
LEMMA SameRowsArePutAway ==
    ASSUME UNCHANGED <<row, posted>>, Hand' \subseteq Hand
    PROVE  Outbox!PutAway
BY DEF Outbox!PutAway, OutboxState, WaitsFor, Open, Earlier, Hand

\* mark_outbound_sent closes a message that Slack accepted in its turn, or
\* finds that it lost the lease.
LEMMA MarkIsSend ==
    ASSUME OutboxInv, Hand' \subseteq Hand, NEW w \in Workers, Mark(w)
    PROVE  (\E m \in Messages : Outbox!Send(m)) \/ Outbox!PutAway
<1> USE DEF OutboxInv
<1>0. posted' = posted /\ work[w].item \in work[w].items
  BY DEF Mark, At, TypeOK
<1>1. CASE ~Owns(w)
  <2>1. row' = row
    BY <1>1 DEF Mark
  <2>2. QED
    BY <1>0, <2>1, SameRowsArePutAway
<1>2. CASE Owns(w)
  <2>1. PICK m \in Messages : m = work[w].item /\ WaitsFor(m) = {}
    BY <1>0, <1>2, ClaimedIsInHand, OwnedWaitsForNothing DEF Owns, OwnsRow
  <2>2. m \in posted
    BY <2>1 DEF Mark, HandedOut
  <2>3. row' = [row EXCEPT ![m].status = "sent", ![m].owner = NoWorker] /\ Open(m)
    BY <1>2, <2>1 DEF Mark, Owns, Open, OpenStatuses
  <2>4. row'[m].status = "sent" /\ \A n \in Messages : n # m => row'[n] = row[n]
    BY <2>2, <2>3 DEF TypeOK, Row
  <2>5. RowsKept
    BY <2>3, OpenRowKept DEF ClosedStatuses
  <2>6. \A n \in Messages \ {m} : Open(n)' <=> Open(n)
    BY <2>4 DEF Open
  <2>7. Outbox!Leaves({m}, "sent")
    BY <1>0, <2>2, <2>3, <2>4, <2>5, <2>6, ClosingRows DEF ClosedStatuses
  <2>8. OutboxState(m) = "open"
    BY <2>2, <2>3, OpenState
  <2>9. QED
    BY <1>0, <2>1, <2>2, <2>7, <2>8 DEF Outbox!Send
<1>3. QED
  BY <1>1, <1>2

\* reschedule_outbound gives a leased message up after its last attempt, and
\* otherwise leaves it where it is.
LEMMA RescheduleIsDrop ==
    ASSUME OutboxInv, Hand' \subseteq Hand, NEW w \in Workers, Reschedule(w)
    PROVE  (\E m \in Messages : Outbox!Drop({m})) \/ Outbox!PutAway
<1> USE DEF OutboxInv
<1>0. posted' = posted
  BY DEF Reschedule
<1>1. CASE ~(Owns(w) /\ Active)
  <2>1. row' = row
    BY <1>1 DEF Reschedule
  <2>2. QED
    BY <1>0, <2>1, SameRowsArePutAway
<1>2. CASE Owns(w) /\ Active
  <2>1. PICK m \in Messages : m = work[w].item
    BY DEF Reschedule, At, TypeOK, Work
  <2>2. PICK s \in {"failed", "pending"} :
           row' = [row EXCEPT ![m].status = s, ![m].due = FALSE, ![m].owner = NoWorker]
    BY <1>2, <2>1 DEF Reschedule
  <2>3. Open(m)
    BY <1>2, <2>1 DEF Owns, Open, OpenStatuses
  <2>4. row'[m].status = s /\ \A n \in Messages : n # m => row'[n] = row[n]
    BY <2>1, <2>2 DEF TypeOK, Row
  <2>5. RowsKept
    BY <2>2, <2>3, OpenRowKept DEF ClosedStatuses, OpenStatuses
  <2>6. \A n \in Messages \ {m} : Open(n)' <=> Open(n)
    BY <2>4 DEF Open
  <2>7. CASE s = "failed"
    <3>1. Outbox!Leaves({m}, "dropped")
      BY <1>0, <2>1, <2>3, <2>4, <2>5, <2>6, <2>7, ClosingRows DEF ClosedStatuses
    <3>2. OutboxState(m) = "open"
      BY <2>1, <2>3, OpenState
    <3>3. QED
      BY <2>1, <3>1, <3>2 DEF Outbox!Drop
  <2>8. CASE s = "pending"
    <3>1. \A k \in Messages : Open(k)' <=> Open(k)
      BY <2>3, <2>4, <2>6, <2>8 DEF Open, OpenStatuses
    <3>2. QED
      BY <1>0, <2>5, <3>1, QuietRows DEF Outbox!PutAway, Hand
  <2>9. QED
    BY <2>7, <2>8
<1>3. QED
  BY <1>1, <1>2

\* Disconnecting, and learning that the token is revoked, give all up that is
\* open, in whatever threads.
LEMMA CloseAllIsDrop ==
    ASSUME OutboxInv, Hand' \subseteq Hand, CloseAll, UNCHANGED posted
    PROVE  \E M \in SUBSET Messages : Outbox!Drop(M)
<1> USE DEF OutboxInv
<1>0. PICK M \in SUBSET Messages : M = {m \in Messages : Open(m)}
  OBVIOUS
<1>1. RowsKept /\ \A m \in Messages : row'[m].status \notin OpenStatuses
  BY CloseAllKept
<1>2. \A m \in M : row'[m].status = "failed"
  BY <1>0 DEF CloseAll, TypeOK, Row
<1>3. \A m \in Messages \ M : Open(m)' <=> Open(m)
  BY <1>0, <1>1 DEF Open
<1>4. Outbox!Leaves(M, "dropped")
  BY <1>0, <1>1, <1>2, <1>3, ClosingRows DEF ClosedStatuses
<1>5. \A m \in M : OutboxState(m) = "open"
  BY <1>0, OpenState
<1>6. QED
  BY <1>4, <1>5 DEF Outbox!Drop

\* Deleting a contract takes its messages out of the outbox, open or not.
LEMMA DeleteContractIsDelete ==
    ASSUME OutboxInv, NEW c \in Contracts, DeleteContract(c)
    PROVE  \E M \in SUBSET Messages : Outbox!Delete(M)
<1> USE DEF OutboxInv
<1>0. PICK M \in SUBSET Messages : M = MessagesOf(c)
  BY DEF MessagesOf
<1>1. /\ \A m \in M : row'[m].status = "absent"
      /\ \A m \in Messages \ M : row'[m] = row[m]
  BY <1>0, DeletedRows DEF MessagesOf
<1>2. M \subseteq {m \in Messages : ContractOf[m] \in Contracts}
  BY <1>0 DEF MessagesOf
<1>3. \A m \in M : ~Open(m)' /\ (OutboxState(m))' = "none" /\ (WaitsFor(m))' = {}
  BY <1>1 DEF OutboxState, WaitsFor, Open, OpenStatuses
<1>4. ASSUME NEW m \in Messages \ M
      PROVE  (OutboxState(m))' = OutboxState(m) /\ (WaitsFor(m))' = WaitsFor(m) \ M
  <2>1. \A n \in Messages \ M : (Earlier(n, m)' <=> Earlier(n, m)) /\ (Open(n)' <=> Open(n))
    BY <1>1, <1>4 DEF Earlier, Open
  <2>2. (WaitsFor(m))' = WaitsFor(m) \ M
    BY <1>3, <1>4, <2>1 DEF WaitsFor
  <2>3. QED
    BY <1>1, <2>2 DEF OutboxState, Open
<1>5. posted' = posted /\ Hand' = Hand
  BY DEF DeleteContract, Hand
<1>6. QED
  BY <1>2, <1>3, <1>4, <1>5 DEF Outbox!Delete, Outbox!Leaves, Hand

\* A lease that runs out and a retry that comes due open and close nothing.
LEMMA TimePassesQuietly ==
    ASSUME OutboxInv, [Next]_vars, NEW k \in Messages, Lapse(k) \/ ComesDue(k)
    PROVE  UNCHANGED Outbox!vars
<1> USE DEF OutboxInv
<1>1. \A m \in Messages : row'[m].status = row[m].status
  BY DEF TypeOK, Row, Lapse, ComesDue
<1>2. \A m \in Messages : Open(m)' <=> Open(m)
  BY <1>1 DEF Open
<1>3. ASSUME NEW m \in Messages, Enqueue(m) \/ EnqueueOverlapping(m) PROVE FALSE
  <2>1. PICK s \in {"pending", "failed"} : row[m].status = "absent" /\ Insert(m, s)
    BY <1>3 DEF Enqueue, EnqueueOverlapping
  <2>2. row'[m].status = s
    BY <2>1, InsertIsLast
  <2>3. QED
    BY <1>1, <2>1, <2>2
<1>4. RowsKept
  <2>1. deleted' = deleted
    BY DEF Lapse, ComesDue
  <2>2. QED
    BY <1>3, <2>1, StepKeepsRows DEF DeleteContract
<1>5. posted' = posted /\ work' = work
  BY DEF Lapse, ComesDue
<1>6. QED
  BY <1>2, <1>4, <1>5, QuietRows DEF Outbox!vars

\* The moves of an outbox, each by its name.
LEMMA OutboxMoves ==
    /\ \A m \in Messages : Outbox!Queue(m) \/ Outbox!Refuse(m) \/ Outbox!Accept(m) \/ Outbox!Send(m)
                               => Outbox!Next
    /\ \A M \in SUBSET Messages : Outbox!Take(M) \/ Outbox!Drop(M) \/ Outbox!Delete(M) => Outbox!Next
    /\ Outbox!PutAway => Outbox!Next
<1>1. ASSUME NEW m \in Messages,
             Outbox!Queue(m) \/ Outbox!Refuse(m) \/ Outbox!Accept(m) \/ Outbox!Send(m)
      PROVE  Outbox!Next
  BY <1>1 DEF Outbox!Next
<1>2. ASSUME NEW M \in SUBSET Messages, Outbox!Take(M) \/ Outbox!Drop(M) \/ Outbox!Delete(M)
      PROVE  Outbox!Next
  BY <1>2 DEF Outbox!Next
<1>3. ASSUME Outbox!PutAway PROVE Outbox!Next
  BY <1>3 DEF Outbox!Next
<1>4. QED
  BY <1>1, <1>2, <1>3

\* Every step is a step of the abstract outbox or changes nothing it knows.
LEMMA OutboxStep ==
    ASSUME OutboxInv, [Next]_vars
    PROVE  [Outbox!Next]_(Outbox!vars)
<1>1. ASSUME NEW k \in Messages, Enqueue(k) \/ EnqueueOverlapping(k) PROVE Outbox!Next
  BY <1>1, EnqueueIsQueue, OutboxMoves
<1>2. ASSUME NEW w \in Workers, Claim(w) PROVE Outbox!Next
  BY <1>2, ClaimIsTake, OutboxMoves
<1>3. ASSUME NEW k \in Messages, Lapse(k) \/ ComesDue(k) PROVE [Outbox!Next]_(Outbox!vars)
  BY <1>3, TimePassesQuietly
<1>4. CASE \E w \in Workers : Post(w) \/ PostTimesOut(w)
  BY <1>4, PostIsAccept, OutboxMoves
<1>5. CASE ~\E w \in Workers : Claim(w)
  <2>0. Hand' \subseteq Hand
    BY <1>5, HandShrinks DEF OutboxInv
  <2>1. ASSUME NEW w \in Workers, Mark(w) PROVE Outbox!Next
    BY <2>0, <2>1, MarkIsSend, OutboxMoves
  <2>2. ASSUME NEW w \in Workers, Reschedule(w) PROVE Outbox!Next
    <3>1. \A m \in Messages : {m} \in SUBSET Messages
      OBVIOUS
    <3>2. QED
      BY <2>0, <2>2, <3>1, RescheduleIsDrop, OutboxMoves
  <2>3. ASSUME CloseAll, UNCHANGED posted PROVE Outbox!Next
    BY <2>0, <2>3, CloseAllIsDrop, OutboxMoves
  <2>4. CASE UNCHANGED <<row, posted>>
    BY <2>0, <2>4, SameRowsArePutAway, OutboxMoves
  <2>5. ASSUME NEW c \in Contracts, DeleteContract(c) PROVE Outbox!Next
    BY <2>5, DeleteContractIsDelete, OutboxMoves
  <2>6. QED
    BY <1>1, <1>3, <1>4, <1>5, <2>1, <2>2, <2>3, <2>4, <2>5
    DEF Next, vars, Deliver, Take, Drained, PostRefused, PostUnauthorized, Revoked, Slow, Crash,
        Reconnect, Leave, Disconnect, Uninstall, DeleteContract
<1>6. QED
  BY <1>2, <1>5

\* Whatever workers are late, tokens revoked and installations connected
\* again, the outbox of Slack messages is an outbox that keeps the order of
\* its threads, marks as sent only what was accepted and reopens nothing but by
\* the deletion of a contract.
THEOREM OutboxIsImplemented == Spec => ImplementsOutbox
<1>1. Init => OutboxInv /\ Outbox!Init
  <2> SUFFICES ASSUME Init PROVE OutboxInv /\ Outbox!Init
    OBVIOUS
  <2>1. OutboxInv
    BY InitTypeOK DEF Init, OutboxInv, ClaimedInOrder, HandedOut, Idle, At
  <2>2. \A m \in Messages : row[m].status = "absent"
    BY DEF Init, NoRow
  <2>3. \A m \in Messages : OutboxState(m) = "none" /\ WaitsFor(m) = {}
    BY <2>2 DEF OutboxState, WaitsFor, Earlier, Open, OpenStatuses
  <2>4. posted = {} /\ \A w \in Workers : work[w].items = {}
    BY DEF Init, Idle
  <2>5. QED
    BY <2>1, <2>3, <2>4 DEF Outbox!Init
<1>2. OutboxInv /\ [Next]_vars => OutboxInv'
  BY TypeInductive, ClaimedInOrderInductive, HandedOutInductive DEF OutboxInv
<1>3. OutboxInv /\ [Next]_vars => [Outbox!Next]_(Outbox!vars)
  BY OutboxStep
<1>4. QED
  BY <1>1, <1>2, <1>3, PTL DEF Spec, ImplementsOutbox, Outbox!Spec

-----------------------------------------------------------------------------
(* What those who queue messages get from it *)

\* If whoever queues m has queued r before, and r belongs to no contract, r is
\* earlier in their thread, and settled by the time a worker takes m.
FirstIsSettled(r, m) ==
    /\ row[m].status # "absent" => Earlier(r, m)
    /\ \A w \in Workers : m \in work[w].items => Closed(r)
    /\ m \in posted => Closed(r)

LEMMA FirstIsSettledInductive ==
    ASSUME NEW r \in Messages, NEW m \in Messages, r # m, ThreadOf[r] = ThreadOf[m],
           ContractOf[r] \notin Contracts,
           TypeOK, FirstIsSettled(r, m), [Next]_vars,
           row'[m].status # "absent" => row'[r].status # "absent"
    PROVE  FirstIsSettled(r, m)'
<1>1. row'[m].status # "absent" => Earlier(r, m)'
  <2>1. CASE RowsKept
    BY <2>1 DEF RowsKept, FirstIsSettled, Earlier
  <2>2. ASSUME NEW k \in Messages, Enqueue(k) \/ EnqueueOverlapping(k)
        PROVE  row'[m].status # "absent" => Earlier(r, m)'
    <3>1. PICK s \in {"pending", "failed"} : row[k].status = "absent" /\ Insert(k, s)
      BY <2>2 DEF Enqueue, EnqueueOverlapping
    <3>2. /\ \A n \in Messages : n # k => row'[n] = row[n]
          /\ \A n \in Messages : n # k /\ ThreadOf[n] = ThreadOf[k] => row[n].position < row'[k].position
      BY <3>1, InsertIsLast
    <3>3. CASE k = m
      BY <3>2, <3>3 DEF Earlier
    <3>4. CASE k # m
      BY <3>1, <3>2, <3>4 DEF FirstIsSettled, Earlier
    <3>5. QED
      BY <3>3, <3>4
  <2>3. ASSUME NEW c \in Contracts, DeleteContract(c)
        PROVE  row'[m].status # "absent" => Earlier(r, m)'
    BY <2>3, DeletedRows DEF FirstIsSettled, Earlier
  <2>4. QED
    BY <2>1, <2>2, <2>3, StepKeepsRows
<1>2. Closed(r) => Closed(r)'
  <2>1. CASE RowsKept
    BY <2>1 DEF RowsKept, Closed
  <2>2. ASSUME NEW k \in Messages, Enqueue(k) \/ EnqueueOverlapping(k) PROVE Closed(r) => Closed(r)'
    <3>1. PICK s \in {"pending", "failed"} : row[k].status = "absent" /\ Insert(k, s)
      BY <2>2 DEF Enqueue, EnqueueOverlapping
    <3>2. \A n \in Messages : n # k => row'[n] = row[n]
      BY <3>1, InsertIsLast
    <3>3. QED
      BY <3>1, <3>2 DEF Closed, ClosedStatuses
  <2>3. ASSUME NEW c \in Contracts, DeleteContract(c) PROVE Closed(r) => Closed(r)'
    BY <2>3, DeletedRows DEF Closed
  <2>4. QED
    BY <2>1, <2>2, <2>3, StepKeepsRows
<1>3. ASSUME NEW w \in Workers, m \in work'[w].items PROVE Closed(r)'
  <2>1. CASE Claim(w)
    <3>1. Claimable(m)
      <4>1. work'[w].items = {k \in Messages : Claimable(k)}
        BY <2>1 DEF Claim, TypeOK, Work
      <4>2. QED
        BY <1>3, <4>1
    <3>2. Earlier(r, m) /\ ~Open(r)
      BY <3>1 DEF FirstIsSettled, Claimable
    <3>3. Closed(r)
      BY <3>2 DEF Earlier, Open, Closed, TypeOK, Row
    <3>4. QED
      BY <1>2, <3>3
  <2>2. CASE ~Claim(w)
    BY <1>2, <1>3, <2>2, ClaimedBefore DEF FirstIsSettled
  <2>3. QED
    BY <2>1, <2>2
<1>4. ASSUME m \in posted' \ posted PROVE Closed(r)
  <2>1. PICK w \in Workers : Post(w) \/ PostTimesOut(w)
    BY <1>4 DEF Next, vars, Enqueue, EnqueueOverlapping, Lapse, ComesDue, Deliver, Claim, Take, Drained,
           PostRefused, PostUnauthorized, Mark, Reschedule, Revoked, Slow, Crash, Reconnect, Leave,
           Disconnect, Uninstall, DeleteContract
  <2>2. m = work[w].item /\ work[w].item \in work[w].items
    BY <1>4, <2>1 DEF Post, PostTimesOut, At, TypeOK
  <2>3. QED
    BY <2>2 DEF FirstIsSettled
<1>5. QED
  BY <1>1, <1>2, <1>3, <1>4 DEF FirstIsSettled

\* Under an intake that queues the receipt before any reply (ReceiptComesFirst
\* of SlackIntake), Slack accepts no reply before the receipt is sent or given
\* up: the order in which two processes queue is the order the sender reads.
\* The receipt belongs to no contract, as that of slack_worker.py does, so no
\* deletion takes it; the reply's contract may be deleted at any time.
THEOREM QueuedFirstIsReadFirst ==
    ASSUME NEW r \in Messages, NEW m \in Messages, r # m, ThreadOf[r] = ThreadOf[m],
           ContractOf[r] = NoContract
    PROVE  Spec /\ [](row[m].status # "absent" => row[r].status # "absent")
               => [](m \in posted => Closed(r))
<1> DEFINE Queued == row[m].status # "absent" => row[r].status # "absent"
           Read == m \in posted => Closed(r)
<1>0. ContractOf[r] \notin Contracts
  BY DeliveryAssumption
<1>1. Init => FirstIsSettled(r, m)
  BY DEF Init, NoRow, Idle, FirstIsSettled
<1>2. TypeOK /\ FirstIsSettled(r, m) /\ [Next]_vars /\ Queued' => FirstIsSettled(r, m)'
  BY <1>0, FirstIsSettledInductive
<1>3. FirstIsSettled(r, m) => Read
  BY DEF FirstIsSettled
<1> HIDE DEF Queued, Read
<1>4. Spec /\ []Queued => []Read
  BY <1>1, <1>2, <1>3, TypeCorrect, PTL DEF Spec
<1>5. QED
  BY <1>4 DEF Queued, Read

=============================================================================
