------------------------------- MODULE Email -------------------------------
(***************************************************************************)
(* One email with contracts attached, from Resend's webhook to the answers *)
(* in the sender's inbox: the webhook handlers and the event row they      *)
(* claim, the receipt and the review jobs they queue, the review worker    *)
(* that queues a review for each job, and the delivery workers that drain  *)
(* outbound_email_outbox.                                                  *)
(*                                                                         *)
(* The event row is claimed, not leased with a token: whoever finishes     *)
(* marks it, whatever happened to it meanwhile.  So are the outbox rows.   *)
(* The provider delivers a webhook again until it hears an answer below    *)
(* 400, and drops a message whose idempotency key it knows.                *)
(***************************************************************************)
EXTENDS Naturals, Sequences, FiniteSets

CONSTANTS
    Files,          \* attachments of the email, in their order: 1..n
    Rejected,       \* those whose download is refused for good
    Invalid,        \* those that are downloaded and are no contract files
    Handlers,       \* threads of the API that serve the webhook
    Senders,        \* delivery workers
    MaxJobs,        \* bound: review jobs that are published
    MaxAttempts,    \* attempts before an outbox row is given up
    Faults,         \* kinds of mishap that may happen
    MaxFaults,      \* bound: mishaps
    None

ASSUME EmailAssumption ==
    /\ Files \subseteq Nat \ {0}
    /\ Rejected \subseteq Files
    /\ Invalid \subseteq Files \ Rejected
    /\ IsFiniteSet(Handlers)
    /\ MaxJobs \in Nat
    /\ MaxAttempts \in Nat \ {0}
    /\ MaxFaults \in Nat
    /\ None \notin Files

VARIABLES
    due,        \* the provider still owes a delivery of the webhook
    mail,       \* ignored: not for us, no sender, no supported attachment;
                \* refused: the sender may not have an account; or wanted
    event,      \* status of the row of inbound_email_events
    stale,      \* its received_at is ten minutes old
    handler,    \* what each webhook handler is doing
    told,       \* the sender was told of the Invalid attachments
    job,        \* the attachment each review job is for
    queue,      \* jobs at the review worker
    done,       \* those whose review is over; its status is at rest
    settled,    \* attachments whose contract came to rest since it was queued
    lost,       \* jobs whose contract was deleted
    row,        \* outbound_email_outbox: 0 is the receipt, n the review of job n
    sender,     \* what each delivery worker is doing
    inbox,      \* rows the provider accepted, in order
    mishaps,
    reasons,    \* history: failures and stale claims that allow another pass
    shrugged,   \* history: a delivery was answered "processing"
    limited     \* history: the email was refused by the rate limit

eventVars == <<due, mail, event, stale, handler, told, reasons, shrugged, limited>>
jobVars == <<job, queue, done, settled, lost>>
outboxVars == <<row, sender, inbox>>
vars == <<eventVars, jobVars, outboxVars, mishaps>>

-----------------------------------------------------------------------------
(* Types *)

Keys == 0..MaxJobs

Handler == [pc: {"idle", "claim", "fetch", "receipt", "publish", "respond", "close", "fail"},
            todo: SUBSET Files,
            heard: BOOLEAN]      \* the provider still waits for this answer

Row == [status: {"absent", "pending", "sending", "sent", "failed"},
        position: Nat,
        attempts: Nat,
        lapsed: BOOLEAN]         \* lease_expires_at has passed

Sender == [pc: {"idle", "check", "send", "sent", "failed"},
           key: Keys,
           attempts: Nat,        \* as claimed
           gone: BOOLEAN]        \* the row it claimed was deleted

\* Every variable has its type.
TypeOK ==
    /\ due \in BOOLEAN /\ stale \in BOOLEAN /\ told \in BOOLEAN
    /\ mail \in {"ignored", "refused", "wanted"}
    /\ shrugged \in BOOLEAN /\ limited \in BOOLEAN
    /\ event \in {"none", "processing", "failed", "completed"}
    /\ handler \in [Handlers -> Handler]
    /\ job \in [1..MaxJobs -> Files \cup {None}]
    /\ queue \subseteq 1..MaxJobs /\ done \subseteq 1..MaxJobs /\ lost \subseteq 1..MaxJobs
    /\ settled \subseteq Files
    /\ row \in [Keys -> Row]
    /\ sender \in [Senders -> Sender]
    /\ inbox \in Seq(Keys)
    /\ mishaps \in 0..MaxFaults
    /\ reasons \in Nat

Quiet == [pc |-> "idle", todo |-> {}, heard |-> FALSE]
NoRow == [status |-> "absent", position |-> 0, attempts |-> 0, lapsed |-> FALSE]
Resting == [pc |-> "idle", key |-> 0, attempts |-> 0, gone |-> FALSE]

Init ==
    /\ due = TRUE /\ mail \in {"ignored", "refused", "wanted"}
    /\ event = "none" /\ stale = FALSE /\ told = FALSE
    /\ handler = [h \in Handlers |-> Quiet]
    /\ job = [n \in 1..MaxJobs |-> None] /\ queue = {}
    /\ done = {} /\ settled = {} /\ lost = {}
    /\ row = [k \in Keys |-> NoRow]
    /\ sender = [w \in Senders |-> Resting]
    /\ inbox = <<>>
    /\ mishaps = 0 /\ reasons = 0
    /\ shrugged = FALSE /\ limited = FALSE

-----------------------------------------------------------------------------
(* Vocabulary *)

At(h, pc) == handler[h].pc = pc
Goes(h, pc) == handler' = [handler EXCEPT ![h].pc = pc]

Fault(kind) == /\ kind \in Faults /\ mishaps < MaxFaults
               /\ mishaps' = mishaps + 1
NoFault == UNCHANGED mishaps

Working == \E h \in Handlers : ~At(h, "idle")
Holding == \E h \in Handlers : ~At(h, "idle") /\ ~At(h, "claim")

\* 200: unless it has given up on this connection, the provider is content.
Answer(h) == /\ due' = (due /\ ~handler[h].heard)
             /\ handler' = [handler EXCEPT ![h] = Quiet]

\* The attachments that are downloaded and pass validate_uploaded_file.
Reviewable == Files \ (Rejected \cup Invalid)

\* Where a pass goes on when it has been through its attachments: those that
\* validation refused are answered at once.
AfterFiles == IF Invalid = {} THEN "close" ELSE "respond"

Present(k) == row[k].status # "absent"

\* enqueue: nothing when the idempotency key is known, else the next position of
\* the thread.  (Of two that read the same position the unique constraint refuses
\* one, which is a failure of its caller.)
Positions == {0} \cup {row[k].position : k \in {o \in Keys : Present(o)}}
Enqueue(k) ==
    \/ Present(k) /\ UNCHANGED row
    \/ /\ ~Present(k)
       /\ \E last \in Positions :
             /\ \A p \in Positions : p <= last
             /\ row' = [row EXCEPT ![k] = [NoRow EXCEPT !.status = "pending",
                                                        !.position = last + 1]]

-----------------------------------------------------------------------------
(* POST /email/inbound *)

\* The webhook is delivered, again when its answer was late, or by a replay.
Deliver(h) ==
    /\ At(h, "idle")
    /\ IF due /\ ~Working THEN NoFault ELSE Fault("redelivery")
    /\ handler' = [g \in Handlers |->
                     IF g = h THEN [Quiet EXCEPT !.pc = "claim", !.heard = TRUE]
                     ELSE [handler[g] EXCEPT !.heard = FALSE]]
    /\ UNCHANGED <<due, mail, told, event, stale, reasons, shrugged, limited,
                   jobVars, outboxVars>>

\* Mutant of Claimable: a claim that is being worked on is taken over at once.
AlwaysClaimable == event # "completed"

Claimable == \/ event \in {"none", "failed"}
             \/ event = "processing" /\ stale

\* InboundEmailEventRepository.claim: insert, or read and reclaim, in one
\* transaction.  A claim somebody holds is answered 200 "processing".
Claim(h) ==
    /\ At(h, "claim")
    /\ \/ /\ Claimable
          /\ event' = "processing" /\ stale' = FALSE
          /\ Goes(h, "fetch")
          /\ UNCHANGED <<due, shrugged>>
       \/ /\ ~Claimable
          /\ Answer(h)
          /\ shrugged' = (shrugged \/ event = "processing")
          /\ UNCHANGED <<event, stale>>
    /\ UNCHANGED <<mail, told, reasons, limited, jobVars, outboxVars, mishaps>>

\* Not for us, no sender, no supported attachment, or a sender who may have no
\* account (resolve_inbound_sender, after the limiter): completed and ignored.
Ignore(h) ==
    /\ At(h, "fetch") /\ mail # "wanted"
    /\ event' = "completed"
    /\ Answer(h)
    /\ UNCHANGED <<mail, told, stale, reasons, shrugged, limited, jobVars, outboxVars,
                   mishaps>>

\* The limiter refuses the attachments.  Every pass is charged anew.
Limit(h) ==
    /\ At(h, "fetch") /\ mail # "ignored" /\ Fault("limit")
    /\ event' = "completed" /\ limited' = TRUE
    /\ Answer(h)
    /\ UNCHANGED <<mail, told, stale, reasons, shrugged, jobVars, outboxVars>>

\* The account is resolved, the event bound to its workspace, and the attachments
\* that can be downloaded are.
Fetch(h) ==
    /\ At(h, "fetch") /\ mail = "wanted"
    /\ handler' = [handler EXCEPT ![h].todo = Reviewable,
                     ![h].pc = IF Files = Rejected THEN "close" ELSE "receipt"]
    /\ UNCHANGED <<due, mail, told, event, stale, reasons, shrugged, limited, jobVars, outboxVars,
                   mishaps>>

\* process_inbound_email queues the receipt under the message's key.
QueueReceipt(h) ==
    /\ At(h, "receipt")
    /\ Enqueue(0)
    /\ Goes(h, IF handler[h].todo = {} THEN AfterFiles ELSE "publish")
    /\ UNCHANGED <<due, mail, told, event, stale, reasons, shrugged, limited, jobVars,
                   sender, inbox, mishaps>>

\* The attachment whose turn it is.
First(h) == CHOOSE f \in handler[h].todo : \A g \in handler[h].todo : f <= g

\* enqueue_local_file stores each attachment, as a new contract or the one it
\* found, marks that QUEUED and publishes a job with an id of its own, in their
\* order.  The contract it found may be deleted by then.  The confirmation may be
\* lost after the broker took the job: the contract is marked ANALYSIS_FAILED; or
\* the audit of a confirmed job fails.
Publish(h) ==
    LET a == First(h)
        left == handler[h].todo \ {a}
    IN  /\ At(h, "publish")
        /\ \E n \in 1..MaxJobs :
             /\ \A m \in 1..MaxJobs : (job[m] = None) <=> (m >= n)
             /\ job' = [job EXCEPT ![n] = a]
             /\ queue' = queue \cup {n}
             /\ \/ UNCHANGED lost
                \/ (\E m \in lost : job[m] = a) /\ lost' = lost \cup {n}
        /\ \/ /\ NoFault
              /\ settled' = settled \ {a}
              /\ handler' = [handler EXCEPT ![h].todo = left,
                               ![h].pc = IF left = {} THEN AfterFiles ELSE "publish"]
           \/ /\ Fault("failure")
              /\ settled' \in {settled \ {a}, settled \cup {a}}
              /\ Goes(h, "fail")
        /\ UNCHANGED <<due, mail, told, event, stale, reasons, shrugged, limited, done,
                       outboxVars>>

\* _send_review_response, straight from the webhook and without an idempotency
\* key: the failure may be a lost answer.
Respond(h) ==
    /\ At(h, "respond")
    /\ told' = TRUE
    /\ \/ NoFault /\ Goes(h, "close")
       \/ Fault("failure") /\ Goes(h, "fail")
    /\ UNCHANGED <<due, mail, event, stale, reasons, shrugged, limited, jobVars, outboxVars>>

\* mark_completed, whatever the row has become.
Close(h) ==
    /\ At(h, "close")
    /\ event' = "completed"
    /\ Answer(h)
    /\ UNCHANGED <<mail, told, stale, reasons, shrugged, limited, jobVars, outboxVars, mishaps>>

\* Resend, the limiter, the storage, the database, the broker or the answer fails;
\* the contract of the attachment may have been marked QUEUED by then, and
\* ANALYSIS_FAILED again.
Fail(h) ==
    /\ handler[h].pc \in {"fetch", "receipt", "publish", "respond"} /\ Fault("failure")
    /\ Goes(h, "fail")
    /\ \/ UNCHANGED settled
       \/ At(h, "publish") /\ settled' \in {settled \ {First(h)}, settled \cup {First(h)}}
    /\ UNCHANGED <<due, mail, told, event, stale, reasons, shrugged, limited, job, queue, done,
                   lost, outboxVars>>

\* Mutant of MarkFailed: the failure is recorded and answered 200.
FailContent(h) ==
    /\ At(h, "fail")
    /\ event' = "failed" /\ reasons' = reasons + 1
    /\ Answer(h)
    /\ UNCHANGED <<mail, told, stale, shrugged, limited, jobVars, outboxVars, mishaps>>

\* mark_failed and 500: the provider will try again.
MarkFailed(h) ==
    /\ At(h, "fail")
    /\ event' = "failed" /\ reasons' = reasons + 1
    /\ handler' = [handler EXCEPT ![h] = Quiet]
    /\ UNCHANGED <<due, mail, told, stale, shrugged, limited, jobVars, outboxVars, mishaps>>

CrashHandler(h) ==
    /\ ~At(h, "idle") /\ Fault("crash")
    /\ handler' = [handler EXCEPT ![h] = Quiet]
    /\ \/ UNCHANGED settled
       \/ At(h, "publish") /\ settled' = settled \ {First(h)}
    /\ UNCHANGED <<due, mail, told, event, stale, reasons, shrugged, limited, job, queue, done,
                   lost, outboxVars>>

\* Ten minutes after the claim; while a handler still works, that is a mishap.
Lapse ==
    /\ event = "processing" /\ ~stale
    /\ IF Holding THEN Fault("overrun") ELSE NoFault
    /\ stale' = TRUE /\ reasons' = reasons + 1
    /\ UNCHANGED <<due, mail, told, event, handler, shrugged, limited, jobVars, outboxVars>>

-----------------------------------------------------------------------------
(* The review worker *)

\* review_stored_contract ends, or mark_analysis_failed does: the status of the
\* contract is at rest, with the email still to be queued and the job in hand.
\* A contract that is gone cannot be reviewed.
Settle(n) ==
    /\ n \in queue \ lost
    /\ done' = done \cup {n} /\ settled' = settled \cup {job[n]}
    /\ UNCHANGED <<eventVars, job, queue, lost, outboxVars, mishaps>>

\* _queue_review_email: one row for a job, however often the job is handed out.  It
\* does not ask whether the contract is still there.
Review(n) ==
    /\ n \in queue \cap done
    /\ Enqueue(n)
    /\ UNCHANGED <<eventVars, jobVars, sender, inbox, mishaps>>

\* The job is acknowledged once its review is queued, or dead-lettered, with or
\* without mark_analysis_failed: the sender of an email is told nothing of a review
\* that failed.
Finish(n) ==
    /\ n \in queue
    /\ IF Present(n) \/ n \in lost THEN NoFault ELSE Fault("dead_letter")
    /\ queue' = queue \ {n}
    /\ settled' \in {settled, settled \cup {job[n]}}
    /\ UNCHANGED <<eventVars, job, done, lost, outboxVars>>

\* delete_contract asks for the status alone, jobs of the contract may still be in
\* hand.  It takes the rows of its reviews along, also those a delivery worker
\* has claimed.
DeleteContract(a) ==
    LET its == {n \in 1..MaxJobs \ lost : job[n] = a}
    IN  /\ its # {} /\ a \in settled /\ Fault("deletion")
        /\ lost' = lost \cup its
        /\ row' = [k \in Keys |-> IF k \in its THEN NoRow ELSE row[k]]
        /\ sender' = [w \in Senders |-> IF sender[w].pc # "idle" /\ sender[w].key \in its
                                        THEN [sender[w] EXCEPT !.gone = TRUE] ELSE sender[w]]
        /\ UNCHANGED <<eventVars, job, queue, done, settled, inbox>>

-----------------------------------------------------------------------------
(* OutboundEmailDeliveryService.drain_once *)

Waiting(k) == \/ row[k].status = "pending"
              \/ row[k].status = "sending" /\ row[k].lapsed

\* Mutant of Unblocked: a row being sent does not block the later ones.
BlockedByPendingOnly(k) ==
    \A o \in Keys : row[o].position < row[k].position => row[o].status # "pending"

\* Nothing earlier in the thread is pending or leased.
Unblocked(k) ==
    \A o \in Keys : row[o].position < row[k].position
                       => row[o].status \notin {"pending", "sending"}

\* claim_due takes the one row of the thread that is due and not blocked.
Pick(w, k) ==
    /\ sender[w].pc = "idle" /\ Waiting(k) /\ Unblocked(k)
    /\ row' = [row EXCEPT ![k].status = "sending", ![k].attempts = @ + 1,
                          ![k].lapsed = FALSE]
    /\ sender' = [sender EXCEPT ![w] = [pc |-> "check", key |-> k, gone |-> FALSE,
                                       attempts |-> row[k].attempts + 1]]
    /\ UNCHANGED <<eventVars, jobVars, inbox, mishaps>>

\* WHERE id = ? AND status = 'sending': the row that was claimed is still being
\* sent, by anyone.  One that was deleted and queued again has another id.
Sending(w) == row[sender[w].key].status = "sending" /\ ~sender[w].gone

\* is_sending: a row that was deleted, sent or given up meanwhile is skipped.
Check(w) ==
    /\ sender[w].pc = "check"
    /\ sender' = IF Sending(w)
                 THEN [sender EXCEPT ![w].pc = "send"]
                 ELSE [sender EXCEPT ![w] = Resting]
    /\ UNCHANGED <<eventVars, jobVars, row, inbox, mishaps>>

Accepted(k) == \E i \in DOMAIN inbox : inbox[i] = k

\* The provider accepts the message, unless it knows the key; its answer may be lost.
Accept(w) ==
    LET k == sender[w].key
    IN  /\ sender[w].pc = "send"
        /\ inbox' = IF Accepted(k) THEN inbox ELSE Append(inbox, k)
        /\ \/ /\ NoFault
              /\ sender' = [sender EXCEPT ![w].pc = "sent"]
           \/ /\ Fault("unheard")
              /\ sender' = [sender EXCEPT ![w].pc = "failed"]
        /\ UNCHANGED <<eventVars, jobVars, row>>

Reject(w) ==
    /\ sender[w].pc = "send" /\ Fault("send")
    /\ sender' = [sender EXCEPT ![w].pc = "failed"]
    /\ UNCHANGED <<eventVars, jobVars, row, inbox>>

\* mark_sent asks only that the row is still being sent, by anyone.
MarkSent(w) ==
    LET k == sender[w].key
    IN  /\ sender[w].pc = "sent"
        /\ row' = IF Sending(w)
                  THEN [row EXCEPT ![k].status = "sent", ![k].lapsed = FALSE] ELSE row
        /\ sender' = [sender EXCEPT ![w] = Resting]
        /\ UNCHANGED <<eventVars, jobVars, inbox, mishaps>>

\* Mutant of Reschedule: the last attempt is recorded like a success.
RescheduleAsSent(w) ==
    LET k == sender[w].key
        status == IF sender[w].attempts >= MaxAttempts THEN "sent" ELSE "pending"
    IN  /\ sender[w].pc = "failed"
        /\ row' = IF Sending(w)
                  THEN [row EXCEPT ![k].status = status, ![k].lapsed = FALSE] ELSE row
        /\ sender' = [sender EXCEPT ![w] = Resting]
        /\ UNCHANGED <<eventVars, jobVars, inbox, mishaps>>

\* Mutant of Reschedule: a failed attempt leaves the row leased without an expiry.
RescheduleNothing(w) ==
    /\ sender[w].pc = "failed"
    /\ sender' = [sender EXCEPT ![w].pc = "failed"]
    /\ UNCHANGED <<eventVars, jobVars, row, inbox, mishaps>>

\* reschedule: pending again, or failed for good after the last attempt.
Reschedule(w) ==
    LET k == sender[w].key
        status == IF sender[w].attempts >= MaxAttempts THEN "failed" ELSE "pending"
    IN  /\ sender[w].pc = "failed"
        /\ row' = IF Sending(w)
                  THEN [row EXCEPT ![k].status = status, ![k].lapsed = FALSE] ELSE row
        /\ sender' = [sender EXCEPT ![w] = Resting]
        /\ UNCHANGED <<eventVars, jobVars, inbox, mishaps>>

CrashSender(w) ==
    /\ sender[w].pc # "idle" /\ Fault("crash")
    /\ sender' = [sender EXCEPT ![w] = Resting]
    /\ UNCHANGED <<eventVars, jobVars, row, inbox>>

\* 120 s after a claim; while its worker is still at it, that is a mishap.
LapseLease(k) ==
    /\ row[k].status = "sending" /\ ~row[k].lapsed
    /\ IF \E w \in Senders : sender[w].pc # "idle" /\ sender[w].key = k /\ ~sender[w].gone
       THEN Fault("overrun") ELSE NoFault
    /\ row' = [row EXCEPT ![k].lapsed = TRUE]
    /\ UNCHANGED <<eventVars, jobVars, sender, inbox>>

-----------------------------------------------------------------------------
(* Specification *)

HandlerStep(h) ==
    \/ Claim(h) \/ Ignore(h) \/ Limit(h) \/ Fetch(h) \/ QueueReceipt(h)
    \/ Publish(h) \/ Respond(h) \/ Close(h) \/ Fail(h) \/ MarkFailed(h)

SenderStep(w) ==
    \/ \E k \in Keys : Pick(w, k)
    \/ Check(w) \/ Accept(w) \/ Reject(w) \/ MarkSent(w) \/ Reschedule(w)

Next ==
    \/ \E h \in Handlers : Deliver(h) \/ HandlerStep(h) \/ CrashHandler(h)
    \/ Lapse
    \/ \E n \in 1..MaxJobs : Settle(n) \/ Review(n) \/ Finish(n)
    \/ \E a \in Files : DeleteContract(a)
    \/ \E w \in Senders : SenderStep(w) \/ CrashSender(w)
    \/ \E k \in Keys : LapseLease(k)

\* Delivery workers poll for ever, and time passes.
Fairness ==
    /\ \A w \in Senders : WF_vars(SenderStep(w))
    /\ \A k \in Keys : WF_vars(LapseLease(k))

Spec == Init /\ [][Next]_vars
FairSpec == Spec /\ Fairness

-----------------------------------------------------------------------------
(* Properties *)

\* The sender reads the receipt before any review, unless the receipt was given up
\* (claim_due's order within a thread, QueueReceipt before Publish).
ReceiptComesFirst ==
    \A i \in DOMAIN inbox : inbox[i] # 0 =>
        (\E j \in 1..i : inbox[j] = 0) \/ row[0].status = "failed"

\* A row is "sent" only when the provider accepted it, whichever of several workers
\* that held it marked it.
SentIsDelivered == \A k \in Keys : row[k].status = "sent" => Accepted(k)

\* The email was not for us, its sender was turned away or the limiter refused it,
\* all of which its sender is not told; or a review job was published for every
\* attachment that can be downloaded and is a contract file, and the sender was
\* told of the others that can be downloaded.
Handled ==
    \/ mail \in {"ignored", "refused"} \/ limited
    \/ /\ \A a \in Reviewable : \E n \in 1..MaxJobs : job[n] = a
       /\ Invalid # {} => told

\* An event is completed only when its email was handled, by whichever pass marked
\* it (mark_completed compares nothing).
CompletedEventIsHandled == event = "completed" => Handled

\* The provider stops delivering only when the email was handled, unless it was told
\* "processing" by a handler that came beside another one or after one that died.
NothingLostQuietly == (~due /\ ~shrugged) => Handled

\* The sender gets a second review of an attachment only if a pass over the email
\* failed or its claim was ten minutes old.
RepeatedReviewNeedsReason ==
    \A a \in Files :
        Cardinality({i \in DOMAIN inbox : inbox[i] # 0 /\ job[inbox[i]] = a}) <= 1 + reasons

\* Every row of the outbox is sent, given up or deleted in the end.
OutboxSettles ==
    \A k \in Keys : (row[k].status = "pending") ~>
                        (row[k].status \in {"sent", "failed", "absent"})

-----------------------------------------------------------------------------
(* The abstract specification: see OrderedOutbox *)

\* A message without a row may be queued, whoever took the row.
OutboxState(k) ==
    CASE row[k].status \in {"pending", "sending"} -> "open"
      [] row[k].status = "sent" -> "sent"
      [] row[k].status = "failed" -> "dropped"
      [] OTHER -> "none"

WaitsFor(k) ==
    {o \in Keys : /\ OutboxState(o) = "open" /\ OutboxState(k) = "open"
                  /\ row[o].position < row[k].position}

Outbox == INSTANCE OrderedOutbox WITH
    Messages <- Keys,
    ThreadOf <- [k \in Keys |-> 0],
    Deletable <- 1..MaxJobs,
    state <- [k \in Keys |-> OutboxState(k)],
    ahead <- [k \in Keys |-> WaitsFor(k)],
    hand <- {sender[w].key : w \in {v \in Senders : sender[v].pc # "idle"}},
    accepted <- {inbox[i] : i \in DOMAIN inbox}

\* Delivery workers that compare no token, leases that run out and contracts that
\* are deleted under them implement an outbox that keeps the order of its thread,
\* marks as sent only what was accepted, and reopens nothing but by a deletion
\* (enqueue, claim_due, mark_sent, reschedule and delete_contract together).
ImplementsOutbox == Outbox!Spec

=============================================================================
