--------------------------- MODULE ReviewExecution ---------------------------
(***************************************************************************)
(* The execution of contract-review jobs: the RabbitMQ review queue with   *)
(* its delayed retry queue and dead-letter queue, the contract workers     *)
(* that consume it, and the rows they write in PostgreSQL (execution       *)
(* leases of Slack submissions, contract status and review, reply          *)
(* outboxes).                                                              *)
(*                                                                         *)
(* A worker is synchronous: it runs one delivery at a time.  Each action   *)
(* below is one database transaction or one broker call of                 *)
(* ContractWorker._process_delivery, so deliveries of the same job         *)
(* interleave exactly where the code lets go of the database or the        *)
(* broker.                                                                 *)
(***************************************************************************)
EXTENDS Naturals

CONSTANTS
    Jobs,          \* stable job ids; a Slack job is also a submission key
    SlackJobs,     \* the jobs whose source_channel is "slack"
    Contracts,
    ContractOf,    \* the contract a job reviews (same bytes, same contract)
    Workers,
    MaxAttempts,   \* QueueTopology.max_attempts
    Faults,        \* which FaultKinds the environment may inject
    MaxFaults,     \* how many of them it may inject
    NoJob,
    NoWorker

(* crash: a worker process dies.  disconnect: the broker drops a consumer  *)
(* channel and takes its delivery back.  stall: a lease lapses under a     *)
(* live owner (its heartbeat did not run in time).  outage: a database     *)
(* call raises.  unconfirmed: a worker's publish is not confirmed, accepted *)
(* or not.  republish: a producer repeats an envelope it published.  repass:  *)
(* an intake pass over a submission that publishes nothing.                *)
FaultKinds == {"crash", "disconnect", "stall", "outage", "unconfirmed", "republish", "repass"}

ASSUME JobsAssumption ==
    /\ SlackJobs \subseteq Jobs
    /\ ContractOf \in [Jobs -> Contracts]
    /\ NoJob \notin Jobs
    /\ NoWorker \notin Workers

ASSUME BoundsAssumption ==
    /\ MaxAttempts \in Nat \ {0}
    /\ MaxFaults \in Nat
    /\ Faults \subseteq FaultKinds

VARIABLES
    published,  \* jobs handed to the broker
    passes,     \* <<job, place>>: intake passes that publish nothing
    reset,      \* contracts last set to QUEUED by such a pass
    ready,      \* [Copies -> Nat]: copies waiting in contract.review.q
    delayed,    \* [Copies -> Nat]: copies in the TTL retry queue
    dead,       \* jobs with a copy in the dead-letter queue
    work,       \* what each worker is doing
    exec,       \* table slack_review_executions, one row per Slack job
    status,     \* contracts.status
    reviewed,   \* contracts with a row in contract_reviews
    replies,    \* <<job, kind>> intents in the outbound outboxes
    budget      \* faults still to come

vars == <<published, passes, reset, ready, delayed, dead, work, exec,
          status, reviewed, replies, budget>>

intake == <<published, passes, reset>>
broker == <<intake, ready, delayed, dead>>
contract == <<status, reviewed>>

-----------------------------------------------------------------------------
(* Types *)

Attempts == 1..MaxAttempts
Copies == Jobs \X Attempts

Statuses == {"received", "queued", "parsing", "ocr_required", "parse_failed",
             "analysing", "analysis_failed", "review_ready"}

\* The states of contracts.py _ACTIVE_PROCESSING_STATES the pipeline writes.
ActiveStatuses == {"received", "queued", "parsing", "analysing"}

\* Where a worker stands in _process_delivery and the calls it makes.
InTry == {"start", "claim", "ackDuplicate", "contend", "load", "parse",
          "parsing", "analysing", "settle", "reply", "complete"}
InHandler == {"except", "markFailed", "replyFailed", "completeFailed",
              "release", "retry"}
Places == InTry \cup InHandler \cup {"idle", "ack"}

Work == [pc: Places, job: Jobs \cup {NoJob}, attempt: 0..MaxAttempts,
         held: BOOLEAN,      \* slack_execution is set: the claim succeeded
         up: BOOLEAN,        \* the channel of the delivery is open
         ready: BOOLEAN]     \* the result is REVIEW_READY

Idle == [pc |-> "idle", job |-> NoJob, attempt |-> 0,
         held |-> FALSE, up |-> FALSE, ready |-> FALSE]

\* A lease token is a fresh uuid kept by the worker that claimed.  A worker
\* holds at most one and forgets it with its delivery, so the worker's name
\* and "held" tell tokens apart.
Execution == [status: {"absent", "pending", "processing", "completed"},
              owner: Workers \cup {NoWorker},
              lapsed: BOOLEAN]   \* lease_expires_at <= now

Absent == [status |-> "absent", owner |-> NoWorker, lapsed |-> FALSE]
Released == [status |-> "pending", owner |-> NoWorker, lapsed |-> FALSE]
Finished == [status |-> "completed", owner |-> NoWorker, lapsed |-> FALSE]
LeasedTo(w) == [status |-> "processing", owner |-> w, lapsed |-> FALSE]

ReplyKinds == {"review", "failure", "email"}

TypeOK ==
    /\ published \subseteq Jobs
    /\ passes \subseteq Jobs \X {"read", "queued"}
    /\ reset \subseteq Contracts
    /\ ready \in [Copies -> Nat]
    /\ delayed \in [Copies -> Nat]
    /\ dead \subseteq Jobs
    /\ work \in [Workers -> Work]
    /\ \A w \in Workers : work[w].pc # "idle" => work[w].job \in Jobs /\ work[w].attempt \in Attempts
    /\ exec \in [SlackJobs -> Execution]
    /\ status \in [Contracts -> Statuses]
    /\ reviewed \subseteq Contracts
    /\ replies \subseteq (Jobs \X ReplyKinds)
    /\ budget \in 0..MaxFaults

Init ==
    /\ published = {}
    /\ passes = {}
    /\ reset = {}
    /\ ready = [c \in Copies |-> 0]
    /\ delayed = [c \in Copies |-> 0]
    /\ dead = {}
    /\ work = [w \in Workers |-> Idle]
    /\ exec = [j \in SlackJobs |-> Absent]
    /\ status = [c \in Contracts |-> "received"]
    /\ reviewed = {}
    /\ replies = {}
    /\ budget = MaxFaults

-----------------------------------------------------------------------------
(* Vocabulary of the actions *)

Fault(kind) == kind \in Faults /\ budget > 0 /\ budget' = budget - 1

At(w, pc) == work[w].pc = pc
Goto(w, pc) == work' = [work EXCEPT ![w].pc = pc]
Finish(w) == work' = [work EXCEPT ![w] = Idle]

Copy(w) == <<work[w].job, work[w].attempt>>
ContractAt(w) == ContractOf[work[w].job]
IsSlack(w) == work[w].job \in SlackJobs
LastAttempt(w) == work[w].attempt >= MaxAttempts

\* The WHERE clause of renew, complete and release: status = 'processing'
\* AND lease_token = ?.  No statement but the claim looks at the expiry.
OwnsLease(w) ==
    LET row == exec[work[w].job]
    IN row.status = "processing" /\ row.owner = w

\* A lease its owner is still heartbeating.
Heartbeating(j) ==
    /\ exec[j].status = "processing"
    /\ \E w \in Workers : exec[j].owner = w /\ work[w].job = j /\ work[w].held

Completed(j) == j \in SlackJobs /\ exec[j].status = "completed"

SetStatus(w, s) == status' = [status EXCEPT ![ContractAt(w)] = s]

\* enqueue_outbound and the email outbox ignore a second idempotency key.
QueueReply(w, kind) == replies' = replies \cup {<<work[w].job, kind>>}

\* The broker takes back what a lost or nacked delivery held.
Requeue(w) ==
    IF work[w].up THEN ready' = [ready EXCEPT ![Copy(w)] = @ + 1]
                  ELSE UNCHANGED ready

-----------------------------------------------------------------------------
(* Producers and the broker *)

\* enqueue_local_file: the contract becomes QUEUED, then the job is published.
Publish(j) ==
    /\ j \notin published
    /\ published' = published \cup {j}
    /\ ready' = [ready EXCEPT ![<<j, 1>>] = @ + 1]
    /\ status' = [status EXCEPT ![ContractOf[j]] = "queued"]
    /\ reset' = reset \ {ContractOf[j]}
    /\ UNCHANGED <<passes, delayed, dead, work, exec, reviewed, replies, budget>>

\* A publish whose confirmation was lost is repeated with the same envelope.
PublishAgain(j) ==
    /\ j \in published
    /\ Fault("republish")
    /\ ready' = [ready EXCEPT ![<<j, 1>>] = @ + 1]
    /\ UNCHANGED <<intake, delayed, dead, work, exec, contract, replies>>

\* Another pass of enqueue_local_file over the submission reads an execution
\* that is not completed.  One that reads "processing" stops there if it finds
\* the job's processing run, but runs are created on a best-effort basis.
Reread(j) ==
    /\ ~Completed(j)
    /\ Fault("repass")
    /\ passes' = passes \cup {<<j, "read">>}
    /\ UNCHANGED <<published, reset, ready, delayed, dead, work, exec, contract, replies>>

\* In a later transaction, and whatever has become of the submission since, it
\* sets the contract to QUEUED.  The job is in the publish outbox already, or
\* the pass dies before it puts it there.
Reset(j) ==
    /\ <<j, "read">> \in passes
    /\ passes' = (passes \ {<<j, "read">>}) \cup {<<j, "queued">>}
    /\ status' = [status EXCEPT ![ContractOf[j]] = "queued"]
    /\ reset' = reset \cup {ContractOf[j]}
    /\ UNCHANGED <<published, ready, delayed, dead, work, exec, reviewed, replies, budget>>

\* The except branch of the pass: the job could not be persisted or published.
QueueFails(j) ==
    /\ <<j, "queued">> \in passes
    /\ passes' = passes \ {<<j, "queued">>}
    /\ status' = [status EXCEPT ![ContractOf[j]] = "analysis_failed"]
    /\ UNCHANGED <<published, reset, ready, delayed, dead, work, exec, reviewed, replies, budget>>

\* The TTL of the retry queue dead-letters a copy back to the review queue.
RetryDue(j, a) ==
    /\ delayed[<<j, a>>] > 0
    /\ delayed' = [delayed EXCEPT ![<<j, a>>] = @ - 1]
    /\ ready' = [ready EXCEPT ![<<j, a>>] = @ + 1]
    /\ UNCHANGED <<intake, dead, work, exec, contract, replies, budget>>

\* Manual acknowledgement and prefetch 1: one unacknowledged delivery a worker.
Deliver(w, j, a) ==
    /\ At(w, "idle")
    /\ ready[<<j, a>>] > 0
    /\ ready' = [ready EXCEPT ![<<j, a>>] = @ - 1]
    /\ work' = [work EXCEPT ![w] = [pc |-> "start", job |-> j, attempt |-> a,
                                    held |-> FALSE, up |-> TRUE, ready |-> FALSE]]
    /\ UNCHANGED <<intake, delayed, dead, exec, contract, replies, budget>>

-----------------------------------------------------------------------------
(* ContractWorker._process_delivery: the try block *)

\* The service, and its database connection, come up.
Start(w) ==
    /\ At(w, "start")
    /\ Goto(w, IF IsSlack(w) THEN "claim" ELSE "load")
    /\ UNCHANGED <<broker, exec, contract, replies, budget>>

\* processing_service_factory raises: the handler has no service to mark
\* the contract failed with, and goes straight to the retry.
StartFails(w) ==
    /\ At(w, "start")
    /\ Fault("outage")
    /\ Goto(w, "retry")
    /\ UNCHANGED <<broker, exec, contract, replies>>

\* Mutant of Claimable: the expiry is not compared.
ClaimableIgnoringExpiry(row) == row.status # "completed"

\* A row may be claimed when there is none, when it was released, or when
\* its lease has run out.
Claimable(row) ==
    \/ row.status \in {"absent", "pending"}
    \/ row.status = "processing" /\ row.lapsed

\* claim_review_execution, and what the worker does with its answer.
Claim(w) ==
    LET j == work[w].job IN
    /\ At(w, "claim")
    /\ \/ /\ Claimable(exec[j])
          /\ exec' = [exec EXCEPT ![j] = LeasedTo(w)]
          /\ work' = [work EXCEPT ![w].pc = "load", ![w].held = TRUE]
       \/ /\ ~Claimable(exec[j])
          /\ Goto(w, IF exec[j].status = "completed" THEN "ackDuplicate" ELSE "contend")
          /\ UNCHANGED exec
    /\ UNCHANGED <<broker, contract, replies, budget>>

\* An acknowledgement inside the try block (a completed duplicate, or a busy
\* one that was republished).  On a closed channel it raises into the handler.
AckDuplicate(w) ==
    /\ At(w, "ackDuplicate")
    /\ IF work[w].up THEN Finish(w) ELSE Goto(w, "except")
    /\ UNCHANGED <<broker, exec, contract, replies, budget>>

\* retry_contention: the same attempt goes to the retry queue, confirmed,
\* before the delivery is acknowledged.
Contend(w) ==
    /\ At(w, "contend")
    /\ IF work[w].up
       THEN /\ delayed' = [delayed EXCEPT ![Copy(w)] = @ + 1]
            /\ Goto(w, "ackDuplicate")
       ELSE /\ Goto(w, "except")
            /\ UNCHANGED delayed
    /\ UNCHANGED <<intake, ready, dead, exec, contract, replies, budget>>

\* The confirmation of that publish does not come; the broker may have it.
ContendUnconfirmed(w) ==
    /\ At(w, "contend") /\ work[w].up
    /\ Fault("unconfirmed")
    /\ \/ delayed' = [delayed EXCEPT ![Copy(w)] = @ + 1]
       \/ UNCHANGED delayed
    /\ Goto(w, "except")
    /\ UNCHANGED <<intake, ready, dead, exec, contract, replies>>

\* Mutant of Load: an existing review is not looked for.
LoadIgnoringReview(w) ==
    /\ At(w, "load")
    /\ Goto(w, "parse")
    /\ UNCHANGED <<broker, exec, contract, replies, budget>>

\* review_stored_contract begins: a stored review is never redone.  Reviews
\* are not removed, so reading one and setting the status is one step.
Load(w) ==
    /\ At(w, "load")
    /\ IF ContractAt(w) \in reviewed
       THEN /\ SetStatus(w, "review_ready")
            /\ work' = [work EXCEPT ![w].pc = "settle", ![w].ready = TRUE]
       ELSE Goto(w, "parse") /\ UNCHANGED status
    /\ UNCHANGED <<broker, exec, reviewed, replies, budget>>

\* _review_ingested_file: the downloaded file is being parsed.
Parse(w) ==
    /\ At(w, "parse")
    /\ SetStatus(w, "parsing")
    /\ Goto(w, "parsing")
    /\ UNCHANGED <<broker, exec, reviewed, replies, budget>>

\* No OCR provider for a scan, or OCR failed: a result without a review.
NoText(w) ==
    /\ At(w, "parsing")
    /\ \E s \in {"ocr_required", "parse_failed"} : SetStatus(w, s)
    /\ Goto(w, "settle")
    /\ UNCHANGED <<broker, exec, reviewed, replies, budget>>

Analyse(w) ==
    /\ At(w, "parsing")
    /\ SetStatus(w, "analysing")
    /\ Goto(w, "analysing")
    /\ UNCHANGED <<broker, exec, reviewed, replies, budget>>

\* finalize_contract_review commits review and status in one transaction.
Finalize(w) ==
    /\ At(w, "analysing")
    /\ SetStatus(w, "review_ready")
    /\ reviewed' = reviewed \cup {ContractAt(w)}
    /\ work' = [work EXCEPT ![w].pc = "settle", ![w].ready = TRUE]
    /\ UNCHANGED <<broker, exec, replies, budget>>

\* Download, integrity check, parser or model raises.
ReviewRaises(w) ==
    /\ work[w].pc \in {"parse", "parsing", "analysing"}
    /\ Goto(w, "except")
    /\ UNCHANGED <<broker, exec, contract, replies, budget>>

\* Before it replies, the worker of a Slack job renews its lease.
Settle(w) ==
    LET j == work[w].job IN
    /\ At(w, "settle")
    /\ IF ~IsSlack(w) \/ OwnsLease(w) THEN Goto(w, "reply") ELSE Goto(w, "except")
    /\ exec' = IF IsSlack(w) /\ OwnsLease(w) THEN [exec EXCEPT ![j].lapsed = FALSE] ELSE exec
    /\ UNCHANGED <<broker, contract, replies, budget>>

\* Mutant of Reply: only a finished review is answered.
ReplyOnlyReviews(w) ==
    /\ At(w, "reply")
    /\ IF IsSlack(w) /\ work[w].ready THEN QueueReply(w, "review") ELSE UNCHANGED replies
    /\ Goto(w, IF IsSlack(w) THEN "complete" ELSE "ack")
    /\ UNCHANGED <<broker, exec, contract, budget>>

\* _queue_review_email, _queue_slack_review or _queue_slack_failure.
Reply(w) ==
    /\ At(w, "reply")
    /\ QueueReply(w, IF ~IsSlack(w) THEN "email"
                     ELSE IF work[w].ready THEN "review" ELSE "failure")
    /\ Goto(w, IF IsSlack(w) THEN "complete" ELSE "ack")
    /\ UNCHANGED <<broker, exec, contract, budget>>

Complete(w) ==
    LET j == work[w].job IN
    /\ At(w, "complete")
    /\ IF OwnsLease(w)
       THEN exec' = [exec EXCEPT ![j] = Finished] /\ Goto(w, "ack")
       ELSE Goto(w, "except") /\ UNCHANGED exec
    /\ UNCHANGED <<broker, contract, replies, budget>>

\* A database call of the try block raises.
TryOutage(w) ==
    /\ work[w].pc \in {"claim", "load", "settle", "reply", "complete"}
    /\ Fault("outage")
    /\ Goto(w, "except")
    /\ UNCHANGED <<broker, exec, contract, replies>>

\* Acknowledgement outside the try block.  On a closed channel it raises out
\* of the callback, whose nack fails too: the broker already has the copy.
Ack(w) ==
    /\ At(w, "ack")
    /\ Finish(w)
    /\ UNCHANGED <<broker, exec, contract, replies, budget>>

-----------------------------------------------------------------------------
(* ContractWorker._process_delivery: the except block *)

\* Out of the callback: the nack requeues the delivery if its channel lives.
Escape(w) == Requeue(w) /\ Finish(w)

\* A worker that claimed renews first; if another one owns the submission
\* now, this delivery is stale and is only acknowledged.
Handle(w) ==
    LET j == work[w].job
        stale == work[w].held /\ ~OwnsLease(w) IN
    /\ At(w, "except")
    /\ exec' = IF work[w].held /\ ~stale THEN [exec EXCEPT ![j].lapsed = FALSE] ELSE exec
    /\ Goto(w, IF stale THEN "ack"
               ELSE IF LastAttempt(w) THEN "markFailed"
               ELSE IF work[w].held THEN "release" ELSE "retry")
    /\ UNCHANGED <<broker, contract, replies, budget>>

\* mark_analysis_failed
MarkFailed(w) ==
    /\ At(w, "markFailed")
    /\ SetStatus(w, "analysis_failed")
    /\ Goto(w, IF IsSlack(w) THEN "replyFailed" ELSE "retry")
    /\ UNCHANGED <<broker, exec, reviewed, replies, budget>>

\* Mutant of ReplyFailed: the submission is finished without a failure reply.
ReplyFailedSilently(w) ==
    /\ At(w, "replyFailed")
    /\ Goto(w, IF work[w].held THEN "completeFailed" ELSE "retry")
    /\ UNCHANGED <<broker, exec, contract, replies, budget>>

ReplyFailed(w) ==
    /\ At(w, "replyFailed")
    /\ QueueReply(w, "failure")
    /\ Goto(w, IF work[w].held THEN "completeFailed" ELSE "retry")
    /\ UNCHANGED <<broker, exec, contract, budget>>

\* The answers of complete and release are not looked at in the handler.
CompleteFailed(w) ==
    LET j == work[w].job IN
    /\ At(w, "completeFailed")
    /\ exec' = IF OwnsLease(w) THEN [exec EXCEPT ![j] = Finished] ELSE exec
    /\ Goto(w, "retry")
    /\ UNCHANGED <<broker, contract, replies, budget>>

Release(w) ==
    LET j == work[w].job IN
    /\ At(w, "release")
    /\ exec' = IF OwnsLease(w) THEN [exec EXCEPT ![j] = Released] ELSE exec
    /\ Goto(w, "retry")
    /\ UNCHANGED <<broker, contract, replies, budget>>

\* Mutant of PutBack: the job is not published before it is acknowledged.
PutBackNowhere(w) == UNCHANGED <<delayed, dead>>

\* Mutant of PutBack: the attempt is not counted.
PutBackUncounted(w) ==
    /\ delayed' = [delayed EXCEPT ![Copy(w)] = @ + 1]
    /\ UNCHANGED dead

\* The copy retry() publishes: the next attempt, or the dead letter.
PutBack(w) ==
    IF LastAttempt(w)
    THEN dead' = dead \cup {work[w].job} /\ UNCHANGED delayed
    ELSE /\ delayed' = [delayed EXCEPT ![<<work[w].job, work[w].attempt + 1>>] = @ + 1]
         /\ UNCHANGED dead

\* retry() or dead_letter(): publish, confirmed, and then acknowledge.
Retry(w) ==
    /\ At(w, "retry") /\ work[w].up
    /\ PutBack(w)
    /\ Goto(w, "ack")
    /\ UNCHANGED <<intake, ready, exec, contract, replies, budget>>

\* The channel is closed: the publish raises out of the callback.
RetryFails(w) ==
    /\ At(w, "retry") /\ ~work[w].up
    /\ Finish(w)
    /\ UNCHANGED <<broker, exec, contract, replies, budget>>

RetryUnconfirmed(w) ==
    /\ At(w, "retry") /\ work[w].up
    /\ Fault("unconfirmed")
    /\ \/ PutBack(w)
       \/ UNCHANGED <<delayed, dead>>
    /\ Escape(w)
    /\ UNCHANGED <<intake, exec, contract, replies>>

\* A database call of the handler raises: nothing catches it there.
HandlerOutage(w) ==
    /\ \/ At(w, "except") /\ work[w].held
       \/ work[w].pc \in {"markFailed", "replyFailed", "completeFailed", "release"}
    /\ Fault("outage")
    /\ Escape(w)
    /\ UNCHANGED <<intake, delayed, dead, exec, contract, replies>>

-----------------------------------------------------------------------------
(* Leases, crashes and lost connections *)

\* SlackExecutionLeaseHeartbeat: renew does not ask whether the lease has
\* already run out, only whether it is still this worker's.
Heartbeat(w) ==
    /\ work[w].held /\ OwnsLease(w)
    /\ exec[work[w].job].lapsed
    /\ exec' = [exec EXCEPT ![work[w].job].lapsed = FALSE]
    /\ UNCHANGED <<broker, work, contract, replies, budget>>

\* Mutant of Lapse: nobody has to stop heartbeating for a lease to run out.
LapseAlways(j) ==
    /\ exec[j].status = "processing" /\ ~exec[j].lapsed
    /\ exec' = [exec EXCEPT ![j].lapsed = TRUE]
    /\ UNCHANGED <<broker, work, contract, replies, budget>>

\* 900 seconds without a heartbeat.
Lapse(j) ==
    /\ exec[j].status = "processing" /\ ~exec[j].lapsed
    /\ ~Heartbeating(j)
    /\ exec' = [exec EXCEPT ![j].lapsed = TRUE]
    /\ UNCHANGED <<broker, work, contract, replies, budget>>

Stall(j) ==
    /\ exec[j].status = "processing" /\ ~exec[j].lapsed
    /\ Heartbeating(j)
    /\ Fault("stall")
    /\ exec' = [exec EXCEPT ![j].lapsed = TRUE]
    /\ UNCHANGED <<broker, work, contract, replies>>

Crash(w) ==
    /\ ~At(w, "idle")
    /\ Fault("crash")
    /\ Escape(w)
    /\ UNCHANGED <<intake, delayed, dead, exec, contract, replies>>

Disconnect(w) ==
    /\ ~At(w, "idle") /\ work[w].up
    /\ Fault("disconnect")
    /\ Requeue(w)
    /\ work' = [work EXCEPT ![w].up = FALSE]
    /\ UNCHANGED <<intake, delayed, dead, exec, contract, replies>>

-----------------------------------------------------------------------------

WorkerTry(w) ==
    \/ Start(w) \/ Claim(w) \/ AckDuplicate(w) \/ Contend(w) \/ Load(w)
    \/ Parse(w) \/ NoText(w) \/ Analyse(w) \/ Finalize(w) \/ ReviewRaises(w)
    \/ Settle(w) \/ Reply(w) \/ Complete(w) \/ Ack(w)

WorkerHandler(w) ==
    \/ Handle(w) \/ MarkFailed(w) \/ ReplyFailed(w) \/ CompleteFailed(w)
    \/ Release(w) \/ Retry(w) \/ RetryFails(w)

WorkerFault(w) ==
    \/ StartFails(w) \/ ContendUnconfirmed(w) \/ TryOutage(w)
    \/ RetryUnconfirmed(w) \/ HandlerOutage(w) \/ Crash(w) \/ Disconnect(w)

IntakePass(j) == Reread(j) \/ Reset(j) \/ QueueFails(j)

Broker(j) ==
    \/ PublishAgain(j)
    \/ \E a \in Attempts : RetryDue(j, a)
    \/ \E w \in Workers, a \in Attempts : Deliver(w, j, a)

Next ==
    \/ \E j \in Jobs : Publish(j) \/ IntakePass(j) \/ Broker(j)
    \/ \E w \in Workers : WorkerTry(w) \/ WorkerHandler(w) \/ WorkerFault(w) \/ Heartbeat(w)
    \/ \E j \in SlackJobs : Lapse(j) \/ Stall(j)

Spec == Init /\ [][Next]_vars

\* A worker that runs a delivery goes on; RabbitMQ delivers the head of the
\* review queue to a free consumer and expires the TTL of a delayed message;
\* time passes, so a lease nobody renews runs out and a heartbeat thread runs.
Fairness ==
    /\ \A w \in Workers : WF_vars(WorkerTry(w) \/ WorkerHandler(w)) /\ WF_vars(Heartbeat(w))
    /\ \A j \in Jobs, a \in Attempts :
          /\ WF_vars(RetryDue(j, a))
          /\ SF_vars(\E w \in Workers : Deliver(w, j, a))
    /\ \A j \in SlackJobs : WF_vars(Lapse(j))

FairSpec == Spec /\ Fairness

-----------------------------------------------------------------------------
(* Properties *)

Answered(j) == \E kind \in ReplyKinds : <<j, kind>> \in replies

\* From the claim to the completion of a delivery that holds a lease.
Reviewing(w) ==
    work[w].held /\ work[w].pc \in {"load", "parse", "parsing", "analysing",
                                    "settle", "reply", "complete"}

\* The lease is what keeps two deliveries of one Slack submission from
\* reviewing it at the same time (workers/contract_worker.py claims before
\* review_stored_contract): no crash, duplicate, closed channel or failed
\* database call breaks that, as long as no live owner misses its heartbeats.
OneReviewerPerSubmission ==
    "stall" \notin Faults =>
        \A v, w \in Workers :
            Reviewing(v) /\ Reviewing(w) /\ work[v].job = work[w].job => v = w

\* complete_review_execution comes after the reply on every path, so whatever
\* fails in between, a completed submission (whose later deliveries are only
\* acknowledged) has its Slack reply in the outbox.
CompletedMeansAnswered ==
    \A j \in SlackJobs : Completed(j) => Answered(j)

\* A worker that still has its channel, on a path that ends in another copy
\* of the job or in its completion.
Carries(w, j) ==
    /\ work[w].job = j /\ work[w].up
    /\ \/ work[w].pc \in InHandler \ {"except"}
       \/ /\ work[w].pc \in (InTry \cup {"except"}) \ {"ackDuplicate"}
          /\ work[w].held => OwnsLease(w)

\* Somebody will still work on the job.
InFlight(j) ==
    \/ \E a \in Attempts : ready[<<j, a>>] > 0 \/ delayed[<<j, a>>] > 0
    \/ \E w \in Workers : Carries(w, j)

\* A published Slack submission that is not completed has a copy in a queue or
\* with a worker, whatever crashes and whichever worker acknowledges a copy it
\* finds stale.  The acknowledgement of a stale copy is safe only because the
\* newer owner has a copy of its own, so lapses under a live owner and channels
\* closed under a live owner must not both occur.
NoSubmissionLost ==
    ("stall" \notin Faults \/ "disconnect" \notin Faults) =>
        \A j \in published \cap SlackJobs : Completed(j) \/ j \in dead \/ InFlight(j)

\* While the database answers, a Slack submission reaches the dead-letter queue
\* only with its failure reply queued (the except block of _process_delivery).
DeadLetterAnswered ==
    "outage" \notin Faults =>
        \A j \in dead \cap SlackJobs : <<j, "failure">> \in replies

\* No copy of a job of the contract is queued or with a worker.
Quiet(c) ==
    /\ \A j \in Jobs, a \in Attempts :
          ContractOf[j] = c => ready[<<j, a>>] = 0 /\ delayed[<<j, a>>] = 0
    /\ \A w \in Workers : work[w].pc # "idle" => ContractAt(w) # c

\* What enqueue_local_file set to QUEUED on an execution status it had read
\* earlier (contract_processing.py:211) and nobody has written since.
LeftQueued(c) == c \in reset /\ status[c] = "queued"

\* A contract nobody works on any more is not left in a state the rest of the
\* system takes for active (delete_contract refuses those, the workspace shows
\* them as running), whichever of its deliveries wrote its status last.  A job
\* that was given up before the service came up leaves the contract as it was.
\* Jobs that do not come from Slack have no lease: a closed channel is enough
\* for two deliveries of one to overlap, so those are left out then.
QuietContractIsSettled ==
    "stall" \notin Faults =>
        \A c \in Contracts :
            LET jobs == {j \in published : ContractOf[j] = c} IN
            /\ Quiet(c) /\ jobs # {} /\ jobs \cap dead = {}
            /\ jobs \subseteq SlackJobs \/ "disconnect" \notin Faults
            => status[c] \notin ActiveStatuses \/ LeftQueued(c)

\* Samvid posts no failure after it posted the review of the same submission,
\* unless the worker that posts it lost its lease between the last renewal and
\* the reply.  A worker that takes a submission over finds the
\* review that is stored (review_stored_contract returns it), so it cannot fail.
\* It takes an outage, or a lost channel, to break that: see the README.
ReviewNotRetracted ==
    [][\A j \in SlackJobs :
          /\ <<j, "review">> \in replies
          /\ <<j, "failure">> \in replies' \ replies
          => \E w \in Workers : /\ work[w].pc \in {"reply", "replyFailed"}
                                 /\ work[w].job = j /\ ~OwnsLease(w)]_vars

-----------------------------------------------------------------------------
(* The abstract specification: see ReviewPromise *)

Promise == INSTANCE ReviewPromise WITH
    Submissions <- SlackJobs,
    accepted <- published \cap SlackJobs,
    answered <- {j \in SlackJobs : Answered(j)},
    closed   <- {j \in SlackJobs : Completed(j)} \cup (dead \cap SlackJobs)

\* An accepted Slack submission is answered once, closed only after that, and,
\* while workers and broker go on, it is answered and closed in the end.
ImplementsPromise == Promise!Spec

=============================================================================
