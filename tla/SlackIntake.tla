----------------------------- MODULE SlackIntake -----------------------------
(***************************************************************************)
(* From a stored Slack event to a published review job: the intake workers *)
(* that lease events and their attachments, enqueue_local_file, and the    *)
(* outbox from which review jobs are published to RabbitMQ.                 *)
(*                                                                         *)
(* Events, attachments and outbox rows are leased for 120, 300 and 60      *)
(* seconds and nobody renews those leases, so two workers may come to work *)
(* on the same row.  Each action is one transaction, one call of the       *)
(* broker or one decision on what was read before.                         *)
(*                                                                         *)
(* The review itself is the four actions of "Contract workers" here;       *)
(* ReviewExecution models it in full.                                      *)
(***************************************************************************)
EXTENDS Naturals, Sequences

CONSTANTS
    Events,            \* stored Slack events
    Files,             \* attachments; event id and file id make the submission key
    FilesOf,           \* the attachments of an event, in order
    Workers,           \* intake workers
    MaxEventAttempts,  \* max_attempts of retry_event
    Faults,            \* which FaultKinds may occur
    MaxFaults,         \* how many of them
    NoEvent,
    NoFile,
    NoWorker

(* crash: an intake worker dies.  slow: a worker takes longer than the     *)
(* leases it holds.  unconfirmed: a publish is not confirmed, accepted by *)
(* the broker or not.  outage: a database call raises.  metrics: the       *)
(* metrics run could not be inserted, which is only logged.  attempt: a    *)
(* review attempt fails and is retried.                                    *)
FaultKinds == {"crash", "slow", "unconfirmed", "outage", "metrics", "attempt"}

ASSUME IntakeAssumption ==
    /\ FilesOf \in [Events -> Seq(Files)]
    /\ MaxEventAttempts \in Nat \ {0}
    /\ MaxFaults \in Nat
    /\ Faults \subseteq FaultKinds
    /\ NoEvent \notin Events /\ NoFile \notin Files /\ NoWorker \notin Workers

VARIABLES
    event,    \* table inbound_slack_events
    file,     \* table inbound_slack_file_submissions
    runs,     \* rows of contract_processing_runs with the job id of the file
    job,      \* table slack_review_job_outbox
    queue,    \* copies of the job at the broker
    exec,     \* status column of slack_review_executions
    status,   \* contracts.status of the contract the file became
    replies,  \* intents in the Slack outbox, by file (or event) and kind
    work,     \* what each intake worker is doing
    budget    \* faults still to come

vars == <<event, file, runs, job, queue, exec, status, replies, work, budget>>

reviewing == <<queue, exec, status>>

-----------------------------------------------------------------------------
(* Types *)

\* Only what is left unfinished by a fault can take the attempts of an event
\* past max_attempts.
EventAttempts == 0..(MaxEventAttempts + MaxFaults)

Event == [status: {"absent", "pending", "processing", "processed", "ignored", "failed"},
          attempts: EventAttempts, due: BOOLEAN,
          owner: Workers \cup {NoWorker}, lapsed: BOOLEAN]

File == [status: {"absent", "pending", "processing", "completed"},
         owner: Workers \cup {NoWorker}, lapsed: BOOLEAN]

\* run is the processing_run_id inside the payload, 0 for None: the one part
\* of an envelope that two attempts at the same file may disagree on.
Job == [status: {"absent", "pending", "publishing", "published"}, run: Nat,
        due: BOOLEAN, owner: Workers \cup {NoWorker}, lapsed: BOOLEAN]

ExecStatuses == {"absent", "pending", "processing", "completed"}
Statuses == {"received", "queued", "parsing", "review_ready", "analysis_failed"}
ReplyKinds == {"receipt", "rejection", "review", "failure"}

FilePlaces == {"fetch", "receipt", "lookExec", "lookRun", "enqueue", "newRun",
               "persist", "drain", "conflict", "unqueued", "reject",
               "completeFile", "releaseFile"}
Places == FilePlaces \cup {"idle", "publish", "mark", "unmark", "claim", "begin",
                           "nextFile", "done", "ignore", "retry", "contend"}

Work == [pc: Places,
         event: Events \cup {NoEvent},
         attempts: EventAttempts,   \* of the event, as claimed
         i: Nat,                    \* the attachment in hand
         busy: BOOLEAN,             \* busy_submission
         seen: ExecStatuses,        \* execution_status
         run: Nat,                  \* processing_run_id
         items: SUBSET Files,       \* outbox rows claimed, not yet published
         item: Files \cup {NoFile}, \* the one being published
         slow: BOOLEAN]

Idle == [pc |-> "idle", event |-> NoEvent, attempts |-> 0, i |-> 0, busy |-> FALSE,
         seen |-> "absent", run |-> 0, items |-> {}, item |-> NoFile, slow |-> FALSE]

TypeOK ==
    /\ event \in [Events -> Event]
    /\ file \in [Files -> File]
    /\ runs \in [Files -> Nat]
    /\ job \in [Files -> Job]
    /\ queue \in [Files -> Nat]
    /\ exec \in [Files -> ExecStatuses]
    /\ status \in [Files -> Statuses]
    /\ replies \subseteq ((Files \X ReplyKinds) \cup (Events \X {"rejection"}))
    /\ work \in [Workers -> Work]
    /\ \A w \in Workers :
          /\ work[w].pc \in FilePlaces => work[w].i \in DOMAIN FilesOf[work[w].event]
          /\ work[w].pc \in {"mark", "unmark"} => work[w].item \in work[w].items
    /\ budget \in 0..MaxFaults

Init ==
    /\ event = [e \in Events |-> [status |-> "absent", attempts |-> 0, due |-> TRUE,
                                  owner |-> NoWorker, lapsed |-> FALSE]]
    /\ file = [f \in Files |-> [status |-> "absent", owner |-> NoWorker, lapsed |-> FALSE]]
    /\ runs = [f \in Files |-> 0]
    /\ job = [f \in Files |-> [status |-> "absent", run |-> 0, due |-> TRUE,
                               owner |-> NoWorker, lapsed |-> FALSE]]
    /\ queue = [f \in Files |-> 0]
    /\ exec = [f \in Files |-> "absent"]
    /\ status = [f \in Files |-> "received"]
    /\ replies = {}
    /\ work = [w \in Workers |-> Idle]
    /\ budget = MaxFaults

-----------------------------------------------------------------------------
(* Vocabulary *)

Fault(kind) == kind \in Faults /\ budget > 0 /\ budget' = budget - 1

At(w, pc) == work[w].pc = pc
Goto(w, pc) == work' = [work EXCEPT ![w].pc = pc]
Finish(w) == work' = [work EXCEPT ![w] = Idle]

FileAt(w) == FilesOf[work[w].event][work[w].i]

\* Lease tokens are fresh and a worker that forgets its row forgets the
\* token, so the name of the worker stands for the token it holds.
OwnsEvent(w) == LET row == event[work[w].event] IN row.status = "processing" /\ row.owner = w
OwnsFile(w) == LET row == file[FileAt(w)] IN row.status = "processing" /\ row.owner = w
OwnsJob(w) == LET row == job[work[w].item] IN row.status = "publishing" /\ row.owner = w

\* enqueue_outbound ignores an idempotency key it has seen.
QueueReply(key, kind) == replies' = replies \cup {<<key, kind>>}

-----------------------------------------------------------------------------
(* SlackReviewPublishDispatcher.drain_once *)

JobDue(f) ==
    \/ job[f].status = "pending" /\ job[f].due
    \/ job[f].status = "publishing" /\ job[f].lapsed

\* claim_due_review_jobs.  Run at the head of run_once, and by
\* enqueue_local_file after it persisted a job.
Drain(w) ==
    LET due == {f \in Files : JobDue(f)} IN
    /\ At(w, "idle") \/ At(w, "drain")
    /\ job' = [f \in Files |->
                  IF f \in due
                  THEN [job[f] EXCEPT !.status = "publishing", !.owner = w, !.lapsed = FALSE]
                  ELSE job[f]]
    /\ work' = [work EXCEPT ![w].pc = "publish", ![w].items = due]
    /\ UNCHANGED <<event, file, runs, reviewing, replies, budget>>

\* queue.enqueue, confirmed.
Publish(w) ==
    /\ At(w, "publish")
    /\ \E f \in work[w].items :
          /\ queue' = [queue EXCEPT ![f] = @ + 1]
          /\ work' = [work EXCEPT ![w].pc = "mark", ![w].item = f]
    /\ UNCHANGED <<event, file, runs, job, exec, status, replies, budget>>

PublishUnconfirmed(w) ==
    /\ At(w, "publish")
    /\ Fault("unconfirmed")
    /\ \E f \in work[w].items :
          /\ \/ queue' = [queue EXCEPT ![f] = @ + 1]
             \/ UNCHANGED queue
          /\ work' = [work EXCEPT ![w].pc = "unmark", ![w].item = f]
    /\ UNCHANGED <<event, file, runs, job, exec, status, replies>>

NextItem(w) ==
    work' = [work EXCEPT ![w].pc = "publish", ![w].item = NoFile,
                         ![w].items = @ \ {work[w].item}]

\* Mutant of Unmark: a job whose publish was not confirmed counts as published.
UnmarkAsPublished(w) ==
    /\ At(w, "unmark")
    /\ job' = IF OwnsJob(w) THEN [job EXCEPT ![work[w].item].status = "published"] ELSE job
    /\ NextItem(w)
    /\ UNCHANGED <<event, file, runs, reviewing, replies, budget>>

\* mark_review_job_published
Mark(w) ==
    /\ At(w, "mark")
    /\ job' = IF OwnsJob(w)
              THEN [job EXCEPT ![work[w].item].status = "published", ![work[w].item].owner = NoWorker]
              ELSE job
    /\ NextItem(w)
    /\ UNCHANGED <<event, file, runs, reviewing, replies, budget>>

\* retry_review_job_publish
Unmark(w) ==
    /\ At(w, "unmark")
    /\ job' = IF OwnsJob(w)
              THEN [job EXCEPT ![work[w].item].status = "pending", ![work[w].item].owner = NoWorker,
                               ![work[w].item].due = FALSE]
              ELSE job
    /\ NextItem(w)
    /\ UNCHANGED <<event, file, runs, reviewing, replies, budget>>

Drained(w) ==
    /\ At(w, "publish") /\ work[w].items = {}
    /\ Goto(w, IF work[w].event = NoEvent THEN "claim" ELSE "completeFile")
    /\ UNCHANGED <<event, file, runs, job, reviewing, replies, budget>>

-----------------------------------------------------------------------------
(* SlackIntakeWorker.run_once and _process: events *)

\* enqueue_event, called by the Events API route; a redelivery changes nothing.
Receive(e) ==
    /\ event[e].status = "absent"
    /\ event' = [event EXCEPT ![e].status = "pending"]
    /\ UNCHANGED <<file, runs, job, reviewing, replies, work, budget>>

EventDue(e) ==
    \/ event[e].status = "pending" /\ event[e].due
    \/ event[e].status = "processing" /\ event[e].lapsed

\* claim_due_events.  The code claims up to ten and processes them one after
\* the other; here a worker claims the next one when it comes to it.
ClaimEvent(w) ==
    /\ At(w, "claim")
    /\ \/ \E e \in Events :
             /\ EventDue(e)
             /\ event' = [event EXCEPT ![e] = [status |-> "processing", due |-> TRUE,
                                               attempts |-> event[e].attempts + 1,
                                               owner |-> w, lapsed |-> FALSE]]
             /\ work' = [work EXCEPT ![w] = [Idle EXCEPT !.pc = "begin", !.event = e,
                                                         !.attempts = event[e].attempts + 1]]
       \/ /\ \A e \in Events : ~EventDue(e)
          /\ Finish(w)
          /\ UNCHANGED event
    /\ UNCHANGED <<file, runs, job, reviewing, replies, budget>>

\* The installation, the sender, the account and the quota are accepted.
Begin(w) ==
    /\ At(w, "begin")
    /\ work' = [work EXCEPT ![w].pc = "nextFile", ![w].i = 1]
    /\ UNCHANGED <<event, file, runs, job, reviewing, replies, budget>>

\* One of them is not: the event is answered with a rejection, or ignored.
Refuse(w) ==
    /\ At(w, "begin")
    /\ \/ QueueReply(work[w].event, "rejection")
       \/ UNCHANGED replies
    /\ Goto(w, "ignore")
    /\ UNCHANGED <<event, file, runs, job, reviewing, budget>>

FileClaimable(f) ==
    \/ file[f].status \in {"absent", "pending"}
    \/ file[f].status = "processing" /\ file[f].lapsed

\* Mutant of NextFile: an attachment somebody else works on is passed over.
NextFileForgettingBusy(w) ==
    LET f == FileAt(w)
        more == work[w].i <= Len(FilesOf[work[w].event]) IN
    /\ At(w, "nextFile")
    /\ IF more /\ FileClaimable(f)
       THEN /\ file' = [file EXCEPT ![f] = [status |-> "processing", owner |-> w, lapsed |-> FALSE]]
            /\ Goto(w, "fetch")
       ELSE /\ work' = IF more THEN [work EXCEPT ![w].i = @ + 1] ELSE [work EXCEPT ![w].pc = "done"]
            /\ UNCHANGED file
    /\ UNCHANGED <<event, runs, job, reviewing, replies, budget>>

\* The file loop: claim_file_submission, and what is made of its answer.
NextFile(w) ==
    LET f == FileAt(w)
        more == work[w].i <= Len(FilesOf[work[w].event]) IN
    /\ At(w, "nextFile")
    /\ \/ /\ more /\ FileClaimable(f)
          /\ file' = [file EXCEPT ![f] = [status |-> "processing", owner |-> w, lapsed |-> FALSE]]
          /\ Goto(w, "fetch")
       \/ /\ more /\ ~FileClaimable(f)
          /\ work' = [work EXCEPT ![w].i = @ + 1,
                                  ![w].busy = @ \/ file[f].status # "completed"]
          /\ UNCHANGED file
       \/ /\ ~more
          /\ Goto(w, IF work[w].busy THEN "contend" ELSE "done")
          /\ UNCHANGED file
    /\ UNCHANGED <<event, runs, job, reviewing, replies, budget>>

\* complete_event
Done(w) ==
    /\ At(w, "done") \/ At(w, "ignore")
    /\ event' = IF OwnsEvent(w)
                THEN [event EXCEPT ![work[w].event].owner = NoWorker,
                                   ![work[w].event].status =
                                       IF At(w, "done") THEN "processed" ELSE "ignored"]
                ELSE event
    /\ Finish(w)
    /\ UNCHANGED <<file, runs, job, reviewing, replies, budget>>

\* Mutant of Retry: attempts are not limited.
RetryForever(w) ==
    LET e == work[w].event IN
    /\ At(w, "retry")
    /\ event' = IF OwnsEvent(w)
                THEN [event EXCEPT ![e].status = "pending", ![e].owner = NoWorker, ![e].due = FALSE,
                                   ![e].attempts = 0]
                ELSE event
    /\ Finish(w)
    /\ UNCHANGED <<file, runs, job, reviewing, replies, budget>>

\* retry_event; when it was the last attempt, the event gets a rejection.
Retry(w) ==
    LET e == work[w].event
        terminal == work[w].attempts >= MaxEventAttempts IN
    /\ At(w, "retry")
    /\ IF OwnsEvent(w)
       THEN /\ event' = [event EXCEPT ![e].status = IF terminal THEN "failed" ELSE "pending",
                                      ![e].owner = NoWorker, ![e].due = FALSE]
            /\ IF terminal THEN QueueReply(e, "rejection") ELSE UNCHANGED replies
       ELSE UNCHANGED <<event, replies>>
    /\ Finish(w)
    /\ UNCHANGED <<file, runs, job, reviewing, budget>>

\* Mutant of Contend: a busy attachment uses up an attempt of the event.
ContendCounting(w) ==
    LET e == work[w].event IN
    /\ At(w, "contend")
    /\ event' = IF OwnsEvent(w)
                THEN [event EXCEPT ![e].status = "pending", ![e].owner = NoWorker, ![e].due = FALSE]
                ELSE event
    /\ Finish(w)
    /\ UNCHANGED <<file, runs, job, reviewing, replies, budget>>

\* retry_event_contention gives the attempt back.
Contend(w) ==
    LET e == work[w].event IN
    /\ At(w, "contend")
    /\ event' = IF OwnsEvent(w)
                THEN [event EXCEPT ![e].status = "pending", ![e].owner = NoWorker, ![e].due = FALSE,
                                   ![e].attempts = IF @ > 0 THEN @ - 1 ELSE 0]
                ELSE event
    /\ Finish(w)
    /\ UNCHANGED <<file, runs, job, reviewing, replies, budget>>

-----------------------------------------------------------------------------
(* SlackIntakeWorker._process_file and enqueue_local_file: one attachment *)

\* files_info, download and validation.
Fetch(w) ==
    /\ At(w, "fetch")
    /\ Goto(w, "receipt")
    /\ UNCHANGED <<event, file, runs, job, reviewing, replies, budget>>

\* Too large, not downloadable or not a contract: the sender is told, and the
\* attachment is done with.
FetchRefused(w) ==
    /\ At(w, "fetch")
    /\ Goto(w, "reject")
    /\ UNCHANGED <<event, file, runs, job, reviewing, replies, budget>>

\* Slack's API, the object store or the database raises.
FileRaises(w) ==
    /\ At(w, "fetch") \/ At(w, "lookExec")
    /\ Goto(w, "releaseFile")
    /\ UNCHANGED <<event, file, runs, job, reviewing, replies, budget>>

Reject(w) ==
    /\ At(w, "reject")
    /\ QueueReply(FileAt(w), "rejection")
    /\ Goto(w, "completeFile")
    /\ UNCHANGED <<event, file, runs, job, reviewing, budget>>

\* Mutant of Receipt: the receipt is left to whoever comes later.
ReceiptLater(w) ==
    /\ At(w, "receipt")
    /\ Goto(w, "lookExec")
    /\ UNCHANGED <<event, file, runs, job, reviewing, replies, budget>>

Receipt(w) ==
    /\ At(w, "receipt")
    /\ QueueReply(FileAt(w), "receipt")
    /\ Goto(w, "lookExec")
    /\ UNCHANGED <<event, file, runs, job, reviewing, budget>>

\* get_review_execution_status
LookExec(w) ==
    /\ At(w, "lookExec")
    /\ work' = [work EXCEPT ![w].pc = "lookRun", ![w].seen = exec[FileAt(w)]]
    /\ UNCHANGED <<event, file, runs, job, reviewing, replies, budget>>

\* Mutant of LookRun: every attempt makes a metrics run of its own.
LookRunForgetting(w) ==
    /\ At(w, "lookRun")
    /\ Goto(w, IF work[w].seen = "completed" THEN "completeFile" ELSE "enqueue")
    /\ UNCHANGED <<event, file, runs, job, reviewing, replies, budget>>

\* Mutant of LookRun: an existing run is taken for a queued job.
LookRunTrusting(w) ==
    LET run == runs[FileAt(w)] IN
    /\ At(w, "lookRun")
    /\ work' = [work EXCEPT ![w].run = run,
                            ![w].pc = IF work[w].seen = "completed" \/ run # 0
                                      THEN "completeFile" ELSE "enqueue"]
    /\ UNCHANGED <<event, file, runs, job, reviewing, replies, budget>>

\* get_by_job_id, and the two cases in which there is nothing left to queue.
LookRun(w) ==
    LET run == runs[FileAt(w)]
        consumed == \/ work[w].seen = "completed"
                    \/ work[w].seen = "processing" /\ run # 0 IN
    /\ At(w, "lookRun")
    /\ work' = [work EXCEPT ![w].run = run,
                            ![w].pc = IF consumed THEN "completeFile" ELSE "enqueue"]
    /\ UNCHANGED <<event, file, runs, job, reviewing, replies, budget>>

\* update_contract_status(QUEUED)
Enqueue(w) ==
    /\ At(w, "enqueue")
    /\ status' = [status EXCEPT ![FileAt(w)] = "queued"]
    /\ Goto(w, IF work[w].run = 0 THEN "newRun" ELSE "persist")
    /\ UNCHANGED <<event, file, runs, job, queue, exec, replies, budget>>

NewRun(w) ==
    LET f == FileAt(w) IN
    /\ At(w, "newRun")
    /\ runs' = [runs EXCEPT ![f] = @ + 1]
    /\ work' = [work EXCEPT ![w].run = runs[f] + 1, ![w].pc = "persist"]
    /\ UNCHANGED <<event, file, job, reviewing, replies, budget>>

\* _queue_processing_run logs the failure and goes on without a run.
NewRunFails(w) ==
    /\ At(w, "newRun")
    /\ Fault("metrics")
    /\ Goto(w, "persist")
    /\ UNCHANGED <<event, file, runs, job, reviewing, replies>>

\* persist_review_job: the first envelope stays, another one is refused.
Persist(w) ==
    LET f == FileAt(w) IN
    /\ At(w, "persist")
    /\ job' = IF job[f].status = "absent"
              THEN [job EXCEPT ![f].status = "pending", ![f].run = work[w].run]
              ELSE job
    /\ Goto(w, IF job'[f].run = work[w].run THEN "drain" ELSE "conflict")
    /\ UNCHANGED <<event, file, runs, reviewing, replies, budget>>

\* The except block of enqueue_local_file.  A refused envelope is a
\* ValueError, which _process_file answers like a bad attachment.
QueueFailed(w) ==
    /\ At(w, "conflict") \/ At(w, "unqueued")
    /\ status' = [status EXCEPT ![FileAt(w)] = "analysis_failed"]
    /\ Goto(w, IF At(w, "conflict") THEN "reject" ELSE "releaseFile")
    /\ UNCHANGED <<event, file, runs, job, queue, exec, replies, budget>>

CompleteFile(w) ==
    LET f == FileAt(w) IN
    /\ At(w, "completeFile")
    /\ IF OwnsFile(w)
       THEN /\ file' = [file EXCEPT ![f].status = "completed", ![f].owner = NoWorker]
            /\ work' = [work EXCEPT ![w].pc = "nextFile", ![w].i = @ + 1, ![w].seen = "absent",
                                    ![w].run = 0]
       ELSE Goto(w, "contend") /\ UNCHANGED file
    /\ UNCHANGED <<event, runs, job, reviewing, replies, budget>>

ReleaseFile(w) ==
    /\ At(w, "releaseFile")
    /\ file' = IF OwnsFile(w)
               THEN [file EXCEPT ![FileAt(w)].status = "pending", ![FileAt(w)].owner = NoWorker]
               ELSE file
    /\ Goto(w, "retry")
    /\ UNCHANGED <<event, runs, job, reviewing, replies, budget>>

\* A database call raises.  Where it lands depends on the try block around it.
Outage(w) ==
    LET pc == work[w].pc
        nested == work[w].event # NoEvent IN
    /\ Fault("outage")
    /\ \/ /\ pc \in {"persist", "drain"} \/ (nested /\ pc \in {"mark", "unmark"})
          /\ Goto(w, "unqueued")
       \/ /\ pc \in {"receipt", "lookRun", "enqueue", "reject", "conflict", "unqueued"}
          /\ Goto(w, "releaseFile")
       \/ /\ pc \in {"begin", "nextFile", "completeFile", "releaseFile"}
          /\ Goto(w, "retry")
       \/ /\ pc \in {"claim", "done", "ignore", "retry", "contend"}
             \/ (~nested /\ pc \in {"mark", "unmark"})
          /\ Finish(w)
    /\ UNCHANGED <<event, file, runs, job, reviewing, replies>>

-----------------------------------------------------------------------------
(* Contract workers, as far as the intake sees them *)

\* claim_review_execution succeeds, and the document is parsed.
Consume(f) ==
    /\ queue[f] > 0 /\ exec[f] \in {"absent", "pending"}
    /\ exec' = [exec EXCEPT ![f] = "processing"]
    /\ queue' = [queue EXCEPT ![f] = @ - 1]
    /\ status' = [status EXCEPT ![f] = "parsing"]
    /\ UNCHANGED <<event, file, runs, job, replies, work, budget>>

\* The review, or after the last attempt the failure, is posted.
Conclude(f) ==
    /\ exec[f] = "processing"
    /\ exec' = [exec EXCEPT ![f] = "completed"]
    /\ \E kind \in {"review", "failure"} :
          /\ status' = [status EXCEPT ![f] = IF kind = "review" THEN "review_ready"
                                                                ELSE "analysis_failed"]
          /\ QueueReply(f, kind)
    /\ UNCHANGED <<event, file, runs, job, queue, work, budget>>

AttemptFails(f) ==
    /\ exec[f] = "processing"
    /\ Fault("attempt")
    /\ exec' = [exec EXCEPT ![f] = "pending"]
    /\ queue' = [queue EXCEPT ![f] = @ + 1]
    /\ UNCHANGED <<event, file, runs, job, status, replies, work>>

\* A copy of a completed job is only acknowledged.
Discard(f) ==
    /\ queue[f] > 0 /\ exec[f] = "completed"
    /\ queue' = [queue EXCEPT ![f] = @ - 1]
    /\ UNCHANGED <<event, file, runs, job, exec, status, replies, work, budget>>

-----------------------------------------------------------------------------
(* Time and crashes *)

\* A worker works under the lease of the row, and in time.
EventHeld(e) == \E w \in Workers : event[e].owner = w /\ work[w].event = e /\ ~work[w].slow
FileHeld(f) ==
    \E w \in Workers :
        /\ file[f].owner = w /\ work[w].event # NoEvent /\ ~work[w].slow
        /\ work[w].pc \in FilePlaces \cup {"publish", "mark", "unmark"}
        /\ FileAt(w) = f
JobHeld(f) == \E w \in Workers : job[f].owner = w /\ f \in work[w].items /\ ~work[w].slow

LapseEvent(e) ==
    /\ event[e].status = "processing" /\ ~event[e].lapsed /\ ~EventHeld(e)
    /\ event' = [event EXCEPT ![e].lapsed = TRUE]
    /\ UNCHANGED <<file, runs, job, reviewing, replies, work, budget>>

LapseFile(f) ==
    /\ file[f].status = "processing" /\ ~file[f].lapsed /\ ~FileHeld(f)
    /\ file' = [file EXCEPT ![f].lapsed = TRUE]
    /\ UNCHANGED <<event, runs, job, reviewing, replies, work, budget>>

LapseJob(f) ==
    /\ job[f].status = "publishing" /\ ~job[f].lapsed /\ ~JobHeld(f)
    /\ job' = [job EXCEPT ![f].lapsed = TRUE]
    /\ UNCHANGED <<event, file, runs, reviewing, replies, work, budget>>

\* What a worker does takes longer than its leases.
Slow(w) ==
    /\ ~At(w, "idle") /\ ~work[w].slow
    /\ Fault("slow")
    /\ work' = [work EXCEPT ![w].slow = TRUE]
    /\ UNCHANGED <<event, file, runs, job, reviewing, replies>>

\* next_attempt_at passes.
EventComesDue(e) ==
    /\ event[e].status = "pending" /\ ~event[e].due
    /\ event' = [event EXCEPT ![e].due = TRUE]
    /\ UNCHANGED <<file, runs, job, reviewing, replies, work, budget>>

JobComesDue(f) ==
    /\ job[f].status = "pending" /\ ~job[f].due
    /\ job' = [job EXCEPT ![f].due = TRUE]
    /\ UNCHANGED <<event, file, runs, reviewing, replies, work, budget>>

Crash(w) ==
    /\ ~At(w, "idle")
    /\ Fault("crash")
    /\ Finish(w)
    /\ UNCHANGED <<event, file, runs, job, reviewing, replies>>

-----------------------------------------------------------------------------

Intake(w) ==
    \/ Drain(w) \/ Publish(w) \/ Mark(w) \/ Unmark(w) \/ Drained(w)
    \/ ClaimEvent(w) \/ Begin(w) \/ Refuse(w) \/ NextFile(w) \/ Done(w)
    \/ Retry(w) \/ Contend(w) \/ Fetch(w) \/ FetchRefused(w) \/ FileRaises(w)
    \/ Reject(w) \/ Receipt(w) \/ LookExec(w) \/ LookRun(w) \/ Enqueue(w)
    \/ NewRun(w) \/ Persist(w) \/ QueueFailed(w) \/ CompleteFile(w) \/ ReleaseFile(w)

IntakeFault(w) == PublishUnconfirmed(w) \/ NewRunFails(w) \/ Outage(w) \/ Slow(w) \/ Crash(w)

Review(f) == Consume(f) \/ Conclude(f) \/ Discard(f)

Next ==
    \/ \E w \in Workers : Intake(w) \/ IntakeFault(w)
    \/ \E e \in Events : Receive(e) \/ LapseEvent(e) \/ EventComesDue(e)
    \/ \E f \in Files : Review(f) \/ AttemptFails(f) \/ LapseFile(f) \/ LapseJob(f) \/ JobComesDue(f)

Spec == Init /\ [][Next]_vars

\* Intake workers poll for ever, contract workers consume what is queued, and
\* time passes.
Fairness ==
    /\ \A w \in Workers : WF_vars(Intake(w))
    /\ \A e \in Events : WF_vars(LapseEvent(e)) /\ WF_vars(EventComesDue(e))
    /\ \A f \in Files : WF_vars(Review(f)) /\ WF_vars(LapseFile(f))
                        /\ WF_vars(LapseJob(f)) /\ WF_vars(JobComesDue(f))

FairSpec == Spec /\ Fairness

-----------------------------------------------------------------------------
(* Properties *)

\* An attachment is marked completed only when it needs no further intake:
\* its review job is durably in the outbox, or its sender has a rejection
\* (slack_worker.py marks it after enqueue_local_file returned, by whichever
\* of its early returns).
CompletedFileIsAccountedFor ==
    \A f \in Files : file[f].status = "completed" =>
        job[f].status # "absent" \/ <<f, "rejection">> \in replies

\* An event is marked processed only when all its attachments are completed,
\* also those another worker had leased in the meantime.
ProcessedEventIsComplete ==
    \A e \in Events : event[e].status = "processed" =>
        \A i \in DOMAIN FilesOf[e] : file[FilesOf[e][i]].status = "completed"

\* slack_worker.py: "Persist the receipt before publishing the review job.
\* This makes thread ordering deterministic even if a review worker is idle
\* and consumes the job immediately."
ReceiptComesFirst ==
    \A f \in Files :
        \/ job[f].status # "absent"
        \/ {<<f, "review">>, <<f, "failure">>} \cap replies # {}
        => <<f, "receipt">> \in replies

\* Crashes, outages and unconfirmed publishes of an intake worker make later
\* attempts find the envelope they would build: persist_review_job refuses
\* none ("Slack submission already has a different review job envelope"), as
\* long as no two workers hold the same attachment and the metrics run was
\* recorded.
EnvelopeIsStable ==
    ("slow" \notin Faults /\ "metrics" \notin Faults) =>
        \A w \in Workers : ~At(w, "conflict")

\* An event that was stored is processed, ignored or failed in the end.
EventSettles ==
    \A e \in Events :
        event[e].status = "pending" ~> event[e].status \in {"processed", "ignored", "failed"}

\* contract_processing.py: "In particular, never reset an actively processed
\* contract to QUEUED [...] while the first consumer owns the submission."
ActiveContractIsNotReset ==
    [][\A f \in Files :
          exec[f] = "processing" /\ status'[f] = "queued" => status[f] = "queued"]_vars

-----------------------------------------------------------------------------
(* The abstract specification: see ReviewPromise *)

Promise == INSTANCE ReviewPromise WITH
    Submissions <- Files,
    accepted <- {f \in Files : job[f].status # "absent"},
    answered <- {f \in Files : {<<f, "review">>, <<f, "failure">>} \cap replies # {}},
    closed <- {f \in Files : exec[f] = "completed"}

\* Whatever becomes of the worker, the event and the attachment it came from,
\* a review job that is in the outbox is published and answered in the end,
\* and no other submission ever is (persist_review_job commits before the
\* broker hears of the job).
ImplementsPromise == Promise!Spec

=============================================================================
