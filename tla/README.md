# Samvid / ContractMate: a TLA+ model

This directory models the parts of the program that run concurrently and have
to survive crashes, duplicates and lost answers: how a contract that somebody
uploads, mails or sends over Slack becomes a review job, how workers execute
that job, how the answers get back, how a reviewed contract gets into the
search index, and the rows that several handlers of the API write at once
(signing requests, accounts, reservations of uploads). Modules are checked with
TLC on small instances; theorems are proved with TLAPS for every value of the
constants. All paths below are relative to `src/src/contractmate/` unless they
start with `src/`.

| module | what it is |
|---|---|
| `ReviewExecution` | review queue, contract workers, execution leases, contract status, reply intents |
| `ReviewPromise` | what the pipeline promises the sender of a submission: the abstract specification that `ReviewExecution` and `SlackIntake` implement |
| `OrderedOutbox` | what an outbox with threads promises: the abstract specification that `SlackDelivery` and `Email` implement |
| `SlackIntake` | stored Slack events, intake workers, the outbox of review jobs |
| `SlackDelivery` | the outbox of Slack messages, delivery workers, connecting and disconnecting, deleting a contract |
| `KnowledgeIndexing` | the outbox and the queue of index jobs, index workers, the operator's commands, deletion |
| `Email` | the inbound webhook and its event row, receipts and reviews, the outbox of emails and its workers |
| `Uploads` | reservations in Redis, uploads by Blob storage and by form, contracts by the hash of their bytes, deletion |
| `Signing` | signing requests, signers, their event log and the active flag, deletion |
| `Accounts` | accounts claimed by sign-ins, provisioned for senders, the super-admin and what the console shows |
| `MC...` | one for each of them: values for the constants, for TLC |
| `..._proofs` | theorems and proofs about the module of that name |

## 1. Inventory

Processes of a deployment: the API server, contract workers, Slack intake
workers, delivery workers, the knowledge worker, PostgreSQL, RabbitMQ, and
Slack, Resend and the model providers as external services. Processes share
nothing but the database and the broker. Each worker is synchronous and works
on one thing at a time, so the interleavings that exist are those between
transactions and calls of *different* processes, and between a worker and its
own heartbeat thread.

| component | state | operations | correct when |
|---|---|---|---|
| Review queue, `workers/queue.py` | review queue, TTL retry queue, dead-letter queue; unacknowledged deliveries | enqueue, retry, retry_contention, dead_letter, acknowledge, nack on error; publishes are confirmed | no job vanishes; attempts run out |
| Contract worker, `workers/contract_worker.py` | the delivery in hand, the lease token, the heartbeat thread | `_process_delivery`: claim, review, renew, reply, complete; on an exception renew, fail or release, retry or dead-letter | one reviewer a submission; a reply before completion; a failure reply before the dead letter |
| Contract processing, `services/contract_processing.py` | `contracts.status`, reviews | `review_stored_contract`, `enqueue_local_file`, `mark_analysis_failed` | a finished review is never redone; a contract nobody works on has a settled status; an active contract is not reset |
| Execution leases, `db/repositories/slack.py` 413-485 | `slack_review_executions` | claim, renew, complete, release | compare-and-set on the token; a lapsed lease can be taken over |
| Slack events, `db/repositories/slack.py` 238-412, `api/slack_routes.py` | `inbound_slack_events`, `inbound_slack_file_submissions` | record, claim, complete, retry, ignore; claim, complete, release of an attachment | an event settles, once every attachment did; no work of a dead worker is lost |
| Review job outbox, `db/repositories/slack.py` 486-586, `workers/review_publish_outbox.py` | `slack_review_job_outbox` | persist, claim due, mark published, mark retry | published means accepted by the broker; everything persisted is published |
| Intake worker, `workers/slack_worker.py` | the event and attachment in hand | `run_once`, `_process`, `_process_file` | the receipt precedes the review; a retry repeats the same envelope |
| Slack delivery, `db/repositories/slack.py` 632-730, `services/outbound_slack_delivery.py`, `workers/delivery_worker.py` | `outbound_slack_outbox` | enqueue, claim due, post, mark sent, reschedule | a thread keeps its order; closed rows stay closed until they are deleted; every row closes |
| Installations, `db/repositories/slack.py` 124-237, `api/slack_routes.py` | `slack_installations` | connect, disconnect, mark revoked | nothing is posted after a disconnect; nothing is left open |
| Processing metrics, `db/repositories/processing_runs.py` | `contract_processing_runs` | start, update stage, finish | one run a submission; its loss never stops the pipeline |
| Inbound email, `api/routes.py`, `services/email_ingestion.py`, `db/repositories/inbound_email_events.py` | `inbound_email_events` | claim, reclaim after ten minutes, download, queue receipt and jobs, complete, fail | no wanted email dropped silently; a second review only for a reason |
| Outbound email, `db/repositories/outbound_email_outbox.py`, `services/outbound_email_delivery.py` | `outbound_email_outbox`, the provider's idempotency keys | enqueue, claim due, send, mark, reschedule | the receipt first; sent means accepted; every row settles |
| Knowledge outbox and indexing, `db/repositories/knowledge_outbox.py`, `services/knowledge_outbox.py`, `workers/knowledge_worker.py`, `db/repositories/knowledge.py` | `knowledge_index_outbox`, `knowledge_indexes`, `knowledge_chunks`, index queues | enqueue with the review, claim, publish, index, mark, backfill, retry failed, delete | a ready index has its chunks; every reviewed contract is indexed or on record as failed; a deleted one leaves no text |
| Signing, `db/repositories/signing.py` | `signing_requests`, `signers`, `signer_status_events` | create, add a signer, append an event and synchronise the flag, delete with the contract | one active request; flag and derived status agree |
| Accounts, `db/repositories/user_accounts.py`, `services/account_access.py` | `user_accounts`, `platform_access_events` | provision a verified user or an inbound sender, bootstrap the super-admin, record an access | an account never changes hands; beyond the lists, nothing of an account is shown unrecorded |
| Rate limiting, `services/rate_limiting.py` | Redis: windows, reservations of uploads | consume, reserve, acquire, finalise, release | a reservation is paid once and held by one request |
| Contract chat, API, CLI, web | sessions | request handling | no state machine of their own |
| Parsing, OCR, review model | none | pure computation, external calls | modelled as outcomes only |

Interactions: the API stores a Slack event; an intake worker leases it,
downloads each attachment, queues a receipt, stores the contract, persists a
review job in the outbox and drains the outbox to RabbitMQ; a contract worker
consumes the job, leases the submission, writes the review and queues the reply
in the outbound outbox; a delivery worker posts receipt and reply to Slack.
Email and browser uploads enter at `enqueue_local_file` and take no lease: the
webhook handler claims the event row of an email, the browser's request leases
the reservation of its pathname in Redis. Deleting a contract reaches into the
object storage, the index, the signing tables, the email and Slack outboxes and
the review job outbox.

What is hard to get right here, and hard to test:

* RabbitMQ delivers at least once, and `retry` publishes before it
  acknowledges, so copies of one job run side by side;
* four leases (execution 900 s with heartbeat, event 120 s, attachment 300 s,
  outbox row 60 s or 120 s) can run out under an owner that is only slow;
* a reply, a completion and an acknowledgement are three separate commits, in
  the normal path and in the exception path;
* a publish that was not confirmed may or may not have been accepted;
* values are read in one transaction and used in a later one (execution status
  in `enqueue_local_file`, the bot token in delivery);
* contracts are shared by submissions of the same bytes, and so are their
  objects in the storage;
* rows of emails are leased without a token: whoever comes back late marks or
  reschedules a row that another worker holds;
* handlers of the API read, and write in a later transaction; what still holds
  then is up to unique indexes and compare-and-sets.

`PROJECT.json` lists these as hazards, each at its line, with the property that
watches over it or the reason why none does yet.

## 2. Modules and how they correspond to the code

The modules meet at database tables and the broker. They are checked
separately, and each models the others by the part of them it sees:

* `SlackIntake` has the contract workers as four actions (`Consume`,
  `Conclude`, `AttemptFails`, `Discard`), the outline of `ReviewExecution`;
* `ReviewExecution` has intake as `Publish`, `PublishAgain` and `IntakePass`: the
  job reaches the broker once, or again when a confirmation is lost, and passes
  of `enqueue_local_file` over the same submission write the contract's status
  on an execution status they read earlier, without publishing anything;
* `SlackDelivery` has both as `Enqueue` with a fresh idempotency key;
* `KnowledgeIndexing` has `ReviewExecution` as `Review`, the transaction of
  `finalize_contract_review` (its `Finalize`), which adds the index intent;
* `Email` and `Uploads` have the contract workers as two actions each (a job's
  review is queued or its status written, and the job ends); `Signing`, `Email`,
  `SlackDelivery` and `Uploads` each have the part of `delete_contract` that
  touches their rows.

### ReviewExecution

One action is one transaction or one broker call of `_process_delivery`, in the
code's order; `work[w].pc` is the worker's place in it.

| variable | code |
|---|---|
| `ready`, `delayed`, `dead` | copies (job, attempt) in `contract.review.q`, in the retry queue, in the DLQ |
| `work[w]` | the delivery in hand, whether its channel is open (`up`), whether `slack_execution` is set (`held`), the outcome (`ready`) |
| `exec` | `slack_review_executions`; `lapsed` stands for `lease_expires_at <= now` |
| `passes`, `reset` | local variables of `enqueue_local_file` calls that publish nothing; the contracts one of them was the last to set to QUEUED |
| `status`, `reviewed` | `contracts.status`, `contract_reviews` |
| `replies` | idempotency keys in the Slack and email outboxes |

The try block is `Start` ... `Complete`, the except block `Handle` ... `Retry`;
each has the early exits of the code (a completed duplicate is acknowledged, a
busy one goes back with the same attempt, a stale one is only acknowledged). A
lease token is a fresh uuid that its worker forgets with the delivery, so the
worker's name together with `held` tells tokens apart. Jobs that do not come
from Slack are modelled as email jobs; browser uploads differ from them only in
queuing no mail. Publishing is one step here; `SlackIntake` takes it apart.

### ReviewPromise

What the sender of a Slack submission is promised: answered once, closed only
after the answer was queued, and answered and closed in the end. It knows no
queue, lease, attempt or worker. `ReviewExecution` implements it with
`answered` as the submissions that have a reply and `closed` as those that are
completed or in the dead-letter queue; `SlackIntake` with `accepted` as the
files whose job is persisted, and `answered` and `closed` in one step
(`Conclude`), because its contract workers conclude in one. A submission is
thus promised the same from the row of the job outbox on as from the broker on.

### OrderedOutbox

What the two repositories of replies promise, whoever drains them: a message
has the open messages of its thread ahead of it (`Queue`), is taken by a sender
only when none of them is open any more (`Take`), may be accepted by the
provider at any time after that (`Accept`), is marked sent only when it was
(`Send`), and stays sent or dropped. It knows no positions, leases, tokens,
attempts or workers, so that what the two implementations do differently is
seen to make no difference: `SlackDelivery` leases rows with a token, closes
the outbox of an installation that left (`Drop` of several messages) and enters
what is queued for it afterwards as failed (`Refuse`); `Email` leases them
without one. In both the rows of a contract may be deleted under their senders,
and queued again after that (`Delete`).
`ahead` is the `NOT EXISTS` of both claims, `hand` what the workers hold,
owners or not.

### SlackIntake

`event`, `file`, `job` are the three tables; `runs` the metrics rows with the
job id of the file; `work[w]` the local variables of `run_once`. A worker
claims one event at a time (the code claims up to ten and works through them
one after the other). Of an envelope only `run` (its `processing_run_id`, 0 for
None) is kept, the one part two attempts may disagree on; `conflict` is the
place where `persist_review_job` refuses a second, different envelope. Checks
of sender, account and quota are one choice, `Begin` or `Refuse`. An attachment
stands for one contract. The drain limit of ten rows is not binding on the
instances.

### SlackDelivery

One installation, its outbox, and the delivery workers. `posted` is what Slack
has accepted; `client_msg_id` makes a repeated post harmless, so it is a set.
`valid` is the set of tokens Slack accepts. `Leave` is the remote revocation
and `Disconnect` the later update of the row, in the code's order. A worker
reads token and installation in `Take` and uses them in `Post`. `mishaps`
remembers which faults have occurred, each at most once. `DeleteContract` takes
the rows of a contract, of any status, under the workers that hold them; it may
come at any time, since a worker may still have a reply to queue when the status
of the contract is at rest already. A row that is queued again after that is the
same message here (its idempotency key), though Slack would take it for a new
one (its `client_msg_id`). Receipts and unroutable replies have no contract. Not
told apart: attempts past the last one. A disconnect request that dies between
its two steps leaves the same state as `Uninstall`.

### KnowledgeIndexing

`outbox[v]`, `index[v]`, `chunks[v]` are the rows of a contract in its current
version: the intent, the index with its id, and the id of the index whose
chunks are stored. `ready`, `delayed`, `dead` are the index queues, `send` the
delivery workers, `work` the index workers, `operator` the command that runs.
One action is one statement or transaction of `_process_delivery`.
`replace_index` repeats what the worker has done before (ask for the contract,
create or find the row, mark it), which is its round 2; the handler marks the
row of round 1. Index workers have no lease, so nothing keeps copies of a job
from running side by side. Not told apart: publish attempts past the last one,
and last error messages. A sender claims one row at a time (the code claims up
to 25 and works through them one after the other). A contract is reviewed once
and deleted at most once; stored documents and reviews are taken to be
readable. `Delete` is `delete_contract` as far as the search index goes.

### Email

One email and everything it sets off. `event` and `stale` are the row of
`inbound_email_events` (its claim has no token, and is taken over when its
`received_at` is ten minutes old); `handler[h]` is a pass over the email by one
webhook request, from `Claim` to `Close` or `MarkFailed`; `due` is the
provider's side, which delivers again until it is answered below 400, and
forgets a request it has given up on (`heard`). `row[0]` is the receipt and
`row[n]` the review of job `n` in `outbound_email_outbox`, `inbox` what the
provider accepted, with the idempotency keys it knows. Signatures, headers and
attachment types are abstracted to what becomes of the email (`mail`: ignored,
its sender turned away, or wanted) and of its attachments: those in `Rejected`
cannot be downloaded, those in `Invalid` are refused by `validate_uploaded_file`
and answered straight from the webhook (`Respond`, `told`).

A job is reviewed (`Settle`), its email queued (`Review`) and acknowledged
(`Finish`) in three steps, because the contract is at rest after the first of
them: `delete_contract` asks for its status alone (`settled`), so that it may
come while the job is still in hand, and the email is queued after the
deletion, or again. `lost` are the jobs whose contract it took, `gone` says of
a delivery worker that the row it claimed was deleted: the row that is queued
again has another id. `reasons`, `shrugged` and `limited` are history variables
that the properties name.

### Uploads

`reservation`, `left` and `mode` are Redis: one action is one Lua script, which
may run without its reply being heard (`Command`). The windows are one
allowance that refills. `handler[h]` is a request of `POST /contracts` or
`/contracts/from-blob`, from the lease to the settlement; `contract`, `queue`
and `reviewing` are the rows of one document, its jobs and the worker;
`deleting` is the transaction of `delete_contract`, which removes the object
before it commits. All pathnames hold the same document, so that every upload
finds the contract of the others. After the publish the audit event is written
outside the try block; when that fails (`RecordFails`) the request gives its
pathname back with the job already waiting. `paid`, `expired`, `copies`, `reasons`,
`torn`, `abandoned` are history.

### Signing

One contract, its requests, signers and events. A handler's queries and its
transaction are separate actions (`StartCreate`/`InsertRequest`,
`StartEvent`/`RecordEvent`/`ReadForSync`/`SetFlag`, ...), because nothing locks
what was read; a unique index or a primary key is a guard of the transaction.
The status of a request is derived from the log (`StatusOf`) as in
`derive_request_status`. `alone`, `unsettled` and `crossed` are history: they
say when handlers overlapped, which the properties except.

### Accounts

`account` by mailbox (the index on `lower(email)`), bound to at most one
identity. `Enter` ... `InsertVerified` are the queries of
`provision_verified_user`, `Rebind` and `InsertAdmin` those of
`bootstrap_super_admin`, `Arrive` ... `InsertSender` those of
`provision_inbound_user`; a statement and the read-back of its row are one
step, since the row stays locked. `answers` and `refused` are what callers were
told. `bootstrap_super_admin` binds the account to whoever signs in last with
the configured mailbox; the properties speak of personal accounts.

## 3. Runs

| run | instance | properties | distinct states, time |
|---|---|---|---|
| `review_crash` | one Slack job, 2 workers, 2 attempts; crash, stall, republish, 3 faults | `DeadLetterAnswered`, `ReviewNotRetracted`, `ImplementsPromise` | 0.3 M, 45 s |
| `review_faults` | two Slack jobs, one contract; every fault but stall, 2 of them; jobs and workers symmetric | `OneReviewerPerSubmission`, `CompletedMeansAnswered`, `NoSubmissionLost`, `QuietContractIsSettled` | 3.4 M, 70 s |
| `intake_crash` | one file; crash, unconfirmed, 2 faults | `EnvelopeIsStable`, `EventSettles`, `ImplementsPromise` | 0.3 M, 60 s |
| `intake_faults` | two files; all faults, 1 of them; workers symmetric | `TypeOK`, `CompletedFileIsAccountedFor`, `ProcessedEventIsComplete`, `ReceiptComesFirst` | 3.2 M, 105 s |
| `intake_reset` | one file; crash | violated: `ActiveContractIsNotReset` | 2 s |
| `slack_delivery` | a receipt and the review of a contract in one thread, 2 workers, 2 attempts, 2 tokens; any two of six faults, the deletion and a new token; fairness | `InactiveHasNothingOpen`, `ThreadsKeepOrder`, `ImplementsOutbox`, `DisconnectedIsSilent`, `RepliesSettle` | 0.7 M, 70 s |
| `knowledge_faults` | one contract, 2 index workers, 2 senders (each symmetric), 2 attempts, one publish attempt, one command; all faults, 1 of them | `ReadyHasChunks`, `NothingForgotten` | 3.1 M, 90 s |
| `knowledge_settles` | one contract, 2 index workers, 1 sender, 2 attempts, 2 publish attempts; crash, outage, unconfirmed, 2 faults | `IndexSettles` | 0.5 M, 45 s |
| `email_faults` | one email, 3 attachments of which one cannot be downloaded and one is refused, 2 handlers, 2 delivery workers, 2 jobs, 2 attempts; nine faults, 2 of them; fairness | `ReceiptComesFirst`, `ImplementsOutbox`, `NothingLostQuietly`, `RepeatedReviewNeedsReason`, `OutboxSettles` | 0.2 M, 45 s |
| `uploads_faults` | one pathname and the form, 3 uploads, 2 handlers (symmetric), 2 contracts, an allowance of one, both modes; six faults, 1 of them | `OneHolder`, `ReservationIsPaid`, `RepeatedJobNeedsReason`, `DocumentIsKept`, `UnfinishedHasJob` | 5.7 M, 110 s |
| `signing_races` | 2 requests, 3 signers with 2 mailboxes, one of them optional, 2 event ids, 2 handlers, one crash | `OneActiveRequest`, `FlagFollowsStatus`, `RepeatsNeedOverlap` | 1.5 M, 60 s |
| `accounts_races` | the super-admin and 2 people, 2 identities, 3 workspaces, 2 handlers (each of these symmetric) | `BindingsStick`, `AnswersStayTrue`, `AdmittedStayAdmitted`, `DisclosureIsRecorded` | 2.2 M, 35 s |

What they show:

* **Review.** As long as heartbeats run, no crash, duplicate, closed channel or
  failed database call makes two workers review one submission. A completed
  submission has its reply queued, and a dead letter has its failure reply
  while the database answers. A submission always has a copy in some queue or
  in the hands of a worker that will carry it on. After its review was queued,
  crashes and duplicates alone never add a failure reply, except that of a
  worker which lost its lease right before its reply. A contract that
  nobody works on any more is not left in a state that the rest of the system
  takes for active, other than QUEUED by an intake pass that published nothing.
  With crashes, stalls and duplicates, every accepted
  submission is answered and closed in the end.
* **The limits of that**, which the preconditions of the properties state:
  `NoSubmissionLost` needs stalled heartbeats and closed channels not to occur
  together, because a stale copy is acknowledged in the belief that the newer
  owner still has one; `DeadLetterAnswered` needs the database at the moment of
  the dead letter, because a worker whose service does not come up retries
  without marking anything failed; `QuietContractIsSettled` is about jobs that
  have a lease, unless channels stay open, and excepts `LeftQueued`: a second
  intake pass reads the execution, the worker finishes, and the pass then sets
  the contract to QUEUED with its job published and done, or dies with its own
  not yet published.
* **Intake.** Whatever dies, a completed attachment has its job in the outbox
  or its sender a rejection, a processed event has no unfinished attachment,
  and no review can overtake its receipt. With crashes and lost confirmations,
  retries build the same envelope, every event settles, and the intake
  implements `ReviewPromise`: only what was persisted is ever reviewed, and
  every persisted job is published and reviewed, once, in the end.
* **Delivery.** Messages of a thread are accepted by Slack in the order in
  which they were queued, under lapsed leases, lost answers, revocations and
  deletions, and the whole implements `OrderedOutbox`: among other things, a
  closed message stays closed until its contract is deleted, and what is sent
  was accepted; a disconnected installation is silent and has nothing left to
  send; every message closes in the end or goes with its contract, and none
  waits for one that went. The exceptions are an installation connected again
  while it is being disconnected, an `enqueue_outbound` that overlaps the
  deactivating transaction, after which a row stays open for good, and, for the
  order, a row deleted under its sender: that sender still posts it, whatever
  has been queued again since.
* **Index.** A ready index always has its own chunks, whoever else works on
  the contract, and also when it was deleted in between. A reviewed contract
  is indexed, recorded as failed where the operator's commands look for it, or
  still in some queue or in some hands, and the last of these ends. The
  exceptions, which the properties name: a worker that lost its channel and
  then dies may leave an index "indexing" that another copy had completed
  (`Abandoned`); a database that is down at the last attempt leaves nothing
  but the dead letter (`Unrecorded`); and `retry_failed` takes an index that
  fails between its read and its update off the record (`Reopened`).
* **Email.** The receipt reaches the sender before any review unless it was
  given up; the outbox implements `OrderedOutbox`, so a row is "sent" only when
  the provider accepted it, though rows are leased without a token and deleted
  at any time; a second review of an attachment needs a failed pass or a stale
  claim; every row is sent, given up or deleted. An email that is not delivered
  again was handled, unless a delivery was answered "processing". Handled means:
  it was not for us, its sender was turned away or limited, of all of which the
  sender is told nothing; or there is a job for every attachment that can be
  downloaded and is a contract file, and the sender was told of the others that
  can be downloaded. Attachments whose download is refused are dropped without a
  word, and so is one whose review is dead-lettered.
* **Uploads.** A lease has one live holder; a reservation is paid once, through
  lost replies and retries; a second job for a pathname needs one of the
  mishaps counted in `reasons` (an unconfirmed publish, an audit event that
  could not be written after it, a lease or reservation that ran out, a start
  without a lease); a stored contract has its document unless a
  deletion rolled back or shared it; a contract that shows unfinished work has
  a job, a worker or a request that carries it, unless a request was cut short.
* **Signing.** One active request, by the partial unique index, however stale
  the reads; a request nobody is working on has the flag of its derived status,
  unless its last handler was refused, died in between or was not alone; a
  repeated status needs an overlap.
* **Accounts.** A personal account keeps identity, workspace and role; what a
  caller was told stays true, although the loser of an INSERT had generated a
  workspace of its own; whoever was admitted is admitted again; the console
  shows the page, a contract or a document of an account only after its access
  event is committed. Its lists are not covered: `GET /admin/users`
  (`api/routes.py:930`) shows the email, name, state and number of contracts of
  every account and records nothing (action `List`).

### Bounds, and why they are enough

Two workers, or two handlers, are what every race here needs: one that holds or
has lost something, or has read something, and one that takes over or writes in
between. Two attempts give a first, a last and the step between them. Two Slack
jobs on one contract let submissions share a contract. Two or three faults
allow a fault during the recovery from another; where one suffices for the
property (`intake_faults`, `knowledge_faults`, `uploads_faults`) the larger
instance is worth more. `MaxFaults` is a budget on the faults (in
`SlackDelivery` on faults, deletions and new tokens together), and so also a
bound on retries in the exception path; `MaxEventAttempts`, `MaxTokens`,
`MaxCommands`, `MaxCrashes`, `MaxViews`, `MaxJobs`, `MaxRequests` and
`MaxContracts` bound the other counters. Two review jobs let an attachment be
queued twice; three uploads let two of them race and a third find what they
left; three workspaces give each mailbox one more than it gets; three signers, two
of one mailbox, give a conflict of mailboxes and an optional signer. Event attempts
may exceed `MaxEventAttempts` only by what a fault left unfinished, hence the
range of `EventAttempts`. Jobs, events, messages and requests are finite, so the
system legitimately stops when all are settled: that is why deadlock is not
checked.

### Fairness, and why the code justifies it

* A worker that has a delivery, an event or a batch goes on with it (weak
  fairness on its steps): the loops of the workers are sequential, and the calls
  to Slack, Resend, storage and models they wait for have timeouts.
* Delivery workers poll the outboxes for ever (weak fairness of `SenderStep`,
  `Dispatch` and the steps of `SlackDelivery`).
* A copy in the review queue is delivered in the end (strong fairness): RabbitMQ
  hands the head of a queue to a free consumer, and workers become free again
  and again.
* Time passes (weak fairness of lapses, TTLs and due dates); a heartbeat thread
  that is alive runs.
* A disconnect request and an operator's command run to their end. Nobody has
  to connect, answer, publish, delete, sign in or send anything, and no handler
  of the API has to finish.
* No fault is fair, and their number is bounded by the budget: the liveness
  properties speak of what happens once faults stop.

## 4. What is proved

`ReviewExecution_proofs`, from the two assumptions of the module
(`JobsAssumption`: Slack jobs are jobs, every job has a contract, the two null
values are none; `BoundsAssumption`: `MaxAttempts` positive, faults among the
kinds), for any number of jobs, workers, attempts and faults:

| theorem | statement | inductive invariant |
|---|---|---|
| `TypeCorrect` | `Spec => []TypeOK` | `TypeOK` alone |
| `AnswerBeforeCompletion` | `Spec => []CompletedMeansAnswered` | `AnswerFirst`: a worker at the place before a completion has queued its reply; a completion does not look at who replied, only at the place it is reached from |
| `ReviewerExclusion` | `Spec => []OneReviewerPerSubmission` | `LeaseInv`: a worker that holds a lease has a Slack job; while heartbeats run, it is the owner in the row, and only an abandoned lease lapses |
| `SubmissionsAreKept` | `Spec => []NoSubmissionLost` | `KeptInv` with `LeaseInv`: without disconnects a busy worker's channel is open, so the copy it would drop exists elsewhere |
| `DeadLettersAreAnswered` | `Spec => []DeadLetterAnswered` | `DeadLetterInv`: without outages a worker at its last retry has queued the failure |
| `PromiseIsKept` | while the database answers, initial states map to initial states and each step to a step of `ReviewPromise` or a stutter | the above with `PublishedInv`: what is queued, held or replied to was published |
| `QuietIsSettled` | `Spec => []QuietContractIsSettled` | `SettledInv`: a contract with an active status that is not `LeftQueued` is owed another one, by an open Slack submission whose lease holder has not settled it or by a job with a copy somewhere; with `LeaseInv`, `KeptInv` and `PublishedInv` |
| `ReviewIsNotRetracted` | without outages, closed channels and unconfirmed publishes, `Spec => ReviewNotRetracted` | `RetractInv`: what is announced is stored, so that an owner that found no review when it loaded the contract is the first to reply |

None of the properties is inductive by itself. `CompletedMeansAnswered`, for
instance, says nothing of a worker that is about to complete, so from an
arbitrary state that satisfies it the next step may break it; `AnswerFirst`
adds what has happened by the time a worker stands there. Every proof goes the
same way: `Init` implies the invariant, one named step per action shows that it
is kept, the invariant implies the property, and PTL puts the three together.

`SlackDelivery_proofs`, from `DeliveryAssumption` (every message has a thread;
attempts and tokens positive; the null values are none), for any number of
messages, threads, contracts, workers, attempts and tokens:

| theorem | statement | inductive invariant |
|---|---|---|
| `TypeCorrect` | `Spec => []TypeOK` | `TypeOK`, which includes that positions in a thread are distinct: `InsertIsLast` shows that a new one is behind all |
| `ClosedForGood` | `Spec => ClosedStaysClosed`: only the deletion of its contract ends a closed message, and takes its row | `TypeOK`; `StepKeepsRows` says what any step but an enqueue or a deletion may do to the rows |
| `OrderOfThreads` | `Spec => ThreadsKeepOrder` | `ClaimedInOrder`: all that a worker has claimed, owner or not, has only closed messages before it, and a message of a deleted contract has when the worker owns its row; `OwnedBefore` |
| `OutboxIsImplemented` | `Spec => ImplementsOutbox`: initial states map to initial states, and each step to a step of `OrderedOutbox` or a stutter | `OutboxInv`: what a worker holds was handed to it with nothing before it (`HandedOut`, `ClaimedInOrder`), and is on record as accepted when it comes to mark it |
| `QueuedFirstIsReadFirst` | for messages `r` and `m` of a thread, `r` without a contract, if `m` is queued only when `r` was, Slack accepts `m` only when `r` is sent or given up | `FirstIsSettled`: also when a worker holds `m` |
| `InactiveIsEmpty` | `Spec => []InactiveHasNothingOpen` | the property itself, with `TypeOK` |
| `DisconnectSilences` | `Spec => DisconnectedIsSilent` | `TokensInv`: Slack honours at most the token of the row, and none from the revocation until the next connection |

The order of a thread shows why the strengthening is needed: the claim looks at
the order, the post does not, and between the two the lease may be lost. What
saves it is that closed messages stay closed and that no message is ever put
before an existing one, so that what held at the claim still holds at the post.
The deletion of a contract breaks this for its own messages, and for those only
while their worker owns no row: a row it owns is the one it claimed, because no
step but its claim makes it an owner.

`ClosedForGood` needs no run of its own: the abstract outbox changes a message
that was sent or dropped only by `Delete`, so it follows from
`ImplementsOutbox`, which `slack_delivery` checks. The same is true of
`SentIsDelivered` and `email_faults`.

`QueuedFirstIsReadFirst` is where two modules meet. Its hypothesis, with the
receipt of an attachment as `r` (which carries no `contract_id`, so that no
deletion takes it) and any reply to it as `m`, is `ReceiptComesFirst` of `SlackIntake`, where both are intents in the same table
and one is queued only after the other was; its conclusion is about the thread
that the sender of the attachment reads. Neither module shows it alone: the
intake does not know what is posted when, and the delivery does not know what
is queued when.

`SlackIntake_proofs`, `KnowledgeIndexing_proofs`, `Email_proofs`,
`Uploads_proofs`, `Signing_proofs` and `Accounts_proofs`, each from the one
assumption of its module, for any number of handlers, workers, events,
attachments, documents, pathnames, requests, signers, people and faults:

| theorem | statement | what makes it inductive |
|---|---|---|
| `IntakeInvariant`, `CompletedFileIsAccountedForHolds`, `ProcessedEventIsCompleteHolds`, `ReceiptComesFirstHolds` | the strengthening, and the three properties of `intake_faults` | `WorkersFit`: at each place of `_process_file` and `enqueue_local_file`, what has been queued, persisted and completed by the time a worker stands there, whoever did it; `Persisted`: what the broker or a reviewer has came out of the outbox |
| `TypeCorrect` (`SlackIntake`) | `Spec => []TypeOK` | `PaidFor`: every attempt of an event beyond `max_attempts` was paid for by a fault; `Counts`: an event whose lease is held has counted the attempt of its holder |
| `PromiseIsKept` (`SlackIntake`) | the safety half of `ImplementsPromise`: initial states and steps map to those of `ReviewPromise` | the strengthening of `IntakeInvariant` with `ReviewedIsClosed`: a review or failure is queued just when its execution is completed |
| `PublishedIsCarried` | a row marked published has a copy at the broker, or a contract worker that has begun with it or answered it | `CarriedInv`: so has the row that a worker is about to mark; a copy leaves the broker only for a worker, and a failed attempt puts the next one there first |
| `EnvelopeInvariant`, `EnvelopeIsStableHolds` | `Spec => []EnvelopeIsStable` | `Alone`: without slow workers the attachment in hand is leased to the worker; `OneRun` and `SameEnvelope`: then there is one metrics run, and what the worker builds is what is stored |
| `TypeCorrect` (`KnowledgeIndexing`), `RowsInvariant`, `ReadyHasChunksHolds` | `Spec => []TypeOK`, `Spec => []ReadyHasChunks` | `RowsInv`: a worker knows the row of its document, or one that went with the contract; documents, chunks and intents belong together |
| `CarriedInvariant`, `NothingForgottenHolds` | `Spec => []NothingForgotten` | `Carried`: an intent that is neither settled nor excused has a copy in a queue or a busy worker, and stays so while its contract is not deleted |
| `EventCorrect`, `CompletedEventIsHandledHolds`, `NothingLostQuietlyHolds` | the inbound half of `Email`; a completed event is handled; `Spec => []NothingLostQuietly` | `Passes`: at each place of a pass, what is still to do and what was published together are all attachments to review; a pass that closes has told the sender of the refused ones |
| `ThreadCorrect`, `SentIsDeliveredHolds`, `ReceiptComesFirstHolds` | the outbound half; `Spec => []SentIsDelivered`, `Spec => []ReceiptComesFirst` | `Thread`: the receipt has position 1 and everything else comes after it; `ReceiptSettled`: a worker holds a review only once the receipt is settled; `MarkedIsDelivered` for a worker whose row another one may hold |
| `OutboxIsImplemented` (`Email`) | `Spec => ImplementsOutbox` | `HeldHadItsTurn`: what a sender holds has nothing before it in its thread, also if its row was taken over since, unless that row was deleted; and the row of a message that had its turn goes only with every claim on it |
| `RepeatedReviewNeedsReasonHolds` | `Spec => []RepeatedReviewNeedsReason` | `Accounted`: jobs for an attachment + passes that may still publish one + whether the event can be claimed never exceed 1 + `reasons`; `AcceptedOnce` carries it over to the inbox |
| `UploadsCorrect`, `OneHolderHolds` | `Spec => []OneHolder` | `Carrying` and `Held`: the lease in Redis and the request that knows its id agree, and that request knows when it ran out |
| `ReservationIsPaidHolds` | `Spec => []ReservationIsPaid` | `NothingOwed` adds that the charge and the reservation come from one script |
| `ConsumedIsQueuedHolds` | a pathname closed to retries has a job | `MarkedIsQueued` |
| `RepeatedJobNeedsReasonHolds` | `Spec => []RepeatedJobNeedsReason` | `Accounted`: jobs published + requests that may publish or give the pathname back + whether another may take it up never exceed 1 + `reasons` |
| `UnfinishedHasJobHolds` | `Spec => []UnfinishedHasJob` | the property with `Carrying` |
| `DocumentIsKeptHolds` | `Spec => []DocumentIsKept` | `ObjectsPresent`: also a request that is about to enter a contract has its object among those that can be found or are excused |
| `SigningInductive`, `SigningCorrect`, `FlagFollowsStatusHolds`, `OneActiveRequestHolds`, `RepeatsNeedOverlapHolds` | the strengthening, and the three properties of the run | `Reserved`, `Coming`, `Rooted`, `Addressed`: rows that a handler is about to write are nobody else's; `Apart` and `Informed`: what a handler that is alone has read is still so; `Settled`: a request nobody will look at again has its flag |
| `DeletionLeavesNothingHolds` | `Spec => []DeletionLeavesNothing` | `ReadForDelete`: what the deletion has read is all there is, unless rows were committed beside it (`crossed`), which stay |
| `AccountsInductive`, `AccountsCorrect`, `AnswersStayTrueHolds`, `AdmittedStayAdmittedHolds`, `OneAccountPerIdentityHolds`, `BindingsStickHolds` | the strengthening, and its consequences | `Located`: what a handler found out about its account is still so when it writes; `KnownIsBound`; `OwnWorkspace`: no two people share one |
| `DisclosureIsRecordedHolds` | `Spec => []DisclosureIsRecorded` | `Covered`: answers given + handlers that are about to answer never exceed the events |

The two `Accounted` invariants and `Covered` show why a count over all handlers
is needed: the property bounds what has happened, and a step that adds to it
must have been paid for by an earlier one, of the same handler or another.
`Settled` and `Informed` show the other pattern: what was read before a
transaction is no longer what the tables say, and the invariant names the
handlers for which it still is.

The refinement proofs go action by action: for each action of the detailed
module a lemma names the abstract action it is (`ClaimIsTake`, `MarkIsSend`,
`RescheduleIsDrop`, `DeleteContractIsDelete`, `PersistIsAccept`,
`ConcludeIsConclude`, ...), and the rest are shown to leave the abstract state
alone. The one step that takes an invariant and not only the action is the
same in all of them: that the guard of the abstract action holds, although the
code looks at it only in an earlier transaction.

Only model-checked: all liveness (`ImplementsPromise` of both modules in its
fairness part, `EventSettles`, `RepliesSettle`, `IndexSettles`,
`OutboxSettles`), because the prover does not handle fairness and `ENABLED`.
Every invariant and every action property that a run checks, and
`ImplementsOutbox`, are proved.

## 5. Where the code does not do what its comments say

* `services/contract_processing.py:169-171`: "In particular, never reset an
  actively processed contract to QUEUED". `intake_reset` shows a second intake
  worker that read "no execution" before the first one's job was consumed, and
  sets the contract back to QUEUED while it is being parsed.

## 6. Known limits

Behaviours of the code which the models contain and the properties except by
name, or which no model contains. They are recorded here so that nobody takes
the properties for more than they say.

In the models:

* A contract worker whose lease lapsed while it was alive, and was taken over,
  goes on writing contract state in `review_stored_contract` until its next
  renewal (`workers/contract_worker.py:156`), although the comment at `:189`
  wants a stale duplicate to mutate neither contract nor replies; and it may queue a failure after the newer
  owner queued the review, if it lost the lease between its renewal and its
  reply.
* A second intake pass over a submission that read its execution before the
  worker finished sets the contract to QUEUED afterwards
  (`services/contract_processing.py:211`) and publishes nothing: the contract
  stays QUEUED, cannot be deleted and shows as running, until something else
  writes its status. `QuietContractIsSettled` names it `LeftQueued`.
* A busy or completed duplicate whose publish or acknowledgement raises inside
  the try block (`workers/contract_worker.py:147`) takes the except branch,
  and so does a `complete_review_execution` that raises at the last attempt
  (`:174`): a failure is queued for a submission that has its review.
* An index row is marked failed at the first failed attempt and goes back to
  "indexing" with the next one, while `docs/CHAT_OPERATIONS.md:101-103` speaks of
  failure after all three.
* The text of a contract that was deleted while its index was being built may
  be stored after the deletion (`db/repositories/knowledge.py:98`), and is then
  nobody's.
* `retry_failed` takes an index off the record that fails between its read and
  its update (`db/repositories/knowledge_outbox.py:275`).
* A completed signing request can become active again: a signer that arrives
  late reopens it, and the flag follows only with the next event.
* Requests, signers and events that a handler commits while a deletion of the
  contract is open, or after it, stay (`db/repositories/signing.py:70`):
  `DeletionLeavesNothing` excludes them by `crossed`.
* An email whose handler died after its claim is answered "processing" when it
  is delivered again, and not delivered after that (`db/repositories/inbound_email_events.py:81`).
* Two uploads of the same bytes that look before either inserts become two
  contracts (`db/repositories/contracts.py:54`).
* An `enqueue_outbound` that commits after its installation was deactivated
  leaves a row that is leased every two minutes and never sent.
* An upload whose audit event cannot be written after the publish
  (`services/contract_processing.py:260`) fails and releases its pathname
  (`api/routes.py:715`): the retry queues a second review job.

Outside them:

* The deletion of a contract as far as it reaches `slack_review_job_outbox`
  (`db/repositories/contracts.py:225`), and the row of the contract under a
  review worker that has written its status and not yet acknowledged: neither
  `SlackIntake` nor `ReviewExecution` deletes contracts.
* A service factory that raises at every attempt dead-letters a job with no
  contract marked failed (`workers/contract_worker.py:137`).
* Jobs from email and the browser have no lease: a copy that the broker takes
  back runs beside the first one (`workers/contract_worker.py:138`).
* The consume loop asks whether its connection is closed, and not whether its
  channel is (`workers/queue.py:434`). `Disconnect` closes the channel of one
  delivery, after which the worker consumes again, as it does after a restart.
* A metrics run that could not be inserted, or was inserted twice by an overrun
  lease, can make a retry build another envelope
  (`services/contract_processing.py:566`, `db/repositories/slack.py:515`); the
  model has both, `EnvelopeIsStable` leaves them out.
* A download that fails at a second attempt rejects an attachment whose first
  attempt had persisted the job (`workers/slack_worker.py:390`).
* A `tokens_revoked` event that arrives after the app was installed again
  (`services/outbound_slack_delivery.py:68`).

## 7. Not modelled, and why

* Parsing, OCR, prompts, the review model: computation and external calls;
  their outcomes are nondeterministic choices (`NoText`, `ReviewRaises`,
  `Finalize`).
* Contract chat (`services/chat_agent.py`, `services/chat_runtime.py`,
  `db/repositories/chat.py`): a request, a model call and an insert, without a
  worker, a lease or a retry.
* Signature checks, OAuth state, listings, display names, rendering of
  messages: no state that a property here tells apart.
* Of the limiter: its unconfigured and "disabled" modes and the policies other
  than the review's; the token buckets of a policy are one allowance.
* SMTP as the email provider: it knows no idempotency keys, so that a lost
  answer sends a message twice.
* `review_local_file`, the synchronous path of the CLI, which has no queue.
* Stages and outcomes of a metrics run: only the run's row and its job id
  matter to anything else.
* Foreign keys: the tables that the modules treat have none between them.

## 8. Plan

Done, in this order: `ReviewExecution` with `ReviewPromise`, `SlackIntake`,
`SlackDelivery`, `KnowledgeIndexing`, `Signing`, `Accounts`, `Email` and
`Uploads`, each of them with its proofs; then `OrderedOutbox`, and the
refinements of both abstract specifications. Next:

1. An abstract specification of the index (an intent is settled once, a ready
   index is that of its document), and `KnowledgeIndexing` shown to implement
   it; the same for the reservations of `Uploads`.
2. The stages of a metrics run, and the conversations of the contract chat.
3. Jobs from email and the browser running twice beside each other, which
   `QuietContractIsSettled` leaves out when channels close.
