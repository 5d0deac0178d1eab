-------------------------- MODULE KnowledgeIndexing --------------------------
(***************************************************************************)
(* The search index of reviewed contracts: the outbox of index intents that *)
(* is written with the review, the delivery workers that publish it, the   *)
(* RabbitMQ queue of index jobs, the index workers that consume it, the    *)
(* operator's commands, and the deletion of a contract.                    *)
(*                                                                         *)
(* Index jobs are not leased: copies of a job may be worked on side by     *)
(* side, and every step is made for the index row by its id alone.  Outbox *)
(* rows are leased without a token, so who marks a row is not asked.       *)
(***************************************************************************)
EXTENDS Naturals, FiniteSets

CONSTANTS
    Docs,          \* contracts, each in its current version
    Workers,       \* index workers
    Senders,       \* delivery workers, for their knowledge dispatcher
    MaxAttempts,   \* KnowledgeQueueTopology.max_attempts
    MaxPublish,    \* max_attempts of KnowledgeOutboxDispatcher
    MaxCommands,   \* bound: commands an operator runs
    Faults,        \* which FaultKinds may occur, each once
    MaxFaults,     \* how many of them
    NoDoc

(* crash: a worker, a sender or an operator's command dies.  disconnect:   *)
(* the broker drops a consumer channel and takes its copy back.  outage: a *)
(* database call of an index worker raises.  slow: a sender overruns its   *)
(* lease of 120 seconds.  unconfirmed: the broker accepts a publish and    *)
(* the confirmation is lost.                                               *)
FaultKinds == {"crash", "disconnect", "outage", "slow", "unconfirmed"}

ASSUME IndexingAssumption ==
    /\ MaxAttempts \in Nat \ {0}
    /\ MaxPublish \in Nat \ {0}
    /\ MaxCommands \in Nat
    /\ MaxFaults \in Nat
    /\ Faults \subseteq FaultKinds
    /\ NoDoc \notin Docs

VARIABLES
    contract,  \* "unreviewed", "reviewed" or "deleted"
    outbox,    \* table knowledge_index_outbox
    index,     \* table knowledge_indexes: id and status
    chunks,    \* the index whose chunks are in knowledge_chunks, 0 for none
    ready,     \* [Copies -> Nat]: copies in contract.knowledge-index.q
    delayed,   \* [Copies -> Nat]: copies in the TTL retry queue
    dead,      \* documents with a copy in the dead-letter queue
    work,      \* what each index worker is doing
    send,      \* what each sender is doing
    operator,  \* the command that runs
    commands,  \* commands an operator may still run
    mishaps    \* the faults that have occurred

vars == <<contract, outbox, index, chunks, ready, delayed, dead,
          work, send, operator, commands, mishaps>>

broker == <<ready, delayed, dead>>
knowledge == <<index, chunks>>
others == <<operator, commands>>

-----------------------------------------------------------------------------
(* Types *)

Attempts == 1..MaxAttempts
Copies == Docs \X Attempts

\* Row ids are fresh: a document has one index row until it is deleted, and at
\* most one that is inserted after that.
IndexIds == 1..2
FreshId(v) == IF contract[v] = "deleted" THEN 2 ELSE 1

Row == [status: {"absent", "pending", "publishing", "published", "failed"},
        attempts: 0..MaxPublish, due: BOOLEAN, lapsed: BOOLEAN]
Index == [id: {0} \cup IndexIds, status: {"absent", "pending", "indexing", "ready", "failed"}]

NoRow == [status |-> "absent", attempts |-> 0, due |-> FALSE, lapsed |-> FALSE]
NewRow == [status |-> "pending", attempts |-> 0, due |-> TRUE, lapsed |-> FALSE]
NoIndex == [id |-> 0, status |-> "absent"]

\* The places of _process_delivery.  replace_index repeats require, create and
\* mark: that is its round 2.
InTry == {"load", "require", "create", "mark", "embed", "chunks", "ready"}
InHandler == {"markFailed", "record", "retry"}
Places == InTry \cup InHandler \cup {"idle", "clear", "ack"}

Work == [pc: Places, doc: Docs \cup {NoDoc}, attempt: 0..MaxAttempts,
         up: BOOLEAN,                  \* the channel of the delivery is open
         round: 1..2,
         index: {0} \cup IndexIds,     \* index_id, for the handler
         target: {0} \cup IndexIds]    \* the row this round works on

Idle == [pc |-> "idle", doc |-> NoDoc, attempt |-> 0, up |-> FALSE, round |-> 1,
         index |-> 0, target |-> 0]

Send == [pc: {"idle", "publish", "mark", "unmark"}, doc: Docs \cup {NoDoc},
         attempts: 0..MaxPublish, slow: BOOLEAN]
Waiting == [pc |-> "idle", doc |-> NoDoc, attempts |-> 0, slow |-> FALSE]

TypeOK ==
    /\ contract \in [Docs -> {"unreviewed", "reviewed", "deleted"}]
    /\ outbox \in [Docs -> Row]
    /\ index \in [Docs -> Index]
    /\ chunks \in [Docs -> {0} \cup IndexIds]
    /\ ready \in [Copies -> Nat] /\ delayed \in [Copies -> Nat]
    /\ dead \subseteq Docs
    /\ work \in [Workers -> Work]
    /\ \A w \in Workers : work[w].pc # "idle" => work[w].doc \in Docs /\ work[w].attempt \in Attempts
    /\ send \in [Senders -> Send]
    /\ \A s \in Senders : send[s].pc # "idle" => send[s].doc \in Docs /\ send[s].attempts > 0
    /\ operator \in [pc: {"idle", "reset", "force"}, docs: SUBSET Docs]
    /\ commands \in 0..MaxCommands
    /\ mishaps \subseteq Faults

Init ==
    /\ contract = [v \in Docs |-> "unreviewed"]
    /\ outbox = [v \in Docs |-> NoRow]
    /\ index = [v \in Docs |-> NoIndex]
    /\ chunks = [v \in Docs |-> 0]
    /\ ready = [c \in Copies |-> 0]
    /\ delayed = [c \in Copies |-> 0]
    /\ dead = {}
    /\ work = [w \in Workers |-> Idle]
    /\ send = [s \in Senders |-> Waiting]
    /\ operator = [pc |-> "idle", docs |-> {}]
    /\ commands = MaxCommands
    /\ mishaps = {}

-----------------------------------------------------------------------------
(* Vocabulary *)

Fault(kind) ==
    /\ kind \in Faults \ mishaps
    /\ Cardinality(mishaps) < MaxFaults
    /\ mishaps' = mishaps \cup {kind}

At(w, pc) == work[w].pc = pc
Doc(w) == work[w].doc
Goto(w, pc) == work' = [work EXCEPT ![w].pc = pc]
Finish(w) == work' = [work EXCEPT ![w] = Idle]

Copy(w) == <<work[w].doc, work[w].attempt>>
LastAttempt(w) == work[w].attempt >= MaxAttempts

\* Mutant of SetStatus: the row is found by the document and not by its id.
SetStatusOfDocument(v, id, s) ==
    index' = IF index[v].id # 0 THEN [index EXCEPT ![v].status = s] ELSE index

\* _set_status: an UPDATE that finds no row with the id changes nothing.
SetStatus(v, id, s) == index' = IF index[v].id = id THEN [index EXCEPT ![v].status = s] ELSE index

\* The except block: what there is to mark depends on how far the try block got.
HandlerOf(w) == IF work[w].index # 0 THEN "markFailed" ELSE "record"

\* Mutant of Requeue: deliveries are acknowledged when they are made.
RequeueNothing(w) == UNCHANGED ready

\* The broker takes back what a lost or nacked delivery held.
Requeue(w) ==
    IF work[w].up THEN ready' = [ready EXCEPT ![Copy(w)] = @ + 1] ELSE UNCHANGED ready
Escape(w) == Requeue(w) /\ Finish(w)

-----------------------------------------------------------------------------
(* Contracts *)

\* finalize_contract_review inserts the intent with the review.
Review(v) ==
    /\ contract[v] = "unreviewed"
    /\ contract' = [contract EXCEPT ![v] = "reviewed"]
    /\ outbox' = [outbox EXCEPT ![v] = NewRow]
    /\ UNCHANGED <<knowledge, broker, work, send, others, mishaps>>

\* delete_contract removes chunks, intent and index in one transaction.
Delete(v) ==
    /\ contract[v] = "reviewed"
    /\ contract' = [contract EXCEPT ![v] = "deleted"]
    /\ outbox' = [outbox EXCEPT ![v] = NoRow]
    /\ index' = [index EXCEPT ![v] = NoIndex]
    /\ chunks' = [chunks EXCEPT ![v] = 0]
    /\ UNCHANGED <<broker, work, send, others, mishaps>>

-----------------------------------------------------------------------------
(* KnowledgeOutboxDispatcher.drain_once *)

Claimable(v) ==
    \/ outbox[v].status = "pending" /\ outbox[v].due
    \/ outbox[v].status = "publishing" /\ outbox[v].lapsed

\* claim_due: at most 25 rows, which are then worked through one by one.
\* Attempts past the last are not told apart.
Claim(s, v) ==
    LET attempts == IF outbox[v].attempts < MaxPublish THEN outbox[v].attempts + 1 ELSE MaxPublish IN
    /\ send[s].pc = "idle"
    /\ Claimable(v)
    /\ outbox' = [outbox EXCEPT ![v].status = "publishing", ![v].attempts = attempts, ![v].lapsed = FALSE]
    /\ send' = [send EXCEPT ![s] = [pc |-> "publish", doc |-> v, attempts |-> attempts, slow |-> FALSE]]
    /\ UNCHANGED <<contract, knowledge, broker, work, others, mishaps>>

Publish(s) ==
    /\ send[s].pc = "publish"
    /\ ready' = [ready EXCEPT ![<<send[s].doc, 1>>] = @ + 1]
    /\ send' = [send EXCEPT ![s].pc = "mark"]
    /\ UNCHANGED <<contract, outbox, knowledge, delayed, dead, work, others, mishaps>>

\* No connection to the broker.
PublishFails(s) ==
    /\ send[s].pc = "publish"
    /\ send' = [send EXCEPT ![s].pc = "unmark"]
    /\ UNCHANGED <<contract, outbox, knowledge, broker, work, others, mishaps>>

PublishUnconfirmed(s) ==
    /\ send[s].pc = "publish"
    /\ Fault("unconfirmed")
    /\ ready' = [ready EXCEPT ![<<send[s].doc, 1>>] = @ + 1]
    /\ send' = [send EXCEPT ![s].pc = "unmark"]
    /\ UNCHANGED <<contract, outbox, knowledge, delayed, dead, work, others>>

\* mark_published
Mark(s) ==
    LET v == send[s].doc IN
    /\ send[s].pc = "mark"
    /\ outbox' = IF outbox[v].status = "publishing"
                 THEN [outbox EXCEPT ![v].status = "published"] ELSE outbox
    /\ send' = [send EXCEPT ![s] = Waiting]
    /\ UNCHANGED <<contract, knowledge, broker, work, others, mishaps>>

\* Mutant of Unmark: the attempts are not limited.
UnmarkForever(s) ==
    LET v == send[s].doc IN
    /\ send[s].pc = "unmark"
    /\ outbox' = IF outbox[v].status = "publishing"
                 THEN [outbox EXCEPT ![v].status = "pending", ![v].due = FALSE] ELSE outbox
    /\ send' = [send EXCEPT ![s] = Waiting]
    /\ UNCHANGED <<contract, knowledge, broker, work, others, mishaps>>

\* reschedule
Unmark(s) ==
    LET v == send[s].doc
        s2 == IF send[s].attempts >= MaxPublish THEN "failed" ELSE "pending" IN
    /\ send[s].pc = "unmark"
    /\ outbox' = IF outbox[v].status = "publishing"
                 THEN [outbox EXCEPT ![v].status = s2, ![v].due = FALSE] ELSE outbox
    /\ send' = [send EXCEPT ![s] = Waiting]
    /\ UNCHANGED <<contract, knowledge, broker, work, others, mishaps>>

\* A sender dies, or the database does not answer it: the rest of the batch
\* keeps its lease until that runs out.
SenderCrash(s) ==
    /\ send[s].pc # "idle"
    /\ Fault("crash")
    /\ send' = [send EXCEPT ![s] = Waiting]
    /\ UNCHANGED <<contract, outbox, knowledge, broker, work, others>>

Slow(s) ==
    /\ send[s].pc # "idle"
    /\ Fault("slow")
    /\ send' = [send EXCEPT ![s].slow = TRUE]
    /\ UNCHANGED <<contract, outbox, knowledge, broker, work, others>>

Held(v) == \E s \in Senders : send[s].doc = v /\ ~send[s].slow

Lapse(v) ==
    /\ outbox[v].status = "publishing" /\ ~outbox[v].lapsed /\ ~Held(v)
    /\ outbox' = [outbox EXCEPT ![v].lapsed = TRUE]
    /\ UNCHANGED <<contract, knowledge, broker, work, send, others, mishaps>>

ComesDue(v) ==
    /\ outbox[v].status = "pending" /\ ~outbox[v].due
    /\ outbox' = [outbox EXCEPT ![v].due = TRUE]
    /\ UNCHANGED <<contract, knowledge, broker, work, send, others, mishaps>>

-----------------------------------------------------------------------------
(* The queue of index jobs *)

RetryDue(v, a) ==
    /\ delayed[<<v, a>>] > 0
    /\ delayed' = [delayed EXCEPT ![<<v, a>>] = @ - 1]
    /\ ready' = [ready EXCEPT ![<<v, a>>] = @ + 1]
    /\ UNCHANGED <<contract, outbox, knowledge, dead, work, send, others, mishaps>>

Deliver(w, v, a) ==
    /\ At(w, "idle")
    /\ ready[<<v, a>>] > 0
    /\ ready' = [ready EXCEPT ![<<v, a>>] = @ - 1]
    /\ work' = [work EXCEPT ![w] = [Idle EXCEPT !.pc = "load", !.doc = v, !.attempt = a, !.up = TRUE]]
    /\ UNCHANGED <<contract, outbox, knowledge, delayed, dead, send, others, mishaps>>

-----------------------------------------------------------------------------
(* KnowledgeIndexWorker._process_delivery: the try block *)

\* connect raises: there is nothing to record the failure with.
ConnectFails(w) ==
    /\ At(w, "load")
    /\ Fault("outage")
    /\ Goto(w, "retry")
    /\ UNCHANGED <<contract, outbox, knowledge, broker, send, others>>

\* connect and _load_index_inputs: a deleted contract cancels the job.
Load(w) ==
    /\ At(w, "load")
    /\ Goto(w, IF contract[Doc(w)] = "deleted" THEN "ack" ELSE "require")
    /\ UNCHANGED <<contract, outbox, knowledge, broker, send, others, mishaps>>

\* create_or_get_index first asks for the contract and its version ...
Require(w) ==
    /\ At(w, "require")
    /\ Goto(w, IF contract[Doc(w)] = "deleted" THEN HandlerOf(w) ELSE "create")
    /\ UNCHANGED <<contract, outbox, knowledge, broker, send, others, mishaps>>

\* ... and then inserts the row or finds it: two statements.
Create(w) ==
    LET v == Doc(w)
        id == IF index[v].id = 0 THEN FreshId(v) ELSE index[v].id IN
    /\ At(w, "create")
    /\ index' = IF index[v].id = 0 THEN [index EXCEPT ![v] = [id |-> id, status |-> "pending"]] ELSE index
    /\ work' = [work EXCEPT ![w].pc = "mark", ![w].target = id,
                            ![w].index = IF work[w].round = 1 THEN id ELSE @]
    /\ UNCHANGED <<contract, outbox, chunks, broker, send, others, mishaps>>

\* mark_indexing
MarkIndexing(w) ==
    /\ At(w, "mark")
    /\ SetStatus(Doc(w), work[w].target, "indexing")
    /\ Goto(w, IF work[w].round = 1 THEN "embed" ELSE "chunks")
    /\ UNCHANGED <<contract, outbox, chunks, broker, send, others, mishaps>>

\* index_contract chunks and embeds, and replace_index asks for the contract again.
Embed(w) ==
    /\ At(w, "embed")
    /\ work' = [work EXCEPT ![w].round = 2,
                            ![w].pc = IF contract[Doc(w)] = "deleted" THEN HandlerOf(w) ELSE "create"]
    /\ UNCHANGED <<contract, outbox, knowledge, broker, send, others, mishaps>>

\* The provider fails, or returns vectors of the wrong number or length.
EmbedFails(w) ==
    /\ At(w, "embed")
    /\ Goto(w, HandlerOf(w))
    /\ UNCHANGED <<contract, outbox, knowledge, broker, send, others, mishaps>>

\* replace_chunks, one transaction.
ReplaceChunks(w) ==
    LET v == Doc(w) IN
    /\ At(w, "chunks")
    /\ IF index[v].id = work[w].target
       THEN /\ chunks' = [chunks EXCEPT ![v] = work[w].target]
            /\ SetStatus(v, work[w].target, "indexing")
            /\ Goto(w, "ready")
       ELSE Goto(w, HandlerOf(w)) /\ UNCHANGED knowledge
    /\ UNCHANGED <<contract, outbox, broker, send, others, mishaps>>

\* mark_ready
MarkReady(w) ==
    /\ At(w, "ready")
    /\ SetStatus(Doc(w), work[w].target, "ready")
    /\ Goto(w, "clear")
    /\ UNCHANGED <<contract, outbox, chunks, broker, send, others, mishaps>>

\* clear_consumer_error changes nothing but the text of the last error.
Clear(w) ==
    /\ At(w, "clear")
    /\ Goto(w, "ack")
    /\ UNCHANGED <<contract, outbox, knowledge, broker, send, others, mishaps>>

\* On a closed channel this raises out of the callback, whose nack fails too:
\* the broker has the copy already.
Ack(w) ==
    /\ At(w, "ack")
    /\ Finish(w)
    /\ UNCHANGED <<contract, outbox, knowledge, broker, send, others, mishaps>>

\* A database call raises.  When it was the connection that was lost, the
\* handler's calls raise as well.
Outage(w) ==
    /\ work[w].pc \in InTry
    /\ Fault("outage")
    /\ \/ Goto(w, HandlerOf(w)) /\ UNCHANGED ready
       \/ Escape(w)
    /\ UNCHANGED <<contract, outbox, knowledge, delayed, dead, send, others>>

-----------------------------------------------------------------------------
(* KnowledgeIndexWorker._process_delivery: the except block *)

MarkFailed(w) ==
    /\ At(w, "markFailed")
    /\ SetStatus(Doc(w), work[w].index, "failed")
    /\ Goto(w, "record")
    /\ UNCHANGED <<contract, outbox, chunks, broker, send, others, mishaps>>

\* record_consumer_failure; a row inserted after the deletion has another id.
Record(w) ==
    LET v == Doc(w) IN
    /\ At(w, "record")
    /\ outbox' = IF LastAttempt(w) /\ contract[v] = "reviewed" /\ outbox[v].status = "published"
                 THEN [outbox EXCEPT ![v].status = "failed"] ELSE outbox
    /\ Goto(w, "retry")
    /\ UNCHANGED <<contract, knowledge, broker, send, others, mishaps>>

\* Outside the try block an exception leaves the callback, which nacks.
LateOutage(w) ==
    /\ work[w].pc \in {"markFailed", "record", "clear"}
    /\ Fault("outage")
    /\ Escape(w)
    /\ UNCHANGED <<contract, outbox, knowledge, delayed, dead, send, others>>

\* The copy retry() publishes: the next attempt, or the dead letter.
PutBack(w) ==
    IF LastAttempt(w)
    THEN dead' = dead \cup {Doc(w)} /\ UNCHANGED delayed
    ELSE /\ delayed' = [delayed EXCEPT ![<<Doc(w), work[w].attempt + 1>>] = @ + 1]
         /\ UNCHANGED dead

\* retry() or dead_letter(): publish, confirmed, and then acknowledge.
Retry(w) ==
    /\ At(w, "retry") /\ work[w].up
    /\ PutBack(w)
    /\ Goto(w, "ack")
    /\ UNCHANGED <<contract, outbox, knowledge, ready, send, others, mishaps>>

RetryFails(w) ==
    /\ At(w, "retry") /\ ~work[w].up
    /\ Finish(w)
    /\ UNCHANGED <<contract, outbox, knowledge, broker, send, others, mishaps>>

RetryUnconfirmed(w) ==
    /\ At(w, "retry") /\ work[w].up
    /\ Fault("unconfirmed")
    /\ PutBack(w)
    /\ Escape(w)
    /\ UNCHANGED <<contract, outbox, knowledge, send, others>>

Crash(w) ==
    /\ ~At(w, "idle")
    /\ Fault("crash")
    /\ Escape(w)
    /\ UNCHANGED <<contract, outbox, knowledge, delayed, dead, send, others>>

Disconnect(w) ==
    /\ ~At(w, "idle") /\ work[w].up
    /\ Fault("disconnect")
    /\ Requeue(w)
    /\ work' = [work EXCEPT ![w].up = FALSE]
    /\ UNCHANGED <<contract, outbox, knowledge, delayed, dead, send, others>>

-----------------------------------------------------------------------------
(* The operator: knowledge-backfill and knowledge-retry-failed *)

Command(pc, docs) ==
    /\ operator.pc = "idle" /\ commands > 0
    /\ commands' = commands - 1
    /\ operator' = [pc |-> pc, docs |-> docs]
    /\ UNCHANGED <<contract, outbox, knowledge, broker, work, send, mishaps>>

\* backfill reads which reviewed contracts have no ready index.
Backfill == Command("force", {v \in Docs : contract[v] = "reviewed" /\ index[v].status # "ready"})

\* retry_failed reads the failed indexes and the failed intents,
RetryFailed ==
    Command("reset", {v \in Docs : index[v].status = "failed" \/ outbox[v].status = "failed"})

\* sets every index that is failed by then to pending,
Reset ==
    /\ operator.pc = "reset"
    /\ index' = [v \in Docs |-> IF index[v].status = "failed"
                                THEN [index[v] EXCEPT !.status = "pending"] ELSE index[v]]
    /\ operator' = [operator EXCEPT !.pc = "force"]
    /\ UNCHANGED <<contract, outbox, chunks, broker, work, send, commands, mishaps>>

\* and forces an intent for each it read (enqueue_intent, force=True).
EnqueueIntent(v) ==
    /\ operator.pc = "force" /\ v \in operator.docs
    /\ outbox' = [outbox EXCEPT ![v] = NewRow]
    /\ operator' = [operator EXCEPT !.docs = @ \ {v}]
    /\ UNCHANGED <<contract, knowledge, broker, work, send, commands, mishaps>>

CommandEnds ==
    /\ operator.pc = "force" /\ operator.docs = {}
    /\ operator' = [operator EXCEPT !.pc = "idle"]
    /\ UNCHANGED <<contract, outbox, knowledge, broker, work, send, commands, mishaps>>

Interrupt ==
    /\ operator.pc # "idle"
    /\ Fault("crash")
    /\ operator' = [pc |-> "idle", docs |-> {}]
    /\ UNCHANGED <<contract, outbox, knowledge, broker, work, send, commands>>

-----------------------------------------------------------------------------

Dispatch(s) ==
    \/ \E v \in Docs : Claim(s, v)
    \/ Publish(s) \/ PublishFails(s) \/ Mark(s) \/ Unmark(s)

IndexStep(w) ==
    \/ Load(w) \/ Require(w) \/ Create(w) \/ MarkIndexing(w) \/ Embed(w)
    \/ EmbedFails(w) \/ ReplaceChunks(w) \/ MarkReady(w) \/ Clear(w) \/ Ack(w)
    \/ MarkFailed(w) \/ Record(w) \/ Retry(w) \/ RetryFails(w)

IndexFault(w) ==
    ConnectFails(w) \/ Outage(w) \/ LateOutage(w) \/ RetryUnconfirmed(w) \/ Crash(w) \/ Disconnect(w)

Operate == Reset \/ (\E v \in Docs : EnqueueIntent(v)) \/ CommandEnds

Next ==
    \/ \E v \in Docs : Review(v) \/ Delete(v) \/ Lapse(v) \/ ComesDue(v)
    \/ \E v \in Docs, a \in Attempts : RetryDue(v, a) \/ \E w \in Workers : Deliver(w, v, a)
    \/ \E s \in Senders : Dispatch(s) \/ PublishUnconfirmed(s) \/ SenderCrash(s) \/ Slow(s)
    \/ \E w \in Workers : IndexStep(w) \/ IndexFault(w)
    \/ Backfill \/ RetryFailed \/ Operate \/ Interrupt

Spec == Init /\ [][Next]_vars

\* Senders poll for ever, index workers go on with what they have, RabbitMQ
\* delivers the head of the queue to a free consumer, time passes, and a
\* command that runs goes on.  Nobody has to review, delete or run a command.
Fairness ==
    /\ \A s \in Senders : WF_vars(Dispatch(s))
    /\ \A w \in Workers : WF_vars(IndexStep(w))
    /\ \A v \in Docs : WF_vars(Lapse(v)) /\ WF_vars(ComesDue(v))
    /\ \A v \in Docs, a \in Attempts :
          /\ WF_vars(RetryDue(v, a))
          /\ SF_vars(\E w \in Workers : Deliver(w, v, a))
    /\ WF_vars(Operate)

FairSpec == Spec /\ Fairness

-----------------------------------------------------------------------------
(* Properties *)

InFlight(v) ==
    \/ \E a \in Attempts : ready[<<v, a>>] + delayed[<<v, a>>] > 0
    \/ \E w \in Workers : Doc(w) = v /\ ~At(w, "ack")
    \/ v \in operator.docs

\* A worker whose channel was closed goes on beside the copy it lost.  When it
\* dies as well, an index that the other copy completed may stay "indexing".
Abandoned == "disconnect" \in mishaps /\ mishaps \cap {"crash", "outage"} # {}

\* retry_failed takes off the record what failed between its read and its
\* update, and everything it read when it dies after the update.
Reopened(v) == index[v].status = "pending" /\ commands < MaxCommands

\* Without a database there is nothing to record the last failure in.
Unrecorded(v) == v \in dead /\ "outage" \in mishaps

(* An index that search reads, one that is ready, has its chunks, and they  *)
(* are its own: workers on copies of a job, and those that come back after  *)
(* a deletion, mark by the id of the row (_set_status, replace_chunks).     *)
ReadyHasChunks == \A v \in Docs : index[v].status = "ready" => chunks[v] = index[v].id

(* The intent is committed with the review (finalize_contract_review), so a *)
(* reviewed contract is indexed, recorded as failed where the operator's    *)
(* commands look for it, or still being worked on.                          *)
NothingForgotten ==
    \A v \in Docs :
        \/ contract[v] # "reviewed" \/ Abandoned \/ Unrecorded(v) \/ Reopened(v)
        \/ index[v].status \in {"ready", "failed"}
        \/ outbox[v].status \in {"pending", "publishing", "failed"}
        \/ InFlight(v)

(* Every reviewed contract ends up with an index that is ready, or with a   *)
(* failure on record (drain_once, retry, record_consumer_failure).          *)
IndexSettles ==
    \A v \in Docs : <>[](\/ contract[v] # "reviewed" \/ Abandoned \/ Unrecorded(v) \/ Reopened(v)
                         \/ index[v].status \in {"ready", "failed"}
                         \/ outbox[v].status = "failed")

=============================================================================
