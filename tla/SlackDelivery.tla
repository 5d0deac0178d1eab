---------------------------- MODULE SlackDelivery ----------------------------
(***************************************************************************)
(* Slack replies on their way out: the outbound_slack_outbox of one Slack  *)
(* installation, the delivery workers that drain it, and the connection    *)
(* and disconnection of the installation, whose bot token the workers read *)
(* before they post and whose loss they learn from Slack's answer; and the *)
(* deletion of contracts, which takes the rows of their replies along.     *)
(*                                                                         *)
(* Each action is one transaction or one call of Slack's Web API, so a     *)
(* lease, a token or an installation may be stale when it is used.         *)
(***************************************************************************)
EXTENDS Naturals, FiniteSets

CONSTANTS
    Messages,       \* idempotency keys of outbound intents
    Threads,
    ThreadOf,       \* channel_id and thread_ts of an intent
    Contracts,
    ContractOf,     \* contract_id of an intent
    Workers,        \* delivery workers
    MaxAttempts,    \* max_attempts of OutboundSlackDeliveryService
    MaxTokens,      \* bound: bot tokens Slack issues
    Faults,         \* which FaultKinds may occur, each once
    MaxFaults,      \* bound: faults, deletions and new tokens together
    NoMessage,
    NoWorker,
    NoContract      \* the contract of receipts and other intents without one

(* crash: a delivery worker dies.  slow: a lease of 120 seconds runs out   *)
(* under a worker that still works.  timeout: Slack accepts a message and  *)
(* the answer is lost.  uninstall: the app is removed on Slack's side.     *)
(* reinstall: the installation is connected while it is being              *)
(* disconnected.  overlap: enqueue_outbound sees the installation active   *)
(* and commits after the transaction that deactivated it.                  *)
FaultKinds == {"crash", "slow", "timeout", "uninstall", "reinstall", "overlap"}

ASSUME DeliveryAssumption ==
    /\ ThreadOf \in [Messages -> Threads]
    /\ ContractOf \in [Messages -> Contracts \cup {NoContract}]
    /\ MaxAttempts \in Nat \ {0}
    /\ MaxTokens \in Nat \ {0}
    /\ MaxFaults \in Nat
    /\ Faults \subseteq FaultKinds
    /\ NoMessage \notin Messages /\ NoWorker \notin Workers /\ NoContract \notin Contracts

VARIABLES
    row,       \* table outbound_slack_outbox
    install,   \* the row of slack_installations: status and bot token
    leaving,   \* a disconnect request revoked the token, not yet the row
    valid,     \* tokens Slack accepts
    posted,    \* messages Slack accepted; client_msg_id, the id of the row,
               \* makes repeats harmless
    deleted,   \* contracts that were deleted
    work,      \* what each delivery worker is doing
    mishaps    \* the faults that have occurred

vars == <<row, install, leaving, valid, posted, deleted, work, mishaps>>

-----------------------------------------------------------------------------
(* Types *)

Tokens == 1..MaxTokens
OpenStatuses == {"pending", "sending"}
ClosedStatuses == {"sent", "failed"}

Row == [status: {"absent"} \cup OpenStatuses \cup ClosedStatuses,
        position: Nat, attempts: 0..MaxAttempts,
        due: BOOLEAN, owner: Workers \cup {NoWorker}, lapsed: BOOLEAN]

Install == [status: {"active", "disconnected", "revoked"}, token: Tokens]

Work == [pc: {"idle", "next", "post", "inactive", "mark", "reschedule", "revoked"},
         items: SUBSET Messages,          \* claimed, not yet handled
         item: Messages \cup {NoMessage}, \* the one in hand
         token: {0} \cup Tokens,
         slow: BOOLEAN]

NoRow == [status |-> "absent", position |-> 0, attempts |-> 0, due |-> TRUE,
          owner |-> NoWorker, lapsed |-> FALSE]

Idle == [pc |-> "idle", items |-> {}, item |-> NoMessage, token |-> 0, slow |-> FALSE]

\* Positions say the order in which the messages of a thread were queued.
Earlier(m, n) ==
    /\ ThreadOf[m] = ThreadOf[n]
    /\ row[m].status # "absent" /\ row[n].status # "absent"
    /\ row[m].position < row[n].position

Open(m) == row[m].status \in OpenStatuses
Closed(m) == row[m].status \in ClosedStatuses

TypeOK ==
    /\ row \in [Messages -> Row]
    /\ install \in Install
    /\ leaving \in BOOLEAN
    /\ valid \subseteq Tokens
    /\ posted \subseteq Messages
    /\ deleted \subseteq Contracts
    /\ work \in [Workers -> Work]
    /\ \A w \in Workers : work[w].pc \notin {"idle", "next"} => work[w].item \in work[w].items
    /\ mishaps \subseteq Faults
    /\ \A m, n \in Messages :
          /\ m # n /\ ThreadOf[m] = ThreadOf[n]
          /\ row[m].status # "absent" /\ row[n].status # "absent"
          => row[m].position # row[n].position

Init ==
    /\ row = [m \in Messages |-> NoRow]
    /\ install = [status |-> "active", token |-> 1]
    /\ leaving = FALSE
    /\ valid = {1}
    /\ posted = {} /\ deleted = {}
    /\ work = [w \in Workers |-> Idle]
    /\ mishaps = {}

-----------------------------------------------------------------------------
(* Vocabulary *)

\* The bound on faults, deletions and tokens after the first.
Budget == Cardinality(mishaps) + Cardinality(deleted) + (install.token - 1) < MaxFaults

Fault(kind) ==
    /\ kind \in Faults \ mishaps
    /\ Budget
    /\ mishaps' = mishaps \cup {kind}

At(w, pc) == work[w].pc = pc
Active == install.status = "active"

\* WHERE status = 'sending' AND lease_token = ?; a fresh token is forgotten
\* with its item, so the name of the worker stands for it.
Owns(w) == LET r == row[work[w].item] IN r.status = "sending" /\ r.owner = w

\* The item in hand is done with.
NextItem(w) ==
    work' = [work EXCEPT ![w].items = @ \ {work[w].item}, ![w].item = NoMessage,
                         ![w].token = 0, ![w].pc = "next"]

\* disconnect_installation and mark_installation_revoked close what is open.
CloseAll ==
    row' = [m \in Messages |->
               IF Open(m) THEN [row[m] EXCEPT !.status = "failed", !.owner = NoWorker]
                          ELSE row[m]]

-----------------------------------------------------------------------------
(* enqueue_outbound, from intake and contract workers *)

Positions(t) == {row[m].position : m \in {n \in Messages : ThreadOf[n] = t}}

\* last is SELECT MAX(thread_position) of the thread.
Insert(m, s) ==
    \E last \in Positions(ThreadOf[m]) :
        /\ \A p \in Positions(ThreadOf[m]) : p <= last
        /\ row' = [row EXCEPT ![m].status = s, ![m].position = last + 1]

\* Mutant of Enqueue: the installation is not looked at.
EnqueueAlways(m) ==
    /\ row[m].status = "absent"
    /\ Insert(m, "pending")
    /\ UNCHANGED <<install, leaving, valid, posted, deleted, work, mishaps>>

\* A second intent with the same key is ignored.  An intent for an inactive
\* installation is stored as failed.
Enqueue(m) ==
    /\ row[m].status = "absent"
    /\ Insert(m, IF Active THEN "pending" ELSE "failed")
    /\ UNCHANGED <<install, leaving, valid, posted, deleted, work, mishaps>>

EnqueueOverlapping(m) ==
    /\ row[m].status = "absent" /\ ~Active
    /\ Fault("overlap")
    /\ Insert(m, "pending")
    /\ UNCHANGED <<install, leaving, valid, posted, deleted, work>>

-----------------------------------------------------------------------------
(* OutboundSlackDeliveryService.drain_once *)

\* Mutant of Claimable: only pending messages hold back later ones.
ClaimableBehindSending(m) ==
    /\ \/ row[m].status = "pending" /\ row[m].due
       \/ row[m].status = "sending" /\ row[m].lapsed
    /\ \A n \in Messages : Earlier(n, m) => row[n].status # "pending"

\* A message waits for the earlier ones of its thread that are still open.
Claimable(m) ==
    /\ \/ row[m].status = "pending" /\ row[m].due
       \/ row[m].status = "sending" /\ row[m].lapsed
    /\ \A n \in Messages : Earlier(n, m) => ~Open(n)

\* claim_due_outbound.  Attempts past the last are not told apart.
Claim(w) ==
    LET claimed == {m \in Messages : Claimable(m)} IN
    /\ At(w, "idle") /\ claimed # {}
    /\ row' = [m \in Messages |->
                  IF m \in claimed
                  THEN [row[m] EXCEPT !.status = "sending", !.owner = w, !.lapsed = FALSE,
                                      !.attempts = IF @ < MaxAttempts THEN @ + 1 ELSE @]
                  ELSE row[m]]
    /\ work' = [work EXCEPT ![w].pc = "next", ![w].items = claimed]
    /\ UNCHANGED <<install, leaving, valid, posted, deleted, mishaps>>

\* _deliver begins: get_installation finds the active installation or none.
Take(w) ==
    /\ At(w, "next")
    /\ \E m \in work[w].items :
          work' = [work EXCEPT ![w].item = m,
                               ![w].token = IF Active THEN install.token ELSE 0,
                               ![w].pc = IF Active THEN "post" ELSE "inactive"]
    /\ UNCHANGED <<row, install, leaving, valid, posted, deleted, mishaps>>

Drained(w) ==
    /\ At(w, "next") /\ work[w].items = {}
    /\ work' = [work EXCEPT ![w] = Idle]
    /\ UNCHANGED <<row, install, leaving, valid, posted, deleted, mishaps>>

\* chat_postMessage is accepted.
Post(w) ==
    /\ At(w, "post") /\ work[w].token \in valid
    /\ posted' = posted \cup {work[w].item}
    /\ work' = [work EXCEPT ![w].pc = "mark"]
    /\ UNCHANGED <<row, install, leaving, valid, deleted, mishaps>>

\* Slack limits the rate, does not answer, or refuses the message.
PostRefused(w) ==
    /\ At(w, "post")
    /\ work' = [work EXCEPT ![w].pc = "reschedule"]
    /\ UNCHANGED <<row, install, leaving, valid, posted, deleted, mishaps>>

PostTimesOut(w) ==
    /\ At(w, "post") /\ work[w].token \in valid
    /\ Fault("timeout")
    /\ posted' = posted \cup {work[w].item}
    /\ work' = [work EXCEPT ![w].pc = "reschedule"]
    /\ UNCHANGED <<row, install, leaving, valid, deleted>>

\* invalid_auth, account_inactive or token_revoked
PostUnauthorized(w) ==
    /\ At(w, "post") /\ work[w].token \notin valid
    /\ work' = [work EXCEPT ![w].pc = "revoked"]
    /\ UNCHANGED <<row, install, leaving, valid, posted, deleted, mishaps>>

\* mark_outbound_sent
Mark(w) ==
    /\ At(w, "mark")
    /\ row' = IF Owns(w)
              THEN [row EXCEPT ![work[w].item].status = "sent", ![work[w].item].owner = NoWorker]
              ELSE row
    /\ NextItem(w)
    /\ UNCHANGED <<install, leaving, valid, posted, deleted, mishaps>>

\* Mutant of Reschedule: whose message it is now is not asked.
RescheduleBlindly(w) ==
    LET m == work[w].item
        terminal == row[m].attempts >= MaxAttempts IN
    /\ At(w, "reschedule") \/ At(w, "inactive")
    /\ row' = [row EXCEPT ![m].status = IF terminal THEN "failed" ELSE "pending",
                          ![m].due = FALSE, ![m].owner = NoWorker]
    /\ NextItem(w)
    /\ UNCHANGED <<install, leaving, valid, posted, deleted, mishaps>>

\* Mutant of Reschedule: the attempts are not limited.
RescheduleForever(w) ==
    LET m == work[w].item IN
    /\ At(w, "reschedule") \/ At(w, "inactive")
    /\ row' = IF Owns(w) /\ Active
              THEN [row EXCEPT ![m].status = "pending", ![m].due = FALSE, ![m].attempts = 0,
                               ![m].owner = NoWorker]
              ELSE row
    /\ NextItem(w)
    /\ UNCHANGED <<install, leaving, valid, posted, deleted, mishaps>>

\* reschedule_outbound, which does nothing for an inactive installation.  A
\* worker that found it inactive gives the item up (max_attempts=item.attempts).
Reschedule(w) ==
    LET m == work[w].item
        terminal == At(w, "inactive") \/ row[m].attempts >= MaxAttempts IN
    /\ At(w, "reschedule") \/ At(w, "inactive")
    /\ row' = IF Owns(w) /\ Active
              THEN [row EXCEPT ![m].status = IF terminal THEN "failed" ELSE "pending",
                               ![m].due = FALSE, ![m].owner = NoWorker]
              ELSE row
    /\ NextItem(w)
    /\ UNCHANGED <<install, leaving, valid, posted, deleted, mishaps>>

\* mark_installation_revoked, whatever token the installation has by now; the
\* reschedule_outbound that follows finds its row closed.
Revoked(w) ==
    /\ At(w, "revoked")
    /\ install' = [install EXCEPT !.status = "revoked"]
    /\ CloseAll
    /\ NextItem(w)
    /\ UNCHANGED <<leaving, valid, posted, deleted, mishaps>>

-----------------------------------------------------------------------------
(* The installation: slack_routes.py *)

\* The token Slack grants: the one it has granted while that is valid.
Granted == IF install.token \in valid THEN install.token ELSE install.token + 1

\* upsert_installation
Connect ==
    /\ Granted \in Tokens /\ (install.token \in valid \/ Budget)
    /\ install' = [status |-> "active", token |-> Granted]
    /\ valid' = valid \cup {Granted}

Reconnect(again) ==
    /\ install.status # "active" \/ install.token \notin valid
    /\ IF again THEN leaving /\ Fault("reinstall") ELSE ~leaving /\ UNCHANGED mishaps
    /\ Connect
    /\ UNCHANGED <<row, leaving, posted, deleted, work>>

\* Mutant of Leave: the token is revoked later, or not at all.
LeaveRemotelyLater ==
    /\ Active /\ ~leaving
    /\ leaving' = TRUE
    /\ UNCHANGED <<row, install, valid, posted, deleted, work, mishaps>>

\* DELETE of the installation: auth.revoke first, and only then the row.
Leave ==
    /\ Active /\ ~leaving
    /\ valid' = valid \ {install.token}
    /\ leaving' = TRUE
    /\ UNCHANGED <<row, install, posted, deleted, work, mishaps>>

\* disconnect_installation
Disconnect ==
    /\ leaving
    /\ leaving' = FALSE
    /\ IF Active
       THEN install' = [install EXCEPT !.status = "disconnected"] /\ CloseAll
       ELSE UNCHANGED <<install, row>>
    /\ UNCHANGED <<valid, posted, deleted, work, mishaps>>

Uninstall ==
    /\ install.token \in valid
    /\ Fault("uninstall")
    /\ valid' = valid \ {install.token}
    /\ UNCHANGED <<row, install, leaving, posted, deleted, work>>

-----------------------------------------------------------------------------
(* delete_contract *)

MessagesOf(c) == {m \in Messages : ContractOf[m] = c}

\* A contract at rest is deleted, once, and the rows of its replies with it, sent
\* or not, whoever holds them.  Workers that still have a reply of it to queue,
\* again or for the first time, do so afterwards.
DeleteContract(c) ==
    /\ c \notin deleted /\ Budget
    /\ deleted' = deleted \cup {c}
    /\ row' = [m \in Messages |-> IF m \in MessagesOf(c) THEN NoRow ELSE row[m]]
    /\ UNCHANGED <<install, leaving, valid, posted, work, mishaps>>

-----------------------------------------------------------------------------
(* Time and crashes *)

Held(m) == \E w \in Workers : row[m].owner = w /\ m \in work[w].items /\ ~work[w].slow

Lapse(m) ==
    /\ row[m].status = "sending" /\ ~row[m].lapsed /\ ~Held(m)
    /\ row' = [row EXCEPT ![m].lapsed = TRUE]
    /\ UNCHANGED <<install, leaving, valid, posted, deleted, work, mishaps>>

ComesDue(m) ==
    /\ row[m].status = "pending" /\ ~row[m].due
    /\ row' = [row EXCEPT ![m].due = TRUE]
    /\ UNCHANGED <<install, leaving, valid, posted, deleted, work, mishaps>>

Slow(w) ==
    /\ ~At(w, "idle")
    /\ Fault("slow")
    /\ work' = [work EXCEPT ![w].slow = TRUE]
    /\ UNCHANGED <<row, install, leaving, valid, posted, deleted>>

Crash(w) ==
    /\ ~At(w, "idle")
    /\ Fault("crash")
    /\ work' = [work EXCEPT ![w] = Idle]
    /\ UNCHANGED <<row, install, leaving, valid, posted, deleted>>

-----------------------------------------------------------------------------

Deliver(w) ==
    \/ Claim(w) \/ Take(w) \/ Drained(w) \/ Post(w) \/ PostRefused(w)
    \/ PostUnauthorized(w) \/ Mark(w) \/ Reschedule(w) \/ Revoked(w)

Next ==
    \/ \E m \in Messages : Enqueue(m) \/ EnqueueOverlapping(m) \/ Lapse(m) \/ ComesDue(m)
    \/ \E w \in Workers : Deliver(w) \/ PostTimesOut(w) \/ Slow(w) \/ Crash(w)
    \/ \E again \in BOOLEAN : Reconnect(again)
    \/ Leave \/ Disconnect \/ Uninstall
    \/ \E c \in Contracts : DeleteContract(c)

Spec == Init /\ [][Next]_vars

\* Delivery workers poll for ever, a disconnect request runs to its end, and
\* time passes.  Nobody has to connect or to answer.
Fairness ==
    /\ \A w \in Workers : WF_vars(Deliver(w))
    /\ \A m \in Messages : WF_vars(Lapse(m)) /\ WF_vars(ComesDue(m))
    /\ WF_vars(Disconnect)

FairSpec == Spec /\ Fairness

-----------------------------------------------------------------------------
(* Properties *)

\* Slack accepts a message for the first time only when every earlier message
\* of its thread is sent or given up, whoever holds stale leases: receipts
\* come before reviews (claim_due_outbound's NOT EXISTS over positions).  A
\* reply whose contract was deleted under its sender may be queued again, behind
\* others, while that sender posts the row that is gone.
ThreadsKeepOrder ==
    [][\A m \in posted' \ posted, n \in Messages :
          ContractOf[m] \notin deleted /\ Earlier(n, m) => Closed(n)]_vars

\* A message that was sent or given up stays so until its contract is deleted: a
\* worker that lost its lease, or whose installation was disconnected under it,
\* does not put it back (the test "late worker retry" of
\* test_slack_control_plane.py, for all orders).
ClosedStaysClosed ==
    [][\A m \in Messages : Closed(m) =>
          \/ row'[m].status = row[m].status
          \/ ContractOf[m] \in deleted' \ deleted /\ row'[m] = NoRow]_vars

\* Without overlapping transactions, an installation that is not active has
\* nothing left to send.
InactiveHasNothingOpen ==
    ~Active /\ "overlap" \notin mishaps => \A m \in Messages : ~Open(m)

\* Nothing is posted for an installation its owner has disconnected, not even
\* by workers that read its token before (the token is revoked at Slack before
\* the row changes), unless it was connected again in the middle of that.
DisconnectedIsSilent ==
    [][install.status = "disconnected" /\ "reinstall" \notin mishaps
           => posted' = posted]_vars

\* The row of m went with its contract.
WentAlong(m) == row[m] = NoRow /\ ContractOf[m] \in deleted

\* Every reply is sent or given up in the end, or goes with its contract, and none
\* waits for ever for an earlier one of its thread, deleted or not.
RepliesSettle ==
    \A m \in Messages :
        Open(m) ~> Closed(m) \/ WentAlong(m) \/ "overlap" \in mishaps

-----------------------------------------------------------------------------
(* The abstract specification: see OrderedOutbox *)

OutboxState(m) ==
    CASE Open(m) -> "open"
      [] row[m].status = "sent" -> "sent"
      [] row[m].status = "failed" -> "dropped"
      [] OTHER -> "none"

WaitsFor(m) == {n \in Messages : Earlier(n, m) /\ Open(n) /\ Open(m)}

Outbox == INSTANCE OrderedOutbox WITH
    Deletable <- {m \in Messages : ContractOf[m] \in Contracts},
    state <- [m \in Messages |-> OutboxState(m)],
    ahead <- [m \in Messages |-> WaitsFor(m)],
    hand <- UNION {work[w].items : w \in Workers},
    accepted <- posted

\* Workers, leases, connections, disconnections and deletions implement an outbox
\* that keeps the order of its threads, and the outcome of its messages until
\* they are deleted (claim_due_outbound, mark_outbound_sent,
\* reschedule_outbound, disconnect_installation, mark_installation_revoked and
\* delete_contract together).
ImplementsOutbox == Outbox!Spec

=============================================================================
