------------------------------- MODULE Signing -------------------------------
(***************************************************************************)
(* Signing requests of one contract: the rows of signing_requests, signers *)
(* and signer_status_events, the API handlers that create a request, add a *)
(* signer and append a status event, and the deletion of the contract.     *)
(*                                                                         *)
(* The status of a request is derived from the events of its signers; its  *)
(* active flag is a column, brought into line by a second transaction      *)
(* after the one that appended an event.  A handler is one thread of the   *)
(* API with a connection of its own.  What it has read may be stale by the *)
(* time it writes: only the unique indexes and the primary key of the      *)
(* events are checked by the database when a statement is executed, and no *)
(* table has a foreign key.  An event's time is that of its insertion.     *)
(***************************************************************************)
EXTENDS Naturals, Sequences

CONSTANTS
    Requests,      \* ids that signing requests of the contract may get
    Signers,       \* ids that signers may get
    EmailOf,       \* the casefolded mailbox of a signer
    Required,      \* signers with required = TRUE
    EventIds,      \* ids browsers choose for status events
    Recordable,    \* statuses browsers record
    Handlers,
    MaxCrashes,    \* bound: handlers that die
    NoRequest,
    NoEvent

SignerStatus ==
    {"pending", "sent", "viewed", "signed", "declined", "expired", "cancelled"}

ASSUME SigningAssumption ==
    /\ Required \subseteq Signers
    /\ Recordable \subseteq SignerStatus
    /\ MaxCrashes \in Nat
    /\ NoRequest \notin Requests
    /\ NoEvent \notin EventIds

VARIABLES
    contract,    \* the contract's row exists
    request,     \* rows of signing_requests
    signer,      \* rows of signers: the request a signer belongs to
    log,         \* signer_status_events of each signer, oldest first
    work,        \* what each handler is doing and what it has read
    crashes,     \* handlers that died
    unsettled,   \* history: requests whose flag was last written, or left, by
                 \* a handler that was refused, died, or was not alone
    crossed      \* history: rows were committed beside or after the deletion

vars == <<contract, request, signer, log, work, crashes, unsettled, crossed>>

-----------------------------------------------------------------------------
(* Types *)

Request == [live: BOOLEAN, active: BOOLEAN]

Event == [id: EventIds \cup {NoEvent}, status: SignerStatus]

Place == {"idle", "create", "add", "append", "sync", "flag", "purge"}

Work == [pc: Place,
         req: Requests \cup {NoRequest},
         team: SUBSET Signers,      \* signers to insert, or the one concerned
         event: Event,              \* the event to append
         wish: BOOLEAN,             \* should_be_active, as read
         reqs: SUBSET Requests,     \* request ids a deletion has read
         alone: BOOLEAN]            \* history: nobody else on req since it read

NewSigner == [id |-> NoEvent, status |-> "pending"]

Idle == [pc |-> "idle", req |-> NoRequest, team |-> {}, event |-> NewSigner,
         wish |-> FALSE, reqs |-> {}, alone |-> TRUE]

NoRow == [live |-> FALSE, active |-> FALSE]

\* Every variable has its type.
TypeOK ==
    /\ contract \in BOOLEAN
    /\ request \in [Requests -> Request]
    /\ signer \in [Signers -> Requests \cup {NoRequest}]
    /\ log \in [Signers -> Seq(Event)]
    /\ work \in [Handlers -> Work]
    /\ crashes \in 0..MaxCrashes
    /\ unsettled \subseteq Requests
    /\ crossed \in BOOLEAN

Init ==
    /\ contract = TRUE
    /\ request = [r \in Requests |-> NoRow]
    /\ signer = [s \in Signers |-> NoRequest]
    /\ log = [s \in Signers |-> <<>>]
    /\ work = [h \in Handlers |-> Idle]
    /\ crashes = 0
    /\ unsettled = {}
    /\ crossed = FALSE

-----------------------------------------------------------------------------
(* Vocabulary *)

At(h, pc) == work[h].pc = pc

Team(r) == {s \in Signers : signer[s] = r}

Latest(s) == IF log[s] = <<>> THEN "pending" ELSE log[s][Len(log[s])].status

\* An optional signer neither closes nor completes a request.
StatusOf(r) ==
    LET needed == Team(r) \cap Required
        Seen(st) == \E s \in needed : Latest(s) = st
    IN  IF \A s \in Team(r) : Latest(s) = "pending" THEN "not_started"
        ELSE IF Seen("declined") THEN "declined"
        ELSE IF Seen("expired") THEN "expired"
        ELSE IF Seen("cancelled") THEN "cancelled"
        ELSE IF needed # {} /\ \A s \in needed : Latest(s) = "signed"
             THEN "completed" ELSE "in_progress"

TerminalStatuses == {"completed", "declined", "expired", "cancelled"}
Open(r) == StatusOf(r) \notin TerminalStatuses

\* get_request joins the contract: a request of a deleted contract is not found.
Found(r) == contract /\ request[r].live

ActiveRequests == {r \in Requests : request[r].live /\ request[r].active}

Recorded(e) == \E s \in Signers : \E i \in DOMAIN log[s] : log[s][i].id = e

Others(h, r) == {g \in Handlers \ {h} : work[g].req = r}
Purging == \E h \in Handlers : At(h, "purge")

\* h turns to what its request asks of r; whoever is on r is not alone any more.
Begin(h, r, w) ==
    work' = [g \in Handlers |->
                IF g = h THEN [w EXCEPT !.alone = Others(h, r) = {}]
                ELSE IF work[g].req = r THEN [work[g] EXCEPT !.alone = FALSE]
                ELSE work[g]]

Done(h) == work' = [work EXCEPT ![h] = Idle]

Crossing == crossed' = (crossed \/ Purging \/ ~contract)

-----------------------------------------------------------------------------
(* POST /contracts/{id}/signing-requests *)

\* The checks of create_request, each a query before the transaction.
StartCreate(h, r, team) ==
    /\ At(h, "idle") /\ contract
    /\ ~request[r].live /\ \A g \in Handlers : work[g].req # r
    /\ \A s \in team : /\ signer[s] = NoRequest /\ log[s] = <<>>
                       /\ \A g \in Handlers : s \notin work[g].team
    /\ \A s1, s2 \in team : EmailOf[s1] = EmailOf[s2] => s1 = s2
    /\ ActiveRequests = {}
    /\ Begin(h, r, [Idle EXCEPT !.pc = "create", !.req = r, !.team = team])
    /\ UNCHANGED <<contract, request, signer, log, crashes, unsettled, crossed>>

\* Mutant of IndexAdmits: signing_requests without its partial unique index.
NoIndex(r) == TRUE

\* ux_signing_requests_active_contract: one active request for each contract.
IndexAdmits(r) == ActiveRequests \subseteq {r}

\* One transaction: the request, its signers and their first events, or nothing
\* when the unique index refuses the request.
InsertRequest(h) ==
    LET r == work[h].req
    IN  /\ At(h, "create")
        /\ IF IndexAdmits(r)
           THEN /\ request' = [request EXCEPT ![r] =
                                   [live |-> TRUE, active |-> TRUE]]
                /\ signer' = [s \in Signers |->
                                 IF s \in work[h].team THEN r ELSE signer[s]]
                /\ log' = [s \in Signers |->
                              IF s \in work[h].team THEN <<NewSigner>> ELSE log[s]]
                /\ Crossing
           ELSE UNCHANGED <<request, signer, log, crossed>>
        /\ Done(h)
        /\ UNCHANGED <<contract, crashes, unsettled>>

-----------------------------------------------------------------------------
(* POST /signing-requests/{id}/signers *)

\* add_signer reads the request and refuses a terminal one.
StartAdd(h, r, s) ==
    /\ At(h, "idle") /\ Found(r) /\ Open(r)
    /\ signer[s] = NoRequest /\ log[s] = <<>>
    /\ \A g \in Handlers : s \notin work[g].team
    /\ Begin(h, r, [Idle EXCEPT !.pc = "add", !.req = r, !.team = {s}])
    /\ UNCHANGED <<contract, request, signer, log, crashes, unsettled, crossed>>

\* The signer and its first event, or 409 when the mailbox is taken.  Nobody
\* looks at the flag: a signer that arrives late can reopen a closed request.
InsertSigner(h) ==
    LET r == work[h].req
        Taken(s) == \E o \in Team(r) : EmailOf[o] = EmailOf[s]
        new == {s \in work[h].team : ~Taken(s)}
    IN  /\ At(h, "add")
        /\ signer' = [s \in Signers |-> IF s \in new THEN r ELSE signer[s]]
        /\ log' = [s \in Signers |-> IF s \in new THEN <<NewSigner>> ELSE log[s]]
        /\ crossed' = (crossed \/ (new # {} /\ (Purging \/ ~contract)))
        /\ unsettled' = IF work[h].alone THEN unsettled ELSE unsettled \cup {r}
        /\ Done(h)
        /\ UNCHANGED <<contract, request, crashes>>

-----------------------------------------------------------------------------
(* POST /signers/{id}/events *)

\* Mutant of StartEvent: the latest status is not compared.
StartEventUncompared(h, s, e) ==
    /\ At(h, "idle") /\ signer[s] # NoRequest
    /\ request[signer[s]].live
    /\ ~Recorded(e.id)
    /\ Begin(h, signer[s], [Idle EXCEPT !.pc = "append", !.req = signer[s],
                                        !.team = {s}, !.event = e])
    /\ UNCHANGED <<contract, request, signer, log, crashes, unsettled, crossed>>

\* append_event finds the signer with its request, an id nobody used, and another
\* latest status.  A used id is answered from what is stored, or refused.
StartEvent(h, s, e) ==
    /\ At(h, "idle") /\ signer[s] # NoRequest
    /\ request[signer[s]].live
    /\ ~Recorded(e.id) /\ Latest(s) # e.status
    /\ Begin(h, signer[s], [Idle EXCEPT !.pc = "append", !.req = signer[s],
                                        !.team = {s}, !.event = e])
    /\ UNCHANGED <<contract, request, signer, log, crashes, unsettled, crossed>>

\* Mutant of RecordEvent: the answer is given before the flag is looked at.
RecordWithoutSync(h) ==
    /\ At(h, "append")
    /\ log' = [s \in Signers |-> IF s \in work[h].team
                                THEN Append(log[s], work[h].event) ELSE log[s]]
    /\ Done(h)
    /\ Crossing
    /\ UNCHANGED <<contract, request, signer, crashes, unsettled>>

\* The event is inserted, or refused by the primary key.
RecordEvent(h) ==
    /\ At(h, "append")
    /\ \/ /\ ~Recorded(work[h].event.id)
          /\ log' = [s \in Signers |-> IF s \in work[h].team
                                      THEN Append(log[s], work[h].event) ELSE log[s]]
          /\ work' = [work EXCEPT ![h].pc = "sync"]
          /\ Crossing
       \/ /\ Recorded(work[h].event.id)
          /\ Done(h)
          /\ UNCHANGED <<log, crossed>>
    /\ UNCHANGED <<contract, request, signer, crashes, unsettled>>

\* get_request, derive_request_status and the query for another active request.
\* A reactivation beside another active request is refused with the event kept.
ReadForSync(h) ==
    LET r == work[h].req
        clean == Others(h, r) = {}
    IN  /\ At(h, "sync")
        /\ \/ /\ ~Found(r)
              /\ Done(h)
              /\ unsettled' = unsettled \cup {r}
           \/ /\ Found(r) /\ Open(r) /\ ~IndexAdmits(r)
              /\ Done(h)
              /\ unsettled' = unsettled \cup {r}
           \/ /\ Found(r) /\ (Open(r) => IndexAdmits(r))
              /\ request[r].active = Open(r)
              /\ Done(h)
              /\ unsettled' = IF clean THEN unsettled \ {r} ELSE unsettled \cup {r}
           \/ /\ Found(r) /\ (Open(r) => IndexAdmits(r))
              /\ request[r].active # Open(r)
              /\ work' = [work EXCEPT ![h].pc = "flag", ![h].wish = Open(r),
                                      ![h].alone = clean]
              /\ UNCHANGED unsettled
        /\ UNCHANGED <<contract, request, signer, log, crashes, crossed>>

\* The flag is written as it was wished; the unique index may refuse it.  An
\* UPDATE of a request that was deleted changes nothing.
SetFlag(h) ==
    LET r == work[h].req
        row == [live |-> TRUE, active |-> work[h].wish]
    IN  /\ At(h, "flag")
        /\ \/ /\ ~request[r].live
              /\ UNCHANGED <<request, unsettled>>
           \/ /\ request[r].live /\ work[h].wish /\ ~IndexAdmits(r)
              /\ unsettled' = unsettled \cup {r}
              /\ UNCHANGED request
           \/ /\ request[r].live /\ (work[h].wish => IndexAdmits(r))
              /\ request' = [request EXCEPT ![r] = row]
              /\ unsettled' = IF work[h].alone THEN unsettled \ {r}
                              ELSE unsettled \cup {r}
        /\ Done(h)
        /\ UNCHANGED <<contract, signer, log, crashes, crossed>>

-----------------------------------------------------------------------------
(* DELETE /contracts/{id} *)

\* delete_contract locks the contract's row and reads the ids to delete.
StartDelete(h) ==
    LET reqs == {r \in Requests : request[r].live}
    IN  /\ At(h, "idle") /\ contract /\ ~Purging
        /\ work' = [work EXCEPT ![h] = [Idle EXCEPT !.pc = "purge", !.reqs = reqs,
                                          !.team = {s \in Signers : signer[s] \in reqs}]]
        /\ UNCHANGED <<contract, request, signer, log, crashes, unsettled, crossed>>

\* The object storage refuses the deletion: the transaction is rolled back.
AbortDelete(h) ==
    /\ At(h, "purge")
    /\ Done(h)
    /\ UNCHANGED <<contract, request, signer, log, crashes, unsettled, crossed>>

\* Events by signer id and signers by request id, as read; requests by contract.
FinishDelete(h) ==
    /\ At(h, "purge")
    /\ log' = [s \in Signers |-> IF s \in work[h].team THEN <<>> ELSE log[s]]
    /\ signer' = [s \in Signers |->
                     IF signer[s] \in work[h].reqs THEN NoRequest ELSE signer[s]]
    /\ request' = [r \in Requests |-> NoRow]
    /\ contract' = FALSE
    /\ Done(h)
    /\ UNCHANGED <<crashes, unsettled, crossed>>

\* The process dies; its open transaction is rolled back.
Crash(h) ==
    /\ ~At(h, "idle") /\ crashes < MaxCrashes
    /\ crashes' = crashes + 1
    /\ unsettled' = IF work[h].pc \in {"sync", "flag"}
                    THEN unsettled \cup {work[h].req} ELSE unsettled
    /\ Done(h)
    /\ UNCHANGED <<contract, request, signer, log, crossed>>

-----------------------------------------------------------------------------
(* Specification *)

CreateStep(h) ==
    \/ \E r \in Requests, team \in SUBSET Signers : StartCreate(h, r, team)
    \/ InsertRequest(h)

AddStep(h) ==
    \/ \E r \in Requests, s \in Signers : StartAdd(h, r, s)
    \/ InsertSigner(h)

EventStep(h) ==
    \/ \E s \in Signers, id \in EventIds, st \in Recordable :
          StartEvent(h, s, [id |-> id, status |-> st])
    \/ RecordEvent(h) \/ ReadForSync(h) \/ SetFlag(h)

DeleteStep(h) == StartDelete(h) \/ AbortDelete(h) \/ FinishDelete(h)

Next == \E h \in Handlers :
    CreateStep(h) \/ AddStep(h) \/ EventStep(h) \/ DeleteStep(h) \/ Crash(h)

Spec == Init /\ [][Next]_vars

-----------------------------------------------------------------------------
(* Properties *)

\* A contract never has two active signing requests, whatever handlers that
\* looked before one existed insert or reactivate.
OneActiveRequest == \A r1, r2 \in ActiveRequests : r1 = r2

\* A request nobody is working on is active exactly as long as its derived status
\* is open, unless its last handler was refused, died between the event and the
\* flag, or shared the request with another.  The next event handled alone heals
\* it (append_event calls _sync_request_active_flag after every new event).
FlagFollowsStatus ==
    \A r \in Requests :
        (request[r].live /\ r \notin unsettled /\ \A h \in Handlers : work[h].req # r)
            => request[r].active = Open(r)

\* A status that repeats the signer's latest one is recorded only by a handler
\* that another one overtook (append_event compares before its transaction).
RepeatsNeedOverlap ==
    [][\A s \in Signers :
          (/\ Len(log'[s]) > Len(log[s]) /\ log[s] # <<>>
           /\ log'[s][Len(log'[s])].status = Latest(s))
          => \E h \in Handlers : /\ At(h, "append") /\ s \in work[h].team
                                 /\ ~work[h].alone]_vars

\* A deleted contract leaves no request, signer or event behind, unless a handler
\* committed rows while the deletion was open or after it.
DeletionLeavesNothing ==
    (~contract /\ ~crossed) =>
        /\ \A r \in Requests : ~request[r].live
        /\ \A s \in Signers : signer[s] = NoRequest /\ log[s] = <<>>

=============================================================================
