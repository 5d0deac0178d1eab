------------------------------ MODULE Uploads ------------------------------
(***************************************************************************)
(* One account uploads one document, several times and by both ways in:    *)
(* the browser puts it in Blob storage under a pathname it was authorized  *)
(* for and posts the pathname, or posts the file itself.  The admission    *)
(* control in Redis, the contract the bytes are found or entered as, the   *)
(* review job, the worker that takes it, and the deletion of a contract.   *)
(*                                                                         *)
(* Nothing spans the parts: a reservation is leased by one Redis script    *)
(* and settled by another, the contract is looked up in one transaction    *)
(* and inserted in the next, the status is set before the job is published *)
(* and the object is removed while only the row of its contract is locked. *)
(***************************************************************************)
EXTENDS Naturals, FiniteSets

CONSTANTS
    Paths,          \* pathnames the browser uploads the document under
    FormKey,        \* where store_contract_file keeps a document by its sha256
    Handlers,       \* threads of the API
    MaxContracts,   \* bound: rows of contracts ever made for the document
    MaxRequests,    \* bound: uploads that are posted
    MaxJobs,        \* bound: review jobs waiting for one contract
    Limit,          \* the allowance of the review policy
    Modes,          \* rate_limit_mode: "observe", "enforce"
    Faults,         \* kinds of mishap that may happen
    MaxFaults,      \* bound: mishaps
    None

ASSUME UploadsAssumption ==
    /\ FormKey \notin Paths
    /\ MaxContracts \in Nat /\ MaxRequests \in Nat /\ MaxJobs \in Nat
    /\ Limit \in Nat /\ MaxFaults \in Nat
    /\ IsFiniteSet(Handlers)
    /\ Modes \subseteq {"observe", "enforce"}
    /\ None \notin Handlers /\ None \notin 1..MaxContracts /\ None \notin Paths \cup {FormKey}

VARIABLES
    mode,           \* rate_limit_mode of the deployment
    refused,        \* pathnames that hold a file which is refused
    left,           \* reviews the account's windows still admit
    reservation,    \* Redis: the reservation of each pathname
    granted,        \* pathnames the browser holds an upload token for
    blob,           \* object keys in the storage
    contract,       \* rows of contracts and contract_versions
    deleting,       \* the contract whose row a deletion has locked
    queue,          \* review jobs waiting for each contract
    reviewing,      \* contracts at the worker
    handler,        \* what each request is doing
    served,         \* uploads posted so far
    mishaps,
    paid,           \* history: units charged for each pathname
    expired,        \* history: reservations of it that ran out
    copies,         \* history: review jobs published for it
    reasons,        \* history: mishaps that let it be processed again
    torn,           \* history: keys removed under a contract that stays
    abandoned       \* history: contracts an upload was cut short at

redisVars == <<mode, refused, left, reservation, paid, expired>>
contractVars == <<contract, deleting, torn, abandoned>>
jobVars == <<queue, reviewing>>
storageVars == <<granted, blob>>
tallyVars == <<mishaps, served, copies, reasons>>
vars == <<redisVars, contractVars, jobVars, storageVars, handler, tallyVars>>

-----------------------------------------------------------------------------
(* Types *)

Keys == Paths \cup {FormKey}
Ids == 1..MaxContracts

Reservation == [state: {"missing", "reserved", "leased", "consumed"},
                by: Handlers \cup {None},   \* who knows the lease id
                lapsed: BOOLEAN]            \* lease_expiry has passed

Contract == [status: {"absent", "received", "queued", "processing", "ready",
                      "failed", "deleted"},
             key: Keys \cup {None},
             reviewed: BOOLEAN]

Handler == [pc: {"idle", "fetch", "store", "find", "create", "queue",
                 "publish", "failed", "mark", "release"},
            key: Keys \cup {None},
            lease: BOOLEAN,                 \* it holds a lease id
            late: BOOLEAN,                  \* its lease ran out
            id: Ids \cup {None}]

\* Every variable has its type.
TypeOK ==
    /\ mode \in Modes /\ refused \subseteq Paths /\ left \in 0..Limit
    /\ reservation \in [Paths -> Reservation]
    /\ granted \subseteq Paths /\ blob \subseteq Keys
    /\ contract \in [Ids -> Contract]
    /\ deleting \in Ids \cup {None}
    /\ queue \in [Ids -> 0..MaxJobs] /\ reviewing \subseteq Ids
    /\ handler \in [Handlers -> Handler]
    /\ served \in 0..MaxRequests /\ mishaps \in 0..MaxFaults
    /\ paid \in [Paths -> Nat] /\ expired \in [Paths -> Nat]
    /\ copies \in [Paths -> Nat] /\ reasons \in [Paths -> Nat]
    /\ torn \subseteq Keys \cup {None} /\ abandoned \subseteq Ids

Free(state) == [state |-> state, by |-> None, lapsed |-> FALSE]
Quiet == [pc |-> "idle", key |-> None, lease |-> FALSE, late |-> FALSE, id |-> None]

Init ==
    /\ mode \in Modes /\ refused \in SUBSET Paths /\ left = Limit
    /\ reservation = [p \in Paths |-> Free("missing")]
    /\ granted = {} /\ blob = {}
    /\ contract = [c \in Ids |-> [status |-> "absent", key |-> None, reviewed |-> FALSE]]
    /\ deleting = None
    /\ queue = [c \in Ids |-> 0] /\ reviewing = {}
    /\ handler = [h \in Handlers |-> Quiet]
    /\ served = 0 /\ mishaps = 0
    /\ paid = [p \in Paths |-> 0] /\ expired = [p \in Paths |-> 0]
    /\ copies = [p \in Paths |-> 0] /\ reasons = [p \in Paths |-> 0]
    /\ torn = {} /\ abandoned = {}

-----------------------------------------------------------------------------
(* Vocabulary *)

At(h, pc) == handler[h].pc = pc
Goes(h, pc) == handler' = [handler EXCEPT ![h].pc = pc]

Fault(kind) == /\ kind \in Faults /\ mishaps < MaxFaults
               /\ mishaps' = mishaps + 1
NoFault == UNCHANGED mishaps

Live(c) == contract[c].status \notin {"absent", "deleted"}
Active(c) == contract[c].status \in {"received", "queued", "processing"}

\* UPDATE contracts SET status ... WHERE id: it waits for the row's lock, and
\* changes nothing when the contract is gone.
SetStatus(c, status) ==
    /\ deleting # c
    /\ contract' = IF Live(c) THEN [contract EXCEPT ![c].status = status] ELSE contract

\* A Redis command: it runs and its reply is heard, or the call fails, with the
\* script run or not.
Command(heard, ran) == \/ heard /\ ran /\ NoFault
                       \/ ~heard /\ Fault("redis")

\* h is done with its lease, if it has one: nobody else knows the lease id.
Forgotten(h) == [p \in Paths |-> IF reservation[p].by = h
                                 THEN [reservation[p] EXCEPT !.by = None]
                                 ELSE reservation[p]]

-----------------------------------------------------------------------------
(* Admission: rate_limiting.py *)

\* The windows refill with time, one review or a day's worth of them.
Refill ==
    /\ left < Limit
    /\ left' \in {left + 1, Limit}
    /\ UNCHANGED <<mode, refused, reservation, paid, expired, contractVars,
                   jobVars, storageVars, handler, tallyVars>>

\* Mutant of Reserve: the windows are charged before the reservation is looked at.
ReserveChargingFirst(p) ==
    /\ IF left = 0 THEN UNCHANGED <<left, paid>>
       ELSE left' = left - 1 /\ paid' = [paid EXCEPT ![p] = @ + 1]
    /\ IF reservation[p].state # "missing" \/ (left = 0 /\ mode = "enforce")
       THEN UNCHANGED reservation
       ELSE reservation' = [reservation EXCEPT ![p] = Free("reserved")]

\* _RESERVE_UPLOAD_LUA: nothing when the pathname is reserved already; else a
\* unit is charged and the reservation made, in one script.
Reserve(p) ==
    IF reservation[p].state # "missing" \/ (left = 0 /\ mode = "enforce")
    THEN UNCHANGED <<left, reservation, paid>>
    ELSE /\ reservation' = [reservation EXCEPT ![p] = Free("reserved")]
         /\ IF left = 0 THEN UNCHANGED <<left, paid>>
            ELSE /\ left' = left - 1
                 /\ paid' = [paid EXCEPT ![p] = @ + 1]

\* POST /uploads/authorize, and the upload token the browser gets for a yes.
Authorize(p) ==
    /\ p \notin granted
    /\ \E heard, ran \in BOOLEAN :
         /\ Command(heard, ran)
         /\ IF ran THEN Reserve(p) ELSE UNCHANGED <<left, reservation, paid>>
         /\ LET yes == IF heard THEN reservation'[p].state # "missing"
                       ELSE mode = "observe"
            IN granted' = IF yes THEN granted \cup {p} ELSE granted
    /\ UNCHANGED <<mode, refused, expired, contractVars, jobVars, blob, handler,
                   served, copies, reasons>>

\* The browser puts the file in the storage.
Upload(p) ==
    /\ p \in granted
    /\ granted' = granted \ {p}
    /\ blob' = blob \cup {p}
    /\ UNCHANGED <<redisVars, contractVars, jobVars, handler, tallyVars>>

\* A lease runs out after half an hour: its holder is dead, or slow.
Lapse(p) ==
    /\ reservation[p].state = "leased" /\ ~reservation[p].lapsed
    /\ reservation' = [reservation EXCEPT ![p].lapsed = TRUE]
    /\ IF reservation[p].by = None
       THEN NoFault /\ UNCHANGED handler
       ELSE Fault("overrun") /\ handler' = [handler EXCEPT ![reservation[p].by].late = TRUE]
    /\ reasons' = [reasons EXCEPT ![p] = @ + 1]
    /\ UNCHANGED <<mode, refused, left, paid, expired, contractVars, jobVars,
                   storageVars, served, copies>>

\* The key itself expires: after half an hour unused, five minutes after the end
\* of its last lease, or a day after the upload was processed.
Expire(p) ==
    /\ reservation[p].state # "missing"
    /\ reservation[p].state = "leased" => reservation[p].lapsed
    /\ Fault("expiry")
    /\ reservation' = [reservation EXCEPT ![p] = Free("missing")]
    /\ expired' = [expired EXCEPT ![p] = @ + 1]
    /\ reasons' = [reasons EXCEPT ![p] = @ + 1]
    /\ UNCHANGED <<mode, refused, left, paid, contractVars, jobVars, storageVars,
                   handler, served, copies>>

Begun(h, p, leased) ==
    /\ served < MaxRequests /\ served' = served + 1
    /\ handler' = [handler EXCEPT ![h] = [Quiet EXCEPT !.pc = "fetch", !.key = p, !.lease = leased]]

\* Mutant of Acquirable: the expiry in the value of a lease is not looked at.
AcquirableAnyLease(p) == reservation[p].state \in {"reserved", "leased"}

Acquirable(p) == \/ reservation[p].state = "reserved"
                 \/ reservation[p].state = "leased" /\ reservation[p].lapsed

Leased(p, h) == [reservation EXCEPT ![p] = [state |-> "leased", by |-> h, lapsed |-> FALSE]]

\* POST /contracts/from-blob up to the lease.
Acquire(h, p) ==
    /\ At(h, "idle") /\ Acquirable(p)
    /\ NoFault
    /\ reservation' = Leased(p, h)
    /\ Begun(h, p, TRUE)
    /\ UNCHANGED <<mode, refused, left, paid, expired, contractVars, jobVars,
                   storageVars, copies, reasons>>

\* Redis cannot be asked: nobody holds the lease the script may have made, and
\* the request goes on without one in the observe mode only.
AcquireUnheard(h, p) ==
    /\ At(h, "idle")
    /\ Fault("redis")
    /\ reservation' \in {reservation} \cup (IF Acquirable(p) THEN {Leased(p, None)} ELSE {})
    /\ IF mode = "observe"
       THEN Begun(h, p, FALSE) /\ reasons' = [reasons EXCEPT ![p] = @ + 1]
       ELSE UNCHANGED <<handler, served, reasons>>
    /\ UNCHANGED <<mode, refused, left, paid, expired, contractVars, jobVars,
                   storageVars, copies>>

\* POST /contracts: one unit of the review allowance for each request.
Form(h) ==
    /\ At(h, "idle")
    /\ \E heard, ran \in BOOLEAN :
         /\ Command(heard, ran)
         /\ left' = IF ran /\ left > 0 THEN left - 1 ELSE left
         /\ IF mode = "observe" \/ (heard /\ left > 0)
            THEN /\ served < MaxRequests /\ served' = served + 1
                 /\ handler' = [handler EXCEPT ![h] = [Quiet EXCEPT !.pc = "store", !.key = FormKey]]
            ELSE UNCHANGED <<served, handler>>
    /\ UNCHANGED <<mode, refused, reservation, paid, expired, contractVars,
                   jobVars, storageVars, copies, reasons>>

-----------------------------------------------------------------------------
(* The upload becomes a contract with a job *)

\* Stat and download; without the object the request fails.
Fetch(h) ==
    /\ At(h, "fetch")
    /\ IF handler[h].key \notin blob THEN Goes(h, "release")
       ELSE handler[h].key \notin refused /\ Goes(h, "find")
    /\ UNCHANGED <<redisVars, contractVars, jobVars, storageVars, tallyVars>>

\* validate_uploaded_file refuses the bytes: the object goes, and the pathname
\* may be used again.
Reject(h) ==
    /\ At(h, "fetch") /\ handler[h].key \in blob \cap refused
    /\ blob' = blob \ {handler[h].key}
    /\ Goes(h, "release")
    /\ UNCHANGED <<redisVars, contractVars, jobVars, granted, tallyVars>>

\* store_contract_file: one object for the same bytes.
Store(h) ==
    /\ At(h, "store")
    /\ blob' = blob \cup {FormKey}
    /\ Goes(h, "find")
    /\ UNCHANGED <<redisVars, contractVars, jobVars, granted, tallyVars>>

\* create_contract_with_version looks for the newest contract with these bytes,
\* a deletion in progress or not,
Find(h) ==
    /\ At(h, "find")
    /\ LET found == {c \in Ids : Live(c)}
       IN handler' = [handler EXCEPT
            ![h].pc = IF found = {} THEN "create" ELSE "queue",
            ![h].id = IF found = {} THEN None
                      ELSE CHOOSE c \in found : \A d \in found : d <= c]
    /\ UNCHANGED <<redisVars, contractVars, jobVars, storageVars, tallyVars>>

\* and inserts one if there was none.
Create(h) ==
    /\ At(h, "create")
    /\ \E c \in Ids :
         /\ \A d \in Ids : (contract[d].status = "absent") <=> (d >= c)
         /\ contract' = [contract EXCEPT ![c] = [status |-> "received", key |-> handler[h].key,
                                                 reviewed |-> FALSE]]
         /\ handler' = [handler EXCEPT ![h].pc = "queue", ![h].id = c]
    /\ UNCHANGED <<redisVars, deleting, torn, abandoned, jobVars, storageVars,
                   tallyVars>>

\* The contract waits for its review, whatever its status was,
Queue(h) ==
    /\ At(h, "queue")
    /\ SetStatus(handler[h].id, "queued")
    /\ Goes(h, "publish")
    /\ UNCHANGED <<redisVars, deleting, torn, abandoned, jobVars, storageVars,
                   tallyVars>>

Waiting(h) == LET c == handler[h].id
              IN queue[c] < MaxJobs /\ queue' = [queue EXCEPT ![c] = @ + 1]
Counted(h) == copies' = [p \in Paths |-> IF p = handler[h].key THEN copies[p] + 1 ELSE copies[p]]
Reasoned(h) == reasons' = [p \in Paths |-> IF p = handler[h].key THEN reasons[p] + 1 ELSE reasons[p]]

\* and its job is published.
Publish(h) ==
    /\ At(h, "publish")
    /\ Waiting(h) /\ Counted(h)
    /\ Goes(h, "mark")
    /\ UNCHANGED <<redisVars, contractVars, reviewing, storageVars, mishaps,
                   served, reasons>>

\* The publish fails: the broker has the job or it does not.
PublishFails(h) ==
    /\ At(h, "publish")
    /\ Fault("publish")
    /\ \/ UNCHANGED <<queue, copies, reasons>>
       \/ Waiting(h) /\ Counted(h) /\ Reasoned(h)
    /\ Goes(h, "failed")
    /\ UNCHANGED <<redisVars, contractVars, reviewing, storageVars, served>>

\* The job waits, and its audit event cannot be written: nothing catches this
\* error, so the request fails after all and gives its pathname back.
RecordFails(h) ==
    /\ At(h, "mark")
    /\ Fault("failure")
    /\ Reasoned(h)
    /\ Goes(h, "release")
    /\ UNCHANGED <<redisVars, contractVars, jobVars, storageVars, served, copies>>

\* Mutant of QueueFailed: the contract goes on showing that it is queued.
QueueFailedSilently(h) ==
    /\ At(h, "failed")
    /\ Goes(h, "release")
    /\ UNCHANGED <<redisVars, contractVars, jobVars, storageVars, tallyVars>>

\* Mutant of QueueFailed: the object goes with the failed attempt.
QueueFailedRemoving(h) ==
    /\ At(h, "failed")
    /\ SetStatus(handler[h].id, "failed")
    /\ Goes(h, "release")
    /\ blob' = blob \ {handler[h].key}
    /\ UNCHANGED <<redisVars, deleting, torn, abandoned, jobVars, granted, tallyVars>>

\* The contract shows that it could not be queued.
QueueFailed(h) ==
    /\ At(h, "failed")
    /\ SetStatus(handler[h].id, "failed")
    /\ Goes(h, "release")
    /\ UNCHANGED <<redisVars, deleting, torn, abandoned, jobVars, storageVars,
                   tallyVars>>

-----------------------------------------------------------------------------
(* The reservation is settled *)

\* _FINALIZE_UPLOAD_RESERVATION_LUA: only the lease this request took.
Finalized(h, state) ==
    [p \in Paths |-> IF reservation[p].by = h THEN Free(state) ELSE reservation[p]]

\* The request ends; a call to Redis that fails is only logged.
Settle(h, state) ==
    /\ handler' = [handler EXCEPT ![h] = Quiet]
    /\ IF ~handler[h].lease THEN NoFault /\ UNCHANGED reservation
       ELSE \E heard, ran \in BOOLEAN :
              /\ Command(heard, ran)
              /\ reservation' = IF ran THEN Finalized(h, state) ELSE Forgotten(h)
    /\ UNCHANGED <<mode, refused, left, paid, expired, contractVars, jobVars,
                   storageVars, served, copies, reasons>>

\* Mutant of Mark: the pathname is left open to retries.
MarkRetryable(h) == At(h, "mark") /\ Settle(h, "reserved")

\* The audit event is written, then mark_upload_reservation_consumed.
Mark(h) == At(h, "mark") /\ Settle(h, "consumed")

\* release_upload_reservation after a failure or a refused file.
Release(h) == At(h, "release") /\ Settle(h, "reserved")

\* A call to the database or the storage fails before the job is published, or
\* when the contract should show that it was not.
Fail(h) ==
    /\ handler[h].pc \in {"fetch", "store", "find", "create", "queue", "failed"}
    /\ Fault("failure")
    /\ Goes(h, "release")
    /\ abandoned' = abandoned \cup ({handler[h].id} \ {None})
    /\ UNCHANGED <<redisVars, contract, deleting, torn, jobVars, storageVars,
                   served, copies, reasons>>

\* The process dies.
Crash(h) ==
    /\ ~At(h, "idle")
    /\ Fault("crash")
    /\ handler' = [handler EXCEPT ![h] = Quiet]
    /\ reservation' = Forgotten(h)
    /\ abandoned' = abandoned \cup ({handler[h].id} \ {None})
    /\ UNCHANGED <<mode, refused, left, paid, expired, contract, deleting, torn,
                   jobVars, storageVars, served, copies, reasons>>

-----------------------------------------------------------------------------
(* The worker, and the deletion of a contract *)

\* A job for a contract that is gone comes to nothing.
StartReview(c) ==
    /\ queue[c] > 0 /\ c \notin reviewing
    /\ queue' = [queue EXCEPT ![c] = @ - 1]
    /\ SetStatus(c, "processing")
    /\ reviewing' = IF Live(c) THEN reviewing \cup {c} ELSE reviewing
    /\ UNCHANGED <<redisVars, deleting, torn, abandoned, storageVars, handler,
                   tallyVars>>

\* A version that has its review is ready; without its document it fails.
EndReview(c) ==
    /\ c \in reviewing
    /\ \E good \in BOOLEAN :
         /\ contract[c].reviewed => good
         /\ good => contract[c].reviewed \/ contract[c].key \in blob
         /\ contract' = IF ~Live(c) THEN contract
                        ELSE [contract EXCEPT ![c].status = IF good THEN "ready" ELSE "failed",
                                              ![c].reviewed = good]
    /\ deleting # c
    /\ reviewing' = reviewing \ {c}
    /\ UNCHANGED <<redisVars, deleting, torn, abandoned, queue, storageVars,
                   handler, tallyVars>>

\* DELETE /contracts/{id} locks the row of a contract at rest and removes its object,
DeleteObjects(c) ==
    /\ deleting = None
    /\ Live(c) /\ ~Active(c)
    /\ deleting' = c
    /\ blob' = blob \ {contract[c].key}
    /\ UNCHANGED <<redisVars, contract, torn, abandoned, jobVars, granted, handler,
                   tallyVars>>

\* Someone else counts on the object of c.
Shared(c) == \/ \E d \in Ids \ {c} : Live(d) /\ contract[d].key = contract[c].key
             \/ \E h \in Handlers : /\ handler[h].key = contract[c].key
                                    /\ handler[h].pc \in {"find", "create"}

\* then commits the deletion of its rows,
DeleteRows(c) ==
    /\ deleting = c
    /\ deleting' = None
    /\ contract' = [contract EXCEPT ![c].status = "deleted", ![c].reviewed = FALSE]
    /\ torn' = IF Shared(c) THEN torn \cup {contract[c].key} ELSE torn
    /\ UNCHANGED <<redisVars, abandoned, jobVars, storageVars, handler, tallyVars>>

\* or dies, and the transaction rolls back.
DeleteRollsBack(c) ==
    /\ deleting = c
    /\ Fault("crash")
    /\ deleting' = None
    /\ torn' = torn \cup {contract[c].key}
    /\ UNCHANGED <<redisVars, contract, abandoned, jobVars, storageVars, handler,
                   served, copies, reasons>>

-----------------------------------------------------------------------------
Redis == \E p \in Paths : Authorize(p) \/ Upload(p) \/ Lapse(p) \/ Expire(p)

Request(h) ==
    \/ \E p \in Paths : Acquire(h, p) \/ AcquireUnheard(h, p)
    \/ Form(h)
    \/ Fetch(h) \/ Reject(h) \/ Store(h) \/ Find(h) \/ Create(h)
    \/ Queue(h) \/ Publish(h) \/ PublishFails(h) \/ QueueFailed(h)
    \/ RecordFails(h) \/ Mark(h) \/ Release(h) \/ Fail(h) \/ Crash(h)

Database(c) ==
    \/ StartReview(c) \/ EndReview(c)
    \/ DeleteObjects(c) \/ DeleteRows(c) \/ DeleteRollsBack(c)

Next ==
    \/ Refill
    \/ Redis
    \/ \E h \in Handlers : Request(h)
    \/ \E c \in Ids : Database(c)

Spec == Init /\ [][Next]_vars

-----------------------------------------------------------------------------
(* Properties *)

\* Whoever works under a lease that has not run out is the one Redis names, so two
\* such requests never process one pathname.
OneHolder ==
    \A h \in Handlers :
        handler[h].lease /\ ~handler[h].late =>
            LET r == reservation[handler[h].key] IN r.state = "leased" /\ r.by = h

\* In the enforce mode every reservation was paid for, and once: the loss of a
\* reply, a retried authorization and a released lease charge nothing more.
ReservationIsPaid ==
    \A p \in Paths :
        /\ paid[p] <= expired[p] + 1
        /\ mode = "enforce" /\ reservation[p].state # "missing" => paid[p] = expired[p] + 1
        /\ reservation[p].state = "missing" => paid[p] <= expired[p]

\* A pathname is closed to retries only when a job was published for it.
ConsumedIsQueued ==
    \A p \in Paths : reservation[p].state = "consumed" => copies[p] > 0

\* A pathname has a second review job only after a mishap that hides the first:
\* an unconfirmed publish, a request that failed to write its audit event after
\* the publish (contract_processing.py:260, outside the try, so routes.py:715
\* releases the pathname), a lease or a reservation that ran out, a start without
\* a lease.
RepeatedJobNeedsReason == \A p \in Paths : copies[p] <= 1 + reasons[p]

\* A contract has its document, unless a deletion rolled back after it removed the
\* object, or removed an object another upload of these bytes was about to use.
DocumentIsKept ==
    \A c \in Ids : Live(c) => \/ contract[c].key \in blob \cup torn
                            \/ \E d \in Ids : deleting = d /\ contract[d].key = contract[c].key

\* A contract that shows unfinished work, and so cannot be deleted, has a job, a
\* worker or a request that still carries it, unless a request was cut short.
UnfinishedHasJob ==
    \A c \in Ids : Active(c) =>
        \/ queue[c] > 0 \/ c \in reviewing \/ c \in abandoned
        \/ \E h \in Handlers : handler[h].id = c /\ handler[h].pc \in {"queue", "publish", "failed"}

=============================================================================
