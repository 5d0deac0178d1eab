--------------------------- MODULE Uploads_proofs ---------------------------
(***************************************************************************)
(* Theorems about Uploads, for every set of pathnames and handlers, every  *)
(* allowance, every selection of faults and every bound.                   *)
(***************************************************************************)
EXTENDS Uploads, FiniteSetTheorems, WellFoundedInduction, TLAPS

-----------------------------------------------------------------------------
(* The inductive invariants *)

\* What a request has in hand at each of its steps.
Carrying ==
    \A h \in Handlers :
        /\ At(h, "idle") => handler[h] = Quiet
        /\ handler[h].pc # "idle" => handler[h].key \in Keys
        /\ handler[h].pc = "store" => handler[h].key = FormKey
        /\ handler[h].lease => handler[h].key \in Paths
        /\ handler[h].pc \in {"fetch", "store", "find", "create"} => handler[h].id = None
        /\ handler[h].pc \in {"queue", "publish", "failed"} => handler[h].id \in Ids

\* A lease that somebody holds is the one of that request, which knows that it
\* ran out as soon as it did.
Held ==
    \A p \in Paths : reservation[p].by # None =>
        LET h == reservation[p].by
        IN  /\ reservation[p].state = "leased"
            /\ handler[h].key = p /\ handler[h].lease
            /\ reservation[p].lapsed => handler[h].late

\* A request that is about to close its pathname has published a job for it.
MarkedIsQueued ==
    \A h \in Handlers : (At(h, "mark") /\ handler[h].key \in Paths) => copies[handler[h].key] > 0

UploadsInv == TypeOK /\ Carrying /\ Held /\ OneHolder

\* Requests that may still publish a job for p, or give its pathname back.
Busy(p) == {h \in Handlers : handler[h].key = p
                             /\ handler[h].pc \in {"fetch", "find", "create", "queue", "publish",
                                                   "failed", "release"}}

\* Another request may take p up.
Vacant(p) == IF reservation[p].state \in {"missing", "reserved"} \/ reservation[p].lapsed
             THEN 1 ELSE 0

\* Every job that was or may be published for p beyond the first has its reason.
Accounted ==
    \A p \in Paths : copies[p] + Cardinality(Busy(p)) + Vacant(p) <= 1 + reasons[p]

\* The objects that are in the storage, that went under a contract that stays, or
\* that the deletion in progress has removed.
Findable == blob \cup torn \cup {contract[d].key : d \in Ids \cap {deleting}}

\* A request that is to enter a contract has its object, as far as it can know, and
\* so has every contract.
ObjectsPresent ==
    /\ \A h \in Handlers : handler[h].pc \in {"find", "create"} =>
          handler[h].key \notin refused /\ handler[h].key \in Findable
    /\ \A c \in Ids : Live(c) => contract[c].key \notin refused /\ contract[c].key \in Findable
    /\ deleting # None => Live(deleting)

-----------------------------------------------------------------------------
(* Ids *)

\* A set of ids has a newest one.
LEMMA NewestExists ==
    ASSUME NEW found \in SUBSET Ids, found # {}
    PROVE  \E c \in found : \A d \in found : d <= c
<1> DEFINE R == {ss \in Nat \X Nat : ss[1] < ss[2]}
           T == {MaxContracts - d : d \in found}
<1>1. OpToRel(<, Nat) = R
  BY DEF OpToRel
<1>2. IsWellFoundedOn(R, Nat)
  BY <1>1, NatLessThanWellFounded
<1>3. T \subseteq Nat /\ T # {}
  <2>1. MaxContracts \in Nat /\ \A d \in found : d \in 1..MaxContracts
    BY UploadsAssumption DEF Ids
  <2>2. \A d \in found : MaxContracts - d \in Nat
    BY <2>1
  <2>3. QED
    BY <2>2
<1>4. \E x \in T : \A y \in T : ~ (<<y, x>> \in R)
  <2> HIDE DEF R, T
  <2>1. QED
    BY <1>2, <1>3, WFMin
<1>5. PICK c \in found : \A d \in found : ~ (<<MaxContracts - d, MaxContracts - c>> \in R)
  BY <1>4
<1>6. \A d \in found : d \in Nat /\ MaxContracts - d \in Nat
  BY UploadsAssumption DEF Ids
<1>7. \A d \in found : ~(MaxContracts - d < MaxContracts - c)
  BY <1>5, <1>6
<1>8. QED
  BY <1>6, <1>7, UploadsAssumption

-----------------------------------------------------------------------------
(* Requests *)

Places == {"idle", "fetch", "store", "find", "create", "queue",
           "publish", "failed", "mark", "release"}

LEMMA QuietFields ==
    /\ Quiet \in Handler /\ Quiet.pc = "idle" /\ Quiet.key = None /\ ~Quiet.lease
    /\ ~Quiet.late /\ Quiet.id = None
BY DEF Quiet, Handler

\* A request that goes on keeps what it carries.
LEMMA GoesEffect ==
    ASSUME TypeOK, NEW h \in Handlers, NEW pc \in Places, Goes(h, pc)
    PROVE  /\ handler' \in [Handlers -> Handler] /\ handler'[h].pc = pc
           /\ handler'[h].key = handler[h].key /\ handler'[h].lease = handler[h].lease
           /\ handler'[h].late = handler[h].late /\ handler'[h].id = handler[h].id
           /\ \A g \in Handlers \ {h} : handler'[g] = handler[g]
BY DEF Goes, TypeOK, Handler, Places

\* What a step may do to the requests: nothing, or one of them begins, goes on,
\* comes to its end, or hears later that its lease ran out.
Begins(h) ==
    /\ At(h, "idle")
    /\ \E key \in Keys, lease \in BOOLEAN :
         /\ handler'[h].key = key /\ handler'[h].lease = lease
         /\ handler'[h].pc \in {"fetch", "store"} /\ handler'[h].id = None /\ ~handler'[h].late
         /\ lease => key \in Paths /\ handler'[h].pc = "fetch"
         /\ handler'[h].pc = "store" <=> key = FormKey

GoesOn(h) ==
    /\ ~At(h, "idle") /\ handler'[h].pc \notin {"idle", "store"}
    /\ handler'[h].key = handler[h].key /\ handler'[h].lease = handler[h].lease
    /\ handler'[h].late = handler[h].late
    /\ handler'[h].pc \in {"fetch", "store", "find", "create"} => handler'[h].id = None
    /\ handler'[h].pc \in {"queue", "publish", "failed"} => handler'[h].id \in Ids

Ends(h) == handler'[h] = Quiet

RunsLate(h) ==
    /\ handler'[h].pc = handler[h].pc /\ handler'[h].key = handler[h].key
    /\ handler'[h].lease = handler[h].lease /\ handler'[h].id = handler[h].id
    /\ handler'[h].late /\ handler[h].lease

RequestStep ==
    /\ handler' \in [Handlers -> Handler]
    /\ \/ handler' = handler
       \/ \E h \in Handlers :
            /\ \A g \in Handlers \ {h} : handler'[g] = handler[g]
            /\ Begins(h) \/ GoesOn(h) \/ Ends(h) \/ RunsLate(h)

LEMMA BegunEffect ==
    ASSUME TypeOK, NEW h \in Handlers, NEW p \in Paths, NEW leased \in BOOLEAN,
           At(h, "idle"), Begun(h, p, leased)
    PROVE  /\ handler' \in [Handlers -> Handler]
           /\ \A g \in Handlers \ {h} : handler'[g] = handler[g]
           /\ Begins(h) /\ handler'[h].key = p /\ handler'[h].lease = leased
           /\ handler'[h].pc = "fetch" /\ served' \in 0..MaxRequests
<1> DEFINE w == [Quiet EXCEPT !.pc = "fetch", !.key = p, !.lease = leased]
<1>1. /\ w \in Handler /\ w.pc = "fetch" /\ w.key = p /\ w.lease = leased
      /\ ~w.late /\ w.id = None
  BY QuietFields DEF Handler, Keys
<1>2. handler' = [handler EXCEPT ![h] = w] /\ served < MaxRequests /\ served' = served + 1
  BY DEF Begun
<1> HIDE DEF w
<1>3. handler'[h] = w /\ handler' \in [Handlers -> Handler]
      /\ \A g \in Handlers \ {h} : handler'[g] = handler[g]
  BY <1>1, <1>2 DEF TypeOK
<1>4. served' \in 0..MaxRequests
  BY <1>2, UploadsAssumption DEF TypeOK
<1>5. Begins(h)
  BY <1>1, <1>3, UploadsAssumption DEF Begins, Keys
<1>6. QED
  BY <1>1, <1>3, <1>4, <1>5

\* Every operation of a request but its beginning moves it on, or ends it.
Proceeds(h) ==
    \/ Fetch(h) \/ Reject(h) \/ Store(h) \/ Find(h) \/ Create(h)
    \/ Queue(h) \/ Publish(h) \/ PublishFails(h) \/ QueueFailed(h)
    \/ RecordFails(h) \/ Fail(h)

Leaves(h) == Mark(h) \/ Release(h) \/ Crash(h)

LEMMA ProceedsEffect ==
    ASSUME TypeOK, Carrying, NEW h \in Handlers, Proceeds(h)
    PROVE  /\ handler' \in [Handlers -> Handler] /\ GoesOn(h)
           /\ \A g \in Handlers \ {h} : handler'[g] = handler[g]
<1> USE DEF At
<1>1. ASSUME NEW pc \in {"release", "find", "mark"}, Goes(h, pc), handler[h].pc # "idle",
             pc = "find" => handler[h].id = None
      PROVE  /\ handler' \in [Handlers -> Handler] /\ GoesOn(h)
             /\ \A g \in Handlers \ {h} : handler'[g] = handler[g]
  BY <1>1, GoesEffect DEF GoesOn, Places
<1>2. ASSUME NEW pc \in {"publish", "failed"}, Goes(h, pc), handler[h].pc \in {"queue", "publish"}
      PROVE  /\ handler' \in [Handlers -> Handler] /\ GoesOn(h)
             /\ \A g \in Handlers \ {h} : handler'[g] = handler[g]
  BY <1>2, GoesEffect DEF GoesOn, Places, Carrying
<1>3. CASE Fetch(h) \/ Reject(h) \/ Store(h)
  BY <1>1, <1>3 DEF Fetch, Reject, Store, Carrying
<1>4. CASE Find(h)
  <2> DEFINE found == {c \in Ids : Live(c)}
             pc == IF found = {} THEN "create" ELSE "queue"
             id == IF found = {} THEN None ELSE CHOOSE c \in found : \A d \in found : d <= c
  <2>1. found # {} => id \in Ids
    <3> SUFFICES ASSUME found # {} PROVE \E c \in found : \A d \in found : d <= c
      OBVIOUS
    <3>1. found \subseteq Ids
      OBVIOUS
    <3> HIDE DEF found
    <3>2. QED
      BY <3>1, NewestExists
  <2>2. /\ handler' = [handler EXCEPT ![h].pc = pc, ![h].id = id] /\ handler[h].pc = "find"
    BY <1>4 DEF Find
  <2>3. pc \in {"create", "queue"} /\ id \in Ids \cup {None}
        /\ (pc = "create" => id = None) /\ (pc = "queue" => id \in Ids)
    BY <2>1
  <2> HIDE DEF pc, id
  <2>4. /\ handler' \in [Handlers -> Handler] /\ handler'[h].pc = pc /\ handler'[h].id = id
        /\ handler'[h].key = handler[h].key /\ handler'[h].lease = handler[h].lease
        /\ handler'[h].late = handler[h].late
        /\ \A g \in Handlers \ {h} : handler'[g] = handler[g]
    BY <2>2, <2>3 DEF TypeOK, Handler
  <2>5. QED
    BY <2>2, <2>3, <2>4 DEF GoesOn
<1>5. CASE Create(h)
  <2>1. PICK c \in Ids : handler' = [handler EXCEPT ![h].pc = "queue", ![h].id = c]
                         /\ handler[h].pc = "create"
    BY <1>5 DEF Create
  <2>2. /\ handler' \in [Handlers -> Handler] /\ handler'[h].pc = "queue" /\ handler'[h].id = c
        /\ handler'[h].key = handler[h].key /\ handler'[h].lease = handler[h].lease
        /\ handler'[h].late = handler[h].late
        /\ \A g \in Handlers \ {h} : handler'[g] = handler[g]
    BY <2>1 DEF TypeOK, Handler
  <2>3. QED
    BY <2>1, <2>2 DEF GoesOn
<1>6. CASE \/ Queue(h) \/ Publish(h) \/ PublishFails(h) \/ QueueFailed(h)
           \/ RecordFails(h) \/ Fail(h)
  BY <1>1, <1>2, <1>6 DEF Queue, Publish, PublishFails, QueueFailed, RecordFails, Fail
<1>7. QED
  BY <1>3, <1>4, <1>5, <1>6 DEF Proceeds

LEMMA LeavesEffect ==
    ASSUME TypeOK, NEW h \in Handlers, Leaves(h)
    PROVE  /\ handler' \in [Handlers -> Handler] /\ handler'[h] = Quiet
           /\ \A g \in Handlers \ {h} : handler'[g] = handler[g]
BY QuietFields DEF Leaves, Mark, Release, Crash, Settle, TypeOK

\* Every step is one of these.
LEMMA Steps ==
    ASSUME Next
    PROVE  \/ Refill
           \/ \E p \in Paths : Authorize(p) \/ Upload(p) \/ Lapse(p) \/ Expire(p)
           \/ \E h \in Handlers, p \in Paths : Acquire(h, p) \/ AcquireUnheard(h, p)
           \/ \E h \in Handlers : Form(h) \/ Proceeds(h) \/ Leaves(h)
           \/ \E c \in Ids : Database(c)
BY DEF Next, Redis, Request, Proceeds, Leaves

LEMMA FormEffect ==
    ASSUME TypeOK, NEW h \in Handlers, Form(h)
    PROVE  /\ handler' \in [Handlers -> Handler] /\ served' \in 0..MaxRequests
           /\ \A g \in Handlers \ {h} : handler'[g] = handler[g]
           /\ handler' = handler \/ (/\ Begins(h) /\ handler'[h].key = FormKey
                                     /\ ~handler'[h].lease /\ handler'[h].pc = "store")
<1>1. CASE UNCHANGED <<served, handler>>
  BY <1>1 DEF TypeOK
<1>2. CASE ~UNCHANGED <<served, handler>>
  <2> DEFINE w == [Quiet EXCEPT !.pc = "store", !.key = FormKey]
  <2>1. /\ w \in Handler /\ w.pc = "store" /\ w.key = FormKey /\ ~w.lease /\ w.lease \in BOOLEAN
        /\ ~w.late /\ w.id = None
    BY QuietFields DEF Handler, Keys
  <2>2. /\ handler' = [handler EXCEPT ![h] = w] /\ served < MaxRequests /\ served' = served + 1
        /\ At(h, "idle")
    BY <1>2 DEF Form
  <2> HIDE DEF w
  <2>3. handler'[h] = w /\ handler' \in [Handlers -> Handler]
        /\ \A g \in Handlers \ {h} : handler'[g] = handler[g]
    BY <2>1, <2>2 DEF TypeOK
  <2>4. served' \in 0..MaxRequests
    BY <2>2, UploadsAssumption DEF TypeOK
  <2>5. Begins(h)
    BY <2>1, <2>2, <2>3 DEF Begins, Keys
  <2>6. QED
    BY <2>1, <2>3, <2>4, <2>5
<1>3. QED
  BY <1>1, <1>2

\* A lease that runs out is noticed by whoever holds it.
LEMMA LapseEffect ==
    ASSUME TypeOK, Held, NEW p \in Paths, Lapse(p)
    PROVE  /\ handler' \in [Handlers -> Handler]
           /\ reservation[p].by = None => handler' = handler
           /\ reservation[p].by # None =>
                /\ reservation[p].by \in Handlers /\ RunsLate(reservation[p].by)
                /\ \A g \in Handlers \ {reservation[p].by} : handler'[g] = handler[g]
<1>1. reservation[p].by \in Handlers \cup {None}
  BY DEF TypeOK, Reservation
<1>2. CASE reservation[p].by = None
  BY <1>2 DEF Lapse, TypeOK
<1>3. CASE reservation[p].by # None
  <2>1. handler' = [handler EXCEPT ![reservation[p].by].late = TRUE]
        /\ handler[reservation[p].by].lease
    BY <1>3 DEF Lapse, Held
  <2>2. QED
    BY <1>1, <1>3, <2>1 DEF TypeOK, Handler, RunsLate
<1>4. QED
  BY <1>2, <1>3

\* Requests move one at a time, in one of these ways.
LEMMA StepRequests == ASSUME TypeOK, Carrying, Held, Next PROVE RequestStep
<1>1. ASSUME NEW h \in Handlers, NEW p \in Paths, Acquire(h, p) PROVE RequestStep
  BY <1>1, BegunEffect DEF Acquire, RequestStep
<1>2. ASSUME NEW h \in Handlers, NEW p \in Paths, AcquireUnheard(h, p) PROVE RequestStep
  <2>1. CASE Begun(h, p, FALSE)
    BY <1>2, <2>1, BegunEffect DEF AcquireUnheard, RequestStep
  <2>2. CASE handler' = handler
    BY <2>2 DEF RequestStep, TypeOK
  <2>3. QED
    BY <1>2, <2>1, <2>2 DEF AcquireUnheard
<1>3. ASSUME NEW h \in Handlers, Form(h) PROVE RequestStep
  BY <1>3, FormEffect DEF RequestStep
<1>4. ASSUME NEW h \in Handlers, Proceeds(h) PROVE RequestStep
  BY <1>4, ProceedsEffect DEF RequestStep
<1>5. ASSUME NEW h \in Handlers, Leaves(h) PROVE RequestStep
  BY <1>5, LeavesEffect DEF RequestStep, Ends
<1>6. ASSUME NEW p \in Paths, Lapse(p) PROVE RequestStep
  BY <1>6, LapseEffect DEF RequestStep
<1>7. CASE handler' = handler
  BY <1>7 DEF RequestStep, TypeOK
<1>8. QED
  BY <1>1, <1>2, <1>3, <1>4, <1>5, <1>6, <1>7, Steps
     DEF Refill, Authorize, Upload, Expire, Database, StartReview, EndReview,
         DeleteObjects, DeleteRows, DeleteRollsBack

\* What a request has in hand at each of its steps stays right.
LEMMA StepCarrying == ASSUME TypeOK, Carrying, RequestStep PROVE Carrying'
<1>1. CASE handler' = handler
  BY <1>1 DEF Carrying, At
<1>2. ASSUME NEW h \in Handlers, Begins(h) \/ GoesOn(h) \/ Ends(h) \/ RunsLate(h)
      PROVE  /\ handler'[h].pc = "idle" => handler'[h] = Quiet
             /\ handler'[h].pc # "idle" => handler'[h].key \in Keys
             /\ handler'[h].pc = "store" => handler'[h].key = FormKey
             /\ handler'[h].lease => handler'[h].key \in Paths
             /\ handler'[h].pc \in {"fetch", "store", "find", "create"} => handler'[h].id = None
             /\ handler'[h].pc \in {"queue", "publish", "failed"} => handler'[h].id \in Ids
  <2>1. CASE Begins(h)
    BY <2>1 DEF Begins
  <2>2. CASE GoesOn(h)
    BY <2>2 DEF GoesOn, Carrying, At
  <2>3. CASE Ends(h)
    BY <2>3, QuietFields DEF Ends
  <2>4. CASE RunsLate(h)
    BY <2>4, QuietFields DEF RunsLate, Carrying, At
  <2>5. QED
    BY <1>2, <2>1, <2>2, <2>3, <2>4
<1>3. QED
  BY <1>1, <1>2 DEF RequestStep, Carrying, At

-----------------------------------------------------------------------------
(* Type correctness *)

LEMMA FaultType ==
    ASSUME TypeOK, NEW kind
    PROVE  (Fault(kind) \/ NoFault) => mishaps' \in 0..MaxFaults
BY UploadsAssumption DEF TypeOK, Fault, NoFault

LEMMA FreeType ==
    ASSUME NEW state \in {"missing", "reserved", "consumed"}
    PROVE  /\ Free(state) \in Reservation /\ Free(state).state = state
           /\ Free(state).by = None /\ ~Free(state).lapsed
BY DEF Free, Reservation

LEMMA LeasedType ==
    ASSUME TypeOK, NEW p \in Paths, NEW h \in Handlers \cup {None}
    PROVE  Leased(p, h) \in [Paths -> Reservation]
BY DEF Leased, TypeOK, Reservation

LEMMA ForgottenType ==
    ASSUME TypeOK, NEW h \in Handlers
    PROVE  Forgotten(h) \in [Paths -> Reservation]
BY DEF Forgotten, TypeOK, Reservation

LEMMA LapsedType ==
    ASSUME TypeOK, NEW p \in Paths
    PROVE  [reservation[p] EXCEPT !.lapsed = TRUE] \in Reservation
<1>1. reservation[p] \in Reservation
  BY DEF TypeOK
<1>2. QED
  BY <1>1 DEF Reservation

\* The rows that Redis, the counters and the storage hold.
LEMMA RedisType ==
    ASSUME TypeOK, Carrying, Next
    PROVE  /\ reservation' \in [Paths -> Reservation] /\ left' \in 0..Limit
           /\ paid' \in [Paths -> Nat] /\ expired' \in [Paths -> Nat]
           /\ mode' = mode /\ refused' = refused
<1> USE UploadsAssumption DEF TypeOK
<1>1. CASE Refill
  BY <1>1 DEF Refill
<1>2. ASSUME NEW p \in Paths, Authorize(p)
      PROVE  /\ reservation' \in [Paths -> Reservation] /\ left' \in 0..Limit
             /\ paid' \in [Paths -> Nat] /\ expired' \in [Paths -> Nat]
             /\ mode' = mode /\ refused' = refused
  <2>1. CASE UNCHANGED <<left, reservation, paid>>
    BY <1>2, <2>1 DEF Authorize
  <2>2. CASE /\ reservation' = [reservation EXCEPT ![p] = Free("reserved")]
             /\ \/ UNCHANGED <<left, paid>>
                \/ left # 0 /\ left' = left - 1 /\ paid' = [paid EXCEPT ![p] = @ + 1]
    <3>1. reservation' \in [Paths -> Reservation]
      BY <2>2, FreeType
    <3>2. left' \in 0..Limit /\ paid' \in [Paths -> Nat]
      BY <2>2
    <3>3. QED
      BY <1>2, <3>1, <3>2 DEF Authorize
  <2>3. QED
    BY <1>2, <2>1, <2>2 DEF Authorize, Reserve
<1>3. ASSUME NEW p \in Paths, Upload(p)
      PROVE  UNCHANGED <<mode, refused, left, reservation, paid, expired>>
  BY <1>3 DEF Upload, redisVars
<1>4. ASSUME NEW p \in Paths, Lapse(p)
      PROVE  reservation' \in [Paths -> Reservation] /\ UNCHANGED <<mode, refused, left, paid, expired>>
  <2>1. reservation' = [reservation EXCEPT ![p].lapsed = TRUE]
    BY <1>4 DEF Lapse
  <2>2. UNCHANGED <<mode, refused, left, paid, expired>>
    BY <1>4 DEF Lapse
  <2>3. [reservation[p] EXCEPT !.lapsed = TRUE] \in Reservation
    BY LapsedType
  <2>4. QED
    BY <2>1, <2>2, <2>3
<1>5. ASSUME NEW p \in Paths, Expire(p)
      PROVE  /\ reservation' \in [Paths -> Reservation] /\ expired' \in [Paths -> Nat]
             /\ UNCHANGED <<mode, refused, left, paid>>
  BY <1>5, FreeType DEF Expire
<1>6. ASSUME NEW h \in Handlers, NEW p \in Paths, Acquire(h, p) \/ AcquireUnheard(h, p)
      PROVE  reservation' \in [Paths -> Reservation] /\ UNCHANGED <<mode, refused, left, paid, expired>>
  <2>1. Leased(p, h) \in [Paths -> Reservation] /\ Leased(p, None) \in [Paths -> Reservation]
    BY LeasedType
  <2>2. CASE Acquire(h, p)
    BY <2>1, <2>2 DEF Acquire
  <2>3. CASE AcquireUnheard(h, p)
    <3>1. reservation' \in {reservation} \cup (IF Acquirable(p) THEN {Leased(p, None)} ELSE {})
      BY <2>3 DEF AcquireUnheard
    <3>2. reservation' = reservation \/ reservation' = Leased(p, None)
      BY <3>1
    <3>3. UNCHANGED <<mode, refused, left, paid, expired>>
      BY <2>3 DEF AcquireUnheard
    <3>4. QED
      BY <2>1, <3>2, <3>3
  <2>4. QED
    BY <1>6, <2>2, <2>3
<1>7. ASSUME NEW h \in Handlers, Form(h)
      PROVE  left' \in 0..Limit /\ UNCHANGED <<mode, refused, reservation, paid, expired>>
  BY <1>7 DEF Form
<1>8. ASSUME NEW h \in Handlers, Proceeds(h)
      PROVE  UNCHANGED <<mode, refused, left, reservation, paid, expired>>
  BY <1>8 DEF Proceeds, Fetch, Reject, Store, Find, Create, Queue, Publish, PublishFails,
              QueueFailed, RecordFails, Fail, redisVars
<1>9. ASSUME NEW h \in Handlers, Leaves(h)
      PROVE  reservation' \in [Paths -> Reservation] /\ UNCHANGED <<mode, refused, left, paid, expired>>
  <2>1. \A state \in {"consumed", "reserved"} : Finalized(h, state) \in [Paths -> Reservation]
    BY FreeType DEF Finalized
  <2>2. CASE reservation' \in {reservation, Forgotten(h), Finalized(h, "consumed"),
                               Finalized(h, "reserved")}
    BY <1>9, <2>1, <2>2, ForgottenType DEF Leaves, Mark, Release, Crash, Settle
  <2>3. QED
    BY <1>9, <2>2 DEF Leaves, Mark, Release, Crash, Settle
<1>10. ASSUME NEW c \in Ids, Database(c)
       PROVE  UNCHANGED <<mode, refused, left, reservation, paid, expired>>
  BY <1>10 DEF Database, StartReview, EndReview, DeleteObjects, DeleteRows, DeleteRollsBack,
               redisVars
<1>11. QED
  BY <1>1, <1>2, <1>3, <1>4, <1>5, <1>6, <1>7, <1>8, <1>9, <1>10, Steps

\* The rows that the database and the queue hold.
LEMMA RowsType ==
    ASSUME TypeOK, Carrying, Next
    PROVE  /\ contract' \in [Ids -> Contract] /\ deleting' \in Ids \cup {None}
           /\ queue' \in [Ids -> 0..MaxJobs] /\ reviewing' \subseteq Ids
           /\ torn' \subseteq Keys \cup {None} /\ abandoned' \subseteq Ids
<1> DEFINE Typed == /\ contract' \in [Ids -> Contract] /\ deleting' \in Ids \cup {None}
                    /\ queue' \in [Ids -> 0..MaxJobs] /\ reviewing' \subseteq Ids
                    /\ torn' \subseteq Keys \cup {None} /\ abandoned' \subseteq Ids
<1>1. UNCHANGED <<contractVars, jobVars>> => Typed
  BY DEF TypeOK, contractVars, jobVars
<1>2. ASSUME NEW c \in Ids, NEW status \in {"queued", "processing", "failed"}, SetStatus(c, status)
      PROVE  contract' \in [Ids -> Contract]
  BY <1>2 DEF SetStatus, TypeOK, Contract
<1>3. ASSUME NEW h \in Handlers, Proceeds(h) PROVE Typed
  <2>1. ASSUME handler[h].id \in Ids, Waiting(h) PROVE queue' \in [Ids -> 0..MaxJobs]
    <3>1. queue[handler[h].id] + 1 \in 0..MaxJobs
      BY <2>1, UploadsAssumption DEF Waiting, TypeOK
    <3>2. QED
      BY <2>1, <3>1 DEF Waiting, TypeOK
  <2>2. handler[h].id \in Ids \cup {None} /\ handler[h].key \in Keys \cup {None}
    BY DEF TypeOK, Handler
  <2>3. CASE Create(h)
    <3>1. PICK c \in Ids : contract' = [contract EXCEPT ![c] =
             [status |-> "received", key |-> handler[h].key, reviewed |-> FALSE]]
      BY <2>3 DEF Create
    <3>2. contract' \in [Ids -> Contract]
      BY <2>2, <3>1 DEF TypeOK, Contract
    <3>3. QED
      BY <2>3, <3>2 DEF Create, TypeOK, jobVars
  <2>4. CASE Queue(h) \/ QueueFailed(h)
    <3>1. handler[h].id \in Ids
      BY <2>4 DEF Queue, QueueFailed, Carrying, At
    <3>2. contract' \in [Ids -> Contract]
      BY <1>2, <2>4, <3>1 DEF Queue, QueueFailed
    <3>3. QED
      BY <2>4, <3>2 DEF Queue, QueueFailed, TypeOK, jobVars
  <2>5. CASE Publish(h) \/ PublishFails(h)
    <3>1. handler[h].id \in Ids
      BY <2>5 DEF Publish, PublishFails, Carrying, At
    <3>2. queue' \in [Ids -> 0..MaxJobs]
      BY <2>1, <2>5, <3>1 DEF Publish, PublishFails, TypeOK
    <3>3. QED
      BY <2>5, <3>2 DEF Publish, PublishFails, TypeOK, contractVars
  <2>6. CASE Fail(h)
    BY <2>2, <2>6 DEF Fail, TypeOK, jobVars
  <2>7. QED
    BY <1>1, <1>3, <2>3, <2>4, <2>5, <2>6 DEF Proceeds, Fetch, Reject, Store, Find, RecordFails
<1>4. ASSUME NEW h \in Handlers, Leaves(h) PROVE Typed
  <2>1. handler[h].id \in Ids \cup {None}
    BY DEF TypeOK, Handler
  <2>2. CASE Crash(h)
    BY <2>1, <2>2 DEF Crash, TypeOK, jobVars
  <2>3. QED
    BY <1>1, <1>4, <2>2 DEF Leaves, Mark, Release, Settle
<1>5. ASSUME NEW c \in Ids, Database(c) PROVE Typed
  <2>1. CASE StartReview(c)
    <3>1. queue[c] - 1 \in 0..MaxJobs
      BY <2>1, UploadsAssumption DEF StartReview, TypeOK
    <3>2. queue' \in [Ids -> 0..MaxJobs]
      BY <2>1, <3>1 DEF StartReview, TypeOK
    <3>3. contract' \in [Ids -> Contract]
      BY <1>2, <2>1 DEF StartReview
    <3>4. QED
      BY <2>1, <3>2, <3>3 DEF StartReview, TypeOK
  <2>2. CASE EndReview(c)
    <3>1. PICK status \in {"ready", "failed"}, good \in BOOLEAN :
             \/ contract' = contract
             \/ contract' = [contract EXCEPT ![c].status = status, ![c].reviewed = good]
      BY <2>2 DEF EndReview
    <3>2. /\ contract \in [Ids -> Contract]
          /\ [contract[c] EXCEPT !.status = status, !.reviewed = good] \in Contract
      <4>1. contract \in [Ids -> Contract] /\ contract[c] \in Contract
        BY DEF TypeOK
      <4>2. QED
        BY <4>1 DEF Contract
    <3>3. contract' \in [Ids -> Contract]
      BY <3>1, <3>2
    <3>4. QED
      BY <2>2, <3>3 DEF EndReview, TypeOK
  <2>3. CASE DeleteObjects(c)
    BY <2>3 DEF DeleteObjects, TypeOK, jobVars
  <2>4. CASE DeleteRows(c)
    <3>1. contract[c].key \in Keys \cup {None}
      BY DEF TypeOK, Contract
    <3>2. contract' \in [Ids -> Contract]
      BY <2>4 DEF DeleteRows, TypeOK, Contract
    <3>3. QED
      BY <2>4, <3>1, <3>2 DEF DeleteRows, TypeOK, jobVars
  <2>5. CASE DeleteRollsBack(c)
    BY <2>5 DEF DeleteRollsBack, TypeOK, Contract, jobVars
  <2>6. QED
    BY <1>5, <2>1, <2>2, <2>3, <2>4, <2>5 DEF Database
<1>6. QED
  BY <1>1, <1>3, <1>4, <1>5, Steps
     DEF Refill, Authorize, Upload, Lapse, Expire, Acquire, AcquireUnheard, Form

LEMMA AddNat == \A n \in Nat : n + 1 \in Nat
OBVIOUS

LEMMA ReasonedType ==
    ASSUME TypeOK, NEW h \in Handlers, Reasoned(h)
    PROVE  reasons' \in [Paths -> Nat]
BY AddNat DEF Reasoned, TypeOK

\* The storage, and what is counted.
LEMMA TallyType ==
    ASSUME TypeOK, Carrying, Next
    PROVE  /\ granted' \subseteq Paths /\ blob' \subseteq Keys
           /\ served' \in 0..MaxRequests /\ mishaps' \in 0..MaxFaults
           /\ copies' \in [Paths -> Nat] /\ reasons' \in [Paths -> Nat]
<1> DEFINE Typed == /\ granted' \subseteq Paths /\ blob' \subseteq Keys
                    /\ served' \in 0..MaxRequests /\ mishaps' \in 0..MaxFaults
                    /\ copies' \in [Paths -> Nat] /\ reasons' \in [Paths -> Nat]
<1>1. UNCHANGED <<storageVars, tallyVars>> => Typed
  BY DEF TypeOK, storageVars, tallyVars
<1>2. ASSUME NEW p \in Paths, reasons' = [reasons EXCEPT ![p] = @ + 1]
      PROVE  reasons' \in [Paths -> Nat]
  BY <1>2, AddNat DEF TypeOK
<1>3. ASSUME NEW h \in Handlers, Counted(h) PROVE copies' \in [Paths -> Nat]
  BY <1>3, AddNat DEF Counted, TypeOK
<1>4. \A kind : Fault(kind) => mishaps' \in 0..MaxFaults
  BY FaultType
<1>5. NoFault => mishaps' \in 0..MaxFaults
  BY DEF NoFault, TypeOK
<1>6. ASSUME NEW p \in Paths, Authorize(p) \/ Upload(p) \/ Lapse(p) \/ Expire(p) PROVE Typed
  <2>1. CASE Authorize(p)
    <3>1. granted' \subseteq Paths
      BY <2>1 DEF Authorize, TypeOK
    <3>2. mishaps' \in 0..MaxFaults
      BY <2>1, <1>4, <1>5 DEF Authorize, Command
    <3>3. QED
      BY <2>1, <3>1, <3>2 DEF Authorize, TypeOK
  <2>2. CASE Upload(p)
    BY <2>2 DEF Upload, TypeOK, tallyVars, Keys
  <2>3. CASE Lapse(p)
    <3>1. mishaps' \in 0..MaxFaults
      BY <2>3, <1>4, <1>5 DEF Lapse
    <3>2. reasons' \in [Paths -> Nat]
      BY <2>3, <1>2 DEF Lapse
    <3>3. QED
      BY <2>3, <3>1, <3>2 DEF Lapse, TypeOK, storageVars
  <2>4. CASE Expire(p)
    <3>1. mishaps' \in 0..MaxFaults
      BY <2>4, <1>4 DEF Expire
    <3>2. reasons' \in [Paths -> Nat]
      BY <2>4, <1>2 DEF Expire
    <3>3. QED
      BY <2>4, <3>1, <3>2 DEF Expire, TypeOK, storageVars
  <2>5. QED
    BY <1>6, <2>1, <2>2, <2>3, <2>4
<1>7. ASSUME NEW h \in Handlers, NEW p \in Paths, Acquire(h, p) \/ AcquireUnheard(h, p)
      PROVE  Typed
  <2>1. CASE Acquire(h, p)
    <3>1. served' \in 0..MaxRequests
      BY <2>1, BegunEffect DEF Acquire
    <3>2. QED
      BY <2>1, <3>1, <1>5 DEF Acquire, TypeOK, storageVars
  <2>2. CASE AcquireUnheard(h, p)
    <3>1. Begun(h, p, FALSE) => served' \in 0..MaxRequests
      BY <2>2, BegunEffect DEF AcquireUnheard
    <3>2. served' \in 0..MaxRequests /\ reasons' \in [Paths -> Nat]
      BY <2>2, <3>1, <1>2 DEF AcquireUnheard, TypeOK
    <3>3. mishaps' \in 0..MaxFaults
      BY <2>2, <1>4 DEF AcquireUnheard
    <3>4. QED
      BY <2>2, <3>2, <3>3 DEF AcquireUnheard, TypeOK, storageVars
  <2>3. QED
    BY <1>7, <2>1, <2>2
<1>8. ASSUME NEW h \in Handlers, Form(h) PROVE Typed
  <2>1. mishaps' \in 0..MaxFaults
    BY <1>8, <1>4, <1>5 DEF Form, Command
  <2>2. QED
    BY <1>8, <2>1, FormEffect DEF Form, TypeOK, storageVars
<1>9. ASSUME NEW h \in Handlers, Proceeds(h) PROVE Typed
  <2>1. CASE Reject(h)
    BY <2>1 DEF Reject, TypeOK, tallyVars
  <2>2. CASE Store(h)
    BY <2>2 DEF Store, TypeOK, tallyVars, Keys
  <2>3. CASE Publish(h)
    <3>1. copies' \in [Paths -> Nat]
      BY <2>3, <1>3 DEF Publish
    <3>2. QED
      BY <2>3, <3>1 DEF Publish, TypeOK, storageVars
  <2>4. CASE PublishFails(h)
    <3>1. mishaps' \in 0..MaxFaults
      BY <2>4, <1>4 DEF PublishFails
    <3>2. copies' \in [Paths -> Nat]
      BY <2>4, <1>3 DEF PublishFails, TypeOK
    <3>3. reasons' \in [Paths -> Nat]
      BY <2>4, ReasonedType DEF PublishFails, TypeOK
    <3>4. QED
      BY <2>4, <3>1, <3>2, <3>3 DEF PublishFails, TypeOK, storageVars
  <2>5. CASE Fail(h)
    <3>1. mishaps' \in 0..MaxFaults
      BY <2>5, <1>4 DEF Fail
    <3>2. QED
      BY <2>5, <3>1 DEF Fail, TypeOK, storageVars
  <2>6. CASE RecordFails(h)
    <3>1. mishaps' \in 0..MaxFaults
      BY <2>6, <1>4 DEF RecordFails
    <3>2. reasons' \in [Paths -> Nat]
      BY <2>6, ReasonedType DEF RecordFails
    <3>3. QED
      BY <2>6, <3>1, <3>2 DEF RecordFails, TypeOK, storageVars
  <2>7. QED
    BY <1>1, <1>9, <2>1, <2>2, <2>3, <2>4, <2>5, <2>6
       DEF Proceeds, Fetch, Find, Create, Queue, QueueFailed
<1>10. ASSUME NEW h \in Handlers, Leaves(h) PROVE Typed
  <2>1. mishaps' \in 0..MaxFaults
    BY <1>10, <1>4, <1>5 DEF Leaves, Mark, Release, Settle, Crash, Command
  <2>2. UNCHANGED <<storageVars, served, copies, reasons>>
    BY <1>10 DEF Leaves, Mark, Release, Settle, Crash
  <2>3. QED
    BY <2>1, <2>2 DEF TypeOK, storageVars
<1>11. ASSUME NEW c \in Ids, Database(c) PROVE Typed
  <2>1. CASE DeleteObjects(c)
    BY <2>1 DEF DeleteObjects, TypeOK, tallyVars
  <2>2. CASE DeleteRollsBack(c)
    <3>1. mishaps' \in 0..MaxFaults
      BY <2>2, <1>4 DEF DeleteRollsBack
    <3>2. QED
      BY <2>2, <3>1 DEF DeleteRollsBack, TypeOK, storageVars
  <2>3. QED
    BY <1>1, <1>11, <2>1, <2>2 DEF Database, StartReview, EndReview, DeleteRows
<1>12. QED
  BY <1>1, <1>6, <1>7, <1>8, <1>9, <1>10, <1>11, Steps DEF Refill

LEMMA StepTypes == ASSUME TypeOK, Carrying, Held, Next PROVE TypeOK'
<1>1. handler' \in [Handlers -> Handler]
  BY StepRequests DEF RequestStep
<1>2. mode' \in Modes /\ refused' \subseteq Paths
  BY RedisType DEF TypeOK
<1>3. QED
  BY <1>1, <1>2, RedisType, RowsType, TallyType DEF TypeOK, Ids, Keys

-----------------------------------------------------------------------------
(* Leases *)

\* No request gains or loses a lease, or learns that it ran out.
SameLeases ==
    \A h \in Handlers :
        /\ handler'[h].lease <=> handler[h].lease
        /\ handler[h].lease => /\ handler'[h].key = handler[h].key
                               /\ handler'[h].late <=> handler[h].late

LEMMA GoesOnKeepsLeases ==
    ASSUME TypeOK, Carrying, NEW h \in Handlers,
           \A g \in Handlers \ {h} : handler'[g] = handler[g],
           GoesOn(h) \/ (Begins(h) /\ ~handler'[h].lease)
    PROVE  SameLeases
<1>1. CASE GoesOn(h)
  BY <1>1 DEF GoesOn, SameLeases
<1>2. CASE Begins(h) /\ ~handler'[h].lease
  <2>1. ~handler[h].lease
    BY <1>2, QuietFields DEF Begins, Carrying
  <2>2. QED
    BY <1>2, <2>1 DEF SameLeases
<1>3. QED
  BY <1>1, <1>2

\* A reservation that is not leased, or whose lease ran out, is nobody's.
LEMMA NoHolder ==
    ASSUME UploadsInv, NEW p \in Paths,
           reservation[p].state # "leased" \/ reservation[p].lapsed
    PROVE  \A h \in Handlers : handler[h].lease /\ handler[h].key = p => handler[h].late
BY UploadsAssumption DEF UploadsInv, Held, OneHolder

\* It may be freed, or leased to nobody.
LEMMA NobodysReservation ==
    ASSUME UploadsInv, NEW p \in Paths, SameLeases,
           reservation[p].state # "leased" \/ reservation[p].lapsed,
           reservation'[p].by = None,
           \A q \in Paths \ {p} : reservation'[q] = reservation[q]
    PROVE  Held' /\ OneHolder'
<1>1. \A h \in Handlers : handler[h].lease => handler[h].key \in Paths
  BY DEF UploadsInv, Carrying
<1>2. \A q \in Paths : reservation[q].by # None => reservation[q].by \in Handlers
  BY DEF UploadsInv, TypeOK, Reservation
<1>3. Held'
  BY <1>2 DEF UploadsInv, Held, SameLeases
<1>4. OneHolder'
  BY <1>1, NoHolder DEF UploadsInv, OneHolder, SameLeases
<1>5. QED
  BY <1>3, <1>4

\* Nothing about leases happens.
LEMMA NothingLeased ==
    ASSUME UploadsInv, SameLeases, reservation' = reservation
    PROVE  Held' /\ OneHolder'
<1>1. \A q \in Paths : reservation[q].by # None => reservation[q].by \in Handlers
  BY DEF UploadsInv, TypeOK, Reservation
<1>2. QED
  BY <1>1 DEF UploadsInv, Held, OneHolder, SameLeases

\* The lease Redis names and the request that works under it stay together.
LEMMA StepLeases == ASSUME UploadsInv, Next PROVE Held' /\ OneHolder'
<1> USE DEF UploadsInv
<1>1. handler' = handler => SameLeases
  BY DEF SameLeases
<1>2. ASSUME NEW p \in Paths, Authorize(p) PROVE Held' /\ OneHolder'
  <2>1. CASE reservation' = reservation
    BY <1>1, <1>2, <2>1, NothingLeased DEF Authorize
  <2>2. CASE reservation' = [reservation EXCEPT ![p] = Free("reserved")]
             /\ reservation[p].state = "missing"
    <3>1. reservation'[p].by = None /\ \A q \in Paths \ {p} : reservation'[q] = reservation[q]
      BY <2>2, FreeType DEF TypeOK
    <3>2. QED
      BY <1>1, <1>2, <2>2, <3>1, NobodysReservation DEF Authorize
  <2>3. QED
    BY <1>2, <2>1, <2>2 DEF Authorize, Reserve
<1>3. ASSUME NEW p \in Paths, Expire(p) PROVE Held' /\ OneHolder'
  <2>1. reservation' = [reservation EXCEPT ![p] = Free("missing")] /\ handler' = handler
    BY <1>3 DEF Expire
  <2>2. reservation'[p].by = None /\ \A q \in Paths \ {p} : reservation'[q] = reservation[q]
    BY <2>1, FreeType DEF TypeOK
  <2>3. QED
    BY <1>1, <1>3, <2>1, <2>2, NobodysReservation DEF Expire
<1>4. ASSUME NEW p \in Paths, Lapse(p) PROVE Held' /\ OneHolder'
  <2>1. reservation' = [reservation EXCEPT ![p].lapsed = TRUE]
    BY <1>4 DEF Lapse
  <2>2. /\ reservation'[p].by = reservation[p].by /\ reservation'[p].state = reservation[p].state
        /\ \A q \in Paths \ {p} : reservation'[q] = reservation[q]
    BY <2>1 DEF TypeOK, Reservation
  <2>3. CASE reservation[p].by = None
    <3>1. Held'
      BY <2>2, <2>3, <1>4 DEF Held, Lapse
    <3>2. OneHolder'
      BY <2>2, <2>3, <1>4, UploadsAssumption DEF OneHolder, Lapse, Carrying
    <3>3. QED
      BY <3>1, <3>2
  <2>4. ASSUME NEW h \in Handlers, reservation[p].by = h PROVE Held' /\ OneHolder'
    <3>1. RunsLate(h) /\ \A g \in Handlers \ {h} : handler'[g] = handler[g]
      BY <1>4, <2>4, LapseEffect, UploadsAssumption
    <3>2. \A q \in Paths : reservation[q].by # None => reservation[q].by \in Handlers
      BY DEF TypeOK, Reservation
    <3>3. handler[h].key = p
      BY <2>4, UploadsAssumption DEF Held
    <3>4. Held'
      <4> SUFFICES ASSUME NEW q \in Paths, reservation'[q].by # None
                   PROVE  LET g == reservation'[q].by
                          IN  /\ reservation'[q].state = "leased"
                              /\ handler'[g].key = q /\ handler'[g].lease
                              /\ reservation'[q].lapsed => handler'[g].late
        BY DEF Held
      <4>1. CASE q = p
        BY <2>2, <2>4, <3>1, <3>3, <4>1 DEF Held, RunsLate
      <4>2. CASE q # p
        <5>1. reservation'[q] = reservation[q]
          BY <2>2, <4>2
        <5>2. reservation[q].by # h
          BY <3>3, <4>2, <5>1 DEF Held
        <5>3. handler'[reservation[q].by] = handler[reservation[q].by]
          BY <3>1, <3>2, <5>1, <5>2
        <5>4. QED
          BY <5>1, <5>3 DEF Held
      <4>3. QED
        BY <4>1, <4>2
    <3>5. OneHolder'
      BY <2>2, <2>4, <3>1, <3>3 DEF OneHolder, RunsLate, Carrying
    <3>6. QED
      BY <3>4, <3>5
  <2>5. QED
    BY <2>3, <2>4 DEF TypeOK, Reservation
<1>5. ASSUME NEW h \in Handlers, NEW p \in Paths, Acquire(h, p) PROVE Held' /\ OneHolder'
  <2>1. /\ reservation' = Leased(p, h) /\ Begins(h) /\ handler'[h].key = p /\ handler'[h].lease
        /\ ~handler'[h].late /\ \A g \in Handlers \ {h} : handler'[g] = handler[g]
    BY <1>5, BegunEffect DEF Acquire, Begins
  <2>2. /\ reservation'[p].by = h /\ reservation'[p].state = "leased" /\ ~reservation'[p].lapsed
        /\ \A q \in Paths \ {p} : reservation'[q] = reservation[q]
    BY <2>1 DEF Leased, TypeOK
  <2>3. \A g \in Handlers : handler[g].lease /\ handler[g].key = p => handler[g].late
    BY <1>5, NoHolder DEF Acquire, Acquirable
  <2>4. \A q \in Paths : reservation[q].by # h
    BY <1>5, QuietFields, UploadsAssumption DEF Acquire, Held, Carrying
  <2>5. \A q \in Paths : reservation[q].by # None => reservation[q].by \in Handlers
    BY DEF TypeOK, Reservation
  <2>6. Held'
    BY <2>1, <2>2, <2>4, <2>5 DEF Held
  <2>7. OneHolder'
    BY <2>1, <2>2, <2>3 DEF OneHolder, Carrying
  <2>8. QED
    BY <2>6, <2>7
<1>6. ASSUME NEW h \in Handlers, NEW p \in Paths, AcquireUnheard(h, p) PROVE Held' /\ OneHolder'
  <2>1. SameLeases
    <3>1. CASE Begun(h, p, FALSE)
      <4>1. Begins(h) /\ ~handler'[h].lease /\ \A g \in Handlers \ {h} : handler'[g] = handler[g]
        BY <1>6, <3>1, BegunEffect DEF AcquireUnheard
      <4>2. QED
        BY <4>1, GoesOnKeepsLeases
    <3>2. QED
      BY <1>1, <1>6, <3>1 DEF AcquireUnheard
  <2>2. CASE reservation' = reservation
    BY <2>1, <2>2, NothingLeased
  <2>3. CASE reservation' = Leased(p, None) /\ Acquirable(p)
    <3>1. reservation'[p].by = None /\ \A q \in Paths \ {p} : reservation'[q] = reservation[q]
      BY <2>3 DEF Leased, TypeOK
    <3>2. QED
      BY <2>1, <2>3, <3>1, NobodysReservation DEF Acquirable
  <2>4. QED
    BY <1>6, <2>2, <2>3 DEF AcquireUnheard
<1>7. ASSUME NEW h \in Handlers, Form(h) PROVE Held' /\ OneHolder'
  <2>1. SameLeases
    BY <1>1, <1>7, FormEffect, GoesOnKeepsLeases
  <2>2. QED
    BY <1>7, <2>1, NothingLeased DEF Form
<1>8. ASSUME NEW h \in Handlers, Proceeds(h) PROVE Held' /\ OneHolder'
  <2>1. SameLeases
    BY <1>8, ProceedsEffect, GoesOnKeepsLeases
  <2>2. reservation' = reservation
    BY <1>8 DEF Proceeds, Fetch, Reject, Store, Find, Create, Queue, Publish, PublishFails,
                QueueFailed, RecordFails, Fail, redisVars
  <2>3. QED
    BY <2>1, <2>2, NothingLeased
<1>9. ASSUME NEW h \in Handlers, Leaves(h) PROVE Held' /\ OneHolder'
  <2>1. handler'[h] = Quiet /\ \A g \in Handlers \ {h} : handler'[g] = handler[g]
    BY <1>9, LeavesEffect
  <2>2. \A q \in Paths : reservation[q].by # h => reservation'[q] = reservation[q]
    BY <1>9 DEF Leaves, Mark, Release, Crash, Settle, Finalized, Forgotten, TypeOK
  <2>3. \A q \in Paths : reservation[q].by = h => reservation'[q].by = None
    <3>1. \A state \in {"consumed", "reserved"}, q \in Paths :
             reservation[q].by = h => Finalized(h, state)[q].by = None
      BY FreeType DEF Finalized
    <3>2. \A q \in Paths : reservation[q].by = h => Forgotten(h)[q].by = None
      BY DEF Forgotten, TypeOK, Reservation
    <3>3. \A q \in Paths : reservation[q].by = h => handler[h].lease
      BY UploadsAssumption DEF Held
    <3>4. \/ reservation' \in {Forgotten(h), Finalized(h, "consumed"), Finalized(h, "reserved")}
          \/ ~handler[h].lease
      BY <1>9 DEF Leaves, Mark, Release, Crash, Settle
    <3>5. QED
      BY <3>1, <3>2, <3>3, <3>4
  <2>4. \A q \in Paths : reservation[q].by # None => reservation[q].by \in Handlers
    BY DEF TypeOK, Reservation
  <2>5. Held'
    BY <2>1, <2>2, <2>3, <2>4 DEF Held
  <2>6. OneHolder'
    <3> SUFFICES ASSUME NEW g \in Handlers, handler'[g].lease /\ ~handler'[g].late
                 PROVE  reservation'[handler'[g].key].state = "leased"
                        /\ reservation'[handler'[g].key].by = g
      BY DEF OneHolder
    <3>1. g # h
      BY <2>1, QuietFields
    <3>2. handler'[g] = handler[g] /\ handler[g].key \in Paths
      BY <2>1, <3>1 DEF Carrying
    <3>3. QED
      BY <2>2, <3>1, <3>2 DEF OneHolder
  <2>7. QED
    BY <2>5, <2>6
<1>10. CASE UNCHANGED <<reservation, handler>>
  BY <1>1, <1>10, NothingLeased
<1>11. QED
  BY <1>2, <1>3, <1>4, <1>5, <1>6, <1>7, <1>8, <1>9, <1>10, Steps
     DEF Refill, Upload, Database, StartReview, EndReview, DeleteObjects, DeleteRows,
         DeleteRollsBack, redisVars

LEMMA InitInv == ASSUME Init PROVE UploadsInv
<1>1. Quiet \in Handler /\ Free("missing") \in Reservation /\ Free("missing").by = None
      /\ ~Quiet.lease /\ Quiet.key = None /\ Quiet.id = None /\ Quiet.pc = "idle"
  BY QuietFields, FreeType
<1>2. [status |-> "absent", key |-> None, reviewed |-> FALSE] \in Contract
  BY DEF Contract
<1>3. TypeOK
  BY <1>1, <1>2, UploadsAssumption DEF Init, TypeOK
<1>4. Carrying
  BY <1>1 DEF Init, Carrying, At
<1>5. Held /\ OneHolder
  BY <1>1 DEF Init, Held, OneHolder
<1>6. QED
  BY <1>3, <1>4, <1>5 DEF UploadsInv

LEMMA StutterInv == ASSUME UploadsInv, UNCHANGED vars PROVE UploadsInv'
BY DEF UploadsInv, TypeOK, Carrying, Held, OneHolder, At, vars, redisVars, contractVars, jobVars,
       storageVars, tallyVars, Ids, Keys

LEMMA StepInv == ASSUME UploadsInv, [Next]_vars PROVE UploadsInv'
<1>1. CASE Next
  <2>1. TypeOK /\ Carrying /\ Held
    BY DEF UploadsInv
  <2>2. RequestStep
    BY <1>1, <2>1, StepRequests
  <2>3. QED
    BY <1>1, <2>1, <2>2, StepTypes, StepCarrying, StepLeases DEF UploadsInv
<1>2. QED
  BY <1>1, StutterInv

\* Spec keeps the types, and every lease with the request that holds it: the
\* scripts of rate_limiting.py and the handlers of routes.py agree on who does.
THEOREM UploadsCorrect == Spec => []UploadsInv
BY InitInv, StepInv, PTL DEF Spec

\* A pathname is worked on under one live lease at a time.
THEOREM OneHolderHolds == Spec => []OneHolder
<1>1. UploadsInv => OneHolder
  BY DEF UploadsInv
<1>2. QED
  BY <1>1, UploadsCorrect, PTL

-----------------------------------------------------------------------------
(* Payment *)

\* In the enforce mode nothing was charged that has not expired.
NothingOwed ==
    \A p \in Paths : mode = "enforce" /\ reservation[p].state = "missing" => paid[p] = expired[p]

PaidInv == UploadsInv /\ ReservationIsPaid /\ NothingOwed

\* What a step may do to a reservation and its price: it is made, it expires, or it
\* stays made or missing at the same price.
Priced(p) ==
    \/ /\ reservation[p].state = "missing" /\ expired'[p] = expired[p]
       /\ \/ paid'[p] = paid[p] + 1
          \/ paid'[p] = paid[p] /\ mode # "enforce"
       /\ reservation'[p].state # "missing"
    \/ /\ reservation'[p].state = "missing" /\ reservation[p].state # "missing"
       /\ expired'[p] = expired[p] + 1 /\ paid'[p] = paid[p]
    \/ /\ reservation'[p].state = "missing" <=> reservation[p].state = "missing"
       /\ expired'[p] = expired[p] /\ paid'[p] = paid[p]

LEMMA StepPrices == ASSUME UploadsInv, Next PROVE \A p \in Paths : Priced(p)
<1> USE DEF UploadsInv
<1>1. UNCHANGED <<reservation, paid, expired>> => \A p \in Paths : Priced(p)
  BY DEF Priced
<1>2. ASSUME NEW p \in Paths, Authorize(p) PROVE \A q \in Paths : Priced(q)
  <2>1. CASE UNCHANGED <<reservation, paid>>
    BY <1>1, <1>2, <2>1 DEF Authorize
  <2>2. CASE /\ reservation[p].state = "missing" /\ expired' = expired
             /\ reservation' = [reservation EXCEPT ![p] = Free("reserved")]
             /\ \/ paid' = paid /\ mode # "enforce"
                \/ paid' = [paid EXCEPT ![p] = @ + 1]
    BY <2>2, FreeType DEF Priced, TypeOK
  <2>3. QED
    BY <1>2, <2>1, <2>2 DEF Authorize, Reserve, TypeOK
<1>3. ASSUME NEW p \in Paths, Expire(p) PROVE \A q \in Paths : Priced(q)
  BY <1>3, FreeType DEF Expire, Priced, TypeOK
<1>4. ASSUME NEW p \in Paths, Lapse(p) PROVE \A q \in Paths : Priced(q)
  BY <1>4 DEF Lapse, Priced, TypeOK, Reservation
<1>5. ASSUME NEW h \in Handlers, NEW p \in Paths, Acquire(h, p) \/ AcquireUnheard(h, p)
      PROVE  \A q \in Paths : Priced(q)
  <2>1. UNCHANGED <<paid, expired>>
    BY <1>5 DEF Acquire, AcquireUnheard
  <2>2. \/ reservation' = reservation
        \/ Acquirable(p) /\ (reservation' = Leased(p, h) \/ reservation' = Leased(p, None))
    BY <1>5 DEF Acquire, AcquireUnheard
  <2>3. QED
    BY <1>1, <2>1, <2>2 DEF Acquirable, Leased, Priced, TypeOK
<1>6. ASSUME NEW h \in Handlers, Form(h) \/ Proceeds(h)
      PROVE  UNCHANGED <<reservation, paid, expired>>
  BY <1>6 DEF Form, Proceeds, Fetch, Reject, Store, Find, Create, Queue, Publish, PublishFails,
              QueueFailed, RecordFails, Fail, redisVars
<1>7. ASSUME NEW h \in Handlers, Leaves(h) PROVE \A q \in Paths : Priced(q)
  <2>1. UNCHANGED <<paid, expired>>
    BY <1>7 DEF Leaves, Mark, Release, Crash, Settle
  <2>2. \A q \in Paths : reservation[q].by = h => reservation[q].state = "leased"
    BY UploadsAssumption DEF Held
  <2>3. \A state \in {"consumed", "reserved"}, q \in Paths :
           Finalized(h, state)[q].state = "missing" <=> reservation[q].state = "missing"
    BY <2>2, FreeType DEF Finalized
  <2>4. \A q \in Paths : Forgotten(h)[q].state = "missing" <=> reservation[q].state = "missing"
    BY DEF Forgotten, TypeOK, Reservation
  <2>5. reservation' \in {reservation, Forgotten(h), Finalized(h, "consumed"),
                          Finalized(h, "reserved")}
    BY <1>7 DEF Leaves, Mark, Release, Crash, Settle
  <2>6. QED
    BY <2>1, <2>3, <2>4, <2>5 DEF Priced
<1>8. QED
  BY <1>1, <1>2, <1>3, <1>4, <1>5, <1>6, <1>7, Steps
     DEF Refill, Upload, Database, StartReview, EndReview, DeleteObjects, DeleteRows,
         DeleteRollsBack, redisVars

LEMMA StepPaid == ASSUME PaidInv, [Next]_vars PROVE PaidInv'
<1>1. UploadsInv'
  BY StepInv DEF PaidInv
<1>2. CASE Next
  <2>1. mode' = mode
    BY <1>2, RedisType DEF PaidInv, UploadsInv
  <2>2. \A p \in Paths : Priced(p)
    BY <1>2, StepPrices DEF PaidInv
  <2>3. \A p \in Paths : paid[p] \in Nat /\ expired[p] \in Nat /\ paid'[p] \in Nat /\ expired'[p] \in Nat
    BY <1>1 DEF PaidInv, UploadsInv, TypeOK
  <2>4. ReservationIsPaid' /\ NothingOwed'
    <3> SUFFICES ASSUME NEW p \in Paths
                 PROVE  /\ paid'[p] <= expired'[p] + 1
                        /\ mode = "enforce" /\ reservation'[p].state # "missing" =>
                              paid'[p] = expired'[p] + 1
                        /\ reservation'[p].state = "missing" => paid'[p] <= expired'[p]
                        /\ mode = "enforce" /\ reservation'[p].state = "missing" =>
                              paid'[p] = expired'[p]
      BY <2>1 DEF ReservationIsPaid, NothingOwed
    <3> DEFINE n == paid[p]  m == expired[p]  n1 == paid'[p]  m1 == expired'[p]
    <3>1. n \in Nat /\ m \in Nat /\ n1 \in Nat /\ m1 \in Nat
      BY <2>3
    <3>2. /\ n <= m + 1
          /\ mode = "enforce" /\ reservation[p].state # "missing" => n = m + 1
          /\ reservation[p].state = "missing" => n <= m
          /\ mode = "enforce" /\ reservation[p].state = "missing" => n = m
      BY DEF PaidInv, ReservationIsPaid, NothingOwed
    <3>3. CASE /\ reservation[p].state = "missing" /\ m1 = m /\ reservation'[p].state # "missing"
               /\ n1 = n + 1 \/ (n1 = n /\ mode # "enforce")
      <4>1. n1 <= m1 + 1
        BY <3>1, <3>2, <3>3
      <4>2. mode = "enforce" => n1 = m1 + 1
        BY <3>1, <3>2, <3>3
      <4>3. QED
        BY <3>3, <4>1, <4>2
    <3>4. CASE /\ reservation'[p].state = "missing" /\ reservation[p].state # "missing" /\ m1 = m + 1 /\ n1 = n
      BY <3>1, <3>2, <3>4
    <3>5. CASE /\ reservation'[p].state = "missing" <=> reservation[p].state = "missing"
               /\ m1 = m /\ n1 = n
      BY <3>1, <3>2, <3>5
    <3>6. QED
      BY <2>2, <3>3, <3>4, <3>5 DEF Priced
  <2>5. QED
    BY <1>1, <2>4 DEF PaidInv
<1>3. CASE UNCHANGED vars
  BY <1>1, <1>3 DEF PaidInv, ReservationIsPaid, NothingOwed, vars, redisVars
<1>4. QED
  BY <1>2, <1>3

\* A pathname is charged once for each reservation of it, whatever replies are lost
\* and however often it is authorized, released and taken up again.
THEOREM ReservationIsPaidHolds == Spec => []ReservationIsPaid
<1>1. Init => PaidInv
  BY InitInv, FreeType DEF PaidInv, Init, ReservationIsPaid, NothingOwed
<1>2. PaidInv => ReservationIsPaid
  BY DEF PaidInv
<1>3. QED
  BY <1>1, <1>2, StepPaid, PTL DEF Spec

-----------------------------------------------------------------------------
(* A pathname that is closed to retries *)

ClosedInv == UploadsInv /\ MarkedIsQueued /\ ConsumedIsQueued

\* Jobs published for a pathname are only ever more, and a request is about to close
\* its pathname only after its own.
LEMMA StepCopies ==
    ASSUME UploadsInv, Next
    PROVE  /\ \A p \in Paths : copies'[p] \in Nat /\ copies'[p] >= copies[p]
           /\ \A h \in Handlers : handler'[h].pc = "mark" /\ handler'[h].key \in Paths =>
                 \/ handler[h].pc = "mark" /\ handler'[h].key = handler[h].key
                 \/ copies'[handler'[h].key] > 0
<1> USE DEF UploadsInv
<1>1. \A p \in Paths : copies[p] \in Nat
  BY DEF TypeOK
<1>2. ASSUME NEW h \in Handlers, Counted(h)
      PROVE  /\ \A p \in Paths : copies'[p] \in Nat /\ copies'[p] >= copies[p]
             /\ handler[h].key \in Paths => copies'[handler[h].key] > 0
  <2>1. \A p \in Paths : copies'[p] = IF p = handler[h].key THEN copies[p] + 1 ELSE copies[p]
    BY <1>2 DEF Counted
  <2>2. QED
    BY <1>1, <2>1
<1>3. ASSUME NEW h \in Handlers, Publish(h)
      PROVE  /\ \A p \in Paths : copies'[p] \in Nat /\ copies'[p] >= copies[p]
             /\ handler[h].key \in Paths => copies'[handler[h].key] > 0
  BY <1>2, <1>3 DEF Publish
<1>4. ASSUME NEW h \in Handlers, PublishFails(h)
      PROVE  \A p \in Paths : copies'[p] \in Nat /\ copies'[p] >= copies[p]
  BY <1>1, <1>2, <1>4 DEF PublishFails
<1>5. \A p \in Paths : copies'[p] \in Nat /\ copies'[p] >= copies[p]
  <2>1. copies' = copies => \A p \in Paths : copies'[p] \in Nat /\ copies'[p] >= copies[p]
    BY <1>1
  <2>2. QED
    BY <2>1, <1>3, <1>4, Steps
       DEF Refill, Authorize, Upload, Lapse, Expire, Acquire, AcquireUnheard, Form, Proceeds,
           Fetch, Reject, Store, Find, Create, Queue, QueueFailed, RecordFails, Fail, Leaves, Mark, Release,
           Settle, Crash, Database, StartReview, EndReview, DeleteObjects, DeleteRows,
           DeleteRollsBack, tallyVars
<1>6. ASSUME NEW h \in Handlers, Proceeds(h), handler'[h].pc = "mark"
      PROVE  Publish(h) /\ handler'[h].key = handler[h].key
  <2>1. handler'[h].key = handler[h].key
    BY <1>6, ProceedsEffect DEF GoesOn
  <2>2. \A pc \in {"release", "find", "publish", "failed"} : ~Goes(h, pc)
    BY <1>6, GoesEffect DEF Places
  <2>3. ~Create(h)
    BY <1>6 DEF Create, TypeOK, Handler
  <2>4. ~Find(h)
    <3> DEFINE pc == IF {c \in Ids : Live(c)} = {} THEN "create" ELSE "queue"
    <3> SUFFICES ASSUME NEW id, handler' = [handler EXCEPT ![h].pc = pc, ![h].id = id]
                 PROVE  FALSE
      BY DEF Find
    <3>1. pc # "mark"
      OBVIOUS
    <3> HIDE DEF pc
    <3>2. QED
      BY <1>6, <3>1 DEF TypeOK, Handler
  <2>5. QED
    BY <1>6, <2>1, <2>2, <2>3, <2>4
       DEF Proceeds, Fetch, Reject, Store, Queue, PublishFails, QueueFailed, RecordFails, Fail
<1>7. ASSUME NEW h \in Handlers, handler'[h].pc = "mark", handler'[h].key \in Paths
      PROVE  \/ handler[h].pc = "mark" /\ handler'[h].key = handler[h].key
             \/ copies'[handler'[h].key] > 0
  <2>1. CASE handler'[h] = handler[h]
    BY <1>7, <2>1
  <2>2. ASSUME NEW g \in Handlers, NEW p \in Paths, Acquire(g, p) \/ AcquireUnheard(g, p)
        PROVE  handler'[h] = handler[h]
    <3>1. CASE handler' = handler
      BY <3>1
    <3>2. CASE Begun(g, p, TRUE) \/ Begun(g, p, FALSE)
      BY <1>7, <2>2, <3>2, BegunEffect DEF Acquire, AcquireUnheard
    <3>3. QED
      BY <2>2, <3>1, <3>2 DEF Acquire, AcquireUnheard
  <2>3. ASSUME NEW g \in Handlers, Form(g) PROVE handler'[h] = handler[h]
    BY <1>7, <2>3, FormEffect
  <2>4. ASSUME NEW g \in Handlers, Proceeds(g)
        PROVE  \/ handler'[h] = handler[h]
               \/ copies'[handler'[h].key] > 0
    BY <1>3, <1>6, <1>7, <2>4, ProceedsEffect
  <2>5. ASSUME NEW g \in Handlers, Leaves(g) PROVE handler'[h] = handler[h]
    BY <1>7, <2>5, LeavesEffect, QuietFields
  <2>6. ASSUME NEW p \in Paths, Lapse(p)
        PROVE  handler'[h].pc = handler[h].pc /\ handler'[h].key = handler[h].key
    BY <2>6, LapseEffect DEF RunsLate
  <2>7. QED
    BY <1>7, <2>1, <2>2, <2>3, <2>4, <2>5, <2>6, Steps
       DEF Refill, Authorize, Upload, Expire, Database, StartReview, EndReview, DeleteObjects,
           DeleteRows, DeleteRollsBack
<1>8. QED
  BY <1>5, <1>7

\* A pathname is closed only by the request that holds its lease, at its mark.
LEMMA StepClosed ==
    ASSUME UploadsInv, Next, NEW p \in Paths, reservation'[p].state = "consumed"
    PROVE  \/ reservation[p].state = "consumed"
           \/ \E h \in Handlers : handler[h].pc = "mark" /\ handler[h].key = p
<1> USE DEF UploadsInv
<1>1. ASSUME NEW q \in Paths, Authorize(q) \/ Lapse(q) \/ Expire(q)
      PROVE  reservation[p].state = "consumed"
  <2>1. CASE Lapse(q)
    BY <2>1 DEF Lapse, TypeOK, Reservation
  <2>2. CASE reservation' = reservation
    BY <2>2
  <2>3. ASSUME NEW state \in {"missing", "reserved"},
               reservation' = [reservation EXCEPT ![q] = Free(state)]
        PROVE  reservation[p].state = "consumed"
    BY <2>3, FreeType DEF TypeOK
  <2>4. QED
    BY <1>1, <2>1, <2>2, <2>3 DEF Authorize, Reserve, Expire
<1>2. ASSUME NEW h \in Handlers, NEW q \in Paths, Acquire(h, q) \/ AcquireUnheard(h, q)
      PROVE  reservation[p].state = "consumed"
  <2>1. \/ reservation' = reservation
        \/ reservation' = Leased(q, h) \/ reservation' = Leased(q, None)
    BY <1>2 DEF Acquire, AcquireUnheard
  <2>2. QED
    BY <2>1 DEF Leased, TypeOK
<1>3. ASSUME NEW h \in Handlers, Leaves(h)
      PROVE  \/ reservation[p].state = "consumed"
             \/ handler[h].pc = "mark" /\ handler[h].key = p
  <2>1. CASE reservation' = reservation \/ reservation' = Forgotten(h)
    BY <2>1 DEF Forgotten, TypeOK, Reservation
  <2>2. CASE reservation' = Finalized(h, "reserved")
    BY <2>2, FreeType DEF Finalized
  <2>3. CASE reservation' = Finalized(h, "consumed") /\ At(h, "mark")
    <3>1. reservation[p].by = h => handler[h].key = p
      BY UploadsAssumption DEF Held
    <3>2. QED
      BY <2>3, <3>1 DEF Finalized, At
  <2>4. QED
    BY <1>3, <2>1, <2>2, <2>3 DEF Leaves, Mark, Release, Crash, Settle
<1>4. QED
  BY <1>1, <1>2, <1>3, Steps
     DEF Refill, Upload, Form, Proceeds, Fetch, Reject, Store, Find, Create, Queue, Publish,
         PublishFails, QueueFailed, RecordFails, Fail, Database, StartReview, EndReview, DeleteObjects,
         DeleteRows, DeleteRollsBack, redisVars

\* A pathname that takes no retry has had its job published, so the upload that was
\* answered with 409 is one that was queued.
THEOREM ConsumedIsQueuedHolds == Spec => []ConsumedIsQueued
<1>1. ASSUME Init PROVE ClosedInv
  <2>1. MarkedIsQueued
    BY <1>1, QuietFields DEF Init, MarkedIsQueued, At
  <2>2. ConsumedIsQueued
    BY <1>1, FreeType DEF Init, ConsumedIsQueued
  <2>3. QED
    BY <1>1, <2>1, <2>2, InitInv DEF ClosedInv
<1>2. ASSUME ClosedInv, [Next]_vars PROVE ClosedInv'
  <2>1. UploadsInv'
    BY <1>2, StepInv DEF ClosedInv
  <2>2. CASE Next
    <3>1. \A p \in Paths : copies[p] > 0 => copies'[p] > 0
      BY <1>2, <2>2, StepCopies DEF ClosedInv, UploadsInv, TypeOK
    <3>2. MarkedIsQueued'
      BY <1>2, <2>2, <3>1, StepCopies DEF ClosedInv, MarkedIsQueued, At
    <3>3. ConsumedIsQueued'
      BY <1>2, <2>2, <3>1, StepClosed DEF ClosedInv, MarkedIsQueued, ConsumedIsQueued, At
    <3>4. QED
      BY <2>1, <3>2, <3>3 DEF ClosedInv
  <2>3. CASE UNCHANGED vars
    BY <1>2, <2>1, <2>3 DEF ClosedInv, MarkedIsQueued, ConsumedIsQueued, At, vars, redisVars, tallyVars
  <2>4. QED
    BY <1>2, <2>2, <2>3
<1>3. ClosedInv => ConsumedIsQueued
  BY DEF ClosedInv
<1>4. QED
  BY <1>1, <1>2, <1>3, PTL DEF Spec

-----------------------------------------------------------------------------
(* Unfinished contracts *)

CarriedInv == UploadsInv /\ UnfinishedHasJob

Carried(c) ==
    \/ queue[c] > 0 \/ c \in reviewing \/ c \in abandoned
    \/ \E h \in Handlers : handler[h].id = c /\ handler[h].pc \in {"queue", "publish", "failed"}

\* What is not touched stays carried.
LEMMA CarriedStays ==
    ASSUME CarriedInv, NEW c \in Ids, contract'[c].status = contract[c].status,
           Active(c)', queue'[c] = queue[c], c \in reviewing => c \in reviewing',
           abandoned \subseteq abandoned',
           \A h \in Handlers : handler[h].id = c /\ handler[h].pc \in {"queue", "publish", "failed"}
                => handler'[h].id = c /\ handler'[h].pc \in {"queue", "publish", "failed"}
    PROVE  Carried(c)'
<1>1. Active(c)
  BY DEF Active
<1>2. Carried(c)
  BY <1>1 DEF CarriedInv, UnfinishedHasJob, Carried
<1>3. QED
  BY <1>2 DEF Carried

LEMMA ProceedsCarries ==
    ASSUME CarriedInv, NEW h \in Handlers, Proceeds(h), NEW c \in Ids, Active(c)'
    PROVE  Carried(c)'
<1> USE DEF CarriedInv, UploadsInv, At
<1>1. \A g \in Handlers \ {h} : handler'[g] = handler[g]
  BY ProceedsEffect
<1>2. CASE Fetch(h) \/ Reject(h) \/ Store(h) \/ Find(h)
  BY <1>1, <1>2, CarriedStays DEF Fetch, Reject, Store, Find, contractVars, jobVars
<1>3. CASE Create(h)
  <2>1. PICK d \in Ids :
           /\ contract' = [contract EXCEPT ![d] = [status |-> "received", key |-> handler[h].key,
                                                   reviewed |-> FALSE]]
           /\ handler' = [handler EXCEPT ![h].pc = "queue", ![h].id = d]
    BY <1>3 DEF Create
  <2>2. handler'[h].pc = "queue" /\ handler'[h].id = d
    BY <2>1 DEF TypeOK, Handler
  <2>3. CASE c = d
    BY <2>2, <2>3 DEF Carried
  <2>4. CASE c # d
    <3>1. contract'[c] = contract[c]
      BY <2>1, <2>4 DEF TypeOK
    <3>2. QED
      BY <1>1, <1>3, <3>1, CarriedStays DEF Create, jobVars
  <2>5. QED
    BY <2>3, <2>4
<1>4. CASE Queue(h)
  <2>1. handler'[h].pc = "publish" /\ handler'[h].id = handler[h].id
    BY <1>4, GoesEffect DEF Queue, Places
  <2>2. CASE c = handler[h].id
    BY <2>1, <2>2 DEF Carried
  <2>3. CASE c # handler[h].id
    <3>1. contract'[c].status = contract[c].status
      BY <1>4, <2>3 DEF Queue, SetStatus, TypeOK, Contract
    <3>2. QED
      BY <1>1, <1>4, <2>3, <3>1, CarriedStays DEF Queue, jobVars
  <2>4. QED
    BY <2>2, <2>3
<1>5. CASE Publish(h)
  <2>1. handler[h].id \in Ids /\ queue' = [queue EXCEPT ![handler[h].id] = @ + 1]
    BY <1>5 DEF Publish, Waiting, Carrying
  <2>2. CASE c = handler[h].id
    BY <2>1, <2>2 DEF Carried, TypeOK
  <2>3. CASE c # handler[h].id
    BY <1>1, <1>5, <2>1, <2>3, CarriedStays DEF Publish, TypeOK, contractVars
  <2>4. QED
    BY <2>2, <2>3
<1>6. CASE PublishFails(h)
  <2>1. handler'[h].pc = "failed" /\ handler'[h].id = handler[h].id
    BY <1>6, GoesEffect DEF PublishFails, Places
  <2>2. CASE c = handler[h].id
    BY <2>1, <2>2 DEF Carried
  <2>3. CASE c # handler[h].id
    <3>1. queue'[c] = queue[c]
      BY <1>6, <2>3 DEF PublishFails, Waiting, TypeOK
    <3>2. QED
      BY <1>1, <1>6, <2>3, <3>1, CarriedStays DEF PublishFails, contractVars
  <2>4. QED
    BY <2>2, <2>3
<1>7. CASE QueueFailed(h)
  <2>1. c # handler[h].id
    BY <1>7 DEF QueueFailed, SetStatus, Active, Live, TypeOK, Contract
  <2>2. contract'[c].status = contract[c].status
    BY <1>7, <2>1 DEF QueueFailed, SetStatus, TypeOK, Contract
  <2>3. QED
    BY <1>1, <1>7, <2>1, <2>2, CarriedStays DEF QueueFailed, jobVars
<1>8. CASE Fail(h)
  <2>1. abandoned' = abandoned \cup ({handler[h].id} \ {None}) /\ contract' = contract
    BY <1>8 DEF Fail
  <2>2. CASE c = handler[h].id
    BY <2>1, <2>2, UploadsAssumption DEF Carried, Ids
  <2>3. CASE c # handler[h].id
    BY <1>1, <1>8, <2>1, <2>3, CarriedStays DEF Fail, jobVars
  <2>4. QED
    BY <2>2, <2>3
<1>9. CASE RecordFails(h)
  BY <1>1, <1>9, CarriedStays DEF RecordFails, contractVars, jobVars
<1>10. QED
  BY <1>2, <1>3, <1>4, <1>5, <1>6, <1>7, <1>8, <1>9 DEF Proceeds

LEMMA LeavesCarries ==
    ASSUME CarriedInv, NEW h \in Handlers, Leaves(h), NEW c \in Ids, Active(c)'
    PROVE  Carried(c)'
<1> USE DEF CarriedInv, UploadsInv, At
<1>1. \A g \in Handlers \ {h} : handler'[g] = handler[g]
  BY LeavesEffect
<1>2. CASE Mark(h) \/ Release(h)
  BY <1>1, <1>2, CarriedStays DEF Mark, Release, Settle, contractVars, jobVars
<1>3. CASE Crash(h)
  <2>1. abandoned' = abandoned \cup ({handler[h].id} \ {None}) /\ contract' = contract
    BY <1>3 DEF Crash
  <2>2. CASE c = handler[h].id
    BY <2>1, <2>2, UploadsAssumption DEF Carried, Ids
  <2>3. CASE c # handler[h].id
    BY <1>1, <1>3, <2>1, <2>3, CarriedStays DEF Crash, jobVars
  <2>4. QED
    BY <2>2, <2>3
<1>4. QED
  BY <1>2, <1>3 DEF Leaves

LEMMA DatabaseCarries ==
    ASSUME CarriedInv, NEW d \in Ids, Database(d), NEW c \in Ids, Active(c)'
    PROVE  Carried(c)'
<1> USE DEF CarriedInv, UploadsInv
<1>1. handler' = handler
  BY DEF Database, StartReview, EndReview, DeleteObjects, DeleteRows, DeleteRollsBack
<1>2. CASE StartReview(d)
  <2>1. CASE c = d
    <3>1. Live(d)
      BY <1>2, <2>1 DEF StartReview, SetStatus, Active, Live
    <3>2. QED
      BY <1>2, <2>1, <3>1 DEF StartReview, Carried
  <2>2. CASE c # d
    <3>1. contract'[c].status = contract[c].status /\ queue'[c] = queue[c]
      BY <1>2, <2>2 DEF StartReview, SetStatus, TypeOK
    <3>2. QED
      BY <1>1, <1>2, <3>1, CarriedStays DEF StartReview
  <2>3. QED
    BY <2>1, <2>2
<1>3. CASE EndReview(d)
  <2>1. PICK status \in {"ready", "failed"}, good \in BOOLEAN :
           contract' = IF ~Live(d) THEN contract
                       ELSE [contract EXCEPT ![d].status = status, ![d].reviewed = good]
    BY <1>3 DEF EndReview
  <2>2. c # d
    BY <2>1 DEF Active, Live, TypeOK, Contract
  <2>3. contract'[c].status = contract[c].status
    BY <2>1, <2>2 DEF TypeOK
  <2>4. QED
    BY <1>1, <1>3, <2>2, <2>3, CarriedStays DEF EndReview
<1>4. CASE DeleteRows(d)
  <2>1. c # d
    BY <1>4 DEF DeleteRows, Active, TypeOK, Contract
  <2>2. contract'[c].status = contract[c].status
    BY <1>4, <2>1 DEF DeleteRows, TypeOK
  <2>3. QED
    BY <1>1, <1>4, <2>2, CarriedStays DEF DeleteRows, jobVars
<1>5. CASE DeleteObjects(d) \/ DeleteRollsBack(d)
  BY <1>1, <1>5, CarriedStays DEF DeleteObjects, DeleteRollsBack, jobVars
<1>6. QED
  BY <1>2, <1>3, <1>4, <1>5 DEF Database

\* A contract that cannot be deleted, because it shows unfinished work, is carried by
\* something that will finish it, or lost the request that entered it.
THEOREM UnfinishedHasJobHolds == Spec => []UnfinishedHasJob
<1>1. Init => CarriedInv
  BY InitInv DEF CarriedInv, Init, UnfinishedHasJob, Active
<1>2. ASSUME CarriedInv, [Next]_vars PROVE CarriedInv'
  <2>1. UploadsInv'
    BY <1>2, StepInv DEF CarriedInv
  <2>2. ASSUME UNCHANGED <<contract, queue, reviewing, abandoned>>,
               \A h \in Handlers : handler[h].pc \in {"queue", "publish", "failed"} =>
                  handler'[h].pc = handler[h].pc /\ handler'[h].id = handler[h].id
        PROVE  UnfinishedHasJob'
    <3>1. \A c \in Ids : Active(c)' => Carried(c)'
      BY <1>2, <2>2, CarriedStays
    <3>2. QED
      BY <3>1 DEF UnfinishedHasJob, Carried, Active
  <2>3. CASE Next
    <3>1. TypeOK /\ Held /\ Carrying
      BY <1>2 DEF CarriedInv, UploadsInv
    <3>2. ASSUME NEW h \in Handlers, NEW p \in Paths, Acquire(h, p) \/ AcquireUnheard(h, p)
          PROVE  UnfinishedHasJob'
      <4>1. \A g \in Handlers \ {h} : handler'[g] = handler[g]
        <5>1. CASE handler' = handler
          BY <5>1
        <5>2. CASE Begun(h, p, TRUE) \/ Begun(h, p, FALSE)
          BY <3>1, <3>2, <5>2, BegunEffect DEF Acquire, AcquireUnheard
        <5>3. QED
          BY <3>2, <5>1, <5>2 DEF Acquire, AcquireUnheard
      <4>2. handler[h].pc = "idle"
        BY <3>2 DEF Acquire, AcquireUnheard, At
      <4>3. UNCHANGED <<contract, queue, reviewing, abandoned>>
        BY <3>2 DEF Acquire, AcquireUnheard, contractVars, jobVars
      <4>4. QED
        BY <2>2, <4>1, <4>2, <4>3
    <3>3. ASSUME NEW h \in Handlers, Form(h) PROVE UnfinishedHasJob'
      <4>1. \A g \in Handlers \ {h} : handler'[g] = handler[g]
        BY <3>1, <3>3, FormEffect
      <4>2. handler[h].pc = "idle"
        BY <3>3 DEF Form, At
      <4>3. UNCHANGED <<contract, queue, reviewing, abandoned>>
        BY <3>3 DEF Form, contractVars, jobVars
      <4>4. QED
        BY <2>2, <4>1, <4>2, <4>3
    <3>4. ASSUME NEW p \in Paths, Lapse(p) PROVE UnfinishedHasJob'
      <4>1. \A h \in Handlers : handler'[h].pc = handler[h].pc /\ handler'[h].id = handler[h].id
        BY <3>1, <3>4, LapseEffect DEF RunsLate
      <4>2. QED
        BY <2>2, <3>4, <4>1 DEF Lapse, contractVars, jobVars
    <3>5. ASSUME \A c \in Ids : Active(c)' => Carried(c)' PROVE UnfinishedHasJob'
      BY <3>5 DEF UnfinishedHasJob, Carried, Active
    <3>6. UnfinishedHasJob'
      BY <1>2, <2>2, <2>3, <3>2, <3>3, <3>4, <3>5, ProceedsCarries, LeavesCarries,
         DatabaseCarries, Steps
         DEF Refill, Authorize, Upload, Expire, contractVars, jobVars
    <3>7. QED
      BY <2>1, <3>6 DEF CarriedInv
  <2>4. CASE UNCHANGED vars
    BY <2>1, <2>2, <2>4 DEF CarriedInv, vars, contractVars, jobVars
  <2>5. QED
    BY <1>2, <2>3, <2>4
<1>3. CarriedInv => UnfinishedHasJob
  BY DEF CarriedInv
<1>4. QED
  BY <1>1, <1>2, <1>3, PTL DEF Spec

-----------------------------------------------------------------------------
(* Documents *)

KeptInv == UploadsInv /\ ObjectsPresent

\* What a step may do to the contracts and the objects, short of entering one and
\* deleting one: no object goes but a refused one, and no contract changes its key
\* or comes to life.
Preserves ==
    /\ refused' = refused /\ deleting' = deleting /\ torn' = torn
    /\ blob \subseteq blob' \cup refused
    /\ \A c \in Ids : Live(c)' => Live(c) /\ contract'[c].key = contract[c].key
    /\ \A c \in Ids : Live(c) => Live(c)' /\ contract'[c].key = contract[c].key
    /\ \A h \in Handlers : handler'[h].pc \in {"find", "create"} =>
          \/ handler[h].pc \in {"find", "create"} /\ handler'[h].key = handler[h].key
          \/ handler'[h].key \notin refused /\ handler'[h].key \in blob'

LEMMA PreservesObjects ==
    ASSUME KeptInv, Preserves
    PROVE  ObjectsPresent'
<1>1. deleting \in Ids \cup {None}
  BY DEF KeptInv, UploadsInv, TypeOK
<1>2. \A key : key \notin refused /\ key \in Findable => key \in Findable'
  <2>1. \A d \in Ids \cap {deleting} : contract'[d].key = contract[d].key
    BY UploadsAssumption DEF KeptInv, ObjectsPresent, Preserves, Ids
  <2>2. {contract'[d].key : d \in Ids \cap {deleting}} = {contract[d].key : d \in Ids \cap {deleting}}
    BY <2>1
  <2>3. deleting' = deleting /\ torn' = torn /\ blob \subseteq blob' \cup refused
    BY DEF Preserves
  <2>4. QED
    BY <2>2, <2>3 DEF Findable, Ids
<1>3. \A h \in Handlers : handler'[h].pc \in {"find", "create"} =>
          handler'[h].key \notin refused' /\ handler'[h].key \in Findable'
  BY <1>2 DEF KeptInv, ObjectsPresent, Preserves, Findable
<1>4. \A c \in Ids : Live(c)' => contract'[c].key \notin refused' /\ contract'[c].key \in Findable'
  BY <1>2 DEF KeptInv, ObjectsPresent, Preserves
<1>5. deleting' # None => Live(deleting)'
  BY <1>1, UploadsAssumption DEF KeptInv, ObjectsPresent, Preserves
<1>6. QED
  BY <1>3, <1>4, <1>5 DEF ObjectsPresent, Findable, Live

LEMMA SetStatusPreserves ==
    ASSUME TypeOK, NEW d \in Ids, NEW status \in {"queued", "processing", "failed"},
           SetStatus(d, status)
    PROVE  \A c \in Ids : /\ Live(c)' <=> Live(c)
                          /\ contract'[c].key = contract[c].key
<1>1. CASE contract' = contract
  BY <1>1 DEF Live
<1>2. CASE Live(d) /\ contract' = [contract EXCEPT ![d].status = status]
  <2>1. /\ contract'[d].status = status /\ contract'[d].key = contract[d].key
        /\ \A c \in Ids \ {d} : contract'[c] = contract[c]
    BY <1>2 DEF TypeOK, Contract
  <2>2. QED
    BY <1>2, <2>1 DEF Live
<1>3. QED
  BY <1>1, <1>2 DEF SetStatus

LEMMA ProceedsKeeps ==
    ASSUME KeptInv, NEW h \in Handlers, Proceeds(h)
    PROVE  ObjectsPresent'
<1> USE DEF KeptInv, UploadsInv, At
<1>1. /\ \A g \in Handlers \ {h} : handler'[g] = handler[g]
      /\ handler'[h].key = handler[h].key
  BY ProceedsEffect DEF GoesOn
<1>2. handler[h].id \in Ids => \A c \in Ids \ {handler[h].id} : c # handler[h].id
  OBVIOUS
<1>3. CASE Fetch(h)
  <2>1. handler'[h].pc \in {"find", "create"} => handler[h].key \in blob /\ handler[h].key \notin refused
    BY <1>3, GoesEffect DEF Fetch, Places
  <2>2. Preserves
    BY <1>1, <1>3, <2>1 DEF Fetch, Preserves, redisVars, contractVars, storageVars, Live
  <2>3. QED
    BY <2>2, PreservesObjects
<1>4. CASE Reject(h)
  <2>1. handler'[h].pc = "release" /\ blob \subseteq blob' \cup refused
    BY <1>4, GoesEffect DEF Reject, Places
  <2>2. Preserves
    BY <1>1, <1>4, <2>1 DEF Reject, Preserves, redisVars, contractVars, Live
  <2>3. QED
    BY <2>2, PreservesObjects
<1>5. CASE Store(h)
  <2>1. handler[h].key = FormKey /\ FormKey \notin refused
    BY <1>5, UploadsAssumption DEF Store, Carrying, TypeOK
  <2>2. Preserves
    BY <1>1, <1>5, <2>1 DEF Store, Preserves, redisVars, contractVars, Live
  <2>3. QED
    BY <2>2, PreservesObjects
<1>6. CASE Find(h)
  <2>1. Preserves
    BY <1>1, <1>6 DEF Find, Preserves, redisVars, contractVars, storageVars, Live
  <2>2. QED
    BY <2>1, PreservesObjects
<1>7. CASE Create(h)
  <2>1. PICK c \in Ids :
           /\ contract[c].status = "absent"
           /\ contract' = [contract EXCEPT ![c] = [status |-> "received", key |-> handler[h].key,
                                                   reviewed |-> FALSE]]
           /\ handler' = [handler EXCEPT ![h].pc = "queue", ![h].id = c]
    <3>1. \A d \in Ids : d >= d
      BY DEF Ids
    <3>2. QED
      BY <1>7, <3>1 DEF Create
  <2>2. /\ contract'[c].key = handler[h].key /\ contract'[c].status = "received"
        /\ \A d \in Ids \ {c} : contract'[d] = contract[d]
    BY <2>1 DEF TypeOK
  <2>3. /\ handler'[h].pc = "queue" /\ UNCHANGED <<blob, torn, deleting, refused>>
    BY <1>7, <2>1 DEF TypeOK, Handler, Create, redisVars, storageVars
  <2>4. \A key : key \in Findable => key \in Findable'
    <3>1. \A d \in Ids : deleting = d => d # c
      BY <2>1, UploadsAssumption DEF ObjectsPresent, Live, Ids
    <3>2. QED
      BY <2>2, <2>3, <3>1 DEF Findable
  <2>5. \A g \in Handlers : handler'[g].pc \in {"find", "create"} =>
           handler'[g].key \notin refused' /\ handler'[g].key \in Findable'
    BY <1>1, <2>3, <2>4 DEF ObjectsPresent
  <2>6. \A d \in Ids : Live(d)' => contract'[d].key \notin refused' /\ contract'[d].key \in Findable'
    <3>1. handler[h].key \notin refused /\ handler[h].key \in Findable
      BY <1>7 DEF Create, ObjectsPresent
    <3>2. QED
      BY <2>2, <2>3, <2>4, <3>1 DEF ObjectsPresent, Live
  <2>7. deleting' # None => Live(deleting)'
    <3>1. deleting # None => deleting \in Ids /\ deleting # c
      BY <2>1 DEF TypeOK, ObjectsPresent, Live
    <3>2. QED
      BY <2>2, <2>3, <3>1 DEF ObjectsPresent, Live
  <2>8. QED
    BY <2>5, <2>6, <2>7 DEF ObjectsPresent, Findable, Live
<1>8. CASE Queue(h) \/ QueueFailed(h)
  <2>1. handler[h].id \in Ids
    BY <1>8 DEF Queue, QueueFailed, Carrying
  <2>2. \A c \in Ids : (Live(c)' <=> Live(c)) /\ contract'[c].key = contract[c].key
    BY <1>8, <2>1, SetStatusPreserves DEF Queue, QueueFailed
  <2>3. handler'[h].pc \in {"publish", "release"}
    BY <1>8, GoesEffect DEF Queue, QueueFailed, Places
  <2>4. Preserves
    BY <1>1, <1>8, <2>2, <2>3 DEF Queue, QueueFailed, Preserves, redisVars, storageVars
  <2>5. QED
    BY <2>4, PreservesObjects
<1>9. CASE Publish(h) \/ PublishFails(h) \/ RecordFails(h) \/ Fail(h)
  <2>1. handler'[h].pc \in {"mark", "failed", "release"}
    BY <1>9, GoesEffect DEF Publish, PublishFails, RecordFails, Fail, Places
  <2>2. Preserves
    BY <1>1, <1>9, <2>1
       DEF Publish, PublishFails, RecordFails, Fail, Preserves, redisVars, contractVars,
           storageVars, Live
  <2>3. QED
    BY <2>2, PreservesObjects
<1>10. QED
  BY <1>3, <1>4, <1>5, <1>6, <1>7, <1>8, <1>9 DEF Proceeds

LEMMA DatabaseKeeps ==
    ASSUME KeptInv, NEW d \in Ids, Database(d)
    PROVE  ObjectsPresent'
<1> USE DEF KeptInv, UploadsInv
<1>1. CASE StartReview(d)
  <2>1. \A c \in Ids : (Live(c)' <=> Live(c)) /\ contract'[c].key = contract[c].key
    BY <1>1, SetStatusPreserves DEF StartReview
  <2>2. Preserves
    BY <1>1, <2>1 DEF StartReview, Preserves, redisVars, storageVars
  <2>3. QED
    BY <2>2, PreservesObjects
<1>2. CASE EndReview(d)
  <2>1. PICK status \in {"ready", "failed"}, good \in BOOLEAN :
           contract' = IF ~Live(d) THEN contract
                       ELSE [contract EXCEPT ![d].status = status, ![d].reviewed = good]
    BY <1>2 DEF EndReview
  <2>2. \A c \in Ids : (Live(c)' <=> Live(c)) /\ contract'[c].key = contract[c].key
    BY <2>1 DEF Live, TypeOK, Contract
  <2>3. Preserves
    BY <1>2, <2>2 DEF EndReview, Preserves, redisVars, storageVars
  <2>4. QED
    BY <2>3, PreservesObjects
<1>3. CASE DeleteObjects(d)
  <2>1. /\ deleting = None /\ deleting' = d /\ Live(d) /\ blob' = blob \ {contract[d].key}
        /\ UNCHANGED <<contract, handler, torn, refused>>
    BY <1>3 DEF DeleteObjects, redisVars
  <2>2. \A key : key \in Findable => key \in Findable'
    <3>1. \A e \in Ids : deleting # e
      BY <2>1, UploadsAssumption DEF Ids
    <3>2. QED
      BY <2>1, <3>1 DEF Findable
  <2>3. QED
    BY <2>1, <2>2 DEF ObjectsPresent, Live, Findable
<1>4. CASE DeleteRows(d)
  <2>1. /\ deleting = d /\ deleting' = None /\ UNCHANGED <<handler, refused, blob>>
        /\ torn' = IF Shared(d) THEN torn \cup {contract[d].key} ELSE torn
    BY <1>4 DEF DeleteRows, redisVars, storageVars
  <2>2. /\ contract'[d].status = "deleted" /\ \A c \in Ids \ {d} : contract'[c] = contract[c]
    BY <1>4 DEF DeleteRows, TypeOK, Contract
  <2>3. \A key : key \in Findable => key \in blob \cup torn \/ contract[d].key = key
    BY <2>1 DEF Findable
  <2>4. \A h \in Handlers : handler'[h].pc \in {"find", "create"} =>
           handler'[h].key \notin refused' /\ handler'[h].key \in Findable'
    BY <2>1, <2>3 DEF ObjectsPresent, Findable, Shared
  <2>5. \A c \in Ids : Live(c)' => contract'[c].key \notin refused' /\ contract'[c].key \in Findable'
    <3> SUFFICES ASSUME NEW c \in Ids, Live(c)'
                 PROVE  contract'[c].key \notin refused' /\ contract'[c].key \in Findable'
      OBVIOUS
    <3>1. c # d /\ contract'[c] = contract[c] /\ Live(c)
      BY <2>2 DEF Live
    <3>2. contract[c].key = contract[d].key => Shared(d)
      BY <3>1 DEF Shared
    <3>3. QED
      BY <2>1, <2>3, <3>1, <3>2 DEF ObjectsPresent, Findable
  <2>6. QED
    BY <2>1, <2>4, <2>5 DEF ObjectsPresent, Findable, Live
<1>5. CASE DeleteRollsBack(d)
  <2>1. /\ deleting = d /\ deleting' = None /\ torn' = torn \cup {contract[d].key}
        /\ UNCHANGED <<contract, handler, refused, blob>>
    BY <1>5 DEF DeleteRollsBack, redisVars, storageVars
  <2>2. \A key : key \in Findable => key \in Findable'
    BY <2>1 DEF Findable
  <2>3. QED
    BY <2>1, <2>2 DEF ObjectsPresent, Live, Findable
<1>6. QED
  BY <1>1, <1>2, <1>3, <1>4, <1>5 DEF Database

LEMMA StepKeeps == ASSUME KeptInv, Next PROVE ObjectsPresent'
<1> USE DEF KeptInv, UploadsInv
<1>1. ASSUME UNCHANGED <<refused, deleting, torn, contract>>, blob \subseteq blob',
             \A h \in Handlers : handler'[h].pc \in {"find", "create"} =>
                handler[h].pc = handler'[h].pc /\ handler'[h].key = handler[h].key
      PROVE  ObjectsPresent'
  <2>1. Preserves
    BY <1>1 DEF Preserves, Live
  <2>2. QED
    BY <2>1, PreservesObjects
<1>2. ASSUME NEW h \in Handlers, NEW p \in Paths, Acquire(h, p) \/ AcquireUnheard(h, p)
      PROVE  ObjectsPresent'
  <2>1. UNCHANGED <<refused, deleting, torn, contract, blob>>
    BY <1>2 DEF Acquire, AcquireUnheard, contractVars, storageVars
  <2>2. CASE handler' = handler
    BY <1>1, <2>1, <2>2
  <2>3. CASE Begun(h, p, TRUE) \/ Begun(h, p, FALSE)
    <3>1. handler'[h].pc = "fetch" /\ \A g \in Handlers \ {h} : handler'[g] = handler[g]
      BY <1>2, <2>3, BegunEffect DEF Acquire, AcquireUnheard
    <3>2. QED
      BY <1>1, <2>1, <3>1
  <2>4. QED
    BY <1>2, <2>2, <2>3 DEF Acquire, AcquireUnheard
<1>3. ASSUME NEW h \in Handlers, Form(h) PROVE ObjectsPresent'
  <2>1. UNCHANGED <<refused, deleting, torn, contract, blob>>
    BY <1>3 DEF Form, contractVars, storageVars
  <2>2. \A g \in Handlers : handler'[g] = handler[g] \/ handler'[g].pc = "store"
    BY <1>3, FormEffect
  <2>3. QED
    BY <1>1, <2>1, <2>2
<1>4. ASSUME NEW h \in Handlers, Leaves(h) PROVE ObjectsPresent'
  <2>1. \A g \in Handlers : handler'[g] = handler[g] \/ handler'[g].pc = "idle"
    BY <1>4, LeavesEffect, QuietFields
  <2>2. UNCHANGED <<refused, deleting, torn, contract, blob>>
    BY <1>4 DEF Leaves, Mark, Release, Settle, Crash, contractVars, storageVars
  <2>3. QED
    BY <1>1, <2>1, <2>2
<1>5. ASSUME NEW p \in Paths, Lapse(p) PROVE ObjectsPresent'
  <2>1. \A g \in Handlers : handler'[g].pc = handler[g].pc /\ handler'[g].key = handler[g].key
    BY <1>5, LapseEffect DEF RunsLate
  <2>2. UNCHANGED <<refused, deleting, torn, contract, blob>>
    BY <1>5 DEF Lapse, contractVars, storageVars
  <2>3. QED
    BY <1>1, <2>1, <2>2
<1>6. CASE /\ handler' = handler /\ UNCHANGED <<refused, deleting, torn, contract>>
           /\ blob \subseteq blob'
  BY <1>1, <1>6
<1>7. ASSUME NEW p \in Paths, Authorize(p) \/ Upload(p) \/ Expire(p) PROVE ObjectsPresent'
  BY <1>6, <1>7 DEF Authorize, Upload, Expire, redisVars, contractVars, storageVars
<1>8. CASE Refill
  BY <1>6, <1>8 DEF Refill, contractVars, storageVars
<1>9. QED
  BY <1>2, <1>3, <1>4, <1>5, <1>7, <1>8, ProceedsKeeps, DatabaseKeeps, Steps

\* The document of a contract that was not deleted is in the storage, except for the
\* two ways in which a deletion removes the object another contract still needs.
THEOREM DocumentIsKeptHolds == Spec => []DocumentIsKept
<1>1. Init => KeptInv
  BY InitInv, QuietFields DEF KeptInv, Init, ObjectsPresent, Live
<1>2. ASSUME KeptInv, [Next]_vars PROVE KeptInv'
  <2>1. UploadsInv'
    BY <1>2, StepInv DEF KeptInv
  <2>2. CASE UNCHANGED vars
    BY <1>2, <2>1, <2>2 DEF KeptInv, ObjectsPresent, Findable, Live, vars, redisVars, contractVars,
                            storageVars
  <2>3. QED
    BY <1>2, <2>1, <2>2, StepKeeps DEF KeptInv
<1>3. KeptInv => DocumentIsKept
  BY DEF KeptInv, ObjectsPresent, Findable, DocumentIsKept
<1>4. QED
  BY <1>1, <1>2, <1>3, PTL DEF Spec

-----------------------------------------------------------------------------
(* Repeated jobs *)

CountedInv == UploadsInv /\ Accounted

LEMMA BusyFinite ==
    ASSUME NEW p \in Paths
    PROVE  /\ IsFiniteSet(Busy(p)) /\ Cardinality(Busy(p)) \in Nat
           /\ IsFiniteSet(Busy(p)') /\ Cardinality(Busy(p)') \in Nat
<1>1. Busy(p) \subseteq Handlers /\ Busy(p)' \subseteq Handlers
  BY DEF Busy
<1>2. QED
  BY <1>1, FS_Subset, FS_CardinalityType, UploadsAssumption

\* One request more or less is busy with a pathname.
LEMMA BusyChanges ==
    ASSUME NEW p \in Paths, NEW h \in Handlers,
           \A g \in Handlers \ {h} : handler'[g] = handler[g]
    PROVE  /\ Cardinality(Busy(p)') <= Cardinality(Busy(p)) + 1
           /\ h \in Busy(p) \/ h \notin Busy(p)' => Cardinality(Busy(p)') <= Cardinality(Busy(p))
           /\ h \in Busy(p) /\ h \notin Busy(p)' =>
                 Cardinality(Busy(p)') + 1 = Cardinality(Busy(p))
<1>1. \A g \in Handlers \ {h} : g \in Busy(p)' <=> g \in Busy(p)
  BY DEF Busy
<1>2. Busy(p) \subseteq Handlers /\ Busy(p)' \subseteq Handlers
  BY DEF Busy
<1> HIDE DEF Busy
<1> DEFINE B == Busy(p)  C == Busy(p)'
<1>3. IsFiniteSet(B) /\ IsFiniteSet(C) /\ Cardinality(B) \in Nat /\ Cardinality(C) \in Nat
  BY BusyFinite
<1>4. CASE h \in B <=> h \in C
  <2>1. B = C
    BY <1>1, <1>2, <1>4
  <2>2. QED
    BY <1>3, <1>4, <2>1
<1>5. CASE h \notin B /\ h \in C
  <2>1. C = B \cup {h}
    BY <1>1, <1>2, <1>5
  <2>2. Cardinality(C) = Cardinality(B) + 1
    BY <1>3, <1>5, <2>1, FS_AddElement
  <2>3. QED
    BY <1>3, <1>5, <2>2
<1>6. CASE h \in B /\ h \notin C
  <2>1. B = C \cup {h}
    BY <1>1, <1>2, <1>6
  <2>2. Cardinality(B) = Cardinality(C) + 1
    BY <1>3, <1>6, <2>1, FS_AddElement
  <2>3. QED
    BY <1>3, <1>6, <2>2
<1>7. QED
  BY <1>4, <1>5, <1>6

\* The account of a pathname after a step, from what the step changed of it.
LEMMA Account ==
    ASSUME CountedInv, NEW p \in Paths, NEW i \in 0..1, NEW j \in 0..1, NEW k \in 0..1, NEW l \in Nat,
           copies'[p] = copies[p] + i,
           Cardinality(Busy(p)') + k <= Cardinality(Busy(p)) + j,
           reasons'[p] = reasons[p] + l,
           Vacant(p)' + i + j <= Vacant(p) + k + l
    PROVE  copies'[p] + Cardinality(Busy(p)') + Vacant(p)' <= 1 + reasons'[p]
<1>1. /\ copies[p] \in Nat /\ reasons[p] \in Nat
      /\ Cardinality(Busy(p)) \in Nat /\ Cardinality(Busy(p)') \in Nat
  BY BusyFinite DEF CountedInv, UploadsInv, TypeOK
<1>2. Vacant(p) \in 0..1 /\ Vacant(p)' \in 0..1
  BY DEF Vacant
<1>3. copies[p] + Cardinality(Busy(p)) + Vacant(p) <= 1 + reasons[p]
  BY DEF CountedInv, Accounted
<1>4. QED
  BY <1>1, <1>2, <1>3

LEMMA SameBusy ==
    ASSUME NEW p \in Paths,
           \A h \in Handlers : handler'[h].pc = handler[h].pc /\ handler'[h].key = handler[h].key
    PROVE  Cardinality(Busy(p)') = Cardinality(Busy(p))
<1>1. Busy(p)' = Busy(p)
  BY DEF Busy
<1>2. QED
  BY <1>1

InAccount(p) == copies[p] + Cardinality(Busy(p)) + Vacant(p) <= 1 + reasons[p]

LEMMA VacantBounds ==
    \A p \in Paths : Vacant(p) \in 0..1 /\ Vacant(p)' \in 0..1
BY DEF Vacant

\* Nothing is published or excused, and nobody new is busy.
LEMMA Uneventful ==
    ASSUME CountedInv, NEW p \in Paths, copies'[p] = copies[p], reasons'[p] = reasons[p],
           Cardinality(Busy(p)') <= Cardinality(Busy(p)), Vacant(p)' <= Vacant(p)
    PROVE  InAccount(p)'
<1>1. Cardinality(Busy(p)') \in Nat /\ Cardinality(Busy(p)) \in Nat
  BY BusyFinite
<1>2. copies[p] \in Nat /\ reasons[p] \in Nat /\ Vacant(p) \in 0..1 /\ Vacant(p)' \in 0..1
  BY VacantBounds DEF CountedInv, UploadsInv, TypeOK
<1>3. QED
  BY <1>1, <1>2, Account DEF InAccount

LEMMA RedisCounts ==
    ASSUME CountedInv, NEW p \in Paths, NEW q \in Paths,
           Authorize(q) \/ Upload(q) \/ Lapse(q) \/ Expire(q)
    PROVE  InAccount(p)'
<1> USE DEF CountedInv, UploadsInv
<1>1. Cardinality(Busy(p)') \in Nat /\ Cardinality(Busy(p)) \in Nat
  BY BusyFinite
<1>2. copies[p] \in Nat /\ reasons[p] \in Nat /\ Vacant(p) \in 0..1 /\ Vacant(p)' \in 0..1
  BY VacantBounds DEF TypeOK
<1>3. \A h \in Handlers : handler'[h].pc = handler[h].pc /\ handler'[h].key = handler[h].key
  <2>1. Lapse(q) =>
           \A h \in Handlers : handler'[h].pc = handler[h].pc /\ handler'[h].key = handler[h].key
    BY LapseEffect DEF RunsLate
  <2>2. QED
    BY <2>1 DEF Authorize, Upload, Expire
<1>4. Cardinality(Busy(p)') = Cardinality(Busy(p))
  BY <1>3, SameBusy
<1>5. copies' = copies
  BY DEF Authorize, Upload, Lapse, Expire, tallyVars
<1>6. CASE Authorize(q) \/ Upload(q)
  <2>1. reasons' = reasons
    BY <1>6 DEF Authorize, Upload, tallyVars
  <2>2. \/ reservation' = reservation
        \/ /\ reservation' = [reservation EXCEPT ![q] = Free("reserved")]
           /\ reservation[q].state = "missing"
    BY <1>6 DEF Authorize, Reserve, Upload, redisVars
  <2>3. Vacant(p)' <= Vacant(p)
    BY <2>2, FreeType DEF Vacant, TypeOK
  <2>4. QED
    BY <1>1, <1>4, <1>5, <2>1, <2>3, Uneventful
<1>7. CASE Lapse(q) \/ Expire(q)
  <2>1. CASE p = q
    <3>1. reasons'[p] = reasons[p] + 1
      BY <1>7, <2>1 DEF Lapse, Expire, TypeOK
    <3>2. QED
      BY <1>1, <1>2, <1>4, <1>5, <3>1, Account DEF InAccount
  <2>2. CASE p # q
    <3>1. reasons'[p] = reasons[p] /\ reservation'[p] = reservation[p]
      BY <1>7, <2>2 DEF Lapse, Expire, TypeOK
    <3>2. Vacant(p)' <= Vacant(p)
      BY <3>1 DEF Vacant
    <3>3. QED
      BY <1>1, <1>4, <1>5, <3>1, <3>2, Uneventful
  <2>3. QED
    BY <2>1, <2>2
<1>8. QED
  BY <1>6, <1>7

LEMMA AcquireCounts ==
    ASSUME CountedInv, NEW p \in Paths, NEW h \in Handlers, NEW q \in Paths,
           Acquire(h, q) \/ AcquireUnheard(h, q)
    PROVE  InAccount(p)'
<1> USE DEF CountedInv, UploadsInv
<1>1. Cardinality(Busy(p)') \in Nat /\ Cardinality(Busy(p)) \in Nat
  BY BusyFinite
<1>2. copies[p] \in Nat /\ reasons[p] \in Nat /\ Vacant(p) \in 0..1 /\ Vacant(p)' \in 0..1
  BY VacantBounds DEF TypeOK
<1>3. copies' = copies
  BY DEF Acquire, AcquireUnheard
<1>4. Vacant(p)' <= Vacant(p)
  <2>1. \/ reservation' = reservation
        \/ reservation' = Leased(q, h) \/ reservation' = Leased(q, None)
    BY DEF Acquire, AcquireUnheard
  <2>2. p = q => reservation'[p] = reservation[p]
                 \/ (reservation'[p].state = "leased" /\ ~reservation'[p].lapsed)
    BY <2>1 DEF Leased, TypeOK
  <2>3. p # q => reservation'[p] = reservation[p]
    BY <2>1 DEF Leased, TypeOK
  <2>4. QED
    BY <2>2, <2>3 DEF Vacant
<1>5. CASE handler' = handler /\ reasons' = reasons
  <2>1. Cardinality(Busy(p)') = Cardinality(Busy(p))
    BY <1>5, SameBusy
  <2>2. QED
    BY <1>1, <1>3, <1>4, <1>5, <2>1, Uneventful
<1>6. CASE Begun(h, q, TRUE) \/ Begun(h, q, FALSE)
  <2>1. handler'[h].key = q /\ \A g \in Handlers \ {h} : handler'[g] = handler[g]
    BY <1>6, BegunEffect DEF Acquire, AcquireUnheard
  <2>2. CASE p # q
    <3>1. h \notin Busy(p)'
      BY <2>1, <2>2 DEF Busy
    <3>2. Cardinality(Busy(p)') <= Cardinality(Busy(p))
      BY <2>1, <3>1, BusyChanges
    <3>3. reasons'[p] = reasons[p]
      BY <2>2 DEF Acquire, AcquireUnheard, TypeOK
    <3>4. QED
      BY <1>1, <1>3, <1>4, <3>2, <3>3, Uneventful
  <2>3. CASE p = q
    <3>1. Cardinality(Busy(p)') <= Cardinality(Busy(p)) + 1
      BY <2>1, BusyChanges
    <3>2. CASE Acquire(h, q)
      <4>1. Vacant(p) = 1 /\ Vacant(p)' = 0
        BY <2>3, <3>2 DEF Acquire, Acquirable, Leased, Vacant, TypeOK
      <4>2. reasons'[p] = reasons[p]
        BY <3>2 DEF Acquire
      <4>3. QED
        BY <1>1, <1>2, <1>3, <3>1, <4>1, <4>2, Account DEF InAccount
    <3>3. CASE AcquireUnheard(h, q) /\ reasons' = [reasons EXCEPT ![q] = @ + 1]
      <4>1. reasons'[p] = reasons[p] + 1
        BY <2>3, <3>3 DEF TypeOK
      <4>2. QED
        BY <1>1, <1>2, <1>3, <1>4, <3>1, <4>1, Account DEF InAccount
    <3>4. QED
      BY <3>2, <3>3, <1>5 DEF AcquireUnheard
  <2>4. QED
    BY <2>2, <2>3
<1>7. QED
  BY <1>5, <1>6 DEF Acquire, AcquireUnheard

LEMMA ProceedsCounts ==
    ASSUME CountedInv, NEW p \in Paths, NEW h \in Handlers, Proceeds(h)
    PROVE  InAccount(p)'
<1> USE DEF CountedInv, UploadsInv, At
<1>1. Cardinality(Busy(p)') \in Nat /\ Cardinality(Busy(p)) \in Nat
  BY BusyFinite
<1>2. copies[p] \in Nat /\ reasons[p] \in Nat /\ Vacant(p) \in 0..1 /\ Vacant(p)' \in 0..1
  BY VacantBounds DEF TypeOK
<1>3. handler'[h].key = handler[h].key /\ \A g \in Handlers \ {h} : handler'[g] = handler[g]
  BY ProceedsEffect DEF GoesOn
<1>4. Vacant(p)' <= Vacant(p)
  <2>1. reservation' = reservation
    BY DEF Proceeds, Fetch, Reject, Store, Find, Create, Queue, Publish, PublishFails,
           QueueFailed, RecordFails, Fail, redisVars
  <2>2. QED
    BY <1>2, <2>1 DEF Vacant
<1>5. CASE RecordFails(h)
  <2>1. copies' = copies /\ reasons' = [q \in Paths |-> IF q = handler[h].key THEN reasons[q] + 1
                                                       ELSE reasons[q]]
    BY <1>5 DEF RecordFails, Reasoned
  <2>2. CASE handler[h].key = p
    <3>1. Cardinality(Busy(p)') <= Cardinality(Busy(p)) + 1
      BY <1>3, BusyChanges
    <3>2. reasons'[p] = reasons[p] + 1 /\ copies'[p] = copies[p]
      BY <2>1, <2>2
    <3>3. QED
      BY <1>1, <1>2, <1>4, <3>1, <3>2, Account DEF InAccount
  <2>3. CASE handler[h].key # p
    <3>1. h \notin Busy(p)'
      BY <1>3, <2>3 DEF Busy
    <3>2. Cardinality(Busy(p)') <= Cardinality(Busy(p))
      BY <1>3, <3>1, BusyChanges
    <3>3. reasons'[p] = reasons[p] /\ copies'[p] = copies[p]
      BY <2>1, <2>3
    <3>4. QED
      BY <1>4, <3>2, <3>3, Uneventful
  <2>4. QED
    BY <2>2, <2>3
<1>6. ASSUME ~RecordFails(h)
      PROVE  Cardinality(Busy(p)') <= Cardinality(Busy(p))
  <2>1. handler[h].pc \in {"fetch", "store", "find", "create", "queue", "publish", "failed"}
    BY <1>6 DEF Proceeds, Fetch, Reject, Store, Find, Create, Queue, Publish, PublishFails,
                QueueFailed, Fail
  <2>2. handler[h].key = p => handler[h].pc # "store"
    BY UploadsAssumption DEF Carrying
  <2>3. h \in Busy(p)' => h \in Busy(p)
    BY <1>3, <2>1, <2>2 DEF Busy
  <2>4. QED
    BY <1>3, <2>3, BusyChanges
<1>7. CASE copies' = copies /\ reasons' = reasons /\ ~RecordFails(h)
  BY <1>4, <1>6, <1>7, Uneventful
<1>8. CASE Publish(h)
  <2>1. reasons' = reasons /\ handler'[h].pc = "mark" /\ handler[h].pc = "publish"
    BY <1>8, GoesEffect DEF Publish, Places
  <2>2. ~RecordFails(h)
    BY <2>1 DEF RecordFails
  <2>3. CASE handler[h].key # p
    BY <1>4, <1>6, <1>8, <2>1, <2>2, <2>3, Uneventful DEF Publish, Counted
  <2>4. CASE handler[h].key = p
    <3>1. copies'[p] = copies[p] + 1
      BY <1>8, <2>4 DEF Publish, Counted
    <3>2. h \in Busy(p) /\ h \notin Busy(p)'
      BY <2>1, <2>4 DEF Busy
    <3>3. Cardinality(Busy(p)') + 1 <= Cardinality(Busy(p))
      BY <1>1, <1>3, <3>2, BusyChanges
    <3>4. QED
      BY <1>1, <1>2, <1>4, <2>1, <3>1, <3>3, Account DEF InAccount
  <2>5. QED
    BY <2>3, <2>4
<1>9. CASE PublishFails(h) /\ Counted(h) /\ Reasoned(h)
  <2>1. ~RecordFails(h)
    BY <1>9 DEF PublishFails, RecordFails
  <2>2. CASE handler[h].key # p
    BY <1>4, <1>6, <1>9, <2>1, <2>2, Uneventful DEF Counted, Reasoned
  <2>3. CASE handler[h].key = p
    <3>1. copies'[p] = copies[p] + 1 /\ reasons'[p] = reasons[p] + 1
      BY <1>9, <2>3 DEF Counted, Reasoned
    <3>2. QED
      BY <1>1, <1>2, <1>4, <1>6, <2>1, <3>1, Account DEF InAccount
  <2>4. QED
    BY <2>2, <2>3
<1>10. QED
  BY <1>5, <1>7, <1>8, <1>9
     DEF Proceeds, Fetch, Reject, Store, Find, Create, Queue, PublishFails, QueueFailed, Fail, tallyVars

LEMMA LeavesCounts ==
    ASSUME CountedInv, NEW p \in Paths, NEW h \in Handlers, Leaves(h)
    PROVE  InAccount(p)'
<1> USE DEF CountedInv, UploadsInv, At
<1>1. Cardinality(Busy(p)') \in Nat /\ Cardinality(Busy(p)) \in Nat
  BY BusyFinite
<1>2. copies[p] \in Nat /\ reasons[p] \in Nat /\ Vacant(p) \in 0..1 /\ Vacant(p)' \in 0..1
  BY VacantBounds DEF TypeOK
<1>3. handler'[h] = Quiet /\ \A g \in Handlers \ {h} : handler'[g] = handler[g]
  BY LeavesEffect
<1>4. h \notin Busy(p)'
  BY <1>3, QuietFields DEF Busy
<1>5. Cardinality(Busy(p)') <= Cardinality(Busy(p))
  BY <1>3, <1>4, BusyChanges
<1>6. copies' = copies /\ reasons' = reasons
  BY DEF Leaves, Mark, Release, Settle, Crash
<1>7. CASE Vacant(p)' <= Vacant(p)
  BY <1>5, <1>6, <1>7, Uneventful
<1>8. CASE reservation' = reservation \/ reservation' = Forgotten(h)
  <2>1. reservation'[p].state = reservation[p].state /\ reservation'[p].lapsed = reservation[p].lapsed
    BY <1>8 DEF Forgotten, TypeOK, Reservation
  <2>2. QED
    BY <1>2, <1>7, <2>1 DEF Vacant
<1>9. CASE reservation' = Finalized(h, "consumed")
  BY <1>2, <1>7, <1>9, FreeType DEF Finalized, Vacant
<1>10. CASE reservation' = Finalized(h, "reserved") /\ Release(h)
  <2>1. CASE reservation[p].by # h
    BY <1>2, <1>7, <1>10, <2>1 DEF Finalized, Vacant
  <2>2. CASE reservation[p].by = h
    <3>1. h \in Busy(p)
      BY <1>10, <2>2, UploadsAssumption DEF Release, Held, Busy
    <3>2. Cardinality(Busy(p)') + 1 <= Cardinality(Busy(p))
      BY <1>1, <1>3, <1>4, <3>1, BusyChanges
    <3>3. QED
      BY <1>1, <1>2, <1>6, <3>2, Account DEF InAccount
  <2>3. QED
    BY <2>1, <2>2
<1>11. QED
  BY <1>8, <1>9, <1>10 DEF Leaves, Mark, Release, Crash, Settle

LEMMA StepCounts == ASSUME CountedInv, [Next]_vars PROVE Accounted'
<1> SUFFICES ASSUME NEW p \in Paths PROVE InAccount(p)'
  BY DEF Accounted, InAccount
<1>1. CASE UNCHANGED <<handler, reservation, copies, reasons>>
  <2>1. Vacant(p)' = Vacant(p) /\ Vacant(p) \in 0..1
    BY <1>1 DEF Vacant
  <2>2. Cardinality(Busy(p)') = Cardinality(Busy(p)) /\ Cardinality(Busy(p)) \in Nat
    BY <1>1, SameBusy, BusyFinite
  <2>3. QED
    BY <1>1, <2>1, <2>2, Uneventful
<1>2. ASSUME NEW h \in Handlers, Form(h) PROVE InAccount(p)'
  <2>1. /\ \A g \in Handlers \ {h} : handler'[g] = handler[g]
        /\ handler' = handler \/ handler'[h].key = FormKey
    BY <1>2, FormEffect DEF CountedInv, UploadsInv
  <2>2. UNCHANGED <<reservation, copies, reasons>>
    BY <1>2 DEF Form
  <2>3. CASE handler' = handler
    BY <1>1, <2>2, <2>3
  <2>4. CASE handler'[h].key = FormKey
    <3>1. h \notin Busy(p)'
      BY <2>4, UploadsAssumption DEF Busy
    <3>2. Cardinality(Busy(p)') <= Cardinality(Busy(p))
      BY <2>1, <3>1, BusyChanges
    <3>3. Vacant(p)' <= Vacant(p)
      BY <2>2 DEF Vacant
    <3>4. QED
      BY <2>2, <3>2, <3>3, Uneventful
  <2>5. QED
    BY <2>1, <2>3, <2>4
<1>3. CASE Refill \/ (\E c \in Ids : Database(c)) \/ UNCHANGED vars
  BY <1>1, <1>3 DEF Refill, Database, StartReview, EndReview, DeleteObjects, DeleteRows,
                    DeleteRollsBack, redisVars, tallyVars, vars
<1>4. QED
  BY <1>2, <1>3, RedisCounts, AcquireCounts, ProceedsCounts, LeavesCounts, Steps

\* Jobs published for a pathname, requests that may still publish one and the chance
\* of another request are paid for by what went wrong: one job for one upload.
THEOREM RepeatedJobNeedsReasonHolds == Spec => []RepeatedJobNeedsReason
<1>1. ASSUME Init PROVE CountedInv
  <2>1. \A p \in Paths : Busy(p) = {}
    BY <1>1, QuietFields DEF Init, Busy
  <2>2. Accounted
    <3> SUFFICES ASSUME NEW p \in Paths
                 PROVE  copies[p] + Cardinality(Busy(p)) + Vacant(p) <= 1 + reasons[p]
      BY DEF Accounted
    <3>1. Cardinality(Busy(p)) = 0
      BY <2>1, FS_EmptySet
    <3>2. copies[p] = 0 /\ reasons[p] = 0
      BY <1>1 DEF Init
    <3>3. QED
      BY <3>1, <3>2 DEF Vacant
  <2>3. QED
    BY <1>1, <2>2, InitInv DEF CountedInv
<1>2. ASSUME CountedInv, [Next]_vars PROVE CountedInv'
  BY <1>2, StepInv, StepCounts DEF CountedInv
<1>3. ASSUME CountedInv PROVE RepeatedJobNeedsReason
  <2> SUFFICES ASSUME NEW p \in Paths PROVE copies[p] <= 1 + reasons[p]
    BY DEF RepeatedJobNeedsReason
  <2>1. copies[p] + Cardinality(Busy(p)) + Vacant(p) <= 1 + reasons[p]
    BY <1>3 DEF CountedInv, Accounted
  <2>2. copies[p] \in Nat /\ reasons[p] \in Nat /\ Cardinality(Busy(p)) \in Nat
        /\ Vacant(p) \in 0..1
    BY <1>3, BusyFinite, VacantBounds DEF CountedInv, UploadsInv, TypeOK
  <2>3. QED
    BY <2>1, <2>2
<1>4. QED
  BY <1>1, <1>2, <1>3, PTL DEF Spec

=============================================================================
