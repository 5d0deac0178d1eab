--------------------------- MODULE Signing_proofs ---------------------------
(***************************************************************************)
(* Theorems about Signing, for every set of requests, signers, event ids   *)
(* and handlers, every mailbox and every bound on crashes.                 *)
(***************************************************************************)
EXTENDS Signing, TLAPS

-----------------------------------------------------------------------------
(* The inductive invariant *)

\* A handler works on a request unless it is idle or deletes the contract.
Placed ==
    \A h \in Handlers :
        /\ (work[h].req = NoRequest) <=> (work[h].pc \in {"idle", "purge"})
        /\ At(h, "idle") => work[h].team = {}

\* A handler that was not joined is the only one on its request.
Apart ==
    \A g, h \in Handlers :
        (g # h /\ work[h].alone /\ work[h].req # NoRequest) => work[g].req # work[h].req

\* The signers a handler is about to insert are nobody else's.
Reserved ==
    \A h \in Handlers : work[h].pc \in {"create", "add"} =>
        \A s \in work[h].team :
            /\ signer[s] = NoRequest
            /\ \A g \in Handlers \ {h} : s \notin work[g].team

\* A request about to be inserted is nobody else's and has no signers.
Coming ==
    \A h \in Handlers : At(h, "create") =>
        /\ ~request[work[h].req].live
        /\ Team(work[h].req) = {}
        /\ \A g \in Handlers \ {h} : work[g].req # work[h].req

\* While the contract exists, so does every request that signers or handlers
\* refer to, except the one about to be inserted.
Rooted ==
    contract =>
        \A r \in Requests : ~request[r].live =>
            /\ Team(r) = {}
            /\ \A h \in Handlers : work[h].req = r => At(h, "create")

\* An event goes to a signer of the request its handler is on, if it still has one.
Addressed ==
    \A h \in Handlers : At(h, "append") =>
        \A s \in work[h].team :
            /\ signer[s] \in {work[h].req, NoRequest}
            /\ contract => signer[s] = work[h].req
            /\ \A g \in Handlers : (At(g, "append") /\ s \in work[g].team)
                                      => work[g].req = work[h].req

\* What a handler that was not joined has read is still so.
Informed ==
    \A h \in Handlers : work[h].alone =>
        LET r == work[h].req
        IN  /\ (At(h, "add") /\ request[r].live) => Open(r)
            /\ (At(h, "flag") /\ request[r].live) => work[h].wish = Open(r)
            /\ At(h, "append") => \A s \in work[h].team :
                                     log[s] # <<>> => Latest(s) # work[h].event.status

\* A request that no handler is about to look at again has the flag it should.
Settled ==
    \A r \in Requests :
        (/\ request[r].live /\ r \notin unsettled
         /\ \A h \in Handlers : work[h].req = r => work[h].pc \notin {"sync", "flag"})
        => request[r].active = Open(r)

SigningInv ==
    /\ TypeOK /\ Placed /\ Apart /\ Reserved /\ Coming /\ Rooted /\ Addressed
    /\ Informed /\ Settled

\* The deletion in progress has read everything there is, as long as nobody
\* commits rows beside it.
ReadForDelete ==
    ~crossed =>
        /\ \A s \in Signers : log[s] # <<>> => signer[s] # NoRequest
        /\ \A s \in Signers : signer[s] # NoRequest => request[signer[s]].live
        /\ \A h \in Handlers : At(h, "purge") =>
             /\ contract
             /\ work[h].reqs = {r \in Requests : request[r].live}
             /\ work[h].team = {s \in Signers : signer[s] \in work[h].reqs}

OnePurge == \A g, h \in Handlers : (At(g, "purge") /\ At(h, "purge")) => g = h

DeletionInv == OnePurge /\ ReadForDelete /\ DeletionLeavesNothing

-----------------------------------------------------------------------------
(* Steps *)

\* A handler that turns to a request.
Turn(h) ==
    \/ \E r \in Requests, team \in SUBSET Signers : StartCreate(h, r, team)
    \/ \E r \in Requests, s \in Signers : StartAdd(h, r, s)
    \/ \E s \in Signers, id \in EventIds, st \in Recordable :
          StartEvent(h, s, [id |-> id, status |-> st])

\* Every step is one of these.
LEMMA Steps ==
    ASSUME Next
    PROVE  \E h \in Handlers :
              \/ Turn(h) \/ InsertRequest(h) \/ InsertSigner(h) \/ RecordEvent(h)
              \/ ReadForSync(h) \/ SetFlag(h)
              \/ StartDelete(h) \/ AbortDelete(h) \/ FinishDelete(h) \/ Crash(h)
BY DEF Next, CreateStep, AddStep, EventStep, DeleteStep, Turn

-----------------------------------------------------------------------------
(* Type correctness *)

LEMMA Constants ==
    /\ NewSigner \in Event /\ Idle \in Work /\ NoRow \in Request
    /\ <<NewSigner>> \in Seq(Event)
<1>1. NewSigner \in Event
  BY DEF NewSigner, Event, SignerStatus
<1>2. Idle \in Work
  BY <1>1 DEF Idle, Work, Place
<1>3. NoRow \in Request
  BY DEF NoRow, Request
<1>4. QED
  BY <1>1, <1>2, <1>3

\* Turning to a request leaves every handler well-typed.
LEMMA BeginType ==
    ASSUME TypeOK, NEW h \in Handlers, NEW r \in Requests, NEW w \in Work, Begin(h, r, w)
    PROVE  work' \in [Handlers -> Work]
BY DEF TypeOK, Begin, Work

LEMMA DoneType ==
    ASSUME TypeOK, NEW h \in Handlers, Done(h)
    PROVE  work' \in [Handlers -> Work]
BY Constants DEF TypeOK, Done

LEMMA CrossingType == ASSUME TypeOK, Crossing PROVE crossed' \in BOOLEAN
BY DEF TypeOK, Crossing, Purging

LEMMA InitType == Init => TypeOK
<1> SUFFICES ASSUME Init PROVE TypeOK
  OBVIOUS
<1>1. log \in [Signers -> Seq(Event)]
  BY DEF Init
<1>2. QED
  <2>1. work \in [Handlers -> Work] /\ request \in [Requests -> Request]
    BY Constants DEF Init
  <2>2. crashes \in 0..MaxCrashes
    BY SigningAssumption DEF Init
  <2>3. QED
    BY <1>1, <2>1, <2>2 DEF Init, TypeOK

\* Every operation of the handlers keeps the rows well-typed.
LEMMA NextType == ASSUME TypeOK, Placed, [Next]_vars PROVE TypeOK'
<1>1. CASE UNCHANGED vars
  BY <1>1 DEF vars, TypeOK
<1>2. ASSUME NEW h \in Handlers, Turn(h) PROVE TypeOK'
  <2>1. ASSUME NEW r \in Requests, NEW team \in SUBSET Signers, StartCreate(h, r, team)
        PROVE  TypeOK'
    <3>1. [Idle EXCEPT !.pc = "create", !.req = r, !.team = team] \in Work
      BY Constants DEF Work, Place
    <3>2. QED
      BY <2>1, <3>1, BeginType DEF StartCreate, TypeOK
  <2>2. ASSUME NEW r \in Requests, NEW s \in Signers, StartAdd(h, r, s) PROVE TypeOK'
    <3>1. [Idle EXCEPT !.pc = "add", !.req = r, !.team = {s}] \in Work
      BY Constants DEF Work, Place
    <3>2. QED
      BY <2>2, <3>1, BeginType DEF StartAdd, TypeOK
  <2>3. ASSUME NEW s \in Signers, NEW id \in EventIds, NEW st \in Recordable,
               StartEvent(h, s, [id |-> id, status |-> st])
        PROVE  TypeOK'
    <3>1. signer[s] \in Requests
      BY <2>3 DEF StartEvent, TypeOK
    <3>2. [Idle EXCEPT !.pc = "append", !.req = signer[s], !.team = {s},
                       !.event = [id |-> id, status |-> st]] \in Work
      BY <3>1, Constants, SigningAssumption DEF Work, Place, Event
    <3>3. QED
      BY <2>3, <3>1, <3>2, BeginType DEF StartEvent, TypeOK
  <2>4. QED
    BY <1>2, <2>1, <2>2, <2>3 DEF Turn
<1>3. ASSUME NEW h \in Handlers, InsertRequest(h) PROVE TypeOK'
  <2>1. work' \in [Handlers -> Work]
    BY <1>3, DoneType DEF InsertRequest
  <2>2. CASE IndexAdmits(work[h].req)
    <3>1. work[h].req \in Requests \cup {NoRequest} /\ work[h].team \subseteq Signers
      BY DEF TypeOK, Work
    <3>2. /\ request' \in [Requests -> Request]
          /\ signer' \in [Signers -> Requests \cup {NoRequest}]
          /\ log' \in [Signers -> Seq(Event)]
      <4>1. request' = [request EXCEPT ![work[h].req] = [live |-> TRUE, active |-> TRUE]]
        BY <1>3, <2>2 DEF InsertRequest
      <4>2. /\ signer' = [s \in Signers |->
                             IF s \in work[h].team THEN work[h].req ELSE signer[s]]
            /\ log' = [s \in Signers |->
                          IF s \in work[h].team THEN <<NewSigner>> ELSE log[s]]
        BY <1>3, <2>2 DEF InsertRequest
      <4>3. QED
        BY <3>1, <4>1, <4>2, Constants DEF TypeOK, Request
    <3>3. QED
      BY <1>3, <2>1, <2>2, <3>2, CrossingType DEF InsertRequest, TypeOK
  <2>3. CASE ~IndexAdmits(work[h].req)
    BY <1>3, <2>1, <2>3 DEF InsertRequest, TypeOK
  <2>4. QED
    BY <2>2, <2>3
<1>4. ASSUME NEW h \in Handlers, InsertSigner(h) PROVE TypeOK'
  <2>1. work[h].req \in Requests
    BY <1>4 DEF InsertSigner, Placed, TypeOK, Work, At
  <2>2. work' \in [Handlers -> Work]
    BY <1>4, DoneType DEF InsertSigner
  <2>3. QED
    BY <1>4, <2>1, <2>2, Constants DEF InsertSigner, TypeOK, Purging
<1>5. ASSUME NEW h \in Handlers, RecordEvent(h) PROVE TypeOK'
  <2>1. work[h].event \in Event
    BY DEF TypeOK, Work
  <2>2. CASE Recorded(work[h].event.id)
    BY <1>5, <2>2, DoneType DEF RecordEvent, TypeOK
  <2>3. CASE ~Recorded(work[h].event.id)
    <3>1. work' \in [Handlers -> Work]
      <4>1. work' = [work EXCEPT ![h].pc = "sync"]
        BY <1>5, <2>3 DEF RecordEvent
      <4>2. work[h] \in Work /\ "sync" \in Place
        BY DEF TypeOK, Place
      <4>3. [work[h] EXCEPT !.pc = "sync"] \in Work
        BY <4>2 DEF Work
      <4>4. QED
        BY <4>1, <4>3 DEF TypeOK
    <3>2. log' \in [Signers -> Seq(Event)]
      <4>1. log' = [s \in Signers |-> IF s \in work[h].team
                                      THEN Append(log[s], work[h].event) ELSE log[s]]
        BY <1>5, <2>3 DEF RecordEvent
      <4>2. \A s \in Signers : log[s] \in Seq(Event)
        BY DEF TypeOK
      <4>3. QED
        BY <2>1, <4>1, <4>2
    <3>3. QED
      BY <1>5, <2>3, <3>1, <3>2, CrossingType DEF RecordEvent, TypeOK
  <2>4. QED
    BY <2>2, <2>3
<1>6. ASSUME NEW h \in Handlers, ReadForSync(h) PROVE TypeOK'
  <2>1. unsettled' \subseteq Requests
    <3>1. work[h].req \in Requests
      BY <1>6 DEF ReadForSync, Placed, TypeOK, Work, At
    <3>2. QED
      BY <1>6, <3>1 DEF ReadForSync, TypeOK
  <2>2. work' \in [Handlers -> Work]
    <3>1. CASE Done(h)
      BY <3>1, DoneType
    <3>2. ASSUME NEW wish \in BOOLEAN, NEW clean \in BOOLEAN,
                 work' = [work EXCEPT ![h].pc = "flag", ![h].wish = wish, ![h].alone = clean]
          PROVE  work' \in [Handlers -> Work]
      <4>1. work[h] \in Work
        BY DEF TypeOK
      <4>2. [work[h] EXCEPT !.pc = "flag", !.wish = wish, !.alone = clean] \in Work
        BY <4>1 DEF Work, Place
      <4>3. work' = [work EXCEPT ![h] = [work[h] EXCEPT !.pc = "flag", !.wish = wish,
                                                        !.alone = clean]]
        BY <3>2 DEF TypeOK
      <4>4. QED
        BY <4>2, <4>3 DEF TypeOK
    <3>3. QED
      BY <1>6, <3>1, <3>2 DEF ReadForSync, Open
  <2>3. QED
    BY <1>6, <2>1, <2>2 DEF ReadForSync, TypeOK
<1>7. ASSUME NEW h \in Handlers, SetFlag(h) PROVE TypeOK'
  <2>1. work[h].req \in Requests \cup {NoRequest} /\ work[h].wish \in BOOLEAN
    BY DEF TypeOK, Work
  <2>2. work' \in [Handlers -> Work]
    BY <1>7, DoneType DEF SetFlag
  <2>3. QED
    <3>1. unsettled' \subseteq Requests
      BY <1>7 DEF SetFlag, TypeOK, Placed, Work, At
    <3>2. request' \in [Requests -> Request]
      <4>1. [live |-> TRUE, active |-> work[h].wish] \in Request
        BY <2>1 DEF Request
      <4>2. request' \in {request, [request EXCEPT ![work[h].req] =
                                        [live |-> TRUE, active |-> work[h].wish]]}
        BY <1>7 DEF SetFlag
      <4>3. QED
        BY <4>1, <4>2 DEF TypeOK
    <3>3. QED
      BY <1>7, <2>2, <3>1, <3>2 DEF SetFlag, TypeOK
<1>8. ASSUME NEW h \in Handlers, StartDelete(h) PROVE TypeOK'
  <2>1. work' \in [Handlers -> Work]
    BY <1>8, Constants DEF StartDelete, TypeOK, Work, Place
  <2>2. QED
    BY <1>8, <2>1 DEF StartDelete, TypeOK
<1>9. ASSUME NEW h \in Handlers, AbortDelete(h) PROVE TypeOK'
  BY <1>9, DoneType DEF AbortDelete, TypeOK
<1>10. ASSUME NEW h \in Handlers, FinishDelete(h) PROVE TypeOK'
  <2>1. log' \in [Signers -> Seq(Event)]
    BY <1>10 DEF FinishDelete, TypeOK
  <2>2. QED
    BY <1>10, <2>1, DoneType, Constants DEF FinishDelete, TypeOK
<1>11. ASSUME NEW h \in Handlers, Crash(h) PROVE TypeOK'
  <2>1. work' \in [Handlers -> Work] /\ work[h] \in Work
    BY <1>11, DoneType DEF Crash, TypeOK
  <2>2. QED
    <3>1. unsettled' \subseteq Requests
      BY <1>11 DEF Crash, TypeOK, Placed, Work, At
    <3>2. crashes' \in 0..MaxCrashes
      BY <1>11, SigningAssumption DEF Crash, TypeOK
    <3>3. QED
      BY <1>11, <2>1, <3>1, <3>2 DEF Crash, TypeOK
<1>12. QED
  BY <1>1, <1>2, <1>3, <1>4, <1>5, <1>6, <1>7, <1>8, <1>9, <1>10, <1>11, Steps

-----------------------------------------------------------------------------
(* What a step does to the handlers *)

\* g goes on as it was, except that it may have been joined.
GoesOn(g) ==
    /\ work'[g].pc = work[g].pc /\ work'[g].req = work[g].req
    /\ work'[g].team = work[g].team /\ work'[g].event = work[g].event
    /\ work'[g].wish = work[g].wish /\ work'[g].reqs = work[g].reqs

\* What a handler that turns to a request knows, and what it does to the others.
Turned(h) ==
    LET r == work'[h].req
        team == work'[h].team
    IN  /\ At(h, "idle")
        /\ UNCHANGED <<contract, request, signer, log, unsettled, crossed>>
        /\ r \in Requests /\ work'[h].pc \in {"create", "add", "append"}
        /\ work'[h].alone <=> \A g \in Handlers \ {h} : work[g].req # r
        /\ \A g \in Handlers \ {h} :
             GoesOn(g) /\ (work'[g].alone => work[g].alone /\ work[g].req # r)
        /\ work'[h].pc # "append" =>
             \A s \in team : /\ signer[s] = NoRequest
                             /\ \A g \in Handlers : s \notin work[g].team
        /\ work'[h].pc = "create" =>
             contract /\ ~request[r].live /\ \A g \in Handlers : work[g].req # r
        /\ work'[h].pc = "add" => Found(r) /\ Open(r)
        /\ work'[h].pc = "append" =>
             /\ request[r].live
             /\ \A s \in team : signer[s] = r /\ Latest(s) # work'[h].event.status

LEMMA TurnEffect == ASSUME TypeOK, NEW h \in Handlers, Turn(h) PROVE Turned(h)
<1>1. ASSUME NEW r \in Requests, NEW w \in Work, Begin(h, r, w), w.req = r
      PROVE  /\ work'[h].pc = w.pc /\ work'[h].req = r /\ work'[h].team = w.team
             /\ work'[h].event = w.event
             /\ work'[h].alone <=> \A g \in Handlers \ {h} : work[g].req # r
             /\ \A g \in Handlers \ {h} :
                  GoesOn(g) /\ (work'[g].alone => work[g].alone /\ work[g].req # r)
  <2>1. work'[h] = [w EXCEPT !.alone = Others(h, r) = {}]
    BY <1>1 DEF Begin
  <2>2. \A g \in Handlers \ {h} :
            work'[g] = IF work[g].req = r THEN [work[g] EXCEPT !.alone = FALSE] ELSE work[g]
    BY <1>1 DEF Begin
  <2>3. \A g \in Handlers : work[g] \in Work
    BY DEF TypeOK
  <2>4. \A g \in Handlers \ {h} :
            GoesOn(g) /\ (work'[g].alone => work[g].alone /\ work[g].req # r)
    BY <2>2, <2>3 DEF Work, GoesOn
  <2>5. Others(h, r) = {} <=> \A g \in Handlers \ {h} : work[g].req # r
    BY DEF Others
  <2>6. QED
    BY <1>1, <2>1, <2>4, <2>5 DEF Work
<1>2. ASSUME NEW r \in Requests, NEW team \in SUBSET Signers, StartCreate(h, r, team)
      PROVE  Turned(h)
  <2> DEFINE w == [Idle EXCEPT !.pc = "create", !.req = r, !.team = team]
  <2>1. w \in Work /\ w.req = r /\ w.pc = "create" /\ w.team = team
    BY Constants DEF Work, Place
  <2>2. Begin(h, r, w)
    BY <1>2 DEF StartCreate
  <2> HIDE DEF w
  <2>3. QED
    BY <1>1, <1>2, <2>1, <2>2 DEF StartCreate, Turned
<1>3. ASSUME NEW r \in Requests, NEW s \in Signers, StartAdd(h, r, s) PROVE Turned(h)
  <2> DEFINE w == [Idle EXCEPT !.pc = "add", !.req = r, !.team = {s}]
  <2>1. w \in Work /\ w.req = r /\ w.pc = "add" /\ w.team = {s}
    BY Constants DEF Work, Place
  <2>2. Begin(h, r, w)
    BY <1>3 DEF StartAdd
  <2> HIDE DEF w
  <2>3. QED
    BY <1>1, <1>3, <2>1, <2>2 DEF StartAdd, Turned
<1>4. ASSUME NEW s \in Signers, NEW id \in EventIds, NEW st \in Recordable,
             StartEvent(h, s, [id |-> id, status |-> st])
      PROVE  Turned(h)
  <2> DEFINE e == [id |-> id, status |-> st]
             w == [Idle EXCEPT !.pc = "append", !.req = signer[s], !.team = {s}, !.event = e]
  <2>1. signer[s] \in Requests
    BY <1>4 DEF StartEvent, TypeOK
  <2>2. e \in Event /\ e.status = st
    BY SigningAssumption DEF Event
  <2>3. Latest(s) # st /\ request[signer[s]].live
    BY <1>4 DEF StartEvent
  <2> HIDE DEF e
  <2>4. /\ w \in Work /\ w.req = signer[s] /\ w.pc = "append" /\ w.team = {s}
        /\ w.event = e
    BY <2>1, <2>2, Constants DEF Work, Place
  <2>5. Begin(h, signer[s], w)
    BY <1>4 DEF StartEvent, e
  <2> HIDE DEF w
  <2>6. QED
    BY <1>1, <1>4, <2>1, <2>2, <2>3, <2>4, <2>5 DEF StartEvent, Turned
<1>5. QED
  BY <1>2, <1>3, <1>4 DEF Turn

\* A handler that leaves touches no other.
LEMMA DoneEffect ==
    ASSUME TypeOK, NEW h \in Handlers, Done(h)
    PROVE  /\ work'[h] = Idle
           /\ Idle.pc = "idle" /\ Idle.req = NoRequest /\ Idle.team = {}
           /\ \A g \in Handlers \ {h} : work'[g] = work[g]
BY DEF TypeOK, Done, Idle

\* A handler that goes on with its request, or leaves it, touches no other.
Moved(h) ==
    /\ \A g \in Handlers \ {h} : work'[g] = work[g]
    /\ \/ work'[h] = Idle
       \/ /\ work'[h].req = work[h].req /\ work'[h].team = work[h].team
          /\ \/ At(h, "append") /\ work'[h].pc = "sync" /\ work'[h].alone = work[h].alone
             \/ /\ At(h, "sync") /\ work'[h].pc = "flag"
                /\ work'[h].alone = (Others(h, work[h].req) = {})
                /\ work'[h].wish = Open(work[h].req)
       \/ /\ At(h, "idle") /\ ~Purging /\ contract
          /\ work'[h].pc = "purge" /\ work'[h].req = NoRequest
          /\ work'[h].reqs = {r \in Requests : request[r].live}
          /\ work'[h].team = {s \in Signers : signer[s] \in work'[h].reqs}

LEMMA MoveEffect ==
    ASSUME TypeOK, NEW h \in Handlers,
           \/ InsertRequest(h) \/ InsertSigner(h) \/ RecordEvent(h)
           \/ ReadForSync(h) \/ SetFlag(h)
           \/ StartDelete(h) \/ AbortDelete(h) \/ FinishDelete(h) \/ Crash(h)
    PROVE  Moved(h)
<1>1. CASE Done(h)
  BY <1>1, DoneEffect DEF Moved
<1>2. work[h] \in Work
  BY DEF TypeOK
<1>3. CASE RecordEvent(h) /\ ~Done(h)
  BY <1>2, <1>3 DEF RecordEvent, Moved, TypeOK, Work
<1>4. CASE ReadForSync(h) /\ ~Done(h)
  <2>1. /\ At(h, "sync")
        /\ work' = [work EXCEPT ![h].pc = "flag", ![h].wish = Open(work[h].req),
                                ![h].alone = Others(h, work[h].req) = {}]
    BY <1>4 DEF ReadForSync
  <2>2. QED
    BY <1>2, <2>1 DEF Moved, TypeOK, Work
<1>5. CASE StartDelete(h)
  <2> DEFINE reqs == {r \in Requests : request[r].live}
             w == [Idle EXCEPT !.pc = "purge", !.reqs = reqs,
                               !.team = {s \in Signers : signer[s] \in reqs}]
  <2>1. work' = [work EXCEPT ![h] = w] /\ At(h, "idle") /\ contract /\ ~Purging
    BY <1>5 DEF StartDelete
  <2>2. work'[h] = w /\ \A g \in Handlers \ {h} : work'[g] = work[g]
    BY <2>1 DEF TypeOK
  <2>3. /\ w.pc = "purge" /\ w.req = NoRequest /\ w.reqs = reqs
        /\ w.team = {s \in Signers : signer[s] \in reqs}
    BY DEF Idle
  <2>4. QED
    BY <2>1, <2>2, <2>3 DEF Moved
<1>6. QED
  BY <1>1, <1>3, <1>4, <1>5
     DEF InsertRequest, InsertSigner, SetFlag, AbortDelete, FinishDelete, Crash

LEMMA IdleFields ==
    /\ Idle.pc = "idle" /\ Idle.req = NoRequest /\ Idle.team = {}
BY DEF Idle

\* Whatever moves, handlers are on a request or on none, and alone or not.
LEMMA MovePlaced ==
    ASSUME TypeOK, Placed, Apart, NEW h \in Handlers, Moved(h)
    PROVE  Placed' /\ Apart'
<1>1. Placed'
  BY IdleFields, SigningAssumption DEF Moved, Placed, At, TypeOK, Work
<1>2. Apart'
  BY IdleFields, SigningAssumption DEF Moved, Apart, Placed, At, TypeOK, Work, Others
<1>3. QED
  BY <1>1, <1>2

LEMMA TurnPlaced ==
    ASSUME TypeOK, Placed, Apart, NEW h \in Handlers, Turned(h)
    PROVE  Placed' /\ Apart'
<1>1. Placed'
  BY SigningAssumption DEF Turned, GoesOn, Placed, At, TypeOK, Work
<1>2. Apart'
  BY SigningAssumption DEF Turned, GoesOn, Apart, Placed, At, TypeOK, Work
<1>3. QED
  BY <1>1, <1>2

-----------------------------------------------------------------------------
(* What is open *)

\* A request nobody writes to keeps its status.
LEMMA OpenFrame ==
    ASSUME NEW r, Team(r)' = Team(r), \A s \in Team(r) : log'[s] = log[s]
    PROVE  Open(r)' = Open(r)
<1>1. \A s \in Team(r) : Latest(s)' = Latest(s)
  BY DEF Latest
<1>2. StatusOf(r)' = StatusOf(r)
  BY <1>1 DEF StatusOf
<1>3. QED
  BY <1>2 DEF Open

\* A signer with only its first event is pending.
LEMMA NewIsPending ==
    ASSUME NEW s, log'[s] = <<NewSigner>>
    PROVE  Latest(s)' = "pending"
BY DEF Latest, NewSigner

\* A request of new signers is open.
LEMMA NewIsOpen ==
    ASSUME NEW r, \A s \in Team(r)' : log'[s] = <<NewSigner>>
    PROVE  Open(r)'
<1>1. \A s \in Team(r)' : Latest(s)' = "pending"
  BY NewIsPending
<1>2. StatusOf(r)' = "not_started"
  BY <1>1 DEF StatusOf
<1>3. QED
  BY <1>2 DEF Open, TerminalStatuses

\* A new signer leaves an open request open.
LEMMA OpenJoined ==
    ASSUME NEW r, NEW new, Open(r), Team(r)' = Team(r) \cup new,
           \A s \in new : log'[s] = <<NewSigner>>,
           \A s \in Team(r) \ new : log'[s] = log[s]
    PROVE  Open(r)'
<1>1. \A s \in new : Latest(s)' = "pending"
  BY NewIsPending
<1>2. \A s \in Team(r) \ new : Latest(s)' = Latest(s)
  BY DEF Latest
<1>3. StatusOf(r) \in {"not_started", "in_progress"}
  BY DEF Open, StatusOf, TerminalStatuses
<1>4. StatusOf(r)' \in {"not_started", "in_progress"}
  BY <1>1, <1>2, <1>3 DEF StatusOf
<1>5. QED
  BY <1>4 DEF Open, TerminalStatuses

-----------------------------------------------------------------------------
(* What a step does to the rows *)

\* The rows of r stay as they are.
Untouched(r) ==
    /\ request'[r] = request[r] /\ Team(r)' = Team(r)
    /\ r \in unsettled' <=> r \in unsettled
    /\ \A s \in Team(r) : log'[s] = log[s]

\* A step on a request, or of a deletion that does not end.
Working(h) ==
    \/ InsertRequest(h) \/ InsertSigner(h) \/ RecordEvent(h) \/ ReadForSync(h)
    \/ SetFlag(h) \/ StartDelete(h) \/ AbortDelete(h) \/ Crash(h)

\* It writes only to the request its handler is on and to signers it has reserved
\* or found there.
LEMMA Elsewhere ==
    ASSUME SigningInv, NEW h \in Handlers, Working(h)
    PROVE  /\ contract' = contract
           /\ \A r \in Requests : r # work[h].req => Untouched(r)
           /\ \A s \in Signers : signer'[s] = signer[s]
                                 \/ (s \in work[h].team /\ work[h].pc \in {"create", "add"})
           /\ \A s \in Signers :
                 log'[s] = log[s]
                 \/ (s \in work[h].team /\ work[h].pc \in {"create", "add", "append"})
<1> USE DEF SigningInv
<1>1. CASE UNCHANGED <<contract, request, signer, log>>
  <2>1. \A r \in Requests : r # work[h].req => (r \in unsettled' <=> r \in unsettled)
    BY <1>1 DEF Working, InsertRequest, InsertSigner, RecordEvent, ReadForSync,
               SetFlag, StartDelete, AbortDelete, Crash
  <2>2. QED
    BY <1>1, <2>1 DEF Untouched, Team
<1>2. CASE InsertRequest(h) \/ InsertSigner(h)
  <2>1. \A s \in work[h].team : signer[s] = NoRequest
    BY <1>2 DEF Reserved, InsertRequest, InsertSigner, At
  <2>2. /\ \A s \in Signers : signer'[s] \in {signer[s], work[h].req}
        /\ \A s \in Signers \ work[h].team : signer'[s] = signer[s] /\ log'[s] = log[s]
        /\ \A r \in Requests : r # work[h].req => request'[r] = request[r]
        /\ \A r \in Requests : r # work[h].req => (r \in unsettled' <=> r \in unsettled)
        /\ contract' = contract /\ work[h].pc \in {"create", "add"}
    BY <1>2 DEF InsertRequest, InsertSigner, TypeOK, At
  <2>3. ASSUME NEW r \in Requests, r # work[h].req PROVE Team(r)' = Team(r)
    BY <2>1, <2>2, <2>3, SigningAssumption DEF Team
  <2>4. \A r \in Requests : \A s \in Team(r) : s \notin work[h].team
    BY <2>1, SigningAssumption DEF Team
  <2>5. QED
    BY <2>2, <2>3, <2>4 DEF Untouched, Team
<1>3. CASE RecordEvent(h)
  <2>1. \A s \in work[h].team : signer[s] \in {work[h].req, NoRequest}
    BY <1>3 DEF Addressed, RecordEvent
  <2>2. /\ \A s \in Signers \ work[h].team : log'[s] = log[s]
        /\ UNCHANGED <<contract, request, signer, unsettled>> /\ work[h].pc = "append"
    BY <1>3 DEF RecordEvent, TypeOK, At
  <2>3. \A r \in Requests : r # work[h].req => \A s \in Team(r) : s \notin work[h].team
    BY <2>1, SigningAssumption DEF Team
  <2>4. QED
    BY <2>2, <2>3 DEF Untouched, Team
<1>4. CASE SetFlag(h)
  BY <1>4 DEF SetFlag, Untouched, Team, TypeOK
<1>5. QED
  BY <1>1, <1>2, <1>3, <1>4
     DEF Working, ReadForSync, StartDelete, AbortDelete, Crash

-----------------------------------------------------------------------------
(* Who may write what *)

\* A turn takes signers and a request that nobody else is about to insert.
LEMMA TurnRows ==
    ASSUME SigningInv, NEW h \in Handlers, Turned(h)
    PROVE  Reserved' /\ Coming' /\ Rooted' /\ Addressed'
<1> USE DEF SigningInv
<1> DEFINE r == work'[h].req
           team == work'[h].team
<1>1. /\ UNCHANGED <<contract, request, signer, log>>
      /\ r \in Requests /\ r # NoRequest /\ work'[h].pc \in {"create", "add", "append"}
      /\ \A g \in Handlers \ {h} : GoesOn(g)
  BY SigningAssumption DEF Turned
<1>2. \A g \in Handlers \ {h} : /\ work'[g].pc = work[g].pc /\ work'[g].req = work[g].req
                                /\ work'[g].team = work[g].team
  BY <1>1 DEF GoesOn
<1>3. work'[h].pc # "append" => \A s \in team : /\ signer[s] = NoRequest
                                               /\ \A g \in Handlers : s \notin work[g].team
  BY DEF Turned
<1>4. work'[h].pc = "create" => ~request[r].live /\ contract
                               /\ \A g \in Handlers : work[g].req # r
  BY DEF Turned
<1>5. work'[h].pc \in {"add", "append"} => request[r].live
  BY DEF Turned, Found
<1>6. work'[h].pc = "append" => \A s \in team : signer[s] = r
  BY DEF Turned
<1>7. \A q : Team(q)' = Team(q)
  BY <1>1 DEF Team
<1> HIDE DEF r, team
<1>8. Reserved'
  BY <1>1, <1>2, <1>3, <1>6 DEF Reserved, r, team
<1>9. Coming'
  <2>1. ASSUME NEW g \in Handlers, work'[g].pc = "create"
        PROVE  /\ ~request[work'[g].req].live /\ Team(work'[g].req) = {}
               /\ \A k \in Handlers \ {g} : work'[k].req # work'[g].req
    <3>1. CASE g = h
      BY <3>1, <2>1, <1>1, <1>2, <1>4 DEF Rooted, r
    <3>2. CASE g # h
      BY <3>2, <2>1, <1>1, <1>2, <1>4, <1>5 DEF Coming, At, r
    <3>3. QED
      BY <3>1, <3>2
  <2>2. QED
    BY <2>1, <1>1, <1>7 DEF Coming, At
<1>10. Rooted'
  BY <1>1, <1>2, <1>4, <1>5, <1>7 DEF Rooted, At, r
<1>11. Addressed'
  <2>1. ASSUME NEW g \in Handlers, work'[g].pc = "append", NEW s \in work'[g].team
        PROVE  /\ signer[s] \in {work'[g].req, NoRequest}
               /\ contract => signer[s] = work'[g].req
               /\ \A k \in Handlers : (work'[k].pc = "append" /\ s \in work'[k].team)
                                          => work'[k].req = work'[g].req
    <3>1. CASE g = h
      BY <3>1, <2>1, <1>1, <1>2, <1>6 DEF Addressed, At, r, team
    <3>2. CASE g # h
      BY <3>2, <2>1, <1>1, <1>2, <1>6 DEF Addressed, At, r, team
    <3>3. QED
      BY <3>1, <3>2
  <2>2. QED
    BY <2>1, <1>1 DEF Addressed, At
<1>12. QED
  BY <1>8, <1>9, <1>10, <1>11

LEMMA WorkingKeepsRows ==
    ASSUME TypeOK, NEW h \in Handlers, Working(h), NEW r \in Requests, request[r].live
    PROVE  request'[r].live
<1>1. CASE InsertRequest(h)
  <2>1. \/ request' = request
        \/ request' = [request EXCEPT ![work[h].req] = [live |-> TRUE, active |-> TRUE]]
    BY <1>1 DEF InsertRequest
  <2>2. request \in [Requests -> Request]
    BY DEF TypeOK
  <2>3. QED
    BY <2>1, <2>2
<1>2. CASE SetFlag(h)
  BY <1>2 DEF SetFlag, TypeOK
<1>3. QED
  BY <1>1, <1>2 DEF Working, InsertSigner, RecordEvent, ReadForSync,
                    StartDelete, AbortDelete, Crash

\* A step on one request leaves what others are about to insert alone.
LEMMA WorkingRows ==
    ASSUME SigningInv, NEW h \in Handlers, Working(h)
    PROVE  Reserved' /\ Coming' /\ Rooted' /\ Addressed'
<1> USE SigningAssumption, IdleFields DEF SigningInv, At
<1>1. Moved(h)
  BY MoveEffect DEF Working
<1>2. /\ contract' = contract
      /\ \A r \in Requests : r # work[h].req => Untouched(r)
      /\ \A s \in Signers : signer'[s] = signer[s]
                            \/ (s \in work[h].team /\ work[h].pc \in {"create", "add"})
  BY Elsewhere
<1>3. \A g \in Handlers : work[g].team \subseteq Signers /\ work[g].req \in Requests \cup {NoRequest}
  BY DEF TypeOK, Work
<1>4. Reserved'
  <2>1. \A s \in work'[h].team : s \in work[h].team \/ signer[s] # NoRequest
    BY <1>1 DEF Moved, TypeOK
  <2>2. work'[h].pc \notin {"create", "add"}
    BY <1>1 DEF Moved
  <2>3. \A g \in Handlers \ {h} : work'[g] = work[g]
    BY <1>1 DEF Moved
  <2>4. QED
    BY <1>2, <1>3, <2>1, <2>2, <2>3 DEF Reserved
<1>5. Coming'
  BY <1>1, <1>2, <1>3 DEF Coming, Moved, Untouched, Placed
<1>6. Rooted'
  <2> SUFFICES ASSUME contract, NEW r \in Requests, ~request'[r].live
               PROVE  /\ Team(r)' = {}
                      /\ \A g \in Handlers : work'[g].req = r => work'[g].pc = "create"
    BY <1>2 DEF Rooted
  <2>1. ~request[r].live
    BY WorkingKeepsRows
  <2>2. Team(r) = {} /\ \A g \in Handlers : work[g].req = r => work[g].pc = "create"
    BY <2>1 DEF Rooted
  <2>3. CASE r # work[h].req
    BY <2>2, <2>3, <1>1, <1>2 DEF Untouched, Moved
  <2>4. CASE r = work[h].req
    <3>1. Done(h) /\ signer' = signer
      <4>1. CASE InsertRequest(h)
        BY <2>4, <4>1 DEF InsertRequest, TypeOK
      <4>2. CASE Crash(h)
        BY <4>2 DEF Crash
      <4>3. QED
        BY <2>2, <2>4, <4>1, <4>2 DEF Working, InsertSigner, RecordEvent, ReadForSync,
                                     SetFlag, StartDelete, AbortDelete
    <3>2. work'[h] = Idle /\ \A g \in Handlers \ {h} : work'[g] = work[g]
      BY <3>1, DoneEffect
    <3>3. Team(r)' = Team(r)
      BY <3>1 DEF Team
    <3>4. QED
      BY <2>2, <3>2, <3>3
  <2>5. QED
    BY <2>3, <2>4
<1>7. Addressed'
  BY <1>1, <1>2, <1>3 DEF Addressed, Reserved, Moved
<1>8. QED
  BY <1>4, <1>5, <1>6, <1>7

\* Nothing is left of the contract to write to.
LEMMA DeleteRows ==
    ASSUME SigningInv, NEW h \in Handlers, FinishDelete(h)
    PROVE  Reserved' /\ Coming' /\ Rooted' /\ Addressed'
<1> USE SigningAssumption, IdleFields DEF SigningInv, At, FinishDelete
<1>1. /\ Moved(h) /\ work'[h] = Idle
      /\ \A s \in Signers : signer'[s] \in {signer[s], NoRequest}
  BY MoveEffect, DoneEffect DEF TypeOK
<1>2. \A g \in Handlers : work[g].team \subseteq Signers /\ work[g].req \in Requests \cup {NoRequest}
  BY DEF TypeOK, Work
<1>3. Reserved'
  BY <1>1, <1>2 DEF Reserved, Moved
<1>4. Coming'
  BY <1>1, <1>2 DEF Coming, Moved, Team, NoRow, Placed
<1>5. Rooted' /\ Addressed'
  BY <1>1, <1>2 DEF Rooted, Addressed, Moved
<1>6. QED
  BY <1>3, <1>4, <1>5

-----------------------------------------------------------------------------
(* What handlers know, and the flag *)

\* Open requests stay as they are where nobody writes.
LEMMA UntouchedOpen == ASSUME NEW r, Untouched(r) PROVE Open(r)' = Open(r)
BY OpenFrame DEF Untouched

\* A turn writes no row.
LEMMA TurnKnows ==
    ASSUME SigningInv, NEW h \in Handlers, Turned(h)
    PROVE  Informed' /\ Settled'
<1> USE DEF SigningInv
<1>1. UNCHANGED <<contract, request, signer, log, unsettled>>
  BY DEF Turned
<1>2. \A r \in Requests : Untouched(r) /\ Open(r)' = Open(r)
  BY <1>1, UntouchedOpen DEF Untouched, Team
<1>3. \A s : Latest(s)' = Latest(s)
  BY <1>1 DEF Latest
<1>4. /\ work'[h].req \in Requests /\ work'[h].pc \in {"create", "add", "append"}
      /\ work'[h].pc = "add" => Open(work'[h].req)
      /\ work'[h].pc = "append" =>
            \A s \in work'[h].team : Latest(s) # work'[h].event.status
  BY DEF Turned
<1>5. \A g \in Handlers \ {h} :
         /\ work'[g].pc = work[g].pc /\ work'[g].req = work[g].req
         /\ work'[g].team = work[g].team /\ work'[g].event = work[g].event
         /\ work'[g].wish = work[g].wish
         /\ work'[g].alone => work[g].alone
  BY DEF Turned, GoesOn
<1>6. \A g \in Handlers : work[g].pc \in {"add", "flag"} => work[g].req \in Requests
  BY DEF TypeOK, Work, Placed
<1>7. Informed'
  <2> SUFFICES ASSUME NEW g \in Handlers, work'[g].alone
               PROVE  LET r == work'[g].req
                      IN  /\ (work'[g].pc = "add" /\ request[r].live) => Open(r)
                          /\ (work'[g].pc = "flag" /\ request[r].live) => work'[g].wish = Open(r)
                          /\ work'[g].pc = "append" => \A s \in work'[g].team :
                                log[s] # <<>> => Latest(s) # work'[g].event.status
    BY <1>1, <1>2, <1>3, <1>4, <1>5, <1>6 DEF Informed, At
  <2>1. CASE g = h
    BY <2>1, <1>4
  <2>2. CASE g # h
    BY <2>2, <1>5 DEF Informed, At
  <2>3. QED
    BY <2>1, <2>2
<1>8. Settled'
  <2> SUFFICES ASSUME NEW r \in Requests, request[r].live, r \notin unsettled,
                      \A g \in Handlers : work'[g].req = r => work'[g].pc \notin {"sync", "flag"}
               PROVE  request[r].active = Open(r)
    BY <1>1, <1>2 DEF Settled
  <2>1. \A g \in Handlers : work[g].req = r => work[g].pc \notin {"sync", "flag"}
    BY <1>5 DEF Turned, At
  <2>2. QED
    BY <2>1 DEF Settled
<1>9. QED
  BY <1>7, <1>8

\* What a handler alone on a request has read is changed by nobody else.
LEMMA WorkingInformed ==
    ASSUME SigningInv, NEW h \in Handlers, Working(h)
    PROVE  Informed'
<1> USE DEF SigningInv
<1>1. Moved(h)
  BY MoveEffect DEF Working
<1>2. /\ \A r \in Requests : r # work[h].req => Untouched(r)
      /\ \A s \in Signers :
            log'[s] = log[s]
            \/ (s \in work[h].team /\ work[h].pc \in {"create", "add", "append"})
  BY Elsewhere
<1>3. ASSUME NEW g \in Handlers \ {h}, work[g].alone, work[g].pc \in {"add", "append", "flag"},
             NEW r \in Requests, r = work[g].req
      PROVE  /\ (work[g].pc = "add" /\ request'[r].live) => Open(r)'
             /\ (work[g].pc = "flag" /\ request'[r].live) => work[g].wish = Open(r)'
             /\ work[g].pc = "append" => \A s \in work[g].team :
                   log'[s] # <<>> => Latest(s)' # work[g].event.status
  <2>1. r # work[h].req
    BY <1>3, SigningAssumption DEF Apart
  <2>2. Untouched(r) /\ Open(r)' = Open(r) /\ request'[r] = request[r]
    BY <2>1, <1>2, UntouchedOpen DEF Untouched
  <2>3. CASE work[g].pc \in {"add", "flag"}
    BY <1>3, <2>2, <2>3 DEF Informed, At
  <2>4. CASE work[g].pc = "append"
    <3>1. ASSUME NEW s \in work[g].team PROVE log'[s] = log[s]
      <4>1. s \in Signers
        BY DEF TypeOK, Work
      <4>2. ~(s \in work[h].team /\ work[h].pc \in {"create", "add"})
        BY <1>3 DEF Reserved
      <4>3. ~(s \in work[h].team /\ work[h].pc = "append")
        BY <1>3, <2>1, <2>4 DEF Addressed, At
      <4>4. QED
        BY <1>2, <4>1, <4>2, <4>3
    <3>2. \A s \in work[g].team : Latest(s)' = Latest(s)
      BY <3>1 DEF Latest
    <3>3. QED
      BY <1>3, <2>4, <3>1, <3>2 DEF Informed, At
  <2>5. QED
    BY <1>3, <2>3, <2>4
<1>4. ASSUME work'[h].pc = "flag", NEW r \in Requests, r = work'[h].req
      PROVE  work'[h].wish = Open(r)'
  <2>1. ReadForSync(h)
    BY <1>4, <1>1, IdleFields
       DEF Moved, At, Working, InsertRequest, InsertSigner, RecordEvent, SetFlag,
           StartDelete, AbortDelete, Crash, Done, TypeOK
  <2>2. UNCHANGED <<signer, log>>
    BY <2>1 DEF ReadForSync
  <2>3. Open(r)' = Open(r)
    BY <2>2, OpenFrame DEF Team
  <2>4. r = work[h].req /\ work'[h].wish = Open(work[h].req)
    BY <1>1, <1>4, IdleFields DEF Moved
  <2>5. QED
    BY <2>3, <2>4
<1>5. work'[h].pc \notin {"add", "append"}
  BY <1>1, IdleFields DEF Moved
<1>6. /\ \A g \in Handlers \ {h} : work'[g] = work[g]
      /\ work'[h] = Idle \/ work'[h].req = work[h].req \/ work'[h].pc = "purge"
  BY <1>1 DEF Moved
<1>7. /\ \A g \in Handlers : work[g].pc \in {"add", "append", "flag", "sync"} => work[g].req \in Requests
      /\ work'[h].pc = "flag" => work'[h].req \in Requests
  <2>1. \A g \in Handlers : work[g].pc \in {"add", "append", "flag", "sync"} => work[g].req \in Requests
    BY DEF TypeOK, Work, Placed, At
  <2>2. QED
    BY <2>1, <1>1, IdleFields DEF Moved, At
<1>8. QED
  <2> SUFFICES ASSUME NEW g \in Handlers, work'[g].alone,
                      work'[g].pc \in {"add", "append", "flag"},
                      NEW r \in Requests, r = work'[g].req
               PROVE  /\ (work'[g].pc = "add" /\ request'[r].live) => Open(r)'
                      /\ (work'[g].pc = "flag" /\ request'[r].live) => work'[g].wish = Open(r)'
                      /\ work'[g].pc = "append" => \A s \in work'[g].team :
                            log'[s] # <<>> => Latest(s)' # work'[g].event.status
    BY <1>5, <1>6, <1>7 DEF Informed, At
  <2>1. CASE g = h
    BY <2>1, <1>4, <1>5
  <2>2. CASE g # h
    BY <2>2, <1>3, <1>6
  <2>3. QED
    BY <2>1, <2>2

\* The flag of the request a handler leaves is right, or the request is unsettled.
LEMMA WorkingSettled ==
    ASSUME SigningInv, NEW h \in Handlers, Working(h)
    PROVE  Settled'
<1> USE DEF SigningInv
<1> SUFFICES ASSUME NEW r \in Requests, request'[r].live, r \notin unsettled',
                    \A g \in Handlers : work'[g].req = r => work'[g].pc \notin {"sync", "flag"}
             PROVE  request'[r].active = Open(r)'
  BY DEF Settled, At
<1>1. Moved(h)
  BY MoveEffect DEF Working
<1>2. \A g \in Handlers \ {h} : work[g].req = r => work[g].pc \notin {"sync", "flag"}
  BY <1>1 DEF Moved
<1>3. CASE r # work[h].req
  <2>1. Untouched(r) /\ Open(r)' = Open(r)
    BY <1>3, Elsewhere, UntouchedOpen
  <2>2. request[r].active = Open(r)
    BY <1>2, <1>3, <2>1 DEF Settled, Untouched
  <2>3. QED
    BY <2>1, <2>2 DEF Untouched
<1>4. ASSUME r = work[h].req, UNCHANGED <<request, signer, log>>, r \notin unsettled,
             work[h].pc \notin {"sync", "flag"}
      PROVE  request'[r].active = Open(r)'
  <2>1. Open(r)' = Open(r)
    BY <1>4, OpenFrame DEF Team
  <2>2. request[r].active = Open(r)
    BY <1>2, <1>4 DEF Settled
  <2>3. QED
    BY <1>4, <2>1, <2>2
<1>5. CASE r = work[h].req /\ InsertRequest(h)
  <2>1. ~request[r].live /\ Team(r) = {}
    BY <1>5 DEF InsertRequest, Coming
  <2>2. IndexAdmits(r)
    BY <1>5, <2>1 DEF InsertRequest
  <2>3. /\ request' = [request EXCEPT ![r] = [live |-> TRUE, active |-> TRUE]]
        /\ signer' = [s \in Signers |-> IF s \in work[h].team THEN r ELSE signer[s]]
        /\ log' = [s \in Signers |-> IF s \in work[h].team THEN <<NewSigner>> ELSE log[s]]
    BY <1>5, <2>2 DEF InsertRequest
  <2>4. \A s \in Team(r)' : log'[s] = <<NewSigner>>
    BY <2>1, <2>3 DEF Team
  <2>5. Open(r)'
    BY <2>4, NewIsOpen
  <2>6. request'[r].active
    BY <2>3 DEF TypeOK
  <2>7. request'[r].active \in BOOLEAN /\ Open(r)' \in BOOLEAN
    BY <2>3 DEF TypeOK, Open
  <2>8. QED
    BY <2>5, <2>6, <2>7
<1>6. CASE r = work[h].req /\ InsertSigner(h)
  <2>1. r \notin unsettled /\ work[h].alone /\ At(h, "add") /\ request' = request
    BY <1>6 DEF InsertSigner
  <2>2. request[r].active = Open(r)
    BY <1>2, <1>6, <2>1 DEF Settled, At
  <2>3. Open(r)
    BY <1>6, <2>1 DEF Informed
  <2> DEFINE Taken(s) == \E o \in Team(r) : EmailOf[o] = EmailOf[s]
             new == {s \in work[h].team : ~Taken(s)}
  <2>4. /\ signer' = [s \in Signers |-> IF s \in new THEN r ELSE signer[s]]
        /\ log' = [s \in Signers |-> IF s \in new THEN <<NewSigner>> ELSE log[s]]
    BY <1>6 DEF InsertSigner
  <2>5. new \subseteq Signers
    BY DEF TypeOK, Work
  <2> HIDE DEF new
  <2>6. /\ Team(r)' = Team(r) \cup new
        /\ \A s \in new : log'[s] = <<NewSigner>>
        /\ \A s \in Team(r) \ new : log'[s] = log[s]
    BY <2>4, <2>5 DEF Team
  <2>7. Open(r)'
    BY <2>3, <2>6, OpenJoined
  <2>8. Open(r)' = Open(r)
    BY <2>3, <2>7 DEF Open
  <2>9. QED
    BY <2>1, <2>2, <2>8
<1>7. CASE r = work[h].req /\ RecordEvent(h)
  <2>1. CASE Recorded(work[h].event.id)
    BY <1>4, <1>7, <2>1 DEF RecordEvent, At
  <2>2. CASE ~Recorded(work[h].event.id)
    BY <1>7, <2>2 DEF RecordEvent, TypeOK, Work
  <2>3. QED
    BY <2>1, <2>2
<1>8. CASE r = work[h].req /\ ReadForSync(h)
  <2>1. work'[h].pc # "flag" \/ work'[h].req # r
    BY <1>8
  <2>2. UNCHANGED <<request, signer, log>> /\ request[r].active = Open(r)
    BY <1>8, <2>1, <1>1 DEF ReadForSync, TypeOK, Work
  <2>3. Open(r)' = Open(r)
    BY <2>2, OpenFrame DEF Team
  <2>4. QED
    BY <2>2, <2>3
<1>9. CASE r = work[h].req /\ SetFlag(h)
  <2>1. /\ work[h].alone
        /\ request' = [request EXCEPT ![r] = [live |-> TRUE, active |-> work[h].wish]]
        /\ UNCHANGED <<signer, log>> /\ At(h, "flag") /\ request[r].live
    BY <1>9 DEF SetFlag, TypeOK
  <2>2. work[h].wish = Open(r)
    BY <1>9, <2>1 DEF Informed
  <2>3. Open(r)' = Open(r)
    BY <2>1, OpenFrame DEF Team
  <2>4. QED
    BY <2>1, <2>2, <2>3 DEF TypeOK
<1>10. CASE r = work[h].req /\ (StartDelete(h) \/ AbortDelete(h))
  BY <1>10, SigningAssumption DEF StartDelete, AbortDelete, Placed, At
<1>11. CASE r = work[h].req /\ Crash(h)
  BY <1>4, <1>11 DEF Crash, At
<1>12. QED
  BY <1>3, <1>5, <1>6, <1>7, <1>8, <1>9, <1>10, <1>11 DEF Working

LEMMA DeleteKnows ==
    ASSUME SigningInv, NEW h \in Handlers, FinishDelete(h)
    PROVE  Informed' /\ Settled'
<1> USE DEF SigningInv
<1>1. \A r \in Requests : ~request'[r].live
  BY DEF FinishDelete, NoRow
<1>2. work'[h] = Idle /\ \A g \in Handlers \ {h} : work'[g] = work[g]
  BY DoneEffect DEF FinishDelete
<1>3. \A s \in Signers : log'[s] \in {<<>>, log[s]}
  BY DEF FinishDelete
<1>4. Settled'
  BY <1>1 DEF Settled
<1>5. \A g \in Handlers : work[g].pc \in {"add", "flag"} => work[g].req \in Requests
  BY DEF TypeOK, Work, Placed, At
<1>6. ASSUME NEW g \in Handlers \ {h}, work[g].alone, work[g].pc = "append",
             NEW s \in work[g].team, log'[s] # <<>>
      PROVE  Latest(s)' # work[g].event.status
  <2>1. s \in Signers
    BY DEF TypeOK, Work
  <2>2. log'[s] = log[s] /\ log[s] # <<>>
    BY <1>3, <1>6, <2>1
  <2>3. Latest(s)' = Latest(s)
    BY <2>2 DEF Latest
  <2>4. QED
    BY <1>6, <2>2, <2>3 DEF Informed, At
<1>7. Informed'
  BY <1>1, <1>2, <1>5, <1>6, IdleFields DEF Informed, At
<1>8. QED
  BY <1>4, <1>7

-----------------------------------------------------------------------------
(* Theorems *)

\* What handlers on one request may rely on is preserved by every step.
THEOREM SigningInductive == SigningInv /\ [Next]_vars => SigningInv'
<1> SUFFICES ASSUME SigningInv, [Next]_vars PROVE SigningInv'
  OBVIOUS
<1>1. TypeOK'
  BY NextType DEF SigningInv
<1>2. CASE UNCHANGED vars
  <2>1. SigningInv' = SigningInv
    BY <1>2 DEF vars, SigningInv, TypeOK, Placed, Apart, Reserved, Coming, Rooted, Addressed,
               Informed, Settled, Open, StatusOf, Latest, Team, At
  <2>2. QED
    BY <2>1
<1>3. ASSUME NEW h \in Handlers, Turn(h) PROVE SigningInv'
  <2>1. Turned(h)
    BY <1>3, TurnEffect DEF SigningInv
  <2>2. QED
    BY <2>1, <1>1, TurnPlaced, TurnRows, TurnKnows DEF SigningInv
<1>4. ASSUME NEW h \in Handlers, Working(h) PROVE SigningInv'
  <2>1. Moved(h)
    BY <1>4, MoveEffect DEF SigningInv, Working
  <2>2. QED
    BY <2>1, <1>1, <1>4, MovePlaced, WorkingRows, WorkingInformed, WorkingSettled DEF SigningInv
<1>5. ASSUME NEW h \in Handlers, FinishDelete(h) PROVE SigningInv'
  <2>1. Moved(h)
    BY <1>5, MoveEffect DEF SigningInv
  <2>2. QED
    BY <2>1, <1>1, <1>5, MovePlaced, DeleteRows, DeleteKnows DEF SigningInv
<1>6. QED
  BY <1>2, <1>3, <1>4, <1>5, Steps DEF Working

LEMMA SigningInit == Init => SigningInv
<1> SUFFICES ASSUME Init PROVE SigningInv
  OBVIOUS
<1>1. TypeOK
  BY InitType
<1>2. Placed /\ Apart /\ Reserved /\ Coming /\ Addressed /\ Informed
  BY IdleFields, SigningAssumption
     DEF Init, Placed, Apart, Reserved, Coming, Addressed, Informed, At
<1>3. Rooted
  BY IdleFields, SigningAssumption DEF Init, Rooted, Team
<1>4. Settled
  BY DEF Init, NoRow, Settled
<1>5. QED
  BY <1>1, <1>2, <1>3, <1>4 DEF SigningInv

THEOREM SigningCorrect == Spec => []SigningInv
<1>1. Init => SigningInv
  BY SigningInit
<1>2. SigningInv /\ [Next]_vars => SigningInv'
  BY SigningInductive
<1>3. QED
  BY <1>1, <1>2, PTL DEF Spec

\* A request nobody is working on is active exactly as long as its derived status
\* is open, unless it is unsettled (_sync_request_active_flag).
THEOREM FlagFollowsStatusHolds == Spec => []FlagFollowsStatus
<1>1. SigningInv => FlagFollowsStatus
  BY DEF SigningInv, Settled, FlagFollowsStatus
<1>2. QED
  BY <1>1, SigningCorrect, PTL

\* The partial unique index keeps at most one request of the contract active.
THEOREM OneActiveRequestHolds == Spec => []OneActiveRequest
<1>1. Init => OneActiveRequest
  BY DEF Init, NoRow, OneActiveRequest, ActiveRequests
<1>2. SigningInv /\ OneActiveRequest /\ [Next]_vars => OneActiveRequest'
  <2> SUFFICES ASSUME SigningInv, OneActiveRequest, [Next]_vars PROVE OneActiveRequest'
    OBVIOUS
  <2>1. TypeOK
    BY DEF SigningInv
  <2>2. CASE request' = request
    BY <2>2 DEF OneActiveRequest, ActiveRequests
  <2>3. ASSUME NEW h \in Handlers, InsertRequest(h), request' # request PROVE OneActiveRequest'
    <3>1. /\ ActiveRequests \subseteq {work[h].req}
          /\ request' = [request EXCEPT ![work[h].req] = [live |-> TRUE, active |-> TRUE]]
      BY <2>3 DEF InsertRequest, IndexAdmits
    <3>2. QED
      BY <2>1, <3>1 DEF OneActiveRequest, ActiveRequests, TypeOK
  <2>4. ASSUME NEW h \in Handlers, SetFlag(h), request' # request PROVE OneActiveRequest'
    <3>1. /\ work[h].wish => ActiveRequests \subseteq {work[h].req}
          /\ request' = [request EXCEPT ![work[h].req] = [live |-> TRUE, active |-> work[h].wish]]
      BY <2>4 DEF SetFlag, IndexAdmits
    <3>2. QED
      BY <2>1, <3>1 DEF OneActiveRequest, ActiveRequests, TypeOK
  <2>5. ASSUME NEW h \in Handlers, FinishDelete(h) PROVE OneActiveRequest'
    BY <2>5 DEF FinishDelete, NoRow, OneActiveRequest, ActiveRequests
  <2>6. ASSUME NEW h \in Handlers, Turn(h) PROVE request' = request
    BY <2>1, <2>6, TurnEffect DEF Turned
  <2>7. QED
    BY <2>2, <2>3, <2>4, <2>5, <2>6, Steps
       DEF vars, InsertSigner, RecordEvent, ReadForSync, StartDelete, AbortDelete, Crash
<1>3. QED
  BY <1>1, <1>2, SigningCorrect, PTL DEF Spec

\* append_event compares the statuses before its transaction: only a handler that
\* another one joined records a repeated status.
THEOREM RepeatsNeedOverlapHolds == Spec => RepeatsNeedOverlap
<1> DEFINE Repeated(s) == /\ Len(log'[s]) > Len(log[s]) /\ log[s] # <<>>
                          /\ log'[s][Len(log'[s])].status = Latest(s)
           Joined(s) == \E h \in Handlers : /\ At(h, "append") /\ s \in work[h].team
                                            /\ ~work[h].alone
<1>1. ASSUME SigningInv, [Next]_vars, NEW s \in Signers, Repeated(s) PROVE Joined(s)
  <2>1. TypeOK /\ log[s] \in Seq(Event) /\ Len(log[s]) \in Nat /\ log'[s] # log[s]
    BY <1>1 DEF SigningInv, TypeOK
  <2>2. ASSUME NEW h \in Handlers, InsertRequest(h) \/ InsertSigner(h) PROVE FALSE
    <3>1. log'[s] = <<NewSigner>>
      BY <2>1, <2>2 DEF InsertRequest, InsertSigner
    <3>2. Len(log'[s]) = 1
      BY <3>1
    <3>3. Len(log[s]) = 0
      BY <1>1, <2>1, <3>2
    <3>4. QED
      BY <1>1, <2>1, <3>3
  <2>3. ASSUME NEW h \in Handlers, RecordEvent(h) PROVE Joined(s)
    <3>1. /\ At(h, "append") /\ s \in work[h].team
          /\ log'[s] = Append(log[s], work[h].event)
      BY <2>1, <2>3 DEF RecordEvent
    <3>2. work[h].event \in Event
      BY <2>1 DEF TypeOK, Work
    <3>3. log'[s][Len(log'[s])] = work[h].event
      BY <2>1, <3>1, <3>2
    <3>4. ~work[h].alone
      BY <1>1, <3>1, <3>3 DEF SigningInv, Informed
    <3>5. QED
      BY <3>1, <3>4
  <2>4. ASSUME NEW h \in Handlers, FinishDelete(h) PROVE FALSE
    <3>1. log'[s] = <<>>
      BY <2>1, <2>4 DEF FinishDelete
    <3>2. QED
      BY <1>1, <2>1, <3>1
  <2>5. ASSUME NEW h \in Handlers, Turn(h) PROVE log' = log
    BY <2>1, <2>5, TurnEffect DEF Turned
  <2>6. QED
    BY <1>1, <2>1, <2>2, <2>3, <2>4, <2>5, Steps
       DEF vars, ReadForSync, SetFlag, StartDelete, AbortDelete, Crash
<1>2. SigningInv /\ [Next]_vars => [\A s \in Signers : Repeated(s) => Joined(s)]_vars
  BY <1>1
<1>3. QED
  BY <1>2, SigningCorrect, PTL DEF Spec, RepeatsNeedOverlap

-----------------------------------------------------------------------------
(* Deletion *)

\* Until somebody commits rows beside it, a deletion has read all there is.
LEMMA DeletionInductive ==
    ASSUME SigningInv, DeletionInv, [Next]_vars
    PROVE  DeletionInv'
<1> USE DEF SigningInv, DeletionInv
<1>1. CASE UNCHANGED vars
  BY <1>1 DEF vars, OnePurge, ReadForDelete, DeletionLeavesNothing, At
<1>2. ASSUME NEW h \in Handlers, Turn(h) PROVE DeletionInv'
  <2>1. /\ UNCHANGED <<contract, request, signer, log, crossed>>
        /\ work'[h].pc # "purge"
        /\ \A g \in Handlers \ {h} : /\ work'[g].pc = work[g].pc
                                     /\ work'[g].reqs = work[g].reqs
                                     /\ work'[g].team = work[g].team
    BY <1>2, TurnEffect DEF Turned, GoesOn
  <2>2. QED
    BY <2>1 DEF OnePurge, ReadForDelete, DeletionLeavesNothing, At
<1>3. ASSUME NEW h \in Handlers, Moved(h) PROVE OnePurge'
  BY <1>3, IdleFields DEF Moved, OnePurge, Purging, At
<1>4. ASSUME NEW h \in Handlers, Moved(h), contract' = contract,
             \A r \in Requests : request'[r].live <=> request[r].live,
             UNCHANGED <<signer, log, crossed>>
      PROVE  DeletionInv'
  <2>1. ReadForDelete'
    BY <1>4, IdleFields, SigningAssumption DEF Moved, ReadForDelete, At, TypeOK
  <2>2. DeletionLeavesNothing'
    BY <1>4 DEF DeletionLeavesNothing
  <2>3. QED
    BY <1>3, <1>4, <2>1, <2>2
<1>5. ASSUME NEW h \in Handlers, InsertRequest(h) \/ InsertSigner(h) \/ RecordEvent(h)
      PROVE  DeletionInv'
  <2>1. Moved(h) /\ contract' = contract
    BY <1>5, MoveEffect DEF InsertRequest, InsertSigner, RecordEvent
  <2>2. CASE UNCHANGED <<request, signer, log, crossed>>
    BY <1>4, <2>1, <2>2
  <2>3. CASE crossed'
    BY <1>3, <2>1, <2>3 DEF ReadForDelete, DeletionLeavesNothing
  <2>4. CASE ~crossed' /\ ~UNCHANGED <<request, signer, log, crossed>>
    <3>1. contract /\ ~Purging /\ ~crossed
      BY <1>5, <2>4 DEF InsertRequest, InsertSigner, RecordEvent, Crossing, TypeOK
    <3>2. \A g \in Handlers : ~(work'[g].pc = "purge")
      BY <2>1, <3>1, <1>5, IdleFields
         DEF Moved, Purging, At, InsertRequest, InsertSigner, RecordEvent
    <3>3. /\ \A s \in Signers : log'[s] # <<>> => signer'[s] # NoRequest
          /\ \A s \in Signers : signer'[s] # NoRequest => request'[signer'[s]].live
      <4>1. /\ \A s \in Signers : log[s] # <<>> => signer[s] # NoRequest
            /\ \A s \in Signers : signer[s] # NoRequest => request[signer[s]].live
        BY <3>1 DEF ReadForDelete
      <4>2. CASE InsertRequest(h)
        <5>1. /\ request' = [request EXCEPT ![work[h].req] = [live |-> TRUE, active |-> TRUE]]
              /\ signer' = [s \in Signers |->
                               IF s \in work[h].team THEN work[h].req ELSE signer[s]]
              /\ log' = [s \in Signers |->
                            IF s \in work[h].team THEN <<NewSigner>> ELSE log[s]]
          BY <2>4, <4>2 DEF InsertRequest
        <5>2. work[h].req \in Requests
          BY <4>2 DEF InsertRequest, Placed, At, TypeOK, Work
        <5>3. QED
          BY <4>1, <5>1, <5>2, SigningAssumption DEF TypeOK
      <4>3. CASE InsertSigner(h)
        <5>1. work[h].req \in Requests /\ request[work[h].req].live /\ request' = request
          BY <3>1, <4>3 DEF InsertSigner, Placed, At, TypeOK, Work, Rooted
        <5> DEFINE Taken(s) == \E o \in Team(work[h].req) : EmailOf[o] = EmailOf[s]
                   new == {s \in work[h].team : ~Taken(s)}
        <5>2. /\ signer' = [s \in Signers |-> IF s \in new THEN work[h].req ELSE signer[s]]
              /\ log' = [s \in Signers |-> IF s \in new THEN <<NewSigner>> ELSE log[s]]
          BY <4>3 DEF InsertSigner
        <5> HIDE DEF new
        <5>3. QED
          BY <4>1, <5>1, <5>2, SigningAssumption
      <4>4. CASE RecordEvent(h)
        <5>1. /\ \A s \in work[h].team : signer[s] = work[h].req
              /\ work[h].req # NoRequest
          BY <3>1, <4>4 DEF RecordEvent, Addressed, Placed, At
        <5>2. /\ \A s \in Signers \ work[h].team : log'[s] = log[s]
              /\ UNCHANGED <<request, signer>>
          BY <4>4 DEF RecordEvent
        <5>3. QED
          BY <4>1, <5>1, <5>2
      <4>5. QED
        BY <1>5, <4>2, <4>3, <4>4
    <3>4. QED
      BY <1>3, <2>1, <3>1, <3>2, <3>3 DEF ReadForDelete, DeletionLeavesNothing, At
  <2>5. QED
    BY <2>2, <2>3, <2>4
<1>6. ASSUME NEW h \in Handlers,
             ReadForSync(h) \/ SetFlag(h) \/ StartDelete(h) \/ AbortDelete(h) \/ Crash(h)
      PROVE  DeletionInv'
  <2>1. Moved(h)
    BY <1>6, MoveEffect
  <2>2. \A r \in Requests : request'[r].live <=> request[r].live
    <3>1. CASE SetFlag(h)
      <4>1. \/ request' = request
            \/ /\ request[work[h].req].live
               /\ request' = [request EXCEPT ![work[h].req] =
                                 [live |-> TRUE, active |-> work[h].wish]]
        BY <3>1 DEF SetFlag
      <4>2. request \in [Requests -> Request]
        BY DEF TypeOK
      <4>3. \A r \in Requests : request[r].live \in BOOLEAN
        BY <4>2 DEF Request
      <4>4. ASSUME NEW r \in Requests PROVE request'[r].live <=> request[r].live
        <5>1. CASE request' = request
          BY <5>1
        <5>2. CASE r = work[h].req /\ request' # request
          <6>1. request[r].live
            BY <4>1, <5>2
          <6>2. request[r].live = TRUE
            BY <4>3, <6>1
          <6>3. request'[r] = [live |-> TRUE, active |-> work[h].wish]
            BY <4>1, <4>2, <5>2
          <6>4. QED
            BY <6>2, <6>3
        <5>3. CASE r # work[h].req
          BY <4>1, <4>2, <5>3
        <5>4. QED
          BY <5>1, <5>2, <5>3
      <4>5. QED
        BY <4>4
    <3>2. QED
      BY <1>6, <3>1 DEF ReadForSync, StartDelete, AbortDelete, Crash
  <2>3. QED
    BY <1>4, <1>6, <2>1, <2>2 DEF ReadForSync, SetFlag, StartDelete, AbortDelete, Crash
<1>7. ASSUME NEW h \in Handlers, FinishDelete(h) PROVE DeletionInv'
  <2>1. Moved(h) /\ work'[h] = Idle
    BY <1>7, MoveEffect, DoneEffect DEF FinishDelete
  <2>2. OnePurge' /\ \A g \in Handlers : ~(work'[g].pc = "purge")
    BY <1>3, <1>7, <2>1, IdleFields DEF Moved, OnePurge, FinishDelete, At
  <2>3. ASSUME ~crossed
        PROVE  /\ \A r \in Requests : ~request'[r].live
               /\ \A s \in Signers : signer'[s] = NoRequest /\ log'[s] = <<>>
    <3>1. /\ work[h].reqs = {r \in Requests : request[r].live}
          /\ work[h].team = {s \in Signers : signer[s] \in work[h].reqs}
          /\ \A s \in Signers : log[s] # <<>> => signer[s] # NoRequest
          /\ \A s \in Signers : signer[s] # NoRequest => request[signer[s]].live
      BY <1>7, <2>3 DEF ReadForDelete, FinishDelete
    <3>2. \A s \in Signers : signer[s] # NoRequest => signer[s] \in work[h].reqs
      BY <3>1 DEF TypeOK
    <3>3. QED
      BY <1>7, <3>1, <3>2 DEF FinishDelete, NoRow
  <2>4. crossed' = crossed
    BY <1>7 DEF FinishDelete
  <2>5. QED
    BY <2>2, <2>3, <2>4 DEF ReadForDelete, DeletionLeavesNothing, At
<1>8. QED
  BY <1>1, <1>2, <1>5, <1>6, <1>7, Steps

\* A deleted contract leaves no request, signer or event behind, unless a handler
\* committed rows while the deletion was open or after it (delete_contract).
THEOREM DeletionLeavesNothingHolds == Spec => []DeletionLeavesNothing
<1>1. Init => DeletionInv
  BY IdleFields, SigningAssumption
     DEF Init, DeletionInv, OnePurge, ReadForDelete, DeletionLeavesNothing, At
<1>2. SigningInv /\ DeletionInv /\ [Next]_vars => DeletionInv'
  BY DeletionInductive
<1>3. DeletionInv => DeletionLeavesNothing
  BY DEF DeletionInv
<1>4. QED
  BY <1>1, <1>2, <1>3, SigningCorrect, PTL DEF Spec

=============================================================================
