----------------------- MODULE KnowledgeIndexing_proofs -----------------------
(***************************************************************************)
(* Theorems about KnowledgeIndexing, for every set of documents, workers   *)
(* and senders, every number of attempts and commands and every selection  *)
(* of faults.                                                              *)
(***************************************************************************)
EXTENDS KnowledgeIndexing, TLAPS

-----------------------------------------------------------------------------
(* The inductive invariant *)

\* A document has the one index row it can have before its deletion, or after it.
RowIds == \A v \in Docs : index[v].id \in {0, FreshId(v)}

\* The row a worker knows of is the document's, or went with the contract.
Known(w, id) ==
    \/ id \in {0, index[Doc(w)].id}
    \/ contract[Doc(w)] = "deleted" /\ id = 1

KnowsRows ==
    \A w \in Workers : ~At(w, "idle") => Known(w, work[w].target) /\ Known(w, work[w].index)

\* How far a worker has got says which rows it knows of, and what has happened.
Placed ==
    \A w \in Workers :
        /\ work[w].pc \in {"mark", "embed", "chunks", "ready"} =>
              work[w].target # 0 /\ work[w].index # 0
        /\ work[w].pc \in {"load", "require", "create"} /\ work[w].round = 2 => work[w].index # 0
        /\ At(w, "load") => work[w].index = 0
        /\ At(w, "markFailed") => work[w].index # 0
        /\ work[w].pc \in {"record", "retry"} /\ work[w].index = 0 =>
              contract[Doc(w)] = "deleted" \/ "outage" \in mishaps
        /\ ~At(w, "idle") /\ ~work[w].up => "disconnect" \in mishaps

\* A worker about to mark its row as ready has stored the chunks of that row.
Stored ==
    \A w \in Workers :
        At(w, "ready") /\ work[w].target = index[Doc(w)].id => chunks[Doc(w)] = work[w].target

RowsInv == TypeOK /\ RowIds /\ KnowsRows /\ Placed /\ Stored /\ ReadyHasChunks

\* A command that resets indexes is one of those that were to be had.
Commanded == operator.pc = "reset" => commands < MaxCommands

\* A worker that has not settled the index yet.
Busy(w) == \/ work[w].pc \in InTry \cup {"markFailed"}
           \/ work[w].pc \in {"record", "retry"} /\ work[w].index = 0

Settled(v) == index[v].status \in {"ready", "failed"}
Excused(v) == Abandoned \/ Unrecorded(v) \/ Reopened(v)

\* The index of v is settled, or a copy or a worker will see to that.
Carried(v) ==
    \/ Excused(v) \/ Settled(v)
    \/ \E a \in Attempts : ready[<<v, a>>] > 0 \/ delayed[<<v, a>>] > 0
    \/ \E w \in Workers : Doc(w) = v /\ Busy(w)

\* What a sender has published and is about to mark is carried on.
PublishedIsCarried ==
    \A s \in Senders : send[s].pc = "mark" =>
        contract[send[s].doc] = "deleted" \/ Carried(send[s].doc)

ReviewedIsCarried ==
    \A v \in Docs : contract[v] = "reviewed" =>
        outbox[v].status \in {"pending", "publishing", "failed"} \/ Carried(v)

CarriedInv == RowsInv /\ Commanded /\ PublishedIsCarried /\ ReviewedIsCarried

-----------------------------------------------------------------------------
(* Workers and senders *)

LEMMA IdleFields ==
    /\ Idle \in Work /\ Idle.pc = "idle" /\ Idle.index = 0 /\ Idle.target = 0 /\ Idle.doc = NoDoc
    /\ Waiting \in Send /\ Waiting.pc = "idle"
    /\ NoRow \in Row /\ NewRow \in Row /\ NoIndex \in Index
    /\ NewRow.status = "pending" /\ NoIndex.id = 0 /\ NoIndex.status = "absent"
<1>1. Idle \in Work /\ Idle.pc = "idle" /\ Idle.index = 0 /\ Idle.target = 0 /\ Idle.doc = NoDoc
  BY IndexingAssumption DEF Idle, Work, Places, InTry, InHandler, IndexIds
<1>2. Waiting \in Send /\ Waiting.pc = "idle"
  BY IndexingAssumption DEF Waiting, Send
<1>3. NoRow \in Row /\ NewRow \in Row /\ NewRow.status = "pending"
  BY IndexingAssumption DEF NoRow, NewRow, Row
<1>4. NoIndex \in Index /\ NoIndex.id = 0 /\ NoIndex.status = "absent"
  BY DEF NoIndex, Index
<1>5. QED
  BY <1>1, <1>2, <1>3, <1>4

\* Only w moves.
Moved(w, new) == work' = [work EXCEPT ![w] = new]

LEMMA MovedEffect ==
    ASSUME TypeOK, NEW w \in Workers, NEW new \in Work, Moved(w, new),
           new.pc # "idle" => new.doc \in Docs /\ new.attempt \in Attempts
    PROVE  /\ work' \in [Workers -> Work] /\ work'[w] = new
           /\ \A o \in Workers \ {w} : work'[o] = work[o]
           /\ \A o \in Workers : work'[o].pc # "idle" =>
                 work'[o].doc \in Docs /\ work'[o].attempt \in Attempts
<1>1. work \in [Workers -> Work]
  BY DEF TypeOK
<1>2. /\ work' \in [Workers -> Work] /\ work'[w] = new
      /\ \A o \in Workers \ {w} : work'[o] = work[o]
  BY <1>1 DEF Moved
<1>3. QED
  BY <1>2 DEF TypeOK

\* w is at another place, with everything else as it was.
At2(w, pc) == [work[w] EXCEPT !.pc = pc]

LEMMA PlaceEffect ==
    ASSUME TypeOK, NEW w \in Workers, NEW pc \in Places
    PROVE  /\ At2(w, pc) \in Work /\ At2(w, pc).pc = pc
           /\ At2(w, pc).doc = work[w].doc /\ At2(w, pc).attempt = work[w].attempt
           /\ At2(w, pc).up = work[w].up /\ At2(w, pc).round = work[w].round
           /\ At2(w, pc).index = work[w].index /\ At2(w, pc).target = work[w].target
           /\ Goto(w, pc) <=> Moved(w, At2(w, pc))
<1>1. work[w] \in Work
  BY DEF TypeOK
<1>2. QED
  BY <1>1 DEF At2, Work, Goto, Moved

LEMMA FinishEffect == ASSUME NEW w \in Workers PROVE Finish(w) <=> Moved(w, Idle)
BY DEF Finish, Moved

LEMMA FaultType ==
    ASSUME TypeOK, NEW kind, Fault(kind)
    PROVE  mishaps' \subseteq Faults /\ mishaps \subseteq mishaps' /\ kind \in mishaps'
BY DEF Fault, TypeOK

LEMMA HandlerPlace == \A w : HandlerOf(w) \in Places
BY DEF HandlerOf, Places, InHandler

\* Copies are counted by naturals.
LEMMA CountType ==
    ASSUME NEW f \in [Copies -> Nat], NEW c \in Copies
    PROVE  /\ [f EXCEPT ![c] = f[c] + 1] \in [Copies -> Nat]
           /\ f[c] > 0 => [f EXCEPT ![c] = f[c] - 1] \in [Copies -> Nat]
<1>1. f[c] \in Nat
  OBVIOUS
<1>2. f[c] + 1 \in Nat /\ (f[c] > 0 => f[c] - 1 \in Nat)
  BY <1>1
<1>3. QED
  BY <1>2

\* What the broker takes back or is given is a copy.
LEMMA RequeueType ==
    ASSUME TypeOK, NEW w \in Workers, ~At(w, "idle")
    PROVE  Requeue(w) => ready' \in [Copies -> Nat]
<1>1. Copy(w) \in Copies /\ ready \in [Copies -> Nat]
  BY DEF TypeOK, Copy, Copies, At
<1>2. QED
  BY <1>1, CountType DEF Requeue

LEMMA PutBackType ==
    ASSUME TypeOK, NEW w \in Workers, ~At(w, "idle"), PutBack(w)
    PROVE  delayed' \in [Copies -> Nat] /\ dead' \subseteq Docs /\ dead \subseteq dead'
<1>1. work[w].doc \in Docs /\ work[w].attempt \in Attempts /\ delayed \in [Copies -> Nat]
      /\ dead \subseteq Docs
  BY DEF TypeOK, At
<1>2. CASE LastAttempt(w)
  BY <1>1, <1>2 DEF PutBack, Doc
<1>3. CASE ~LastAttempt(w)
  <2>1. work[w].attempt + 1 \in Attempts
    BY <1>1, <1>3, IndexingAssumption DEF LastAttempt, Attempts
  <2>2. <<Doc(w), work[w].attempt + 1>> \in Copies
    BY <1>1, <2>1 DEF Copies, Doc
  <2>3. QED
    BY <1>1, <1>3, <2>2, CountType DEF PutBack
<1>4. QED
  BY <1>2, <1>3

\* Setting a status keeps the rows and their ids.
LEMMA StatusEffect ==
    ASSUME TypeOK, NEW v \in Docs, NEW id,
           NEW s \in {"absent", "pending", "indexing", "ready", "failed"}, SetStatus(v, id, s)
    PROVE  /\ index' \in [Docs -> Index]
           /\ \A d \in Docs : index'[d].id = index[d].id
           /\ \A d \in Docs : index'[d].status = IF d = v /\ index[v].id = id
                                                 THEN s ELSE index[d].status
<1>1. index \in [Docs -> Index] /\ index[v] \in Index
  BY DEF TypeOK
<1>2. [index[v] EXCEPT !.status = s] \in Index
      /\ [index[v] EXCEPT !.status = s].id = index[v].id
      /\ [index[v] EXCEPT !.status = s].status = s
  BY <1>1 DEF Index
<1>3. CASE index[v].id = id
  <2>1. index' = [index EXCEPT ![v] = [index[v] EXCEPT !.status = s]]
    BY <1>3 DEF SetStatus
  <2>2. QED
    BY <1>1, <1>2, <1>3, <2>1
<1>4. CASE index[v].id # id
  BY <1>1, <1>4 DEF SetStatus
<1>5. QED
  BY <1>3, <1>4

-----------------------------------------------------------------------------
(* Steps of index workers *)

\* Steps that leave the rows alone ...
Walking(w) ==
    \/ \E v \in Docs, a \in Attempts : Deliver(w, v, a)
    \/ Load(w) \/ Require(w) \/ Embed(w) \/ EmbedFails(w) \/ Clear(w) \/ Ack(w)
    \/ Record(w) \/ Retry(w) \/ RetryFails(w)
    \/ IndexFault(w)
    \/ ReplaceChunks(w) /\ index[Doc(w)].id # work[w].target

\* ... and those that write them.
Writing(w) ==
    \/ Create(w) \/ MarkIndexing(w) \/ MarkReady(w) \/ MarkFailed(w)
    \/ ReplaceChunks(w) /\ index[Doc(w)].id = work[w].target

\* What Placed and TypeOK ask of a worker.
PlacedAs(new) ==
    /\ new.pc # "idle" => new.doc \in Docs /\ new.attempt \in Attempts
    /\ new.pc \in {"load", "require", "create"} /\ new.round = 2 => new.index # 0
    /\ new.pc = "load" => new.index = 0
    /\ new.pc = "markFailed" => new.index # 0
    /\ new.pc \in {"record", "retry"} /\ new.index = 0 =>
          contract[new.doc] = "deleted" \/ "outage" \in mishaps'
    /\ new.pc # "idle" /\ ~new.up => "disconnect" \in mishaps'

\* w goes on with the document and the rows it knows of, or ends, or begins.
Keeps(w, new) ==
    \/ new = Idle
    \/ At(w, "idle") /\ new.pc = "load" /\ new.index = 0 /\ new.target = 0
    \/ /\ ~At(w, "idle") /\ new.pc # "idle"
       /\ new.doc = Doc(w) /\ new.index = work[w].index /\ new.target = work[w].target

Walks(w) ==
    \E new \in Work :
        /\ Moved(w, new) /\ PlacedAs(new) /\ Keeps(w, new)
        /\ new.pc \in {"mark", "embed", "chunks", "ready"} => new.pc = work[w].pc

\* A walk that only changes the place.
LEMMA GotoWalks ==
    ASSUME TypeOK, Placed, mishaps \subseteq mishaps',
           NEW w \in Workers, ~At(w, "idle"),
           NEW pc \in Places \ {"idle", "load", "mark", "embed", "chunks", "ready"}, Goto(w, pc),
           pc \in {"require", "create"} /\ work[w].round = 2 => work[w].index # 0,
           pc = "markFailed" => work[w].index # 0,
           pc \in {"record", "retry"} /\ work[w].index = 0 =>
              contract[Doc(w)] = "deleted" \/ "outage" \in mishaps'
    PROVE  Walks(w)
<1>1. pc \in Places
  OBVIOUS
<1>2. work[w].doc \in Docs /\ work[w].attempt \in Attempts
  BY DEF TypeOK, At
<1>3. ~work[w].up => "disconnect" \in mishaps'
  BY DEF Placed
<1>4. PlacedAs(At2(w, pc))
  BY <1>1, <1>2, <1>3, PlaceEffect DEF PlacedAs, Doc
<1>5. Keeps(w, At2(w, pc))
  BY <1>1, PlaceEffect DEF Keeps, Doc
<1>6. Moved(w, At2(w, pc)) /\ At2(w, pc) \in Work /\ At2(w, pc).pc = pc
  BY <1>1, PlaceEffect
<1>7. QED
  BY <1>4, <1>5, <1>6 DEF Walks

LEMMA FinishWalks == ASSUME NEW w \in Workers, Finish(w) PROVE Walks(w)
<1>1. PlacedAs(Idle) /\ Keeps(w, Idle)
  BY IdleFields DEF PlacedAs, Keeps
<1>2. QED
  BY <1>1, IdleFields, FinishEffect DEF Walks

\* The other variables after a walk.
WalkFrame ==
    /\ UNCHANGED <<contract, knowledge, send, others>>
    /\ outbox' \in [Docs -> Row] /\ mishaps' \subseteq Faults /\ mishaps \subseteq mishaps'
    /\ ready' \in [Copies -> Nat] /\ delayed' \in [Copies -> Nat]
    /\ dead' \subseteq Docs /\ dead \subseteq dead'

LEMMA WalkFaultFrame ==
    ASSUME TypeOK, NEW kind, Fault(kind), ready' \in [Copies -> Nat],
           UNCHANGED <<contract, outbox, knowledge, delayed, dead, send, others>>
    PROVE  WalkFrame
BY FaultType DEF TypeOK, WalkFrame

LEMMA WalkCalmFrame ==
    ASSUME TypeOK, UNCHANGED <<contract, outbox, knowledge, broker, send, others, mishaps>>
    PROVE  WalkFrame
BY DEF TypeOK, WalkFrame, broker

\* What the handler goes to when the try block is left at a place.
LEMMA HandlerWalks ==
    ASSUME TypeOK, Placed, mishaps \subseteq mishaps', NEW w \in Workers, ~At(w, "idle"),
           Goto(w, HandlerOf(w)),
           work[w].index = 0 => contract[Doc(w)] = "deleted" \/ "outage" \in mishaps'
    PROVE  Walks(w)
<1>1. CASE work[w].index # 0
  <2>1. HandlerOf(w) = "markFailed" /\ Goto(w, "markFailed")
    BY <1>1 DEF HandlerOf
  <2>2. QED
    BY <1>1, <2>1, GotoWalks DEF Places, InHandler
<1>2. CASE work[w].index = 0
  <2>1. HandlerOf(w) = "record" /\ Goto(w, "record")
    BY <1>2 DEF HandlerOf
  <2>2. QED
    BY <1>2, <2>1, GotoWalks DEF Places, InHandler
<1>3. QED
  BY <1>1, <1>2

LEMMA EscapeWalks ==
    ASSUME TypeOK, NEW w \in Workers, ~At(w, "idle"), Escape(w)
    PROVE  Walks(w) /\ ready' \in [Copies -> Nat]
BY FinishWalks, RequeueType DEF Escape

LEMMA StepWalks ==
    ASSUME TypeOK, Placed, NEW w \in Workers,
           \/ Load(w) \/ Require(w) \/ Embed(w) \/ EmbedFails(w) \/ Clear(w) \/ Ack(w)
           \/ RetryFails(w)
           \/ ReplaceChunks(w) /\ index[Doc(w)].id # work[w].target
    PROVE  Walks(w) /\ WalkFrame
<1>0. mishaps' = mishaps /\ WalkFrame
  BY WalkCalmFrame DEF Load, Require, Embed, EmbedFails, Clear, Ack, RetryFails, ReplaceChunks
<1>1. CASE Load(w)
  <2>1. PICK pc \in {"ack", "require"} : Goto(w, pc)
    BY <1>1 DEF Load
  <2>2. At(w, "load") /\ (work[w].round = 2 => work[w].index # 0)
    BY <1>1 DEF Load, Placed, At
  <2>3. pc \in Places \ {"idle", "load", "mark", "embed", "chunks", "ready"}
    BY DEF Places, InTry
  <2>4. QED
    BY <1>0, <2>1, <2>2, <2>3, GotoWalks DEF At
<1>2. CASE Require(w)
  <2>1. At(w, "require") /\ (work[w].round = 2 => work[w].index # 0)
    BY <1>2 DEF Require, Placed, At
  <2>2. CASE contract[Doc(w)] = "deleted"
    BY <1>0, <1>2, <2>1, <2>2, HandlerWalks DEF Require, At
  <2>3. CASE contract[Doc(w)] # "deleted"
    <3>1. Goto(w, "create")
      BY <1>2, <2>3 DEF Require
    <3>2. "create" \in Places \ {"idle", "load", "mark", "embed", "chunks", "ready"}
      BY DEF Places, InTry
    <3>3. QED
      BY <1>0, <2>1, <3>1, <3>2, GotoWalks DEF At
  <2>4. QED
    BY <2>2, <2>3
<1>3. CASE Embed(w)
  <2> DEFINE new == [work[w] EXCEPT !.round = 2,
                                    !.pc = IF contract[Doc(w)] = "deleted"
                                           THEN HandlerOf(w) ELSE "create"]
  <2>1. /\ work[w] \in Work /\ work[w].pc = "embed" /\ work[w].index # 0
        /\ work[w].doc \in Docs /\ work[w].attempt \in Attempts
        /\ (~work[w].up => "disconnect" \in mishaps')
    BY <1>0, <1>3 DEF Embed, TypeOK, Placed, At
  <2>2. HandlerOf(w) = "markFailed"
    BY <2>1 DEF HandlerOf
  <2>3. "markFailed" \in Places /\ "create" \in Places /\ 2 \in 1..2
    BY DEF Places, InTry, InHandler
  <2>4. /\ new \in Work /\ new.pc \in {"markFailed", "create"}
        /\ new.doc = Doc(w) /\ new.attempt = work[w].attempt /\ new.up = work[w].up
        /\ new.index = work[w].index /\ new.target = work[w].target
    BY <2>1, <2>2, <2>3 DEF Work, Doc
  <2>5. Moved(w, new)
    BY <1>3, <2>1 DEF Embed, Moved, TypeOK
  <2> HIDE DEF new
  <2>6. PlacedAs(new)
    BY <2>1, <2>4 DEF PlacedAs, Doc
  <2>7. Keeps(w, new)
    BY <2>1, <2>4 DEF Keeps, At
  <2>8. QED
    BY <1>0, <2>4, <2>5, <2>6, <2>7 DEF Walks
<1>4. CASE EmbedFails(w)
  <2>1. At(w, "embed") /\ work[w].index # 0
    BY <1>4 DEF EmbedFails, Placed, At
  <2>2. QED
    BY <1>0, <1>4, <2>1, HandlerWalks DEF EmbedFails, At
<1>5. CASE Clear(w)
  <2>1. "ack" \in Places
    BY DEF Places
  <2>2. QED
    BY <1>0, <1>5, <2>1, GotoWalks DEF Clear, At
<1>6. CASE Ack(w) \/ RetryFails(w)
  BY <1>0, <1>6, FinishWalks DEF Ack, RetryFails
<1>7. CASE ReplaceChunks(w) /\ index[Doc(w)].id # work[w].target
  <2>1. At(w, "chunks") /\ work[w].index # 0
    BY <1>7 DEF ReplaceChunks, Placed, At
  <2>2. Goto(w, HandlerOf(w))
    BY <1>7 DEF ReplaceChunks
  <2>3. QED
    BY <1>0, <2>1, <2>2, HandlerWalks DEF At
<1>8. QED
  BY <1>1, <1>2, <1>3, <1>4, <1>5, <1>6, <1>7

LEMMA DeliverWalks ==
    ASSUME TypeOK, NEW w \in Workers, NEW v \in Docs, NEW a \in Attempts, Deliver(w, v, a)
    PROVE  Walks(w) /\ WalkFrame
<1> DEFINE new == [Idle EXCEPT !.pc = "load", !.doc = v, !.attempt = a, !.up = TRUE]
<1>1. a \in 0..MaxAttempts /\ "load" \in Places /\ v \in Docs \cup {NoDoc}
  BY IndexingAssumption DEF Attempts, Places, InTry
<1>2. Idle \in Work /\ Idle.index = 0 /\ Idle.target = 0 /\ Idle.round = 1
  BY IdleFields DEF Idle
<1>3. /\ new \in Work /\ new.pc = "load" /\ new.index = 0 /\ new.target = 0
      /\ new.doc = v /\ new.attempt = a /\ new.up /\ new.round = 1
  <2> DEFINE atLoad == [Idle EXCEPT !.pc = "load", !.doc = v]
  <2> HIDE DEF Idle
  <2>1. /\ atLoad \in Work /\ atLoad.pc = "load" /\ atLoad.doc = v
        /\ atLoad.index = 0 /\ atLoad.target = 0 /\ atLoad.round = 1
    BY <1>1, <1>2 DEF Work
  <2>2. new = [atLoad EXCEPT !.attempt = a, !.up = TRUE]
    OBVIOUS
  <2> HIDE DEF atLoad, new
  <2>3. QED
    BY <1>1, <2>1, <2>2 DEF Work
<1>4. Moved(w, new) /\ At(w, "idle")
  BY DEF Deliver, Moved
<1> HIDE DEF new
<1>5. PlacedAs(new) /\ Keeps(w, new)
  BY <1>3, <1>4 DEF PlacedAs, Keeps
<1>6. ready' \in [Copies -> Nat]
  <2>1. <<v, a>> \in Copies /\ ready \in [Copies -> Nat]
    BY DEF Copies, TypeOK
  <2>2. QED
    BY <2>1, CountType DEF Deliver
<1>7. WalkFrame
  BY <1>6 DEF Deliver, TypeOK, WalkFrame
<1>8. QED
  BY <1>3, <1>4, <1>5, <1>7 DEF Walks

LEMMA RecordWalks ==
    ASSUME TypeOK, Placed, NEW w \in Workers, Record(w)
    PROVE  Walks(w) /\ WalkFrame
<1>1. /\ ~At(w, "idle") /\ Goto(w, "retry")
      /\ (work[w].index = 0 => contract[Doc(w)] = "deleted" \/ "outage" \in mishaps)
  BY DEF Record, At, Placed
<1>2. "retry" \in Places \ {"idle", "load", "mark", "embed", "chunks", "ready"}
  BY DEF Places, InHandler
<1>3. Walks(w)
  BY <1>1, <1>2, GotoWalks DEF Record
<1>4. outbox' \in [Docs -> Row]
  <2>1. outbox \in [Docs -> Row] /\ Doc(w) \in Docs
    BY <1>1 DEF TypeOK, Doc, At
  <2>2. [outbox[Doc(w)] EXCEPT !.status = "failed"] \in Row
    BY <2>1 DEF Row
  <2>3. [outbox EXCEPT ![Doc(w)].status = "failed"] \in [Docs -> Row]
    BY <2>1, <2>2
  <2>4. QED
    BY <2>1, <2>3 DEF Record
<1>5. WalkFrame
  BY <1>4 DEF Record, TypeOK, WalkFrame, broker
<1>6. QED
  BY <1>3, <1>5

LEMMA RetryWalks ==
    ASSUME TypeOK, Placed, NEW w \in Workers, Retry(w)
    PROVE  Walks(w) /\ WalkFrame
<1>1. ~At(w, "idle") /\ Goto(w, "ack") /\ PutBack(w)
  BY DEF Retry, At
<1>2. "ack" \in Places \ {"idle", "load", "mark", "embed", "chunks", "ready"}
  BY DEF Places
<1>3. Walks(w)
  BY <1>1, <1>2, GotoWalks DEF Retry
<1>4. delayed' \in [Copies -> Nat] /\ dead' \subseteq Docs /\ dead \subseteq dead'
  BY <1>1, PutBackType
<1>5. WalkFrame
  BY <1>4 DEF Retry, TypeOK, WalkFrame
<1>6. QED
  BY <1>3, <1>5

LEMMA FaultWalks ==
    ASSUME TypeOK, Placed, NEW w \in Workers, IndexFault(w)
    PROVE  Walks(w) /\ WalkFrame
<1>1. CASE ConnectFails(w)
  <2>1. ~At(w, "idle") /\ Goto(w, "retry") /\ Fault("outage")
    BY <1>1 DEF ConnectFails, At
  <2>2. "retry" \in Places \ {"idle", "load", "mark", "embed", "chunks", "ready"}
    BY DEF Places, InHandler
  <2>3. mishaps \subseteq mishaps' /\ "outage" \in mishaps'
    BY <2>1, FaultType
  <2>4. WalkFrame
    BY <1>1, <2>1, WalkFaultFrame DEF ConnectFails, TypeOK, broker
  <2>5. QED
    BY <2>1, <2>2, <2>3, <2>4, GotoWalks
<1>2. CASE Outage(w)
  <2>1. ~At(w, "idle") /\ Fault("outage")
    BY <1>2 DEF Outage, At, InTry
  <2>2. mishaps \subseteq mishaps' /\ "outage" \in mishaps'
    BY <2>1, FaultType
  <2>3. CASE Goto(w, HandlerOf(w)) /\ UNCHANGED ready
    <3>1. ready' \in [Copies -> Nat]
      BY <2>3 DEF TypeOK
    <3>2. WalkFrame
      BY <1>2, <2>1, <3>1, WalkFaultFrame DEF Outage
    <3>3. QED
      BY <2>1, <2>2, <2>3, <3>2, HandlerWalks
  <2>4. CASE Escape(w)
    <3>1. Walks(w) /\ ready' \in [Copies -> Nat]
      BY <2>1, <2>4, EscapeWalks
    <3>2. QED
      BY <1>2, <2>1, <3>1, WalkFaultFrame DEF Outage
  <2>5. QED
    BY <1>2, <2>3, <2>4 DEF Outage
<1>3. CASE LateOutage(w)
  <2>1. ~At(w, "idle") /\ Fault("outage") /\ Escape(w)
    BY <1>3 DEF LateOutage, At
  <2>2. Walks(w) /\ ready' \in [Copies -> Nat]
    BY <2>1, EscapeWalks
  <2>3. QED
    BY <1>3, <2>1, <2>2, WalkFaultFrame DEF LateOutage
<1>4. CASE RetryUnconfirmed(w)
  <2>1. ~At(w, "idle") /\ Fault("unconfirmed") /\ Escape(w) /\ PutBack(w)
    BY <1>4 DEF RetryUnconfirmed, At
  <2>2. Walks(w) /\ ready' \in [Copies -> Nat]
    BY <2>1, EscapeWalks
  <2>3. delayed' \in [Copies -> Nat] /\ dead' \subseteq Docs /\ dead \subseteq dead'
    BY <2>1, PutBackType
  <2>4. mishaps' \subseteq Faults /\ mishaps \subseteq mishaps'
    BY <2>1, FaultType
  <2>5. QED
    BY <1>4, <2>2, <2>3, <2>4 DEF RetryUnconfirmed, TypeOK, WalkFrame
<1>5. CASE Crash(w)
  <2>1. ~At(w, "idle") /\ Fault("crash") /\ Escape(w)
    BY <1>5 DEF Crash
  <2>2. Walks(w) /\ ready' \in [Copies -> Nat]
    BY <2>1, EscapeWalks
  <2>3. QED
    BY <1>5, <2>1, <2>2, WalkFaultFrame DEF Crash
<1>6. CASE Disconnect(w)
  <2> DEFINE new == [work[w] EXCEPT !.up = FALSE]
  <2>1. /\ ~At(w, "idle") /\ Fault("disconnect") /\ work[w] \in Work
        /\ work[w].doc \in Docs /\ work[w].attempt \in Attempts
    BY <1>6 DEF Disconnect, TypeOK, At
  <2>2. mishaps \subseteq mishaps' /\ "disconnect" \in mishaps'
    BY <2>1, FaultType
  <2>3. /\ new \in Work /\ new.pc = work[w].pc /\ new.doc = Doc(w)
        /\ new.attempt = work[w].attempt /\ new.round = work[w].round
        /\ new.index = work[w].index /\ new.target = work[w].target
    BY <2>1 DEF Work, Doc
  <2>4. Moved(w, new)
    BY <1>6 DEF Disconnect, Moved
  <2> HIDE DEF new
  <2>5. PlacedAs(new)
    BY <2>1, <2>2, <2>3 DEF PlacedAs, Placed, At, Doc
  <2>6. Keeps(w, new)
    BY <2>1, <2>3 DEF Keeps, At
  <2>7. ready' \in [Copies -> Nat]
    BY <1>6, <2>1, RequeueType DEF Disconnect
  <2>8. WalkFrame
    BY <1>6, <2>1, <2>7, WalkFaultFrame DEF Disconnect
  <2>9. QED
    BY <2>3, <2>4, <2>5, <2>6, <2>8 DEF Walks
<1>7. QED
  BY <1>1, <1>2, <1>3, <1>4, <1>5, <1>6 DEF IndexFault

LEMMA WalkingEffect ==
    ASSUME TypeOK, Placed, NEW w \in Workers, Walking(w)
    PROVE  Walks(w) /\ WalkFrame
BY DeliverWalks, StepWalks, RecordWalks, RetryWalks, FaultWalks DEF Walking

-----------------------------------------------------------------------------
(* Types *)

LEMMA InitType == Init => TypeOK
BY IdleFields, IndexingAssumption DEF Init, TypeOK, Copies

LEMMA WalkType ==
    ASSUME TypeOK, Placed, NEW w \in Workers, Walking(w)
    PROVE  TypeOK'
<1>1. WalkFrame
  BY WalkingEffect
<1>2. PICK new \in Work : Moved(w, new) /\ PlacedAs(new)
  BY WalkingEffect DEF Walks
<1>3. /\ work' \in [Workers -> Work]
      /\ \A o \in Workers : work'[o].pc # "idle" =>
            work'[o].doc \in Docs /\ work'[o].attempt \in Attempts
  BY <1>2, MovedEffect DEF PlacedAs
<1>4. QED
  BY <1>1, <1>3 DEF TypeOK, WalkFrame, knowledge, others

\* What is written of a row of the outbox.
LEMMA OutboxType ==
    ASSUME TypeOK, NEW v \in Docs, NEW r \in Row
    PROVE  [outbox EXCEPT ![v] = r] \in [Docs -> Row]
BY DEF TypeOK

LEMMA OutboxStatusType ==
    ASSUME TypeOK, NEW v \in Docs,
           NEW s \in {"absent", "pending", "publishing", "published", "failed"}
    PROVE  /\ [outbox EXCEPT ![v].status = s] \in [Docs -> Row]
           /\ [outbox EXCEPT ![v].status = s, ![v].due = FALSE] \in [Docs -> Row]
<1>1. outbox \in [Docs -> Row] /\ outbox[v] \in Row
  BY DEF TypeOK
<1>2. [outbox[v] EXCEPT !.status = s] \in Row
  BY <1>1 DEF Row
<1>3. [outbox[v] EXCEPT !.status = s, !.due = FALSE] \in Row
  BY <1>1 DEF Row
<1>4. [outbox EXCEPT ![v].status = s] \in [Docs -> Row]
  BY <1>1, <1>2
<1>5. [outbox EXCEPT ![v].status = s, ![v].due = FALSE]
         = [outbox EXCEPT ![v] = [outbox[v] EXCEPT !.status = s, !.due = FALSE]]
  BY <1>1
<1>6. QED
  BY <1>1, <1>3, <1>4, <1>5

SenderStep(s) == Dispatch(s) \/ PublishUnconfirmed(s) \/ SenderCrash(s) \/ Slow(s)

LEMMA SendSlotType ==
    ASSUME TypeOK, NEW s \in Senders, NEW new \in Send,
           new.pc # "idle" => new.doc \in Docs /\ new.attempts > 0,
           send' = [send EXCEPT ![s] = new]
    PROVE  /\ send' \in [Senders -> Send]
           /\ \A o \in Senders : send'[o].pc # "idle" => send'[o].doc \in Docs /\ send'[o].attempts > 0
BY DEF TypeOK

LEMMA SendPlaceType ==
    ASSUME TypeOK, NEW s \in Senders, send[s].pc # "idle",
           NEW pc \in {"publish", "mark", "unmark"}, send' = [send EXCEPT ![s].pc = pc]
    PROVE  /\ send' \in [Senders -> Send]
           /\ \A o \in Senders : send'[o].pc # "idle" => send'[o].doc \in Docs /\ send'[o].attempts > 0
<1> DEFINE new == [send[s] EXCEPT !.pc = pc]
<1>1. send[s] \in Send /\ send[s].doc \in Docs /\ send[s].attempts > 0
  BY DEF TypeOK
<1>2. new \in Send /\ new.doc = send[s].doc /\ new.attempts = send[s].attempts
  BY <1>1 DEF Send
<1>3. send' = [send EXCEPT ![s] = new]
  OBVIOUS
<1> HIDE DEF new
<1>4. QED
  BY <1>1, <1>2, <1>3, SendSlotType

LEMMA ClaimType ==
    ASSUME TypeOK, NEW s \in Senders, NEW v \in Docs, Claim(s, v)
    PROVE  /\ outbox' \in [Docs -> Row] /\ send' \in [Senders -> Send]
           /\ \A o \in Senders : send'[o].pc # "idle" => send'[o].doc \in Docs /\ send'[o].attempts > 0
<1> DEFINE n == IF outbox[v].attempts < MaxPublish THEN outbox[v].attempts + 1 ELSE MaxPublish
           row == [outbox[v] EXCEPT !.status = "publishing", !.attempts = n, !.lapsed = FALSE]
           new == [pc |-> "publish", doc |-> v, attempts |-> n, slow |-> FALSE]
<1>1. outbox[v] \in Row /\ outbox \in [Docs -> Row] /\ outbox[v].attempts \in 0..MaxPublish
  BY DEF TypeOK, Row
<1>2. n \in 0..MaxPublish /\ n > 0
  BY <1>1, IndexingAssumption
<1>3. outbox' = [outbox EXCEPT ![v] = row] /\ send' = [send EXCEPT ![s] = new]
  BY <1>1 DEF Claim
<1> HIDE DEF n
<1>4. row \in Row
  BY <1>1, <1>2 DEF Row
<1>5. new \in Send /\ new.doc = v /\ new.attempts = n
  BY <1>2 DEF Send
<1> HIDE DEF row, new
<1>6. outbox' \in [Docs -> Row]
  BY <1>3, <1>4, OutboxType
<1>7. QED
  BY <1>2, <1>3, <1>5, <1>6, SendSlotType

LEMMA SenderType ==
    ASSUME TypeOK, NEW s \in Senders, SenderStep(s)
    PROVE  TypeOK' /\ UNCHANGED <<contract, knowledge, work, others>> /\ mishaps \subseteq mishaps'
<1>1. CASE \E v \in Docs : Claim(s, v)
  <2>1. PICK v \in Docs : Claim(s, v)
    BY <1>1
  <2>2. /\ outbox' \in [Docs -> Row] /\ send' \in [Senders -> Send]
        /\ \A o \in Senders : send'[o].pc # "idle" => send'[o].doc \in Docs /\ send'[o].attempts > 0
    BY <2>1, ClaimType
  <2>3. UNCHANGED <<contract, knowledge, broker, work, others, mishaps>>
    BY <2>1 DEF Claim
  <2>4. QED
    BY <2>2, <2>3 DEF TypeOK, knowledge, broker, others
<1>2. CASE Publish(s) \/ PublishUnconfirmed(s)
  <2>1. PICK pc \in {"mark", "unmark"} :
           send[s].pc = "publish" /\ send' = [send EXCEPT ![s].pc = pc]
    BY <1>2 DEF Publish, PublishUnconfirmed
  <2>2. /\ send' \in [Senders -> Send]
        /\ \A o \in Senders : send'[o].pc # "idle" => send'[o].doc \in Docs /\ send'[o].attempts > 0
    BY <2>1, SendPlaceType
  <2>3. <<send[s].doc, 1>> \in Copies /\ ready \in [Copies -> Nat]
    BY <2>1, IndexingAssumption DEF TypeOK, Copies, Attempts
  <2>4. ready' \in [Copies -> Nat]
    BY <1>2, <2>3, CountType DEF Publish, PublishUnconfirmed
  <2>5. mishaps' \subseteq Faults /\ mishaps \subseteq mishaps'
    BY <1>2, FaultType DEF Publish, PublishUnconfirmed, TypeOK
  <2>6. UNCHANGED <<contract, outbox, knowledge, delayed, dead, work, others>>
    BY <1>2 DEF Publish, PublishUnconfirmed
  <2>7. QED
    BY <2>2, <2>4, <2>5, <2>6 DEF TypeOK, knowledge, others
<1>3. CASE PublishFails(s)
  <2>1. send[s].pc = "publish" /\ send' = [send EXCEPT ![s].pc = "unmark"]
    BY <1>3 DEF PublishFails
  <2>2. /\ send' \in [Senders -> Send]
        /\ \A o \in Senders : send'[o].pc # "idle" => send'[o].doc \in Docs /\ send'[o].attempts > 0
    BY <2>1, SendPlaceType
  <2>3. QED
    BY <1>3, <2>2 DEF PublishFails, TypeOK, knowledge, broker, others
<1>4. CASE Mark(s) \/ Unmark(s)
  <2>1. send' = [send EXCEPT ![s] = Waiting] /\ send[s].pc # "idle"
    BY <1>4 DEF Mark, Unmark
  <2>2. /\ send' \in [Senders -> Send]
        /\ \A o \in Senders : send'[o].pc # "idle" => send'[o].doc \in Docs /\ send'[o].attempts > 0
    BY <2>1, IdleFields, SendSlotType
  <2>3. send[s].doc \in Docs
    BY <2>1 DEF TypeOK
  <2>4. outbox' \in [Docs -> Row]
    <3>1. outbox \in [Docs -> Row]
      BY DEF TypeOK
    <3>2. CASE Mark(s)
      BY <3>1, <3>2, <2>3, OutboxStatusType DEF Mark
    <3>3. CASE Unmark(s)
      <4>1. PICK s2 \in {"failed", "pending"} :
               outbox' = IF outbox[send[s].doc].status = "publishing"
                         THEN [outbox EXCEPT ![send[s].doc].status = s2, ![send[s].doc].due = FALSE]
                         ELSE outbox
        BY <3>3 DEF Unmark
      <4>2. QED
        BY <3>1, <4>1, <2>3, OutboxStatusType
    <3>4. QED
      BY <1>4, <3>2, <3>3
  <2>5. UNCHANGED <<contract, knowledge, broker, work, others, mishaps>>
    BY <1>4 DEF Mark, Unmark
  <2>6. QED
    BY <2>2, <2>4, <2>5 DEF TypeOK, knowledge, broker, others
<1>5. CASE SenderCrash(s)
  <2>1. /\ send' \in [Senders -> Send]
        /\ \A o \in Senders : send'[o].pc # "idle" => send'[o].doc \in Docs /\ send'[o].attempts > 0
    BY <1>5, IdleFields, SendSlotType DEF SenderCrash
  <2>2. mishaps' \subseteq Faults /\ mishaps \subseteq mishaps'
    BY <1>5, FaultType DEF SenderCrash
  <2>3. QED
    BY <1>5, <2>1, <2>2 DEF SenderCrash, TypeOK, knowledge, broker, others
<1>6. CASE Slow(s)
  <2> DEFINE new == [send[s] EXCEPT !.slow = TRUE]
  <2>1. send[s] \in Send /\ send[s].doc \in Docs /\ send[s].attempts > 0
    BY <1>6 DEF TypeOK, Slow
  <2>2. new \in Send /\ new.doc = send[s].doc /\ new.attempts = send[s].attempts
    BY <2>1 DEF Send
  <2>3. send' = [send EXCEPT ![s] = new]
    BY <1>6 DEF Slow
  <2> HIDE DEF new
  <2>4. /\ send' \in [Senders -> Send]
        /\ \A o \in Senders : send'[o].pc # "idle" => send'[o].doc \in Docs /\ send'[o].attempts > 0
    BY <2>1, <2>2, <2>3, SendSlotType
  <2>5. mishaps' \subseteq Faults /\ mishaps \subseteq mishaps'
    BY <1>6, FaultType DEF Slow
  <2>6. QED
    BY <1>6, <2>4, <2>5 DEF Slow, TypeOK, knowledge, broker, others
<1>7. QED
  BY <1>1, <1>2, <1>3, <1>4, <1>5, <1>6 DEF SenderStep, Dispatch

\* Steps of contracts, of time, of the broker and of the operator.
LEMMA ContractType ==
    ASSUME TypeOK, NEW v \in Docs, Review(v) \/ Delete(v)
    PROVE  TypeOK' /\ UNCHANGED <<broker, work, send, others, mishaps>>
<1>1. UNCHANGED <<broker, work, send, others, mishaps>>
  BY DEF Review, Delete
<1>2. outbox' \in [Docs -> Row]
  BY IdleFields, OutboxType DEF Review, Delete
<1>3. contract' \in [Docs -> {"unreviewed", "reviewed", "deleted"}]
  BY DEF Review, Delete, TypeOK
<1>4. index' \in [Docs -> Index] /\ chunks' \in [Docs -> {0} \cup IndexIds]
  BY IdleFields DEF Review, Delete, TypeOK, knowledge
<1>5. QED
  BY <1>1, <1>2, <1>3, <1>4 DEF TypeOK, broker, others

TimeStep(v) == Lapse(v) \/ ComesDue(v) \/ \E a \in Attempts : RetryDue(v, a)

LEMMA TimeType ==
    ASSUME TypeOK, NEW v \in Docs, TimeStep(v)
    PROVE  TypeOK' /\ UNCHANGED <<contract, knowledge, work, send, others, mishaps>>
<1>1. CASE Lapse(v) \/ ComesDue(v)
  <2>1. outbox[v] \in Row
    BY DEF TypeOK
  <2>2. [outbox[v] EXCEPT !.lapsed = TRUE] \in Row /\ [outbox[v] EXCEPT !.due = TRUE] \in Row
    BY <2>1 DEF Row
  <2>3. outbox' \in [Docs -> Row]
    BY <1>1, <2>2, OutboxType DEF Lapse, ComesDue
  <2>4. UNCHANGED <<contract, knowledge, broker, work, send, others, mishaps>>
    BY <1>1 DEF Lapse, ComesDue
  <2>5. QED
    BY <2>3, <2>4 DEF TypeOK, knowledge, broker, others
<1>2. CASE \E a \in Attempts : RetryDue(v, a)
  <2>1. PICK a \in Attempts : RetryDue(v, a)
    BY <1>2
  <2>2. <<v, a>> \in Copies /\ ready \in [Copies -> Nat] /\ delayed \in [Copies -> Nat]
    BY DEF Copies, TypeOK
  <2>3. ready' \in [Copies -> Nat] /\ delayed' \in [Copies -> Nat]
    BY <2>1, <2>2, CountType DEF RetryDue
  <2>4. UNCHANGED <<contract, outbox, knowledge, dead, work, send, others, mishaps>>
    BY <2>1 DEF RetryDue
  <2>5. QED
    BY <2>3, <2>4 DEF TypeOK, knowledge, others
<1>3. QED
  BY <1>1, <1>2 DEF TimeStep

OperatorStep == Backfill \/ RetryFailed \/ Operate \/ Interrupt

LEMMA ResetEffect ==
    ASSUME TypeOK, Reset
    PROVE  /\ index' \in [Docs -> Index]
           /\ \A d \in Docs : index'[d].id = index[d].id
           /\ \A d \in Docs : index'[d].status = IF index[d].status = "failed"
                                                 THEN "pending" ELSE index[d].status
<1> DEFINE new(d) == IF index[d].status = "failed"
                     THEN [index[d] EXCEPT !.status = "pending"] ELSE index[d]
<1>1. \A d \in Docs : index[d] \in Index
  BY DEF TypeOK
<1>2. \A d \in Docs : [index[d] EXCEPT !.status = "pending"] \in Index
                      /\ [index[d] EXCEPT !.status = "pending"].id = index[d].id
                      /\ [index[d] EXCEPT !.status = "pending"].status = "pending"
  BY <1>1 DEF Index
<1>3. \A d \in Docs : /\ new(d) \in Index /\ new(d).id = index[d].id
                      /\ new(d).status = IF index[d].status = "failed"
                                         THEN "pending" ELSE index[d].status
  BY <1>1, <1>2
<1>4. index' = [d \in Docs |-> new(d)]
  BY DEF Reset
<1> HIDE DEF new
<1>5. QED
  BY <1>3, <1>4

LEMMA OperatorType ==
    ASSUME TypeOK, OperatorStep
    PROVE  /\ TypeOK' /\ UNCHANGED <<contract, chunks, broker, work, send>>
           /\ mishaps \subseteq mishaps'
<1>0. operator.docs \subseteq Docs /\ commands \in 0..MaxCommands
      /\ operator.pc \in {"idle", "reset", "force"}
  BY DEF TypeOK
<1>1. CASE Backfill \/ RetryFailed
  <2>1. PICK pc \in {"reset", "force"}, docs \in SUBSET Docs : Command(pc, docs)
    BY <1>1 DEF Backfill, RetryFailed
  <2>2. commands' \in 0..MaxCommands
    BY <1>0, <2>1, IndexingAssumption DEF Command
  <2>3. operator' \in [pc: {"idle", "reset", "force"}, docs: SUBSET Docs]
    BY <2>1 DEF Command
  <2>4. UNCHANGED <<contract, outbox, knowledge, broker, work, send, mishaps>>
    BY <2>1 DEF Command
  <2>5. QED
    BY <2>2, <2>3, <2>4 DEF TypeOK, knowledge, broker
<1>2. CASE Reset
  <2>1. index' \in [Docs -> Index]
    BY <1>2, ResetEffect
  <2>2. operator' \in [pc: {"idle", "reset", "force"}, docs: SUBSET Docs]
    BY <1>2 DEF Reset, TypeOK
  <2>3. UNCHANGED <<contract, outbox, chunks, broker, work, send, commands, mishaps>>
    BY <1>2 DEF Reset
  <2>4. QED
    BY <2>1, <2>2, <2>3 DEF TypeOK, broker
<1>3. CASE \E v \in Docs : EnqueueIntent(v)
  <2>1. PICK v \in Docs : EnqueueIntent(v)
    BY <1>3
  <2>2. outbox' \in [Docs -> Row]
    BY <2>1, IdleFields, OutboxType DEF EnqueueIntent
  <2>3. operator' \in [pc: {"idle", "reset", "force"}, docs: SUBSET Docs]
    BY <2>1 DEF EnqueueIntent, TypeOK
  <2>4. UNCHANGED <<contract, knowledge, broker, work, send, commands, mishaps>>
    BY <2>1 DEF EnqueueIntent
  <2>5. QED
    BY <2>2, <2>3, <2>4 DEF TypeOK, knowledge, broker
<1>4. CASE CommandEnds
  <2>1. operator' \in [pc: {"idle", "reset", "force"}, docs: SUBSET Docs]
    BY <1>4 DEF CommandEnds, TypeOK
  <2>2. QED
    BY <1>4, <2>1 DEF CommandEnds, TypeOK, knowledge, broker
<1>5. CASE Interrupt
  <2>1. operator' \in [pc: {"idle", "reset", "force"}, docs: SUBSET Docs]
    BY <1>5 DEF Interrupt
  <2>2. mishaps' \subseteq Faults /\ mishaps \subseteq mishaps'
    BY <1>5, FaultType DEF Interrupt
  <2>3. QED
    BY <1>5, <2>1, <2>2 DEF Interrupt, TypeOK, knowledge, broker
<1>6. QED
  BY <1>1, <1>2, <1>3, <1>4, <1>5 DEF OperatorStep, Operate

-----------------------------------------------------------------------------
(* Rows *)

Rows == RowIds /\ KnowsRows /\ Placed /\ Stored /\ ReadyHasChunks

\* Nothing that Rows is about moves, or only a sender or a command does.
LEMMA RowsFrame ==
    ASSUME Rows, UNCHANGED <<contract, index, chunks, work>>, mishaps \subseteq mishaps'
    PROVE  Rows'
<1>1. RowIds' /\ ReadyHasChunks'
  BY DEF Rows, RowIds, FreshId, ReadyHasChunks
<1>2. KnowsRows'
  BY DEF Rows, KnowsRows, Known, At, Doc
<1>3. Placed'
  BY DEF Rows, Placed, At, Doc
<1>4. Stored'
  BY DEF Rows, Stored, At, Doc
<1>5. QED
  BY <1>1, <1>2, <1>3, <1>4 DEF Rows

LEMMA WalkRows ==
    ASSUME TypeOK, Rows, NEW w \in Workers, Walking(w)
    PROVE  Rows'
<1>1. Walks(w) /\ WalkFrame
  BY WalkingEffect DEF Rows
<1>2. UNCHANGED <<contract, index, chunks>> /\ mishaps \subseteq mishaps'
  BY <1>1 DEF WalkFrame, knowledge
<1>3. PICK new \in Work :
        /\ Moved(w, new) /\ PlacedAs(new) /\ Keeps(w, new)
        /\ new.pc \in {"mark", "embed", "chunks", "ready"} => new.pc = work[w].pc
  BY <1>1 DEF Walks
<1>4. work'[w] = new /\ \A o \in Workers \ {w} : work'[o] = work[o]
  BY <1>3, MovedEffect DEF PlacedAs
<1>5. RowIds' /\ ReadyHasChunks'
  BY <1>2 DEF Rows, RowIds, FreshId, ReadyHasChunks
<1>6. \/ new.pc = "idle"
      \/ new.pc = "load" /\ new.index = 0 /\ new.target = 0
      \/ /\ ~At(w, "idle") /\ new.pc # "idle"
         /\ new.doc = Doc(w) /\ new.index = work[w].index /\ new.target = work[w].target
  BY <1>3, IdleFields DEF Keeps
<1>7. KnowsRows'
  <2>1. KnowsRows
    BY DEF Rows
  <2>2. ASSUME NEW o \in Workers, work'[o].pc # "idle"
        PROVE  Known(o, work[o].target)' /\ Known(o, work[o].index)'
    <3>1. CASE o = w
      BY <1>2, <1>4, <1>6, <2>1, <2>2, <3>1 DEF KnowsRows, Known, Doc, At
    <3>2. CASE o # w
      BY <1>2, <1>4, <2>1, <2>2, <3>2 DEF KnowsRows, Known, Doc, At
    <3>3. QED
      BY <3>1, <3>2
  <2>3. QED
    BY <2>2 DEF KnowsRows, At
<1>8. Placed'
  <2>1. Placed
    BY DEF Rows
  <2>2. ASSUME NEW o \in Workers \ {w}
        PROVE  /\ work'[o].pc \in {"mark", "embed", "chunks", "ready"} =>
                     work'[o].target # 0 /\ work'[o].index # 0
               /\ work'[o].pc \in {"load", "require", "create"} /\ work'[o].round = 2 => work'[o].index # 0
               /\ work'[o].pc = "load" => work'[o].index = 0
               /\ work'[o].pc = "markFailed" => work'[o].index # 0
               /\ work'[o].pc \in {"record", "retry"} /\ work'[o].index = 0 =>
                     contract'[work'[o].doc] = "deleted" \/ "outage" \in mishaps'
               /\ work'[o].pc # "idle" /\ ~work'[o].up => "disconnect" \in mishaps'
    BY <1>2, <1>4, <2>1, <2>2 DEF Placed, Doc, At
  <2>3. new.pc \in {"mark", "embed", "chunks", "ready"} => new.target # 0 /\ new.index # 0
    <3>1. SUFFICES ASSUME new.pc \in {"mark", "embed", "chunks", "ready"}
                   PROVE  new.target # 0 /\ new.index # 0
      OBVIOUS
    <3>2. new.pc = work[w].pc /\ new.index = work[w].index /\ new.target = work[w].target
      BY <1>3, <1>6, <3>1
    <3>3. QED
      BY <2>1, <3>1, <3>2 DEF Placed
  <2>4. PlacedAs(new) /\ contract' = contract
    BY <1>2, <1>3
  <2>5. QED
    BY <1>4, <2>2, <2>3, <2>4 DEF Placed, PlacedAs, Doc, At
<1>9. Stored'
  <2>1. Stored
    BY DEF Rows
  <2>2. ASSUME NEW o \in Workers, work'[o].pc = "ready"
        PROVE  /\ work[o].pc = "ready" /\ work'[o].doc = work[o].doc
               /\ work'[o].target = work[o].target
    BY <1>3, <1>4, <1>6, <2>2 DEF Doc
  <2>3. QED
    BY <1>2, <2>1, <2>2 DEF Stored, At, Doc
<1>10. QED
  BY <1>5, <1>7, <1>8, <1>9 DEF Rows

\* A worker goes on with the document and the rows it knows of.
LEMMA GotoEffect ==
    ASSUME TypeOK, NEW w \in Workers, ~At(w, "idle"), NEW pc \in Places, Goto(w, pc)
    PROVE  /\ work' \in [Workers -> Work] /\ work'[w].pc = pc
           /\ work'[w].round = work[w].round /\ work'[w].up = work[w].up
           /\ \A o \in Workers \ {w} : work'[o] = work[o]
           /\ \A o \in Workers : /\ work'[o].doc = work[o].doc /\ work'[o].index = work[o].index
                                 /\ work'[o].target = work[o].target
           /\ \A o \in Workers : work'[o].pc # "idle" =>
                 work'[o].doc \in Docs /\ work'[o].attempt \in Attempts
<1>1. /\ At2(w, pc) \in Work /\ Moved(w, At2(w, pc)) /\ At2(w, pc).pc = pc
      /\ At2(w, pc).doc = work[w].doc /\ At2(w, pc).attempt = work[w].attempt
      /\ At2(w, pc).up = work[w].up /\ At2(w, pc).round = work[w].round
      /\ At2(w, pc).index = work[w].index /\ At2(w, pc).target = work[w].target
  BY PlaceEffect
<1>2. work[w].doc \in Docs /\ work[w].attempt \in Attempts
  BY DEF TypeOK, At
<1>3. /\ work' \in [Workers -> Work] /\ work'[w] = At2(w, pc)
      /\ \A o \in Workers \ {w} : work'[o] = work[o]
      /\ \A o \in Workers : work'[o].pc # "idle" =>
            work'[o].doc \in Docs /\ work'[o].attempt \in Attempts
  BY <1>1, <1>2, MovedEffect
<1>4. QED
  BY <1>1, <1>3

\* A worker marks a row it knows of, and goes on.
LEMMA MarkRows ==
    ASSUME TypeOK, Rows, NEW w \in Workers, ~At(w, "idle"), work[w].index # 0,
           NEW id, NEW s \in {"indexing", "ready", "failed"}, SetStatus(Doc(w), id, s),
           s = "ready" /\ index[Doc(w)].id = id => chunks[Doc(w)] = id,
           NEW pc \in {"embed", "chunks", "clear", "record"}, Goto(w, pc),
           pc \in {"embed", "chunks"} => work[w].target # 0,
           UNCHANGED <<contract, outbox, chunks, broker, send, others, mishaps>>
    PROVE  TypeOK' /\ Rows'
<1>1. Doc(w) \in Docs /\ pc \in Places
  BY DEF TypeOK, At, Doc, Places, InTry, InHandler
<1>2. /\ index' \in [Docs -> Index]
      /\ \A d \in Docs : index'[d].id = index[d].id
      /\ \A d \in Docs : index'[d].status = IF d = Doc(w) /\ index[Doc(w)].id = id
                                            THEN s ELSE index[d].status
  BY <1>1, StatusEffect
<1>3. /\ work' \in [Workers -> Work] /\ work'[w].pc = pc
      /\ work'[w].up = work[w].up
      /\ \A o \in Workers \ {w} : work'[o] = work[o]
      /\ \A o \in Workers : /\ work'[o].doc = work[o].doc /\ work'[o].index = work[o].index
                            /\ work'[o].target = work[o].target
      /\ \A o \in Workers : work'[o].pc # "idle" =>
            work'[o].doc \in Docs /\ work'[o].attempt \in Attempts
  BY <1>1, GotoEffect
<1>4. TypeOK'
  BY <1>2, <1>3 DEF TypeOK, broker, others
<1>5. RowIds'
  BY <1>2 DEF Rows, RowIds, FreshId
<1>6. KnowsRows'
  <2>1. KnowsRows
    BY DEF Rows
  <2>2. ASSUME NEW o \in Workers, work'[o].pc # "idle"
        PROVE  Known(o, work[o].target)' /\ Known(o, work[o].index)'
    <3>1. work[o].pc # "idle" /\ work'[o].doc \in Docs
      BY <1>3, <2>2 DEF At
    <3>2. QED
      BY <1>2, <1>3, <2>1, <3>1 DEF KnowsRows, Known, Doc, At
  <2>3. QED
    BY <2>2 DEF KnowsRows, At
<1>7. Placed'
  <2>1. Placed
    BY DEF Rows
  <2>2. /\ work'[w].index # 0 /\ (pc \in {"embed", "chunks"} => work'[w].target # 0)
        /\ (~work'[w].up => "disconnect" \in mishaps')
    BY <1>3, <2>1 DEF Placed, At
  <2>3. QED
    BY <1>3, <2>1, <2>2 DEF Placed, Doc, At
<1>8. Stored'
  <2>1. Stored
    BY DEF Rows
  <2>2. ASSUME NEW o \in Workers, work'[o].pc = "ready"
        PROVE  work[o].pc = "ready" /\ work'[o].doc \in Docs
    BY <1>3, <2>2
  <2>3. QED
    BY <1>2, <1>3, <2>1, <2>2 DEF Stored, At, Doc
<1>9. ReadyHasChunks'
  BY <1>1, <1>2 DEF Rows, ReadyHasChunks
<1>10. QED
  BY <1>4, <1>5, <1>6, <1>7, <1>8, <1>9 DEF Rows

LEMMA StatusRows ==
    ASSUME TypeOK, Rows, NEW w \in Workers, MarkIndexing(w) \/ MarkReady(w) \/ MarkFailed(w)
    PROVE  TypeOK' /\ Rows'
<1>1. Placed /\ Stored
  BY DEF Rows
<1>2. CASE MarkIndexing(w)
  <2>1. ~At(w, "idle") /\ work[w].index # 0 /\ work[w].target # 0
    BY <1>1, <1>2 DEF MarkIndexing, Placed, At
  <2>2. PICK pc \in {"embed", "chunks"} : Goto(w, pc)
    BY <1>2 DEF MarkIndexing
  <2>3. QED
    BY <1>2, <2>1, <2>2, MarkRows DEF MarkIndexing
<1>3. CASE MarkReady(w)
  <2>1. ~At(w, "idle") /\ work[w].index # 0 /\ work[w].target # 0
    BY <1>1, <1>3 DEF MarkReady, Placed, At
  <2>2. index[Doc(w)].id = work[w].target => chunks[Doc(w)] = work[w].target
    BY <1>1, <1>3 DEF MarkReady, Stored
  <2>3. QED
    BY <1>3, <2>1, <2>2, MarkRows DEF MarkReady
<1>4. CASE MarkFailed(w)
  <2>1. ~At(w, "idle") /\ work[w].index # 0
    BY <1>1, <1>4 DEF MarkFailed, Placed, At
  <2>2. QED
    BY <1>4, <2>1, MarkRows DEF MarkFailed
<1>5. QED
  BY <1>2, <1>3, <1>4

LEMMA CreateRows ==
    ASSUME TypeOK, Rows, NEW w \in Workers, Create(w)
    PROVE  TypeOK' /\ Rows'
<1> DEFINE v == Doc(w)
           id == IF index[v].id = 0 THEN FreshId(v) ELSE index[v].id
           made == [id |-> id, status |-> "pending"]
           first == IF work[w].round = 1 THEN id ELSE work[w].index
           new == [work[w] EXCEPT !.pc = "mark", !.target = id, !.index = first]
<1>1. /\ v \in Docs /\ At(w, "create") /\ work[w] \in Work /\ work[w].attempt \in Attempts
      /\ UNCHANGED <<contract, outbox, chunks, broker, send, others, mishaps>>
  BY DEF Create, TypeOK, At, Doc
<1>2. id \in IndexIds /\ id # 0 /\ id = FreshId(v)
  BY <1>1 DEF Rows, RowIds, FreshId, IndexIds
<1>3. index' \in [Docs -> Index] /\ index'[v].id = id
  <2>1. made \in Index
    BY <1>2 DEF Index
  <2>2. index \in [Docs -> Index]
    BY DEF TypeOK
  <2>3. index' = IF index[v].id = 0 THEN [index EXCEPT ![v] = made] ELSE index
    BY DEF Create
  <2> HIDE DEF made, id
  <2>4. made.id = id
    BY DEF made
  <2>5. CASE index[v].id = 0
    BY <1>1, <2>1, <2>2, <2>3, <2>4, <2>5
  <2>6. CASE index[v].id # 0
    BY <1>1, <2>2, <2>3, <2>6 DEF id
  <2>7. QED
    BY <2>5, <2>6
<1>4. /\ \A d \in Docs \ {v} : index'[d] = index[d]
      /\ index[v].id = 0 => index'[v].status = "pending"
      /\ index[v].id # 0 => index' = index
  BY <1>1 DEF Create, TypeOK
<1>5. first \in IndexIds /\ first # 0 /\ (first = id \/ first = work[w].index)
  BY <1>1, <1>2 DEF Rows, Placed, At, Work, IndexIds
<1>6. /\ new \in Work /\ new.pc = "mark" /\ new.target = id /\ new.index = first
      /\ new.doc = work[w].doc /\ new.attempt = work[w].attempt /\ new.up = work[w].up
  <2> HIDE DEF id, first
  <2>1. "mark" \in Places
    BY DEF Places, InTry
  <2>2. QED
    BY <1>1, <1>2, <1>5, <2>1 DEF Work
<1>7. Moved(w, new)
  BY <1>1 DEF Create, Moved, TypeOK
<1> HIDE DEF id, made, first, new
<1>8. /\ work' \in [Workers -> Work] /\ work'[w] = new
      /\ \A o \in Workers \ {w} : work'[o] = work[o]
      /\ \A o \in Workers : work'[o].pc # "idle" =>
            work'[o].doc \in Docs /\ work'[o].attempt \in Attempts
  BY <1>1, <1>6, <1>7, MovedEffect DEF Doc
<1>9. TypeOK'
  BY <1>1, <1>3, <1>8 DEF TypeOK, broker, others
<1>10. RowIds'
  BY <1>1, <1>2, <1>3, <1>4 DEF Rows, RowIds, FreshId
<1>11. KnowsRows'
  <2>1. KnowsRows
    BY DEF Rows
  <2>2. ASSUME NEW o \in Workers, work'[o].pc # "idle"
        PROVE  Known(o, work[o].target)' /\ Known(o, work[o].index)'
    <3>1. CASE o = w
      <4>1. work'[o].doc = v /\ work'[o].target = id /\ work'[o].index = first
        BY <1>6, <1>8, <3>1 DEF Doc
      <4>2. Known(w, work[w].index)
        BY <1>1, <2>1 DEF KnowsRows, At
      <4>3. QED
        BY <1>1, <1>3, <1>4, <1>5, <4>1, <4>2 DEF Known, Doc
    <3>2. CASE o # w
      <4>1. work'[o] = work[o] /\ work[o].doc \in Docs /\ ~At(o, "idle")
        BY <1>8, <2>2, <3>2 DEF At
      <4>2. Known(o, work[o].target) /\ Known(o, work[o].index)
        BY <2>1, <4>1 DEF KnowsRows
      <4>3. index[work[o].doc].id \in {0, index'[work[o].doc].id}
        BY <1>4, <4>1
      <4>4. QED
        BY <1>1, <4>1, <4>2, <4>3 DEF Known, Doc
    <3>3. QED
      BY <3>1, <3>2
  <2>3. QED
    BY <2>2 DEF KnowsRows, At
<1>12. Placed'
  <2>1. Placed
    BY DEF Rows
  <2>2. ~work[w].up => "disconnect" \in mishaps
    BY <1>1, <2>1 DEF Placed, At
  <2>3. QED
    BY <1>1, <1>2, <1>5, <1>6, <1>8, <2>1, <2>2 DEF Placed, Doc, At
<1>13. Stored'
  <2>1. Stored /\ Placed /\ KnowsRows
    BY DEF Rows
  <2>2. ASSUME NEW o \in Workers, work'[o].pc = "ready", work'[o].target = index'[work'[o].doc].id
        PROVE  chunks[work'[o].doc] = work'[o].target
    <3>1. work'[o] = work[o] /\ work[o].doc \in Docs
      BY <1>6, <1>8, <2>2
    <3>2. CASE work[o].target = index[work[o].doc].id
      BY <2>1, <2>2, <3>1, <3>2 DEF Stored, At, Doc
    <3>3. CASE work[o].target # index[work[o].doc].id
      <4>1. work[o].doc = v /\ index[v].id = 0 /\ work[o].target = FreshId(v)
        BY <1>2, <1>3, <1>4, <2>2, <3>1, <3>3
      <4>2. work[o].target # 0 /\ Known(o, work[o].target)
        BY <2>1, <2>2, <3>1 DEF Placed, KnowsRows, At
      <4>3. contract[v] = "deleted" /\ work[o].target = 1
        BY <3>1, <4>1, <4>2 DEF Known, Doc
      <4>4. QED
        BY <4>1, <4>3 DEF FreshId
    <3>4. QED
      BY <3>2, <3>3
  <2>3. QED
    BY <1>1, <2>2 DEF Stored, At, Doc
<1>14. ReadyHasChunks'
  BY <1>1, <1>4 DEF Rows, ReadyHasChunks
<1>15. QED
  BY <1>9, <1>10, <1>11, <1>12, <1>13, <1>14 DEF Rows

LEMMA ReplaceRows ==
    ASSUME TypeOK, Rows, NEW w \in Workers, ReplaceChunks(w), index[Doc(w)].id = work[w].target
    PROVE  TypeOK' /\ Rows'
<1> DEFINE v == Doc(w)
<1>1. /\ ~At(w, "idle") /\ v \in Docs /\ work[w].index # 0 /\ work[w].target # 0
      /\ work[w].target \in {0} \cup IndexIds
  BY DEF ReplaceChunks, Rows, Placed, TypeOK, At, Doc, Work
<1>2. /\ chunks' = [chunks EXCEPT ![v] = work[w].target] /\ SetStatus(v, work[w].target, "indexing")
      /\ Goto(w, "ready") /\ UNCHANGED <<contract, outbox, broker, send, others, mishaps>>
  BY DEF ReplaceChunks
<1>3. /\ index' \in [Docs -> Index]
      /\ \A d \in Docs : index'[d].id = index[d].id
      /\ \A d \in Docs : index'[d].status = IF d = v /\ index[v].id = work[w].target
                                            THEN "indexing" ELSE index[d].status
  BY <1>1, <1>2, StatusEffect
<1>4. "ready" \in Places
  BY DEF Places, InTry
<1>5. /\ work' \in [Workers -> Work] /\ work'[w].pc = "ready"
      /\ work'[w].up = work[w].up
      /\ \A o \in Workers \ {w} : work'[o] = work[o]
      /\ \A o \in Workers : /\ work'[o].doc = work[o].doc /\ work'[o].index = work[o].index
                            /\ work'[o].target = work[o].target
      /\ \A o \in Workers : work'[o].pc # "idle" =>
            work'[o].doc \in Docs /\ work'[o].attempt \in Attempts
  BY <1>1, <1>2, <1>4, GotoEffect
<1>6. /\ chunks' \in [Docs -> {0} \cup IndexIds] /\ chunks'[v] = index[v].id
      /\ \A d \in Docs \ {v} : chunks'[d] = chunks[d]
  BY <1>1, <1>2 DEF TypeOK
<1>7. TypeOK'
  BY <1>2, <1>3, <1>5, <1>6 DEF TypeOK, broker, others
<1>8. RowIds'
  BY <1>2, <1>3 DEF Rows, RowIds, FreshId
<1>9. KnowsRows'
  <2>1. KnowsRows
    BY DEF Rows
  <2>2. ASSUME NEW o \in Workers, work'[o].pc # "idle"
        PROVE  Known(o, work[o].target)' /\ Known(o, work[o].index)'
    <3>1. work[o].pc # "idle" /\ work'[o].doc \in Docs
      BY <1>1, <1>5, <2>2 DEF At
    <3>2. QED
      BY <1>2, <1>3, <1>5, <2>1, <3>1 DEF KnowsRows, Known, Doc, At
  <2>3. QED
    BY <2>2 DEF KnowsRows, At
<1>10. Placed'
  <2>1. Placed
    BY DEF Rows
  <2>2. ~work'[w].up => "disconnect" \in mishaps'
    BY <1>1, <1>2, <1>5, <2>1 DEF Placed, At
  <2>3. QED
    BY <1>1, <1>2, <1>5, <2>1, <2>2 DEF Placed, Doc, At
<1>11. Stored'
  <2>1. Stored
    BY DEF Rows
  <2>2. ASSUME NEW o \in Workers, work'[o].pc = "ready", work'[o].target = index'[work'[o].doc].id
        PROVE  chunks'[work'[o].doc] = work'[o].target
    <3>1. work'[o].doc = work[o].doc /\ work[o].doc \in Docs /\ work[o].target = index[work[o].doc].id
      BY <1>3, <1>5, <2>2
    <3>2. CASE work[o].doc = v
      BY <1>5, <1>6, <3>1, <3>2
    <3>3. CASE work[o].doc # v
      <4>1. o # w
        BY <3>3 DEF Doc
      <4>2. chunks[work[o].doc] = work[o].target
        BY <1>5, <2>1, <2>2, <3>1, <4>1 DEF Stored, At, Doc
      <4>3. QED
        BY <1>5, <1>6, <3>1, <3>3, <4>2
    <3>4. QED
      BY <3>2, <3>3
  <2>3. QED
    BY <2>2 DEF Stored, At, Doc
<1>12. ReadyHasChunks'
  BY <1>1, <1>3, <1>6 DEF Rows, ReadyHasChunks
<1>13. QED
  BY <1>7, <1>8, <1>9, <1>10, <1>11, <1>12 DEF Rows

LEMMA ContractRows ==
    ASSUME TypeOK, Rows, NEW v \in Docs, Review(v) \/ Delete(v)
    PROVE  Rows'
<1>1. UNCHANGED <<work, mishaps>>
  BY DEF Review, Delete
<1>2. /\ \A d \in Docs \ {v} : /\ contract'[d] = contract[d] /\ index'[d] = index[d]
                               /\ chunks'[d] = chunks[d]
      /\ contract[v] # "deleted" /\ index[v].id \in {0, 1}
      /\ \/ contract'[v] = "reviewed" /\ index'[v] = index[v] /\ chunks'[v] = chunks[v]
         \/ contract'[v] = "deleted" /\ index'[v] = NoIndex
  BY DEF Review, Delete, TypeOK, Rows, RowIds, FreshId, knowledge
<1>3. \A o \in Workers : work[o].pc # "idle" => work[o].doc \in Docs
  BY DEF TypeOK
<1>4. RowIds'
  BY <1>2, IdleFields DEF Rows, RowIds, FreshId
<1>5. KnowsRows'
  <2>1. ASSUME NEW o \in Workers, work[o].pc # "idle",
               NEW id, Known(o, id)
        PROVE  \/ id \in {0, index'[work[o].doc].id}
               \/ contract'[work[o].doc] = "deleted" /\ id = 1
    BY <1>2, <1>3, <2>1, IdleFields DEF Known, Doc
  <2>2. \A o \in Workers : work[o].pc # "idle" => Known(o, work[o].target) /\ Known(o, work[o].index)
    BY DEF Rows, KnowsRows, At
  <2>3. QED
    BY <1>1, <2>1, <2>2 DEF KnowsRows, Known, At, Doc
<1>6. Placed'
  <2>1. Placed
    BY DEF Rows
  <2>2. \A o \in Workers : work[o].pc # "idle" /\ contract[work[o].doc] = "deleted" =>
           contract'[work[o].doc] = "deleted"
    BY <1>2, <1>3
  <2>3. QED
    BY <1>1, <2>1, <2>2 DEF Placed, At, Doc
<1>7. Stored'
  <2>1. ASSUME NEW o \in Workers, work[o].pc = "ready", work[o].target = index'[work[o].doc].id
        PROVE  chunks'[work[o].doc] = work[o].target
    <3>1. work[o].target # 0 /\ work[o].doc \in Docs
      BY <1>3, <2>1 DEF Rows, Placed
    <3>2. index'[work[o].doc] = index[work[o].doc] /\ chunks'[work[o].doc] = chunks[work[o].doc]
      BY <1>2, <2>1, <3>1, IdleFields
    <3>3. QED
      BY <2>1, <3>2 DEF Rows, Stored, At, Doc
  <2>2. QED
    BY <1>1, <2>1 DEF Stored, At, Doc
<1>8. ReadyHasChunks'
  BY <1>2, IdleFields DEF Rows, ReadyHasChunks
<1>9. QED
  BY <1>4, <1>5, <1>6, <1>7, <1>8 DEF Rows

LEMMA OperatorRows ==
    ASSUME TypeOK, Rows, OperatorStep
    PROVE  Rows'
<1>1. UNCHANGED <<contract, chunks, work>> /\ mishaps \subseteq mishaps'
  BY OperatorType
<1>2. CASE Reset
  <2>1. /\ \A d \in Docs : index'[d].id = index[d].id
        /\ \A d \in Docs : index'[d].status = "ready" => index[d].status = "ready"
    BY <1>2, ResetEffect
  <2>2. RowIds' /\ ReadyHasChunks'
    BY <1>1, <2>1 DEF Rows, RowIds, FreshId, ReadyHasChunks
  <2>3. \A o \in Workers : work[o].pc # "idle" => work[o].doc \in Docs
    BY DEF TypeOK
  <2>4. KnowsRows'
    BY <1>1, <2>1, <2>3 DEF Rows, KnowsRows, Known, At, Doc
  <2>5. Placed'
    BY <1>1 DEF Rows, Placed, At, Doc
  <2>6. Stored'
    BY <1>1, <2>1, <2>3 DEF Rows, Stored, At, Doc
  <2>7. QED
    BY <2>2, <2>4, <2>5, <2>6 DEF Rows
<1>3. CASE Backfill \/ RetryFailed \/ (\E v \in Docs : EnqueueIntent(v)) \/ CommandEnds \/ Interrupt
  <2>1. index' = index
    BY <1>3 DEF Backfill, RetryFailed, Command, EnqueueIntent, CommandEnds, Interrupt, knowledge
  <2>2. QED
    BY <1>1, <2>1, RowsFrame
<1>4. QED
  BY <1>2, <1>3 DEF OperatorStep, Operate

-----------------------------------------------------------------------------
(* The invariants of the rows *)

LEMMA NextCases ==
    ASSUME Next
    PROVE  \/ \E v \in Docs : Review(v) \/ Delete(v) \/ TimeStep(v)
           \/ \E s \in Senders : SenderStep(s)
           \/ \E w \in Workers : Walking(w) \/ Writing(w)
           \/ OperatorStep
BY DEF Next, TimeStep, SenderStep, Walking, Writing, IndexStep, OperatorStep

LEMMA RowsStep ==
    ASSUME RowsInv, [Next]_vars
    PROVE  RowsInv'
<1> USE DEF RowsInv
<1>0. TypeOK /\ Rows
  BY DEF Rows
<1>1. ASSUME NEW v \in Docs, Review(v) \/ Delete(v)
      PROVE  RowsInv'
  BY <1>0, <1>1, ContractType, ContractRows DEF Rows
<1>2. ASSUME NEW v \in Docs, TimeStep(v)
      PROVE  RowsInv'
  <2>1. TypeOK' /\ UNCHANGED <<contract, index, chunks, work, mishaps>>
    BY <1>0, <1>2, TimeType DEF knowledge
  <2>2. QED
    BY <1>0, <2>1, RowsFrame DEF Rows
<1>3. ASSUME NEW s \in Senders, SenderStep(s)
      PROVE  RowsInv'
  <2>1. TypeOK' /\ UNCHANGED <<contract, index, chunks, work>> /\ mishaps \subseteq mishaps'
    BY <1>0, <1>3, SenderType DEF knowledge
  <2>2. QED
    BY <1>0, <2>1, RowsFrame DEF Rows
<1>4. ASSUME NEW w \in Workers, Walking(w)
      PROVE  RowsInv'
  BY <1>0, <1>4, WalkType, WalkRows DEF Rows
<1>5. ASSUME NEW w \in Workers, Writing(w)
      PROVE  RowsInv'
  <2>1. TypeOK' /\ Rows'
    BY <1>0, <1>5, CreateRows, StatusRows, ReplaceRows DEF Writing
  <2>2. QED
    BY <2>1 DEF Rows
<1>6. CASE OperatorStep
  BY <1>0, <1>6, OperatorType, OperatorRows DEF Rows
<1>7. CASE UNCHANGED vars
  <2>1. TypeOK'
    BY <1>7 DEF TypeOK, vars, knowledge, broker, others
  <2>2. Rows'
    BY <1>0, <1>7, RowsFrame DEF vars
  <2>3. QED
    BY <2>1, <2>2 DEF Rows
<1>8. QED
  BY <1>1, <1>2, <1>3, <1>4, <1>5, <1>6, <1>7, NextCases

LEMMA InitRows == Init => RowsInv
<1>1. SUFFICES ASSUME Init PROVE RowsInv
  OBVIOUS
<1>2. TypeOK
  BY <1>1, InitType
<1>3. RowIds /\ ReadyHasChunks
  BY <1>1, IdleFields DEF Init, RowIds, ReadyHasChunks
<1>4. KnowsRows /\ Placed /\ Stored
  BY <1>1, IdleFields DEF Init, KnowsRows, Placed, Stored, At
<1>5. QED
  BY <1>2, <1>3, <1>4 DEF RowsInv

THEOREM RowsInvariant == Spec => []RowsInv
<1>1. QED
  BY InitRows, RowsStep, PTL DEF Spec

\* Every variable has its type, the broker's copies included (all actions).
THEOREM TypeCorrect == Spec => []TypeOK
<1>1. RowsInv => TypeOK
  BY DEF RowsInv
<1>2. QED
  BY <1>1, RowsInvariant, PTL

\* An index that search reads has its chunks, whatever copies of its job are
\* worked on side by side (replace_chunks, _set_status, delete_contract).
THEOREM ReadyHasChunksHolds == Spec => []ReadyHasChunks
<1>1. RowsInv => ReadyHasChunks
  BY DEF RowsInv
<1>2. QED
  BY <1>1, RowsInvariant, PTL

-----------------------------------------------------------------------------
(* Who carries an index on *)

HasCopy(v) == \E a \in Attempts : ready[<<v, a>>] > 0 \/ delayed[<<v, a>>] > 0
HasWorker(v) == \E w \in Workers : Doc(w) = v /\ Busy(w)

LEMMA CarriedCases ==
    ASSUME NEW v
    PROVE  Carried(v) <=> Excused(v) \/ Settled(v) \/ HasCopy(v) \/ HasWorker(v)
BY DEF Carried, HasCopy, HasWorker

\* Only more has gone wrong, and the index is as it was.
LEMMA ExcusedStays ==
    ASSUME NEW v \in Docs, mishaps \subseteq mishaps', dead \subseteq dead',
           index'[v].status = index[v].status, commands' <= commands,
           commands \in Nat, commands' \in Nat, Excused(v) \/ Settled(v)
    PROVE  Excused(v)' \/ Settled(v)'
<1>1. CASE Abandoned
  BY <1>1 DEF Abandoned, Excused
<1>2. CASE Unrecorded(v)
  BY <1>2 DEF Unrecorded, Excused
<1>3. CASE Reopened(v)
  <2>1. commands' < MaxCommands
    BY <1>3, IndexingAssumption DEF Reopened
  <2>2. QED
    BY <1>3, <2>1 DEF Reopened, Excused
<1>4. CASE Settled(v)
  BY <1>4 DEF Settled
<1>5. QED
  BY <1>1, <1>2, <1>3, <1>4 DEF Excused

LEMMA CarriedFrame ==
    ASSUME NEW v \in Docs, Carried(v), mishaps \subseteq mishaps', dead \subseteq dead',
           index'[v].status = index[v].status, commands' <= commands,
           commands \in Nat, commands' \in Nat,
           HasCopy(v) => HasCopy(v)', work' = work
    PROVE  Carried(v)'
<1>1. CASE Excused(v) \/ Settled(v)
  BY <1>1, ExcusedStays DEF Carried
<1>2. CASE HasCopy(v)
  BY <1>2 DEF Carried, HasCopy
<1>3. CASE HasWorker(v)
  BY <1>3 DEF Carried, HasWorker, Busy, Doc
<1>4. QED
  BY <1>1, <1>2, <1>3, CarriedCases

\* One more copy is a copy, and the others stay.
LEMMA MoreCopies ==
    ASSUME NEW f \in [Copies -> Nat], NEW c \in Copies
    PROVE  /\ [f EXCEPT ![c] = f[c] + 1][c] > 0
           /\ \A d \in Copies : f[d] > 0 => [f EXCEPT ![c] = f[c] + 1][d] > 0
<1>1. f[c] \in Nat /\ f[c] + 1 > 0
  OBVIOUS
<1>2. QED
  BY <1>1

\* The broker takes a copy back: there is one.
LEMMA RequeueCopies ==
    ASSUME TypeOK, NEW w \in Workers, ~At(w, "idle"), Requeue(w)
    PROVE  /\ work[w].up => ready'[Copy(w)] > 0
           /\ \A c \in Copies : ready[c] > 0 => ready'[c] > 0
<1>1. Copy(w) \in Copies /\ ready \in [Copies -> Nat]
  BY DEF TypeOK, Copy, Copies, At
<1>2. CASE work[w].up
  BY <1>1, <1>2, MoreCopies DEF Requeue
<1>3. CASE ~work[w].up
  BY <1>3 DEF Requeue
<1>4. QED
  BY <1>2, <1>3

LEMMA PutBackCopies ==
    ASSUME TypeOK, NEW w \in Workers, ~At(w, "idle"), PutBack(w)
    PROVE  /\ Doc(w) \in dead' \/ \E a \in Attempts : delayed'[<<Doc(w), a>>] > 0
           /\ \A c \in Copies : delayed[c] > 0 => delayed'[c] > 0
<1>1. work[w].doc \in Docs /\ work[w].attempt \in Attempts /\ delayed \in [Copies -> Nat]
  BY DEF TypeOK, At
<1>2. CASE LastAttempt(w)
  BY <1>1, <1>2 DEF PutBack, Doc
<1>3. CASE ~LastAttempt(w)
  <2>1. work[w].attempt + 1 \in Attempts
    BY <1>1, <1>3, IndexingAssumption DEF LastAttempt, Attempts
  <2>2. <<Doc(w), work[w].attempt + 1>> \in Copies
    BY <1>1, <2>1 DEF Copies, Doc
  <2>3. delayed' = [delayed EXCEPT ![<<Doc(w), work[w].attempt + 1>>]
                       = delayed[<<Doc(w), work[w].attempt + 1>>] + 1]
    BY <1>3 DEF PutBack
  <2>4. QED
    BY <1>1, <2>1, <2>2, <2>3, MoreCopies
<1>4. QED
  BY <1>2, <1>3

\* Who dies with a delivery leaves its copy to the broker, or lost it before.
LEMMA EscapeCopies ==
    ASSUME TypeOK, Placed, NEW w \in Workers, ~At(w, "idle"), Escape(w),
           mishaps \subseteq mishaps', mishaps' \cap {"crash", "outage"} # {},
           NEW v \in Docs, Doc(w) = v
    PROVE  /\ HasCopy(v)' \/ Abandoned'
           /\ \A c \in Copies : ready[c] > 0 => ready'[c] > 0
<1>1. /\ work[w].up => ready'[Copy(w)] > 0
      /\ \A c \in Copies : ready[c] > 0 => ready'[c] > 0
  BY RequeueCopies DEF Escape
<1>2. work[w].attempt \in Attempts /\ Copy(w) = <<v, work[w].attempt>>
  BY DEF TypeOK, At, Copy, Doc
<1>3. CASE work[w].up
  <2>1. ready'[<<v, work[w].attempt>>] > 0
    BY <1>1, <1>2, <1>3
  <2>2. \E a \in Attempts : ready'[<<v, a>>] > 0
    BY <1>2, <2>1
  <2>3. QED
    BY <1>1, <2>2 DEF HasCopy
<1>4. CASE ~work[w].up
  <2>1. "disconnect" \in mishaps
    BY <1>4 DEF Placed
  <2>2. QED
    BY <1>1, <2>1 DEF Abandoned
<1>5. QED
  BY <1>3, <1>4

\* A walk takes no copy that it does not work on then.
LEMMA WalkCopies ==
    ASSUME TypeOK, Placed, NEW w \in Workers, Walking(w), NEW v \in Docs, HasCopy(v)
    PROVE  HasCopy(v)' \/ HasWorker(v)'
<1>1. PICK b \in Attempts : ready[<<v, b>>] > 0 \/ delayed[<<v, b>>] > 0
  BY DEF HasCopy
<1>2. <<v, b>> \in Copies
  BY DEF Copies
<1>3. ASSUME NEW d \in Docs, NEW a \in Attempts, Deliver(w, d, a)
      PROVE  HasCopy(v)' \/ HasWorker(v)'
  <2>1. CASE <<d, a>> = <<v, b>>
    <3>1. d = v
      BY <2>1
    <3>2. work' = [work EXCEPT ![w] = [Idle EXCEPT !.pc = "load", !.doc = v, !.attempt = a, !.up = TRUE]]
      BY <1>3, <3>1 DEF Deliver
    <3>3. work'[w].pc = "load" /\ work'[w].doc = v
      BY <3>2 DEF TypeOK, Idle
    <3>4. QED
      BY <3>3 DEF HasWorker, Doc, Busy, InTry
  <2>2. CASE <<d, a>> # <<v, b>>
    <3>1. ready'[<<v, b>>] = ready[<<v, b>>] /\ delayed' = delayed
      BY <1>2, <1>3, <2>2 DEF Deliver, TypeOK
    <3>2. QED
      BY <1>1, <3>1 DEF HasCopy
  <2>3. QED
    BY <2>1, <2>2
<1>4. CASE UNCHANGED <<ready, delayed>>
  BY <1>1, <1>4 DEF HasCopy
<1>5. CASE ~At(w, "idle") /\ Requeue(w) /\ UNCHANGED delayed
  <2>1. ready[<<v, b>>] > 0 => ready'[<<v, b>>] > 0
    BY <1>2, <1>5, RequeueCopies
  <2>2. QED
    BY <1>1, <1>5, <2>1 DEF HasCopy
<1>6. CASE ~At(w, "idle") /\ PutBack(w) /\ (Requeue(w) \/ UNCHANGED ready)
  <2>1. ready[<<v, b>>] > 0 => ready'[<<v, b>>] > 0
    BY <1>2, <1>6, RequeueCopies
  <2>2. delayed[<<v, b>>] > 0 => delayed'[<<v, b>>] > 0
    BY <1>2, <1>6, PutBackCopies
  <2>3. QED
    BY <1>1, <2>1, <2>2 DEF HasCopy
<1>7. CASE IndexFault(w)
  <2>1. ~At(w, "idle")
    BY <1>7 DEF IndexFault, ConnectFails, Outage, LateOutage, RetryUnconfirmed, Crash, Disconnect,
                At, InTry
  <2>2. \/ UNCHANGED <<ready, delayed>>
        \/ Requeue(w) /\ UNCHANGED delayed
        \/ PutBack(w) /\ Requeue(w)
    BY <1>7 DEF IndexFault, ConnectFails, Outage, LateOutage, RetryUnconfirmed, Crash, Disconnect,
                Escape, broker
  <2>3. QED
    BY <1>4, <1>5, <1>6, <2>1, <2>2
<1>8. CASE Retry(w)
  BY <1>6, <1>8 DEF Retry, At
<1>9. CASE \/ Load(w) \/ Require(w) \/ Embed(w) \/ EmbedFails(w) \/ Clear(w) \/ Ack(w)
           \/ Record(w) \/ RetryFails(w) \/ ReplaceChunks(w)
  BY <1>4, <1>9 DEF Load, Require, Embed, EmbedFails, Clear, Ack, Record, RetryFails, ReplaceChunks,
                    broker
<1>10. QED
  BY <1>3, <1>7, <1>8, <1>9 DEF Walking

\* A busy worker stays busy with its document ...
LEMMA BusyGoto ==
    ASSUME TypeOK, NEW w \in Workers, ~At(w, "idle"), NEW v, Doc(w) = v,
           NEW pc \in InTry \cup {"markFailed"}, Goto(w, pc)
    PROVE  HasWorker(v)'
<1>1. pc \in Places
  BY DEF Places, InHandler
<1>2. work'[w].pc = pc /\ work'[w].doc = v
  BY <1>1, GotoEffect DEF Doc
<1>3. QED
  BY <1>2 DEF HasWorker, Busy, Doc

LEMMA BusyLate ==
    ASSUME TypeOK, NEW w \in Workers, ~At(w, "idle"), NEW v, Doc(w) = v, work[w].index = 0,
           NEW pc \in {"record", "retry"}, Goto(w, pc)
    PROVE  HasWorker(v)'
<1>1. pc \in Places
  BY DEF Places, InHandler
<1>2. work'[w].pc = pc /\ work'[w].doc = v /\ work'[w].index = 0
  BY <1>1, GotoEffect DEF Doc
<1>3. QED
  BY <1>2 DEF HasWorker, Busy, Doc

LEMMA BusyHandler ==
    ASSUME TypeOK, NEW w \in Workers, ~At(w, "idle"), NEW v, Doc(w) = v, Goto(w, HandlerOf(w))
    PROVE  HasWorker(v)'
<1>1. CASE work[w].index # 0
  <2>1. Goto(w, "markFailed")
    BY <1>1 DEF HandlerOf
  <2>2. QED
    BY <2>1, BusyGoto
<1>2. CASE work[w].index = 0
  <2>1. Goto(w, "record")
    BY <1>2 DEF HandlerOf
  <2>2. QED
    BY <1>2, <2>1, BusyLate
<1>3. QED
  BY <1>1, <1>2

\* ... until a copy is put back, or the failure cannot be put on record.
LEMMA BusyWalk ==
    ASSUME TypeOK, Placed, NEW w \in Workers, Walking(w), Busy(w),
           NEW v \in Docs, Doc(w) = v, contract[v] # "deleted"
    PROVE  Carried(v)'
<1>1. ~At(w, "idle")
  BY DEF Busy, At, InTry
<1>2. CASE Load(w)
  <2>1. Goto(w, "require")
    BY <1>2 DEF Load
  <2>2. HasWorker(v)'
    BY <1>1, <2>1, BusyGoto DEF InTry
  <2>3. QED
    BY <2>2 DEF Carried, HasWorker
<1>3. CASE Require(w)
  <2>1. Goto(w, "create")
    BY <1>3 DEF Require
  <2>2. HasWorker(v)'
    BY <1>1, <2>1, BusyGoto DEF InTry
  <2>3. QED
    BY <2>2 DEF Carried, HasWorker
<1>4. CASE Embed(w)
  <2>1. work' = [work EXCEPT ![w].round = 2, ![w].pc = "create"]
    BY <1>4 DEF Embed
  <2>2. work'[w].pc = "create" /\ work'[w].doc = v
    BY <2>1 DEF TypeOK, Work, Doc
  <2>3. QED
    BY <2>2 DEF Carried, Busy, Doc, InTry
<1>5. CASE EmbedFails(w) \/ (ReplaceChunks(w) /\ index[Doc(w)].id # work[w].target)
  <2>1. Goto(w, HandlerOf(w))
    BY <1>5 DEF EmbedFails, ReplaceChunks
  <2>2. HasWorker(v)'
    BY <1>1, <2>1, BusyHandler
  <2>3. QED
    BY <2>2 DEF Carried, HasWorker
<1>6. CASE Record(w)
  <2>1. Goto(w, "retry") /\ work[w].index = 0
    BY <1>6 DEF Record, Busy, At, InTry
  <2>2. HasWorker(v)'
    BY <1>1, <2>1, BusyLate
  <2>3. QED
    BY <2>2 DEF Carried, HasWorker
<1>7. CASE Retry(w)
  <2>1. work[w].index = 0 /\ "outage" \in mishaps /\ PutBack(w) /\ mishaps' = mishaps
    BY <1>7 DEF Retry, Busy, At, InTry, Placed
  <2>2. v \in dead' \/ \E a \in Attempts : delayed'[<<v, a>>] > 0
    BY <1>1, <2>1, PutBackCopies
  <2>3. Unrecorded(v)' \/ HasCopy(v)'
    BY <2>1, <2>2 DEF Unrecorded, HasCopy
  <2>4. QED
    BY <2>3 DEF Carried, Excused, HasCopy
<1>8. CASE RetryFails(w)
  <2>1. /\ work[w].index = 0 /\ "outage" \in mishaps /\ "disconnect" \in mishaps
        /\ mishaps' = mishaps
    BY <1>8 DEF RetryFails, Busy, At, InTry, Placed
  <2>2. Abandoned'
    BY <2>1 DEF Abandoned
  <2>3. QED
    BY <2>2 DEF Carried, Excused
<1>9. CASE ConnectFails(w)
  <2>1. Goto(w, "retry") /\ work[w].index = 0
    BY <1>9 DEF ConnectFails, Placed
  <2>2. HasWorker(v)'
    BY <1>1, <2>1, BusyLate
  <2>3. QED
    BY <2>2 DEF Carried, HasWorker
<1>10. ASSUME Escape(w), NEW kind \in {"crash", "outage"}, Fault(kind)
       PROVE  Carried(v)'
  <2>1. mishaps \subseteq mishaps' /\ mishaps' \cap {"crash", "outage"} # {}
    BY <1>10, FaultType
  <2>2. HasCopy(v)' \/ Abandoned'
    BY <1>1, <1>10, <2>1, EscapeCopies
  <2>3. QED
    BY <2>2 DEF Carried, HasCopy, Excused
<1>11. CASE Outage(w)
  <2>1. CASE Goto(w, HandlerOf(w))
    <3>1. HasWorker(v)'
      BY <1>1, <2>1, BusyHandler
    <3>2. QED
      BY <3>1 DEF Carried, HasWorker
  <2>2. QED
    BY <1>10, <1>11, <2>1 DEF Outage
<1>12. CASE LateOutage(w) \/ Crash(w)
  BY <1>10, <1>12 DEF LateOutage, Crash
<1>13. CASE RetryUnconfirmed(w)
  <2>1. work[w].up /\ Requeue(w)
    BY <1>13 DEF RetryUnconfirmed, Escape
  <2>2. ready'[Copy(w)] > 0
    BY <1>1, <2>1, RequeueCopies
  <2>3. work[w].attempt \in Attempts /\ Copy(w) = <<v, work[w].attempt>>
    BY <1>1 DEF TypeOK, At, Copy, Doc
  <2>4. \E a \in Attempts : ready'[<<v, a>>] > 0
    BY <2>2, <2>3
  <2>5. QED
    BY <2>4 DEF Carried
<1>14. CASE Disconnect(w)
  <2>1. work' = [work EXCEPT ![w].up = FALSE]
    BY <1>14 DEF Disconnect
  <2>2. work'[w].pc = work[w].pc /\ work'[w].index = work[w].index /\ work'[w].doc = v
    BY <2>1 DEF TypeOK, Work, Doc
  <2>3. QED
    BY <2>2 DEF Carried, Busy, Doc
<1>15. ~Clear(w) /\ ~Ack(w) /\ \A d \in Docs, a \in Attempts : ~Deliver(w, d, a)
  BY DEF Clear, Ack, Deliver, At, Busy, InTry
<1>16. CASE IndexFault(w)
  BY <1>9, <1>11, <1>12, <1>13, <1>14, <1>16 DEF IndexFault
<1>17. CASE Load(w) \/ Require(w) \/ Embed(w) \/ EmbedFails(w)
  BY <1>2, <1>3, <1>4, <1>5, <1>17
<1>18. CASE Record(w) \/ Retry(w) \/ RetryFails(w)
  BY <1>6, <1>7, <1>8, <1>18
<1>19. QED
  BY <1>5, <1>15, <1>16, <1>17, <1>18 DEF Walking

\* What is carried stays so through a walk.
LEMMA WalkCarried ==
    ASSUME TypeOK, Placed, NEW w \in Workers, Walking(w),
           NEW v \in Docs, contract[v] # "deleted", Carried(v)
    PROVE  Carried(v)'
<1>1. /\ index' = index /\ commands' = commands /\ mishaps \subseteq mishaps' /\ dead \subseteq dead'
  BY WalkingEffect DEF WalkFrame, knowledge, others
<1>2. CASE Excused(v) \/ Settled(v)
  <2>1. commands \in Nat
    BY IndexingAssumption DEF TypeOK
  <2>2. QED
    BY <1>1, <1>2, <2>1, ExcusedStays DEF Carried
<1>3. CASE HasCopy(v)
  <2>1. HasCopy(v)' \/ HasWorker(v)'
    BY <1>3, WalkCopies
  <2>2. QED
    BY <2>1 DEF Carried, HasCopy, HasWorker
<1>4. CASE HasWorker(v)
  <2>1. PICK o \in Workers : Doc(o) = v /\ Busy(o)
    BY <1>4 DEF HasWorker
  <2>2. CASE o = w
    BY <2>1, <2>2, BusyWalk
  <2>3. CASE o # w
    <3>1. PICK new \in Work : Moved(w, new)
      BY WalkingEffect DEF Walks
    <3>2. work'[o] = work[o]
      BY <2>3, <3>1 DEF Moved, TypeOK
    <3>3. QED
      BY <2>1, <3>2 DEF Carried, Busy, Doc
  <2>4. QED
    BY <2>2, <2>3
<1>5. QED
  BY <1>2, <1>3, <1>4, CarriedCases

\* The document of a worker that writes its row has the worker or is settled.
LEMMA WriterCarries ==
    ASSUME RowsInv, NEW w \in Workers, Writing(w), Doc(w) \in Docs,
           NEW v \in Docs, Doc(w) = v, contract[v] # "deleted"
    PROVE  Carried(v)'
<1>1. /\ TypeOK /\ Placed
      /\ work[w].pc # "idle" => Known(w, work[w].target) /\ Known(w, work[w].index)
  BY DEF RowsInv, KnowsRows, At
<1>2. CASE Create(w)
  <2>1. work'[w].pc = "mark" /\ work'[w].doc = v
    <3>1. PICK t, i : work' = [work EXCEPT ![w].pc = "mark", ![w].target = t, ![w].index = i]
      BY <1>2 DEF Create
    <3>2. QED
      BY <1>1, <3>1 DEF TypeOK, Work, Doc
  <2>2. QED
    BY <2>1 DEF Carried, Busy, Doc, InTry
<1>3. CASE MarkIndexing(w)
  <2>1. PICK pc \in {"embed", "chunks"} : Goto(w, pc)
    BY <1>3 DEF MarkIndexing
  <2>2. ~At(w, "idle")
    BY <1>3 DEF MarkIndexing, At
  <2>3. HasWorker(v)'
    BY <1>1, <2>1, <2>2, BusyGoto DEF InTry
  <2>4. QED
    BY <2>3 DEF Carried, HasWorker
<1>4. CASE ReplaceChunks(w) /\ index[Doc(w)].id = work[w].target
  <2>1. Goto(w, "ready") /\ ~At(w, "idle")
    BY <1>4 DEF ReplaceChunks, At
  <2>2. HasWorker(v)'
    BY <1>1, <2>1, BusyGoto DEF InTry
  <2>3. QED
    BY <2>2 DEF Carried, HasWorker
<1>5. CASE MarkReady(w)
  <2>1. work[w].target = index[v].id
    BY <1>1, <1>5 DEF MarkReady, Placed, Known, At
  <2>2. SetStatus(v, work[w].target, "ready")
    BY <1>5 DEF MarkReady
  <2>3. index'[v].status = "ready"
    BY <1>1, <2>1, <2>2, StatusEffect
  <2>4. QED
    BY <2>3 DEF Carried, Settled
<1>6. CASE MarkFailed(w)
  <2>1. work[w].index = index[v].id
    BY <1>1, <1>6 DEF MarkFailed, Placed, Known, At
  <2>2. SetStatus(v, work[w].index, "failed")
    BY <1>6 DEF MarkFailed
  <2>3. index'[v].status = "failed"
    BY <1>1, <2>1, <2>2, StatusEffect
  <2>4. QED
    BY <2>3 DEF Carried, Settled
<1>7. QED
  BY <1>2, <1>3, <1>4, <1>5, <1>6 DEF Writing

\* Only the row of the worker's own document is written.
LEMMA WritingFrame ==
    ASSUME RowsInv, NEW w \in Workers, Writing(w)
    PROVE  /\ Doc(w) \in Docs /\ UNCHANGED <<contract, outbox, broker, send, others, mishaps>>
           /\ \A d \in Docs \ {Doc(w)} : index'[d] = index[d]
           /\ \A o \in Workers \ {w} : work'[o] = work[o]
<1>1. TypeOK
  BY DEF RowsInv
<1>2. Doc(w) \in Docs
  BY <1>1 DEF Writing, Create, MarkIndexing, MarkReady, MarkFailed, ReplaceChunks, TypeOK, At, Doc
<1>3. UNCHANGED <<contract, outbox, broker, send, others, mishaps>>
  BY DEF Writing, Create, MarkIndexing, MarkReady, MarkFailed, ReplaceChunks
<1>4. \A d \in Docs \ {Doc(w)} : index'[d] = index[d]
  <2>1. ASSUME NEW id, NEW s, SetStatus(Doc(w), id, s)
        PROVE  \A d \in Docs \ {Doc(w)} : index'[d] = index[d]
    BY <1>1, <1>2, <2>1 DEF SetStatus, TypeOK
  <2>2. CASE Create(w)
    BY <1>1, <1>2, <2>2 DEF Create, TypeOK
  <2>3. CASE ~Create(w)
    BY <2>1, <2>3 DEF Writing, MarkIndexing, MarkReady, MarkFailed, ReplaceChunks
  <2>4. QED
    BY <2>2, <2>3
<1>5. \A o \in Workers \ {w} : work'[o] = work[o]
  <2>1. CASE Create(w)
    BY <1>1, <2>1 DEF Create, TypeOK
  <2>2. CASE ~Create(w)
    <3>1. PICK pc : Goto(w, pc)
      BY <2>2 DEF Writing, MarkIndexing, MarkReady, MarkFailed, ReplaceChunks
    <3>2. QED
      BY <1>1, <3>1 DEF Goto, TypeOK
  <2>3. QED
    BY <2>1, <2>2
<1>6. QED
  BY <1>2, <1>3, <1>4, <1>5

LEMMA WritingCarried ==
    ASSUME RowsInv, NEW w \in Workers, Writing(w),
           NEW v \in Docs, contract[v] # "deleted", Carried(v)
    PROVE  Carried(v)'
<1>1. /\ Doc(w) \in Docs /\ UNCHANGED <<contract, outbox, broker, send, others, mishaps>>
      /\ \A d \in Docs \ {Doc(w)} : index'[d] = index[d]
      /\ \A o \in Workers \ {w} : work'[o] = work[o]
  BY WritingFrame
<1>2. CASE Doc(w) = v
  BY <1>1, <1>2, WriterCarries
<1>3. CASE Doc(w) # v
  <2>1. commands \in Nat
    BY IndexingAssumption DEF RowsInv, TypeOK
  <2>2. CASE Excused(v) \/ Settled(v)
    BY <1>1, <1>3, <2>1, <2>2, ExcusedStays DEF Carried, broker, others
  <2>3. CASE HasCopy(v)
    BY <1>1, <2>3 DEF Carried, HasCopy, broker
  <2>4. CASE HasWorker(v)
    BY <1>1, <1>3, <2>4 DEF Carried, HasWorker, Busy, Doc
  <2>5. QED
    BY <2>2, <2>3, <2>4, CarriedCases
<1>4. QED
  BY <1>2, <1>3

\* Senders only add copies.
LEMMA SenderCarried ==
    ASSUME RowsInv, NEW s \in Senders, SenderStep(s), NEW v \in Docs, Carried(v)
    PROVE  Carried(v)'
<1>1. /\ TypeOK /\ commands \in Nat
      /\ UNCHANGED <<index, work, commands>> /\ mishaps \subseteq mishaps'
  BY SenderType, IndexingAssumption DEF RowsInv, TypeOK, knowledge, others
<1>2. /\ dead' = dead /\ delayed' = delayed
      /\ \/ ready' = ready
         \/ send[s].pc # "idle" /\ ready' = [ready EXCEPT ![<<send[s].doc, 1>>] = @ + 1]
  BY DEF SenderStep, Dispatch, Claim, Publish, PublishFails, Mark, Unmark, PublishUnconfirmed,
         SenderCrash, Slow, broker
<1>3. ASSUME HasCopy(v) PROVE HasCopy(v)'
  <2>1. CASE ready' = ready
    BY <1>2, <1>3, <2>1 DEF HasCopy
  <2>2. CASE send[s].pc # "idle" /\ ready' = [ready EXCEPT ![<<send[s].doc, 1>>] = @ + 1]
    <3>1. <<send[s].doc, 1>> \in Copies /\ ready \in [Copies -> Nat]
      BY <1>1, <2>2, IndexingAssumption DEF TypeOK, Copies, Attempts
    <3>2. \A c \in Copies : ready[c] > 0 => ready'[c] > 0
      BY <2>2, <3>1, MoreCopies
    <3>3. \A a \in Attempts : <<v, a>> \in Copies
      BY DEF Copies
    <3>4. QED
      BY <1>2, <1>3, <3>2, <3>3 DEF HasCopy
  <2>3. QED
    BY <1>2, <2>1, <2>2
<1>4. QED
  BY <1>1, <1>2, <1>3, CarriedFrame

LEMMA TimeCarried ==
    ASSUME RowsInv, NEW d \in Docs, TimeStep(d), NEW v \in Docs, Carried(v)
    PROVE  Carried(v)'
<1>1. TypeOK /\ commands \in Nat /\ UNCHANGED <<index, work, commands, mishaps>>
  BY TimeType, IndexingAssumption DEF RowsInv, TypeOK, knowledge, others
<1>2. dead' = dead
  BY DEF TimeStep, Lapse, ComesDue, RetryDue, broker
<1>3. ASSUME HasCopy(v) PROVE HasCopy(v)'
  <2>1. CASE Lapse(d) \/ ComesDue(d)
    BY <1>3, <2>1 DEF HasCopy, Lapse, ComesDue, broker
  <2>2. ASSUME NEW a \in Attempts, RetryDue(d, a) PROVE HasCopy(v)'
    <3>1. PICK b \in Attempts : ready[<<v, b>>] > 0 \/ delayed[<<v, b>>] > 0
      BY <1>3 DEF HasCopy
    <3>2. /\ <<d, a>> \in Copies /\ <<v, b>> \in Copies
          /\ ready \in [Copies -> Nat] /\ delayed \in [Copies -> Nat]
      BY <1>1 DEF TypeOK, Copies
    <3>3. /\ ready' = [ready EXCEPT ![<<d, a>>] = ready[<<d, a>>] + 1]
          /\ delayed' = [delayed EXCEPT ![<<d, a>>] = @ - 1]
      BY <2>2 DEF RetryDue
    <3>4. ready'[<<d, a>>] > 0 /\ (ready[<<v, b>>] > 0 => ready'[<<v, b>>] > 0)
      BY <3>2, <3>3, MoreCopies
    <3>5. CASE <<d, a>> = <<v, b>>
      BY <3>4, <3>5 DEF HasCopy
    <3>6. CASE <<d, a>> # <<v, b>>
      <4>1. delayed'[<<v, b>>] = delayed[<<v, b>>]
        BY <3>2, <3>3, <3>6
      <4>2. QED
        BY <3>1, <3>4, <4>1 DEF HasCopy
    <3>7. QED
      BY <3>5, <3>6
  <2>3. QED
    BY <2>1, <2>2 DEF TimeStep
<1>4. QED
  BY <1>1, <1>2, <1>3, CarriedFrame

\* A command takes a failure off the record only by putting it down as reopened.
LEMMA OperatorCarried ==
    ASSUME RowsInv, Commanded, OperatorStep, NEW v \in Docs, Carried(v)
    PROVE  Carried(v)'
<1>1. /\ TypeOK /\ commands \in Nat /\ commands \in 0..MaxCommands
      /\ UNCHANGED <<broker, work>> /\ mishaps \subseteq mishaps'
  BY OperatorType, IndexingAssumption DEF RowsInv, TypeOK
<1>2. commands' \in Nat /\ commands' <= commands
  BY <1>1 DEF OperatorStep, Backfill, RetryFailed, Command, Operate, Reset, EnqueueIntent,
              CommandEnds, Interrupt
<1>3. CASE index'[v].status = index[v].status
  <2>1. dead' = dead /\ (HasCopy(v) => HasCopy(v)')
    BY <1>1 DEF HasCopy, broker
  <2>2. QED
    BY <1>1, <1>2, <1>3, <2>1, CarriedFrame
<1>4. CASE index'[v].status # index[v].status
  <2>1. Reset
    BY <1>4 DEF OperatorStep, Backfill, RetryFailed, Command, Operate, EnqueueIntent, CommandEnds,
                Interrupt, knowledge
  <2>2. index'[v].status = "pending"
    BY <1>1, <1>4, <2>1, ResetEffect
  <2>3. commands' < MaxCommands
    BY <2>1 DEF Commanded, Reset
  <2>4. QED
    BY <2>2, <2>3 DEF Carried, Excused, Reopened
<1>5. QED
  BY <1>3, <1>4

LEMMA CarriedStays ==
    ASSUME CarriedInv, [Next]_vars, NEW v \in Docs, contract'[v] # "deleted", Carried(v)
    PROVE  Carried(v)'
<1>1. RowsInv /\ TypeOK /\ Placed /\ Commanded /\ commands \in Nat
  BY IndexingAssumption DEF CarriedInv, RowsInv, TypeOK
<1>2. ASSUME NEW d \in Docs, Review(d) \/ Delete(d)
      PROVE  Carried(v)'
  <2>1. UNCHANGED <<broker, work, mishaps, commands>>
    BY <1>2 DEF Review, Delete, others
  <2>2. index'[v] = index[v]
    BY <1>1, <1>2 DEF Review, Delete, TypeOK, knowledge
  <2>3. dead' = dead /\ (HasCopy(v) => HasCopy(v)')
    BY <2>1 DEF HasCopy, broker
  <2>4. QED
    BY <1>1, <2>1, <2>2, <2>3, CarriedFrame
<1>3. ASSUME NEW d \in Docs, TimeStep(d)
      PROVE  Carried(v)'
  BY <1>1, <1>3, TimeCarried
<1>4. ASSUME NEW s \in Senders, SenderStep(s)
      PROVE  Carried(v)'
  BY <1>1, <1>4, SenderCarried
<1>5. ASSUME NEW w \in Workers, Walking(w)
      PROVE  Carried(v)'
  <2>1. contract' = contract
    BY <1>1, <1>5, WalkingEffect DEF WalkFrame
  <2>2. QED
    BY <1>1, <1>5, <2>1, WalkCarried
<1>6. ASSUME NEW w \in Workers, Writing(w)
      PROVE  Carried(v)'
  <2>1. contract' = contract
    BY <1>1, <1>6, WritingFrame
  <2>2. QED
    BY <1>1, <1>6, <2>1, WritingCarried
<1>7. CASE OperatorStep
  BY <1>1, <1>7, OperatorCarried
<1>8. CASE UNCHANGED vars
  <2>1. HasCopy(v) => HasCopy(v)'
    BY <1>8 DEF HasCopy, vars
  <2>2. QED
    BY <1>1, <1>8, <2>1, CarriedFrame DEF vars
<1>9. QED
  BY <1>2, <1>3, <1>4, <1>5, <1>6, <1>7, <1>8, NextCases

-----------------------------------------------------------------------------
(* Nothing is forgotten *)

LEMMA CommandedStep ==
    ASSUME RowsInv, Commanded, [Next]_vars
    PROVE  Commanded'
<1>1. TypeOK /\ commands \in 0..MaxCommands
  BY DEF RowsInv, TypeOK
<1>2. CASE OperatorStep
  <2>1. ASSUME NEW pc, NEW docs, Command(pc, docs)
        PROVE  Commanded'
    BY <1>1, <2>1, IndexingAssumption DEF Command, Commanded
  <2>2. CASE Backfill \/ RetryFailed
    BY <2>1, <2>2 DEF Backfill, RetryFailed
  <2>3. CASE Operate \/ Interrupt
    <3>1. CASE \E v \in Docs : EnqueueIntent(v)
      BY <1>1, <3>1 DEF EnqueueIntent, Commanded, TypeOK
    <3>2. CASE Reset \/ CommandEnds \/ Interrupt
      <4>1. operator \in [pc: {"idle", "reset", "force"}, docs: SUBSET Docs]
        BY <1>1 DEF TypeOK
      <4>2. operator'.pc # "reset"
        BY <3>2, <4>1 DEF Reset, CommandEnds, Interrupt
      <4>3. QED
        BY <4>2 DEF Commanded
    <3>3. QED
      BY <2>3, <3>1, <3>2 DEF Operate
  <2>4. QED
    BY <1>2, <2>2, <2>3 DEF OperatorStep
<1>3. CASE UNCHANGED others
  BY <1>3 DEF Commanded, others
<1>4. ASSUME NEW v \in Docs, Review(v) \/ Delete(v) \/ TimeStep(v)
      PROVE  UNCHANGED others
  BY <1>1, <1>4, ContractType, TimeType
<1>5. ASSUME NEW s \in Senders, SenderStep(s)
      PROVE  UNCHANGED others
  BY <1>1, <1>5, SenderType
<1>6. ASSUME NEW w \in Workers, Walking(w) \/ Writing(w)
      PROVE  UNCHANGED others
  <2>1. Placed
    BY DEF RowsInv
  <2>2. QED
    BY <1>1, <1>6, <2>1, WalkingEffect, WritingFrame DEF WalkFrame
<1>7. CASE UNCHANGED vars
  BY <1>3, <1>7 DEF vars, others
<1>8. QED
  BY <1>2, <1>3, <1>4, <1>5, <1>6, <1>7, NextCases

\* A deleted contract stays deleted.
LEMMA DeletedStays ==
    ASSUME RowsInv, [Next]_vars, NEW v \in Docs, contract[v] = "deleted"
    PROVE  contract'[v] = "deleted"
<1>1. TypeOK /\ Placed
  BY DEF RowsInv
<1>2. ASSUME NEW d \in Docs, Review(d) \/ Delete(d)
      PROVE  contract'[v] = "deleted"
  BY <1>1, <1>2 DEF Review, Delete, TypeOK
<1>3. ASSUME NEW d \in Docs, TimeStep(d)
      PROVE  contract' = contract
  BY <1>1, <1>3, TimeType
<1>4. ASSUME NEW s \in Senders, SenderStep(s)
      PROVE  contract' = contract
  BY <1>1, <1>4, SenderType
<1>5. ASSUME NEW w \in Workers, Walking(w) \/ Writing(w)
      PROVE  contract' = contract
  BY <1>1, <1>5, WalkingEffect, WritingFrame DEF WalkFrame
<1>6. CASE OperatorStep
  BY <1>1, <1>6, OperatorType
<1>7. CASE UNCHANGED vars
  BY <1>7 DEF vars
<1>8. QED
  BY <1>2, <1>3, <1>4, <1>5, <1>6, <1>7, NextCases

\* What becomes of a sender: it has just published, or was about to mark before.
LEMMA SenderMoves ==
    ASSUME RowsInv, [Next]_vars, NEW s \in Senders, send'[s].pc = "mark"
    PROVE  \/ send[s].pc = "mark" /\ send'[s].doc = send[s].doc
           \/ /\ send'[s].doc \in Docs /\ send'[s].doc = send[s].doc
              /\ ready' = [ready EXCEPT ![<<send[s].doc, 1>>] = @ + 1]
<1>1. TypeOK /\ Placed
  BY DEF RowsInv
<1>2. CASE send' = send
  BY <1>2
<1>3. ASSUME NEW o \in Senders, SenderStep(o)
      PROVE  \/ send[s].pc = "mark" /\ send'[s].doc = send[s].doc
             \/ /\ send'[s].doc \in Docs /\ send'[s].doc = send[s].doc
                /\ ready' = [ready EXCEPT ![<<send[s].doc, 1>>] = @ + 1]
  <2>1. /\ send \in [Senders -> Send] /\ send[s] \in Send
        /\ send[s].pc = "publish" => send[s].doc \in Docs
    BY <1>1 DEF TypeOK
  <2>2. CASE o # s
    <3>1. send'[s] = send[s]
      BY <1>3, <2>1, <2>2 DEF SenderStep, Dispatch, Claim, Publish, PublishFails, Mark, Unmark,
                              PublishUnconfirmed, SenderCrash, Slow
    <3>2. QED
      BY <3>1
  <2>3. CASE o = s /\ Publish(s)
    <3>1. send[s].pc = "publish" /\ send' = [send EXCEPT ![s].pc = "mark"]
          /\ ready' = [ready EXCEPT ![<<send[s].doc, 1>>] = @ + 1]
      BY <2>3 DEF Publish
    <3>2. send'[s].doc = send[s].doc
      BY <2>1, <3>1 DEF Send
    <3>3. QED
      BY <2>1, <3>1, <3>2
  <2>4. CASE o = s /\ Slow(s)
    BY <2>1, <2>4 DEF Slow, Send
  <2>5. CASE o = s /\ \E v \in Docs : Claim(s, v)
    BY <2>1, <2>5 DEF Claim
  <2>6. CASE o = s /\ (PublishFails(s) \/ PublishUnconfirmed(s))
    <3>1. send' = [send EXCEPT ![s].pc = "unmark"]
      BY <2>6 DEF PublishFails, PublishUnconfirmed
    <3>2. QED
      BY <2>1, <3>1 DEF Send
  <2>7. CASE o = s /\ (Mark(s) \/ Unmark(s) \/ SenderCrash(s))
    BY <2>1, <2>7, IdleFields DEF Mark, Unmark, SenderCrash
  <2>8. QED
    BY <1>3, <2>2, <2>3, <2>4, <2>5, <2>6, <2>7 DEF SenderStep, Dispatch
<1>4. ASSUME NEW v \in Docs, Review(v) \/ Delete(v) \/ TimeStep(v)
      PROVE  send' = send
  BY <1>1, <1>4, ContractType, TimeType
<1>5. ASSUME NEW w \in Workers, Walking(w) \/ Writing(w)
      PROVE  send' = send
  BY <1>1, <1>5, WalkingEffect, WritingFrame DEF WalkFrame
<1>6. CASE OperatorStep
  BY <1>1, <1>2, <1>6, OperatorType
<1>7. CASE UNCHANGED vars
  BY <1>2, <1>7 DEF vars
<1>8. QED
  BY <1>2, <1>3, <1>4, <1>5, <1>6, <1>7, NextCases

LEMMA PublishedStep ==
    ASSUME CarriedInv, [Next]_vars
    PROVE  PublishedIsCarried'
<1>1. RowsInv /\ TypeOK /\ PublishedIsCarried
  BY DEF CarriedInv, RowsInv
<1>2. ASSUME NEW s \in Senders, send'[s].pc = "mark", NEW v, v = send'[s].doc
      PROVE  contract'[v] = "deleted" \/ Carried(v)'
  <2>1. CASE send[s].pc = "mark" /\ v = send[s].doc
    <3>1. v \in Docs
      BY <1>1, <2>1 DEF TypeOK
    <3>2. contract[v] = "deleted" \/ Carried(v)
      BY <1>1, <2>1 DEF PublishedIsCarried
    <3>3. QED
      BY <1>1, <3>1, <3>2, DeletedStays, CarriedStays
  <2>2. CASE v \in Docs /\ v = send[s].doc /\ ready' = [ready EXCEPT ![<<send[s].doc, 1>>] = @ + 1]
    <3>1. <<v, 1>> \in Copies /\ ready \in [Copies -> Nat] /\ 1 \in Attempts
      BY <1>1, <2>2, IndexingAssumption DEF TypeOK, Copies, Attempts
    <3>2. ready'[<<v, 1>>] > 0
      BY <2>2, <3>1, MoreCopies
    <3>3. QED
      BY <3>1, <3>2 DEF Carried
  <2>3. QED
    BY <1>1, <1>2, <2>1, <2>2, SenderMoves
<1>3. QED
  BY <1>2 DEF PublishedIsCarried

\* Only a sender that marks takes an intent off the outbox.
Due(v) == outbox[v].status \in {"pending", "publishing", "failed"}
SameIntent(v) == contract'[v] = contract[v] /\ outbox'[v].status = outbox[v].status
Marked(v) == contract'[v] = contract[v] /\ \E s \in Senders : send[s].pc = "mark" /\ send[s].doc = v

LEMMA SenderIntent ==
    ASSUME TypeOK, NEW s \in Senders, SenderStep(s), NEW v \in Docs
    PROVE  Due(v)' \/ SameIntent(v) \/ Marked(v)
<1>1. contract' = contract /\ outbox \in [Docs -> Row] /\ outbox[v] \in Row
  BY SenderType DEF TypeOK
<1>2. CASE outbox' = outbox
  BY <1>1, <1>2 DEF SameIntent
<1>3. ASSUME NEW d \in Docs, Claim(s, d)
      PROVE  Due(v)' \/ SameIntent(v)
  <2>1. CASE d = v
    <3>1. PICK n : outbox' = [outbox EXCEPT ![v].status = "publishing", ![v].attempts = n, ![v].lapsed = FALSE]
      BY <1>3, <2>1 DEF Claim
    <3>2. outbox'[v].status = "publishing"
      BY <1>1, <3>1 DEF Row
    <3>3. QED
      BY <3>2 DEF Due
  <2>2. CASE d # v
    BY <1>1, <1>3, <2>2 DEF Claim, SameIntent
  <2>3. QED
    BY <2>1, <2>2
<1>4. CASE Mark(s)
  <2>1. CASE send[s].doc = v
    BY <1>1, <1>4, <2>1 DEF Mark, Marked
  <2>2. CASE send[s].doc # v
    <3>1. outbox'[v] = outbox[v]
      BY <1>1, <1>4, <2>2 DEF Mark
    <3>2. QED
      BY <1>1, <3>1 DEF SameIntent
  <2>3. QED
    BY <2>1, <2>2
<1>5. CASE Unmark(s)
  <2>1. PICK s2 \in {"failed", "pending"} :
           outbox' = IF outbox[send[s].doc].status = "publishing"
                     THEN [outbox EXCEPT ![send[s].doc].status = s2, ![send[s].doc].due = FALSE]
                     ELSE outbox
    BY <1>5 DEF Unmark
  <2>2. CASE send[s].doc = v /\ outbox[v].status = "publishing"
    <3>1. outbox' = [outbox EXCEPT ![v].status = s2, ![v].due = FALSE]
      BY <2>1, <2>2
    <3>2. outbox'[v].status = s2
      BY <1>1, <3>1 DEF Row
    <3>3. QED
      BY <3>2 DEF Due
  <2>3. CASE ~(send[s].doc = v /\ outbox[v].status = "publishing")
    <3>1. outbox'[v] = outbox[v]
      BY <1>1, <2>1, <2>3
    <3>2. QED
      BY <1>1, <3>1 DEF SameIntent
  <2>4. QED
    BY <2>2, <2>3
<1>6. CASE Publish(s) \/ PublishFails(s) \/ PublishUnconfirmed(s) \/ SenderCrash(s) \/ Slow(s)
  BY <1>2, <1>6 DEF Publish, PublishFails, PublishUnconfirmed, SenderCrash, Slow
<1>7. QED
  BY <1>3, <1>4, <1>5, <1>6 DEF SenderStep, Dispatch

LEMMA WorkerIntent ==
    ASSUME RowsInv, NEW w \in Workers, Walking(w) \/ Writing(w), NEW v \in Docs
    PROVE  Due(v)' \/ SameIntent(v)
<1>1. TypeOK /\ Placed /\ outbox \in [Docs -> Row]
  BY DEF RowsInv, TypeOK
<1>2. contract' = contract
  BY <1>1, WalkingEffect, WritingFrame DEF WalkFrame
<1>3. CASE outbox' = outbox
  BY <1>2, <1>3 DEF SameIntent
<1>4. CASE Record(w)
  <2>1. \/ outbox' = outbox
        \/ outbox' = [outbox EXCEPT ![Doc(w)].status = "failed"]
    BY <1>4 DEF Record
  <2>2. CASE outbox' = [outbox EXCEPT ![Doc(w)].status = "failed"]
    <3>1. outbox[v] \in Row /\ outbox[Doc(w)] \in Row
      BY <1>1, <1>4 DEF Record, TypeOK, At, Doc
    <3>2. outbox'[v].status = IF Doc(w) = v THEN "failed" ELSE outbox[v].status
      BY <1>1, <2>2, <3>1 DEF Row
    <3>3. QED
      BY <1>2, <3>2 DEF Due, SameIntent
  <2>3. QED
    BY <1>3, <2>1, <2>2
<1>5. CASE Writing(w)
  BY <1>3, <1>5, WritingFrame
<1>6. CASE IndexFault(w)
  BY <1>3, <1>6 DEF IndexFault, ConnectFails, Outage, LateOutage, RetryUnconfirmed, Crash, Disconnect
<1>7. CASE \/ \E d \in Docs, a \in Attempts : Deliver(w, d, a)
           \/ Load(w) \/ Require(w) \/ Embed(w) \/ EmbedFails(w) \/ Clear(w) \/ Ack(w)
           \/ Retry(w) \/ RetryFails(w) \/ ReplaceChunks(w)
  BY <1>3, <1>7 DEF Deliver, Load, Require, Embed, EmbedFails, Clear, Ack, Retry, RetryFails,
                    ReplaceChunks
<1>8. QED
  BY <1>4, <1>5, <1>6, <1>7 DEF Walking

LEMMA IntentMoves ==
    ASSUME RowsInv, [Next]_vars, NEW v \in Docs
    PROVE  contract'[v] = "deleted" \/ Due(v)' \/ SameIntent(v) \/ Marked(v)
<1>1. TypeOK /\ Placed /\ outbox \in [Docs -> Row] /\ outbox[v] \in Row
  BY DEF RowsInv, TypeOK
<1>2. ASSUME NEW d \in Docs, Review(d) \/ Delete(d)
      PROVE  contract'[v] = "deleted" \/ Due(v)' \/ SameIntent(v)
  <2>1. CASE d = v
    BY <1>1, <1>2, <2>1, IdleFields DEF Review, Delete, TypeOK, Due
  <2>2. CASE d # v
    BY <1>1, <1>2, <2>2 DEF Review, Delete, TypeOK, SameIntent
  <2>3. QED
    BY <2>1, <2>2
<1>3. ASSUME NEW d \in Docs, TimeStep(d)
      PROVE  SameIntent(v)
  <2>1. contract' = contract
    BY <1>1, <1>3, TimeType
  <2>2. outbox'[v].status = outbox[v].status
    <3>1. CASE Lapse(d)
      <4>1. outbox' = [outbox EXCEPT ![d].lapsed = TRUE]
        BY <3>1 DEF Lapse
      <4>2. QED
        BY <1>1, <4>1 DEF Row
    <3>2. CASE ComesDue(d)
      <4>1. outbox' = [outbox EXCEPT ![d].due = TRUE]
        BY <3>2 DEF ComesDue
      <4>2. QED
        BY <1>1, <4>1 DEF Row
    <3>3. CASE \E a \in Attempts : RetryDue(d, a)
      BY <3>3 DEF RetryDue
    <3>4. QED
      BY <1>3, <3>1, <3>2, <3>3 DEF TimeStep
  <2>3. QED
    BY <2>1, <2>2 DEF SameIntent
<1>4. CASE OperatorStep
  <2>1. contract' = contract
    BY <1>1, <1>4, OperatorType
  <2>2. CASE outbox' = outbox
    BY <2>1, <2>2 DEF SameIntent
  <2>3. ASSUME NEW d \in Docs, EnqueueIntent(d)
        PROVE  Due(v)' \/ SameIntent(v)
    <3>1. outbox' = [outbox EXCEPT ![d] = NewRow]
      BY <2>3 DEF EnqueueIntent
    <3>2. CASE d = v
      BY <1>1, <3>1, <3>2, IdleFields DEF Due
    <3>3. CASE d # v
      BY <1>1, <2>1, <3>1, <3>3 DEF SameIntent
    <3>4. QED
      BY <3>2, <3>3
  <2>4. QED
    BY <1>4, <2>2, <2>3 DEF OperatorStep, Backfill, RetryFailed, Command, Operate, Reset,
                            CommandEnds, Interrupt
<1>5. CASE UNCHANGED vars
  BY <1>5 DEF SameIntent, vars
<1>6. QED
  BY <1>1, <1>2, <1>3, <1>4, <1>5, SenderIntent, WorkerIntent, NextCases

LEMMA ReviewedStep ==
    ASSUME CarriedInv, [Next]_vars
    PROVE  ReviewedIsCarried'
<1>1. RowsInv /\ PublishedIsCarried /\ ReviewedIsCarried
  BY DEF CarriedInv
<1>2. ASSUME NEW v \in Docs, contract'[v] = "reviewed"
      PROVE  Due(v)' \/ Carried(v)'
  <2>1. CASE SameIntent(v)
    <3>1. Due(v) \/ Carried(v)
      BY <1>1, <1>2, <2>1 DEF ReviewedIsCarried, Due, SameIntent
    <3>2. CASE Due(v)
      BY <2>1, <3>2 DEF Due, SameIntent
    <3>3. QED
      BY <1>2, <3>1, <3>2, CarriedStays
  <2>2. CASE Marked(v)
    <3>1. Carried(v)
      BY <1>1, <1>2, <2>2 DEF PublishedIsCarried, Marked
    <3>2. QED
      BY <1>2, <3>1, CarriedStays
  <2>3. QED
    BY <1>1, <1>2, <2>1, <2>2, IntentMoves
<1>3. QED
  BY <1>2 DEF ReviewedIsCarried, Due

LEMMA InitCarried == Init => CarriedInv
<1>1. SUFFICES ASSUME Init PROVE CarriedInv
  OBVIOUS
<1>2. RowsInv
  BY <1>1, InitRows
<1>3. Commanded /\ PublishedIsCarried /\ ReviewedIsCarried
  BY <1>1, IdleFields DEF Init, Commanded, PublishedIsCarried, ReviewedIsCarried
<1>4. QED
  BY <1>2, <1>3 DEF CarriedInv

\* What an index lacks is carried on by a copy or a worker, or excused.
THEOREM CarriedInvariant == Spec => []CarriedInv
<1>1. ASSUME CarriedInv, [Next]_vars
      PROVE  CarriedInv'
  <2>1. RowsInv' /\ Commanded'
    BY <1>1, RowsStep, CommandedStep DEF CarriedInv
  <2>2. PublishedIsCarried' /\ ReviewedIsCarried'
    BY <1>1, PublishedStep, ReviewedStep
  <2>3. QED
    BY <2>1, <2>2 DEF CarriedInv
<1>2. QED
  BY <1>1, InitCarried, PTL DEF Spec

\* A reviewed contract is indexed, on record as failed, or still being worked
\* on (finalize_contract_review, drain_once, _process_delivery).
THEOREM NothingForgottenHolds == Spec => []NothingForgotten
<1>1. ASSUME CarriedInv, NEW v \in Docs, Carried(v)
      PROVE  Excused(v) \/ Settled(v) \/ InFlight(v)
  <2>1. CASE HasCopy(v)
    <3>1. PICK a \in Attempts : ready[<<v, a>>] > 0 \/ delayed[<<v, a>>] > 0
      BY <2>1 DEF HasCopy
    <3>2. <<v, a>> \in Copies /\ ready \in [Copies -> Nat] /\ delayed \in [Copies -> Nat]
      BY <1>1 DEF CarriedInv, RowsInv, TypeOK, Copies
    <3>3. ready[<<v, a>>] \in Nat /\ delayed[<<v, a>>] \in Nat
      BY <3>2
    <3>4. ready[<<v, a>>] + delayed[<<v, a>>] > 0
      BY <3>1, <3>3
    <3>5. QED
      BY <3>4 DEF InFlight
  <2>2. CASE HasWorker(v)
    BY <2>2 DEF HasWorker, Busy, InTry, InFlight, At
  <2>3. QED
    BY <1>1, <2>1, <2>2, CarriedCases
<1>2. CarriedInv => NothingForgotten
  <2>1. ASSUME CarriedInv, NEW v \in Docs, contract[v] = "reviewed"
        PROVE  Due(v) \/ Excused(v) \/ Settled(v) \/ InFlight(v)
    BY <1>1, <2>1 DEF CarriedInv, ReviewedIsCarried, Due
  <2>2. QED
    BY <2>1 DEF NothingForgotten, Due, Excused, Settled
<1>3. QED
  BY <1>2, CarriedInvariant, PTL

=============================================================================
