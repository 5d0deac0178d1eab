---------------------------- MODULE Email_proofs ----------------------------
(***************************************************************************)
(* Theorems about Email, for every set of attachments, handlers and        *)
(* delivery workers, every selection of faults and every bound.            *)
(***************************************************************************)
EXTENDS Email, FiniteSetTheorems, SequenceTheorems, WellFoundedInduction, TLAPS

-----------------------------------------------------------------------------
(* The inductive invariants *)

USE DEF jobVars

Published(a) == \E n \in 1..MaxJobs : job[n] = a

\* What is queued for review has been published.
QueueIsPublished == \A n \in queue : job[n] # None

\* What a pass over the email still has to do, and what it has done.
Passes == QueueIsPublished /\
    \A h \in Handlers :
        /\ handler[h].todo \subseteq Reviewable
        /\ handler[h].pc \in {"idle", "claim", "fetch"} => handler[h].todo = {}
        /\ handler[h].pc = "receipt" => handler[h].todo = Reviewable
        /\ handler[h].pc = "publish" => /\ handler[h].todo # {}
                                       /\ \A a \in Reviewable : a \in handler[h].todo \/ Published(a)
        /\ handler[h].pc \in {"respond", "close"} => \A a \in Reviewable : Published(a)
        /\ handler[h].pc = "close" => told \/ Invalid = {}

EventInv == TypeOK /\ Passes /\ CompletedEventIsHandled /\ NothingLostQuietly

\* The receipt is the first message of the thread, and stays there.
Thread ==
    /\ Present(0) => row[0].position = 1
    /\ \A k \in 1..MaxJobs : Present(k) => Present(0) /\ row[k].position > 1
    /\ \A h \in Handlers : At(h, "publish") => Present(0)
    /\ queue # {} => Present(0)

\* A worker holds a review only once the receipt is settled.
ReceiptSettled ==
    \A w \in Senders : sender[w].pc # "idle" /\ sender[w].key # 0 =>
        row[0].status \in {"sent", "failed"}

\* A worker about to mark a row as sent was told that it was accepted.
MarkedIsDelivered == \A w \in Senders : sender[w].pc = "sent" => Accepted(sender[w].key)

\* The provider accepts a key once.
AcceptedOnce == \A i, j \in DOMAIN inbox : inbox[i] = inbox[j] => i = j

OutboxInv == Thread /\ ReceiptSettled /\ MarkedIsDelivered /\ SentIsDelivered /\ AcceptedOnce
             /\ ReceiptComesFirst

-----------------------------------------------------------------------------
(* Attachments and jobs *)

\* A pass takes the first of the attachments it has left.
LEMMA FirstExists ==
    ASSUME NEW todo \in SUBSET Files, todo # {}
    PROVE  (CHOOSE f \in todo : \A g \in todo : f <= g) \in todo
<1> DEFINE R == {ss \in Nat \X Nat : ss[1] < ss[2]}
<1>1. OpToRel(<, Nat) = R
  BY DEF OpToRel
<1>2. IsWellFoundedOn(R, Nat)
  BY <1>1, NatLessThanWellFounded
<1>3. todo \subseteq Nat
  BY EmailAssumption
<1>4. \E f \in todo : \A g \in todo : ~ (<<g, f>> \in R)
  <2> HIDE DEF R
  <2>1. QED
    BY <1>2, <1>3, WFMin
<1>5. PICK f \in todo : \A g \in todo : ~ (<<g, f>> \in R)
  BY <1>4
<1>6. \A g \in todo : g \in Nat /\ f \in Nat /\ ~ (g < f)
  BY <1>3, <1>5
<1>7. \A g \in todo : f <= g
  BY <1>6
<1>8. QED
  BY <1>7

LEMMA AddNat == \A n \in Nat : n + 1 \in Nat
OBVIOUS

-----------------------------------------------------------------------------
(* Handlers *)

Places == {"idle", "claim", "fetch", "receipt", "publish", "respond", "close", "fail"}

LEMMA AfterFilesIsNext == AfterFiles \in {"respond", "close"} /\ (AfterFiles = "close" => Invalid = {})
BY DEF AfterFiles

LEMMA QuietFields ==
    Quiet \in Handler /\ Quiet.pc = "idle" /\ Quiet.todo = {} /\ ~Quiet.heard
BY DEF Quiet, Handler

LEMMA GoesEffect ==
    ASSUME TypeOK, NEW h \in Handlers, NEW pc \in Places, Goes(h, pc)
    PROVE  /\ handler' \in [Handlers -> Handler] /\ handler'[h].pc = pc
           /\ handler'[h].todo = handler[h].todo
           /\ \A g \in Handlers \ {h} : handler'[g] = handler[g]
BY DEF Goes, TypeOK, Handler, Places

LEMMA ResetEffect ==
    ASSUME TypeOK, NEW h \in Handlers, handler' = [handler EXCEPT ![h] = Quiet]
    PROVE  /\ handler' \in [Handlers -> Handler] /\ handler'[h] = Quiet
           /\ \A g \in Handlers \ {h} : handler'[g] = handler[g]
BY QuietFields DEF TypeOK

\* Every operation of a pass that goes on or ends.
Moves(h) ==
    /\ handler' \in [Handlers -> Handler]
    /\ \A g \in Handlers \ {h} : handler'[g] = handler[g]

\* Publish with its job named.
LEMMA PublishEffect ==
    ASSUME TypeOK, Passes, NEW h \in Handlers, Publish(h)
    PROVE  \E a \in handler[h].todo, n \in 1..MaxJobs :
              /\ At(h, "publish")
              /\ job[n] = None /\ job' = [job EXCEPT ![n] = a] /\ queue' = queue \cup {n}
              /\ lost' \subseteq 1..MaxJobs /\ settled' \subseteq Files
              /\ Moves(h) /\ mishaps' \in 0..MaxFaults
              /\ \/ /\ handler'[h].todo = handler[h].todo \ {a}
                    /\ handler'[h].pc = IF handler'[h].todo = {} THEN AfterFiles ELSE "publish"
                 \/ /\ handler'[h].todo = handler[h].todo
                    /\ handler'[h].pc = "fail"
<1> DEFINE a == First(h)
           left == handler[h].todo \ {a}
<1>1. handler[h].todo \in SUBSET Files /\ handler[h].todo # {}
  BY DEF Publish, At, Passes, TypeOK, Handler
<1>2. a \in handler[h].todo
  BY <1>1, FirstExists DEF First
<1>3. PICK n \in 1..MaxJobs :
         /\ \A m \in 1..MaxJobs : (job[m] = None) <=> (m >= n)
         /\ job' = [job EXCEPT ![n] = a] /\ queue' = queue \cup {n}
         /\ lost' = lost \/ lost' = lost \cup {n}
  BY DEF Publish
<1>4. job[n] = None /\ lost' \subseteq 1..MaxJobs /\ settled' \subseteq Files
  <2>1. settled' \in {settled \ {a}, settled \cup {a}} /\ a \in Files
    BY <1>1, <1>2 DEF Publish
  <2>2. lost \subseteq 1..MaxJobs /\ settled \subseteq Files
    BY DEF TypeOK
  <2> HIDE DEF a
  <2>3. job[n] = None
    BY <1>3
  <2>4. QED
    BY <1>3, <2>1, <2>2, <2>3
<1>5. CASE /\ NoFault
           /\ handler' = [handler EXCEPT ![h].todo = left,
                            ![h].pc = IF left = {} THEN AfterFiles ELSE "publish"]
  <2>1. handler[h].todo \ {a} \in SUBSET Files
    BY <1>1
  <2> HIDE DEF a
  <2>2. /\ Moves(h) /\ handler'[h].todo = left
        /\ handler'[h].pc = IF left = {} THEN AfterFiles ELSE "publish"
    BY <1>5, <2>1, AfterFilesIsNext DEF Moves, TypeOK, Handler
  <2>3. mishaps' \in 0..MaxFaults
    BY <1>5 DEF NoFault, TypeOK
  <2>4. QED
    BY <1>2, <1>3, <1>4, <2>2, <2>3 DEF Publish
<1>6. CASE Fault("failure") /\ Goes(h, "fail")
  <2> HIDE DEF a
  <2>1. mishaps' \in 0..MaxFaults
    BY <1>6, EmailAssumption DEF Fault, TypeOK
  <2>2. QED
    BY <1>2, <1>3, <1>4, <1>6, <2>1, GoesEffect DEF Publish, Moves, Places
<1>7. QED
  BY <1>5, <1>6 DEF Publish

-----------------------------------------------------------------------------
(* Type correctness *)

LEMMA FaultType ==
    ASSUME TypeOK, NEW kind
    PROVE  (Fault(kind) \/ NoFault) => mishaps' \in 0..MaxFaults
BY EmailAssumption DEF TypeOK, Fault, NoFault

\* A new row is pending behind all others, the first one at position 1.
QueuedLast(k) ==
    /\ row'[k].status = "pending" /\ row'[k].position \in Nat \ {0}
    /\ \A o \in Keys : Present(o) => row[o].position < row'[k].position
    /\ (\A o \in Keys : ~Present(o)) => row'[k].position = 1

LEMMA EnqueueEffect ==
    ASSUME TypeOK, NEW k \in Keys, Enqueue(k)
    PROVE  /\ row' \in [Keys -> Row]
           /\ \A o \in Keys \ {k} : row'[o] = row[o]
           /\ Present(k) => row'[k] = row[k]
           /\ ~Present(k) => QueuedLast(k)
<1>1. CASE Present(k)
  BY <1>1 DEF Enqueue, TypeOK
<1>2. CASE ~Present(k)
  <2>1. PICK last \in Positions :
           /\ \A p \in Positions : p <= last
           /\ row' = [row EXCEPT ![k] = [NoRow EXCEPT !.status = "pending", !.position = last + 1]]
    BY <1>2 DEF Enqueue
  <2>2. \A o \in Keys : row[o].position \in Nat
    BY DEF TypeOK, Row
  <2>3. last \in Nat
    BY <2>1, <2>2 DEF Positions
  <2>4. \A o \in Keys : Present(o) => row[o].position <= last
    BY <2>1 DEF Positions
  <2>5. (\A o \in Keys : ~Present(o)) => last = 0
    BY <2>1 DEF Positions
  <2>6. PICK position \in Nat : position = last + 1
    BY <2>3
  <2>7. [NoRow EXCEPT !.status = "pending", !.position = position] \in Row
    BY DEF NoRow, Row
  <2>8. row' = [row EXCEPT ![k] = [NoRow EXCEPT !.status = "pending", !.position = position]]
    BY <2>1, <2>6
  <2>9. /\ row' \in [Keys -> Row]
        /\ \A o \in Keys \ {k} : row'[o] = row[o]
        /\ row'[k].status = "pending" /\ row'[k].position = position
    <3>1. row \in [Keys -> Row]
      BY DEF TypeOK
    <3>2. QED
      BY <2>7, <2>8, <3>1 DEF NoRow
  <2>10. QED
    BY <1>2, <2>2, <2>3, <2>4, <2>5, <2>6, <2>9 DEF QueuedLast
<1>3. QED
  BY <1>1, <1>2

\* The parts of TypeOK, by who changes them.
EventType ==
    /\ due \in BOOLEAN /\ stale \in BOOLEAN /\ told \in BOOLEAN
    /\ mail \in {"ignored", "refused", "wanted"}
    /\ shrugged \in BOOLEAN /\ limited \in BOOLEAN
    /\ event \in {"none", "processing", "failed", "completed"}
    /\ handler \in [Handlers -> Handler]
    /\ reasons \in Nat

JobType ==
    /\ job \in [1..MaxJobs -> Files \cup {None}]
    /\ queue \subseteq 1..MaxJobs /\ done \subseteq 1..MaxJobs /\ lost \subseteq 1..MaxJobs
    /\ settled \subseteq Files

OutboxType == row \in [Keys -> Row] /\ sender \in [Senders -> Sender] /\ inbox \in Seq(Keys)

LEMMA TypeParts == TypeOK <=> EventType /\ JobType /\ OutboxType /\ mishaps \in 0..MaxFaults
BY DEF TypeOK, EventType, JobType, OutboxType

LEMMA HandlerTypes ==
    ASSUME TypeOK, Passes, NEW h \in Handlers, HandlerStep(h) \/ CrashHandler(h)
    PROVE  EventType' /\ JobType' /\ mishaps' \in 0..MaxFaults /\ Moves(h)
<1>1. \A pc \in Places : Goes(h, pc) => Moves(h)
  BY GoesEffect DEF Moves
<1>2. Answer(h) => Moves(h) /\ due' \in BOOLEAN
  BY ResetEffect DEF Answer, Moves, TypeOK, Handler
<1>3. handler' = [handler EXCEPT ![h] = Quiet] => Moves(h)
  BY ResetEffect DEF Moves
<1>4. CASE Publish(h)
  <2>1. PICK a \in handler[h].todo, n \in 1..MaxJobs :
           /\ job' = [job EXCEPT ![n] = a] /\ queue' = queue \cup {n}
           /\ lost' \subseteq 1..MaxJobs /\ settled' \subseteq Files
           /\ Moves(h) /\ mishaps' \in 0..MaxFaults
    BY <1>4, PublishEffect
  <2>2. a \in Files
    BY DEF TypeOK, Handler
  <2>3. JobType'
    BY <1>4, <2>1, <2>2 DEF Publish, TypeOK, JobType
  <2>4. QED
    BY <1>4, <2>1, <2>3 DEF Publish, TypeOK, EventType, Moves
<1>5. CASE Fetch(h)
  <2>1. handler' = [handler EXCEPT ![h].todo = Reviewable,
                     ![h].pc = IF Files = Rejected THEN "close" ELSE "receipt"]
    BY <1>5 DEF Fetch
  <2>2. Reviewable \in SUBSET Files
    BY DEF Reviewable
  <2>3. handler[h] \in Handler /\ handler \in [Handlers -> Handler]
    BY DEF TypeOK
  <2>4. [handler[h] EXCEPT !.todo = Reviewable,
                           !.pc = IF Files = Rejected THEN "close" ELSE "receipt"] \in Handler
    BY <2>2, <2>3 DEF Handler
  <2>5. Moves(h)
    BY <2>1, <2>3, <2>4 DEF Moves
  <2>6. QED
    BY <1>5, <2>5 DEF Fetch, TypeOK, EventType, JobType, Moves
<1>6. CASE Claim(h)
  <2>1. Moves(h)
    BY <1>1, <1>2, <1>6 DEF Claim, Places
  <2>2. mishaps' = mishaps /\ due' \in BOOLEAN /\ UNCHANGED jobVars
    BY <1>2, <1>6 DEF Claim, TypeOK
  <2>3. EventType'
    BY <1>6, <2>1, <2>2 DEF Claim, TypeOK, EventType, Moves
  <2>4. QED
    BY <2>1, <2>2, <2>3 DEF TypeOK, JobType
<1>7. CASE Ignore(h) \/ Limit(h) \/ Close(h)
  <2>1. Moves(h) /\ due' \in BOOLEAN
    BY <1>2, <1>7 DEF Ignore, Limit, Close
  <2>2. mishaps' \in 0..MaxFaults
    BY <1>7, FaultType DEF Ignore, Limit, Close, NoFault
  <2>3. QED
    BY <1>7, <2>1, <2>2 DEF Ignore, Limit, Close, TypeOK, EventType, JobType, Moves
<1>8. CASE QueueReceipt(h)
  <2>1. Moves(h)
    BY <1>1, <1>8, AfterFilesIsNext DEF QueueReceipt, Places
  <2>2. QED
    BY <1>8, <2>1 DEF QueueReceipt, TypeOK, EventType, JobType, Moves
<1>9. CASE Fail(h) \/ CrashHandler(h)
  <2>1. Moves(h)
    BY <1>1, <1>3, <1>9 DEF Fail, CrashHandler, Places
  <2>2. mishaps' \in 0..MaxFaults
    BY <1>9, FaultType DEF Fail, CrashHandler
  <2>3. settled' \subseteq Files
    <3>1. At(h, "publish") => First(h) \in Files
      <4>1. At(h, "publish") => handler[h].todo \in SUBSET Files /\ handler[h].todo # {}
        BY DEF At, Passes, TypeOK, Handler
      <4>2. QED
        BY <4>1, FirstExists DEF First
    <3>2. settled \subseteq Files
      BY DEF TypeOK
    <3>3. QED
      BY <1>9, <3>1, <3>2 DEF Fail, CrashHandler
  <2>4. QED
    BY <1>9, <2>1, <2>2, <2>3 DEF Fail, CrashHandler, TypeOK, EventType, JobType, Moves
<1>10. CASE MarkFailed(h)
  <2>1. Moves(h) /\ reasons' \in Nat
    BY <1>3, <1>10, AddNat DEF MarkFailed, TypeOK
  <2>2. QED
    BY <1>10, <2>1 DEF MarkFailed, TypeOK, EventType, JobType, Moves
<1>11. CASE Respond(h)
  <2>1. Moves(h) /\ told' \in BOOLEAN /\ mishaps' \in 0..MaxFaults
    BY <1>1, <1>11, FaultType DEF Respond, Places
  <2>2. QED
    BY <1>11, <2>1 DEF Respond, TypeOK, EventType, JobType, Moves
<1>12. QED
  BY <1>4, <1>5, <1>6, <1>7, <1>8, <1>9, <1>10, <1>11 DEF HandlerStep

LEMMA HandlerKeepsOutbox ==
    ASSUME TypeOK, NEW h \in Handlers, HandlerStep(h) \/ CrashHandler(h)
    PROVE  OutboxType'
<1>1. CASE QueueReceipt(h)
  <2>1. row' \in [Keys -> Row]
    BY <1>1, EnqueueEffect, EmailAssumption DEF QueueReceipt, Keys
  <2>2. QED
    BY <1>1, <2>1 DEF QueueReceipt, TypeOK, OutboxType, Keys
<1>2. QED
  BY <1>1 DEF HandlerStep, Claim, Ignore, Limit, Fetch, Publish, Respond, Close, Fail, MarkFailed,
              CrashHandler, outboxVars, TypeOK, OutboxType, Keys

LEMMA DeliverEffect ==
    ASSUME TypeOK, NEW h \in Handlers, Deliver(h)
    PROVE  /\ handler' \in [Handlers -> Handler] /\ mishaps' \in 0..MaxFaults
           /\ handler'[h].pc = "claim" /\ handler'[h].todo = {} /\ At(h, "idle")
           /\ \A g \in Handlers \ {h} : /\ handler'[g].pc = handler[g].pc
                                        /\ handler'[g].todo = handler[g].todo
<1> DEFINE new == [Quiet EXCEPT !.pc = "claim", !.heard = TRUE]
           old(g) == [handler[g] EXCEPT !.heard = FALSE]
<1>1. new \in Handler /\ new.pc = "claim" /\ new.todo = {}
  BY QuietFields DEF Handler
<1>2. \A g \in Handlers : /\ old(g) \in Handler
                          /\ old(g).pc = handler[g].pc /\ old(g).todo = handler[g].todo
  BY DEF TypeOK, Handler
<1>3. handler' = [g \in Handlers |-> IF g = h THEN new ELSE old(g)] /\ At(h, "idle")
  BY DEF Deliver
<1> HIDE DEF new, old
<1>4. mishaps' \in 0..MaxFaults
  BY FaultType DEF Deliver
<1>5. QED
  BY <1>1, <1>2, <1>3, <1>4

LEMMA SenderTypes ==
    ASSUME TypeOK, NEW w \in Senders, SenderStep(w) \/ CrashSender(w)
    PROVE  OutboxType' /\ mishaps' \in 0..MaxFaults
<1>1. Resting \in Sender /\ sender[w].key \in Keys /\ 0 \in Keys
  BY EmailAssumption DEF Resting, Sender, Keys, TypeOK
<1>2. \A kind : Fault(kind) \/ NoFault \/ mishaps' = mishaps => mishaps' \in 0..MaxFaults
  BY FaultType DEF NoFault
<1>3. ASSUME NEW k \in Keys, Pick(w, k) PROVE OutboxType' /\ mishaps' \in 0..MaxFaults
  <2> DEFINE n == row[k].attempts + 1
             new == [pc |-> "check", key |-> k, gone |-> FALSE, attempts |-> n]
             r == [row[k] EXCEPT !.status = "sending", !.attempts = n, !.lapsed = FALSE]
  <2>1. n \in Nat
    BY AddNat DEF TypeOK, Row
  <2>2. new \in Sender /\ r \in Row
    <3>1. new \in Sender
      BY <2>1 DEF Sender
    <3>2. row[k] \in Row
      BY DEF TypeOK
    <3>3. r \in Row
      BY <2>1, <3>2 DEF Row
    <3>4. QED
      BY <3>1, <3>3
  <2>3. row' = [row EXCEPT ![k] = r] /\ sender' = [sender EXCEPT ![w] = new]
        /\ inbox' = inbox /\ mishaps' = mishaps
    BY <1>3 DEF Pick
  <2> HIDE DEF new, r
  <2>4. QED
    BY <2>2, <2>3 DEF TypeOK, OutboxType, Keys
<1>4. ASSUME NEW pc \in {"send", "sent", "failed"}, sender' = [sender EXCEPT ![w].pc = pc]
      PROVE  sender' \in [Senders -> Sender]
  BY <1>4 DEF TypeOK, Sender
<1>5. ASSUME sender' = [sender EXCEPT ![w] = Resting]
      PROVE  sender' \in [Senders -> Sender]
  BY <1>1, <1>5 DEF TypeOK
<1>6. CASE Check(w)
  BY <1>2, <1>4, <1>5, <1>6 DEF Check, TypeOK, OutboxType, Keys
<1>7. CASE Accept(w)
  <2>1. sender' \in [Senders -> Sender] /\ mishaps' \in 0..MaxFaults
    BY <1>2, <1>4, <1>7 DEF Accept
  <2>2. inbox' \in Seq(Keys)
    BY <1>1, <1>7, AppendProperties DEF Accept, TypeOK
  <2>3. QED
    BY <1>7, <2>1, <2>2 DEF Accept, TypeOK, OutboxType, Keys
<1>8. CASE Reject(w) \/ CrashSender(w)
  BY <1>2, <1>4, <1>5, <1>8 DEF Reject, CrashSender, TypeOK, OutboxType, Keys
<1>9. CASE MarkSent(w) \/ Reschedule(w)
  <2>1. sender' \in [Senders -> Sender] /\ mishaps' \in 0..MaxFaults /\ inbox' = inbox
    BY <1>2, <1>5, <1>9 DEF MarkSent, Reschedule
  <2>2. PICK status \in {"sent", "failed", "pending"} :
           \/ row' = row
           \/ row' = [row EXCEPT ![sender[w].key].status = status, ![sender[w].key].lapsed = FALSE]
    BY <1>9 DEF MarkSent, Reschedule
  <2>3. \A k \in Keys : [row[k] EXCEPT !.status = status, !.lapsed = FALSE] \in Row
    BY DEF TypeOK, Row
  <2>4. row' \in [Keys -> Row]
    <3> HIDE DEF Row
    <3>1. row \in [Keys -> Row]
      BY DEF TypeOK
    <3>2. QED
      BY <1>1, <2>2, <2>3, <3>1
  <2>5. QED
    BY <2>1, <2>4 DEF TypeOK, OutboxType, Keys
<1>10. QED
  BY <1>3, <1>6, <1>7, <1>8, <1>9 DEF SenderStep

LEMMA StepTypes == ASSUME TypeOK, Passes, Next PROVE TypeOK'
<1>1. ASSUME NEW h \in Handlers, HandlerStep(h) \/ CrashHandler(h) PROVE TypeOK'
  BY <1>1, HandlerTypes, HandlerKeepsOutbox, TypeParts DEF TypeOK, EventType, JobType, OutboxType
<1>2. ASSUME NEW h \in Handlers, Deliver(h) PROVE TypeOK'
  BY <1>2, DeliverEffect DEF Deliver, TypeOK, outboxVars, Keys
<1>3. CASE Lapse
  BY <1>3, AddNat, FaultType DEF Lapse, TypeOK, outboxVars, Keys
<1>4. ASSUME NEW n \in 1..MaxJobs, Settle(n) \/ Review(n) \/ Finish(n) PROVE TypeOK'
  <2>1. CASE Review(n)
    <3>1. row' \in [Keys -> Row]
      BY <2>1, EnqueueEffect, EmailAssumption DEF Review, Keys
    <3>2. QED
      BY <2>1, <3>1 DEF Review, TypeOK, eventVars, Keys
  <2>2. CASE Settle(n) \/ Finish(n)
    <3>1. mishaps' \in 0..MaxFaults
      BY <2>2, FaultType DEF Settle, Finish, NoFault
    <3>2. n \in queue /\ job' = job /\ queue' \subseteq queue
      BY <2>2 DEF Settle, Finish
    <3>3. job[n] \in Files
      BY <3>2 DEF TypeOK, Passes, QueueIsPublished
    <3>4. settled' \subseteq Files
      BY <2>2, <3>2, <3>3 DEF Settle, Finish, TypeOK
    <3>5. QED
      BY <2>2, <3>1, <3>2, <3>4 DEF Settle, Finish, TypeOK, eventVars, outboxVars, Keys
  <2>3. QED
    BY <1>4, <2>1, <2>2
<1>5. ASSUME NEW a \in Files, DeleteContract(a) PROVE TypeOK'
  <2>1. NoRow \in Row
    BY DEF NoRow, Row
  <2>2. row' \in [Keys -> Row] /\ mishaps' \in 0..MaxFaults
    BY <1>5, <2>1, FaultType DEF DeleteContract, TypeOK
  <2>3. \A w \in Senders : [sender[w] EXCEPT !.gone = TRUE] \in Sender
    BY DEF TypeOK, Sender
  <2>4. sender' \in [Senders -> Sender]
    BY <1>5, <2>3 DEF DeleteContract, TypeOK
  <2>5. QED
    BY <1>5, <2>2, <2>4 DEF DeleteContract, TypeOK, eventVars, Keys
<1>6. ASSUME NEW w \in Senders, SenderStep(w) \/ CrashSender(w) PROVE TypeOK'
  <2>1. UNCHANGED <<eventVars, jobVars>>
    BY <1>6 DEF SenderStep, Pick, Check, Accept, Reject, MarkSent, Reschedule, CrashSender
  <2>2. EventType' /\ JobType'
    BY <2>1, TypeParts DEF EventType, JobType, eventVars
  <2>3. QED
    BY <1>6, <2>2, SenderTypes DEF TypeOK, EventType, JobType, OutboxType
<1>7. ASSUME NEW k \in Keys, LapseLease(k) PROVE TypeOK'
  <2>1. row' \in [Keys -> Row]
    BY <1>7 DEF LapseLease, TypeOK, Row
  <2>2. mishaps' \in 0..MaxFaults
    BY <1>7, FaultType DEF LapseLease
  <2>3. QED
    BY <1>7, <2>1, <2>2 DEF LapseLease, TypeOK, eventVars, Keys
<1>8. QED
  BY <1>1, <1>2, <1>3, <1>4, <1>5, <1>6, <1>7 DEF Next

-----------------------------------------------------------------------------
(* The event *)

\* Jobs are only ever more.
LEMMA StepJobs ==
    ASSUME TypeOK, Passes, Next
    PROVE  \A n \in 1..MaxJobs : job[n] # None => job'[n] = job[n]
<1>1. ASSUME NEW h \in Handlers, Publish(h)
      PROVE  \A n \in 1..MaxJobs : job[n] # None => job'[n] = job[n]
  <2>1. PICK a \in handler[h].todo, n \in 1..MaxJobs :
           job[n] = None /\ job' = [job EXCEPT ![n] = a]
    BY <1>1, PublishEffect
  <2>2. QED
    BY <2>1 DEF TypeOK
<1>2. job' = job \/ \E h \in Handlers : Publish(h)
  BY DEF Next, Deliver, HandlerStep, Claim, Ignore, Limit, Fetch, QueueReceipt, Respond, Close, Fail,
         MarkFailed, CrashHandler, Lapse, Settle, Review, Finish, DeleteContract, SenderStep, Pick, Check,
         Accept, Reject, MarkSent, Reschedule, CrashSender, LapseLease
<1>3. QED
  BY <1>1, <1>2

LEMMA StepPublished ==
    ASSUME TypeOK, Passes, Next
    PROVE  \A a \in Files : Published(a) => Published(a)'
BY StepJobs, EmailAssumption DEF Published

\* The email stays what it is, and what was said of it is said.
LEMMA StepEmail ==
    ASSUME Next
    PROVE  mail' = mail /\ (limited => limited') /\ (told => told')
<1>1. ASSUME NEW h \in Handlers, Deliver(h) \/ HandlerStep(h) \/ CrashHandler(h)
      PROVE  mail' = mail /\ (limited => limited') /\ (told => told')
  BY <1>1 DEF Deliver, HandlerStep, Claim, Ignore, Limit, Fetch, QueueReceipt, Publish, Respond,
              Close, Fail, MarkFailed, CrashHandler
<1>2. ASSUME NEW w \in Senders, SenderStep(w) \/ CrashSender(w) PROVE UNCHANGED eventVars
  BY <1>2 DEF SenderStep, Pick, Check, Accept, Reject, MarkSent, Reschedule, CrashSender
<1>3. QED
  BY <1>1, <1>2 DEF Next, Lapse, Settle, Review, Finish, DeleteContract, LapseLease, eventVars

\* What was handled stays handled.
LEMMA StepHandled ==
    ASSUME TypeOK, Passes, Next
    PROVE  Handled => Handled'
<1>1. mail' = mail /\ (limited => limited') /\ (told => told')
  BY StepEmail
<1>2. (\A a \in Reviewable : Published(a)) => (\A a \in Reviewable : Published(a))'
  BY StepPublished DEF Reviewable
<1>3. QED
  BY <1>1, <1>2 DEF Handled, Reviewable, Published

\* How a pass moves on, and with what.
Progress(h) ==
    \/ handler'[h].pc \in {"idle", "claim", "fetch"} /\ handler'[h].todo = {}
    \/ handler'[h].pc = "fail" /\ handler'[h].todo = handler[h].todo
    \/ handler'[h].pc = handler[h].pc /\ handler'[h].todo = handler[h].todo
    \/ /\ handler'[h].pc \in {"receipt", "close"} /\ handler'[h].todo = Reviewable
       /\ handler'[h].pc = "close" => Reviewable = {} /\ Invalid = {}
    \/ /\ handler[h].pc = "receipt" /\ handler'[h].todo = handler[h].todo
       /\ handler'[h].pc = IF handler'[h].todo = {} THEN AfterFiles ELSE "publish"
    \/ /\ handler[h].pc = "publish"
       /\ handler'[h].pc = IF handler'[h].todo = {} THEN AfterFiles ELSE "publish"
       /\ \E a \in handler[h].todo : handler'[h].todo = handler[h].todo \ {a} /\ Published(a)'
    \/ /\ handler[h].pc = "respond" /\ handler'[h].pc = "close" /\ told'
       /\ handler'[h].todo = handler[h].todo

LEMMA StepProgress ==
    ASSUME TypeOK, Passes, Next
    PROVE  \A h \in Handlers : Progress(h)
<1> SUFFICES ASSUME NEW h \in Handlers PROVE Progress(h)
  OBVIOUS
<1>1. CASE handler'[h] = handler[h]
  BY <1>1 DEF Progress
<1>2. ASSUME NEW g \in Handlers, Deliver(g) PROVE Progress(h)
  BY <1>2, DeliverEffect DEF Progress
<1>3. ASSUME NEW g \in Handlers, HandlerStep(g) \/ CrashHandler(g), g # h PROVE Progress(h)
  BY <1>1, <1>3, HandlerTypes DEF Moves
<1>4. CASE handler'[h] = Quiet
  BY <1>4, QuietFields DEF Progress
<1>5. CASE handler' = [handler EXCEPT ![h] = Quiet]
  BY <1>4, <1>5, ResetEffect
<1>6. CASE Claim(h)
  BY <1>5, <1>6, GoesEffect DEF Claim, Answer, At, Places, Progress, Passes
<1>7. CASE Fetch(h)
  <2>1. handler' = [handler EXCEPT ![h].todo = Reviewable,
                     ![h].pc = IF Files = Rejected THEN "close" ELSE "receipt"]
    BY <1>7 DEF Fetch
  <2>2. Files = Rejected => Reviewable = {} /\ Invalid = {}
    BY EmailAssumption DEF Reviewable
  <2>3. QED
    BY <2>1, <2>2 DEF Progress, TypeOK, Handler
<1>8. CASE QueueReceipt(h)
  BY <1>8, GoesEffect, AfterFilesIsNext DEF QueueReceipt, At, Places, Progress
<1>9. CASE Publish(h)
  <2>1. PICK a \in handler[h].todo, n \in 1..MaxJobs :
              /\ At(h, "publish") /\ job' = [job EXCEPT ![n] = a]
              /\ \/ /\ handler'[h].todo = handler[h].todo \ {a}
                    /\ handler'[h].pc = IF handler'[h].todo = {} THEN AfterFiles ELSE "publish"
                 \/ /\ handler'[h].todo = handler[h].todo
                    /\ handler'[h].pc = "fail"
    BY <1>9, PublishEffect
  <2>2. Published(a)'
    BY <2>1 DEF Published, TypeOK
  <2>3. QED
    BY <2>1, <2>2 DEF Progress, At
<1>10. CASE Fail(h)
  BY <1>10, GoesEffect DEF Fail, Places, Progress
<1>11. CASE Ignore(h) \/ Limit(h) \/ Close(h) \/ MarkFailed(h) \/ CrashHandler(h)
  BY <1>5, <1>11 DEF Ignore, Limit, Close, MarkFailed, CrashHandler, Answer
<1>12. CASE Respond(h)
  BY <1>12, GoesEffect DEF Respond, At, Places, Progress
<1>13. CASE handler' = handler
  BY <1>1, <1>13
<1>14. QED
  BY <1>2, <1>3, <1>6, <1>7, <1>8, <1>9, <1>10, <1>11, <1>12, <1>13
     DEF Next, HandlerStep, Lapse, Settle, Review, Finish, DeleteContract, SenderStep, Pick, Check,
         Accept, Reject, MarkSent, Reschedule, CrashSender, LapseLease, eventVars

\* A job is published before it is queued, and no job is taken back.
LEMMA StepQueue ==
    ASSUME TypeOK, Passes, Next
    PROVE  QueueIsPublished'
<1>1. ASSUME NEW h \in Handlers, Publish(h) PROVE QueueIsPublished'
  <2>1. PICK a \in handler[h].todo, n \in 1..MaxJobs :
           job[n] = None /\ job' = [job EXCEPT ![n] = a] /\ queue' = queue \cup {n}
    BY <1>1, PublishEffect
  <2>2. a \in Files /\ a # None
    BY EmailAssumption DEF TypeOK, Handler
  <2>3. QED
    BY <2>1, <2>2 DEF Passes, QueueIsPublished, TypeOK
<1>2. CASE job' = job /\ queue' \subseteq queue
  BY <1>2 DEF Passes, QueueIsPublished
<1>3. QED
  BY <1>1, <1>2
     DEF Next, Deliver, HandlerStep, Claim, Ignore, Limit, Fetch, QueueReceipt, Respond, Close, Fail,
         MarkFailed, CrashHandler, Lapse, Settle, Review, Finish, DeleteContract, SenderStep, Pick, Check,
         Accept, Reject, MarkSent, Reschedule, CrashSender, LapseLease

LEMMA StepPasses == ASSUME TypeOK, Passes, Next PROVE Passes'
<1>1. Reviewable \subseteq Files
  BY DEF Reviewable
<1>2. \A a \in Reviewable : Published(a) => Published(a)'
  BY <1>1, StepPublished
<1>3. told => told'
  BY StepEmail
<1>4. ASSUME NEW h \in Handlers, Progress(h)
      PROVE  /\ handler'[h].todo \subseteq Reviewable
             /\ handler'[h].pc \in {"idle", "claim", "fetch"} => handler'[h].todo = {}
             /\ handler'[h].pc = "receipt" => handler'[h].todo = Reviewable
             /\ handler'[h].pc = "publish" =>
                   /\ handler'[h].todo # {}
                   /\ \A a \in Reviewable : a \in handler'[h].todo \/ Published(a)'
             /\ handler'[h].pc \in {"respond", "close"} => \A a \in Reviewable : Published(a)'
             /\ handler'[h].pc = "close" => told' \/ Invalid = {}
  BY <1>2, <1>3, <1>4, AfterFilesIsNext DEF Progress, Passes
<1>5. QED
  BY <1>4, StepProgress, StepQueue DEF Passes, Reviewable, Published

\* Whoever completes the event, or tells the provider that all is well, has seen to
\* the email, finds that someone did, or says "processing".
LEMMA StepAnswers ==
    ASSUME EventInv, Next
    PROVE  /\ event' = "completed" => event = "completed" \/ Handled'
           /\ ~due' => ~due \/ shrugged' \/ Handled'
           /\ shrugged => shrugged'
<1> USE DEF EventInv
<1>1. CASE event' = event /\ due' = due /\ shrugged' = shrugged
  BY <1>1
<1>2. Handled => Handled'
  BY StepHandled
<1>3. ASSUME NEW h \in Handlers, Claim(h)
      PROVE  /\ event' = "completed" => event = "completed" \/ Handled'
             /\ ~due' => ~due \/ shrugged' \/ Handled'
             /\ shrugged => shrugged'
  <2>1. CASE event' = "processing" /\ UNCHANGED <<due, shrugged>>
    BY <2>1
  <2>2. CASE ~Claimable /\ shrugged' = (shrugged \/ event = "processing") /\ event' = event
    <3>1. event = "processing" \/ event = "completed"
      BY <2>2 DEF Claimable, TypeOK
    <3>2. event = "completed" => Handled'
      BY <1>2 DEF CompletedEventIsHandled
    <3>3. QED
      BY <2>2, <3>1, <3>2
  <2>3. QED
    BY <1>3, <2>1, <2>2 DEF Claim
<1>4. ASSUME NEW h \in Handlers, Ignore(h) \/ Limit(h) \/ Close(h)
      PROVE  Handled' /\ shrugged' = shrugged
  <2>1. CASE Ignore(h)
    <3>1. mail \in {"ignored", "refused"}
      BY <2>1 DEF Ignore, TypeOK
    <3>2. QED
      BY <1>2, <2>1, <3>1 DEF Ignore, Handled
  <2>2. CASE Limit(h)
    BY <2>2 DEF Limit, Handled
  <2>3. CASE Close(h)
    BY <1>2, <2>3 DEF Close, At, Passes, Handled, Reviewable, Published
  <2>4. QED
    BY <1>4, <2>1, <2>2, <2>3 DEF Ignore, Limit, Close
<1>5. ASSUME NEW h \in Handlers, MarkFailed(h)
      PROVE  event' = "failed" /\ due' = due /\ shrugged' = shrugged
  BY <1>5 DEF MarkFailed
<1>6. ASSUME NEW h \in Handlers, Deliver(h) \/ Fetch(h) \/ QueueReceipt(h) \/ Publish(h)
                                 \/ Respond(h) \/ Fail(h) \/ CrashHandler(h)
      PROVE  event' = event /\ due' = due /\ shrugged' = shrugged
  BY <1>6 DEF Deliver, Fetch, QueueReceipt, Publish, Respond, Fail, CrashHandler
<1>7. ASSUME NEW w \in Senders, SenderStep(w) \/ CrashSender(w)
      PROVE  event' = event /\ due' = due /\ shrugged' = shrugged
  BY <1>7 DEF SenderStep, Pick, Check, Accept, Reject, MarkSent, Reschedule, CrashSender, eventVars
<1>8. QED
  BY <1>1, <1>3, <1>4, <1>5, <1>6, <1>7
     DEF Next, HandlerStep, Lapse, Settle, Review, Finish, DeleteContract, LapseLease, eventVars

LEMMA InitTypes == ASSUME Init PROVE TypeOK
<1>1. Quiet \in Handler /\ NoRow \in Row /\ Resting \in Sender
  BY QuietFields, EmailAssumption DEF NoRow, Row, Resting, Sender, Keys
<1>2. <<>> \in Seq(Keys)
  OBVIOUS
<1>3. EventType
  BY <1>1 DEF Init, EventType
<1>4. JobType
  BY DEF Init, JobType
<1>5. OutboxType
  <2> HIDE DEF Row, Sender, NoRow, Resting
  <2>1. QED
    BY <1>1, <1>2 DEF Init, OutboxType
<1>6. mishaps \in 0..MaxFaults
  BY EmailAssumption DEF Init
<1>7. QED
  BY <1>3, <1>4, <1>5, <1>6, TypeParts

LEMMA StutterEvent == ASSUME EventInv, UNCHANGED vars PROVE EventInv'
BY DEF EventInv, TypeOK, Passes, QueueIsPublished, CompletedEventIsHandled, NothingLostQuietly,
       Handled, Published, Reviewable, vars, eventVars, outboxVars, Keys

LEMMA EventInductive ==
    /\ Init => EventInv
    /\ EventInv /\ [Next]_vars => EventInv'
<1>1. ASSUME Init PROVE EventInv
  <2>1. Passes
    BY <1>1, QuietFields DEF Init, Passes, QueueIsPublished
  <2>2. CompletedEventIsHandled /\ NothingLostQuietly
    BY <1>1 DEF Init, CompletedEventIsHandled, NothingLostQuietly
  <2>3. QED
    BY <1>1, <2>1, <2>2, InitTypes DEF EventInv
<1>2. ASSUME EventInv, Next PROVE EventInv'
  <2>1. TypeOK /\ Passes
    BY <1>2 DEF EventInv
  <2>2. TypeOK' /\ Passes'
    BY <1>2, <2>1, StepTypes, StepPasses
  <2>3. CompletedEventIsHandled' /\ NothingLostQuietly'
    BY <1>2, <2>1, StepAnswers, StepHandled DEF EventInv, CompletedEventIsHandled, NothingLostQuietly
  <2>4. QED
    BY <2>2, <2>3 DEF EventInv
<1>3. QED
  BY <1>1, <1>2, StutterEvent

\* Spec keeps the types, and what each pass of the webhook has done of its work.
THEOREM EventCorrect == Spec => []EventInv
BY EventInductive, PTL DEF Spec

\* A completed event is one whose email was handled, although any pass may mark it.
THEOREM CompletedEventIsHandledHolds == Spec => []CompletedEventIsHandled
<1>1. EventInv => CompletedEventIsHandled
  BY DEF EventInv
<1>2. QED
  BY <1>1, EventCorrect, PTL

\* The provider gives an email up only when it was handled, or when it was told that
\* somebody else was at it.
THEOREM NothingLostQuietlyHolds == Spec => []NothingLostQuietly
<1>1. EventInv => NothingLostQuietly
  BY DEF EventInv
<1>2. QED
  BY <1>1, EventCorrect, PTL

-----------------------------------------------------------------------------
(* The thread of messages *)

\* What a step may do to the row of k: it is left, a worker's claim on it moves, it
\* is queued at the next position, or it goes with its contract.
RowStep(k) ==
    \/ row'[k] = row[k]
    \/ /\ row[k].status \in {"pending", "sending"} /\ row'[k].position = row[k].position
       /\ row'[k].status \in {"pending", "sending", "failed"}
    \/ /\ row[k].status = "sending" /\ row'[k].position = row[k].position
       /\ row'[k].status = "sent" /\ \E w \in Senders : sender[w].pc = "sent" /\ sender[w].key = k
    \/ /\ row[k].status = "absent" /\ QueuedLast(k)
       /\ k # 0 => k \in queue
    \/ /\ k # 0 /\ row'[k].status = "absent"
       /\ \A w \in Senders : sender[w].pc # "idle" /\ sender[w].key = k => sender'[w].gone

LEMMA StepRows == ASSUME TypeOK, Next PROVE \A k \in Keys : RowStep(k)
<1>1. row' = row => \A k \in Keys : RowStep(k)
  BY DEF RowStep
<1>2. 0 \in Keys /\ 1..MaxJobs \subseteq Keys /\ \A n \in 1..MaxJobs : n # 0
  BY EmailAssumption DEF Keys
<1>3. ASSUME NEW h \in Handlers, QueueReceipt(h) PROVE \A k \in Keys : RowStep(k)
  BY <1>2, <1>3, EnqueueEffect DEF QueueReceipt, RowStep, Present
<1>4. ASSUME NEW n \in 1..MaxJobs, Review(n) PROVE \A k \in Keys : RowStep(k)
  BY <1>2, <1>4, EnqueueEffect DEF Review, RowStep, Present
<1>5. ASSUME NEW a \in Files, DeleteContract(a) PROVE \A k \in Keys : RowStep(k)
  <2>1. PICK its \in SUBSET (1..MaxJobs) :
           /\ row' = [k \in Keys |-> IF k \in its THEN NoRow ELSE row[k]]
           /\ sender' = [w \in Senders |-> IF sender[w].pc # "idle" /\ sender[w].key \in its
                                           THEN [sender[w] EXCEPT !.gone = TRUE] ELSE sender[w]]
    BY <1>5 DEF DeleteContract
  <2>2. NoRow.status = "absent"
    BY DEF NoRow
  <2>3. ASSUME NEW k \in its, NEW w \in Senders, sender[w].pc # "idle", sender[w].key = k
        PROVE  sender'[w].gone
    BY <2>1, <2>3 DEF TypeOK, Sender
  <2>4. QED
    BY <1>2, <2>1, <2>2, <2>3 DEF RowStep
<1>6. ASSUME NEW w \in Senders, NEW k \in Keys, Pick(w, k) PROVE \A o \in Keys : RowStep(o)
  <2>1. /\ row'[k].status = "sending" /\ row'[k].position = row[k].position
        /\ \A o \in Keys \ {k} : row'[o] = row[o]
    BY <1>6 DEF Pick, TypeOK, Row
  <2>2. QED
    BY <1>6, <2>1 DEF Pick, Waiting, RowStep
<1>7. ASSUME NEW w \in Senders, MarkSent(w) PROVE \A o \in Keys : RowStep(o)
  <2> DEFINE k == sender[w].key
  <2>1. k \in Keys
    BY DEF TypeOK, Sender
  <2>2. Sending(w) =>
           /\ row'[k].status = "sent" /\ row'[k].position = row[k].position
           /\ \A o \in Keys \ {k} : row'[o] = row[o]
    BY <1>7, <2>1 DEF MarkSent, TypeOK, Row
  <2>3. ~Sending(w) => row' = row
    BY <1>7 DEF MarkSent
  <2>4. QED
    BY <1>1, <1>7, <2>2, <2>3 DEF MarkSent, Sending, RowStep
<1>8. ASSUME NEW w \in Senders, Reschedule(w) PROVE \A o \in Keys : RowStep(o)
  <2> DEFINE k == sender[w].key
             status == IF sender[w].attempts >= MaxAttempts THEN "failed" ELSE "pending"
  <2>1. k \in Keys /\ status \in {"pending", "failed"}
    BY DEF TypeOK, Sender
  <2>2. /\ row' = IF Sending(w)
                  THEN [row EXCEPT ![k].status = status, ![k].lapsed = FALSE] ELSE row
        /\ Sending(w) => row[k].status = "sending"
    BY <1>8 DEF Reschedule, Sending
  <2> HIDE DEF k, status
  <2>3. Sending(w) =>
           /\ row'[k].status = status /\ row'[k].position = row[k].position
           /\ \A o \in Keys \ {k} : row'[o] = row[o]
    BY <2>1, <2>2 DEF TypeOK, Row
  <2>4. QED
    BY <1>1, <2>1, <2>2, <2>3 DEF RowStep
<1>9. ASSUME NEW k \in Keys, LapseLease(k) PROVE \A o \in Keys : RowStep(o)
  <2>1. /\ row'[k].status = row[k].status /\ row'[k].position = row[k].position
        /\ \A o \in Keys \ {k} : row'[o] = row[o]
    BY <1>9 DEF LapseLease, TypeOK, Row
  <2>2. QED
    BY <1>9, <2>1 DEF LapseLease, RowStep
<1>10. ASSUME NEW h \in Handlers, Deliver(h) \/ HandlerStep(h) \/ CrashHandler(h)
       PROVE  \A k \in Keys : RowStep(k)
  BY <1>1, <1>3, <1>10 DEF Deliver, HandlerStep, Claim, Ignore, Limit, Fetch, Publish, Respond, Close, Fail,
                           MarkFailed, CrashHandler, outboxVars
<1>11. ASSUME NEW w \in Senders, SenderStep(w) \/ CrashSender(w) PROVE \A k \in Keys : RowStep(k)
  BY <1>1, <1>6, <1>7, <1>8, <1>11 DEF SenderStep, Check, Accept, Reject, CrashSender
<1>12. QED
  BY <1>1, <1>4, <1>5, <1>9, <1>10, <1>11 DEF Next, Lapse, Settle, Finish, outboxVars

\* The queue of jobs grows only from a pass that has queued its receipt.
LEMMA StepThread == ASSUME TypeOK, Passes, Thread, Next PROVE Thread'
<1>1. \A k \in Keys : RowStep(k)
  BY StepRows
<1>2. 0 \in Keys /\ 1..MaxJobs \subseteq Keys /\ Keys = {0} \cup 1..MaxJobs
      /\ \A n \in 1..MaxJobs : n # 0
  BY EmailAssumption DEF Keys
<1>3. Present(0) => Present(0)' /\ row'[0].position = row[0].position
  BY <1>1, <1>2 DEF RowStep, Present
<1>4. (\A k \in Keys : ~Present(k)) \/ Present(0)
  BY <1>2 DEF Thread
<1>5. Present(0)' => row'[0].position = 1
  <2>1. CASE Present(0)
    BY <1>3, <2>1 DEF Thread
  <2>2. CASE ~Present(0)
    BY <1>1, <1>2, <1>4, <2>2 DEF RowStep, Present, QueuedLast
  <2>3. QED
    BY <2>1, <2>2
<1>6. \A k \in 1..MaxJobs : Present(k)' => Present(0)' /\ row'[k].position > 1
  <2> SUFFICES ASSUME NEW k \in 1..MaxJobs, Present(k)'
               PROVE  Present(0)' /\ row'[k].position > 1
    OBVIOUS
  <2>1. CASE Present(k) /\ row'[k].position = row[k].position
    BY <1>3, <2>1 DEF Thread
  <2>2. CASE k \in queue /\ QueuedLast(k)
    <3>1. Present(0) /\ row[0].position = 1
      BY <2>2 DEF Thread
    <3>2. QED
      BY <1>2, <1>3, <2>2, <3>1 DEF QueuedLast
  <2>3. QED
    BY <1>1, <1>2, <2>1, <2>2 DEF RowStep, Present
<1>7. \A h \in Handlers : handler'[h].pc = "publish" => Present(0)'
  <2> SUFFICES ASSUME NEW h \in Handlers, handler'[h].pc = "publish" PROVE Present(0)'
    OBVIOUS
  <2>1. CASE handler[h].pc = "publish"
    BY <1>3, <2>1 DEF Thread, At
  <2>2. CASE handler[h].pc # "publish"
    <3>1. handler[h].pc = "receipt"
      BY <2>2, StepProgress, AfterFilesIsNext DEF Progress
    <3>2. QueueReceipt(h)
      <4>1. ASSUME NEW g \in Handlers, g # h, HandlerStep(g) \/ CrashHandler(g) PROVE FALSE
        BY <2>2, <4>1, HandlerTypes DEF Moves
      <4>2. ASSUME NEW g \in Handlers, Deliver(g) PROVE FALSE
        BY <2>2, <4>2, DeliverEffect
      <4>3. handler' # handler
        BY <2>2
      <4>4. ASSUME Fail(h) PROVE FALSE
        BY <4>4, GoesEffect DEF Fail, Places
      <4>5. ASSUME CrashHandler(h) PROVE FALSE
        BY <4>5, ResetEffect, QuietFields DEF CrashHandler
      <4>6. \E g \in Handlers : Deliver(g) \/ HandlerStep(g) \/ CrashHandler(g)
        BY <4>3 DEF Next, Lapse, Settle, Review, Finish, DeleteContract, SenderStep, Pick, Check, Accept,
                    Reject, MarkSent, Reschedule, CrashSender, LapseLease, eventVars
      <4>7. HandlerStep(h)
        BY <4>1, <4>2, <4>5, <4>6
      <4>8. QED
        BY <3>1, <4>4, <4>7
           DEF HandlerStep, Claim, Ignore, Limit, Fetch, Publish, Respond, Close, MarkFailed, At
    <3>3. Enqueue(0)
      BY <3>2 DEF QueueReceipt
    <3>4. QED
      BY <1>2, <3>3, EnqueueEffect DEF Present, QueuedLast
  <2>3. QED
    BY <2>1, <2>2
<1>8. queue' # {} => Present(0)'
  <2>1. queue' # {} => queue # {} \/ \E h \in Handlers : At(h, "publish")
    BY DEF Next, Deliver, HandlerStep, Claim, Ignore, Limit, Fetch, QueueReceipt, Publish, Respond, Close,
           Fail, MarkFailed, CrashHandler, Lapse, Settle, Review, Finish, DeleteContract, SenderStep, Pick,
           Check, Accept, Reject, MarkSent, Reschedule, CrashSender, LapseLease
  <2>2. QED
    BY <1>3, <2>1 DEF Thread
<1>9. QED
  BY <1>5, <1>6, <1>7, <1>8 DEF Thread, Present, At

-----------------------------------------------------------------------------
(* The delivery workers *)

\* What a step may do to a worker and to the inbox.
Claims(w) == \E k \in Keys : /\ Waiting(k) /\ Unblocked(k)
                             /\ sender'[w].key = k /\ sender'[w].pc = "check"
                             /\ row'[k].status = "sending"
Keeps(w) == /\ sender'[w].key = sender[w].key /\ sender'[w].gone = sender[w].gone
            /\ sender[w].pc # "idle"
Stays(w) == /\ sender'[w].pc = sender[w].pc /\ sender'[w].key = sender[w].key
            /\ sender[w].gone => sender'[w].gone

Delivers(w) ==
    /\ sender[w].pc = "send"
    /\ inbox' = IF Accepted(sender[w].key) THEN inbox ELSE Append(inbox, sender[w].key)

LEMMA StepSenders ==
    ASSUME TypeOK, Next
    PROVE  \/ (\A w \in Senders : Stays(w)) /\ inbox' = inbox
           \/ \E w \in Senders :
                /\ \A v \in Senders \ {w} : sender'[v] = sender[v]
                /\ \/ sender'[w].pc = "idle" /\ inbox' = inbox
                   \/ Claims(w) /\ inbox' = inbox
                   \/ Keeps(w) /\ sender'[w].pc # "sent" /\ inbox' = inbox
                   \/ Keeps(w) /\ Delivers(w)
<1>1. ASSUME NEW w \in Senders, SenderStep(w) \/ CrashSender(w)
      PROVE  /\ \A v \in Senders \ {w} : sender'[v] = sender[v]
             /\ \/ sender'[w].pc = "idle" /\ inbox' = inbox
                \/ Claims(w) /\ inbox' = inbox
                \/ Keeps(w) /\ sender'[w].pc # "sent" /\ inbox' = inbox
                \/ Keeps(w) /\ Delivers(w)
  <2>1. ASSUME sender' = [sender EXCEPT ![w] = Resting]
        PROVE  sender'[w].pc = "idle" /\ \A v \in Senders \ {w} : sender'[v] = sender[v]
    BY <2>1 DEF TypeOK, Resting
  <2>2. ASSUME NEW pc \in {"send", "sent", "failed"}, sender' = [sender EXCEPT ![w].pc = pc]
        PROVE  /\ sender'[w].pc = pc /\ sender'[w].key = sender[w].key
               /\ sender'[w].gone = sender[w].gone
               /\ \A v \in Senders \ {w} : sender'[v] = sender[v]
    BY <2>2 DEF TypeOK, Sender
  <2>3. ASSUME NEW k \in Keys, Pick(w, k)
        PROVE  Claims(w) /\ inbox' = inbox /\ \A v \in Senders \ {w} : sender'[v] = sender[v]
    BY <2>3 DEF Pick, Claims, TypeOK, Row
  <2>4. CASE Check(w)
    BY <2>1, <2>2, <2>4 DEF Check, Keeps
  <2>5. CASE Accept(w)
    BY <2>2, <2>5 DEF Accept, Keeps, Delivers
  <2>6. CASE Reject(w)
    BY <2>2, <2>6 DEF Reject, Keeps
  <2>7. CASE MarkSent(w) \/ Reschedule(w) \/ CrashSender(w)
    BY <2>1, <2>7 DEF MarkSent, Reschedule, CrashSender
  <2>8. QED
    BY <1>1, <2>3, <2>4, <2>5, <2>6, <2>7 DEF SenderStep
<1>2. ASSUME NEW h \in Handlers, Deliver(h) \/ HandlerStep(h) \/ CrashHandler(h)
      PROVE  sender' = sender /\ inbox' = inbox
  BY <1>2 DEF Deliver, HandlerStep, Claim, Ignore, Limit, Fetch, QueueReceipt, Publish, Respond, Close, Fail,
              MarkFailed, CrashHandler, outboxVars
<1>3. ASSUME NEW a \in Files, DeleteContract(a) PROVE inbox' = inbox /\ \A w \in Senders : Stays(w)
  <2>1. \A w \in Senders : /\ [sender[w] EXCEPT !.gone = TRUE].pc = sender[w].pc
                            /\ [sender[w] EXCEPT !.gone = TRUE].key = sender[w].key
                            /\ [sender[w] EXCEPT !.gone = TRUE].gone
    BY DEF TypeOK, Sender
  <2>2. QED
    BY <1>3, <2>1 DEF DeleteContract, Stays
<1>4. sender' = sender => \A w \in Senders : Stays(w)
  BY DEF Stays
<1>5. QED
  BY <1>1, <1>2, <1>3, <1>4 DEF Next, Lapse, Settle, Review, Finish, LapseLease, outboxVars

\* The inbox grows at its end, by a message it does not have.
LEMMA StepInbox ==
    ASSUME TypeOK, Next
    PROVE  /\ DOMAIN inbox \subseteq DOMAIN inbox'
           /\ \A i \in DOMAIN inbox : inbox'[i] = inbox[i]
           /\ \A k : Accepted(k) => \E i \in DOMAIN inbox' : inbox'[i] = k
           /\ \A i \in DOMAIN inbox' \ DOMAIN inbox :
                 /\ \A j \in DOMAIN inbox : j \in 1..i
                 /\ \E w \in Senders : sender[w].pc = "send" /\ inbox'[i] = sender[w].key
                                       /\ ~Accepted(sender[w].key) /\ inbox' = Append(inbox, inbox'[i])
<1>1. CASE inbox' = inbox
  BY <1>1 DEF Accepted
<1>2. ASSUME NEW w \in Senders, sender[w].pc = "send", ~Accepted(sender[w].key),
             inbox' = Append(inbox, sender[w].key)
      PROVE  /\ DOMAIN inbox \subseteq DOMAIN inbox'
             /\ \A i \in DOMAIN inbox : inbox'[i] = inbox[i]
             /\ \A k : Accepted(k) => \E i \in DOMAIN inbox' : inbox'[i] = k
             /\ \A i \in DOMAIN inbox' \ DOMAIN inbox :
                   /\ \A j \in DOMAIN inbox : j \in 1..i
                   /\ inbox'[i] = sender[w].key
  <2> DEFINE k == sender[w].key  n == Len(inbox)
  <2>1. k \in Keys /\ inbox \in Seq(Keys) /\ n \in Nat
    BY DEF TypeOK, Sender
  <2>2. /\ DOMAIN inbox = 1..n /\ DOMAIN inbox' = 1..(n + 1)
        /\ \A i \in 1..n : inbox'[i] = inbox[i]
        /\ inbox'[n + 1] = k
    BY <1>2, <2>1
  <2> HIDE DEF k, n
  <2>3. \A i \in DOMAIN inbox' \ DOMAIN inbox : i = n + 1
    BY <2>1, <2>2
  <2>4. DOMAIN inbox \subseteq DOMAIN inbox' /\ \A j \in DOMAIN inbox : j \in 1..(n + 1)
    BY <2>1, <2>2
  <2>5. QED
    BY <2>2, <2>3, <2>4 DEF Accepted, k
<1>3. \/ inbox' = inbox
      \/ \E w \in Senders : /\ sender[w].pc = "send" /\ ~Accepted(sender[w].key)
                            /\ inbox' = Append(inbox, sender[w].key)
  BY StepSenders DEF Delivers
<1>4. QED
  BY <1>1, <1>2, <1>3

LEMMA StepOutbox ==
    ASSUME TypeOK, OutboxInv, Next
    PROVE  ReceiptSettled' /\ MarkedIsDelivered' /\ SentIsDelivered' /\ AcceptedOnce'
           /\ ReceiptComesFirst'
<1> USE DEF OutboxInv
<1>1. \A k \in Keys : RowStep(k)
  BY StepRows
<1>2. 0 \in Keys /\ Keys = {0} \cup 1..MaxJobs
  BY EmailAssumption DEF Keys
<1>3. row[0].status \in {"sent", "failed"} => row'[0].status = row[0].status
  BY <1>1, <1>2 DEF RowStep
<1>4. \A k : Accepted(k) => Accepted(k)'
  BY StepInbox DEF Accepted
<1>5. ReceiptSettled'
  <2> SUFFICES ASSUME NEW w \in Senders, sender'[w].pc # "idle", sender'[w].key # 0
               PROVE  row'[0].status \in {"sent", "failed"}
    BY DEF ReceiptSettled
  <2>1. CASE sender'[w] = sender[w] \/ Stays(w) \/ Keeps(w)
    BY <1>3, <2>1 DEF ReceiptSettled, Stays, Keeps
  <2>2. CASE Claims(w)
    <3>1. PICK k \in Keys : Waiting(k) /\ Unblocked(k) /\ sender'[w].key = k
      BY <2>2 DEF Claims
    <3>2. Present(k) /\ k \in 1..MaxJobs
      BY <1>2, <3>1 DEF Waiting, Present
    <3>3. Present(0) /\ row[0].position < row[k].position
      BY <3>2 DEF Thread
    <3>4. row[0].status \notin {"pending", "sending", "absent"}
      BY <1>2, <3>1, <3>3 DEF Unblocked, Present
    <3>5. row[0].status \in {"sent", "failed"}
      BY <1>2, <3>4 DEF TypeOK, Row
    <3>6. QED
      BY <1>3, <3>5
  <2>3. QED
    BY <2>1, <2>2, StepSenders
<1>6. MarkedIsDelivered'
  <2> SUFFICES ASSUME NEW w \in Senders, sender'[w].pc = "sent"
               PROVE  \E i \in DOMAIN inbox' : inbox'[i] = sender'[w].key
    BY DEF MarkedIsDelivered, Accepted
  <2>1. CASE sender'[w] = sender[w] \/ Stays(w)
    BY <2>1, StepInbox DEF MarkedIsDelivered, Stays
  <2>2. CASE Keeps(w) /\ Delivers(w)
    <3> DEFINE k == sender[w].key
    <3>1. k \in Keys /\ inbox \in Seq(Keys)
      BY DEF TypeOK, Sender
    <3>2. CASE Accepted(k)
      BY <2>2, <3>2, StepInbox DEF Keeps
    <3>3. CASE inbox' = Append(inbox, k)
      <4>1. Len(inbox) + 1 \in DOMAIN inbox' /\ inbox'[Len(inbox) + 1] = k
        BY <3>1, <3>3
      <4>2. QED
        BY <2>2, <4>1 DEF Keeps
    <3>4. QED
      BY <2>2, <3>2, <3>3 DEF Delivers
  <2>3. QED
    BY <2>1, <2>2, StepSenders DEF Claims
<1>7. SentIsDelivered'
  <2> SUFFICES ASSUME NEW k \in Keys, row'[k].status = "sent"
               PROVE  \E i \in DOMAIN inbox' : inbox'[i] = k
    BY DEF SentIsDelivered, Accepted, Keys
  <2>1. row[k].status = "sent" \/ \E w \in Senders : sender[w].pc = "sent" /\ sender[w].key = k
    BY <1>1 DEF RowStep, QueuedLast
  <2>2. Accepted(k)
    BY <2>1 DEF SentIsDelivered, MarkedIsDelivered
  <2>3. QED
    BY <2>2, StepInbox
<1>8. AcceptedOnce'
  <2> SUFFICES ASSUME NEW i \in DOMAIN inbox', NEW j \in DOMAIN inbox', inbox'[i] = inbox'[j]
               PROVE  i = j
    BY DEF AcceptedOnce
  <2>1. CASE i \in DOMAIN inbox /\ j \in DOMAIN inbox
    BY <2>1, StepInbox DEF AcceptedOnce
  <2>2. CASE i \notin DOMAIN inbox /\ j \in DOMAIN inbox
    BY <2>2, StepInbox DEF Accepted
  <2>3. CASE i \in DOMAIN inbox /\ j \notin DOMAIN inbox
    BY <2>3, StepInbox DEF Accepted
  <2>4. CASE i \notin DOMAIN inbox /\ j \notin DOMAIN inbox
    <3>1. inbox \in Seq(Keys) /\ \E k \in Keys : inbox' = Append(inbox, k)
      BY <2>4, StepInbox DEF TypeOK, Sender
    <3>2. DOMAIN inbox = 1..Len(inbox) /\ DOMAIN inbox' = 1..(Len(inbox) + 1) /\ Len(inbox) \in Nat
      BY <3>1
    <3>3. QED
      BY <2>4, <3>2
  <2>5. QED
    BY <2>1, <2>2, <2>3, <2>4
<1>9. ReceiptComesFirst'
  <2> SUFFICES ASSUME NEW i \in DOMAIN inbox', inbox'[i] # 0
               PROVE  (\E j \in 1..i : inbox'[j] = 0) \/ row'[0].status = "failed"
    BY DEF ReceiptComesFirst
  <2>1. CASE i \in DOMAIN inbox
    <3>1. inbox[i] # 0
      BY <2>1, StepInbox
    <3>2. CASE row[0].status = "failed"
      BY <1>3, <3>2
    <3>3. ASSUME NEW j \in 1..i, inbox[j] = 0 PROVE inbox'[j] = 0
      <4>1. j \in DOMAIN inbox
        BY <2>1 DEF TypeOK
      <4>2. QED
        BY <3>3, <4>1, StepInbox
    <3>4. QED
      BY <2>1, <3>1, <3>2, <3>3 DEF ReceiptComesFirst
  <2>2. CASE i \notin DOMAIN inbox
    <3>1. PICK w \in Senders : sender[w].pc = "send" /\ inbox'[i] = sender[w].key
      BY <2>2, StepInbox
    <3>2. row[0].status \in {"sent", "failed"}
      BY <3>1 DEF ReceiptSettled
    <3>3. CASE row[0].status = "failed"
      BY <1>3, <3>3
    <3>4. CASE row[0].status = "sent"
      <4>1. PICK j \in DOMAIN inbox : inbox[j] = 0
        BY <1>2, <3>4 DEF SentIsDelivered, Accepted
      <4>2. j \in 1..i /\ inbox'[j] = 0
        BY <2>2, <4>1, StepInbox
      <4>3. QED
        BY <4>2
    <3>5. QED
      BY <3>2, <3>3, <3>4
  <2>3. QED
    BY <2>1, <2>2
<1>10. QED
  BY <1>5, <1>6, <1>7, <1>8, <1>9

ThreadInv == EventInv /\ OutboxInv

LEMMA ThreadInductive ==
    /\ Init => ThreadInv
    /\ ThreadInv /\ [Next]_vars => ThreadInv'
<1>1. ASSUME Init PROVE OutboxInv
  <2>1. \A k \in Keys : row[k].status = "absent"
    BY <1>1 DEF Init, NoRow
  <2>2. Thread
    <3>1. 0 \in Keys /\ 1..MaxJobs \subseteq Keys
      BY EmailAssumption DEF Keys
    <3>2. \A k \in 1..MaxJobs : ~Present(k)
      BY <2>1, <3>1 DEF Present
    <3>3. QED
      BY <1>1, <2>1, <3>1, <3>2, QuietFields DEF Init, Thread, Present, At
  <2>3. ReceiptSettled /\ MarkedIsDelivered
    BY <1>1 DEF Init, ReceiptSettled, MarkedIsDelivered, Resting
  <2>4. SentIsDelivered
    BY <2>1 DEF SentIsDelivered
  <2>5. AcceptedOnce /\ ReceiptComesFirst
    BY <1>1 DEF Init, AcceptedOnce, ReceiptComesFirst
  <2>6. QED
    BY <2>2, <2>3, <2>4, <2>5 DEF OutboxInv
<1>2. ASSUME ThreadInv, Next PROVE OutboxInv'
  <2>1. Thread'
    BY <1>2, StepThread DEF ThreadInv, EventInv, OutboxInv
  <2>2. QED
    BY <1>2, <2>1, StepOutbox DEF ThreadInv, EventInv, OutboxInv
<1>3. ASSUME ThreadInv, UNCHANGED vars PROVE OutboxInv'
  BY <1>3 DEF ThreadInv, OutboxInv, Thread, ReceiptSettled, MarkedIsDelivered, SentIsDelivered,
              AcceptedOnce, ReceiptComesFirst, Accepted, Present, At, vars, eventVars, outboxVars, Keys
<1>4. QED
  BY <1>1, <1>2, <1>3, EventInductive DEF ThreadInv

\* Spec keeps the thread in its order, its workers behind the receipt, and every key
\* accepted once.
THEOREM ThreadCorrect == Spec => []ThreadInv
BY ThreadInductive, PTL DEF Spec

\* A row is marked as sent only when the provider took the message, whichever of the
\* workers that held it did so.
THEOREM SentIsDeliveredHolds == Spec => []SentIsDelivered
<1>1. ThreadInv => SentIsDelivered
  BY DEF ThreadInv, OutboxInv
<1>2. QED
  BY <1>1, ThreadCorrect, PTL

\* No review reaches the sender before the receipt, unless the receipt was given up.
THEOREM ReceiptComesFirstHolds == Spec => []ReceiptComesFirst
<1>1. ThreadInv => ReceiptComesFirst
  BY DEF ThreadInv, OutboxInv
<1>2. QED
  BY <1>1, ThreadCorrect, PTL

-----------------------------------------------------------------------------
(* Repeated reviews *)

JobsFor(a) == {n \in 1..MaxJobs : job[n] = a}

\* Passes that may still publish a job for a.
Busy(a) == {h \in Handlers : \/ At(h, "fetch")
                             \/ handler[h].pc \in {"receipt", "publish"} /\ a \in handler[h].todo}

\* Another pass may begin.
Open == IF Claimable THEN 1 ELSE 0

\* Every job that was or may be published for a beyond the first has its reason.
Accounted ==
    \A a \in Files : Cardinality(JobsFor(a)) + Cardinality(Busy(a)) + Open <= 1 + reasons

InAccount(a) == Cardinality(JobsFor(a)) + Cardinality(Busy(a)) + Open <= 1 + reasons

CountedInv == ThreadInv /\ Accounted

LEMMA Finite ==
    ASSUME NEW a \in Files
    PROVE  /\ IsFiniteSet(Busy(a)) /\ Cardinality(Busy(a)) \in Nat
           /\ IsFiniteSet(Busy(a)') /\ Cardinality(Busy(a)') \in Nat
           /\ IsFiniteSet(JobsFor(a)) /\ Cardinality(JobsFor(a)) \in Nat
           /\ IsFiniteSet(JobsFor(a)') /\ Cardinality(JobsFor(a)') \in Nat
<1>1. Busy(a) \subseteq Handlers /\ Busy(a)' \subseteq Handlers
  BY DEF Busy
<1>2. JobsFor(a) \subseteq 1..MaxJobs /\ JobsFor(a)' \subseteq 1..MaxJobs
  BY DEF JobsFor
<1>3. IsFiniteSet(1..MaxJobs)
  BY FS_Interval, EmailAssumption
<1>4. QED
  BY <1>1, <1>2, <1>3, FS_Subset, FS_CardinalityType, EmailAssumption

\* One pass more or less is busy with an attachment.
LEMMA BusyChanges ==
    ASSUME NEW a \in Files, NEW h \in Handlers,
           \A g \in Handlers \ {h} : /\ handler'[g].pc = handler[g].pc
                                     /\ handler'[g].todo = handler[g].todo
    PROVE  /\ Cardinality(Busy(a)') <= Cardinality(Busy(a)) + 1
           /\ h \in Busy(a) \/ h \notin Busy(a)' => Cardinality(Busy(a)') <= Cardinality(Busy(a))
           /\ h \in Busy(a) /\ h \notin Busy(a)' =>
                 Cardinality(Busy(a)') + 1 = Cardinality(Busy(a))
<1>1. \A g \in Handlers \ {h} : g \in Busy(a)' <=> g \in Busy(a)
  BY DEF Busy, At
<1>2. Busy(a) \subseteq Handlers /\ Busy(a)' \subseteq Handlers
  BY DEF Busy
<1> HIDE DEF Busy
<1> DEFINE B == Busy(a)  C == Busy(a)'
<1>3. IsFiniteSet(B) /\ IsFiniteSet(C) /\ Cardinality(B) \in Nat /\ Cardinality(C) \in Nat
  BY Finite
<1>4. CASE h \in B <=> h \in C
  <2>1. \A g \in Handlers : g \in B <=> g \in C
    BY <1>1, <1>4
  <2>2. B = C
    BY <1>2, <2>1
  <2>3. QED
    BY <1>3, <1>4, <2>2
<1>5. CASE h \notin B /\ h \in C
  <2>1. C = B \cup {h}
    BY <1>1, <1>2, <1>5
  <2>2. Cardinality(C) = Cardinality(B) + 1
    BY <1>3, <1>5, <2>1, FS_AddElement
  <2>3. QED
    BY <1>3, <1>5, <2>2
<1>6. CASE h \in B /\ h \notin C
  <2>1. B = C \cup {h}
    BY <1>1, <1>2, <1>6
  <2>2. Cardinality(B) = Cardinality(C) + 1
    BY <1>3, <1>6, <2>1, FS_AddElement
  <2>3. QED
    BY <1>3, <1>6, <2>2
<1>7. QED
  BY <1>4, <1>5, <1>6

LEMMA SameBusy ==
    ASSUME NEW a \in Files,
           \A h \in Handlers : handler'[h].pc = handler[h].pc /\ handler'[h].todo = handler[h].todo
    PROVE  Cardinality(Busy(a)') = Cardinality(Busy(a))
<1>1. Busy(a)' = Busy(a)
  BY DEF Busy, At
<1>2. QED
  BY <1>1

LEMMA SameJobs ==
    ASSUME NEW a \in Files, job' = job
    PROVE  Cardinality(JobsFor(a)') = Cardinality(JobsFor(a))
<1>1. JobsFor(a)' = JobsFor(a)
  BY DEF JobsFor
<1>2. QED
  BY <1>1

LEMMA OpenBounds == Open \in 0..1 /\ Open' \in 0..1
BY DEF Open

LEMMA Sums ==
    ASSUME NEW c \in Nat, NEW b \in Nat, NEW b1 \in Nat, NEW o \in 0..1, NEW o1 \in 0..1,
           NEW r \in Nat, NEW j \in 0..1, NEW l \in 0..1,
           c + b + o <= 1 + r, b1 <= b + j, o1 + j <= o + l
    PROVE  c + b1 + o1 <= 1 + (r + l)
OBVIOUS

\* The account of an attachment after a step without a job, from what changed.
LEMMA Account ==
    ASSUME CountedInv, NEW a \in Files, NEW j \in 0..1, NEW l \in 0..1, job' = job,
           Cardinality(Busy(a)') <= Cardinality(Busy(a)) + j,
           reasons' = reasons + l, Open' + j <= Open + l
    PROVE  InAccount(a)'
<1>1. /\ reasons \in Nat /\ Cardinality(JobsFor(a)) \in Nat
      /\ Cardinality(Busy(a)) \in Nat /\ Cardinality(Busy(a)') \in Nat
  BY Finite DEF CountedInv, ThreadInv, EventInv, TypeOK
<1>2. Open \in 0..1 /\ Open' \in 0..1
  BY OpenBounds
<1>3. Cardinality(JobsFor(a)) + Cardinality(Busy(a)) + Open <= 1 + reasons
  BY DEF CountedInv, Accounted
<1>4. Cardinality(JobsFor(a)') = Cardinality(JobsFor(a))
  BY SameJobs
<1>5. Cardinality(JobsFor(a)) + Cardinality(Busy(a)') + Open' <= 1 + (reasons + l)
  BY <1>1, <1>2, <1>3, Sums
<1>6. QED
  BY <1>4, <1>5 DEF InAccount

\* A pass that publishes a job for an attachment is done with it.
LEMMA PublishCounts ==
    ASSUME CountedInv, NEW a \in Files, NEW h \in Handlers, Publish(h)
    PROVE  InAccount(a)'
<1> USE DEF CountedInv, ThreadInv, EventInv
<1>1. PICK f \in handler[h].todo, n \in 1..MaxJobs :
         /\ At(h, "publish") /\ job[n] = None /\ job' = [job EXCEPT ![n] = f] /\ Moves(h)
         /\ \/ handler'[h].todo = handler[h].todo \ {f}
            \/ handler'[h].pc = "fail"
         /\ handler'[h].pc \in {"publish", "respond", "close", "fail"}
         /\ handler'[h].todo \subseteq handler[h].todo
  BY PublishEffect, AfterFilesIsNext
<1>2. f \in Files /\ f # None /\ a # None
  BY EmailAssumption DEF TypeOK, Handler
<1>3. reasons' = reasons /\ Open' = Open
  BY DEF Publish, Open, Claimable
<1>4. /\ reasons \in Nat /\ Cardinality(JobsFor(a)) \in Nat
      /\ Cardinality(Busy(a)) \in Nat /\ Cardinality(Busy(a)') \in Nat
  BY Finite DEF TypeOK
<1>5. Open \in 0..1 /\ Cardinality(JobsFor(a)) + Cardinality(Busy(a)) + Open <= 1 + reasons
  BY OpenBounds DEF Accounted
<1>6. \A g \in Handlers \ {h} : handler'[g].pc = handler[g].pc /\ handler'[g].todo = handler[g].todo
  BY <1>1 DEF Moves
<1>7. CASE a = f
  <2>1. h \in Busy(a) /\ h \notin Busy(a)'
    BY <1>1, <1>7 DEF Busy, At
  <2>2. Cardinality(Busy(a)') + 1 = Cardinality(Busy(a))
    BY <1>6, <2>1, BusyChanges
  <2>3. JobsFor(a)' = JobsFor(a) \cup {n} /\ n \notin JobsFor(a)
    BY <1>1, <1>2, <1>7 DEF JobsFor, TypeOK
  <2>4. Cardinality(JobsFor(a)') = Cardinality(JobsFor(a)) + 1
    BY <2>3, Finite, FS_AddElement
  <2>5. QED
    BY <1>3, <1>4, <1>5, <2>2, <2>4 DEF InAccount
<1>8. CASE a # f
  <2>1. h \in Busy(a)' => h \in Busy(a)
    BY <1>1 DEF Busy, At
  <2>2. Cardinality(Busy(a)') <= Cardinality(Busy(a))
    BY <1>6, <2>1, BusyChanges
  <2>3. JobsFor(a)' = JobsFor(a)
    BY <1>1, <1>2, <1>8 DEF JobsFor, TypeOK
  <2>4. QED
    BY <1>3, <1>4, <1>5, <2>2, <2>3 DEF InAccount
<1>9. QED
  BY <1>7, <1>8

LEMMA StepCounts == ASSUME CountedInv, [Next]_vars PROVE Accounted'
<1> SUFFICES ASSUME NEW a \in Files PROVE InAccount(a)'
  BY DEF Accounted, InAccount
<1> USE DEF CountedInv, ThreadInv, EventInv
<1>1. reasons \in Nat /\ Open \in 0..1 /\ Open' \in 0..1
  BY OpenBounds DEF TypeOK
<1>2. /\ Cardinality(Busy(a)) \in Nat /\ Cardinality(Busy(a)') \in Nat
  BY Finite
<1>0. 0 \in 0..1 /\ 1 \in 0..1 /\ Open' + 0 <= Open + 1
  <2>1. \A m, n \in 0..1 : n + 0 <= m + 1
    OBVIOUS
  <2>2. 0 \in 0..1 /\ 1 \in 0..1
    OBVIOUS
  <2>3. Open' + 0 <= Open + 1
    BY <1>1, <2>1
  <2>4. QED
    BY <2>2, <2>3
<1>3. CASE /\ \A h \in Handlers : handler'[h].pc = handler[h].pc /\ handler'[h].todo = handler[h].todo
           /\ UNCHANGED <<event, stale, reasons, job>>
  <2>1. Open' = Open
    BY <1>3 DEF Open, Claimable
  <2>2. Cardinality(Busy(a)') = Cardinality(Busy(a))
    BY <1>3, SameBusy
  <2>3. QED
    BY <1>1, <1>2, <1>3, <2>1, <2>2, Account
<1>4. ASSUME NEW h \in Handlers, Deliver(h) PROVE InAccount(a)'
  <2>1. h \notin Busy(a)'
    BY <1>4, DeliverEffect DEF Busy, At
  <2>2. Cardinality(Busy(a)') <= Cardinality(Busy(a))
    BY <1>4, <2>1, DeliverEffect, BusyChanges
  <2>3. UNCHANGED <<event, stale, reasons, job>> /\ Open' = Open
    BY <1>4 DEF Deliver, Open, Claimable
  <2>4. QED
    BY <1>1, <1>2, <2>2, <2>3, Account
<1>5. ASSUME NEW h \in Handlers, HandlerStep(h) \/ CrashHandler(h)
      PROVE  \A g \in Handlers \ {h} : handler'[g].pc = handler[g].pc
                                       /\ handler'[g].todo = handler[g].todo
  BY <1>5, HandlerTypes DEF Moves
<1>6. ASSUME NEW h \in Handlers, Claim(h) PROVE InAccount(a)'
  <2>1. job' = job /\ reasons' = reasons
    BY <1>6 DEF Claim
  <2>2. CASE Claimable /\ event' = "processing" /\ stale' = FALSE
    <3>1. Open = 1 /\ Open' = 0
      BY <2>2 DEF Open, Claimable
    <3>2. Cardinality(Busy(a)') <= Cardinality(Busy(a)) + 1
      BY <1>5, <1>6, BusyChanges DEF HandlerStep
    <3>3. QED
      BY <1>1, <2>1, <3>1, <3>2, Account
  <2>3. CASE ~Claimable /\ Answer(h) /\ UNCHANGED <<event, stale>>
    <3>1. Open' = Open
      BY <2>3 DEF Open, Claimable
    <3>2. h \notin Busy(a)'
      BY <2>3, ResetEffect, QuietFields DEF Answer, Busy, At
    <3>3. Cardinality(Busy(a)') <= Cardinality(Busy(a))
      BY <1>5, <1>6, <3>2, BusyChanges DEF HandlerStep
    <3>4. QED
      BY <1>1, <1>2, <2>1, <3>1, <3>3, Account
  <2>4. QED
    BY <1>6, <2>2, <2>3 DEF Claim
<1>7. ASSUME NEW h \in Handlers, Ignore(h) \/ Limit(h) \/ Close(h) PROVE InAccount(a)'
  <2>1. job' = job /\ reasons' = reasons /\ event' = "completed"
    BY <1>7 DEF Ignore, Limit, Close
  <2>2. Open' = 0
    BY <2>1 DEF Open, Claimable
  <2>3. h \notin Busy(a)'
    BY <1>7, ResetEffect, QuietFields DEF Ignore, Limit, Close, Answer, Busy, At
  <2>4. Cardinality(Busy(a)') <= Cardinality(Busy(a))
    BY <1>5, <1>7, <2>3, BusyChanges DEF HandlerStep
  <2>5. QED
    BY <1>1, <1>2, <2>1, <2>2, <2>4, Account
<1>8. ASSUME NEW h \in Handlers,
             Fetch(h) \/ QueueReceipt(h) \/ Respond(h) \/ Fail(h) \/ CrashHandler(h)
      PROVE  InAccount(a)'
  <2>1. UNCHANGED <<event, stale, reasons, job>>
    BY <1>8 DEF Fetch, QueueReceipt, Respond, Fail, CrashHandler
  <2>2. Open' = Open
    BY <2>1 DEF Open, Claimable
  <2>3. h \in Busy(a)' => h \in Busy(a)
    <3>1. CASE Fetch(h)
      BY <3>1 DEF Fetch, Busy, At
    <3>2. CASE QueueReceipt(h)
      BY <3>2, GoesEffect, AfterFilesIsNext DEF QueueReceipt, Busy, At, Places
    <3>3. CASE Respond(h) \/ Fail(h)
      BY <3>3, GoesEffect DEF Respond, Fail, Busy, At, Places
    <3>4. CASE CrashHandler(h)
      BY <3>4, ResetEffect, QuietFields DEF CrashHandler, Busy, At
    <3>5. QED
      BY <1>8, <3>1, <3>2, <3>3, <3>4
  <2>4. Cardinality(Busy(a)') <= Cardinality(Busy(a))
    BY <1>5, <1>8, <2>3, BusyChanges DEF HandlerStep
  <2>5. QED
    BY <1>1, <1>2, <2>1, <2>2, <2>4, Account
<1>9. ASSUME NEW h \in Handlers, MarkFailed(h) PROVE InAccount(a)'
  <2>1. job' = job /\ reasons' = reasons + 1
    BY <1>9 DEF MarkFailed
  <2>2. h \notin Busy(a)'
    BY <1>9, ResetEffect, QuietFields DEF MarkFailed, Busy, At
  <2>3. Cardinality(Busy(a)') <= Cardinality(Busy(a))
    BY <1>5, <1>9, <2>2, BusyChanges DEF HandlerStep
  <2>4. Cardinality(Busy(a)') <= Cardinality(Busy(a)) + 0
    BY <1>2, <2>3
  <2>5. QED
    BY <1>0, <2>1, <2>4, Account
<1>10. CASE Lapse
  <2>1. job' = job /\ reasons' = reasons + 1 /\ handler' = handler
    BY <1>10 DEF Lapse
  <2>2. Cardinality(Busy(a)') = Cardinality(Busy(a))
    BY <2>1, SameBusy
  <2>3. Cardinality(Busy(a)') <= Cardinality(Busy(a)) + 0
    BY <1>2, <2>2
  <2>4. QED
    BY <1>0, <2>1, <2>3, Account
<1>11. ASSUME NEW w \in Senders, SenderStep(w) \/ CrashSender(w) PROVE UNCHANGED <<eventVars, job>>
  BY <1>11 DEF SenderStep, Pick, Check, Accept, Reject, MarkSent, Reschedule, CrashSender
<1>12. CASE UNCHANGED <<eventVars, job>>
  BY <1>3, <1>12 DEF eventVars
<1>13. CASE Next
  <2>1. ASSUME NEW h \in Handlers, HandlerStep(h) \/ CrashHandler(h) PROVE InAccount(a)'
    BY <1>6, <1>7, <1>8, <1>9, <2>1, PublishCounts DEF HandlerStep
  <2>2. QED
    BY <1>4, <1>10, <1>11, <1>12, <1>13, <2>1
       DEF Next, Settle, Review, Finish, DeleteContract, LapseLease
<1>14. QED
  BY <1>12, <1>13 DEF vars

\* As many reviews of an attachment reach the sender as jobs were published for it,
\* and those, with the passes that may publish another, are one more than the
\* failures and the claims that went stale.
THEOREM RepeatedReviewNeedsReasonHolds == Spec => []RepeatedReviewNeedsReason
<1>1. ASSUME Init PROVE CountedInv
  <2>1. Accounted
    <3> SUFFICES ASSUME NEW a \in Files
                 PROVE  Cardinality(JobsFor(a)) + Cardinality(Busy(a)) + Open <= 1 + reasons
      BY DEF Accounted
    <3>1. JobsFor(a) = {} /\ Busy(a) = {}
      BY <1>1, QuietFields, EmailAssumption DEF Init, JobsFor, Busy, At
    <3>2. Open \in 0..1 /\ reasons = 0
      BY <1>1, OpenBounds DEF Init
    <3>3. QED
      BY <3>1, <3>2, FS_EmptySet
  <2>2. QED
    BY <1>1, <2>1, ThreadInductive DEF CountedInv
<1>2. ASSUME CountedInv, [Next]_vars PROVE CountedInv'
  BY <1>2, ThreadInductive, StepCounts DEF CountedInv
<1>3. ASSUME CountedInv PROVE RepeatedReviewNeedsReason
  <2> SUFFICES ASSUME NEW a \in Files
               PROVE  Cardinality({i \in DOMAIN inbox : inbox[i] # 0 /\ job[inbox[i]] = a})
                        <= 1 + reasons
    BY DEF RepeatedReviewNeedsReason
  <2> DEFINE Reviews == {i \in DOMAIN inbox : inbox[i] # 0 /\ job[inbox[i]] = a}
             key == [i \in Reviews |-> inbox[i]]
  <2>1. \A i \in DOMAIN inbox : inbox[i] \in Keys
    BY <1>3 DEF CountedInv, ThreadInv, EventInv, TypeOK
  <2>2. \A i \in Reviews : inbox[i] \in JobsFor(a)
    BY <2>1, EmailAssumption DEF Keys, JobsFor
  <2>3. key \in Injection(Reviews, JobsFor(a))
    <3>1. key \in [Reviews -> JobsFor(a)]
      BY <2>2
    <3>2. \A i, j \in Reviews : key[i] = key[j] => i = j
      BY <1>3 DEF CountedInv, ThreadInv, OutboxInv, AcceptedOnce
    <3>3. QED
      BY <3>1, <3>2 DEF Injection, IsInjective
  <2>4. IsFiniteSet(JobsFor(a)) /\ Cardinality(JobsFor(a)) \in Nat /\ Cardinality(Busy(a)) \in Nat
    BY Finite
  <2> HIDE DEF Reviews, key
  <2>5. IsFiniteSet(Reviews) /\ Cardinality(Reviews) <= Cardinality(JobsFor(a))
    BY <2>3, <2>4, FS_Injection
  <2>6. Cardinality(Reviews) \in Nat
    BY <2>5, FS_CardinalityType
  <2>7. /\ Cardinality(JobsFor(a)) + Cardinality(Busy(a)) + Open <= 1 + reasons
        /\ Open \in 0..1 /\ reasons \in Nat
    BY <1>3, OpenBounds DEF CountedInv, Accounted, ThreadInv, EventInv, TypeOK
  <2>8. Cardinality(Reviews) <= 1 + reasons
    BY <2>4, <2>5, <2>6, <2>7
  <2>9. QED
    BY <2>8 DEF Reviews
<1>4. QED
  BY <1>1, <1>2, <1>3, PTL DEF Spec

-----------------------------------------------------------------------------
(* The outbox promised by OrderedOutbox *)

Held == {sender[w].key : w \in {v \in Senders : sender[v].pc # "idle"}}

Delivered == {inbox[i] : i \in DOMAIN inbox}

HadItsTurn(k) == OutboxState(k) # "none" /\ WaitsFor(k) = {}

\* What a worker holds has had its turn, unless its row was deleted.
HeldHadItsTurn ==
    \A w \in Senders : sender[w].pc # "idle" /\ ~sender[w].gone => HadItsTurn(sender[w].key)

SameState(k) == /\ (OutboxState(k))' = OutboxState(k)
                /\ row'[k].position = row[k].position \/ OutboxState(k) # "open"

\* Where no row opens or closes, nobody waits for anybody else than before.
LEMMA SameStates ==
    ASSUME \A k \in Keys : SameState(k)
    PROVE  UNCHANGED <<[k \in Keys |-> OutboxState(k)], [k \in Keys |-> WaitsFor(k)]>>
<1>1. \A k \in Keys : (OutboxState(k))' = OutboxState(k)
  BY DEF SameState
<1>2. ASSUME NEW k \in Keys PROVE (WaitsFor(k))' = WaitsFor(k)
  <2>1. \A o \in Keys : OutboxState(o) = "open" => row'[o].position = row[o].position
    BY DEF SameState
  <2>2. \A o \in Keys : o \in (WaitsFor(k))' <=> o \in WaitsFor(k)
    BY <1>1, <2>1 DEF WaitsFor
  <2>3. (WaitsFor(k))' \subseteq Keys /\ WaitsFor(k) \subseteq Keys
    BY DEF WaitsFor
  <2>4. QED
    BY <2>2, <2>3
<1>3. QED
  BY <1>1, <1>2

\* Messages that come to an end are waited for no longer.
LEMMA StatesLeave ==
    ASSUME NEW M \in SUBSET Keys, NEW outcome \in {"sent", "dropped", "none"},
           Held' \subseteq Held, UNCHANGED inbox,
           \A k \in M : (OutboxState(k))' = outcome,
           \A k \in Keys \ M : SameState(k)
    PROVE  Outbox!Leaves(M, outcome)
<1>1. \A k \in Keys : (OutboxState(k))' = IF k \in M THEN outcome ELSE OutboxState(k)
  BY DEF SameState
<1>2. ASSUME NEW k \in Keys PROVE (WaitsFor(k))' = IF k \in M THEN {} ELSE WaitsFor(k) \ M
  <2>1. \A o \in Keys \ M : OutboxState(o) = "open" => row'[o].position = row[o].position
    BY DEF SameState
  <2>2. \A o \in Keys : o \in (WaitsFor(k))' <=> k \notin M /\ o \notin M /\ o \in WaitsFor(k)
    BY <1>1, <2>1 DEF WaitsFor
  <2>3. (WaitsFor(k))' \subseteq Keys /\ WaitsFor(k) \subseteq Keys
    BY DEF WaitsFor
  <2>4. QED
    BY <2>2, <2>3
<1>3. QED
  BY <1>1, <1>2 DEF Outbox!Leaves, Held

\* A message that is queued waits for all that are open.
LEMMA StateOpens ==
    ASSUME NEW k \in Keys, OutboxState(k) = "none", (OutboxState(k))' = "open",
           \A o \in Keys \ {k} : SameState(o),
           \A o \in Keys : OutboxState(o) = "open" => row[o].position < row'[k].position,
           \A o \in Keys : row[o].position \in Nat /\ row'[o].position \in Nat,
           Held' = Held, UNCHANGED inbox
    PROVE  Outbox!Queue(k)
<1>1. \A o \in Keys : (OutboxState(o))' = IF o = k THEN "open" ELSE OutboxState(o)
  BY DEF SameState
<1>2. ASSUME NEW j \in Keys
      PROVE  (WaitsFor(j))' = IF j = k THEN {o \in Keys : OutboxState(o) = "open"} ELSE WaitsFor(j)
  <2>1. \A o \in Keys \ {k} : OutboxState(o) = "open" => row'[o].position = row[o].position
    BY DEF SameState
  <2>2. CASE j = k
    <3>1. \A o \in Keys : o \in (WaitsFor(j))' <=> OutboxState(o) = "open"
      BY <1>1, <2>1, <2>2 DEF WaitsFor
    <3>2. (WaitsFor(j))' \subseteq Keys
      BY DEF WaitsFor
    <3>3. QED
      BY <2>2, <3>1, <3>2
  <2>3. CASE j # k
    <3>1. \A o \in Keys : o \in (WaitsFor(j))' <=> o \in WaitsFor(j)
      BY <1>1, <2>1, <2>3 DEF WaitsFor
    <3>2. (WaitsFor(j))' \subseteq Keys /\ WaitsFor(j) \subseteq Keys
      BY DEF WaitsFor
    <3>3. QED
      BY <2>3, <3>1, <3>2
  <2>4. QED
    BY <2>2, <2>3
<1>3. {o \in Keys : [n \in Keys |-> 0][o] = [n \in Keys |-> 0][k] /\ [n \in Keys |-> OutboxState(n)][o] = "open"}
         = {o \in Keys : OutboxState(o) = "open"}
  OBVIOUS
<1>4. QED
  BY <1>1, <1>2, <1>3 DEF Outbox!Queue, Held

\* The moves of an outbox, each by its name.
LEMMA OutboxMoves ==
    /\ \A k \in Keys : Outbox!Queue(k) \/ Outbox!Refuse(k) \/ Outbox!Accept(k) \/ Outbox!Send(k)
                           => Outbox!Next
    /\ \A M \in SUBSET Keys : Outbox!Take(M) \/ Outbox!Drop(M) \/ Outbox!Delete(M) => Outbox!Next
    /\ Outbox!PutAway => Outbox!Next
<1>1. ASSUME NEW k \in Keys,
             Outbox!Queue(k) \/ Outbox!Refuse(k) \/ Outbox!Accept(k) \/ Outbox!Send(k)
      PROVE  Outbox!Next
  BY <1>1 DEF Outbox!Next
<1>2. ASSUME NEW M \in SUBSET Keys, Outbox!Take(M) \/ Outbox!Drop(M) \/ Outbox!Delete(M)
      PROVE  Outbox!Next
  BY <1>2 DEF Outbox!Next
<1>3. ASSUME Outbox!PutAway PROVE Outbox!Next
  BY <1>3 DEF Outbox!Next
<1>4. QED
  BY <1>1, <1>2, <1>3

\* A step that does not touch the rows.
LEMMA SameRows ==
    ASSUME UNCHANGED <<row, inbox>>, Held' \subseteq Held
    PROVE  Outbox!PutAway /\ (UNCHANGED sender => UNCHANGED Outbox!vars)
<1>1. \A k \in Keys : SameState(k)
  BY DEF SameState, OutboxState
<1>2. UNCHANGED <<[k \in Keys |-> OutboxState(k)], [k \in Keys |-> WaitsFor(k)]>>
  BY <1>1, SameStates
<1>3. QED
  BY <1>2 DEF Outbox!PutAway, Outbox!vars, Held

\* enqueue puts a message behind the whole thread, or finds it there.
LEMMA EnqueueIsQueue ==
    ASSUME TypeOK, TypeOK', NEW k \in Keys, Enqueue(k), UNCHANGED <<sender, inbox>>
    PROVE  [Outbox!Next]_(Outbox!vars)
<1>1. CASE Present(k)
  <2>1. row' = row
    BY <1>1 DEF Enqueue
  <2>2. QED
    BY <2>1, SameRows DEF Held
<1>2. CASE ~Present(k)
  <2>1. QueuedLast(k) /\ \A o \in Keys \ {k} : row'[o] = row[o]
    BY <1>2, EnqueueEffect
  <2>2. OutboxState(k) = "none" /\ (OutboxState(k))' = "open"
    BY <1>2, <2>1 DEF OutboxState, QueuedLast, Present
  <2>3. \A o \in Keys \ {k} : SameState(o)
    BY <2>1 DEF SameState, OutboxState
  <2>4. \A o \in Keys : OutboxState(o) = "open" => row[o].position < row'[k].position
    BY <2>1 DEF QueuedLast, OutboxState, Present
  <2>5. \A o \in Keys : row[o].position \in Nat /\ row'[o].position \in Nat
    BY DEF TypeOK, Row
  <2>6. Held' = Held
    BY DEF Held
  <2>7. QED
    BY <2>2, <2>3, <2>4, <2>5, <2>6, StateOpens, OutboxMoves
<1>3. QED
  BY <1>1, <1>2

\* delete_contract takes rows along in whatever state they are.
LEMMA DeleteContractIsDelete ==
    ASSUME TypeOK, NEW a \in Files, DeleteContract(a)
    PROVE  Outbox!Next
<1>1. PICK M \in SUBSET Keys :
         /\ M \subseteq 1..MaxJobs
         /\ row' = [k \in Keys |-> IF k \in M THEN NoRow ELSE row[k]]
  <2>1. 1..MaxJobs \subseteq Keys
    BY EmailAssumption DEF Keys
  <2>2. QED
    BY <2>1 DEF DeleteContract
<1>2. \A w \in Senders : sender'[w].pc = sender[w].pc /\ sender'[w].key = sender[w].key
  BY DEF DeleteContract, TypeOK, Sender
<1>3. Held' = Held /\ inbox' = inbox
  BY <1>2 DEF Held, DeleteContract
<1>4. \A k \in M : (OutboxState(k))' = "none"
  BY <1>1 DEF OutboxState, NoRow
<1>5. \A k \in Keys \ M : SameState(k)
  BY <1>1 DEF SameState, OutboxState
<1>6. Outbox!Leaves(M, "none")
  BY <1>3, <1>4, <1>5, StatesLeave
<1>7. QED
  BY <1>1, <1>6, OutboxMoves DEF Outbox!Delete

\* claim_due hands out a row whose turn it is.
LEMMA PickIsTake ==
    ASSUME TypeOK, NEW w \in Senders, NEW k \in Keys, Pick(w, k)
    PROVE  Outbox!Next
<1>1. /\ row'[k].status = "sending" /\ row'[k].position = row[k].position
      /\ \A o \in Keys \ {k} : row'[o] = row[o]
      /\ UNCHANGED inbox
  BY DEF Pick, TypeOK, Row
<1>2. OutboxState(k) = "open" /\ WaitsFor(k) = {}
  BY DEF Pick, Waiting, Unblocked, WaitsFor, OutboxState
<1>3. \A o \in Keys : SameState(o)
  BY <1>1, <1>2 DEF SameState, OutboxState
<1>4. UNCHANGED <<[o \in Keys |-> OutboxState(o)], [o \in Keys |-> WaitsFor(o)]>>
  BY <1>3, SameStates
<1>5. Held' = Held \cup {k}
  <2>1. /\ sender[w].pc = "idle" /\ sender'[w].pc = "check" /\ sender'[w].key = k
        /\ \A v \in Senders \ {w} : sender'[v] = sender[v]
    BY DEF Pick, TypeOK
  <2>2. QED
    BY <2>1 DEF Held
<1>6. Outbox!Take({k})
  BY <1>1, <1>2, <1>4, <1>5 DEF Outbox!Take, Held
<1>7. {k} \in SUBSET Keys
  OBVIOUS
<1>8. QED
  BY <1>6, <1>7, OutboxMoves

\* A worker that goes on, or stops, holds nothing new.
LEMMA HeldShrinks ==
    ASSUME NEW w \in Senders, \A v \in Senders \ {w} : sender'[v] = sender[v],
           sender'[w].pc = "idle" \/ Keeps(w)
    PROVE  /\ Held' \subseteq Held
           /\ Keeps(w) /\ sender'[w].pc # "idle" => Held' = Held
<1>1. Held' \subseteq Held
  BY DEF Held, Keeps
<1>2. ASSUME Keeps(w), sender'[w].pc # "idle" PROVE Held \subseteq Held'
  BY <1>2 DEF Held, Keeps
<1>3. QED
  BY <1>1, <1>2

\* What the workers do to the row they hold: nothing, or its end.
LEMMA SenderIsOutbox ==
    ASSUME ThreadInv, HeldHadItsTurn, NEW w \in Senders,
           Check(w) \/ Accept(w) \/ Reject(w) \/ MarkSent(w) \/ Reschedule(w) \/ CrashSender(w)
    PROVE  Outbox!Next
<1> USE DEF ThreadInv, EventInv
<1>1. PICK k \in Keys : k = sender[w].key
  BY DEF TypeOK, Sender
<1>3. k \in Held /\ (Sending(w) => row[k].status = "sending" /\ WaitsFor(k) = {})
  <2>1. sender[w].pc # "idle"
    BY DEF Check, Accept, Reject, MarkSent, Reschedule, CrashSender
  <2>2. QED
    BY <1>1, <2>1 DEF Held, HeldHadItsTurn, HadItsTurn, Sending
<1>4. /\ \A v \in Senders \ {w} : sender'[v] = sender[v]
      /\ sender'[w].pc = "idle" \/ Keeps(w)
      /\ Accept(w) => sender'[w].pc # "idle"
  <2>1. ASSUME sender' = [sender EXCEPT ![w] = Resting]
        PROVE  sender'[w].pc = "idle" /\ \A v \in Senders \ {w} : sender'[v] = sender[v]
    BY <2>1 DEF TypeOK, Resting
  <2>2. ASSUME NEW pc \in {"send", "sent", "failed"}, sender' = [sender EXCEPT ![w].pc = pc]
        PROVE  /\ sender'[w].pc = pc /\ sender'[w].key = sender[w].key
               /\ sender'[w].gone = sender[w].gone
               /\ \A v \in Senders \ {w} : sender'[v] = sender[v]
    BY <2>2 DEF TypeOK, Sender
  <2>3. CASE Accept(w) \/ Reject(w)
    BY <2>2, <2>3 DEF Accept, Reject, Keeps
  <2>4. CASE Check(w)
    BY <2>1, <2>2, <2>4 DEF Check, Keeps, Accept
  <2>5. CASE MarkSent(w) \/ Reschedule(w) \/ CrashSender(w)
    BY <2>1, <2>2, <2>5 DEF MarkSent, Reschedule, CrashSender, Accept
  <2>6. QED
    BY <2>3, <2>4, <2>5
<1>5. Held' \subseteq Held /\ (Accept(w) => Held' = Held)
  BY <1>4, HeldShrinks
<1>6. CASE row' = row /\ inbox' = inbox
  BY <1>5, <1>6, SameRows, OutboxMoves
<1>7. CASE Accept(w)
  <2>1. Delivered' = Delivered \cup {k}
    <3>1. inbox' = (IF Accepted(k) THEN inbox ELSE Append(inbox, k)) /\ inbox \in Seq(Keys)
      BY <1>1, <1>7 DEF Accept, TypeOK
    <3>2. CASE Accepted(k)
      BY <3>1, <3>2 DEF Delivered, Accepted
    <3>3. CASE ~Accepted(k)
      <4>1. /\ DOMAIN inbox = 1..Len(inbox) /\ Len(inbox) \in Nat
            /\ DOMAIN inbox' = 1..Len(inbox) + 1
            /\ \A i \in 1..Len(inbox) : inbox'[i] = inbox[i]
            /\ inbox'[Len(inbox) + 1] = k
        BY <3>1, <3>3
      <4>2. DOMAIN inbox' = DOMAIN inbox \cup {Len(inbox) + 1}
        BY <4>1
      <4>3. QED
        BY <4>1, <4>2 DEF Delivered
    <3>4. QED
      BY <3>2, <3>3
  <2>2. row' = row
    BY <1>7 DEF Accept
  <2>3. \A o \in Keys : SameState(o)
    BY <2>2 DEF SameState, OutboxState
  <2>4. UNCHANGED <<[o \in Keys |-> OutboxState(o)], [o \in Keys |-> WaitsFor(o)]>>
    BY <2>3, SameStates
  <2>5. Outbox!Accept(k)
    BY <1>3, <1>5, <1>7, <2>1, <2>4 DEF Outbox!Accept, Held, Delivered
  <2>6. QED
    BY <2>5, OutboxMoves
<1>8. ASSUME NEW s \in {"sent", "failed", "pending"}, Sending(w),
             row' = [row EXCEPT ![k].status = s, ![k].lapsed = FALSE], inbox' = inbox,
             s = "sent" => k \in Delivered
      PROVE  Outbox!Next
  <2>1. /\ row'[k].status = s /\ row'[k].position = row[k].position
        /\ \A o \in Keys \ {k} : row'[o] = row[o]
    BY <1>8 DEF TypeOK, Row
  <2>2. OutboxState(k) = "open" /\ \A o \in Keys \ {k} : SameState(o)
    BY <1>3, <1>8, <2>1 DEF SameState, OutboxState
  <2>3. CASE s = "pending"
    <3>1. \A o \in Keys : SameState(o)
      BY <2>1, <2>2, <2>3 DEF SameState, OutboxState
    <3>2. UNCHANGED <<[o \in Keys |-> OutboxState(o)], [o \in Keys |-> WaitsFor(o)]>>
      BY <3>1, SameStates
    <3>3. Outbox!PutAway
      BY <1>5, <1>8, <3>2 DEF Outbox!PutAway, Held
    <3>4. QED
      BY <3>3, OutboxMoves
  <2>4. CASE s # "pending"
    <3> DEFINE outcome == IF s = "sent" THEN "sent" ELSE "dropped"
    <3>1. (OutboxState(k))' = outcome
      BY <2>1, <2>4 DEF OutboxState
    <3>2. {k} \in SUBSET Keys
      OBVIOUS
    <3>3. Outbox!Leaves({k}, outcome)
      BY <1>5, <1>8, <2>2, <3>1, <3>2, StatesLeave
    <3>4. CASE s = "sent"
      BY <1>3, <1>8, <2>2, <3>3, <3>4, OutboxMoves DEF Outbox!Send, Delivered
    <3>5. CASE s = "failed"
      BY <2>2, <3>2, <3>3, <3>5, OutboxMoves DEF Outbox!Drop
    <3>6. QED
      BY <2>4, <3>4, <3>5
  <2>5. QED
    BY <2>3, <2>4
<1>9. CASE MarkSent(w)
  <2>1. k \in Delivered
    BY <1>1, <1>9 DEF MarkSent, OutboxInv, MarkedIsDelivered, Accepted, Delivered
  <2>2. CASE Sending(w)
    BY <1>1, <1>8, <1>9, <2>1, <2>2 DEF MarkSent
  <2>3. CASE ~Sending(w)
    BY <1>1, <1>6, <1>9, <2>3 DEF MarkSent
  <2>4. QED
    BY <2>2, <2>3
<1>10. CASE Reschedule(w)
  <2>1. PICK s \in {"failed", "pending"} :
           row' = IF Sending(w)
                  THEN [row EXCEPT ![k].status = s, ![k].lapsed = FALSE] ELSE row
    BY <1>1, <1>10 DEF Reschedule
  <2>2. inbox' = inbox
    BY <1>10 DEF Reschedule
  <2>3. QED
    BY <1>6, <1>8, <2>1, <2>2
<1>11. CASE Check(w) \/ Reject(w) \/ CrashSender(w)
  BY <1>6, <1>11 DEF Check, Reject, CrashSender
<1>12. QED
  BY <1>7, <1>9, <1>10, <1>11

\* A lease that runs out changes whose turn it is for nobody.
LEMMA LapseIsQuiet ==
    ASSUME TypeOK, NEW k \in Keys, LapseLease(k)
    PROVE  UNCHANGED Outbox!vars
<1>1. /\ row'[k].status = row[k].status /\ row'[k].position = row[k].position
      /\ \A o \in Keys \ {k} : row'[o] = row[o]
      /\ UNCHANGED <<sender, inbox>>
  BY DEF LapseLease, TypeOK, Row
<1>2. \A o \in Keys : SameState(o)
  BY <1>1 DEF SameState, OutboxState
<1>3. UNCHANGED <<[o \in Keys |-> OutboxState(o)], [o \in Keys |-> WaitsFor(o)]>>
  BY <1>2, SameStates
<1>4. QED
  BY <1>1, <1>3 DEF Outbox!vars

\* Every step is a step of the abstract outbox or changes nothing it knows.
LEMMA OutboxStep ==
    ASSUME ThreadInv, TypeOK', HeldHadItsTurn, [Next]_vars
    PROVE  [Outbox!Next]_(Outbox!vars)
<1> USE DEF ThreadInv, EventInv
<1>1. ASSUME UNCHANGED outboxVars PROVE UNCHANGED Outbox!vars
  BY <1>1, SameRows DEF outboxVars, Held
<1>2. ASSUME NEW h \in Handlers, QueueReceipt(h) PROVE [Outbox!Next]_(Outbox!vars)
  BY <1>2, EnqueueIsQueue, EmailAssumption DEF QueueReceipt, Keys
<1>3. ASSUME NEW h \in Handlers, Deliver(h) \/ HandlerStep(h) \/ CrashHandler(h)
      PROVE  [Outbox!Next]_(Outbox!vars)
  BY <1>1, <1>2, <1>3
     DEF Deliver, HandlerStep, Claim, Ignore, Limit, Fetch, Publish, Respond, Close, Fail, MarkFailed,
         CrashHandler
<1>4. ASSUME NEW n \in 1..MaxJobs, Review(n) PROVE [Outbox!Next]_(Outbox!vars)
  BY <1>4, EnqueueIsQueue, EmailAssumption DEF Review, Keys
<1>5. ASSUME NEW w \in Senders, SenderStep(w) \/ CrashSender(w) PROVE Outbox!Next
  BY <1>5, PickIsTake, SenderIsOutbox DEF SenderStep
<1>6. QED
  BY <1>1, <1>3, <1>4, <1>5, DeleteContractIsDelete, LapseIsQuiet DEF Next, vars, Lapse, Settle, Finish

\* The promise keeps the turns: a message that was open with nothing ahead of it
\* only loses what is ahead of it, until its row is deleted.
LEMMA TurnsKept ==
    ASSUME NEW k \in Keys, HadItsTurn(k), [Outbox!Next]_(Outbox!vars)
    PROVE  (HadItsTurn(k))' \/ (OutboxState(k))' = "none"
<1>0. OutboxState(k) # "none" /\ WaitsFor(k) = {}
  BY DEF HadItsTurn
<1>1. CASE (OutboxState(k))' = OutboxState(k) /\ (WaitsFor(k))' = WaitsFor(k)
  BY <1>0, <1>1 DEF HadItsTurn
<1>2. CASE UNCHANGED Outbox!vars
  <2>1. (OutboxState(k))' = OutboxState(k) /\ (WaitsFor(k))' = WaitsFor(k)
    BY <1>2 DEF Outbox!vars
  <2>2. QED
    BY <1>1, <2>1
<1>3. ASSUME NEW m \in Keys, Outbox!Queue(m) \/ Outbox!Refuse(m) \/ Outbox!Accept(m)
      PROVE  (OutboxState(k))' = OutboxState(k) /\ (WaitsFor(k))' = WaitsFor(k)
  <2>1. CASE Outbox!Accept(m)
    BY <2>1 DEF Outbox!Accept
  <2>2. CASE Outbox!Queue(m) \/ Outbox!Refuse(m)
    <3>1. OutboxState(m) = "none"
      BY <2>2 DEF Outbox!Queue, Outbox!Refuse
    <3>2. k # m
      BY <1>0, <3>1
    <3>3. QED
      BY <2>2, <3>2 DEF Outbox!Queue, Outbox!Refuse
  <2>3. QED
    BY <1>3, <2>1, <2>2
<1>4. ASSUME Outbox!PutAway \/ \E M \in SUBSET Keys : Outbox!Take(M)
      PROVE  (OutboxState(k))' = OutboxState(k) /\ (WaitsFor(k))' = WaitsFor(k)
  BY <1>4 DEF Outbox!PutAway, Outbox!Take
<1>5. ASSUME NEW M \in SUBSET Keys, NEW outcome, Outbox!Leaves(M, outcome)
      PROVE  /\ (OutboxState(k))' \in {outcome, OutboxState(k)}
             /\ (WaitsFor(k))' = {}
  <2>1. /\ (OutboxState(k))' = IF k \in M THEN outcome ELSE OutboxState(k)
        /\ (WaitsFor(k))' = IF k \in M THEN {} ELSE WaitsFor(k) \ M
    BY <1>5 DEF Outbox!Leaves
  <2>2. QED
    BY <1>0, <2>1
<1>6. ASSUME NEW m \in Keys, Outbox!Send(m) PROVE (HadItsTurn(k))'
  <2>1. {m} \in SUBSET Keys /\ Outbox!Leaves({m}, "sent")
    BY <1>6 DEF Outbox!Send
  <2>2. QED
    BY <1>0, <1>5, <2>1 DEF HadItsTurn
<1>7. ASSUME NEW M \in SUBSET Keys, Outbox!Drop(M) \/ Outbox!Delete(M)
      PROVE  (HadItsTurn(k))' \/ (OutboxState(k))' = "none"
  BY <1>0, <1>5, <1>7 DEF Outbox!Drop, Outbox!Delete, HadItsTurn
<1>8. QED
  BY <1>1, <1>2, <1>3, <1>4, <1>6, <1>7 DEF Outbox!Next

\* A worker that holds a row that is there took it in its turn, for the row of a
\* message whose turn is over goes only with the claims on it.
LEMMA StepTurns ==
    ASSUME TypeOK, TypeOK', HeldHadItsTurn, Next, [Outbox!Next]_(Outbox!vars)
    PROVE  HeldHadItsTurn'
<1> SUFFICES ASSUME NEW w \in Senders, sender'[w].pc # "idle", ~sender'[w].gone
             PROVE  HadItsTurn(sender[w].key)'
  BY DEF HeldHadItsTurn
<1>1. PICK k \in Keys : k = sender'[w].key
  BY DEF TypeOK, Sender
<1>2. ASSUME sender'[w] = sender[w] \/ Stays(w) \/ Keeps(w)
      PROVE  HadItsTurn(k) /\ (OutboxState(k))' # "none"
  <2>1. sender[w].pc # "idle" /\ sender[w].key = k /\ HadItsTurn(k)
    BY <1>1, <1>2 DEF HeldHadItsTurn, Stays, Keeps
  <2>2. row[k].status # "absent"
    BY <2>1 DEF HadItsTurn, OutboxState
  <2>3. row'[k].status # "absent"
    BY <2>1, <2>2, StepRows DEF RowStep, QueuedLast
  <2>4. QED
    BY <2>1, <2>3 DEF OutboxState, TypeOK, Row
<1>3. ASSUME Claims(w)
      PROVE  HadItsTurn(k) /\ (OutboxState(k))' # "none"
  BY <1>1, <1>3 DEF Claims, Waiting, Unblocked, HadItsTurn, WaitsFor, OutboxState
<1>4. (HadItsTurn(k))'
  BY <1>2, <1>3, StepSenders, TurnsKept
<1>5. QED
  BY <1>1, <1>4 DEF HadItsTurn, OutboxState, WaitsFor

\* Whatever webhooks come twice, leases run out, contracts are deleted with rows
\* that are being sent and answers are lost, the outbox of emails keeps the order of
\* its threads, marks as sent only what was accepted, and reopens nothing but by a
\* deletion, as the outbox of Slack messages does.
THEOREM OutboxIsImplemented == Spec => ImplementsOutbox
<1> DEFINE Inv == ThreadInv /\ HeldHadItsTurn
<1>1. ASSUME Init PROVE Inv /\ Outbox!Init
  <2>1. ThreadInv
    BY <1>1, ThreadInductive
  <2>2. Held = {} /\ Delivered = {} /\ HeldHadItsTurn
    BY <1>1 DEF Init, Held, Delivered, Resting, HeldHadItsTurn
  <2>3. \A k \in Keys : OutboxState(k) = "none"
    BY <1>1 DEF Init, NoRow, OutboxState
  <2>4. \A k \in Keys : WaitsFor(k) = {}
    BY <2>3 DEF WaitsFor
  <2>5. QED
    BY <2>1, <2>2, <2>3, <2>4 DEF Outbox!Init, Held, Delivered
<1>2. ASSUME Inv, [Next]_vars PROVE Inv' /\ [Outbox!Next]_(Outbox!vars)
  <2>1. ThreadInv' /\ TypeOK /\ TypeOK'
    BY <1>2, ThreadInductive DEF ThreadInv, EventInv
  <2>2. [Outbox!Next]_(Outbox!vars)
    BY <1>2, <2>1, OutboxStep
  <2>3. HeldHadItsTurn'
    <3>1. CASE Next
      BY <1>2, <2>1, <2>2, <3>1, StepTurns
    <3>2. CASE UNCHANGED vars
      BY <1>2, <3>2 DEF vars, outboxVars, HeldHadItsTurn, HadItsTurn, OutboxState, WaitsFor, Keys
    <3>3. QED
      BY <1>2, <3>1, <3>2
  <2>4. QED
    BY <2>1, <2>2, <2>3
<1> HIDE DEF Inv
<1>3. QED
  BY <1>1, <1>2, PTL DEF Spec, ImplementsOutbox, Outbox!Spec

=============================================================================
