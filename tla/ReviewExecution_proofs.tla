----------------------- MODULE ReviewExecution_proofs -----------------------
(***************************************************************************)
(* Theorems about ReviewExecution, for every set of jobs, contracts and    *)
(* workers, every number of attempts and every selection of faults.        *)
(***************************************************************************)
EXTENDS ReviewExecution, TLAPS

-----------------------------------------------------------------------------
(* Type correctness *)

\* The initial state (declared queues, empty tables, idle workers) is well-typed.
LEMMA InitTypeOK == Init => TypeOK
BY JobsAssumption, BoundsAssumption
   DEF Init, TypeOK, Idle, Absent, Work, Places, Execution, Statuses, Copies

\* What TypeOK says of one worker.
LEMMA WorkerTypes ==
    ASSUME TypeOK, NEW w \in Workers
    PROVE  /\ work[w] \in Work
           /\ work[w].pc # "idle" => /\ work[w].job \in Jobs
                                     /\ work[w].attempt \in Attempts
                                     /\ Copy(w) \in Copies
                                     /\ ContractAt(w) \in Contracts
BY JobsAssumption DEF TypeOK, Copy, Copies, ContractAt

\* A step that only moves one worker to another place keeps its type.
LEMMA GotoTypeOK ==
    ASSUME TypeOK, NEW w \in Workers, NEW pc \in Places, work[w].pc # "idle",
           work' = [work EXCEPT ![w].pc = pc]
    PROVE  /\ work' \in [Workers -> Work]
           /\ \A v \in Workers : work'[v].pc # "idle" => work'[v].job \in Jobs /\ work'[v].attempt \in Attempts
BY DEF TypeOK, Work

\* A worker that leaves _process_delivery becomes idle, and keeps its type.
LEMMA FinishTypeOK ==
    ASSUME TypeOK, NEW w \in Workers, Finish(w)
    PROVE  /\ work' \in [Workers -> Work]
           /\ \A v \in Workers : work'[v].pc # "idle" => work'[v].job \in Jobs /\ work'[v].attempt \in Attempts
BY BoundsAssumption DEF TypeOK, Finish, Idle, Work, Places

\* A copy the broker takes back is one it may hold.
LEMMA RequeueTypeOK ==
    ASSUME TypeOK, NEW w \in Workers, work[w].pc # "idle", Requeue(w)
    PROVE  ready' \in [Copies -> Nat]
BY WorkerTypes DEF TypeOK, Requeue

\* retry() stays within max_attempts: past the last attempt it dead-letters.
LEMMA PutBackTypeOK ==
    ASSUME TypeOK, NEW w \in Workers, work[w].pc # "idle", PutBack(w)
    PROVE  delayed' \in [Copies -> Nat] /\ dead' \subseteq Jobs
<1>1. work[w].job \in Jobs /\ work[w].attempt \in 1..MaxAttempts
  BY WorkerTypes DEF Attempts
<1>2. CASE LastAttempt(w)
  BY <1>1, <1>2 DEF TypeOK, PutBack
<1>3. CASE ~LastAttempt(w)
  <2>1. <<work[w].job, work[w].attempt + 1>> \in Copies
    BY <1>1, <1>3, BoundsAssumption DEF LastAttempt, Copies, Attempts
  <2>2. QED
    BY <1>3, <2>1 DEF TypeOK, PutBack
<1>4. QED
  BY <1>2, <1>3

\* A fault takes one from the budget of faults.
LEMMA FaultTypeOK ==
    ASSUME TypeOK, NEW kind, Fault(kind)
    PROVE  budget' \in 0..MaxFaults
BY BoundsAssumption DEF TypeOK, Fault

\* What a step may do to one row of the execution table.
LEMMA RowTypeOK ==
    ASSUME TypeOK, NEW j, NEW row \in Execution, exec' = [exec EXCEPT ![j] = row]
    PROVE  exec' \in [SlackJobs -> Execution]
BY DEF TypeOK

\* A lease that is renewed or runs out leaves a well-typed row.
LEMMA LapsedTypeOK ==
    ASSUME TypeOK, NEW j, NEW b \in BOOLEAN, exec' = [exec EXCEPT ![j].lapsed = b]
    PROVE  exec' \in [SlackJobs -> Execution]
BY DEF TypeOK, Execution

\* A step that answers the job of a worker.
LEMMA ReplyTypeOK ==
    ASSUME TypeOK, NEW w \in Workers, work[w].pc # "idle", NEW kind \in ReplyKinds,
           QueueReply(w, kind)
    PROVE  replies' \subseteq (Jobs \X ReplyKinds)
BY WorkerTypes DEF TypeOK, QueueReply

\* Every operation of broker, workers and environment keeps the state
\* well-typed; the guards that matter are those of retry() and of the queues.
THEOREM TypeInductive == TypeOK /\ [Next]_vars => TypeOK'
<1> SUFFICES ASSUME TypeOK, [Next]_vars PROVE TypeOK'
  OBVIOUS
<1> USE DEF broker, intake, contract, At
<1>1. ASSUME NEW j \in Jobs, Publish(j) PROVE TypeOK'
  BY <1>1, JobsAssumption, BoundsAssumption DEF Publish, TypeOK, Copies, Attempts, Statuses
<1>1a. ASSUME NEW j \in Jobs, IntakePass(j) PROVE TypeOK'
  <2>1. CASE Reread(j)
    BY <2>1, FaultTypeOK DEF Reread, TypeOK
  <2>2. CASE Reset(j)
    BY <2>2, JobsAssumption DEF Reset, TypeOK, Statuses
  <2>3. CASE QueueFails(j)
    BY <2>3, JobsAssumption DEF QueueFails, TypeOK, Statuses
  <2>4. QED
    BY <1>1a, <2>1, <2>2, <2>3 DEF IntakePass
<1>2. ASSUME NEW j \in Jobs, PublishAgain(j) PROVE TypeOK'
  BY <1>2, FaultTypeOK, BoundsAssumption DEF PublishAgain, TypeOK, Copies, Attempts
<1>3. ASSUME NEW j \in Jobs, NEW a \in Attempts, RetryDue(j, a) PROVE TypeOK'
  BY <1>3 DEF RetryDue, TypeOK, Copies
<1>4. ASSUME NEW j \in Jobs, NEW w \in Workers, NEW a \in Attempts, Deliver(w, j, a) PROVE TypeOK'
  BY <1>4 DEF Deliver, TypeOK, Copies, Work, Places, InTry, Attempts
<1>5. ASSUME NEW w \in Workers, WorkerTry(w) PROVE TypeOK'
  <2>1. CASE Start(w)
    BY <2>1, GotoTypeOK DEF Start, Goto, TypeOK, Places, InTry
  <2>2. CASE Claim(w)
    <3>1. CASE Claimable(exec[work[w].job])
      <4>1. exec' \in [SlackJobs -> Execution]
        BY <2>2, <3>1, RowTypeOK DEF Claim, LeasedTo, Execution
      <4>2. QED
        BY <2>2, <3>1, <4>1 DEF Claim, TypeOK, Places, InTry, Work
    <3>2. CASE ~Claimable(exec[work[w].job])
      BY <2>2, <3>2, GotoTypeOK DEF Claim, Goto, TypeOK, Places, InTry
    <3>3. QED
      BY <3>1, <3>2
  <2>3. CASE AckDuplicate(w)
    BY <2>3, GotoTypeOK, FinishTypeOK DEF AckDuplicate, Goto, TypeOK, Places, InHandler
  <2>4. CASE Contend(w)
    BY <2>4, GotoTypeOK, WorkerTypes DEF Contend, Goto, TypeOK, Places, InTry, InHandler
  <2>5. CASE Load(w)
    BY <2>5, GotoTypeOK, WorkerTypes DEF Load, Goto, SetStatus, TypeOK, Places, InTry, Statuses, Work
  <2>6. CASE Parse(w)
    BY <2>6, GotoTypeOK, WorkerTypes DEF Parse, Goto, SetStatus, TypeOK, Places, InTry, Statuses
  <2>7. CASE NoText(w)
    BY <2>7, GotoTypeOK, WorkerTypes DEF NoText, Goto, SetStatus, TypeOK, Places, InTry, Statuses
  <2>8. CASE Analyse(w)
    BY <2>8, GotoTypeOK, WorkerTypes DEF Analyse, Goto, SetStatus, TypeOK, Places, InTry, Statuses
  <2>9. CASE Finalize(w)
    BY <2>9, WorkerTypes, ZenonT(60) DEF Finalize, SetStatus, TypeOK, Places, InTry, Statuses, Work
  <2>10. CASE ReviewRaises(w)
    BY <2>10, GotoTypeOK DEF ReviewRaises, Goto, TypeOK, Places, InHandler
  <2>11. CASE Settle(w)
    <3>1. exec' \in [SlackJobs -> Execution]
      BY <2>11, LapsedTypeOK DEF Settle, TypeOK
    <3>2. QED
      BY <2>11, <3>1, GotoTypeOK DEF Settle, Goto, TypeOK, Places, InTry, InHandler
  <2>12. CASE Reply(w)
    <3>1. replies' \subseteq (Jobs \X ReplyKinds)
      BY <2>12, ReplyTypeOK DEF Reply, ReplyKinds
    <3>2. QED
      BY <2>12, <3>1, GotoTypeOK DEF Reply, Goto, TypeOK, Places, InTry
  <2>13. CASE Complete(w)
    <3>1. exec' \in [SlackJobs -> Execution]
      BY <2>13, RowTypeOK DEF Complete, TypeOK, Execution, Finished
    <3>2. QED
      BY <2>13, <3>1, GotoTypeOK DEF Complete, Goto, TypeOK, Places, InHandler
  <2>14. CASE Ack(w)
    BY <2>14, FinishTypeOK DEF Ack, TypeOK
  <2>15. QED
    BY <1>5, <2>1, <2>2, <2>3, <2>4, <2>5, <2>6, <2>7, <2>8, <2>9, <2>10, <2>11,
       <2>12, <2>13, <2>14 DEF WorkerTry
<1>6. ASSUME NEW w \in Workers, WorkerHandler(w) PROVE TypeOK'
  <2>1. CASE Handle(w)
    <3>1. exec' \in [SlackJobs -> Execution]
      BY <2>1, LapsedTypeOK DEF Handle, TypeOK
    <3>2. QED
      BY <2>1, <3>1, GotoTypeOK DEF Handle, Goto, TypeOK, Places, InHandler
  <2>2. CASE MarkFailed(w)
    BY <2>2, GotoTypeOK, WorkerTypes DEF MarkFailed, Goto, SetStatus, TypeOK, Places, InHandler, Statuses
  <2>3. CASE ReplyFailed(w)
    <3>1. replies' \subseteq (Jobs \X ReplyKinds)
      BY <2>3, ReplyTypeOK DEF ReplyFailed, ReplyKinds
    <3>2. QED
      BY <2>3, <3>1, GotoTypeOK DEF ReplyFailed, Goto, TypeOK, Places, InHandler
  <2>4. CASE CompleteFailed(w)
    BY <2>4, GotoTypeOK DEF CompleteFailed, Goto, TypeOK, Places, InHandler, Execution, Finished
  <2>5. CASE Release(w)
    BY <2>5, GotoTypeOK DEF Release, Goto, TypeOK, Places, InHandler, Execution, Released
  <2>6. CASE Retry(w)
    BY <2>6, GotoTypeOK, PutBackTypeOK DEF Retry, Goto, TypeOK, Places
  <2>7. CASE RetryFails(w)
    BY <2>7, FinishTypeOK DEF RetryFails, TypeOK
  <2>8. QED
    BY <1>6, <2>1, <2>2, <2>3, <2>4, <2>5, <2>6, <2>7 DEF WorkerHandler
<1>7. ASSUME NEW w \in Workers, WorkerFault(w) PROVE TypeOK'
  <2>1. CASE StartFails(w)
    BY <2>1, GotoTypeOK, FaultTypeOK DEF StartFails, Goto, TypeOK, Places, InHandler
  <2>2. CASE ContendUnconfirmed(w)
    <3>1. delayed' \in [Copies -> Nat] /\ budget' \in 0..MaxFaults
      BY <2>2, FaultTypeOK, WorkerTypes DEF ContendUnconfirmed, TypeOK
    <3>2. QED
      BY <2>2, <3>1, GotoTypeOK DEF ContendUnconfirmed, Goto, TypeOK, Places, InHandler
  <2>3. CASE TryOutage(w)
    BY <2>3, GotoTypeOK, FaultTypeOK DEF TryOutage, Goto, TypeOK, Places, InHandler
  <2>4. CASE RetryUnconfirmed(w)
    BY <2>4, FinishTypeOK, RequeueTypeOK, PutBackTypeOK, FaultTypeOK DEF RetryUnconfirmed, Escape, TypeOK
  <2>5. CASE HandlerOutage(w)
    BY <2>5, FinishTypeOK, RequeueTypeOK, FaultTypeOK DEF HandlerOutage, Escape, TypeOK
  <2>6. CASE Crash(w)
    BY <2>6, FinishTypeOK, RequeueTypeOK, FaultTypeOK DEF Crash, Escape, TypeOK
  <2>7. CASE Disconnect(w)
    BY <2>7, RequeueTypeOK, FaultTypeOK DEF Disconnect, TypeOK, Work
  <2>8. QED
    BY <1>7, <2>1, <2>2, <2>3, <2>4, <2>5, <2>6, <2>7 DEF WorkerFault
<1>8. ASSUME NEW w \in Workers, Heartbeat(w) PROVE TypeOK'
  BY <1>8, ZenonT(60) DEF Heartbeat, TypeOK, Execution
<1>9. ASSUME NEW j \in SlackJobs, Lapse(j) \/ Stall(j) PROVE TypeOK'
  <2>1. exec' \in [SlackJobs -> Execution]
    BY <1>9, LapsedTypeOK DEF Lapse, Stall
  <2>2. budget' \in 0..MaxFaults
    BY <1>9, FaultTypeOK DEF Lapse, Stall, TypeOK
  <2>3. QED
    BY <1>9, <2>1, <2>2 DEF Lapse, Stall, TypeOK
<1>10. CASE UNCHANGED vars
  BY <1>10 DEF vars, TypeOK
<1>11. QED
  BY <1>1, <1>1a, <1>2, <1>3, <1>4, <1>5, <1>6, <1>7, <1>8, <1>9, <1>10 DEF Next, Broker

\* Every reachable state is well-typed, whatever the constants: no retry goes
\* past max_attempts and no counter of copies goes below zero.
THEOREM TypeCorrect == Spec => []TypeOK
BY InitTypeOK, TypeInductive, PTL DEF Spec

-----------------------------------------------------------------------------
(* What the building blocks of the actions do to one worker and to one row *)

\* Going on to another line changes nothing else of a worker, and no other worker.
LEMMA GotoEffect ==
    ASSUME TypeOK, NEW w \in Workers, NEW pc, Goto(w, pc)
    PROVE  /\ \A v \in Workers : v # w => work'[v] = work[v]
           /\ work'[w].pc = pc
           /\ work'[w].job = work[w].job /\ work'[w].attempt = work[w].attempt
           /\ work'[w].held = work[w].held /\ work'[w].up = work[w].up
BY DEF TypeOK, Work, Goto

\* Leaving _process_delivery makes the worker idle and changes no other worker.
LEMMA FinishEffect ==
    ASSUME TypeOK, NEW w \in Workers, Finish(w)
    PROVE  /\ \A v \in Workers : v # w => work'[v] = work[v]
           /\ work'[w].pc = "idle" /\ ~work'[w].held
BY DEF TypeOK, Finish, Idle

\* Renewal and expiry of a lease change neither the status nor the owner of a row.
LEMMA LapsedEffect ==
    ASSUME TypeOK, NEW j, NEW b \in BOOLEAN, exec' = [exec EXCEPT ![j].lapsed = b]
    PROVE  \A k \in SlackJobs : /\ exec'[k].status = exec[k].status
                                /\ exec'[k].owner = exec[k].owner
                                /\ exec'[k].lapsed = IF k = j THEN b ELSE exec[k].lapsed
BY DEF TypeOK, Execution

\* A pass of the intake that publishes nothing changes no more than a status.
LEMMA IntakePassFrame ==
    ASSUME NEW j, IntakePass(j)
    PROVE  UNCHANGED <<published, ready, delayed, dead, work, exec, reviewed, replies>>
BY DEF IntakePass, Reread, Reset, QueueFails, contract

\* A claim, a completion and a release change one row.
LEMMA RowEffect ==
    ASSUME TypeOK, NEW j, NEW row, exec' = [exec EXCEPT ![j] = row]
    PROVE  \A k \in SlackJobs : exec'[k] = IF k = j THEN row ELSE exec[k]
BY DEF TypeOK

-----------------------------------------------------------------------------
(* A completed submission has its answer *)

Completing == {"complete", "completeFailed"}

\* A worker completes a submission after it queued the answer.
AnswerFirst ==
    /\ CompletedMeansAnswered
    /\ \A w \in Workers : work[w].pc \in Completing => Answered(work[w].job)

AnsweredNext(j) == \E kind \in ReplyKinds : <<j, kind>> \in replies'

\* A step that answers or leaves alone what it completes keeps AnswerFirst.
AnswersKept ==
    /\ replies \subseteq replies'
    /\ \A j \in SlackJobs : exec'[j].status = "completed" => exec[j].status = "completed" \/ AnsweredNext(j)
    /\ \A w \in Workers : work'[w].pc \in Completing =>
          AnsweredNext(work'[w].job) \/ (work[w].pc \in Completing /\ work'[w].job = work[w].job)

\* It is enough that a step forgets no reply and completes, or heads for the
\* completion of, answered submissions only.
LEMMA AnswersKeptSuffices == AnswerFirst /\ AnswersKept => AnswerFirst'
<1> SUFFICES ASSUME AnswerFirst, AnswersKept PROVE AnswerFirst'
  OBVIOUS
<1>1. \A j : Answered(j) => AnsweredNext(j)
  BY DEF AnswersKept, Answered, AnsweredNext
<1>2. \A j \in SlackJobs : exec'[j].status = "completed" => AnsweredNext(j)
  BY <1>1 DEF AnswerFirst, AnswersKept, CompletedMeansAnswered, Completed
<1>3. \A w \in Workers : work'[w].pc \in Completing => AnsweredNext(work'[w].job)
  BY <1>1 DEF AnswerFirst, AnswersKept
<1>4. QED
  BY <1>2, <1>3 DEF AnswerFirst, CompletedMeansAnswered, Completed, Answered, AnsweredNext

\* In the try block the reply is queued before complete_review_execution.
LEMMA TryKeepsAnswers ==
    ASSUME TypeOK, AnswerFirst, NEW w \in Workers, WorkerTry(w) PROVE AnswersKept
<1> USE DEF AnswersKept, At, Completing
<1>1. CASE Start(w)
  BY <1>1, GotoEffect DEF Start
<1>2. CASE Claim(w)
  <2>1. CASE Claimable(exec[work[w].job])
    <3>1. \A v \in Workers : work'[v].pc \in Completing => work'[v] = work[v]
      BY <1>2, <2>1 DEF Claim, TypeOK, Work
    <3>2. \A j \in SlackJobs : exec'[j].status = "completed" => exec[j].status = "completed"
      <4>1. exec' = [exec EXCEPT ![work[w].job] = LeasedTo(w)]
        BY <1>2, <2>1 DEF Claim
      <4>2. LeasedTo(w).status # "completed"
        BY DEF LeasedTo
      <4>3. QED
        BY <4>1, <4>2, RowEffect
    <3>3. QED
      BY <1>2, <3>1, <3>2 DEF Claim
  <2>2. CASE ~Claimable(exec[work[w].job])
    BY <1>2, <2>2, GotoEffect DEF Claim
  <2>3. QED
    BY <2>1, <2>2
<1>3. CASE AckDuplicate(w)
  BY <1>3, GotoEffect, FinishEffect DEF AckDuplicate
<1>4. CASE Contend(w)
  BY <1>4, GotoEffect DEF Contend
<1>5. CASE Load(w)
  BY <1>5, GotoEffect DEF Load, TypeOK, Work
<1>6. CASE Parse(w) \/ NoText(w) \/ Analyse(w) \/ ReviewRaises(w)
  BY <1>6, GotoEffect DEF Parse, NoText, Analyse, ReviewRaises, contract
<1>7. CASE Finalize(w)
  BY <1>7 DEF Finalize, TypeOK, Work
<1>8. CASE Settle(w)
  BY <1>8, GotoEffect, LapsedEffect DEF Settle
<1>9. CASE Reply(w)
  <2>1. AnsweredNext(work[w].job)
    BY <1>9 DEF Reply, QueueReply, AnsweredNext, ReplyKinds
  <2>2. QED
    BY <1>9, <2>1, GotoEffect DEF Reply, QueueReply
<1>10. CASE Complete(w)
  <2>1. AnsweredNext(work[w].job)
    BY <1>10 DEF Complete, AnswerFirst, Answered, AnsweredNext
  <2>2. \A j \in SlackJobs : exec'[j].status = "completed" => exec[j].status = "completed" \/ j = work[w].job
    BY <1>10, RowEffect DEF Complete
  <2>3. QED
    BY <1>10, <2>1, <2>2, GotoEffect DEF Complete
<1>11. CASE Ack(w)
  BY <1>11, FinishEffect DEF Ack
<1>12. QED
  BY <1>1, <1>2, <1>3, <1>4, <1>5, <1>6, <1>7, <1>8, <1>9, <1>10, <1>11 DEF WorkerTry

\* In the except block the failure is queued before complete_review_execution.
LEMMA HandlerKeepsAnswers ==
    ASSUME TypeOK, AnswerFirst, NEW w \in Workers, WorkerHandler(w) PROVE AnswersKept
<1> USE DEF AnswersKept, At, Completing
<1>1. CASE Handle(w)
  BY <1>1, GotoEffect, LapsedEffect DEF Handle
<1>2. CASE MarkFailed(w)
  BY <1>2, GotoEffect DEF MarkFailed
<1>3. CASE ReplyFailed(w)
  <2>1. AnsweredNext(work[w].job)
    BY <1>3 DEF ReplyFailed, QueueReply, AnsweredNext, ReplyKinds
  <2>2. QED
    BY <1>3, <2>1, GotoEffect DEF ReplyFailed, QueueReply
<1>4. CASE CompleteFailed(w)
  <2>1. AnsweredNext(work[w].job)
    BY <1>4 DEF CompleteFailed, AnswerFirst, Answered, AnsweredNext
  <2>2. \A j \in SlackJobs : exec'[j].status = "completed" => exec[j].status = "completed" \/ j = work[w].job
    BY <1>4, RowEffect DEF CompleteFailed
  <2>3. QED
    BY <1>4, <2>1, <2>2, GotoEffect DEF CompleteFailed
<1>5. CASE Release(w)
  BY <1>5, GotoEffect, RowEffect DEF Release, Released
<1>6. CASE Retry(w) \/ RetryFails(w)
  BY <1>6, GotoEffect, FinishEffect DEF Retry, RetryFails
<1>7. QED
  BY <1>1, <1>2, <1>3, <1>4, <1>5, <1>6 DEF WorkerHandler

\* No failure completes an execution or forgets a queued reply.
LEMMA FaultKeepsAnswers ==
    ASSUME TypeOK, NEW w \in Workers, WorkerFault(w) PROVE AnswersKept
<1> USE DEF AnswersKept, At, Completing
<1>1. CASE StartFails(w) \/ ContendUnconfirmed(w) \/ TryOutage(w)
  BY <1>1, GotoEffect DEF StartFails, ContendUnconfirmed, TryOutage
<1>2. CASE RetryUnconfirmed(w) \/ HandlerOutage(w) \/ Crash(w)
  BY <1>2, FinishEffect DEF RetryUnconfirmed, HandlerOutage, Crash, Escape
<1>3. CASE Disconnect(w)
  BY <1>3 DEF Disconnect, TypeOK, Work
<1>4. QED
  BY <1>1, <1>2, <1>3 DEF WorkerFault

\* That completed executions, and workers about to complete one, have their
\* reply queued is kept by every step of _process_delivery and its surroundings.
THEOREM AnswerFirstInductive == TypeOK /\ AnswerFirst /\ [Next]_vars => AnswerFirst'
<1> SUFFICES ASSUME TypeOK, AnswerFirst, [Next]_vars PROVE AnswersKept
  BY AnswersKeptSuffices
<1>1. CASE \E j \in Jobs : Publish(j) \/ IntakePass(j)
  BY <1>1, IntakePassFrame DEF Publish, AnswersKept
<1>2. CASE \E j \in Jobs : Broker(j)
  <2>1. CASE \E j \in Jobs, w \in Workers, a \in Attempts : Deliver(w, j, a)
    BY <2>1 DEF Deliver, contract, AnswersKept, Completing, TypeOK
  <2>2. CASE \E j \in Jobs, a \in Attempts : PublishAgain(j) \/ RetryDue(j, a)
    BY <2>2 DEF PublishAgain, RetryDue, contract, AnswersKept
  <2>3. CASE \E j \in Jobs : PublishAgain(j)
    BY <2>3 DEF PublishAgain, AnswersKept
  <2>4. QED
    BY <1>2, <2>1, <2>2, <2>3 DEF Broker
<1>3. CASE \E w \in Workers : WorkerTry(w) \/ WorkerHandler(w) \/ WorkerFault(w)
  BY <1>3, TryKeepsAnswers, HandlerKeepsAnswers, FaultKeepsAnswers
<1>4. CASE \E w \in Workers : Heartbeat(w)
  BY <1>4, LapsedEffect DEF Heartbeat, AnswersKept
<1>5. CASE \E j \in SlackJobs : Lapse(j) \/ Stall(j)
  BY <1>5, LapsedEffect DEF Lapse, Stall, AnswersKept
<1>6. CASE UNCHANGED vars
  BY <1>6 DEF vars, AnswersKept
<1>7. QED
  BY <1>1, <1>2, <1>3, <1>4, <1>5, <1>6 DEF Next

\* Whatever fails, and however many workers hold a delivery of it, a Slack
\* submission marked completed has its answer in the outbox: later deliveries,
\* which are acknowledged without a look, lose nothing.
THEOREM AnswerBeforeCompletion == Spec => []CompletedMeansAnswered
<1>1. Init => AnswerFirst
  BY DEF Init, AnswerFirst, CompletedMeansAnswered, Completed, Absent, Idle, Completing
<1>2. AnswerFirst => CompletedMeansAnswered
  BY DEF AnswerFirst
<1>3. QED
  BY <1>1, <1>2, TypeCorrect, AnswerFirstInductive, PTL DEF Spec

-----------------------------------------------------------------------------
(* What a worker's step leaves alone *)

\* The copies that wait, the completed rows, and what other workers hold.
WorkerFrame(w) ==
    /\ published' = published /\ reset' = reset
    /\ dead \subseteq dead'
    /\ \A c \in Copies : ready[c] > 0 => ready'[c] > 0
    /\ \A c \in Copies : delayed[c] > 0 => delayed'[c] > 0
    /\ \A v \in Workers : v # w => work'[v] = work[v]
    /\ \A j \in SlackJobs : exec[j].status = "completed" => exec'[j].status = "completed"

\* The leases of the other workers.
LeasesKept(w) ==
    \A j \in SlackJobs, v \in Workers :
        v # w /\ exec[j].status = "processing" /\ exec[j].owner = v
            => exec'[j].status = "processing" /\ exec'[j].owner = v

\* A copy that the broker takes back from an open channel is in the review
\* queue again, and no other copy leaves it.
LEMMA RequeueFrame ==
    ASSUME TypeOK, NEW w \in Workers, work[w].pc # "idle", Requeue(w)
    PROVE  /\ \A c \in Copies : ready[c] > 0 => ready'[c] > 0
           /\ work[w].up => ready'[Copy(w)] > 0
BY WorkerTypes DEF TypeOK, Requeue

\* After retry() the job is in the retry queue or in the dead-letter queue.
LEMMA PutBackFrame ==
    ASSUME TypeOK, NEW w \in Workers, work[w].pc # "idle", PutBack(w)
    PROVE  /\ dead \subseteq dead'
           /\ \A c \in Copies : delayed[c] > 0 => delayed'[c] > 0
           /\ work[w].job \in dead' \/ \E a \in Attempts : delayed'[<<work[w].job, a>>] > 0
<1>1. work[w].job \in Jobs /\ work[w].attempt \in 1..MaxAttempts
  BY WorkerTypes DEF Attempts
<1>2. CASE LastAttempt(w)
  BY <1>2 DEF PutBack
<1>3. CASE ~LastAttempt(w)
  <2>1. work[w].attempt + 1 \in Attempts
    BY <1>1, <1>3, BoundsAssumption DEF LastAttempt, Attempts
  <2>2. <<work[w].job, work[w].attempt + 1>> \in Copies
    BY <1>1, <2>1 DEF Copies
  <2>3. delayed' = [delayed EXCEPT ![<<work[w].job, work[w].attempt + 1>>] = @ + 1] /\ dead' = dead
    BY <1>3 DEF PutBack
  <2>4. \A c \in Copies : delayed'[c] = IF c = <<work[w].job, work[w].attempt + 1>> THEN delayed[c] + 1 ELSE delayed[c]
    BY <2>3 DEF TypeOK
  <2>5. \A c \in Copies : delayed[c] \in Nat
    BY DEF TypeOK
  <2>6. QED
    BY <2>1, <2>2, <2>3, <2>4, <2>5
<1>4. QED
  BY <1>2, <1>3

\* A step of the try block touches one worker and its job's row only, and takes
\* over another worker's lease only in claim_review_execution.
LEMMA TryFrame ==
    ASSUME TypeOK, NEW w \in Workers, WorkerTry(w)
    PROVE  WorkerFrame(w) /\ (~At(w, "claim") => LeasesKept(w))
<1> USE DEF WorkerFrame, LeasesKept, At, broker, intake, contract
<1>1. CASE Start(w)
  BY <1>1, GotoEffect DEF Start
<1>2. CASE Claim(w)
  <2>1. CASE Claimable(exec[work[w].job])
    <3>1. \A j \in SlackJobs : exec'[j] = IF j = work[w].job THEN LeasedTo(w) ELSE exec[j]
      BY <1>2, <2>1, RowEffect DEF Claim
    <3>2. exec[work[w].job].status # "completed"
      BY <2>1 DEF Claimable
    <3>3. \A v \in Workers : v # w => work'[v] = work[v]
      BY <1>2, <2>1 DEF Claim, TypeOK
    <3>4. QED
      BY <1>2, <3>1, <3>2, <3>3 DEF Claim
  <2>2. CASE ~Claimable(exec[work[w].job])
    BY <1>2, <2>2, GotoEffect DEF Claim
  <2>3. QED
    BY <2>1, <2>2
<1>3. CASE AckDuplicate(w)
  BY <1>3, GotoEffect, FinishEffect DEF AckDuplicate
<1>4. CASE Contend(w)
  BY <1>4, GotoEffect, WorkerTypes DEF Contend, TypeOK
<1>5. CASE Load(w)
  BY <1>5, GotoEffect DEF Load, TypeOK
<1>6. CASE Parse(w) \/ NoText(w) \/ Analyse(w) \/ ReviewRaises(w)
  BY <1>6, GotoEffect DEF Parse, NoText, Analyse, ReviewRaises
<1>7. CASE Finalize(w)
  BY <1>7 DEF Finalize, TypeOK
<1>8. CASE Settle(w)
  BY <1>8, GotoEffect, LapsedEffect DEF Settle
<1>9. CASE Reply(w)
  BY <1>9, GotoEffect DEF Reply
<1>10. CASE Complete(w)
  <2>1. CASE OwnsLease(w)
    <3>1. \A j \in SlackJobs : exec'[j] = IF j = work[w].job THEN Finished ELSE exec[j]
      <4>1. exec' = [exec EXCEPT ![work[w].job] = Finished]
        BY <1>10, <2>1 DEF Complete
      <4>2. QED
        BY <4>1, RowEffect
    <3>2. QED
      BY <1>10, <2>1, <3>1, GotoEffect DEF Complete, OwnsLease, Finished
  <2>2. CASE ~OwnsLease(w)
    BY <1>10, <2>2, GotoEffect DEF Complete
  <2>3. QED
    BY <2>1, <2>2
<1>11. CASE Ack(w)
  BY <1>11, FinishEffect DEF Ack
<1>12. QED
  BY <1>1, <1>2, <1>3, <1>4, <1>5, <1>6, <1>7, <1>8, <1>9, <1>10, <1>11 DEF WorkerTry

\* A step of the except block touches one worker, its job's row and its copy only.
LEMMA HandlerFrame ==
    ASSUME TypeOK, NEW w \in Workers, WorkerHandler(w)
    PROVE  WorkerFrame(w) /\ LeasesKept(w)
<1> USE DEF WorkerFrame, LeasesKept, At, broker, intake, contract
<1>1. CASE Handle(w)
  BY <1>1, GotoEffect, LapsedEffect DEF Handle
<1>2. CASE MarkFailed(w) \/ ReplyFailed(w)
  BY <1>2, GotoEffect DEF MarkFailed, ReplyFailed
<1>3. CASE CompleteFailed(w)
  BY <1>3, GotoEffect, RowEffect DEF CompleteFailed, OwnsLease, Finished
<1>4. CASE Release(w)
  BY <1>4, GotoEffect, RowEffect DEF Release, OwnsLease, Released
<1>5. CASE Retry(w)
  BY <1>5, GotoEffect, PutBackFrame DEF Retry
<1>6. CASE RetryFails(w)
  BY <1>6, FinishEffect DEF RetryFails
<1>7. QED
  BY <1>1, <1>2, <1>3, <1>4, <1>5, <1>6 DEF WorkerHandler

\* A failing call, a crash or a lost channel touches one worker and its copy only.
LEMMA FaultFrame ==
    ASSUME TypeOK, NEW w \in Workers, WorkerFault(w)
    PROVE  WorkerFrame(w) /\ LeasesKept(w)
<1> USE DEF WorkerFrame, LeasesKept, At, broker, intake, contract
<1>1. CASE StartFails(w) \/ TryOutage(w)
  BY <1>1, GotoEffect DEF StartFails, TryOutage
<1>2. CASE ContendUnconfirmed(w)
  BY <1>2, GotoEffect, WorkerTypes DEF ContendUnconfirmed, TypeOK
<1>3. CASE RetryUnconfirmed(w)
  BY <1>3, FinishEffect, RequeueFrame, PutBackFrame DEF RetryUnconfirmed, Escape
<1>4. CASE HandlerOutage(w) \/ Crash(w)
  BY <1>4, FinishEffect, RequeueFrame DEF HandlerOutage, Crash, Escape
<1>5. CASE Disconnect(w)
  BY <1>5, RequeueFrame DEF Disconnect, TypeOK
<1>6. QED
  BY <1>1, <1>2, <1>3, <1>4, <1>5 DEF WorkerFault

-----------------------------------------------------------------------------
(* Leases: while no live owner misses its heartbeats, a worker that claimed  *)
(* owns the row until it completes or releases it                            *)

\* Places of a worker that gave its lease back, or never had one.
Unleased == {"idle", "retry", "ack"}

HolderOwns(w) == work[w].held /\ work[w].pc \notin Unleased => OwnsLease(w)

LapsedIsAbandoned(j) ==
    exec[j].status = "processing" /\ exec[j].lapsed => ~Heartbeating(j)

LeaseInv ==
    /\ \A w \in Workers : work[w].pc = "claim" \/ work[w].held => work[w].job \in SlackJobs
    /\ "stall" \notin Faults =>
          /\ \A w \in Workers : HolderOwns(w)
          /\ \A j \in SlackJobs : LapsedIsAbandoned(j)

\* A step of w that neither claims nor makes a row lapse.
OwnLeaseKept(w) ==
    /\ work'[w].held => work[w].held /\ work'[w].job = work[w].job
    /\ work'[w].pc = "claim" => work'[w].job \in SlackJobs
    /\ HolderOwns(w) => HolderOwns(w)'
    /\ \A j \in SlackJobs :
          exec'[j].status = "processing"
              => /\ exec[j].status = "processing" /\ exec'[j].owner = exec[j].owner
                 /\ exec'[j].lapsed => exec[j].lapsed

\* What the lease invariant needs of a step by one worker that takes over no lease.
LEMMA LeaseInvKept ==
    ASSUME TypeOK, LeaseInv, NEW w \in Workers, WorkerFrame(w), LeasesKept(w), OwnLeaseKept(w)
    PROVE  LeaseInv'
<1>1. \A v \in Workers : work'[v].pc = "claim" \/ work'[v].held => work'[v].job \in SlackJobs
  BY DEF LeaseInv, WorkerFrame, OwnLeaseKept
<1>2. ASSUME "stall" \notin Faults, NEW v \in Workers PROVE HolderOwns(v)'
  <2>1. CASE v = w
    BY <1>2, <2>1 DEF LeaseInv, OwnLeaseKept
  <2>2. CASE v # w
    <3>1. work'[v] = work[v] /\ HolderOwns(v)
      BY <1>2, <2>2 DEF LeaseInv, WorkerFrame
    <3>2. QED
      BY <2>2, <3>1 DEF LeaseInv, HolderOwns, OwnsLease, LeasesKept
  <2>3. QED
    BY <2>1, <2>2
<1>3. ASSUME "stall" \notin Faults, NEW j \in SlackJobs PROVE LapsedIsAbandoned(j)'
  <2>1. \A v \in Workers : work'[v].held /\ work'[v].job = j => work[v].held /\ work[v].job = j
    BY DEF WorkerFrame, OwnLeaseKept
  <2>2. LapsedIsAbandoned(j)
    BY <1>3 DEF LeaseInv
  <2>3. QED
    BY <2>1, <2>2 DEF LapsedIsAbandoned, Heartbeating, OwnLeaseKept
<1>4. QED
  BY <1>1, <1>2, <1>3 DEF LeaseInv

\* claim_review_execution takes over only a lease whose owner is gone (as long
\* as no live owner missed its heartbeats), so nobody else holds one after it.
LEMMA ClaimKeepsLeaseInv ==
    ASSUME TypeOK, LeaseInv, NEW w \in Workers, Claim(w)
    PROVE  LeaseInv'
<1> DEFINE job == work[w].job
<1>1. job \in SlackJobs
  BY DEF Claim, LeaseInv, At
<1>2. CASE Claimable(exec[job])
  <2>1. \A j \in SlackJobs : exec'[j] = IF j = job THEN LeasedTo(w) ELSE exec[j]
    BY <1>2, RowEffect DEF Claim
  <2>2. /\ \A v \in Workers : v # w => work'[v] = work[v]
        /\ work'[w].pc = "load" /\ work'[w].job = job
    BY <1>2 DEF Claim, TypeOK, Work
  <2>3. ASSUME "stall" \notin Faults, NEW v \in Workers PROVE HolderOwns(v)'
    <3>1. CASE v = w
      BY <1>1, <2>1, <2>2, <3>1 DEF HolderOwns, OwnsLease, LeasedTo
    <3>2. CASE v # w /\ work[v].job # job
      BY <2>1, <2>2, <2>3, <3>2 DEF LeaseInv, HolderOwns, OwnsLease
    <3>3. CASE v # w /\ work[v].job = job
      <4>1. ~(work[v].held /\ OwnsLease(v))
        BY <1>1, <1>2, <2>3, <3>3 DEF LeaseInv, LapsedIsAbandoned, Heartbeating, OwnsLease, Claimable
      <4>2. QED
        BY <2>2, <2>3, <3>3, <4>1 DEF LeaseInv, HolderOwns
    <3>4. QED
      BY <3>1, <3>2, <3>3
  <2>4. ASSUME "stall" \notin Faults, NEW j \in SlackJobs PROVE LapsedIsAbandoned(j)'
    <3>1. CASE j = job
      BY <1>1, <2>1, <3>1 DEF LapsedIsAbandoned, LeasedTo
    <3>2. CASE j # job
      BY <2>1, <2>2, <2>4, <3>2 DEF LeaseInv, LapsedIsAbandoned, Heartbeating
    <3>3. QED
      BY <3>1, <3>2
  <2>5. \A v \in Workers : work'[v].pc = "claim" \/ work'[v].held => work'[v].job \in SlackJobs
    BY <1>1, <2>2 DEF LeaseInv
  <2>6. QED
    BY <2>3, <2>4, <2>5 DEF LeaseInv
<1>3. CASE ~Claimable(exec[job])
  <2>1. exec' = exec
    BY <1>3 DEF Claim
  <2>2. WorkerFrame(w) /\ LeasesKept(w)
    BY <2>1, TryFrame DEF WorkerTry, LeasesKept
  <2>3. OwnLeaseKept(w)
    BY <1>1, <1>3, <2>1, GotoEffect DEF Claim, OwnLeaseKept, At, HolderOwns, OwnsLease, Unleased
  <2>4. QED
    BY <2>2, <2>3, LeaseInvKept
<1>4. QED
  BY <1>2, <1>3

\* Apart from the claim, the try block gives a lease up only with the delivery.
LEMMA TryKeepsOwnLease ==
    ASSUME TypeOK, LeaseInv, NEW w \in Workers, WorkerTry(w), ~At(w, "claim")
    PROVE  OwnLeaseKept(w)
<1> USE DEF OwnLeaseKept, At, HolderOwns, OwnsLease, Unleased, broker, intake, contract
<1>1. CASE Start(w)
  BY <1>1, GotoEffect DEF Start, IsSlack
<1>2. CASE AckDuplicate(w)
  BY <1>2, GotoEffect, FinishEffect DEF AckDuplicate
<1>3. CASE Contend(w)
  BY <1>3, GotoEffect DEF Contend
<1>4. CASE Load(w)
  BY <1>4, GotoEffect DEF Load, TypeOK, Work
<1>5. CASE Parse(w) \/ NoText(w) \/ Analyse(w) \/ ReviewRaises(w)
  BY <1>5, GotoEffect DEF Parse, NoText, Analyse, ReviewRaises
<1>6. CASE Finalize(w)
  BY <1>6 DEF Finalize, TypeOK, Work
<1>7. CASE Settle(w)
  <2>1. /\ work'[w].held = work[w].held /\ work'[w].job = work[w].job
        /\ work'[w].pc \in {"reply", "except"} /\ work[w].pc = "settle"
    BY <1>7, GotoEffect DEF Settle
  <2>2. CASE exec' = exec
    BY <2>1, <2>2
  <2>3. CASE IsSlack(w) /\ exec' = [exec EXCEPT ![work[w].job].lapsed = FALSE]
    <3>1. \A k \in SlackJobs : /\ exec'[k].status = exec[k].status
                               /\ exec'[k].owner = exec[k].owner
                               /\ exec'[k].lapsed => exec[k].lapsed
      BY <2>3, LapsedEffect
    <3>2. QED
      BY <2>1, <2>3, <3>1 DEF IsSlack
  <2>4. QED
    BY <1>7, <2>2, <2>3 DEF Settle
<1>8. CASE Reply(w)
  BY <1>8, GotoEffect DEF Reply
<1>9. CASE Complete(w)
  <2>1. CASE OwnsLease(w)
    <3>1. \A j \in SlackJobs : exec'[j] = IF j = work[w].job THEN Finished ELSE exec[j]
      BY <1>9, <2>1, RowEffect DEF Complete
    <3>2. QED
      BY <1>9, <2>1, <3>1, GotoEffect DEF Complete, Finished
  <2>2. CASE ~OwnsLease(w)
    BY <1>9, <2>2, GotoEffect DEF Complete
  <2>3. QED
    BY <2>1, <2>2
<1>10. CASE Ack(w)
  BY <1>10, FinishEffect DEF Ack
<1>11. QED
  BY <1>1, <1>2, <1>3, <1>4, <1>5, <1>6, <1>7, <1>8, <1>9, <1>10 DEF WorkerTry, Claim

\* The except block completes or releases only the worker's own lease.
LEMMA HandlerKeepsOwnLease ==
    ASSUME TypeOK, LeaseInv, NEW w \in Workers, WorkerHandler(w)
    PROVE  OwnLeaseKept(w)
<1> USE DEF OwnLeaseKept, At, HolderOwns, OwnsLease, Unleased, broker, intake, contract
<1>1. CASE Handle(w)
  <2> DEFINE stale == work[w].held /\ ~(exec[work[w].job].status = "processing" /\ exec[work[w].job].owner = w)
  <2>1. /\ work[w].pc = "except"
        /\ work'[w].held = work[w].held /\ work'[w].job = work[w].job
        /\ work'[w].pc \in {"ack", "markFailed", "release", "retry"}
        /\ stale => work'[w].pc = "ack"
    BY <1>1, GotoEffect DEF Handle
  <2>2. CASE work[w].held /\ ~stale
    <3>1. exec' = [exec EXCEPT ![work[w].job].lapsed = FALSE]
      BY <1>1, <2>2 DEF Handle
    <3>2. \A k \in SlackJobs : /\ exec'[k].status = exec[k].status
                               /\ exec'[k].owner = exec[k].owner
                               /\ exec'[k].lapsed => exec[k].lapsed
      BY <3>1, LapsedEffect
    <3>3. work[w].job \in SlackJobs
      BY <2>2 DEF LeaseInv
    <3>4. QED
      BY <2>1, <3>2, <3>3
  <2>3. CASE ~(work[w].held /\ ~stale)
    <3>1. exec' = exec
      BY <1>1, <2>3 DEF Handle
    <3>2. QED
      BY <2>1, <2>3, <3>1
  <2>4. QED
    BY <2>2, <2>3
<1>2. CASE MarkFailed(w) \/ ReplyFailed(w)
  BY <1>2, GotoEffect DEF MarkFailed, ReplyFailed
<1>3. CASE CompleteFailed(w)
  BY <1>3, GotoEffect, RowEffect DEF CompleteFailed, Finished
<1>4. CASE Release(w)
  BY <1>4, GotoEffect, RowEffect DEF Release, Released
<1>5. CASE Retry(w) \/ RetryFails(w)
  BY <1>5, GotoEffect, FinishEffect DEF Retry, RetryFails
<1>6. QED
  BY <1>1, <1>2, <1>3, <1>4, <1>5 DEF WorkerHandler

\* A crash forgets the lease token together with the delivery.
LEMMA FaultKeepsOwnLease ==
    ASSUME TypeOK, LeaseInv, NEW w \in Workers, WorkerFault(w)
    PROVE  OwnLeaseKept(w)
<1> USE DEF OwnLeaseKept, At, HolderOwns, OwnsLease, Unleased, broker, intake, contract
<1>1. CASE StartFails(w) \/ ContendUnconfirmed(w) \/ TryOutage(w)
  BY <1>1, GotoEffect DEF StartFails, ContendUnconfirmed, TryOutage
<1>2. CASE RetryUnconfirmed(w) \/ HandlerOutage(w) \/ Crash(w)
  BY <1>2, FinishEffect DEF RetryUnconfirmed, HandlerOutage, Crash, Escape
<1>3. CASE Disconnect(w)
  BY <1>3 DEF Disconnect, TypeOK, Work, LeaseInv
<1>4. QED
  BY <1>1, <1>2, <1>3 DEF WorkerFault

\* The lease invariant (who reviews owns the row, and a row that has lapsed is
\* abandoned) is kept by every step.
THEOREM LeaseInvInductive == TypeOK /\ LeaseInv /\ [Next]_vars => LeaseInv'
<1> SUFFICES ASSUME TypeOK, LeaseInv, [Next]_vars PROVE LeaseInv'
  OBVIOUS
<1>1. ASSUME NEW j \in Jobs,
             Publish(j) \/ IntakePass(j) \/ PublishAgain(j) \/ \E a \in Attempts : RetryDue(j, a)
      PROVE  LeaseInv'
  <2>1. work' = work /\ exec' = exec
    BY <1>1, IntakePassFrame DEF Publish, PublishAgain, RetryDue
  <2>2. QED
    BY <2>1 DEF LeaseInv, HolderOwns, OwnsLease, LapsedIsAbandoned, Heartbeating
<1>2. ASSUME NEW j \in Jobs, NEW w \in Workers, NEW a \in Attempts, Deliver(w, j, a)
      PROVE  LeaseInv'
  <2>1. /\ \A v \in Workers : v # w => work'[v] = work[v]
        /\ ~work'[w].held /\ work'[w].pc = "start"
        /\ exec' = exec
    BY <1>2 DEF Deliver, TypeOK
  <2>2. QED
    BY <2>1 DEF LeaseInv, HolderOwns, OwnsLease, LapsedIsAbandoned, Heartbeating
<1>3. ASSUME NEW w \in Workers, WorkerTry(w) PROVE LeaseInv'
  <2>1. CASE At(w, "claim")
    <3>1. Claim(w)
      BY <1>3, <2>1 DEF WorkerTry, At, Start, AckDuplicate, Contend, Load, Parse, NoText,
                        Analyse, Finalize, ReviewRaises, Settle, Reply, Complete, Ack
    <3>2. QED
      BY <3>1, ClaimKeepsLeaseInv
  <2>2. CASE ~At(w, "claim")
    BY <1>3, <2>2, TryFrame, TryKeepsOwnLease, LeaseInvKept
  <2>3. QED
    BY <2>1, <2>2
<1>4. ASSUME NEW w \in Workers, WorkerHandler(w) PROVE LeaseInv'
  BY <1>4, HandlerFrame, HandlerKeepsOwnLease, LeaseInvKept
<1>5. ASSUME NEW w \in Workers, WorkerFault(w) PROVE LeaseInv'
  BY <1>5, FaultFrame, FaultKeepsOwnLease, LeaseInvKept
<1>6. ASSUME NEW w \in Workers, Heartbeat(w) PROVE LeaseInv'
  BY <1>6, LapsedEffect DEF Heartbeat, LeaseInv, HolderOwns, OwnsLease, LapsedIsAbandoned, Heartbeating
<1>7. ASSUME NEW j \in SlackJobs, Lapse(j) PROVE LeaseInv'
  BY <1>7, LapsedEffect DEF Lapse, LeaseInv, HolderOwns, OwnsLease, LapsedIsAbandoned, Heartbeating
<1>8. ASSUME NEW j \in SlackJobs, Stall(j) PROVE LeaseInv'
  BY <1>8 DEF Stall, Fault, LeaseInv
<1>9. CASE UNCHANGED vars
  BY <1>9 DEF vars, LeaseInv, HolderOwns, OwnsLease, LapsedIsAbandoned, Heartbeating
<1>10. QED
  BY <1>1, <1>2, <1>3, <1>4, <1>5, <1>6, <1>7, <1>8, <1>9 DEF Next, Broker

\* At first nobody holds a lease.
LEMMA InitLeaseInv == Init => LeaseInv
BY DEF Init, LeaseInv, HolderOwns, LapsedIsAbandoned, Idle, Absent

\* The lease excludes a second reviewer of a Slack submission, for any number
\* of workers, duplicates and attempts, and through crashes, closed channels and
\* failing calls, as long as the heartbeat of a live owner is never late by a
\* whole lease.
THEOREM ReviewerExclusion == Spec => []OneReviewerPerSubmission
<1>1. LeaseInv => OneReviewerPerSubmission
  BY DEF LeaseInv, OneReviewerPerSubmission, HolderOwns, OwnsLease, Reviewing, Unleased
<1>2. QED
  BY <1>1, TypeCorrect, InitLeaseInv, LeaseInvInductive, PTL DEF Spec

-----------------------------------------------------------------------------
(* No Slack submission is lost *)

Safe(j) == Completed(j) \/ j \in dead \/ InFlight(j)

ChannelsOpen ==
    "disconnect" \notin Faults => \A w \in Workers : work[w].pc # "idle" => work[w].up

KeptInv == ChannelsOpen /\ NoSubmissionLost

\* A submission stays safe in a step of one worker if the others go on
\* carrying it and that worker, if it carried it, leaves it safe.
LEMMA SafeNext ==
    ASSUME TypeOK, NEW w \in Workers, WorkerFrame(w), NEW j \in SlackJobs, Safe(j),
           \A v \in Workers : v # w /\ Carries(v, j) => Carries(v, j)' \/ Safe(j)',
           Carries(w, j) => Safe(j)'
    PROVE  Safe(j)'
<1>1. CASE Completed(j)
  BY <1>1 DEF WorkerFrame, Completed, Safe
<1>2. CASE j \in dead
  BY <1>2 DEF WorkerFrame, Safe
<1>3. CASE \E a \in Attempts : ready[<<j, a>>] > 0 \/ delayed[<<j, a>>] > 0
  BY <1>3, JobsAssumption DEF WorkerFrame, Copies, Safe, InFlight
<1>4. ASSUME NEW v \in Workers, Carries(v, j) PROVE Safe(j)'
  BY <1>4 DEF Safe, InFlight
<1>5. QED
  BY <1>1, <1>2, <1>3, <1>4 DEF Safe, InFlight

\* A worker that is not disturbed goes on carrying its job.
LEMMA OthersCarry ==
    ASSUME TypeOK, NEW w \in Workers, WorkerFrame(w), LeasesKept(w),
           NEW v \in Workers, v # w, NEW j \in SlackJobs, Carries(v, j)
    PROVE  Carries(v, j)'
BY DEF WorkerFrame, LeasesKept, Carries, OwnsLease

\* The step of w that carries j: it carries on, completes or puts j back.
OwnCarryKept(w) == \A j \in SlackJobs : Carries(w, j) => Safe(j)'

\* Moving on without touching the leases.
LEMMA MoveOn ==
    ASSUME TypeOK, NEW w \in Workers, NEW j \in SlackJobs, Carries(w, j),
           work'[w].job = work[w].job, work'[w].up = work[w].up, work'[w].held = work[w].held,
           \/ work'[w].pc \in InHandler \ {"except"}
           \/ /\ work[w].pc \notin InHandler \ {"except"}
              /\ work'[w].pc \in (InTry \cup {"except"}) \ {"ackDuplicate"}
              /\ exec'[j].status = exec[j].status /\ exec'[j].owner = exec[j].owner
    PROVE  Safe(j)'
<1>1. Carries(w, j)'
  BY DEF Carries, OwnsLease
<1>2. QED
  BY <1>1 DEF Safe, InFlight

\* In the try block a worker that carries a submission goes on doing so or
\* completes it; it drops its copy only when another worker owns the submission.
LEMMA TryKeepsCarry ==
    ASSUME TypeOK, LeaseInv, NEW w \in Workers, WorkerTry(w)
    PROVE  OwnCarryKept(w)
<1> SUFFICES ASSUME NEW j \in SlackJobs, Carries(w, j) PROVE Safe(j)'
  BY DEF OwnCarryKept
<1> USE DEF At, broker, intake, contract, InTry, InHandler
<1>0. work[w].job = j
  BY DEF Carries
<1>1. CASE Start(w)
  BY <1>1, <1>0, GotoEffect, MoveOn DEF Start, IsSlack
<1>2. CASE Claim(w)
  <2>1. CASE Claimable(exec[j])
    <3>1. exec'[j] = LeasedTo(w)
      BY <1>0, <1>2, <2>1, RowEffect DEF Claim
    <3>2. work'[w].pc = "load" /\ work'[w].job = j /\ work'[w].up = work[w].up
      BY <1>0, <1>2, <2>1 DEF Claim, TypeOK, Work
    <3>3. Carries(w, j)'
      BY <3>1, <3>2 DEF Carries, OwnsLease, LeasedTo
    <3>4. QED
      BY <3>3 DEF Safe, InFlight
  <2>2. CASE exec[j].status = "completed"
    BY <1>2, <2>2, <1>0 DEF Claim, Claimable, Safe, Completed
  <2>3. CASE ~Claimable(exec[j]) /\ exec[j].status # "completed"
    BY <1>2, <2>3, <1>0, GotoEffect, MoveOn DEF Claim
  <2>4. QED
    BY <2>1, <2>2, <2>3
<1>3. CASE AckDuplicate(w)
  BY <1>3 DEF AckDuplicate, Carries
<1>4. CASE Contend(w)
  <2>1. work[w].up
    BY DEF Carries
  <2>2. Copy(w) \in Copies /\ work[w].attempt \in Attempts
    BY <1>4, WorkerTypes DEF Contend
  <2>3. delayed'[Copy(w)] > 0
    BY <1>4, <2>1, <2>2 DEF Contend, TypeOK
  <2>4. QED
    BY <1>0, <2>2, <2>3 DEF Copy, Safe, InFlight
<1>5. CASE Load(w)
  BY <1>0, <1>5, GotoEffect, MoveOn DEF Load, TypeOK, Work
<1>6. CASE Parse(w) \/ NoText(w) \/ Analyse(w) \/ ReviewRaises(w)
  BY <1>0, <1>6, GotoEffect, MoveOn DEF Parse, NoText, Analyse, ReviewRaises
<1>7. CASE Finalize(w)
  BY <1>0, <1>7, MoveOn DEF Finalize, TypeOK, Work
<1>8. CASE Settle(w)
  BY <1>0, <1>8, GotoEffect, LapsedEffect, MoveOn DEF Settle
<1>9. CASE Reply(w)
  BY <1>0, <1>9, GotoEffect, MoveOn DEF Reply, IsSlack
<1>10. CASE Complete(w)
  <2>1. CASE OwnsLease(w)
    <3>1. exec'[j] = Finished
      BY <1>0, <1>10, <2>1, RowEffect, ZenonT(60) DEF Complete
    <3>2. QED
      BY <3>1 DEF Finished, Safe, Completed
  <2>2. CASE ~OwnsLease(w)
    BY <1>0, <1>10, <2>2, GotoEffect, MoveOn DEF Complete
  <2>3. QED
    BY <2>1, <2>2
<1>11. CASE Ack(w)
  BY <1>11 DEF Ack, Carries
<1>12. QED
  BY <1>1, <1>2, <1>3, <1>4, <1>5, <1>6, <1>7, <1>8, <1>9, <1>10, <1>11 DEF WorkerTry

\* The except block ends in a copy in the retry or dead-letter queue, or in an
\* acknowledgement after completion or of a superseded copy.
LEMMA HandlerKeepsCarry ==
    ASSUME TypeOK, NEW w \in Workers, WorkerHandler(w)
    PROVE  OwnCarryKept(w)
<1> SUFFICES ASSUME NEW j \in SlackJobs, Carries(w, j) PROVE Safe(j)'
  BY DEF OwnCarryKept
<1> USE DEF At, broker, intake, contract, InTry, InHandler
<1>0. work[w].job = j /\ work[w].up
  BY DEF Carries
<1>1. CASE Handle(w)
  <2>1. ~(work[w].held /\ ~OwnsLease(w))
    BY <1>1 DEF Handle, Carries
  <2>2. work'[w].pc \in {"markFailed", "release", "retry"}
    BY <1>1, <2>1, GotoEffect DEF Handle
  <2>3. QED
    BY <1>0, <1>1, <2>2, GotoEffect, MoveOn DEF Handle
<1>2. CASE MarkFailed(w) \/ ReplyFailed(w)
  BY <1>0, <1>2, GotoEffect, MoveOn DEF MarkFailed, ReplyFailed
<1>3. CASE CompleteFailed(w) \/ Release(w)
  BY <1>0, <1>3, GotoEffect, MoveOn DEF CompleteFailed, Release
<1>4. CASE Retry(w)
  BY <1>0, <1>4, PutBackFrame DEF Retry, Safe, InFlight
<1>5. CASE RetryFails(w)
  BY <1>0, <1>5 DEF RetryFails
<1>6. QED
  BY <1>1, <1>2, <1>3, <1>4, <1>5 DEF WorkerHandler

\* What a crash or a failing call interrupts, the broker takes back.
LEMMA FaultKeepsCarry ==
    ASSUME TypeOK, NEW w \in Workers, WorkerFault(w)
    PROVE  OwnCarryKept(w)
<1> SUFFICES ASSUME NEW j \in SlackJobs, Carries(w, j) PROVE Safe(j)'
  BY DEF OwnCarryKept
<1> USE DEF At, broker, intake, contract, InTry, InHandler
<1>0. work[w].job = j /\ work[w].up
  BY DEF Carries
<1>1. CASE StartFails(w) \/ ContendUnconfirmed(w) \/ TryOutage(w)
  BY <1>0, <1>1, GotoEffect, MoveOn DEF StartFails, ContendUnconfirmed, TryOutage
<1>2. CASE RetryUnconfirmed(w) \/ HandlerOutage(w) \/ Crash(w) \/ Disconnect(w)
  <2>1. work[w].pc # "idle" /\ Requeue(w)
    BY <1>2 DEF RetryUnconfirmed, HandlerOutage, Crash, Disconnect, Escape
  <2>2. ready'[Copy(w)] > 0 /\ work[w].attempt \in Attempts
    BY <1>0, <2>1, RequeueFrame, WorkerTypes
  <2>3. QED
    BY <1>0, <2>2 DEF Copy, Safe, InFlight
<1>3. QED
  BY <1>1, <1>2 DEF WorkerFault

\* A claim takes a job over only from an abandoned lease, or onto a channel
\* that is open: either way the job is still carried.
LEMMA ClaimKeepsOthers ==
    ASSUME TypeOK, LeaseInv, ChannelsOpen, "stall" \notin Faults \/ "disconnect" \notin Faults,
           NEW w \in Workers, Claim(w),
           NEW v \in Workers, v # w, NEW j \in SlackJobs, Carries(v, j)
    PROVE  Carries(v, j)' \/ Safe(j)'
<1> DEFINE job == work[w].job
<1>1. work'[v] = work[v]
  BY TryFrame DEF WorkerTry, WorkerFrame
<1>2. CASE ~Claimable(exec[job]) \/ j # job
  <2>1. exec'[j] = exec[j]
    <3>1. CASE ~Claimable(exec[job])
      BY <3>1 DEF Claim
    <3>2. CASE Claimable(exec[job]) /\ j # job
      <4>1. exec' = [exec EXCEPT ![job] = LeasedTo(w)]
        BY <3>2 DEF Claim
      <4>2. QED
        BY <3>2, <4>1, RowEffect
    <3>3. QED
      BY <1>2, <3>1, <3>2
  <2>2. QED
    BY <1>1, <2>1 DEF Carries, OwnsLease
<1>3. CASE Claimable(exec[job]) /\ j = job /\ "stall" \notin Faults
  <2>1. ~(work[v].held /\ OwnsLease(v))
    <3>1. LapsedIsAbandoned(j)
      BY <1>3 DEF LeaseInv
    <3>2. work[v].job = j /\ Claimable(exec[j])
      BY <1>3 DEF Carries
    <3>3. QED
      BY <3>1, <3>2 DEF LapsedIsAbandoned, Heartbeating, OwnsLease, Claimable
  <2>2. work[v].held => work[v].pc \in InHandler \ {"except"}
    BY <2>1 DEF Carries
  <2>3. QED
    BY <1>1, <2>2 DEF Carries
<1>4. CASE Claimable(exec[job]) /\ j = job /\ "disconnect" \notin Faults
  <2>1. work[w].up
    BY <1>4 DEF ChannelsOpen, Claim, At
  <2>2. exec'[j] = LeasedTo(w)
    BY <1>4, RowEffect DEF Claim
  <2>3. work'[w].pc = "load" /\ work'[w].job = j /\ work'[w].up
    BY <1>4, <2>1 DEF Claim, TypeOK, Work
  <2>4. Carries(w, j)'
    BY <2>2, <2>3 DEF Carries, OwnsLease, LeasedTo, InTry
  <2>5. QED
    BY <2>4 DEF Safe, InFlight
<1>5. QED
  BY <1>2, <1>3, <1>4

\* Only the fault that says so closes a channel.
LEMMA WorkerKeepsChannels ==
    ASSUME TypeOK, ChannelsOpen, NEW w \in Workers,
           WorkerTry(w) \/ WorkerHandler(w) \/ WorkerFault(w)
    PROVE  ChannelsOpen'
<1> SUFFICES ASSUME "disconnect" \notin Faults PROVE \A v \in Workers : work'[v].pc # "idle" => work'[v].up
  BY DEF ChannelsOpen
<1>1. \A v \in Workers : v # w => work'[v] = work[v]
  BY TryFrame, HandlerFrame, FaultFrame DEF WorkerFrame
<1>2. work[w].pc # "idle" => work[w].up
  BY DEF ChannelsOpen
<1> USE DEF At, broker, intake, contract
<1>3. work'[w].pc # "idle" => work'[w].up
  <2>1. CASE WorkerTry(w)
    <3>1. CASE Claim(w) \/ Load(w) \/ Finalize(w)
      BY <1>2, <3>1, GotoEffect DEF Claim, Load, Finalize, TypeOK, Work
    <3>2. CASE Start(w) \/ AckDuplicate(w) \/ Contend(w) \/ Parse(w) \/ NoText(w) \/ Analyse(w)
      BY <1>2, <3>2, GotoEffect, FinishEffect DEF Start, AckDuplicate, Contend, Parse, NoText, Analyse
    <3>3. CASE ReviewRaises(w) \/ Settle(w) \/ Reply(w) \/ Complete(w) \/ Ack(w)
      BY <1>2, <3>3, GotoEffect, FinishEffect DEF ReviewRaises, Settle, Reply, Complete, Ack
    <3>4. QED
      BY <2>1, <3>1, <3>2, <3>3 DEF WorkerTry
  <2>2. CASE WorkerHandler(w)
    BY <1>2, <2>2, GotoEffect, FinishEffect DEF WorkerHandler, Handle, MarkFailed, ReplyFailed,
       CompleteFailed, Release, Retry, RetryFails
  <2>3. CASE WorkerFault(w)
    BY <1>2, <2>3, GotoEffect, FinishEffect DEF WorkerFault, StartFails, ContendUnconfirmed, TryOutage,
       RetryUnconfirmed, HandlerOutage, Crash, Disconnect, Escape, Fault
  <2>4. QED
    BY <2>1, <2>2, <2>3
<1>4. QED
  BY <1>1, <1>3, <1>2 DEF ChannelsOpen

\* That published submissions are completed, dead-lettered or in flight is kept
\* by every step: each acknowledgement follows a confirmed publish, a completion,
\* or the finding that somebody else owns the submission.
THEOREM KeptInductive == TypeOK /\ LeaseInv /\ KeptInv /\ [Next]_vars => KeptInv'
<1> SUFFICES ASSUME TypeOK, LeaseInv, KeptInv, [Next]_vars PROVE KeptInv'
  OBVIOUS
<1> USE DEF KeptInv, broker, intake, contract
<1>a. NoSubmissionLost <=> ("stall" \notin Faults \/ "disconnect" \notin Faults
                               => \A j \in published \cap SlackJobs : Safe(j))
  BY DEF NoSubmissionLost, Safe
<1>b. NoSubmissionLost' <=> ("stall" \notin Faults \/ "disconnect" \notin Faults
                               => \A j \in published' \cap SlackJobs : Safe(j)')
  BY DEF NoSubmissionLost, Safe
<1>1. ASSUME NEW k \in Jobs, Publish(k) \/ PublishAgain(k) PROVE KeptInv'
  <2>1. ChannelsOpen'
    BY <1>1 DEF Publish, PublishAgain, ChannelsOpen
  <2>2. ready' = [ready EXCEPT ![<<k, 1>>] = @ + 1] /\ <<k, 1>> \in Copies /\ 1 \in Attempts
    BY <1>1, BoundsAssumption DEF Publish, PublishAgain, Copies, Attempts
  <2>3. ready'[<<k, 1>>] > 0 /\ \A c \in Copies : ready[c] > 0 => ready'[c] > 0
    BY <2>2 DEF TypeOK
  <2>4. work' = work /\ exec' = exec /\ dead' = dead /\ delayed' = delayed /\ published' \subseteq published \cup {k}
    BY <1>1 DEF Publish, PublishAgain
  <2>5. Safe(k)'
    BY <2>2, <2>3 DEF Safe, InFlight
  <2>6. ASSUME NEW j \in SlackJobs, Safe(j) PROVE Safe(j)'
    <3>1. \A a \in Attempts : <<j, a>> \in Copies
      BY JobsAssumption DEF Copies
    <3>2. QED
      BY <2>3, <2>4, <2>6, <3>1 DEF Safe, Completed, InFlight, Carries, OwnsLease
  <2>7. QED
    BY <1>a, <1>b, <2>1, <2>4, <2>5, <2>6
<1>2. ASSUME NEW k \in Jobs, NEW a \in Attempts, RetryDue(k, a) PROVE KeptInv'
  <2>1. ChannelsOpen'
    BY <1>2 DEF RetryDue, ChannelsOpen
  <2>2. \A c \in Copies : ready[c] > 0 \/ delayed[c] > 0 => ready'[c] > 0 \/ delayed'[c] > 0
    BY <1>2 DEF RetryDue, TypeOK
  <2>3. work' = work /\ exec' = exec /\ dead' = dead /\ published' = published
    BY <1>2 DEF RetryDue
  <2>4. ASSUME NEW j \in SlackJobs, Safe(j) PROVE Safe(j)'
    <3>1. \A b \in Attempts : <<j, b>> \in Copies
      BY JobsAssumption DEF Copies
    <3>2. QED
      BY <2>2, <2>3, <2>4, <3>1 DEF Safe, Completed, InFlight, Carries, OwnsLease
  <2>5. QED
    BY <1>a, <1>b, <2>1, <2>3, <2>4
<1>3. ASSUME NEW k \in Jobs, NEW w \in Workers, NEW a \in Attempts, Deliver(w, k, a) PROVE KeptInv'
  <2>1. /\ \A v \in Workers : v # w => work'[v] = work[v]
        /\ work'[w].pc = "start" /\ work'[w].job = k /\ work'[w].up /\ ~work'[w].held
    BY <1>3 DEF Deliver, TypeOK
  <2>2. work[w].pc = "idle"
    BY <1>3 DEF Deliver, At
  <2>3. \A c \in Copies : c # <<k, a>> => ready'[c] = ready[c]
    BY <1>3 DEF Deliver, TypeOK
  <2>4. exec' = exec /\ dead' = dead /\ delayed' = delayed /\ published' = published
    BY <1>3 DEF Deliver
  <2>5. ChannelsOpen'
    BY <2>1 DEF ChannelsOpen
  <2>6. Carries(w, k)'
    BY <2>1 DEF Carries, InTry
  <2>7. ASSUME NEW j \in SlackJobs, Safe(j) PROVE Safe(j)'
    <3>1. CASE j = k
      BY <2>6, <3>1 DEF Safe, InFlight
    <3>2. CASE j # k
      <4>1. \A b \in Attempts : <<j, b>> \in Copies /\ ready'[<<j, b>>] = ready[<<j, b>>]
        BY <2>3, <3>2, JobsAssumption DEF Copies
      <4>2. \A v \in Workers : Carries(v, j) => Carries(v, j)'
        BY <2>1, <2>2, <2>4 DEF Carries, OwnsLease, InTry, InHandler
      <4>3. QED
        BY <2>4, <2>7, <4>1, <4>2 DEF Safe, Completed, InFlight
    <3>3. QED
      BY <3>1, <3>2
  <2>8. QED
    BY <1>a, <1>b, <2>4, <2>5, <2>7
<1>4. ASSUME NEW w \in Workers, WorkerTry(w) \/ WorkerHandler(w) \/ WorkerFault(w) PROVE KeptInv'
  <2>1. ChannelsOpen'
    BY <1>4, WorkerKeepsChannels
  <2>2. WorkerFrame(w) /\ OwnCarryKept(w)
    BY <1>4, TryFrame, HandlerFrame, FaultFrame, TryKeepsCarry, HandlerKeepsCarry, FaultKeepsCarry
  <2>3. ASSUME "stall" \notin Faults \/ "disconnect" \notin Faults,
               NEW j \in SlackJobs, NEW v \in Workers, v # w, Carries(v, j)
        PROVE  Carries(v, j)' \/ Safe(j)'
    <3>1. CASE LeasesKept(w)
      BY <2>2, <2>3, <3>1, OthersCarry
    <3>2. CASE ~LeasesKept(w)
      <4>1. WorkerTry(w) /\ At(w, "claim")
        BY <1>4, <3>2, TryFrame, HandlerFrame, FaultFrame
      <4>2. Claim(w)
        BY <4>1 DEF WorkerTry, At, Start, AckDuplicate, Contend, Load, Parse, NoText,
                    Analyse, Finalize, ReviewRaises, Settle, Reply, Complete, Ack
      <4>3. QED
        BY <2>3, <4>2, ClaimKeepsOthers
    <3>3. QED
      BY <3>1, <3>2
  <2>4. ASSUME "stall" \notin Faults \/ "disconnect" \notin Faults,
               NEW j \in published' \cap SlackJobs
        PROVE  Safe(j)'
    <3>1. Safe(j)
      BY <1>a, <2>2, <2>4 DEF WorkerFrame
    <3>2. Carries(w, j) => Safe(j)'
      BY <2>2 DEF OwnCarryKept
    <3>3. QED
      BY <2>2, <2>3, <2>4, <3>1, <3>2, SafeNext
  <2>5. QED
    BY <1>b, <2>1, <2>4
<1>5. ASSUME exec' = exec \/ \E j \in SlackJobs, b \in BOOLEAN : exec' = [exec EXCEPT ![j].lapsed = b],
             UNCHANGED <<published, ready, delayed, dead, work>>
      PROVE  KeptInv'
  <2>1. \A j \in SlackJobs : exec'[j].status = exec[j].status /\ exec'[j].owner = exec[j].owner
    BY <1>5, LapsedEffect
  <2>2. ChannelsOpen'
    BY <1>5 DEF ChannelsOpen
  <2>3. ASSUME NEW j \in SlackJobs, Safe(j) PROVE Safe(j)'
    BY <1>5, <2>1, <2>3 DEF Safe, Completed, InFlight, Carries, OwnsLease
  <2>4. QED
    BY <1>5, <1>a, <1>b, <2>2, <2>3
<1>6. ASSUME NEW w \in Workers, Heartbeat(w) PROVE KeptInv'
  <2>1. work[w].job \in SlackJobs
    BY <1>6 DEF Heartbeat, LeaseInv
  <2>2. QED
    BY <1>5, <1>6, <2>1 DEF Heartbeat
<1>7. ASSUME NEW j \in SlackJobs, Lapse(j) \/ Stall(j) PROVE KeptInv'
  BY <1>5, <1>7 DEF Lapse, Stall
<1>8. ASSUME NEW j \in Jobs, IntakePass(j) PROVE KeptInv'
  BY <1>5, <1>8, IntakePassFrame
<1>9. CASE UNCHANGED vars
  BY <1>5, <1>9 DEF vars
<1>10. QED
  BY <1>1, <1>2, <1>3, <1>4, <1>6, <1>7, <1>8, <1>9 DEF Next, Broker

\* At first nothing is published.
LEMMA InitKeptInv == Init => KeptInv
BY DEF Init, KeptInv, ChannelsOpen, NoSubmissionLost, Idle

\* Crashes, duplicate deliveries, failed database calls and unconfirmed
\* publishes lose no published Slack submission, and neither do lapsed leases
\* or closed channels, as long as the two do not meet.
THEOREM SubmissionsAreKept == Spec => []NoSubmissionLost
<1>1. KeptInv => NoSubmissionLost
  BY DEF KeptInv
<1>2. QED
  BY <1>1, TypeCorrect, InitLeaseInv, LeaseInvInductive, InitKeptInv, KeptInductive, PTL DEF Spec

-----------------------------------------------------------------------------
(* The dead-letter queue, and the promise to the sender *)

FailureQueued(w) == <<work[w].job, "failure">> \in replies

\* On its last attempt a worker of a Slack job reaches the retry, which is then
\* the dead letter, only past the failure reply; copies exist only of published
\* jobs.
DeadLetterInv ==
    /\ DeadLetterAnswered
    /\ \A w \in Workers : work[w].pc = "completeFailed" => FailureQueued(w)
    /\ \A w \in Workers : work[w].pc = "release" => ~LastAttempt(w)
    /\ "outage" \notin Faults =>
          \A w \in Workers :
              work[w].pc = "retry" /\ IsSlack(w) /\ LastAttempt(w) => FailureQueued(w)

PublishedInv ==
    /\ \A w \in Workers : work[w].pc # "idle" => work[w].job \in published
    /\ \A j \in Jobs, a \in Attempts :
          ready[<<j, a>>] > 0 \/ delayed[<<j, a>>] > 0 => j \in published

\* A step of w as far as DeadLetterInv goes.
DeadLetterKept(w) ==
    /\ replies \subseteq replies'
    /\ \A v \in Workers : v # w => work'[v] = work[v]
    /\ work'[w].pc \in {"completeFailed", "release", "retry"}
          => work'[w].job = work[w].job /\ work'[w].attempt = work[w].attempt
    /\ work'[w].pc = "completeFailed" => <<work[w].job, "failure">> \in replies'
    /\ work'[w].pc = "release" => ~LastAttempt(w)
    /\ "outage" \notin Faults =>
          /\ work'[w].pc = "retry" /\ IsSlack(w) /\ LastAttempt(w) => <<work[w].job, "failure">> \in replies'
          /\ \A j \in (dead' \ dead) \cap SlackJobs : <<j, "failure">> \in replies

\* What a step by one worker has to keep for dead letters to be answered.
LEMMA DeadLetterKeptSuffices ==
    ASSUME DeadLetterInv, NEW w \in Workers, DeadLetterKept(w)
    PROVE  DeadLetterInv'
<1>1. DeadLetterAnswered'
  BY DEF DeadLetterInv, DeadLetterKept, DeadLetterAnswered
<1>2. \A v \in Workers : v # w => /\ work'[v].pc = "completeFailed" => FailureQueued(v)'
                                  /\ work'[v].pc = "release" => ~LastAttempt(v)'
  BY DEF DeadLetterInv, DeadLetterKept, FailureQueued, LastAttempt
<1>3. /\ work'[w].pc = "completeFailed" => FailureQueued(w)'
      /\ work'[w].pc = "release" => ~LastAttempt(w)'
  BY DEF DeadLetterKept, FailureQueued, LastAttempt
<1>4. ASSUME "outage" \notin Faults, NEW v \in Workers,
             work'[v].pc = "retry", IsSlack(v)', LastAttempt(v)'
      PROVE  FailureQueued(v)'
  BY <1>4 DEF DeadLetterInv, DeadLetterKept, FailureQueued, LastAttempt, IsSlack
<1>5. QED
  BY <1>1, <1>2, <1>3, <1>4 DEF DeadLetterInv

\* The try block dead-letters nothing.
LEMMA TryKeepsDeadLetter ==
    ASSUME TypeOK, NEW w \in Workers, WorkerTry(w)
    PROVE  DeadLetterKept(w)
<1> USE DEF DeadLetterKept, At, broker, intake, contract
<1>1. CASE Start(w) \/ AckDuplicate(w) \/ Contend(w) \/ Parse(w) \/ NoText(w) \/ Analyse(w)
  BY <1>1, GotoEffect, FinishEffect DEF Start, AckDuplicate, Contend, Parse, NoText, Analyse
<1>2. CASE Claim(w) \/ Load(w) \/ Finalize(w)
  BY <1>2, GotoEffect DEF Claim, Load, Finalize, TypeOK, Work
<1>3. CASE ReviewRaises(w) \/ Settle(w) \/ Complete(w) \/ Ack(w)
  BY <1>3, GotoEffect, FinishEffect DEF ReviewRaises, Settle, Complete, Ack
<1>4. CASE Reply(w)
  BY <1>4, GotoEffect DEF Reply, QueueReply
<1>5. QED
  BY <1>1, <1>2, <1>3, <1>4 DEF WorkerTry

\* The except block reaches the dead letter of a Slack job only through
\* _queue_slack_failure.
LEMMA HandlerKeepsDeadLetter ==
    ASSUME TypeOK, DeadLetterInv, NEW w \in Workers, WorkerHandler(w)
    PROVE  DeadLetterKept(w)
<1> USE DEF DeadLetterKept, At, broker, intake, contract
<1>1. CASE Handle(w)
  BY <1>1, GotoEffect DEF Handle
<1>2. CASE MarkFailed(w)
  BY <1>2, GotoEffect DEF MarkFailed
<1>3. CASE ReplyFailed(w)
  BY <1>3, GotoEffect DEF ReplyFailed, QueueReply
<1>4. CASE CompleteFailed(w)
  BY <1>4, GotoEffect DEF CompleteFailed, DeadLetterInv, FailureQueued
<1>5. CASE Release(w)
  BY <1>5, GotoEffect DEF Release, DeadLetterInv
<1>6. CASE Retry(w)
  BY <1>6, GotoEffect DEF Retry, PutBack, DeadLetterInv, FailureQueued, IsSlack
<1>7. CASE RetryFails(w)
  BY <1>7, FinishEffect DEF RetryFails
<1>8. QED
  BY <1>1, <1>2, <1>3, <1>4, <1>5, <1>6, <1>7 DEF WorkerHandler

\* While the database answers, no failure skips _queue_slack_failure.
LEMMA FaultKeepsDeadLetter ==
    ASSUME TypeOK, DeadLetterInv, NEW w \in Workers, WorkerFault(w)
    PROVE  DeadLetterKept(w)
<1> USE DEF DeadLetterKept, At, broker, intake, contract
<1>1. CASE StartFails(w) \/ ContendUnconfirmed(w) \/ TryOutage(w)
  BY <1>1, GotoEffect DEF StartFails, ContendUnconfirmed, TryOutage, Fault
<1>2. CASE RetryUnconfirmed(w)
  BY <1>2, FinishEffect DEF RetryUnconfirmed, Escape, PutBack, DeadLetterInv, FailureQueued, IsSlack
<1>3. CASE HandlerOutage(w) \/ Crash(w)
  BY <1>3, FinishEffect DEF HandlerOutage, Crash, Escape
<1>4. CASE Disconnect(w)
  BY <1>4 DEF Disconnect, TypeOK, Work, DeadLetterInv, FailureQueued, IsSlack, LastAttempt
<1>5. QED
  BY <1>1, <1>2, <1>3, <1>4 DEF WorkerFault

\* That dead letters, and workers about to write one, have a failure queued is
\* kept by every step, while the database answers.
THEOREM DeadLetterInductive == TypeOK /\ DeadLetterInv /\ [Next]_vars => DeadLetterInv'
<1> SUFFICES ASSUME TypeOK, DeadLetterInv, [Next]_vars PROVE DeadLetterInv'
  OBVIOUS
<1>1. ASSUME NEW w \in Workers, WorkerTry(w) \/ WorkerHandler(w) \/ WorkerFault(w) PROVE DeadLetterInv'
  BY <1>1, TryKeepsDeadLetter, HandlerKeepsDeadLetter, FaultKeepsDeadLetter, DeadLetterKeptSuffices
<1>2. ASSUME NEW j \in Jobs, NEW w \in Workers, NEW a \in Attempts, Deliver(w, j, a) PROVE DeadLetterInv'
  <2>1. DeadLetterKept(w)
    BY <1>2 DEF Deliver, DeadLetterKept, TypeOK
  <2>2. QED
    BY <2>1, DeadLetterKeptSuffices
<1>3. ASSUME UNCHANGED <<work, dead, replies>> PROVE DeadLetterInv'
  BY <1>3 DEF DeadLetterInv, DeadLetterAnswered, FailureQueued, LastAttempt, IsSlack
<1>4. ASSUME NEW j \in Jobs,
             Publish(j) \/ IntakePass(j) \/ PublishAgain(j) \/ \E a \in Attempts : RetryDue(j, a)
      PROVE DeadLetterInv'
  BY <1>3, <1>4, IntakePassFrame DEF Publish, PublishAgain, RetryDue
<1>5. CASE (\E w \in Workers : Heartbeat(w)) \/ \E j \in SlackJobs : Lapse(j) \/ Stall(j)
  BY <1>3, <1>5 DEF Heartbeat, Lapse, Stall, broker, intake
<1>6. CASE UNCHANGED vars
  BY <1>3, <1>6 DEF vars
<1>7. QED
  BY <1>1, <1>2, <1>4, <1>5, <1>6 DEF Next, Broker

\* At first the dead-letter queue is empty.
LEMMA InitDeadLetterInv == Init => DeadLetterInv
BY DEF Init, DeadLetterInv, DeadLetterAnswered, Idle

\* While the database answers, the dead-letter queue holds no Slack submission
\* whose sender was not told of the failure.
THEOREM DeadLettersAreAnswered == Spec => []DeadLetterAnswered
<1>1. DeadLetterInv => DeadLetterAnswered
  BY DEF DeadLetterInv
<1>2. QED
  BY <1>1, TypeCorrect, InitDeadLetterInv, DeadLetterInductive, PTL DEF Spec

\* A worker puts back nothing but its own job.
OwnJobOnly(w) ==
    /\ work[w].pc # "idle"
    /\ work'[w].pc # "idle" => work'[w].job = work[w].job
    /\ \A j \in Jobs, a \in Attempts :
          ready'[<<j, a>>] > 0 \/ delayed'[<<j, a>>] > 0
              => ready[<<j, a>>] > 0 \/ delayed[<<j, a>>] > 0 \/ j = work[w].job

\* A worker handles copies of the job it was delivered and of no other.
LEMMA WorkerOwnJobOnly ==
    ASSUME TypeOK, NEW w \in Workers, WorkerTry(w) \/ WorkerHandler(w) \/ WorkerFault(w)
    PROVE  OwnJobOnly(w)
<1> USE DEF OwnJobOnly, At, broker, intake, contract
<1>a. \A j \in Jobs, a \in Attempts : <<j, a>> \in Copies
  BY DEF Copies
<1>b. ASSUME NEW c, delayed' = [delayed EXCEPT ![<<work[w].job, c>>] = @ + 1]
      PROVE  \A j \in Jobs, a \in Attempts : j # work[w].job => delayed'[<<j, a>>] = delayed[<<j, a>>]
  BY <1>a, <1>b DEF TypeOK
<1>c. ASSUME Requeue(w)
      PROVE  \A j \in Jobs, a \in Attempts : j # work[w].job => ready'[<<j, a>>] = ready[<<j, a>>]
  BY <1>a, <1>c DEF TypeOK, Requeue, Copy
<1>d. ASSUME PutBack(w)
      PROVE  \A j \in Jobs, a \in Attempts : j # work[w].job => delayed'[<<j, a>>] = delayed[<<j, a>>]
  BY <1>b, <1>d DEF PutBack
<1>1. CASE WorkerTry(w)
  <2>1. CASE Start(w) \/ AckDuplicate(w) \/ Parse(w) \/ NoText(w) \/ Analyse(w)
    BY <2>1, GotoEffect, FinishEffect DEF Start, AckDuplicate, Parse, NoText, Analyse
  <2>2. CASE Claim(w) \/ Load(w) \/ Finalize(w)
    BY <2>2, GotoEffect DEF Claim, Load, Finalize, TypeOK, Work
  <2>3. CASE ReviewRaises(w) \/ Settle(w) \/ Reply(w) \/ Complete(w) \/ Ack(w)
    BY <2>3, GotoEffect, FinishEffect DEF ReviewRaises, Settle, Reply, Complete, Ack
  <2>4. CASE Contend(w)
    BY <2>4, <1>b, GotoEffect DEF Contend, Copy
  <2>5. QED
    BY <1>1, <2>1, <2>2, <2>3, <2>4 DEF WorkerTry
<1>2. CASE WorkerHandler(w)
  <2>1. CASE Retry(w)
    BY <2>1, <1>d, GotoEffect DEF Retry
  <2>2. CASE ~Retry(w)
    BY <1>2, <2>2, GotoEffect, FinishEffect DEF WorkerHandler, Handle, MarkFailed, ReplyFailed,
       CompleteFailed, Release, RetryFails
  <2>3. QED
    BY <2>1, <2>2
<1>3. CASE WorkerFault(w)
  <2>1. CASE StartFails(w) \/ TryOutage(w)
    BY <2>1, GotoEffect DEF StartFails, TryOutage
  <2>2. CASE ContendUnconfirmed(w)
    BY <2>2, <1>b, GotoEffect DEF ContendUnconfirmed, Copy
  <2>3. CASE RetryUnconfirmed(w)
    BY <2>3, <1>c, <1>d, FinishEffect DEF RetryUnconfirmed, Escape
  <2>4. CASE HandlerOutage(w) \/ Crash(w)
    BY <2>4, <1>c, FinishEffect DEF HandlerOutage, Crash, Escape
  <2>5. CASE Disconnect(w)
    BY <2>5, <1>c DEF Disconnect, TypeOK, Work
  <2>6. QED
    BY <1>3, <2>1, <2>2, <2>3, <2>4, <2>5 DEF WorkerFault
<1>4. QED
  BY <1>1, <1>2, <1>3

\* Copies, deliveries and dead letters are those of published jobs: every step
\* keeps that.
THEOREM PublishedInductive == TypeOK /\ PublishedInv /\ [Next]_vars => PublishedInv'
<1> SUFFICES ASSUME TypeOK, PublishedInv, [Next]_vars PROVE PublishedInv'
  OBVIOUS
<1>a. \A j \in Jobs, a \in Attempts : <<j, a>> \in Copies
  BY DEF Copies
<1>1. ASSUME NEW w \in Workers, WorkerTry(w) \/ WorkerHandler(w) \/ WorkerFault(w) PROVE PublishedInv'
  <2>1. OwnJobOnly(w) /\ WorkerFrame(w)
    BY <1>1, WorkerOwnJobOnly, TryFrame, HandlerFrame, FaultFrame
  <2>2. QED
    BY <2>1 DEF OwnJobOnly, WorkerFrame, PublishedInv
<1>2. ASSUME NEW j \in Jobs, NEW w \in Workers, NEW a \in Attempts, Deliver(w, j, a) PROVE PublishedInv'
  <2>1. j \in published
    BY <1>2 DEF Deliver, PublishedInv
  <2>2. \A v \in Workers : work'[v] = work[v] \/ work'[v].job = j
    BY <1>2 DEF Deliver, TypeOK
  <2>3. \A k \in Jobs, b \in Attempts : ready'[<<k, b>>] > 0 => ready[<<k, b>>] > 0
    BY <1>2, <1>a DEF Deliver, TypeOK
  <2>4. QED
    BY <1>2, <2>1, <2>2, <2>3 DEF Deliver, PublishedInv, intake
<1>3. ASSUME NEW j \in Jobs, Publish(j) \/ PublishAgain(j) PROVE PublishedInv'
  <2>1. \A k \in Jobs, a \in Attempts : k # j => ready'[<<k, a>>] = ready[<<k, a>>]
    BY <1>3, <1>a DEF Publish, PublishAgain, TypeOK
  <2>2. j \in published' /\ published \subseteq published' /\ work' = work /\ delayed' = delayed
    BY <1>3 DEF Publish, PublishAgain, intake
  <2>3. QED
    BY <2>1, <2>2 DEF PublishedInv
<1>4. ASSUME NEW j \in Jobs, NEW a \in Attempts, RetryDue(j, a) PROVE PublishedInv'
  <2>1. \A k \in Jobs, b \in Attempts :
           ready'[<<k, b>>] > 0 \/ delayed'[<<k, b>>] > 0 => ready[<<k, b>>] > 0 \/ delayed[<<k, b>>] > 0
    BY <1>4, <1>a DEF RetryDue, TypeOK
  <2>2. QED
    BY <1>4, <2>1 DEF RetryDue, PublishedInv, intake
<1>5. ASSUME UNCHANGED <<published, ready, delayed, dead, work>> PROVE PublishedInv'
  BY <1>5 DEF PublishedInv
<1>6. CASE \/ \E w \in Workers : Heartbeat(w)
           \/ \E j \in SlackJobs : Lapse(j) \/ Stall(j)
           \/ \E j \in Jobs : IntakePass(j)
  BY <1>5, <1>6, IntakePassFrame DEF Heartbeat, Lapse, Stall, broker, intake
<1>7. CASE UNCHANGED vars
  BY <1>5, <1>7 DEF vars, broker, intake
<1>8. QED
  BY <1>1, <1>2, <1>3, <1>4, <1>6, <1>7 DEF Next, Broker

\* At first there are no copies.
LEMMA InitPublishedInv == Init => PublishedInv
BY DEF Init, PublishedInv, Idle, Copies

PromiseInv == TypeOK /\ AnswerFirst /\ DeadLetterInv /\ PublishedInv

CompletedSame ==
    \A j \in SlackJobs : exec'[j].status = "completed" <=> exec[j].status = "completed"

\* The three things a step may do to what the sender sees: nothing, an answer
\* of a published job, or the closing of an answered one.
LEMMA PromiseStutter ==
    ASSUME UNCHANGED <<published, dead, replies>>, CompletedSame
    PROVE  UNCHANGED Promise!vars
BY DEF Promise!vars, CompletedSame, Answered, Completed

\* Queueing a reply to a published job answers it or changes nothing.
LEMMA PromiseAnswer ==
    ASSUME UNCHANGED <<published, dead>>, CompletedSame,
           NEW j \in published, NEW kind \in ReplyKinds, replies' = replies \cup {<<j, kind>>}
    PROVE  [Promise!Next]_(Promise!vars)
<1> DEFINE answered == {k \in SlackJobs : Answered(k)}
           closed == {k \in SlackJobs : Completed(k)} \cup (dead \cap SlackJobs)
<1>1. closed' = closed
  BY DEF CompletedSame, Completed
<1>2. \A k \in SlackJobs : Answered(k)' <=> Answered(k) \/ k = j
  BY DEF Answered
<1>3. CASE j \in SlackJobs /\ ~Answered(j)
  <2>1. answered' = answered \cup {j} /\ j \notin answered
    BY <1>2, <1>3
  <2>2. Promise!Answer(j)
    BY <1>1, <1>3, <2>1 DEF Promise!Answer
  <2>3. QED
    BY <1>3, <2>2 DEF Promise!Next
<1>4. CASE j \notin SlackJobs \/ Answered(j)
  <2>1. answered' = answered
    BY <1>2, <1>4
  <2>2. QED
    BY <1>1, <2>1 DEF Promise!vars
<1>5. QED
  BY <1>3, <1>4

\* Completing or dead-lettering one answered submission closes it.
LEMMA PromiseClose ==
    ASSUME UNCHANGED <<published, replies>>, NEW j \in SlackJobs, Answered(j),
           \A k \in SlackJobs : (Completed(k) \/ k \in dead)' <=> Completed(k) \/ k \in dead \/ k = j
    PROVE  [Promise!Next]_(Promise!vars)
<1> DEFINE answered == {k \in SlackJobs : Answered(k)}
           closed == {k \in SlackJobs : Completed(k)} \cup (dead \cap SlackJobs)
<1>1. answered' = answered /\ j \in answered
  BY DEF Answered
<1>2. closed' = closed \cup {j}
  OBVIOUS
<1>3. CASE j \notin closed
  <2>1. Promise!Close(j)
    BY <1>1, <1>2, <1>3 DEF Promise!Close
  <2>2. QED
    BY <2>1 DEF Promise!Next
<1>4. CASE j \in closed
  <2>1. closed' = closed
    BY <1>2, <1>4
  <2>2. QED
    BY <1>1, <2>1 DEF Promise!vars
<1>5. QED
  BY <1>3, <1>4

\* complete_review_execution closes the submission of the worker, which is
\* answered by then, or changes nothing.
LEMMA CompletionIsClose ==
    ASSUME PromiseInv, NEW w \in Workers, Complete(w) \/ CompleteFailed(w)
    PROVE  [Promise!Next]_(Promise!vars)
<1> USE DEF PromiseInv, broker, intake, contract
<1>1. CASE work[w].job \in SlackJobs /\ OwnsLease(w)
  <2>1. Answered(work[w].job)
    BY DEF AnswerFirst, Completing, Complete, CompleteFailed, At
  <2>2. \A k \in SlackJobs : exec'[k] = IF k = work[w].job THEN Finished ELSE exec[k]
    BY <1>1, RowEffect DEF Complete, CompleteFailed
  <2>3. UNCHANGED <<published, dead, replies>>
    BY DEF Complete, CompleteFailed
  <2>4. \A k \in SlackJobs : (Completed(k) \/ k \in dead)' <=> Completed(k) \/ k \in dead \/ k = work[w].job
    BY <2>2, <2>3 DEF Completed, Finished
  <2>5. QED
    BY <1>1, <2>1, <2>3, <2>4, PromiseClose
<1>2. CASE ~(work[w].job \in SlackJobs /\ OwnsLease(w))
  <2>1. \A k \in SlackJobs : exec'[k] = exec[k]
    BY <1>2, RowEffect DEF Complete, CompleteFailed
  <2>2. UNCHANGED <<published, dead, replies>>
    BY DEF Complete, CompleteFailed
  <2>3. QED
    BY <2>1, <2>2, PromiseStutter DEF CompletedSame
<1>3. QED
  BY <1>1, <1>2

\* retry() at the last attempt closes a submission whose failure is queued by
\* then, and before the last attempt it changes nothing the sender can see.
LEMMA RetryIsClose ==
    ASSUME PromiseInv, "outage" \notin Faults, NEW w \in Workers, Retry(w) \/ RetryUnconfirmed(w)
    PROVE  [Promise!Next]_(Promise!vars)
<1> USE DEF PromiseInv, broker, intake, contract
<1>1. UNCHANGED <<published, replies, exec>> /\ At(w, "retry")
  BY DEF Retry, RetryUnconfirmed
<1>2. dead' = dead \/ (dead' = dead \cup {work[w].job} /\ LastAttempt(w))
  BY DEF Retry, RetryUnconfirmed, PutBack
<1>3. CASE dead' \cap SlackJobs = dead \cap SlackJobs
  BY <1>1, <1>3 DEF Promise!vars, Answered, Completed
<1>4. CASE dead' \cap SlackJobs # dead \cap SlackJobs
  <2>1. dead' = dead \cup {work[w].job} /\ LastAttempt(w) /\ work[w].job \in SlackJobs
    BY <1>2, <1>4
  <2>2. <<work[w].job, "failure">> \in replies
    BY <1>1, <2>1 DEF DeadLetterInv, FailureQueued, IsSlack, At
  <2>3. Answered(work[w].job)
    BY <2>2 DEF Answered, ReplyKinds
  <2>4. \A k \in SlackJobs : (Completed(k) \/ k \in dead)' <=> Completed(k) \/ k \in dead \/ k = work[w].job
    BY <1>1, <2>1 DEF Completed
  <2>5. QED
    BY <1>1, <2>1, <2>3, <2>4, PromiseClose
<1>5. QED
  BY <1>3, <1>4

\* _queue_slack_review and _queue_slack_failure answer the worker's job.
LEMMA ReplyIsAnswer ==
    ASSUME PromiseInv, NEW w \in Workers, Reply(w) \/ ReplyFailed(w)
    PROVE  [Promise!Next]_(Promise!vars)
<1>1. work[w].job \in published
  BY DEF PromiseInv, PublishedInv, Reply, ReplyFailed, At
<1>2. \E kind \in ReplyKinds : replies' = replies \cup {<<work[w].job, kind>>}
  BY DEF Reply, ReplyFailed, QueueReply, ReplyKinds
<1>3. UNCHANGED <<published, dead>> /\ CompletedSame
  BY DEF Reply, ReplyFailed, broker, intake, CompletedSame
<1>4. QED
  BY <1>1, <1>2, <1>3, PromiseAnswer

\* No other call of a worker answers or closes anything.
LEMMA OthersAreSilent ==
    ASSUME PromiseInv, NEW w \in Workers, WorkerTry(w) \/ WorkerHandler(w) \/ WorkerFault(w),
           ~(Reply(w) \/ ReplyFailed(w) \/ Complete(w) \/ CompleteFailed(w) \/ Retry(w) \/ RetryUnconfirmed(w))
    PROVE  UNCHANGED <<published, dead, replies>> /\ CompletedSame
<1> USE DEF PromiseInv, CompletedSame, broker, intake, contract
<1>1. CASE Claim(w)
  <2>1. CASE Claimable(exec[work[w].job])
    <3>1. exec[work[w].job].status # "completed" /\ LeasedTo(w).status # "completed"
      BY <2>1 DEF Claimable, LeasedTo
    <3>2. exec' = [exec EXCEPT ![work[w].job] = LeasedTo(w)]
      BY <1>1, <2>1 DEF Claim
    <3>3. \A k \in SlackJobs : exec'[k] = IF k = work[w].job THEN LeasedTo(w) ELSE exec[k]
      BY <3>2, RowEffect, ZenonT(60)
    <3>4. QED
      BY <1>1, <3>1, <3>3 DEF Claim
  <2>2. CASE ~Claimable(exec[work[w].job])
    BY <1>1, <2>2 DEF Claim
  <2>3. QED
    BY <2>1, <2>2
<1>2. CASE Settle(w) \/ Handle(w)
  BY <1>2, LapsedEffect DEF Settle, Handle
<1>3. CASE Release(w)
  <2>1. CASE OwnsLease(w)
    <3>1. exec' = [exec EXCEPT ![work[w].job] = Released]
      BY <1>3, <2>1 DEF Release
    <3>2. \A k \in SlackJobs : exec'[k] = IF k = work[w].job THEN Released ELSE exec[k]
      BY <3>1, RowEffect, ZenonT(60)
    <3>3. QED
      BY <1>3, <2>1, <3>2 DEF Release, OwnsLease, Released
  <2>2. CASE ~OwnsLease(w)
    BY <1>3, <2>2 DEF Release
  <2>3. QED
    BY <2>1, <2>2
<1>4. CASE UNCHANGED <<published, dead, replies, exec>>
  BY <1>4
<1>5. QED
  BY <1>1, <1>2, <1>3, <1>4 DEF WorkerTry, WorkerHandler, WorkerFault, Start, AckDuplicate, Contend,
     Load, Parse, NoText, Analyse, Finalize, ReviewRaises, Ack, MarkFailed, RetryFails, StartFails,
     ContendUnconfirmed, TryOutage, HandlerOutage, Crash, Disconnect

\* Every step answers at most one accepted submission, or closes one that is
\* answered: the workers, the broker and the tables implement ReviewPromise.
THEOREM PromiseStep ==
    ASSUME "outage" \notin Faults, PromiseInv, [Next]_vars
    PROVE  [Promise!Next]_(Promise!vars)
<1> USE DEF PromiseInv
<1>1. ASSUME NEW w \in Workers, WorkerTry(w) \/ WorkerHandler(w) \/ WorkerFault(w)
      PROVE  [Promise!Next]_(Promise!vars)
  BY <1>1, CompletionIsClose, RetryIsClose, ReplyIsAnswer, OthersAreSilent, PromiseStutter
<1>2. ASSUME NEW j \in Jobs, Publish(j) PROVE [Promise!Next]_(Promise!vars)
  <2>1. /\ published' = published \cup {j} /\ j \notin published
        /\ {k \in SlackJobs : Answered(k)}' = {k \in SlackJobs : Answered(k)}
        /\ {k \in SlackJobs : Completed(k)}' = {k \in SlackJobs : Completed(k)}
        /\ dead' = dead
    BY <1>2 DEF Publish, Answered, Completed
  <2>2. CASE j \in SlackJobs
    <3>1. Promise!Accept(j)
      BY <2>1, <2>2 DEF Promise!Accept
    <3>2. QED
      BY <2>2, <3>1 DEF Promise!Next
  <2>3. CASE j \notin SlackJobs
    BY <2>1, <2>3 DEF Promise!vars
  <2>4. QED
    BY <2>2, <2>3
<1>3. ASSUME NEW j \in Jobs, Broker(j) PROVE [Promise!Next]_(Promise!vars)
  BY <1>3, PromiseStutter DEF Broker, PublishAgain, RetryDue, Deliver, CompletedSame, intake
<1>3a. ASSUME NEW j \in Jobs, IntakePass(j) PROVE [Promise!Next]_(Promise!vars)
  BY <1>3a, IntakePassFrame, PromiseStutter DEF CompletedSame
<1>4. CASE \E w \in Workers : Heartbeat(w)
  BY <1>4, LapsedEffect, PromiseStutter DEF Heartbeat, broker, intake, CompletedSame
<1>5. CASE \E j \in SlackJobs : Lapse(j) \/ Stall(j)
  BY <1>5, LapsedEffect, PromiseStutter DEF Lapse, Stall, broker, intake, CompletedSame
<1>6. CASE UNCHANGED vars
  BY <1>6, PromiseStutter DEF vars, CompletedSame
<1>7. QED
  BY <1>1, <1>2, <1>3, <1>3a, <1>4, <1>5, <1>6 DEF Next

\* At first nothing is accepted, answered or closed.
LEMMA PromiseInitially == Init => Promise!Init
BY DEF Init, Promise!Init, Answered, Completed, Absent

\* Without database outages the review pipeline implements the safety part of
\* ReviewPromise: a submission is accepted, answered and closed in that order,
\* and nothing is undone, for every number of jobs, workers and faults.
THEOREM PromiseIsKept ==
    ASSUME "outage" \notin Faults
    PROVE  Spec => Promise!Init /\ [][Promise!Next]_(Promise!vars)
<1>1. Init => PromiseInv
  BY InitTypeOK, InitDeadLetterInv, InitPublishedInv
     DEF Init, PromiseInv, AnswerFirst, CompletedMeansAnswered, Completed, Absent, Idle, Completing
<1>2. PromiseInv /\ [Next]_vars => PromiseInv'
  BY TypeInductive, AnswerFirstInductive, DeadLetterInductive, PublishedInductive DEF PromiseInv
<1>3. PromiseInv /\ [Next]_vars => [Promise!Next]_(Promise!vars)
  BY PromiseStep
<1>4. QED
  BY <1>1, <1>2, <1>3, PromiseInitially, PTL DEF Spec

-----------------------------------------------------------------------------
(* Who will write the status of a contract last *)

\* Places of a worker that has written a final status and not yet closed the
\* submission.
Settling == {"settle", "reply", "complete", "replyFailed", "completeFailed"}

\* Places of a worker, without a lease, that has still to write one.
Pending == {"start", "load", "parse", "parsing", "analysing", "except", "markFailed", "retry"}

SettledBy(w, j) == work[w].job = j /\ work[w].held /\ work[w].pc \in Settling

Queued(j) == \E a \in Attempts : ready[<<j, a>>] > 0 \/ delayed[<<j, a>>] > 0

\* A status will be written for the job: a Slack submission is open and the
\* holder of its lease has not settled its contract; any other job has a copy
\* in a queue or with a worker that has not settled it.
Owes(j) ==
    \/ j \in SlackJobs /\ ~Completed(j) /\ \A w \in Workers : ~SettledBy(w, j)
    \/ j \notin SlackJobs /\ (Queued(j) \/ \E w \in Workers : work[w].job = j /\ work[w].pc \in Pending)

JobsOf(c) == {j \in published : ContractOf[j] = c}

\* A delivery, or the publish of a job, made the contract active.
Active(c) == status[c] \in ActiveStatuses /\ ~LeftQueued(c)

\* The contracts QuietContractIsSettled speaks of.
Answerable(c) ==
    /\ JobsOf(c) # {} /\ JobsOf(c) \cap dead = {}
    /\ JobsOf(c) \subseteq SlackJobs \/ "disconnect" \notin Faults
    /\ Active(c)

\* A Slack submission is reviewed, answered and completed under a lease.
Claimed ==
    \A w \in Workers :
        /\ work[w].pc \in {"load", "parse", "parsing", "analysing", "settle", "reply", "complete"}
              => work[w].job \notin SlackJobs \/ work[w].held
        /\ work[w].pc = "completeFailed" => work[w].held

CompletedArePublished == \A j \in SlackJobs : Completed(j) => j \in published

SettledInv ==
    /\ Claimed /\ CompletedArePublished
    /\ "stall" \notin Faults =>
          \A c \in Contracts : Answerable(c) => \E j \in JobsOf(c) : Owes(j)

\* A worker that has just written an active status.
Occupied(w) == work[w].pc \in {"parsing", "analysing"}

QueuedNext(j) == \E a \in Attempts : ready'[<<j, a>>] > 0 \/ delayed'[<<j, a>>] > 0

\* A step of w as far as SettledInv goes: it closes submissions it has settled,
\* settles what it stops owing, and writes an active status only to go on.
Closing(w) ==
    /\ \A j \in SlackJobs : exec'[j].status = "completed"
          => exec[j].status = "completed" \/ SettledBy(w, j)
    /\ \A j \in SlackJobs : SettledBy(w, j)'
          => SettledBy(w, j) \/ status'[ContractOf[j]] \notin ActiveStatuses
    /\ work[w].job \notin SlackJobs /\ work[w].pc \in Pending =>
          \/ "disconnect" \in Faults
          \/ work'[w].job = work[w].job /\ work'[w].pc \in Pending
          \/ work[w].job \in dead' \/ QueuedNext(work[w].job)
          \/ status'[ContractAt(w)] \notin ActiveStatuses
    /\ \A c \in Contracts : status'[c] \in ActiveStatuses
          => status'[c] = status[c] \/ (c = ContractAt(w) /\ Occupied(w)')
    /\ work[w].pc # "idle"
    /\ work'[w].pc # "idle" => work'[w].job = work[w].job

\* A worker keeps its lease on the way from the claim to the completion.
ClaimKept(w) ==
    /\ work'[w].pc \in {"load", "parse", "parsing", "analysing", "settle", "reply", "complete"}
          => work'[w].job \notin SlackJobs \/ work'[w].held
    /\ work'[w].pc = "completeFailed" => work'[w].held

\* What is written to a contract, and to no other.
LEMMA StatusEffect ==
    ASSUME TypeOK, NEW w \in Workers, work[w].pc # "idle", NEW s, SetStatus(w, s)
    PROVE  /\ status'[ContractAt(w)] = s
           /\ \A c \in Contracts : c # ContractAt(w) => status'[c] = status[c]
BY WorkerTypes DEF TypeOK, SetStatus

\* A worker that settles a contract writes a status that is final.
LEMMA FinalStatus ==
    ASSUME TypeOK, NEW w \in Workers, work[w].pc # "idle", NEW s, SetStatus(w, s),
           s \notin ActiveStatuses
    PROVE  /\ status'[ContractAt(w)] \notin ActiveStatuses
           /\ \A c \in Contracts : status'[c] \in ActiveStatuses => status'[c] = status[c]
BY StatusEffect, WorkerTypes

\* The try block settles a contract before it gives the job up.
LEMMA TryCloses ==
    ASSUME TypeOK, Claimed, LeaseInv, NEW w \in Workers, WorkerTry(w)
    PROVE  Closing(w) /\ ClaimKept(w)
<1> USE DEF Closing, ClaimKept, Claimed, At, SettledBy, Settling, Pending, Occupied, contract, broker, intake
<1>1. CASE Start(w)
  BY <1>1, GotoEffect DEF Start, IsSlack
<1>2. CASE Claim(w)
  <2>1. work[w].pc = "claim" /\ work[w].job \in SlackJobs
    BY <1>2 DEF Claim, LeaseInv
  <2>2. CASE Claimable(exec[work[w].job])
    <3>1. \A j \in SlackJobs : exec'[j].status = "completed" => exec[j].status = "completed"
      <4>1. exec' = [exec EXCEPT ![work[w].job] = LeasedTo(w)] /\ LeasedTo(w).status = "processing"
        BY <1>2, <2>2 DEF Claim, LeasedTo
      <4>2. QED
        BY <4>1, RowEffect
    <3>2. work'[w].pc = "load" /\ work'[w].job = work[w].job /\ work'[w].held
      BY <1>2, <2>2 DEF Claim, TypeOK, Work
    <3>3. QED
      BY <1>2, <2>1, <3>1, <3>2 DEF Claim
  <2>3. CASE ~Claimable(exec[work[w].job])
    BY <1>2, <2>1, <2>3, GotoEffect DEF Claim
  <2>4. QED
    BY <2>2, <2>3
<1>3. CASE AckDuplicate(w)
  BY <1>3, GotoEffect, FinishEffect DEF AckDuplicate
<1>4. CASE Contend(w)
  BY <1>4, GotoEffect DEF Contend
<1>5. CASE Load(w)
  <2>1. CASE ContractAt(w) \in reviewed
    <3>1. work'[w].pc = "settle" /\ work'[w].job = work[w].job /\ work'[w].held = work[w].held
      BY <1>5, <2>1 DEF Load, TypeOK, Work
    <3>2. SetStatus(w, "review_ready") /\ work[w].pc = "load" /\ exec' = exec
      BY <1>5, <2>1 DEF Load
    <3>3. QED
      BY <3>1, <3>2, FinalStatus DEF ContractAt, ActiveStatuses
  <2>2. CASE ContractAt(w) \notin reviewed
    BY <1>5, <2>2, GotoEffect DEF Load
  <2>3. QED
    BY <2>1, <2>2
<1>6. CASE Parse(w) \/ Analyse(w)
  <2>1. PICK s \in ActiveStatuses : SetStatus(w, s)
    BY <1>6 DEF Parse, Analyse, ActiveStatuses
  <2>2. /\ work[w].pc \in {"parse", "parsing"} /\ work'[w].pc \in {"parsing", "analysing"}
        /\ work'[w].job = work[w].job /\ work'[w].held = work[w].held /\ exec' = exec
    BY <1>6, GotoEffect DEF Parse, Analyse
  <2>3. QED
    BY <2>1, <2>2, StatusEffect
<1>7. CASE NoText(w)
  <2>1. PICK s \in {"ocr_required", "parse_failed"} : SetStatus(w, s)
    BY <1>7 DEF NoText
  <2>2. /\ work[w].pc = "parsing" /\ work'[w].pc = "settle"
        /\ work'[w].job = work[w].job /\ work'[w].held = work[w].held /\ exec' = exec
    BY <1>7, GotoEffect DEF NoText
  <2>3. QED
    BY <2>1, <2>2, FinalStatus DEF ContractAt, ActiveStatuses
<1>8. CASE Finalize(w)
  <2>1. work'[w].pc = "settle" /\ work'[w].job = work[w].job /\ work'[w].held = work[w].held
    BY <1>8 DEF Finalize, TypeOK, Work
  <2>2. SetStatus(w, "review_ready") /\ work[w].pc = "analysing" /\ exec' = exec
    BY <1>8 DEF Finalize
  <2>3. QED
    BY <2>1, <2>2, FinalStatus DEF ContractAt, ActiveStatuses
<1>9. CASE ReviewRaises(w)
  BY <1>9, GotoEffect DEF ReviewRaises
<1>10. CASE Settle(w)
  <2>1. \A j \in SlackJobs : exec'[j].status = exec[j].status
    BY <1>10, LapsedEffect DEF Settle
  <2>2. QED
    BY <1>10, <2>1, GotoEffect DEF Settle
<1>11. CASE Reply(w)
  BY <1>11, GotoEffect DEF Reply, IsSlack
<1>12. CASE Complete(w)
  <2>1. \A j \in SlackJobs : exec'[j].status = "completed" => exec[j].status = "completed" \/ j = work[w].job
    <3>1. CASE OwnsLease(w)
      <4>1. exec' = [exec EXCEPT ![work[w].job] = Finished]
        BY <1>12, <3>1 DEF Complete
      <4>2. QED
        BY <4>1, RowEffect
    <3>2. CASE ~OwnsLease(w)
      BY <1>12, <3>2 DEF Complete
    <3>3. QED
      BY <3>1, <3>2
  <2>2. /\ work[w].pc = "complete" /\ work'[w].pc \in {"ack", "except"}
        /\ work'[w].job = work[w].job /\ status' = status
    BY <1>12, GotoEffect DEF Complete
  <2>3. QED
    BY <2>1, <2>2
<1>13. CASE Ack(w)
  BY <1>13, FinishEffect DEF Ack
<1>14. QED
  BY <1>1, <1>2, <1>3, <1>4, <1>5, <1>6, <1>7, <1>8, <1>9, <1>10, <1>11, <1>12, <1>13 DEF WorkerTry

\* The except block settles a contract before it dead-letters a job, and a job
\* that is not dead-lettered has a copy in the retry queue.
LEMMA HandlerCloses ==
    ASSUME TypeOK, Claimed, LeaseInv, ChannelsOpen, NEW w \in Workers, WorkerHandler(w)
    PROVE  Closing(w) /\ ClaimKept(w)
<1> USE DEF Closing, ClaimKept, Claimed, At, SettledBy, Settling, Pending, Occupied, contract, broker, intake
<1>1. CASE Handle(w)
  <2>1. \A j \in SlackJobs : exec'[j].status = exec[j].status
    BY <1>1, LapsedEffect DEF Handle
  <2>2. /\ work[w].pc = "except" /\ work'[w].pc \in {"ack", "markFailed", "release", "retry"}
        /\ work'[w].job = work[w].job /\ status' = status
        /\ ~work[w].held => work'[w].pc \in {"markFailed", "retry"}
    BY <1>1, GotoEffect DEF Handle
  <2>3. work[w].job \notin SlackJobs => ~work[w].held
    BY DEF LeaseInv
  <2>4. QED
    BY <2>1, <2>2, <2>3
<1>2. CASE MarkFailed(w)
  <2>1. /\ work[w].pc = "markFailed" /\ work'[w].pc \in {"replyFailed", "retry"}
        /\ work'[w].job = work[w].job /\ exec' = exec
    BY <1>2, GotoEffect DEF MarkFailed
  <2>2. SetStatus(w, "analysis_failed")
    BY <1>2 DEF MarkFailed
  <2>3. QED
    BY <2>1, <2>2, FinalStatus DEF ContractAt, ActiveStatuses
<1>3. CASE ReplyFailed(w)
  BY <1>3, GotoEffect DEF ReplyFailed
<1>4. CASE CompleteFailed(w)
  <2>1. \A j \in SlackJobs : exec'[j].status = "completed" => exec[j].status = "completed" \/ j = work[w].job
    BY <1>4, RowEffect DEF CompleteFailed
  <2>2. /\ work[w].pc = "completeFailed" /\ work'[w].pc = "retry"
        /\ work'[w].job = work[w].job /\ status' = status
    BY <1>4, GotoEffect DEF CompleteFailed
  <2>3. QED
    BY <2>1, <2>2
<1>5. CASE Release(w)
  <2>1. \A j \in SlackJobs : exec'[j].status = "completed" => exec[j].status = "completed"
    <3>1. CASE OwnsLease(w)
      BY <1>5, <3>1, RowEffect DEF Release, Released
    <3>2. CASE ~OwnsLease(w)
      BY <1>5, <3>2 DEF Release
    <3>3. QED
      BY <3>1, <3>2
  <2>2. /\ work[w].pc = "release" /\ work'[w].pc = "retry"
        /\ work'[w].job = work[w].job /\ status' = status
    BY <1>5, GotoEffect DEF Release
  <2>3. QED
    BY <2>1, <2>2
<1>6. CASE Retry(w)
  <2>1. /\ work[w].pc = "retry" /\ work'[w].pc = "ack" /\ work'[w].job = work[w].job
        /\ status' = status /\ exec' = exec /\ PutBack(w)
    BY <1>6, GotoEffect DEF Retry
  <2>2. work[w].job \in dead' \/ QueuedNext(work[w].job)
    BY <2>1, PutBackFrame DEF QueuedNext
  <2>3. QED
    BY <2>1, <2>2
<1>7. CASE RetryFails(w)
  <2>1. "disconnect" \in Faults
    BY <1>7 DEF RetryFails, ChannelsOpen
  <2>2. /\ work[w].pc = "retry" /\ work'[w].pc = "idle" /\ ~work'[w].held
        /\ status' = status /\ exec' = exec
    BY <1>7, FinishEffect DEF RetryFails
  <2>3. QED
    BY <2>1, <2>2
<1>8. QED
  BY <1>1, <1>2, <1>3, <1>4, <1>5, <1>6, <1>7 DEF WorkerHandler

\* A delivery that is interrupted is given back, as long as its channel is open.
LEMMA FaultCloses ==
    ASSUME TypeOK, Claimed, LeaseInv, ChannelsOpen, NEW w \in Workers, WorkerFault(w)
    PROVE  Closing(w) /\ ClaimKept(w)
<1> USE DEF Closing, ClaimKept, Claimed, At, SettledBy, Settling, Pending, Occupied, contract, broker, intake
<1>0. status' = status /\ exec' = exec
  BY DEF WorkerFault, StartFails, ContendUnconfirmed, TryOutage, RetryUnconfirmed,
         HandlerOutage, Crash, Disconnect
<1>a. ASSUME work[w].pc # "idle", Escape(w)
      PROVE  /\ work'[w].pc = "idle" /\ ~work'[w].held
             /\ "disconnect" \in Faults \/ QueuedNext(work[w].job)
  <2>1. work'[w].pc = "idle" /\ ~work'[w].held
    BY <1>a, FinishEffect DEF Escape
  <2>2. work[w].up => ready'[Copy(w)] > 0
    BY <1>a, RequeueFrame DEF Escape
  <2>3. "disconnect" \notin Faults => work[w].up
    BY <1>a DEF ChannelsOpen
  <2>4. work[w].attempt \in Attempts
    BY <1>a, WorkerTypes
  <2>5. QED
    BY <2>1, <2>2, <2>3, <2>4 DEF QueuedNext, Copy
<1>1. CASE StartFails(w) \/ ContendUnconfirmed(w) \/ TryOutage(w)
  BY <1>0, <1>1, GotoEffect DEF StartFails, ContendUnconfirmed, TryOutage
<1>2. CASE RetryUnconfirmed(w) \/ HandlerOutage(w) \/ Crash(w)
  <2>1. work[w].pc # "idle" /\ Escape(w)
    BY <1>2 DEF RetryUnconfirmed, HandlerOutage, Crash
  <2>2. QED
    BY <1>0, <1>a, <2>1
<1>3. CASE Disconnect(w)
  <2>1. /\ "disconnect" \in Faults /\ work[w].pc # "idle"
        /\ work'[w].pc = work[w].pc /\ work'[w].job = work[w].job /\ work'[w].held = work[w].held
    BY <1>3 DEF Disconnect, Fault, TypeOK, Work
  <2>2. QED
    BY <1>0, <2>1
<1>4. QED
  BY <1>1, <1>2, <1>3 DEF WorkerFault

\* What a step by one worker has to keep.
LEMMA ClosingSuffices ==
    ASSUME TypeOK, LeaseInv, LeaseInv', PublishedInv, SettledInv, NEW w \in Workers,
           WorkerFrame(w), Closing(w), ClaimKept(w)
    PROVE  SettledInv'
<1>1. Claimed'
  BY DEF SettledInv, Claimed, ClaimKept, WorkerFrame
<1>2. CompletedArePublished'
  <2>1. ASSUME NEW j \in SlackJobs, Completed(j)' PROVE j \in published'
    <3>1. exec[j].status = "completed" \/ SettledBy(w, j)
      BY <2>1 DEF Closing, Completed
    <3>2. SettledBy(w, j) => j \in published
      BY DEF SettledBy, Settling, PublishedInv
    <3>3. QED
      BY <3>1, <3>2 DEF SettledInv, CompletedArePublished, Completed, WorkerFrame
  <2>2. QED
    BY <2>1 DEF CompletedArePublished, Completed
<1>3. ASSUME "stall" \notin Faults, NEW c \in Contracts, Answerable(c)'
      PROVE  \E j \in JobsOf(c)' : Owes(j)'
  <2>1. JobsOf(c)' = JobsOf(c)
    BY DEF WorkerFrame, JobsOf
  <2>2. CASE Active(c)
    <3>1. Answerable(c)
      BY <1>3, <2>1, <2>2 DEF Answerable, WorkerFrame
    <3>2. PICK j \in JobsOf(c) : Owes(j)
      BY <1>3, <3>1 DEF SettledInv
    <3>3. /\ j \in Jobs /\ ContractOf[j] = c /\ j \notin dead'
          /\ status'[c] \in ActiveStatuses
          /\ j \in SlackJobs \/ "disconnect" \notin Faults
      BY <1>3, <2>1, <3>2 DEF Answerable, Active, JobsOf, TypeOK
    <3>4. CASE j \in SlackJobs
      <4>1. ~Completed(j)'
        BY <3>2, <3>4 DEF Owes, Closing, Completed
      <4>2. ASSUME NEW v \in Workers PROVE ~SettledBy(v, j)'
        <5>1. CASE v = w
          BY <3>2, <3>3, <3>4, <5>1 DEF Owes, Closing
        <5>2. CASE v # w
          BY <3>2, <3>4, <5>2 DEF Owes, WorkerFrame, SettledBy
        <5>3. QED
          BY <5>1, <5>2
      <4>3. QED
        BY <2>1, <3>2, <3>4, <4>1, <4>2 DEF Owes
    <3>5. CASE j \notin SlackJobs
      <4>1. CASE Queued(j)
        <5>1. Queued(j)'
          BY <3>3, <4>1 DEF Queued, WorkerFrame, Copies
        <5>2. QED
          BY <2>1, <3>2, <3>5, <5>1 DEF Owes
      <4>2. CASE \E v \in Workers : work[v].job = j /\ work[v].pc \in Pending
        <5>1. PICK v \in Workers : work[v].job = j /\ work[v].pc \in Pending
          BY <4>2
        <5>2. CASE v = w
          <6>1. Queued(j)' \/ (work'[w].job = j /\ work'[w].pc \in Pending)
            BY <3>3, <3>5, <5>1, <5>2 DEF Closing, ContractAt, Queued, QueuedNext
          <6>2. QED
            BY <2>1, <3>2, <3>5, <6>1 DEF Owes
        <5>3. CASE v # w
          <6>1. work'[v] = work[v]
            BY <5>3 DEF WorkerFrame
          <6>2. QED
            BY <2>1, <3>2, <3>5, <5>1, <6>1 DEF Owes
        <5>4. QED
          BY <5>2, <5>3
      <4>3. QED
        BY <3>2, <3>5, <4>1, <4>2 DEF Owes
    <3>6. QED
      BY <3>4, <3>5
  <2>3. CASE ~Active(c)
    <3>1. c = ContractAt(w) /\ Occupied(w)'
      BY <1>3, <2>3 DEF Answerable, Active, LeftQueued, Closing, WorkerFrame
    <3>2. work[w].pc # "idle" /\ work'[w].job = work[w].job
      BY <3>1 DEF Closing, Occupied
    <3>3. work[w].job \in JobsOf(c)
      BY <3>1, <3>2 DEF PublishedInv, JobsOf, ContractAt
    <3>4. Owes(work[w].job)'
      <4> DEFINE j == work[w].job
      <4>1. CASE j \notin SlackJobs
        BY <3>1, <3>2, <4>1 DEF Owes, Occupied, Pending
      <4>2. CASE j \in SlackJobs
        <5>1. work'[w].held /\ OwnsLease(w)'
          BY <1>1, <1>3, <3>1, <3>2, <4>2 DEF Claimed, Occupied, LeaseInv, HolderOwns, Unleased
        <5>2. exec'[j].status = "processing" /\ exec'[j].owner = w
          BY <3>2, <5>1 DEF OwnsLease
        <5>3. ASSUME NEW v \in Workers, work'[v].job = j, work'[v].held, work'[v].pc \in Settling
              PROVE  FALSE
          <6>1. OwnsLease(v)'
            BY <1>3, <5>3 DEF LeaseInv, HolderOwns, Unleased, Settling
          <6>2. v = w
            BY <5>2, <5>3, <6>1 DEF OwnsLease
          <6>3. QED
            BY <3>1, <5>3, <6>2 DEF Occupied, Settling
        <5>4. QED
          BY <3>2, <4>2, <5>2, <5>3 DEF Owes, SettledBy, Completed
      <4>3. QED
        BY <4>1, <4>2
    <3>5. QED
      BY <2>1, <3>2, <3>3, <3>4
  <2>4. QED
    BY <2>2, <2>3
<1>4. QED
  BY <1>1, <1>2, <1>3 DEF SettledInv

\* A published job is owed a status: no worker has anything to do with it yet.
LEMMA PublishOwes ==
    ASSUME TypeOK, PublishedInv, SettledInv, NEW k \in Jobs, Publish(k)
    PROVE  Owes(k)'
<1>1. CASE k \in SlackJobs
  <2>1. ~Completed(k)'
    BY <1>1 DEF Publish, SettledInv, CompletedArePublished, Completed
  <2>2. ASSUME NEW w \in Workers PROVE ~SettledBy(w, k)'
    BY DEF Publish, PublishedInv, SettledBy, Settling
  <2>3. QED
    BY <1>1, <2>1, <2>2 DEF Owes
<1>2. CASE k \notin SlackJobs
  <2>1. <<k, 1>> \in Copies /\ 1 \in Attempts
    BY BoundsAssumption DEF Copies, Attempts
  <2>2. ready'[<<k, 1>>] > 0
    BY <2>1 DEF Publish, TypeOK
  <2>3. QED
    BY <1>2, <2>1, <2>2 DEF Owes, Queued
<1>3. QED
  BY <1>1, <1>2

\* A step that completes and settles nothing, makes nothing active, and moves copies only on
\* to the next queue or to a worker.
Passing ==
    /\ published' = published /\ dead' = dead
    /\ \A c \in Contracts : Active(c)' => Active(c)
    /\ \A j \in SlackJobs : exec'[j].status = exec[j].status
    /\ \A w \in Workers : work'[w] = work[w] \/ (work[w].pc = "idle" /\ work'[w].pc = "start")
    /\ \A j \in Jobs : Queued(j) => QueuedNext(j) \/ \E w \in Workers : work'[w].job = j /\ work'[w].pc = "start"

LEMMA PassingSuffices ==
    ASSUME TypeOK, SettledInv, Passing
    PROVE  SettledInv'
<1>1. Claimed'
  BY DEF SettledInv, Claimed, Passing
<1>2. CompletedArePublished'
  BY DEF SettledInv, CompletedArePublished, Completed, Passing
<1>3. ASSUME "stall" \notin Faults, NEW c \in Contracts, Answerable(c)'
      PROVE  \E j \in JobsOf(c)' : Owes(j)'
  <2>1. JobsOf(c)' = JobsOf(c) /\ Answerable(c)
    BY <1>3 DEF Passing, JobsOf, Answerable
  <2>2. PICK j \in JobsOf(c) : Owes(j)
    BY <1>3, <2>1 DEF SettledInv
  <2>3. j \in Jobs
    BY <2>2 DEF JobsOf, TypeOK
  <2>4. CASE j \in SlackJobs
    BY <2>1, <2>2, <2>4 DEF Owes, Passing, Completed, SettledBy, Settling
  <2>5. CASE j \notin SlackJobs /\ Queued(j)
    BY <2>1, <2>2, <2>3, <2>5 DEF Owes, Passing, Queued, QueuedNext, Pending
  <2>6. CASE j \notin SlackJobs /\ \E w \in Workers : work[w].job = j /\ work[w].pc \in Pending
    <3>1. PICK w \in Workers : work[w].job = j /\ work[w].pc \in Pending
      BY <2>6
    <3>2. work'[w] = work[w]
      BY <3>1 DEF Passing, Pending
    <3>3. QED
      BY <2>1, <2>2, <2>6, <3>1, <3>2 DEF Owes
  <2>7. QED
    BY <2>2, <2>4, <2>5, <2>6 DEF Owes
<1>4. QED
  BY <1>1, <1>2, <1>3 DEF SettledInv

\* Broker and clock only pass on what is there, and what a pass without a
\* publish writes is left queued or failed.
LEMMA BrokerPasses ==
    ASSUME TypeOK,
           \/ \E j \in Jobs : IntakePass(j) \/ Broker(j)
           \/ \E w \in Workers : Heartbeat(w)
           \/ \E j \in SlackJobs : Lapse(j) \/ Stall(j)
    PROVE  Passing
<1> USE DEF Passing, Active, LeftQueued, contract, broker, intake
<1>a. \A j \in Jobs, a \in Attempts : <<j, a>> \in Copies
  BY DEF Copies
<1>b. \A c \in Copies : ready[c] \in Nat /\ delayed[c] \in Nat
  BY DEF TypeOK
<1>1. ASSUME NEW j \in Jobs, PublishAgain(j) PROVE Passing
  <2>1. /\ ready' = [ready EXCEPT ![<<j, 1>>] = @ + 1] /\ delayed' = delayed
        /\ published' = published /\ dead' = dead /\ status' = status /\ work' = work /\ exec' = exec
        /\ reset' = reset
    BY <1>1 DEF PublishAgain
  <2>2. \A c \in Copies : ready[c] > 0 => ready'[c] > 0
    BY <1>b, <2>1 DEF TypeOK
  <2>3. \A k \in Jobs : Queued(k) => QueuedNext(k)
    BY <1>a, <2>1, <2>2 DEF Queued, QueuedNext
  <2>4. QED
    BY <2>1, <2>3
<1>2. ASSUME NEW j \in Jobs, NEW a \in Attempts, RetryDue(j, a) PROVE Passing
  <2>1. /\ ready' = [ready EXCEPT ![<<j, a>>] = @ + 1]
        /\ delayed' = [delayed EXCEPT ![<<j, a>>] = @ - 1]
        /\ published' = published /\ dead' = dead /\ status' = status /\ work' = work /\ exec' = exec
        /\ reset' = reset
    BY <1>2 DEF RetryDue
  <2>2. /\ \A c \in Copies : ready[c] > 0 => ready'[c] > 0
        /\ \A c \in Copies : c # <<j, a>> => delayed'[c] = delayed[c]
        /\ ready'[<<j, a>>] > 0
    BY <1>a, <1>b, <2>1 DEF TypeOK
  <2>3. \A k \in Jobs : Queued(k) => QueuedNext(k)
    BY <1>a, <2>2 DEF Queued, QueuedNext
  <2>4. QED
    BY <2>1, <2>3
<1>3. ASSUME NEW j \in Jobs, NEW w \in Workers, NEW a \in Attempts, Deliver(w, j, a) PROVE Passing
  <2>1. /\ ready' = [ready EXCEPT ![<<j, a>>] = @ - 1] /\ delayed' = delayed
        /\ published' = published /\ dead' = dead /\ status' = status /\ exec' = exec
        /\ work[w].pc = "idle" /\ reset' = reset
    BY <1>3 DEF Deliver, At
  <2>2. /\ work'[w].pc = "start" /\ work'[w].job = j
        /\ \A v \in Workers : v # w => work'[v] = work[v]
    BY <1>3 DEF Deliver, TypeOK
  <2>3. \A c \in Copies : c # <<j, a>> => ready'[c] = ready[c]
    BY <2>1 DEF TypeOK
  <2>4. \A k \in Jobs : Queued(k) => QueuedNext(k) \/ k = j
    BY <1>a, <2>1, <2>3 DEF Queued, QueuedNext
  <2>5. QED
    BY <2>1, <2>2, <2>4
<1>4. ASSUME NEW w \in Workers, Heartbeat(w) PROVE Passing
  <2>1. \A j \in SlackJobs : exec'[j].status = exec[j].status
    BY <1>4, LapsedEffect DEF Heartbeat
  <2>2. QED
    BY <1>4, <2>1 DEF Heartbeat, Queued, QueuedNext
<1>5. ASSUME NEW j \in SlackJobs, Lapse(j) \/ Stall(j) PROVE Passing
  <2>1. \A k \in SlackJobs : exec'[k].status = exec[k].status
    BY <1>5, LapsedEffect DEF Lapse, Stall
  <2>2. QED
    BY <1>5, <2>1 DEF Lapse, Stall, Queued, QueuedNext
<1>6. ASSUME NEW j \in Jobs, IntakePass(j) PROVE Passing
  <2>1. /\ published' = published /\ dead' = dead /\ work' = work /\ exec' = exec
        /\ ready' = ready /\ delayed' = delayed
    BY <1>6, IntakePassFrame
  <2>2. ASSUME NEW c \in Contracts, Active(c)' PROVE Active(c)
    <3>1. CASE Reread(j)
      BY <2>2, <3>1 DEF Reread
    <3>2. CASE Reset(j)
      BY <2>2, <3>2, JobsAssumption DEF Reset, TypeOK
    <3>3. CASE QueueFails(j)
      BY <2>2, <3>3, JobsAssumption DEF QueueFails, TypeOK, ActiveStatuses
    <3>4. QED
      BY <1>6, <3>1, <3>2, <3>3 DEF IntakePass
  <2>3. QED
    BY <2>1, <2>2 DEF Queued, QueuedNext
<1>7. QED
  BY <1>1, <1>2, <1>3, <1>4, <1>5, <1>6 DEF Broker

\* Whoever stops owing a contract its status has written it, and whoever writes
\* an active one owes the next, but for a pass of the intake that finds its job
\* published and done, or dies before it publishes: every step keeps that.
THEOREM SettledInductive ==
    TypeOK /\ LeaseInv /\ ChannelsOpen /\ PublishedInv /\ SettledInv /\ [Next]_vars => SettledInv'
<1> SUFFICES ASSUME TypeOK, LeaseInv, ChannelsOpen, PublishedInv, SettledInv, [Next]_vars
             PROVE  SettledInv'
  OBVIOUS
<1>1. LeaseInv'
  BY LeaseInvInductive
<1>2. Claimed
  BY DEF SettledInv
<1>3. ASSUME NEW k \in Jobs, Publish(k) PROVE SettledInv'
  <2>1. Claimed' /\ CompletedArePublished'
    BY <1>3 DEF Publish, SettledInv, Claimed, CompletedArePublished, Completed
  <2>2. ASSUME "stall" \notin Faults, NEW c \in Contracts, Answerable(c)'
        PROVE  \E j \in JobsOf(c)' : Owes(j)'
    <3>1. CASE c = ContractOf[k]
      <4>1. k \in JobsOf(c)'
        BY <1>3, <3>1 DEF Publish, JobsOf
      <4>2. Owes(k)'
        BY <1>3, PublishOwes
      <4>3. QED
        BY <4>1, <4>2
    <3>2. CASE c # ContractOf[k]
      <4>1. /\ JobsOf(c)' = JobsOf(c) /\ status'[c] = status[c] /\ dead' = dead
            /\ c \in reset' <=> c \in reset
        BY <1>3, <3>2 DEF Publish, JobsOf, TypeOK
      <4>2. Answerable(c)
        BY <2>2, <4>1 DEF Answerable, Active, LeftQueued
      <4>3. PICK j \in JobsOf(c) : Owes(j)
        BY <2>2, <4>2 DEF SettledInv
      <4>4. j \in Jobs /\ work' = work /\ exec' = exec /\ delayed' = delayed
        BY <1>3, <4>3 DEF Publish, JobsOf, TypeOK
      <4>5. \A a \in Attempts : ready[<<j, a>>] > 0 => ready'[<<j, a>>] > 0
        BY <1>3, <4>4 DEF Publish, TypeOK, Copies
      <4>6. Owes(j)'
        BY <4>3, <4>4, <4>5 DEF Owes, Queued, Completed, SettledBy
      <4>7. QED
        BY <4>1, <4>3, <4>6
    <3>3. QED
      BY <3>1, <3>2
  <2>3. QED
    BY <2>1, <2>2 DEF SettledInv
<1>4. ASSUME NEW w \in Workers, WorkerTry(w) \/ WorkerHandler(w) \/ WorkerFault(w) PROVE SettledInv'
  <2>1. WorkerFrame(w)
    BY <1>4, TryFrame, HandlerFrame, FaultFrame
  <2>2. Closing(w) /\ ClaimKept(w)
    BY <1>2, <1>4, TryCloses, HandlerCloses, FaultCloses
  <2>3. QED
    BY <1>1, <2>1, <2>2, ClosingSuffices
<1>5. CASE \/ \E j \in Jobs : IntakePass(j) \/ Broker(j)
           \/ \E w \in Workers : Heartbeat(w)
           \/ \E j \in SlackJobs : Lapse(j) \/ Stall(j)
  BY <1>5, BrokerPasses, PassingSuffices
<1>6. CASE UNCHANGED vars
  <2>1. Passing
    BY <1>6 DEF vars, Passing, Active, LeftQueued, Queued, QueuedNext
  <2>2. QED
    BY <2>1, PassingSuffices
<1>7. QED
  BY <1>3, <1>4, <1>5, <1>6 DEF Next

\* At first nothing is published.
LEMMA InitSettledInv == Init => SettledInv
BY DEF Init, SettledInv, Claimed, CompletedArePublished, Completed, Answerable, JobsOf, Idle, Absent

\* Where nobody works any more, nobody owes a status.
LEMMA QuietOwesNothing ==
    ASSUME TypeOK, KeptInv, SettledInv
    PROVE  QuietContractIsSettled
<1> SUFFICES ASSUME "stall" \notin Faults, NEW c \in Contracts, Quiet(c), Answerable(c)
             PROVE  FALSE
  BY DEF QuietContractIsSettled, Answerable, Active, JobsOf
<1>1. PICK j \in JobsOf(c) : Owes(j)
  BY DEF SettledInv
<1>2. j \in Jobs /\ j \in published /\ ContractOf[j] = c /\ j \notin dead
  BY <1>1 DEF JobsOf, TypeOK, Answerable
<1>3. ~Queued(j)
  <2>1. ASSUME NEW a \in Attempts PROVE ~(ready[<<j, a>>] > 0) /\ ~(delayed[<<j, a>>] > 0)
    <3>1. ready[<<j, a>>] = 0 /\ delayed[<<j, a>>] = 0
      BY <1>2 DEF Quiet
    <3>2. QED
      BY <3>1
  <2>2. QED
    BY <2>1 DEF Queued
<1>4. \A w \in Workers : work[w].pc # "idle" => work[w].job # j
  BY <1>2 DEF Quiet, ContractAt
<1>5. CASE j \in SlackJobs
  <2>1. InFlight(j)
    BY <1>1, <1>2, <1>5 DEF KeptInv, NoSubmissionLost, Owes
  <2>2. QED
    BY <1>3, <1>4, <2>1 DEF InFlight, Queued, Carries, InTry, InHandler
<1>6. CASE j \notin SlackJobs
  BY <1>1, <1>3, <1>4, <1>6 DEF Owes, Pending
<1>7. QED
  BY <1>5, <1>6

\* A contract whose jobs are neither queued nor with a worker shows a final
\* status: the last of review_stored_contract, finalize_contract_review and
\* mark_analysis_failed to write it was not followed by an active one, other than
\* the QUEUED of an intake pass that published nothing (LeftQueued), whatever
\* crashes, duplicates, failing calls and closed channels lie in between.
THEOREM QuietIsSettled == Spec => []QuietContractIsSettled
<1>1. KeptInv => ChannelsOpen
  BY DEF KeptInv
<1>2. TypeOK /\ KeptInv /\ SettledInv => QuietContractIsSettled
  BY QuietOwesNothing
<1>3. QED
  BY <1>1, <1>2, TypeCorrect, InitLeaseInv, LeaseInvInductive, InitKeptInv, KeptInductive,
     InitPublishedInv, PublishedInductive, InitSettledInv, SettledInductive, PTL DEF Spec

-----------------------------------------------------------------------------
(* A review is not retracted *)

\* Every database call answers, channels stay open and publishes are confirmed.
Mild == {"outage", "disconnect", "unconfirmed"} \cap Faults = {}

Failing == {"except", "markFailed", "replyFailed"}

Reviewed(j) == <<j, "review">> \in replies

\* A worker whose next reply is a review.
Announcing(w) == work[w].pc = "reply" /\ work[w].ready

\* The owner of a submission that found no review when it loaded the contract,
\* and has none yet to announce.
Unreviewed(w) ==
    /\ work[w].job \in SlackJobs /\ OwnsLease(w)
    /\ \/ work[w].pc \in {"parse", "parsing", "analysing"} \cup Failing
       \/ work[w].pc \in {"settle", "reply"} /\ ~work[w].ready

\* What has been announced is stored, so an owner that found no review is the
\* first to reply.
RetractInv ==
    /\ \A j \in Jobs : Reviewed(j) => ContractOf[j] \in reviewed
    /\ \A w \in Workers : work[w].ready => ContractAt(w) \in reviewed
    /\ \A w \in Workers : Unreviewed(w) =>
          /\ ~Reviewed(work[w].job)
          /\ \A v \in Workers : Announcing(v) => work[v].job # work[w].job

\* A row belongs to its owner until another worker claims it.
NoNewOwner(w) ==
    \A j \in SlackJobs : exec'[j].status = "processing" =>
        \/ exec[j].status = "processing" /\ exec'[j].owner = exec[j].owner
        \/ exec'[j].owner = w /\ work[w].pc = "claim"

\* A step of w as far as RetractInv goes: it announces what is stored, becomes
\* unreviewed only by not finding a review, and announces only as the owner.
Telling(w) ==
    /\ reviewed \subseteq reviewed'
    /\ \A j \in Jobs : <<j, "review">> \in replies' => Reviewed(j) \/ (Announcing(w) /\ work[w].job = j)
    /\ work'[w].ready => /\ work'[w].job = work[w].job
                         /\ work[w].ready \/ ContractAt(w) \in reviewed'
    /\ Announcing(w)' => /\ work'[w].job = work[w].job /\ work[w].ready
                         /\ work[w].job \in SlackJobs => OwnsLease(w)
    /\ Unreviewed(w)' => /\ work'[w].job = work[w].job
                         /\ Unreviewed(w) \/ (work[w].pc = "load" /\ ContractAt(w) \notin reviewed)
    /\ NoNewOwner(w)

\* The fields of a worker, the rows and the announcements when it only goes on.
LEMMA GotoReady ==
    ASSUME TypeOK, NEW w \in Workers, NEW pc, Goto(w, pc)
    PROVE  work'[w].ready = work[w].ready
BY DEF TypeOK, Work, Goto

LEMMA FinishReady ==
    ASSUME TypeOK, NEW w \in Workers, Finish(w)
    PROVE  work'[w].pc = "idle" /\ ~work'[w].ready
BY DEF TypeOK, Finish, Idle

\* In the try block only Load, when there is no review, leads to a place from
\* which a failure is told.
LEMMA TryTells ==
    ASSUME Mild, TypeOK, LeaseInv, ChannelsOpen, NEW w \in Workers, WorkerTry(w)
    PROVE  Telling(w)
<1> USE DEF Telling, At, Announcing, Unreviewed, Failing, Reviewed, OwnsLease, NoNewOwner,
            contract, broker, intake
<1>0. work[w].pc # "idle" => work[w].up
  BY DEF ChannelsOpen, Mild
<1>1. CASE Start(w)
  BY <1>1, GotoEffect, GotoReady DEF Start
<1>2. CASE Claim(w)
  <2>1. /\ work[w].pc = "claim" /\ work[w].job \in SlackJobs
        /\ reviewed' = reviewed /\ replies' = replies
    BY <1>2 DEF Claim, LeaseInv
  <2>2. CASE Claimable(exec[work[w].job])
    <3>1. \A j \in SlackJobs : exec'[j] = IF j = work[w].job THEN LeasedTo(w) ELSE exec[j]
      <4>1. exec' = [exec EXCEPT ![work[w].job] = LeasedTo(w)]
        BY <1>2, <2>2 DEF Claim
      <4>2. QED
        BY <4>1, RowEffect
    <3>2. work'[w].pc = "load" /\ work'[w].job = work[w].job /\ work'[w].ready = work[w].ready
      BY <1>2, <2>2 DEF Claim, TypeOK, Work
    <3>3. QED
      BY <2>1, <3>1, <3>2 DEF LeasedTo
  <2>3. CASE ~Claimable(exec[work[w].job])
    <3>1. /\ work'[w].pc \in {"ackDuplicate", "contend"} /\ exec' = exec
          /\ work'[w].job = work[w].job /\ work'[w].ready = work[w].ready
      BY <1>2, <2>3, GotoEffect, GotoReady DEF Claim
    <3>2. QED
      BY <2>1, <3>1
  <2>4. QED
    BY <2>2, <2>3
<1>3. CASE AckDuplicate(w)
  BY <1>0, <1>3, FinishEffect, FinishReady DEF AckDuplicate
<1>4. CASE Contend(w)
  BY <1>0, <1>4, GotoEffect, GotoReady DEF Contend
<1>5. CASE Load(w)
  <2>1. work[w].pc = "load" /\ reviewed' = reviewed /\ replies' = replies /\ exec' = exec
    BY <1>5 DEF Load
  <2>2. CASE ContractAt(w) \in reviewed
    <3>1. work'[w].pc = "settle" /\ work'[w].job = work[w].job /\ work'[w].ready
      BY <1>5, <2>2 DEF Load, TypeOK, Work
    <3>2. QED
      BY <2>1, <2>2, <3>1
  <2>3. CASE ContractAt(w) \notin reviewed
    <3>1. work'[w].pc = "parse" /\ work'[w].job = work[w].job /\ work'[w].ready = work[w].ready
      BY <1>5, <2>3, GotoEffect, GotoReady DEF Load
    <3>2. QED
      BY <2>1, <2>3, <3>1
  <2>4. QED
    BY <2>2, <2>3
<1>6. CASE Parse(w) \/ NoText(w) \/ Analyse(w) \/ ReviewRaises(w)
  <2>1. /\ work[w].pc \in {"parse", "parsing", "analysing"}
        /\ work'[w].pc \in {"parsing", "analysing", "settle", "except"}
        /\ work'[w].job = work[w].job /\ work'[w].ready = work[w].ready
        /\ reviewed' = reviewed /\ replies' = replies /\ exec' = exec
    BY <1>6, GotoEffect, GotoReady DEF Parse, NoText, Analyse, ReviewRaises
  <2>2. QED
    BY <2>1
<1>7. CASE Finalize(w)
  <2>1. work'[w].pc = "settle" /\ work'[w].job = work[w].job /\ work'[w].ready
    BY <1>7 DEF Finalize, TypeOK, Work
  <2>2. /\ reviewed' = reviewed \cup {ContractAt(w)} /\ replies' = replies /\ exec' = exec
    BY <1>7 DEF Finalize
  <2>3. QED
    BY <2>1, <2>2
<1>8. CASE Settle(w)
  <2>1. /\ work[w].pc = "settle" /\ work'[w].job = work[w].job /\ work'[w].ready = work[w].ready
        /\ reviewed' = reviewed /\ replies' = replies
        /\ work[w].job \in SlackJobs /\ ~OwnsLease(w) => work'[w].pc = "except" /\ exec' = exec
        /\ ~(work[w].job \in SlackJobs /\ ~OwnsLease(w)) => work'[w].pc = "reply"
    BY <1>8, GotoEffect, GotoReady DEF Settle, IsSlack
  <2>2. \A j \in SlackJobs : exec'[j].status = exec[j].status /\ exec'[j].owner = exec[j].owner
    BY <1>8, LapsedEffect DEF Settle
  <2>3. QED
    BY <2>1, <2>2
<1>9. CASE Reply(w)
  <2>1. /\ work[w].pc = "reply" /\ work'[w].pc \in {"complete", "ack"}
        /\ work'[w].job = work[w].job /\ work'[w].ready = work[w].ready
        /\ reviewed' = reviewed /\ exec' = exec
    BY <1>9, GotoEffect, GotoReady DEF Reply
  <2>2. \A j \in Jobs : <<j, "review">> \in replies' => Reviewed(j) \/ (work[w].job = j /\ work[w].ready)
    BY <1>9 DEF Reply, QueueReply
  <2>3. QED
    BY <2>1, <2>2
<1>10. CASE Complete(w)
  <2>1. /\ work[w].pc = "complete" /\ work'[w].job = work[w].job /\ work'[w].ready = work[w].ready
        /\ reviewed' = reviewed /\ replies' = replies
        /\ work'[w].pc = "ack" \/ (work'[w].pc = "except" /\ ~OwnsLease(w) /\ exec' = exec)
    BY <1>10, GotoEffect, GotoReady DEF Complete
  <2>2. NoNewOwner(w)
    <3>1. CASE OwnsLease(w)
      <4>1. \A j \in SlackJobs : exec'[j] = IF j = work[w].job THEN Finished ELSE exec[j]
        BY <1>10, <3>1, RowEffect DEF Complete
      <4>2. QED
        BY <4>1 DEF Finished
    <3>2. CASE ~OwnsLease(w)
      BY <1>10, <3>2 DEF Complete
    <3>3. QED
      BY <3>1, <3>2
  <2>3. QED
    BY <2>1, <2>2
<1>11. CASE Ack(w)
  BY <1>11, FinishEffect, FinishReady DEF Ack
<1>12. QED
  BY <1>1, <1>2, <1>3, <1>4, <1>5, <1>6, <1>7, <1>8, <1>9, <1>10, <1>11 DEF WorkerTry

\* The except block announces no review and takes no lease.
LEMMA HandlerTells ==
    ASSUME TypeOK, NEW w \in Workers, WorkerHandler(w)
    PROVE  Telling(w)
<1> USE DEF Telling, At, Announcing, Unreviewed, Failing, Reviewed, OwnsLease, NoNewOwner,
            contract, broker, intake
<1>1. CASE Handle(w)
  <2>1. /\ work[w].pc = "except" /\ work'[w].pc \in {"ack", "markFailed", "release", "retry"}
        /\ work'[w].job = work[w].job /\ work'[w].ready = work[w].ready
        /\ reviewed' = reviewed /\ replies' = replies
    BY <1>1, GotoEffect, GotoReady DEF Handle
  <2>2. \A j \in SlackJobs : exec'[j].status = exec[j].status /\ exec'[j].owner = exec[j].owner
    BY <1>1, LapsedEffect DEF Handle
  <2>3. QED
    BY <2>1, <2>2
<1>2. CASE MarkFailed(w)
  BY <1>2, GotoEffect, GotoReady DEF MarkFailed
<1>3. CASE ReplyFailed(w)
  BY <1>3, GotoEffect, GotoReady DEF ReplyFailed, QueueReply
<1>4. CASE CompleteFailed(w) \/ Release(w)
  <2>1. /\ work'[w].pc = "retry" /\ work'[w].job = work[w].job /\ work'[w].ready = work[w].ready
        /\ reviewed' = reviewed /\ replies' = replies
    BY <1>4, GotoEffect, GotoReady DEF CompleteFailed, Release
  <2>2. NoNewOwner(w)
    <3>1. \/ exec' = exec
          \/ \E row \in {Finished, Released} : exec' = [exec EXCEPT ![work[w].job] = row]
      BY <1>4 DEF CompleteFailed, Release
    <3>2. \A row \in {Finished, Released} : row.owner = NoWorker /\ row.status # "processing"
      BY DEF Finished, Released
    <3>3. QED
      BY <3>1, <3>2, RowEffect
  <2>3. QED
    BY <2>1, <2>2
<1>5. CASE Retry(w) \/ RetryFails(w)
  BY <1>5, GotoEffect, GotoReady, FinishEffect, FinishReady DEF Retry, RetryFails
<1>6. QED
  BY <1>1, <1>2, <1>3, <1>4, <1>5 DEF WorkerHandler

\* A crash, the only fault of a worker that is left, forgets the delivery.
LEMMA FaultTells ==
    ASSUME Mild, TypeOK, NEW w \in Workers, WorkerFault(w)
    PROVE  Telling(w)
<1>1. Crash(w)
  BY DEF WorkerFault, StartFails, ContendUnconfirmed, TryOutage, RetryUnconfirmed, HandlerOutage,
         Disconnect, Fault, Mild
<1>2. /\ work'[w].pc = "idle" /\ ~work'[w].ready
      /\ reviewed' = reviewed /\ replies' = replies /\ exec' = exec
  BY <1>1, FinishReady DEF Crash, Escape, contract
<1>3. QED
  BY <1>2 DEF Telling, Announcing, Unreviewed, Failing, Reviewed, NoNewOwner

\* What a step by one worker has to keep.
LEMMA TellingSuffices ==
    ASSUME TypeOK, RetractInv, NEW w \in Workers, WorkerFrame(w), Telling(w)
    PROVE  RetractInv'
<1>1. ASSUME NEW j \in Jobs, Reviewed(j)' PROVE ContractOf[j] \in reviewed'
  <2>1. Reviewed(j) \/ (Announcing(w) /\ work[w].job = j)
    BY <1>1 DEF Telling, Reviewed
  <2>2. QED
    BY <2>1 DEF RetractInv, Announcing, ContractAt, Telling
<1>2. ASSUME NEW v \in Workers, work'[v].ready PROVE ContractAt(v)' \in reviewed'
  <2>1. CASE v = w
    BY <1>2, <2>1 DEF RetractInv, ContractAt, Telling
  <2>2. CASE v # w
    <3>1. work'[v] = work[v]
      BY <2>2 DEF WorkerFrame
    <3>2. QED
      BY <1>2, <3>1 DEF RetractInv, ContractAt, Telling
  <2>3. QED
    BY <2>1, <2>2
<1>3. ASSUME NEW u \in Workers, Unreviewed(u)'
      PROVE  /\ ~Reviewed(work[u].job)
             /\ \A v \in Workers : Announcing(v) => work[v].job # work[u].job
             /\ work'[u].job = work[u].job /\ work[u].job \in SlackJobs
             /\ u # w => OwnsLease(u)
  <2>1. CASE u = w
    <3>1. /\ work'[u].job = work[u].job
          /\ Unreviewed(u) \/ (work[u].pc = "load" /\ ContractAt(u) \notin reviewed)
      BY <1>3, <2>1 DEF Telling
    <3>2. work[u].job \in SlackJobs
      BY <1>3, <3>1 DEF Unreviewed
    <3>3. CASE Unreviewed(u)
      BY <2>1, <3>1, <3>2, <3>3 DEF RetractInv
    <3>4. CASE ContractAt(u) \notin reviewed
      BY <2>1, <3>1, <3>2, <3>4, JobsAssumption DEF RetractInv, ContractAt, Announcing
    <3>5. QED
      BY <3>1, <3>3, <3>4
  <2>2. CASE u # w
    <3>1. work'[u] = work[u]
      BY <2>2 DEF WorkerFrame
    <3>2. work[u].job \in SlackJobs /\ OwnsLease(u)
      BY <1>3, <2>2, <3>1 DEF Unreviewed, OwnsLease, Telling, NoNewOwner
    <3>3. Unreviewed(u)
      BY <1>3, <3>1, <3>2 DEF Unreviewed
    <3>4. QED
      BY <3>1, <3>2, <3>3 DEF RetractInv
  <2>3. QED
    BY <2>1, <2>2
<1>4. ASSUME NEW u \in Workers, Unreviewed(u)'
      PROVE  /\ ~Reviewed(work[u].job)'
             /\ \A v \in Workers : Announcing(v)' => work'[v].job # work'[u].job
  <2>1. work[u].job \in Jobs /\ work'[u].job = work[u].job
    BY <1>3, <1>4, JobsAssumption
  <2>2. <<work[u].job, "review">> \notin replies'
    BY <1>3, <1>4, <2>1 DEF Telling, Reviewed
  <2>3. ASSUME NEW v \in Workers, Announcing(v)' PROVE work'[v].job # work'[u].job
    <3>1. CASE v # w
      <4>1. work'[v] = work[v]
        BY <3>1 DEF WorkerFrame
      <4>2. Announcing(v)
        BY <2>3, <4>1 DEF Announcing
      <4>3. QED
        BY <1>3, <1>4, <2>1, <4>1, <4>2
    <3>2. CASE v = w /\ u # w
      <4>1. work'[w].job = work[w].job /\ (work[w].job \in SlackJobs => OwnsLease(w))
        BY <2>3, <3>2 DEF Telling
      <4>2. work[u].job \in SlackJobs /\ OwnsLease(u)
        BY <1>3, <1>4, <3>2
      <4>3. QED
        BY <2>1, <3>2, <4>1, <4>2 DEF OwnsLease
    <3>3. CASE v = w /\ u = w
      BY <1>4, <2>3, <3>3 DEF Unreviewed, Announcing, Failing
    <3>4. QED
      BY <3>1, <3>2, <3>3
  <2>4. QED
    BY <2>1, <2>2, <2>3 DEF Reviewed
<1>5. QED
  BY <1>1, <1>2, <1>4 DEF RetractInv

\* Producers, broker and clock tell nobody anything.
LEMMA OthersTellNothing ==
    ASSUME TypeOK, RetractInv,
           \/ \E j \in Jobs : Publish(j) \/ IntakePass(j) \/ Broker(j)
           \/ \E w \in Workers : Heartbeat(w)
           \/ \E j \in SlackJobs : Lapse(j) \/ Stall(j)
    PROVE  RetractInv' /\ replies' = replies
<1> USE DEF contract, broker, intake
<1>1. ASSUME reviewed' = reviewed, replies' = replies,
             \A w \in Workers : work'[w] = work[w] \/ (work'[w].pc = "start" /\ ~work'[w].ready),
             \A j \in SlackJobs : exec'[j].status = exec[j].status /\ exec'[j].owner = exec[j].owner
      PROVE  RetractInv'
  <2>1. \A w \in Workers : work'[w].ready => work'[w] = work[w]
    BY <1>1
  <2>2. ASSUME NEW w \in Workers, Unreviewed(w)' PROVE work'[w] = work[w] /\ Unreviewed(w)
    BY <1>1, <2>2 DEF Unreviewed, OwnsLease, Failing
  <2>3. \A w \in Workers : Announcing(w)' => work'[w] = work[w] /\ Announcing(w)
    BY <1>1 DEF Announcing
  <2>4. \A w \in Workers : work'[w].ready => ContractAt(w)' \in reviewed'
    BY <1>1, <2>1 DEF RetractInv, ContractAt
  <2>5. ASSUME NEW w \in Workers, Unreviewed(w)'
        PROVE  /\ ~Reviewed(work[w].job)'
               /\ \A v \in Workers : Announcing(v)' => work'[v].job # work'[w].job
    BY <1>1, <2>2, <2>3, <2>5 DEF RetractInv, Reviewed
  <2>6. QED
    BY <1>1, <2>4, <2>5 DEF RetractInv, Reviewed
<1>2. CASE \E j \in Jobs :
              Publish(j) \/ IntakePass(j) \/ PublishAgain(j) \/ \E a \in Attempts : RetryDue(j, a)
  BY <1>1, <1>2, IntakePassFrame DEF Publish, PublishAgain, RetryDue
<1>3. CASE \E j \in Jobs, w \in Workers, a \in Attempts : Deliver(w, j, a)
  <2>1. reviewed' = reviewed /\ replies' = replies /\ exec' = exec
    BY <1>3 DEF Deliver
  <2>2. \A v \in Workers : work'[v] = work[v] \/ (work'[v].pc = "start" /\ ~work'[v].ready)
    BY <1>3 DEF Deliver, TypeOK
  <2>3. QED
    BY <1>1, <2>1, <2>2
<1>4. CASE \/ \E w \in Workers : Heartbeat(w)
           \/ \E j \in SlackJobs : Lapse(j) \/ Stall(j)
  <2>1. reviewed' = reviewed /\ replies' = replies /\ work' = work
    BY <1>4 DEF Heartbeat, Lapse, Stall
  <2>2. \A j \in SlackJobs : exec'[j].status = exec[j].status /\ exec'[j].owner = exec[j].owner
    BY <1>4, LapsedEffect DEF Heartbeat, Lapse, Stall
  <2>3. QED
    BY <1>1, <2>1, <2>2
<1>5. QED
  BY <1>2, <1>3, <1>4 DEF Broker

\* A failure is told from two places: where the lease is still this worker's,
\* nobody has announced a review.
LEMMA FailureIsFirst ==
    ASSUME TypeOK, RetractInv, NEW w \in Workers,
           WorkerTry(w) \/ WorkerHandler(w) \/ WorkerFault(w),
           NEW j \in SlackJobs, Reviewed(j), <<j, "failure">> \in replies' \ replies
    PROVE  work[w].pc \in {"reply", "replyFailed"} /\ work[w].job = j /\ ~OwnsLease(w)
<1>1. Reply(w) \/ ReplyFailed(w)
  BY DEF WorkerTry, WorkerHandler, WorkerFault, Start, Claim, AckDuplicate, Contend, Load, Parse,
         NoText, Analyse, Finalize, ReviewRaises, Settle, Complete, Ack, Handle, MarkFailed,
         CompleteFailed, Release, Retry, RetryFails, StartFails, ContendUnconfirmed, TryOutage,
         RetryUnconfirmed, HandlerOutage, Crash, Disconnect
<1>2. work[w].pc \in {"reply", "replyFailed"} /\ work[w].job = j
  BY <1>1 DEF Reply, ReplyFailed, QueueReply, At
<1>3. work[w].pc = "reply" => ~work[w].ready
  BY <1>1, <1>2 DEF Reply, ReplyFailed, QueueReply, At, IsSlack
<1>4. ~Unreviewed(w)
  BY <1>2 DEF RetractInv
<1>5. QED
  BY <1>2, <1>3, <1>4 DEF Unreviewed, Failing

RetractedHere ==
    \A j \in SlackJobs :
        Reviewed(j) /\ <<j, "failure">> \in replies' \ replies
            => \E w \in Workers : /\ work[w].pc \in {"reply", "replyFailed"}
                                   /\ work[w].job = j /\ ~OwnsLease(w)

\* Who owns a submission and has no review to announce is the first to reply:
\* every step keeps that, and tells a failure after a review from nowhere else
\* than from a worker that lost its lease.
THEOREM RetractInductive ==
    ASSUME Mild, TypeOK, LeaseInv, ChannelsOpen, RetractInv, [Next]_vars
    PROVE  RetractInv' /\ (RetractedHere \/ UNCHANGED vars)
<1>1. ASSUME NEW w \in Workers, WorkerTry(w) \/ WorkerHandler(w) \/ WorkerFault(w)
      PROVE  RetractInv' /\ RetractedHere
  <2>1. WorkerFrame(w)
    BY <1>1, TryFrame, HandlerFrame, FaultFrame
  <2>2. Telling(w)
    BY <1>1, TryTells, HandlerTells, FaultTells
  <2>3. RetractedHere
    BY <1>1, FailureIsFirst DEF RetractedHere
  <2>4. QED
    BY <2>1, <2>2, <2>3, TellingSuffices
<1>2. CASE \/ \E j \in Jobs : Publish(j) \/ IntakePass(j) \/ Broker(j)
           \/ \E w \in Workers : Heartbeat(w)
           \/ \E j \in SlackJobs : Lapse(j) \/ Stall(j)
  BY <1>2, OthersTellNothing DEF RetractedHere
<1>3. CASE UNCHANGED vars
  BY <1>3 DEF vars, RetractInv, Reviewed, ContractAt, Unreviewed, OwnsLease, Announcing
<1>4. QED
  BY <1>1, <1>2, <1>3 DEF Next

\* At first nothing is reviewed or announced.
LEMMA InitRetractInv == Init => RetractInv
BY DEF Init, RetractInv, Reviewed, Unreviewed, Announcing, Failing, Idle

\* While database calls answer, channels stay open and publishes are confirmed,
\* no failure follows the review of a submission, whatever crashes, duplicates
\* and lapsed leases lie in between, unless a worker that lost its lease after
\* the renewal in _process_delivery tells it.
THEOREM ReviewIsNotRetracted ==
    ASSUME Mild
    PROVE  Spec => ReviewNotRetracted
<1> DEFINE IInv == TypeOK /\ LeaseInv /\ KeptInv /\ RetractInv
<1>1. Init => IInv
  BY InitTypeOK, InitLeaseInv, InitKeptInv, InitRetractInv
<1>2. IInv /\ [Next]_vars => IInv'
  BY TypeInductive, LeaseInvInductive, KeptInductive, RetractInductive DEF KeptInv
<1>3. IInv /\ [Next]_vars => [\A j \in SlackJobs :
          /\ <<j, "review">> \in replies
          /\ <<j, "failure">> \in replies' \ replies
          => \E w \in Workers : /\ work[w].pc \in {"reply", "replyFailed"}
                                 /\ work[w].job = j /\ ~OwnsLease(w)]_vars
  BY RetractInductive DEF KeptInv, RetractedHere, Reviewed
<1>4. QED
  BY <1>1, <1>2, <1>3, PTL DEF Spec, ReviewNotRetracted

=============================================================================
