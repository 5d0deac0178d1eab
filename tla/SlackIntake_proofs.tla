-------------------------- MODULE SlackIntake_proofs --------------------------
(***************************************************************************)
(* Theorems about SlackIntake, for every set of events, attachments and    *)
(* workers, every number of attempts and every selection of faults.        *)
(***************************************************************************)
EXTENDS SlackIntake, TLAPS

-----------------------------------------------------------------------------
(* The inductive invariant *)

\* The worker has an attachment in hand, also while it drains the outbox for it.
OnFile(w) ==
    \/ work[w].pc \in FilePlaces
    \/ work[w].pc \in {"publish", "mark", "unmark"} /\ work[w].event \in Events

\* TypeOK but for what it says of places, which Fits contains.
Types ==
    /\ event \in [Events -> Event]
    /\ file \in [Files -> File]
    /\ runs \in [Files -> Nat]
    /\ job \in [Files -> Job]
    /\ queue \in [Files -> Nat]
    /\ exec \in [Files -> ExecStatuses]
    /\ status \in [Files -> Statuses]
    /\ replies \subseteq ((Files \X ReplyKinds) \cup (Events \X {"rejection"}))
    /\ work \in [Workers -> Work]
    /\ budget \in 0..MaxFaults

\* How far a worker has got says what it has in hand.
Fits(w) ==
    /\ work[w].pc \in {"idle", "claim"} => work[w].event = NoEvent
    /\ work[w].pc \notin {"idle", "claim", "publish", "mark", "unmark"} => work[w].event \in Events
    /\ OnFile(w) => work[w].i \in DOMAIN FilesOf[work[w].event]
    /\ At(w, "nextFile") => work[w].i > 0
    /\ work[w].pc \in {"mark", "unmark"} => work[w].item \in work[w].items
    /\ \A f \in work[w].items : job[f].status # "absent"

Accounted(f) == job[f].status # "absent" \/ <<f, "rejection">> \in replies

\* What has been queued when a worker stands at a place: the receipt, the job,
\* or whatever lets the attachment be completed.
Told(w) ==
    /\ work[w].pc \in {"lookExec", "lookRun", "enqueue", "newRun", "persist"} =>
          <<FileAt(w), "receipt">> \in replies
    /\ OnFile(w) /\ work[w].pc \in {"drain", "publish", "mark", "unmark"} =>
          job[FileAt(w)].status # "absent"
    /\ At(w, "lookRun") /\ work[w].seen # "absent" => job[FileAt(w)].status # "absent"
    /\ At(w, "completeFile") => Accounted(FileAt(w))

\* The attachments before the one in hand are completed, unless one was busy.
Passed(w) ==
    /\ (OnFile(w) \/ At(w, "nextFile")) /\ ~work[w].busy =>
          \A j \in DOMAIN FilesOf[work[w].event] :
              j < work[w].i => file[FilesOf[work[w].event][j]].status = "completed"
    /\ At(w, "done") =>
          \A j \in DOMAIN FilesOf[work[w].event] :
              file[FilesOf[work[w].event][j]].status = "completed"

WorkersFit == \A w \in Workers : Fits(w) /\ Told(w) /\ Passed(w)

\* What the broker has and who reviews came out of the outbox.
Persisted == \A f \in Files : queue[f] > 0 \/ exec[f] # "absent" => job[f].status # "absent"

FlowInv ==
    /\ WorkersFit /\ Persisted
    /\ CompletedFileIsAccountedFor /\ ProcessedEventIsComplete /\ ReceiptComesFirst

\* Every attempt of an event past the last was paid for by a fault.
Spent == MaxFaults - budget

Paid(e) ==
    /\ event[e].attempts <= MaxEventAttempts + Spent
    /\ \/ event[e].status = "processing" /\ ~event[e].lapsed /\ EventHeld(e)
       \/ event[e].status \in {"processed", "ignored", "failed"}
       \/ event[e].attempts < MaxEventAttempts + Spent

PaidFor == \A e \in Events : Paid(e)

Counts == \A w \in Workers : work[w].event \in Events /\ OwnsEvent(w) =>
             work[w].attempts = event[work[w].event].attempts

AttemptsInv == PaidFor /\ Counts

\* Without slow workers, an attachment in hand is leased to the worker.
Alone(w) == ~work[w].slow /\ (OnFile(w) => OwnsFile(w) /\ ~file[FileAt(w)].lapsed)

\* Then a submission has at most one metrics run, and every envelope names it.
SameEnvelope(w) ==
    /\ At(w, "enqueue") => work[w].run = runs[FileAt(w)]
    /\ At(w, "newRun") => runs[FileAt(w)] = 0
    /\ At(w, "persist") => work[w].run = 1
    /\ ~At(w, "conflict")

OneRun == \A f \in Files : runs[f] <= 1 /\ (job[f].status # "absent" => job[f].run = 1)

Sole == OneRun /\ \A w \in Workers : Alone(w) /\ SameEnvelope(w)

Prudent == "slow" \notin Faults /\ "metrics" \notin Faults

EnvelopeInv == Prudent => Sole

-----------------------------------------------------------------------------
(* What moves *)

LEMMA TypesFit == Types /\ WorkersFit => TypeOK
BY DEF Types, WorkersFit, Fits, OnFile, TypeOK

LEMMA IdleFields ==
    /\ Idle \in Work /\ Idle.pc = "idle" /\ Idle.event = NoEvent /\ Idle.items = {}
    /\ Idle.slow = FALSE /\ Idle.busy = FALSE /\ Idle.seen = "absent"
<1>1. 0 \in EventAttempts
  BY IntakeAssumption DEF EventAttempts
<1>2. QED
  BY <1>1 DEF Idle, Work, Places, ExecStatuses

\* Only w moves.
Moved(w, new) == work' = [work EXCEPT ![w] = new]

LEMMA MovedEffect ==
    ASSUME Types, NEW w \in Workers, NEW new \in Work, Moved(w, new)
    PROVE  /\ work' \in [Workers -> Work] /\ work'[w] = new
           /\ \A o \in Workers \ {w} : work'[o] = work[o]
BY DEF Types, Moved

\* Only w moves, on the same event and as fast as before.
Keeps(w) ==
    /\ work' \in [Workers -> Work]
    /\ work'[w].event = work[w].event /\ work'[w].attempts = work[w].attempts
    /\ work'[w].slow = work[w].slow
    /\ \A o \in Workers \ {w} : work'[o] = work[o]

LEMMA GotoEffect ==
    ASSUME Types, NEW w \in Workers, NEW pc \in Places, Goto(w, pc)
    PROVE  /\ work' \in [Workers -> Work] /\ work'[w].pc = pc
           /\ work'[w].event = work[w].event /\ work'[w].attempts = work[w].attempts
           /\ work'[w].i = work[w].i /\ work'[w].busy = work[w].busy
           /\ work'[w].seen = work[w].seen /\ work'[w].run = work[w].run
           /\ work'[w].items = work[w].items /\ work'[w].item = work[w].item
           /\ work'[w].slow = work[w].slow
           /\ \A o \in Workers \ {w} : work'[o] = work[o]
<1> DEFINE new == [work[w] EXCEPT !.pc = pc]
<1>1. work[w] \in Work
  BY DEF Types
<1>2. /\ new \in Work /\ new.pc = pc
      /\ new.event = work[w].event /\ new.attempts = work[w].attempts
      /\ new.i = work[w].i /\ new.busy = work[w].busy
      /\ new.seen = work[w].seen /\ new.run = work[w].run
      /\ new.items = work[w].items /\ new.item = work[w].item
      /\ new.slow = work[w].slow
  BY <1>1 DEF Work
<1>3. Moved(w, new)
  BY DEF Goto, Moved
<1> HIDE DEF new
<1>4. /\ work' \in [Workers -> Work] /\ work'[w] = new
      /\ \A o \in Workers \ {w} : work'[o] = work[o]
  BY <1>2, <1>3, MovedEffect
<1>5. QED
  BY <1>2, <1>4

LEMMA FinishEffect ==
    ASSUME Types, NEW w \in Workers, Finish(w)
    PROVE  /\ work' \in [Workers -> Work] /\ work'[w] = Idle
           /\ \A o \in Workers \ {w} : work'[o] = work[o]
BY IdleFields, MovedEffect DEF Finish, Moved

\* The attachment in hand is one.
LEMMA FileInHand ==
    ASSUME Types, NEW w \in Workers, work[w].event \in Events,
           work[w].i \in DOMAIN FilesOf[work[w].event]
    PROVE  FileAt(w) \in Files
BY IntakeAssumption DEF FileAt

\* What is queued, completed or persisted stays so.
Grows ==
    /\ \A f \in Files : job[f].status # "absent" => job'[f].status # "absent"
    /\ \A f \in Files : file[f].status = "completed" => file'[f].status = "completed"
    /\ replies \subseteq replies'

\* What a worker that does not move has in hand.
SameHand(w) ==
    /\ work'[w].pc = work[w].pc /\ work'[w].event = work[w].event
    /\ work'[w].i = work[w].i /\ work'[w].busy = work[w].busy
    /\ work'[w].seen = work[w].seen /\ work'[w].run = work[w].run
    /\ work'[w].items = work[w].items /\ work'[w].item = work[w].item

\* A worker that does not move stays where it may be.
LEMMA Stays ==
    ASSUME Types, Grows, NEW w \in Workers, Fits(w), Told(w), Passed(w), SameHand(w)
    PROVE  Fits(w)' /\ Told(w)' /\ Passed(w)'
<1>0. /\ OnFile(w)' <=> OnFile(w)
      /\ FileAt(w)' = FileAt(w)
      /\ work[w] \in Work
  BY DEF OnFile, FileAt, Types, SameHand
<1>1. Fits(w)'
  <2>1. \A f \in work[w].items : f \in Files
    BY <1>0 DEF Work
  <2>2. QED
    BY <1>0, <2>1 DEF Fits, Grows, At, SameHand
<1>2. ASSUME OnFile(w)
      PROVE  FileAt(w) \in Files /\ work[w].event \in Events
  <2>1. work[w].event \in Events /\ work[w].i \in DOMAIN FilesOf[work[w].event]
    BY <1>2 DEF Fits, OnFile, FilePlaces
  <2>2. QED
    BY <2>1, FileInHand
<1>3. Told(w)'
  BY <1>0, <1>2 DEF Told, Grows, Accounted, At, OnFile, FilePlaces, SameHand
<1>4. Passed(w)'
  <2>1. work[w].event \in Events =>
           \A j \in DOMAIN FilesOf[work[w].event] : FilesOf[work[w].event][j] \in Files
    BY IntakeAssumption
  <2>2. OnFile(w) \/ At(w, "nextFile") \/ At(w, "done") => work[w].event \in Events
    BY <1>2 DEF Fits, At
  <2>3. QED
    BY <1>0, <2>1, <2>2 DEF Passed, Grows, At, SameHand
<1>5. QED
  BY <1>1, <1>3, <1>4

\* A worker takes no attachment in hand but the one the file loop has come to.
Hand(w) == OnFile(w)' => work'[w].i = work[w].i /\ (OnFile(w) \/ At(w, "nextFile"))

\* Where a worker that has an attachment in hand may go with it.
LEMMA FileMove ==
    ASSUME Types, Grows, NEW w \in Workers, Fits(w), Passed(w),
           OnFile(w) \/ At(w, "nextFile"), work[w].event \in Events,
           work[w].i \in DOMAIN FilesOf[work[w].event],
           NEW pc \in FilePlaces \ {"lookRun"}, work'[w].pc = pc,
           work'[w].event = work[w].event, work'[w].i = work[w].i,
           work'[w].busy = work[w].busy, work'[w].items = work[w].items,
           pc \in {"lookExec", "enqueue", "newRun", "persist"} => <<FileAt(w), "receipt">> \in replies',
           pc = "drain" => job'[FileAt(w)].status # "absent",
           pc = "completeFile" =>
              job'[FileAt(w)].status # "absent" \/ <<FileAt(w), "rejection">> \in replies'
    PROVE  Fits(w)' /\ Told(w)' /\ Passed(w)' /\ Hand(w)
<1>1. FileAt(w)' = FileAt(w)
  BY DEF FileAt
<1>2. Fits(w)'
  <2>1. \A f \in work[w].items : f \in Files
    BY DEF Types, Work
  <2>2. \A f \in work'[w].items : job'[f].status # "absent"
    BY <2>1 DEF Fits, Grows
  <2>3. pc \notin {"idle", "claim", "publish", "mark", "unmark", "nextFile"}
    BY DEF FilePlaces
  <2>4. QED
    BY <2>2, <2>3 DEF Fits, OnFile, At
<1>3. Told(w)'
  <2>1. pc \notin {"publish", "mark", "unmark"} /\ pc # "lookRun"
    BY DEF FilePlaces
  <2>2. QED
    BY <1>1, <2>1 DEF Told, OnFile, At, Accounted
<1>4. Passed(w)'
  <2>1. \A j \in DOMAIN FilesOf[work[w].event] : FilesOf[work[w].event][j] \in Files
    BY IntakeAssumption
  <2>2. pc \notin {"nextFile", "done"}
    BY DEF FilePlaces
  <2>3. QED
    BY <2>1, <2>2 DEF Passed, Grows, At
<1>5. Hand(w)
  BY DEF Hand
<1>6. QED
  BY <1>2, <1>3, <1>4, <1>5

LEMMA FileGoto ==
    ASSUME Types, Grows, NEW w \in Workers, Fits(w), Passed(w),
           OnFile(w) \/ At(w, "nextFile"), work[w].event \in Events,
           work[w].i \in DOMAIN FilesOf[work[w].event],
           NEW pc \in FilePlaces \ {"lookRun"}, Goto(w, pc),
           pc \in {"lookExec", "enqueue", "newRun", "persist"} => <<FileAt(w), "receipt">> \in replies',
           pc = "drain" => job'[FileAt(w)].status # "absent",
           pc = "completeFile" =>
              job'[FileAt(w)].status # "absent" \/ <<FileAt(w), "rejection">> \in replies'
    PROVE  Fits(w)' /\ Told(w)' /\ Passed(w)' /\ Keeps(w) /\ Hand(w)
<1>1. pc \in Places
  BY DEF Places
<1>2. Keeps(w)
  BY <1>1, GotoEffect DEF Keeps
<1>3. /\ work'[w].pc = pc /\ work'[w].event = work[w].event /\ work'[w].i = work[w].i
      /\ work'[w].busy = work[w].busy /\ work'[w].items = work[w].items
  BY <1>1, GotoEffect
<1>4. QED
  BY <1>2, <1>3, FileMove

\* A worker that has no attachment in hand, and goes where none is needed.
LEMMA PlainGoto ==
    ASSUME Types, Grows, NEW w \in Workers, Fits(w),
           \/ work[w].event \in Events /\ work'[w].pc \in {"ignore", "retry", "contend"}
           \/ work[w].event = NoEvent /\ work'[w].pc \in {"claim", "publish"},
           work'[w].event = work[w].event, work'[w].items \subseteq work[w].items
    PROVE  Fits(w)' /\ Told(w)' /\ Passed(w)' /\ Hand(w)
<1>1. \A f \in work[w].items : f \in Files
  BY DEF Types, Work
<1>2. ~OnFile(w)'
  BY IntakeAssumption DEF OnFile, FilePlaces
<1>3. Fits(w)'
  BY <1>1, <1>2 DEF Fits, Grows, At
<1>4. Told(w)' /\ Passed(w)'
  BY <1>2 DEF Told, Passed, At, OnFile, FilePlaces
<1>5. Hand(w)
  BY <1>2 DEF Hand
<1>6. QED
  BY <1>3, <1>4, <1>5

LEMMA FinishFits ==
    ASSUME Types, NEW w \in Workers, Finish(w)
    PROVE  Fits(w)' /\ Told(w)' /\ Passed(w)'
<1>1. work'[w].pc = "idle" /\ work'[w].event = NoEvent /\ work'[w].items = {}
  BY FinishEffect, IdleFields
<1>2. ~OnFile(w)'
  BY <1>1 DEF OnFile, FilePlaces
<1>3. QED
  BY <1>1, <1>2 DEF Fits, Told, Passed, At

-----------------------------------------------------------------------------
(* The outbox of review jobs *)

\* No job appears, vanishes or changes its envelope.
SameJobs ==
    /\ job' \in [Files -> Job]
    /\ \A f \in Files : (job'[f].status = "absent" <=> job[f].status = "absent")
                        /\ job'[f].run = job[f].run

LEMMA UnchangedJobs == ASSUME Types, job' = job PROVE SameJobs
BY DEF Types, SameJobs

\* One row is written that was there.
LEMMA OneJob ==
    ASSUME Types, NEW f \in Files, job[f].status # "absent", NEW row \in Job,
           row.status # "absent", row.run = job[f].run, job' = [job EXCEPT ![f] = row]
    PROVE  SameJobs
<1>1. job \in [Files -> Job]
  BY DEF Types
<1>2. job' \in [Files -> Job] /\ job'[f] = row /\ \A g \in Files \ {f} : job'[g] = job[g]
  BY <1>1
<1>3. QED
  BY <1>2 DEF SameJobs

LEMMA DrainJobs ==
    ASSUME Types, NEW w \in Workers, Drain(w)
    PROVE  SameJobs
<1> DEFINE taken(f) == [job[f] EXCEPT !.status = "publishing", !.owner = w, !.lapsed = FALSE]
           new(f) == IF JobDue(f) THEN taken(f) ELSE job[f]
<1>1. \A f \in Files : job[f] \in Job
  BY DEF Types
<1>2. \A f \in Files : /\ taken(f) \in Job /\ taken(f).status = "publishing"
                       /\ taken(f).run = job[f].run
  BY <1>1 DEF Job
<1> HIDE DEF taken
<1>3. \A f \in Files : /\ new(f) \in Job /\ new(f).run = job[f].run
                       /\ (new(f).status = "absent" <=> job[f].status = "absent")
  BY <1>1, <1>2 DEF JobDue
<1>4. job' = [f \in Files |-> new(f)]
  BY DEF Drain, taken
<1> HIDE DEF new
<1>5. QED
  BY <1>3, <1>4 DEF SameJobs

LEMMA MarkJobs ==
    ASSUME Types, NEW w \in Workers, Fits(w), Mark(w) \/ Unmark(w)
    PROVE  SameJobs
<1> DEFINE f == work[w].item
           sent == [job[f] EXCEPT !.status = "published", !.owner = NoWorker]
           kept == [job[f] EXCEPT !.status = "pending", !.owner = NoWorker, !.due = FALSE]
<1>1. f \in Files
  BY DEF Mark, Unmark, Fits, At, Types, Work
<1>2. job[f] \in Job
  BY <1>1 DEF Types
<1>3. /\ sent \in Job /\ sent.status = "published" /\ sent.run = job[f].run
      /\ kept \in Job /\ kept.status = "pending" /\ kept.run = job[f].run
  BY <1>2 DEF Job
<1>4. CASE ~OwnsJob(w)
  BY <1>4, UnchangedJobs DEF Mark, Unmark
<1>5. CASE OwnsJob(w) /\ Mark(w)
  <2>1. job' = [job EXCEPT ![f] = sent]
    BY <1>1, <1>5 DEF Mark, Types
  <2>2. job[f].status = "publishing"
    BY <1>5 DEF OwnsJob
  <2> HIDE DEF f, sent
  <2>3. QED
    BY <1>1, <1>3, <2>1, <2>2, OneJob
<1>6. CASE OwnsJob(w) /\ Unmark(w)
  <2>1. job' = [job EXCEPT ![f] = kept]
    BY <1>1, <1>6 DEF Unmark, Types
  <2>2. job[f].status = "publishing"
    BY <1>6 DEF OwnsJob
  <2> HIDE DEF f, kept
  <2>3. QED
    BY <1>1, <1>3, <2>1, <2>2, OneJob
<1>7. QED
  BY <1>4, <1>5, <1>6

LEMMA TimeJobs ==
    ASSUME Types, NEW f \in Files, LapseJob(f) \/ JobComesDue(f)
    PROVE  SameJobs
<1> DEFINE late == [job[f] EXCEPT !.lapsed = TRUE]
           now == [job[f] EXCEPT !.due = TRUE]
<1>1. job[f] \in Job
  BY DEF Types
<1>2. /\ late \in Job /\ late.status = job[f].status /\ late.run = job[f].run
      /\ now \in Job /\ now.status = job[f].status /\ now.run = job[f].run
  BY <1>1 DEF Job
<1>3. job[f].status # "absent" /\ (job' = [job EXCEPT ![f] = late] \/ job' = [job EXCEPT ![f] = now])
  BY DEF LapseJob, JobComesDue
<1> HIDE DEF late, now
<1>4. QED
  BY <1>2, <1>3, OneJob

\* persist_review_job adds the one job of the attachment in hand.
LEMMA PersistJobs ==
    ASSUME Types, NEW w \in Workers, Persist(w), NEW f \in Files, FileAt(w) = f
    PROVE  /\ job' \in [Files -> Job] /\ job'[f].status # "absent"
           /\ \A g \in Files \ {f} : job'[g] = job[g]
           /\ IF job[f].status = "absent" THEN job'[f].run = work[w].run ELSE job' = job
<1> DEFINE row == [job[f] EXCEPT !.status = "pending", !.run = work[w].run]
<1>1. job[f] \in Job /\ work[w].run \in Nat
  BY DEF Types, Work
<1>2. row \in Job /\ row.status = "pending" /\ row.run = work[w].run
  BY <1>1 DEF Job
<1>3. job' = IF job[f].status = "absent" THEN [job EXCEPT ![f] = row] ELSE job
  BY <1>1 DEF Persist, Types
<1> HIDE DEF row
<1>4. QED
  BY <1>2, <1>3 DEF Types

-----------------------------------------------------------------------------
(* Attachments *)

\* No completed attachment changes, and those that become so are the worker's.
SameFiles ==
    /\ file' \in [Files -> File]
    /\ \A f \in Files : file'[f].status = "completed" <=> file[f].status = "completed"

LEMMA UnchangedFiles == ASSUME Types, file' = file PROVE SameFiles
BY DEF Types, SameFiles

LEMMA OneFileRow ==
    ASSUME Types, NEW f \in Files, file[f].status # "completed", NEW row \in File,
           row.status # "completed", file' = [file EXCEPT ![f] = row]
    PROVE  SameFiles
<1>1. file \in [Files -> File]
  BY DEF Types
<1>2. QED
  BY <1>1 DEF SameFiles

LEMMA ClaimFile ==
    ASSUME Types, NEW w \in Workers, NEW f \in Files, FileClaimable(f),
           file' = [file EXCEPT ![f] = [status |-> "processing", owner |-> w, lapsed |-> FALSE]]
    PROVE  SameFiles
<1> DEFINE row == [status |-> "processing", owner |-> w, lapsed |-> FALSE]
<1>1. row \in File /\ row.status = "processing"
  BY DEF File
<1>2. file[f].status # "completed"
  BY DEF FileClaimable
<1> HIDE DEF row
<1>3. QED
  BY <1>1, <1>2, OneFileRow DEF row

LEMMA ReleaseFiles ==
    ASSUME Types, NEW w \in Workers, FileAt(w) \in Files, ReleaseFile(w)
    PROVE  SameFiles
<1> DEFINE f == FileAt(w)
           row == [file[f] EXCEPT !.status = "pending", !.owner = NoWorker]
<1>1. file[f] \in File
  BY DEF Types
<1>2. row \in File /\ row.status = "pending"
  BY <1>1 DEF File
<1>3. CASE OwnsFile(w)
  <2>1. file' = [file EXCEPT ![f] = row]
    BY <1>3 DEF ReleaseFile, Types
  <2>2. file[f].status # "completed"
    BY <1>3 DEF OwnsFile
  <2> HIDE DEF f, row
  <2>3. QED
    BY <1>2, <2>1, <2>2, OneFileRow DEF f
<1>4. CASE ~OwnsFile(w)
  BY <1>4, UnchangedFiles DEF ReleaseFile
<1>5. QED
  BY <1>3, <1>4

LEMMA TimeFiles ==
    ASSUME Types, NEW f \in Files, LapseFile(f)
    PROVE  SameFiles
<1> DEFINE row == [file[f] EXCEPT !.lapsed = TRUE]
<1>1. file[f] \in File
  BY DEF Types
<1>2. row \in File /\ row.status = file[f].status
  BY <1>1 DEF File
<1>3. file[f].status = "processing" /\ file' = [file EXCEPT ![f] = row]
  BY DEF LapseFile
<1> HIDE DEF row
<1>4. QED
  BY <1>2, <1>3, OneFileRow

LEMMA CompleteFiles ==
    ASSUME Types, NEW w \in Workers, CompleteFile(w), NEW f \in Files, FileAt(w) = f
    PROVE  /\ file' \in [Files -> File]
           /\ \A g \in Files \ {f} : file'[g] = file[g]
           /\ IF OwnsFile(w) THEN file'[f].status = "completed" ELSE file' = file
<1> DEFINE row == [file[f] EXCEPT !.status = "completed", !.owner = NoWorker]
<1>1. file[f] \in File
  BY DEF Types
<1>2. row \in File /\ row.status = "completed"
  BY <1>1 DEF File
<1>3. CASE OwnsFile(w)
  <2>1. file' = [file EXCEPT ![f] = row]
    BY <1>1, <1>3 DEF CompleteFile, Types
  <2> HIDE DEF row
  <2>2. QED
    BY <1>2, <1>3, <2>1 DEF Types
<1>4. CASE ~OwnsFile(w)
  BY <1>4 DEF CompleteFile, Types
<1>5. QED
  BY <1>3, <1>4

-----------------------------------------------------------------------------
(* The steps of an intake worker: what it has in hand afterwards *)

LEMMA InHand ==
    ASSUME Types, NEW w \in Workers, Fits(w), OnFile(w)
    PROVE  /\ work[w].event \in Events
           /\ work[w].i \in DOMAIN FilesOf[work[w].event]
           /\ FileAt(w) \in Files
<1>1. work[w].event \in Events /\ work[w].i \in DOMAIN FilesOf[work[w].event]
  BY DEF Fits, OnFile, FilePlaces
<1>2. QED
  BY <1>1, FileInHand

Lands(w) == Fits(w)' /\ Told(w)' /\ Passed(w)' /\ Keeps(w) /\ Hand(w)

LEMMA FileSteps ==
    ASSUME Types, Grows, NEW w \in Workers, Fits(w), Told(w), Passed(w),
           \/ Fetch(w) \/ FetchRefused(w) \/ FileRaises(w) \/ Reject(w) \/ Receipt(w)
           \/ Enqueue(w) \/ NewRunFails(w) \/ QueueFailed(w)
    PROVE  Lands(w)
<1>1. OnFile(w)
  BY DEF OnFile, FilePlaces, At, Fetch, FetchRefused, FileRaises, Reject, Receipt, Enqueue,
         NewRunFails, QueueFailed
<1>2. /\ work[w].event \in Events /\ work[w].i \in DOMAIN FilesOf[work[w].event]
      /\ FileAt(w) \in Files
  BY <1>1, InHand
<1>3. PICK pc \in FilePlaces \ {"lookRun", "drain"} :
         /\ Goto(w, pc)
         /\ pc \in {"lookExec", "enqueue", "newRun", "persist"} => <<FileAt(w), "receipt">> \in replies'
         /\ pc = "completeFile" => <<FileAt(w), "rejection">> \in replies'
  <2>1. CASE Fetch(w)
    BY <2>1 DEF Fetch, FilePlaces
  <2>2. CASE FetchRefused(w)
    BY <2>2 DEF FetchRefused, FilePlaces
  <2>3. CASE FileRaises(w)
    BY <2>3 DEF FileRaises, FilePlaces
  <2>4. CASE Reject(w)
    BY <2>4 DEF Reject, QueueReply, FilePlaces
  <2>5. CASE Receipt(w)
    BY <2>5 DEF Receipt, QueueReply, FilePlaces
  <2>6. CASE Enqueue(w)
    <3>1. <<FileAt(w), "receipt">> \in replies'
      BY <2>6 DEF Enqueue, Told, At
    <3>2. Goto(w, "newRun") \/ Goto(w, "persist")
      BY <2>6 DEF Enqueue
    <3>3. QED
      BY <3>1, <3>2 DEF FilePlaces
  <2>7. CASE NewRunFails(w)
    <3>1. <<FileAt(w), "receipt">> \in replies' /\ Goto(w, "persist")
      BY <2>7 DEF NewRunFails, Told, At
    <3>2. QED
      BY <3>1 DEF FilePlaces
  <2>8. CASE QueueFailed(w)
    <3>1. Goto(w, "reject") \/ Goto(w, "releaseFile")
      BY <2>8 DEF QueueFailed
    <3>2. QED
      BY <3>1 DEF FilePlaces
  <2>9. QED
    BY <2>1, <2>2, <2>3, <2>4, <2>5, <2>6, <2>7, <2>8
<1>4. QED
  BY <1>1, <1>2, <1>3, FileGoto DEF Lands

\* A worker leaves the attachment and gives its event up.
LEMMA PlainSteps ==
    ASSUME Types, Grows, NEW w \in Workers, Fits(w),
           \/ Refuse(w) \/ ReleaseFile(w)
           \/ /\ work[w].pc \in {"begin", "nextFile", "completeFile", "releaseFile"}
              /\ Goto(w, "retry")
    PROVE  Lands(w)
<1>1. work[w].event \in Events
  BY DEF Fits, At, Refuse, ReleaseFile
<1>2. PICK pc \in {"ignore", "retry"} : Goto(w, pc)
  BY DEF Refuse, ReleaseFile
<1>3. pc \in Places
  BY DEF Places
<1>4. /\ Keeps(w) /\ work'[w].pc = pc /\ work'[w].event = work[w].event
      /\ work'[w].items = work[w].items
  BY <1>2, <1>3, GotoEffect DEF Keeps
<1>5. QED
  BY <1>1, <1>4, PlainGoto DEF Lands

LEMMA DrainLands ==
    ASSUME Types, Grows, NEW w \in Workers, Fits(w), Told(w), Passed(w), Drain(w)
    PROVE  Lands(w)
<1> DEFINE due == {f \in Files : JobDue(f)}
           new == [work[w] EXCEPT !.pc = "publish", !.items = due]
<1>1. work[w] \in Work /\ "publish" \in Places /\ due \subseteq Files
  BY DEF Types, Places
<1> HIDE DEF due
<1>2. /\ new \in Work /\ new.pc = "publish" /\ new.items = due
      /\ new.event = work[w].event /\ new.attempts = work[w].attempts /\ new.i = work[w].i
      /\ new.busy = work[w].busy /\ new.slow = work[w].slow
  BY <1>1 DEF Work
<1>3. Moved(w, new)
  BY DEF Drain, Moved, due
<1> HIDE DEF new
<1>4. /\ Keeps(w) /\ work'[w].pc = "publish" /\ work'[w].items = due
      /\ work'[w].event = work[w].event /\ work'[w].i = work[w].i
      /\ work'[w].busy = work[w].busy
  BY <1>2, <1>3, MovedEffect DEF Keeps
<1>5. \A f \in due : job'[f].status # "absent"
  BY DEF Grows, due, JobDue
<1>6. CASE At(w, "idle")
  <2>1. work[w].event = NoEvent
    BY <1>6 DEF Fits, At
  <2>2. ~OnFile(w)'
    BY <1>4, <2>1, IntakeAssumption DEF OnFile, FilePlaces
  <2>3. Fits(w)'
    BY <1>4, <1>5, <2>2 DEF Fits, At
  <2>4. Told(w)' /\ Passed(w)'
    BY <1>4, <2>2 DEF Told, Passed, At
  <2>5. QED
    BY <1>4, <2>2, <2>3, <2>4 DEF Lands, Hand
<1>7. CASE At(w, "drain")
  <2>1. OnFile(w)
    BY <1>7 DEF OnFile, At, FilePlaces
  <2>2. /\ work[w].event \in Events /\ work[w].i \in DOMAIN FilesOf[work[w].event]
        /\ FileAt(w) \in Files
    BY <2>1, InHand
  <2>3. FileAt(w)' = FileAt(w)
    BY <1>4 DEF FileAt
  <2>4. job'[FileAt(w)].status # "absent"
    BY <1>7, <2>1, <2>2 DEF Told, At, Grows
  <2>5. Fits(w)'
    BY <1>4, <1>5, <2>2 DEF Fits, At
  <2>6. Told(w)'
    BY <1>4, <2>3, <2>4 DEF Told, At
  <2>7. \A j \in DOMAIN FilesOf[work[w].event] : FilesOf[work[w].event][j] \in Files
    BY <2>2, IntakeAssumption
  <2>8. Passed(w)'
    BY <1>4, <2>1, <2>2, <2>7 DEF Passed, At, Grows
  <2>9. QED
    BY <1>4, <2>1, <2>5, <2>6, <2>8 DEF Lands, Hand
<1>8. QED
  BY <1>6, <1>7 DEF Drain

\* Publishing, or settling, the claimed jobs one by one.
LEMMA OutboxMove ==
    ASSUME Types, Grows, NEW w \in Workers, Fits(w), Told(w), Passed(w),
           work[w].pc \in {"publish", "mark", "unmark"}, Keeps(w),
           work'[w].pc \in {"publish", "mark", "unmark"},
           work'[w].i = work[w].i, work'[w].busy = work[w].busy,
           work'[w].items \subseteq work[w].items,
           work'[w].pc # "publish" => work'[w].item \in work'[w].items
    PROVE  Lands(w)
<1>1. /\ OnFile(w)' <=> OnFile(w)
      /\ FileAt(w)' = FileAt(w)
      /\ work'[w].event = work[w].event
  BY DEF OnFile, FileAt, FilePlaces, Keeps
<1>2. OnFile(w) => /\ work[w].event \in Events
                   /\ work[w].i \in DOMAIN FilesOf[work[w].event]
                   /\ FileAt(w) \in Files
  BY InHand
<1>3. Fits(w)'
  <2>1. \A f \in work[w].items : f \in Files
    BY DEF Types, Work
  <2>2. \A f \in work'[w].items : job'[f].status # "absent"
    BY <2>1 DEF Fits, Grows
  <2>3. QED
    BY <1>1, <1>2, <2>2 DEF Fits, At
<1>4. Told(w)'
  BY <1>1, <1>2 DEF Told, At, Grows
<1>5. Passed(w)'
  <2>1. OnFile(w) => \A j \in DOMAIN FilesOf[work[w].event] : FilesOf[work[w].event][j] \in Files
    BY <1>2, IntakeAssumption
  <2>2. QED
    BY <1>1, <1>2, <2>1 DEF Passed, At, Grows
<1>6. QED
  BY <1>1, <1>3, <1>4, <1>5 DEF Lands, Hand

LEMMA PublishLands ==
    ASSUME Types, Grows, NEW w \in Workers, Fits(w), Told(w), Passed(w),
           Publish(w) \/ PublishUnconfirmed(w)
    PROVE  Lands(w)
<1>1. PICK f \in work[w].items, pc \in {"mark", "unmark"} :
         work' = [work EXCEPT ![w].pc = pc, ![w].item = f]
  BY DEF Publish, PublishUnconfirmed
<1> DEFINE new == [work[w] EXCEPT !.pc = pc, !.item = f]
<1>2. work[w] \in Work /\ pc \in Places /\ f \in Files
  BY DEF Types, Places, Work
<1>3. /\ new \in Work /\ new.pc = pc /\ new.item = f /\ new.items = work[w].items
      /\ new.event = work[w].event /\ new.attempts = work[w].attempts /\ new.i = work[w].i
      /\ new.busy = work[w].busy /\ new.slow = work[w].slow
  BY <1>2 DEF Work
<1>4. Moved(w, new)
  BY <1>1 DEF Moved
<1> HIDE DEF new
<1>5. /\ Keeps(w) /\ work'[w].pc = pc /\ work'[w].item = f /\ work'[w].items = work[w].items
      /\ work'[w].i = work[w].i /\ work'[w].busy = work[w].busy
  BY <1>3, <1>4, MovedEffect DEF Keeps
<1>6. work[w].pc = "publish"
  BY DEF Publish, PublishUnconfirmed, At
<1>7. QED
  BY <1>5, <1>6, OutboxMove

LEMMA MarkLands ==
    ASSUME Types, Grows, NEW w \in Workers, Fits(w), Told(w), Passed(w), Mark(w) \/ Unmark(w)
    PROVE  Lands(w)
<1> DEFINE left == work[w].items \ {work[w].item}
           new == [work[w] EXCEPT !.pc = "publish", !.item = NoFile, !.items = left]
<1>1. work[w] \in Work /\ "publish" \in Places /\ left \subseteq Files
  BY DEF Types, Places, Work
<1>2. Moved(w, new)
  BY DEF Mark, Unmark, NextItem, Moved
<1>3. left \subseteq work[w].items
  OBVIOUS
<1> HIDE DEF left
<1>4. /\ new \in Work /\ new.pc = "publish" /\ new.items = left
      /\ new.event = work[w].event /\ new.attempts = work[w].attempts /\ new.i = work[w].i
      /\ new.busy = work[w].busy /\ new.slow = work[w].slow
  BY <1>1 DEF Work
<1> HIDE DEF new
<1>5. /\ Keeps(w) /\ work'[w].pc = "publish" /\ work'[w].items = left
      /\ work'[w].i = work[w].i /\ work'[w].busy = work[w].busy
  BY <1>2, <1>4, MovedEffect DEF Keeps
<1>6. work[w].pc \in {"publish", "mark", "unmark"}
  BY DEF Mark, Unmark, At
<1>7. QED
  BY <1>3, <1>5, <1>6, OutboxMove

LEMMA DrainedLands ==
    ASSUME Types, Grows, NEW w \in Workers, Fits(w), Told(w), Passed(w), Drained(w)
    PROVE  Lands(w)
<1>1. CASE work[w].event = NoEvent
  <2>1. Goto(w, "claim") /\ "claim" \in Places
    BY <1>1 DEF Drained, Places
  <2>2. /\ Keeps(w) /\ work'[w].pc = "claim" /\ work'[w].event = work[w].event
        /\ work'[w].items = work[w].items
    BY <2>1, GotoEffect DEF Keeps
  <2>3. QED
    BY <1>1, <2>2, PlainGoto DEF Lands
<1>2. CASE work[w].event # NoEvent
  <2>1. work[w].event \in Events
    BY <1>2 DEF Types, Work
  <2>2. OnFile(w)
    BY <2>1 DEF OnFile, Drained, At
  <2>3. work[w].i \in DOMAIN FilesOf[work[w].event] /\ FileAt(w) \in Files
    BY <2>2, InHand
  <2>4. job'[FileAt(w)].status # "absent"
    BY <2>2, <2>3 DEF Told, Drained, At, Grows
  <2>5. Goto(w, "completeFile") /\ "completeFile" \in FilePlaces \ {"lookRun"}
    BY <1>2 DEF Drained, FilePlaces
  <2>6. QED
    BY <2>1, <2>2, <2>3, <2>4, <2>5, FileGoto DEF Lands
<1>3. QED
  BY <1>1, <1>2

\* The worker moves to where it may be, and nobody else moves.
Stands(w) ==
    /\ Fits(w)' /\ Told(w)' /\ Passed(w)'
    /\ work' \in [Workers -> Work]
    /\ \A o \in Workers \ {w} : work'[o] = work[o]

\* An event can be claimed only while an attempt is left, or was paid for.
Affordable == \A e \in Events : EventDue(e) => event[e].attempts + 1 \in EventAttempts

LEMMA FinishStands ==
    ASSUME Types, NEW w \in Workers, Finish(w)
    PROVE  Stands(w)
BY FinishFits, FinishEffect DEF Stands

LEMMA ClaimEventStands ==
    ASSUME Types, Grows, Affordable, NEW w \in Workers, Fits(w), ClaimEvent(w)
    PROVE  Stands(w)
<1>1. CASE Finish(w)
  BY <1>1, FinishStands
<1>2. CASE ~Finish(w)
  <2>1. PICK e \in Events :
           /\ EventDue(e)
           /\ work' = [work EXCEPT ![w] = [Idle EXCEPT !.pc = "begin", !.event = e,
                                                       !.attempts = event[e].attempts + 1]]
    BY <1>2 DEF ClaimEvent
  <2> DEFINE n == event[e].attempts + 1
             new == [Idle EXCEPT !.pc = "begin", !.event = e, !.attempts = n]
  <2>2. n \in EventAttempts /\ "begin" \in Places
    BY <2>1 DEF Affordable, Places
  <2>3. Moved(w, new)
    BY <2>1 DEF Moved
  <2> HIDE DEF n
  <2>4. new \in Work /\ new.pc = "begin" /\ new.event = e /\ new.items = {}
    BY <2>2, IdleFields DEF Work
  <2> HIDE DEF new
  <2>5. /\ work' \in [Workers -> Work] /\ work'[w] = new
        /\ \A o \in Workers \ {w} : work'[o] = work[o]
    BY <2>3, <2>4, MovedEffect
  <2>6. ~OnFile(w)'
    BY <2>4, <2>5 DEF OnFile, FilePlaces
  <2>7. QED
    BY <2>4, <2>5, <2>6 DEF Stands, Fits, Told, Passed, At
<1>3. QED
  BY <1>1, <1>2

LEMMA BeginLands ==
    ASSUME Types, Grows, NEW w \in Workers, Fits(w), Begin(w)
    PROVE  Lands(w)
<1> DEFINE new == [work[w] EXCEPT !.pc = "nextFile", !.i = 1]
<1>1. work[w] \in Work /\ "nextFile" \in Places
  BY DEF Types, Places
<1>2. Moved(w, new)
  BY DEF Begin, Moved
<1>3. /\ new \in Work /\ new.pc = "nextFile" /\ new.i = 1 /\ new.items = work[w].items
      /\ new.event = work[w].event /\ new.attempts = work[w].attempts
      /\ new.slow = work[w].slow
  BY <1>1 DEF Work
<1> HIDE DEF new
<1>4. /\ Keeps(w) /\ work'[w].pc = "nextFile" /\ work'[w].i = 1
      /\ work'[w].items = work[w].items /\ work'[w].event = work[w].event
  BY <1>2, <1>3, MovedEffect DEF Keeps
<1>5. work[w].event \in Events
  BY DEF Fits, Begin, At
<1>6. ~OnFile(w)'
  BY <1>4 DEF OnFile, FilePlaces
<1>7. Fits(w)'
  <2>1. \A f \in work[w].items : f \in Files
    BY <1>1 DEF Work
  <2>2. QED
    BY <1>4, <1>5, <1>6, <2>1 DEF Fits, At, Grows
<1>8. Told(w)'
  BY <1>4, <1>6 DEF Told, At
<1>9. Passed(w)'
  <2>1. \A j \in DOMAIN FilesOf[work[w].event] : ~(j < 1)
    BY <1>5, IntakeAssumption
  <2>2. QED
    BY <1>4, <2>1 DEF Passed, At
<1>10. QED
  BY <1>4, <1>6, <1>7, <1>8, <1>9 DEF Lands, Hand

\* One attachment further, which is completed unless it was busy.
LEMMA Further ==
    ASSUME Types, Grows, NEW w \in Workers, Fits(w), Passed(w),
           OnFile(w) \/ At(w, "nextFile"), work[w].event \in Events,
           work[w].i \in DOMAIN FilesOf[work[w].event], Keeps(w),
           work'[w].pc = "nextFile", work'[w].i = work[w].i + 1,
           work'[w].items = work[w].items,
           ~work'[w].busy => ~work[w].busy /\ file'[FileAt(w)].status = "completed"
    PROVE  Lands(w)
<1>1. ~OnFile(w)' /\ work'[w].event = work[w].event
  BY DEF OnFile, FilePlaces, Keeps
<1>2. work[w].i \in Nat /\ work[w].i > 0
  BY IntakeAssumption
<1>3. Fits(w)'
  <2>1. \A f \in work[w].items : f \in Files
    BY DEF Types, Work
  <2>2. QED
    BY <1>1, <1>2, <2>1 DEF Fits, At, Grows
<1>4. Told(w)'
  BY <1>1 DEF Told, At
<1>5. Passed(w)'
  <2>1. ASSUME ~work'[w].busy, NEW j \in DOMAIN FilesOf[work[w].event], j < work[w].i + 1
        PROVE  file'[FilesOf[work[w].event][j]].status = "completed"
    <3>1. CASE j < work[w].i
      <4>1. file[FilesOf[work[w].event][j]].status = "completed"
        BY <2>1, <3>1 DEF Passed
      <4>2. FilesOf[work[w].event][j] \in Files
        BY IntakeAssumption
      <4>3. QED
        BY <4>1, <4>2 DEF Grows
    <3>2. CASE j = work[w].i
      BY <2>1, <3>2 DEF FileAt
    <3>3. j \in Nat
      BY IntakeAssumption
    <3>4. QED
      BY <1>2, <2>1, <3>1, <3>2, <3>3
  <2>2. QED
    BY <1>1, <2>1 DEF Passed, At
<1>6. QED
  BY <1>1, <1>3, <1>4, <1>5 DEF Lands, Hand

LEMMA NextFileLands ==
    ASSUME Types, Grows, NEW w \in Workers, Fits(w), Told(w), Passed(w), NextFile(w)
    PROVE  Lands(w)
<1> DEFINE f == FileAt(w)
           more == work[w].i <= Len(FilesOf[work[w].event])
<1>1. /\ work[w].event \in Events /\ work[w].i > 0 /\ work[w].i \in Nat
      /\ At(w, "nextFile") /\ FilesOf[work[w].event] \in Seq(Files)
  BY IntakeAssumption DEF Fits, NextFile, At, Types, Work
<1>2. more <=> work[w].i \in DOMAIN FilesOf[work[w].event]
  BY <1>1
<1>3. CASE more /\ Goto(w, "fetch")
  <2>1. "fetch" \in FilePlaces \ {"lookRun", "lookExec", "enqueue", "newRun", "persist", "drain", "completeFile"}
    BY DEF FilePlaces
  <2>2. QED
    BY <1>1, <1>2, <1>3, <2>1, FileGoto DEF Lands
<1>4. CASE /\ more /\ ~FileClaimable(f) /\ file' = file
           /\ work' = [work EXCEPT ![w].i = @ + 1, ![w].busy = @ \/ file[f].status # "completed"]
  <2> DEFINE busier == work[w].busy \/ file[f].status # "completed"
             next == work[w].i + 1
             new == [work[w] EXCEPT !.i = next, !.busy = busier]
  <2>1. work[w] \in Work /\ busier \in BOOLEAN /\ next \in Nat
    BY <1>1 DEF Types, Work
  <2>2. Moved(w, new)
    BY <1>4 DEF Moved
  <2>3. ~busier => ~work[w].busy /\ file[f].status = "completed"
    OBVIOUS
  <2> HIDE DEF busier, next
  <2>4. /\ new \in Work /\ new.pc = work[w].pc /\ new.i = next /\ new.busy = busier
        /\ new.event = work[w].event /\ new.attempts = work[w].attempts
        /\ new.items = work[w].items /\ new.slow = work[w].slow
    BY <2>1 DEF Work
  <2> HIDE DEF new
  <2>5. /\ Keeps(w) /\ work'[w].pc = "nextFile" /\ work'[w].i = work[w].i + 1
        /\ work'[w].busy = busier /\ work'[w].items = work[w].items
    BY <1>1, <2>2, <2>4, MovedEffect DEF Keeps, At, next
  <2>6. ~work'[w].busy => ~work[w].busy /\ file'[FileAt(w)].status = "completed"
    BY <1>4, <2>3, <2>5
  <2>7. QED
    BY <1>1, <1>2, <1>4, <2>5, <2>6, Further
<1>5. CASE ~more /\ Goto(w, IF work[w].busy THEN "contend" ELSE "done")
  <2>1. PICK pc \in {"contend", "done"} :
           Goto(w, pc) /\ (pc = "done" => ~work[w].busy) /\ pc \in Places
    BY <1>5 DEF Places
  <2>2. /\ Keeps(w) /\ work'[w].pc = pc /\ work'[w].event = work[w].event
        /\ work'[w].items = work[w].items /\ work'[w].busy = work[w].busy
    BY <2>1, GotoEffect DEF Keeps
  <2>3. CASE pc = "contend"
    BY <1>1, <2>2, <2>3, PlainGoto DEF Lands
  <2>4. CASE pc = "done"
    <3>1. ~OnFile(w)'
      BY <2>2, <2>4 DEF OnFile, FilePlaces
    <3>2. Fits(w)'
      <4>1. \A g \in work[w].items : g \in Files
        BY DEF Types, Work
      <4>2. QED
        BY <1>1, <2>2, <2>4, <3>1, <4>1 DEF Fits, At, Grows
    <3>3. Told(w)'
      BY <2>2, <2>4, <3>1 DEF Told, At
    <3>4. Passed(w)'
      <4>1. \A j \in DOMAIN FilesOf[work[w].event] :
               j < work[w].i /\ FilesOf[work[w].event][j] \in Files
        BY <1>1, <1>5
      <4>2. \A j \in DOMAIN FilesOf[work[w].event] :
               file'[FilesOf[work[w].event][j]].status = "completed"
        BY <1>1, <2>1, <2>4, <4>1 DEF Passed, Grows
      <4>3. QED
        BY <2>2, <2>4, <3>1, <4>2 DEF Passed, At
    <3>5. QED
      BY <2>2, <3>1, <3>2, <3>3, <3>4 DEF Lands, Hand
  <2>5. QED
    BY <2>3, <2>4
<1>6. QED
  BY <1>3, <1>4, <1>5 DEF NextFile

LEMMA CompleteFileLands ==
    ASSUME Types, Grows, NEW w \in Workers, Fits(w), Told(w), Passed(w), CompleteFile(w)
    PROVE  Lands(w)
<1>1. OnFile(w) /\ At(w, "completeFile")
  BY DEF OnFile, CompleteFile, At, FilePlaces
<1>2. /\ work[w].event \in Events /\ work[w].i \in DOMAIN FilesOf[work[w].event]
      /\ FileAt(w) \in Files
  BY <1>1, InHand
<1>3. CASE OwnsFile(w)
  <2> DEFINE new == [work[w] EXCEPT !.pc = "nextFile", !.i = work[w].i + 1, !.seen = "absent",
                                    !.run = 0]
             half == [work[w] EXCEPT !.pc = "nextFile", !.i = work[w].i + 1]
  <2>1. /\ work[w] \in Work /\ "nextFile" \in Places /\ "absent" \in ExecStatuses
        /\ work[w].i + 1 \in Nat
    BY <1>2, IntakeAssumption DEF Types, Places, ExecStatuses
  <2>2. Moved(w, new)
    BY <1>3 DEF CompleteFile, Moved
  <2>3. /\ half \in Work /\ half.pc = "nextFile" /\ half.i = work[w].i + 1
        /\ half.busy = work[w].busy /\ half.items = work[w].items
        /\ half.event = work[w].event /\ half.attempts = work[w].attempts
        /\ half.slow = work[w].slow
    BY <2>1 DEF Work
  <2>4. new = [half EXCEPT !.seen = "absent", !.run = 0]
    OBVIOUS
  <2> HIDE DEF new, half
  <2>5. /\ new \in Work /\ new.pc = "nextFile" /\ new.i = work[w].i + 1
        /\ new.busy = work[w].busy /\ new.items = work[w].items
        /\ new.event = work[w].event /\ new.attempts = work[w].attempts
        /\ new.slow = work[w].slow
    BY <2>1, <2>3, <2>4 DEF Work
  <2>6. /\ Keeps(w) /\ work'[w].pc = "nextFile" /\ work'[w].i = work[w].i + 1
        /\ work'[w].busy = work[w].busy /\ work'[w].items = work[w].items
    BY <2>2, <2>5, MovedEffect DEF Keeps
  <2>7. file'[FileAt(w)].status = "completed"
    BY <1>2, <1>3, CompleteFiles
  <2>8. QED
    BY <1>1, <1>2, <2>6, <2>7, Further
<1>4. CASE ~OwnsFile(w)
  <2>1. Goto(w, "contend") /\ "contend" \in Places
    BY <1>4 DEF CompleteFile, Places
  <2>2. /\ Keeps(w) /\ work'[w].pc = "contend" /\ work'[w].event = work[w].event
        /\ work'[w].items = work[w].items
    BY <2>1, GotoEffect DEF Keeps
  <2>3. QED
    BY <1>2, <2>2, PlainGoto DEF Lands
<1>5. QED
  BY <1>3, <1>4

LEMMA LookExecLands ==
    ASSUME Types, Grows, Persisted, NEW w \in Workers, Fits(w), Told(w), Passed(w), LookExec(w)
    PROVE  Lands(w)
<1> DEFINE s == exec[FileAt(w)]
           new == [work[w] EXCEPT !.pc = "lookRun", !.seen = s]
<1>1. OnFile(w) /\ At(w, "lookExec")
  BY DEF OnFile, LookExec, At, FilePlaces
<1>2. /\ work[w].event \in Events /\ work[w].i \in DOMAIN FilesOf[work[w].event]
      /\ FileAt(w) \in Files
  BY <1>1, InHand
<1>3. work[w] \in Work /\ "lookRun" \in Places /\ s \in ExecStatuses
  BY <1>2 DEF Types, Places, FilePlaces
<1>4. Moved(w, new)
  BY DEF LookExec, Moved
<1>5. s # "absent" => job'[FileAt(w)].status # "absent"
  BY <1>2 DEF Persisted, Grows
<1> HIDE DEF s
<1>6. /\ new \in Work /\ new.pc = "lookRun" /\ new.seen = s /\ new.items = work[w].items
      /\ new.event = work[w].event /\ new.attempts = work[w].attempts /\ new.i = work[w].i
      /\ new.busy = work[w].busy /\ new.slow = work[w].slow
  BY <1>3 DEF Work
<1> HIDE DEF new
<1>7. /\ Keeps(w) /\ work'[w].pc = "lookRun" /\ work'[w].seen = s
      /\ work'[w].event = work[w].event /\ work'[w].i = work[w].i
      /\ work'[w].busy = work[w].busy /\ work'[w].items = work[w].items
  BY <1>4, <1>6, MovedEffect DEF Keeps
<1>8. OnFile(w)' /\ FileAt(w)' = FileAt(w)
  BY <1>7 DEF OnFile, FilePlaces, FileAt
<1>9. Fits(w)'
  <2>1. \A f \in work[w].items : f \in Files
    BY <1>3 DEF Work
  <2>2. QED
    BY <1>2, <1>7, <2>1 DEF Fits, At, Grows
<1>10. Told(w)'
  BY <1>1, <1>5, <1>7, <1>8 DEF Told, At, Grows
<1>11. Passed(w)'
  <2>1. \A j \in DOMAIN FilesOf[work[w].event] : FilesOf[work[w].event][j] \in Files
    BY <1>2, IntakeAssumption
  <2>2. QED
    BY <1>1, <1>7, <2>1 DEF Passed, At, Grows
<1>12. QED
  BY <1>1, <1>7, <1>9, <1>10, <1>11 DEF Lands, Hand

LEMMA LookRunLands ==
    ASSUME Types, Grows, NEW w \in Workers, Fits(w), Told(w), Passed(w), LookRun(w) \/ NewRun(w)
    PROVE  Lands(w)
<1>1. OnFile(w)
  BY DEF OnFile, LookRun, NewRun, At, FilePlaces
<1>2. /\ work[w].event \in Events /\ work[w].i \in DOMAIN FilesOf[work[w].event]
      /\ FileAt(w) \in Files
  BY <1>1, InHand
<1>3. PICK n \in Nat, pc \in {"completeFile", "enqueue", "persist"} :
         /\ work' = [work EXCEPT ![w].run = n, ![w].pc = pc]
         /\ pc = "completeFile" => At(w, "lookRun") /\ work[w].seen # "absent"
  <2>1. runs[FileAt(w)] \in Nat
    BY <1>2 DEF Types
  <2>2. QED
    BY <2>1 DEF LookRun, NewRun
<1>4. /\ pc # "completeFile" => <<FileAt(w), "receipt">> \in replies'
      /\ pc = "completeFile" => job'[FileAt(w)].status # "absent"
  BY <1>2, <1>3 DEF Told, LookRun, NewRun, At, Grows
<1> DEFINE new == [work[w] EXCEPT !.run = n, !.pc = pc]
<1>5. work[w] \in Work /\ pc \in FilePlaces \ {"lookRun"} /\ pc \in Places
  BY DEF Types, Places, FilePlaces
<1>6. Moved(w, new)
  BY <1>3 DEF Moved
<1>7. /\ new \in Work /\ new.pc = pc /\ new.items = work[w].items
      /\ new.event = work[w].event /\ new.attempts = work[w].attempts /\ new.i = work[w].i
      /\ new.busy = work[w].busy /\ new.slow = work[w].slow
  BY <1>5 DEF Work
<1> HIDE DEF new
<1>8. /\ Keeps(w) /\ work'[w].pc = pc /\ work'[w].event = work[w].event
      /\ work'[w].i = work[w].i /\ work'[w].busy = work[w].busy
      /\ work'[w].items = work[w].items
  BY <1>6, <1>7, MovedEffect DEF Keeps
<1>9. QED
  BY <1>1, <1>2, <1>4, <1>5, <1>8, FileMove DEF Lands

LEMMA PersistLands ==
    ASSUME Types, Grows, NEW w \in Workers, Fits(w), Told(w), Passed(w), Persist(w)
    PROVE  Lands(w)
<1>1. OnFile(w)
  BY DEF OnFile, Persist, At, FilePlaces
<1>2. /\ work[w].event \in Events /\ work[w].i \in DOMAIN FilesOf[work[w].event]
      /\ FileAt(w) \in Files
  BY <1>1, InHand
<1>3. job'[FileAt(w)].status # "absent"
  BY <1>2, PersistJobs
<1>4. PICK pc \in {"drain", "conflict"} : Goto(w, pc)
  BY DEF Persist
<1>5. pc \in FilePlaces \ {"lookRun", "lookExec", "enqueue", "newRun", "persist", "completeFile"}
  BY DEF FilePlaces
<1>6. QED
  BY <1>1, <1>2, <1>3, <1>4, <1>5, FileGoto DEF Lands

LEMMA OutageStands ==
    ASSUME Types, Grows, NEW w \in Workers, Fits(w), Told(w), Passed(w), Outage(w)
    PROVE  Lands(w) \/ Finish(w)
<1>1. CASE /\ \/ work[w].pc \in {"persist", "drain"}
              \/ work[w].event # NoEvent /\ work[w].pc \in {"mark", "unmark"}
           /\ Goto(w, "unqueued")
  <2>1. OnFile(w)
    BY <1>1 DEF OnFile, FilePlaces, Types, Work
  <2>2. work[w].event \in Events /\ work[w].i \in DOMAIN FilesOf[work[w].event]
    BY <2>1, InHand
  <2>3. "unqueued" \in FilePlaces \ {"lookRun", "lookExec", "enqueue", "newRun", "persist", "drain", "completeFile"}
    BY DEF FilePlaces
  <2>4. QED
    BY <1>1, <2>1, <2>2, <2>3, FileGoto DEF Lands
<1>2. CASE /\ work[w].pc \in {"receipt", "lookRun", "enqueue", "reject", "conflict", "unqueued"}
           /\ Goto(w, "releaseFile")
  <2>1. OnFile(w)
    BY <1>2 DEF OnFile, FilePlaces
  <2>2. work[w].event \in Events /\ work[w].i \in DOMAIN FilesOf[work[w].event]
    BY <2>1, InHand
  <2>3. "releaseFile" \in FilePlaces \ {"lookRun", "lookExec", "enqueue", "newRun", "persist", "drain", "completeFile"}
    BY DEF FilePlaces
  <2>4. QED
    BY <1>2, <2>1, <2>2, <2>3, FileGoto DEF Lands
<1>3. CASE /\ work[w].pc \in {"begin", "nextFile", "completeFile", "releaseFile"}
           /\ Goto(w, "retry")
  BY <1>3, PlainSteps
<1>4. CASE Finish(w)
  BY <1>4
<1>5. QED
  BY <1>1, <1>2, <1>3, <1>4 DEF Outage

LEMMA SlowEffect ==
    ASSUME Types, NEW w \in Workers, Slow(w)
    PROVE  /\ work' \in [Workers -> Work] /\ SameHand(w)
           /\ work'[w].attempts = work[w].attempts /\ work'[w].slow
           /\ \A o \in Workers \ {w} : work'[o] = work[o]
<1> DEFINE new == [work[w] EXCEPT !.slow = TRUE]
<1>1. work[w] \in Work
  BY DEF Types
<1>2. /\ new \in Work /\ new.pc = work[w].pc /\ new.event = work[w].event
      /\ new.attempts = work[w].attempts /\ new.i = work[w].i /\ new.busy = work[w].busy
      /\ new.seen = work[w].seen /\ new.run = work[w].run /\ new.items = work[w].items
      /\ new.item = work[w].item /\ new.slow
  BY <1>1 DEF Work
<1>3. Moved(w, new)
  BY DEF Slow, Moved
<1> HIDE DEF new
<1>4. QED
  BY <1>2, <1>3, MovedEffect DEF SameHand

LEMMA SlowStands ==
    ASSUME Types, Grows, NEW w \in Workers, Fits(w), Told(w), Passed(w), Slow(w)
    PROVE  Stands(w)
BY SlowEffect, Stays DEF Stands

LEMMA LandsStands ==
    ASSUME NEW w \in Workers, Lands(w)
    PROVE  Stands(w)
BY DEF Lands, Stands, Keeps

\* All but the claim and the end of an event leave a worker with its event.
LEMMA OnTheWay ==
    ASSUME Types, Grows, Persisted, NEW w \in Workers, Fits(w), Told(w), Passed(w),
           Intake(w) \/ IntakeFault(w)
    PROVE  Lands(w) \/ ClaimEvent(w) \/ Done(w) \/ Retry(w) \/ Contend(w) \/ Slow(w)
           \/ (Finish(w) /\ (Outage(w) \/ Crash(w)))
<1>1. CASE Intake(w)
  <2>1. CASE \/ Fetch(w) \/ FetchRefused(w) \/ FileRaises(w) \/ Reject(w) \/ Receipt(w)
             \/ Enqueue(w) \/ QueueFailed(w)
    BY <2>1, FileSteps
  <2>2. CASE Refuse(w) \/ ReleaseFile(w)
    BY <2>2, PlainSteps
  <2>3. CASE Drain(w) \/ Publish(w) \/ Mark(w) \/ Unmark(w) \/ Drained(w)
    BY <2>3, DrainLands, PublishLands, MarkLands, DrainedLands
  <2>4. CASE Begin(w) \/ NextFile(w) \/ CompleteFile(w)
    BY <2>4, BeginLands, NextFileLands, CompleteFileLands
  <2>5. CASE LookExec(w) \/ LookRun(w) \/ NewRun(w) \/ Persist(w)
    BY <2>5, LookExecLands, LookRunLands, PersistLands
  <2>6. QED
    BY <1>1, <2>1, <2>2, <2>3, <2>4, <2>5 DEF Intake
<1>2. CASE IntakeFault(w)
  <2>1. CASE PublishUnconfirmed(w)
    BY <2>1, PublishLands
  <2>2. CASE NewRunFails(w)
    BY <2>2, FileSteps
  <2>3. CASE Outage(w)
    BY <2>3, OutageStands
  <2>4. CASE Slow(w) \/ Crash(w)
    BY <2>4 DEF Crash
  <2>5. QED
    BY <1>2, <2>1, <2>2, <2>3, <2>4 DEF IntakeFault
<1>3. QED
  BY <1>1, <1>2

LEMMA WorkerStands ==
    ASSUME Types, Grows, Persisted, Affordable, NEW w \in Workers, Fits(w), Told(w), Passed(w),
           Intake(w) \/ IntakeFault(w)
    PROVE  Stands(w)
<1>1. CASE Lands(w)
  BY <1>1, LandsStands
<1>2. CASE ClaimEvent(w)
  BY <1>2, ClaimEventStands
<1>3. CASE Done(w) \/ Retry(w) \/ Contend(w) \/ Finish(w)
  BY <1>3, FinishStands DEF Done, Retry, Contend
<1>4. CASE Slow(w)
  BY <1>4, SlowStands
<1>5. QED
  BY <1>1, <1>2, <1>3, <1>4, OnTheWay

-----------------------------------------------------------------------------
(* Table by table: what a step does to it *)

Elsewhere ==
    \/ \E e \in Events : Receive(e) \/ LapseEvent(e) \/ EventComesDue(e)
    \/ \E f \in Files : \/ Consume(f) \/ Conclude(f) \/ Discard(f) \/ AttemptFails(f)
                        \/ LapseFile(f) \/ LapseJob(f) \/ JobComesDue(f)

Step(w) == Intake(w) \/ IntakeFault(w)

LEMMA NextSplit == Next <=> (\E w \in Workers : Step(w)) \/ Elsewhere
BY DEF Next, Review, Elsewhere, Step

LEMMA ElsewhereWorkers == Elsewhere => work' = work /\ runs' = runs
BY DEF Elsewhere, Receive, LapseEvent, EventComesDue, Consume, Conclude, Discard, AttemptFails,
       LapseFile, LapseJob, JobComesDue

LEMMA JobWriters ==
    ASSUME NEW w \in Workers, Step(w)
    PROVE  Drain(w) \/ Mark(w) \/ Unmark(w) \/ Persist(w) \/ job' = job
BY DEF Step, Intake, IntakeFault, Publish, Drained, ClaimEvent, Begin, Refuse, NextFile, Done,
       Retry, Contend, Fetch, FetchRefused, FileRaises, Reject, Receipt, LookExec, LookRun,
       Enqueue, NewRun, QueueFailed, CompleteFile, ReleaseFile, PublishUnconfirmed,
       NewRunFails, Outage, Slow, Crash

LEMMA FileWriters ==
    ASSUME NEW w \in Workers, Step(w)
    PROVE  NextFile(w) \/ CompleteFile(w) \/ ReleaseFile(w) \/ file' = file
BY DEF Step, Intake, IntakeFault, Drain, Publish, Mark, Unmark, Drained, ClaimEvent, Begin,
       Refuse, Done, Retry, Contend, Fetch, FetchRefused, FileRaises, Reject, Receipt, LookExec,
       LookRun, Enqueue, NewRun, Persist, QueueFailed, PublishUnconfirmed, NewRunFails, Outage,
       Slow, Crash

LEMMA ReplyWriters ==
    ASSUME NEW w \in Workers, Step(w)
    PROVE  Refuse(w) \/ Retry(w) \/ Reject(w) \/ Receipt(w) \/ replies' = replies
BY DEF Step, Intake, IntakeFault, Drain, Publish, Mark, Unmark, Drained, ClaimEvent, Begin,
       NextFile, Done, Contend, Fetch, FetchRefused, FileRaises, LookExec, LookRun, Enqueue,
       NewRun, Persist, QueueFailed, CompleteFile, ReleaseFile, PublishUnconfirmed,
       NewRunFails, Outage, Slow, Crash

LEMMA EventWriters ==
    ASSUME NEW w \in Workers, Step(w)
    PROVE  ClaimEvent(w) \/ Done(w) \/ Retry(w) \/ Contend(w) \/ event' = event
BY DEF Step, Intake, IntakeFault, Drain, Publish, Mark, Unmark, Drained, Begin,
       NextFile, Fetch, FetchRefused, FileRaises, Reject, Receipt, Refuse, LookExec, LookRun,
       Enqueue, NewRun, Persist, QueueFailed, CompleteFile, ReleaseFile, PublishUnconfirmed,
       NewRunFails, Outage, Slow, Crash

LEMMA ReviewWriters ==
    ASSUME NEW w \in Workers, Step(w)
    PROVE  /\ exec' = exec
           /\ Enqueue(w) \/ QueueFailed(w) \/ status' = status
           /\ Publish(w) \/ PublishUnconfirmed(w) \/ queue' = queue
           /\ NewRun(w) \/ runs' = runs
BY DEF Step, Intake, IntakeFault, Drain, Publish, Mark, Unmark, Drained, ClaimEvent, Begin,
       NextFile, Done, Contend, Fetch, FetchRefused, FileRaises, LookExec, LookRun, Enqueue,
       NewRun, Persist, QueueFailed, CompleteFile, ReleaseFile, PublishUnconfirmed, Refuse,
       Retry, Reject, Receipt, NewRunFails, Outage, Slow, Crash, reviewing

LEMMA OnlyFaultsCost ==
    ASSUME NEW w \in Workers
    PROVE  /\ Intake(w) => budget' = budget
           /\ IntakeFault(w) => budget > 0 /\ budget' = budget - 1 /\ event' = event
BY DEF Intake, IntakeFault, Drain, Publish, Mark, Unmark, Drained, ClaimEvent, Begin,
       NextFile, Done, Contend, Fetch, FetchRefused, FileRaises, LookExec, LookRun, Enqueue,
       NewRun, Persist, QueueFailed, CompleteFile, ReleaseFile, PublishUnconfirmed, Refuse,
       Retry, Reject, Receipt, NewRunFails, Outage, Slow, Crash, Fault

LEMMA JobsStep ==
    ASSUME Types, WorkersFit, Next
    PROVE  SameJobs \/ (\E w \in Workers : Persist(w))
<1>1. ASSUME NEW w \in Workers, Step(w)
      PROVE  SameJobs \/ Persist(w)
  <2>1. Fits(w)
    BY DEF WorkersFit
  <2>2. QED
    BY <1>1, <2>1, JobWriters, DrainJobs, MarkJobs, UnchangedJobs
<1>2. CASE Elsewhere
  <2>1. CASE \E f \in Files : LapseJob(f) \/ JobComesDue(f)
    BY <2>1, TimeJobs
  <2>2. CASE ~ \E f \in Files : LapseJob(f) \/ JobComesDue(f)
    <3>1. job' = job
      BY <1>2, <2>2 DEF Elsewhere, Receive, LapseEvent, EventComesDue, Consume, Conclude,
                        Discard, AttemptFails, LapseFile
    <3>2. QED
      BY <3>1, UnchangedJobs
  <2>3. QED
    BY <2>1, <2>2
<1>3. QED
  BY <1>1, <1>2, NextSplit

\* Only the job of the attachment in hand is added.
LEMMA PersistInHand ==
    ASSUME Types, WorkersFit, NEW w \in Workers, Persist(w)
    PROVE  /\ FileAt(w) \in Files /\ <<FileAt(w), "receipt">> \in replies
           /\ job' \in [Files -> Job] /\ job'[FileAt(w)].status # "absent"
           /\ \A g \in Files \ {FileAt(w)} : job'[g] = job[g]
           /\ IF job[FileAt(w)].status = "absent"
              THEN job'[FileAt(w)].run = work[w].run ELSE job' = job
<1>1. OnFile(w) /\ Fits(w) /\ Told(w) /\ At(w, "persist")
  BY DEF OnFile, Persist, At, FilePlaces, WorkersFit
<1>2. FileAt(w) \in Files
  BY <1>1, InHand
<1>3. QED
  BY <1>1, <1>2, PersistJobs DEF Told, At

LEMMA FilesStep ==
    ASSUME Types, WorkersFit, Next
    PROVE  SameFiles \/ (\E w \in Workers : CompleteFile(w))
<1>1. ASSUME NEW w \in Workers, Step(w)
      PROVE  SameFiles \/ CompleteFile(w)
  <2>1. Fits(w)
    BY DEF WorkersFit
  <2>2. CASE NextFile(w)
    <3>1. CASE file' = file
      BY <3>1, UnchangedFiles
    <3>2. CASE /\ work[w].i <= Len(FilesOf[work[w].event]) /\ FileClaimable(FileAt(w))
               /\ file' = [file EXCEPT ![FileAt(w)] =
                              [status |-> "processing", owner |-> w, lapsed |-> FALSE]]
      <4>1. /\ work[w].event \in Events /\ work[w].i > 0 /\ work[w].i \in Nat
            /\ FilesOf[work[w].event] \in Seq(Files)
        BY <2>1, <2>2, IntakeAssumption DEF Fits, NextFile, At, Types, Work
      <4>2. work[w].i \in DOMAIN FilesOf[work[w].event]
        BY <3>2, <4>1
      <4>3. FileAt(w) \in Files
        BY <4>1, <4>2, FileInHand
      <4>4. QED
        BY <3>2, <4>3, ClaimFile
    <3>3. QED
      BY <2>2, <3>1, <3>2 DEF NextFile
  <2>3. CASE ReleaseFile(w)
    <3>1. OnFile(w)
      BY <2>3 DEF OnFile, ReleaseFile, At, FilePlaces
    <3>2. QED
      BY <2>1, <2>3, <3>1, InHand, ReleaseFiles
  <2>4. QED
    BY <1>1, <2>2, <2>3, FileWriters, UnchangedFiles
<1>2. CASE Elsewhere
  <2>1. CASE \E f \in Files : LapseFile(f)
    BY <2>1, TimeFiles
  <2>2. CASE ~ \E f \in Files : LapseFile(f)
    <3>1. file' = file
      BY <1>2, <2>2 DEF Elsewhere, Receive, LapseEvent, EventComesDue, Consume, Conclude,
                        Discard, AttemptFails, LapseJob, JobComesDue
    <3>2. QED
      BY <3>1, UnchangedFiles
  <2>3. QED
    BY <2>1, <2>2
<1>3. QED
  BY <1>1, <1>2, NextSplit

LEMMA CompleteInHand ==
    ASSUME Types, WorkersFit, NEW w \in Workers, CompleteFile(w)
    PROVE  /\ FileAt(w) \in Files /\ Accounted(FileAt(w))
           /\ file' \in [Files -> File]
           /\ \A g \in Files \ {FileAt(w)} : file'[g] = file[g]
           /\ IF OwnsFile(w) THEN file'[FileAt(w)].status = "completed" ELSE file' = file
<1>1. OnFile(w) /\ Fits(w) /\ Told(w) /\ At(w, "completeFile")
  BY DEF OnFile, CompleteFile, At, FilePlaces, WorkersFit
<1>2. FileAt(w) \in Files
  BY <1>1, InHand
<1>3. QED
  BY <1>1, <1>2, CompleteFiles DEF Told

LEMMA RepliesStep ==
    ASSUME Types, WorkersFit, Next
    PROVE  /\ replies \subseteq replies'
           /\ replies' \subseteq ((Files \X ReplyKinds) \cup (Events \X {"rejection"}))
<1>1. ASSUME NEW w \in Workers, Refuse(w) \/ Retry(w)
      PROVE  replies' \subseteq replies \cup (Events \X {"rejection"}) /\ replies \subseteq replies'
  <2>1. work[w].event \in Events
    BY <1>1 DEF WorkersFit, Fits, Refuse, Retry, At
  <2>2. QED
    BY <1>1, <2>1 DEF Refuse, Retry, QueueReply
<1>2. ASSUME NEW w \in Workers, Reject(w) \/ Receipt(w)
      PROVE  replies' \subseteq replies \cup (Files \X ReplyKinds) /\ replies \subseteq replies'
  <2>1. OnFile(w) /\ Fits(w)
    BY <1>2 DEF WorkersFit, OnFile, Reject, Receipt, At, FilePlaces
  <2>2. FileAt(w) \in Files
    BY <2>1, InHand
  <2>3. QED
    BY <1>2, <2>2 DEF Reject, Receipt, QueueReply, ReplyKinds
<1>3. ASSUME NEW f \in Files, Conclude(f)
      PROVE  replies' \subseteq replies \cup (Files \X ReplyKinds) /\ replies \subseteq replies'
  BY <1>3 DEF Conclude, QueueReply, ReplyKinds
<1>4. CASE replies' = replies
  BY <1>4 DEF Types
<1>5. Elsewhere => replies' = replies \/ \E f \in Files : Conclude(f)
  BY DEF Elsewhere, Receive, LapseEvent, EventComesDue, Consume, Discard, AttemptFails,
         LapseFile, LapseJob, JobComesDue
<1>6. QED
  BY <1>1, <1>2, <1>3, <1>4, <1>5, NextSplit, ReplyWriters DEF Types

LEMMA GrowsStep ==
    ASSUME Types, WorkersFit, Next
    PROVE  Grows /\ job' \in [Files -> Job] /\ file' \in [Files -> File]
<1>1. /\ job' \in [Files -> Job]
      /\ \A f \in Files : job[f].status # "absent" => job'[f].status # "absent"
  BY JobsStep, PersistInHand DEF SameJobs
<1>2. /\ file' \in [Files -> File]
      /\ \A f \in Files : file[f].status = "completed" => file'[f].status = "completed"
  BY FilesStep, CompleteInHand DEF SameFiles
<1>3. QED
  BY <1>1, <1>2, RepliesStep DEF Grows

\* What the contract workers and the broker keep, and the faults to come.
LEMMA RestStep ==
    ASSUME Types, WorkersFit, Next
    PROVE  /\ queue' \in [Files -> Nat] /\ exec' \in [Files -> ExecStatuses]
           /\ status' \in [Files -> Statuses] /\ runs' \in [Files -> Nat]
           /\ budget' \in 0..MaxFaults /\ budget' <= budget
<1>1. CASE Elsewhere
  <2>1. queue' \in [Files -> Nat]
    BY <1>1 DEF Types, Elsewhere, Receive, LapseEvent, EventComesDue, Consume, Conclude, Discard,
       AttemptFails, LapseFile, LapseJob, JobComesDue, reviewing
  <2>2. exec' \in [Files -> ExecStatuses]
    BY <1>1 DEF Types, Elsewhere, Receive, LapseEvent, EventComesDue, Consume, Conclude, Discard,
       AttemptFails, LapseFile, LapseJob, JobComesDue, reviewing, ExecStatuses
  <2>3. status' \in [Files -> Statuses]
    BY <1>1 DEF Types, Elsewhere, Receive, LapseEvent, EventComesDue, Consume, Conclude, Discard,
       AttemptFails, LapseFile, LapseJob, JobComesDue, reviewing, Statuses
  <2>4. runs' \in [Files -> Nat]
    BY <1>1, ElsewhereWorkers DEF Types
  <2>5. budget' = budget \/ (budget > 0 /\ budget' = budget - 1)
    BY <1>1 DEF Elsewhere, Receive, LapseEvent, EventComesDue, Consume, Conclude, Discard,
       AttemptFails, LapseFile, LapseJob, JobComesDue, Fault
  <2>6. QED
    BY <2>1, <2>2, <2>3, <2>4, <2>5, IntakeAssumption DEF Types
<1>2. ASSUME NEW w \in Workers, Step(w)
      PROVE  /\ queue' \in [Files -> Nat] /\ exec' \in [Files -> ExecStatuses]
             /\ status' \in [Files -> Statuses] /\ runs' \in [Files -> Nat]
             /\ budget' \in 0..MaxFaults /\ budget' <= budget
  <2>1. queue' \in [Files -> Nat]
    <3>1. \A f \in work[w].items : f \in Files /\ queue[f] + 1 \in Nat
      BY DEF Types, Work
    <3>2. CASE \E f \in work[w].items : queue' = [queue EXCEPT ![f] = @ + 1]
      BY <3>1, <3>2 DEF Types
    <3>3. CASE queue' = queue
      BY <3>3 DEF Types
    <3>4. QED
      BY <1>2, <3>2, <3>3, ReviewWriters DEF Publish, PublishUnconfirmed
  <2>2. status' \in [Files -> Statuses]
    BY <1>2, ReviewWriters DEF Types, Enqueue, QueueFailed, Statuses
  <2>3. runs' \in [Files -> Nat]
    <3>1. CASE NewRun(w)
      <4>1. OnFile(w) /\ Fits(w)
        BY <3>1 DEF WorkersFit, OnFile, NewRun, At, FilePlaces
      <4>2. FileAt(w) \in Files
        BY <4>1, InHand
      <4>3. runs[FileAt(w)] + 1 \in Nat
        BY <4>2 DEF Types
      <4>4. QED
        BY <3>1, <4>2, <4>3 DEF NewRun, Types
    <3>2. CASE runs' = runs
      BY <3>2 DEF Types
    <3>3. QED
      BY <1>2, <3>1, <3>2, ReviewWriters
  <2>4. budget' = budget \/ (budget > 0 /\ budget' = budget - 1)
    BY <1>2, OnlyFaultsCost DEF Step
  <2>5. QED
    BY <1>2, <2>1, <2>2, <2>3, <2>4, ReviewWriters, IntakeAssumption DEF Types
<1>3. QED
  BY <1>1, <1>2, NextSplit

-----------------------------------------------------------------------------
(* Events *)

\* The end of an event, which only its owner can bring about.
LEMMA EndEffect ==
    ASSUME Types, NEW w \in Workers, NEW e \in Events, work[w].event = e,
           Done(w) \/ Retry(w) \/ Contend(w)
    PROVE  /\ event' \in [Events -> Event]
           /\ \A d \in Events \ {e} : event'[d] = event[d]
           /\ ~OwnsEvent(w) => event' = event
           /\ OwnsEvent(w) =>
                /\ event'[e].owner = NoWorker
                /\ event'[e].status \in {"pending", "processed", "ignored", "failed"}
                /\ event'[e].status = "processed" => At(w, "done") /\ Done(w)
                /\ event'[e].attempts <= event[e].attempts
                /\ event'[e].status = "pending" =>
                      \/ work[w].attempts < MaxEventAttempts
                      \/ event'[e].attempts < event[e].attempts
                      \/ event'[e].attempts = 0
<1>1. event[e] \in Event /\ event[e].attempts \in Nat
  BY IntakeAssumption DEF Types, Event, EventAttempts
<1>2. work[w].attempts \in Nat
  BY IntakeAssumption DEF Types, Work, EventAttempts
<1>3. CASE ~OwnsEvent(w)
  BY <1>3 DEF Done, Retry, Contend, Types
<1>4. CASE OwnsEvent(w)
  <2>1. PICK row \in Event :
           /\ event' = [event EXCEPT ![e] = row]
           /\ row.owner = NoWorker
           /\ row.status \in {"pending", "processed", "ignored", "failed"}
           /\ row.status = "processed" => At(w, "done") /\ Done(w)
           /\ row.attempts <= event[e].attempts
           /\ row.status = "pending" =>
                 \/ work[w].attempts < MaxEventAttempts
                 \/ row.attempts < event[e].attempts
                 \/ row.attempts = 0
    <3>1. CASE Done(w)
      <4> DEFINE s == IF At(w, "done") THEN "processed" ELSE "ignored"
                 row == [event[e] EXCEPT !.owner = NoWorker, !.status = s]
      <4>1. /\ s \in {"processed", "ignored"}
            /\ s = "processed" => At(w, "done")
        OBVIOUS
      <4>2. event' = [event EXCEPT ![e] = row]
        BY <1>4, <3>1 DEF Done, Types
      <4> HIDE DEF s
      <4>3. row \in Event /\ row.owner = NoWorker /\ row.status = s /\ row.attempts = event[e].attempts
        BY <1>1, <4>1 DEF Event
      <4> HIDE DEF row
      <4>4. row.attempts <= event[e].attempts
        BY <1>1, <4>3
      <4>5. /\ row.status \in {"pending", "processed", "ignored", "failed"}
            /\ row.status = "processed" => At(w, "done") /\ Done(w)
            /\ row.status = "pending" => work[w].attempts < MaxEventAttempts
        BY <3>1, <4>1, <4>3
      <4>6. QED
        BY <4>2, <4>3, <4>4, <4>5
    <3>2. CASE Retry(w)
      <4> DEFINE s == IF work[w].attempts >= MaxEventAttempts THEN "failed" ELSE "pending"
                 row == [event[e] EXCEPT !.status = s, !.owner = NoWorker, !.due = FALSE]
      <4>1. /\ s \in {"failed", "pending"}
            /\ s = "pending" => work[w].attempts < MaxEventAttempts
        BY <1>2, IntakeAssumption
      <4>2. event' = [event EXCEPT ![e] = row]
        BY <1>4, <3>2 DEF Retry, Types
      <4> HIDE DEF s
      <4>3. row \in Event /\ row.owner = NoWorker /\ row.status = s /\ row.attempts = event[e].attempts
        BY <1>1, <4>1 DEF Event
      <4> HIDE DEF row
      <4>4. row.attempts <= event[e].attempts
        BY <1>1, <4>3
      <4>5. /\ row.status \in {"pending", "processed", "ignored", "failed"}
            /\ row.status = "processed" => At(w, "done") /\ Done(w)
            /\ row.status = "pending" => work[w].attempts < MaxEventAttempts
        BY <3>2, <4>1, <4>3
      <4>6. QED
        BY <4>2, <4>3, <4>4, <4>5
    <3>3. CASE Contend(w)
      <4> DEFINE a == IF event[e].attempts > 0 THEN event[e].attempts - 1 ELSE 0
                 half == [event[e] EXCEPT !.status = "pending", !.owner = NoWorker, !.due = FALSE]
                 row == [half EXCEPT !.attempts = a]
      <4>1. /\ a \in EventAttempts /\ a <= event[e].attempts
            /\ a < event[e].attempts \/ a = 0
        BY <1>1, IntakeAssumption DEF Event, EventAttempts
      <4>2. event' = [event EXCEPT ![e] = row]
        BY <1>4, <3>3 DEF Contend, Types
      <4> HIDE DEF a
      <4>3. half \in Event /\ half.owner = NoWorker /\ half.status = "pending"
        BY <1>1 DEF Event
      <4> HIDE DEF half
      <4>4. row \in Event /\ row.owner = NoWorker /\ row.status = "pending" /\ row.attempts = a
        BY <4>1, <4>3 DEF Event
      <4> HIDE DEF row
      <4>5. QED
        BY <4>1, <4>2, <4>4
    <3>4. QED
      BY <3>1, <3>2, <3>3
  <2>2. event' \in [Events -> Event] /\ event'[e] = row /\ \A d \in Events \ {e} : event'[d] = event[d]
    BY <2>1 DEF Types
  <2>3. QED
    BY <1>4, <2>1, <2>2
<1>5. QED
  BY <1>3, <1>4

LEMMA ClaimEffect ==
    ASSUME Types, Affordable, NEW w \in Workers, NEW e \in Events, EventDue(e),
           event' = [event EXCEPT ![e] = [status |-> "processing", due |-> TRUE,
                                          attempts |-> event[e].attempts + 1,
                                          owner |-> w, lapsed |-> FALSE]],
           work' = [work EXCEPT ![w] = [Idle EXCEPT !.pc = "begin", !.event = e,
                                                    !.attempts = event[e].attempts + 1]]
    PROVE  /\ event' \in [Events -> Event]
           /\ \A d \in Events \ {e} : event'[d] = event[d]
           /\ event'[e].status = "processing" /\ ~event'[e].lapsed /\ event'[e].owner = w
           /\ event'[e].attempts = event[e].attempts + 1
           /\ work'[w].event = e /\ work'[w].attempts = event[e].attempts + 1 /\ ~work'[w].slow
           /\ \A o \in Workers \ {w} : work'[o] = work[o]
<1> DEFINE n == event[e].attempts + 1
           row == [status |-> "processing", due |-> TRUE, attempts |-> n, owner |-> w, lapsed |-> FALSE]
           new == [Idle EXCEPT !.pc = "begin", !.event = e, !.attempts = n]
<1>1. n \in EventAttempts
  BY DEF Affordable
<1>2. event' = [event EXCEPT ![e] = row] /\ work' = [work EXCEPT ![w] = new]
  OBVIOUS
<1>3. n = event[e].attempts + 1
  OBVIOUS
<1> HIDE DEF n
<1>4. row \in Event /\ row.status = "processing" /\ ~row.lapsed /\ row.owner = w /\ row.attempts = n
  BY <1>1 DEF Event
<1>5. new.event = e /\ new.attempts = n /\ ~new.slow
  BY IdleFields DEF Work
<1> HIDE DEF row, new
<1>6. event' \in [Events -> Event] /\ event'[e] = row /\ \A d \in Events \ {e} : event'[d] = event[d]
  <2>1. event \in [Events -> Event] /\ event' = [event EXCEPT ![e] = row]
    BY <1>2 DEF Types
  <2>2. \A d \in Events : event'[d] = IF d = e THEN row ELSE event[d]
    BY <2>1
  <2>3. event' \in [Events -> Event]
    BY <1>4, <2>1
  <2>4. QED
    BY <2>2, <2>3
<1>7. work'[w] = new /\ \A o \in Workers \ {w} : work'[o] = work[o]
  BY <1>2 DEF Types
<1>8. QED
  BY <1>3, <1>4, <1>5, <1>6, <1>7

\* Time and redelivery leave the attempts alone.
LEMMA TimeEvents ==
    ASSUME Types, NEW e \in Events, Receive(e) \/ LapseEvent(e) \/ EventComesDue(e)
    PROVE  /\ event' \in [Events -> Event] /\ work' = work /\ budget' = budget
           /\ \A d \in Events \ {e} : event'[d] = event[d]
           /\ event'[e].attempts = event[e].attempts
           /\ \/ LapseEvent(e) /\ event[e].status = "processing" /\ event'[e].status = "processing"
                 /\ event'[e].owner = event[e].owner
              \/ event[e].status \in {"absent", "pending"} /\ event'[e].status = "pending"
<1> DEFINE stored == [event[e] EXCEPT !.status = "pending"]
           late == [event[e] EXCEPT !.lapsed = TRUE]
           now == [event[e] EXCEPT !.due = TRUE]
<1>1. event[e] \in Event
  BY DEF Types
<1>2. /\ stored \in Event /\ stored.status = "pending" /\ stored.attempts = event[e].attempts
      /\ late \in Event /\ late.status = event[e].status /\ late.attempts = event[e].attempts
      /\ late.owner = event[e].owner
      /\ now \in Event /\ now.status = event[e].status /\ now.attempts = event[e].attempts
  BY <1>1 DEF Event
<1>3. \/ Receive(e) /\ event[e].status = "absent" /\ event' = [event EXCEPT ![e] = stored]
      \/ LapseEvent(e) /\ event[e].status = "processing" /\ event' = [event EXCEPT ![e] = late]
      \/ EventComesDue(e) /\ event[e].status = "pending" /\ event' = [event EXCEPT ![e] = now]
  BY DEF Receive, LapseEvent, EventComesDue, Types
<1> HIDE DEF stored, late, now
<1>4. work' = work /\ budget' = budget
  BY DEF Receive, LapseEvent, EventComesDue
<1>5. QED
  BY <1>2, <1>3, <1>4 DEF Types

LEMMA ElsewhereEvents ==
    Elsewhere => event' = event \/ \E e \in Events : Receive(e) \/ LapseEvent(e) \/ EventComesDue(e)
BY DEF Elsewhere, Consume, Conclude, Discard, AttemptFails, LapseFile, LapseJob, JobComesDue

LEMMA AttemptsAffordable ==
    ASSUME Types, PaidFor
    PROVE  Affordable
<1> SUFFICES ASSUME NEW e \in Events, EventDue(e)
             PROVE  event[e].attempts + 1 \in EventAttempts
  BY DEF Affordable
<1>1. event[e].attempts \in Nat /\ budget \in 0..MaxFaults
  BY IntakeAssumption DEF Types, Event, EventAttempts
<1>2. event[e].attempts < MaxEventAttempts + Spent
  BY DEF PaidFor, Paid, EventDue
<1>3. QED
  BY <1>1, <1>2, IntakeAssumption DEF EventAttempts, Spent

LEMMA SpentGrows ==
    ASSUME Types, Types', budget' <= budget
    PROVE  Spent <= Spent' /\ Spent \in Nat /\ Spent' \in Nat
<1>1. MaxFaults \in Nat /\ budget \in 0..MaxFaults /\ budget' \in 0..MaxFaults
  BY IntakeAssumption DEF Types
<1>2. \A b \in 0..MaxFaults, c \in 0..MaxFaults :
         b <= c => MaxFaults - c <= MaxFaults - b /\ MaxFaults - c \in Nat /\ MaxFaults - b \in Nat
  BY <1>1
<1>3. QED
  BY <1>1, <1>2 DEF Spent

LEMMA PaidStays ==
    ASSUME Types, Types', budget' <= budget, NEW e \in Events, Paid(e), event'[e] = event[e],
           EventHeld(e) => EventHeld(e)'
    PROVE  Paid(e)'
<1>1. event[e].attempts \in Nat
  BY IntakeAssumption DEF Types, Event, EventAttempts
<1>2. Spent <= Spent' /\ Spent \in Nat /\ Spent' \in Nat
  BY SpentGrows
<1>3. QED
  BY <1>1, <1>2, IntakeAssumption DEF Paid

LEMMA ClaimPays ==
    ASSUME Types, Types', AttemptsInv, Affordable, NEW w \in Workers, Fits(w), ClaimEvent(w)
    PROVE  AttemptsInv'
<1>1. work[w].event = NoEvent
  BY DEF Fits, ClaimEvent, At
<1>2. budget' = budget /\ budget \in 0..MaxFaults
  BY DEF ClaimEvent, Types
<1>3. CASE Finish(w) /\ event' = event
  <2>1. work'[w].event = NoEvent /\ \A o \in Workers \ {w} : work'[o] = work[o]
    BY <1>3, FinishEffect, IdleFields
  <2>2. \A e \in Events : EventHeld(e) => EventHeld(e)'
    BY <1>1, <1>3, <2>1, IntakeAssumption DEF EventHeld
  <2>3. PaidFor'
    BY <1>2, <1>3, <2>2, PaidStays DEF AttemptsInv, PaidFor
  <2>4. Counts'
    BY <1>3, <2>1, IntakeAssumption DEF AttemptsInv, Counts, OwnsEvent
  <2>5. QED
    BY <2>3, <2>4 DEF AttemptsInv
<1>4. ASSUME NEW e \in Events, EventDue(e),
             event' = [event EXCEPT ![e] = [status |-> "processing", due |-> TRUE,
                                            attempts |-> event[e].attempts + 1,
                                            owner |-> w, lapsed |-> FALSE]],
             work' = [work EXCEPT ![w] = [Idle EXCEPT !.pc = "begin", !.event = e,
                                                      !.attempts = event[e].attempts + 1]]
      PROVE  AttemptsInv'
  <2>1. /\ \A d \in Events \ {e} : event'[d] = event[d]
        /\ event'[e].status = "processing" /\ ~event'[e].lapsed /\ event'[e].owner = w
        /\ event'[e].attempts = event[e].attempts + 1
        /\ work'[w].event = e /\ work'[w].attempts = event[e].attempts + 1 /\ ~work'[w].slow
        /\ \A o \in Workers \ {w} : work'[o] = work[o]
    BY <1>4, ClaimEffect
  <2>2. ASSUME NEW d \in Events \ {e}
        PROVE  Paid(d)'
    <3>1. EventHeld(d) => EventHeld(d)'
      BY <1>1, <2>1, <2>2, IntakeAssumption DEF EventHeld
    <3>2. QED
      BY <1>2, <2>1, <2>2, <3>1, PaidStays DEF AttemptsInv, PaidFor
  <2>3. Paid(e)'
    <3>1. EventHeld(e)'
      BY <2>1 DEF EventHeld
    <3>2. event[e].attempts < MaxEventAttempts + Spent
      BY <1>4 DEF AttemptsInv, PaidFor, Paid, EventDue
    <3>3. event[e].attempts \in Nat /\ Spent \in Nat /\ Spent' = Spent
      BY <1>2, IntakeAssumption DEF Types, Event, EventAttempts, Spent
    <3>4. event'[e].attempts <= MaxEventAttempts + Spent'
      BY <2>1, <3>2, <3>3, IntakeAssumption
    <3>5. QED
      BY <2>1, <3>1, <3>4 DEF Paid
  <2>4. Counts'
    <3>1. ASSUME NEW o \in Workers, work'[o].event \in Events, OwnsEvent(o)'
          PROVE  work'[o].attempts = event'[work'[o].event].attempts
      <4>1. CASE o = w
        BY <2>1, <4>1
      <4>2. CASE o # w
        <5>1. work'[o] = work[o] /\ work[o].event # e
          BY <2>1, <3>1, <4>2 DEF OwnsEvent
        <5>2. QED
          BY <2>1, <3>1, <5>1 DEF AttemptsInv, Counts, OwnsEvent
      <4>3. QED
        BY <4>1, <4>2
    <3>2. QED
      BY <3>1 DEF Counts
  <2>5. QED
    BY <2>2, <2>3, <2>4 DEF AttemptsInv, PaidFor
<1>5. QED
  BY <1>3, <1>4 DEF ClaimEvent

LEMMA EndPays ==
    ASSUME Types, Types', AttemptsInv, NEW w \in Workers, Fits(w),
           Done(w) \/ Retry(w) \/ Contend(w), NEW e \in Events, work[w].event = e
    PROVE  AttemptsInv'
<1>1. budget' = budget /\ budget \in 0..MaxFaults /\ Finish(w)
  BY DEF Done, Retry, Contend, Types
<1>2. work'[w].event = NoEvent /\ \A o \in Workers \ {w} : work'[o] = work[o]
  BY <1>1, FinishEffect, IdleFields
<1>3. /\ \A d \in Events \ {e} : event'[d] = event[d]
      /\ ~OwnsEvent(w) => event' = event
      /\ OwnsEvent(w) =>
           /\ event'[e].owner = NoWorker
           /\ event'[e].status \in {"pending", "processed", "ignored", "failed"}
           /\ event'[e].attempts <= event[e].attempts
           /\ event'[e].status = "pending" =>
                 \/ work[w].attempts < MaxEventAttempts
                 \/ event'[e].attempts < event[e].attempts
                 \/ event'[e].attempts = 0
  BY EndEffect
<1>4. ASSUME NEW d \in Events, event'[d] = event[d], d # e \/ ~OwnsEvent(w)
      PROVE  Paid(d)'
  <2>1. CASE EventHeld(d) /\ event[d].status = "processing"
    <3>1. PICK o \in Workers : event[d].owner = o /\ work[o].event = d /\ ~work[o].slow
      BY <2>1 DEF EventHeld
    <3>2. o # w
      BY <1>4, <2>1, <3>1 DEF OwnsEvent
    <3>3. EventHeld(d)'
      BY <1>2, <1>4, <3>1, <3>2 DEF EventHeld
    <3>4. QED
      BY <1>1, <1>4, <3>3, PaidStays DEF AttemptsInv, PaidFor
  <2>2. CASE ~(EventHeld(d) /\ event[d].status = "processing")
    BY <1>1, <1>4, <2>2 DEF AttemptsInv, PaidFor, Paid, Spent
  <2>3. QED
    BY <2>1, <2>2
<1>5. ASSUME OwnsEvent(w)
      PROVE  Paid(e)'
  <2>1. work[w].attempts = event[e].attempts
    BY <1>5 DEF AttemptsInv, Counts
  <2>2. /\ event[e].attempts \in Nat /\ event'[e].attempts \in Nat
        /\ Spent \in Nat /\ Spent' = Spent
    BY <1>1, IntakeAssumption DEF Types, Event, EventAttempts, Spent
  <2>3. event[e].attempts <= MaxEventAttempts + Spent
    BY DEF AttemptsInv, PaidFor, Paid
  <2>4. event'[e].attempts <= MaxEventAttempts + Spent'
    BY <1>3, <1>5, <2>2, <2>3, IntakeAssumption
  <2>5. event'[e].status = "pending" => event'[e].attempts < MaxEventAttempts + Spent'
    BY <1>3, <1>5, <2>1, <2>2, <2>3, IntakeAssumption
  <2>6. QED
    BY <1>3, <1>5, <2>4, <2>5 DEF Paid
<1>6. PaidFor'
  BY <1>3, <1>4, <1>5 DEF PaidFor
<1>7. Counts'
  <2>1. ASSUME NEW o \in Workers, work'[o].event \in Events, OwnsEvent(o)'
        PROVE  work'[o].attempts = event'[work'[o].event].attempts
    <3>1. o # w /\ work'[o] = work[o]
      BY <1>2, <2>1, IntakeAssumption
    <3>2. event'[work[o].event] = event[work[o].event]
      BY <1>3, <2>1, <3>1, IntakeAssumption DEF OwnsEvent
    <3>3. QED
      BY <2>1, <3>1, <3>2 DEF AttemptsInv, Counts, OwnsEvent
  <2>2. QED
    BY <2>1 DEF Counts
<1>8. QED
  BY <1>6, <1>7 DEF AttemptsInv

\* A fault pays for the attempt that it leaves unfinished.
LEMMA FaultPays ==
    ASSUME Types, Types', PaidFor, event' = event, budget' = budget - 1
    PROVE  PaidFor'
<1>1. \A e \in Events : event[e].attempts \in Nat
  BY IntakeAssumption DEF Types, Event, EventAttempts
<1>2. Spent \in Nat /\ Spent' = Spent + 1
  BY IntakeAssumption DEF Types, Spent
<1>3. QED
  BY <1>1, <1>2, IntakeAssumption DEF PaidFor, Paid

LEMMA AttemptsStep ==
    ASSUME Types, Types', WorkersFit, Persisted, AttemptsInv, Grows, Next
    PROVE  AttemptsInv'
<1>1. Affordable
  BY AttemptsAffordable DEF AttemptsInv
<1>2. budget' <= budget
  BY RestStep
<1>3. ASSUME NEW w \in Workers, Step(w)
      PROVE  AttemptsInv'
  <2>1. Fits(w) /\ Told(w) /\ Passed(w)
    BY DEF WorkersFit
  <2>2. CASE ClaimEvent(w)
    BY <1>1, <2>1, <2>2, ClaimPays
  <2>3. CASE Done(w) \/ Retry(w) \/ Contend(w)
    <3>1. work[w].event \in Events
      BY <2>1, <2>3 DEF Fits, Done, Retry, Contend, At
    <3>2. QED
      BY <2>1, <2>3, <3>1, EndPays
  <2>4. CASE event' = event /\ Lands(w)
    <3>1. Keeps(w)
      BY <2>4 DEF Lands
    <3>2. \A e \in Events : EventHeld(e) => EventHeld(e)'
      BY <2>4, <3>1 DEF EventHeld, Keeps
    <3>3. PaidFor'
      BY <1>2, <2>4, <3>2, PaidStays DEF AttemptsInv, PaidFor
    <3>4. Counts'
      BY <2>4, <3>1 DEF AttemptsInv, Counts, OwnsEvent, Keeps
    <3>5. QED
      BY <3>3, <3>4 DEF AttemptsInv
  <2>5. CASE event' = event /\ (Slow(w) \/ (Finish(w) /\ (Outage(w) \/ Crash(w))))
    <3>1. budget' = budget - 1
      BY <2>5, OnlyFaultsCost DEF IntakeFault
    <3>2. PaidFor'
      BY <2>5, <3>1, FaultPays DEF AttemptsInv
    <3>3. Counts'
      <4>1. CASE Slow(w)
        BY <2>5, <4>1, SlowEffect DEF AttemptsInv, Counts, OwnsEvent, SameHand
      <4>2. CASE Finish(w)
        BY <2>5, <4>2, FinishEffect, IdleFields, IntakeAssumption DEF AttemptsInv, Counts, OwnsEvent
      <4>3. QED
        BY <2>5, <4>1, <4>2
    <3>4. QED
      BY <3>2, <3>3 DEF AttemptsInv
  <2>6. QED
    BY <1>3, <2>1, <2>2, <2>3, <2>4, <2>5, OnTheWay, EventWriters DEF Step
<1>4. ASSUME NEW e \in Events, Receive(e) \/ LapseEvent(e) \/ EventComesDue(e)
      PROVE  AttemptsInv'
  <2>1. /\ work' = work /\ budget' = budget
        /\ \A d \in Events \ {e} : event'[d] = event[d]
        /\ event'[e].attempts = event[e].attempts
        /\ \/ LapseEvent(e) /\ event[e].status = "processing" /\ event'[e].status = "processing"
              /\ event'[e].owner = event[e].owner
           \/ event[e].status \in {"absent", "pending"} /\ event'[e].status = "pending"
    BY <1>4, TimeEvents
  <2>2. ASSUME NEW d \in Events \ {e}
        PROVE  Paid(d)'
    <3>1. EventHeld(d) => EventHeld(d)'
      BY <2>1, <2>2 DEF EventHeld
    <3>2. QED
      BY <1>2, <2>1, <2>2, <3>1, PaidStays DEF AttemptsInv, PaidFor
  <2>3. Paid(e)'
    <3>1. event[e].attempts < MaxEventAttempts + Spent /\ event[e].attempts <= MaxEventAttempts + Spent
      BY <2>1 DEF AttemptsInv, PaidFor, Paid, LapseEvent
    <3>2. Spent' = Spent
      BY <2>1 DEF Spent
    <3>3. QED
      BY <2>1, <3>1, <3>2 DEF Paid
  <2>4. Counts'
    <3>1. ASSUME NEW o \in Workers, work'[o].event \in Events, OwnsEvent(o)'
          PROVE  work'[o].attempts = event'[work'[o].event].attempts
      <4>1. work'[o] = work[o] /\ OwnsEvent(o)
        BY <2>1, <3>1 DEF OwnsEvent
      <4>2. event'[work[o].event].attempts = event[work[o].event].attempts
        BY <2>1, <3>1, <4>1
      <4>3. QED
        BY <3>1, <4>1, <4>2 DEF AttemptsInv, Counts
    <3>2. QED
      BY <3>1 DEF Counts
  <2>5. QED
    BY <2>2, <2>3, <2>4 DEF AttemptsInv, PaidFor
<1>5. CASE Elsewhere /\ event' = event
  <2>1. work' = work
    BY <1>5, ElsewhereWorkers
  <2>2. \A e \in Events : EventHeld(e) => EventHeld(e)'
    BY <1>5, <2>1 DEF EventHeld
  <2>3. PaidFor'
    BY <1>2, <1>5, <2>2, PaidStays DEF AttemptsInv, PaidFor
  <2>4. Counts'
    BY <1>5, <2>1 DEF AttemptsInv, Counts, OwnsEvent
  <2>5. QED
    BY <2>3, <2>4 DEF AttemptsInv
<1>6. QED
  BY <1>3, <1>4, <1>5, NextSplit, ElsewhereEvents

LEMMA EventsStep ==
    ASSUME Types, WorkersFit, Affordable, Next
    PROVE  event' \in [Events -> Event]
<1>1. CASE event' = event
  BY <1>1 DEF Types
<1>2. ASSUME NEW e \in Events, Receive(e) \/ LapseEvent(e) \/ EventComesDue(e)
      PROVE  event' \in [Events -> Event]
  BY <1>2, TimeEvents
<1>3. ASSUME NEW w \in Workers, ClaimEvent(w)
      PROVE  event' \in [Events -> Event]
  <2>1. CASE event' = event
    BY <2>1, <1>1
  <2>2. CASE event' # event
    <3>1. PICK e \in Events :
             /\ EventDue(e)
             /\ event' = [event EXCEPT ![e] = [status |-> "processing", due |-> TRUE,
                                               attempts |-> event[e].attempts + 1,
                                               owner |-> w, lapsed |-> FALSE]]
             /\ work' = [work EXCEPT ![w] = [Idle EXCEPT !.pc = "begin", !.event = e,
                                                         !.attempts = event[e].attempts + 1]]
      BY <1>3, <2>2 DEF ClaimEvent
    <3>2. QED
      BY <3>1, ClaimEffect
  <2>3. QED
    BY <2>1, <2>2
<1>4. ASSUME NEW w \in Workers, Done(w) \/ Retry(w) \/ Contend(w)
      PROVE  event' \in [Events -> Event]
  <2>1. work[w].event \in Events
    BY <1>4 DEF WorkersFit, Fits, Done, Retry, Contend, At
  <2>2. QED
    BY <1>4, <2>1, EndEffect
<1>5. QED
  BY <1>1, <1>2, <1>3, <1>4, NextSplit, ElsewhereEvents, EventWriters

-----------------------------------------------------------------------------
(* The flow of attachments *)

LEMMA FitStep ==
    ASSUME Types, FlowInv, Affordable, Next
    PROVE  WorkersFit' /\ work' \in [Workers -> Work]
<1>1. Grows /\ WorkersFit /\ Persisted
  BY GrowsStep DEF FlowInv
<1>2. ASSUME NEW w \in Workers, work'[w] = work[w]
      PROVE  Fits(w)' /\ Told(w)' /\ Passed(w)'
  BY <1>1, <1>2, Stays DEF WorkersFit, SameHand
<1>3. ASSUME NEW w \in Workers, Step(w)
      PROVE  Stands(w)
  BY <1>1, <1>3, WorkerStands DEF WorkersFit, Step
<1>4. CASE Elsewhere
  <2>1. work' = work
    BY <1>4, ElsewhereWorkers
  <2>2. QED
    BY <1>2, <2>1 DEF WorkersFit, Types
<1>5. ASSUME NEW w \in Workers, Step(w)
      PROVE  WorkersFit' /\ work' \in [Workers -> Work]
  <2>1. Stands(w)
    BY <1>3, <1>5
  <2>2. \A o \in Workers : Fits(o)' /\ Told(o)' /\ Passed(o)'
    BY <1>2, <2>1 DEF Stands
  <2>3. QED
    BY <2>1, <2>2 DEF WorkersFit, Stands
<1>6. QED
  BY <1>4, <1>5, NextSplit

LEMMA PersistedStep ==
    ASSUME Types, FlowInv, Next
    PROVE  Persisted'
<1>1. Grows /\ WorkersFit /\ Persisted
  BY GrowsStep DEF FlowInv
<1>2. SUFFICES ASSUME NEW f \in Files, queue'[f] > 0 \/ exec'[f] # "absent"
               PROVE  job[f].status # "absent"
  BY <1>1 DEF Persisted, Grows
<1>3. queue[f] \in Nat
  BY DEF Types
<1>4. CASE queue[f] > 0 \/ exec[f] # "absent"
  BY <1>1, <1>4 DEF Persisted
<1>5. CASE queue[f] = 0 /\ exec[f] = "absent"
  <2>1. CASE Elsewhere
    <3>1. \A g \in Files : Consume(g) \/ Conclude(g) \/ Discard(g) \/ AttemptFails(g) =>
             /\ queue[g] > 0 \/ exec[g] # "absent"
             /\ \A h \in Files \ {g} : queue'[h] = queue[h] /\ exec'[h] = exec[h]
      BY DEF Types, Consume, Conclude, Discard, AttemptFails
    <3>2. (\E g \in Files : Consume(g) \/ Conclude(g) \/ Discard(g) \/ AttemptFails(g))
          \/ (queue' = queue /\ exec' = exec)
      BY <2>1 DEF Elsewhere, Receive, LapseEvent, EventComesDue, LapseFile, LapseJob,
                  JobComesDue, reviewing
    <3>3. QED
      BY <1>2, <1>3, <1>5, <3>1, <3>2
  <2>2. ASSUME NEW w \in Workers, Step(w)
        PROVE  job[f].status # "absent"
    <3>1. exec' = exec
      BY <2>2, ReviewWriters
    <3>2. Publish(w) \/ PublishUnconfirmed(w)
      BY <1>2, <1>5, <2>2, <3>1, ReviewWriters
    <3>3. PICK g \in work[w].items : queue' = [queue EXCEPT ![g] = @ + 1]
      BY <1>2, <1>5, <3>1, <3>2 DEF Publish, PublishUnconfirmed
    <3>4. g = f
      BY <1>2, <1>3, <1>5, <3>1, <3>3 DEF Types
    <3>5. QED
      BY <1>1, <3>3, <3>4 DEF WorkersFit, Fits
  <2>3. QED
    BY <2>1, <2>2, NextSplit
<1>6. QED
  BY <1>3, <1>4, <1>5

LEMMA AccountedStep ==
    ASSUME Types, FlowInv, Next
    PROVE  CompletedFileIsAccountedFor'
<1>1. Grows /\ WorkersFit
  BY GrowsStep DEF FlowInv
<1>2. SUFFICES ASSUME NEW f \in Files, file'[f].status = "completed"
               PROVE  Accounted(f)
  BY <1>1 DEF CompletedFileIsAccountedFor, Accounted, Grows
<1>3. CASE file[f].status = "completed"
  BY <1>3 DEF FlowInv, CompletedFileIsAccountedFor, Accounted
<1>4. CASE file[f].status # "completed"
  <2>1. PICK w \in Workers : CompleteFile(w)
    BY <1>2, <1>4, <1>1, FilesStep DEF SameFiles
  <2>2. f = FileAt(w) /\ Accounted(FileAt(w))
    BY <1>1, <1>2, <1>4, <2>1, CompleteInHand
  <2>3. QED
    BY <2>2
<1>5. QED
  BY <1>3, <1>4

LEMMA ProcessedStep ==
    ASSUME Types, FlowInv, Next
    PROVE  ProcessedEventIsComplete'
<1>1. Grows /\ WorkersFit
  BY GrowsStep DEF FlowInv
<1>2. SUFFICES ASSUME NEW e \in Events, event'[e].status = "processed"
               PROVE  \A i \in DOMAIN FilesOf[e] : file[FilesOf[e][i]].status = "completed"
  <2>1. \A e \in Events : \A i \in DOMAIN FilesOf[e] : FilesOf[e][i] \in Files
    BY IntakeAssumption
  <2>2. QED
    BY <1>1, <2>1 DEF ProcessedEventIsComplete, Grows
<1>3. CASE event[e].status = "processed"
  BY <1>3 DEF FlowInv, ProcessedEventIsComplete
<1>4. CASE event[e].status # "processed"
  <2>1. ASSUME NEW d \in Events, Receive(d) \/ LapseEvent(d) \/ EventComesDue(d)
        PROVE  FALSE
    BY <1>2, <1>4, <2>1, TimeEvents
  <2>2. ASSUME NEW w \in Workers, ClaimEvent(w)
        PROVE  FALSE
    <3>1. PICK d \in Events :
             event' = [event EXCEPT ![d] = [status |-> "processing", due |-> TRUE,
                                               attempts |-> event[d].attempts + 1,
                                               owner |-> w, lapsed |-> FALSE]]
      BY <1>2, <1>4, <2>2 DEF ClaimEvent
    <3>2. QED
      BY <1>2, <1>4, <3>1 DEF Types
  <2>3. ASSUME NEW w \in Workers, Done(w) \/ Retry(w) \/ Contend(w)
        PROVE  work[w].event = e /\ At(w, "done")
    <3>1. work[w].event \in Events
      BY <1>1, <2>3 DEF WorkersFit, Fits, Done, Retry, Contend, At
    <3>2. QED
      BY <1>2, <1>4, <2>3, <3>1, EndEffect
  <2>4. PICK w \in Workers : work[w].event = e /\ At(w, "done")
    BY <1>2, <1>4, <2>1, <2>2, <2>3, NextSplit, ElsewhereEvents, EventWriters
  <2>5. QED
    BY <1>1, <2>4 DEF WorkersFit, Passed
<1>5. QED
  BY <1>3, <1>4

LEMMA ReceiptStep ==
    ASSUME Types, FlowInv, Next
    PROVE  ReceiptComesFirst'
<1>1. Grows /\ WorkersFit /\ Persisted /\ ReceiptComesFirst
  BY GrowsStep DEF FlowInv
<1>2. ASSUME NEW f \in Files, job[f].status # "absent"
      PROVE  <<f, "receipt">> \in replies
  BY <1>1, <1>2 DEF ReceiptComesFirst
<1>3. ASSUME NEW f \in Files, job'[f].status # "absent", job[f].status = "absent"
      PROVE  <<f, "receipt">> \in replies
  <2>1. PICK w \in Workers : Persist(w)
    BY <1>1, <1>3, JobsStep DEF SameJobs
  <2>2. f = FileAt(w) /\ <<FileAt(w), "receipt">> \in replies
    BY <1>1, <1>3, <2>1, PersistInHand
  <2>3. QED
    BY <2>2
<1>4. ASSUME NEW f \in Files, NEW kind \in {"review", "failure"}, <<f, kind>> \in replies'
      PROVE  <<f, "receipt">> \in replies
  <2>1. CASE <<f, kind>> \in replies
    BY <1>1, <1>4, <2>1 DEF ReceiptComesFirst
  <2>2. CASE <<f, kind>> \notin replies
    <3>1. ASSUME NEW w \in Workers, Refuse(w) \/ Retry(w) \/ Reject(w) \/ Receipt(w)
          PROVE  FALSE
      BY <1>4, <2>2, <3>1 DEF Refuse, Retry, Reject, Receipt, QueueReply
    <3>2. Elsewhere => replies' = replies \/ \E g \in Files : Conclude(g)
      BY DEF Elsewhere, Receive, LapseEvent, EventComesDue, Consume, Discard, AttemptFails,
             LapseFile, LapseJob, JobComesDue
    <3>3. PICK g \in Files : Conclude(g)
      BY <1>4, <2>2, <3>1, <3>2, NextSplit, ReplyWriters
    <3>4. f = g
      BY <1>4, <2>2, <3>3 DEF Conclude, QueueReply
    <3>5. job[f].status # "absent"
      BY <1>1, <3>3, <3>4 DEF Persisted, Conclude
    <3>6. QED
      BY <1>2, <3>5
  <2>3. QED
    BY <2>1, <2>2
<1>5. QED
  BY <1>1, <1>2, <1>3, <1>4 DEF ReceiptComesFirst, Grows

Inv == Types /\ FlowInv /\ AttemptsInv

LEMMA InvInit == Init => Inv
<1> SUFFICES ASSUME Init
             PROVE  Inv
  OBVIOUS
<1>1. Types
  <2>1. 0 \in EventAttempts
    BY IntakeAssumption DEF EventAttempts
  <2>2. event \in [Events -> Event]
    BY <2>1 DEF Init, Event
  <2>3. file \in [Files -> File]
    BY DEF Init, File
  <2>4. job \in [Files -> Job]
    BY DEF Init, Job
  <2>5. exec \in [Files -> ExecStatuses] /\ status \in [Files -> Statuses]
    BY DEF Init, ExecStatuses, Statuses
  <2>6. work \in [Workers -> Work]
    BY IdleFields DEF Init
  <2>7. runs \in [Files -> Nat] /\ queue \in [Files -> Nat] /\ replies = {} /\ budget \in 0..MaxFaults
    BY IntakeAssumption DEF Init
  <2>8. QED
    BY <2>2, <2>3, <2>4, <2>5, <2>6, <2>7 DEF Types
<1>2. \A w \in Workers : work[w].pc = "idle" /\ work[w].event = NoEvent /\ work[w].items = {}
  BY IdleFields DEF Init
<1>3. WorkersFit
  BY <1>2, IntakeAssumption DEF WorkersFit, Fits, Told, Passed, OnFile, At, FilePlaces
<1>4. Persisted /\ CompletedFileIsAccountedFor /\ ProcessedEventIsComplete /\ ReceiptComesFirst
  BY DEF Init, Persisted, CompletedFileIsAccountedFor, ProcessedEventIsComplete, ReceiptComesFirst
<1>5. PaidFor
  <2>1. Spent = 0
    BY IntakeAssumption DEF Init, Spent
  <2>2. \A e \in Events : event[e].attempts = 0
    BY DEF Init
  <2>3. 0 < MaxEventAttempts + Spent /\ 0 <= MaxEventAttempts + Spent
    BY <2>1, IntakeAssumption
  <2>4. QED
    BY <2>2, <2>3 DEF PaidFor, Paid
<1>6. Counts
  BY <1>2, IntakeAssumption DEF Counts
<1>7. QED
  BY <1>1, <1>3, <1>4, <1>5, <1>6 DEF Inv, FlowInv, AttemptsInv

LEMMA InvStep ==
    ASSUME Inv, [Next]_vars
    PROVE  Inv'
<1>1. CASE Next
  <2>1. Types /\ FlowInv /\ AttemptsInv /\ WorkersFit /\ Persisted /\ Affordable
    BY AttemptsAffordable DEF Inv, FlowInv, AttemptsInv
  <2>2. WorkersFit' /\ work' \in [Workers -> Work]
    BY <1>1, <2>1, FitStep
  <2>3. Types'
    BY <1>1, <2>1, <2>2, GrowsStep, RepliesStep, RestStep, EventsStep DEF Types
  <2>4. FlowInv'
    BY <1>1, <2>1, <2>2, PersistedStep, AccountedStep, ProcessedStep, ReceiptStep DEF FlowInv
  <2>5. AttemptsInv'
    BY <1>1, <2>1, <2>3, GrowsStep, AttemptsStep
  <2>6. QED
    BY <2>3, <2>4, <2>5 DEF Inv
<1>2. CASE UNCHANGED vars
  BY <1>2 DEF vars, Inv, Types, FlowInv, WorkersFit, Fits, Told, Passed, OnFile, At, FileAt,
     Accounted, Persisted, CompletedFileIsAccountedFor, ProcessedEventIsComplete,
     ReceiptComesFirst, AttemptsInv, PaidFor, Paid, Spent, EventHeld, Counts, OwnsEvent
<1>3. QED
  BY <1>1, <1>2

\* Workers, events, attachments, jobs and replies fit together in every
\* reachable state: what has been queued and completed when a worker stands at
\* a place of _process_file or enqueue_local_file, and who paid for an attempt.
THEOREM IntakeInvariant == Spec => []Inv
<1>1. Init => Inv
  BY InvInit
<1>2. Inv /\ [Next]_vars => Inv'
  BY InvStep
<1>3. QED
  BY <1>1, <1>2, PTL DEF Spec

\* Every variable keeps its type; the attempts of an event pass max_attempts
\* only as often as a fault left one unfinished (retry_event,
\* retry_event_contention).
THEOREM TypeCorrect == Spec => []TypeOK
<1>1. Inv => TypeOK
  BY TypesFit DEF Inv, FlowInv
<1>2. QED
  BY <1>1, IntakeInvariant, PTL

\* An attachment is marked completed (complete_file_submission) only with its
\* job in the outbox or a rejection queued.
THEOREM CompletedFileIsAccountedForHolds == Spec => []CompletedFileIsAccountedFor
<1>1. Inv => CompletedFileIsAccountedFor
  BY DEF Inv, FlowInv
<1>2. QED
  BY <1>1, IntakeInvariant, PTL

\* An event is marked processed (complete_event) only with all its attachments
\* completed, also those that another worker had leased.
THEOREM ProcessedEventIsCompleteHolds == Spec => []ProcessedEventIsComplete
<1>1. Inv => ProcessedEventIsComplete
  BY DEF Inv, FlowInv
<1>2. QED
  BY <1>1, IntakeInvariant, PTL

\* Neither a review job nor an answer is there before the receipt
\* (_process_file queues it before it calls enqueue_local_file).
THEOREM ReceiptComesFirstHolds == Spec => []ReceiptComesFirst
<1>1. Inv => ReceiptComesFirst
  BY DEF Inv, FlowInv
<1>2. QED
  BY <1>1, IntakeInvariant, PTL

-----------------------------------------------------------------------------
(* One worker at an attachment, one envelope *)

\* Two workers never have the same attachment in hand.
LEMMA Exclusive ==
    ASSUME NEW w \in Workers, NEW o \in Workers \ {w}, Alone(w), Alone(o), OnFile(w), OnFile(o)
    PROVE  FileAt(w) # FileAt(o)
BY DEF Alone, OwnsFile

LEMMA LeavesFile ==
    ASSUME Types, NEW w \in Workers, CompleteFile(w) \/ ReleaseFile(w)
    PROVE  ~OnFile(w)'
<1>1. work[w] \in Work
  BY DEF Types
<1>2. work'[w].pc \in {"nextFile", "contend", "retry"}
  BY <1>1 DEF CompleteFile, ReleaseFile, Goto, Types, Work
<1>3. QED
  BY <1>2 DEF OnFile, FilePlaces

LEMMA TakesFile ==
    ASSUME Types, NEW w \in Workers, Fits(w), At(w, "nextFile"), Step(w), OnFile(w)', "slow" \notin Faults
    PROVE  /\ FileAt(w) \in Files
           /\ file' = [file EXCEPT ![FileAt(w)] = [status |-> "processing", owner |-> w, lapsed |-> FALSE]]
<1>1. work[w] \in Work /\ work[w].pc = "nextFile"
  BY DEF Types, At
<1>2. NextFile(w) \/ Outage(w) \/ Crash(w)
  BY <1>1 DEF At, Step, Intake, IntakeFault, Drain, Publish, Mark, Unmark, Drained, ClaimEvent,
     Begin, Refuse, Done, Retry, Contend, Fetch, FetchRefused, FileRaises, Reject, Receipt,
     LookExec, LookRun, Enqueue, NewRun, Persist, QueueFailed, CompleteFile, ReleaseFile,
     PublishUnconfirmed, NewRunFails, Slow, Fault
<1>3. ~Crash(w)
  <2>1. Finish(w) => ~OnFile(w)'
    BY FinishEffect, IdleFields DEF OnFile, FilePlaces
  <2>2. QED
    BY <2>1 DEF Crash
<1>4. ~Outage(w)
  <2>1. Goto(w, "retry") => work'[w].pc = "retry"
    BY GotoEffect DEF Places
  <2>2. Goto(w, "retry") => ~OnFile(w)'
    BY <2>1 DEF OnFile, FilePlaces
  <2>3. Outage(w) => Goto(w, "retry")
    BY <1>1 DEF Outage
  <2>4. QED
    BY <2>2, <2>3
<1>5. CASE work[w].i <= Len(FilesOf[work[w].event]) /\ Goto(w, "fetch")
            /\ file' = [file EXCEPT ![FileAt(w)] =
                           [status |-> "processing", owner |-> w, lapsed |-> FALSE]]
  <2>1. /\ work[w].event \in Events /\ work[w].i > 0 /\ work[w].i \in Nat
        /\ FilesOf[work[w].event] \in Seq(Files)
    BY <1>1, IntakeAssumption DEF Fits, At, Work
  <2>2. work[w].i \in DOMAIN FilesOf[work[w].event]
    BY <1>5, <2>1
  <2>3. QED
    BY <1>5, <2>1, <2>2, FileInHand
<1>6. CASE work' = [work EXCEPT ![w].i = @ + 1,
                                ![w].busy = @ \/ file[FileAt(w)].status # "completed"]
  <2>1. work'[w].pc = "nextFile"
    BY <1>1, <1>6 DEF Types, Work
  <2>2. QED
    BY <2>1 DEF OnFile, FilePlaces
<1>7. CASE Goto(w, "contend") \/ Goto(w, "done")
  <2>1. work'[w].pc \in {"contend", "done"}
    BY <1>7, GotoEffect DEF Places
  <2>2. QED
    BY <2>1 DEF OnFile, FilePlaces
<1>8. QED
  BY <1>2, <1>3, <1>4, <1>5, <1>6, <1>7 DEF NextFile

\* A step leaves the lease of another worker's attachment alone.
LEMMA LeasesKept ==
    ASSUME Types, NEW w \in Workers, NEW o \in Workers \ {w}, Alone(o), OnFile(o),
           FileAt(o) \in Files, Step(w)
    PROVE  file'[FileAt(o)] = file[FileAt(o)]
<1>1. /\ file[FileAt(o)].status = "processing" /\ file[FileAt(o)].owner = o
      /\ ~file[FileAt(o)].lapsed
  BY DEF Alone, OwnsFile
<1>2. CASE NextFile(w)
  <2>1. file' = file \/ (FileClaimable(FileAt(w)) /\
           file' = [file EXCEPT ![FileAt(w)] =
                       [status |-> "processing", owner |-> w, lapsed |-> FALSE]])
    BY <1>2 DEF NextFile
  <2>2. FileClaimable(FileAt(w)) => FileAt(w) # FileAt(o)
    BY <1>1 DEF FileClaimable
  <2>3. QED
    BY <2>1, <2>2 DEF Types
<1>3. CASE CompleteFile(w) \/ ReleaseFile(w)
  <2>1. OwnsFile(w) => FileAt(w) # FileAt(o)
    BY <1>1 DEF OwnsFile
  <2>2. QED
    BY <1>3, <2>1 DEF CompleteFile, ReleaseFile, Types
<1>4. QED
  BY <1>2, <1>3, FileWriters

LEMMA StaysAlone ==
    ASSUME Types, Grows, Persisted, NEW w \in Workers, Fits(w), Told(w), Passed(w), Alone(w),
           Step(w), Prudent
    PROVE  Alone(w)'
<1>1. ~Slow(w)
  BY DEF Slow, Fault, Prudent
<1>2. CASE Finish(w)
  <2>1. ~OnFile(w)' /\ ~work'[w].slow
    BY <1>2, FinishEffect, IdleFields DEF OnFile, FilePlaces
  <2>2. QED
    BY <2>1 DEF Alone
<1>3. CASE ClaimEvent(w) /\ ~Finish(w)
  <2>1. PICK e \in Events :
           work' = [work EXCEPT ![w] = [Idle EXCEPT !.pc = "begin", !.event = e,
                                                    !.attempts = event[e].attempts + 1]]
    BY <1>3 DEF ClaimEvent
  <2> DEFINE new == [Idle EXCEPT !.pc = "begin", !.event = e, !.attempts = event[e].attempts + 1]
  <2>2. new.pc = "begin" /\ ~new.slow
    BY IdleFields DEF Work
  <2>3. work'[w] = new
    BY <2>1 DEF Types
  <2> HIDE DEF new
  <2>4. ~OnFile(w)'
    BY <2>2, <2>3 DEF OnFile, FilePlaces
  <2>5. QED
    BY <2>2, <2>3, <2>4 DEF Alone
<1>4. CASE Lands(w)
  <2>1. ~work'[w].slow /\ work'[w].event = work[w].event
    BY <1>4 DEF Lands, Keeps, Alone
  <2>2. CASE ~OnFile(w)'
    BY <2>1, <2>2 DEF Alone
  <2>3. CASE OnFile(w)'
    <3>1. work'[w].i = work[w].i /\ (OnFile(w) \/ At(w, "nextFile"))
      BY <1>4, <2>3 DEF Lands, Hand
    <3>2. FileAt(w)' = FileAt(w)
      BY <2>1, <3>1 DEF FileAt
    <3>3. CASE At(w, "nextFile")
      <4>1. /\ FileAt(w) \in Files
            /\ file' = [file EXCEPT ![FileAt(w)] =
                           [status |-> "processing", owner |-> w, lapsed |-> FALSE]]
        BY <2>3, <3>3, TakesFile DEF Prudent
      <4>2. file'[FileAt(w)] = [status |-> "processing", owner |-> w, lapsed |-> FALSE]
        BY <4>1 DEF Types
      <4>3. QED
        BY <2>1, <3>2, <4>2 DEF Alone, OwnsFile
    <3>4. CASE OnFile(w) /\ ~At(w, "nextFile")
      <4>1. ~CompleteFile(w) /\ ~ReleaseFile(w) /\ ~NextFile(w)
        BY <2>3, <3>4, LeavesFile DEF NextFile
      <4>2. file' = file
        BY <4>1, FileWriters
      <4>3. QED
        BY <2>1, <3>2, <3>4, <4>2 DEF Alone, OwnsFile
    <3>5. QED
      BY <3>1, <3>3, <3>4
  <2>4. QED
    BY <2>2, <2>3
<1>5. QED
  BY <1>1, <1>2, <1>3, <1>4, OnTheWay DEF Step, Done, Retry, Contend

\* The places of an envelope are reached only by its own steps.
LEMMA EnvelopePlaces ==
    ASSUME Types, NEW w \in Workers, Step(w), Prudent,
           work'[w].pc \in {"enqueue", "newRun", "persist", "conflict"}
    PROVE  LookRun(w) \/ Enqueue(w) \/ NewRun(w) \/ Persist(w)
<1> DEFINE E == {"enqueue", "newRun", "persist", "conflict"}
<1>1. work[w] \in Work
  BY DEF Types
<1>2. ASSUME NEW pc \in Places \ E, Goto(w, pc)
      PROVE  FALSE
  BY <1>2, GotoEffect
<1>3. ~Finish(w)
  BY FinishEffect, IdleFields
<1>4. ~Slow(w) /\ ~NewRunFails(w)
  BY DEF Slow, NewRunFails, Fault, Prudent
<1>5. ~Fetch(w) /\ ~FetchRefused(w) /\ ~FileRaises(w) /\ ~Reject(w) /\ ~Receipt(w)
  BY <1>2 DEF Fetch, FetchRefused, FileRaises, Reject, Receipt, Places, FilePlaces
<1>6. ~Drained(w) /\ ~Refuse(w) /\ ~QueueFailed(w) /\ ~ReleaseFile(w)
  BY <1>2 DEF Drained, Refuse, QueueFailed, ReleaseFile, Places, FilePlaces
<1>7. ~Done(w) /\ ~Retry(w) /\ ~Contend(w) /\ ~Crash(w)
  BY <1>3 DEF Done, Retry, Contend, Crash
<1>8. ~Outage(w)
  <2>1. "unqueued" \in Places \ E /\ "releaseFile" \in Places \ E /\ "retry" \in Places \ E
    BY DEF Places, FilePlaces
  <2>2. QED
    BY <1>2, <1>3, <2>1 DEF Outage
<1>9. ~Drain(w) /\ ~Publish(w) /\ ~PublishUnconfirmed(w) /\ ~Mark(w) /\ ~Unmark(w)
  <2>1. ASSUME NEW items, NEW item,
               \/ work' = [work EXCEPT ![w].pc = "publish", ![w].items = items]
               \/ work' = [work EXCEPT ![w].pc = "publish", ![w].item = item, ![w].items = items]
        PROVE  FALSE
    BY <1>1, <2>1 DEF Types, Work
  <2>2. Publish(w) \/ PublishUnconfirmed(w) => work'[w].pc \in {"mark", "unmark"}
    BY <1>1 DEF Publish, PublishUnconfirmed, Types, Work
  <2>3. ~Drain(w) /\ ~Mark(w) /\ ~Unmark(w)
    BY <2>1 DEF Drain, Mark, Unmark, NextItem
  <2>4. QED
    BY <2>2, <2>3
<1>10. ~ClaimEvent(w) /\ ~Begin(w) /\ ~LookExec(w)
  <2>1. ASSUME NEW e, NEW n, work' = [work EXCEPT ![w] = [Idle EXCEPT !.pc = "begin", !.event = e, !.attempts = n]]
        PROVE  FALSE
    <3> DEFINE new == [Idle EXCEPT !.pc = "begin", !.event = e, !.attempts = n]
    <3>1. new.pc = "begin"
      BY IdleFields DEF Work
    <3>2. work'[w] = new
      BY <2>1 DEF Types
    <3> HIDE DEF new
    <3>3. QED
      BY <3>1, <3>2
  <2>2. ~ClaimEvent(w)
    BY <1>3, <2>1 DEF ClaimEvent
  <2>3. Begin(w) => work'[w].pc = "nextFile"
    BY <1>1 DEF Begin, Types, Work
  <2>4. LookExec(w) => work'[w].pc = "lookRun"
    BY <1>1 DEF LookExec, Types, Work
  <2>5. QED
    BY <2>2, <2>3, <2>4
<1>11. ~NextFile(w) /\ ~CompleteFile(w)
  <2>1. CompleteFile(w) => work'[w].pc \in {"nextFile", "contend"}
    BY <1>1 DEF CompleteFile, Goto, Types, Work
  <2>2. work' = [work EXCEPT ![w].i = @ + 1,
                             ![w].busy = @ \/ file[FileAt(w)].status # "completed"]
           => work'[w].pc = work[w].pc
    BY <1>1 DEF Types, Work
  <2>3. "fetch" \in Places \ E /\ "contend" \in Places \ E /\ "done" \in Places \ E
    BY DEF Places, FilePlaces
  <2>4. ~NextFile(w)
    BY <1>2, <2>2, <2>3 DEF NextFile, At
  <2>5. QED
    BY <2>1, <2>4
<1>12. QED
  BY <1>4, <1>5, <1>6, <1>7, <1>8, <1>9, <1>10, <1>11 DEF Step, Intake, IntakeFault

LEMMA OwnEnvelope ==
    ASSUME Types, WorkersFit, NEW w \in Workers, SameEnvelope(w), OneRun, Step(w), Prudent
    PROVE  SameEnvelope(w)'
<1> DEFINE f == FileAt(w)
<1>1. work[w] \in Work /\ Fits(w)
  BY DEF Types, WorkersFit
<1>2. CASE work'[w].pc \notin {"enqueue", "newRun", "persist", "conflict"}
  BY <1>2 DEF SameEnvelope, At
<1>3. ASSUME LookRun(w) \/ Enqueue(w) \/ NewRun(w) \/ Persist(w)
      PROVE  FileAt(w) \in Files /\ runs[FileAt(w)] \in Nat
  <2>1. OnFile(w)
    BY <1>3 DEF OnFile, LookRun, Enqueue, NewRun, Persist, At, FilePlaces
  <2>2. FileAt(w) \in Files
    BY <1>1, <2>1, InHand
  <2>3. QED
    BY <2>2 DEF Types
<1>4. CASE LookRun(w)
  <2>1. PICK pc \in {"completeFile", "enqueue"} :
           work' = [work EXCEPT ![w].run = runs[FileAt(w)], ![w].pc = pc]
    BY <1>4 DEF LookRun
  <2>2. /\ work'[w].pc = pc /\ work'[w].run = runs[FileAt(w)]
        /\ work'[w].event = work[w].event /\ work'[w].i = work[w].i
    BY <1>1, <2>1 DEF Types, Work
  <2>3. FileAt(w)' = FileAt(w) /\ runs' = runs
    BY <1>4, <2>2 DEF FileAt, LookRun
  <2>4. QED
    BY <2>2, <2>3 DEF SameEnvelope, At
<1>5. CASE Enqueue(w)
  <2>1. PICK pc \in {"newRun", "persist"} :
           Goto(w, pc) /\ (pc = "newRun" <=> work[w].run = 0)
    BY <1>5 DEF Enqueue
  <2>2. /\ work'[w].pc = pc /\ work'[w].run = work[w].run
        /\ work'[w].event = work[w].event /\ work'[w].i = work[w].i
    BY <2>1, GotoEffect DEF Places, FilePlaces
  <2>3. FileAt(w)' = FileAt(w) /\ runs' = runs /\ work[w].run = runs[FileAt(w)]
    BY <1>5, <2>2 DEF FileAt, Enqueue, SameEnvelope
  <2>4. runs[FileAt(w)] \in {0, 1}
    BY <1>3, <1>5 DEF OneRun
  <2>5. QED
    BY <2>1, <2>2, <2>3, <2>4 DEF SameEnvelope, At
<1>6. CASE NewRun(w)
  <2>1. runs[FileAt(w)] + 1 = 1
    BY <1>6 DEF NewRun, SameEnvelope
  <2>2. work'[w].pc = "persist" /\ work'[w].run = runs[FileAt(w)] + 1
    BY <1>1, <1>6 DEF NewRun, Types, Work
  <2>3. QED
    BY <2>1, <2>2 DEF SameEnvelope, At
<1>7. CASE Persist(w)
  <2>1. work[w].run = 1
    BY <1>7 DEF Persist, SameEnvelope
  <2>2. job'[FileAt(w)].run = work[w].run
    <3>1. job[FileAt(w)].status # "absent" => job[FileAt(w)].run = 1
      BY <1>3, <1>7 DEF OneRun
    <3>2. QED
      BY <1>7, <2>1, <3>1, PersistInHand
  <2>3. Goto(w, "drain")
    BY <1>7, <2>2 DEF Persist
  <2>4. work'[w].pc = "drain"
    BY <2>3, GotoEffect DEF Places, FilePlaces
  <2>5. QED
    BY <2>4 DEF SameEnvelope, At
<1>8. QED
  BY <1>2, <1>4, <1>5, <1>6, <1>7, EnvelopePlaces

LEMMA EnvelopeStep ==
    ASSUME Inv, Inv', Prudent, Sole, Next
    PROVE  Sole'
<1>1. Types /\ WorkersFit /\ Persisted /\ Grows /\ OneRun
  BY GrowsStep DEF Inv, FlowInv, Sole
<1>2. \A w \in Workers : OnFile(w) => FileAt(w) \in Files
  BY <1>1, InHand DEF WorkersFit
<1>3. ASSUME NEW w \in Workers, Step(w)
      PROVE  Sole'
  <2>1. Fits(w) /\ Told(w) /\ Passed(w) /\ Alone(w) /\ SameEnvelope(w)
    BY <1>1 DEF WorkersFit, Sole
  <2>2. Alone(w)' /\ SameEnvelope(w)'
    BY <1>1, <1>3, <2>1, StaysAlone, OwnEnvelope
  <2>3. Stands(w)
    BY <1>1, <1>3, <2>1, WorkerStands, AttemptsAffordable DEF Step, Inv, AttemptsInv
  <2>4. ASSUME NewRun(w)
        PROVE  OnFile(w) /\ FileAt(w) \in Files /\ runs[FileAt(w)] = 0
               /\ runs' = [runs EXCEPT ![FileAt(w)] = 1]
    <3>1. OnFile(w)
      BY <2>4 DEF OnFile, NewRun, At, FilePlaces
    <3>2. runs[FileAt(w)] = 0
      BY <2>1, <2>4 DEF NewRun, SameEnvelope
    <3>3. QED
      BY <1>2, <2>4, <3>1, <3>2 DEF NewRun
  <2>5. ASSUME NEW o \in Workers \ {w}
        PROVE  Alone(o)' /\ SameEnvelope(o)'
    <3>1. Alone(o) /\ SameEnvelope(o) /\ work'[o] = work[o]
      BY <2>3 DEF Sole, Stands
    <3>2. (OnFile(o)' <=> OnFile(o)) /\ FileAt(o)' = FileAt(o)
      BY <3>1 DEF OnFile, FileAt
    <3>3. CASE ~OnFile(o)
      BY <3>1, <3>2, <3>3 DEF Alone, SameEnvelope, OnFile, At, FilePlaces
    <3>4. CASE OnFile(o)
      <4>1. file'[FileAt(o)] = file[FileAt(o)]
        BY <1>1, <1>2, <1>3, <3>1, <3>4, LeasesKept
      <4>2. runs'[FileAt(o)] = runs[FileAt(o)]
        <5>1. CASE NewRun(w)
          <6>1. FileAt(w) # FileAt(o)
            BY <2>1, <2>4, <3>1, <3>4, <5>1, Exclusive
          <6>2. QED
            BY <1>1, <1>2, <2>4, <3>4, <5>1, <6>1 DEF Types
        <5>2. CASE runs' = runs
          BY <5>2
        <5>3. QED
          BY <1>3, <5>1, <5>2, ReviewWriters
      <4>3. Alone(o)'
        BY <3>1, <3>2, <4>1 DEF Alone, OwnsFile
      <4>4. SameEnvelope(o)'
        BY <3>1, <3>2, <4>2 DEF SameEnvelope, At
      <4>5. QED
        BY <4>3, <4>4
    <3>5. QED
      BY <3>3, <3>4
  <2>6. \A f \in Files : runs'[f] <= 1
    <3>1. CASE NewRun(w)
      BY <1>1, <2>4, <3>1 DEF OneRun, Types
    <3>2. CASE runs' = runs
      BY <1>1, <3>2 DEF OneRun
    <3>3. QED
      BY <1>3, <3>1, <3>2, ReviewWriters
  <2>7. \A f \in Files : job'[f].status # "absent" => job'[f].run = 1
    <3>1. CASE SameJobs
      BY <1>1, <3>1 DEF SameJobs, OneRun
    <3>2. CASE Persist(w)
      <4>1. work[w].run = 1
        BY <2>1, <3>2 DEF SameEnvelope, Persist
      <4>2. QED
        BY <1>1, <3>2, <4>1, PersistInHand DEF OneRun
    <3>3. QED
      BY <1>1, <1>3, <2>1, <3>1, <3>2, JobWriters, DrainJobs, MarkJobs, UnchangedJobs
  <2>8. QED
    BY <2>2, <2>5, <2>6, <2>7 DEF Sole, OneRun
<1>4. CASE Elsewhere
  <2>1. work' = work /\ runs' = runs
    BY <1>4, ElsewhereWorkers
  <2>2. SameJobs
    <3>1. CASE \E f \in Files : LapseJob(f) \/ JobComesDue(f)
      BY <1>1, <3>1, TimeJobs
    <3>2. CASE job' = job
      BY <1>1, <3>2, UnchangedJobs
    <3>3. QED
      BY <1>4, <3>1, <3>2 DEF Elsewhere, Receive, LapseEvent, EventComesDue, Consume, Conclude,
         Discard, AttemptFails, LapseFile
  <2>3. OneRun'
    BY <1>1, <2>1, <2>2 DEF SameJobs, OneRun
  <2>4. ASSUME NEW o \in Workers
        PROVE  Alone(o)' /\ SameEnvelope(o)'
    <3>1. Alone(o) /\ SameEnvelope(o)
      BY DEF Sole
    <3>2. (OnFile(o)' <=> OnFile(o)) /\ FileAt(o)' = FileAt(o)
      BY <2>1 DEF OnFile, FileAt
    <3>3. SameEnvelope(o)'
      BY <2>1, <3>1, <3>2 DEF SameEnvelope, At
    <3>4. CASE ~OnFile(o)
      BY <2>1, <3>1, <3>2, <3>3, <3>4 DEF Alone
    <3>5. CASE OnFile(o)
      <4>1. work[o].event \in Events /\ FileAt(o) \in Files
        BY <1>1, <3>5, InHand DEF WorkersFit
      <4>2. FileHeld(FileAt(o))
        BY <3>1, <3>5, <4>1, IntakeAssumption DEF FileHeld, Alone, OwnsFile, OnFile
      <4>3. file'[FileAt(o)] = file[FileAt(o)]
        <5>1. CASE \E f \in Files : LapseFile(f)
          BY <1>1, <4>1, <4>2, <5>1 DEF LapseFile, Types
        <5>2. CASE file' = file
          BY <5>2
        <5>3. QED
          BY <1>4, <5>1, <5>2 DEF Elsewhere, Receive, LapseEvent, EventComesDue, Consume,
             Conclude, Discard, AttemptFails, LapseJob, JobComesDue
      <4>4. QED
        BY <2>1, <3>1, <3>2, <3>3, <4>3 DEF Alone, OwnsFile
    <3>6. QED
      BY <3>4, <3>5
  <2>5. QED
    BY <2>3, <2>4 DEF Sole
<1>5. QED
  BY <1>3, <1>4, NextSplit

\* Without overrun leases and lost metrics runs, at most one worker has an
\* attachment in hand, and all envelopes built for it are the same.
THEOREM EnvelopeInvariant == Spec => []EnvelopeInv
<1>1. Init => EnvelopeInv
  <2> SUFFICES ASSUME Init
               PROVE  Sole
    BY DEF EnvelopeInv
  <2>1. \A w \in Workers : work[w].pc = "idle" /\ work[w].event = NoEvent /\ ~work[w].slow
    BY IdleFields DEF Init
  <2>2. \A w \in Workers : Alone(w) /\ SameEnvelope(w)
    BY <2>1 DEF Alone, SameEnvelope, OnFile, At, FilePlaces
  <2>3. OneRun
    BY DEF Init, OneRun
  <2>4. QED
    BY <2>2, <2>3 DEF Sole
<1>2. Inv /\ Inv' /\ EnvelopeInv /\ [Next]_vars => EnvelopeInv'
  <2> SUFFICES ASSUME Inv, Inv', Prudent, Sole, [Next]_vars
               PROVE  Sole'
    BY DEF EnvelopeInv, Prudent
  <2>1. CASE Next
    BY <2>1, EnvelopeStep
  <2>2. CASE UNCHANGED vars
    BY <2>2 DEF vars, Sole, OneRun, Alone, SameEnvelope, OnFile, OwnsFile, At, FileAt
  <2>3. QED
    BY <2>1, <2>2
<1>3. QED
  BY <1>1, <1>2, IntakeInvariant, PTL DEF Spec

\* persist_review_job refuses no envelope then, whatever crashes, outages and
\* unconfirmed publishes there are.
THEOREM EnvelopeIsStableHolds == Spec => []EnvelopeIsStable
<1>1. EnvelopeInv => EnvelopeIsStable
  BY DEF EnvelopeInv, Prudent, Sole, SameEnvelope, EnvelopeIsStable
<1>2. QED
  BY <1>1, EnvelopeInvariant, PTL

-----------------------------------------------------------------------------
(* The abstract specification *)

Reviewed(f) == {<<f, "review">>, <<f, "failure">>} \cap replies # {}

\* The reply and the completed execution are one transaction.
ReviewedIsClosed == \A f \in Files : Reviewed(f) <=> exec[f] = "completed"

\* The disjuncts of the abstract next-state relation.
LEMMA PromiseMoves ==
    ASSUME NEW f \in Files, Promise!Accept(f) \/ Promise!Conclude(f)
    PROVE  Promise!Next
BY DEF Promise!Next

\* Neither the outbox nor a review moves.
LEMMA PromiseIdles ==
    ASSUME SameJobs, \A f \in Files : Reviewed(f)' <=> Reviewed(f), 
           \A f \in Files : exec'[f] = "completed" <=> exec[f] = "completed"
    PROVE  UNCHANGED Promise!vars
<1>1. {f \in Files : job[f].status # "absent"}' = {f \in Files : job[f].status # "absent"}
  BY DEF SameJobs
<1>2. {f \in Files : Reviewed(f)}' = {f \in Files : Reviewed(f)}
  OBVIOUS
<1>3. {f \in Files : exec[f] = "completed"}' = {f \in Files : exec[f] = "completed"}
  OBVIOUS
<1>4. QED
  BY <1>1, <1>2, <1>3 DEF Promise!vars, Reviewed

\* An intake worker answers nobody with a review.
LEMMA IntakeReviewsNothing ==
    ASSUME NEW w \in Workers, Step(w), NEW f \in Files
    PROVE  Reviewed(f)' <=> Reviewed(f)
<1>1. ASSUME NEW key, NEW kind \in {"receipt", "rejection"}, QueueReply(key, kind)
      PROVE  Reviewed(f)' <=> Reviewed(f)
  <2>1. replies' = replies \cup {<<key, kind>>}
    BY <1>1 DEF QueueReply
  <2>2. <<f, "review">> # <<key, kind>> /\ <<f, "failure">> # <<key, kind>>
    OBVIOUS
  <2>3. QED
    BY <2>1, <2>2 DEF Reviewed
<1>2. \/ replies' = replies
      \/ QueueReply(work[w].event, "rejection")
      \/ QueueReply(FileAt(w), "rejection")
      \/ QueueReply(FileAt(w), "receipt")
  BY ReplyWriters DEF Refuse, Retry, Reject, Receipt
<1>3. CASE replies' = replies
  BY <1>3 DEF Reviewed
<1>4. QED
  BY <1>1, <1>2, <1>3

\* persist_review_job of a new job is an Accept.
LEMMA PersistIsAccept ==
    ASSUME Types, WorkersFit, NEW w \in Workers, Persist(w)
    PROVE  Promise!Next \/ UNCHANGED Promise!vars
<1>1. PICK f \in Files : f = FileAt(w)
  BY PersistInHand
<1>2. /\ job' \in [Files -> Job] /\ job'[f].status # "absent"
      /\ \A g \in Files \ {f} : job'[g] = job[g]
      /\ job[f].status # "absent" => job' = job
  BY <1>1, PersistInHand
<1>3. Step(w)
  BY DEF Step, Intake
<1>4. /\ \A g \in Files : Reviewed(g)' <=> Reviewed(g)
      /\ exec' = exec
  BY <1>3, IntakeReviewsNothing, ReviewWriters
<1>5. CASE job[f].status # "absent"
  BY <1>2, <1>4, <1>5, PromiseIdles, UnchangedJobs
<1>6. CASE job[f].status = "absent"
  <2>1. f \notin {g \in Files : job[g].status # "absent"}
    BY <1>6
  <2>2. {g \in Files : job[g].status # "absent"}' = {g \in Files : job[g].status # "absent"} \cup {f}
    BY <1>2
  <2>3. {g \in Files : Reviewed(g)}' = {g \in Files : Reviewed(g)}
    BY <1>4
  <2>4. Promise!Accept(f)
    BY <1>4, <2>1, <2>2, <2>3 DEF Promise!Accept, Reviewed
  <2>5. QED
    BY <2>4, PromiseMoves
<1>7. QED
  BY <1>5, <1>6

LEMMA ConcludeIsConclude ==
    ASSUME Types, Persisted, ReviewedIsClosed, NEW f \in Files, Conclude(f)
    PROVE  Promise!Conclude(f) /\ ReviewedIsClosed'
<1>1. exec[f] = "processing" /\ job[f].status # "absent" /\ ~Reviewed(f)
  BY DEF Conclude, Persisted, ReviewedIsClosed
<1>2. PICK kind \in {"review", "failure"} : replies' = replies \cup {<<f, kind>>}
  BY DEF Conclude, QueueReply
<1>3. exec'[f] = "completed" /\ \A g \in Files \ {f} : exec'[g] = exec[g]
  BY DEF Conclude, Types
<1>4. Reviewed(f)'
  BY <1>2 DEF Reviewed
<1>5. \A g \in Files \ {f} : Reviewed(g)' <=> Reviewed(g)
  BY <1>2 DEF Reviewed
<1>6. ReviewedIsClosed'
  BY <1>3, <1>4, <1>5 DEF ReviewedIsClosed
<1>7. {g \in Files : Reviewed(g)}' = {g \in Files : Reviewed(g)} \cup {f}
  BY <1>4, <1>5
<1>8. {g \in Files : exec[g] = "completed"}' = {g \in Files : exec[g] = "completed"} \cup {f}
  BY <1>3
<1>9. job' = job
  BY DEF Conclude
<1>10. Promise!Conclude(f)
  BY <1>1, <1>7, <1>8, <1>9 DEF Promise!Conclude, Reviewed
<1>11. QED
  BY <1>6, <1>10

\* The other steps of the contract workers, the database and the clock.
LEMMA ElsewhereIdles ==
    ASSUME Types, Elsewhere, \A f \in Files : ~Conclude(f)
    PROVE  /\ SameJobs /\ replies' = replies
           /\ \A f \in Files : exec'[f] = "completed" <=> exec[f] = "completed"
<1>1. SameJobs
  <2>1. CASE \E f \in Files : LapseJob(f) \/ JobComesDue(f)
    BY <2>1, TimeJobs
  <2>2. CASE job' = job
    BY <2>2, UnchangedJobs
  <2>3. QED
    BY <2>1, <2>2 DEF Elsewhere, Receive, LapseEvent, EventComesDue, Consume, Discard,
       AttemptFails, LapseFile
<1>2. replies' = replies
  BY DEF Elsewhere, Receive, LapseEvent, EventComesDue, Consume, Discard, AttemptFails,
     LapseFile, LapseJob, JobComesDue
<1>3. \/ exec' = exec
      \/ \E f \in Files : \E new \in {"processing", "pending"} :
            exec[f] # "completed" /\ exec' = [exec EXCEPT ![f] = new]
  BY DEF Elsewhere, Receive, LapseEvent, EventComesDue, Consume, Discard, AttemptFails,
     LapseFile, LapseJob, JobComesDue, reviewing
<1>4. \A f \in Files : exec'[f] = "completed" <=> exec[f] = "completed"
  BY <1>3 DEF Types
<1>5. QED
  BY <1>1, <1>2, <1>4

LEMMA PromiseStep ==
    ASSUME Inv, ReviewedIsClosed, [Next]_vars
    PROVE  ReviewedIsClosed' /\ [Promise!Next]_(Promise!vars)
<1>1. Types /\ WorkersFit /\ Persisted
  BY DEF Inv, FlowInv
<1>2. ASSUME \A f \in Files : Reviewed(f)' <=> Reviewed(f),
             \A f \in Files : exec'[f] = "completed" <=> exec[f] = "completed"
      PROVE  ReviewedIsClosed'
  BY <1>2 DEF ReviewedIsClosed
<1>3. ASSUME NEW w \in Workers, Step(w)
      PROVE  ReviewedIsClosed' /\ [Promise!Next]_(Promise!vars)
  <2>1. /\ \A f \in Files : Reviewed(f)' <=> Reviewed(f)
        /\ exec' = exec
    BY <1>3, IntakeReviewsNothing, ReviewWriters
  <2>2. CASE Persist(w)
    BY <1>1, <1>2, <2>1, <2>2, PersistIsAccept
  <2>3. CASE SameJobs
    BY <1>2, <2>1, <2>3, PromiseIdles
  <2>4. Fits(w)
    BY <1>1 DEF WorkersFit
  <2>5. QED
    BY <1>1, <1>3, <2>2, <2>3, <2>4, JobWriters, DrainJobs, MarkJobs, UnchangedJobs
<1>4. ASSUME NEW f \in Files, Conclude(f)
      PROVE  ReviewedIsClosed' /\ [Promise!Next]_(Promise!vars)
  BY <1>1, <1>4, ConcludeIsConclude, PromiseMoves
<1>5. CASE Elsewhere /\ \A f \in Files : ~Conclude(f)
  <2>1. /\ SameJobs /\ replies' = replies
        /\ \A f \in Files : exec'[f] = "completed" <=> exec[f] = "completed"
    BY <1>1, <1>5, ElsewhereIdles
  <2>2. \A f \in Files : Reviewed(f)' <=> Reviewed(f)
    BY <2>1 DEF Reviewed
  <2>3. QED
    BY <1>2, <2>1, <2>2, PromiseIdles
<1>6. CASE UNCHANGED vars
  BY <1>6 DEF vars, Promise!vars, ReviewedIsClosed, Reviewed
<1>7. QED
  BY <1>3, <1>4, <1>5, <1>6, NextSplit

\* The intake, its outbox and the broker keep the promise of the pipeline:
\* only a job that persist_review_job committed is ever reviewed, it is
\* answered once, with the completion of its execution, and what is accepted,
\* answered or closed stays so.  This is the safety half of ImplementsPromise.
THEOREM PromiseIsKept == Spec => Promise!Init /\ [][Promise!Next]_(Promise!vars)
<1>1. ASSUME Init
      PROVE  ReviewedIsClosed /\ Promise!Init
  BY <1>1 DEF Init, ReviewedIsClosed, Reviewed, Promise!Init
<1>2. Inv /\ ReviewedIsClosed /\ [Next]_vars => ReviewedIsClosed' /\ [Promise!Next]_(Promise!vars)
  BY PromiseStep
<1>3. QED
  BY <1>1, <1>2, IntakeInvariant, PTL DEF Spec

-----------------------------------------------------------------------------
(* What was published is not lost *)

\* A copy is at the broker, or a contract worker has begun with the job.
Carried(f) == queue[f] > 0 \/ exec[f] \in {"processing", "completed"}

CarriedInv ==
    /\ \A f \in Files : job[f].status = "published" => Carried(f)
    /\ \A w \in Workers : At(w, "mark") => Carried(work[w].item)

\* Only a copy that is followed by the next one leaves the broker.
LEMMA CarriedStays ==
    ASSUME Types, Next, NEW f \in Files, Carried(f)
    PROVE  Carried(f)'
<1>1. queue \in [Files -> Nat] /\ exec \in [Files -> ExecStatuses]
  BY DEF Types
<1>2. ASSUME NEW w \in Workers, Step(w)
      PROVE  Carried(f)'
  <2>1. exec' = exec /\ (queue' = queue \/ \E g \in Files : queue' = [queue EXCEPT ![g] = @ + 1])
    <3>1. work[w].items \subseteq Files
      BY DEF Types, Work
    <3>2. QED
      BY <1>2, <3>1, ReviewWriters DEF Publish, PublishUnconfirmed
  <2>2. CASE queue' = queue
    BY <2>1, <2>2 DEF Carried
  <2>3. ASSUME NEW g \in Files, queue' = [queue EXCEPT ![g] = @ + 1]
        PROVE  Carried(f)'
    BY <1>1, <2>1, <2>3 DEF Carried
  <2>4. QED
    BY <2>1, <2>2, <2>3
<1>3. ASSUME NEW g \in Files, Consume(g) \/ Conclude(g) \/ Discard(g) \/ AttemptFails(g)
      PROVE  Carried(f)'
  <2>1. CASE Consume(g)
    BY <1>1, <2>1 DEF Consume, Carried
  <2>2. CASE Conclude(g)
    BY <1>1, <2>2 DEF Conclude, Carried
  <2>3. CASE Discard(g)
    BY <1>1, <2>3 DEF Discard, Carried
  <2>4. CASE AttemptFails(g)
    BY <1>1, <2>4 DEF AttemptFails, Carried
  <2>5. QED
    BY <1>3, <2>1, <2>2, <2>3, <2>4
<1>4. CASE exec' = exec /\ queue' = queue
  BY <1>4 DEF Carried
<1>5. QED
  BY <1>2, <1>3, <1>4, NextSplit DEF Elsewhere, Receive, LapseEvent, EventComesDue, LapseFile,
     LapseJob, JobComesDue, reviewing

\* Only Mark makes a row published.
LEMMA PublishedByMark ==
    ASSUME Types, WorkersFit, Next, NEW f \in Files, job'[f].status = "published",
           job[f].status # "published"
    PROVE  \E w \in Workers : At(w, "mark") /\ work[w].item = f
<1>1. job \in [Files -> Job]
  BY DEF Types
<1>2. ASSUME NEW w \in Workers, Step(w)
      PROVE  At(w, "mark") /\ work[w].item = f
  <2>1. ~Drain(w)
    <3> DEFINE taken == [job[f] EXCEPT !.status = "publishing", !.owner = w, !.lapsed = FALSE]
    <3>1. taken.status = "publishing"
      BY <1>1 DEF Job
    <3>2. Drain(w) => job'[f] \in {taken, job[f]}
      BY DEF Drain
    <3> HIDE DEF taken
    <3>3. QED
      BY <3>1, <3>2
  <2>2. ~Persist(w)
    <3>1. ASSUME NEW g \in Files, NEW n,
                 job' = [job EXCEPT ![g].status = "pending", ![g].run = n]
          PROVE  job'[f].status \in {"pending", job[f].status}
      BY <1>1, <3>1 DEF Job
    <3>2. Persist(w) => FileAt(w) \in Files
      BY PersistInHand
    <3>3. QED
      BY <3>1, <3>2 DEF Persist
  <2>3. Mark(w) \/ Unmark(w) => work[w].item \in Files
    BY DEF Mark, Unmark, At, WorkersFit, Fits, Types, Work
  <2>4. ~Unmark(w)
    <3>1. ASSUME NEW g \in Files,
                 job' = [job EXCEPT ![g].status = "pending", ![g].owner = NoWorker, ![g].due = FALSE]
          PROVE  job'[f].status \in {"pending", job[f].status}
      BY <1>1, <3>1 DEF Job
    <3>2. QED
      BY <2>3, <3>1 DEF Unmark
  <2>5. Mark(w)
    BY <1>2, <2>1, <2>2, <2>4, JobWriters
  <2>6. work[w].item = f
    <3>1. ASSUME NEW g \in Files, g # f,
                 job' = [job EXCEPT ![g].status = "published", ![g].owner = NoWorker]
          PROVE  FALSE
      BY <1>1, <3>1
    <3>2. QED
      BY <2>3, <2>5, <3>1 DEF Mark
  <2>7. QED
    BY <2>5, <2>6 DEF Mark
<1>3. ASSUME NEW g \in Files, LapseJob(g) \/ JobComesDue(g)
      PROVE  FALSE
  <2>1. job' = [job EXCEPT ![g].lapsed = TRUE] \/ job' = [job EXCEPT ![g].due = TRUE]
    BY <1>3 DEF LapseJob, JobComesDue
  <2>2. job'[f].status = job[f].status
    BY <1>1, <2>1 DEF Job
  <2>3. QED
    BY <2>2
<1>4. QED
  BY <1>2, <1>3, NextSplit DEF Elsewhere, Receive, LapseEvent, EventComesDue, Consume, Conclude,
     Discard, AttemptFails, LapseFile

\* A worker comes to mark only from a confirmed publish.
LEMMA MarkPlace ==
    ASSUME Types, NEW w \in Workers, Step(w), work'[w].pc = "mark"
    PROVE  Publish(w) \/ Slow(w)
<1>1. work[w] \in Work
  BY DEF Types
<1>2. ASSUME NEW pc \in Places \ {"mark"}, Goto(w, pc)
      PROVE  FALSE
  BY <1>2, GotoEffect
<1>3. ~Finish(w)
  BY FinishEffect, IdleFields
<1>4. ~Fetch(w) /\ ~FetchRefused(w) /\ ~FileRaises(w) /\ ~Reject(w) /\ ~Receipt(w)
  BY <1>2 DEF Fetch, FetchRefused, FileRaises, Reject, Receipt, Places, FilePlaces
<1>5. ~Drained(w) /\ ~Refuse(w) /\ ~QueueFailed(w) /\ ~ReleaseFile(w) /\ ~NewRunFails(w)
  BY <1>2 DEF Drained, Refuse, QueueFailed, ReleaseFile, NewRunFails, Places, FilePlaces
<1>6. ~Done(w) /\ ~Retry(w) /\ ~Contend(w) /\ ~Crash(w)
  BY <1>3 DEF Done, Retry, Contend, Crash
<1>7. ~Outage(w)
  <2>1. "unqueued" \in Places \ {"mark"} /\ "releaseFile" \in Places \ {"mark"}
        /\ "retry" \in Places \ {"mark"}
    BY DEF Places, FilePlaces
  <2>2. QED
    BY <1>2, <1>3, <2>1 DEF Outage
<1>8. ~Drain(w) /\ ~PublishUnconfirmed(w) /\ ~Mark(w) /\ ~Unmark(w)
  <2>1. ASSUME NEW items, NEW item,
               \/ work' = [work EXCEPT ![w].pc = "publish", ![w].items = items]
               \/ work' = [work EXCEPT ![w].pc = "publish", ![w].item = item, ![w].items = items]
        PROVE  FALSE
    BY <1>1, <2>1 DEF Types, Work
  <2>2. PublishUnconfirmed(w) => work'[w].pc = "unmark"
    BY <1>1 DEF PublishUnconfirmed, Types, Work
  <2>3. ~Drain(w) /\ ~Mark(w) /\ ~Unmark(w)
    BY <2>1 DEF Drain, Mark, Unmark, NextItem
  <2>4. QED
    BY <2>2, <2>3
<1>9. ~ClaimEvent(w) /\ ~Begin(w)
  <2>1. ASSUME NEW e, NEW n, work' = [work EXCEPT ![w] = [Idle EXCEPT !.pc = "begin", !.event = e, !.attempts = n]]
        PROVE  FALSE
    <3> DEFINE new == [Idle EXCEPT !.pc = "begin", !.event = e, !.attempts = n]
    <3>1. new.pc = "begin"
      BY IdleFields DEF Work
    <3>2. work'[w] = new
      BY <2>1 DEF Types
    <3> HIDE DEF new
    <3>3. QED
      BY <3>1, <3>2
  <2>2. ~ClaimEvent(w)
    BY <1>3, <2>1 DEF ClaimEvent
  <2>3. Begin(w) => work'[w].pc = "nextFile"
    BY <1>1 DEF Begin, Types, Work
  <2>4. QED
    BY <2>2, <2>3
<1>10. ~LookExec(w) /\ ~LookRun(w) /\ ~Enqueue(w) /\ ~NewRun(w) /\ ~Persist(w)
  <2>1. LookExec(w) => work'[w].pc = "lookRun"
    BY <1>1 DEF LookExec, Types, Work
  <2>2. ASSUME NEW n, NEW pc \in Places \ {"mark"},
               \/ work' = [work EXCEPT ![w].run = n, ![w].pc = pc]
        PROVE  FALSE
    BY <1>1, <2>2 DEF Types, Work
  <2>3. {"completeFile", "enqueue", "persist", "newRun", "drain", "conflict"} \subseteq Places \ {"mark"}
    BY DEF Places, FilePlaces
  <2>4. ~LookRun(w) /\ ~NewRun(w)
    BY <2>2, <2>3 DEF LookRun, NewRun
  <2>5. ~Enqueue(w) /\ ~Persist(w)
    BY <1>2, <2>3 DEF Enqueue, Persist
  <2>6. QED
    BY <2>1, <2>4, <2>5
<1>11. ~NextFile(w) /\ ~CompleteFile(w)
  <2>1. CompleteFile(w) => work'[w].pc \in {"nextFile", "contend"}
    BY <1>1 DEF CompleteFile, Goto, Types, Work
  <2>2. work' = [work EXCEPT ![w].i = @ + 1,
                             ![w].busy = @ \/ file[FileAt(w)].status # "completed"]
           => work'[w].pc = work[w].pc
    BY <1>1 DEF Types, Work
  <2>3. "fetch" \in Places \ {"mark"} /\ "contend" \in Places \ {"mark"} /\ "done" \in Places \ {"mark"}
    BY DEF Places, FilePlaces
  <2>4. ~NextFile(w)
    BY <1>2, <2>2, <2>3 DEF NextFile, At
  <2>5. QED
    BY <2>1, <2>4
<1>12. QED
  BY <1>4, <1>5, <1>6, <1>7, <1>8, <1>9, <1>10, <1>11 DEF Step, Intake, IntakeFault

LEMMA MarksWhatIsQueued ==
    ASSUME Inv, CarriedInv, Next, NEW o \in Workers, At(o, "mark")'
    PROVE  Carried(work[o].item)'
<1>1. Types /\ WorkersFit /\ Grows /\ Persisted /\ Affordable
  BY GrowsStep, AttemptsAffordable DEF Inv, FlowInv, AttemptsInv
<1>2. work \in [Workers -> Work] /\ queue \in [Files -> Nat]
  BY <1>1 DEF Types
<1>3. ASSUME At(o, "mark"), work'[o].item = work[o].item
      PROVE  Carried(work[o].item)'
  <2>1. work[o].item \in Files
    BY <1>1, <1>2, <1>3 DEF WorkersFit, Fits, At, Work
  <2>2. PICK f \in Files : f = work[o].item
    BY <2>1
  <2>3. Carried(f)'
    BY <1>1, <1>3, <2>2, CarriedStays DEF CarriedInv
  <2>4. QED
    BY <1>3, <2>2, <2>3 DEF Carried
<1>4. CASE Elsewhere
  BY <1>3, <1>4, ElsewhereWorkers DEF At
<1>5. ASSUME NEW w \in Workers, Step(w), w # o
      PROVE  Carried(work[o].item)'
  <2>1. Stands(w)
    BY <1>1, <1>5, WorkerStands DEF Step, WorkersFit
  <2>2. work'[o] = work[o]
    BY <1>5, <2>1 DEF Stands
  <2>3. QED
    BY <1>3, <2>2 DEF At
<1>6. CASE Step(o)
  <2>1. Publish(o) \/ Slow(o)
    BY <1>1, <1>6, MarkPlace DEF At
  <2>2. CASE Slow(o)
    <3>1. work'[o].pc = work[o].pc /\ work'[o].item = work[o].item
      BY <1>2, <2>2 DEF Slow, Work
    <3>2. QED
      BY <1>3, <3>1 DEF At
  <2>3. CASE Publish(o)
    <3>1. work[o].items \subseteq Files
      BY <1>2 DEF Work
    <3>2. PICK f \in Files : /\ queue' = [queue EXCEPT ![f] = @ + 1]
                             /\ work' = [work EXCEPT ![o].pc = "mark", ![o].item = f]
      BY <2>3, <3>1 DEF Publish
    <3>3. work'[o].item = f
      BY <1>2, <3>2 DEF Work
    <3>4. queue'[f] > 0
      BY <1>2, <3>2
    <3>5. QED
      BY <3>3, <3>4 DEF Carried
  <2>4. QED
    BY <2>1, <2>2, <2>3
<1>7. QED
  BY <1>4, <1>5, <1>6, NextSplit

\* A row of the outbox is marked published only when the broker confirmed its
\* job, and then the job stays in the pipeline until its sender is answered:
\* no crash, outage, unconfirmed publish or second worker on the row loses it
\* (mark_review_job_published after enqueue; the copy is acknowledged only by
\* a worker that completed it or queued the next one).
THEOREM PublishedIsCarried ==
    Spec => [](\A f \in Files : job[f].status = "published" => Carried(f))
<1>1. Init => CarriedInv
  BY IdleFields DEF Init, CarriedInv, At
<1>2. ASSUME Inv, CarriedInv, [Next]_vars
      PROVE  CarriedInv'
  <2>1. CASE Next
    <3>1. Types /\ WorkersFit
      BY <1>2 DEF Inv, FlowInv
    <3>2. ASSUME NEW f \in Files, job'[f].status = "published"
          PROVE  Carried(f)'
      <4>1. job[f].status = "published" => Carried(f)
        BY <1>2 DEF CarriedInv
      <4>2. job[f].status # "published" => Carried(f)
        BY <1>2, <2>1, <3>1, <3>2, PublishedByMark DEF CarriedInv
      <4>3. QED
        BY <2>1, <3>1, <4>1, <4>2, CarriedStays
    <3>3. \A w \in Workers : At(w, "mark")' => Carried(work[w].item)'
      BY <1>2, <2>1, MarksWhatIsQueued
    <3>4. QED
      BY <3>2, <3>3 DEF CarriedInv
  <2>2. CASE UNCHANGED vars
    BY <1>2, <2>2 DEF vars, CarriedInv, Carried, At
  <2>3. QED
    BY <1>2, <2>1, <2>2
<1>3. CarriedInv => \A f \in Files : job[f].status = "published" => Carried(f)
  BY DEF CarriedInv
<1>4. QED
  BY <1>1, <1>2, <1>3, IntakeInvariant, PTL DEF Spec

=============================================================================
