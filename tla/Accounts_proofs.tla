--------------------------- MODULE Accounts_proofs ---------------------------
(***************************************************************************)
(* Theorems about Accounts, for every set of mailboxes, identities,        *)
(* workspaces and handlers.                                                *)
(***************************************************************************)
EXTENDS Accounts, FiniteSetTheorems, TLAPS

-----------------------------------------------------------------------------
(* The inductive invariant *)

\* Only the configured mailbox is ever the super-admin's.
OneAdmin == \A e \in Emails \ {AdminEmail} : account[e].role # "super_admin"

\* No workspace belongs to two people.
OwnWorkspace ==
    \A e1, e2 \in Emails :
        (/\ account[e1].role = "user" /\ account[e2].role = "user"
         /\ account[e1].workspace = account[e2].workspace) => e1 = e2

SigningIn == {"subject", "email", "claim", "insert", "rebind"}

\* What a handler has found out about its account is still so when it writes.
LocatedAt(h) ==
    /\ work[h].pc \in SigningIn => work[h].subject \in Subjects /\ work[h].email \in Emails
    /\ work[h].pc \in {"sender", "admit", "record", "respond"} => work[h].email \in Emails
    /\ At(h, "claim") => work[h].email # AdminEmail /\ account[work[h].email].role = "user"
    /\ At(h, "rebind") =>
         work[h].email = AdminEmail /\ account[AdminEmail].role = "super_admin"

Located == \A h \in Handlers : LocatedAt(h)

\* Identities are told only of personal accounts.
ToldPersons == \A a \in answers : a.subject # None => a.email # AdminEmail

\* A principal that was admitted before is bound to its mailbox's account.
KnownAt(h) ==
    (work[h].known /\ work[h].pc \in SigningIn) =>
        /\ work[h].email # AdminEmail
        /\ account[work[h].email].role = "user"
        /\ account[work[h].email].subject = work[h].subject

KnownIsBound == \A h \in Handlers : KnownAt(h)

AccountsInv ==
    /\ TypeOK /\ OneAdmin /\ OwnWorkspace /\ OneAccountPerIdentity /\ Located
    /\ AnswersStayTrue /\ ToldPersons /\ KnownIsBound /\ AdmittedStayAdmitted

-----------------------------------------------------------------------------
(* Rows *)

LEMMA Rows ==
    /\ NoAccount \in Account /\ NoAccount.role = "none" /\ NoAccount.subject = None
    /\ \A s \in Subjects \cup {None} :
         Admin(s) \in Account /\ Admin(s).role = "super_admin" /\ Admin(s).subject = s
    /\ \A s \in Subjects \cup {None}, w \in Workspaces :
         /\ Person(s, w) \in Account /\ Person(s, w).role = "user"
         /\ Person(s, w).subject = s /\ Person(s, w).workspace = w
BY DEF NoAccount, Admin, Person, Account

LEMMA AccountFields ==
    ASSUME NEW a \in Account
    PROVE  /\ a.role \in {"none", "super_admin", "user"} /\ a.subject \in Subjects \cup {None}
           /\ a.role = "user" => a.workspace \in Workspaces
           /\ a.role = "none" => a.subject = None
BY DEF Account, NoAccount, Admin, Person

\* A handler that signs in, an inbound sender, the super-admin at the console.
LEMMA IdleFields == Idle \in Work /\ Idle.pc = "idle" /\ ~Idle.known
BY DEF Idle, Work

-----------------------------------------------------------------------------
(* What a step may do to the accounts *)

\* A free mailbox gets an account with a workspace of its own, a personal account
\* is claimed by the first identity, or the super-admin's account is bound again.
Changed(e, row) ==
    /\ account' = [account EXCEPT ![e] = row]
    /\ \/ \E s \in Subjects \cup {None}, w \in Workspaces :
            /\ row = Person(s, w) /\ ~Exists(e) /\ Fresh(w)
            /\ s # None => ~BoundElsewhere(s, e)
       \/ \E s \in Subjects :
            /\ account[e].role = "user" /\ row = Person(s, account[e].workspace)
            /\ ~Rival(s, e) /\ ~BoundElsewhere(s, e)
       \/ \E s \in Subjects :
            /\ e = AdminEmail /\ row = Admin(s) /\ account[e].role # "user"
            /\ ~BoundElsewhere(s, e)

AccountStep == account' = account \/ \E e \in Emails, row \in Account : Changed(e, row)

\* Every step is one of a handler.
LEMMA Steps ==
    ASSUME Next
    PROVE  \E h \in Handlers :
              \/ \E s \in Subjects, e \in Emails : Enter(h, s, e)
              \/ ReadSubject(h) \/ ReadEmail(h) \/ Claim(h)
              \/ \E w \in Workspaces : InsertVerified(h, w)
              \/ Rebind(h) \/ InsertAdmin(h)
              \/ \E e \in Emails : View(h, e)
              \/ ViewNothing(h) \/ List(h) \/ RecordAccess(h) \/ Respond(h)
              \/ \E e \in Emails, slack \in BOOLEAN : Arrive(h, e, slack)
              \/ ReadSender(h)
              \/ \E w \in Workspaces : InsertSender(h, w)
BY DEF Next, BrowserStep, AdminStep, SenderStep

LEMMA StepAccount == ASSUME AccountsInv, [Next]_vars PROVE AccountStep
<1> USE AccountsAssumption DEF AccountsInv
<1>1. ASSUME NEW h \in Handlers, Claim(h) PROVE AccountStep
  <2> DEFINE s == work[h].subject
             e == work[h].email
  <2>1. s \in Subjects /\ e \in Emails /\ account[e].role = "user" /\ account[e] \in Account
    BY <1>1 DEF Claim, Located, LocatedAt, SigningIn, At, TypeOK
  <2>2. \/ account' = account
        \/ /\ account' = [account EXCEPT ![e] = Person(s, account[e].workspace)]
           /\ ~Rival(s, e) /\ ~BoundElsewhere(s, e)
    BY <1>1 DEF Claim
  <2>3. account[e].workspace \in Workspaces
    BY <2>1, AccountFields
  <2>4. Person(s, account[e].workspace) \in Account
    BY <2>1, <2>3, Rows
  <2> HIDE DEF s, e
  <2>5. QED
    BY <2>1, <2>2, <2>4 DEF AccountStep, Changed
<1>2. ASSUME NEW h \in Handlers, NEW w \in Workspaces, InsertVerified(h, w) PROVE AccountStep
  <2> DEFINE s == work[h].subject
             e == work[h].email
  <2>1. s \in Subjects /\ e \in Emails /\ Fresh(w)
    BY <1>2 DEF InsertVerified, Located, LocatedAt, SigningIn, At
  <2>2. \/ account' = account
        \/ /\ account' = [account EXCEPT ![e] = Person(s, w)]
           /\ ~Exists(e) /\ ~BoundElsewhere(s, e)
    BY <1>2 DEF InsertVerified
  <2>3. Person(s, w) \in Account
    BY <2>1, Rows
  <2> HIDE DEF s, e
  <2>4. QED
    BY <2>1, <2>2, <2>3 DEF AccountStep, Changed
<1>3. ASSUME NEW h \in Handlers, Rebind(h) PROVE AccountStep
  <2> DEFINE s == work[h].subject
  <2>1. s \in Subjects /\ account[AdminEmail].role # "user"
    BY <1>3 DEF Rebind, Located, LocatedAt, SigningIn, At
  <2>2. \/ account' = account
        \/ account' = [account EXCEPT ![AdminEmail] = Admin(s)] /\ ~BoundElsewhere(s, AdminEmail)
    BY <1>3 DEF Rebind
  <2>3. Admin(s) \in Account
    BY <2>1, Rows
  <2> HIDE DEF s
  <2>4. QED
    BY <2>1, <2>2, <2>3 DEF AccountStep, Changed
<1>4. ASSUME NEW h \in Handlers, InsertAdmin(h) PROVE AccountStep
  <2> DEFINE s == work[h].subject
  <2>1. s \in Subjects
    BY <1>4 DEF InsertAdmin, Located, LocatedAt, SigningIn, At
  <2>2. CASE Exists(AdminEmail) \/ BoundElsewhere(s, AdminEmail)
    <3>1. account' = [account EXCEPT ![AdminEmail] = account[AdminEmail]]
      BY <1>4, <2>2 DEF InsertAdmin
    <3>2. account' = account
      BY <3>1 DEF TypeOK
    <3>3. QED
      BY <3>2 DEF AccountStep
  <2>3. CASE ~Exists(AdminEmail) /\ ~BoundElsewhere(s, AdminEmail)
    <3>1. account' = [account EXCEPT ![AdminEmail] = Admin(s)] /\ account[AdminEmail].role # "user"
      BY <1>4, <2>3 DEF InsertAdmin, Exists
    <3>2. Admin(s) \in Account
      BY <2>1, Rows
    <3> HIDE DEF s
    <3>3. QED
      BY <2>1, <2>3, <3>1, <3>2 DEF AccountStep, Changed
  <2>4. QED
    BY <2>2, <2>3
<1>5. ASSUME NEW h \in Handlers, NEW w \in Workspaces, InsertSender(h, w) PROVE AccountStep
  <2> DEFINE e == work[h].email
  <2>1. e \in Emails /\ Fresh(w)
    BY <1>5 DEF InsertSender, Located, LocatedAt, At
  <2>2. CASE Exists(e)
    <3>1. account' = [account EXCEPT ![e] = account[e]]
      BY <1>5, <2>2 DEF InsertSender
    <3>2. account' = account
      BY <3>1 DEF TypeOK
    <3>3. QED
      BY <3>2 DEF AccountStep
  <2>3. CASE ~Exists(e)
    <3>1. account' = [account EXCEPT ![e] = Person(None, w)]
      BY <1>5, <2>3 DEF InsertSender
    <3>2. Person(None, w) \in Account
      BY Rows
    <3> HIDE DEF e
    <3>3. QED
      BY <2>1, <2>3, <3>1, <3>2 DEF AccountStep, Changed
  <2>4. QED
    BY <2>2, <2>3
<1>6. CASE account' = account
  BY <1>6 DEF AccountStep
<1>7. QED
  BY <1>1, <1>2, <1>3, <1>4, <1>5, <1>6, Steps
     DEF vars, Enter, ReadSubject, ReadEmail, View, ViewNothing, List, RecordAccess, Respond,
         Arrive, ReadSender

\* A personal account keeps its role, its workspace and its identity.
LEMMA PersonsStay ==
    ASSUME TypeOK, AccountStep, NEW e \in Emails, account[e].role = "user"
    PROVE  /\ account'[e].role = "user" /\ account'[e].workspace = account[e].workspace
           /\ account[e].subject # None => account'[e].subject = account[e].subject
<1>1. CASE account' = account
  BY <1>1
<1>2. ASSUME NEW o \in Emails, NEW row \in Account, Changed(o, row)
      PROVE  /\ account'[e].role = "user" /\ account'[e].workspace = account[e].workspace
             /\ account[e].subject # None => account'[e].subject = account[e].subject
  <2>1. CASE o # e
    BY <1>2, <2>1 DEF Changed, TypeOK
  <2>2. CASE o = e
    <3>1. PICK s \in Subjects : row = Person(s, account[e].workspace) /\ ~Rival(s, e)
      BY <1>2, <2>2 DEF Changed, Exists
    <3>2. account'[e] = Person(s, account[e].workspace)
      BY <1>2, <2>2, <3>1 DEF Changed, TypeOK
    <3>3. account[e].workspace \in Workspaces
      BY AccountFields DEF TypeOK
    <3>4. QED
      BY <3>1, <3>2, <3>3, Rows DEF Rival
  <2>3. QED
    BY <2>1, <2>2
<1>3. QED
  BY <1>1, <1>2 DEF AccountStep

\* The super-admin's account stays it.
LEMMA AdminStays ==
    ASSUME TypeOK, AccountStep, account[AdminEmail].role = "super_admin"
    PROVE  account'[AdminEmail].role = "super_admin"
<1>1. ASSUME NEW o \in Emails, NEW row \in Account, Changed(o, row)
      PROVE  account'[AdminEmail].role = "super_admin"
  <2>1. CASE o # AdminEmail
    BY <1>1, <2>1, AccountsAssumption DEF Changed, TypeOK
  <2>2. CASE o = AdminEmail
    <3>1. \E s \in Subjects : row = Admin(s)
      BY <1>1, <2>2 DEF Changed, Exists
    <3>2. QED
      BY <1>1, <2>2, <3>1, Rows DEF Changed, TypeOK
  <2>3. QED
    BY <2>1, <2>2
<1>2. QED
  BY <1>1 DEF AccountStep

\* Rows stay well-typed, and nothing is shared that was not.
LEMMA RowsStay ==
    ASSUME TypeOK, OneAdmin, OwnWorkspace, OneAccountPerIdentity, AccountStep
    PROVE  /\ account' \in [Emails -> Account]
           /\ OneAdmin' /\ OwnWorkspace' /\ OneAccountPerIdentity'
<1>1. CASE account' = account
  BY <1>1 DEF TypeOK, OneAdmin, OwnWorkspace, OneAccountPerIdentity
<1>2. ASSUME NEW e \in Emails, NEW row \in Account, Changed(e, row)
      PROVE  /\ account' \in [Emails -> Account]
             /\ OneAdmin' /\ OwnWorkspace' /\ OneAccountPerIdentity'
  <2>1. /\ account'[e] = row /\ account' \in [Emails -> Account]
        /\ \A o \in Emails \ {e} : account'[o] = account[o]
    BY <1>2 DEF Changed, TypeOK
  <2>2. OneAdmin'
    <3>1. e # AdminEmail =>
            \/ \E s \in Subjects \cup {None}, w \in Workspaces : row = Person(s, w)
            \/ \E s \in Subjects : row = Person(s, account[e].workspace)
                                 /\ account[e].role = "user"
      BY <1>2 DEF Changed
    <3>2. account[e].role = "user" => account[e].workspace \in Workspaces
      BY AccountFields DEF TypeOK
    <3>3. e # AdminEmail => row.role = "user"
      BY <3>1, <3>2, Rows
    <3>4. QED
      BY <2>1, <3>3 DEF OneAdmin
  <2>3. \A o \in Emails \ {e} :
            (row.role = "user" /\ account[o].role = "user") => row.workspace # account[o].workspace
    <3>1. CASE \E s \in Subjects \cup {None}, w \in Workspaces : row = Person(s, w) /\ Fresh(w)
      BY <3>1, Rows DEF Fresh
    <3>2. CASE \E s \in Subjects : account[e].role = "user" /\ row = Person(s, account[e].workspace)
      BY <3>2, Rows, AccountFields DEF OwnWorkspace, TypeOK
    <3>3. CASE \E s \in Subjects : row = Admin(s)
      BY <3>3, Rows
    <3>4. QED
      BY <1>2, <3>1, <3>2, <3>3 DEF Changed
  <2>4. \A o \in Emails \ {e} : row.subject # None => row.subject # account[o].subject
    <3>1. PICK s \in Subjects \cup {None} : row.subject = s /\ (s # None => ~BoundElsewhere(s, e))
      BY <1>2, Rows, AccountFields, AccountsAssumption DEF Changed, TypeOK
    <3>2. \A o \in Emails : account[o].subject # None => Exists(o)
      BY AccountFields DEF TypeOK, Exists
    <3>3. QED
      BY <3>1, <3>2 DEF BoundElsewhere, Bound
  <2>5. OwnWorkspace'
    BY <2>1, <2>3 DEF OwnWorkspace
  <2>6. OneAccountPerIdentity'
    BY <2>1, <2>4 DEF OneAccountPerIdentity
  <2>7. QED
    BY <2>1, <2>2, <2>5, <2>6
<1>3. QED
  BY <1>1, <1>2 DEF AccountStep

-----------------------------------------------------------------------------
(* What a step does to its handler *)

\* Nobody else moves, and h is where it may be.
Handled(h) ==
    /\ work' \in [Handlers -> Work]
    /\ \A g \in Handlers \ {h} : work'[g] = work[g]
    /\ LocatedAt(h)' /\ KnownAt(h)'

\* A handler that leaves, or that only goes on to its next query.
LEMMA LeaveHandled ==
    ASSUME TypeOK, NEW h \in Handlers, Leave(h)
    PROVE  Handled(h)
<1>1. work'[h] = Idle /\ work' \in [Handlers -> Work] /\ \A g \in Handlers \ {h} : work'[g] = work[g]
  BY IdleFields DEF Leave, TypeOK
<1>2. QED
  BY <1>1, IdleFields DEF Handled, LocatedAt, KnownAt, SigningIn, At

LEMMA GoFields ==
    ASSUME TypeOK, NEW h \in Handlers, NEW pc, Go(h, pc),
           pc \in {"subject", "email", "claim", "insert", "rebind", "sender", "admit",
                   "console", "record", "respond"}
    PROVE  /\ work'[h].pc = pc /\ work'[h].subject = work[h].subject
           /\ work'[h].email = work[h].email /\ work'[h].known = work[h].known
           /\ work' \in [Handlers -> Work] /\ \A g \in Handlers \ {h} : work'[g] = work[g]
BY DEF Go, TypeOK, Work

\* The answers and refusals a step gives are well-typed and true.
Spoken ==
    /\ answers \subseteq answers' /\ refused \subseteq refused'
    /\ \A a \in answers' \ answers :
         /\ a \in Answer
         /\ account'[a.email].role = "user" /\ account'[a.email].workspace = a.workspace
         /\ a.subject # None =>
              account'[a.email].subject = a.subject /\ a.email # AdminEmail
    /\ \A x \in refused' \ refused : x \in Refusal /\ ~x.known

LEMMA TellSpoken ==
    ASSUME TypeOK, NEW h \in Handlers, NEW who \in Subjects \cup {None}, NEW acc,
           Tell(h, who, acc), work[h].email \in Emails, account' \in [Emails -> Account],
           acc = account'[work[h].email],
           who # None => acc.subject = who /\ work[h].email # AdminEmail
    PROVE  Spoken /\ Handled(h)
<1>1. Leave(h) /\ refused' = refused
  BY DEF Tell
<1>2. acc.role = "user" => acc.workspace \in Workspaces
  BY AccountFields
<1>3. \/ answers' = answers
      \/ /\ acc.role = "user"
         /\ answers' = answers \cup {[subject |-> who, email |-> work[h].email,
                                      workspace |-> acc.workspace]}
  BY DEF Tell
<1>4. Spoken
  BY <1>1, <1>2, <1>3 DEF Spoken, Answer
<1>5. QED
  BY <1>1, <1>4, LeaveHandled

\* Only a principal that was not known is turned away.
LEMMA RefuseSpoken ==
    ASSUME TypeOK, NEW h \in Handlers, Refuse(h), ~work[h].known,
           work[h].subject \in Subjects, work[h].email \in Emails
    PROVE  Spoken /\ Handled(h)
<1>1. Leave(h) /\ answers' = answers
  BY DEF Refuse
<1>2. Spoken
  <2>1. refused' = refused \cup {[subject |-> work[h].subject, email |-> work[h].email,
                                  known |-> work[h].known]}
    BY DEF Refuse
  <2>2. [subject |-> work[h].subject, email |-> work[h].email, known |-> work[h].known] \in Refusal
    BY DEF TypeOK, Work, Refusal
  <2>3. QED
    BY <1>1, <2>1, <2>2 DEF Spoken
<1>3. QED
  BY <1>1, <1>2, LeaveHandled

LEMMA SilentSpoken == ASSUME UNCHANGED <<answers, refused>> PROVE Spoken
BY DEF Spoken

\* What is known of a handler that signs in.
LEMMA SignedIn ==
    ASSUME AccountsInv, NEW h \in Handlers, work[h].pc \in SigningIn
    PROVE  /\ work[h].subject \in Subjects /\ work[h].email \in Emails
           /\ work[h].known \in BOOLEAN
           /\ work[h].known =>
                /\ work[h].email # AdminEmail /\ Bound(work[h].subject, work[h].email)
                /\ account[work[h].email].role = "user"
                /\ ~Rival(work[h].subject, work[h].email)
                /\ ~BoundElsewhere(work[h].subject, work[h].email)
<1>1. work[h].subject \in Subjects /\ work[h].email \in Emails /\ work[h].known \in BOOLEAN
  BY DEF AccountsInv, Located, LocatedAt, TypeOK, Work
<1>2. work[h].known => /\ work[h].email # AdminEmail
                      /\ account[work[h].email].role = "user"
                      /\ account[work[h].email].subject = work[h].subject
  BY DEF AccountsInv, KnownIsBound, KnownAt
<1>3. work[h].subject # None
  BY <1>1, AccountsAssumption
<1>4. QED
  BY <1>1, <1>2, <1>3
     DEF AccountsInv, OneAccountPerIdentity, Bound, BoundElsewhere, Rival, Exists

\* A handler that goes on with what it has found out.
LEMMA GoHandled ==
    ASSUME AccountsInv, AccountStep, NEW h \in Handlers, NEW pc, Go(h, pc),
           pc \in {"email", "claim", "insert", "rebind", "admit", "console", "respond"},
           pc \in SigningIn => work[h].pc \in SigningIn,
           pc \in {"admit", "respond"} => work[h].email \in Emails,
           pc = "claim" => work[h].email # AdminEmail /\ account[work[h].email].role = "user",
           pc = "rebind" => work[h].email = AdminEmail /\ account[AdminEmail].role = "super_admin"
    PROVE  Handled(h)
<1>1. /\ work'[h].pc = pc /\ work'[h].subject = work[h].subject
      /\ work'[h].email = work[h].email /\ work'[h].known = work[h].known
      /\ work' \in [Handlers -> Work] /\ \A g \in Handlers \ {h} : work'[g] = work[g]
  BY GoFields DEF AccountsInv
<1>2. pc \in SigningIn => /\ work[h].subject \in Subjects /\ work[h].email \in Emails
                         /\ (work[h].known => /\ work[h].email # AdminEmail
                                              /\ account[work[h].email].role = "user"
                                              /\ account[work[h].email].subject = work[h].subject)
  BY SignedIn DEF Bound
<1>3. LocatedAt(h)'
  <2>1. pc = "claim" => account'[work[h].email].role = "user"
    BY <1>2, PersonsStay DEF AccountsInv, SigningIn
  <2>2. pc = "rebind" => account'[AdminEmail].role = "super_admin"
    BY AdminStays DEF AccountsInv
  <2>3. QED
    BY <1>1, <1>2, <2>1, <2>2 DEF LocatedAt, At
<1>4. KnownAt(h)'
  <2>1. (work[h].known /\ pc \in SigningIn) =>
           /\ account'[work[h].email].role = "user"
           /\ account'[work[h].email].subject = account[work[h].email].subject
    BY <1>2, PersonsStay, AccountsAssumption DEF AccountsInv
  <2>2. QED
    BY <1>1, <1>2, <2>1 DEF KnownAt
<1>5. QED
  BY <1>1, <1>3, <1>4 DEF Handled

\* Every query and write of a browser's request.
LEMMA BrowserHandled ==
    ASSUME AccountsInv, AccountStep, account' \in [Emails -> Account],
           NEW h \in Handlers, BrowserStep(h)
    PROVE  Spoken /\ Handled(h)
<1> USE DEF AccountsInv
<1>1. ASSUME NEW s \in Subjects, NEW e \in Emails, Enter(h, s, e)
      PROVE  Spoken /\ Handled(h)
  <2> DEFINE known == \E a \in answers : a.subject = s /\ a.email = e
             w == [Idle EXCEPT !.pc = "subject", !.subject = s, !.email = e, !.known = known]
  <2>1. known => /\ e # AdminEmail /\ account[e].role = "user" /\ account[e].subject = s
    BY <1>1, AccountsAssumption DEF AnswersStayTrue, ToldPersons
  <2>2. CASE Rival(s, e)
    <3>1. /\ refused' = refused \cup {[subject |-> s, email |-> e, known |-> known]}
          /\ UNCHANGED <<account, work, answers>>
      BY <1>1, <2>2 DEF Enter
    <3>2. known \in BOOLEAN /\ ~known
      BY <2>1, <2>2 DEF Rival
    <3> HIDE DEF known
    <3>3. [subject |-> s, email |-> e, known |-> known] \in Refusal
      BY <3>2 DEF Refusal
    <3>4. Spoken
      BY <3>1, <3>2, <3>3 DEF Spoken
    <3>5. Handled(h)
      BY <3>1 DEF Handled, TypeOK, Located, LocatedAt, KnownIsBound, KnownAt, At
    <3>6. QED
      BY <3>4, <3>5
  <2>3. CASE ~Rival(s, e)
    <3>1. work' = [work EXCEPT ![h] = w] /\ UNCHANGED <<account, answers, refused>>
      BY <1>1, <2>3 DEF Enter
    <3>2. /\ w \in Work /\ w.pc = "subject" /\ w.subject = s /\ w.email = e
          /\ w.known = known
      BY IdleFields DEF Work
    <3> HIDE DEF w, known
    <3>3. work' \in [Handlers -> Work] /\ work'[h] = w /\ \A g \in Handlers \ {h} : work'[g] = work[g]
      BY <3>1, <3>2 DEF TypeOK
    <3>4. Handled(h)
      BY <2>1, <3>1, <3>2, <3>3 DEF Handled, LocatedAt, KnownAt, SigningIn, At
    <3>5. QED
      BY <3>1, <3>4, SilentSpoken
  <2>4. QED
    BY <2>2, <2>3
<1>2. CASE ReadSubject(h)
  <2>1. work[h].pc \in SigningIn
    BY <1>2 DEF ReadSubject, At, SigningIn
  <2>2. CASE Refuse(h) /\ BoundElsewhere(work[h].subject, work[h].email)
    BY <2>1, <2>2, SignedIn, RefuseSpoken
  <2>3. CASE Go(h, "email") /\ UNCHANGED <<answers, refused>>
    BY <2>1, <2>3, GoHandled, SilentSpoken DEF SigningIn
  <2>4. CASE /\ Go(h, "claim") /\ UNCHANGED <<answers, refused>>
             /\ Bound(work[h].subject, work[h].email) /\ work[h].email # AdminEmail
    <3>1. account[work[h].email].role = "user"
      BY <2>1, <2>4, SignedIn, AccountFields DEF Bound, Exists, OneAdmin, TypeOK
    <3>2. QED
      BY <2>1, <2>4, <3>1, GoHandled, SilentSpoken DEF SigningIn
  <2>5. QED
    BY <1>2, <2>2, <2>3, <2>4 DEF ReadSubject
<1>3. CASE ReadEmail(h)
  <2>1. work[h].pc \in SigningIn
    BY <1>3 DEF ReadEmail, At, SigningIn
  <2>2. CASE Refuse(h) /\ Exists(work[h].email)
             /\ ~(/\ account[work[h].email].role = (IF work[h].email = AdminEmail
                                                    THEN "super_admin" ELSE "user")
                  /\ ~Rival(work[h].subject, work[h].email))
    BY <2>1, <2>2, SignedIn, RefuseSpoken
  <2>3. CASE Go(h, "insert") /\ UNCHANGED <<answers, refused>>
    BY <2>1, <2>3, GoHandled, SilentSpoken DEF SigningIn
  <2>4. CASE /\ Go(h, "claim") /\ UNCHANGED <<answers, refused>>
             /\ account[work[h].email].role = "user" /\ work[h].email # AdminEmail
    BY <2>1, <2>4, GoHandled, SilentSpoken DEF SigningIn
  <2>5. CASE /\ Go(h, "rebind") /\ UNCHANGED <<answers, refused>>
             /\ account[work[h].email].role = "super_admin" /\ work[h].email = AdminEmail
    BY <2>1, <2>5, GoHandled, SilentSpoken DEF SigningIn
  <2>6. QED
    BY <1>3, <2>2, <2>3, <2>4, <2>5 DEF ReadEmail
<1>4. CASE Claim(h)
  <2>1. work[h].pc \in SigningIn /\ work[h].email # AdminEmail
    BY <1>4 DEF Claim, At, SigningIn, Located, LocatedAt
  <2>2. work[h].subject \in Subjects /\ work[h].email \in Emails
    BY <2>1, SignedIn
  <2>3. CASE Refuse(h)
             /\ (\/ Rival(work[h].subject, work[h].email)
                 \/ BoundElsewhere(work[h].subject, work[h].email))
    BY <2>1, <2>2, <2>3, SignedIn, RefuseSpoken
  <2>4. ASSUME NEW row, row = Person(work[h].subject, account[work[h].email].workspace),
               account' = [account EXCEPT ![work[h].email] = row],
               Tell(h, work[h].subject, row)
        PROVE  Spoken /\ Handled(h)
    <3>1. row = account'[work[h].email]
      BY <2>2, <2>4 DEF TypeOK
    <3>2. row.subject = work[h].subject
      BY <2>4 DEF Person
    <3>3. QED
      BY <2>1, <2>2, <2>4, <3>1, <3>2, TellSpoken
  <2>5. QED
    BY <1>4, <2>3, <2>4 DEF Claim
<1>5. ASSUME NEW w \in Workspaces, InsertVerified(h, w) PROVE Spoken /\ Handled(h)
  <2>1. work[h].pc \in SigningIn /\ work[h].email # AdminEmail
    BY <1>5 DEF InsertVerified, At, SigningIn
  <2>2. work[h].subject \in Subjects /\ work[h].email \in Emails
    BY <2>1, SignedIn
  <2>3. CASE Refuse(h) /\ ~Bound(work[h].subject, work[h].email)
    BY <2>1, <2>2, <2>3, SignedIn, RefuseSpoken
  <2>4. CASE /\ account' = [account EXCEPT ![work[h].email] = Person(work[h].subject, w)]
             /\ Tell(h, work[h].subject, Person(work[h].subject, w))
    <3>1. Person(work[h].subject, w) = account'[work[h].email]
      BY <2>2, <2>4 DEF TypeOK
    <3>2. Person(work[h].subject, w).subject = work[h].subject
      BY DEF Person
    <3>3. QED
      BY <2>1, <2>2, <2>4, <3>1, <3>2, TellSpoken
  <2>5. CASE /\ account' = account /\ Bound(work[h].subject, work[h].email)
             /\ Tell(h, work[h].subject, account[work[h].email])
    <3>1. account[work[h].email] = account'[work[h].email]
          /\ account[work[h].email].subject = work[h].subject
      BY <2>5 DEF Bound
    <3>2. QED
      BY <2>1, <2>2, <2>5, <3>1, TellSpoken
  <2>6. QED
    BY <1>5, <2>3, <2>4, <2>5 DEF InsertVerified
<1>6. QED
  BY <1>1, <1>2, <1>3, <1>4, <1>5 DEF BrowserStep

\* Every step of the super-admin's sign-in and of the console.
LEMMA AdminHandled ==
    ASSUME AccountsInv, AccountStep, account' \in [Emails -> Account],
           NEW h \in Handlers, AdminStep(h)
    PROVE  Spoken /\ Handled(h)
<1> USE DEF AccountsInv
<1>1. CASE Rebind(h) \/ InsertAdmin(h)
  <2>1. /\ work[h].pc \in SigningIn /\ work[h].email = AdminEmail
        /\ (Refuse(h) \/ (Go(h, "console") /\ UNCHANGED <<answers, refused>>))
    BY <1>1 DEF Rebind, InsertAdmin, At, SigningIn, Located, LocatedAt
  <2>2. ~work[h].known /\ work[h].subject \in Subjects /\ work[h].email \in Emails
    BY <2>1, SignedIn
  <2>3. CASE Refuse(h)
    BY <2>2, <2>3, RefuseSpoken
  <2>4. CASE Go(h, "console") /\ UNCHANGED <<answers, refused>>
    BY <2>4, GoHandled, SilentSpoken DEF SigningIn
  <2>5. QED
    BY <2>1, <2>3, <2>4
<1>2. ASSUME NEW e \in Emails, View(h, e) PROVE Spoken /\ Handled(h)
  <2> DEFINE w == [work[h] EXCEPT !.pc = "record", !.email = e]
  <2>1. w \in Work /\ w.pc = "record" /\ w.email = e
    BY DEF TypeOK, Work
  <2>2. work' = [work EXCEPT ![h] = w] /\ UNCHANGED <<answers, refused>>
    BY <1>2 DEF View, TypeOK
  <2> HIDE DEF w
  <2>3. /\ work'[h] = w /\ work' \in [Handlers -> Work]
        /\ \A g \in Handlers \ {h} : work'[g] = work[g]
    BY <2>1, <2>2 DEF TypeOK
  <2>4. QED
    BY <2>1, <2>2, <2>3, SilentSpoken DEF Handled, LocatedAt, KnownAt, SigningIn, At
<1>3. CASE ViewNothing(h) \/ List(h) \/ Respond(h)
  BY <1>3, LeaveHandled, SilentSpoken DEF ViewNothing, List, Respond
<1>4. CASE RecordAccess(h)
  <2>1. UNCHANGED <<answers, refused>> /\ (Leave(h) \/ Go(h, "respond")) /\ work[h].email \in Emails
    BY <1>4 DEF RecordAccess, Located, LocatedAt, At
  <2>2. CASE Leave(h)
    BY <2>1, <2>2, LeaveHandled, SilentSpoken
  <2>3. CASE Go(h, "respond")
    BY <2>1, <2>3, GoHandled, SilentSpoken DEF SigningIn
  <2>4. QED
    BY <2>1, <2>2, <2>3
<1>5. QED
  BY <1>1, <1>2, <1>3, <1>4 DEF AdminStep

\* Every step for an inbound sender.
LEMMA SenderHandled ==
    ASSUME AccountsInv, AccountStep, account' \in [Emails -> Account],
           NEW h \in Handlers, SenderStep(h)
    PROVE  Spoken /\ Handled(h)
<1> USE DEF AccountsInv
<1>1. ASSUME NEW e \in Emails, NEW slack \in BOOLEAN, Arrive(h, e, slack)
      PROVE  Spoken /\ Handled(h)
  <2>1. CASE ~Exists(e)
    <3> DEFINE w == [Idle EXCEPT !.pc = "sender", !.email = e]
    <3>1. w \in Work /\ w.pc = "sender" /\ w.email = e
      BY IdleFields DEF Work
    <3>2. work' = [work EXCEPT ![h] = w] /\ UNCHANGED <<answers, refused>>
      BY <1>1, <2>1 DEF Arrive, Exists
    <3> HIDE DEF w
    <3>3. /\ work'[h] = w /\ work' \in [Handlers -> Work]
          /\ \A g \in Handlers \ {h} : work'[g] = work[g]
      BY <3>1, <3>2 DEF TypeOK
    <3>4. QED
      BY <3>1, <3>2, <3>3, SilentSpoken DEF Handled, LocatedAt, KnownAt, SigningIn, At
  <2>2. CASE Exists(e)
    <3>1. /\ account[e].role = "user" /\ UNCHANGED <<account, work, refused>>
          /\ answers' = answers \cup {[subject |-> None, email |-> e,
                                       workspace |-> account[e].workspace]}
      BY <1>1, <2>2 DEF Arrive
    <3>2. account[e].workspace \in Workspaces
      BY <3>1, AccountFields DEF TypeOK
    <3>3. Spoken
      BY <3>1, <3>2 DEF Spoken, Answer
    <3>4. Handled(h)
      BY <3>1 DEF Handled, TypeOK, Located, LocatedAt, KnownIsBound, KnownAt, At
    <3>5. QED
      BY <3>3, <3>4
  <2>3. QED
    BY <2>1, <2>2
<1>2. CASE ReadSender(h)
  <2>1. work[h].email \in Emails /\ account' = account
    BY <1>2 DEF ReadSender, Located, LocatedAt, At
  <2>2. CASE Go(h, "admit") /\ UNCHANGED <<answers, refused>>
    BY <2>1, <2>2, GoHandled, SilentSpoken DEF SigningIn
  <2>3. CASE Tell(h, None, account[work[h].email])
    BY <2>1, <2>3, TellSpoken
  <2>4. QED
    BY <1>2, <2>2, <2>3 DEF ReadSender
<1>3. ASSUME NEW w \in Workspaces, InsertSender(h, w) PROVE Spoken /\ Handled(h)
  <2>1. work[h].email \in Emails
    BY <1>3 DEF InsertSender, Located, LocatedAt, At
  <2>2. PICK row : account' = [account EXCEPT ![work[h].email] = row] /\ Tell(h, None, row)
    BY <1>3 DEF InsertSender
  <2>3. row = account'[work[h].email]
    BY <2>1, <2>2 DEF TypeOK
  <2>4. QED
    BY <2>1, <2>2, <2>3, TellSpoken
<1>4. QED
  BY <1>1, <1>2, <1>3 DEF SenderStep

-----------------------------------------------------------------------------
(* Theorems *)

\* What handlers rely on between their queries is preserved by every step.
THEOREM AccountsInductive == AccountsInv /\ [Next]_vars => AccountsInv'
<1> SUFFICES ASSUME AccountsInv, [Next]_vars PROVE AccountsInv'
  OBVIOUS
<1> USE DEF AccountsInv
<1>1. AccountStep
  BY StepAccount
<1>2. /\ account' \in [Emails -> Account]
      /\ OneAdmin' /\ OwnWorkspace' /\ OneAccountPerIdentity'
  BY <1>1, RowsStay
<1>3. CASE UNCHANGED vars
  BY <1>2, <1>3 DEF vars, TypeOK, Located, LocatedAt, AnswersStayTrue, ToldPersons,
                    KnownIsBound, KnownAt, AdmittedStayAdmitted, At
<1>4. ASSUME NEW h \in Handlers, BrowserStep(h) \/ AdminStep(h) \/ SenderStep(h)
      PROVE  AccountsInv'
  <2>1. Spoken /\ Handled(h)
    BY <1>1, <1>2, <1>4, BrowserHandled, AdminHandled, SenderHandled
  <2>2. recorded' \in [Emails -> 0..MaxViews] /\ disclosed' \in [Emails -> Nat]
    <3>1. CASE RecordAccess(h)
      BY <3>1, AccountsAssumption DEF RecordAccess, TypeOK
    <3>2. CASE Respond(h)
      <4>1. /\ disclosed \in [Emails -> Nat] /\ recorded' = recorded
            /\ disclosed' = [disclosed EXCEPT ![work[h].email] = @ + 1]
        BY <3>2 DEF Respond, TypeOK
      <4>2. work[h].email \in Emails
        BY <3>2 DEF Respond, Located, LocatedAt, At
      <4>3. disclosed[work[h].email] + 1 \in Nat
        BY <4>1, <4>2
      <4>4. disclosed' \in [Emails -> Nat]
        BY <4>1, <4>3
      <4>5. QED
        BY <4>1, <4>4 DEF TypeOK
    <3>3. CASE UNCHANGED <<recorded, disclosed>>
      BY <3>3 DEF TypeOK
    <3>4. QED
      BY <1>4, <3>1, <3>2, <3>3
         DEF BrowserStep, AdminStep, SenderStep, Enter, ReadSubject, ReadEmail, Claim,
             InsertVerified, Rebind, InsertAdmin, View, ViewNothing, List, Arrive, ReadSender,
             InsertSender
  <2>3. TypeOK'
    BY <1>2, <2>1, <2>2 DEF Spoken, Handled, TypeOK
  <2>4. Located'
    <3>1. ASSUME NEW g \in Handlers PROVE LocatedAt(g)'
      <4>1. CASE g = h
        BY <2>1, <4>1 DEF Handled
      <4>2. CASE g # h
        <5>1. work'[g] = work[g] /\ LocatedAt(g)
          BY <2>1, <4>2 DEF Handled, Located
        <5>2. work[g].pc = "claim" => account'[work[g].email].role = "user"
          BY <1>1, <5>1, PersonsStay DEF LocatedAt, At, SigningIn
        <5>3. work[g].pc = "rebind" => account'[AdminEmail].role = "super_admin"
          BY <1>1, <5>1, AdminStays DEF LocatedAt, At
        <5>4. QED
          BY <5>1, <5>2, <5>3 DEF LocatedAt, At
      <4>3. QED
        BY <4>1, <4>2
    <3>2. QED
      BY <3>1 DEF Located
  <2>5. KnownIsBound'
    <3>1. ASSUME NEW g \in Handlers PROVE KnownAt(g)'
      <4>1. CASE g = h
        BY <2>1, <4>1 DEF Handled
      <4>2. CASE g # h
        <5>1. work'[g] = work[g]
          BY <2>1, <4>2 DEF Handled
        <5>2. (work[g].known /\ work[g].pc \in SigningIn) =>
                 /\ work[g].email \in Emails /\ work[g].email # AdminEmail
                 /\ account[work[g].email].role = "user"
                 /\ account[work[g].email].subject = work[g].subject
                 /\ work[g].subject # None
          BY AccountsAssumption DEF KnownIsBound, KnownAt, Located, LocatedAt
        <5>3. QED
          BY <1>1, <5>1, <5>2, PersonsStay DEF KnownAt
      <4>3. QED
        BY <4>1, <4>2
    <3>2. QED
      BY <3>1 DEF KnownIsBound
  <2>6. ToldPersons' /\ AdmittedStayAdmitted'
    BY <2>1 DEF Spoken, ToldPersons, AdmittedStayAdmitted
  <2>7. AnswersStayTrue'
    <3>1. ASSUME NEW a \in answers'
          PROVE  /\ a.email \in Emails
                 /\ account'[a.email].role = "user" /\ account'[a.email].workspace = a.workspace
                 /\ a.subject # None => account'[a.email].subject = a.subject
      <4>1. a \in Answer
        BY <2>3 DEF TypeOK
      <4>2. CASE a \in answers
        <5>1. /\ account[a.email].role = "user" /\ account[a.email].workspace = a.workspace
              /\ a.subject # None => account[a.email].subject = a.subject
          BY <4>2 DEF AnswersStayTrue
        <5>2. QED
          BY <1>1, <4>1, <5>1, PersonsStay DEF Answer
      <4>3. CASE a \notin answers
        BY <2>1, <4>1, <4>3 DEF Spoken, Answer
      <4>4. QED
        BY <4>2, <4>3
    <3>2. QED
      BY <1>2, <3>1 DEF AnswersStayTrue, OwnWorkspace
  <2>8. QED
    BY <1>2, <2>3, <2>4, <2>5, <2>6, <2>7
<1>5. QED
  BY <1>3, <1>4 DEF Next

LEMMA AccountsInit == Init => AccountsInv
<1> SUFFICES ASSUME Init PROVE AccountsInv
  OBVIOUS
<1>1. \A e \in Emails : /\ account[e] \in Account /\ account[e].role # "user"
                        /\ account[e].subject = None
                        /\ e # AdminEmail => account[e].role = "none"
  BY Rows, AccountsAssumption DEF Init
<1>2. account \in [Emails -> Account] /\ work \in [Handlers -> Work]
  BY <1>1, IdleFields DEF Init
<1>3. TypeOK
  BY <1>2, AccountsAssumption DEF Init, TypeOK
<1>4. Located /\ KnownIsBound
  BY IdleFields DEF Init, Located, LocatedAt, KnownIsBound, KnownAt, At, SigningIn
<1>5. QED
  BY <1>1, <1>3, <1>4
     DEF AccountsInv, OneAdmin, OwnWorkspace, OneAccountPerIdentity, AnswersStayTrue,
         ToldPersons, AdmittedStayAdmitted, Init

THEOREM AccountsCorrect == Spec => []AccountsInv
<1>1. Init => AccountsInv
  BY AccountsInit
<1>2. AccountsInv /\ [Next]_vars => AccountsInv'
  BY AccountsInductive
<1>3. QED
  BY <1>1, <1>2, PTL DEF Spec

\* What a handler was told of a personal account stays true (one mailbox, one
\* workspace, one identity), whatever else signs in or writes in.
THEOREM AnswersStayTrueHolds == Spec => []AnswersStayTrue
<1>1. AccountsInv => AnswersStayTrue
  BY DEF AccountsInv
<1>2. QED
  BY <1>1, AccountsCorrect, PTL

\* A person who was admitted once is never turned away again.
THEOREM AdmittedStayAdmittedHolds == Spec => []AdmittedStayAdmitted
<1>1. AccountsInv => AdmittedStayAdmitted
  BY DEF AccountsInv
<1>2. QED
  BY <1>1, AccountsCorrect, PTL

\* No identity is bound to two accounts.
THEOREM OneAccountPerIdentityHolds == Spec => []OneAccountPerIdentity
<1>1. AccountsInv => OneAccountPerIdentity
  BY DEF AccountsInv
<1>2. QED
  BY <1>1, AccountsCorrect, PTL

\* A personal account keeps the identity that claimed it, its role and workspace.
THEOREM BindingsStickHolds == Spec => BindingsStick
<1> DEFINE Kept(e) == account[e].role = "user" =>
          /\ account'[e].role = "user"
          /\ account'[e].workspace = account[e].workspace
          /\ account[e].subject # None => account'[e].subject = account[e].subject
<1>1. AccountsInv /\ [Next]_vars => [\A e \in Emails : Kept(e)]_vars
  <2> SUFFICES ASSUME AccountsInv, [Next]_vars, NEW e \in Emails PROVE Kept(e)
    OBVIOUS
  <2>1. AccountStep
    BY StepAccount
  <2>2. QED
    BY <2>1, PersonsStay DEF AccountsInv
<1>2. QED
  BY <1>1, AccountsCorrect, PTL DEF Spec, BindingsStick

-----------------------------------------------------------------------------
(* Disclosure *)

\* Handlers that have recorded an access to e and not yet answered.
Owed(e) == {h \in Handlers : At(h, "respond") /\ work[h].email = e}

\* An access event is good for one answer.
Covered == \A e \in Emails : disclosed[e] + Cardinality(Owed(e)) <= recorded[e]

LEMMA OwedFinite ==
    ASSUME NEW e
    PROVE  IsFiniteSet(Owed(e)) /\ Cardinality(Owed(e)) \in Nat
BY AccountsAssumption, FS_Subset, FS_CardinalityType DEF Owed

\* A handler that neither comes to its answer nor leaves it changes no debt.
LEMMA OwedFrame ==
    ASSUME NEW h \in Handlers, \A g \in Handlers \ {h} : work'[g] = work[g],
           ~At(h, "respond"), work'[h].pc # "respond", NEW e
    PROVE  Owed(e)' = Owed(e)
BY DEF Owed, At

LEMMA CoveredInductive == ASSUME AccountsInv, Covered, [Next]_vars PROVE Covered'
<1> USE DEF AccountsInv
<1>1. CASE UNCHANGED vars
  BY <1>1 DEF vars, Covered, Owed, At
<1>2. ASSUME NEW h \in Handlers, RecordAccess(h) PROVE Covered'
  <2>1. CASE Leave(h) /\ UNCHANGED <<recorded, disclosed>>
    <3>1. \A e : Owed(e)' = Owed(e)
      BY <1>2, <2>1, IdleFields, OwedFrame DEF Leave, RecordAccess, At, TypeOK
    <3>2. QED
      BY <2>1, <3>1 DEF Covered
  <2>2. CASE /\ Go(h, "respond") /\ disclosed' = disclosed
             /\ recorded' = [recorded EXCEPT ![work[h].email] = @ + 1]
    <3>1. /\ work'[h].pc = "respond" /\ work'[h].email = work[h].email /\ At(h, "record")
          /\ \A g \in Handlers \ {h} : work'[g] = work[g]
      BY <1>2, <2>2, GoFields DEF RecordAccess
    <3>2. ASSUME NEW e \in Emails PROVE disclosed'[e] + Cardinality(Owed(e))' <= recorded'[e]
      <4>1. disclosed[e] + Cardinality(Owed(e)) <= recorded[e]
            /\ disclosed[e] \in Nat /\ recorded[e] \in Nat
        BY AccountsAssumption DEF Covered, TypeOK
      <4>2. CASE e = work[h].email
        <5>1. Owed(e)' = Owed(e) \cup {h} /\ h \notin Owed(e)
          BY <3>1, <4>2 DEF Owed, At
        <5>2. Cardinality(Owed(e))' = Cardinality(Owed(e)) + 1
          BY <5>1, OwedFinite, FS_AddElement
        <5>3. recorded'[e] = recorded[e] + 1
          BY <2>2, <4>2 DEF TypeOK
        <5>4. QED
          BY <2>2, <4>1, <5>2, <5>3, OwedFinite
      <4>3. CASE e # work[h].email
        <5>1. Owed(e)' = Owed(e)
          BY <3>1, <4>3 DEF Owed, At
        <5>2. recorded'[e] = recorded[e]
          BY <2>2, <4>3 DEF TypeOK
        <5>3. QED
          BY <2>2, <4>1, <5>1, <5>2
      <4>4. QED
        BY <4>2, <4>3
    <3>3. QED
      BY <3>2 DEF Covered
  <2>3. QED
    BY <1>2, <2>1, <2>2 DEF RecordAccess
<1>3. ASSUME NEW h \in Handlers, Respond(h) PROVE Covered'
  <2>1. /\ work'[h].pc = "idle" /\ At(h, "respond") /\ recorded' = recorded
        /\ \A g \in Handlers \ {h} : work'[g] = work[g]
        /\ disclosed' = [disclosed EXCEPT ![work[h].email] = @ + 1]
    BY <1>3, IdleFields DEF Respond, Leave, TypeOK
  <2>2. ASSUME NEW e \in Emails PROVE disclosed'[e] + Cardinality(Owed(e))' <= recorded'[e]
    <3>1. disclosed[e] + Cardinality(Owed(e)) <= recorded[e]
          /\ disclosed[e] \in Nat /\ recorded[e] \in Nat
      BY AccountsAssumption DEF Covered, TypeOK
    <3>2. CASE e = work[h].email
      <4>1. Owed(e)' = Owed(e) \ {h} /\ h \in Owed(e)
        BY <2>1, <3>2 DEF Owed, At
      <4>2. Cardinality(Owed(e))' = Cardinality(Owed(e)) - 1
        BY <4>1, OwedFinite, FS_RemoveElement
      <4>3. disclosed'[e] = disclosed[e] + 1
        BY <2>1, <3>2 DEF TypeOK
      <4>4. QED
        BY <2>1, <3>1, <4>2, <4>3, OwedFinite
    <3>3. CASE e # work[h].email
      <4>1. Owed(e)' = Owed(e)
        BY <2>1, <3>3 DEF Owed, At
      <4>2. disclosed'[e] = disclosed[e]
        BY <2>1, <3>3 DEF TypeOK
      <4>3. QED
        BY <2>1, <3>1, <4>1, <4>2
    <3>4. QED
      BY <3>2, <3>3
  <2>3. QED
    BY <2>2 DEF Covered
<1>4. ASSUME NEW h \in Handlers, UNCHANGED <<recorded, disclosed>>,
             \A g \in Handlers \ {h} : work'[g] = work[g],
             ~At(h, "respond"), work'[h].pc # "respond"
      PROVE  Covered'
  BY <1>4, OwedFrame DEF Covered
<1>5. ASSUME NEW h \in Handlers, BrowserStep(h) \/ SenderStep(h) PROVE Covered'
  <2>1. UNCHANGED <<recorded, disclosed>> /\ ~At(h, "respond")
    BY <1>5 DEF BrowserStep, SenderStep, Enter, ReadSubject, ReadEmail, Claim,
                InsertVerified, Arrive, ReadSender, InsertSender, At
  <2>2. work'[h].pc # "respond" /\ \A g \in Handlers \ {h} : work'[g] = work[g]
    <3>1. \A g \in Handlers \ {h} : work'[g] = work[g]
      BY <1>5, StepAccount, RowsStay, BrowserHandled, SenderHandled DEF Handled
    <3>2. CASE Leave(h)
      BY <3>2, IdleFields DEF Leave, TypeOK
    <3>3. CASE \E pc \in {"email", "claim", "insert", "rebind", "admit"} : Go(h, pc)
      BY <3>3, GoFields
    <3>4. ASSUME NEW s \in Subjects, NEW e \in Emails, Enter(h, s, e)
          PROVE  work'[h].pc # "respond"
      BY <2>1, <3>4 DEF Enter, Idle, At, TypeOK
    <3>5. ASSUME NEW e \in Emails, NEW slack \in BOOLEAN, Arrive(h, e, slack)
          PROVE  work'[h].pc # "respond"
      BY <2>1, <3>5 DEF Arrive, Idle, At, TypeOK
    <3>6. QED
      BY <1>5, <3>1, <3>2, <3>3, <3>4, <3>5
         DEF BrowserStep, SenderStep, ReadSubject, ReadEmail, Claim, InsertVerified,
             ReadSender, InsertSender, Refuse, Tell
  <2>3. QED
    BY <1>4, <2>1, <2>2
<1>6. ASSUME NEW h \in Handlers, Rebind(h) \/ InsertAdmin(h) \/ ViewNothing(h) \/ List(h)
      PROVE  Covered'
  <2>1. UNCHANGED <<recorded, disclosed>> /\ ~At(h, "respond") /\ (Leave(h) \/ Go(h, "console"))
    BY <1>6 DEF Rebind, InsertAdmin, ViewNothing, List, Refuse, At
  <2>2. work'[h].pc # "respond" /\ \A g \in Handlers \ {h} : work'[g] = work[g]
    BY <2>1, IdleFields DEF Leave, Go, TypeOK, Work
  <2>3. QED
    BY <1>4, <2>1, <2>2
<1>7. ASSUME NEW h \in Handlers, NEW e \in Emails, View(h, e) PROVE Covered'
  <2>1. /\ UNCHANGED <<recorded, disclosed>> /\ ~At(h, "respond")
        /\ work' = [work EXCEPT ![h].pc = "record", ![h].email = e]
    BY <1>7 DEF View, At
  <2>2. work'[h].pc # "respond" /\ \A g \in Handlers \ {h} : work'[g] = work[g]
    BY <2>1 DEF TypeOK, Work
  <2>3. QED
    BY <1>4, <2>1, <2>2
<1>8. QED
  BY <1>1, <1>2, <1>3, <1>5, <1>6, <1>7 DEF Next, AdminStep

\* An answer of the console about one account is shown only after its access event
\* is committed; the lists are not such answers.
THEOREM DisclosureIsRecordedHolds == Spec => []DisclosureIsRecorded
<1>1. Init => Covered
  <2> SUFFICES ASSUME Init PROVE Covered
    OBVIOUS
  <2>1. \A e : Owed(e) = {}
    BY IdleFields DEF Init, Owed, At
  <2>2. QED
    BY <2>1, FS_EmptySet DEF Init, Covered
<1>2. AccountsInv /\ Covered /\ [Next]_vars => Covered'
  BY CoveredInductive
<1>3. AccountsInv /\ Covered => DisclosureIsRecorded
  <2> SUFFICES ASSUME AccountsInv, Covered, NEW e \in Emails PROVE disclosed[e] <= recorded[e]
    BY DEF DisclosureIsRecorded
  <2>1. disclosed[e] \in Nat /\ recorded[e] \in Nat /\ disclosed[e] + Cardinality(Owed(e)) <= recorded[e]
    BY AccountsAssumption DEF AccountsInv, TypeOK, Covered
  <2>2. QED
    BY <2>1, OwedFinite
<1>4. QED
  BY <1>1, <1>2, <1>3, AccountsCorrect, PTL DEF Spec

=============================================================================
