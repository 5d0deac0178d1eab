------------------------------ MODULE Accounts ------------------------------
(***************************************************************************)
(* The table user_accounts and everyone who writes it: requests of signed- *)
(* in browsers (AccountAccessService.resolve_verified_principal), senders  *)
(* of email and Slack contracts (resolve_inbound_sender, the Slack worker) *)
(* and the super-admin's own sign-in; and the admin console's reads.       *)
(*                                                                         *)
(* A handler's queries see what is committed when each is executed.  What  *)
(* it writes and reads back is one step: the row it wrote is locked until  *)
(* its transaction ends.  Accounts are never deleted, and the index on     *)
(* lower(email) makes the mailbox their identity.                          *)
(***************************************************************************)
EXTENDS Naturals, FiniteSets

CONSTANTS
    Emails,        \* normalised mailboxes
    AdminEmail,    \* SAMVID_SUPER_ADMIN_EMAIL
    Subjects,      \* verified identities
    Workspaces,    \* ids of private workspaces
    Handlers,      \* API threads and intake workers
    MaxViews,      \* bound: admin reads of one account
    None

ASSUME AccountsAssumption ==
    /\ AdminEmail \in Emails
    /\ None \notin Subjects \cup Workspaces \cup Emails
    /\ MaxViews \in Nat
    /\ IsFiniteSet(Handlers)

VARIABLES
    account,       \* user_accounts, by mailbox
    work,          \* what each handler is doing
    answers,       \* history: accounts handlers were told, and for whom
    refused,       \* history: principals that were turned away
    recorded,      \* platform_access_events about each account
    disclosed      \* history: admin answers that show one account, or a contract of it

vars == <<account, work, answers, refused, recorded, disclosed>>

-----------------------------------------------------------------------------
(* Types *)

NoAccount == [role |-> "none", subject |-> None, state |-> "unclaimed",
              workspace |-> None]

Admin(s) == [role |-> "super_admin", subject |-> s, workspace |-> None,
             state |-> IF s = None THEN "unclaimed" ELSE "active"]

Person(s, w) == [role |-> "user", subject |-> s, workspace |-> w,
                 state |-> IF s = None THEN "unclaimed" ELSE "active"]

\* A row has a workspace of its own exactly when it is a person's, and is active
\* exactly when an identity is bound to it.
Account == {NoAccount} \cup {Admin(s) : s \in Subjects \cup {None}}
           \cup {Person(s, w) : s \in Subjects \cup {None}, w \in Workspaces}

Work == [pc: {"idle", "subject", "email", "claim", "insert", "rebind",
              "sender", "admit", "console", "record", "respond"},
         subject: Subjects \cup {None},
         email: Emails \cup {None},
         known: BOOLEAN]        \* history: this principal was admitted before

Idle == [pc |-> "idle", subject |-> None, email |-> None, known |-> FALSE]

\* subject is None in an answer to an inbound sender.
Answer == [subject: Subjects \cup {None}, email: Emails, workspace: Workspaces]
Refusal == [subject: Subjects, email: Emails, known: BOOLEAN]

\* Every variable has its type.
TypeOK ==
    /\ account \in [Emails -> Account]
    /\ work \in [Handlers -> Work]
    /\ answers \subseteq Answer
    /\ refused \subseteq Refusal
    /\ recorded \in [Emails -> 0..MaxViews]
    /\ disclosed \in [Emails -> Nat]

\* samvid migrate has inserted the super-admin's account, unclaimed, unless the
\* setting was empty when it ran.
Init ==
    /\ \E first \in {NoAccount, Admin(None)} :
          account = [e \in Emails |-> IF e = AdminEmail THEN first ELSE NoAccount]
    /\ work = [h \in Handlers |-> Idle]
    /\ answers = {}
    /\ refused = {}
    /\ recorded = [e \in Emails |-> 0]
    /\ disclosed = [e \in Emails |-> 0]

-----------------------------------------------------------------------------
(* Vocabulary *)

At(h, pc) == work[h].pc = pc
Exists(e) == account[e].role # "none"

Go(h, pc) == work' = [work EXCEPT ![h].pc = pc]
Leave(h) == work' = [work EXCEPT ![h] = Idle]

\* The mailbox whose account is bound to subject s.
Bound(s, e) == Exists(e) /\ account[e].subject = s
BoundElsewhere(s, e) == \E o \in Emails \ {e} : Bound(s, o)

Rival(s, e) == account[e].subject \notin {None, s}

Fresh(w) == \A e \in Emails : account[e].workspace # w

Refuse(h) ==
    /\ refused' = refused \cup {[subject |-> work[h].subject, email |-> work[h].email,
                                 known |-> work[h].known]}
    /\ Leave(h)
    /\ UNCHANGED answers

\* _verified_resolution and _inbound_resolution of the row as it is after the
\* transaction: an account with a workspace of its own, or an error.
Tell(h, who, acc) ==
    LET e == work[h].email
    IN  /\ answers' = IF acc.role = "user"
                      THEN answers \cup {[subject |-> who, email |-> e,
                                          workspace |-> acc.workspace]}
                      ELSE answers
        /\ Leave(h)
        /\ UNCHANGED refused

-----------------------------------------------------------------------------
(* A request of a signed-in browser *)

\* resolve_verified_principal reads the account of the mailbox and refuses an
\* identity other than the one it is bound to.
Enter(h, s, e) ==
    LET known == \E a \in answers : a.subject = s /\ a.email = e
        w == [Idle EXCEPT !.pc = "subject", !.subject = s, !.email = e, !.known = known]
    IN  /\ At(h, "idle")
        /\ \/ /\ ~Rival(s, e)
              /\ work' = [work EXCEPT ![h] = w]
              /\ UNCHANGED refused
           \/ /\ Rival(s, e)
              /\ refused' = refused \cup {[subject |-> s, email |-> e, known |-> known]}
              /\ UNCHANGED work
        /\ UNCHANGED <<account, answers, recorded, disclosed>>

\* provision_verified_user and bootstrap_super_admin look the identity up.
ReadSubject(h) ==
    LET s == work[h].subject
        e == work[h].email
    IN  /\ At(h, "subject")
        /\ \/ /\ BoundElsewhere(s, e) /\ Refuse(h)
           \/ /\ ~BoundElsewhere(s, e) /\ Bound(s, e) /\ e # AdminEmail
              /\ Go(h, "claim") /\ UNCHANGED <<answers, refused>>
           \/ /\ ~BoundElsewhere(s, e) /\ (Bound(s, e) => e = AdminEmail)
              /\ Go(h, "email") /\ UNCHANGED <<answers, refused>>
        /\ UNCHANGED <<account, recorded, disclosed>>

\* Then the mailbox: a person claims an account no other identity has and that is
\* not the super-admin's; the super-admin binds the account that is.
ReadEmail(h) ==
    LET s == work[h].subject
        e == work[h].email
        role == IF e = AdminEmail THEN "super_admin" ELSE "user"
        fits == account[e].role = role /\ ~Rival(s, e)
    IN  /\ At(h, "email")
        /\ \/ /\ ~Exists(e)
              /\ Go(h, "insert") /\ UNCHANGED <<answers, refused>>
           \/ /\ Exists(e) /\ fits
              /\ Go(h, IF e = AdminEmail THEN "rebind" ELSE "claim")
              /\ UNCHANGED <<answers, refused>>
           \/ /\ Exists(e) /\ ~fits
              /\ Refuse(h)
        /\ UNCHANGED <<account, recorded, disclosed>>

\* Mutant of Claim: the UPDATE does not compare auth_subject.
ClaimUncompared(h) ==
    LET s == work[h].subject
        e == work[h].email
        row == Person(s, account[e].workspace)
    IN  /\ At(h, "claim")
        /\ account' = [account EXCEPT ![e] = row]
        /\ Tell(h, s, row)
        /\ UNCHANGED <<recorded, disclosed>>

\* Mutant of Claim: the answer names the account as it was read, and a claim that
\* came too late is not noticed (rowcount is ignored).
ClaimUnnoticed(h) ==
    LET s == work[h].subject
        e == work[h].email
    IN  /\ At(h, "claim")
        /\ account' = IF Rival(s, e) THEN account
                      ELSE [account EXCEPT ![e] = Person(s, @.workspace)]
        /\ Tell(h, s, account[e])
        /\ UNCHANGED <<recorded, disclosed>>

\* _update_claimed_account: a compare-and-set of auth_subject, under the unique
\* index of that column.
Claim(h) ==
    LET s == work[h].subject
        e == work[h].email
        row == Person(s, account[e].workspace)
    IN  /\ At(h, "claim")
        /\ \/ /\ ~Rival(s, e) /\ ~BoundElsewhere(s, e)
              /\ account' = [account EXCEPT ![e] = row]
              /\ Tell(h, s, row)
           \/ /\ Rival(s, e) \/ BoundElsewhere(s, e)
              /\ Refuse(h)
              /\ UNCHANGED account
        /\ UNCHANGED <<recorded, disclosed>>

\* INSERT ... ON CONFLICT DO NOTHING, and the row read back: by subject, or else by
\* mailbox, and it must be this identity's account of this mailbox.
InsertVerified(h, w) ==
    LET s == work[h].subject
        e == work[h].email
    IN  /\ At(h, "insert") /\ e # AdminEmail /\ Fresh(w)
        /\ \/ /\ ~Exists(e) /\ ~BoundElsewhere(s, e)
              /\ account' = [account EXCEPT ![e] = Person(s, w)]
              /\ Tell(h, s, Person(s, w))
           \/ /\ Bound(s, e)
              /\ Tell(h, s, account[e])
              /\ UNCHANGED account
           \/ /\ ~Bound(s, e) /\ (Exists(e) \/ BoundElsewhere(s, e))
              /\ Refuse(h)
              /\ UNCHANGED account
        /\ UNCHANGED <<recorded, disclosed>>

-----------------------------------------------------------------------------
(* The super-admin's sign-in *)

\* bootstrap_super_admin's UPDATE compares nothing: of two that overlap, the last
\* one stands.  Only the unique index on auth_subject can refuse it.
Rebind(h) ==
    LET s == work[h].subject
    IN  /\ At(h, "rebind")
        /\ \/ /\ ~BoundElsewhere(s, AdminEmail)
              /\ account' = [account EXCEPT ![AdminEmail] = Admin(s)]
              /\ Go(h, "console")
              /\ UNCHANGED <<answers, refused>>
           \/ /\ BoundElsewhere(s, AdminEmail)
              /\ Refuse(h)
              /\ UNCHANGED account
        /\ UNCHANGED <<recorded, disclosed>>

InsertAdmin(h) ==
    LET s == work[h].subject
        row == IF Exists(AdminEmail) \/ BoundElsewhere(s, AdminEmail)
               THEN account[AdminEmail] ELSE Admin(s)
    IN  /\ At(h, "insert") /\ work[h].email = AdminEmail
        /\ account' = [account EXCEPT ![AdminEmail] = row]
        /\ \/ /\ row = Admin(s)
              /\ Go(h, "console") /\ UNCHANGED <<answers, refused>>
           \/ /\ row # Admin(s)
              /\ Refuse(h)
        /\ UNCHANGED <<recorded, disclosed>>

-----------------------------------------------------------------------------
(* Senders of email and Slack contracts *)

\* resolve_inbound_sender turns the super-admin's mailbox away; the Slack worker
\* knows it only by the role of an account that exists.
Arrive(h, e, slack) ==
    /\ At(h, "idle")
    /\ slack \/ e # AdminEmail
    /\ \/ /\ ~Exists(e)
          /\ work' = [work EXCEPT ![h] = [Idle EXCEPT !.pc = "sender", !.email = e]]
          /\ UNCHANGED answers
       \/ /\ account[e].role = "user"
          /\ answers' = answers \cup {[subject |-> None, email |-> e,
                                       workspace |-> account[e].workspace]}
          /\ UNCHANGED work
    /\ UNCHANGED <<account, refused, recorded, disclosed>>

\* provision_inbound_user reads the mailbox again.
ReadSender(h) ==
    LET e == work[h].email
    IN  /\ At(h, "sender")
        /\ \/ /\ ~Exists(e)
              /\ Go(h, "admit") /\ UNCHANGED <<answers, refused>>
           \/ /\ Exists(e)
              /\ Tell(h, None, account[e])
        /\ UNCHANGED <<account, recorded, disclosed>>

\* Mutant of InsertSender: the new workspace is answered without reading back
\* which row the mailbox has.
InsertSenderBlindly(h, w) ==
    LET e == work[h].email
        row == IF Exists(e) THEN account[e] ELSE Person(None, w)
    IN  /\ At(h, "admit") /\ Fresh(w)
        /\ account' = [account EXCEPT ![e] = row]
        /\ Tell(h, None, Person(None, w))
        /\ UNCHANGED <<recorded, disclosed>>

\* INSERT ... ON CONFLICT DO NOTHING, and the mailbox's row read back.
InsertSender(h, w) ==
    LET e == work[h].email
        row == IF Exists(e) THEN account[e] ELSE Person(None, w)
    IN  /\ At(h, "admit") /\ Fresh(w)
        /\ account' = [account EXCEPT ![e] = row]
        /\ Tell(h, None, row)
        /\ UNCHANGED <<recorded, disclosed>>

-----------------------------------------------------------------------------
(* Admin console *)

\* An admin handler reads an account, its contracts, or one contract, its document
\* or its signing with its owner, to answer with.
View(h, e) ==
    /\ At(h, "console") /\ Exists(e)
    /\ work' = [work EXCEPT ![h].pc = "record", ![h].email = e]
    /\ UNCHANGED <<account, answers, refused, recorded, disclosed>>

\* There is nothing of the kind: 404.
ViewNothing(h) ==
    /\ At(h, "console")
    /\ Leave(h)
    /\ UNCHANGED <<account, answers, refused, recorded, disclosed>>

\* The list of the accounts shows the mailbox, name, state and number of contracts
\* of every one of them, and the list of the access events the mailboxes in those:
\* no event is recorded, and `disclosed' does not count these answers.
List(h) ==
    /\ At(h, "console")
    /\ Leave(h)
    /\ UNCHANGED <<account, answers, refused, recorded, disclosed>>

\* Mutant of RecordAccess: the answer does not wait for the event's insertion.
RecordAccessLater(h) ==
    /\ At(h, "record") /\ recorded[work[h].email] < MaxViews
    /\ Go(h, "respond")
    /\ UNCHANGED <<account, answers, refused, recorded, disclosed>>

\* record_access_event commits in its own transaction, or fails and the handler
\* with it.
RecordAccess(h) ==
    /\ At(h, "record")
    /\ \/ /\ recorded[work[h].email] < MaxViews
          /\ recorded' = [recorded EXCEPT ![work[h].email] = @ + 1]
          /\ Go(h, "respond")
       \/ /\ Leave(h)
          /\ UNCHANGED recorded
    /\ UNCHANGED <<account, answers, refused, disclosed>>

Respond(h) ==
    /\ At(h, "respond")
    /\ disclosed' = [disclosed EXCEPT ![work[h].email] = @ + 1]
    /\ Leave(h)
    /\ UNCHANGED <<account, answers, refused, recorded>>

-----------------------------------------------------------------------------
(* Specification *)

BrowserStep(h) ==
    \/ \E s \in Subjects, e \in Emails : Enter(h, s, e)
    \/ ReadSubject(h) \/ ReadEmail(h) \/ Claim(h)
    \/ \E w \in Workspaces : InsertVerified(h, w)

AdminStep(h) ==
    \/ Rebind(h) \/ InsertAdmin(h)
    \/ \E e \in Emails : View(h, e)
    \/ ViewNothing(h) \/ List(h) \/ RecordAccess(h) \/ Respond(h)

SenderStep(h) ==
    \/ \E e \in Emails, slack \in BOOLEAN : Arrive(h, e, slack)
    \/ ReadSender(h)
    \/ \E w \in Workspaces : InsertSender(h, w)

Next == \E h \in Handlers : BrowserStep(h) \/ AdminStep(h) \/ SenderStep(h)

Spec == Init /\ [][Next]_vars

-----------------------------------------------------------------------------
(* Properties *)

\* A personal account keeps the identity that claimed it, its role and its workspace
\* for ever, however many sign-ins and messages of that mailbox overlap
\* (UserAccountConflictError: "one verified identity would take over another").
BindingsStick ==
    [][\A e \in Emails : account[e].role = "user" =>
          /\ account'[e].role = "user"
          /\ account'[e].workspace = account[e].workspace
          /\ account[e].subject # None => account'[e].subject = account[e].subject]_vars

\* What a handler was told of a personal account is still so: the mailbox has that
\* workspace, no other mailbox has it, and the identity it was told to is the one
\* the account is bound to.  Contracts that email, Slack and the browser bring in
\* for one person meet in one workspace.
AnswersStayTrue ==
    \A a \in answers :
        /\ account[a.email].role = "user"
        /\ account[a.email].workspace = a.workspace
        /\ a.subject # None => account[a.email].subject = a.subject
        /\ \A b \in answers : a.workspace = b.workspace => a.email = b.email

\* A person who was admitted once is never turned away again: every conflict that
\* resolve_verified_principal raises for lost races is one a retry gets over.
AdmittedStayAdmitted == \A x \in refused : ~x.known

\* No identity is bound to two accounts (the unique index on auth_subject, with
\* every handler that looked before another one bound it).
OneAccountPerIdentity ==
    \A e1, e2 \in Emails :
        (account[e1].subject = account[e2].subject /\ account[e1].subject # None) => e1 = e2

\* The admin console shows the page of an account, its contracts, a contract, its
\* document or its signing only after an access event for that answer is committed,
\* also when the insertion fails or many answers are under way.  What the lists show
\* of an account (routes.py:930) is outside of this: it goes unrecorded.
DisclosureIsRecorded == \A e \in Emails : disclosed[e] <= recorded[e]

=============================================================================
