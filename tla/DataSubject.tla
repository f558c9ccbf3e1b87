---------------------------- MODULE DataSubject ----------------------------
(***************************************************************************)
(* Data-subject requests (access, erasure, rectification):                 *)
(* apps/api/src/pdpl/data-subject.service.ts over its Prisma repositories.  *)
(*                                                                         *)
(* Every HTTP handler is a sequence of awaited database calls that share   *)
(* no transaction, so calls interleave between any two awaits and a call   *)
(* may die between them (a crashed instance, a failed query).  A call slot *)
(* holds one handler invocation; its pc names the next await.  What a      *)
(* handler read before an await and uses after it is type, subjectEmail    *)
(* and requestedBy, which no code ever changes, and the status, which is   *)
(* only checked before the await: a slot past its guard is exactly a call  *)
(* acting on a status that may be stale.                                   *)
(***************************************************************************)
EXTENDS Naturals, FiniteSets

CONSTANTS
    Users,       \* user rows; the code never deletes or creates one at run time
    Owners,      \* users whose token carries the Owner role
    Orgs,        \* organizations (tenants)
    HomeOrg,     \* user -> organization of the row and of the user's token
    Emails,      \* addresses that pass the '@' check
    EmailOf,     \* user -> address of the row before any erasure
    Requests,    \* ids of DataSubjectRequest rows
    Slots,       \* concurrently running handler invocations
    MaxCrashes,  \* bound on calls that die between two awaits
    NULL

ASSUME ConstantsAssumption ==
    /\ Owners \subseteq Users
    /\ HomeOrg \in [Users -> Orgs]
    /\ EmailOf \in [Users -> Emails]
    /\ \A u, v \in Users : EmailOf[u] = EmailOf[v] => u = v   \* User.email is unique
    /\ MaxCrashes \in Nat
    /\ NULL \notin Users /\ NULL \notin Requests /\ NULL \notin Emails
    /\ NULL \notin Orgs
    /\ NULL \notin {"access", "erasure", "rectification", "snapshot"}

VARIABLES
    requests,   \* the DataSubjectRequest table
    erased,     \* users whose row has been pseudonymised
    consents,   \* <<org, email>> pairs with at least one ConsentEvent row
    audit,      \* AuditEvent rows, without the ones no property tells apart
    calls,      \* the handler invocation in each slot
    crashes,    \* calls that died so far
    approvals   \* history: users whose approval of a request was written

vars == <<requests, erased, consents, audit, calls, crashes, approvals>>

Types == {"access", "erasure", "rectification"}
Statuses == {"absent", "pending", "approved", "denied", "completed"}
Payloads == {NULL, "snapshot", "erasure"}

\* A row of the table; status "absent" stands for a row not yet inserted.
RequestRow == [type : Types \cup {NULL}, subject : Emails \cup {NULL},
               requestedBy : Users \cup {NULL}, org : Orgs \cup {NULL},
               status : Statuses, decidedBy : Users \cup {NULL},
               payload : Payloads]

NoRow == [type |-> NULL, subject |-> NULL, requestedBy |-> NULL, org |-> NULL,
          status |-> "absent", decidedBy |-> NULL, payload |-> NULL]

\* "other" are the events of login and of the consent ledger.
AuditActions == {"requested", "approved", "denied", "executed", "other"}
AuditRow == [action : AuditActions, req : Requests \cup {NULL},
             user : Users \cup {NULL}]

\* The awaits a handler can be stopped at.
Awaits == {"auditRequested", "updateApproved", "auditApproved", "updateDenied",
           "auditDenied", "buildSnapshot", "findSubject", "anonymiseAudit",
           "anonymiseUser", "anonymiseConsents", "updateCompleted",
           "auditExecuted", "auditLogin", "auditConsent"}
Call == [pc : Awaits \cup {"idle"}, req : Requests \cup {NULL},
         actor : Users \cup {NULL}, found : Users \cup {NULL}]
Idle == [pc |-> "idle", req |-> NULL, actor |-> NULL, found |-> NULL]

Init ==
    /\ requests = [r \in Requests |-> NoRow]
    /\ erased = {}
    /\ consents = {}
    /\ audit = {}
    /\ calls = [c \in Slots |-> Idle]
    /\ crashes = 0
    /\ approvals = [r \in Requests |-> {}]

-----------------------------------------------------------------------------
(* Helpers shared by the handlers. *)

\* users.findByEmail: not scoped by organization, blind to erased rows.
UsersWithEmail(e) == {u \in Users \ erased : EmailOf[u] = e}

\* A handler stops at its first await with its arguments in hand.
Begin(c, pc, r, a) ==
    /\ calls[c].pc = "idle"
    /\ calls' = [calls EXCEPT ![c] = [pc |-> pc, req |-> r, actor |-> a, found |-> NULL]]

\* The call goes on to another await, holding the user it looked up, if any.
Moved(c, pc, u) == [pc |-> pc, req |-> calls[c].req, actor |-> calls[c].actor, found |-> u]
Goto(c, pc) == calls' = [calls EXCEPT ![c] = Moved(c, pc, calls[c].found)]
Return(c) == calls' = [calls EXCEPT ![c] = Idle]
At(c, pc) == calls[c].pc = pc

\* get(): only rows of the caller's organization are found.
Visible(r, a) == requests[r].status # "absent" /\ requests[r].org = HomeOrg[a]

DiffersFromRequestor(r, a) ==
    requests[r].requestedBy # NULL => requests[r].requestedBy # a

\* requests.update is WHERE id AND organizationId: the status is not rechecked.
Decide(r, status, a) ==
    requests' = [requests EXCEPT ![r] = [@ EXCEPT !.status = status, !.decidedBy = a]]

Complete(r, payload) ==
    requests' = [requests EXCEPT ![r] = [@ EXCEPT !.status = "completed", !.payload = payload]]

\* audit.record as the last await of a handler.
RecordAndReturn(c, action) ==
    /\ audit' = audit \cup {[action |-> action, req |-> calls[c].req,
                             user |-> calls[c].actor]}
    /\ Return(c)

-----------------------------------------------------------------------------
(* createRequest: insert the row, then audit it.  The caller is a signed-in *)
(* user of any role, or nobody (a mail to the data-subject inbox).          *)

CreateRequest(c, r, t, e, a, o) ==
    /\ requests[r].status = "absent"
    /\ a # NULL => o = HomeOrg[a]
    /\ Begin(c, "auditRequested", r, a)
    /\ requests' = [requests EXCEPT ![r] =
                      [type |-> t, subject |-> e, requestedBy |-> a, org |-> o,
                       status |-> "pending", decidedBy |-> NULL, payload |-> NULL]]
    /\ UNCHANGED <<erased, consents, audit, crashes, approvals>>

AuditRequested(c) ==
    /\ At(c, "auditRequested")
    /\ RecordAndReturn(c, "requested")
    /\ UNCHANGED <<requests, erased, consents, crashes, approvals>>

(* approve: read and check, update, audit. *)

\* Mutant: no separation of duties.
ApproveGuardSelf(r, a) ==
    a \in Owners /\ Visible(r, a) /\ requests[r].status = "pending"

ApproveGuard(r, a) ==
    /\ a \in Owners
    /\ Visible(r, a)
    /\ requests[r].status = "pending"
    /\ DiffersFromRequestor(r, a)

\* Mutant: the event is recorded before the update it describes.
StartApproveAuditFirst(c, r, a) ==
    /\ ApproveGuard(r, a)
    /\ Begin(c, "updateApproved", r, a)
    /\ audit' = audit \cup {[action |-> "approved", req |-> r, user |-> a]}
    /\ UNCHANGED <<requests, erased, consents, crashes, approvals>>

StartApprove(c, r, a) ==
    /\ ApproveGuard(r, a)
    /\ Begin(c, "updateApproved", r, a)
    /\ UNCHANGED <<requests, erased, consents, audit, crashes, approvals>>

UpdateApproved(c) ==
    /\ At(c, "updateApproved")
    /\ Decide(calls[c].req, "approved", calls[c].actor)
    /\ approvals' = [approvals EXCEPT ![calls[c].req] = @ \cup {calls[c].actor}]
    /\ Goto(c, "auditApproved")
    /\ UNCHANGED <<erased, consents, audit, crashes>>

AuditApproved(c) ==
    /\ At(c, "auditApproved")
    /\ RecordAndReturn(c, "approved")
    /\ UNCHANGED <<requests, erased, consents, crashes, approvals>>

(* deny: as approve, without the comparison with the requestor. *)

DenyGuard(r, a) ==
    /\ a \in Owners
    /\ Visible(r, a)
    /\ requests[r].status = "pending"

StartDeny(c, r, a) ==
    /\ DenyGuard(r, a)
    /\ Begin(c, "updateDenied", r, a)
    /\ UNCHANGED <<requests, erased, consents, audit, crashes, approvals>>

UpdateDenied(c) ==
    /\ At(c, "updateDenied")
    /\ Decide(calls[c].req, "denied", calls[c].actor)
    /\ Goto(c, "auditDenied")
    /\ UNCHANGED <<erased, consents, audit, crashes, approvals>>

AuditDenied(c) ==
    /\ At(c, "auditDenied")
    /\ RecordAndReturn(c, "denied")
    /\ UNCHANGED <<requests, erased, consents, crashes, approvals>>

(* execute: check, do what the type asks for, mark completed, audit. *)

\* Mutant: any request that is not denied may be executed.
ExecuteGuardNotDenied(r, a) ==
    a \in Owners /\ Visible(r, a) /\ requests[r].status # "denied" /\ DiffersFromRequestor(r, a)

ExecuteGuard(r, a) ==
    /\ a \in Owners
    /\ Visible(r, a)
    /\ requests[r].status = "approved"
    /\ DiffersFromRequestor(r, a)

FirstStep(t) == IF t = "access" THEN "buildSnapshot"
                ELSE IF t = "erasure" THEN "findSubject" ELSE "updateCompleted"

StartExecute(c, r, a) ==
    /\ ExecuteGuard(r, a)
    /\ Begin(c, FirstStep(requests[r].type), r, a)
    /\ UNCHANGED <<requests, erased, consents, audit, crashes, approvals>>

\* buildAccessSnapshot: four reads whose result only reaches the payload.
BuildSnapshot(c) ==
    /\ At(c, "buildSnapshot")
    /\ Goto(c, "updateCompleted")
    /\ UNCHANGED <<requests, erased, consents, audit, crashes, approvals>>

\* Mutants: a missing user ends the call; the user row is left alone.
FindSubjectOrThrow(c) ==
    /\ At(c, "findSubject")
    /\ LET us == UsersWithEmail(requests[calls[c].req].subject) IN
         \/ us = {} /\ Return(c)
         \/ \E u \in us :
              calls' = [calls EXCEPT ![c] = Moved(c, "anonymiseAudit", u)]
    /\ UNCHANGED <<requests, erased, consents, audit, crashes, approvals>>

FindSubjectConsentsOnly(c) ==
    /\ At(c, "findSubject")
    /\ Goto(c, "anonymiseConsents")
    /\ UNCHANGED <<requests, erased, consents, audit, crashes, approvals>>

\* executeErasure: look the subject up; without a user only consents remain.
FindSubject(c) ==
    /\ At(c, "findSubject")
    /\ LET us == UsersWithEmail(requests[calls[c].req].subject) IN
         \/ /\ us = {}
            /\ Goto(c, "anonymiseConsents")
         \/ \E u \in us :
              calls' = [calls EXCEPT ![c] = Moved(c, "anonymiseAudit", u)]
    /\ UNCHANGED <<requests, erased, consents, audit, crashes, approvals>>

\* Audit rows of the user in this organization lose their userId (a user only
\* ever writes rows in the home organization).
AnonymiseAudit(c) ==
    /\ At(c, "anonymiseAudit")
    /\ LET u == calls[c].found
           here(row) == row.user = u /\ HomeOrg[u] = requests[calls[c].req].org
       IN audit' = {IF here(row) THEN [row EXCEPT !.user = NULL] ELSE row : row \in audit}
    /\ Goto(c, "anonymiseUser")
    /\ UNCHANGED <<requests, erased, consents, crashes, approvals>>

\* Mutant: users.anonymise by id alone.
AnonymiseUserAnyOrg(c) ==
    /\ At(c, "anonymiseUser")
    /\ erased' = erased \cup {calls[c].found}
    /\ Goto(c, "anonymiseConsents")
    /\ UNCHANGED <<requests, consents, audit, crashes, approvals>>

\* users.anonymise throws for a row of another organization: the call ends there.
AnonymiseUser(c) ==
    /\ At(c, "anonymiseUser")
    /\ \/ /\ HomeOrg[calls[c].found] = requests[calls[c].req].org
          /\ erased' = erased \cup {calls[c].found}
          /\ Goto(c, "anonymiseConsents")
       \/ /\ HomeOrg[calls[c].found] # requests[calls[c].req].org
          /\ Return(c)
          /\ UNCHANGED erased
    /\ UNCHANGED <<requests, consents, audit, crashes, approvals>>

AnonymiseConsents(c) ==
    /\ At(c, "anonymiseConsents")
    /\ LET q == requests[calls[c].req]
       IN consents' = consents \ {<<q.org, q.subject>>}
    /\ Goto(c, "updateCompleted")
    /\ UNCHANGED <<requests, erased, audit, crashes, approvals>>

PayloadOf(t) == IF t = "access" THEN "snapshot"
                ELSE IF t = "erasure" THEN "erasure" ELSE NULL

\* Mutant: a status the type does not have.
UpdateExecuted(c) ==
    /\ At(c, "updateCompleted")
    /\ requests' = [requests EXCEPT ![calls[c].req].status = "executed"]
    /\ Goto(c, "auditExecuted")
    /\ UNCHANGED <<erased, consents, audit, crashes, approvals>>

UpdateCompleted(c) ==
    /\ At(c, "updateCompleted")
    /\ LET q == requests[calls[c].req]
       IN Complete(calls[c].req,
                   IF q.type = "rectification" THEN q.payload ELSE PayloadOf(q.type))
    /\ Goto(c, "auditExecuted")
    /\ UNCHANGED <<erased, consents, audit, crashes, approvals>>

AuditExecuted(c) ==
    /\ At(c, "auditExecuted")
    /\ RecordAndReturn(c, "executed")
    /\ UNCHANGED <<requests, erased, consents, crashes, approvals>>

-----------------------------------------------------------------------------
(* The other writers of the tables an erasure touches. *)

\* auth.login: an erased row has no password, so it never validates.
StartLogin(c, u) ==
    /\ u \notin erased
    /\ Begin(c, "auditLogin", NULL, u)
    /\ UNCHANGED <<requests, erased, consents, audit, crashes, approvals>>

AuditLogin(c) ==
    /\ At(c, "auditLogin")
    /\ RecordAndReturn(c, "other")
    /\ UNCHANGED <<requests, erased, consents, crashes, approvals>>

\* consent-ledger.record: append an event for the subject, then audit it.
RecordConsent(c, u, e) ==
    /\ Begin(c, "auditConsent", NULL, u)
    /\ consents' = consents \cup {<<HomeOrg[u], e>>}
    /\ UNCHANGED <<requests, erased, audit, crashes, approvals>>

AuditConsent(c) ==
    /\ At(c, "auditConsent")
    /\ RecordAndReturn(c, "other")
    /\ UNCHANGED <<requests, erased, consents, crashes, approvals>>

\* A call dies between two awaits; what it wrote stays.
Crash(c) ==
    /\ calls[c].pc # "idle"
    /\ crashes < MaxCrashes
    /\ crashes' = crashes + 1
    /\ Return(c)
    /\ UNCHANGED <<requests, erased, consents, audit, approvals>>

-----------------------------------------------------------------------------

\* The awaits of a running call, in the order the handlers make them.
Step(c) ==
    \/ AuditRequested(c)
    \/ UpdateApproved(c) \/ AuditApproved(c)
    \/ UpdateDenied(c) \/ AuditDenied(c)
    \/ BuildSnapshot(c)
    \/ FindSubject(c) \/ AnonymiseAudit(c) \/ AnonymiseUser(c) \/ AnonymiseConsents(c)
    \/ UpdateCompleted(c) \/ AuditExecuted(c)
    \/ AuditLogin(c) \/ AuditConsent(c)

\* A client's request reaches a free slot.
Arrive(c) ==
    \/ \E r \in Requests, t \in Types, e \in Emails, a \in Users \cup {NULL}, o \in Orgs :
         CreateRequest(c, r, t, e, a, o)
    \/ \E r \in Requests, a \in Users :
         StartApprove(c, r, a) \/ StartDeny(c, r, a) \/ StartExecute(c, r, a)
    \/ \E u \in Users : StartLogin(c, u)
    \/ \E u \in Users, e \in Emails : RecordConsent(c, u, e)

Next == \E c \in Slots : Arrive(c) \/ Step(c) \/ Crash(c)

Spec == Init /\ [][Next]_vars

(***************************************************************************)
(* A running handler runs on until it returns or dies, and an owner other  *)
(* than the requestor keeps calling execute while the request is approved. *)
(***************************************************************************)
Fairness ==
    /\ \A c \in Slots : WF_vars(Step(c))
    /\ \A r \in Requests :
         SF_vars(\E c \in Slots, a \in Users : StartExecute(c, r, a))

FairSpec == Spec /\ Fairness

-----------------------------------------------------------------------------
(* Properties *)

\* Every variable has the shape of the table or call it stands for.
TypeOK ==
    /\ requests \in [Requests -> RequestRow]
    /\ erased \subseteq Users
    /\ consents \subseteq Orgs \X Emails
    /\ audit \subseteq AuditRow
    /\ calls \in [Slots -> Call]
    /\ crashes \in Nat
    /\ approvals \in [Requests -> SUBSET Users]

\* Separation of duties for every effect: a user row is only pseudonymised when
\* an erasure request for that person, in the person's own organization, was
\* approved by somebody other than the requestor, whatever calls raced with it
\* (execute's guard and executeErasure).
ErasureAuthorised ==
    \A u \in erased :
      \E r \in Requests :
        /\ requests[r].type = "erasure"
        /\ requests[r].subject = EmailOf[u]
        /\ requests[r].org = HomeOrg[u]
        /\ approvals[r] \ {requests[r].requestedBy} # {}

\* A request that is approved, or was ever completed, was approved by somebody
\* other than its requestor (approve and execute; stale updates included).
CompletionApproved ==
    \A r \in Requests :
      requests[r].status \in {"approved", "completed"} =>
         /\ approvals[r] # {}
         /\ requests[r].requestedBy \notin approvals[r]

\* An audit event never claims a decision or an execution that was not written
\* before it (the audit call is the last await of each handler).
AuditTruthful ==
    \A row \in audit :
      /\ row.action = "approved" => approvals[row.req] # {}
      /\ row.action = "executed" =>
            /\ approvals[row.req] # {}
            /\ requests[row.req].type # "rectification" =>
                   requests[row.req].payload = PayloadOf(requests[row.req].type)

\* Once an erasure has been recorded in the payload, no user row can be found by
\* the subject's address any more (executeErasure, crash and retry included).
ErasureEffective ==
    \A r \in Requests :
      requests[r].payload = "erasure" => UsersWithEmail(requests[r].subject) = {}

\* No account of another organization uses the subject's address.
SubjectLocal(r) ==
    \A u \in Users : EmailOf[u] = requests[r].subject => HomeOrg[u] = requests[r].org

\* An approved request whose subject has no account in another organization is
\* eventually completed or denied if an owner keeps executing it: an erasure
\* that died between any two of its writes can always be finished by a retry.
ExecutionFinishes ==
    \A r \in Requests :
      (requests[r].status = "approved" /\ SubjectLocal(r))
         ~> (requests[r].status \in {"completed", "denied"})

-----------------------------------------------------------------------------
(* The inductive strengthening behind the safety properties: what a call    *)
(* that has passed its guard may still rely on, whatever raced with it.     *)

ExecuteAwaits == {"buildSnapshot", "findSubject", "anonymiseAudit", "anonymiseUser",
                  "anonymiseConsents", "updateCompleted", "auditExecuted"}
RequestAwaits == Awaits \ {"auditLogin", "auditConsent"}

\* The facts about the request a call works on.
CallRow(k) ==
    /\ k.pc \in RequestAwaits => k.req \in Requests /\ requests[k.req].status # "absent"
    /\ k.pc \in Awaits \ {"auditRequested"} => k.actor \in Users
    /\ k.pc = "updateApproved" => requests[k.req].requestedBy # k.actor
    /\ k.pc \in ExecuteAwaits \cup {"auditApproved"} => approvals[k.req] # {}

\* The facts about the subject an erasure works on.
CallSubject(k) ==
    /\ k.pc = "buildSnapshot" => requests[k.req].type = "access"
    /\ k.pc \in {"findSubject", "anonymiseAudit", "anonymiseUser", "anonymiseConsents"} =>
           requests[k.req].type = "erasure"
    /\ k.pc \in {"anonymiseAudit", "anonymiseUser"} =>
           k.found \in Users /\ EmailOf[k.found] = requests[k.req].subject
    /\ k.pc \in {"anonymiseConsents", "updateCompleted"} /\ requests[k.req].type = "erasure" =>
           UsersWithEmail(requests[k.req].subject) = {}
    /\ k.pc = "auditExecuted" /\ requests[k.req].type # "rectification" =>
           requests[k.req].payload = PayloadOf(requests[k.req].type)

RowInv(r) ==
    /\ requests[r].requestedBy \notin approvals[r]
    /\ requests[r].status = "absent" => approvals[r] = {}
    /\ requests[r].status # "absent" => requests[r].type \in Types
    /\ requests[r].status \in {"approved", "completed"} => approvals[r] # {}

IInv ==
    /\ TypeOK
    /\ \A c \in Slots : CallRow(calls[c]) /\ CallSubject(calls[c])
    /\ \A r \in Requests : RowInv(r)
    /\ \A row \in audit : row.action \in {"approved", "executed"} => row.req \in Requests
    /\ ErasureAuthorised
    /\ AuditTruthful
    /\ ErasureEffective
=============================================================================
