----------------------------- MODULE Retention -----------------------------
(***************************************************************************)
(* Retention actions of one organization: request, approve, deny and the   *)
(* sweep, apps/api/src/pdpl/retention-action.service.ts.  A sweep is fired  *)
(* by an owner, by the in-process cron of any API instance and by the      *)
(* cloud scheduler; it is one long handler that awaits several times per   *)
(* document.  As everywhere in this API, an await is an interleaving       *)
(* point and no transaction spans two of them.                             *)
(***************************************************************************)
EXTENDS Naturals, FiniteSets

CONSTANTS
    Docs,        \* ClientDocument ids of the organization
    Staff,       \* users with a row in User, who sign in
    Deciders,    \* staff with role Owner or DocController
    Systems,     \* actor ids of the schedulers, which have no row in User
    Rows,        \* ids of RetentionAction rows
    MaxPerDoc,   \* bound on rows created for one document
    Slots,       \* concurrently running handler invocations
    MaxCrashes,  \* bound on calls that die between two awaits
    NULL

Actors == Staff \cup Systems

ASSUME ConstantsAssumption ==
    /\ Deciders \subseteq Staff
    /\ Staff \cap Systems = {}
    /\ MaxCrashes \in Nat /\ MaxPerDoc \in Nat
    /\ Cardinality(Rows) >= MaxPerDoc * Cardinality(Docs)
    /\ NULL \notin Actors /\ NULL \notin Rows /\ NULL \notin Docs

VARIABLES
    present,   \* documents that exist
    elapsed,   \* documents whose retention policy end has passed
    rows,      \* the RetentionAction table
    audit,     \* events written: <<event, row>>
    calls,     \* the handler invocation in each slot
    crashes

vars == <<present, elapsed, rows, audit, calls, crashes>>

Row == [doc : Docs \cup {NULL}, by : Actors \cup {NULL}, auto : BOOLEAN,
        status : {"absent", "pending", "approved", "denied"},
        decidedBy : Staff \cup {NULL}]
NoRow == [doc |-> NULL, by |-> NULL, auto |-> FALSE, status |-> "absent", decidedBy |-> NULL]

Awaits == {"sweepNext", "findDoc", "create", "auditRequested", "updateApproved",
           "auditApproved", "updateDenied", "auditDenied"}
\* todo and sweep are the loop of a sweep; doc and row what it works on.
Call == [pc : Awaits \cup {"idle"}, actor : Actors \cup {NULL}, doc : Docs \cup {NULL},
         row : Rows \cup {NULL}, sweep : BOOLEAN, todo : SUBSET Docs]
Idle == [pc |-> "idle", actor |-> NULL, doc |-> NULL, row |-> NULL,
         sweep |-> FALSE, todo |-> {}]

Init ==
    /\ present = Docs
    /\ elapsed = {}
    /\ rows = [r \in Rows |-> NoRow]
    /\ audit = {}
    /\ calls = [c \in Slots |-> Idle]
    /\ crashes = 0

-----------------------------------------------------------------------------
At(c, pc) == calls[c].pc = pc
Begin(c, k) == calls[c].pc = "idle" /\ calls' = [calls EXCEPT ![c] = k]
Become(c, k) == calls' = [calls EXCEPT ![c] = k]
Return(c) == Become(c, Idle)

InFlight(r, d) == rows[r].doc = d /\ rows[r].status \in {"pending", "approved"}

\* audit.record connects the user row: it throws for an actor without one.
CanAudit(a) == a \in Staff

\* Time passes a document's expiry; a failed upload takes its row away again.
Elapse(d) ==
    /\ d \in present \ elapsed
    /\ elapsed' = elapsed \cup {d}
    /\ UNCHANGED <<present, rows, audit, calls, crashes>>

DeleteDocument(d) ==
    /\ d \in present
    /\ present' = present \ {d}
    /\ UNCHANGED <<elapsed, rows, audit, calls, crashes>>

-----------------------------------------------------------------------------
(* request: the tenant guard, the insert, the event.  Used by the endpoint  *)
(* (no check for a row in flight) and by the sweep, whose loop goes on      *)
(* after it and ends with whatever request throws.                          *)

StartRequest(c, a, d) ==
    /\ a \in Staff
    /\ Begin(c, [Idle EXCEPT !.pc = "findDoc", !.actor = a, !.doc = d])
    /\ UNCHANGED <<present, elapsed, rows, audit, crashes>>

FindDoc(c) ==
    /\ At(c, "findDoc")
    /\ \/ /\ calls[c].doc \in present
          /\ Become(c, [calls[c] EXCEPT !.pc = "create"])
       \/ /\ calls[c].doc \notin present
          /\ Return(c)
    /\ UNCHANGED <<present, elapsed, rows, audit, crashes>>

\* A generated id: any one not in use will do.
FreshRow == CHOOSE r \in Rows : rows[r].status = "absent"

Full(d) ==
    \/ Cardinality({s \in Rows : rows[s].doc = d}) >= MaxPerDoc
    \/ \A s \in Rows : rows[s].status # "absent"

\* The bound on rows stands for an insert that fails.
CreateRow(c) ==
    /\ At(c, "create")
    /\ ~Full(calls[c].doc)
    /\ rows' = [rows EXCEPT ![FreshRow] = [doc |-> calls[c].doc, by |-> calls[c].actor,
                                           auto |-> calls[c].sweep, status |-> "pending",
                                           decidedBy |-> NULL]]
    /\ Become(c, [calls[c] EXCEPT !.pc = "auditRequested", !.row = FreshRow])
    /\ UNCHANGED <<present, elapsed, audit, crashes>>

CreateFails(c) ==
    /\ At(c, "create")
    /\ Full(calls[c].doc)
    /\ Return(c)
    /\ UNCHANGED <<present, elapsed, rows, audit, crashes>>

AuditRequested(c) ==
    /\ At(c, "auditRequested")
    /\ \/ /\ CanAudit(calls[c].actor)
          /\ audit' = audit \cup {<<"requested", calls[c].row>>}
          /\ IF calls[c].sweep
             THEN Become(c, [calls[c] EXCEPT !.pc = "sweepNext", !.doc = NULL, !.row = NULL])
             ELSE Return(c)
       \/ /\ ~CanAudit(calls[c].actor)
          /\ Return(c)
          /\ UNCHANGED audit
    /\ UNCHANGED <<present, elapsed, rows, crashes>>

(* approve and deny. *)

\* Mutant: no separation of duties.
ApproveGuardSelf(r, a) == a \in Deciders /\ rows[r].status = "pending"

ApproveGuard(r, a) ==
    /\ a \in Deciders
    /\ rows[r].status = "pending"
    /\ rows[r].by # a

StartApprove(c, r, a) ==
    /\ ApproveGuard(r, a)
    /\ Begin(c, [Idle EXCEPT !.pc = "updateApproved", !.actor = a, !.row = r])
    /\ UNCHANGED <<present, elapsed, rows, audit, crashes>>

StartDeny(c, r, a) ==
    /\ a \in Deciders
    /\ rows[r].status = "pending"
    /\ Begin(c, [Idle EXCEPT !.pc = "updateDenied", !.actor = a, !.row = r])
    /\ UNCHANGED <<present, elapsed, rows, audit, crashes>>

\* repo.update does not look at the status again.
Update(c, status, pc) ==
    /\ rows' = [rows EXCEPT ![calls[c].row] =
                  [@ EXCEPT !.status = status, !.decidedBy = calls[c].actor]]
    /\ Become(c, [calls[c] EXCEPT !.pc = pc])
    /\ UNCHANGED <<present, elapsed, audit, crashes>>

UpdateApproved(c) == At(c, "updateApproved") /\ Update(c, "approved", "auditApproved")
UpdateDenied(c) == At(c, "updateDenied") /\ Update(c, "denied", "auditDenied")

Decision(pc) == IF pc = "auditApproved" THEN "approved" ELSE "denied"

\* Mutant: a denial leaves no event.
AuditApprovalOnly(c) ==
    /\ calls[c].pc \in {"auditApproved", "auditDenied"}
    /\ audit' = IF At(c, "auditApproved") THEN audit \cup {<<"approved", calls[c].row>>} ELSE audit
    /\ Return(c)
    /\ UNCHANGED <<present, elapsed, rows, crashes>>

AuditDecision(c) ==
    /\ calls[c].pc \in {"auditApproved", "auditDenied"}
    /\ audit' = audit \cup {<<Decision(calls[c].pc), calls[c].row>>}
    /\ Return(c)
    /\ UNCHANGED <<present, elapsed, rows, crashes>>

-----------------------------------------------------------------------------
(* sweep: read all documents, keep those elapsed at the time it started,    *)
(* then per document look for a row in flight and request a destruction     *)
(* when there is none.                                                      *)

\* Mutant: the policy is not consulted.
SweepListAll == present

\* findAll, and RetentionService.evaluate on toRetentionInputs at the sweep's
\* start time: the policy end is expiresAt, so an expired document is always
\* eligible and never merely flagged.
SweepList == present \cap elapsed

StartSweep(c, a) ==
    /\ a \in Deciders \cup Systems
    /\ Begin(c, [Idle EXCEPT !.pc = "sweepNext", !.actor = a, !.sweep = TRUE, !.todo = SweepList])
    /\ UNCHANGED <<present, elapsed, rows, audit, crashes>>

\* Mutants: only a pending row counts as in flight; rows of any document count.
SkipsPending(d) == \E r \in Rows : rows[r].doc = d /\ rows[r].status = "pending"
SkipsForAny(d) == \E r \in Rows : InFlight(r, rows[r].doc)

\* findForDocument returns a pending or approved row.
Skips(d) == \E r \in Rows : InFlight(r, d)

SweepDocument(c) ==
    /\ At(c, "sweepNext")
    /\ \E d \in calls[c].todo :
         \/ /\ Skips(d)
            /\ Become(c, [calls[c] EXCEPT !.todo = @ \ {d}])
         \/ /\ ~Skips(d)
            /\ Become(c, [calls[c] EXCEPT !.pc = "findDoc", !.doc = d, !.todo = @ \ {d}])
    /\ UNCHANGED <<present, elapsed, rows, audit, crashes>>

SweepDone(c) ==
    /\ At(c, "sweepNext")
    /\ calls[c].todo = {}
    /\ Return(c)
    /\ UNCHANGED <<present, elapsed, rows, audit, crashes>>

Crash(c) ==
    /\ calls[c].pc # "idle"
    /\ crashes < MaxCrashes
    /\ crashes' = crashes + 1
    /\ Return(c)
    /\ UNCHANGED <<present, elapsed, rows, audit>>

-----------------------------------------------------------------------------
Step(c) ==
    \/ FindDoc(c) \/ CreateRow(c) \/ CreateFails(c) \/ AuditRequested(c)
    \/ UpdateApproved(c) \/ UpdateDenied(c) \/ AuditDecision(c)
    \/ SweepDocument(c) \/ SweepDone(c)

Arrive(c) ==
    \/ \E a \in Staff, d \in Docs : StartRequest(c, a, d)
    \/ \E a \in Staff, r \in Rows : StartApprove(c, r, a) \/ StartDeny(c, r, a)
    \/ \E a \in Actors : StartSweep(c, a)

Next ==
    \/ \E c \in Slots : Arrive(c) \/ Step(c) \/ Crash(c)
    \/ \E d \in Docs : Elapse(d) \/ DeleteDocument(d)

Spec == Init /\ [][Next]_vars

(***************************************************************************)
(* A running handler runs on; the schedulers fire every day.               *)
(***************************************************************************)
Fairness ==
    /\ \A c \in Slots : WF_vars(Step(c))
    /\ SF_vars(\E c \in Slots, a \in Systems : StartSweep(c, a))

FairSpec == Spec /\ Fairness

-----------------------------------------------------------------------------
(* Properties *)

\* The shapes of the tables and of the running calls.
TypeOK ==
    /\ present \subseteq Docs /\ elapsed \subseteq Docs
    /\ rows \in [Rows -> Row]
    /\ audit \subseteq {"requested", "approved", "denied"} \X Rows
    /\ calls \in [Slots -> Call]
    /\ crashes \in Nat

\* Separation of duties: a destruction stands approved only on the word of a
\* member of staff other than whoever asked for it (approve; racing denials and
\* second approvals included).
ApprovedByAnother ==
    \A r \in Rows : rows[r].status = "approved" =>
        rows[r].decidedBy \in Deciders \ {rows[r].by}

\* The trail is complete: unless a call died or still has to write its event,
\* every decision, and every request by a user, is in the audit trail.
TrailComplete ==
    \A r \in Rows :
      (crashes = 0 /\ rows[r].status # "absent" /\ \A c \in Slots : calls[c].row # r) =>
         /\ rows[r].by \in Staff => <<"requested", r>> \in audit
         /\ rows[r].status # "pending" => <<rows[r].status, r>> \in audit

\* A sweep only ever asks to destroy documents whose retention policy had
\* elapsed, although it decides on a list read many awaits earlier.
SweepOnlyElapsed ==
    \A r \in Rows : rows[r].auto => rows[r].doc \in elapsed

\* Sweeps do not pile up: a document never has two destructions in flight that
\* sweeps asked for (the findForDocument check before request).
NoDuplicateSweep ==
    \A r, s \in Rows :
      (r # s /\ rows[r].auto /\ rows[s].auto /\ rows[r].doc # NULL)
         => ~(InFlight(r, rows[r].doc) /\ InFlight(s, rows[r].doc))

\* While nobody denies, every elapsed document that is not deleted gets its
\* request, although a scheduler's sweep ends at the first row it creates: the
\* next daily sweep goes on where the last one failed.
ElapsedIsRequested ==
    [](\A r \in Rows : rows[r].status # "denied") =>
    \A d \in Docs :
      (d \in elapsed \cap present) ~>
         (d \notin present \/ \E r \in Rows : rows[r].doc = d)

=============================================================================
