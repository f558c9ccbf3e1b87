-------------------------- MODULE RetentionProofs --------------------------
(***************************************************************************)
(* Machine-checked proofs about Retention, for every set of documents,     *)
(* people, rows and concurrent calls.                                      *)
(***************************************************************************)
EXTENDS Retention, TLAPS

Approving == {"updateApproved", "auditApproved"}
Deciding == {"updateDenied", "auditDenied"} \cup Approving

\* What a call may rely on although it read its row some awaits ago: rows never
\* go away and never change hands.
CallRow(k) ==
    /\ k.pc \in Deciding =>
         /\ k.row \in Rows /\ k.actor \in Deciders
         /\ rows[k.row].status # "absent"
    /\ k.pc \in Approving => rows[k.row].by # k.actor
    /\ k.pc = "auditRequested" =>
         /\ k.row \in Rows /\ rows[k.row].by = k.actor
         /\ rows[k.row].status # "absent"
    /\ k.pc \in {"idle", "sweepNext", "findDoc", "create"} => k.row = NULL

\* What a sweep, and the request it makes, may rely on: time only passes.
CallSweep(k) ==
    /\ k.pc \in {"findDoc", "create"} => k.doc \in Docs /\ k.actor \in Actors
    /\ k.pc = "sweepNext" => k.sweep /\ k.actor \in Actors
    /\ k.sweep => k.todo \subseteq elapsed
    /\ (k.sweep /\ k.doc # NULL) => k.doc \in elapsed

\* An absent row is empty and a present one complete.
RowInv(r) ==
    /\ rows[r].status = "absent" => rows[r] = NoRow
    /\ rows[r].status # "absent" => rows[r].doc \in Docs /\ rows[r].by \in Actors

\* The events of a row that were written or are still to be written.
Trail(r) ==
    (crashes = 0 /\ rows[r].status # "absent") =>
      /\ rows[r].by \in Staff =>
           \/ <<"requested", r>> \in audit
           \/ \E c \in Slots : At(c, "auditRequested") /\ calls[c].row = r
      /\ rows[r].status # "pending" =>
           \/ <<rows[r].status, r>> \in audit
           \/ \E c \in Slots : /\ calls[c].pc \in {"auditApproved", "auditDenied"}
                               /\ Decision(calls[c].pc) = rows[r].status
                               /\ calls[c].row = r

IInv ==
    /\ TypeOK
    /\ \A c \in Slots : CallRow(calls[c]) /\ CallSweep(calls[c])
    /\ \A r \in Rows : RowInv(r) /\ Trail(r)
    /\ ApprovedByAnother
    /\ SweepOnlyElapsed

\* One call at a time.
OneCall == \A c, d \in Slots : c = d

\* What a lone call has read is still so when it writes.
CallFresh(k) ==
    /\ k.pc \in {"updateApproved", "updateDenied"} => rows[k.row].status = "pending"
    /\ (k.sweep /\ k.pc \in {"findDoc", "create"}) => ~Skips(k.doc)

LoneInv == NoDuplicateSweep /\ \A c \in Slots : CallFresh(calls[c])

-----------------------------------------------------------------------------
\* No call runs and no row exists at the start.
LEMMA InitInv == Init => IInv
  <1> SUFFICES ASSUME Init PROVE IInv
    OBVIOUS
  <1>1. TypeOK
    BY DEF Init, TypeOK, NoRow, Row, Idle, Call
  <1>2. \A c \in Slots : CallRow(calls[c]) /\ CallSweep(calls[c])
    BY DEF Init, CallRow, CallSweep, Idle, Deciding, Approving
  <1>3. \A r \in Rows : RowInv(r) /\ Trail(r)
    BY DEF Init, RowInv, Trail, NoRow
  <1>4. ApprovedByAnother /\ SweepOnlyElapsed
    BY DEF Init, ApprovedByAnother, SweepOnlyElapsed, NoRow
  <1> QED
    BY <1>1, <1>2, <1>3, <1>4 DEF IInv

\* A finished or dead call relies on nothing.
LEMMA IdleCall == Idle \in Call /\ CallRow(Idle) /\ CallSweep(Idle)
  BY DEF Idle, Call, CallRow, CallSweep, Deciding, Approving

\* A call that has no event to write enters, moves on or returns.
LEMMA MoveStep ==
  ASSUME IInv, NEW c \in Slots,
         UNCHANGED <<present, elapsed, rows, audit, crashes>>,
         NEW k \in Call, calls' = [calls EXCEPT ![c] = k],
         CallRow(k), CallSweep(k),
         calls[c].pc \notin {"auditRequested", "auditApproved", "auditDenied"}
  PROVE  IInv'
  <1>1. calls' \in [Slots -> Call] /\ calls'[c] = k
    BY DEF IInv, TypeOK
  <1>2. \A d \in Slots \ {c} : calls'[d] = calls[d]
    BY DEF IInv, TypeOK
  <1>3. TypeOK'
    BY <1>1 DEF IInv, TypeOK
  <1>4. \A d \in Slots : CallRow(calls[d])' /\ CallSweep(calls[d])'
    BY <1>1, <1>2 DEF IInv, CallRow, CallSweep
  <1>5. \A r \in Rows : RowInv(r)'
    BY DEF IInv, RowInv
  <1>6. \A r \in Rows : Trail(r)'
    BY <1>1, <1>2 DEF IInv, Trail, At
  <1>7. ApprovedByAnother' /\ SweepOnlyElapsed'
    BY DEF IInv, ApprovedByAnother, SweepOnlyElapsed
  <1> QED
    BY <1>3, <1>4, <1>5, <1>6, <1>7 DEF IInv

\* The handlers that have no event to write are such moves.
LEMMA MoveSteps ==
  ASSUME IInv, NEW c \in Slots,
         Arrive(c) \/ FindDoc(c) \/ CreateFails(c) \/ SweepDocument(c) \/ SweepDone(c)
  PROVE  IInv'
  <1>1. calls[c] \in Call /\ CallRow(calls[c]) /\ CallSweep(calls[c])
    BY DEF IInv, TypeOK
  <1>2. CASE Arrive(c)
    <2>1. CASE \E a \in Staff, d \in Docs : StartRequest(c, a, d)
      <3>1. PICK a \in Staff, d \in Docs : StartRequest(c, a, d)
        BY <2>1
      <3> DEFINE k == [Idle EXCEPT !.pc = "findDoc", !.actor = a, !.doc = d]
      <3>2. k \in Call /\ CallRow(k) /\ CallSweep(k)
        BY DEF Idle, Call, Awaits, Actors, CallRow, CallSweep, Deciding, Approving
      <3> QED
        BY <3>1, <3>2, MoveStep DEF StartRequest, Begin
    <2>2. CASE \E a \in Staff, r \in Rows : StartApprove(c, r, a)
      <3>1. PICK a \in Staff, r \in Rows : StartApprove(c, r, a)
        BY <2>2
      <3> DEFINE k == [Idle EXCEPT !.pc = "updateApproved", !.actor = a, !.row = r]
      <3>2. a \in Deciders /\ rows[r].status = "pending" /\ rows[r].by # a
        BY <3>1 DEF StartApprove, ApproveGuard
      <3>3. k \in Call /\ CallRow(k) /\ CallSweep(k)
        BY <3>2 DEF Idle, Call, Awaits, Actors, CallRow, CallSweep, Deciding, Approving
      <3> QED
        BY <3>1, <3>3, MoveStep DEF StartApprove, Begin
    <2>3. CASE \E a \in Staff, r \in Rows : StartDeny(c, r, a)
      <3>1. PICK a \in Staff, r \in Rows : StartDeny(c, r, a)
        BY <2>3
      <3> DEFINE k == [Idle EXCEPT !.pc = "updateDenied", !.actor = a, !.row = r]
      <3>2. a \in Deciders /\ rows[r].status = "pending"
        BY <3>1 DEF StartDeny
      <3>3. k \in Call /\ CallRow(k) /\ CallSweep(k)
        BY <3>2 DEF Idle, Call, Awaits, Actors, CallRow, CallSweep, Deciding, Approving
      <3> QED
        BY <3>1, <3>3, MoveStep DEF StartDeny, Begin
    <2>4. CASE \E a \in Actors : StartSweep(c, a)
      <3>1. PICK a \in Actors : StartSweep(c, a)
        BY <2>4
      <3> DEFINE k == [Idle EXCEPT !.pc = "sweepNext", !.actor = a, !.sweep = TRUE,
                                   !.todo = SweepList]
      <3>2. SweepList \subseteq Docs /\ SweepList \subseteq elapsed
        BY DEF SweepList, IInv, TypeOK
      <3>3. k \in Call /\ CallRow(k) /\ CallSweep(k)
        BY <3>2 DEF Idle, Call, Awaits, CallRow, CallSweep, Deciding, Approving
      <3> QED
        BY <3>1, <3>3, MoveStep DEF StartSweep, Begin
    <2> QED
      BY <1>2, <2>1, <2>2, <2>3, <2>4 DEF Arrive
  <1>3. CASE FindDoc(c)
    <2> DEFINE k == [calls[c] EXCEPT !.pc = "create"]
    <2>1. calls[c].pc = "findDoc"
      BY <1>3 DEF FindDoc, At
    <2>2. k \in Call /\ CallRow(k) /\ CallSweep(k)
      BY <1>1, <2>1 DEF Call, Awaits, CallRow, CallSweep, Deciding, Approving
    <2> QED
      BY <1>3, <2>1, <2>2, IdleCall, MoveStep DEF FindDoc, Become, Return
  <1>4. CASE CreateFails(c) \/ SweepDone(c)
    BY <1>4, IdleCall, MoveStep DEF CreateFails, SweepDone, At, Become, Return
  <1>5. CASE SweepDocument(c)
    <2>1. calls[c].pc = "sweepNext"
      BY <1>5 DEF SweepDocument, At
    <2>2. PICK d \in calls[c].todo :
            \/ Become(c, [calls[c] EXCEPT !.todo = @ \ {d}])
            \/ Become(c, [calls[c] EXCEPT !.pc = "findDoc", !.doc = d, !.todo = @ \ {d}])
      BY <1>5 DEF SweepDocument
    <2> DEFINE k1 == [calls[c] EXCEPT !.todo = @ \ {d}]
               k2 == [calls[c] EXCEPT !.pc = "findDoc", !.doc = d, !.todo = @ \ {d}]
    <2>3. calls[c].sweep /\ d \in Docs /\ d \in elapsed /\ calls[c].row = NULL
      BY <1>1, <2>1 DEF Call, CallSweep, CallRow
    <2>4. k1 \in Call /\ CallRow(k1) /\ CallSweep(k1)
      BY <1>1, <2>1, <2>3 DEF Call, Awaits, CallRow, CallSweep, Deciding, Approving
    <2>5. k2 \in Call /\ CallRow(k2) /\ CallSweep(k2)
      BY <1>1, <2>1, <2>3 DEF Call, Awaits, CallRow, CallSweep, Deciding, Approving
    <2> QED
      BY <1>5, <2>1, <2>2, <2>4, <2>5, MoveStep DEF SweepDocument, Become
  <1> QED
    BY <1>2, <1>3, <1>4, <1>5

\* The insert takes a row no call works on, so nobody's facts about a row change.
LEMMA CreateRowStep ==
  ASSUME IInv, NEW c \in Slots, CreateRow(c)
  PROVE  IInv'
  <1>1. PICK f \in Rows : f = FreshRow /\ rows[f].status = "absent"
    BY DEF CreateRow, Full, FreshRow
  <1> DEFINE new == [doc |-> calls[c].doc, by |-> calls[c].actor, auto |-> calls[c].sweep,
                     status |-> "pending", decidedBy |-> NULL]
             k == [calls[c] EXCEPT !.pc = "auditRequested", !.row = f]
  <1>2. /\ calls[c] \in Call /\ CallSweep(calls[c])
        /\ calls[c].pc = "create"
    BY DEF IInv, TypeOK, CreateRow, At
  <1>3. /\ rows' = [rows EXCEPT ![f] = new] /\ calls' = [calls EXCEPT ![c] = k]
        /\ UNCHANGED <<present, elapsed, audit, crashes>>
    BY <1>1 DEF CreateRow, Become
  <1>4. /\ new \in Row /\ k \in Call
        /\ k.pc = "auditRequested" /\ k.row = f /\ k.actor = calls[c].actor
        /\ k.sweep = calls[c].sweep /\ k.todo = calls[c].todo /\ k.doc = calls[c].doc
        /\ new.by = calls[c].actor /\ new.by \in Actors /\ new.doc \in Docs
    BY <1>1, <1>2 DEF Row, Call, Awaits, CallSweep
  <1> HIDE DEF new, k
  <1>5. /\ rows'[f] = new /\ \A r \in Rows \ {f} : rows'[r] = rows[r]
        /\ calls'[c] = k /\ \A d \in Slots \ {c} : calls'[d] = calls[d]
    BY <1>1, <1>3 DEF IInv, TypeOK
  <1>6. TypeOK'
    BY <1>1, <1>3, <1>4 DEF IInv, TypeOK
  <1>7. new.status = "pending" /\ new.auto = calls[c].sweep
    BY DEF new
  <1>8. \A d \in Slots : CallRow(calls[d])' /\ CallSweep(calls[d])'
    <2>1. CallRow(calls[c])'
      BY <1>1, <1>4, <1>5, <1>7 DEF CallRow, Deciding, Approving
    <2>2. CallSweep(calls[c])'
      BY <1>2, <1>3, <1>4, <1>5 DEF CallSweep
    <2>3. ASSUME NEW d \in Slots \ {c} PROVE CallRow(calls[d])' /\ CallSweep(calls[d])'
      <3>1. CallRow(calls[d]) /\ CallSweep(calls[d])
        BY DEF IInv
      <3> QED
        BY <1>1, <1>3, <1>5, <3>1 DEF CallRow, CallSweep, Deciding, Approving
    <2> QED
      BY <2>1, <2>2, <2>3
  <1>9. \A r \in Rows : RowInv(r)'
    BY <1>4, <1>5, <1>7 DEF IInv, RowInv
  <1>10. \A r \in Rows : Trail(r)'
    <2>1. Trail(f)'
      BY <1>1, <1>4, <1>5, <1>7 DEF Trail, At
    <2>2. ASSUME NEW r \in Rows \ {f} PROVE Trail(r)'
      <3>1. Trail(r)
        BY DEF IInv
      <3> QED
        BY <1>2, <1>3, <1>5, <3>1 DEF Trail, At
    <2> QED
      BY <2>1, <2>2
  <1>11. ApprovedByAnother' /\ SweepOnlyElapsed'
    <2>1. calls[c].sweep => calls[c].doc \in elapsed
      BY <1>2, ConstantsAssumption DEF CallSweep
    <2> QED
      BY <1>3, <1>5, <1>7, <2>1 DEF IInv, ApprovedByAnother, SweepOnlyElapsed, new
  <1> QED
    BY <1>6, <1>8, <1>9, <1>10, <1>11 DEF IInv

\* A call writes its event, and goes on or returns.
LEMMA AuditStep ==
  ASSUME IInv, NEW c \in Slots, UNCHANGED <<present, elapsed, rows, crashes>>,
         NEW k \in Call, calls' = [calls EXCEPT ![c] = k], CallRow(k), CallSweep(k),
         NEW e \in {"requested", "approved", "denied"},
         \/ audit' = audit \cup {<<e, calls[c].row>>}
         \/ calls[c].actor \notin Staff /\ calls[c].pc = "auditRequested" /\ audit' = audit,
         calls[c].pc \in {"auditRequested", "auditApproved", "auditDenied"},
         e = IF calls[c].pc = "auditRequested" THEN "requested" ELSE Decision(calls[c].pc)
  PROVE  IInv'
  <1>1. /\ calls' \in [Slots -> Call] /\ calls'[c] = k
        /\ \A d \in Slots \ {c} : calls'[d] = calls[d]
    BY DEF IInv, TypeOK
  <1>2. CallRow(calls[c]) /\ calls[c].row \in Rows
    BY DEF IInv, CallRow, Deciding, Approving
  <1>3. TypeOK'
    BY <1>1, <1>2 DEF IInv, TypeOK
  <1>4. \A d \in Slots : CallRow(calls[d])' /\ CallSweep(calls[d])'
    BY <1>1 DEF IInv, CallRow, CallSweep
  <1>5. \A r \in Rows : RowInv(r)'
    BY DEF IInv, RowInv
  <1>6. ASSUME NEW r \in Rows PROVE Trail(r)'
    <2>1. Trail(r)
      BY DEF IInv
    <2>2. SUFFICES ASSUME crashes = 0, rows[r].status # "absent" PROVE Trail(r)'
      BY DEF Trail
    <2>3. ASSUME rows[r].by \in Staff
          PROVE  \/ <<"requested", r>> \in audit'
                 \/ \E d \in Slots : calls'[d].pc = "auditRequested" /\ calls'[d].row = r
      <3>1. CASE <<"requested", r>> \in audit
        BY <3>1
      <3>2. CASE calls[c].pc = "auditRequested" /\ calls[c].row = r
        BY <1>2, <2>3, <3>2 DEF CallRow
      <3>3. CASE \E d \in Slots \ {c} : calls[d].pc = "auditRequested" /\ calls[d].row = r
        BY <1>1, <3>3
      <3> QED
        BY <2>1, <2>2, <2>3, <3>1, <3>2, <3>3 DEF Trail, At
    <2>4. ASSUME rows[r].status # "pending"
          PROVE  \/ <<rows[r].status, r>> \in audit'
                 \/ \E d \in Slots : /\ calls'[d].pc \in {"auditApproved", "auditDenied"}
                                     /\ Decision(calls'[d].pc) = rows[r].status
                                     /\ calls'[d].row = r
      <3>1. CASE <<rows[r].status, r>> \in audit
        BY <3>1
      <3>2. CASE /\ calls[c].pc \in {"auditApproved", "auditDenied"}
                 /\ Decision(calls[c].pc) = rows[r].status /\ calls[c].row = r
        BY <3>2
      <3>3. CASE \E d \in Slots \ {c} : /\ calls[d].pc \in {"auditApproved", "auditDenied"}
                                        /\ Decision(calls[d].pc) = rows[r].status
                                        /\ calls[d].row = r
        BY <1>1, <3>3
      <3> QED
        BY <2>1, <2>2, <2>4, <3>1, <3>2, <3>3 DEF Trail
    <2> QED
      BY <2>3, <2>4 DEF Trail, At
  <1>7. ApprovedByAnother' /\ SweepOnlyElapsed'
    BY DEF IInv, ApprovedByAnother, SweepOnlyElapsed
  <1> QED
    BY <1>3, <1>4, <1>5, <1>6, <1>7 DEF IInv

\* The last await of a request and of a decision.
LEMMA AuditSteps ==
  ASSUME IInv, NEW c \in Slots, AuditRequested(c) \/ AuditDecision(c)
  PROVE  IInv'
  <1>1. calls[c] \in Call /\ CallRow(calls[c]) /\ CallSweep(calls[c])
    BY DEF IInv, TypeOK
  <1>2. CASE AuditRequested(c)
    <2> DEFINE k == [calls[c] EXCEPT !.pc = "sweepNext", !.doc = NULL, !.row = NULL]
    <2>1. calls[c].pc = "auditRequested"
      BY <1>2 DEF AuditRequested, At
    <2>2. calls[c].row \in Rows /\ calls[c].actor \in Actors
      <3>1. \A r \in Rows : RowInv(r)
        BY DEF IInv
      <3> QED
        BY <1>1, <2>1, <3>1 DEF CallRow, RowInv
    <2>3. k \in Call /\ CallRow(k)
      BY <1>1, <2>1 DEF Call, Awaits, CallRow, Deciding, Approving
    <2>4. ASSUME calls[c].sweep PROVE CallSweep(k)
      BY <1>1, <2>2, <2>4 DEF Call, CallSweep
    <2>5. CASE CanAudit(calls[c].actor) /\ calls[c].sweep
      BY <1>2, <2>1, <2>3, <2>4, <2>5, AuditStep DEF AuditRequested, Become
    <2>6. CASE CanAudit(calls[c].actor) /\ ~calls[c].sweep
      BY <1>2, <2>1, <2>6, IdleCall, AuditStep DEF AuditRequested, Become, Return
    <2>7. CASE ~CanAudit(calls[c].actor)
      BY <1>2, <2>1, <2>7, IdleCall, AuditStep DEF AuditRequested, Become, Return, CanAudit
    <2> QED
      BY <2>5, <2>6, <2>7
  <1>3. CASE AuditDecision(c)
    <2>1. /\ calls[c].pc \in {"auditApproved", "auditDenied"}
          /\ Decision(calls[c].pc) \in {"requested", "approved", "denied"}
      BY <1>3 DEF AuditDecision, Decision
    <2> QED
      BY <1>3, <2>1, IdleCall, AuditStep DEF AuditDecision, Become, Return
  <1> QED
    BY <1>2, <1>3

\* repo.update: whoever wrote last decided, and still has to write the event.
LEMMA UpdateStep ==
  ASSUME IInv, NEW c \in Slots, UpdateApproved(c) \/ UpdateDenied(c)
  PROVE  IInv'
  <1>1. /\ calls[c] \in Call /\ CallRow(calls[c]) /\ CallSweep(calls[c])
        /\ calls[c].pc \in {"updateApproved", "updateDenied"}
    BY DEF IInv, TypeOK, UpdateApproved, UpdateDenied, At
  <1>2. PICK r \in Rows : r = calls[c].row
    BY <1>1 DEF CallRow, Deciding, Approving
  <1> DEFINE status == IF calls[c].pc = "updateApproved" THEN "approved" ELSE "denied"
             pc == IF calls[c].pc = "updateApproved" THEN "auditApproved" ELSE "auditDenied"
             new == [rows[r] EXCEPT !.status = status, !.decidedBy = calls[c].actor]
             k == [calls[c] EXCEPT !.pc = pc]
  <1>3. /\ rows' = [rows EXCEPT ![r] = new]
        /\ calls' = [calls EXCEPT ![c] = k]
        /\ UNCHANGED <<present, elapsed, audit, crashes>>
    BY <1>2 DEF UpdateApproved, UpdateDenied, Update, Become, At
  <1>4. rows[r] \in Row /\ calls[c].actor \in Deciders /\ calls[c].actor \in Staff
    BY <1>1, ConstantsAssumption DEF IInv, TypeOK, CallRow, Deciding, Approving
  <1>5. /\ new \in Row /\ new.doc = rows[r].doc /\ new.by = rows[r].by
        /\ new.auto = rows[r].auto /\ new.decidedBy = calls[c].actor
        /\ new.status = status
    BY <1>4 DEF Row
  <1>6. /\ k \in Call /\ k.pc = pc /\ k.row = r /\ k.actor = calls[c].actor
        /\ k.doc = calls[c].doc /\ k.sweep = calls[c].sweep /\ k.todo = calls[c].todo
    BY <1>1, <1>2 DEF Call, Awaits
  <1> HIDE DEF new, k
  <1>7. /\ rows'[r] = new /\ \A s \in Rows \ {r} : rows'[s] = rows[s]
        /\ calls'[c] = k /\ \A d \in Slots \ {c} : calls'[d] = calls[d]
    BY <1>3 DEF IInv, TypeOK
  <1>8. TypeOK'
    BY <1>3, <1>5, <1>6 DEF IInv, TypeOK
  <1>9. \A d \in Slots : CallRow(calls[d])' /\ CallSweep(calls[d])'
    <2>1. CallRow(calls[c])'
      BY <1>1, <1>2, <1>4, <1>5, <1>6, <1>7 DEF CallRow, Deciding, Approving
    <2>2. CallSweep(calls[c])'
      BY <1>1, <1>3, <1>6, <1>7 DEF CallSweep
    <2>3. ASSUME NEW d \in Slots \ {c} PROVE CallRow(calls[d])' /\ CallSweep(calls[d])'
      <3>1. CallRow(calls[d]) /\ CallSweep(calls[d])
        BY DEF IInv
      <3>2. CallSweep(calls[d])'
        BY <1>3, <1>7, <3>1 DEF CallSweep
      <3>3. CallRow(calls[d])'
        BY <1>5, <1>7, <3>1 DEF CallRow, Deciding, Approving
      <3> QED
        BY <3>2, <3>3
    <2> QED
      BY <2>1, <2>2, <2>3
  <1>10. \A s \in Rows : RowInv(s)'
    <2>1. rows[r].status # "absent" /\ RowInv(r)
      BY <1>1, <1>2 DEF IInv, CallRow, Deciding, Approving
    <2>2. RowInv(r)'
      BY <1>5, <1>7, <2>1 DEF RowInv
    <2> QED
      BY <1>7, <2>2 DEF IInv, RowInv
  <1>11. ASSUME NEW s \in Rows PROVE Trail(s)'
    <2>1. Trail(s) /\ (s = r => rows[s].status # "absent")
      BY <1>1, <1>2 DEF IInv, CallRow, Deciding, Approving
    <2>2. rows'[s].by = rows[s].by
      BY <1>5, <1>7
    <2>3. CASE s = r
      <3>1. Decision(pc) = status
        BY DEF Decision
      <3>2. (crashes = 0 /\ rows[s].by \in Staff) =>
               \/ <<"requested", s>> \in audit'
               \/ \E d \in Slots : calls'[d].pc = "auditRequested" /\ calls'[d].row = s
        BY <1>1, <1>3, <1>7, <2>1, <2>3 DEF Trail, At
      <3>3. \E d \in Slots : /\ calls'[d].pc \in {"auditApproved", "auditDenied"}
                             /\ Decision(calls'[d].pc) = rows'[s].status /\ calls'[d].row = s
        BY <1>5, <1>6, <1>7, <2>3, <3>1
      <3> QED
        BY <1>3, <2>2, <3>2, <3>3 DEF Trail, At
    <2>4. CASE s # r
      BY <1>1, <1>3, <1>7, <2>1, <2>4 DEF Trail, At
    <2> QED
      BY <2>3, <2>4
  <1>12. ApprovedByAnother'
    <2>1. calls[c].pc = "updateApproved" => rows[r].by # calls[c].actor
      BY <1>1, <1>2 DEF CallRow, Deciding, Approving
    <2> QED
      BY <1>4, <1>5, <1>7, <2>1 DEF IInv, ApprovedByAnother
  <1>13. SweepOnlyElapsed'
    BY <1>3, <1>5, <1>7 DEF IInv, SweepOnlyElapsed
  <1> QED
    BY <1>8, <1>9, <1>10, <1>11, <1>12, <1>13 DEF IInv

\* A call dies between two awaits.
LEMMA CrashStep ==
  ASSUME IInv, NEW c \in Slots, Crash(c)
  PROVE  IInv'
  <1>1. /\ calls' = [calls EXCEPT ![c] = Idle] /\ crashes' = crashes + 1
        /\ UNCHANGED <<present, elapsed, rows, audit>>
    BY DEF Crash, Return, Become
  <1>2. /\ calls' \in [Slots -> Call] /\ calls'[c] = Idle
        /\ \A d \in Slots \ {c} : calls'[d] = calls[d]
    BY <1>1, IdleCall DEF IInv, TypeOK
  <1>3. TypeOK' /\ crashes' # 0
    BY <1>1, <1>2 DEF IInv, TypeOK
  <1>4. \A d \in Slots : CallRow(calls[d])' /\ CallSweep(calls[d])'
    BY <1>1, <1>2, IdleCall DEF IInv, CallRow, CallSweep
  <1>5. \A r \in Rows : RowInv(r)' /\ Trail(r)'
    BY <1>1, <1>3 DEF IInv, RowInv, Trail
  <1> QED
    BY <1>1, <1>3, <1>4, <1>5 DEF IInv, ApprovedByAnother, SweepOnlyElapsed

\* Time passes and documents go away without any call noticing.
LEMMA DocumentStep ==
  ASSUME IInv, NEW d \in Docs, Elapse(d) \/ DeleteDocument(d)
  PROVE  IInv'
  <1>1. /\ UNCHANGED <<rows, audit, calls, crashes>> /\ elapsed \subseteq elapsed'
        /\ present' \subseteq Docs /\ elapsed' \subseteq Docs
    BY DEF Elapse, DeleteDocument, IInv, TypeOK
  <1>2. TypeOK'
    BY <1>1 DEF IInv, TypeOK
  <1>3. \A c \in Slots : CallRow(calls[c])' /\ CallSweep(calls[c])'
    BY <1>1 DEF IInv, CallRow, CallSweep
  <1>4. \A r \in Rows : RowInv(r)' /\ Trail(r)'
    BY <1>1 DEF IInv, RowInv, Trail, At
  <1> QED
    BY <1>1, <1>2, <1>3, <1>4 DEF IInv, ApprovedByAnother, SweepOnlyElapsed

\* Every step keeps the inductive invariant.
LEMMA NextInv == IInv /\ [Next]_vars => IInv'
  <1> SUFFICES ASSUME IInv, [Next]_vars PROVE IInv'
    OBVIOUS
  <1>1. ASSUME NEW c \in Slots, Arrive(c) \/ Step(c) \/ Crash(c) PROVE IInv'
    BY <1>1, MoveSteps, CreateRowStep, AuditSteps, UpdateStep, CrashStep DEF Step
  <1>2. CASE UNCHANGED vars
    BY <1>2 DEF vars, IInv, TypeOK, CallRow, CallSweep, RowInv, Trail, At,
                ApprovedByAnother, SweepOnlyElapsed
  <1> QED
    BY <1>1, <1>2, DocumentStep DEF Next

\* While one call runs at a time, what it read when it was admitted is still so at
\* its write: no second destruction of a document is asked for by a sweep.
LEMMA LoneNext ==
  ASSUME OneCall, IInv, LoneInv, [Next]_vars
  PROVE  LoneInv'
  <1>1. ASSUME NEW c \in Slots, UNCHANGED rows, CallFresh(calls[c])'
        PROVE  LoneInv'
    BY <1>1 DEF OneCall, LoneInv, NoDuplicateSweep, InFlight
  <1>2. ASSUME NEW c \in Slots, NEW k, UNCHANGED rows, Become(c, k),
               \/ k.pc \notin {"updateApproved", "updateDenied", "findDoc", "create"}
               \/ CallFresh(k)
        PROVE  LoneInv'
    <2>1. calls'[c] = k
      BY <1>2 DEF IInv, TypeOK, Become
    <2>2. CallFresh(calls[c])'
      BY <1>2, <2>1 DEF CallFresh, Skips, InFlight
    <2> QED
      BY <1>1, <1>2, <2>2
  <1>3. Idle.pc = "idle"
    BY DEF Idle
  <1>4. ASSUME NEW c \in Slots PROVE calls[c] \in Call /\ CallFresh(calls[c])
    BY DEF IInv, TypeOK, LoneInv
  <1>5. ASSUME NEW c \in Slots, Arrive(c) PROVE LoneInv'
    <2>1. ASSUME NEW a \in Staff, NEW d \in Docs, StartRequest(c, a, d) PROVE LoneInv'
      <3> DEFINE k == [Idle EXCEPT !.pc = "findDoc", !.actor = a, !.doc = d]
      <3>1. CallFresh(k)
        BY DEF CallFresh, Idle
      <3> QED
        BY <1>2, <2>1, <3>1 DEF StartRequest, Begin, Become
    <2>2. ASSUME NEW a \in Staff, NEW r \in Rows, StartApprove(c, r, a) PROVE LoneInv'
      <3> DEFINE k == [Idle EXCEPT !.pc = "updateApproved", !.actor = a, !.row = r]
      <3>1. CallFresh(k)
        BY <2>2 DEF CallFresh, Idle, StartApprove, ApproveGuard
      <3> QED
        BY <1>2, <2>2, <3>1 DEF StartApprove, Begin, Become
    <2>3. ASSUME NEW a \in Staff, NEW r \in Rows, StartDeny(c, r, a) PROVE LoneInv'
      <3> DEFINE k == [Idle EXCEPT !.pc = "updateDenied", !.actor = a, !.row = r]
      <3>1. CallFresh(k)
        BY <2>3 DEF CallFresh, Idle, StartDeny
      <3> QED
        BY <1>2, <2>3, <3>1 DEF StartDeny, Begin, Become
    <2>4. ASSUME NEW a \in Actors, StartSweep(c, a) PROVE LoneInv'
      <3> DEFINE k == [Idle EXCEPT !.pc = "sweepNext", !.actor = a, !.sweep = TRUE,
                                   !.todo = SweepList]
      <3>1. k.pc = "sweepNext"
        BY DEF Idle
      <3> QED
        BY <1>2, <2>4, <3>1 DEF StartSweep, Begin, Become
    <2> QED
      BY <1>5, <2>1, <2>2, <2>3, <2>4 DEF Arrive
  <1>6. ASSUME NEW c \in Slots, FindDoc(c) PROVE LoneInv'
    <2> DEFINE k == [calls[c] EXCEPT !.pc = "create"]
    <2>1. CallFresh(k)
      BY <1>4, <1>6 DEF CallFresh, Call, FindDoc, At
    <2> QED
      BY <1>2, <1>3, <1>6, <2>1 DEF FindDoc, Return
  <1>7. ASSUME NEW c \in Slots, CreateFails(c) \/ SweepDone(c) \/ AuditDecision(c)
        PROVE  LoneInv'
    BY <1>2, <1>3, <1>7 DEF CreateFails, SweepDone, AuditDecision, Return
  <1>8. ASSUME NEW c \in Slots, AuditRequested(c) PROVE LoneInv'
    <2> DEFINE k == [calls[c] EXCEPT !.pc = "sweepNext", !.doc = NULL, !.row = NULL]
    <2>1. k.pc = "sweepNext"
      BY <1>4 DEF Call
    <2> QED
      BY <1>2, <1>3, <1>8, <2>1 DEF AuditRequested, Return
  <1>9. ASSUME NEW c \in Slots, SweepDocument(c) PROVE LoneInv'
    <2>1. PICK d \in calls[c].todo :
            \/ Become(c, [calls[c] EXCEPT !.todo = @ \ {d}])
            \/ /\ ~Skips(d)
               /\ Become(c, [calls[c] EXCEPT !.pc = "findDoc", !.doc = d, !.todo = @ \ {d}])
      BY <1>9 DEF SweepDocument
    <2> DEFINE k1 == [calls[c] EXCEPT !.todo = @ \ {d}]
               k2 == [calls[c] EXCEPT !.pc = "findDoc", !.doc = d, !.todo = @ \ {d}]
    <2>2. k1.pc = "sweepNext" /\ k2.pc = "findDoc" /\ k2.doc = d
      BY <1>4, <1>9 DEF Call, SweepDocument, At
    <2>3. ~Skips(d) => CallFresh(k2)
      BY <2>2 DEF CallFresh
    <2> QED
      BY <1>2, <1>9, <2>1, <2>2, <2>3 DEF SweepDocument
  <1>10. ASSUME NEW c \in Slots, CreateRow(c) PROVE LoneInv'
    <2>1. PICK f \in Rows : f = FreshRow /\ rows[f].status = "absent"
      BY <1>10 DEF CreateRow, Full, FreshRow
    <2>2. /\ \A r \in Rows \ {f} : rows'[r] = rows[r]
          /\ rows'[f].auto = calls[c].sweep /\ rows'[f].doc = calls[c].doc
      BY <1>10, <2>1 DEF CreateRow, IInv, TypeOK
    <2>3. calls[c].sweep => \A r \in Rows : ~InFlight(r, calls[c].doc)
      BY <1>4, <1>10 DEF CallFresh, Skips, CreateRow, At
    <2>4. NoDuplicateSweep'
      BY <2>2, <2>3 DEF LoneInv, NoDuplicateSweep, InFlight
    <2>5. calls'[c].pc = "auditRequested"
      BY <1>4, <1>10 DEF CreateRow, Become, IInv, TypeOK, Call
    <2> QED
      BY <2>4, <2>5 DEF LoneInv, CallFresh, OneCall
  <1>11. ASSUME NEW c \in Slots, UpdateApproved(c) \/ UpdateDenied(c) PROVE LoneInv'
    <2>1. PICK r \in Rows : r = calls[c].row
      BY <1>11 DEF IInv, CallRow, Deciding, Approving, UpdateApproved, UpdateDenied, At
    <2>2. rows[r] \in Row /\ rows[r].status = "pending"
      BY <1>4, <1>11, <2>1 DEF IInv, TypeOK, CallFresh, UpdateApproved, UpdateDenied, At
    <2>3. /\ \A s \in Rows \ {r} : rows'[s] = rows[s]
          /\ rows'[r].auto = rows[r].auto /\ rows'[r].doc = rows[r].doc
      <3>1. PICK t \in {"approved", "denied"} :
              rows' = [rows EXCEPT ![r] = [rows[r] EXCEPT !.status = t,
                                                          !.decidedBy = calls[c].actor]]
        BY <1>11, <2>1 DEF UpdateApproved, UpdateDenied, Update
      <3>2. rows'[r] = [rows[r] EXCEPT !.status = t, !.decidedBy = calls[c].actor]
        BY <3>1 DEF IInv, TypeOK
      <3>3. \A s \in Rows \ {r} : rows'[s] = rows[s]
        BY <3>1 DEF IInv, TypeOK
      <3> QED
        BY <2>2, <3>2, <3>3 DEF Row
    <2>4. NoDuplicateSweep'
      BY <2>2, <2>3 DEF LoneInv, NoDuplicateSweep, InFlight
    <2>5. calls'[c].pc \in {"auditApproved", "auditDenied"}
      BY <1>4, <1>11 DEF UpdateApproved, UpdateDenied, Update, Become, IInv, TypeOK, Call
    <2> QED
      BY <2>4, <2>5 DEF LoneInv, CallFresh, OneCall
  <1>12. ASSUME NEW c \in Slots, Crash(c) PROVE LoneInv'
    BY <1>2, <1>3, <1>12 DEF Crash, Return
  <1>13. ASSUME UNCHANGED <<rows, calls>> PROVE LoneInv'
    BY <1>13 DEF LoneInv, CallFresh, Skips, NoDuplicateSweep, InFlight
  <1>14. ASSUME NEW c \in Slots, Arrive(c) \/ Step(c) \/ Crash(c) PROVE LoneInv'
    BY <1>5, <1>6, <1>7, <1>8, <1>9, <1>10, <1>11, <1>12, <1>14 DEF Step
  <1> QED
    BY <1>13, <1>14 DEF Next, Elapse, DeleteDocument, vars

-----------------------------------------------------------------------------
\* The tables and calls keep their shape: approve, deny and the audited requests of
\* retention-action.service.ts always name a row that exists.
THEOREM TypeCorrect == Spec => []TypeOK
  <1>1. IInv => TypeOK
    BY DEF IInv
  <1> QED
    BY <1>1, InitInv, NextInv, PTL DEF Spec

\* Separation of duties for any number of racing approvals and denials, although
\* repo.update checks neither the status nor the requester again.
THEOREM DutiesSeparated == Spec => []ApprovedByAnother
  <1>1. IInv => ApprovedByAnother
    BY DEF IInv
  <1> QED
    BY <1>1, InitInv, NextInv, PTL DEF Spec

\* Without a crash the audit trail of a row is complete once no call works on it,
\* for requests by staff and for every decision, the overwritten ones included.
THEOREM TrailHolds == Spec => []TrailComplete
  <1>1. IInv => TrailComplete
    BY DEF IInv, Trail, TrailComplete, At
  <1> QED
    BY <1>1, InitInv, NextInv, PTL DEF Spec

\* A sweep asks for the destruction of elapsed documents only, however long ago it
\* read its list and whatever was deleted meanwhile.
THEOREM SweepsElapsed == Spec => []SweepOnlyElapsed
  <1>1. IInv => SweepOnlyElapsed
    BY DEF IInv
  <1> QED
    BY <1>1, InitInv, NextInv, PTL DEF Spec

\* With one call at a time the findForDocument check before request is enough for
\* sweeps not to pile up; with two it is not, since check and insert are two awaits.
THEOREM LoneSweepsOnce == OneCall => (Spec => []NoDuplicateSweep)
  <1>1. Init => LoneInv
    BY DEF Init, LoneInv, NoDuplicateSweep, CallFresh, NoRow, Idle, InFlight
  <1>2. OneCall /\ IInv /\ LoneInv /\ [Next]_vars => LoneInv'
    BY LoneNext
  <1>3. LoneInv => NoDuplicateSweep
    BY DEF LoneInv
  <1>4. OneCall => []OneCall
    <2>1. OneCall => OneCall'
      BY DEF OneCall
    <2> QED
      BY <2>1, PTL
  <1> QED
    BY <1>1, <1>2, <1>3, <1>4, InitInv, NextInv, PTL DEF Spec
=============================================================================
