------------------------- MODULE DataSubjectProofs -------------------------
(***************************************************************************)
(* Machine-checked proofs of the safety properties of DataSubject, for     *)
(* every set of users, organizations, requests and concurrent calls.       *)
(***************************************************************************)
EXTENDS DataSubject, TLAPS

\* The initial state satisfies the inductive invariant.
LEMMA InitInv == Init => IInv
  <1> SUFFICES ASSUME Init PROVE IInv
    OBVIOUS
  <1>1. TypeOK
    BY ConstantsAssumption DEF Init, TypeOK, NoRow, Idle, RequestRow, Call, Statuses, Payloads
  <1>2. \A c \in Slots : CallRow(calls[c]) /\ CallSubject(calls[c])
    BY DEF Init, CallRow, CallSubject, Idle, RequestAwaits, ExecuteAwaits, Awaits
  <1>3. \A r \in Requests : RowInv(r)
    BY DEF Init, RowInv, NoRow
  <1>4. ErasureAuthorised /\ AuditTruthful /\ ErasureEffective
    BY ConstantsAssumption DEF Init, ErasureAuthorised, AuditTruthful, ErasureEffective, NoRow
  <1> QED
    BY <1>1, <1>2, <1>3, <1>4 DEF IInv, Init

(***************************************************************************)
(* Most awaits leave the rows, the history and the set of erased users     *)
(* alone and move one call: for them only that call is worth a look.       *)
(***************************************************************************)
Frame(c) ==
    /\ UNCHANGED <<requests, erased, approvals>>
    /\ \A d \in Slots \ {c} : calls'[d] = calls[d]

\* Under a frame the calls not moved and all rows keep their facts.
LEMMA FrameInv ==
  ASSUME IInv, NEW c \in Slots, Frame(c)
  PROVE  /\ \A d \in Slots \ {c} : CallRow(calls[d])' /\ CallSubject(calls[d])'
         /\ \A r \in Requests : RowInv(r)'
         /\ ErasureAuthorised' /\ ErasureEffective'
  <1>1. \A d \in Slots \ {c} : CallRow(calls[d])' /\ CallSubject(calls[d])'
    BY DEF Frame, IInv, CallRow, CallSubject, UsersWithEmail
  <1>2. \A r \in Requests : RowInv(r)'
    BY DEF Frame, IInv, RowInv
  <1>3. ErasureAuthorised' /\ ErasureEffective'
    BY DEF Frame, IInv, ErasureAuthorised, ErasureEffective, UsersWithEmail
  <1> QED
    BY <1>1, <1>2, <1>3

\* The facts a new set of audit rows has to satisfy.
LEMMA AuditInv ==
  ASSUME IInv, NEW c \in Slots, Frame(c), NEW action \in AuditActions,
         RecordAndReturn(c, action),
         action \in {"approved", "executed"} => calls[c].req \in Requests,
         action \in {"approved", "executed"} => approvals[calls[c].req] # {},
         action = "executed" /\ requests[calls[c].req].type # "rectification" =>
            requests[calls[c].req].payload = PayloadOf(requests[calls[c].req].type)
  PROVE  /\ audit' \subseteq AuditRow
         /\ AuditTruthful'
         /\ \A row \in audit' : row.action \in {"approved", "executed"} => row.req \in Requests
  <1> DEFINE new == [action |-> action, req |-> calls[c].req, user |-> calls[c].actor]
  <1>1. calls[c] \in Call /\ audit \subseteq AuditRow
    BY DEF IInv, TypeOK
  <1>2. new \in AuditRow
    BY <1>1 DEF Call, AuditRow
  <1>3. audit' = audit \cup {new}
    BY DEF RecordAndReturn
  <1>4. AuditTruthful'
    <2>1. \A row \in audit : row.action \in {"approved", "executed"} => row.req \in Requests
      BY DEF IInv
    <2>2. requests' = requests /\ approvals' = approvals
      BY DEF Frame
    <2> QED
      BY <1>3, <2>1, <2>2 DEF IInv, AuditTruthful, PayloadOf
  <1> QED
    BY <1>1, <1>2, <1>3, <1>4 DEF IInv

\* A finished or dead call relies on nothing.
LEMMA ReturnInv ==
  ASSUME IInv, NEW c \in Slots, Return(c)
  PROVE  /\ calls' \in [Slots -> Call]
         /\ CallRow(calls[c])' /\ CallSubject(calls[c])'
         /\ \A d \in Slots \ {c} : calls'[d] = calls[d]
  <1>1. calls \in [Slots -> Call] /\ Idle \in Call
    BY DEF IInv, TypeOK, Idle, Call
  <1>2. calls' = [calls EXCEPT ![c] = Idle]
    BY DEF Return
  <1>3. calls'[c].pc = "idle"
    BY <1>1, <1>2 DEF Idle
  <1> QED
    BY <1>1, <1>2, <1>3 DEF CallRow, CallSubject, RequestAwaits, ExecuteAwaits, Awaits

\* The handlers' last awaits: write the event, return.
LEMMA AuditSteps ==
  ASSUME IInv, NEW c \in Slots,
         \/ AuditRequested(c) \/ AuditApproved(c) \/ AuditDenied(c)
         \/ AuditExecuted(c) \/ AuditLogin(c) \/ AuditConsent(c)
  PROVE  IInv'
  <1>1. PICK action \in AuditActions :
          /\ RecordAndReturn(c, action)
          /\ action = "approved" => calls[c].pc = "auditApproved"
          /\ action = "executed" => calls[c].pc = "auditExecuted"
          /\ UNCHANGED <<requests, erased, consents, crashes, approvals>>
    BY DEF AuditRequested, AuditApproved, AuditDenied, AuditExecuted, AuditLogin,
           AuditConsent, At, AuditActions
  <1>2. Return(c)
    BY <1>1 DEF RecordAndReturn
  <1>3. Frame(c)
    BY <1>1, <1>2, ReturnInv DEF Frame
  <1>4. CallRow(calls[c]) /\ CallSubject(calls[c])
    BY DEF IInv
  <1>5. /\ audit' \subseteq AuditRow
        /\ AuditTruthful'
        /\ \A row \in audit' : row.action \in {"approved", "executed"} => row.req \in Requests
    BY <1>1, <1>3, <1>4, AuditInv DEF CallRow, CallSubject, RequestAwaits, ExecuteAwaits, Awaits
  <1>6. TypeOK'
    BY <1>1, <1>2, <1>5, ReturnInv DEF IInv, TypeOK
  <1> QED
    BY <1>2, <1>3, <1>5, <1>6, FrameInv, ReturnInv DEF IInv

\* A call dies.
LEMMA CrashStep ==
  ASSUME IInv, NEW c \in Slots, Crash(c)
  PROVE  IInv'
  <1>1. Return(c) /\ UNCHANGED <<requests, erased, consents, audit, approvals>>
    BY DEF Crash
  <1>2. Frame(c)
    BY <1>1, ReturnInv DEF Frame
  <1>3. TypeOK'
    BY <1>1, ReturnInv DEF Crash, IInv, TypeOK
  <1>4. AuditTruthful'
    BY <1>1 DEF IInv, AuditTruthful
  <1> QED
    BY <1>1, <1>2, <1>3, <1>4, FrameInv, ReturnInv DEF IInv

\* A call enters or moves on while tables other than consents stay as they are.
LEMMA MoveStep ==
  ASSUME IInv, NEW c \in Slots,
         UNCHANGED <<requests, erased, audit, crashes, approvals>>,
         consents' \subseteq Orgs \X Emails,
         NEW k \in Call, calls' = [calls EXCEPT ![c] = k],
         CallRow(k), CallSubject(k)
  PROVE  IInv'
  <1>1. calls' \in [Slots -> Call] /\ calls'[c] = k
    BY DEF IInv, TypeOK
  <1>2. Frame(c)
    BY DEF Frame, IInv, TypeOK
  <1>3. CallRow(calls[c])' /\ CallSubject(calls[c])'
    BY <1>1 DEF CallRow, CallSubject, UsersWithEmail
  <1>4. TypeOK'
    BY <1>1 DEF IInv, TypeOK
  <1>5. AuditTruthful'
    BY DEF IInv, AuditTruthful
  <1> QED
    BY <1>2, <1>3, <1>4, <1>5, FrameInv DEF IInv

\* A call passes its guard: what it found there holds when it stops.
LEMMA ArriveSteps ==
  ASSUME IInv, NEW c \in Slots,
         \/ \E r \in Requests, a \in Users :
              StartApprove(c, r, a) \/ StartDeny(c, r, a) \/ StartExecute(c, r, a)
         \/ \E u \in Users : StartLogin(c, u)
         \/ \E u \in Users, e \in Emails : RecordConsent(c, u, e)
  PROVE  IInv'
  <1> USE DEF CallRow, CallSubject, RequestAwaits, ExecuteAwaits, Awaits
  <1>0. TypeOK /\ \A r \in Requests : RowInv(r)
    BY DEF IInv
  <1>1. ASSUME NEW r \in Requests, NEW a \in Users,
               StartApprove(c, r, a) \/ StartDeny(c, r, a) \/ StartExecute(c, r, a)
        PROVE  IInv'
    <2>1. PICK pc \in {"updateApproved", "updateDenied", "buildSnapshot", "findSubject", "updateCompleted"} :
            /\ calls' = [calls EXCEPT ![c] = [pc |-> pc, req |-> r, actor |-> a, found |-> NULL]]
            /\ pc = "updateApproved" => requests[r].requestedBy # a
            /\ pc \in ExecuteAwaits => requests[r].status = "approved"
            /\ pc = "buildSnapshot" => requests[r].type = "access"
            /\ pc = "findSubject" => requests[r].type = "erasure"
            /\ pc = "updateCompleted" => requests[r].type # "erasure"
            /\ requests[r].status # "absent"
      BY <1>1, ConstantsAssumption
      DEF StartApprove, StartDeny, StartExecute, ApproveGuard, DenyGuard, ExecuteGuard,
          Begin, FirstStep, Visible, DiffersFromRequestor
    <2>2. UNCHANGED <<requests, erased, consents, audit, crashes, approvals>>
      BY <1>1 DEF StartApprove, StartDeny, StartExecute
    <2> DEFINE k == [pc |-> pc, req |-> r, actor |-> a, found |-> NULL]
    <2>3. k \in Call
      BY DEF Call
    <2>4. CallRow(k)
      BY <1>0, <2>1 DEF RowInv
    <2>5. CallSubject(k)
      BY <2>1
    <2>6. consents' \subseteq Orgs \X Emails
      BY <1>0, <2>2 DEF TypeOK
    <2> QED
      BY <2>1, <2>2, <2>3, <2>4, <2>5, <2>6, MoveStep
  <1>2. ASSUME NEW u \in Users, NEW e \in Emails, StartLogin(c, u) \/ RecordConsent(c, u, e)
        PROVE  IInv'
    <2>1. PICK pc \in {"auditLogin", "auditConsent"} :
            calls' = [calls EXCEPT ![c] = [pc |-> pc, req |-> NULL, actor |-> u, found |-> NULL]]
      BY <1>2 DEF StartLogin, RecordConsent, Begin
    <2>2. /\ UNCHANGED <<requests, erased, audit, crashes, approvals>>
          /\ consents' \subseteq Orgs \X Emails
      BY <1>0, <1>2, ConstantsAssumption DEF StartLogin, RecordConsent, TypeOK
    <2> DEFINE k == [pc |-> pc, req |-> NULL, actor |-> u, found |-> NULL]
    <2>3. k \in Call /\ CallRow(k) /\ CallSubject(k)
      BY DEF Call
    <2> QED
      BY <2>1, <2>2, <2>3, MoveStep
  <1>3. ASSUME NEW u \in Users, StartLogin(c, u) PROVE IInv'
    <2>1. EmailOf[u] \in Emails
      BY ConstantsAssumption
    <2> QED
      BY <1>2, <1>3, <2>1
  <1> QED
    BY <1>1, <1>2, <1>3

\* The awaits of an execution that only move the call or drop consent rows.
LEMMA ExecutionMoves ==
  ASSUME IInv, NEW c \in Slots,
         BuildSnapshot(c) \/ FindSubject(c) \/ AnonymiseConsents(c)
  PROVE  IInv'
  <1> USE DEF CallRow, CallSubject, RequestAwaits, ExecuteAwaits, Awaits
  <1>0. /\ calls[c] \in Call /\ CallRow(calls[c]) /\ CallSubject(calls[c])
        /\ TypeOK
    BY DEF IInv, TypeOK
  <1>1. ASSUME NEW pc \in ExecuteAwaits \ {"auditExecuted"}, NEW u \in Users \cup {NULL},
               calls' = [calls EXCEPT ![c] = Moved(c, pc, u)],
               UNCHANGED <<requests, erased, audit, crashes, approvals>>,
               consents' \subseteq consents,
               calls[c].pc \in ExecuteAwaits, CallSubject(Moved(c, pc, u))
        PROVE  IInv'
    <2> DEFINE k == Moved(c, pc, u)
    <2>1. k \in Call
      BY <1>0 DEF Call, Moved
    <2>2. CallRow(k)
      BY <1>0, <1>1 DEF Moved
    <2>3. consents' \subseteq Orgs \X Emails
      BY <1>0, <1>1 DEF TypeOK
    <2> QED
      BY <1>1, <2>1, <2>2, <2>3, MoveStep
  <1>2. ASSUME NEW pc \in Awaits, Goto(c, pc)
        PROVE  calls' = [calls EXCEPT ![c] = Moved(c, pc, calls[c].found)]
    BY <1>2 DEF Goto
  <1>3. calls[c].found \in Users \cup {NULL}
    BY <1>0 DEF Call
  <1>4. CASE BuildSnapshot(c)
    <2>1. Goto(c, "updateCompleted") /\ calls[c].pc = "buildSnapshot"
      BY <1>4 DEF BuildSnapshot, At
    <2>2. CallSubject(Moved(c, "updateCompleted", calls[c].found))
      BY <1>0, <2>1 DEF Moved
    <2> QED
      BY <1>1, <1>2, <1>3, <1>4, <2>1, <2>2 DEF BuildSnapshot
  <1>5. CASE AnonymiseConsents(c)
    <2>1. Goto(c, "updateCompleted") /\ calls[c].pc = "anonymiseConsents"
      BY <1>5 DEF AnonymiseConsents, At
    <2>2. CallSubject(Moved(c, "updateCompleted", calls[c].found))
      BY <1>0, <2>1 DEF Moved
    <2>3. consents' \subseteq consents
      BY <1>5 DEF AnonymiseConsents
    <2> QED
      BY <1>1, <1>2, <1>3, <1>5, <2>1, <2>2, <2>3 DEF AnonymiseConsents
  <1>6. CASE FindSubject(c)
    <2> DEFINE us == UsersWithEmail(requests[calls[c].req].subject)
    <2>0. /\ calls[c].pc = "findSubject"
          /\ UNCHANGED <<requests, erased, consents, audit, crashes, approvals>>
      BY <1>6 DEF FindSubject, At
    <2>1. CASE us = {} /\ Goto(c, "anonymiseConsents")
      <3>1. CallSubject(Moved(c, "anonymiseConsents", calls[c].found))
        BY <1>0, <2>0, <2>1 DEF Moved
      <3> QED
        BY <1>1, <1>2, <1>3, <2>0, <2>1, <3>1
    <2>2. ASSUME NEW u \in us,
                 calls' = [calls EXCEPT ![c] = Moved(c, "anonymiseAudit", u)]
          PROVE  IInv'
      <3>1. u \in Users /\ EmailOf[u] = requests[calls[c].req].subject
        BY DEF UsersWithEmail
      <3>2. CallSubject(Moved(c, "anonymiseAudit", u))
        BY <1>0, <2>0, <3>1 DEF Moved
      <3> QED
        BY <1>1, <2>0, <2>2, <3>1, <3>2
    <2> QED
      BY <1>6, <2>1, <2>2 DEF FindSubject
  <1> QED
    BY <1>4, <1>5, <1>6

\* A new row has no history and no call works on it yet.
LEMMA CreateStep ==
  ASSUME IInv, NEW c \in Slots, NEW r \in Requests, NEW t \in Types, NEW e \in Emails,
         NEW a \in Users \cup {NULL}, NEW o \in Orgs, CreateRequest(c, r, t, e, a, o)
  PROVE  IInv'
  <1> DEFINE q == [type |-> t, subject |-> e, requestedBy |-> a, org |-> o,
                   status |-> "pending", decidedBy |-> NULL, payload |-> NULL]
             k == [pc |-> "auditRequested", req |-> r, actor |-> a, found |-> NULL]
  <1>1. /\ requests' = [requests EXCEPT ![r] = q] /\ calls' = [calls EXCEPT ![c] = k]
        /\ requests[r].status = "absent"
        /\ UNCHANGED <<erased, consents, audit, crashes, approvals>>
    BY DEF CreateRequest, Begin
  <1>2. q \in RequestRow /\ k \in Call
    BY DEF RequestRow, Call, Statuses, Payloads, Awaits
  <1>3. TypeOK'
    BY <1>1, <1>2 DEF IInv, TypeOK
  <1>4. /\ requests'[r] = q /\ calls'[c] = k
        /\ \A s \in Requests \ {r} : requests'[s] = requests[s]
        /\ \A d \in Slots \ {c} : calls'[d] = calls[d]
    BY <1>1 DEF IInv, TypeOK
  <1>5. approvals[r] = {} /\ \A s \in Requests : RowInv(s)
    BY <1>1 DEF IInv, RowInv
  <1>6. \A s \in Requests : RowInv(s)'
    BY <1>1, <1>4, <1>5 DEF RowInv
  <1>7. CallRow(calls[c])' /\ CallSubject(calls[c])'
    BY <1>4 DEF CallRow, CallSubject, RequestAwaits, ExecuteAwaits, Awaits
  <1>8. ASSUME NEW d \in Slots \ {c} PROVE CallRow(calls[d])' /\ CallSubject(calls[d])'
    <2>1. CallRow(calls[d]) /\ CallSubject(calls[d]) /\ calls'[d] = calls[d]
      BY <1>4 DEF IInv
    <2>2. calls[d].pc \in RequestAwaits => calls[d].req \in Requests \ {r}
      BY <1>1, <2>1 DEF CallRow
    <2>3. CallRow(calls[d])'
      BY <1>1, <1>4, <2>1, <2>2 DEF CallRow, RequestAwaits, ExecuteAwaits, Awaits
    <2>4. CallSubject(calls[d])'
      BY <1>1, <1>4, <2>1, <2>2 DEF CallSubject, UsersWithEmail, RequestAwaits, Awaits
    <2> QED
      BY <2>3, <2>4
  <1>9. ErasureAuthorised'
    <2>1. ASSUME NEW u \in erased, NEW s \in Requests, approvals[s] # {}
          PROVE  s # r
      BY <1>5, <2>1
    <2> QED
      BY <1>1, <1>4, <1>5 DEF IInv, ErasureAuthorised
  <1>10. AuditTruthful'
    <2>1. ASSUME NEW row \in audit, row.action \in {"approved", "executed"}
          PROVE  row.req \in Requests \ {r}
      BY <1>5, <2>1 DEF IInv, AuditTruthful
    <2> QED
      BY <1>1, <1>4, <2>1 DEF IInv, AuditTruthful
  <1>11. ErasureEffective'
    BY <1>1, <1>4, ConstantsAssumption DEF IInv, ErasureEffective, UsersWithEmail
  <1> QED
    BY <1>1, <1>3, <1>6, <1>7, <1>8, <1>9, <1>10, <1>11 DEF IInv

\* The awaits that rewrite a request row: they touch its status, decision and
\* payload, and only ever add to its history.
LEMMA RewriteStep ==
  ASSUME IInv, NEW c \in Slots, NEW r \in Requests, NEW q \in RequestRow,
         NEW H \in SUBSET Users, NEW k \in Call,
         requests' = [requests EXCEPT ![r] = q], approvals' = [approvals EXCEPT ![r] = H],
         calls' = [calls EXCEPT ![c] = k],
         UNCHANGED <<erased, consents, audit, crashes>>,
         q.type = requests[r].type, q.subject = requests[r].subject,
         q.requestedBy = requests[r].requestedBy, q.org = requests[r].org,
         requests[r].status # "absent", q.status # "absent",
         approvals[r] \subseteq H, q.requestedBy \notin H,
         q.status \in {"approved", "completed"} => H # {},
         q.payload # requests[r].payload => q.payload = PayloadOf(q.type),
         q.payload = "erasure" => UsersWithEmail(q.subject) = {},
         k.req = r,
         k.pc \in {"auditApproved", "auditDenied", "auditExecuted"},
         k.actor \in Users,
         k.pc \in {"auditApproved", "auditExecuted"} => H # {},
         k.pc = "auditExecuted" /\ q.type # "rectification" => q.payload = PayloadOf(q.type)
  PROVE  IInv'
  <1>1. TypeOK'
    BY DEF IInv, TypeOK
  <1>2. /\ requests'[r] = q /\ calls'[c] = k /\ approvals'[r] = H
        /\ \A s \in Requests \ {r} : requests'[s] = requests[s] /\ approvals'[s] = approvals[s]
        /\ \A d \in Slots \ {c} : calls'[d] = calls[d]
    BY DEF IInv, TypeOK
  <1>3. \A s \in Requests : RowInv(s)'
    BY <1>2 DEF IInv, RowInv
  <1>4. CallRow(calls[c])' /\ CallSubject(calls[c])'
    BY <1>2 DEF CallRow, CallSubject, RequestAwaits, ExecuteAwaits, Awaits
  <1>5. ASSUME NEW d \in Slots \ {c} PROVE CallRow(calls[d])' /\ CallSubject(calls[d])'
    <2>1. CallRow(calls[d]) /\ CallSubject(calls[d]) /\ calls'[d] = calls[d]
      BY <1>2 DEF IInv
    <2>2. CallRow(calls[d])'
      BY <1>2, <2>1 DEF CallRow, RequestAwaits, ExecuteAwaits, Awaits
    <2>3. CallSubject(calls[d])'
      BY <1>2, <2>1 DEF CallSubject, CallRow, UsersWithEmail, RequestAwaits, ExecuteAwaits, Awaits
    <2> QED
      BY <2>2, <2>3
  <1>6. ErasureAuthorised'
    BY <1>2 DEF IInv, ErasureAuthorised
  <1>7. AuditTruthful'
    <2>1. ASSUME NEW row \in audit, row.action \in {"approved", "executed"}
          PROVE  row.req \in Requests
      BY <2>1 DEF IInv
    <2> QED
      BY <1>2, <2>1 DEF IInv, AuditTruthful
  <1>8. ErasureEffective'
    BY <1>2 DEF IInv, ErasureEffective, UsersWithEmail
  <1> QED
    BY <1>1, <1>3, <1>4, <1>5, <1>6, <1>7, <1>8 DEF IInv

\* The three updates of a row are such rewrites.
LEMMA UpdateSteps ==
  ASSUME IInv, NEW c \in Slots,
         UpdateApproved(c) \/ UpdateDenied(c) \/ UpdateCompleted(c)
  PROVE  IInv'
  <1> DEFINE r == calls[c].req
             a == calls[c].actor
             q0 == requests[r]
  <1>1. /\ calls[c] \in Call /\ CallRow(calls[c]) /\ CallSubject(calls[c])
        /\ calls[c].pc \in {"updateApproved", "updateDenied", "updateCompleted"}
    BY DEF IInv, TypeOK, UpdateApproved, UpdateDenied, UpdateCompleted, At
  <1>2. r \in Requests /\ a \in Users /\ q0.status # "absent"
    BY <1>1 DEF CallRow, RequestAwaits, Awaits
  <1>3. q0 \in RequestRow /\ approvals[r] \subseteq Users /\ RowInv(r)
    BY <1>2 DEF IInv, TypeOK
  <1>4. \A pc \in Awaits : Moved(c, pc, calls[c].found) \in Call
    BY <1>1 DEF Moved, Call
  <1>5. CASE UpdateApproved(c)
    <2> DEFINE q == [q0 EXCEPT !.status = "approved", !.decidedBy = a]
               k == Moved(c, "auditApproved", calls[c].found)
               H == approvals[r] \cup {a}
    <2>1. /\ requests' = [requests EXCEPT ![r] = q] /\ approvals' = [approvals EXCEPT ![r] = H]
          /\ calls' = [calls EXCEPT ![c] = k] /\ calls[c].pc = "updateApproved"
          /\ UNCHANGED <<erased, consents, audit, crashes>>
      BY <1>5 DEF UpdateApproved, Decide, Goto, At
    <2>2. q \in RequestRow /\ k \in Call
      BY <1>2, <1>3, <1>4 DEF RequestRow, Statuses, Awaits
    <2>3. /\ q.type = q0.type /\ q.subject = q0.subject /\ q.requestedBy = q0.requestedBy
          /\ q.org = q0.org /\ q.payload = q0.payload /\ q.status = "approved"
      BY <1>3 DEF RequestRow
    <2>4. H \in SUBSET Users /\ H # {} /\ approvals[r] \subseteq H /\ q.requestedBy \notin H
      BY <1>1, <1>2, <1>3, <2>1, <2>3 DEF CallRow, RowInv
    <2>5. q.payload = "erasure" => UsersWithEmail(q.subject) = {}
      BY <1>2, <2>3 DEF IInv, ErasureEffective
    <2>6. k.req = r /\ k.pc = "auditApproved" /\ k.actor \in Users
      BY <1>2 DEF Moved
    <2> QED
      BY <1>2, <2>1, <2>2, <2>3, <2>4, <2>5, <2>6, RewriteStep
  <1>6. CASE UpdateDenied(c)
    <2> DEFINE q == [q0 EXCEPT !.status = "denied", !.decidedBy = a]
               k == Moved(c, "auditDenied", calls[c].found)
               H == approvals[r]
    <2>1. /\ requests' = [requests EXCEPT ![r] = q]
          /\ calls' = [calls EXCEPT ![c] = k]
          /\ UNCHANGED <<erased, consents, audit, crashes, approvals>>
      BY <1>6 DEF UpdateDenied, Decide, Goto, At
    <2>2. approvals' = [approvals EXCEPT ![r] = H]
      BY <2>1 DEF IInv, TypeOK
    <2>3. q \in RequestRow /\ k \in Call
      BY <1>2, <1>3, <1>4 DEF RequestRow, Statuses, Awaits
    <2>4. /\ q.type = q0.type /\ q.subject = q0.subject /\ q.requestedBy = q0.requestedBy
          /\ q.org = q0.org /\ q.payload = q0.payload /\ q.status = "denied"
      BY <1>3 DEF RequestRow
    <2>5. H \in SUBSET Users /\ q.requestedBy \notin H
      BY <1>3, <2>4 DEF RowInv
    <2>6. q.payload = "erasure" => UsersWithEmail(q.subject) = {}
      BY <1>2, <2>4 DEF IInv, ErasureEffective
    <2>7. k.req = r /\ k.pc = "auditDenied" /\ k.actor \in Users
      BY <1>2 DEF Moved
    <2> QED
      BY <1>2, <2>1, <2>2, <2>3, <2>4, <2>5, <2>6, <2>7, RewriteStep
  <1>7. CASE UpdateCompleted(c)
    <2> DEFINE p == IF q0.type = "rectification" THEN q0.payload ELSE PayloadOf(q0.type)
               q == [q0 EXCEPT !.status = "completed", !.payload = p]
               k == Moved(c, "auditExecuted", calls[c].found)
               H == approvals[r]
    <2>1. /\ requests' = [requests EXCEPT ![r] = q]
          /\ calls' = [calls EXCEPT ![c] = k] /\ calls[c].pc = "updateCompleted"
          /\ UNCHANGED <<erased, consents, audit, crashes, approvals>>
      BY <1>7 DEF UpdateCompleted, Complete, Goto, At
    <2>2. approvals' = [approvals EXCEPT ![r] = H]
      BY <2>1 DEF IInv, TypeOK
    <2>3. p \in Payloads
      BY <1>3 DEF RequestRow, Payloads, PayloadOf
    <2>4. q \in RequestRow /\ k \in Call
      BY <1>2, <1>3, <1>4, <2>3 DEF RequestRow, Statuses, Awaits
    <2>5. /\ q.type = q0.type /\ q.subject = q0.subject /\ q.requestedBy = q0.requestedBy
          /\ q.org = q0.org /\ q.payload = p /\ q.status = "completed"
      BY <1>3 DEF RequestRow
    <2>6. H \in SUBSET Users /\ q.requestedBy \notin H /\ H # {}
      BY <1>1, <1>3, <2>1, <2>5 DEF RowInv, CallRow, ExecuteAwaits
    <2>7. q.payload = "erasure" => UsersWithEmail(q.subject) = {}
      <3>1. q0.type = "erasure" => UsersWithEmail(q0.subject) = {}
        BY <1>1, <2>1 DEF CallSubject
      <3>2. q0.payload = "erasure" => UsersWithEmail(q0.subject) = {}
        BY <1>2 DEF IInv, ErasureEffective
      <3> QED
        BY <2>5, <3>1, <3>2, ConstantsAssumption DEF PayloadOf
    <2>8. k.req = r /\ k.pc = "auditExecuted" /\ k.actor \in Users
      BY <1>2 DEF Moved
    <2>9. q.type # "rectification" => q.payload = PayloadOf(q.type)
      BY <2>5
    <2>10. q.payload # requests[r].payload => q.payload = PayloadOf(q.type)
      BY <2>5
    <2> QED
      BY <1>2, <2>1, <2>2, <2>4, <2>5, <2>6, <2>7, <2>8, <2>9, <2>10, RewriteStep
  <1> QED
    BY <1>5, <1>6, <1>7

\* Anonymising audit rows changes nobody's decision.
LEMMA AnonymiseAuditStep ==
  ASSUME IInv, NEW c \in Slots, AnonymiseAudit(c)
  PROVE  IInv'
  <1> DEFINE k == Moved(c, "anonymiseUser", calls[c].found)
             f(row) == IF row.user = calls[c].found /\ HomeOrg[calls[c].found] = requests[calls[c].req].org
                       THEN [row EXCEPT !.user = NULL] ELSE row
  <1>1. /\ audit' = {f(row) : row \in audit} /\ calls' = [calls EXCEPT ![c] = k]
        /\ calls[c].pc = "anonymiseAudit"
        /\ UNCHANGED <<requests, erased, consents, crashes, approvals>>
    BY DEF AnonymiseAudit, Goto, At
  <1>2. calls[c] \in Call /\ CallRow(calls[c]) /\ CallSubject(calls[c])
    BY DEF IInv, TypeOK
  <1>3. k \in Call
    BY <1>2 DEF Moved, Call, Awaits
  <1>4. calls' \in [Slots -> Call] /\ calls'[c] = k
    BY <1>1, <1>3 DEF IInv, TypeOK
  <1>5. Frame(c)
    BY <1>1 DEF Frame, IInv, TypeOK
  <1>6. CallRow(calls[c])' /\ CallSubject(calls[c])'
    BY <1>1, <1>2, <1>4 DEF Moved, CallRow, CallSubject, RequestAwaits, ExecuteAwaits, Awaits
  <1>7. ASSUME NEW row \in audit
        PROVE  f(row) \in AuditRow /\ f(row).action = row.action /\ f(row).req = row.req
    <2>1. row \in AuditRow
      BY DEF IInv, TypeOK
    <2> QED
      BY <2>1 DEF AuditRow
  <1>8. TypeOK'
    BY <1>1, <1>4, <1>7 DEF IInv, TypeOK
  <1>9. \A row \in audit' : row.action \in {"approved", "executed"} => row.req \in Requests
    BY <1>1, <1>7 DEF IInv
  <1>10. AuditTruthful'
    <2> DEFINE Truthful(row) ==
                 /\ row.action = "approved" => approvals[row.req] # {}
                 /\ row.action = "executed" =>
                      /\ approvals[row.req] # {}
                      /\ requests[row.req].type # "rectification" =>
                             requests[row.req].payload = PayloadOf(requests[row.req].type)
    <2>1. \A row \in audit : Truthful(row)
      BY DEF IInv, AuditTruthful
    <2>2. \A row \in audit : Truthful(f(row))
      BY <1>7, <2>1
    <2>3. \A row \in audit' : Truthful(row)
      BY <1>1, <2>2
    <2> QED
      BY <1>1, <2>3 DEF AuditTruthful
  <1> QED
    BY <1>5, <1>6, <1>8, <1>9, <1>10, FrameInv DEF IInv

\* Pseudonymising the user row is covered by the approval behind the call, and
\* nobody else has the subject's address.
LEMMA AnonymiseUserStep ==
  ASSUME IInv, NEW c \in Slots, AnonymiseUser(c)
  PROVE  IInv'
  <1> DEFINE r == calls[c].req
             u == calls[c].found
  <1>1. /\ calls[c] \in Call /\ CallRow(calls[c]) /\ CallSubject(calls[c])
        /\ calls[c].pc = "anonymiseUser"
        /\ UNCHANGED <<requests, consents, audit, crashes, approvals>>
    BY DEF IInv, TypeOK, AnonymiseUser, At
  <1>2. /\ r \in Requests /\ u \in Users /\ EmailOf[u] = requests[r].subject
        /\ requests[r].type = "erasure" /\ approvals[r] # {} /\ requests[r].status # "absent"
        /\ calls[c].actor \in Users
    BY <1>1 DEF CallRow, CallSubject, RequestAwaits, ExecuteAwaits, Awaits
  <1>3. CASE HomeOrg[u] # requests[r].org
    <2>1. Return(c) /\ UNCHANGED <<requests, erased, consents, audit, crashes, approvals>>
      BY <1>1, <1>3 DEF AnonymiseUser
    <2>2. Frame(c)
      BY <2>1, ReturnInv DEF Frame
    <2>3. TypeOK'
      BY <2>1, ReturnInv DEF IInv, TypeOK
    <2>4. AuditTruthful'
      BY <2>1 DEF IInv, AuditTruthful
    <2> QED
      BY <2>1, <2>2, <2>3, <2>4, FrameInv, ReturnInv DEF IInv
  <1>4. CASE HomeOrg[u] = requests[r].org
    <2> DEFINE k == Moved(c, "anonymiseConsents", u)
    <2>1. erased' = erased \cup {u} /\ calls' = [calls EXCEPT ![c] = k]
      BY <1>4 DEF AnonymiseUser, Goto
    <2>2. k \in Call /\ k.req = r /\ k.actor = calls[c].actor /\ k.pc = "anonymiseConsents"
      BY <1>1 DEF Moved, Call, Awaits
    <2>3. TypeOK'
      BY <1>1, <1>2, <2>1, <2>2 DEF IInv, TypeOK
    <2>4. calls'[c] = k /\ \A d \in Slots \ {c} : calls'[d] = calls[d]
      BY <2>1 DEF IInv, TypeOK
    <2>5. \A e : UsersWithEmail(e)' \subseteq UsersWithEmail(e)
      BY <2>1 DEF UsersWithEmail
    <2>6. {v \in Users \ erased' : EmailOf[v] = requests[r].subject} = {}
      BY <1>2, <2>1, ConstantsAssumption
    <2>7. \A s \in Requests : RowInv(s)'
      BY <1>1 DEF IInv, RowInv
    <2>8. CallRow(calls[c])' /\ CallSubject(calls[c])'
      BY <1>1, <1>2, <2>2, <2>4, <2>6 DEF CallRow, CallSubject, UsersWithEmail, RequestAwaits, ExecuteAwaits, Awaits
    <2>9. ASSUME NEW d \in Slots \ {c} PROVE CallRow(calls[d])' /\ CallSubject(calls[d])'
      <3>1. CallRow(calls[d]) /\ CallSubject(calls[d]) /\ calls'[d] = calls[d]
        BY <2>4 DEF IInv
      <3>2. CallRow(calls[d])'
        BY <1>1, <3>1 DEF CallRow
      <3>3. CallSubject(calls[d])'
        BY <1>1, <2>5, <3>1 DEF CallSubject
      <3> QED
        BY <3>2, <3>3
    <2>10. ErasureAuthorised'
      <3>1. approvals[r] \ {requests[r].requestedBy} # {}
        BY <1>2 DEF IInv, RowInv
      <3> QED
        BY <1>1, <1>2, <1>4, <2>1, <3>1 DEF IInv, ErasureAuthorised
    <2>11. AuditTruthful'
      BY <1>1 DEF IInv, AuditTruthful
    <2>12. ErasureEffective'
      BY <1>1, <2>5 DEF IInv, ErasureEffective
    <2> QED
      BY <1>1, <2>3, <2>7, <2>8, <2>9, <2>10, <2>11, <2>12 DEF IInv
  <1> QED
    BY <1>3, <1>4

\* Every step of the service preserves the inductive invariant.
LEMMA NextInv == IInv /\ [Next]_vars => IInv'
  <1> SUFFICES ASSUME IInv, [Next]_vars PROVE IInv'
    OBVIOUS
  <1>1. CASE UNCHANGED vars
    <2>1. TypeOK'
      BY <1>1 DEF IInv, TypeOK, vars
    <2>2. \A c \in Slots : CallRow(calls[c])' /\ CallSubject(calls[c])'
      BY <1>1 DEF IInv, CallRow, CallSubject, UsersWithEmail, vars
    <2>3. \A r \in Requests : RowInv(r)'
      BY <1>1 DEF IInv, RowInv, vars
    <2>4. ErasureAuthorised' /\ AuditTruthful' /\ ErasureEffective'
      BY <1>1 DEF IInv, ErasureAuthorised, AuditTruthful, ErasureEffective, UsersWithEmail, vars
    <2> QED
      BY <1>1, <2>1, <2>2, <2>3, <2>4 DEF IInv, vars
  <1>2. ASSUME NEW c \in Slots, Arrive(c) PROVE IInv'
    BY <1>2, CreateStep, ArriveSteps DEF Arrive
  <1>3. ASSUME NEW c \in Slots, Step(c) PROVE IInv'
    BY <1>3, AuditSteps, UpdateSteps, ExecutionMoves, AnonymiseAuditStep, AnonymiseUserStep DEF Step
  <1>4. ASSUME NEW c \in Slots, Crash(c) PROVE IInv'
    BY <1>4, CrashStep
  <1> QED
    BY <1>1, <1>2, <1>3, <1>4 DEF Next

\* The inductive invariant holds throughout.
THEOREM Invariance == Spec => []IInv
  BY InitInv, NextInv, PTL DEF Spec

\* Tables and calls keep their shape whatever interleaves or dies.
THEOREM TypeCorrect == Spec => []TypeOK
  <1>1. IInv => TypeOK
    BY DEF IInv
  <1> QED
    BY <1>1, Invariance, PTL

\* Nobody's account is pseudonymised without an erasure request in the home
\* organization that somebody other than the requestor approved.
THEOREM ErasureNeedsApproval == Spec => []ErasureAuthorised
  <1>1. IInv => ErasureAuthorised
    BY DEF IInv
  <1> QED
    BY <1>1, Invariance, PTL

\* No request is approved or completed on the requestor's own word.
THEOREM SeparationOfDuties == Spec => []CompletionApproved
  <1>1. IInv => CompletionApproved
    BY DEF IInv, CompletionApproved, RowInv
  <1> QED
    BY <1>1, Invariance, PTL

\* The audit trail never runs ahead of the tables.
THEOREM AuditTrailTruthful == Spec => []AuditTruthful
  <1>1. IInv => AuditTruthful
    BY DEF IInv
  <1> QED
    BY <1>1, Invariance, PTL

\* A recorded erasure has removed the subject's address from every user row.
THEOREM ErasureTakesEffect == Spec => []ErasureEffective
  <1>1. IInv => ErasureEffective
    BY DEF IInv
  <1> QED
    BY <1>1, Invariance, PTL

=============================================================================
