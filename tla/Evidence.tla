------------------------------ MODULE Evidence ------------------------------
(***************************************************************************)
(* The pure part of compliance: apps/api/src/compliance/                   *)
(* compliance.service.ts.  How requirements are matched with the documents *)
(* of the vault, which gaps block an export and which tasks remain.  Item  *)
(* texts, owners, due dates and the id of the evidence are left out.       *)
(***************************************************************************)
EXTENDS Naturals, FiniteSets

CONSTANTS
    Docs,        \* ids of ClientDocument rows
    Reqs,        \* requirements of the tender
    DocTypes,    \* 'legal', 'financial', ...
    TypeOf,      \* document -> documentType, which nothing changes
    CategoryOf,  \* requirement -> the document type its category asks for
    Critical,    \* requirements marked critical
    NULL

ASSUME EvidenceAssumption ==
    /\ TypeOf \in [Docs -> DocTypes]
    /\ CategoryOf \in [Reqs -> DocTypes]
    /\ Critical \subseteq Reqs

ItemStatus == {"missing", "partial", "satisfied", "overridden"}
Risks == {"low", "medium", "high", "critical"}
Item == [status : ItemStatus, risk : Risks]
NoItems == [q \in Reqs |-> NULL]

\* What vault.list shows of a document.  'expiring' is told apart from
\* 'active' by nothing in this service.
DocStates == {"active", "restricted", "archived"}
View == [Docs -> DocStates \cup {"none"}]

-----------------------------------------------------------------------------
\* Mutant: restricted documents count.
CandidatesAny(q, view) ==
    {d \in Docs : TypeOf[d] = CategoryOf[q] /\ view[d] # "none"}

Candidates(q, view) ==
    {d \in Docs : /\ TypeOf[d] = CategoryOf[q]
                  /\ view[d] \notin {"none", "restricted"}}

ActiveEvidence(q, view, expired) ==
    {d \in Candidates(q, view) : view[d] # "archived" /\ d \notin expired}

ExpiredEvidence(q, view, expired) == Candidates(q, view) \cap expired

StatusOf(q, view, expired) ==
    IF ActiveEvidence(q, view, expired) # {} THEN "satisfied"
    ELSE IF ExpiredEvidence(q, view, expired) # {} THEN "partial"
    ELSE "missing"

RiskOf(q, status) ==
    IF status = "satisfied" THEN "low"
    ELSE IF status = "partial" THEN "medium"
    ELSE IF q \in Critical THEN "critical" ELSE "high"

BuildItem(q, view, expired) ==
    LET status == StatusOf(q, view, expired)
    IN  [status |-> status, risk |-> RiskOf(q, status)]

\* One item per requirement asked for.
GenerateMatrix(asked, view, expired) ==
    [q \in Reqs |-> IF q \in asked THEN BuildItem(q, view, expired) ELSE NULL]

\* The items that block an export.
ExportGate(items, overridden) ==
    {q \in Reqs : /\ items[q] # NULL
                  /\ items[q].risk = "critical"
                  /\ items[q].status # "satisfied"
                  /\ q \notin overridden}

DeriveTasks(items) ==
    {q \in Reqs : items[q] # NULL /\ items[q].status \notin {"satisfied", "overridden"}}
=============================================================================
