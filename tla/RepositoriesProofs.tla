------------------------- MODULE RepositoriesProofs -------------------------
(***************************************************************************)
(* Proofs about the repositories: organizations stay apart, and the fakes   *)
(* do what the database does.                                               *)
(***************************************************************************)
EXTENDS Repositories, TLAPS

-----------------------------------------------------------------------------
(* What the 24 repositories have in common. *)

Models ==
    {"Organization", "User", "ClientCompany", "Tender", "ClientDocument", "AuditEvent",
     "ComplianceMatrix", "ComplianceItem", "TenderRequirement", "EvidenceLink", "ConsentEvent",
     "DataSubjectRequest", "TenderAccess", "RetentionAction", "IngestionJob", "DpoContact",
     "LlmUsageLog", "DpoTrainingRecord", "InboundEmail", "WebhookSubscription",
     "WebhookDelivery", "Subscription", "UsageCounter", "IngestionApiKey"}

Operations ==
    {"read", "insert", "change", "touch", "touchOrFail", "detach", "erase", "eraseOrFail",
     "upsert", "bump", "claim"}

\* A method of a repository whose rows have an owner: it is bound to an
\* organization unless it is one of those without the argument.
Bound(r, n, m) ==
    \/ r = "Organization" \/ n \in Unscoped \/ (r = "WebhookDelivery" /\ n = "update")
    \/ m.op = "insert" \/ "organizationId" \in m.by

\* Only an update reads back what it wrote, by the id it wrote to; what makes a
\* row that it does not find looks for the organization's own.
WellFormed(m) ==
    /\ m.op \in Operations
    /\ m.back # {} => /\ m.op = "change" /\ "id" \in m.by
                      /\ m.back = Id \/ (m.back = IdOrg /\ "organizationId" \in m.by)
    /\ m.op \in {"upsert", "bump"} => "organizationId" \in m.by /\ "id" \notin m.by
    /\ m.op = "claim" => "id" \notin m.by

Conforms(r, d) ==
    \A n \in DOMAIN d.methods : Bound(r, n, d.methods[n]) /\ WellFormed(d.methods[n])

\* The names of the tables.
LEMMA ModelNames == DOMAIN Prisma = Models
  BY DEF Prisma, Models

\* Every where clause in repositories/prisma, read once.
LEMMA Tables == \A r \in Models : Conforms(r, Prisma[r])
  <1> USE DEF Conforms, Bound, WellFormed, Operations, Unscoped,
              Repository, Statement, Read, Insert, Change, Touch, TouchOrFail, Detach, Erase,
              EraseOrFail, Upsert, Bump, Claim, None, Id, Org, IdOrg, KeyOrg, LiveOrg
  <1>1. Conforms("Organization", PrismaOrganization)
    BY DEF PrismaOrganization
  <1>2. Conforms("User", PrismaUser)
    BY DEF PrismaUser
  <1>3. Conforms("ClientCompany", PrismaClientCompany)
    BY DEF PrismaClientCompany
  <1>4. Conforms("Tender", PrismaTender)
    BY DEF PrismaTender
  <1>5. Conforms("ClientDocument", PrismaClientDocument)
    BY DEF PrismaClientDocument
  <1>6. Conforms("AuditEvent", PrismaAuditEvent)
    BY DEF PrismaAuditEvent
  <1>7. Conforms("ComplianceMatrix", PrismaComplianceMatrix)
    BY DEF PrismaComplianceMatrix
  <1>8. Conforms("ComplianceItem", PrismaComplianceItem)
    BY DEF PrismaComplianceItem
  <1>9. Conforms("TenderRequirement", PrismaTenderRequirement)
    BY DEF PrismaTenderRequirement
  <1>10. Conforms("EvidenceLink", PrismaEvidenceLink)
    BY DEF PrismaEvidenceLink
  <1>11. Conforms("ConsentEvent", PrismaConsentEvent)
    BY DEF PrismaConsentEvent
  <1>12. Conforms("DataSubjectRequest", PrismaDataSubjectRequest)
    BY DEF PrismaDataSubjectRequest
  <1>13. Conforms("TenderAccess", PrismaTenderAccess)
    BY DEF PrismaTenderAccess
  <1>14. Conforms("RetentionAction", PrismaRetentionAction)
    BY DEF PrismaRetentionAction
  <1>15. Conforms("IngestionJob", PrismaIngestionJob)
    BY DEF PrismaIngestionJob
  <1>16. Conforms("DpoContact", PrismaDpoContact)
    BY DEF PrismaDpoContact
  <1>17. Conforms("LlmUsageLog", PrismaLlmUsageLog)
    BY DEF PrismaLlmUsageLog
  <1>18. Conforms("DpoTrainingRecord", PrismaDpoTrainingRecord)
    BY DEF PrismaDpoTrainingRecord
  <1>19. Conforms("InboundEmail", PrismaInboundEmail)
    BY DEF PrismaInboundEmail
  <1>20. Conforms("WebhookSubscription", PrismaWebhookSubscription)
    BY DEF PrismaWebhookSubscription
  <1>21. Conforms("WebhookDelivery", PrismaWebhookDelivery)
    BY DEF PrismaWebhookDelivery
  <1>22. Conforms("Subscription", PrismaSubscription)
    BY DEF PrismaSubscription
  <1>23. Conforms("UsageCounter", PrismaUsageCounter)
    BY DEF PrismaUsageCounter
  <1>24. Conforms("IngestionApiKey", PrismaIngestionApiKey)
    BY DEF PrismaIngestionApiKey
  <1> HIDE DEF Conforms
  <1> QED
    BY <1>1, <1>2, <1>3, <1>4, <1>5, <1>6, <1>7, <1>8, <1>9, <1>10, <1>11, <1>12, <1>13, <1>14,
       <1>15, <1>16, <1>17, <1>18, <1>19, <1>20, <1>21, <1>22, <1>23, <1>24
    DEF Prisma, Models

-----------------------------------------------------------------------------
(* Calls and what they do to a table. *)

Table == [Ids -> Row \cup {NULL}]

\* What the arguments of a call are good for.
Fits(q) ==
    LET m == Asked[q.m]
        hit == Hit(rows, q, m.by)
    IN  /\ q.m \in DOMAIN Asked /\ q.org \in Orgs /\ q.val \in Vals
        /\ Makes(m.op, hit) => q.id \in Ids \ born
        /\ m.op \in {"insert", "upsert", "bump"} => q.key \in Keys
        /\ Makes(m.op, hit) /\ repo \in BelowParent => OwnerOf[q.key] = q.org
        /\ ~Makes(m.op, hit) => q.id \in hit \cup born \cup {NULL}
        /\ m.op \in {"read", "change", "touch", "touchOrFail", "detach", "erase", "eraseOrFail"}
              /\ "id" \in m.by => q.id \in born
        /\ m.op = "bump" => \A i \in hit : rows[i].val + 1 \in Vals

\* The arguments a caller has satisfy all of it.
LEMMA QueriesFit ==
  ASSUME repo \in Models, NEW q \in Queries
  PROVE  Fits(q)
  <1>1. PICK n \in DOMAIN Prisma[repo].methods, o \in Orgs, k \in Keys \cup {NULL} :
          q \in Arguments(n, o, k)
    BY DEF Queries
  <1> DEFINE m == Prisma[repo].methods[n]
             hit == Hit(rows, [org |-> o, key |-> k], m.by \ Id)
             ids == IF Makes(m.op, hit) THEN Ids \ born
                    ELSE IF m.op \in {"upsert", "bump", "claim"} THEN hit
                    ELSE IF "id" \in m.by THEN born ELSE {NULL}
             vals == IF m.by \cap {"live", "id"} = IdLive THEN {1}
                     ELSE IF m.op \in {"change", "upsert"} THEN Vals ELSE {0}
             takesKey == m.op \in {"insert", "upsert", "bump"} \/ m.by \cap KeyColumns # {}
  <1>2. /\ takesKey <=> k # NULL
        /\ Makes(m.op, hit) /\ repo \in BelowParent => OwnerOf[k] = o
        /\ m.op = "bump" => \A i \in hit : rows[i].val + 1 \in Vals
        /\ q \in [m : {n}, org : {o}, key : {k}, id : ids, val : vals]
    BY <1>1 DEF Arguments
  <1>3. q.m = n /\ q.org = o /\ q.key = k /\ q.id \in ids /\ q.val \in vals
    <2> HIDE DEF ids, vals
    <2> QED
      BY <1>2
  <1>4. vals \subseteq Vals
    BY RepositoriesAssumption
  <1>5. WellFormed(m)
    BY Tables, ModelNames DEF Conforms
  <1>6. m.op \in {"upsert", "bump", "claim"} => hit = Hit(rows, q, m.by)
    <2>1. ASSUME "id" \notin m.by PROVE hit = Hit(rows, q, m.by)
      <3>1. m.by \ Id = m.by
        BY <2>1 DEF Id
      <3> HIDE DEF m
      <3> QED
        BY <1>3, <2>1, <3>1 DEF Hit
    <2> QED
      BY <1>5, <2>1 DEF WellFormed
  <1>7. Makes(m.op, hit) <=> Makes(m.op, Hit(rows, q, m.by))
    BY <1>6 DEF Makes
  <1>8. m = Asked[q.m]
    BY <1>3 DEF Asked
  <1>9. q.m \in DOMAIN Asked /\ q.org \in Orgs /\ q.val \in Vals
    BY <1>3, <1>4 DEF Asked
  <1>10. takesKey => q.key \in Keys
    BY <1>2, <1>3
  <1>11. ~Makes(m.op, hit) => q.id \in Hit(rows, q, m.by) \cup born \cup {NULL}
    <2> HIDE DEF hit, m
    <2> QED
      BY <1>3, <1>6
  <1> HIDE DEF m, hit, vals
  <1> QED
    BY <1>2, <1>3, <1>5, <1>6, <1>7, <1>8, <1>9, <1>10, <1>11 DEF Fits, Makes

\* A row that is written over keeps its organization.
LEMMA WrittenRow ==
  ASSUME NEW op \in Operations, NEW q, NEW r \in Row, q.org \in Orgs, q.val \in Vals,
         op = "upsert" => q.key \in Keys /\ q.org = r.org,
         op = "bump" => r.val + 1 \in Vals
  PROVE  /\ Written(op, q, r, FALSE) \in Row \cup {NULL}
         /\ op \in {"change", "claim", "detach", "bump", "upsert"} =>
              /\ Written(op, q, r, FALSE) \in Row /\ Written(op, q, r, FALSE).org = r.org
              /\ op \in {"detach", "upsert"} \/ Written(op, q, r, FALSE).key = r.key
  <1>1. CASE op = "upsert"
    BY <1>1 DEF Written, NewRow, Row
  <1>2. CASE op = "change"
    BY <1>2 DEF Written, Row
  <1>3. CASE op = "claim"
    BY <1>3, RepositoriesAssumption DEF Written, Row
  <1>4. CASE op = "detach"
    BY <1>4 DEF Written, Row
  <1>5. CASE op = "bump"
    BY <1>5 DEF Written, Row
  <1>6. CASE op \notin {"change", "claim", "detach", "bump", "upsert"}
    BY <1>6 DEF Written
  <1> QED
    BY <1>1, <1>2, <1>3, <1>4, <1>5, <1>6

\* What may become of a row: only a deletion removes it, it stays with its
\* organization, and an update leaves its key alone.
Follows(op, r, s) ==
    \/ s = NULL /\ op \in {"erase", "eraseOrFail"}
    \/ /\ s \in Row /\ s.org = r.org
       /\ op \in {"detach", "upsert"} \/ s.key = r.key

\* What a statement that selects the rows hit may change in a table, and what it
\* may answer.
Affects(op, hit, q, t, o) ==
    /\ o.t \in Table
    /\ \A i \in Ids : o.t[i] # t[i] => IF Makes(op, hit) THEN i = q.id ELSE i \in hit
    /\ ~Makes(op, hit) => \A i \in hit : Follows(op, t[i], o.t[i])
    /\ Makes(op, hit) =>
          o.t = t \/ (o.t[q.id] = NewRow(q) /\ \A i \in Ids \ {q.id} : o.t[i] = t[i])
    /\ \A a \in o.a.rows : IF Makes(op, hit) THEN a.row = NewRow(q)
                           ELSE \E i \in hit : a.row.org = t[i].org

\* Every statement keeps to that.
LEMMA Effect ==
  ASSUME NEW t \in Table, NEW op \in Operations, NEW by, NEW clash \in BOOLEAN, NEW q,
         q.org \in Orgs, q.val \in Vals,
         Makes(op, Hit(t, q, by)) => q.id \in Ids,
         op \in {"insert", "upsert", "bump"} => q.key \in Keys,
         op \in {"upsert", "bump"} => "organizationId" \in by,
         op = "bump" => \A i \in Hit(t, q, by) : t[i].val + 1 \in Vals
  PROVE  Affects(op, Hit(t, q, by), q, t, Outcome(op, by, clash, q, t))
  <1> DEFINE hit == Hit(t, q, by)
             makes == Makes(op, hit)
             put == Put(op, q, hit)
             after == [i \in Ids |-> IF i \in put THEN Written(op, q, t[i], makes) ELSE t[i]]
             o == Outcome(op, by, clash, q, t)
  <1>1. hit \subseteq Ids /\ \A i \in hit : t[i] \in Row
    BY RepositoriesAssumption DEF Hit, Table
  <1>2. op = "upsert" => \A i \in hit : t[i].org = q.org
    BY DEF Hit
  <1>3. makes \in BOOLEAN
    BY DEF Makes
  <1>4. CASE makes
    <2>1. put = {q.id} /\ q.id \in Ids /\ op \in {"insert", "upsert", "bump"}
      BY <1>4 DEF Put, Makes
    <2>2. NewRow(q) \in Row
      BY <2>1 DEF NewRow, Row
    <2>3. \A r : Written(op, q, r, TRUE) = NewRow(q)
      BY DEF Written
    <2>4. /\ after \in Table /\ after[q.id] = NewRow(q)
          /\ \A i \in Ids \ {q.id} : after[i] = t[i]
      BY <1>3, <1>4, <2>1, <2>2, <2>3 DEF Table
    <2>5. o = [t |-> t, a |-> Error] \/ o = [t |-> after, a |-> Found(after, put)]
      BY <2>1 DEF Outcome
    <2>6. Error.rows = {} /\ Found(after, put).rows = {[id |-> i, row |-> after[i]] : i \in put}
      BY DEF Error, Found
    <2>7. \A a \in o.a.rows : a.row = NewRow(q)
      <3> HIDE DEF o, after, put
      <3> QED
        <4>1. CASE o.a = Error
          BY <2>6, <4>1
        <4>2. CASE o.a = Found(after, put)
          BY <2>1, <2>4, <2>6, <4>2
        <4> QED
          BY <2>5, <4>1, <4>2
    <2>8. o.t = t \/ o.t = after
      <3> HIDE DEF o, after, put
      <3> QED
        BY <2>5
    <2> HIDE DEF o, after, put, hit, makes
    <2>9. /\ o.t \in Table
          /\ \A i \in Ids : o.t[i] # t[i] => IF makes THEN i = q.id ELSE i \in hit
          /\ o.t = t \/ (o.t[q.id] = NewRow(q) /\ \A i \in Ids \ {q.id} : o.t[i] = t[i])
      BY <1>4, <2>4, <2>8
    <2> QED
      BY <1>4, <2>7, <2>9 DEF o, hit, makes, Affects
  <1>5. CASE ~makes
    <2>1. put \subseteq hit
      BY <1>5 DEF Put
    <2>2. \A i \in hit : /\ Written(op, q, t[i], FALSE) \in Row \cup {NULL}
                         /\ op \in {"change", "claim", "detach", "bump", "upsert"} =>
                              /\ Written(op, q, t[i], FALSE) \in Row
                              /\ Written(op, q, t[i], FALSE).org = t[i].org
                              /\ \/ op \in {"detach", "upsert"}
                                 \/ Written(op, q, t[i], FALSE).key = t[i].key
      <3> TAKE i \in hit
      <3>1. /\ t[i] \in Row /\ q.org \in Orgs /\ q.val \in Vals
            /\ op = "upsert" => q.key \in Keys /\ q.org = t[i].org
            /\ op = "bump" => t[i].val + 1 \in Vals
        BY <1>1, <1>2
      <3> HIDE DEF hit
      <3> QED
        BY <3>1, WrittenRow
    <2>3. makes = FALSE
      BY <1>3, <1>5
    <2>4. \A i \in Ids : after[i] = IF i \in put THEN Written(op, q, t[i], FALSE) ELSE t[i]
      BY <2>3
    <2>5. after \in [Ids -> Row \cup {NULL}]
      <3>1. \A i \in Ids : after[i] \in Row \cup {NULL}
        <4> HIDE DEF hit, put, after
        <4> QED
          BY <1>1, <2>1, <2>2, <2>4 DEF Table
      <3> QED
        BY <3>1
    <2>6. \/ o = [t |-> t, a |-> Error] \/ o = [t |-> t, a |-> Found(t, hit)]
          \/ /\ o = [t |-> after, a |-> Found(t, hit)]
             /\ op \in {"erase", "eraseOrFail"}
          \/ /\ o = [t |-> after, a |-> Found(after, put)]
             /\ op \in {"change", "claim", "detach", "bump", "upsert"} \/ hit = {}
      <3>1. o = CASE op = "read" \/ (op \in {"touch", "touchOrFail"} /\ hit # {}) ->
                       [t |-> t, a |-> Found(t, hit)]
                  [] \/ op \in {"insert", "upsert"} /\ clash
                     \/ op \in {"change", "touchOrFail", "eraseOrFail"} /\ hit = {} ->
                       [t |-> t, a |-> Error]
                  [] op = "erase" \/ (op = "eraseOrFail" /\ hit # {}) ->
                       [t |-> after, a |-> Found(t, hit)]
                  [] OTHER -> [t |-> after, a |-> Found(after, put)]
        BY DEF Outcome
      <3>2. op # "insert"
        BY <1>5 DEF Makes
      <3> HIDE DEF o, after, put, hit, makes
      <3> QED
        BY <3>1, <3>2 DEF Operations
    <2>7. /\ Error.rows = {}
          /\ Found(t, hit).rows = {[id |-> i, row |-> t[i]] : i \in hit}
          /\ Found(after, put).rows = {[id |-> i, row |-> after[i]] : i \in put}
      BY DEF Error, Found
    <2> HIDE DEF o, after, put, hit, makes
    <2>8. o.t = t \/ o.t = after
      BY <2>6
    <2>9. /\ o.t \in Table
          /\ \A i \in Ids : o.t[i] # t[i] => i \in hit
      BY <2>1, <2>4, <2>5, <2>8 DEF Table
    <2>10. \A i \in hit : Follows(op, t[i], o.t[i])
      <3>1. CASE o.t = t
        BY <1>1, <3>1 DEF Follows
      <3>2. CASE o.t = after /\ op \in {"change", "claim", "detach", "bump", "upsert"}
        BY <1>1, <2>1, <2>2, <2>4, <3>2 DEF Follows
      <3>3. CASE o.t = after /\ op \in {"erase", "eraseOrFail"}
        <4>1. \A i \in hit : Written(op, q, t[i], FALSE) = NULL
          BY <3>3 DEF Written
        <4> QED
          BY <1>1, <2>1, <2>4, <3>3, <4>1 DEF Follows
      <3> QED
        BY <2>6, <3>1, <3>2, <3>3
    <2>11. \A a \in o.a.rows : \E i \in hit : a.row.org = t[i].org
      <3>1. CASE o.a.rows = {}
        BY <3>1
      <3>2. CASE o.a = Found(t, hit)
        BY <2>7, <3>2
      <3>3. CASE /\ o = [t |-> after, a |-> Found(after, put)]
                 /\ op \in {"change", "claim", "detach", "bump", "upsert"} \/ hit = {}
        <4>1. o.a.rows = {[id |-> i, row |-> after[i]] : i \in put}
          BY <2>7, <3>3
        <4>2. \A i \in put : after[i].org = t[i].org
          BY <1>1, <2>1, <2>2, <2>4, <3>3
        <4> QED
          BY <2>1, <4>1, <4>2
      <3> QED
        BY <2>6, <2>7, <3>1, <3>2, <3>3
    <2> QED
      BY <1>5, <2>9, <2>10, <2>11 DEF o, hit, makes, Affects
  <1> QED
    BY <1>3, <1>4, <1>5

\* An update of no row is an error.
LEMMA ChangeFails ==
  ASSUME NEW by, NEW clash, NEW q, NEW t, Hit(t, q, by) = {}
  PROVE  Outcome("change", by, clash, q, t).a.error
  BY DEF Outcome, Error

-----------------------------------------------------------------------------
(* Organizations stay apart. *)

\* An update between its two statements has the id of a row that was there, and
\* for as long as that row is there it is the caller's own: no id is given out
\* twice, and no statement moves a row to another organization.
Pending(k) ==
    /\ k = [q |-> k.q, fake |-> k.fake, alone |-> k.alone]
    /\ k.q.m \in DOMAIN Asked /\ Asked[k.q.m].back # {}
    /\ k.q.id \in born
    /\ Scoped(k.q) => rows[k.q.id] = NULL \/ rows[k.q.id].org = k.q.org

TenancyInv ==
    /\ repo \in Models
    /\ rows \in Table
    /\ born \subseteq Ids
    /\ \A i \in Ids : rows[i] # NULL => i \in born
    /\ calls = [c \in Slots |-> calls[c]]
    /\ \A c \in Slots : calls[c] # NULL => Pending(calls[c])

\* The first statement of a call: what it may change, and what it answers.
LEMMA AskEffect ==
  ASSUME TenancyInv, NEW c \in Slots, NEW q \in Queries, Ask(c, q)
  PROVE  /\ Fits(q) /\ WellFormed(Asked[q.m]) /\ Bound(repo, q.m, Asked[q.m])
         /\ Affects(Asked[q.m].op, Hit(rows, q, Asked[q.m].by), q, rows,
                    [t |-> rows', a |-> last'.answer])
         /\ calls'[c] # NULL =>
               /\ calls'[c] = [q |-> q, fake |-> calls'[c].fake, alone |-> TRUE]
               /\ Asked[q.m].back # {} /\ Hit(rows, q, Asked[q.m].by) # {}
  <1> DEFINE m == Asked[q.m]
             hit == Hit(rows, q, m.by)
             clash == Clash(rows, q, Prisma[repo].unique)
             p == Outcome(m.op, m.by, clash, q, rows)
             allowed == AssertTenancy(repo, m.op, Where(m))
             f == Execute(Fake[repo], q, fake)
             goesOn == allowed /\ m.back # None /\ ~p.a.error
  <1>1. repo \in Models /\ rows \in Table /\ Fits(q)
    BY QueriesFit DEF TenancyInv
  <1>2. WellFormed(m) /\ Bound(repo, q.m, m)
    BY <1>1, Tables DEF Conforms, Fits, Asked
  <1>3. p = Execute(Prisma[repo], q, rows)
    BY DEF Execute, Asked
  <1>4. clash \in BOOLEAN
    BY DEF Clash
  <1>5. /\ rows' = IF allowed THEN p.t ELSE rows
        /\ last'.answer = IF allowed THEN p.a ELSE Error
        /\ calls'[c] = IF goesOn THEN [q |-> q, fake |-> f.a, alone |-> TRUE] ELSE NULL
    BY <1>3 DEF Ask, Note, Disturbed
  <1>6. Error.rows = {}
    BY DEF Error
  <1>7. m.back # {} => m.op = "change"
    BY <1>2 DEF WellFormed
  <1>8. m.op = "change" /\ hit = {} => p.a.error
    BY ChangeFails
  <1>9. Affects(m.op, hit, q, rows, p)
    <2>1. /\ m.op \in Operations /\ q.org \in Orgs /\ q.val \in Vals
          /\ Makes(m.op, hit) => q.id \in Ids
          /\ m.op \in {"insert", "upsert", "bump"} => q.key \in Keys
          /\ m.op \in {"upsert", "bump"} => "organizationId" \in m.by
          /\ m.op = "bump" => \A i \in hit : rows[i].val + 1 \in Vals
      BY <1>1, <1>2 DEF Fits, WellFormed
    <2> HIDE DEF m, clash
    <2> QED
      BY <1>1, <1>4, <2>1, Effect
  <1>10. \A i \in hit : rows[i] \in Row
    BY <1>1, RepositoriesAssumption DEF Hit, Table
  <1> HIDE DEF m, clash, hit, p, allowed, f
  <1>11. calls'[c] # NULL => /\ calls'[c] = [q |-> q, fake |-> calls'[c].fake, alone |-> TRUE]
                             /\ m.back # {} /\ hit # {}
    <2>1. calls'[c] # NULL => goesOn
      BY <1>5
    <2>2. goesOn => calls'[c] = [q |-> q, fake |-> f.a, alone |-> TRUE]
      BY <1>5
    <2>3. goesOn => calls'[c].fake = f.a
      BY <2>2
    <2>4. goesOn => m.back # {} /\ hit # {}
      BY <1>7, <1>8 DEF None
    <2> QED
      BY <2>1, <2>2, <2>3, <2>4
  <1>12. Affects(m.op, hit, q, rows, [t |-> rows', a |-> last'.answer])
    <2>1. CASE allowed
      BY <1>5, <1>9, <2>1 DEF Affects
    <2>2. CASE ~allowed
      <3>1. rows' = rows /\ last'.answer.rows = {}
        BY <1>5, <1>6, <2>2
      <3> QED
        BY <1>1, <1>10, <3>1 DEF Affects, Follows
    <2> QED
      BY <2>1, <2>2
  <1> QED
    BY <1>1, <1>2, <1>11, <1>12 DEF m, hit

\* The empty tables.
LEMMA TenancyInit == Init => TenancyInv
  <1> SUFFICES ASSUME Init PROVE TenancyInv
    OBVIOUS
  <1>1. repo \in Models
    BY RepositoriesAssumption, ModelNames DEF Init
  <1>2. rows \in Table /\ born \subseteq Ids /\ \A i \in Ids : rows[i] # NULL => i \in born
    BY DEF Init, Table
  <1>3. calls = [c \in Slots |-> calls[c]] /\ \A c \in Slots : calls[c] = NULL
    BY DEF Init
  <1> QED
    BY <1>1, <1>2, <1>3 DEF TenancyInv

\* The first statement leaves every pending update with a row of its own.
LEMMA AskKeepsTenancy ==
  ASSUME TenancyInv, NEW c \in Slots, NEW q \in Queries, Ask(c, q)
  PROVE  TenancyInv'
  <1> DEFINE m == Asked[q.m]
             hit == Hit(rows, q, m.by)
             makes == Makes(m.op, hit)
  <1>1. /\ Fits(q) /\ WellFormed(m) /\ Bound(repo, q.m, m)
        /\ Affects(m.op, hit, q, rows, [t |-> rows', a |-> last'.answer])
        /\ calls'[c] # NULL => /\ calls'[c] = [q |-> q, fake |-> calls'[c].fake, alone |-> TRUE]
                               /\ m.back # {} /\ hit # {}
    BY AskEffect
  <1>2. /\ repo \in Models /\ rows \in Table /\ born \subseteq Ids
        /\ \A i \in Ids : rows[i] # NULL => i \in born
        /\ calls = [x \in Slots |-> calls[x]]
        /\ \A x \in Slots : calls[x] # NULL => Pending(calls[x])
    BY DEF TenancyInv
  <1>3. hit \subseteq Ids /\ \A i \in hit : rows[i] # NULL
    BY DEF Hit
  <1>4. /\ repo' = repo
        /\ born' = IF rows' # rows /\ q.id # NULL THEN born \cup {q.id} ELSE born
    BY DEF Ask
  <1>5. \A x \in Slots \ {c} : \/ calls'[x] = calls[x]
                               \/ calls[x] # NULL /\ calls'[x] = [calls[x] EXCEPT !.alone = FALSE]
    BY DEF Ask, Disturbed
  <1>6. calls' = [x \in Slots |-> calls'[x]]
    BY DEF Ask, Disturbed
  <1>7. /\ ~makes => q.id \in hit \cup born \cup {NULL}
        /\ makes => q.id \in Ids \ born
        /\ m.op = "change" /\ "id" \in m.by => q.id \in born
    BY <1>1 DEF Fits
  <1>8. /\ rows' \in Table
        /\ \A i \in Ids : rows'[i] # rows[i] => IF makes THEN i = q.id ELSE i \in hit
        /\ ~makes => \A i \in hit : rows'[i] = NULL \/ rows'[i].org = rows[i].org
    BY <1>1 DEF Affects, Follows
  <1> HIDE DEF m, hit, makes
  <1>9. born \subseteq born' /\ born' \subseteq Ids /\ \A i \in Ids : rows'[i] # NULL => i \in born'
    <2>1. born \subseteq born' /\ born' \subseteq Ids
      BY <1>2, <1>3, <1>4, <1>7
    <2>2. ASSUME NEW i \in Ids, rows'[i] # NULL PROVE i \in born'
      <3>1. CASE rows'[i] = rows[i]
        BY <1>2, <2>1, <2>2, <3>1
      <3>2. CASE rows'[i] # rows[i] /\ ~makes
        BY <1>2, <1>3, <1>8, <2>1, <3>2
      <3>3. CASE rows'[i] # rows[i] /\ makes
        BY <1>4, <1>8, <3>3, RepositoriesAssumption
      <3> QED
        BY <3>1, <3>2, <3>3
    <2> QED
      BY <2>1, <2>2
  <1>10. \A i \in born : \A o : rows[i] = NULL \/ rows[i].org = o =>
                                  rows'[i] = NULL \/ rows'[i].org = o
    <2> TAKE i \in born
    <2> TAKE o
    <2>1. CASE rows'[i] = rows[i]
      BY <2>1
    <2>2. CASE rows'[i] # rows[i] /\ ~makes
      BY <1>2, <1>3, <1>8, <2>2
    <2>3. CASE rows'[i] # rows[i] /\ makes
      BY <1>2, <1>7, <1>8, <2>3
    <2> QED
      BY <2>1, <2>2, <2>3
  <1>11. ASSUME NEW x \in Slots, calls'[x] # NULL PROVE Pending(calls[x])'
    <2>1. CASE x # c
      <3>1. calls[x] # NULL
        BY <1>5, <1>11, <2>1
      <3> DEFINE k == calls[x]
      <3>2. /\ k = [q |-> k.q, fake |-> k.fake, alone |-> k.alone]
            /\ k.q.m \in DOMAIN Asked /\ Asked[k.q.m].back # {} /\ k.q.id \in born
            /\ Scoped(k.q) => rows[k.q.id] = NULL \/ rows[k.q.id].org = k.q.org
        BY <1>2, <3>1 DEF Pending
      <3>3. /\ calls'[x].q = k.q
            /\ calls'[x] = [q |-> calls'[x].q, fake |-> calls'[x].fake, alone |-> calls'[x].alone]
        <4>1. CASE calls'[x] = k
          BY <3>2, <4>1
        <4>2. CASE calls'[x] = [k EXCEPT !.alone = FALSE]
          <5>1. calls'[x] = [q |-> k.q, fake |-> k.fake, alone |-> FALSE]
            BY <3>2, <4>2
          <5> QED
            BY <5>1
        <4> QED
          BY <1>5, <2>1, <4>1, <4>2
      <3>4. Asked' = Asked /\ (Scoped(calls[x].q)' <=> Scoped(k.q))
        BY <1>4, <3>3 DEF Asked, Scoped
      <3>5. Scoped(k.q) => rows'[k.q.id] = NULL \/ rows'[k.q.id].org = k.q.org
        BY <1>10, <3>2
      <3> HIDE DEF k
      <3> QED
        BY <1>9, <3>2, <3>3, <3>4, <3>5 DEF Pending
    <2>2. CASE x = c
      <3>1. /\ calls'[c] = [q |-> q, fake |-> calls'[c].fake, alone |-> TRUE]
            /\ m.back # {} /\ hit # {}
        BY <1>1, <1>11, <2>2
      <3>2. calls'[c].q = q /\ calls'[c].alone = TRUE
        BY <3>1
      <3>3. m.op = "change" /\ "id" \in m.by /\ q.id \in born /\ ~makes
        BY <1>1, <1>7, <3>1 DEF WellFormed, makes, Makes
      <3>4. q.id \in hit
        BY <3>1, <3>3 DEF hit, Hit
      <3>5. Scoped(q) => rows[q.id].org = q.org
        <4>1. Scoped(q) => "organizationId" \in m.by
          BY <1>1, <3>3 DEF Bound, Scoped
        <4> QED
          BY <3>4, <4>1 DEF hit, Hit
      <3>6. Scoped(q) => rows'[q.id] = NULL \/ rows'[q.id].org = q.org
        BY <1>10, <3>3, <3>5
      <3>7. Asked' = Asked /\ q.m \in DOMAIN Asked /\ (repo' = repo)
        BY <1>1, <1>4 DEF Fits, Asked
      <3>8. Scoped(calls[c].q)' <=> Scoped(q)
        BY <1>4, <3>2 DEF Scoped
      <3> QED
        BY <1>9, <2>2, <3>1, <3>2, <3>3, <3>6, <3>7, <3>8 DEF Pending, m
    <2> QED
      BY <2>1, <2>2
  <1> QED
    BY <1>2, <1>4, <1>6, <1>8, <1>9, <1>11 DEF TenancyInv, Table

\* The read after the write changes nothing.
LEMMA ReadBackKeepsTenancy ==
  ASSUME TenancyInv, NEW c \in Slots, ReadBack(c)
  PROVE  TenancyInv'
  <1>1. /\ UNCHANGED <<repo, rows, fake, born>>
        /\ calls' = [calls EXCEPT ![c] = NULL]
    BY DEF ReadBack
  <1>2. calls = [x \in Slots |-> calls[x]]
    BY DEF TenancyInv
  <1>3. calls' = [x \in Slots |-> calls'[x]] /\ \A x \in Slots : calls'[x] \in {NULL, calls[x]}
    BY <1>1, <1>2
  <1>4. ASSUME NEW x \in Slots, calls'[x] # NULL PROVE Pending(calls[x])'
    <2>1. calls'[x] = calls[x] /\ Pending(calls[x])
      BY <1>3, <1>4 DEF TenancyInv
    <2> QED
      BY <1>1, <2>1 DEF Pending, Asked, Scoped
  <1> QED
    BY <1>1, <1>3, <1>4 DEF TenancyInv, Table

\* The invariant is inductive.
LEMMA TenancyStep == TenancyInv /\ [Next]_vars => TenancyInv'
  <1> SUFFICES ASSUME TenancyInv, [Next]_vars PROVE TenancyInv'
    OBVIOUS
  <1>1. CASE UNCHANGED vars
    BY <1>1 DEF vars, TenancyInv, Pending, Table, Asked, Scoped
  <1>2. CASE Next
    BY <1>2, AskKeepsTenancy, ReadBackKeepsTenancy DEF Next
  <1> QED
    BY <1>1, <1>2

\* What a step shows and changes belongs to the caller's organization.
OwnOnly(l) ==
    Scoped(l.q) =>
      /\ \A a \in l.answer.rows : a.row.org = l.q.org
      /\ \A i \in Ids : rows'[i] # rows[i] =>
           \A r \in {rows[i], rows'[i]} \ {NULL} : r.org = l.q.org

\* A statement that is bound to an organization selects rows of no other.
LEMMA AskOwnOnly ==
  ASSUME TenancyInv, NEW c \in Slots, NEW q \in Queries, Ask(c, q)
  PROVE  OwnOnly(last')
  <1> DEFINE m == Asked[q.m]
             hit == Hit(rows, q, m.by)
             makes == Makes(m.op, hit)
  <1>1. /\ Fits(q) /\ Bound(repo, q.m, m)
        /\ Affects(m.op, hit, q, rows, [t |-> rows', a |-> last'.answer])
    BY AskEffect
  <1>2. last'.q = q
    BY DEF Ask, Note
  <1>3. \A i \in Ids : rows[i] # NULL => i \in born
    BY DEF TenancyInv
  <1>4. makes => q.id \in Ids \ born
    BY <1>1 DEF Fits
  <1>5. SUFFICES ASSUME Scoped(q)
                 PROVE  /\ \A a \in last'.answer.rows : a.row.org = q.org
                        /\ \A i \in Ids : rows'[i] # rows[i] =>
                             \A r \in {rows[i], rows'[i]} \ {NULL} : r.org = q.org
    BY <1>2 DEF OwnOnly
  <1>6. CASE makes
    <2>1. /\ \A a \in last'.answer.rows : a.row = NewRow(q)
          /\ \A i \in Ids : rows'[i] # rows[i] => i = q.id
          /\ rows' = rows \/ rows'[q.id] = NewRow(q)
      BY <1>1, <1>6 DEF Affects
    <2>2. NewRow(q).org = q.org
      BY DEF NewRow
    <2>3. rows[q.id] = NULL
      BY <1>3, <1>4, <1>6
    <2> HIDE DEF makes
    <2> QED
      BY <2>1, <2>2, <2>3
  <1>7. CASE ~makes
    <2>1. "organizationId" \in m.by
      BY <1>1, <1>5, <1>7 DEF Bound, Scoped, Makes
    <2>2. \A i \in hit : rows[i].org = q.org
      BY <2>1 DEF Hit
    <2>3. /\ \A a \in last'.answer.rows : \E i \in hit : a.row.org = rows[i].org
          /\ \A i \in Ids : rows'[i] # rows[i] => i \in hit
          /\ \A i \in hit : rows'[i] = NULL \/ rows'[i].org = rows[i].org
      BY <1>1, <1>7 DEF Affects, Follows
    <2> HIDE DEF hit, makes, m
    <2> QED
      BY <2>2, <2>3
  <1> QED
    BY <1>6, <1>7

\* The read after an update has no organizationId in its where clause, and needs
\* none: the row of that id is the one that was written, or gone.
LEMMA ReadBackOwnOnly ==
  ASSUME TenancyInv, NEW c \in Slots, ReadBack(c)
  PROVE  OwnOnly(last')
  <1> DEFINE q == calls[c].q
             back == Asked[q.m].back
  <1>1. rows' = rows /\ last'.q = q
    BY DEF ReadBack, Note
  <1>2. /\ repo \in Models /\ q.m \in DOMAIN Asked /\ back # {}
        /\ Scoped(q) => rows[q.id] = NULL \/ rows[q.id].org = q.org
    BY DEF TenancyInv, ReadBack, Pending
  <1>3. "id" \in back
    <2>1. WellFormed(Asked[q.m])
      BY <1>2, Tables DEF Conforms, Asked
    <2> QED
      BY <1>2, <2>1 DEF WellFormed, Id, IdOrg
  <1>4. last'.answer \in {Found(rows, Hit(rows, q, back)), Error}
    BY DEF ReadBack, Note
  <1>5. \A i \in Hit(rows, q, back) : i = q.id /\ rows[i] # NULL
    BY <1>3 DEF Hit
  <1>6. Error.rows = {}
    BY DEF Error
  <1>7. \A a \in last'.answer.rows : a.row = rows[q.id] /\ rows[q.id] # NULL
    <2> HIDE DEF q, back
    <2>1. CASE last'.answer = Error
      BY <1>6, <2>1
    <2>2. CASE last'.answer = Found(rows, Hit(rows, q, back))
      BY <1>5, <2>2 DEF Found
    <2> QED
      BY <1>4, <2>1, <2>2
  <1> HIDE DEF q, back
  <1> QED
    BY <1>1, <1>2, <1>7 DEF OwnOnly

\* TenantIsolation: whoever else writes, adds and deletes, a call that takes an
\* organizationId sees and changes rows of that organization only, for every
\* number of organizations, rows and concurrent calls (repositories/prisma).
THEOREM OrganizationsStayApart == Spec => TenantIsolation
  <1>1. TenancyInv /\ [Next]_vars =>
          [LET l == last' IN
             (last' # last /\ Scoped(l.q)) =>
               /\ \A a \in l.answer.rows : a.row.org = l.q.org
               /\ \A i \in Ids : rows'[i] # rows[i] =>
                    \A r \in {rows[i], rows'[i]} \ {NULL} : r.org = l.q.org]_vars
    <2> SUFFICES ASSUME TenancyInv, Next, last' # last
                 PROVE  OwnOnly(last')
      BY DEF OwnOnly, vars
    <2> QED
      BY AskOwnOnly, ReadBackOwnOnly DEF Next
  <1> QED
    BY <1>1, TenancyInit, TenancyStep, PTL DEF Spec, TenantIsolation

-----------------------------------------------------------------------------
(* The fakes do what the database does. *)

\* The two fakes that accept what the schema refuses.
Lenient == {"User", "Subscription"}

\* A fake makes the statements of its repository.  markUsed of the api keys alone
\* fails in the database and not in the fake, when there is no row; and below a
\* parent the fake's unique columns have the organization besides the key.
Mirrors(r, d, e) ==
    /\ \A n \in DOMAIN d.methods :
         /\ e.methods[n].by = d.methods[n].by
         /\ \/ e.methods[n].op = d.methods[n].op
            \/ /\ r = "IngestionApiKey" /\ d.methods[n].by = Id
               /\ d.methods[n].op = "touchOrFail" /\ e.methods[n].op = "touch"
         /\ r \in BelowParent => d.methods[n].op \notin {"detach", "upsert"}
         /\ r = "IngestionApiKey" => d.methods[n].op \notin {"erase", "eraseOrFail"}
    /\ \/ e.unique = d.unique
       \/ r \in BelowParent /\ d.unique = {"key"} /\ e.unique = KeyOrg

\* Repository by repository.
LEMMA FakeTables == \A r \in Models \ Lenient : Mirrors(r, Prisma[r], Fake[r])
  <1> USE DEF Mirrors, BelowParent, Repository, Statement, Read, Insert, Change, Touch,
              TouchOrFail, Detach, Erase, EraseOrFail, Upsert, Bump, Claim
  <1>1. Mirrors("Organization", PrismaOrganization, FakeOrganization)
    BY DEF PrismaOrganization, FakeOrganization
  <1>2. Mirrors("ClientCompany", PrismaClientCompany, FakeClientCompany)
    BY DEF PrismaClientCompany, FakeClientCompany
  <1>3. Mirrors("Tender", PrismaTender, FakeTender)
    BY DEF PrismaTender, FakeTender
  <1>4. Mirrors("ClientDocument", PrismaClientDocument, FakeClientDocument)
    BY DEF PrismaClientDocument, FakeClientDocument
  <1>5. Mirrors("AuditEvent", PrismaAuditEvent, FakeAuditEvent)
    BY DEF PrismaAuditEvent, FakeAuditEvent
  <1>6. Mirrors("ComplianceMatrix", PrismaComplianceMatrix, FakeComplianceMatrix)
    BY DEF PrismaComplianceMatrix, FakeComplianceMatrix
  <1>7. Mirrors("ComplianceItem", PrismaComplianceItem, FakeComplianceItem)
    BY DEF PrismaComplianceItem, FakeComplianceItem
  <1>8. Mirrors("TenderRequirement", PrismaTenderRequirement, FakeTenderRequirement)
    BY DEF PrismaTenderRequirement, FakeTenderRequirement
  <1>9. Mirrors("EvidenceLink", PrismaEvidenceLink, FakeEvidenceLink)
    BY DEF PrismaEvidenceLink, FakeEvidenceLink
  <1>10. Mirrors("ConsentEvent", PrismaConsentEvent, FakeConsentEvent)
    BY DEF PrismaConsentEvent, FakeConsentEvent
  <1>11. Mirrors("DataSubjectRequest", PrismaDataSubjectRequest, FakeDataSubjectRequest)
    BY DEF PrismaDataSubjectRequest, FakeDataSubjectRequest
  <1>12. Mirrors("TenderAccess", PrismaTenderAccess, FakeTenderAccess)
    BY DEF PrismaTenderAccess, FakeTenderAccess
  <1>13. Mirrors("RetentionAction", PrismaRetentionAction, FakeRetentionAction)
    BY DEF PrismaRetentionAction, FakeRetentionAction
  <1>14. Mirrors("IngestionJob", PrismaIngestionJob, FakeIngestionJob)
    BY DEF PrismaIngestionJob, FakeIngestionJob
  <1>15. Mirrors("DpoContact", PrismaDpoContact, FakeDpoContact)
    BY DEF PrismaDpoContact, FakeDpoContact
  <1>16. Mirrors("LlmUsageLog", PrismaLlmUsageLog, FakeLlmUsageLog)
    BY DEF PrismaLlmUsageLog, FakeLlmUsageLog
  <1>17. Mirrors("DpoTrainingRecord", PrismaDpoTrainingRecord, FakeDpoTrainingRecord)
    BY DEF PrismaDpoTrainingRecord, FakeDpoTrainingRecord
  <1>18. Mirrors("InboundEmail", PrismaInboundEmail, FakeInboundEmail)
    BY DEF PrismaInboundEmail, FakeInboundEmail
  <1>19. Mirrors("WebhookSubscription", PrismaWebhookSubscription, FakeWebhookSubscription)
    BY DEF PrismaWebhookSubscription, FakeWebhookSubscription
  <1>20. Mirrors("WebhookDelivery", PrismaWebhookDelivery, FakeWebhookDelivery)
    BY DEF PrismaWebhookDelivery, FakeWebhookDelivery
  <1>21. Mirrors("UsageCounter", PrismaUsageCounter, FakeUsageCounter)
    BY DEF PrismaUsageCounter, FakeUsageCounter
  <1>22. Mirrors("IngestionApiKey", PrismaIngestionApiKey, FakeIngestionApiKey)
    BY DEF PrismaIngestionApiKey, FakeIngestionApiKey
  <1> HIDE DEF Mirrors
  <1> QED
    BY <1>1, <1>2, <1>3, <1>4, <1>5, <1>6, <1>7, <1>8, <1>9, <1>10, <1>11, <1>12, <1>13, <1>14,
       <1>15, <1>16, <1>17, <1>18, <1>19, <1>20, <1>21, <1>22
    DEF Prisma, Fake, Models, Lenient

\* A unique column matters to insertions only.
LEMMA ClashOfInsertions ==
  ASSUME NEW op, op \notin {"insert", "upsert"}, NEW by, NEW q, NEW t, NEW c \in BOOLEAN, NEW d \in BOOLEAN
  PROVE  Outcome(op, by, c, q, t) = Outcome(op, by, d, q, t)
  BY DEF Outcome

\* Below a parent the key has the organization of its parent, so that the two
\* unique indexes refuse the same rows.
LEMMA SameClash ==
  ASSUME NEW q, NEW t, \A i \in Ids : t[i] # NULL => OwnerOf[t[i].key] = t[i].org,
         OwnerOf[q.key] = q.org
  PROVE  Clash(t, q, {"key"}) <=> Clash(t, q, KeyOrg)
  BY DEF Clash, KeyOrg

\* The answer that shows one row.
One(i, r) == [error |-> FALSE, rows |-> {[id |-> i, row |-> r]}]

\* A lookup that finds one row answers with it.
LEMMA FoundOne ==
  ASSUME NEW t, NEW i
  PROVE  Found(t, {i}) = One(i, t[i])
  BY DEF Found, One

\* An update of one row answers with the row as it is now.
LEMMA ChangeAnswers ==
  ASSUME NEW by, NEW clash, NEW q, NEW t, Hit(t, q, by) = {q.id}
  PROVE  LET o == Outcome("change", by, clash, q, t) IN o.a = One(q.id, o.t[q.id])
  <1> DEFINE hit == Hit(t, q, by)
             after == [i \in Ids |-> IF i \in {q.id} THEN Written("change", q, t[i], FALSE) ELSE t[i]]
  <1>1. Put("change", q, hit) = {q.id} /\ Makes("change", hit) = FALSE
    BY DEF Put, Makes
  <1>2. Outcome("change", by, clash, q, t) = [t |-> after, a |-> Found(after, {q.id})]
    BY <1>1 DEF Outcome
  <1> HIDE DEF after
  <1> QED
    BY <1>2, FoundOne

\* Besides equal tables: rows below a parent are where their parent is, an api
\* key is never deleted, and an update that nobody disturbed will read what the
\* fake has answered.
AgreeInv ==
    repo \notin Lenient =>
      /\ fake = rows
      /\ repo \in BelowParent => \A i \in Ids : rows[i] # NULL => OwnerOf[rows[i].key] = rows[i].org
      /\ repo = "IngestionApiKey" => \A i \in born : rows[i] # NULL
      /\ \A c \in Slots : (calls[c] # NULL /\ calls[c].alone) =>
           LET q == calls[c].q IN
             /\ rows[q.id] # NULL
             /\ "organizationId" \in Asked[q.m].back => rows[q.id].org = q.org
             /\ calls[c].fake = One(q.id, rows[q.id])
      /\ (last # NULL /\ last.done /\ last.alone) => last.answer = last.fake

\* Side by side, a statement and its fake have one outcome.
LEMMA SameOutcome ==
  ASSUME TenancyInv, AgreeInv, repo \notin Lenient, NEW q \in Queries
  PROVE  Execute(Fake[repo], q, fake) = Execute(Prisma[repo], q, rows)
  <1> DEFINE d == Prisma[repo]
             e == Fake[repo]
             m == d.methods[q.m]
             n == e.methods[q.m]
             hit == Hit(rows, q, m.by)
  <1>1. repo \in Models /\ Fits(q) /\ fake = rows
    BY QueriesFit DEF TenancyInv, AgreeInv
  <1>2. Mirrors(repo, d, e) /\ q.m \in DOMAIN d.methods /\ m = Asked[q.m]
    BY <1>1, FakeTables DEF Fits, Asked
  <1>3. /\ n.by = m.by
        /\ \/ n.op = m.op
           \/ /\ repo = "IngestionApiKey" /\ m.by = Id
              /\ m.op = "touchOrFail" /\ n.op = "touch"
        /\ repo \in BelowParent => m.op \notin {"detach", "upsert"}
        /\ \/ e.unique = d.unique
           \/ repo \in BelowParent /\ d.unique = {"key"} /\ e.unique = KeyOrg
    BY <1>2 DEF Mirrors
  <1>4. /\ Execute(e, q, fake) = Outcome(n.op, m.by, Clash(rows, q, e.unique), q, rows)
        /\ Execute(d, q, rows) = Outcome(m.op, m.by, Clash(rows, q, d.unique), q, rows)
    BY <1>1, <1>3 DEF Execute
  <1>5. CASE n.op = m.op /\ e.unique = d.unique
    BY <1>4, <1>5
  <1>6. CASE n.op = m.op /\ e.unique # d.unique
    <2>1. repo \in BelowParent /\ d.unique = {"key"} /\ e.unique = KeyOrg /\ m.op # "upsert"
      BY <1>3, <1>6
    <2>2. \A u : Clash(rows, q, u) \in BOOLEAN
      BY DEF Clash
    <2>3. CASE m.op = "insert"
      <3>1. OwnerOf[q.key] = q.org
        BY <1>1, <1>2, <2>1, <2>3 DEF Fits, Makes
      <3>2. \A i \in Ids : rows[i] # NULL => OwnerOf[rows[i].key] = rows[i].org
        BY <2>1 DEF AgreeInv
      <3>3. Clash(rows, q, {"key"}) <=> Clash(rows, q, KeyOrg)
        BY <3>1, <3>2, SameClash
      <3>4. Clash(rows, q, e.unique) = Clash(rows, q, d.unique)
        BY <2>1, <2>2, <3>3
      <3> QED
        BY <1>4, <1>6, <3>4
    <2>4. CASE m.op # "insert"
      <3> DEFINE c1 == Clash(rows, q, e.unique)
                 c2 == Clash(rows, q, d.unique)
                 op == m.op
                 by == m.by
      <3>1. c1 \in BOOLEAN /\ c2 \in BOOLEAN /\ op \notin {"insert", "upsert"}
        BY <2>1, <2>2, <2>4
      <3>2. Outcome(op, by, c1, q, rows) = Outcome(op, by, c2, q, rows)
        <4> HIDE DEF c1, c2, op, by
        <4> QED
          BY <3>1, ClashOfInsertions
      <3> QED
        BY <1>4, <1>6, <3>2
    <2> QED
      BY <2>3, <2>4
  <1>7. CASE n.op # m.op
    <2>1. repo = "IngestionApiKey" /\ m.by = Id /\ m.op = "touchOrFail" /\ n.op = "touch"
      BY <1>3, <1>7
    <2>2. q.id \in born /\ rows[q.id] # NULL /\ q.id \in Ids
      BY <1>1, <1>2, <2>1 DEF Fits, Id, AgreeInv, TenancyInv
    <2>3. q.id \in hit
      BY <2>1, <2>2 DEF Hit, Id, KeyColumns
    <2>4. hit # {}
      BY <2>3
    <2>5. \A c : /\ Outcome("touch", m.by, c, q, rows) = [t |-> rows, a |-> Found(rows, hit)]
                 /\ Outcome("touchOrFail", m.by, c, q, rows) = [t |-> rows, a |-> Found(rows, hit)]
      BY <2>4 DEF Outcome
    <2> QED
      BY <1>4, <2>1, <2>5
  <1> QED
    BY <1>5, <1>6, <1>7

\* Nothing is there, and nobody has asked.
LEMMA AgreeInit == Init => AgreeInv
  BY DEF Init, AgreeInv

\* The first statement leaves the tables equal, and the fake's answer of an update
\* with the row the read is going to find.
LEMMA AskKeepsAgreement ==
  ASSUME ~Strict, TenancyInv, AgreeInv, NEW c \in Slots, NEW q \in Queries, Ask(c, q)
  PROVE  AgreeInv'
  <1> DEFINE m == Asked[q.m]
             hit == Hit(rows, q, m.by)
             makes == Makes(m.op, hit)
             p == Execute(Prisma[repo], q, rows)
             f == Execute(Fake[repo], q, fake)
  <1>1. repo' = repo
    BY DEF Ask
  <1> SUFFICES ASSUME repo \notin Lenient PROVE AgreeInv'
    BY <1>1 DEF AgreeInv
  <1>2. f = p
    BY SameOutcome
  <1>3. AssertTenancy(repo, m.op, Where(m))
    BY DEF AssertTenancy
  <1>4. /\ rows' = p.t /\ fake' = f.t
        /\ last'.answer = p.a /\ last'.fake = f.a
        /\ calls'[c] # NULL => calls'[c].fake = f.a
        /\ born' = IF rows' # rows /\ q.id # NULL THEN born \cup {q.id} ELSE born
    BY <1>3 DEF Ask, Note, Disturbed
  <1>5. /\ Fits(q) /\ WellFormed(m)
        /\ Affects(m.op, hit, q, rows, [t |-> rows', a |-> last'.answer])
        /\ calls'[c] # NULL => /\ calls'[c] = [q |-> q, fake |-> calls'[c].fake, alone |-> TRUE]
                               /\ m.back # {} /\ hit # {}
    BY AskEffect
  <1>6. /\ rows' \in Table
        /\ \A i \in Ids : rows'[i] # rows[i] => IF makes THEN i = q.id ELSE i \in hit
        /\ ~makes => \A i \in hit : Follows(m.op, rows[i], rows'[i])
        /\ makes => rows' = rows \/ rows'[q.id] = NewRow(q)
    BY <1>5 DEF Affects
  <1>7. /\ m.op \notin {"detach", "upsert"} \/ repo \notin BelowParent
        /\ m.op \notin {"erase", "eraseOrFail"} \/ repo # "IngestionApiKey"
    <2>1. q.m \in DOMAIN Prisma[repo].methods /\ repo \in Models
      BY <1>5 DEF Fits, Asked, TenancyInv
    <2> QED
      BY <2>1, FakeTables DEF Mirrors, Asked
  <1>8. /\ repo \in BelowParent => \A i \in Ids : rows[i] # NULL => OwnerOf[rows[i].key] = rows[i].org
        /\ repo = "IngestionApiKey" => \A i \in born : rows[i] # NULL
        /\ born \subseteq Ids /\ \A i \in Ids : rows[i] # NULL => i \in born
    BY DEF AgreeInv, TenancyInv
  <1>9. /\ hit \subseteq Ids /\ \A i \in hit : rows[i] # NULL /\ ("id" \in m.by => i = q.id)
        /\ "organizationId" \in m.by => \A i \in hit : rows[i].org = q.org
    BY DEF Hit
  <1>10. /\ IF makes THEN q.id \in Ids \ born ELSE q.id \in hit \cup born \cup {NULL}
         /\ makes /\ repo \in BelowParent => OwnerOf[q.key] = q.org
         /\ m.op = "change" /\ "id" \in m.by => q.id \in born
         /\ NewRow(q).key = q.key /\ NewRow(q).org = q.org
    BY <1>5 DEF Fits, NewRow
  <1>11. makes => NewRow(q) # NULL
    <2>1. makes => NewRow(q) \in Row
      BY <1>5 DEF Fits, Makes, NewRow, Row
    <2> QED
      BY <2>1, RepositoriesAssumption
  <1>12. m.back # {} => /\ m.op = "change" /\ "id" \in m.by /\ ~makes
                        /\ "organizationId" \in m.back => "organizationId" \in m.by
    BY <1>5 DEF WellFormed, Makes, Id, IdOrg
  <1>13. \A i \in hit : \/ rows'[i] = NULL /\ m.op \in {"erase", "eraseOrFail"}
                        \/ rows'[i] # NULL /\ rows'[i].org = rows[i].org
                           /\ (m.op \in {"detach", "upsert"} \/ rows'[i].key = rows[i].key)
                        \/ makes
    BY <1>6, RepositoriesAssumption DEF Follows
  <1>14. calls'[c] # NULL => calls'[c].fake = One(q.id, rows'[q.id])
    <2> SUFFICES ASSUME calls'[c] # NULL PROVE calls'[c].fake = One(q.id, rows'[q.id])
      OBVIOUS
    <2>1. m.op = "change" /\ hit = {q.id}
      BY <1>5, <1>9, <1>12
    <2>2. p = Outcome("change", m.by, Clash(rows, q, Prisma[repo].unique), q, rows)
      BY <2>1 DEF Execute, Asked
    <2>3. p.a = One(q.id, p.t[q.id])
      BY <2>1, <2>2, ChangeAnswers
    <2> QED
      BY <1>2, <1>4, <2>3
  <1> HIDE DEF m, hit, makes, p, f
  <1>15. fake' = rows' /\ last'.answer = last'.fake
    BY <1>2, <1>4
  <1>16. repo \in BelowParent => \A i \in Ids : rows'[i] # NULL => OwnerOf[rows'[i].key] = rows'[i].org
    BY <1>6, <1>7, <1>8, <1>9, <1>10, <1>13
  <1>17. repo = "IngestionApiKey" => \A i \in born' : rows'[i] # NULL
    <2> SUFFICES ASSUME repo = "IngestionApiKey", NEW i \in born' PROVE rows'[i] # NULL
      OBVIOUS
    <2>1. CASE i \in born
      BY <1>6, <1>7, <1>8, <1>10, <1>13, <2>1
    <2>2. CASE i \notin born
      <3>1. i = q.id /\ rows' # rows
        BY <1>4, <2>2
      <3>2. CASE makes
        BY <1>6, <1>11, <3>1, <3>2
      <3>3. CASE ~makes
        BY <1>4, <1>8, <1>9, <1>10, <2>2, <3>1, <3>3
      <3> QED
        BY <3>2, <3>3
    <2> QED
      BY <2>1, <2>2
  <1>18. ASSUME NEW x \in Slots, calls'[x] # NULL, calls'[x].alone
         PROVE  /\ rows'[calls'[x].q.id] # NULL
                /\ "organizationId" \in Asked[calls'[x].q.m].back =>
                      rows'[calls'[x].q.id].org = calls'[x].q.org
                /\ calls'[x].fake = One(calls'[x].q.id, rows'[calls'[x].q.id])
    <2>1. CASE x # c
      <3>1. /\ calls[x] # NULL
            /\ \/ calls'[x] = calls[x] /\ rows'[calls[x].q.id] = rows[calls[x].q.id]
               \/ calls'[x] = [calls[x] EXCEPT !.alone = FALSE]
        BY <1>4, <1>18, <2>1, <1>3 DEF Ask, Disturbed, p, m
      <3>2. calls[x] = [q |-> calls[x].q, fake |-> calls[x].fake, alone |-> calls[x].alone]
        BY <3>1 DEF TenancyInv, Pending
      <3>3. [calls[x] EXCEPT !.alone = FALSE].alone = FALSE
        BY <3>2
      <3>4. calls'[x] = calls[x] /\ rows'[calls[x].q.id] = rows[calls[x].q.id]
        BY <1>18, <3>1, <3>3
      <3> QED
        BY <1>18, <3>1, <3>4 DEF AgreeInv
    <2>2. CASE x = c
      <3>1. /\ calls'[c] = [q |-> q, fake |-> calls'[c].fake, alone |-> TRUE]
            /\ m.back # {} /\ hit # {}
        BY <1>5, <1>18, <2>2
      <3>2. calls'[c].q = q
        BY <3>1
      <3>3. q.id \in hit /\ m.op = "change" /\ ~makes
        BY <1>9, <1>12, <3>1
      <3>4. rows'[q.id] # NULL /\ rows'[q.id].org = rows[q.id].org
        BY <1>13, <3>3
      <3>5. "organizationId" \in m.back => rows'[q.id].org = q.org
        BY <1>9, <1>12, <3>1, <3>3, <3>4
      <3> QED
        BY <1>14, <1>18, <2>2, <3>2, <3>4, <3>5 DEF m
    <2> QED
      BY <2>1, <2>2
  <1> QED
    BY <1>1, <1>15, <1>16, <1>17, <1>18 DEF AgreeInv, Asked

\* The read after an update that nobody disturbed finds the row the fake showed.
LEMMA ReadBackKeepsAgreement ==
  ASSUME ~Strict, TenancyInv, AgreeInv, NEW c \in Slots, ReadBack(c)
  PROVE  AgreeInv'
  <1> DEFINE q == calls[c].q
             back == Asked[q.m].back
             hit == Hit(rows, q, back)
  <1>1. /\ UNCHANGED <<repo, rows, fake, born>>
        /\ calls' = [calls EXCEPT ![c] = NULL]
    BY DEF ReadBack
  <1>2. calls = [x \in Slots |-> calls[x]] /\ calls[c] # NULL /\ Pending(calls[c])
    BY DEF TenancyInv, ReadBack
  <1>3. \A x \in Slots : calls'[x] \in {NULL, calls[x]}
    BY <1>1, <1>2
  <1>4. AssertTenancy(repo, "read", back)
    BY DEF AssertTenancy
  <1>5. /\ last'.answer = IF hit # {} THEN Found(rows, hit) ELSE Error
        /\ last'.fake = calls[c].fake /\ last'.alone = calls[c].alone
    BY <1>4 DEF ReadBack, Note
  <1>6. ASSUME repo \notin Lenient, calls[c].alone PROVE last'.answer = last'.fake
    <2>1. /\ rows[q.id] # NULL /\ calls[c].fake = One(q.id, rows[q.id])
          /\ "organizationId" \in back => rows[q.id].org = q.org
      BY <1>2, <1>6 DEF AgreeInv
    <2>2. repo \in Models /\ born \subseteq Ids /\ q.id \in born /\ q.m \in DOMAIN Asked /\ back # {}
      BY <1>2 DEF TenancyInv, Pending
    <2>3. back = Id \/ back = IdOrg
      <3>1. WellFormed(Asked[q.m])
        BY <2>2, Tables DEF Conforms, Asked
      <3> QED
        BY <2>2, <3>1 DEF WellFormed
    <2>4. hit = {q.id}
      <3> HIDE DEF q, back
      <3> QED
        BY <2>1, <2>2, <2>3 DEF Hit, Id, IdOrg, KeyColumns
    <2> HIDE DEF q, back, hit
    <2> QED
      BY <1>5, <2>1, <2>4, FoundOne
  <1> HIDE DEF q, back, hit
  <1> QED
    BY <1>1, <1>3, <1>5, <1>6 DEF AgreeInv, Asked

\* The invariant is inductive where the guard only logs.
LEMMA AgreeStep ==
  ASSUME ~Strict
  PROVE  TenancyInv /\ AgreeInv /\ [Next]_vars => AgreeInv'
  <1> SUFFICES ASSUME TenancyInv, AgreeInv, [Next]_vars PROVE AgreeInv'
    OBVIOUS
  <1>1. CASE UNCHANGED vars
    BY <1>1 DEF vars, AgreeInv, Asked
  <1>2. CASE Next
    BY <1>2, AskKeepsAgreement, ReadBackKeepsAgreement DEF Next
  <1> QED
    BY <1>1, <1>2

\* FakesAgree: unless the tenancy guard refuses statements, the fakes of
\* repositories/fake have the tables and give the answers of the database, for
\* every sequence of calls by any number of organizations, the two fakes excepted
\* that do not know a unique column of the schema.
THEOREM FakesDoTheSame == ~Strict => (Spec => []FakesAgree)
  <1> SUFFICES ASSUME ~Strict PROVE Spec => []FakesAgree
    OBVIOUS
  <1>1. AgreeInv => FakesAgree
    BY DEF AgreeInv, FakesAgree, Lenient
  <1>2. TenancyInv /\ AgreeInv /\ [Next]_vars => AgreeInv'
    BY AgreeStep
  <1> QED
    BY <1>1, <1>2, TenancyInit, TenancyStep, AgreeInit, PTL DEF Spec
=============================================================================
