---------------------------- MODULE Repositories ----------------------------
(***************************************************************************)
(* The repositories at work (apps/api/src/repositories).  The Prisma        *)
(* repository and the in-memory fake of one table are run side by side on   *)
(* the same calls of several organizations.  An update of a Prisma          *)
(* repository is two statements, the write and the read of what was         *)
(* written, with other calls between them; the tenancy guard looks at every *)
(* statement (common/tenancy.ts, prisma.service.ts).                        *)
(***************************************************************************)
EXTENDS PrismaRepositories, FakeRepositories, Naturals, FiniteSets

CONSTANTS
    Orgs,      \* organizations
    Ids,       \* row ids, never used twice
    Keys,      \* values of the other columns that lookups use
    Vals,      \* contents of a row; 0 is a row not revoked, claimed or switched off
    OwnerOf,   \* the organization of the parent a key stands for
    Examined,  \* the repositories the instance is about
    Slots,     \* concurrent calls
    Strict,    \* TENANCY_STRICT_MODE
    NULL

\* A row of a table: its organization, one further column, its contents.
Row == [org : Orgs, key : Keys \cup {NULL}, val : Vals]

ASSUME RepositoriesAssumption ==
    /\ {0, 1} \subseteq Vals
    /\ Examined \subseteq DOMAIN Prisma
    /\ OwnerOf \in [Keys -> Orgs]
    /\ Strict \in BOOLEAN
    /\ NULL \notin Ids \cup Keys \cup Orgs \cup Row

VARIABLES
    repo,   \* the repository looked at
    rows,   \* its table in the database
    fake,   \* the table of the fake
    born,   \* ids given out so far
    calls,  \* updates between their two statements
    last    \* history: the latest statement and its answers

vars == <<repo, rows, fake, born, calls, last>>

Init ==
    /\ repo \in Examined
    /\ rows = [i \in Ids |-> NULL]
    /\ fake = [i \in Ids |-> NULL]
    /\ born = {}
    /\ calls = [c \in Slots |-> NULL]
    /\ last = NULL

-----------------------------------------------------------------------------
(* The tenancy guard. *)

TENANT_SCOPED_MODELS ==
    {"User", "ClientCompany", "Tender", "ClientDocument", "AuditEvent", "ComplianceMatrix",
     "ComplianceItem", "TenderRequirement", "EvidenceLink", "Task", "SubmissionPack",
     "ConsentEvent", "DataSubjectRequest", "TenderAccess", "DpoContact", "IngestionJob",
     "RetentionAction", "LlmUsageLog", "DpoTrainingRecord", "InboundEmail",
     "WebhookSubscription", "WebhookDelivery"}
SAFE_BYPASS_KEYS == {"email", "messageId"}

\* create and upsert are not looked at.
ENFORCED_OPERATIONS ==
    {"read", "change", "touchOrFail", "detach", "erase", "eraseOrFail", "claim"}

InspectTenancy(model, operation, where) ==
    \/ model \notin TENANT_SCOPED_MODELS
    \/ operation \notin ENFORCED_OPERATIONS
    \/ "organizationId" \in where
    \/ where \cap SAFE_BYPASS_KEYS # {}

\* The middleware of PrismaService throws in strict mode, and logs otherwise.
AssertTenancy(model, operation, where) == Strict => InspectTenancy(model, operation, where)

\* claimNext selects with raw SQL and then updates the selected row by its id.
Where(m) == IF m.op = "claim" THEN Id ELSE m.by

-----------------------------------------------------------------------------
(* What a statement does to a table. *)

Hit(t, q, by) ==
    {i \in Ids : /\ t[i] # NULL
                 /\ "id" \in by => i = q.id
                 /\ "organizationId" \in by => t[i].org = q.org
                 /\ "live" \in by => t[i].val = 0
                 /\ by \cap KeyColumns # {} => t[i].key = q.key}

Clash(t, q, unique) ==
    /\ unique # {}
    /\ \E i \in Ids : /\ t[i] # NULL /\ i # q.id
                      /\ t[i].key = q.key
                      /\ "organizationId" \in unique => t[i].org = q.org

Found(t, s) == [error |-> FALSE, rows |-> {[id |-> i, row |-> t[i]] : i \in s}]
Error == [error |-> TRUE, rows |-> {}]

NewRow(q) == [org |-> q.org, key |-> q.key, val |-> q.val]

\* upsert and the counter's bump make the row that they do not find.
Makes(op, hit) == op = "insert" \/ (op \in {"upsert", "bump"} /\ hit = {})

\* The rows a statement writes: claimNext takes one of those it selects.
Put(op, q, hit) == IF Makes(op, hit) THEN {q.id} ELSE IF op = "claim" THEN hit \cap {q.id} ELSE hit

Written(op, q, r, makes) ==
    IF makes THEN NewRow(q)
    ELSE CASE op = "upsert" -> NewRow(q)
           [] op = "change" -> [r EXCEPT !.val = q.val]
           [] op = "claim"  -> [r EXCEPT !.val = 1]
           [] op = "detach" -> [r EXCEPT !.key = NULL]
           [] op = "bump"   -> [r EXCEPT !.val = @ + 1]
           [] OTHER -> NULL

\* The table and the answer after a statement; clash: a unique column refuses it.
Outcome(op, by, clash, q, t) ==
    LET hit == Hit(t, q, by)
        put == Put(op, q, hit)
        after == [i \in Ids |-> IF i \in put THEN Written(op, q, t[i], Makes(op, hit)) ELSE t[i]]
    IN  CASE op = "read" \/ (op \in {"touch", "touchOrFail"} /\ hit # {}) ->
               [t |-> t, a |-> Found(t, hit)]
          [] \/ op \in {"insert", "upsert"} /\ clash
             \/ op \in {"change", "touchOrFail", "eraseOrFail"} /\ hit = {} ->
               [t |-> t, a |-> Error]
          [] op = "erase" \/ (op = "eraseOrFail" /\ hit # {}) -> [t |-> after, a |-> Found(t, hit)]
          [] OTHER -> [t |-> after, a |-> Found(after, put)]

\* A statement of the repository d on a table.
Execute(d, q, t) ==
    LET m == d.methods[q.m] IN Outcome(m.op, m.by, Clash(t, q, d.unique), q, t)

-----------------------------------------------------------------------------
(* Calls.  Services look a parent up in the caller's organization before they *)
(* create a row below it.                                                     *)

BelowParent == {"ComplianceMatrix", "EvidenceLink", "TenderAccess"}
IdLive == {"id", "live"}

\* The arguments of a method n called for organization o with the key k: an id of
\* anybody's row to look for, an id not given out yet for a new row; those that a
\* method does not take are NULL or 0.
Arguments(n, o, k) ==
    LET m == Prisma[repo].methods[n]
        hit == Hit(rows, [org |-> o, key |-> k], m.by \ Id)
        makes == Makes(m.op, hit)
        ids == IF makes THEN Ids \ born
               ELSE IF m.op \in {"upsert", "bump", "claim"} THEN hit
               ELSE IF "id" \in m.by THEN born ELSE {NULL}
        vals == IF m.by \cap {"live", "id"} = IdLive THEN {1}
                ELSE IF m.op \in {"change", "upsert"} THEN Vals ELSE {0}
        takesKey == m.op \in {"insert", "upsert", "bump"} \/ m.by \cap KeyColumns # {}
    IN  IF /\ takesKey <=> k # NULL
           /\ makes /\ repo \in BelowParent => OwnerOf[k] = o
           /\ m.op = "bump" => \A i \in hit : rows[i].val + 1 \in Vals
        THEN [m : {n}, org : {o}, key : {k}, id : ids, val : vals] ELSE {}

Queries ==
    UNION {Arguments(n, o, k)
           : n \in DOMAIN Prisma[repo].methods, o \in Orgs, k \in Keys \cup {NULL}}

Asked == Prisma[repo].methods

\* The other calls whose row the statement changes will not see their own.
Disturbed(c, after) ==
    [x \in Slots |-> IF x # c /\ calls[x] # NULL /\ after[calls[x].q.id] # rows[calls[x].q.id]
                     THEN [calls[x] EXCEPT !.alone = FALSE] ELSE calls[x]]

Note(q, done, wrote, refused, answer, fakeAnswer, alone) ==
    last' = [q |-> q, done |-> done, wrote |-> wrote, refused |-> refused,
             answer |-> answer, fake |-> fakeAnswer, alone |-> alone]

\* The only statement of a call, or the write of an update.
Ask(c, q) ==
    /\ calls[c] = NULL
    /\ LET m == Asked[q.m]
           p == Execute(Prisma[repo], q, rows)
           f == Execute(Fake[repo], q, fake)
           allowed == AssertTenancy(repo, m.op, Where(m))
           after == IF allowed THEN p.t ELSE rows
           answer == IF allowed THEN p.a ELSE Error
           goesOn == allowed /\ m.back # None /\ ~p.a.error
       IN  /\ rows' = after
           /\ fake' = f.t
           /\ born' = IF after # rows /\ q.id # NULL THEN born \cup {q.id} ELSE born
           /\ calls' = [Disturbed(c, after) EXCEPT ![c] =
                           IF goesOn THEN [q |-> q, fake |-> f.a, alone |-> TRUE] ELSE NULL]
           /\ Note(q, ~goesOn, after # rows, ~allowed, answer, f.a, TRUE)
    /\ UNCHANGED repo

\* The read after the write of an update.
ReadBack(c) ==
    /\ calls[c] # NULL
    /\ LET q == calls[c].q
           back == Asked[q.m].back
           hit == Hit(rows, q, back)
           allowed == AssertTenancy(repo, "read", back)
       IN  Note(q, TRUE, TRUE, ~allowed,
                IF allowed /\ hit # {} THEN Found(rows, hit) ELSE Error,
                calls[c].fake, calls[c].alone)
    /\ calls' = [calls EXCEPT ![c] = NULL]
    /\ UNCHANGED <<repo, rows, fake, born>>

Next == \E c \in Slots : ReadBack(c) \/ \E q \in Queries : Ask(c, q)

Spec == Init /\ [][Next]_vars

-----------------------------------------------------------------------------
(* Properties *)

\* The methods whose signature has no organizationId.
Unscoped == {"findByEmail", "findByMessageId", "findByPrefix", "findByStripeSubscriptionId",
             "markUsed", "claimNext"}
Scoped(q) ==
    /\ repo # "Organization" /\ q.m \notin Unscoped
    /\ repo = "WebhookDelivery" => q.m # "update"

\* An organization that calls a method which takes organizationId sees and
\* changes its own rows only, the unscoped read after an update included
\* (every Prisma repository).
TenantIsolation ==
    [][LET l == last' IN
        (last' # last /\ Scoped(l.q)) =>
          /\ \A a \in l.answer.rows : a.row.org = l.q.org
          /\ \A i \in Ids : rows'[i] # rows[i] =>
               \A r \in {rows[i], rows'[i]} \ {NULL} : r.org = l.q.org]_vars

\* The tests of the services say something about the application only if the
\* fakes do what the database does: the tables agree, and so does the answer of
\* every call that no other call disturbed.  Two fakes are known not to refuse
\* what the schema refuses, a second user of an email and a second use of a
\* Stripe subscription.
FakesAgree ==
    repo \notin {"User", "Subscription"} =>
      /\ fake = rows
      /\ (last # NULL /\ last.done /\ last.alone) => last.answer = last.fake

\* "flip TENANCY_STRICT_MODE=true to fail closed": a call that the guard refuses
\* has changed nothing.
FailsClosed == (last # NULL /\ last.refused) => ~last.wrote
=============================================================================
