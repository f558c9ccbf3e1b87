# Munafasah-Desk: a TLA+ verification project

Munafasah-Desk is a desk for tender bidding: a NestJS API over PostgreSQL
(`apps/api`), a Python worker that processes ingested documents
(`workers/docpipeline`), a Next.js front (`apps/web`) and a shared package
(`packages/shared-types`, a placeholder). This project models the parts of the API and the worker
in which several handlers, processes or people work on the same rows, checks
them with TLC on small instances, and proves the most important results for
every instance with TLAPS.

All paths below are relative to the repository's root.

## 1. Inventory

Every HTTP handler of the API is an `async` method: a sequence of awaited
Prisma calls. Except for `IngestionJobPrismaRepository.claimNext` (a
`SELECT ... FOR UPDATE SKIP LOCKED` in a transaction) and two `createMany`
batches (compliance items, tender requirements), nothing runs in a transaction, and no `update` filters on the value the handler
has checked. What is hard in this system follows from that one fact: between
any two awaits other handlers run, and a process may die.

| Component | State | Operations | Interacts with | What makes it correct |
|---|---|---|---|---|
| Data-subject requests (`pdpl/data-subject.*`) | `DataSubjectRequest` rows; the subject's `User`, `AuditEvent`, `ConsentEvent` rows | open, approve, deny, execute (access, erasure, ...) | users, consent ledger, audit, login | separation of duties; nothing erased without an approval; the trail tells the truth; an erasure is effective and can be finished |
| Retention (`pdpl/retention-*`) | `RetentionAction` rows, documents with a clock | request, approve, deny, sweep (owner, cron, cloud scheduler) | document vault, audit | separation of duties; one request in flight per document; every elapsed document is reached |
| Ingestion jobs (`ingestion/*`, `docpipeline/consumer.py`) | `IngestionJob` rows; worker loops | enqueue, claim, complete, fail | routes, worker token, audit | a job has one holder; one verdict; oldest first; every job finishes |
| HTTP front (controllers, guards, interceptor) | session cookie, audit trail | login, logout, every route | all components | a request reaches its own handler; audited operations leave events |
| Consent ledger, reminders | `ConsentEvent` rows (append-only), references seen by the process | record, current state, erasure, WhatsApp nudges | notifications, erasure | latest event decides; a withdrawal stops sends; one send per reference |
| Tender access | `TenderAccess` rows | grant, revoke, ladder | tenders, audit | the trail tells who has access |
| Incidents, authority, DPO | incidents in memory, `DpoContact`, training rows | create, report, resolve, notify, upsert | notifications, audit | the 72-hour clock; evidence for the regulator |
| Inbound email | `InboundEmail` rows | receive, route | data-subject requests, audit, the mail service | one message routed once; an accepted one is stored |
| Ingestion portal, API keys | tenders, requirements, buyers, keys | ingest, mint, verify, revoke | tenders, companies | an accepted payload is whole; one company per buyer; a revoked key opens nothing |
| Webhooks | subscriptions, deliveries | create, update, rotate, remove, publish, attempt, retry | receivers (no caller publishes yet) | attempts are bounded; a status is the truth; every delivery settles |
| Billing | `Subscription` rows, usage counters | Stripe events, bump | Stripe, plans, audit | the row mirrors Stripe; an answered event is on the trail |
| Sector classifier, LLM budget | tender sector, `LlmUsageLog`, counters | classify, override | LLM provider, billing, audit | the budget holds; asking again is free; log and counters agree |
| Repositories, tenancy guard | every table | find, list, create, update, remove; the strict-mode check | all services; the tests' fakes | organizations stay apart; fakes behave like the database |
| Compliance matrix, export | requirements, matrices, items, evidence links | generate, update, link, export | requirements, vault | a version is one generation; links never dangle or cross organizations; a pack hides no gap |
| Document vault | documents, stored objects | register, set state, upload, expire, cascades | storage, retention, compliance | a key has its object; a failed upload leaves no row |
| Fit scoring, worker pipeline | none | pure computations | tenders | bounds, thresholds, coverage |
| Queue, notification, storage, LLM providers | in-memory queue | send, generate, put | adapters | failures reach the caller |

`PROJECT.json` lists every component with its source files and why a part is
not modelled, and the hazards: the lines at which a test would hardly catch a
fault, and the properties that would.

## 2. Modelling conventions

* **An await is an interleaving point.** A handler invocation is a *slot*: a
  record that holds the operation, its caller, the program counter (named after
  the await it is about to make) and the locals it has read. One action per
  await; what the code does between two awaits is part of the action before it.
  All slots interleave.
* **A crash** empties a slot between any two of its awaits and leaves the
  tables as they are. `MaxCrashes`, `MaxDeaths` and the constants named
  `Max...Fails` and `Max...Faults` bound deaths and failing writes or calls.
* **External parties** (Stripe, the mail service, the LLM provider, receivers of
  webhooks, users who edit and delete) are actions of their own that take any
  step the code in `src/` leaves them: deliver late, twice or at once, refuse,
  fail.
* **Guards are the code's checks**, made on the locals read at the earlier
  await and not on the table, since no `update` rechecks them.
* **Data** is abstracted to what the properties tell apart: people, addresses,
  organizations, documents, rows are model values; reasons, notes, payloads and
  snapshots are left out. A table is a function from a set of row ids, a row
  not yet created being `NULL`.
* **Idealisations.** `createdAt` is stamped in the step in which the row becomes
  visible, and one clock serves all API instances. Identifiers in a path are
  never equal to a literal segment of another route. Throttling is left out: it
  refuses a request and changes nothing.

## 3. The modules

### DataSubject

`apps/api/src/pdpl/data-subject.service.ts` with its repositories, and
`auth.service.ts`'s login, which adds audit rows while an erasure removes the
user's id from them. `requests`, `users`, `audit`, `consents` are the tables,
`calls` the slots. `erasedFor` is a history variable: which request
pseudonymised a user row. The handlers read the request, check status and
caller, await up to seven further calls and write.

### Retention

`retention-action.service.ts`, the policy in `retention.service.ts`, the three
triggers of a sweep (an owner's `POST`, the cron of each API instance, the OIDC
cloud scheduler), and documents that elapse or are deleted meanwhile. A
scheduler acts under an id that no `User` row has, so its audit write throws
after the row was created, and the sweep ends.

### JobQueue and IngestionJobs

`JobQueue` is the promise: a job is put once, taken by one worker, finished once.
`IngestionJobs` is the code: enqueue, claim (with row locks and `SKIP LOCKED`),
complete and fail as handlers with separate awaits, and the consumer loop of the
worker with its error paths: a request that fails or times out on the worker's
side may still run in the API. `ImplementsQueue` maps the rows and owners to the
abstract queue; the owner is the row's `claimedBy`, which the claim writes and
nothing clears.

`ClaimRouted` says whether a worker's poll reaches `claimNext` at all. The run
`ingestion_jobs` sets it to `TRUE`, the claim handler as it is meant to be reached;
`ingestion_jobs_unrouted` takes the value from the route table.

### Routes and HttpFront

`Routes` is the table of all routes of the 31 controllers with their guards, in
declaration order, and the router's first-match dispatch. Order matters within a
controller only: no two controllers have overlapping patterns. `HttpFront` is the
front of the API: sessions, the guards, the handler (which may throw) and the
audit interceptor. `IngestionJobs`' MC module composes the two: it asks `Routes`
whether `GET /ingestions/next-job` reaches the claim. A second event that
`enqueue` writes itself besides the interceptor's is left out.

### Evidence and Submission

`Evidence` holds the pure operators of `compliance.service.ts`: which documents
count for a requirement, the status and risk of an item, the export gate and the
open tasks. `Submission` extends it with the tables and the handlers: the vault
(`register`, `setState`, `upload` with its put, attach and best-effort cleanup),
`createBulk` of requirements, `generate` (vault, tender, persisted requirements,
latest version, matrix row, items: six awaits), `updateItem`, `link`, `unlink`,
the export, and the deletions of tenders and companies that cascade under all of
them. `made` (per version) and `lacking`, `bare` (per export) are history
variables: what the generation was asked for, and what the vault lacked when the
export read it. A client's request lists, edits and state changes are constants
(`Asks`, `Overrides`, `Edits`, `StateChanges`). A requirement posted twice counts
once; `expiring` is not told apart from `active`, as in the code.

### Webhooks

`webhook-subscription.service.ts` and `webhook-dispatcher.service.ts`. Owners create, change,
rotate and remove subscriptions while `publish` lists them, inserts one delivery
for each and sends it, and `retry` sends a row it has read earlier. The retry
timers are part of the slot and die with it. A url and a secret are one version
number: a delivery goes out under the version its call has read. `sends`, `acked`,
`retried` and `upset` are history: what the receiver saw and which rows somebody
or a failed write interfered with. The validation of urls and event types is left
out.

### RepositoryMethods, PrismaRepositories, FakeRepositories, Repositories

`RepositoryMethods` says what a method is: the statement it makes (one row, many
rows, create, write, delete), the columns of its where clause, and whether a read
follows the write. `PrismaRepositories` and `FakeRepositories` are the 24
repositories and their in-memory fakes as tables of such methods, translated file
by file. `Repositories` gives the methods their meaning and runs a repository and
its fake side by side under calls of two organizations; an update is two
statements with other calls between them, and the tenancy guard of
`common/tenancy.ts` looks at each. A row has an owner, one further key and a
value; optional filters, order, limits and cascades are left out here, and so are
the rows' other columns.

### Sector, Billing, InboundEmail, IngestionPortal, TenderAccess, Consent, Incidents

Seven services in the same style, one module each.

* `Sector`: `classify` (cache test, budget check, provider call, usage row, two
  counters, tender update, audit) and `override` on one tender, around midnight.
  `paid`, `uncounted` and `plain` are history: what the provider was paid, and
  what of it the usage log does not have.
* `Billing`: Stripe changes subscriptions and delivers an event for each change at
  least once and in any order; `receive` writes the mirror row and the audit
  record. `disorder` and `overlap` are history and say when the mirror cannot be
  right.
* `InboundEmail`: `receive` looks up the Message-Id, opens a data-subject request,
  inserts the email row and audits, for four kinds of recipient.
* `IngestionPortal`: the guard reads a key and compares hashes; `ingest` lists the
  companies, creates the buyer, the tender, the sector and the requirements.
* `TenderAccess`: grants and revocations of two owners at once; the ledger counts
  the events written.
* `Consent`: events with a clock of milliseconds, sends that read the ledger, and
  the set of references a process has seen, which a restart clears.
* `Incidents`: incidents in the memory of a process, the contact row, and
  `notifyForIncident` with its intent, email and outcome records.

They share no state with one another, so interleaving them would show nothing.
`MCServices` instantiates all seven and a variable `focus` chooses at the start
which one runs; every invariant is checked in every state.

## 4. Runs

Passing runs:

| Run | Instance | Shows |
|---|---|---|
| `data_subject` | two owners of one organization, one request, two concurrent calls, one death | separation of duties, erasure only under an approval, truthful trail, effective erasure, in every interleaving |
| `data_subject_retry` | owners of two organizations, one call at a time, two deaths, fairness | the subject is looked up by address across organizations, yet a user row is pseudonymised only by its own organization; an execution that is retried ends |
| `retention` | one document, two rows, two deciders and a scheduler, two calls, one death | separation of duties, complete trail, only elapsed documents are swept |
| `retention_daily` | two documents, four rows, one decider and the daily scheduler, one call at a time, fairness | without overlap no document has two requests in flight; a scheduler's sweep that ends at each first new row still reaches every document, as long as nobody denies |
| `ingestion_jobs` | two workers, two jobs, two handler slots, a kind that is polled and one that is not, one failed request, one death, fairness | exclusive claims, a fault costs one job, oldest first, refinement of `JobQueue`; without a fault jobs of polled kinds finish |
| `http_front` | one browser, two users, four machine callers, every route but one | whoever satisfies the guards reaches the route's handler; audited operations leave an event |
| `submission` | two calls, one fault; a document of the tender's organization and one of another with one requirement and one version, or an empty vault with two of each | uploads settle; links never dangle or cross organizations; a pack hides no gap; a version is the complete work of one generation |
| `webhooks` | two subscriptions, one of which changes, two deliveries, two attempts, two calls, one fault, fairness | statuses tell the truth about the receiver; sends are bounded; every delivery settles |
| `repositories` | each of the 24 repositories in turn, two organizations, two rows, two calls | organizations stay apart, also in the unscoped read after an update; fakes answer as the database does |
| `services` | two handlers side by side in each of seven services, one fault (or restart) each | what overlapping calls can overrun is bounded: budget, provider calls, requests per message, reminders after a withdrawal; what was answered is stored: tenders, emails; what the trail says of access and notifications is true; the Stripe mirror, the usage log and the counters reconcile; what the authority was notified of stays overdue |

Violation runs, each a disagreement between the code and what the repository
says of it (the quotations are in `PROJECT.json`, `findings`):

| Run | What TLC shows |
|---|---|
| `ingestion_jobs_unrouted` | `GET :id` shadows `GET next-job`: no worker gets a job |
| `repositories_strict` | with `TENANCY_STRICT_MODE=true` the guard refuses the read `findUniqueOrThrow({ where: { id } })` that follows the `updateMany` of most updates: the call fails and the row has changed |

### Observations

Met while modelling, and either excluded from a property by its statement or
left outside the properties. None of them is a run.

* `deny` has no check of separation of duties, of a data-subject request or a
  retention action: the requestor may deny the own request
  (`docs/audit-findings.md:428` lists it for both decisions).
* An owner who executes the erasure of the own account leaves an audit row with
  the erased id: the event of the execution is written after the rows were
  pseudonymised.
* A request whose subject has an account in another organization can be approved,
  and its execution then throws every time. `ExecutionFinishes` excludes it.
* Overlapping sweeps create two requests for one document, as does an `approve`
  that lands after a `deny` and a new sweep. `NoDuplicateSweep` is checked
  without overlap.
* A denied destruction is not in flight, so the next sweep asks for the document
  again; and a scheduler's sweep ends at its first new row, because no `User` row
  has its id and the audit write throws.
* `logout` has no guard, hence no principal, hence no audit event.
* `generateAndPersist` says "persist it + its items atomically"
  (`compliance-matrix.service.ts:42`), but a death between the two writes leaves
  a version without items, and it is the latest.
* The export computes a matrix from the requirements in its own body and never
  reads the persisted ones: a body without requirements passes the gate whatever
  the tender's critical requirements are (`docs/prd.md:299`: missing critical
  evidence "blocks readiness export").
* An archived document counts for nothing before it expires and as partial
  evidence after it (`compliance.service.ts:90-97`), and partial evidence does not
  block an export. `docs/prd.md:301` says that expiry "downgrades" a match.
* Deleting a company or a tender leaves its stored objects in the object store.
* `deny` passes its check, `approve` and `execute` follow, the denial lands, and
  `execute` completes the denied request (`data-subject.service.ts:232`).
* One 5xx while a worker has a job in hand ends the loop's work on it
  (`consumer.py:123-124`); the job stays `processing` for ever. `JobsFinish` is
  stated for behaviours without a fault.
* Webhooks: the retry hook works on a copy of the row and can mark a delivered
  row failed; a subscription removed during `publish` throws out of its loop, and
  the later subscriptions get nothing (`webhook-dispatcher.service.ts:24-28`); a
  process that dies leaves rows pending, and nothing resumes them. Neither
  `publish` nor `retry` has a caller in the application.
* Repositories: the fakes of users and subscriptions do not enforce the unique
  email and the unique Stripe subscription (`FakesAgree` says so), several fakes
  hand out the stored object itself, and none cascades. `TENANT_SCOPED_MODELS`
  omits `Subscription`, `UsageCounter` and `IngestionApiKey`, which have an
  `organizationId`. Strict mode also refuses the update of a webhook delivery and
  the one inside `claimNext`.
* Sector: a classification in flight writes over a human override. Paid answers
  that cannot be used, and usage rows whose write is swallowed, are outside the
  budget; `SpendBounded` counts them apart. Nothing calls `recordBlocked` or the
  residency gate.
* Billing: a late event revives a canceled subscription, and the deletion of an
  older subscription puts an organization with a newer one on the free plan;
  `MirrorsStripe` excludes both. No code enforces the quotas of the plans
  (`plan-catalog.ts:6-7` names a `bumpAndCheck` that does not exist). `main.ts`
  installs no raw-body parser, so that signatures are compared with a body
  serialised again.
* Inbound email: two deliveries at once open two requests, and so does a fault
  between request and row, against "Same Message-Id replays no-op"
  (`inbound-email.service.ts:106`); `RequestsBounded` says how many. Mail to an
  unknown organization is never stored and is delivered again and again. When the
  audit of the new request fails, the email is stored as unrouted although the
  request exists.
* Portal: two ingests of a new buyer create it twice, a request that has read a key
  before its revocation is admitted after it, a payload posted again becomes another tender, and a failed ingest
  leaves an unfinished one.
* Tender access: a second grant for the same user throws, nothing outside the
  tests asks for a role (`require`, `hasAtLeast`), erased users keep their rows,
  and removing a tender takes its rows without an event.
* Consent: a grant and a withdrawal in one millisecond tie, and either may be the
  current state. Nothing outside the tests sends reminders.
* Incidents: nothing outside the tests creates one, so the notification route
  always answers 404. `requiresAuthorityNotification` becomes true after 72 hours,
  where `incident.service.ts:63` says "within 72h"; a second report moves
  `reportedAt`; numbering starts at `inc-1` again after a restart. The record of a
  dispatch is inside the `try` of the send, so that an email that left can be
  recorded as failed. The SMTP driver drops `cc`. An upsert of the contact without
  `retentionPolicyDays` resets it to 2555.

### Bounds

Two slots are what a race between two calls needs. Two
people are needed for separation of duties and two organizations for tenancy. One
request and one document suffice where rows do not interact; where they do (order
of jobs, sweeps over lists, requirements of one version) there are two. Four rows
in `retention_daily` allow each document a denied and a renewed request
(`MaxPerDoc`). One fault is enough for what a single death leaves behind; where
deaths accumulate (`data_subject_retry`) there are two.

`submission` explores, under the constraint `Bound`, the union of two instances:
one requirement and one version with everything the vault, links and exports can
do, and two requirements and two versions, with racing generations, without
documents. What the first half says of links and packs is about any one version;
what the second says of versions does not depend on the vault.

`webhooks` has two attempts: the first, which is followed by another, and the
last. One change of a subscription lets a delivery go out under an old version,
and one use of the retry hook is enough to meet a running `publish`.

In `services` a budget of two requests and a cost of one unit lets either cap
decide, with a third handler begun after it; three events and a replay are a
subscription created, changed and deleted, or two that overlap; four deliveries of
a message are two at once, a failure and a redelivery; three company ids are two
buyers created at once and a third that must not be; two tenders one posted twice;
four calls on two users grant, revoke and grant again; three references and a
restart are what reminders can be about; the limit of 72 hours is one unit of a
clock that reaches two, so that an incident is before, at and after it.

Slots, people, rows, jobs
and workers that the specification does not tell apart are symmetric, in safety
runs only. The proofs below are independent of all bounds.

Deadlock is not checked in `http_front`, `webhooks` and `services`: the numbers of
requests, deliveries and calls are bounded there and a behaviour ends.

### Fairness

* A handler that runs takes its next await (weak fairness of each slot's step):
  Node's event loop and the database answer; a crash is the exception.
* `ExecutionFinishes` assumes that an owner asks again after a failure: the
  system itself retries nothing.
* `ElapsedIsRequested` assumes that the daily scheduler is able to start again and
  again (strong fairness of its sweep).
* `JobsFinish` assumes that worker loops go on polling and that the platform
  restarts a dead worker. No fairness of faults or of new jobs is assumed.
* `DeliveriesSettle` needs only that a running dispatcher call goes on: the
  response or its timeout, the timer of the next attempt and the database answer.

## 5. Proofs

Eight modules, each of which extends the module it is about, hold the theorems.
They are about every instance: any sets of people, rows, slots and messages and
any bounds that satisfy the named `ASSUME` of the module that declares them. Those
say that bounds are naturals, that `NULL` (or `"none"`) is nobody's name, and what
the code itself fixes:

* `ConstantsAssumption` (DataSubject): a user's address is unique, as the schema
  says. `ConstantsAssumption` (Retention): there are rows for `MaxPerDoc` requests
  of each document. `ConstantsAssumption` (IngestionJobs): the poll list is a
  non-empty sequence of kinds.
* `ServicesAssumption`, `BoundsAssumption` (MCServices): the caps of the LLM budget
  are positive, the catalogue's prices are prices, Stripe has a status to report,
  and a service runs finitely many handlers at a time.
* `RepositoriesAssumption`, `FrontAssumption`: the repositories examined are among
  the 24, the handlers asked for are in the route table.

Each assumption is evaluated by TLC in the runs. Four theorems have a hypothesis
besides: `LoneSweepsOnce` is about one call at a time (`OneCall`; overlapping
sweeps do ask twice), `FakesDoTheSame` about databases outside strict mode
(`~Strict`; the guard refuses statements that no fake knows of), `RoutesAreReached`
about requests for the other 91 routes than the one of `claimNext` (whose handler is
never reached, as `ClaimNextIsShadowed` shows), and `ShadowedQueueStarves` about the
queue behind that route (`~ClaimRouted`, which is how the controller is declared).

An argument is the same everywhere. The property is not inductive, because a
handler acts on what it read some awaits ago; the inductive invariant says, for
every place in a handler, what that reading still guarantees. Preservation has one
step or lemma for each action, and the theorem is the last step of `Spec => []Inv`.

**DataSubjectProofs**: `TypeOK`, `ErasureAuthorised`, `CompletionApproved`,
`AuditTruthful`, `ErasureEffective`. The invariant has `CallRow` (which rows a call
past its guard may rely on: a row never disappears, its kind, subject, organization
and requestor never change, and once approved by another person it keeps an
approver other than the requestor, whatever is written later), `CallSubject` (what
the looked-up subject still is) and `RowInv` (what the tables owe to each other).

**RetentionProofs**: `TypeOK`, `ApprovedByAnother`, `TrailComplete`,
`SweepOnlyElapsed`, and `NoDuplicateSweep` under `OneCall`. `CallRow` says that rows
never go away and never change hands, so an approver past the guard is still not
the requester; `CallSweep`, that documents on a list read long ago are still
elapsed; `Trail`, that an event is written or the call that will write it is there.
`CallFresh` adds what only a lone call knows: the row it decides is still pending,
the document it asks for still not asked for.

**IngestionJobsProofs**: `TypeOK`, `ExclusiveClaim`, the refinement
`Spec => Queue!QSpec`, `NoOvertaking`, `OneJobPerFault`. `ExclusiveClaim` needs to
know that a handler that waits for its update holds the lock (`LocksHeld`), that a
row that is no longer pending has an owner (`OwnedOnceClaimed`), and that slots and
workers in mid-operation hold the job they talk about (`SlotsFilled`,
`WorkersFilled`). `OldestFirst` is `NoOvertaking` from the `SELECT` on: a job is
locked only when the older ones of its kind are. `FaultsPay` counts, besides the
jobs that are lost, the claims whose worker is gone (`Orphans`): the fault was
counted when the worker went, the job is lost only later. `ShadowedQueueStarves` is
the safety side of the run `ingestion_jobs_unrouted`, for any number of jobs and
workers: handlers only audit and refuse (`OnlyRefusals`), so no job is ever taken.

**SubmissionProofs**: `TypeOK`, `LinksHold`, `OneGenerationPerVersion`,
`UploadsSettle`, `PackHonest`. `WriterInv`: the call that created a version is the
only one that will write its items, and the version has none before, or its tender
has gone for good. `CallInv` carries the organization check of `link`, the stored
object of an upload and the gate of an export over the awaits that follow. The
pure part (`buildItem`, the derived tasks, `exportGate`) has lemmas of its own.

**WebhooksProofs**: `TypeOK`, `SendsBounded`, `StatusHonest`. `BoundInv` weighs what
was sent against what each call, and each two calls, may still send, and shows that
there is no third: a retry may run beside the `publish` that made the row, and the
model uses the hook once per row. `SoleInv`: a delivery nobody retried has
one call, whose local copy agrees with the row.

**RepositoriesProofs**: the action property `TenantIsolation`, and `FakesAgree`. The
24 tables of statements are checked one by one (`Conforms`, `Mirrors`), what a
statement can change is proved once for each operation (`Affects`), and the
invariant `TenancyInv` says of an update between its two statements that its row,
while it is there, is the caller's: ids are not given out twice and no statement
moves a row between organizations. `AgreeInv` adds that the fake's table is the
database's and that an update nobody disturbed will read what the fake answered.

**HttpFrontProofs**: `AuditedOperationsLeaveEvents`, `Reached`, and two theorems that
no run states, `ClaimNextIsShadowed` and `HandlersAreGuarded`. Controller by
controller, every route with `@Audited` has a session guard (`Guarded`), the first
match of a request is a route of the table, and so a running audited operation has a
principal (`FrontInv`).

For `Reached` the 92 routes would make some 4000 pairs. Instead each route is shown
to stand where `Directory` has it (`Filed`): the first segment, the method, the number
of segments and the last segment determine the handler and the guards. A route that
matches a request made for another agrees with it in the first three, since no first
segment is a parameter; they can differ in the last one only where some route ends in
a parameter (`Wild`) and the other in a literal, which is so for `expiring`, `summary`
and `next-job` (`Overlaid`). There the order decides: `Before` says which of the two
comes first, holds in each controller and is kept by concatenation, so it holds in
`AppModule` (`AppModuleInOrder`). Hence `WhoAnswers`: the route that answers has the
handler and the guards of the one asked for, except that `ingestion.get` answers for
`claimNext`. The three theorems follow from it and from what a step can do to a
request (`CallsStep`): entitled callers get in, `claimNext` runs for nobody, and
whoever is in a handler has passed the guards declared on that handler.

**ServiceProofs**: the eleven properties of the seven services. What they have in
common is a balance: an amount that must stay small is bounded together with the
number of handlers that stand where they may still add to it.

| Property | Balance in the invariant |
|---|---|
| `WithdrawalHeeded` | reminders sent since the withdrawal and those under way fit the slots (`ConsentInv`) |
| `AccessReconciles` | trail, handlers between row and event, and row differ by lost events only (`Excess`) |
| `AuthorityEvidence` | an intent pays for an email sent or about to be, an email for its record (`EvidenceOf`) |
| `NotifiedStaysOverdue` | times do not run ahead of the clock, and what is being notified is overdue (`OverdueInv`) |
| `RequestsBounded`, `KeptIsStored` | until the message is stored every request is carried by a handler or paid for by a fault; afterwards nobody begins (`Charged`, `Fits`, `Settled`) |
| `AcceptedIsWhole` | at each stage the tender has what the stages before it stored, or is gone (`InStage`) |
| `MirrorsStripe` | the last event tells how things stand, the row mirrors the newest event, nothing is answered before it is mirrored (`StripeInv`, `RowInv`, `AnswerInv`) |
| `PlainCallsBounded` | while calls reach the provider each is about to store its answer; once one is stored only those already there follow (`PlainInv`) |
| `SpendBounded` | what was spent on a day is in the log since that day or about to be recorded, and those about to ask fit beside it under the cap (`DayInv`) |
| `UsageReconciles` | log, counters and the answers between the two differ by faults only (`Gap`) |

The last two add up rows over days. `SumFunctionOnSet` recurs over a set in an
unspecified order, and the induction theorems of the library cannot be used here;
the lemmas from `LeastNatural` to `SumGrows` prove what is needed (the sums exist,
the order does not matter, one summand moves the sum by its difference, more
summands make no less) by a least counterexample, which the well-foundedness of the
naturals gives without an operator parameter. `LibrarySum` then identifies the sum
of the model with it.

Only model-checked are the liveness properties `ExecutionFinishes`,
`ElapsedIsRequested`, `JobsFinish` and `DeliveriesSettle`: fairness is out of the
prover's reach.

The two violation runs are counterexamples and have nothing to prove. The `TypeOK`
of the service modules is no property of a run: it documents the shapes of tables
and handlers. The proofs need less of it (unbounded numbers), restated as
`AccessTypes`, `MailTypes`, `SectorTypes` and so on.

## 6. Plan

Done: the models of sections 3 and 4, and the proofs of all safety properties of
the passing runs. Liveness, and what recursive definitions compute, stay with TLC.

## 7. Not modelled

* **Fit scoring; residency gate, processing inventory, sensitivity classes**: pure
  functions of their arguments without state. A model would restate their
  arithmetic or their tables, and nothing interleaves with them.
* **Document pipeline of the worker** (parsing, chunking, dates, Etimad notices,
  review gate): text processing of one document at a time. The loop around it is in
  `IngestionJobs`.
* **DPO training register**: creates, updates and deletes of single rows, and a
  status derived from the clock at each read.
* **Queue providers**: nothing enqueues or processes through them.
* **Object storage, ingestion proxy, drivers of notifications and LLMs**: adapters
  to other systems. Their outcomes are the choices of the actions that await them.
* **Health, logging, exception filter, configuration, infrastructure**: no state.
* **Web application**: pages that read and post one request at a time; presentation.
* **Shared types**: a placeholder.
* `RetentionService`'s destroy methods in memory have no caller; nothing in the code
  carries out an approved retention action.
