------------------------------ MODULE Routes ------------------------------
(***************************************************************************)
(* The HTTP surface of the API: the routes each controller declares, in    *)
(* declaration order, with their guards, and the way a request finds one.  *)
(* NestFactory.create (apps/api/src/main.ts) runs on Express, which tries  *)
(* the routes in the order they were registered and takes the first whose  *)
(* pattern matches; a guard that refuses ends the request there.           *)
(*                                                                         *)
(* A path is the sequence of its segments, with Id standing for a          *)
(* parameter of a pattern and Value for what a request puts in its place.  *)
(***************************************************************************)
EXTENDS Naturals, Sequences

Id == ":"
Value == "6f1c"

Staff == {"Owner", "BidManager", "Presales", "Finance", "DocController", "Reviewer"}

\* Who a route lets in: everybody, a session of one of the roles, or the
\* holder of a machine credential.
Open(m, p, h) == [m |-> m, p |-> p, gate |-> "open", roles |-> {}, audited |-> FALSE, h |-> h]
Session(m, p, rs, h) == [m |-> m, p |-> p, gate |-> "session", roles |-> rs, audited |-> FALSE, h |-> h]
Jwt(m, p, h) == Session(m, p, Staff, h)
Owner(m, p, h) == Session(m, p, {"Owner"}, h)
Token(m, p, t, h) == [m |-> m, p |-> p, gate |-> t, roles |-> {}, audited |-> FALSE, h |-> h]

\* @Audited: the interceptor records the operation when it succeeds.
Audited(r) == [r EXCEPT !.audited = TRUE]

-----------------------------------------------------------------------------
HealthController == << Open("GET", <<"health">>, "health.check") >>

AuthController == <<
    Open("POST", <<"auth", "login">>, "auth.login"),
    Open("POST", <<"auth", "logout">>, "auth.logout"),
    Jwt("GET", <<"auth", "me">>, "auth.me") >>

AuditController == << Owner("GET", <<"audit-events">>, "audit.recent") >>

ClientCompanyController == <<
    Jwt("GET", <<"client-companies">>, "company.list"),
    Jwt("GET", <<"client-companies", Id>>, "company.get"),
    Jwt("POST", <<"client-companies">>, "company.create"),
    Jwt("PATCH", <<"client-companies", Id>>, "company.update"),
    Jwt("DELETE", <<"client-companies", Id>>, "company.remove") >>

TenderController == <<
    Jwt("POST", <<"tenders">>, "tender.intake"),
    Jwt("GET", <<"tenders">>, "tender.list"),
    Jwt("GET", <<"tenders", Id>>, "tender.get"),
    Audited(Jwt("PATCH", <<"tenders", Id, "status">>, "tender.updateStatus")),
    Audited(Jwt("DELETE", <<"tenders", Id>>, "tender.remove")) >>

\* Mutant: the parameter route declared before the literal one.
DocumentVaultControllerIdFirst == <<
    Jwt("GET", <<"documents", Id>>, "vault.get"),
    Jwt("GET", <<"documents", "expiring">>, "vault.expiring") >>

DocumentVaultController == <<
    Jwt("POST", <<"documents">>, "vault.register"),
    Jwt("GET", <<"documents">>, "vault.list"),
    Jwt("GET", <<"documents", "expiring">>, "vault.expiring"),
    Jwt("GET", <<"documents", Id>>, "vault.get"),
    Jwt("GET", <<"documents", Id, "evidence-links">>, "vault.evidenceLinks"),
    Audited(Jwt("PATCH", <<"documents", Id, "state">>, "vault.setState")) >>

DocumentUploadController == <<
    Audited(Jwt("POST", <<"documents", "upload">>, "upload.upload")),
    Jwt("GET", <<"documents", Id, "download">>, "upload.download") >>

FitScoringController == <<
    Jwt("POST", <<"tenders", Id, "fit-score">>, "fit.compute"),
    Jwt("POST", <<"tenders", Id, "fit-score", "override">>, "fit.override") >>

ComplianceController == <<
    Audited(Jwt("POST", <<"tenders", Id, "compliance-matrices">>, "matrix.generate")),
    Jwt("GET", <<"tenders", Id, "compliance-matrices">>, "matrix.list"),
    Jwt("GET", <<"tenders", Id, "compliance-matrices", Id>>, "matrix.getByVersion") >>

ComplianceItemController == <<
    Audited(Jwt("PATCH", <<"compliance-items", Id>>, "item.update")),
    Jwt("GET", <<"compliance-items", Id, "evidence-links">>, "item.list"),
    Audited(Jwt("POST", <<"compliance-items", Id, "evidence-links">>, "item.link")),
    Audited(Jwt("DELETE", <<"compliance-items", Id, "evidence-links", Id>>, "item.unlink")) >>

TenderRequirementController == <<
    Jwt("GET", <<"tenders", Id, "requirements">>, "requirement.list"),
    Audited(Jwt("POST", <<"tenders", Id, "requirements">>, "requirement.createBulk")) >>

ExportController == << Jwt("POST", <<"tenders", Id, "submission-pack">>, "export.build") >>

PdplController == <<
    Session("GET", <<"pdpl", "processing-inventory">>, {"Owner", "DocController"}, "pdpl.inventory"),
    Session("GET", <<"pdpl", "residency">>, {"Owner", "DocController"}, "pdpl.residency") >>

DataSubjectController == <<
    Jwt("POST", <<"data-subject-requests">>, "dsr.create"),
    Jwt("GET", <<"data-subject-requests">>, "dsr.list"),
    Jwt("GET", <<"data-subject-requests", Id>>, "dsr.get"),
    Owner("POST", <<"data-subject-requests", Id, "approve">>, "dsr.approve"),
    Owner("POST", <<"data-subject-requests", Id, "deny">>, "dsr.deny"),
    Owner("POST", <<"data-subject-requests", Id, "execute">>, "dsr.execute") >>

ConsentLedgerController == <<
    Jwt("POST", <<"consent-events">>, "consent.create"),
    Jwt("GET", <<"consent-events">>, "consent.list"),
    Jwt("GET", <<"consent-events", "check">>, "consent.check") >>

TenderAccessController == <<
    Jwt("GET", <<"tenders", Id, "access">>, "access.list"),
    Owner("POST", <<"tenders", Id, "access">>, "access.grant"),
    Owner("DELETE", <<"tenders", Id, "access", Id>>, "access.revoke") >>

RetentionActionController == <<
    Jwt("GET", <<"retention-actions">>, "retention.list"),
    Jwt("GET", <<"retention-actions", Id>>, "retention.get"),
    Audited(Jwt("POST", <<"retention-actions">>, "retention.request")),
    Session("POST", <<"retention-actions", Id, "approve">>, {"Owner", "DocController"}, "retention.approve"),
    Session("POST", <<"retention-actions", Id, "deny">>, {"Owner", "DocController"}, "retention.deny"),
    Audited(Owner("POST", <<"retention-actions", "sweep">>, "retention.sweep")) >>

RetentionScheduledController == <<
    Token("POST", <<"retention-actions", "sweep-scheduled">>, "oidc", "retention.sweepScheduled") >>

DpoContactController == <<
    Jwt("GET", <<"dpo-contact">>, "dpo.get"),
    Audited(Owner("PUT", <<"dpo-contact">>, "dpo.upsert")) >>

DpoTrainingController == <<
    Owner("GET", <<"training-records">>, "training.list"),
    Owner("GET", <<"training-records", "summary">>, "training.summary"),
    Owner("GET", <<"training-records", Id>>, "training.get"),
    Audited(Owner("POST", <<"training-records">>, "training.create")),
    Audited(Owner("PATCH", <<"training-records", Id>>, "training.update")),
    Audited(Owner("DELETE", <<"training-records", Id>>, "training.remove")) >>

AuthorityNotificationController == <<
    Audited(Owner("POST", <<"authority-notifications", "incidents", Id>>, "authority.trigger")) >>

IngestionController == <<
    Audited(Jwt("POST", <<"ingestions">>, "ingestion.enqueue")),
    Jwt("GET", <<"ingestions">>, "ingestion.list"),
    Jwt("GET", <<"ingestions", Id>>, "ingestion.get"),
    Token("GET", <<"ingestions", "next-job">>, "worker", "ingestion.claimNext"),
    Token("POST", <<"ingestions", Id, "complete">>, "worker", "ingestion.complete"),
    Token("POST", <<"ingestions", Id, "fail">>, "worker", "ingestion.fail") >>

WebhookController == <<
    Token("POST", <<"webhooks", "inbound", "email">>, "mail", "webhook.inboundEmail") >>

InboundEmailController == << Open("POST", <<"webhooks", "inbound-email">>, "inboundEmail.receive") >>

UsersController == << Owner("GET", <<"users">>, "users.list") >>

WebhookSubscriptionController == <<
    Owner("GET", <<"webhook-subscriptions">>, "subscription.list"),
    Owner("GET", <<"webhook-subscriptions", Id>>, "subscription.get"),
    Audited(Owner("POST", <<"webhook-subscriptions">>, "subscription.create")),
    Audited(Owner("PATCH", <<"webhook-subscriptions", Id>>, "subscription.update")),
    Audited(Owner("POST", <<"webhook-subscriptions", Id, "rotate-secret">>, "subscription.rotate")),
    Audited(Owner("DELETE", <<"webhook-subscriptions", Id>>, "subscription.remove")) >>

BillingController == <<
    Jwt("GET", <<"plans">>, "billing.plans"),
    Owner("GET", <<"subscription">>, "billing.mySubscription"),
    Owner("GET", <<"usage", "today">>, "billing.todayUsage"),
    Open("POST", <<"webhooks", "stripe">>, "billing.stripeReceive") >>

\* Mutant: the class decorator with the guards forgotten.
SectorClassifierControllerOpen == <<
    Audited(Open("POST", <<"tenders", Id, "sector", "classify">>, "sector.classify")),
    Audited(Open("PATCH", <<"tenders", Id, "sector">>, "sector.override")) >>

SectorClassifierController == <<
    Audited(Owner("POST", <<"tenders", Id, "sector", "classify">>, "sector.classify")),
    Audited(Owner("PATCH", <<"tenders", Id, "sector">>, "sector.override")) >>

IngestionPortalController == <<
    Token("POST", <<"ingestion", "tenders">>, "apiKey", "portal.create") >>

IngestionApiKeyController == <<
    Owner("GET", <<"admin", "ingestion-keys">>, "apiKey.list"),
    Audited(Owner("POST", <<"admin", "ingestion-keys">>, "apiKey.mint")),
    Audited(Owner("DELETE", <<"admin", "ingestion-keys", Id>>, "apiKey.revoke")) >>

IngestionProxyController == <<
    Owner("GET", <<"admin", "ingestion", "runs">>, "proxy.list"),
    Audited(Owner("POST", <<"admin", "ingestion", "runs">>, "proxy.trigger")) >>

\* The modules of AppModule in import order, their controllers in order.
AppModule ==
    HealthController \o AuthController \o AuditController \o ClientCompanyController
    \o TenderController \o DocumentVaultController \o DocumentUploadController
    \o FitScoringController \o ComplianceController \o ComplianceItemController
    \o TenderRequirementController \o ExportController \o PdplController
    \o DataSubjectController \o ConsentLedgerController \o TenderAccessController
    \o RetentionActionController \o RetentionScheduledController \o DpoContactController
    \o DpoTrainingController \o AuthorityNotificationController \o IngestionController
    \o WebhookController \o InboundEmailController \o UsersController
    \o WebhookSubscriptionController \o BillingController \o SectorClassifierController
    \o IngestionPortalController \o IngestionApiKeyController \o IngestionProxyController

-----------------------------------------------------------------------------
Matches(pattern, segments) ==
    /\ Len(pattern) = Len(segments)
    /\ \A i \in 1..Len(pattern) : pattern[i] \in {Id, segments[i]}

\* A request for a route: identifiers in the place of its parameters.
Concrete(r) == [i \in 1..Len(r.p) |-> IF r.p[i] = Id THEN Value ELSE r.p[i]]

Candidates(table, m, segments) ==
    {n \in 1..Len(table) : table[n].m = m /\ Matches(table[n].p, segments)}

\* The route that answers a request: the first that matches.
Dispatch(table, m, segments) ==
    table[CHOOSE n \in Candidates(table, m, segments) :
            \A k \in Candidates(table, m, segments) : n <= k]

\* The route that answers a request made for route r.
Answering(r) == Dispatch(AppModule, r.m, Concrete(r))
=============================================================================
