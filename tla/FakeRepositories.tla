------------------------- MODULE FakeRepositories --------------------------
(***************************************************************************)
(* repositories/fake: the in-memory repositories the unit tests are run     *)
(* with.  A call is one step; an update answers with the row it wrote;      *)
(* unique is what the fake itself checks.                                   *)
(***************************************************************************)
EXTENDS RepositoryMethods

FakeOrganization == Repository(None,
    [findAll |-> Read(None), findById |-> Read(Id), create |-> Insert,
     update |-> Change(Id, None), delete |-> EraseOrFail(Id)])
FakeUser == Repository(None,
    [findAll |-> Read(Org), findById |-> Read(IdOrg), findByEmail |-> Read({"email"}),
     create |-> Insert, update |-> Change(IdOrg, None), anonymise |-> Change(IdOrg, None),
     delete |-> Erase(IdOrg)])
FakeClientCompany == Repository(None,
    [findAll |-> Read(Org), findById |-> Read(IdOrg), create |-> Insert,
     update |-> Change(IdOrg, None), delete |-> Erase(IdOrg)])
FakeTender == Repository(None,
    [findAll |-> Read(Org), findById |-> Read(IdOrg), create |-> Insert,
     update |-> Change(IdOrg, None), delete |-> Erase(IdOrg)])
FakeClientDocument == Repository(None,
    [findAll |-> Read(Org), findById |-> Read(IdOrg), create |-> Insert,
     update |-> Change(IdOrg, None), delete |-> Erase(IdOrg)])
FakeAuditEvent == Repository(None,
    [create |-> Insert, findForUser |-> Read(KeyOrg), findRecent |-> Read(Org),
     anonymiseUser |-> Detach(KeyOrg)])
FakeComplianceMatrix == Repository(KeyOrg,
    [findAllForTender |-> Read(KeyOrg), findById |-> Read(IdOrg), findByVersion |-> Read(KeyOrg),
     latestForTender |-> Read(KeyOrg), create |-> Insert, update |-> Change(IdOrg, None),
     delete |-> Erase(IdOrg)])
FakeComplianceItem == Repository(None,
    [findAllForMatrix |-> Read(KeyOrg), findById |-> Read(IdOrg), create |-> Insert,
     createMany |-> Insert, update |-> Change(IdOrg, None), delete |-> Erase(IdOrg)])
FakeTenderRequirement == Repository(None,
    [findAllForTender |-> Read(KeyOrg), findById |-> Read(IdOrg), create |-> Insert,
     createMany |-> Insert, update |-> Change(IdOrg, None), delete |-> Erase(IdOrg)])
\* Mutant: a second link of the pair is not refused.
FakeEvidenceLinkTwice == Repository(None,
    [findAllForItem |-> Read(KeyOrg), findAllForDocument |-> Read(KeyOrg),
     findById |-> Read(IdOrg), create |-> Insert, update |-> Change(IdOrg, None),
     delete |-> Erase(IdOrg), unlink |-> Erase(KeyOrg)])
FakeEvidenceLink == Repository({"key"},
    [findAllForItem |-> Read(KeyOrg), findAllForDocument |-> Read(KeyOrg),
     findById |-> Read(IdOrg), create |-> Insert, update |-> Change(IdOrg, None),
     delete |-> Erase(IdOrg), unlink |-> Erase(KeyOrg)])
FakeConsentEvent == Repository(None,
    [create |-> Insert, findAllForSubject |-> Read(KeyOrg), findById |-> Read(IdOrg),
     findCurrent |-> Read(KeyOrg), anonymiseSubject |-> Detach(KeyOrg)])
FakeDataSubjectRequest == Repository(None,
    [create |-> Insert, findById |-> Read(IdOrg), findAll |-> Read(Org),
     findForSubject |-> Read(KeyOrg), update |-> Change(IdOrg, None)])
FakeTenderAccess == Repository(KeyOrg,
    [create |-> Insert, findById |-> Read(IdOrg), findAllForTender |-> Read(KeyOrg),
     findAllForUser |-> Read(KeyOrg), findByUserAndTender |-> Read(KeyOrg),
     update |-> Change(IdOrg, None), delete |-> Erase(IdOrg), revoke |-> Erase(KeyOrg)])
FakeRetentionAction == Repository(None,
    [create |-> Insert, findById |-> Read(IdOrg), findAll |-> Read(Org),
     findForDocument |-> Read(KeyOrg), update |-> Change(IdOrg, None)])
FakeIngestionJob == Repository(None,
    [create |-> Insert, findById |-> Read(IdOrg), findAll |-> Read(Org),
     claimNext |-> Claim, update |-> Change(IdOrg, None)])
FakeDpoContact == Repository(None,
    [upsert |-> Upsert(Org), findByOrg |-> Read(Org)])
FakeLlmUsageLog == Repository(None,
    [create |-> Insert, dailyTotals |-> Read(LiveOrg)])
FakeDpoTrainingRecord == Repository(None,
    [create |-> Insert, findById |-> Read(IdOrg), findAll |-> Read(Org),
     findExpiringBefore |-> Read(KeyOrg), update |-> Change(IdOrg, None),
     delete |-> Erase(IdOrg)])
FakeInboundEmail == Repository({"key"},
    [findByMessageId |-> Read({"messageId"}), create |-> Insert, findRecent |-> Read(Org)])
FakeWebhookSubscription == Repository(None,
    [create |-> Insert, findById |-> Read(IdOrg), findAll |-> Read(Org),
     findActiveForEvent |-> Read(LiveOrg), update |-> Change(IdOrg, None),
     delete |-> Erase(IdOrg)])
FakeWebhookDelivery == Repository(None,
    [create |-> Insert, findById |-> Read(IdOrg), findRecent |-> Read(Org),
     update |-> Change(Id, None)])
FakeSubscription == Repository(None,
    [findByOrg |-> Read(Org), findByStripeSubscriptionId |-> Read({"stripeSubscriptionId"}),
     upsert |-> Upsert(Org)])
FakeUsageCounter == Repository(None,
    [bump |-> Bump(KeyOrg), findDay |-> Read(KeyOrg), sumRange |-> Read(Org)])
FakeIngestionApiKey == Repository({"key"},
    [create |-> Insert, findByPrefix |-> Read({"keyPrefix"}), findAllByOrg |-> Read(Org),
     markUsed |-> Touch(Id), revoke |-> Change(IdOrg \cup {"live"}, None)])

Fake ==
    [Organization |-> FakeOrganization, User |-> FakeUser,
     ClientCompany |-> FakeClientCompany, Tender |-> FakeTender,
     ClientDocument |-> FakeClientDocument, AuditEvent |-> FakeAuditEvent,
     ComplianceMatrix |-> FakeComplianceMatrix, ComplianceItem |-> FakeComplianceItem,
     TenderRequirement |-> FakeTenderRequirement, EvidenceLink |-> FakeEvidenceLink,
     ConsentEvent |-> FakeConsentEvent, DataSubjectRequest |-> FakeDataSubjectRequest,
     TenderAccess |-> FakeTenderAccess, RetentionAction |-> FakeRetentionAction,
     IngestionJob |-> FakeIngestionJob, DpoContact |-> FakeDpoContact,
     LlmUsageLog |-> FakeLlmUsageLog, DpoTrainingRecord |-> FakeDpoTrainingRecord,
     InboundEmail |-> FakeInboundEmail, WebhookSubscription |-> FakeWebhookSubscription,
     WebhookDelivery |-> FakeWebhookDelivery, Subscription |-> FakeSubscription,
     UsageCounter |-> FakeUsageCounter, IngestionApiKey |-> FakeIngestionApiKey]
=============================================================================
