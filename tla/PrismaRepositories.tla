------------------------ MODULE PrismaRepositories -------------------------
(***************************************************************************)
(* repositories/prisma: the statements of every method and their where      *)
(* clauses.  Filters by status, date or limit, and the order of the rows,   *)
(* are left out; unique is what prisma/schema.prisma declares.              *)
(***************************************************************************)
EXTENDS RepositoryMethods

PrismaOrganization == Repository(None,
    [findAll |-> Read(None), findById |-> Read(Id), create |-> Insert,
     update |-> Change(Id, Id), delete |-> EraseOrFail(Id)])
PrismaUser == Repository({"key"},
    [findAll |-> Read(Org), findById |-> Read(IdOrg), findByEmail |-> Read({"email"}),
     create |-> Insert, update |-> Change(IdOrg, Id), anonymise |-> Change(IdOrg, Id),
     delete |-> Erase(IdOrg)])
PrismaClientCompany == Repository(None,
    [findAll |-> Read(Org), findById |-> Read(IdOrg), create |-> Insert,
     update |-> Change(IdOrg, Id), delete |-> Erase(IdOrg)])
PrismaTender == Repository(None,
    [findAll |-> Read(Org), findById |-> Read(IdOrg), create |-> Insert,
     update |-> Change(IdOrg, Id), delete |-> Erase(IdOrg)])
PrismaClientDocument == Repository(None,
    [findAll |-> Read(Org), findById |-> Read(IdOrg), create |-> Insert,
     update |-> Change(IdOrg, Id), delete |-> Erase(IdOrg)])
PrismaAuditEvent == Repository(None,
    [create |-> Insert, findForUser |-> Read(KeyOrg), findRecent |-> Read(Org),
     anonymiseUser |-> Detach(KeyOrg)])
PrismaComplianceMatrix == Repository({"key"},
    [findAllForTender |-> Read(KeyOrg), findById |-> Read(IdOrg), findByVersion |-> Read(KeyOrg),
     latestForTender |-> Read(KeyOrg), create |-> Insert, update |-> Change(IdOrg, Id),
     delete |-> Erase(IdOrg)])
PrismaComplianceItem == Repository(None,
    [findAllForMatrix |-> Read(KeyOrg), findById |-> Read(IdOrg), create |-> Insert,
     createMany |-> Insert, update |-> Change(IdOrg, Id), delete |-> Erase(IdOrg)])
PrismaTenderRequirement == Repository(None,
    [findAllForTender |-> Read(KeyOrg), findById |-> Read(IdOrg), create |-> Insert,
     createMany |-> Insert, update |-> Change(IdOrg, Id), delete |-> Erase(IdOrg)])
PrismaEvidenceLink == Repository({"key"},
    [findAllForItem |-> Read(KeyOrg), findAllForDocument |-> Read(KeyOrg),
     findById |-> Read(IdOrg), create |-> Insert, update |-> Change(IdOrg, Id),
     delete |-> Erase(IdOrg), unlink |-> Erase(KeyOrg)])
PrismaConsentEvent == Repository(None,
    [create |-> Insert, findAllForSubject |-> Read(KeyOrg), findById |-> Read(IdOrg),
     findCurrent |-> Read(KeyOrg), anonymiseSubject |-> Detach(KeyOrg)])
PrismaDataSubjectRequest == Repository(None,
    [create |-> Insert, findById |-> Read(IdOrg), findAll |-> Read(Org),
     findForSubject |-> Read(KeyOrg), update |-> Change(IdOrg, Id)])
PrismaTenderAccess == Repository({"key"},
    [create |-> Insert, findById |-> Read(IdOrg), findAllForTender |-> Read(KeyOrg),
     findAllForUser |-> Read(KeyOrg), findByUserAndTender |-> Read(KeyOrg),
     update |-> Change(IdOrg, Id), delete |-> Erase(IdOrg), revoke |-> Erase(KeyOrg)])
PrismaRetentionAction == Repository(None,
    [create |-> Insert, findById |-> Read(IdOrg), findAll |-> Read(Org),
     findForDocument |-> Read(KeyOrg), update |-> Change(IdOrg, Id)])
PrismaIngestionJob == Repository(None,
    [create |-> Insert, findById |-> Read(IdOrg), findAll |-> Read(Org),
     claimNext |-> Claim, update |-> Change(IdOrg, Id)])
PrismaDpoContact == Repository(None,
    [upsert |-> Upsert(Org), findByOrg |-> Read(Org)])
PrismaLlmUsageLog == Repository(None,
    [create |-> Insert, dailyTotals |-> Read(LiveOrg)])
PrismaDpoTrainingRecord == Repository(None,
    [create |-> Insert, findById |-> Read(IdOrg), findAll |-> Read(Org),
     findExpiringBefore |-> Read(KeyOrg), update |-> Change(IdOrg, IdOrg),
     delete |-> Erase(IdOrg)])
PrismaInboundEmail == Repository({"key"},
    [findByMessageId |-> Read({"messageId"}), create |-> Insert, findRecent |-> Read(Org)])
PrismaWebhookSubscription == Repository(None,
    [create |-> Insert, findById |-> Read(IdOrg), findAll |-> Read(Org),
     findActiveForEvent |-> Read(LiveOrg), update |-> Change(IdOrg, IdOrg),
     delete |-> Erase(IdOrg)])
PrismaWebhookDelivery == Repository(None,
    [create |-> Insert, findById |-> Read(IdOrg), findRecent |-> Read(Org),
     update |-> Change(Id, None)])
PrismaSubscription == Repository({"key"},
    [findByOrg |-> Read(Org), findByStripeSubscriptionId |-> Read({"stripeSubscriptionId"}),
     upsert |-> Upsert(Org)])
PrismaUsageCounter == Repository(None,
    [bump |-> Bump(KeyOrg), findDay |-> Read(KeyOrg), sumRange |-> Read(Org)])
PrismaIngestionApiKey == Repository({"key"},
    [create |-> Insert, findByPrefix |-> Read({"keyPrefix"}), findAllByOrg |-> Read(Org),
     markUsed |-> TouchOrFail(Id), revoke |-> Change(IdOrg \cup {"live"}, IdOrg)])

Prisma ==
    [Organization |-> PrismaOrganization, User |-> PrismaUser,
     ClientCompany |-> PrismaClientCompany, Tender |-> PrismaTender,
     ClientDocument |-> PrismaClientDocument, AuditEvent |-> PrismaAuditEvent,
     ComplianceMatrix |-> PrismaComplianceMatrix, ComplianceItem |-> PrismaComplianceItem,
     TenderRequirement |-> PrismaTenderRequirement, EvidenceLink |-> PrismaEvidenceLink,
     ConsentEvent |-> PrismaConsentEvent, DataSubjectRequest |-> PrismaDataSubjectRequest,
     TenderAccess |-> PrismaTenderAccess, RetentionAction |-> PrismaRetentionAction,
     IngestionJob |-> PrismaIngestionJob, DpoContact |-> PrismaDpoContact,
     LlmUsageLog |-> PrismaLlmUsageLog, DpoTrainingRecord |-> PrismaDpoTrainingRecord,
     InboundEmail |-> PrismaInboundEmail, WebhookSubscription |-> PrismaWebhookSubscription,
     WebhookDelivery |-> PrismaWebhookDelivery, Subscription |-> PrismaSubscription,
     UsageCounter |-> PrismaUsageCounter, IngestionApiKey |-> PrismaIngestionApiKey]
=============================================================================
