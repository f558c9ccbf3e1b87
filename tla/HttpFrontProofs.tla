-------------------------- MODULE HttpFrontProofs --------------------------
(***************************************************************************)
(* Proofs about the front of the API: no audited operation goes without an *)
(* event in the name of a user; every route but one is reached by those    *)
(* its guards let in, and that one by nobody.                              *)
(***************************************************************************)
EXTENDS HttpFront, WellFoundedInduction, TLAPS

-----------------------------------------------------------------------------
(* The route table. *)

\* The operations that carry @Audited.
AuditedNames ==
    {"tender.updateStatus", "tender.remove", "vault.setState", "upload.upload",
     "matrix.generate", "item.update", "item.link", "item.unlink", "requirement.createBulk",
     "retention.request", "retention.sweep", "dpo.upsert", "training.create",
     "training.update", "training.remove", "authority.trigger", "ingestion.enqueue",
     "subscription.create", "subscription.update", "subscription.rotate",
     "subscription.remove", "sector.classify", "sector.override", "apiKey.mint",
     "apiKey.revoke", "proxy.trigger"}

\* A route is audited by its name, and a route of that name has a session guard.
Guarded(r) ==
    /\ r.audited => r.h \in AuditedNames
    /\ r.h \in AuditedNames => r.gate = "session"
    /\ Len(r.p) \in Nat

IsSeq(s) == \E S : s \in Seq(S)

\* A table of routes all of which are so.
Sound(s) == IsSeq(s) /\ \A n \in 1..Len(s) : Guarded(s[n])

\* No controller has more than six routes.
LEMMA Tuples ==
  \A a, b, c, d, e, f : /\ IsSeq(<<a>>) /\ IsSeq(<<a, b>>) /\ IsSeq(<<a, b, c>>)
                        /\ IsSeq(<<a, b, c, d>>) /\ IsSeq(<<a, b, c, d, e>>)
                        /\ IsSeq(<<a, b, c, d, e, f>>)
  <1> TAKE a, b, c, d, e, f
  <1> DEFINE S == {a, b, c, d, e, f}
  <1>1. <<a>> \in Seq(S) /\ <<a, b>> \in Seq(S) /\ <<a, b, c>> \in Seq(S)
    OBVIOUS
  <1>2. <<a, b, c, d>> \in Seq(S) /\ <<a, b, c, d, e>> \in Seq(S)
    OBVIOUS
  <1>3. <<a, b, c, d, e, f>> \in Seq(S)
    OBVIOUS
  <1> QED
    BY <1>1, <1>2, <1>3, Zenon DEF IsSeq

\* Controller by controller.
LEMMA Controllers ==
  /\ Sound(HealthController)
  /\ Sound(AuthController)
  /\ Sound(AuditController)
  /\ Sound(ClientCompanyController)
  /\ Sound(TenderController)
  /\ Sound(DocumentVaultController)
  /\ Sound(DocumentUploadController)
  /\ Sound(FitScoringController)
  /\ Sound(ComplianceController)
  /\ Sound(ComplianceItemController)
  /\ Sound(TenderRequirementController)
  /\ Sound(ExportController)
  /\ Sound(PdplController)
  /\ Sound(DataSubjectController)
  /\ Sound(ConsentLedgerController)
  /\ Sound(TenderAccessController)
  /\ Sound(RetentionActionController)
  /\ Sound(RetentionScheduledController)
  /\ Sound(DpoContactController)
  /\ Sound(DpoTrainingController)
  /\ Sound(AuthorityNotificationController)
  /\ Sound(IngestionController)
  /\ Sound(WebhookController)
  /\ Sound(InboundEmailController)
  /\ Sound(UsersController)
  /\ Sound(WebhookSubscriptionController)
  /\ Sound(BillingController)
  /\ Sound(SectorClassifierController)
  /\ Sound(IngestionPortalController)
  /\ Sound(IngestionApiKeyController)
  /\ Sound(IngestionProxyController)
  <1>1. Sound(HealthController)
    <2>1. IsSeq(HealthController)
      BY Tuples, Zenon DEF HealthController
    <2>2. \A n \in 1..Len(HealthController) : Guarded(HealthController[n])
      BY DEF HealthController, Guarded, AuditedNames, Open, Session, Jwt, Owner, Token, Audited
    <2> QED
      BY <2>1, <2>2 DEF Sound
  <1>2. Sound(AuthController)
    <2>1. IsSeq(AuthController)
      BY Tuples, Zenon DEF AuthController
    <2>2. \A n \in 1..Len(AuthController) : Guarded(AuthController[n])
      BY DEF AuthController, Guarded, AuditedNames, Open, Session, Jwt, Owner, Token, Audited
    <2> QED
      BY <2>1, <2>2 DEF Sound
  <1>3. Sound(AuditController)
    <2>1. IsSeq(AuditController)
      BY Tuples, Zenon DEF AuditController
    <2>2. \A n \in 1..Len(AuditController) : Guarded(AuditController[n])
      BY DEF AuditController, Guarded, AuditedNames, Open, Session, Jwt, Owner, Token, Audited
    <2> QED
      BY <2>1, <2>2 DEF Sound
  <1>4. Sound(ClientCompanyController)
    <2>1. IsSeq(ClientCompanyController)
      BY Tuples, Zenon DEF ClientCompanyController
    <2>2. \A n \in 1..Len(ClientCompanyController) : Guarded(ClientCompanyController[n])
      BY DEF ClientCompanyController, Guarded, AuditedNames, Open, Session, Jwt, Owner, Token, Audited
    <2> QED
      BY <2>1, <2>2 DEF Sound
  <1>5. Sound(TenderController)
    <2>1. IsSeq(TenderController)
      BY Tuples, Zenon DEF TenderController
    <2>2. \A n \in 1..Len(TenderController) : Guarded(TenderController[n])
      BY DEF TenderController, Guarded, AuditedNames, Open, Session, Jwt, Owner, Token, Audited
    <2> QED
      BY <2>1, <2>2 DEF Sound
  <1>6. Sound(DocumentVaultController)
    <2>1. IsSeq(DocumentVaultController)
      BY Tuples, Zenon DEF DocumentVaultController
    <2>2. \A n \in 1..Len(DocumentVaultController) : Guarded(DocumentVaultController[n])
      BY DEF DocumentVaultController, Guarded, AuditedNames, Open, Session, Jwt, Owner, Token, Audited
    <2> QED
      BY <2>1, <2>2 DEF Sound
  <1>7. Sound(DocumentUploadController)
    <2>1. IsSeq(DocumentUploadController)
      BY Tuples, Zenon DEF DocumentUploadController
    <2>2. \A n \in 1..Len(DocumentUploadController) : Guarded(DocumentUploadController[n])
      BY DEF DocumentUploadController, Guarded, AuditedNames, Open, Session, Jwt, Owner, Token, Audited
    <2> QED
      BY <2>1, <2>2 DEF Sound
  <1>8. Sound(FitScoringController)
    <2>1. IsSeq(FitScoringController)
      BY Tuples, Zenon DEF FitScoringController
    <2>2. \A n \in 1..Len(FitScoringController) : Guarded(FitScoringController[n])
      BY DEF FitScoringController, Guarded, AuditedNames, Open, Session, Jwt, Owner, Token, Audited
    <2> QED
      BY <2>1, <2>2 DEF Sound
  <1>9. Sound(ComplianceController)
    <2>1. IsSeq(ComplianceController)
      BY Tuples, Zenon DEF ComplianceController
    <2>2. \A n \in 1..Len(ComplianceController) : Guarded(ComplianceController[n])
      BY DEF ComplianceController, Guarded, AuditedNames, Open, Session, Jwt, Owner, Token, Audited
    <2> QED
      BY <2>1, <2>2 DEF Sound
  <1>10. Sound(ComplianceItemController)
    <2>1. IsSeq(ComplianceItemController)
      BY Tuples, Zenon DEF ComplianceItemController
    <2>2. \A n \in 1..Len(ComplianceItemController) : Guarded(ComplianceItemController[n])
      BY DEF ComplianceItemController, Guarded, AuditedNames, Open, Session, Jwt, Owner, Token, Audited
    <2> QED
      BY <2>1, <2>2 DEF Sound
  <1>11. Sound(TenderRequirementController)
    <2>1. IsSeq(TenderRequirementController)
      BY Tuples, Zenon DEF TenderRequirementController
    <2>2. \A n \in 1..Len(TenderRequirementController) : Guarded(TenderRequirementController[n])
      BY DEF TenderRequirementController, Guarded, AuditedNames, Open, Session, Jwt, Owner, Token, Audited
    <2> QED
      BY <2>1, <2>2 DEF Sound
  <1>12. Sound(ExportController)
    <2>1. IsSeq(ExportController)
      BY Tuples, Zenon DEF ExportController
    <2>2. \A n \in 1..Len(ExportController) : Guarded(ExportController[n])
      BY DEF ExportController, Guarded, AuditedNames, Open, Session, Jwt, Owner, Token, Audited
    <2> QED
      BY <2>1, <2>2 DEF Sound
  <1>13. Sound(PdplController)
    <2>1. IsSeq(PdplController)
      BY Tuples, Zenon DEF PdplController
    <2>2. \A n \in 1..Len(PdplController) : Guarded(PdplController[n])
      BY DEF PdplController, Guarded, AuditedNames, Open, Session, Jwt, Owner, Token, Audited
    <2> QED
      BY <2>1, <2>2 DEF Sound
  <1>14. Sound(DataSubjectController)
    <2>1. IsSeq(DataSubjectController)
      BY Tuples, Zenon DEF DataSubjectController
    <2>2. \A n \in 1..Len(DataSubjectController) : Guarded(DataSubjectController[n])
      BY DEF DataSubjectController, Guarded, AuditedNames, Open, Session, Jwt, Owner, Token, Audited
    <2> QED
      BY <2>1, <2>2 DEF Sound
  <1>15. Sound(ConsentLedgerController)
    <2>1. IsSeq(ConsentLedgerController)
      BY Tuples, Zenon DEF ConsentLedgerController
    <2>2. \A n \in 1..Len(ConsentLedgerController) : Guarded(ConsentLedgerController[n])
      BY DEF ConsentLedgerController, Guarded, AuditedNames, Open, Session, Jwt, Owner, Token, Audited
    <2> QED
      BY <2>1, <2>2 DEF Sound
  <1>16. Sound(TenderAccessController)
    <2>1. IsSeq(TenderAccessController)
      BY Tuples, Zenon DEF TenderAccessController
    <2>2. \A n \in 1..Len(TenderAccessController) : Guarded(TenderAccessController[n])
      BY DEF TenderAccessController, Guarded, AuditedNames, Open, Session, Jwt, Owner, Token, Audited
    <2> QED
      BY <2>1, <2>2 DEF Sound
  <1>17. Sound(RetentionActionController)
    <2>1. IsSeq(RetentionActionController)
      BY Tuples, Zenon DEF RetentionActionController
    <2>2. \A n \in 1..Len(RetentionActionController) : Guarded(RetentionActionController[n])
      BY DEF RetentionActionController, Guarded, AuditedNames, Open, Session, Jwt, Owner, Token, Audited
    <2> QED
      BY <2>1, <2>2 DEF Sound
  <1>18. Sound(RetentionScheduledController)
    <2>1. IsSeq(RetentionScheduledController)
      BY Tuples, Zenon DEF RetentionScheduledController
    <2>2. \A n \in 1..Len(RetentionScheduledController) : Guarded(RetentionScheduledController[n])
      BY DEF RetentionScheduledController, Guarded, AuditedNames, Open, Session, Jwt, Owner, Token, Audited
    <2> QED
      BY <2>1, <2>2 DEF Sound
  <1>19. Sound(DpoContactController)
    <2>1. IsSeq(DpoContactController)
      BY Tuples, Zenon DEF DpoContactController
    <2>2. \A n \in 1..Len(DpoContactController) : Guarded(DpoContactController[n])
      BY DEF DpoContactController, Guarded, AuditedNames, Open, Session, Jwt, Owner, Token, Audited
    <2> QED
      BY <2>1, <2>2 DEF Sound
  <1>20. Sound(DpoTrainingController)
    <2>1. IsSeq(DpoTrainingController)
      BY Tuples, Zenon DEF DpoTrainingController
    <2>2. \A n \in 1..Len(DpoTrainingController) : Guarded(DpoTrainingController[n])
      BY DEF DpoTrainingController, Guarded, AuditedNames, Open, Session, Jwt, Owner, Token, Audited
    <2> QED
      BY <2>1, <2>2 DEF Sound
  <1>21. Sound(AuthorityNotificationController)
    <2>1. IsSeq(AuthorityNotificationController)
      BY Tuples, Zenon DEF AuthorityNotificationController
    <2>2. \A n \in 1..Len(AuthorityNotificationController) : Guarded(AuthorityNotificationController[n])
      BY DEF AuthorityNotificationController, Guarded, AuditedNames, Open, Session, Jwt, Owner, Token, Audited
    <2> QED
      BY <2>1, <2>2 DEF Sound
  <1>22. Sound(IngestionController)
    <2>1. IsSeq(IngestionController)
      BY Tuples, Zenon DEF IngestionController
    <2>2. \A n \in 1..Len(IngestionController) : Guarded(IngestionController[n])
      BY DEF IngestionController, Guarded, AuditedNames, Open, Session, Jwt, Owner, Token, Audited
    <2> QED
      BY <2>1, <2>2 DEF Sound
  <1>23. Sound(WebhookController)
    <2>1. IsSeq(WebhookController)
      BY Tuples, Zenon DEF WebhookController
    <2>2. \A n \in 1..Len(WebhookController) : Guarded(WebhookController[n])
      BY DEF WebhookController, Guarded, AuditedNames, Open, Session, Jwt, Owner, Token, Audited
    <2> QED
      BY <2>1, <2>2 DEF Sound
  <1>24. Sound(InboundEmailController)
    <2>1. IsSeq(InboundEmailController)
      BY Tuples, Zenon DEF InboundEmailController
    <2>2. \A n \in 1..Len(InboundEmailController) : Guarded(InboundEmailController[n])
      BY DEF InboundEmailController, Guarded, AuditedNames, Open, Session, Jwt, Owner, Token, Audited
    <2> QED
      BY <2>1, <2>2 DEF Sound
  <1>25. Sound(UsersController)
    <2>1. IsSeq(UsersController)
      BY Tuples, Zenon DEF UsersController
    <2>2. \A n \in 1..Len(UsersController) : Guarded(UsersController[n])
      BY DEF UsersController, Guarded, AuditedNames, Open, Session, Jwt, Owner, Token, Audited
    <2> QED
      BY <2>1, <2>2 DEF Sound
  <1>26. Sound(WebhookSubscriptionController)
    <2>1. IsSeq(WebhookSubscriptionController)
      BY Tuples, Zenon DEF WebhookSubscriptionController
    <2>2. \A n \in 1..Len(WebhookSubscriptionController) : Guarded(WebhookSubscriptionController[n])
      BY DEF WebhookSubscriptionController, Guarded, AuditedNames, Open, Session, Jwt, Owner, Token, Audited
    <2> QED
      BY <2>1, <2>2 DEF Sound
  <1>27. Sound(BillingController)
    <2>1. IsSeq(BillingController)
      BY Tuples, Zenon DEF BillingController
    <2>2. \A n \in 1..Len(BillingController) : Guarded(BillingController[n])
      BY DEF BillingController, Guarded, AuditedNames, Open, Session, Jwt, Owner, Token, Audited
    <2> QED
      BY <2>1, <2>2 DEF Sound
  <1>28. Sound(SectorClassifierController)
    <2>1. IsSeq(SectorClassifierController)
      BY Tuples, Zenon DEF SectorClassifierController
    <2>2. \A n \in 1..Len(SectorClassifierController) : Guarded(SectorClassifierController[n])
      BY DEF SectorClassifierController, Guarded, AuditedNames, Open, Session, Jwt, Owner, Token, Audited
    <2> QED
      BY <2>1, <2>2 DEF Sound
  <1>29. Sound(IngestionPortalController)
    <2>1. IsSeq(IngestionPortalController)
      BY Tuples, Zenon DEF IngestionPortalController
    <2>2. \A n \in 1..Len(IngestionPortalController) : Guarded(IngestionPortalController[n])
      BY DEF IngestionPortalController, Guarded, AuditedNames, Open, Session, Jwt, Owner, Token, Audited
    <2> QED
      BY <2>1, <2>2 DEF Sound
  <1>30. Sound(IngestionApiKeyController)
    <2>1. IsSeq(IngestionApiKeyController)
      BY Tuples, Zenon DEF IngestionApiKeyController
    <2>2. \A n \in 1..Len(IngestionApiKeyController) : Guarded(IngestionApiKeyController[n])
      BY DEF IngestionApiKeyController, Guarded, AuditedNames, Open, Session, Jwt, Owner, Token, Audited
    <2> QED
      BY <2>1, <2>2 DEF Sound
  <1>31. Sound(IngestionProxyController)
    <2>1. IsSeq(IngestionProxyController)
      BY Tuples, Zenon DEF IngestionProxyController
    <2>2. \A n \in 1..Len(IngestionProxyController) : Guarded(IngestionProxyController[n])
      BY DEF IngestionProxyController, Guarded, AuditedNames, Open, Session, Jwt, Owner, Token, Audited
    <2> QED
      BY <2>1, <2>2 DEF Sound
  <1> QED
    BY <1>1, <1>2, <1>3, <1>4, <1>5, <1>6, <1>7, <1>8, <1>9, <1>10, <1>11, <1>12, <1>13, <1>14,
       <1>15, <1>16, <1>17, <1>18, <1>19, <1>20, <1>21, <1>22, <1>23, <1>24, <1>25, <1>26,
       <1>27, <1>28, <1>29, <1>30, <1>31

\* One table after another.
LEMMA SoundConcat ==
  ASSUME NEW s, NEW t, Sound(s), Sound(t)
  PROVE  Sound(s \o t)
  <1>1. PICK S : s \in Seq(S)
    BY DEF Sound, IsSeq
  <1>2. PICK T : t \in Seq(T)
    BY DEF Sound, IsSeq
  <1>3. s \in Seq(S \cup T) /\ t \in Seq(S \cup T)
    BY <1>1, <1>2
  <1>4. s \o t \in Seq(S \cup T)
    BY <1>3
  <1>5. \A n \in 1..Len(s \o t) : Guarded((s \o t)[n])
    BY <1>3 DEF Sound
  <1> QED
    BY <1>4, <1>5 DEF Sound, IsSeq

\* The whole application.
LEMMA AppModuleSound == Sound(AppModule)
  BY Controllers, SoundConcat, Zenon DEF AppModule

Handlers == {AppModule[n].h : n \in 1..Len(AppModule)}

\* A handler has a route.
LEMMA RouteOfHandler ==
  ASSUME NEW h \in Handlers
  PROVE  /\ \E n \in 1..Len(AppModule) : RouteOf(h) = AppModule[n]
         /\ RouteOf(h).h = h /\ Guarded(RouteOf(h))
  <1> DEFINE k == CHOOSE n \in 1..Len(AppModule) : AppModule[n].h = h
  <1>1. \E n \in 1..Len(AppModule) : AppModule[n].h = h
    BY DEF Handlers
  <1>2. k \in 1..Len(AppModule) /\ AppModule[k].h = h
    BY <1>1
  <1>3. RouteOf(h) = AppModule[k]
    BY DEF RouteOf
  <1> HIDE DEF k
  <1> QED
    BY <1>2, <1>3, AppModuleSound DEF Sound

\* A set of naturals has a least element.
LEMMA LeastElement ==
  ASSUME NEW S \in SUBSET Nat, NEW x \in S
  PROVE  \E k \in S : \A l \in S : k <= l
  <1>1. PICK k \in S : \A l \in S : ~(<<l, k>> \in OpToRel(<, Nat))
    BY NatLessThanWellFounded, WFMin
  <1>2. \A l \in S : ~(l < k)
    BY <1>1 DEF OpToRel
  <1> QED
    BY <1>2

\* A request made for a route is answered by the first that matches, and there is
\* one: the pattern of a route matches its own path.
LEMMA FirstMatch ==
  ASSUME NEW h \in Handlers
  PROVE  \E k \in Candidates(AppModule, RouteOf(h).m, Concrete(RouteOf(h))) :
           /\ k \in 1..Len(AppModule) /\ Answering(RouteOf(h)) = AppModule[k]
           /\ \A l \in Candidates(AppModule, RouteOf(h).m, Concrete(RouteOf(h))) : k <= l
  <1> DEFINE r == RouteOf(h)
             C == Candidates(AppModule, r.m, Concrete(r))
  <1>1. PICK n \in 1..Len(AppModule) : r = AppModule[n]
    BY RouteOfHandler
  <1>2. Len(r.p) \in Nat
    BY RouteOfHandler DEF Guarded
  <1>3. /\ Len(Concrete(r)) = Len(r.p)
        /\ \A i \in 1..Len(r.p) : r.p[i] \in {Id, Concrete(r)[i]}
    <2> DEFINE p == r.p
    <2>1. Concrete(r) = [i \in 1..Len(p) |-> IF p[i] = Id THEN Value ELSE p[i]] /\ Len(p) \in Nat
      BY <1>2 DEF Concrete
    <2> HIDE DEF p, r
    <2>2. Len([i \in 1..Len(p) |-> IF p[i] = Id THEN Value ELSE p[i]]) = Len(p)
      BY <2>1
    <2> QED
      BY <2>1, <2>2 DEF p
  <1>4. n \in C
    BY <1>1, <1>3 DEF Candidates, Matches
  <1>5. C \in SUBSET Nat /\ C \subseteq 1..Len(AppModule)
    <2>1. C \subseteq 1..Len(AppModule)
      BY DEF Candidates
    <2> HIDE DEF C
    <2> QED
      BY <2>1
  <1>6. \E k \in C : \A l \in C : k <= l
    <2> HIDE DEF C
    <2> QED
      BY <1>4, <1>5, LeastElement
  <1> DEFINE k == CHOOSE k \in C : \A l \in C : k <= l
  <1>7. k \in C /\ \A l \in C : k <= l
    <2> HIDE DEF C
    <2> QED
      BY <1>6
  <1>8. Answering(r) = AppModule[k]
    BY DEF Answering, Dispatch
  <1> HIDE DEF k
  <1>9. k \in 1..Len(AppModule)
    BY <1>5, <1>7
  <1> QED
    BY <1>7, <1>8, <1>9

\* The route that answers is one of the application's.
LEMMA SomeRouteAnswers ==
  ASSUME NEW h \in Handlers
  PROVE  /\ Guarded(Answering(RouteOf(h)))
         /\ Answering(RouteOf(h)).h \in Handlers
  <1>1. PICK k \in 1..Len(AppModule) : Answering(RouteOf(h)) = AppModule[k]
    BY FirstMatch
  <1> QED
    BY <1>1, AppModuleSound DEF Sound, Handlers

-----------------------------------------------------------------------------
(* The interceptor. *)

\* An audited operation that runs has a principal: no event is lost for want of
\* one.
FrontInv ==
    /\ calls = [c \in Callers |-> calls[c]]
    /\ \A c \in Callers : calls[c].pc = "handler" =>
         /\ calls[c].got \in Handlers
         /\ calls[c].got \in AuditedNames => calls[c].user # NULL
    /\ AuditedOperationsLeaveEvents

\* The guard of a session route lets nobody in without a principal.
LEMMA AdmittedIsKnown ==
  ASSUME NEW r, NEW c, r.gate = "session", Admits(r, c)
  PROVE  Principal(r, c) # NULL
  BY DEF Admits, Principal, RolesGuard, SharedTokenGuard, SchedulerOidcGuard, IngestionTokenGuard

\* Every step keeps the events and the principals.
LEMMA FrontStep == FrontInv /\ [Next]_vars => FrontInv'
  <1> SUFFICES ASSUME FrontInv, [Next]_vars PROVE FrontInv'
    OBVIOUS
  <1>0. /\ calls = [c \in Callers |-> calls[c]]
        /\ \A e \in performed : e \in trail \cup lost \cup writes /\ e[2] # NULL
    BY DEF FrontInv, AuditedOperationsLeaveEvents
  <1>1. CASE UNCHANGED vars
    BY <1>1 DEF vars, FrontInv, AuditedOperationsLeaveEvents
  <1>2. ASSUME UNCHANGED <<calls, writes, performed>>,
               trail \subseteq trail', lost \subseteq lost'
        PROVE  FrontInv'
    BY <1>2 DEF FrontInv, AuditedOperationsLeaveEvents
  <1>3. ASSUME NEW b \in Browsers, NEW u \in Users, Login(b, u) \/ LoginFails(b, u)
        PROVE  FrontInv'
    BY <1>2, <1>3 DEF Login, LoginFails, Record
  <1>4. ASSUME NEW b \in Browsers, Logout(b) \/ Expire(b)
        PROVE  FrontInv'
    BY <1>2, <1>4 DEF Logout, Expire, Record
  <1>5. ASSUME NEW c \in Callers, NEW h \in Asked, Request(c, h)
        PROVE  FrontInv'
    <2> DEFINE r == Answering(RouteOf(h))
               k == [pc |-> IF Admits(r, c) THEN "handler" ELSE "refused",
                     asked |-> h, got |-> r.h, user |-> Principal(r, c),
                     entitled |-> Admits(RouteOf(h), c)]
    <2>1. calls' = [calls EXCEPT ![c] = k] /\ UNCHANGED <<writes, trail, lost, performed>>
      BY <1>5 DEF Request
    <2>2. h \in Handlers
      BY FrontAssumption DEF Handlers
    <2>3. Guarded(r) /\ r.h \in Handlers
      BY <2>2, SomeRouteAnswers
    <2>4. k.pc = "handler" => k.got \in Handlers /\ (k.got \in AuditedNames => k.user # NULL)
      <3> HIDE DEF r
      <3>1. k.pc = "handler" => Admits(r, c)
        OBVIOUS
      <3>2. k.got = r.h /\ k.user = Principal(r, c)
        OBVIOUS
      <3> QED
        BY <2>3, <3>1, <3>2, AdmittedIsKnown DEF Guarded
    <2> HIDE DEF k, r
    <2> QED
      BY <1>0, <2>1, <2>4 DEF FrontInv, AuditedOperationsLeaveEvents
  <1>6. ASSUME NEW c \in Callers, Succeed(c) PROVE FrontInv'
    <2> DEFINE r == RouteOf(calls[c].got)
               u == calls[c].user
    <2>1. /\ calls' = [calls EXCEPT ![c] = NoCall] /\ UNCHANGED <<trail, lost>>
          /\ writes' = writes \cup (IF r.audited /\ u # NULL THEN {<<r.h, u>>} ELSE {})
          /\ performed' = IF r.audited THEN performed \cup {<<r.h, u>>} ELSE performed
      BY <1>6 DEF Succeed, Intercepted
    <2>2. r.audited => u # NULL
      <3>1. calls[c].got \in Handlers /\ (calls[c].got \in AuditedNames => u # NULL)
        BY <1>6 DEF FrontInv, Succeed
      <3>2. r.h = calls[c].got /\ Guarded(r)
        BY <3>1, RouteOfHandler
      <3> QED
        BY <3>1, <3>2 DEF Guarded
    <2>3. NoCall.pc # "handler"
      BY DEF NoCall
    <2> HIDE DEF r, u
    <2>4. AuditedOperationsLeaveEvents'
      BY <1>0, <2>1, <2>2 DEF AuditedOperationsLeaveEvents
    <2> QED
      BY <1>0, <2>1, <2>3, <2>4 DEF FrontInv
  <1>7. ASSUME NEW c \in Callers, Throw(c) PROVE FrontInv'
    <2>1. NoCall.pc # "handler"
      BY DEF NoCall
    <2> QED
      BY <1>0, <1>7, <2>1 DEF Throw, FrontInv, AuditedOperationsLeaveEvents
  <1>8. ASSUME NEW e \in writes, WriteEvent(e) PROVE FrontInv'
    <2>1. /\ calls' = calls /\ performed' = performed
          /\ trail \cup lost \cup writes \subseteq (trail \cup lost \cup writes)'
      BY <1>8 DEF WriteEvent, Record
    <2> QED
      BY <1>0, <2>1 DEF FrontInv, AuditedOperationsLeaveEvents
  <1> QED
    BY <1>1, <1>3, <1>4, <1>5, <1>6, <1>7, <1>8 DEF Next

\* AuditedOperationsLeaveEvents: whoever asks for what and in which order, an
\* operation with @Audited that succeeded left an event in the name of a user, one
\* being written, or a logged failure: no route carries the decorator without
\* JwtAuthGuard, and none that shadows another does (AuditInterceptor).
THEOREM AuditedAreRecorded == Spec => []AuditedOperationsLeaveEvents
  <1>1. Init => FrontInv
    BY DEF Init, NoCall, FrontInv, AuditedOperationsLeaveEvents
  <1>2. FrontInv => AuditedOperationsLeaveEvents
    BY DEF FrontInv
  <1> QED
    BY <1>1, <1>2, FrontStep, PTL DEF Spec

-----------------------------------------------------------------------------
(* Which route answers. *)

\* What a caller meets at a route: its handler and its guards.
Met(r) == [h |-> r.h, gate |-> r.gate, roles |-> r.roles]
Meets(gate, roles, h) == [h |-> h, gate |-> gate, roles |-> roles]
Anyone(h) == Meets("open", {}, h)
Member(h) == Meets("session", Staff, h)
Boss(h) == Meets("session", {"Owner"}, h)
Officer(h) == Meets("session", {"Owner", "DocController"}, h)
Holder(gate, h) == Meets(gate, {}, h)

\* The directory of the API.  Under a first segment, the method, the number of
\* segments and the last one (Id for a parameter) tell the route.
UnderTenders(m, n, l) ==
    CASE n = 1 -> Member(IF m = "POST" THEN "tender.intake" ELSE "tender.list")
      [] n = 2 -> Member(IF m = "GET" THEN "tender.get" ELSE "tender.remove")
      [] l = "status" -> Member("tender.updateStatus")
      [] l = "fit-score" -> Member("fit.compute")
      [] l = "override" -> Member("fit.override")
      [] l = "compliance-matrices" -> Member(IF m = "POST" THEN "matrix.generate" ELSE "matrix.list")
      [] l = "requirements" ->
           Member(IF m = "POST" THEN "requirement.createBulk" ELSE "requirement.list")
      [] l = "submission-pack" -> Member("export.build")
      [] l = "access" -> IF m = "POST" THEN Boss("access.grant") ELSE Member("access.list")
      [] l = "classify" -> Boss("sector.classify")
      [] l = "sector" -> Boss("sector.override")
      [] n = 4 /\ l = Id -> IF m = "GET" THEN Member("matrix.getByVersion") ELSE Boss("access.revoke")

UnderDocuments(m, n, l) ==
    Member(CASE n = 1 -> IF m = "POST" THEN "vault.register" ELSE "vault.list"
             [] l = "expiring" -> "vault.expiring"
             [] l = Id -> "vault.get"
             [] l = "evidence-links" -> "vault.evidenceLinks"
             [] l = "state" -> "vault.setState"
             [] l = "upload" -> "upload.upload"
             [] l = "download" -> "upload.download")

UnderRetention(m, n, l) ==
    CASE n = 1 -> Member(IF m = "POST" THEN "retention.request" ELSE "retention.list")
      [] l = Id -> Member("retention.get")
      [] l = "approve" -> Officer("retention.approve")
      [] l = "deny" -> Officer("retention.deny")
      [] l = "sweep" -> Boss("retention.sweep")
      [] l = "sweep-scheduled" -> Holder("oidc", "retention.sweepScheduled")

UnderRequests(m, n, l) ==
    CASE n = 1 -> Member(IF m = "POST" THEN "dsr.create" ELSE "dsr.list")
      [] l = Id -> Member("dsr.get")
      [] l = "approve" -> Boss("dsr.approve")
      [] l = "deny" -> Boss("dsr.deny")
      [] l = "execute" -> Boss("dsr.execute")

UnderTraining(m, n, l) ==
    Boss(CASE n = 1 -> IF m = "POST" THEN "training.create" ELSE "training.list"
           [] l = "summary" -> "training.summary"
           [] l = Id -> CASE m = "GET" -> "training.get"
                          [] m = "PATCH" -> "training.update"
                          [] m = "DELETE" -> "training.remove")

UnderIngestions(m, n, l) ==
    CASE n = 1 -> Member(IF m = "POST" THEN "ingestion.enqueue" ELSE "ingestion.list")
      [] l = Id -> Member("ingestion.get")
      [] l = "next-job" -> Holder("worker", "ingestion.claimNext")
      [] l = "complete" -> Holder("worker", "ingestion.complete")
      [] l = "fail" -> Holder("worker", "ingestion.fail")

UnderSubscriptions(m, n, l) ==
    Boss(CASE n = 1 -> IF m = "POST" THEN "subscription.create" ELSE "subscription.list"
           [] n = 3 -> "subscription.rotate"
           [] n = 2 -> CASE m = "GET" -> "subscription.get"
                         [] m = "PATCH" -> "subscription.update"
                         [] m = "DELETE" -> "subscription.remove")

UnderCompanies(m, n, l) ==
    Member(CASE n = 1 -> IF m = "POST" THEN "company.create" ELSE "company.list"
             [] n = 2 -> CASE m = "GET" -> "company.get"
                           [] m = "PATCH" -> "company.update"
                           [] m = "DELETE" -> "company.remove")

UnderAdmin(m, n, l) ==
    Boss(CASE l = "ingestion-keys" -> IF m = "POST" THEN "apiKey.mint" ELSE "apiKey.list"
           [] l = Id -> "apiKey.revoke"
           [] l = "runs" -> IF m = "POST" THEN "proxy.trigger" ELSE "proxy.list")

Directory(f, m, n, l) ==
    CASE f = "health" -> Anyone("health.check")
      [] f = "auth" -> (CASE l = "login" -> Anyone("auth.login")
                         [] l = "logout" -> Anyone("auth.logout")
                         [] l = "me" -> Member("auth.me"))
      [] f = "audit-events" -> Boss("audit.recent")
      [] f = "client-companies" -> UnderCompanies(m, n, l)
      [] f = "tenders" -> UnderTenders(m, n, l)
      [] f = "documents" -> UnderDocuments(m, n, l)
      [] f = "compliance-items" ->
           Member(CASE m = "PATCH" -> "item.update" [] m = "GET" -> "item.list"
                    [] m = "POST" -> "item.link" [] m = "DELETE" -> "item.unlink")
      [] f = "pdpl" -> Officer(IF l = "residency" THEN "pdpl.residency" ELSE "pdpl.inventory")
      [] f = "data-subject-requests" -> UnderRequests(m, n, l)
      [] f = "consent-events" ->
           Member(CASE m = "POST" -> "consent.create"
                    [] m = "GET" -> IF n = 1 THEN "consent.list" ELSE "consent.check")
      [] f = "retention-actions" -> UnderRetention(m, n, l)
      [] f = "dpo-contact" -> IF m = "PUT" THEN Boss("dpo.upsert") ELSE Member("dpo.get")
      [] f = "training-records" -> UnderTraining(m, n, l)
      [] f = "authority-notifications" -> Boss("authority.trigger")
      [] f = "ingestions" -> UnderIngestions(m, n, l)
      [] f = "webhooks" -> (CASE l = "email" -> Holder("mail", "webhook.inboundEmail")
                             [] l = "inbound-email" -> Anyone("inboundEmail.receive")
                             [] l = "stripe" -> Anyone("billing.stripeReceive"))
      [] f = "users" -> Boss("users.list")
      [] f = "webhook-subscriptions" -> UnderSubscriptions(m, n, l)
      [] f = "plans" -> Member("billing.plans")
      [] f = "subscription" -> Boss("billing.mySubscription")
      [] f = "usage" -> Boss("billing.todayUsage")
      [] f = "ingestion" -> Holder("apiKey", "portal.create")
      [] f = "admin" -> UnderAdmin(m, n, l)

\* The places at which some route ends in a parameter.
Wild(f, m, n) ==
    \/ m = "DELETE"
    \/ m = "PATCH" /\ n = 2
    \/ m = "GET" /\ n = 4
    \/ m = "GET" /\ n = 2 /\ f \notin {"auth", "pdpl", "consent-events", "usage", "admin"}
    \/ f = "authority-notifications"

\* The routes that end in a literal at such a place: a matter of order.  And
\* the place of each of them, and of the one route that is ahead of its literal.
Overlaid == {"vault.expiring", "training.summary", "ingestion.claimNext"}
Stands(h, f, m, n, l) ==
    CASE h = "vault.expiring" -> f = "documents" /\ m = "GET" /\ n = 2 /\ l = "expiring"
      [] h = "training.summary" -> f = "training-records" /\ m = "GET" /\ n = 2 /\ l = "summary"
      [] h = "ingestion.claimNext" -> f = "ingestions" /\ m = "GET" /\ n = 2 /\ l = "next-job"
      [] h = "ingestion.get" -> f = "ingestions" /\ m = "GET" /\ n = 2 /\ l = Id
      [] OTHER -> TRUE

\* An entry of the directory.
Place(f, m, n, l, met) ==
    /\ f \notin {Id, Value} /\ l # Value
    /\ met = Directory(f, m, n, l)
    /\ l = Id => Wild(f, m, n)
    /\ l # Id /\ met.h \notin Overlaid => ~Wild(f, m, n)
    /\ Stands(met.h, f, m, n, l)

LastOf(r) == r.p[Len(r.p)]

\* A route is where the directory has it.
Filed(r) == Len(r.p) \in 1..4 /\ Place(r.p[1], r.m, Len(r.p), LastOf(r), Met(r))

\* Whenever handler g has a route in s, handler h has one before it.
Before(s, h, g) ==
    \A b \in 1..Len(s) : s[b].h = g => \E a \in 1..Len(s) : a < b /\ s[a].h = h

\* The routes of a table are filed, and where two could answer, these come first.
InOrder(s) ==
    /\ Sound(s)
    /\ \A n \in 1..Len(s) : Filed(s[n])
    /\ Before(s, "vault.expiring", "vault.get")
    /\ Before(s, "training.summary", "training.get")
    /\ Before(s, "ingestion.get", "ingestion.claimNext")

\* What a route declares.
Entry(r, m, p, gate, roles, h) ==
    r.m = m /\ r.p = p /\ r.gate = gate /\ r.roles = roles /\ r.h = h

\* A route declared as the directory has it is filed: no path has more than four
\* segments.
LEMMA FiledAsDeclared ==
  ASSUME NEW r, NEW m, NEW gate, NEW roles, NEW h, NEW f, NEW a, NEW b, NEW l
  PROVE  /\ Entry(r, m, <<f>>, gate, roles, h) /\ Place(f, m, 1, f, Meets(gate, roles, h))
              => Filed(r)
         /\ Entry(r, m, <<f, l>>, gate, roles, h) /\ Place(f, m, 2, l, Meets(gate, roles, h))
              => Filed(r)
         /\ Entry(r, m, <<f, a, l>>, gate, roles, h) /\ Place(f, m, 3, l, Meets(gate, roles, h))
              => Filed(r)
         /\ Entry(r, m, <<f, a, b, l>>, gate, roles, h) /\ Place(f, m, 4, l, Meets(gate, roles, h))
              => Filed(r)
  <1> DEFINE met == Meets(gate, roles, h)
  <1>1. ASSUME NEW n \in 1..4, NEW q, NEW z, Len(q) = n, q[1] = f, q[n] = z,
               Entry(r, m, q, gate, roles, h), Place(f, m, n, z, met)
        PROVE  Filed(r)
    <2>1. r.m = m /\ Len(r.p) = n /\ r.p[1] = f /\ LastOf(r) = z
      BY <1>1 DEF Entry, LastOf
    <2>2. Met(r) = met
      BY <1>1 DEF Entry, Met, Meets
    <2> HIDE DEF met
    <2> QED
      BY <1>1, <2>1, <2>2 DEF Filed
  <1> HIDE DEF met
  <1>2. /\ Len(<<f>>) = 1 /\ <<f>>[1] = f
        /\ Len(<<f, l>>) = 2 /\ <<f, l>>[1] = f /\ <<f, l>>[2] = l
        /\ Len(<<f, a, l>>) = 3 /\ <<f, a, l>>[1] = f /\ <<f, a, l>>[3] = l
        /\ Len(<<f, a, b, l>>) = 4 /\ <<f, a, b, l>>[1] = f /\ <<f, a, b, l>>[4] = l
    OBVIOUS
  <1>3. 1 \in 1..4 /\ 2 \in 1..4 /\ 3 \in 1..4 /\ 4 \in 1..4
    OBVIOUS
  <1> QED
    BY <1>1, <1>2, <1>3, Zenon DEF met

\* Controller by controller.
LEMMA ControllersInOrder ==
  /\ InOrder(HealthController)
  /\ InOrder(AuthController)
  /\ InOrder(AuditController)
  /\ InOrder(ClientCompanyController)
  /\ InOrder(TenderController)
  /\ InOrder(DocumentVaultController)
  /\ InOrder(DocumentUploadController)
  /\ InOrder(FitScoringController)
  /\ InOrder(ComplianceController)
  /\ InOrder(ComplianceItemController)
  /\ InOrder(TenderRequirementController)
  /\ InOrder(ExportController)
  /\ InOrder(PdplController)
  /\ InOrder(DataSubjectController)
  /\ InOrder(ConsentLedgerController)
  /\ InOrder(TenderAccessController)
  /\ InOrder(RetentionActionController)
  /\ InOrder(RetentionScheduledController)
  /\ InOrder(DpoContactController)
  /\ InOrder(DpoTrainingController)
  /\ InOrder(AuthorityNotificationController)
  /\ InOrder(IngestionController)
  /\ InOrder(WebhookController)
  /\ InOrder(InboundEmailController)
  /\ InOrder(UsersController)
  /\ InOrder(WebhookSubscriptionController)
  /\ InOrder(BillingController)
  /\ InOrder(SectorClassifierController)
  /\ InOrder(IngestionPortalController)
  /\ InOrder(IngestionApiKeyController)
  /\ InOrder(IngestionProxyController)
  <1>1. InOrder(HealthController)
    <2> DEFINE C == HealthController
    <2>1. /\ Place("health", "GET", 1, "health", Anyone("health.check"))
      BY DEF Place, Stands, Directory, Wild, Overlaid, Anyone, Meets, Id, Value
    <2>2. /\ Len(C) = 1
          /\ Entry(C[1], "GET", <<"health">>, "open", {}, "health.check")
      BY DEF Entry, HealthController, Open
    <2> HIDE DEF C
    <2>3. Filed(C[1])
      BY <2>1, <2>2, FiledAsDeclared, Zenon DEF Anyone
    <2>4. /\ Before(C, "vault.expiring", "vault.get") /\ Before(C, "training.summary", "training.get")
          /\ Before(C, "ingestion.get", "ingestion.claimNext")
      BY <2>2 DEF Before, Entry
    <2> QED
      BY <2>2, <2>3, <2>4, Controllers DEF InOrder, C
  <1>2. InOrder(AuthController)
    <2> DEFINE C == AuthController
    <2>1. /\ Place("auth", "POST", 2, "login", Anyone("auth.login"))
          /\ Place("auth", "POST", 2, "logout", Anyone("auth.logout"))
          /\ Place("auth", "GET", 2, "me", Member("auth.me"))
      BY DEF Place, Stands, Directory, Wild, Overlaid, Anyone, Member, Meets, Id, Value
    <2>2. /\ Len(C) = 3
          /\ Entry(C[1], "POST", <<"auth", "login">>, "open", {}, "auth.login")
          /\ Entry(C[2], "POST", <<"auth", "logout">>, "open", {}, "auth.logout")
          /\ Entry(C[3], "GET", <<"auth", "me">>, "session", Staff, "auth.me")
      BY DEF Entry, AuthController, Session, Open, Jwt
    <2> HIDE DEF C
    <2>3. Filed(C[1]) /\ Filed(C[2]) /\ Filed(C[3])
      BY <2>1, <2>2, FiledAsDeclared, Zenon DEF Anyone, Member
    <2>4. /\ Before(C, "vault.expiring", "vault.get") /\ Before(C, "training.summary", "training.get")
          /\ Before(C, "ingestion.get", "ingestion.claimNext")
      BY <2>2 DEF Before, Entry
    <2> QED
      BY <2>2, <2>3, <2>4, Controllers DEF InOrder, C
  <1>3. InOrder(AuditController)
    <2> DEFINE C == AuditController
    <2>1. /\ Place("audit-events", "GET", 1, "audit-events", Boss("audit.recent"))
      BY DEF Place, Stands, Directory, Wild, Overlaid, Boss, Meets, Id, Value
    <2>2. /\ Len(C) = 1
          /\ Entry(C[1], "GET", <<"audit-events">>, "session", {"Owner"}, "audit.recent")
      BY DEF Entry, AuditController, Session, Owner
    <2> HIDE DEF C
    <2>3. Filed(C[1])
      BY <2>1, <2>2, FiledAsDeclared, Zenon DEF Boss
    <2>4. /\ Before(C, "vault.expiring", "vault.get") /\ Before(C, "training.summary", "training.get")
          /\ Before(C, "ingestion.get", "ingestion.claimNext")
      BY <2>2 DEF Before, Entry
    <2> QED
      BY <2>2, <2>3, <2>4, Controllers DEF InOrder, C
  <1>4. InOrder(ClientCompanyController)
    <2> DEFINE C == ClientCompanyController
    <2>1. /\ Place("client-companies", "GET", 1, "client-companies", Member("company.list"))
          /\ Place("client-companies", "GET", 2, Id, Member("company.get"))
          /\ Place("client-companies", "POST", 1, "client-companies", Member("company.create"))
          /\ Place("client-companies", "PATCH", 2, Id, Member("company.update"))
          /\ Place("client-companies", "DELETE", 2, Id, Member("company.remove"))
      BY DEF Place, Stands, Directory, UnderCompanies, Wild, Overlaid, Member, Meets, Id, Value
    <2>2. /\ Len(C) = 5
          /\ Entry(C[1], "GET", <<"client-companies">>, "session", Staff, "company.list")
          /\ Entry(C[2], "GET", <<"client-companies", Id>>, "session", Staff, "company.get")
          /\ Entry(C[3], "POST", <<"client-companies">>, "session", Staff, "company.create")
          /\ Entry(C[4], "PATCH", <<"client-companies", Id>>,
                   "session", Staff, "company.update")
          /\ Entry(C[5], "DELETE", <<"client-companies", Id>>,
                   "session", Staff, "company.remove")
      BY DEF Entry, ClientCompanyController, Session, Jwt
    <2> HIDE DEF C
    <2>3. Filed(C[1]) /\ Filed(C[2]) /\ Filed(C[3]) /\ Filed(C[4]) /\ Filed(C[5])
      BY <2>1, <2>2, FiledAsDeclared, Zenon DEF Member
    <2>4. /\ Before(C, "vault.expiring", "vault.get") /\ Before(C, "training.summary", "training.get")
          /\ Before(C, "ingestion.get", "ingestion.claimNext")
      BY <2>2 DEF Before, Entry
    <2> QED
      BY <2>2, <2>3, <2>4, Controllers DEF InOrder, C
  <1>5. InOrder(TenderController)
    <2> DEFINE C == TenderController
    <2>1. /\ Place("tenders", "POST", 1, "tenders", Member("tender.intake"))
          /\ Place("tenders", "GET", 1, "tenders", Member("tender.list"))
          /\ Place("tenders", "GET", 2, Id, Member("tender.get"))
          /\ Place("tenders", "PATCH", 3, "status", Member("tender.updateStatus"))
          /\ Place("tenders", "DELETE", 2, Id, Member("tender.remove"))
      BY DEF Place, Stands, Directory, UnderTenders, Wild, Overlaid, Member, Meets, Id, Value
    <2>2. /\ Len(C) = 5
          /\ Entry(C[1], "POST", <<"tenders">>, "session", Staff, "tender.intake")
          /\ Entry(C[2], "GET", <<"tenders">>, "session", Staff, "tender.list")
          /\ Entry(C[3], "GET", <<"tenders", Id>>, "session", Staff, "tender.get")
          /\ Entry(C[4], "PATCH", <<"tenders", Id, "status">>,
                   "session", Staff, "tender.updateStatus")
          /\ Entry(C[5], "DELETE", <<"tenders", Id>>, "session", Staff, "tender.remove")
      BY DEF Entry, TenderController, Session, Jwt, Audited
    <2> HIDE DEF C
    <2>3. Filed(C[1]) /\ Filed(C[2]) /\ Filed(C[3]) /\ Filed(C[4]) /\ Filed(C[5])
      BY <2>1, <2>2, FiledAsDeclared, Zenon DEF Member
    <2>4. /\ Before(C, "vault.expiring", "vault.get") /\ Before(C, "training.summary", "training.get")
          /\ Before(C, "ingestion.get", "ingestion.claimNext")
      BY <2>2 DEF Before, Entry
    <2> QED
      BY <2>2, <2>3, <2>4, Controllers DEF InOrder, C
  <1>6. InOrder(DocumentVaultController)
    <2> DEFINE C == DocumentVaultController
    <2>1. /\ Place("documents", "POST", 1, "documents", Member("vault.register"))
          /\ Place("documents", "GET", 1, "documents", Member("vault.list"))
          /\ Place("documents", "GET", 2, "expiring", Member("vault.expiring"))
          /\ Place("documents", "GET", 2, Id, Member("vault.get"))
          /\ Place("documents", "GET", 3, "evidence-links", Member("vault.evidenceLinks"))
          /\ Place("documents", "PATCH", 3, "state", Member("vault.setState"))
      BY DEF Place, Stands, Directory, UnderDocuments, Wild, Overlaid, Member, Meets, Id, Value
    <2>2. /\ Len(C) = 6
          /\ Entry(C[1], "POST", <<"documents">>, "session", Staff, "vault.register")
          /\ Entry(C[2], "GET", <<"documents">>, "session", Staff, "vault.list")
          /\ Entry(C[3], "GET", <<"documents", "expiring">>, "session", Staff, "vault.expiring")
          /\ Entry(C[4], "GET", <<"documents", Id>>, "session", Staff, "vault.get")
          /\ Entry(C[5], "GET", <<"documents", Id, "evidence-links">>,
                   "session", Staff, "vault.evidenceLinks")
          /\ Entry(C[6], "PATCH", <<"documents", Id, "state">>,
                   "session", Staff, "vault.setState")
      BY DEF Entry, DocumentVaultController, Session, Jwt, Audited
    <2> HIDE DEF C
    <2>3. Filed(C[1]) /\ Filed(C[2]) /\ Filed(C[3]) /\ Filed(C[4]) /\ Filed(C[5]) /\ Filed(C[6])
      BY <2>1, <2>2, FiledAsDeclared, Zenon DEF Member
    <2>4. /\ Before(C, "vault.expiring", "vault.get") /\ Before(C, "training.summary", "training.get")
          /\ Before(C, "ingestion.get", "ingestion.claimNext")
      BY <2>2 DEF Before, Entry
    <2> QED
      BY <2>2, <2>3, <2>4, Controllers DEF InOrder, C
  <1>7. InOrder(DocumentUploadController)
    <2> DEFINE C == DocumentUploadController
    <2>1. /\ Place("documents", "POST", 2, "upload", Member("upload.upload"))
          /\ Place("documents", "GET", 3, "download", Member("upload.download"))
      BY DEF Place, Stands, Directory, UnderDocuments, Wild, Overlaid, Member, Meets, Id, Value
    <2>2. /\ Len(C) = 2
          /\ Entry(C[1], "POST", <<"documents", "upload">>, "session", Staff, "upload.upload")
          /\ Entry(C[2], "GET", <<"documents", Id, "download">>,
                   "session", Staff, "upload.download")
      BY DEF Entry, DocumentUploadController, Session, Jwt, Audited
    <2> HIDE DEF C
    <2>3. Filed(C[1]) /\ Filed(C[2])
      BY <2>1, <2>2, FiledAsDeclared, Zenon DEF Member
    <2>4. /\ Before(C, "vault.expiring", "vault.get") /\ Before(C, "training.summary", "training.get")
          /\ Before(C, "ingestion.get", "ingestion.claimNext")
      BY <2>2 DEF Before, Entry
    <2> QED
      BY <2>2, <2>3, <2>4, Controllers DEF InOrder, C
  <1>8. InOrder(FitScoringController)
    <2> DEFINE C == FitScoringController
    <2>1. /\ Place("tenders", "POST", 3, "fit-score", Member("fit.compute"))
          /\ Place("tenders", "POST", 4, "override", Member("fit.override"))
      BY DEF Place, Stands, Directory, UnderTenders, Wild, Overlaid, Member, Meets, Id, Value
    <2>2. /\ Len(C) = 2
          /\ Entry(C[1], "POST", <<"tenders", Id, "fit-score">>,
                   "session", Staff, "fit.compute")
          /\ Entry(C[2], "POST", <<"tenders", Id, "fit-score", "override">>,
                   "session", Staff, "fit.override")
      BY DEF Entry, FitScoringController, Session, Jwt
    <2> HIDE DEF C
    <2>3. Filed(C[1]) /\ Filed(C[2])
      BY <2>1, <2>2, FiledAsDeclared, Zenon DEF Member
    <2>4. /\ Before(C, "vault.expiring", "vault.get") /\ Before(C, "training.summary", "training.get")
          /\ Before(C, "ingestion.get", "ingestion.claimNext")
      BY <2>2 DEF Before, Entry
    <2> QED
      BY <2>2, <2>3, <2>4, Controllers DEF InOrder, C
  <1>9. InOrder(ComplianceController)
    <2> DEFINE C == ComplianceController
    <2>1. /\ Place("tenders", "POST", 3, "compliance-matrices", Member("matrix.generate"))
          /\ Place("tenders", "GET", 3, "compliance-matrices", Member("matrix.list"))
          /\ Place("tenders", "GET", 4, Id, Member("matrix.getByVersion"))
      BY DEF Place, Stands, Directory, UnderTenders, Wild, Overlaid, Member, Meets, Id, Value
    <2>2. /\ Len(C) = 3
          /\ Entry(C[1], "POST", <<"tenders", Id, "compliance-matrices">>,
                   "session", Staff, "matrix.generate")
          /\ Entry(C[2], "GET", <<"tenders", Id, "compliance-matrices">>,
                   "session", Staff, "matrix.list")
          /\ Entry(C[3], "GET", <<"tenders", Id, "compliance-matrices", Id>>,
                   "session", Staff, "matrix.getByVersion")
      BY DEF Entry, ComplianceController, Session, Jwt, Audited
    <2> HIDE DEF C
    <2>3. Filed(C[1]) /\ Filed(C[2]) /\ Filed(C[3])
      BY <2>1, <2>2, FiledAsDeclared, Zenon DEF Member
    <2>4. /\ Before(C, "vault.expiring", "vault.get") /\ Before(C, "training.summary", "training.get")
          /\ Before(C, "ingestion.get", "ingestion.claimNext")
      BY <2>2 DEF Before, Entry
    <2> QED
      BY <2>2, <2>3, <2>4, Controllers DEF InOrder, C
  <1>10. InOrder(ComplianceItemController)
    <2> DEFINE C == ComplianceItemController
    <2>1. /\ Place("compliance-items", "PATCH", 2, Id, Member("item.update"))
          /\ Place("compliance-items", "GET", 3, "evidence-links", Member("item.list"))
          /\ Place("compliance-items", "POST", 3, "evidence-links", Member("item.link"))
          /\ Place("compliance-items", "DELETE", 4, Id, Member("item.unlink"))
      BY DEF Place, Stands, Directory, Wild, Overlaid, Member, Meets, Id, Value
    <2>2. /\ Len(C) = 4
          /\ Entry(C[1], "PATCH", <<"compliance-items", Id>>, "session", Staff, "item.update")
          /\ Entry(C[2], "GET", <<"compliance-items", Id, "evidence-links">>,
                   "session", Staff, "item.list")
          /\ Entry(C[3], "POST", <<"compliance-items", Id, "evidence-links">>,
                   "session", Staff, "item.link")
          /\ Entry(C[4], "DELETE", <<"compliance-items", Id, "evidence-links", Id>>,
                   "session", Staff, "item.unlink")
      BY DEF Entry, ComplianceItemController, Session, Jwt, Audited
    <2> HIDE DEF C
    <2>3. Filed(C[1]) /\ Filed(C[2]) /\ Filed(C[3]) /\ Filed(C[4])
      BY <2>1, <2>2, FiledAsDeclared, Zenon DEF Member
    <2>4. /\ Before(C, "vault.expiring", "vault.get") /\ Before(C, "training.summary", "training.get")
          /\ Before(C, "ingestion.get", "ingestion.claimNext")
      BY <2>2 DEF Before, Entry
    <2> QED
      BY <2>2, <2>3, <2>4, Controllers DEF InOrder, C
  <1>11. InOrder(TenderRequirementController)
    <2> DEFINE C == TenderRequirementController
    <2>1. /\ Place("tenders", "GET", 3, "requirements", Member("requirement.list"))
          /\ Place("tenders", "POST", 3, "requirements", Member("requirement.createBulk"))
      BY DEF Place, Stands, Directory, UnderTenders, Wild, Overlaid, Member, Meets, Id, Value
    <2>2. /\ Len(C) = 2
          /\ Entry(C[1], "GET", <<"tenders", Id, "requirements">>,
                   "session", Staff, "requirement.list")
          /\ Entry(C[2], "POST", <<"tenders", Id, "requirements">>,
                   "session", Staff, "requirement.createBulk")
      BY DEF Entry, TenderRequirementController, Session, Jwt, Audited
    <2> HIDE DEF C
    <2>3. Filed(C[1]) /\ Filed(C[2])
      BY <2>1, <2>2, FiledAsDeclared, Zenon DEF Member
    <2>4. /\ Before(C, "vault.expiring", "vault.get") /\ Before(C, "training.summary", "training.get")
          /\ Before(C, "ingestion.get", "ingestion.claimNext")
      BY <2>2 DEF Before, Entry
    <2> QED
      BY <2>2, <2>3, <2>4, Controllers DEF InOrder, C
  <1>12. InOrder(ExportController)
    <2> DEFINE C == ExportController
    <2>1. /\ Place("tenders", "POST", 3, "submission-pack", Member("export.build"))
      BY DEF Place, Stands, Directory, UnderTenders, Wild, Overlaid, Member, Meets, Id, Value
    <2>2. /\ Len(C) = 1
          /\ Entry(C[1], "POST", <<"tenders", Id, "submission-pack">>,
                   "session", Staff, "export.build")
      BY DEF Entry, ExportController, Session, Jwt
    <2> HIDE DEF C
    <2>3. Filed(C[1])
      BY <2>1, <2>2, FiledAsDeclared, Zenon DEF Member
    <2>4. /\ Before(C, "vault.expiring", "vault.get") /\ Before(C, "training.summary", "training.get")
          /\ Before(C, "ingestion.get", "ingestion.claimNext")
      BY <2>2 DEF Before, Entry
    <2> QED
      BY <2>2, <2>3, <2>4, Controllers DEF InOrder, C
  <1>13. InOrder(PdplController)
    <2> DEFINE C == PdplController
    <2>1. /\ Place("pdpl", "GET", 2, "processing-inventory", Officer("pdpl.inventory"))
          /\ Place("pdpl", "GET", 2, "residency", Officer("pdpl.residency"))
      BY DEF Place, Stands, Directory, Wild, Overlaid, Officer, Meets, Id, Value
    <2>2. /\ Len(C) = 2
          /\ Entry(C[1], "GET", <<"pdpl", "processing-inventory">>,
                   "session", {"Owner", "DocController"}, "pdpl.inventory")
          /\ Entry(C[2], "GET", <<"pdpl", "residency">>,
                   "session", {"Owner", "DocController"}, "pdpl.residency")
      BY DEF Entry, PdplController, Session
    <2> HIDE DEF C
    <2>3. Filed(C[1]) /\ Filed(C[2])
      BY <2>1, <2>2, FiledAsDeclared, Zenon DEF Officer
    <2>4. /\ Before(C, "vault.expiring", "vault.get") /\ Before(C, "training.summary", "training.get")
          /\ Before(C, "ingestion.get", "ingestion.claimNext")
      BY <2>2 DEF Before, Entry
    <2> QED
      BY <2>2, <2>3, <2>4, Controllers DEF InOrder, C
  <1>14. InOrder(DataSubjectController)
    <2> DEFINE C == DataSubjectController
    <2>1. /\ Place("data-subject-requests", "POST", 1, "data-subject-requests", Member("dsr.create"))
          /\ Place("data-subject-requests", "GET", 1, "data-subject-requests", Member("dsr.list"))
          /\ Place("data-subject-requests", "GET", 2, Id, Member("dsr.get"))
          /\ Place("data-subject-requests", "POST", 3, "approve", Boss("dsr.approve"))
          /\ Place("data-subject-requests", "POST", 3, "deny", Boss("dsr.deny"))
          /\ Place("data-subject-requests", "POST", 3, "execute", Boss("dsr.execute"))
      BY DEF Place, Stands, Directory, UnderRequests, Wild, Overlaid, Boss, Member, Meets,
         Id, Value
    <2>2. /\ Len(C) = 6
          /\ Entry(C[1], "POST", <<"data-subject-requests">>, "session", Staff, "dsr.create")
          /\ Entry(C[2], "GET", <<"data-subject-requests">>, "session", Staff, "dsr.list")
          /\ Entry(C[3], "GET", <<"data-subject-requests", Id>>, "session", Staff, "dsr.get")
          /\ Entry(C[4], "POST", <<"data-subject-requests", Id, "approve">>,
                   "session", {"Owner"}, "dsr.approve")
          /\ Entry(C[5], "POST", <<"data-subject-requests", Id, "deny">>,
                   "session", {"Owner"}, "dsr.deny")
          /\ Entry(C[6], "POST", <<"data-subject-requests", Id, "execute">>,
                   "session", {"Owner"}, "dsr.execute")
      BY DEF Entry, DataSubjectController, Session, Jwt, Owner
    <2> HIDE DEF C
    <2>3. Filed(C[1]) /\ Filed(C[2]) /\ Filed(C[3]) /\ Filed(C[4]) /\ Filed(C[5]) /\ Filed(C[6])
      BY <2>1, <2>2, FiledAsDeclared, Zenon DEF Boss, Member
    <2>4. /\ Before(C, "vault.expiring", "vault.get") /\ Before(C, "training.summary", "training.get")
          /\ Before(C, "ingestion.get", "ingestion.claimNext")
      BY <2>2 DEF Before, Entry
    <2> QED
      BY <2>2, <2>3, <2>4, Controllers DEF InOrder, C
  <1>15. InOrder(ConsentLedgerController)
    <2> DEFINE C == ConsentLedgerController
    <2>1. /\ Place("consent-events", "POST", 1, "consent-events", Member("consent.create"))
          /\ Place("consent-events", "GET", 1, "consent-events", Member("consent.list"))
          /\ Place("consent-events", "GET", 2, "check", Member("consent.check"))
      BY DEF Place, Stands, Directory, Wild, Overlaid, Member, Meets, Id, Value
    <2>2. /\ Len(C) = 3
          /\ Entry(C[1], "POST", <<"consent-events">>, "session", Staff, "consent.create")
          /\ Entry(C[2], "GET", <<"consent-events">>, "session", Staff, "consent.list")
          /\ Entry(C[3], "GET", <<"consent-events", "check">>,
                   "session", Staff, "consent.check")
      BY DEF Entry, ConsentLedgerController, Session, Jwt
    <2> HIDE DEF C
    <2>3. Filed(C[1]) /\ Filed(C[2]) /\ Filed(C[3])
      BY <2>1, <2>2, FiledAsDeclared, Zenon DEF Member
    <2>4. /\ Before(C, "vault.expiring", "vault.get") /\ Before(C, "training.summary", "training.get")
          /\ Before(C, "ingestion.get", "ingestion.claimNext")
      BY <2>2 DEF Before, Entry
    <2> QED
      BY <2>2, <2>3, <2>4, Controllers DEF InOrder, C
  <1>16. InOrder(TenderAccessController)
    <2> DEFINE C == TenderAccessController
    <2>1. /\ Place("tenders", "GET", 3, "access", Member("access.list"))
          /\ Place("tenders", "POST", 3, "access", Boss("access.grant"))
          /\ Place("tenders", "DELETE", 4, Id, Boss("access.revoke"))
      BY DEF Place, Stands, Directory, UnderTenders, Wild, Overlaid, Boss, Member, Meets,
         Id, Value
    <2>2. /\ Len(C) = 3
          /\ Entry(C[1], "GET", <<"tenders", Id, "access">>, "session", Staff, "access.list")
          /\ Entry(C[2], "POST", <<"tenders", Id, "access">>,
                   "session", {"Owner"}, "access.grant")
          /\ Entry(C[3], "DELETE", <<"tenders", Id, "access", Id>>,
                   "session", {"Owner"}, "access.revoke")
      BY DEF Entry, TenderAccessController, Session, Jwt, Owner
    <2> HIDE DEF C
    <2>3. Filed(C[1]) /\ Filed(C[2]) /\ Filed(C[3])
      BY <2>1, <2>2, FiledAsDeclared, Zenon DEF Boss, Member
    <2>4. /\ Before(C, "vault.expiring", "vault.get") /\ Before(C, "training.summary", "training.get")
          /\ Before(C, "ingestion.get", "ingestion.claimNext")
      BY <2>2 DEF Before, Entry
    <2> QED
      BY <2>2, <2>3, <2>4, Controllers DEF InOrder, C
  <1>17. InOrder(RetentionActionController)
    <2> DEFINE C == RetentionActionController
    <2>1. /\ Place("retention-actions", "GET", 1, "retention-actions", Member("retention.list"))
          /\ Place("retention-actions", "GET", 2, Id, Member("retention.get"))
          /\ Place("retention-actions", "POST", 1, "retention-actions", Member("retention.request"))
          /\ Place("retention-actions", "POST", 3, "approve", Officer("retention.approve"))
          /\ Place("retention-actions", "POST", 3, "deny", Officer("retention.deny"))
          /\ Place("retention-actions", "POST", 2, "sweep", Boss("retention.sweep"))
      BY DEF Place, Stands, Directory, UnderRetention, Wild, Overlaid, Boss, Member,
         Officer, Meets, Id, Value
    <2>2. /\ Len(C) = 6
          /\ Entry(C[1], "GET", <<"retention-actions">>, "session", Staff, "retention.list")
          /\ Entry(C[2], "GET", <<"retention-actions", Id>>, "session", Staff, "retention.get")
          /\ Entry(C[3], "POST", <<"retention-actions">>, "session", Staff, "retention.request")
          /\ Entry(C[4], "POST", <<"retention-actions", Id, "approve">>,
                   "session", {"Owner", "DocController"}, "retention.approve")
          /\ Entry(C[5], "POST", <<"retention-actions", Id, "deny">>,
                   "session", {"Owner", "DocController"}, "retention.deny")
          /\ Entry(C[6], "POST", <<"retention-actions", "sweep">>,
                   "session", {"Owner"}, "retention.sweep")
      BY DEF Entry, RetentionActionController, Session, Jwt, Owner, Audited
    <2> HIDE DEF C
    <2>3. Filed(C[1]) /\ Filed(C[2]) /\ Filed(C[3]) /\ Filed(C[4]) /\ Filed(C[5]) /\ Filed(C[6])
      BY <2>1, <2>2, FiledAsDeclared, Zenon DEF Boss, Member, Officer
    <2>4. /\ Before(C, "vault.expiring", "vault.get") /\ Before(C, "training.summary", "training.get")
          /\ Before(C, "ingestion.get", "ingestion.claimNext")
      BY <2>2 DEF Before, Entry
    <2> QED
      BY <2>2, <2>3, <2>4, Controllers DEF InOrder, C
  <1>18. InOrder(RetentionScheduledController)
    <2> DEFINE C == RetentionScheduledController
    <2>1. /\ Place("retention-actions", "POST", 2, "sweep-scheduled", Holder("oidc", "retention.sweepScheduled"))
      BY DEF Place, Stands, Directory, UnderRetention, Wild, Overlaid, Holder, Meets, Id, Value
    <2>2. /\ Len(C) = 1
          /\ Entry(C[1], "POST", <<"retention-actions", "sweep-scheduled">>,
                   "oidc", {}, "retention.sweepScheduled")
      BY DEF Entry, RetentionScheduledController, Token
    <2> HIDE DEF C
    <2>3. Filed(C[1])
      BY <2>1, <2>2, FiledAsDeclared, Zenon DEF Holder
    <2>4. /\ Before(C, "vault.expiring", "vault.get") /\ Before(C, "training.summary", "training.get")
          /\ Before(C, "ingestion.get", "ingestion.claimNext")
      BY <2>2 DEF Before, Entry
    <2> QED
      BY <2>2, <2>3, <2>4, Controllers DEF InOrder, C
  <1>19. InOrder(DpoContactController)
    <2> DEFINE C == DpoContactController
    <2>1. /\ Place("dpo-contact", "GET", 1, "dpo-contact", Member("dpo.get"))
          /\ Place("dpo-contact", "PUT", 1, "dpo-contact", Boss("dpo.upsert"))
      BY DEF Place, Stands, Directory, Wild, Overlaid, Boss, Member, Meets, Id, Value
    <2>2. /\ Len(C) = 2
          /\ Entry(C[1], "GET", <<"dpo-contact">>, "session", Staff, "dpo.get")
          /\ Entry(C[2], "PUT", <<"dpo-contact">>, "session", {"Owner"}, "dpo.upsert")
      BY DEF Entry, DpoContactController, Session, Jwt, Owner, Audited
    <2> HIDE DEF C
    <2>3. Filed(C[1]) /\ Filed(C[2])
      BY <2>1, <2>2, FiledAsDeclared, Zenon DEF Boss, Member
    <2>4. /\ Before(C, "vault.expiring", "vault.get") /\ Before(C, "training.summary", "training.get")
          /\ Before(C, "ingestion.get", "ingestion.claimNext")
      BY <2>2 DEF Before, Entry
    <2> QED
      BY <2>2, <2>3, <2>4, Controllers DEF InOrder, C
  <1>20. InOrder(DpoTrainingController)
    <2> DEFINE C == DpoTrainingController
    <2>1. /\ Place("training-records", "GET", 1, "training-records", Boss("training.list"))
          /\ Place("training-records", "GET", 2, "summary", Boss("training.summary"))
          /\ Place("training-records", "GET", 2, Id, Boss("training.get"))
          /\ Place("training-records", "POST", 1, "training-records", Boss("training.create"))
          /\ Place("training-records", "PATCH", 2, Id, Boss("training.update"))
          /\ Place("training-records", "DELETE", 2, Id, Boss("training.remove"))
      BY DEF Place, Stands, Directory, UnderTraining, Wild, Overlaid, Boss, Meets, Id, Value
    <2>2. /\ Len(C) = 6
          /\ Entry(C[1], "GET", <<"training-records">>, "session", {"Owner"}, "training.list")
          /\ Entry(C[2], "GET", <<"training-records", "summary">>,
                   "session", {"Owner"}, "training.summary")
          /\ Entry(C[3], "GET", <<"training-records", Id>>,
                   "session", {"Owner"}, "training.get")
          /\ Entry(C[4], "POST", <<"training-records">>,
                   "session", {"Owner"}, "training.create")
          /\ Entry(C[5], "PATCH", <<"training-records", Id>>,
                   "session", {"Owner"}, "training.update")
          /\ Entry(C[6], "DELETE", <<"training-records", Id>>,
                   "session", {"Owner"}, "training.remove")
      BY DEF Entry, DpoTrainingController, Session, Owner, Audited
    <2> HIDE DEF C
    <2>3. Filed(C[1]) /\ Filed(C[2]) /\ Filed(C[3]) /\ Filed(C[4]) /\ Filed(C[5]) /\ Filed(C[6])
      BY <2>1, <2>2, FiledAsDeclared, Zenon DEF Boss
    <2>4. /\ Before(C, "vault.expiring", "vault.get") /\ Before(C, "training.summary", "training.get")
          /\ Before(C, "ingestion.get", "ingestion.claimNext")
      BY <2>2 DEF Before, Entry
    <2> QED
      BY <2>2, <2>3, <2>4, Controllers DEF InOrder, C
  <1>21. InOrder(AuthorityNotificationController)
    <2> DEFINE C == AuthorityNotificationController
    <2>1. /\ Place("authority-notifications", "POST", 3, Id, Boss("authority.trigger"))
      BY DEF Place, Stands, Directory, Wild, Overlaid, Boss, Meets, Id, Value
    <2>2. /\ Len(C) = 1
          /\ Entry(C[1], "POST", <<"authority-notifications", "incidents", Id>>,
                   "session", {"Owner"}, "authority.trigger")
      BY DEF Entry, AuthorityNotificationController, Session, Owner, Audited
    <2> HIDE DEF C
    <2>3. Filed(C[1])
      BY <2>1, <2>2, FiledAsDeclared, Zenon DEF Boss
    <2>4. /\ Before(C, "vault.expiring", "vault.get") /\ Before(C, "training.summary", "training.get")
          /\ Before(C, "ingestion.get", "ingestion.claimNext")
      BY <2>2 DEF Before, Entry
    <2> QED
      BY <2>2, <2>3, <2>4, Controllers DEF InOrder, C
  <1>22. InOrder(IngestionController)
    <2> DEFINE C == IngestionController
    <2>1. /\ Place("ingestions", "POST", 1, "ingestions", Member("ingestion.enqueue"))
          /\ Place("ingestions", "GET", 1, "ingestions", Member("ingestion.list"))
          /\ Place("ingestions", "GET", 2, Id, Member("ingestion.get"))
          /\ Place("ingestions", "GET", 2, "next-job", Holder("worker", "ingestion.claimNext"))
          /\ Place("ingestions", "POST", 3, "complete", Holder("worker", "ingestion.complete"))
          /\ Place("ingestions", "POST", 3, "fail", Holder("worker", "ingestion.fail"))
      BY DEF Place, Stands, Directory, UnderIngestions, Wild, Overlaid, Holder, Member,
         Meets, Id, Value
    <2>2. /\ Len(C) = 6
          /\ Entry(C[1], "POST", <<"ingestions">>, "session", Staff, "ingestion.enqueue")
          /\ Entry(C[2], "GET", <<"ingestions">>, "session", Staff, "ingestion.list")
          /\ Entry(C[3], "GET", <<"ingestions", Id>>, "session", Staff, "ingestion.get")
          /\ Entry(C[4], "GET", <<"ingestions", "next-job">>,
                   "worker", {}, "ingestion.claimNext")
          /\ Entry(C[5], "POST", <<"ingestions", Id, "complete">>,
                   "worker", {}, "ingestion.complete")
          /\ Entry(C[6], "POST", <<"ingestions", Id, "fail">>, "worker", {}, "ingestion.fail")
      BY DEF Entry, IngestionController, Session, Jwt, Token, Audited
    <2> HIDE DEF C
    <2>3. Filed(C[1]) /\ Filed(C[2]) /\ Filed(C[3]) /\ Filed(C[4]) /\ Filed(C[5]) /\ Filed(C[6])
      BY <2>1, <2>2, FiledAsDeclared, Zenon DEF Holder, Member
    <2>4. /\ Before(C, "vault.expiring", "vault.get") /\ Before(C, "training.summary", "training.get")
          /\ Before(C, "ingestion.get", "ingestion.claimNext")
      BY <2>2 DEF Before, Entry
    <2> QED
      BY <2>2, <2>3, <2>4, Controllers DEF InOrder, C
  <1>23. InOrder(WebhookController)
    <2> DEFINE C == WebhookController
    <2>1. /\ Place("webhooks", "POST", 3, "email", Holder("mail", "webhook.inboundEmail"))
      BY DEF Place, Stands, Directory, Wild, Overlaid, Holder, Meets, Id, Value
    <2>2. /\ Len(C) = 1
          /\ Entry(C[1], "POST", <<"webhooks", "inbound", "email">>,
                   "mail", {}, "webhook.inboundEmail")
      BY DEF Entry, WebhookController, Token
    <2> HIDE DEF C
    <2>3. Filed(C[1])
      BY <2>1, <2>2, FiledAsDeclared, Zenon DEF Holder
    <2>4. /\ Before(C, "vault.expiring", "vault.get") /\ Before(C, "training.summary", "training.get")
          /\ Before(C, "ingestion.get", "ingestion.claimNext")
      BY <2>2 DEF Before, Entry
    <2> QED
      BY <2>2, <2>3, <2>4, Controllers DEF InOrder, C
  <1>24. InOrder(InboundEmailController)
    <2> DEFINE C == InboundEmailController
    <2>1. /\ Place("webhooks", "POST", 2, "inbound-email", Anyone("inboundEmail.receive"))
      BY DEF Place, Stands, Directory, Wild, Overlaid, Anyone, Meets, Id, Value
    <2>2. /\ Len(C) = 1
          /\ Entry(C[1], "POST", <<"webhooks", "inbound-email">>,
                   "open", {}, "inboundEmail.receive")
      BY DEF Entry, InboundEmailController, Open
    <2> HIDE DEF C
    <2>3. Filed(C[1])
      BY <2>1, <2>2, FiledAsDeclared, Zenon DEF Anyone
    <2>4. /\ Before(C, "vault.expiring", "vault.get") /\ Before(C, "training.summary", "training.get")
          /\ Before(C, "ingestion.get", "ingestion.claimNext")
      BY <2>2 DEF Before, Entry
    <2> QED
      BY <2>2, <2>3, <2>4, Controllers DEF InOrder, C
  <1>25. InOrder(UsersController)
    <2> DEFINE C == UsersController
    <2>1. /\ Place("users", "GET", 1, "users", Boss("users.list"))
      BY DEF Place, Stands, Directory, Wild, Overlaid, Boss, Meets, Id, Value
    <2>2. /\ Len(C) = 1
          /\ Entry(C[1], "GET", <<"users">>, "session", {"Owner"}, "users.list")
      BY DEF Entry, UsersController, Session, Owner
    <2> HIDE DEF C
    <2>3. Filed(C[1])
      BY <2>1, <2>2, FiledAsDeclared, Zenon DEF Boss
    <2>4. /\ Before(C, "vault.expiring", "vault.get") /\ Before(C, "training.summary", "training.get")
          /\ Before(C, "ingestion.get", "ingestion.claimNext")
      BY <2>2 DEF Before, Entry
    <2> QED
      BY <2>2, <2>3, <2>4, Controllers DEF InOrder, C
  <1>26. InOrder(WebhookSubscriptionController)
    <2> DEFINE C == WebhookSubscriptionController
    <2>1. /\ Place("webhook-subscriptions", "GET", 1, "webhook-subscriptions", Boss("subscription.list"))
          /\ Place("webhook-subscriptions", "GET", 2, Id, Boss("subscription.get"))
          /\ Place("webhook-subscriptions", "POST", 1, "webhook-subscriptions", Boss("subscription.create"))
          /\ Place("webhook-subscriptions", "PATCH", 2, Id, Boss("subscription.update"))
          /\ Place("webhook-subscriptions", "POST", 3, "rotate-secret", Boss("subscription.rotate"))
          /\ Place("webhook-subscriptions", "DELETE", 2, Id, Boss("subscription.remove"))
      BY DEF Place, Stands, Directory, UnderSubscriptions, Wild, Overlaid, Boss, Meets,
         Id, Value
    <2>2. /\ Len(C) = 6
          /\ Entry(C[1], "GET", <<"webhook-subscriptions">>,
                   "session", {"Owner"}, "subscription.list")
          /\ Entry(C[2], "GET", <<"webhook-subscriptions", Id>>,
                   "session", {"Owner"}, "subscription.get")
          /\ Entry(C[3], "POST", <<"webhook-subscriptions">>,
                   "session", {"Owner"}, "subscription.create")
          /\ Entry(C[4], "PATCH", <<"webhook-subscriptions", Id>>,
                   "session", {"Owner"}, "subscription.update")
          /\ Entry(C[5], "POST", <<"webhook-subscriptions", Id, "rotate-secret">>,
                   "session", {"Owner"}, "subscription.rotate")
          /\ Entry(C[6], "DELETE", <<"webhook-subscriptions", Id>>,
                   "session", {"Owner"}, "subscription.remove")
      BY DEF Entry, WebhookSubscriptionController, Session, Owner, Audited
    <2> HIDE DEF C
    <2>3. Filed(C[1]) /\ Filed(C[2]) /\ Filed(C[3]) /\ Filed(C[4]) /\ Filed(C[5]) /\ Filed(C[6])
      BY <2>1, <2>2, FiledAsDeclared, Zenon DEF Boss
    <2>4. /\ Before(C, "vault.expiring", "vault.get") /\ Before(C, "training.summary", "training.get")
          /\ Before(C, "ingestion.get", "ingestion.claimNext")
      BY <2>2 DEF Before, Entry
    <2> QED
      BY <2>2, <2>3, <2>4, Controllers DEF InOrder, C
  <1>27. InOrder(BillingController)
    <2> DEFINE C == BillingController
    <2>1. /\ Place("plans", "GET", 1, "plans", Member("billing.plans"))
          /\ Place("subscription", "GET", 1, "subscription", Boss("billing.mySubscription"))
          /\ Place("usage", "GET", 2, "today", Boss("billing.todayUsage"))
          /\ Place("webhooks", "POST", 2, "stripe", Anyone("billing.stripeReceive"))
      BY DEF Place, Stands, Directory, Wild, Overlaid, Anyone, Boss, Member, Meets, Id, Value
    <2>2. /\ Len(C) = 4
          /\ Entry(C[1], "GET", <<"plans">>, "session", Staff, "billing.plans")
          /\ Entry(C[2], "GET", <<"subscription">>,
                   "session", {"Owner"}, "billing.mySubscription")
          /\ Entry(C[3], "GET", <<"usage", "today">>,
                   "session", {"Owner"}, "billing.todayUsage")
          /\ Entry(C[4], "POST", <<"webhooks", "stripe">>, "open", {}, "billing.stripeReceive")
      BY DEF Entry, BillingController, Session, Open, Jwt, Owner
    <2> HIDE DEF C
    <2>3. Filed(C[1]) /\ Filed(C[2]) /\ Filed(C[3]) /\ Filed(C[4])
      BY <2>1, <2>2, FiledAsDeclared, Zenon DEF Anyone, Boss, Member
    <2>4. /\ Before(C, "vault.expiring", "vault.get") /\ Before(C, "training.summary", "training.get")
          /\ Before(C, "ingestion.get", "ingestion.claimNext")
      BY <2>2 DEF Before, Entry
    <2> QED
      BY <2>2, <2>3, <2>4, Controllers DEF InOrder, C
  <1>28. InOrder(SectorClassifierController)
    <2> DEFINE C == SectorClassifierController
    <2>1. /\ Place("tenders", "POST", 4, "classify", Boss("sector.classify"))
          /\ Place("tenders", "PATCH", 3, "sector", Boss("sector.override"))
      BY DEF Place, Stands, Directory, UnderTenders, Wild, Overlaid, Boss, Meets, Id, Value
    <2>2. /\ Len(C) = 2
          /\ Entry(C[1], "POST", <<"tenders", Id, "sector", "classify">>,
                   "session", {"Owner"}, "sector.classify")
          /\ Entry(C[2], "PATCH", <<"tenders", Id, "sector">>,
                   "session", {"Owner"}, "sector.override")
      BY DEF Entry, SectorClassifierController, Session, Owner, Audited
    <2> HIDE DEF C
    <2>3. Filed(C[1]) /\ Filed(C[2])
      BY <2>1, <2>2, FiledAsDeclared, Zenon DEF Boss
    <2>4. /\ Before(C, "vault.expiring", "vault.get") /\ Before(C, "training.summary", "training.get")
          /\ Before(C, "ingestion.get", "ingestion.claimNext")
      BY <2>2 DEF Before, Entry
    <2> QED
      BY <2>2, <2>3, <2>4, Controllers DEF InOrder, C
  <1>29. InOrder(IngestionPortalController)
    <2> DEFINE C == IngestionPortalController
    <2>1. /\ Place("ingestion", "POST", 2, "tenders", Holder("apiKey", "portal.create"))
      BY DEF Place, Stands, Directory, Wild, Overlaid, Holder, Meets, Id, Value
    <2>2. /\ Len(C) = 1
          /\ Entry(C[1], "POST", <<"ingestion", "tenders">>, "apiKey", {}, "portal.create")
      BY DEF Entry, IngestionPortalController, Token
    <2> HIDE DEF C
    <2>3. Filed(C[1])
      BY <2>1, <2>2, FiledAsDeclared, Zenon DEF Holder
    <2>4. /\ Before(C, "vault.expiring", "vault.get") /\ Before(C, "training.summary", "training.get")
          /\ Before(C, "ingestion.get", "ingestion.claimNext")
      BY <2>2 DEF Before, Entry
    <2> QED
      BY <2>2, <2>3, <2>4, Controllers DEF InOrder, C
  <1>30. InOrder(IngestionApiKeyController)
    <2> DEFINE C == IngestionApiKeyController
    <2>1. /\ Place("admin", "GET", 2, "ingestion-keys", Boss("apiKey.list"))
          /\ Place("admin", "POST", 2, "ingestion-keys", Boss("apiKey.mint"))
          /\ Place("admin", "DELETE", 3, Id, Boss("apiKey.revoke"))
      BY DEF Place, Stands, Directory, UnderAdmin, Wild, Overlaid, Boss, Meets, Id, Value
    <2>2. /\ Len(C) = 3
          /\ Entry(C[1], "GET", <<"admin", "ingestion-keys">>,
                   "session", {"Owner"}, "apiKey.list")
          /\ Entry(C[2], "POST", <<"admin", "ingestion-keys">>,
                   "session", {"Owner"}, "apiKey.mint")
          /\ Entry(C[3], "DELETE", <<"admin", "ingestion-keys", Id>>,
                   "session", {"Owner"}, "apiKey.revoke")
      BY DEF Entry, IngestionApiKeyController, Session, Owner, Audited
    <2> HIDE DEF C
    <2>3. Filed(C[1]) /\ Filed(C[2]) /\ Filed(C[3])
      BY <2>1, <2>2, FiledAsDeclared, Zenon DEF Boss
    <2>4. /\ Before(C, "vault.expiring", "vault.get") /\ Before(C, "training.summary", "training.get")
          /\ Before(C, "ingestion.get", "ingestion.claimNext")
      BY <2>2 DEF Before, Entry
    <2> QED
      BY <2>2, <2>3, <2>4, Controllers DEF InOrder, C
  <1>31. InOrder(IngestionProxyController)
    <2> DEFINE C == IngestionProxyController
    <2>1. /\ Place("admin", "GET", 3, "runs", Boss("proxy.list"))
          /\ Place("admin", "POST", 3, "runs", Boss("proxy.trigger"))
      BY DEF Place, Stands, Directory, UnderAdmin, Wild, Overlaid, Boss, Meets, Id, Value
    <2>2. /\ Len(C) = 2
          /\ Entry(C[1], "GET", <<"admin", "ingestion", "runs">>,
                   "session", {"Owner"}, "proxy.list")
          /\ Entry(C[2], "POST", <<"admin", "ingestion", "runs">>,
                   "session", {"Owner"}, "proxy.trigger")
      BY DEF Entry, IngestionProxyController, Session, Owner, Audited
    <2> HIDE DEF C
    <2>3. Filed(C[1]) /\ Filed(C[2])
      BY <2>1, <2>2, FiledAsDeclared, Zenon DEF Boss
    <2>4. /\ Before(C, "vault.expiring", "vault.get") /\ Before(C, "training.summary", "training.get")
          /\ Before(C, "ingestion.get", "ingestion.claimNext")
      BY <2>2 DEF Before, Entry
    <2> QED
      BY <2>2, <2>3, <2>4, Controllers DEF InOrder, C
  <1> QED
    BY <1>1, <1>2, <1>3, <1>4, <1>5, <1>6, <1>7, <1>8, <1>9, <1>10, <1>11, <1>12, <1>13,
       <1>14, <1>15, <1>16, <1>17, <1>18, <1>19, <1>20, <1>21, <1>22, <1>23, <1>24,
       <1>25, <1>26, <1>27, <1>28, <1>29, <1>30, <1>31

\* One table after another.
LEMMA BeforeConcat ==
  ASSUME NEW S, NEW s \in Seq(S), NEW t \in Seq(S), NEW h, NEW g,
         Before(s, h, g), Before(t, h, g)
  PROVE  Before(s \o t, h, g)
  <1> SUFFICES ASSUME NEW b \in 1..Len(s \o t), (s \o t)[b].h = g
               PROVE  \E a \in 1..Len(s \o t) : a < b /\ (s \o t)[a].h = h
    BY DEF Before
  <1>1. /\ Len(s \o t) = Len(s) + Len(t) /\ Len(s) \in Nat /\ Len(t) \in Nat
        /\ \A a \in 1..Len(s) : (s \o t)[a] = s[a]
        /\ \A a \in 1..Len(t) : (s \o t)[Len(s) + a] = t[a]
    OBVIOUS
  <1>2. CASE b \in 1..Len(s)
    <2>1. PICK a \in 1..Len(s) : a < b /\ s[a].h = h
      BY <1>1, <1>2 DEF Before
    <2> QED
      BY <1>1, <2>1
  <1>3. CASE b \notin 1..Len(s)
    <2> DEFINE d == b - Len(s)
    <2>1. d \in 1..Len(t) /\ b = Len(s) + d
      BY <1>1, <1>3
    <2> HIDE DEF d
    <2>2. t[d].h = g
      BY <1>1, <2>1
    <2>3. PICK a \in 1..Len(t) : a < d /\ t[a].h = h
      BY <2>1, <2>2 DEF Before
    <2>4. Len(s) + a \in 1..Len(s \o t) /\ Len(s) + a < b /\ (s \o t)[Len(s) + a].h = h
      BY <1>1, <2>1, <2>3
    <2> QED
      BY <2>4
  <1> QED
    BY <1>2, <1>3

\* Tables in order make a table in order.
LEMMA InOrderConcat ==
  ASSUME NEW s, NEW t, InOrder(s), InOrder(t)
  PROVE  InOrder(s \o t)
  <1>1. PICK S : s \in Seq(S)
    BY DEF InOrder, Sound, IsSeq
  <1>2. PICK T : t \in Seq(T)
    BY DEF InOrder, Sound, IsSeq
  <1> DEFINE U == S \cup T
  <1>3. s \in Seq(U) /\ t \in Seq(U)
    BY <1>1, <1>2
  <1> HIDE DEF U
  <1>4. Sound(s \o t)
    BY SoundConcat DEF InOrder
  <1>5. \A n \in 1..Len(s \o t) : Filed((s \o t)[n])
    BY <1>3 DEF InOrder
  <1>6. \A h, g : Before(s, h, g) /\ Before(t, h, g) => Before(s \o t, h, g)
    BY <1>3, BeforeConcat
  <1> QED
    BY <1>4, <1>5, <1>6 DEF InOrder

\* The whole application.
LEMMA AppModuleInOrder == InOrder(AppModule)
  BY ControllersInOrder, InOrderConcat, Zenon DEF AppModule

-----------------------------------------------------------------------------
(* The first match. *)

\* The path of a request made for a filed route.
LEMMA ConcretePath ==
  ASSUME NEW s, Filed(s)
  PROVE  /\ Len(s.p) \in 1..4 /\ Len(Concrete(s)) = Len(s.p)
         /\ Concrete(s)[1] = s.p[1]
         /\ Concrete(s)[Len(s.p)] = IF LastOf(s) = Id THEN Value ELSE LastOf(s)
  <1> DEFINE p == s.p
             n == Len(p)
  <1>1. Concrete(s) = [i \in 1..n |-> IF p[i] = Id THEN Value ELSE p[i]]
    BY DEF Concrete
  <1>2. n \in 1..4 /\ p[1] # Id /\ LastOf(s) = p[n]
    BY DEF Filed, Place, LastOf
  <1> HIDE DEF p, n
  <1>3. Len([i \in 1..n |-> IF p[i] = Id THEN Value ELSE p[i]]) = n
    BY <1>2
  <1>4. 1 \in 1..n /\ n \in 1..n
    BY <1>2
  <1>5. Concrete(s)[1] = p[1] /\ Concrete(s)[n] = IF p[n] = Id THEN Value ELSE p[n]
    BY <1>1, <1>2, <1>4
  <1> QED
    BY <1>1, <1>2, <1>3, <1>5 DEF p, n

\* A route that matches a request made for another has its length and its first
\* segment, and its last one where that is not a parameter over a literal.
LEMMA MatchingPlaces ==
  ASSUME NEW r, NEW s, Filed(r), Filed(s), Matches(r.p, Concrete(s))
  PROVE  /\ Len(r.p) = Len(s.p) /\ r.p[1] = s.p[1]
         /\ \/ LastOf(r) = LastOf(s)
            \/ LastOf(r) = Id /\ LastOf(s) # Id
  <1>1. /\ Len(s.p) \in 1..4 /\ Len(Concrete(s)) = Len(s.p)
        /\ Concrete(s)[1] = s.p[1]
        /\ Concrete(s)[Len(s.p)] = IF LastOf(s) = Id THEN Value ELSE LastOf(s)
    BY ConcretePath
  <1>2. /\ Len(r.p) = Len(s.p)
        /\ \A i \in 1..Len(r.p) : r.p[i] \in {Id, Concrete(s)[i]}
    BY <1>1 DEF Matches
  <1>3. r.p[1] # Id /\ LastOf(r) # Value
    BY DEF Filed, Place
  <1>4. 1 \in 1..Len(r.p) /\ Len(r.p) \in 1..Len(r.p)
    BY <1>1, <1>2
  <1>5. r.p[1] \in {Id, s.p[1]}
    BY <1>1, <1>2, <1>4
  <1>6. LastOf(r) \in {Id, IF LastOf(s) = Id THEN Value ELSE LastOf(s)}
    BY <1>1, <1>2, <1>4 DEF LastOf
  <1> QED
    BY <1>2, <1>3, <1>5, <1>6

\* Two routes filed at one place are met as one.
LEMMA SamePlace ==
  ASSUME NEW r, NEW s, Filed(r), Filed(s), r.m = s.m, Len(r.p) = Len(s.p),
         r.p[1] = s.p[1], LastOf(r) = LastOf(s)
  PROVE  Met(r) = Met(s)
  BY DEF Filed, Place

\* Where no parameter lies over a literal, only the route itself can answer.
LEMMA OnlyOneMatches ==
  ASSUME NEW r, NEW s, Filed(r), Filed(s), r.m = s.m, Matches(r.p, Concrete(s)),
         s.h \notin Overlaid
  PROVE  Met(r) = Met(s)
  <1>1. /\ Len(r.p) = Len(s.p) /\ r.p[1] = s.p[1]
        /\ \/ LastOf(r) = LastOf(s)
           \/ LastOf(r) = Id /\ LastOf(s) # Id
    BY MatchingPlaces
  <1>2. LastOf(r) = Id => Wild(r.p[1], r.m, Len(r.p))
    BY DEF Filed, Place
  <1>3. Met(s).h = s.h
    BY DEF Met
  <1>4. LastOf(s) # Id => ~Wild(s.p[1], s.m, Len(s.p))
    BY <1>3 DEF Filed, Place
  <1>5. LastOf(r) = LastOf(s)
    BY <1>1, <1>2, <1>4
  <1> QED
    BY <1>1, <1>5, SamePlace

\* What lies over the three literals.
Cover(h) ==
    CASE h = "vault.expiring" -> Member("vault.get")
      [] h = "training.summary" -> Boss("training.get")
      [] h = "ingestion.claimNext" -> Member("ingestion.get")

\* There the parameter route can answer as well.
LEMMA OneOfTwoMatches ==
  ASSUME NEW r, NEW s, Filed(r), Filed(s), r.m = s.m, Matches(r.p, Concrete(s)),
         s.h \in Overlaid
  PROVE  Met(r) \in {Met(s), Cover(s.h)}
  <1>1. /\ Len(r.p) = Len(s.p) /\ r.p[1] = s.p[1]
        /\ \/ LastOf(r) = LastOf(s)
           \/ LastOf(r) = Id /\ LastOf(s) # Id
    BY MatchingPlaces
  <1>2. Met(s).h = s.h
    BY DEF Met
  <1>3. /\ Stands(s.h, s.p[1], s.m, Len(s.p), LastOf(s))
        /\ Met(r) = Directory(r.p[1], r.m, Len(r.p), LastOf(r))
    BY <1>2 DEF Filed, Place
  <1>4. CASE LastOf(r) = LastOf(s)
    BY <1>1, <1>4, SamePlace
  <1>5. CASE LastOf(r) = Id
    <2>1. CASE s.h = "vault.expiring"
      <3>1. s.p[1] = "documents" /\ s.m = "GET" /\ Len(s.p) = 2
        BY <1>3, <2>1 DEF Stands
      <3>2. Directory("documents", "GET", 2, Id) = Member("vault.get")
        BY DEF Directory, UnderDocuments, Id
      <3>3. Met(r) = Member("vault.get")
        BY <1>1, <1>3, <1>5, <3>1, <3>2
      <3> QED
        BY <2>1, <3>3 DEF Cover
    <2>2. CASE s.h = "training.summary"
      <3>1. s.p[1] = "training-records" /\ s.m = "GET" /\ Len(s.p) = 2
        BY <1>3, <2>2 DEF Stands
      <3>2. Directory("training-records", "GET", 2, Id) = Boss("training.get")
        BY DEF Directory, UnderTraining, Id
      <3>3. Met(r) = Boss("training.get")
        BY <1>1, <1>3, <1>5, <3>1, <3>2
      <3> QED
        BY <2>2, <3>3 DEF Cover
    <2>3. CASE s.h = "ingestion.claimNext"
      <3>1. s.p[1] = "ingestions" /\ s.m = "GET" /\ Len(s.p) = 2
        BY <1>3, <2>3 DEF Stands
      <3>2. Directory("ingestions", "GET", 2, Id) = Member("ingestion.get")
        BY DEF Directory, UnderIngestions, Id
      <3>3. Met(r) = Member("ingestion.get")
        BY <1>1, <1>3, <1>5, <3>1, <3>2
      <3> QED
        BY <2>3, <3>3 DEF Cover
    <2> QED
      BY <2>1, <2>2, <2>3 DEF Overlaid
  <1> QED
    BY <1>1, <1>4, <1>5

\* A route matches a request for another with its first segment and its last, a
\* literal, when both have two.
LEMMA PairMatches ==
  ASSUME NEW r, NEW s, Filed(s), Len(r.p) = 2, Len(s.p) = 2, r.p[1] = s.p[1],
         LastOf(s) # Id, LastOf(r) \in {Id, LastOf(s)}
  PROVE  Matches(r.p, Concrete(s))
  <1>1. Len(Concrete(s)) = 2 /\ Concrete(s)[1] = s.p[1] /\ Concrete(s)[2] = LastOf(s)
    BY ConcretePath
  <1>2. LastOf(r) = r.p[2]
    BY DEF LastOf
  <1>3. \A i \in 1..2 : i = 1 \/ i = 2
    OBVIOUS
  <1> QED
    BY <1>1, <1>2, <1>3 DEF Matches

\* Where a filed route with one of the four handlers stands.
LEMMA StandsThere ==
  ASSUME NEW r, Filed(r)
  PROVE  Stands(r.h, r.p[1], r.m, Len(r.p), LastOf(r))
  <1>1. Met(r).h = r.h
    BY DEF Met
  <1> QED
    BY <1>1 DEF Filed, Place

\* Of two handlers at such a place, a literal over which the other lies, the one
\* that comes first answers.
LEMMA FirstAnswers ==
  ASSUME NEW h \in Handlers, h \in Overlaid, NEW first, NEW second,
         {first, second} = {h, Cover(h).h}, Before(AppModule, first, second),
         first \in Overlaid \cup {"ingestion.get"}
  PROVE  Answering(RouteOf(h)).h = first
  <1> DEFINE s == RouteOf(h)
             C == Candidates(AppModule, s.m, Concrete(s))
  <1>1. PICK k \in C : /\ k \in 1..Len(AppModule) /\ Answering(s) = AppModule[k]
                       /\ \A l \in C : k <= l
    BY FirstMatch
  <1>2. s.h = h /\ Filed(s)
    BY RouteOfHandler, AppModuleInOrder DEF InOrder
  <1> DEFINE r == AppModule[k]
  <1>3. r.m = s.m /\ Matches(r.p, Concrete(s)) /\ Filed(r)
    BY <1>1, AppModuleInOrder DEF Candidates, InOrder
  <1>4. r.h \in {h, Cover(h).h}
    <2> HIDE DEF r, s
    <2>1. Met(r) \in {Met(s), Cover(s.h)}
      BY <1>2, <1>3, OneOfTwoMatches
    <2>2. Met(r).h = r.h /\ Met(s).h = s.h
      BY DEF Met
    <2> QED
      BY <1>2, <2>1, <2>2
  <1>5. ASSUME r.h = second PROVE FALSE
    <2>1. PICK a \in 1..Len(AppModule) : a < k /\ AppModule[a].h = first
      BY <1>1, <1>5 DEF Before
    <2> DEFINE q == AppModule[a]
    <2>2. Filed(q) /\ q.h = first
      BY <2>1, AppModuleInOrder DEF InOrder
    <2>3. /\ Stands(h, s.p[1], s.m, Len(s.p), LastOf(s))
          /\ Stands(first, q.p[1], q.m, Len(q.p), LastOf(q))
      BY <1>2, <2>2, StandsThere
    <2> HIDE DEF q, s
    <2>4. first \in {h, Cover(h).h}
      OBVIOUS
    <2>5. first = h \/ (h = "ingestion.claimNext" /\ first = "ingestion.get")
      <3>1. /\ Cover("vault.expiring").h = "vault.get" /\ Cover("training.summary").h = "training.get"
            /\ Cover("ingestion.claimNext").h = "ingestion.get"
        BY DEF Cover, Member, Boss, Meets
      <3> QED
        BY <2>4, <3>1 DEF Overlaid
    <2>6. /\ q.m = s.m /\ Len(q.p) = 2 /\ Len(s.p) = 2 /\ q.p[1] = s.p[1]
          /\ LastOf(s) # Id /\ LastOf(q) \in {Id, LastOf(s)}
      BY <2>3, <2>5 DEF Stands, Overlaid, Id
    <2>7. Matches(q.p, Concrete(s))
      BY <1>2, <2>6, PairMatches
    <2>8. a \in C
      BY <2>6, <2>7 DEF Candidates, q
    <2> HIDE DEF C
    <2> QED
      BY <1>1, <2>1, <2>8
  <1> HIDE DEF r, s
  <1> QED
    BY <1>1, <1>4, <1>5 DEF r, s

\* The route that answers a request made for h, shadowed or not.
LEMMA WhoAnswers ==
  ASSUME NEW h \in Handlers
  PROVE  /\ h # "ingestion.claimNext" => Met(Answering(RouteOf(h))) = Met(RouteOf(h))
         /\ h = "ingestion.claimNext" => Met(Answering(RouteOf(h))) = Member("ingestion.get")
  <1> DEFINE s == RouteOf(h)
  <1>1. PICK k \in Candidates(AppModule, s.m, Concrete(s)) :
                 k \in 1..Len(AppModule) /\ Answering(s) = AppModule[k]
    BY FirstMatch
  <1> DEFINE r == AppModule[k]
  <1>2. s.h = h /\ Filed(s)
    BY RouteOfHandler, AppModuleInOrder DEF InOrder
  <1>3. r.m = s.m /\ Matches(r.p, Concrete(s)) /\ Filed(r)
    BY <1>1, AppModuleInOrder DEF Candidates, InOrder
  <1> HIDE DEF r, s
  <1>4. Met(r).h = r.h /\ Met(s).h = s.h
    BY DEF Met
  <1>5. Answering(RouteOf(h)) = r /\ RouteOf(h) = s
    BY <1>1 DEF r, s
  <1>6. CASE h \notin Overlaid
    <2>1. Met(r) = Met(s)
      BY <1>2, <1>3, <1>6, OnlyOneMatches
    <2> QED
      BY <1>5, <1>6, <2>1 DEF Overlaid
  <1>7. CASE h \in Overlaid
    <2>1. Met(r) \in {Met(s), Cover(h)}
      BY <1>2, <1>3, <1>7, OneOfTwoMatches
    <2>2. /\ Cover("vault.expiring").h = "vault.get" /\ Cover("training.summary").h = "training.get"
          /\ Cover("ingestion.claimNext").h = "ingestion.get"
          /\ Cover("ingestion.claimNext") = Member("ingestion.get")
      BY DEF Cover, Member, Boss, Meets
    <2>3. /\ Before(AppModule, "vault.expiring", "vault.get")
          /\ Before(AppModule, "training.summary", "training.get")
          /\ Before(AppModule, "ingestion.get", "ingestion.claimNext")
      BY AppModuleInOrder DEF InOrder
    <2>4. CASE h = "vault.expiring"
      <3>1. Answering(RouteOf(h)).h = h
        BY <1>7, <2>2, <2>3, <2>4, FirstAnswers DEF Overlaid
      <3> QED
        BY <1>2, <1>4, <1>5, <2>1, <2>2, <2>4, <3>1
    <2>5. CASE h = "training.summary"
      <3>1. Answering(RouteOf(h)).h = h
        BY <1>7, <2>2, <2>3, <2>5, FirstAnswers DEF Overlaid
      <3> QED
        BY <1>2, <1>4, <1>5, <2>1, <2>2, <2>5, <3>1
    <2>6. CASE h = "ingestion.claimNext"
      <3>1. Answering(RouteOf(h)).h = "ingestion.get"
        BY <1>7, <2>2, <2>3, <2>6, FirstAnswers
      <3> QED
        BY <1>2, <1>4, <1>5, <2>1, <2>2, <2>6, <3>1
    <2> QED
      BY <1>7, <2>4, <2>5, <2>6 DEF Overlaid
  <1> QED
    BY <1>6, <1>7

\* The guards look at the gate and the roles of a route and at nothing else.
LEMMA AdmittedAlike ==
  ASSUME NEW r, NEW s, NEW c, Met(r) = Met(s)
  PROVE  r.h = s.h /\ (Admits(r, c) <=> Admits(s, c))
  <1>1. r.h = s.h /\ r.gate = s.gate /\ r.roles = s.roles
    BY DEF Met
  <1> QED
    BY <1>1 DEF Admits, RolesGuard, SharedTokenGuard, SchedulerOidcGuard, IngestionTokenGuard

\* The request made for h as the front answers it.
Answer(c, h) ==
    [pc |-> IF Admits(Answering(RouteOf(h)), c) THEN "handler" ELSE "refused",
     asked |-> h, got |-> Answering(RouteOf(h)).h,
     user |-> Principal(Answering(RouteOf(h)), c), entitled |-> Admits(RouteOf(h), c)]

\* A step leaves what a caller waits for, ends it, or begins it.
LEMMA CallsStep ==
  ASSUME [Next]_vars, calls = [c \in Callers |-> calls[c]], NEW c \in Callers
  PROVE  \/ calls'[c] = calls[c]
         \/ calls'[c] = NoCall
         \/ \E h \in Asked : calls'[c] = Answer(c, h)
  <1>1. ASSUME NEW d \in Callers, NEW k, calls' = [calls EXCEPT ![d] = k]
        PROVE  calls'[c] = calls[c] \/ (c = d /\ calls'[c] = k)
    BY <1>1
  <1>2. CASE UNCHANGED vars
    BY <1>2 DEF vars
  <1>3. ASSUME NEW b \in Browsers, NEW u \in Users, Login(b, u) \/ LoginFails(b, u)
        PROVE  calls' = calls
    BY <1>3 DEF Login, LoginFails
  <1>4. ASSUME NEW b \in Browsers, Logout(b) \/ Expire(b)
        PROVE  calls' = calls
    BY <1>4 DEF Logout, Expire
  <1>5. ASSUME NEW d \in Callers, NEW h \in Asked, Request(d, h)
        PROVE  calls' = [calls EXCEPT ![d] = Answer(d, h)]
    BY <1>5, Zenon DEF Request, Answer
  <1>6. ASSUME NEW d \in Callers, Succeed(d) \/ Throw(d)
        PROVE  calls' = [calls EXCEPT ![d] = NoCall]
    BY <1>6 DEF Succeed, Throw
  <1>7. ASSUME NEW e \in writes, WriteEvent(e) PROVE calls' = calls
    BY <1>7 DEF WriteEvent
  <1>8. CASE \E d \in Callers, h \in Asked : Request(d, h)
    BY <1>1, <1>5, <1>8
  <1>9. CASE \E d \in Callers : Succeed(d) \/ Throw(d)
    BY <1>1, <1>6, <1>9
  <1> QED
    BY <1>2, <1>3, <1>4, <1>7, <1>8, <1>9 DEF Next

-----------------------------------------------------------------------------
(* Who reaches what. *)

\* Reached: of all routes of the application, requested in whatever order by
\* whomever, only the one of claimNext can be kept from a caller that its guards
\* would let in; every other request ends in the handler it was made for
\* (the controllers of app.module.ts and the order of their routes).
THEOREM RoutesAreReached == "ingestion.claimNext" \notin Asked => (Spec => []Reached)
  <1> SUFFICES ASSUME "ingestion.claimNext" \notin Asked
               PROVE  Spec => []Reached
    OBVIOUS
  <1>1. Init => FrontInv /\ Reached
    BY DEF Init, NoCall, FrontInv, AuditedOperationsLeaveEvents, Reached
  <1>2. Reached /\ FrontInv /\ [Next]_vars => Reached'
    <2> SUFFICES ASSUME Reached, FrontInv, [Next]_vars, NEW c \in Callers, calls'[c].entitled
                 PROVE  calls'[c].pc = "handler" /\ calls'[c].got = calls'[c].asked
      BY DEF Reached
    <2>1. CASE calls'[c] = calls[c]
      BY <2>1 DEF Reached
    <2>2. CASE calls'[c] = NoCall
      BY <2>2 DEF NoCall
    <2>3. ASSUME NEW h \in Asked, calls'[c] = Answer(c, h)
          PROVE  calls'[c].pc = "handler" /\ calls'[c].got = calls'[c].asked
      <3> DEFINE r == Answering(RouteOf(h))
                 s == RouteOf(h)
      <3>1. h \in Handlers /\ h # "ingestion.claimNext"
        BY FrontAssumption DEF Handlers
      <3>2. Met(r) = Met(s) /\ s.h = h
        BY <3>1, WhoAnswers, RouteOfHandler
      <3> HIDE DEF r, s
      <3>3. r.h = h /\ (Admits(r, c) <=> Admits(s, c))
        BY <3>2, AdmittedAlike
      <3>4. Admits(s, c)
        BY <2>3 DEF r, s, Answer
      <3> QED
        BY <2>3, <3>3, <3>4 DEF r, s, Answer
    <2> QED
      BY <2>1, <2>2, <2>3, CallsStep DEF FrontInv
  <1> QED
    BY <1>1, <1>2, FrontStep, PTL DEF Spec

\* claimNext runs for nobody, and who asks for it without a session is refused.
ClaimShadowed ==
    \A c \in Callers : calls[c].pc # "idle" =>
        /\ calls[c].got # "ingestion.claimNext"
        /\ calls[c].asked = "ingestion.claimNext" /\ c \notin Browsers => calls[c].pc = "refused"

\* The route GET /ingestions/next-job is dead: no request of anybody reaches its
\* handler, since GET /ingestions/:id is declared before it and takes its requests;
\* and a worker, which has a token and no session, is refused there
\* (IngestionController).
THEOREM ClaimNextIsShadowed == Spec => []ClaimShadowed
  <1>1. Init => FrontInv /\ ClaimShadowed
    BY DEF Init, NoCall, FrontInv, AuditedOperationsLeaveEvents, ClaimShadowed
  <1>2. ClaimShadowed /\ FrontInv /\ [Next]_vars => ClaimShadowed'
    <2> SUFFICES ASSUME ClaimShadowed, FrontInv, [Next]_vars, NEW c \in Callers,
                        calls'[c].pc # "idle"
                 PROVE  /\ calls'[c].got # "ingestion.claimNext"
                        /\ calls'[c].asked = "ingestion.claimNext" /\ c \notin Browsers
                             => calls'[c].pc = "refused"
      BY DEF ClaimShadowed
    <2>1. CASE calls'[c] = calls[c]
      BY <2>1 DEF ClaimShadowed
    <2>2. CASE calls'[c] = NoCall
      BY <2>2 DEF NoCall
    <2>3. ASSUME NEW h \in Asked, calls'[c] = Answer(c, h)
          PROVE  /\ calls'[c].got # "ingestion.claimNext"
                 /\ calls'[c].asked = "ingestion.claimNext" /\ c \notin Browsers
                      => calls'[c].pc = "refused"
      <3> DEFINE r == Answering(RouteOf(h))
                 s == RouteOf(h)
      <3>1. h \in Handlers
        BY FrontAssumption DEF Handlers
      <3>2. /\ s.h = h
            /\ h # "ingestion.claimNext" => Met(r) = Met(s)
            /\ h = "ingestion.claimNext" => Met(r) = Member("ingestion.get")
        BY <3>1, WhoAnswers, RouteOfHandler
      <3> HIDE DEF r, s
      <3>3. CASE h # "ingestion.claimNext"
        <4>1. r.h = h
          BY <3>2, <3>3, AdmittedAlike
        <4> QED
          BY <2>3, <3>3, <4>1 DEF r, Answer
      <3>4. CASE h = "ingestion.claimNext"
        <4>1. r.h = "ingestion.get" /\ r.gate = "session"
          BY <3>2, <3>4 DEF Met, Member, Meets
        <4>2. c \notin Browsers => ~Admits(r, c)
          BY <4>1 DEF Admits, RolesGuard, Presented, SharedTokenGuard, SchedulerOidcGuard,
                      IngestionTokenGuard
        <4> QED
          BY <2>3, <4>1, <4>2 DEF r, Answer
      <3> QED
        BY <3>3, <3>4
    <2> QED
      BY <2>1, <2>2, <2>3, CallsStep DEF FrontInv
  <1> QED
    BY <1>1, <1>2, FrontStep, PTL DEF Spec

\* A handler runs for a user with one of the roles of its own route, or for the
\* holder of that route's credential.
OwnGuardsPassed ==
    \A c \in Callers : calls[c].pc = "handler" =>
        LET r == RouteOf(calls[c].got)
        IN  /\ r.gate = "session" => calls[c].user # NULL /\ RoleOf[calls[c].user] \in r.roles
            /\ r.gate \notin {"open", "session"} => c = r.gate

\* The route that answers has the guards of the route its handler is known by.
LEMMA OwnGuards ==
  ASSUME NEW h \in Handlers
  PROVE  Met(RouteOf(Answering(RouteOf(h)).h)) = Met(Answering(RouteOf(h)))
  <1> DEFINE r == Answering(RouteOf(h))
             s == RouteOf(h)
  <1>1. /\ s.h = h /\ r.h \in Handlers
        /\ h # "ingestion.claimNext" => Met(r) = Met(s)
        /\ h = "ingestion.claimNext" => Met(r) = Member("ingestion.get")
    BY WhoAnswers, RouteOfHandler, SomeRouteAnswers
  <1>2. Met(r).h = r.h /\ Met(s).h = s.h
    BY DEF Met
  <1> HIDE DEF r
  <1>3. CASE h # "ingestion.claimNext"
    <2>1. Met(r) = Met(s) /\ r.h = h
      BY <1>1, <1>2, <1>3
    <2> QED
      BY <2>1 DEF r
  <1>4. CASE h = "ingestion.claimNext"
    <2>1. Met(r) = Member("ingestion.get") /\ Member("ingestion.get").h = "ingestion.get"
      BY <1>1, <1>4 DEF Member, Meets
    <2>2. r.h = "ingestion.get"
      BY <1>2, <2>1
    <2> DEFINE q == RouteOf("ingestion.get")
    <2>3. q.h = "ingestion.get" /\ Filed(q)
      BY <1>1, <2>2, RouteOfHandler, AppModuleInOrder DEF InOrder
    <2> HIDE DEF q
    <2>4. q.p[1] = "ingestions" /\ q.m = "GET" /\ Len(q.p) = 2 /\ LastOf(q) = Id
      <3>1. Stands("ingestion.get", q.p[1], q.m, Len(q.p), LastOf(q))
        BY <2>3, StandsThere
      <3> QED
        BY <3>1 DEF Stands
    <2>5. Met(q) = Directory("ingestions", "GET", 2, Id)
      BY <2>3, <2>4 DEF Filed, Place
    <2>6. Directory("ingestions", "GET", 2, Id) = Member("ingestion.get")
      BY DEF Directory, UnderIngestions, Id
    <2>7. RouteOf(r.h) = q
      BY <2>2 DEF q
    <2> QED
      BY <2>1, <2>5, <2>6, <2>7 DEF r
  <1> QED
    BY <1>3, <1>4

\* No handler runs under the guards of another route: although a request may be
\* taken by a route it was not made for, whoever gets into a handler has passed the
\* guards declared on it, with a role it names or with its credential (JwtAuthGuard,
\* RolesGuard and the guards of the machine callers).
THEOREM HandlersAreGuarded == Spec => []OwnGuardsPassed
  <1>1. Init => FrontInv /\ OwnGuardsPassed
    BY DEF Init, NoCall, FrontInv, AuditedOperationsLeaveEvents, OwnGuardsPassed
  <1>2. OwnGuardsPassed /\ FrontInv /\ [Next]_vars => OwnGuardsPassed'
    <2> SUFFICES ASSUME OwnGuardsPassed, FrontInv, [Next]_vars, NEW c \in Callers,
                        calls'[c].pc = "handler"
                 PROVE  LET r == RouteOf(calls'[c].got)
                        IN  /\ r.gate = "session" =>
                                 calls'[c].user # NULL /\ RoleOf[calls'[c].user] \in r.roles
                            /\ r.gate \notin {"open", "session"} => c = r.gate
      BY Zenon DEF OwnGuardsPassed, RouteOf
    <2>1. CASE calls'[c] = calls[c]
      BY <2>1 DEF OwnGuardsPassed
    <2>2. CASE calls'[c] = NoCall
      BY <2>2 DEF NoCall
    <2>3. ASSUME NEW h \in Asked, calls'[c] = Answer(c, h)
          PROVE  LET r == RouteOf(calls'[c].got)
                 IN  /\ r.gate = "session" =>
                          calls'[c].user # NULL /\ RoleOf[calls'[c].user] \in r.roles
                     /\ r.gate \notin {"open", "session"} => c = r.gate
      <3> DEFINE a == Answering(RouteOf(h))
                 q == RouteOf(a.h)
      <3>1. h \in Handlers
        BY FrontAssumption DEF Handlers
      <3>2. Met(q) = Met(a)
        BY <3>1, OwnGuards
      <3>3. Admits(a, c) /\ calls'[c].got = a.h /\ calls'[c].user = Principal(a, c)
        BY <2>3 DEF Answer
      <3>4. RouteOf(calls'[c].got) = q
        BY <3>3
      <3> HIDE DEF a, q
      <3>5. q.gate = a.gate /\ q.roles = a.roles
        BY <3>2 DEF Met
      <3>6. a.gate = "session" => Principal(a, c) # NULL /\ RoleOf[Principal(a, c)] \in a.roles
        BY <3>3 DEF Admits, Principal, RolesGuard, SharedTokenGuard, SchedulerOidcGuard,
                    IngestionTokenGuard
      <3>7. a.gate \notin {"open", "session"} => c = a.gate
        BY <3>3 DEF Admits, SharedTokenGuard, SchedulerOidcGuard, IngestionTokenGuard
      <3> QED
        BY <3>3, <3>4, <3>5, <3>6, <3>7
    <2> QED
      BY <2>1, <2>2, <2>3, CallsStep DEF FrontInv
  <1> QED
    BY <1>1, <1>2, FrontStep, PTL DEF Spec
=============================================================================
