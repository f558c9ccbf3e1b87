----------------------------- MODULE MCServices -----------------------------
(***************************************************************************)
(* The smaller services of the API, each in a module of its own.  They      *)
(* share no state with one another, so interleaving them shows nothing:     *)
(* focus chooses at the start which one runs, and the others rest in their  *)
(* initial states.                                                          *)
(***************************************************************************)
EXTENDS Naturals, FiniteSets, TLC

CONSTANTS
    Slots,  \* concurrently running handlers of a service
    MaxRequests, MaxCost, LastDay, MaxBegun, MaxOverrides, MaxLlmFaults,
    StripeSubs, Prices, RawStatuses, MaxEvents, MaxReplays,
    Messages, MaxDeliveries, MaxMailFaults,
    Payloads, Sectored, Listing, CompanyIds, TenderIds, MaxEdits,
    Users, MaxAccessCalls, MaxAccessFaults,
    Refs, LastInstant, MaxConsents, MaxRestarts,
    MaxIncidents, Limit, LastHour, MaxNotifications, MaxIncidentFaults

\* PLAN_CATALOG with the price ids of a deployment; Prices has one more, which
\* is not listed.
Catalog == [basic |-> "basic", pro |-> "pro"]

ASSUME ServicesAssumption ==
    /\ MaxRequests \in Nat \ {0} /\ MaxCost \in Nat \ {0}
    /\ DOMAIN Catalog \subseteq Prices /\ RawStatuses # {}
    /\ Sectored \subseteq Payloads /\ Listing \subseteq Payloads

\* The bounds are numbers, a service runs finitely many handlers at a time, and
\* "none" is nothing's name.
ASSUME BoundsAssumption ==
    /\ IsFiniteSet(Slots)
    /\ {LastDay, MaxBegun, MaxOverrides, MaxLlmFaults, MaxEvents, MaxReplays, MaxDeliveries,
        MaxMailFaults, MaxEdits, MaxAccessCalls, MaxAccessFaults, LastInstant, MaxConsents,
        MaxRestarts, MaxIncidents, Limit, LastHour, MaxNotifications, MaxIncidentFaults}
       \subseteq Nat
    /\ \A names \in {Messages, Payloads, CompanyIds, TenderIds, Users, Refs} : "none" \notin names

VARIABLES
    focus,
    tender, llm, usageLog, counter, audited, today, begun, paid, uncounted, plain, overrides,
    llmFaults,
    stripe, emitted, answered, receivers, subscription, trail, newest, disorder, overlap, replays,
    recipient, mailbox, requests, mail, deliveries, kept, mailFaults,
    apiKey, portal, companies, tenders, ingested, accepted, edits,
    access, handlers, ledger, accessDone, removed, lostEvents,
    consents, senders, seen, now, restarts, heedless, recorded,
    smtp, incidents, dpo, clock, notifiers, evidence, emails, notified, notices, incidentFaults

Sector == INSTANCE Sector WITH LlmCalls <- Slots
Billing == INSTANCE Billing WITH Receivers <- Slots
Mail == INSTANCE InboundEmail WITH MailCalls <- Slots
Portal == INSTANCE IngestionPortal WITH PortalCalls <- Slots
Access == INSTANCE TenderAccess WITH AccessCalls <- Slots
Consent == INSTANCE Consent WITH Senders <- Slots
Incidents == INSTANCE Incidents WITH Notifiers <- Slots

sectorVars == <<tender, llm, usageLog, counter, audited, today, begun, paid, uncounted,
                plain, overrides, llmFaults>>
billingVars == <<stripe, emitted, answered, receivers, subscription, trail,
                 newest, disorder, overlap, replays>>
mailVars == <<recipient, mailbox, requests, mail, deliveries, kept, mailFaults>>
portalVars == <<apiKey, portal, companies, tenders, ingested, accepted, edits>>
accessVars == <<access, handlers, ledger, accessDone, removed, lostEvents>>
consentVars == <<consents, senders, seen, now, restarts, heedless, recorded>>
incidentVars == <<smtp, incidents, dpo, clock, notifiers, evidence, emails, notified, notices,
                  incidentFaults>>
rest == <<sectorVars, billingVars, mailVars, portalVars, accessVars, consentVars, incidentVars>>

Init ==
    /\ focus \in {"sector", "billing", "mail", "portal", "access", "consent", "incidents"}
    /\ Sector!Init /\ Billing!Init /\ Portal!Init /\ Access!Init /\ Consent!Init
    /\ Incidents!Init
    /\ Mail!Init
    /\ focus # "mail" => recipient = [m \in Messages |-> "other"]
    /\ focus # "sector" => ~tender.sector
    /\ focus # "incidents" => ~smtp

Next ==
    /\ UNCHANGED focus
    /\ \/ /\ focus = "sector" /\ Sector!Next
          /\ UNCHANGED <<billingVars, mailVars, portalVars, accessVars, consentVars, incidentVars>>
       \/ /\ focus = "billing" /\ Billing!Next
          /\ UNCHANGED <<sectorVars, mailVars, portalVars, accessVars, consentVars, incidentVars>>
       \/ /\ focus = "mail" /\ Mail!Next
          /\ UNCHANGED <<sectorVars, billingVars, portalVars, accessVars, consentVars, incidentVars>>
       \/ /\ focus = "portal" /\ Portal!Next
          /\ UNCHANGED <<sectorVars, billingVars, mailVars, accessVars, consentVars, incidentVars>>
       \/ /\ focus = "access" /\ Access!Next
          /\ UNCHANGED <<sectorVars, billingVars, mailVars, portalVars, consentVars, incidentVars>>
       \/ /\ focus = "consent" /\ Consent!Next
          /\ UNCHANGED <<sectorVars, billingVars, mailVars, portalVars, accessVars, incidentVars>>
       \/ /\ focus = "incidents" /\ Incidents!Next
          /\ UNCHANGED <<sectorVars, billingVars, mailVars, portalVars, accessVars, consentVars>>

Spec == Init /\ [][Next]_<<focus, rest>>

\* The slots of a service are interchangeable.
Symmetry == Permutations(Slots)

-----------------------------------------------------------------------------
\* The daily LLM cap is overrun only by calls side by side and by answers the
\* usage log has no ok row of (budget-guard and classify).
SpendBounded == focus = "sector" => Sector!SpendBounded

\* The LLM usage log and the usage counters count the same answers (recordOk
\* and bump).
UsageReconciles == focus = "sector" => Sector!UsageReconciles

\* Asking for a tender's sector again is answered from the stored one (classify).
PlainCallsBounded == focus = "sector" => Sector!PlainCallsBounded

\* An organization is on the plan it pays for once Stripe's events are answered
\* in order (StripeWebhookService).
MirrorsStripe == focus = "billing" => Billing!MirrorsStripe

\* Deliveries of one message open no more data-subject requests than run side by
\* side (InboundEmailService.receive).
RequestsBounded == focus = "mail" => Mail!RequestsBounded

\* A message that was answered is stored and routed (InboundEmailService).
KeptIsStored == focus = "mail" => Mail!KeptIsStored

\* An ingest that was answered is whole (IngestionPortalService.ingest).
AcceptedIsWhole == focus = "portal" => Portal!AcceptedIsWhole

\* Grants less revocations on the audit trail tell who has access
\* (TenderAccessService).
AccessReconciles == focus = "access" => Access!AccessReconciles

\* A withdrawal stops every reminder but those under way (sendWhatsAppForSubject).
WithdrawalHeeded == focus = "consent" => Consent!WithdrawalHeeded

\* The authority is written to only with an intent on the trail, and the trail
\* tells what was sent (AuthorityNotificationService).
AuthorityEvidence == focus = "incidents" => Incidents!AuthorityEvidence

\* What the authority was notified of stays overdue (IncidentService.report,
\* requiresAuthorityNotification).
NotifiedStaysOverdue == focus = "incidents" => Incidents!NotifiedStaysOverdue
=============================================================================
