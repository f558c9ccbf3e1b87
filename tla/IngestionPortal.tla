-------------------------- MODULE IngestionPortal ---------------------------
(***************************************************************************)
(* The server-to-server entry of enriched tenders                          *)
(* (apps/api/src/ingestion-portal) for one organization: its API keys, the *)
(* guard that verifies one, and ingest, which projects a payload into a     *)
(* client company, a tender, its sector and its requirements, one await     *)
(* after another and without a transaction.  Users rename and remove        *)
(* companies and remove tenders meanwhile.                                  *)
(***************************************************************************)
EXTENDS Naturals, FiniteSets

CONSTANTS
    Payloads,       \* payloads the ingestion service posts, all of one buyer
    Sectored,       \* those of them with a sector code
    Listing,        \* those of them with a requirement the filter accepts
    PortalCalls,    \* concurrently running requests
    CompanyIds,     \* ids of ClientCompany rows
    TenderIds,      \* ids of Tender rows
    MaxEdits        \* bound on changes users make

VARIABLES
    apiKey,     \* the organization's key: minted, in use, revoked
    portal,     \* the request in each slot
    companies,  \* names of ClientCompany rows: the buyer's, another, no row
    tenders,    \* Tender rows with what was stored under them
    ingested,   \* audit events tender.ingested_from_pipeline
    accepted,   \* tenders reported to the ingestion service with a 2xx
    edits

vars == <<apiKey, portal, companies, tenders, ingested, accepted, edits>>

NoTender == [company |-> "none", payload |-> "none", sector |-> FALSE, requirements |-> FALSE]
Row == [company : CompanyIds, payload : Payloads, sector : BOOLEAN, requirements : BOOLEAN]
Parked == [pc |-> "idle", payload |-> "none", company |-> "none", tender |-> "none"]
Request == [pc : {"idle", "compare", "buyer", "create", "auditBuyer", "intake", "sector",
                  "requirements", "audit", "refetch"},
            payload : Payloads \cup {"none"}, company : CompanyIds \cup {"none"},
            tender : TenderIds \cup {"none"}]

Init ==
    /\ apiKey = "none"
    /\ portal = [c \in PortalCalls |-> Parked]
    /\ companies = [i \in CompanyIds |-> "none"]
    /\ tenders = [t \in TenderIds |-> NoTender]
    /\ ingested = {}
    /\ accepted = {}
    /\ edits = 0

At(c, pc) == portal[c].pc = pc
Become(c, r) == portal' = [portal EXCEPT ![c] = r]
Goto(c, pc) == Become(c, [portal[c] EXCEPT !.pc = pc])
Throw(c) == Become(c, Parked)
Exists(t) == tenders[t] # NoTender

-----------------------------------------------------------------------------
(* Keys *)

Mint ==
    /\ apiKey = "none"
    /\ apiKey' = "live"
    /\ UNCHANGED <<portal, companies, tenders, ingested, accepted, edits>>

Revoke ==
    /\ apiKey = "live"
    /\ apiKey' = "revoked"
    /\ UNCHANGED <<portal, companies, tenders, ingested, accepted, edits>>

Active == apiKey = "live"

\* findByPrefix; a key that is missing or revoked is refused.
Verify(c, p) ==
    /\ At(c, "idle")
    /\ Active
    /\ Become(c, [Parked EXCEPT !.pc = "compare", !.payload = p])
    /\ UNCHANGED <<apiKey, companies, tenders, ingested, accepted, edits>>

\* The comparison of the hash is awaited; revokedAt is not read again.
Admit(c) ==
    /\ At(c, "compare")
    /\ Goto(c, "buyer")
    /\ UNCHANGED <<apiKey, companies, tenders, ingested, accepted, edits>>

-----------------------------------------------------------------------------
(* ingest *)

Buyers == {i \in CompanyIds : companies[i] = "buyer"}
NewCompanies == {i \in CompanyIds : companies[i] = "none"
                                    /\ \A t \in TenderIds : tenders[t].company # i
                                    /\ \A c \in PortalCalls : portal[c].company # i}
NewTenders == {t \in TenderIds : ~Exists(t) /\ t \notin ingested
                                 /\ \A c \in PortalCalls : portal[c].tender # t}

\* upsertBuyerCompany, its list: find takes the first match, and the list has no
\* order to rely on.
FindBuyer(c) ==
    /\ At(c, "buyer")
    /\ \/ \E i \in Buyers : Become(c, [portal[c] EXCEPT !.pc = "intake", !.company = i])
       \/ Buyers = {} /\ Goto(c, "create")
    /\ UNCHANGED <<apiKey, companies, tenders, ingested, accepted, edits>>

CreateBuyer(c) ==
    /\ At(c, "create")
    /\ NewCompanies # {}
    /\ LET i == CHOOSE i \in NewCompanies : TRUE
       IN  /\ companies' = [companies EXCEPT ![i] = "buyer"]
           /\ Become(c, [portal[c] EXCEPT !.pc = "auditBuyer", !.company = i])
    /\ UNCHANGED <<apiKey, tenders, ingested, accepted, edits>>

AuditBuyer(c) ==
    /\ At(c, "auditBuyer")
    /\ Goto(c, "intake")
    /\ UNCHANGED <<apiKey, companies, tenders, ingested, accepted, edits>>

\* What comes after a tender has been created, given its payload.
AfterIntake(p) == IF p \in Sectored THEN "sector" ELSE "requirements"

\* The insert throws when the company was removed meanwhile.
Intake(c) ==
    /\ At(c, "intake")
    /\ NewTenders # {}
    /\ LET t == CHOOSE t \in NewTenders : TRUE
           r == portal[c]
       IN  \/ /\ companies[r.company] # "none"
              /\ tenders' = [tenders EXCEPT ![t] = [company |-> r.company, payload |-> r.payload,
                                                    sector |-> FALSE, requirements |-> FALSE]]
              /\ Become(c, [r EXCEPT !.pc = AfterIntake(r.payload), !.tender = t])
           \/ /\ companies[r.company] = "none"
              /\ Throw(c)
              /\ UNCHANGED tenders
    /\ UNCHANGED <<apiKey, companies, ingested, accepted, edits>>

\* An awaited write under the tender: it throws when the tender was removed.
Under(c, row) ==
    \/ /\ Exists(portal[c].tender)
       /\ tenders' = [tenders EXCEPT ![portal[c].tender] = row]
    \/ /\ ~Exists(portal[c].tender)
       /\ UNCHANGED tenders

PersistSector(c) ==
    /\ At(c, "sector")
    /\ Under(c, [tenders[portal[c].tender] EXCEPT !.sector = TRUE])
    /\ IF Exists(portal[c].tender) THEN Goto(c, "requirements") ELSE Throw(c)
    /\ UNCHANGED <<apiKey, companies, ingested, accepted, edits>>

\* Mutant: the requirements are stored when they come with a sector.
StoresSectored(p) == p \in Listing \cap Sectored

\* Without an accepted requirement nothing is written.
Stores(p) == p \in Listing

PersistRequirements(c) ==
    /\ At(c, "requirements")
    /\ IF Stores(portal[c].payload)
       THEN /\ Under(c, [tenders[portal[c].tender] EXCEPT !.requirements = TRUE])
            /\ IF Exists(portal[c].tender) THEN Goto(c, "audit") ELSE Throw(c)
       ELSE Goto(c, "audit") /\ UNCHANGED tenders
    /\ UNCHANGED <<apiKey, companies, ingested, accepted, edits>>

Audit(c) ==
    /\ At(c, "audit")
    /\ ingested' = ingested \cup {portal[c].tender}
    /\ Goto(c, "refetch")
    /\ UNCHANGED <<apiKey, companies, tenders, accepted, edits>>

\* tenders.get throws when the tender is gone.
Refetch(c) ==
    /\ At(c, "refetch")
    /\ accepted' = IF Exists(portal[c].tender) THEN accepted \cup {portal[c].tender} ELSE accepted
    /\ Throw(c)
    /\ UNCHANGED <<apiKey, companies, tenders, ingested, edits>>

-----------------------------------------------------------------------------
(* What users do, and failures *)

Edit == edits < MaxEdits /\ edits' = edits + 1

RenameCompany(i) ==
    /\ Edit
    /\ companies[i] = "buyer"
    /\ companies' = [companies EXCEPT ![i] = "other"]
    /\ UNCHANGED <<apiKey, portal, tenders, ingested, accepted>>

\* The company's tenders go with it.
RemoveCompany(i) ==
    /\ Edit
    /\ companies[i] # "none"
    /\ companies' = [companies EXCEPT ![i] = "none"]
    /\ tenders' = [t \in TenderIds |-> IF tenders[t].company = i THEN NoTender ELSE tenders[t]]
    /\ UNCHANGED <<apiKey, portal, ingested, accepted>>

RemoveTender(t) ==
    /\ Edit
    /\ Exists(t)
    /\ tenders' = [tenders EXCEPT ![t] = NoTender]
    /\ UNCHANGED <<apiKey, portal, companies, ingested, accepted>>

\* A database call throws, or the process dies, counted among the edits.
Abort(c) ==
    /\ Edit
    /\ ~At(c, "idle")
    /\ Throw(c)
    /\ UNCHANGED <<apiKey, companies, tenders, ingested, accepted>>

Next ==
    \/ Mint \/ Revoke
    \/ \E c \in PortalCalls :
         \/ \E p \in Payloads : Verify(c, p)
         \/ Admit(c) \/ FindBuyer(c) \/ CreateBuyer(c) \/ AuditBuyer(c) \/ Intake(c)
         \/ PersistSector(c) \/ PersistRequirements(c) \/ Audit(c) \/ Refetch(c)
         \/ Abort(c)
    \/ \E i \in CompanyIds : RenameCompany(i) \/ RemoveCompany(i)
    \/ \E t \in TenderIds : RemoveTender(t)

Spec == Init /\ [][Next]_vars

-----------------------------------------------------------------------------
\* The shapes of the tables and of the running handlers.
TypeOK ==
    /\ apiKey \in {"none", "live", "revoked"}
    /\ portal \in [PortalCalls -> Request]
    /\ companies \in [CompanyIds -> {"none", "buyer", "other"}]
    /\ tenders \in [TenderIds -> Row \cup {NoTender}]
    /\ ingested \subseteq TenderIds /\ accepted \subseteq TenderIds
    /\ edits \in 0..MaxEdits

\* A tender the ingestion service was told of has all its payload came with, or
\* was removed since: no request is answered in between, whoever edits or fails.
AcceptedIsWhole ==
    \A t \in accepted :
        /\ t \in ingested
        /\ Exists(t) => /\ tenders[t].payload \in Sectored => tenders[t].sector
                        /\ tenders[t].payload \in Listing => tenders[t].requirements
                        /\ companies[tenders[t].company] # "none"
=============================================================================
