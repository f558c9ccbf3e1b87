----------------------------- MODULE Submission -----------------------------
(***************************************************************************)
(* From the document vault to the submission pack of one tender: uploads    *)
(* (apps/api/src/document-vault), versioned compliance matrices, their      *)
(* items and evidence links (apps/api/src/compliance) and the export        *)
(* (apps/api/src/export).  Handlers are sequences of awaits that interleave *)
(* and may die; createMany is the only transaction.  Rows of another        *)
(* organization are in the same tables.                                     *)
(***************************************************************************)
EXTENDS Evidence

CONSTANTS
    Orgs, TenderOrg,    \* organizations, and the tender's
    DocOrg,             \* document -> organization that registers it
    Files, Expiring,    \* documents that come with a file, or with an expiry date
    Companies,          \* client companies
    TenderCompany, DocCompany,
    MaxVersion,         \* bound on matrix versions
    Asks,               \* requirement lists a client may send
    Overrides,          \* override lists a client may send
    Edits,              \* bodies a client may PATCH an item with
    StateChanges,       \* <<document, state>> pairs a client may ask for
    Slots,              \* concurrently running handler invocations
    MaxFaults           \* bound on calls that die and cleanups that fail

Versions == 1..MaxVersion
Edit == [status : ItemStatus \cup {NULL}, risk : Risks \cup {NULL}]

ASSUME SubmissionAssumption ==
    /\ TenderOrg \in Orgs /\ DocOrg \in [Docs -> Orgs]
    /\ Files \subseteq Docs /\ Expiring \subseteq Docs
    /\ TenderCompany \in Companies /\ DocCompany \in [Docs -> Companies]
    /\ Asks \subseteq SUBSET Reqs /\ Overrides \subseteq SUBSET Reqs
    /\ Edits \subseteq Edit
    /\ StateChanges \subseteq Docs \X DocStates
    /\ MaxVersion \in Nat /\ MaxFaults \in Nat
    /\ NULL \notin Docs /\ NULL \notin Reqs /\ NULL \notin Orgs /\ NULL \notin Item

VARIABLES
    docs,      \* the ClientDocument table
    blobs,     \* documents whose object is in the store
    expired,   \* documents whose expiresAt has passed
    tender,    \* does the tender's row exist?
    companies, \* client companies that exist
    reqs,      \* TenderRequirement rows
    matrices,  \* ComplianceMatrix rows by version, with their items
    links,     \* EvidenceLink rows: <<version, requirement, document>>
    calls,     \* the handler invocation in each slot
    faults

vault == <<docs, blobs, expired>>
tables == <<tender, companies, reqs, matrices, links>>
vars == <<docs, blobs, expired, tender, companies, reqs, matrices, links, calls, faults>>

\* "new" is a row not yet inserted, "gone" a deleted one.  made is history:
\* the requirements the generation that created the version was computed for.
Doc == [state : DocStates \cup {"new", "gone"}, key : BOOLEAN]
NewDoc == [state |-> "new", key |-> FALSE]
Gone == [state |-> "gone", key |-> FALSE]
Matrix == [row : BOOLEAN, made : SUBSET Reqs, items : [Reqs -> Item \cup {NULL}]]
NoMatrix == [row |-> FALSE, made |-> {}, items |-> NoItems]

Awaits == {"put", "attach", "cleanup", "getTender", "requirements", "latest",
           "createMatrix", "createItems", "updateItem", "findDocument",
           "createLink", "createRequirements", "list", "record"}
Call == [pc : Awaits \cup {"idle"}, org : Orgs \cup {NULL}, doc : Docs \cup {NULL},
         asked : SUBSET Reqs, overridden : SUBSET Reqs, view : View \cup {NULL},
         version : 0..MaxVersion, req : Reqs \cup {NULL},
         items : [Reqs -> Item \cup {NULL}], edit : Edit \cup {NULL},
         lacking : SUBSET Reqs, bare : SUBSET Reqs]
Idle == [pc |-> "idle", org |-> NULL, doc |-> NULL, asked |-> {}, overridden |-> {},
         view |-> NULL, version |-> 0, req |-> NULL, items |-> NoItems, edit |-> NULL,
         lacking |-> {}, bare |-> {}]

Init ==
    /\ docs = [d \in Docs |-> NewDoc]
    /\ blobs = {} /\ expired = {}
    /\ tender = TRUE /\ companies = Companies
    /\ reqs = {}
    /\ matrices = [v \in Versions |-> NoMatrix]
    /\ links = {}
    /\ calls = [c \in Slots |-> Idle]
    /\ faults = 0

-----------------------------------------------------------------------------
At(c, pc) == calls[c].pc = pc
Begin(c, k) == At(c, "idle") /\ calls' = [calls EXCEPT ![c] = k]
Become(c, k) == calls' = [calls EXCEPT ![c] = k]
Return(c) == Become(c, Idle)

Exists(d) == docs[d].state \in DocStates
TenderVisible(o) == tender /\ o = TenderOrg
ItemExists(v, q) == matrices[v].row /\ matrices[v].items[q] # NULL

\* vault.list of an organization.
VaultView(o) == [d \in Docs |-> IF Exists(d) /\ DocOrg[d] = o THEN docs[d].state ELSE "none"]

-----------------------------------------------------------------------------
(* Document vault. *)

Insert(d) ==
    /\ docs[d].state = "new"
    /\ DocCompany[d] \in companies
    /\ docs' = [docs EXCEPT ![d] = [state |-> "active", key |-> FALSE]]

Register(d) ==
    /\ d \notin Files
    /\ Insert(d)
    /\ UNCHANGED <<blobs, expired, tables, calls, faults>>

SetState(o, d, state) ==
    /\ Exists(d) /\ DocOrg[d] = o
    /\ docs' = [docs EXCEPT ![d] = [@ EXCEPT !.state = state]]
    /\ UNCHANGED <<blobs, expired, tables, calls, faults>>

Elapse(d) ==
    /\ d \in Expiring \ expired
    /\ Exists(d)
    /\ expired' = expired \cup {d}
    /\ UNCHANGED <<docs, blobs, tables, calls, faults>>

\* upload: the row first, since its id is part of the key; then the object.
StartUpload(c, d) ==
    /\ d \in Files
    /\ Insert(d)
    /\ Begin(c, [Idle EXCEPT !.pc = "put", !.doc = d])
    /\ UNCHANGED <<blobs, expired, tables, faults>>

PutObject(c) ==
    /\ At(c, "put")
    /\ \/ /\ blobs' = blobs \cup {calls[c].doc}
          /\ Become(c, [calls[c] EXCEPT !.pc = "attach"])
       \/ /\ Become(c, [calls[c] EXCEPT !.pc = "cleanup"])
          /\ UNCHANGED blobs
    /\ UNCHANGED <<docs, expired, tables, faults>>

\* Mutant: a failed put leaves the row.
CleanUpNothing(c) ==
    /\ At(c, "cleanup")
    /\ Return(c)
    /\ UNCHANGED <<vault, tables, faults>>

Without(d) == [docs EXCEPT ![d] = Gone]
LinksWithout(d) == {l \in links : l[3] # d}

\* Best effort: the delete may fail too, and is swallowed.
CleanUp(c) ==
    /\ At(c, "cleanup")
    /\ \/ /\ docs' = Without(calls[c].doc)
          /\ links' = LinksWithout(calls[c].doc)
          /\ UNCHANGED faults
       \/ /\ faults < MaxFaults /\ faults' = faults + 1
          /\ UNCHANGED <<docs, links>>
    /\ Return(c)
    /\ UNCHANGED <<blobs, expired, tender, companies, reqs, matrices>>

AttachBlob(c) ==
    /\ At(c, "attach")
    /\ docs' = IF Exists(calls[c].doc)
               THEN [docs EXCEPT ![calls[c].doc] = [@ EXCEPT !.key = TRUE]] ELSE docs
    /\ Return(c)
    /\ UNCHANGED <<blobs, expired, tables, faults>>

-----------------------------------------------------------------------------
(* Requirements, matrices and items. *)

\* createBulk: the tenant guard, then all rows or none.
StartRequirements(c, o, asked) ==
    /\ TenderVisible(o)
    /\ Begin(c, [Idle EXCEPT !.pc = "createRequirements", !.asked = asked])
    /\ UNCHANGED <<vault, tables, faults>>

CreateRequirements(c) ==
    /\ At(c, "createRequirements")
    /\ reqs' = IF tender THEN reqs \cup calls[c].asked ELSE reqs
    /\ Return(c)
    /\ UNCHANGED <<vault, tender, companies, matrices, links, faults>>

\* generate reads the vault before anything else.
StartGenerate(c, o, asked) ==
    /\ Begin(c, [Idle EXCEPT !.pc = "getTender", !.org = o, !.asked = asked,
                             !.view = VaultView(o)])
    /\ UNCHANGED <<vault, tables, faults>>

GetTender(c) ==
    /\ At(c, "getTender")
    /\ \/ /\ TenderVisible(calls[c].org)
          /\ Become(c, [calls[c] EXCEPT !.org = NULL,
                         !.pc = IF calls[c].asked = {} THEN "requirements" ELSE "latest"])
       \/ ~TenderVisible(calls[c].org) /\ Return(c)
    /\ UNCHANGED <<vault, tables, faults>>

LoadRequirements(c) ==
    /\ At(c, "requirements")
    /\ Become(c, [calls[c] EXCEPT !.pc = "latest", !.asked = reqs])
    /\ UNCHANGED <<vault, tables, faults>>

\* version is the highest one stored, 0 when there is none.
IsLatest(version) ==
    /\ version > 0 => matrices[version].row
    /\ \A w \in Versions : matrices[w].row => w <= version

\* The version is fixed and the items are computed in one go: from the vault
\* as it was read and the clock as it is.
LatestForTender(c) ==
    /\ At(c, "latest")
    /\ \E latest \in 0..MaxVersion :
         /\ IsLatest(latest)
         /\ \/ /\ latest < MaxVersion
               /\ Become(c, [calls[c] EXCEPT !.pc = "createMatrix", !.version = latest + 1,
                               !.items = GenerateMatrix(calls[c].asked, calls[c].view, expired),
                               !.view = NULL])
            \/ latest = MaxVersion /\ Return(c)
    /\ UNCHANGED <<vault, tables, faults>>

\* Mutant: no unique index on (tenderId, version).
InsertableAlways(v) == tender

\* The foreign key and the unique index of the insert.
Insertable(v) == tender /\ ~matrices[v].row

CreateMatrix(c) ==
    /\ At(c, "createMatrix")
    /\ LET v == calls[c].version
           asked == calls[c].asked
       IN  \/ /\ Insertable(v)
              /\ matrices' = [matrices EXCEPT ![v] = [@ EXCEPT !.row = TRUE, !.made = asked]]
              /\ IF asked = {} THEN Return(c)
                 ELSE Become(c, [calls[c] EXCEPT !.pc = "createItems"])
           \/ ~Insertable(v) /\ Return(c) /\ UNCHANGED matrices
    /\ UNCHANGED <<vault, tender, companies, reqs, links, faults>>

CreateItems(c) ==
    /\ At(c, "createItems")
    /\ LET v == calls[c].version
           new(q) == IF calls[c].items[q] # NULL THEN calls[c].items[q] ELSE matrices[v].items[q]
       IN  matrices' = IF matrices[v].row
                       THEN [matrices EXCEPT ![v] = [@ EXCEPT !.items = [q \in Reqs |-> new(q)]]]
                       ELSE matrices
    /\ Return(c)
    /\ UNCHANGED <<vault, tender, companies, reqs, links, faults>>

StartUpdateItem(c, o, v, q, edit) ==
    /\ o = TenderOrg /\ ItemExists(v, q)
    /\ Begin(c, [Idle EXCEPT !.pc = "updateItem", !.version = v, !.req = q, !.edit = edit])
    /\ UNCHANGED <<vault, tables, faults>>

\* Fields the body leaves out keep their value.
Edited(item, edit) ==
    [status |-> IF edit.status = NULL THEN item.status ELSE edit.status,
     risk |-> IF edit.risk = NULL THEN item.risk ELSE edit.risk]

UpdateItem(c) ==
    /\ At(c, "updateItem")
    /\ LET v == calls[c].version
           q == calls[c].req
           items == matrices[v].items
           new == [items EXCEPT ![q] = Edited(items[q], calls[c].edit)]
       IN  matrices' = IF ItemExists(v, q)
                       THEN [matrices EXCEPT ![v] = [@ EXCEPT !.items = new]]
                       ELSE matrices
    /\ Return(c)
    /\ UNCHANGED <<vault, tender, companies, reqs, links, faults>>

-----------------------------------------------------------------------------
(* Evidence links. *)

StartLink(c, o, v, q, d) ==
    /\ o = TenderOrg /\ ItemExists(v, q)
    /\ Begin(c, [Idle EXCEPT !.pc = "findDocument", !.org = o, !.version = v,
                             !.req = q, !.doc = d])
    /\ UNCHANGED <<vault, tables, faults>>

\* Mutant: documents.findById by id alone.
FoundAnywhere(d, o) == Exists(d)

\* documents.findById of the caller's organization.
Found(d, o) == Exists(d) /\ DocOrg[d] = o

FindDocument(c) ==
    /\ At(c, "findDocument")
    /\ IF Found(calls[c].doc, calls[c].org)
       THEN Become(c, [calls[c] EXCEPT !.pc = "createLink"]) ELSE Return(c)
    /\ UNCHANGED <<vault, tables, faults>>

\* Both connects need their row, and the pair is unique.
CreateLink(c) ==
    /\ At(c, "createLink")
    /\ LET v == calls[c].version
           q == calls[c].req
           d == calls[c].doc
       IN  links' = IF ItemExists(v, q) /\ Exists(d) THEN links \cup {<<v, q, d>>} ELSE links
    /\ Return(c)
    /\ UNCHANGED <<vault, tender, companies, reqs, matrices, faults>>

Unlink(o, l) ==
    /\ o = TenderOrg
    /\ l \in links
    /\ links' = links \ {l}
    /\ UNCHANGED <<vault, tender, companies, reqs, matrices, calls, faults>>

-----------------------------------------------------------------------------
(* Export: everything is computed anew from the request's own list.         *)

StartExport(c, o, asked, overridden) ==
    /\ TenderVisible(o)
    /\ Begin(c, [Idle EXCEPT !.pc = "list", !.org = o, !.asked = asked,
                             !.overridden = overridden])
    /\ UNCHANGED <<vault, tables, faults>>

\* What the vault has for the requirements at this time, as history.
OwnDocs(q) == {d \in Docs : DocOrg[d] = TenderOrg /\ TypeOf[d] = CategoryOf[q]}
Lacking(asked) == {q \in asked : \A d \in OwnDocs(q) : docs[d].state # "active" \/ d \in expired}
Bare(asked) == {q \in asked : \A d \in OwnDocs(q) : docs[d].state \notin {"active", "archived"}}

\* vault.list, generateMatrix and the gate; a blocked export throws.
ListAndBuild(c) ==
    /\ At(c, "list")
    /\ LET items == GenerateMatrix(calls[c].asked, VaultView(calls[c].org), expired)
       IN  IF ExportGate(items, calls[c].overridden) = {}
           THEN Become(c, [calls[c] EXCEPT !.pc = "record", !.items = items,
                                           !.lacking = Lacking(calls[c].asked),
                                           !.bare = Bare(calls[c].asked)])
           ELSE Return(c)
    /\ UNCHANGED <<vault, tables, faults>>

\* The event of the export, which no handler reads, and the answer.
RecordPack(c) ==
    /\ At(c, "record")
    /\ Return(c)
    /\ UNCHANGED <<vault, tables, faults>>

-----------------------------------------------------------------------------
(* Deletes and their cascades; a deletion reaches no object in the store.   *)

DropTender ==
    /\ tender' = FALSE
    /\ reqs' = {}
    /\ matrices' = [v \in Versions |-> NoMatrix]
    /\ links' = {}

RemoveTender(o) ==
    /\ TenderVisible(o)
    /\ DropTender
    /\ UNCHANGED <<vault, companies, calls, faults>>

RemoveCompany(k) ==
    /\ k \in companies
    /\ companies' = companies \ {k}
    /\ docs' = [d \in Docs |-> IF DocCompany[d] = k /\ Exists(d)
                               THEN Gone ELSE docs[d]]
    /\ IF k = TenderCompany THEN DropTender
       ELSE /\ links' = {l \in links : DocCompany[l[3]] # k}
            /\ UNCHANGED <<tender, reqs, matrices>>
    /\ UNCHANGED <<blobs, expired, calls, faults>>

Crash(c) ==
    /\ ~At(c, "idle")
    /\ faults < MaxFaults /\ faults' = faults + 1
    /\ Return(c)
    /\ UNCHANGED <<vault, tables>>

-----------------------------------------------------------------------------
Step(c) ==
    \/ PutObject(c) \/ CleanUp(c) \/ AttachBlob(c)
    \/ CreateRequirements(c)
    \/ GetTender(c) \/ LoadRequirements(c) \/ LatestForTender(c)
    \/ CreateMatrix(c) \/ CreateItems(c) \/ UpdateItem(c)
    \/ FindDocument(c) \/ CreateLink(c)
    \/ ListAndBuild(c) \/ RecordPack(c)

Arrive(c) ==
    \/ \E d \in Docs : StartUpload(c, d)
    \/ \E o \in Orgs, asked \in Asks :
         \/ StartRequirements(c, o, asked)
         \/ StartGenerate(c, o, asked)
         \/ \E overridden \in Overrides : StartExport(c, o, asked, overridden)
    \/ \E o \in Orgs, v \in Versions, q \in Reqs :
         \/ \E edit \in Edits : StartUpdateItem(c, o, v, q, edit)
         \/ \E d \in Docs : StartLink(c, o, v, q, d)

Next ==
    \/ \E c \in Slots : Arrive(c) \/ Step(c) \/ Crash(c)
    \/ \E d \in Docs : Register(d) \/ Elapse(d)
    \/ \E o \in Orgs, ch \in StateChanges : SetState(o, ch[1], ch[2])
    \/ \E o \in Orgs : RemoveTender(o)
    \/ \E o \in Orgs, l \in links : Unlink(o, l)
    \/ \E k \in Companies : RemoveCompany(k)

Spec == Init /\ [][Next]_vars

-----------------------------------------------------------------------------
(* Properties *)

\* The shapes of the tables and of the running calls.
TypeOK ==
    /\ docs \in [Docs -> Doc]
    /\ blobs \subseteq Docs /\ expired \subseteq Docs
    /\ tender \in BOOLEAN /\ companies \subseteq Companies
    /\ reqs \subseteq Reqs
    /\ matrices \in [Versions -> Matrix]
    /\ links \subseteq Versions \X Reqs \X Docs
    /\ calls \in [Slots -> Call]
    /\ faults \in Nat

\* The call that still has to write the items of version v.
Writing(v) == \E c \in Slots : At(c, "createItems") /\ calls[c].version = v

ItemsOf(v) == {q \in Reqs : matrices[v].items[q] # NULL}

\* A version is the work of one generation: its items are
\* those of the call that created it, all of them, although two calls may have
\* computed the same version number; it has none only while that call is on its
\* way, or once a call died (generateAndPersist and the unique index).
OneGenerationPerVersion ==
    \A v \in Versions : matrices[v].row =>
        \/ ItemsOf(v) = matrices[v].made
        \/ ItemsOf(v) = {} /\ (Writing(v) \/ faults > 0)

Uploading(d) ==
    \E c \in Slots : calls[c].doc = d /\ calls[c].pc \in {"put", "attach", "cleanup"}

\* Uploads settle: a row with a storage key has its object, and without a fault
\* every row that came with a file has its key or is gone once its upload has
\* ended, whatever was deleted meanwhile (upload and its cleanup).
UploadsSettle ==
    \A d \in Docs :
      /\ docs[d].key => d \in blobs
      /\ (faults = 0 /\ d \in Files /\ Exists(d) /\ ~Uploading(d)) => docs[d].key

\* Evidence links hold together an item and a document that both exist and
\* belong to one organization, whatever was removed between the checks of link
\* and its insert (link and the cascades).
LinksHold ==
    \A l \in links : ItemExists(l[1], l[2]) /\ Exists(l[3]) /\ DocOrg[l[3]] = TenderOrg

\* A pack hides no gap: of the requirements asked for, every one that lacked a
\* usable document when the vault was read is among its open tasks, and a
\* critical one for which the vault had nothing at all was overridden, even
\* when the vault has changed since (build, exportGate and deriveTasks).
PackHonest ==
    \A c \in Slots : At(c, "record") =>
      /\ calls[c].lacking \subseteq DeriveTasks(calls[c].items)
      /\ calls[c].bare \cap Critical \subseteq calls[c].overridden
=============================================================================
