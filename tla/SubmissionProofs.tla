-------------------------- MODULE SubmissionProofs --------------------------
(***************************************************************************)
(* Machine-checked proofs about Submission, for every set of documents,    *)
(* requirements, organizations, versions and concurrent calls.             *)
(***************************************************************************)
EXTENDS Submission, TLAPS

Uploads == {"put", "attach", "cleanup"}
Linking == {"findDocument", "createLink"}
Generating == {"createMatrix", "createItems"}

ItemsIn(items) == {q \in Reqs : items[q] # NULL}

\* What a call carries from await to await.
CallInv(k) ==
    /\ k.pc \in Uploads \cup Linking => k.doc \in Docs
    /\ k.pc = "attach" => k.doc \in blobs
    /\ k.pc \in Linking => k.org = TenderOrg
    /\ k.pc \in Linking \cup {"updateItem"} => k.version \in Versions /\ k.req \in Reqs
    /\ k.pc = "updateItem" => k.edit \in Edit
    /\ k.pc = "createLink" => DocOrg[k.doc] = TenderOrg
    /\ k.pc = "list" => k.org = TenderOrg
    /\ k.pc \in Generating => k.version \in Versions /\ ItemsIn(k.items) = k.asked
    /\ k.pc = "record" => /\ k.lacking \subseteq DeriveTasks(k.items)
                          /\ k.bare \cap Critical \subseteq k.overridden

\* The call that created a version is the only one that will write its items,
\* unless the tender went away: tender rows never come back.
WriterInv(c) ==
    At(c, "createItems") =>
      LET v == calls[c].version
      IN  /\ tender => matrices[v].row
          /\ matrices[v].row => matrices[v].made = calls[c].asked /\ ItemsOf(v) = {}
          /\ \A d \in Slots : (At(d, "createItems") /\ calls[d].version = v) => d = c

MatrixInv(v) ==
    /\ matrices[v].row => tender
    /\ ~matrices[v].row => ItemsOf(v) = {}

GenerationInv ==
    /\ \A c \in Slots : WriterInv(c)
    /\ \A v \in Versions : MatrixInv(v)
    /\ OneGenerationPerVersion

IInv ==
    /\ TypeOK
    /\ \A c \in Slots : CallInv(calls[c])
    /\ GenerationInv
    /\ UploadsSettle
    /\ LinksHold

-----------------------------------------------------------------------------
(* The pure part: what buildItem and exportGate make of a vault. *)

\* buildItem always returns an item, never an overridden one.
LEMMA BuildItemType ==
  ASSUME NEW q \in Reqs, NEW view, NEW exp
  PROVE  /\ BuildItem(q, view, exp) \in Item
         /\ BuildItem(q, view, exp) # NULL
         /\ BuildItem(q, view, exp).status = StatusOf(q, view, exp)
         /\ BuildItem(q, view, exp).risk = RiskOf(q, StatusOf(q, view, exp))
         /\ BuildItem(q, view, exp).status # "overridden"
  <1>1. StatusOf(q, view, exp) \in {"satisfied", "partial", "missing"}
    BY DEF StatusOf
  <1>2. RiskOf(q, StatusOf(q, view, exp)) \in Risks
    BY DEF RiskOf, Risks
  <1>3. BuildItem(q, view, exp) \in Item
    BY <1>1, <1>2 DEF BuildItem, Item, ItemStatus
  <1> QED
    BY <1>1, <1>3, SubmissionAssumption DEF BuildItem

\* generateMatrix returns one item per requirement asked for.
LEMMA GenerateMatrixType ==
  ASSUME NEW asked \in SUBSET Reqs, NEW view, NEW exp
  PROVE  /\ GenerateMatrix(asked, view, exp) \in [Reqs -> Item \cup {NULL}]
         /\ ItemsIn(GenerateMatrix(asked, view, exp)) = asked
  BY BuildItemType DEF GenerateMatrix, ItemsIn

\* A requirement without a usable document of the organization is not satisfied,
\* and without any document at all it is missing.
LEMMA EvidenceTells ==
  ASSUME TypeOK, NEW q \in Reqs
  PROVE  /\ q \in Lacking({q}) => StatusOf(q, VaultView(TenderOrg), expired) # "satisfied"
         /\ q \in Bare({q}) => StatusOf(q, VaultView(TenderOrg), expired) = "missing"
  <1> DEFINE view == VaultView(TenderOrg)
  <1>1. ASSUME NEW d \in Candidates(q, view)
        PROVE  d \in OwnDocs(q) /\ docs[d].state \in {"active", "archived"} /\ view[d] = docs[d].state
    BY DEF Candidates, VaultView, OwnDocs, Exists, DocStates
  <1>2. ASSUME NEW d \in ActiveEvidence(q, view, expired) PROVE q \notin Lacking({q})
    BY <1>1 DEF ActiveEvidence, Lacking
  <1>3. q \in Lacking({q}) => StatusOf(q, view, expired) # "satisfied"
    BY <1>2 DEF StatusOf
  <1>4. q \in Bare({q}) => Candidates(q, view) = {}
    BY <1>1 DEF Bare
  <1>5. q \in Bare({q}) => StatusOf(q, view, expired) = "missing"
    BY <1>4 DEF StatusOf, ActiveEvidence, ExpiredEvidence
  <1> QED
    BY <1>3, <1>5

\* An export that the gate lets through hides nothing.
LEMMA GateHonest ==
  ASSUME TypeOK, NEW asked \in SUBSET Reqs, NEW overridden \in SUBSET Reqs,
         ExportGate(GenerateMatrix(asked, VaultView(TenderOrg), expired), overridden) = {}
  PROVE  /\ Lacking(asked) \subseteq
              DeriveTasks(GenerateMatrix(asked, VaultView(TenderOrg), expired))
         /\ Bare(asked) \cap Critical \subseteq overridden
  <1> DEFINE items == GenerateMatrix(asked, VaultView(TenderOrg), expired)
  <1>1. ASSUME NEW q \in asked
        PROVE  items[q] = BuildItem(q, VaultView(TenderOrg), expired) /\ items[q] # NULL
    BY BuildItemType DEF GenerateMatrix
  <1>4. ExportGate(items, overridden) = {}
    OBVIOUS
  <1> HIDE DEF items
  <1>2. ASSUME NEW q \in Lacking(asked) PROVE q \in DeriveTasks(items)
    <2>1. q \in asked /\ q \in Reqs /\ q \in Lacking({q})
      BY DEF Lacking
    <2>2. items[q].status \notin {"satisfied", "overridden"}
      <3>1. StatusOf(q, VaultView(TenderOrg), expired) # "satisfied"
        BY <2>1, EvidenceTells
      <3>2. items[q].status = StatusOf(q, VaultView(TenderOrg), expired)
        BY <1>1, <2>1, BuildItemType
      <3> QED
        BY <1>1, <2>1, <3>1, <3>2, BuildItemType
    <2> QED
      BY <1>1, <2>1, <2>2 DEF DeriveTasks
  <1>3. ASSUME NEW q \in Bare(asked), q \in Critical PROVE q \in overridden
    <2>1. q \in asked /\ q \in Reqs /\ q \in Bare({q})
      BY DEF Bare
    <2>2. items[q].status = "missing" /\ items[q].risk = "critical"
      <3>1. StatusOf(q, VaultView(TenderOrg), expired) = "missing"
        BY <2>1, EvidenceTells
      <3> QED
        BY <1>1, <1>3, <2>1, <3>1, BuildItemType DEF RiskOf
    <2> QED
      BY <1>1, <1>4, <2>1, <2>2 DEF ExportGate
  <1> QED
    BY <1>2, <1>3 DEF items

-----------------------------------------------------------------------------
(* Frames: what keeps a part of the invariant. *)

\* A call enters, moves on or returns; no object leaves the store.
LEMMA CallsKept ==
  ASSUME IInv, NEW c \in Slots, NEW k \in Call, Become(c, k),
         blobs \subseteq blobs', CallInv(k)'
  PROVE  /\ calls' \in [Slots -> Call] /\ calls'[c] = k
         /\ \A d \in Slots \ {c} : calls'[d] = calls[d]
         /\ \A d \in Slots : CallInv(calls[d])'
  <1>1. calls' \in [Slots -> Call] /\ calls'[c] = k /\ \A d \in Slots \ {c} : calls'[d] = calls[d]
    BY DEF IInv, TypeOK, Become
  <1>2. CallInv(calls[c])'
    BY <1>1 DEF CallInv
  <1>3. \A d \in Slots \ {c} : CallInv(calls[d])'
    BY <1>1 DEF IInv, CallInv
  <1> QED
    BY <1>1, <1>2, <1>3

\* A call that was not about to write items moves, or a call dies, and no version
\* gains or loses an item.
LEMMA GenerationKept ==
  ASSUME IInv, NEW c \in Slots, NEW k \in Call, Become(c, k), k.pc # "createItems",
         calls[c].pc # "createItems" \/ faults' > 0,
         faults' \in Nat, faults' >= faults, UNCHANGED tender,
         \A v \in Versions : /\ matrices'[v].row = matrices[v].row
                             /\ matrices'[v].made = matrices[v].made
                             /\ ItemsOf(v)' = ItemsOf(v)
  PROVE  GenerationInv'
  <1>1. calls'[c] = k /\ \A d \in Slots \ {c} : calls'[d] = calls[d]
    BY DEF IInv, TypeOK, Become
  <1>2. ASSUME NEW d \in Slots PROVE WriterInv(d)'
    <2>1. WriterInv(d) /\ (At(d, "createItems") => calls[d].version \in Versions)
      BY DEF IInv, GenerationInv, CallInv, Generating, At
    <2>2. CASE d = c
      BY <1>1, <2>2 DEF WriterInv, At
    <2>3. CASE d # c
      BY <1>1, <2>1, <2>3 DEF WriterInv, At
    <2> QED
      BY <2>2, <2>3
  <1>3. \A v \in Versions : MatrixInv(v)'
    BY DEF IInv, GenerationInv, MatrixInv
  <1>4. ASSUME NEW v \in Versions, matrices[v].row, ItemsOf(v) # matrices[v].made
        PROVE  ItemsOf(v) = {} /\ (Writing(v)' \/ faults' > 0)
    <2>1. ItemsOf(v) = {} /\ (Writing(v) \/ faults > 0)
      BY <1>4 DEF IInv, GenerationInv, OneGenerationPerVersion
    <2>2. CASE faults > 0
      BY <2>1, <2>2 DEF IInv, TypeOK
    <2>3. CASE Writing(v)
      BY <1>1, <2>1, <2>3 DEF Writing, At
    <2> QED
      BY <2>1, <2>2, <2>3
  <1> QED
    BY <1>2, <1>3, <1>4 DEF GenerationInv, OneGenerationPerVersion

\* A call that was not uploading moves, or a call dies.
LEMMA UploadsKept ==
  ASSUME IInv, NEW c \in Slots, NEW k \in Call, Become(c, k),
         calls[c].pc \notin Uploads \/ faults' > 0,
         faults' \in Nat, faults' >= faults, UNCHANGED docs, blobs \subseteq blobs'
  PROVE  UploadsSettle'
  <1>1. calls'[c] = k /\ \A d \in Slots \ {c} : calls'[d] = calls[d]
    BY DEF IInv, TypeOK, Become
  <1>2. \A d \in Docs : docs'[d].key => d \in blobs'
    BY DEF IInv, UploadsSettle
  <1>3. ASSUME NEW d \in Docs, faults' = 0, d \in Files, Exists(d), ~Uploading(d)'
        PROVE  docs[d].key
    <2>1. faults = 0
      BY <1>3 DEF IInv, TypeOK
    <2>2. ~Uploading(d)
      BY <1>1, <1>3 DEF Uploading, Uploads
    <2> QED
      BY <1>3, <2>1, <2>2 DEF IInv, UploadsSettle
  <1> QED
    BY <1>2, <1>3 DEF UploadsSettle, Exists

-----------------------------------------------------------------------------
\* Nothing is stored and no call runs at the start.
LEMMA InitInv == Init => IInv
  <1> SUFFICES ASSUME Init PROVE IInv
    OBVIOUS
  <1>1. NewDoc \in Doc /\ NoItems \in [Reqs -> Item \cup {NULL}]
    BY DEF NewDoc, Doc, NoItems
  <1>2. NoMatrix \in Matrix /\ Idle \in Call
    BY <1>1, SubmissionAssumption DEF NoMatrix, Matrix, Idle, Call
  <1>3. TypeOK
    BY <1>1, <1>2 DEF Init, TypeOK
  <1>4. \A c \in Slots : CallInv(calls[c])
    BY DEF Init, CallInv, Idle, Uploads, Linking, Generating
  <1>5. GenerationInv
    BY DEF Init, GenerationInv, WriterInv, MatrixInv, OneGenerationPerVersion, At, Idle,
           NoMatrix, NoItems, ItemsOf
  <1>6. UploadsSettle /\ LinksHold
    BY DEF Init, UploadsSettle, LinksHold, NewDoc, Exists, DocStates
  <1> QED
    BY <1>3, <1>4, <1>5, <1>6 DEF IInv

\* A finished or dead call relies on nothing.
LEMMA IdleCall == Idle \in Call /\ Idle.pc = "idle" /\ CallInv(Idle) /\ CallInv(Idle)'
  <1>1. NoItems \in [Reqs -> Item \cup {NULL}]
    BY DEF NoItems
  <1>2. Idle \in Call /\ Idle.pc = "idle"
    BY <1>1, SubmissionAssumption DEF Idle, Call
  <1> QED
    BY <1>2 DEF CallInv, Uploads, Linking, Generating

\* A call moves and nothing is written.
LEMMA MoveStep ==
  ASSUME IInv, NEW c \in Slots, NEW k \in Call, Become(c, k), CallInv(k),
         k.pc # "createItems", calls[c].pc \notin Uploads \cup {"createItems"},
         UNCHANGED <<vault, tables, faults>>
  PROVE  IInv'
  <1> USE DEF vault, tables
  <1>1. faults \in Nat
    BY DEF IInv, TypeOK
  <1>2. CallInv(k)'
    BY DEF CallInv
  <1>3. /\ calls' \in [Slots -> Call]
        /\ \A d \in Slots : CallInv(calls[d])'
    BY <1>2, CallsKept
  <1>4. GenerationInv' /\ UploadsSettle'
    BY <1>1, GenerationKept, UploadsKept DEF ItemsOf
  <1>5. LinksHold'
    BY DEF IInv, LinksHold, ItemExists, Exists
  <1>6. TypeOK'
    BY <1>3 DEF IInv, TypeOK
  <1> QED
    BY <1>3, <1>4, <1>5, <1>6 DEF IInv

\* The requests that begin with a check.
LEMMA ArriveSteps ==
  ASSUME IInv, NEW c \in Slots, NEW o \in Orgs,
         \/ \E asked \in Asks :
              \/ StartRequirements(c, o, asked)
              \/ StartGenerate(c, o, asked)
              \/ \E overridden \in Overrides : StartExport(c, o, asked, overridden)
         \/ \E v \in Versions, q \in Reqs :
              \/ \E edit \in Edits : StartUpdateItem(c, o, v, q, edit)
              \/ \E d \in Docs : StartLink(c, o, v, q, d)
  PROVE  IInv'
  <1>1. /\ \A asked \in Asks : asked \subseteq Reqs
        /\ \A overridden \in Overrides : overridden \subseteq Reqs
        /\ Edits \subseteq Edit /\ Versions \subseteq 0..MaxVersion
    BY SubmissionAssumption DEF Versions
  <1>2. ASSUME NEW asked \in Asks, StartRequirements(c, o, asked) PROVE IInv'
    <2> DEFINE k == [Idle EXCEPT !.pc = "createRequirements", !.asked = asked]
    <2>1. k \in Call /\ k.pc = "createRequirements"
      BY <1>1, IdleCall DEF Call, Awaits
    <2>2. CallInv(k)
      BY <2>1 DEF CallInv, Uploads, Linking, Generating
    <2> QED
      BY <1>2, <2>1, <2>2, MoveStep DEF StartRequirements, Begin, At, Become, Uploads
  <1>3. ASSUME NEW asked \in Asks, StartGenerate(c, o, asked) PROVE IInv'
    <2> DEFINE k == [Idle EXCEPT !.pc = "getTender", !.org = o, !.asked = asked,
                                 !.view = VaultView(o)]
    <2>1. VaultView(o) \in View
      BY DEF VaultView, View, Exists
    <2>2. k \in Call /\ k.pc = "getTender"
      BY <1>1, <2>1, IdleCall DEF Call, Awaits
    <2>3. CallInv(k)
      BY <2>2 DEF CallInv, Uploads, Linking, Generating
    <2> QED
      BY <1>3, <2>2, <2>3, MoveStep DEF StartGenerate, Begin, At, Become, Uploads
  <1>4. ASSUME NEW asked \in Asks, NEW overridden \in Overrides,
               StartExport(c, o, asked, overridden)
        PROVE  IInv'
    <2> DEFINE k == [Idle EXCEPT !.pc = "list", !.org = o, !.asked = asked,
                                 !.overridden = overridden]
    <2>1. k \in Call /\ k.pc = "list" /\ k.org = o
      BY <1>1, IdleCall DEF Call, Awaits
    <2>2. CallInv(k)
      BY <1>4, <2>1 DEF CallInv, Uploads, Linking, Generating, StartExport, TenderVisible
    <2> QED
      BY <1>4, <2>1, <2>2, MoveStep DEF StartExport, Begin, At, Become, Uploads
  <1>5. ASSUME NEW v \in Versions, NEW q \in Reqs, NEW edit \in Edits,
               StartUpdateItem(c, o, v, q, edit)
        PROVE  IInv'
    <2> DEFINE k == [Idle EXCEPT !.pc = "updateItem", !.version = v, !.req = q, !.edit = edit]
    <2>1. v \in 0..MaxVersion /\ edit \in Edit
      BY <1>1
    <2>2. k \in Call /\ k.pc = "updateItem" /\ k.version = v /\ k.req = q /\ k.edit = edit
      BY <1>1, <2>1, IdleCall DEF Call, Awaits
    <2>3. CallInv(k)
      BY <2>1, <2>2 DEF CallInv, Uploads, Linking, Generating
    <2> QED
      BY <1>5, <2>2, <2>3, MoveStep DEF StartUpdateItem, Begin, At, Become, Uploads
  <1>6. ASSUME NEW v \in Versions, NEW q \in Reqs, NEW d \in Docs, StartLink(c, o, v, q, d)
        PROVE  IInv'
    <2> DEFINE k == [Idle EXCEPT !.pc = "findDocument", !.org = o, !.version = v,
                                 !.req = q, !.doc = d]
    <2>1. v \in 0..MaxVersion /\ o = TenderOrg
      BY <1>1, <1>6 DEF StartLink
    <2>2. /\ k \in Call /\ k.pc = "findDocument" /\ k.version = v /\ k.req = q
          /\ k.doc = d /\ k.org = o
      BY <1>1, <2>1, IdleCall DEF Call, Awaits
    <2>3. CallInv(k)
      BY <2>1, <2>2 DEF CallInv, Uploads, Linking, Generating
    <2> QED
      BY <1>6, <2>2, <2>3, MoveStep DEF StartLink, Begin, At, Become, Uploads
  <1> QED
    BY <1>2, <1>3, <1>4, <1>5, <1>6

\* The awaits that only read.
LEMMA ReadSteps ==
  ASSUME IInv, NEW c \in Slots,
         \/ GetTender(c) \/ LoadRequirements(c) \/ LatestForTender(c)
         \/ FindDocument(c) \/ ListAndBuild(c) \/ RecordPack(c)
  PROVE  IInv'
  <1>1. calls[c] \in Call /\ CallInv(calls[c]) /\ TypeOK
    BY DEF IInv, TypeOK
  <1>2. ASSUME Return(c), UNCHANGED <<vault, tables, faults>>,
               calls[c].pc \notin Uploads \cup {"createItems"}
        PROVE  IInv'
    BY <1>2, IdleCall, MoveStep DEF Return
  <1>3. CASE GetTender(c)
    <2>1. PICK pc \in {"requirements", "latest"} :
            pc = IF calls[c].asked = {} THEN "requirements" ELSE "latest"
      OBVIOUS
    <2> DEFINE k == [calls[c] EXCEPT !.org = NULL, !.pc = pc]
    <2>2. k \in Call /\ k.pc = pc
      BY <1>1 DEF Call, Awaits
    <2>3. CallInv(k)
      BY <2>2 DEF CallInv, Uploads, Linking, Generating
    <2>4. CASE Become(c, k)
      BY <1>3, <2>2, <2>3, <2>4, MoveStep DEF GetTender, At, Uploads
    <2>5. CASE Return(c)
      BY <1>2, <1>3, <2>5 DEF GetTender, At, Uploads
    <2> QED
      BY <1>3, <2>1, <2>4, <2>5 DEF GetTender
  <1>4. CASE LoadRequirements(c)
    <2> DEFINE k == [calls[c] EXCEPT !.pc = "latest", !.asked = reqs]
    <2>1. k \in Call /\ k.pc = "latest"
      BY <1>1 DEF Call, Awaits, TypeOK
    <2>2. CallInv(k)
      BY <2>1 DEF CallInv, Uploads, Linking, Generating
    <2> QED
      BY <1>4, <2>1, <2>2, MoveStep DEF LoadRequirements, At, Uploads
  <1>5. CASE LatestForTender(c)
    <2>1. PICK latest \in 0..MaxVersion :
            \/ /\ latest < MaxVersion
               /\ Become(c, [calls[c] EXCEPT !.pc = "createMatrix", !.version = latest + 1,
                               !.items = GenerateMatrix(calls[c].asked, calls[c].view, expired),
                               !.view = NULL])
            \/ Return(c)
      BY <1>5 DEF LatestForTender
    <2> DEFINE items == GenerateMatrix(calls[c].asked, calls[c].view, expired)
               k == [calls[c] EXCEPT !.pc = "createMatrix", !.version = latest + 1,
                                     !.items = items, !.view = NULL]
    <2>2. calls[c].asked \in SUBSET Reqs
      BY <1>1 DEF Call
    <2>3. items \in [Reqs -> Item \cup {NULL}] /\ ItemsIn(items) = calls[c].asked
      BY <2>2, GenerateMatrixType
    <2> HIDE DEF items
    <2>4. ASSUME latest < MaxVersion
          PROVE  latest + 1 \in Versions /\ latest + 1 \in 0..MaxVersion
      BY <2>4, SubmissionAssumption DEF Versions
    <2>5. ASSUME latest < MaxVersion
          PROVE  /\ k \in Call /\ k.pc = "createMatrix" /\ k.items = items
                 /\ k.asked = calls[c].asked /\ k.version \in Versions
      BY <1>1, <2>3, <2>5, <2>4 DEF Call, Awaits
    <2>6. ASSUME latest < MaxVersion PROVE CallInv(k)
      BY <2>3, <2>5, <2>6 DEF CallInv, Uploads, Linking, Generating
    <2>7. calls[c].pc = "latest"
      BY <1>5 DEF LatestForTender, At
    <2>8. CASE latest < MaxVersion /\ Become(c, k)
      BY <1>5, <2>5, <2>6, <2>7, <2>8, MoveStep DEF LatestForTender, Uploads
    <2> QED
      BY <1>2, <1>5, <2>1, <2>7, <2>8 DEF LatestForTender, Uploads, items
  <1>6. CASE FindDocument(c)
    <2> DEFINE k == [calls[c] EXCEPT !.pc = "createLink"]
    <2>1. /\ k \in Call /\ k.pc = "createLink" /\ k.doc = calls[c].doc /\ k.org = calls[c].org
          /\ k.version = calls[c].version /\ k.req = calls[c].req
      BY <1>1 DEF Call, Awaits
    <2>2. ASSUME Found(calls[c].doc, calls[c].org) PROVE CallInv(k)
      BY <1>1, <1>6, <2>1, <2>2
         DEF CallInv, Uploads, Linking, Generating, Found, FindDocument, At
    <2> QED
      BY <1>2, <1>6, <2>1, <2>2, MoveStep DEF FindDocument, At, Uploads
  <1>7. CASE ListAndBuild(c)
    <2> DEFINE items == GenerateMatrix(calls[c].asked, VaultView(calls[c].org), expired)
               k == [calls[c] EXCEPT !.pc = "record", !.items = items,
                                     !.lacking = Lacking(calls[c].asked),
                                     !.bare = Bare(calls[c].asked)]
    <2>1. /\ calls[c].asked \in SUBSET Reqs /\ calls[c].overridden \in SUBSET Reqs
          /\ calls[c].org = TenderOrg /\ calls[c].pc = "list"
      BY <1>1, <1>7 DEF Call, CallInv, ListAndBuild, At
    <2>2. items \in [Reqs -> Item \cup {NULL}]
      BY <2>1, GenerateMatrixType
    <2>3. ASSUME ExportGate(items, calls[c].overridden) = {}
          PROVE  /\ Lacking(calls[c].asked) \subseteq DeriveTasks(items)
                 /\ Bare(calls[c].asked) \cap Critical \subseteq calls[c].overridden
      BY <1>1, <2>1, <2>3, GateHonest
    <2>4. Lacking(calls[c].asked) \subseteq Reqs /\ Bare(calls[c].asked) \subseteq Reqs
      BY <2>1 DEF Lacking, Bare
    <2>5. CASE ExportGate(items, calls[c].overridden) = {}
      <3>1. Become(c, k) /\ UNCHANGED <<vault, tables, faults>>
        BY <1>7, <2>5 DEF ListAndBuild
      <3> HIDE DEF items
      <3>2. /\ k \in Call /\ k.pc = "record" /\ k.items = items
            /\ k.lacking = Lacking(calls[c].asked) /\ k.bare = Bare(calls[c].asked)
            /\ k.overridden = calls[c].overridden
        BY <1>1, <2>2, <2>4 DEF Call, Awaits
      <3>3. CallInv(k)
        BY <2>3, <2>5, <3>2 DEF CallInv, Uploads, Linking, Generating
      <3> QED
        BY <2>1, <3>1, <3>2, <3>3, MoveStep DEF Uploads
    <2>6. CASE ExportGate(items, calls[c].overridden) # {}
      BY <1>2, <1>7, <2>1, <2>6 DEF ListAndBuild, Uploads
    <2> QED
      BY <2>5, <2>6
  <1>8. CASE RecordPack(c)
    BY <1>2, <1>8 DEF RecordPack, At, Uploads
  <1> QED
    BY <1>3, <1>4, <1>5, <1>6, <1>7, <1>8

-----------------------------------------------------------------------------
(* The vault. *)

\* Steps outside any call leave the calls' facts and the generations alone.
LEMMA CallsUnmoved ==
  ASSUME IInv, UNCHANGED calls, blobs \subseteq blobs'
  PROVE  /\ \A c \in Slots : CallInv(calls[c])'
         /\ \A d \in Docs : Uploading(d)' <=> Uploading(d)
         /\ UNCHANGED <<tender, matrices, faults>> => GenerationInv'
  <1>1. \A c \in Slots : CallInv(calls[c])'
    BY DEF IInv, CallInv
  <1>2. \A d \in Docs : Uploading(d)' <=> Uploading(d)
    BY DEF Uploading
  <1>3. UNCHANGED <<tender, matrices, faults>> => GenerationInv'
    BY DEF IInv, GenerationInv, WriterInv, MatrixInv, OneGenerationPerVersion, ItemsOf, Writing, At
  <1> QED
    BY <1>1, <1>2, <1>3

\* register, setLifecycleState and the passing of time.
LEMMA VaultSteps ==
  ASSUME IInv,
         \/ \E d \in Docs : Register(d) \/ Elapse(d)
         \/ \E o \in Orgs, ch \in StateChanges : SetState(o, ch[1], ch[2])
  PROVE  IInv'
  <1>1. /\ UNCHANGED <<blobs, tables, calls, faults>>
        /\ expired' \subseteq Docs
    BY DEF Register, Elapse, SetState, IInv, TypeOK
  <1>2. /\ docs' \in [Docs -> Doc]
        /\ \A d \in Docs :
             /\ docs'[d].key => docs[d].key
             /\ d \in Files => docs'[d].key = docs[d].key
             /\ Exists(d) => Exists(d)'
             /\ Exists(d)' => Exists(d) \/ d \notin Files
    <2>1. CASE \E d \in Docs : Register(d)
      <3>1. PICK d \in Docs : Register(d)
        BY <2>1
      <3> DEFINE new == [state |-> "active", key |-> FALSE]
      <3>2. docs' = [docs EXCEPT ![d] = new] /\ docs[d].state = "new" /\ d \notin Files
        BY <3>1 DEF Register, Insert
      <3> QED
        BY <3>2 DEF IInv, TypeOK, Doc, DocStates, Exists
    <2>2. CASE \E d \in Docs : Elapse(d)
      BY <2>2 DEF Elapse, IInv, TypeOK, Exists
    <2>3. CASE \E o \in Orgs, ch \in StateChanges : SetState(o, ch[1], ch[2])
      <3>1. PICK o \in Orgs, ch \in StateChanges : SetState(o, ch[1], ch[2])
        BY <2>3
      <3>2. PICK d \in Docs, state \in DocStates : ch[1] = d /\ ch[2] = state
        BY SubmissionAssumption
      <3> DEFINE new == [docs[d] EXCEPT !.state = state]
      <3>3. docs' = [docs EXCEPT ![d] = new] /\ Exists(d)
        BY <3>1, <3>2 DEF SetState
      <3>4. docs[d] \in Doc
        BY DEF IInv, TypeOK
      <3>5. new \in Doc /\ new.key = docs[d].key /\ new.state = state
        BY <3>4 DEF Doc
      <3> HIDE DEF new
      <3> QED
        BY <3>3, <3>5 DEF IInv, TypeOK, Exists
    <2> QED
      BY <2>1, <2>2, <2>3
  <1>3. TypeOK'
    BY <1>1, <1>2 DEF IInv, TypeOK, tables
  <1>4. UploadsSettle'
    BY <1>1, <1>2, CallsUnmoved DEF IInv, UploadsSettle
  <1>5. LinksHold'
    BY <1>1, <1>2 DEF IInv, TypeOK, LinksHold, ItemExists, tables
  <1> QED
    BY <1>1, <1>3, <1>4, <1>5, CallsUnmoved DEF IInv, tables

\* upload inserts the row: from now on its call answers for it.
LEMMA StartUploadStep ==
  ASSUME IInv, NEW c \in Slots, NEW d \in Docs, StartUpload(c, d)
  PROVE  IInv'
  <1> DEFINE k == [Idle EXCEPT !.pc = "put", !.doc = d]
             new == [state |-> "active", key |-> FALSE]
  <1>1. k \in Call /\ k.pc = "put" /\ k.doc = d
    BY IdleCall DEF Call, Awaits
  <1>2. CallInv(k)'
    BY <1>1 DEF CallInv, Uploads, Linking, Generating
  <1>3. /\ Become(c, k) /\ calls[c].pc = "idle"
        /\ docs' = [docs EXCEPT ![d] = new] /\ docs[d].state = "new"
        /\ UNCHANGED <<blobs, expired, tables, faults>>
    BY DEF StartUpload, Insert, Begin, Become, At
  <1>4. /\ calls' \in [Slots -> Call] /\ calls'[c] = k
        /\ \A e \in Slots \ {c} : calls'[e] = calls[e]
        /\ \A e \in Slots : CallInv(calls[e])'
    BY <1>1, <1>2, <1>3, CallsKept
  <1>5. GenerationInv'
    <2>1. faults' \in Nat /\ faults' >= faults /\ UNCHANGED <<tender, matrices>>
      BY <1>3 DEF IInv, TypeOK, tables
    <2> HIDE DEF k
    <2> QED
      BY <1>1, <1>3, <2>1, GenerationKept DEF ItemsOf
  <1>6. docs' \in [Docs -> Doc] /\ docs'[d] = new /\ \A e \in Docs \ {d} : docs'[e] = docs[e]
    BY <1>3 DEF IInv, TypeOK, Doc, DocStates
  <1>7. TypeOK'
    BY <1>3, <1>4, <1>6 DEF IInv, TypeOK, tables
  <1>8. UploadsSettle'
    <2>1. Uploading(d)'
      BY <1>1, <1>4 DEF Uploading
    <2>2. ASSUME NEW e \in Docs \ {d}, ~Uploading(e)' PROVE ~Uploading(e)
      BY <1>3, <1>4, <2>2 DEF Uploading
    <2> QED
      BY <1>3, <1>6, <2>1, <2>2 DEF IInv, UploadsSettle, Exists
  <1>9. LinksHold'
    BY <1>3, <1>6 DEF IInv, TypeOK, LinksHold, ItemExists, Exists, DocStates, tables
  <1> QED
    BY <1>4, <1>5, <1>7, <1>8, <1>9 DEF IInv

\* The put of the object, and its failure.
LEMMA PutStep ==
  ASSUME IInv, NEW c \in Slots, PutObject(c)
  PROVE  IInv'
  <1>1. calls[c] \in Call /\ CallInv(calls[c]) /\ calls[c].pc = "put" /\ calls[c].doc \in Docs
    BY DEF IInv, TypeOK, PutObject, At, CallInv, Uploads
  <1>2. PICK pc \in {"attach", "cleanup"} :
          /\ Become(c, [calls[c] EXCEPT !.pc = pc])
          /\ blobs' = IF pc = "attach" THEN blobs \cup {calls[c].doc} ELSE blobs
          /\ UNCHANGED <<docs, expired, tables, faults>>
    BY DEF PutObject
  <1>3. PICK k : k = [calls[c] EXCEPT !.pc = pc]
    OBVIOUS
  <1>4. k \in Call /\ k.pc = pc /\ k.doc = calls[c].doc
    BY <1>1, <1>3 DEF Call, Awaits
  <1>5. CallInv(k)'
    BY <1>1, <1>2, <1>4 DEF CallInv, Uploads, Linking, Generating
  <1>6. Become(c, k) /\ blobs \subseteq blobs' /\ blobs' \subseteq Docs
    BY <1>1, <1>2, <1>3 DEF IInv, TypeOK
  <1>7. /\ calls' \in [Slots -> Call] /\ calls'[c] = k
        /\ \A e \in Slots \ {c} : calls'[e] = calls[e]
        /\ \A e \in Slots : CallInv(calls[e])'
    BY <1>4, <1>5, <1>6, CallsKept
  <1>8. GenerationInv'
    BY <1>1, <1>2, <1>4, <1>6, GenerationKept DEF IInv, TypeOK, tables, ItemsOf
  <1>9. UploadsSettle'
    <2>1. ASSUME NEW d \in Docs, ~Uploading(d)' PROVE ~Uploading(d)
      BY <1>4, <1>7, <2>1 DEF Uploading
    <2> QED
      BY <1>2, <1>6, <2>1 DEF IInv, UploadsSettle, Exists
  <1>10. TypeOK' /\ LinksHold'
    BY <1>2, <1>6, <1>7 DEF IInv, TypeOK, LinksHold, ItemExists, Exists, tables
  <1> QED
    BY <1>7, <1>8, <1>9, <1>10 DEF IInv

\* The last await of an upload: the key, or the cleanup after a failed put, which
\* may fail itself.
LEMMA EndUploadSteps ==
  ASSUME IInv, NEW c \in Slots, AttachBlob(c) \/ CleanUp(c)
  PROVE  IInv'
  <1>1. CallInv(calls[c]) /\ calls[c].pc \in {"attach", "cleanup"}
    BY DEF IInv, AttachBlob, CleanUp, At
  <1>2. PICK d \in Docs : d = calls[c].doc
    BY <1>1 DEF CallInv, Uploads
  <1>3. /\ Become(c, Idle)
        /\ UNCHANGED <<blobs, expired, tender, companies, reqs, matrices>>
        /\ faults' \in Nat /\ faults' >= faults
    BY DEF AttachBlob, CleanUp, Return, IInv, TypeOK, tables
  <1>4. docs[d] \in Doc /\ Gone \in Doc /\ [docs[d] EXCEPT !.key = TRUE] \in Doc
    BY DEF IInv, TypeOK, Doc, Gone
  <1>5. /\ calls' \in [Slots -> Call] /\ calls'[c] = Idle
        /\ \A e \in Slots \ {c} : calls'[e] = calls[e]
        /\ \A e \in Slots : CallInv(calls[e])'
    BY <1>3, IdleCall, CallsKept
  <1>6. GenerationInv'
    BY <1>1, <1>3, IdleCall, GenerationKept DEF ItemsOf
  <1>7. /\ docs' \in [Docs -> Doc]
        /\ \A e \in Docs \ {d} : docs'[e] = docs[e]
    BY <1>2, <1>4 DEF AttachBlob, CleanUp, Without, IInv, TypeOK
  <1>8. /\ docs'[d].key => d \in blobs
        /\ faults' = 0 => (~Exists(d)' \/ docs'[d].key)
    <2>1. CASE AttachBlob(c)
      <3>1. d \in blobs
        BY <1>1, <1>2, <2>1 DEF AttachBlob, At, CallInv
      <3>2. Exists(d) => docs'[d].key
        BY <1>2, <1>4, <2>1 DEF AttachBlob, IInv, TypeOK, Doc
      <3>3. ~Exists(d) => ~Exists(d)'
        BY <1>2, <2>1 DEF AttachBlob, Exists
      <3> QED
        BY <3>1, <3>2, <3>3
    <2>2. CASE CleanUp(c) /\ docs' = Without(d)
      BY <1>2, <2>2 DEF Without, Gone, Exists, DocStates, IInv, TypeOK
    <2>3. CASE CleanUp(c) /\ faults' = faults + 1 /\ docs' = docs
      BY <2>3 DEF IInv, TypeOK, UploadsSettle
    <2> QED
      BY <1>2, <2>1, <2>2, <2>3 DEF CleanUp
  <1>9. UploadsSettle'
    <2>1. ASSUME NEW e \in Docs \ {d}, ~Uploading(e)' PROVE ~Uploading(e)
      BY <1>2, <1>5, <2>1 DEF Uploading
    <2>2. faults' = 0 => faults = 0
      BY <1>3 DEF IInv, TypeOK
    <2> QED
      BY <1>3, <1>7, <1>8, <2>1, <2>2 DEF IInv, UploadsSettle, Exists
  <1>10. links' \subseteq links /\ \A l \in links' : Exists(l[3]) => Exists(l[3])'
    <2>1. CASE AttachBlob(c)
      <3>1. links' = links
        BY <2>1 DEF AttachBlob, tables
      <3>2. \A e \in Docs : Exists(e) => Exists(e)'
        BY <1>2, <1>4, <2>1 DEF AttachBlob, Exists, IInv, TypeOK, Doc
      <3>3. \A l \in links : l[3] \in Docs
        BY DEF IInv, TypeOK
      <3> QED
        BY <3>1, <3>2, <3>3
    <2>2. CASE CleanUp(c)
      <3>1. \A l \in links : l[3] \in Docs
        BY DEF IInv, TypeOK
      <3> QED
        BY <1>2, <1>7, <2>2, <3>1 DEF CleanUp, LinksWithout, Exists
    <2> QED
      BY <2>1, <2>2
  <1>11. LinksHold'
    BY <1>3, <1>10 DEF IInv, LinksHold, ItemExists
  <1>12. TypeOK'
    BY <1>3, <1>5, <1>7, <1>10 DEF IInv, TypeOK
  <1> QED
    BY <1>5, <1>6, <1>9, <1>11, <1>12 DEF IInv

-----------------------------------------------------------------------------
(* Requirements, matrices, items and links. *)

\* What the last await of a call that only writes items, links or requirements,
\* and is no upload, leaves to show.
LEMMA LastWrite ==
  ASSUME IInv, NEW c \in Slots, Return(c), calls[c].pc \notin Uploads,
         UNCHANGED <<vault, tender, companies, faults>>,
         reqs' \subseteq Reqs, matrices' \in [Versions -> Matrix],
         links' \subseteq Versions \X Reqs \X Docs, GenerationInv', LinksHold'
  PROVE  IInv'
  <1>1. faults \in Nat
    BY DEF IInv, TypeOK
  <1>2. calls' \in [Slots -> Call] /\ \A d \in Slots : CallInv(calls[d])'
    BY IdleCall, CallsKept DEF Return, vault
  <1>3. UploadsSettle'
    BY <1>1, IdleCall, UploadsKept DEF Return, vault
  <1>4. TypeOK'
    BY <1>2 DEF IInv, TypeOK, vault
  <1> QED
    BY <1>2, <1>3, <1>4 DEF IInv

\* createBulk.
LEMMA CreateRequirementsStep ==
  ASSUME IInv, NEW c \in Slots, CreateRequirements(c)
  PROVE  IInv'
  <1>1. /\ Return(c) /\ calls[c].pc = "createRequirements"
        /\ UNCHANGED <<vault, tender, companies, matrices, links, faults>>
    BY DEF CreateRequirements, At
  <1>2. reqs' \subseteq Reqs
    BY DEF CreateRequirements, IInv, TypeOK, Call
  <1>3. faults \in Nat /\ matrices \in [Versions -> Matrix] /\ links \subseteq Versions \X Reqs \X Docs
    BY DEF IInv, TypeOK
  <1>4. GenerationInv'
    BY <1>1, <1>3, IdleCall, GenerationKept DEF Return, ItemsOf
  <1>5. LinksHold'
    BY <1>1 DEF IInv, LinksHold, ItemExists, Exists, vault
  <1> QED
    BY <1>1, <1>2, <1>3, <1>4, <1>5, LastWrite DEF Uploads

\* An item is edited in place: it does not come or go.
LEMMA UpdateItemStep ==
  ASSUME IInv, NEW c \in Slots, UpdateItem(c)
  PROVE  IInv'
  <1>1. CallInv(calls[c]) /\ calls[c].pc = "updateItem"
    BY DEF IInv, UpdateItem, At
  <1>2. PICK v \in Versions, q \in Reqs, edit \in Edit :
          v = calls[c].version /\ q = calls[c].req /\ edit = calls[c].edit
    BY <1>1 DEF CallInv
  <1>3. /\ Return(c) /\ UNCHANGED <<vault, tender, companies, reqs, links, faults>>
        /\ faults \in Nat /\ reqs \subseteq Reqs /\ links \subseteq Versions \X Reqs \X Docs
    BY DEF UpdateItem, IInv, TypeOK
  <1>4. /\ matrices' \in [Versions -> Matrix]
        /\ \A w \in Versions : /\ matrices'[w].row = matrices[w].row
                               /\ matrices'[w].made = matrices[w].made
                               /\ \A p \in Reqs : matrices'[w].items[p] # NULL
                                                     <=> matrices[w].items[p] # NULL
    <2>1. CASE ~ItemExists(v, q)
      <3>1. matrices' = matrices
        BY <1>2, <2>1 DEF UpdateItem
      <3> QED
        BY <3>1 DEF IInv, TypeOK
    <2>2. CASE ItemExists(v, q)
      <3> DEFINE item == matrices[v].items[q]
                 items == [matrices[v].items EXCEPT ![q] = Edited(item, edit)]
                 new == [matrices[v] EXCEPT !.items = items]
      <3>1. matrices[v] \in Matrix
        BY DEF IInv, TypeOK
      <3>2. item \in Item
        BY <2>2, <3>1 DEF ItemExists, Matrix
      <3>3. Edited(item, edit) \in Item
        BY <3>2 DEF Edited, Item, Edit
      <3>4. Edited(item, edit) # NULL
        BY <3>3, SubmissionAssumption
      <3>5. matrices' = [matrices EXCEPT ![v] = new]
        BY <1>2, <2>2 DEF UpdateItem
      <3>6. /\ new \in Matrix /\ new.row = matrices[v].row /\ new.made = matrices[v].made
            /\ \A p \in Reqs : new.items[p] # NULL <=> matrices[v].items[p] # NULL
        BY <2>2, <3>1, <3>3, <3>4 DEF Matrix, ItemExists
      <3> HIDE DEF new
      <3> QED
        BY <3>5, <3>6 DEF IInv, TypeOK
    <2> QED
      BY <2>1, <2>2
  <1>5. GenerationInv'
    BY <1>1, <1>3, <1>4, IdleCall, GenerationKept DEF Return, ItemsOf
  <1>6. LinksHold'
    BY <1>3, <1>4 DEF IInv, TypeOK, LinksHold, ItemExists, Exists, vault
  <1> QED
    BY <1>1, <1>3, <1>4, <1>5, <1>6, LastWrite DEF Uploads

\* link, at its insert, trusts the checks of two awaits before only for the
\* organization; unlink.
LEMMA LinkSteps ==
  ASSUME IInv,
         \/ \E c \in Slots : CreateLink(c)
         \/ \E o \in Orgs, l \in links : Unlink(o, l)
  PROVE  IInv'
  <1>1. ASSUME NEW c \in Slots, CreateLink(c) PROVE IInv'
    <2>1. CallInv(calls[c]) /\ calls[c].pc = "createLink"
      BY <1>1 DEF IInv, CreateLink, At
    <2>2. PICK v \in Versions, q \in Reqs, d \in Docs :
            /\ v = calls[c].version /\ q = calls[c].req /\ d = calls[c].doc
            /\ DocOrg[d] = TenderOrg
      BY <2>1 DEF CallInv, Linking
    <2>3. /\ Return(c) /\ UNCHANGED <<vault, tender, companies, reqs, matrices, faults>>
          /\ faults \in Nat /\ reqs \subseteq Reqs /\ matrices \in [Versions -> Matrix]
      BY <1>1 DEF CreateLink, IInv, TypeOK
    <2>4. \/ links' = links
          \/ links' = links \cup {<<v, q, d>>} /\ ItemExists(v, q) /\ Exists(d)
      BY <1>1, <2>2 DEF CreateLink
    <2>5. links' \subseteq Versions \X Reqs \X Docs
      BY <2>4 DEF IInv, TypeOK
    <2>6. LinksHold'
      BY <2>2, <2>3, <2>4 DEF IInv, LinksHold, ItemExists, Exists, vault
    <2>7. GenerationInv'
      BY <2>1, <2>3, IdleCall, GenerationKept DEF Return, ItemsOf
    <2> QED
      BY <2>1, <2>3, <2>5, <2>6, <2>7, LastWrite DEF Uploads
  <1>2. ASSUME NEW o \in Orgs, NEW l \in links, Unlink(o, l) PROVE IInv'
    <2>1. links' \subseteq links /\ UNCHANGED <<vault, tender, companies, reqs, matrices, calls, faults>>
      BY <1>2 DEF Unlink
    <2>2. TypeOK'
      BY <2>1 DEF IInv, TypeOK, vault
    <2>3. LinksHold'
      BY <2>1 DEF IInv, LinksHold, ItemExists, Exists, vault
    <2>4. UploadsSettle' /\ GenerationInv' /\ \A c \in Slots : CallInv(calls[c])'
      BY <2>1, CallsUnmoved DEF IInv, UploadsSettle, Exists, vault
    <2> QED
      BY <2>2, <2>3, <2>4 DEF IInv
  <1> QED
    BY <1>1, <1>2

\* The insert of a version: the unique index makes this call its only writer.
LEMMA CreateMatrixStep ==
  ASSUME IInv, NEW c \in Slots, CreateMatrix(c)
  PROVE  IInv'
  <1>1. calls[c] \in Call /\ CallInv(calls[c]) /\ calls[c].pc = "createMatrix"
    BY DEF IInv, TypeOK, CreateMatrix, At
  <1>2. PICK v \in Versions, asked \in SUBSET Reqs :
          v = calls[c].version /\ asked = calls[c].asked
    BY <1>1 DEF CallInv, Generating, Call
  <1>3. CASE ~Insertable(v)
    <2>1. Return(c) /\ UNCHANGED <<vault, tables, faults>>
      BY <1>2, <1>3 DEF CreateMatrix, tables
    <2> QED
      BY <1>1, <2>1, IdleCall, MoveStep DEF Return, Uploads
  <1>4. CASE Insertable(v)
    <2> DEFINE new == [matrices[v] EXCEPT !.row = TRUE, !.made = asked]
    <2>1. matrices' = [matrices EXCEPT ![v] = new] /\ tender /\ ~matrices[v].row
      BY <1>2, <1>4 DEF CreateMatrix, Insertable
    <2>2. UNCHANGED <<vault, tender, companies, reqs, links, faults>>
      BY DEF CreateMatrix
    <2>3. matrices[v] \in Matrix /\ ItemsOf(v) = {}
      BY <2>1 DEF IInv, TypeOK, GenerationInv, MatrixInv
    <2>4. new \in Matrix /\ new.row /\ new.made = asked /\ new.items = matrices[v].items
      BY <2>3 DEF Matrix
    <2> HIDE DEF new
    <2>5. /\ matrices' \in [Versions -> Matrix] /\ matrices'[v] = new
          /\ \A w \in Versions \ {v} : matrices'[w] = matrices[w]
      BY <2>1, <2>4 DEF IInv, TypeOK
    <2>6. ItemsOf(v)' = {} /\ \A w \in Versions \ {v} : ItemsOf(w)' = ItemsOf(w)
      BY <2>3, <2>4, <2>5 DEF ItemsOf
    <2>7. PICK k \in Call :
            /\ Become(c, k) /\ CallInv(k) /\ k.version = (IF asked = {} THEN 0 ELSE v)
            /\ asked = {} => k = Idle
            /\ asked # {} => k.pc = "createItems" /\ k.asked = asked
      <3>1. CASE asked = {}
        BY <1>2, <1>4, <3>1, IdleCall DEF CreateMatrix, Return, Idle
      <3>2. CASE asked # {}
        <4> DEFINE k == [calls[c] EXCEPT !.pc = "createItems"]
        <4>1. /\ k \in Call /\ k.pc = "createItems" /\ k.version = v /\ k.asked = asked
              /\ k.items = calls[c].items
          BY <1>1, <1>2 DEF Call, Awaits
        <4>2. CallInv(k)
          BY <1>1, <1>2, <4>1 DEF CallInv, Uploads, Linking, Generating
        <4>3. Become(c, k)
          BY <1>2, <1>4, <3>2 DEF CreateMatrix
        <4> HIDE DEF k
        <4> QED
          BY <3>2, <4>1, <4>2, <4>3
      <3> QED
        BY <3>1, <3>2
    <2>8. CallInv(k)'
      BY <2>2, <2>7 DEF CallInv, vault
    <2>9. /\ calls' \in [Slots -> Call] /\ calls'[c] = k
          /\ \A d \in Slots \ {c} : calls'[d] = calls[d]
          /\ \A d \in Slots : CallInv(calls[d])'
      BY <2>2, <2>7, <2>8, CallsKept DEF vault
    <2>10. ASSUME NEW d \in Slots \ {c}, At(d, "createItems")
           PROVE  calls[d].version \in Versions \ {v}
      BY <2>1, <2>10 DEF IInv, GenerationInv, WriterInv, CallInv, Generating, At
    <2>11. ASSUME NEW d \in Slots PROVE WriterInv(d)'
      <3>1. CASE d = c
        BY <2>4, <2>5, <2>6, <2>7, <2>9, <2>10, <3>1, IdleCall DEF WriterInv, At
      <3>2. CASE d # c
        <4>1. WriterInv(d)
          BY DEF IInv, GenerationInv
        <4>2. SUFFICES ASSUME At(d, "createItems") PROVE WriterInv(d)'
          BY <2>9, <3>2 DEF WriterInv, At
        <4>3. calls[d].version \in Versions \ {v} /\ calls'[d] = calls[d]
          BY <2>9, <2>10, <3>2, <4>2
        <4>4. ASSUME NEW e \in Slots, At(e, "createItems")', calls'[e].version = calls[d].version
              PROVE  e = d
          BY <2>7, <2>9, <4>1, <4>2, <4>3, <4>4, IdleCall DEF WriterInv, At
        <4> QED
          BY <2>2, <2>5, <2>6, <4>1, <4>2, <4>3, <4>4 DEF WriterInv, At
      <3> QED
        BY <3>1, <3>2
    <2>12. \A w \in Versions : MatrixInv(w)'
      BY <2>1, <2>2, <2>4, <2>5, <2>6 DEF IInv, GenerationInv, MatrixInv
    <2>13. OneGenerationPerVersion'
      <3>1. ASSUME asked # {} PROVE Writing(v)'
        BY <2>7, <2>9, <3>1 DEF Writing, At
      <3>2. ASSUME NEW w \in Versions, Writing(w) PROVE Writing(w)'
        BY <1>1, <2>9, <3>2 DEF Writing, At
      <3> QED
        BY <2>2, <2>4, <2>5, <2>6, <3>1, <3>2 DEF IInv, GenerationInv, OneGenerationPerVersion
    <2>14. UploadsSettle'
      <3>1. faults' \in Nat /\ faults' >= faults
        BY <2>2 DEF IInv, TypeOK
      <3> QED
        BY <1>1, <2>2, <2>7, <3>1, UploadsKept DEF Uploads, vault
    <2>15. LinksHold'
      BY <2>2, <2>4, <2>5 DEF IInv, TypeOK, LinksHold, ItemExists, Exists, vault
    <2>16. TypeOK'
      BY <2>2, <2>5, <2>9 DEF IInv, TypeOK, vault
    <2> QED
      BY <2>9, <2>11, <2>12, <2>13, <2>14, <2>15, <2>16 DEF IInv, GenerationInv
  <1> QED
    BY <1>3, <1>4

\* The transaction that writes the items: all of its version's, into an empty
\* version, or into nothing when the tender went away.
LEMMA CreateItemsStep ==
  ASSUME IInv, NEW c \in Slots, CreateItems(c)
  PROVE  IInv'
  <1>1. /\ calls[c] \in Call /\ CallInv(calls[c]) /\ WriterInv(c) /\ calls[c].pc = "createItems"
        /\ At(c, "createItems")
    BY DEF IInv, TypeOK, GenerationInv, CreateItems, At
  <1>2. PICK v \in Versions : v = calls[c].version /\ ItemsIn(calls[c].items) = calls[c].asked
    BY <1>1 DEF CallInv, Generating
  <1>3. /\ Return(c) /\ UNCHANGED <<vault, tender, companies, reqs, links, faults>>
        /\ faults \in Nat /\ reqs \subseteq Reqs /\ links \subseteq Versions \X Reqs \X Docs
    BY DEF CreateItems, IInv, TypeOK
  <1>4. /\ calls'[c] = Idle /\ \A d \in Slots \ {c} : calls'[d] = calls[d]
    BY <1>3 DEF Return, Become, IInv, TypeOK
  <1>5. /\ matrices' \in [Versions -> Matrix]
        /\ \A w \in Versions \ {v} : matrices'[w] = matrices[w]
        /\ matrices'[v].row = matrices[v].row /\ matrices'[v].made = matrices[v].made
        /\ \A q \in Reqs : matrices[v].items[q] # NULL => matrices'[v].items[q] # NULL
        /\ matrices[v].row => ItemsOf(v)' = matrices[v].made
        /\ ~matrices[v].row => ItemsOf(v)' = ItemsOf(v)
    <2>1. CASE ~matrices[v].row
      <3>1. matrices' = matrices
        BY <1>2, <2>1 DEF CreateItems
      <3> QED
        BY <2>1, <3>1 DEF IInv, TypeOK, ItemsOf
    <2>2. CASE matrices[v].row
      <3> DEFINE items == [q \in Reqs |-> IF calls[c].items[q] # NULL THEN calls[c].items[q]
                                          ELSE matrices[v].items[q]]
                 new == [matrices[v] EXCEPT !.items = items]
      <3>1. matrices' = [matrices EXCEPT ![v] = new]
        BY <1>2, <2>2 DEF CreateItems
      <3>2. matrices[v] \in Matrix /\ calls[c].items \in [Reqs -> Item \cup {NULL}]
        BY <1>1 DEF IInv, TypeOK, Call
      <3>3. items \in [Reqs -> Item \cup {NULL}]
        BY <3>2 DEF Matrix
      <3>4. matrices[v].made = calls[c].asked /\ ItemsOf(v) = {}
        BY <1>1, <1>2, <2>2 DEF WriterInv
      <3>5. ItemsIn(items) = calls[c].asked
        BY <1>2, <3>4 DEF ItemsIn, ItemsOf
      <3> HIDE DEF items
      <3>6. new \in Matrix /\ new.row = matrices[v].row /\ new.made = matrices[v].made /\ new.items = items
        BY <3>2, <3>3 DEF Matrix
      <3> HIDE DEF new
      <3>7. matrices' \in [Versions -> Matrix] /\ matrices'[v] = new
            /\ \A w \in Versions \ {v} : matrices'[w] = matrices[w]
        BY <3>1, <3>6 DEF IInv, TypeOK
      <3>8. ItemsOf(v)' = matrices[v].made
        BY <3>4, <3>5, <3>6, <3>7 DEF ItemsOf, ItemsIn
      <3>9. \A q \in Reqs : matrices[v].items[q] = NULL
        BY <3>4 DEF ItemsOf
      <3> QED
        BY <2>2, <3>6, <3>7, <3>8, <3>9
    <2> QED
      BY <2>1, <2>2
  <1>6. \A w \in Versions \ {v} : ItemsOf(w)' = ItemsOf(w)
    BY <1>5 DEF ItemsOf
  <1>7. ASSUME NEW d \in Slots PROVE WriterInv(d)'
    <2>1. SUFFICES ASSUME At(d, "createItems")' PROVE WriterInv(d)'
      BY DEF WriterInv
    <2>2. d # c /\ calls'[d] = calls[d] /\ At(d, "createItems")
      BY <1>4, <2>1, IdleCall DEF At
    <2>3. WriterInv(d) /\ calls[d].version \in Versions \ {v}
      BY <1>1, <1>2, <2>2 DEF IInv, GenerationInv, WriterInv, CallInv, Generating, At
    <2>4. \A e \in Slots : At(e, "createItems")' => At(e, "createItems") /\ calls'[e] = calls[e]
      BY <1>4, IdleCall DEF At
    <2> QED
      BY <1>3, <1>5, <1>6, <2>1, <2>2, <2>3, <2>4 DEF WriterInv
  <1>8. \A w \in Versions : MatrixInv(w)'
    BY <1>3, <1>5, <1>6 DEF IInv, GenerationInv, MatrixInv
  <1>9. OneGenerationPerVersion'
    <2>1. ASSUME NEW w \in Versions \ {v}, Writing(w) PROVE Writing(w)'
      BY <1>2, <1>4, <2>1 DEF Writing, At
    <2> QED
      BY <1>3, <1>5, <1>6, <2>1 DEF IInv, GenerationInv, OneGenerationPerVersion
  <1>10. LinksHold'
    <2>1. \A w \in Versions, q \in Reqs : ItemExists(w, q) => ItemExists(w, q)'
      BY <1>5 DEF ItemExists
    <2> QED
      BY <1>3, <2>1 DEF IInv, TypeOK, LinksHold, Exists, vault
  <1> QED
    BY <1>1, <1>3, <1>5, <1>7, <1>8, <1>9, <1>10, LastWrite DEF GenerationInv, Uploads

-----------------------------------------------------------------------------
(* Deletions and deaths. *)

\* The cascade of a tender: calls that were on their way find nothing to write.
LEMMA DropTenderKeeps ==
  ASSUME IInv, DropTender, UNCHANGED <<calls, faults>>
  PROVE  GenerationInv' /\ LinksHold' /\ matrices' \in [Versions -> Matrix]
  <1>1. NoMatrix \in Matrix
    BY DEF NoMatrix, Matrix, NoItems
  <1>2. /\ matrices' = [v \in Versions |-> NoMatrix] /\ ~tender' /\ links' = {}
    BY DEF DropTender
  <1>3. \A v \in Versions : ~matrices'[v].row /\ ItemsOf(v)' = {}
    BY <1>2 DEF NoMatrix, NoItems, ItemsOf
  <1>4. ASSUME NEW c \in Slots PROVE WriterInv(c)'
    <2>1. WriterInv(c) /\ CallInv(calls[c])
      BY DEF IInv, GenerationInv
    <2>2. At(c, "createItems") => calls[c].version \in Versions
      BY <2>1 DEF CallInv, Generating, At
    <2> QED
      BY <1>2, <1>3, <2>1, <2>2 DEF WriterInv, At
  <1> QED
    BY <1>1, <1>2, <1>3, <1>4 DEF GenerationInv, MatrixInv, OneGenerationPerVersion, LinksHold

\* Removing the tender.
LEMMA RemoveTenderStep ==
  ASSUME IInv, NEW o \in Orgs, RemoveTender(o)
  PROVE  IInv'
  <1>1. DropTender /\ UNCHANGED <<vault, companies, calls, faults>>
    BY DEF RemoveTender
  <1>2. TypeOK'
    BY <1>1, DropTenderKeeps DEF IInv, TypeOK, DropTender, vault
  <1>3. UploadsSettle' /\ \A c \in Slots : CallInv(calls[c])'
    BY <1>1, CallsUnmoved DEF IInv, UploadsSettle, Exists, vault
  <1> QED
    BY <1>1, <1>2, <1>3, DropTenderKeeps DEF IInv

\* Removing a client company takes its documents, their links and perhaps the
\* tender with it.
LEMMA RemoveCompanyStep ==
  ASSUME IInv, NEW k \in Companies, RemoveCompany(k)
  PROVE  IInv'
  <1>1. /\ UNCHANGED <<blobs, expired, calls, faults>> /\ companies' \subseteq Companies
        /\ docs' = [d \in Docs |-> IF DocCompany[d] = k /\ Exists(d) THEN Gone ELSE docs[d]]
    BY DEF RemoveCompany, IInv, TypeOK
  <1>2. Gone \in Doc /\ ~Gone.key /\ Gone.state \notin DocStates
    BY DEF Gone, Doc, DocStates
  <1>3. docs' \in [Docs -> Doc]
    BY <1>1, <1>2 DEF IInv, TypeOK
  <1>4. \A d \in Docs : \/ docs'[d] = docs[d]
                        \/ ~Exists(d)' /\ ~docs'[d].key /\ DocCompany[d] = k
    BY <1>1, <1>2 DEF Exists
  <1>5. UploadsSettle' /\ \A c \in Slots : CallInv(calls[c])'
    BY <1>1, <1>4, CallsUnmoved DEF IInv, UploadsSettle, Exists
  <1>6. CASE k = TenderCompany
    <2>1. DropTender
      BY <1>6 DEF RemoveCompany
    <2>2. TypeOK'
      BY <1>1, <1>3, <2>1, DropTenderKeeps DEF IInv, TypeOK, DropTender
    <2> QED
      BY <1>1, <1>5, <2>1, <2>2, DropTenderKeeps DEF IInv
  <1>7. CASE k # TenderCompany
    <2>1. links' = {l \in links : DocCompany[l[3]] # k} /\ UNCHANGED <<tender, reqs, matrices>>
      BY <1>7 DEF RemoveCompany
    <2>2. \A l \in links : l[3] \in Docs
      BY DEF IInv, TypeOK
    <2>3. LinksHold'
      BY <1>4, <2>1, <2>2 DEF IInv, LinksHold, ItemExists, Exists
    <2>4. GenerationInv'
      BY <1>1, <2>1, CallsUnmoved
    <2>5. TypeOK'
      BY <1>1, <1>3, <2>1 DEF IInv, TypeOK
    <2> QED
      BY <1>5, <2>3, <2>4, <2>5 DEF IInv
  <1> QED
    BY <1>6, <1>7

\* A call dies between two awaits.
LEMMA CrashStep ==
  ASSUME IInv, NEW c \in Slots, Crash(c)
  PROVE  IInv'
  <1>1. Become(c, Idle) /\ UNCHANGED <<vault, tables>>
    BY DEF Crash, Return
  <1>2. faults' \in Nat /\ faults' > 0 /\ faults' >= faults
    BY DEF Crash, IInv, TypeOK
  <1>3. calls' \in [Slots -> Call] /\ \A d \in Slots : CallInv(calls[d])'
    BY <1>1, IdleCall, CallsKept DEF vault
  <1>4. GenerationInv'
    BY <1>1, <1>2, IdleCall, GenerationKept DEF tables, ItemsOf
  <1>5. UploadsSettle'
    BY <1>1, <1>2, IdleCall, UploadsKept DEF vault
  <1>6. TypeOK' /\ LinksHold'
    BY <1>1, <1>2, <1>3 DEF IInv, TypeOK, LinksHold, ItemExists, Exists, vault, tables
  <1> QED
    BY <1>3, <1>4, <1>5, <1>6 DEF IInv

\* Every step keeps the inductive invariant.
LEMMA NextInv == IInv /\ [Next]_vars => IInv'
  <1> SUFFICES ASSUME IInv, [Next]_vars PROVE IInv'
    OBVIOUS
  <1>1. ASSUME NEW c \in Slots, Arrive(c) PROVE IInv'
    BY <1>1, StartUploadStep, ArriveSteps DEF Arrive
  <1>2. ASSUME NEW c \in Slots, Step(c) PROVE IInv'
    BY <1>2, PutStep, EndUploadSteps, CreateRequirementsStep, ReadSteps, CreateMatrixStep,
       CreateItemsStep, UpdateItemStep, LinkSteps DEF Step
  <1>3. CASE UNCHANGED vars
    <2>1. UNCHANGED <<docs, blobs, expired, tender, companies, reqs, matrices, links, calls, faults>>
      BY <1>3 DEF vars
    <2>2. TypeOK' /\ LinksHold'
      BY <2>1 DEF IInv, TypeOK, LinksHold, ItemExists, Exists
    <2>3. UploadsSettle' /\ GenerationInv' /\ \A c \in Slots : CallInv(calls[c])'
      BY <2>1, CallsUnmoved DEF IInv, UploadsSettle, Exists
    <2> QED
      BY <2>2, <2>3 DEF IInv
  <1>4. CASE \/ \E d \in Docs : Register(d) \/ Elapse(d)
             \/ \E o \in Orgs, ch \in StateChanges : SetState(o, ch[1], ch[2])
    BY <1>4, VaultSteps
  <1>5. CASE \/ \E o \in Orgs : RemoveTender(o)
             \/ \E o \in Orgs, l \in links : Unlink(o, l)
             \/ \E k \in Companies : RemoveCompany(k)
    BY <1>5, RemoveTenderStep, LinkSteps, RemoveCompanyStep
  <1> QED
    BY <1>1, <1>2, <1>3, <1>4, <1>5, CrashStep DEF Next

\* The inductive invariant of the specification.
LEMMA Invariance == Spec => []IInv
  BY InitInv, NextInv, PTL DEF Spec

-----------------------------------------------------------------------------
\* The tables and calls keep their shape, although rows vanish under running calls.
THEOREM TypeCorrect == Spec => []TypeOK
  <1>1. IInv => TypeOK
    BY DEF IInv
  <1> QED
    BY <1>1, Invariance, PTL

\* An evidence link never dangles and never crosses organizations: link checks the
\* item and the document two awaits before its insert, and the foreign keys and
\* cascades make up for what was removed meanwhile.
THEOREM LinksNeverDangle == Spec => []LinksHold
  <1>1. IInv => LinksHold
    BY DEF IInv
  <1> QED
    BY <1>1, Invariance, PTL

\* Two generations that computed the same version number never mix their items:
\* the unique index of generateAndPersist's first insert decides, for any number of
\* concurrent generations and versions.
THEOREM GenerationsStayApart == Spec => []OneGenerationPerVersion
  <1>1. IInv => OneGenerationPerVersion
    BY DEF IInv, GenerationInv
  <1> QED
    BY <1>1, Invariance, PTL

\* An upload leaves a row with its object or no row, unless a call died or the
\* swallowed cleanup failed; and no key without an object even then.
THEOREM UploadsAlwaysSettle == Spec => []UploadsSettle
  <1>1. IInv => UploadsSettle
    BY DEF IInv
  <1> QED
    BY <1>1, Invariance, PTL

\* No pack hides a gap, for every vault, requirement list and override list.
THEOREM PacksAreHonest == Spec => []PackHonest
  <1>1. IInv => PackHonest
    BY DEF IInv, CallInv, PackHonest, At
  <1> QED
    BY <1>1, Invariance, PTL
=============================================================================
