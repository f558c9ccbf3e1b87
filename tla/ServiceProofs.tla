---------------------------- MODULE ServiceProofs ---------------------------
(***************************************************************************)
(* Proofs about the seven services: what a withdrawal of consent stops,    *)
(* what the audit trail tells of who has access and of the authority's     *)
(* mail, and the services that deal with the outside: inbound mail, the    *)
(* ingestion portal, Stripe's events and the LLM's answers.  They hold for *)
(* any number of users, handlers, messages, payloads, events and faults.   *)
(***************************************************************************)
EXTENDS MCServices, Integers, Sequences, FiniteSetTheorems, TLAPS

\* A set with one element more or less has one more or less to count.
LEMMA CountAdd ==
  ASSUME NEW S, NEW x, IsFiniteSet(S), x \notin S
  PROVE  /\ IsFiniteSet(S \cup {x}) /\ Cardinality(S) \in Nat
         /\ Cardinality(S \cup {x}) = Cardinality(S) + 1
  BY FS_AddElement, FS_CardinalityType

\* A set without one of its elements has one element less.
LEMMA CountRemove ==
  ASSUME NEW S, NEW x \in S, IsFiniteSet(S)
  PROVE  /\ IsFiniteSet(S \ {x}) /\ Cardinality(S \ {x}) \in Nat
         /\ Cardinality(S) = Cardinality(S \ {x}) + 1
  <1>1. /\ IsFiniteSet(S \ {x}) /\ Cardinality(S \ {x}) = Cardinality(S) - 1
        /\ Cardinality(S) \in Nat
    BY FS_RemoveElement, FS_CardinalityType
  <1>2. Cardinality(S \ {x}) \in Nat
    BY <1>1, FS_CardinalityType
  <1> QED
    BY <1>1, <1>2

\* The handlers of a kind are at most the slots.
LEMMA CountWithin ==
  ASSUME NEW A \in SUBSET Slots
  PROVE  /\ IsFiniteSet(A) /\ Cardinality(A) \in Nat /\ Cardinality(Slots) \in Nat
         /\ Cardinality(A) <= Cardinality(Slots)
  BY BoundsAssumption, FS_Subset, FS_CardinalityType

\* One handler moves: the sets A and B of handlers before and after differ in
\* it alone.
LEMMA OneMoves ==
  ASSUME NEW A \in SUBSET Slots, NEW B \in SUBSET Slots, NEW c \in Slots, A \ {c} = B \ {c}
  PROVE  /\ Cardinality(A) \in Nat /\ Cardinality(B) \in Nat
         /\ (c \in A <=> c \in B) => Cardinality(B) = Cardinality(A)
         /\ c \in A /\ c \notin B => Cardinality(A) = Cardinality(B) + 1
         /\ c \notin A /\ c \in B => Cardinality(B) = Cardinality(A) + 1
  <1>1. /\ IsFiniteSet(A) /\ IsFiniteSet(B) /\ Cardinality(A) \in Nat /\ Cardinality(B) \in Nat
    BY CountWithin
  <1>2. (c \in A <=> c \in B) => A = B
    OBVIOUS
  <1>3. ASSUME c \in A, c \notin B PROVE Cardinality(A) = Cardinality(B) + 1
    <2>1. A = B \cup {c}
      BY <1>3
    <2> QED
      BY <1>1, <1>3, <2>1, FS_AddElement
  <1>4. ASSUME c \notin A, c \in B PROVE Cardinality(B) = Cardinality(A) + 1
    <2>1. B = A \cup {c}
      BY <1>4
    <2> QED
      BY <1>1, <1>4, <2>1, FS_AddElement
  <1> QED
    BY <1>1, <1>2, <1>3, <1>4

\* Two kinds of handlers that exclude one another fit into the slots together.
LEMMA TwoKindsFit ==
  ASSUME NEW A \in SUBSET Slots, NEW B \in SUBSET Slots, A \cap B = {}
  PROVE  /\ Cardinality(A) \in Nat /\ Cardinality(B) \in Nat /\ Cardinality(Slots) \in Nat
         /\ Cardinality(A) + Cardinality(B) <= Cardinality(Slots)
  <1>1. /\ IsFiniteSet(A) /\ IsFiniteSet(B) /\ Cardinality(A) \in Nat /\ Cardinality(B) \in Nat
    BY CountWithin
  <1>2. Cardinality(A \cup B) = Cardinality(A) + Cardinality(B) - Cardinality(A \cap B)
    BY <1>1, FS_Union
  <1>3. Cardinality(A \cap B) = 0
    BY FS_EmptySet
  <1>4. A \cup B \in SUBSET Slots
    OBVIOUS
  <1>5. Cardinality(A \cup B) <= Cardinality(Slots) /\ Cardinality(Slots) \in Nat
    BY <1>4, CountWithin
  <1> QED
    BY <1>1, <1>2, <1>3, <1>5

\* The services count with an operator of their own, which is the same.
LEMMA SameCounts ==
  ASSUME NEW S
  PROVE  /\ Consent!Cardinality(S) = Cardinality(S)
         /\ Access!Cardinality(S) = Cardinality(S)
         /\ Incidents!Cardinality(S) = Cardinality(S)
         /\ Mail!Cardinality(S) = Cardinality(S)
         /\ Sector!Cardinality(S) = Cardinality(S)
  BY DEF Cardinality, Consent!Cardinality, Access!Cardinality, Incidents!Cardinality,
         Mail!Cardinality, Sector!Cardinality

-----------------------------------------------------------------------------
(* The consent ledger and the reminders.                                    *)

\* The sends that have the ledger's answer.
Underway == {c \in Slots : senders[c] # "none"}

\* After a withdrawal nobody gets the ledger's consent any more: what was sent
\* since and what is still under way fits the slots.
ConsentInv ==
    /\ Consent!TypeOK
    /\ Consent!Withdrawn => heedless + Cardinality(Underway) <= Cardinality(Slots)

\* The ledger answers yes only with a grant no later withdrawal follows.
LEMMA WithdrawnIsDenied ==
  ASSUME Consent!TypeOK, Consent!Withdrawn
  PROVE  ~Consent!MayBeActive
  BY DEF Consent!TypeOK, Consent!ConsentEvent, Consent!Instants, Consent!Withdrawn,
         Consent!MayBeActive, Consent!Current

\* The ledger, the clock and the senders keep their shape.
LEMMA ConsentTypeStep ==
  ASSUME Consent!TypeOK, [Consent!Next]_consentVars
  PROVE  Consent!TypeOK'
  <1> USE BoundsAssumption DEF Consent!TypeOK
  <1>1. CASE UNCHANGED consentVars
    BY <1>1 DEF consentVars
  <1>2. CASE Consent!Tick
    BY <1>2 DEF Consent!Tick, Consent!Instants
  <1>3. ASSUME NEW state \in {"granted", "withdrawn"}, Consent!Record(state)
        PROVE  Consent!TypeOK'
    BY <1>3 DEF Consent!Record, Consent!ConsentEvent
  <1>4. CASE Consent!Anonymise
    BY <1>4 DEF Consent!Anonymise
  <1>5. ASSUME NEW ref \in Refs, Consent!Nudge(ref) PROVE Consent!TypeOK'
    BY <1>5 DEF Consent!Nudge, Consent!Deliver
  <1>6. ASSUME NEW c \in Slots, Consent!Send(c) PROVE Consent!TypeOK'
    BY <1>6 DEF Consent!Send, Consent!Deliver
  <1>7. ASSUME NEW c \in Slots, NEW ref \in Refs, Consent!Ask(c, ref) PROVE Consent!TypeOK'
    BY <1>7 DEF Consent!Ask
  <1>8. CASE Consent!Restart
    BY <1>8 DEF Consent!Restart
  <1> QED
    BY <1>1, <1>2, <1>3, <1>4, <1>5, <1>6, <1>7, <1>8 DEF Consent!Next

\* Each event, each send and each restart preserves the invariant of the consents.
LEMMA ConsentStep == ConsentInv /\ [Consent!Next]_consentVars => ConsentInv'
  <1> SUFFICES ASSUME ConsentInv, [Consent!Next]_consentVars PROVE ConsentInv'
    OBVIOUS
  <1>0. Consent!TypeOK /\ Consent!TypeOK'
    BY ConsentTypeStep DEF ConsentInv
  <1>1. senders \in [Slots -> Refs \cup {"none"}] /\ heedless \in Nat /\ heedless' \in Nat
    BY <1>0 DEF Consent!TypeOK
  <1>2. /\ Underway \subseteq Slots /\ Underway' \subseteq Slots
        /\ Cardinality(Underway) \in Nat /\ Cardinality(Underway') \in Nat
        /\ Cardinality(Slots) \in Nat /\ Cardinality(Underway') <= Cardinality(Slots)
    <2>1. Underway \subseteq Slots /\ Underway' \subseteq Slots
      BY DEF Underway
    <2> QED
      BY <2>1, CountWithin
  <1>3. CASE heedless' = 0
    BY <1>0, <1>2, <1>3 DEF ConsentInv
  <1>4. CASE consents' = consents /\ heedless' = heedless /\ Underway' \subseteq Underway
    <2>1. Cardinality(Underway') <= Cardinality(Underway)
      BY <1>2, <1>4, CountWithin, FS_Subset
    <2>2. Consent!Withdrawn' => Consent!Withdrawn
      BY <1>4 DEF Consent!Withdrawn
    <2> QED
      BY <1>0, <1>1, <1>2, <1>4, <2>1, <2>2 DEF ConsentInv
  <1>5. ASSUME NEW c \in Slots, NEW ref \in Refs, Consent!Ask(c, ref) PROVE ConsentInv'
    <2>1. ~Consent!Withdrawn
      BY <1>0, <1>5, WithdrawnIsDenied DEF Consent!Ask
    <2>2. ~Consent!Withdrawn'
      BY <1>5, <2>1 DEF Consent!Ask, Consent!Withdrawn
    <2> QED
      BY <1>0, <2>2 DEF ConsentInv
  <1>6. ASSUME NEW c \in Slots, Consent!Send(c) PROVE ConsentInv'
    <2>1. c \in Underway /\ Underway' = Underway \ {c}
      BY <1>1, <1>6 DEF Consent!Send, Underway
    <2>2. Cardinality(Underway) = Cardinality(Underway') + 1
      BY <1>2, <2>1, CountWithin, CountRemove
    <2>3. heedless' <= heedless + 1
      BY <1>1, <1>6 DEF Consent!Send
    <2>4. Consent!Withdrawn' => Consent!Withdrawn
      BY <1>6 DEF Consent!Send, Consent!Withdrawn
    <2> QED
      BY <1>0, <1>1, <1>2, <2>2, <2>3, <2>4 DEF ConsentInv
  <1>7. CASE Consent!Restart
    <2>1. consents' = consents /\ heedless' = heedless /\ Underway' \subseteq Underway
      BY <1>7 DEF Consent!Restart, Underway
    <2> QED
      BY <1>4, <2>1
  <1>8. CASE Consent!Tick \/ (\E ref \in Refs : Consent!Nudge(ref)) \/ UNCHANGED consentVars
    <2>1. UNCHANGED <<consents, senders, heedless>>
      BY <1>8 DEF Consent!Tick, Consent!Nudge, consentVars
    <2> QED
      BY <1>4, <2>1 DEF Underway
  <1>9. CASE Consent!Anonymise \/ \E state \in {"granted", "withdrawn"} : Consent!Record(state)
    BY <1>3, <1>9 DEF Consent!Anonymise, Consent!Record
  <1> QED
    BY <1>5, <1>6, <1>7, <1>8, <1>9 DEF Consent!Next

\* sendWhatsAppForSubject: after a withdrawal or an erasure, only the sends
\* that had the ledger's answer already go out, one for each slot at most.
THEOREM WithdrawalsAreHeeded == Spec => []WithdrawalHeeded
  <1>1. Init => ConsentInv
    <2> SUFFICES ASSUME Init PROVE ConsentInv
      OBVIOUS
    <2>1. Consent!TypeOK
      BY BoundsAssumption DEF Init, Consent!Init, Consent!TypeOK, Consent!Instants
    <2>2. Underway = {} /\ heedless = 0
      BY DEF Init, Consent!Init, Underway
    <2>3. Cardinality(Slots) \in Nat
      BY CountWithin
    <2> QED
      BY <2>1, <2>2, <2>3, FS_EmptySet DEF ConsentInv
  <1>2. [Next]_<<focus, rest>> => [Consent!Next]_consentVars
    BY DEF Next, rest
  <1>3. ConsentInv => WithdrawalHeeded
    <2> SUFFICES ASSUME ConsentInv, Consent!Withdrawn PROVE heedless <= Cardinality(Slots)
      BY SameCounts DEF WithdrawalHeeded, Consent!WithdrawalHeeded
    <2>1. Underway \subseteq Slots
      BY DEF Underway
    <2>2. Cardinality(Underway) \in Nat /\ Cardinality(Slots) \in Nat /\ heedless \in Nat
      BY <2>1, CountWithin DEF ConsentInv, Consent!TypeOK
    <2> QED
      BY <2>2 DEF ConsentInv
  <1> QED
    BY <1>1, <1>2, <1>3, ConsentStep, PTL DEF Spec

-----------------------------------------------------------------------------
(* Who has access to a tender.                                              *)

\* The handlers that still have to record a grant to u, or a revocation.
Granting(u) == {c \in Slots : handlers[c] = [pc |-> "granted", user |-> u]}
Revoking(u) == {c \in Slots : handlers[c] = [pc |-> "revoked", user |-> u]}

\* What the trail says of u, with what is still to be recorded, less what the
\* table says.
Excess(u) ==
    ledger[u] + Cardinality(Granting(u)) - Cardinality(Revoking(u))
        - (IF access[u] # 0 THEN 1 ELSE 0)

AccessTypes ==
    /\ access \in [Users -> 0..Access!Owner]
    /\ handlers \in [Slots -> Access!Handler]
    /\ \A c \in Slots : handlers[c].pc # "idle" => handlers[c].user \in Users
    /\ ledger \in [Users -> Int]
    /\ lostEvents \in Nat
    /\ removed \in BOOLEAN

\* Only an event that is lost moves the trail away from the table.
AccessInv ==
    /\ AccessTypes
    /\ ~removed => \A u \in Users : -lostEvents <= Excess(u) /\ Excess(u) <= lostEvents

\* The numbers that make up the account of one user are integers.
LEMMA ExcessType ==
  ASSUME AccessTypes, NEW u \in Users
  PROVE  /\ Cardinality(Granting(u)) \in Nat /\ Cardinality(Revoking(u)) \in Nat
         /\ ledger[u] \in Int /\ Excess(u) \in Int /\ access[u] \in 0..4
  <1>1. Granting(u) \subseteq Slots /\ Revoking(u) \subseteq Slots
    BY DEF Granting, Revoking
  <1>2. Cardinality(Granting(u)) \in Nat /\ Cardinality(Revoking(u)) \in Nat
    BY <1>1, CountWithin
  <1>3. ledger[u] \in Int /\ access[u] \in 0..4
    BY DEF AccessTypes, Access!Owner
  <1> QED
    BY <1>2, <1>3 DEF Excess

\* grant: the row and the handler that will record it come together.
LEMMA GrantStep ==
  ASSUME AccessInv, NEW c \in Slots, NEW u \in Users, NEW role \in Access!ROLE_RANK,
         Access!Grant(c, u, role)
  PROVE  AccessInv'
  <1>1. AccessTypes
    BY DEF AccessInv
  <1>2. /\ handlers[c].pc = "idle" /\ access[u] = 0
        /\ access' = [access EXCEPT ![u] = role]
        /\ handlers' = [handlers EXCEPT ![c] = [pc |-> "granted", user |-> u]]
        /\ UNCHANGED <<ledger, removed, lostEvents>>
    BY DEF Access!Grant, Access!Begin, Access!InsertAllowed
  <1>3. role \in 1..4
    BY DEF Access!ROLE_RANK, Access!Viewer, Access!Owner
  <1>4. AccessTypes'
    <2>1. access' \in [Users -> 0..Access!Owner]
      BY <1>1, <1>2, <1>3 DEF AccessTypes, Access!Owner
    <2>2. /\ handlers' \in [Slots -> Access!Handler]
          /\ \A d \in Slots : handlers'[d].pc # "idle" => handlers'[d].user \in Users
      BY <1>1, <1>2 DEF AccessTypes, Access!Handler
    <2> QED
      BY <1>1, <1>2, <2>1, <2>2 DEF AccessTypes
  <1>5. ASSUME NEW v \in Users, ~removed, -lostEvents <= Excess(v), Excess(v) <= lostEvents
        PROVE  -lostEvents <= Excess(v)' /\ Excess(v)' <= lostEvents
    <2>1. Revoking(v)' = Revoking(v)
      BY <1>1, <1>2 DEF AccessTypes, Revoking
    <2>2. CASE v # u
      <3>1. Granting(v)' = Granting(v) /\ access'[v] = access[v]
        BY <1>1, <1>2, <2>2 DEF AccessTypes, Granting
      <3> QED
        BY <1>2, <1>5, <2>1, <3>1 DEF Excess
    <2>3. CASE v = u
      <3>1. Granting(v)' = Granting(v) \cup {c} /\ c \notin Granting(v) /\ Granting(v) \subseteq Slots
        BY <1>1, <1>2, <2>3 DEF AccessTypes, Granting
      <3>2. access[v] = 0 /\ access'[v] # 0
        BY <1>1, <1>2, <1>3, <2>3 DEF AccessTypes
      <3>3. Cardinality(Granting(v)') = Cardinality(Granting(v)) + 1
        BY <3>1, CountWithin, CountAdd
      <3>4. Excess(v)' = Excess(v)
        BY <1>1, <1>2, <2>1, <3>2, <3>3, ExcessType DEF Excess
      <3> QED
        BY <1>5, <3>4
    <2> QED
      BY <2>2, <2>3
  <1> QED
    BY <1>2, <1>4, <1>5 DEF AccessInv

\* revoke: the row goes, and the handler that will record it comes.
LEMMA RevokeStep ==
  ASSUME AccessInv, NEW c \in Slots, NEW u \in Users, Access!Revoke(c, u)
  PROVE  AccessInv'
  <1>1. AccessTypes
    BY DEF AccessInv
  <1>2. /\ handlers[c].pc = "idle" /\ access[u] # 0
        /\ access' = [access EXCEPT ![u] = 0]
        /\ handlers' = [handlers EXCEPT ![c] = [pc |-> "revoked", user |-> u]]
        /\ UNCHANGED <<ledger, removed, lostEvents>>
    BY DEF Access!Revoke, Access!Begin
  <1>3. AccessTypes'
    <2>1. access' \in [Users -> 0..Access!Owner]
      BY <1>1, <1>2 DEF AccessTypes, Access!Owner
    <2>2. /\ handlers' \in [Slots -> Access!Handler]
          /\ \A d \in Slots : handlers'[d].pc # "idle" => handlers'[d].user \in Users
      BY <1>1, <1>2 DEF AccessTypes, Access!Handler
    <2> QED
      BY <1>1, <1>2, <2>1, <2>2 DEF AccessTypes
  <1>4. ASSUME NEW v \in Users, ~removed, -lostEvents <= Excess(v), Excess(v) <= lostEvents
        PROVE  -lostEvents <= Excess(v)' /\ Excess(v)' <= lostEvents
    <2>1. Granting(v)' = Granting(v)
      BY <1>1, <1>2 DEF AccessTypes, Granting
    <2>2. CASE v # u
      <3>1. Revoking(v)' = Revoking(v) /\ access'[v] = access[v]
        BY <1>1, <1>2, <2>2 DEF AccessTypes, Revoking
      <3> QED
        BY <1>2, <1>4, <2>1, <3>1 DEF Excess
    <2>3. CASE v = u
      <3>1. Revoking(v)' = Revoking(v) \cup {c} /\ c \notin Revoking(v) /\ Revoking(v) \subseteq Slots
        BY <1>1, <1>2, <2>3 DEF AccessTypes, Revoking
      <3>2. access[v] # 0 /\ access'[v] = 0
        BY <1>1, <1>2, <2>3 DEF AccessTypes
      <3>3. Cardinality(Revoking(v)') = Cardinality(Revoking(v)) + 1
        BY <3>1, CountWithin, CountAdd
      <3>4. Excess(v)' = Excess(v)
        BY <1>1, <1>2, <2>1, <3>2, <3>3, ExcessType DEF Excess
      <3> QED
        BY <1>4, <3>4
    <2> QED
      BY <2>2, <2>3
  <1> QED
    BY <1>2, <1>3, <1>4 DEF AccessInv

\* The event is written, and the handler with it done; or it is lost.
LEMMA AccessAuditStep ==
  ASSUME AccessInv, NEW c \in Slots, Access!Audit(c)
  PROVE  AccessInv'
  <1>1. AccessTypes /\ lostEvents \in Nat
    BY DEF AccessInv, AccessTypes
  <1>2. /\ handlers[c].pc # "idle"
        /\ handlers' = [handlers EXCEPT ![c] = Access!Waiting]
        /\ UNCHANGED <<access, removed>>
    BY DEF Access!Audit
  <1>3. PICK u \in Users : handlers[c].user = u
    BY <1>1, <1>2 DEF AccessTypes
  <1>4. PICK pc \in {"granted", "revoked"} : handlers[c] = [pc |-> pc, user |-> u]
    BY <1>1, <1>2, <1>3 DEF AccessTypes, Access!Handler
  <1>5. \/ ledger' = [ledger EXCEPT ![u] = @ + Access!Weight(pc)] /\ lostEvents' = lostEvents
        \/ ledger' = ledger /\ lostEvents' = lostEvents + 1
    BY <1>3, <1>4 DEF Access!Audit
  <1>6. /\ Access!Weight(pc) \in {1, -1}
        /\ pc = "granted" => Access!Weight(pc) = 1
        /\ pc = "revoked" => Access!Weight(pc) = -1
    BY <1>4 DEF Access!Weight
  <1>7. AccessTypes'
    <2>1. /\ handlers' \in [Slots -> Access!Handler]
          /\ \A d \in Slots : handlers'[d].pc # "idle" => handlers'[d].user \in Users
      BY <1>1, <1>2 DEF AccessTypes, Access!Handler, Access!Waiting
    <2>2. ledger' \in [Users -> Int] /\ lostEvents' \in Nat
      BY <1>1, <1>5, <1>6 DEF AccessTypes
    <2> QED
      BY <1>1, <1>2, <2>1, <2>2 DEF AccessTypes
  <1>8. ASSUME NEW v \in Users, ~removed, -lostEvents <= Excess(v), Excess(v) <= lostEvents
        PROVE  -(lostEvents') <= Excess(v)' /\ Excess(v)' <= lostEvents'
    <2>1. Granting(v) \subseteq Slots /\ Revoking(v) \subseteq Slots
      BY DEF Granting, Revoking
    <2>2. CASE v # u
      <3>1. Granting(v)' = Granting(v) /\ Revoking(v)' = Revoking(v)
        BY <1>1, <1>2, <1>4, <2>2 DEF AccessTypes, Granting, Revoking, Access!Waiting
      <3>2. ledger'[v] = ledger[v]
        BY <1>1, <1>5, <2>2 DEF AccessTypes
      <3>3. Excess(v)' = Excess(v)
        BY <1>2, <3>1, <3>2 DEF Excess
      <3> QED
        BY <1>1, <1>5, <1>8, <3>3, ExcessType
    <2>3. CASE v = u /\ pc = "granted"
      <3>1. /\ c \in Granting(v) /\ Granting(v)' = Granting(v) \ {c} /\ Revoking(v)' = Revoking(v)
        BY <1>1, <1>2, <1>4, <2>3 DEF AccessTypes, Granting, Revoking, Access!Waiting
      <3>2. Cardinality(Granting(v)) = Cardinality(Granting(v)') + 1 /\ Cardinality(Granting(v)') \in Nat
        BY <2>1, <3>1, CountWithin, CountRemove
      <3>3. \/ ledger'[v] = ledger[v] + 1 /\ lostEvents' = lostEvents
            \/ ledger'[v] = ledger[v] /\ lostEvents' = lostEvents + 1
        BY <1>1, <1>5, <1>6, <2>3 DEF AccessTypes
      <3>4. \/ Excess(v)' = Excess(v) /\ lostEvents' = lostEvents
            \/ Excess(v)' = Excess(v) - 1 /\ lostEvents' = lostEvents + 1
        BY <1>1, <1>2, <3>1, <3>2, <3>3, ExcessType DEF Excess
      <3> QED
        BY <1>1, <1>8, <3>4, ExcessType
    <2>4. CASE v = u /\ pc = "revoked"
      <3>1. /\ c \in Revoking(v) /\ Revoking(v)' = Revoking(v) \ {c} /\ Granting(v)' = Granting(v)
        BY <1>1, <1>2, <1>4, <2>4 DEF AccessTypes, Granting, Revoking, Access!Waiting
      <3>2. Cardinality(Revoking(v)) = Cardinality(Revoking(v)') + 1 /\ Cardinality(Revoking(v)') \in Nat
        BY <2>1, <3>1, CountWithin, CountRemove
      <3>3. \/ ledger'[v] = ledger[v] - 1 /\ lostEvents' = lostEvents
            \/ ledger'[v] = ledger[v] /\ lostEvents' = lostEvents + 1
        BY <1>1, <1>5, <1>6, <2>4 DEF AccessTypes
      <3>4. \/ Excess(v)' = Excess(v) /\ lostEvents' = lostEvents
            \/ Excess(v)' = Excess(v) + 1 /\ lostEvents' = lostEvents + 1
        BY <1>1, <1>2, <3>1, <3>2, <3>3, ExcessType DEF Excess
      <3> QED
        BY <1>1, <1>8, <3>4, ExcessType
    <2> QED
      BY <1>4, <2>2, <2>3, <2>4
  <1> QED
    BY <1>2, <1>7, <1>8 DEF AccessInv

\* Each grant, revocation, failure and removal preserves the account of every user.
LEMMA AccessStep == AccessInv /\ [Access!Next]_accessVars => AccessInv'
  <1> SUFFICES ASSUME AccessInv, [Access!Next]_accessVars PROVE AccessInv'
    OBVIOUS
  <1>1. CASE UNCHANGED accessVars
    BY <1>1 DEF accessVars, AccessInv, AccessTypes, Excess, Granting, Revoking
  <1>2. CASE Access!RemoveTender
    <2>1. AccessTypes' /\ removed'
      BY <1>2 DEF Access!RemoveTender, AccessInv, AccessTypes, Access!Owner
    <2> QED
      BY <2>1 DEF AccessInv
  <1> QED
    BY <1>1, <1>2, GrantStep, RevokeStep, AccessAuditStep DEF Access!Next

\* grant and revoke of TenderAccessService: for as long as the tender is there,
\* grants less revocations on the trail tell who has a row, up to handlers
\* between their two writes and events that were lost.
THEOREM TrailTellsAccess == Spec => []AccessReconciles
  <1>1. Init => AccessInv
    <2> SUFFICES ASSUME Init PROVE AccessInv
      OBVIOUS
    <2>1. AccessTypes
      <3>1. Access!Waiting \in Access!Handler /\ Access!Waiting.pc = "idle"
        BY DEF Access!Waiting, Access!Handler
      <3>2. /\ access = [u \in Users |-> 0] /\ ledger = [u \in Users |-> 0]
            /\ handlers = [c \in Slots |-> Access!Waiting] /\ lostEvents = 0 /\ ~removed
        BY DEF Init, Access!Init
      <3>3. access \in [Users -> 0..Access!Owner] /\ ledger \in [Users -> Int]
        BY <3>2 DEF Access!Owner
      <3>4. removed \in BOOLEAN
        BY DEF Init, Access!Init
      <3> QED
        BY <3>1, <3>2, <3>3, <3>4 DEF AccessTypes
    <2>2. \A u \in Users : Granting(u) = {} /\ Revoking(u) = {} /\ ledger[u] = 0 /\ access[u] = 0
      BY DEF Init, Access!Init, Granting, Revoking, Access!Waiting
    <2>3. \A u \in Users : Excess(u) = 0
      BY <2>2, FS_EmptySet DEF Excess
    <2> QED
      BY <2>1, <2>3 DEF AccessInv, AccessTypes, Init, Access!Init
  <1>2. [Next]_<<focus, rest>> => [Access!Next]_accessVars
    BY DEF Next, rest
  <1>3. AccessInv => AccessReconciles
    <2> SUFFICES ASSUME AccessInv, ~removed, NEW u \in Users
                 PROVE  Access!Unrecorded(u, "granted") = Cardinality(Granting(u))
                        /\ Access!Unrecorded(u, "revoked") = Cardinality(Revoking(u))
                        /\ (IF Access!HasAtLeast(u, Access!Viewer) THEN 1 ELSE 0)
                             = (IF access[u] # 0 THEN 1 ELSE 0)
                        /\ Excess(u) \in -lostEvents..lostEvents
      BY DEF AccessReconciles, Access!AccessReconciles, Excess
    <2>1. AccessTypes
      BY DEF AccessInv
    <2>2. Excess(u) \in -lostEvents..lostEvents
      BY <2>1, ExcessType DEF AccessInv, AccessTypes
    <2>3. access[u] # 0 <=> Access!HasAtLeast(u, Access!Viewer)
      BY <2>1, ExcessType DEF Access!HasAtLeast, Access!Viewer
    <2> QED
      BY <2>2, <2>3, SameCounts DEF Access!Unrecorded, Granting, Revoking
  <1> QED
    BY <1>1, <1>2, <1>3, AccessStep, PTL DEF Spec

-----------------------------------------------------------------------------
(* Incidents and the authority.                                             *)

IncidentTypes ==
    /\ incidents \in [Incidents!Ids -> Incidents!Incident]
    /\ clock \in Incidents!Hours
    /\ notifiers \in [Slots -> Incidents!Notifier]
    /\ evidence \in [Incidents!Ids -> [intent : Nat, dispatched : Nat, failed : Nat]]
    /\ emails \in [Incidents!Ids -> Nat]
    /\ notified \subseteq Incidents!Ids
    /\ incidentFaults \in Nat
    /\ smtp \in BOOLEAN

\* The notifications of i at a step.
AtStep(i, pc) == {c \in Slots : notifiers[c] = [pc |-> pc, id |-> i]}

\* One, when notification n of i is at step p.
Is(n, i, p) == IF n = [pc |-> p, id |-> i] THEN 1 ELSE 0

\* A notification that is not running has the shape of a notification.
LEMMA OffType == Incidents!Off \in Incidents!Notifier /\ Incidents!Off.pc = "idle"
  BY DEF Incidents!Off, Incidents!Notifier

\* One notification moves: it is counted where it goes and no more where it was.
LEMMA Moved ==
  ASSUME notifiers \in [Slots -> Incidents!Notifier], NEW c \in Slots,
         NEW n \in Incidents!Notifier, notifiers' = [notifiers EXCEPT ![c] = n], NEW i, NEW p
  PROVE  /\ Cardinality(AtStep(i, p)) \in Nat /\ Cardinality(AtStep(i, p)') \in Nat
         /\ Cardinality(AtStep(i, p)') =
              Cardinality(AtStep(i, p))
                - Is(notifiers[c], i, p) + Is(n, i, p)
  <1>1. AtStep(i, p) \subseteq Slots /\ AtStep(i, p) \ {c} \subseteq Slots
    BY DEF AtStep
  <1>2. AtStep(i, p)' = IF n = [pc |-> p, id |-> i] THEN (AtStep(i, p) \ {c}) \cup {c}
                        ELSE AtStep(i, p) \ {c}
    BY DEF AtStep
  <1>3. c \in AtStep(i, p) <=> notifiers[c] = [pc |-> p, id |-> i]
    BY DEF AtStep
  <1>4. /\ Cardinality(AtStep(i, p)) \in Nat /\ Cardinality(AtStep(i, p) \ {c}) \in Nat
        /\ IsFiniteSet(AtStep(i, p)) /\ IsFiniteSet(AtStep(i, p) \ {c})
    BY <1>1, CountWithin
  <1>5. Cardinality(AtStep(i, p)) =
          Cardinality(AtStep(i, p) \ {c}) + Is(notifiers[c], i, p)
    <2>1. CASE c \in AtStep(i, p)
      BY <1>3, <1>4, <2>1, CountRemove DEF Is
    <2>2. CASE c \notin AtStep(i, p)
      <3>1. AtStep(i, p) \ {c} = AtStep(i, p)
        BY <2>2
      <3> QED
        BY <1>3, <1>4, <2>2, <3>1 DEF Is
    <2> QED
      BY <2>1, <2>2
  <1>6. Cardinality((AtStep(i, p) \ {c}) \cup {c}) = Cardinality(AtStep(i, p) \ {c}) + 1
    BY <1>4, CountAdd
  <1>7. CASE n = [pc |-> p, id |-> i]
    BY <1>2, <1>4, <1>5, <1>6, <1>7 DEF Is
  <1>8. CASE n # [pc |-> p, id |-> i]
    BY <1>2, <1>4, <1>5, <1>8 DEF Is
  <1> QED
    BY <1>7, <1>8

\* The types, with an id for every notification that is under way.
LEMMA NoteTypes ==
  ASSUME IncidentTypes, NEW c \in Slots, notifiers[c].id \in Incidents!Ids,
         NEW kind \in {"intent", "dispatched", "failed"}, Incidents!Note(c, kind)
  PROVE  /\ evidence' \in [Incidents!Ids -> [intent : Nat, dispatched : Nat, failed : Nat]]
         /\ \A i \in Incidents!Ids : i # notifiers[c].id => evidence'[i] = evidence[i]
         /\ \A k \in {"intent", "dispatched", "failed"} :
              evidence'[notifiers[c].id][k] =
                evidence[notifiers[c].id][k] + (IF k = kind THEN 1 ELSE 0)
  BY DEF IncidentTypes, Incidents!Note

\* Required, and still in the Map of the process.
Overdue(i) == Incidents!Present(i) /\ Incidents!RequiresAuthorityNotification(i)

\* Times do not run ahead of the clock, and whatever is being notified or was
\* notified is overdue.
OverdueInv ==
    /\ \A i \in Incidents!Ids :
          /\ incidents[i].detected <= clock
          /\ incidents[i].reported # Incidents!NotReported => incidents[i].reported <= clock
    /\ \A c \in Slots : notifiers[c].pc # "idle" =>
          notifiers[c].id \in Incidents!Ids /\ Overdue(notifiers[c].id)
    /\ \A i \in notified : Overdue(i)

\* A fault may end every notification under way.
Allowance == incidentFaults * Cardinality(Slots)

\* An intent pays for the email that was sent or is about to be; an email for
\* the record of it that was written or is about to be.
EvidenceOf(i) ==
    /\ emails[i] + Cardinality(AtStep(i, "send")) <= evidence[i].intent
    /\ evidence[i].dispatched + Cardinality(AtStep(i, "dispatched")) <= emails[i]
    /\ emails[i] <= evidence[i].dispatched + Cardinality(AtStep(i, "dispatched")) + Allowance

EvidenceInv == \A i \in Incidents!Ids : EvidenceOf(i)

IncidentInv == IncidentTypes /\ OverdueInv /\ EvidenceInv

\* The allowance is a number that only a fault changes, by the number of slots.
LEMMA AllowanceGrows ==
  ASSUME incidentFaults \in Nat
  PROVE  /\ Allowance \in Nat /\ Cardinality(Slots) \in Nat
         /\ incidentFaults' = incidentFaults => Allowance' = Allowance
         /\ incidentFaults' = incidentFaults + 1 => Allowance' = Allowance + Cardinality(Slots)
  <1>1. Cardinality(Slots) \in Nat
    BY CountWithin
  <1>2. \A f, n \in Nat : f * n \in Nat /\ (f + 1) * n = f * n + n
    OBVIOUS
  <1> QED
    BY <1>1, <1>2 DEF Allowance

\* report, resolve and the clock leave an overdue incident overdue: the time of
\* a report stops the clock at a moment that is late already.
LEMMA TableStep ==
  ASSUME IncidentInv,
         \/ \E severe \in BOOLEAN : Incidents!Create(severe)
         \/ \E i \in Incidents!Ids : Incidents!Report(i) \/ Incidents!Resolve(i)
         \/ Incidents!UpsertDpo \/ Incidents!Tick
  PROVE  IncidentInv'
  <1> USE BoundsAssumption
  <1>1. /\ UNCHANGED <<smtp, notifiers, evidence, emails, notified, incidentFaults>>
        /\ IncidentTypes
        /\ clock \in Nat /\ LastHour \in Nat /\ Limit \in Nat /\ clock <= LastHour
    <2>1. UNCHANGED <<smtp, notifiers, evidence, emails, notified, incidentFaults>>
      BY DEF Incidents!Create, Incidents!Report, Incidents!Resolve, Incidents!UpsertDpo,
             Incidents!Tick
    <2>2. IncidentTypes
      BY DEF IncidentInv
    <2> QED
      BY <2>1, <2>2 DEF IncidentTypes, Incidents!Hours
  <1>2. \A i \in Incidents!Ids :
          /\ incidents[i] \in Incidents!Incident
          /\ incidents[i].detected \in Nat /\ incidents[i].detected <= clock
          /\ incidents[i].reported # Incidents!NotReported =>
               incidents[i].reported \in Nat /\ incidents[i].reported <= clock
    BY <1>1 DEF IncidentInv, IncidentTypes, OverdueInv, Incidents!Incident, Incidents!Hours
  <1>3. ASSUME IncidentTypes',
               \A i \in Incidents!Ids :
                  /\ incidents'[i].detected <= clock'
                  /\ incidents'[i].reported # Incidents!NotReported => incidents'[i].reported <= clock'
                  /\ Overdue(i) => Overdue(i)'
        PROVE  IncidentInv'
    <2>1. OverdueInv'
      BY <1>1, <1>3 DEF IncidentInv, OverdueInv, IncidentTypes
    <2>2. EvidenceInv'
      BY <1>1 DEF IncidentInv, EvidenceInv, EvidenceOf, AtStep, Allowance
    <2> QED
      BY <1>3, <2>1, <2>2 DEF IncidentInv
  <1>4. ASSUME NEW severe \in BOOLEAN, Incidents!Create(severe) PROVE IncidentInv'
    <2>1. PICK i \in Incidents!Ids :
            /\ ~Incidents!Present(i)
            /\ incidents' = [incidents EXCEPT ![i] =
                 [status |-> "detected", severe |-> severe, detected |-> clock,
                  reported |-> Incidents!NotReported]]
      BY <1>4 DEF Incidents!Create
    <2>2. clock' = clock
      BY <1>4 DEF Incidents!Create
    <2>3. [status |-> "detected", severe |-> severe, detected |-> clock,
           reported |-> Incidents!NotReported] \in Incidents!Incident
      BY <1>1 DEF Incidents!Incident, IncidentTypes
    <2>4. IncidentTypes'
      BY <1>1, <2>1, <2>2, <2>3 DEF IncidentTypes
    <2>5. /\ incidents'[i].detected = clock /\ incidents'[i].reported = Incidents!NotReported
          /\ \A j \in Incidents!Ids \ {i} : incidents'[j] = incidents[j]
      BY <1>1, <2>1 DEF IncidentTypes
    <2>6. \A j \in Incidents!Ids : Overdue(j) => Overdue(j)'
      BY <2>1, <2>2, <2>5 DEF Overdue, Incidents!Present, Incidents!RequiresAuthorityNotification
    <2> QED
      BY <1>1, <1>2, <1>3, <2>2, <2>4, <2>5, <2>6
  <1>5. ASSUME NEW i \in Incidents!Ids, Incidents!Report(i) PROVE IncidentInv'
    <2>1. /\ incidents' = [incidents EXCEPT ![i].status = "reported", ![i].reported = clock]
          /\ clock' = clock
      BY <1>5 DEF Incidents!Report
    <2>2. /\ incidents'[i].detected = incidents[i].detected /\ incidents'[i].severe = incidents[i].severe
          /\ incidents'[i].reported = clock /\ incidents'[i].status = "reported"
          /\ incidents'[i] \in Incidents!Incident
          /\ \A j \in Incidents!Ids \ {i} : incidents'[j] = incidents[j]
      BY <1>1, <1>2, <2>1 DEF IncidentTypes, Incidents!Incident
    <2>3. IncidentTypes'
      <3>1. incidents' \in [Incidents!Ids -> Incidents!Incident]
        BY <1>1, <2>1, <2>2 DEF IncidentTypes
      <3> QED
        BY <1>1, <2>1, <3>1 DEF IncidentTypes
    <2>4. clock # Incidents!NotReported
      BY <1>1 DEF Incidents!NotReported
    <2>5. \A j \in Incidents!Ids \ {i} : Overdue(j) => Overdue(j)'
      BY <2>1, <2>2 DEF Overdue, Incidents!Present, Incidents!RequiresAuthorityNotification
    <2>6. Overdue(i) => Overdue(i)'
      <3>1. Overdue(i) => incidents[i].severe /\ clock - incidents[i].detected > Limit
        BY <1>1, <1>2 DEF Overdue, Incidents!RequiresAuthorityNotification
      <3> QED
        BY <2>1, <2>2, <2>4, <3>1
        DEF Overdue, Incidents!Present, Incidents!RequiresAuthorityNotification
    <2>7. \A j \in Incidents!Ids :
            /\ incidents'[j].detected <= clock'
            /\ incidents'[j].reported # Incidents!NotReported => incidents'[j].reported <= clock'
      <3>1. \A j \in Incidents!Ids \ {i} : incidents'[j] = incidents[j] /\ clock' = clock
        BY <2>1, <2>2
      <3>2. /\ incidents'[i].detected <= clock' /\ incidents'[i].reported <= clock'
        BY <1>1, <1>2, <2>1, <2>2
      <3> QED
        BY <1>2, <3>1, <3>2
    <2> QED
      BY <1>3, <2>3, <2>5, <2>6, <2>7
  <1>6. ASSUME NEW i \in Incidents!Ids, Incidents!Resolve(i) PROVE IncidentInv'
    <2>1. incidents' = [incidents EXCEPT ![i].status = "resolved"] /\ clock' = clock
      BY <1>6 DEF Incidents!Resolve
    <2>2. /\ incidents'[i].detected = incidents[i].detected /\ incidents'[i].severe = incidents[i].severe
          /\ incidents'[i].reported = incidents[i].reported /\ incidents'[i].status = "resolved"
          /\ incidents'[i] \in Incidents!Incident
          /\ \A j \in Incidents!Ids \ {i} : incidents'[j] = incidents[j]
      BY <1>1, <1>2, <2>1 DEF IncidentTypes, Incidents!Incident
    <2>3. IncidentTypes'
      <3>1. incidents' \in [Incidents!Ids -> Incidents!Incident]
        BY <1>1, <2>1, <2>2 DEF IncidentTypes
      <3> QED
        BY <1>1, <2>1, <3>1 DEF IncidentTypes
    <2>4. \A j \in Incidents!Ids : Overdue(j) => Overdue(j)'
      <3>1. \A j \in Incidents!Ids \ {i} : Overdue(j) => Overdue(j)'
        BY <2>1, <2>2 DEF Overdue, Incidents!Present, Incidents!RequiresAuthorityNotification
      <3>2. Overdue(i) => Overdue(i)'
        BY <2>1, <2>2 DEF Overdue, Incidents!Present, Incidents!RequiresAuthorityNotification
      <3> QED
        BY <3>1, <3>2
    <2> QED
      BY <1>1, <1>2, <1>3, <2>1, <2>2, <2>3, <2>4
  <1>7. CASE Incidents!UpsertDpo \/ Incidents!Tick
    <2>1. incidents' = incidents /\ clock' \in {clock, clock + 1} /\ clock' \in Incidents!Hours
      BY <1>1, <1>7 DEF Incidents!UpsertDpo, Incidents!Tick, IncidentTypes, Incidents!Hours
    <2>2. IncidentTypes'
      BY <1>1, <2>1 DEF IncidentTypes
    <2>3. clock' \in Nat /\ clock <= clock'
      BY <1>1, <2>1
    <2>4. \A j \in Incidents!Ids : Overdue(j) => Overdue(j)'
      BY <1>1, <1>2, <2>1, <2>3
      DEF Overdue, Incidents!Present, Incidents!RequiresAuthorityNotification
    <2> QED
      BY <1>1, <1>2, <1>3, <2>1, <2>2, <2>3, <2>4
  <1> QED
    BY <1>4, <1>5, <1>6, <1>7

\* A notification moves on: it stays with its overdue incident.
LEMMA KeepsOverdue ==
  ASSUME IncidentInv, NEW c \in Slots, NEW n \in Incidents!Notifier,
         notifiers' = [notifiers EXCEPT ![c] = n], UNCHANGED <<incidents, clock>>,
         n.pc # "idle" => n.id \in Incidents!Ids /\ Overdue(n.id),
         \A i \in notified' : i \in notified \/ Overdue(i)
  PROVE  OverdueInv' /\ notifiers' \in [Slots -> Incidents!Notifier]
  <1>1. /\ notifiers'[c] = n /\ \A d \in Slots \ {c} : notifiers'[d] = notifiers[d]
        /\ notifiers' \in [Slots -> Incidents!Notifier]
    BY DEF IncidentInv, IncidentTypes
  <1>2. \A i : Overdue(i)' <=> Overdue(i)
    BY DEF Overdue, Incidents!Present, Incidents!RequiresAuthorityNotification
  <1>3. \A i \in notified' : Overdue(i)'
    BY <1>2 DEF IncidentInv, OverdueInv
  <1>4. \A d \in Slots : notifiers'[d].pc # "idle" =>
          notifiers'[d].id \in Incidents!Ids /\ Overdue(notifiers'[d].id)
    BY <1>1 DEF IncidentInv, OverdueInv
  <1>5. \A d \in Slots : notifiers'[d].pc # "idle" =>
          notifiers'[d].id \in Incidents!Ids /\ Overdue(notifiers[d].id)'
    <2> SUFFICES ASSUME NEW d \in Slots, notifiers'[d].pc # "idle"
                 PROVE  notifiers'[d].id \in Incidents!Ids /\ Overdue(notifiers[d].id)'
      OBVIOUS
    <2>1. PICK i \in Incidents!Ids : i = notifiers'[d].id
      BY <1>4
    <2>2. Overdue(i)'
      BY <1>2, <1>4, <2>1
    <2> QED
      BY <2>1, <2>2 DEF Overdue, Incidents!Present, Incidents!RequiresAuthorityNotification
  <1> QED
    BY <1>1, <1>3, <1>5 DEF IncidentInv, OverdueInv

\* A notification is begun, given up before the intent, or ended by a fault:
\* no email and no record.
LEMMA QuietStep ==
  ASSUME IncidentInv, NEW c \in Slots, NEW n \in Incidents!Notifier,
         notifiers' = [notifiers EXCEPT ![c] = n],
         n.pc \notin {"send", "dispatched"}, n.pc # "idle" => n.id \in Incidents!Ids /\ Overdue(n.id),
         \/ incidentFaults' = incidentFaults /\ notifiers[c].pc # "dispatched"
         \/ incidentFaults' = incidentFaults + 1,
         UNCHANGED <<smtp, incidents, clock, evidence, emails, notified>>
  PROVE  IncidentInv'
  <1>1. OverdueInv' /\ notifiers' \in [Slots -> Incidents!Notifier]
    BY KeepsOverdue
  <1>2. IncidentTypes
    BY DEF IncidentInv
  <1>3. IncidentTypes'
    BY <1>1, <1>2 DEF IncidentTypes
  <1>4. Cardinality(Slots) \in Nat /\ Cardinality({c}) <= Cardinality(Slots) /\ Cardinality({c}) = 1
    BY CountWithin, FS_Singleton
  <1>5. ASSUME NEW i \in Incidents!Ids PROVE EvidenceOf(i)'
    <2>1. /\ emails[i] \in Nat /\ evidence[i].intent \in Nat /\ evidence[i].dispatched \in Nat
          /\ notifiers \in [Slots -> Incidents!Notifier] /\ incidentFaults \in Nat
      BY <1>2 DEF IncidentTypes
    <2>0. \A p : /\ Cardinality(AtStep(i, p)) \in Nat /\ Cardinality(AtStep(i, p)') \in Nat
                 /\ Cardinality(AtStep(i, p)') =
                      Cardinality(AtStep(i, p)) - Is(notifiers[c], i, p) + Is(n, i, p)
      BY <2>1, Moved
    <2>5. /\ Is(n, i, "send") = 0 /\ Is(n, i, "dispatched") = 0
          /\ Is(notifiers[c], i, "send") \in {0, 1} /\ Is(notifiers[c], i, "dispatched") \in {0, 1}
      BY DEF Is
    <2>6. notifiers[c].pc # "dispatched" => Is(notifiers[c], i, "dispatched") = 0
      BY DEF Is
    <2>2. /\ Cardinality(AtStep(i, "send")) \in Nat /\ Cardinality(AtStep(i, "send")') \in Nat
          /\ Cardinality(AtStep(i, "send")') <= Cardinality(AtStep(i, "send"))
      BY <2>0, <2>5
    <2>3. /\ Cardinality(AtStep(i, "dispatched")) \in Nat /\ Cardinality(AtStep(i, "dispatched")') \in Nat
          /\ Cardinality(AtStep(i, "dispatched")') <= Cardinality(AtStep(i, "dispatched"))
          /\ Cardinality(AtStep(i, "dispatched")) <= Cardinality(AtStep(i, "dispatched")') + 1
          /\ notifiers[c].pc # "dispatched" =>
               Cardinality(AtStep(i, "dispatched")') = Cardinality(AtStep(i, "dispatched"))
      BY <2>0, <2>5, <2>6
    <2>4. /\ Allowance \in Nat /\ Allowance' \in Nat /\ Allowance <= Allowance'
          /\ incidentFaults' = incidentFaults + 1 => Allowance + 1 <= Allowance'
      BY <1>4, <2>1, AllowanceGrows
    <2> QED
      BY <2>1, <2>2, <2>3, <2>4 DEF IncidentInv, EvidenceInv, EvidenceOf
  <1> QED
    BY <1>1, <1>3, <1>5 DEF IncidentInv, EvidenceInv

\* A notification that is past its intent moves on, with what it writes and
\* sends: each email has its intent, each record its email, and an email
\* without its record costs a fault.
LEMMA SpeakingStep ==
  ASSUME IncidentInv, NEW c \in Slots, NEW n \in Incidents!Notifier,
         notifiers' = [notifiers EXCEPT ![c] = n],
         NEW i0 \in Incidents!Ids, notifiers[c].id = i0, n.pc # "idle" => n.id = i0,
         notifiers[c].pc # "idle",
         evidence' \in [Incidents!Ids -> [intent : Nat, dispatched : Nat, failed : Nat]],
         \A i \in Incidents!Ids \ {i0} : evidence'[i] = evidence[i] /\ emails'[i] = emails[i],
         emails' \in [Incidents!Ids -> Nat],
         incidentFaults' \in {incidentFaults, incidentFaults + 1},
         EvidenceOf(i0)',
         notified' \subseteq notified \cup {i0},
         UNCHANGED <<smtp, incidents, clock>>
  PROVE  IncidentInv'
  <1>1. IncidentTypes
    BY DEF IncidentInv
  <1>2. Overdue(i0)
    BY DEF IncidentInv, OverdueInv
  <1>3. OverdueInv' /\ notifiers' \in [Slots -> Incidents!Notifier]
    BY <1>2, KeepsOverdue
  <1>4. IncidentTypes'
    BY <1>1, <1>3 DEF IncidentTypes
  <1>5. incidentFaults \in Nat /\ notifiers \in [Slots -> Incidents!Notifier]
    BY <1>1 DEF IncidentTypes
  <1>6. Allowance \in Nat /\ Allowance' \in Nat /\ Allowance <= Allowance'
    BY <1>5, AllowanceGrows
  <1>7. ASSUME NEW i \in Incidents!Ids \ {i0} PROVE EvidenceOf(i)'
    <2>1. /\ emails[i] \in Nat /\ evidence[i].intent \in Nat /\ evidence[i].dispatched \in Nat
      BY <1>1 DEF IncidentTypes
    <2>2. \A p : /\ Cardinality(AtStep(i, p)) \in Nat
                 /\ Cardinality(AtStep(i, p)') =
                      Cardinality(AtStep(i, p)) - Is(notifiers[c], i, p) + Is(n, i, p)
      BY <1>5, Moved
    <2>3. /\ Is(notifiers[c], i, "send") = 0 /\ Is(notifiers[c], i, "dispatched") = 0
          /\ Is(n, i, "send") = 0 /\ Is(n, i, "dispatched") = 0
      BY <1>7 DEF Is
    <2>4. /\ Cardinality(AtStep(i, "send")') = Cardinality(AtStep(i, "send"))
          /\ Cardinality(AtStep(i, "dispatched")') = Cardinality(AtStep(i, "dispatched"))
      BY <2>2, <2>3
    <2>5. EvidenceOf(i)
      BY <1>7 DEF IncidentInv, EvidenceInv
    <2> QED
      BY <1>6, <1>7, <2>1, <2>2, <2>4, <2>5 DEF EvidenceOf
  <1>8. EvidenceInv'
    BY <1>7 DEF EvidenceInv
  <1> QED
    BY <1>3, <1>4, <1>8 DEF IncidentInv

\* The account of the incident that a notification is about.
LEMMA EvidenceMoves ==
  ASSUME IncidentInv, NEW c \in Slots, NEW n \in Incidents!Notifier,
         notifiers' = [notifiers EXCEPT ![c] = n], NEW i \in Incidents!Ids,
         NEW dI \in 0..1, NEW dD \in 0..1, NEW dE \in 0..1, NEW dF \in 0..1,
         evidence'[i].intent = evidence[i].intent + dI,
         evidence'[i].dispatched = evidence[i].dispatched + dD,
         emails'[i] = emails[i] + dE, incidentFaults' = incidentFaults + dF,
         dE + Is(n, i, "send") <= dI + Is(notifiers[c], i, "send"),
         dD + Is(n, i, "dispatched") <= dE + Is(notifiers[c], i, "dispatched"),
         dE + Is(notifiers[c], i, "dispatched") <= dD + Is(n, i, "dispatched") + dF
  PROVE  EvidenceOf(i)'
  <1>1. /\ emails[i] \in Nat /\ evidence[i].intent \in Nat /\ evidence[i].dispatched \in Nat
        /\ incidentFaults \in Nat /\ notifiers \in [Slots -> Incidents!Notifier]
    BY DEF IncidentInv, IncidentTypes
  <1>2. Allowance \in Nat /\ Allowance' \in Nat /\ Allowance + dF <= Allowance'
    <2>1. Cardinality({c}) <= Cardinality(Slots) /\ Cardinality({c}) = 1
      BY CountWithin, FS_Singleton
    <2>2. CASE dF = 0
      BY <1>1, <2>2, AllowanceGrows
    <2>3. CASE dF = 1
      BY <1>1, <2>1, <2>3, AllowanceGrows
    <2> QED
      BY <2>2, <2>3
  <1>3. \A p : /\ Cardinality(AtStep(i, p)) \in Nat /\ Cardinality(AtStep(i, p)') \in Nat
               /\ Cardinality(AtStep(i, p)') =
                    Cardinality(AtStep(i, p)) - Is(notifiers[c], i, p) + Is(n, i, p)
    BY <1>1, Moved
  <1>4. \A p : Is(n, i, p) \in {0, 1} /\ Is(notifiers[c], i, p) \in {0, 1}
    BY DEF Is
  <1>5. EvidenceOf(i)
    BY DEF IncidentInv, EvidenceInv
  <1> QED
    BY <1>1, <1>2, <1>3, <1>4, <1>5 DEF EvidenceOf

\* recordIntent, the send and the record of what became of it.
LEMMA NotificationStep ==
  ASSUME IncidentInv, NEW c \in Slots,
         \/ Incidents!RecordIntent(c) \/ Incidents!Send(c)
         \/ Incidents!RecordDispatched(c) \/ Incidents!RecordFailed(c)
  PROVE  IncidentInv'
  <1>1. /\ IncidentTypes /\ notifiers[c].pc # "idle" /\ UNCHANGED <<smtp, incidents, clock>>
        /\ notifiers[c] \in Incidents!Notifier /\ incidentFaults \in Nat
    BY DEF IncidentInv, IncidentTypes, Incidents!RecordIntent, Incidents!Send,
           Incidents!RecordDispatched, Incidents!RecordFailed, Incidents!At
  <1>2. PICK i0 \in Incidents!Ids : notifiers[c].id = i0
    BY <1>1 DEF IncidentInv, OverdueInv
  <1>3. \A pc \in {"send", "dispatched", "failed"} :
          /\ [notifiers[c] EXCEPT !.pc = pc] = [pc |-> pc, id |-> i0]
          /\ [pc |-> pc, id |-> i0] \in Incidents!Notifier
    BY <1>1, <1>2 DEF Incidents!Notifier
  <1>4. /\ emails[i0] \in Nat /\ evidence[i0].intent \in Nat /\ evidence[i0].dispatched \in Nat
        /\ emails \in [Incidents!Ids -> Nat]
        /\ evidence \in [Incidents!Ids -> [intent : Nat, dispatched : Nat, failed : Nat]]
    BY <1>1 DEF IncidentTypes
  <1>5. Is(Incidents!Off, i0, "send") = 0 /\ Is(Incidents!Off, i0, "dispatched") = 0
    BY DEF Is, Incidents!Off
  <1>6. CASE Incidents!RecordIntent(c)
    <2>1. notifiers[c].pc = "intent" /\ notified' \subseteq notified \cup {i0}
          /\ UNCHANGED <<emails, incidentFaults>>
      BY <1>2, <1>6 DEF Incidents!RecordIntent, Incidents!At
    <2>2. PICK n \in Incidents!Notifier :
            /\ notifiers' = [notifiers EXCEPT ![c] = n]
            /\ n = [pc |-> "send", id |-> i0] \/ n = Incidents!Off
      BY <1>3, <1>6, OffType DEF Incidents!RecordIntent, Incidents!Goto, Incidents!Return, Incidents!Become
    <2>3. /\ evidence' \in [Incidents!Ids -> [intent : Nat, dispatched : Nat, failed : Nat]]
          /\ \A i \in Incidents!Ids \ {i0} : evidence'[i] = evidence[i]
          /\ evidence'[i0].intent = evidence[i0].intent + 1
          /\ evidence'[i0].dispatched = evidence[i0].dispatched
      BY <1>1, <1>2, <1>4, <1>6, NoteTypes DEF Incidents!RecordIntent
    <2>4. /\ Is(n, i0, "send") \in {0, 1} /\ Is(n, i0, "dispatched") = 0
          /\ Is(notifiers[c], i0, "send") = 0 /\ Is(notifiers[c], i0, "dispatched") = 0
          /\ n.pc # "idle" => n.id = i0
      BY <2>1, <2>2 DEF Is, Incidents!Off
    <2>5. PICK dI \in 0..1, dD \in 0..1, dE \in 0..1, dF \in 0..1 :
            /\ evidence'[i0].intent = evidence[i0].intent + dI
            /\ evidence'[i0].dispatched = evidence[i0].dispatched + dD
            /\ emails'[i0] = emails[i0] + dE /\ incidentFaults' = incidentFaults + dF
            /\ dI = 1 /\ dD = 0 /\ dE = 0 /\ dF = 0
            /\ dE + Is(n, i0, "send") <= dI + Is(notifiers[c], i0, "send")
            /\ dD + Is(n, i0, "dispatched") <= dE + Is(notifiers[c], i0, "dispatched")
            /\ dE + Is(notifiers[c], i0, "dispatched") <= dD + Is(n, i0, "dispatched") + dF
      BY <1>1, <1>4, <2>1, <2>3, <2>2, <2>4
    <2>6. EvidenceOf(i0)'
      BY <2>2, <2>4, <2>5, EvidenceMoves
    <2> QED
      BY <1>1, <1>2, <1>4, <2>1, <2>2, <2>3, <2>4, <2>6, SpeakingStep
  <1>7. CASE Incidents!Send(c)
    <2>1. notifiers[c].pc = "send" /\ UNCHANGED <<evidence, notified>>
      BY <1>7 DEF Incidents!Send, Incidents!At
    <2>2. PICK n \in Incidents!Notifier :
            /\ notifiers' = [notifiers EXCEPT ![c] = n]
            /\ \/ /\ n = [pc |-> "dispatched", id |-> i0] /\ incidentFaults' = incidentFaults
                  /\ emails' = [emails EXCEPT ![i0] = @ + 1]
               \/ /\ n = [pc |-> "failed", id |-> i0] /\ incidentFaults' = incidentFaults + 1
                  /\ emails' = emails \/ emails' = [emails EXCEPT ![i0] = @ + 1]
      BY <1>2, <1>3, <1>7 DEF Incidents!Send, Incidents!Goto, Incidents!Become, Incidents!Fault
    <2>3. /\ emails' \in [Incidents!Ids -> Nat]
          /\ \A i \in Incidents!Ids \ {i0} : emails'[i] = emails[i]
          /\ emails'[i0] \in {emails[i0], emails[i0] + 1}
          /\ n.pc = "dispatched" => emails'[i0] = emails[i0] + 1
      BY <1>4, <2>2
    <2>4. /\ Is(n, i0, "send") = 0 /\ Is(notifiers[c], i0, "send") = 1
          /\ Is(notifiers[c], i0, "dispatched") = 0 /\ n.id = i0
          /\ n.pc = "dispatched" => Is(n, i0, "dispatched") = 1
          /\ n.pc = "failed" => Is(n, i0, "dispatched") = 0
      BY <1>1, <1>2, <2>1, <2>2 DEF Is, Incidents!Notifier
    <2>0. notifiers' = [notifiers EXCEPT ![c] = n]
      BY <2>2
    <2>5. CASE n.pc = "dispatched"
      <3>1. PICK dI \in 0..1, dD \in 0..1, dE \in 0..1, dF \in 0..1 :
              /\ evidence'[i0].intent = evidence[i0].intent + dI
              /\ evidence'[i0].dispatched = evidence[i0].dispatched + dD
              /\ emails'[i0] = emails[i0] + dE /\ incidentFaults' = incidentFaults + dF
              /\ dI = 0 /\ dD = 0 /\ dE = 1 /\ dF = 0
              /\ dE + Is(n, i0, "send") <= dI + Is(notifiers[c], i0, "send")
              /\ dD + Is(n, i0, "dispatched") <= dE + Is(notifiers[c], i0, "dispatched")
              /\ dE + Is(notifiers[c], i0, "dispatched") <= dD + Is(n, i0, "dispatched") + dF
        BY <1>1, <1>4, <2>1, <2>2, <2>3, <2>4, <2>5
      <3>2. EvidenceOf(i0)'
        BY <2>0, <3>1, EvidenceMoves
      <3> QED
        BY <1>1, <1>2, <1>4, <2>1, <2>2, <2>3, <2>4, <3>2, SpeakingStep
    <2>6. CASE n.pc = "failed"
      <3>1. PICK dI \in 0..1, dD \in 0..1, dE \in 0..1, dF \in 0..1 :
              /\ evidence'[i0].intent = evidence[i0].intent + dI
              /\ evidence'[i0].dispatched = evidence[i0].dispatched + dD
              /\ emails'[i0] = emails[i0] + dE /\ incidentFaults' = incidentFaults + dF
              /\ dI = 0 /\ dD = 0 /\ dF = 1
              /\ dE + Is(n, i0, "send") <= dI + Is(notifiers[c], i0, "send")
              /\ dD + Is(n, i0, "dispatched") <= dE + Is(notifiers[c], i0, "dispatched")
              /\ dE + Is(notifiers[c], i0, "dispatched") <= dD + Is(n, i0, "dispatched") + dF
        BY <1>1, <1>4, <2>1, <2>2, <2>3, <2>4, <2>6
      <3>2. EvidenceOf(i0)'
        BY <2>0, <3>1, EvidenceMoves
      <3> QED
        BY <1>1, <1>2, <1>4, <2>1, <2>2, <2>3, <2>4, <3>2, SpeakingStep
    <2> QED
      BY <2>2, <2>5, <2>6
  <1>8. CASE Incidents!RecordDispatched(c)
    <2>1. notifiers[c].pc = "dispatched" /\ UNCHANGED <<emails, notified>>
      BY <1>8 DEF Incidents!RecordDispatched, Incidents!At
    <2>2. /\ Is(notifiers[c], i0, "send") = 0 /\ Is(notifiers[c], i0, "dispatched") = 1
      BY <1>1, <1>2, <2>1 DEF Is, Incidents!Notifier
    <2>3. CASE Incidents!Note(c, "dispatched") /\ Incidents!Return(c) /\ UNCHANGED incidentFaults
      <3>1. /\ evidence' \in [Incidents!Ids -> [intent : Nat, dispatched : Nat, failed : Nat]]
            /\ \A i \in Incidents!Ids \ {i0} : evidence'[i] = evidence[i]
            /\ evidence'[i0].intent = evidence[i0].intent
            /\ evidence'[i0].dispatched = evidence[i0].dispatched + 1
        BY <1>1, <1>2, <1>4, <2>3, NoteTypes
      <3>2. PICK n \in Incidents!Notifier :
              notifiers' = [notifiers EXCEPT ![c] = n] /\ n = Incidents!Off /\ n.pc = "idle"
        BY <2>3, OffType DEF Incidents!Return, Incidents!Become
      <3>3. PICK dI \in 0..1, dD \in 0..1, dE \in 0..1, dF \in 0..1 :
              /\ evidence'[i0].intent = evidence[i0].intent + dI
              /\ evidence'[i0].dispatched = evidence[i0].dispatched + dD
              /\ emails'[i0] = emails[i0] + dE /\ incidentFaults' = incidentFaults + dF
              /\ dI = 0 /\ dD = 1 /\ dE = 0 /\ dF = 0
              /\ dE + Is(n, i0, "send") <= dI + Is(notifiers[c], i0, "send")
              /\ dD + Is(n, i0, "dispatched") <= dE + Is(notifiers[c], i0, "dispatched")
              /\ dE + Is(notifiers[c], i0, "dispatched") <= dD + Is(n, i0, "dispatched") + dF
        BY <1>1, <1>4, <2>1, <2>3, <3>1, <1>5, <2>2, <3>2
      <3>4. EvidenceOf(i0)'
        BY <1>5, <2>2, <3>2, <3>3, EvidenceMoves
      <3> QED
        BY <1>1, <1>2, <1>4, <1>5, <2>1, <2>2, <2>3, <3>1, <3>2, <3>4, SpeakingStep
    <2>4. CASE Incidents!Fault /\ Incidents!Goto(c, "failed") /\ UNCHANGED evidence
      <3>1. PICK n \in Incidents!Notifier :
              notifiers' = [notifiers EXCEPT ![c] = n] /\ n = [pc |-> "failed", id |-> i0]
        BY <1>3, <2>4 DEF Incidents!Goto, Incidents!Become
      <3>2. incidentFaults' = incidentFaults + 1
        BY <2>4 DEF Incidents!Fault
      <3>3. Is(n, i0, "send") = 0 /\ Is(n, i0, "dispatched") = 0 /\ n.id = i0
        BY <3>1 DEF Is
      <3>4. PICK dI \in 0..1, dD \in 0..1, dE \in 0..1, dF \in 0..1 :
              /\ evidence'[i0].intent = evidence[i0].intent + dI
              /\ evidence'[i0].dispatched = evidence[i0].dispatched + dD
              /\ emails'[i0] = emails[i0] + dE /\ incidentFaults' = incidentFaults + dF
              /\ dI = 0 /\ dD = 0 /\ dE = 0 /\ dF = 1
              /\ dE + Is(n, i0, "send") <= dI + Is(notifiers[c], i0, "send")
              /\ dD + Is(n, i0, "dispatched") <= dE + Is(notifiers[c], i0, "dispatched")
              /\ dE + Is(notifiers[c], i0, "dispatched") <= dD + Is(n, i0, "dispatched") + dF
        BY <1>1, <1>4, <2>1, <2>4, <3>2, <2>2, <3>1, <3>3
      <3>5. EvidenceOf(i0)'
        BY <2>2, <3>1, <3>3, <3>4, EvidenceMoves
      <3> QED
        BY <1>1, <1>2, <1>4, <2>1, <2>2, <2>4, <3>1, <3>2, <3>3, <3>5, SpeakingStep
    <2> QED
      BY <1>8, <2>3, <2>4 DEF Incidents!RecordDispatched
  <1>9. CASE Incidents!RecordFailed(c)
    <2>1. notifiers[c].pc = "failed" /\ UNCHANGED <<emails, notified, incidentFaults>>
      BY <1>9 DEF Incidents!RecordFailed, Incidents!At
    <2>2. PICK n \in Incidents!Notifier :
            notifiers' = [notifiers EXCEPT ![c] = n] /\ n = Incidents!Off /\ n.pc = "idle"
      BY <1>9, OffType DEF Incidents!RecordFailed, Incidents!Return, Incidents!Become
    <2>3. /\ evidence' \in [Incidents!Ids -> [intent : Nat, dispatched : Nat, failed : Nat]]
          /\ \A i \in Incidents!Ids \ {i0} : evidence'[i] = evidence[i]
          /\ evidence'[i0].intent = evidence[i0].intent
          /\ evidence'[i0].dispatched = evidence[i0].dispatched
      BY <1>1, <1>2, <1>4, <1>9, NoteTypes DEF Incidents!RecordFailed
    <2>4. Is(notifiers[c], i0, "send") = 0 /\ Is(notifiers[c], i0, "dispatched") = 0
      BY <2>1 DEF Is
    <2>5. PICK dI \in 0..1, dD \in 0..1, dE \in 0..1, dF \in 0..1 :
            /\ evidence'[i0].intent = evidence[i0].intent + dI
            /\ evidence'[i0].dispatched = evidence[i0].dispatched + dD
            /\ emails'[i0] = emails[i0] + dE /\ incidentFaults' = incidentFaults + dF
            /\ dI = 0 /\ dD = 0 /\ dE = 0 /\ dF = 0
            /\ dE + Is(n, i0, "send") <= dI + Is(notifiers[c], i0, "send")
            /\ dD + Is(n, i0, "dispatched") <= dE + Is(notifiers[c], i0, "dispatched")
            /\ dE + Is(notifiers[c], i0, "dispatched") <= dD + Is(n, i0, "dispatched") + dF
      BY <1>1, <1>4, <2>1, <2>3, <1>5, <2>2, <2>4
    <2>6. EvidenceOf(i0)'
      BY <1>5, <2>2, <2>4, <2>5, EvidenceMoves
    <2> QED
      BY <1>1, <1>2, <1>4, <1>5, <2>1, <2>2, <2>3, <2>4, <2>6, SpeakingStep
  <1> QED
    BY <1>6, <1>7, <1>8, <1>9

\* A notification begins with an overdue incident, meets no contact, or ends
\* with an error.
LEMMA BeginningStep ==
  ASSUME IncidentInv, NEW c \in Slots,
         \/ \E i \in Incidents!Ids : Incidents!NotifyForIncident(c, i)
         \/ Incidents!RequireDpo(c) \/ Incidents!Abort(c)
  PROVE  IncidentInv'
  <1>1. /\ IncidentTypes /\ UNCHANGED <<smtp, incidents, clock, evidence, emails, notified>>
        /\ notifiers[c] \in Incidents!Notifier /\ incidentFaults \in Nat
    BY DEF IncidentInv, IncidentTypes, Incidents!NotifyForIncident, Incidents!RequireDpo,
           Incidents!Abort
  <1>2. ASSUME NEW i \in Incidents!Ids, Incidents!NotifyForIncident(c, i) PROVE IncidentInv'
    <2>1. /\ Overdue(i) /\ notifiers[c].pc = "idle" /\ incidentFaults' = incidentFaults
          /\ [pc |-> "require", id |-> i] \in Incidents!Notifier
          /\ notifiers' = [notifiers EXCEPT ![c] = [pc |-> "require", id |-> i]]
      BY <1>2 DEF Incidents!NotifyForIncident, Incidents!At, Incidents!Become, Overdue,
                  Incidents!Notifier
    <2> QED
      BY <1>1, <2>1, QuietStep
  <1>3. CASE Incidents!RequireDpo(c)
    <2>1. /\ notifiers[c].pc = "require" /\ incidentFaults' = incidentFaults
          /\ notifiers[c].id \in Incidents!Ids /\ Overdue(notifiers[c].id)
      BY <1>3 DEF Incidents!RequireDpo, Incidents!At, IncidentInv, OverdueInv
    <2>2. /\ [notifiers[c] EXCEPT !.pc = "intent"] \in Incidents!Notifier
          /\ [notifiers[c] EXCEPT !.pc = "intent"].pc = "intent"
          /\ [notifiers[c] EXCEPT !.pc = "intent"].id = notifiers[c].id
      BY <1>1 DEF Incidents!Notifier
    <2>3. PICK n \in Incidents!Notifier :
            /\ notifiers' = [notifiers EXCEPT ![c] = n]
            /\ n.pc \in {"idle", "intent"} /\ (n.pc # "idle" => n.id = notifiers[c].id)
      BY <1>3, <2>2, OffType
      DEF Incidents!RequireDpo, Incidents!Goto, Incidents!Return, Incidents!Become,
          Incidents!AfterRequire
    <2> QED
      BY <1>1, <2>1, <2>3, QuietStep
  <1>4. CASE Incidents!Abort(c)
    <2>1. /\ incidentFaults' = incidentFaults + 1
          /\ notifiers' = [notifiers EXCEPT ![c] = Incidents!Off]
      BY <1>4 DEF Incidents!Abort, Incidents!Fault, Incidents!Return, Incidents!Become
    <2> QED
      BY <1>1, <2>1, OffType, QuietStep
  <1> QED
    BY <1>2, <1>3, <1>4

\* A restart empties the Map and ends every notification: it costs a fault, and
\* the fault allows for each of them.
LEMMA RestartStep ==
  ASSUME IncidentInv, Incidents!Restart
  PROVE  IncidentInv'
  <1>1. /\ IncidentTypes /\ UNCHANGED <<smtp, clock, evidence, emails>> /\ notified' = {}
        /\ incidents' = [i \in Incidents!Ids |-> Incidents!Absent]
        /\ notifiers' = [c \in Slots |-> Incidents!Off]
        /\ incidentFaults \in Nat /\ incidentFaults' = incidentFaults + 1
    BY DEF IncidentInv, IncidentTypes, Incidents!Restart, Incidents!Fault
  <1>2. LastHour \in Nat /\ clock \in Nat /\ clock <= LastHour
    BY <1>1, BoundsAssumption DEF IncidentTypes, Incidents!Hours
  <1>3. Incidents!Absent \in Incidents!Incident
    BY <1>2 DEF Incidents!Absent, Incidents!Incident, Incidents!Hours
  <1>4. IncidentTypes'
    BY <1>1, <1>3, OffType DEF IncidentTypes
  <1>5. OverdueInv'
    BY <1>1, <1>2, OffType DEF OverdueInv, Incidents!Absent
  <1>6. ASSUME NEW i \in Incidents!Ids PROVE EvidenceOf(i)'
    <2>1. /\ emails[i] \in Nat /\ evidence[i].intent \in Nat /\ evidence[i].dispatched \in Nat
      BY <1>1 DEF IncidentTypes
    <2>2. /\ AtStep(i, "send")' = {} /\ AtStep(i, "dispatched")' = {}
          /\ AtStep(i, "send") \subseteq Slots /\ AtStep(i, "dispatched") \subseteq Slots
      BY <1>1, OffType DEF AtStep
    <2>3. /\ Cardinality(AtStep(i, "send")') = 0 /\ Cardinality(AtStep(i, "dispatched")') = 0
          /\ Cardinality(AtStep(i, "send")) \in Nat /\ Cardinality(AtStep(i, "dispatched")) \in Nat
          /\ Cardinality(AtStep(i, "dispatched")) <= Cardinality(Slots)
      BY <2>2, CountWithin, FS_EmptySet
    <2>4. /\ Allowance \in Nat /\ Cardinality(Slots) \in Nat
          /\ Allowance' = Allowance + Cardinality(Slots)
      BY <1>1, AllowanceGrows
    <2>5. EvidenceOf(i)
      BY DEF IncidentInv, EvidenceInv
    <2> QED
      BY <1>1, <2>1, <2>3, <2>4, <2>5 DEF EvidenceOf
  <1> QED
    BY <1>4, <1>5, <1>6 DEF IncidentInv, EvidenceInv

\* Every step of incidents and notifications keeps IncidentInv.
LEMMA IncidentStep ==
  ASSUME IncidentInv, [Incidents!Next]_incidentVars
  PROVE  IncidentInv'
  <1>1. CASE Incidents!Next
    BY <1>1, TableStep, BeginningStep, NotificationStep, RestartStep DEF Incidents!Next
  <1>2. CASE UNCHANGED incidentVars
    BY <1>2 DEF incidentVars, IncidentInv, IncidentTypes, OverdueInv, EvidenceInv, EvidenceOf,
                AtStep, Allowance, Overdue, Incidents!Present,
                Incidents!RequiresAuthorityNotification
  <1> QED
    BY <1>1, <1>2

\* IncidentInv holds always.
LEMMA IncidentsHold == Spec => []IncidentInv
  <1>1. Init => IncidentInv
    <2> SUFFICES ASSUME Init PROVE IncidentInv
      OBVIOUS
    <2>1. /\ incidents = [i \in Incidents!Ids |-> Incidents!Absent] /\ clock = 0
          /\ notifiers = [c \in Slots |-> Incidents!Off] /\ notified = {} /\ incidentFaults = 0
          /\ evidence = [i \in Incidents!Ids |-> Incidents!NoEvidence] /\ smtp \in BOOLEAN
          /\ emails = [i \in Incidents!Ids |-> 0]
      BY DEF Init, Incidents!Init
    <2>2. Incidents!Absent \in Incidents!Incident /\ clock \in Incidents!Hours
      BY <2>1, BoundsAssumption DEF Incidents!Absent, Incidents!Incident, Incidents!Hours
    <2>3. IncidentTypes
      BY <2>1, <2>2, OffType DEF IncidentTypes, Incidents!NoEvidence
    <2>4. OverdueInv
      BY <2>1, OffType DEF OverdueInv, Incidents!Absent
    <2>5. Allowance = 0
      BY <2>1, CountWithin DEF Allowance
    <2>6. ASSUME NEW i \in Incidents!Ids PROVE EvidenceOf(i)
      <3>1. AtStep(i, "send") = {} /\ AtStep(i, "dispatched") = {}
        BY <2>1, OffType DEF AtStep
      <3> QED
        BY <2>1, <2>5, <3>1, FS_EmptySet DEF EvidenceOf, Incidents!NoEvidence
    <2> QED
      BY <2>3, <2>4, <2>6 DEF IncidentInv, EvidenceInv
  <1>2. [Next]_<<focus, rest>> => [Incidents!Next]_incidentVars
    BY DEF Next, rest
  <1> QED
    BY <1>1, <1>2, IncidentStep, PTL DEF Spec

\* AuthorityEvidence: however notifications interleave, fail and die, the
\* authority is written to only with an intent on the trail, a dispatch on the
\* trail was sent, and an email is off the trail only at the price of a fault
\* (AuthorityNotificationService).
THEOREM AuthorityHasEvidence == Spec => []AuthorityEvidence
  <1>1. IncidentInv => AuthorityEvidence
    <2> SUFFICES ASSUME IncidentInv, NEW i \in Incidents!Ids
                 PROVE  /\ emails[i] <= evidence[i].intent
                        /\ evidence[i].dispatched <= emails[i]
                        /\ emails[i] <= evidence[i].dispatched + Cardinality(AtStep(i, "dispatched"))
                                          + Allowance
                        /\ Incidents!Sending(i, "dispatched") = Cardinality(AtStep(i, "dispatched"))
                        /\ incidentFaults * Incidents!Cardinality(Slots) = Allowance
      BY DEF AuthorityEvidence, Incidents!AuthorityEvidence
    <2>1. /\ emails[i] \in Nat /\ evidence[i].intent \in Nat /\ evidence[i].dispatched \in Nat
          /\ EvidenceOf(i)
      BY DEF IncidentInv, IncidentTypes, EvidenceInv
    <2>2. AtStep(i, "send") \subseteq Slots /\ AtStep(i, "dispatched") \subseteq Slots
      BY DEF AtStep
    <2>3. /\ Cardinality(AtStep(i, "send")) \in Nat /\ Cardinality(AtStep(i, "dispatched")) \in Nat
      BY <2>2, CountWithin
    <2>4. /\ emails[i] <= evidence[i].intent /\ evidence[i].dispatched <= emails[i]
      BY <2>1, <2>3 DEF EvidenceOf
    <2> QED
      BY <2>1, <2>4, SameCounts DEF EvidenceOf, Incidents!Sending, AtStep, Allowance
  <1> QED
    BY <1>1, IncidentsHold, PTL

\* NotifiedStaysOverdue: no report, no resolution and no passing of time turns a
\* notification that was made into one that was not required
\* (requiresAuthorityNotification).
THEOREM NotificationsStayRequired == Spec => []NotifiedStaysOverdue
  <1>1. IncidentInv => NotifiedStaysOverdue
    BY DEF IncidentInv, OverdueInv, Overdue, NotifiedStaysOverdue, Incidents!NotifiedStaysOverdue
  <1> QED
    BY <1>1, IncidentsHold, PTL

-----------------------------------------------------------------------------
(* Inbound mail.                                                            *)

MailHandler == [pc : {"idle", "open", "auditRequest", "insert", "auditMail"},
                message : Messages \cup {"none"}, status : {"none", "routed", "unrouted"},
                request : Nat]

MailTypes ==
    /\ recipient \in [Messages -> Mail!Recipients]
    /\ mailbox \in [Messages -> [status : {"none", "routed", "unrouted"}, request : Nat]]
    /\ requests \in [Messages -> Nat]
    /\ mail \in [Slots -> MailHandler]
    /\ kept \subseteq Messages
    /\ mailFaults \in Nat

\* What a handler holds is what it did: a request it carries was opened for its
\* message, and without faults it carries one to the insert.
Fits(h) ==
    IF h.pc = "idle" THEN h.message = "none"
    ELSE /\ h.message \in Messages
         /\ h.request <= requests[h.message]
         /\ h.request > 0 => recipient[h.message] = "dsr"
         /\ h.pc = "auditRequest" \/ h.status = "routed" => h.request > 0
         /\ h.pc = "open" => h.request = 0
         /\ h.pc = "insert" => h.status # "none"
         /\ h.pc = "insert" /\ recipient[h.message] = "dsr" /\ mailFaults = 0 => h.status = "routed"
         /\ h.pc = "auditMail" => Mail!Known(h.message)

\* What is stored is what some handler held.
Settled(m) ==
    /\ mailbox[m].status = "routed" => mailbox[m].request \in 1..requests[m]
    /\ Mail!Known(m) /\ recipient[m] = "dsr" /\ mailFaults = 0 => mailbox[m].status = "routed"

\* The handlers of m that carry a request to the mailbox, and those that are
\* about to open one.
Carrying(m) == {c \in Slots : mail[c].message = m /\ mail[c].request > 0}
Opening(m) == {c \in Slots : mail[c].message = m /\ mail[c].pc = "open"}

\* Until the message is stored each request is carried by a handler or paid for
\* by a fault; afterwards no handler begins, and those that may still open one
\* were there beside the carriers.
Charged(m) ==
    IF Mail!Known(m)
    THEN requests[m] + Cardinality(Opening(m)) <= Cardinality(Slots) + mailFaults
    ELSE requests[m] <= Cardinality(Carrying(m)) + mailFaults

MailInv ==
    /\ MailTypes
    /\ \A c \in Slots : Fits(mail[c])
    /\ \A m \in Messages : Settled(m) /\ Charged(m)
    /\ \A m \in kept : Mail!Known(m)

\* The other handlers are not disturbed: requests and rows are only added.
LEMMA OthersFit ==
  ASSUME MailInv, NEW c \in Slots, NEW n \in MailHandler, mail' = [mail EXCEPT ![c] = n],
         Fits(n)', requests' \in [Messages -> Nat], mailFaults' \in Nat, recipient' = recipient,
         \A m \in Messages : requests[m] <= requests'[m] /\ (Mail!Known(m) => Mail!Known(m)'),
         mailFaults' = 0 => mailFaults = 0
  PROVE  mail' \in [Slots -> MailHandler] /\ \A d \in Slots : Fits(mail[d])'
  <1>1. /\ mail' \in [Slots -> MailHandler] /\ mail'[c] = n
        /\ \A d \in Slots \ {c} : mail'[d] = mail[d] /\ mail[d] \in MailHandler
    BY DEF MailInv, MailTypes
  <1>2. ASSUME NEW d \in Slots \ {c} PROVE Fits(mail[d])'
    <2>1. PICK h \in MailHandler : h = mail[d] /\ h = mail'[d]
      BY <1>1
    <2>2. Fits(h)
      BY <2>1 DEF MailInv
    <2>3. CASE h.pc = "idle"
      BY <2>1, <2>2, <2>3 DEF Fits
    <2>4. CASE h.pc # "idle"
      <3>1. PICK m \in Messages : h.message = m
        BY <2>2, <2>4 DEF Fits
      <3>2. /\ requests[m] \in Nat /\ requests'[m] \in Nat /\ h.request \in Nat
            /\ h.request <= requests[m] /\ requests[m] <= requests'[m]
        BY <2>2, <2>4, <3>1 DEF Fits, MailInv, MailTypes, MailHandler
      <3>3. h.request <= requests'[m]
        BY <3>2
      <3>4. h.pc = "auditMail" => Mail!Known(m)'
        BY <2>2, <2>4, <3>1 DEF Fits
      <3>5. Fits(h)'
        BY <2>2, <2>4, <3>1, <3>3, <3>4 DEF Fits
      <3> QED
        BY <2>1, <3>5 DEF Fits
    <2> QED
      BY <2>3, <2>4
  <1>3. Fits(mail[c])'
    BY <1>1 DEF Fits
  <1> QED
    BY <1>1, <1>2, <1>3

\* How the counts of a message change when one handler moves.
LEMMA CountsMove ==
  ASSUME MailTypes, NEW c \in Slots, NEW n \in MailHandler, mail' = [mail EXCEPT ![c] = n],
         NEW m \in Messages
  PROVE  /\ Carrying(m) \in SUBSET Slots /\ Carrying(m)' \in SUBSET Slots
         /\ Opening(m) \in SUBSET Slots /\ Opening(m)' \in SUBSET Slots
         /\ Carrying(m) \ {c} = Carrying(m)' \ {c} /\ Opening(m) \ {c} = Opening(m)' \ {c}
         /\ c \in Carrying(m) <=> mail[c].message = m /\ mail[c].request > 0
         /\ c \in Opening(m) <=> mail[c].message = m /\ mail[c].pc = "open"
         /\ c \in Carrying(m)' <=> n.message = m /\ n.request > 0
         /\ c \in Opening(m)' <=> n.message = m /\ n.pc = "open"
  BY DEF MailTypes, Carrying, Opening

\* A handler of m0 moves without storing the message: a request it opens was
\* announced, and is carried until a fault or until the message is stored.
LEMMA MailMove ==
  ASSUME MailInv, NEW c \in Slots, NEW n \in MailHandler, mail' = [mail EXCEPT ![c] = n],
         Fits(n)', UNCHANGED <<recipient, mailbox>>,
         NEW m0 \in Messages, NEW dR \in 0..1, NEW dF \in 0..1,
         requests' = [requests EXCEPT ![m0] = @ + dR], mailFaults' = mailFaults + dF,
         mail[c].message \in {m0, "none"}, n.message \in {m0, "none"},
         kept' = kept \/ (kept' = kept \cup {m0} /\ Mail!Known(m0)),
         Mail!Known(m0) => /\ c \in Opening(m0)' => c \in Opening(m0)
                           /\ dR = 1 => c \in Opening(m0) /\ c \notin Opening(m0)',
         ~Mail!Known(m0) => /\ c \in Carrying(m0) => c \in Carrying(m0)' \/ dF = 1
                            /\ dR = 1 => c \notin Carrying(m0) /\ c \in Carrying(m0)'
  PROVE  MailInv'
  <1>1. /\ MailTypes /\ mailFaults \in Nat /\ mailFaults' \in Nat /\ mailFaults <= mailFaults'
        /\ requests[m0] \in Nat /\ requests'[m0] = requests[m0] + dR
        /\ \A m \in Messages \ {m0} : requests'[m] = requests[m]
        /\ requests' \in [Messages -> Nat] /\ (mailFaults' = 0 => mailFaults = 0)
        /\ \A m \in Messages : requests[m] \in Nat /\ requests'[m] \in Nat
    BY DEF MailInv, MailTypes
  <1>2. \A m \in Messages : requests[m] <= requests'[m] /\ (Mail!Known(m)' <=> Mail!Known(m))
    BY <1>1 DEF Mail!Known
  <1>3. mail' \in [Slots -> MailHandler] /\ \A d \in Slots : Fits(mail[d])'
    BY <1>1, <1>2, OthersFit
  <1>4. MailTypes'
    BY <1>1, <1>3 DEF MailTypes
  <1>5. ASSUME NEW m \in Messages PROVE Settled(m)'
    <2>1. Settled(m) /\ mailbox[m].request \in Nat
      BY <1>1, <1>5 DEF MailInv, MailTypes
    <2>2. mailbox[m].request \in 1..requests[m] => mailbox[m].request \in 1..requests'[m]
      BY <1>1, <1>2, <1>5, <2>1
    <2> QED
      BY <1>1, <1>2, <2>1, <2>2 DEF Settled
  <1>6. ASSUME NEW m \in Messages \ {m0} PROVE Charged(m)'
    <2>0. m # "none" /\ m # m0
      BY <1>6, BoundsAssumption
    <2>1. /\ Carrying(m) \in SUBSET Slots /\ Carrying(m)' \in SUBSET Slots
          /\ Opening(m) \in SUBSET Slots /\ Opening(m)' \in SUBSET Slots
          /\ Carrying(m) \ {c} = Carrying(m)' \ {c} /\ Opening(m) \ {c} = Opening(m)' \ {c}
          /\ c \notin Carrying(m) /\ c \notin Opening(m) /\ c \notin Carrying(m)'
          /\ c \notin Opening(m)'
      BY <1>1, <2>0, CountsMove
    <2>2. Carrying(m)' = Carrying(m) /\ Opening(m)' = Opening(m)
      BY <2>1
    <2>3. /\ Cardinality(Carrying(m)) \in Nat /\ Cardinality(Opening(m)) \in Nat
          /\ Cardinality(Slots) \in Nat
      BY <2>1, CountWithin
    <2>4. Charged(m)
      BY <1>6 DEF MailInv
    <2> QED
      BY <1>1, <1>2, <1>6, <2>2, <2>3, <2>4 DEF Charged
  <1>7. Charged(m0)'
    <2>1. /\ Carrying(m0) \in SUBSET Slots /\ Carrying(m0)' \in SUBSET Slots
          /\ Opening(m0) \in SUBSET Slots /\ Opening(m0)' \in SUBSET Slots
          /\ Carrying(m0) \ {c} = Carrying(m0)' \ {c} /\ Opening(m0) \ {c} = Opening(m0)' \ {c}
      BY <1>1, CountsMove
    <2>2. /\ Cardinality(Carrying(m0)) \in Nat /\ Cardinality(Opening(m0)) \in Nat
          /\ Cardinality(Carrying(m0)') \in Nat /\ Cardinality(Opening(m0)') \in Nat
          /\ Cardinality(Slots) \in Nat
      BY <2>1, CountWithin
    <2>3. Charged(m0)
      BY DEF MailInv
    <2>4. CASE Mail!Known(m0)
      <3>1. Cardinality(Opening(m0)') + dR <= Cardinality(Opening(m0))
        BY <2>1, <2>2, <2>4, OneMoves
      <3>2. requests[m0] + Cardinality(Opening(m0)) <= Cardinality(Slots) + mailFaults
        BY <2>3, <2>4 DEF Charged
      <3>3. requests'[m0] + Cardinality(Opening(m0)') <= Cardinality(Slots) + mailFaults'
        BY <1>1, <2>2, <3>1, <3>2
      <3> QED
        BY <1>2, <2>4, <3>3 DEF Charged
    <2>5. CASE ~Mail!Known(m0)
      <3>1. Cardinality(Carrying(m0)) + dR <= Cardinality(Carrying(m0)') + dF
        BY <2>1, <2>2, <2>5, OneMoves
      <3>2. requests[m0] <= Cardinality(Carrying(m0)) + mailFaults
        BY <2>3, <2>5 DEF Charged
      <3>3. requests'[m0] <= Cardinality(Carrying(m0)') + mailFaults'
        BY <1>1, <2>2, <3>1, <3>2
      <3> QED
        BY <1>2, <2>5, <3>3 DEF Charged
    <2> QED
      BY <2>4, <2>5
  <1>8. \A m \in kept' : Mail!Known(m)'
    BY <1>1, <1>2 DEF MailInv, MailTypes
  <1> QED
    BY <1>3, <1>4, <1>5, <1>6, <1>7, <1>8 DEF MailInv

\* The insert stores what the handler holds: the handlers that carry a request
\* and those about to open one are different ones.
LEMMA MailStores ==
  ASSUME MailInv, NEW c \in Slots, Mail!At(c, "insert"), NEW m0 \in Messages,
         mail[c].message = m0, ~Mail!Known(m0),
         mailbox' = [mailbox EXCEPT ![m0] = Mail!Stored(mail[c])],
         NEW n \in MailHandler, mail' = [mail EXCEPT ![c] = n],
         n = Mail!Free \/ n = [mail[c] EXCEPT !.pc = "auditMail"],
         kept' = kept \/ kept' = kept \cup {m0}, UNCHANGED <<recipient, requests, mailFaults>>
  PROVE  MailInv'
  <1>1. /\ MailTypes /\ mail[c] \in MailHandler /\ mail[c].pc = "insert"
        /\ Fits(mail[c]) /\ mailFaults \in Nat /\ requests[m0] \in Nat
        /\ mail[c].request \in Nat /\ mail[c].status \in {"none", "routed", "unrouted"}
    BY DEF MailInv, MailTypes, MailHandler, Mail!At
  <1>2. /\ mail[c].request <= requests[m0] /\ mail[c].status # "none"
        /\ mail[c].request > 0 => recipient[m0] = "dsr"
        /\ mail[c].status = "routed" => mail[c].request > 0
        /\ recipient[m0] = "dsr" /\ mailFaults = 0 => mail[c].status = "routed"
    BY <1>1 DEF Fits
  <1>3. /\ mailbox'[m0] = [status |-> mail[c].status, request |-> mail[c].request]
        /\ \A m \in Messages \ {m0} : mailbox'[m] = mailbox[m]
        /\ mailbox' \in [Messages -> [status : {"none", "routed", "unrouted"}, request : Nat]]
    BY <1>1 DEF MailTypes, Mail!Stored
  <1>4. Mail!Known(m0)' /\ \A m \in Messages \ {m0} : Mail!Known(m)' <=> Mail!Known(m)
    BY <1>2, <1>3 DEF Mail!Known
  <1>5. Fits(n)'
    <2>1. CASE n = Mail!Free
      BY <2>1 DEF Mail!Free, Fits
    <2>2. CASE n = [mail[c] EXCEPT !.pc = "auditMail"]
      <3>1. /\ n.pc = "auditMail" /\ n.message = m0 /\ n.status = mail[c].status
            /\ n.request = mail[c].request
        BY <1>1, <2>2 DEF MailHandler
      <3> QED
        BY <1>2, <1>4, <3>1 DEF Fits
    <2> QED
      BY <2>1, <2>2
  <1>6. mail' \in [Slots -> MailHandler] /\ \A d \in Slots : Fits(mail[d])'
    <2>1. /\ requests' \in [Messages -> Nat] /\ mailFaults' \in Nat
          /\ \A m \in Messages : requests[m] \in Nat /\ requests'[m] = requests[m]
      BY <1>1 DEF MailTypes
    <2>2. \A m \in Messages : requests[m] <= requests'[m] /\ (Mail!Known(m) => Mail!Known(m)')
      BY <1>4, <2>1
    <2> QED
      BY <1>5, <2>1, <2>2, OthersFit
  <1>7. MailTypes'
    BY <1>1, <1>3, <1>6 DEF MailTypes
  <1>8. ASSUME NEW m \in Messages PROVE Settled(m)'
    <2>1. CASE m = m0
      <3>1. mail[c].status = "routed" => mail[c].request \in 1..requests[m0]
        BY <1>1, <1>2
      <3> QED
        BY <1>2, <1>3, <2>1, <3>1 DEF Settled
    <2>2. CASE m # m0
      BY <1>3, <1>4, <1>8, <2>2 DEF Settled, MailInv
    <2> QED
      BY <2>1, <2>2
  <1>9. n.pc # "open" /\ n.message \in {m0, "none"}
    BY <1>1 DEF Mail!Free, MailHandler
  <1>10. ASSUME NEW m \in Messages \ {m0} PROVE Charged(m)'
    <2>1. m # "none" /\ m # m0
      BY <1>10, BoundsAssumption
    <2>2. /\ Carrying(m) \ {c} = Carrying(m)' \ {c} /\ Opening(m) \ {c} = Opening(m)' \ {c}
          /\ c \notin Carrying(m) /\ c \notin Opening(m) /\ c \notin Carrying(m)'
          /\ c \notin Opening(m)'
      BY <1>1, <1>9, <2>1, CountsMove
    <2>3. Carrying(m)' = Carrying(m) /\ Opening(m)' = Opening(m)
      BY <2>2
    <2>4. Charged(m)
      BY <1>10 DEF MailInv
    <2> QED
      BY <1>4, <1>10, <2>3, <2>4 DEF Charged
  <1>11. Charged(m0)'
    <2>1. /\ Opening(m0) \ {c} = Opening(m0)' \ {c} /\ c \notin Opening(m0) /\ c \notin Opening(m0)'
          /\ Carrying(m0) \in SUBSET Slots /\ Opening(m0) \in SUBSET Slots
      BY <1>1, <1>9, CountsMove
    <2>2. Opening(m0)' = Opening(m0)
      BY <2>1
    <2>3. ASSUME NEW d \in Carrying(m0) \cap Opening(m0) PROVE FALSE
      <3>1. d \in Slots /\ mail[d].request > 0 /\ mail[d].pc = "open" /\ Fits(mail[d])
        BY <2>3 DEF Carrying, Opening, MailInv
      <3> QED
        BY <3>1 DEF Fits
    <2>4. Carrying(m0) \cap Opening(m0) = {}
      BY <2>3
    <2>5. /\ Cardinality(Carrying(m0)) \in Nat /\ Cardinality(Opening(m0)) \in Nat
          /\ Cardinality(Slots) \in Nat
          /\ Cardinality(Carrying(m0)) + Cardinality(Opening(m0)) <= Cardinality(Slots)
      BY <2>1, <2>4, TwoKindsFit
    <2>6. requests[m0] <= Cardinality(Carrying(m0)) + mailFaults
      BY DEF MailInv, Charged
    <2>7. requests[m0] + Cardinality(Opening(m0)) <= Cardinality(Slots) + mailFaults
      BY <1>1, <2>5, <2>6
    <2> QED
      BY <1>4, <2>2, <2>7 DEF Charged
  <1>12. \A m \in kept' : Mail!Known(m)'
    BY <1>1, <1>4 DEF MailInv, MailTypes
  <1> QED
    BY <1>6, <1>7, <1>8, <1>10, <1>11, <1>12 DEF MailInv

\* A step of a handler that opens no request.
LEMMA MailMoveQuietly ==
  ASSUME MailInv, NEW c \in Slots, NEW n \in MailHandler, mail' = [mail EXCEPT ![c] = n],
         Fits(n)', UNCHANGED <<recipient, mailbox, requests>>,
         NEW m0 \in Messages, NEW dF \in 0..1, mailFaults' = mailFaults + dF,
         mail[c].message \in {m0, "none"}, n.message \in {m0, "none"},
         kept' = kept \/ (kept' = kept \cup {m0} /\ Mail!Known(m0)),
         Mail!Known(m0) => n.pc # "open",
         ~Mail!Known(m0) /\ dF = 0 /\ mail[c].message = m0 /\ mail[c].request > 0 =>
            n.message = m0 /\ n.request > 0
  PROVE  MailInv'
  <1>1. PICK dR \in 0..1 : dR = 0 /\ requests' = [requests EXCEPT ![m0] = @ + dR]
    BY DEF MailInv, MailTypes
  <1>2. /\ c \in Carrying(m0) <=> mail[c].message = m0 /\ mail[c].request > 0
        /\ c \in Carrying(m0)' <=> n.message = m0 /\ n.request > 0
        /\ c \in Opening(m0)' <=> n.message = m0 /\ n.pc = "open"
    BY CountsMove DEF MailInv
  <1>3. Mail!Known(m0) => /\ c \in Opening(m0)' => c \in Opening(m0)
                          /\ dR = 1 => c \in Opening(m0) /\ c \notin Opening(m0)'
    BY <1>1, <1>2
  <1>4. ~Mail!Known(m0) => /\ c \in Carrying(m0) => c \in Carrying(m0)' \/ dF = 1
                           /\ dR = 1 => c \notin Carrying(m0) /\ c \in Carrying(m0)'
    BY <1>1, <1>2
  <1> QED
    BY <1>1, <1>3, <1>4, MailMove

\* Every step of the inbound mail keeps MailInv.
LEMMA MailStep ==
  ASSUME MailInv, [Mail!Next]_mailVars
  PROVE  MailInv'
  <1>1. CASE UNCHANGED mailVars
    BY <1>1 DEF mailVars, MailInv, MailTypes, Fits, Settled, Charged, Carrying, Opening, Mail!Known
  <1>2. /\ MailTypes /\ mailFaults \in Nat
        /\ Mail!Free \in MailHandler /\ Mail!Free.message = "none" /\ Mail!Free.pc = "idle"
        /\ Mail!Free.request = 0 /\ Fits(Mail!Free)'
    BY DEF MailInv, MailTypes, MailHandler, Mail!Free, Fits
  <1>3. ASSUME NEW c \in Slots, NEW m \in Messages, Mail!Receive(c, m) PROVE MailInv'
    <2>1. /\ mail[c].pc = "idle" /\ mail[c].message = "none" /\ mail[c] \in MailHandler
          /\ UNCHANGED <<recipient, mailbox, requests, mailFaults>> /\ m # "none"
      BY <1>2, <1>3, BoundsAssumption DEF Mail!Receive, Mail!At, MailInv, Fits, MailTypes
    <2>2. PICK n \in MailHandler :
            /\ mail' = [mail EXCEPT ![c] = n]
            /\ \/ n = mail[c] /\ kept' = kept \cup {m} /\ Mail!Known(m)
               \/ n = Mail!Routing(m) /\ kept' = kept /\ ~Mail!Known(m)
      <3>1. Mail!Routing(m) \in MailHandler
        BY DEF Mail!Routing, MailHandler
      <3>2. mail = [mail EXCEPT ![c] = mail[c]]
        BY <1>2 DEF MailTypes
      <3> QED
        BY <1>3, <2>1, <3>1, <3>2 DEF Mail!Receive, Mail!Become
    <2>3. Fits(n)' /\ n.message \in {m, "none"} /\ (Mail!Known(m) => n.pc # "open")
      <3>1. CASE n = mail[c] /\ Mail!Known(m)
        BY <2>1, <3>1 DEF Fits
      <3>2. CASE n = Mail!Routing(m) /\ ~Mail!Known(m)
        <4>1. /\ n.message = m /\ n.request = 0 /\ n.pc \in {"open", "insert"}
              /\ n.status \in {"none", "unrouted"}
              /\ n.pc = "insert" => n.status = "unrouted" /\ recipient[m] # "dsr"
          BY <3>2 DEF Mail!Routing
        <4>2. requests[m] \in Nat
          BY <1>2 DEF MailTypes
        <4> QED
          BY <2>1, <3>2, <4>1, <4>2 DEF Fits
      <3> QED
        BY <2>2, <3>1, <3>2
    <2>4. PICK dF \in 0..1 : dF = 0 /\ mailFaults' = mailFaults + dF
      BY <1>2, <2>1
    <2>5. kept' = kept \/ (kept' = kept \cup {m} /\ Mail!Known(m))
      BY <2>2
    <2> QED
      BY <2>1, <2>2, <2>3, <2>4, <2>5, MailMoveQuietly
  <1>4. ASSUME NEW c \in Slots, mail[c].pc # "idle",
               Mail!OpenRequest(c) \/ Mail!AuditRequest(c) \/ Mail!Insert(c) \/ Mail!AuditMail(c)
               \/ Mail!Abort(c)
        PROVE  MailInv'
    <2>1. PICK m \in Messages : mail[c].message = m
      BY <1>4 DEF MailInv, Fits
    <2>2. /\ mail[c] \in MailHandler /\ requests[m] \in Nat /\ mail[c].request \in Nat
          /\ mail[c].request <= requests[m]
          /\ mail[c].request > 0 => recipient[m] = "dsr"
          /\ mail[c].pc = "auditRequest" \/ mail[c].status = "routed" => mail[c].request > 0
          /\ mail[c].pc = "open" => mail[c].request = 0
          /\ mail[c].pc = "insert" => mail[c].status # "none"
          /\ mail[c].pc = "auditMail" => Mail!Known(m)
      BY <1>2, <1>4, <2>1 DEF MailInv, MailTypes, MailHandler, Fits
    <2>3. /\ Mail!Unrouted(mail[c]) \in MailHandler
          /\ Mail!Unrouted(mail[c]).pc = "insert" /\ Mail!Unrouted(mail[c]).status = "unrouted"
          /\ Mail!Unrouted(mail[c]).message = m /\ Mail!Unrouted(mail[c]).request = 0
      BY <2>1, <2>2 DEF Mail!Unrouted, MailHandler
    <2>4. CASE Mail!OpenRequest(c)
      <3>1. /\ mail[c].pc = "open" /\ UNCHANGED <<recipient, mailbox, kept>>
        BY <2>4 DEF Mail!OpenRequest, Mail!At
      <3>2. CASE /\ recipient[m] = "dsr" /\ requests' = [requests EXCEPT ![m] = @ + 1]
                 /\ Mail!Become(c, [mail[c] EXCEPT !.pc = "auditRequest", !.request = requests[m] + 1])
                 /\ UNCHANGED mailFaults
        <4>0. /\ requests[m] + 1 \in Nat /\ requests[m] + 1 > 0
              /\ ~(mail[c].request > 0)
          BY <2>2, <3>1
        <4>6. /\ [mail[c] EXCEPT !.pc = "auditRequest", !.request = requests[m] + 1] \in MailHandler
              /\ [mail[c] EXCEPT !.pc = "auditRequest", !.request = requests[m] + 1].pc = "auditRequest"
              /\ [mail[c] EXCEPT !.pc = "auditRequest", !.request = requests[m] + 1].message = m
              /\ [mail[c] EXCEPT !.pc = "auditRequest", !.request = requests[m] + 1].request =
                    requests[m] + 1
          BY <2>1, <2>2, <4>0 DEF MailHandler
        <4>1. PICK n \in MailHandler :
                /\ mail' = [mail EXCEPT ![c] = n] /\ n.pc = "auditRequest" /\ n.message = m
                /\ n.request = requests[m] + 1
          BY <3>2, <4>6 DEF Mail!Become
        <4>2. requests'[m] = requests[m] + 1
          BY <1>2, <3>2 DEF MailTypes
        <4>3. Fits(n)'
          BY <2>2, <3>1, <3>2, <4>1, <4>2 DEF Fits
        <4>4. PICK dR \in 0..1, dF \in 0..1 :
                /\ dR = 1 /\ dF = 0 /\ mailFaults' = mailFaults + dF
                /\ requests' = [requests EXCEPT ![m] = @ + dR]
          BY <1>2, <3>2
        <4>5. /\ c \in Carrying(m)' /\ c \notin Carrying(m) /\ c \in Opening(m)
              /\ c \notin Opening(m)'
          <5>1. mail' = [mail EXCEPT ![c] = n] /\ MailTypes
            BY <1>2, <4>1
          <5>2. /\ c \in Carrying(m) <=> mail[c].message = m /\ mail[c].request > 0
                /\ c \in Opening(m) <=> mail[c].message = m /\ mail[c].pc = "open"
                /\ c \in Carrying(m)' <=> n.message = m /\ n.request > 0
                /\ c \in Opening(m)' <=> n.message = m /\ n.pc = "open"
            BY <5>1, CountsMove
          <5> QED
            BY <2>1, <3>1, <4>0, <4>1, <5>2
        <4> QED
          BY <2>1, <3>1, <4>1, <4>3, <4>4, <4>5, MailMove
      <3>3. CASE /\ IF recipient[m] = "dsr" THEN Mail!Fault ELSE UNCHANGED mailFaults
                 /\ Mail!Become(c, Mail!Unrouted(mail[c])) /\ UNCHANGED requests
        <4>1. PICK n \in MailHandler :
                /\ mail' = [mail EXCEPT ![c] = n] /\ n.pc = "insert" /\ n.message = m
                /\ n.request = 0 /\ n.status = "unrouted"
          BY <2>3, <3>3 DEF Mail!Become
        <4>2. PICK dF \in 0..1 : /\ mailFaults' = mailFaults + dF
                                 /\ recipient[m] = "dsr" => dF = 1
          BY <1>2, <3>3 DEF Mail!Fault
        <4>3. recipient[m] = "dsr" => mailFaults' # 0
          BY <1>2, <4>2
        <4>4. Fits(n)'
          BY <2>2, <3>1, <3>3, <4>1, <4>3 DEF Fits
        <4> QED
          BY <2>1, <2>2, <3>1, <3>3, <4>1, <4>2, <4>4, MailMoveQuietly
      <3> QED
        BY <2>1, <2>4, <3>2, <3>3 DEF Mail!OpenRequest
    <2>5. CASE Mail!AuditRequest(c)
      <3>1. /\ mail[c].pc = "auditRequest" /\ UNCHANGED <<recipient, mailbox, requests, kept>>
        BY <2>5 DEF Mail!AuditRequest, Mail!At
      <3>2. /\ [mail[c] EXCEPT !.pc = "insert", !.status = "routed"] \in MailHandler
            /\ [mail[c] EXCEPT !.pc = "insert", !.status = "routed"].pc = "insert"
            /\ [mail[c] EXCEPT !.pc = "insert", !.status = "routed"].message = m
            /\ [mail[c] EXCEPT !.pc = "insert", !.status = "routed"].status = "routed"
            /\ [mail[c] EXCEPT !.pc = "insert", !.status = "routed"].request = mail[c].request
        BY <2>1, <2>2 DEF MailHandler
      <3>7. PICK n \in MailHandler :
              /\ mail' = [mail EXCEPT ![c] = n] /\ n.pc = "insert" /\ n.message = m
              /\ \/ n.status = "routed" /\ n.request = mail[c].request /\ mailFaults' = mailFaults
                 \/ n.status = "unrouted" /\ n.request = 0 /\ mailFaults' = mailFaults + 1
        <4>1. CASE /\ Mail!Become(c, [mail[c] EXCEPT !.pc = "insert", !.status = "routed"])
                   /\ UNCHANGED mailFaults
          BY <3>2, <4>1 DEF Mail!Become
        <4>2. CASE Mail!Fault /\ Mail!Become(c, Mail!Unrouted(mail[c]))
          BY <2>3, <4>2 DEF Mail!Become, Mail!Fault
        <4> QED
          BY <2>5, <4>1, <4>2 DEF Mail!AuditRequest
      <3>3. PICK dF \in 0..1 :
              /\ mailFaults' = mailFaults + dF
              /\ dF = 0 => n.status = "routed" /\ n.request = mail[c].request
              /\ dF = 1 => n.status = "unrouted" /\ n.request = 0
        BY <1>2, <3>7
      <3>4. n.status # "routed" => mailFaults' # 0
        BY <1>2, <3>3, <3>7
      <3>5. Fits(n)'
        BY <2>2, <3>1, <3>4, <3>7 DEF Fits
      <3>6. dF = 0 => n.request = mail[c].request
        BY <3>3
      <3> QED
        BY <2>1, <3>1, <3>3, <3>5, <3>6, <3>7, MailMoveQuietly
    <2>6. CASE Mail!Insert(c)
      <3>1. Mail!At(c, "insert") /\ UNCHANGED <<recipient, requests, mailFaults>>
        BY <2>6 DEF Mail!Insert
      <3>2. CASE ~Mail!Known(m) /\ mailbox' = [mailbox EXCEPT ![m] = Mail!Stored(mail[c])]
        <4>1. [mail[c] EXCEPT !.pc = "auditMail"] \in MailHandler
          BY <2>2 DEF MailHandler
        <4>2. PICK n \in MailHandler :
                /\ mail' = [mail EXCEPT ![c] = n]
                /\ n = Mail!Free \/ n = [mail[c] EXCEPT !.pc = "auditMail"]
          BY <1>2, <2>6, <4>1 DEF Mail!Insert, Mail!Become, Mail!Throw
        <4>3. kept' = kept \/ kept' = kept \cup {m}
          BY <2>1, <2>6 DEF Mail!Insert
        <4> QED
          BY <2>1, <3>1, <3>2, <4>2, <4>3, MailStores
      <3>3. CASE /\ Mail!Known(m) \/ recipient[m] = "unknownOrg"
                 /\ Mail!Throw(c) /\ UNCHANGED <<mailbox, kept>>
        <4>1. ~Mail!Known(m) => ~(mail[c].request > 0)
          BY <2>2, <3>3
        <4>2. PICK dF \in 0..1 : mailFaults' = mailFaults + dF /\ dF = 0
          BY <1>2, <3>1
        <4>3. mail' = [mail EXCEPT ![c] = Mail!Free]
          BY <3>3 DEF Mail!Throw, Mail!Become
        <4>4. UNCHANGED <<recipient, mailbox, requests>>
          BY <3>1, <3>3
        <4> QED
          BY <1>2, <2>1, <3>1, <3>3, <4>1, <4>2, <4>3, <4>4, MailMoveQuietly
      <3> QED
        BY <2>1, <2>6, <3>2, <3>3 DEF Mail!Insert
    <2>7. CASE Mail!AuditMail(c)
      <3>1. /\ mail[c].pc = "auditMail" /\ UNCHANGED <<recipient, mailbox, requests, mailFaults>>
            /\ kept' = kept \cup {m} /\ mail' = [mail EXCEPT ![c] = Mail!Free] /\ Mail!Known(m)
        BY <2>1, <2>2, <2>7 DEF Mail!AuditMail, Mail!At, Mail!Throw, Mail!Become
      <3>2. PICK dF \in 0..1 : mailFaults' = mailFaults + dF /\ dF = 0
        BY <1>2, <3>1
      <3> QED
        BY <1>2, <2>1, <3>1, <3>2, MailMoveQuietly
    <2>8. CASE Mail!Abort(c)
      <3>1. /\ UNCHANGED <<recipient, mailbox, requests, kept>>
            /\ mail' = [mail EXCEPT ![c] = Mail!Free]
        BY <2>8 DEF Mail!Abort, Mail!Throw, Mail!Become
      <3>2. PICK dF \in 0..1 : mailFaults' = mailFaults + dF /\ dF = 1
        BY <1>2, <2>8 DEF Mail!Abort, Mail!Fault
      <3>3. dF # 0
        BY <3>2
      <3> QED
        BY <1>2, <2>1, <3>1, <3>2, <3>3, MailMoveQuietly
    <2> QED
      BY <1>4, <2>4, <2>5, <2>6, <2>7, <2>8
  <1>5. ASSUME NEW c \in Slots,
               Mail!OpenRequest(c) \/ Mail!AuditRequest(c) \/ Mail!Insert(c) \/ Mail!AuditMail(c)
               \/ Mail!Abort(c)
        PROVE  mail[c].pc # "idle"
    BY <1>5 DEF Mail!OpenRequest, Mail!AuditRequest, Mail!Insert, Mail!AuditMail, Mail!Abort, Mail!At
  <1> QED
    BY <1>1, <1>3, <1>4, <1>5 DEF Mail!Next

\* MailInv holds always.
LEMMA MailHolds == Spec => []MailInv
  <1>1. Init => MailInv
    <2> SUFFICES ASSUME Init PROVE MailInv
      OBVIOUS
    <2>1. /\ recipient \in [Messages -> Mail!Recipients]
          /\ mailbox = [m \in Messages |-> Mail!Blank] /\ requests = [m \in Messages |-> 0]
          /\ mail = [c \in Slots |-> Mail!Free] /\ kept = {} /\ mailFaults = 0
      BY DEF Init, Mail!Init
    <2>2. MailTypes
      BY <2>1 DEF MailTypes, Mail!Blank, Mail!Free, MailHandler
    <2>3. \A c \in Slots : Fits(mail[c])
      BY <2>1 DEF Fits, Mail!Free
    <2>4. ASSUME NEW m \in Messages PROVE Settled(m) /\ Charged(m)
      <3>1. ~Mail!Known(m) /\ mailbox[m].status = "none"
        BY <2>1 DEF Mail!Known, Mail!Blank
      <3>2. Carrying(m) \in SUBSET Slots
        BY DEF Carrying
      <3>3. Cardinality(Carrying(m)) \in Nat
        BY <3>2, CountWithin
      <3>4. requests[m] <= Cardinality(Carrying(m)) + mailFaults
        BY <2>1, <3>3
      <3> QED
        BY <3>1, <3>4 DEF Settled, Charged
    <2> QED
      BY <2>1, <2>2, <2>3, <2>4 DEF MailInv
  <1>2. [Next]_<<focus, rest>> => [Mail!Next]_mailVars
    BY DEF Next, rest
  <1> QED
    BY <1>1, <1>2, MailStep, PTL DEF Spec

\* RequestsBounded: deliveries of one message, however they overlap, open at
\* most one data-subject request per slot and one per fault
\* (InboundEmailService.receive).
THEOREM DeliveriesOpenFew == Spec => []RequestsBounded
  <1>1. MailInv => RequestsBounded
    <2> SUFFICES ASSUME MailInv, NEW m \in Messages
                 PROVE  requests[m] <= Cardinality(Slots) + mailFaults
      BY SameCounts DEF RequestsBounded, Mail!RequestsBounded
    <2>1. Charged(m) /\ requests[m] \in Nat /\ mailFaults \in Nat
      BY DEF MailInv, MailTypes
    <2>2. Carrying(m) \in SUBSET Slots /\ Opening(m) \in SUBSET Slots
      BY DEF Carrying, Opening
    <2>3. /\ Cardinality(Carrying(m)) \in Nat /\ Cardinality(Opening(m)) \in Nat
          /\ Cardinality(Slots) \in Nat /\ Cardinality(Carrying(m)) <= Cardinality(Slots)
      BY <2>2, CountWithin
    <2>4. CASE Mail!Known(m)
      BY <2>1, <2>3, <2>4 DEF Charged
    <2>5. CASE ~Mail!Known(m)
      BY <2>1, <2>3, <2>5 DEF Charged
    <2> QED
      BY <2>4, <2>5
  <1> QED
    BY <1>1, MailHolds, PTL

\* KeptIsStored: the mail service is told to stop delivering a message only when
\* it is stored, a routed one with a request that was opened for it, and without
\* faults every request to an organization is routed (InboundEmailService).
THEOREM AnsweredMailIsStored == Spec => []KeptIsStored
  <1>1. MailInv => KeptIsStored
    BY DEF MailInv, MailTypes, Settled, KeptIsStored, Mail!KeptIsStored
  <1> QED
    BY <1>1, MailHolds, PTL

-----------------------------------------------------------------------------
(* The ingestion portal.                                                    *)

\* The stages of ingest at which a tender is there, and those after its sector
\* and after its requirements were stored.
Created == {"sector", "requirements", "audit", "refetch"}
AfterSector == {"requirements", "audit", "refetch"}
AfterRequirements == {"audit", "refetch"}

\* A request knows its payload from the beginning, its company from the intake
\* and its tender from then on; unless it was removed the tender is the
\* payload's and has what has been stored so far.
InStage(r) ==
    /\ r.pc # "idle" => r.payload \in Payloads
    /\ r.pc \in {"auditBuyer", "intake"} => r.company \in CompanyIds
    /\ r.pc \notin Created => r.tender = "none"
    /\ r.pc \in Created =>
         /\ r.tender \in TenderIds
         /\ Portal!Exists(r.tender) =>
              /\ tenders[r.tender].payload = r.payload
              /\ r.pc \in AfterSector /\ r.payload \in Sectored => tenders[r.tender].sector
              /\ r.pc \in AfterRequirements /\ r.payload \in Listing => tenders[r.tender].requirements
    /\ r.pc = "refetch" => r.tender \in ingested

\* What was accepted is whole.
Whole(t) ==
    Portal!Exists(t) => /\ tenders[t].payload \in Sectored => tenders[t].sector
                        /\ tenders[t].payload \in Listing => tenders[t].requirements

PortalInv ==
    /\ portal \in [Slots -> Portal!Request]
    /\ companies \in [CompanyIds -> {"none", "buyer", "other"}]
    /\ tenders \in [TenderIds -> Portal!Row \cup {Portal!NoTender}]
    /\ ingested \subseteq TenderIds
    /\ \A c \in Slots : InStage(portal[c])
    /\ \A t \in TenderIds : Portal!Exists(t) => companies[tenders[t].company] # "none"
    /\ accepted \subseteq ingested
    /\ \A t \in accepted : Whole(t)

\* A tender row grows, or goes.
Grows(t) ==
    \/ tenders'[t] = Portal!NoTender
    \/ /\ Portal!Exists(t) /\ tenders'[t].payload = tenders[t].payload
       /\ tenders'[t].company = tenders[t].company
       /\ tenders[t].sector => tenders'[t].sector
       /\ tenders[t].requirements => tenders'[t].requirements

\* The rows grow or go, but for new ones that no request and no audit event
\* knows of: whatever was in its stage or whole stays so.
LEMMA GrowthKeeps ==
  ASSUME PortalInv, ingested \subseteq ingested', NEW r \in Portal!Request, InStage(r),
         r.pc \in Created => Grows(r.tender)
  PROVE  InStage(r)'
  <1>1. CASE r.pc \notin Created
    BY <1>1 DEF InStage, Created
  <1>2. CASE r.pc \in Created
    <2>1. PICK t \in TenderIds : r.tender = t
      BY <1>2 DEF InStage
    <2>2. CASE tenders'[t] = Portal!NoTender
      <3>1. ~Portal!Exists(t)'
        BY <2>2 DEF Portal!Exists, Portal!NoTender
      <3> QED
        BY <1>2, <2>1, <3>1 DEF InStage
    <2>3. CASE tenders'[t] # Portal!NoTender
      <3>1. /\ Portal!Exists(t) /\ tenders'[t].payload = tenders[t].payload
            /\ tenders[t].sector => tenders'[t].sector
            /\ tenders[t].requirements => tenders'[t].requirements
        BY <1>2, <2>1, <2>3 DEF Grows
      <3> QED
        BY <1>2, <2>1, <3>1 DEF InStage
    <2> QED
      BY <2>2, <2>3
  <1> QED
    BY <1>1, <1>2

\* A step of the portal: rows grow, go or are new, and the requests that move
\* are in their stages.
LEMMA PortalFrame ==
  ASSUME PortalInv, portal' \in [Slots -> Portal!Request],
         \A d \in Slots : portal'[d] = portal[d] \/ InStage(portal[d])',
         companies' \in [CompanyIds -> {"none", "buyer", "other"}],
         tenders' \in [TenderIds -> Portal!Row \cup {Portal!NoTender}],
         \A t \in TenderIds : t \in Portal!NewTenders \/ Grows(t),
         \A t \in TenderIds : tenders'[t] # Portal!NoTender => companies'[tenders'[t].company] # "none",
         ingested \subseteq ingested', ingested' \subseteq TenderIds, accepted' \subseteq ingested',
         \A t \in accepted' : t \in accepted \/ Whole(t)'
  PROVE  PortalInv'
  <1>1. ASSUME NEW d \in Slots PROVE InStage(portal[d])'
    <2>1. CASE portal'[d] = portal[d]
      <3>1. PICK r \in Portal!Request : r = portal[d] /\ r = portal'[d]
        BY <2>1 DEF PortalInv
      <3>2. InStage(r)
        BY <3>1 DEF PortalInv
      <3>3. r.pc \in Created => r.tender \in TenderIds /\ r.tender \notin Portal!NewTenders
        BY <3>1, <3>2 DEF InStage, Portal!NewTenders
      <3>4. InStage(r)'
        BY <3>2, <3>3, GrowthKeeps
      <3> QED
        BY <3>1, <3>4 DEF InStage
    <2> QED
      BY <2>1
  <1>2. ASSUME NEW t \in accepted' PROVE Whole(t)'
    <2>1. CASE t \in accepted
      <3>1. t \in ingested /\ t \in TenderIds /\ Whole(t)
        BY <2>1 DEF PortalInv
      <3>2. Grows(t)
        BY <3>1 DEF Portal!NewTenders
      <3>3. CASE tenders'[t] = Portal!NoTender
        BY <3>3 DEF Whole, Portal!Exists, Portal!NoTender
      <3>4. CASE tenders'[t] # Portal!NoTender
        BY <3>1, <3>2, <3>4 DEF Whole, Grows
      <3> QED
        BY <3>3, <3>4
    <2> QED
      BY <1>2, <2>1
  <1>3. \A t \in TenderIds : Portal!Exists(t)' => companies'[tenders'[t].company] # "none"
    BY DEF Portal!Exists, Portal!NoTender
  <1> QED
    BY <1>1, <1>2, <1>3 DEF PortalInv

\* A request moves on and the tables stay.
LEMMA PortalQuiet ==
  ASSUME PortalInv, NEW c \in Slots, NEW n \in Portal!Request, portal' = [portal EXCEPT ![c] = n],
         InStage(n)', UNCHANGED <<companies, tenders>>,
         ingested \subseteq ingested', ingested' \subseteq TenderIds, accepted' \subseteq ingested',
         \A t \in accepted' : t \in accepted \/ Whole(t)'
  PROVE  PortalInv'
  <1>1. /\ portal' \in [Slots -> Portal!Request] /\ portal'[c] = n
        /\ \A d \in Slots \ {c} : portal'[d] = portal[d]
    BY DEF PortalInv
  <1>2. InStage(portal[c])'
    BY <1>1 DEF InStage
  <1>3. \A d \in Slots : portal'[d] = portal[d] \/ InStage(portal[d])'
    BY <1>1, <1>2
  <1>4. \A t \in TenderIds : Grows(t)
    BY DEF Grows, Portal!Exists
  <1>5. \A t \in TenderIds : tenders'[t] # Portal!NoTender => companies'[tenders'[t].company] # "none"
    BY DEF PortalInv, Portal!Exists
  <1>6. /\ companies' \in [CompanyIds -> {"none", "buyer", "other"}]
        /\ tenders' \in [TenderIds -> Portal!Row \cup {Portal!NoTender}]
    BY DEF PortalInv
  <1> QED
    BY <1>1, <1>3, <1>4, <1>5, <1>6, PortalFrame

\* What users do: companies are renamed and removed with their tenders, and
\* tenders removed.
LEMMA PortalEdits ==
  ASSUME PortalInv,
         \/ \E i \in CompanyIds : Portal!RenameCompany(i) \/ Portal!RemoveCompany(i)
         \/ \E t \in TenderIds : Portal!RemoveTender(t)
  PROVE  PortalInv'
  <1>1. UNCHANGED <<portal, ingested, accepted>>
    BY DEF Portal!RenameCompany, Portal!RemoveCompany, Portal!RemoveTender
  <1>2. ASSUME companies' \in [CompanyIds -> {"none", "buyer", "other"}],
               tenders' \in [TenderIds -> Portal!Row \cup {Portal!NoTender}],
               \A t \in TenderIds : tenders'[t] \in {tenders[t], Portal!NoTender},
               \A t \in TenderIds : tenders'[t] # Portal!NoTender =>
                                      companies'[tenders'[t].company] # "none"
        PROVE  PortalInv'
    <2>1. \A t \in TenderIds : Grows(t)
      BY <1>2 DEF Grows, Portal!Exists
    <2>2. /\ portal' \in [Slots -> Portal!Request] /\ \A d \in Slots : portal'[d] = portal[d]
          /\ ingested \subseteq ingested' /\ ingested' \subseteq TenderIds
          /\ accepted' \subseteq ingested' /\ \A t \in accepted' : t \in accepted
      BY <1>1 DEF PortalInv
    <2> QED
      BY <1>2, <2>1, <2>2, PortalFrame
  <1>3. ASSUME NEW i \in CompanyIds, Portal!RenameCompany(i) PROVE PortalInv'
    BY <1>2, <1>3 DEF PortalInv, Portal!RenameCompany, Portal!Exists
  <1>4. ASSUME NEW i \in CompanyIds, Portal!RemoveCompany(i) PROVE PortalInv'
    <2>1. /\ companies' = [companies EXCEPT ![i] = "none"]
          /\ tenders' = [t \in TenderIds |->
                           IF tenders[t].company = i THEN Portal!NoTender ELSE tenders[t]]
      BY <1>4 DEF Portal!RemoveCompany
    <2>2. \A t \in TenderIds : tenders[t] # Portal!NoTender =>
            tenders[t].company \in CompanyIds /\ companies[tenders[t].company] # "none"
      BY DEF PortalInv, Portal!Exists, Portal!Row
    <2> QED
      BY <1>2, <2>1, <2>2 DEF PortalInv
  <1>5. ASSUME NEW t \in TenderIds, Portal!RemoveTender(t) PROVE PortalInv'
    BY <1>2, <1>5 DEF PortalInv, Portal!RemoveTender, Portal!Exists
  <1> QED
    BY <1>3, <1>4, <1>5

\* A request moves on and one tender is written under it.
LEMMA PortalWrites ==
  ASSUME PortalInv, NEW c \in Slots, NEW n \in Portal!Request, portal' = [portal EXCEPT ![c] = n],
         InStage(n)', UNCHANGED <<companies, ingested, accepted>>,
         NEW t \in TenderIds, NEW row \in Portal!Row, tenders' = [tenders EXCEPT ![t] = row],
         companies[row.company] # "none", t \in Portal!NewTenders \/ Grows(t)
  PROVE  PortalInv'
  <1>1. /\ portal' \in [Slots -> Portal!Request] /\ portal'[c] = n
        /\ \A d \in Slots \ {c} : portal'[d] = portal[d]
        /\ tenders' \in [TenderIds -> Portal!Row \cup {Portal!NoTender}] /\ tenders'[t] = row
        /\ \A s \in TenderIds \ {t} : tenders'[s] = tenders[s]
        /\ companies' \in [CompanyIds -> {"none", "buyer", "other"}]
        /\ ingested \subseteq ingested' /\ ingested' \subseteq TenderIds
        /\ accepted' \subseteq ingested' /\ \A s \in accepted' : s \in accepted
    BY DEF PortalInv
  <1>2. InStage(portal[c])'
    BY <1>1 DEF InStage
  <1>3. \A d \in Slots : portal'[d] = portal[d] \/ InStage(portal[d])'
    BY <1>1, <1>2
  <1>4. \A s \in TenderIds \ {t} : Grows(s)
    BY <1>1 DEF Grows, Portal!Exists
  <1>5. \A s \in TenderIds \ {t} :
          tenders'[s] # Portal!NoTender => companies'[tenders'[s].company] # "none"
    BY <1>1 DEF PortalInv, Portal!Exists
  <1>6. companies'[tenders'[t].company] # "none"
    BY <1>1
  <1>7. \A s \in TenderIds : s \in Portal!NewTenders \/ Grows(s)
    BY <1>4
  <1>8. \A s \in TenderIds : tenders'[s] # Portal!NoTender => companies'[tenders'[s].company] # "none"
    BY <1>5, <1>6
  <1> QED
    BY <1>1, <1>3, <1>7, <1>8, PortalFrame

\* A request that has no tender yet, or no more, is in its stage.
LEMMA EarlyStage ==
  ASSUME NEW n \in Portal!Request, n.pc \notin Created, n.tender = "none",
         n.pc # "idle" => n.payload \in Payloads,
         n.pc \in {"auditBuyer", "intake"} => n.company \in CompanyIds
  PROVE  InStage(n)'
  BY DEF InStage, Created

\* The way of a request up to the intake, and its end by an error.
LEMMA PortalAdmits ==
  ASSUME PortalInv, NEW c \in Slots,
         \/ \E p \in Payloads : Portal!Verify(c, p)
         \/ Portal!Admit(c) \/ Portal!FindBuyer(c) \/ Portal!CreateBuyer(c) \/ Portal!AuditBuyer(c)
         \/ Portal!Abort(c)
  PROVE  PortalInv'
  <1>1. /\ portal[c] \in Portal!Request /\ InStage(portal[c])
        /\ UNCHANGED <<tenders, ingested, accepted>>
        /\ ingested \subseteq TenderIds /\ accepted \subseteq ingested
    BY DEF PortalInv, Portal!Verify, Portal!Admit, Portal!FindBuyer, Portal!CreateBuyer,
           Portal!AuditBuyer, Portal!Abort
  <1>2. ASSUME NEW n \in Portal!Request, portal' = [portal EXCEPT ![c] = n], companies' = companies,
               n.pc \notin Created, n.tender = "none", n.pc # "idle" => n.payload \in Payloads,
               n.pc \in {"auditBuyer", "intake"} => n.company \in CompanyIds
        PROVE  PortalInv'
    BY <1>1, <1>2, EarlyStage, PortalQuiet
  <1>3. ASSUME NEW p \in Payloads, Portal!Verify(c, p) PROVE PortalInv'
    <2>1. PICK n : n = [Portal!Parked EXCEPT !.pc = "compare", !.payload = p]
      OBVIOUS
    <2>2. n \in Portal!Request /\ n.pc = "compare" /\ n.tender = "none" /\ n.payload = p
      BY <2>1 DEF Portal!Parked, Portal!Request
    <2> QED
      BY <1>2, <1>3, <2>1, <2>2 DEF Portal!Verify, Portal!Become, Created
  <1>4. CASE Portal!Admit(c) \/ Portal!AuditBuyer(c)
    <2>1. PICK pc \in {"buyer", "intake"} :
            /\ portal' = [portal EXCEPT ![c] = [portal[c] EXCEPT !.pc = pc]] /\ companies' = companies
            /\ portal[c].pc \in {"compare", "auditBuyer"}
            /\ pc = "intake" => portal[c].pc = "auditBuyer"
      BY <1>4 DEF Portal!Admit, Portal!AuditBuyer, Portal!Goto, Portal!Become, Portal!At
    <2>2. PICK n : n = [portal[c] EXCEPT !.pc = pc]
      OBVIOUS
    <2>3. /\ n \in Portal!Request /\ n.pc = pc /\ n.tender = portal[c].tender
          /\ n.payload = portal[c].payload /\ n.company = portal[c].company
      BY <1>1, <2>2 DEF Portal!Request
    <2>4. /\ n.tender = "none" /\ n.payload \in Payloads
          /\ n.pc \in {"auditBuyer", "intake"} => n.company \in CompanyIds
      BY <1>1, <2>1, <2>3 DEF InStage, Created
    <2> QED
      BY <1>2, <2>1, <2>2, <2>3, <2>4 DEF Created
  <1>5. CASE Portal!FindBuyer(c)
    <2>1. /\ portal[c].pc = "buyer" /\ companies' = companies
          /\ portal[c].tender = "none" /\ portal[c].payload \in Payloads
      BY <1>1, <1>5 DEF Portal!FindBuyer, Portal!At, InStage, Created
    <2>2. ASSUME NEW i \in Portal!Buyers,
                 Portal!Become(c, [portal[c] EXCEPT !.pc = "intake", !.company = i])
          PROVE  PortalInv'
      <3>1. PICK n : n = [portal[c] EXCEPT !.pc = "intake", !.company = i]
        OBVIOUS
      <3>2. /\ n \in Portal!Request /\ n.pc = "intake" /\ n.company \in CompanyIds
            /\ n.tender = portal[c].tender /\ n.payload = portal[c].payload
        BY <1>1, <2>2, <3>1 DEF Portal!Request, Portal!Buyers
      <3> QED
        BY <1>2, <2>1, <2>2, <3>1, <3>2 DEF Portal!Become, Created
    <2>3. CASE Portal!Goto(c, "create")
      <3>1. PICK n : n = [portal[c] EXCEPT !.pc = "create"]
        OBVIOUS
      <3>2. /\ n \in Portal!Request /\ n.pc = "create"
            /\ n.tender = portal[c].tender /\ n.payload = portal[c].payload
        BY <1>1, <3>1 DEF Portal!Request
      <3> QED
        BY <1>2, <2>1, <2>3, <3>1, <3>2 DEF Portal!Goto, Portal!Become, Created
    <2> QED
      BY <1>5, <2>2, <2>3 DEF Portal!FindBuyer
  <1>6. CASE Portal!CreateBuyer(c)
    <2>1. PICK i \in CompanyIds :
            /\ companies' = [companies EXCEPT ![i] = "buyer"]
            /\ portal' = [portal EXCEPT ![c] = [portal[c] EXCEPT !.pc = "auditBuyer", !.company = i]]
      <3>1. PICK i : i = CHOOSE j \in Portal!NewCompanies : TRUE
        OBVIOUS
      <3>2. Portal!NewCompanies # {} /\ Portal!NewCompanies \subseteq CompanyIds
        BY <1>6 DEF Portal!CreateBuyer, Portal!NewCompanies
      <3>3. i \in CompanyIds
        BY <3>1, <3>2
      <3> QED
        BY <1>6, <3>1, <3>3 DEF Portal!CreateBuyer, Portal!Become
    <2>2. PICK n : n = [portal[c] EXCEPT !.pc = "auditBuyer", !.company = i]
      OBVIOUS
    <2>3. /\ n \in Portal!Request /\ n.pc = "auditBuyer" /\ n.company = i
          /\ n.tender = portal[c].tender /\ n.payload = portal[c].payload
      BY <1>1, <2>1, <2>2 DEF Portal!Request
    <2>4. n.tender = "none" /\ n.payload \in Payloads
      BY <1>1, <1>6, <2>3 DEF Portal!CreateBuyer, Portal!At, InStage, Created
    <2>5. InStage(n)'
      BY <2>1, <2>3, <2>4, EarlyStage DEF Created
    <2>6. /\ portal' \in [Slots -> Portal!Request] /\ portal'[c] = n
          /\ \A d \in Slots \ {c} : portal'[d] = portal[d]
          /\ companies' \in [CompanyIds -> {"none", "buyer", "other"}]
          /\ \A j \in CompanyIds : companies[j] # "none" => companies'[j] # "none"
          /\ tenders' \in [TenderIds -> Portal!Row \cup {Portal!NoTender}]
      BY <1>1, <2>1, <2>2, <2>3 DEF PortalInv
    <2>7. InStage(portal[c])'
      BY <2>5, <2>6 DEF InStage
    <2>8. \A d \in Slots : portal'[d] = portal[d] \/ InStage(portal[d])'
      BY <2>6, <2>7
    <2>9. \A t \in TenderIds : Grows(t)
      BY <1>1 DEF Grows, Portal!Exists
    <2>10. \A t \in TenderIds :
             tenders'[t] # Portal!NoTender => companies'[tenders'[t].company] # "none"
      BY <1>1, <2>6 DEF PortalInv, Portal!Exists, Portal!Row
    <2> QED
      BY <1>1, <2>6, <2>8, <2>9, <2>10, PortalFrame
  <1>7. CASE Portal!Abort(c)
    <2>1. /\ Portal!Parked \in Portal!Request /\ Portal!Parked.pc = "idle"
          /\ Portal!Parked.tender = "none"
      BY DEF Portal!Parked, Portal!Request
    <2> QED
      BY <1>2, <1>7, <2>1 DEF Portal!Abort, Portal!Throw, Portal!Become, Created
  <1> QED
    BY <1>3, <1>4, <1>5, <1>6, <1>7

\* A request returns, with an answer or an error.
LEMMA PortalReturns ==
  ASSUME PortalInv, NEW c \in Slots, Portal!Throw(c), UNCHANGED <<companies, tenders, ingested>>,
         accepted' \subseteq ingested', \A t \in accepted' : t \in accepted \/ Whole(t)'
  PROVE  PortalInv'
  <1>1. /\ Portal!Parked \in Portal!Request /\ Portal!Parked.pc = "idle"
        /\ Portal!Parked.tender = "none"
    BY DEF Portal!Parked, Portal!Request
  <1>2. InStage(Portal!Parked)'
    BY <1>1 DEF InStage, Created
  <1>3. portal' = [portal EXCEPT ![c] = Portal!Parked]
    BY DEF Portal!Throw, Portal!Become
  <1>4. ingested \subseteq ingested' /\ ingested' \subseteq TenderIds
    BY DEF PortalInv
  <1> QED
    BY <1>1, <1>2, <1>3, <1>4, PortalQuiet

\* The writes of ingest, from the tender to the answer.
LEMMA PortalProjects ==
  ASSUME PortalInv, NEW c \in Slots,
         \/ Portal!Intake(c) \/ Portal!PersistSector(c) \/ Portal!PersistRequirements(c)
         \/ Portal!Audit(c) \/ Portal!Refetch(c)
  PROVE  PortalInv'
  <1>1. /\ portal[c] \in Portal!Request /\ InStage(portal[c]) /\ UNCHANGED companies
        /\ ingested \subseteq TenderIds /\ accepted \subseteq ingested
        /\ tenders \in [TenderIds -> Portal!Row \cup {Portal!NoTender}]
    BY DEF PortalInv, Portal!Intake, Portal!PersistSector, Portal!PersistRequirements,
           Portal!Audit, Portal!Refetch
  <1>2. Portal!NoTender \notin Portal!Row
    BY BoundsAssumption DEF Portal!NoTender, Portal!Row
  <1>3. CASE Portal!Intake(c)
    <2>1. /\ portal[c].pc = "intake" /\ portal[c].company \in CompanyIds
          /\ portal[c].payload \in Payloads /\ UNCHANGED <<ingested, accepted>>
      BY <1>1, <1>3 DEF Portal!Intake, Portal!At, InStage
    <2>2. PICK t : t = CHOOSE s \in Portal!NewTenders : TRUE
      OBVIOUS
    <2>3. t \in Portal!NewTenders /\ t \in TenderIds
      BY <1>3, <2>2 DEF Portal!Intake, Portal!NewTenders
    <2>4. PICK row : row = [company |-> portal[c].company, payload |-> portal[c].payload,
                            sector |-> FALSE, requirements |-> FALSE]
      OBVIOUS
    <2>5. PICK n : n = [portal[c] EXCEPT !.pc = Portal!AfterIntake(portal[c].payload), !.tender = t]
      OBVIOUS
    <2>6. /\ row \in Portal!Row /\ row.payload = portal[c].payload
          /\ row.company = portal[c].company
      BY <2>1, <2>4 DEF Portal!Row
    <2>7. /\ n \in Portal!Request /\ n.pc \in {"sector", "requirements"}
          /\ n.pc = "requirements" => portal[c].payload \notin Sectored
          /\ n.payload = portal[c].payload /\ n.tender = t
      BY <1>1, <2>3, <2>5 DEF Portal!Request, Portal!AfterIntake
    <2>8. CASE /\ companies[portal[c].company] # "none" /\ tenders' = [tenders EXCEPT ![t] = row]
               /\ portal' = [portal EXCEPT ![c] = n]
      <3>1. tenders'[t] = row
        BY <1>1, <2>3, <2>8
      <3>2. InStage(n)'
        BY <2>1, <2>3, <2>6, <2>7, <3>1 DEF InStage, Created, AfterSector, AfterRequirements
      <3> QED
        BY <1>1, <2>1, <2>3, <2>6, <2>7, <2>8, <3>2, PortalWrites
    <2>9. CASE Portal!Throw(c) /\ UNCHANGED tenders
      BY <1>1, <2>1, <2>9, PortalReturns
    <2> QED
      BY <1>3, <2>2, <2>4, <2>5, <2>8, <2>9 DEF Portal!Intake, Portal!Become
  <1>4. ASSUME portal[c].pc \in Created
        PROVE  PortalInv'
    <2>1. PICK t \in TenderIds : portal[c].tender = t
      BY <1>1, <1>4 DEF InStage
    <2>2. /\ portal[c].payload \in Payloads
          /\ Portal!Exists(t) =>
               /\ tenders[t] \in Portal!Row /\ tenders[t].payload = portal[c].payload
               /\ companies[tenders[t].company] # "none"
               /\ portal[c].pc \in AfterSector /\ portal[c].payload \in Sectored =>
                    tenders[t].sector
               /\ portal[c].pc \in AfterRequirements /\ portal[c].payload \in Listing =>
                    tenders[t].requirements
          /\ portal[c].pc = "refetch" => t \in ingested
      BY <1>1, <1>4, <2>1 DEF PortalInv, InStage, Created, Portal!Exists
    <2>3. \A pc \in {"requirements", "audit", "refetch"} :
            /\ [portal[c] EXCEPT !.pc = pc] \in Portal!Request
            /\ [portal[c] EXCEPT !.pc = pc].pc = pc /\ [portal[c] EXCEPT !.pc = pc].tender = t
            /\ [portal[c] EXCEPT !.pc = pc].payload = portal[c].payload
      BY <1>1, <2>1 DEF Portal!Request
    <2>4. CASE Portal!PersistSector(c)
      <3>1. UNCHANGED <<ingested, accepted>> /\ portal[c].pc = "sector"
        BY <2>4 DEF Portal!PersistSector, Portal!At
      <3>2. CASE Portal!Exists(t)
        <4>1. PICK row : row = [tenders[t] EXCEPT !.sector = TRUE]
          OBVIOUS
        <4>2. /\ row \in Portal!Row /\ row.sector /\ row.payload = tenders[t].payload
              /\ row.company = tenders[t].company /\ row.requirements = tenders[t].requirements
          BY <2>2, <3>2, <4>1 DEF Portal!Row
        <4>3. PICK n \in Portal!Request :
                /\ portal' = [portal EXCEPT ![c] = n] /\ n.pc = "requirements" /\ n.tender = t
                /\ n.payload = portal[c].payload
          BY <2>1, <2>3, <2>4, <3>2 DEF Portal!PersistSector, Portal!Goto, Portal!Become
        <4>4. tenders' = [tenders EXCEPT ![t] = row] /\ tenders'[t] = row
          BY <1>1, <2>1, <2>4, <3>2, <4>1 DEF Portal!PersistSector, Portal!Under
        <4>5. InStage(n)'
          BY <2>2, <3>2, <4>2, <4>3, <4>4 DEF InStage, Created, AfterSector, AfterRequirements
        <4>6. Grows(t)
          BY <3>2, <4>2, <4>4 DEF Grows
        <4> QED
          BY <1>1, <2>2, <3>1, <3>2, <4>2, <4>3, <4>4, <4>5, <4>6, PortalWrites
      <3>3. CASE ~Portal!Exists(t)
        <4>1. Portal!Throw(c) /\ UNCHANGED tenders
          BY <2>1, <2>4, <3>3 DEF Portal!PersistSector, Portal!Under
        <4> QED
          BY <1>1, <3>1, <4>1, PortalReturns
      <3> QED
        BY <3>2, <3>3
    <2>5. CASE Portal!PersistRequirements(c)
      <3>1. UNCHANGED <<ingested, accepted>> /\ portal[c].pc = "requirements"
        BY <2>5 DEF Portal!PersistRequirements, Portal!At
      <3>2. CASE portal[c].payload \in Listing /\ Portal!Exists(t)
        <4>1. PICK row : row = [tenders[t] EXCEPT !.requirements = TRUE]
          OBVIOUS
        <4>2. /\ row \in Portal!Row /\ row.requirements /\ row.payload = tenders[t].payload
              /\ row.company = tenders[t].company /\ row.sector = tenders[t].sector
          BY <2>2, <3>2, <4>1 DEF Portal!Row
        <4>3. PICK n \in Portal!Request :
                /\ portal' = [portal EXCEPT ![c] = n] /\ n.pc = "audit" /\ n.tender = t
                /\ n.payload = portal[c].payload
          BY <2>1, <2>3, <2>5, <3>2
          DEF Portal!PersistRequirements, Portal!Stores, Portal!Goto, Portal!Become
        <4>4. tenders' = [tenders EXCEPT ![t] = row] /\ tenders'[t] = row
          BY <1>1, <2>1, <2>5, <3>2, <4>1
          DEF Portal!PersistRequirements, Portal!Stores, Portal!Under
        <4>5. InStage(n)'
          BY <2>2, <3>1, <3>2, <4>2, <4>3, <4>4
          DEF InStage, Created, AfterSector, AfterRequirements
        <4>6. Grows(t)
          BY <3>2, <4>2, <4>4 DEF Grows
        <4> QED
          BY <1>1, <2>2, <3>1, <3>2, <4>2, <4>3, <4>4, <4>5, <4>6, PortalWrites
      <3>3. CASE portal[c].payload \in Listing /\ ~Portal!Exists(t)
        <4>1. Portal!Throw(c) /\ UNCHANGED tenders
          BY <2>1, <2>5, <3>3 DEF Portal!PersistRequirements, Portal!Stores, Portal!Under
        <4> QED
          BY <1>1, <3>1, <4>1, PortalReturns
      <3>4. CASE portal[c].payload \notin Listing
        <4>1. PICK n \in Portal!Request :
                /\ portal' = [portal EXCEPT ![c] = n] /\ n.pc = "audit" /\ n.tender = t
                /\ n.payload = portal[c].payload
          BY <2>3, <2>5, <3>4
          DEF Portal!PersistRequirements, Portal!Stores, Portal!Goto, Portal!Become
        <4>2. UNCHANGED tenders
          BY <2>5, <3>4 DEF Portal!PersistRequirements, Portal!Stores
        <4>3. InStage(n)'
          BY <2>2, <3>1, <3>4, <4>1, <4>2
          DEF InStage, Created, AfterSector, AfterRequirements, Portal!Exists
        <4> QED
          BY <1>1, <3>1, <4>1, <4>2, <4>3, PortalQuiet
      <3> QED
        BY <3>2, <3>3, <3>4
    <2>6. CASE Portal!Audit(c)
      <3>1. PICK n \in Portal!Request :
              /\ portal' = [portal EXCEPT ![c] = n] /\ n.pc = "refetch" /\ n.tender = t
              /\ n.payload = portal[c].payload
        BY <2>3, <2>6 DEF Portal!Audit, Portal!Goto, Portal!Become
      <3>2. /\ ingested' = ingested \cup {t} /\ UNCHANGED <<tenders, accepted>>
            /\ portal[c].pc = "audit"
        BY <2>1, <2>6 DEF Portal!Audit, Portal!At
      <3>3. InStage(n)'
        BY <2>2, <3>1, <3>2 DEF InStage, Created, AfterSector, AfterRequirements, Portal!Exists
      <3> QED
        BY <1>1, <3>1, <3>2, <3>3, PortalQuiet
    <2>7. CASE Portal!Refetch(c)
      <3>1. /\ accepted' = (IF Portal!Exists(t) THEN accepted \cup {t} ELSE accepted)
            /\ Portal!Throw(c) /\ UNCHANGED <<tenders, ingested>> /\ portal[c].pc = "refetch"
        BY <2>1, <2>7 DEF Portal!Refetch, Portal!At
      <3>2. t \in ingested /\ Whole(t)'
        BY <2>2, <3>1 DEF Whole, Portal!Exists, AfterSector, AfterRequirements
      <3> QED
        BY <1>1, <3>1, <3>2, PortalReturns
    <2> QED
      BY <1>3, <2>4, <2>5, <2>6, <2>7
  <1>5. Portal!Intake(c) \/ portal[c].pc \in Created
    BY DEF Portal!PersistSector, Portal!PersistRequirements, Portal!Audit, Portal!Refetch,
           Portal!At, Created
  <1> QED
    BY <1>3, <1>4, <1>5

\* AcceptedIsWhole: whatever users remove and wherever requests die, a tender
\* the ingestion service was told of has all that its payload came with, and a
\* company, or was removed since (IngestionPortalService.ingest).
THEOREM IngestedIsWhole == Spec => []AcceptedIsWhole
  <1>1. Init => PortalInv
    <2> SUFFICES ASSUME Init PROVE PortalInv
      OBVIOUS
    <2>1. /\ portal = [c \in Slots |-> Portal!Parked] /\ companies = [i \in CompanyIds |-> "none"]
          /\ tenders = [t \in TenderIds |-> Portal!NoTender] /\ ingested = {} /\ accepted = {}
      BY DEF Init, Portal!Init
    <2>2. Portal!Parked \in Portal!Request /\ InStage(Portal!Parked)
      BY DEF Portal!Parked, Portal!Request, InStage, Created
    <2> QED
      BY <2>1, <2>2 DEF PortalInv, Portal!Exists
  <1>2. PortalInv /\ [Portal!Next]_portalVars => PortalInv'
    <2> SUFFICES ASSUME PortalInv, [Portal!Next]_portalVars PROVE PortalInv'
      OBVIOUS
    <2>1. CASE Portal!Mint \/ Portal!Revoke \/ UNCHANGED portalVars
      <3>1. UNCHANGED <<portal, companies, tenders, ingested, accepted>>
        BY <2>1 DEF Portal!Mint, Portal!Revoke, portalVars
      <3> QED
        BY <3>1 DEF PortalInv, InStage, Whole, Portal!Exists
    <2>2. CASE /\ Portal!Next /\ ~Portal!Mint /\ ~Portal!Revoke
      BY <2>2, PortalAdmits, PortalProjects, PortalEdits DEF Portal!Next
    <2> QED
      BY <2>1, <2>2
  <1>3. [Next]_<<focus, rest>> => [Portal!Next]_portalVars
    BY DEF Next, rest
  <1>4. PortalInv => AcceptedIsWhole
    BY DEF PortalInv, Whole, AcceptedIsWhole, Portal!AcceptedIsWhole
  <1> QED
    BY <1>1, <1>2, <1>3, <1>4, PTL DEF Spec

-----------------------------------------------------------------------------
(* Stripe's events.                                                         *)

\* An event about a subscription, not about a checkout.
Mirrored(n) == emitted[n].kind # "checkout"

\* The last event of that kind.
IsLast(n) ==
    /\ n \in 1..Len(emitted) /\ Mirrored(n)
    /\ \A k \in 1..Len(emitted) : Mirrored(k) => k <= n

BillingTypes ==
    /\ emitted \in Seq(Billing!Event)
    /\ stripe \in [StripeSubs -> [state : {"new", "live", "deleted"}, price : Prices,
                                  status : RawStatuses]]
    /\ answered \subseteq 1..Len(emitted)
    /\ receivers \in [Slots -> 0..Len(emitted)]
    /\ newest \in 0..Len(emitted)
    /\ disorder \in BOOLEAN /\ overlap \in BOOLEAN

\* The last event tells how things stand with Stripe, when its subscriptions
\* follow one another.
StripeInv ==
    ~overlap =>
      /\ \A s, t \in Billing!LiveSubs : s = t
      /\ (\A k \in 1..Len(emitted) : ~Mirrored(k)) => Billing!LiveSubs = {}
      /\ \A n \in 1..Len(emitted) : IsLast(n) =>
           \/ /\ emitted[n].kind = "deleted" /\ Billing!LiveSubs = {}
           \/ /\ emitted[n].kind = "changed" /\ Billing!LiveSubs = {emitted[n].sub}
              /\ stripe[emitted[n].sub].price = emitted[n].price
              /\ stripe[emitted[n].sub].status = emitted[n].status

\* The row is the mirror of the newest event that came in, when none came late.
RowInv ==
    ~disorder =>
      \/ newest = 0 /\ subscription = Billing!NoRow
      \/ /\ newest \in 1..Len(emitted)
         /\ \/ /\ emitted[newest].kind = "changed" /\ emitted[newest].price \in DOMAIN Catalog
               /\ subscription = Billing!MirrorChanged(emitted[newest])
            \/ /\ emitted[newest].kind = "deleted"
               /\ subscription = Billing!MirrorDeleted(emitted[newest])

\* Nothing is answered that was not mirrored.
AnswerInv ==
    /\ \A n \in answered : Mirrored(n) => n <= newest
    /\ \A r \in Slots : receivers[r] # 0 /\ Mirrored(receivers[r]) => receivers[r] <= newest

BillingInv == BillingTypes /\ StripeInv /\ RowInv /\ AnswerInv

\* Stripe emits an event: the ones before it keep their places.
LEMMA EmitsOne ==
  ASSUME BillingTypes, NEW kind \in {"changed", "deleted", "checkout"}, NEW s \in StripeSubs,
         NEW price \in Prices, NEW status \in RawStatuses, NEW org \in BOOLEAN,
         Billing!Emit(kind, s, price, status, org)
  PROVE  /\ Len(emitted) \in Nat /\ Len(emitted') = Len(emitted) + 1
         /\ emitted' \in Seq(Billing!Event)
         /\ \A n \in 1..Len(emitted) : emitted'[n] = emitted[n]
         /\ emitted'[Len(emitted')] =
              [kind |-> kind, sub |-> s, price |-> price, status |-> status, org |-> org]
  <1>1. [kind |-> kind, sub |-> s, price |-> price, status |-> status, org |-> org] \in Billing!Event
    BY DEF Billing!Event
  <1> QED
    BY <1>1 DEF Billing!Emit, BillingTypes

\* An event more changes neither the row nor what was answered.
LEMMA EmitsAside ==
  ASSUME BillingInv, NEW len \in Nat, Len(emitted) = len, Len(emitted') = len + 1,
         \A n \in 1..len : emitted'[n] = emitted[n],
         UNCHANGED <<answered, receivers, subscription, newest, disorder>>
  PROVE  /\ RowInv' /\ AnswerInv'
         /\ answered' \subseteq 1..Len(emitted') /\ receivers' \in [Slots -> 0..Len(emitted')]
         /\ newest' \in 0..Len(emitted') /\ disorder' \in BOOLEAN
  <1>1. /\ answered \subseteq 1..len /\ receivers \in [Slots -> 0..len] /\ newest \in 0..len
        /\ disorder \in BOOLEAN
    BY DEF BillingInv, BillingTypes
  <1>2. 0..len \subseteq 0..(len + 1) /\ 1..len \subseteq 1..(len + 1)
    OBVIOUS
  <1>3. /\ answered' \subseteq 1..Len(emitted') /\ receivers' \in [Slots -> 0..Len(emitted')]
        /\ newest' \in 0..Len(emitted') /\ disorder' \in BOOLEAN
    BY <1>1, <1>2
  <1>4. \A n \in 1..len : Mirrored(n)' <=> Mirrored(n)
    BY DEF Mirrored
  <1>5. \A r \in Slots : receivers[r] # 0 => receivers[r] \in 1..len
    BY <1>1
  <1>6. AnswerInv'
    <2>1. \A n \in answered' : Mirrored(n)' => n <= newest'
      BY <1>1, <1>4 DEF BillingInv, AnswerInv
    <2>2. ASSUME NEW r \in Slots, receivers'[r] # 0, Mirrored(receivers[r])'
          PROVE  receivers'[r] <= newest'
      <3>1. PICK n \in 1..len : n = receivers[r] /\ n = receivers'[r]
        BY <1>5, <2>2
      <3>2. Mirrored(n)'
        BY <2>2, <3>1 DEF Mirrored
      <3>3. Mirrored(receivers[r])
        BY <1>4, <3>1, <3>2
      <3> QED
        BY <2>2, <3>3 DEF BillingInv, AnswerInv
    <2> QED
      BY <2>1, <2>2 DEF AnswerInv
  <1>7. RowInv'
    <2>1. ASSUME ~disorder, newest \in 1..len PROVE emitted'[newest'] = emitted[newest]
      BY <2>1
    <2>2. RowInv
      BY DEF BillingInv
    <2>3. newest \in 1..len => newest' \in 1..Len(emitted')
      BY <1>2
    <2> QED
      BY <2>1, <2>2, <2>3 DEF RowInv, Billing!MirrorChanged, Billing!MirrorDeleted, Billing!NoRow
  <1> QED
    BY <1>3, <1>6, <1>7

\* Stripe changes, deletes or checks out a subscription.
LEMMA StripeStep ==
  ASSUME BillingInv, NEW s \in StripeSubs,
         \/ \E price \in Prices, status \in RawStatuses : Billing!StripeChanges(s, price, status)
         \/ Billing!StripeDeletes(s)
         \/ \E org \in BOOLEAN : Billing!StripeChecksOut(s, org)
  PROVE  BillingInv'
  <1>1. /\ BillingTypes /\ StripeInv
        /\ UNCHANGED <<answered, receivers, subscription, newest, disorder>>
        /\ stripe[s].price \in Prices /\ stripe[s].status \in RawStatuses
    BY DEF BillingInv, BillingTypes, Billing!StripeChanges, Billing!StripeDeletes,
           Billing!StripeChecksOut
  <1>2. PICK kind \in {"changed", "deleted", "checkout"}, price \in Prices, status \in RawStatuses,
             org \in BOOLEAN :
          /\ Billing!Emit(kind, s, price, status, org)
          /\ kind = "changed" =>
               /\ stripe' = [stripe EXCEPT ![s] = [state |-> "live", price |-> price, status |-> status]]
               /\ overlap' = (overlap \/ Billing!LiveSubs \ {s} # {})
          /\ kind = "deleted" => /\ stripe[s].state = "live" /\ overlap' = overlap
                                 /\ stripe' = [stripe EXCEPT ![s].state = "deleted"]
          /\ kind = "checkout" => UNCHANGED <<stripe, overlap>>
    <2>1. ASSUME NEW price \in Prices, NEW status \in RawStatuses,
                 Billing!StripeChanges(s, price, status)
          PROVE  /\ Billing!Emit("changed", s, price, status, TRUE)
                 /\ stripe' = [stripe EXCEPT ![s] = [state |-> "live", price |-> price,
                                                     status |-> status]]
                 /\ overlap' = (overlap \/ Billing!LiveSubs \ {s} # {})
      BY <2>1 DEF Billing!StripeChanges
    <2>2. CASE Billing!StripeDeletes(s)
      BY <1>1, <2>2 DEF Billing!StripeDeletes
    <2>3. ASSUME NEW org \in BOOLEAN, Billing!StripeChecksOut(s, org)
          PROVE  /\ Billing!Emit("checkout", s, stripe[s].price, stripe[s].status, org)
                 /\ UNCHANGED <<stripe, overlap>>
      BY <2>3 DEF Billing!StripeChecksOut
    <2> QED
      BY <1>1, <2>1, <2>2, <2>3
  <1>3. PICK len \in Nat : len = Len(emitted)
    BY <1>1 DEF BillingTypes
  <1>4. /\ Len(emitted') = len + 1 /\ emitted' \in Seq(Billing!Event)
        /\ \A n \in 1..len : emitted'[n] = emitted[n]
        /\ emitted'[len + 1] =
             [kind |-> kind, sub |-> s, price |-> price, status |-> status, org |-> org]
    BY <1>1, <1>2, <1>3, EmitsOne
  <1>5. /\ RowInv' /\ AnswerInv'
        /\ answered' \subseteq 1..Len(emitted') /\ receivers' \in [Slots -> 0..Len(emitted')]
        /\ newest' \in 0..Len(emitted') /\ disorder' \in BOOLEAN
    BY <1>1, <1>3, <1>4, EmitsAside
  <1>6. /\ stripe' \in [StripeSubs -> [state : {"new", "live", "deleted"}, price : Prices,
                                       status : RawStatuses]]
        /\ overlap' \in BOOLEAN
    <2>1. stripe \in [StripeSubs -> [state : {"new", "live", "deleted"}, price : Prices,
                                     status : RawStatuses]]
          /\ overlap \in BOOLEAN
      BY <1>1 DEF BillingTypes
    <2>2. CASE kind = "changed"
      BY <1>2, <2>1, <2>2
    <2>3. CASE kind = "deleted"
      BY <1>2, <2>1, <2>3
    <2>4. CASE kind = "checkout"
      BY <1>2, <2>1, <2>4
    <2> QED
      BY <2>2, <2>3, <2>4
  <1>7. /\ Mirrored(len + 1)' <=> kind # "checkout"
        /\ \A n \in 1..len : Mirrored(n)' <=> Mirrored(n)
        /\ 1..Len(emitted') = 1..len \cup {len + 1}
    <2>1. 1..(len + 1) = 1..len \cup {len + 1}
      OBVIOUS
    <2> QED
      BY <1>4, <2>1 DEF Mirrored
  <1>8. StripeInv'
    <2>1. CASE kind = "checkout"
      <3>1. UNCHANGED <<stripe, overlap>> /\ ~Mirrored(len + 1)' /\ Billing!LiveSubs' = Billing!LiveSubs
        BY <1>2, <1>7, <2>1 DEF Billing!LiveSubs
      <3>2. (\A k \in 1..Len(emitted') : ~Mirrored(k)') => \A k \in 1..len : ~Mirrored(k)
        BY <1>7
      <3>3. \A n \in 1..Len(emitted') : IsLast(n)' => n \in 1..len /\ IsLast(n)
        BY <1>3, <1>7, <3>1 DEF IsLast
      <3> QED
        BY <1>1, <1>3, <1>4, <3>1, <3>2, <3>3 DEF StripeInv
    <2>2. CASE kind # "checkout"
      <3>1. ~ \A k \in 1..Len(emitted') : ~Mirrored(k)'
        BY <1>7, <2>2
      <3>2. \A n \in 1..len : ~(len + 1 <= n)
        OBVIOUS
      <3>3. \A n \in 1..Len(emitted') : IsLast(n)' => n = len + 1
        BY <1>7, <2>2, <3>2 DEF IsLast
      <3>4. CASE kind = "changed" /\ ~overlap'
        <4>1. /\ stripe'[s] = [state |-> "live", price |-> price, status |-> status]
              /\ \A x \in StripeSubs \ {s} : stripe'[x] = stripe[x]
              /\ Billing!LiveSubs \subseteq {s}
          BY <1>1, <1>2, <3>4 DEF BillingTypes
        <4>2. Billing!LiveSubs' = {s}
          BY <4>1 DEF Billing!LiveSubs
        <4> QED
          BY <1>4, <3>1, <3>3, <3>4, <4>1, <4>2 DEF StripeInv
      <3>5. CASE kind = "deleted" /\ ~overlap'
        <4>1. /\ stripe'[s].state = "deleted" /\ s \in Billing!LiveSubs /\ ~overlap
              /\ \A x \in StripeSubs \ {s} : stripe'[x] = stripe[x]
          BY <1>1, <1>2, <3>5 DEF BillingTypes, Billing!LiveSubs
        <4>2. Billing!LiveSubs \subseteq {s}
          BY <1>1, <4>1 DEF StripeInv
        <4>3. Billing!LiveSubs' = {}
          BY <4>1, <4>2 DEF Billing!LiveSubs
        <4> QED
          BY <1>4, <3>1, <3>3, <3>5, <4>3 DEF StripeInv
      <3> QED
        BY <2>2, <3>4, <3>5 DEF StripeInv
    <2> QED
      BY <2>1, <2>2
  <1> QED
    BY <1>4, <1>5, <1>6, <1>8 DEF BillingInv, BillingTypes

\* The receiver mirrors an event, takes a checkout, or records and answers.
LEMMA ReceiverStep ==
  ASSUME BillingInv, NEW r \in Slots,
         \/ \E n \in 1..Len(emitted) : Billing!Mirror(r, n) \/ Billing!CheckoutCompleted(r, n)
         \/ Billing!Audit(r)
  PROVE  BillingInv'
  <1>1. /\ BillingTypes /\ StripeInv /\ RowInv /\ AnswerInv
        /\ UNCHANGED <<stripe, emitted, overlap>>
    BY DEF BillingInv, Billing!Mirror, Billing!CheckoutCompleted, Billing!Audit
  <1>2. PICK len \in Nat : len = Len(emitted) /\ len = Len(emitted')
    BY <1>1 DEF BillingTypes
  <1>3. /\ answered \subseteq 1..len /\ receivers \in [Slots -> 0..len] /\ newest \in 0..len
        /\ disorder \in BOOLEAN
    BY <1>1, <1>2 DEF BillingTypes
  <1>4. StripeInv' /\ \A n : Mirrored(n)' <=> Mirrored(n)
    BY <1>1 DEF StripeInv, IsLast, Mirrored, Billing!LiveSubs
  <1>5. ASSUME answered' \subseteq 1..len, receivers' \in [Slots -> 0..len], newest' \in 0..len,
               disorder' \in BOOLEAN, RowInv',
               \A n \in answered' : Mirrored(n) => n <= newest',
               \A d \in Slots : receivers'[d] # 0 /\ Mirrored(receivers'[d]) =>
                                  receivers'[d] <= newest'
        PROVE  BillingInv'
    <2>1. BillingTypes'
      BY <1>1, <1>2, <1>5 DEF BillingTypes
    <2>2. ASSUME NEW d \in Slots, receivers'[d] # 0, Mirrored(receivers[d])'
          PROVE  receivers'[d] <= newest'
      <3>1. PICK n : n = receivers'[d]
        OBVIOUS
      <3>2. Mirrored(n)'
        BY <2>2, <3>1 DEF Mirrored
      <3> QED
        BY <1>4, <1>5, <2>2, <3>1, <3>2
    <2>3. AnswerInv'
      BY <1>4, <1>5, <2>2 DEF AnswerInv
    <2> QED
      BY <1>4, <1>5, <2>1, <2>3 DEF BillingInv
  <1>6. ASSUME NEW n \in 1..len, Billing!Mirror(r, n) PROVE BillingInv'
    <2>1. /\ receivers' = [receivers EXCEPT ![r] = n] /\ UNCHANGED answered
          /\ newest' = (IF n > newest THEN n ELSE newest) /\ disorder' = (disorder \/ n < newest)
          /\ \/ /\ emitted[n].kind = "changed" /\ emitted[n].price \in DOMAIN Catalog
                /\ subscription' = Billing!MirrorChanged(emitted[n])
             \/ /\ emitted[n].kind = "deleted"
                /\ subscription' = Billing!MirrorDeleted(emitted[n])
      BY <1>6 DEF Billing!Mirror
    <2>2. n \in 0..len /\ newest' \in 0..len /\ n <= newest' /\ newest <= newest'
      BY <1>2, <1>3, <1>6, <2>1
    <2>3. disorder' \in BOOLEAN /\ (~disorder' => newest' = n)
      <3>1. disorder' \in BOOLEAN /\ (~disorder' => ~(n < newest))
        BY <1>3, <2>1
      <3>2. ~(n < newest) => newest' = n
        BY <1>3, <1>6, <2>1
      <3> QED
        BY <3>1, <3>2
    <2>4. RowInv'
      BY <1>1, <1>2, <1>6, <2>1, <2>3 DEF RowInv, Billing!MirrorChanged, Billing!MirrorDeleted
    <2>5. \A k \in answered' : Mirrored(k) => k <= newest'
      <3> SUFFICES ASSUME NEW k \in answered, Mirrored(k) PROVE k <= newest'
        BY <2>1
      <3>1. k <= newest /\ k \in Nat
        BY <1>1, <1>3 DEF AnswerInv
      <3> QED
        BY <1>3, <2>2, <3>1
    <2>6. ASSUME NEW d \in Slots, receivers'[d] # 0, Mirrored(receivers'[d])
          PROVE  receivers'[d] <= newest'
      <3>1. CASE d = r
        BY <1>3, <2>1, <2>2, <3>1
      <3>2. CASE d # r
        <4>1. receivers'[d] = receivers[d]
          BY <1>3, <2>1, <3>2
        <4>2. receivers[d] <= newest /\ receivers[d] \in Nat
          BY <1>1, <1>3, <2>6, <4>1 DEF AnswerInv
        <4> QED
          BY <1>3, <2>2, <4>1, <4>2
      <3> QED
        BY <3>1, <3>2
    <2> QED
      BY <1>3, <1>5, <2>1, <2>2, <2>3, <2>4, <2>5, <2>6
  <1>7. ASSUME UNCHANGED <<newest, disorder, subscription>> PROVE RowInv'
    BY <1>1, <1>7 DEF RowInv, Billing!MirrorChanged, Billing!MirrorDeleted, Billing!NoRow
  <1>8. ASSUME NEW n \in 1..len, Billing!CheckoutCompleted(r, n) PROVE BillingInv'
    <2>1. UNCHANGED <<newest, disorder, subscription>> /\ ~Mirrored(n) /\ n \in 0..len
      BY <1>2, <1>8 DEF Billing!CheckoutCompleted, Mirrored
    <2>2. CASE receivers' = [receivers EXCEPT ![r] = n] /\ UNCHANGED answered
      BY <1>1, <1>3, <1>5, <1>7, <2>1, <2>2 DEF AnswerInv
    <2>3. CASE answered' = answered \cup {n} /\ UNCHANGED receivers
      BY <1>1, <1>3, <1>5, <1>7, <1>8, <2>1, <2>3 DEF AnswerInv
    <2> QED
      BY <1>8, <2>2, <2>3 DEF Billing!CheckoutCompleted
  <1>9. CASE Billing!Audit(r)
    <2>1. /\ UNCHANGED <<newest, disorder, subscription>> /\ receivers[r] # 0
          /\ receivers' = [receivers EXCEPT ![r] = 0]
          /\ answered' = answered \/ answered' = answered \cup {receivers[r]}
      BY <1>9 DEF Billing!Audit
    <2>2. PICK n \in 1..len : n = receivers[r]
      BY <1>3, <2>1
    <2>3. RowInv'
      BY <1>7, <2>1
    <2>4. answered' \subseteq 1..len /\ \A k \in answered' : Mirrored(k) => k <= newest'
      BY <1>1, <1>3, <2>1, <2>2 DEF AnswerInv
    <2>5. /\ receivers' \in [Slots -> 0..len]
          /\ \A d \in Slots : receivers'[d] \in {0, receivers[d]}
      BY <1>3, <2>1
    <2>6. \A d \in Slots : receivers'[d] # 0 /\ Mirrored(receivers'[d]) => receivers'[d] <= newest'
      BY <1>1, <2>1, <2>5 DEF AnswerInv
    <2> QED
      BY <1>3, <1>5, <2>1, <2>3, <2>4, <2>5, <2>6
  <1> QED
    BY <1>2, <1>6, <1>8, <1>9

\* BillingInv holds always.
LEMMA BillingHolds == Spec => []BillingInv
  <1>1. Init => BillingInv
    <2> SUFFICES ASSUME Init PROVE BillingInv
      OBVIOUS
    <2>1. /\ stripe = [s \in StripeSubs |-> [state |-> "new", price |-> CHOOSE p \in Prices : TRUE,
                                             status |-> CHOOSE x \in RawStatuses : TRUE]]
          /\ emitted = <<>> /\ answered = {} /\ receivers = [r \in Slots |-> 0]
          /\ subscription = Billing!NoRow /\ newest = 0 /\ disorder = FALSE /\ overlap = FALSE
      BY DEF Init, Billing!Init
    <2>2. (CHOOSE p \in Prices : TRUE) \in Prices
      BY ServicesAssumption DEF Catalog
    <2>3. (CHOOSE x \in RawStatuses : TRUE) \in RawStatuses
      BY ServicesAssumption
    <2>4. Billing!LiveSubs = {} /\ Len(emitted) = 0 /\ emitted \in Seq(Billing!Event)
      BY <2>1 DEF Billing!LiveSubs
    <2>5. /\ 0 \in 0..Len(emitted) /\ receivers \in [Slots -> 0..Len(emitted)]
          /\ answered \subseteq 1..Len(emitted) /\ 1..Len(emitted) = {}
      BY <2>1, <2>4
    <2>6. BillingTypes
      BY <2>1, <2>2, <2>3, <2>4, <2>5 DEF BillingTypes
    <2>7. StripeInv
      BY <2>4, <2>5 DEF StripeInv
    <2>8. RowInv /\ AnswerInv
      BY <2>1 DEF RowInv, AnswerInv
    <2> QED
      BY <2>6, <2>7, <2>8 DEF BillingInv
  <1>2. BillingInv /\ [Billing!Next]_billingVars => BillingInv'
    <2>1. ASSUME BillingInv, UNCHANGED billingVars PROVE BillingInv'
      BY <2>1 DEF billingVars, BillingInv, BillingTypes, StripeInv, RowInv, AnswerInv, IsLast,
                  Mirrored, Billing!LiveSubs, Billing!MirrorChanged, Billing!MirrorDeleted,
                  Billing!NoRow
    <2> QED
      BY <2>1, StripeStep, ReceiverStep DEF Billing!Next
  <1>3. [Next]_<<focus, rest>> => [Billing!Next]_billingVars
    BY DEF Next, rest
  <1> QED
    BY <1>1, <1>2, <1>3, PTL DEF Spec

\* MirrorsStripe: once every event is answered and none was mirrored after a
\* newer one, an organization whose subscriptions followed one another is on the
\* plan it pays for, and on the free plan when it has none
\* (StripeWebhookService).
THEOREM PlanFollowsStripe == Spec => []MirrorsStripe
  <1>1. BillingInv => MirrorsStripe
    <2> SUFFICES ASSUME BillingInv, answered = 1..Len(emitted), ~disorder, ~overlap
                 PROVE  /\ Billing!LiveSubs = {} => subscription.plan = "free"
                        /\ \A s \in Billing!LiveSubs :
                             /\ subscription.plan = Catalog[stripe[s].price]
                             /\ subscription.sub = s
                             /\ subscription.status = "active" =>
                                  stripe[s].status \in {"active", "trialing"}
      BY DEF MirrorsStripe, Billing!MirrorsStripe, Billing!ForOrg
    <2>1. PICK len \in Nat : len = Len(emitted)
      BY DEF BillingInv, BillingTypes
    <2>2. \A k \in 1..len : Mirrored(k) => k <= newest
      BY <2>1 DEF BillingInv, AnswerInv
    <2>3. CASE newest = 0 /\ subscription = Billing!NoRow
      <3>1. \A k \in 1..len : ~Mirrored(k)
        BY <2>2, <2>3
      <3>2. Billing!LiveSubs = {}
        BY <2>1, <3>1 DEF BillingInv, StripeInv
      <3> QED
        BY <2>3, <3>2 DEF Billing!NoRow
    <2>4. CASE newest \in 1..len /\ Mirrored(newest)
      <3>1. IsLast(newest)
        BY <2>1, <2>2, <2>4 DEF IsLast
      <3>2. CASE emitted[newest].kind = "deleted"
        <4>1. Billing!LiveSubs = {}
          BY <2>1, <2>4, <3>1, <3>2 DEF BillingInv, StripeInv
        <4>2. subscription = Billing!MirrorDeleted(emitted[newest])
          BY <2>4, <3>2 DEF BillingInv, RowInv
        <4> QED
          BY <4>1, <4>2 DEF Billing!MirrorDeleted
      <3>3. CASE emitted[newest].kind # "deleted"
        <4>1. /\ Billing!LiveSubs = {emitted[newest].sub}
              /\ stripe[emitted[newest].sub].price = emitted[newest].price
              /\ stripe[emitted[newest].sub].status = emitted[newest].status
          BY <2>1, <2>4, <3>1, <3>3 DEF BillingInv, StripeInv
        <4>2. subscription = Billing!MirrorChanged(emitted[newest])
          BY <2>4, <3>3 DEF BillingInv, RowInv
        <4>3. Billing!MapStatus(emitted[newest].status) = "active" =>
                emitted[newest].status \in {"active", "trialing"}
          BY DEF Billing!MapStatus
        <4> QED
          BY <4>1, <4>2, <4>3 DEF Billing!MirrorChanged
      <3> QED
        BY <3>2, <3>3
    <2> QED
      BY <2>1, <2>3, <2>4 DEF BillingInv, RowInv, Mirrored
  <1> QED
    BY <1>1, BillingHolds, PTL

-----------------------------------------------------------------------------
(* The classifier and its calls of the LLM.                                 *)

SectorHandler ==
    [pc : {"idle", "check", "generate", "error", "record", "requests", "tokens", "persist", "audit"},
     force : BOOLEAN, human : BOOLEAN, since : Nat, tokens : 0..1, write : Nat]

SectorTypes ==
    /\ tender \in [state : {"live", "gone"}, sector : BOOLEAN, hash : BOOLEAN, write : Nat]
    /\ llm \in [Slots -> SectorHandler]
    /\ today \in Nat /\ begun \in Nat /\ plain \in Nat /\ overrides \in Nat /\ llmFaults \in Nat

\* Overrides that have still to be written.
Humans == {c \in Slots : llm[c].human = TRUE}

\* Answers that have still to be written.
Answers == {c \in Slots : llm[c].human = FALSE
                          /\ llm[c].pc \in {"record", "requests", "tokens", "persist"}}

\* Unforced calls the provider has still to be asked.
Pending == {c \in Slots : llm[c].force = FALSE /\ llm[c].pc \in {"check", "generate"}}

\* Overrides that were written or given up.
Overridden == overrides - Cardinality(Humans)

\* The calls each of which may have come between an override and an answer.
Quota(k) == Cardinality(Slots) * k

\* An unforced call would reach the provider.
Asking == tender.state = "live" /\ ~(tender.sector = TRUE /\ tender.hash = TRUE)

\* While calls reach the provider each one since the last override is about to
\* store its answer or paid for by a fault; as soon as an answer is stored only
\* the calls that are already there can follow.
PlainInv ==
    IF Asking
    THEN plain <= Quota(Overridden) + Cardinality(Answers) + llmFaults
    ELSE plain + Cardinality(Pending) <= Quota(Overridden) + Cardinality(Slots) + llmFaults

SectorInv ==
    /\ SectorTypes
    /\ \A c \in Slots : llm[c].human = TRUE => llm[c].pc = "persist"
    /\ Cardinality(Humans) <= overrides
    /\ PlainInv

\* The kinds of handlers before and after one of them moves.
LEMMA KindsMove ==
  ASSUME SectorTypes, NEW c \in Slots, NEW n \in SectorHandler, llm' = [llm EXCEPT ![c] = n]
  PROVE  /\ Humans \in SUBSET Slots /\ Humans' \in SUBSET Slots /\ Humans \ {c} = Humans' \ {c}
         /\ Answers \in SUBSET Slots /\ Answers' \in SUBSET Slots /\ Answers \ {c} = Answers' \ {c}
         /\ Pending \in SUBSET Slots /\ Pending' \in SUBSET Slots /\ Pending \ {c} = Pending' \ {c}
         /\ c \in Humans <=> llm[c].human = TRUE
         /\ c \in Humans' <=> n.human = TRUE
         /\ c \in Answers <=> /\ llm[c].human = FALSE
                              /\ llm[c].pc \in {"record", "requests", "tokens", "persist"}
         /\ c \in Answers' <=> /\ n.human = FALSE
                               /\ n.pc \in {"record", "requests", "tokens", "persist"}
         /\ c \in Pending <=> llm[c].force = FALSE /\ llm[c].pc \in {"check", "generate"}
         /\ c \in Pending' <=> n.force = FALSE /\ n.pc \in {"check", "generate"}
         /\ llm' \in [Slots -> SectorHandler] /\ llm'[c] = n
         /\ \A d \in Slots \ {c} : llm'[d] = llm[d]
  <1>1. /\ llm' \in [Slots -> SectorHandler] /\ llm'[c] = n
        /\ \A d \in Slots \ {c} : llm'[d] = llm[d]
    BY DEF SectorTypes
  <1> QED
    BY <1>1 DEF Humans, Answers, Pending

\* One override more is worth as many calls as run side by side.
LEMMA QuotaGrows ==
  ASSUME NEW k \in Nat
  PROVE  /\ Quota(k) \in Nat /\ Cardinality(Slots) \in Nat
         /\ Quota(k + 1) = Quota(k) + Cardinality(Slots)
  <1>1. Cardinality(Slots) \in Nat
    BY CountWithin
  <1>2. \A s \in Nat : s * k \in Nat /\ s * (k + 1) = s * k + s
    OBVIOUS
  <1> QED
    BY <1>1, <1>2 DEF Quota

\* A handler moves and the tender stays: a call it makes was pending, and its
\* answer is on the way to the tender or lost to a fault.
LEMMA SectorMove ==
  ASSUME SectorInv, NEW c \in Slots, NEW n \in SectorHandler, llm' = [llm EXCEPT ![c] = n],
         n.human = TRUE => n.pc = "persist",
         UNCHANGED tender, today' \in Nat, begun' \in Nat,
         NEW dP \in 0..1, NEW dO \in 0..1, NEW dF \in 0..1,
         plain' = plain + dP, overrides' = overrides + dO, llmFaults' = llmFaults + dF,
         dO = 1 => c \notin Humans /\ c \in Humans', dO = 0 => (c \in Humans' => c \in Humans),
         Asking => /\ dP = 1 => c \notin Answers /\ (c \in Answers' \/ dF = 1)
                   /\ c \in Answers => c \in Answers' \/ dF = 1,
         ~Asking => /\ dP = 1 => c \in Pending /\ c \notin Pending'
                    /\ c \in Pending' => c \in Pending
  PROVE  SectorInv'
  <1>1. /\ SectorTypes /\ plain \in Nat /\ overrides \in Nat /\ llmFaults \in Nat
        /\ Cardinality(Humans) <= overrides /\ PlainInv
    BY DEF SectorInv, SectorTypes
  <1>2. /\ Humans \in SUBSET Slots /\ Humans' \in SUBSET Slots /\ Humans \ {c} = Humans' \ {c}
        /\ Answers \in SUBSET Slots /\ Answers' \in SUBSET Slots /\ Answers \ {c} = Answers' \ {c}
        /\ Pending \in SUBSET Slots /\ Pending' \in SUBSET Slots /\ Pending \ {c} = Pending' \ {c}
        /\ llm' \in [Slots -> SectorHandler] /\ llm'[c] = n
        /\ \A d \in Slots \ {c} : llm'[d] = llm[d]
    BY <1>1, KindsMove
  <1>3. plain' \in Nat /\ overrides' \in Nat /\ llmFaults' \in Nat
    BY <1>1
  <1>4. SectorTypes' /\ \A d \in Slots : llm'[d].human = TRUE => llm'[d].pc = "persist"
    BY <1>1, <1>2, <1>3 DEF SectorInv, SectorTypes
  <1>5. /\ Cardinality(Humans) \in Nat /\ Cardinality(Humans') \in Nat
        /\ dO = 1 => Cardinality(Humans') = Cardinality(Humans) + 1
        /\ dO = 0 => \/ Cardinality(Humans') = Cardinality(Humans)
                     \/ Cardinality(Humans) = Cardinality(Humans') + 1
    BY <1>2, OneMoves
  <1>6. /\ Overridden \in Nat /\ Cardinality(Humans') <= overrides'
        /\ Overridden' = Overridden \/ Overridden' = Overridden + 1
    BY <1>1, <1>5 DEF Overridden
  <1>7. /\ Quota(Overridden) \in Nat /\ Quota(Overridden)' \in Nat /\ Cardinality(Slots) \in Nat
        /\ Quota(Overridden) <= Quota(Overridden)'
    <2>1. PICK k \in Nat, j \in Nat : k = Overridden /\ j = Overridden' /\ (j = k \/ j = k + 1)
      BY <1>6
    <2>2. Quota(k) \in Nat /\ Quota(j) \in Nat /\ Cardinality(Slots) \in Nat
      BY QuotaGrows
    <2>3. Quota(k + 1) = Quota(k) + Cardinality(Slots)
      BY QuotaGrows
    <2>4. Quota(k) <= Quota(j)
      BY <2>1, <2>2, <2>3
    <2> QED
      BY <2>1, <2>2, <2>4 DEF Quota
  <1>8. /\ Cardinality(Answers) \in Nat /\ Cardinality(Answers') \in Nat
        /\ Cardinality(Pending) \in Nat /\ Cardinality(Pending') \in Nat
    BY <1>2, CountWithin
  <1>9. Asking' <=> Asking
    BY DEF Asking
  <1>10. CASE Asking
    <2>1. dP + Cardinality(Answers) <= Cardinality(Answers') + dF
      BY <1>2, <1>8, <1>10, OneMoves
    <2>2. plain' <= Quota(Overridden)' + Cardinality(Answers') + llmFaults'
      BY <1>1, <1>7, <1>8, <1>10, <2>1 DEF PlainInv
    <2> QED
      BY <1>4, <1>6, <1>9, <1>10, <2>2 DEF SectorInv, PlainInv
  <1>11. CASE ~Asking
    <2>1. dP + Cardinality(Pending') <= Cardinality(Pending)
      BY <1>2, <1>8, <1>11, OneMoves
    <2>2. plain' + Cardinality(Pending') <= Quota(Overridden)' + Cardinality(Slots) + llmFaults'
      BY <1>1, <1>7, <1>8, <1>11, <2>1 DEF PlainInv
    <2> QED
      BY <1>4, <1>6, <1>9, <1>11, <2>2 DEF SectorInv, PlainInv
  <1> QED
    BY <1>10, <1>11

\* Asking or not: answers on their way and calls still pending are different
\* handlers.
LEMMA PlainFits ==
  ASSUME SectorInv
  PROVE  /\ plain + Cardinality(Pending) <= Quota(Overridden) + Cardinality(Slots) + llmFaults
         /\ Cardinality(Pending) \in Nat /\ Cardinality(Answers) \in Nat
         /\ Cardinality(Humans) \in Nat
         /\ Cardinality(Slots) \in Nat /\ Overridden \in Nat /\ Quota(Overridden) \in Nat
  <1>1. /\ plain \in Nat /\ llmFaults \in Nat /\ overrides \in Nat /\ PlainInv
        /\ Cardinality(Humans) <= overrides
    BY DEF SectorInv, SectorTypes
  <1>2. /\ Pending \in SUBSET Slots /\ Answers \in SUBSET Slots /\ Humans \in SUBSET Slots
        /\ Answers \cap Pending = {}
    BY DEF Pending, Answers, Humans
  <1>3. /\ Cardinality(Pending) \in Nat /\ Cardinality(Answers) \in Nat
        /\ Cardinality(Humans) \in Nat /\ Cardinality(Slots) \in Nat
        /\ Cardinality(Answers) + Cardinality(Pending) <= Cardinality(Slots)
    BY <1>2, TwoKindsFit, CountWithin
  <1>4. Overridden \in Nat
    BY <1>1, <1>3 DEF Overridden
  <1>5. Quota(Overridden) \in Nat
    BY <1>4, QuotaGrows
  <1>6. plain + Cardinality(Pending) <= Quota(Overridden) + Cardinality(Slots) + llmFaults
    BY <1>1, <1>3, <1>5 DEF PlainInv
  <1> QED
    BY <1>3, <1>4, <1>5, <1>6

\* The tender is removed, or an answer or an override is written to it.
LEMMA SectorTurns ==
  ASSUME SectorInv,
         \/ Sector!RemoveTender
         \/ \E c \in Slots : Sector!Persist(c) /\ tender.state = "live"
  PROVE  SectorInv'
  <1>1. /\ UNCHANGED <<today, begun, plain, overrides, llmFaults>> /\ SectorTypes
        /\ plain \in Nat /\ llmFaults \in Nat /\ overrides \in Nat
        /\ Cardinality(Humans) <= overrides
        /\ tender \in [state : {"live", "gone"}, sector : BOOLEAN, hash : BOOLEAN, write : Nat]
    BY DEF SectorInv, SectorTypes, Sector!RemoveTender, Sector!Persist
  <1>2. /\ plain + Cardinality(Pending) <= Quota(Overridden) + Cardinality(Slots) + llmFaults
        /\ Cardinality(Pending) \in Nat /\ Cardinality(Humans) \in Nat
        /\ Cardinality(Slots) \in Nat /\ Overridden \in Nat /\ Quota(Overridden) \in Nat
    BY PlainFits
  <1>3. CASE Sector!RemoveTender
    <2>1. UNCHANGED llm /\ tender' = [tender EXCEPT !.state = "gone"]
      BY <1>3 DEF Sector!RemoveTender
    <2>2. /\ tender' \in [state : {"live", "gone"}, sector : BOOLEAN, hash : BOOLEAN, write : Nat]
          /\ tender'.state = "gone"
      BY <1>1, <2>1
    <2>3. /\ Humans' = Humans /\ Pending' = Pending /\ ~Asking'
      BY <2>1, <2>2 DEF Humans, Pending, Asking
    <2>4. SectorTypes' /\ \A d \in Slots : llm'[d].human = TRUE => llm'[d].pc = "persist"
      BY <1>1, <2>1, <2>2 DEF SectorTypes, SectorInv
    <2>5. Quota(Overridden)' = Quota(Overridden)
      BY <1>1, <2>3 DEF Overridden, Quota
    <2> QED
      BY <1>1, <1>2, <2>3, <2>4, <2>5 DEF SectorInv, PlainInv
  <1>4. ASSUME NEW c \in Slots, Sector!Persist(c), tender.state = "live" PROVE SectorInv'
    <2>1. /\ llm[c].pc = "persist" /\ llm[c] \in SectorHandler
          /\ tender' = [tender EXCEPT !.sector = TRUE, !.hash = ~llm[c].human, !.write = llm[c].write]
          /\ llm' = [llm EXCEPT ![c] = [llm[c] EXCEPT !.pc = "audit", !.human = FALSE]]
      BY <1>1, <1>4 DEF Sector!Persist, Sector!At, Sector!Become, SectorTypes
    <2>2. PICK n \in SectorHandler :
            n.pc = "audit" /\ n.human = FALSE /\ llm' = [llm EXCEPT ![c] = n]
      <3>1. PICK n : n = [llm[c] EXCEPT !.pc = "audit", !.human = FALSE]
        OBVIOUS
      <3>2. n \in SectorHandler /\ n.pc = "audit" /\ n.human = FALSE
        BY <2>1, <3>1 DEF SectorHandler
      <3> QED
        BY <2>1, <3>1, <3>2
    <2>3. /\ Humans \in SUBSET Slots /\ Humans' \in SUBSET Slots /\ Humans \ {c} = Humans' \ {c}
          /\ Answers' \in SUBSET Slots
          /\ Pending \ {c} = Pending' \ {c} /\ c \notin Pending /\ c \notin Pending'
          /\ c \notin Humans' /\ (c \in Humans <=> llm[c].human = TRUE)
          /\ llm' \in [Slots -> SectorHandler] /\ llm'[c] = n
          /\ \A d \in Slots \ {c} : llm'[d] = llm[d]
      BY <1>1, <2>1, <2>2, KindsMove
    <2>4. Pending' = Pending
      BY <2>3
    <2>5. \A d \in Slots : llm'[d].human = TRUE => llm'[d].pc = "persist"
      BY <2>2, <2>3 DEF SectorInv
    <2>6. llm[c].human \in BOOLEAN /\ llm[c].write \in Nat
      BY <2>1 DEF SectorHandler
    <2>7. /\ tender' \in [state : {"live", "gone"}, sector : BOOLEAN, hash : BOOLEAN, write : Nat]
          /\ tender'.state = "live" /\ tender'.sector = TRUE /\ tender'.hash = ~llm[c].human
      BY <1>1, <1>4, <2>1, <2>6
    <2>8. SectorTypes'
      BY <1>1, <2>3, <2>7 DEF SectorTypes
    <2>9. CASE llm[c].human = FALSE
      <3>1. ~Asking' /\ Humans' = Humans
        BY <2>3, <2>7, <2>9 DEF Asking
      <3>2. Quota(Overridden)' = Quota(Overridden)
        BY <1>1, <3>1 DEF Overridden, Quota
      <3> QED
        BY <1>1, <1>2, <2>4, <2>5, <2>8, <3>1, <3>2 DEF SectorInv, PlainInv
    <2>10. CASE llm[c].human = TRUE
      <3>1. Asking' /\ c \in Humans
        BY <2>3, <2>7, <2>10 DEF Asking
      <3>2. Cardinality(Humans) = Cardinality(Humans') + 1 /\ Cardinality(Humans') \in Nat
        BY <2>3, <3>1, OneMoves
      <3>3. Overridden' = Overridden + 1 /\ Cardinality(Humans') <= overrides'
        BY <1>1, <1>2, <3>2 DEF Overridden
      <3>4. Quota(Overridden)' = Quota(Overridden) + Cardinality(Slots)
        <4>1. PICK k \in Nat : k = Overridden /\ Overridden' = k + 1
          BY <1>2, <3>3
        <4>2. Quota(k + 1) = Quota(k) + Cardinality(Slots)
          BY QuotaGrows
        <4> QED
          BY <4>1, <4>2 DEF Quota
      <3>5. Cardinality(Answers') \in Nat
        BY <2>3, CountWithin
      <3>6. plain' <= Quota(Overridden)' + Cardinality(Answers') + llmFaults'
        BY <1>1, <1>2, <3>4, <3>5
      <3> QED
        BY <2>5, <2>8, <3>1, <3>3, <3>6 DEF SectorInv, PlainInv
    <2> QED
      BY <2>6, <2>9, <2>10
  <1> QED
    BY <1>3, <1>4

\* A handler moves without calling the provider and without an override.
LEMMA SectorQuiet ==
  ASSUME SectorInv, NEW c \in Slots, NEW n \in SectorHandler, llm' = [llm EXCEPT ![c] = n],
         n.human = TRUE => llm[c].human = TRUE /\ n.pc = "persist",
         UNCHANGED <<tender, plain, overrides>>, today' \in Nat, begun' \in Nat,
         NEW dF \in 0..1, llmFaults' = llmFaults + dF,
         Asking /\ dF = 0 /\ llm[c].human = FALSE
           /\ llm[c].pc \in {"record", "requests", "tokens", "persist"}
           => n.human = FALSE /\ n.pc \in {"record", "requests", "tokens", "persist"},
         ~Asking /\ n.force = FALSE /\ n.pc \in {"check", "generate"}
           => llm[c].force = FALSE /\ llm[c].pc \in {"check", "generate"}
  PROVE  SectorInv'
  <1>1. SectorTypes /\ plain \in Nat /\ overrides \in Nat
    BY DEF SectorInv, SectorTypes
  <1>2. PICK dP \in 0..1, dO \in 0..1 :
          dP = 0 /\ dO = 0 /\ plain' = plain + dP /\ overrides' = overrides + dO
    BY <1>1
  <1>3. /\ c \in Humans <=> llm[c].human = TRUE
        /\ c \in Humans' <=> n.human = TRUE
        /\ c \in Answers <=> /\ llm[c].human = FALSE
                             /\ llm[c].pc \in {"record", "requests", "tokens", "persist"}
        /\ c \in Answers' <=> /\ n.human = FALSE
                              /\ n.pc \in {"record", "requests", "tokens", "persist"}
        /\ c \in Pending <=> llm[c].force = FALSE /\ llm[c].pc \in {"check", "generate"}
        /\ c \in Pending' <=> n.force = FALSE /\ n.pc \in {"check", "generate"}
    BY <1>1, KindsMove
  <1>4. /\ dO = 1 => c \notin Humans /\ c \in Humans'
        /\ dO = 0 => (c \in Humans' => c \in Humans)
        /\ n.human = TRUE => n.pc = "persist"
    BY <1>2, <1>3
  <1>5. Asking => /\ dP = 1 => c \notin Answers /\ (c \in Answers' \/ dF = 1)
                  /\ c \in Answers => c \in Answers' \/ dF = 1
    BY <1>2, <1>3
  <1>6. ~Asking => /\ dP = 1 => c \in Pending /\ c \notin Pending'
                   /\ c \in Pending' => c \in Pending
    BY <1>2, <1>3
  <1> QED
    BY <1>2, <1>4, <1>5, <1>6, SectorMove

\* The provider is asked: an answer, or an error at the price of a fault.
LEMMA SectorAsks ==
  ASSUME SectorInv, NEW c \in Slots, Sector!Generate(c)
  PROVE  SectorInv'
  <1>1. /\ SectorTypes /\ llm[c] \in SectorHandler /\ llm[c].pc = "generate"
        /\ plain \in Nat /\ overrides \in Nat /\ llmFaults \in Nat /\ today \in Nat /\ begun \in Nat
        /\ UNCHANGED <<tender, today, begun, overrides>> /\ llm[c].force \in BOOLEAN
        /\ llm[c].human = FALSE
    BY DEF SectorInv, SectorTypes, SectorHandler, Sector!Generate, Sector!At
  <1>2. PICK dP \in 0..1, dO \in 0..1 :
          /\ plain' = plain + dP /\ dO = 0 /\ overrides' = overrides + dO
          /\ dP = 1 => llm[c].force = FALSE
    BY <1>1 DEF Sector!Generate
  <1>3. PICK n \in SectorHandler, dF \in 0..1 :
          /\ llm' = [llm EXCEPT ![c] = n] /\ n.human = FALSE /\ llmFaults' = llmFaults + dF
          /\ n.pc \in {"record", "error"} /\ (n.pc = "error" => dF = 1)
    <2>1. ASSUME NEW tokens \in 0..1, UNCHANGED llmFaults,
                 Sector!Become(c, [llm[c] EXCEPT !.pc = "record", !.force = FALSE,
                                                 !.tokens = tokens, !.since = today])
          PROVE  \E n \in SectorHandler, dF \in 0..1 :
                   /\ llm' = [llm EXCEPT ![c] = n] /\ n.human = FALSE /\ llmFaults' = llmFaults + dF
                   /\ n.pc \in {"record", "error"} /\ (n.pc = "error" => dF = 1)
      <3>1. PICK n : n = [llm[c] EXCEPT !.pc = "record", !.force = FALSE, !.tokens = tokens,
                                        !.since = today]
        OBVIOUS
      <3>2. n \in SectorHandler /\ n.pc = "record" /\ n.human = FALSE
        BY <1>1, <3>1 DEF SectorHandler
      <3>3. llm' = [llm EXCEPT ![c] = n]
        BY <2>1, <3>1 DEF Sector!Become
      <3>4. 0 \in 0..1 /\ llmFaults' = llmFaults + 0
        BY <1>1, <2>1
      <3> QED
        BY <3>2, <3>3, <3>4
    <2>2. ASSUME Sector!Fault, Sector!Goto(c, "error")
          PROVE  \E n \in SectorHandler, dF \in 0..1 :
                   /\ llm' = [llm EXCEPT ![c] = n] /\ n.human = FALSE /\ llmFaults' = llmFaults + dF
                   /\ n.pc \in {"record", "error"} /\ (n.pc = "error" => dF = 1)
      <3>1. PICK n : n = [llm[c] EXCEPT !.pc = "error"]
        OBVIOUS
      <3>2. n \in SectorHandler /\ n.pc = "error" /\ n.human = FALSE
        BY <1>1, <3>1 DEF SectorHandler
      <3>3. llm' = [llm EXCEPT ![c] = n]
        BY <2>2, <3>1 DEF Sector!Become, Sector!Goto
      <3>4. 1 \in 0..1 /\ llmFaults' = llmFaults + 1
        BY <1>1, <2>2 DEF Sector!Fault
      <3> QED
        BY <3>2, <3>3, <3>4
    <2> QED
      BY <2>1, <2>2 DEF Sector!Generate
  <1>4. /\ c \notin Humans' /\ c \notin Answers /\ (c \in Answers' \/ dF = 1)
        /\ c \in Pending <=> llm[c].force = FALSE
        /\ c \notin Pending'
    <2>1. /\ c \in Humans' <=> n.human = TRUE
          /\ c \in Answers <=> /\ llm[c].human = FALSE
                               /\ llm[c].pc \in {"record", "requests", "tokens", "persist"}
          /\ c \in Answers' <=> /\ n.human = FALSE
                                /\ n.pc \in {"record", "requests", "tokens", "persist"}
          /\ c \in Pending <=> llm[c].force = FALSE /\ llm[c].pc \in {"check", "generate"}
          /\ c \in Pending' <=> n.force = FALSE /\ n.pc \in {"check", "generate"}
      BY <1>1, <1>3, KindsMove
    <2> QED
      BY <1>1, <1>3, <2>1
  <1>5. /\ dO # 1 /\ today' \in Nat /\ begun' \in Nat
    BY <1>1, <1>2
  <1>6. n.human = TRUE => n.pc = "persist"
    <2>1. n.human = FALSE
      BY <1>3
    <2> QED
      BY <2>1
  <1> QED
    BY <1>1, <1>2, <1>3, <1>4, <1>5, <1>6, SectorMove

\* A human overrides: the override is counted, and written later.
LEMMA SectorOverrides ==
  ASSUME SectorInv, NEW c \in Slots, Sector!Override(c)
  PROVE  SectorInv'
  <1>1. /\ SectorTypes /\ llm[c].pc = "idle" /\ UNCHANGED <<tender, today, plain, llmFaults>>
        /\ plain \in Nat /\ overrides \in Nat /\ llmFaults \in Nat /\ today \in Nat /\ begun \in Nat
        /\ begun' = begun + 1 /\ overrides' = overrides + 1
    BY DEF SectorInv, SectorTypes, Sector!Override, Sector!At
  <1>2. PICK n : n = [Sector!Resting EXCEPT !.pc = "persist", !.human = TRUE, !.write = begun + 1]
    OBVIOUS
  <1>3. n \in SectorHandler /\ n.pc = "persist" /\ n.human = TRUE
    <2>1. n = [pc |-> "persist", force |-> FALSE, human |-> TRUE, since |-> 0, tokens |-> 0,
               write |-> begun + 1]
      BY <1>2 DEF Sector!Resting
    <2>2. 0 \in 0..1 /\ begun + 1 \in Nat
      BY <1>1
    <2> QED
      BY <2>1, <2>2 DEF SectorHandler
  <1>4. llm' = [llm EXCEPT ![c] = n]
    BY <1>2 DEF Sector!Override, Sector!Become
  <1>5. PICK dP \in 0..1, dO \in 0..1, dF \in 0..1 :
          /\ dP = 0 /\ dO = 1 /\ dF = 0
          /\ plain' = plain + dP /\ overrides' = overrides + dO /\ llmFaults' = llmFaults + dF
    BY <1>1
  <1>6. llm[c].human # TRUE
    BY <1>1 DEF SectorInv
  <1>7. /\ c \in Humans <=> llm[c].human = TRUE
        /\ c \in Humans' <=> n.human = TRUE
        /\ c \in Answers <=> /\ llm[c].human = FALSE
                             /\ llm[c].pc \in {"record", "requests", "tokens", "persist"}
        /\ c \in Pending' <=> n.force = FALSE /\ n.pc \in {"check", "generate"}
    BY <1>1, <1>3, <1>4, KindsMove
  <1>8. c \notin Humans /\ c \in Humans' /\ c \notin Answers /\ c \notin Pending'
    BY <1>1, <1>3, <1>6, <1>7
  <1>9. dP # 1 /\ dO # 0 /\ today' \in Nat /\ begun' \in Nat
    BY <1>1, <1>5
  <1> QED
    BY <1>1, <1>3, <1>4, <1>5, <1>8, <1>9, SectorMove

\* The other steps of a call.
LEMMA SectorGoesOn ==
  ASSUME SectorInv, NEW c \in Slots,
         \/ \E force \in BOOLEAN : Sector!Classify(c, force)
         \/ Sector!AssertCanSpend(c) \/ Sector!RecordError(c) \/ Sector!RecordOk(c)
         \/ Sector!BumpRequests(c) \/ Sector!BumpTokens(c) \/ Sector!Audit(c) \/ Sector!Abort(c)
         \/ Sector!Persist(c) /\ tender.state # "live"
  PROVE  SectorInv'
  <1>1. /\ SectorTypes /\ llm[c] \in SectorHandler
        /\ UNCHANGED <<tender, today, plain, overrides>>
        /\ llmFaults \in Nat /\ today \in Nat /\ begun \in Nat /\ begun' \in {begun, begun + 1}
        /\ llm[c].human = TRUE => llm[c].pc = "persist"
    BY DEF SectorInv, SectorTypes, Sector!Classify, Sector!AssertCanSpend, Sector!RecordError,
           Sector!RecordOk, Sector!BumpRequests, Sector!BumpTokens, Sector!Audit, Sector!Abort,
           Sector!Persist
  <1>2. today' \in Nat /\ begun' \in Nat
    BY <1>1
  <1>3. PICK none \in 0..1, one \in 0..1 : none = 0 /\ one = 1
    OBVIOUS
  <1>4. /\ Sector!Resting \in SectorHandler /\ Sector!Resting.pc = "idle"
        /\ Sector!Resting.human = FALSE /\ Sector!Resting.force = FALSE
    BY DEF Sector!Resting, SectorHandler
  <1>5. ASSUME Sector!Throw(c),
               \/ llmFaults' = llmFaults + 1
               \/ /\ llmFaults' = llmFaults
                  /\ ~Asking \/ llm[c].pc \notin {"record", "requests", "tokens", "persist"}
        PROVE  SectorInv'
    <2>1. PICK n \in SectorHandler : llm' = [llm EXCEPT ![c] = n] /\ n.pc = "idle" /\ n.human = FALSE
      BY <1>4, <1>5 DEF Sector!Throw, Sector!Become
    <2>2. PICK dF \in 0..1 :
            /\ llmFaults' = llmFaults + dF
            /\ Asking /\ dF = 0 => llm[c].pc \notin {"record", "requests", "tokens", "persist"}
      BY <1>1, <1>5
    <2>3. n.human = TRUE => llm[c].human = TRUE /\ n.pc = "persist"
      <3>1. n.human = FALSE
        BY <2>1
      <3> QED
        BY <3>1
    <2> QED
      BY <1>1, <1>2, <2>1, <2>2, <2>3, SectorQuiet
  <1>6. ASSUME NEW force \in BOOLEAN, Sector!Classify(c, force) PROVE SectorInv'
    <2>1. PICK n : n = [Sector!Resting EXCEPT !.pc = "check", !.force = force, !.since = today,
                                              !.write = begun + 1]
      OBVIOUS
    <2>2. n \in SectorHandler /\ n.pc = "check" /\ n.human = FALSE /\ n.force = force
      <3>1. n = [pc |-> "check", force |-> force, human |-> FALSE, since |-> today, tokens |-> 0,
                 write |-> begun + 1]
        BY <2>1 DEF Sector!Resting
      <3>2. 0 \in 0..1 /\ begun + 1 \in Nat
        BY <1>1
      <3> QED
        BY <1>1, <3>1, <3>2 DEF SectorHandler
    <2>3. /\ llm' = [llm EXCEPT ![c] = n] /\ llm[c].pc = "idle" /\ llmFaults' = llmFaults
          /\ tender.state = "live" /\ ~Sector!Cached(force)
      BY <1>6, <2>1 DEF Sector!Classify, Sector!Become, Sector!At
    <2>4. tender.sector \in BOOLEAN /\ tender.hash \in BOOLEAN
      BY <1>1 DEF SectorTypes
    <2>5. force = FALSE => Asking
      BY <1>6, <2>3, <2>4 DEF Sector!Cached, Asking
    <2>6. llmFaults' = llmFaults + none
      BY <1>1, <1>3, <2>3
    <2>7. n.human = TRUE => llm[c].human = TRUE /\ n.pc = "persist"
      <3>1. n.human = FALSE
        BY <2>2
      <3> QED
        BY <3>1
    <2> QED
      BY <1>1, <1>2, <2>2, <2>3, <2>5, <2>6, <2>7, SectorQuiet
  <1>7. CASE Sector!AssertCanSpend(c)
    <2>1. llm[c].pc = "check" /\ llmFaults' = llmFaults
      BY <1>7 DEF Sector!AssertCanSpend, Sector!At
    <2>2. CASE Sector!Throw(c)
      BY <1>5, <2>1, <2>2
    <2>3. CASE Sector!Goto(c, "generate")
      <3>1. PICK n : n = [llm[c] EXCEPT !.pc = "generate"]
        OBVIOUS
      <3>2. /\ n \in SectorHandler /\ n.pc = "generate" /\ n.human = llm[c].human
            /\ n.force = llm[c].force
        BY <1>1, <3>1 DEF SectorHandler
      <3>3. llm' = [llm EXCEPT ![c] = n] /\ llmFaults' = llmFaults + none
        BY <1>1, <1>3, <2>1, <2>3, <3>1 DEF Sector!Goto, Sector!Become
      <3>4. n.human # TRUE
        BY <1>1, <2>1, <3>2
      <3>5. llm[c].pc \notin {"record", "requests", "tokens", "persist"}
        BY <2>1
      <3>6. n.force = FALSE => llm[c].force = FALSE /\ llm[c].pc \in {"check", "generate"}
        BY <2>1, <3>2
      <3>7. n \in SectorHandler /\ UNCHANGED <<tender, plain, overrides>>
        BY <1>1, <3>2
      <3> QED
        BY <1>2, <3>3, <3>4, <3>5, <3>6, <3>7, SectorQuiet
    <2> QED
      BY <1>7, <2>2, <2>3 DEF Sector!AssertCanSpend
  <1>8. CASE Sector!RecordError(c) \/ Sector!Audit(c) \/ Sector!Abort(c)
    <2>1. /\ Sector!Throw(c)
          /\ \/ llmFaults' = llmFaults + 1
             \/ llmFaults' = llmFaults /\ llm[c].pc \in {"error", "audit"}
      BY <1>8 DEF Sector!RecordError, Sector!Audit, Sector!Abort, Sector!At, Sector!Fault
    <2> QED
      BY <1>5, <2>1
  <1>9. CASE Sector!Persist(c) /\ tender.state # "live"
    <2>1. Sector!Throw(c) /\ llmFaults' = llmFaults /\ ~Asking
      BY <1>9 DEF Sector!Persist, Asking
    <2> QED
      BY <1>5, <2>1
  <1>10. ASSUME NEW n \in SectorHandler, llm' = [llm EXCEPT ![c] = n],
                n.pc \in {"requests", "tokens", "persist"}, n.human = llm[c].human,
                llm[c].pc \in {"record", "requests", "tokens"},
                llmFaults' \in {llmFaults, llmFaults + 1}
         PROVE  SectorInv'
    <2>1. PICK dF \in 0..1 : llmFaults' = llmFaults + dF
      BY <1>1, <1>10
    <2>2. n.human # TRUE
      BY <1>1, <1>10
    <2> QED
      BY <1>1, <1>2, <1>10, <2>1, <2>2, SectorQuiet
  <1>11. CASE Sector!RecordOk(c)
    <2>1. PICK n : n = [llm[c] EXCEPT !.pc = "requests", !.since = 0]
      OBVIOUS
    <2>2. n \in SectorHandler /\ n.pc = "requests" /\ n.human = llm[c].human
      BY <1>1, <2>1 DEF SectorHandler
    <2>3. /\ llm' = [llm EXCEPT ![c] = n] /\ llm[c].pc = "record"
          /\ llmFaults' \in {llmFaults, llmFaults + 1}
      BY <1>11, <2>1 DEF Sector!RecordOk, Sector!Become, Sector!At, Sector!Fault
    <2> QED
      BY <1>10, <2>2, <2>3
  <1>12. CASE Sector!BumpRequests(c)
    <2>1. PICK pc \in {"tokens", "persist"} :
            llm' = [llm EXCEPT ![c] = [llm[c] EXCEPT !.pc = pc]]
      BY <1>12 DEF Sector!BumpRequests, Sector!Goto, Sector!Become
    <2>2. PICK n : n = [llm[c] EXCEPT !.pc = pc]
      OBVIOUS
    <2>3. n \in SectorHandler /\ n.pc = pc /\ n.human = llm[c].human
      BY <1>1, <2>1, <2>2 DEF SectorHandler
    <2>4. llm[c].pc = "requests" /\ llmFaults' = llmFaults
      BY <1>12 DEF Sector!BumpRequests, Sector!At
    <2> QED
      BY <1>10, <2>1, <2>2, <2>3, <2>4
  <1>13. CASE Sector!BumpTokens(c)
    <2>1. PICK n : n = [llm[c] EXCEPT !.pc = "persist", !.tokens = 0]
      OBVIOUS
    <2>2. n \in SectorHandler /\ n.pc = "persist" /\ n.human = llm[c].human
      <3>1. 0 \in 0..1
        OBVIOUS
      <3> QED
        BY <1>1, <2>1, <3>1 DEF SectorHandler
    <2>3. llm' = [llm EXCEPT ![c] = n] /\ llm[c].pc = "tokens" /\ llmFaults' = llmFaults
      BY <1>13, <2>1 DEF Sector!BumpTokens, Sector!Become, Sector!At
    <2> QED
      BY <1>10, <2>2, <2>3
  <1> QED
    BY <1>6, <1>7, <1>8, <1>9, <1>11, <1>12, <1>13

\* SectorInv holds always.
LEMMA SectorHolds == Spec => []SectorInv
  <1>1. Init => SectorInv
    <2> SUFFICES ASSUME Init PROVE SectorInv
      OBVIOUS
    <2>1. PICK sector \in BOOLEAN :
            tender = [state |-> "live", sector |-> sector, hash |-> FALSE, write |-> 0]
      BY DEF Init, Sector!Init
    <2>2. /\ llm = [c \in Slots |-> Sector!Resting] /\ today = 0 /\ begun = 0 /\ plain = 0
          /\ overrides = 0 /\ llmFaults = 0
      BY DEF Init, Sector!Init
    <2>3. /\ Sector!Resting \in SectorHandler /\ Sector!Resting.human = FALSE
      <3>1. 0 \in 0..1
        OBVIOUS
      <3> QED
        BY <3>1 DEF Sector!Resting, SectorHandler
    <2>4. SectorTypes
      BY <2>1, <2>2, <2>3 DEF SectorTypes
    <2>5. \A c \in Slots : llm[c].human = FALSE
      BY <2>2, <2>3
    <2>6. Humans = {}
      BY <2>5 DEF Humans
    <2>7. Cardinality(Humans) = 0 /\ Overridden = 0
      BY <2>2, <2>6, FS_EmptySet DEF Overridden
    <2>8. Asking
      BY <2>1 DEF Asking
    <2>9. Answers \in SUBSET Slots
      BY DEF Answers
    <2>10. Cardinality(Answers) \in Nat /\ Quota(Overridden) \in Nat
      BY <2>7, <2>9, CountWithin, QuotaGrows
    <2>11. PlainInv
      BY <2>2, <2>8, <2>10 DEF PlainInv
    <2> QED
      BY <2>2, <2>4, <2>5, <2>7, <2>11 DEF SectorInv
  <1>2. SectorInv /\ [Sector!Next]_sectorVars => SectorInv'
    <2> SUFFICES ASSUME SectorInv, [Sector!Next]_sectorVars PROVE SectorInv'
      OBVIOUS
    <2>1. CASE Sector!Midnight \/ UNCHANGED sectorVars
      <3>1. /\ UNCHANGED <<tender, llm, begun, plain, overrides, llmFaults>>
            /\ today' \in {today, today + 1} /\ today \in Nat
        BY <2>1 DEF Sector!Midnight, sectorVars, SectorInv, SectorTypes
      <3>2. today' \in Nat
        BY <3>1
      <3> QED
        BY <3>1, <3>2 DEF SectorInv, SectorTypes, PlainInv, Humans, Answers, Pending, Overridden,
                          Quota, Asking
    <2>2. ASSUME NEW c \in Slots, Sector!Persist(c) PROVE SectorInv'
      BY <2>2, SectorTurns, SectorGoesOn
    <2> QED
      BY <2>1, <2>2, SectorTurns, SectorGoesOn, SectorAsks, SectorOverrides DEF Sector!Next
  <1>3. [Next]_<<focus, rest>> => [Sector!Next]_sectorVars
    BY DEF Next, rest
  <1> QED
    BY <1>1, <1>2, <1>3, PTL DEF Spec

\* PlainCallsBounded: calls that are not forced reach the provider at most once
\* per slot until an answer is stored, as often again after each override, and
\* once more for each fault (SectorClassifierService.classify and its cache).
THEOREM AskingAgainIsFree == Spec => []PlainCallsBounded
  <1>1. SectorInv => PlainCallsBounded
    <2> SUFFICES ASSUME SectorInv
                 PROVE  plain <= Cardinality(Slots) * (1 + overrides) + llmFaults
      BY SameCounts DEF PlainCallsBounded, Sector!PlainCallsBounded
    <2>1. /\ plain \in Nat /\ llmFaults \in Nat /\ overrides \in Nat
      BY DEF SectorInv, SectorTypes
    <2>2. /\ plain + Cardinality(Pending) <= Quota(Overridden) + Cardinality(Slots) + llmFaults
          /\ Cardinality(Pending) \in Nat /\ Cardinality(Humans) \in Nat
          /\ Cardinality(Slots) \in Nat /\ Overridden \in Nat /\ Quota(Overridden) \in Nat
      BY PlainFits
    <2>3. PICK s \in Nat, k \in Nat, h \in Nat :
            /\ s = Cardinality(Slots) /\ k = Overridden /\ h = Cardinality(Humans)
            /\ overrides = k + h
      BY <2>1, <2>2 DEF Overridden
    <2>4. s * (1 + overrides) = s * k + s + s * h /\ s * h >= 0 /\ s * k \in Nat
      BY <2>3
    <2>5. Quota(Overridden) = s * k
      BY <2>3 DEF Quota
    <2> QED
      BY <2>1, <2>2, <2>3, <2>4, <2>5
  <1> QED
    BY <1>1, SectorHolds, PTL

-----------------------------------------------------------------------------
(* Sums over finite sets.  The services add up with SumFunctionOnSet, which *)
(* takes the elements in an order of its own; what follows is by induction  *)
(* over the number of elements, in the form of the least counterexample.    *)

\* A set of naturals has a least element.
LEMMA LeastNatural ==
  ASSUME NEW S \in SUBSET Nat, NEW x \in S
  PROVE  \E k \in S : \A l \in S : k <= l
  <1>1. PICK k \in S : \A l \in S : ~(<<l, k>> \in OpToRel(<, Nat))
    BY NatLessThanWellFounded, WFMin
  <1>2. \A l \in S : ~(l < k)
    BY <1>1 DEF OpToRel
  <1> QED
    BY <1>2

\* Among some finite sets one has the fewest elements.
LEMMA SmallestSet ==
  ASSUME NEW F, NEW t \in F, \A s \in F : IsFiniteSet(s)
  PROVE  \E s \in F : \A r \in F : Cardinality(s) <= Cardinality(r)
  <1> DEFINE N == {Cardinality(s) : s \in F}
  <1>1. N \in SUBSET Nat
    BY FS_CardinalityType
  <1>2. Cardinality(t) \in N
    OBVIOUS
  <1>3. PICK k \in N : \A l \in N : k <= l
    BY <1>1, <1>2, LeastNatural
  <1>4. PICK s \in F : k = Cardinality(s)
    BY <1>3
  <1> QED
    BY <1>3, <1>4

\* The element that a sum over s takes first.
First(s) == CHOOSE x \in s : TRUE

\* The value of a sum over s, from the sums g over smaller sets.
Adds(f, g, s) == IF s = {} THEN 0 ELSE f[First(s)] + g[s \ {First(s)}]

\* The sums of f over the subsets of S.
AreSums(g, f, S) == g = [s \in SUBSET S |-> Adds(f, g, s)]

\* The first element is one of the set's, and the rest is smaller.
LEMMA FirstLeaves ==
  ASSUME NEW S, NEW s \in SUBSET S, s # {}, IsFiniteSet(S)
  PROVE  /\ First(s) \in s /\ s \ {First(s)} \in SUBSET S
         /\ IsFiniteSet(s) /\ IsFiniteSet(s \ {First(s)})
         /\ Cardinality(s) \in Nat /\ Cardinality(s \ {First(s)}) \in Nat
         /\ Cardinality(s) = Cardinality(s \ {First(s)}) + 1
  <1>1. First(s) \in s
    BY DEF First
  <1>2. IsFiniteSet(s)
    BY FS_Subset
  <1> QED
    BY <1>1, <1>2, CountRemove, FS_CardinalityType

\* The sums exist: those over sets of at most n elements give those over sets of
\* n + 1.
LEMMA SumsExist ==
  ASSUME NEW S, IsFiniteSet(S), NEW f
  PROVE  \E g : AreSums(g, f, S)
  <1> DEFINE Upto(n) == \E g : /\ g = [s \in SUBSET S |-> g[s]]
                               /\ \A s \in SUBSET S : Cardinality(s) < n => g[s] = Adds(f, g, s)
             Bad == {n \in Nat : ~Upto(n)}
  <1>0. \A s \in SUBSET S : Cardinality(s) \in Nat
    BY FS_Subset, FS_CardinalityType
  <1>1. Upto(0)
    <2>1. PICK g : g = [s \in SUBSET S |-> 0]
      OBVIOUS
    <2>2. /\ g = [s \in SUBSET S |-> g[s]]
          /\ \A s \in SUBSET S : Cardinality(s) < 0 => g[s] = Adds(f, g, s)
      BY <1>0, <2>1
    <2> QED
      BY <2>2
  <1>2. ASSUME NEW n \in Nat, Upto(n) PROVE Upto(n + 1)
    <2>1. PICK g : /\ g = [s \in SUBSET S |-> g[s]]
                   /\ \A s \in SUBSET S : Cardinality(s) < n => g[s] = Adds(f, g, s)
      BY <1>2
    <2>2. PICK h : h = [s \in SUBSET S |-> Adds(f, g, s)]
      OBVIOUS
    <2>3. ASSUME NEW s \in SUBSET S, Cardinality(s) < n + 1 PROVE h[s] = Adds(f, h, s)
      <3>1. CASE s = {}
        BY <2>2, <3>1 DEF Adds
      <3>2. CASE s # {}
        <4> DEFINE r == s \ {First(s)}
        <4>1. /\ r \in SUBSET S /\ Cardinality(r) \in Nat /\ Cardinality(s) \in Nat
              /\ Cardinality(s) = Cardinality(r) + 1
          BY <3>2, FirstLeaves
        <4>2. Cardinality(r) < n
          BY <2>3, <4>1
        <4>3. h[r] = g[r]
          BY <2>1, <2>2, <4>1, <4>2
        <4> QED
          BY <2>2, <3>2, <4>3 DEF Adds
      <3> QED
        BY <3>1, <3>2
    <2>4. h = [s \in SUBSET S |-> h[s]]
      BY <2>2
    <2> QED
      BY <2>3, <2>4
  <1>3. Bad = {}
    <2> SUFFICES ASSUME NEW m \in Bad PROVE FALSE
      OBVIOUS
    <2>1. PICK k \in Bad : \A l \in Bad : k <= l
      <3>1. Bad \in SUBSET Nat
        OBVIOUS
      <3> HIDE DEF Bad
      <3> QED
        BY <3>1, LeastNatural
    <2>2. k \in Nat /\ ~Upto(k)
      BY <2>1
    <2> HIDE DEF Upto
    <2>3. k # 0
      BY <1>1, <2>2
    <2>4. k - 1 \in Nat /\ k = (k - 1) + 1
      BY <2>2, <2>3
    <2>5. Upto(k - 1)
      BY <2>1, <2>2, <2>4
    <2> QED
      BY <1>2, <2>2, <2>4, <2>5
  <1>4. Cardinality(S) + 1 \in Nat
    BY <1>0
  <1>5. Upto(Cardinality(S) + 1)
    BY <1>3, <1>4
  <1>6. PICK g : /\ g = [s \in SUBSET S |-> g[s]]
                 /\ \A s \in SUBSET S : Cardinality(s) < Cardinality(S) + 1 => g[s] = Adds(f, g, s)
    BY <1>5
  <1>7. \A s \in SUBSET S : Cardinality(s) < Cardinality(S) + 1
    BY <1>0, FS_Subset
  <1>8. \A s \in SUBSET S : g[s] = Adds(f, g, s)
    BY <1>6, <1>7
  <1> QED
    BY <1>6, <1>8 DEF AreSums

\* The sums are integers that any element may be split off from.
AnyOrder(g, f, S) ==
    \A s \in SUBSET S : g[s] \in Int /\ \A x \in s : g[s] = f[x] + g[s \ {x}]

\* Sums of integers are integers, and any element may be taken first.
LEMMA AnyFirst ==
  ASSUME NEW S, IsFiniteSet(S), NEW f, NEW g, AreSums(g, f, S), \A x \in S : f[x] \in Int
  PROVE  AnyOrder(g, f, S)
  <1> DEFINE Good(s) == g[s] \in Int /\ \A x \in s : g[s] = f[x] + g[s \ {x}]
             Bad == {s \in SUBSET S : ~Good(s)}
  <1> SUFFICES ASSUME NEW t \in Bad PROVE FALSE
    BY DEF AnyOrder
  <1>1. \A s \in SUBSET S : g[s] = Adds(f, g, s)
    BY DEF AreSums
  <1>2. PICK s \in Bad : \A r \in Bad : Cardinality(s) <= Cardinality(r)
    <2>1. \A s \in Bad : IsFiniteSet(s)
      BY FS_Subset
    <2> HIDE DEF Bad
    <2> QED
      BY <2>1, SmallestSet
  <1>3. s \in SUBSET S /\ ~Good(s)
    BY <1>2
  <1>4. ASSUME NEW x \in s PROVE s \ {x} \in SUBSET S /\ Good(s \ {x})
    <2>1. IsFiniteSet(s)
      BY <1>3, FS_Subset
    <2>2. Cardinality(s \ {x}) \in Nat /\ Cardinality(s) = Cardinality(s \ {x}) + 1
      BY <2>1, CountRemove
    <2>3. ~(Cardinality(s) <= Cardinality(s \ {x}))
      BY <2>2
    <2>4. s \ {x} \notin Bad
      BY <1>2, <2>3
    <2> QED
      BY <1>3, <2>4
  <1>5. \A r \in SUBSET S : r \notin Bad => g[r] \in Int
    OBVIOUS
  <1>6. CASE s = {}
    <2>1. g[s] = 0
      BY <1>1, <1>3, <1>6 DEF Adds
    <2> QED
      BY <1>3, <1>6, <2>1
  <1>7. CASE s # {}
    <2> DEFINE y == First(s)
    <2>1. y \in s /\ g[s] = f[y] + g[s \ {y}]
      BY <1>1, <1>3, <1>7 DEF Adds, First
    <2> HIDE DEF y
    <2>2. g[s] \in Int
      <3>1. g[s \ {y}] \in Int /\ f[y] \in Int
        BY <1>3, <1>4, <2>1
      <3> QED
        BY <2>1, <3>1
    <2>3. ASSUME NEW x \in s PROVE g[s] = f[x] + g[s \ {x}]
      <3>1. CASE x = y
        BY <2>1, <3>1
      <3>2. CASE x # y
        <4>1. (s \ {x}) \ {y} = (s \ {y}) \ {x}
          OBVIOUS
        <4>2. /\ g[s \ {x}] = f[y] + g[(s \ {x}) \ {y}]
              /\ g[s \ {y}] = f[x] + g[(s \ {y}) \ {x}]
          BY <1>4, <2>1, <3>2
        <4>3. g[(s \ {y}) \ {x}] \in Int /\ f[x] \in Int /\ f[y] \in Int
          <5>1. (s \ {y}) \ {x} \in SUBSET S /\ x \in s \ {y} /\ y \in s
            BY <1>3, <2>1, <3>2
          <5>2. (s \ {y}) \ {x} \notin Bad
            <6>1. IsFiniteSet(s) /\ IsFiniteSet(s \ {y})
              BY <1>3, FS_Subset
            <6>2. /\ Cardinality((s \ {y}) \ {x}) \in Nat
                  /\ Cardinality(s \ {y}) = Cardinality((s \ {y}) \ {x}) + 1
              BY <5>1, <6>1, CountRemove
            <6>3. Cardinality(s) = Cardinality(s \ {y}) + 1
              BY <5>1, <6>1, CountRemove
            <6>4. ~(Cardinality(s) <= Cardinality((s \ {y}) \ {x}))
              BY <6>2, <6>3
            <6> QED
              BY <1>2, <6>4
          <5>3. g[(s \ {y}) \ {x}] \in Int
            BY <1>5, <5>1, <5>2
          <5> QED
            BY <1>3, <5>1, <5>3
        <4>4. g[(s \ {x}) \ {y}] = g[(s \ {y}) \ {x}]
          BY <4>1
        <4>5. g[s] = f[y] + (f[x] + g[(s \ {y}) \ {x}])
          BY <2>1, <4>2
        <4>6. f[x] + g[s \ {x}] = f[x] + (f[y] + g[(s \ {y}) \ {x}])
          BY <4>2, <4>4
        <4>7. \A i, j, k \in Int : i + (j + k) = j + (i + k)
          OBVIOUS
        <4> QED
          BY <4>3, <4>5, <4>6, <4>7
      <3> QED
        BY <3>1, <3>2
    <2> QED
      BY <1>3, <2>2, <2>3
  <1> QED
    BY <1>6, <1>7

\* A sum depends on the values at its elements alone.
LEMMA SameSums ==
  ASSUME NEW S, NEW T, IsFiniteSet(S), IsFiniteSet(T), NEW f, NEW e, NEW g, NEW h,
         AreSums(g, f, S), AreSums(h, e, T), NEW t \in SUBSET S, t \in SUBSET T,
         \A x \in t : f[x] = e[x]
  PROVE  g[t] = h[t]
  <1> DEFINE Bad == {s \in SUBSET t : g[s] # h[s]}
  <1> SUFFICES ASSUME t \in Bad PROVE FALSE
    OBVIOUS
  <1>1. /\ \A s \in SUBSET S : g[s] = Adds(f, g, s)
        /\ \A s \in SUBSET T : h[s] = Adds(e, h, s)
    BY DEF AreSums
  <1>2. PICK s \in Bad : \A r \in Bad : Cardinality(s) <= Cardinality(r)
    <2>1. \A s \in Bad : IsFiniteSet(s)
      BY FS_Subset
    <2> HIDE DEF Bad
    <2> QED
      BY <2>1, SmallestSet
  <1>3. s \in SUBSET t /\ s \in SUBSET S /\ s \in SUBSET T /\ g[s] # h[s]
    BY <1>2
  <1>4. s # {}
    BY <1>1, <1>3 DEF Adds
  <1> DEFINE r == s \ {First(s)}
  <1>5. /\ First(s) \in s /\ Cardinality(r) \in Nat /\ Cardinality(s) = Cardinality(r) + 1
    BY <1>3, <1>4, FirstLeaves
  <1>6. ~(Cardinality(s) <= Cardinality(r))
    BY <1>5
  <1>7. r \in SUBSET t /\ r \notin Bad
    BY <1>2, <1>3, <1>6
  <1>8. g[r] = h[r]
    BY <1>7
  <1> QED
    BY <1>1, <1>3, <1>4, <1>5, <1>8 DEF Adds

\* The sum of f over S.
Sum(f, S) == (CHOOSE g : AreSums(g, f, S))[S]

\* What is used of sums: each is an integer, nothing adds up to 0, an element
\* adds its value, and the values at other elements do not matter.
LEMMA SumFacts ==
  ASSUME NEW S, IsFiniteSet(S), NEW f, \A x \in S : f[x] \in Int
  PROVE  /\ Sum(f, S) \in Int
         /\ S = {} => Sum(f, S) = 0
         /\ \A x \in S : Sum(f, S) = f[x] + Sum(f, S \ {x}) /\ Sum(f, S \ {x}) \in Int
         /\ \A e : (\A x \in S : e[x] = f[x]) => Sum(e, S) = Sum(f, S)
  <1>1. PICK g : g = CHOOSE h : AreSums(h, f, S)
    OBVIOUS
  <1>2. AreSums(g, f, S) /\ Sum(f, S) = g[S]
    BY <1>1, SumsExist DEF Sum
  <1>3. \A s \in SUBSET S : g[s] \in Int /\ \A x \in s : g[s] = f[x] + g[s \ {x}]
    <2>1. AnyOrder(g, f, S)
      BY <1>2, AnyFirst
    <2> QED
      BY <2>1 DEF AnyOrder
  <1>4. S = {} => Sum(f, S) = 0
    BY <1>2 DEF AreSums, Adds
  <1>5. ASSUME NEW e, NEW T \in SUBSET S, \A x \in T : e[x] = f[x] PROVE Sum(e, T) = g[T]
    <2>1. PICK h : h = CHOOSE k : AreSums(k, e, T)
      OBVIOUS
    <2>2. IsFiniteSet(T)
      BY FS_Subset
    <2>3. AreSums(h, e, T) /\ Sum(e, T) = h[T]
      BY <2>1, <2>2, SumsExist DEF Sum
    <2>4. h[T] = g[T]
      BY <1>2, <1>5, <2>2, <2>3, SameSums
    <2> QED
      BY <2>3, <2>4
  <1>6. \A x \in S : Sum(f, S \ {x}) = g[S \ {x}]
    BY <1>5
  <1>7. \A e : (\A x \in S : e[x] = f[x]) => Sum(e, S) = g[S]
    BY <1>5
  <1> QED
    BY <1>2, <1>3, <1>4, <1>6, <1>7

\* One value changes.
LEMMA SumMoves ==
  ASSUME NEW S, IsFiniteSet(S), NEW f, NEW e, \A x \in S : f[x] \in Int, NEW y,
         \A x \in S \ {y} : e[x] = f[x], e[y] \in Int
  PROVE  /\ Sum(f, S) \in Int /\ Sum(e, S) \in Int
         /\ y \in S => Sum(e, S) = Sum(f, S) + (e[y] - f[y])
         /\ y \notin S => Sum(e, S) = Sum(f, S)
  <1>1. IsFiniteSet(S \ {y})
    BY FS_Subset
  <1>2. \A x \in S : e[x] \in Int
    OBVIOUS
  <1>3. Sum(e, S \ {y}) = Sum(f, S \ {y})
    BY <1>1, SumFacts
  <1>4. Sum(f, S) \in Int /\ Sum(e, S) \in Int
    BY <1>2, SumFacts
  <1>5. ASSUME y \in S PROVE Sum(e, S) = Sum(f, S) + (e[y] - f[y])
    <2>1. /\ Sum(f, S) = f[y] + Sum(f, S \ {y}) /\ Sum(f, S \ {y}) \in Int
          /\ Sum(e, S) = e[y] + Sum(e, S \ {y})
      BY <1>2, <1>5, SumFacts
    <2> QED
      BY <1>3, <1>5, <2>1
  <1>6. ASSUME y \notin S PROVE Sum(e, S) = Sum(f, S)
    <2>1. S \ {y} = S
      BY <1>6
    <2> QED
      BY <1>3, <2>1
  <1> QED
    BY <1>4, <1>5, <1>6

\* The sum of naturals over fewer elements is not greater.
LEMMA SumGrows ==
  ASSUME NEW S, IsFiniteSet(S), NEW f, \A x \in S : f[x] \in Nat, NEW T \in SUBSET S
  PROVE  Sum(f, T) <= Sum(f, S) /\ Sum(f, T) \in Int /\ Sum(f, S) \in Int
  <1> DEFINE Bad == {s \in SUBSET S : T \subseteq s /\ ~(Sum(f, T) <= Sum(f, s))}
  <1>1. ASSUME NEW s \in SUBSET S PROVE IsFiniteSet(s) /\ Sum(f, s) \in Int
    <2>1. IsFiniteSet(s) /\ \A x \in s : f[x] \in Int
      BY FS_Subset
    <2> QED
      BY <2>1, SumFacts
  <1>2. SUFFICES ASSUME S \in Bad PROVE FALSE
    BY <1>1
  <1>3. PICK s \in Bad : \A r \in Bad : Cardinality(s) <= Cardinality(r)
    <2>1. \A s \in Bad : IsFiniteSet(s)
      BY <1>1
    <2> HIDE DEF Bad
    <2> QED
      BY <1>2, <2>1, SmallestSet
  <1>4. s \in SUBSET S /\ T \subseteq s /\ ~(Sum(f, T) <= Sum(f, s))
    BY <1>3
  <1>5. s # T
    BY <1>1, <1>4
  <1>6. PICK x \in s : x \notin T
    BY <1>4, <1>5
  <1>7. /\ IsFiniteSet(s) /\ Cardinality(s \ {x}) \in Nat
        /\ Cardinality(s) = Cardinality(s \ {x}) + 1
    BY <1>1, <1>4, CountRemove
  <1>8. ~(Cardinality(s) <= Cardinality(s \ {x}))
    BY <1>7
  <1>9. s \ {x} \notin Bad
    BY <1>3, <1>8
  <1>10. Sum(f, T) <= Sum(f, s \ {x})
    BY <1>4, <1>6, <1>9
  <1>11. Sum(f, s) = f[x] + Sum(f, s \ {x}) /\ Sum(f, s \ {x}) \in Int
    <2>1. \A z \in s : f[z] \in Int
      BY <1>4
    <2> QED
      BY <1>7, <2>1, SumFacts
  <1>12. f[x] \in Nat /\ Sum(f, T) \in Int
    BY <1>1, <1>4
  <1> QED
    BY <1>4, <1>10, <1>11, <1>12

-----------------------------------------------------------------------------
(* The LLM's budget and what was used of it.                                 *)

\* The two things a budget limits, and what an answer is worth in each.
Kinds == {"n", "cost"}
Worth(k, tokens) == IF k = "n" THEN 1 ELSE tokens
Of(amount, k) == IF k = "n" THEN amount.n ELSE amount.cost
Cap(k) == IF k = "n" THEN MaxRequests ELSE MaxCost
Amounts == [n : Nat, cost : Nat]

\* The ok rows of the usage log and the usage counters, day by day, and the ok
\* rows since a day.
OkRows(k) == [d \in Sector!Days |-> Of(usageLog[d].ok, k)]
Counters(k) == [d \in Sector!Days |-> IF k = "n" THEN counter[d].requests ELSE counter[d].tokens]
DaysFrom(d) == {e \in Sector!Days : e >= d}
Since(d, k) == Sum(OkRows(k), DaysFrom(d))

\* What the provider was paid on a day and the log has or will have.
Spent(d, k) == Of(paid[d], k) - Of(uncounted[d], k)

\* A handler that has an answer of day d to record, that is about to ask with a
\* budget read on day d or before, that has a recorded answer to count.
ToRecord(h, d, k) == h.pc = "record" /\ h.since = d /\ Worth(k, h.tokens) = 1
ToAsk(h, d) == h.pc = "generate" /\ h.since <= d
ToCount(h, k) ==
    IF k = "n" THEN h.pc = "requests" ELSE h.pc \in {"requests", "tokens"} /\ h.tokens = 1
Recorders(d, k) == {c \in Slots : ToRecord(llm[c], d, k)}
Askers(d) == {c \in Slots : ToAsk(llm[c], d)}
Countable(k) == {c \in Slots : ToCount(llm[c], k)}

SpendTypes ==
    /\ today \in Sector!Days
    /\ \A c \in Slots : llm[c].since \in Sector!Days /\ llm[c].since <= today
    /\ paid \in [Sector!Days -> Amounts] /\ uncounted \in [Sector!Days -> Amounts]
    /\ usageLog \in [Sector!Days -> [ok : Amounts, error : Nat]]
    /\ counter \in [Sector!Days -> [requests : Nat, tokens : Nat]]

\* What was spent on a day is in the log of that day or of a later one, or is
\* about to be recorded; and those about to ask have room under the cap.
DayInv(d, k) ==
    /\ Spent(d, k) - Cardinality(Recorders(d, k)) <= Since(d, k)
    /\ Spent(d, k) + Cardinality(Askers(d)) <= Cap(k) - 1 + Cardinality(Slots)
SpendInv == SpendTypes /\ \A d \in Sector!Days, k \in Kinds : DayInv(d, k)

\* The log and the counters differ by the answers between the two and by one for
\* each fault.
Gap(k) ==
    Sum(OkRows(k), Sector!Days) - Sum(Counters(k), Sector!Days) - Cardinality(Countable(k))
UsageInv == \A k \in Kinds : Gap(k) \in -llmFaults..llmFaults

\* A condition counted as a number.
Num(b) == IF b THEN 1 ELSE 0

\* The days are finitely many, and the tables hold numbers.
LEMMA Numbers ==
  ASSUME SpendTypes
  PROVE  /\ IsFiniteSet(Sector!Days) /\ Sector!Days \subseteq Nat
         /\ \A d : DaysFrom(d) \in SUBSET Sector!Days /\ IsFiniteSet(DaysFrom(d))
         /\ \A k : \A d \in Sector!Days :
              OkRows(k)[d] \in Nat /\ Counters(k)[d] \in Nat /\ Spent(d, k) \in Int
         /\ \A d, k : Since(d, k) \in Int
         /\ \A k : Sum(OkRows(k), Sector!Days) \in Int /\ Sum(Counters(k), Sector!Days) \in Int
  <1>1. LastDay \in Nat /\ Sector!Days = 0..LastDay
    BY BoundsAssumption DEF Sector!Days
  <1>2. IsFiniteSet(Sector!Days) /\ Sector!Days \subseteq Nat
    BY <1>1, FS_Interval
  <1>3. \A d : DaysFrom(d) \in SUBSET Sector!Days /\ IsFiniteSet(DaysFrom(d))
    BY <1>2, FS_Subset DEF DaysFrom
  <1>4. ASSUME NEW k, NEW d \in Sector!Days
        PROVE  OkRows(k)[d] \in Nat /\ Counters(k)[d] \in Nat /\ Spent(d, k) \in Int
    <2>1. /\ paid[d] \in Amounts /\ uncounted[d] \in Amounts
          /\ usageLog[d] \in [ok : Amounts, error : Nat]
          /\ counter[d] \in [requests : Nat, tokens : Nat]
      BY DEF SpendTypes
    <2>2. \A a \in Amounts : Of(a, k) \in Nat
      BY DEF Amounts, Of
    <2>3. /\ Of(paid[d], k) \in Nat /\ Of(uncounted[d], k) \in Nat /\ Of(usageLog[d].ok, k) \in Nat
      BY <2>1, <2>2
    <2> QED
      BY <2>1, <2>3 DEF OkRows, Counters, Spent
  <1>5. ASSUME NEW d, NEW k PROVE Since(d, k) \in Int
    <2>1. \A e \in DaysFrom(d) : OkRows(k)[e] \in Int
      BY <1>3, <1>4
    <2> QED
      BY <1>3, <2>1, SumFacts DEF Since
  <1>6. ASSUME NEW k
        PROVE  Sum(OkRows(k), Sector!Days) \in Int /\ Sum(Counters(k), Sector!Days) \in Int
    <2>1. \A e \in Sector!Days : OkRows(k)[e] \in Int /\ Counters(k)[e] \in Int
      BY <1>4
    <2> QED
      BY <1>2, <2>1, SumFacts
  <1> QED
    BY <1>2, <1>3, <1>4, <1>5, <1>6

\* One handler moves: the sets that are counted change by it.
LEMMA CountsShift ==
  ASSUME SectorTypes, NEW c \in Slots, NEW n \in SectorHandler, llm' = [llm EXCEPT ![c] = n]
  PROVE  /\ \A d, k : /\ Cardinality(Recorders(d, k)) \in Nat /\ Cardinality(Recorders(d, k)') \in Nat
                      /\ Cardinality(Recorders(d, k)') = Cardinality(Recorders(d, k))
                            + Num(ToRecord(n, d, k)) - Num(ToRecord(llm[c], d, k))
         /\ \A d : /\ Cardinality(Askers(d)) \in Nat /\ Cardinality(Askers(d)') \in Nat
                   /\ Cardinality(Askers(d)') = Cardinality(Askers(d))
                         + Num(ToAsk(n, d)) - Num(ToAsk(llm[c], d))
         /\ \A k : /\ Cardinality(Countable(k)) \in Nat /\ Cardinality(Countable(k)') \in Nat
                   /\ Cardinality(Countable(k)') = Cardinality(Countable(k))
                         + Num(ToCount(n, k)) - Num(ToCount(llm[c], k))
  <1>1. llm'[c] = n /\ \A x \in Slots \ {c} : llm'[x] = llm[x]
    BY DEF SectorTypes
  <1>2. ASSUME NEW A \in SUBSET Slots, NEW B \in SUBSET Slots, A \ {c} = B \ {c}
        PROVE  /\ Cardinality(A) \in Nat /\ Cardinality(B) \in Nat
               /\ Cardinality(B) = Cardinality(A) + Num(c \in B) - Num(c \in A)
    <2>1. /\ Cardinality(A) \in Nat /\ Cardinality(B) \in Nat
          /\ (c \in A <=> c \in B) => Cardinality(B) = Cardinality(A)
          /\ c \in A /\ c \notin B => Cardinality(A) = Cardinality(B) + 1
          /\ c \notin A /\ c \in B => Cardinality(B) = Cardinality(A) + 1
      BY <1>2, OneMoves
    <2> QED
      BY <2>1 DEF Num
  <1>3. ASSUME NEW d, NEW k
        PROVE  /\ Recorders(d, k) \in SUBSET Slots /\ Recorders(d, k)' \in SUBSET Slots
               /\ Recorders(d, k) \ {c} = Recorders(d, k)' \ {c}
               /\ c \in Recorders(d, k) <=> ToRecord(llm[c], d, k)
               /\ c \in Recorders(d, k)' <=> ToRecord(n, d, k)
    BY <1>1 DEF Recorders, ToRecord
  <1>4. ASSUME NEW d
        PROVE  /\ Askers(d) \in SUBSET Slots /\ Askers(d)' \in SUBSET Slots
               /\ Askers(d) \ {c} = Askers(d)' \ {c}
               /\ c \in Askers(d) <=> ToAsk(llm[c], d)
               /\ c \in Askers(d)' <=> ToAsk(n, d)
    BY <1>1 DEF Askers, ToAsk
  <1>5. ASSUME NEW k
        PROVE  /\ Countable(k) \in SUBSET Slots /\ Countable(k)' \in SUBSET Slots
               /\ Countable(k) \ {c} = Countable(k)' \ {c}
               /\ c \in Countable(k) <=> ToCount(llm[c], k)
               /\ c \in Countable(k)' <=> ToCount(n, k)
    BY <1>1 DEF Countable, ToCount
  <1>6. \A d, k : /\ Cardinality(Recorders(d, k)) \in Nat /\ Cardinality(Recorders(d, k)') \in Nat
                  /\ Cardinality(Recorders(d, k)') = Cardinality(Recorders(d, k))
                        + Num(ToRecord(n, d, k)) - Num(ToRecord(llm[c], d, k))
    BY <1>2, <1>3 DEF Num
  <1>7. \A d : /\ Cardinality(Askers(d)) \in Nat /\ Cardinality(Askers(d)') \in Nat
               /\ Cardinality(Askers(d)') = Cardinality(Askers(d))
                     + Num(ToAsk(n, d)) - Num(ToAsk(llm[c], d))
    BY <1>2, <1>4 DEF Num
  <1>8. \A k : /\ Cardinality(Countable(k)) \in Nat /\ Cardinality(Countable(k)') \in Nat
               /\ Cardinality(Countable(k)') = Cardinality(Countable(k))
                     + Num(ToCount(n, k)) - Num(ToCount(llm[c], k))
    BY <1>2, <1>5 DEF Num
  <1> QED
    BY <1>6, <1>7, <1>8

\* The services add up functions with the library's sum.
LEMMA LibrarySum ==
  ASSUME NEW f, NEW S, IsFiniteSet(S)
  PROVE  Sector!SumFunctionOnSet(f, S) = Sum(f, S)
  <1> DEFINE Body(g) == [s \in SUBSET S |->
                           IF s = {} THEN 0
                           ELSE f[CHOOSE x \in s : TRUE] + g[s \ {CHOOSE x \in s : TRUE}]]
  <1>1. PICK h : h = CHOOSE g : g = Body(g)
    OBVIOUS
  <1>2. \A g : AreSums(g, f, S) <=> g = Body(g)
    BY DEF AreSums, Adds, First
  <1>3. AreSums(h, f, S)
    <2>1. \E g : g = Body(g)
      BY <1>2, SumsExist
    <2>2. h = Body(h)
      BY <1>1, <2>1
    <2> QED
      BY <1>2, <2>2
  <1>4. Sector!SumFunctionOnSet(f, S) = h[S]
    BY <1>1 DEF Sector!SumFunctionOnSet, Sector!FoldFunctionOnSet, Sector!MapThenFoldSet
  <1>5. PICK g : AreSums(g, f, S) /\ Sum(f, S) = g[S]
    BY SumsExist DEF Sum
  <1> QED
    BY <1>3, <1>4, <1>5, SameSums

\* Budget and reconciliation add up the same sums.
LEMMA TotalsAre ==
  ASSUME SpendTypes, NEW d
  PROVE  /\ Sector!Totals(d).n = Since(d, "n") /\ Sector!Totals(d).cost = Since(d, "cost")
         /\ Sector!Counted.n = Sum(Counters("n"), Sector!Days)
         /\ Sector!Counted.cost = Sum(Counters("cost"), Sector!Days)
  <1>1. /\ IsFiniteSet(Sector!Days) /\ IsFiniteSet(DaysFrom(d))
    BY Numbers
  <1>2. /\ [e \in Sector!Days |-> usageLog[e].ok.n] = OkRows("n")
        /\ [e \in Sector!Days |-> usageLog[e].ok.cost] = OkRows("cost")
        /\ [e \in Sector!Days |-> counter[e].requests] = Counters("n")
        /\ [e \in Sector!Days |-> counter[e].tokens] = Counters("cost")
    BY DEF OkRows, Counters, Of
  <1>3. /\ Sector!Totals(d).n = Sector!SumFunctionOnSet(OkRows("n"), DaysFrom(d))
        /\ Sector!Totals(d).cost = Sector!SumFunctionOnSet(OkRows("cost"), DaysFrom(d))
    BY <1>2 DEF Sector!Totals, DaysFrom
  <1>4. /\ Sector!Counted.n = Sector!SumFunctionOnSet(Counters("n"), Sector!Days)
        /\ Sector!Counted.cost = Sector!SumFunctionOnSet(Counters("cost"), Sector!Days)
    BY <1>2 DEF Sector!Counted
  <1> QED
    BY <1>1, <1>3, <1>4, LibrarySum DEF Since

\* The sum of zeros and ones counts the ones.
LEMMA SumCounts ==
  ASSUME NEW S, IsFiniteSet(S), NEW f, \A x \in S : f[x] \in 0..1
  PROVE  Sum(f, S) = Cardinality({x \in S : f[x] = 1})
  <1> DEFINE Ones(s) == {x \in s : f[x] = 1}
             Bad == {s \in SUBSET S : Sum(f, s) # Cardinality(Ones(s))}
  <1> SUFFICES ASSUME S \in Bad PROVE FALSE
    OBVIOUS
  <1>1. \A s \in SUBSET S : IsFiniteSet(s) /\ \A x \in s : f[x] \in Int
    BY FS_Subset
  <1>2. PICK s \in Bad : \A r \in Bad : Cardinality(s) <= Cardinality(r)
    <2>1. \A s \in Bad : IsFiniteSet(s)
      BY <1>1
    <2> HIDE DEF Bad
    <2> QED
      BY <2>1, SmallestSet
  <1>3. s \in SUBSET S /\ IsFiniteSet(s) /\ Sum(f, s) # Cardinality(Ones(s))
    BY <1>1, <1>2
  <1>4. s # {}
    <2> SUFFICES ASSUME s = {} PROVE FALSE
      OBVIOUS
    <2>1. Ones(s) = {} /\ Sum(f, s) = 0
      BY <1>1, <1>3, SumFacts
    <2> QED
      BY <1>3, <2>1, FS_EmptySet
  <1>5. PICK x \in s : TRUE
    BY <1>4
  <1>6. /\ Cardinality(s \ {x}) \in Nat /\ Cardinality(s) = Cardinality(s \ {x}) + 1
    BY <1>3, CountRemove
  <1>7. ~(Cardinality(s) <= Cardinality(s \ {x}))
    BY <1>6
  <1>8. s \ {x} \in SUBSET S /\ s \ {x} \notin Bad
    BY <1>2, <1>3, <1>7
  <1>9. Sum(f, s \ {x}) = Cardinality(Ones(s \ {x}))
    BY <1>8
  <1>10. Sum(f, s) = f[x] + Sum(f, s \ {x}) /\ Sum(f, s \ {x}) \in Int
    BY <1>1, <1>3, SumFacts
  <1>11. IsFiniteSet(Ones(s \ {x})) /\ Ones(s \ {x}) = Ones(s) \ {x} /\ x \notin Ones(s \ {x})
    <2>1. Ones(s \ {x}) \in SUBSET S
      BY <1>3
    <2> QED
      BY <1>1, <2>1
  <1>12. CASE f[x] = 1
    <2>1. Ones(s) = Ones(s \ {x}) \cup {x}
      BY <1>12
    <2>2. Cardinality(Ones(s)) = Cardinality(Ones(s \ {x})) + 1 /\ Cardinality(Ones(s \ {x})) \in Nat
      <3> HIDE DEF Ones
      <3> QED
        BY <1>11, <2>1, CountAdd
    <2> QED
      BY <1>3, <1>9, <1>10, <1>12, <2>2
  <1>13. CASE f[x] # 1
    <2>1. Ones(s) = Ones(s \ {x}) /\ f[x] = 0
      BY <1>3, <1>13
    <2>2. Sum(f, s) = Sum(f, s \ {x})
      BY <1>10, <2>1
    <2> QED
      BY <1>3, <1>9, <2>1, <2>2
  <1> QED
    BY <1>12, <1>13

\* What a step adds to one day's ok rows is added to the sums since that day and
\* earlier ones.
LEMMA LogMoves ==
  ASSUME SpendTypes, SpendTypes', NEW t \in Sector!Days, NEW k,
         \A d \in Sector!Days \ {t} : usageLog'[d].ok = usageLog[d].ok
  PROVE  /\ \A d \in Sector!Days :
              Since(d, k)' = Since(d, k) + (IF d <= t THEN OkRows(k)'[t] - OkRows(k)[t] ELSE 0)
         /\ Sum(OkRows(k)', Sector!Days) = Sum(OkRows(k), Sector!Days) + (OkRows(k)'[t] - OkRows(k)[t])
  <1>1. /\ IsFiniteSet(Sector!Days) /\ Sector!Days \subseteq Nat
        /\ \A d : DaysFrom(d) \in SUBSET Sector!Days /\ IsFiniteSet(DaysFrom(d))
        /\ \A d \in Sector!Days : OkRows(k)[d] \in Int
    BY Numbers
  <1>2. \A d \in Sector!Days \ {t} : OkRows(k)'[d] = OkRows(k)[d]
    BY DEF OkRows, Of, Sector!Days
  <1>3. OkRows(k)'[t] \in Int
    <2>1. usageLog'[t] \in [ok : Amounts, error : Nat]
      BY DEF SpendTypes, Sector!Days
    <2>2. \A a \in Amounts : Of(a, k) \in Nat
      BY DEF Amounts, Of
    <2>3. Of(usageLog'[t].ok, k) \in Int
      BY <2>1, <2>2
    <2>4. OkRows(k)'[t] = Of(usageLog'[t].ok, k)
      BY DEF OkRows, Of, Sector!Days
    <2> QED
      BY <2>3, <2>4
  <1>4. ASSUME NEW d \in Sector!Days
        PROVE  Since(d, k)' = Since(d, k) + (IF d <= t THEN OkRows(k)'[t] - OkRows(k)[t] ELSE 0)
    <2>1. Since(d, k)' = Sum(OkRows(k)', DaysFrom(d)) /\ Since(d, k) = Sum(OkRows(k), DaysFrom(d))
      BY DEF Since, DaysFrom, Sector!Days
    <2>2. t \in DaysFrom(d) <=> d <= t
      BY <1>1 DEF DaysFrom
    <2>3. /\ Sum(OkRows(k), DaysFrom(d)) \in Int /\ Sum(OkRows(k)', DaysFrom(d)) \in Int
          /\ t \in DaysFrom(d) => Sum(OkRows(k)', DaysFrom(d))
                                    = Sum(OkRows(k), DaysFrom(d)) + (OkRows(k)'[t] - OkRows(k)[t])
          /\ t \notin DaysFrom(d) => Sum(OkRows(k)', DaysFrom(d)) = Sum(OkRows(k), DaysFrom(d))
      <3>1. /\ IsFiniteSet(DaysFrom(d)) /\ \A x \in DaysFrom(d) : OkRows(k)[x] \in Int
            /\ \A x \in DaysFrom(d) \ {t} : OkRows(k)'[x] = OkRows(k)[x]
        BY <1>1, <1>2
      <3> QED
        BY <1>3, <3>1, SumMoves
    <2> QED
      BY <2>1, <2>2, <2>3
  <1>5. Sum(OkRows(k)', Sector!Days) = Sum(OkRows(k), Sector!Days) + (OkRows(k)'[t] - OkRows(k)[t])
    <2>1. IsFiniteSet(Sector!Days) /\ \A d \in Sector!Days : OkRows(k)[d] \in Int
      BY <1>1
    <2> QED
      BY <1>2, <1>3, <2>1, SumMoves
  <1> QED
    BY <1>4, <1>5

\* What a step adds to one day's counters is added to their sum.
LEMMA CountersMove ==
  ASSUME SpendTypes, SpendTypes', NEW t \in Sector!Days, NEW k,
         \A d \in Sector!Days \ {t} : counter'[d] = counter[d]
  PROVE  Sum(Counters(k)', Sector!Days)
           = Sum(Counters(k), Sector!Days) + (Counters(k)'[t] - Counters(k)[t])
  <1>1. /\ IsFiniteSet(Sector!Days) /\ \A d \in Sector!Days : Counters(k)[d] \in Int
    BY Numbers
  <1>2. \A d \in Sector!Days \ {t} : Counters(k)'[d] = Counters(k)[d]
    BY DEF Counters, Sector!Days
  <1>3. Counters(k)'[t] \in Int
    <2>1. counter'[t] \in [requests : Nat, tokens : Nat]
      BY DEF SpendTypes, Sector!Days
    <2> QED
      BY <2>1 DEF Counters, Sector!Days
  <1> QED
    BY <1>1, <1>2, <1>3, SumMoves

\* The tables hold numbers, and no handler is of a later day than today.
LEMMA SpendTypesStep ==
  ASSUME SpendTypes, SectorTypes, [Sector!Next]_sectorVars
  PROVE  SpendTypes'
  <1>1. LastDay \in Nat /\ Sector!Days = 0..LastDay
    BY BoundsAssumption DEF Sector!Days
  <1>2. \A c \in Slots : llm[c] \in SectorHandler
    BY DEF SectorTypes
  <1>3. \A a \in Amounts, tokens \in 0..1 : Sector!Plus(a, tokens) \in Amounts
    BY DEF Sector!Plus, Amounts
  <1>4. Sector!Resting.since = 0 /\ 0 \in Sector!Days /\ \A d \in Sector!Days : 0 <= d
    BY <1>1 DEF Sector!Resting
  <1>5. ASSUME NEW c \in Slots, NEW n, llm' = [llm EXCEPT ![c] = n],
               n.since \in Sector!Days, n.since <= today, UNCHANGED today
        PROVE  \A x \in Slots : llm'[x].since \in Sector!Days /\ llm'[x].since <= today'
    BY <1>5 DEF SpendTypes, SectorTypes
  <1>6. ASSUME NEW tokens \in 0..1, Sector!Pay(tokens) PROVE paid' \in [Sector!Days -> Amounts]
    <2>1. paid \in [Sector!Days -> Amounts] /\ today \in Sector!Days
      BY DEF SpendTypes
    <2>2. Sector!Plus(paid[today], tokens) \in Amounts
      BY <1>3, <2>1
    <2>3. paid' = [paid EXCEPT ![today] = Sector!Plus(paid[today], tokens)]
      BY <1>6 DEF Sector!Pay
    <2> QED
      BY <2>1, <2>2, <2>3
  <1>7. ASSUME NEW day \in Sector!Days, NEW tokens \in 0..1, Sector!NotCounted(day, tokens)
        PROVE  uncounted' \in [Sector!Days -> Amounts]
    <2>1. uncounted \in [Sector!Days -> Amounts]
      BY DEF SpendTypes
    <2>2. Sector!Plus(uncounted[day], tokens) \in Amounts
      BY <1>3, <2>1
    <2>3. uncounted' = [uncounted EXCEPT ![day] = Sector!Plus(uncounted[day], tokens)]
      BY <1>7 DEF Sector!NotCounted
    <2> QED
      BY <2>1, <2>2, <2>3
  <1>8. Sector!Days' = Sector!Days
    BY DEF Sector!Days
  <1>9. CASE UNCHANGED sectorVars
    BY <1>9, <1>8 DEF sectorVars, SpendTypes
  <1>10. CASE Sector!Midnight \/ Sector!RemoveTender
    <2>1. /\ UNCHANGED <<llm, usageLog, counter, paid, uncounted>>
          /\ today' = today \/ (today' = today + 1 /\ today < LastDay)
      BY <1>10 DEF Sector!Midnight, Sector!RemoveTender
    <2>2. today' \in Sector!Days /\ today <= today'
      BY <1>1, <2>1 DEF SpendTypes
    <2>3. \A x \in Slots : llm'[x].since \in Sector!Days /\ llm'[x].since <= today'
      BY <1>1, <2>1, <2>2 DEF SpendTypes
    <2> QED
      BY <1>8, <2>1, <2>2, <2>3 DEF SpendTypes
  <1>11. ASSUME NEW c \in Slots, UNCHANGED <<usageLog, counter, paid, uncounted, today>>,
                NEW n, llm' = [llm EXCEPT ![c] = n], n.since = llm[c].since \/ n.since = today \/ n.since = 0
         PROVE  SpendTypes'
    <2>1. n.since \in Sector!Days /\ n.since <= today
      BY <1>1, <1>4, <1>11 DEF SpendTypes
    <2>2. \A x \in Slots : llm'[x].since \in Sector!Days /\ llm'[x].since <= today'
      BY <1>5, <1>11, <2>1
    <2> QED
      BY <1>8, <1>11, <2>2 DEF SpendTypes
  <1>12. ASSUME NEW c \in Slots, NEW force \in BOOLEAN, Sector!Classify(c, force) PROVE SpendTypes'
    <2>1. [Sector!Resting EXCEPT !.pc = "check", !.force = force, !.since = today,
                                 !.write = begun + 1].since = today
      BY DEF Sector!Resting
    <2> QED
      BY <1>11, <1>12, <2>1 DEF Sector!Classify, Sector!Become
  <1>13. ASSUME NEW c \in Slots,
                Sector!AssertCanSpend(c) \/ Sector!Override(c) \/ Sector!Persist(c) \/ Sector!Audit(c)
         PROVE  SpendTypes'
    <2>1. /\ [llm[c] EXCEPT !.pc = "generate"].since = llm[c].since
          /\ [llm[c] EXCEPT !.pc = "audit", !.human = FALSE].since = llm[c].since
          /\ [Sector!Resting EXCEPT !.pc = "persist", !.human = TRUE, !.write = begun + 1].since = 0
      BY <1>2 DEF Sector!Resting, SectorHandler
    <2>2. UNCHANGED <<usageLog, counter, paid, uncounted, today>>
      BY <1>13 DEF Sector!AssertCanSpend, Sector!Override, Sector!Persist, Sector!Audit
    <2>3. \E n : llm' = [llm EXCEPT ![c] = n] /\ (n.since = llm[c].since \/ n.since = 0)
      BY <1>4, <1>13, <2>1 DEF Sector!AssertCanSpend, Sector!Override, Sector!Persist, Sector!Audit,
                               Sector!Become, Sector!Goto, Sector!Throw
    <2> QED
      BY <1>11, <2>2, <2>3
  <1>14. ASSUME NEW c \in Slots, Sector!Generate(c) PROVE SpendTypes'
    <2>1. UNCHANGED <<usageLog, counter, today>>
      BY <1>14 DEF Sector!Generate
    <2>2. paid' \in [Sector!Days -> Amounts] /\ uncounted' \in [Sector!Days -> Amounts]
      BY <1>6, <1>7, <1>14 DEF Sector!Generate, SpendTypes
    <2>3. \E n : llm' = [llm EXCEPT ![c] = n] /\ (n.since = llm[c].since \/ n.since = today)
      <3>1. /\ [llm[c] EXCEPT !.pc = "error"].since = llm[c].since
            /\ \A tokens : [llm[c] EXCEPT !.pc = "record", !.force = FALSE, !.tokens = tokens,
                                          !.since = today].since = today
        BY <1>2 DEF SectorHandler
      <3> QED
        BY <1>14, <3>1 DEF Sector!Generate, Sector!Become, Sector!Goto
    <2>4. \A x \in Slots : llm'[x].since \in Sector!Days /\ llm'[x].since <= today'
      <3>1. PICK n : llm' = [llm EXCEPT ![c] = n] /\ (n.since = llm[c].since \/ n.since = today)
        BY <2>3
      <3>2. n.since \in Sector!Days /\ n.since <= today
        BY <1>1, <3>1 DEF SpendTypes
      <3> QED
        BY <1>5, <2>1, <3>1, <3>2
    <2> QED
      BY <1>8, <2>1, <2>2, <2>4 DEF SpendTypes
  <1>15. ASSUME NEW c \in Slots, Sector!RecordError(c) \/ Sector!RecordOk(c) \/ Sector!Abort(c)
         PROVE  SpendTypes'
    <2>1. UNCHANGED <<counter, paid, today>>
      BY <1>15 DEF Sector!RecordError, Sector!RecordOk, Sector!Abort
    <2>2. llm[c].since \in Sector!Days /\ llm[c].tokens \in 0..1
      BY <1>2 DEF SpendTypes, SectorHandler
    <2>3. uncounted' \in [Sector!Days -> Amounts]
      BY <1>7, <1>15, <2>2 DEF Sector!RecordError, Sector!RecordOk, Sector!Abort, SpendTypes
    <2>4. usageLog' \in [Sector!Days -> [ok : Amounts, error : Nat]]
      <3>1. /\ usageLog \in [Sector!Days -> [ok : Amounts, error : Nat]] /\ today \in Sector!Days
            /\ usageLog[today].ok \in Amounts /\ usageLog[today].error \in Nat
        BY DEF SpendTypes
      <3>2. CASE UNCHANGED usageLog
        BY <3>1, <3>2
      <3>3. CASE usageLog' = [usageLog EXCEPT ![today].error = @ + 1]
        BY <3>1, <3>3
      <3>4. CASE usageLog' = [usageLog EXCEPT ![today].ok = Sector!Plus(@, llm[c].tokens)]
        <4>1. Sector!Plus(usageLog[today].ok, llm[c].tokens) \in Amounts
          BY <1>3, <2>2, <3>1
        <4> QED
          BY <3>1, <3>4, <4>1
      <3> QED
        BY <1>15, <3>2, <3>3, <3>4 DEF Sector!RecordError, Sector!RecordOk, Sector!Abort
    <2>5. \E n : llm' = [llm EXCEPT ![c] = n] /\ n.since = 0
      <3>1. [llm[c] EXCEPT !.pc = "requests", !.since = 0].since = 0
        BY <1>2 DEF SectorHandler
      <3> QED
        BY <1>4, <1>15, <3>1 DEF Sector!RecordError, Sector!RecordOk, Sector!Abort, Sector!Become,
                                 Sector!Throw
    <2>6. \A x \in Slots : llm'[x].since \in Sector!Days /\ llm'[x].since <= today'
      <3>1. PICK n : llm' = [llm EXCEPT ![c] = n] /\ n.since = 0
        BY <2>5
      <3>2. n.since \in Sector!Days /\ n.since <= today
        BY <1>4, <3>1 DEF SpendTypes
      <3> QED
        BY <1>5, <2>1, <3>1, <3>2
    <2> QED
      BY <1>8, <2>1, <2>3, <2>4, <2>6 DEF SpendTypes
  <1>16. ASSUME NEW c \in Slots, Sector!BumpRequests(c) \/ Sector!BumpTokens(c) PROVE SpendTypes'
    <2>1. UNCHANGED <<usageLog, paid, uncounted, today>>
      BY <1>16 DEF Sector!BumpRequests, Sector!BumpTokens
    <2>2. counter' \in [Sector!Days -> [requests : Nat, tokens : Nat]]
      <3>1. /\ counter \in [Sector!Days -> [requests : Nat, tokens : Nat]] /\ today \in Sector!Days
            /\ llm[c].tokens \in Nat
        BY <1>2 DEF SpendTypes, SectorHandler
      <3>2. CASE counter' = [counter EXCEPT ![today].requests = @ + 1]
        BY <3>1, <3>2
      <3>3. CASE counter' = [counter EXCEPT ![today].tokens = @ + llm[c].tokens]
        BY <3>1, <3>3
      <3> QED
        BY <1>16, <3>2, <3>3 DEF Sector!BumpRequests, Sector!BumpTokens
    <2>3. \E n : llm' = [llm EXCEPT ![c] = n] /\ n.since = llm[c].since
      <3>1. /\ \A pc : [llm[c] EXCEPT !.pc = pc].since = llm[c].since
            /\ [llm[c] EXCEPT !.pc = "persist", !.tokens = 0].since = llm[c].since
        BY <1>2 DEF SectorHandler
      <3> QED
        BY <1>16, <3>1 DEF Sector!BumpRequests, Sector!BumpTokens, Sector!Goto, Sector!Become
    <2>4. \A x \in Slots : llm'[x].since \in Sector!Days /\ llm'[x].since <= today'
      <3>1. PICK n : llm' = [llm EXCEPT ![c] = n] /\ n.since = llm[c].since
        BY <2>3
      <3>2. n.since \in Sector!Days /\ n.since <= today
        BY <3>1 DEF SpendTypes
      <3> QED
        BY <1>5, <2>1, <3>1, <3>2
    <2> QED
      BY <1>8, <2>1, <2>2, <2>4 DEF SpendTypes
  <1> QED
    BY <1>9, <1>10, <1>12, <1>13, <1>14, <1>15, <1>16 DEF Sector!Next

\* What an answer is worth is added to an amount.
LEMMA PlusOf ==
  ASSUME NEW a \in Amounts, NEW tokens \in 0..1, NEW k \in Kinds
  PROVE  /\ Of(Sector!Plus(a, tokens), k) = Of(a, k) + Worth(k, tokens)
         /\ Of(a, k) \in Nat /\ Worth(k, tokens) \in 0..1
  BY DEF Sector!Plus, Of, Worth, Amounts, Kinds

\* An amount of one day grows by what the answer is worth.
LEMMA DayMoves ==
  ASSUME NEW f \in [Sector!Days -> Amounts], NEW g, NEW t \in Sector!Days, NEW tokens \in 0..1,
         g = [f EXCEPT ![t] = Sector!Plus(@, tokens)], NEW k \in Kinds, NEW d \in Sector!Days
  PROVE  /\ Of(g[d], k) = Of(f[d], k) + (IF d = t THEN Worth(k, tokens) ELSE 0)
         /\ Of(f[d], k) \in Nat /\ Worth(k, tokens) \in 0..1
  <1>1. g[d] = IF d = t THEN Sector!Plus(f[t], tokens) ELSE f[d]
    OBVIOUS
  <1>2. f[d] \in Amounts
    OBVIOUS
  <1>3. /\ Of(Sector!Plus(f[d], tokens), k) = Of(f[d], k) + Worth(k, tokens)
        /\ Of(f[d], k) \in Nat /\ Worth(k, tokens) \in 0..1
    BY <1>2, PlusOf
  <1> QED
    BY <1>1, <1>3

\* A row of the log adds what the answer is worth to its day.
LEMMA RowMoves ==
  ASSUME SpendTypes, NEW t \in Sector!Days, NEW tokens \in 0..1, NEW k \in Kinds,
         usageLog' = [usageLog EXCEPT ![t].ok = Sector!Plus(@, tokens)]
  PROVE  /\ Worth(k, tokens) \in 0..1
         /\ \A d \in Sector!Days \ {t} : usageLog'[d].ok = usageLog[d].ok
         /\ OkRows(k)'[t] - OkRows(k)[t] = Worth(k, tokens)
  <1>1. usageLog \in [Sector!Days -> [ok : Amounts, error : Nat]] /\ usageLog[t].ok \in Amounts
    BY DEF SpendTypes
  <1>2. /\ \A d \in Sector!Days \ {t} : usageLog'[d].ok = usageLog[d].ok
        /\ usageLog'[t].ok = Sector!Plus(usageLog[t].ok, tokens)
    BY <1>1
  <1>3. OkRows(k)'[t] = Of(usageLog'[t].ok, k) /\ OkRows(k)[t] = Of(usageLog[t].ok, k)
    BY DEF OkRows, Of, Sector!Days
  <1>4. /\ Of(Sector!Plus(usageLog[t].ok, tokens), k) = Of(usageLog[t].ok, k) + Worth(k, tokens)
        /\ Of(usageLog[t].ok, k) \in Nat /\ Worth(k, tokens) \in 0..1
    BY <1>1, PlusOf
  <1> QED
    BY <1>2, <1>3, <1>4

\* Also after a step.
LEMMA NumbersThen ==
  (SpendTypes =>
     /\ \A d \in Sector!Days : \A k : Spent(d, k) \in Int /\ Since(d, k) \in Int
     /\ \A k : Sum(OkRows(k), Sector!Days) \in Int /\ Sum(Counters(k), Sector!Days) \in Int)'
  <1>1. SpendTypes =>
          /\ \A d \in Sector!Days : \A k : Spent(d, k) \in Int /\ Since(d, k) \in Int
          /\ \A k : Sum(OkRows(k), Sector!Days) \in Int /\ Sum(Counters(k), Sector!Days) \in Int
    BY Numbers
  <1> QED
    BY <1>1, PTL

\* A handler moves and spends, records or gives up no more than it was counted for.
LEMMA SpendMove ==
  ASSUME SpendInv, SectorTypes, SpendTypes', NEW c \in Slots, NEW n \in SectorHandler,
         llm' = [llm EXCEPT ![c] = n],
         \A d \in Sector!Days, k \in Kinds :
           /\ (Spent(d, k)' - Spent(d, k)) + Num(ToRecord(llm[c], d, k))
                <= Num(ToRecord(n, d, k)) + (Since(d, k)' - Since(d, k))
           /\ (Spent(d, k)' - Spent(d, k)) + Num(ToAsk(n, d)) <= Num(ToAsk(llm[c], d))
  PROVE  SpendInv'
  <1>1. /\ \A d, k : /\ Cardinality(Recorders(d, k)) \in Nat /\ Cardinality(Recorders(d, k)') \in Nat
                     /\ Cardinality(Recorders(d, k)') = Cardinality(Recorders(d, k))
                           + Num(ToRecord(n, d, k)) - Num(ToRecord(llm[c], d, k))
        /\ \A d : /\ Cardinality(Askers(d)) \in Nat /\ Cardinality(Askers(d)') \in Nat
                  /\ Cardinality(Askers(d)') = Cardinality(Askers(d))
                        + Num(ToAsk(n, d)) - Num(ToAsk(llm[c], d))
    BY CountsShift
  <1>2. Sector!Days' = Sector!Days
    BY DEF Sector!Days
  <1>3. ASSUME NEW d \in Sector!Days, NEW k \in Kinds PROVE DayInv(d, k)'
    <2>1. /\ Spent(d, k) \in Int /\ Spent(d, k)' \in Int /\ Since(d, k) \in Int /\ Since(d, k)' \in Int
      <3>1. Spent(d, k) \in Int /\ Since(d, k) \in Int
        BY Numbers DEF SpendInv
      <3>2. Spent(d, k)' \in Int /\ Since(d, k)' \in Int
        BY <1>2, NumbersThen
      <3> QED
        BY <3>1, <3>2
    <2>2. /\ Num(ToRecord(n, d, k)) \in Int /\ Num(ToRecord(llm[c], d, k)) \in Int
          /\ Num(ToAsk(n, d)) \in Int /\ Num(ToAsk(llm[c], d)) \in Int
      BY DEF Num
    <2>3. /\ Spent(d, k) - Cardinality(Recorders(d, k)) <= Since(d, k)
          /\ Spent(d, k) + Cardinality(Askers(d)) <= Cap(k) - 1 + Cardinality(Slots)
      BY DEF SpendInv, DayInv
    <2>4. /\ Cap(k) \in Int /\ Cardinality(Slots) \in Int
      BY ServicesAssumption, CountWithin DEF Cap
    <2>5. Spent(d, k)' - Cardinality(Recorders(d, k)') <= Since(d, k)'
      BY <1>1, <2>1, <2>2, <2>3
    <2>6. Spent(d, k)' + Cardinality(Askers(d)') <= Cap(k) - 1 + Cardinality(Slots)
      BY <1>1, <2>1, <2>2, <2>3, <2>4
    <2> QED
      BY <2>5, <2>6 DEF DayInv, Cap
  <1> QED
    BY <1>2, <1>3 DEF SpendInv

\* A handler moves: the log, the counters and what is between them change alike,
\* or by one at the price of a fault.
LEMMA UsageMove ==
  ASSUME UsageInv, SpendTypes, SpendTypes', SectorTypes, NEW c \in Slots, NEW n \in SectorHandler,
         llm' = [llm EXCEPT ![c] = n], NEW dF \in 0..1, llmFaults' = llmFaults + dF,
         \A k \in Kinds :
           (Sum(OkRows(k)', Sector!Days) - Sum(OkRows(k), Sector!Days))
             - (Sum(Counters(k)', Sector!Days) - Sum(Counters(k), Sector!Days))
             - (Num(ToCount(n, k)) - Num(ToCount(llm[c], k))) \in -dF..dF
  PROVE  UsageInv'
  <1>1. ASSUME NEW k \in Kinds PROVE Gap(k)' \in -llmFaults'..llmFaults'
    <2>1. /\ Cardinality(Countable(k)) \in Nat /\ Cardinality(Countable(k)') \in Nat
          /\ Cardinality(Countable(k)') = Cardinality(Countable(k))
                + Num(ToCount(n, k)) - Num(ToCount(llm[c], k))
      BY CountsShift
    <2>2. /\ Sum(OkRows(k), Sector!Days) \in Int /\ Sum(Counters(k), Sector!Days) \in Int
      BY Numbers
    <2>3. /\ Sum(OkRows(k)', Sector!Days) \in Int /\ Sum(Counters(k)', Sector!Days) \in Int
      BY NumbersThen DEF Sector!Days
    <2>4. Gap(k) \in -llmFaults..llmFaults /\ llmFaults \in Nat
      BY DEF UsageInv, SectorTypes
    <2>5. Gap(k)' = Sum(OkRows(k)', Sector!Days) - Sum(Counters(k)', Sector!Days)
                      - Cardinality(Countable(k)')
      BY DEF Gap, Sector!Days
    <2>6. /\ Num(ToCount(n, k)) \in Int /\ Num(ToCount(llm[c], k)) \in Int
      BY DEF Num
    <2> HIDE DEF Num
    <2> QED
      BY <2>1, <2>2, <2>3, <2>4, <2>5, <2>6 DEF Gap
  <1> QED
    BY <1>1 DEF UsageInv

\* Both together.
BudgetInv == SectorTypes /\ SpendInv /\ UsageInv

\* Tables that stay keep their sums.
LEMMA SumsStay ==
  ASSUME SpendTypes, SpendTypes'
  PROVE  /\ (\A d \in Sector!Days : usageLog'[d].ok = usageLog[d].ok) =>
              \A k : /\ \A d \in Sector!Days : Since(d, k)' - Since(d, k) = 0
                     /\ Sum(OkRows(k)', Sector!Days) - Sum(OkRows(k), Sector!Days) = 0
         /\ UNCHANGED counter =>
              \A k : Sum(Counters(k)', Sector!Days) - Sum(Counters(k), Sector!Days) = 0
         /\ UNCHANGED <<paid, uncounted>> =>
              \A k : \A d \in Sector!Days : Spent(d, k)' - Spent(d, k) = 0
  <1>1. ASSUME \A d \in Sector!Days : usageLog'[d].ok = usageLog[d].ok, NEW k
        PROVE  /\ \A d \in Sector!Days : Since(d, k)' - Since(d, k) = 0
               /\ Sum(OkRows(k)', Sector!Days) - Sum(OkRows(k), Sector!Days) = 0
    <2>1. OkRows(k)' = OkRows(k)
      BY <1>1 DEF OkRows, Of, Sector!Days
    <2>2. \A d : Since(d, k)' = Since(d, k)
      BY <2>1 DEF Since, DaysFrom, Sector!Days
    <2> QED
      BY <2>1, <2>2, Numbers
  <1>2. ASSUME UNCHANGED counter, NEW k
        PROVE  Sum(Counters(k)', Sector!Days) - Sum(Counters(k), Sector!Days) = 0
    <2>1. Counters(k)' = Counters(k)
      BY <1>2 DEF Counters, Sector!Days
    <2> QED
      BY <2>1, Numbers
  <1>3. ASSUME UNCHANGED <<paid, uncounted>>, NEW k, NEW d \in Sector!Days
        PROVE  Spent(d, k)' - Spent(d, k) = 0
    <2>1. Spent(d, k)' = Spent(d, k)
      BY <1>3 DEF Spent, Of
    <2> QED
      BY <2>1, Numbers
  <1> QED
    BY <1>1, <1>2, <1>3

\* A handler that is not between two writes moves, or is lost to a fault.
LEMMA BudgetQuiet ==
  ASSUME BudgetInv, SpendTypes', NEW c \in Slots, NEW n \in SectorHandler,
         llm' = [llm EXCEPT ![c] = n],
         UNCHANGED <<counter, paid, uncounted>>,
         \A d \in Sector!Days : usageLog'[d].ok = usageLog[d].ok,
         n.pc \notin {"generate", "record", "requests", "tokens"}, llm[c].pc # "record",
         NEW dF \in 0..1, llmFaults' = llmFaults + dF,
         llm[c].pc \in {"requests", "tokens"} => dF = 1
  PROVE  SpendInv' /\ UsageInv'
  <1>1. SpendInv /\ UsageInv /\ SpendTypes /\ SectorTypes
    BY DEF BudgetInv, SpendInv
  <1>2. /\ \A k : /\ \A d \in Sector!Days : Since(d, k)' - Since(d, k) = 0
                  /\ Sum(OkRows(k)', Sector!Days) - Sum(OkRows(k), Sector!Days) = 0
        /\ \A k : Sum(Counters(k)', Sector!Days) - Sum(Counters(k), Sector!Days) = 0
        /\ \A k : \A d \in Sector!Days : Spent(d, k)' - Spent(d, k) = 0
    BY <1>1, SumsStay
  <1>3. \A d \in Sector!Days, k \in Kinds :
          /\ Num(ToRecord(n, d, k)) = 0 /\ Num(ToRecord(llm[c], d, k)) = 0
          /\ Num(ToAsk(n, d)) = 0 /\ Num(ToAsk(llm[c], d)) \in 0..1
          /\ Num(ToCount(n, k)) = 0 /\ Num(ToCount(llm[c], k)) \in 0..dF
    BY DEF Num, ToRecord, ToAsk, ToCount
  <1>4. SpendInv'
    <2>1. \A d \in Sector!Days, k \in Kinds :
            /\ (Spent(d, k)' - Spent(d, k)) + Num(ToRecord(llm[c], d, k))
                 <= Num(ToRecord(n, d, k)) + (Since(d, k)' - Since(d, k))
            /\ (Spent(d, k)' - Spent(d, k)) + Num(ToAsk(n, d)) <= Num(ToAsk(llm[c], d))
      BY <1>2, <1>3
    <2> QED
      BY <1>1, <2>1, SpendMove
  <1>5. \A k \in Kinds :
          (Sum(OkRows(k)', Sector!Days) - Sum(OkRows(k), Sector!Days))
            - (Sum(Counters(k)', Sector!Days) - Sum(Counters(k), Sector!Days))
            - (Num(ToCount(n, k)) - Num(ToCount(llm[c], k))) \in -dF..dF
    <2>1. \A k \in Kinds : Num(ToCount(n, k)) = 0 /\ Num(ToCount(llm[c], k)) \in 0..dF
      <3>1. today \in Sector!Days
        BY <1>1 DEF SpendTypes
      <3> QED
        BY <1>3, <3>1
    <2> QED
      BY <1>2, <2>1
  <1>6. UsageInv'
    BY <1>1, <1>5, UsageMove
  <1> QED
    BY <1>4, <1>6

\* A call that passes the budget's check has room under the cap: the log of its
\* day and later ones is below it, and who is not in the log is in a slot.
LEMMA BudgetPasses ==
  ASSUME BudgetInv, SpendTypes', NEW c \in Slots, NEW n \in SectorHandler,
         llm' = [llm EXCEPT ![c] = n], UNCHANGED <<usageLog, counter, paid, uncounted, llmFaults>>,
         llm[c].pc = "check", n.pc = "generate", n.since = llm[c].since,
         Sector!CanSpend(llm[c].since)
  PROVE  SpendInv' /\ UsageInv'
  <1>1. SpendInv /\ UsageInv /\ SpendTypes /\ SectorTypes /\ llmFaults \in Nat
    BY DEF BudgetInv, SpendInv, SectorTypes
  <1>2. /\ \A k : /\ \A d \in Sector!Days : Since(d, k)' - Since(d, k) = 0
                  /\ Sum(OkRows(k)', Sector!Days) - Sum(OkRows(k), Sector!Days) = 0
        /\ \A k : Sum(Counters(k)', Sector!Days) - Sum(Counters(k), Sector!Days) = 0
        /\ \A k : \A d \in Sector!Days : Spent(d, k)' - Spent(d, k) = 0
    BY <1>1, SumsStay
  <1>3. UsageInv'
    <2>1. \A k \in Kinds : Num(ToCount(n, k)) = 0 /\ Num(ToCount(llm[c], k)) = 0
      BY DEF Num, ToCount
    <2>2. PICK dF \in 0..1 : dF = 0 /\ llmFaults' = llmFaults + dF
      BY <1>1
    <2>3. \A k \in Kinds :
            (Sum(OkRows(k)', Sector!Days) - Sum(OkRows(k), Sector!Days))
              - (Sum(Counters(k)', Sector!Days) - Sum(Counters(k), Sector!Days))
              - (Num(ToCount(n, k)) - Num(ToCount(llm[c], k))) \in -dF..dF
      BY <1>2, <2>1, <2>2
    <2> QED
      BY <1>1, <2>2, <2>3, UsageMove
  <1>4. Sector!Days' = Sector!Days
    BY DEF Sector!Days
  <1>5. ASSUME NEW d \in Sector!Days, NEW k \in Kinds PROVE DayInv(d, k)'
    <2>1. /\ Spent(d, k) \in Int /\ Since(d, k) \in Int
          /\ Spent(d, k)' = Spent(d, k) /\ Since(d, k)' = Since(d, k)
      <3>1. Spent(d, k) \in Int /\ Since(d, k) \in Int
        BY <1>1, Numbers
      <3>2. Spent(d, k)' \in Int /\ Since(d, k)' \in Int
        BY <1>4, NumbersThen
      <3> QED
        BY <1>2, <3>1, <3>2
    <2>2. /\ Spent(d, k) - Cardinality(Recorders(d, k)) <= Since(d, k)
          /\ Spent(d, k) + Cardinality(Askers(d)) <= Cap(k) - 1 + Cardinality(Slots)
      BY <1>1 DEF SpendInv, DayInv
    <2>3. /\ Cardinality(Recorders(d, k)) \in Nat /\ Cardinality(Recorders(d, k)') \in Nat
          /\ Cardinality(Askers(d)) \in Nat /\ Cardinality(Askers(d)') \in Nat
          /\ Cardinality(Recorders(d, k)') = Cardinality(Recorders(d, k))
                + Num(ToRecord(n, d, k)) - Num(ToRecord(llm[c], d, k))
          /\ Cardinality(Askers(d)') = Cardinality(Askers(d))
                + Num(ToAsk(n, d)) - Num(ToAsk(llm[c], d))
      BY <1>1, CountsShift
    <2>4. /\ Num(ToRecord(n, d, k)) = 0 /\ Num(ToRecord(llm[c], d, k)) = 0
          /\ Num(ToAsk(llm[c], d)) = 0 /\ Num(ToAsk(n, d)) = Num(llm[c].since <= d)
      BY DEF Num, ToRecord, ToAsk
    <2>5. Cardinality(Recorders(d, k)') = Cardinality(Recorders(d, k))
      BY <2>3, <2>4
    <2>6. Cap(k) \in Int /\ Cardinality(Slots) \in Int
      BY ServicesAssumption, CountWithin DEF Cap
    <2>7. Spent(d, k)' + Cardinality(Askers(d)') <= Cap(k) - 1 + Cardinality(Slots)
      <3>1. CASE ~(llm[c].since <= d)
        <4>1. Cardinality(Askers(d)') = Cardinality(Askers(d))
          BY <2>3, <2>4, <3>1 DEF Num
        <4> QED
          BY <2>1, <2>2, <4>1
      <3>2. CASE llm[c].since <= d
        <4>1. Since(llm[c].since, k) < Cap(k)
          <5>1. /\ Sector!Totals(llm[c].since).n = Since(llm[c].since, "n")
                /\ Sector!Totals(llm[c].since).cost = Since(llm[c].since, "cost")
            BY <1>1, TotalsAre
          <5> QED
            BY <5>1 DEF Sector!CanSpend, Cap, Kinds
        <4>2. Since(d, k) <= Since(llm[c].since, k)
          <5>1. /\ DaysFrom(llm[c].since) \in SUBSET Sector!Days /\ IsFiniteSet(DaysFrom(llm[c].since))
                /\ Sector!Days \subseteq Nat
                /\ \A e \in Sector!Days : OkRows(k)[e] \in Nat
            BY <1>1, Numbers
          <5>2. llm[c].since \in Nat /\ d \in Nat
            BY <1>1, <5>1 DEF SpendTypes
          <5>3. DaysFrom(d) \in SUBSET DaysFrom(llm[c].since)
            <6>1. \A e \in Sector!Days : e >= d => e >= llm[c].since
              BY <3>2, <5>1, <5>2
            <6> QED
              BY <6>1 DEF DaysFrom
          <5>4. \A e \in DaysFrom(llm[c].since) : OkRows(k)[e] \in Nat
            BY <5>1
          <5> QED
            BY <5>1, <5>3, <5>4, SumGrows DEF Since
        <4>3. Cardinality(Askers(d)') + Cardinality(Recorders(d, k)') <= Cardinality(Slots)
          <5>1. /\ Askers(d)' \in SUBSET Slots /\ Recorders(d, k)' \in SUBSET Slots
                /\ Askers(d)' \cap Recorders(d, k)' = {}
            BY DEF Askers, Recorders, ToAsk, ToRecord
          <5> QED
            BY <5>1, TwoKindsFit
        <4>4. Since(llm[c].since, k) \in Int
          BY <1>1, Numbers
        <4> QED
          BY <2>1, <2>2, <2>3, <2>5, <2>6, <4>1, <4>2, <4>3, <4>4
      <3> QED
        BY <3>1, <3>2
    <2>8. Spent(d, k)' - Cardinality(Recorders(d, k)') <= Since(d, k)'
      BY <2>1, <2>2, <2>5
    <2> QED
      BY <2>7, <2>8 DEF DayInv, Cap
  <1> QED
    BY <1>3, <1>4, <1>5 DEF SpendInv

\* The provider is asked and paid, whether its answer can be used or not.
LEMMA BudgetSpends ==
  ASSUME BudgetInv, SpendTypes', NEW c \in Slots, NEW n \in SectorHandler,
         llm' = [llm EXCEPT ![c] = n], UNCHANGED <<usageLog, counter>>, llm[c].pc = "generate",
         NEW tokens \in 0..1, paid' = [paid EXCEPT ![today] = Sector!Plus(@, tokens)],
         NEW dF \in 0..1, llmFaults' = llmFaults + dF,
         \/ n.pc = "record" /\ n.tokens = tokens /\ n.since = today /\ UNCHANGED uncounted
         \/ /\ n.pc = "error"
            /\ uncounted' = [uncounted EXCEPT ![today] = Sector!Plus(@, tokens)]
  PROVE  SpendInv' /\ UsageInv'
  <1>1. SpendInv /\ UsageInv /\ SpendTypes /\ SectorTypes /\ today \in Sector!Days
    BY DEF BudgetInv, SpendInv, SpendTypes
  <1>2. /\ \A k : /\ \A d \in Sector!Days : Since(d, k)' - Since(d, k) = 0
                  /\ Sum(OkRows(k)', Sector!Days) - Sum(OkRows(k), Sector!Days) = 0
        /\ \A k : Sum(Counters(k)', Sector!Days) - Sum(Counters(k), Sector!Days) = 0
    BY <1>1, SumsStay
  <1>3. UsageInv'
    <2>1. \A k \in Kinds : Num(ToCount(n, k)) = 0 /\ Num(ToCount(llm[c], k)) = 0
      BY DEF Num, ToCount
    <2>2. \A k \in Kinds :
            (Sum(OkRows(k)', Sector!Days) - Sum(OkRows(k), Sector!Days))
              - (Sum(Counters(k)', Sector!Days) - Sum(Counters(k), Sector!Days))
              - (Num(ToCount(n, k)) - Num(ToCount(llm[c], k))) \in -dF..dF
      BY <1>2, <2>1
    <2> QED
      BY <1>1, <2>2, UsageMove
  <1>4. ASSUME NEW d \in Sector!Days, NEW k \in Kinds
        PROVE  /\ (Spent(d, k)' - Spent(d, k)) + Num(ToRecord(llm[c], d, k))
                    <= Num(ToRecord(n, d, k)) + (Since(d, k)' - Since(d, k))
               /\ (Spent(d, k)' - Spent(d, k)) + Num(ToAsk(n, d)) <= Num(ToAsk(llm[c], d))
    <2>1. /\ Worth(k, tokens) \in 0..1
          /\ Of(paid'[d], k) = Of(paid[d], k) + (IF d = today THEN Worth(k, tokens) ELSE 0)
          /\ uncounted' = [uncounted EXCEPT ![today] = Sector!Plus(@, tokens)] =>
               Of(uncounted'[d], k) = Of(uncounted[d], k) + (IF d = today THEN Worth(k, tokens) ELSE 0)
      <3>1. paid \in [Sector!Days -> Amounts] /\ uncounted \in [Sector!Days -> Amounts]
        BY <1>1 DEF SpendTypes
      <3>2. PICK g : g = paid' /\ g = [paid EXCEPT ![today] = Sector!Plus(@, tokens)]
        OBVIOUS
      <3>3. /\ Of(g[d], k) = Of(paid[d], k) + (IF d = today THEN Worth(k, tokens) ELSE 0)
            /\ Worth(k, tokens) \in 0..1
        BY <1>1, <3>1, <3>2, DayMoves
      <3>4. ASSUME uncounted' = [uncounted EXCEPT ![today] = Sector!Plus(@, tokens)]
            PROVE  Of(uncounted'[d], k)
                     = Of(uncounted[d], k) + (IF d = today THEN Worth(k, tokens) ELSE 0)
        BY <1>1, <3>1, <3>4, DayMoves
      <3> QED
        BY <3>2, <3>3, <3>4
    <2>2. Of(paid[d], k) \in Nat /\ Of(uncounted[d], k) \in Nat
      <3>1. paid[d] \in Amounts /\ uncounted[d] \in Amounts
        BY <1>1 DEF SpendTypes
      <3> QED
        BY <3>1 DEF Of, Amounts
    <2>3. Spent(d, k)' = Of(paid'[d], k) - Of(uncounted'[d], k)
      BY DEF Spent, Of
    <2>4. Since(d, k)' - Since(d, k) = 0 /\ Num(ToRecord(llm[c], d, k)) = 0
      BY <1>2 DEF Num, ToRecord
    <2>5. /\ Num(ToAsk(n, d)) = 0 /\ (d = today => Num(ToAsk(llm[c], d)) = 1)
          /\ Num(ToAsk(llm[c], d)) \in 0..1
      BY <1>1 DEF Num, ToAsk, SpendTypes
    <2>6. CASE n.pc = "record"
      <3>1. Spent(d, k)' - Spent(d, k) = IF d = today THEN Worth(k, tokens) ELSE 0
        BY <2>1, <2>2, <2>3, <2>6 DEF Spent
      <3>2. Num(ToRecord(n, d, k)) = IF d = today THEN Worth(k, tokens) ELSE 0
        BY <2>1, <2>6 DEF Num, ToRecord
      <3> QED
        BY <2>1, <2>4, <2>5, <3>1, <3>2
    <2>7. CASE n.pc = "error"
      <3>1. Spent(d, k)' - Spent(d, k) = 0
        BY <2>1, <2>2, <2>3, <2>7 DEF Spent
      <3>2. Num(ToRecord(n, d, k)) = 0
        BY <2>7 DEF Num, ToRecord
      <3> QED
        BY <2>4, <2>5, <3>1, <3>2
    <2> QED
      BY <2>6, <2>7
  <1>5. SpendInv'
    BY <1>1, <1>4, SpendMove
  <1> QED
    BY <1>3, <1>5

\* An answer is recorded, today, whenever it was given.
LEMMA BudgetRecords ==
  ASSUME BudgetInv, SpendTypes', NEW c \in Slots, NEW n \in SectorHandler,
         llm' = [llm EXCEPT ![c] = n], UNCHANGED <<counter, paid, uncounted, llmFaults>>,
         llm[c].pc = "record", n.pc = "requests", n.tokens = llm[c].tokens,
         usageLog' = [usageLog EXCEPT ![today].ok = Sector!Plus(@, llm[c].tokens)]
  PROVE  SpendInv' /\ UsageInv'
  <1>1. /\ SpendInv /\ UsageInv /\ SpendTypes /\ SectorTypes /\ today \in Sector!Days
        /\ llm[c].tokens \in 0..1 /\ llmFaults \in Nat
        /\ llm[c].since \in Sector!Days /\ llm[c].since <= today
    BY DEF BudgetInv, SpendInv, SpendTypes, SectorTypes, SectorHandler
  <1>2. /\ \A k : Sum(Counters(k)', Sector!Days) - Sum(Counters(k), Sector!Days) = 0
        /\ \A k : \A d \in Sector!Days : Spent(d, k)' - Spent(d, k) = 0
    BY <1>1, SumsStay
  <1>3. ASSUME NEW k \in Kinds
        PROVE  /\ Worth(k, llm[c].tokens) \in 0..1
               /\ \A d \in Sector!Days :
                    Since(d, k)' - Since(d, k) = IF d <= today THEN Worth(k, llm[c].tokens) ELSE 0
               /\ Sum(OkRows(k)', Sector!Days) - Sum(OkRows(k), Sector!Days) = Worth(k, llm[c].tokens)
    <2>1. /\ Worth(k, llm[c].tokens) \in 0..1
          /\ \A d \in Sector!Days \ {today} : usageLog'[d].ok = usageLog[d].ok
          /\ OkRows(k)'[today] - OkRows(k)[today] = Worth(k, llm[c].tokens)
      BY <1>1, RowMoves
    <2>2. /\ \A d \in Sector!Days :
               Since(d, k)' = Since(d, k)
                                + (IF d <= today THEN OkRows(k)'[today] - OkRows(k)[today] ELSE 0)
          /\ Sum(OkRows(k)', Sector!Days)
               = Sum(OkRows(k), Sector!Days) + (OkRows(k)'[today] - OkRows(k)[today])
      BY <1>1, <2>1, LogMoves
    <2>3. /\ \A d : Since(d, k) \in Int
          /\ Sum(OkRows(k), Sector!Days) \in Int
      BY <1>1, Numbers
    <2> QED
      BY <2>1, <2>2, <2>3
  <1>4. ASSUME NEW d \in Sector!Days, NEW k \in Kinds
        PROVE  /\ (Spent(d, k)' - Spent(d, k)) + Num(ToRecord(llm[c], d, k))
                    <= Num(ToRecord(n, d, k)) + (Since(d, k)' - Since(d, k))
               /\ (Spent(d, k)' - Spent(d, k)) + Num(ToAsk(n, d)) <= Num(ToAsk(llm[c], d))
    <2>1. /\ Num(ToRecord(n, d, k)) = 0 /\ Num(ToAsk(n, d)) = 0 /\ Num(ToAsk(llm[c], d)) = 0
          /\ Num(ToRecord(llm[c], d, k)) \in 0..1
          /\ Num(ToRecord(llm[c], d, k)) = 1 => d <= today /\ Worth(k, llm[c].tokens) = 1
      BY <1>1 DEF Num, ToRecord, ToAsk
    <2> QED
      BY <1>2, <1>3, <2>1
  <1>5. SpendInv'
    BY <1>1, <1>4, SpendMove
  <1>6. UsageInv'
    <2>1. PICK dF \in 0..1 : dF = 0 /\ llmFaults' = llmFaults + dF
      BY <1>1
    <2>2. \A k \in Kinds : Num(ToCount(n, k)) = Worth(k, llm[c].tokens) /\ Num(ToCount(llm[c], k)) = 0
      BY <1>1 DEF Num, ToCount, Worth, Kinds
    <2>3. \A k \in Kinds :
            (Sum(OkRows(k)', Sector!Days) - Sum(OkRows(k), Sector!Days))
              - (Sum(Counters(k)', Sector!Days) - Sum(Counters(k), Sector!Days))
              - (Num(ToCount(n, k)) - Num(ToCount(llm[c], k))) \in -dF..dF
      BY <1>2, <1>3, <2>1, <2>2
    <2> QED
      BY <1>1, <2>1, <2>3, UsageMove
  <1> QED
    BY <1>5, <1>6

\* An answer is lost before it is recorded: it is not counted on the day it was
\* paid for, at the price of a fault.
LEMMA BudgetLoses ==
  ASSUME BudgetInv, SpendTypes', NEW c \in Slots, NEW n \in SectorHandler,
         llm' = [llm EXCEPT ![c] = n], UNCHANGED <<usageLog, counter, paid>>,
         llm[c].pc = "record", n.pc \in {"requests", "idle"}, llmFaults' = llmFaults + 1,
         uncounted' = [uncounted EXCEPT ![llm[c].since] = Sector!Plus(@, llm[c].tokens)]
  PROVE  SpendInv' /\ UsageInv'
  <1>1. /\ SpendInv /\ UsageInv /\ SpendTypes /\ SectorTypes
        /\ llm[c].tokens \in 0..1 /\ llm[c].since \in Sector!Days
        /\ paid \in [Sector!Days -> Amounts] /\ uncounted \in [Sector!Days -> Amounts]
    BY DEF BudgetInv, SpendInv, SpendTypes, SectorTypes, SectorHandler
  <1>2. /\ \A k : /\ \A d \in Sector!Days : Since(d, k)' - Since(d, k) = 0
                  /\ Sum(OkRows(k)', Sector!Days) - Sum(OkRows(k), Sector!Days) = 0
        /\ \A k : Sum(Counters(k)', Sector!Days) - Sum(Counters(k), Sector!Days) = 0
    BY <1>1, SumsStay
  <1>3. ASSUME NEW d \in Sector!Days, NEW k \in Kinds
        PROVE  /\ (Spent(d, k)' - Spent(d, k)) + Num(ToRecord(llm[c], d, k))
                    <= Num(ToRecord(n, d, k)) + (Since(d, k)' - Since(d, k))
               /\ (Spent(d, k)' - Spent(d, k)) + Num(ToAsk(n, d)) <= Num(ToAsk(llm[c], d))
    <2>1. PICK g : g = uncounted'
                   /\ g = [uncounted EXCEPT ![llm[c].since] = Sector!Plus(@, llm[c].tokens)]
      OBVIOUS
    <2>2. /\ Of(g[d], k) = Of(uncounted[d], k)
                             + (IF d = llm[c].since THEN Worth(k, llm[c].tokens) ELSE 0)
          /\ Of(uncounted[d], k) \in Nat /\ Worth(k, llm[c].tokens) \in 0..1
      BY <1>1, <2>1, DayMoves
    <2>3. Of(paid[d], k) \in Nat
      BY <1>1 DEF Of, Amounts
    <2>4. Spent(d, k)' = Of(paid[d], k) - Of(g[d], k)
      BY <2>1 DEF Spent, Of
    <2>5. Spent(d, k)' - Spent(d, k) = -(IF d = llm[c].since THEN Worth(k, llm[c].tokens) ELSE 0)
      BY <2>2, <2>3, <2>4 DEF Spent
    <2>6. /\ Num(ToRecord(n, d, k)) = 0 /\ Num(ToAsk(n, d)) = 0 /\ Num(ToAsk(llm[c], d)) = 0
          /\ Num(ToRecord(llm[c], d, k)) = IF d = llm[c].since THEN Worth(k, llm[c].tokens) ELSE 0
      BY <2>2 DEF Num, ToRecord, ToAsk
    <2> QED
      BY <1>2, <2>2, <2>5, <2>6
  <1>4. SpendInv'
    BY <1>1, <1>3, SpendMove
  <1>5. UsageInv'
    <2>1. PICK dF \in 0..1 : dF = 1 /\ llmFaults' = llmFaults + dF
      OBVIOUS
    <2>2. \A k \in Kinds : Num(ToCount(n, k)) \in 0..1 /\ Num(ToCount(llm[c], k)) = 0
      BY DEF Num, ToCount
    <2>3. \A k \in Kinds :
            (Sum(OkRows(k)', Sector!Days) - Sum(OkRows(k), Sector!Days))
              - (Sum(Counters(k)', Sector!Days) - Sum(Counters(k), Sector!Days))
              - (Num(ToCount(n, k)) - Num(ToCount(llm[c], k))) \in -dF..dF
      BY <1>2, <2>1, <2>2
    <2> QED
      BY <1>1, <2>1, <2>3, UsageMove
  <1> QED
    BY <1>4, <1>5

\* The counters are raised for an answer that is in the log.
LEMMA BudgetCounts ==
  ASSUME BudgetInv, SpendTypes', NEW c \in Slots, NEW n \in SectorHandler,
         llm' = [llm EXCEPT ![c] = n], UNCHANGED <<usageLog, paid, uncounted, llmFaults>>,
         \/ /\ llm[c].pc = "requests" /\ n.tokens = llm[c].tokens
            /\ n.pc = IF llm[c].tokens > 0 THEN "tokens" ELSE "persist"
            /\ counter' = [counter EXCEPT ![today].requests = @ + 1]
         \/ /\ llm[c].pc = "tokens" /\ n.pc = "persist"
            /\ counter' = [counter EXCEPT ![today].tokens = @ + llm[c].tokens]
  PROVE  SpendInv' /\ UsageInv'
  <1>1. /\ SpendInv /\ UsageInv /\ SpendTypes /\ SectorTypes /\ today \in Sector!Days
        /\ llm[c].tokens \in 0..1 /\ llmFaults \in Nat
        /\ counter \in [Sector!Days -> [requests : Nat, tokens : Nat]]
    BY DEF BudgetInv, SpendInv, SpendTypes, SectorTypes, SectorHandler
  <1>2. /\ \A k : /\ \A d \in Sector!Days : Since(d, k)' - Since(d, k) = 0
                  /\ Sum(OkRows(k)', Sector!Days) - Sum(OkRows(k), Sector!Days) = 0
        /\ \A k : \A d \in Sector!Days : Spent(d, k)' - Spent(d, k) = 0
    BY <1>1, SumsStay
  <1>3. SpendInv'
    <2>1. \A d \in Sector!Days, k \in Kinds :
            /\ Num(ToRecord(n, d, k)) = 0 /\ Num(ToRecord(llm[c], d, k)) = 0
            /\ Num(ToAsk(n, d)) = 0 /\ Num(ToAsk(llm[c], d)) = 0
      BY DEF Num, ToRecord, ToAsk
    <2>2. \A d \in Sector!Days, k \in Kinds :
            /\ (Spent(d, k)' - Spent(d, k)) + Num(ToRecord(llm[c], d, k))
                 <= Num(ToRecord(n, d, k)) + (Since(d, k)' - Since(d, k))
            /\ (Spent(d, k)' - Spent(d, k)) + Num(ToAsk(n, d)) <= Num(ToAsk(llm[c], d))
      BY <1>2, <2>1
    <2> QED
      BY <1>1, <2>2, SpendMove
  <1>4. ASSUME NEW k \in Kinds
        PROVE  Sum(Counters(k)', Sector!Days) - Sum(Counters(k), Sector!Days)
                 = Num(ToCount(llm[c], k)) - Num(ToCount(n, k))
    <2>1. \A d \in Sector!Days \ {today} : counter'[d] = counter[d]
      BY <1>1
    <2>2. /\ Sum(Counters(k)', Sector!Days)
               = Sum(Counters(k), Sector!Days) + (Counters(k)'[today] - Counters(k)[today])
          /\ Sum(Counters(k), Sector!Days) \in Int /\ Counters(k)[today] \in Nat
      BY <1>1, <2>1, CountersMove, Numbers
    <2>3. Counters(k)'[today] = IF k = "n" THEN counter'[today].requests ELSE counter'[today].tokens
      BY <1>1 DEF Counters, Sector!Days
    <2>4. Counters(k)[today] = IF k = "n" THEN counter[today].requests ELSE counter[today].tokens
      BY <1>1 DEF Counters
    <2>5. Counters(k)'[today] - Counters(k)[today] = Num(ToCount(llm[c], k)) - Num(ToCount(n, k))
      <3>1. CASE llm[c].pc = "requests"
        <4>1. /\ counter'[today].requests = counter[today].requests + 1
              /\ counter'[today].tokens = counter[today].tokens
          BY <1>1, <3>1
        <4>2. CASE k = "n"
          BY <1>1, <2>3, <2>4, <3>1, <4>1, <4>2 DEF Num, ToCount
        <4>3. CASE k = "cost"
          BY <1>1, <2>3, <2>4, <3>1, <4>1, <4>3 DEF Num, ToCount
        <4> QED
          BY <4>2, <4>3 DEF Kinds
      <3>2. CASE llm[c].pc = "tokens"
        <4>1. /\ counter'[today].requests = counter[today].requests
              /\ counter'[today].tokens = counter[today].tokens + llm[c].tokens
          BY <1>1, <3>2
        <4>2. CASE k = "n"
          BY <1>1, <2>3, <2>4, <3>2, <4>1, <4>2 DEF Num, ToCount
        <4>3. CASE k = "cost"
          BY <1>1, <2>3, <2>4, <3>2, <4>1, <4>3 DEF Num, ToCount
        <4> QED
          BY <4>2, <4>3 DEF Kinds
      <3> QED
        BY <3>1, <3>2
    <2>6. Num(ToCount(llm[c], k)) \in Int /\ Num(ToCount(n, k)) \in Int
      BY DEF Num
    <2> QED
      BY <2>2, <2>5, <2>6
  <1>5. UsageInv'
    <2>1. PICK dF \in 0..1 : dF = 0 /\ llmFaults' = llmFaults + dF
      BY <1>1
    <2>2. \A k \in Kinds : Num(ToCount(n, k)) \in Int /\ Num(ToCount(llm[c], k)) \in Int
      BY DEF Num
    <2>3. \A k \in Kinds :
            (Sum(OkRows(k)', Sector!Days) - Sum(OkRows(k), Sector!Days))
              - (Sum(Counters(k)', Sector!Days) - Sum(Counters(k), Sector!Days))
              - (Num(ToCount(n, k)) - Num(ToCount(llm[c], k))) \in -dF..dF
      BY <1>2, <1>4, <2>1, <2>2
    <2> QED
      BY <1>1, <2>1, <2>3, UsageMove
  <1> QED
    BY <1>3, <1>5

\* Each step of a call.
LEMMA BudgetSteps ==
  ASSUME BudgetInv, SpendTypes', NEW c \in Slots,
         \/ \E force \in BOOLEAN : Sector!Classify(c, force)
         \/ Sector!AssertCanSpend(c) \/ Sector!Generate(c) \/ Sector!RecordError(c)
         \/ Sector!RecordOk(c) \/ Sector!BumpRequests(c) \/ Sector!BumpTokens(c)
         \/ Sector!Override(c) \/ Sector!Persist(c) \/ Sector!Audit(c) \/ Sector!Abort(c)
  PROVE  SpendInv' /\ UsageInv'
  <1>1. /\ llm[c] \in SectorHandler /\ llmFaults \in Nat /\ SpendTypes /\ SectorTypes
        /\ today \in Nat /\ begun \in Nat
        /\ usageLog \in [Sector!Days -> [ok : Amounts, error : Nat]] /\ today \in Sector!Days
    BY DEF BudgetInv, SpendInv, SpendTypes, SectorTypes
  <1>2. PICK none \in 0..1, one \in 0..1 : none = 0 /\ one = 1
    OBVIOUS
  <1>3. /\ \A pc \in {"generate", "error", "tokens", "persist"} :
             /\ [llm[c] EXCEPT !.pc = pc] \in SectorHandler
             /\ [llm[c] EXCEPT !.pc = pc].pc = pc
             /\ [llm[c] EXCEPT !.pc = pc].since = llm[c].since
             /\ [llm[c] EXCEPT !.pc = pc].tokens = llm[c].tokens
    BY <1>1 DEF SectorHandler
  <1>4. Sector!Resting \in SectorHandler /\ Sector!Resting.pc = "idle"
    BY DEF Sector!Resting, SectorHandler
  <1>5. ASSUME NEW force \in BOOLEAN, Sector!Classify(c, force) PROVE SpendInv' /\ UsageInv'
    <2>1. PICK n : n = [Sector!Resting EXCEPT !.pc = "check", !.force = force, !.since = today,
                                              !.write = begun + 1]
      OBVIOUS
    <2>2. n \in SectorHandler /\ n.pc = "check"
      <3>1. n = [pc |-> "check", force |-> force, human |-> FALSE, since |-> today, tokens |-> 0,
                 write |-> begun + 1]
        BY <2>1 DEF Sector!Resting
      <3>2. 0 \in 0..1 /\ begun + 1 \in Nat
        BY <1>1
      <3> QED
        BY <1>1, <3>1, <3>2 DEF SectorHandler
    <2>3. llm[c].pc = "idle" /\ UNCHANGED <<usageLog, counter, paid, uncounted, llmFaults>>
      BY <1>5 DEF Sector!Classify, Sector!At
    <2>4. llm' = [llm EXCEPT ![c] = n]
      BY <1>5, <2>1 DEF Sector!Classify, Sector!Become
    <2>5. llmFaults' = llmFaults + none
      BY <1>1, <1>2, <2>3
    <2> QED
      BY <2>2, <2>3, <2>4, <2>5, BudgetQuiet
  <1>6. CASE Sector!Override(c)
    <2>1. PICK n : n = [Sector!Resting EXCEPT !.pc = "persist", !.human = TRUE, !.write = begun + 1]
      OBVIOUS
    <2>2. n \in SectorHandler /\ n.pc = "persist"
      <3>1. n = [pc |-> "persist", force |-> FALSE, human |-> TRUE, since |-> 0, tokens |-> 0,
                 write |-> begun + 1]
        BY <2>1 DEF Sector!Resting
      <3>2. 0 \in 0..1 /\ begun + 1 \in Nat
        BY <1>1
      <3> QED
        BY <3>1, <3>2 DEF SectorHandler
    <2>3. llm[c].pc = "idle" /\ UNCHANGED <<usageLog, counter, paid, uncounted, llmFaults>>
      BY <1>6 DEF Sector!Override, Sector!At
    <2>4. llm' = [llm EXCEPT ![c] = n]
      BY <1>6, <2>1 DEF Sector!Override, Sector!Become
    <2>5. llmFaults' = llmFaults + none
      BY <1>1, <1>2, <2>3
    <2> QED
      BY <2>2, <2>3, <2>4, <2>5, BudgetQuiet
  <1>7. ASSUME Sector!Throw(c), UNCHANGED <<counter, paid, uncounted>>, llm[c].pc # "record",
               \A d \in Sector!Days : usageLog'[d].ok = usageLog[d].ok,
               \/ llmFaults' = llmFaults /\ llm[c].pc \notin {"requests", "tokens"}
               \/ llmFaults' = llmFaults + 1
        PROVE  SpendInv' /\ UsageInv'
    <2>1. PICK n \in SectorHandler : llm' = [llm EXCEPT ![c] = n] /\ n.pc = "idle"
      BY <1>4, <1>7 DEF Sector!Throw, Sector!Become
    <2>2. PICK dF \in 0..1 : /\ llmFaults' = llmFaults + dF
                             /\ llm[c].pc \in {"requests", "tokens"} => dF = 1
      BY <1>1, <1>7
    <2> QED
      BY <1>7, <2>1, <2>2, BudgetQuiet
  <1>8. CASE Sector!AssertCanSpend(c)
    <2>1. llm[c].pc = "check" /\ UNCHANGED <<usageLog, counter, paid, uncounted, llmFaults>>
      BY <1>8 DEF Sector!AssertCanSpend, Sector!At
    <2>2. CASE Sector!Throw(c)
      BY <1>7, <2>1, <2>2
    <2>3. CASE Sector!CanSpend(llm[c].since) /\ Sector!Goto(c, "generate")
      <3>1. PICK n \in SectorHandler : /\ llm' = [llm EXCEPT ![c] = n] /\ n.pc = "generate"
                                       /\ n.since = llm[c].since
        BY <1>3, <2>3 DEF Sector!Goto, Sector!Become
      <3> QED
        BY <2>1, <2>3, <3>1, BudgetPasses
    <2> QED
      BY <1>8, <2>2, <2>3 DEF Sector!AssertCanSpend
  <1>9. CASE Sector!Generate(c)
    <2>1. llm[c].pc = "generate" /\ UNCHANGED <<usageLog, counter>>
      BY <1>9 DEF Sector!Generate, Sector!At
    <2>2. ASSUME NEW tokens \in 0..1, Sector!Pay(tokens), UNCHANGED <<uncounted, llmFaults>>,
                 Sector!Become(c, [llm[c] EXCEPT !.pc = "record", !.force = FALSE,
                                                 !.tokens = tokens, !.since = today])
          PROVE  SpendInv' /\ UsageInv'
      <3>1. PICK n : n = [llm[c] EXCEPT !.pc = "record", !.force = FALSE, !.tokens = tokens,
                                        !.since = today]
        OBVIOUS
      <3>2. n \in SectorHandler /\ n.pc = "record" /\ n.tokens = tokens /\ n.since = today
        BY <1>1, <3>1 DEF SectorHandler
      <3>3. /\ llm' = [llm EXCEPT ![c] = n] /\ llmFaults' = llmFaults + none
            /\ paid' = [paid EXCEPT ![today] = Sector!Plus(@, tokens)]
        BY <1>1, <1>2, <2>2, <3>1 DEF Sector!Become, Sector!Pay
      <3> QED
        BY <2>1, <2>2, <3>2, <3>3, BudgetSpends
    <2>3. ASSUME Sector!Fault, Sector!Goto(c, "error"), UNCHANGED <<paid, uncounted>>
          PROVE  SpendInv' /\ UsageInv'
      <3>1. PICK n \in SectorHandler : llm' = [llm EXCEPT ![c] = n] /\ n.pc = "error"
        BY <1>3, <2>3 DEF Sector!Goto, Sector!Become
      <3>2. llmFaults' = llmFaults + one
        BY <1>2, <2>3 DEF Sector!Fault
      <3> QED
        BY <2>1, <2>3, <3>1, <3>2, BudgetQuiet
    <2>4. ASSUME NEW tokens \in 0..1, Sector!Fault, Sector!Goto(c, "error"), Sector!Pay(tokens),
                 Sector!NotCounted(today, tokens)
          PROVE  SpendInv' /\ UsageInv'
      <3>1. PICK n \in SectorHandler : llm' = [llm EXCEPT ![c] = n] /\ n.pc = "error"
        BY <1>3, <2>4 DEF Sector!Goto, Sector!Become
      <3>2. /\ llmFaults' = llmFaults + one
            /\ paid' = [paid EXCEPT ![today] = Sector!Plus(@, tokens)]
            /\ uncounted' = [uncounted EXCEPT ![today] = Sector!Plus(@, tokens)]
        BY <1>2, <2>4 DEF Sector!Fault, Sector!Pay, Sector!NotCounted
      <3> QED
        BY <2>1, <3>1, <3>2, BudgetSpends
    <2> QED
      BY <1>9, <2>2, <2>3, <2>4 DEF Sector!Generate
  <1>10. CASE Sector!RecordError(c)
    <2>1. \A d \in Sector!Days : usageLog'[d].ok = usageLog[d].ok
      BY <1>1, <1>10 DEF Sector!RecordError
    <2> QED
      BY <1>7, <1>10, <2>1 DEF Sector!RecordError, Sector!At
  <1>11. CASE Sector!Audit(c)
    BY <1>7, <1>11 DEF Sector!Audit, Sector!At
  <1>12. CASE Sector!RecordOk(c)
    <2>1. PICK n : n = [llm[c] EXCEPT !.pc = "requests", !.since = 0]
      OBVIOUS
    <2>2. n \in SectorHandler /\ n.pc = "requests" /\ n.tokens = llm[c].tokens
      BY <1>1, <2>1 DEF SectorHandler
    <2>3. /\ llm' = [llm EXCEPT ![c] = n] /\ llm[c].pc = "record" /\ UNCHANGED <<counter, paid>>
      BY <1>12, <2>1 DEF Sector!RecordOk, Sector!Become, Sector!At
    <2>4. CASE /\ usageLog' = [usageLog EXCEPT ![today].ok = Sector!Plus(@, llm[c].tokens)]
               /\ UNCHANGED <<uncounted, llmFaults>>
      BY <2>2, <2>3, <2>4, BudgetRecords
    <2>5. CASE Sector!Fault /\ Sector!NotCounted(llm[c].since, llm[c].tokens) /\ UNCHANGED usageLog
      <3>1. /\ llmFaults' = llmFaults + 1
            /\ uncounted' = [uncounted EXCEPT ![llm[c].since] = Sector!Plus(@, llm[c].tokens)]
        BY <2>5 DEF Sector!Fault, Sector!NotCounted
      <3> QED
        BY <2>2, <2>3, <2>5, <3>1, BudgetLoses
    <2> QED
      BY <1>12, <2>4, <2>5 DEF Sector!RecordOk
  <1>13. CASE Sector!Abort(c)
    <2>1. /\ Sector!Throw(c) /\ llmFaults' = llmFaults + 1 /\ UNCHANGED <<usageLog, counter, paid>>
          /\ IF llm[c].pc = "record" THEN Sector!NotCounted(llm[c].since, llm[c].tokens)
                                     ELSE UNCHANGED uncounted
      BY <1>13 DEF Sector!Abort, Sector!Fault, Sector!At
    <2>2. CASE llm[c].pc # "record"
      BY <1>7, <2>1, <2>2
    <2>3. CASE llm[c].pc = "record"
      <3>1. uncounted' = [uncounted EXCEPT ![llm[c].since] = Sector!Plus(@, llm[c].tokens)]
        BY <2>1, <2>3 DEF Sector!NotCounted
      <3>2. PICK n \in SectorHandler : llm' = [llm EXCEPT ![c] = n] /\ n.pc = "idle"
        BY <1>4, <2>1 DEF Sector!Throw, Sector!Become
      <3> QED
        BY <2>1, <2>3, <3>1, <3>2, BudgetLoses
    <2> QED
      BY <2>2, <2>3
  <1>14. CASE Sector!BumpRequests(c)
    <2>1. PICK pc \in {"tokens", "persist"} :
            /\ pc = IF llm[c].tokens > 0 THEN "tokens" ELSE "persist"
            /\ Sector!Goto(c, pc)
      BY <1>14 DEF Sector!BumpRequests
    <2>2. PICK n \in SectorHandler : /\ llm' = [llm EXCEPT ![c] = n] /\ n.pc = pc
                                     /\ n.tokens = llm[c].tokens
      BY <1>3, <2>1 DEF Sector!Goto, Sector!Become
    <2>3. /\ llm[c].pc = "requests" /\ UNCHANGED <<usageLog, paid, uncounted, llmFaults>>
          /\ counter' = [counter EXCEPT ![today].requests = @ + 1]
      BY <1>14 DEF Sector!BumpRequests, Sector!At
    <2> QED
      BY <2>1, <2>2, <2>3, BudgetCounts
  <1>15. CASE Sector!BumpTokens(c)
    <2>1. PICK n : n = [llm[c] EXCEPT !.pc = "persist", !.tokens = 0]
      OBVIOUS
    <2>2. n \in SectorHandler /\ n.pc = "persist"
      <3>1. 0 \in 0..1
        OBVIOUS
      <3> QED
        BY <1>1, <2>1, <3>1 DEF SectorHandler
    <2>3. /\ llm' = [llm EXCEPT ![c] = n] /\ llm[c].pc = "tokens"
          /\ UNCHANGED <<usageLog, paid, uncounted, llmFaults>>
          /\ counter' = [counter EXCEPT ![today].tokens = @ + llm[c].tokens]
      BY <1>15, <2>1 DEF Sector!BumpTokens, Sector!Become, Sector!At
    <2> QED
      BY <2>2, <2>3, BudgetCounts
  <1>16. CASE Sector!Persist(c)
    <2>1. llm[c].pc = "persist" /\ UNCHANGED <<usageLog, counter, paid, uncounted, llmFaults>>
      BY <1>16 DEF Sector!Persist, Sector!At
    <2>2. CASE Sector!Throw(c)
      BY <1>7, <2>1, <2>2
    <2>3. CASE Sector!Become(c, [llm[c] EXCEPT !.pc = "audit", !.human = FALSE])
      <3>1. PICK n : n = [llm[c] EXCEPT !.pc = "audit", !.human = FALSE]
        OBVIOUS
      <3>2. n \in SectorHandler /\ n.pc = "audit"
        BY <1>1, <3>1 DEF SectorHandler
      <3>3. llm' = [llm EXCEPT ![c] = n] /\ llmFaults' = llmFaults + none
        BY <1>1, <1>2, <2>1, <2>3, <3>1 DEF Sector!Become
      <3> QED
        BY <2>1, <3>2, <3>3, BudgetQuiet
    <2> QED
      BY <1>16, <2>2, <2>3 DEF Sector!Persist
  <1> QED
    BY <1>5, <1>6, <1>8, <1>9, <1>10, <1>11, <1>12, <1>13, <1>14, <1>15, <1>16

\* A step of no call changes neither the handlers nor the tables.
LEMMA BudgetRests ==
  ASSUME BudgetInv, SpendTypes',
         UNCHANGED <<llm, usageLog, counter, paid, uncounted, llmFaults>>
  PROVE  SpendInv' /\ UsageInv'
  <1>1. /\ \A k : OkRows(k)' = OkRows(k) /\ Counters(k)' = Counters(k)
                  /\ Countable(k)' = Countable(k)
        /\ \A d : Askers(d)' = Askers(d)
    BY DEF OkRows, Counters, Countable, Askers, Sector!Days, Of, ToCount, ToAsk
  <1>2. \A d, k : Recorders(d, k)' = Recorders(d, k) /\ Spent(d, k)' = Spent(d, k)
    BY DEF Recorders, ToRecord, Worth, Spent, Of
  <1>3. \A d, k : Since(d, k)' = Since(d, k)
    BY <1>1 DEF Since, DaysFrom, Sector!Days
  <1>4. \A d \in Sector!Days, k \in Kinds : DayInv(d, k)'
    BY <1>1, <1>2, <1>3 DEF BudgetInv, SpendInv, DayInv, Cap
  <1>5. SpendInv'
    BY <1>4 DEF SpendInv, Sector!Days
  <1>6. \A k : Gap(k)' = Gap(k)
    BY <1>1 DEF Gap, Sector!Days
  <1>7. UsageInv'
    BY <1>6 DEF BudgetInv, UsageInv
  <1> QED
    BY <1>5, <1>7

\* At the start nothing is spent and nobody asks.
LEMMA BudgetInit ==
  ASSUME Init, SectorTypes
  PROVE  BudgetInv
  <1>1. /\ llm = [c \in Slots |-> Sector!Resting] /\ today = 0 /\ llmFaults = 0
        /\ usageLog = [d \in Sector!Days |-> [ok |-> Sector!None, error |-> 0]]
        /\ counter = [d \in Sector!Days |-> [requests |-> 0, tokens |-> 0]]
        /\ paid = [d \in Sector!Days |-> Sector!None]
        /\ uncounted = [d \in Sector!Days |-> Sector!None]
    BY DEF Init, Sector!Init
  <1>2. 0 \in Sector!Days /\ IsFiniteSet(Slots) /\ MaxRequests \in Nat \ {0} /\ MaxCost \in Nat \ {0}
    BY BoundsAssumption, ServicesAssumption DEF Sector!Days
  <1>3. \A c \in Slots : llm[c].pc = "idle" /\ llm[c].since = 0
    BY <1>1 DEF Sector!Resting
  <1>4. Sector!None \in Amounts /\ \A k : Of(Sector!None, k) = 0
    BY DEF Sector!None, Amounts, Of
  <1>5. SpendTypes
    <2>1. [ok |-> Sector!None, error |-> 0] \in [ok : Amounts, error : Nat]
      BY <1>4
    <2> QED
      BY <1>1, <1>2, <1>3, <1>4, <2>1 DEF SpendTypes
  <1>6. \A k : \A d \in Sector!Days : OkRows(k)[d] = 0 /\ Counters(k)[d] = 0 /\ Spent(d, k) = 0
    BY <1>1, <1>4 DEF OkRows, Counters, Spent
  <1>7. Cardinality({}) = 0 /\ Cardinality(Slots) \in Nat
    BY <1>2, FS_EmptySet, FS_CardinalityType
  <1>8. ASSUME NEW f, \A d \in Sector!Days : f[d] = 0, NEW S \in SUBSET Sector!Days
        PROVE  Sum(f, S) = 0
    <2>1. IsFiniteSet(S)
      BY <1>5, Numbers, FS_Subset
    <2>2. \A d \in S : f[d] \in 0..1
      BY <1>8
    <2>3. {d \in S : f[d] = 1} = {}
      BY <1>8
    <2> QED
      BY <1>7, <2>1, <2>2, <2>3, SumCounts
  <1>9. /\ \A d, k : Recorders(d, k) = {}
        /\ \A d : Askers(d) = {}
        /\ \A k : Countable(k) = {}
    BY <1>3 DEF Recorders, ToRecord, Askers, ToAsk, Countable, ToCount
  <1>10. ASSUME NEW d \in Sector!Days, NEW k \in Kinds PROVE DayInv(d, k)
    <2>1. DaysFrom(d) \in SUBSET Sector!Days
      BY <1>5, Numbers
    <2>2. Since(d, k) = 0
      BY <1>6, <1>8, <2>1 DEF Since
    <2>3. Cap(k) \in Nat \ {0}
      BY <1>2 DEF Cap
    <2>4. Cardinality(Recorders(d, k)) = 0 /\ Cardinality(Askers(d)) = 0 /\ Spent(d, k) = 0
      BY <1>6, <1>7, <1>9
    <2> QED
      BY <1>7, <2>2, <2>3, <2>4 DEF DayInv
  <1>11. UsageInv
    <2>1. \A k : Sum(OkRows(k), Sector!Days) = 0 /\ Sum(Counters(k), Sector!Days) = 0
      BY <1>6, <1>8
    <2>2. \A k : Gap(k) = 0
      BY <1>7, <1>9, <2>1 DEF Gap
    <2> QED
      BY <1>1, <2>2 DEF UsageInv
  <1> QED
    BY <1>5, <1>10, <1>11 DEF BudgetInv, SpendInv

\* The budget's and the usage's invariants hold in every state.
LEMMA BudgetHolds == Spec => []BudgetInv
  <1>1. Init /\ SectorInv => BudgetInv
    BY BudgetInit DEF SectorInv
  <1>2. BudgetInv /\ SectorInv' /\ [Sector!Next]_sectorVars => BudgetInv'
    <2> SUFFICES ASSUME BudgetInv, SectorInv', [Sector!Next]_sectorVars PROVE BudgetInv'
      OBVIOUS
    <2>1. SectorTypes'
      BY DEF SectorInv
    <2>2. SpendTypes'
      BY SpendTypesStep DEF BudgetInv, SpendInv
    <2>3. CASE Sector!RemoveTender \/ Sector!Midnight \/ UNCHANGED sectorVars
      <3>1. UNCHANGED <<llm, usageLog, counter, paid, uncounted, llmFaults>>
        BY <2>3 DEF Sector!RemoveTender, Sector!Midnight, sectorVars
      <3> QED
        BY <2>1, <2>2, <3>1, BudgetRests DEF BudgetInv
    <2>4. CASE \E c \in Slots :
                 \/ \E force \in BOOLEAN : Sector!Classify(c, force)
                 \/ Sector!AssertCanSpend(c) \/ Sector!Generate(c) \/ Sector!RecordError(c)
                 \/ Sector!RecordOk(c) \/ Sector!BumpRequests(c) \/ Sector!BumpTokens(c)
                 \/ Sector!Override(c) \/ Sector!Persist(c) \/ Sector!Audit(c) \/ Sector!Abort(c)
      BY <2>1, <2>2, <2>4, BudgetSteps DEF BudgetInv
    <2> QED
      BY <2>3, <2>4 DEF Sector!Next
  <1>3. [Next]_<<focus, rest>> => [Sector!Next]_sectorVars
    BY DEF Next, rest
  <1> QED
    BY <1>1, <1>2, <1>3, SectorHolds, PTL DEF Spec

\* A day's payments overrun LLM_DAILY_MAX_REQUESTS and LLM_DAILY_MAX_COST_USD
\* (LlmBudgetGuard.assertCanSpend) by no more than the calls that run beside the
\* last one allowed and the answers the usage log has no ok row of, however many
\* calls, faults and days there are.
THEOREM SpendingIsBounded == Spec => []SpendBounded
  <1>1. BudgetInv => SpendBounded
    <2> SUFFICES ASSUME BudgetInv, NEW d \in Sector!Days
                 PROVE  /\ paid[d].n <= MaxRequests - 1 + Cardinality(Slots) + uncounted[d].n
                        /\ paid[d].cost <= MaxCost - 1 + Cardinality(Slots) + uncounted[d].cost
      BY SameCounts DEF SpendBounded, Sector!SpendBounded
    <2>1. DayInv(d, "n") /\ DayInv(d, "cost")
      BY DEF BudgetInv, SpendInv, Kinds
    <2>2. paid[d] \in Amounts /\ uncounted[d] \in Amounts
      BY DEF BudgetInv, SpendInv, SpendTypes
    <2>3. Cardinality(Askers(d)) \in Nat /\ Cardinality(Slots) \in Nat
      BY BoundsAssumption, FS_Subset, FS_CardinalityType DEF Askers
    <2>4. MaxRequests \in Nat /\ MaxCost \in Nat
      BY ServicesAssumption
    <2>5. /\ paid[d].n - uncounted[d].n + Cardinality(Askers(d)) <= MaxRequests - 1 + Cardinality(Slots)
          /\ paid[d].cost - uncounted[d].cost + Cardinality(Askers(d)) <= MaxCost - 1 + Cardinality(Slots)
      BY <2>1 DEF DayInv, Spent, Of, Cap
    <2> QED
      BY <2>2, <2>3, <2>4, <2>5 DEF Amounts
  <1> QED
    BY <1>1, BudgetHolds, PTL

\* The usage log (recordOk) and the usage counters (bump) count the same answers
\* up to the calls between the two writes and one per fault, on whichever days
\* the two writes fall.
THEOREM UsageAgrees == Spec => []UsageReconciles
  <1>1. BudgetInv => UsageReconciles
    <2> SUFFICES ASSUME BudgetInv PROVE Sector!UsageReconciles
      BY DEF UsageReconciles
    <2>1. SpendTypes /\ SectorTypes /\ UsageInv
      BY DEF BudgetInv, SpendInv
    <2>2. DaysFrom(0) = Sector!Days
      BY BoundsAssumption DEF DaysFrom, Sector!Days
    <2>3. /\ Sector!Logged.n = Sum(OkRows("n"), Sector!Days)
          /\ Sector!Logged.cost = Sum(OkRows("cost"), Sector!Days)
      BY <2>1, <2>2, TotalsAre DEF Sector!Logged, Since
    <2>4. /\ Sector!Counted.n = Sum(Counters("n"), Sector!Days)
          /\ Sector!Counted.cost = Sum(Counters("cost"), Sector!Days)
      BY <2>1, TotalsAre
    <2>5. Sector!Cardinality(Sector!AtAny({"requests"})) = Cardinality(Countable("n"))
      <3>1. Sector!AtAny({"requests"}) = Countable("n")
        BY DEF Sector!AtAny, Countable, ToCount
      <3> QED
        BY <3>1, SameCounts
    <2>6. Sector!SumFunctionOnSet([c \in Slots |-> llm[c].tokens], Sector!AtAny({"requests", "tokens"}))
            = Cardinality(Countable("cost"))
      <3>1. PICK S, f : S = Sector!AtAny({"requests", "tokens"}) /\ f = [c \in Slots |-> llm[c].tokens]
        OBVIOUS
      <3>2. S \in SUBSET Slots /\ IsFiniteSet(S)
        BY <3>1, BoundsAssumption, FS_Subset DEF Sector!AtAny
      <3>3. \A c \in S : f[c] = llm[c].tokens /\ f[c] \in 0..1
        BY <2>1, <3>1, <3>2 DEF SectorTypes, SectorHandler
      <3>4. {c \in S : f[c] = 1} = Countable("cost")
        BY <3>1, <3>3 DEF Sector!AtAny, Countable, ToCount
      <3>5. Sector!SumFunctionOnSet(f, S) = Cardinality(Countable("cost"))
        BY <3>2, <3>3, <3>4, SumCounts, LibrarySum
      <3> QED
        BY <3>1, <3>5
    <2>7. Gap("n") \in -llmFaults..llmFaults /\ Gap("cost") \in -llmFaults..llmFaults
      BY <2>1 DEF UsageInv, Kinds
    <2> QED
      BY <2>3, <2>4, <2>5, <2>6, <2>7 DEF Sector!UsageReconciles, Gap
  <1> QED
    BY <1>1, BudgetHolds, PTL
=============================================================================
