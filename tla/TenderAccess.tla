---------------------------- MODULE TenderAccess ----------------------------
(***************************************************************************)
(* Per-tender access rows (apps/api/src/pdpl/tender-access): an owner      *)
(* grants a user a role on one tender and revokes it.  The write and its   *)
(* audit record are separate awaits, and (user, tender) is unique.         *)
(***************************************************************************)
EXTENDS Integers, FiniteSets

CONSTANTS
    Users,           \* users of the organization access is granted to
    AccessCalls,     \* concurrently running handlers
    MaxAccessCalls,  \* bound on handlers begun
    MaxAccessFaults  \* bound on failing writes and deaths

VARIABLES
    access,     \* the role each user's TenderAccess row gives, 0 without a row
    handlers,   \* the handler in each slot
    ledger,     \* audit events of each user: grants less revocations
    accessDone, \* handlers begun
    removed,    \* whether the tender was removed
    lostEvents  \* history: audit events that were not written

vars == <<access, handlers, ledger, accessDone, removed, lostEvents>>

Viewer == 1
Reviewer == 2
Editor == 3
Owner == 4
ROLE_RANK == Viewer..Owner

Waiting == [pc |-> "idle", user |-> "none"]
Handler == [pc : {"idle", "granted", "revoked"}, user : Users \cup {"none"}]

Init ==
    /\ access = [u \in Users |-> 0]
    /\ handlers = [c \in AccessCalls |-> Waiting]
    /\ ledger = [u \in Users |-> 0]
    /\ accessDone = 0
    /\ removed = FALSE
    /\ lostEvents = 0

Begin(c) ==
    /\ handlers[c].pc = "idle"
    /\ accessDone < MaxAccessCalls
    /\ accessDone' = accessDone + 1

\* Mutant: a second grant updates the row.
InsertAllowedAlways(u) == ~removed

\* The insert of a second row for the pair throws, as does one for a tender
\* that is gone.
InsertAllowed(u) == access[u] = 0 /\ ~removed

Grant(c, u, role) ==
    /\ Begin(c)
    /\ InsertAllowed(u)
    /\ access' = [access EXCEPT ![u] = role]
    /\ handlers' = [handlers EXCEPT ![c] = [pc |-> "granted", user |-> u]]
    /\ UNCHANGED <<ledger, removed, lostEvents>>

\* A revocation that removes nothing is not recorded.
Revoke(c, u) ==
    /\ Begin(c)
    /\ access[u] # 0
    /\ access' = [access EXCEPT ![u] = 0]
    /\ handlers' = [handlers EXCEPT ![c] = [pc |-> "revoked", user |-> u]]
    /\ UNCHANGED <<ledger, removed, lostEvents>>

Weight(pc) == IF pc = "granted" THEN 1 ELSE -1

\* The audit record, which may fail.
Audit(c) ==
    /\ handlers[c].pc # "idle"
    /\ handlers' = [handlers EXCEPT ![c] = Waiting]
    /\ \/ /\ ledger' = [ledger EXCEPT ![handlers[c].user] = @ + Weight(handlers[c].pc)]
          /\ UNCHANGED lostEvents
       \/ /\ lostEvents < MaxAccessFaults
          /\ lostEvents' = lostEvents + 1
          /\ UNCHANGED ledger
    /\ UNCHANGED <<access, accessDone, removed>>

\* The tender is removed; the rows go with it, without an event.
RemoveTender ==
    /\ ~removed
    /\ removed' = TRUE
    /\ access' = [u \in Users |-> 0]
    /\ UNCHANGED <<handlers, ledger, accessDone, lostEvents>>

Next ==
    \/ \E c \in AccessCalls, u \in Users :
         \/ \E role \in ROLE_RANK : Grant(c, u, role)
         \/ Revoke(c, u)
    \/ \E c \in AccessCalls : Audit(c)
    \/ RemoveTender

Spec == Init /\ [][Next]_vars

HasAtLeast(u, minimum) == access[u] # 0 /\ access[u] >= minimum

-----------------------------------------------------------------------------
\* The shapes of the tables and of the running handlers.
TypeOK ==
    /\ access \in [Users -> {0} \cup ROLE_RANK]
    /\ handlers \in [AccessCalls -> Handler]
    /\ ledger \in [Users -> -MaxAccessCalls..MaxAccessCalls]
    /\ accessDone \in 0..MaxAccessCalls
    /\ removed \in BOOLEAN
    /\ lostEvents \in 0..MaxAccessFaults

Unrecorded(u, pc) == Cardinality({c \in AccessCalls : handlers[c] = [pc |-> pc, user |-> u]})

\* Who may see a tender can be told from the audit trail: grants less
\* revocations say whether the user has a row, up to handlers that still have
\* to write their event and events that were lost, for as long as the
\* tender is there: its removal takes the rows without an event.
AccessReconciles ==
    ~removed => \A u \in Users :
        ledger[u] + Unrecorded(u, "granted") - Unrecorded(u, "revoked")
            - (IF HasAtLeast(u, Viewer) THEN 1 ELSE 0) \in -lostEvents..lostEvents
=============================================================================
