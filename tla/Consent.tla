------------------------------ MODULE Consent -------------------------------
(***************************************************************************)
(* The consent ledger (apps/api/src/pdpl/consent-ledger) for one subject    *)
(* and the purpose whatsapp_reminders, and the reminders it gates           *)
(* (apps/api/src/compliance/reminders).  The current state is the event     *)
(* with the latest recordedAt; events of one millisecond tie, and the       *)
(* database may answer with either.                                         *)
(***************************************************************************)
EXTENDS Naturals, FiniteSets

CONSTANTS
    Refs,         \* what a reminder is about
    Senders,      \* concurrently running sends
    LastInstant,  \* bound on the clock, in milliseconds
    MaxConsents,  \* bound on events recorded
    MaxRestarts   \* bound on restarts of the process

VARIABLES
    consents, \* ConsentEvent rows of the subject
    senders,  \* the ref each running send has consent for, or "none"
    seen,     \* the service's set of refs sent by this process
    now,
    restarts,
    heedless, \* history: reminders sent since the ledger last changed
    recorded  \* history: events recorded

vars == <<consents, senders, seen, now, restarts, heedless, recorded>>

Instants == 0..LastInstant
ConsentEvent == [state : {"granted", "withdrawn"}, at : Instants]

Init ==
    /\ consents = {}
    /\ senders = [c \in Senders |-> "none"]
    /\ seen = {}
    /\ now = 0
    /\ restarts = 0
    /\ heedless = 0
    /\ recorded = 0

Tick ==
    /\ now < LastInstant
    /\ now' = now + 1
    /\ UNCHANGED <<consents, senders, seen, restarts, heedless, recorded>>

\* record: the row; its audit event changes nothing here.
Record(state) ==
    /\ recorded < MaxConsents
    /\ recorded' = recorded + 1
    /\ consents' = consents \cup {[state |-> state, at |-> now]}
    /\ heedless' = 0
    /\ UNCHANGED <<senders, seen, now, restarts>>

\* anonymiseSubject, of an erasure: the rows are another subject's from now on.
Anonymise ==
    /\ consents # {}
    /\ consents' = {}
    /\ heedless' = 0
    /\ UNCHANGED <<senders, seen, now, restarts, recorded>>

\* Mutant: a grant counts for as long as it is in the ledger.
CurrentAny == consents

\* findCurrent: one of the events with the latest recordedAt.
Current == {e \in consents : \A f \in consents : f.at <= e.at}

\* hasActiveConsent: denied without an event.
MayBeActive == \E e \in Current : e.state = "granted"

\* sendWhatsAppForSubject up to the answer of the ledger.
Ask(c, ref) ==
    /\ senders[c] = "none"
    /\ MayBeActive
    /\ senders' = [senders EXCEPT ![c] = ref]
    /\ UNCHANGED <<consents, seen, now, restarts, heedless, recorded>>

Deliver(ref) == seen' = seen \cup {ref}

\* The rest, without an await: at most one reminder per ref and process.
Send(c) ==
    /\ senders[c] # "none"
    /\ senders' = [senders EXCEPT ![c] = "none"]
    /\ \/ /\ senders[c] \notin seen
          /\ Deliver(senders[c])
          /\ heedless' = heedless + 1
       \/ /\ senders[c] \in seen
          /\ UNCHANGED <<seen, heedless>>
    /\ UNCHANGED <<consents, now, restarts, recorded>>

\* sendWhatsAppNudge, of a caller who passes an opt-in of its own: the ledger is
\* not asked, the set of sent reminders is the same.
Nudge(ref) ==
    /\ ref \notin seen
    /\ Deliver(ref)
    /\ UNCHANGED <<consents, senders, now, restarts, heedless, recorded>>

\* seen lives in memory.
Restart ==
    /\ restarts < MaxRestarts
    /\ restarts' = restarts + 1
    /\ seen' = {}
    /\ senders' = [c \in Senders |-> "none"]
    /\ UNCHANGED <<consents, now, heedless, recorded>>

Next ==
    \/ Tick
    \/ \E state \in {"granted", "withdrawn"} : Record(state)
    \/ Anonymise
    \/ \E ref \in Refs : Nudge(ref)
    \/ \E c \in Senders : Send(c) \/ \E ref \in Refs : Ask(c, ref)
    \/ Restart

Spec == Init /\ [][Next]_vars

-----------------------------------------------------------------------------
\* The shapes of the tables and of the running handlers.
TypeOK ==
    /\ consents \subseteq ConsentEvent
    /\ senders \in [Senders -> Refs \cup {"none"}]
    /\ seen \subseteq Refs
    /\ now \in Instants
    /\ restarts \in 0..MaxRestarts
    /\ heedless \in Nat
    /\ recorded \in 0..MaxConsents

\* Withdrawn: the ledger's last word, with no grant in the same millisecond.
Withdrawn == \A e \in consents : e.state = "granted" =>
                 \E f \in consents : f.state = "withdrawn" /\ f.at > e.at

\* "Refuses to send unless [...] a granted, not-withdrawn event"
\* (reminders.service.ts:86): after a withdrawal or an erasure only the sends
\* that had the ledger's answer already go out.
WithdrawalHeeded == Withdrawn => heedless <= Cardinality(Senders)
=============================================================================
