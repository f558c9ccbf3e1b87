------------------------------ MODULE Billing -------------------------------
(***************************************************************************)
(* The Stripe mirror of one organization (apps/api/src/billing).  Stripe is *)
(* external: it changes subscriptions, emits an event for each change, and  *)
(* delivers events at least once, in any order, again while they are not   *)
(* answered with a 2xx.  A delivery that fails verification or parsing, or *)
(* whose type is not handled, changes nothing here and is left out; the    *)
(* body is taken to reach the handler as the raw bytes Stripe signed.      *)
(***************************************************************************)
EXTENDS Naturals, Sequences

CONSTANTS
    StripeSubs,     \* Stripe subscriptions of the organization, over time
    Prices,         \* price ids of Stripe
    Catalog,        \* PLAN_CATALOG: the plan code of each listed price
    RawStatuses,    \* statuses of Stripe
    Receivers,      \* concurrently running handlers of POST webhooks/stripe
    MaxEvents,      \* bound on events Stripe emits
    MaxReplays      \* bound on deliveries of an event that was answered

VARIABLES
    stripe,       \* Stripe's subscriptions
    emitted,      \* the events Stripe emitted, in order
    answered,     \* events answered with a 2xx
    receivers,    \* the handler in each slot: the event it still has to audit, or 0
    subscription, \* the Subscription row of the organization, or no row
    trail,        \* events that have their audit record
    newest,       \* history: the newest event mirrored
    disorder,     \* history: an event was mirrored after a newer one
    overlap,      \* history: two subscriptions were live at once
    replays

vars == <<stripe, emitted, answered, receivers, subscription, trail, newest, disorder,
          overlap, replays>>

NoRow == [plan |-> "free", status |-> "active", sub |-> "none"]
Row == [plan : {"free"} \cup {Catalog[p] : p \in DOMAIN Catalog},
        status : {"active", "past_due", "canceled", "incomplete"},
        sub : StripeSubs \cup {"none"}]
Event == [kind : {"changed", "deleted", "checkout"}, sub : StripeSubs, price : Prices,
          status : RawStatuses, org : BOOLEAN]

Init ==
    /\ stripe = [s \in StripeSubs |-> [state |-> "new", price |-> CHOOSE p \in Prices : TRUE,
                                       status |-> CHOOSE r \in RawStatuses : TRUE]]
    /\ emitted = <<>>
    /\ answered = {}
    /\ receivers = [r \in Receivers |-> 0]
    /\ subscription = NoRow
    /\ trail = {}
    /\ newest = 0
    /\ disorder = FALSE
    /\ overlap = FALSE
    /\ replays = 0

-----------------------------------------------------------------------------
(* Stripe *)

LiveSubs == {s \in StripeSubs : stripe[s].state = "live"}

Emit(kind, s, price, status, org) ==
    /\ Len(emitted) < MaxEvents
    /\ emitted' = Append(emitted, [kind |-> kind, sub |-> s, price |-> price,
                                   status |-> status, org |-> org])

\* A subscription is created, or its price or status changes.
StripeChanges(s, price, status) ==
    /\ stripe[s].state # "deleted"
    /\ Emit("changed", s, price, status, TRUE)
    /\ stripe' = [stripe EXCEPT ![s] = [state |-> "live", price |-> price, status |-> status]]
    /\ overlap' = (overlap \/ LiveSubs \ {s} # {})
    /\ UNCHANGED <<answered, receivers, subscription, trail, newest, disorder, replays>>

StripeDeletes(s) ==
    /\ stripe[s].state = "live"
    /\ Emit("deleted", s, stripe[s].price, stripe[s].status, TRUE)
    /\ stripe' = [stripe EXCEPT ![s].state = "deleted"]
    /\ UNCHANGED <<answered, receivers, subscription, trail, newest, disorder, overlap, replays>>

\* A checkout session, with or without organization_id in its metadata.
StripeChecksOut(s, org) ==
    /\ stripe[s].state = "new"
    /\ Emit("checkout", s, stripe[s].price, stripe[s].status, org)
    /\ UNCHANGED <<stripe, answered, receivers, subscription, trail, newest, disorder, overlap,
                   replays>>

-----------------------------------------------------------------------------
(* StripeWebhookService *)

MapStatus(raw) ==
    CASE raw \in {"active", "trialing"} -> "active"
      [] raw \in {"past_due", "unpaid"} -> "past_due"
      [] raw = "canceled" -> "canceled"
      [] OTHER -> "incomplete"

\* Mutant: a deleted subscription keeps its plan until the period ends.
MirrorDeletedLate(e) ==
    [plan |-> IF e.price \in DOMAIN Catalog THEN Catalog[e.price] ELSE "free",
     status |-> "canceled", sub |-> e.sub]

MirrorDeleted(e) == [plan |-> "free", status |-> "canceled", sub |-> e.sub]

MirrorChanged(e) ==
    [plan |-> Catalog[e.price], status |-> MapStatus(e.status), sub |-> e.sub]

\* Stripe delivers what was not answered, and may deliver again what was.
Deliverable(n) ==
    \/ n \notin answered /\ UNCHANGED replays
    \/ n \in answered /\ replays < MaxReplays /\ replays' = replays + 1

\* onSubscriptionUpdate and onSubscriptionDeleted up to the audit: an unlisted
\* price throws before anything is written.  upsert is one statement.
Mirror(r, n) ==
    /\ receivers[r] = 0
    /\ Deliverable(n)
    /\ LET e == emitted[n]
       IN  \/ /\ e.kind = "changed" /\ e.price \in DOMAIN Catalog
              /\ subscription' = MirrorChanged(e)
           \/ /\ e.kind = "deleted"
              /\ subscription' = MirrorDeleted(e)
    /\ receivers' = [receivers EXCEPT ![r] = n]
    /\ newest' = IF n > newest THEN n ELSE newest
    /\ disorder' = (disorder \/ n < newest)
    /\ UNCHANGED <<stripe, emitted, answered, trail, overlap>>

\* onCheckoutCompleted: nothing is mirrored, and without an organization
\* nothing is recorded either.
CheckoutCompleted(r, n) ==
    /\ receivers[r] = 0
    /\ Deliverable(n)
    /\ emitted[n].kind = "checkout"
    /\ IF emitted[n].org
       THEN receivers' = [receivers EXCEPT ![r] = n] /\ UNCHANGED answered
       ELSE answered' = answered \cup {n} /\ UNCHANGED receivers
    /\ UNCHANGED <<stripe, emitted, subscription, trail, newest, disorder, overlap>>

\* The audit record; the answer is a 2xx unless it throws.
Audit(r) ==
    /\ receivers[r] # 0
    /\ receivers' = [receivers EXCEPT ![r] = 0]
    /\ \/ /\ trail' = trail \cup {receivers[r]}
          /\ answered' = answered \cup {receivers[r]}
       \/ UNCHANGED <<trail, answered>>
    /\ UNCHANGED <<stripe, emitted, subscription, newest, disorder, overlap, replays>>

Next ==
    \/ \E s \in StripeSubs :
         \/ \E price \in Prices, status \in RawStatuses : StripeChanges(s, price, status)
         \/ StripeDeletes(s)
         \/ \E org \in BOOLEAN : StripeChecksOut(s, org)
    \/ \E r \in Receivers :
         \/ \E n \in 1..Len(emitted) : Mirror(r, n) \/ CheckoutCompleted(r, n)
         \/ Audit(r)

Spec == Init /\ [][Next]_vars

-----------------------------------------------------------------------------
\* The shapes of the tables and of the running handlers.
TypeOK ==
    /\ stripe \in [StripeSubs -> [state : {"new", "live", "deleted"}, price : Prices,
                                  status : RawStatuses]]
    /\ emitted \in Seq(Event)
    /\ answered \subseteq 1..Len(emitted)
    /\ receivers \in [Receivers -> 0..Len(emitted)]
    /\ subscription \in Row
    /\ trail \subseteq 1..Len(emitted)
    /\ newest \in 0..Len(emitted)
    /\ disorder \in BOOLEAN /\ overlap \in BOOLEAN
    /\ replays \in 0..MaxReplays

\* forOrg: the row's plan, or the free plan when there is no row.
ForOrg == subscription.plan

\* Once every event is answered, an organization whose subscriptions followed
\* one another is on the plan it pays for, and on the free plan when it has
\* none; provided no event was mirrored after a newer one, since the receiver
\* has no order of its own.
MirrorsStripe ==
    answered = 1..Len(emitted) /\ ~disorder /\ ~overlap
        => /\ LiveSubs = {} => ForOrg = "free"
           /\ \A s \in LiveSubs :
                /\ ForOrg = Catalog[stripe[s].price]
                /\ subscription.sub = s
                /\ subscription.status = "active" => stripe[s].status \in {"active", "trialing"}
=============================================================================
