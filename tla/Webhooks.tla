------------------------------ MODULE Webhooks ------------------------------
(***************************************************************************)
(* Outgoing webhooks (apps/api/src/webhooks): subscriptions that owners     *)
(* create, change and remove, and the dispatcher, which lists them, inserts *)
(* one delivery per subscription and sends it with retries.  Every await of *)
(* the dispatcher is an interleaving point; the retry timers live in memory *)
(* and die with the process.                                                *)
(***************************************************************************)
EXTENDS Naturals, FiniteSets

CONSTANTS
    Subs,         \* ids of WebhookSubscription rows of one organization
    Deliveries,   \* ids of WebhookDelivery rows
    MaxAttempts,  \* maxAttempts of the dispatcher
    Changing,     \* subscriptions that are changed or removed later
    MaxChanges,   \* bound on changes of one subscription's url or secret
    MaxRetries,   \* bound on deliveries the retry hook is used on, once each
    Slots,        \* concurrently running dispatcher calls
    MaxFaults,    \* bound on failing writes and processes that die
    NULL

Row == [sub : Subs, status : {"pending", "delivered", "failed"}, attempts : 0..MaxAttempts]

ASSUME WebhooksAssumption ==
    /\ Changing \subseteq Subs
    /\ MaxAttempts \in Nat \ {0}
    /\ MaxChanges \in Nat /\ MaxRetries \in Nat /\ MaxFaults \in Nat
    /\ NULL \notin Subs /\ NULL \notin Deliveries /\ NULL \notin Row

VARIABLES
    subs,    \* the WebhookSubscription table
    rows,    \* the WebhookDelivery table
    calls,   \* the dispatcher call in each slot
    sends,   \* history: requests sent for a delivery
    acked,   \* history: deliveries whose receiver answered with a 2xx
    retried, \* history: deliveries the retry hook was used on
    upset,   \* history: deliveries a write of which failed
    faults

vars == <<subs, rows, calls, sends, acked, retried, upset, faults>>
history == <<sends, acked, retried, upset>>

\* version stands for the url and the secret: each change makes a new pair.
\* on is active and subscribed to the event.
Sub == [state : {"new", "live", "gone"}, on : BOOLEAN, version : 0..MaxChanges]

Call == [pc : {"idle", "create", "send", "write", "rewrite", "giveUp"},
         todo : SUBSET Subs, listed : [Subs -> 0..MaxChanges],
         sub : Subs \cup {NULL}, delivery : Deliveries \cup {NULL},
         attempts : 0..MaxAttempts, ok : BOOLEAN]
Idle == [pc |-> "idle", todo |-> {}, listed |-> [s \in Subs |-> 0], sub |-> NULL,
         delivery |-> NULL, attempts |-> 0, ok |-> FALSE]

Init ==
    /\ subs = [s \in Subs |-> [state |-> "new", on |-> FALSE, version |-> 0]]
    /\ rows = [d \in Deliveries |-> NULL]
    /\ calls = [c \in Slots |-> Idle]
    /\ sends = [d \in Deliveries |-> 0]
    /\ acked = {}
    /\ retried = {}
    /\ upset = {}
    /\ faults = 0

-----------------------------------------------------------------------------
(* Subscriptions.  The reads that precede the writes find the row or throw. *)

Live(s) == subs[s].state = "live"

Subscribe(s) ==
    /\ subs[s].state = "new"
    /\ subs' = [subs EXCEPT ![s] = [state |-> "live", on |-> TRUE, version |-> 0]]
    /\ UNCHANGED <<rows, calls, history, faults>>

\* update: active or eventTypes, the url, or all of them.
Update(s, on, newUrl) ==
    /\ Live(s)
    /\ newUrl => subs[s].version < MaxChanges
    /\ subs' = [subs EXCEPT ![s] = [state |-> "live", on |-> on,
                                    version |-> IF newUrl THEN @.version + 1 ELSE @.version]]
    /\ UNCHANGED <<rows, calls, history, faults>>

RotateSecret(s) ==
    /\ Live(s) /\ subs[s].version < MaxChanges
    /\ subs' = [subs EXCEPT ![s] = [state |-> "live", on |-> @.on, version |-> @.version + 1]]
    /\ UNCHANGED <<rows, calls, history, faults>>

\* The deliveries go with their subscription.
Remove(s) ==
    /\ Live(s)
    /\ subs' = [subs EXCEPT ![s] = [state |-> "gone", on |-> FALSE, version |-> 0]]
    /\ rows' = [d \in Deliveries |-> IF rows[d] # NULL /\ rows[d].sub = s
                                     THEN NULL ELSE rows[d]]
    /\ UNCHANGED <<calls, history, faults>>

-----------------------------------------------------------------------------
(* The dispatcher. *)

At(c, pc) == calls[c].pc = pc
Become(c, k) == calls' = [calls EXCEPT ![c] = k]

Fresh == {d \in Deliveries : rows[d] = NULL /\ sends[d] = 0
                             /\ \A c \in Slots : calls[c].delivery # d}
NewId == CHOOSE d \in Fresh : TRUE

\* What follows a subscription in publish's loop; a retry has nothing left to do.
Continue(c) ==
    Become(c, IF calls[c].todo = {} THEN Idle
              ELSE [calls[c] EXCEPT !.pc = "create", !.sub = NULL, !.delivery = NULL,
                                    !.listed = [s \in Subs |-> IF s \in calls[c].todo
                                                               THEN calls[c].listed[s] ELSE 0],
                                    !.attempts = 0, !.ok = FALSE])

\* An exception of publish or retry: the rest of the loop is not run.
Throw(c) == Become(c, Idle)

FindActiveForEvent == {s \in Subs : Live(s) /\ subs[s].on}

Publish(c) ==
    /\ At(c, "idle")
    /\ FindActiveForEvent # {}
    /\ Cardinality(Fresh) >= Cardinality(FindActiveForEvent) + Cardinality(UNION {calls[x].todo : x \in Slots})
    /\ Become(c, [Idle EXCEPT !.pc = "create", !.todo = FindActiveForEvent,
                              !.listed = [s \in Subs |-> IF s \in FindActiveForEvent
                                                         THEN subs[s].version ELSE 0]])
    /\ UNCHANGED <<subs, rows, history, faults>>

\* The foreign key makes the insert for a removed subscription throw.
CreateDelivery(c) ==
    /\ At(c, "create") /\ Fresh # {}
    /\ \E s \in calls[c].todo :
         \/ /\ Live(s)
            /\ rows' = [rows EXCEPT ![NewId] = [sub |-> s, status |-> "pending", attempts |-> 0]]
            /\ Become(c, [calls[c] EXCEPT !.pc = "send", !.todo = calls[c].todo \ {s},
                                          !.sub = s, !.delivery = NewId])
         \/ /\ ~Live(s)
            /\ Throw(c)
            /\ UNCHANGED rows
    /\ UNCHANGED <<subs, history, faults>>

\* retry is given a delivery, and the url and secret, as somebody read them.
\* Its loop may have no turn left.
Retry(c, d) ==
    /\ At(c, "idle")
    /\ rows[d] # NULL
    /\ d \notin retried /\ Cardinality(retried) < MaxRetries
    /\ retried' = retried \cup {d}
    /\ Become(c, [Idle EXCEPT !.pc = IF rows[d].attempts < MaxAttempts THEN "send" ELSE "giveUp",
                              !.sub = rows[d].sub, !.delivery = d,
                              !.listed = [Idle.listed EXCEPT ![rows[d].sub] = subs[rows[d].sub].version],
                              !.attempts = rows[d].attempts])
    /\ UNCHANGED <<subs, rows, sends, acked, upset, faults>>

\* A receiver can only verify what is signed with its secret, and a removed or
\* moved endpoint answers nothing; a verified request may still be refused, time
\* out, or be accepted with the answer lost.
Verifies(k) == Live(k.sub) /\ k.listed[k.sub] = subs[k.sub].version

Send(c) ==
    /\ At(c, "send")
    /\ LET k == calls[c]
       IN  /\ sends' = [sends EXCEPT ![k.delivery] = @ + 1]
           /\ \/ /\ Verifies(k)
                 /\ acked' = acked \cup {k.delivery}
                 /\ Become(c, [k EXCEPT !.pc = "write", !.ok = TRUE])
              \/ /\ Become(c, [k EXCEPT !.pc = "write", !.ok = FALSE])
                 /\ UNCHANGED acked
    /\ UNCHANGED <<subs, rows, retried, upset, faults>>

Counted(k) == k.attempts + 1

\* An update throws when the row went with its subscription.
WriteFails(c) ==
    \/ rows[calls[c].delivery] = NULL /\ UNCHANGED faults
    \/ rows[calls[c].delivery] # NULL /\ faults < MaxFaults /\ faults' = faults + 1

\* Mutants: one attempt too many, and one too few.
AfterFailureLate(c, n) ==
    Become(c, [calls[c] EXCEPT !.pc = IF n > MaxAttempts THEN "giveUp" ELSE "send",
                               !.attempts = n, !.ok = FALSE])
AfterFailureEarly(c, n) ==
    Become(c, [calls[c] EXCEPT !.pc = IF n >= MaxAttempts - 1 THEN "giveUp" ELSE "send",
                               !.attempts = n, !.ok = FALSE])

\* After a recorded failure: the backoff and another turn, or none.
AfterFailure(c, n) ==
    Become(c, [calls[c] EXCEPT !.pc = IF n >= MaxAttempts THEN "giveUp" ELSE "send",
                               !.attempts = n, !.ok = FALSE])

Record(d, status, n) ==
    rows' = [rows EXCEPT ![d] = [sub |-> @.sub, status |-> status, attempts |-> n]]

\* The update inside the try block: success ends the loop; when it throws, the
\* catch block takes the attempt for a failed one.
WriteOutcome(c) ==
    /\ At(c, "write")
    /\ LET k == calls[c]
           d == k.delivery
       IN  \/ /\ rows[d] # NULL /\ k.ok
              /\ Record(d, "delivered", Counted(k))
              /\ Continue(c)
              /\ UNCHANGED <<upset, faults>>
           \/ /\ rows[d] # NULL /\ ~k.ok
              /\ Record(d, rows[d].status, Counted(k))
              /\ AfterFailure(c, Counted(k))
              /\ UNCHANGED <<upset, faults>>
           \/ /\ WriteFails(c)
              /\ upset' = upset \cup {d}
              /\ Become(c, [k EXCEPT !.pc = "rewrite", !.ok = FALSE])
              /\ UNCHANGED rows
    /\ UNCHANGED <<subs, sends, acked, retried>>

\* The update of the catch block, whose exception leaves the loop.
RewriteOutcome(c) ==
    /\ At(c, "rewrite")
    /\ LET k == calls[c]
           d == k.delivery
       IN  \/ /\ rows[d] # NULL
              /\ Record(d, rows[d].status, Counted(k))
              /\ AfterFailure(c, Counted(k))
              /\ UNCHANGED faults
           \/ WriteFails(c) /\ Throw(c) /\ UNCHANGED rows
    /\ UNCHANGED <<subs, history>>

\* Mutant: the exhausted delivery is not marked.
GiveUpSilently(c) ==
    /\ At(c, "giveUp")
    /\ Continue(c)
    /\ UNCHANGED <<subs, rows, history, faults>>

GiveUp(c) ==
    /\ At(c, "giveUp")
    /\ LET d == calls[c].delivery
       IN  \/ /\ rows[d] # NULL
              /\ Record(d, "failed", rows[d].attempts)
              /\ Continue(c)
              /\ UNCHANGED <<upset, faults>>
           \/ WriteFails(c) /\ upset' = upset \cup {d} /\ Throw(c) /\ UNCHANGED rows
    /\ UNCHANGED <<subs, sends, acked, retried>>

Die(c) ==
    /\ ~At(c, "idle")
    /\ faults < MaxFaults /\ faults' = faults + 1
    /\ Throw(c)
    /\ UNCHANGED <<subs, rows, history>>

-----------------------------------------------------------------------------
Step(c) ==
    \/ CreateDelivery(c) \/ Send(c) \/ WriteOutcome(c) \/ RewriteOutcome(c)
    \/ GiveUp(c)

Manage(s) ==
    \/ Subscribe(s)
    \/ /\ s \in Changing
       /\ \/ RotateSecret(s) \/ Remove(s)
          \/ \E on, newUrl \in BOOLEAN : Update(s, on, newUrl)

Next ==
    \/ \E s \in Subs : Manage(s)
    \/ \E c \in Slots :
         \/ Publish(c) \/ Step(c) \/ Die(c)
         \/ \E d \in Deliveries : Retry(c, d)

Spec == Init /\ [][Next]_vars

\* The event loop runs every call on, and fetch is bounded by its timeout.
FairSpec == Spec /\ \A c \in Slots : WF_vars(Step(c))

-----------------------------------------------------------------------------
(* Properties *)

\* The shapes of the tables and of the running calls.
TypeOK ==
    /\ subs \in [Subs -> Sub]
    /\ rows \in [Deliveries -> Row \cup {NULL}]
    /\ calls \in [Slots -> Call]
    /\ sends \in [Deliveries -> Nat]
    /\ acked \subseteq Deliveries /\ upset \subseteq Deliveries
    /\ retried \subseteq Deliveries
    /\ faults \in 0..MaxFaults

\* A status is the truth about the receiver: delivered means that it accepted
\* the request; failed means, unless somebody used the retry hook, that the
\* request was sent as often as allowed and, unless a write failed, that every
\* one of them was refused or lost (attempt and its catch block).
StatusHonest ==
    \A d \in Deliveries : rows[d] # NULL =>
      /\ rows[d].status = "delivered" => d \in acked
      /\ (rows[d].status = "failed" /\ d \notin retried) =>
           /\ sends[d] = MaxAttempts /\ rows[d].attempts = MaxAttempts
           /\ d \in acked => d \in upset

\* A receiver never sees a delivery more often than each use of the dispatcher
\* allows, whatever fails between sending and counting (attempt, retry).
SendsBounded ==
    \A d \in Deliveries : sends[d] <= IF d \in retried THEN 2 * MaxAttempts ELSE MaxAttempts

\* Without a fault every delivery is delivered, failed, or removed with its
\* subscription in the end, whatever owners do to subscriptions (publish).
DeliveriesSettle ==
    \A d \in Deliveries :
        (rows[d] # NULL /\ rows[d].status = "pending")
          ~> (rows[d] = NULL \/ rows[d].status # "pending" \/ faults > 0)
=============================================================================
