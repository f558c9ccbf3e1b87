--------------------------- MODULE WebhooksProofs ---------------------------
(***************************************************************************)
(* Machine-checked proofs about Webhooks, for every set of subscriptions,  *)
(* deliveries and concurrent dispatcher calls and every number of          *)
(* attempts.                                                               *)
(***************************************************************************)
EXTENDS Webhooks, TLAPS

Working == {"send", "write", "rewrite", "giveUp"}

\* Requests a call has sent for its delivery, counted in attempts or not yet.
Sent(k) == IF k.pc \in {"write", "rewrite"} THEN k.attempts + 1 ELSE k.attempts

On(c, d) == calls[c].delivery = d

\* Requests a call may still send for d.
Left(c, d) == IF On(c, d) THEN MaxAttempts - Sent(calls[c]) ELSE 0

Bound(d) == IF d \in retried THEN 2 * MaxAttempts ELSE MaxAttempts

CallShape(k) ==
    /\ k.pc \in Working => k.delivery \in Deliveries /\ k.sub \in Subs
    /\ k.pc \notin Working => k.delivery = NULL /\ k.attempts = 0
    /\ k.pc \in {"send", "write", "rewrite"} => k.attempts < MaxAttempts
    /\ k.pc = "giveUp" => k.attempts = MaxAttempts

CallInv(k) ==
    /\ CallShape(k)
    /\ k.pc = "write" /\ k.ok => k.delivery \in acked

\* What was sent and what may still be sent: a retry may run beside the call that
\* made the delivery, but no third one does.
BoundInv(d) ==
    /\ sends[d] <= Bound(d)
    /\ \A c \in Slots : sends[d] + Left(c, d) <= Bound(d)
    /\ \A c, e \in Slots : c # e => sends[d] + Left(c, d) + Left(e, d) <= Bound(d)
    /\ \A c, e, f \in Slots : (On(c, d) /\ On(e, d) /\ On(f, d)) => c = e \/ c = f \/ e = f

\* A delivery nobody retried has one call at most, which knows what was sent.
SoleInv(d) ==
    d \notin retried =>
      /\ \A c, e \in Slots : On(c, d) /\ On(e, d) => c = e
      /\ \A c \in Slots : On(c, d) =>
           /\ sends[d] = Sent(calls[c])
           /\ rows[d] # NULL => rows[d].status = "pending" /\ rows[d].attempts = calls[c].attempts
           /\ d \in acked => d \in upset \/ (At(c, "write") /\ calls[c].ok)

DeliveryInv(d) ==
    /\ d \in acked => sends[d] > 0
    /\ BoundInv(d)
    /\ SoleInv(d)

\* StatusHonest, for one delivery.
Honest(d) ==
    rows[d] # NULL =>
      /\ rows[d].status = "delivered" => d \in acked
      /\ (rows[d].status = "failed" /\ d \notin retried) =>
           /\ sends[d] = MaxAttempts /\ rows[d].attempts = MaxAttempts
           /\ d \in acked => d \in upset

IInv ==
    /\ TypeOK
    /\ \A c \in Slots : CallInv(calls[c])
    /\ \A d \in Deliveries : DeliveryInv(d) /\ Honest(d)

-----------------------------------------------------------------------------
\* attempts never passes the limit, the request not yet counted included.
LEMMA SentType ==
  ASSUME NEW k \in Call, CallShape(k)
  PROVE  /\ Sent(k) \in Nat /\ Sent(k) <= MaxAttempts /\ MaxAttempts \in Nat
         /\ k.pc = "send" => Sent(k) < MaxAttempts
         /\ k.delivery # NULL => k.pc \in Working
  BY WebhooksAssumption DEF Call, CallShape, Sent, Working

\* Nothing is left to send for another's delivery, nor less than nothing for one's own.
LEMMA LeftType ==
  ASSUME TypeOK, \A c \in Slots : CallInv(calls[c])
  PROVE  \A c \in Slots, d \in Deliveries :
           /\ Left(c, d) \in Nat
           /\ On(c, d) => calls[c].pc \in Working
           /\ On(c, d) /\ calls[c].pc = "send" => Left(c, d) >= 1
  <1> TAKE c \in Slots, d \in Deliveries
  <1>1. calls[c] \in Call /\ CallShape(calls[c])
    BY DEF TypeOK, CallInv
  <1> QED
    BY <1>1, SentType, WebhooksAssumption DEF Left, On

\* A finished or dead call.
LEMMA IdleCall == Idle \in Call /\ CallShape(Idle) /\ Idle.pc = "idle" /\ Idle.delivery = NULL
  BY WebhooksAssumption DEF Idle, Call, CallShape, Working

\* No delivery exists and no call runs at the start.
LEMMA InitInv == Init => IInv
  <1> SUFFICES ASSUME Init PROVE IInv
    OBVIOUS
  <1>1. TypeOK
    BY IdleCall, WebhooksAssumption DEF Init, TypeOK, Sub
  <1>2. \A c \in Slots : CallInv(calls[c])
    BY IdleCall DEF Init, CallInv
  <1>3. \A c \in Slots, d \in Deliveries : ~On(c, d)
    BY IdleCall, WebhooksAssumption DEF Init, On
  <1>4. \A d \in Deliveries : DeliveryInv(d)
    BY <1>3, WebhooksAssumption DEF Init, DeliveryInv, BoundInv, SoleInv, Left, Bound
  <1>5. \A d \in Deliveries : Honest(d)
    BY DEF Init, Honest
  <1> QED
    BY <1>1, <1>2, <1>4, <1>5 DEF IInv

-----------------------------------------------------------------------------
\* Nobody has more left to send than before.
LEMMA BoundKept ==
  ASSUME IInv, NEW d \in Deliveries, sends'[d] = sends[d], d \in retried' <=> d \in retried,
         \A c \in Slots : /\ On(c, d)' => On(c, d)
                          /\ Left(c, d)' \in Nat /\ Left(c, d)' <= Left(c, d)
  PROVE  BoundInv(d)'
  <1>1. BoundInv(d) /\ sends[d] \in Nat /\ Bound(d) \in Nat /\ Bound(d)' = Bound(d)
    BY WebhooksAssumption DEF IInv, DeliveryInv, Bound, TypeOK
  <1>2. \A c \in Slots : Left(c, d) \in Nat
    BY LeftType DEF IInv
  <1>3. ASSUME NEW c \in Slots PROVE sends'[d] + Left(c, d)' <= Bound(d)'
    <2>1. sends[d] + Left(c, d) <= Bound(d)
      BY <1>1 DEF BoundInv
    <2> QED
      BY <1>1, <1>2, <2>1
  <1>4. ASSUME NEW c \in Slots, NEW e \in Slots, c # e
        PROVE  sends'[d] + Left(c, d)' + Left(e, d)' <= Bound(d)'
    <2>1. sends[d] + Left(c, d) + Left(e, d) <= Bound(d)
      BY <1>1, <1>4 DEF BoundInv
    <2>2. /\ Left(c, d) \in Nat /\ Left(e, d) \in Nat /\ Left(c, d)' \in Nat /\ Left(e, d)' \in Nat
          /\ Left(c, d)' <= Left(c, d) /\ Left(e, d)' <= Left(e, d)
      BY <1>2
    <2> QED
      BY <1>1, <2>1, <2>2
  <1>5. sends'[d] <= Bound(d)'
    BY <1>1 DEF BoundInv
  <1>6. \A c, e, f \in Slots : (On(c, d)' /\ On(e, d)' /\ On(f, d)') => c = e \/ c = f \/ e = f
    BY <1>1 DEF BoundInv
  <1> QED
    BY <1>3, <1>4, <1>5, <1>6 DEF BoundInv

\* A call moves and d is not what it works on afterwards.
LEMMA OtherDelivery ==
  ASSUME IInv, NEW c \in Slots, NEW k \in Call, Become(c, k), CallShape(k),
         NEW d \in Deliveries, k.delivery # d,
         sends'[d] = sends[d], d \in acked' <=> d \in acked, d \in retried' <=> d \in retried,
         d \in upset => d \in upset',
         \/ rows'[d] = rows[d] \/ rows'[d] = NULL
         \/ \A e \in Slots \ {c} : ~On(e, d) \/ d \in retried
  PROVE  DeliveryInv(d)'
  <1>1. calls'[c] = k /\ \A e \in Slots \ {c} : calls'[e] = calls[e]
    BY DEF IInv, TypeOK, Become
  <1>2. DeliveryInv(d) /\ \A e \in Slots : Left(e, d) \in Nat
    BY LeftType DEF IInv
  <1>3. \A e \in Slots : On(e, d)' => On(e, d) /\ calls'[e] = calls[e] /\ e # c
    BY <1>1 DEF On
  <1>4. \A e \in Slots : Left(e, d)' = Left(e, d) \/ Left(e, d)' = 0
    BY <1>1, <1>3 DEF Left, On
  <1>5. BoundInv(d)'
    BY <1>2, <1>3, <1>4, BoundKept
  <1>6. SoleInv(d)'
    BY <1>2, <1>3 DEF DeliveryInv, SoleInv, At
  <1> QED
    BY <1>2, <1>5, <1>6 DEF DeliveryInv

\* A call moves on with its delivery and sends nothing.
LEMMA OwnDelivery ==
  ASSUME IInv, NEW c \in Slots, NEW k \in Call, Become(c, k), CallShape(k),
         NEW d \in Deliveries, On(c, d), k.delivery = d, Sent(k) = Sent(calls[c]),
         sends'[d] = sends[d], d \in acked' <=> d \in acked, d \in retried' <=> d \in retried,
         d \notin retried =>
           /\ rows'[d] # NULL => rows'[d].status = "pending" /\ rows'[d].attempts = k.attempts
           /\ d \in acked => d \in upset' \/ (k.pc = "write" /\ k.ok)
  PROVE  DeliveryInv(d)'
  <1>1. calls'[c] = k /\ \A e \in Slots \ {c} : calls'[e] = calls[e]
    BY DEF IInv, TypeOK, Become
  <1>2. DeliveryInv(d) /\ \A e \in Slots : Left(e, d) \in Nat
    BY LeftType DEF IInv
  <1>3. \A e \in Slots : On(e, d)' <=> On(e, d)
    BY <1>1 DEF On
  <1>4. \A e \in Slots : Left(e, d)' = Left(e, d)
    BY <1>1, <1>3 DEF Left, On
  <1>5. BoundInv(d)'
    BY <1>2, <1>3, <1>4, BoundKept
  <1>6. SoleInv(d)'
    BY <1>1, <1>2, <1>3 DEF DeliveryInv, SoleInv, At
  <1> QED
    BY <1>2, <1>5, <1>6 DEF DeliveryInv

\* A status that is not written stays true: while a request is under way nobody has
\* called the delivery failed yet, unless it was retried.
LEMMA HonestKept ==
  ASSUME IInv, NEW d \in Deliveries, rows'[d] = rows[d] \/ rows'[d] = NULL,
         d \in acked => d \in acked', d \in retried => d \in retried', d \in upset => d \in upset',
         \/ sends'[d] = sends[d] /\ (d \in acked' => d \in acked)
         \/ \E c \in Slots : On(c, d)
  PROVE  Honest(d)'
  <1>1. Honest(d) /\ SoleInv(d)
    BY DEF IInv, DeliveryInv
  <1> QED
    BY <1>1 DEF Honest, SoleInv

\* The calls after one of them moved.
LEMMA CallsKept ==
  ASSUME IInv, NEW c \in Slots, NEW k \in Call, Become(c, k), acked \subseteq acked',
         CallShape(k), k.pc = "write" /\ k.ok => k.delivery \in acked'
  PROVE  /\ calls' \in [Slots -> Call]
         /\ \A e \in Slots : CallInv(calls[e])'
  <1>1. /\ calls' \in [Slots -> Call] /\ calls'[c] = k
        /\ \A e \in Slots \ {c} : calls'[e] = calls[e]
    BY DEF IInv, TypeOK, Become
  <1>2. CallInv(calls[c])'
    BY <1>1 DEF CallInv
  <1>3. \A e \in Slots \ {c} : CallInv(calls[e])'
    BY <1>1 DEF IInv, CallInv
  <1> QED
    BY <1>1, <1>2, <1>3

-----------------------------------------------------------------------------
\* A call ends or enters while nothing is written.
LEMMA PlainMove ==
  ASSUME IInv, NEW c \in Slots, NEW k \in Call, Become(c, k), CallShape(k), k.delivery = NULL,
         upset' = upset \/ \E d \in Deliveries : upset' = upset \cup {d},
         faults' \in 0..MaxFaults, UNCHANGED <<subs, rows, sends, acked, retried>>
  PROVE  IInv'
  <1>1. k.pc \notin Working
    BY WebhooksAssumption DEF CallShape
  <1>2. calls' \in [Slots -> Call] /\ \A e \in Slots : CallInv(calls[e])'
    BY <1>1, CallsKept DEF Working
  <1>3. TypeOK'
    BY <1>2 DEF IInv, TypeOK
  <1>4. \A d \in Deliveries : DeliveryInv(d)'
    BY OtherDelivery, WebhooksAssumption
  <1>5. \A d \in Deliveries : Honest(d)'
    BY HonestKept
  <1> QED
    BY <1>2, <1>3, <1>4, <1>5 DEF IInv

\* Owners change subscriptions under running calls.
LEMMA ManageStep ==
  ASSUME IInv, NEW s \in Subs, Manage(s)
  PROVE  IInv'
  <1>1. /\ UNCHANGED <<calls, sends, acked, retried, upset, faults>>
        /\ \A d \in Deliveries : rows'[d] = rows[d] \/ rows'[d] = NULL
        /\ rows' \in [Deliveries -> Row \cup {NULL}]
    BY DEF Manage, Subscribe, RotateSecret, Remove, Update, history, IInv, TypeOK
  <1>2. subs' \in [Subs -> Sub]
    <2>1. subs[s] \in Sub
      BY DEF IInv, TypeOK
    <2>2. ASSUME NEW state \in {"live", "gone"}, NEW on \in BOOLEAN, NEW n \in 0..MaxChanges,
                 subs' = [subs EXCEPT ![s] = [state |-> state, on |-> on, version |-> n]]
          PROVE  subs' \in [Subs -> Sub]
      BY <2>2 DEF IInv, TypeOK, Sub
    <2>3. CASE Subscribe(s) \/ Remove(s)
      <3>1. 0 \in 0..MaxChanges
        BY WebhooksAssumption
      <3> QED
        BY <2>2, <2>3, <3>1 DEF Subscribe, Remove
    <2>4. CASE RotateSecret(s)
      <3>1. subs[s].version + 1 \in 0..MaxChanges /\ subs[s].on \in BOOLEAN
        BY <2>1, <2>4, WebhooksAssumption DEF RotateSecret, Sub
      <3> QED
        BY <2>2, <2>4, <3>1 DEF RotateSecret
    <2>5. ASSUME NEW on \in BOOLEAN, NEW newUrl \in BOOLEAN, Update(s, on, newUrl)
          PROVE  subs' \in [Subs -> Sub]
      <3>1. PICK n \in 0..MaxChanges : n = IF newUrl THEN subs[s].version + 1 ELSE subs[s].version
        BY <2>1, <2>5, WebhooksAssumption DEF Update, Sub
      <3>2. subs' = [subs EXCEPT ![s] = [state |-> "live", on |-> on, version |-> n]]
        BY <2>5, <3>1 DEF Update
      <3> QED
        BY <2>2, <3>2
    <2> QED
      BY <2>3, <2>4, <2>5 DEF Manage
  <1>3. TypeOK' /\ \A c \in Slots : CallInv(calls[c])'
    BY <1>1, <1>2 DEF IInv, TypeOK, CallInv
  <1>4. ASSUME NEW d \in Deliveries PROVE DeliveryInv(d)' /\ Honest(d)'
    <2>1. DeliveryInv(d)
      BY DEF IInv
    <2>2. BoundInv(d)'
      BY <1>1, <2>1 DEF DeliveryInv, BoundInv, Bound, Left, On
    <2>3. SoleInv(d)'
      BY <1>1, <2>1 DEF DeliveryInv, SoleInv, On, At
    <2>4. Honest(d)'
      BY <1>1, HonestKept
    <2> QED
      BY <1>1, <2>1, <2>2, <2>3, <2>4 DEF DeliveryInv
  <1> QED
    BY <1>3, <1>4 DEF IInv

\* publish lists the subscriptions.
LEMMA PublishStep ==
  ASSUME IInv, NEW c \in Slots, Publish(c)
  PROVE  IInv'
  <1> DEFINE todo == FindActiveForEvent
             listed == [s \in Subs |-> IF s \in todo THEN subs[s].version ELSE 0]
             k == [Idle EXCEPT !.pc = "create", !.todo = todo, !.listed = listed]
  <1>1. Become(c, k) /\ UNCHANGED <<subs, rows, history, faults>>
    BY DEF Publish
  <1>2. todo \in SUBSET Subs /\ listed \in [Subs -> 0..MaxChanges]
    BY WebhooksAssumption DEF FindActiveForEvent, IInv, TypeOK, Sub
  <1> HIDE DEF todo, listed
  <1>3. k \in Call /\ k.pc = "create" /\ k.delivery = NULL /\ k.attempts = 0
    BY <1>2, IdleCall DEF Call, CallShape, Working
  <1>4. CallShape(k)
    BY <1>3 DEF CallShape, Working
  <1>5. faults' \in 0..MaxFaults
    BY <1>1 DEF IInv, TypeOK
  <1> QED
    BY <1>1, <1>3, <1>4, <1>5, PlainMove DEF history

\* What publish's loop goes on with.
LEMMA ContinueCall ==
  ASSUME IInv, NEW c \in Slots, Continue(c)
  PROVE  \E k \in Call : Become(c, k) /\ CallShape(k) /\ k.delivery = NULL
  <1>1. CASE calls[c].todo = {}
    BY <1>1, IdleCall DEF Continue
  <1>2. CASE calls[c].todo # {}
    <2> DEFINE listed == [s \in Subs |-> IF s \in calls[c].todo THEN calls[c].listed[s] ELSE 0]
               k == [calls[c] EXCEPT !.pc = "create", !.sub = NULL, !.delivery = NULL,
                                     !.listed = listed, !.attempts = 0, !.ok = FALSE]
    <2>1. calls[c] \in Call
      BY DEF IInv, TypeOK
    <2>2. listed \in [Subs -> 0..MaxChanges]
      BY <2>1, WebhooksAssumption DEF Call
    <2>3. Become(c, k)
      BY <1>2 DEF Continue
    <2> HIDE DEF listed
    <2>6. 0 \in 0..MaxAttempts
      BY WebhooksAssumption
    <2>4. k \in Call /\ k.pc = "create" /\ k.delivery = NULL /\ k.attempts = 0
      BY <2>1, <2>2, <2>6 DEF Call
    <2>5. CallShape(k)
      BY <2>4 DEF CallShape, Working
    <2> HIDE DEF k
    <2> QED
      BY <2>3, <2>4, <2>5
  <1> QED
    BY <1>1, <1>2

\* The turn after a failure that was counted.
LEMMA FailureCall ==
  ASSUME IInv, NEW c \in Slots, calls[c].pc \in {"write", "rewrite"},
         AfterFailure(c, Counted(calls[c]))
  PROVE  \E k \in Call : /\ Become(c, k) /\ CallShape(k)
                         /\ k.delivery = calls[c].delivery /\ k.pc \in {"send", "giveUp"}
                         /\ Sent(k) = Sent(calls[c]) /\ k.attempts = calls[c].attempts + 1
  <1>1. calls[c] \in Call /\ CallShape(calls[c])
    BY DEF IInv, TypeOK, CallInv
  <1>2. PICK n \in 0..MaxAttempts : n = calls[c].attempts + 1
    BY <1>1, WebhooksAssumption DEF Call, CallShape
  <1>3. PICK pc \in {"send", "giveUp"} : pc = IF n >= MaxAttempts THEN "giveUp" ELSE "send"
    OBVIOUS
  <1> DEFINE k == [calls[c] EXCEPT !.pc = pc, !.attempts = n, !.ok = FALSE]
  <1>4. Become(c, k)
    BY <1>2, <1>3 DEF AfterFailure, Counted
  <1>5. k \in Call /\ k.pc = pc /\ k.attempts = n /\ k.delivery = calls[c].delivery /\ k.sub = calls[c].sub
    BY <1>1 DEF Call
  <1> HIDE DEF k
  <1>6. CallShape(k)
    BY <1>1, <1>3, <1>5, WebhooksAssumption DEF CallShape, Working
  <1>7. Sent(k) = Sent(calls[c])
    BY <1>2, <1>5 DEF Sent
  <1> QED
    BY <1>2, <1>4, <1>5, <1>6, <1>7

\* The insert of a delivery under a new id.
LEMMA CreateDeliveryStep ==
  ASSUME IInv, NEW c \in Slots, CreateDelivery(c)
  PROVE  IInv'
  <1>1. calls[c] \in Call /\ CallShape(calls[c]) /\ calls[c].pc = "create"
    BY DEF IInv, TypeOK, CallInv, CreateDelivery, At
  <1>2. PICK s \in calls[c].todo :
          \/ /\ rows' = [rows EXCEPT ![NewId] = [sub |-> s, status |-> "pending", attempts |-> 0]]
             /\ Become(c, [calls[c] EXCEPT !.pc = "send", !.todo = calls[c].todo \ {s},
                                           !.sub = s, !.delivery = NewId])
          \/ Throw(c) /\ UNCHANGED rows
    BY DEF CreateDelivery
  <1>3. faults' \in 0..MaxFaults /\ UNCHANGED <<subs, sends, acked, retried, upset, faults>>
    BY DEF CreateDelivery, history, IInv, TypeOK
  <1>4. CASE Throw(c) /\ UNCHANGED rows
    BY <1>3, <1>4, IdleCall, PlainMove DEF Throw
  <1>5. CASE ~(Throw(c) /\ UNCHANGED rows)
    <2>1. PICK f \in Fresh : f = NewId
      BY DEF CreateDelivery, NewId
    <2>2. f \in Deliveries /\ rows[f] = NULL /\ sends[f] = 0 /\ \A e \in Slots : ~On(e, f)
      BY DEF Fresh, On
    <2> DEFINE k == [calls[c] EXCEPT !.pc = "send", !.todo = calls[c].todo \ {s},
                                     !.sub = s, !.delivery = f]
               new == [sub |-> s, status |-> "pending", attempts |-> 0]
    <2>3. rows' = [rows EXCEPT ![f] = new] /\ Become(c, k)
      BY <1>2, <1>5, <2>1
    <2>4. s \in Subs
      BY <1>1 DEF Call
    <2>5. /\ k \in Call /\ k.pc = "send" /\ k.delivery = f /\ k.sub = s
          /\ k.attempts = calls[c].attempts /\ k.ok = calls[c].ok
      BY <1>1, <2>2, <2>4 DEF Call
    <2>6. calls[c].attempts = 0
      BY <1>1 DEF CallShape, Working
    <2>7. CallShape(k) /\ Sent(k) = 0
      BY <2>2, <2>4, <2>5, <2>6, WebhooksAssumption DEF CallShape, Working, Sent
    <2>8. new \in Row /\ new # NULL /\ new.status = "pending" /\ new.attempts = 0
      BY <2>4, WebhooksAssumption DEF Row
    <2> HIDE DEF k, new
    <2>9. /\ rows' \in [Deliveries -> Row \cup {NULL}] /\ rows'[f] = new
          /\ \A d \in Deliveries \ {f} : rows'[d] = rows[d]
      BY <2>2, <2>3, <2>8 DEF IInv, TypeOK
    <2>10. calls' \in [Slots -> Call] /\ \A e \in Slots : CallInv(calls[e])'
      BY <1>3, <2>3, <2>5, <2>7, CallsKept
    <2>11. TypeOK'
      BY <1>3, <2>9, <2>10 DEF IInv, TypeOK
    <2>12. \A d \in Deliveries \ {f} : DeliveryInv(d)' /\ Honest(d)'
      BY <1>3, <2>3, <2>5, <2>7, <2>9, OtherDelivery, HonestKept
    <2>13. calls'[c] = k /\ \A e \in Slots : On(e, f)' => e = c
      BY <2>2, <2>3 DEF IInv, TypeOK, Become, On
    <2>14. f \notin acked
      BY <2>2 DEF IInv, DeliveryInv
    <2>15. BoundInv(f)'
      <3>1. \A e \in Slots : Left(e, f)' = IF e = c THEN MaxAttempts ELSE 0
        BY <2>5, <2>7, <2>13, WebhooksAssumption DEF Left, On
      <3>2. sends'[f] = 0 /\ Bound(f)' \in Nat /\ Bound(f)' >= MaxAttempts
        BY <1>3, <2>2, WebhooksAssumption DEF Bound
      <3> QED
        BY <2>13, <3>1, <3>2, WebhooksAssumption DEF BoundInv
    <2>16. SoleInv(f)'
      BY <1>3, <2>2, <2>5, <2>6, <2>7, <2>8, <2>9, <2>13, <2>14 DEF SoleInv
    <2>17. DeliveryInv(f)' /\ Honest(f)'
      BY <1>3, <2>8, <2>9, <2>14, <2>15, <2>16 DEF DeliveryInv, Honest
    <2> QED
      BY <2>10, <2>11, <2>12, <2>17 DEF IInv
  <1> QED
    BY <1>4, <1>5

\* A call writes its delivery's row and touches no other.
LEMMA RowStep ==
  ASSUME IInv, NEW c \in Slots, NEW k \in Call, Become(c, k), CallShape(k), k.pc # "write",
         NEW d \in Deliveries, k.delivery \in {NULL, d},
         rows' \in [Deliveries -> Row \cup {NULL}],
         \A e \in Deliveries \ {d} : rows'[e] = rows[e],
         upset' = upset \/ upset' = upset \cup {d}, faults' \in 0..MaxFaults,
         UNCHANGED <<subs, sends, acked, retried>>, DeliveryInv(d)', Honest(d)'
  PROVE  IInv'
  <1>1. calls' \in [Slots -> Call] /\ \A e \in Slots : CallInv(calls[e])'
    BY CallsKept
  <1>2. TypeOK'
    BY <1>1 DEF IInv, TypeOK
  <1>3. \A e \in Deliveries \ {d} : DeliveryInv(e)' /\ Honest(e)'
    BY OtherDelivery, HonestKept, WebhooksAssumption
  <1> QED
    BY <1>1, <1>2, <1>3 DEF IInv

\* The row after an update.
LEMMA RecordType ==
  ASSUME IInv, NEW d \in Deliveries, rows[d] # NULL,
         NEW status \in {"pending", "delivered", "failed"}, NEW n \in 0..MaxAttempts,
         Record(d, status, n)
  PROVE  /\ rows' \in [Deliveries -> Row \cup {NULL}]
         /\ rows'[d] # NULL /\ rows'[d].status = status /\ rows'[d].attempts = n
         /\ \A e \in Deliveries \ {d} : rows'[e] = rows[e]
  <1> DEFINE new == [sub |-> rows[d].sub, status |-> status, attempts |-> n]
  <1>1. rows[d] \in Row
    BY DEF IInv, TypeOK
  <1>2. new \in Row /\ new # NULL /\ new.status = status /\ new.attempts = n
    BY <1>1, WebhooksAssumption DEF Row
  <1>3. rows' = [rows EXCEPT ![d] = new]
    BY DEF Record
  <1> HIDE DEF new
  <1> QED
    BY <1>2, <1>3 DEF IInv, TypeOK

\* A failed attempt is counted: by the try block, or by the catch block after a
\* failed write.
LEMMA CountedStep ==
  ASSUME IInv, NEW c \in Slots, calls[c].pc \in {"write", "rewrite"},
         calls[c].pc = "write" => ~calls[c].ok,
         rows[calls[c].delivery] # NULL,
         Record(calls[c].delivery, rows[calls[c].delivery].status, Counted(calls[c])),
         AfterFailure(c, Counted(calls[c])),
         UNCHANGED <<subs, sends, acked, retried, upset, faults>>
  PROVE  IInv'
  <1>1. calls[c] \in Call /\ CallShape(calls[c])
    BY DEF IInv, TypeOK, CallInv
  <1>2. PICK d \in Deliveries : d = calls[c].delivery
    BY <1>1 DEF CallShape, Working
  <1>3. PICK n \in 0..MaxAttempts : n = calls[c].attempts + 1
    BY <1>1, WebhooksAssumption DEF Call, CallShape
  <1>4. PICK status \in {"pending", "delivered", "failed"} : status = rows[d].status
    BY <1>2 DEF IInv, TypeOK, Row
  <1>5. Record(d, status, n)
    BY <1>2, <1>3, <1>4 DEF Counted
  <1>6. /\ rows' \in [Deliveries -> Row \cup {NULL}]
        /\ rows'[d] # NULL /\ rows'[d].status = status /\ rows'[d].attempts = n
        /\ \A e \in Deliveries \ {d} : rows'[e] = rows[e]
    BY <1>2, <1>5, RecordType
  <1>7. PICK k \in Call : /\ Become(c, k) /\ CallShape(k)
                          /\ k.delivery = d /\ k.pc \in {"send", "giveUp"}
                          /\ Sent(k) = Sent(calls[c]) /\ k.attempts = n
    BY <1>2, <1>3, FailureCall
  <1>8. On(c, d) /\ SoleInv(d) /\ Honest(d) /\ faults \in 0..MaxFaults
    BY <1>2 DEF IInv, DeliveryInv, On, TypeOK
  <1>9. d \notin retried => status = "pending" /\ (d \in acked => d \in upset)
    BY <1>2, <1>4, <1>8 DEF SoleInv, At
  <1>10. DeliveryInv(d)'
    BY <1>6, <1>7, <1>8, <1>9, OwnDelivery
  <1>11. Honest(d)'
    BY <1>4, <1>6, <1>8, <1>9, <1>2 DEF Honest
  <1> QED
    BY <1>6, <1>7, <1>8, <1>10, <1>11, RowStep

\* The update after the answer: the receiver's yes, its no, or a write that fails.
LEMMA WriteOutcomeStep ==
  ASSUME IInv, NEW c \in Slots, WriteOutcome(c)
  PROVE  IInv'
  <1>1. calls[c] \in Call /\ CallInv(calls[c]) /\ CallShape(calls[c]) /\ calls[c].pc = "write"
    BY DEF IInv, TypeOK, CallInv, WriteOutcome, At
  <1>2. PICK d \in Deliveries : d = calls[c].delivery
    BY <1>1 DEF CallShape, Working
  <1>3. UNCHANGED <<subs, sends, acked, retried>> /\ faults \in 0..MaxFaults
    BY DEF WriteOutcome, IInv, TypeOK
  <1>4. On(c, d) /\ SoleInv(d) /\ Honest(d) /\ DeliveryInv(d)
    BY <1>2 DEF IInv, DeliveryInv, On
  <1>5. CASE /\ rows[d] # NULL /\ calls[c].ok /\ Record(d, "delivered", Counted(calls[c]))
             /\ Continue(c) /\ UNCHANGED <<upset, faults>>
    <2>1. PICK n \in 0..MaxAttempts : n = Counted(calls[c])
      BY <1>1, WebhooksAssumption DEF Call, CallShape, Counted
    <2>2. /\ rows' \in [Deliveries -> Row \cup {NULL}]
          /\ rows'[d] # NULL /\ rows'[d].status = "delivered" /\ rows'[d].attempts = n
          /\ \A e \in Deliveries \ {d} : rows'[e] = rows[e]
      BY <1>5, <2>1, RecordType
    <2>3. PICK k \in Call : Become(c, k) /\ CallShape(k) /\ k.delivery = NULL
      BY <1>5, ContinueCall
    <2>4. k.pc # "write" /\ k.delivery # d
      BY <2>3, WebhooksAssumption DEF CallShape, Working
    <2>5. \A e \in Slots \ {c} : ~On(e, d) \/ d \in retried
      BY <1>4 DEF SoleInv
    <2>6. DeliveryInv(d)'
      BY <1>3, <1>5, <2>3, <2>4, <2>5, OtherDelivery
    <2>7. Honest(d)'
      BY <1>1, <1>2, <1>3, <1>5, <2>2 DEF Honest, CallInv
    <2> QED
      BY <1>3, <1>5, <2>2, <2>3, <2>4, <2>6, <2>7, RowStep
  <1>6. CASE /\ rows[d] # NULL /\ ~calls[c].ok /\ Record(d, rows[d].status, Counted(calls[c]))
             /\ AfterFailure(c, Counted(calls[c])) /\ UNCHANGED <<upset, faults>>
    BY <1>1, <1>2, <1>3, <1>6, CountedStep
  <1>7. CASE /\ WriteFails(c) /\ upset' = upset \cup {d}
             /\ Become(c, [calls[c] EXCEPT !.pc = "rewrite", !.ok = FALSE]) /\ UNCHANGED rows
    <2> DEFINE k == [calls[c] EXCEPT !.pc = "rewrite", !.ok = FALSE]
    <2>1. /\ k \in Call /\ k.pc = "rewrite" /\ k.delivery = d /\ k.attempts = calls[c].attempts
          /\ k.sub = calls[c].sub
      BY <1>1, <1>2 DEF Call
    <2>2. Become(c, k)
      BY <1>7
    <2> HIDE DEF k
    <2>3. CallShape(k) /\ Sent(k) = Sent(calls[c])
      BY <1>1, <2>1 DEF CallShape, Working, Sent
    <2>4. faults' \in 0..MaxFaults
      BY <1>3, <1>7, WebhooksAssumption DEF WriteFails
    <2>5. DeliveryInv(d)'
      BY <1>3, <1>4, <1>7, <2>1, <2>2, <2>3, OwnDelivery DEF SoleInv
    <2>6. Honest(d)'
      BY <1>3, <1>7, HonestKept
    <2>7. rows' \in [Deliveries -> Row \cup {NULL}]
      BY <1>7 DEF IInv, TypeOK
    <2> QED
      BY <1>3, <1>7, <2>1, <2>2, <2>3, <2>4, <2>5, <2>6, <2>7, RowStep
  <1> QED
    BY <1>2, <1>5, <1>6, <1>7 DEF WriteOutcome

\* The update of the catch block.
LEMMA RewriteOutcomeStep ==
  ASSUME IInv, NEW c \in Slots, RewriteOutcome(c)
  PROVE  IInv'
  <1>1. calls[c].pc = "rewrite" /\ UNCHANGED <<subs, sends, acked, retried, upset>>
    BY DEF RewriteOutcome, At, history
  <1>2. CASE WriteFails(c) /\ Throw(c) /\ UNCHANGED rows
    <2>1. faults' \in 0..MaxFaults
      BY <1>2, WebhooksAssumption DEF WriteFails, IInv, TypeOK
    <2> QED
      BY <1>1, <1>2, <2>1, IdleCall, PlainMove DEF Throw
  <1>3. CASE ~(WriteFails(c) /\ Throw(c) /\ UNCHANGED rows)
    BY <1>1, <1>3, CountedStep DEF RewriteOutcome
  <1> QED
    BY <1>2, <1>3

\* The delivery is marked failed, or that write fails too.
LEMMA GiveUpStep ==
  ASSUME IInv, NEW c \in Slots, GiveUp(c)
  PROVE  IInv'
  <1>1. calls[c] \in Call /\ CallShape(calls[c]) /\ calls[c].pc = "giveUp"
    BY DEF IInv, TypeOK, CallInv, GiveUp, At
  <1>2. PICK d \in Deliveries : d = calls[c].delivery
    BY <1>1 DEF CallShape, Working
  <1>3. UNCHANGED <<subs, sends, acked, retried>> /\ faults \in 0..MaxFaults
    BY DEF GiveUp, IInv, TypeOK
  <1>4. On(c, d) /\ SoleInv(d)
    BY <1>2 DEF IInv, DeliveryInv, On
  <1>5. CASE /\ rows[d] # NULL /\ Record(d, "failed", rows[d].attempts) /\ Continue(c)
             /\ UNCHANGED <<upset, faults>>
    <2>1. PICK n \in 0..MaxAttempts : n = rows[d].attempts
      BY <1>5 DEF IInv, TypeOK, Row
    <2>2. /\ rows' \in [Deliveries -> Row \cup {NULL}]
          /\ rows'[d] # NULL /\ rows'[d].status = "failed" /\ rows'[d].attempts = n
          /\ \A e \in Deliveries \ {d} : rows'[e] = rows[e]
      BY <1>5, <2>1, RecordType
    <2>3. PICK k \in Call : Become(c, k) /\ CallShape(k) /\ k.delivery = NULL
      BY <1>5, ContinueCall
    <2>4. k.pc # "write" /\ k.delivery # d
      BY <2>3, WebhooksAssumption DEF CallShape, Working
    <2>5. \A e \in Slots \ {c} : ~On(e, d) \/ d \in retried
      BY <1>4 DEF SoleInv
    <2>6. DeliveryInv(d)'
      BY <1>3, <1>5, <2>3, <2>4, <2>5, OtherDelivery
    <2>7. d \notin retried => /\ sends[d] = MaxAttempts /\ n = MaxAttempts
                              /\ d \in acked => d \in upset
      BY <1>1, <1>4, <1>5, <1>2, <2>1 DEF SoleInv, Sent, CallShape, At
    <2>8. Honest(d)'
      BY <1>3, <1>5, <2>2, <2>7 DEF Honest
    <2> QED
      BY <1>3, <1>5, <2>2, <2>3, <2>4, <2>6, <2>8, RowStep
  <1>6. CASE WriteFails(c) /\ upset' = upset \cup {d} /\ Throw(c) /\ UNCHANGED rows
    <2>1. faults' \in 0..MaxFaults
      BY <1>3, <1>6, WebhooksAssumption DEF WriteFails
    <2> QED
      BY <1>3, <1>6, <2>1, IdleCall, PlainMove DEF Throw
  <1> QED
    BY <1>2, <1>5, <1>6 DEF GiveUp

\* A request goes out: one more sent, one less left to its call.
LEMMA SendStep ==
  ASSUME IInv, NEW c \in Slots, Send(c)
  PROVE  IInv'
  <1>1. calls[c] \in Call /\ CallShape(calls[c]) /\ calls[c].pc = "send"
    BY DEF IInv, TypeOK, CallInv, Send, At
  <1>2. PICK d \in Deliveries : d = calls[c].delivery
    BY <1>1 DEF CallShape, Working
  <1>3. UNCHANGED <<subs, rows, retried, upset, faults>> /\ sends' = [sends EXCEPT ![d] = @ + 1]
    BY <1>2 DEF Send
  <1>4. PICK ok \in BOOLEAN :
          /\ Become(c, [calls[c] EXCEPT !.pc = "write", !.ok = ok])
          /\ acked' = IF ok THEN acked \cup {d} ELSE acked
    BY <1>2 DEF Send
  <1> DEFINE k == [calls[c] EXCEPT !.pc = "write", !.ok = ok]
  <1>5. /\ k \in Call /\ k.pc = "write" /\ k.ok = ok /\ k.delivery = d
        /\ k.attempts = calls[c].attempts /\ k.sub = calls[c].sub
    BY <1>1, <1>2 DEF Call
  <1>6. Become(c, k)
    BY <1>4
  <1> HIDE DEF k
  <1>7. CallShape(k) /\ Sent(k) = Sent(calls[c]) + 1
    BY <1>1, <1>5 DEF CallShape, Working, Sent
  <1>8. calls' \in [Slots -> Call] /\ \A e \in Slots : CallInv(calls[e])'
    BY <1>4, <1>5, <1>6, <1>7, CallsKept
  <1>9. /\ sends' \in [Deliveries -> Nat] /\ sends'[d] = sends[d] + 1
        /\ \A e \in Deliveries \ {d} : sends'[e] = sends[e]
    BY <1>3 DEF IInv, TypeOK
  <1>10. TypeOK'
    BY <1>3, <1>4, <1>8, <1>9 DEF IInv, TypeOK
  <1>11. On(c, d) /\ DeliveryInv(d)
    BY <1>2 DEF IInv, On
  <1>12. \A e \in Deliveries \ {d} : DeliveryInv(e)' /\ Honest(e)'
    BY <1>3, <1>4, <1>5, <1>6, <1>7, <1>9, OtherDelivery, HonestKept
  <1>13. Honest(d)'
    BY <1>3, <1>4, <1>11, HonestKept
  <1>14. /\ calls'[c] = k /\ \A e \in Slots \ {c} : calls'[e] = calls[e]
         /\ \A e \in Slots : On(e, d)' <=> On(e, d)
    BY <1>5, <1>6, <1>11 DEF IInv, TypeOK, Become, On
  <1>15. SoleInv(d)'
    <2>1. SUFFICES ASSUME d \notin retried PROVE SoleInv(d)'
      BY <1>3 DEF SoleInv
    <2>2. /\ \A e \in Slots : On(e, d) => e = c
          /\ sends[d] = Sent(calls[c])
          /\ rows[d] # NULL => rows[d].status = "pending" /\ rows[d].attempts = calls[c].attempts
          /\ d \in acked => d \in upset
      BY <1>1, <1>11, <2>1 DEF DeliveryInv, SoleInv, At
    <2>3. d \in acked' => d \in upset' \/ (At(c, "write")' /\ calls'[c].ok)
      BY <1>3, <1>4, <1>5, <1>14, <2>2 DEF At
    <2>4. sends'[d] = Sent(calls[c])'
      BY <1>7, <1>9, <1>14, <2>2 DEF Sent
    <2> QED
      BY <1>3, <1>5, <1>14, <2>2, <2>3, <2>4 DEF SoleInv
  <1>16. BoundInv(d)'
    <2>1. \A e \in Slots : Left(e, d) \in Nat
      BY LeftType DEF IInv
    <2>2. Left(c, d) = MaxAttempts - Sent(calls[c]) /\ Left(c, d)' = MaxAttempts - Sent(k)
      BY <1>5, <1>11, <1>14 DEF Left, On
    <2>3. Left(c, d)' = Left(c, d) - 1 /\ Left(c, d) >= 1
      BY <1>1, <1>7, <2>2, SentType
    <2>4. \A e \in Slots \ {c} : Left(e, d)' = Left(e, d)
      BY <1>14 DEF Left
    <2>5. BoundInv(d) /\ sends[d] \in Nat /\ Bound(d) \in Nat /\ Bound(d)' = Bound(d)
      BY <1>3, <1>11, WebhooksAssumption DEF DeliveryInv, Bound, IInv, TypeOK
    <2>6. ASSUME NEW e \in Slots \ {c} PROVE sends'[d] + Left(e, d)' <= Bound(d)'
      <3>1. sends[d] + Left(c, d) + Left(e, d) <= Bound(d)
        BY <2>5 DEF BoundInv
      <3>2. Left(c, d) \in Nat /\ Left(e, d) \in Nat /\ Left(e, d)' = Left(e, d)
        BY <2>1, <2>4
      <3> QED
        BY <1>9, <2>3, <2>5, <3>1, <3>2
    <2>7. sends'[d] + Left(c, d)' <= Bound(d)' /\ sends'[d] <= Bound(d)'
      <3>1. sends[d] + Left(c, d) <= Bound(d) /\ Left(c, d) \in Nat
        BY <2>1, <2>5 DEF BoundInv
      <3> QED
        BY <1>9, <2>3, <2>5, <3>1
    <2>8. ASSUME NEW e \in Slots \ {c}
          PROVE  sends'[d] + Left(c, d)' + Left(e, d)' <= Bound(d)'
      <3>1. sends[d] + Left(c, d) + Left(e, d) <= Bound(d)
        BY <2>5 DEF BoundInv
      <3>2. Left(c, d) \in Nat /\ Left(e, d) \in Nat /\ Left(e, d)' = Left(e, d)
        BY <2>1, <2>4
      <3> QED
        BY <1>9, <2>3, <2>5, <3>1, <3>2
    <2>9. ASSUME NEW e \in Slots \ {c}, NEW f \in Slots \ {c}, e # f
          PROVE  sends'[d] + Left(e, d)' + Left(f, d)' <= Bound(d)'
      <3>1. Left(e, d)' = 0 \/ Left(f, d)' = 0
        BY <1>11, <2>4, <2>5, <2>9 DEF BoundInv, Left
      <3>2. sends'[d] + Left(e, d)' <= Bound(d)' /\ sends'[d] + Left(f, d)' <= Bound(d)'
        BY <2>6
      <3>3. sends'[d] \in Nat /\ Left(e, d)' \in Nat /\ Left(f, d)' \in Nat
        BY <1>9, <2>1, <2>4, <2>5
      <3> QED
        BY <2>5, <3>1, <3>2, <3>3
    <2>10. ASSUME NEW e \in Slots, NEW f \in Slots, e # f
           PROVE  sends'[d] + Left(e, d)' + Left(f, d)' <= Bound(d)'
      <3>1. CASE e = c
        BY <2>8, <2>10, <3>1
      <3>2. CASE f = c
        <4>1. sends'[d] + Left(c, d)' + Left(e, d)' <= Bound(d)'
          BY <2>8, <2>10, <3>2
        <4>2. sends'[d] \in Nat /\ Left(c, d)' \in Nat /\ Left(e, d)' \in Nat
          BY <1>9, <2>1, <2>3, <2>4, <2>5, <2>10, <3>2
        <4> QED
          BY <2>5, <3>2, <4>1, <4>2
      <3>3. CASE e # c /\ f # c
        BY <2>9, <2>10, <3>3
      <3> QED
        BY <3>1, <3>2, <3>3
    <2>11. ASSUME NEW e \in Slots PROVE sends'[d] + Left(e, d)' <= Bound(d)'
      BY <2>6, <2>7
    <2>12. \A e, f, g \in Slots : (On(e, d)' /\ On(f, d)' /\ On(g, d)') => e = f \/ e = g \/ f = g
      BY <1>14, <2>5 DEF BoundInv
    <2> QED
      BY <2>7, <2>10, <2>11, <2>12 DEF BoundInv
  <1>17. DeliveryInv(d)'
    BY <1>9, <1>11, <1>15, <1>16 DEF DeliveryInv, IInv, TypeOK
  <1> QED
    BY <1>8, <1>10, <1>12, <1>13, <1>17 DEF IInv

\* A retry begins, beside the call that made the delivery if that still runs: each
\* of the two has at most MaxAttempts requests left.
LEMMA RetryStep ==
  ASSUME IInv, NEW c \in Slots, NEW d \in Deliveries, Retry(c, d)
  PROVE  IInv'
  <1>1. /\ d \notin retried /\ retried' = retried \cup {d} /\ rows[d] # NULL
        /\ UNCHANGED <<subs, rows, sends, acked, upset, faults>> /\ calls[c].pc = "idle"
    BY DEF Retry, At
  <1>2. rows[d] \in Row
    BY <1>1 DEF IInv, TypeOK
  <1>3. PICK n \in 0..MaxAttempts, s \in Subs : n = rows[d].attempts /\ s = rows[d].sub
    BY <1>2 DEF Row
  <1>4. PICK pc \in {"send", "giveUp"} : pc = IF n < MaxAttempts THEN "send" ELSE "giveUp"
    OBVIOUS
  <1>5. PICK listed \in [Subs -> 0..MaxChanges] :
          listed = [Idle.listed EXCEPT ![s] = subs[s].version]
    <2>1. subs[s].version \in 0..MaxChanges /\ Idle.listed \in [Subs -> 0..MaxChanges]
      BY IdleCall DEF IInv, TypeOK, Sub, Call
    <2> QED
      BY <2>1
  <1> DEFINE k == [Idle EXCEPT !.pc = pc, !.sub = s, !.delivery = d, !.listed = listed,
                               !.attempts = n]
  <1>6. Become(c, k)
    BY <1>3, <1>4, <1>5 DEF Retry
  <1>7. /\ k \in Call /\ k.pc = pc /\ k.sub = s /\ k.delivery = d /\ k.attempts = n
    BY IdleCall DEF Call
  <1> HIDE DEF k
  <1>8. CallShape(k) /\ Sent(k) = n
    BY <1>4, <1>7, WebhooksAssumption DEF CallShape, Working, Sent
  <1>9. calls' \in [Slots -> Call] /\ \A e \in Slots : CallInv(calls[e])'
    BY <1>1, <1>4, <1>6, <1>7, <1>8, CallsKept
  <1>10. TypeOK'
    BY <1>1, <1>9 DEF IInv, TypeOK
  <1>11. \A e \in Deliveries \ {d} : DeliveryInv(e)'
    BY <1>1, <1>6, <1>7, <1>8, OtherDelivery
  <1>12. \A e \in Deliveries : Honest(e)'
    BY <1>1, HonestKept
  <1>13. calls'[c] = k /\ \A e \in Slots \ {c} : calls'[e] = calls[e]
    BY <1>6 DEF IInv, TypeOK, Become
  <1>14. BoundInv(d)'
    <2>1. /\ BoundInv(d) /\ SoleInv(d) /\ sends[d] \in Nat /\ MaxAttempts \in Nat
          /\ Bound(d) = MaxAttempts /\ Bound(d)' = 2 * MaxAttempts /\ sends'[d] = sends[d]
      BY <1>1, WebhooksAssumption DEF IInv, TypeOK, DeliveryInv, Bound
    <2>2. Left(c, d)' = MaxAttempts - n /\ Left(c, d)' \in Nat /\ Left(c, d)' <= MaxAttempts
      BY <1>7, <1>8, <1>13, <2>1 DEF Left, On
    <2>3. ASSUME NEW e \in Slots \ {c}
          PROVE  /\ Left(e, d)' \in Nat /\ sends[d] + Left(e, d)' <= MaxAttempts
                 /\ On(e, d)' <=> On(e, d)
      <3>1. Left(e, d)' = Left(e, d) /\ (On(e, d)' <=> On(e, d))
        BY <1>13 DEF Left, On
      <3>2. Left(e, d) \in Nat /\ sends[d] + Left(e, d) <= MaxAttempts
        BY <2>1, LeftType DEF IInv, BoundInv
      <3> QED
        BY <3>1, <3>2
    <2>4. sends'[d] <= Bound(d)' /\ sends[d] <= MaxAttempts
      BY <2>1 DEF BoundInv
    <2>5. ASSUME NEW e \in Slots PROVE sends'[d] + Left(e, d)' <= Bound(d)'
      <3>1. CASE e = c
        BY <2>1, <2>2, <2>4, <3>1
      <3>2. CASE e # c
        BY <2>1, <2>3, <3>2
      <3> QED
        BY <3>1, <3>2
    <2>6. ASSUME NEW e \in Slots, NEW f \in Slots, e # f, f # c
          PROVE  /\ sends'[d] + Left(e, d)' + Left(f, d)' <= Bound(d)'
                 /\ sends'[d] + Left(f, d)' + Left(e, d)' <= Bound(d)'
      <3>1. Left(f, d)' \in Nat /\ sends[d] + Left(f, d)' <= MaxAttempts
        BY <2>3, <2>6
      <3>2. Left(e, d)' \in Nat /\ Left(e, d)' <= MaxAttempts
        <4>1. CASE e = c
          BY <2>2, <4>1
        <4>2. CASE e # c
          <5>1. Left(e, d)' \in Nat /\ sends[d] + Left(e, d)' <= MaxAttempts
            BY <2>3, <4>2
          <5> QED
            BY <2>1, <5>1
        <4> QED
          BY <4>1, <4>2
      <3> QED
        BY <2>1, <3>1, <3>2
    <2>7. \A e, f \in Slots : e # f => sends'[d] + Left(e, d)' + Left(f, d)' <= Bound(d)'
      BY <2>6
    <2>8. \A e, f, g \in Slots : (On(e, d)' /\ On(f, d)' /\ On(g, d)') => e = f \/ e = g \/ f = g
      BY <1>1, <2>1, <2>3 DEF SoleInv
    <2> QED
      BY <2>4, <2>5, <2>7, <2>8 DEF BoundInv
  <1>15. DeliveryInv(d)'
    BY <1>1, <1>14 DEF IInv, DeliveryInv, SoleInv
  <1> QED
    BY <1>9, <1>10, <1>11, <1>12, <1>15 DEF IInv

\* The process dies with its timers.
LEMMA DieStep ==
  ASSUME IInv, NEW c \in Slots, Die(c)
  PROVE  IInv'
  <1>1. faults' \in 0..MaxFaults /\ UNCHANGED <<subs, rows, sends, acked, retried, upset>>
    BY WebhooksAssumption DEF Die, history, IInv, TypeOK
  <1> QED
    BY <1>1, IdleCall, PlainMove DEF Die, Throw

\* Every step keeps the inductive invariant.
LEMMA NextInv == IInv /\ [Next]_vars => IInv'
  <1> SUFFICES ASSUME IInv, [Next]_vars PROVE IInv'
    OBVIOUS
  <1>1. CASE UNCHANGED vars
    BY <1>1 DEF vars, IInv, TypeOK, CallInv, DeliveryInv, BoundInv, SoleInv, Honest, Bound,
                Left, On, At
  <1> QED
    BY <1>1, ManageStep, PublishStep, CreateDeliveryStep, SendStep, WriteOutcomeStep,
       RewriteOutcomeStep, GiveUpStep, DieStep, RetryStep DEF Next, Step

-----------------------------------------------------------------------------
\* The shapes of the tables and calls; attempts never passes maxAttempts.
THEOREM TypeCorrect == Spec => []TypeOK
  <1>1. IInv => TypeOK
    BY DEF IInv
  <1> QED
    BY <1>1, InitInv, NextInv, PTL DEF Spec

\* A receiver never sees a delivery more than maxAttempts times, twice that when it
\* was retried, although an attempt is counted only after it was sent and a retry may
\* run beside the loop of publish.
THEOREM SendsStayBounded == Spec => []SendsBounded
  <1>1. IInv => SendsBounded
    BY DEF IInv, DeliveryInv, BoundInv, Bound, SendsBounded
  <1> QED
    BY <1>1, InitInv, NextInv, PTL DEF Spec

\* delivered and failed tell the truth about the receiver, whatever writes fail
\* between the answer and its record, for every number of attempts.
THEOREM StatusesAreHonest == Spec => []StatusHonest
  <1>1. IInv => StatusHonest
    BY DEF IInv, Honest, StatusHonest
  <1> QED
    BY <1>1, InitInv, NextInv, PTL DEF Spec
=============================================================================
