----------------------------- MODULE HttpFront -----------------------------
(***************************************************************************)
(* From a request to its handler and its audit event: sessions             *)
(* (apps/api/src/auth), the route table, the guards, and the interceptor   *)
(* that records @Audited operations after they succeed, without being      *)
(* waited for (apps/api/src/audit).                                        *)
(***************************************************************************)
EXTENDS Routes

CONSTANTS
    Browsers,     \* clients with a cookie jar
    Users,        \* accounts of the organization
    RoleOf,       \* [Users -> Staff]
    Machines,     \* callers with a machine credential, named by their gate
    Asked,        \* handlers whose routes are requested
    MaxRequests,  \* bound on the requests made
    NULL

Callers == Browsers \cup Machines

ASSUME FrontAssumption ==
    /\ RoleOf \in [Users -> Staff]
    /\ Asked \subseteq {AppModule[n].h : n \in 1..Len(AppModule)}
    /\ Machines \subseteq {"worker", "mail", "oidc", "apiKey"}
    /\ MaxRequests \in Nat
    /\ NULL \notin Users

VARIABLES
    session,    \* the user whose token is in each browser's cookie
    calls,      \* the request each caller waits for
    writes,     \* audit writes started by the interceptor
    trail,      \* audit events in the table: <<operation, user>>
    lost,       \* audit writes that failed and were logged instead
    performed,  \* audited operations that succeeded: <<operation, user>>
    requests

vars == <<session, calls, writes, trail, lost, performed, requests>>

Call == [pc : {"idle", "handler", "refused"},
         asked : {AppModule[n].h : n \in 1..Len(AppModule)} \cup {NULL},
         got : {AppModule[n].h : n \in 1..Len(AppModule)} \cup {NULL},
         user : Users \cup {NULL}, entitled : BOOLEAN]  \* entitled: the guards of the route asked for let the caller in
NoCall == [pc |-> "idle", asked |-> NULL, got |-> NULL, user |-> NULL,
           entitled |-> FALSE]

Init ==
    /\ session = [b \in Browsers |-> NULL]
    /\ calls = [c \in Callers |-> NoCall]
    /\ writes = {} /\ trail = {} /\ lost = {}
    /\ performed = {}
    /\ requests = 0

-----------------------------------------------------------------------------
\* The account whose valid token the caller presents.
Presented(c) == IF c \in Browsers THEN session[c] ELSE NULL

\* JwtAuthGuard, then RolesGuard where the route names roles.
RolesGuard(r, c) == Presented(c) # NULL /\ RoleOf[Presented(c)] \in r.roles

\* The guards of the machine callers: each compares the credential presented
\* with the one configured for its own routes.
SharedTokenGuard(r, c) == r.gate \in {"worker", "mail"} /\ c = r.gate
SchedulerOidcGuard(r, c) == r.gate = "oidc" /\ c = r.gate
IngestionTokenGuard(r, c) == r.gate = "apiKey" /\ c = r.gate

Admits(r, c) ==
    \/ r.gate = "open"
    \/ r.gate = "session" /\ RolesGuard(r, c)
    \/ SharedTokenGuard(r, c) \/ SchedulerOidcGuard(r, c) \/ IngestionTokenGuard(r, c)

\* req.user is set by JwtAuthGuard and by nothing else.
Principal(r, c) == IF r.gate = "session" THEN Presented(c) ELSE NULL

RouteOf(h) == AppModule[CHOOSE n \in 1..Len(AppModule) : AppModule[n].h = h]

\* The caller may make one more request.
Send(c) ==
    /\ requests < MaxRequests
    /\ requests' = requests + 1
    /\ calls[c].pc = "idle"

\* A swallowed failure: the event is written or it is only logged.
Record(e) ==
    \/ trail' = trail \cup {e} /\ lost' = lost
    \/ lost' = lost \cup {e} /\ trail' = trail

-----------------------------------------------------------------------------
Login(b, u) ==
    /\ Send(b)
    /\ session[b] = NULL
    /\ session' = [session EXCEPT ![b] = u]
    /\ Record(<<"auth.login.success", u>>)
    /\ UNCHANGED <<calls, writes, performed>>

LoginFails(b, u) ==
    /\ Send(b)
    /\ session[b] = NULL
    /\ Record(<<"auth.login.failure", u>>)
    /\ UNCHANGED <<session, calls, writes, performed>>

\* The cookie is cleared; the event needs a principal.
Logout(b) ==
    /\ Send(b)
    /\ session[b] # NULL
    /\ session' = [session EXCEPT ![b] = NULL]
    /\ LET principal == Principal(RouteOf("auth.logout"), b)
       IN  IF principal # NULL THEN Record(<<"auth.logout", principal>>)
                               ELSE UNCHANGED <<trail, lost>>
    /\ UNCHANGED <<calls, writes, performed>>

\* The hour of the token and of its cookie is over.
Expire(b) ==
    /\ session[b] # NULL
    /\ session' = [session EXCEPT ![b] = NULL]
    /\ UNCHANGED <<calls, writes, trail, lost, performed, requests>>

-----------------------------------------------------------------------------
\* Express finds the route; its guards decide.
Request(c, h) ==
    /\ Send(c)
    /\ LET r == Answering(RouteOf(h))
       IN  calls' = [calls EXCEPT ![c] =
                        [pc |-> IF Admits(r, c) THEN "handler" ELSE "refused",
                         asked |-> h, got |-> r.h, user |-> Principal(r, c),
                         entitled |-> Admits(RouteOf(h), c)]]
    /\ UNCHANGED <<session, writes, trail, lost, performed>>

\* AuditInterceptor after a handler that returned: no principal, no event.
Intercepted(r, u) == IF r.audited /\ u # NULL THEN {<<r.h, u>>} ELSE {}

Succeed(c) ==
    /\ calls[c].pc = "handler"
    /\ LET r == RouteOf(calls[c].got)
       IN  /\ writes' = writes \cup Intercepted(r, calls[c].user)
           /\ performed' = IF r.audited THEN performed \cup {<<r.h, calls[c].user>>} ELSE performed
    /\ calls' = [calls EXCEPT ![c] = NoCall]
    /\ UNCHANGED <<session, trail, lost, requests>>

\* The handler threw, or the guards refused: nothing is recorded.
Throw(c) ==
    /\ calls[c].pc # "idle"
    /\ calls' = [calls EXCEPT ![c] = NoCall]
    /\ UNCHANGED <<session, writes, trail, lost, performed, requests>>

WriteEvent(e) ==
    /\ e \in writes
    /\ writes' = writes \ {e}
    /\ Record(e)
    /\ UNCHANGED <<session, calls, performed, requests>>

-----------------------------------------------------------------------------
Next ==
    \/ \E b \in Browsers, u \in Users : Login(b, u) \/ LoginFails(b, u)
    \/ \E b \in Browsers : Logout(b) \/ Expire(b)
    \/ \E c \in Callers, h \in Asked : Request(c, h)
    \/ \E c \in Callers : Succeed(c) \/ Throw(c)
    \/ \E e \in writes : WriteEvent(e)

Spec == Init /\ [][Next]_vars

-----------------------------------------------------------------------------
\* Every documented route is reached by those it is meant for: a caller who
\* satisfies the guards of the route runs its handler, whatever other route
\* patterns the application registered before it.
Reached ==
    \A c \in Callers :
        calls[c].entitled => calls[c].pc = "handler" /\ calls[c].got = calls[c].asked

\* An @Audited operation that succeeded left an event in the name of a user,
\* or one being written, or a failure that was logged: the interceptor never
\* finds itself without a principal.
AuditedOperationsLeaveEvents ==
    \A e \in performed : e \in trail \cup lost \cup writes /\ e[2] # NULL
=============================================================================
