---------------------------- MODULE InboundEmail ----------------------------
(***************************************************************************)
(* The inbound-email webhook (apps/api/src/ingestion/inbound-email) and    *)
(* the data-subject requests it opens.  The mail service is external: it   *)
(* delivers a message again until a delivery is answered with a 2xx, and   *)
(* may deliver one twice at once or later on.  A delivery whose signature  *)
(* or fields are refused changes nothing and is left out.                  *)
(***************************************************************************)
EXTENDS Naturals, FiniteSets

CONSTANTS
    Messages,       \* Message-Ids
    MailCalls,      \* concurrently running handlers
    MaxDeliveries,  \* bound on deliveries of one message
    MaxMailFaults   \* bound on failing writes and deaths

VARIABLES
    recipient,  \* what the To and From addresses of a message amount to
    mailbox,    \* the InboundEmail table
    requests,   \* DataSubjectRequest rows opened for a message
    mail,       \* the handler in each slot
    deliveries, \* deliveries of a message so far
    kept,       \* messages a delivery of which was answered with a 2xx
    mailFaults

vars == <<recipient, mailbox, requests, mail, deliveries, kept, mailFaults>>

\* dsr+<org>@ of an organization; the same with a From createRequest refuses;
\* dsr+<anything else>@; and any other address.
Recipients == {"dsr", "badSender", "unknownOrg", "other"}

Blank == [status |-> "none", request |-> 0]
Email == [status : {"none", "routed", "unrouted"}, request : 0..MaxDeliveries]
Free == [pc |-> "idle", message |-> "none", status |-> "none", request |-> 0]
Handler == [pc : {"idle", "open", "auditRequest", "insert", "auditMail"},
            message : Messages \cup {"none"}, status : {"none", "routed", "unrouted"},
            request : 0..MaxDeliveries]

Init ==
    /\ recipient \in [Messages -> Recipients]
    /\ mailbox = [m \in Messages |-> Blank]
    /\ requests = [m \in Messages |-> 0]
    /\ mail = [c \in MailCalls |-> Free]
    /\ deliveries = [m \in Messages |-> 0]
    /\ kept = {}
    /\ mailFaults = 0

At(c, pc) == mail[c].pc = pc
Become(c, h) == mail' = [mail EXCEPT ![c] = h]
Throw(c) == Become(c, Free)
Fault == mailFaults < MaxMailFaults /\ mailFaults' = mailFaults + 1
Known(m) == mailbox[m].status # "none"

-----------------------------------------------------------------------------
\* parseRecipient and the test of createRequest decide what is awaited next.
Routing(m) ==
    IF recipient[m] \in {"dsr", "unknownOrg"}
    THEN [pc |-> "open", message |-> m, status |-> "none", request |-> 0]
    ELSE [pc |-> "insert", message |-> m, status |-> "unrouted", request |-> 0]

\* Mutant: the Message-Id is not looked up, since its column is unique.
ReceiveUnchecked(c, m) ==
    /\ At(c, "idle")
    /\ deliveries[m] < MaxDeliveries
    /\ deliveries' = [deliveries EXCEPT ![m] = @ + 1]
    /\ Become(c, Routing(m))
    /\ UNCHANGED <<recipient, mailbox, requests, kept, mailFaults>>

\* receive up to the lookup's answer: a known Message-Id is a duplicate.
Receive(c, m) ==
    /\ At(c, "idle")
    /\ deliveries[m] < MaxDeliveries
    /\ deliveries' = [deliveries EXCEPT ![m] = @ + 1]
    /\ \/ /\ Known(m)
          /\ kept' = kept \cup {m}
          /\ UNCHANGED mail
       \/ /\ ~Known(m)
          /\ Become(c, Routing(m))
          /\ UNCHANGED kept
    /\ UNCHANGED <<recipient, mailbox, requests, mailFaults>>

Unrouted(h) == [h EXCEPT !.pc = "insert", !.status = "unrouted", !.request = 0]

\* createRequest, its insert: an organization that is not there, or a failing
\* write, is caught by tryRoute.
OpenRequest(c) ==
    /\ At(c, "open")
    /\ LET m == mail[c].message
       IN  \/ /\ recipient[m] = "dsr"
              /\ requests' = [requests EXCEPT ![m] = @ + 1]
              /\ Become(c, [mail[c] EXCEPT !.pc = "auditRequest", !.request = requests[m] + 1])
              /\ UNCHANGED mailFaults
           \/ /\ IF recipient[m] = "dsr" THEN Fault ELSE UNCHANGED mailFaults
              /\ Become(c, Unrouted(mail[c]))
              /\ UNCHANGED requests
    /\ UNCHANGED <<recipient, mailbox, deliveries, kept>>

\* createRequest, its audit record: when it throws the request is there, and
\* the message is taken for one that could not be routed.
AuditRequest(c) ==
    /\ At(c, "auditRequest")
    /\ \/ /\ Become(c, [mail[c] EXCEPT !.pc = "insert", !.status = "routed"])
          /\ UNCHANGED mailFaults
       \/ /\ Fault
          /\ Become(c, Unrouted(mail[c]))
    /\ UNCHANGED <<recipient, mailbox, requests, deliveries, kept>>

\* Mutant: the row is written as routed whatever tryRoute answered.
StoredRouted(h) == [status |-> "routed", request |-> h.request]

Stored(h) == [status |-> h.status, request |-> h.request]

\* The insert fails on a Message-Id that came in meanwhile, and on an
\* organization that is not there.
Insert(c) ==
    /\ At(c, "insert")
    /\ LET m == mail[c].message
       IN  \/ /\ ~Known(m) /\ recipient[m] # "unknownOrg"
              /\ mailbox' = [mailbox EXCEPT ![m] = Stored(mail[c])]
              /\ IF recipient[m] \in {"dsr", "badSender"}
                 THEN Become(c, [mail[c] EXCEPT !.pc = "auditMail"]) /\ UNCHANGED kept
                 ELSE Throw(c) /\ kept' = kept \cup {m}
           \/ /\ Known(m) \/ recipient[m] = "unknownOrg"
              /\ Throw(c)
              /\ UNCHANGED <<mailbox, kept>>
    /\ UNCHANGED <<recipient, requests, deliveries, mailFaults>>

AuditMail(c) ==
    /\ At(c, "auditMail")
    /\ kept' = kept \cup {mail[c].message}
    /\ Throw(c)
    /\ UNCHANGED <<recipient, mailbox, requests, deliveries, mailFaults>>

\* A database call throws where nothing catches it, or the process dies.
Abort(c) ==
    /\ ~At(c, "idle")
    /\ Fault
    /\ Throw(c)
    /\ UNCHANGED <<recipient, mailbox, requests, deliveries, kept>>

Next ==
    \E c \in MailCalls :
        \/ \E m \in Messages : Receive(c, m)
        \/ OpenRequest(c) \/ AuditRequest(c) \/ Insert(c) \/ AuditMail(c)
        \/ Abort(c)

Spec == Init /\ [][Next]_vars

-----------------------------------------------------------------------------
\* The shapes of the tables and of the running handlers.
TypeOK ==
    /\ recipient \in [Messages -> Recipients]
    /\ mailbox \in [Messages -> Email]
    /\ requests \in [Messages -> 0..MaxDeliveries]
    /\ mail \in [MailCalls -> Handler]
    /\ deliveries \in [Messages -> 0..MaxDeliveries]
    /\ kept \subseteq Messages
    /\ mailFaults \in 0..MaxMailFaults

\* "Same Message-Id replays no-op" (inbound-email.service.ts:106) as far as the
\* code goes: deliveries of one message open as many requests as run beside one
\* another before the row is stored, and one more for each fault; later ones none.
RequestsBounded ==
    \A m \in Messages : requests[m] <= Cardinality(MailCalls) + mailFaults

\* A message the mail service will not deliver again is in the mailbox, and
\* without faults a request to an organization is routed there, to a request
\* that was opened for it.
KeptIsStored ==
    \A m \in kept :
        /\ Known(m)
        /\ mailbox[m].status = "routed" => mailbox[m].request \in 1..requests[m]
        /\ recipient[m] = "dsr" /\ mailFaults = 0 => mailbox[m].status = "routed"
=============================================================================
