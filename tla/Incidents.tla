----------------------------- MODULE Incidents ------------------------------
(***************************************************************************)
(* Incidents and their notification to the authority (apps/api/src/pdpl:    *)
(* incident, dpo-contact, authority-notification).  Incidents live in a Map *)
(* of the process and are changed without an await; a notification is a     *)
(* sequence of awaits that leaves an intent on the audit trail, sends an    *)
(* email when the driver is configured, and records the outcome.            *)
(***************************************************************************)
EXTENDS Naturals, FiniteSets

CONSTANTS
    MaxIncidents,       \* bound on incidents of one process: inc-1, inc-2, ...
    Notifiers,          \* concurrently running notifications
    Limit,              \* the 72 hours, in units of the clock
    LastHour,           \* bound on the clock
    MaxNotifications,   \* bound on notifications begun
    MaxIncidentFaults   \* bound on failing writes, failing sends and deaths

VARIABLES
    smtp,       \* whether an email driver is registered
    incidents,  \* the Map of IncidentService
    dpo,        \* whether the organization has a DpoContact row
    clock,
    notifiers,  \* the notification in each slot
    evidence,   \* audit events of an incident id: intent, dispatched, dispatch_failed
    emails,     \* history: emails the authority was sent about an incident id
    notified,   \* history: incidents of this process with an intent
    notices,    \* notifications begun
    incidentFaults

vars == <<smtp, incidents, dpo, clock, notifiers, evidence, emails, notified, notices,
          incidentFaults>>

Ids == 1..MaxIncidents
Hours == 0..LastHour
NotReported == LastHour + 1
Absent == [status |-> "absent", severe |-> FALSE, detected |-> 0, reported |-> NotReported]
Incident == [status : {"absent", "detected", "reported", "resolved"}, severe : BOOLEAN,
             detected : Hours, reported : Hours \cup {NotReported}]
Off == [pc |-> "idle", id |-> 0]
Notifier == [pc : {"idle", "require", "intent", "send", "dispatched", "failed"},
             id : Ids \cup {0}]
NoEvidence == [intent |-> 0, dispatched |-> 0, failed |-> 0]

Init ==
    /\ smtp \in BOOLEAN
    /\ incidents = [i \in Ids |-> Absent]
    /\ dpo = FALSE
    /\ clock = 0
    /\ notifiers = [c \in Notifiers |-> Off]
    /\ evidence = [i \in Ids |-> NoEvidence]
    /\ emails = [i \in Ids |-> 0]
    /\ notified = {}
    /\ notices = 0
    /\ incidentFaults = 0

Present(i) == incidents[i].status # "absent"
At(c, pc) == notifiers[c].pc = pc
Become(c, n) == notifiers' = [notifiers EXCEPT ![c] = n]
Goto(c, pc) == Become(c, [notifiers[c] EXCEPT !.pc = pc])
Return(c) == Become(c, Off)
Fault == incidentFaults < MaxIncidentFaults /\ incidentFaults' = incidentFaults + 1
Note(c, kind) == evidence' = [evidence EXCEPT ![notifiers[c].id][kind] = @ + 1]

-----------------------------------------------------------------------------
(* IncidentService and the contact *)

Create(severe) ==
    /\ \E i \in Ids :
         /\ ~Present(i) /\ \A j \in 1..(i - 1) : Present(j)
         /\ incidents' = [incidents EXCEPT ![i] = [status |-> "detected", severe |-> severe,
                                                   detected |-> clock, reported |-> NotReported]]
    /\ UNCHANGED <<smtp, dpo, clock, notifiers, evidence, emails, notified, notices, incidentFaults>>

\* Reporting again moves the time of the report.
Report(i) ==
    /\ Present(i)
    /\ incidents' = [incidents EXCEPT ![i].status = "reported", ![i].reported = clock]
    /\ UNCHANGED <<smtp, dpo, clock, notifiers, evidence, emails, notified, notices, incidentFaults>>

Resolve(i) ==
    /\ Present(i)
    /\ incidents' = [incidents EXCEPT ![i].status = "resolved"]
    /\ UNCHANGED <<smtp, dpo, clock, notifiers, evidence, emails, notified, notices, incidentFaults>>

UpsertDpo ==
    /\ ~dpo
    /\ dpo' = TRUE
    /\ UNCHANGED <<smtp, incidents, clock, notifiers, evidence, emails, notified, notices,
                   incidentFaults>>

Tick ==
    /\ clock < LastHour
    /\ clock' = clock + 1
    /\ UNCHANGED <<smtp, incidents, dpo, notifiers, evidence, emails, notified, notices,
                   incidentFaults>>

\* Mutant: an incident that was reported needs no notification any more.
RequiresUnlessReported(i) ==
    /\ incidents[i].severe
    /\ incidents[i].reported = NotReported
    /\ clock - incidents[i].detected > Limit

\* The clock of a reported incident stops at the report.
RequiresAuthorityNotification(i) ==
    /\ incidents[i].severe
    /\ IF incidents[i].reported = NotReported
       THEN clock - incidents[i].detected > Limit
       ELSE incidents[i].reported - incidents[i].detected > Limit

-----------------------------------------------------------------------------
(* AuthorityNotificationService *)

NotifyForIncident(c, i) ==
    /\ At(c, "idle")
    /\ notices < MaxNotifications
    /\ Present(i) /\ RequiresAuthorityNotification(i)
    /\ notices' = notices + 1
    /\ Become(c, [pc |-> "require", id |-> i])
    /\ UNCHANGED <<smtp, incidents, dpo, clock, evidence, emails, notified, incidentFaults>>

\* Mutant: the intent is recorded in the background.
AfterRequireSending == IF smtp THEN "send" ELSE "intent"

AfterRequire == "intent"

RequireDpo(c) ==
    /\ At(c, "require")
    /\ IF dpo THEN Goto(c, AfterRequire) ELSE Return(c)
    /\ UNCHANGED <<smtp, incidents, dpo, clock, evidence, emails, notified, notices, incidentFaults>>

\* Without an email driver the intent is all there is.
RecordIntent(c) ==
    /\ At(c, "intent")
    /\ Note(c, "intent")
    /\ notified' = notified \cup {notifiers[c].id}
    /\ IF smtp THEN Goto(c, "send") ELSE Return(c)
    /\ UNCHANGED <<smtp, incidents, dpo, clock, emails, notices, incidentFaults>>

\* The send succeeds, fails, or fails after the server took the message.
Send(c) ==
    /\ At(c, "send")
    /\ \/ /\ emails' = [emails EXCEPT ![notifiers[c].id] = @ + 1]
          /\ Goto(c, "dispatched")
          /\ UNCHANGED incidentFaults
       \/ /\ Fault
          /\ Goto(c, "failed")
          /\ UNCHANGED emails
       \/ /\ Fault
          /\ Goto(c, "failed")
          /\ emails' = [emails EXCEPT ![notifiers[c].id] = @ + 1]
    /\ UNCHANGED <<smtp, incidents, dpo, clock, evidence, notified, notices>>

\* This record is inside the try block of the send: when it throws, the send is
\* recorded as failed.
RecordDispatched(c) ==
    /\ At(c, "dispatched")
    /\ \/ /\ Note(c, "dispatched")
          /\ Return(c)
          /\ UNCHANGED incidentFaults
       \/ /\ Fault
          /\ Goto(c, "failed")
          /\ UNCHANGED evidence
    /\ UNCHANGED <<smtp, incidents, dpo, clock, emails, notified, notices>>

RecordFailed(c) ==
    /\ At(c, "failed")
    /\ Note(c, "failed")
    /\ Return(c)
    /\ UNCHANGED <<smtp, incidents, dpo, clock, emails, notified, notices, incidentFaults>>

\* A database call throws where nothing catches it.
Abort(c) ==
    /\ ~At(c, "idle")
    /\ Fault
    /\ Return(c)
    /\ UNCHANGED <<smtp, incidents, dpo, clock, evidence, emails, notified, notices>>

\* The process restarts: the Map is empty and ids start again at inc-1.
Restart ==
    /\ Fault
    /\ incidents' = [i \in Ids |-> Absent]
    /\ notifiers' = [c \in Notifiers |-> Off]
    /\ notified' = {}
    /\ UNCHANGED <<smtp, dpo, clock, evidence, emails, notices>>

Next ==
    \/ \E severe \in BOOLEAN : Create(severe)
    \/ \E i \in Ids : Report(i) \/ Resolve(i)
    \/ UpsertDpo \/ Tick
    \/ \E c \in Notifiers :
         \/ \E i \in Ids : NotifyForIncident(c, i)
         \/ RequireDpo(c) \/ RecordIntent(c) \/ Send(c) \/ RecordDispatched(c) \/ RecordFailed(c)
         \/ Abort(c)
    \/ Restart

Spec == Init /\ [][Next]_vars

-----------------------------------------------------------------------------
\* The shapes of the tables and of the running handlers.
TypeOK ==
    /\ smtp \in BOOLEAN
    /\ incidents \in [Ids -> Incident]
    /\ dpo \in BOOLEAN
    /\ clock \in Hours
    /\ notifiers \in [Notifiers -> Notifier]
    /\ evidence \in [Ids -> [intent : 0..MaxNotifications, dispatched : 0..MaxNotifications,
                             failed : 0..MaxNotifications]]
    /\ emails \in [Ids -> 0..MaxNotifications]
    /\ notified \subseteq Ids
    /\ notices \in 0..MaxNotifications
    /\ incidentFaults \in 0..MaxIncidentFaults

Sending(i, pc) == Cardinality({c \in Notifiers : notifiers[c] = [pc |-> pc, id |-> i]})

\* "The regulator-evidence audit row exists regardless"
\* (authority-notification.service.ts:32): the authority is never written to
\* without an intent on the trail, a dispatch on the trail was really sent, and
\* but for faults (a restart ends every notification under way) every email is on
\* the trail as dispatched.
AuthorityEvidence ==
    \A i \in Ids :
        /\ emails[i] <= evidence[i].intent
        /\ evidence[i].dispatched <= emails[i]
        /\ emails[i] <= evidence[i].dispatched + Sending(i, "dispatched")
                         + incidentFaults * Cardinality(Notifiers)

\* What the authority was notified of stays overdue for as long as the process
\* keeps it: a report or a resolution that comes in between or later does not
\* turn the notification into one that was not required.
NotifiedStaysOverdue ==
    \A i \in notified : Present(i) /\ RequiresAuthorityNotification(i)
=============================================================================
