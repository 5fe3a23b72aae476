----------------------------- MODULE Operations -----------------------------
(***************************************************************************)
(* What the API handler of src/server/routes.ts does with events and       *)
(* alerts: two paths on which events come in, the alert store that         *)
(* analysts triage, and the traces that the forensics agent makes of both  *)
(* (src/agents/forensics.ts).  Each handler awaits the body of its request *)
(* first and then runs to its end.                                         *)
(*                                                                         *)
(* Sources deliver events late, in any order and again when they had no    *)
(* answer.  The last thing most handlers do is to put what they did on     *)
(* record, and that may fail: the caller has an error, and the effects     *)
(* stay.                                                                   *)
(***************************************************************************)
EXTENDS ThreatEngine

CONSTANTS
  PostedAlert,    \* alerts that callers post
  AskedStatus,    \* statuses that callers ask for
  MaxRecent,      \* 500
  LedgerMayFail,  \* TRUE: PersistentAuditLedger.append may throw
  MaxIngests,     \* bound: events ever ingested
  MaxCommands     \* bound: alerts posted and triaged, and traces made

ASSUME OperationsAssumption ==
  /\ MaxRecent \in Nat \ {0}
  /\ LedgerMayFail \in BOOLEAN
  /\ MaxIngests \in Nat
  /\ MaxCommands \in Nat

VARIABLES
  recentEvents,    \* SovereignSecurityApiHandler.recentEvents
  securityEvents,  \* ForensicsAgent.securityEvents
  alertsStore,     \* SovereignSecurityApiHandler.alertsStore
  raised,          \* how many alerts the threat engine raised: their ids
  audit,           \* what these handlers put on record, as a set
  ingested,        \* history: the events in the order they came in
  commands         \* how many alerts were posted and triaged, and traces made

vars == <<eventHistory, recentEvents, securityEvents, alertsStore, raised, audit,
          ingested, commands>>

AlertStatus == {"OPEN", "ACKNOWLEDGED", "INVESTIGATING", "CONTAINED", "RESOLVED",
                "FALSE_POSITIVE"}

\* Posted alerts may name events and correlations that never come in.
EventId == {e.id : e \in Event} \union UNION {a.sources : a \in PostedAlert}

Correlation ==
  {e.correlation : e \in Event} \union ({a.correlation : a \in PostedAlert} \ {"none"})

\* Alerts of the engine are numbered; 0 is an id of the caller's own.
AlertId == Nat

\* "POSTED" is the rule of an alert that no rule of the engine has raised.
SecurityAlert ==
  [rule : {"BRUTE_FORCE", "PRIVILEGED_ACTION", "SECRET_EXPOSURE", "POSTED"},
   severity : {"INFO", "LOW", "MEDIUM", "HIGH", "CRITICAL"},
   correlation : Correlation \union {"none"}, status : AlertStatus,
   sources : (SUBSET EventId) \ {{}}]

\* SecurityAlertSchema: a severity and a status of its enumerations, and one source
\* event or more, which may be any.
ASSUME PostedAlertAssumption == PostedAlert \subseteq SecurityAlert

TypeOK ==
  /\ eventHistory \in Seq(Event) /\ Len(eventHistory) <= MaxHistorySize
  /\ recentEvents \in Seq(Event)
  /\ securityEvents \in Seq(Event)
  /\ DOMAIN alertsStore \subseteq AlertId
  /\ \A id \in DOMAIN alertsStore : alertsStore[id] \in SecurityAlert
  /\ raised \in Nat
  /\ ingested \in Seq(Event)
  /\ commands \in Nat

Init ==
  /\ eventHistory = <<>>
  /\ recentEvents = <<>>
  /\ securityEvents = <<>>
  /\ alertsStore = [id \in {} |-> 0]
  /\ raised = 0
  /\ audit = {}
  /\ ingested = <<>>
  /\ commands = 0

-----------------------------------------------------------------------------
\* recordAudit.
RecordAudit(what, about) ==
  \/ audit' = audit \union {[what |-> what, about |-> about]}
  \/ LedgerMayFail /\ UNCHANGED audit

\* The store with the alerts that an event raised.
WithAlerts(alerts) ==
  [id \in DOMAIN alertsStore \union {raised + i : i \in DOMAIN alerts} |->
     IF id > raised THEN alerts[id - raised] ELSE alertsStore[id]]

\* A fault of Registered: what the adapter brings in is left out.
RegisteredFromApi(event, path) ==
  IF path = "api" THEN Append(securityEvents, event) ELSE securityEvents

\* ForensicsAgent.registerEvents.
Registered(event, path) == Append(securityEvents, event)

\* What both paths do with an event.
Process(event, path) ==
  /\ Len(ingested) < MaxIngests
  /\ ingested' = Append(ingested, event)
  /\ securityEvents' = Registered(event, path)
  /\ eventHistory' = Remembered(event)
  /\ alertsStore' = WithAlerts(Alerts(eventHistory'))
  /\ raised' = raised + Len(Alerts(eventHistory'))
  /\ UNCHANGED commands

\* A fault of Kept: the newest event is dropped.
KeptOldest(events) == IF Len(events) > MaxRecent THEN Front(events) ELSE events

Kept(events) == IF Len(events) > MaxRecent THEN Tail(events) ELSE events

PostEvent(event) ==
  /\ Process(event, "api")
  /\ recentEvents' = Kept(Append(recentEvents, event))
  /\ RecordAudit("INGEST_EVENT", event.id)

\* The adapter's path keeps every event and records none.
IngestMtf(event) ==
  /\ Process(event, "mtf")
  /\ recentEvents' = Append(recentEvents, event)
  /\ UNCHANGED audit

Command == commands < MaxCommands /\ commands' = commands + 1

\* A posted alert replaces one of its id, whoever raised it.
PostAlert(id, alert) ==
  /\ Command
  /\ alertsStore' = [other \in DOMAIN alertsStore \union {id} |->
                       IF other = id THEN alert ELSE alertsStore[other]]
  /\ UNCHANGED <<eventHistory, recentEvents, securityEvents, raised, audit, ingested>>

\* A fault of ValidStatus: anything goes.
AnyStatus(status) == TRUE

ValidStatus(status) == status \in AlertStatus

\* Any status may follow any other.
TriageAlert(id, status) ==
  /\ Command
  /\ ValidStatus(status)
  /\ alertsStore' = [alertsStore EXCEPT ![id].status = status]
  /\ RecordAudit("TRIAGE_ALERT", id)
  /\ UNCHANGED <<eventHistory, recentEvents, securityEvents, raised, ingested>>

-----------------------------------------------------------------------------
\* ForensicsAgent.traceCorrelationChain: the events and alerts of a correlation,
\* and the alerts whose resolution it can show.

\* However often each is registered.
MatchedEvents(correlation) ==
  {e \in ToSet(securityEvents) : e.correlation = correlation}

MatchedAlerts(correlation) ==
  LET ids == {e.id : e \in MatchedEvents(correlation)}
  IN  {id \in DOMAIN alertsStore :
         \/ alertsStore[id].correlation = correlation
         \/ alertsStore[id].sources \intersect ids # {}}

TriageOnRecord(id) == [what |-> "TRIAGE_ALERT", about |-> id] \in audit

\* A fault of Resolved: only what is on record.
ResolvedOnRecord(correlation) ==
  {id \in MatchedAlerts(correlation) : TriageOnRecord(id)}

\* By a triage on record or, failing that, by the alert's own status.
Resolved(correlation) ==
  {id \in MatchedAlerts(correlation) :
     TriageOnRecord(id) \/ alertsStore[id].status \in {"RESOLVED", "CONTAINED"}}

\* Every trace registers all recent events once more.
TraceCorrelationChain(correlation) ==
  /\ Command
  /\ securityEvents' = securityEvents \o recentEvents
  /\ RecordAudit("FORENSICS_TRACE", correlation)
  /\ UNCHANGED <<eventHistory, recentEvents, alertsStore, raised, ingested>>

\* An event or alert that does not validate, an unknown alert or status.
RejectRequest == UNCHANGED vars

Next ==
  \/ RejectRequest
  \/ \E event \in Event : PostEvent(event) \/ IngestMtf(event)
  \/ \E id \in DOMAIN alertsStore \union {0}, alert \in PostedAlert : PostAlert(id, alert)
  \/ \E id \in DOMAIN alertsStore, status \in AskedStatus : TriageAlert(id, status)
  \/ \E correlation \in Correlation : TraceCorrelationChain(correlation)

Spec == Init /\ [][Next]_vars

-----------------------------------------------------------------------------
\* What the handlers promise.

\* Of the events that came in, on either path and in whatever order, the last
\* MaxHistorySize: the failed logins among them that count toward the last one.
FailuresBehind(arrivals) ==
  {i \in DOMAIN arrivals :
     /\ i > Len(arrivals) - MaxHistorySize
     /\ CountsToward(arrivals[i], Last(arrivals))}

\* The alert of brute force that the last event is due, and no other.
RaisedIfDue ==
  LET failures == FailuresBehind(ingested')
      new == {id \in DOMAIN alertsStore' \ DOMAIN alertsStore :
                alertsStore'[id].rule = "BRUTE_FORCE"}
  IN  IF Last(ingested').failedLogin /\ Cardinality(failures) >= Threshold
        THEN \E id \in new :
               /\ new = {id}
               /\ alertsStore'[id].sources = {ingested'[i].id : i \in failures}
        ELSE new = {}

\* A failed login raises an alert of brute force exactly when it is the fifth of
\* its actor or resource within the window among the events that still count, on
\* either path, and the alert names those: it is missed only when a flood of
\* other events came in between.
BruteForceIsRaised == [][ingested' # ingested => RaisedIfDue]_vars

\* A trace tells the incident: all events of the correlation that ever came in,
\* however much the other stores forgot, every alert that names one of them, and
\* its resolution when it has one, whether or not that could be recorded.
TraceTellsTheIncident ==
  \A correlation \in Correlation :
    LET events == {e \in ToSet(ingested) : e.correlation = correlation}
    IN  /\ MatchedEvents(correlation) = events
        /\ \A id \in DOMAIN alertsStore :
             alertsStore[id].sources \intersect {e.id : e \in events} # {} =>
               /\ id \in MatchedAlerts(correlation)
               /\ alertsStore[id].status \in {"RESOLVED", "CONTAINED"} =>
                    id \in Resolved(correlation)

\* Some events are the latest of those that came in, in order and without a gap,
\* and as many as there is room for.
AreTheLatest(events, arrivals, room) ==
  /\ Len(events) <= Len(arrivals)
  /\ Len(events) = Len(arrivals) \/ Len(events) >= room
  /\ events = SubSeq(arrivals, Len(arrivals) - Len(events) + 1, Len(arrivals))

\* Whatever mixture of paths events come in by, the dashboard's events are the
\* latest, in order and without a gap, and as many as it has room for.
RecentAreTheLatest == AreTheLatest(recentEvents, ingested, MaxRecent)

=============================================================================
