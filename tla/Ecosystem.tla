------------------------------ MODULE Ecosystem ------------------------------
(***************************************************************************)
(* The adapters of src/integrations/audioblue and of                       *)
(* src/integrations/gridd-corp that keep state: the gate a build passes,   *)
(* and the alerts GriDD Corp is told of.                                   *)
(***************************************************************************)
EXTENDS AuditChain, FiniteSets

CONSTANTS
  Build,      \* the builds that may be submitted, with their bypass requests
  MaxBuilds,  \* bound: builds ever evaluated
  AlertId

ASSUME BuildsAssumption == MaxBuilds \in Nat

VARIABLES
  trail,    \* the records of the audit service that is passed around
  answers,  \* the answers of the gate so far
  alerts    \* SecurityAlertService.alerts: id |-> severity and status

-----------------------------------------------------------------------------
(* AudioBlueCIControls.evaluateBuildGate.  A build is given with what its  *)
(* scans find: whether a file holds a secret, and the severities of the    *)
(* advisories that match its manifest (none without a manifest).  A field  *)
(* of a bypass that is missing or empty is Nobody or NoTicket.             *)
Nobody == "Nobody"
NoTicket == "NoTicket"
NoBypass == [approved |-> FALSE, authorizedBy |-> Nobody, justificationTicket |-> NoTicket]

Violates(build) ==
  \/ build.secret
  \/ build.advisories \intersect {"CRITICAL", "HIGH"} # {}

\* A fault of BypassGranted: the approval is enough.
BypassApproved(bypass) == bypass.approved

BypassGranted(bypass) ==
  /\ bypass.approved
  /\ bypass.authorizedBy # Nobody
  /\ bypass.justificationTicket # NoTicket

Answer == [build : Build, status : {"PASSED", "BLOCKED", "BYPASS_APPROVED"}, auditTrailId : Nat]

BypassRecord(build) ==
  [who |-> build.bypass.authorizedBy, what |-> "AUDIOBLUE_CI_EMERGENCY_BYPASS",
   why |-> build.bypass.justificationTicket, result |-> "SUCCESS"]

BlockedRecord ==
  [who |-> "audioblue-ci-runner", what |-> "AUDIOBLUE_CI_BUILD_BLOCKED",
   why |-> "violations", result |-> "DENIED"]

\* Only what a failing build led to is recorded.
AnswerOnRecord(build, status, record) ==
  /\ trail' = AppendRecord(trail, record)
  /\ answers' = Append(answers, [build |-> build, status |-> status, auditTrailId |-> Len(trail) + 1])

EvaluateBuildGate(build) ==
  /\ Len(answers) < MaxBuilds
  /\ \/ /\ ~Violates(build)
        /\ answers' = Append(answers, [build |-> build, status |-> "PASSED", auditTrailId |-> 0])
        /\ UNCHANGED trail
     \/ /\ Violates(build)
        /\ BypassGranted(build.bypass)
        /\ AnswerOnRecord(build, "BYPASS_APPROVED", BypassRecord(build))
     \/ /\ Violates(build)
        /\ ~BypassGranted(build.bypass)
        /\ AnswerOnRecord(build, "BLOCKED", BlockedRecord)

-----------------------------------------------------------------------------
(* The alerts are counted by severity in the fleet summary and forwarded   *)
(* one by one when they are critical or high.  An alert is created again   *)
(* under the id it has to change its severity or its status.  The          *)
(* credentials both reads take first are the business of ReplayGuard.      *)
FeedSeverity == {"CRITICAL", "HIGH", "MEDIUM", "LOW", "INFO"}
FeedStatus == {"OPEN", "ACKNOWLEDGED", "INVESTIGATING", "CONTAINED", "RESOLVED", "FALSE_POSITIVE"}

FeedTypeOK ==
  /\ DOMAIN alerts \subseteq AlertId
  /\ \A a \in DOMAIN alerts : alerts[a] \in [severity : FeedSeverity, status : FeedStatus]

FeedInit == alerts = << >>

\* What the schema refuses throws before the alert is kept.
CreateAlert(a, severity, status) ==
  alerts' = [i \in DOMAIN alerts \union {a} |->
               IF i = a THEN [severity |-> severity, status |-> status] ELSE alerts[i]]

\* listAlerts with both filters, and with the status only.
ListAlerts(severity, status) ==
  {a \in DOMAIN alerts : alerts[a].severity = severity /\ alerts[a].status = status}

OpenAlerts == {a \in DOMAIN alerts : alerts[a].status = "OPEN"}

\* getFleetPostureSummary
TotalActiveAlerts == Cardinality(OpenAlerts)
AlertsBySeverity(severity) == Cardinality({a \in OpenAlerts : alerts[a].severity = severity})

\* getHighSeverityAlertsForForwarding
Forwarded == ListAlerts("CRITICAL", "OPEN") \union ListAlerts("HIGH", "OPEN")

FeedNext ==
  \E a \in AlertId, severity \in FeedSeverity, status \in FeedStatus :
    CreateAlert(a, severity, status)

=============================================================================
