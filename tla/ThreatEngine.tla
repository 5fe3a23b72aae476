---------------------------- MODULE ThreatEngine ----------------------------
(***************************************************************************)
(* src/threat/engine.ts: a bounded history of security events, and the     *)
(* default rules, which look at it after every event.                      *)
(***************************************************************************)
EXTENDS Integers, Sequences, SequencesExt, FiniteSets

CONSTANTS
  Event,          \* what is reported: [id, correlation, actor, resource, timestamp,
                  \*   failedLogin, prohibited, exposure]
  WindowMs,       \* ten minutes
  Threshold,      \* five failed logins
  MaxHistorySize  \* maxHistorySize

ASSUME ThreatEngineAssumption ==
  /\ \A e \in Event : e.timestamp \in Int
  /\ WindowMs \in Nat
  /\ Threshold \in Nat \ {0}
  /\ MaxHistorySize \in Nat \ {0}

VARIABLE eventHistory  \* ThreatEngine.eventHistory

\* A fault of Remembered: the history is cut one event too short.
RememberedBelow(event) ==
  LET all == Append(eventHistory, event)
  IN  IF Len(all) >= MaxHistorySize THEN Tail(all) ELSE all

\* The history after an event.
Remembered(event) ==
  LET all == Append(eventHistory, event)
  IN  IF Len(all) > MaxHistorySize THEN Tail(all) ELSE all

\* A failed login counts toward another of the same actor or against the same
\* resource, no later than it and no more than the window before it, by the
\* timestamps that the sources gave.
CountsToward(e, current) ==
  /\ e.failedLogin
  /\ e.actor = current.actor \/ e.resource = current.resource
  /\ current.timestamp - e.timestamp \in 0 .. WindowMs

\* Where in the history they are, once for each delivery.
FailedEvents(history) ==
  {i \in DOMAIN history : CountsToward(history[i], Last(history))}

Alert(rule, severity, sources) ==
  [rule |-> rule, severity |-> severity, correlation |-> "none", status |-> "OPEN",
   sources |-> sources]

BruteForce(history) ==
  LET failed == FailedEvents(history)
  IN  IF Last(history).failedLogin /\ Cardinality(failed) >= Threshold
        THEN <<Alert("BRUTE_FORCE", "HIGH", {history[i].id : i \in failed})>> ELSE <<>>

UnauthorizedPrivilegedAction(history) ==
  IF Last(history).prohibited
    THEN <<Alert("PRIVILEGED_ACTION", "CRITICAL", {Last(history).id})>> ELSE <<>>

SecretExposure(history) ==
  IF Last(history).exposure
    THEN <<Alert("SECRET_EXPOSURE", "CRITICAL", {Last(history).id})>> ELSE <<>>

\* The alerts that processEvent returns, in the order of the rules.
Alerts(history) ==
  BruteForce(history) \o UnauthorizedPrivilegedAction(history) \o SecretExposure(history)

=============================================================================
