--------------------------- MODULE AccessDecisions ---------------------------
(***************************************************************************)
(* Two decisions that keep no state: ABACEvaluator.evaluate of             *)
(* src/identity/abac.ts and RiskEngine.calculateRisk of src/risk/engine.ts. *)
(***************************************************************************)
EXTENDS Integers

CONSTANTS
  TenantId,
  Department,
  Country

(* evaluate: seven checks in a fixed order, of which the first that fails  *)
(* names the refusal.  An empty or a missing list of departments or of     *)
(* countries restricts nothing; a request without a country passes every   *)
(* fence (NoCountry).  What only a reason says is left out.                *)
NoCountry == "NoCountry"

SubjectAttributes ==
  [clearanceLevel     : 1 .. 5,
   department         : Department,
   tenantId           : TenantId,
   devicePosture      : {"MANAGED_SECURE", "UNMANAGED", "QUARANTINED"},
   hardwareTokenBound : BOOLEAN]

ResourceAttributes ==
  [tenantId                : TenantId,
   classification          : {"PUBLIC", "INTERNAL", "CONFIDENTIAL", "RESTRICTED", "TOP_SECRET"},
   requiredClearance       : 1 .. 5,
   restrictedToDepartments : SUBSET Department,
   geoFenceAllowed         : SUBSET Country]

EnvironmentAttributes ==
  [countryCode             : Country \union {NoCountry},
   currentFleetThreatLevel : {"LOW", "GUARDED", "ELEVATED", "HIGH", "CRITICAL"}]

\* One of the first six checks fails.
DeniedByAttributes(s, r, e, action) ==
  \/ s.devicePosture = "QUARANTINED"
  \/ s.tenantId # r.tenantId
  \/ s.clearanceLevel < r.requiredClearance
  \/ /\ r.restrictedToDepartments # {}
     /\ s.department \notin r.restrictedToDepartments
  \/ /\ r.geoFenceAllowed # {}
     /\ e.countryCode # NoCountry
     /\ e.countryCode \notin r.geoFenceAllowed
  \/ /\ e.currentFleetThreatLevel = "CRITICAL"
     /\ s.clearanceLevel < 4
     /\ action # "read"

\* The last check, the only one whose refusal asks for a hardware token.
NeedsToken(s, r) ==
  /\ r.classification \in {"TOP_SECRET", "RESTRICTED"}
  /\ ~s.hardwareTokenBound

Evaluate(s, r, e, action) ==
  IF DeniedByAttributes(s, r, e, action) THEN [allowed |-> FALSE, requiredStepUp |-> FALSE]
  ELSE IF NeedsToken(s, r) THEN [allowed |-> FALSE, requiredStepUp |-> TRUE]
  ELSE [allowed |-> TRUE, requiredStepUp |-> FALSE]

-----------------------------------------------------------------------------
(* calculateRisk.  Scores are counted in hundredths, which the             *)
(* criticality of an asset multiplies exactly; the words found in an       *)
(* action's name are given with the name.                                  *)
\* "other" is a severity without a score of its own.
Severity == {"INFO", "LOW", "MEDIUM", "HIGH", "CRITICAL", "other"}
AssetCriticality == {"LOW", "MEDIUM", "HIGH", "MISSION_CRITICAL"}
AuthenticationState ==
  {"UNAUTHENTICATED", "ANONYMOUS", "PASSWORD_ONLY", "MFA_VERIFIED", "CERTIFICATE_BOUND", "none"}

\* What the words of an action make of it; the first kind that fits counts.
ActionKind == {"administers", "deletes", "transfers", "writes", "other"}

SeverityBaseScore ==
  [INFO |-> 5, LOW |-> 20, MEDIUM |-> 45, HIGH |-> 75, CRITICAL |-> 95,
   other |-> 30]

ActionModifier ==
  [administers |-> 20, deletes |-> 15, transfers |-> 15, writes |-> 5, other |-> 0]

\* In hundredths.
AssetCriticalityMultiplier ==
  [LOW |-> 85, MEDIUM |-> 100, HIGH |-> 125, MISSION_CRITICAL |-> 150]

AuthStateAdjustment ==
  [UNAUTHENTICATED |-> 30, ANONYMOUS |-> 25, PASSWORD_ONLY |-> 10,
   MFA_VERIFIED |-> 0 - 15, CERTIFICATE_BOUND |-> 0 - 20, none |-> 0]

FrequencyBump(repetitionCount) ==
  IF repetitionCount =< 1 THEN 0
  ELSE IF (repetitionCount - 1) * 5 > 25 THEN 25
  ELSE (repetitionCount - 1) * 5

\* Math.max(0, Math.min(100, score)), in hundredths.
ClampedScore(hundredths) ==
  IF hundredths > 10000 THEN 10000
  ELSE IF hundredths < 0 THEN 0
  ELSE hundredths

\* Math.round of a score in hundredths.
RoundedScore(hundredths) == (hundredths + 50) \div 100

RawScore(factors) ==
  (SeverityBaseScore[factors.severity] + ActionModifier[factors.action])
     * AssetCriticalityMultiplier[factors.assetCriticality]
  + 100 * (AuthStateAdjustment[factors.authState] + FrequencyBump(factors.repetitionCount))

CalculateRisk(factors) == RoundedScore(ClampedScore(RawScore(factors)))

RiskEvaluationFactors ==
  [severity : Severity, assetCriticality : AssetCriticality, authState : AuthenticationState,
   action : ActionKind, repetitionCount : Nat]

=============================================================================
