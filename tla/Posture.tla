------------------------------ MODULE Posture ------------------------------
(***************************************************************************)
(* src/posture/synchronizer.ts: the hardening score, the findings and the  *)
(* defences of each entity of the ecosystem, and the reports made of them. *)
(*                                                                         *)
(* A finding is counted and a score goes with the counts; the defences an  *)
(* entity starts with are one name, "own", and the six shared baselines,   *)
(* which are always pushed together, are another.  A report holds the      *)
(* entities' records themselves, not copies of them: what it says of an    *)
(* entity is what the entity has when the report is read.                  *)
(***************************************************************************)
EXTENDS Integers, Sequences, Functions

CONSTANT MaxFindings  \* bound: findings ever recorded

ASSUME FindingsAssumption == MaxFindings \in Nat

VARIABLES
  hardeningScore,
  findings,        \* how many an entity has
  activeDefenses,
  compliant,
  report           \* the latest posture report a reader holds

postureVars == <<hardeningScore, findings, activeDefenses, compliant, report>>

DefaultScore ==
  [SOVEREIGN_OS |-> 98, METRO_TASK_FORCE |-> 95, COMPLIANCE_LABS |-> 100,
   AUDIOBLUE |-> 94, GRIDD_CORP |-> 96, PERSONAL_SOVEREIGN_AI |-> 97]

Entity ==
  {"SOVEREIGN_OS", "METRO_TASK_FORCE", "COMPLIANCE_LABS", "AUDIOBLUE", "GRIDD_CORP",
   "PERSONAL_SOVEREIGN_AI"}

\* The entities getSocFleetPosture has a row for.
FleetEntity == Entity \ {"PERSONAL_SOVEREIGN_AI"}

NoReport == [overallHardeningScore |-> 0 - 1, criticalFindings |-> [e \in Entity |-> 0]]

PostureTypeOK ==
  /\ hardeningScore \in [Entity -> 0 .. 100]
  /\ findings \in [Entity -> Nat]
  /\ activeDefenses \in [Entity -> Seq({"own", "shared"})]
  /\ compliant \in [Entity -> BOOLEAN]
  /\ report \in [overallHardeningScore : Int, criticalFindings : [Entity -> Nat]]

PostureInit ==
  /\ hardeningScore = DefaultScore
  /\ findings = [e \in Entity |-> 0]
  /\ activeDefenses = [e \in Entity |-> <<"own">>]
  /\ compliant = [e \in Entity |-> DefaultScore[e] >= 90]
  /\ report = NoReport

-----------------------------------------------------------------------------
Total(count) ==
  count["SOVEREIGN_OS"] + count["METRO_TASK_FORCE"] + count["COMPLIANCE_LABS"]
    + count["AUDIOBLUE"] + count["GRIDD_CORP"] + count["PERSONAL_SOVEREIGN_AI"]

\* Math.round of the mean of six.
OverallHardeningScore(score) == (Total(score) + 3) \div 6

GetPostureReport ==
  /\ report' = [overallHardeningScore |-> OverallHardeningScore(hardeningScore),
                criticalFindings |-> findings]
  /\ UNCHANGED <<hardeningScore, findings, activeDefenses, compliant>>

SyncBaselines ==
  /\ activeDefenses' = [e \in Entity |->
                          IF "shared" \in Range(activeDefenses[e]) THEN activeDefenses[e]
                          ELSE Append(activeDefenses[e], "shared")]
  /\ compliant' = [e \in Entity |-> hardeningScore[e] >= 90]
  /\ UNCHANGED <<hardeningScore, findings, report>>

AfterFinding(score) == IF score > 5 THEN score - 5 ELSE 0

\* A fault of RecordEntityFinding: the entity keeps the verdict of before.
RecordFindingOnly(e) ==
  /\ Total(findings) < MaxFindings
  /\ findings' = [findings EXCEPT ![e] = @ + 1]
  /\ hardeningScore' = [hardeningScore EXCEPT ![e] = AfterFinding(@)]
  /\ UNCHANGED <<activeDefenses, compliant, report>>

RecordEntityFinding(e) ==
  /\ Total(findings) < MaxFindings
  /\ findings' = [findings EXCEPT ![e] = @ + 1]
  /\ hardeningScore' = [hardeningScore EXCEPT ![e] = AfterFinding(@)]
  /\ compliant' = [compliant EXCEPT ![e] = AfterFinding(hardeningScore[e]) >= 90]
  /\ UNCHANGED <<activeDefenses, report>>

\* A row of getSocFleetPosture.
FleetStatus(e) == IF findings[e] > 0 THEN "DEGRADED" ELSE "CONNECTED"

-----------------------------------------------------------------------------
(* The views of the fleet agree with one another at any time, however the  *)
(* findings, the syncs and the reports are mixed: an entity that lost its  *)
(* compliance shows as degraded, none is degraded at its full score, and a *)
(* report kept from earlier lists no finding that is gone and no overall   *)
(* score below the present one.                                            *)
ViewsAgree ==
  /\ \A e \in FleetEntity :
       /\ ~compliant[e] => FleetStatus(e) = "DEGRADED"
       /\ FleetStatus(e) = "DEGRADED" <=> hardeningScore[e] < DefaultScore[e]
  /\ \A e \in Entity : compliant[e] <=> hardeningScore[e] >= 90
  /\ report # NoReport =>
       /\ report.overallHardeningScore >= OverallHardeningScore(hardeningScore)
       /\ \A e \in Entity : report.criticalFindings[e] =< findings[e]

=============================================================================
