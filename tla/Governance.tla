----------------------------- MODULE Governance -----------------------------
(***************************************************************************)
(* The services of src/posture, src/compliance and src/integrations that   *)
(* write to one audit trail or read it: the synchronizer, the              *)
(* certification engine, the build gate, the evidence bundles of           *)
(* Compliance Labs, and the operator's commands of src/server/routes.ts.   *)
(*                                                                         *)
(* What a record's "what" says after a colon is kept under "why".          *)
(***************************************************************************)
EXTENDS Posture, Ecosystem

CONSTANTS
  Caller,     \* who gives a command: callerId and role
  MaxRecords  \* bound: records of the trail and of the ledger

ASSUME RecordsAssumption == MaxRecords \in Nat

VARIABLES
  recorder,  \* the chain recordAudit appends to; "unopened" when the ledger has none yet
  ledger,    \* what recordAudit appended to a chain of the ledger's own
  confirmed  \* history: the records of the commands that were answered with success

recordVars == <<recorder, ledger, confirmed>>
governanceVars == <<postureVars, trail, answers, recordVars>>

GovernanceTypeOK ==
  /\ PostureTypeOK
  /\ trail \in Chain
  /\ answers \in Seq(Answer)
  /\ recorder \in {"trail", "ledger", "unopened"}
  /\ ledger \in Seq(Payload)
  /\ confirmed \in Seq(Payload)

GovernanceInit ==
  /\ PostureInit
  /\ trail = << >>
  /\ answers = << >>
  /\ recorder \in {"trail", "ledger", "unopened"}
  /\ ledger = << >>
  /\ confirmed = << >>

-----------------------------------------------------------------------------
(* ComplianceCertificationEngine: a framework is certified from the        *)
(* evaluation of its controls.  The titles, the evidence texts and the     *)
(* signature of a report are left out.                                     *)
Framework == {"NIST_SP_800_207", "SOC2_TYPE_II", "ISO_IEC_27001_2022"}

Controls ==
  [NIST_SP_800_207 |->
     {"ZTA-PEP-01", "ZTA-PDP-02", "ZTA-ID-03", "ZTA-AUDIT-04", "ZTA-CRYPTO-05"},
   SOC2_TYPE_II |->
     {"SOC2-CC6.1", "SOC2-CC6.6", "SOC2-CC6.7", "SOC2-CC7.2", "SOC2-CC8.1"},
   ISO_IEC_27001_2022 |->
     {"ISO-A.8.2", "ISO-A.8.24", "ISO-A.8.28", "ISO-A.8.30", "ISO-A.8.16"}]

\* Every branch of the switch, the default one too, returns COMPLIANT.
EvaluateControl(control) == "COMPLIANT"

\* The share of compliant controls in per cent, rounded.
OverallScore(framework) ==
  LET total == Cardinality(Controls[framework])
      passed == Cardinality({c \in Controls[framework] : EvaluateControl(c) = "COMPLIANT"})
  IN  IF total = 0 THEN 100 ELSE (200 * passed + total) \div (2 * total)

CertificationStatus(framework) ==
  IF OverallScore(framework) = 100 THEN "CERTIFIED"
  ELSE IF OverallScore(framework) >= 80 THEN "PROVISIONAL"
  ELSE "NON_COMPLIANT"

-----------------------------------------------------------------------------
SyncRecord ==
  [who |-> "posture-synchronizer", what |-> "posture.fleet_sync",
   why |-> "periodic", result |-> "SUCCESS"]

CertificationRecord(framework) ==
  [who |-> "compliance-certification-engine", what |-> "compliance.certified", why |-> framework,
   result |-> IF CertificationStatus(framework) = "NON_COMPLIANT" THEN "FAILURE" ELSE "SUCCESS"]

CommandName == {"POSTURE_SYNC", "CERTIFY", "TRIAGE_ALERT", "FORENSIC_RCA"}

CommandRecord(caller, command) ==
  [who |-> caller.id, what |-> "soc.agent.command", why |-> command, result |-> "SUCCESS"]

\* All that is ever appended here.
GovernanceRecords ==
  {SyncRecord, BlockedRecord}
    \union {CertificationRecord(f) : f \in Framework}
    \union {BypassRecord(b) : b \in Build}
    \union {CommandRecord(c, name) : c \in Caller, name \in CommandName}

ASSUME GovernanceRecordsAssumption == GovernanceRecords \subseteq Payload

\* POST /api/v1/platform/posture/sync
SyncPosture ==
  /\ SyncBaselines
  /\ trail' = AppendRecord(trail, SyncRecord)
  /\ UNCHANGED recordVars

\* GET /api/v1/compliance/certify
Certify(framework) ==
  /\ trail' = AppendRecord(trail, CertificationRecord(framework))
  /\ UNCHANGED <<postureVars, recordVars>>

Permitted(caller) == caller.role # "UNPRIVILEGED_GUEST"

\* Where a record goes that is appended by recordAudit: to the audit service that
\* the other services share, or to the ledger.  A ledger whose file was not opened
\* yet tries again, and goes on with the shared chain when the file is gone, with a
\* chain of its own when it reads the file.
Recorder == IF recorder = "unopened" THEN {"trail", "ledger"} ELSE {recorder}

AppendedBy(where, chain, record) ==
  /\ recorder' = where
  /\ trail' = IF where = "trail" THEN AppendRecord(chain, record) ELSE chain
  /\ ledger' = IF where = "ledger" THEN Append(ledger, record) ELSE ledger

\* A fault of RecordAudit: an error of the ledger is caught and the command
\* confirmed.
RecordAuditCaught(chain, record) ==
  \/ /\ recorder = "unopened"
     /\ trail' = chain
     /\ confirmed' = Append(confirmed, record)
     /\ UNCHANGED <<recorder, ledger>>
  \/ /\ \E where \in Recorder : AppendedBy(where, chain, record)
     /\ confirmed' = Append(confirmed, record)

\* recordAudit, the last thing a command does, when the shared chain is as given.
\* It throws when the file does not parse or verify, and when the line cannot be
\* written, by then the record is in memory: the caller has an error, and what the
\* command did stays.
RecordAudit(chain, record) ==
  \/ /\ recorder = "unopened"
     /\ trail' = chain
     /\ UNCHANGED recordVars
  \/ /\ \E where \in Recorder : AppendedBy(where, chain, record)
     /\ confirmed' \in {confirmed, Append(confirmed, record)}

\* POST /api/v1/soc/agents/command, with an alert that is found or a framework that is known.
CommandPostureSync(caller) ==
  /\ Permitted(caller)
  /\ SyncBaselines
  /\ RecordAudit(AppendRecord(trail, SyncRecord), CommandRecord(caller, "POSTURE_SYNC"))

CommandCertify(caller, framework) ==
  /\ Permitted(caller)
  /\ RecordAudit(AppendRecord(trail, CertificationRecord(framework)),
                 CommandRecord(caller, "CERTIFY"))
  /\ UNCHANGED postureVars

CommandOnAlert(caller, command) ==
  /\ Permitted(caller)
  /\ RecordAudit(trail, CommandRecord(caller, command))
  /\ UNCHANGED postureVars

Command(caller) ==
  \/ CommandPostureSync(caller)
  \/ \E f \in Framework : CommandCertify(caller, f)
  \/ \E c \in {"TRIAGE_ALERT", "FORENSIC_RCA"} : CommandOnAlert(caller, c)

\* A guest's command, one without a name or with an unknown one, an alert that
\* is not found, and a framework that certify throws on: nothing is on record.
RefuseCommand == UNCHANGED governanceVars

-----------------------------------------------------------------------------
(* The bundle Compliance Labs is given, and what the platform says of      *)
(* itself in its summary.                                                  *)
LastOf(chain, n) ==
  IF Len(chain) > n THEN SubSeq(chain, Len(chain) - n + 1, Len(chain)) ELSE chain

EvidenceBundle(framework, chain) ==
  [attestation |-> CertificationStatus(framework),
   recordCount |-> Len(chain),
   headHash    |-> IF chain = << >> THEN "GENESIS" ELSE chain[Len(chain)].currentHash,
   chainValid  |-> VerifyIntegrity(chain),
   sampleEvidenceRecords |-> LastOf(chain, 10)]

PlatformSummary(chain) ==
  [status |-> IF VerifyIntegrity(chain) THEN "OPTIMAL" ELSE "DEGRADED",
   totalAuditRecords |-> Len(chain),
   ecosystemHardeningScore |-> OverallHardeningScore(hardeningScore),
   complianceCertifications |-> [f \in Framework |-> "CERTIFIED"]]

-----------------------------------------------------------------------------
GovernanceNext ==
  \/ /\ \/ \E e \in Entity : RecordEntityFinding(e)
        \/ GetPostureReport
     /\ UNCHANGED <<trail, answers, recordVars>>
  \/ /\ Len(trail) + Len(ledger) + 1 < MaxRecords
     /\ \/ SyncPosture
        \/ \E f \in Framework : Certify(f)
        \/ \E c \in Caller : Command(c)
     /\ UNCHANGED answers
  \/ /\ Len(trail) + Len(ledger) < MaxRecords
     /\ \E b \in Build : EvaluateBuildGate(b)
     /\ UNCHANGED <<postureVars, recordVars>>
  \/ RefuseCommand

-----------------------------------------------------------------------------
(* The trail accounts for builds, whatever the services that share it      *)
(* append in between: a build whose scans fail is let through only in the  *)
(* name of somebody and under a ticket; each such build, and each that is  *)
(* blocked, has the one record its answer names, and the trail holds no    *)
(* other of the gate.                                                      *)
BuildsAccountedFor ==
  LET entry(n) == trail[n].payload
      ofGate(n) == entry(n).what \in {"AUDIOBLUE_CI_EMERGENCY_BYPASS", "AUDIOBLUE_CI_BUILD_BLOCKED"}
  IN  /\ \A i \in DOMAIN answers :
           LET a == answers[i]
           IN  /\ a.status = "PASSED" <=> ~Violates(a.build)
               /\ a.status = "BYPASS_APPROVED" =>
                    /\ entry(a.auditTrailId).who # Nobody
                    /\ entry(a.auditTrailId).why # NoTicket
                    /\ entry(a.auditTrailId).result = "SUCCESS"
               /\ a.status = "BLOCKED" => entry(a.auditTrailId).result = "DENIED"
      /\ \A n \in DOMAIN trail :
           ofGate(n) => Cardinality({i \in DOMAIN answers : answers[i].auditTrailId = n}) = 1

Entries(chain) == [n \in DOMAIN chain |-> chain[n].payload]

\* How many of the entries are among the given ones.
Times(entries, given) == Cardinality({n \in DOMAIN entries : entries[n] \in given})

\* In either of the chains that a command's record may go to.
OnRecord(given) == Times(Entries(trail), given) + Times(ledger, given)

CommandsBy(name) == {CommandRecord(c, name) : c \in Caller}

CertificationRecords == {CertificationRecord(f) : f \in Framework}

(* And for commands, whichever chain their records go to and whether they  *)
(* are written or not: a command that is confirmed has a record of its     *)
(* own; a sync or a certification that is on record as a command has the   *)
(* record of the service too, on the trail; and no baseline is in force    *)
(* without a record of the sync, be it that the caller was told of an      *)
(* error.                                                                  *)
CommandsAccountedFor ==
  /\ \A c \in Caller, name \in CommandName :
       Times(confirmed, {CommandRecord(c, name)}) <= OnRecord({CommandRecord(c, name)})
  /\ OnRecord(CommandsBy("POSTURE_SYNC")) <= Times(Entries(trail), {SyncRecord})
  /\ OnRecord(CommandsBy("CERTIFY")) <= Times(Entries(trail), CertificationRecords)
  /\ (\E e \in Entity : "shared" \in Range(activeDefenses[e])) =>
       SyncRecord \in Range(Entries(trail))

(* What was done is on record: by the build gate, and by the operators'    *)
(* commands, whose own record may fail or go to another chain.             *)
TrailAccounts == BuildsAccountedFor /\ CommandsAccountedFor

=============================================================================
