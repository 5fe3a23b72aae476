---------------------------- MODULE KeyRotation ----------------------------
(***************************************************************************)
(* src/secrets/rotation-orchestrator.ts: the credentials of the services   *)
(* and the jobs that replace them.  A descriptor is handed out by          *)
(* reference and changed in place, so all that were issued are kept, in    *)
(* the order of their making; the map of credentials in force holds the    *)
(* index of one of them per service.                                       *)
(*                                                                         *)
(* An id is the service, the millisecond and the version of which it is    *)
(* put together (version 1 goes without suffix).  Abstracted: key hashes,  *)
(* classifications, expiry dates and the trail's lines of text, which      *)
(* nothing reads.                                                          *)
(***************************************************************************)
EXTENDS Runtime, Sequences, FiniteSets

CONSTANTS
  Service,    \* services with credentials
  MaxIssued,  \* bound: credentials ever made
  MaxJobs     \* bound: rotation jobs in the map

ASSUME IssuedAssumption == MaxIssued \in Nat
ASSUME JobsAssumption == MaxJobs \in Nat

VARIABLES
  issued,             \* every descriptor ever made, in order
  activeCredentials,  \* service |-> index of its descriptor in issued
  jobs                \* job id |-> rotation job

Phase == {"INITIATED", "SECONDARY_DEPLOYED", "PRIMARY_PROMOTED",
          "OLD_KEY_DEPRECATED", "COMPLETED"}

CredentialId == [service : Service, at : Nat, version : Nat \ {0}]
Descriptor == [id : CredentialId, service : Service, version : Nat \ {0},
               status : {"ACTIVE", "DEPRECATED", "REVOKED"}]
JobId == [service : Service, at : Nat]
Job == [service : Service, old : CredentialId, new : CredentialId,
        phase : Phase]

Issue(id, s, v) ==
  Append(issued, [id |-> id, service |-> s, version |-> v, status |-> "ACTIVE"])

Current(s) == issued[activeCredentials[s]]

PutInForce(s) ==
  activeCredentials' =
    [t \in DOMAIN activeCredentials \union {s} |->
       IF t = s THEN Len(issued) + 1 ELSE activeCredentials[t]]

(* The descriptor that was in force is forgotten as it is, status and all. *)
RegisterCredential(s) ==
  /\ Len(issued) < MaxIssued
  /\ issued' = Issue([service |-> s, at |-> now, version |-> 1], s, 1)
  /\ PutInForce(s)
  /\ UNCHANGED jobs

(* A job started in the millisecond of another takes its id, and its place. *)
InitiateRotation(s) ==
  /\ s \in DOMAIN activeCredentials
  /\ Cardinality(DOMAIN jobs \union {[service |-> s, at |-> now]}) <= MaxJobs
  /\ LET id == [service |-> s, at |-> now]
         job == [service |-> s,
                 old |-> Current(s).id,
                 new |-> [service |-> s, at |-> now,
                          version |-> Current(s).version + 1],
                 phase |-> "INITIATED"]
     IN jobs' = [j \in DOMAIN jobs \union {id} |-> IF j = id THEN job ELSE jobs[j]]
  /\ UNCHANGED <<issued, activeCredentials>>

Enter(j, phase) == jobs' = [jobs EXCEPT ![j].phase = phase]

(* The steps of a job ask for the job and nothing else: any of them may be *)
(* taken at any time, and again.                                           *)
StepDeploySecondary(j) ==
  Enter(j, "SECONDARY_DEPLOYED") /\ UNCHANGED <<issued, activeCredentials>>

\* A fault of Replaced: looks the old credential up by the id in the job.
ReplacedByOldId(j) ==
  CHOOSE i \in 1 .. Len(issued) : issued[i].id = jobs[j].old

(* The credential replaced is the one in force now, not the job's old one. *)
Replaced(j) == activeCredentials[jobs[j].service]

Promoted(j) ==
  LET i == Replaced(j)
      s == jobs[j].service
  IN [Issue(jobs[j].new, s, issued[i].version + 1)
        EXCEPT ![i].status = "DEPRECATED"]

StepPromotePrimary(j) ==
  /\ Len(issued) < MaxIssued
  /\ issued' = Promoted(j)
  /\ PutInForce(jobs[j].service)
  /\ Enter(j, "PRIMARY_PROMOTED")

StepDeprecateOldKey(j) ==
  Enter(j, "OLD_KEY_DEPRECATED") /\ UNCHANGED <<issued, activeCredentials>>

(* No credential becomes REVOKED, here or anywhere. *)
StepCompleteAndRevoke(j) ==
  Enter(j, "COMPLETED") /\ UNCHANGED <<issued, activeCredentials>>

RotationInit ==
  /\ issued = <<>>
  /\ activeCredentials = <<>>
  /\ jobs = <<>>

RotationNext ==
  /\ \/ \E s \in Service : RegisterCredential(s) \/ InitiateRotation(s)
     \/ \E j \in DOMAIN jobs :
          \/ StepDeploySecondary(j)
          \/ StepPromotePrimary(j)
          \/ StepDeprecateOldKey(j)
          \/ StepCompleteAndRevoke(j)
  /\ UNCHANGED now

RotationTypeOK ==
  /\ issued \in Seq(Descriptor)
  /\ DOMAIN activeCredentials \subseteq Service
  /\ \A s \in DOMAIN activeCredentials : activeCredentials[s] \in 1 .. Len(issued)
  /\ DOMAIN jobs \subseteq JobId
  /\ \A j \in DOMAIN jobs : jobs[j] \in Job

-----------------------------------------------------------------------------
(* A job keeps the service it is for, and a service with a job has a       *)
(* credential: promotion takes that for granted.                           *)
JobsHaveCredential ==
  \A j \in DOMAIN jobs : jobs[j].service \in DOMAIN activeCredentials

(* i is not older than the last credential s was registered with.          *)
SinceRegistration(s, i) ==
  \A r \in 1 .. Len(issued) :
    issued[r].service = s /\ issued[r].version = 1 => r <= i

(* However many rotations of a service are under way, in whatever order    *)
(* their steps are taken and however often, the credential in the map is   *)
(* the service's own and the last it was given, and of those it was given  *)
(* since it was last registered it alone is ACTIVE.                        *)
OneInForce ==
  \A s \in DOMAIN activeCredentials :
    /\ Current(s).service = s
    /\ \A i \in 1 .. Len(issued) :
         issued[i].service = s =>
           /\ i <= activeCredentials[s]
           /\ SinceRegistration(s, i) =>
                (issued[i].status = "ACTIVE" <=> i = activeCredentials[s])

=============================================================================
