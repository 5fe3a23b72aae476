------------------------------ MODULE Platform ------------------------------
(***************************************************************************)
(* The services src/platform/platform.ts holds side by side that no other  *)
(* composition has: key rotation and the KMS, the tenant boundary, and the *)
(* governance of the fleet; and the alerts of GriDD Corp.  They share no   *)
(* state but the clock, so that what one does never depends on the others: *)
(* a behaviour calls one kind.                                             *)
(***************************************************************************)
EXTENDS KeyRotation, KeyManagement, TenantBoundary, Governance

VARIABLE used  \* bound: the services a behaviour calls

rotationVars == <<issued, activeCredentials, jobs>>
kmsVars == <<masterKeys, keysMade, envelopes>>
secretsVars == <<rotationVars, kmsVars>>
vars == <<now, used, secretsVars, federationAgreements, alerts, governanceVars>>

TypeOK ==
  /\ now \in Nat
  /\ RotationTypeOK
  /\ KmsTypeOK
  /\ TenantTypeOK
  /\ FeedTypeOK
  /\ GovernanceTypeOK

\* The chain of recordAudit varies only where somebody appends: a bound.
Init ==
  /\ now = 0
  /\ used \in {"rotation", "kms", "tenants", "feed", "governance"}
  /\ RotationInit
  /\ KmsInit
  /\ TenantInit
  /\ FeedInit
  /\ GovernanceInit
  /\ used = "governance" \/ recorder = "trail"

UseRotation ==
  /\ used = "rotation"
  /\ RotationNext
  /\ UNCHANGED <<used, kmsVars, federationAgreements, alerts, governanceVars>>

UseKms ==
  /\ used = "kms"
  /\ KmsNext
  /\ UNCHANGED <<now, used, rotationVars, federationAgreements, alerts, governanceVars>>

UseTenants ==
  /\ used = "tenants"
  /\ TenantNext
  /\ UNCHANGED <<now, used, secretsVars, alerts, governanceVars>>

UseFeed ==
  /\ used = "feed"
  /\ FeedNext
  /\ UNCHANGED <<now, used, secretsVars, federationAgreements, governanceVars>>

UseGovernance ==
  /\ used = "governance"
  /\ GovernanceNext
  /\ UNCHANGED <<now, used, secretsVars, federationAgreements, alerts>>

\* The other services keep times and read none of them.
Tick ==
  /\ used \in {"rotation", "tenants"}
  /\ Advance
  /\ UNCHANGED <<used, secretsVars, federationAgreements, alerts, governanceVars>>

Next == UseRotation \/ UseKms \/ UseTenants \/ UseFeed \/ UseGovernance \/ Tick

Spec == Init /\ [][Next]_vars

=============================================================================
