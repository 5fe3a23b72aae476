--------------------------- MODULE TenantBoundary ---------------------------
(***************************************************************************)
(* src/identity/tenant.ts: what one tenant may read of another under the   *)
(* federation agreements registered so far.  A later agreement of the same *)
(* two tenants, in the same direction, takes the place of the earlier one. *)
(*                                                                         *)
(* A resource id, and the prefix of one, is the sequence of its parts.     *)
(* Tenant ids hold no colon, with which the code joins two to a key.       *)
(***************************************************************************)
EXTENDS Runtime, Integers, Sequences, SequencesExt

CONSTANTS
  Tenant,
  Resource,            \* resource ids
  FederationAgreement  \* the agreements that may be registered

ASSUME AgreementAssumption ==
  \A a \in FederationAgreement :
    a.source \in Tenant /\ a.target \in Tenant /\ a.expiresAt \in Int

VARIABLE federationAgreements  \* source and target tenant |-> agreement

\* The time an expiresAt that is no date gives: NaN, here a time of its own.
NotADate == 0 - 1

TenantTypeOK ==
  /\ DOMAIN federationAgreements \subseteq Tenant \X Tenant
  /\ \A k \in DOMAIN federationAgreements :
       federationAgreements[k] \in FederationAgreement

TenantInit == federationAgreements = << >>

\* A fault of BoundaryKey: an agreement of two tenants, whatever its direction.
MutualKey(source, target) ==
  CHOOSE key \in {<<source, target>>, <<target, source>>} : TRUE

BoundaryKey(source, target) == <<source, target>>

RegisterFederationAgreement(a) ==
  LET key == BoundaryKey(a.source, a.target)
  IN  federationAgreements' =
        [k \in DOMAIN federationAgreements \union {key} |->
           IF k = key THEN a ELSE federationAgreements[k]]

Expired(a) == a.expiresAt # NotADate /\ now > a.expiresAt

Covers(a, resource) ==
  \/ <<"*">> \in a.allowedResources
  \/ \E prefix \in a.allowedResources : IsPrefix(prefix, resource)

CanAccessTenantResource(source, target, resource) ==
  \/ source = target
  \/ LET key == BoundaryKey(source, target)
     IN  /\ key \in DOMAIN federationAgreements
         /\ ~Expired(federationAgreements[key])
         /\ Covers(federationAgreements[key], resource)

TenantNext == \E a \in FederationAgreement : RegisterFederationAgreement(a)

-----------------------------------------------------------------------------
(* What is open to a tenant opens only when an agreement of that direction *)
(* that covers it is registered, and closes only when such an agreement is *)
(* replaced or the clock passes its end: never through an agreement of     *)
(* other tenants, or of the same two the other way round.                  *)
Moves(s, t, r) ==
  LET registered(a) == RegisterFederationAgreement(a) /\ a.source = s /\ a.target = t
  IN  /\ ~CanAccessTenantResource(s, t, r) /\ CanAccessTenantResource(s, t, r)' =>
           \E a \in FederationAgreement : registered(a) /\ Covers(a, r)
      /\ CanAccessTenantResource(s, t, r) /\ ~CanAccessTenantResource(s, t, r)' =>
           \/ \E a \in FederationAgreement : registered(a)
           \/ now' > now /\ UNCHANGED federationAgreements

AccessMovesWithAgreements ==
  [][\A s \in Tenant, t \in Tenant, r \in Resource : Moves(s, t, r)]_<<now, federationAgreements>>

=============================================================================
