---------------------------- MODULE JitElevation ----------------------------
(***************************************************************************)
(* JITPrivilegeManager of src/identity/jit.ts: requests for a temporary    *)
(* elevation, and the grants that approvals make of them.  A grant past    *)
(* its deadline says ACTIVE until somebody asks.  Requests and grants are  *)
(* numbered in the order of their Maps.                                    *)
(***************************************************************************)
EXTENDS Runtime, Integers, Sequences

CONSTANTS
  Subject,      \* who may be elevated
  Asked,        \* durations asked for
  Shortest,     \* five minutes
  Longest,      \* an hour
  MaxRequests   \* bound: requests ever submitted

ASSUME JitAssumption ==
  /\ Asked \subseteq Int
  /\ Shortest \in Nat \ {0} /\ Longest \in Nat /\ Shortest <= Longest
  /\ MaxRequests \in Nat

VARIABLES
  requests,  \* JITPrivilegeManager.requests
  grants     \* JITPrivilegeManager.grants

jitVars == <<now, requests, grants>>

RequestId == 1 .. MaxRequests

JITRequest == [subject : Subject, duration : Shortest .. Longest,
               status : {"PENDING", "APPROVED"}]

JITGrant == [request : RequestId, subject : Subject, issuedAt : Nat, expiresAt : Nat,
             status : {"ACTIVE", "EXPIRED", "REVOKED"}]

JitTypeOK ==
  /\ now \in Nat
  /\ requests \in Seq(JITRequest)
  /\ grants \in Seq(JITGrant)

JitInit ==
  /\ requests = <<>>
  /\ grants = <<>>

-----------------------------------------------------------------------------
Clamped(duration) ==
  IF duration < Shortest THEN Shortest
  ELSE IF duration > Longest THEN Longest ELSE duration

RequestElevation(subject, duration) ==
  /\ Len(requests) < MaxRequests
  /\ requests' = Append(requests, [subject |-> subject, duration |-> Clamped(duration),
                                   status |-> "PENDING"])
  /\ UNCHANGED <<now, grants>>

\* A fault of Approvable: the status is not looked at.
Known(r) == r \in DOMAIN requests

Approvable(r) == requests[r].status = "PENDING"

\* Anything but a pending request is an error that changes nothing.
ApproveElevation(r) ==
  /\ Approvable(r)
  /\ grants' = Append(grants, [request |-> r, subject |-> requests[r].subject,
                               issuedAt |-> now, expiresAt |-> now + requests[r].duration,
                               status |-> "ACTIVE"])
  /\ requests' = [requests EXCEPT ![r].status = "APPROVED"]
  /\ UNCHANGED now

\* Whatever the status was.
RevokeGrant(g) ==
  /\ grants' = [grants EXCEPT ![g].status = "REVOKED"]
  /\ UNCHANGED <<now, requests>>

\* Faults of Outdated: the deadline counts as time left; revocations expire too.
OutdatedAfter(grant) == grant.status = "ACTIVE" /\ now > grant.expiresAt

OutdatedWhatever(grant) == now >= grant.expiresAt

Outdated(grant) == grant.status = "ACTIVE" /\ now >= grant.expiresAt

Expired(grant) == IF Outdated(grant) THEN [grant EXCEPT !.status = "EXPIRED"] ELSE grant

\* expireOutdatedGrants, which getActiveGrantForSubject and listActiveGrants
\* call before they look.
ExpireOutdatedGrants ==
  /\ grants' = [g \in DOMAIN grants |-> Expired(grants[g])]
  /\ UNCHANGED <<now, requests>>

JitNext ==
  \/ \E subject \in Subject, duration \in Asked : RequestElevation(subject, duration)
  \/ \E r \in DOMAIN requests : ApproveElevation(r)
  \/ \E g \in DOMAIN grants : RevokeGrant(g)
  \/ ExpireOutdatedGrants

-----------------------------------------------------------------------------
\* Deadlines are marked when somebody asks and not when they pass; still every
\* request is a lease that is granted by an approval, for at most an hour, ends
\* at its deadline or when it is revoked, and never comes back.
InForce == {g \in DOMAIN grants : Expired(grants[g]).status = "ACTIVE"}

Elevations ==
  INSTANCE Leases WITH
    Key <- RequestId, Term <- (Shortest - 1) .. (Longest - 1), Revocable <- TRUE,
    deadline <- [r \in {grants[g].request : g \in InForce} |->
                   grants[CHOOSE g \in InForce : grants[g].request = r].expiresAt - 1],
    grants <- [r \in RequestId |->
                 IF r \in DOMAIN requests /\ requests[r].status = "APPROVED" THEN 1 ELSE 0]

ElevationsAreLeases == Elevations!Init /\ [][Elevations!Next]_(Elevations!leaseVars)

\* One approval, one grant, however often and by whom approvals are asked for:
\* every approved request has exactly one grant, for its subject and as long as
\* was asked, and no other request has any.
OneGrantPerApproval ==
  \A r \in DOMAIN requests :
    LET of == {g \in DOMAIN grants : grants[g].request = r}
    IN  IF requests[r].status = "APPROVED"
          THEN \E g \in of :
                 /\ of = {g}
                 /\ grants[g].subject = requests[r].subject
                 /\ grants[g].expiresAt - grants[g].issuedAt = requests[r].duration
          ELSE of = {}

\* A revoked grant stays revoked, whatever expires and whoever asks afterwards.
RevokedForGood ==
  [][\A g \in DOMAIN grants :
       grants[g].status = "REVOKED" => grants'[g].status = "REVOKED"]_jitVars

=============================================================================
