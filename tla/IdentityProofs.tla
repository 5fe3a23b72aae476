--------------------------- MODULE IdentityProofs ---------------------------
(***************************************************************************)
(* Elevations and challenges, for every set of subjects and every bound,   *)
(* and what the pure decisions of src/identity/abac.ts and                 *)
(* src/risk/engine.ts promise for every input.                             *)
(***************************************************************************)
EXTENDS Identity, AccessDecisions, TLAPS

-----------------------------------------------------------------------------
\* Elevations.

\* OneGrantPerApproval is not inductive: an approval gives a pending request its
\* first grant only if no grant refers to a request that was never made.
GrantsHaveRequests == \A g \in DOMAIN grants : grants[g].request \in DOMAIN requests

RequestsBounded == Len(requests) <= MaxRequests

JitInv ==
  /\ JitTypeOK
  /\ RequestsBounded
  /\ GrantsHaveRequests
  /\ OneGrantPerApproval

\* The initial states of the elevation manager satisfy its invariant.
LEMMA JitInitial ==
  ASSUME JitInit, now \in Nat
  PROVE  JitInv
BY JitAssumption DEF JitInit, JitInv, JitTypeOK, RequestsBounded, GrantsHaveRequests,
  OneGrantPerApproval

\* Clamping puts every duration between five minutes and an hour.
LEMMA ClampedRange ==
  ASSUME NEW duration \in Int
  PROVE  Clamped(duration) \in Shortest .. Longest
BY JitAssumption DEF Clamped

\* A new request is pending and has no grant.
LEMMA RequestKeepsInv ==
  ASSUME JitInv,
         NEW subject \in Subject, NEW duration \in Asked,
         RequestElevation(subject, duration)
  PROVE  JitInv'
<1> USE DEF JitInv
<1>0. Clamped(duration) \in Shortest .. Longest
  BY ClampedRange, JitAssumption
<1> DEFINE new == [subject |-> subject, duration |-> Clamped(duration), status |-> "PENDING"]
<1>1. new \in JITRequest
  BY <1>0 DEF JITRequest
<1>2. requests' = Append(requests, new) /\ grants' = grants /\ now' = now
  BY DEF RequestElevation
<1>3. requests \in Seq(JITRequest)
  BY DEF JitTypeOK
<1> HIDE DEF new
<1>4. /\ requests' \in Seq(JITRequest)
      /\ Len(requests') = Len(requests) + 1
      /\ DOMAIN requests' = DOMAIN requests \union {Len(requests) + 1}
      /\ requests'[Len(requests) + 1] = new
      /\ \A r \in DOMAIN requests : requests'[r] = requests[r]
  BY <1>1, <1>2, <1>3
<1>5. JitTypeOK'
  BY <1>2, <1>4 DEF JitTypeOK
<1>6. RequestsBounded'
  BY <1>3, <1>4, JitAssumption DEF RequestElevation, RequestsBounded
<1>7. GrantsHaveRequests'
  BY <1>2, <1>4 DEF GrantsHaveRequests
<1>8. Len(requests) + 1 \notin DOMAIN requests
  BY <1>3
<1>9. new.status = "PENDING"
  BY DEF new
<1>10. OneGrantPerApproval'
  BY <1>2, <1>4, <1>8, <1>9 DEF GrantsHaveRequests, OneGrantPerApproval
<1> QED
  BY <1>5, <1>6, <1>7, <1>10

\* An approval finds the request pending, so the grant it makes is the first.
LEMMA ApprovalKeepsInv ==
  ASSUME JitInv,
         NEW r \in DOMAIN requests,
         ApproveElevation(r)
  PROVE  JitInv'
<1> USE DEF JitInv
<1> DEFINE new == [request |-> r, subject |-> requests[r].subject, issuedAt |-> now,
                   expiresAt |-> now + requests[r].duration, status |-> "ACTIVE"]
<1>1. /\ requests[r].status = "PENDING"
      /\ grants' = Append(grants, new)
      /\ requests' = [requests EXCEPT ![r].status = "APPROVED"]
      /\ now' = now
  BY DEF ApproveElevation, Approvable
<1>2. requests \in Seq(JITRequest) /\ grants \in Seq(JITGrant) /\ now \in Nat
  BY DEF JitTypeOK
<1>3. requests[r] \in JITRequest
  BY <1>2
<1>4. new \in JITGrant
  <2>1. r \in RequestId
    BY <1>2, JitAssumption DEF RequestsBounded, RequestId
  <2>2. now + requests[r].duration \in Nat
    BY <1>2, <1>3, JitAssumption DEF JITRequest
  <2> QED
    BY <2>1, <2>2, <1>2, <1>3 DEF JITGrant, JITRequest
<1>5. new.request = r /\ new.subject = requests[r].subject
      /\ new.expiresAt - new.issuedAt = requests[r].duration
  BY <1>2, <1>3, JitAssumption DEF JITRequest
<1> HIDE DEF new
<1>6. /\ grants' \in Seq(JITGrant)
      /\ Len(grants') = Len(grants) + 1
      /\ DOMAIN grants' = DOMAIN grants \union {Len(grants) + 1}
      /\ Len(grants) + 1 \notin DOMAIN grants
      /\ grants'[Len(grants) + 1] = new
      /\ \A g \in DOMAIN grants : grants'[g] = grants[g]
  BY <1>1, <1>2, <1>4
<1>7. /\ requests' \in Seq(JITRequest)
      /\ Len(requests') = Len(requests)
      /\ DOMAIN requests' = DOMAIN requests
      /\ requests'[r].status = "APPROVED"
      /\ requests'[r].subject = requests[r].subject
      /\ requests'[r].duration = requests[r].duration
      /\ \A q \in DOMAIN requests \ {r} : requests'[q] = requests[q]
  <2> DEFINE approved == [requests[r] EXCEPT !.status = "APPROVED"]
  <2>1. approved \in JITRequest /\ approved.status = "APPROVED"
        /\ approved.subject = requests[r].subject /\ approved.duration = requests[r].duration
    BY <1>3 DEF JITRequest
  <2>2. requests' = [requests EXCEPT ![r] = approved]
    BY <1>1
  <2> HIDE DEF approved
  <2> QED
    BY <2>1, <2>2, <1>2
<1>8. JitTypeOK'
  BY <1>1, <1>2, <1>6, <1>7 DEF JitTypeOK
<1>9. RequestsBounded' /\ GrantsHaveRequests'
  BY <1>5, <1>6, <1>7 DEF RequestsBounded, GrantsHaveRequests
<1>10. OneGrantPerApproval'
  <2> SUFFICES ASSUME NEW q \in DOMAIN requests'
               PROVE  LET of == {g \in DOMAIN grants' : grants'[g].request = q}
                      IN  IF requests'[q].status = "APPROVED"
                            THEN \E g \in of :
                                   /\ of = {g}
                                   /\ grants'[g].subject = requests'[q].subject
                                   /\ grants'[g].expiresAt - grants'[g].issuedAt
                                        = requests'[q].duration
                            ELSE of = {}
    BY DEF OneGrantPerApproval
  <2> DEFINE before == {g \in DOMAIN grants : grants[g].request = q}
             after == {g \in DOMAIN grants' : grants'[g].request = q}
  <2>1. CASE q = r
    <3>1. before = {}
      BY <2>1, <1>1 DEF OneGrantPerApproval
    <3>2. after = {Len(grants) + 1}
      BY <2>1, <3>1, <1>5, <1>6
    <3> QED
      BY <2>1, <3>2, <1>5, <1>6, <1>7
  <2>2. CASE q # r
    <3>1. after = before
      BY <2>2, <1>5, <1>6
    <3>2. requests'[q] = requests[q] /\ q \in DOMAIN requests
      BY <2>2, <1>7
    <3> QED
      BY <3>1, <3>2, <1>6 DEF OneGrantPerApproval
  <2> QED
    BY <2>1, <2>2
<1> QED
  BY <1>8, <1>9, <1>10

\* Marking grants as revoked or expired changes nothing the invariant is about.
LEMMA MarkingKeepsInv ==
  ASSUME JitInv,
         UNCHANGED <<now, requests>>,
         grants' \in Seq(JITGrant),
         DOMAIN grants' = DOMAIN grants,
         \A g \in DOMAIN grants :
           /\ grants'[g].request = grants[g].request
           /\ grants'[g].subject = grants[g].subject
           /\ grants'[g].issuedAt = grants[g].issuedAt
           /\ grants'[g].expiresAt = grants[g].expiresAt
  PROVE  JitInv'
<1>1. \A q : {g \in DOMAIN grants' : grants'[g].request = q}
               = {g \in DOMAIN grants : grants[g].request = q}
  OBVIOUS
<1>2. OneGrantPerApproval'
  BY <1>1 DEF JitInv, OneGrantPerApproval
<1> QED
  BY <1>2 DEF JitInv, JitTypeOK, RequestsBounded, GrantsHaveRequests

\* Every operation of the elevation manager keeps its invariant.
LEMMA JitStep ==
  ASSUME JitInv, JitNext
  PROVE  JitInv'
<1>1. ASSUME NEW subject \in Subject, NEW duration \in Asked,
             RequestElevation(subject, duration)
      PROVE  JitInv'
  BY <1>1, RequestKeepsInv
<1>2. ASSUME NEW r \in DOMAIN requests, ApproveElevation(r)
      PROVE  JitInv'
  BY <1>2, ApprovalKeepsInv
<1>3. ASSUME NEW g \in DOMAIN grants, RevokeGrant(g)
      PROVE  JitInv'
  <2> DEFINE revoked == [grants[g] EXCEPT !.status = "REVOKED"]
  <2>1. grants \in Seq(JITGrant) /\ grants[g] \in JITGrant
    BY DEF JitInv, JitTypeOK
  <2>2. /\ revoked \in JITGrant
        /\ revoked.request = grants[g].request
        /\ revoked.subject = grants[g].subject
        /\ revoked.issuedAt = grants[g].issuedAt
        /\ revoked.expiresAt = grants[g].expiresAt
    BY <2>1 DEF JITGrant
  <2>3. grants' = [grants EXCEPT ![g] = revoked] /\ UNCHANGED <<now, requests>>
    BY <1>3 DEF RevokeGrant
  <2> HIDE DEF revoked
  <2> QED
    BY <2>1, <2>2, <2>3, MarkingKeepsInv
<1>4. ASSUME ExpireOutdatedGrants
      PROVE  JitInv'
  <2>1. grants \in Seq(JITGrant)
    BY DEF JitInv, JitTypeOK
  <2>2. ASSUME NEW g \in DOMAIN grants
        PROVE  /\ Expired(grants[g]) \in JITGrant
               /\ Expired(grants[g]).request = grants[g].request
               /\ Expired(grants[g]).subject = grants[g].subject
               /\ Expired(grants[g]).issuedAt = grants[g].issuedAt
               /\ Expired(grants[g]).expiresAt = grants[g].expiresAt
    <3>1. grants[g] \in JITGrant
      BY <2>1
    <3> QED
      BY <3>1 DEF JITGrant, Expired
  <2>3. grants' = [g \in DOMAIN grants |-> Expired(grants[g])] /\ UNCHANGED <<now, requests>>
    BY <1>4 DEF ExpireOutdatedGrants
  <2>4. grants' \in Seq(JITGrant)
    BY <2>1, <2>2, <2>3
  <2> QED
    BY <2>2, <2>3, <2>4, MarkingKeepsInv
<1> QED
  BY <1>1, <1>2, <1>3, <1>4 DEF JitNext

-----------------------------------------------------------------------------
\* Challenges.

\* FirstAssertionDecides is not inductive: an assertion that is verified is the
\* first only if every asserted challenge is gone; and what is verified is right
\* only if the challenges still active are as they were generated.
AssertedAreConsumed ==
  \A i \in DOMAIN attempts : attempts[i].challenge \notin DOMAIN challenges

ActiveAsGenerated == \A c \in DOMAIN challenges : challenges[c] = generated[c]

StepUpInv ==
  /\ now \in Nat
  /\ StepUpTypeOK
  /\ AssertedAreConsumed
  /\ ActiveAsGenerated
  /\ FirstAssertionDecides
  /\ VerifiedBySubjectInTime

\* The initial states of the validator satisfy its invariant.
LEMMA StepUpInitial ==
  ASSUME StepUpInit, now \in Nat
  PROVE  StepUpInv
BY DEF StepUpInit, StepUpInv, StepUpTypeOK, AssertedAreConsumed, ActiveAsGenerated,
  FirstAssertionDecides, VerifiedBySubjectInTime

\* A new challenge was never asserted.
LEMMA ChallengeKeepsInv ==
  ASSUME StepUpInv,
         NEW subject \in Holder,
         GenerateChallenge(subject)
  PROVE  StepUpInv'
<1> USE DEF StepUpInv
<1> DEFINE new == [subject |-> subject, expiresAt |-> now + ChallengeTtl]
           id == Len(generated) + 1
           Attempt(D) == [challenge : D, by : Holder, at : Nat, verified : BOOLEAN]
<1>1. generated \in Seq(Challenge) /\ DOMAIN challenges \subseteq DOMAIN generated
      /\ challenges \in [DOMAIN challenges -> Challenge]
      /\ attempts \in Seq(Attempt(DOMAIN generated))
  BY DEF StepUpTypeOK
<1>2. new \in Challenge
  BY StepUpAssumption DEF Challenge
<1>3. generated' = Append(generated, new) /\ now' = now /\ attempts' = attempts
  BY DEF GenerateChallenge
<1>4. /\ generated' \in Seq(Challenge)
      /\ Len(generated') = id
      /\ DOMAIN generated' = DOMAIN generated \union {id}
      /\ id \notin DOMAIN generated
      /\ generated'[id] = new
      /\ \A c \in DOMAIN generated : generated'[c] = generated[c]
  BY <1>1, <1>2, <1>3
<1>5. challenges' = [c \in DOMAIN challenges \union {id} |->
                       IF c = id THEN new ELSE challenges[c]]
  BY <1>4 DEF GenerateChallenge
<1> HIDE DEF new
<1>6. StepUpTypeOK'
  <2>1. challenges' \in [DOMAIN challenges' -> Challenge]
    BY <1>1, <1>2, <1>5
  <2>2. DOMAIN challenges' \subseteq DOMAIN generated'
    BY <1>1, <1>4, <1>5
  <2>3. attempts \in Seq(Attempt(DOMAIN generated'))
    <3>1. Attempt(DOMAIN generated) \subseteq Attempt(DOMAIN generated')
      BY <1>4
    <3> HIDE DEF Attempt
    <3> QED
      BY <1>1, <3>1
  <2> QED
    BY <1>3, <1>4, <2>1, <2>2, <2>3 DEF StepUpTypeOK
<1>7. \A i \in DOMAIN attempts : attempts[i].challenge \in DOMAIN generated
  <2> SUFFICES ASSUME NEW i \in DOMAIN attempts
               PROVE  attempts[i].challenge \in DOMAIN generated
    OBVIOUS
  <2> DEFINE Attempts == Attempt(DOMAIN generated)
  <2>1. attempts \in Seq(Attempts)
    BY <1>1
  <2>2. \A x \in Attempts : x.challenge \in DOMAIN generated
    OBVIOUS
  <2> HIDE DEF Attempts
  <2>3. attempts[i] \in Attempts
    BY <2>1
  <2> QED
    BY <2>2, <2>3
<1>8. AssertedAreConsumed'
  BY <1>3, <1>4, <1>5, <1>7 DEF AssertedAreConsumed
<1>9. ActiveAsGenerated'
  BY <1>1, <1>4, <1>5 DEF ActiveAsGenerated
<1>10. FirstAssertionDecides' /\ VerifiedBySubjectInTime'
  BY <1>3, <1>4, <1>7 DEF FirstAssertionDecides, VerifiedBySubjectInTime
<1> QED
  BY <1>3, <1>6, <1>8, <1>9, <1>10

\* An assertion is verified only against an active challenge, which no earlier
\* assertion named, and consumes it.
LEMMA AssertionKeepsInv ==
  ASSUME StepUpInv,
         NEW c \in DOMAIN generated, NEW by \in Holder, NEW signed \in BOOLEAN,
         VerifyAssertion(c, by, signed)
  PROVE  StepUpInv'
<1> USE DEF StepUpInv
<1> DEFINE new == [challenge |-> c, by |-> by, at |-> now,
                   verified |-> Acceptable(c, by, signed)]
           Attempt == [challenge : DOMAIN generated, by : Holder, at : Nat, verified : BOOLEAN]
           last == Len(attempts) + 1
<1>1. generated \in Seq(Challenge) /\ DOMAIN challenges \subseteq DOMAIN generated
      /\ challenges \in [DOMAIN challenges -> Challenge]
      /\ attempts \in Seq(Attempt)
  BY DEF StepUpTypeOK
<1>2. Acceptable(c, by, signed) \in BOOLEAN
  BY DEF Acceptable
<1>3. new \in Attempt /\ new.challenge = c /\ new.by = by /\ new.at = now
      /\ new.verified = Acceptable(c, by, signed)
  BY <1>2
<1>4. generated' = generated /\ now' = now /\ attempts' = Append(attempts, new)
      /\ challenges' = Consumed(c, by, signed)
  BY DEF VerifyAssertion
<1>5. challenges' = [d \in DOMAIN challenges \ {c} |-> challenges[d]]
  BY <1>4 DEF Consumed, Restrict
<1> HIDE DEF new, Attempt
<1>6. /\ attempts' \in Seq(Attempt)
      /\ DOMAIN attempts' = DOMAIN attempts \union {last}
      /\ last \notin DOMAIN attempts
      /\ \A i \in DOMAIN attempts : i < last
      /\ attempts'[last] = new
      /\ \A i \in DOMAIN attempts : attempts'[i] = attempts[i]
  BY <1>1, <1>3, <1>4
<1>7. StepUpTypeOK'
  <2>1. challenges' \in [DOMAIN challenges' -> Challenge]
        /\ DOMAIN challenges' \subseteq DOMAIN generated'
    BY <1>1, <1>4, <1>5
  <2> QED
    BY <2>1, <1>1, <1>4, <1>6 DEF StepUpTypeOK, Attempt
<1>8. AssertedAreConsumed'
  BY <1>3, <1>5, <1>6 DEF AssertedAreConsumed
<1>9. ActiveAsGenerated'
  BY <1>4, <1>5 DEF ActiveAsGenerated
<1>10. FirstAssertionDecides'
  <2> SUFFICES ASSUME NEW i \in DOMAIN attempts', NEW j \in DOMAIN attempts',
                      i < j, attempts'[i].challenge = attempts'[j].challenge
               PROVE  ~attempts'[j].verified
    BY DEF FirstAssertionDecides
  <2>1. i \in DOMAIN attempts
    BY <1>1, <1>6
  <2>2. CASE j \in DOMAIN attempts
    BY <2>1, <2>2, <1>6 DEF FirstAssertionDecides
  <2>3. CASE j = last
    <3>1. c \notin DOMAIN challenges
      BY <2>1, <2>3, <1>3, <1>6 DEF AssertedAreConsumed
    <3> QED
      BY <2>3, <3>1, <1>3, <1>6 DEF Acceptable
  <2> QED
    BY <2>2, <2>3, <1>6
<1>11. VerifiedBySubjectInTime'
  <2> SUFFICES ASSUME NEW i \in DOMAIN attempts', attempts'[i].verified
               PROVE  /\ attempts'[i].by = generated[attempts'[i].challenge].subject
                      /\ attempts'[i].at <= generated[attempts'[i].challenge].expiresAt
    BY <1>4 DEF VerifiedBySubjectInTime
  <2>1. CASE i \in DOMAIN attempts
    BY <2>1, <1>6 DEF VerifiedBySubjectInTime
  <2>2. CASE i = last
    <3>1. Acceptable(c, by, signed)
      BY <2>2, <1>3, <1>6
    <3>2. challenges[c] = generated[c]
      BY <3>1 DEF Acceptable, ActiveAsGenerated
    <3> QED
      BY <2>2, <3>1, <3>2, <1>3, <1>6 DEF Acceptable
  <2> QED
    BY <2>1, <2>2, <1>6
<1> QED
  BY <1>4, <1>7, <1>8, <1>9, <1>10, <1>11

\* Every operation of the validator keeps its invariant.
LEMMA StepUpStep ==
  ASSUME StepUpInv, StepUpNext
  PROVE  StepUpInv'
BY ChallengeKeepsInv, AssertionKeepsInv DEF StepUpNext

-----------------------------------------------------------------------------
\* Both, under one clock.

IInv == JitInv /\ StepUpInv

\* The invariant holds in every state of the identity services.
THEOREM Invariance == Spec => []IInv
<1>1. Init => IInv
  BY JitInitial, StepUpInitial DEF Init, IInv
<1>2. IInv /\ [Next]_vars => IInv'
  <2> SUFFICES ASSUME IInv, [Next]_vars
               PROVE  IInv'
    OBVIOUS
  <2> USE DEF IInv
  <2>1. CASE JitNext /\ UNCHANGED <<challenges, generated, attempts>>
    <3>1. JitInv'
      BY <2>1, JitStep
    <3>2. now' = now
      BY <2>1 DEF JitNext, RequestElevation, ApproveElevation, RevokeGrant,
                  ExpireOutdatedGrants
    <3>3. StepUpInv'
      BY <2>1, <3>2 DEF StepUpInv, StepUpTypeOK, AssertedAreConsumed, ActiveAsGenerated,
                        FirstAssertionDecides, VerifiedBySubjectInTime
    <3> QED
      BY <3>1, <3>3
  <2>2. CASE StepUpNext /\ UNCHANGED <<requests, grants>>
    <3>1. StepUpInv'
      BY <2>2, StepUpStep
    <3>2. now' = now
      BY <2>2 DEF StepUpNext, GenerateChallenge, VerifyAssertion
    <3>3. JitInv'
      BY <2>2, <3>2 DEF JitInv, JitTypeOK, RequestsBounded, GrantsHaveRequests,
                        OneGrantPerApproval
    <3> QED
      BY <3>1, <3>3
  <2>3. CASE Tick
    <3>1. now' \in Nat
      BY <2>3 DEF Tick, Advance, StepUpInv
    <3>2. UNCHANGED <<requests, grants, challenges, generated, attempts>>
      BY <2>3 DEF Tick
    <3>3. JitInv'
      BY <3>1, <3>2 DEF JitInv, JitTypeOK, RequestsBounded, GrantsHaveRequests,
                        OneGrantPerApproval
    <3>4. StepUpInv'
      BY <3>1, <3>2 DEF StepUpInv, StepUpTypeOK, AssertedAreConsumed, ActiveAsGenerated,
                        FirstAssertionDecides, VerifiedBySubjectInTime
    <3> QED
      BY <3>3, <3>4
  <2>4. CASE UNCHANGED vars
    <3>1. UNCHANGED <<now, requests, grants, challenges, generated, attempts>>
      BY <2>4 DEF vars
    <3>2. JitInv'
      BY <3>1 DEF JitInv, JitTypeOK, RequestsBounded, GrantsHaveRequests,
                  OneGrantPerApproval
    <3>3. StepUpInv'
      BY <3>1 DEF StepUpInv, StepUpTypeOK, AssertedAreConsumed, ActiveAsGenerated,
                  FirstAssertionDecides, VerifiedBySubjectInTime
    <3> QED
      BY <3>2, <3>3
  <2> QED
    BY <2>1, <2>2, <2>3, <2>4 DEF Next
<1> QED
  BY <1>1, <1>2, PTL DEF Spec

\* Requests, grants, challenges and assertions are always well formed: every
\* elevation lasts between five minutes and an hour.
THEOREM TypeCorrect == Spec => []TypeOK
<1>1. IInv => TypeOK
  BY DEF IInv, JitInv, StepUpInv, TypeOK
<1> QED
  BY <1>1, Invariance, PTL

\* An approved request has exactly one grant, for its subject and its duration,
\* and no other request has any.
THEOREM OneGrantPerApprovalHolds == Spec => []OneGrantPerApproval
<1>1. IInv => OneGrantPerApproval
  BY DEF IInv, JitInv
<1> QED
  BY <1>1, Invariance, PTL

\* Only the first assertion that names a challenge can be verified.
THEOREM FirstAssertionDecidesHolds == Spec => []FirstAssertionDecides
<1>1. IInv => FirstAssertionDecides
  BY DEF IInv, StepUpInv
<1> QED
  BY <1>1, Invariance, PTL

\* What is verified was asserted by the subject of the challenge, in time.
THEOREM VerifiedBySubjectInTimeHolds == Spec => []VerifiedBySubjectInTime
<1>1. IInv => VerifiedBySubjectInTime
  BY DEF IInv, StepUpInv
<1> QED
  BY <1>1, Invariance, PTL

\* A revoked grant stays revoked, whatever expires and whoever asks afterwards.
THEOREM RevokedForGoodHolds == Spec => RevokedForGood
<1> DEFINE Kept == \A g \in DOMAIN grants :
                     grants[g].status = "REVOKED" => grants'[g].status = "REVOKED"
<1>1. IInv /\ [Next]_vars => [Kept]_jitVars
  <2> SUFFICES ASSUME IInv, [Next]_vars, NEW g \in DOMAIN grants,
                      grants[g].status = "REVOKED"
               PROVE  grants'[g].status = "REVOKED"
    OBVIOUS
  <2>1. grants \in Seq(JITGrant) /\ grants[g] \in JITGrant
    BY DEF IInv, JitInv, JitTypeOK
  <2>2. CASE UNCHANGED grants
    BY <2>2
  <2>3. ASSUME NEW r \in DOMAIN requests, ApproveElevation(r)
        PROVE  grants'[g].status = "REVOKED"
    <3>1. PICK new : grants' = Append(grants, new)
      BY <2>3 DEF ApproveElevation
    <3>2. grants'[g] = grants[g]
      BY <2>1, <3>1
    <3> QED
      BY <3>2
  <2>4. ASSUME NEW h \in DOMAIN grants, RevokeGrant(h)
        PROVE  grants'[g].status = "REVOKED"
    <3> DEFINE revoked == [grants[h] EXCEPT !.status = "REVOKED"]
    <3>1. grants[h] \in JITGrant
      BY <2>1
    <3>2. revoked.status = "REVOKED"
      BY <3>1 DEF JITGrant
    <3>3. grants' = [grants EXCEPT ![h] = revoked]
      BY <2>4 DEF RevokeGrant
    <3> HIDE DEF revoked
    <3> QED
      BY <2>1, <3>2, <3>3
  <2>5. CASE ExpireOutdatedGrants
    <3>1. grants'[g] = Expired(grants[g])
      BY <2>5 DEF ExpireOutdatedGrants
    <3> QED
      BY <3>1 DEF Expired, Outdated
  <2> QED
    BY <2>2, <2>3, <2>4, <2>5
    DEF Next, vars, JitNext, Tick, RequestElevation
<1> QED
  BY <1>1, Invariance, PTL DEF Spec, RevokedForGood

-----------------------------------------------------------------------------
\* Elevations are leases.

\* What the leases are read from, as functions of the grants and of the time.
Active(gs, t) == {g \in DOMAIN gs : gs[g].status = "ACTIVE" /\ ~(t >= gs[g].expiresAt)}

Deadlines(gs, among) ==
  [r \in {gs[g].request : g \in among} |->
     gs[CHOOSE g \in among : gs[g].request = r].expiresAt - 1]

Approvals(rs) ==
  [r \in RequestId |-> IF r \in DOMAIN rs /\ rs[r].status = "APPROVED" THEN 1 ELSE 0]

OneEach(gs, among) ==
  \A g, h \in among : gs[g].request = gs[h].request => g = h

\* The grants in force are those still ACTIVE before their deadline, marked or not.
ForceIsActive == InForce = Active(grants, now)

\* It always does: marking the outdated hides nothing.
LEMMA InForceIs == JitInv => ForceIsActive
<1> SUFFICES ASSUME JitInv PROVE ForceIsActive
  OBVIOUS
<1>1. ASSUME NEW g \in DOMAIN grants
      PROVE  Expired(grants[g]).status = "ACTIVE"
               <=> grants[g].status = "ACTIVE" /\ ~(now >= grants[g].expiresAt)
  <2>1. grants[g] \in JITGrant
    BY DEF JitInv, JitTypeOK
  <2>2. [grants[g] EXCEPT !.status = "EXPIRED"].status = "EXPIRED"
    BY <2>1 DEF JITGrant
  <2> QED
    BY <2>2 DEF Expired, Outdated
<1> QED
  BY <1>1 DEF ForceIsActive, InForce, Active

\* No two grants are for one request.
LEMMA GrantsAreOneEach ==
  ASSUME JitInv
  PROVE  OneEach(grants, DOMAIN grants)
<1> SUFFICES ASSUME NEW g \in DOMAIN grants, NEW h \in DOMAIN grants,
                    grants[g].request = grants[h].request
             PROVE  g = h
  BY DEF OneEach
<1> DEFINE r == grants[g].request
           of == {k \in DOMAIN grants : grants[k].request = r}
<1>1. r \in DOMAIN requests
  BY DEF JitInv, GrantsHaveRequests
<1>2. g \in of /\ h \in of
  OBVIOUS
<1>3. \E k \in of : of = {k}
  BY <1>1, <1>2 DEF JitInv, OneGrantPerApproval
<1> HIDE DEF of
<1> QED
  BY <1>2, <1>3

\* The deadline of a request is that of its one grant.
LEMMA DeadlineIs ==
  ASSUME NEW gs, NEW among, OneEach(gs, among), NEW g \in among
  PROVE  /\ gs[g].request \in DOMAIN Deadlines(gs, among)
         /\ Deadlines(gs, among)[gs[g].request] = gs[g].expiresAt - 1
<1> DEFINE r == gs[g].request
           chosen == CHOOSE k \in among : gs[k].request = r
<1>1. chosen \in among /\ gs[chosen].request = r
  OBVIOUS
<1>2. chosen = g
  BY <1>1 DEF OneEach
<1>3. r \in {gs[k].request : k \in among}
  OBVIOUS
<1>4. Deadlines(gs, among)[r] = gs[chosen].expiresAt - 1
  BY <1>3 DEF Deadlines
<1> QED
  BY <1>2, <1>3, <1>4 DEF Deadlines

\* Grants that leave the table, and keep their request and their end till they do,
\* leave the deadlines of the others.
LEMMA DeadlinesRestricted ==
  ASSUME NEW gs, NEW among, NEW after, NEW kept,
         OneEach(gs, among), kept \subseteq among,
         \A g \in kept : /\ after[g].request = gs[g].request
                         /\ after[g].expiresAt = gs[g].expiresAt
  PROVE  Deadlines(after, kept) =
           Elevations!Restrict(Deadlines(gs, among), {gs[g].request : g \in kept})
<1> DEFINE left == {gs[g].request : g \in kept}
<1>1. {after[g].request : g \in kept} = left
  OBVIOUS
<1>2. OneEach(after, kept)
  BY DEF OneEach
<1>3. ASSUME NEW r \in left
      PROVE  Deadlines(after, kept)[r] = Deadlines(gs, among)[r]
  <2>1. PICK g \in kept : gs[g].request = r
    OBVIOUS
  <2>2. Deadlines(after, kept)[after[g].request] = after[g].expiresAt - 1
    BY <1>2, <2>1, DeadlineIs
  <2>3. Deadlines(gs, among)[gs[g].request] = gs[g].expiresAt - 1
    BY <2>1, DeadlineIs
  <2> QED
    BY <2>1, <2>2, <2>3
<1> HIDE DEF left
<1>4. Deadlines(after, kept) = [r \in left |-> Deadlines(after, kept)[r]]
  BY <1>1 DEF Deadlines
<1> QED
  BY <1>3, <1>4 DEF Elevations!Restrict, left

\* The same table: nothing left it.
LEMMA DeadlinesUnchanged ==
  ASSUME NEW gs, NEW among, NEW after,
         OneEach(gs, among),
         \A g \in among : /\ after[g].request = gs[g].request
                          /\ after[g].expiresAt = gs[g].expiresAt
  PROVE  Deadlines(after, among) = Deadlines(gs, among)
<1> DEFINE left == {gs[g].request : g \in among}
<1>1. Deadlines(after, among) = Elevations!Restrict(Deadlines(gs, among), left)
  BY DeadlinesRestricted
<1>2. Deadlines(gs, among) = [r \in left |-> Deadlines(gs, among)[r]]
  BY DEF Deadlines
<1> HIDE DEF left
<1> QED
  BY <1>1, <1>2 DEF Elevations!Restrict

\* A request that is not answered yet is no lease.
LEMMA RequestIsNoLease ==
  ASSUME JitInv, NEW subject \in Subject, NEW duration \in Asked,
         RequestElevation(subject, duration)
  PROVE  Approvals(requests') = Approvals(requests) /\ UNCHANGED <<now, grants>>
<1> DEFINE new == [subject |-> subject, duration |-> Clamped(duration), status |-> "PENDING"]
<1>1. requests' = Append(requests, new) /\ requests \in Seq(JITRequest)
  BY DEF RequestElevation, JitInv, JitTypeOK
<1>2. new.status = "PENDING"
  OBVIOUS
<1> HIDE DEF new
<1>3. /\ DOMAIN requests' = DOMAIN requests \union {Len(requests) + 1}
      /\ Len(requests) + 1 \notin DOMAIN requests
      /\ requests'[Len(requests) + 1] = new
      /\ \A r \in DOMAIN requests : requests'[r] = requests[r]
  BY <1>1
<1>4. \A r : (r \in DOMAIN requests' /\ requests'[r].status = "APPROVED")
               <=> (r \in DOMAIN requests /\ requests[r].status = "APPROVED")
  BY <1>2, <1>3
<1> QED
  BY <1>4 DEF RequestElevation, Approvals

\* An approval grants what is not held, for less than an hour.
LEMMA ApprovalIsGrant ==
  ASSUME JitInv, NEW r \in DOMAIN requests, ApproveElevation(r)
  PROVE  LET before == Deadlines(grants, Active(grants, now))
             term == requests[r].duration - 1
         IN  /\ r \in RequestId /\ r \notin DOMAIN before
             /\ term \in (Shortest - 1) .. (Longest - 1)
             /\ Deadlines(grants', Active(grants', now))
                  = [h \in DOMAIN before \union {r} |->
                       IF h = r THEN now + term ELSE before[h]]
             /\ Approvals(requests') = [Approvals(requests) EXCEPT ![r] = @ + 1]
             /\ now' = now
<1> DEFINE new == [request |-> r, subject |-> requests[r].subject, issuedAt |-> now,
                   expiresAt |-> now + requests[r].duration, status |-> "ACTIVE"]
           last == Len(grants) + 1
           force == Active(grants, now)
           before == Deadlines(grants, force)
<1>1. /\ requests[r].status = "PENDING"
      /\ grants' = Append(grants, new)
      /\ requests' = [requests EXCEPT ![r].status = "APPROVED"]
      /\ now' = now
  BY DEF ApproveElevation, Approvable
<1>2. requests \in Seq(JITRequest) /\ grants \in Seq(JITGrant) /\ now \in Nat
  BY DEF JitInv, JitTypeOK
<1>3. requests[r].duration \in Shortest .. Longest /\ requests[r] \in JITRequest
  <2>1. requests[r] \in JITRequest
    BY <1>2
  <2> QED
    BY <2>1 DEF JITRequest
<1>4. r \in RequestId
  BY <1>2, JitAssumption DEF JitInv, RequestsBounded, RequestId
<1>5. /\ new.request = r /\ new.status = "ACTIVE"
      /\ new.expiresAt = now + requests[r].duration
  OBVIOUS
<1>6. new.expiresAt - 1 = now + (requests[r].duration - 1) /\ ~(now >= new.expiresAt)
  BY <1>2, <1>3, JitAssumption
<1> HIDE DEF new
<1>7. /\ DOMAIN grants' = DOMAIN grants \union {last}
      /\ last \notin DOMAIN grants
      /\ grants'[last] = new
      /\ \A g \in DOMAIN grants : grants'[g] = grants[g]
  BY <1>1, <1>2
<1> HIDE DEF last
<1>8. Active(grants', now) = force \union {last}
  BY <1>5, <1>6, <1>7 DEF Active
<1>9. \A g \in DOMAIN grants : grants[g].request # r
  BY <1>1 DEF JitInv, OneGrantPerApproval
<1>10. OneEach(grants, force)
  BY GrantsAreOneEach DEF OneEach, Active
<1>11. force \subseteq DOMAIN grants
  BY DEF Active
<1>12. OneEach(grants', force \union {last})
  BY <1>5, <1>7, <1>9, <1>10, <1>11 DEF OneEach
<1> HIDE DEF force
<1>13. /\ DOMAIN before = {grants[g].request : g \in force}
       /\ DOMAIN Deadlines(grants', force \union {last})
            = {grants'[g].request : g \in force \union {last}}
  BY DEF Deadlines
<1>14. {grants'[g].request : g \in force \union {last}} = DOMAIN before \union {r}
  BY <1>5, <1>7, <1>11, <1>13
<1>15. r \notin DOMAIN before
  BY <1>9, <1>11, <1>13
<1>16. Deadlines(grants', force \union {last})[r] = now + (requests[r].duration - 1)
  BY <1>5, <1>6, <1>7, <1>12, DeadlineIs
<1>17. ASSUME NEW h \in DOMAIN before
       PROVE  Deadlines(grants', force \union {last})[h] = before[h]
  <2>1. PICK g \in force : grants[g].request = h
    BY <1>13
  <2>2. before[grants[g].request] = grants[g].expiresAt - 1
    BY <1>10, DeadlineIs
  <2>3. Deadlines(grants', force \union {last})[grants'[g].request] = grants'[g].expiresAt - 1
    BY <1>12, DeadlineIs
  <2> QED
    BY <1>7, <1>11, <2>1, <2>2, <2>3
<1>18. Deadlines(grants', force \union {last})
         = [h \in DOMAIN before \union {r} |-> Deadlines(grants', force \union {last})[h]]
  BY <1>13, <1>14 DEF Deadlines
<1> HIDE DEF before
<1>19. Deadlines(grants', force \union {last})
         = [h \in DOMAIN before \union {r} |->
              IF h = r THEN now + (requests[r].duration - 1) ELSE before[h]]
  BY <1>15, <1>16, <1>17, <1>18
<1>20. Approvals(requests') = [Approvals(requests) EXCEPT ![r] = @ + 1]
  <2>1. /\ DOMAIN requests' = DOMAIN requests
        /\ requests'[r].status = "APPROVED"
        /\ \A q \in DOMAIN requests \ {r} : requests'[q] = requests[q]
    <3> DEFINE approved == [requests[r] EXCEPT !.status = "APPROVED"]
    <3>1. approved.status = "APPROVED"
      BY <1>3 DEF JITRequest
    <3>2. requests' = [requests EXCEPT ![r] = approved]
      BY <1>1
    <3> HIDE DEF approved
    <3> QED
      BY <3>1, <3>2, <1>2
  <2>2. Approvals(requests)[r] = 0
    BY <1>1, <1>4 DEF Approvals
  <2>3. Approvals(requests')[r] = 1
    BY <1>4, <2>1 DEF Approvals
  <2>4. \A q \in RequestId \ {r} : Approvals(requests')[q] = Approvals(requests)[q]
    BY <2>1 DEF Approvals
  <2>5. /\ Approvals(requests) = [q \in RequestId |-> Approvals(requests)[q]]
        /\ Approvals(requests') = [q \in RequestId |-> Approvals(requests')[q]]
    BY DEF Approvals
  <2> QED
    BY <1>4, <2>2, <2>3, <2>4, <2>5
<1>21. requests[r].duration - 1 \in (Shortest - 1) .. (Longest - 1)
  BY <1>3, JitAssumption
<1> QED
  BY <1>1, <1>4, <1>8, <1>15, <1>19, <1>20, <1>21 DEF before, force

\* A revocation takes the lease of its grant, if there still is one, and no other.
LEMMA RevocationRevokes ==
  ASSUME JitInv, NEW g \in DOMAIN grants, RevokeGrant(g)
  PROVE  LET before == Deadlines(grants, Active(grants, now))
         IN  \E dropped \in SUBSET DOMAIN before :
               Deadlines(grants', Active(grants', now))
                 = Elevations!Restrict(before, DOMAIN before \ dropped)
<1> DEFINE revoked == [grants[g] EXCEPT !.status = "REVOKED"]
           force == Active(grants, now)
           kept == force \ {g}
           before == Deadlines(grants, force)
           dropped == {grants[h].request : h \in force \ kept}
<1>1. grants \in Seq(JITGrant) /\ grants[g] \in JITGrant
  BY DEF JitInv, JitTypeOK
<1>2. /\ revoked.request = grants[g].request
      /\ revoked.expiresAt = grants[g].expiresAt
      /\ revoked.status = "REVOKED"
  BY <1>1 DEF JITGrant
<1>3. grants' = [grants EXCEPT ![g] = revoked]
  BY DEF RevokeGrant
<1> HIDE DEF revoked
<1>4. /\ DOMAIN grants' = DOMAIN grants
      /\ grants'[g] = revoked
      /\ \A h \in DOMAIN grants \ {g} : grants'[h] = grants[h]
  BY <1>1, <1>3
<1>5. Active(grants', now) = kept
  BY <1>2, <1>4 DEF Active
<1>6. force \subseteq DOMAIN grants
  BY DEF Active
<1>7. OneEach(grants, force)
  BY <1>6, GrantsAreOneEach DEF OneEach
<1> HIDE DEF force
<1>8. \A h \in kept : /\ grants'[h].request = grants[h].request
                      /\ grants'[h].expiresAt = grants[h].expiresAt
  BY <1>4, <1>6
<1>9. Deadlines(grants', kept)
        = Elevations!Restrict(before, {grants[h].request : h \in kept})
  BY <1>7, <1>8, DeadlinesRestricted
<1>10. DOMAIN before = {grants[h].request : h \in force}
  BY DEF Deadlines
<1>11. {grants[h].request : h \in kept} = DOMAIN before \ dropped
  BY <1>6, <1>7, <1>10 DEF OneEach
<1>12. dropped \in SUBSET DOMAIN before
  BY <1>10
<1> QED
  BY <1>5, <1>9, <1>11, <1>12 DEF force

\* Marking the outdated changes what nobody sees.
LEMMA MarkingIsUnseen ==
  ASSUME JitInv, ExpireOutdatedGrants
  PROVE  Deadlines(grants', Active(grants', now)) = Deadlines(grants, Active(grants, now))
<1>1. grants' = [g \in DOMAIN grants |-> Expired(grants[g])]
  BY DEF ExpireOutdatedGrants
<1>2. ASSUME NEW g \in DOMAIN grants
      PROVE  /\ Expired(grants[g]).request = grants[g].request
             /\ Expired(grants[g]).expiresAt = grants[g].expiresAt
             /\ (Expired(grants[g]).status = "ACTIVE" /\ ~(now >= grants[g].expiresAt))
                  <=> (grants[g].status = "ACTIVE" /\ ~(now >= grants[g].expiresAt))
  <2>1. grants[g] \in JITGrant
    BY DEF JitInv, JitTypeOK
  <2>2. /\ [grants[g] EXCEPT !.status = "EXPIRED"].request = grants[g].request
        /\ [grants[g] EXCEPT !.status = "EXPIRED"].expiresAt = grants[g].expiresAt
        /\ [grants[g] EXCEPT !.status = "EXPIRED"].status = "EXPIRED"
    BY <2>1 DEF JITGrant
  <2> QED
    BY <2>2 DEF Expired, Outdated
<1>3. Active(grants', now) = Active(grants, now)
  BY <1>1, <1>2 DEF Active
<1>4. OneEach(grants, Active(grants, now))
  BY GrantsAreOneEach DEF OneEach, Active
<1>5. \A g \in Active(grants, now) : /\ grants'[g].request = grants[g].request
                                     /\ grants'[g].expiresAt = grants[g].expiresAt
  BY <1>1, <1>2 DEF Active
<1> QED
  BY <1>3, <1>4, <1>5, DeadlinesUnchanged

\* As time passes, the leases past their deadline are gone.
LEMMA TimeEndsLeases ==
  ASSUME JitInv, now' = now + 1, UNCHANGED grants
  PROVE  LET before == Deadlines(grants, Active(grants, now))
         IN  Deadlines(grants', Active(grants', now'))
               = Elevations!Restrict(before, {r \in DOMAIN before : before[r] >= now'})
<1> DEFINE force == Active(grants, now)
           kept == Active(grants, now')
           before == Deadlines(grants, force)
<1>1. now \in Nat /\ \A g \in DOMAIN grants : grants[g].expiresAt \in Nat
  <2>1. now \in Nat /\ \A g \in DOMAIN grants : grants[g] \in JITGrant
    BY DEF JitInv, JitTypeOK
  <2> QED
    BY <2>1 DEF JITGrant
<1>2. force \subseteq DOMAIN grants
  BY DEF Active
<1>3. kept = {g \in force : grants[g].expiresAt - 1 >= now'}
  BY <1>1 DEF Active
<1>4. OneEach(grants, force)
  BY <1>2, GrantsAreOneEach DEF OneEach
<1> HIDE DEF force, kept
<1>5. Deadlines(grants, kept)
        = Elevations!Restrict(before, {grants[g].request : g \in kept})
  BY <1>3, <1>4, DeadlinesRestricted
<1>6. DOMAIN before = {grants[g].request : g \in force}
  BY DEF Deadlines
<1>7. \A g \in force : before[grants[g].request] = grants[g].expiresAt - 1
  BY <1>4, DeadlineIs
<1>8. {grants[g].request : g \in kept} = {r \in DOMAIN before : before[r] >= now'}
  BY <1>3, <1>6, <1>7
<1> QED
  BY <1>5, <1>8 DEF force, kept

\* The table of leases and its history, as JitElevation maps them.
Table ==
  [r \in {grants[g].request : g \in InForce} |->
     grants[CHOOSE g \in InForce : grants[g].request = r].expiresAt - 1]

Given ==
  [r \in RequestId |->
     IF r \in DOMAIN requests /\ requests[r].status = "APPROVED" THEN 1 ELSE 0]

\* Every step of the identity services is a step of the table of leases, or none.
LEMMA ElevationStep ==
  ASSUME JitInv, ForceIsActive, ForceIsActive', [Next]_vars
  PROVE  [Elevations!Next]_(Elevations!leaseVars)
<1> DEFINE before == Deadlines(grants, Active(grants, now))
           after == Deadlines(grants', Active(grants', now'))
<1>1. /\ Table = before /\ Table' = after
      /\ Given = Approvals(requests) /\ Given' = Approvals(requests')
  BY DEF ForceIsActive, Deadlines, Approvals, Table, Given
<1>2. ASSUME now' = now, after = before, Approvals(requests') = Approvals(requests)
      PROVE  UNCHANGED Elevations!leaseVars
  BY <1>1, <1>2 DEF Elevations!leaseVars, Table, Given
<1>3. ASSUME NEW subject \in Subject, NEW duration \in Asked,
             RequestElevation(subject, duration)
      PROVE  UNCHANGED Elevations!leaseVars
  BY <1>2, <1>3, RequestIsNoLease
<1>4. ASSUME NEW r \in DOMAIN requests, ApproveElevation(r)
      PROVE  Elevations!Next
  <2> DEFINE life == requests[r].duration - 1
  <2>1. /\ r \in RequestId /\ r \notin DOMAIN before
        /\ life \in (Shortest - 1) .. (Longest - 1)
        /\ after = [h \in DOMAIN before \union {r} |->
                     IF h = r THEN now + life ELSE before[h]]
        /\ Approvals(requests') = [Approvals(requests) EXCEPT ![r] = @ + 1]
        /\ now' = now
    BY <1>4, ApprovalIsGrant
  <2> HIDE DEF before, after, life
  <2>2. /\ r \notin DOMAIN Table
        /\ Table' = [h \in (DOMAIN Table \ {}) \union {r} |->
                      IF h = r THEN now + life ELSE Table[h]]
        /\ Given' = [Given EXCEPT ![r] = @ + 1]
    BY <1>1, <2>1
  <2>3. Elevations!Grant(r, life, {})
    BY <2>1, <2>2 DEF Elevations!Grant, Elevations!Held, Table, Given
  <2>4. {} \in SUBSET Elevations!Held
    OBVIOUS
  <2>5. r \in RequestId /\ life \in (Shortest - 1) .. (Longest - 1)
    BY <2>1
  <2>6. Elevations!Grant(r, life, {}) => Elevations!Next
    BY <2>4, <2>5 DEF Elevations!Next, Elevations!Grant, Elevations!Held
  <2> QED
    BY <2>3, <2>6
<1>5. ASSUME NEW g \in DOMAIN grants, RevokeGrant(g)
      PROVE  Elevations!Next
  <2>1. PICK dropped \in SUBSET DOMAIN before :
          after = Elevations!Restrict(before, DOMAIN before \ dropped)
    <3>1. now' = now
      BY <1>5 DEF RevokeGrant
    <3> QED
      BY <1>5, <3>1, RevocationRevokes
  <2>2. Approvals(requests') = Approvals(requests) /\ now' = now
    BY <1>5 DEF RevokeGrant
  <2> HIDE DEF before, after
  <2>3. /\ Table' = Elevations!Restrict(Table, DOMAIN Table \ dropped)
        /\ Given' = Given
        /\ dropped \in SUBSET DOMAIN Table
    BY <1>1, <2>1, <2>2
  <2>4. Elevations!Revoke(dropped)
    BY <2>2, <2>3 DEF Elevations!Revoke, Elevations!Held, Table, Given
  <2>5. dropped \in SUBSET Elevations!Held
    BY <2>3 DEF Elevations!Held, Table
  <2> QED
    BY <2>4, <2>5 DEF Elevations!Next
<1>6. CASE ExpireOutdatedGrants
  <2>1. requests' = requests /\ now' = now
    BY <1>6 DEF ExpireOutdatedGrants
  <2> QED
    BY <1>2, <1>6, <2>1, MarkingIsUnseen
<1>7. CASE Tick
  <2>1. now' = now + 1 /\ UNCHANGED <<requests, grants>>
    BY <1>7 DEF Tick, Advance
  <2>2. after = Elevations!Restrict(before, {r \in DOMAIN before : before[r] >= now'})
    BY <2>1, TimeEndsLeases
  <2> HIDE DEF before, after
  <2>3. /\ Table' = Elevations!Restrict(Table, {r \in DOMAIN Table : Table[r] >= now'})
        /\ Given' = Given
    BY <1>1, <2>1, <2>2
  <2>4. Elevations!Tick
    BY <2>1, <2>3 DEF Elevations!Tick, Elevations!Held, Table, Given
  <2> QED
    BY <2>4 DEF Elevations!Next
<1>8. CASE UNCHANGED <<now, requests, grants>>
  BY <1>2, <1>8
<1>9. StepUpNext => now' = now
  BY DEF StepUpNext, GenerateChallenge, VerifyAssertion
<1> QED
  BY <1>3, <1>4, <1>5, <1>6, <1>7, <1>8, <1>9 DEF Next, JitNext, vars

\* The elevation manager implements the table of leases: an elevation is given by
\* an approval, once, for at most an hour, ends at its deadline or when it is
\* revoked, whoever looks at the grants, and never comes back.
THEOREM ElevationsImplementLeases == Spec => ElevationsAreLeases
<1>1. Init => Elevations!Init
  <2> SUFFICES ASSUME Init PROVE Elevations!Init
    OBVIOUS
  <2>1. now = 0 /\ requests = << >> /\ grants = << >>
    BY DEF Init, JitInit
  <2>2. InForce = {}
    BY <2>1 DEF InForce
  <2>3. Table = [r \in {} |-> 0]
    BY <2>2 DEF Table
  <2>4. Given = [r \in RequestId |-> 0]
    BY <2>1 DEF Given
  <2> QED
    BY <2>1, <2>3, <2>4 DEF Elevations!Init, Table, Given
<1>2. IInv => JitInv
  BY DEF IInv
<1>3. JitInv /\ ForceIsActive /\ ForceIsActive' /\ [Next]_vars
        => [Elevations!Next]_(Elevations!leaseVars)
  BY ElevationStep
<1>4. Spec => Elevations!Init /\ [][Elevations!Next]_(Elevations!leaseVars)
  BY <1>1, <1>2, <1>3, Invariance, InForceIs, PTL DEF Spec
<1> QED
  BY <1>4 DEF ElevationsAreLeases

-----------------------------------------------------------------------------
\* Attribute-based access control and risk.

(* The step-up that is asked for is the one thing that is missing: evaluate *)
(* demands a hardware token exactly of a request it denies and would allow  *)
(* with one, so that a user who steps up is never refused for another       *)
(* reason afterwards.                                                       *)
THEOREM StepUpIsWhatIsMissing ==
  ASSUME NEW s \in SubjectAttributes, NEW r \in ResourceAttributes,
         NEW e \in EnvironmentAttributes, NEW action
  PROVE  Evaluate(s, r, e, action).requiredStepUp
           <=> /\ ~Evaluate(s, r, e, action).allowed
               /\ Evaluate([s EXCEPT !.hardwareTokenBound = TRUE], r, e, action).allowed
<1> DEFINE bound == [s EXCEPT !.hardwareTokenBound = TRUE]
<1>1. /\ bound.clearanceLevel = s.clearanceLevel
      /\ bound.department = s.department
      /\ bound.tenantId = s.tenantId
      /\ bound.devicePosture = s.devicePosture
      /\ bound.hardwareTokenBound = TRUE
  BY DEF SubjectAttributes
<1> HIDE DEF bound
<1>2. DeniedByAttributes(bound, r, e, action) <=> DeniedByAttributes(s, r, e, action)
  BY <1>1 DEF DeniedByAttributes
<1>3. ~NeedsToken(bound, r)
  BY <1>1 DEF NeedsToken
<1>4. Evaluate(s, r, e, action).requiredStepUp
        <=> ~DeniedByAttributes(s, r, e, action) /\ NeedsToken(s, r)
  BY DEF Evaluate
<1>5. Evaluate(s, r, e, action).allowed
        <=> ~DeniedByAttributes(s, r, e, action) /\ ~NeedsToken(s, r)
  BY DEF Evaluate
<1>6. Evaluate(bound, r, e, action).allowed
        <=> ~DeniedByAttributes(s, r, e, action)
  BY <1>2, <1>3 DEF Evaluate
<1> QED
  BY <1>4, <1>5, <1>6 DEF bound

(* More clearance never closes a door: the checks of evaluate that read the *)
(* clearance, that of the resource and that of a critical fleet, only ever  *)
(* fail below a level.                                                      *)
THEOREM ClearanceNeverHurts ==
  ASSUME NEW s \in SubjectAttributes, NEW r \in ResourceAttributes,
         NEW e \in EnvironmentAttributes, NEW action,
         NEW level \in 1 .. 5, s.clearanceLevel =< level,
         Evaluate(s, r, e, action).allowed
  PROVE  Evaluate([s EXCEPT !.clearanceLevel = level], r, e, action).allowed
<1> DEFINE raised == [s EXCEPT !.clearanceLevel = level]
<1>1. /\ raised.clearanceLevel = level
      /\ raised.department = s.department
      /\ raised.tenantId = s.tenantId
      /\ raised.devicePosture = s.devicePosture
      /\ raised.hardwareTokenBound = s.hardwareTokenBound
  BY DEF SubjectAttributes
<1> HIDE DEF raised
<1>2. ~DeniedByAttributes(s, r, e, action) /\ ~NeedsToken(s, r)
  BY DEF Evaluate
<1>3. s.clearanceLevel \in 1 .. 5 /\ r.requiredClearance \in 1 .. 5
  BY DEF SubjectAttributes, ResourceAttributes
<1>4. ~DeniedByAttributes(raised, r, e, action)
  BY <1>1, <1>2, <1>3 DEF DeniedByAttributes
<1>5. ~NeedsToken(raised, r)
  BY <1>1, <1>2 DEF NeedsToken
<1>6. Evaluate(raised, r, e, action).allowed
  BY <1>4, <1>5 DEF Evaluate
<1> QED
  BY <1>6 DEF raised

-----------------------------------------------------------------------------
(* The ranges of the tables.                                               *)
LEMMA TableRanges ==
  ASSUME NEW f \in RiskEvaluationFactors
  PROVE  /\ SeverityBaseScore[f.severity] \in 5 .. 95
         /\ ActionModifier[f.action] \in 0 .. 20
         /\ AssetCriticalityMultiplier[f.assetCriticality] \in {85, 100, 125, 150}
         /\ AuthStateAdjustment[f.authState] \in (0 - 20) .. 30
         /\ FrequencyBump(f.repetitionCount) \in 0 .. 25
<1>1. SeverityBaseScore[f.severity] \in 5 .. 95
  BY DEF RiskEvaluationFactors, Severity, SeverityBaseScore
<1>2. ActionModifier[f.action] \in 0 .. 20
  BY DEF RiskEvaluationFactors, ActionKind, ActionModifier
<1>3. AssetCriticalityMultiplier[f.assetCriticality] \in {85, 100, 125, 150}
  BY DEF RiskEvaluationFactors, AssetCriticality, AssetCriticalityMultiplier
<1>4. AuthStateAdjustment[f.authState] \in (0 - 20) .. 30
  BY DEF RiskEvaluationFactors, AuthenticationState, AuthStateAdjustment
<1>5. FrequencyBump(f.repetitionCount) \in 0 .. 25
  BY DEF RiskEvaluationFactors, FrequencyBump
<1> QED
  BY <1>1, <1>2, <1>3, <1>4, <1>5

\* What is added up before the clamp.
LEMMA RawScoreIsAnInteger ==
  ASSUME NEW f \in RiskEvaluationFactors
  PROVE  RawScore(f) \in Int
<1> DEFINE base == SeverityBaseScore[f.severity]
           modifier == ActionModifier[f.action]
           multiplier == AssetCriticalityMultiplier[f.assetCriticality]
           adjustment == AuthStateAdjustment[f.authState]
           bump == FrequencyBump(f.repetitionCount)
<1>1. /\ base \in Int
      /\ modifier \in Int
      /\ multiplier \in Int
      /\ adjustment \in Int
      /\ bump \in Int
  BY TableRanges
<1>2. RawScore(f) = (base + modifier) * multiplier + 100 * (adjustment + bump)
  BY DEF RawScore
<1> HIDE DEF base, modifier, multiplier, adjustment, bump
<1>3. (base + modifier) * multiplier \in Int
  BY <1>1
<1> QED
  BY <1>1, <1>2, <1>3

\* The clamp of calculateRisk.
LEMMA ClampedIsInRange ==
  ASSUME NEW f \in RiskEvaluationFactors
  PROVE  ClampedScore(RawScore(f)) \in 0 .. 10000
<1> DEFINE raw == RawScore(f)
<1>1. raw \in Int
  BY RawScoreIsAnInteger
<1>2. ClampedScore(raw) = IF raw > 10000 THEN 10000 ELSE IF raw < 0 THEN 0 ELSE raw
  BY DEF ClampedScore
<1> HIDE DEF raw
<1>3. ClampedScore(raw) \in 0 .. 10000
  BY <1>1, <1>2
<1> QED
  BY <1>3 DEF raw

\* Rounding hundredths to points leaves the range of a score.
LEMMA RoundedIsInRange ==
  ASSUME NEW n \in 0 .. 10000
  PROVE  (n + 50) \div 100 \in 0 .. 100
<1>1. n \in Int /\ 0 =< n /\ n =< 10000
  OBVIOUS
<1> DEFINE q == (n + 50) \div 100
<1>2. q \in Int /\ 100 * q =< n + 50 /\ n + 50 < 100 * q + 100
  BY <1>1
<1> HIDE DEF q
<1>3. 0 =< q
  BY <1>1, <1>2
<1>4. q =< 100
  BY <1>1, <1>2
<1> QED
  BY <1>2, <1>3, <1>4 DEF q

(* A risk is a score between 0 and 100, whatever the modifiers add up to:  *)
(* what calculateRisk's comment promises of every input.                   *)
THEOREM RiskIsAScore ==
  ASSUME NEW f \in RiskEvaluationFactors
  PROVE  CalculateRisk(f) \in 0 .. 100
<1> DEFINE clamped == ClampedScore(RawScore(f))
<1>1. clamped \in 0 .. 10000
  BY ClampedIsInRange
<1>2. CalculateRisk(f) = (clamped + 50) \div 100
  BY DEF CalculateRisk, RoundedScore
<1> HIDE DEF clamped
<1>3. (clamped + 50) \div 100 \in 0 .. 100
  BY <1>1, RoundedIsInRange
<1> QED
  BY <1>2, <1>3, Zenon

(* Repetition never makes a risk smaller, across the bump's start at the   *)
(* second occurrence, its cap, the clamp and the rounding.                 *)
THEOREM RepetitionNeverLowersRisk ==
  ASSUME NEW f \in RiskEvaluationFactors, NEW g \in RiskEvaluationFactors,
         f.severity = g.severity, f.assetCriticality = g.assetCriticality,
         f.authState = g.authState, f.action = g.action,
         f.repetitionCount =< g.repetitionCount
  PROVE  CalculateRisk(f) =< CalculateRisk(g)
<1>1. FrequencyBump(f.repetitionCount) =< FrequencyBump(g.repetitionCount)
  BY DEF FrequencyBump, RiskEvaluationFactors
<1>2. RawScore(f) =< RawScore(g)
  <2> DEFINE base == (SeverityBaseScore[f.severity] + ActionModifier[f.action])
                        * AssetCriticalityMultiplier[f.assetCriticality]
             adjustment == AuthStateAdjustment[f.authState]
  <2>1. base \in Int /\ adjustment \in Int
    BY TableRanges
  <2>2. FrequencyBump(f.repetitionCount) \in Int /\ FrequencyBump(g.repetitionCount) \in Int
    BY TableRanges
  <2>3. /\ RawScore(f) = base + 100 * (adjustment + FrequencyBump(f.repetitionCount))
        /\ RawScore(g) = base + 100 * (adjustment + FrequencyBump(g.repetitionCount))
    BY DEF RawScore
  <2> HIDE DEF base, adjustment
  <2> QED
    BY <1>1, <2>1, <2>2, <2>3
<1>3. ClampedScore(RawScore(f)) =< ClampedScore(RawScore(g))
  BY <1>2, RawScoreIsAnInteger DEF ClampedScore
<1> DEFINE lower == ClampedScore(RawScore(f))
           upper == ClampedScore(RawScore(g))
<1>4. lower \in 0 .. 10000 /\ upper \in 0 .. 10000
  BY ClampedIsInRange
<1>5. /\ CalculateRisk(f) = (lower + 50) \div 100
      /\ CalculateRisk(g) = (upper + 50) \div 100
      /\ lower =< upper
  BY <1>3 DEF CalculateRisk, RoundedScore
<1> HIDE DEF lower, upper
<1> QED
  BY <1>4, <1>5

=============================================================================
