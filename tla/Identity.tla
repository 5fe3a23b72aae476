------------------------------ MODULE Identity -------------------------------
(***************************************************************************)
(* The stateful services of src/identity, as src/platform/platform.ts      *)
(* holds them, under one clock: the elevations of JitElevation, and the    *)
(* challenges to a hardware token of WebAuthnStepUpValidator in            *)
(* src/identity/webauthn.ts.  A challenge is consumed by the first         *)
(* assertion that names it, whatever comes of it.  Challenges are numbered *)
(* in the order they are generated.                                        *)
(***************************************************************************)
EXTENDS JitElevation, Functions

CONSTANTS
  Holder,         \* who may hold a token
  ChallengeTtl,   \* five minutes
  MaxChallenges,  \* bound: challenges ever generated
  MaxAttempts     \* bound: assertions ever made

ASSUME StepUpAssumption ==
  /\ ChallengeTtl \in Nat
  /\ MaxChallenges \in Nat
  /\ MaxAttempts \in Nat

VARIABLES
  challenges,  \* WebAuthnStepUpValidator.activeChallenges
  generated,   \* the challenges ever generated
  attempts     \* the assertions that named a generated challenge, and their results

stepUpVars == <<now, challenges, generated, attempts>>

Challenge == [subject : Holder, expiresAt : Nat]

StepUpTypeOK ==
  /\ generated \in Seq(Challenge)
  /\ DOMAIN challenges \subseteq DOMAIN generated
  /\ challenges \in [DOMAIN challenges -> Challenge]
  /\ attempts \in Seq([challenge : DOMAIN generated, by : Holder, at : Nat,
                       verified : BOOLEAN])

StepUpInit ==
  /\ challenges = [c \in {} |-> 0]
  /\ generated = <<>>
  /\ attempts = <<>>

-----------------------------------------------------------------------------
GenerateChallenge(subject) ==
  LET challenge == [subject |-> subject, expiresAt |-> now + ChallengeTtl]
  IN  /\ Len(generated) < MaxChallenges
      /\ generated' = Append(generated, challenge)
      /\ challenges' = [c \in DOMAIN challenges \union {Len(generated')} |->
                          IF c = Len(generated') THEN challenge ELSE challenges[c]]
      /\ UNCHANGED <<now, attempts>>

\* A fault of Acceptable: challenges do not expire.
AcceptableLate(c, by, signed) ==
  c \in DOMAIN challenges /\ challenges[c].subject = by /\ signed

\* signed: the assertion carries a signature and a credential.
Acceptable(c, by, signed) ==
  /\ c \in DOMAIN challenges
  /\ now <= challenges[c].expiresAt
  /\ challenges[c].subject = by
  /\ signed

\* A fault of Consumed: only what is verified is consumed.
ConsumedWhenVerified(c, by, signed) ==
  IF Acceptable(c, by, signed) THEN Restrict(challenges, DOMAIN challenges \ {c})
  ELSE challenges

\* The challenges left after an assertion.
Consumed(c, by, signed) == Restrict(challenges, DOMAIN challenges \ {c})

VerifyAssertion(c, by, signed) ==
  /\ Len(attempts) < MaxAttempts
  /\ attempts' = Append(attempts, [challenge |-> c, by |-> by, at |-> now,
                                   verified |-> Acceptable(c, by, signed)])
  /\ challenges' = Consumed(c, by, signed)
  /\ UNCHANGED <<now, generated>>

StepUpNext ==
  \/ \E subject \in Holder : GenerateChallenge(subject)
  \/ \E c \in DOMAIN generated, by \in Holder, signed \in BOOLEAN :
       VerifyAssertion(c, by, signed)

-----------------------------------------------------------------------------
\* Only the first assertion that names a challenge can be verified: one that
\* failed, or that somebody else made, leaves nothing for a second.
FirstAssertionDecides ==
  \A i, j \in DOMAIN attempts :
    i < j /\ attempts[i].challenge = attempts[j].challenge => ~attempts[j].verified

\* What is verified was asserted by the subject of the challenge, no later than
\* five minutes after it was generated.
VerifiedBySubjectInTime ==
  \A i \in DOMAIN attempts :
    attempts[i].verified =>
      LET challenge == generated[attempts[i].challenge]
      IN  attempts[i].by = challenge.subject /\ attempts[i].at <= challenge.expiresAt

-----------------------------------------------------------------------------
vars == <<now, requests, grants, challenges, generated, attempts>>

TypeOK == JitTypeOK /\ StepUpTypeOK

Init == now = 0 /\ JitInit /\ StepUpInit

Tick == Advance /\ UNCHANGED <<requests, grants, challenges, generated, attempts>>

Next ==
  \/ JitNext /\ UNCHANGED <<challenges, generated, attempts>>
  \/ StepUpNext /\ UNCHANGED <<requests, grants>>
  \/ Tick

Spec == Init /\ [][Next]_vars

=============================================================================
