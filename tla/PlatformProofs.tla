--------------------------- MODULE PlatformProofs ---------------------------
(***************************************************************************)
(* Theorems of Platform: credential rotation and envelope encryption, the  *)
(* tenant boundary, the governance services and the alerts, for any        *)
(* services, key ids, tenants, agreements, builds and callers and without  *)
(* bounds on how long the platform runs.                                   *)
(***************************************************************************)
EXTENDS Platform, AuditChainProofs, FiniteSetTheorems, SequenceTheorems, TLAPS

-----------------------------------------------------------------------------
\* Credentials.

\* OneInForce is inductive once promotion is known to find a credential.
RotationInv ==
  /\ now \in Nat
  /\ RotationTypeOK
  /\ JobsHaveCredential
  /\ OneInForce

\* Before anything is registered the invariant holds.
LEMMA RotationInitial ==
  ASSUME RotationInit, now \in Nat
  PROVE  RotationInv
<1>1. DOMAIN issued = {} /\ Len(issued) = 0 /\ issued \in Seq(Descriptor)
  BY DEF RotationInit
<1>2. DOMAIN activeCredentials = {} /\ DOMAIN jobs = {}
  BY DEF RotationInit
<1> QED
  BY <1>1, <1>2 DEF RotationInv, RotationTypeOK, JobsHaveCredential, OneInForce

\* What registration and promotion have in common: the credential just made, of
\* the service s, is put in force.
LEMMA PutInForceFacts ==
  ASSUME RotationInv, NEW s \in Service, PutInForce(s),
         Len(issued') = Len(issued) + 1
  PROVE  /\ DOMAIN activeCredentials' = DOMAIN activeCredentials \union {s}
         /\ activeCredentials'[s] = Len(issued) + 1
         /\ \A t \in DOMAIN activeCredentials :
              t # s => activeCredentials'[t] = activeCredentials[t]
         /\ \A t \in DOMAIN activeCredentials' :
              activeCredentials'[t] \in 1 .. Len(issued')
         /\ DOMAIN activeCredentials' \subseteq Service
<1>1. Len(issued) \in Nat
  BY DEF RotationInv, RotationTypeOK
<1> QED
  BY <1>1 DEF PutInForce, RotationInv, RotationTypeOK

\* The first credential of a registration leaves none before it to be judged.
LEMMA RegistrationKeepsInv ==
  ASSUME RotationInv, NEW s \in Service, RegisterCredential(s), now' = now
  PROVE  RotationInv'
<1> DEFINE new == [id |-> [service |-> s, at |-> now, version |-> 1],
                   service |-> s, version |-> 1, status |-> "ACTIVE"]
<1>1. new \in Descriptor
  BY DEF Descriptor, CredentialId, RotationInv
<1>2. issued' = Append(issued, new)
  BY DEF RegisterCredential, Issue
<1>3. issued \in Seq(Descriptor) /\ Len(issued) \in Nat
  BY DEF RotationInv, RotationTypeOK
<1>4. new.service = s /\ new.version = 1 /\ new.status = "ACTIVE"
  OBVIOUS
<1>5. PutInForce(s) /\ jobs' = jobs
  BY DEF RegisterCredential
<1> HIDE DEF new
<1>6. /\ issued' \in Seq(Descriptor)
       /\ Len(issued') = Len(issued) + 1
       /\ issued'[Len(issued) + 1] = new
       /\ \A i \in 1 .. Len(issued) : issued'[i] = issued[i]
  BY <1>1, <1>2, <1>3
<1>7. /\ issued' \in Seq(Descriptor)
      /\ Len(issued') = Len(issued) + 1
      /\ issued'[Len(issued) + 1] = new
      /\ \A i \in 1 .. Len(issued) : issued'[i] = issued[i]
      /\ DOMAIN activeCredentials' = DOMAIN activeCredentials \union {s}
      /\ activeCredentials'[s] = Len(issued) + 1
      /\ \A t \in DOMAIN activeCredentials :
           t # s => activeCredentials'[t] = activeCredentials[t]
      /\ \A t \in DOMAIN activeCredentials' : activeCredentials'[t] \in 1 .. Len(issued')
      /\ DOMAIN activeCredentials' \subseteq Service
  BY <1>5, <1>6, PutInForceFacts
<1>8. RotationTypeOK'
  BY <1>5, <1>7 DEF RotationInv, RotationTypeOK
<1>9. JobsHaveCredential'
  BY <1>5, <1>7 DEF RotationInv, JobsHaveCredential
<1>10. ASSUME NEW t \in DOMAIN activeCredentials', NEW i \in 1 .. Len(issued')
      PROVE  /\ Current(t)'.service = t
             /\ issued'[i].service = t =>
                  /\ i <= activeCredentials'[t]
                  /\ SinceRegistration(t, i)' =>
                       (issued'[i].status = "ACTIVE" <=> i = activeCredentials'[t])
  <2>1. CASE t = s
    <3>1. SinceRegistration(t, i)' => i = Len(issued) + 1
      BY <1>3, <1>4, <1>7, <2>1 DEF SinceRegistration
    <3> QED
      BY <1>3, <1>4, <1>7, <2>1, <3>1 DEF Current
  <2>2. CASE t # s
    <3>1. t \in DOMAIN activeCredentials /\ activeCredentials[t] \in 1 .. Len(issued)
      BY <1>7, <2>2 DEF RotationInv, RotationTypeOK
    <3>2. Current(t)'.service = t
      BY <1>3, <1>7, <2>2, <3>1 DEF RotationInv, OneInForce, Current
    <3>3. CASE i \in 1 .. Len(issued)
      <4>1. SinceRegistration(t, i)' => SinceRegistration(t, i)
        BY <1>3, <1>7 DEF SinceRegistration
      <4> QED
        BY <1>7, <2>2, <3>1, <3>2, <3>3, <4>1 DEF RotationInv, OneInForce
    <3>4. CASE i = Len(issued) + 1
      BY <1>4, <1>7, <2>2, <3>2, <3>4
    <3> QED
      BY <1>3, <1>7, <3>3, <3>4
  <2> QED
    BY <2>1, <2>2
<1>11. OneInForce'
  BY <1>10, <1>7 DEF OneInForce
<1> QED
  BY <1>8, <1>9, <1>11 DEF RotationInv

\* A job is put in the map for a service that has a credential.
LEMMA InitiationKeepsInv ==
  ASSUME RotationInv, NEW s \in Service, InitiateRotation(s), now' = now
  PROVE  RotationInv'
<1> DEFINE id == [service |-> s, at |-> now]
           job == [service |-> s,
                   old |-> Current(s).id,
                   new |-> [service |-> s, at |-> now,
                            version |-> Current(s).version + 1],
                   phase |-> "INITIATED"]
<1>1. s \in DOMAIN activeCredentials /\ UNCHANGED <<issued, activeCredentials>>
  BY DEF InitiateRotation
<1>2. Current(s) \in Descriptor
  BY <1>1 DEF RotationInv, RotationTypeOK, Current
<1>3. Current(s).id \in CredentialId /\ Current(s).version + 1 \in Nat \ {0}
  BY <1>2 DEF Descriptor
<1>4. job \in Job /\ id \in JobId /\ job.service = s
  BY <1>3 DEF Job, JobId, Phase, CredentialId, RotationInv
<1>5. jobs' = [j \in DOMAIN jobs \union {id} |-> IF j = id THEN job ELSE jobs[j]]
  BY DEF InitiateRotation
<1> HIDE DEF id, job
<1>6. RotationTypeOK'
  BY <1>1, <1>4, <1>5 DEF RotationInv, RotationTypeOK
<1>7. JobsHaveCredential'
  BY <1>1, <1>4, <1>5 DEF RotationInv, JobsHaveCredential
<1>8. OneInForce'
  BY <1>1 DEF RotationInv, OneInForce, Current, SinceRegistration
<1> QED
  BY <1>6, <1>7, <1>8 DEF RotationInv

\* Entering a phase changes no service and no credential.
LEMMA PhaseKeepsJobs ==
  ASSUME RotationInv, NEW j \in DOMAIN jobs, NEW phase \in Phase, Enter(j, phase)
  PROVE  /\ DOMAIN jobs' = DOMAIN jobs
         /\ \A k \in DOMAIN jobs : jobs'[k] \in Job /\ jobs'[k].service = jobs[k].service
<1> DEFINE job == [jobs[j] EXCEPT !.phase = phase]
<1>1. jobs[j] \in Job
  BY DEF RotationInv, RotationTypeOK
<1>2. job \in Job /\ job.service = jobs[j].service
  BY <1>1 DEF Job
<1>3. jobs' = [jobs EXCEPT ![j] = job]
  BY DEF Enter
<1> HIDE DEF job
<1> QED
  BY <1>2, <1>3 DEF RotationInv, RotationTypeOK

\* The steps that only enter a phase leave the credentials alone.
LEMMA PhaseKeepsInv ==
  ASSUME RotationInv, NEW j \in DOMAIN jobs, NEW phase \in Phase, Enter(j, phase),
         UNCHANGED <<issued, activeCredentials>>, now' = now
  PROVE  RotationInv'
<1>1. RotationTypeOK' /\ JobsHaveCredential'
  BY PhaseKeepsJobs DEF RotationInv, RotationTypeOK, JobsHaveCredential
<1>2. OneInForce'
  BY DEF RotationInv, OneInForce, Current, SinceRegistration
<1> QED
  BY <1>1, <1>2 DEF RotationInv

\* Promotion deprecates what is in force, whoever put it there, so that only the
\* new credential is.
LEMMA PromotionKeepsInv ==
  ASSUME RotationInv, NEW j \in DOMAIN jobs, StepPromotePrimary(j), now' = now
  PROVE  RotationInv'
<1> DEFINE s == jobs[j].service
           c == Replaced(j)
           old == [issued[c] EXCEPT !.status = "DEPRECATED"]
           new == [id |-> jobs[j].new, service |-> s,
                   version |-> issued[c].version + 1, status |-> "ACTIVE"]
<1>1. jobs[j] \in Job /\ s \in Service /\ s \in DOMAIN activeCredentials
  BY DEF RotationInv, RotationTypeOK, JobsHaveCredential, Job
<1>2. c = activeCredentials[s] /\ c \in 1 .. Len(issued) /\ issued[c] \in Descriptor
  BY <1>1 DEF Replaced, RotationInv, RotationTypeOK
<1>3. issued[c].service = s
  BY <1>1, <1>2 DEF RotationInv, OneInForce, Current
<1>4. old \in Descriptor /\ old.service = s /\ old.status = "DEPRECATED"
      /\ old.version = issued[c].version
  BY <1>2, <1>3 DEF Descriptor
<1>5. new \in Descriptor /\ new.service = s /\ new.status = "ACTIVE" /\ new.version # 1
  BY <1>1, <1>2 DEF Descriptor, Job
<1>6. issued \in Seq(Descriptor) /\ Len(issued) \in Nat
  BY DEF RotationInv, RotationTypeOK
<1>7. issued' = [Append(issued, new) EXCEPT ![c].status = "DEPRECATED"]
  BY DEF StepPromotePrimary, Promoted, Issue
<1>8. Append(issued, new)[c] = issued[c]
  BY <1>2, <1>5, <1>6
<1>9. issued' = [Append(issued, new) EXCEPT ![c] = old]
  BY <1>7, <1>8
<1> HIDE DEF old, new, c
<1>10. /\ issued' \in Seq(Descriptor)
       /\ Len(issued') = Len(issued) + 1
       /\ issued'[Len(issued) + 1] = new
       /\ issued'[c] = old
       /\ \A i \in 1 .. Len(issued) : i # c => issued'[i] = issued[i]
  <2> DEFINE longer == Append(issued, new)
  <2>1. /\ longer \in Seq(Descriptor)
        /\ Len(longer) = Len(issued) + 1
        /\ longer[Len(issued) + 1] = new
        /\ \A i \in 1 .. Len(issued) : longer[i] = issued[i]
    BY <1>5, <1>6
  <2>2. issued' = [longer EXCEPT ![c] = old] /\ c \in 1 .. Len(longer) /\ c # Len(issued) + 1
    BY <1>2, <1>6, <1>9, <2>1
  <2> HIDE DEF longer
  <2> QED
    BY <1>4, <1>6, <2>1, <2>2
<1>11. PutInForce(s) /\ Enter(j, "PRIMARY_PROMOTED")
  BY DEF StepPromotePrimary
<1> HIDE DEF s
<1>12. /\ DOMAIN activeCredentials' = DOMAIN activeCredentials \union {s}
       /\ activeCredentials'[s] = Len(issued) + 1
       /\ \A t \in DOMAIN activeCredentials :
            t # s => activeCredentials'[t] = activeCredentials[t]
       /\ \A t \in DOMAIN activeCredentials' : activeCredentials'[t] \in 1 .. Len(issued')
       /\ DOMAIN activeCredentials' \subseteq Service
  BY <1>1, <1>10, <1>11, PutInForceFacts
<1>13. /\ DOMAIN jobs' = DOMAIN jobs
       /\ \A k \in DOMAIN jobs : jobs'[k] \in Job /\ jobs'[k].service = jobs[k].service
  BY <1>11, PhaseKeepsJobs DEF Phase
<1>14. RotationTypeOK'
  BY <1>10, <1>12, <1>13 DEF RotationInv, RotationTypeOK
<1>15. JobsHaveCredential'
  BY <1>10, <1>12, <1>13 DEF RotationInv, JobsHaveCredential
<1>16. \A i \in 1 .. Len(issued) : /\ issued'[i].service = issued[i].service
                                   /\ issued'[i].version = issued[i].version
  BY <1>3, <1>4, <1>10, <1>12
<1>17. ASSUME NEW t, NEW i \in 1 .. Len(issued)
       PROVE  SinceRegistration(t, i)' => SinceRegistration(t, i)
  BY <1>6, <1>10, <1>12, <1>16 DEF SinceRegistration
<1>18. ASSUME NEW t \in DOMAIN activeCredentials', NEW i \in 1 .. Len(issued')
       PROVE  /\ Current(t)'.service = t
              /\ issued'[i].service = t =>
                   /\ i <= activeCredentials'[t]
                   /\ SinceRegistration(t, i)' =>
                        (issued'[i].status = "ACTIVE" <=> i = activeCredentials'[t])
  <2>1. t \in DOMAIN activeCredentials /\ activeCredentials[t] \in 1 .. Len(issued)
    BY <1>1, <1>10, <1>12 DEF RotationInv, RotationTypeOK
  <2>2. Current(t)'.service = t
    BY <1>5, <1>6, <1>10, <1>12, <1>16, <2>1 DEF Current, RotationInv, OneInForce
  <2>3. CASE i = Len(issued) + 1
    BY <1>5, <1>6, <1>10, <1>12, <2>2, <2>3
  <2>4. CASE i \in 1 .. Len(issued) /\ t = s
    <3>1. issued[i].service = t /\ SinceRegistration(t, i) =>
            (issued[i].status = "ACTIVE" <=> i = c)
      BY <1>1, <1>2, <2>4 DEF RotationInv, OneInForce
    <3>2. issued'[i].service = t /\ SinceRegistration(t, i)' => issued'[i].status # "ACTIVE"
      BY <1>4, <1>10, <1>12, <1>16, <1>17, <2>4, <3>1
    <3>3. activeCredentials'[t] = Len(issued) + 1
      BY <1>10, <1>12, <2>4
    <3> QED
      BY <1>6, <2>2, <2>4, <3>2, <3>3
  <2>5. CASE i \in 1 .. Len(issued) /\ t # s
    <3>1. issued'[i].service = t => i # c
      BY <1>3, <1>16, <2>5
    <3> QED
      BY <1>10, <1>12, <1>16, <1>17, <2>1, <2>2, <2>5, <3>1 DEF RotationInv, OneInForce
  <2> QED
    BY <1>6, <1>10, <1>12, <2>3, <2>4, <2>5
<1>19. OneInForce'
  BY <1>10, <1>12, <1>18 DEF OneInForce
<1> QED
  BY <1>14, <1>15, <1>19 DEF RotationInv

\* Every call of the orchestrator, one case per method.
LEMMA RotationStep ==
  ASSUME RotationInv, RotationNext
  PROVE  RotationInv'
<1>1. ASSUME NEW s \in Service, RegisterCredential(s), now' = now
      PROVE  RotationInv'
  BY <1>1, RegistrationKeepsInv
<1>2. ASSUME NEW s \in Service, InitiateRotation(s), now' = now
      PROVE  RotationInv'
  BY <1>2, InitiationKeepsInv
<1>3. ASSUME NEW j \in DOMAIN jobs, StepDeploySecondary(j), now' = now
      PROVE  RotationInv'
  BY <1>3, PhaseKeepsInv DEF StepDeploySecondary, Phase
<1>4. ASSUME NEW j \in DOMAIN jobs, StepPromotePrimary(j), now' = now
      PROVE  RotationInv'
  BY <1>4, PromotionKeepsInv
<1>5. ASSUME NEW j \in DOMAIN jobs, StepDeprecateOldKey(j), now' = now
      PROVE  RotationInv'
  BY <1>5, PhaseKeepsInv DEF StepDeprecateOldKey, Phase
<1>6. ASSUME NEW j \in DOMAIN jobs, StepCompleteAndRevoke(j), now' = now
      PROVE  RotationInv'
  BY <1>6, PhaseKeepsInv DEF StepCompleteAndRevoke, Phase
<1> QED
  BY <1>1, <1>2, <1>3, <1>4, <1>5, <1>6 DEF RotationNext

\* What does not touch the orchestrator keeps its invariant.
LEMMA RotationUntouched ==
  ASSUME RotationInv, UNCHANGED rotationVars, now' \in Nat
  PROVE  RotationInv'
<1>1. issued' = issued /\ activeCredentials' = activeCredentials /\ jobs' = jobs
  BY DEF rotationVars
<1>2. RotationTypeOK' /\ JobsHaveCredential'
  BY <1>1 DEF RotationInv, RotationTypeOK, JobsHaveCredential
<1>3. OneInForce'
  BY <1>1 DEF RotationInv, OneInForce, Current, SinceRegistration
<1> QED
  BY <1>2, <1>3 DEF RotationInv

-----------------------------------------------------------------------------
\* Envelopes.

\* The vault is implemented because no two master keys have the same raw key and
\* a destroyed one has the raw key of no envelope.
RawKeysWereMade ==
  \A k \in DOMAIN masterKeys :
    /\ masterKeys[k].rawKey <= keysMade
    /\ masterKeys[k].state = "ACTIVE" => masterKeys[k].rawKey # Zeroes

EnvelopesWereSealed ==
  \A e \in envelopes : e.wrappedBy # Zeroes /\ e.wrappedBy <= keysMade

KmsInv == KmsTypeOK /\ RawKeysWereMade /\ EnvelopesWereSealed

\* The default key is the first made, and nothing is sealed yet.
LEMMA KmsInitial ==
  ASSUME KmsInit
  PROVE  KmsInv
BY DefaultAssumption DEF KmsInit, KmsInv, KmsTypeOK, MasterKey, RawKeysWereMade,
  EnvelopesWereSealed, Zeroes

\* Each method of the KMS keeps its invariant.
LEMMA KmsStep ==
  ASSUME KmsInv, KmsNext
  PROVE  KmsInv'
<1> USE DEF KmsInv
<1>1. ASSUME NEW k \in KeyId, CreateMasterKey(k)
      PROVE  KmsInv'
  <2> DEFINE made == [state |-> "ACTIVE", rawKey |-> FreshKey]
  <2>1. /\ DOMAIN masterKeys' = DOMAIN masterKeys \union {k}
        /\ masterKeys'[k] = made
        /\ \A i \in DOMAIN masterKeys : i # k => masterKeys'[i] = masterKeys[i]
        /\ keysMade' = keysMade + 1 /\ envelopes' = envelopes
    BY <1>1 DEF CreateMasterKey
  <2>2. made \in MasterKey /\ made.rawKey = keysMade + 1 /\ keysMade \in Nat
    BY DEF KmsTypeOK, MasterKey, FreshKey
  <2> HIDE DEF made
  <2>3. KmsTypeOK'
    BY <2>1, <2>2 DEF KmsTypeOK
  <2>4. \A i \in DOMAIN masterKeys : masterKeys[i].rawKey \in Nat
    BY DEF KmsTypeOK, MasterKey
  <2>5. RawKeysWereMade'
    BY <2>1, <2>2, <2>4 DEF RawKeysWereMade, Zeroes
  <2>6. EnvelopesWereSealed'
    BY <2>1, <2>2 DEF EnvelopesWereSealed, KmsTypeOK, Envelope
  <2> QED
    BY <2>3, <2>5, <2>6
<1>2. ASSUME NEW k \in KeyId, EncryptEnvelope(k)
      PROVE  KmsInv'
  <2> DEFINE sealed == [keyId |-> k, wrappedBy |-> masterKeys[k].rawKey]
  <2>1. /\ masterKeys' = masterKeys /\ keysMade' = keysMade
        /\ envelopes' = envelopes \union {sealed}
        /\ k \in DOMAIN masterKeys /\ masterKeys[k].state = "ACTIVE"
    BY <1>2 DEF EncryptEnvelope, Sealable
  <2>2. sealed \in Envelope /\ sealed.wrappedBy = masterKeys[k].rawKey
    BY <2>1 DEF KmsTypeOK, MasterKey, Envelope
  <2> HIDE DEF sealed
  <2>3. KmsTypeOK'
    BY <2>1, <2>2 DEF KmsTypeOK
  <2>4. RawKeysWereMade' /\ EnvelopesWereSealed'
    BY <2>1, <2>2 DEF RawKeysWereMade, EnvelopesWereSealed
  <2> QED
    BY <2>3, <2>4
<1>3. ASSUME NEW k \in KeyId, DestroyMasterKey(k)
      PROVE  KmsInv'
  <2> DEFINE shredded == [state |-> "DESTROYED", rawKey |-> Zeroes]
  <2>1. /\ DOMAIN masterKeys' = DOMAIN masterKeys
        /\ masterKeys'[k] = shredded
        /\ \A i \in DOMAIN masterKeys : i # k => masterKeys'[i] = masterKeys[i]
        /\ keysMade' = keysMade /\ envelopes' = envelopes
    BY <1>3 DEF DestroyMasterKey
  <2>2. shredded \in MasterKey /\ shredded.rawKey = 0 /\ shredded.state # "ACTIVE"
    BY DEF MasterKey, Zeroes
  <2> HIDE DEF shredded
  <2>3. KmsTypeOK'
    BY <2>1, <2>2 DEF KmsTypeOK
  <2>4. RawKeysWereMade'
    BY <2>1, <2>2 DEF RawKeysWereMade, KmsTypeOK
  <2>5. EnvelopesWereSealed'
    BY <2>1 DEF EnvelopesWereSealed
  <2> QED
    BY <2>3, <2>4, <2>5
<1> QED
  BY <1>1, <1>2, <1>3 DEF KmsNext

\* What does not touch the KMS keeps its invariant.
LEMMA KmsUntouched ==
  ASSUME KmsInv, UNCHANGED kmsVars
  PROVE  KmsInv'
BY DEF kmsVars, KmsInv, KmsTypeOK, RawKeysWereMade, EnvelopesWereSealed

\* The envelopes that open, and those that no longer do.
Openable == {e \in envelopes : Opens(e)}
Shredded == {e \in envelopes : ~Opens(e)}

\* Making or destroying a key shuts every envelope under its id and no other.
LEMMA ShutsUnder ==
  ASSUME NEW k \in KeyId, envelopes' = envelopes,
         \A e \in envelopes : e.keyId = k => ~Opens(e)',
         \A e \in envelopes : e.keyId # k => (Opens(e)' <=> Opens(e))
  PROVE  Vault!Shred(k)
BY DEF Vault!Shred, Vault!Under

\* Every method of the KMS is a step of the vault: sealing, or shredding all that
\* is under one key id.
LEMMA KmsStepImplementsVault ==
  ASSUME KmsInv, KmsNext
  PROVE  Vault!Next
<1> USE DEF KmsInv
<1>1. ASSUME NEW k \in KeyId, CreateMasterKey(k)
      PROVE  Vault!Shred(k)
  <2>1. /\ DOMAIN masterKeys' = DOMAIN masterKeys \union {k}
        /\ masterKeys'[k].rawKey = keysMade + 1
        /\ \A i \in DOMAIN masterKeys : i # k => masterKeys'[i] = masterKeys[i]
        /\ envelopes' = envelopes
    BY <1>1 DEF CreateMasterKey, FreshKey
  <2>2. \A e \in envelopes : e.wrappedBy # keysMade + 1
    BY DEF EnvelopesWereSealed, KmsTypeOK, Envelope
  <2>3. \A e \in envelopes : e.keyId = k => ~Opens(e)'
    BY <2>1, <2>2 DEF Opens
  <2>4. \A e \in envelopes : e.keyId # k => (Opens(e)' <=> Opens(e))
    BY <2>1 DEF Opens
  <2> QED
    BY <2>1, <2>3, <2>4, ShutsUnder
<1>2. ASSUME NEW k \in KeyId, EncryptEnvelope(k)
      PROVE  Vault!Seal
  <2> DEFINE sealed == [keyId |-> k, wrappedBy |-> masterKeys[k].rawKey]
  <2>1. /\ masterKeys' = masterKeys
        /\ envelopes' = envelopes \union {sealed}
        /\ k \in DOMAIN masterKeys /\ masterKeys[k].state = "ACTIVE"
    BY <1>2 DEF EncryptEnvelope, Sealable
  <2>2. sealed.keyId = k /\ Opens(sealed)
    BY <2>1 DEF Opens
  <2> HIDE DEF sealed
  <2>3. \A e : Opens(e)' <=> Opens(e)
    BY <2>1 DEF Opens
  <2>4. /\ sealed \in Openable' /\ sealed \notin Shredded
        /\ Openable' = Openable \union {sealed} /\ Shredded' = Shredded
    BY <2>1, <2>2, <2>3 DEF Openable, Shredded
  <2> QED
    BY <2>2, <2>4 DEF Vault!Seal, Openable, Shredded
<1>3. ASSUME NEW k \in KeyId, DestroyMasterKey(k)
      PROVE  Vault!Shred(k)
  <2>1. /\ DOMAIN masterKeys' = DOMAIN masterKeys
        /\ masterKeys'[k].state = "DESTROYED"
        /\ \A i \in DOMAIN masterKeys : i # k => masterKeys'[i] = masterKeys[i]
        /\ envelopes' = envelopes
    BY <1>3 DEF DestroyMasterKey
  <2>2. \A e \in envelopes : e.keyId = k => ~Opens(e)'
    BY <2>1 DEF Opens
  <2>3. \A e \in envelopes : e.keyId # k => (Opens(e)' <=> Opens(e))
    BY <2>1 DEF Opens
  <2> QED
    BY <2>1, <2>2, <2>3, ShutsUnder
<1> QED
  BY <1>1, <1>2, <1>3 DEF KmsNext, Vault!Next

-----------------------------------------------------------------------------
\* The services together.

SecretsInv == RotationInv /\ KmsInv

\* The steps of the other services and of the clock leave both alone.
LEMMA SecretsSteps ==
  ASSUME now \in Nat, [Next]_vars
  PROVE  \/ RotationNext /\ UNCHANGED kmsVars
         \/ KmsNext /\ UNCHANGED <<now, rotationVars>>
         \/ now' \in Nat /\ UNCHANGED secretsVars
<1>1. CASE UNCHANGED vars
  BY <1>1 DEF vars
<1>2. CASE UseRotation
  BY <1>2 DEF UseRotation
<1>3. CASE UseKms
  BY <1>3 DEF UseKms
<1>4. CASE UseTenants \/ UseFeed \/ UseGovernance
  BY <1>4 DEF UseTenants, UseFeed, UseGovernance
<1>5. CASE Tick
  <2>1. now' = now + 1 /\ UNCHANGED secretsVars
    BY <1>5 DEF Tick, Advance
  <2> QED
    BY <2>1
<1> QED
  BY <1>1, <1>2, <1>3, <1>4, <1>5 DEF Next

\* Every step of the platform keeps both invariants.
LEMMA SecretsStep ==
  ASSUME SecretsInv, [Next]_vars
  PROVE  SecretsInv'
<1>0. now \in Nat
  BY DEF SecretsInv, RotationInv
<1>1. CASE RotationNext /\ UNCHANGED kmsVars
  BY <1>1, RotationStep, KmsUntouched DEF SecretsInv
<1>2. CASE KmsNext /\ UNCHANGED <<now, rotationVars>>
  BY <1>0, <1>2, KmsStep, RotationUntouched DEF SecretsInv
<1>3. CASE now' \in Nat /\ UNCHANGED secretsVars
  <2>1. UNCHANGED rotationVars /\ UNCHANGED kmsVars
    BY <1>3 DEF secretsVars
  <2> QED
    BY <1>3, <2>1, KmsUntouched, RotationUntouched DEF SecretsInv
<1> QED
  BY <1>0, <1>1, <1>2, <1>3, SecretsSteps

\* The inductive invariant holds in every reachable state.
THEOREM SecretsInvariant == Spec => []SecretsInv
<1>1. Init => SecretsInv
  BY RotationInitial, KmsInitial DEF Init, SecretsInv
<1>2. SecretsInv /\ [Next]_vars => SecretsInv'
  BY SecretsStep
<1> QED
  BY <1>1, <1>2, PTL DEF Spec

\* For every set of services and every interleaving of their rotations, the
\* credential in the map is the only ACTIVE one since the last registration, so
\* that a service with a credential is never without one in force.
THEOREM OneInForceThroughout == Spec => []OneInForce
<1>1. SecretsInv => OneInForce
  BY DEF SecretsInv, RotationInv
<1> QED
  BY <1>1, SecretsInvariant, PTL

\* stepPromotePrimary finds a credential to replace whenever it finds its job:
\* the non-null assertion on the map's answer never fails.
THEOREM PromotionFindsCredential == Spec => []JobsHaveCredential
<1>1. SecretsInv => JobsHaveCredential
  BY DEF SecretsInv, RotationInv
<1> QED
  BY <1>1, SecretsInvariant, PTL

\* No data key is ever wrapped with the zeroes of a destroyed master key.
THEOREM NeverSealedByZeroes == Spec => []NothingSealedByZeroes
<1>1. SecretsInv => NothingSealedByZeroes
  BY DEF SecretsInv, KmsInv, EnvelopesWereSealed, NothingSealedByZeroes
<1> QED
  BY <1>1, SecretsInvariant, PTL

\* What is shredded stays shredded, for every set of key ids and however often
\* keys are made and destroyed under them: the KMS implements the vault.
THEOREM VaultImplemented == Spec => ImplementsVault
<1>1. Init => Vault!Init
  BY DEF Init, KmsInit, Vault!Init
<1>2. SecretsInv /\ [Next]_vars => [Vault!Next]_<<Openable, Shredded>>
  <2> SUFFICES ASSUME SecretsInv, [Next]_vars
               PROVE  [Vault!Next]_<<Openable, Shredded>>
    OBVIOUS
  <2>1. CASE KmsNext
    BY <2>1, KmsStepImplementsVault DEF SecretsInv
  <2>2. CASE UNCHANGED kmsVars
    BY <2>2 DEF kmsVars, Openable, Shredded, Opens
  <2>3. UNCHANGED secretsVars => UNCHANGED kmsVars
    BY DEF secretsVars
  <2> QED
    BY <2>1, <2>2, <2>3, SecretsSteps DEF SecretsInv, RotationInv
<1> QED
  BY <1>1, <1>2, SecretsInvariant, PTL DEF Spec, ImplementsVault, Vault!Spec, Openable, Shredded
-----------------------------------------------------------------------------
(* The tenant boundary                                                     *)

(* What a step does to the clock and to the agreements.                    *)
LEMMA BoundarySteps ==
  ASSUME now \in Nat, [Next]_vars
  PROVE  \/ UNCHANGED <<now, federationAgreements>>
         \/ TenantNext /\ UNCHANGED now
         \/ now' \in Nat /\ now' > now /\ UNCHANGED federationAgreements
<1>1. CASE UNCHANGED vars
  BY <1>1 DEF vars
<1>2. CASE UseRotation
  BY <1>2 DEF UseRotation, RotationNext
<1>3. CASE UseKms
  BY <1>3 DEF UseKms
<1>4. CASE UseTenants
  BY <1>4 DEF UseTenants
<1>5. CASE UseFeed
  BY <1>5 DEF UseFeed
<1>6. CASE UseGovernance
  BY <1>6 DEF UseGovernance
<1>7. CASE Tick
  <2>1. now' = now + 1 /\ UNCHANGED federationAgreements
    BY <1>7 DEF Tick, Advance
  <2> QED
    BY <2>1
<1> QED
  BY <1>1, <1>2, <1>3, <1>4, <1>5, <1>6, <1>7 DEF Next

BoundaryTypeOK == now \in Nat /\ TenantTypeOK

(* An agreement that is registered is an agreement.                        *)
LEMMA RegisterType ==
  ASSUME TenantTypeOK, NEW a \in FederationAgreement, RegisterFederationAgreement(a)
  PROVE  TenantTypeOK'
BY AgreementAssumption DEF TenantTypeOK, RegisterFederationAgreement, BoundaryKey

(* Type correctness of the boundary: every agreement in the map is one     *)
(* that was registered, under the tenants it names.                        *)
THEOREM BoundaryTypeCorrect == Spec => []BoundaryTypeOK
<1>1. Init => BoundaryTypeOK
  BY DEF Init, BoundaryTypeOK, TenantInit, TenantTypeOK
<1>2. BoundaryTypeOK /\ [Next]_vars => BoundaryTypeOK'
  <2> SUFFICES ASSUME BoundaryTypeOK, [Next]_vars
               PROVE  BoundaryTypeOK'
    OBVIOUS
  <2>1. CASE UNCHANGED <<now, federationAgreements>>
    BY <2>1 DEF BoundaryTypeOK, TenantTypeOK
  <2>2. CASE TenantNext /\ UNCHANGED now
    BY <2>2, RegisterType DEF TenantNext, BoundaryTypeOK
  <2>3. CASE now' \in Nat /\ now' > now /\ UNCHANGED federationAgreements
    BY <2>3 DEF BoundaryTypeOK, TenantTypeOK
  <2> QED
    BY <2>1, <2>2, <2>3, BoundarySteps DEF BoundaryTypeOK
<1> QED
  BY <1>1, <1>2, PTL DEF Spec

(* A registration moves access only along its own direction.               *)
LEMMA RegistrationMoves ==
  ASSUME BoundaryTypeOK, UNCHANGED now, NEW a \in FederationAgreement,
         RegisterFederationAgreement(a),
         NEW s \in Tenant, NEW t \in Tenant, NEW r \in Resource
  PROVE  Moves(s, t, r)
<1> DEFINE key == BoundaryKey(s, t)
<1>1. CASE a.source = s /\ a.target = t
  <2>1. key \in DOMAIN federationAgreements' /\ federationAgreements'[key] = a
    BY <1>1 DEF RegisterFederationAgreement, BoundaryKey
  <2>2. s # t /\ CanAccessTenantResource(s, t, r)' => Covers(a, r)
    BY <2>1 DEF CanAccessTenantResource, Covers
  <2>3. s = t => CanAccessTenantResource(s, t, r)
    BY DEF CanAccessTenantResource
  <2> QED
    BY <1>1, <2>2, <2>3 DEF Moves
<1>2. CASE ~(a.source = s /\ a.target = t)
  <2>1. BoundaryKey(a.source, a.target) # key
    BY <1>2 DEF BoundaryKey
  <2>2. /\ key \in DOMAIN federationAgreements' <=> key \in DOMAIN federationAgreements
        /\ key \in DOMAIN federationAgreements =>
             federationAgreements'[key] = federationAgreements[key]
    BY <2>1 DEF RegisterFederationAgreement
  <2>3. CanAccessTenantResource(s, t, r)' <=> CanAccessTenantResource(s, t, r)
    BY <2>2 DEF CanAccessTenantResource, Expired, Covers
  <2> QED
    BY <2>3 DEF Moves
<1> QED
  BY <1>1, <1>2

(* Time only closes, and only what has an end.                             *)
LEMMA ClockMoves ==
  ASSUME BoundaryTypeOK, now' \in Nat, now' > now, UNCHANGED federationAgreements,
         NEW s \in Tenant, NEW t \in Tenant, NEW r \in Resource
  PROVE  Moves(s, t, r)
<1> DEFINE key == BoundaryKey(s, t)
           a == federationAgreements[key]
<1>1. ASSUME key \in DOMAIN federationAgreements
      PROVE  ~(a.expiresAt # NotADate /\ now' > a.expiresAt)
               => ~(a.expiresAt # NotADate /\ now > a.expiresAt)
  <2>1. a.expiresAt \in Int
    BY <1>1, AgreementAssumption DEF BoundaryTypeOK, TenantTypeOK
  <2> QED
    BY <2>1 DEF BoundaryTypeOK
<1>2. CanAccessTenantResource(s, t, r)' => CanAccessTenantResource(s, t, r)
  BY <1>1 DEF CanAccessTenantResource, Expired, Covers
<1> QED
  BY <1>2 DEF Moves

(* Access across tenants moves only with the agreement of that direction   *)
(* and with its end: what canAccessTenantResource answers is never changed *)
(* by an agreement of others, whatever is registered in whatever order.    *)
THEOREM AccessFollowsAgreements == Spec => AccessMovesWithAgreements
<1>1. BoundaryTypeOK /\ [Next]_vars =>
        [\A s \in Tenant, t \in Tenant, r \in Resource : Moves(s, t, r)]_<<now, federationAgreements>>
  <2> SUFFICES ASSUME BoundaryTypeOK, [Next]_vars,
                      ~UNCHANGED <<now, federationAgreements>>,
                      NEW s \in Tenant, NEW t \in Tenant, NEW r \in Resource
               PROVE  Moves(s, t, r)
    OBVIOUS
  <2>1. CASE TenantNext /\ UNCHANGED now
    BY <2>1, RegistrationMoves DEF TenantNext
  <2>2. CASE now' \in Nat /\ now' > now /\ UNCHANGED federationAgreements
    BY <2>2, ClockMoves
  <2> QED
    BY <2>1, <2>2, BoundarySteps DEF BoundaryTypeOK
<1> QED
  BY <1>1, BoundaryTypeCorrect, PTL DEF Spec, AccessMovesWithAgreements

-----------------------------------------------------------------------------
(* The posture of the fleet                                                *)

(* All that a step does to the posture.                                    *)
LEMMA PostureSteps ==
  ASSUME [Next]_vars
  PROVE  \/ UNCHANGED postureVars
         \/ \E e \in Entity : RecordEntityFinding(e)
         \/ GetPostureReport
         \/ SyncBaselines
<1>1. UNCHANGED governanceVars \/ GovernanceNext
  BY DEF Next, vars, UseRotation, UseKms, UseTenants, UseFeed, UseGovernance, Tick
<1>2. CASE UNCHANGED governanceVars
  BY <1>2 DEF governanceVars
<1>3. CASE GovernanceNext
  BY <1>3 DEF GovernanceNext, SyncPosture, Certify, Command, CommandPostureSync,
              CommandCertify, CommandOnAlert, RefuseCommand, governanceVars
<1> QED
  BY <1>1, <1>2, <1>3

(* The overall score is an integer.                                        *)
LEMMA OverallType ==
  ASSUME NEW f \in [Entity -> Int]
  PROVE  OverallHardeningScore(f) \in Int
<1>1. Total(f) \in Int
  BY DEF Total, Entity
<1> QED
  BY <1>1 DEF OverallHardeningScore

(* Higher scores of the entities never make a lower overall score.         *)
LEMMA OverallMonotone ==
  ASSUME NEW f \in [Entity -> Int], NEW g \in [Entity -> Int],
         \A e \in Entity : f[e] =< g[e]
  PROVE  OverallHardeningScore(f) =< OverallHardeningScore(g)
<1>1. Total(f) \in Int /\ Total(g) \in Int /\ Total(f) =< Total(g)
  BY DEF Total, Entity
<1> QED
  BY <1>1 DEF OverallHardeningScore

(* Where the entities start.                                               *)
LEMMA DefaultScores ==
  \A e \in Entity : DefaultScore[e] \in 90 .. 100
BY DEF Entity, DefaultScore

(* The inductive invariant: a score is the entity's own until it has a     *)
(* finding, and lower from then on.                                        *)
PostureInv ==
  /\ PostureTypeOK
  /\ \A e \in Entity :
       /\ findings[e] = 0 => hardeningScore[e] = DefaultScore[e]
       /\ findings[e] > 0 => hardeningScore[e] < DefaultScore[e]
       /\ compliant[e] <=> hardeningScore[e] >= 90
  /\ report # NoReport =>
       /\ report.overallHardeningScore >= OverallHardeningScore(hardeningScore)
       /\ \A e \in Entity : report.criticalFindings[e] =< findings[e]

(* The invariant holds before the first finding.                           *)
LEMMA PostureInitially == PostureInit => PostureInv
<1> SUFFICES ASSUME PostureInit PROVE PostureInv
  OBVIOUS
<1>1. DefaultScore \in [Entity -> 0 .. 100]
  BY DEF Entity, DefaultScore
<1>2. PostureTypeOK
  <2>1. NoReport \in [overallHardeningScore : Int, criticalFindings : [Entity -> Nat]]
    BY DEF NoReport
  <2>2. <<"own">> \in Seq({"own", "shared"})
    OBVIOUS
  <2> QED
    BY <1>1, <2>1, <2>2 DEF PostureInit, PostureTypeOK
<1>3. ASSUME NEW e \in Entity
      PROVE  /\ findings[e] = 0
             /\ hardeningScore[e] = DefaultScore[e]
             /\ compliant[e] <=> hardeningScore[e] >= 90
  BY DEF PostureInit
<1>4. report = NoReport
  BY DEF PostureInit
<1> QED
  BY <1>2, <1>3, <1>4 DEF PostureInv

(* A finding lowers its entity's score, and no other.                      *)
LEMMA FindingKeepsPosture ==
  ASSUME PostureInv, NEW x \in Entity, RecordEntityFinding(x)
  PROVE  PostureInv'
<1>0. /\ hardeningScore \in [Entity -> 0 .. 100]
      /\ findings \in [Entity -> Nat]
      /\ compliant \in [Entity -> BOOLEAN]
  BY DEF PostureInv, PostureTypeOK
<1>1. /\ hardeningScore' = [hardeningScore EXCEPT ![x] = AfterFinding(@)]
      /\ findings' = [findings EXCEPT ![x] = @ + 1]
      /\ compliant' = [compliant EXCEPT ![x] = AfterFinding(hardeningScore[x]) >= 90]
      /\ UNCHANGED <<activeDefenses, report>>
  BY DEF RecordEntityFinding
<1>2. /\ AfterFinding(hardeningScore[x]) \in 0 .. 100
      /\ AfterFinding(hardeningScore[x]) =< hardeningScore[x]
      /\ hardeningScore[x] > 0 => AfterFinding(hardeningScore[x]) < hardeningScore[x]
  BY <1>0 DEF AfterFinding
<1>3. PostureTypeOK'
  BY <1>0, <1>1, <1>2 DEF PostureInv, PostureTypeOK
<1>4. ASSUME NEW e \in Entity
      PROVE  /\ findings'[e] = 0 => hardeningScore'[e] = DefaultScore[e]
             /\ findings'[e] > 0 => hardeningScore'[e] < DefaultScore[e]
             /\ compliant'[e] <=> hardeningScore'[e] >= 90
  <2>1. /\ findings[e] = 0 => hardeningScore[e] = DefaultScore[e]
        /\ findings[e] > 0 => hardeningScore[e] < DefaultScore[e]
        /\ compliant[e] <=> hardeningScore[e] >= 90
    BY DEF PostureInv
  <2>2. CASE e = x
    <3>1. findings'[e] > 0
      BY <1>0, <1>1, <2>2
    <3>2. hardeningScore'[e] = AfterFinding(hardeningScore[x])
      BY <1>0, <1>1, <2>2
    <3>3. AfterFinding(hardeningScore[x]) < DefaultScore[x]
      BY <1>0, <1>2, <2>1, <2>2, DefaultScores
    <3>4. compliant'[e] <=> hardeningScore'[e] >= 90
      BY <1>0, <1>1, <2>2, <3>2
    <3> QED
      BY <1>0, <1>1, <2>2, <3>1, <3>2, <3>3, <3>4
  <2>3. CASE e # x
    BY <1>0, <1>1, <2>1, <2>3
  <2> QED
    BY <2>2, <2>3
<1>5. ASSUME report' # NoReport
      PROVE  /\ report'.overallHardeningScore >= OverallHardeningScore(hardeningScore')
             /\ \A e \in Entity : report'.criticalFindings[e] =< findings'[e]
  <2>1. /\ report.overallHardeningScore >= OverallHardeningScore(hardeningScore)
        /\ \A e \in Entity : report.criticalFindings[e] =< findings[e]
    BY <1>1, <1>5 DEF PostureInv
  <2>2. /\ hardeningScore \in [Entity -> Int]
        /\ hardeningScore' \in [Entity -> Int]
        /\ \A e \in Entity : hardeningScore'[e] =< hardeningScore[e]
    BY <1>0, <1>1, <1>2
  <2>3. OverallHardeningScore(hardeningScore') =< OverallHardeningScore(hardeningScore)
    BY <2>2, OverallMonotone
  <2>4. /\ report.overallHardeningScore \in Int
        /\ report.criticalFindings \in [Entity -> Nat]
    BY DEF PostureInv, PostureTypeOK
  <2>5. \A score \in [Entity -> Int] : OverallHardeningScore(score) \in Int
    BY OverallType
  <2>6. \A e \in Entity : findings'[e] >= findings[e] /\ findings'[e] \in Nat
    BY <1>0, <1>1
  <2>7. report'.overallHardeningScore >= OverallHardeningScore(hardeningScore')
    <3> DEFINE then == OverallHardeningScore(hardeningScore)
               next == OverallHardeningScore(hardeningScore')
               told == report.overallHardeningScore
    <3>1. then \in Int /\ next \in Int /\ told \in Int
      BY <2>2, <2>4, <2>5
    <3>2. next =< then /\ told >= then
      BY <2>1, <2>3
    <3> HIDE DEF then, next, told
    <3>3. told >= next
      BY <3>1, <3>2
    <3> QED
      BY <1>1, <3>3 DEF told, next
  <2>8. \A e \in Entity : report'.criticalFindings[e] =< findings'[e]
    BY <1>0, <1>1, <2>1, <2>4, <2>6
  <2> QED
    BY <2>7, <2>8
<1> QED
  BY <1>3, <1>4, <1>5 DEF PostureInv

(* A report is true of the state it is made in.                            *)
LEMMA ReportKeepsPosture ==
  ASSUME PostureInv, GetPostureReport
  PROVE  PostureInv'
<1>1. /\ report' = [overallHardeningScore |-> OverallHardeningScore(hardeningScore),
                    criticalFindings |-> findings]
      /\ UNCHANGED <<hardeningScore, findings, activeDefenses, compliant>>
  BY DEF GetPostureReport
<1>2. /\ hardeningScore \in [Entity -> 0 .. 100]
      /\ findings \in [Entity -> Nat]
  BY DEF PostureInv, PostureTypeOK
<1>3. OverallHardeningScore(hardeningScore) \in Int
  <2>1. hardeningScore \in [Entity -> Int]
    BY <1>2
  <2> QED
    BY <2>1, OverallType
<1>4. PostureTypeOK'
  BY <1>1, <1>2, <1>3 DEF PostureInv, PostureTypeOK
<1>5. OverallHardeningScore(hardeningScore') = OverallHardeningScore(hardeningScore)
  BY <1>1
<1>6. /\ report'.overallHardeningScore >= OverallHardeningScore(hardeningScore')
      /\ \A e \in Entity : report'.criticalFindings[e] =< findings'[e]
  BY <1>1, <1>2, <1>3, <1>5
<1> QED
  BY <1>1, <1>4, <1>6 DEF PostureInv

(* Synchronizing marks who is compliant by the scores of that moment.      *)
LEMMA SyncKeepsPosture ==
  ASSUME PostureInv, SyncBaselines
  PROVE  PostureInv'
<1>1. /\ compliant' = [e \in Entity |-> hardeningScore[e] >= 90]
      /\ UNCHANGED <<hardeningScore, findings, report>>
  BY DEF SyncBaselines
<1>2. activeDefenses' \in [Entity -> Seq({"own", "shared"})]
  <2>1. ASSUME NEW e \in Entity
        PROVE  Append(activeDefenses[e], "shared") \in Seq({"own", "shared"})
    BY DEF PostureInv, PostureTypeOK
  <2> QED
    BY <2>1 DEF SyncBaselines, PostureInv, PostureTypeOK
<1>3. PostureTypeOK'
  BY <1>1, <1>2 DEF PostureInv, PostureTypeOK
<1>4. \A e \in Entity : compliant'[e] <=> hardeningScore'[e] >= 90
  BY <1>1
<1>5. OverallHardeningScore(hardeningScore') = OverallHardeningScore(hardeningScore)
  BY <1>1
<1> QED
  BY <1>1, <1>3, <1>4, <1>5 DEF PostureInv

(* The inductive invariant of the posture holds in every state.            *)
THEOREM PostureInvariant == Spec => []PostureInv
<1>1. Init => PostureInv
  BY PostureInitially DEF Init, GovernanceInit
<1>2. PostureInv /\ [Next]_vars => PostureInv'
  <2> SUFFICES ASSUME PostureInv, [Next]_vars
               PROVE  PostureInv'
    OBVIOUS
  <2>1. CASE UNCHANGED postureVars
    <3>1. OverallHardeningScore(hardeningScore') = OverallHardeningScore(hardeningScore)
      BY <2>1 DEF postureVars
    <3> QED
      BY <2>1, <3>1 DEF postureVars, PostureInv, PostureTypeOK
  <2>2. CASE \E e \in Entity : RecordEntityFinding(e)
    BY <2>2, FindingKeepsPosture
  <2>3. CASE GetPostureReport
    BY <2>3, ReportKeepsPosture
  <2>4. CASE SyncBaselines
    BY <2>4, SyncKeepsPosture
  <2> QED
    BY <2>1, <2>2, <2>3, <2>4, PostureSteps
<1> QED
  BY <1>1, <1>2, PTL DEF Spec

(* The views of the fleet agree, however many findings there are: the SOC  *)
(* rows, the compliance verdicts and a report kept from earlier never      *)
(* contradict the scores, down to the floor that the model checker does    *)
(* not reach.                                                              *)
THEOREM ViewsAgreeThroughout == Spec => []ViewsAgree
<1>1. PostureInv => ViewsAgree
  <2> SUFFICES ASSUME PostureInv PROVE ViewsAgree
    OBVIOUS
  <2>1. ASSUME NEW e \in FleetEntity
        PROVE  /\ ~compliant[e] => FleetStatus(e) = "DEGRADED"
               /\ FleetStatus(e) = "DEGRADED" <=> hardeningScore[e] < DefaultScore[e]
    <3>1. e \in Entity
      BY DEF FleetEntity
    <3>2. /\ hardeningScore[e] \in 0 .. 100
          /\ findings[e] \in Nat
      BY <3>1 DEF PostureInv, PostureTypeOK
    <3>3. DefaultScore[e] \in 90 .. 100
      BY <3>1, DefaultScores
    <3>4. /\ findings[e] = 0 => hardeningScore[e] = DefaultScore[e]
          /\ findings[e] > 0 => hardeningScore[e] < DefaultScore[e]
          /\ compliant[e] <=> hardeningScore[e] >= 90
      BY <3>1 DEF PostureInv
    <3>5. FleetStatus(e) = "DEGRADED" <=> findings[e] > 0
      BY DEF FleetStatus
    <3> QED
      BY <3>2, <3>3, <3>4, <3>5
  <2> QED
    BY <2>1 DEF PostureInv, ViewsAgree
<1> QED
  BY <1>1, PostureInvariant, PTL

-----------------------------------------------------------------------------
(* The trail                                                               *)

(* recordAudit appends one record to the shared chain, or leaves it.        *)
LEMMA RecordAuditTrail ==
  ASSUME NEW chain, NEW record, RecordAudit(chain, record)
  PROVE  trail' = chain \/ trail' = AppendRecord(chain, record)
BY DEF RecordAudit, AppendedBy

(* All that a step does to the trail: up to two records at its end.         *)
LEMMA TrailSteps ==
  ASSUME [Next]_vars
  PROVE  \/ UNCHANGED trail
         \/ \E p \in GovernanceRecords : trail' = AppendRecord(trail, p)
         \/ \E p \in GovernanceRecords, q \in GovernanceRecords :
              trail' = AppendRecord(AppendRecord(trail, p), q)
<1>1. UNCHANGED governanceVars \/ GovernanceNext
  BY DEF Next, vars, UseRotation, UseKms, UseTenants, UseFeed, UseGovernance, Tick
<1>2. CASE UNCHANGED governanceVars
  BY <1>2 DEF governanceVars
<1>3. ASSUME SyncPosture
      PROVE  \E p \in GovernanceRecords : trail' = AppendRecord(trail, p)
  BY <1>3 DEF SyncPosture, GovernanceRecords
<1>4. ASSUME NEW f \in Framework, Certify(f)
      PROVE  \E p \in GovernanceRecords : trail' = AppendRecord(trail, p)
  BY <1>4 DEF Certify, GovernanceRecords
<1>5. ASSUME NEW p \in GovernanceRecords, NEW c \in Caller, NEW name \in CommandName,
             RecordAudit(AppendRecord(trail, p), CommandRecord(c, name))
      PROVE  \/ \E q \in GovernanceRecords : trail' = AppendRecord(trail, q)
             \/ \E q \in GovernanceRecords, r \in GovernanceRecords :
                  trail' = AppendRecord(AppendRecord(trail, q), r)
  <2>1. CommandRecord(c, name) \in GovernanceRecords
    BY DEF GovernanceRecords
  <2> QED
    BY <1>5, <2>1, RecordAuditTrail
<1>6. ASSUME NEW c \in Caller, Command(c)
      PROVE  \/ UNCHANGED trail
             \/ \E p \in GovernanceRecords : trail' = AppendRecord(trail, p)
             \/ \E p \in GovernanceRecords, q \in GovernanceRecords :
                  trail' = AppendRecord(AppendRecord(trail, p), q)
  <2>1. CASE CommandPostureSync(c)
    <3>1. SyncRecord \in GovernanceRecords /\ "POSTURE_SYNC" \in CommandName
      BY DEF GovernanceRecords, CommandName
    <3>2. RecordAudit(AppendRecord(trail, SyncRecord), CommandRecord(c, "POSTURE_SYNC"))
      BY <2>1 DEF CommandPostureSync
    <3> QED
      BY <1>5, <3>1, <3>2
  <2>2. ASSUME NEW f \in Framework, CommandCertify(c, f)
        PROVE  \/ \E q \in GovernanceRecords : trail' = AppendRecord(trail, q)
               \/ \E q \in GovernanceRecords, r \in GovernanceRecords :
                    trail' = AppendRecord(AppendRecord(trail, q), r)
    <3>1. CertificationRecord(f) \in GovernanceRecords /\ "CERTIFY" \in CommandName
      BY DEF GovernanceRecords, CommandName
    <3>2. RecordAudit(AppendRecord(trail, CertificationRecord(f)), CommandRecord(c, "CERTIFY"))
      BY <2>2 DEF CommandCertify
    <3> QED
      BY <1>5, <3>1, <3>2
  <2>3. ASSUME NEW name \in {"TRIAGE_ALERT", "FORENSIC_RCA"}, CommandOnAlert(c, name)
        PROVE  \/ UNCHANGED trail
               \/ \E p \in GovernanceRecords : trail' = AppendRecord(trail, p)
    <3>1. CommandRecord(c, name) \in GovernanceRecords
      BY DEF GovernanceRecords, CommandName
    <3> QED
      BY <2>3, <3>1, RecordAuditTrail DEF CommandOnAlert
  <2> QED
    BY <1>6, <2>1, <2>2, <2>3 DEF Command
<1>8. ASSUME NEW b \in Build, EvaluateBuildGate(b)
      PROVE  \/ UNCHANGED trail
             \/ \E p \in GovernanceRecords : trail' = AppendRecord(trail, p)
  <2>1. BypassRecord(b) \in GovernanceRecords /\ BlockedRecord \in GovernanceRecords
    BY DEF GovernanceRecords
  <2> QED
    BY <1>8, <2>1 DEF EvaluateBuildGate, AnswerOnRecord
<1>9. CASE GovernanceNext
  BY <1>3, <1>4, <1>6, <1>8, <1>9 DEF GovernanceNext, RefuseCommand, governanceVars
<1> QED
  BY <1>1, <1>2, <1>9

TrailInv == trail \in Chain /\ VerifyIntegrity(trail)

(* The trail of the governance services verifies from its first record to  *)
(* its last at any time, so that what getSummary says of the platform is   *)
(* never DEGRADED for what these services append.                          *)
THEOREM TrailVerifies == Spec => []TrailInv
<1>1. Init => TrailInv
  BY EmptyChainVerifies DEF Init, GovernanceInit, TrailInv
<1>2. ASSUME NEW chain \in Chain, VerifyIntegrity(chain), NEW p \in GovernanceRecords
      PROVE  AppendRecord(chain, p) \in Chain /\ VerifyIntegrity(AppendRecord(chain, p))
  <2>1. p \in Payload
    BY GovernanceRecordsAssumption
  <2> QED
    BY <1>2, <2>1, AppendRecordType, AppendRecordVerifies
<1>3. TrailInv /\ [Next]_vars => TrailInv'
  <2> SUFFICES ASSUME TrailInv, [Next]_vars
               PROVE  TrailInv'
    OBVIOUS
  <2>1. CASE UNCHANGED trail
    BY <2>1 DEF TrailInv
  <2>2. CASE \E p \in GovernanceRecords : trail' = AppendRecord(trail, p)
    BY <1>2, <2>2 DEF TrailInv
  <2>3. CASE \E p \in GovernanceRecords, q \in GovernanceRecords :
               trail' = AppendRecord(AppendRecord(trail, p), q)
    <3>1. PICK p \in GovernanceRecords, q \in GovernanceRecords :
            trail' = AppendRecord(AppendRecord(trail, p), q)
      BY <2>3
    <3>2. AppendRecord(trail, p) \in Chain /\ VerifyIntegrity(AppendRecord(trail, p))
      BY <1>2 DEF TrailInv
    <3>3. trail' \in Chain /\ VerifyIntegrity(trail')
      BY <1>2, <3>1, <3>2
    <3> QED
      BY <3>3 DEF TrailInv
  <2> QED
    BY <2>1, <2>2, <2>3, TrailSteps
<1> QED
  BY <1>1, <1>3, PTL DEF Spec

(* A trail in which a record before the last was replaced by another, with  *)
(* whatever digests, shows as DEGRADED in the summary of the platform: its *)
(* successor pins it.  The last record is pinned by an evidence bundle.    *)
THEOREM SummaryShowsReplacedRecord ==
  ASSUME NEW chain \in Chain, VerifyIntegrity(chain),
         NEW i \in 1 .. Len(chain), i < Len(chain),
         NEW r \in AuditRecord, r # chain[i]
  PROVE  PlatformSummary([chain EXCEPT ![i] = r]).status = "DEGRADED"
<1> DEFINE altered == [chain EXCEPT ![i] = r]
<1>1. /\ Len(chain) \in Nat /\ Len(altered) = Len(chain)
      /\ i + 1 \in 1 .. Len(chain) /\ i + 1 # 1 /\ (i + 1) - 1 = i /\ i + 1 # i
      /\ chain[i] \in AuditRecord
  BY DEF Chain
<1>2. altered[i] = r /\ altered[i + 1] = chain[i + 1]
  BY <1>1 DEF Chain
<1> HIDE DEF altered
<1>3. LinkHolds(chain, i) /\ LinkHolds(chain, i + 1)
  BY <1>1 DEF VerifyIntegrity
<1>4. ASSUME VerifyIntegrity(altered)
      PROVE  FALSE
  <2>1. LinkHolds(altered, i) /\ LinkHolds(altered, i + 1)
    BY <1>1, <1>4 DEF VerifyIntegrity
  <2>2. HashBefore(altered, i + 1) = r.currentHash
    BY <1>1, <1>2 DEF HashBefore
  <2>3. HashBefore(chain, i + 1) = chain[i].currentHash
    BY <1>1 DEF HashBefore
  <2>4. r.currentHash = chain[i].currentHash
    BY <1>2, <1>3, <2>1, <2>2, <2>3 DEF LinkHolds
  <2>5. SelfConsistent(r) /\ SelfConsistent(chain[i])
    BY <1>2, <1>3, <2>1 DEF LinkHolds
  <2> QED
    BY <1>1, <2>4, <2>5, RecordDeterminedByHash
<1> QED
  BY <1>4 DEF PlatformSummary, altered

(* What a record said to be appended leaves as it was, and what it says.   *)
LEMMA Appended ==
  ASSUME NEW chain \in Chain, NEW p \in GovernanceRecords
  PROVE  /\ AppendRecord(chain, p) \in Chain
         /\ Len(AppendRecord(chain, p)) = Len(chain) + 1
         /\ AppendRecord(chain, p)[Len(chain) + 1].payload = p
         /\ \A i \in 1 .. Len(chain) : AppendRecord(chain, p)[i] = chain[i]
<1>1. p \in Payload
  BY GovernanceRecordsAssumption
<1>2. NextRecord(chain, p).payload = p
  BY DEF NextRecord
<1> QED
  BY <1>1, <1>2, AppendRecordType

GateActions == {"AUDIOBLUE_CI_EMERGENCY_BYPASS", "AUDIOBLUE_CI_BUILD_BLOCKED"}

(* An answer of the gate and the record it names, if any.                  *)
Told(chain, a) ==
  LET entry == chain[a.auditTrailId].payload
  IN  /\ a.status = "PASSED" <=> ~Violates(a.build)
      /\ a.status = "PASSED" => a.auditTrailId = 0
      /\ a.status # "PASSED" => a.auditTrailId \in 1 .. Len(chain)
      /\ a.status = "BYPASS_APPROVED" =>
           entry.who # Nobody /\ entry.why # NoTicket /\ entry.result = "SUCCESS"
      /\ a.status = "BLOCKED" => entry.result = "DENIED"

Names(told, n) == {i \in 1 .. Len(told) : told[i].auditTrailId = n}

(* The inductive invariant: an answer names no place past the end of the   *)
(* trail, so that a new record is not named yet.                           *)
Accounts(chain, told) ==
  /\ chain \in Chain
  /\ told \in Seq(Answer)
  /\ \A i \in 1 .. Len(told) : Told(chain, told[i])
  /\ \A n \in 1 .. Len(chain) :
       chain[n].payload.what \in GateActions => \E i \in 1 .. Len(told) : Names(told, n) = {i}

AccountsInv == Accounts(trail, answers)

(* The accounts say what the run checks of the builds.                     *)
LEMMA AccountsSuffice ==
  ASSUME AccountsInv
  PROVE  BuildsAccountedFor
<1>1. DOMAIN answers = 1 .. Len(answers) /\ DOMAIN trail = 1 .. Len(trail)
  BY DEF AccountsInv, Accounts, Chain
<1>2. ASSUME NEW n \in DOMAIN trail, trail[n].payload.what \in GateActions
      PROVE  Cardinality({i \in DOMAIN answers : answers[i].auditTrailId = n}) = 1
  <2>1. PICK i \in 1 .. Len(answers) : Names(answers, n) = {i}
    BY <1>1, <1>2 DEF AccountsInv, Accounts
  <2>2. {j \in DOMAIN answers : answers[j].auditTrailId = n} = {i}
    BY <1>1, <2>1 DEF Names
  <2> QED
    BY <2>2, FS_Singleton
<1>3. \A i \in DOMAIN answers : Told(trail, answers[i])
  BY <1>1 DEF AccountsInv, Accounts
<1>5. \A n \in DOMAIN trail :
        trail[n].payload.what \in GateActions =>
          Cardinality({i \in DOMAIN answers : answers[i].auditTrailId = n}) = 1
  BY <1>2
<1> QED
  BY <1>3, <1>5 DEF BuildsAccountedFor, Told, GateActions

(* Appending leaves what was told of the earlier records.                  *)
LEMMA EarlierKept ==
  ASSUME NEW chain \in Chain, NEW p \in GovernanceRecords
  PROVE  \A a : Told(chain, a) => Told(AppendRecord(chain, p), a)
<1> DEFINE next == AppendRecord(chain, p)
<1>1. /\ Len(next) = Len(chain) + 1 /\ Len(chain) \in Nat
      /\ \A i \in 1 .. Len(chain) : next[i] = chain[i]
  BY Appended DEF Chain
<1> HIDE DEF next
<1>2. ASSUME NEW a, Told(chain, a)
      PROVE  Told(next, a)
  <2>1. CASE a.status \in {"BYPASS_APPROVED", "BLOCKED"}
    <3>1. a.auditTrailId \in 1 .. Len(chain)
      BY <1>2, <2>1 DEF Told
    <3>2. next[a.auditTrailId] = chain[a.auditTrailId]
      BY <1>1, <3>1
    <3> QED
      BY <1>1, <1>2, <2>1, <3>1, <3>2 DEF Told
  <2>2. CASE a.status \notin {"BYPASS_APPROVED", "BLOCKED"}
    BY <1>1, <1>2, <2>2 DEF Told
  <2> QED
    BY <2>1, <2>2
<1> QED
  BY <1>2 DEF next

(* A record that is not the gate's keeps the account.                      *)
LEMMA AppendKeepsAccounts ==
  ASSUME NEW chain, NEW told, Accounts(chain, told), NEW p \in GovernanceRecords,
         p.what \notin GateActions
  PROVE  Accounts(AppendRecord(chain, p), told)
<1> DEFINE next == AppendRecord(chain, p)
<1>0. chain \in Chain /\ Len(chain) \in Nat
  BY DEF Accounts, Chain
<1>1. /\ next \in Chain /\ Len(next) = Len(chain) + 1
      /\ next[Len(chain) + 1].payload = p
      /\ \A i \in 1 .. Len(chain) : next[i] = chain[i]
  BY <1>0, Appended
<1>2. \A i \in 1 .. Len(told) : Told(next, told[i])
  BY <1>0, EarlierKept DEF Accounts
<1> HIDE DEF next
<1>6. ASSUME NEW n \in 1 .. Len(next), next[n].payload.what \in GateActions
      PROVE  \E i \in 1 .. Len(told) : Names(told, n) = {i}
  <2>1. n # Len(chain) + 1
    BY <1>1, <1>6
  <2>2. n \in 1 .. Len(chain) /\ next[n] = chain[n]
    BY <1>0, <1>1, <2>1
  <2> QED
    BY <1>6, <2>2 DEF Accounts
<1>7. Accounts(next, told)
  BY <1>1, <1>2, <1>6 DEF Accounts
<1> QED
  BY <1>7 DEF next

(* A build that passes is answered without a record.                       *)
LEMMA PassKeepsAccounts ==
  ASSUME NEW chain, NEW told, Accounts(chain, told), NEW b \in Build, ~Violates(b)
  PROVE  Accounts(chain, Append(told, [build |-> b, status |-> "PASSED", auditTrailId |-> 0]))
<1> DEFINE a == [build |-> b, status |-> "PASSED", auditTrailId |-> 0]
           next == Append(told, a)
<1>1. a \in Answer /\ Told(chain, a) /\ a.auditTrailId = 0
  BY DEF Answer, Told
<1> HIDE DEF a
<1>2. /\ next \in Seq(Answer) /\ Len(next) = Len(told) + 1 /\ Len(told) \in Nat
      /\ next[Len(told) + 1] = a
      /\ \A i \in 1 .. Len(told) : next[i] = told[i]
  BY <1>1 DEF Accounts
<1> HIDE DEF next
<1>3. \A n \in 1 .. Len(chain) : Names(next, n) = Names(told, n)
  BY <1>1, <1>2 DEF Names
<1>4. \A i \in 1 .. Len(next) : Told(chain, next[i])
  BY <1>1, <1>2 DEF Accounts
<1>5. Accounts(chain, next)
  <2>1. ASSUME NEW n \in 1 .. Len(chain), chain[n].payload.what \in GateActions
        PROVE  \E i \in 1 .. Len(next) : Names(next, n) = {i}
    <3>1. PICK i \in 1 .. Len(told) : Names(told, n) = {i}
      BY <2>1 DEF Accounts
    <3> QED
      BY <1>2, <1>3, <3>1
  <2> QED
    BY <1>2, <1>4, <2>1 DEF Accounts
<1> QED
  BY <1>5 DEF next, a

(* A build that does not pass is answered with the record just appended.   *)
LEMMA RecordKeepsAccounts ==
  ASSUME NEW chain, NEW told, Accounts(chain, told), NEW p \in GovernanceRecords,
         p.what \in GateActions, NEW b \in Build, Violates(b),
         NEW status \in {"BLOCKED", "BYPASS_APPROVED"},
         status = "BLOCKED" => p.result = "DENIED",
         status = "BYPASS_APPROVED" =>
           p.who # Nobody /\ p.why # NoTicket /\ p.result = "SUCCESS"
  PROVE  Accounts(AppendRecord(chain, p),
                  Append(told, [build |-> b, status |-> status, auditTrailId |-> Len(chain) + 1]))
<1> DEFINE a == [build |-> b, status |-> status, auditTrailId |-> Len(chain) + 1]
           longer == AppendRecord(chain, p)
           next == Append(told, a)
<1>0. chain \in Chain /\ Len(chain) \in Nat
  BY DEF Accounts, Chain
<1>1. a \in Answer /\ a.build = b /\ a.status = status /\ a.auditTrailId = Len(chain) + 1
  BY <1>0 DEF Answer
<1> HIDE DEF a
<1>2. /\ next \in Seq(Answer) /\ Len(next) = Len(told) + 1 /\ Len(told) \in Nat
      /\ next[Len(told) + 1] = a
      /\ \A i \in 1 .. Len(told) : next[i] = told[i]
  BY <1>1 DEF Accounts
<1> HIDE DEF next
<1>3. /\ longer \in Chain /\ Len(longer) = Len(chain) + 1
      /\ longer[Len(chain) + 1].payload = p
      /\ \A i \in 1 .. Len(chain) : longer[i] = chain[i]
  BY <1>0, Appended
<1>4. \A i \in 1 .. Len(told) : Told(longer, told[i])
  BY <1>0, EarlierKept DEF Accounts
<1> HIDE DEF longer
<1>5. Told(longer, a)
  BY <1>0, <1>1, <1>3 DEF Told
<1>6. \A i \in 1 .. Len(next) : Told(longer, next[i])
  BY <1>2, <1>4, <1>5
<1>9. ASSUME NEW n \in 1 .. Len(longer), longer[n].payload.what \in GateActions
      PROVE  \E i \in 1 .. Len(next) : Names(next, n) = {i}
  <2>1. \A i \in 1 .. Len(told) : told[i].auditTrailId \in 0 .. Len(chain)
    <3>1. ASSUME NEW i \in 1 .. Len(told)
          PROVE  told[i].auditTrailId \in 0 .. Len(chain)
      <4>1. Told(chain, told[i])
        BY DEF Accounts
      <4> QED
        BY <1>0, <4>1 DEF Told
    <3> QED
      BY <3>1
  <2>2. CASE n = Len(chain) + 1
    <3>1. \A i \in 1 .. Len(told) : told[i].auditTrailId # n
      BY <1>0, <2>1, <2>2
    <3>2. Names(next, n) = {Len(told) + 1}
      BY <1>1, <1>2, <2>2, <3>1 DEF Names
    <3> QED
      BY <1>2, <3>2
  <2>3. CASE n # Len(chain) + 1
    <3>1. n \in 1 .. Len(chain) /\ longer[n] = chain[n]
      BY <1>0, <1>3, <2>3
    <3>2. PICK i \in 1 .. Len(told) : Names(told, n) = {i}
      BY <1>9, <3>1 DEF Accounts
    <3>3. Names(next, n) = Names(told, n)
      BY <1>1, <1>2, <2>3 DEF Names
    <3> QED
      BY <1>2, <3>2, <3>3
  <2> QED
    BY <2>2, <2>3
<1>10. Accounts(longer, next)
  BY <1>2, <1>3, <1>6, <1>9 DEF Accounts
<1> QED
  BY <1>10 DEF longer, next, a

(* What recordAudit appends is not the gate's.                             *)
LEMMA RecordAuditKeepsAccounts ==
  ASSUME NEW chain, NEW told, Accounts(chain, told), NEW q \in GovernanceRecords,
         q.what \notin GateActions, RecordAudit(chain, q)
  PROVE  Accounts(trail', told)
BY RecordAuditTrail, AppendKeepsAccounts

(* The records of the commands are among those of the trail.               *)
LEMMA CommandRecords ==
  ASSUME NEW c \in Caller,
         NEW name \in CommandName
  PROVE  /\ CommandRecord(c, name) \in GovernanceRecords
         /\ CommandRecord(c, name).what = "soc.agent.command"
         /\ CommandRecord(c, name).why = name
<1>1. CommandRecord(c, name) \in GovernanceRecords
  BY DEF GovernanceRecords
<1>2. CommandRecord(c, name).what = "soc.agent.command" /\ CommandRecord(c, name).why = name
  BY DEF CommandRecord
<1> QED
  BY <1>1, <1>2

(* What the steps do to the trail and to the answers.                      *)
LEMMA AccountsStep ==
  ASSUME AccountsInv, GovernanceNext
  PROVE  AccountsInv'
<1> USE DEF AccountsInv
<1>0. trail \in Chain
  BY DEF Accounts
<1>1. CASE UNCHANGED <<trail, answers>>
  BY <1>1
<1>2. /\ SyncRecord \in GovernanceRecords /\ SyncRecord.what \notin GateActions
      /\ \A f \in Framework :
           /\ CertificationRecord(f) \in GovernanceRecords
           /\ CertificationRecord(f).what \notin GateActions
  BY DEF GovernanceRecords, SyncRecord, CertificationRecord, GateActions
<1>3. ASSUME SyncPosture, UNCHANGED answers
      PROVE  AccountsInv'
  <2>1. Accounts(AppendRecord(trail, SyncRecord), answers)
    BY <1>2, AppendKeepsAccounts
  <2> QED
    BY <1>3, <2>1 DEF SyncPosture
<1>4. ASSUME NEW f \in Framework, Certify(f), UNCHANGED answers
      PROVE  AccountsInv'
  <2>1. Accounts(AppendRecord(trail, CertificationRecord(f)), answers)
    BY <1>2, AppendKeepsAccounts
  <2> QED
    BY <1>4, <2>1 DEF Certify
<1>5. ASSUME NEW chain, Accounts(chain, answers), NEW c \in Caller, NEW name \in CommandName,
             RecordAudit(chain, CommandRecord(c, name)), UNCHANGED answers
      PROVE  AccountsInv'
  <2>1. CommandRecord(c, name) \in GovernanceRecords /\ CommandRecord(c, name).what \notin GateActions
    BY CommandRecords DEF GateActions
  <2>2. Accounts(trail', answers)
    BY <1>5, <2>1, RecordAuditKeepsAccounts
  <2> QED
    BY <1>5, <2>2
<1>6. ASSUME NEW c \in Caller, Command(c), UNCHANGED answers
      PROVE  AccountsInv'
  <2>1. CASE CommandPostureSync(c)
    <3>1. Accounts(AppendRecord(trail, SyncRecord), answers)
      BY <1>2, AppendKeepsAccounts
    <3> QED
      BY <1>5, <1>6, <2>1, <3>1 DEF CommandPostureSync, CommandName
  <2>2. ASSUME NEW f \in Framework, CommandCertify(c, f)
        PROVE  AccountsInv'
    <3>1. Accounts(AppendRecord(trail, CertificationRecord(f)), answers)
      BY <1>2, AppendKeepsAccounts
    <3> QED
      BY <1>5, <1>6, <2>2, <3>1 DEF CommandCertify, CommandName
  <2>3. ASSUME NEW name \in {"TRIAGE_ALERT", "FORENSIC_RCA"}, CommandOnAlert(c, name)
        PROVE  AccountsInv'
    BY <1>5, <1>6, <2>3 DEF CommandOnAlert, CommandName
  <2> QED
    BY <1>6, <2>1, <2>2, <2>3 DEF Command
<1>7. ASSUME NEW b \in Build, EvaluateBuildGate(b)
      PROVE  AccountsInv'
  <2>1. CASE ~Violates(b)
    BY <1>7, <2>1, PassKeepsAccounts DEF EvaluateBuildGate
  <2>2. CASE Violates(b) /\ BypassGranted(b.bypass)
    <3> DEFINE p == BypassRecord(b)
    <3>1. /\ p \in GovernanceRecords /\ p.what \in GateActions
          /\ p.who # Nobody /\ p.why # NoTicket /\ p.result = "SUCCESS"
      BY <2>2 DEF GovernanceRecords, BypassRecord, GateActions, BypassGranted
    <3> HIDE DEF p
    <3>2. Accounts(AppendRecord(trail, p),
                   Append(answers, [build |-> b, status |-> "BYPASS_APPROVED",
                                    auditTrailId |-> Len(trail) + 1]))
      BY <2>2, <3>1, RecordKeepsAccounts
    <3> QED
      BY <1>7, <2>2, <3>2 DEF EvaluateBuildGate, AnswerOnRecord, p
  <2>3. CASE Violates(b) /\ ~BypassGranted(b.bypass)
    <3> DEFINE p == BlockedRecord
    <3>1. p \in GovernanceRecords /\ p.what \in GateActions /\ p.result = "DENIED"
      BY DEF GovernanceRecords, BlockedRecord, GateActions
    <3> HIDE DEF p
    <3>2. Accounts(AppendRecord(trail, p),
                   Append(answers, [build |-> b, status |-> "BLOCKED",
                                    auditTrailId |-> Len(trail) + 1]))
      BY <2>3, <3>1, RecordKeepsAccounts
    <3> QED
      BY <1>7, <2>3, <3>2 DEF EvaluateBuildGate, AnswerOnRecord, p
  <2> QED
    BY <2>1, <2>2, <2>3
<1>8. CASE RefuseCommand
  BY <1>1, <1>8 DEF RefuseCommand, governanceVars
<1> QED
  BY <1>1, <1>3, <1>4, <1>6, <1>7, <1>8 DEF GovernanceNext

(* The account is kept by every step of the services.                      *)
THEOREM AccountsInvariant == Spec => []AccountsInv
<1>1. Init => AccountsInv
  BY EmptyChainVerifies DEF Init, GovernanceInit, AccountsInv, Accounts
<1>2. AccountsInv /\ [Next]_vars => AccountsInv'
  <2> SUFFICES ASSUME AccountsInv, [Next]_vars
               PROVE  AccountsInv'
    OBVIOUS
  <2>1. UNCHANGED governanceVars \/ GovernanceNext
    BY DEF Next, vars, UseRotation, UseKms, UseTenants, UseFeed, UseGovernance, Tick
  <2>2. CASE UNCHANGED governanceVars
    BY <2>2 DEF governanceVars, AccountsInv
  <2> QED
    BY <2>1, <2>2, AccountsStep
<1> QED
  BY <1>1, <1>2, PTL DEF Spec

-----------------------------------------------------------------------------
(* The commands                                                            *)

(* One entry more is counted once where it is among the given.             *)
LEMMA TimesOfAppend ==
  ASSUME NEW T, NEW s \in Seq(T), NEW p \in T, NEW given
  PROVE  /\ Times(s, given) \in Nat
         /\ p \in given => Times(Append(s, p), given) = Times(s, given) + 1
         /\ p \notin given => Times(Append(s, p), given) = Times(s, given)
<1> DEFINE next == Append(s, p)
           n == Len(s) + 1
           before == {k \in DOMAIN s : s[k] \in given}
           after == {k \in DOMAIN next : next[k] \in given}
<1>1. /\ Len(s) \in Nat /\ DOMAIN s = 1 .. Len(s) /\ DOMAIN next = 1 .. n
      /\ next[n] = p /\ \A k \in 1 .. Len(s) : next[k] = s[k]
  OBVIOUS
<1> HIDE DEF next
<1>2. IsFiniteSet(before) /\ Cardinality(before) \in Nat /\ n \notin before
  <2>1. IsFiniteSet(1 .. Len(s))
    BY <1>1, FS_Interval
  <2>2. before \subseteq 1 .. Len(s) /\ n \notin 1 .. Len(s)
    BY <1>1
  <2> QED
    BY <2>1, <2>2, FS_Subset, FS_CardinalityType
<1>3. p \in given => after = before \union {n}
  BY <1>1
<1>4. p \notin given => after = before
  BY <1>1
<1>5. Cardinality(before \union {n}) = Cardinality(before) + 1
  BY <1>2, FS_AddElement
<1>6. Times(s, given) = Cardinality(before) /\ Times(next, given) = Cardinality(after)
  BY DEF Times
<1> HIDE DEF before, after, n
<1> QED
  BY <1>2, <1>3, <1>4, <1>5, <1>6 DEF next

(* The entries of a chain with one record more.                            *)
LEMMA EntriesOfAppend ==
  ASSUME NEW chain \in Chain, NEW p \in Payload
  PROVE  /\ Entries(chain) \in Seq(Payload)
         /\ AppendRecord(chain, p) \in Chain
         /\ Entries(AppendRecord(chain, p)) = Append(Entries(chain), p)
<1>1. ASSUME NEW c \in Chain
      PROVE  /\ Len(c) \in Nat /\ DOMAIN c = 1 .. Len(c)
             /\ Entries(c) \in Seq(Payload) /\ Len(Entries(c)) = Len(c)
             /\ \A k \in 1 .. Len(c) : Entries(c)[k] = c[k].payload
  <2>1. /\ Len(c) \in Nat /\ DOMAIN c = 1 .. Len(c)
        /\ \A k \in 1 .. Len(c) : c[k] \in AuditRecord
    BY DEF Chain
  <2>2. \A r \in AuditRecord : r.payload \in Payload
    BY DEF AuditRecord
  <2>3. Entries(c) = [k \in 1 .. Len(c) |-> c[k].payload]
    BY <2>1 DEF Entries
  <2> QED
    BY <2>1, <2>2, <2>3
<1> DEFINE next == AppendRecord(chain, p)
           longer == Append(Entries(chain), p)
<1>2. /\ next \in Chain /\ Len(next) = Len(chain) + 1
      /\ next[Len(chain) + 1].payload = p
      /\ \A k \in 1 .. Len(chain) : next[k] = chain[k]
  <2>1. NextRecord(chain, p).payload = p
    BY DEF NextRecord
  <2> QED
    BY <2>1, AppendRecordType
<1>3. /\ longer \in Seq(Payload) /\ Len(longer) = Len(chain) + 1
      /\ longer[Len(chain) + 1] = p
      /\ \A k \in 1 .. Len(chain) : longer[k] = chain[k].payload
  BY <1>1
<1> HIDE DEF next, longer
<1>4. /\ Entries(next) \in Seq(Payload) /\ Len(Entries(next)) = Len(longer)
      /\ \A k \in 1 .. Len(longer) : longer[k] = Entries(next)[k]
  <2>1. ASSUME NEW k \in 1 .. Len(chain) + 1
        PROVE  longer[k] = next[k].payload
    <3>1. Len(chain) \in Nat
      BY <1>1
    <3>2. k \in 1 .. Len(chain) \/ k = Len(chain) + 1
      BY <3>1
    <3> QED
      BY <1>2, <1>3, <3>2
  <2> QED
    BY <1>1, <1>2, <1>3, <2>1
<1>5. longer = Entries(next)
  BY <1>3, <1>4, SeqEqual
<1> QED
  BY <1>1, <1>2, <1>5 DEF next, longer

(* The account of the commands, of the entries of the two chains and of    *)
(* the confirmed commands.                                                 *)
Balanced(entries, own, told) ==
  /\ \A c \in Caller, name \in CommandName :
       Times(told, {CommandRecord(c, name)})
         <= Times(entries, {CommandRecord(c, name)}) + Times(own, {CommandRecord(c, name)})
  /\ Times(entries, CommandsBy("POSTURE_SYNC")) + Times(own, CommandsBy("POSTURE_SYNC"))
       <= Times(entries, {SyncRecord})
  /\ Times(entries, CommandsBy("CERTIFY")) + Times(own, CommandsBy("CERTIFY"))
       <= Times(entries, CertificationRecords)

(* A sync and a certification that no command is on record for yet.        *)
SyncToSpare(entries, own) ==
  Times(entries, CommandsBy("POSTURE_SYNC")) + Times(own, CommandsBy("POSTURE_SYNC"))
    < Times(entries, {SyncRecord})

CertificationToSpare(entries, own) ==
  Times(entries, CommandsBy("CERTIFY")) + Times(own, CommandsBy("CERTIFY"))
    < Times(entries, CertificationRecords)

(* Which of the counted sets a record is in.                               *)
LEMMA RecordsApart ==
  /\ \A p \in Payload : p.what # "soc.agent.command" =>
       /\ \A c \in Caller, name \in CommandName : p # CommandRecord(c, name)
       /\ p \notin CommandsBy("POSTURE_SYNC") /\ p \notin CommandsBy("CERTIFY")
  /\ \A c \in Caller, name \in CommandName :
       /\ CommandRecord(c, name) # SyncRecord
       /\ CommandRecord(c, name) \notin CertificationRecords
       /\ CommandRecord(c, name) \in CommandsBy("POSTURE_SYNC") => name = "POSTURE_SYNC"
       /\ CommandRecord(c, name) \in CommandsBy("CERTIFY") => name = "CERTIFY"
       /\ CommandRecord(c, name) \in Payload
<1>1. \A c \in Caller, name \in CommandName :
        /\ CommandRecord(c, name).what = "soc.agent.command"
        /\ CommandRecord(c, name).why = name
        /\ CommandRecord(c, name) \in Payload
  BY CommandRecords, GovernanceRecordsAssumption
<1>2. /\ SyncRecord.what # "soc.agent.command"
      /\ \A f \in Framework : CertificationRecord(f).what # "soc.agent.command"
  BY DEF SyncRecord, CertificationRecord
<1>3. "POSTURE_SYNC" \in CommandName /\ "CERTIFY" \in CommandName
  BY DEF CommandName
<1>4. ASSUME NEW c \in Caller, NEW name \in CommandName
      PROVE  /\ CommandRecord(c, name) # SyncRecord
             /\ CommandRecord(c, name) \notin CertificationRecords
  BY <1>1, <1>2, Zenon DEF CertificationRecords
<1>5. ASSUME NEW name \in CommandName, NEW p \in CommandsBy(name)
      PROVE  p.what = "soc.agent.command" /\ p.why = name
  BY <1>1, <1>5, Zenon DEF CommandsBy
<1>6. ASSUME NEW p \in Payload, p.what # "soc.agent.command"
      PROVE  /\ \A c \in Caller, name \in CommandName : p # CommandRecord(c, name)
             /\ p \notin CommandsBy("POSTURE_SYNC") /\ p \notin CommandsBy("CERTIFY")
  BY <1>1, <1>3, <1>5, <1>6, Zenon
<1>7. ASSUME NEW c \in Caller, NEW name \in CommandName
      PROVE  /\ CommandRecord(c, name) \in CommandsBy("POSTURE_SYNC") => name = "POSTURE_SYNC"
             /\ CommandRecord(c, name) \in CommandsBy("CERTIFY") => name = "CERTIFY"
  <2>1. CommandRecord(c, name).why = name
    BY <1>1
  <2> QED
    BY <1>3, <1>5, <2>1, Zenon
<1> QED
  BY <1>1, <1>4, <1>6, <1>7, Zenon

(* What a service records by itself keeps the balance, and a sync or a      *)
(* certification leaves one to spare.                                      *)
LEMMA ServiceKeepsBalance ==
  ASSUME NEW e \in Seq(Payload), NEW l \in Seq(Payload), NEW t \in Seq(Payload),
         Balanced(e, l, t), NEW p \in Payload, p.what # "soc.agent.command"
  PROVE  /\ Balanced(Append(e, p), l, t)
         /\ p = SyncRecord => SyncToSpare(Append(e, p), l)
         /\ p \in CertificationRecords => CertificationToSpare(Append(e, p), l)
<1> DEFINE syncs == CommandsBy("POSTURE_SYNC")
           certs == CommandsBy("CERTIFY")
<1>1. /\ \A c \in Caller, name \in CommandName : p \notin {CommandRecord(c, name)}
      /\ p \notin syncs /\ p \notin certs
  BY RecordsApart
<1>2. ASSUME NEW given
      PROVE  /\ Times(e, given) \in Nat
             /\ p \in given => Times(Append(e, p), given) = Times(e, given) + 1
             /\ p \notin given => Times(Append(e, p), given) = Times(e, given)
  BY TimesOfAppend
<1>3. \A given : Times(l, given) \in Nat
  BY TimesOfAppend
<1> HIDE DEF syncs, certs
<1>4. /\ Times(Append(e, p), syncs) = Times(e, syncs)
      /\ Times(Append(e, p), certs) = Times(e, certs)
      /\ Times(e, syncs) \in Nat /\ Times(e, certs) \in Nat
      /\ Times(l, syncs) \in Nat /\ Times(l, certs) \in Nat
  BY <1>1, <1>2, <1>3
<1>5. /\ Times(e, {SyncRecord}) \in Nat /\ Times(e, CertificationRecords) \in Nat
      /\ Times(Append(e, p), {SyncRecord}) >= Times(e, {SyncRecord})
      /\ Times(Append(e, p), CertificationRecords) >= Times(e, CertificationRecords)
      /\ Times(Append(e, p), {SyncRecord}) \in Nat
      /\ Times(Append(e, p), CertificationRecords) \in Nat
      /\ p = SyncRecord => Times(Append(e, p), {SyncRecord}) = Times(e, {SyncRecord}) + 1
      /\ p \in CertificationRecords =>
           Times(Append(e, p), CertificationRecords) = Times(e, CertificationRecords) + 1
  <2>1. ASSUME NEW given
        PROVE  /\ Times(e, given) \in Nat /\ Times(Append(e, p), given) \in Nat
               /\ Times(Append(e, p), given) >= Times(e, given)
    BY <1>2
  <2>2. p = SyncRecord => p \in {SyncRecord}
    OBVIOUS
  <2> QED
    BY <1>2, <2>1, <2>2
<1>6. /\ Times(e, syncs) + Times(l, syncs) <= Times(e, {SyncRecord})
      /\ Times(e, certs) + Times(l, certs) <= Times(e, CertificationRecords)
  BY DEF Balanced, syncs, certs
<1>7. Balanced(Append(e, p), l, t)
  <2>1. \A c \in Caller, name \in CommandName :
          Times(Append(e, p), {CommandRecord(c, name)}) = Times(e, {CommandRecord(c, name)})
    BY <1>1, <1>2
  <2>2. /\ Times(Append(e, p), syncs) + Times(l, syncs) <= Times(Append(e, p), {SyncRecord})
        /\ Times(Append(e, p), certs) + Times(l, certs) <= Times(Append(e, p), CertificationRecords)
    BY <1>4, <1>5, <1>6
  <2> QED
    BY <2>1, <2>2, Zenon DEF Balanced, syncs, certs
<1>8. p = SyncRecord => SyncToSpare(Append(e, p), l)
  BY <1>4, <1>5, <1>6 DEF SyncToSpare, syncs
<1>9. p \in CertificationRecords => CertificationToSpare(Append(e, p), l)
  BY <1>4, <1>5, <1>6 DEF CertificationToSpare, certs
<1> QED
  BY <1>7, <1>8, <1>9

(* A command's record keeps the balance, in either chain and confirmed or  *)
(* not, if a sync or a certification was left to spare for it.             *)
LEMMA CommandKeepsBalance ==
  ASSUME NEW e \in Seq(Payload), NEW l \in Seq(Payload), NEW t \in Seq(Payload),
         Balanced(e, l, t), NEW c \in Caller, NEW name \in CommandName,
         name = "POSTURE_SYNC" => SyncToSpare(e, l),
         name = "CERTIFY" => CertificationToSpare(e, l),
         NEW q, q = CommandRecord(c, name)
  PROVE  /\ Balanced(Append(e, q), l, t) /\ Balanced(Append(e, q), l, Append(t, q))
         /\ Balanced(e, Append(l, q), t) /\ Balanced(e, Append(l, q), Append(t, q))
<1> DEFINE syncs == CommandsBy("POSTURE_SYNC")
           certs == CommandsBy("CERTIFY")
<1>1. /\ q \in Payload /\ q \notin {SyncRecord} /\ q \notin CertificationRecords
      /\ q \in syncs => SyncToSpare(e, l)
      /\ q \in certs => CertificationToSpare(e, l)
  BY RecordsApart
<1>2. ASSUME NEW s \in Seq(Payload), NEW given
      PROVE  /\ Times(s, given) \in Nat
             /\ q \in given => Times(Append(s, q), given) = Times(s, given) + 1
             /\ q \notin given => Times(Append(s, q), given) = Times(s, given)
  BY <1>1, TimesOfAppend
<1> HIDE DEF syncs, certs
<1>3. ASSUME NEW d \in Caller, NEW other \in CommandName
      PROVE  LET given == {CommandRecord(d, other)}
             IN  /\ Times(t, given) <= Times(Append(e, q), given) + Times(l, given)
                 /\ Times(Append(t, q), given) <= Times(Append(e, q), given) + Times(l, given)
                 /\ Times(t, given) <= Times(e, given) + Times(Append(l, q), given)
                 /\ Times(Append(t, q), given) <= Times(e, given) + Times(Append(l, q), given)
  <2> DEFINE given == {CommandRecord(d, other)}
  <2>1. Times(t, given) <= Times(e, given) + Times(l, given)
    BY DEF Balanced
  <2> HIDE DEF given
  <2>2. /\ Times(e, given) \in Nat /\ Times(l, given) \in Nat /\ Times(t, given) \in Nat
    BY <1>2
  <2>3. CASE q \in given
    <3>1. /\ Times(Append(e, q), given) = Times(e, given) + 1
          /\ Times(Append(l, q), given) = Times(l, given) + 1
          /\ Times(Append(t, q), given) = Times(t, given) + 1
      BY <1>2, <2>3
    <3> QED
      BY <2>1, <2>2, <3>1 DEF given
  <2>4. CASE q \notin given
    <3>1. /\ Times(Append(e, q), given) = Times(e, given)
          /\ Times(Append(l, q), given) = Times(l, given)
          /\ Times(Append(t, q), given) = Times(t, given)
      BY <1>2, <2>4
    <3> QED
      BY <2>1, <2>2, <3>1 DEF given
  <2> QED
    BY <2>3, <2>4
<1>4. /\ Times(Append(e, q), syncs) + Times(l, syncs) <= Times(Append(e, q), {SyncRecord})
      /\ Times(e, syncs) + Times(Append(l, q), syncs) <= Times(e, {SyncRecord})
  <2>1. /\ Times(e, syncs) \in Nat /\ Times(l, syncs) \in Nat /\ Times(e, {SyncRecord}) \in Nat
        /\ Times(Append(e, q), {SyncRecord}) = Times(e, {SyncRecord})
    BY <1>1, <1>2
  <2>2. Times(e, syncs) + Times(l, syncs) <= Times(e, {SyncRecord})
    BY DEF Balanced, syncs
  <2>3. CASE q \in syncs
    <3>1. Times(e, syncs) + Times(l, syncs) < Times(e, {SyncRecord})
      BY <1>1, <2>3 DEF SyncToSpare, syncs
    <3>2. /\ Times(Append(e, q), syncs) = Times(e, syncs) + 1
          /\ Times(Append(l, q), syncs) = Times(l, syncs) + 1
      BY <1>2, <2>3
    <3> QED
      BY <2>1, <3>1, <3>2
  <2>4. CASE q \notin syncs
    <3>1. /\ Times(Append(e, q), syncs) = Times(e, syncs)
          /\ Times(Append(l, q), syncs) = Times(l, syncs)
      BY <1>2, <2>4
    <3> QED
      BY <2>1, <2>2, <3>1
  <2> QED
    BY <2>3, <2>4
<1>5. /\ Times(Append(e, q), certs) + Times(l, certs) <= Times(Append(e, q), CertificationRecords)
      /\ Times(e, certs) + Times(Append(l, q), certs) <= Times(e, CertificationRecords)
  <2>1. /\ Times(e, certs) \in Nat /\ Times(l, certs) \in Nat
        /\ Times(e, CertificationRecords) \in Nat
        /\ Times(Append(e, q), CertificationRecords) = Times(e, CertificationRecords)
    BY <1>1, <1>2
  <2>2. Times(e, certs) + Times(l, certs) <= Times(e, CertificationRecords)
    BY DEF Balanced, certs
  <2>3. CASE q \in certs
    <3>1. Times(e, certs) + Times(l, certs) < Times(e, CertificationRecords)
      BY <1>1, <2>3 DEF CertificationToSpare, certs
    <3>2. /\ Times(Append(e, q), certs) = Times(e, certs) + 1
          /\ Times(Append(l, q), certs) = Times(l, certs) + 1
      BY <1>2, <2>3
    <3> QED
      BY <2>1, <3>1, <3>2
  <2>4. CASE q \notin certs
    <3>1. /\ Times(Append(e, q), certs) = Times(e, certs)
          /\ Times(Append(l, q), certs) = Times(l, certs)
      BY <1>2, <2>4
    <3> QED
      BY <2>1, <2>2, <3>1
  <2> QED
    BY <2>3, <2>4
<1> QED
  BY <1>3, <1>4, <1>5, Zenon DEF Balanced, syncs, certs

(* What was recorded of a chain stays recorded when it grows.              *)
LEMMA RecordedOfAppend ==
  ASSUME NEW chain \in Chain, NEW p \in Payload
  PROVE  Range(Entries(AppendRecord(chain, p))) = Range(Entries(chain)) \union {p}
<1> DEFINE e == Entries(chain)
<1>1. e \in Seq(Payload) /\ Entries(AppendRecord(chain, p)) = Append(e, p)
  BY EntriesOfAppend
<1> HIDE DEF e
<1>2. /\ DOMAIN Append(e, p) = DOMAIN e \union {Len(e) + 1}
      /\ Append(e, p)[Len(e) + 1] = p
      /\ \A k \in DOMAIN e : Append(e, p)[k] = e[k]
  BY <1>1
<1>3. Range(Append(e, p)) = Range(e) \union {p}
  BY <1>2 DEF Range
<1> QED
  BY <1>1, <1>3 DEF e

RecordsTypeOK ==
  /\ recorder \in {"trail", "ledger", "unopened"}
  /\ ledger \in Seq(Payload)
  /\ confirmed \in Seq(Payload)

(* A shared baseline is in force only behind a record of the sync.         *)
SharedOnRecord(entries) ==
  (\E e \in Entity : "shared" \in Range(activeDefenses[e])) => SyncRecord \in Range(entries)

(* The invariant of the commands, beside that the trail is a chain.        *)
CommandsInv ==
  /\ RecordsTypeOK
  /\ Balanced(Entries(trail), ledger, confirmed)
  /\ SharedOnRecord(Entries(trail))

(* It is what the run checks of the commands.                              *)
LEMMA CommandsSuffice ==
  ASSUME CommandsInv
  PROVE  CommandsAccountedFor
BY DEF CommandsInv, Balanced, SharedOnRecord, CommandsAccountedFor, OnRecord

(* A record of a service on the trail, of whatever the trail held before.  *)
LEMMA ServiceRecord ==
  ASSUME NEW chain \in Chain, RecordsTypeOK, Balanced(Entries(chain), ledger, confirmed),
         NEW p \in Payload, p.what # "soc.agent.command"
  PROVE  LET next == AppendRecord(chain, p)
         IN  /\ next \in Chain
             /\ Balanced(Entries(next), ledger, confirmed)
             /\ p = SyncRecord => SyncToSpare(Entries(next), ledger)
             /\ p \in CertificationRecords => CertificationToSpare(Entries(next), ledger)
             /\ Range(Entries(next)) = Range(Entries(chain)) \union {p}
<1> DEFINE next == AppendRecord(chain, p)
           e == Entries(chain)
<1>1. e \in Seq(Payload) /\ next \in Chain /\ Entries(next) = Append(e, p)
  BY EntriesOfAppend
<1>2. Range(Entries(next)) = Range(e) \union {p}
  BY RecordedOfAppend
<1>3. ledger \in Seq(Payload) /\ confirmed \in Seq(Payload)
  BY DEF RecordsTypeOK
<1> HIDE DEF next, e
<1>4. Balanced(e, ledger, confirmed)
  BY DEF e
<1>5. /\ Balanced(Append(e, p), ledger, confirmed)
      /\ p = SyncRecord => SyncToSpare(Append(e, p), ledger)
      /\ p \in CertificationRecords => CertificationToSpare(Append(e, p), ledger)
  BY <1>1, <1>3, <1>4, ServiceKeepsBalance
<1> QED
  BY <1>1, <1>2, <1>5 DEF next, e

(* recordAudit keeps the account however it ends: with an error, with a    *)
(* record on the trail or in the ledger, confirmed or not.                 *)
LEMMA CommandRecorded ==
  ASSUME NEW chain \in Chain, RecordsTypeOK, Balanced(Entries(chain), ledger, confirmed),
         NEW c \in Caller, NEW name \in CommandName,
         name = "POSTURE_SYNC" => SyncToSpare(Entries(chain), ledger),
         name = "CERTIFY" => CertificationToSpare(Entries(chain), ledger),
         RecordAudit(chain, CommandRecord(c, name))
  PROVE  /\ RecordsTypeOK'
         /\ Balanced(Entries(trail'), ledger', confirmed')
         /\ Range(Entries(chain)) \subseteq Range(Entries(trail'))
<1> DEFINE q == CommandRecord(c, name)
           e == Entries(chain)
           next == AppendRecord(chain, q)
<1>1. q \in Payload
  BY RecordsApart
<1>2. ledger \in Seq(Payload) /\ confirmed \in Seq(Payload)
  BY DEF RecordsTypeOK
<1>3. e \in Seq(Payload) /\ Entries(next) = Append(e, q)
  BY <1>1, EntriesOfAppend
<1>4. Range(Entries(next)) = Range(e) \union {q}
  BY <1>1, RecordedOfAppend
<1>5. /\ Balanced(Append(e, q), ledger, confirmed)
      /\ Balanced(Append(e, q), ledger, Append(confirmed, q))
      /\ Balanced(e, Append(ledger, q), confirmed)
      /\ Balanced(e, Append(ledger, q), Append(confirmed, q))
  BY <1>2, <1>3, CommandKeepsBalance
<1>6. Append(ledger, q) \in Seq(Payload) /\ Append(confirmed, q) \in Seq(Payload)
  BY <1>1, <1>2
<1>7. RecordAudit(chain, q) /\ Balanced(e, ledger, confirmed)
  OBVIOUS
<1> HIDE DEF q, e
<1>8. CASE trail' = chain /\ UNCHANGED recordVars
  BY <1>7, <1>8 DEF RecordsTypeOK, recordVars, e
<1>9. ASSUME NEW where \in Recorder, AppendedBy(where, chain, q),
             confirmed' \in {confirmed, Append(confirmed, q)}
      PROVE  /\ RecordsTypeOK'
             /\ Balanced(Entries(trail'), ledger', confirmed')
             /\ Range(e) \subseteq Range(Entries(trail'))
  <2>1. where \in {"trail", "ledger"}
    BY DEF Recorder, RecordsTypeOK
  <2>2. RecordsTypeOK'
    BY <1>2, <1>6, <1>9, <2>1 DEF AppendedBy, RecordsTypeOK
  <2>3. CASE where = "trail"
    <3>1. Entries(trail') = Append(e, q) /\ ledger' = ledger
      BY <1>3, <1>9, <2>3 DEF AppendedBy
    <3>2. Range(Entries(trail')) = Range(e) \union {q}
      BY <1>4, <1>9, <2>3 DEF AppendedBy
    <3> QED
      BY <1>5, <1>9, <2>2, <3>1, <3>2
  <2>4. CASE where = "ledger"
    <3>1. Entries(trail') = e /\ ledger' = Append(ledger, q)
      BY <1>9, <2>4 DEF AppendedBy, e
    <3> QED
      BY <1>5, <1>9, <2>2, <3>1
  <2> QED
    BY <2>1, <2>3, <2>4
<1> QED
  BY <1>7, <1>8, <1>9 DEF RecordAudit, e

(* What the steps do to the account of the commands.                       *)
LEMMA CommandsStep ==
  ASSUME CommandsInv, trail \in Chain, GovernanceNext
  PROVE  CommandsInv'
<1> USE DEF CommandsInv
<1>1. ASSUME UNCHANGED <<trail, recordVars, activeDefenses>>
      PROVE  CommandsInv'
  BY <1>1 DEF recordVars, RecordsTypeOK, SharedOnRecord
<1>2. /\ SyncRecord \in Payload /\ SyncRecord.what # "soc.agent.command"
      /\ \A f \in Framework :
           /\ CertificationRecord(f) \in Payload /\ CertificationRecord(f) \in CertificationRecords
           /\ CertificationRecord(f).what # "soc.agent.command"
      /\ \A b \in Build : BypassRecord(b) \in Payload /\ BypassRecord(b).what # "soc.agent.command"
      /\ BlockedRecord \in Payload /\ BlockedRecord.what # "soc.agent.command"
  <2>1. GovernanceRecords \subseteq Payload
    BY GovernanceRecordsAssumption
  <2> QED
    BY <2>1 DEF GovernanceRecords, SyncRecord, CertificationRecord, CertificationRecords,
                BypassRecord, BlockedRecord
<1>3. ASSUME NEW p \in Payload, p.what # "soc.agent.command",
             trail' = AppendRecord(trail, p), UNCHANGED recordVars,
             p = SyncRecord \/ UNCHANGED activeDefenses
      PROVE  CommandsInv'
  <2>1. /\ Balanced(Entries(trail'), ledger, confirmed)
        /\ Range(Entries(trail')) = Range(Entries(trail)) \union {p}
    BY <1>3, ServiceRecord
  <2>2. UNCHANGED <<recorder, ledger, confirmed>>
    BY <1>3 DEF recordVars
  <2>3. SharedOnRecord(Entries(trail))'
    BY <1>3, <2>1 DEF SharedOnRecord
  <2> QED
    BY <2>1, <2>2, <2>3 DEF RecordsTypeOK
<1>4. ASSUME SyncPosture
      PROVE  CommandsInv'
  BY <1>2, <1>3, <1>4 DEF SyncPosture
<1>5. ASSUME NEW f \in Framework, Certify(f)
      PROVE  CommandsInv'
  BY <1>2, <1>3, <1>5 DEF Certify, postureVars
<1>6. ASSUME NEW b \in Build, EvaluateBuildGate(b), UNCHANGED <<postureVars, recordVars>>
      PROVE  CommandsInv'
  <2>1. UNCHANGED activeDefenses
    BY <1>6 DEF postureVars
  <2>2. \/ UNCHANGED trail
        \/ trail' = AppendRecord(trail, BypassRecord(b))
        \/ trail' = AppendRecord(trail, BlockedRecord)
    BY <1>6 DEF EvaluateBuildGate, AnswerOnRecord
  <2> QED
    BY <1>1, <1>2, <1>3, <1>6, <2>1, <2>2
<1>7. ASSUME NEW c \in Caller, CommandPostureSync(c)
      PROVE  CommandsInv'
  <2> DEFINE chain == AppendRecord(trail, SyncRecord)
  <2>1. /\ chain \in Chain
        /\ Balanced(Entries(chain), ledger, confirmed)
        /\ SyncToSpare(Entries(chain), ledger)
        /\ SyncRecord \in Range(Entries(chain))
    BY <1>2, ServiceRecord
  <2>2. RecordAudit(chain, CommandRecord(c, "POSTURE_SYNC"))
    BY <1>7 DEF CommandPostureSync
  <2> HIDE DEF chain
  <2>3. /\ RecordsTypeOK'
        /\ Balanced(Entries(trail'), ledger', confirmed')
        /\ Range(Entries(chain)) \subseteq Range(Entries(trail'))
    BY <2>1, <2>2, CommandRecorded DEF CommandName
  <2>4. SharedOnRecord(Entries(trail))'
    BY <2>1, <2>3 DEF SharedOnRecord
  <2> QED
    BY <2>3, <2>4
<1>8. ASSUME NEW c \in Caller, NEW f \in Framework, CommandCertify(c, f)
      PROVE  CommandsInv'
  <2> DEFINE chain == AppendRecord(trail, CertificationRecord(f))
  <2>1. /\ chain \in Chain
        /\ Balanced(Entries(chain), ledger, confirmed)
        /\ CertificationToSpare(Entries(chain), ledger)
        /\ Range(Entries(trail)) \subseteq Range(Entries(chain))
    BY <1>2, ServiceRecord
  <2>2. RecordAudit(chain, CommandRecord(c, "CERTIFY")) /\ UNCHANGED activeDefenses
    BY <1>8 DEF CommandCertify, postureVars
  <2> HIDE DEF chain
  <2>3. /\ RecordsTypeOK'
        /\ Balanced(Entries(trail'), ledger', confirmed')
        /\ Range(Entries(chain)) \subseteq Range(Entries(trail'))
    BY <2>1, <2>2, CommandRecorded DEF CommandName
  <2>4. SharedOnRecord(Entries(trail))'
    BY <2>1, <2>2, <2>3 DEF SharedOnRecord
  <2> QED
    BY <2>3, <2>4
<1>9. ASSUME NEW c \in Caller, NEW name \in {"TRIAGE_ALERT", "FORENSIC_RCA"},
             CommandOnAlert(c, name)
      PROVE  CommandsInv'
  <2>1. RecordAudit(trail, CommandRecord(c, name)) /\ UNCHANGED activeDefenses
    BY <1>9 DEF CommandOnAlert, postureVars
  <2>2. /\ RecordsTypeOK'
        /\ Balanced(Entries(trail'), ledger', confirmed')
        /\ Range(Entries(trail)) \subseteq Range(Entries(trail'))
    BY <2>1, CommandRecorded DEF CommandName
  <2>3. SharedOnRecord(Entries(trail))'
    BY <2>1, <2>2 DEF SharedOnRecord
  <2> QED
    BY <2>2, <2>3
<1>10. ASSUME NEW c \in Caller, Command(c)
       PROVE  CommandsInv'
  BY <1>7, <1>8, <1>9, <1>10 DEF Command
<1>11. CASE /\ (\E e \in Entity : RecordEntityFinding(e)) \/ GetPostureReport
            /\ UNCHANGED <<trail, answers, recordVars>>
  <2>1. UNCHANGED activeDefenses
    BY <1>11 DEF RecordEntityFinding, GetPostureReport
  <2> QED
    BY <1>1, <1>11, <2>1
<1>12. CASE RefuseCommand
  BY <1>1, <1>12 DEF RefuseCommand, governanceVars, postureVars
<1> QED
  BY <1>4, <1>5, <1>6, <1>10, <1>11, <1>12 DEF GovernanceNext

(* The account of the commands is kept, whatever becomes of their records. *)
THEOREM CommandsInvariant == Spec => []CommandsInv
<1>1. Init => CommandsInv
  <2> SUFFICES ASSUME Init
               PROVE  CommandsInv
    OBVIOUS
  <2>1. /\ trail = << >> /\ ledger = << >> /\ confirmed = << >>
        /\ recorder \in {"trail", "ledger", "unopened"}
        /\ activeDefenses = [e \in Entity |-> <<"own">>]
    BY DEF Init, GovernanceInit, PostureInit
  <2>2. RecordsTypeOK
    BY <2>1 DEF RecordsTypeOK
  <2>3. Entries(trail) = << >>
    BY <2>1 DEF Entries
  <2>4. \A given : Times(<< >>, given) = 0
    BY FS_EmptySet DEF Times
  <2>5. Balanced(Entries(trail), ledger, confirmed)
    <3>1. 0 <= 0 + 0
      OBVIOUS
    <3>2. \A given : Times(<< >>, given) <= Times(<< >>, given) + Times(<< >>, given)
      BY <2>4, <3>1
    <3>3. \A some, given : Times(<< >>, some) + Times(<< >>, some) <= Times(<< >>, given)
      BY <2>4
    <3> QED
      BY <2>1, <2>3, <3>2, <3>3 DEF Balanced
  <2>6. SharedOnRecord(Entries(trail))
    <3>1. Range(<<"own">>) = {"own"}
      BY DEF Range
    <3> QED
      BY <2>1, <3>1 DEF SharedOnRecord
  <2> QED
    BY <2>2, <2>5, <2>6 DEF CommandsInv
<1>2. CommandsInv /\ AccountsInv /\ [Next]_vars => CommandsInv'
  <2> SUFFICES ASSUME CommandsInv, AccountsInv, [Next]_vars
               PROVE  CommandsInv'
    OBVIOUS
  <2>1. UNCHANGED governanceVars \/ GovernanceNext
    BY DEF Next, vars, UseRotation, UseKms, UseTenants, UseFeed, UseGovernance, Tick
  <2>2. trail \in Chain
    BY DEF AccountsInv, Accounts
  <2>3. CASE UNCHANGED governanceVars
    BY <2>3 DEF governanceVars, postureVars, recordVars, CommandsInv, RecordsTypeOK, SharedOnRecord
  <2> QED
    BY <2>1, <2>2, <2>3, CommandsStep
<1> QED
  BY <1>1, <1>2, AccountsInvariant, PTL DEF Spec

(* The trail accounts for what was done, for any builds and callers and    *)
(* however long the platform runs.  A failing build is let through in the  *)
(* name of somebody and under a ticket, and an answer and its record come  *)
(* in pairs; a confirmed command has a record of its own in the one chain  *)
(* or the other; and what a command did is on the trail although its own   *)
(* record may be missing.                                                  *)
THEOREM TrailAccountsThroughout == Spec => []TrailAccounts
<1>1. AccountsInv /\ CommandsInv => TrailAccounts
  BY AccountsSuffice, CommandsSuffice DEF TrailAccounts
<1> QED
  BY <1>1, AccountsInvariant, CommandsInvariant, PTL

(* The head hash in a bundle of Compliance Labs pins a record to its place: *)
(* a chain that verifies and holds the hash anywhere holds that very record *)
(* there, at the place the bundle's recordCount names.  A trail rewritten   *)
(* after the export cannot keep the hash and verify.                        *)
THEOREM HeadHashPinsTheRecord ==
  ASSUME NEW chain \in Chain, chain # << >>, VerifyIntegrity(chain),
         NEW later \in Chain, VerifyIntegrity(later),
         NEW f \in Framework, NEW i \in 1 .. Len(later),
         later[i].currentHash = EvidenceBundle(f, chain).headHash
  PROVE  /\ later[i] = chain[Len(chain)]
         /\ i = EvidenceBundle(f, chain).recordCount
<1> DEFINE n == Len(chain)
<1>1. n \in 1 .. Len(chain) /\ n = EvidenceBundle(f, chain).recordCount
  BY DEF Chain, EvidenceBundle
<1>2. EvidenceBundle(f, chain).headHash = chain[n].currentHash
  BY DEF EvidenceBundle
<1>3. /\ LinkHolds(chain, n)
      /\ LinkHolds(later, i)
  BY <1>1 DEF VerifyIntegrity
<1>4. chain[n] \in AuditRecord /\ later[i] \in AuditRecord
  BY <1>1 DEF Chain
<1>5. later[i] = chain[n]
  BY <1>2, <1>3, <1>4, RecordDeterminedByHash DEF LinkHolds
<1>6. later[i].sequence = i /\ chain[n].sequence = n
  BY <1>3 DEF LinkHolds
<1> QED
  BY <1>1, <1>5, <1>6

-----------------------------------------------------------------------------
(* The alerts of GriDD Corp                                                *)

(* The state of every service keeps its type, whatever they are asked and  *)
(* in whatever order.                                                      *)
THEOREM TypeCorrect == Spec => []TypeOK
<1>1. Init => FeedTypeOK
  BY DEF Init, FeedInit, FeedTypeOK
<1>2. FeedTypeOK /\ [Next]_vars => FeedTypeOK'
  <2> SUFFICES ASSUME FeedTypeOK, [Next]_vars
               PROVE  FeedTypeOK'
    OBVIOUS
  <2>1. CASE UNCHANGED alerts
    BY <2>1 DEF FeedTypeOK
  <2>2. ASSUME NEW a \in AlertId, NEW severity \in FeedSeverity, NEW status \in FeedStatus,
               CreateAlert(a, severity, status)
        PROVE  FeedTypeOK'
    BY <2>2 DEF FeedTypeOK, CreateAlert
  <2> QED
    BY <2>1, <2>2 DEF Next, vars, UseRotation, UseKms, UseTenants, UseFeed, UseGovernance,
                      Tick, FeedNext
<1>3. FeedTypeOK /\ BoundaryTypeOK /\ SecretsInv /\ PostureInv /\ AccountsInv /\ CommandsInv
        => TypeOK
  <2>1. SecretsInv => now \in Nat /\ RotationTypeOK /\ KmsTypeOK
    BY DEF SecretsInv, RotationInv, KmsInv
  <2>2. BoundaryTypeOK => TenantTypeOK
    BY DEF BoundaryTypeOK
  <2>3. PostureInv => PostureTypeOK
    BY DEF PostureInv
  <2>4. AccountsInv => trail \in Chain /\ answers \in Seq(Answer)
    BY DEF AccountsInv, Accounts
  <2> QED
    BY <2>1, <2>2, <2>3, <2>4 DEF TypeOK, GovernanceTypeOK, CommandsInv, RecordsTypeOK
<1> QED
  BY <1>1, <1>2, <1>3, BoundaryTypeCorrect, SecretsInvariant, PostureInvariant,
     AccountsInvariant, CommandsInvariant, PTL DEF Spec

(* The critical and the high among the open alerts are apart.              *)
LEMMA ForwardedCount ==
  ASSUME IsFiniteSet(DOMAIN alerts)
  PROVE  Cardinality(Forwarded) = AlertsBySeverity("CRITICAL") + AlertsBySeverity("HIGH")
<1> DEFINE criticals == ListAlerts("CRITICAL", "OPEN")
           highs == ListAlerts("HIGH", "OPEN")
<1>1. criticals \subseteq DOMAIN alerts /\ highs \subseteq DOMAIN alerts
  BY DEF ListAlerts
<1>2. IsFiniteSet(criticals) /\ IsFiniteSet(highs)
  BY <1>1, FS_Subset
<1>3. criticals \cap highs = {}
  BY DEF ListAlerts
<1>4. Cardinality(criticals \cup highs) = Cardinality(criticals) + Cardinality(highs)
  <2>1. Cardinality(criticals \cap highs) = 0
    BY <1>3, FS_EmptySet
  <2>2. Cardinality(criticals) \in Nat /\ Cardinality(highs) \in Nat
    BY <1>2, FS_CardinalityType
  <2>3. Cardinality(criticals \cup highs)
          = Cardinality(criticals) + Cardinality(highs) - Cardinality(criticals \cap highs)
    BY <1>2, FS_Union
  <2> HIDE DEF criticals, highs
  <2> QED
    BY <2>1, <2>2, <2>3
<1>5. /\ criticals = {a \in OpenAlerts : alerts[a].severity = "CRITICAL"}
      /\ highs = {a \in OpenAlerts : alerts[a].severity = "HIGH"}
  BY DEF ListAlerts, OpenAlerts
<1> QED
  BY <1>4, <1>5 DEF Forwarded, AlertsBySeverity

(* What is forwarded is what the summary counts: the number of alerts sent *)
(* one by one is the sum of the two counts the same reader is given, which *)
(* the adapter computes another way.                                       *)
THEOREM ForwardedAreCounted ==
  Spec => [](Cardinality(Forwarded) = AlertsBySeverity("CRITICAL") + AlertsBySeverity("HIGH"))
<1>1. Init => IsFiniteSet(DOMAIN alerts)
  <2>1. ASSUME Init
        PROVE  DOMAIN alerts = {}
    BY <2>1 DEF Init, FeedInit
  <2> QED
    BY <2>1, FS_EmptySet
<1>2. IsFiniteSet(DOMAIN alerts) /\ [Next]_vars => IsFiniteSet(DOMAIN alerts)'
  <2> SUFFICES ASSUME IsFiniteSet(DOMAIN alerts), [Next]_vars
               PROVE  IsFiniteSet(DOMAIN alerts')
    OBVIOUS
  <2>1. CASE UNCHANGED alerts
    BY <2>1
  <2>2. ASSUME NEW a \in AlertId, NEW severity \in FeedSeverity, NEW status \in FeedStatus,
               CreateAlert(a, severity, status)
        PROVE  IsFiniteSet(DOMAIN alerts')
    <3>1. DOMAIN alerts' = DOMAIN alerts \union {a}
      BY <2>2 DEF CreateAlert
    <3> QED
      BY <3>1, FS_AddElement
  <2> QED
    BY <2>1, <2>2 DEF Next, vars, UseRotation, UseKms, UseTenants, UseFeed, UseGovernance,
                      Tick, FeedNext
<1> QED
  BY <1>1, <1>2, ForwardedCount, PTL DEF Spec

=============================================================================
