------------------------- MODULE ContainmentProofs -------------------------
(***************************************************************************)
(* Quarantines, for every set of targets, requests and bounds, and whether *)
(* or not the ledger may fail.                                             *)
(***************************************************************************)
EXTENDS Containment, FiniteSetTheorems, TLAPS

-----------------------------------------------------------------------------
\* The invariant.

\* Quarantines are applied once, in the order of their ids.
AppliedOnce ==
  \A id \in QuarantineId :
    trail["applied"][id] = IF id \in DOMAIN quarantines THEN 1 ELSE 0

\* The ledger holds no release that did not happen.
PersistedHappened ==
  \A id \in QuarantineId : persisted[id] <= trail["released"][id]

WithinBound == Len(quarantines) <= MaxQuarantines

IInv ==
  /\ TypeOK
  /\ WithinBound
  /\ AppliedOnce
  /\ ReleasedOnce
  /\ PersistedHappened
  /\ GaugeNeverUnderstates

\* The deadlines of what is in force.
Deadlines == [id \in Held |-> quarantines[id].expiresAt]

\* A table that differs in nothing but the marks of expiry.
MarkedOnly(before, after) ==
  /\ after \in Seq(Quarantine)
  /\ Len(after) = Len(before)
  /\ \A i \in DOMAIN before :
       /\ after[i].expiresAt = before[i].expiresAt
       /\ after[i].status = "RELEASED" <=> before[i].status = "RELEASED"
       /\ InForce(after[i]) <=> InForce(before[i])

-----------------------------------------------------------------------------
\* Lemmas.

\* Marking a quarantine expired changes nothing but a status that was no longer
\* in force.
LEMMA ExpireMarks ==
  ASSUME NEW q \in Quarantine, now \in Nat
  PROVE  /\ Expire(q) \in Quarantine
         /\ Expire(q).expiresAt = q.expiresAt
         /\ Expire(q).status = "RELEASED" <=> q.status = "RELEASED"
         /\ InForce(Expire(q)) <=> InForce(q)
BY DEF Expire, Expired, InForce, Quarantine

\* getActiveQuarantines marks only.
LEMMA SweptMarks ==
  ASSUME NEW qs \in Seq(Quarantine), now \in Nat
  PROVE  MarkedOnly(qs, Swept(qs))
<1>1. \A i \in DOMAIN qs : qs[i] \in Quarantine /\ Swept(qs)[i] = Expire(qs[i])
  BY DEF Swept
<1>2. DOMAIN Swept(qs) = 1 .. Len(qs)
  BY DEF Swept
<1>3. Swept(qs) \in Seq(Quarantine) /\ Len(Swept(qs)) = Len(qs)
  BY <1>1, ExpireMarks DEF Swept
<1> QED
  BY <1>1, <1>3, ExpireMarks DEF MarkedOnly

\* isQuarantined marks only, however far it scans.
LEMMA ScannedMarks ==
  ASSUME NEW qs \in Seq(Quarantine), NEW target, now \in Nat
  PROVE  MarkedOnly(qs, Scanned(qs, target))
<1> DEFINE scanned == Scanned(qs, target)
<1>1. \A i \in DOMAIN qs :
        /\ qs[i] \in Quarantine
        /\ scanned[i] = Expire(qs[i]) \/ scanned[i] = qs[i]
  BY DEF Scanned
<1>2. scanned = [i \in 1 .. Len(qs) |-> scanned[i]]
  BY DEF Scanned
<1> HIDE DEF scanned
<1>3. \A i \in 1 .. Len(qs) : scanned[i] \in Quarantine
  BY <1>1, ExpireMarks
<1>4. scanned \in Seq(Quarantine) /\ Len(scanned) = Len(qs)
  BY <1>2, <1>3
<1>5. MarkedOnly(qs, scanned)
  BY <1>1, <1>4, ExpireMarks DEF MarkedOnly
<1> QED
  BY <1>5 DEF scanned

\* The quarantines in force are among finitely many.
LEMMA HeldFinite ==
  ASSUME quarantines \in Seq(Quarantine)
  PROVE  IsFiniteSet(Held) /\ Cardinality(Held) \in Nat
<1>1. Held \subseteq 1 .. Len(quarantines)
  BY DEF Held
<1>2. IsFiniteSet(1 .. Len(quarantines))
  BY FS_Interval
<1> QED
  BY <1>1, <1>2, FS_Subset, FS_CardinalityType

\* The smaller of two naturals is a natural.
LEMMA EffectiveTtlRange ==
  ASSUME NEW ttl \in Nat
  PROVE  EffectiveTtl(ttl) \in 0 .. MaxTtl
<1> DEFINE asked == UnboundedTtl(ttl)
<1>1. asked \in Nat /\ MaxTtl \in Nat
  BY ContainmentAssumption DEF UnboundedTtl
<1> HIDE DEF asked
<1>2. \E m \in {asked, MaxTtl} : \A n \in {asked, MaxTtl} : m <= n
  BY <1>1
<1>3. /\ Min({asked, MaxTtl}) \in {asked, MaxTtl}
      /\ Min({asked, MaxTtl}) <= MaxTtl
  BY <1>1, <1>2 DEF Min
<1> QED
  BY <1>1, <1>3 DEF EffectiveTtl, asked

-----------------------------------------------------------------------------
\* Every action keeps the invariant.

\* Looking at quarantines changes only their marks.
LEMMA LookKeepsInv ==
  ASSUME IInv,
         MarkedOnly(quarantines, quarantines'),
         UNCHANGED <<now, activeGauge, deciding, answers, trail, persisted>>
  PROVE  IInv' /\ Deadlines' = Deadlines
<1> USE DEF IInv
<1>1. /\ quarantines \in Seq(Quarantine)
      /\ quarantines' \in Seq(Quarantine)
      /\ Len(quarantines') = Len(quarantines)
  BY DEF MarkedOnly, TypeOK
<1>2. DOMAIN quarantines' = DOMAIN quarantines
  BY <1>1
<1>3. Held' = Held
  BY <1>2 DEF MarkedOnly, Held, InForce, Expired
<1>4. TypeOK'
  BY <1>1 DEF TypeOK
<1>5. WithinBound'
  BY <1>1 DEF WithinBound
<1>6. AppliedOnce'
  BY <1>2 DEF AppliedOnce
<1>7. ReleasedOnce'
  BY <1>2 DEF ReleasedOnce, MarkedOnly
<1>8. PersistedHappened'
  BY DEF PersistedHappened
<1>9. GaugeNeverUnderstates'
  BY <1>3 DEF GaugeNeverUnderstates
<1>10. Deadlines' = Deadlines
  BY <1>3 DEF Deadlines, MarkedOnly, Held
<1> QED
  BY <1>4, <1>5, <1>6, <1>7, <1>8, <1>9, <1>10

\* Accepting, refusing and answering requests leaves quarantines alone.
LEMMA AnswerKeepsInv ==
  ASSUME IInv,
         deciding' \subseteq Decision,
         answers' \in [Request -> Answer],
         UNCHANGED <<now, quarantines, activeGauge, trail, persisted>>
  PROVE  IInv' /\ Deadlines' = Deadlines
<1> USE DEF IInv
<1>1. TypeOK'
  BY DEF TypeOK
<1>2. WithinBound' /\ AppliedOnce' /\ ReleasedOnce' /\ PersistedHappened'
  BY DEF WithinBound, AppliedOnce, ReleasedOnce, PersistedHappened
<1>3. Held' = Held
  BY DEF Held, InForce, Expired
<1>4. GaugeNeverUnderstates'
  BY <1>3 DEF GaugeNeverUnderstates
<1>5. Deadlines' = Deadlines
  BY <1>3 DEF Deadlines
<1> QED
  BY <1>1, <1>2, <1>4, <1>5

\* As time passes, quarantines only stop being in force.
LEMMA TickKeepsInv ==
  ASSUME IInv, Tick
  PROVE  /\ IInv'
         /\ Deadlines' = [id \in {id \in Held : Deadlines[id] >= now'} |-> Deadlines[id]]
<1> USE DEF IInv, Tick
<1>1. TypeOK'
  BY DEF TypeOK
<1>2. WithinBound' /\ AppliedOnce' /\ ReleasedOnce' /\ PersistedHappened'
  BY DEF WithinBound, AppliedOnce, ReleasedOnce, PersistedHappened
<1>3. now \in Nat /\ now' = now + 1 /\ quarantines \in Seq(Quarantine)
  BY DEF TypeOK
<1>4. \A id \in DOMAIN quarantines : quarantines[id].expiresAt \in Nat
  <2>1. \A id \in DOMAIN quarantines : quarantines[id] \in Quarantine
    BY <1>3
  <2> QED
    BY <2>1 DEF Quarantine
<1>5. Held' \subseteq Held
  BY <1>3, <1>4 DEF Held, InForce, Expired
<1>6. Cardinality(Held') <= Cardinality(Held) /\ Cardinality(Held') \in Nat
  BY <1>3, <1>5, HeldFinite, FS_Subset, FS_CardinalityType
<1>7. GaugeNeverUnderstates'
  BY <1>3, <1>6, HeldFinite DEF GaugeNeverUnderstates, TypeOK
<1>8. Held' = {id \in Held : Deadlines[id] >= now'}
  BY <1>3, <1>4 DEF Held, InForce, Expired, Deadlines
<1>9. Deadlines' = [id \in {id \in Held : Deadlines[id] >= now'} |-> Deadlines[id]]
  BY <1>8 DEF Deadlines
<1> QED
  BY <1>1, <1>2, <1>7, <1>9

\* A new quarantine is in force from now on, takes the next id, and is applied
\* once; the gauge is set to what is in force then.
LEMMA ApplyKeepsInv ==
  ASSUME IInv,
         NEW target \in Target, NEW ttl \in Nat,
         Apply(target, ttl),
         UNCHANGED <<now, deciding, answers, persisted>>
  PROVE  /\ IInv'
         /\ \E id \in QuarantineId \ Held :
              /\ trail'["applied"] = [trail["applied"] EXCEPT ![id] = @ + 1]
              /\ Deadlines' = [i \in Held \union {id} |->
                                 IF i = id THEN now + EffectiveTtl(ttl) ELSE Deadlines[i]]
<1> USE DEF IInv
<1> DEFINE new == [target |-> target, status |-> "ACTIVE",
                   expiresAt |-> now + EffectiveTtl(ttl)]
           n == Len(quarantines) + 1
           all == Append(quarantines, new)
<1>1. /\ quarantines \in Seq(Quarantine)
      /\ now \in Nat
      /\ Len(quarantines) < MaxQuarantines
      /\ quarantines' = Swept(all)
      /\ activeGauge' = ActiveCount(quarantines')
      /\ trail' = [trail EXCEPT !["applied"][Len(quarantines')] = @ + 1]
  BY DEF TypeOK, Apply, Record
<1>2. new \in Quarantine /\ new.status = "ACTIVE"
  BY <1>1, EffectiveTtlRange, ContainmentAssumption DEF Quarantine
<1> HIDE DEF new
<1>3. /\ all \in Seq(Quarantine)
      /\ Len(all) = n
      /\ all[n] = new
      /\ \A i \in DOMAIN quarantines : all[i] = quarantines[i]
  BY <1>1, <1>2
<1>4. MarkedOnly(all, quarantines')
  BY <1>1, <1>3, SweptMarks
<1> HIDE DEF all
<1>5. /\ quarantines' \in Seq(Quarantine)
      /\ Len(quarantines') = n
      /\ DOMAIN quarantines' = DOMAIN quarantines \union {n}
      /\ n \notin DOMAIN quarantines
  BY <1>1, <1>3, <1>4 DEF MarkedOnly
<1>6. /\ \A i \in DOMAIN quarantines :
           quarantines'[i].status = "RELEASED" <=> quarantines[i].status = "RELEASED"
      /\ quarantines'[n].status # "RELEASED"
  <2>1. \A i \in 1 .. n : quarantines'[i].status = "RELEASED" <=> all[i].status = "RELEASED"
    BY <1>3, <1>4 DEF MarkedOnly
  <2>2. DOMAIN quarantines \subseteq 1 .. n /\ n \in 1 .. n
    BY <1>1
  <2> QED
    BY <1>2, <1>3, <2>1, <2>2
<1>7. n \in QuarantineId
  BY <1>1, ContainmentAssumption DEF QuarantineId
<1>8. trail \in [{"applied", "released"} -> [QuarantineId -> Nat]]
  BY DEF TypeOK
<1>9. /\ trail' \in [{"applied", "released"} -> [QuarantineId -> Nat]]
      /\ trail'["released"] = trail["released"]
      /\ trail'["applied"] = [trail["applied"] EXCEPT ![n] = @ + 1]
  <2>1. trail' = [trail EXCEPT !["applied"] = [trail["applied"] EXCEPT ![n] = @ + 1]]
    BY <1>1, <1>5
  <2>2. [trail["applied"] EXCEPT ![n] = @ + 1] \in [QuarantineId -> Nat]
    BY <1>7, <1>8
  <2> QED
    BY <1>8, <2>1, <2>2
<1>10. Held' = {i \in DOMAIN quarantines' : InForce(quarantines'[i])}
  BY <1>1 DEF Held, InForce, Expired
<1>11. activeGauge' = Cardinality(Held')
  BY <1>1, <1>10 DEF ActiveCount
<1>12. activeGauge' \in Nat
  <2>1. Held' \subseteq 1 .. n
    BY <1>5, <1>10
  <2>2. IsFiniteSet(1 .. n)
    BY <1>1, FS_Interval
  <2> QED
    BY <1>11, <2>1, <2>2, FS_Subset, FS_CardinalityType
<1>13. TypeOK'
  BY <1>5, <1>9, <1>12 DEF TypeOK
<1>14. WithinBound'
  BY <1>1, <1>5, ContainmentAssumption DEF WithinBound
<1>15. AppliedOnce'
  BY <1>5, <1>7, <1>8, <1>9 DEF AppliedOnce
<1>16. ReleasedOnce'
  BY <1>5, <1>6, <1>7, <1>9 DEF ReleasedOnce
<1>17. PersistedHappened'
  BY <1>9 DEF PersistedHappened
<1>18. GaugeNeverUnderstates'
  BY <1>11, <1>12 DEF GaugeNeverUnderstates
<1>19. /\ \A i \in 1 .. n : quarantines'[i].expiresAt = all[i].expiresAt
       /\ \A i \in 1 .. n : InForce(quarantines'[i]) <=> InForce(all[i])
  BY <1>3, <1>4 DEF MarkedOnly
<1>20. InForce(all[n]) /\ all[n].expiresAt = now + EffectiveTtl(ttl)
  BY <1>1, <1>3, EffectiveTtlRange, ContainmentAssumption DEF new, InForce, Expired
<1>21. Held' = Held \union {n} /\ n \notin Held
  BY <1>1, <1>3, <1>5, <1>10, <1>19, <1>20 DEF Held
<1>22. Deadlines' = [i \in Held \union {n} |->
                      IF i = n THEN now + EffectiveTtl(ttl) ELSE Deadlines[i]]
  <2>1. \A i \in Held : i \in 1 .. n /\ quarantines'[i].expiresAt = quarantines[i].expiresAt
    BY <1>1, <1>3, <1>19 DEF Held
  <2>2. quarantines'[n].expiresAt = now + EffectiveTtl(ttl)
    BY <1>1, <1>19, <1>20
  <2> QED
    BY <1>21, <2>1, <2>2 DEF Deadlines
<1> QED
  BY <1>7, <1>9, <1>13, <1>14, <1>15, <1>16, <1>17, <1>18, <1>21, <1>22

\* A release finds its quarantine ACTIVE, so this is its first; no other is
\* touched, and the ledger gets one record for it or none.
LEMMA ReleaseKeepsInv ==
  ASSUME IInv,
         NEW d \in deciding,
         Release(d)
  PROVE  /\ IInv'
         /\ trail'["applied"] = trail["applied"]
         /\ Deadlines' = [i \in Held \ {d.quarantine} |-> Deadlines[i]]
<1> USE DEF IInv
<1> DEFINE id == d.quarantine
           lifted == [quarantines[id] EXCEPT !.status = "RELEASED"]
           all == [quarantines EXCEPT ![id] = lifted]
<1>1. /\ quarantines \in Seq(Quarantine)
      /\ now \in Nat
      /\ now' = now
      /\ id \in DOMAIN quarantines
      /\ quarantines[id].status = "ACTIVE"
      /\ deciding' \subseteq deciding
  BY DEF TypeOK, Release, CanRelease
<1>2. /\ quarantines' = Swept(all)
      /\ activeGauge' = ActiveCount(quarantines')
      /\ trail' = [trail EXCEPT !["released"] = [trail["released"] EXCEPT ![id] = @ + 1]]
  <2>1. [quarantines EXCEPT ![id].status = "RELEASED"] = all
    OBVIOUS
  <2>2. Lift(id)
    BY DEF Release
  <2>3. /\ quarantines' = Swept([quarantines EXCEPT ![id].status = "RELEASED"])
        /\ activeGauge' = ActiveCount(quarantines')
        /\ trail' = [trail EXCEPT !["released"][id] = @ + 1]
    BY <2>2 DEF Lift, Record
  <2>4. quarantines' = Swept(all)
    BY <2>1, <2>3
  <2> QED
    BY <2>3, <2>4
<1>3. /\ lifted \in Quarantine
      /\ lifted.status = "RELEASED"
  <2>1. quarantines[id] \in Quarantine
    BY <1>1
  <2> QED
    BY <2>1 DEF Quarantine
<1> HIDE DEF lifted
<1>4. /\ all \in Seq(Quarantine)
      /\ Len(all) = Len(quarantines)
      /\ all[id] = lifted
      /\ \A i \in DOMAIN quarantines \ {id} : all[i] = quarantines[i]
  BY <1>1, <1>3
<1> HIDE DEF all
<1>5. MarkedOnly(all, quarantines')
  BY <1>1, <1>2, <1>4, SweptMarks
<1>6. /\ quarantines' \in Seq(Quarantine)
      /\ Len(quarantines') = Len(quarantines)
      /\ DOMAIN quarantines' = DOMAIN quarantines
      /\ DOMAIN all = DOMAIN quarantines
  BY <1>1, <1>4, <1>5 DEF MarkedOnly
<1>7. /\ quarantines'[id].status = "RELEASED"
      /\ \A i \in DOMAIN quarantines \ {id} :
           quarantines'[i].status = "RELEASED" <=> quarantines[i].status = "RELEASED"
  BY <1>1, <1>3, <1>4, <1>5, <1>6 DEF MarkedOnly
<1>8. Held' = {i \in DOMAIN quarantines' : InForce(quarantines'[i])}
  BY <1>1 DEF Held, InForce, Expired
<1>9. Held' = Held \ {id}
  <2>1. ~InForce(quarantines'[id])
    BY <1>7 DEF InForce
  <2>2. \A i \in DOMAIN quarantines \ {id} : InForce(quarantines'[i]) <=> InForce(quarantines[i])
    BY <1>4, <1>5, <1>6 DEF MarkedOnly
  <2> QED
    BY <1>6, <1>8, <2>1, <2>2 DEF Held
<1>10. activeGauge' = Cardinality(Held') /\ activeGauge' \in Nat
  <2>1. activeGauge' = Cardinality(Held')
    BY <1>2, <1>8 DEF ActiveCount
  <2>2. IsFiniteSet(Held')
    BY <1>1, <1>9, HeldFinite, FS_Subset
  <2> QED
    BY <2>1, <2>2, FS_CardinalityType
<1>11. trail \in [{"applied", "released"} -> [QuarantineId -> Nat]]
  BY DEF TypeOK
<1>12. id \in QuarantineId
  BY <1>1, ContainmentAssumption DEF QuarantineId, WithinBound
<1>13. /\ trail' \in [{"applied", "released"} -> [QuarantineId -> Nat]]
       /\ trail'["applied"] = trail["applied"]
       /\ trail'["released"] = [trail["released"] EXCEPT ![id] = @ + 1]
  BY <1>2, <1>11, <1>12
<1>14. /\ answers' \in [Request -> Answer]
       /\ persisted' = persisted \/ persisted' = [persisted EXCEPT ![id] = @ + 1]
  BY DEF Release, Audited, Respond, TypeOK, Answer
<1>15. TypeOK'
  <2>1. persisted' \in [QuarantineId -> Nat]
    <3>1. persisted \in [QuarantineId -> Nat]
      BY DEF TypeOK
    <3> HIDE DEF IInv, id
    <3> QED
      BY <1>12, <1>14, <3>1
  <2>2. deciding' \subseteq Decision /\ now' \in Nat
    BY <1>1 DEF TypeOK
  <2> QED
    BY <1>6, <1>10, <1>13, <1>14, <2>1, <2>2 DEF TypeOK
<1>16. WithinBound' /\ AppliedOnce'
  BY <1>6, <1>13 DEF WithinBound, AppliedOnce
<1>17. ReleasedOnce'
  BY <1>1, <1>6, <1>7, <1>11, <1>12, <1>13 DEF ReleasedOnce
<1>18. PersistedHappened'
  BY <1>11, <1>12, <1>13, <1>14 DEF PersistedHappened, TypeOK
<1>19. GaugeNeverUnderstates'
  BY <1>10 DEF GaugeNeverUnderstates
<1>20. Deadlines' = [i \in Held \ {id} |-> Deadlines[i]]
  <2>1. \A i \in Held \ {id} : quarantines'[i].expiresAt = quarantines[i].expiresAt
    BY <1>4, <1>5, <1>6 DEF Held, MarkedOnly
  <2> QED
    BY <1>9, <2>1 DEF Deadlines
<1> QED
  BY <1>13, <1>15, <1>16, <1>17, <1>18, <1>19, <1>20

\* The initial states satisfy the invariant.
LEMMA InitSatisfiesInv == Init => IInv
<1> SUFFICES ASSUME Init PROVE IInv
  OBVIOUS
<1> USE DEF Init
<1>1. TypeOK
  BY DEF TypeOK, Answer
<1>2. WithinBound /\ AppliedOnce /\ ReleasedOnce /\ PersistedHappened
  BY ContainmentAssumption DEF WithinBound, AppliedOnce, ReleasedOnce, PersistedHappened
<1>3. Held = {}
  BY DEF Held
<1>4. GaugeNeverUnderstates
  BY <1>3, FS_EmptySet DEF GaugeNeverUnderstates
<1> QED
  BY <1>1, <1>2, <1>4 DEF IInv

\* What a step does to the quarantines: time passes, one is applied, one is
\* released for a request that was allowed, or none is touched.
LEMMA StepCases ==
  ASSUME IInv, [Next]_vars
  PROVE  \/ Tick
         \/ \E target \in Target, ttl \in Nat :
              /\ Apply(target, ttl)
              /\ UNCHANGED <<now, deciding, answers, persisted>>
         \/ /\ MarkedOnly(quarantines, quarantines')
            /\ UNCHANGED <<now, activeGauge, deciding, answers, trail, persisted>>
         \/ \E d \in deciding : Release(d)
         \/ /\ deciding' \subseteq Decision
            /\ answers' \in [Request -> Answer]
            /\ \A r \in Request : answers'[r] # "released" \/ answers'[r] = answers[r]
            /\ UNCHANGED <<now, quarantines, activeGauge, trail, persisted>>
<1> USE DEF IInv
<1>1. ASSUME NEW target \in Target, NEW ttl \in TtlRequest, ApplyQuarantine(target, ttl)
      PROVE  /\ Apply(target, ttl) /\ ttl \in Nat
             /\ UNCHANGED <<now, deciding, answers, persisted>>
  BY <1>1, ContainmentAssumption DEF ApplyQuarantine
<1>2. ASSUME NEW alert \in Alert, NEW autoContain \in BOOLEAN,
             ProcessAlert(alert, autoContain)
      PROVE  /\ Apply(alert.target, 0) /\ alert.target \in Target
             /\ UNCHANGED <<now, deciding, answers, persisted>>
  BY <1>2 DEF ProcessAlert, Alert
<1>3. CASE ListActive
  BY <1>3, SweptMarks DEF ListActive, TypeOK
<1>4. ASSUME NEW target \in Target, IsQuarantined(target)
      PROVE  /\ MarkedOnly(quarantines, quarantines')
             /\ UNCHANGED <<now, activeGauge, deciding, answers, trail, persisted>>
  BY <1>4, ScannedMarks DEF IsQuarantined, TypeOK
<1> DEFINE Answered ==
             /\ deciding' \subseteq Decision
             /\ answers' \in [Request -> Answer]
             /\ \A r \in Request : answers'[r] # "released" \/ answers'[r] = answers[r]
             /\ UNCHANGED <<now, quarantines, activeGauge, trail, persisted>>
<1>5. ASSUME NEW r \in Request, RejectRelease(r) \/ Receive(r)
      PROVE  Answered
  BY <1>5 DEF RejectRelease, Receive, Respond, TypeOK, Answer
<1>6. ASSUME NEW r \in Request, NEW id \in QuarantineId, NEW privileged \in BOOLEAN,
             RequestRelease(r, id, privileged)
      PROVE  Answered
  <2>1. [request |-> r, quarantine |-> id, allowed |-> privileged] \in Decision
    BY DEF Decision
  <2> QED
    BY <1>6, <2>1 DEF RequestRelease, TypeOK
<1>7. ASSUME NEW d \in deciding, DenyRelease(d) \/ FindNothingToRelease(d)
      PROVE  Answered
  <2>1. d.request \in Request /\ deciding' \subseteq Decision
    BY <1>7 DEF DenyRelease, FindNothingToRelease, TypeOK, Decision
  <2> QED
    BY <1>7, <2>1
    DEF DenyRelease, FindNothingToRelease, Audited, Respond, TypeOK, Answer
<1>8. CASE UNCHANGED vars
  <2>1. Answered
    BY <1>8 DEF vars, TypeOK
  <2> QED
    BY <2>1
<1> QED
  BY <1>1, <1>2, <1>3, <1>4, <1>5, <1>6, <1>7, <1>8 DEF Next

\* The invariant is inductive.
THEOREM Invariance == Spec => []IInv
<1>1. IInv /\ [Next]_vars => IInv'
  <2> SUFFICES ASSUME IInv, [Next]_vars PROVE IInv'
    OBVIOUS
  <2> QED
    BY StepCases, TickKeepsInv, ApplyKeepsInv, LookKeepsInv, ReleaseKeepsInv, AnswerKeepsInv
<1> QED
  BY InitSatisfiesInv, <1>1, PTL DEF Spec

-----------------------------------------------------------------------------
\* The properties.

\* Every variable of containment stays within its type, for every bound.
THEOREM TypeCorrect == Spec => []TypeOK
BY Invariance, PTL DEF IInv

\* However many requests are decided concurrently, a quarantine is released at
\* most once, and exactly the released ones have a release in the audit trail.
THEOREM ReleasedOnceHolds == Spec => []ReleasedOnce
BY Invariance, PTL DEF IInv

\* The gauge that is set only when quarantines are applied or lifted never
\* understates how many are in force.
THEOREM GaugeNeverUnderstatesHolds == Spec => []GaugeNeverUnderstates
BY Invariance, PTL DEF IInv

\* A release in the trail ends a request the policy allowed for that quarantine.
THEOREM ReleasedOnlyWhenAllowedHolds == Spec => ReleasedOnlyWhenAllowed
<1> DEFINE A == \A id \in QuarantineId :
             trail'["released"][id] # trail["released"][id] =>
               \E d \in deciding \ deciding' : d.quarantine = id /\ d.allowed
<1>1. IInv /\ [Next]_vars => [A]_vars
  <2> SUFFICES ASSUME IInv, [Next]_vars,
                      NEW id \in QuarantineId,
                      trail'["released"][id] # trail["released"][id]
               PROVE  \E d \in deciding \ deciding' : d.quarantine = id /\ d.allowed
    OBVIOUS
  <2>1. trail \in [{"applied", "released"} -> [QuarantineId -> Nat]]
    BY DEF IInv, TypeOK
  <2>2. trail' # trail
    OBVIOUS
  <2>3. ASSUME NEW target \in Target, NEW ttl \in Nat, Apply(target, ttl)
        PROVE  FALSE
    BY <2>1, <2>3 DEF Apply, Record
  <2>4. PICK d \in deciding : Release(d)
    BY <2>2, <2>3, StepCases DEF Tick
  <2>5. /\ d.allowed
        /\ d \notin deciding'
        /\ trail' = [trail EXCEPT !["released"][d.quarantine] = @ + 1]
    BY <2>4 DEF Release, Allowed, Lift, Record
  <2>6. d.quarantine = id
    BY <2>1, <2>5
  <2> QED
    BY <2>5, <2>6
<1> QED
  BY Invariance, <1>1, PTL DEF Spec, ReleasedOnlyWhenAllowed

\* A caller told "released" finds the release in the ledger, and the ledger holds
\* no release that did not happen.
THEOREM ReleasesPersistedHolds == Spec => ReleasesPersisted
<1> DEFINE A == \A r \in Request :
             answers'[r] = "released" /\ answers[r] # "released" =>
               \E d \in deciding \ deciding' :
                 d.request = r /\ persisted'[d.quarantine] > 0
<1>1. IInv /\ [Next]_vars => [A]_vars
  <2> SUFFICES ASSUME IInv, [Next]_vars,
                      NEW r \in Request,
                      answers'[r] = "released", answers[r] # "released"
               PROVE  \E d \in deciding \ deciding' :
                        d.request = r /\ persisted'[d.quarantine] > 0
    OBVIOUS
  <2>1. PICK d \in deciding : Release(d)
    BY StepCases DEF Tick
  <2>2. /\ d \notin deciding'
        /\ CanRelease(d.quarantine)
        /\ Audited(d.request, "released", [persisted EXCEPT ![d.quarantine] = @ + 1])
    BY <2>1 DEF Release
  <2>3. answers \in [Request -> Answer] /\ persisted \in [QuarantineId -> Nat]
    BY DEF IInv, TypeOK
  <2>4. d.request = r
    BY <2>2, <2>3 DEF Audited, Respond
  <2>5. answers' # [answers EXCEPT ![r] = "error"]
    BY <2>3
  <2>6. persisted' = [persisted EXCEPT ![d.quarantine] = @ + 1]
    BY <2>2, <2>4, <2>5 DEF Audited, Respond
  <2>7. d.quarantine \in QuarantineId
    BY DEF IInv, TypeOK, Decision
  <2>8. persisted'[d.quarantine] > 0
    BY <2>3, <2>6, <2>7
  <2> QED
    BY <2>2, <2>4, <2>8
<1> QED
  BY Invariance, <1>1, PTL DEF Spec, ReleasesPersisted, IInv, PersistedHappened

-----------------------------------------------------------------------------
\* Quarantines are leases.

\* What Leases calls held and its deadlines are those of this module.
LEMMA IsolationHeld == Isolation!Held = Held
BY DEF Isolation!Held

\* Time passes in the table of leases too, and drops what has ended.
LEMMA TickIsTick ==
  ASSUME IInv, Tick
  PROVE  Isolation!Tick
<1>1. Deadlines' = [id \in {id \in Held : Deadlines[id] >= now'} |-> Deadlines[id]]
  BY TickKeepsInv
<1> QED
  BY <1>1, IsolationHeld DEF Tick, Isolation!Tick, Isolation!Restrict, Deadlines

\* A quarantine applied is a lease granted, for no longer than MaxTtl.
LEMMA ApplyIsGrant ==
  ASSUME IInv,
         NEW target \in Target, NEW ttl \in Nat,
         Apply(target, ttl),
         UNCHANGED <<now, deciding, answers, persisted>>
  PROVE  \E id \in QuarantineId, term \in 0 .. MaxTtl : Isolation!Grant(id, term, {})
<1>1. PICK id \in QuarantineId \ Held :
        /\ trail'["applied"] = [trail["applied"] EXCEPT ![id] = @ + 1]
        /\ Deadlines' = [i \in Held \union {id} |->
                           IF i = id THEN now + EffectiveTtl(ttl) ELSE Deadlines[i]]
  BY ApplyKeepsInv
<1>2. EffectiveTtl(ttl) \in 0 .. MaxTtl
  BY EffectiveTtlRange
<1>3. Isolation!Grant(id, EffectiveTtl(ttl), {})
  BY <1>1, IsolationHeld DEF Isolation!Grant, Deadlines
<1> QED
  BY <1>2, <1>3

\* A release revokes the lease, if it had not ended before.
LEMMA ReleaseIsRevocation ==
  ASSUME IInv, NEW d \in deciding, Release(d)
  PROVE  \E dropped \in SUBSET Isolation!Held : Isolation!Revoke(dropped)
<1>1. /\ trail'["applied"] = trail["applied"]
      /\ Deadlines' = [i \in Held \ {d.quarantine} |-> Deadlines[i]]
  BY ReleaseKeepsInv
<1>2. now' = now
  BY DEF Release
<1>3. PICK dropped : dropped = Held \intersect {d.quarantine}
  OBVIOUS
<1>4. Held \ dropped = Held \ {d.quarantine}
  BY <1>3
<1>5. Isolation!Revoke(dropped)
  BY <1>1, <1>2, <1>4, IsolationHeld DEF Isolation!Revoke, Isolation!Restrict, Deadlines
<1>6. dropped \in SUBSET Isolation!Held
  BY <1>3, IsolationHeld
<1> QED
  BY <1>5, <1>6

\* Marks, answers and refusals are invisible to the holders of leases.
LEMMA OtherStepsStutter ==
  ASSUME IInv,
         Deadlines' = Deadlines,
         UNCHANGED <<now, trail>>
  PROVE  UNCHANGED Isolation!leaseVars
BY DEF Isolation!leaseVars, Deadlines

\* Marked late, scanned, applied, released and refused in any order, quarantines
\* are leases that end on their deadline, for every bound.
THEOREM QuarantinesAreLeasesHolds == Spec => QuarantinesAreLeases
<1>1. Init => Isolation!Init
  <2> SUFFICES ASSUME Init PROVE Isolation!Init
    OBVIOUS
  <2>1. Held = {}
    BY DEF Init, Held
  <2> QED
    BY <2>1 DEF Init, Isolation!Init
<1>2. IInv /\ [Next]_vars => [Isolation!Next]_(Isolation!leaseVars)
  <2> SUFFICES ASSUME IInv, [Next]_vars
               PROVE  Isolation!Next \/ UNCHANGED Isolation!leaseVars
    OBVIOUS
  <2>1. CASE Tick
    BY <2>1, TickIsTick DEF Isolation!Next
  <2>2. ASSUME NEW target \in Target, NEW ttl \in Nat, Apply(target, ttl),
               UNCHANGED <<now, deciding, answers, persisted>>
        PROVE  Isolation!Next
    <3>1. PICK id \in QuarantineId, term \in 0 .. MaxTtl : Isolation!Grant(id, term, {})
      BY <2>2, ApplyIsGrant
    <3>2. {} \in SUBSET Isolation!Held
      OBVIOUS
    <3> QED
      BY <3>1, <3>2 DEF Isolation!Next
  <2>3. CASE /\ MarkedOnly(quarantines, quarantines')
             /\ UNCHANGED <<now, activeGauge, deciding, answers, trail, persisted>>
    BY <2>3, LookKeepsInv, OtherStepsStutter
  <2>4. ASSUME NEW d \in deciding, Release(d)
        PROVE  Isolation!Next
    BY <2>4, ReleaseIsRevocation DEF Isolation!Next
  <2>5. CASE /\ deciding' \subseteq Decision
             /\ answers' \in [Request -> Answer]
             /\ UNCHANGED <<now, quarantines, activeGauge, trail, persisted>>
    BY <2>5, AnswerKeepsInv, OtherStepsStutter
  <2> QED
    BY <2>1, <2>2, <2>3, <2>4, <2>5, StepCases
<1> QED
  BY Invariance, <1>1, <1>2, PTL DEF Spec, QuarantinesAreLeases

=============================================================================
