----------------------- MODULE PersistentLedgerProofs -----------------------
(***************************************************************************)
(* Proofs about PersistentLedger, for every payload set, every kind of     *)
(* write fault and damage, and every bound.                                *)
(***************************************************************************)
EXTENDS PersistentLedger, AuditChainProofs, WellFoundedInduction

-----------------------------------------------------------------------------
\* Facts about files.

\* What initialize() parses out of a file is a chain.
LEMMA RecordsType ==
  ASSUME NEW lines \in Seq(Line)
  PROVE  /\ Records(lines) \in Chain
         /\ Len(Records(lines)) = Len(lines)
         /\ \A i \in 1 .. Len(lines) : Records(lines)[i] = lines[i].record
<1>1. ASSUME NEW i \in 1 .. Len(lines) PROVE lines[i].record \in AuditRecord
  <2>1. lines[i] \in Line
    BY ElementOfSeq
  <2> QED BY <2>1 DEF Line
<1>2. Len(lines) \in Nat
  OBVIOUS
<1>3. Records(lines) \in [1 .. Len(lines) -> AuditRecord]
  BY <1>1 DEF Records
<1>4. Records(lines) \in Seq(AuditRecord)
  BY <1>2, <1>3, IsASeq
<1>5. Len(Records(lines)) = Len(lines)
  BY <1>2, <1>3, <1>4, LenProperties
<1> QED BY <1>4, <1>5 DEF Chain, Records

\* A file that verifies with one more line verified without it.
LEMMA NewLineKeepsBroken ==
  ASSUME NEW lines \in Seq(Line), NEW r \in AuditRecord, NEW b \in BOOLEAN
  PROVE  /\ NewLine(lines, r, b) \in Seq(Line)
         /\ Len(NewLine(lines, r, b)) = Len(lines) + 1
         /\ NewLine(lines, r, b)[Len(lines) + 1] = [record |-> r, intact |-> b]
         /\ \A i \in 1 .. Len(lines) : NewLine(lines, r, b)[i] = lines[i]
         /\ Parses(NewLine(lines, r, b)) => Parses(lines)
         /\ VerifyIntegrity(Records(NewLine(lines, r, b)))
              => VerifyIntegrity(Records(lines))
<1> DEFINE more == NewLine(lines, r, b)
<1>1. /\ more \in Seq(Line)
      /\ Len(more) = Len(lines) + 1
      /\ more[Len(lines) + 1] = [record |-> r, intact |-> b]
      /\ \A i \in 1 .. Len(lines) : more[i] = lines[i]
  BY DEF NewLine, Line
<1> HIDE DEF more
<1>2. Len(lines) \in Nat
  OBVIOUS
<1>3. Parses(more) => Parses(lines)
  BY <1>1, <1>2 DEF Parses
<1>4. /\ Len(Records(more)) = Len(lines) + 1
      /\ Len(Records(lines)) = Len(lines)
      /\ \A i \in 1 .. Len(lines) : Records(more)[i] = Records(lines)[i]
  BY <1>1, <1>2, RecordsType
<1>5. ASSUME VerifyIntegrity(Records(more)), NEW i \in 1 .. Len(Records(lines))
      PROVE  LinkHolds(Records(lines), i)
  <2>1. LinkHolds(Records(more), i)
    BY <1>2, <1>4, <1>5 DEF VerifyIntegrity
  <2>2. HashBefore(Records(more), i) = HashBefore(Records(lines), i)
    BY <1>2, <1>4 DEF HashBefore
  <2> QED BY <1>4, <2>1, <2>2 DEF LinkHolds
<1> QED BY <1>1, <1>3, <1>5 DEF more, VerifyIntegrity

\* A line that no longer parses breaks the file.
LEMMA UnreadableLineBreaks ==
  ASSUME NEW lines \in Seq(Line), NEW i \in 1 .. Len(lines)
  PROVE  LET cut == [lines EXCEPT ![i] = [@ EXCEPT !.intact = FALSE]]
         IN  cut \in Seq(Line) /\ Len(cut) = Len(lines) /\ ~Parses(cut)
<1>1. lines[i] \in Line
  BY ElementOfSeq
<1> DEFINE new == [lines[i] EXCEPT !.intact = FALSE]
           cut == [lines EXCEPT ![i] = new]
<1>2. new \in Line /\ new.intact = FALSE
  BY <1>1 DEF Line
<1> HIDE DEF new
<1>3. /\ cut \in Seq(Line)
      /\ Len(cut) = Len(lines)
      /\ cut[i] = new
  BY <1>2, ExceptSeq
<1> HIDE DEF cut
<1>4. ~Parses(cut)
  BY <1>2, <1>3 DEF Parses
<1> QED BY <1>3, <1>4 DEF cut, new

\* Gluing a record to the last line does that to it.
LEMMA GlueBreaks ==
  ASSUME NEW lines \in Seq(Line), lines # << >>
  PROVE  /\ Glue(lines) \in Seq(Line)
         /\ Len(Glue(lines)) = Len(lines)
         /\ ~Parses(Glue(lines))
<1>1. Len(lines) \in 1 .. Len(lines)
  BY EmptySeq, SMT
<1> QED BY <1>1, UnreadableLineBreaks DEF Glue

\* Altering the payload of a consistent record leaves a file that no longer
\* verifies, and every stored digest as it was.
LEMMA AlteredPayloadBreaks ==
  ASSUME NEW lines \in Seq(Line), NEW i \in 1 .. Len(lines),
         SelfConsistent(lines[i].record),
         NEW p \in Payload, p # lines[i].record.payload
  PROVE  /\ AlterPayload(lines, i, p) \in Seq(Line)
         /\ Len(AlterPayload(lines, i, p)) = Len(lines)
         /\ Parses(AlterPayload(lines, i, p)) => Parses(lines)
         /\ ~VerifyIntegrity(Records(AlterPayload(lines, i, p)))
         /\ \A j \in 1 .. Len(lines) :
              AlterPayload(lines, i, p)[j].record.currentHash
              = lines[j].record.currentHash
<1>1. lines[i] \in Line
  BY ElementOfSeq
<1> DEFINE old == lines[i]
           new == [old EXCEPT !.record.payload = p]
           altered == [lines EXCEPT ![i] = new]
<1>2. /\ new \in Line
      /\ new.intact = old.intact
      /\ new.record.sequence = old.record.sequence
      /\ new.record.payload = p
      /\ new.record.previousHash = old.record.previousHash
      /\ new.record.currentHash = old.record.currentHash
  BY <1>1 DEF Line, AuditRecord
<1>3. ~SelfConsistent(new.record)
  <2>1. /\ old.record.sequence \in Nat
        /\ old.record.payload \in Payload
        /\ old.record.previousHash \in Hash
    BY <1>1 DEF Line, AuditRecord
  <2> HIDE DEF old
  <2> SUFFICES ASSUME SelfConsistent(new.record) PROVE FALSE
    OBVIOUS
  <2>2. Digest(old.record.sequence, p, old.record.previousHash)
        = Digest(old.record.sequence, old.record.payload, old.record.previousHash)
    BY <1>2 DEF SelfConsistent, old
  <2>3. p = old.record.payload
    BY <2>1, <2>2, DigestInjective
  <2> QED BY <2>3 DEF old
<1> HIDE DEF new
<1>4. /\ altered \in Seq(Line)
      /\ Len(altered) = Len(lines)
      /\ \A j \in 1 .. Len(lines) : altered[j] = IF j = i THEN new ELSE lines[j]
  BY <1>2, ExceptSeq
<1> HIDE DEF altered
<1>5. Len(Records(altered)) = Len(lines) /\ Records(altered)[i] = new.record
  BY <1>4, RecordsType
<1>6. ~VerifyIntegrity(Records(altered))
  BY <1>3, <1>5 DEF VerifyIntegrity, LinkHolds
<1>7. Parses(altered) => Parses(lines)
  BY <1>2, <1>4 DEF Parses
<1>8. \A j \in 1 .. Len(lines) :
        altered[j].record.currentHash = lines[j].record.currentHash
  BY <1>2, <1>4
<1>9. AlterPayload(lines, i, p) = altered
  BY DEF AlterPayload, altered, new
<1> QED BY <1>4, <1>6, <1>7, <1>8, <1>9

-----------------------------------------------------------------------------
\* The inductive invariant.

\* Only a line can be missing its line feed.
UnterminatedHasLine == terminated \/ file # << >>

\* A ledger that accepts writes, or would once it reads the file, holds chains
\* that verify.
WritableServicesVerify ==
  initialized \/ InitializeSucceeds
    => VerifyIntegrity(memory) /\ VerifyIntegrity(service)

\* An acknowledged record carries its own digest, and as long as every line of
\* the file parses, one of them carries that digest too.
AcknowledgedConsistent == \A r \in acknowledged : SelfConsistent(r)

AcknowledgedStored ==
  Parses(file) =>
    \A r \in acknowledged :
      \E i \in 1 .. Len(file) : file[i].record.currentHash = r.currentHash

IInv ==
  /\ TypeOK
  /\ UnterminatedHasLine
  /\ WritableServicesVerify
  /\ AcknowledgedConsistent
  /\ AcknowledgedStored

\* It holds before the first process starts.
LEMMA InitIInv == Init => IInv
<1> SUFFICES ASSUME Init PROVE IInv
  OBVIOUS
<1>1. VerifyIntegrity(memory) /\ VerifyIntegrity(service)
  BY EmptyChainVerifies DEF Init
<1>2. TypeOK
  <2>1. << >> \in Seq(Line) /\ << >> \in Chain /\ {} \subseteq AuditRecord
    BY EmptySeq, EmptyChainVerifies
  <2> HIDE DEF Line
  <2> QED BY <2>1 DEF Init, TypeOK
<1> QED
  BY <1>1, <1>2
  DEF Init, IInv, UnterminatedHasLine, WritableServicesVerify,
      AcknowledgedConsistent, AcknowledgedStored

\* What one write does to the file.
LEMMA WriteLineFacts ==
  ASSUME TypeOK, UnterminatedHasLine,
         NEW r \in AuditRecord, NEW outcome \in WriteOutcomes,
         WriteLine(r, outcome)
  PROVE  /\ exists' \in BOOLEAN /\ (exists => exists')
         /\ file' \in Seq(Line)
         /\ terminated' \in BOOLEAN
         /\ UnterminatedHasLine'
         /\ Parses(file') => Parses(file)
         /\ FileVerifies' => FileVerifies
         /\ Parses(file') => 
              \A i \in 1 .. Len(file) : /\ i \in 1 .. Len(file')
                                        /\ file'[i] = file[i]
         /\ outcome = "complete" /\ Parses(file') =>
              \E i \in 1 .. Len(file') : file'[i].record = r
<1>1. file \in Seq(Line) /\ terminated \in BOOLEAN /\ exists \in BOOLEAN
  BY DEF TypeOK
<1>2. CASE outcome = "nothing"
  BY <1>1, <1>2 DEF WriteLine, UnterminatedHasLine, FileVerifies
<1>3. CASE outcome # "nothing" /\ terminated
  <2> DEFINE b == outcome # "fragment"
  <2>1. /\ exists' = TRUE
        /\ terminated' = (outcome = "complete")
        /\ file' = NewLine(file, r, b)
    BY <1>3 DEF WriteLine
  <2>2. b \in BOOLEAN
    OBVIOUS
  <2> HIDE DEF b
  <2>3. /\ file' \in Seq(Line)
        /\ Len(file') = Len(file) + 1
        /\ file'[Len(file) + 1] = [record |-> r, intact |-> b]
        /\ \A i \in 1 .. Len(file) : file'[i] = file[i]
        /\ Parses(file') => Parses(file)
        /\ VerifyIntegrity(Records(file')) => VerifyIntegrity(Records(file))
    BY <1>1, <2>1, <2>2, NewLineKeepsBroken
  <2>4. Len(file) \in Nat
    BY <1>1
  <2>5. file' # << >>
    BY <2>3, <2>4
  <2>6. \E i \in 1 .. Len(file') : file'[i].record = r
    BY <2>3, <2>4
  <2> QED BY <1>1, <2>1, <2>3, <2>4, <2>5, <2>6
          DEF UnterminatedHasLine, FileVerifies
<1>4. CASE outcome # "nothing" /\ ~terminated
  <2>1. /\ exists' = TRUE
        /\ terminated' = (outcome = "complete")
        /\ file' = Glue(file)
    BY <1>4 DEF WriteLine
  <2>2. file # << >>
    BY <1>4 DEF UnterminatedHasLine
  <2>3. file' \in Seq(Line) /\ Len(file') = Len(file) /\ ~Parses(file')
    BY <1>1, <2>1, <2>2, GlueBreaks
  <2>4. file' # << >>
    BY <1>1, <2>2, <2>3, EmptySeq
  <2> QED BY <1>1, <2>1, <2>3, <2>4 DEF UnterminatedHasLine, FileVerifies
<1> QED BY <1>1, <1>2, <1>3, <1>4

\* What initialize() makes of a chain m it is entered with.
LEMMA OpenedMemoryFacts ==
  ASSUME TypeOK, NEW m \in Chain,
         initialized \/ InitializeSucceeds => VerifyIntegrity(m)
  PROVE  /\ OpenedMemory(m) \in Chain
         /\ initialized \/ InitializeSucceeds => VerifyIntegrity(OpenedMemory(m))
<1>1. Records(file) \in Chain
  BY RecordsType DEF TypeOK
<1>2. OpenedMemory(m) \in Chain
  BY <1>1 DEF OpenedMemory, LoadedOver
<1>3. InitializeSucceeds /\ ReplacesService => VerifyIntegrity(Records(file))
  BY DEF InitializeSucceeds, ReplacesService, FileVerifies
<1> QED BY <1>2, <1>3 DEF OpenedMemory, LoadedOver, Reopens

\* PersistentAuditLedger.append keeps the invariant, entered with any chains
\* that verify if the ledger is writable.
LEMMA LedgerAppendIInv ==
  ASSUME IInv, NEW m \in Chain, NEW s \in Chain, NEW p \in Payload,
         initialized \/ InitializeSucceeds => VerifyIntegrity(m) /\ VerifyIntegrity(s),
         running, LedgerAppend(m, s, p)
  PROVE  IInv'
<1> USE DEF IInv
<1>1. OpenedMemory(m) \in Chain
      /\ (initialized \/ InitializeSucceeds => VerifyIntegrity(OpenedMemory(m)))
  BY OpenedMemoryFacts
<1> DEFINE next == AppendRecord(OpenedMemory(m), p)
           r == next[Len(next)]
<1>2. /\ next \in Chain
      /\ r \in AuditRecord
      /\ SelfConsistent(r)
      /\ initialized \/ InitializeSucceeds => VerifyIntegrity(next)
  <2>1. Len(OpenedMemory(m)) \in Nat
    BY <1>1 DEF Chain
  <2>2. next \in Chain /\ r = NextRecord(OpenedMemory(m), p)
    BY <1>1, <2>1, AppendRecordType
  <2> QED BY <1>1, <2>2, NextRecordType, AppendRecordVerifies
<1>3. CASE Refuse(m, s)
  <2>1. /\ ~initialized /\ ~InitializeSucceeds
        /\ initialized' = FALSE /\ gauge' = 0
        /\ memory' = OpenedMemory(m) /\ service' = s
        /\ shared' = (shared /\ ~(Reopens /\ ReplacesService))
        /\ exists' = exists /\ file' = file /\ terminated' = terminated
        /\ running' = running /\ acknowledged' = acknowledged
    BY <1>3 DEF Refuse, Reopen, Reopens, StillShared, disk, TypeOK
  <2>2. ~InitializeSucceeds'
    BY <2>1 DEF InitializeSucceeds, FileVerifies
  <2>3. TypeOK'
    BY <1>1, <2>1 DEF TypeOK
  <2> QED
    BY <2>1, <2>2, <2>3
    DEF UnterminatedHasLine, WritableServicesVerify, AcknowledgedConsistent,
        AcknowledgedStored
<1> HIDE DEF next, r
<1>4. ASSUME NEW outcome \in WriteOutcomes, Persist(m, s, p, outcome)
      PROVE  IInv'
  <2>1. /\ initialized \/ InitializeSucceeds
        /\ WriteLine(r, outcome)
        /\ initialized' = TRUE
        /\ gauge' \in {0, 1}
        /\ memory' = next
        /\ service' = IF StillShared THEN next ELSE s
        /\ shared' = StillShared
        /\ acknowledged' = acknowledged \union Returned(r, outcome)
        /\ running' = running
    BY <1>4 DEF Persist, OpenForWriting, Reopen, Reopens, next, r, TypeOK
  <2>2. /\ exists' \in BOOLEAN
        /\ file' \in Seq(Line)
        /\ terminated' \in BOOLEAN
        /\ UnterminatedHasLine'
        /\ Parses(file') => Parses(file)
        /\ Parses(file') =>
             \A i \in 1 .. Len(file) : i \in 1 .. Len(file') /\ file'[i] = file[i]
        /\ outcome = "complete" /\ Parses(file') =>
             \E i \in 1 .. Len(file') : file'[i].record = r
    BY <1>2, <2>1, WriteLineFacts
  <2>3. TypeOK'
    BY <1>2, <2>1, <2>2 DEF TypeOK, StillShared, Returned
  <2>4. WritableServicesVerify'
    BY <1>2, <2>1 DEF WritableServicesVerify
  <2>5. AcknowledgedConsistent'
    BY <1>2, <2>1 DEF AcknowledgedConsistent, Returned
  <2>6. AcknowledgedStored'
    <3> SUFFICES ASSUME Parses(file'), NEW q \in acknowledged'
                 PROVE  \E i \in 1 .. Len(file') :
                          file'[i].record.currentHash = q.currentHash
      BY DEF AcknowledgedStored
    <3>1. CASE q \in acknowledged
      <4>1. PICK i \in 1 .. Len(file) : file[i].record.currentHash = q.currentHash
        BY <2>2, <3>1 DEF AcknowledgedStored
      <4> QED BY <2>2, <4>1
    <3>2. CASE q = r /\ outcome = "complete"
      BY <2>2, <3>2
    <3> QED BY <2>1, <3>1, <3>2 DEF Returned
  <2> QED BY <2>2, <2>3, <2>4, <2>5, <2>6
<1>5. ASSUME NEW outcome \in WriteOutcomes, PersistAndCrash(m, p, outcome)
      PROVE  IInv'
  <2>1. /\ WriteLine(r, outcome)
        /\ LoseProcess
        /\ acknowledged' = acknowledged
    BY <1>5 DEF PersistAndCrash, next, r
  <2>2. /\ exists' \in BOOLEAN
        /\ file' \in Seq(Line)
        /\ terminated' \in BOOLEAN
        /\ UnterminatedHasLine'
        /\ Parses(file') => Parses(file)
        /\ Parses(file') =>
             \A i \in 1 .. Len(file) : i \in 1 .. Len(file') /\ file'[i] = file[i]
    BY <1>2, <2>1, WriteLineFacts
  <2>3. TypeOK'
    BY <2>1, <2>2, EmptyChainVerifies DEF TypeOK, LoseProcess
  <2>4. WritableServicesVerify'
    BY <2>1, EmptyChainVerifies DEF WritableServicesVerify, LoseProcess
  <2>5. AcknowledgedStored'
    <3> SUFFICES ASSUME Parses(file'), NEW q \in acknowledged
                 PROVE  \E i \in 1 .. Len(file') :
                          file'[i].record.currentHash = q.currentHash
      BY <2>1 DEF AcknowledgedStored
    <3>1. PICK i \in 1 .. Len(file) : file[i].record.currentHash = q.currentHash
      BY <2>2 DEF AcknowledgedStored
    <3> QED BY <2>2, <3>1
  <2> QED BY <2>1, <2>2, <2>3, <2>4, <2>5 DEF AcknowledgedConsistent
<1> QED BY <1>3, <1>4, <1>5 DEF LedgerAppend

\* Altering a stored line breaks the file, and leaves every stored digest.
LEMMA DamageLineFacts ==
  ASSUME TypeOK, NEW i \in 1 .. Len(file), DamageLine(i)
  PROVE  /\ file' \in Seq(Line)
         /\ Len(file') = Len(file)
         /\ ~FileVerifies'
         /\ Parses(file') =>
              /\ Parses(file)
              /\ \A j \in 1 .. Len(file) :
                   file'[j].record.currentHash = file[j].record.currentHash
<1>1. file \in Seq(Line)
  BY DEF TypeOK
<1>2. CASE file' = [file EXCEPT ![i] = [@ EXCEPT !.intact = FALSE]]
  BY <1>1, <1>2, UnreadableLineBreaks DEF FileVerifies
<1>3. ASSUME NEW p \in Payload \ {file[i].record.payload},
             file' = AlterPayload(file, i, p)
      PROVE  /\ file' \in Seq(Line)
             /\ Len(file') = Len(file)
             /\ Parses(file') => Parses(file)
             /\ ~VerifyIntegrity(Records(file'))
             /\ \A j \in 1 .. Len(file) :
                  file'[j].record.currentHash = file[j].record.currentHash
  <2>1. SelfConsistent(file[i].record)
    BY DEF DamageLine
  <2>2. p \in Payload /\ p # file[i].record.payload
    OBVIOUS
  <2> QED BY <1>1, <1>3, <2>1, <2>2, AlteredPayloadBreaks
<1> QED BY <1>2, <1>3 DEF DamageLine, FileVerifies

\* Every step keeps the invariant.
LEMMA NextIInv == IInv /\ [Next]_vars => IInv'
<1> SUFFICES ASSUME IInv, [Next]_vars PROVE IInv'
  OBVIOUS
<1> USE DEF IInv
<1>1. CASE StartServer
  <2>1. /\ exists' = exists /\ file' = file /\ terminated' = terminated
        /\ acknowledged' = acknowledged
        /\ running' = TRUE /\ shared' = TRUE /\ gauge' \in {0, 1}
        /\ initialized' = InitializeSucceeds
        /\ memory' = LoadedOver(<< >>) /\ service' = LoadedOver(<< >>)
    BY <1>1 DEF StartServer, disk
  <2>2. LoadedOver(<< >>) \in Chain
    BY RecordsType, EmptyChainVerifies DEF LoadedOver, TypeOK
  <2>3. TypeOK'
    BY <2>1, <2>2 DEF TypeOK, InitializeSucceeds, FileVerifies
  <2>4. InitializeSucceeds => VerifyIntegrity(LoadedOver(<< >>))
    BY EmptyChainVerifies
    DEF InitializeSucceeds, LoadedOver, ReplacesService, FileVerifies
  <2>5. InitializeSucceeds' <=> InitializeSucceeds
    BY <2>1 DEF InitializeSucceeds, FileVerifies
  <2> QED
    BY <2>1, <2>3, <2>4, <2>5
    DEF UnterminatedHasLine, WritableServicesVerify, AcknowledgedConsistent,
        AcknowledgedStored
<1>2. CASE StartUninitialized \/ UNCHANGED vars
  <2>1. /\ exists' = exists /\ file' = file /\ terminated' = terminated
        /\ acknowledged' = acknowledged
        /\ running' \in BOOLEAN /\ shared' = shared /\ gauge' = gauge
        /\ initialized' = initialized /\ memory' = memory /\ service' = service
    BY <1>2 DEF StartUninitialized, vars, disk, TypeOK
  <2>2. TypeOK'
    BY <2>1 DEF TypeOK
  <2> QED
    BY <2>1, <2>2
    DEF UnterminatedHasLine, WritableServicesVerify, AcknowledgedConsistent,
        AcknowledgedStored, InitializeSucceeds, FileVerifies
<1>3. CASE Crash
  <2>1. /\ exists' = exists /\ file' = file /\ terminated' = terminated
        /\ acknowledged' = acknowledged /\ LoseProcess
    BY <1>3 DEF Crash, disk
  <2>2. TypeOK'
    BY <2>1, EmptyChainVerifies DEF TypeOK, LoseProcess
  <2> QED
    BY <2>1, <2>2, EmptyChainVerifies
    DEF LoseProcess, UnterminatedHasLine, WritableServicesVerify,
        AcknowledgedConsistent, AcknowledgedStored
<1>4. ASSUME NEW p \in Payload, RecordAudit(p) PROVE IInv'
  BY <1>4, LedgerAppendIInv DEF RecordAudit, TypeOK, WritableServicesVerify
<1>5. ASSUME NEW p \in Payload, AppendInMemory(p) PROVE IInv'
  <2> DEFINE next == AppendRecord(service, p)
  <2>1. /\ next \in Chain
        /\ VerifyIntegrity(service) => VerifyIntegrity(next)
    BY AppendRecordType, AppendRecordVerifies DEF TypeOK
  <2>2. /\ exists' = exists /\ file' = file /\ terminated' = terminated
        /\ acknowledged' = acknowledged
        /\ running' = running /\ shared' = shared /\ gauge' = gauge
        /\ initialized' = initialized
        /\ service' = next
        /\ memory' = next \/ memory' = memory
    BY <1>5 DEF AppendInMemory, disk
  <2> HIDE DEF next
  <2>3. TypeOK'
    BY <2>1, <2>2 DEF TypeOK
  <2>4. InitializeSucceeds' <=> InitializeSucceeds
    BY <2>2 DEF InitializeSucceeds, FileVerifies
  <2> QED
    BY <2>1, <2>2, <2>3, <2>4
    DEF UnterminatedHasLine, WritableServicesVerify, AcknowledgedConsistent,
        AcknowledgedStored
<1>6. ASSUME NEW p \in Payload, EvaluateDecision(p) PROVE IInv'
  <2> DEFINE s == AppendRecord(service, p)
             m == IF shared THEN s ELSE memory
  <2>1. /\ s \in Chain
        /\ VerifyIntegrity(service) => VerifyIntegrity(s)
    BY AppendRecordType, AppendRecordVerifies DEF TypeOK
  <2>2. running /\ LedgerAppend(m, s, p)
    BY <1>6 DEF EvaluateDecision
  <2> HIDE DEF s
  <2>3. m \in Chain
    BY <2>1 DEF TypeOK
  <2>4. initialized \/ InitializeSucceeds
          => VerifyIntegrity(m) /\ VerifyIntegrity(s)
    BY <2>1 DEF WritableServicesVerify
  <2> HIDE DEF m
  <2> QED BY <2>1, <2>2, <2>3, <2>4, LedgerAppendIInv
<1>7. ASSUME NEW i \in 1 .. Len(file), DamageLine(i) PROVE IInv'
  <2>1. /\ exists' = exists /\ terminated' = terminated
        /\ acknowledged' = acknowledged
        /\ running' = running /\ shared' = shared /\ gauge' = gauge
        /\ initialized' = initialized /\ memory' = memory /\ service' = service
    BY <1>7 DEF DamageLine, process
  <2>2. /\ file' \in Seq(Line)
        /\ Len(file') = Len(file)
        /\ ~FileVerifies'
        /\ Parses(file') =>
             /\ Parses(file)
             /\ \A j \in 1 .. Len(file) :
                  file'[j].record.currentHash = file[j].record.currentHash
    BY <1>7, DamageLineFacts
  <2>3. TypeOK'
    BY <2>1, <2>2 DEF TypeOK
  <2>4. UnterminatedHasLine'
    BY <1>7, <2>1, <2>2, EmptySeq DEF UnterminatedHasLine, TypeOK
  <2>5. InitializeSucceeds' => InitializeSucceeds
    BY <2>1, <2>2 DEF InitializeSucceeds
  <2>6. AcknowledgedStored'
    BY <2>1, <2>2 DEF AcknowledgedStored
  <2> QED
    BY <2>1, <2>3, <2>4, <2>5, <2>6
    DEF WritableServicesVerify, AcknowledgedConsistent
<1> QED BY <1>1, <1>2, <1>3, <1>4, <1>5, <1>6, <1>7 DEF Next

\* The invariant holds in every state of the ledger.
THEOREM Invariance == Spec => []IInv
BY InitIInv, NextIInv, PTL DEF Spec

-----------------------------------------------------------------------------
\* What follows from it.

\* Every reachable state is well-typed.
THEOREM TypeCorrect == Spec => []TypeOK
<1>1. IInv => TypeOK
  BY DEF IInv
<1> QED BY Invariance, <1>1, PTL

\* No acknowledged record is ever lost unnoticed: a file that a restart would
\* accept holds every record that append() returned, under every write fault,
\* crash, alteration of a line and in-memory append.
THEOREM NoSilentLossHolds == Spec => []NoSilentLoss
<1>1. ASSUME IInv, FileVerifies, NEW r \in acknowledged
      PROVE  \E i \in 1 .. Len(file) : file[i].record = r
  <2>1. PICK i \in 1 .. Len(file) : file[i].record.currentHash = r.currentHash
    BY <1>1 DEF IInv, AcknowledgedStored, FileVerifies
  <2>2. /\ Len(Records(file)) = Len(file)
        /\ Records(file)[i] = file[i].record
        /\ file[i] \in Line
    BY <1>1, RecordsType, ElementOfSeq DEF IInv, TypeOK
  <2>3. SelfConsistent(file[i].record)
    BY <1>1, <2>2 DEF FileVerifies, VerifyIntegrity, LinkHolds
  <2>4. r \in AuditRecord /\ SelfConsistent(r)
    BY <1>1 DEF IInv, TypeOK, AcknowledgedConsistent
  <2>5. file[i].record \in AuditRecord
    BY <2>2 DEF Line
  <2> QED BY <2>1, <2>3, <2>4, <2>5, RecordDeterminedByHash
<1>2. IInv => NoSilentLoss
  BY <1>1 DEF NoSilentLoss
<1> QED BY Invariance, <1>2, PTL

\* While the ledger accepts writes, the chain it extends and the chain the
\* handler reports on both verify.
THEOREM OpenLedgerVerifiesHolds == Spec => []OpenLedgerVerifies
<1>1. IInv => OpenLedgerVerifies
  BY DEF IInv, WritableServicesVerify, OpenLedgerVerifies
<1> QED BY Invariance, <1>1, PTL

\* Once a process has found the file compromised, nothing is added to the file
\* and nothing acknowledged.
THEOREM CompromisedIsFrozenHolds == Spec => CompromisedIsFrozen
<1> DEFINE Frozen == ~initialized /\ ~InitializeSucceeds
                       => Len(file') = Len(file) /\ acknowledged' = acknowledged
<1>1. ASSUME NEW m, NEW s, NEW p \in Payload, LedgerAppend(m, s, p)
      PROVE  Frozen
  BY <1>1 DEF LedgerAppend, Refuse, Persist, PersistAndCrash, OpenForWriting, disk
<1>2. ASSUME TypeOK, NEW i \in 1 .. Len(file), DamageLine(i) PROVE Frozen
  BY <1>2, DamageLineFacts DEF DamageLine
<1>3. TypeOK /\ [Next]_vars => [Frozen]_vars
  BY <1>1, <1>2
  DEF Next, StartServer, StartUninitialized, Crash, RecordAudit, AppendInMemory,
      EvaluateDecision, disk, vars
<1> QED BY <1>3, TypeCorrect, PTL DEF Spec, CompromisedIsFrozen

-----------------------------------------------------------------------------
\* A ledger that is the only writer of its chain, on a disk that neither fails
\* nor is altered.
SoleWriter == ~InMemoryWriters /\ WriteFaults = {} /\ ~Damage

MirrorInv ==
  /\ TypeOK
  /\ FileVerifies
  /\ terminated
  /\ ~exists => file = << >>
  /\ memory = IF initialized THEN Records(file) ELSE << >>

\* An empty file has no records.
LEMMA RecordsOfEmpty ==
  ASSUME file = << >>
  PROVE  Records(file) = << >>
<1>1. file \in Seq(Line)
  OBVIOUS
<1>2. Records(file) \in Seq(AuditRecord) /\ Len(Records(file)) = 0
  BY <1>1, RecordsType DEF Chain
<1> QED BY <1>2, EmptySeq

\* The chain an append of payload p leaves in memory.
NextMemory(p) == AppendRecord(OpenedMemory(memory), p)

\* A complete write of the next record leaves a file that verifies and that the
\* chain it was taken from mirrors.
LEMMA CompleteWriteMirrors ==
  ASSUME MirrorInv, NEW p \in Payload,
         WriteLine(NextMemory(p)[Len(NextMemory(p))], "complete")
  PROVE  /\ exists' = TRUE
         /\ terminated' = TRUE
         /\ NextMemory(p) = Records(file')
         /\ FileVerifies'
<1> DEFINE chain == Records(file)
           next == NextMemory(p)
<1>1. file \in Seq(Line) /\ terminated /\ Parses(file) /\ VerifyIntegrity(chain)
  BY DEF MirrorInv, TypeOK, FileVerifies
<1>2. /\ chain \in Chain
      /\ Len(chain) = Len(file)
      /\ \A i \in 1 .. Len(file) : chain[i] = file[i].record
  BY <1>1, RecordsType
<1>3. OpenedMemory(memory) = chain
  <2>1. CASE initialized
    BY <2>1 DEF OpenedMemory, Reopens, MirrorInv
  <2>2. CASE ~initialized /\ exists
    BY <1>1, <2>2 DEF OpenedMemory, Reopens, LoadedOver, ReplacesService
  <2>3. CASE ~initialized /\ ~exists
    <3>1. memory = << >> /\ file = << >>
      BY <2>3 DEF MirrorInv
    <3>2. chain = << >>
      BY <3>1, RecordsOfEmpty
    <3> QED BY <2>3, <3>1, <3>2
      DEF OpenedMemory, Reopens, LoadedOver, ReplacesService
  <2> QED BY <2>1, <2>2, <2>3
<1> HIDE DEF chain
<1>4. /\ next = Append(chain, NextRecord(chain, p))
      /\ NextRecord(chain, p) \in AuditRecord
      /\ next \in Chain
      /\ VerifyIntegrity(next)
  BY <1>1, <1>2, <1>3, NextRecordType, AppendRecordType, AppendRecordVerifies
  DEF AppendRecord, NextMemory
<1> HIDE DEF next
<1>5. /\ Len(next) = Len(chain) + 1
      /\ next[Len(next)] = NextRecord(chain, p)
      /\ \A i \in 1 .. Len(chain) : next[i] = chain[i]
  BY <1>2, <1>4 DEF Chain
<1> DEFINE line == [record |-> NextRecord(chain, p), intact |-> TRUE]
<1>6. exists' = TRUE /\ terminated' = TRUE /\ file' = Append(file, line)
  BY <1>1, <1>5 DEF WriteLine, NewLine, next
<1>7. line \in Line
  BY <1>4 DEF Line
<1>8. /\ file' \in Seq(Line)
      /\ Len(file') = Len(file) + 1
      /\ file'[Len(file) + 1] = line
      /\ \A i \in 1 .. Len(file) : file'[i] = file[i]
  <2> HIDE DEF line
  <2> QED BY <1>1, <1>6, <1>7
<1>9. /\ Records(file') \in Chain
      /\ Len(Records(file')) = Len(file')
      /\ \A i \in 1 .. Len(file') : Records(file')[i] = file'[i].record
  BY <1>8, RecordsType
<1>10. \A i \in 1 .. Len(next) : next[i] = Records(file')[i]
  BY <1>1, <1>2, <1>5, <1>8, <1>9
<1>11. next = Records(file')
  BY <1>2, <1>4, <1>5, <1>8, <1>9, <1>10, SeqEqual DEF Chain
<1>12. Parses(file')
  BY <1>1, <1>8 DEF Parses
<1> QED BY <1>4, <1>6, <1>11, <1>12 DEF FileVerifies, next

\* With one writer and a disk that keeps what it is given, every restart is
\* accepted, whenever the process dies: what breaks the promise elsewhere is a
\* component that appends to the shared service alone, or a faulty disk.
THEOREM SoleWriterRestartAccepts == SoleWriter /\ Spec => []RestartAccepts
<1> SUFFICES ASSUME SoleWriter PROVE Spec => []RestartAccepts
  OBVIOUS
<1>1. Init => MirrorInv
  <2> SUFFICES ASSUME Init PROVE MirrorInv
    OBVIOUS
  <2>1. file = << >> /\ Parses(file)
    BY DEF Init, Parses
  <2>2. Records(file) = << >>
    BY <2>1, RecordsOfEmpty
  <2>3. TypeOK
    BY InitIInv DEF IInv
  <2> QED BY <2>1, <2>2, <2>3, EmptyChainVerifies DEF Init, MirrorInv, FileVerifies
<1>2. ASSUME MirrorInv, TypeOK', [Next]_vars PROVE MirrorInv'
  <2>1. InitializeSucceeds
    BY <1>2 DEF MirrorInv, InitializeSucceeds
  <2>2. CASE StartServer
    <3>1. LoadedOver(<< >>) = Records(file)
      BY <1>2, RecordsOfEmpty
      DEF MirrorInv, LoadedOver, ReplacesService, FileVerifies
    <3> QED BY <1>2, <2>1, <2>2, <3>1
      DEF StartServer, disk, MirrorInv, FileVerifies
  <2>3. CASE UNCHANGED <<disk, initialized, memory>>
    BY <1>2, <2>3 DEF MirrorInv, FileVerifies, disk
  <2>4. CASE Crash
    BY <1>2, <2>4 DEF Crash, LoseProcess, MirrorInv, FileVerifies, disk
  <2>5. ASSUME NEW p \in Payload, RecordAudit(p) PROVE MirrorInv'
    <3>1. ~Refuse(memory, service)
      BY <2>1 DEF Refuse
    <3>2. PICK outcome \in WriteOutcomes :
            \/ Persist(memory, service, p, outcome)
            \/ PersistAndCrash(memory, p, outcome)
      BY <2>5, <3>1 DEF RecordAudit, LedgerAppend
    <3>3. outcome = "complete"
      BY <3>2 DEF SoleWriter, WriteOutcomes
    <3>4. WriteLine(NextMemory(p)[Len(NextMemory(p))], "complete")
      BY <3>2, <3>3 DEF Persist, PersistAndCrash, NextMemory
    <3>5. /\ exists' = TRUE
          /\ terminated' = TRUE
          /\ NextMemory(p) = Records(file')
          /\ FileVerifies'
      BY <1>2, <3>4, CompleteWriteMirrors
    <3>6. CASE Persist(memory, service, p, outcome)
      BY <1>2, <2>1, <3>5, <3>6 DEF Persist, Reopen, MirrorInv, NextMemory
    <3>7. CASE PersistAndCrash(memory, p, outcome)
      BY <1>2, <3>5, <3>7 DEF PersistAndCrash, LoseProcess, MirrorInv
    <3> QED BY <3>2, <3>6, <3>7
  <2> QED
    BY <1>2, <2>2, <2>3, <2>4, <2>5
    DEF Next, StartUninitialized, AppendInMemory, EvaluateDecision, DamageLine,
        SoleWriter, vars, disk
<1>3. MirrorInv => RestartAccepts
  BY DEF MirrorInv, RestartAccepts, InitializeSucceeds
<1> QED BY <1>1, <1>2, <1>3, TypeCorrect, PTL DEF Spec

-----------------------------------------------------------------------------
\* The file as a tamper-evident log.

\* Every set of naturals has a least element: induction, for what follows.
LEMMA LeastNatural ==
  ASSUME NEW S, S \subseteq Nat, S # {}
  PROVE  \E x \in S : \A y \in S : x <= y
<1> DEFINE Less == {p \in Nat \X Nat : p[1] < p[2]}
<1>1. IsWellFoundedOn(Less, Nat)
  BY NatLessThanWellFounded, Zenon DEF OpToRel
<1>2. ASSUME NEW x \in Nat, NEW y \in Nat, y < x
      PROVE  <<y, x>> \in Less
  <2>1. <<y, x>> \in Nat \X Nat
    BY SMT
  <2>2. <<y, x>>[1] < <<y, x>>[2]
    BY <1>2, SMT
  <2> QED BY <2>1, <2>2, Zenon
<1> HIDE DEF Less
<1>3. PICK x \in S : \A y \in S : <<y, x>> \notin Less
  BY <1>1, WFMin, Zenon
<1>4. ASSUME NEW y \in S
      PROVE  x <= y
  <2>1. ~(y < x)
    BY <1>2, <1>3, Zenon
  <2> QED BY <2>1, SMT
<1> QED BY <1>4

\* VerifiedUpTo, VerifiedLength, VerifiedRecords and FileVerifies, of any lines.
Holds(lines, i) == lines[i].intact /\ LinkHolds(Records(lines), i)

UpTo(lines, n) == \A i \in 1 .. n : Holds(lines, i)

LengthOf(lines) ==
  CHOOSE n \in 0 .. Len(lines) :
    UpTo(lines, n) /\ (n < Len(lines) => ~UpTo(lines, n + 1))

Verified(lines) == SubSeq(Records(lines), 1, LengthOf(lines))

Verifies(lines) == Parses(lines) /\ VerifyIntegrity(Records(lines))

\* There is a first line that does not hold, or there is none.
LEMMA LengthExists ==
  ASSUME NEW lines \in Seq(Line)
  PROVE  \E n \in 0 .. Len(lines) :
           UpTo(lines, n) /\ (n < Len(lines) => ~UpTo(lines, n + 1))
<1> DEFINE N == Len(lines)
           S == {n \in 0 .. N : n < N => ~Holds(lines, n + 1)}
<1>1. N \in Nat
  OBVIOUS
<1> HIDE DEF N
<1>2. S \subseteq Nat /\ N \in S
  BY <1>1
<1>3. PICK n \in S : \A m \in S : n <= m
  BY <1>2, LeastNatural
<1>4. n \in 0 .. N /\ (n < N => ~Holds(lines, n + 1))
  OBVIOUS
<1>5. ASSUME NEW i \in 1 .. n
      PROVE  Holds(lines, i)
  <2>1. i - 1 \in 0 .. N /\ i - 1 < N /\ (i - 1) + 1 = i /\ ~(n <= i - 1)
    BY <1>1, <1>4
  <2>2. i - 1 \notin S
    BY <1>3, <2>1
  <2> QED BY <2>1, <2>2
<1>6. UpTo(lines, n)
  BY <1>5 DEF UpTo
<1>7. n < N => ~UpTo(lines, n + 1)
  BY <1>4 DEF UpTo
<1> QED BY <1>4, <1>6, <1>7 DEF N

\* The verified length is that of the longest prefix that holds.
LEMMA LengthIsLongest ==
  ASSUME NEW lines \in Seq(Line)
  PROVE  /\ LengthOf(lines) \in 0 .. Len(lines)
         /\ UpTo(lines, LengthOf(lines))
         /\ LengthOf(lines) < Len(lines) => ~UpTo(lines, LengthOf(lines) + 1)
         /\ \A n \in 0 .. Len(lines) : UpTo(lines, n) => n <= LengthOf(lines)
<1>1. /\ LengthOf(lines) \in 0 .. Len(lines)
      /\ UpTo(lines, LengthOf(lines))
      /\ LengthOf(lines) < Len(lines) => ~UpTo(lines, LengthOf(lines) + 1)
  BY LengthExists DEF LengthOf
<1>2. Len(lines) \in Nat
  OBVIOUS
<1>3. ASSUME NEW n \in 0 .. Len(lines), UpTo(lines, n), ~(n <= LengthOf(lines))
      PROVE  FALSE
  <2>1. LengthOf(lines) + 1 \in 1 .. n /\ LengthOf(lines) < Len(lines)
    BY <1>1, <1>2, <1>3
  <2>2. UpTo(lines, LengthOf(lines) + 1)
    BY <1>1, <1>3, <2>1 DEF UpTo
  <2> QED BY <1>1, <2>1, <2>2
<1> QED BY <1>1, <1>3

\* A file verifies when all of it does.
LEMMA VerifiesAll ==
  ASSUME NEW lines \in Seq(Line)
  PROVE  /\ Verifies(lines) <=> UpTo(lines, Len(lines))
         /\ Verifies(lines) => LengthOf(lines) = Len(lines)
<1>1. Verifies(lines) <=> UpTo(lines, Len(lines))
  BY RecordsType DEF Verifies, Parses, VerifyIntegrity, UpTo, Holds
<1>2. Len(lines) \in 0 .. Len(lines)
  OBVIOUS
<1>3. UpTo(lines, Len(lines)) => Len(lines) <= LengthOf(lines)
  BY <1>2, LengthIsLongest
<1>4. LengthOf(lines) \in 0 .. Len(lines)
  BY LengthIsLongest
<1> QED BY <1>1, <1>2, <1>3, <1>4

\* Lines that agree up to a point hold up to there alike.
LEMMA AgreeingLines ==
  ASSUME NEW lines \in Seq(Line), NEW after \in Seq(Line), NEW n \in Nat,
         n <= Len(lines), n <= Len(after),
         \A j \in 1 .. n : after[j] = lines[j]
  PROVE  /\ UpTo(after, n) <=> UpTo(lines, n)
         /\ \A j \in 1 .. n : Records(after)[j] = Records(lines)[j]
<1>1. \A j \in 1 .. n : Records(after)[j] = Records(lines)[j]
  BY RecordsType
<1>2. ASSUME NEW j \in 1 .. n
      PROVE  Holds(after, j) <=> Holds(lines, j)
  <2>1. HashBefore(Records(after), j) = HashBefore(Records(lines), j)
    BY <1>1 DEF HashBefore
  <2> QED BY <1>1, <2>1 DEF Holds, LinkHolds
<1> QED BY <1>1, <1>2 DEF UpTo

\* What verifies, record by record.
LEMMA VerifiedIs ==
  ASSUME NEW lines \in Seq(Line)
  PROVE  /\ Verified(lines) \in Seq(AuditRecord)
         /\ Len(Verified(lines)) = LengthOf(lines)
         /\ \A j \in 1 .. LengthOf(lines) : Verified(lines)[j] = Records(lines)[j]
<1>1. /\ Records(lines) \in Seq(AuditRecord)
      /\ Len(Records(lines)) = Len(lines)
      /\ LengthOf(lines) \in 0 .. Len(lines)
  BY RecordsType, LengthIsLongest DEF Chain
<1> QED BY <1>1 DEF Verified

\* Lines of which some no longer holds, those before it being as they were, are a
\* broken log: what verifies is what did, or less.
LEMMA BrokenAt ==
  ASSUME NEW lines \in Seq(Line), NEW after \in Seq(Line),
         NEW i \in 1 .. Len(after), i <= Len(lines) + 1,
         \A j \in 1 .. i - 1 : after[j] = lines[j],
         ~UpTo(after, i)
  PROVE  /\ ~Verifies(after)
         /\ \E n \in 0 .. Len(Verified(lines)) :
              Verified(after) = SubSeq(Verified(lines), 1, n)
<1> DEFINE n == LengthOf(after)
<1>1. Len(lines) \in Nat /\ Len(after) \in Nat
  OBVIOUS
<1>2. n \in 0 .. Len(after) /\ UpTo(after, n)
  BY LengthIsLongest
<1> HIDE DEF n
<1>3. n < i
  BY <1>1, <1>2 DEF UpTo
<1>4. n \in 0 .. Len(lines) /\ \A j \in 1 .. n : after[j] = lines[j]
  BY <1>1, <1>2, <1>3
<1>5. /\ UpTo(lines, n)
      /\ \A j \in 1 .. n : Records(after)[j] = Records(lines)[j]
  BY <1>1, <1>2, <1>4, AgreeingLines
<1>6. n <= LengthOf(lines) /\ LengthOf(lines) \in Nat
  BY <1>4, <1>5, LengthIsLongest
<1>7. ~Verifies(after)
  <2>1. ~UpTo(after, Len(after))
    BY <1>1 DEF UpTo
  <2> QED BY <2>1, VerifiesAll
<1>8. /\ Verified(after) \in Seq(AuditRecord) /\ Len(Verified(after)) = n
      /\ \A j \in 1 .. n : Verified(after)[j] = Records(after)[j]
  BY VerifiedIs DEF n
<1>9. /\ Verified(lines) \in Seq(AuditRecord) /\ Len(Verified(lines)) = LengthOf(lines)
      /\ \A j \in 1 .. LengthOf(lines) : Verified(lines)[j] = Records(lines)[j]
  BY VerifiedIs
<1> DEFINE cut == SubSeq(Verified(lines), 1, n)
<1>10. /\ cut \in Seq(AuditRecord) /\ Len(cut) = n
       /\ \A j \in 1 .. n : cut[j] = Verified(lines)[j]
  BY <1>2, <1>6, <1>9
<1> HIDE DEF cut
<1>11. Verified(after) = cut
  BY <1>5, <1>6, <1>8, <1>9, <1>10, SeqEqual
<1>12. n \in 0 .. Len(Verified(lines))
  BY <1>2, <1>6, <1>9
<1> QED BY <1>7, <1>11, <1>12 DEF cut

\* A file that verifies with one line more grew by the record that the chain in it
\* calls for, whatever chain the writer took it from.
LEMMA VerifiedGrows ==
  ASSUME NEW lines \in Seq(Line), NEW r \in AuditRecord, NEW b \in BOOLEAN,
         Verifies(NewLine(lines, r, b))
  PROVE  /\ Verifies(lines)
         /\ Verified(NewLine(lines, r, b)) = AppendRecord(Verified(lines), r.payload)
<1> DEFINE after == NewLine(lines, r, b)
           N == Len(lines)
<1>1. /\ after \in Seq(Line)
      /\ Len(after) = N + 1
      /\ after[N + 1] = [record |-> r, intact |-> b]
      /\ \A i \in 1 .. N : after[i] = lines[i]
      /\ Verifies(lines)
  BY NewLineKeepsBroken DEF Verifies
<1> HIDE DEF after
<1>2. N \in Nat
  OBVIOUS
<1>3. LengthOf(lines) = N /\ LengthOf(after) = N + 1 /\ UpTo(after, N + 1)
  BY <1>1, VerifiesAll DEF after
<1>4. /\ Len(Records(after)) = N + 1
      /\ Records(after)[N + 1] = r
      /\ \A j \in 1 .. N : Records(after)[j] = Records(lines)[j]
      /\ Len(Records(lines)) = N
  BY <1>1, <1>2, RecordsType
<1>5. /\ Verified(lines) \in Seq(AuditRecord) /\ Len(Verified(lines)) = N
      /\ \A j \in 1 .. N : Verified(lines)[j] = Records(lines)[j]
  BY <1>3, VerifiedIs
<1>6. /\ Verified(after) \in Seq(AuditRecord) /\ Len(Verified(after)) = N + 1
      /\ \A j \in 1 .. N + 1 : Verified(after)[j] = Records(after)[j]
  BY <1>1, <1>3, VerifiedIs
<1>7. r.payload \in Payload
  BY DEF AuditRecord
<1>8. r = NextRecord(Verified(lines), r.payload)
  <2> DEFINE h == HashBefore(Verified(lines), N + 1)
  <2>1. LinkHolds(Records(after), N + 1)
    BY <1>2, <1>3 DEF UpTo, Holds
  <2>2. HashBefore(Records(after), N + 1) = h
    BY <1>2, <1>4, <1>5 DEF HashBefore
  <2> HIDE DEF h
  <2>3. /\ r.sequence = N + 1
        /\ r.previousHash = h
        /\ r.currentHash = Digest(N + 1, r.payload, h)
    BY <1>4, <2>1, <2>2 DEF LinkHolds, SelfConsistent
  <2>4. NextRecord(Verified(lines), r.payload)
          = [sequence |-> N + 1, payload |-> r.payload, previousHash |-> h,
             currentHash |-> Digest(N + 1, r.payload, h)]
    BY <1>5 DEF NextRecord, h
  <2>5. r = [sequence |-> r.sequence, payload |-> r.payload,
             previousHash |-> r.previousHash, currentHash |-> r.currentHash]
    BY DEF AuditRecord
  <2> QED BY <2>3, <2>4, <2>5
<1> DEFINE next == AppendRecord(Verified(lines), r.payload)
<1>9. /\ next \in Seq(AuditRecord) /\ Len(next) = N + 1
      /\ next[N + 1] = r
      /\ \A j \in 1 .. N : next[j] = Verified(lines)[j]
  BY <1>5, <1>7, <1>8, AppendRecordType DEF Chain
<1> HIDE DEF next
<1>10. \A j \in 1 .. N + 1 : Verified(after)[j] = next[j]
  BY <1>2, <1>4, <1>5, <1>6, <1>9
<1>11. Verified(after) = next
  BY <1>6, <1>9, <1>10, SeqEqual
<1> QED BY <1>1, <1>11 DEF after, next

\* What is left of the file when a line of it is damaged, or glued to.
Spoiled(lines, after) ==
  \E i \in 1 .. Len(lines) :
    /\ Len(after) = Len(lines)
    /\ \A j \in 1 .. i - 1 : after[j] = lines[j]
    /\ ~Holds(after, i)

\* ... and when one record is written to the end of it.
Written(lines, after) ==
  \E r \in AuditRecord, b \in BOOLEAN : after = NewLine(lines, r, b)

\* A line that no longer parses spoils the file.
LEMMA UnreadableLineSpoils ==
  ASSUME NEW lines \in Seq(Line), NEW i \in 1 .. Len(lines)
  PROVE  LET cut == [lines EXCEPT ![i] = [@ EXCEPT !.intact = FALSE]]
         IN  cut \in Seq(Line) /\ Spoiled(lines, cut)
<1>1. lines[i] \in Line
  BY ElementOfSeq
<1> DEFINE new == [lines[i] EXCEPT !.intact = FALSE]
           cut == [lines EXCEPT ![i] = new]
<1>2. new \in Line /\ new.intact = FALSE
  BY <1>1 DEF Line
<1> HIDE DEF new
<1>3. /\ cut \in Seq(Line)
      /\ Len(cut) = Len(lines)
      /\ cut[i] = new
      /\ \A j \in 1 .. i - 1 : cut[j] = lines[j]
  BY <1>2, ExceptSeq
<1> HIDE DEF cut
<1>4. ~Holds(cut, i)
  BY <1>2, <1>3 DEF Holds
<1>5. Spoiled(lines, cut)
  BY <1>3, <1>4 DEF Spoiled
<1> QED BY <1>3, <1>5 DEF cut, new

\* So does a consistent record whose payload is another.
LEMMA AlteredPayloadSpoils ==
  ASSUME NEW lines \in Seq(Line), NEW i \in 1 .. Len(lines),
         SelfConsistent(lines[i].record),
         NEW p \in Payload, p # lines[i].record.payload
  PROVE  Spoiled(lines, AlterPayload(lines, i, p))
<1> DEFINE after == AlterPayload(lines, i, p)
<1>0. lines[i] \in Line
  BY ElementOfSeq
<1>1. /\ after \in Seq(Line)
      /\ Len(after) = Len(lines)
      /\ \A j \in 1 .. Len(lines) : after[j].record.currentHash = lines[j].record.currentHash
  BY AlteredPayloadBreaks
<1>2. \A j \in 1 .. Len(lines) : j # i => after[j] = lines[j]
  BY DEF AlterPayload
<1>3. after[i].record = [lines[i].record EXCEPT !.payload = p]
  BY <1>0 DEF AlterPayload, Line
<1>4. lines[i].record \in AuditRecord
  BY <1>0 DEF Line
<1> DEFINE old == lines[i].record
           new == after[i].record
<1>5. /\ new.sequence = old.sequence /\ new.payload = p
      /\ new.previousHash = old.previousHash /\ new.currentHash = old.currentHash
  BY <1>3, <1>4 DEF AuditRecord
<1> HIDE DEF after
<1>6. ASSUME SelfConsistent(new) PROVE FALSE
  <2>1. Digest(old.sequence, p, old.previousHash)
          = Digest(old.sequence, old.payload, old.previousHash)
    BY <1>5, <1>6 DEF SelfConsistent
  <2>2. old.sequence \in Nat /\ old.payload \in Payload /\ old.previousHash \in Hash
    BY <1>4 DEF AuditRecord
  <2> HIDE DEF old
  <2>3. p = old.payload
    BY <2>1, <2>2, DigestInjective
  <2> QED BY <2>3 DEF old
<1>7. Records(after)[i] = new
  BY <1>1, RecordsType
<1>8. ~Holds(after, i)
  BY <1>6, <1>7 DEF Holds, LinkHolds
<1>9. i \in Int /\ \A j \in 1 .. i - 1 : j \in 1 .. Len(lines) /\ j # i
  OBVIOUS
<1>10. \A j \in 1 .. i - 1 : after[j] = lines[j]
  BY <1>2, <1>9
<1> QED BY <1>1, <1>8, <1>10 DEF Spoiled, after

\* An append, entered with a chain, writes one record, spoils the last line, or
\* leaves the file.
LEMMA AppendWrites ==
  ASSUME IInv, NEW m \in Chain, NEW s, NEW p \in Payload,
         initialized \/ InitializeSucceeds => VerifyIntegrity(m),
         LedgerAppend(m, s, p)
  PROVE  file' = file \/ Written(file, file') \/ Spoiled(file, file')
<1> DEFINE next == AppendRecord(OpenedMemory(m), p)
           r == next[Len(next)]
<1>1. OpenedMemory(m) \in Chain
  BY OpenedMemoryFacts DEF IInv
<1>2. r \in AuditRecord
  <2>1. Len(OpenedMemory(m)) \in Nat
    BY <1>1 DEF Chain
  <2>2. r = NextRecord(OpenedMemory(m), p)
    BY <1>1, <2>1, AppendRecordType
  <2> QED BY <1>1, <2>2, NextRecordType
<1>3. ASSUME NEW outcome \in WriteOutcomes, WriteLine(r, outcome)
      PROVE  file' = file \/ Written(file, file') \/ Spoiled(file, file')
  <2> HIDE DEF r
  <2>1. file \in Seq(Line)
    BY DEF IInv, TypeOK
  <2>2. CASE outcome = "nothing"
    BY <1>3, <2>2 DEF WriteLine
  <2>3. CASE outcome # "nothing" /\ terminated
    <3>1. file' = NewLine(file, r, outcome # "fragment")
      BY <1>3, <2>3 DEF WriteLine
    <3>2. (outcome # "fragment") \in BOOLEAN
      OBVIOUS
    <3> QED BY <1>2, <3>1, <3>2 DEF Written
  <2>4. CASE outcome # "nothing" /\ ~terminated
    <3>1. file' = Glue(file)
      BY <1>3, <2>4 DEF WriteLine
    <3>2. Len(file) \in 1 .. Len(file)
      BY <2>1, <2>4, EmptySeq, SMT DEF IInv, UnterminatedHasLine
    <3> QED BY <2>1, <3>1, <3>2, UnreadableLineSpoils DEF Glue
  <2> QED BY <2>2, <2>3, <2>4
<1>4. Refuse(m, s) => file' = file
  BY DEF Refuse, disk
<1> QED BY <1>3, <1>4 DEF LedgerAppend, Persist, PersistAndCrash

\* Every step writes one record, spoils a line, or leaves the file.
LEMMA FileSteps ==
  ASSUME IInv, [Next]_vars
  PROVE  file' = file \/ Written(file, file') \/ Spoiled(file, file')
<1>1. ASSUME NEW p \in Payload, RecordAudit(p)
      PROVE  file' = file \/ Written(file, file') \/ Spoiled(file, file')
  <2>1. memory \in Chain
    BY DEF IInv, TypeOK
  <2>2. initialized \/ InitializeSucceeds => VerifyIntegrity(memory)
    BY DEF IInv, WritableServicesVerify
  <2> QED BY <1>1, <2>1, <2>2, AppendWrites DEF RecordAudit
<1>2. ASSUME NEW p \in Payload, EvaluateDecision(p)
      PROVE  file' = file \/ Written(file, file') \/ Spoiled(file, file')
  <2> DEFINE s == AppendRecord(service, p)
             m == IF shared THEN s ELSE memory
  <2>1. s \in Chain /\ (VerifyIntegrity(service) => VerifyIntegrity(s))
    BY AppendRecordType, AppendRecordVerifies DEF IInv, TypeOK
  <2>2. LedgerAppend(m, s, p)
    BY <1>2 DEF EvaluateDecision
  <2> HIDE DEF s
  <2>3. m \in Chain
    BY <2>1 DEF IInv, TypeOK
  <2>4. initialized \/ InitializeSucceeds => VerifyIntegrity(m)
    BY <2>1 DEF IInv, WritableServicesVerify
  <2> HIDE DEF m
  <2> QED BY <2>2, <2>3, <2>4, AppendWrites
<1>3. ASSUME NEW i \in 1 .. Len(file), DamageLine(i)
      PROVE  Spoiled(file, file')
  <2>1. file \in Seq(Line) /\ SelfConsistent(file[i].record)
    BY <1>3 DEF IInv, TypeOK, DamageLine
  <2>2. ASSUME NEW p \in Payload \ {file[i].record.payload}, file' = AlterPayload(file, i, p)
        PROVE  Spoiled(file, file')
    BY <2>1, <2>2, AlteredPayloadSpoils
  <2>3. CASE file' = [file EXCEPT ![i] = [@ EXCEPT !.intact = FALSE]]
    BY <2>1, <2>3, UnreadableLineSpoils
  <2> QED BY <1>3, <2>2, <2>3 DEF DamageLine
<1> QED
  BY <1>1, <1>2, <1>3
  DEF Next, StartServer, StartUninitialized, Crash, AppendInMemory, disk, vars

\* What the abstract log is read from is what Verified and Verifies say of file.
LogIsFile == VerifiedRecords = Verified(file) /\ (FileVerifies <=> Verifies(file))

\* It always does, by definition.
LEMMA LogIs == LogIsFile
BY DEF LogIsFile, VerifiedRecords, VerifiedLength, VerifiedUpTo, Verified, LengthOf, UpTo,
       Holds, FileVerifies, Verifies

\* Whatever a step does to the file is a step of the abstract log, or none.
LEMMA LogStep ==
  ASSUME IInv, IInv', LogIsFile, LogIsFile', [Next]_vars
  PROVE  [Abstract!Next]_(Abstract!logVars)
<1>1. file \in Seq(Line) /\ file' \in Seq(Line)
  BY DEF IInv, TypeOK
<1>2. /\ VerifiedRecords = Verified(file) /\ VerifiedRecords' = Verified(file')
      /\ FileVerifies <=> Verifies(file)
      /\ FileVerifies' <=> Verifies(file')
  BY DEF LogIsFile
<1>3. CASE file' = file
  BY <1>2, <1>3 DEF Abstract!logVars
<1>4. ASSUME NEW i \in 1 .. Len(file'), i <= Len(file) + 1,
             \A j \in 1 .. i - 1 : file'[j] = file[j], ~UpTo(file', i)
      PROVE  Abstract!Break
  BY <1>1, <1>2, <1>4, BrokenAt DEF Abstract!Break
<1>5. ASSUME Spoiled(file, file')
      PROVE  Abstract!Break
  <2>1. PICK i \in 1 .. Len(file) :
          /\ Len(file') = Len(file)
          /\ \A j \in 1 .. i - 1 : file'[j] = file[j]
          /\ ~Holds(file', i)
    BY <1>5 DEF Spoiled
  <2>2. ~UpTo(file', i)
    BY <2>1 DEF UpTo
  <2>3. i \in 1 .. Len(file') /\ i <= Len(file) + 1
    BY <1>1, <2>1
  <2> QED BY <1>4, <2>1, <2>2, <2>3
<1>6. ASSUME Written(file, file')
      PROVE  Abstract!Next
  <2>1. PICK r \in AuditRecord, b \in BOOLEAN : file' = NewLine(file, r, b)
    BY <1>6 DEF Written
  <2>2. CASE Verifies(file')
    <3>1. Verifies(file) /\ Verified(file') = AppendRecord(Verified(file), r.payload)
      BY <1>1, <2>1, <2>2, VerifiedGrows
    <3>2. r.payload \in Payload
      BY DEF AuditRecord
    <3>3. Abstract!AppendRecord(Verified(file), r.payload)
            = AppendRecord(Verified(file), r.payload)
      BY DEF Abstract!AppendRecord, Abstract!NextRecord, Abstract!HashBefore,
             Abstract!GenesisHash, Abstract!Digest,
             AppendRecord, NextRecord, HashBefore, GenesisHash, Digest
    <3> QED BY <1>2, <2>2, <3>1, <3>2, <3>3 DEF Abstract!Next, Abstract!Extend
  <2>3. CASE ~Verifies(file')
    <3>1. /\ Len(file') = Len(file) + 1
          /\ \A j \in 1 .. Len(file) : file'[j] = file[j]
      BY <1>1, <2>1, NewLineKeepsBroken
    <3>2. ~UpTo(file', Len(file) + 1)
      BY <1>1, <2>3, <3>1, VerifiesAll
    <3>3. Len(file) + 1 \in 1 .. Len(file') /\ (Len(file) + 1) - 1 = Len(file)
      BY <1>1, <3>1
    <3>4. Abstract!Break
      BY <1>1, <1>4, <3>1, <3>2, <3>3
    <3> QED BY <3>4 DEF Abstract!Next
  <2> QED BY <2>2, <2>3
<1> QED BY <1>3, <1>5, <1>6, FileSteps DEF Abstract!Next

\* The file is a tamper-evident log, whatever crashes, fails or is altered: as
\* long as it verifies it grows by properly linked records, and once it does not,
\* it never does again and what still verifies only shrinks.
THEOREM TamperEvidence == Spec => ImplementsTamperEvidentLog
<1>1. Init => Abstract!Init
  <2> SUFFICES ASSUME Init PROVE Abstract!Init
    OBVIOUS
  <2>1. file = << >> /\ file \in Seq(Line)
    BY DEF Init
  <2>2. Verifies(file) /\ LengthOf(file) = 0
    <3>1. UpTo(file, Len(file))
      BY <2>1 DEF UpTo
    <3> QED BY <2>1, <3>1, VerifiesAll
  <2>3. Verified(file) = << >>
    BY <2>1, <2>2, VerifiedIs, EmptySeq
  <2> QED BY <2>2, <2>3, LogIs DEF LogIsFile, Abstract!Init
<1>2. IInv /\ IInv' /\ LogIsFile /\ LogIsFile' /\ [Next]_vars
        => [Abstract!Next]_(Abstract!logVars)
  BY LogStep
<1>3. Spec => Abstract!Init /\ [][Abstract!Next]_(Abstract!logVars)
  BY <1>1, <1>2, Invariance, LogIs, PTL DEF Spec
<1> QED BY <1>3 DEF ImplementsTamperEvidentLog, Abstract!Spec

=============================================================================
