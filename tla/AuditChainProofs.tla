-------------------------- MODULE AuditChainProofs --------------------------
(***************************************************************************)
(* Facts about the hash chain that every proof about the ledger cites.     *)
(***************************************************************************)
EXTENDS AuditChain, SequenceTheorems, TLAPS

\* A digest commits to everything it was computed from: SHA-256 over the
\* canonical serialization is collision-free (computeSha256, serializeForHash).
LEMMA DigestInjective ==
  ASSUME NEW s1 \in Nat, NEW s2 \in Nat, NEW p1 \in Payload, NEW p2 \in Payload,
         NEW h1 \in Hash, NEW h2 \in Hash,
         Digest(s1, p1, h1) = Digest(s2, p2, h2)
  PROVE  s1 = s2 /\ p1 = p2 /\ h1 = h2
<1>1. h1 = h2 /\ <<s1, p1>> = <<s2, p2>>
  BY AppendInjective, SMT DEF Digest, Hash
<1> QED BY <1>1

\* A record is determined by its digest, once it is consistent with it.
LEMMA RecordDeterminedByHash ==
  ASSUME NEW r \in AuditRecord, NEW q \in AuditRecord,
         SelfConsistent(r), SelfConsistent(q), r.currentHash = q.currentHash
  PROVE  r = q
<1>1. /\ r.sequence = q.sequence
      /\ r.payload = q.payload
      /\ r.previousHash = q.previousHash
  <2>1. /\ r.sequence \in Nat /\ r.payload \in Payload /\ r.previousHash \in Hash
        /\ q.sequence \in Nat /\ q.payload \in Payload /\ q.previousHash \in Hash
    BY DEF AuditRecord
  <2>2. Digest(r.sequence, r.payload, r.previousHash)
        = Digest(q.sequence, q.payload, q.previousHash)
    BY DEF SelfConsistent
  <2> QED BY <2>1, <2>2, DigestInjective
<1> QED BY <1>1 DEF AuditRecord

\* What a new record links to is a digest.
LEMMA HashBeforeType ==
  ASSUME NEW chain \in Chain, NEW i \in 1 .. Len(chain) + 1
  PROVE  HashBefore(chain, i) \in Hash
<1>1. CASE i = 1
  BY <1>1 DEF HashBefore, GenesisHash, Hash
<1>2. CASE i # 1
  <2>1. chain[i - 1] \in AuditRecord
    BY <1>2 DEF Chain
  <2> QED BY <1>2, <2>1 DEF HashBefore, AuditRecord
<1> QED BY <1>1, <1>2

\* AuditService.append builds a well-formed record whose digest covers it.
LEMMA NextRecordType ==
  ASSUME NEW chain \in Chain, NEW p \in Payload
  PROVE  /\ NextRecord(chain, p) \in AuditRecord
         /\ SelfConsistent(NextRecord(chain, p))
<1> DEFINE n == Len(chain) + 1
           h == HashBefore(chain, n)
<1>1. n \in Nat /\ n \in 1 .. Len(chain) + 1
  BY DEF Chain
<1>2. h \in Hash
  BY <1>1, HashBeforeType
<1>3. Digest(n, p, h) \in Hash
  BY <1>1, <1>2 DEF Digest, Hash
<1> HIDE DEF h
<1>4. NextRecord(chain, p) = [sequence |-> n, payload |-> p, previousHash |-> h,
                              currentHash |-> Digest(n, p, h)]
  BY DEF NextRecord, h
<1> HIDE DEF n
<1> QED BY <1>1, <1>2, <1>3, <1>4 DEF AuditRecord, SelfConsistent

\* ... and appends it, leaving what is there alone.
LEMMA AppendRecordType ==
  ASSUME NEW chain \in Chain, NEW p \in Payload
  PROVE  /\ AppendRecord(chain, p) \in Chain
         /\ Len(AppendRecord(chain, p)) = Len(chain) + 1
         /\ AppendRecord(chain, p)[Len(chain) + 1] = NextRecord(chain, p)
         /\ \A i \in 1 .. Len(chain) : AppendRecord(chain, p)[i] = chain[i]
BY NextRecordType DEF AppendRecord, Chain

\* A chain that verifies still verifies after an append.
LEMMA AppendRecordVerifies ==
  ASSUME NEW chain \in Chain, NEW p \in Payload, VerifyIntegrity(chain)
  PROVE  VerifyIntegrity(AppendRecord(chain, p))
<1> DEFINE next == AppendRecord(chain, p)
<1>1. /\ next \in Chain
      /\ Len(next) = Len(chain) + 1
      /\ next[Len(chain) + 1] = NextRecord(chain, p)
      /\ \A i \in 1 .. Len(chain) : next[i] = chain[i]
  BY AppendRecordType
<1> HIDE DEF next
<1>2. Len(chain) \in Nat
  BY DEF Chain
<1>3. ASSUME NEW i \in 1 .. Len(chain) + 1
      PROVE  HashBefore(next, i) = HashBefore(chain, i)
  BY <1>1, <1>2 DEF HashBefore
<1>4. SUFFICES ASSUME NEW i \in 1 .. Len(next) PROVE LinkHolds(next, i)
  BY DEF VerifyIntegrity, next
<1>5. CASE i <= Len(chain)
  BY <1>1, <1>2, <1>3, <1>5 DEF VerifyIntegrity, LinkHolds
<1>6. CASE i = Len(chain) + 1
  <2>1. SelfConsistent(NextRecord(chain, p))
    BY NextRecordType
  <2>2. /\ NextRecord(chain, p).sequence = i
        /\ NextRecord(chain, p).previousHash = HashBefore(chain, i)
    BY <1>6 DEF NextRecord
  <2> QED BY <1>1, <1>3, <1>6, <2>1, <2>2 DEF LinkHolds
<1> QED BY <1>1, <1>2, <1>5, <1>6

\* The empty chain verifies.
LEMMA EmptyChainVerifies == << >> \in Chain /\ VerifyIntegrity(<< >>)
BY DEF Chain, VerifyIntegrity

=============================================================================
