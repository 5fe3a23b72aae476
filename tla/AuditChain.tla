----------------------------- MODULE AuditChain -----------------------------
(***************************************************************************)
(* The hash chain of src/audit/audit-service.ts: how a record is linked to *)
(* the one before it, and what verifyIntegrity() checks.                   *)
(*                                                                         *)
(* A record's who, what, when, where, why, result, details and auditId are *)
(* one opaque payload.  SHA-256 is taken to be collision-free: the digest  *)
(* of a record is the digest of its predecessor extended by the record's   *)
(* own sequence number and payload, so a digest names a whole history.     *)
(***************************************************************************)
EXTENDS Integers, Sequences

CONSTANT Payload  \* what an entry says

ASSUME PayloadAssumption == Payload # {}

Hash == Seq(Nat \X Payload)

GenesisHash == << >>

Digest(sequence, payload, previousHash) ==
  Append(previousHash, <<sequence, payload>>)

AuditRecord == [sequence     : Nat,
                payload      : Payload,
                previousHash : Hash,
                currentHash  : Hash]

Chain == Seq(AuditRecord)

\* The digest that position i of a chain must link to.
HashBefore(chain, i) ==
  IF i = 1 THEN GenesisHash ELSE chain[i - 1].currentHash

\* AuditService.append builds this record.
NextRecord(chain, payload) ==
  LET n == Len(chain) + 1
  IN  [sequence     |-> n,
       payload      |-> payload,
       previousHash |-> HashBefore(chain, n),
       currentHash  |-> Digest(n, payload, HashBefore(chain, n))]

AppendRecord(chain, payload) == Append(chain, NextRecord(chain, payload))

\* What a record must satisfy by itself: its digest covers its own contents.
SelfConsistent(record) ==
  record.currentHash = Digest(record.sequence, record.payload, record.previousHash)

\* A verification that trusts the stored digests.
LinkHoldsByDigestAlone(chain, i) ==
  /\ chain[i].sequence = i
  /\ chain[i].previousHash = HashBefore(chain, i)

\* What verifyIntegrity() checks at index i, and what it checks of the chain.
LinkHolds(chain, i) ==
  /\ chain[i].sequence = i
  /\ chain[i].previousHash = HashBefore(chain, i)
  /\ SelfConsistent(chain[i])

VerifyIntegrity(chain) == \A i \in 1 .. Len(chain) : LinkHolds(chain, i)

=============================================================================
