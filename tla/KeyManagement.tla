--------------------------- MODULE KeyManagement ---------------------------
(***************************************************************************)
(* src/secrets/kms.ts: envelopes sealed under master keys that can be      *)
(* created, created again under the same id, and destroyed.                *)
(*                                                                         *)
(* randomBytes(32) is a key no other call returned: the number of keys     *)
(* made so far.  The all-zero key a destroyed one is overwritten with is   *)
(* 0.  An envelope is the key id it names and the raw key its data key is  *)
(* wrapped with: AES-GCM opens it with that raw key and no other.          *)
(* Abstracted: plaintexts, data keys and vectors.                          *)
(***************************************************************************)
EXTENDS Naturals

CONSTANTS
  KeyId,    \* ids of master keys
  Default,  \* "default-master-kek"
  MaxKeys   \* bound: master keys ever made

ASSUME DefaultAssumption == Default \in KeyId
ASSUME KeysAssumption == MaxKeys \in Nat \ {0}

VARIABLES
  masterKeys,  \* key id |-> state and raw key
  keysMade,    \* randomBytes(32) so far
  envelopes    \* what encryptEnvelope returned so far

MasterKey == [state : {"ACTIVE", "DESTROYED"}, rawKey : Nat]
Envelope == [keyId : KeyId, wrappedBy : Nat]

Zeroes == 0

\* A fault of FreshKey: the key is derived from its id instead of drawn.
DerivedKey == 1

FreshKey == keysMade + 1

CreateMasterKey(k) ==
  /\ keysMade < MaxKeys
  /\ keysMade' = keysMade + 1
  /\ masterKeys' = [i \in DOMAIN masterKeys \union {k} |->
                      IF i = k THEN [state |-> "ACTIVE", rawKey |-> FreshKey]
                      ELSE masterKeys[i]]
  /\ UNCHANGED envelopes

Sealable(k) == k \in DOMAIN masterKeys /\ masterKeys[k].state = "ACTIVE"

EncryptEnvelope(k) ==
  /\ Sealable(k)
  /\ envelopes' = envelopes \union
                    {[keyId |-> k, wrappedBy |-> masterKeys[k].rawKey]}
  /\ UNCHANGED <<masterKeys, keysMade>>

(* decryptEnvelope returns the plaintext. *)
Opens(e) ==
  /\ e.keyId \in DOMAIN masterKeys
  /\ masterKeys[e.keyId].state # "DESTROYED"
  /\ masterKeys[e.keyId].rawKey = e.wrappedBy

DestroyMasterKey(k) ==
  /\ k \in DOMAIN masterKeys
  /\ masterKeys' = [masterKeys EXCEPT ![k] = [state |-> "DESTROYED",
                                               rawKey |-> Zeroes]]
  /\ UNCHANGED <<keysMade, envelopes>>

KmsInit ==
  /\ masterKeys = [k \in {Default} |-> [state |-> "ACTIVE", rawKey |-> 1]]
  /\ keysMade = 1
  /\ envelopes = {}

KmsNext ==
  \E k \in KeyId :
    CreateMasterKey(k) \/ EncryptEnvelope(k) \/ DestroyMasterKey(k)

KmsTypeOK ==
  /\ DOMAIN masterKeys \subseteq KeyId
  /\ \A k \in DOMAIN masterKeys : masterKeys[k] \in MasterKey
  /\ keysMade \in Nat
  /\ envelopes \in SUBSET Envelope

-----------------------------------------------------------------------------
(* No data key was ever wrapped with the zeroes a destroyed master key is  *)
(* overwritten with: what anyone could open.                               *)
NothingSealedByZeroes == \A e \in envelopes : e.wrappedBy # Zeroes

Vault == INSTANCE EnvelopeVault WITH
           openable <- {e \in envelopes : Opens(e)},
           shredded <- {e \in envelopes : ~Opens(e)}

(* What the vault of envelopes promises: an envelope can be opened until   *)
(* its master key is destroyed or made anew, and from then on never again, *)
(* whatever keys are made under the same id.                               *)
ImplementsVault == Vault!Spec

=============================================================================
