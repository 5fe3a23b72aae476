--------------------------- MODULE EnvelopeVault ---------------------------
(***************************************************************************)
(* What cryptographic shredding promises, whatever the keys are made of:   *)
(* what is sealed under a key id can be opened until everything under that *)
(* id is shredded at once, and what is shredded stays shredded.            *)
(***************************************************************************)
CONSTANT KeyId

VARIABLES openable, shredded

Init == openable = {} /\ shredded = {}

Seal ==
  \E e \in openable' :
    /\ e.keyId \in KeyId
    /\ e \notin shredded
    /\ openable' = openable \union {e}
    /\ UNCHANGED shredded

Under(k) == {e \in openable : e.keyId = k}

Shred(k) ==
  /\ openable' = openable \ Under(k)
  /\ shredded' = shredded \union Under(k)

Next == Seal \/ \E k \in KeyId : Shred(k)

Spec == Init /\ [][Next]_<<openable, shredded>>

=============================================================================
