-------------------------- MODULE TamperEvidentLog --------------------------
(***************************************************************************)
(* What an audit ledger on a fallible medium can promise its readers: a    *)
(* chained log that grows at its end, until something breaks it; from then *)
(* on it is known to be broken, and what still verifies only shrinks.      *)
(***************************************************************************)
EXTENDS AuditChain

VARIABLES
  log,    \* the records that verify
  sealed  \* it is known to be broken

logVars == <<log, sealed>>

Init ==
  /\ log = << >>
  /\ sealed = FALSE

Extend ==
  /\ ~sealed
  /\ \E p \in Payload : log' = AppendRecord(log, p)
  /\ UNCHANGED sealed

Break ==
  /\ \E n \in 0 .. Len(log) : log' = SubSeq(log, 1, n)
  /\ sealed' = TRUE

Next == Extend \/ Break

Spec == Init /\ [][Next]_logVars

=============================================================================
