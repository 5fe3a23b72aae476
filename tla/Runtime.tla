------------------------------ MODULE Runtime ------------------------------
(***************************************************************************)
(* What several components use of the runtime: Date.now(), and             *)
(* Array.prototype.filter.                                                 *)
(***************************************************************************)
EXTENDS Naturals, FiniteSets

CONSTANT MaxTime  \* bound: the clock

ASSUME ClockAssumption == MaxTime \in Nat

VARIABLE now

Advance == now < MaxTime /\ now' = now + 1

\* The entries at some positions, in their order.
Filtered(entries, at) ==
  [n \in 1 .. Cardinality(at) |->
     entries[CHOOSE i \in at : Cardinality({j \in at : j <= i}) = n]]

=============================================================================
