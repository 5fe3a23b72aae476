---------------------------- MODULE SlidingWindow ----------------------------
(***************************************************************************)
(* A quota over a sliding window, as its users see it: of the requests of  *)
(* a key, at most Limit are admitted within any Window, but for those that *)
(* are forgotten because there is no room for them.                        *)
(***************************************************************************)
EXTENDS Naturals, Sequences, FiniteSets

CONSTANTS
  Key,       \* whose requests are counted
  Limit,     \* [Key -> Nat]: how many may be admitted
  Window     \* [Key -> Nat]: within how long

VARIABLES
  now,          \* the time
  forgettable,  \* the keys there is no room for, by the implementation's choice
  admitted      \* when the requests of each key were admitted that still count

windowVars == <<now, admitted>>

Init ==
  /\ now \in Nat
  /\ admitted = [k \in Key |-> <<>>]

\* Requests are admitted in the order of time: those that no longer count are the
\* first of them.
Leaving(k) == {i \in DOMAIN admitted[k] : admitted[k][i] + Window[k] <= now'}

Tick ==
  /\ now' = now + 1
  /\ admitted' = [k \in Key |->
                    SubSeq(admitted[k], Cardinality(Leaving(k)) + 1, Len(admitted[k]))]

Admit(k) ==
  /\ Len(admitted[k]) < Limit[k]
  /\ admitted' = [admitted EXCEPT ![k] = Append(@, now)]
  /\ UNCHANGED now

\* All requests are forgotten at the user's wish.
Reset == admitted' = [k \in Key |-> <<>>] /\ UNCHANGED now

\* Requests are forgotten to make room for one that is admitted.
ForgetAndAdmit(forgotten, k) ==
  /\ k \notin forgotten
  /\ Len(admitted[k]) < Limit[k]
  /\ admitted' = [h \in Key |-> IF h \in forgotten THEN <<>>
                                ELSE IF h = k THEN Append(admitted[k], now)
                                ELSE admitted[h]]
  /\ UNCHANGED now

Next ==
  \/ Tick
  \/ \E k \in Key : Admit(k)
  \/ Reset
  \/ \E forgotten \in SUBSET forgettable, k \in Key : ForgetAndAdmit(forgotten, k)

Spec == Init /\ [][Next]_windowVars

=============================================================================
