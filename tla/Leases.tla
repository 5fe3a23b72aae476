------------------------------- MODULE Leases -------------------------------
(***************************************************************************)
(* A table of leases, as its users see it: a key is held from the moment   *)
(* it is granted until its deadline has passed or it is revoked, and is    *)
(* granted only while it is not held.                                      *)
(***************************************************************************)
EXTENDS Naturals, Functions

CONSTANTS
  Key,       \* what is leased
  Term,      \* for how long a lease may be granted: a set of naturals
  Revocable  \* TRUE: the table may drop leases before their deadline

VARIABLES
  now,       \* the time
  deadline,  \* the last moment of every lease held
  grants     \* how often each key was granted

leaseVars == <<now, deadline, grants>>

Held == DOMAIN deadline

Init ==
  /\ now = 0
  /\ deadline = [k \in {} |-> 0]
  /\ grants = [k \in Key |-> 0]

Tick ==
  /\ now' = now + 1
  /\ deadline' = Restrict(deadline, {k \in Held : deadline[k] >= now'})
  /\ UNCHANGED grants

Revoke(dropped) ==
  /\ Revocable
  /\ deadline' = Restrict(deadline, Held \ dropped)
  /\ UNCHANGED <<now, grants>>

Grant(k, term, dropped) ==
  /\ k \notin Held
  /\ dropped = {} \/ Revocable
  /\ deadline' = [h \in (Held \ dropped) \union {k} |->
                    IF h = k THEN now + term ELSE deadline[h]]
  /\ grants' = [grants EXCEPT ![k] = @ + 1]
  /\ UNCHANGED now

Next ==
  \/ Tick
  \/ \E dropped \in SUBSET Held : Revoke(dropped)
  \/ \E k \in Key, term \in Term, dropped \in SUBSET Held : Grant(k, term, dropped)

Spec == Init /\ [][Next]_leaseVars

=============================================================================
