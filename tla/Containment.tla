----------------------------- MODULE Containment -----------------------------
(***************************************************************************)
(* Quarantines: src/agents/containment.ts, the coordinator of              *)
(* src/agents/coordinator.ts that applies them to alerts as triaged by     *)
(* src/agents/sentinel.ts, and the release handler of                      *)
(* src/server/routes.ts, which awaits a policy decision between reading    *)
(* the request and lifting the quarantine.                                 *)
(*                                                                         *)
(* Nothing runs when a deadline passes: a record says ACTIVE until         *)
(* somebody looks.  A quarantine's id is its position in the Map.          *)
(***************************************************************************)
EXTENDS Naturals, Sequences, FiniteSetsExt

CONSTANTS
  Target,          \* actors, addresses, agents, services
  Request,         \* release requests that may be in progress at a time
  TtlRequest,      \* the ttlMs of requests, 0 when absent
  DefaultTtl,      \* defaultTtlMs
  MaxTtl,          \* maxTtlMs
  LedgerMayFail,   \* TRUE: PersistentAuditLedger.append may throw
  MaxQuarantines,  \* bound: quarantines ever applied
  MaxTime          \* bound: the clock

ASSUME ContainmentAssumption ==
  /\ TtlRequest \subseteq Nat
  /\ DefaultTtl \in Nat \ {0}
  /\ MaxTtl \in Nat
  /\ LedgerMayFail \in BOOLEAN
  /\ MaxQuarantines \in Nat
  /\ MaxTime \in Nat

VARIABLES
  now,          \* the clock
  quarantines,  \* ContainmentAgent.quarantines, in insertion order
  activeGauge,  \* sovereign_active_quarantines
  deciding,     \* release requests awaiting decisionPipeline.evaluate
  answers,      \* how each release request was answered
  trail,        \* containment records in the audit service, per quarantine
  persisted     \* soc.containment.release records in the ledger

vars == <<now, quarantines, activeGauge, deciding, answers, trail, persisted>>

QuarantineId == 1 .. MaxQuarantines

Quarantine == [target : Target, status : {"ACTIVE", "EXPIRED", "RELEASED"},
               expiresAt : Nat]

Decision == [request : Request, quarantine : QuarantineId, allowed : BOOLEAN]

Answer == {"none", "invalid", "released", "denied", "not_found", "error"}

TypeOK ==
  /\ now \in Nat
  /\ quarantines \in Seq(Quarantine)
  /\ activeGauge \in Nat
  /\ deciding \subseteq Decision
  /\ answers \in [Request -> Answer]
  /\ trail \in [{"applied", "released"} -> [QuarantineId -> Nat]]
  /\ persisted \in [QuarantineId -> Nat]

-----------------------------------------------------------------------------
\* ContainmentAgent.

\* An expiry one moment too early.
ExpiredAtDeadline(q) == q.status = "ACTIVE" /\ q.expiresAt <= now

Expired(q) == q.status = "ACTIVE" /\ q.expiresAt < now

InForce(q) == q.status = "ACTIVE" /\ ~Expired(q)

Expire(q) == IF Expired(q) THEN [q EXCEPT !.status = "EXPIRED"] ELSE q

\* getActiveQuarantines: every record found expired is marked, the others
\* returned.
Swept(qs) == [i \in DOMAIN qs |-> Expire(qs[i])]

\* A count that leaves out what is on its last moment.
CountBeforeDeadline(qs) ==
  Cardinality({i \in DOMAIN qs : qs[i].status = "ACTIVE" /\ now < qs[i].expiresAt})

ActiveCount(qs) == Cardinality({i \in DOMAIN qs : InForce(qs[i])})

\* isQuarantined: the scan marks what it passes and stops at the first
\* quarantine in force on the target.
Scanned(qs, target) ==
  LET hits == {i \in DOMAIN qs : InForce(qs[i]) /\ qs[i].target = target}
  IN  [i \in DOMAIN qs |->
         IF hits = {} \/ i <= Min(hits) THEN Expire(qs[i]) ELSE qs[i]]

\* Requests without a ceiling.
UnboundedTtl(ttl) == IF ttl = 0 THEN DefaultTtl ELSE ttl

EffectiveTtl(ttl) == Min({UnboundedTtl(ttl), MaxTtl})

Record(event, id) == trail' = [trail EXCEPT ![event][id] = @ + 1]

Apply(target, ttl) ==
  LET new == [target |-> target, status |-> "ACTIVE",
              expiresAt |-> now + EffectiveTtl(ttl)]
  IN  /\ Len(quarantines) < MaxQuarantines
      /\ now + MaxTtl < MaxTime
      /\ quarantines' = Swept(Append(quarantines, new))
      /\ activeGauge' = ActiveCount(quarantines')
      /\ Record("applied", Len(quarantines'))

\* release() that does not look at the status.
KnownQuarantine(id) == id \in DOMAIN quarantines

CanRelease(id) ==
  id \in DOMAIN quarantines /\ quarantines[id].status = "ACTIVE"

\* The deadline is not looked at.
Lift(id) ==
  /\ quarantines' = Swept([quarantines EXCEPT ![id].status = "RELEASED"])
  /\ activeGauge' = ActiveCount(quarantines')
  /\ Record("released", id)

-----------------------------------------------------------------------------
\* SentinelAgent.triageAlert and the coordinator.

\* What triage and coordination tell apart of an alert: a synthetic actor or
\* title, CRITICAL severity, a title that names a critical threat, and two or
\* more correlated alerts.
Alert == [target : Target, synthetic : BOOLEAN, critical : BOOLEAN,
          threat : BOOLEAN, repeated : BOOLEAN]

Triage(alert) ==
  CASE alert.synthetic                 -> "SUPPRESS"
    [] ~alert.synthetic
       /\ (alert.critical \/ alert.threat) -> "CONTAIN"
    [] ~alert.synthetic /\ ~alert.critical /\ ~alert.threat
       /\ alert.repeated               -> "ESCALATE"
    [] OTHER                           -> "INVESTIGATE"

Contains(alert, autoContain) ==
  Triage(alert) = "CONTAIN" \/ (autoContain /\ alert.critical)

-----------------------------------------------------------------------------
Init ==
  /\ now = 0
  /\ quarantines = << >>
  /\ activeGauge = 0
  /\ deciding = {}
  /\ answers = [r \in Request |-> "none"]
  /\ trail = [e \in {"applied", "released"} |-> [id \in QuarantineId |-> 0]]
  /\ persisted = [id \in QuarantineId |-> 0]

\* POST /api/v1/agents/containment/quarantine.
ApplyQuarantine(target, ttl) ==
  /\ Apply(target, ttl)
  /\ UNCHANGED <<now, deciding, answers, persisted>>

\* POST /api/v1/agents/coordinator/process, when it contains.
ProcessAlert(alert, autoContain) ==
  /\ Contains(alert, autoContain)
  /\ Apply(alert.target, 0)
  /\ UNCHANGED <<now, deciding, answers, persisted>>

\* The platform summary, the overview and the list of active quarantines all
\* call getActiveQuarantines.
ListActive ==
  /\ quarantines' = Swept(quarantines)
  /\ UNCHANGED <<now, activeGauge, deciding, answers, trail, persisted>>

IsQuarantined(target) ==
  /\ quarantines' = Scanned(quarantines, target)
  /\ UNCHANGED <<now, activeGauge, deciding, answers, trail, persisted>>

Idle(r) == answers[r] = "none" /\ \A d \in deciding : d.request # r

Respond(r, answer) == answers' = [answers EXCEPT ![r] = answer]

\* Without caller, id, reason or confirmation.
RejectRelease(r) ==
  /\ Idle(r)
  /\ Respond(r, "invalid")
  /\ UNCHANGED <<now, quarantines, activeGauge, deciding, trail, persisted>>

\* The release handler up to its await.  A privileged role is evaluated at risk
\* 10 as an administrator and allowed, any other at risk 95 and blocked.
RequestRelease(r, id, privileged) ==
  /\ Idle(r)
  /\ deciding' = deciding \union
       {[request |-> r, quarantine |-> id, allowed |-> privileged]}
  /\ UNCHANGED <<now, quarantines, activeGauge, answers, trail, persisted>>

\* recordAudit, whose failure the handler turns into a 500.
Audited(r, answer, records) ==
  \/ /\ persisted' = records
     /\ Respond(r, answer)
  \/ /\ LedgerMayFail
     /\ Respond(r, "error")
     /\ UNCHANGED persisted

DenyRelease(d) ==
  /\ ~d.allowed
  /\ deciding' = deciding \ {d}
  /\ Audited(d.request, "denied", persisted)
  /\ UNCHANGED <<now, quarantines, activeGauge, trail>>

\* The handler goes on whatever the policy decided.
AllowedAnyway(d) == d \in deciding

Allowed(d) == d \in deciding /\ d.allowed

FindNothingToRelease(d) ==
  /\ Allowed(d)
  /\ ~CanRelease(d.quarantine)
  /\ deciding' = deciding \ {d}
  /\ Respond(d.request, "not_found")
  /\ UNCHANGED <<now, quarantines, activeGauge, trail, persisted>>

Release(d) ==
  /\ Allowed(d)
  /\ CanRelease(d.quarantine)
  /\ deciding' = deciding \ {d}
  /\ Lift(d.quarantine)
  /\ Audited(d.request, "released", [persisted EXCEPT ![d.quarantine] = @ + 1])
  /\ UNCHANGED now

\* The caller has its answer and may send another request.
Receive(r) ==
  /\ answers[r] # "none"
  /\ Respond(r, "none")
  /\ UNCHANGED <<now, quarantines, activeGauge, deciding, trail, persisted>>

Tick ==
  /\ now < MaxTime
  /\ now' = now + 1
  /\ UNCHANGED <<quarantines, activeGauge, deciding, answers, trail, persisted>>

Next ==
  \/ \E target \in Target, ttl \in TtlRequest : ApplyQuarantine(target, ttl)
  \/ \E alert \in Alert, autoContain \in BOOLEAN : ProcessAlert(alert, autoContain)
  \/ ListActive
  \/ \E target \in Target : IsQuarantined(target)
  \/ \E r \in Request : RejectRelease(r) \/ Receive(r)
  \/ \E r \in Request, id \in QuarantineId, privileged \in BOOLEAN :
       RequestRelease(r, id, privileged)
  \/ \E d \in deciding : DenyRelease(d) \/ FindNothingToRelease(d) \/ Release(d)
  \/ Tick

\* Time passes.
Spec == Init /\ [][Next]_vars /\ WF_vars(Tick)

-----------------------------------------------------------------------------
\* What containment promises.

Held == {id \in DOMAIN quarantines : InForce(quarantines[id])}

\* Though records are marked only when somebody looks, quarantines behave as
\* leases that end on their deadline: in force from the moment they are applied,
\* never past MaxTtl, never extended, never back in force once ended.
Isolation ==
  INSTANCE Leases WITH
    Key <- QuarantineId, Term <- 0 .. MaxTtl, Revocable <- TRUE,
    deadline <- [id \in Held |-> quarantines[id].expiresAt],
    grants <- trail["applied"]

QuarantinesAreLeases == Isolation!Init /\ [][Isolation!Next]_(Isolation!leaseVars)

\* Of several release requests for one quarantine, decided concurrently, one at
\* most lifts it: a released quarantine has exactly one release in the audit
\* trail, any other none.
ReleasedOnce ==
  \A id \in QuarantineId :
    trail["released"][id] =
      IF id \in DOMAIN quarantines /\ quarantines[id].status = "RELEASED" THEN 1 ELSE 0

\* A quarantine becomes RELEASED only in a step that ends a request the policy
\* allowed for that quarantine.
ReleasedOnlyWhenAllowed ==
  [][\A id \in QuarantineId :
       trail'["released"][id] # trail["released"][id] =>
         \E d \in deciding \ deciding' : d.quarantine = id /\ d.allowed]_vars

\* A caller told that a quarantine is released finds the release in the ledger,
\* and the ledger holds no release that did not happen.
ReleasesPersisted ==
  /\ [][\A r \in Request :
          answers'[r] = "released" /\ answers[r] # "released" =>
            \E d \in deciding \ deciding' :
              d.request = r /\ persisted'[d.quarantine] > 0]_vars
  /\ [](\A id \in QuarantineId : persisted[id] <= trail["released"][id])

\* The gauge is set when a quarantine is applied or lifted and not when one
\* expires: it may overstate the active quarantines, never understate them.
GaugeNeverUnderstates == Cardinality(Held) <= activeGauge

\* No lockout is unbounded: every quarantine stops being in force.
LockoutEnds == \A id \in QuarantineId : id \in Held ~> id \notin Held

=============================================================================
