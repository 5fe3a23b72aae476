# Sovereign Security in TLA+

A TLA+ verification of the Sovereign Security platform (TypeScript, `src/`): models of its
stateful components, checked with TLC on small instances, and theorems about them proved with
TLAPS for every value of the constants. `PROJECT.json` maps every definition to the lines it
stands for and lists the hazards the properties are for.

## 1. The system

One Node.js process serves an HTTP API (`src/server`). Its handler owns the engines and the
agents, and hands one in-memory `AuditService` to the decision pipeline, the AI gateway, the
agents, the compliance engine and the posture synchronizer. With a configured path, that service
belongs to a `PersistentAuditLedger`, which also writes what *it* appends to a file. Handlers run
to completion between awaits; interleaving happens at `await readJsonBody`, at the awaited policy
decision of a release, and inside asynchronous clients of the libraries (`integrations`).

| Component | State | Operations | What is hard | What makes it correct |
|---|---|---|---|---|
| Audit chain (`audit/audit-service.ts`) | the chain | append, verifyIntegrity | linkage after any history | an append keeps a chain that verifies verifying; an alteration is found |
| Persistent ledger (`audit/persistent-storage.ts`, `server/server.ts`) | file, memoryService, isInitialized, gauge | initialize, append, getAuditService | crash in a write, short writes, a second writer in memory, a replaced service | nothing acknowledged is lost unnoticed; a compromised file is frozen; a restart accepts what was written |
| Replay guard (`integrations/auth`) | Map of nonces per store, health flag per node | verifyCredentials(Async), consume, health | concurrent nodes, outage between health and consume, eviction that an empty nonce stops, boundaries of expiry | a nonce is granted once per lifetime; authenticated only by a grant on a reachable store; memory is bounded but behind an empty nonce |
| Containment (`agents/containment.ts`, release handler) | quarantines, gauge | quarantine, release, isQuarantined, getActiveQuarantines | lazy expiry, awaited decision, failing audit | quarantines are leases; released once, only when allowed, and on record; no lockout is unbounded |
| Coordinator, sentinel, forensics (`agents/`) | known alerts, registered events | processAlert, triageAlert, correlateIncidents, registerEvents, traceCorrelationChain | repeated registration, statuses that part from the alert store | triage precedence, a trace without duplicates |
| Alerts and events of the handler (`server/routes.ts`) | alertsStore, recentEvents (cap 500) | ingest, triage, list | overwriting re-posts, two ingest paths with different caps | bounds and no lost update |
| Rate limiter (`server/rate-limiter.ts`) | windows per key | checkLimit, cleanExpired, evictIfFull, reset | boundary of the window, eviction of a live key | no more than the limit per window, bounded memory |
| Decision pipeline, policy (`policy/`) | sorted rules | evaluate, registerRule | precedence, thresholds | highest priority decides, fallback denies, every decision is on record |
| Identity (`identity/`) | grants, challenges, federation agreements | JIT elevate/approve/revoke/expire, WebAuthn challenge/verify, RBAC, tenant access | expiry between steps, repeated approvals and assertions, agreements replaced and run out | a grant is in force only after approval and before expiry; a challenge is used once; access follows agreements of its own direction |
| Key rotation (`secrets/rotation-orchestrator.ts`) | credentials in force, jobs | register, initiate, deploy, promote, deprecate, complete | steps out of order and again, two jobs of one service, descriptors changed in place | one credential in force per service, the last it was given |
| KMS (`secrets/kms.ts`) | master keys | create, encrypt, decrypt, destroy | an id created again or destroyed under kept envelopes | what can no longer be opened never opens again |
| AI gateway (`ai/gateway.ts` with detector, armor, sandbox) | canaries, fingerprints, call history | inspectInput, inspectOutput, evaluateToolCall, registrations | overlapping phrases, rounding at a threshold, pruned histories | nothing registered leaves; every detection blocks; quotas follow the past |
| AI pipeline (`ai/pipeline.ts`, `ai/tool-permissions.ts`) | tool policies | executePipeline, registerPolicy | the model is awaited while policies change | completed only if nothing leaked and every tool is allowed |
| Sovereign OS client and adapters (`integrations/`) | buffered events, audit | invokeVegaTool, evaluateExecutiveAction, ingest | executor failure between decision and record | nothing executes undecided |
| Build gate, GriDD Corp, Compliance Labs (`integrations/`) | alerts, records | evaluateBuildGate, createAlert, summaries, evidence bundles | bypasses, a trail shared with others, two views of one store | a failing build passes only by name and ticket, and on record; what is forwarded is what is counted |
| Threat engine (`threat/engine.ts`) | bounded history of events | processEvent | late, reordered and repeated events, a history that forgets | brute force raised when and only when the events that count reach the threshold |
| Posture (`posture/synchronizer.ts`) | scores, findings, defences, verdicts per entity | recordEntityFinding, syncBaselines, getPostureReport | verdict and score changed at different times, a report that holds live records | the views agree |
| Certification, operator commands (`compliance/`, `server/routes.ts`) | audit records, the ledger's own chain | certify, the four commands | a command's own record comes last and may fail, stay in memory or go to another chain | what was done is on record, and what was confirmed is too |
| ABAC, risk (`identity/abac.ts`, `risk/engine.ts`) | none | evaluate, calculateRisk | precedence of checks, clamping and rounding | a step-up is asked for exactly when it is what is missing; a score stays a score |
| SSE, supply chain, secret scanners, schemas, logging, metrics, dashboard, adversarial harness, roadmap | connections, counters | pure functions, I/O | - | not modelled, see 8 |

## 2. The modules

    AuditChain ---- PersistentLedger ---- MCPersistentLedger     ledger*.cfg
        |               |      \-- PersistentLedgerProofs
        |-- AuditChainProofs --/
        |-- TamperEvidentLog   (abstract; implemented by PersistentLedger)
        \-- Ecosystem          (used by Governance, below)
    Leases                     (abstract; implemented by ReplayGuard, twice, Containment, JitElevation)
    ReplayGuard ---- MCReplayGuard                               replay.cfg
        \-- ReplayGuardProofs
    Containment                                                  containment.cfg
        \-- ContainmentProofs
    PolicyEngine, ToolPermissions ---- Mediation ---- MCMediation    mediation*.cfg
                                           \-- MediationProofs
    SlidingWindow              (abstract; implemented by RateLimiter)
    RateLimiter ---- MCRateLimiter                               rate_limiter.cfg
        \-- ApiProofs
    ThreatEngine ---- Operations ---- MCOperations               operations.cfg
                          \-- ApiProofs
    Runtime ---- JitElevation ---- Identity ---- MCIdentity        identity.cfg
    AccessDecisions ----------------\-- IdentityProofs
    Sandbox, AiFilters ---- AiGateway --\
    ToolPermissions ---- AiPipeline ---- AiSecurity ---- MCAiSecurity    ai.cfg
                                             \-- ApiProofs
    EnvelopeVault              (abstract; implemented by KeyManagement)
    Posture, Ecosystem ---- Governance ------------\
    KeyRotation, KeyManagement, TenantBoundary ---- Platform ---- MCPlatform    platform.cfg
                                                       \-- PlatformProofs

* **AuditChain** - records, digests, `AppendRecord`, `VerifyIntegrity`. SHA-256 is a
  collision-free digest: the digest of a record *is* its history, so equality of digests is
  equality of histories. Everything descriptive in a record is one opaque payload.
* **PersistentLedger** - one server process and its file. The file is a sequence of lines, each
  intact or not, and whether it ends with a line feed. `memory` is the ledger's own service,
  `service` the one the handler was given, `shared` whether they are still one object:
  `initialize()` run again replaces the first only. `StartServer` is
  `startSovereignSecurityServer`; `RecordAudit`, `AppendInMemory` and `EvaluateDecision` are the
  three shapes in which a handler appends (through the ledger; to the shared service alone; both,
  as `/decisions/evaluate` and a release do). Each is one step, because no handler awaits inside
  it; `Persist` covers a complete write and the ones that fall short, `PersistAndCrash` a process
  that dies in one, `DamageLine` an alteration of the file behind the process.
* **TamperEvidentLog** - what a reader of such a file can rely on: a chained log that grows at its
  end until something breaks it, and then only shrinks. `PersistentLedger` implements it with the
  verified prefix of the file as the log.
* **ReplayGuard** - requests against the in-memory store of one server or the distributed store
  of several nodes, whichever is deployed (`servers`). `verifyCredentials` is one step. `verifyCredentialsAsync` is two, cut at
  `await store.health()`: `Begin...` samples the health, `Finish...` consumes (and finds the store
  unreachable if it has become so) and answers; nothing that matters happens at the second await.
  What depends on the caller (service, timestamp, signature) is a choice. `EmptyNonce` stands for
  `""`: nothing refuses it before the store, and `if (oldestKey)` takes it for no key, so that
  `Evicted` makes no room while it is the oldest entry.
* **Containment** - quarantines with lazily marked expiry, the coordinator that applies them, the
  release handler cut at its awaited decision.
* **Leases** - a table of leases: a key is held until its deadline has passed or it is revoked and
  granted only while not held. The nonces of both stores, the quarantines and the elevations
  implement it, the shared backend without revocation.
* **PolicyEngine** - the rules, the default ones written out with the role check one of them
  makes, and `registerRule` as a stable sort by priority. `registered` keeps the order of
  registration, which the code forgets: precedence is stated over it (`Governs`), and
  `EvaluateWithPrecedence` over the sorted rules is checked against it.
* **Mediation** - the calls of the Sovereign OS client over the tool permissions, the decision
  pipeline and `PolicyEngine`. `invokeVegaTool` is cut at its three awaits (permission, executor,
  event): `InvokeVegaTool`, `BlockTool` or `DecideTool`, `EmitEvent` or `Fail`, `RecordExecution`.
  Decision and start of the executor are one step, because nothing is awaited between them.
  `EvaluateExecutiveAction` has the same life without the permission, `EvaluateChange` and
  `CheckPolicy` are single steps.
* **Runtime** - `Date.now()` and `Array.prototype.filter`, which the limiter, the sandbox and
  others use.
* **RateLimiter** - the map of buckets in insertion order; `checkLimit` prunes, evicts, admits or
  refuses in one step. **SlidingWindow** is the quota its clients may count on.
* **JitElevation** - `JITPrivilegeManager`. **Identity** adds `WebAuthnStepUpValidator` and puts
  both under one clock; `generated` and `attempts` keep the challenges and assertions that the
  code forgets.
* **ThreatEngine** - the bounded history and the three default rules. **Operations** - what the
  handler does with it: the two ingest paths (`PostEvent`, `IngestMtf`), the alert store with
  posting and triage, and the traces of the forensics agent. Every handler awaits its body before
  it reads any of this state, so each is one step; its last statement, the audit record, may throw
  and leave the rest done. `ingested` keeps the order of arrival, which the code forgets.
* **Sandbox** - `evaluateToolExecution`: one step per call, with the outcomes in the order of the
  code. Arguments are a value at the top level and one inside of an object, because the hash keeps
  only the first. `evaluations` keeps every call and its answer; what an answer should be is
  stated over it (`Deserved`).
* **AiFilters** - the injection detector and the model armor. A prompt is the rules that match each
  of its forms; weights are exact, and rounded where the code rounds. An output is a sequence of
  words, in which phrases are replaced one after the other as the code does; a phrase is replaced
  by reading the words from left to right (`ReadOn`).
* **AiGateway** - detector, armor and sandbox as the gateway calls them, with the records it
  appends; `inspections` keeps what came in and what was let pass.
* **AiPipeline** - `executePipeline` cut at the await of the model: `ExecutePipeline` up to it,
  `ModelAnswers` or `ModelFails` after it, while `RegisterPolicy` changes the tool policies.
* **AiSecurity** composes the three. They share no state, so a behaviour uses one of them
  (`used`); what is left out is only the product of independent behaviours.
* **KeyRotation** - `KeyRotationOrchestrator`. Descriptors are handed out by reference and changed
  in place, so `issued` keeps all of them; the map of credentials holds indices. Each of the four
  steps is an action without any guard on the phase, as in the code.
* **KeyManagement** - `KMSKeyManager`; `randomBytes(32)` is a number never returned before, and an
  envelope the raw key that wraps it. **EnvelopeVault** is the promise: shredded stays shredded.
* **TenantBoundary** - agreements by direction, on a clock that passes their ends. An `expiresAt`
  that is no date is `NotADate`, which nothing is later than.
* **Posture** - scores, findings, defences and verdicts of the six entities, and the one report a
  reader keeps, which holds the entities' records and not copies.
* **Ecosystem** - the build gate and the alerts of GriDD Corp. **Governance** - what appends to the
  one audit trail next to the gate: syncs, certifications, and the operator's commands, whose own
  record comes last, through `RecordAudit`. With a ledger that is not open yet it may throw, or
  open a chain of the ledger's own (`recorder`, `ledger`); a write may fail behind the record in
  memory. Each time what the command did stays, and `confirmed` keeps the commands that were
  answered with success, which the code forgets. Also the evidence bundle and the platform's
  summary, which read a chain.
* **Platform** composes rotation, KMS, tenants, alerts and governance as the facade holds them;
  `used` as in `AiSecurity`, and `recorder` varies only in the behaviours that govern.
* **AccessDecisions** - `ABACEvaluator.evaluate` and `RiskEngine.calculateRisk`, which keep no
  state; only theorems are about them.

A definition whose comment begins "A fault of" is a way its successor could be wrong; each
property of section 3 is known to fail when one of them takes the place of the definition.

## 3. The runs

| Run | Shows | Bounds |
|---|---|---|
| `ledger` | no silent loss, open ledgers verify, the file implements TamperEvidentLog | 2 payloads, 3 records; all write faults, damage, lazy start, in-memory writers |
| `ledger_restart` (violation) | without any fault, a server's own file is rejected at the next start once a decision was evaluated | the same, no fault |
| `ledger_ready` (violation) | after a restart on a torn line `/ready` answers 200 | torn lines only |
| `replay` | a nonce is granted once per lifetime, across nodes and by the in-memory store, which forgets only when full and then the oldest, and outgrows its bound only behind an empty nonce; authentication only by a grant on a reachable store | 2 nodes or the in-memory server, the empty nonce and 3 more, room for 2, 2 requests in progress, 3 ticks, TTL 2 |
| `containment` | quarantines are leases, released once and only when allowed; the gauge never understates; lockouts end | 2 quarantines, 2 targets, 2 requests, 4 ticks, failing ledger |
| `mediation` | the governing rule decides, and no default rule allows what is at the risk limit of its environment; nothing executes undecided or under stale rules; the trail of a tool request tells how it ended | 2 calls, 2 custom rules at a time of 3 (above, at and between default priorities), inputs at the risk thresholds |
| `mediation_record` (violation) | an executive action whose executor throws leaves no record of the execution | the same |
| `rate_limiter` | buckets implement a quota per sliding window although pruned late, forgetting only what a full map has no room for; memory is bounded; Retry-After suffices | 2 addresses, 2 tiers, room for 3 windows, a clock of 6, 2 ticks a second |
| `operations` | brute force is raised when and only when it should, over late, reordered and repeated deliveries; recent events have no gap; a trace tells the whole incident although records fail | 4 events, threshold 2, window of 2 ticks, history of 3, room for 2 recent events, 4 arrivals, 2 commands, a posted alert of severity INFO, failing ledger |
| `ai` | tool calls are answered as the whole past deserves; every detection blocks; nothing registered leaves; a request is completed only under the policies in force | 5 kinds of call by 2 agents in 2 sessions, 6 evaluations, 3 in a window of 2 ticks, 4 in a session; 54 prompts; 4 phrases of which 2 are registered, 7 outputs, 2 inspections; 2 asks, 2 policies, 2 agents |
| `platform` | one credential in force; envelopes are shredded for good; access moves with agreements; the views of the fleet agree; what builds and commands did is on record, although records of commands fail or go to another chain | 2 services, 4 credentials, 2 jobs; 2 key ids, 4 keys; 3 tenants, 3 resources, 19 agreements, 2 ticks; 2 findings, 2 builds of 7, 2 callers, 3 records in the two chains together, 3 ways the commands' records may go; 2 alerts |
| `identity` | elevations are leases; one grant per approval; revoked for good; the first assertion decides; verified by its subject in time | 2 subjects, 2 requests, 1 challenge, 2 assertions, 4 ticks |

Three records let a chain have a first, a linked and a broken record, with a write after a torn
one; three nonces and room for two make every eviction choose, and with the empty one as the
oldest outgrow the room; two requests and two quarantines
let requests meet on one quarantine and differ; the clocks leave room for a lifetime to end and a
second to begin. Two calls let one change what the other waits on; two requests for elevation
let one expire while the other is approved; two assertions are a first and a second; two
addresses in two tiers need four windows where three have room; four arrivals push one out of the
history while two more failures of one actor are in it, and overflow the recent events on either
path; six evaluations exhaust a session and a window; two phrases can overlap, contain each other
and repeat; four credentials let two jobs of one service be promoted after a registration each; four
master keys let an id be destroyed and made again next to another; three records are a sync, its
command and a record of the gate between, or a sync whose command is not on record and one whose
command is in the other chain. Bounds are in guards (`HasRoom`, `MaxTime`, `MaxGrants`, `MaxQuarantines`, `MaxRules`, `MaxRequests`,
`MaxChallenges`, `MaxAttempts`, `MaxIngests`, `MaxCommands`, `MaxEvaluations`, `MaxFingerprints`,
`MaxInspections`, `MaxIssued`, `MaxJobs`, `MaxKeys`, `MaxFindings`, `MaxBuilds`, and `used`), so no state is cut off in the middle of an action.

Calls, addresses, subjects and services are symmetric: only their identity is used. No run with symmetry
checks liveness.

Deadlock is not checked for by exception: every run checks it.

## 4. Fairness

Only `Containment` assumes any: `WF_vars(Tick)`, time passes. No fairness is assumed of handlers
or callers; the expiry of a quarantine needs none, which is what `LockoutEnds` shows. The other
specifications are safety only.

## 5. What is proved

`AuditChainProofs` and `PersistentLedgerProofs`, for every payload set, fault set, bound and
number of records:

* `AppendRecordVerifies`, `RecordDeterminedByHash`: an append keeps a verifying chain verifying,
  and two self-consistent records with one digest are one record. Both rest on the collision-free
  digest and nothing else.
* `Invariance`: `IInv` is inductive. Neither `NoSilentLoss` nor `OpenLedgerVerifies` is: a
  damaged digest could be acknowledged into agreement, and a lazily opened ledger could load a
  chain that does not verify. `IInv` adds that (a) a ledger that accepts writes, or would once it
  has read its file, holds chains that verify; (b) acknowledged records are self-consistent;
  (c) while the file parses, the digest of every acknowledged record is in it, even if the record
  around it was altered; (d) an unterminated file has a line.
* `TypeCorrect`, `NoSilentLossHolds`, `OpenLedgerVerifiesHolds`, `CompromisedIsFrozenHolds`: the
  types and the properties of the run `ledger`, and that a file found compromised is neither written nor acknowledged into any more. For the second: by (c) an acknowledged record's digest is in the
  file; the file verifies, so the record with that digest is self-consistent; by (b) and
  `RecordDeterminedByHash` it is the acknowledged one.
* `SoleWriterRestartAccepts`: with no component appending to the shared service alone, no write
  fault and no damage, every restart is accepted, whenever the process dies. Together with
  `ledger_restart` this isolates the cause of the rejected restarts.
* `TamperEvidence`: the file implements `TamperEvidentLog`. While the file verifies, its log is all
  of it and an append links to its last record; once it does not, there is a least line that
  breaks it, what precedes it is the log, and a later write or alteration can only move it down.

`IdentityProofs`, for every set of subjects, durations and bounds:

* `Invariance`: `IInv` is inductive. `OneGrantPerApproval` needs that every grant belongs to an
  approved request (`GrantsHaveRequests`), or an approval could find a grant already there;
  `FirstAssertionDecides` needs that an asserted challenge is no longer active
  (`AssertedAreConsumed`), and `VerifiedBySubjectInTime` that an active challenge is the one that
  was generated (`ActiveAsGenerated`).
* `TypeCorrect`, `OneGrantPerApprovalHolds`, `FirstAssertionDecidesHolds`,
  `VerifiedBySubjectInTimeHolds`, `RevokedForGoodHolds`: the other properties of the run `identity`.
* `ElevationsImplementLeases`: the elevation manager implements `Leases`. An approval is the one
  grant its request is ever given, a revocation takes away only what is held, and marking grants
  as expired, whoever queries them, cannot be seen from outside.

`ContainmentProofs`, for every set of targets and requests, every TTL and bound, with and without a
ledger that fails:

* `Invariance`: `IInv` is inductive. `ReleasedOnce` needs that the table stays within its bound, or
  a release would have no place in the trail; the refinement needs that ids are handed out in
  order, each once (`AppliedOnce`). `MarkedOnly` is the key of the argument: whatever looks at the
  table (`Swept`, `Scanned`) changes only statuses that were no longer in force. `StepCases`
  reduces the steps to five: time passes, one quarantine is applied, marks are made, one is
  released for an allowed request, or only requests and answers change.
* `TypeCorrect`, `ReleasedOnceHolds`, `GaugeNeverUnderstatesHolds`, `ReleasedOnlyWhenAllowedHolds`,
  `ReleasesPersistedHolds`, `QuarantinesAreLeasesHolds`: the properties of the run `containment`
  but for `LockoutEnds`, and that the ledger never holds a release that did not happen. For the refinement, each of the five steps is a tick, a grant for no more
  than `MaxTtl`, a stutter, a revocation of what is still in force, or a stutter.

`PlatformProofs`, of rotation and the KMS, for every set of services and key ids and every bound:

* `SecretsInvariant` is inductive for the whole of `Platform`: types, a credential for the service
  of every job (without which promotion would fail, `PromotionFindsCredential`), one credential in
  force, raw keys below the number made and never shared by two ids.
* `OneInForceThroughout`: a promotion deprecates what is in the map *now* and puts the new one
  there, so whatever the job was started for, the last given is alone ACTIVE since the service was
  registered. A registration leaves its predecessor as it is, hence "since".
* `NeverSealedByZeroes`, `VaultImplemented`: for the refinement, a creation or a destruction makes
  unopenable exactly the envelopes of the id that can be opened, because no later key equals an
  earlier one.

`PlatformProofs`, of the other services, for any tenants, agreements, builds, callers and bounds:

* `AccessFollowsAgreements`, from `BoundaryTypeCorrect` and time that does not step back.
* `ViewsAgreeThroughout`: `PostureInvariant` adds that a score with findings lies below where it
  started and one without is where it started, and that a kept report was true of an earlier state.
* `TrailAccountsThroughout`: `AccountsInvariant` adds that answers name records of the trail, each
  its own, and `CommandsInvariant` the account of the commands: of the syncs and certifications on
  the trail, no more are on record as commands, in either chain, than there are (`Balanced`), and
  between what a command does and its record there is one to spare (`SyncToSpare`,
  `CertificationToSpare`); so it does not matter whether the record is written, or where.
  `TrailVerifies` extends the theorem about appends to this trail; `SummaryShowsReplacedRecord`
  that one record replaced before the last, by whatever other record, turns the platform's summary
  to DEGRADED. `HeadHashPinsTheRecord` is what the receiver of an evidence bundle may conclude from
  its digest, `ForwardedAreCounted` that the two readings of GriDD Corp's alerts agree.
* `TypeCorrect`.

`IdentityProofs` also has, for every input of two pure functions of **AccessDecisions**, `StepUpIsWhatIsMissing`,
`ClearanceNeverHurts`, `RiskIsAScore` (no combination of factors leaves 0 to 100, in whole points)
and `RepetitionNeverLowersRisk`.

`MediationProofs`, for any calls, inputs, custom rules, tool policies and bounds:

* `PrecedenceHolds`: the rules in the order of evaluation are a permutation of the registrations
  that goes by priority and then by registration (`PrecedenceInv`, kept by every `registerRule`),
  and the default rules are always among them; so one matches, the first that does is the one that
  governs, and at a risk limit there is one above every default rule that allows
  (`RiskyIsBlocked`).
* `NothingRunsUndecided`, `TheTrailTells`: `CallInv` says of a call in every phase what its records
  are. Nothing is on record before the decision (`Unheard`); between the decision and the last
  record there is the decision alone, and it allowed (`Underway`); after it, the first record is
  the decision and the last tells whether the executor ran and how it ended. The records of one
  call are untouched by the steps of another (`OtherCalls`).
* `StartsAreCurrent`, `TypeCorrect`.

`ReplayGuardProofs`, for any nonces, nodes, requests and lifetimes, and any bound on the store:

* `IInv` says that the store remembers a nonce once, in the order in which they expire, and none
  beyond TTL from now (`StoreInv`). It rests on a clock that does not step back, and is why
  `cleanExpired`, which stops at the first entry that lives, leaves none that has expired, and why
  the entry that makes room is the one that expires first.
* `MemoryIsLeases`, `ClusterIsLeases`: either store implements `Leases`. `ForgettingIsForced`: an
  entry that lives is dropped only by a full store, and it is the oldest.
* `GrowthIsBehindEmptyNonce`: a step past `MaxEntries` finds the empty nonce, still within its
  lifetime, as the oldest entry; `BoundedWithoutEmptyNonce`: where that nonce is never sent, the
  store stays within `MaxEntries`.
* `AuthenticationIsGrant`, `TypeCorrect` (proved, so that no run repeats it).

`ApiProofs`, of the stores and the threat engine (`Operations`), for any events, rules' thresholds
and windows, and all bounds:

* `IInv` adds to the types that the history is the latest of what came in, that the recent events
  are, that the forensics agent has registered all of it, and that alert ids are handed out in
  order.
* `BruteForceIsNoticed`: the failures found in the history stand in a one-to-one correspondence to
  those at the last positions of `ingested` (`SameFailures`), so the code's count is the count
  that the property states. `RecentEventsHaveNoGap`, `TracesTellTheIncident`, `TypeCorrect`.

`ApiProofs`, of the rate limiter, for any clients and tiers, capacity and clock:

* `LimiterInv`: a key has one bucket; the requests in it are in the order of time, none later than
  its last access, and no more than the limit.
* `WindowsImplementQuotas`: since a bucket is in the order of time, what counts of it is what
  follows its first *m* requests (`CountingIs`), and what counts later is what later counts of what
  counts now (`CountLater`): pruning early, late or never is the same. Of a bucket that is stale
  nothing counts, so cleaning is a stutter; an eviction forgets the buckets inserted first.
* `RetryAfterIsEnough`: a full bucket holds exactly the limit, and rounded up the wait reaches the
  moment when the first of it leaves. `WindowsAreBounded`.

`ApiProofs`, of the AI services (`AiSecurity`), for any agents, calls, quotas, prompts, texts of
any length, phrases, canaries, policies and model outputs:

* `AnswersFollow`: the history of an agent holds the records of some of its calls that counted, in
  their order, and of all that are recent (`Remembers`), and the counter of a session is the number
  of its calls that counted (`SandboxInv`). Pruning makes "some" exactly the recent ones
  (`PrunedIsExact`), so the code's count of a window is the count that `Deserved` states, and the
  repetition at the end of the history is the repetition among the latest recent calls
  (`LoopIsRepetition`). A refused call prunes without adding, which keeps the invariant.
* `DetectionsBlock`: the sum of the matches is at least the strongest of them (`SumIsAtLeast`, by
  induction on the number of matches), the strongest is at least 68000 units of the 65000 it takes
  (the weakest rule, 80, rotated, counts for 0.85 of it), and neither the cap nor the rounding
  goes below (`DetectionBlocks`).
* `NothingLeaves`: a stretch without a marker in what was read so far stands in the words that were
  read, and at their end if it stands at the end (`Traced`); so replacing a phrase makes no phrase
  occur that did not, and the phrase itself does not (`WithoutRedacts`). Phrase by phrase, no
  registered one is left (`FingerprintsAreGone`), although whether a phrase occurs is asked of the
  text as it came. And a text without a marker is unchanged, so that what is on record tells
  whether anything was held back (`InspectionIs`).
* `CompletedUnderPolicies`: `checkPermission` has three answers, and a request that none of its tool
  calls keeps from it is completed under the policies of that moment. `AiTypesHold`.

What a fold of the community modules computes is proved where it is needed: `FoldExists` and
`StepByStep` turn its recursive function over sets of positions into one step after the other,
by induction on numbers (`Reached`), which needs no theorem with an operator as a parameter.

## 6. What is only model-checked

* `LockoutEnds`: as a liveness property it is out of the prover's reach.
* The three violations, each a behaviour that TLC exhibits.

## 7. Findings

* A decision, quarantine or release puts a record into the in-memory chain that the file never
  gets; the next record written skips a sequence number and the file is rejected at the next
  start (`ledger_restart`).
* `/ready` answers from the service the handler was given, which is empty, and verifies, when the
  file does not parse (`ledger_ready`).
* The executor of an executive action is awaited outside any `try`: when it throws, the decision
  is on record and the execution is not, where a VEGA tool call records its failure
  (`mediation_record`).

More that the models show and no run singles out:

* A nonce `""` is accepted by the replay store, and while it is the oldest entry nothing is evicted
  (`integrations/auth/replay-store.ts:80`): until it expires the Map grows past `maxEntries`, where
  line 6 of that file promises "bounded memory with LRU eviction". `OutgrownOnlyBehindEmptyNonce`
  says that this is the only way.
* A command whose record the ledger refuses is answered with 500 after its sync or certification
  has taken effect, and with a ledger that is opened late its record is in another chain than the
  record of what it did (`server/routes.ts:1027`; `CommandsAccountedFor`).
* A quarantine past its deadline that nobody looked at is still ACTIVE and is released like one in
  force (`docs/CONTAINMENT_MODEL.md:11` has it EXPIRED).
* `hashArguments` of the sandbox passes the names of the top level to `JSON.stringify` as its list
  of names to keep, which applies at every depth: two calls that differ inside of an object are the
  same to the loop detector (`ai/agent-sandbox.ts:43`); `AnswersFollowThePast` says so (`Alike`).
* An event that a source delivers again counts again toward brute force (`CountsToward`).
* The step that "completes and revokes" a rotation revokes nothing: no credential ever becomes
  REVOKED (`secrets/rotation-orchestrator.ts:125`). A job promoted twice gives out two credentials
  with one id; a job started in the millisecond of another takes its place; a service that is
  registered again leaves its earlier credential ACTIVE. `OneInForce` is stated with this in mind.
* An agreement between tenants opens one direction only, where `identity/tenant.ts:6` speaks of
  "mutual federation trust agreements" and `:21` has "Register a mutual cross-tenant federation
  agreement"; and one whose `expiresAt` is no date never ends (`NotADate`).
* A tool permission is read before an await and acted on after it (`sovereign-os/client.ts:126`):
  a policy registered meanwhile is not seen. No document says that it should be, so the model
  keeps it and no property asks for more.
* Every control evaluates to COMPLIANT whatever the state of the system
  (`compliance/certification.ts:102`), so certification is a constant, while the evidence matrix
  beside it labels ISO-A.8.30 as PARTIAL.
* Of the six entities PERSONAL_SOVEREIGN_AI alone has no row in the fleet view (`FleetEntity`).
* The posture and compliance services append to the ledger's in-memory service, with the
  consequence of `ledger_restart`.
* A detection never ends as SANITIZE, and no request of the pipeline is escalated: what would score
  high enough has been stopped before (`EveryDetectionBlocks`, `ExecutePipeline`).
* A build without a manifest skips the check of its dependencies; an evidence bundle of an empty
  trail names GENESIS as its head, where the chain's own first link is 64 zeroes.

## 8. Assumptions, and what is not modelled

* No power loss: what `appendFileSync` wrote stays written when the process dies. (Nothing is
  fsynced; losing the tail of the file would lose acknowledged records and still verify.)
* One process writes the file. `Date.now()` does not step back. The `ttlMs` of a request is not
  negative.
* A damaged line is damaged once, and not by somebody who recomputes digests.
* Actions are taken with the verb that the prefix tests of the role rule would find in their
  names, tool names as the registry compares them, and agents by lower-case ids. The client has
  its default configuration and shares the audit service of its pipeline.
* A policy evaluation is given well-formed input, and the two readings of the clock inside one
  query for elevations are the same.
* Nobody registers as a canary or in a fingerprint what the armor itself writes, `[REDACTED]` and
  `[BLOCKED]` (`MarkersAssumption`): a marker that was registered would be put where it was removed.
* The forensics agent reads the audit service the handler writes to; ids of events and alerts are
  opaque; custom threat rules are not registered (nothing in the program does).
* `has()` and `record()` of the replay stores, which nothing in the program calls.
* Resource ids are sequences of parts, and tenant ids hold no colon. A build is given with what its
  scans find; prompts and outputs with what the regular expressions find. Sums of weights are exact.
* Credentials of the adapters are the replay guard's; Compliance Labs' engine has no audit service.
* The semantic grounding of an answer, a share of the words of one text in another. The SSE
  broadcaster, a set of connections nothing but the broadcast reads. The evidence matrix, a constant
  table.
* Regular-expression scanners, CVE, SBOM, SLSA and licence checks, schemas, logging, metrics, the
  dashboard and the adversarial harness: pure functions over text or I/O, with no state to get
  wrong between steps.

## 9. Plan

1. *(done)* Audit chain, persistent ledger and their proofs; replay guard; containment.
2. *(done)* Decisions and mediation; rate limiter; identity and its proofs; operations.
3. *(done)* AI: sandbox, filters, gateway, pipeline. Secrets: rotation and KMS, with proofs.
   Tenants, posture, certification, commands, build gate, alerts, with proofs. ABAC and risk.
4. *(done)* The proofs of mediation and precedence, of the replay guard, of operations and the rate
   limiter, of the AI services, and of all refinements.
5. Left to model: the clustering of incidents, and the join of timestamp window and nonce lifetime
   in the replay guard (`integrations/auth/credentials.ts:220`), of which the lifetime is modelled.
