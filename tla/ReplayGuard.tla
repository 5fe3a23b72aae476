----------------------------- MODULE ReplayGuard -----------------------------
(***************************************************************************)
(* The authentication of ecosystem requests by                             *)
(* src/integrations/auth/credentials.ts against the nonce stores of        *)
(* src/integrations/auth/replay-store.ts: the bounded in-memory store of   *)
(* one server, and the distributed store, of which every node holds an     *)
(* instance over one shared backend.                                       *)
(*                                                                         *)
(* verifyCredentials runs to its end in one step; verifyCredentialsAsync   *)
(* awaits the health of the store, then consumes the nonce and answers.    *)
(* Whether service, business, timestamp and signature are right is up to   *)
(* the caller, so each is a choice here.  Date.now() is assumed not to     *)
(* step back.                                                              *)
(***************************************************************************)
EXTENDS Naturals, Sequences, FiniteSetsExt

CONSTANTS
  Nonce,
  EmptyNonce,  \* "", a nonce that nothing refuses and JavaScript takes for false
  Node,        \* servers on the distributed store
  Memory,      \* the server on the in-memory store
  Request,     \* requests that may be in progress at a time
  TTL,         \* MAX_CLOCK_SKEW_MS, the lifetime of a consumed nonce
  MaxEntries,  \* maxEntries of the in-memory store
  MaxTime,     \* bound: the clock
  MaxGrants    \* bound: how often a nonce is consumed

ASSUME ReplayGuardAssumption ==
  /\ Memory \notin Node
  /\ TTL \in Nat
  /\ MaxEntries \in Nat \ {0}
  /\ MaxTime \in Nat
  /\ MaxGrants \in Nat

VARIABLES
  now,            \* Date.now()
  servers,        \* which serve: the nodes, or the one on the in-memory store
  store,          \* InMemoryReplayProtectionStore.store, in insertion order
  clusterBackend, \* the expiry of every key of the shared Map
  isHealthy,      \* of every node's DistributedReplayProtectionStore
  awaiting,       \* verifyCredentialsAsync calls awaiting health()
  answers,        \* how each request was answered
  granted         \* history: successful consume() calls, per store and nonce

vars == <<now, servers, store, clusterBackend, isHealthy, awaiting, answers, granted>>

Server == Node \union {Memory}

Entry == [nonce : Nonce, expiry : Nat]

Call == [request : Request, server : Server, nonce : Nonce, healthy : BOOLEAN]

\* "unverified" stands for the three answers given before the store is asked.
Answer == {"none", "unverified", "authenticated", "REPLAY_DETECTED",
           "REPLAY_STORE_UNAVAILABLE", "INVALID_SIGNATURE"}

TypeOK ==
  /\ now \in Nat
  /\ servers \in {Node, {Memory}}
  /\ store \in Seq(Entry)
  /\ DOMAIN clusterBackend \subseteq Nonce
  /\ \A n \in DOMAIN clusterBackend : clusterBackend[n] \in Nat
  /\ isHealthy \in [Node -> BOOLEAN]
  /\ awaiting \subseteq Call
  /\ answers \in [Request -> Answer]
  /\ granted \in [{"memory", "cluster"} -> [Nonce -> Nat]]

-----------------------------------------------------------------------------
\* InMemoryReplayProtectionStore.

Live(entry) == now <= entry.expiry

\* A cleaning that takes an entry at the last moment of its lifetime.
CleanExpiredEarly(s) ==
  LET live == {i \in 1 .. Len(s) : s[i].expiry > now}
  IN  IF live = {} THEN << >> ELSE SubSeq(s, Min(live), Len(s))

\* Expired entries go from the front, up to the first that is live.
CleanExpired(s) ==
  LET live == {i \in 1 .. Len(s) : Live(s[i])}
  IN  IF live = {} THEN << >> ELSE SubSeq(s, Min(live), Len(s))

Consumed(s, n) == \E i \in 1 .. Len(s) : s[i].nonce = n /\ Live(s[i])

\* An eviction that takes the newest entry, and one that comes too late.
EvictedNewest(s) ==
  IF Len(s) >= MaxEntries /\ Head(s).nonce # EmptyNonce
  THEN SubSeq(s, 1, Len(s) - 1) ELSE s

EvictedWhenOver(s) ==
  IF Len(s) > MaxEntries /\ Head(s).nonce # EmptyNonce THEN Tail(s) ELSE s

\* The entry inserted first makes room, unless its nonce is empty: the code
\* deletes the oldest key only if it is truthy.
Evicted(s) ==
  IF Len(s) >= MaxEntries /\ Head(s).nonce # EmptyNonce THEN Tail(s) ELSE s

\* Map.set: a key already present keeps its place.
SetEntry(s, n) ==
  LET entry == [nonce |-> n, expiry |-> now + TTL]
  IN  IF \E i \in 1 .. Len(s) : s[i].nonce = n
      THEN [i \in 1 .. Len(s) |-> IF s[i].nonce = n THEN entry ELSE s[i]]
      ELSE Append(s, entry)

-----------------------------------------------------------------------------
\* consume(): whether the nonce is new to the store, and the store after it.

\* A check that lets a nonce through at the last moment of its lifetime.
IsNewExclusive(server, n) ==
  IF server = Memory THEN ~Consumed(CleanExpired(store), n)
  ELSE ~(n \in DOMAIN clusterBackend /\ now < clusterBackend[n])

IsNew(server, n) ==
  IF server = Memory THEN ~Consumed(CleanExpired(store), n)
  ELSE ~(n \in DOMAIN clusterBackend /\ Live([expiry |-> clusterBackend[n]]))

Granted(server, n) ==
  LET kind == IF server = Memory THEN "memory" ELSE "cluster"
  IN  /\ granted[kind][n] < MaxGrants
      /\ granted' = [granted EXCEPT ![kind][n] = @ + 1]

ConsumeInMemory(n) ==
  LET kept == CleanExpired(store)
  IN  /\ store' = IF IsNew(Memory, n) THEN SetEntry(Evicted(kept), n) ELSE kept
      /\ UNCHANGED clusterBackend

ConsumeInCluster(node, n) ==
  /\ clusterBackend' =
       IF IsNew(node, n)
       THEN [m \in DOMAIN clusterBackend \union {n} |->
               IF m = n THEN now + TTL ELSE clusterBackend[m]]
       ELSE clusterBackend
  /\ UNCHANGED store

Consume(server, n) ==
  /\ IF server = Memory THEN ConsumeInMemory(n) ELSE ConsumeInCluster(server, n)
  /\ IF IsNew(server, n) THEN Granted(server, n) ELSE UNCHANGED granted

\* A store that answers without asserting that it is healthy.
AlwaysReachable(server) == TRUE

Reachable(server) == server = Memory \/ isHealthy[server]

-----------------------------------------------------------------------------
Init ==
  /\ now = 0
  /\ servers \in {Node, {Memory}}
  /\ store = << >>
  /\ clusterBackend = [n \in {} |-> 0]
  /\ isHealthy \in [Node -> BOOLEAN]
  /\ awaiting = {}
  /\ answers = [r \in Request |-> "none"]
  /\ granted = [k \in {"memory", "cluster"} |-> [n \in Nonce |-> 0]]

Idle(r) == answers[r] = "none" /\ \A c \in awaiting : c.request # r

Respond(r, answer) == answers' = [answers EXCEPT ![r] = answer]

\* The outcome of a consume() that the verification waited for, and then of
\* the signature check.
AnswerOf(server, n) ==
  IF IsNew(server, n) THEN {"authenticated", "INVALID_SIGNATURE"}
                      ELSE {"REPLAY_DETECTED"}

\* An unknown service or business, or a timestamp out of the window: the store
\* is not asked.
RejectEarly(r) ==
  /\ Idle(r)
  /\ Respond(r, "unverified")
  /\ UNCHANGED <<now, servers, store, clusterBackend, isHealthy, awaiting, granted>>

VerifyCredentials(r, n) ==
  /\ Idle(r)
  /\ Memory \in servers
  /\ Consume(Memory, n)
  /\ \E answer \in AnswerOf(Memory, n) : Respond(r, answer)
  /\ UNCHANGED <<now, servers, isHealthy, awaiting>>

\* verifyCredentials on a distributed store does not wait for what consume()
\* promises: the nonce is spent, and the caller told to use the other call.
VerifyCredentialsOnPromise(r, node, n) ==
  /\ Idle(r)
  /\ isHealthy[node]
  /\ Consume(node, n)
  /\ Respond(r, "REPLAY_STORE_UNAVAILABLE")
  /\ UNCHANGED <<now, servers, isHealthy, awaiting>>

\* When that promise is rejected nobody handles it, and the process ends with
\* every verification it had in progress.
VerifyCredentialsOnRejectedPromise(node) ==
  /\ ~isHealthy[node]
  /\ \E r \in Request : Idle(r)
  /\ awaiting' = {c \in awaiting : c.server # node}
  /\ UNCHANGED <<now, servers, store, clusterBackend, isHealthy, answers, granted>>

\* verifyCredentialsAsync up to its first await.
BeginVerifyCredentialsAsync(r, server, n) ==
  /\ Idle(r)
  /\ awaiting' = awaiting \union
       {[request |-> r, server |-> server, nonce |-> n,
         healthy |-> Reachable(server)]}
  /\ store' = IF server = Memory THEN CleanExpired(store) ELSE store
  /\ UNCHANGED <<now, servers, clusterBackend, isHealthy, answers, granted>>

\* From there to its answer, when health() reported well: consume() throws if
\* the store has become unhealthy meanwhile.
FinishVerifyCredentialsAsync(call) ==
  /\ awaiting' = awaiting \ {call}
  /\ IF call.healthy /\ Reachable(call.server)
     THEN /\ Consume(call.server, call.nonce)
          /\ \E answer \in AnswerOf(call.server, call.nonce) :
               Respond(call.request, answer)
     ELSE /\ Respond(call.request, "REPLAY_STORE_UNAVAILABLE")
          /\ UNCHANGED <<store, clusterBackend, granted>>
  /\ UNCHANGED <<now, servers, isHealthy>>

\* The caller has its answer and may send another request.
Receive(r) ==
  /\ answers[r] # "none"
  /\ Respond(r, "none")
  /\ UNCHANGED <<now, servers, store, clusterBackend, isHealthy, awaiting, granted>>

SetHealthy(node) ==
  /\ isHealthy' = [isHealthy EXCEPT ![node] = ~@]
  /\ UNCHANGED <<now, servers, store, clusterBackend, awaiting, answers, granted>>

\* The server on the in-memory store restarts, or resetReplayStore() is called.
Restart ==
  /\ Memory \in servers
  /\ store' = << >>
  /\ awaiting' = {c \in awaiting : c.server # Memory}
  /\ UNCHANGED <<now, servers, clusterBackend, isHealthy, answers, granted>>

Tick ==
  /\ now < MaxTime
  /\ now' = now + 1
  /\ UNCHANGED <<servers, store, clusterBackend, isHealthy, awaiting, answers, granted>>

Next ==
  \/ \E r \in Request : RejectEarly(r) \/ Receive(r)
  \/ \E r \in Request, n \in Nonce : VerifyCredentials(r, n)
  \/ \E r \in Request, node \in servers \ {Memory}, n \in Nonce :
       VerifyCredentialsOnPromise(r, node, n)
  \/ \E node \in servers \ {Memory} :
       VerifyCredentialsOnRejectedPromise(node) \/ SetHealthy(node)
  \/ \E r \in Request, server \in servers, n \in Nonce :
       BeginVerifyCredentialsAsync(r, server, n)
  \/ \E call \in awaiting : FinishVerifyCredentialsAsync(call)
  \/ Restart
  \/ Tick

Spec == Init /\ [][Next]_vars

-----------------------------------------------------------------------------
\* What the guard promises.

LiveNonces(s) == {s[i].nonce : i \in {j \in 1 .. Len(s) : Live(s[j])}}

ExpiryOf(s, n) == s[CHOOSE i \in 1 .. Len(s) : s[i].nonce = n].expiry

\* Across every node, whatever the requests in progress and the outages: a
\* nonce spent in the shared backend is not granted again before its lifetime
\* of TTL is over.
Cluster ==
  INSTANCE Leases WITH
    Key <- Nonce, Term <- {TTL}, Revocable <- FALSE,
    deadline <- [n \in {m \in DOMAIN clusterBackend : now <= clusterBackend[m]}
                   |-> clusterBackend[n]],
    grants <- granted["cluster"]

ClusterGrantsOncePerLifetime == Cluster!Spec

\* The in-memory store promises the same of the nonces it remembers; it may
\* forget one, when full or restarted.
InMemory ==
  INSTANCE Leases WITH
    Key <- Nonce, Term <- {TTL}, Revocable <- TRUE,
    deadline <- [n \in LiveNonces(store) |-> ExpiryOf(store, n)],
    grants <- granted["memory"]

MemoryGrantsOncePerLifetime == InMemory!Spec

\* Within a run of the server, a nonce is forgotten before its lifetime is over
\* only when MaxEntries live nonces or more are remembered, and then it is the
\* one that would have expired first; the empty nonce is never forgotten.
ForgetsOnlyWhenFull ==
  [][\A n \in LiveNonces(store) \ LiveNonces(store') :
       \/ store' = << >>
       \/ now' # now
       \/ /\ Cardinality(LiveNonces(store)) >= MaxEntries
          /\ n # EmptyNonce
          /\ \A m \in LiveNonces(store) : ExpiryOf(store, n) <= ExpiryOf(store, m)]_vars

\* "Bounded memory with LRU eviction" (replay-store.ts:6) has one way out, which
\* every nonce after it can take: the store grows past MaxEntries only while its
\* oldest entry is the empty nonce, still within its lifetime.
OutgrownOnlyBehindEmptyNonce ==
  [][Len(store') > Len(store) /\ Len(store') > MaxEntries =>
       store # << >> /\ store[1].nonce = EmptyNonce /\ Live(store[1])]_vars

\* A request is authenticated only in a step that also grants its nonce on a
\* store that is reachable at that moment, whatever health() said before.
AuthenticatedOnlyByGrant ==
  [][\A r \in Request :
       answers'[r] = "authenticated" /\ answers[r] # "authenticated" =>
         /\ granted' # granted
         /\ \A c \in awaiting \ awaiting' : c.server = Memory \/ isHealthy[c.server]]_vars

=============================================================================
