----------------------------- MODULE RateLimiter -----------------------------
(***************************************************************************)
(* ApplicationRateLimiter of src/server/rate-limiter.ts, which every       *)
(* request passes first (src/server/routes.ts).  A client has a window per *)
(* tier.  The map of windows is in insertion order and bounded.            *)
(***************************************************************************)
EXTENDS Runtime, Integers, Sequences

CONSTANTS
  Client,      \* addresses
  Tier,        \* UNAUTHENTICATED, AUTHENTICATED, SENSITIVE
  Config,      \* [Tier -> [maxRequests, burstAllowance, windowMs]]
  Capacity,    \* maxTrackedEntries
  Second       \* ticks of the clock in a second of Retry-After

ASSUME RateLimiterAssumption ==
  /\ \A t \in Tier :
       /\ Config[t].maxRequests \in Nat \ {0}
       /\ Config[t].burstAllowance \in Nat
       /\ Config[t].windowMs \in Nat \ {0}
  /\ Capacity \in Nat \ {0}
  /\ Second \in Nat \ {0}
  /\ MaxTime \in Nat \ {0}

VARIABLE windows  \* ApplicationRateLimiter.windows, in insertion order

limiterVars == <<now, windows>>

Key == Tier \X Client

RateWindow ==
  [key : Key, timestamps : Seq(1 .. MaxTime), lastAccess : 1 .. MaxTime]

Tracked == {windows[i].key : i \in DOMAIN windows}

\* However many addresses appear, no more than Capacity windows are kept, one
\* for a key.
LimiterTypeOK ==
  /\ now \in 1 .. MaxTime
  /\ windows \in Seq(RateWindow)
  /\ Len(windows) <= Capacity
  /\ Cardinality(Tracked) = Len(windows)

LimiterInit == now = 1 /\ windows = <<>>

-----------------------------------------------------------------------------
WindowOf(key) == Config[key[1]].windowMs

EffectiveLimit(key) == Config[key[1]].maxRequests + Config[key[1]].burstAllowance

\* The requests of a bucket that still count at a time.
Counting(bucket, time) ==
  Filtered(bucket.timestamps,
           {i \in DOMAIN bucket.timestamps :
              bucket.timestamps[i] > time - WindowOf(bucket.key)})

\* A tenth of the entries go, one at least, the first inserted first.
EvictTarget == IF Capacity \div 10 > 1 THEN Capacity \div 10 ELSE 1

\* A fault of EvictedIfFull: one entry too many.
EvictedWhenOver ==
  IF Len(windows) <= Capacity THEN windows
  ELSE SubSeq(windows, EvictTarget + 1, Len(windows))

EvictedIfFull ==
  IF Len(windows) < Capacity THEN windows
  ELSE SubSeq(windows, EvictTarget + 1, Len(windows))

\* The windows with a bucket for the key.
WithBucket(key) ==
  IF key \in Tracked THEN windows
  ELSE Append(EvictedIfFull, [key |-> key, timestamps |-> <<>>, lastAccess |-> now])

\* A fault of Full: one request too many.
FullOver(bucket) == Len(Counting(bucket, now)) > EffectiveLimit(bucket.key)

Full(bucket) == Len(Counting(bucket, now)) >= EffectiveLimit(bucket.key)

\* A request that finds the window full is refused and does not count.
Accessed(bucket) ==
  [bucket EXCEPT !.lastAccess = now,
                 !.timestamps = IF Full(bucket) THEN Counting(bucket, now)
                                ELSE Append(Counting(bucket, now), now)]

CheckLimit(key) ==
  LET held == WithBucket(key)
  IN  /\ windows' = [i \in DOMAIN held |->
                       IF held[i].key = key THEN Accessed(held[i]) ELSE held[i]]
      /\ UNCHANGED now

\* A fault of RetryAfter: rounded down.
RetryAfterRoundedDown(bucket) ==
  LET seconds == (Head(Counting(bucket, now)) + WindowOf(bucket.key) - now) \div Second
  IN  IF seconds > 1 THEN seconds ELSE 1

\* What a refused client is told, in seconds: when its oldest request leaves
\* the window.
RetryAfter(bucket) ==
  LET wait == Head(Counting(bucket, now)) + WindowOf(bucket.key) - now
      seconds == (wait + Second - 1) \div Second
  IN  IF seconds > 1 THEN seconds ELSE 1

Stale(bucket) == now - bucket.lastAccess > WindowOf(bucket.key)

CleanExpired ==
  /\ windows' = Filtered(windows, {i \in DOMAIN windows : ~Stale(windows[i])})
  /\ UNCHANGED now

\* reset and destroy.
Reset == windows' = <<>> /\ UNCHANGED now

Tick == Advance /\ UNCHANGED windows

LimiterNext ==
  \/ \E key \in Key : CheckLimit(key)
  \/ CleanExpired
  \/ Reset
  \/ Tick

LimiterSpec == LimiterInit /\ [][LimiterNext]_limiterVars

-----------------------------------------------------------------------------
\* What the limiter promises.

\* The requests of a key that count, at this moment, wherever its bucket is.
Admitted(key) ==
  IF key \in Tracked
    THEN Counting(windows[CHOOSE i \in DOMAIN windows : windows[i].key = key], now)
    ELSE <<>>

\* Whose windows the next new key takes the place of.
NoRoomFor ==
  IF Len(windows) < Capacity THEN {} ELSE {windows[i].key : i \in 1 .. EvictTarget}

\* Buckets are pruned only when they are used, and cleaned and evicted at other
\* times; still, at any time, no window of any length of real time admits more
\* than the limit, but for requests forgotten by a reset or, when the map is full
\* and a new key comes, with the buckets inserted first: cleaning forgets nothing.
Quota ==
  INSTANCE SlidingWindow WITH
    Limit <- [k \in Key |-> EffectiveLimit(k)], Window <- [k \in Key |-> WindowOf(k)],
    forgettable <- NoRoomFor, admitted <- [k \in Key |-> Admitted(k)]

WindowsAreQuotas == Quota!Init /\ [][Quota!Next]_(Quota!windowVars)

\* A refused client that waits as long as Retry-After says, and nobody else uses
\* its address meanwhile, finds room in its window.
RetryAfterSuffices ==
  \A i \in DOMAIN windows :
    Full(windows[i]) =>
      Len(Counting(windows[i], now + RetryAfter(windows[i]) * Second))
        < EffectiveLimit(windows[i].key)

=============================================================================
