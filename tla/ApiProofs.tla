------------------------------ MODULE ApiProofs ------------------------------
(***************************************************************************)
(* The API before the pipeline.  Whatever mixture of events, alerts,       *)
(* triages and traces it handles, its stores tell the incident, and the    *)
(* threat engine misses no brute force among the events it still           *)
(* remembers.  The rate limiter that every request passes first keeps its  *)
(* quotas, in bounded memory, and tells refused clients long enough.       *)
(* Behind it, the AI services: the sandbox answers a tool call as the      *)
(* whole past of its agent deserves, no detection passes the gateway,      *)
(* nothing registered leaves it, and the pipeline asks the policies in     *)
(* force.                                                                  *)
(***************************************************************************)
EXTENDS Operations, RateLimiter, AiSecurity, SequenceTheorems, FiniteSetTheorems,
        WellFoundedInduction, TLAPS

-----------------------------------------------------------------------------
(* The latest of a sequence. *)

\* Element by element.
LEMMA LatestElements ==
  ASSUME NEW s \in Seq(Event), NEW all \in Seq(Event), Len(s) <= Len(all)
  PROVE  s = SubSeq(all, Len(all) - Len(s) + 1, Len(all))
           <=> \A i \in 1 .. Len(s) : s[i] = all[Len(all) - Len(s) + i]
<1> DEFINE first == Len(all) - Len(s) + 1
           latest == SubSeq(all, first, Len(all))
<1>1. Len(s) \in Nat /\ Len(all) \in Nat /\ first \in 1 .. Len(all) + 1
  OBVIOUS
<1>2. /\ latest \in Seq(Event)
      /\ Len(latest) = Len(s)
      /\ \A i \in 1 .. Len(s) : latest[i] = all[Len(all) - Len(s) + i]
  <2>1. CASE Len(s) = 0
    BY <1>1, <2>1, SubSeqProperties
  <2>2. CASE Len(s) # 0
    BY <1>1, <2>2, SubSeqProperties
  <2> QED BY <2>1, <2>2
<1> QED BY <1>2, SeqEqual

\* What is added to both is the latest of both.
LEMMA LatestAppend ==
  ASSUME NEW s \in Seq(Event), NEW all \in Seq(Event), NEW room \in Nat,
         AreTheLatest(s, all, room), NEW e \in Event
  PROVE  AreTheLatest(Append(s, e), Append(all, e), room)
<1> DEFINE t == Append(s, e)
           more == Append(all, e)
<1>1. /\ Len(s) \in Nat /\ Len(all) \in Nat /\ Len(s) <= Len(all)
      /\ \A i \in 1 .. Len(s) : s[i] = all[Len(all) - Len(s) + i]
  <2>1. /\ Len(s) <= Len(all)
        /\ s = SubSeq(all, Len(all) - Len(s) + 1, Len(all))
    BY DEF AreTheLatest
  <2> QED BY <2>1, LatestElements
<1>2. Len(s) = Len(all) \/ Len(s) >= room
  BY DEF AreTheLatest
<1>3. /\ t \in Seq(Event) /\ Len(t) = Len(s) + 1 /\ t[Len(s) + 1] = e
      /\ \A i \in 1 .. Len(s) : t[i] = s[i]
  BY AppendProperties
<1>4. /\ more \in Seq(Event) /\ Len(more) = Len(all) + 1 /\ more[Len(all) + 1] = e
      /\ \A i \in 1 .. Len(all) : more[i] = all[i]
  BY AppendProperties
<1> HIDE DEF t, more
<1>5. ASSUME NEW i \in 1 .. Len(t)
      PROVE  t[i] = more[Len(more) - Len(t) + i]
  <2> DEFINE j == Len(all) - Len(s) + i
  <2>1. /\ Len(more) - Len(t) + i = j
        /\ i \in 1 .. Len(s) => j \in 1 .. Len(all)
        /\ i \notin 1 .. Len(s) => i = Len(s) + 1 /\ j = Len(all) + 1
    BY <1>1, <1>3, <1>4
  <2> QED BY <1>1, <1>3, <1>4, <2>1
<1>6. /\ Len(t) <= Len(more)
      /\ Len(t) = Len(more) \/ Len(t) >= room
  BY <1>1, <1>2, <1>3, <1>4
<1>7. AreTheLatest(t, more, room)
  BY <1>3, <1>4, <1>5, <1>6, LatestElements DEF AreTheLatest
<1> QED BY <1>7 DEF t, more

\* Where there is no room for one more, the first goes.
LEMMA LatestTail ==
  ASSUME NEW s \in Seq(Event), NEW all \in Seq(Event), NEW room \in Nat,
         AreTheLatest(s, all, room), Len(s) > room
  PROVE  /\ Tail(s) \in Seq(Event)
         /\ Len(Tail(s)) = Len(s) - 1
         /\ AreTheLatest(Tail(s), all, room)
<1> DEFINE t == Tail(s)
<1>1. /\ Len(s) \in Nat /\ Len(all) \in Nat /\ Len(s) <= Len(all)
      /\ \A i \in 1 .. Len(s) : s[i] = all[Len(all) - Len(s) + i]
  BY LatestElements DEF AreTheLatest
<1>2. /\ t \in Seq(Event) /\ Len(t) = Len(s) - 1
      /\ \A i \in 1 .. Len(t) : t[i] = s[i + 1]
  BY <1>1
<1> HIDE DEF t
<1>3. ASSUME NEW i \in 1 .. Len(t)
      PROVE  t[i] = all[Len(all) - Len(t) + i]
  BY <1>1, <1>2
<1>4. Len(t) <= Len(all) /\ Len(t) >= room
  BY <1>1, <1>2
<1>5. AreTheLatest(t, all, room)
  BY <1>2, <1>3, <1>4, LatestElements DEF AreTheLatest
<1> QED BY <1>2, <1>5 DEF t

\* The events that a sequence holds.
LEMMA SetOf ==
  ASSUME NEW s \in Seq(Event), NEW t \in Seq(Event), NEW e \in Event
  PROVE  /\ ToSet(s) \subseteq Event
         /\ ToSet(Append(s, e)) = ToSet(s) \union {e}
         /\ ToSet(s \o t) = ToSet(s) \union ToSet(t)
<1>1. /\ DOMAIN s = 1 .. Len(s) /\ Len(s) \in Nat
      /\ DOMAIN t = 1 .. Len(t) /\ Len(t) \in Nat
  OBVIOUS
<1>2. ToSet(s) \subseteq Event
  BY <1>1 DEF ToSet
<1>3. ToSet(Append(s, e)) = ToSet(s) \union {e}
  <2>1. /\ DOMAIN Append(s, e) = 1 .. Len(s) + 1
        /\ Append(s, e)[Len(s) + 1] = e
        /\ \A i \in 1 .. Len(s) : Append(s, e)[i] = s[i]
    BY AppendProperties
  <2> QED BY <1>1, <2>1 DEF ToSet
<1>4. ToSet(s \o t) = ToSet(s) \union ToSet(t)
  <2>1. /\ DOMAIN (s \o t) = 1 .. Len(s) + Len(t)
        /\ \A i \in 1 .. Len(s) : (s \o t)[i] = s[i]
        /\ \A i \in 1 .. Len(t) : (s \o t)[Len(s) + i] = t[i]
    BY <1>1
  <2>2. \A x \in ToSet(s \o t) : x \in ToSet(s) \union ToSet(t)
    <3>1. ASSUME NEW i \in 1 .. Len(s) + Len(t)
          PROVE  (s \o t)[i] \in ToSet(s) \union ToSet(t)
      <4>1. CASE i \in 1 .. Len(s)
        BY <1>1, <2>1, <4>1 DEF ToSet
      <4>2. CASE i \notin 1 .. Len(s)
        <5>1. i - Len(s) \in 1 .. Len(t) /\ i = Len(s) + (i - Len(s))
          BY <1>1, <4>2
        <5>2. (s \o t)[i] = t[i - Len(s)]
          BY <2>1, <5>1
        <5> QED BY <1>1, <5>1, <5>2 DEF ToSet
      <4> QED BY <4>1, <4>2
    <3> QED BY <2>1, <3>1 DEF ToSet
  <2>3. ToSet(s) \subseteq ToSet(s \o t)
    <3>1. \A i \in 1 .. Len(s) : i \in 1 .. Len(s) + Len(t)
      BY <1>1
    <3> QED BY <1>1, <2>1, <3>1 DEF ToSet
  <2>4. ToSet(t) \subseteq ToSet(s \o t)
    <3>1. \A i \in 1 .. Len(t) : Len(s) + i \in 1 .. Len(s) + Len(t)
      BY <1>1
    <3> QED BY <1>1, <2>1, <3>1 DEF ToSet
  <2> QED BY <2>2, <2>3, <2>4
<1> QED BY <1>2, <1>3, <1>4

\* The latest of some events are among them.
LEMMA LatestAreAmong ==
  ASSUME NEW s \in Seq(Event), NEW all \in Seq(Event), NEW room \in Nat,
         AreTheLatest(s, all, room)
  PROVE  ToSet(s) \subseteq ToSet(all)
<1>1. /\ Len(s) \in Nat /\ Len(all) \in Nat /\ Len(s) <= Len(all)
      /\ DOMAIN s = 1 .. Len(s) /\ DOMAIN all = 1 .. Len(all)
      /\ \A i \in 1 .. Len(s) : s[i] = all[Len(all) - Len(s) + i]
  BY LatestElements DEF AreTheLatest
<1>2. \A i \in 1 .. Len(s) : Len(all) - Len(s) + i \in 1 .. Len(all)
  BY <1>1
<1> QED BY <1>1, <1>2 DEF ToSet

-----------------------------------------------------------------------------
(* The threat engine. *)

\* Of the alerts that an event raises, one of brute force comes first.
LEMMA AlertsOf ==
  ASSUME NEW h \in Seq(Event), h # <<>>
  PROVE  /\ Alerts(h) \in Seq(SecurityAlert)
         /\ Len(BruteForce(h)) \in {0, 1}
         /\ Len(BruteForce(h)) <= Len(Alerts(h))
         /\ \A i \in 1 .. Len(Alerts(h)) :
              Alerts(h)[i].rule = "BRUTE_FORCE" <=> i <= Len(BruteForce(h))
         /\ BruteForce(h) # <<>> => Alerts(h)[1] = BruteForce(h)[1]
<1> DEFINE b == BruteForce(h)
           p == UnauthorizedPrivilegedAction(h)
           x == SecretExposure(h)
           Fine(q) == q \in Seq(SecurityAlert) /\ Len(q) \in {0, 1}
<1>1. Last(h) \in Event /\ Last(h).id \in EventId /\ \A i \in DOMAIN h : h[i].id \in EventId
  <2>1. Len(h) \in Nat \ {0} /\ DOMAIN h = 1 .. Len(h)
    OBVIOUS
  <2>2. Last(h) \in Event
    BY <2>1 DEF Last
  <2> QED BY <2>1, <2>2 DEF EventId
<1>2. ASSUME NEW rule \in {"BRUTE_FORCE", "PRIVILEGED_ACTION", "SECRET_EXPOSURE"},
             NEW severity \in {"HIGH", "CRITICAL"},
             NEW sources \in (SUBSET EventId) \ {{}}
      PROVE  /\ Alert(rule, severity, sources) \in SecurityAlert
             /\ Alert(rule, severity, sources).rule = rule
  BY DEF Alert, SecurityAlert, AlertStatus
<1> HIDE DEF b, p, x
<1>3. Fine(b) /\ (b # <<>> => b[1].rule = "BRUTE_FORCE")
  <2> DEFINE failed == FailedEvents(h)
             names == {h[i].id : i \in failed}
  <2>1. names \in SUBSET EventId
    BY <1>1 DEF FailedEvents
  <2>2. \/ b = <<Alert("BRUTE_FORCE", "HIGH", names)>> /\ Cardinality(failed) >= Threshold
        \/ b = <<>>
    BY DEF b, BruteForce
  <2>5. Cardinality(failed) >= Threshold => names # {}
    <3>1. Cardinality({}) = 0
      BY FS_EmptySet
    <3>2. failed = {} => ~(Cardinality(failed) >= Threshold)
      BY <3>1, ThreatEngineAssumption
    <3>3. failed # {} => names # {}
      OBVIOUS
    <3> QED BY <3>2, <3>3
  <2> HIDE DEF names, failed
  <2> HIDE DEF Fine
  <2>3. ASSUME NEW a \in SecurityAlert
        PROVE  Fine(<<a>>) /\ <<a>>[1] = a
    BY DEF Fine
  <2>4. Fine(<<>>)
    BY DEF Fine
  <2> QED BY <1>2, <2>1, <2>2, <2>3, <2>4, <2>5
<1>4. Fine(p) /\ (p # <<>> => p[1].rule = "PRIVILEGED_ACTION")
  <2> DEFINE names == {Last(h).id}
  <2>1. names \in (SUBSET EventId) \ {{}}
    BY <1>1
  <2>2. p = <<Alert("PRIVILEGED_ACTION", "CRITICAL", names)>> \/ p = <<>>
    BY DEF p, UnauthorizedPrivilegedAction
  <2> HIDE DEF Fine, names
  <2>3. ASSUME NEW a \in SecurityAlert
        PROVE  Fine(<<a>>) /\ <<a>>[1] = a
    BY DEF Fine
  <2>4. Fine(<<>>)
    BY DEF Fine
  <2> QED BY <1>2, <2>1, <2>2, <2>3, <2>4
<1>5. Fine(x) /\ (x # <<>> => x[1].rule = "SECRET_EXPOSURE")
  <2> DEFINE names == {Last(h).id}
  <2>1. names \in (SUBSET EventId) \ {{}}
    BY <1>1
  <2>2. x = <<Alert("SECRET_EXPOSURE", "CRITICAL", names)>> \/ x = <<>>
    BY DEF x, SecretExposure
  <2> HIDE DEF Fine, names
  <2>3. ASSUME NEW a \in SecurityAlert
        PROVE  Fine(<<a>>) /\ <<a>>[1] = a
    BY DEF Fine
  <2>4. Fine(<<>>)
    BY DEF Fine
  <2> QED BY <1>2, <2>1, <2>2, <2>3, <2>4
<1> DEFINE bp == b \o p
<1>6. /\ bp \in Seq(SecurityAlert) /\ Len(bp) = Len(b) + Len(p)
      /\ \A i \in 1 .. Len(bp) : bp[i] = IF i <= Len(b) THEN b[i] ELSE p[i - Len(b)]
  BY <1>3, <1>4, ConcatProperties
<1> HIDE DEF bp
<1> DEFINE all == bp \o x
<1>7. /\ all \in Seq(SecurityAlert) /\ Len(all) = Len(bp) + Len(x)
      /\ \A i \in 1 .. Len(all) : all[i] = IF i <= Len(bp) THEN bp[i] ELSE x[i - Len(bp)]
  <2>1. x \in Seq(SecurityAlert)
    BY <1>5
  <2>2. \A q \in Seq(SecurityAlert) :
          /\ q \o x \in Seq(SecurityAlert)
          /\ Len(q \o x) = Len(q) + Len(x)
          /\ \A i \in 1 .. Len(q \o x) :
               (q \o x)[i] = IF i <= Len(q) THEN q[i] ELSE x[i - Len(q)]
    BY <2>1, ConcatProperties
  <2> QED BY <1>6, <2>2, Zenon
<1> HIDE DEF all
<1>8. /\ Len(b) \in {0, 1} /\ Len(p) \in {0, 1} /\ Len(x) \in {0, 1}
      /\ Len(b) = 1 => b # <<>>
      /\ Len(p) = 1 => p # <<>>
      /\ Len(x) = 1 => x # <<>>
      /\ b # <<>> => Len(b) = 1
  <2>1. ASSUME NEW q, Fine(q)
        PROVE  Len(q) \in {0, 1} /\ (Len(q) = 1 <=> q # <<>>)
    <3>1. q \in Seq(SecurityAlert)
      BY <2>1
    <3>2. Len(q) = 0 \/ Len(q) = 1
      BY <2>1
    <3>3. q = <<>> => Len(q) = 0
      BY EmptySeq
    <3>4. q # <<>> => Len(q) # 0
      BY <3>1, EmptySeq
    <3>5. 0 # 1
      OBVIOUS
    <3> QED BY <3>2, <3>3, <3>4, <3>5, Zenon
  <2> HIDE DEF Fine
  <2> QED BY <1>3, <1>4, <1>5, <2>1, Zenon
<1>9. ASSUME NEW i \in 1 .. Len(all)
      PROVE  all[i].rule = "BRUTE_FORCE" <=> i <= Len(b)
  <2>1. CASE i <= Len(b)
    BY <1>3, <1>6, <1>7, <1>8, <2>1
  <2>2. CASE i > Len(b) /\ i <= Len(bp)
    <3>1. i - Len(b) = 1 /\ Len(p) = 1
      BY <1>6, <1>7, <1>8, <2>2
    <3> QED BY <1>4, <1>6, <1>7, <1>8, <2>2, <3>1
  <2>3. CASE i > Len(bp)
    <3>1. i - Len(bp) = 1 /\ Len(x) = 1 /\ i > Len(b)
      BY <1>6, <1>7, <1>8, <2>3
    <3> QED BY <1>5, <1>6, <1>7, <1>8, <2>3, <3>1
  <2> QED BY <1>6, <1>7, <1>8, <2>1, <2>2, <2>3
<1>10. b # <<>> => all[1] = b[1]
  BY <1>6, <1>7, <1>8
<1>11. Len(b) <= Len(all)
  BY <1>6, <1>7, <1>8
<1> QED BY <1>7, <1>8, <1>9, <1>10, <1>11 DEF Alerts, all, bp, b, p, x

\* What the engine counts in its history is what there is to count among all
\* events: positions differ by what was forgotten.
LEMMA SameFailures ==
  ASSUME NEW h \in Seq(Event), h # <<>>, Len(h) <= MaxHistorySize,
         NEW all \in Seq(Event), AreTheLatest(h, all, MaxHistorySize)
  PROVE  /\ all # <<>>
         /\ Last(h) = Last(all)
         /\ Cardinality(FailedEvents(h)) = Cardinality(FailuresBehind(all))
         /\ {h[i].id : i \in FailedEvents(h)} = {all[i].id : i \in FailuresBehind(all)}
<1> DEFINE gone == Len(all) - Len(h)
<1>0. /\ Len(h) \in Nat \ {0} /\ Len(all) \in Nat /\ Len(h) <= Len(all)
      /\ MaxHistorySize \in Nat /\ Len(h) <= MaxHistorySize
  BY ThreatEngineAssumption DEF AreTheLatest
<1>1. /\ Len(h) \in Nat \ {0} /\ Len(all) \in Nat \ {0} /\ gone \in Nat
      /\ DOMAIN h = 1 .. Len(h) /\ DOMAIN all = 1 .. Len(all)
      /\ \A i \in 1 .. Len(h) : h[i] = all[gone + i]
  <2>1. /\ Len(h) <= Len(all)
        /\ h = SubSeq(all, Len(all) - Len(h) + 1, Len(all))
    BY DEF AreTheLatest
  <2>2. \A i \in 1 .. Len(h) : h[i] = all[gone + i]
    BY <2>1, LatestElements
  <2> QED BY <2>1, <2>2
<1>2. gone = 0 \/ Len(h) = MaxHistorySize
  <2>1. Len(h) = Len(all) \/ Len(h) >= MaxHistorySize
    BY DEF AreTheLatest
  <2> QED BY <1>0, <2>1
<1>3. Last(h) = Last(all)
  <2>1. gone + Len(h) = Len(all)
    BY <1>1
  <2> QED BY <1>1, <2>1 DEF Last
<1>4. ASSUME NEW i \in 1 .. Len(h)
      PROVE  i \in FailedEvents(h) <=> gone + i \in FailuresBehind(all)
  <2>1. gone + i \in 1 .. Len(all) /\ gone + i > Len(all) - MaxHistorySize
    BY <1>0, <1>2
  <2>2. i \in FailedEvents(h) <=> CountsToward(h[i], Last(h))
    BY <1>1 DEF FailedEvents
  <2>3. gone + i \in FailuresBehind(all) <=> CountsToward(all[gone + i], Last(all))
    BY <1>1, <2>1 DEF FailuresBehind
  <2> QED BY <1>1, <1>3, <2>2, <2>3
<1>5. ASSUME NEW j \in FailuresBehind(all)
      PROVE  j - gone \in FailedEvents(h) /\ j = gone + (j - gone)
  <2>1. j \in 1 .. Len(all) /\ j > Len(all) - MaxHistorySize
    BY <1>1 DEF FailuresBehind
  <2>2. j - gone \in 1 .. Len(h) /\ j = gone + (j - gone)
    BY <1>0, <1>2, <2>1
  <2> QED BY <1>4, <2>2
<1>6. FailedEvents(h) \subseteq 1 .. Len(h) /\ IsFiniteSet(FailedEvents(h))
  <2>1. FailedEvents(h) \in SUBSET (1 .. Len(h))
    BY <1>1 DEF FailedEvents
  <2>2. IsFiniteSet(1 .. Len(h))
    BY <1>1, FS_Interval
  <2> QED BY <2>1, <2>2, FS_Subset
<1> DEFINE f == [i \in FailedEvents(h) |-> gone + i]
<1>7. f \in Bijection(FailedEvents(h), FailuresBehind(all))
  <2>1. f \in [FailedEvents(h) -> FailuresBehind(all)]
    BY <1>4, <1>6
  <2>2. \A i, j \in FailedEvents(h) : f[i] = f[j] => i = j
    BY <1>1, <1>6
  <2>3. \A j \in FailuresBehind(all) : \E i \in FailedEvents(h) : f[i] = j
    BY <1>5
  <2> HIDE DEF f
  <2> QED BY <2>1, <2>2, <2>3 DEF Bijection, Injection, Surjection, IsInjective
<1>8. Cardinality(FailedEvents(h)) = Cardinality(FailuresBehind(all))
  BY <1>6, <1>7, FS_Bijection DEF ExistsBijection
<1>9. {h[i].id : i \in FailedEvents(h)} = {all[i].id : i \in FailuresBehind(all)}
  <2>1. ASSUME NEW i \in FailedEvents(h)
        PROVE  gone + i \in FailuresBehind(all) /\ h[i].id = all[gone + i].id
    BY <1>1, <1>4, <1>6
  <2>2. ASSUME NEW j \in FailuresBehind(all)
        PROVE  \E i \in FailedEvents(h) : h[i].id = all[j].id
    BY <1>1, <1>5, <1>6
  <2> HIDE DEF gone
  <2> QED BY <2>1, <2>2
<1>10. all # <<>>
  BY <1>1
<1> QED BY <1>3, <1>8, <1>9, <1>10

-----------------------------------------------------------------------------
(* The inductive invariant: both stores of events hold the latest ones, what is
   registered for traces is what came in, and no alert has a number that the
   engine has yet to give. *)

HistoryIsTheLatest == AreTheLatest(eventHistory, ingested, MaxHistorySize)

AllAreRegistered == ToSet(securityEvents) = ToSet(ingested)

NumberedSoFar == \A id \in DOMAIN alertsStore : id <= raised

IInv ==
  /\ TypeOK
  /\ HistoryIsTheLatest
  /\ RecentAreTheLatest
  /\ AllAreRegistered
  /\ NumberedSoFar

\* The handlers start with nothing.
LEMMA InitIInv == Init => IInv
<1> SUFFICES ASSUME Init PROVE IInv
  OBVIOUS
<1>1. <<>> \in Seq(Event) /\ Len(<<>>) = 0
  BY EmptySeq
<1>2. TypeOK
  BY <1>1, ThreatEngineAssumption DEF Init, TypeOK
<1>3. AreTheLatest(<<>>, <<>>, MaxHistorySize) /\ AreTheLatest(<<>>, <<>>, MaxRecent)
  <2>1. <<>> = SubSeq(<<>>, Len(<<>>) - Len(<<>>) + 1, Len(<<>>))
    BY <1>1, LatestElements
  <2> QED BY <1>1, <2>1 DEF AreTheLatest
<1>4. HistoryIsTheLatest /\ RecentAreTheLatest
  BY <1>3 DEF Init, HistoryIsTheLatest, RecentAreTheLatest
<1>5. AllAreRegistered /\ NumberedSoFar
  BY DEF Init, AllAreRegistered, NumberedSoFar
<1> QED BY <1>2, <1>4, <1>5 DEF IInv

\* processEvent: the history takes the event in and forgets one if it must.
LEMMA HistoryTakesIn ==
  ASSUME IInv, NEW event \in Event
  PROVE  /\ Remembered(event) \in Seq(Event)
         /\ Remembered(event) # <<>>
         /\ Len(Remembered(event)) <= MaxHistorySize
         /\ AreTheLatest(Remembered(event), Append(ingested, event), MaxHistorySize)
<1> DEFINE all == Append(eventHistory, event)
<1>1. /\ eventHistory \in Seq(Event) /\ ingested \in Seq(Event)
      /\ Len(eventHistory) <= MaxHistorySize /\ MaxHistorySize \in Nat \ {0}
  BY ThreatEngineAssumption DEF IInv, TypeOK
<1>2. AreTheLatest(eventHistory, ingested, MaxHistorySize)
  BY DEF IInv, HistoryIsTheLatest
<1>3. AreTheLatest(all, Append(ingested, event), MaxHistorySize)
  BY <1>1, <1>2, LatestAppend
<1>4. all \in Seq(Event) /\ Append(ingested, event) \in Seq(Event)
      /\ Len(all) = Len(eventHistory) + 1
  BY <1>1, AppendProperties
<1> HIDE DEF all
<1>5. CASE Len(all) > MaxHistorySize
  <2>1. Remembered(event) = Tail(all)
    BY <1>5 DEF Remembered, all
  <2>2. /\ Tail(all) \in Seq(Event) /\ Len(Tail(all)) = Len(all) - 1
        /\ AreTheLatest(Tail(all), Append(ingested, event), MaxHistorySize)
    BY <1>1, <1>3, <1>4, <1>5, LatestTail
  <2> DEFINE t == Tail(all)
  <2> HIDE DEF t
  <2>3. Len(t) = Len(all) - 1
    BY <2>2 DEF t
  <2>4. Len(t) <= MaxHistorySize /\ Len(t) # 0
    BY <1>1, <1>4, <1>5, <2>3
  <2>5. t # <<>>
    BY <2>4, EmptySeq
  <2> QED BY <2>1, <2>2, <2>4, <2>5, Zenon DEF t
<1>6. CASE ~(Len(all) > MaxHistorySize)
  <2>1. Remembered(event) = all
    BY <1>6 DEF Remembered, all
  <2>2. Len(all) <= MaxHistorySize /\ Len(all) # 0
    BY <1>1, <1>4, <1>6
  <2>3. all # <<>>
    BY <2>2, EmptySeq
  <2> QED BY <1>3, <1>4, <2>1, <2>2, <2>3, Zenon
<1> QED BY <1>5, <1>6

\* The alerts an event raises are new ones, numbered on.
LEMMA AlertsAreNew ==
  ASSUME IInv, NEW alerts \in Seq(SecurityAlert)
  PROVE  /\ DOMAIN WithAlerts(alerts) \subseteq AlertId
         /\ \A id \in DOMAIN WithAlerts(alerts) :
              /\ WithAlerts(alerts)[id] \in SecurityAlert
              /\ id <= raised + Len(alerts)
         /\ DOMAIN WithAlerts(alerts) \ DOMAIN alertsStore
              = {raised + i : i \in 1 .. Len(alerts)}
         /\ \A i \in 1 .. Len(alerts) : WithAlerts(alerts)[raised + i] = alerts[i]
<1>1. /\ raised \in Nat /\ Len(alerts) \in Nat /\ DOMAIN alerts = 1 .. Len(alerts)
      /\ DOMAIN alertsStore \subseteq Nat
      /\ \A id \in DOMAIN alertsStore : alertsStore[id] \in SecurityAlert /\ id <= raised
  BY DEF IInv, TypeOK, AlertId, NumberedSoFar
<1> DEFINE new == {raised + i : i \in 1 .. Len(alerts)}
           next == WithAlerts(alerts)
<1>2. DOMAIN next = DOMAIN alertsStore \union new
  BY <1>1 DEF WithAlerts
<1>3. \A id \in DOMAIN alertsStore : next[id] = alertsStore[id] /\ id \notin new
  BY <1>1 DEF WithAlerts
<1>4. \A i \in 1 .. Len(alerts) : next[raised + i] = alerts[i]
  BY <1>1 DEF WithAlerts
<1>5. \A id \in new : id \in Nat /\ id <= raised + Len(alerts) /\ next[id] \in SecurityAlert
  BY <1>1, <1>4
<1>6. \A id \in DOMAIN alertsStore : id \in Nat /\ id <= raised + Len(alerts)
  BY <1>1
<1> HIDE DEF new, next
<1>7. DOMAIN next \subseteq Nat
  BY <1>2, <1>5, <1>6
<1>8. \A id \in DOMAIN next : next[id] \in SecurityAlert /\ id <= raised + Len(alerts)
  BY <1>1, <1>2, <1>3, <1>5, <1>6
<1>9. DOMAIN next \ DOMAIN alertsStore = new
  BY <1>2, <1>3
<1> QED BY <1>4, <1>7, <1>8, <1>9 DEF new, next, AlertId

\* An event on either path, up to what is put on record and shown.
LEMMA ProcessKeeps ==
  ASSUME IInv, NEW event \in Event, NEW path, Process(event, path)
  PROVE  /\ ingested' = Append(ingested, event) /\ ingested' \in Seq(Event)
         /\ commands' = commands
         /\ eventHistory' \in Seq(Event) /\ eventHistory' # <<>>
         /\ Len(eventHistory') <= MaxHistorySize
         /\ HistoryIsTheLatest'
         /\ securityEvents' \in Seq(Event) /\ AllAreRegistered'
         /\ Alerts(eventHistory') \in Seq(SecurityAlert)
         /\ DOMAIN alertsStore' \subseteq AlertId
         /\ \A id \in DOMAIN alertsStore' : alertsStore'[id] \in SecurityAlert
         /\ raised' \in Nat
         /\ NumberedSoFar'
<1>1. /\ ingested \in Seq(Event) /\ securityEvents \in Seq(Event) /\ raised \in Nat
      /\ ToSet(securityEvents) = ToSet(ingested)
  BY DEF IInv, TypeOK, AllAreRegistered
<1>2. /\ ingested' = Append(ingested, event)
      /\ securityEvents' = Append(securityEvents, event)
      /\ eventHistory' = Remembered(event)
      /\ alertsStore' = WithAlerts(Alerts(eventHistory'))
      /\ raised' = raised + Len(Alerts(eventHistory'))
      /\ commands' = commands
  BY DEF Process, Registered
<1>3. ingested' \in Seq(Event) /\ securityEvents' \in Seq(Event)
  BY <1>1, <1>2, AppendProperties
<1>4. /\ eventHistory' \in Seq(Event) /\ eventHistory' # <<>>
      /\ Len(eventHistory') <= MaxHistorySize
      /\ AreTheLatest(eventHistory', ingested', MaxHistorySize)
  BY <1>2, HistoryTakesIn
<1>5. ToSet(securityEvents') = ToSet(ingested')
  <2>1. ToSet(Append(securityEvents, event)) = ToSet(securityEvents) \union {event}
    BY <1>1, SetOf
  <2>2. ToSet(Append(ingested, event)) = ToSet(ingested) \union {event}
    BY <1>1, SetOf
  <2> QED BY <1>1, <1>2, <2>1, <2>2, Zenon
<1>6. Alerts(eventHistory') \in Seq(SecurityAlert)
  BY <1>4, AlertsOf
<1>7. /\ DOMAIN alertsStore' \subseteq AlertId
      /\ \A id \in DOMAIN alertsStore' :
           alertsStore'[id] \in SecurityAlert /\ id <= raised'
  BY <1>2, <1>6, AlertsAreNew
<1>8. raised' \in Nat
  BY <1>1, <1>2, <1>6
<1> QED BY <1>2, <1>3, <1>4, <1>5, <1>6, <1>7, <1>8
        DEF HistoryIsTheLatest, AllAreRegistered, NumberedSoFar

\* POST /api/v1/events.
LEMMA PostEventKeeps ==
  ASSUME IInv, NEW event \in Event, PostEvent(event)
  PROVE  IInv'
<1>1. Process(event, "api") /\ recentEvents' = Kept(Append(recentEvents, event))
  BY DEF PostEvent
<1> DEFINE all == Append(recentEvents, event)
<1>2. /\ recentEvents \in Seq(Event) /\ ingested \in Seq(Event)
      /\ AreTheLatest(recentEvents, ingested, MaxRecent) /\ MaxRecent \in Nat
      /\ commands \in Nat
  BY OperationsAssumption DEF IInv, TypeOK, RecentAreTheLatest
<1>3. ingested' = Append(ingested, event) /\ ingested' \in Seq(Event)
  BY <1>1, ProcessKeeps
<1>4. all \in Seq(Event) /\ AreTheLatest(all, ingested', MaxRecent)
  BY <1>2, <1>3, LatestAppend, AppendProperties
<1> HIDE DEF all
<1>5. recentEvents' \in Seq(Event) /\ AreTheLatest(recentEvents', ingested', MaxRecent)
  <2>1. CASE Len(all) > MaxRecent
    <3>1. recentEvents' = Tail(all)
      BY <1>1, <2>1 DEF Kept, all
    <3> QED BY <1>2, <1>3, <1>4, <2>1, <3>1, LatestTail
  <2>2. CASE ~(Len(all) > MaxRecent)
    <3>1. recentEvents' = all
      BY <1>1, <2>2 DEF Kept, all
    <3> QED BY <1>4, <3>1
  <2> QED BY <2>1, <2>2
<1>6. TypeOK'
  BY <1>1, <1>2, <1>5, ProcessKeeps DEF TypeOK
<1>7. RecentAreTheLatest'
  BY <1>5 DEF RecentAreTheLatest
<1> QED BY <1>1, <1>6, <1>7, ProcessKeeps DEF IInv

\* POST /api/v1/ingest/mtf.
LEMMA IngestMtfKeeps ==
  ASSUME IInv, NEW event \in Event, IngestMtf(event)
  PROVE  IInv'
<1>1. Process(event, "mtf") /\ recentEvents' = Append(recentEvents, event)
  BY DEF IngestMtf
<1>2. /\ recentEvents \in Seq(Event) /\ ingested \in Seq(Event)
      /\ AreTheLatest(recentEvents, ingested, MaxRecent) /\ MaxRecent \in Nat
      /\ commands \in Nat
  BY OperationsAssumption DEF IInv, TypeOK, RecentAreTheLatest
<1>3. ingested' = Append(ingested, event)
  BY <1>1, ProcessKeeps
<1>4. recentEvents' \in Seq(Event) /\ AreTheLatest(recentEvents', ingested', MaxRecent)
  BY <1>1, <1>2, <1>3, LatestAppend, AppendProperties
<1>5. TypeOK'
  BY <1>1, <1>2, <1>4, ProcessKeeps DEF TypeOK
<1>6. RecentAreTheLatest'
  BY <1>4 DEF RecentAreTheLatest
<1> QED BY <1>1, <1>5, <1>6, ProcessKeeps DEF IInv

\* POST /api/v1/alerts.
LEMMA PostAlertKeeps ==
  ASSUME IInv, NEW id \in DOMAIN alertsStore \union {0}, NEW alert \in PostedAlert,
         PostAlert(id, alert)
  PROVE  IInv'
<1>1. /\ alertsStore' = [other \in DOMAIN alertsStore \union {id} |->
                           IF other = id THEN alert ELSE alertsStore[other]]
      /\ UNCHANGED <<eventHistory, recentEvents, securityEvents, raised, ingested>>
      /\ commands' = commands + 1
  BY DEF PostAlert, Command
<1>2. alert \in SecurityAlert
  BY PostedAlertAssumption
<1>3. /\ DOMAIN alertsStore' \subseteq AlertId
      /\ \A k \in DOMAIN alertsStore' : alertsStore'[k] \in SecurityAlert /\ k <= raised
  BY <1>1, <1>2 DEF IInv, TypeOK, AlertId, NumberedSoFar
<1>4. TypeOK'
  <2>1. commands' \in Nat
    BY <1>1 DEF IInv, TypeOK
  <2>2. \A k \in DOMAIN alertsStore' : alertsStore'[k] \in SecurityAlert
    BY <1>3
  <2> QED BY <1>1, <1>3, <2>1, <2>2, Zenon DEF IInv, TypeOK
<1>5. HistoryIsTheLatest' /\ RecentAreTheLatest' /\ AllAreRegistered'
  BY <1>1 DEF IInv, HistoryIsTheLatest, RecentAreTheLatest, AllAreRegistered
<1>6. NumberedSoFar'
  BY <1>1, <1>3 DEF NumberedSoFar
<1> QED BY <1>4, <1>5, <1>6 DEF IInv

\* POST /api/v1/alerts/:id/triage.
LEMMA TriageAlertKeeps ==
  ASSUME IInv, NEW id \in DOMAIN alertsStore, NEW status, TriageAlert(id, status)
  PROVE  IInv'
<1>1. /\ status \in AlertStatus
      /\ alertsStore' = [alertsStore EXCEPT ![id].status = status]
      /\ UNCHANGED <<eventHistory, recentEvents, securityEvents, raised, ingested>>
      /\ commands' = commands + 1
  BY DEF TriageAlert, ValidStatus, Command
<1>2. \A k \in DOMAIN alertsStore : alertsStore[k] \in SecurityAlert
  BY DEF IInv, TypeOK
<1>3. [alertsStore[id] EXCEPT !.status = status] \in SecurityAlert
  BY <1>1, <1>2 DEF SecurityAlert
<1>4. /\ DOMAIN alertsStore' = DOMAIN alertsStore
      /\ \A k \in DOMAIN alertsStore' : alertsStore'[k] \in SecurityAlert
  BY <1>1, <1>2, <1>3
<1>5. TypeOK'
  <2>1. commands' \in Nat
    BY <1>1 DEF IInv, TypeOK
  <2> QED BY <1>1, <1>4, <2>1, Zenon DEF IInv, TypeOK
<1>6. HistoryIsTheLatest' /\ RecentAreTheLatest' /\ AllAreRegistered'
  BY <1>1 DEF IInv, HistoryIsTheLatest, RecentAreTheLatest, AllAreRegistered
<1>7. NumberedSoFar'
  BY <1>1, <1>4 DEF IInv, NumberedSoFar
<1> QED BY <1>5, <1>6, <1>7 DEF IInv

\* GET /api/v1/forensics/trace/:id: what it registers again is among what came in.
LEMMA TraceKeeps ==
  ASSUME IInv, NEW correlation, TraceCorrelationChain(correlation)
  PROVE  IInv'
<1>1. /\ securityEvents' = securityEvents \o recentEvents
      /\ UNCHANGED <<eventHistory, recentEvents, alertsStore, raised, ingested>>
      /\ commands' = commands + 1
  BY DEF TraceCorrelationChain, Command
<1>2. /\ recentEvents \in Seq(Event) /\ ingested \in Seq(Event)
      /\ securityEvents \in Seq(Event)
      /\ AreTheLatest(recentEvents, ingested, MaxRecent) /\ MaxRecent \in Nat
  BY OperationsAssumption DEF IInv, TypeOK, RecentAreTheLatest
<1>3. ToSet(recentEvents) \subseteq ToSet(ingested)
  BY <1>2, LatestAreAmong
<1>4. securityEvents' \in Seq(Event)
  BY <1>1, <1>2
<1>5. AllAreRegistered'
  <2>1. ToSet(securityEvents') = ToSet(securityEvents) \union ToSet(recentEvents)
    <3>1. CASE recentEvents = <<>>
      BY <1>1, <1>2, <3>1 DEF ToSet
    <3>2. CASE recentEvents # <<>>
      <4>1. Head(recentEvents) \in Event
        BY <1>2, <3>2
      <4> QED BY <1>1, <1>2, <4>1, SetOf
    <3> QED BY <3>1, <3>2
  <2> QED BY <1>1, <1>3, <2>1 DEF IInv, AllAreRegistered
<1>6. TypeOK'
  BY <1>1, <1>4 DEF IInv, TypeOK
<1>7. HistoryIsTheLatest' /\ RecentAreTheLatest' /\ NumberedSoFar'
  BY <1>1 DEF IInv, HistoryIsTheLatest, RecentAreTheLatest, NumberedSoFar
<1> QED BY <1>5, <1>6, <1>7 DEF IInv

\* Every step keeps the invariant.
LEMMA NextIInv == IInv /\ [Next]_vars => IInv'
<1> SUFFICES ASSUME IInv, [Next]_vars PROVE IInv'
  OBVIOUS
<1>1. CASE UNCHANGED vars
  BY <1>1 DEF vars, IInv, TypeOK, HistoryIsTheLatest, RecentAreTheLatest,
              AllAreRegistered, NumberedSoFar
<1>2. CASE RejectRequest
  BY <1>1, <1>2 DEF RejectRequest
<1>3. ASSUME NEW event \in Event, PostEvent(event)
      PROVE  IInv'
  BY <1>3, PostEventKeeps
<1>4. ASSUME NEW event \in Event, IngestMtf(event)
      PROVE  IInv'
  BY <1>4, IngestMtfKeeps
<1>5. ASSUME NEW id \in DOMAIN alertsStore \union {0}, NEW alert \in PostedAlert,
             PostAlert(id, alert)
      PROVE  IInv'
  BY <1>5, PostAlertKeeps
<1>6. ASSUME NEW id \in DOMAIN alertsStore, NEW status \in AskedStatus,
             TriageAlert(id, status)
      PROVE  IInv'
  BY <1>6, TriageAlertKeeps
<1>7. ASSUME NEW correlation \in Correlation, TraceCorrelationChain(correlation)
      PROVE  IInv'
  BY <1>7, TraceKeeps
<1> QED BY <1>1, <1>2, <1>3, <1>4, <1>5, <1>6, <1>7 DEF Next

\* The invariant holds.
LEMMA IInvHolds == Spec => []IInv
  BY InitIInv, NextIInv, PTL DEF Spec

-----------------------------------------------------------------------------
(* What the handlers promise. *)

\* Every store holds what it should, the history of the threat engine never more
\* than maxHistorySize events, and every alert is one that validates and has a
\* status that exists, however it was triaged.
THEOREM TypeCorrect == Spec => []TypeOK
<1>1. IInv => TypeOK
  BY DEF IInv
<1> QED BY <1>1, IInvHolds, PTL

\* Whatever mixture of paths events come in by, the dashboard shows the latest of
\* them, in order and without a gap.
THEOREM RecentEventsHaveNoGap == Spec => []RecentAreTheLatest
<1>1. IInv => RecentAreTheLatest
  BY DEF IInv
<1> QED BY <1>1, IInvHolds, PTL

\* traceCorrelationChain tells all events of a correlation that ever came in, the
\* alerts that name them and their resolutions.
THEOREM TracesTellTheIncident == Spec => []TraceTellsTheIncident
<1>1. ASSUME IInv
      PROVE  TraceTellsTheIncident
  <2>1. \A correlation \in Correlation :
          MatchedEvents(correlation)
            = {e \in ToSet(ingested) : e.correlation = correlation}
    BY <1>1 DEF IInv, AllAreRegistered, MatchedEvents
  <2> QED BY <2>1 DEF TraceTellsTheIncident, MatchedAlerts, Resolved
<1> QED BY <1>1, IInvHolds, PTL

\* An event raises an alert of brute force exactly when it should.
LEMMA RaisedWhenDue ==
  ASSUME IInv, NEW event \in Event, NEW path, Process(event, path)
  PROVE  RaisedIfDue
<1> DEFINE failures == FailuresBehind(ingested')
           new == {id \in DOMAIN alertsStore' \ DOMAIN alertsStore :
                     alertsStore'[id].rule = "BRUTE_FORCE"}
           h == eventHistory'
           due == Last(ingested').failedLogin /\ Cardinality(failures) >= Threshold
           names == {ingested'[i].id : i \in failures}
           alerts == Alerts(h)
<1>1. /\ ingested' \in Seq(Event) /\ h \in Seq(Event) /\ h # <<>>
      /\ Len(h) <= MaxHistorySize
      /\ AreTheLatest(h, ingested', MaxHistorySize)
  BY ProcessKeeps DEF HistoryIsTheLatest
<1>2. /\ Last(h) = Last(ingested')
      /\ Cardinality(FailedEvents(h)) = Cardinality(failures)
      /\ {h[i].id : i \in FailedEvents(h)} = names
  BY <1>1, SameFailures
<1>3. BruteForce(h) = IF due THEN <<Alert("BRUTE_FORCE", "HIGH", names)>> ELSE <<>>
  BY <1>2 DEF BruteForce
<1>4. /\ alerts \in Seq(SecurityAlert)
      /\ Len(BruteForce(h)) \in {0, 1}
      /\ Len(BruteForce(h)) <= Len(alerts)
      /\ \A i \in 1 .. Len(alerts) :
           alerts[i].rule = "BRUTE_FORCE" <=> i <= Len(BruteForce(h))
      /\ BruteForce(h) # <<>> => alerts[1] = BruteForce(h)[1]
  BY <1>1, AlertsOf
<1>5. alertsStore' = WithAlerts(alerts) /\ raised \in Nat
  BY DEF Process, IInv, TypeOK
<1>6. /\ DOMAIN alertsStore' \ DOMAIN alertsStore = {raised + i : i \in 1 .. Len(alerts)}
      /\ \A i \in 1 .. Len(alerts) : alertsStore'[raised + i] = alerts[i]
  BY <1>4, <1>5, AlertsAreNew
<1> HIDE DEF h, alerts, failures, names, due
<1>7. new = {raised + i : i \in 1 .. Len(BruteForce(h))}
  <2>1. \A i \in 1 .. Len(alerts) :
          raised + i \in new <=> alerts[i].rule = "BRUTE_FORCE"
    BY <1>6
  <2>2. \A id \in new : \E i \in 1 .. Len(alerts) : id = raised + i
    BY <1>6
  <2>3. 1 .. Len(BruteForce(h)) \subseteq 1 .. Len(alerts)
    BY <1>4
  <2>4. \A i \in 1 .. Len(alerts) :
          alerts[i].rule = "BRUTE_FORCE" <=> i \in 1 .. Len(BruteForce(h))
    BY <1>4
  <2> HIDE DEF new
  <2> QED BY <2>1, <2>2, <2>3, <2>4
<1> HIDE DEF new
<1>8. CASE due
  <2>1. /\ BruteForce(h) # <<>> /\ Len(BruteForce(h)) = 1
        /\ BruteForce(h)[1].sources = names
    BY <1>3, <1>8 DEF Alert
  <2>2. new = {raised + 1}
    BY <1>5, <1>7, <2>1
  <2>3. alertsStore'[raised + 1].sources = names
    BY <1>4, <1>6, <2>1
  <2> QED BY <1>8, <2>2, <2>3 DEF RaisedIfDue, new, failures, names, due
<1>9. CASE ~due
  <2>1. Len(BruteForce(h)) = 0
    BY <1>3, <1>9
  <2>2. new = {}
    BY <1>7, <2>1
  <2> QED BY <1>9, <2>2 DEF RaisedIfDue, new, failures, names, due
<1> QED BY <1>8, <1>9

\* A failed login raises an alert of brute force exactly when enough of its actor
\* or resource are behind it among the last maxHistorySize events, whatever paths
\* they came by, and the alert names those.
THEOREM BruteForceIsNoticed == Spec => BruteForceIsRaised
<1>1. IInv /\ [Next]_vars => [ingested' # ingested => RaisedIfDue]_vars
  <2> SUFFICES ASSUME IInv, Next, ingested' # ingested
               PROVE  RaisedIfDue
    BY DEF vars
  <2>1. PICK event \in Event : PostEvent(event) \/ IngestMtf(event)
    BY DEF Next, RejectRequest, vars, PostAlert, TriageAlert, TraceCorrelationChain
  <2>2. Process(event, "api") \/ Process(event, "mtf")
    BY <2>1 DEF PostEvent, IngestMtf
  <2> QED BY <2>2, RaisedWhenDue
<1> QED BY <1>1, IInvHolds, PTL DEF Spec, BruteForceIsRaised

-----------------------------------------------------------------------------
(* Array.prototype.filter. *)

\* A set of naturals that is not empty has a least element.
LEMMA LeastNatural ==
  ASSUME NEW S, S \subseteq Nat, S # {}
  PROVE  \E x \in S : \A y \in S : x <= y
<1> DEFINE Less == {p \in Nat \X Nat : p[1] < p[2]}
<1>1. IsWellFoundedOn(Less, Nat)
  BY NatLessThanWellFounded, Zenon DEF OpToRel
<1>2. ASSUME NEW x \in Nat, NEW y \in Nat, y < x
      PROVE  <<y, x>> \in Less
  <2>1. <<y, x>> \in Nat \X Nat
    BY SMT
  <2>2. <<y, x>>[1] < <<y, x>>[2]
    BY <1>2, SMT
  <2> QED BY <2>1, <2>2, Zenon
<1> HIDE DEF Less
<1>3. PICK x \in S : \A y \in S : <<y, x>> \notin Less
  BY <1>1, WFMin, Zenon
<1>4. ASSUME NEW y \in S
      PROVE  x <= y
  <2>1. ~(y < x)
    BY <1>2, <1>3, Zenon
  <2> QED BY <2>1, SMT
<1> QED BY <1>4

\* As many as there are from one number to another.
LEMMA Interval ==
  ASSUME NEW a \in Nat, NEW b \in Nat, a <= b + 1
  PROVE  IsFiniteSet(a .. b) /\ Cardinality(a .. b) = b + 1 - a
<1>1. a \in Int /\ b \in Int
  OBVIOUS
<1>2. /\ IsFiniteSet(a .. b)
      /\ Cardinality(a .. b) = IF a > b THEN 0 ELSE b - a + 1
  BY <1>1, FS_Interval, Zenon
<1> QED BY <1>2

\* Each entry at one of some positions, once, and in their order.
IsKept(t, s, at) ==
  \E place \in Bijection(1 .. Cardinality(at), at) :
    /\ \A m, n \in 1 .. Cardinality(at) : m < n => place[m] < place[n]
    /\ t = [n \in 1 .. Cardinality(at) |-> s[place[n]]]

\* What is kept of a sequence, and how much.
LEMMA FilteredIs ==
  ASSUME NEW S, NEW s \in Seq(S), NEW at, at \subseteq 1 .. Len(s)
  PROVE  /\ Cardinality(at) \in Nat /\ Cardinality(at) <= Len(s)
         /\ IsKept(Filtered(s, at), s, at)
<1> DEFINE Below(i) == {j \in at : j <= i}
           c == Cardinality(at)
           rank == [i \in at |-> Cardinality(Below(i))]
           place == [n \in 1 .. c |-> CHOOSE i \in at : Cardinality(Below(i)) = n]
<1>1. /\ IsFiniteSet(at) /\ c \in Nat /\ c <= Len(s)
      /\ at \subseteq Nat
  <2>1. Len(s) \in Nat
    OBVIOUS
  <2>2. IsFiniteSet(1 .. Len(s)) /\ Cardinality(1 .. Len(s)) = Len(s)
    BY <2>1, Interval
  <2>3. IsFiniteSet(at) /\ Cardinality(at) <= Cardinality(1 .. Len(s))
    BY <2>2, FS_Subset
  <2>4. Cardinality(at) \in Nat
    BY <2>3, FS_CardinalityType
  <2> QED BY <2>1, <2>2, <2>3, <2>4
<1>2. ASSUME NEW i \in at
      PROVE  IsFiniteSet(Below(i)) /\ Cardinality(Below(i)) \in 1 .. c
  <2>1. Below(i) \in SUBSET at /\ i \in Below(i)
    BY <1>1
  <2>2. IsFiniteSet(Below(i)) /\ Cardinality(Below(i)) <= c
    BY <1>1, <2>1, FS_Subset
  <2>3. Cardinality(Below(i)) # 0
    BY <2>1, <2>2, FS_EmptySet
  <2> HIDE DEF Below
  <2> QED BY <1>1, <2>2, <2>3, FS_CardinalityType
<1>3. ASSUME NEW i \in at, NEW j \in at, Cardinality(Below(i)) = Cardinality(Below(j))
      PROVE  i = j
  <2>1. CASE i <= j
    <3>0. i \in Nat /\ j \in Nat /\ \A k \in at : k \in Nat
      BY <1>1
    <3>1. Below(i) \in SUBSET Below(j) /\ j \in Below(j)
      <4>1. \A k \in at : k <= i => k <= j
        BY <2>1, <3>0
      <4>2. j <= j
        BY <3>0
      <4> QED BY <4>1, <4>2, Zenon
    <3>2. Below(i) = Below(j)
      <4> HIDE DEF Below
      <4> QED BY <1>2, <1>3, <3>1, FS_Subset
    <3> QED BY <1>1, <2>1, <3>1, <3>2
  <2>2. CASE j <= i
    <3>0. i \in Nat /\ j \in Nat /\ \A k \in at : k \in Nat
      BY <1>1
    <3>1. Below(j) \in SUBSET Below(i) /\ i \in Below(i)
      <4>1. \A k \in at : k <= j => k <= i
        BY <2>2, <3>0
      <4>2. i <= i
        BY <3>0
      <4> QED BY <4>1, <4>2, Zenon
    <3>2. Below(i) = Below(j)
      <4> HIDE DEF Below
      <4> QED BY <1>2, <1>3, <3>1, FS_Subset
    <3> QED BY <1>1, <2>2, <3>1, <3>2
  <2> QED BY <1>1, <2>1, <2>2
<1> HIDE DEF Below
<1>4. rank \in Injection(at, 1 .. c)
  BY <1>2, <1>3 DEF Injection, IsInjective
<1>5. rank \in Surjection(at, 1 .. c)
  <2>1. IsFiniteSet(1 .. c) /\ Cardinality(1 .. c) = c
    BY <1>1, FS_Interval
  <2> HIDE DEF rank
  <2> QED BY <1>4, <2>1, FS_Injection
<1>6. ASSUME NEW n \in 1 .. c
      PROVE  place[n] \in at /\ Cardinality(Below(place[n])) = n
  <2>1. \E i \in at : Cardinality(Below(i)) = n
    BY <1>5 DEF Surjection
  <2> QED BY <2>1
<1>7. place \in Bijection(1 .. c, at)
  <2>1. place \in [1 .. c -> at]
    BY <1>6
  <2>2. \A m, n \in 1 .. c : place[m] = place[n] => m = n
    BY <1>6
  <2>3. \A i \in at : \E n \in 1 .. c : place[n] = i
    BY <1>2, <1>3, <1>6
  <2> HIDE DEF place
  <2> QED BY <2>1, <2>2, <2>3 DEF Bijection, Injection, Surjection, IsInjective
<1>8. Filtered(s, at) = [n \in 1 .. c |-> s[place[n]]]
  BY DEF Filtered, Below
<1>9. ASSUME NEW m \in 1 .. c, NEW n \in 1 .. c, m < n
      PROVE  place[m] < place[n]
  <2>1. /\ place[m] \in at /\ place[n] \in at
        /\ Cardinality(Below(place[m])) = m /\ Cardinality(Below(place[n])) = n
    BY <1>6
  <2> HIDE DEF place
  <2>2. place[m] \in Nat /\ place[n] \in Nat /\ \A k \in at : k \in Nat
    BY <1>1, <2>1
  <2>3. ASSUME place[n] <= place[m]
        PROVE  FALSE
    <3>1. Below(place[n]) \in SUBSET Below(place[m])
      <4>1. \A k \in at : k <= place[n] => k <= place[m]
        BY <2>2, <2>3
      <4> QED BY <4>1 DEF Below
    <3>2. Cardinality(Below(place[n])) <= Cardinality(Below(place[m]))
      BY <1>2, <2>1, <3>1, FS_Subset
    <3> QED BY <1>1, <1>9, <2>1, <3>2
  <2> QED BY <2>2, <2>3
<1> HIDE DEF place, c
<1> QED BY <1>1, <1>7, <1>8, <1>9 DEF c, IsKept

\* What is left of s when its first m entries are gone.
IsRestOf(t, s, m) ==
  /\ m \in 0 .. Len(s)
  /\ t \in Seq(Nat)
  /\ Len(t) = Len(s) - m
  /\ \A i \in 1 .. Len(t) : t[i] = s[m + i]

\* Whatever is left is determined by how many are gone.
LEMMA RestIsOne ==
  ASSUME NEW s \in Seq(Nat), NEW m, NEW t, NEW u, IsRestOf(t, s, m), IsRestOf(u, s, m)
  PROVE  t = u
<1>1. \A i \in 1 .. Len(t) : t[i] = u[i]
  BY DEF IsRestOf
<1> QED BY <1>1, SeqEqual DEF IsRestOf

\* What is left of what is left.
LEMMA RestOfRest ==
  ASSUME NEW s \in Seq(Nat), NEW m, NEW t, IsRestOf(t, s, m), NEW k, NEW u, IsRestOf(u, t, k)
  PROVE  IsRestOf(u, s, m + k)
<1>1. /\ m \in Nat /\ k \in Nat /\ Len(s) \in Nat /\ m + k \in 0 .. Len(s)
      /\ Len(u) = Len(s) - (m + k)
  BY DEF IsRestOf
<1>2. ASSUME NEW i \in 1 .. Len(u)
      PROVE  u[i] = s[m + k + i]
  <2>1. k + i \in 1 .. Len(t) /\ m + (k + i) = m + k + i
    BY <1>1 DEF IsRestOf
  <2> QED BY <2>1 DEF IsRestOf
<1> QED BY <1>1, <1>2 DEF IsRestOf

\* The first entries are what a filter drops if it keeps all others.
LEMMA FilteredRest ==
  ASSUME NEW s \in Seq(Nat), NEW m \in 0 .. Len(s)
  PROVE  IsRestOf(Filtered(s, m + 1 .. Len(s)), s, m)
<1> DEFINE at == m + 1 .. Len(s)
           t == Filtered(s, at)
<1>1. Len(s) \in Nat /\ m \in Nat /\ m <= Len(s)
  OBVIOUS
<1>2. Cardinality(at) = Len(s) - m
  <2>1. Cardinality(m + 1 .. Len(s)) = Len(s) + 1 - (m + 1)
    BY <1>1, Interval
  <2> QED BY <1>1, <2>1
<1>3. ASSUME NEW i \in at
      PROVE  Cardinality({j \in at : j <= i}) = i - m
  <2>1. {j \in at : j <= i} = m + 1 .. i
    BY <1>1
  <2>2. i \in Nat /\ m + 1 \in Nat /\ m + 1 <= i + 1
    BY <1>1
  <2>3. Cardinality(m + 1 .. i) = i + 1 - (m + 1)
    BY <2>2, Interval
  <2>4. i + 1 - (m + 1) = i - m
    BY <2>2
  <2> QED BY <2>1, <2>3, <2>4, Zenon
<1>4. ASSUME NEW n \in 1 .. Len(s) - m
      PROVE  (CHOOSE i \in at : Cardinality({j \in at : j <= i}) = n) = m + n
  <2>1. m + n \in at
    BY <1>1
  <2>2. Cardinality({j \in at : j <= m + n}) = n
    <3>1. Cardinality({j \in at : j <= m + n}) = (m + n) - m
      BY <1>3, <2>1, Zenon
    <3>2. (m + n) - m = n
      BY <1>1
    <3> QED BY <3>1, <3>2
  <2>3. ASSUME NEW i \in at, Cardinality({j \in at : j <= i}) = n
        PROVE  i = m + n
    <3>1. i - m = n
      BY <1>3, <2>3, Zenon
    <3>2. i \in Int /\ n \in Int
      BY <1>1
    <3> QED BY <1>1, <3>1, <3>2
  <2> HIDE DEF at
  <2> QED BY <2>1, <2>2, <2>3
<1>5. t = [n \in 1 .. Len(s) - m |-> s[m + n]]
  <2> HIDE DEF at
  <2>1. t = [n \in 1 .. Len(s) - m |->
               s[CHOOSE i \in at : Cardinality({j \in at : j <= i}) = n]]
    BY <1>2 DEF Filtered
  <2> QED BY <1>4, <2>1
<1>6. \A n \in 1 .. Len(s) - m : s[m + n] \in Nat
  BY <1>1
<1> HIDE DEF at, t
<1>7. t \in Seq(Nat) /\ Len(t) = Len(s) - m
  BY <1>1, <1>5, <1>6
<1>8. \A i \in 1 .. Len(t) : t[i] = s[m + i]
  BY <1>5, <1>7
<1> QED BY <1>7, <1>8 DEF IsRestOf, t, at

-----------------------------------------------------------------------------
(* The windows of the rate limiter. *)

Sorted(s) == \A i, j \in 1 .. Len(s) : i <= j => s[i] <= s[j]

\* In a sorted sequence what is above a bound is at the end.
LEMMA SplitAt ==
  ASSUME NEW s \in Seq(Nat), Sorted(s), NEW bound \in Int
  PROVE  \E m \in 0 .. Len(s) : {i \in DOMAIN s : s[i] > bound} = m + 1 .. Len(s)
<1> DEFINE at == {i \in DOMAIN s : s[i] > bound}
<1>1. Len(s) \in Nat /\ DOMAIN s = 1 .. Len(s) /\ \A i \in 1 .. Len(s) : s[i] \in Nat
  OBVIOUS
<1>2. CASE at = {}
  <2>1. Len(s) \in 0 .. Len(s) /\ Len(s) + 1 .. Len(s) = {}
    BY <1>1
  <2> HIDE DEF at
  <2> QED BY <1>2, <2>1 DEF at
<1>3. CASE at # {}
  <2>1. at \subseteq Nat
    BY <1>1
  <2>2. PICK first \in at : \A i \in at : first <= i
    <3> HIDE DEF at
    <3> QED BY <1>3, <2>1, LeastNatural
  <2>3. first \in 1 .. Len(s) /\ s[first] > bound
    BY <1>1
  <2>4. ASSUME NEW i \in 1 .. Len(s)
        PROVE  i \in at <=> first <= i
    <3>1. i \in at => first <= i
      BY <2>2
    <3>2. first <= i => s[first] <= s[i]
      BY <2>3 DEF Sorted
    <3>3. first <= i => s[i] > bound
      BY <1>1, <2>3, <3>2
    <3> QED BY <1>1, <3>1, <3>3
  <2>5. at = first .. Len(s)
    BY <1>1, <2>3, <2>4
  <2>6. first - 1 \in 0 .. Len(s) /\ (first - 1) + 1 = first
    BY <1>1, <2>3
  <2> HIDE DEF at
  <2> QED BY <2>5, <2>6 DEF at
<1> QED BY <1>2, <1>3

\* What still counts at a time is what came after the first m.
IsCountOf(t, s, m, bound) ==
  /\ IsRestOf(t, s, m)
  /\ \A i \in 1 .. m : s[i] <= bound
  /\ \A i \in m + 1 .. Len(s) : s[i] > bound

LEMMA CountingIs ==
  ASSUME NEW b, b.timestamps \in Seq(Nat), Sorted(b.timestamps), NEW time \in Int,
         WindowOf(b.key) \in Nat
  PROVE  \E m \in 0 .. Len(b.timestamps) :
           IsCountOf(Counting(b, time), b.timestamps, m, time - WindowOf(b.key))
<1> DEFINE s == b.timestamps
           bound == time - WindowOf(b.key)
           at == {i \in DOMAIN s : s[i] > bound}
<1>1. /\ bound \in Int /\ s \in Seq(Nat) /\ Sorted(s)
      /\ Len(s) \in Nat /\ DOMAIN s = 1 .. Len(s) /\ \A i \in 1 .. Len(s) : s[i] \in Nat
  OBVIOUS
<1> HIDE DEF bound, s
<1>2. PICK m \in 0 .. Len(s) : at = m + 1 .. Len(s)
  BY <1>1, SplitAt
<1>3. IsRestOf(Filtered(s, at), s, m)
  <2> HIDE DEF at
  <2> QED BY <1>1, <1>2, FilteredRest
<1>4. Counting(b, time) = Filtered(s, at)
  BY DEF Counting, s, bound
<1>5. ASSUME NEW i \in 1 .. Len(s)
      PROVE  i >= m + 1 <=> s[i] > bound
  <2>1. i \in at <=> s[i] > bound
    BY <1>1
  <2>2. i \in at <=> i >= m + 1
    <3> HIDE DEF at
    <3> QED BY <1>1, <1>2
  <2> QED BY <2>1, <2>2
<1>6. \A i \in 1 .. m : s[i] <= bound
  BY <1>1, <1>5
<1>7. \A i \in m + 1 .. Len(s) : s[i] > bound
  BY <1>1, <1>5
<1> HIDE DEF at
<1> QED BY <1>3, <1>4, <1>6, <1>7 DEF IsCountOf, s, bound

\* Only one number of entries can have left.
LEMMA CountIsOne ==
  ASSUME NEW s \in Seq(Nat), NEW bound \in Int,
         NEW t, NEW m, IsCountOf(t, s, m, bound), NEW u, NEW k, IsCountOf(u, s, k, bound)
  PROVE  m = k /\ t = u
<1>1. m \in 0 .. Len(s) /\ k \in 0 .. Len(s) /\ \A i \in 1 .. Len(s) : s[i] \in Nat
  BY DEF IsCountOf, IsRestOf
<1>2. ASSUME m < k
      PROVE  FALSE
  <2>1. k \in 1 .. k /\ k \in m + 1 .. Len(s) /\ k \in 1 .. Len(s)
    BY <1>1, <1>2
  <2>2. s[k] <= bound /\ s[k] > bound
    BY <2>1 DEF IsCountOf
  <2> QED BY <1>1, <2>1, <2>2
<1>3. ASSUME k < m
      PROVE  FALSE
  <2>1. m \in 1 .. m /\ m \in k + 1 .. Len(s) /\ m \in 1 .. Len(s)
    BY <1>1, <1>3
  <2>2. s[m] <= bound /\ s[m] > bound
    BY <2>1 DEF IsCountOf
  <2> QED BY <1>1, <2>1, <2>2
<1>4. m = k
  BY <1>1, <1>2, <1>3
<1> QED BY <1>4, RestIsOne DEF IsCountOf

\* What counts later is what later counts of what counts now.
LEMMA CountLater ==
  ASSUME NEW s \in Seq(Nat), NEW bound \in Int, NEW later \in Int, bound <= later,
         NEW t, NEW m, IsCountOf(t, s, m, bound),
         NEW u, NEW k, IsCountOf(u, s, k, later)
  PROVE  k - m \in Nat /\ IsCountOf(u, t, k - m, later)
<1>1. /\ m \in 0 .. Len(s) /\ k \in 0 .. Len(s) /\ \A i \in 1 .. Len(s) : s[i] \in Nat
      /\ Len(s) \in Nat
      /\ t \in Seq(Nat) /\ Len(t) = Len(s) - m /\ \A i \in 1 .. Len(t) : t[i] = s[m + i]
      /\ u \in Seq(Nat) /\ Len(u) = Len(s) - k /\ \A i \in 1 .. Len(u) : u[i] = s[k + i]
  BY DEF IsCountOf, IsRestOf
<1>2. m <= k
  <2> SUFFICES ASSUME k < m PROVE FALSE
    BY <1>1
  <2>1. m \in 1 .. m /\ m \in k + 1 .. Len(s) /\ m \in 1 .. Len(s)
    BY <1>1
  <2>2. s[m] <= bound /\ s[m] > later
    BY <2>1 DEF IsCountOf
  <2> QED BY <1>1, <2>1, <2>2
<1> DEFINE d == k - m
<1>3. d \in 0 .. Len(t) /\ Len(u) = Len(t) - d /\ d \in Nat /\ m + d = k
  BY <1>1, <1>2
<1> HIDE DEF d
<1>4. ASSUME NEW i \in 1 .. Len(u)
      PROVE  u[i] = t[d + i]
  <2>1. d + i \in 1 .. Len(t) /\ m + (d + i) = k + i
    BY <1>1, <1>3
  <2> QED BY <1>1, <2>1
<1>5. ASSUME NEW i \in 1 .. d
      PROVE  t[i] <= later
  <2>1. i \in 1 .. Len(t) /\ m + i \in 1 .. k
    BY <1>1, <1>3
  <2> QED BY <1>1, <2>1 DEF IsCountOf
<1>6. ASSUME NEW i \in d + 1 .. Len(t)
      PROVE  t[i] > later
  <2>1. i \in 1 .. Len(t) /\ m + i \in k + 1 .. Len(s)
    BY <1>1, <1>3
  <2> QED BY <1>1, <2>1 DEF IsCountOf
<1> QED BY <1>1, <1>3, <1>4, <1>5, <1>6 DEF IsCountOf, IsRestOf, d

\* What counts is determined by the requests and the time.
LEMMA CountingGiven ==
  ASSUME NEW b, b.timestamps \in Seq(Nat), Sorted(b.timestamps), NEW time \in Int,
         WindowOf(b.key) \in Nat,
         NEW t, NEW m, IsCountOf(t, b.timestamps, m, time - WindowOf(b.key))
  PROVE  Counting(b, time) = t
<1>1. PICK k \in 0 .. Len(b.timestamps) :
        IsCountOf(Counting(b, time), b.timestamps, k, time - WindowOf(b.key))
  BY CountingIs
<1>2. time - WindowOf(b.key) \in Int
  OBVIOUS
<1> QED BY <1>1, <1>2, CountIsOne

\* Where all requests count, none is gone.
LEMMA AllCount ==
  ASSUME NEW s \in Seq(Nat), NEW bound \in Int, \A i \in 1 .. Len(s) : s[i] > bound
  PROVE  IsCountOf(s, s, 0, bound)
<1>1. Len(s) \in Nat /\ 0 \in 0 .. Len(s) /\ Len(s) = Len(s) - 0
  OBVIOUS
<1>2. \A i \in 1 .. Len(s) : s[i] = s[0 + i]
  BY <1>1
<1>3. \A i \in 0 + 1 .. Len(s) : s[i] > bound
  BY <1>1
<1>4. \A i \in 1 .. 0 : s[i] <= bound
  OBVIOUS
<1> QED BY <1>1, <1>2, <1>3, <1>4 DEF IsCountOf, IsRestOf

\* Tiers have limits and windows.
LEMMA TiersAre ==
  ASSUME NEW key \in Key
  PROVE  /\ WindowOf(key) \in Nat \ {0}
         /\ EffectiveLimit(key) \in Nat \ {0}
<1>1. key[1] \in Tier
  BY DEF Key
<1> QED BY <1>1, RateLimiterAssumption DEF WindowOf, EffectiveLimit

\* A bucket: its requests are in the order in which they were admitted, none
\* after it was last used, and no more than the limit allows.
Fine(b, time) ==
  /\ b \in RateWindow
  /\ Sorted(b.timestamps)
  /\ \A i \in 1 .. Len(b.timestamps) : b.timestamps[i] <= b.lastAccess
  /\ b.lastAccess <= time
  /\ Len(b.timestamps) <= EffectiveLimit(b.key)

\* What may be cited of one.
LEMMA FineFacts ==
  ASSUME NEW time \in Int, NEW b, Fine(b, time)
  PROVE  /\ b.key \in Key /\ b.timestamps \in Seq(1 .. MaxTime)
         /\ b.timestamps \in Seq(Nat) /\ Sorted(b.timestamps)
         /\ b.lastAccess \in 1 .. MaxTime /\ b.lastAccess <= time
         /\ \A i \in 1 .. Len(b.timestamps) :
              b.timestamps[i] \in 1 .. MaxTime /\ b.timestamps[i] <= time
         /\ Len(b.timestamps) \in Nat /\ Len(b.timestamps) <= EffectiveLimit(b.key)
         /\ WindowOf(b.key) \in Nat \ {0} /\ EffectiveLimit(b.key) \in Nat \ {0}
         /\ MaxTime \in Nat
<1>1. /\ b.key \in Key /\ b.timestamps \in Seq(1 .. MaxTime) /\ b.lastAccess \in 1 .. MaxTime
      /\ MaxTime \in Nat
  BY RateLimiterAssumption DEF Fine, RateWindow
<1>2. \A i \in 1 .. Len(b.timestamps) : b.timestamps[i] \in 1 .. MaxTime
  BY <1>1
<1>3. b.timestamps \in Seq(Nat) /\ Len(b.timestamps) \in Nat
  BY <1>1, <1>2
<1>4. /\ Sorted(b.timestamps) /\ b.lastAccess <= time
      /\ \A i \in 1 .. Len(b.timestamps) : b.timestamps[i] <= b.lastAccess
      /\ Len(b.timestamps) <= EffectiveLimit(b.key)
  BY DEF Fine
<1>5. \A i \in 1 .. Len(b.timestamps) : b.timestamps[i] <= time
  BY <1>1, <1>2, <1>4
<1> QED BY <1>1, <1>2, <1>3, <1>4, <1>5, TiersAre

\* What counts of a bucket: of the order of time, recent, and no more than it holds.
LEMMA CountingFine ==
  ASSUME NEW time \in Int, NEW b, Fine(b, time), NEW at \in Int, time <= at
  PROVE  \E m \in 0 .. Len(b.timestamps) :
           /\ IsCountOf(Counting(b, at), b.timestamps, m, at - WindowOf(b.key))
           /\ Counting(b, at) \in Seq(1 .. MaxTime)
           /\ Counting(b, at) \in Seq(Nat)
           /\ Len(Counting(b, at)) \in Nat
           /\ Len(Counting(b, at)) <= EffectiveLimit(b.key)
           /\ Sorted(Counting(b, at))
           /\ \A i \in 1 .. Len(Counting(b, at)) :
                /\ Counting(b, at)[i] \in Nat
                /\ Counting(b, at)[i] <= b.lastAccess
                /\ Counting(b, at)[i] > at - WindowOf(b.key)
<1> DEFINE s == b.timestamps
           t == Counting(b, at)
           bound == at - WindowOf(b.key)
<1>1. /\ s \in Seq(1 .. MaxTime) /\ s \in Seq(Nat) /\ Sorted(s) /\ Len(s) \in Nat
      /\ Len(s) <= EffectiveLimit(b.key) /\ EffectiveLimit(b.key) \in Nat
      /\ WindowOf(b.key) \in Nat /\ bound \in Int
      /\ \A i \in 1 .. Len(s) : s[i] \in 1 .. MaxTime
      /\ \A i \in 1 .. Len(s) : s[i] <= b.lastAccess
  <2>1. \A i \in 1 .. Len(s) : s[i] <= b.lastAccess
    BY DEF Fine
  <2> QED BY <2>1, FineFacts
<1>2. PICK m \in 0 .. Len(s) : IsCountOf(t, s, m, bound)
  BY <1>1, CountingIs
<1> HIDE DEF s, t, bound
<1>3. /\ t \in Seq(Nat) /\ Len(t) \in Nat /\ Len(t) = Len(s) - m /\ m \in Nat
      /\ \A i \in 1 .. Len(t) : t[i] = s[m + i] /\ m + i \in m + 1 .. Len(s)
  BY <1>1, <1>2 DEF IsCountOf, IsRestOf
<1>4. \A i \in 1 .. Len(t) : m + i \in 1 .. Len(s)
  BY <1>1, <1>3
<1>5. \A i \in 1 .. Len(t) : t[i] \in 1 .. MaxTime
  BY <1>1, <1>3, <1>4
<1>6. t \in Seq(1 .. MaxTime)
  <2>1. t = [i \in 1 .. Len(t) |-> t[i]]
    BY <1>3
  <2> DEFINE T == 1 .. MaxTime
             n == Len(t)
             copy == [i \in 1 .. n |-> t[i]]
  <2>2. \A i \in 1 .. n : t[i] \in T
    BY <1>5
  <2>3. n \in Nat
    BY <1>3
  <2> HIDE DEF T, n
  <2>4. copy \in Seq(T)
    BY <2>2, <2>3
  <2> QED BY <2>1, <2>4 DEF n, T
<1>7. Sorted(t)
  <2> SUFFICES ASSUME NEW i \in 1 .. Len(t), NEW j \in 1 .. Len(t), i <= j
               PROVE  t[i] <= t[j]
    BY DEF Sorted
  <2>1. m + i <= m + j
    BY <1>3
  <2> QED BY <1>1, <1>3, <1>4, <2>1 DEF Sorted
<1>8. ASSUME NEW i \in 1 .. Len(t)
      PROVE  t[i] \in Nat /\ t[i] <= b.lastAccess /\ t[i] > bound
  <2>1. m + i \in 1 .. Len(s) /\ m + i \in m + 1 .. Len(s) /\ t[i] = s[m + i]
    BY <1>3, <1>4
  <2>2. s[m + i] \in 1 .. MaxTime /\ s[m + i] <= b.lastAccess
    BY <1>1, <2>1
  <2>3. s[m + i] > bound
    BY <1>2, <2>1 DEF IsCountOf
  <2>4. t[i] \in Nat
    BY <1>3
  <2> QED BY <2>1, <2>2, <2>3, <2>4
<1>9. Len(t) <= EffectiveLimit(b.key)
  BY <1>1, <1>3
<1> QED BY <1>2, <1>3, <1>6, <1>7, <1>8, <1>9 DEF s, t, bound

\* checkLimit prunes the bucket and adds the request if there is room for it.
LEMMA AccessedIs ==
  ASSUME now \in 1 .. MaxTime, NEW b, Fine(b, now)
  PROVE  /\ Accessed(b).key = b.key
         /\ Fine(Accessed(b), now)
         /\ Full(b) => Counting(Accessed(b), now) = Counting(b, now)
         /\ ~Full(b) =>
              /\ Len(Counting(b, now)) < EffectiveLimit(b.key)
              /\ Counting(Accessed(b), now) = Append(Counting(b, now), now)
<1> DEFINE t == Counting(b, now)
           bound == now - WindowOf(b.key)
           next == IF Full(b) THEN t ELSE Append(t, now)
<1>1. /\ now \in Nat /\ now \in Int /\ now <= now /\ MaxTime \in Nat
      /\ b.key \in Key /\ b.lastAccess \in 1 .. MaxTime /\ b.lastAccess <= now
      /\ WindowOf(b.key) \in Nat \ {0} /\ EffectiveLimit(b.key) \in Nat \ {0}
      /\ bound \in Int /\ now > bound
  <2>1. now \in Nat /\ now \in Int /\ now <= now
    BY RateLimiterAssumption
  <2> QED BY <2>1, FineFacts
<1>2. /\ t \in Seq(1 .. MaxTime) /\ t \in Seq(Nat) /\ Len(t) \in Nat
      /\ Len(t) <= EffectiveLimit(b.key) /\ Sorted(t)
      /\ \A i \in 1 .. Len(t) : t[i] \in Nat /\ t[i] <= b.lastAccess /\ t[i] > bound
  BY <1>1, CountingFine
<1>3. Accessed(b) = [key |-> b.key, timestamps |-> next, lastAccess |-> now]
  <2>1. b \in RateWindow
    BY DEF Fine
  <2>2. Accessed(b) = [b EXCEPT !.lastAccess = now, !.timestamps = next]
    BY DEF Accessed
  <2> HIDE DEF next
  <2> QED BY <2>1, <2>2 DEF RateWindow
<1>4. Full(b) <=> Len(t) >= EffectiveLimit(b.key)
  BY DEF Full
<1> HIDE DEF t, bound
<1>5. /\ next \in Seq(1 .. MaxTime) /\ next \in Seq(Nat)
      /\ Len(next) <= EffectiveLimit(b.key) /\ Sorted(next)
      /\ \A i \in 1 .. Len(next) : next[i] \in Nat /\ next[i] <= now /\ next[i] > bound
  <2>1. CASE Full(b)
    <3>1. \A i \in 1 .. Len(t) : t[i] <= now
      BY <1>1, <1>2
    <3> QED BY <1>2, <2>1, <3>1
  <2>2. CASE ~Full(b)
    <3> DEFINE more == Append(t, now)
    <3>1. /\ more \in Seq(1 .. MaxTime) /\ more \in Seq(Nat) /\ Len(more) = Len(t) + 1
          /\ more[Len(t) + 1] = now /\ \A i \in 1 .. Len(t) : more[i] = t[i]
      BY <1>1, <1>2, AppendProperties
    <3> HIDE DEF more
    <3>2. Len(more) <= EffectiveLimit(b.key)
      BY <1>1, <1>2, <1>4, <2>2, <3>1
    <3>3. \A i \in 1 .. Len(more) : more[i] \in Nat /\ more[i] <= now /\ more[i] > bound
      <4>1. ASSUME NEW i \in 1 .. Len(more)
            PROVE  more[i] \in Nat /\ more[i] <= now /\ more[i] > bound
        <5>1. CASE i \in 1 .. Len(t)
          <6>1. more[i] = t[i]
            BY <3>1, <5>1
          <6>2. t[i] \in Nat /\ t[i] <= b.lastAccess /\ t[i] > bound
            BY <1>2, <5>1
          <6> QED BY <1>1, <6>1, <6>2
        <5>2. CASE i = Len(t) + 1
          BY <1>1, <3>1, <5>2
        <5> QED BY <1>2, <3>1, <5>1, <5>2
      <4> QED BY <4>1
    <3>4. Sorted(more)
      <4> SUFFICES ASSUME NEW i \in 1 .. Len(more), NEW j \in 1 .. Len(more), i <= j
                   PROVE  more[i] <= more[j]
        BY DEF Sorted
      <4>1. CASE j = Len(t) + 1
        BY <3>1, <3>3, <4>1
      <4>2. CASE j # Len(t) + 1
        <5>1. i \in 1 .. Len(t) /\ j \in 1 .. Len(t)
          BY <1>2, <3>1, <4>2
        <5> QED BY <1>2, <3>1, <5>1 DEF Sorted
      <4> QED BY <4>1, <4>2
    <3>5. next = more
      BY <2>2 DEF more
    <3> QED BY <3>1, <3>2, <3>3, <3>4, <3>5
  <2> QED BY <2>1, <2>2
<1> HIDE DEF next
<1>6. Fine(Accessed(b), now)
  <2>1. Accessed(b) \in RateWindow
    BY <1>1, <1>3, <1>5 DEF RateWindow
  <2> QED BY <1>1, <1>3, <1>5, <2>1 DEF Fine
<1>7. Counting(Accessed(b), now) = next
  <2>1. IsCountOf(next, next, 0, bound)
    BY <1>1, <1>5, AllCount
  <2>2. /\ Accessed(b).timestamps = next /\ Accessed(b).key = b.key
    BY <1>3
  <2>3. /\ Accessed(b).timestamps \in Seq(Nat) /\ Sorted(Accessed(b).timestamps)
        /\ WindowOf(Accessed(b).key) \in Nat
        /\ IsCountOf(next, Accessed(b).timestamps, 0, now - WindowOf(Accessed(b).key))
    BY <1>1, <1>5, <2>1, <2>2 DEF bound
  <2> QED BY <1>1, <2>3, CountingGiven
<1>8. ~Full(b) => Len(t) < EffectiveLimit(b.key)
  BY <1>1, <1>2, <1>4
<1>9. Accessed(b).key = b.key
  BY <1>3
<1>10. ~Full(b) => next = Append(t, now)
  BY DEF next
<1>11. Full(b) => next = t
  BY DEF next
<1> QED BY <1>6, <1>7, <1>8, <1>9, <1>10, <1>11 DEF t

-----------------------------------------------------------------------------
(* The map of windows. *)

Distinct(ws) == \A i, j \in 1 .. Len(ws) : ws[i].key = ws[j].key => i = j

\* A map of windows at a time: a bucket for a key, and every bucket fine.
Good(ws, time) ==
  /\ ws \in Seq(RateWindow)
  /\ Distinct(ws)
  /\ \A i \in 1 .. Len(ws) : Fine(ws[i], time)

LimiterInv ==
  /\ now \in 1 .. MaxTime
  /\ Good(windows, now)
  /\ Len(windows) <= Capacity

\* Admitted, of any map of windows at any time.
AdmittedOf(ws, time, key) ==
  IF key \in {ws[i].key : i \in DOMAIN ws}
    THEN Counting(ws[CHOOSE i \in DOMAIN ws : ws[i].key = key], time)
    ELSE <<>>

\* It is what the refinement reads, in a state and in the next.
LEMMA AdmittedIs ==
  ASSUME NEW key
  PROVE  /\ Admitted(key) = AdmittedOf(windows, now, key)
         /\ Admitted(key)' = AdmittedOf(windows', now', key)
<1>1. Admitted(key) = AdmittedOf(windows, now, key)
  BY Zenon DEF Admitted, AdmittedOf, Tracked
<1>2. Admitted(key)' = AdmittedOf(windows', now', key)
  BY Zenon DEF Admitted, AdmittedOf, Tracked, Counting, WindowOf
<1> QED BY <1>1, <1>2

\* The bucket of a key is the only one of it.
LEMMA AdmittedAt ==
  ASSUME NEW ws \in Seq(RateWindow), Distinct(ws), NEW time, NEW i \in 1 .. Len(ws)
  PROVE  AdmittedOf(ws, time, ws[i].key) = Counting(ws[i], time)
<1>1. i \in DOMAIN ws /\ \A j \in DOMAIN ws : ws[j].key = ws[i].key => j = i
  BY DEF Distinct
<1>2. (CHOOSE j \in DOMAIN ws : ws[j].key = ws[i].key) = i
  BY <1>1
<1>3. ws[i].key \in {ws[j].key : j \in DOMAIN ws}
  BY <1>1
<1> QED BY <1>2, <1>3, Zenon DEF AdmittedOf

\* Of a key that has no bucket no request counts.
LEMMA AdmittedNone ==
  ASSUME NEW ws \in Seq(RateWindow), NEW time, NEW key, \A i \in 1 .. Len(ws) : ws[i].key # key
  PROVE  AdmittedOf(ws, time, key) = <<>>
<1>1. key \notin {ws[j].key : j \in DOMAIN ws}
  OBVIOUS
<1> QED BY <1>1, Zenon DEF AdmittedOf

\* A sequence of buckets whose entries are entries of another, each at most once.
LEMMA PartIsGood ==
  ASSUME NEW ws, NEW time, Good(ws, time), NEW n \in Nat,
         NEW place \in Injection(1 .. n, 1 .. Len(ws))
  PROVE  /\ Good([i \in 1 .. n |-> ws[place[i]]], time)
         /\ Len([i \in 1 .. n |-> ws[place[i]]]) = n
<1> DEFINE part == [i \in 1 .. n |-> ws[place[i]]]
<1>1. /\ \A i \in 1 .. n : place[i] \in 1 .. Len(ws)
      /\ \A i, j \in 1 .. n : place[i] = place[j] => i = j
  BY DEF Injection, IsInjective
<1>2. \A i \in 1 .. n : ws[place[i]] \in RateWindow /\ Fine(ws[place[i]], time)
  BY <1>1 DEF Good
<1>3. part \in Seq(RateWindow) /\ Len(part) = n
  BY <1>2
<1>4. \A i \in 1 .. n : part[i] = ws[place[i]]
  OBVIOUS
<1> HIDE DEF part
<1>5. Distinct(part)
  <2> SUFFICES ASSUME NEW i \in 1 .. n, NEW j \in 1 .. n, part[i].key = part[j].key
               PROVE  i = j
    BY <1>3 DEF Distinct
  <2>1. ws[place[i]].key = ws[place[j]].key
    BY <1>4
  <2>2. place[i] = place[j]
    BY <1>1, <2>1 DEF Good, Distinct
  <2> QED BY <1>1, <2>2
<1>6. \A i \in 1 .. Len(part) : Fine(part[i], time)
  BY <1>2, <1>3, <1>4
<1>7. Good(part, time)
  BY <1>3, <1>5, <1>6 DEF Good
<1> QED BY <1>3, <1>7 DEF part

\* What was fine is fine later.
LEMMA FineLater ==
  ASSUME NEW ws, NEW time \in Int, Good(ws, time), NEW later \in Int, time <= later
  PROVE  Good(ws, later)
<1>1. ASSUME NEW i \in 1 .. Len(ws)
      PROVE  Fine(ws[i], later)
  <2>1. Fine(ws[i], time)
    BY DEF Good
  <2>2. ws[i].lastAccess \in 1 .. MaxTime /\ ws[i].lastAccess <= time
    BY <2>1, FineFacts
  <2>3. ws[i].lastAccess <= later
    BY <2>2, RateLimiterAssumption
  <2> QED BY <2>1, <2>3 DEF Fine
<1> QED BY <1>1 DEF Good

\* There is as much as Len says of what is tracked.
LEMMA WindowsTypeCorrect == LimiterInv => LimiterTypeOK
<1> SUFFICES ASSUME LimiterInv
             PROVE  LimiterTypeOK
  OBVIOUS
<1> DEFINE n == Len(windows)
           key == [i \in 1 .. n |-> windows[i].key]
<1>1. windows \in Seq(RateWindow) /\ n \in Nat /\ DOMAIN windows = 1 .. n /\ Distinct(windows)
  BY DEF LimiterInv, Good
<1>2. key \in Bijection(1 .. n, Tracked)
  <2>1. key \in [1 .. n -> Tracked]
    BY <1>1 DEF Tracked
  <2>2. \A i, j \in 1 .. n : key[i] = key[j] => i = j
    BY <1>1 DEF Distinct
  <2>3. \A k \in Tracked : \E i \in 1 .. n : key[i] = k
    BY <1>1 DEF Tracked
  <2> HIDE DEF key, n
  <2> QED BY <2>1, <2>2, <2>3 DEF Bijection, Injection, Surjection, IsInjective
<1> HIDE DEF key, n
<1>3. ExistsBijection(1 .. n, Tracked)
  BY <1>2 DEF ExistsBijection
<1>4. Cardinality(Tracked) = n
  BY <1>1, <1>3, FS_CountingElements
<1> QED BY <1>1, <1>4 DEF LimiterInv, LimiterTypeOK, Good, n

\* Nothing counts of a bucket that is stale.
LEMMA NothingCounts ==
  ASSUME now \in 1 .. MaxTime, NEW b, Fine(b, now), Stale(b)
  PROVE  Counting(b, now) = <<>>
<1> DEFINE t == Counting(b, now)
<1>1. /\ now \in Int /\ now <= now
      /\ b.lastAccess \in Int /\ WindowOf(b.key) \in Int
  <2>1. now \in Int /\ now <= now
    BY RateLimiterAssumption
  <2>2. b.lastAccess \in 1 .. MaxTime /\ WindowOf(b.key) \in Nat
    BY <2>1, FineFacts
  <2> QED BY <2>1, <2>2, RateLimiterAssumption
<1>2. /\ t \in Seq(Nat) /\ Len(t) \in Nat
      /\ \A i \in 1 .. Len(t) : t[i] \in Nat /\ t[i] <= b.lastAccess
                                /\ t[i] > now - WindowOf(b.key)
  BY <1>1, CountingFine
<1>3. now - b.lastAccess > WindowOf(b.key)
  BY DEF Stale
<1> HIDE DEF t
<1>4. ~(1 \in 1 .. Len(t))
  BY <1>1, <1>2, <1>3
<1>5. Len(t) = 0
  BY <1>2, <1>4
<1>6. t = <<>>
  BY <1>2, <1>5
<1> QED BY <1>6 DEF t

\* Cleaning keeps the map good and forgets no request that counts.
LEMMA CleaningForgetsNothing ==
  ASSUME LimiterInv, CleanExpired
  PROVE  /\ LimiterInv'
         /\ \A key : AdmittedOf(windows', now', key) = AdmittedOf(windows, now, key)
<1> DEFINE at == {i \in DOMAIN windows : ~Stale(windows[i])}
           c == Cardinality(at)
<1>1. /\ windows \in Seq(RateWindow) /\ Distinct(windows) /\ Len(windows) \in Nat
      /\ DOMAIN windows = 1 .. Len(windows) /\ Good(windows, now)
      /\ \A i \in 1 .. Len(windows) : Fine(windows[i], now)
      /\ now \in 1 .. MaxTime /\ Len(windows) <= Capacity /\ Capacity \in Nat
  BY RateLimiterAssumption DEF LimiterInv, Good
<1>2. now' = now /\ windows' = Filtered(windows, at)
  BY DEF CleanExpired
<1>3. at \subseteq 1 .. Len(windows)
  BY <1>1
<1>4. /\ c \in Nat /\ c <= Len(windows)
      /\ \E place \in Bijection(1 .. c, at) :
           windows' = [n \in 1 .. c |-> windows[place[n]]]
  <2> HIDE DEF at
  <2>1. windows \in Seq(RateWindow) /\ at \subseteq 1 .. Len(windows)
    BY <1>1, <1>3
  <2> HIDE DEF at
  <2>2. /\ Cardinality(at) \in Nat /\ Cardinality(at) <= Len(windows)
        /\ IsKept(Filtered(windows, at), windows, at)
    BY <2>1, FilteredIs
  <2> QED BY <1>2, <2>2, Zenon DEF IsKept
<1>5. PICK place \in Bijection(1 .. c, at) : windows' = [n \in 1 .. c |-> windows[place[n]]]
  BY <1>4
<1>6. place \in Injection(1 .. c, 1 .. Len(windows))
  <2> HIDE DEF at, c
  <2> QED BY <1>3, <1>5 DEF Bijection, Injection, Surjection, IsInjective
<1>7. Good(windows', now) /\ Len(windows') = c
  <2> HIDE DEF at, c
  <2> QED BY <1>1, <1>4, <1>5, <1>6, PartIsGood
<1>8. LimiterInv'
  <2> HIDE DEF at, c
  <2>1. Len(windows') <= Capacity
    BY <1>1, <1>4, <1>7
  <2>2. Good(windows, now)'
    BY <1>2, <1>7, Zenon DEF Good, Fine, Sorted, Distinct, EffectiveLimit
  <2> QED BY <1>1, <1>2, <2>1, <2>2 DEF LimiterInv
<1>9. /\ windows' \in Seq(RateWindow) /\ Distinct(windows')
      /\ \A n \in 1 .. c : place[n] \in at /\ windows'[n] = windows[place[n]]
      /\ \A i \in at : \E n \in 1 .. c : place[n] = i
  <2>1. \A n \in 1 .. c : windows'[n] = windows[place[n]]
    BY <1>5
  <2> HIDE DEF at, c
  <2>2. \A n \in 1 .. c : place[n] \in at
    BY <1>5 DEF Bijection, Injection
  <2>3. \A i \in at : \E n \in 1 .. c : place[n] = i
    BY <1>5 DEF Bijection, Surjection
  <2> QED BY <1>7, <2>1, <2>2, <2>3 DEF Good
<1>10. ASSUME NEW key
       PROVE  AdmittedOf(windows', now', key) = AdmittedOf(windows, now, key)
  <2>1. CASE \E n \in 1 .. c : windows'[n].key = key
    <3>1. PICK n \in 1 .. c : windows'[n].key = key
      BY <2>1
    <3>2. n \in 1 .. Len(windows') /\ place[n] \in 1 .. Len(windows)
      BY <1>3, <1>7, <1>9, Zenon
    <3>3. windows'[n] = windows[place[n]]
      BY <1>9
    <3>4. AdmittedOf(windows', now, windows'[n].key) = Counting(windows'[n], now)
      BY <1>9, <3>2, AdmittedAt
    <3>5. AdmittedOf(windows, now, windows[place[n]].key) = Counting(windows[place[n]], now)
      BY <1>1, <3>2, AdmittedAt
    <3> QED BY <1>2, <3>1, <3>3, <3>4, <3>5, Zenon
  <2>2. CASE /\ \A n \in 1 .. c : windows'[n].key # key
             /\ \E i \in 1 .. Len(windows) : windows[i].key = key
    <3>1. AdmittedOf(windows', now, key) = <<>>
      BY <1>7, <1>9, <2>2, AdmittedNone
    <3>2. PICK i \in 1 .. Len(windows) : windows[i].key = key
      BY <2>2
    <3>3. i \notin at
      <4> SUFFICES ASSUME i \in at PROVE FALSE
        OBVIOUS
      <4>1. PICK n \in 1 .. c : place[n] = i
        BY <1>9
      <4> QED BY <1>9, <2>2, <3>2, <4>1
    <3>4. Stale(windows[i])
      BY <1>1, <3>2, <3>3
    <3>5. Counting(windows[i], now) = <<>>
      BY <1>1, <3>4, NothingCounts
    <3>6. AdmittedOf(windows, now, windows[i].key) = Counting(windows[i], now)
      BY <1>1, AdmittedAt
    <3> QED BY <1>2, <3>1, <3>2, <3>5, <3>6, Zenon
  <2>3. CASE /\ \A n \in 1 .. c : windows'[n].key # key
             /\ \A i \in 1 .. Len(windows) : windows[i].key # key
    <3>1. AdmittedOf(windows', now, key) = <<>>
      BY <1>7, <1>9, <2>3, AdmittedNone
    <3>2. AdmittedOf(windows, now, key) = <<>>
      BY <1>1, <2>3, AdmittedNone
    <3> QED BY <1>2, <3>1, <3>2, Zenon
  <2> QED BY <2>1, <2>2, <2>3, Zenon
<1> QED BY <1>8, <1>10

\* As many go as there are to go, and one at least.
LEMMA EvictTargetIs == EvictTarget \in 1 .. Capacity
BY RateLimiterAssumption DEF EvictTarget

\* Whose windows go.
Evicted(key) == IF key \in Tracked \/ Len(windows) < Capacity THEN {} ELSE NoRoomFor

\* With its bucket the map is good: a key that has none gets one, in the place of
\* others if there is no room, and nobody else's requests are forgotten.
LEMMA BucketIsMade ==
  ASSUME LimiterInv, NEW key \in Key
  PROVE  /\ Good(WithBucket(key), now) /\ Len(WithBucket(key)) <= Capacity
         /\ Evicted(key) \in SUBSET NoRoomFor /\ key \notin Evicted(key)
         /\ \E i \in 1 .. Len(WithBucket(key)) : WithBucket(key)[i].key = key
         /\ \A k : AdmittedOf(WithBucket(key), now, k)
                     = IF k \in Evicted(key) THEN <<>> ELSE AdmittedOf(windows, now, k)
<1>1. /\ windows \in Seq(RateWindow) /\ Distinct(windows) /\ Len(windows) \in Nat
      /\ DOMAIN windows = 1 .. Len(windows) /\ Good(windows, now)
      /\ \A i \in 1 .. Len(windows) : Fine(windows[i], now)
      /\ now \in 1 .. MaxTime /\ Len(windows) <= Capacity /\ Capacity \in Nat \ {0}
      /\ MaxTime \in Nat
  BY RateLimiterAssumption DEF LimiterInv, Good
<1>2. key \in Tracked <=> \E i \in 1 .. Len(windows) : windows[i].key = key
  BY <1>1 DEF Tracked
<1>3. CASE key \in Tracked
  <2>1. WithBucket(key) = windows /\ Evicted(key) = {}
    BY <1>3 DEF WithBucket, Evicted
  <2> QED BY <1>1, <1>2, <1>3, <2>1
<1>4. CASE key \notin Tracked
  <2> DEFINE kept == EvictedIfFull
             gone == IF Len(windows) < Capacity THEN 0 ELSE EvictTarget
             bucket == [key |-> key, timestamps |-> <<>>, lastAccess |-> now]
             held == Append(kept, bucket)
  <2>1. WithBucket(key) = held
    BY <1>4 DEF WithBucket
  <2>2. /\ gone \in 0 .. Len(windows) /\ Len(windows) - gone < Capacity
        /\ gone = 0 => Len(windows) < Capacity
        /\ gone # 0 => gone = EvictTarget /\ ~(Len(windows) < Capacity)
    BY <1>1, EvictTargetIs
  <2>3. Evicted(key) = {windows[i].key : i \in 1 .. gone}
    <3>1. CASE Len(windows) < Capacity
      <4>1. gone = 0 /\ 1 .. gone = {}
        BY <3>1
      <4>2. Evicted(key) = {}
        BY <3>1 DEF Evicted
      <4> HIDE DEF gone
      <4> QED BY <4>1, <4>2
    <3>2. CASE ~(Len(windows) < Capacity)
      <4>1. gone = EvictTarget
        BY <3>2
      <4> HIDE DEF gone
      <4> QED BY <1>4, <3>2, <4>1 DEF Evicted, NoRoomFor
    <3> QED BY <3>1, <3>2
  <2>4. /\ kept = [i \in 1 .. Len(windows) - gone |-> windows[gone + i]]
        /\ Len(kept) = Len(windows) - gone
    <3>1. CASE Len(windows) < Capacity
      <4>1. gone = 0 /\ kept = windows
        BY <3>1 DEF EvictedIfFull
      <4> HIDE DEF gone, kept
      <4>2. Len(windows) - gone = Len(windows) /\ \A i \in 1 .. Len(windows) : gone + i = i
        BY <1>1, <4>1
      <4>3. windows = [i \in 1 .. Len(windows) |-> windows[i]]
        BY <1>1
      <4> QED BY <4>1, <4>2, <4>3
    <3>2. CASE ~(Len(windows) < Capacity)
      <4>1. gone = EvictTarget /\ kept = SubSeq(windows, gone + 1, Len(windows))
        BY <3>2 DEF EvictedIfFull
      <4> HIDE DEF gone, kept
      <4>2. Len(windows) - (gone + 1) + 1 = Len(windows) - gone
        BY <1>1, <2>2
      <4>3. kept = [i \in 1 .. Len(windows) - gone |-> windows[gone + 1 + i - 1]]
        BY <1>1, <2>2, <4>1, <4>2
      <4>4. \A i \in 1 .. Len(windows) - gone : gone + 1 + i - 1 = gone + i
        BY <1>1, <2>2
      <4>5. kept = [i \in 1 .. Len(windows) - gone |-> windows[gone + i]]
        BY <4>3, <4>4, Zenon
      <4>6. Len(windows) - gone \in Nat
        BY <1>1, <2>2
      <4> QED BY <4>5, <4>6
    <3> QED BY <3>1, <3>2
  <2> HIDE DEF kept, gone
  <2> DEFINE n == Len(windows) - gone
             place == [i \in 1 .. n |-> gone + i]
  <2>5. n \in Nat /\ gone \in Nat /\ \A i \in 1 .. n : gone + i \in 1 .. Len(windows)
    BY <1>1, <2>2
  <2>6. place \in Injection(1 .. n, 1 .. Len(windows))
    <3>1. place \in [1 .. n -> 1 .. Len(windows)]
      BY <2>5
    <3>2. \A i, j \in 1 .. n : place[i] = place[j] => i = j
      BY <2>5
    <3> HIDE DEF place, n
    <3> QED BY <3>1, <3>2 DEF Injection, IsInjective
  <2>7. kept = [i \in 1 .. n |-> windows[place[i]]]
    BY <2>4
  <2>8. Good(kept, now) /\ Len(kept) = n
    <3> HIDE DEF place, n
    <3> QED BY <1>1, <2>5, <2>6, <2>7, PartIsGood
  <2>9. \A i \in 1 .. n : kept[i] = windows[gone + i]
    BY <2>4
  <2>10. bucket.key = key /\ bucket.timestamps = <<>> /\ bucket.lastAccess = now
    OBVIOUS
  <2>11. Fine(bucket, now) /\ bucket \in RateWindow
    <3>1. <<>> \in Seq(1 .. MaxTime) /\ Len(<<>>) = 0 /\ \A i \in 1 .. 0 : FALSE
      OBVIOUS
    <3>2. bucket \in RateWindow
      BY <1>1, <3>1 DEF RateWindow
    <3>3. EffectiveLimit(key) \in Nat /\ now <= now
      BY <1>1, TiersAre
    <3> HIDE DEF bucket
    <3> QED BY <2>10, <3>1, <3>2, <3>3 DEF Fine, Sorted
  <2> HIDE DEF bucket, n, place
  <2>12. /\ held \in Seq(RateWindow) /\ Len(held) = n + 1
         /\ \A i \in 1 .. n : held[i] = kept[i]
         /\ held[n + 1] = bucket
    BY <2>8, <2>11, AppendProperties DEF Good
  <2> HIDE DEF held
  <2>13. \A i \in 1 .. n : held[i] = windows[gone + i] /\ held[i].key # key
    BY <1>2, <1>4, <2>5, <2>9, <2>12
  <2>14. Good(held, now)
    <3>1. Distinct(held)
      <4> SUFFICES ASSUME NEW i \in 1 .. Len(held), NEW j \in 1 .. Len(held),
                          held[i].key = held[j].key
                   PROVE  i = j
        BY DEF Distinct
      <4>1. CASE i = n + 1 /\ j = n + 1
        BY <4>1
      <4>2. CASE i \in 1 .. n /\ j = n + 1
        BY <2>10, <2>12, <2>13, <4>2
      <4>3. CASE i = n + 1 /\ j \in 1 .. n
        BY <2>10, <2>12, <2>13, <4>3
      <4>4. CASE i \in 1 .. n /\ j \in 1 .. n
        <5>1. kept[i].key = kept[j].key
          BY <2>12, <4>4
        <5> QED BY <2>8, <4>4, <5>1 DEF Good, Distinct
      <4>5. (i = n + 1 \/ i \in 1 .. n) /\ (j = n + 1 \/ j \in 1 .. n)
        BY <2>5, <2>12
      <4> QED BY <4>1, <4>2, <4>3, <4>4, <4>5, Zenon
    <3>2. ASSUME NEW i \in 1 .. Len(held)
          PROVE  Fine(held[i], now)
      <4>1. CASE i = n + 1
        BY <2>11, <2>12, <4>1
      <4>2. CASE i \in 1 .. n
        BY <2>8, <2>12, <4>2 DEF Good
      <4> QED BY <2>5, <2>12, <4>1, <4>2
    <3> QED BY <2>12, <3>1, <3>2 DEF Good
  <2>15. Len(held) <= Capacity
    BY <1>1, <2>2, <2>5, <2>12 DEF n
  <2>16. key \notin Evicted(key) /\ Evicted(key) \in SUBSET NoRoomFor
    <3>1. key \notin Evicted(key)
      BY <1>2, <1>4, <2>2, <2>3
    <3>2. Evicted(key) \in SUBSET NoRoomFor
      BY DEF Evicted
    <3> QED BY <3>1, <3>2
  <2>17. n + 1 \in 1 .. Len(held) /\ held[n + 1].key = key
    BY <2>5, <2>10, <2>12
  <2>18. Distinct(held)
    BY <2>14 DEF Good
  <2>19. ASSUME NEW k
         PROVE  AdmittedOf(held, now, k)
                  = IF k \in Evicted(key) THEN <<>> ELSE AdmittedOf(windows, now, k)
    <3>1. CASE k = key
      <4>1. AdmittedOf(held, now, held[n + 1].key) = Counting(bucket, now)
        BY <2>12, <2>17, <2>18, AdmittedAt
      <4>2. AdmittedOf(windows, now, key) = <<>>
        BY <1>1, <1>2, <1>4, AdmittedNone
      <4>3. Counting(bucket, now) = <<>>
        <5>1. now \in Int /\ now <= now
          BY <1>1
        <5>2. PICK m \in 0 .. Len(bucket.timestamps) :
                IsCountOf(Counting(bucket, now), bucket.timestamps, m, now - WindowOf(bucket.key))
          BY <2>11, <5>1, CountingFine
        <5>3. Counting(bucket, now) \in Seq(Nat) /\ Len(Counting(bucket, now)) = 0
          BY <2>10, <5>2 DEF IsCountOf, IsRestOf
        <5> QED BY <5>3
      <4> QED BY <2>16, <2>17, <3>1, <4>1, <4>2, <4>3, Zenon
    <3>2. CASE \E i \in 1 .. n : held[i].key = k
      <4>1. PICK i \in 1 .. n : held[i].key = k
        BY <3>2
      <4>2. i \in 1 .. Len(held) /\ gone + i \in 1 .. Len(windows) /\ held[i] = windows[gone + i]
        BY <2>5, <2>12, <2>13
      <4>3. AdmittedOf(held, now, held[i].key) = Counting(held[i], now)
        BY <2>12, <2>18, <4>2, AdmittedAt
      <4>4. AdmittedOf(windows, now, windows[gone + i].key) = Counting(windows[gone + i], now)
        BY <1>1, <4>2, AdmittedAt
      <4>5. k \notin Evicted(key)
        <5> SUFFICES ASSUME NEW j \in 1 .. gone, windows[j].key = k
                     PROVE  FALSE
          BY <2>3
        <5>1. j \in 1 .. Len(windows) /\ j # gone + i
          BY <1>1, <2>2, <2>5
        <5> QED BY <1>1, <4>1, <4>2, <5>1 DEF Distinct
      <4> QED BY <4>1, <4>2, <4>3, <4>4, <4>5, Zenon
    <3>3. CASE k # key /\ ~ \E i \in 1 .. n : held[i].key = k
      <4>1. \A i \in 1 .. Len(held) : held[i].key # k
        <5>1. ASSUME NEW i \in 1 .. Len(held)
              PROVE  held[i].key # k
          <6>1. i = n + 1 \/ i \in 1 .. n
            BY <2>5, <2>12
          <6> QED BY <2>17, <3>3, <6>1, Zenon
        <5> QED BY <5>1
      <4>2. AdmittedOf(held, now, k) = <<>>
        BY <2>12, <4>1, AdmittedNone
      <4>3. ASSUME k \notin Evicted(key)
            PROVE  AdmittedOf(windows, now, k) = <<>>
        <5>1. ASSUME NEW j \in 1 .. Len(windows)
              PROVE  windows[j].key # k
          <6>1. CASE j \in 1 .. gone
            BY <2>3, <4>3, <6>1
          <6>2. CASE j \notin 1 .. gone
            <7>1. j - gone \in 1 .. n /\ gone + (j - gone) = j
              BY <1>1, <2>2, <2>5, <6>2 DEF n
            <7>2. held[j - gone] = windows[j]
              BY <2>13, <7>1
            <7> QED BY <3>3, <7>1, <7>2
          <6> QED BY <6>1, <6>2
        <5> QED BY <1>1, <5>1, AdmittedNone
      <4> QED BY <4>2, <4>3, Zenon
    <3> QED BY <3>1, <3>2, <3>3, Zenon
  <2> QED BY <2>1, <2>14, <2>15, <2>16, <2>17, <2>19, Zenon
<1> QED BY <1>3, <1>4

\* A request changes its own bucket: refused, it counts for nobody; admitted, it
\* counts for its key.
LEMMA RequestIsCounted ==
  ASSUME LimiterInv, NEW key \in Key, CheckLimit(key)
  PROVE  /\ LimiterInv'
         /\ \/ \A k : AdmittedOf(windows', now', k) = AdmittedOf(windows, now, k)
            \/ /\ Len(AdmittedOf(windows, now, key)) < EffectiveLimit(key)
               /\ \A k : AdmittedOf(windows', now', k)
                           = IF k \in Evicted(key) THEN <<>>
                             ELSE IF k = key THEN Append(AdmittedOf(windows, now, key), now)
                             ELSE AdmittedOf(windows, now, k)
<1> DEFINE held == WithBucket(key)
           next == [i \in DOMAIN held |->
                      IF held[i].key = key THEN Accessed(held[i]) ELSE held[i]]
<1>1. windows' = next /\ now' = now
  BY DEF CheckLimit
<1>2. now \in 1 .. MaxTime /\ now \in Int
  BY RateLimiterAssumption DEF LimiterInv
<1>3. /\ Good(held, now) /\ Len(held) <= Capacity
      /\ key \notin Evicted(key)
      /\ \A k : AdmittedOf(held, now, k)
                  = IF k \in Evicted(key) THEN <<>> ELSE AdmittedOf(windows, now, k)
  BY BucketIsMade
<1>4. PICK p \in 1 .. Len(held) : held[p].key = key
  BY BucketIsMade
<1> HIDE DEF held
<1>5. /\ held \in Seq(RateWindow) /\ Distinct(held) /\ Len(held) \in Nat
      /\ DOMAIN held = 1 .. Len(held)
      /\ \A i \in 1 .. Len(held) : Fine(held[i], now)
  BY <1>3 DEF Good
<1> DEFINE b == held[p]
<1>6. Fine(b, now) /\ b.key = key /\ EffectiveLimit(key) \in Nat \ {0}
  BY <1>4, <1>5, TiersAre
<1>7. /\ Accessed(b).key = key /\ Fine(Accessed(b), now) /\ Accessed(b) \in RateWindow
      /\ Full(b) => Counting(Accessed(b), now) = Counting(b, now)
      /\ ~Full(b) =>
           /\ Len(Counting(b, now)) < EffectiveLimit(key)
           /\ Counting(Accessed(b), now) = Append(Counting(b, now), now)
  BY <1>2, <1>6, AccessedIs DEF Fine
<1>8. \A i \in 1 .. Len(held) : held[i].key = key => i = p
  BY <1>4, <1>5 DEF Distinct
<1>9. /\ next[p] = Accessed(b)
      /\ \A i \in 1 .. Len(held) : i # p => next[i] = held[i]
      /\ DOMAIN next = 1 .. Len(held)
  BY <1>4, <1>5, <1>8
<1> HIDE DEF next, b
<1>10. \A i \in 1 .. Len(held) :
         next[i] \in RateWindow /\ next[i].key = held[i].key /\ Fine(next[i], now)
  <2>1. ASSUME NEW i \in 1 .. Len(held)
        PROVE  next[i] \in RateWindow /\ next[i].key = held[i].key /\ Fine(next[i], now)
    <3>1. CASE i = p
      BY <1>4, <1>7, <1>9, <3>1
    <3>2. CASE i # p
      BY <1>5, <1>9, <3>2
    <3> QED BY <3>1, <3>2
  <2> QED BY <2>1
<1>11. next \in Seq(RateWindow) /\ Len(next) = Len(held)
  <2>1. next = [i \in 1 .. Len(held) |-> next[i]]
    BY <1>5, <1>9 DEF next
  <2> DEFINE n == Len(held)
             copy == [i \in 1 .. n |-> next[i]]
  <2>2. n \in Nat /\ \A i \in 1 .. n : next[i] \in RateWindow
    BY <1>5, <1>10
  <2> HIDE DEF n
  <2>3. copy \in Seq(RateWindow) /\ Len(copy) = n
    BY <2>2
  <2> QED BY <2>1, <2>3 DEF n
<1>12. Good(next, now)
  <2>1. Distinct(next)
    <3> SUFFICES ASSUME NEW i \in 1 .. Len(held), NEW j \in 1 .. Len(held), next[i].key = next[j].key
                 PROVE  i = j
      BY <1>11 DEF Distinct
    <3>1. held[i].key = held[j].key
      BY <1>10
    <3> QED BY <1>5, <3>1 DEF Distinct
  <2> QED BY <1>10, <1>11, <2>1 DEF Good
<1>13. LimiterInv'
  <2>1. Good(windows, now)'
    BY <1>1, <1>12, Zenon DEF Good, Fine, Sorted, Distinct, EffectiveLimit
  <2> QED BY <1>1, <1>2, <1>3, <1>11, <2>1 DEF LimiterInv
<1>14. AdmittedOf(held, now, key) = AdmittedOf(windows, now, key)
  BY <1>3, Zenon
<1>15. AdmittedOf(held, now, key) = Counting(b, now)
  BY <1>4, <1>5, AdmittedAt DEF b
<1>16. AdmittedOf(next, now, key) = Counting(Accessed(b), now)
  <2>1. next \in Seq(RateWindow) /\ Distinct(next) /\ p \in 1 .. Len(next)
    BY <1>4, <1>11, <1>12 DEF Good
  <2>2. AdmittedOf(next, now, next[p].key) = Counting(next[p], now)
    BY <2>1, AdmittedAt
  <2> QED BY <1>7, <1>9, <2>2
<1>17. ASSUME NEW k, k # key
       PROVE  AdmittedOf(next, now, k) = AdmittedOf(held, now, k)
  <2>1. CASE \E i \in 1 .. Len(held) : held[i].key = k
    <3>1. PICK i \in 1 .. Len(held) : held[i].key = k
      BY <2>1
    <3>2. i # p /\ next[i] = held[i]
      BY <1>4, <1>9, <1>17, <3>1
    <3>3. next \in Seq(RateWindow) /\ Distinct(next) /\ i \in 1 .. Len(next)
      BY <1>11, <1>12, <3>1 DEF Good
    <3>4. AdmittedOf(next, now, next[i].key) = Counting(next[i], now)
      BY <3>3, AdmittedAt
    <3>5. AdmittedOf(held, now, held[i].key) = Counting(held[i], now)
      BY <1>5, <3>1, AdmittedAt
    <3> QED BY <3>1, <3>2, <3>4, <3>5
  <2>2. CASE \A i \in 1 .. Len(held) : held[i].key # k
    <3>1. \A i \in 1 .. Len(next) : next[i].key # k
      BY <1>10, <1>11, <2>2
    <3>2. AdmittedOf(next, now, k) = <<>>
      BY <1>11, <3>1, AdmittedNone
    <3>3. AdmittedOf(held, now, k) = <<>>
      BY <1>5, <2>2, AdmittedNone
    <3> QED BY <3>2, <3>3
  <2> QED BY <2>1, <2>2
<1>18. CASE Full(b)
  <2>1. Evicted(key) = {}
    <3> SUFFICES ASSUME key \notin Tracked
                 PROVE  FALSE
      BY DEF Evicted
    <3>1. AdmittedOf(windows, now, key) = <<>>
      BY Zenon DEF AdmittedOf, Tracked
    <3>2. Counting(b, now) = <<>>
      BY <1>14, <1>15, <3>1, Zenon
    <3>3. Len(Counting(b, now)) = 0
      BY <3>2
    <3> QED BY <1>6, <1>18, <3>3 DEF Full
  <2>2. ASSUME NEW k
        PROVE  AdmittedOf(windows', now', k) = AdmittedOf(windows, now, k)
    <3>1. AdmittedOf(held, now, k) = AdmittedOf(windows, now, k)
      BY <1>3, <2>1, Zenon
    <3>2. AdmittedOf(next, now, k) = AdmittedOf(held, now, k)
      BY <1>7, <1>15, <1>16, <1>17, <1>18
    <3> QED BY <1>1, <3>1, <3>2
  <2> QED BY <1>13, <2>2
<1>19. CASE ~Full(b)
  <2>1. Len(AdmittedOf(windows, now, key)) < EffectiveLimit(key)
    BY <1>7, <1>14, <1>15, <1>19
  <2>2. ASSUME NEW k
        PROVE  AdmittedOf(windows', now', k)
                 = IF k \in Evicted(key) THEN <<>>
                   ELSE IF k = key THEN Append(AdmittedOf(windows, now, key), now)
                   ELSE AdmittedOf(windows, now, k)
    <3>1. CASE k = key
      <4>1. AdmittedOf(next, now, key) = Append(AdmittedOf(windows, now, key), now)
        BY <1>7, <1>14, <1>15, <1>16, <1>19
      <4> QED BY <1>1, <1>3, <3>1, <4>1
    <3>2. CASE k # key
      <4>1. AdmittedOf(next, now, k) = AdmittedOf(held, now, k)
        BY <1>17, <3>2
      <4> QED BY <1>1, <1>3, <3>2, <4>1
    <3> QED BY <3>1, <3>2
  <2> QED BY <1>13, <2>1, <2>2
<1> QED BY <1>18, <1>19

\* The clock: of what counted the first requests no longer count, exactly those
\* that are a window old.
LEMMA TimePasses ==
  ASSUME now \in 1 .. MaxTime, NEW b, Fine(b, now)
  PROVE  LET t == Counting(b, now)
         IN  Counting(b, now + 1)
               = SubSeq(t, Cardinality({i \in DOMAIN t : t[i] + WindowOf(b.key) <= now + 1}) + 1,
                        Len(t))
<1> DEFINE s == b.timestamps
           t == Counting(b, now)
           u == Counting(b, now + 1)
           w == WindowOf(b.key)
           leaving == {i \in DOMAIN t : t[i] + w <= now + 1}
<1>1. /\ now \in Int /\ now + 1 \in Int /\ now <= now /\ now <= now + 1
      /\ w \in Nat /\ now - w \in Int /\ now + 1 - w \in Int /\ now - w <= now + 1 - w
      /\ s \in Seq(Nat)
  <2>1. now \in Int
    BY RateLimiterAssumption
  <2>2. w \in Nat /\ s \in Seq(Nat)
    BY <2>1, FineFacts
  <2> HIDE DEF w, s
  <2> QED BY <2>1, <2>2
<1>2. PICK m \in 0 .. Len(s) : IsCountOf(t, s, m, now - w)
  BY <1>1, CountingFine
<1>3. PICK k \in 0 .. Len(s) : IsCountOf(u, s, k, now + 1 - w)
  BY <1>1, CountingFine
<1> DEFINE d == k - m
<1> HIDE DEF s, t, u, w
<1>4. d \in Nat /\ IsCountOf(u, t, d, now + 1 - w)
  BY <1>1, <1>2, <1>3, CountLater
<1> HIDE DEF d
<1>5. /\ t \in Seq(Nat) /\ Len(t) \in Nat /\ DOMAIN t = 1 .. Len(t) /\ d \in 0 .. Len(t)
      /\ \A i \in 1 .. Len(t) : t[i] \in Nat
  BY <1>2, <1>4 DEF IsCountOf, IsRestOf
<1>6. leaving = 1 .. d
  <2>1. ASSUME NEW i \in 1 .. Len(t)
        PROVE  t[i] + w <= now + 1 <=> i <= d
    <3>1. CASE i <= d
      <4>1. t[i] <= now + 1 - w
        BY <1>4, <1>5, <3>1 DEF IsCountOf
      <4> QED BY <1>1, <1>5, <3>1, <4>1
    <3>2. CASE ~(i <= d)
      <4>1. t[i] > now + 1 - w
        BY <1>4, <1>5, <3>2 DEF IsCountOf
      <4> QED BY <1>1, <1>5, <3>2, <4>1
    <3> QED BY <3>1, <3>2
  <2> QED BY <1>5, <2>1
<1>7. Cardinality(leaving) = d
  <2>1. IsFiniteSet(1 .. d) /\ Cardinality(1 .. d) = d
    BY <1>4, FS_Interval
  <2> HIDE DEF leaving
  <2> QED BY <1>6, <2>1
<1>8. IsRestOf(SubSeq(t, d + 1, Len(t)), t, d)
  <2> DEFINE rest == SubSeq(t, d + 1, Len(t))
  <2>1. /\ rest \in Seq(Nat)
        /\ Len(rest) = IF d + 1 <= Len(t) THEN Len(t) - (d + 1) + 1 ELSE 0
        /\ \A i \in 1 .. Len(t) - (d + 1) + 1 : rest[i] = t[d + 1 + i - 1]
    <3>1. d + 1 \in Int /\ Len(t) \in Int /\ \A i \in d + 1 .. Len(t) : t[i] \in Nat
      BY <1>5
    <3> QED BY <3>1, SubSeqProperties
  <2> HIDE DEF rest
  <2>2. Len(rest) = Len(t) - d
    <3>1. Len(t) \in Nat /\ d \in 0 .. Len(t)
      BY <1>5
    <3>2. Len(rest) = IF d + 1 <= Len(t) THEN Len(t) - (d + 1) + 1 ELSE 0
      BY <2>1
    <3>3. CASE d + 1 <= Len(t)
      BY <3>1, <3>2, <3>3
    <3>4. CASE ~(d + 1 <= Len(t))
      BY <3>1, <3>2, <3>4
    <3> QED BY <3>3, <3>4
  <2>3. \A i \in 1 .. Len(rest) : rest[i] = t[d + i]
    <3>1. ASSUME NEW i \in 1 .. Len(rest)
          PROVE  rest[i] = t[d + i]
      <4>1. i \in 1 .. Len(t) - (d + 1) + 1 /\ d + 1 + i - 1 = d + i
        BY <1>5, <2>2
      <4>2. rest[i] = t[d + 1 + i - 1]
        BY <2>1, <4>1
      <4> QED BY <4>1, <4>2
    <3> QED BY <3>1
  <2> QED BY <1>5, <2>1, <2>2, <2>3 DEF IsRestOf, rest
<1>9. SubSeq(t, d + 1, Len(t)) = u
  BY <1>4, <1>5, <1>8, RestIsOne DEF IsCountOf
<1> HIDE DEF leaving
<1>10. u = SubSeq(t, Cardinality(leaving) + 1, Len(t))
  BY <1>7, <1>9
<1> QED BY <1>10 DEF leaving, t, u, w

\* The wait, in whole seconds, is no shorter than the time to the moment when the
\* oldest request leaves.
LEMMA RoundedUp ==
  ASSUME NEW wait \in Nat, NEW seconds, seconds = (wait + Second - 1) \div Second
  PROVE  (IF seconds > 1 THEN seconds ELSE 1) * Second >= wait
<1>1. Second \in Nat \ {0}
  BY RateLimiterAssumption
<1> DEFINE up == wait + Second - 1
<1>2. up \in Nat
  BY <1>1
<1>3. /\ seconds \in Int /\ up \in Int
      /\ up = Second * seconds + (up % Second) /\ up % Second \in 0 .. Second - 1
  BY <1>1, <1>2
<1>4. Second * seconds \in Int /\ Second * seconds = seconds * Second
  BY <1>1, <1>3
<1>5. seconds * Second >= wait
  <2> HIDE DEF up
  <2>1. Second * seconds > up - Second
    BY <1>1, <1>3, <1>4
  <2> QED BY <1>1, <1>4, <2>1 DEF up
<1>6. CASE seconds > 1
  BY <1>5, <1>6
<1>7. CASE ~(seconds > 1)
  <2>1. seconds * Second <= 1 * Second
    BY <1>1, <1>3, <1>7
  <2> QED BY <1>1, <1>4, <1>5, <1>7, <2>1
<1> QED BY <1>6, <1>7

\* Of a bucket that is full: after the wait its first request has left.
LEMMA WaitIsEnough ==
  ASSUME now \in 1 .. MaxTime, NEW b, Fine(b, now), Full(b)
  PROVE  Len(Counting(b, now + RetryAfter(b) * Second)) < EffectiveLimit(b.key)
<1> DEFINE s == b.timestamps
           t == Counting(b, now)
           w == WindowOf(b.key)
           wait == t[1] + w - now
           seconds == (wait + Second - 1) \div Second
           at == now + RetryAfter(b) * Second
           u == Counting(b, at)
<1>1. /\ now \in Int /\ now <= now /\ w \in Nat \ {0} /\ now - w \in Int
      /\ s \in Seq(Nat) /\ EffectiveLimit(b.key) \in Nat \ {0} /\ Second \in Nat \ {0}
  <2>1. now \in Int /\ Second \in Nat \ {0}
    BY RateLimiterAssumption
  <2>2. w \in Nat \ {0} /\ s \in Seq(Nat) /\ EffectiveLimit(b.key) \in Nat \ {0}
    BY <2>1, FineFacts
  <2> HIDE DEF w, s
  <2> QED BY <2>1, <2>2
<1>2. PICK m \in 0 .. Len(s) :
        /\ IsCountOf(t, s, m, now - w)
        /\ t \in Seq(Nat) /\ Len(t) \in Nat /\ Len(t) <= EffectiveLimit(b.key)
        /\ \A i \in 1 .. Len(t) : t[i] \in Nat /\ t[i] > now - w
  BY <1>1, CountingFine
<1>3. Len(t) = EffectiveLimit(b.key) /\ 1 \in 1 .. Len(t)
  <2>1. Len(t) >= EffectiveLimit(b.key)
    BY DEF Full
  <2> HIDE DEF t
  <2> QED BY <1>1, <1>2, <2>1
<1>4. RetryAfter(b) = IF seconds > 1 THEN seconds ELSE 1
  <2>1. Head(t) = t[1]
    BY <1>2, <1>3
  <2> QED BY <2>1, Zenon DEF RetryAfter
<1> HIDE DEF s, t, w, u
<1>5. wait \in Nat /\ t[1] \in Nat
  <2>1. t[1] \in Nat /\ t[1] > now - w
    BY <1>2, <1>3
  <2> QED BY <1>1, <2>1
<1>6. RetryAfter(b) * Second >= wait /\ RetryAfter(b) * Second \in Int
  <2>1. (IF seconds > 1 THEN seconds ELSE 1) * Second >= wait
    <3> HIDE DEF wait
    <3> QED BY <1>5, RoundedUp
  <2>2. seconds \in Int
    <3> HIDE DEF wait
    <3> QED BY <1>1, <1>5
  <2> HIDE DEF seconds, wait
  <2> QED BY <1>1, <1>4, <2>1, <2>2
<1>7. at \in Int /\ now <= at /\ t[1] <= at - w /\ at - w \in Int /\ now - w <= at - w
  <2> DEFINE delay == RetryAfter(b) * Second
  <2>1. delay \in Int /\ delay >= wait
    BY <1>6
  <2>2. at = now + delay
    BY DEF delay
  <2> HIDE DEF delay, at
  <2> QED BY <1>1, <1>5, <2>1, <2>2
<1> HIDE DEF at
<1>8. PICK k \in 0 .. Len(s) : IsCountOf(u, s, k, at - w)
  BY <1>1, <1>7, CountingFine DEF s, u, w
<1> DEFINE d == k - m
<1>9. d \in Nat /\ IsCountOf(u, t, d, at - w)
  BY <1>1, <1>2, <1>7, <1>8, CountLater
<1> HIDE DEF d
<1>10. d # 0
  <2> SUFFICES ASSUME d = 0
               PROVE  FALSE
    OBVIOUS
  <2>1. 1 \in d + 1 .. Len(t)
    BY <1>2, <1>3
  <2>2. t[1] > at - w
    BY <1>9, <2>1 DEF IsCountOf
  <2> QED BY <1>5, <1>7, <2>2
<1>11. Len(u) = Len(t) - d
  BY <1>9 DEF IsCountOf, IsRestOf
<1>12. Len(u) < EffectiveLimit(b.key)
  BY <1>2, <1>3, <1>9, <1>10, <1>11
<1> QED BY <1>12 DEF u, at

LEMMA LimiterInvInit == LimiterInit => LimiterInv
<1> SUFFICES ASSUME LimiterInit
             PROVE  LimiterInv
  OBVIOUS
<1>1. windows = <<>> /\ now = 1 /\ Len(windows) = 0 /\ windows \in Seq(RateWindow)
  BY DEF LimiterInit
<1>2. \A i \in 1 .. Len(windows) : FALSE
  BY <1>1
<1>3. Good(windows, now)
  BY <1>1, <1>2 DEF Good, Distinct
<1> QED BY <1>1, <1>3, RateLimiterAssumption DEF LimiterInv

\* A step of each operation.
LEMMA LimiterInvTick == LimiterInv /\ Tick => LimiterInv'
<1> SUFFICES ASSUME LimiterInv, Tick
             PROVE  LimiterInv'
  OBVIOUS
<1>1. /\ now \in 1 .. MaxTime /\ now' = now + 1 /\ now' \in 1 .. MaxTime /\ windows' = windows
      /\ now \in Int /\ now' \in Int /\ now <= now'
  BY RateLimiterAssumption DEF LimiterInv, Tick, Advance
<1>2. Good(windows, now') /\ Len(windows) <= Capacity
  BY <1>1, FineLater DEF LimiterInv
<1>3. Good(windows, now)'
  BY <1>1, <1>2, Zenon DEF Good, Fine, Sorted, Distinct, EffectiveLimit
<1> QED BY <1>1, <1>2, <1>3 DEF LimiterInv

LEMMA LimiterInvReset == LimiterInv /\ Reset => LimiterInv'
<1> SUFFICES ASSUME LimiterInv, Reset
             PROVE  LimiterInv'
  OBVIOUS
<1>1. windows' = <<>> /\ now' = now /\ Len(windows') = 0 /\ windows' \in Seq(RateWindow)
  BY DEF Reset
<1>2. \A i \in 1 .. Len(windows') : FALSE
  BY <1>1
<1>3. Good(windows, now)'
  BY <1>1, <1>2 DEF Good, Distinct
<1> QED BY <1>1, <1>3, RateLimiterAssumption DEF LimiterInv

LEMMA LimiterInvNext == LimiterInv /\ [LimiterNext]_limiterVars => LimiterInv'
<1> SUFFICES ASSUME LimiterInv, [LimiterNext]_limiterVars
             PROVE  LimiterInv'
  OBVIOUS
<1>1. CASE \E key \in Key : CheckLimit(key)
  BY <1>1, RequestIsCounted
<1>2. CASE CleanExpired
  BY <1>2, CleaningForgetsNothing
<1>3. CASE Reset
  BY <1>3, LimiterInvReset
<1>4. CASE Tick
  BY <1>4, LimiterInvTick
<1>5. CASE UNCHANGED limiterVars
  BY <1>5, Zenon DEF LimiterInv, limiterVars, Good, Fine, Sorted, Distinct, EffectiveLimit
<1> QED BY <1>1, <1>2, <1>3, <1>4, <1>5 DEF LimiterNext

LEMMA LimiterInvHolds == LimiterSpec => []LimiterInv
<1> QED BY LimiterInvInit, LimiterInvNext, PTL DEF LimiterSpec

\* The map of windows is bounded whatever addresses the requests come from and
\* however often the limiter cleans: checkLimit evicts before it adds, and it adds
\* a bucket for a key at most once.
THEOREM WindowsAreBounded == LimiterSpec => []LimiterTypeOK
<1> QED BY LimiterInvHolds, WindowsTypeCorrect, PTL

\* What a refused client is told is enough, in any tier and for any clock that
\* counts whole seconds: after that wait its oldest request has left the window.
THEOREM RetryAfterIsEnough == LimiterSpec => []RetryAfterSuffices
<1>1. LimiterInv => RetryAfterSuffices
  <2> SUFFICES ASSUME LimiterInv, NEW i \in DOMAIN windows, Full(windows[i])
               PROVE  Len(Counting(windows[i], now + RetryAfter(windows[i]) * Second))
                        < EffectiveLimit(windows[i].key)
    BY Zenon DEF RetryAfterSuffices
  <2>1. now \in 1 .. MaxTime /\ Fine(windows[i], now)
    BY DEF LimiterInv, Good
  <2> QED BY <2>1, WaitIsEnough
<1> QED BY <1>1, LimiterInvHolds, PTL

-----------------------------------------------------------------------------
(* The quota. *)

\* The requests that count, of all keys.
Requests == [k \in Key |-> Admitted(k)]

LEMMA RequestsAre ==
  /\ \A k \in Key : Requests[k] = AdmittedOf(windows, now, k)
  /\ \A k \in Key : Requests'[k] = AdmittedOf(windows', now', k)
<1>1. \A k \in Key : Requests[k] = Admitted(k)
  BY DEF Requests
<1>2. \A k \in Key : Requests'[k] = Admitted(k)'
  BY DEF Requests
<1> QED BY <1>1, <1>2, AdmittedIs

LEMMA QuotaInit == LimiterInit => Quota!Init
<1> SUFFICES ASSUME LimiterInit
             PROVE  Quota!Init
  OBVIOUS
<1>1. now \in Nat
  BY DEF LimiterInit
<1>2. ASSUME NEW k \in Key
      PROVE  Admitted(k) = <<>>
  <2>1. Tracked = {}
    BY DEF LimiterInit, Tracked
  <2> QED BY <2>1 DEF Admitted
<1> QED BY <1>1, <1>2, Zenon DEF Quota!Init

LEMMA QuotaTick == LimiterInv /\ Tick => Quota!Tick
<1> SUFFICES ASSUME LimiterInv, Tick
             PROVE  Quota!Tick
  OBVIOUS
<1>1. /\ now \in 1 .. MaxTime /\ now' = now + 1 /\ windows' = windows
      /\ windows \in Seq(RateWindow) /\ Distinct(windows)
      /\ \A i \in 1 .. Len(windows) : Fine(windows[i], now)
  BY DEF LimiterInv, Tick, Advance, Good
<1>2. ASSUME NEW k \in Key
      PROVE  Requests'[k] = SubSeq(Requests[k], Cardinality(Quota!Leaving(k)) + 1,
                                   Len(Requests[k]))
  <2> DEFINE t == Requests[k]
             leaving == {i \in DOMAIN t : t[i] + WindowOf(k) <= now'}
  <2>1. Quota!Leaving(k) = leaving
    BY DEF Quota!Leaving, Requests
  <2>2. t = AdmittedOf(windows, now, k) /\ Requests'[k] = AdmittedOf(windows, now', k)
    BY <1>1, RequestsAre
  <2>3. CASE \E i \in 1 .. Len(windows) : windows[i].key = k
    <3>1. PICK i \in 1 .. Len(windows) : windows[i].key = k
      BY <2>3
    <3>2. t = Counting(windows[i], now) /\ Requests'[k] = Counting(windows[i], now')
      BY <1>1, <2>2, <3>1, AdmittedAt
    <3>3. Counting(windows[i], now + 1)
            = SubSeq(t, Cardinality({j \in DOMAIN t : t[j] + WindowOf(windows[i].key) <= now + 1}) + 1,
                     Len(t))
      <4> HIDE DEF t
      <4> QED BY <1>1, <3>2, TimePasses
    <3> HIDE DEF t
    <3> QED BY <1>1, <2>1, <3>1, <3>2, <3>3 DEF t
  <2>4. CASE \A i \in 1 .. Len(windows) : windows[i].key # k
    <3>1. t = <<>> /\ Requests'[k] = <<>>
      BY <1>1, <2>2, <2>4, AdmittedNone
    <3>2. Len(t) = 0 /\ \A n \in Int : n >= 1 => SubSeq(t, n, 0) = <<>>
      BY <3>1
    <3>3. leaving = {}
      BY <3>1
    <3>4. Cardinality(leaving) = 0
      BY <3>3, FS_EmptySet
    <3> QED BY <2>1, <3>1, <3>2, <3>4
  <2> QED BY <2>3, <2>4
<1>3. Requests' = [k \in Key |-> SubSeq(Requests[k], Cardinality(Quota!Leaving(k)) + 1,
                                        Len(Requests[k]))]
  <2>1. Requests' = [k \in Key |-> Requests'[k]]
    BY DEF Requests
  <2> QED BY <1>2, <2>1
<1>4. ASSUME NEW S
      PROVE  Quota!Cardinality(S) = Cardinality(S)
  BY Zenon DEF Quota!Cardinality, Cardinality
<1>5. Requests' = [k \in Key |-> SubSeq(Requests[k], Quota!Cardinality(Quota!Leaving(k)) + 1,
                                        Len(Requests[k]))]
  BY <1>3, <1>4, Zenon
<1> QED BY <1>1, <1>5, Zenon DEF Quota!Tick, Requests

LEMMA QuotaReset == Reset => Quota!Reset
<1> SUFFICES ASSUME Reset
             PROVE  Quota!Reset
  OBVIOUS
<1>1. windows' = <<>> /\ now' = now
  BY DEF Reset
<1>2. ASSUME NEW k \in Key
      PROVE  Requests'[k] = <<>>
  <2>1. AdmittedOf(<<>>, now, k) = <<>>
    BY DEF AdmittedOf
  <2> QED BY <1>1, <2>1, RequestsAre
<1>3. Requests' = [k \in Key |-> <<>>]
  <2>1. Requests' = [k \in Key |-> Requests'[k]]
    BY DEF Requests
  <2> QED BY <1>2, <2>1
<1> QED BY <1>1, <1>3 DEF Quota!Reset, Requests

LEMMA QuotaClean == LimiterInv /\ CleanExpired => UNCHANGED Quota!windowVars
<1> SUFFICES ASSUME LimiterInv, CleanExpired
             PROVE  UNCHANGED Quota!windowVars
  OBVIOUS
<1>1. now' = now
  BY DEF CleanExpired
<1>2. \A k \in Key : Requests'[k] = Requests[k]
  BY CleaningForgetsNothing, RequestsAre
<1>3. Requests' = Requests
  <2>1. Requests' = [k \in Key |-> Requests'[k]] /\ Requests = [k \in Key |-> Requests[k]]
    BY DEF Requests
  <2> QED BY <1>2, <2>1
<1> QED BY <1>1, <1>3 DEF Quota!windowVars, Requests

LEMMA QuotaCheck ==
  ASSUME LimiterInv, NEW key \in Key, CheckLimit(key)
  PROVE  [Quota!Next]_(Quota!windowVars)
<1>1. now' = now
  BY DEF CheckLimit
<1>2. CASE \A k : AdmittedOf(windows', now', k) = AdmittedOf(windows, now, k)
  <2>1. \A k \in Key : Requests'[k] = Requests[k]
    BY <1>2, RequestsAre
  <2>2. Requests' = Requests
    <3>1. Requests' = [k \in Key |-> Requests'[k]] /\ Requests = [k \in Key |-> Requests[k]]
      BY DEF Requests
    <3> QED BY <2>1, <3>1
  <2> QED BY <1>1, <2>2 DEF Quota!windowVars, Requests
<1>3. CASE /\ Len(AdmittedOf(windows, now, key)) < EffectiveLimit(key)
           /\ \A k : AdmittedOf(windows', now', k)
                       = IF k \in Evicted(key) THEN <<>>
                         ELSE IF k = key THEN Append(AdmittedOf(windows, now, key), now)
                         ELSE AdmittedOf(windows, now, k)
  <2>1. Evicted(key) \in SUBSET NoRoomFor /\ key \notin Evicted(key)
    BY BucketIsMade
  <2>2. Len(Requests[key]) < EffectiveLimit(key)
    BY <1>3, RequestsAre
  <2>3. ASSUME NEW k \in Key
        PROVE  Requests'[k] = IF k \in Evicted(key) THEN <<>>
                              ELSE IF k = key THEN Append(Requests[key], now) ELSE Requests[k]
    BY <1>3, RequestsAre
  <2>4. Requests' = [k \in Key |-> IF k \in Evicted(key) THEN <<>>
                                   ELSE IF k = key THEN Append(Requests[key], now)
                                   ELSE Requests[k]]
    <3>1. Requests' = [k \in Key |-> Requests'[k]]
      BY DEF Requests
    <3> QED BY <2>3, <3>1
  <2>5. Quota!ForgetAndAdmit(Evicted(key), key)
    BY <1>1, <2>1, <2>2, <2>4 DEF Quota!ForgetAndAdmit, Requests
  <2> QED BY <2>1, <2>5 DEF Quota!Next
<1> QED BY <1>2, <1>3, RequestIsCounted

\* The limiter implements the quota: buckets are pruned when they are used, cleaned
\* and evicted at other times, and still no window of real time admits more than the
\* limit, but for the requests forgotten with the buckets inserted first, when the
\* map is full.
THEOREM WindowsImplementQuotas == LimiterSpec => WindowsAreQuotas
<1>1. LimiterInv /\ [LimiterNext]_limiterVars => [Quota!Next]_(Quota!windowVars)
  <2> SUFFICES ASSUME LimiterInv, [LimiterNext]_limiterVars
               PROVE  [Quota!Next]_(Quota!windowVars)
    OBVIOUS
  <2>1. CASE \E key \in Key : CheckLimit(key)
    BY <2>1, QuotaCheck
  <2>2. CASE CleanExpired
    BY <2>2, QuotaClean
  <2>3. CASE Reset
    BY <2>3, QuotaReset DEF Quota!Next
  <2>4. CASE Tick
    BY <2>4, QuotaTick DEF Quota!Next
  <2>5. CASE UNCHANGED limiterVars
    <3>1. NoRoomFor' = NoRoomFor
      BY <2>5 DEF NoRoomFor, limiterVars
    <3>2. \A k \in Key : Requests'[k] = Requests[k]
      BY <2>5, RequestsAre DEF limiterVars
    <3>3. Requests' = Requests
      <4>1. Requests' = [k \in Key |-> Requests'[k]] /\ Requests = [k \in Key |-> Requests[k]]
        BY DEF Requests
      <4> QED BY <3>2, <4>1
    <3> QED BY <2>5, <3>3 DEF Quota!windowVars, Requests, limiterVars
  <2> QED BY <2>1, <2>2, <2>3, <2>4, <2>5 DEF LimiterNext
<1> QED BY <1>1, LimiterInvHolds, QuotaInit, PTL DEF LimiterSpec, WindowsAreQuotas

-----------------------------------------------------------------------------
(* The sandbox of the AI gateway: what an agent asked for in the past, and what
   its history still knows of it. *)

\* The record that an evaluation left, if its call counted.
RecordOf(evaluation) ==
  [timestamp |-> evaluation.at, tool |-> evaluation.call.tool,
   hash |-> HashArguments(evaluation.call.arguments)]

RecordsOf(past) == [i \in DOMAIN past |-> RecordOf(past[i])]

Evaluation == [call : ToolCall, at : Nat, outcome : Answers]

CountedOf(past, agent) == {i \in Counted(past) : past[i].call.agent = agent}

\* A history holds the records of some of the calls of an agent that counted, in
\* their order, and of all that count at a time.
Remembers(history, past, agent, at) ==
  \E kept \in SUBSET CountedOf(past, agent) :
    /\ Recent(past, agent, at) \subseteq kept
    /\ IsKept(history, RecordsOf(past), kept)

\* A history holds the records of those that count at a time and no others.
IsExactly(history, past, agent, at) ==
  IsKept(history, RecordsOf(past), Recent(past, agent, at))

SandboxInv ==
  /\ now \in Nat
  /\ SandboxTypeOK
  /\ \A agent \in CallingAgent :
       Remembers(callHistory[agent], evaluations, agent, now)
  /\ \A session \in Session :
       sessionCounts[session] = Cardinality(OfSession(evaluations, session))

\* The counted calls of an agent are positions of the past, and so are the recent ones.
LEMMA CountedIs ==
  ASSUME NEW past \in Seq(Evaluation), NEW agent
  PROVE  /\ CountedOf(past, agent) \subseteq 1 .. Len(past)
         /\ \A at : Recent(past, agent, at) \subseteq CountedOf(past, agent)
         /\ \A session : OfSession(past, session) \subseteq 1 .. Len(past)
         /\ RecordsOf(past) \in Seq([timestamp : Nat, tool : Tool,
                                     hash : {call.arguments.top : call \in ToolCall}])
         /\ Len(RecordsOf(past)) = Len(past)
         /\ \A i \in 1 .. Len(past) : RecordsOf(past)[i] = RecordOf(past[i])
<1>1. DOMAIN past = 1 .. Len(past) /\ Len(past) \in Nat
  OBVIOUS
<1>2. ASSUME NEW i \in 1 .. Len(past)
      PROVE  RecordOf(past[i]) \in [timestamp : Nat, tool : Tool,
                                    hash : {call.arguments.top : call \in ToolCall}]
  <2>1. past[i] \in Evaluation
    BY <1>2
  <2> QED BY <2>1 DEF Evaluation, RecordOf, HashArguments, Tool
<1>3. RecordsOf(past) = [i \in 1 .. Len(past) |-> RecordOf(past[i])]
  BY <1>1 DEF RecordsOf
<1>4. CountedOf(past, agent) \subseteq 1 .. Len(past)
  BY <1>1 DEF CountedOf, Counted
<1>5. \A session : OfSession(past, session) \subseteq 1 .. Len(past)
  BY <1>1 DEF OfSession, Counted
<1>6. \A at : Recent(past, agent, at) \subseteq CountedOf(past, agent)
  BY DEF CountedOf, Recent
<1> HIDE DEF RecordsOf
<1>7. /\ RecordsOf(past) \in Seq([timestamp : Nat, tool : Tool,
                                  hash : {call.arguments.top : call \in ToolCall}])
      /\ Len(RecordsOf(past)) = Len(past)
  BY <1>1, <1>2, <1>3
<1>8. \A i \in 1 .. Len(past) : RecordsOf(past)[i] = RecordOf(past[i])
  BY <1>3
<1> QED BY <1>4, <1>5, <1>6, <1>7, <1>8

\* What is kept is a sequence of entries of s, as long as there are positions.
LEMMA KeptIsSequence ==
  ASSUME NEW S, NEW s \in Seq(S), NEW at, at \subseteq 1 .. Len(s), NEW t, IsKept(t, s, at)
  PROVE  /\ t \in Seq(S)
         /\ IsFiniteSet(at) /\ Cardinality(at) \in Nat
         /\ Len(t) = Cardinality(at)
         /\ DOMAIN t = 1 .. Cardinality(at)
<1>1. Len(s) \in Nat
  OBVIOUS
<1>2. IsFiniteSet(at) /\ Cardinality(at) \in Nat
  <2>1. IsFiniteSet(1 .. Len(s))
    BY <1>1, Interval
  <2> QED BY <2>1, FS_Subset, FS_CardinalityType
<1>3. PICK place \in Bijection(1 .. Cardinality(at), at) :
           t = [n \in 1 .. Cardinality(at) |-> s[place[n]]]
  BY DEF IsKept
<1>4. \A n \in 1 .. Cardinality(at) : s[place[n]] \in S
  <2>1. \A n \in 1 .. Cardinality(at) : place[n] \in 1 .. Len(s)
    BY DEF Bijection, Injection
  <2> QED BY <2>1
<1> QED BY <1>2, <1>3, <1>4

\* The positions whose entries are of a kind.
Where(at, s, K) == {i \in at : s[i] \in K}

\* Keeping some of what is kept.
LEMMA KeptOfKept ==
  ASSUME NEW S, NEW s \in Seq(S), NEW at, at \subseteq 1 .. Len(s), NEW t, IsKept(t, s, at),
         NEW K, NEW u, IsKept(u, t, Where(DOMAIN t, t, K))
  PROVE  IsKept(u, s, Where(at, s, K))
<1> DEFINE d == Where(DOMAIN t, t, K)
           e == Where(at, s, K)
<1>1. /\ IsFiniteSet(at) /\ Cardinality(at) \in Nat
      /\ t \in Seq(S) /\ DOMAIN t = 1 .. Cardinality(at) /\ Len(t) = Cardinality(at)
  BY KeptIsSequence
<1>2. PICK place \in Bijection(1 .. Cardinality(at), at) :
        /\ \A m, n \in 1 .. Cardinality(at) : m < n => place[m] < place[n]
        /\ t = [n \in 1 .. Cardinality(at) |-> s[place[n]]]
  BY DEF IsKept
<1>3. PICK pick \in Bijection(1 .. Cardinality(d), d) :
        /\ \A m, n \in 1 .. Cardinality(d) : m < n => pick[m] < pick[n]
        /\ u = [n \in 1 .. Cardinality(d) |-> t[pick[n]]]
  BY DEF IsKept
<1>4. IsFiniteSet(d) /\ Cardinality(d) \in Nat /\ d \subseteq 1 .. Cardinality(at)
  <2>1. d \subseteq 1 .. Len(t)
    BY <1>1 DEF Where
  <2> QED BY <1>1, <1>3, <2>1, KeptIsSequence
<1> DEFINE composed == [n \in 1 .. Cardinality(d) |-> place[pick[n]]]
<1>5. \A n \in 1 .. Cardinality(d) : pick[n] \in d /\ pick[n] \in 1 .. Cardinality(at)
  BY <1>3, <1>4 DEF Bijection, Injection
<1>6. \A n \in 1 .. Cardinality(at) : place[n] \in at /\ t[n] = s[place[n]]
  BY <1>2 DEF Bijection, Injection
<1>7. composed \in Bijection(1 .. Cardinality(d), e)
  <2>1. composed \in [1 .. Cardinality(d) -> e]
    BY <1>1, <1>5, <1>6 DEF Where
  <2>2. ASSUME NEW m \in 1 .. Cardinality(d), NEW n \in 1 .. Cardinality(d),
               composed[m] = composed[n]
        PROVE  m = n
    BY <1>2, <1>3, <1>5, <2>2 DEF Bijection, Injection, IsInjective
  <2>3. ASSUME NEW i \in e
        PROVE  \E n \in 1 .. Cardinality(d) : composed[n] = i
    <3>1. PICK k \in 1 .. Cardinality(at) : place[k] = i
      BY <1>2 DEF Bijection, Surjection, Where
    <3>2. k \in d
      BY <1>1, <1>6, <3>1 DEF Where
    <3>3. PICK n \in 1 .. Cardinality(d) : pick[n] = k
      BY <1>3, <3>2 DEF Bijection, Surjection
    <3> QED BY <3>1, <3>3
  <2> HIDE DEF composed
  <2> QED BY <2>1, <2>2, <2>3 DEF Bijection, Injection, Surjection, IsInjective
<1>8. Cardinality(e) = Cardinality(d)
  <2> HIDE DEF composed
  <2> QED BY <1>4, <1>7, FS_CountingElements DEF ExistsBijection
<1>9. \A m, n \in 1 .. Cardinality(d) : m < n => composed[m] < composed[n]
  BY <1>2, <1>3, <1>5
<1>10. u = [n \in 1 .. Cardinality(d) |-> s[composed[n]]]
  BY <1>3, <1>5, <1>6
<1> HIDE DEF composed, d, e
<1>11. IsKept(u, s, e)
  BY <1>7, <1>8, <1>9, <1>10 DEF IsKept
<1> QED BY <1>11 DEF e

\* What is kept of s is kept of s and one more.
LEMMA KeptWithMore ==
  ASSUME NEW S, NEW s \in Seq(S), NEW at, at \subseteq 1 .. Len(s), NEW t, IsKept(t, s, at),
         NEW x
  PROVE  IsKept(t, Append(s, x), at)
<1>1. PICK place \in Bijection(1 .. Cardinality(at), at) :
        /\ \A m, n \in 1 .. Cardinality(at) : m < n => place[m] < place[n]
        /\ t = [n \in 1 .. Cardinality(at) |-> s[place[n]]]
  BY DEF IsKept
<1>2. \A i \in 1 .. Len(s) : Append(s, x)[i] = s[i]
  OBVIOUS
<1>3. \A n \in 1 .. Cardinality(at) : place[n] \in 1 .. Len(s)
  BY <1>1 DEF Bijection, Injection
<1>4. t = [n \in 1 .. Cardinality(at) |-> Append(s, x)[place[n]]]
  BY <1>1, <1>2, <1>3, Zenon
<1> QED BY <1>1, <1>4, Zenon DEF IsKept

\* One more at the end of both.
LEMMA KeptAndMore ==
  ASSUME NEW S, NEW s \in Seq(S), NEW at, at \subseteq 1 .. Len(s), NEW t, IsKept(t, s, at),
         NEW x \in S
  PROVE  IsKept(Append(t, x), Append(s, x), at \union {Len(s) + 1})
<1> DEFINE c == Cardinality(at)
           last == Len(s) + 1
           more == at \union {last}
<1>1. /\ IsFiniteSet(at) /\ c \in Nat /\ Len(s) \in Nat
      /\ t \in Seq(S) /\ Len(t) = c
  <2>1. /\ IsFiniteSet(at) /\ c \in Nat
        /\ t \in Seq(S) /\ Len(t) = c
    BY KeptIsSequence
  <2> QED BY <2>1
<1>2. PICK place \in Bijection(1 .. c, at) :
        /\ \A m, n \in 1 .. c : m < n => place[m] < place[n]
        /\ t = [n \in 1 .. c |-> s[place[n]]]
  BY DEF IsKept
<1>3. \A n \in 1 .. c : place[n] \in at /\ place[n] \in 1 .. Len(s) /\ t[n] = s[place[n]]
  BY <1>2 DEF Bijection, Injection
<1>4. last \notin at /\ Cardinality(more) = c + 1
  <2>1. last \notin at
    BY <1>1
  <2> QED BY <1>1, <2>1, FS_AddElement
<1> DEFINE longer == [n \in 1 .. c + 1 |-> IF n = c + 1 THEN last ELSE place[n]]
<1>5. longer \in Bijection(1 .. c + 1, more)
  <2>1. longer \in [1 .. c + 1 -> more]
    BY <1>1, <1>3
  <2>2. ASSUME NEW m \in 1 .. c + 1, NEW n \in 1 .. c + 1, longer[m] = longer[n]
        PROVE  m = n
    <3>1. \A k, l \in 1 .. c : place[k] = place[l] => k = l
      BY <1>2 DEF Bijection, Injection, IsInjective
    <3>2. \A k \in 1 .. c + 1 : k # c + 1 => k \in 1 .. c
      BY <1>1
    <3> HIDE DEF c, last
    <3> QED BY <1>3, <1>4, <2>2, <3>1, <3>2
  <2>3. ASSUME NEW i \in more
        PROVE  \E n \in 1 .. c + 1 : longer[n] = i
    <3>1. CASE i = last
      BY <1>1, <3>1
    <3>2. CASE i \in at
      <4>1. PICK n \in 1 .. c : place[n] = i
        BY <1>2, <3>2 DEF Bijection, Surjection
      <4>2. n \in 1 .. c + 1 /\ n # c + 1
        BY <1>1
      <4> QED BY <4>1, <4>2
    <3> QED BY <3>1, <3>2
  <2> HIDE DEF longer, more
  <2> QED BY <2>1, <2>2, <2>3 DEF Bijection, Injection, Surjection, IsInjective
<1>6. \A m, n \in 1 .. c + 1 : m < n => longer[m] < longer[n]
  <2> SUFFICES ASSUME NEW m \in 1 .. c + 1, NEW n \in 1 .. c + 1, m < n
               PROVE  longer[m] < longer[n]
    OBVIOUS
  <2>1. m \in 1 .. c /\ longer[m] = place[m]
    BY <1>1
  <2>2. CASE n = c + 1
    BY <1>1, <1>3, <2>1, <2>2
  <2>3. CASE n \in 1 .. c
    BY <1>1, <1>2, <2>1, <2>3
  <2> QED BY <1>1, <2>2, <2>3
<1>7. Append(t, x) = [n \in 1 .. c + 1 |-> Append(s, x)[longer[n]]]
  <2>1. ASSUME NEW n \in 1 .. c + 1
        PROVE  Append(t, x)[n] = Append(s, x)[longer[n]]
    <3>1. CASE n = c + 1
      <4>1. longer[n] = last
        BY <1>1, <3>1
      <4>2. Append(s, x)[last] = x
        BY <1>1
      <4>3. Append(t, x)[Len(t) + 1] = x
        BY <1>1
      <4> QED BY <1>1, <3>1, <4>1, <4>2, <4>3
    <3>2. CASE n \in 1 .. c
      <4>1. longer[n] = place[n]
        BY <1>1, <3>2
      <4>2. Append(t, x)[n] = t[n]
        <5>1. n \in 1 .. Len(t)
          BY <1>1, <3>2
        <5> QED BY <1>1, <5>1
      <4>3. Append(s, x)[place[n]] = s[place[n]]
        <5>1. place[n] \in 1 .. Len(s)
          BY <1>3, <3>2
        <5> QED BY <5>1
      <4> QED BY <1>3, <3>2, <4>1, <4>2, <4>3
    <3>3. n = c + 1 \/ n \in 1 .. c
      BY <1>1
    <3> QED BY <3>1, <3>2, <3>3
  <2>2. Append(t, x) = [n \in 1 .. c + 1 |-> Append(t, x)[n]]
    <3>1. Append(t, x) \in Seq(S) /\ Len(Append(t, x)) = c + 1
      <4> HIDE DEF c
      <4> QED BY <1>1
    <3>2. \A y \in Seq(S) : y = [n \in 1 .. Len(y) |-> y[n]]
      OBVIOUS
    <3> HIDE DEF c
    <3> QED BY <3>1, <3>2, Zenon
  <2> HIDE DEF longer
  <2> QED BY <2>1, <2>2
<1> HIDE DEF longer, more, c, last
<1>8. IsKept(Append(t, x), Append(s, x), more)
  BY <1>4, <1>5, <1>6, <1>7 DEF IsKept
<1> QED BY <1>8 DEF more, last

\* How many of what is kept come after one of them.
LEMMA KeptAfter ==
  ASSUME NEW c \in Nat, NEW at, at \subseteq Nat, NEW place \in Bijection(1 .. c, at),
         \A m, n \in 1 .. c : m < n => place[m] < place[n],
         NEW n \in 1 .. c
  PROVE  Cardinality({j \in at : j > place[n]}) = c - n
<1> DEFINE later == [k \in n + 1 .. c |-> place[k]]
           after == {j \in at : j > place[n]}
<1>1. /\ n + 1 \in Nat /\ n + 1 <= c + 1
      /\ \A k \in n + 1 .. c : k \in 1 .. c /\ n < k
      /\ \A k \in 1 .. c : k \notin n + 1 .. c => k = n \/ k < n
  OBVIOUS
<1>2. \A k \in 1 .. c : place[k] \in at /\ place[k] \in Nat
  BY DEF Bijection, Injection
<1>3. later \in Bijection(n + 1 .. c, after)
  <2>1. later \in [n + 1 .. c -> after]
    BY <1>1, <1>2
  <2>2. \A k, l \in n + 1 .. c : later[k] = later[l] => k = l
    BY <1>1 DEF Bijection, Injection, IsInjective
  <2>3. ASSUME NEW j \in after
        PROVE  \E k \in n + 1 .. c : later[k] = j
    <3>1. PICK k \in 1 .. c : place[k] = j
      BY DEF Bijection, Surjection
    <3>2. k # n /\ ~(k < n)
      <4>1. place[k] > place[n]
        BY <3>1
      <4>2. k < n => place[k] < place[n]
        OBVIOUS
      <4> QED BY <1>2, <3>1, <4>1, <4>2
    <3> QED BY <1>1, <3>1, <3>2
  <2> HIDE DEF later, after
  <2> QED BY <2>1, <2>2, <2>3 DEF Bijection, Injection, Surjection, IsInjective
<1>4. IsFiniteSet(n + 1 .. c) /\ Cardinality(n + 1 .. c) = c + 1 - (n + 1)
  BY <1>1, Interval
<1>5. Cardinality(after) = Cardinality(n + 1 .. c)
  <2> HIDE DEF later, after
  <2> QED BY <1>3, <1>4, FS_Bijection DEF ExistsBijection
<1> HIDE DEF after
<1>6. Cardinality(after) = c - n
  BY <1>4, <1>5
<1> QED BY <1>6 DEF after

\* A sequence ends with that many of a kind if and only if the last that many are.
LEMMA EndsWith ==
  ASSUME NEW L \in Nat, NEW N \in Nat, NEW G,
         NEW F, F = {first \in 1 .. L : \A i \in first .. L : i \in G}
  PROVE  Cardinality(F) >= N <=> /\ L >= N
                                 /\ \A n \in 1 .. L : L - n < N => n \in G
<1>1. IsFiniteSet(1 .. L) /\ Cardinality(1 .. L) = L
  BY FS_Interval
<1>2. IsFiniteSet(F) /\ Cardinality(F) <= L /\ Cardinality(F) \in Nat
  <2>1. F \in SUBSET (1 .. L)
    OBVIOUS
  <2> QED BY <1>1, <2>1, FS_Subset, FS_CardinalityType
<1>3. ASSUME Cardinality(F) >= N, NEW n \in 1 .. L, L - n < N, n \notin G
      PROVE  FALSE
  <2>1. F \in SUBSET (n + 1 .. L)
    <3> SUFFICES ASSUME NEW first \in F
                 PROVE  first \in n + 1 .. L
      OBVIOUS
    <3>1. n \notin first .. L
      BY <1>3
    <3> QED BY <3>1
  <2>2. IsFiniteSet(n + 1 .. L) /\ Cardinality(n + 1 .. L) = L + 1 - (n + 1)
    <3>1. n + 1 \in Nat /\ n + 1 <= L + 1
      OBVIOUS
    <3> QED BY <3>1, Interval
  <2>3. Cardinality(F) <= Cardinality(n + 1 .. L)
    BY <2>1, <2>2, FS_Subset
  <2> QED BY <1>2, <1>3, <2>2, <2>3
<1>4. ASSUME L >= N, \A n \in 1 .. L : L - n < N => n \in G
      PROVE  Cardinality(F) >= N
  <2>1. L - N + 1 \in Nat /\ L - N + 1 <= L + 1
    BY <1>4
  <2>2. Cardinality(L - N + 1 .. L) = L + 1 - (L - N + 1)
    BY <2>1, Interval
  <2>3. (L - N + 1 .. L) \in SUBSET F
    <3> SUFFICES ASSUME NEW first \in L - N + 1 .. L
                 PROVE  first \in 1 .. L /\ \A i \in first .. L : i \in G
      OBVIOUS
    <3>1. first \in 1 .. L
      BY <1>4
    <3>2. \A i \in first .. L : i \in 1 .. L /\ L - i < N
      BY <1>4
    <3> QED BY <1>4, <3>1, <3>2
  <2>4. Cardinality(L - N + 1 .. L) <= Cardinality(F)
    BY <1>2, <2>3, FS_Subset
  <2>5. Cardinality(L - N + 1 .. L) = N
    BY <2>2
  <2> QED BY <1>2, <2>4, <2>5
<1>5. Cardinality(F) >= N => L >= N
  BY <1>2
<1> QED BY <1>3, <1>4, <1>5

\* The end of a history tells whether the latest of the recent calls are alike.
LEMMA LoopIsRepetition ==
  ASSUME NEW past \in Seq(Evaluation), NEW agent, NEW at, NEW history, NEW call \in ToolCall,
         IsExactly(history, past, agent, at)
  PROVE  IsPotentialLoop(history, call)
           <=> OneOfManyAlike(call, past, Recent(past, agent, at))
<1> DEFINE recent == Recent(past, agent, at)
           c == Cardinality(recent)
           N == MaxConsecutiveIdenticalCalls - 1
           R == RecordsOf(past)
<1>1. /\ recent \subseteq 1 .. Len(past) /\ R \in Seq(CallRecord) /\ Len(R) = Len(past)
      /\ \A i \in 1 .. Len(past) : R[i] = RecordOf(past[i])
  <2> HIDE DEF R, recent
  <2>1. recent \subseteq 1 .. Len(past)
    BY CountedIs DEF recent
  <2>2. R \in Seq(CallRecord)
    BY CountedIs DEF R, CallRecord
  <2>3. Len(R) = Len(past) /\ \A i \in 1 .. Len(past) : R[i] = RecordOf(past[i])
    BY CountedIs DEF R
  <2> QED BY <2>1, <2>2, <2>3
<1>2. IsKept(history, R, recent)
  BY DEF IsExactly
<1> HIDE DEF R, recent
<1>3. /\ history \in Seq(CallRecord) /\ IsFiniteSet(recent) /\ c \in Nat
      /\ Len(history) = c /\ DOMAIN history = 1 .. c
  BY <1>1, <1>2, KeptIsSequence
<1>4. PICK place \in Bijection(1 .. c, recent) :
        /\ \A m, n \in 1 .. c : m < n => place[m] < place[n]
        /\ history = [n \in 1 .. c |-> R[place[n]]]
  BY <1>2 DEF IsKept
<1> HIDE DEF c
<1>5. N \in Nat
  BY SandboxAssumption
<1>6. recent \subseteq Nat
  BY <1>1
<1>7. ASSUME NEW n \in 1 .. c
      PROVE  /\ place[n] \in recent
             /\ Cardinality({j \in recent : j > place[n]}) = c - n
             /\ Same(history[n], call) <=> Alike(call, past[place[n]].call)
  <2>1. place[n] \in recent /\ place[n] \in 1 .. Len(past)
    BY <1>1, <1>4 DEF Bijection, Injection
  <2>2. Cardinality({j \in recent : j > place[n]}) = c - n
    <3>1. \A m, k \in 1 .. c : m < k => place[m] < place[k]
      BY <1>4
    <3>2. place \in Bijection(1 .. c, recent)
      BY <1>4
    <3>3. c \in Nat
      BY <1>3
    <3> QED BY <1>6, <3>1, <3>2, <3>3, KeptAfter, Zenon
  <2>3. history[n] = RecordOf(past[place[n]])
    BY <1>1, <1>4, <2>1
  <2>4. Same(history[n], call) <=> Alike(call, past[place[n]].call)
    BY <2>3 DEF Same, Alike, RecordOf, HashArguments
  <2> QED BY <2>1, <2>2, <2>4
<1> DEFINE G == {n \in 1 .. c : Same(history[n], call)}
           F == {first \in 1 .. c : \A i \in first .. c : i \in G}
<1>8. ConsecutiveIdentical(history, call) = Cardinality(F)
  <2>1. F = {first \in 1 .. c : \A i \in first .. c : Same(history[i], call)}
    BY <1>3
  <2> HIDE DEF F
  <2> QED BY <1>3, <2>1 DEF ConsecutiveIdentical
<1>9. Cardinality(F) >= N <=> c >= N /\ \A n \in 1 .. c : c - n < N => n \in G
  <2> HIDE DEF G, N
  <2> QED BY <1>3, <1>5, EndsWith
<1>10. (\A n \in 1 .. c : c - n < N => n \in G)
         <=> \A i \in recent : Cardinality({j \in recent : j > i}) < N
                                 => Alike(call, past[i].call)
  <2> HIDE DEF N
  <2>1. \A i \in recent : \E n \in 1 .. c : place[n] = i
    BY <1>4 DEF Bijection, Surjection
  <2>2. \A n \in 1 .. c : n \in G <=> Alike(call, past[place[n]].call)
    BY <1>7
  <2>3. \A n \in 1 .. c : /\ place[n] \in recent
                           /\ Cardinality({j \in recent : j > place[n]}) = c - n
    BY <1>7
  <2> HIDE DEF G
  <2>4. ASSUME \A n \in 1 .. c : c - n < N => n \in G,
               NEW i \in recent, Cardinality({j \in recent : j > i}) < N
        PROVE  Alike(call, past[i].call)
    <3>1. PICK n \in 1 .. c : place[n] = i
      BY <2>1
    <3>2. Cardinality({j \in recent : j > i}) = c - n
      BY <2>3, <3>1
    <3> QED BY <2>2, <2>4, <3>1, <3>2
  <2>5. ASSUME \A i \in recent : Cardinality({j \in recent : j > i}) < N
                                 => Alike(call, past[i].call),
               NEW n \in 1 .. c, c - n < N
        PROVE  n \in G
    <3>1. Cardinality({j \in recent : j > place[n]}) < N
      BY <2>3, <2>5
    <3>2. Alike(call, past[place[n]].call)
      BY <2>3, <2>5, <3>1
    <3> QED BY <2>2, <3>2
  <2> QED BY <2>4, <2>5, Zenon
<1> HIDE DEF F, G
<1> QED BY <1>8, <1>9, <1>10 DEF IsPotentialLoop, OneOfManyAlike, recent, c, N

\* An evaluation after which the call counted.
Counts(evaluation) == evaluation.outcome \in {"APPROVAL", "PERMITTED"}

\* One more evaluation, and which of them counted.
LEMMA OneMoreCounted ==
  ASSUME NEW past \in Seq(Evaluation), NEW answer \in Evaluation,
         NEW next, next = Len(past) + 1, NEW longer, longer = Append(past, answer)
  PROVE  /\ longer[next] = answer
         /\ next \notin 1 .. Len(past) /\ Counted(past) \subseteq 1 .. Len(past)
         /\ \A i \in 1 .. Len(past) : longer[i] = past[i]
         /\ Counted(longer) = IF Counts(answer) THEN Counted(past) \union {next} ELSE Counted(past)
<1>1. /\ Len(past) \in Nat /\ DOMAIN past = 1 .. Len(past)
      /\ longer \in Seq(Evaluation) /\ DOMAIN longer = 1 .. next
      /\ longer[next] = answer
      /\ \A i \in 1 .. Len(past) : longer[i] = past[i]
  OBVIOUS
<1>2. /\ 1 .. next = (1 .. Len(past)) \union {next}
      /\ next \notin 1 .. Len(past)
  BY <1>1
<1>3. Counted(longer) = IF Counts(answer) THEN Counted(past) \union {next} ELSE Counted(past)
  <2>1. \A i \in 1 .. Len(past) : i \in Counted(longer) <=> i \in Counted(past)
    BY <1>1, <1>2 DEF Counted
  <2>2. next \in Counted(longer) <=> Counts(answer)
    BY <1>1, <1>2 DEF Counted, Counts
  <2>3. Counted(longer) \subseteq 1 .. next /\ Counted(past) \subseteq 1 .. Len(past)
    BY <1>1 DEF Counted
  <2>4. CASE Counts(answer)
    BY <1>2, <2>1, <2>2, <2>3, <2>4
  <2>5. CASE ~Counts(answer)
    <3>1. \A i : i \in Counted(longer) <=> i \in Counted(past)
      BY <1>2, <2>1, <2>2, <2>3, <2>5
    <3>2. Counted(longer) = Counted(past)
      BY <3>1, Zenon
    <3> QED BY <2>5, <3>2, Zenon
  <2> QED BY <2>4, <2>5, Zenon
<1>4. Counted(past) \subseteq 1 .. Len(past)
  BY <1>1 DEF Counted
<1> QED BY <1>1, <1>2, <1>3, <1>4

\* What it adds to the counted calls of an agent.
LEMMA OneMoreOfAgent ==
  ASSUME NEW past \in Seq(Evaluation), NEW answer \in Evaluation, NEW agent
  PROVE  CountedOf(Append(past, answer), agent)
           = IF Counts(answer) /\ answer.call.agent = agent
               THEN CountedOf(past, agent) \union {Len(past) + 1} ELSE CountedOf(past, agent)
<1> DEFINE next == Len(past) + 1
           longer == Append(past, answer)
<1> HIDE DEF next, longer
<1>1. /\ longer[next] = answer
      /\ next \notin 1 .. Len(past) /\ Counted(past) \subseteq 1 .. Len(past)
      /\ \A i \in 1 .. Len(past) : longer[i] = past[i]
      /\ Counted(longer) = IF Counts(answer) THEN Counted(past) \union {next} ELSE Counted(past)
  BY OneMoreCounted DEF next, longer
<1>2. \A i : i \in CountedOf(longer, agent) <=> i \in Counted(longer) /\ longer[i].call.agent = agent
  BY DEF CountedOf
<1>3. \A i : i \in CountedOf(past, agent) <=> i \in Counted(past) /\ past[i].call.agent = agent
  BY DEF CountedOf
<1>4. CountedOf(longer, agent)
        = IF Counts(answer) /\ answer.call.agent = agent
            THEN CountedOf(past, agent) \union {next} ELSE CountedOf(past, agent)
  BY <1>1, <1>2, <1>3
<1> QED BY <1>4 DEF next, longer

\* What it adds to the recent ones.
LEMMA OneMoreRecent ==
  ASSUME NEW past \in Seq(Evaluation), NEW answer \in Evaluation, NEW agent, NEW at
  PROVE  Recent(Append(past, answer), agent, at)
           = IF Counts(answer) /\ answer.call.agent = agent /\ at - answer.at < QuotaWindowMs
               THEN Recent(past, agent, at) \union {Len(past) + 1} ELSE Recent(past, agent, at)
<1> DEFINE next == Len(past) + 1
           longer == Append(past, answer)
<1> HIDE DEF next, longer
<1>1. /\ longer[next] = answer
      /\ next \notin 1 .. Len(past) /\ Counted(past) \subseteq 1 .. Len(past)
      /\ \A i \in 1 .. Len(past) : longer[i] = past[i]
      /\ Counted(longer) = IF Counts(answer) THEN Counted(past) \union {next} ELSE Counted(past)
  BY OneMoreCounted DEF next, longer
<1>2. \A i : i \in Recent(longer, agent, at) <=> /\ i \in Counted(longer) /\ longer[i].call.agent = agent
                                       /\ at - longer[i].at < QuotaWindowMs
  BY DEF Recent
<1>3. \A i : i \in Recent(past, agent, at) <=> /\ i \in Counted(past) /\ past[i].call.agent = agent
                                       /\ at - past[i].at < QuotaWindowMs
  BY DEF Recent
<1>4. Recent(longer, agent, at)
        = IF Counts(answer) /\ answer.call.agent = agent /\ at - answer.at < QuotaWindowMs
            THEN Recent(past, agent, at) \union {next} ELSE Recent(past, agent, at)
  <2>1. CASE Counts(answer) /\ answer.call.agent = agent /\ at - answer.at < QuotaWindowMs
    <3>1. \A i : i \in Recent(longer, agent, at) <=> i \in Recent(past, agent, at) \/ i = next
      BY <1>1, <1>2, <1>3, <2>1
    <3>2. Recent(longer, agent, at) = Recent(past, agent, at) \union {next}
      BY <3>1, Zenon
    <3> QED BY <2>1, <3>2, Zenon
  <2>2. CASE ~(Counts(answer) /\ answer.call.agent = agent /\ at - answer.at < QuotaWindowMs)
    <3>1. \A i : i \in Recent(longer, agent, at) <=> i \in Recent(past, agent, at)
      BY <1>1, <1>2, <1>3, <2>2
    <3>2. Recent(longer, agent, at) = Recent(past, agent, at)
      BY <3>1, Zenon
    <3> QED BY <2>2, <3>2, Zenon
  <2> QED BY <2>1, <2>2, Zenon
<1> QED BY <1>4 DEF next, longer

\* What it adds to those of a session.
LEMMA OneMoreOfSession ==
  ASSUME NEW past \in Seq(Evaluation), NEW answer \in Evaluation, NEW session
  PROVE  OfSession(Append(past, answer), session)
           = IF Counts(answer) /\ answer.call.session = session
               THEN OfSession(past, session) \union {Len(past) + 1} ELSE OfSession(past, session)
<1> DEFINE next == Len(past) + 1
           longer == Append(past, answer)
<1> HIDE DEF next, longer
<1>1. /\ longer[next] = answer
      /\ next \notin 1 .. Len(past) /\ Counted(past) \subseteq 1 .. Len(past)
      /\ \A i \in 1 .. Len(past) : longer[i] = past[i]
      /\ Counted(longer) = IF Counts(answer) THEN Counted(past) \union {next} ELSE Counted(past)
  BY OneMoreCounted DEF next, longer
<1>2. \A i : i \in OfSession(longer, session) <=> i \in Counted(longer) /\ longer[i].call.session = session
  BY DEF OfSession
<1>3. \A i : i \in OfSession(past, session) <=> i \in Counted(past) /\ past[i].call.session = session
  BY DEF OfSession
<1>4. OfSession(longer, session)
        = IF Counts(answer) /\ answer.call.session = session
            THEN OfSession(past, session) \union {next} ELSE OfSession(past, session)
  BY <1>1, <1>2, <1>3
<1> QED BY <1>4 DEF next, longer

\* What it adds to the records.
LEMMA OneMoreRecord ==
  ASSUME NEW past \in Seq(Evaluation), NEW answer \in Evaluation
  PROVE  RecordsOf(Append(past, answer)) = Append(RecordsOf(past), RecordOf(answer))
<1> DEFINE next == Len(past) + 1
           longer == Append(past, answer)
<1>1. /\ Len(past) \in Nat /\ DOMAIN past = 1 .. Len(past)
      /\ longer \in Seq(Evaluation) /\ DOMAIN longer = 1 .. next
      /\ longer[next] = answer
      /\ \A i \in 1 .. Len(past) : longer[i] = past[i]
  OBVIOUS
<1>2. /\ 1 .. next = (1 .. Len(past)) \union {next}
      /\ next \notin 1 .. Len(past)
  BY <1>1
<1> HIDE DEF next, longer
<1>3. RecordsOf(longer) = Append(RecordsOf(past), RecordOf(answer))
  <2>1. RecordsOf(longer) = [i \in 1 .. next |-> RecordOf(longer[i])]
    BY <1>1 DEF RecordsOf
  <2>2. /\ RecordsOf(past) \in Seq(CallRecord) /\ Len(RecordsOf(past)) = Len(past)
        /\ \A i \in 1 .. Len(past) : RecordsOf(past)[i] = RecordOf(past[i])
    <3>1. RecordsOf(past) \in Seq(CallRecord)
      BY CountedIs DEF CallRecord
    <3>2. /\ Len(RecordsOf(past)) = Len(past)
          /\ \A i \in 1 .. Len(past) : RecordsOf(past)[i] = RecordOf(past[i])
      BY CountedIs
    <3> QED BY <3>1, <3>2
  <2> DEFINE appended == Append(RecordsOf(past), RecordOf(answer))
  <2>3. RecordOf(answer) \in CallRecord
    BY DEF RecordOf, CallRecord, HashArguments, Evaluation, Tool
  <2>4. appended = [i \in 1 .. next |-> IF i = next THEN RecordOf(answer) ELSE RecordsOf(past)[i]]
    <3>1. appended \in Seq(CallRecord) /\ Len(appended) = next
      BY <1>1, <2>2, <2>3 DEF next
    <3>2. \A y \in Seq(CallRecord) : y = [n \in 1 .. Len(y) |-> y[n]]
      OBVIOUS
    <3>3. \A n \in 1 .. next : appended[n] = IF n = next THEN RecordOf(answer)
                                             ELSE RecordsOf(past)[n]
      BY <1>1, <1>2, <2>2, <2>3 DEF next
    <3> HIDE DEF appended
    <3> QED BY <3>1, <3>2, <3>3
  <2>5. ASSUME NEW i \in 1 .. next
        PROVE  RecordOf(longer[i]) = IF i = next THEN RecordOf(answer) ELSE RecordsOf(past)[i]
    BY <1>1, <1>2, <2>2
  <2> HIDE DEF appended
  <2>6. RecordsOf(longer) = appended
    BY <2>1, <2>4, <2>5, Zenon
  <2> QED BY <2>6 DEF appended
<1> QED BY <1>3 DEF longer

\* Pruning leaves exactly what counts.
LEMMA PrunedIsExact ==
  ASSUME SandboxInv, NEW agent \in CallingAgent
  PROVE  /\ IsExactly(Pruned(callHistory[agent]), evaluations, agent, now)
         /\ Pruned(callHistory[agent]) \in Seq(CallRecord)
         /\ Len(Pruned(callHistory[agent])) = Cardinality(Recent(evaluations, agent, now))
         /\ Len(Pruned(callHistory[agent])) <= MaxCallsPerMinute
<1> DEFINE history == callHistory[agent]
           kept == {i \in DOMAIN history : now - history[i].timestamp < QuotaWindowMs}
           K == {record \in CallRecord : now - record.timestamp < QuotaWindowMs}
           R == RecordsOf(evaluations)
           recent == Recent(evaluations, agent, now)
<1>1. /\ history \in Seq(CallRecord) /\ evaluations \in Seq(Evaluation)
      /\ Len(history) <= MaxCallsPerMinute
      /\ Remembers(history, evaluations, agent, now)
  BY DEF SandboxInv, SandboxTypeOK, Evaluation
<1>2. PICK at \in SUBSET CountedOf(evaluations, agent) :
        recent \subseteq at /\ IsKept(history, R, at)
  BY <1>1 DEF Remembers
<1>3. /\ at \subseteq 1 .. Len(evaluations) /\ R \in Seq(CallRecord) /\ Len(R) = Len(evaluations)
      /\ \A i \in 1 .. Len(evaluations) : R[i] = RecordOf(evaluations[i])
  <2> HIDE DEF R
  <2>1. CountedOf(evaluations, agent) \subseteq 1 .. Len(evaluations)
    BY <1>1, CountedIs
  <2>2. R \in Seq(CallRecord)
    BY <1>1, CountedIs DEF R, CallRecord
  <2>3. Len(R) = Len(evaluations)
        /\ \A i \in 1 .. Len(evaluations) : R[i] = RecordOf(evaluations[i])
    BY <1>1, CountedIs DEF R
  <2> QED BY <2>1, <2>2, <2>3
<1>4. kept = Where(DOMAIN history, history, K)
  <2>1. \A n \in DOMAIN history : history[n] \in CallRecord
    BY <1>1
  <2> HIDE DEF history
  <2> QED BY <2>1 DEF Where
<1>5. recent = Where(at, R, K)
  <2>1. ASSUME NEW i \in at
        PROVE  /\ R[i] \in CallRecord
               /\ R[i].timestamp = evaluations[i].at
               /\ i \in Counted(evaluations) /\ evaluations[i].call.agent = agent
    <3>1. R[i] \in CallRecord /\ R[i] = RecordOf(evaluations[i])
      BY <1>3
    <3> QED BY <1>2, <3>1 DEF RecordOf, CountedOf
  <2>2. \A i \in at : R[i] \in K <=> now - evaluations[i].at < QuotaWindowMs
    BY <2>1
  <2>3. \A i \in at : i \in recent <=> now - evaluations[i].at < QuotaWindowMs
    BY <2>1 DEF Recent
  <2> HIDE DEF recent, K, R
  <2> QED BY <1>2, <2>2, <2>3 DEF Where
<1>6. kept \subseteq 1 .. Len(history)
  BY <1>1
<1> HIDE DEF history, kept, K, R, recent
<1>7. Cardinality(kept) <= Len(history) /\ IsKept(Filtered(history, kept), history, kept)
  BY <1>1, <1>6, FilteredIs
<1>8. IsKept(Filtered(history, kept), R, recent)
  <2>1. R \in Seq(CallRecord) /\ at \subseteq 1 .. Len(R)
    BY <1>3
  <2>2. IsKept(history, R, at) /\ IsKept(Filtered(history, kept), history, kept)
    BY <1>2, <1>7
  <2>3. IsKept(Filtered(history, kept), history, Where(DOMAIN history, history, K))
    BY <1>4, <2>2
  <2>4. IsKept(Filtered(history, kept), R, Where(at, R, K))
    BY <2>1, <2>2, <2>3, KeptOfKept
  <2> QED BY <1>5, <2>4
<1>9. Pruned(history) = Filtered(history, kept)
  BY DEF Pruned, kept
<1>10. Filtered(history, kept) \in Seq(CallRecord) /\ Len(Filtered(history, kept)) = Cardinality(kept)
  BY <1>1, <1>6, <1>7, KeptIsSequence
<1>11. Len(Filtered(history, kept)) = Cardinality(recent)
  <2>1. recent \subseteq 1 .. Len(R)
    BY <1>3, <1>5 DEF Where
  <2> QED BY <1>3, <1>8, <2>1, KeptIsSequence
<1>12. Cardinality(kept) <= MaxCallsPerMinute
  <2>1. Len(history) \in Nat
    BY <1>1
  <2>2. Cardinality(kept) \in Nat
    BY <1>1, <1>6, FilteredIs
  <2> QED BY <1>1, <1>7, <2>1, <2>2, SandboxAssumption
<1> QED BY <1>8, <1>9, <1>10, <1>11, <1>12 DEF IsExactly, history, R, recent

\* What is remembered at a time is remembered later.
LEMMA RemembersLater ==
  ASSUME NEW past \in Seq(Evaluation), NEW agent, NEW history,
         NEW at \in Nat, NEW later \in Nat, at <= later, Remembers(history, past, agent, at)
  PROVE  Remembers(history, past, agent, later)
<1>1. Recent(past, agent, later) \subseteq Recent(past, agent, at)
  <2> SUFFICES ASSUME NEW i \in Recent(past, agent, later)
               PROVE  at - past[i].at < QuotaWindowMs
    BY DEF Recent
  <2>1. i \in DOMAIN past /\ later - past[i].at < QuotaWindowMs
    BY DEF Recent, Counted
  <2>2. past[i].at \in Nat
    <3>1. past[i] \in Evaluation
      BY <2>1
    <3> QED BY <3>1 DEF Evaluation
  <2> QED BY <2>1, <2>2, SandboxAssumption
<1> QED BY <1>1 DEF Remembers

\* The answer to a call.
AnswerTo(call, outcome) == [call |-> call, at |-> now, outcome |-> outcome]

\* A refusal leaves what counts.
LEMMA RefusalKeepsTheSandbox ==
  ASSUME SandboxInv, NEW call \in ToolCall, NEW outcome \in {"SESSION_QUOTA", "RATE_LIMIT", "LOOP"},
         now' = now, Refuse(call, Pruned(callHistory[call.agent]), outcome)
  PROVE  SandboxInv'
<1> DEFINE history == Pruned(callHistory[call.agent])
           answer == AnswerTo(call, outcome)
<1>1. /\ call.agent \in CallingAgent /\ evaluations \in Seq(Evaluation)
      /\ answer \in Evaluation /\ answer.outcome = outcome
      /\ callHistory \in [CallingAgent -> Seq(CallRecord)]
  BY DEF SandboxInv, SandboxTypeOK, CallingAgent, Evaluation, AnswerTo, Answers
<1>2. /\ evaluations' = Append(evaluations, answer)
      /\ callHistory' = [callHistory EXCEPT ![call.agent] = history]
      /\ sessionCounts' = sessionCounts
  BY DEF Refuse, Answer, AnswerTo
<1>3. /\ IsExactly(history, evaluations, call.agent, now)
      /\ history \in Seq(CallRecord) /\ Len(history) <= MaxCallsPerMinute
  BY <1>1, PrunedIsExact
<1> HIDE DEF history, answer
<1>4. ~Counts(answer)
  BY <1>1 DEF Counts
<1>5. /\ RecordsOf(evaluations') = Append(RecordsOf(evaluations), RecordOf(answer))
      /\ \A agent : CountedOf(evaluations', agent) = CountedOf(evaluations, agent)
      /\ \A agent : Recent(evaluations', agent, now) = Recent(evaluations, agent, now)
      /\ \A session : OfSession(evaluations', session) = OfSession(evaluations, session)
  <2>1. ASSUME NEW agent, NEW session
        PROVE  /\ RecordsOf(evaluations') = Append(RecordsOf(evaluations), RecordOf(answer))
               /\ CountedOf(evaluations', agent) = CountedOf(evaluations, agent)
               /\ Recent(evaluations', agent, now) = Recent(evaluations, agent, now)
               /\ OfSession(evaluations', session) = OfSession(evaluations, session)
    <3>1. RecordsOf(evaluations') = Append(RecordsOf(evaluations), RecordOf(answer))
      BY <1>1, <1>2, OneMoreRecord
    <3>2. CountedOf(evaluations', agent) = CountedOf(evaluations, agent)
      BY <1>1, <1>2, <1>4, OneMoreOfAgent
    <3>3. Recent(evaluations', agent, now) = Recent(evaluations, agent, now)
      BY <1>1, <1>2, <1>4, OneMoreRecent
    <3>4. OfSession(evaluations', session) = OfSession(evaluations, session)
      BY <1>1, <1>2, <1>4, OneMoreOfSession
    <3> QED BY <3>1, <3>2, <3>3, <3>4
  <2> QED BY <2>1
<1>6. SandboxTypeOK'
  <2>1. evaluations' \in Seq([call : ToolCall, at : Nat, outcome : Answers])
    BY <1>1, <1>2 DEF Evaluation
  <2>2. /\ callHistory' \in [CallingAgent -> Seq(CallRecord)]
        /\ \A agent \in CallingAgent : Len(callHistory'[agent]) <= MaxCallsPerMinute
    BY <1>1, <1>2, <1>3 DEF SandboxInv, SandboxTypeOK
  <2> QED BY <1>2, <2>1, <2>2 DEF SandboxInv, SandboxTypeOK
<1>7. ASSUME NEW agent \in CallingAgent
      PROVE  Remembers(callHistory'[agent], evaluations', agent, now)
  <2>1. PICK kept \in SUBSET CountedOf(evaluations, agent) :
          /\ Recent(evaluations, agent, now) \subseteq kept
          /\ IsKept(callHistory'[agent], RecordsOf(evaluations), kept)
    <3>1. CASE agent = call.agent
      <4>1. callHistory'[agent] = history
        BY <1>1, <1>2, <3>1
      <4>2. Recent(evaluations, agent, now) \in SUBSET CountedOf(evaluations, agent)
        BY <1>1, CountedIs
      <4> QED BY <1>3, <3>1, <4>1, <4>2 DEF IsExactly
    <3>2. CASE agent # call.agent
      <4>1. callHistory'[agent] = callHistory[agent]
        BY <1>1, <1>2, <3>2
      <4> QED BY <4>1 DEF SandboxInv, Remembers
    <3> QED BY <3>1, <3>2
  <2>2. /\ RecordsOf(evaluations) \in Seq(CallRecord)
        /\ kept \subseteq 1 .. Len(RecordsOf(evaluations))
    <3>1. CountedOf(evaluations, agent) \subseteq 1 .. Len(evaluations)
      BY <1>1, CountedIs
    <3>2. RecordsOf(evaluations) \in Seq(CallRecord)
      BY <1>1, CountedIs DEF CallRecord
    <3>3. Len(RecordsOf(evaluations)) = Len(evaluations)
      BY <1>1, CountedIs
    <3> QED BY <3>1, <3>2, <3>3
  <2>3. IsKept(callHistory'[agent], Append(RecordsOf(evaluations), RecordOf(answer)), kept)
    BY <2>1, <2>2, KeptWithMore
  <2>4. /\ kept \in SUBSET CountedOf(evaluations', agent)
        /\ Recent(evaluations', agent, now) \subseteq kept
        /\ IsKept(callHistory'[agent], RecordsOf(evaluations'), kept)
    BY <1>5, <2>1, <2>3
  <2> QED BY <2>4 DEF Remembers
<1>8. \A session \in Session :
        sessionCounts'[session] = Cardinality(OfSession(evaluations', session))
  BY <1>2, <1>5 DEF SandboxInv
<1>9. now' \in Nat /\ \A agent \in CallingAgent :
                        Remembers(callHistory'[agent], evaluations', agent, now')
  BY <1>7 DEF SandboxInv
<1> QED BY <1>6, <1>8, <1>9 DEF SandboxInv

\* A call that counts is remembered.
LEMMA RecordKeepsTheSandbox ==
  ASSUME SandboxInv, NEW call \in ToolCall, now' = now, ~OverSession(call.session),
         Len(Pruned(callHistory[call.agent])) < MaxCallsPerMinute,
         Record(call, Pruned(callHistory[call.agent]))
  PROVE  SandboxInv'
<1> DEFINE history == Pruned(callHistory[call.agent])
           outcome == IF call.tool \in HighImpactTools THEN "APPROVAL" ELSE "PERMITTED"
           answer == AnswerTo(call, outcome)
           next == Len(evaluations) + 1
<1>1. /\ call.agent \in CallingAgent /\ call.session \in Session
      /\ evaluations \in Seq(Evaluation)
      /\ answer \in Evaluation /\ Counts(answer)
      /\ answer.call = call /\ answer.at = now /\ now \in Nat
      /\ callHistory \in [CallingAgent -> Seq(CallRecord)]
      /\ RecordOf(answer) \in CallRecord
  BY DEF SandboxInv, SandboxTypeOK, CallingAgent, Session, Evaluation, AnswerTo, Answers,
         RecordOf, CallRecord, HashArguments, Tool, Counts
<1>2. /\ evaluations' = Append(evaluations, answer)
      /\ callHistory' = [callHistory EXCEPT ![call.agent] = Append(history, RecordOf(answer))]
      /\ sessionCounts' = [sessionCounts EXCEPT ![call.session] = @ + 1]
  BY DEF Record, Answer, AnswerTo, RecordOf
<1>3. /\ IsExactly(history, evaluations, call.agent, now)
      /\ history \in Seq(CallRecord) /\ Len(history) < MaxCallsPerMinute
  BY <1>1, PrunedIsExact
<1> HIDE DEF history, answer, outcome, next
<1>4. ASSUME NEW agent, NEW session
      PROVE  /\ RecordsOf(evaluations') = Append(RecordsOf(evaluations), RecordOf(answer))
             /\ CountedOf(evaluations', agent)
                  = IF agent = call.agent THEN CountedOf(evaluations, agent) \union {next}
                                          ELSE CountedOf(evaluations, agent)
             /\ Recent(evaluations', agent, now) \subseteq
                  IF agent = call.agent THEN Recent(evaluations, agent, now) \union {next}
                                        ELSE Recent(evaluations, agent, now)
             /\ OfSession(evaluations', session)
                  = IF session = call.session THEN OfSession(evaluations, session) \union {next}
                                              ELSE OfSession(evaluations, session)
  <2>1. RecordsOf(evaluations') = Append(RecordsOf(evaluations), RecordOf(answer))
    BY <1>1, <1>2, OneMoreRecord
  <2>2. CountedOf(evaluations', agent)
          = IF agent = call.agent THEN CountedOf(evaluations, agent) \union {next}
                                  ELSE CountedOf(evaluations, agent)
    BY <1>1, <1>2, OneMoreOfAgent DEF next
  <2>3. Recent(evaluations', agent, now)
          = IF agent = call.agent /\ now - now < QuotaWindowMs
              THEN Recent(evaluations, agent, now) \union {next}
              ELSE Recent(evaluations, agent, now)
    <3>1. Recent(Append(evaluations, answer), agent, now)
            = IF Counts(answer) /\ answer.call.agent = agent /\ now - answer.at < QuotaWindowMs
                THEN Recent(evaluations, agent, now) \union {Len(evaluations) + 1}
                ELSE Recent(evaluations, agent, now)
      BY <1>1, OneMoreRecent
    <3> QED BY <1>1, <1>2, <3>1, Zenon DEF next
  <2>4. OfSession(evaluations', session)
          = IF session = call.session THEN OfSession(evaluations, session) \union {next}
                                      ELSE OfSession(evaluations, session)
    BY <1>1, <1>2, OneMoreOfSession DEF next
  <2> QED BY <2>1, <2>2, <2>3, <2>4
<1>5. SandboxTypeOK'
  <2>1. evaluations' \in Seq([call : ToolCall, at : Nat, outcome : Answers])
    BY <1>1, <1>2 DEF Evaluation
  <2>2. Append(history, RecordOf(answer)) \in Seq(CallRecord)
        /\ Len(Append(history, RecordOf(answer))) <= MaxCallsPerMinute
    BY <1>1, <1>3, SandboxAssumption
  <2>3. /\ callHistory' \in [CallingAgent -> Seq(CallRecord)]
        /\ \A agent \in CallingAgent : Len(callHistory'[agent]) <= MaxCallsPerMinute
    BY <1>1, <1>2, <2>2 DEF SandboxInv, SandboxTypeOK
  <2>4. sessionCounts' \in [Session -> 0 .. MaxCallsPerSession]
    <3>1. sessionCounts \in [Session -> 0 .. MaxCallsPerSession]
      BY DEF SandboxInv, SandboxTypeOK
    <3>2. sessionCounts[call.session] + 1 \in 0 .. MaxCallsPerSession
      BY <1>1, <3>1, SandboxAssumption DEF OverSession
    <3> QED BY <1>2, <3>1, <3>2
  <2> QED BY <2>1, <2>3, <2>4 DEF SandboxTypeOK
<1>6. ASSUME NEW agent \in CallingAgent
      PROVE  Remembers(callHistory'[agent], evaluations', agent, now)
  <2>1. /\ RecordsOf(evaluations) \in Seq(CallRecord)
        /\ Len(RecordsOf(evaluations)) = Len(evaluations)
        /\ CountedOf(evaluations, agent) \subseteq 1 .. Len(evaluations)
        /\ Recent(evaluations, agent, now) \subseteq CountedOf(evaluations, agent)
    <3>1. CountedOf(evaluations, agent) \subseteq 1 .. Len(evaluations)
      BY <1>1, CountedIs
    <3>2. RecordsOf(evaluations) \in Seq(CallRecord)
      BY <1>1, CountedIs DEF CallRecord
    <3>3. Len(RecordsOf(evaluations)) = Len(evaluations)
      BY <1>1, CountedIs
    <3>4. Recent(evaluations, agent, now) \subseteq CountedOf(evaluations, agent)
      BY <1>1, CountedIs
    <3> QED BY <3>1, <3>2, <3>3, <3>4
  <2>2. CASE agent = call.agent
    <3> DEFINE recent == Recent(evaluations, agent, now)
    <3>1. recent \subseteq 1 .. Len(RecordsOf(evaluations))
          /\ IsKept(history, RecordsOf(evaluations), recent)
      BY <1>3, <2>1, <2>2 DEF IsExactly
    <3> HIDE DEF recent
    <3>2. IsKept(Append(history, RecordOf(answer)),
                 Append(RecordsOf(evaluations), RecordOf(answer)),
                 recent \union {Len(RecordsOf(evaluations)) + 1})
      BY <1>1, <2>1, <3>1, KeptAndMore
    <3>3. callHistory'[agent] = Append(history, RecordOf(answer))
      BY <1>1, <1>2, <2>2
    <3>4. IsKept(callHistory'[agent], RecordsOf(evaluations'), recent \union {next})
      BY <1>4, <2>1, <3>2, <3>3 DEF next
    <3>5. /\ recent \union {next} \in SUBSET CountedOf(evaluations', agent)
          /\ Recent(evaluations', agent, now) \subseteq recent \union {next}
      BY <1>4, <2>1, <2>2 DEF recent
    <3> QED BY <3>4, <3>5 DEF Remembers
  <2>3. CASE agent # call.agent
    <3>1. callHistory'[agent] = callHistory[agent]
      BY <1>1, <1>2, <2>3
    <3>2. PICK kept \in SUBSET CountedOf(evaluations, agent) :
            /\ Recent(evaluations, agent, now) \subseteq kept
            /\ IsKept(callHistory'[agent], RecordsOf(evaluations), kept)
      BY <3>1 DEF SandboxInv, Remembers
    <3>3. kept \subseteq 1 .. Len(RecordsOf(evaluations))
      BY <2>1
    <3>4. IsKept(callHistory'[agent], Append(RecordsOf(evaluations), RecordOf(answer)), kept)
      BY <2>1, <3>2, <3>3, KeptWithMore
    <3>5. /\ kept \in SUBSET CountedOf(evaluations', agent)
          /\ Recent(evaluations', agent, now) \subseteq kept
          /\ IsKept(callHistory'[agent], RecordsOf(evaluations'), kept)
      BY <1>4, <2>3, <3>2, <3>4
    <3> QED BY <3>5 DEF Remembers
  <2> QED BY <2>2, <2>3
<1>7. ASSUME NEW session \in Session
      PROVE  sessionCounts'[session] = Cardinality(OfSession(evaluations', session))
  <2>1. /\ OfSession(evaluations, session) \subseteq 1 .. Len(evaluations)
        /\ Len(evaluations) \in Nat
    BY <1>1 DEF OfSession, Counted
  <2>2. IsFiniteSet(OfSession(evaluations, session)) /\ next \notin OfSession(evaluations, session)
    <3>1. IsFiniteSet(1 .. Len(evaluations))
      BY <2>1, Interval
    <3>2. next \notin 1 .. Len(evaluations)
      BY <2>1 DEF next
    <3> QED BY <2>1, <3>1, <3>2, FS_Subset
  <2>3. Cardinality(OfSession(evaluations, session) \union {next})
          = Cardinality(OfSession(evaluations, session)) + 1
    BY <2>2, FS_AddElement
  <2>4. sessionCounts[session] = Cardinality(OfSession(evaluations, session))
    BY DEF SandboxInv
  <2>5. sessionCounts'[session] = IF session = call.session THEN sessionCounts[session] + 1
                                                            ELSE sessionCounts[session]
    BY <1>1, <1>2 DEF SandboxInv, SandboxTypeOK
  <2> QED BY <1>4, <2>3, <2>4, <2>5
<1>8. now' \in Nat /\ \A agent \in CallingAgent :
                        Remembers(callHistory'[agent], evaluations', agent, now')
  BY <1>1, <1>6
<1> QED BY <1>5, <1>7, <1>8 DEF SandboxInv

\* Everything that is not a call to the sandbox leaves it, at most later.
LEMMA NothingElseTouchesTheSandbox ==
  ASSUME SandboxInv, UNCHANGED sandboxVars, now' \in Nat, now <= now'
  PROVE  SandboxInv'
<1>1. /\ callHistory' = callHistory /\ sessionCounts' = sessionCounts
      /\ evaluations' = evaluations
  BY DEF sandboxVars
<1>2. SandboxTypeOK'
  BY <1>1 DEF SandboxInv, SandboxTypeOK
<1>3. evaluations \in Seq(Evaluation) /\ now \in Nat
  BY DEF SandboxInv, SandboxTypeOK, Evaluation
<1>4. \A agent \in CallingAgent : Remembers(callHistory[agent], evaluations, agent, now')
  BY <1>3, RemembersLater DEF SandboxInv
<1> QED BY <1>1, <1>2, <1>4 DEF SandboxInv

\* The answer to a call is the one the past deserves.
LEMMA AnswerIsDeserved ==
  ASSUME SandboxInv, NEW call \in ToolCall, EvaluateToolExecution(call)
  PROVE  \E outcome :
           /\ evaluations' = Append(evaluations, AnswerTo(call, outcome))
           /\ outcome = Deserved(evaluations, call, now)
<1> DEFINE history == Pruned(callHistory[call.agent])
           recent == Recent(evaluations, call.agent, now)
           ofSession == Cardinality(OfSession(evaluations, call.session))
           granted == IF call.tool \in HighImpactTools THEN "APPROVAL" ELSE "PERMITTED"
<1>1. /\ call.agent \in CallingAgent /\ call.session \in Session
      /\ evaluations \in Seq(Evaluation)
      /\ sessionCounts \in [Session -> 0 .. MaxCallsPerSession]
  BY DEF SandboxInv, SandboxTypeOK, CallingAgent, Session, Evaluation
<1>2. /\ IsExactly(history, evaluations, call.agent, now)
      /\ Len(history) = Cardinality(recent)
      /\ Len(history) \in Nat
  <2>1. history \in Seq(CallRecord)
    BY <1>1, PrunedIsExact
  <2>2. Len(history) \in Nat
    BY <2>1
  <2> HIDE DEF history
  <2> QED BY <1>1, <2>2, PrunedIsExact DEF history
<1>3. IsPotentialLoop(history, call) <=> OneOfManyAlike(call, evaluations, recent)
  <2> HIDE DEF history
  <2> QED BY <1>1, <1>2, LoopIsRepetition
<1>4. /\ ofSession = sessionCounts[call.session] /\ ofSession \in Nat
      /\ OverSession(call.session) <=> ofSession >= MaxCallsPerSession
  <2>1. ofSession = sessionCounts[call.session]
    BY <1>1 DEF SandboxInv
  <2>2. sessionCounts[call.session] \in Nat /\ MaxCallsPerSession \in Nat
    BY <1>1, SandboxAssumption
  <2> HIDE DEF ofSession
  <2> QED BY <2>1, <2>2 DEF OverSession
<1>5. Deserved(evaluations, call, now)
        = CASE ofSession >= MaxCallsPerSession -> "SESSION_QUOTA"
            [] ofSession < MaxCallsPerSession /\ Cardinality(recent) >= MaxCallsPerMinute ->
                 "RATE_LIMIT"
            [] OTHER -> IF OneOfManyAlike(call, evaluations, recent) THEN "LOOP" ELSE granted
  BY DEF Deserved
<1> HIDE DEF history, recent, ofSession, granted
<1>6. CASE OverSession(call.session) /\ Refuse(call, history, "SESSION_QUOTA")
  <2>1. Deserved(evaluations, call, now) = "SESSION_QUOTA"
    BY <1>4, <1>5, <1>6, SandboxAssumption
  <2> QED BY <1>6, <2>1 DEF Refuse, Answer, AnswerTo
<1>7. CASE /\ ~OverSession(call.session) /\ Len(history) >= MaxCallsPerMinute
           /\ Refuse(call, history, "RATE_LIMIT")
  <2>1. Cardinality(recent) >= MaxCallsPerMinute /\ ofSession < MaxCallsPerSession
    BY <1>2, <1>4, <1>7, SandboxAssumption
  <2>2. Deserved(evaluations, call, now) = "RATE_LIMIT"
    BY <1>4, <1>5, <2>1, SandboxAssumption
  <2> QED BY <1>7, <2>2 DEF Refuse, Answer, AnswerTo
<1>8. CASE /\ ~OverSession(call.session) /\ Len(history) < MaxCallsPerMinute
           /\ IsPotentialLoop(history, call) /\ Refuse(call, history, "LOOP")
  <2>1. /\ ofSession < MaxCallsPerSession /\ ~(Cardinality(recent) >= MaxCallsPerMinute)
        /\ OneOfManyAlike(call, evaluations, recent)
    BY <1>2, <1>3, <1>4, <1>8, SandboxAssumption
  <2>2. Deserved(evaluations, call, now) = "LOOP"
    BY <1>4, <1>5, <2>1, SandboxAssumption
  <2> QED BY <1>8, <2>2 DEF Refuse, Answer, AnswerTo
<1>9. CASE /\ ~OverSession(call.session) /\ Len(history) < MaxCallsPerMinute
           /\ ~IsPotentialLoop(history, call) /\ Record(call, history)
  <2>1. evaluations' = Append(evaluations, AnswerTo(call, granted))
    BY <1>9 DEF Record, Answer, AnswerTo, granted
  <2>2. /\ ofSession < MaxCallsPerSession /\ ~(Cardinality(recent) >= MaxCallsPerMinute)
        /\ ~OneOfManyAlike(call, evaluations, recent)
    BY <1>2, <1>3, <1>4, <1>9, SandboxAssumption
  <2>3. Deserved(evaluations, call, now) = granted
    BY <1>4, <1>5, <2>2, SandboxAssumption
  <2> QED BY <2>1, <2>3
<1> QED BY <1>6, <1>7, <1>8, <1>9 DEF EvaluateToolExecution, history

\* What a call to the sandbox does.
LEMMA EvaluationKeepsTheSandbox ==
  ASSUME SandboxInv, NEW call \in ToolCall, EvaluateToolExecution(call)
  PROVE  SandboxInv'
<1> DEFINE history == Pruned(callHistory[call.agent])
<1>1. now' = now
  BY DEF EvaluateToolExecution
<1>2. ASSUME NEW outcome \in {"SESSION_QUOTA", "RATE_LIMIT", "LOOP"},
             Refuse(call, history, outcome)
      PROVE  SandboxInv'
  BY <1>1, <1>2, RefusalKeepsTheSandbox
<1>3. CASE /\ ~OverSession(call.session) /\ Len(history) < MaxCallsPerMinute
           /\ Record(call, history)
  BY <1>1, <1>3, RecordKeepsTheSandbox
<1> HIDE DEF history
<1> QED BY <1>2, <1>3 DEF EvaluateToolExecution, history

\* The sandbox in every state.
LEMMA SandboxInvHolds == AiSpec => []SandboxInv
<1>1. AiInit => SandboxInv
  <2> SUFFICES ASSUME AiInit
               PROVE  SandboxInv
    OBVIOUS
  <2>1. /\ now = 0 /\ evaluations = <<>>
        /\ callHistory = [agent \in CallingAgent |-> <<>>]
        /\ sessionCounts = [session \in Session |-> 0]
    BY DEF AiInit, SandboxInit
  <2>2. SandboxTypeOK
    BY <2>1, SandboxAssumption DEF SandboxTypeOK
  <2>3. /\ \A agent : CountedOf(evaluations, agent) = {} /\ Recent(evaluations, agent, now) = {}
        /\ \A session : OfSession(evaluations, session) = {}
        /\ RecordsOf(evaluations) = <<>>
    BY <2>1 DEF CountedOf, Recent, OfSession, Counted, RecordsOf
  <2>4. ASSUME NEW agent \in CallingAgent
        PROVE  Remembers(callHistory[agent], evaluations, agent, now)
    <3>1. Cardinality({}) = 0
      BY FS_EmptySet
    <3> DEFINE nowhere == [n \in 1 .. 0 |-> 0]
    <3>2. 1 .. 0 = {}
      OBVIOUS
    <3>3. nowhere \in Bijection(1 .. 0, {})
      BY <3>2 DEF Bijection, Injection, Surjection, IsInjective
    <3>4. <<>> = [n \in 1 .. 0 |-> <<>>[nowhere[n]]]
      BY <3>2
    <3>5. \A m, n \in 1 .. 0 : m < n => nowhere[m] < nowhere[n]
      BY <3>2
    <3> HIDE DEF nowhere
    <3>6. IsKept(<<>>, <<>>, {})
      BY <3>1, <3>3, <3>4, <3>5 DEF IsKept
    <3> QED BY <2>1, <2>3, <3>6 DEF Remembers
  <2>5. ASSUME NEW session \in Session
        PROVE  sessionCounts[session] = Cardinality(OfSession(evaluations, session))
    BY <2>1, <2>3, FS_EmptySet
  <2> QED BY <2>1, <2>2, <2>4, <2>5 DEF SandboxInv
<1>2. SandboxInv /\ [AiNext]_aiVars => SandboxInv'
  <2> SUFFICES ASSUME SandboxInv, [AiNext]_aiVars
               PROVE  SandboxInv'
    OBVIOUS
  <2>1. now \in Nat
    BY DEF SandboxInv
  <2>2. CASE SandboxNext
    BY <2>2, EvaluationKeepsTheSandbox DEF SandboxNext
  <2>3. CASE UNCHANGED <<now, sandboxVars>>
    BY <2>1, <2>3, NothingElseTouchesTheSandbox
  <2>4. CASE AiTick
    BY <2>1, <2>4, NothingElseTouchesTheSandbox DEF AiTick, Advance
  <2> QED BY <2>2, <2>3, <2>4 DEF AiNext, aiVars, RejectAiRequest
<1> QED BY <1>1, <1>2, PTL DEF AiSpec

\* Every tool call of an AI agent is answered as the whole past deserves, although
\* the sandbox keeps only the records of a window, and those of a refused call not at
\* all: the quota of the agent in every window, that of the session for good, and no
\* repetition that other agents, other tools or refusals between could hide.
THEOREM AnswersFollow == AiSpec => AnswersFollowThePast
<1> DEFINE Follows ==
      evaluations' # evaluations =>
        LET answer == evaluations'[Len(evaluations')]
        IN  answer.outcome = Deserved(evaluations, answer.call, answer.at)
<1>1. SandboxInv /\ [AiNext]_aiVars => [Follows]_sandboxVars
  <2> SUFFICES ASSUME SandboxInv, [AiNext]_aiVars, evaluations' # evaluations
               PROVE  LET answer == evaluations'[Len(evaluations')]
                      IN  answer.outcome = Deserved(evaluations, answer.call, answer.at)
    OBVIOUS
  <2>1. SandboxNext
    BY DEF AiNext, AiTick, RejectAiRequest, aiVars, sandboxVars
  <2>2. PICK call \in ToolCall :
          evaluations' = Append(evaluations, AnswerTo(call, Deserved(evaluations, call, now)))
    BY <2>1, AnswerIsDeserved DEF SandboxNext
  <2> DEFINE outcome == Deserved(evaluations, call, now)
  <2>3. evaluations \in Seq(Evaluation)
    BY DEF SandboxInv, SandboxTypeOK, Evaluation
  <2>4. evaluations'[Len(evaluations')] = AnswerTo(call, outcome)
    <3>1. \A x : Append(evaluations, x)[Len(Append(evaluations, x))] = x
      BY <2>3
    <3> QED BY <2>2, <3>1
  <2> QED BY <2>2, <2>4 DEF AnswerTo
<1> QED BY <1>1, SandboxInvHolds, PTL DEF AiSpec, AnswersFollowThePast

-----------------------------------------------------------------------------
(* Folds, which are what the community modules define sums, maxima and
   replacements by. *)

\* A number that is reached by steps of one from zero.
LEMMA Reached ==
  ASSUME NEW S, 0 \in S, \A n \in Nat : n \in S => n + 1 \in S
  PROVE  Nat \subseteq S
<1> SUFFICES ASSUME ~(Nat \subseteq S)
             PROVE  FALSE
  OBVIOUS
<1>1. PICK n \in Nat \ S : \A m \in Nat \ S : n <= m
  <2>1. Nat \ S \subseteq Nat /\ Nat \ S # {}
    OBVIOUS
  <2> QED BY <2>1, LeastNatural
<1>2. n # 0 /\ n - 1 \in Nat /\ n = (n - 1) + 1
  BY <1>1
<1>3. n - 1 \in S
  BY <1>1, <1>2
<1> QED BY <1>1, <1>2, <1>3

\* The value of a fold over each set of elements, the elements taken as pick tells.
IsFold(t, M, base, pick, step) ==
  \A s \in SUBSET M :
    t[s] = IF s = {} THEN base ELSE step[<<pick[s], t[s \ {pick[s]}]>>]

\* There is such a value.
LEMMA FoldExists ==
  ASSUME NEW M, IsFiniteSet(M), NEW V, NEW base \in V, NEW step \in [M \X V -> V],
         NEW pick, \A s \in SUBSET M : s # {} => pick[s] \in s
  PROVE  \E t \in [SUBSET M -> V] : IsFold(t, M, base, pick, step)
<1> DEFINE Unfolds(t, s) ==
             t[s] = IF s = {} THEN base ELSE step[<<pick[s], t[s \ {pick[s]}]>>]
           UpTo(n) == \E t \in [SUBSET M -> V] :
                        \A s \in SUBSET M : Cardinality(s) <= n => Unfolds(t, s)
           All == {n \in Nat : UpTo(n)}
<1>1. ASSUME NEW s \in SUBSET M
      PROVE  IsFiniteSet(s) /\ Cardinality(s) \in Nat /\ Cardinality(s) <= Cardinality(M)
  BY FS_Subset, FS_CardinalityType
<1>2. UpTo(0)
  <2> DEFINE t == [s \in SUBSET M |-> base]
  <2>1. ASSUME NEW s \in SUBSET M, Cardinality(s) <= 0
        PROVE  s = {}
    <3>1. Cardinality(s) = 0
      BY <1>1, <2>1
    <3> QED BY <1>1, <3>1, FS_EmptySet
  <2>2. t \in [SUBSET M -> V] /\ \A s \in SUBSET M : t[s] = base
    OBVIOUS
  <2> HIDE DEF t
  <2> QED BY <2>1, <2>2
<1>3. ASSUME NEW n \in Nat, UpTo(n)
      PROVE  UpTo(n + 1)
  <2>1. PICK t \in [SUBSET M -> V] :
          \A s \in SUBSET M : Cardinality(s) <= n => Unfolds(t, s)
    BY <1>3
  <2> DEFINE u == [s \in SUBSET M |->
                     IF s = {} THEN base ELSE step[<<pick[s], t[s \ {pick[s]}]>>]]
  <2>2. ASSUME NEW s \in SUBSET M, s # {}
        PROVE  pick[s] \in M /\ s \ {pick[s]} \in SUBSET M
               /\ Cardinality(s \ {pick[s]}) = Cardinality(s) - 1
    <3>1. pick[s] \in s
      BY <2>2
    <3> QED BY <1>1, <3>1, FS_RemoveElement
  <2>3. u \in [SUBSET M -> V]
    <3>1. ASSUME NEW s \in SUBSET M, s # {}
          PROVE  step[<<pick[s], t[s \ {pick[s]}]>>] \in V
      <4>1. <<pick[s], t[s \ {pick[s]}]>> \in M \X V
        BY <2>2, <3>1
      <4> QED BY <4>1
    <3> QED BY <3>1
  <2>4. ASSUME NEW s \in SUBSET M, Cardinality(s) <= n
        PROVE  u[s] = t[s]
    BY <2>1, <2>4
  <2>5. ASSUME NEW s \in SUBSET M, Cardinality(s) <= n + 1
        PROVE  Unfolds(u, s)
    <3>1. CASE s = {}
      BY <3>1
    <3>2. CASE s # {}
      <4>1. Cardinality(s \ {pick[s]}) <= n /\ s \ {pick[s]} \in SUBSET M
        BY <1>1, <2>2, <2>5, <3>2
      <4>2. u[s \ {pick[s]}] = t[s \ {pick[s]}]
        BY <2>4, <4>1
      <4>3. u[s] = step[<<pick[s], t[s \ {pick[s]}]>>]
        BY <3>2
      <4> HIDE DEF u
      <4> QED BY <3>2, <4>2, <4>3
    <3> QED BY <3>1, <3>2
  <2> HIDE DEF u, Unfolds
  <2> QED BY <2>3, <2>5
<1> HIDE DEF UpTo
<1>4. Nat \subseteq All
  <2>1. 0 \in All /\ \A n \in Nat : n \in All => n + 1 \in All
    BY <1>2, <1>3
  <2> HIDE DEF All
  <2> QED BY <2>1, Reached
<1>5. UpTo(Cardinality(M))
  BY <1>4, FS_CardinalityType
<1> QED BY <1>1, <1>5 DEF UpTo, IsFold
-----------------------------------------------------------------------------
(* The detector of prompt injections. *)

\* The greatest of some naturals.
LEMMA MaxIs ==
  ASSUME NEW S, S \subseteq Nat, S # {}, NEW bound \in Nat, \A x \in S : x <= bound
  PROVE  Max(S) \in S /\ \A y \in S : Max(S) >= y
<1> DEFINE Gaps == {n \in Nat : bound - n \in S}
<1>1. Gaps \subseteq Nat /\ Gaps # {}
  <2>1. PICK x \in S : TRUE
    OBVIOUS
  <2>2. bound - x \in Gaps
    BY <2>1
  <2> QED BY <2>2
<1>2. PICK gap \in Gaps : \A other \in Gaps : gap <= other
  <2> HIDE DEF Gaps
  <2> QED BY <1>1, LeastNatural
<1>3. bound - gap \in S /\ \A y \in S : bound - gap >= y
  <2>1. ASSUME NEW y \in S
        PROVE  bound - gap >= y
    <3>1. bound - y \in Gaps
      OBVIOUS
    <3>2. gap <= bound - y /\ gap \in Nat /\ y \in Nat
      BY <1>2, <3>1
    <3> QED BY <3>2
  <2> QED BY <1>2, <2>1
<1>4. \E x \in S : \A y \in S : x >= y
  BY <1>3
<1> HIDE DEF Gaps
<1> QED BY <1>4, Zenon DEF Max

\* How much one match counts.
LEMMA StrengthIs ==
  ASSUME NEW p \in Prompt, NEW m \in Matches(p)
  PROVE  Strength(m) \in Nat /\ 68000 <= Strength(m) /\ Strength(m) <= 95000
<1>1. \A r \in Rule : Weight[r] \in Nat /\ 80 <= Weight[r] /\ Weight[r] <= 95
  BY DEF Rule, Weight
<1>2. CASE m \in {"direct"} \X p.direct
  <2>1. PICK rule \in p.direct : m = <<"direct", rule>>
    BY <1>2
  <2>2. Weight[rule] \in Nat /\ 80 <= Weight[rule] /\ Weight[rule] <= 95
    BY <1>1 DEF Prompt
  <2>3. m[1] = "direct" /\ m[2] = rule
    BY <2>1
  <2>4. Strength(m) = Weight[rule] * 1000
    BY <2>3, SMT DEF Strength
  <2> QED BY <2>2, <2>4
<1>3. CASE m \in {"leetspeak"} \X (p.leetspeak \ p.direct)
  <2>1. PICK rule \in p.leetspeak : m = <<"leetspeak", rule>>
    BY <1>3
  <2>2. Weight[rule] \in Nat /\ 80 <= Weight[rule] /\ Weight[rule] <= 95
    BY <1>1 DEF Prompt
  <2>3. m[1] = "leetspeak" /\ m[2] = rule
    BY <2>1
  <2>4. Strength(m) = Weight[rule] * 900
    BY <2>3, SMT DEF Strength
  <2> QED BY <2>2, <2>4
<1>4. CASE m \in {"rot13"} \X (p.rot13 \ p.direct)
  <2>1. PICK rule \in p.rot13 : m = <<"rot13", rule>>
    BY <1>4
  <2>2. Weight[rule] \in Nat /\ 80 <= Weight[rule] /\ Weight[rule] <= 95
    BY <1>1 DEF Prompt
  <2>3. m[1] = "rot13" /\ m[2] = rule
    BY <2>1
  <2>4. Strength(m) = Weight[rule] * 850
    BY <2>3, SMT DEF Strength
  <2> QED BY <2>2, <2>4
<1>5. CASE m = <<"base64", "any">>
  BY <1>5 DEF Strength
<1>6. \/ m \in {"direct"} \X p.direct
      \/ m \in {"leetspeak"} \X (p.leetspeak \ p.direct)
      \/ m \in {"rot13"} \X (p.rot13 \ p.direct)
      \/ m = <<"base64", "any">>
  BY Zenon DEF Matches
<1> QED BY <1>2, <1>3, <1>4, <1>5, <1>6, SMT

\* There are finitely many rules.
LEMMA RulesAreFinite == IsFiniteSet(Rule)
<1> DEFINE names ==
      <<"ignore_instructions", "system_override",
        "bypass_safety_guardrails", "unbound_freedom",
        "chatml_tokens", "inst_sys_tokens", "comment_system_spoof", "raw_role_markers",
        "authority_impersonation", "priority_override",
        "simulated_system_envelope", "developer_override_authority",
        "dan_jailbreak", "developer_mode_jailbreak", "unrestricted_persona",
        "hypothetical_evil_bypass", "extract_system_prompt", "print_internal_rules">>
<1>1. \A r \in Rule : \E i \in 1 .. 18 : names[i] = r
  BY DEF Rule, Weight
<1>2. \A i \in 1 .. 18 : names[i] \in Rule
  BY DEF Rule, Weight
<1> HIDE DEF names
<1> DEFINE name == [i \in 1 .. 18 |-> names[i]]
<1>3. name \in Surjection(1 .. 18, Rule)
  <2>1. \A i \in 1 .. 18 : name[i] = names[i]
    OBVIOUS
  <2>2. name \in [1 .. 18 -> Rule]
    BY <1>2
  <2>3. \A r \in Rule : \E i \in 1 .. 18 : name[i] = r
    BY <1>1, <2>1
  <2> HIDE DEF name
  <2> QED BY <2>2, <2>3, Zenon DEF Surjection
<1>4. IsFiniteSet(1 .. 18)
  <2>1. \A n \in Nat : IsFiniteSet(1 .. n)
    BY FS_Interval
  <2> QED BY <2>1
<1> HIDE DEF name
<1> QED BY <1>3, <1>4, FS_Surjection

\* There are finitely many matches, and at least one if anything is detected.
LEMMA MatchesAre ==
  ASSUME NEW p \in Prompt
  PROVE  /\ IsFiniteSet(Matches(p))
         /\ Detected(p) => Matches(p) # {}
<1>1. /\ IsFiniteSet({"direct", "leetspeak", "rot13", "base64"})
      /\ IsFiniteSet(Rule \union {"any"})
  <2>1. /\ IsFiniteSet({"direct"}) /\ IsFiniteSet({"leetspeak"})
        /\ IsFiniteSet({"rot13"}) /\ IsFiniteSet({"base64"}) /\ IsFiniteSet({"any"})
    BY FS_Singleton
  <2>2. IsFiniteSet({"direct"} \union {"leetspeak"} \union {"rot13"} \union {"base64"})
    BY <2>1, FS_Union
  <2>3. {"direct", "leetspeak", "rot13", "base64"}
          = {"direct"} \union {"leetspeak"} \union {"rot13"} \union {"base64"}
    OBVIOUS
  <2> QED BY <2>1, <2>2, <2>3, RulesAreFinite, FS_Union
<1>2. IsFiniteSet({"direct", "leetspeak", "rot13", "base64"} \X (Rule \union {"any"}))
  BY <1>1, FS_Product
<1>3. Matches(p) \in SUBSET ({"direct", "leetspeak", "rot13", "base64"} \X (Rule \union {"any"}))
  BY DEF Matches, Prompt
<1>4. Detected(p) => Matches(p) # {}
  <2>1. CASE p.direct # {}
    <3>1. PICK rule \in p.direct : TRUE
      BY <2>1
    <3>2. <<"direct", rule>> \in Matches(p)
      BY Zenon DEF Matches
    <3> QED BY <3>2
  <2>2. CASE p.direct = {} /\ p.leetspeak # {}
    <3>1. PICK rule \in p.leetspeak : TRUE
      BY <2>2
    <3>2. rule \in p.leetspeak \ p.direct
      BY <2>2
    <3>3. <<"leetspeak", rule>> \in Matches(p)
      BY <3>2, Zenon DEF Matches
    <3> QED BY <3>3
  <2>3. CASE p.direct = {} /\ p.rot13 # {}
    <3>1. PICK rule \in p.rot13 : TRUE
      BY <2>3
    <3>2. rule \in p.rot13 \ p.direct
      BY <2>3
    <3>3. <<"rot13", rule>> \in Matches(p)
      BY <3>2, Zenon DEF Matches
    <3> QED BY <3>3
  <2>4. CASE p.base64 # {}
    <3>1. <<"base64", "any">> \in Matches(p)
      BY <2>4, Zenon DEF Matches
    <3> QED BY <3>1
  <2> QED BY <2>1, <2>2, <2>3, <2>4 DEF Detected
<1> QED BY <1>2, <1>3, <1>4, FS_Subset

\* A sum is at least each of its terms.
LEMMA SumIsAtLeast ==
  ASSUME NEW M, IsFiniteSet(M), \A m \in M : Strength(m) \in Nat
  PROVE  /\ MapThenSumSet(Strength, M) \in Nat
         /\ \A m \in M : MapThenSumSet(Strength, M) >= Strength(m)
<1> DEFINE sum[s \in SUBSET M] ==
             IF s = {} THEN 0
               ELSE Strength(CHOOSE x \in s : TRUE) + sum[s \ {CHOOSE x \in s : TRUE}]
           pick == [s \in SUBSET M |-> CHOOSE x \in s : TRUE]
           step == [pair \in M \X Nat |-> Strength(pair[1]) + pair[2]]
           Unfolded(t) == [s \in SUBSET M |->
                             IF s = {} THEN 0
                               ELSE Strength(CHOOSE x \in s : TRUE)
                                      + t[s \ {CHOOSE x \in s : TRUE}]]
<1>1. MapThenSumSet(Strength, M) = sum[M]
  BY Zenon DEF MapThenSumSet, MapThenFoldSet
<1>2. sum = CHOOSE t : t = Unfolded(t)
  OBVIOUS
<1>3. ASSUME NEW s \in SUBSET M, s # {}
      PROVE  pick[s] \in s /\ pick[s] = CHOOSE x \in s : TRUE
  BY <1>3
<1>4. step \in [M \X Nat -> Nat]
  <2>1. \A pair \in M \X Nat : Strength(pair[1]) + pair[2] \in Nat
    OBVIOUS
  <2> QED BY <2>1
<1>5. \A x \in M, y \in Nat : step[<<x, y>>] = Strength(x) + y
  OBVIOUS
<1> HIDE DEF sum, pick, step
<1>6. PICK t \in [SUBSET M -> Nat] : IsFold(t, M, 0, pick, step)
  BY <1>3, <1>4, FoldExists
<1>7. t = Unfolded(t)
  <2>1. ASSUME NEW s \in SUBSET M
        PROVE  t[s] = IF s = {} THEN 0
                        ELSE Strength(CHOOSE x \in s : TRUE) + t[s \ {CHOOSE x \in s : TRUE}]
    <3>1. CASE s = {}
      BY <1>6, <3>1 DEF IsFold
    <3>2. CASE s # {}
      <4>1. t[s] = step[<<pick[s], t[s \ {pick[s]}]>>]
        BY <1>6, <3>2 DEF IsFold
      <4>2. pick[s] \in M /\ t[s \ {pick[s]}] \in Nat
        BY <1>3, <3>2
      <4>3. t[s] = Strength(pick[s]) + t[s \ {pick[s]}]
        BY <1>5, <4>1, <4>2
      <4> QED BY <1>3, <3>2, <4>3
    <3> QED BY <3>1, <3>2
  <2> QED BY <2>1
<1>8. sum = Unfolded(sum)
  <2> HIDE DEF Unfolded
  <2> QED BY <1>2, <1>7
<1> DEFINE Suits(s) == sum[s] \in Nat /\ \A m \in s : sum[s] >= Strength(m)
           Sizes == {n \in Nat : \A s \in SUBSET M : Cardinality(s) <= n => Suits(s)}
<1>9. \A s \in SUBSET M : IsFiniteSet(s) /\ Cardinality(s) \in Nat
  BY FS_Subset, FS_CardinalityType
<1>10. ASSUME NEW s \in SUBSET M
       PROVE  /\ s = {} => sum[s] = 0
             /\ s # {} => sum[s] = Strength(pick[s]) + sum[s \ {pick[s]}]
  <2>1. sum[s] = IF s = {} THEN 0
                   ELSE Strength(CHOOSE x \in s : TRUE) + sum[s \ {CHOOSE x \in s : TRUE}]
    BY <1>8
  <2> QED BY <1>3, <2>1
<1> HIDE DEF Unfolded
<1>11. 0 \in Sizes
  <2> SUFFICES ASSUME NEW s \in SUBSET M, Cardinality(s) <= 0
               PROVE  Suits(s)
    OBVIOUS
  <2>1. Cardinality(s) = 0
    BY <1>9
  <2>2. s = {}
    BY <1>9, <2>1, FS_EmptySet
  <2>3. sum[s] = 0
    BY <1>8, <2>2 DEF Unfolded
  <2>4. \A m : m \notin s
    BY <2>2
  <2> QED BY <2>3, <2>4
<1>12. ASSUME NEW n \in Nat, n \in Sizes
       PROVE  n + 1 \in Sizes
  <2> SUFFICES ASSUME NEW s \in SUBSET M, Cardinality(s) <= n + 1
               PROVE  Suits(s)
    OBVIOUS
  <2>1. CASE s = {}
    <3>1. sum[s] = 0
      BY <1>8, <2>1 DEF Unfolded
    <3>2. \A m : m \notin s
      BY <2>1
    <3> QED BY <3>1, <3>2
  <2>2. CASE s # {}
    <3> DEFINE rest == s \ {pick[s]}
    <3>1. pick[s] \in s /\ rest \in SUBSET M
      BY <1>3, <2>2
    <3>2. Cardinality(rest) = Cardinality(s) - 1
      BY <1>9, <3>1, FS_RemoveElement
    <3>3. Cardinality(rest) <= n
      <4> HIDE DEF rest
      <4> QED BY <1>9, <3>2
    <3>4. Suits(rest)
      BY <1>12, <3>1, <3>3
    <3>5. sum[s] = Strength(pick[s]) + sum[rest]
      BY <1>10, <2>2
    <3>6. Strength(pick[s]) \in Nat /\ \A m \in s : m = pick[s] \/ m \in rest
      BY <3>1
    <3>7. \A m \in s : Strength(m) \in Nat
      OBVIOUS
    <3> HIDE DEF rest
    <3> QED BY <3>4, <3>5, <3>6, <3>7
  <2> QED BY <2>1, <2>2
<1>13. Suits(M)
  <2>1. Nat \subseteq Sizes
    <3> HIDE DEF Sizes
    <3> QED BY <1>11, <1>12, Reached
  <2>2. Cardinality(M) \in Sizes
    BY <1>9, <2>1
  <2> QED BY <2>2
<1> QED BY <1>1, <1>13

\* The smaller of two.
LEMMA MinIs ==
  ASSUME NEW a \in Nat, NEW b \in Nat
  PROVE  Min({a, b}) = IF a <= b THEN a ELSE b
<1> DEFINE smaller == IF a <= b THEN a ELSE b
<1>1. /\ smaller \in {a, b} /\ \A y \in {a, b} : smaller <= y
      /\ \A x \in {a, b} : (\A y \in {a, b} : x <= y) => x = smaller
  OBVIOUS
<1> HIDE DEF smaller
<1>2. Min({a, b}) = smaller
  BY <1>1, Zenon DEF Min
<1> QED BY <1>2 DEF smaller

\* A prompt is blocked if any rule matches it in any form, and passes otherwise.
LEMMA DetectionBlocks ==
  ASSUME NEW p \in Prompt
  PROVE  Action(p) = IF Detected(p) THEN "BLOCK" ELSE "ALLOW"
<1>1. CASE Detected(p)
  <2> DEFINE strengths == {Strength(m) : m \in Matches(p)}
             strongest == Max(strengths)
             sum == MapThenSumSet(Strength, Matches(p))
             others == (sum - strongest) \div 10
             counted == Min({20000, others})
             total == Min({100000, strongest + counted})
  <2>1. \A m \in Matches(p) :
          Strength(m) \in Nat /\ 68000 <= Strength(m) /\ Strength(m) <= 95000
    BY StrengthIs
  <2>2. strengths \subseteq Nat /\ strengths # {} /\ \A x \in strengths : x <= 95000
    BY <1>1, <2>1, MatchesAre
  <2>3. strongest \in strengths
    <3> HIDE DEF strengths
    <3>1. PICK bound : bound = 95000
      OBVIOUS
    <3>2. bound \in Nat /\ \A x \in strengths : x <= bound
      BY <2>2, <3>1
    <3>3. strengths \subseteq Nat /\ strengths # {}
      BY <2>2
    <3>4. Max(strengths) \in strengths
      BY <3>2, <3>3, MaxIs
    <3> QED BY <3>4
  <2>4. sum \in Nat /\ sum >= strongest /\ strongest \in Nat /\ 68000 <= strongest
    <3>1. IsFiniteSet(Matches(p)) /\ \A m \in Matches(p) : Strength(m) \in Nat
      BY <2>1, MatchesAre
    <3>2. sum \in Nat /\ \A m \in Matches(p) : sum >= Strength(m)
      BY <3>1, SumIsAtLeast
    <3>3. PICK m \in Matches(p) : strongest = Strength(m)
      BY <2>3
    <3> HIDE DEF sum, strongest
    <3> QED BY <2>1, <3>2, <3>3
  <2> HIDE DEF sum, strongest, strengths
  <2>5. others \in Nat
    BY <2>4
  <2> HIDE DEF others
  <2>6. counted \in Nat
    BY <2>5, MinIs
  <2> HIDE DEF counted
  <2>7. total \in Nat /\ 68000 <= total
    <3>1. strongest + counted \in Nat
      BY <2>4, <2>6
    <3>2. total = IF 100000 <= strongest + counted THEN 100000 ELSE strongest + counted
      BY <3>1, MinIs
    <3> HIDE DEF total
    <3> QED BY <2>4, <2>6, <3>2
  <2> HIDE DEF total
  <2>8. Confidence(p) = Rounded(total)
    BY <1>1 DEF Confidence, total, counted, others, sum, strongest, strengths
  <2>9. Rounded(total) \in Nat /\ Rounded(total) >= 65
    BY <2>7 DEF Rounded
  <2>10. Confidence(p) >= 65 /\ ~(Confidence(p) < 65)
    BY <2>8, <2>9
  <2>11. Action(p) = "BLOCK"
    BY <2>10 DEF Action
  <2> QED BY <1>1, <2>11
<1>2. CASE ~Detected(p)
  BY <1>2 DEF Confidence, Action
<1> QED BY <1>1, <1>2

-----------------------------------------------------------------------------
(* The armor: reading a text with a phrase replaced. *)

\* A fold over sets of positions that takes the greatest first.
IsPrefixFold(t, n, base, step) ==
  t = [s \in SUBSET (1 .. n) |-> IF s = {} THEN base ELSE step[<<Max(s), t[s \ {Max(s)}]>>]]

\* There is one.
LEMMA FoldOfPrefixes ==
  ASSUME NEW n \in Nat, NEW V, NEW base \in V, NEW step \in [(1 .. n) \X V -> V]
  PROVE  \E t \in [SUBSET (1 .. n) -> V] : IsPrefixFold(t, n, base, step)
<1> DEFINE pick == [s \in SUBSET (1 .. n) |-> Max(s)]
<1>1. ASSUME NEW s \in SUBSET (1 .. n), s # {}
      PROVE  pick[s] \in s /\ pick[s] = Max(s)
  <2>1. s \subseteq Nat /\ \A x \in s : x <= n
    OBVIOUS
  <2>2. Max(s) \in s
    BY <1>1, <2>1, MaxIs
  <2> QED BY <2>2
<1> HIDE DEF pick
<1>2. IsFiniteSet(1 .. n)
  BY FS_Interval
<1>3. PICK t \in [SUBSET (1 .. n) -> V] : IsFold(t, 1 .. n, base, pick, step)
  BY <1>1, <1>2, FoldExists
<1>4. ASSUME NEW s \in SUBSET (1 .. n)
      PROVE  t[s] = IF s = {} THEN base ELSE step[<<Max(s), t[s \ {Max(s)}]>>]
  <2>1. t[s] = IF s = {} THEN base ELSE step[<<pick[s], t[s \ {pick[s]}]>>]
    BY <1>3 DEF IsFold
  <2> QED BY <1>1, <2>1
<1>5. t = [s \in SUBSET (1 .. n) |->
             IF s = {} THEN base ELSE step[<<Max(s), t[s \ {Max(s)}]>>]]
  BY <1>4
<1> QED BY <1>5 DEF IsPrefixFold

\* The greatest of the first numbers is the last of them.
LEMMA MaxOfPrefix ==
  ASSUME NEW k \in Nat, k # 0
  PROVE  Max(1 .. k) = k /\ (1 .. k) \ {k} = 1 .. k - 1
<1>1. /\ k \in 1 .. k /\ \A y \in 1 .. k : k >= y
      /\ \A x \in 1 .. k : (\A y \in 1 .. k : x >= y) => x = k
  OBVIOUS
<1>2. Max(1 .. k) = k
  BY <1>1, Zenon DEF Max
<1> QED BY <1>2

\* A function of sets of positions with which the greatest comes last.
FoldsUpTo(fold, n, V, base, step) ==
  /\ fold[{}] = base
  /\ \A s \in SUBSET (1 .. n) : s # {} /\ fold[s \ {Max(s)}] \in V =>
       fold[s] = step[<<Max(s), fold[s \ {Max(s)}]>>]

\* One step after the other, from the first position on.
StepsUpTo(done, n, V, base, step, result) ==
  /\ done \in [0 .. n -> V]
  /\ done[0] = base
  /\ done[n] = result
  /\ \A k \in 1 .. n : done[k] = step[<<k, done[k - 1]>>]

\* Such a fold goes from the first position to the last, one step after the other.
LEMMA StepByStep ==
  ASSUME NEW n \in Nat, NEW V, NEW base \in V, NEW step \in [(1 .. n) \X V -> V],
         NEW fold, FoldsUpTo(fold, n, V, base, step)
  PROVE  \E done : StepsUpTo(done, n, V, base, step, fold[1 .. n])
<1> DEFINE done == [k \in 0 .. n |-> fold[1 .. k]]
           Typed == {k \in Nat : k <= n => fold[1 .. k] \in V}
<1>1. 1 .. 0 = {} /\ 0 \in 0 .. n /\ n \in 0 .. n
  OBVIOUS
<1>2. ASSUME NEW k \in 1 .. n, fold[1 .. k - 1] \in V
      PROVE  fold[1 .. k] = step[<<k, fold[1 .. k - 1]>>]
  <2>1. /\ 1 .. k \in SUBSET (1 .. n) /\ 1 .. k # {} /\ k \in Nat /\ k # 0
    <3>1. k \in Nat /\ k # 0 /\ k <= n /\ k \in 1 .. k
      OBVIOUS
    <3>2. \A i \in 1 .. k : i \in 1 .. n
      BY <3>1
    <3> QED BY <3>1, <3>2
  <2>2. Max(1 .. k) = k /\ (1 .. k) \ {k} = 1 .. k - 1
    BY <2>1, MaxOfPrefix
  <2>3. fold[(1 .. k) \ {Max(1 .. k)}] \in V
    BY <1>2, <2>2
  <2>4. fold[1 .. k] = step[<<Max(1 .. k), fold[(1 .. k) \ {Max(1 .. k)}]>>]
    BY <2>1, <2>3 DEF FoldsUpTo
  <2> QED BY <2>2, <2>4
<1>3. 0 \in Typed
  BY <1>1 DEF FoldsUpTo
<1>4. ASSUME NEW k \in Nat, k \in Typed
      PROVE  k + 1 \in Typed
  <2> SUFFICES ASSUME k + 1 <= n
               PROVE  fold[1 .. k + 1] \in V
    OBVIOUS
  <2>1. k + 1 \in 1 .. n /\ k + 1 - 1 = k /\ k <= n
    OBVIOUS
  <2>2. fold[1 .. k] \in V
    BY <1>4, <2>1
  <2>3. fold[1 .. k + 1] = step[<<k + 1, fold[1 .. k]>>]
    BY <1>2, <2>1, <2>2
  <2> QED BY <2>1, <2>2, <2>3
<1>5. \A k \in 0 .. n : fold[1 .. k] \in V
  <2>1. Nat \subseteq Typed
    <3> HIDE DEF Typed
    <3> QED BY <1>3, <1>4, Reached
  <2>2. \A k \in 0 .. n : k \in Nat /\ k <= n
    OBVIOUS
  <2> QED BY <2>1, <2>2
<1>6. done \in [0 .. n -> V]
  BY <1>5
<1>7. \A k \in 1 .. n : done[k] = step[<<k, done[k - 1]>>]
  <2>1. \A k \in 1 .. n : k \in 0 .. n /\ k - 1 \in 0 .. n
    OBVIOUS
  <2> QED BY <1>2, <1>5, <2>1
<1>8. done[0] = base /\ fold[1 .. n] = done[n]
  BY <1>1 DEF FoldsUpTo
<1> HIDE DEF done
<1> QED BY <1>6, <1>7, <1>8 DEF StepsUpTo

\* What has been read of a text, word by word, with a phrase replaced.
IsReading(done, text, phrase) ==
  /\ done \in [0 .. Len(text) -> Seq(Word)]
  /\ done[0] = <<>>
  /\ \A k \in 1 .. Len(text) : done[k] = ReadOn(phrase, done[k - 1], text[k])

\* One word more is a sequence of words again.
LEMMA ReadOnIs ==
  ASSUME NEW phrase \in Seq(Word), NEW done \in Seq(Word), NEW word \in Word
  PROVE  ReadOn(phrase, done, word) \in Seq(Word)
<1>1. Append(done, word) \in Seq(Word) /\ REDACTED \in Word
  <2>1. REDACTED \in Word
    BY MarkersAssumption
  <2>2. \A S : \A s \in Seq(S), x \in S : Append(s, x) \in Seq(S)
    OBVIOUS
  <2>3. Append(done, word) \in Seq(Word)
    BY <2>2
  <2> QED BY <2>1, <2>3
<1>2. SubSeq(Append(done, word), 1, Len(Append(done, word)) - Len(phrase)) \in Seq(Word)
  <2>1. \A s \in Seq(Word), m \in Int : m <= Len(s) => SubSeq(s, 1, m) \in Seq(Word)
    OBVIOUS
  <2>2. Len(Append(done, word)) - Len(phrase) \in Int
        /\ Len(Append(done, word)) - Len(phrase) <= Len(Append(done, word))
    <3>1. Len(Append(done, word)) \in Nat /\ Len(phrase) \in Nat
      BY <1>1
    <3> QED BY <3>1
  <2> QED BY <1>1, <2>1, <2>2
<1>3. \A S : \A s \in Seq(S), x \in S : Append(s, x) \in Seq(S)
  OBVIOUS
<1>4. Append(SubSeq(Append(done, word), 1, Len(Append(done, word)) - Len(phrase)), REDACTED)
        \in Seq(Word)
  BY <1>1, <1>2, <1>3
<1> QED BY <1>1, <1>4, Zenon DEF ReadOn

\* Replacing a phrase is reading the text to its end.
LEMMA WithoutIsRead ==
  ASSUME NEW text \in Seq(Word), NEW phrase \in Seq(Word)
  PROVE  \E done : IsReading(done, text, phrase) /\ Without(text, phrase) = done[Len(text)]
<1> DEFINE n == Len(text)
           fold[s \in SUBSET (DOMAIN text)] ==
             IF s = {} THEN <<>> ELSE ReadOn(phrase, fold[s \ {Max(s)}], text[Max(s)])
           Unfolded(t) == [s \in SUBSET (1 .. n) |->
             IF s = {} THEN <<>> ELSE ReadOn(phrase, t[s \ {Max(s)}], text[Max(s)])]
           step == [pair \in (1 .. n) \X Seq(Word) |-> ReadOn(phrase, pair[2], text[pair[1]])]
<1>1. Without(text, phrase) = fold[DOMAIN text]
  BY Zenon DEF Without, FoldLeft, MapThenFoldSet
<1>2. DOMAIN text = 1 .. n /\ n \in Nat /\ \A i \in 1 .. n : text[i] \in Word
  OBVIOUS
<1>3. fold = CHOOSE t : t = Unfolded(t)
  <2>1. fold = CHOOSE t : t = [s \in SUBSET (DOMAIN text) |->
                 IF s = {} THEN <<>> ELSE ReadOn(phrase, t[s \ {Max(s)}], text[Max(s)])]
    OBVIOUS
  <2> HIDE DEF fold
  <2> QED BY <1>2, <2>1
<1> HIDE DEF fold, n
<1>4. step \in [(1 .. n) \X Seq(Word) -> Seq(Word)]
  <2>1. \A pair \in (1 .. n) \X Seq(Word) :
          ReadOn(phrase, pair[2], text[pair[1]]) \in Seq(Word)
    BY <1>2, ReadOnIs
  <2> QED BY <2>1
<1>5. \A i \in 1 .. n, done \in Seq(Word) : step[<<i, done>>] = ReadOn(phrase, done, text[i])
  OBVIOUS
<1> HIDE DEF step
<1>6. PICK t \in [SUBSET (1 .. n) -> Seq(Word)] : IsPrefixFold(t, n, <<>>, step)
  <2>1. <<>> \in Seq(Word)
    OBVIOUS
  <2> QED BY <1>2, <1>4, <2>1, FoldOfPrefixes
<1>7. t = Unfolded(t)
  <2>1. ASSUME NEW s \in SUBSET (1 .. n)
        PROVE  t[s] = IF s = {} THEN <<>> ELSE ReadOn(phrase, t[s \ {Max(s)}], text[Max(s)])
    <3>1. CASE s = {}
      BY <1>6, <3>1 DEF IsPrefixFold
    <3>2. CASE s # {}
      <4>1. s \subseteq Nat /\ \A x \in s : x <= n
        BY <1>2
      <4>2. Max(s) \in 1 .. n
        BY <1>2, <3>2, <4>1, MaxIs
      <4>3. t[s \ {Max(s)}] \in Seq(Word)
        OBVIOUS
      <4>4. t[s] = step[<<Max(s), t[s \ {Max(s)}]>>]
        BY <1>6, <3>2 DEF IsPrefixFold
      <4> QED BY <1>5, <3>2, <4>2, <4>3, <4>4
    <3> QED BY <3>1, <3>2
  <2> QED BY <2>1
<1>8. fold = Unfolded(fold)
  <2> HIDE DEF Unfolded
  <2> QED BY <1>3, <1>7
<1>9. /\ fold[{}] = <<>>
      /\ \A s \in SUBSET (1 .. n) : s # {} =>
           fold[s] = ReadOn(phrase, fold[s \ {Max(s)}], text[Max(s)])
  BY <1>8
<1> HIDE DEF Unfolded
<1>10. ASSUME NEW s \in SUBSET (1 .. n), s # {}, fold[s \ {Max(s)}] \in Seq(Word)
       PROVE  fold[s] = step[<<Max(s), fold[s \ {Max(s)}]>>]
  <2>1. Max(s) \in 1 .. n
    <3>1. s \subseteq Nat /\ \A x \in s : x <= n
      BY <1>2
    <3> QED BY <1>2, <1>10, <3>1, MaxIs
  <2> QED BY <1>5, <1>9, <1>10, <2>1
<1>11. PICK done : StepsUpTo(done, n, Seq(Word), <<>>, step, fold[1 .. n])
  <2>1. <<>> \in Seq(Word)
    OBVIOUS
  <2>2. FoldsUpTo(fold, n, Seq(Word), <<>>, step)
    BY <1>9, <1>10 DEF FoldsUpTo
  <2> QED BY <1>2, <1>4, <2>1, <2>2, StepByStep
<1>12. \A k \in 1 .. n : done[k] = ReadOn(phrase, done[k - 1], text[k])
  <2>1. \A k \in 1 .. n : k - 1 \in 0 .. n
    BY <1>2
  <2>2. \A k \in 1 .. n : done[k - 1] \in Seq(Word)
    BY <1>11, <2>1 DEF StepsUpTo
  <2> QED BY <1>5, <1>11, <2>2 DEF StepsUpTo
<1>13. IsReading(done, text, phrase)
  BY <1>11, <1>12 DEF IsReading, StepsUpTo, n
<1>14. Without(text, phrase) = done[Len(text)]
  BY <1>1, <1>2, <1>11 DEF n, StepsUpTo
<1> QED BY <1>13, <1>14

\* A phrase occurs in a text after so many words.
OccursAt(phrase, text, after) ==
  /\ after \in Nat
  /\ after + Len(phrase) <= Len(text)
  /\ \A i \in 1 .. Len(phrase) : text[after + i] = phrase[i]

\* That is what it means to occur.
LEMMA OccursIs ==
  ASSUME NEW phrase \in Seq(Word), NEW text \in Seq(Word), phrase # <<>>
  PROVE  Occurs(phrase, text) <=> \E after : OccursAt(phrase, text, after)
<1>1. Len(phrase) \in Nat /\ Len(text) \in Nat /\ Len(phrase) # 0
  OBVIOUS
<1>2. ASSUME NEW i \in 0 .. Len(text), NEW j \in 0 .. Len(text), i <= j
      PROVE  /\ SubSeq(text, i + 1, j) \in Seq(Word)
             /\ Len(SubSeq(text, i + 1, j)) = j - i
             /\ \A k \in 1 .. j - i : SubSeq(text, i + 1, j)[k] = text[i + k]
  BY <1>2
<1>3. ASSUME Occurs(phrase, text)
      PROVE  \E after : OccursAt(phrase, text, after)
  <2>1. PICK i \in 0 .. Len(text), j \in 0 .. Len(text) : phrase = SubSeq(text, i + 1, j)
    BY <1>3 DEF Occurs, SubSeqs
  <2>2. i <= j
    <3> SUFFICES ASSUME j < i
                 PROVE  FALSE
      BY <1>1
    <3>1. SubSeq(text, i + 1, j) = <<>>
      BY <1>1
    <3> QED BY <2>1, <3>1
  <2>3. Len(phrase) = j - i /\ \A k \in 1 .. j - i : phrase[k] = text[i + k]
    BY <1>2, <2>1, <2>2
  <2>4. OccursAt(phrase, text, i)
    BY <1>1, <2>2, <2>3 DEF OccursAt
  <2> QED BY <2>4
<1>4. ASSUME NEW after, OccursAt(phrase, text, after)
      PROVE  Occurs(phrase, text)
  <2> DEFINE j == after + Len(phrase)
  <2>1. after \in 0 .. Len(text) /\ j \in 0 .. Len(text) /\ after <= j /\ j - after = Len(phrase)
    BY <1>1, <1>4 DEF OccursAt
  <2> HIDE DEF j
  <2>2. /\ SubSeq(text, after + 1, j) \in Seq(Word)
        /\ Len(SubSeq(text, after + 1, j)) = Len(phrase)
        /\ \A k \in 1 .. Len(phrase) : SubSeq(text, after + 1, j)[k] = text[after + k]
    BY <1>2, <2>1
  <2>3. \A k \in 1 .. Len(phrase) : SubSeq(text, after + 1, j)[k] = phrase[k]
    BY <1>4, <2>2 DEF OccursAt
  <2>4. phrase = SubSeq(text, after + 1, j)
    <3>1. \A s, t \in Seq(Word) :
            Len(s) = Len(t) /\ (\A k \in 1 .. Len(t) : s[k] = t[k]) => t = s
      BY SeqEqual
    <3> QED BY <2>2, <2>3, <3>1
  <2> QED BY <2>1, <2>4 DEF Occurs, SubSeqs
<1> QED BY <1>3, <1>4

\* A text ends with a phrase.
LEMMA SuffixIs ==
  ASSUME NEW phrase \in Seq(Word), NEW text \in Seq(Word)
  PROVE  IsSuffix(phrase, text)
           <=> OccursAt(phrase, text, Len(text) - Len(phrase))
<1> DEFINE m == Len(phrase)
           n == Len(text)
<1>1. m \in Nat /\ n \in Nat
  OBVIOUS
<1>2. ASSUME NEW s \in Seq(Word)
      PROVE  /\ Reverse(s) \in Seq(Word) /\ Len(Reverse(s)) = Len(s)
             /\ \A i \in 1 .. Len(s) : Reverse(s)[i] = s[Len(s) - i + 1]
  <2>1. \A i \in 1 .. Len(s) : Len(s) - i + 1 \in 1 .. Len(s)
    OBVIOUS
  <2>2. \A i \in 1 .. Len(s) : s[Len(s) - i + 1] \in Word
    BY <2>1
  <2> QED BY <2>2 DEF Reverse
<1> DEFINE p == Reverse(phrase)
           t == Reverse(text)
<1>3. /\ p \in Seq(Word) /\ t \in Seq(Word) /\ Len(p) = m /\ Len(t) = n
      /\ \A i \in 1 .. m : p[i] = phrase[m - i + 1]
      /\ \A i \in 1 .. n : t[i] = text[n - i + 1]
  BY <1>2
<1> HIDE DEF p, t, m, n
<1>4. IsSuffix(phrase, text) <=> m <= n /\ \A i \in 1 .. m : p[i] = t[i]
  <2>1. IsSuffix(phrase, text) <=> Len(p) <= Len(t) /\ SubSeq(p, 1, Len(p)) = SubSeq(t, 1, Len(p))
    BY DEF IsSuffix, IsPrefix, p, t
  <2>2. ASSUME m <= n
        PROVE  /\ SubSeq(p, 1, m) \in Seq(Word) /\ SubSeq(t, 1, m) \in Seq(Word)
               /\ Len(SubSeq(p, 1, m)) = m /\ Len(SubSeq(t, 1, m)) = m
               /\ \A i \in 1 .. m : SubSeq(p, 1, m)[i] = p[i] /\ SubSeq(t, 1, m)[i] = t[i]
    BY <1>1, <1>3, <2>2
  <2>3. ASSUME m <= n
        PROVE  SubSeq(p, 1, m) = SubSeq(t, 1, m) <=> \A i \in 1 .. m : p[i] = t[i]
    <3>1. \A a, b \in Seq(Word) :
            Len(a) = Len(b) => (a = b <=> \A k \in 1 .. Len(a) : a[k] = b[k])
      BY SeqEqual
    <3> QED BY <2>2, <2>3, <3>1
  <2> QED BY <1>3, <2>1, <2>3
<1>5. ASSUME m <= n
      PROVE  (\A i \in 1 .. m : p[i] = t[i]) <=> \A i \in 1 .. m : text[n - m + i] = phrase[i]
  <2>1. ASSUME \A i \in 1 .. m : p[i] = t[i], NEW i \in 1 .. m
        PROVE  text[n - m + i] = phrase[i]
    <3>1. /\ m - i + 1 \in 1 .. m /\ m - i + 1 \in 1 .. n
          /\ m - (m - i + 1) + 1 = i /\ n - (m - i + 1) + 1 = n - m + i
      BY <1>1, <1>5
    <3>2. p[m - i + 1] = t[m - i + 1]
      BY <2>1, <3>1
    <3>3. p[m - i + 1] = phrase[m - (m - i + 1) + 1]
      BY <1>3, <3>1
    <3>4. t[m - i + 1] = text[n - (m - i + 1) + 1]
      BY <1>3, <3>1
    <3> QED BY <3>1, <3>2, <3>3, <3>4
  <2>2. ASSUME \A i \in 1 .. m : text[n - m + i] = phrase[i], NEW i \in 1 .. m
        PROVE  p[i] = t[i]
    <3>1. m - i + 1 \in 1 .. m /\ i \in 1 .. n /\ n - m + (m - i + 1) = n - i + 1
      BY <1>1, <1>5
    <3>2. text[n - m + (m - i + 1)] = phrase[m - i + 1]
      BY <2>2, <3>1
    <3> QED BY <1>3, <3>1, <3>2
  <2> QED BY <2>1, <2>2
<1>6. OccursAt(phrase, text, n - m) <=> m <= n /\ \A i \in 1 .. m : text[n - m + i] = phrase[i]
  BY <1>1 DEF OccursAt, m, n
<1> QED BY <1>4, <1>5, <1>6 DEF m, n

\* What was read ends in a marker after so many words of what had been read.
Cut(read, done, m) ==
  /\ m \in 0 .. Len(done)
  /\ Len(read) = m + 1
  /\ \A l \in 1 .. m : read[l] = done[l]
  /\ read[m + 1] = REDACTED

\* It is what had been read and a word.
Grown(read, done, word) ==
  /\ Len(read) = Len(done) + 1
  /\ \A l \in 1 .. Len(done) : read[l] = done[l]
  /\ read[Len(done) + 1] = word

\* What one word more makes of what was read: it is put at the end, or the phrase that
\* ends with it gives way to a marker.
LEMMA ReadOnMakes ==
  ASSUME NEW phrase \in Seq(Word), phrase # <<>>, NEW done \in Seq(Word), NEW word \in Word,
         NEW read, read = ReadOn(phrase, done, word)
  PROVE  \/ \E m : Cut(read, done, m)
         \/ ~IsSuffix(phrase, Append(done, word)) /\ Grown(read, done, word)
<1> DEFINE longer == Append(done, word)
           m == Len(done) + 1 - Len(phrase)
<1>1. /\ Len(done) \in Nat /\ Len(phrase) \in Nat /\ Len(phrase) # 0
      /\ longer \in Seq(Word) /\ Len(longer) = Len(done) + 1
      /\ \A l \in 1 .. Len(done) : longer[l] = done[l]
      /\ longer[Len(done) + 1] = word
  OBVIOUS
<1> HIDE DEF longer
<1>2. read = IF IsSuffix(phrase, longer)
               THEN Append(SubSeq(longer, 1, Len(longer) - Len(phrase)), REDACTED) ELSE longer
  BY DEF ReadOn, longer
<1>3. CASE IsSuffix(phrase, longer)
  <2>1. m \in 0 .. Len(done) /\ m = Len(longer) - Len(phrase)
    <3>1. Len(longer) - Len(phrase) \in Nat
      BY <1>1, <1>3, SuffixIs DEF OccursAt
    <3> QED BY <1>1, <3>1
  <2> HIDE DEF m
  <2>2. /\ SubSeq(longer, 1, m) \in Seq(Word) /\ Len(SubSeq(longer, 1, m)) = m
        /\ \A l \in 1 .. m : SubSeq(longer, 1, m)[l] = longer[l]
    <3>1. m \in Nat /\ m <= Len(longer)
      BY <1>1, <2>1
    <3> QED BY <1>1, <3>1
  <2>3. read = Append(SubSeq(longer, 1, m), REDACTED)
    BY <1>2, <1>3, <2>1
  <2>4. \A s \in Seq(Word) : \A x :
          /\ Len(Append(s, x)) = Len(s) + 1
          /\ Append(s, x)[Len(s) + 1] = x
          /\ \A l \in 1 .. Len(s) : Append(s, x)[l] = s[l]
    OBVIOUS
  <2>5. /\ Len(read) = m + 1 /\ read[m + 1] = REDACTED
        /\ \A l \in 1 .. m : read[l] = longer[l]
    BY <2>2, <2>3, <2>4
  <2>6. \A l \in 1 .. m : l \in 1 .. Len(done)
    BY <1>1, <2>1
  <2>7. Cut(read, done, m)
    BY <1>1, <2>1, <2>5, <2>6 DEF Cut
  <2> QED BY <2>7
<1>4. CASE ~IsSuffix(phrase, longer)
  <2>1. Grown(read, done, word)
    BY <1>1, <1>2, <1>4 DEF Grown
  <2> QED BY <1>4, <2>1 DEF longer
<1> QED BY <1>3, <1>4

\* Words with no marker among them.
Clean(text) == \A i \in 1 .. Len(text) : text[i] # REDACTED

\* Whatever stretch without a marker stands in what was read stands in the first k
\* words of the text, and at their end if it stands at the end.
Traced(done, text, k) ==
  \A i, j \in 1 .. Len(done) :
    i <= j /\ (\A l \in i .. j : done[l] # REDACTED) =>
      \E shift \in Int :
        /\ \A l \in i .. j : l + shift \in 1 .. k /\ text[l + shift] = done[l]
        /\ j = Len(done) => j + shift = k

\* One word more, and it is still so.
LEMMA ReadOnIsTraced ==
  ASSUME NEW phrase \in Seq(Word), phrase # <<>>, NEW text \in Seq(Word),
         NEW k \in 1 .. Len(text), NEW done \in Seq(Word), Traced(done, text, k - 1)
  PROVE  Traced(ReadOn(phrase, done, text[k]), text, k)
<1> DEFINE read == ReadOn(phrase, done, text[k])
<1>1. text[k] \in Word /\ Len(done) \in Nat /\ k \in Nat
  OBVIOUS
<1>2. read \in Seq(Word)
  BY <1>1, ReadOnIs
<1>7. \A x \in 1 .. k - 1 : x \in 1 .. k
  BY <1>1
<1> HIDE DEF read
<1> SUFFICES ASSUME NEW i \in 1 .. Len(read), NEW j \in 1 .. Len(read), i <= j,
                    \A l \in i .. j : read[l] # REDACTED
             PROVE  \E shift \in Int :
                      /\ \A l \in i .. j : l + shift \in 1 .. k /\ text[l + shift] = read[l]
                      /\ j = Len(read) => j + shift = k
  BY DEF Traced, read
<1>3. ASSUME NEW b \in 1 .. Len(done), i <= b,
             \A l \in 1 .. b : read[l] = done[l],
             \A l \in i .. b : read[l] # REDACTED
      PROVE  \E shift \in Int :
               /\ \A l \in i .. b : l + shift \in 1 .. k - 1 /\ text[l + shift] = read[l]
               /\ b = Len(done) => b + shift = k - 1
  <2>1. i \in 1 .. Len(done) /\ \A l \in i .. b : l \in 1 .. b
    BY <1>1, <1>3
  <2>2. \A l \in i .. b : done[l] = read[l] /\ done[l] # REDACTED
    BY <1>3, <2>1
  <2>3. PICK shift \in Int :
          /\ \A l \in i .. b : l + shift \in 1 .. k - 1 /\ text[l + shift] = done[l]
          /\ b = Len(done) => b + shift = k - 1
    BY <1>3, <2>1, <2>2 DEF Traced
  <2> QED BY <2>2, <2>3
<1>4. CASE \E m : Cut(read, done, m)
  <2>1. PICK m \in 0 .. Len(done) : /\ Len(read) = m + 1
                                    /\ \A l \in 1 .. m : read[l] = done[l]
                                    /\ read[m + 1] = REDACTED
    BY <1>4 DEF Cut
  <2>2. j # m + 1
    <3>1. j \in i .. j
      BY <1>1, <2>1
    <3> QED BY <2>1, <3>1
  <2>3. j \in 1 .. m /\ j \in 1 .. Len(done) /\ j # Len(read)
    BY <1>1, <2>1, <2>2
  <2>4. \A l \in 1 .. j : read[l] = done[l]
    BY <2>1, <2>3
  <2>5. PICK shift \in Int :
          \A l \in i .. j : l + shift \in 1 .. k - 1 /\ text[l + shift] = read[l]
    BY <1>3, <2>3, <2>4
  <2>6. \A l \in i .. j : l + shift \in 1 .. k
    BY <1>7, <2>5, Zenon
  <2> QED BY <2>3, <2>5, <2>6
<1>5. CASE Grown(read, done, text[k])
  <2> USE DEF Grown
  <2>1. CASE j # Len(done) + 1
    <3>1. j \in 1 .. Len(done) /\ j # Len(read)
      BY <1>1, <1>5, <2>1
    <3>2. \A l \in 1 .. j : read[l] = done[l]
      BY <1>1, <1>5, <3>1
    <3>3. PICK shift \in Int :
            \A l \in i .. j : l + shift \in 1 .. k - 1 /\ text[l + shift] = read[l]
      BY <1>3, <3>1, <3>2
    <3>4. \A l \in i .. j : l + shift \in 1 .. k
      BY <1>7, <3>3, Zenon
    <3> QED BY <3>1, <3>3, <3>4
  <2>2. CASE j = Len(done) + 1 /\ i = j
    <3>1. k - j \in Int /\ j + (k - j) = k /\ \A l \in i .. j : l = j
      BY <1>1, <2>2
    <3>2. \A l \in i .. j : l + (k - j) \in 1 .. k /\ text[l + (k - j)] = read[l]
      BY <1>1, <1>5, <2>2, <3>1
    <3> QED BY <3>1, <3>2
  <2>3. CASE j = Len(done) + 1 /\ i # j
    <3>1. Len(done) \in 1 .. Len(done) /\ i <= Len(done)
          /\ \A l \in i .. Len(done) : l \in i .. j
      BY <1>1, <2>3
    <3>2. PICK shift \in Int :
            /\ \A l \in i .. Len(done) : l + shift \in 1 .. k - 1 /\ text[l + shift] = read[l]
            /\ Len(done) + shift = k - 1
      BY <1>3, <1>5, <3>1
    <3>3. j + shift = k
      <4>1. shift \in Int /\ Len(done) + shift = k - 1
        BY <3>2
      <4> QED BY <1>1, <2>3, <4>1
    <3>4. ASSUME NEW l \in i .. j
          PROVE  l + shift \in 1 .. k /\ text[l + shift] = read[l]
      <4>1. CASE l = j
        BY <1>1, <1>5, <2>3, <3>3, <4>1
      <4>2. CASE l # j
        <5>1. l \in i .. Len(done)
          BY <1>1, <2>3, <4>2
        <5>2. l + shift \in 1 .. k - 1 /\ text[l + shift] = read[l]
          BY <3>2, <5>1
        <5> QED BY <1>7, <5>2, Zenon
      <4> QED BY <4>1, <4>2
    <3> QED BY <3>3, <3>4
  <2> QED BY <2>1, <2>2, <2>3
<1>6. (\E m : Cut(read, done, m)) \/ Grown(read, done, text[k])
  BY <1>1, ReadOnMakes DEF read
<1> QED BY <1>4, <1>5, <1>6

\* One word more does not make a phrase occur that is replaced.
LEMMA ReadOnLeavesNone ==
  ASSUME NEW phrase \in Seq(Word), phrase # <<>>, Clean(phrase), NEW done \in Seq(Word),
         NEW word \in Word, \A after : ~OccursAt(phrase, done, after)
  PROVE  \A after : ~OccursAt(phrase, ReadOn(phrase, done, word), after)
<1> DEFINE read == ReadOn(phrase, done, word)
           m == Len(phrase)
<1>1. /\ m \in Nat /\ m # 0 /\ Len(done) \in Nat /\ Append(done, word) \in Seq(Word)
      /\ Len(Append(done, word)) = Len(done) + 1
      /\ \A l \in 1 .. Len(done) : Append(done, word)[l] = done[l]
      /\ Append(done, word)[Len(done) + 1] = word
  OBVIOUS
<1> HIDE DEF read, m
<1> SUFFICES ASSUME NEW after, OccursAt(phrase, read, after)
             PROVE  FALSE
  BY DEF read
<1>2. /\ after \in Nat /\ after + m <= Len(read)
      /\ \A i \in 1 .. m : read[after + i] = phrase[i] /\ phrase[i] # REDACTED
  BY DEF OccursAt, Clean, m
<1>3. ASSUME NEW b \in 0 .. Len(done), after + m <= b, \A l \in 1 .. b : read[l] = done[l]
      PROVE  FALSE
  <2>1. \A i \in 1 .. m : after + i \in 1 .. b
    BY <1>1, <1>2, <1>3
  <2>2. after + m <= Len(done) /\ \A i \in 1 .. m : done[after + i] = phrase[i]
    BY <1>1, <1>2, <1>3, <2>1
  <2> QED BY <1>2, <2>2 DEF OccursAt, m
<1>4. CASE \E b : Cut(read, done, b)
  <2>1. PICK b \in 0 .. Len(done) : /\ Len(read) = b + 1
                                    /\ \A l \in 1 .. b : read[l] = done[l]
                                    /\ read[b + 1] = REDACTED
    BY <1>4 DEF Cut
  <2>2. after + m # b + 1
    <3>1. m \in 1 .. m
      BY <1>1
    <3>2. read[after + m] # REDACTED
      BY <1>2, <3>1
    <3> QED BY <2>1, <3>2
  <2>3. after + m <= b
    BY <1>1, <1>2, <2>1, <2>2
  <2> QED BY <1>3, <2>1, <2>3
<1>5. CASE ~IsSuffix(phrase, Append(done, word)) /\ Grown(read, done, word)
  <2> USE DEF Grown
  <2>1. CASE after + m <= Len(done)
    <3>1. Len(done) \in 0 .. Len(done)
      BY <1>1
    <3> QED BY <1>3, <1>5, <2>1, <3>1
  <2>2. CASE after + m = Len(done) + 1
    <3>1. \A l \in 1 .. Len(done) + 1 : read[l] = Append(done, word)[l]
      BY <1>1, <1>5
    <3>2. \A i \in 1 .. m : after + i \in 1 .. Len(done) + 1
      BY <1>1, <1>2, <2>2
    <3>3. after = Len(Append(done, word)) - m
      BY <1>1, <1>2, <2>2
    <3>4. OccursAt(phrase, Append(done, word), Len(Append(done, word)) - m)
      <4>1. \A i \in 1 .. m : Append(done, word)[after + i] = phrase[i]
        BY <1>2, <3>1, <3>2
      <4>2. after \in Nat /\ after + m <= Len(Append(done, word))
        BY <1>1, <1>2, <2>2
      <4>3. OccursAt(phrase, Append(done, word), after)
        BY <4>1, <4>2 DEF OccursAt, m
      <4> QED BY <3>3, <4>3
    <3> QED BY <1>1, <1>5, <3>4, SuffixIs DEF m
  <2> QED BY <1>1, <1>2, <1>5, <2>1, <2>2
<1>6. \/ \E b : Cut(read, done, b)
      \/ ~IsSuffix(phrase, Append(done, word)) /\ Grown(read, done, word)
  BY <1>1, ReadOnMakes DEF read
<1> QED BY <1>4, <1>5, <1>6

\* What was read is the text as far as it was read, unless there is a marker in it.
Unmarked(done, text, k) ==
  Clean(done) => Len(done) = k /\ \A l \in 1 .. k : done[l] = text[l]

\* One word more, and it is still so.
LEMMA ReadOnMarks ==
  ASSUME NEW phrase \in Seq(Word), phrase # <<>>, Clean(phrase), NEW text \in Seq(Word),
         NEW k \in 1 .. Len(text), NEW done \in Seq(Word), Unmarked(done, text, k - 1)
  PROVE  Unmarked(ReadOn(phrase, done, text[k]), text, k)
<1> DEFINE read == ReadOn(phrase, done, text[k])
<1>1. text[k] \in Word /\ Len(done) \in Nat /\ k \in Nat
  OBVIOUS
<1> HIDE DEF read
<1> SUFFICES ASSUME Clean(read)
             PROVE  Len(read) = k /\ \A l \in 1 .. k : read[l] = text[l]
  BY DEF read, Unmarked
<1>2. (\E m : Cut(read, done, m)) \/ Grown(read, done, text[k])
  BY <1>1, ReadOnMakes DEF read
<1>3. ~ \E m : Cut(read, done, m)
  BY <1>1 DEF Clean, Cut
<1>4. Grown(read, done, text[k])
  BY <1>2, <1>3
<1>5. Clean(done)
  BY <1>1, <1>4 DEF Clean, Grown
<1> QED BY <1>1, <1>4, <1>5 DEF Grown, Unmarked

-----------------------------------------------------------------------------
(* The armor: what is left of an output. *)

\* What is left of a text when something was redacted in it: whatever phrase without a
\* marker occurs in what is left occurs in the text, and nothing changed if there is no
\* marker.
IsRedactionOf(left, text) ==
  /\ left \in Seq(Word)
  /\ \A phrase \in Seq(Word) :
       phrase # <<>> /\ Clean(phrase) /\ (\E after : OccursAt(phrase, left, after)) =>
         \E after : OccursAt(phrase, text, after)
  /\ Clean(left) => left = text

\* A stretch that is traced to the text occurs in it.
LEMMA TracedOccurs ==
  ASSUME NEW left \in Seq(Word), NEW text \in Seq(Word), Traced(left, text, Len(text)),
         NEW phrase \in Seq(Word), phrase # <<>>, Clean(phrase),
         NEW a, OccursAt(phrase, left, a)
  PROVE  \E after : OccursAt(phrase, text, after)
<1>1. /\ a \in Nat /\ Len(phrase) \in Nat /\ Len(phrase) # 0 /\ Len(left) \in Nat
      /\ Len(text) \in Nat /\ a + Len(phrase) <= Len(left)
      /\ \A i \in 1 .. Len(phrase) : left[a + i] = phrase[i] /\ phrase[i] # REDACTED
  BY DEF OccursAt, Clean
<1> DEFINE i == a + 1
           j == a + Len(phrase)
<1>2. i \in 1 .. Len(left) /\ j \in 1 .. Len(left) /\ i <= j
  BY <1>1
<1>3. \A l \in i .. j : l - a \in 1 .. Len(phrase) /\ a + (l - a) = l
  BY <1>1
<1>4. \A l \in i .. j : left[l] # REDACTED
  BY <1>1, <1>3
<1>5. PICK shift \in Int : \A l \in i .. j : l + shift \in 1 .. Len(text) /\ text[l + shift] = left[l]
  BY <1>2, <1>4 DEF Traced
<1>6. a + shift \in Nat /\ a + shift + Len(phrase) <= Len(text)
  <2>1. i \in i .. j /\ j \in i .. j
    BY <1>2
  <2>2. i + shift >= 1 /\ j + shift <= Len(text)
    BY <1>5, <2>1
  <2> QED BY <1>1, <2>2
<1>7. ASSUME NEW x \in 1 .. Len(phrase)
      PROVE  text[(a + shift) + x] = phrase[x]
  <2>1. a + x \in i .. j /\ (a + shift) + x = (a + x) + shift
    BY <1>1
  <2>2. text[(a + x) + shift] = left[a + x]
    BY <1>5, <2>1
  <2> QED BY <1>1, <2>1, <2>2
<1>8. OccursAt(phrase, text, a + shift)
  BY <1>6, <1>7 DEF OccursAt
<1> QED BY <1>8

\* A phrase replaced everywhere does not occur any more, and nothing new does.
LEMMA WithoutRedacts ==
  ASSUME NEW text \in Seq(Word), NEW phrase \in Seq(Word), phrase # <<>>, Clean(phrase)
  PROVE  /\ IsRedactionOf(Without(text, phrase), text)
         /\ \A after : ~OccursAt(phrase, Without(text, phrase), after)
<1>1. PICK done : IsReading(done, text, phrase) /\ Without(text, phrase) = done[Len(text)]
  BY WithoutIsRead
<1>2. Len(text) \in Nat /\ Len(text) \in 0 .. Len(text)
  OBVIOUS
<1> DEFINE Suits(k) == /\ Traced(done[k], text, k)
                      /\ \A after : ~OccursAt(phrase, done[k], after)
                      /\ Unmarked(done[k], text, k)
           Sound == {k \in Nat : k <= Len(text) => Suits(k)}
<1>3. 0 \in Sound
  <2>1. done[0] = <<>>
    BY <1>1 DEF IsReading
  <2>2. Traced(<<>>, text, 0)
    BY DEF Traced
  <2>3. \A after : ~OccursAt(phrase, <<>>, after)
    <3>1. Len(phrase) \in Nat /\ Len(phrase) # 0 /\ Len(<<>>) = 0
      OBVIOUS
    <3> QED BY <3>1 DEF OccursAt
  <2>4. Len(<<>>) = 0 /\ \A l \in 1 .. 0 : <<>>[l] = text[l]
    OBVIOUS
  <2> QED BY <2>1, <2>2, <2>3, <2>4 DEF Unmarked
<1>4. ASSUME NEW k \in Nat, k \in Sound
      PROVE  k + 1 \in Sound
  <2> SUFFICES ASSUME k + 1 <= Len(text)
               PROVE  Suits(k + 1)
    OBVIOUS
  <2>1. k + 1 \in 1 .. Len(text) /\ k + 1 - 1 = k /\ k \in 0 .. Len(text) /\ k <= Len(text)
    BY <1>2
  <2>2. Suits(k)
    BY <1>4, <2>1
  <2>3. /\ done[k + 1] = ReadOn(phrase, done[k], text[k + 1])
        /\ done[k] \in Seq(Word) /\ text[k + 1] \in Word
    BY <1>1, <2>1 DEF IsReading
  <2>4. Traced(done[k + 1], text, k + 1)
    BY <2>1, <2>2, <2>3, ReadOnIsTraced
  <2>5. \A after : ~OccursAt(phrase, done[k + 1], after)
    BY <2>2, <2>3, ReadOnLeavesNone
  <2>6. Unmarked(done[k + 1], text, k + 1)
    BY <2>1, <2>2, <2>3, ReadOnMarks
  <2> QED BY <2>4, <2>5, <2>6
<1>5. Suits(Len(text))
  <2> HIDE DEF Suits
  <2>1. Nat \subseteq Sound
    <3> HIDE DEF Sound
    <3> QED BY <1>3, <1>4, Reached
  <2> QED BY <1>2, <2>1
<1> DEFINE left == done[Len(text)]
<1>6. left \in Seq(Word)
  BY <1>1, <1>2 DEF IsReading
<1>7. Clean(left) => left = text
  <2> SUFFICES ASSUME Clean(left)
               PROVE  left = text
    OBVIOUS
  <2>1. Len(left) = Len(text) /\ \A l \in 1 .. Len(text) : left[l] = text[l]
    BY <1>5 DEF Unmarked
  <2> QED BY <1>6, <2>1, SeqEqual
<1>8. Traced(left, text, Len(text)) /\ \A after : ~OccursAt(phrase, left, after)
  BY <1>5
<1> HIDE DEF left, Suits
<1>9. IsRedactionOf(left, text)
  BY <1>6, <1>7, <1>8, TracedOccurs DEF IsRedactionOf
<1> QED BY <1>1, <1>8, <1>9 DEF left

\* What is left of what was left is left of the text.
LEMMA RedactionOfRedaction ==
  ASSUME NEW a, NEW b, NEW text, IsRedactionOf(a, b), IsRedactionOf(b, text)
  PROVE  /\ IsRedactionOf(a, text)
         /\ \A phrase \in Seq(Word) :
              phrase # <<>> /\ Clean(phrase) /\ (\A after : ~OccursAt(phrase, b, after))
                => \A after : ~OccursAt(phrase, a, after)
<1>1. Clean(a) => a = text
  BY DEF IsRedactionOf
<1> QED BY <1>1, Zenon DEF IsRedactionOf

\* A text in which nothing was redacted.
LEMMA NothingRedacted ==
  ASSUME NEW text \in Seq(Word)
  PROVE  IsRedactionOf(text, text)
BY DEF IsRedactionOf

\* The words of what is left are the text's, but for the markers.
LEMMA WordsLeft ==
  ASSUME NEW text \in Seq(Word), NEW left, IsRedactionOf(left, text),
         NEW i \in 1 .. Len(left), left[i] # REDACTED
  PROVE  \E j \in 1 .. Len(text) : text[j] = left[i]
<1> DEFINE q == <<left[i]>>
<1>1. left \in Seq(Word)
  BY DEF IsRedactionOf
<1>2. left[i] \in Word /\ q \in Seq(Word) /\ q # <<>> /\ Len(q) = 1 /\ q[1] = left[i]
  BY <1>1
<1>3. \A k \in 1 .. 1 : k = 1
  OBVIOUS
<1> HIDE DEF q
<1>4. Clean(q)
  BY <1>2, <1>3 DEF Clean
<1>5. OccursAt(q, left, i - 1)
  <2>1. i - 1 \in Nat /\ i - 1 + 1 = i /\ i - 1 + 1 <= Len(left)
    BY <1>1
  <2> QED BY <1>2, <1>3, <2>1 DEF OccursAt
<1>6. PICK after : OccursAt(q, text, after)
  BY <1>2, <1>4, <1>5 DEF IsRedactionOf
<1>7. after + 1 \in 1 .. Len(text) /\ text[after + 1] = q[1]
  BY <1>2, <1>6 DEF OccursAt
<1> QED BY <1>2, <1>7

\* A registered phrase is made of words, and the filter's own marker is not among them.
LEMMA PhrasesAre ==
  ASSUME NEW phrase \in Fingerprint
  PROVE  phrase \in Seq(Word) /\ phrase # <<>> /\ Clean(phrase)
<1>1. phrase \in Seq(Word) \ {<<>>}
  BY ArmorAssumption
<1>2. REDACTED \notin ToSet(phrase)
  BY MarkersAssumption
<1>3. DOMAIN phrase = 1 .. Len(phrase)
  BY <1>1
<1> QED BY <1>1, <1>2, <1>3 DEF ToSet, Clean

\* What is left of a text when the phrase, if it occurs in the text as it came, is
\* replaced in what others have left.
Redacted(left, phrase, text) == IF Occurs(phrase, text) THEN Without(left, phrase) ELSE left

\* It is a sequence of words.
LEMMA RedactedIs ==
  ASSUME NEW left \in Seq(Word), NEW phrase \in Fingerprint, NEW text \in Seq(Word)
  PROVE  Redacted(left, phrase, text) \in Seq(Word)
<1>1. Without(left, phrase) \in Seq(Word)
  BY PhrasesAre, WithoutRedacts DEF IsRedactionOf
<1> QED BY <1>1 DEF Redacted

\* What has been left of a text phrase by phrase.
IsLeft(left, text, phrases) ==
  /\ left \in [0 .. Len(phrases) -> Seq(Word)]
  /\ left[0] = text
  /\ \A k \in 1 .. Len(phrases) : left[k] = Redacted(left[k - 1], phrases[k], text)

\* Replacing the registered phrases is replacing one after the other.
LEMMA FingerprintsOneByOne ==
  ASSUME NEW text \in Seq(Word), systemPromptFingerprints \in Seq(Fingerprint)
  PROVE  \E left : /\ IsLeft(left, text, systemPromptFingerprints)
                   /\ WithoutFingerprints(text) = left[Len(systemPromptFingerprints)]
<1> DEFINE phrases == systemPromptFingerprints
           n == Len(phrases)
           fold[s \in SUBSET (DOMAIN phrases)] ==
             IF s = {} THEN text
               ELSE IF Occurs(phrases[Max(s)], text)
                      THEN Without(fold[s \ {Max(s)}], phrases[Max(s)])
                      ELSE fold[s \ {Max(s)}]
           Unfolded(t) == [s \in SUBSET (1 .. n) |->
             IF s = {} THEN text ELSE Redacted(t[s \ {Max(s)}], phrases[Max(s)], text)]
           step == [pair \in (1 .. n) \X Seq(Word) |-> Redacted(pair[2], phrases[pair[1]], text)]
<1>1. WithoutFingerprints(text) = fold[DOMAIN phrases]
  BY Zenon DEF WithoutFingerprints, FoldLeft, MapThenFoldSet
<1>2. DOMAIN phrases = 1 .. n /\ n \in Nat /\ \A i \in 1 .. n : phrases[i] \in Fingerprint
  OBVIOUS
<1>3. fold = CHOOSE t : t = Unfolded(t)
  <2>1. fold = CHOOSE t : t = [s \in SUBSET (DOMAIN phrases) |->
                 IF s = {} THEN text
                   ELSE IF Occurs(phrases[Max(s)], text)
                          THEN Without(t[s \ {Max(s)}], phrases[Max(s)])
                          ELSE t[s \ {Max(s)}]]
    OBVIOUS
  <2> HIDE DEF fold, n, phrases
  <2>2. fold = CHOOSE t : t = [s \in SUBSET (1 .. n) |->
                 IF s = {} THEN text
                   ELSE IF Occurs(phrases[Max(s)], text)
                          THEN Without(t[s \ {Max(s)}], phrases[Max(s)])
                          ELSE t[s \ {Max(s)}]]
    BY <1>2, <2>1
  <2> QED BY <2>2, Zenon DEF Redacted
<1> HIDE DEF fold, n, phrases
<1>4. step \in [(1 .. n) \X Seq(Word) -> Seq(Word)]
  <2>1. \A pair \in (1 .. n) \X Seq(Word) : Redacted(pair[2], phrases[pair[1]], text) \in Seq(Word)
    BY <1>2, RedactedIs
  <2> QED BY <2>1
<1>5. \A i \in 1 .. n, left \in Seq(Word) : step[<<i, left>>] = Redacted(left, phrases[i], text)
  OBVIOUS
<1> HIDE DEF step
<1>6. PICK t \in [SUBSET (1 .. n) -> Seq(Word)] : IsPrefixFold(t, n, text, step)
  BY <1>2, <1>4, FoldOfPrefixes
<1>7. t = Unfolded(t)
  <2>1. ASSUME NEW s \in SUBSET (1 .. n)
        PROVE  t[s] = IF s = {} THEN text ELSE Redacted(t[s \ {Max(s)}], phrases[Max(s)], text)
    <3>1. CASE s = {}
      BY <1>6, <3>1 DEF IsPrefixFold
    <3>2. CASE s # {}
      <4>1. s \subseteq Nat /\ \A x \in s : x <= n
        BY <1>2
      <4>2. Max(s) \in 1 .. n
        BY <1>2, <3>2, <4>1, MaxIs
      <4>3. t[s \ {Max(s)}] \in Seq(Word)
        OBVIOUS
      <4>4. t[s] = step[<<Max(s), t[s \ {Max(s)}]>>]
        BY <1>6, <3>2 DEF IsPrefixFold
      <4> QED BY <1>5, <3>2, <4>2, <4>3, <4>4
    <3> QED BY <3>1, <3>2
  <2> QED BY <2>1
<1>8. fold = Unfolded(fold)
  <2> HIDE DEF Unfolded
  <2> QED BY <1>3, <1>7
<1>9. /\ fold[{}] = text
      /\ \A s \in SUBSET (1 .. n) : s # {} =>
           fold[s] = Redacted(fold[s \ {Max(s)}], phrases[Max(s)], text)
  BY <1>8
<1> HIDE DEF Unfolded
<1>10. ASSUME NEW s \in SUBSET (1 .. n), s # {}, fold[s \ {Max(s)}] \in Seq(Word)
       PROVE  fold[s] = step[<<Max(s), fold[s \ {Max(s)}]>>]
  <2>1. Max(s) \in 1 .. n
    <3>1. s \subseteq Nat /\ \A x \in s : x <= n
      BY <1>2
    <3> QED BY <1>2, <1>10, <3>1, MaxIs
  <2> QED BY <1>5, <1>9, <1>10, <2>1
<1>11. PICK left : StepsUpTo(left, n, Seq(Word), text, step, fold[1 .. n])
  <2>1. FoldsUpTo(fold, n, Seq(Word), text, step)
    BY <1>9, <1>10 DEF FoldsUpTo
  <2> QED BY <1>2, <1>4, <2>1, StepByStep
<1>12. \A k \in 1 .. n : left[k] = Redacted(left[k - 1], phrases[k], text)
  <2>1. \A k \in 1 .. n : k - 1 \in 0 .. n
    BY <1>2
  <2>2. \A k \in 1 .. n : left[k - 1] \in Seq(Word)
    BY <1>11, <2>1 DEF StepsUpTo
  <2> QED BY <1>5, <1>11, <2>2 DEF StepsUpTo
<1>13. IsLeft(left, text, phrases)
  BY <1>11, <1>12 DEF IsLeft, StepsUpTo, n
<1>14. WithoutFingerprints(text) = left[n]
  BY <1>1, <1>2, <1>11 DEF StepsUpTo
<1> QED BY <1>13, <1>14 DEF n, phrases

\* No registered phrase is left, whatever order they were registered in and however they
\* overlap.
LEMMA FingerprintsAreGone ==
  ASSUME NEW text \in Seq(Word), systemPromptFingerprints \in Seq(Fingerprint)
  PROVE  /\ IsRedactionOf(WithoutFingerprints(text), text)
         /\ \A f \in 1 .. Len(systemPromptFingerprints) : \A after :
              ~OccursAt(systemPromptFingerprints[f], WithoutFingerprints(text), after)
<1> DEFINE phrases == systemPromptFingerprints
           n == Len(phrases)
<1>1. PICK left : IsLeft(left, text, phrases) /\ WithoutFingerprints(text) = left[n]
  BY FingerprintsOneByOne
<1>2. n \in Nat /\ \A f \in 1 .. n : phrases[f] \in Fingerprint
  OBVIOUS
<1> HIDE DEF n, phrases
<1> DEFINE Gone(k) == /\ IsRedactionOf(left[k], text)
                      /\ \A f \in 1 .. k : \A after : ~OccursAt(phrases[f], left[k], after)
           Sound == {k \in Nat : k <= n => Gone(k)}
<1>3. 0 \in Sound
  <2>1. left[0] = text
    BY <1>1 DEF IsLeft
  <2>2. \A f \in 1 .. 0 : FALSE
    OBVIOUS
  <2> QED BY <2>1, <2>2, NothingRedacted
<1>4. ASSUME NEW k \in Nat, k \in Sound
      PROVE  k + 1 \in Sound
  <2> SUFFICES ASSUME k + 1 <= n
               PROVE  Gone(k + 1)
    OBVIOUS
  <2>1. k + 1 \in 1 .. n /\ k + 1 - 1 = k /\ k \in 0 .. n /\ k <= n
    BY <1>2
  <2>2. Gone(k)
    BY <1>4, <2>1
  <2> DEFINE phrase == phrases[k + 1]
             old == left[k]
             new == left[k + 1]
  <2>3. /\ phrase \in Fingerprint /\ phrase \in Seq(Word) /\ phrase # <<>> /\ Clean(phrase)
        /\ new = Redacted(old, phrase, text) /\ old \in Seq(Word)
    <3>1. phrase \in Fingerprint
      BY <1>2, <2>1
    <3>2. phrase \in Seq(Word) /\ phrase # <<>> /\ Clean(phrase)
      BY <3>1, PhrasesAre
    <3>3. /\ left \in [0 .. n -> Seq(Word)]
          /\ \A i \in 1 .. n : left[i] = Redacted(left[i - 1], phrases[i], text)
      BY <1>1 DEF IsLeft, n
    <3>4. new = Redacted(old, phrase, text) /\ old \in Seq(Word)
      BY <2>1, <3>3
    <3> QED BY <3>1, <3>2, <3>4
  <2>4. IsRedactionOf(old, text)
        /\ \A f \in 1 .. k : \A after : ~OccursAt(phrases[f], old, after)
    BY <2>2
  <2>5. \A f \in 1 .. k + 1 : f \in 1 .. k \/ f = k + 1
    OBVIOUS
  <2>6. \A f \in 1 .. k : phrases[f] \in Seq(Word) /\ phrases[f] # <<>> /\ Clean(phrases[f])
    <3>1. \A f \in 1 .. k : f \in 1 .. n
      BY <1>2, <2>1
    <3> QED BY <1>2, <3>1, PhrasesAre
  <2> HIDE DEF phrase, old, new
  <2>7. CASE Occurs(phrase, text)
    <3>1. new = Without(old, phrase)
      BY <2>3, <2>7 DEF Redacted
    <3>2. IsRedactionOf(new, old) /\ \A after : ~OccursAt(phrase, new, after)
      BY <2>3, <3>1, WithoutRedacts
    <3>3. /\ IsRedactionOf(new, text)
          /\ \A q \in Seq(Word) : q # <<>> /\ Clean(q) /\ (\A after : ~OccursAt(q, old, after))
               => \A after : ~OccursAt(q, new, after)
      BY <2>4, <3>2, RedactionOfRedaction
    <3>4. \A f \in 1 .. k : \A after : ~OccursAt(phrases[f], new, after)
      BY <2>4, <2>6, <3>3
    <3> QED BY <2>5, <3>2, <3>3, <3>4 DEF phrase, new
  <2>8. CASE ~Occurs(phrase, text)
    <3>1. new = old
      BY <2>3, <2>8 DEF Redacted
    <3>2. \A after : ~OccursAt(phrase, text, after)
      BY <2>3, <2>8, OccursIs
    <3>3. \A after : ~OccursAt(phrase, old, after)
      BY <2>3, <2>4, <3>2 DEF IsRedactionOf
    <3> QED BY <2>4, <2>5, <3>1, <3>3 DEF phrase, new
  <2> QED BY <2>7, <2>8
<1>5. Gone(n)
  <2> HIDE DEF Gone
  <2>1. Nat \subseteq Sound
    <3> HIDE DEF Sound
    <3> QED BY <1>3, <1>4, Reached
  <2> QED BY <1>2, <2>1
<1> QED BY <1>1, <1>5 DEF n, phrases

\* A text whose secrets were replaced: none is left.
LEMMA SecretsAreGone ==
  ASSUME NEW text \in Seq(Word)
  PROVE  /\ IsRedactionOf(WithoutSecrets(text), text)
         /\ \A i \in 1 .. Len(WithoutSecrets(text)) :
              WithoutSecrets(text)[i] \notin PrivateKey \union Credential \union Pii
<1> DEFINE Secret == PrivateKey \union Credential \union Pii
           left == WithoutSecrets(text)
<1>1. DOMAIN text = 1 .. Len(text) /\ Len(text) \in Nat /\ \A i \in 1 .. Len(text) : text[i] \in Word
  OBVIOUS
<1>2. REDACTED \in Word /\ REDACTED \notin Secret
  <2>1. REDACTED \in Word
    BY MarkersAssumption
  <2>2. REDACTED \notin Secret
    BY DEF REDACTED, PrivateKey, Credential, Pii
  <2> QED BY <2>1, <2>2
<1>3. left = [i \in 1 .. Len(text) |-> IF text[i] \in Secret THEN REDACTED ELSE text[i]]
  BY <1>1 DEF WithoutSecrets
<1> HIDE DEF Secret, left
<1>4. left \in Seq(Word) /\ Len(left) = Len(text)
      /\ \A i \in 1 .. Len(text) : left[i] = IF text[i] \in Secret THEN REDACTED ELSE text[i]
  BY <1>1, <1>2, <1>3
<1>5. \A i \in 1 .. Len(left) : left[i] \notin Secret
  BY <1>2, <1>4
<1>6. ASSUME NEW phrase \in Seq(Word), Clean(phrase), NEW after, OccursAt(phrase, left, after)
      PROVE  OccursAt(phrase, text, after)
  <2>1. /\ after \in Nat /\ after + Len(phrase) <= Len(text) /\ Len(phrase) \in Nat
        /\ \A i \in 1 .. Len(phrase) : left[after + i] = phrase[i] /\ phrase[i] # REDACTED
    BY <1>4, <1>6 DEF OccursAt, Clean
  <2>2. \A i \in 1 .. Len(phrase) : after + i \in 1 .. Len(text)
    BY <1>1, <2>1
  <2>3. \A i \in 1 .. Len(phrase) : text[after + i] = phrase[i]
    BY <1>4, <2>1, <2>2
  <2> QED BY <2>1, <2>3 DEF OccursAt
<1>7. ASSUME Clean(left)
      PROVE  left = text
  <2>1. \A i \in 1 .. Len(text) : left[i] = text[i]
    BY <1>4, <1>7 DEF Clean
  <2> QED BY <1>4, <2>1, SeqEqual
<1>8. IsRedactionOf(left, text)
  BY <1>4, <1>6, <1>7 DEF IsRedactionOf
<1> QED BY <1>5, <1>8 DEF left, Secret

\* The filter's markers are words, and neither a secret nor a canary.
LEMMA MarkersAre ==
  ASSUME ArmorTypeOK
  PROVE  /\ REDACTED \in Word /\ BLOCKED \in Word /\ REDACTED # BLOCKED
         /\ {REDACTED, BLOCKED} \intersect
              (canaryTokens \union PrivateKey \union Credential \union Pii) = {}
<1>1. {REDACTED, BLOCKED} \intersect canaryTokens = {}
  BY MarkersAssumption DEF ArmorTypeOK
<1>2. REDACTED \in Word /\ BLOCKED \in Word
  BY MarkersAssumption
<1>3. REDACTED # BLOCKED /\ {REDACTED, BLOCKED} \intersect (PrivateKey \union Credential \union Pii) = {}
  BY DEF REDACTED, BLOCKED, PrivateKey, Credential, Pii
<1> QED BY <1>1, <1>2, <1>3

\* What the armor answers about an output.
IsAnswer(answer, text) ==
  /\ answer.action \in {"ALLOW", "REDACT", "BLOCK"}
  /\ answer.delivered \in Seq(Word)
  /\ ToSet(answer.delivered) \intersect
       (canaryTokens \union PrivateKey \union Credential \union Pii) = {}
  /\ \A f \in DOMAIN systemPromptFingerprints :
       ~Occurs(systemPromptFingerprints[f], answer.delivered)
  /\ answer.action = "ALLOW" <=> answer.delivered = text
  /\ answer.delivered # text => (answer.action = "BLOCK" <=> answer.delivered = <<BLOCKED>>)

\* The words of a text.
LEMMA WordsOf ==
  ASSUME NEW text \in Seq(Word)
  PROVE  /\ DOMAIN text = 1 .. Len(text)
         /\ ToSet(text) = {text[i] : i \in 1 .. Len(text)}
BY DEF ToSet

\* An output that is blocked.
LEMMA BlockedIs ==
  ASSUME ArmorTypeOK
  PROVE  /\ <<BLOCKED>> \in Seq(Word)
         /\ ToSet(<<BLOCKED>>) = {BLOCKED}
         /\ \A phrase \in Fingerprint : ~Occurs(phrase, <<BLOCKED>>)
<1>1. BLOCKED \in Word
  BY MarkersAre
<1>2. <<BLOCKED>> \in Seq(Word) /\ Len(<<BLOCKED>>) = 1 /\ <<BLOCKED>>[1] = BLOCKED
  BY <1>1
<1>3. \A i \in 1 .. 1 : i = 1
  OBVIOUS
<1>4. 1 \in 1 .. 1
  OBVIOUS
<1>5. ToSet(<<BLOCKED>>) = {BLOCKED}
  <2>1. ToSet(<<BLOCKED>>) = {<<BLOCKED>>[i] : i \in 1 .. 1}
    BY <1>2, WordsOf
  <2> QED BY <1>2, <1>3, <1>4, <2>1
<1>6. ASSUME NEW phrase \in Fingerprint
      PROVE  ~Occurs(phrase, <<BLOCKED>>)
  <2>1. phrase \in Seq(Word) /\ phrase # <<>>
    BY PhrasesAre
  <2>2. BLOCKED \notin ToSet(phrase)
    BY MarkersAssumption
  <2>3. ToSet(phrase) = {phrase[i] : i \in 1 .. Len(phrase)}
    BY <2>1, WordsOf
  <2>4. 1 \in 1 .. Len(phrase) /\ Len(phrase) \in Nat
    BY <2>1
  <2>5. phrase[1] # BLOCKED
    BY <2>2, <2>3, <2>4
  <2>6. ASSUME NEW after, OccursAt(phrase, <<BLOCKED>>, after)
        PROVE  FALSE
    <3>1. after = 0
      BY <1>2, <2>4, <2>6 DEF OccursAt
    <3>2. <<BLOCKED>>[0 + 1] = phrase[1]
      BY <2>4, <2>6, <3>1 DEF OccursAt
    <3> QED BY <1>2, <2>5, <3>2
  <2> QED BY <1>2, <2>1, <2>6, OccursIs
<1> QED BY <1>2, <1>5, <1>6

\* No secret, no canary and no registered phrase gets through, and what is answered says
\* whether anything was held back.
LEMMA InspectionIs ==
  ASSUME ArmorTypeOK, NEW text \in Seq(Word)
  PROVE  IsAnswer(Inspect(text), text)
<1> DEFINE redacted == WithoutFingerprints(text)
           sanitized == WithoutSecrets(redacted)
           blocked == \/ CanaryLeak(text)
                      \/ ToSet(redacted) \intersect PrivateKey # {}
                      \/ BlockOnPii /\ ToSet(redacted) \intersect Pii # {}
           Secret == PrivateKey \union Credential \union Pii
           phrases == systemPromptFingerprints
<1>1. phrases \in Seq(Fingerprint) /\ DOMAIN phrases = 1 .. Len(phrases)
      /\ \A f \in DOMAIN phrases : phrases[f] \in Fingerprint
  <2>1. phrases \in Seq(Fingerprint)
    BY DEF ArmorTypeOK
  <2> QED BY <2>1
<1>2. IsRedactionOf(redacted, text)
      /\ \A f \in 1 .. Len(phrases) : \A after : ~OccursAt(phrases[f], redacted, after)
  BY <1>1, FingerprintsAreGone
<1>3. redacted \in Seq(Word)
  BY <1>2 DEF IsRedactionOf
<1>4. IsRedactionOf(sanitized, redacted)
      /\ \A i \in 1 .. Len(sanitized) : sanitized[i] \notin Secret
  BY <1>3, SecretsAreGone
<1>5. /\ Inspect(text).action = CASE blocked -> "BLOCK"
                                  [] ~blocked /\ sanitized # text -> "REDACT"
                                  [] OTHER -> "ALLOW"
      /\ Inspect(text).delivered = IF blocked THEN <<BLOCKED>> ELSE sanitized
  BY DEF Inspect
<1> HIDE DEF phrases
<1>6. CanaryLeak(text) <=> \E i \in 1 .. Len(text) : text[i] \in canaryTokens
  BY WordsOf DEF CanaryLeak
<1>7. /\ ToSet(redacted) = {redacted[i] : i \in 1 .. Len(redacted)}
      /\ \A i \in 1 .. Len(redacted) :
           redacted[i] # REDACTED => \E j \in 1 .. Len(text) : text[j] = redacted[i]
  BY <1>2, <1>3, WordsOf, WordsLeft
<1> HIDE DEF redacted, sanitized
<1>8. /\ sanitized \in Seq(Word)
      /\ IsRedactionOf(sanitized, text)
      /\ \A f \in DOMAIN phrases : \A after : ~OccursAt(phrases[f], sanitized, after)
  <2>1. sanitized \in Seq(Word)
    BY <1>4 DEF IsRedactionOf
  <2>2. \A phrase \in Seq(Word) :
          phrase # <<>> /\ Clean(phrase) /\ (\A after : ~OccursAt(phrase, redacted, after))
            => \A after : ~OccursAt(phrase, sanitized, after)
    BY <1>2, <1>4, RedactionOfRedaction
  <2>3. \A f \in DOMAIN phrases : \A after : ~OccursAt(phrases[f], sanitized, after)
    <3> SUFFICES ASSUME NEW f \in DOMAIN phrases
                 PROVE  \A after : ~OccursAt(phrases[f], sanitized, after)
      OBVIOUS
    <3>1. phrases[f] \in Seq(Word) /\ phrases[f] # <<>> /\ Clean(phrases[f])
      BY <1>1, PhrasesAre
    <3>2. \A after : ~OccursAt(phrases[f], redacted, after)
      BY <1>1, <1>2
    <3> QED BY <2>2, <3>1, <3>2
  <2> QED BY <1>2, <1>4, <2>1, <2>3, RedactionOfRedaction
<1>9. CASE blocked
  <2>1. text # <<BLOCKED>>
    <3> SUFFICES ASSUME text = <<BLOCKED>>
                 PROVE  FALSE
      OBVIOUS
    <3>1. \A i \in 1 .. Len(text) : text[i] = BLOCKED
      BY <3>1
    <3>2. BLOCKED \notin canaryTokens /\ BLOCKED \notin PrivateKey /\ BLOCKED \notin Pii
          /\ REDACTED \notin PrivateKey /\ REDACTED \notin Pii
      BY MarkersAre
    <3>3. ~CanaryLeak(text)
      BY <1>6, <3>1, <3>2
    <3>4. \A i \in 1 .. Len(redacted) : redacted[i] = BLOCKED \/ redacted[i] = REDACTED
      BY <1>7, <3>1
    <3> QED BY <1>7, <1>9, <3>2, <3>3, <3>4
  <2>2. Inspect(text).action = "BLOCK" /\ Inspect(text).delivered = <<BLOCKED>>
    BY <1>5, <1>9
  <2> HIDE DEF blocked
  <2>3. ToSet(Inspect(text).delivered) \intersect
          (canaryTokens \union PrivateKey \union Credential \union Pii) = {}
    BY <2>2, BlockedIs, MarkersAre
  <2>4. \A f \in DOMAIN phrases : ~Occurs(phrases[f], Inspect(text).delivered)
    BY <1>1, <2>2, BlockedIs
  <2> QED BY <2>1, <2>2, <2>3, <2>4, BlockedIs DEF IsAnswer, phrases
<1>10. CASE ~blocked
  <2>1. /\ Inspect(text).delivered = sanitized
        /\ Inspect(text).action = IF sanitized # text THEN "REDACT" ELSE "ALLOW"
    BY <1>5, <1>10
  <2>2. ASSUME NEW i \in 1 .. Len(sanitized)
        PROVE  sanitized[i] \notin canaryTokens \union Secret
    <3>1. sanitized[i] \notin Secret
      BY <1>4
    <3>2. CASE sanitized[i] = REDACTED
      BY <3>1, <3>2, MarkersAre
    <3>3. CASE sanitized[i] # REDACTED
      <4>1. PICK j \in 1 .. Len(text) : text[j] = sanitized[i]
        BY <1>8, <3>3, WordsLeft
      <4> QED BY <1>6, <1>10, <3>1, <4>1
    <3> QED BY <3>2, <3>3
  <2>3. ToSet(sanitized) \intersect
          (canaryTokens \union PrivateKey \union Credential \union Pii) = {}
    BY <1>8, <2>2, WordsOf
  <2>4. \A f \in DOMAIN phrases : ~Occurs(phrases[f], sanitized)
    <3> SUFFICES ASSUME NEW f \in DOMAIN phrases
                 PROVE  ~Occurs(phrases[f], sanitized)
      OBVIOUS
    <3>1. phrases[f] \in Seq(Word) /\ phrases[f] # <<>>
      BY <1>1, PhrasesAre
    <3> QED BY <1>8, <3>1, OccursIs
  <2>5. sanitized # text => sanitized # <<BLOCKED>>
    <3> SUFFICES ASSUME sanitized = <<BLOCKED>>
                 PROVE  sanitized = text
      OBVIOUS
    <3>1. \A i \in 1 .. Len(sanitized) : sanitized[i] = BLOCKED
      BY <3>1
    <3>2. Clean(sanitized)
      BY <3>1, MarkersAre DEF Clean
    <3> QED BY <1>8, <3>2 DEF IsRedactionOf
  <2> HIDE DEF blocked
  <2> QED BY <1>8, <2>1, <2>3, <2>4, <2>5 DEF IsAnswer, phrases
<1> QED BY <1>9, <1>10

-----------------------------------------------------------------------------
(* The gateway. *)

\* What holds of the gateway in every state.
GatewayInv == GatewayTypeOK /\ EveryDetectionBlocks

\* The inspections so far, and one more.
LEMMA OneMoreInspection ==
  ASSUME GatewayInv, NEW inspection \in Inspection,
         inspections' = Append(inspections, inspection),
         inspection.kind = "input" =>
           /\ Detected(inspection.asked) => inspection.action = "BLOCK"
           /\ ~Detected(inspection.asked) => inspection.action = "ALLOW"
  PROVE  inspections' \in Seq(Inspection) /\ EveryDetectionBlocks'
<1>1. inspections \in Seq(Inspection)
  BY DEF GatewayInv, GatewayTypeOK
<1> DEFINE n == Len(inspections)
<1>2. /\ inspections' \in Seq(Inspection) /\ DOMAIN inspections' = 1 .. n + 1 /\ n \in Nat
      /\ DOMAIN inspections = 1 .. n
      /\ \A i \in 1 .. n : inspections'[i] = inspections[i]
      /\ inspections'[n + 1] = inspection
  BY <1>1
<1> HIDE DEF n
<1>3. ASSUME NEW i \in 1 .. n + 1, inspections'[i].kind = "input"
      PROVE  /\ Detected(inspections'[i].asked) => inspections'[i].action = "BLOCK"
             /\ ~Detected(inspections'[i].asked) => inspections'[i].action = "ALLOW"
  <2>1. CASE i = n + 1
    BY <1>2, <1>3, <2>1
  <2>2. CASE i # n + 1
    <3>1. i \in 1 .. n
      BY <1>2, <2>2
    <3>2. inspections'[i] = inspections[i] /\ i \in DOMAIN inspections
      BY <1>2, <3>1
    <3> QED BY <1>3, <3>2 DEF GatewayInv, EveryDetectionBlocks
  <2> QED BY <2>1, <2>2
<1> QED BY <1>2, <1>3 DEF EveryDetectionBlocks

\* An answer of the gateway about a prompt.
LEMMA InputKeepsTheGateway ==
  ASSUME GatewayInv, NEW prompt \in PromptAsked, InspectInput(prompt)
  PROVE  GatewayInv'
<1> DEFINE inspection == [kind |-> "input", asked |-> prompt, action |-> Action(prompt),
                          delivered |-> prompt]
<1>1. prompt \in Prompt
  BY GatewayAssumption
<1>2. Action(prompt) = IF Detected(prompt) THEN "BLOCK" ELSE "ALLOW"
  BY <1>1, DetectionBlocks
<1>3. Action(prompt) \in {"BLOCK", "ALLOW"}
  BY <1>2
<1>4. inspection \in Inspection
  BY <1>1, <1>3 DEF Inspection, Actions
<1>5. inspections' = Append(inspections, inspection) /\ UNCHANGED armorVars
  BY DEF InspectInput, Inspected
<1>6. /\ Detected(inspection.asked) => inspection.action = "BLOCK"
      /\ ~Detected(inspection.asked) => inspection.action = "ALLOW"
  BY <1>2
<1> HIDE DEF inspection
<1>7. inspections' \in Seq(Inspection) /\ EveryDetectionBlocks'
  BY <1>4, <1>5, <1>6, OneMoreInspection
<1>8. gatewayAudit' \in Seq(AuditRecord)
  <2>1. gatewayAudit \in Seq(AuditRecord)
    BY DEF GatewayInv, GatewayTypeOK
  <2>2. [what |-> "prompt_injection_blocked", result |-> "FAILURE"] \in AuditRecord
    BY DEF AuditRecord
  <2>3. \/ gatewayAudit' = gatewayAudit
        \/ gatewayAudit' = Append(gatewayAudit, [what |-> "prompt_injection_blocked",
                                                 result |-> "FAILURE"])
    BY DEF InspectInput
  <2>4. \A s \in Seq(AuditRecord), r \in AuditRecord : Append(s, r) \in Seq(AuditRecord)
    OBVIOUS
  <2> QED BY <2>1, <2>2, <2>3, <2>4
<1>9. ArmorTypeOK'
  BY <1>5 DEF GatewayInv, GatewayTypeOK, ArmorTypeOK, armorVars
<1> QED BY <1>7, <1>8, <1>9 DEF GatewayInv, GatewayTypeOK

\* What goes on record about an output: nothing, or one record that says how it ended.
LEMMA OutputRecordIs ==
  ASSUME NEW answer, answer.action \in {"ALLOW", "REDACT", "BLOCK"}
  PROVE  \/ answer.action = "ALLOW" /\ OutputRecord(answer) = <<>>
         \/ \E record \in AuditRecord :
              /\ answer.action # "ALLOW"
              /\ OutputRecord(answer) = <<record>>
              /\ record.result = "FAILURE" <=> answer.action = "BLOCK"
<1> DEFINE record == [what |-> "model_armor_sanitized",
                      result |-> IF answer.action = "BLOCK" THEN "FAILURE" ELSE "SUCCESS"]
<1>1. CASE answer.action = "ALLOW"
  BY <1>1 DEF OutputRecord
<1>2. CASE answer.action # "ALLOW"
  <2>1. record \in AuditRecord /\ (record.result = "FAILURE" <=> answer.action = "BLOCK")
    BY DEF AuditRecord
  <2>2. OutputRecord(answer) = <<record>>
    BY <1>2 DEF OutputRecord
  <2> HIDE DEF record
  <2> QED BY <1>2, <2>1, <2>2
<1> QED BY <1>1, <1>2

\* The record with what goes on it.
LEMMA RecordGrows ==
  ASSUME NEW s \in Seq(AuditRecord)
  PROVE  /\ s \o <<>> = s
         /\ \A record \in AuditRecord :
              /\ s \o <<record>> \in Seq(AuditRecord)
              /\ s \o <<record>> # s
              /\ Last(s \o <<record>>) = record
<1>1. s \o <<>> = s
  OBVIOUS
<1>2. ASSUME NEW record \in AuditRecord
      PROVE  /\ s \o <<record>> \in Seq(AuditRecord)
             /\ s \o <<record>> # s
             /\ Last(s \o <<record>>) = record
  <2>1. <<record>> \in Seq(AuditRecord) /\ Len(<<record>>) = 1 /\ <<record>>[1] = record
    OBVIOUS
  <2>2. /\ s \o <<record>> \in Seq(AuditRecord) /\ Len(s \o <<record>>) = Len(s) + 1
        /\ (s \o <<record>>)[Len(s) + 1] = record
    BY <2>1
  <2>3. s \o <<record>> # s
    <3>1. Len(s) \in Nat
      OBVIOUS
    <3> QED BY <2>2, <3>1
  <2> QED BY <2>2, <2>3 DEF Last
<1> QED BY <1>1, <1>2

\* An answer of the gateway about an output.
LEMMA OutputKeepsTheGateway ==
  ASSUME GatewayInv, NEW text \in Output, InspectOutput(text)
  PROVE  GatewayInv'
<1> DEFINE answer == Inspect(text)
           inspection == [kind |-> "output", asked |-> text, action |-> answer.action,
                          delivered |-> answer.delivered]
<1>1. text \in Seq(Word) /\ ArmorTypeOK
  BY GatewayAssumption DEF GatewayInv, GatewayTypeOK
<1>2. IsAnswer(answer, text)
  BY <1>1, InspectionIs
<1>3. /\ inspections' = Append(inspections, inspection) /\ UNCHANGED armorVars
      /\ gatewayAudit' = gatewayAudit \o OutputRecord(answer)
  BY DEF InspectOutput, Inspected
<1> HIDE DEF answer
<1>4. answer.action \in {"ALLOW", "REDACT", "BLOCK"} /\ answer.delivered \in Seq(Word)
  BY <1>2 DEF IsAnswer
<1>5. inspection \in Inspection /\ inspection.kind = "output"
  BY <1>1, <1>4 DEF Inspection, Actions
<1> HIDE DEF inspection
<1>6. inspections' \in Seq(Inspection) /\ EveryDetectionBlocks'
  BY <1>3, <1>5, OneMoreInspection
<1>7. gatewayAudit' \in Seq(AuditRecord)
  <2>1. gatewayAudit \in Seq(AuditRecord)
    BY DEF GatewayInv, GatewayTypeOK
  <2>2. CASE OutputRecord(answer) = <<>>
    BY <1>3, <2>1, <2>2, RecordGrows
  <2>3. ASSUME NEW record \in AuditRecord, OutputRecord(answer) = <<record>>
        PROVE  gatewayAudit' \in Seq(AuditRecord)
    BY <1>3, <2>1, <2>3, RecordGrows
  <2> QED BY <1>4, <2>2, <2>3, OutputRecordIs
<1>8. ArmorTypeOK'
  BY <1>1, <1>3 DEF ArmorTypeOK, armorVars
<1> QED BY <1>6, <1>7, <1>8 DEF GatewayInv, GatewayTypeOK

\* The gateway stays as it should.
LEMMA GatewayStays ==
  ASSUME GatewayInv, [GatewayNext]_filterVars
  PROVE  GatewayInv'
<1>1. CASE UNCHANGED filterVars
  BY <1>1 DEF filterVars, armorVars, GatewayInv, GatewayTypeOK, ArmorTypeOK, EveryDetectionBlocks
<1>2. CASE ArmorNext /\ UNCHANGED <<gatewayAudit, inspections>>
  <2>1. canaryTokens \subseteq Canary /\ systemPromptFingerprints \in Seq(Fingerprint)
    BY DEF GatewayInv, GatewayTypeOK, ArmorTypeOK
  <2>2. canaryTokens' \subseteq Canary /\ systemPromptFingerprints' \in Seq(Fingerprint)
    BY <1>2, <2>1 DEF ArmorNext, RegisterCanaryToken, RegisterSystemFingerprint
  <2>3. inspections' = inspections /\ gatewayAudit' = gatewayAudit
    BY <1>2
  <2> QED BY <2>2, <2>3 DEF GatewayInv, GatewayTypeOK, ArmorTypeOK, EveryDetectionBlocks
<1>3. ASSUME NEW prompt \in PromptAsked, InspectInput(prompt)
      PROVE  GatewayInv'
  BY <1>3, InputKeepsTheGateway
<1>4. ASSUME NEW text \in Output, InspectOutput(text)
      PROVE  GatewayInv'
  BY <1>4, OutputKeepsTheGateway
<1> QED BY <1>1, <1>2, <1>3, <1>4 DEF GatewayNext

\* A behaviour of the AI services is one of the gateway's filters.
LEMMA GatewayTakesItsSteps ==
  ASSUME [AiNext]_aiVars
  PROVE  [GatewayNext]_filterVars
BY DEF AiNext, AiTick, RejectAiRequest, aiVars

\* The gateway in every state.
LEMMA GatewayInvHolds == AiSpec => []GatewayInv
<1>1. AiInit => GatewayInv
  <2> SUFFICES ASSUME AiInit
               PROVE  GatewayInv
    OBVIOUS
  <2>1. /\ canaryTokens = {} /\ systemPromptFingerprints = <<>>
        /\ gatewayAudit = <<>> /\ inspections = <<>>
    BY DEF AiInit, GatewayInit, ArmorInit
  <2>2. DOMAIN <<>> = {}
    OBVIOUS
  <2> QED BY <2>1, <2>2 DEF GatewayInv, GatewayTypeOK, ArmorTypeOK, EveryDetectionBlocks
<1>2. GatewayInv /\ [AiNext]_aiVars => GatewayInv'
  BY GatewayStays, GatewayTakesItsSteps
<1> QED BY <1>1, <1>2, PTL DEF AiSpec

\* A prompt passes if and only if no rule matches it in any of its forms, for every one
\* of the prompts that can be told apart: the score of a detection never ends below the
\* threshold that blocks.
THEOREM DetectionsBlock == AiSpec => []EveryDetectionBlocks
<1>1. GatewayInv => EveryDetectionBlocks
  BY DEF GatewayInv
<1> QED BY <1>1, GatewayInvHolds, PTL

\* Whatever is registered, in whatever order, and however phrases overlap, no canary, no
\* secret and no registered phrase is in what the armor delivers of an output, however
\* long; and what was held back is on record, as a failure if it was all.
THEOREM NothingLeaves == AiSpec => NothingRegisteredLeaves
<1> DEFINE Held ==
      inspections' # inspections /\ Last(inspections').kind = "output" =>
        LET i == Last(inspections')
            leaving == ToSet(i.delivered)
        IN  /\ leaving \intersect
                 (canaryTokens \union PrivateKey \union Credential \union Pii) = {}
            /\ \A f \in DOMAIN systemPromptFingerprints :
                 ~Occurs(systemPromptFingerprints[f], i.delivered)
            /\ i.delivered # i.asked <=> gatewayAudit' # gatewayAudit
            /\ i.delivered # i.asked =>
                 (Last(gatewayAudit').result = "FAILURE" <=> i.delivered = <<BLOCKED>>)
<1>1. ASSUME GatewayInv, NEW kind, NEW asked, NEW action, NEW delivered,
             Inspected(kind, asked, action, delivered)
      PROVE  Last(inspections') = [kind |-> kind, asked |-> asked, action |-> action,
                                   delivered |-> delivered]
  <2>1. inspections \in Seq(Inspection)
    BY <1>1 DEF GatewayInv, GatewayTypeOK
  <2>2. \A s \in Seq(Inspection) : \A x :
          Len(Append(s, x)) = Len(s) + 1 /\ Append(s, x)[Len(s) + 1] = x
    OBVIOUS
  <2> QED BY <1>1, <2>1, <2>2 DEF Inspected, Last
<1>2. ASSUME GatewayInv, NEW text \in Output, InspectOutput(text)
      PROVE  Held
  <2> DEFINE answer == Inspect(text)
             i == Last(inspections')
  <2>1. text \in Seq(Word) /\ ArmorTypeOK /\ gatewayAudit \in Seq(AuditRecord)
    BY <1>2, GatewayAssumption DEF GatewayInv, GatewayTypeOK
  <2>2. IsAnswer(answer, text)
    BY <2>1, InspectionIs
  <2>3. /\ Inspected("output", text, answer.action, answer.delivered)
        /\ gatewayAudit' = gatewayAudit \o OutputRecord(answer)
    BY <1>2 DEF InspectOutput
  <2> HIDE DEF answer
  <2>4. i.delivered = answer.delivered /\ i.asked = text
    BY <1>1, <1>2, <2>3
  <2> HIDE DEF i
  <2>5. answer.action \in {"ALLOW", "REDACT", "BLOCK"}
        /\ (answer.action = "ALLOW" <=> answer.delivered = text)
    BY <2>2 DEF IsAnswer
  <2>6. CASE answer.action = "ALLOW" /\ OutputRecord(answer) = <<>>
    <3>1. gatewayAudit' = gatewayAudit
      BY <2>1, <2>3, <2>6, RecordGrows
    <3> QED BY <2>2, <2>4, <2>5, <2>6, <3>1 DEF IsAnswer, i
  <2>7. ASSUME NEW record \in AuditRecord, answer.action # "ALLOW",
               OutputRecord(answer) = <<record>>,
               record.result = "FAILURE" <=> answer.action = "BLOCK"
        PROVE  Held
    <3>1. gatewayAudit' # gatewayAudit /\ Last(gatewayAudit') = record
      BY <2>1, <2>3, <2>7, RecordGrows
    <3> QED BY <2>2, <2>4, <2>5, <2>7, <3>1 DEF IsAnswer, i
  <2> HIDE DEF Held
  <2> QED BY <2>5, <2>6, <2>7, OutputRecordIs
<1>3. ASSUME GatewayInv, NEW prompt \in PromptAsked, InspectInput(prompt)
      PROVE  Held
  <2>1. Last(inspections').kind = "input"
    BY <1>1, <1>3 DEF InspectInput
  <2> QED BY <2>1
<1>4. GatewayInv /\ [AiNext]_aiVars => [Held]_filterVars
  <2> SUFFICES ASSUME GatewayInv, [GatewayNext]_filterVars, inspections' # inspections
               PROVE  Held
    BY GatewayTakesItsSteps
  <2> HIDE DEF Held
  <2> QED BY <1>2, <1>3 DEF GatewayNext, filterVars, ArmorNext
<1>5. AiSpec => [][Held]_filterVars
  BY <1>4, GatewayInvHolds, PTL DEF AiSpec
<1> QED BY <1>5 DEF NothingRegisteredLeaves

-----------------------------------------------------------------------------
(* The pipeline, which asks the registry of tool policies. *)

\* checkPermission denies, asks for approval or allows, whatever is asked.
LEMMA PermissionIs ==
  ASSUME PermissionsTypeOK, NEW request, request.agent \in Agent
  PROVE  CheckPermission(request) \in {"DENY", "REQUIRE_APPROVAL", "ALLOW"}
<1>1. policies[request.agent].default \in {"DENY", "ALLOW"}
  <2>1. policies[request.agent] \in ToolPolicy \union {NoPolicy, VegaPolicy}
    BY DEF PermissionsTypeOK
  <2> QED BY <2>1, ToolPolicyAssumption DEF NoPolicy, VegaPolicy
<1> QED BY <1>1 DEF CheckPermission

\* A request is completed if nothing leaked and every tool call is allowed.
LEMMA CompletedIfAllowed ==
  ASSUME PermissionsTypeOK, NEW agent \in Agent, NEW output \in ModelOutput
  PROVE  Decide(agent, output) = "COMPLETED" <=>
           /\ ~output.leaks
           /\ \A i \in DOMAIN output.toolCalls : PermittedCall(agent, output.toolCalls[i])
<1> DEFINE Asked(i) == [agent |-> agent, tool |-> output.toolCalls[i].tool,
                        fits |-> output.toolCalls[i].fits]
           decisions == CheckToolPermissions(agent, output.toolCalls)
<1>1. decisions = {CheckPermission(Asked(i)) : i \in DOMAIN output.toolCalls}
  BY DEF CheckToolPermissions
<1>2. \A i : CheckPermission(Asked(i)) \in {"DENY", "REQUIRE_APPROVAL", "ALLOW"}
  BY PermissionIs
<1>3. \A i : PermittedCall(agent, output.toolCalls[i])
               <=> CheckPermission(Asked(i)) = "ALLOW"
  BY DEF PermittedCall
<1> HIDE DEF Asked, decisions
<1>4. (\A i \in DOMAIN output.toolCalls : PermittedCall(agent, output.toolCalls[i]))
        <=> "DENY" \notin decisions /\ "REQUIRE_APPROVAL" \notin decisions
  BY <1>1, <1>2, <1>3
<1>5. output.leaks \in BOOLEAN
  BY PipelineAssumption
<1> QED BY <1>4, <1>5 DEF Decide, decisions

\* What is known of policies and of the requests in progress.
LEMMA PipelineStays ==
  ASSUME PipelineTypeOK, [PipelineNext]_pipelineVars
  PROVE  PipelineTypeOK'
<1>1. CASE UNCHANGED pipelineVars
  BY <1>1 DEF pipelineVars, PipelineTypeOK, PermissionsTypeOK
<1>2. CASE PermissionsNext /\ UNCHANGED asks
  BY <1>2 DEF PermissionsNext, RegisterPolicy, PipelineTypeOK, PermissionsTypeOK
<1>3. ASSUME NEW a \in Ask, NEW request \in AiRequest, ExecutePipeline(a, request)
      PROVE  PipelineTypeOK'
  BY <1>3 DEF ExecutePipeline, Stop, AskVerdict, PipelineTypeOK, PermissionsTypeOK
<1>4. ASSUME NEW a \in Ask, NEW output \in ModelOutput, ModelAnswers(a, output)
      PROVE  PipelineTypeOK'
  <2>1. asks[a].request \in AiRequest
    BY <1>4 DEF ModelAnswers, PipelineTypeOK, NotAsked
  <2>2. Decide(asks[a].request.agent, output) \in AskVerdict
    BY DEF Decide, AskVerdict
  <2> QED BY <1>4, <2>1, <2>2 DEF ModelAnswers, PipelineTypeOK, PermissionsTypeOK
<1>5. ASSUME NEW a \in Ask, ModelFails(a)
      PROVE  PipelineTypeOK'
  BY <1>5 DEF ModelFails, Stop, AskVerdict, PipelineTypeOK, PermissionsTypeOK
<1> QED BY <1>1, <1>2, <1>3, <1>4, <1>5 DEF PipelineNext

\* A behaviour of the AI services is one of the pipeline.
LEMMA PipelineTakesItsSteps ==
  ASSUME [AiNext]_aiVars
  PROVE  [PipelineNext]_pipelineVars
BY DEF AiNext, AiTick, RejectAiRequest, aiVars, pipelineVars

\* Quotas, inspections, policies and requests keep their types.
THEOREM AiTypesHold == AiSpec => []AiTypeOK
<1>1. AiInit => PipelineTypeOK
  BY DEF AiInit, PipelineInit, PermissionsInit, PipelineTypeOK, PermissionsTypeOK
<1>2. PipelineTypeOK /\ [AiNext]_aiVars => PipelineTypeOK'
  BY PipelineStays, PipelineTakesItsSteps
<1>3. SandboxInv /\ GatewayInv /\ PipelineTypeOK => AiTypeOK
  BY DEF SandboxInv, SandboxTypeOK, GatewayInv, AiTypeOK
<1> QED BY <1>1, <1>2, <1>3, SandboxInvHolds, GatewayInvHolds, PTL DEF AiSpec

\* executePipeline completes a request if and only if the model leaked nothing and
\* the policies in force when it answers allow every tool call, whatever was
\* registered while it was awaited.
THEOREM CompletedUnderPolicies == AiSpec => CompletedUnderPoliciesInForce
<1> DEFINE Due ==
      \A a \in Ask :
        asks[a].phase = "model" /\ asks'[a].phase = "answered"
          /\ asks'[a].verdict # "ERROR" =>
          LET output == asks'[a].output
          IN  asks'[a].verdict = "COMPLETED" <=>
                /\ ~output.leaks
                /\ \A i \in DOMAIN output.toolCalls :
                     PermittedCall(asks[a].request.agent, output.toolCalls[i])
<1>1. ASSUME PipelineTypeOK, [PipelineNext]_pipelineVars
      PROVE  [Due]_pipelineVars
  <2> SUFFICES ASSUME PipelineNext, NEW a \in Ask, asks[a].phase = "model",
                      asks'[a].phase = "answered", asks'[a].verdict # "ERROR"
               PROVE  asks'[a].verdict = "COMPLETED" <=>
                        /\ ~asks'[a].output.leaks
                        /\ \A i \in DOMAIN asks'[a].output.toolCalls :
                             PermittedCall(asks[a].request.agent,
                                           asks'[a].output.toolCalls[i])
    BY <1>1
  <2>1. PermissionsTypeOK /\ asks[a].request \in AiRequest
    BY <1>1 DEF PipelineTypeOK, NotAsked
  <2>2. PICK output \in ModelOutput : ModelAnswers(a, output)
    <3>1. asks' # asks
      OBVIOUS
    <3>2. ASSUME NEW b \in Ask, b # a,
                 \/ \E request \in AiRequest : ExecutePipeline(b, request)
                 \/ \E output \in ModelOutput : ModelAnswers(b, output)
                 \/ ModelFails(b)
          PROVE  FALSE
      BY <1>1, <3>2 DEF PipelineTypeOK, ExecutePipeline, ModelAnswers, ModelFails, Stop
    <3>3. ~ \E request \in AiRequest : ExecutePipeline(a, request)
      BY DEF ExecutePipeline, NotAsked
    <3>4. ~ModelFails(a)
      BY <1>1 DEF ModelFails, Stop, PipelineTypeOK
    <3> QED BY <3>1, <3>2, <3>3, <3>4 DEF PipelineNext
  <2>3. /\ asks'[a].output = output
        /\ asks'[a].verdict = Decide(asks[a].request.agent, output)
    BY <1>1, <2>2 DEF ModelAnswers, PipelineTypeOK
  <2>4. asks[a].request.agent \in Agent
    BY <2>1, PipelineAssumption
  <2> QED BY <2>1, <2>3, <2>4, CompletedIfAllowed
<1>2. AiTypeOK /\ [AiNext]_aiVars => [Due]_pipelineVars
  <2> SUFFICES ASSUME AiTypeOK, [AiNext]_aiVars
               PROVE  [Due]_pipelineVars
    OBVIOUS
  <2>1. PipelineTypeOK
    BY DEF AiTypeOK
  <2> HIDE DEF Due
  <2> QED BY <1>1, <2>1, PipelineTakesItsSteps
<1>3. AiSpec => [][Due]_pipelineVars
  BY <1>2, AiTypesHold, PTL DEF AiSpec
<1> QED BY <1>3 DEF CompletedUnderPoliciesInForce

=============================================================================
