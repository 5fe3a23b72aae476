-------------------------- MODULE ReplayGuardProofs --------------------------
(***************************************************************************)
(* A nonce is granted once in its lifetime: by the shared backend of all   *)
(* nodes without exception, by the in-memory store but for what it had to  *)
(* forget.                                                                 *)
(***************************************************************************)
EXTENDS ReplayGuard, SequenceTheorems, FiniteSetTheorems, WellFoundedInduction, TLAPS

-----------------------------------------------------------------------------
\* A set of naturals that is not empty has a least element.
LEMMA LeastNatural ==
  ASSUME NEW S, S \subseteq Nat, S # {}
  PROVE  /\ Min(S) \in S
         /\ \A y \in S : Min(S) <= y
<1> DEFINE Less == {p \in Nat \X Nat : p[1] < p[2]}
<1>1. IsWellFoundedOn(Less, Nat)
  BY NatLessThanWellFounded, Zenon DEF OpToRel
<1>2. ASSUME NEW x \in Nat, NEW y \in Nat, y < x
      PROVE  <<y, x>> \in Less
  <2>1. <<y, x>> \in Nat \X Nat
    BY SMT
  <2>2. <<y, x>>[1] < <<y, x>>[2]
    BY <1>2, SMT
  <2> QED BY <2>1, <2>2, Zenon
<1> HIDE DEF Less
<1>3. PICK x \in S : \A y \in S : <<y, x>> \notin Less
  BY <1>1, WFMin, Zenon
<1>4. ASSUME NEW y \in S
      PROVE  x <= y
  <2>1. ~(y < x)
    BY <1>2, <1>3, Zenon
  <2> QED BY <2>1, SMT
<1> QED BY <1>4 DEF Min

-----------------------------------------------------------------------------
(* The in-memory store. *)

\* Nonces are remembered once, in the order in which they expire: every entry is
\* set to expire TTL from now, and the clock does not step back.
Ordered(s) ==
  \A i, j \in 1 .. Len(s) :
    i < j => s[i].nonce # s[j].nonce /\ s[i].expiry <= s[j].expiry

StoreInv ==
  /\ Ordered(store)
  /\ \A i \in 1 .. Len(store) : store[i].expiry <= now + TTL

\* What is left of s when its first m entries are gone.
IsRest(t, s, m) ==
  /\ t \in Seq(Entry)
  /\ m \in 0 .. Len(s)
  /\ Len(t) = Len(s) - m
  /\ \A i \in 1 .. Len(t) : t[i] = s[m + i]

\* SubSeq leaves the rest.
LEMMA RestOf ==
  ASSUME NEW s \in Seq(Entry), NEW m \in 0 .. Len(s)
  PROVE  IsRest(SubSeq(s, m + 1, Len(s)), s, m)
<1>1. /\ m + 1 \in Int /\ Len(s) \in Int
      /\ \A i \in m + 1 .. Len(s) : s[i] \in Entry
  OBVIOUS
<1>2. /\ SubSeq(s, m + 1, Len(s)) \in Seq(Entry)
      /\ Len(SubSeq(s, m + 1, Len(s))) = Len(s) - m
      /\ \A i \in 1 .. Len(s) - m : SubSeq(s, m + 1, Len(s))[i] = s[m + i]
  BY <1>1, SubSeqProperties
<1> QED BY <1>2 DEF IsRest

\* In an ordered store the entry of a nonce is the only one.
LEMMA ExpiryIs ==
  ASSUME NEW s \in Seq(Entry), Ordered(s), NEW i \in 1 .. Len(s)
  PROVE  ExpiryOf(s, s[i].nonce) = s[i].expiry
<1> DEFINE j == CHOOSE k \in 1 .. Len(s) : s[k].nonce = s[i].nonce
<1>1. j \in 1 .. Len(s) /\ s[j].nonce = s[i].nonce
  OBVIOUS
<1> HIDE DEF j
<1>2. j = i
  BY <1>1 DEF Ordered
<1> QED BY <1>2 DEF ExpiryOf, j

\* The rest of an ordered store is ordered and remembers as long.
LEMMA RestKeepsOrder ==
  ASSUME NEW s \in Seq(Entry), Ordered(s), NEW t, NEW m, IsRest(t, s, m)
  PROVE  /\ Ordered(t)
         /\ LiveNonces(t) = {s[i].nonce : i \in {j \in m + 1 .. Len(s) : Live(s[j])}}
         /\ \A n \in LiveNonces(t) : ExpiryOf(t, n) = ExpiryOf(s, n)
<1>1. /\ t \in Seq(Entry) /\ m \in Nat /\ m <= Len(s) /\ Len(s) \in Nat
      /\ Len(t) = Len(s) - m
      /\ \A i \in 1 .. Len(t) : t[i] = s[m + i] /\ m + i \in m + 1 .. Len(s)
  BY DEF IsRest
<1>2. Ordered(t)
  BY <1>1 DEF Ordered
<1>3. LiveNonces(t) = {s[i].nonce : i \in {j \in m + 1 .. Len(s) : Live(s[j])}}
  <2>1. ASSUME NEW i \in 1 .. Len(t), Live(t[i])
        PROVE  t[i].nonce \in {s[j].nonce : j \in {k \in m + 1 .. Len(s) : Live(s[k])}}
    <3>1. m + i \in m + 1 .. Len(s) /\ Live(s[m + i]) /\ t[i].nonce = s[m + i].nonce
      BY <1>1, <2>1
    <3> QED BY <3>1
  <2>2. ASSUME NEW j \in m + 1 .. Len(s), Live(s[j])
        PROVE  s[j].nonce \in LiveNonces(t)
    <3>1. j - m \in 1 .. Len(t) /\ m + (j - m) = j
      BY <1>1
    <3>2. t[j - m] = s[j]
      BY <1>1, <3>1
    <3> QED BY <2>2, <3>1, <3>2 DEF LiveNonces
  <2> QED BY <2>1, <2>2 DEF LiveNonces
<1>4. ASSUME NEW n \in LiveNonces(t)
      PROVE  ExpiryOf(t, n) = ExpiryOf(s, n)
  <2>1. PICK i \in 1 .. Len(t) : n = t[i].nonce
    BY DEF LiveNonces
  <2>2. m + i \in 1 .. Len(s) /\ t[i] = s[m + i]
    BY <1>1
  <2>3. ExpiryOf(t, n) = t[i].expiry
    BY <1>1, <1>2, <2>1, ExpiryIs
  <2>4. ExpiryOf(s, n) = s[m + i].expiry
    BY <2>1, <2>2, ExpiryIs
  <2> QED BY <2>2, <2>3, <2>4
<1> QED BY <1>2, <1>3, <1>4

\* Cleaning takes the entries that have expired, all of them and no others.
LEMMA CleanExpiredIs ==
  ASSUME now \in Nat, NEW s \in Seq(Entry), Ordered(s)
  PROVE  \E k \in 0 .. Len(s) :
           /\ IsRest(CleanExpired(s), s, k)
           /\ \A i \in 1 .. k : ~Live(s[i])
           /\ \A i \in k + 1 .. Len(s) : Live(s[i])
<1> DEFINE live == {i \in 1 .. Len(s) : Live(s[i])}
<1>1. CASE live = {}
  <2>1. CleanExpired(s) = << >>
    BY <1>1 DEF CleanExpired
  <2>2. IsRest(<< >>, s, Len(s))
    BY DEF IsRest
  <2> QED BY <1>1, <2>1, <2>2
<1>2. CASE live # {}
  <2> DEFINE first == Min(live)
  <2>1. live \subseteq Nat
    OBVIOUS
  <2>2. CleanExpired(s) = SubSeq(s, first, Len(s))
    BY <1>2 DEF CleanExpired
  <2>3. first \in live /\ \A i \in live : first <= i
    <3> HIDE DEF live
    <3> QED BY <1>2, <2>1, LeastNatural
  <2> HIDE DEF first
  <2>4. first \in 1 .. Len(s) /\ Live(s[first])
    BY <2>3
  <2>5. \A i \in 1 .. first - 1 : ~Live(s[i])
    BY <2>3, <2>4
  <2>6. \A i \in first .. Len(s) : Live(s[i])
    <3>1. ASSUME NEW i \in first .. Len(s)
          PROVE  Live(s[i])
      <4>1. s[i] \in Entry /\ s[first] \in Entry
        BY <2>4
      <4>2. s[first].expiry <= s[i].expiry
        BY <2>4, <4>1 DEF Ordered, Entry
      <4> QED BY <2>4, <4>1, <4>2 DEF Live, Entry
    <3> QED BY <3>1
  <2>7. first - 1 \in 0 .. Len(s) /\ (first - 1) + 1 = first
    BY <2>4
  <2>8. IsRest(SubSeq(s, first, Len(s)), s, first - 1)
    BY <2>7, RestOf
  <2> QED BY <2>2, <2>5, <2>6, <2>7, <2>8
<1> QED BY <1>1, <1>2

\* What the store holds after cleaning: every entry is live, and no live one is
\* missing.
LEMMA CleanedStore ==
  ASSUME TypeOK, StoreInv
  PROVE  \E k \in 0 .. Len(store) :
           /\ IsRest(CleanExpired(store), store, k)
           /\ Ordered(CleanExpired(store))
           /\ \A i \in 1 .. Len(CleanExpired(store)) :
                Live(CleanExpired(store)[i]) /\ CleanExpired(store)[i].expiry <= now + TTL
           /\ LiveNonces(CleanExpired(store)) = LiveNonces(store)
           /\ \A n \in LiveNonces(store) :
                ExpiryOf(CleanExpired(store), n) = ExpiryOf(store, n)
           /\ \A n : IsNew(Memory, n) <=> n \notin LiveNonces(store)
<1> DEFINE kept == CleanExpired(store)
<1>1. store \in Seq(Entry) /\ now \in Nat /\ Ordered(store)
  BY DEF TypeOK, StoreInv
<1>2. PICK k \in 0 .. Len(store) :
        /\ IsRest(kept, store, k)
        /\ \A i \in 1 .. k : ~Live(store[i])
        /\ \A i \in k + 1 .. Len(store) : Live(store[i])
  BY <1>1, CleanExpiredIs
<1>3. \A n : IsNew(Memory, n) <=> ~Consumed(kept, n)
  BY DEF IsNew
<1> HIDE DEF kept
<1>4. /\ Ordered(kept)
      /\ LiveNonces(kept) = {store[i].nonce : i \in {j \in k + 1 .. Len(store) : Live(store[j])}}
      /\ \A n \in LiveNonces(kept) : ExpiryOf(kept, n) = ExpiryOf(store, n)
  BY <1>1, <1>2, RestKeepsOrder
<1>5. LiveNonces(kept) = LiveNonces(store)
  <2>1. {j \in k + 1 .. Len(store) : Live(store[j])} = {j \in 1 .. Len(store) : Live(store[j])}
    BY <1>1, <1>2
  <2> QED BY <1>4, <2>1 DEF LiveNonces
<1>6. ASSUME NEW i \in 1 .. Len(kept)
      PROVE  Live(kept[i]) /\ kept[i].expiry <= now + TTL
  <2>1. k + i \in k + 1 .. Len(store) /\ kept[i] = store[k + i]
    BY <1>1, <1>2 DEF IsRest
  <2>2. k + i \in 1 .. Len(store)
    BY <1>1, <2>1
  <2> QED BY <1>2, <2>1, <2>2 DEF StoreInv
<1>7. ASSUME NEW n
      PROVE  Consumed(kept, n) <=> n \in LiveNonces(kept)
  BY DEF Consumed, LiveNonces
<1> QED BY <1>2, <1>3, <1>4, <1>5, <1>6, <1>7 DEF kept

\* Distinct positions hold distinct nonces.
LEMMA AsManyNonces ==
  ASSUME NEW s \in Seq(Entry), Ordered(s), \A i \in 1 .. Len(s) : Live(s[i])
  PROVE  Cardinality(LiveNonces(s)) = Len(s)
<1> DEFINE f == [i \in 1 .. Len(s) |-> s[i].nonce]
<1>1. LiveNonces(s) = {s[i].nonce : i \in 1 .. Len(s)}
  BY DEF LiveNonces
<1>2. f \in Bijection(1 .. Len(s), LiveNonces(s))
  BY <1>1 DEF Bijection, Injection, Surjection, IsInjective, Ordered
<1>3. ExistsBijection(1 .. Len(s), LiveNonces(s)) /\ Len(s) \in Nat
  BY <1>2 DEF ExistsBijection
<1> QED BY <1>3, FS_CountingElements

\* n is added, and what is dropped for it expires first of MaxEntries live nonces
\* or more, and is not the empty nonce.
Takes(next, n) ==
  \E dropped \in SUBSET LiveNonces(store) :
    /\ LiveNonces(next) = (LiveNonces(store) \ dropped) \union {n}
    /\ \A m \in LiveNonces(store) \ dropped : ExpiryOf(next, m) = ExpiryOf(store, m)
    /\ ExpiryOf(next, n) = now + TTL
    /\ \A m \in dropped :
         /\ Cardinality(LiveNonces(store)) >= MaxEntries
         /\ m # EmptyNonce
         /\ \A l \in LiveNonces(store) : ExpiryOf(store, m) <= ExpiryOf(store, l)

\* What has grown past MaxEntries has done so behind the empty nonce.
Outgrows(next) ==
  Len(next) > Len(store) /\ Len(next) > MaxEntries =>
    store # << >> /\ store[1].nonce = EmptyNonce /\ Live(store[1])

\* consume() of a nonce that is new.
LEMMA ConsumedStore ==
  ASSUME TypeOK, StoreInv, NEW n \in Nonce, n \notin LiveNonces(store),
         NEW next, next = SetEntry(Evicted(CleanExpired(store)), n)
  PROVE  /\ next \in Seq(Entry)
         /\ Outgrows(next)
         /\ Ordered(next)
         /\ \A i \in 1 .. Len(next) : next[i].expiry <= now + TTL
         /\ Takes(next, n)
<1> DEFINE kept == CleanExpired(store)
           left == Evicted(kept)
           entry == [nonce |-> n, expiry |-> now + TTL]
<1>1. /\ store \in Seq(Entry) /\ Len(store) \in Nat
      /\ now \in Nat /\ TTL \in Nat /\ MaxEntries \in Nat \ {0}
      /\ Ordered(store)
  BY ReplayGuardAssumption DEF TypeOK, StoreInv
<1>2. PICK k \in 0 .. Len(store) :
        /\ IsRest(kept, store, k)
        /\ Ordered(kept)
        /\ \A i \in 1 .. Len(kept) : Live(kept[i]) /\ kept[i].expiry <= now + TTL
        /\ LiveNonces(kept) = LiveNonces(store)
        /\ \A m \in LiveNonces(store) : ExpiryOf(kept, m) = ExpiryOf(store, m)
  BY CleanedStore
<1>3. kept \in Seq(Entry) /\ Len(kept) \in Nat /\ Len(kept) = Len(store) - k
  BY <1>1, <1>2 DEF IsRest
<1>4. left = IF Len(kept) >= MaxEntries /\ Head(kept).nonce # EmptyNonce
             THEN Tail(kept) ELSE kept
  BY DEF Evicted
<1> HIDE DEF kept
<1>5. PICK d \in 0 .. 1 :
        /\ IsRest(left, kept, d)
        /\ d = 1 <=> Len(kept) >= MaxEntries /\ kept[1].nonce # EmptyNonce
  <2>1. CASE Len(kept) >= MaxEntries /\ Head(kept).nonce # EmptyNonce
    <3>1. kept # << >>
      BY <1>1, <1>3, <2>1
    <3>2. /\ Tail(kept) \in Seq(Entry)
          /\ Len(Tail(kept)) = Len(kept) - 1
          /\ \A i \in 1 .. Len(Tail(kept)) : Tail(kept)[i] = kept[i + 1]
          /\ Head(kept) = kept[1]
      BY <1>3, <3>1, HeadTailProperties
    <3>3. IsRest(Tail(kept), kept, 1)
      BY <1>1, <1>3, <2>1, <3>2 DEF IsRest
    <3> QED BY <1>4, <2>1, <3>2, <3>3
  <2>2. CASE ~(Len(kept) >= MaxEntries /\ Head(kept).nonce # EmptyNonce)
    <3>1. IsRest(kept, kept, 0)
      BY <1>3 DEF IsRest
    <3>2. Len(kept) >= MaxEntries => Head(kept) = kept[1]
      <4>1. Len(kept) >= MaxEntries => kept # << >>
        BY <1>1, <1>3
      <4> QED BY <1>3, <4>1, HeadTailProperties
    <3>3. left = kept
      BY <1>4, <2>2
    <3> QED BY <2>2, <3>1, <3>2, <3>3
  <2> QED BY <2>1, <2>2
<1> HIDE DEF left
<1>6. /\ left \in Seq(Entry) /\ Len(left) \in Nat
      /\ Len(left) = Len(kept) - d
      /\ \A i \in 1 .. Len(left) : left[i] = kept[d + i] /\ d + i \in 1 .. Len(kept)
  BY <1>3, <1>5 DEF IsRest
<1>7. /\ Ordered(left)
      /\ LiveNonces(left) = {kept[i].nonce : i \in {j \in d + 1 .. Len(kept) : Live(kept[j])}}
      /\ \A m \in LiveNonces(left) : ExpiryOf(left, m) = ExpiryOf(kept, m)
  BY <1>2, <1>3, <1>5, RestKeepsOrder
<1>8. \A i \in 1 .. Len(left) : left[i].nonce \in LiveNonces(store)
  <2>1. \A i \in 1 .. Len(kept) : kept[i].nonce \in LiveNonces(kept)
    BY <1>2 DEF LiveNonces
  <2> QED BY <1>2, <1>6, <2>1
<1>9. next = Append(left, entry)
  BY <1>8 DEF SetEntry, left, kept
<1>10. entry \in Entry /\ entry.nonce = n /\ entry.expiry = now + TTL /\ Live(entry)
  BY <1>1 DEF Entry, Live
<1> HIDE DEF entry
<1>11. /\ next \in Seq(Entry)
       /\ Len(next) = Len(left) + 1
       /\ \A i \in 1 .. Len(left) : next[i] = left[i]
       /\ next[Len(left) + 1] = entry
  BY <1>6, <1>9, <1>10
<1>12. \A i \in 1 .. Len(left) : Live(left[i]) /\ left[i].expiry <= now + TTL
  BY <1>2, <1>6
<1>13. Ordered(next)
  <2>1. ASSUME NEW i \in 1 .. Len(next), NEW j \in 1 .. Len(next), i < j
        PROVE  next[i].nonce # next[j].nonce /\ next[i].expiry <= next[j].expiry
    <3>1. i \in 1 .. Len(left)
      BY <1>6, <1>11, <2>1
    <3>2. CASE j \in 1 .. Len(left)
      BY <1>7, <1>11, <2>1, <3>1, <3>2 DEF Ordered
    <3>3. CASE j = Len(left) + 1
      <4>1. next[i] = left[i] /\ next[j] = entry
        BY <1>11, <3>1, <3>3
      <4>2. left[i].nonce # n /\ left[i].expiry <= now + TTL
        BY <1>8, <1>12, <3>1
      <4> QED BY <1>10, <4>1, <4>2
    <3> QED BY <1>6, <1>11, <3>2, <3>3
  <2> QED BY <2>1 DEF Ordered
<1>14. \A i \in 1 .. Len(next) : next[i].expiry <= now + TTL /\ Live(next[i])
  <2>1. ASSUME NEW i \in 1 .. Len(next)
        PROVE  next[i].expiry <= now + TTL /\ Live(next[i])
    <3>1. CASE i \in 1 .. Len(left)
      BY <1>11, <1>12, <3>1
    <3>2. CASE i = Len(left) + 1
      BY <1>1, <1>10, <1>11, <3>2
    <3> QED BY <1>6, <1>11, <3>1, <3>2
  <2> QED BY <2>1
<1>15. Outgrows(next)
  <2> SUFFICES ASSUME Len(next) > Len(store), Len(next) > MaxEntries
               PROVE  store # << >> /\ store[1].nonce = EmptyNonce /\ Live(store[1])
    BY DEF Outgrows
  <2>1. d = 0 /\ k = 0 /\ Len(kept) >= MaxEntries /\ 1 \in 1 .. Len(kept)
    BY <1>1, <1>3, <1>6, <1>11
  <2>2. store # << >> /\ kept[1] = store[1]
    BY <1>1, <1>2, <1>3, <2>1 DEF IsRest
  <2> QED BY <1>2, <1>5, <2>1, <2>2
<1>16. LiveNonces(next) = LiveNonces(left) \union {n}
  <2>1. LiveNonces(next) = {next[i].nonce : i \in 1 .. Len(next)}
    BY <1>14 DEF LiveNonces
  <2>2. LiveNonces(left) = {left[i].nonce : i \in 1 .. Len(left)}
    BY <1>12 DEF LiveNonces
  <2>3. 1 .. Len(next) = (1 .. Len(left)) \union {Len(left) + 1}
    BY <1>6, <1>11
  <2> QED BY <1>10, <1>11, <2>1, <2>2, <2>3
<1>17. ASSUME NEW m \in LiveNonces(left)
       PROVE  ExpiryOf(next, m) = ExpiryOf(store, m)
  <2>1. PICK i \in 1 .. Len(left) : m = left[i].nonce
    BY DEF LiveNonces
  <2>2. i \in 1 .. Len(next) /\ next[i] = left[i]
    BY <1>6, <1>11
  <2>3. ExpiryOf(next, m) = left[i].expiry
    BY <1>11, <1>13, <2>1, <2>2, ExpiryIs
  <2>4. ExpiryOf(left, m) = left[i].expiry
    BY <1>6, <1>7, <2>1, ExpiryIs
  <2>5. m \in LiveNonces(store)
    BY <1>8, <2>1
  <2> QED BY <1>2, <1>7, <2>3, <2>4, <2>5
<1>18. ExpiryOf(next, n) = now + TTL
  <2>1. Len(left) + 1 \in 1 .. Len(next)
    BY <1>6, <1>11
  <2> QED BY <1>10, <1>11, <1>13, <2>1, ExpiryIs
<1> DEFINE dropped == LiveNonces(store) \ LiveNonces(left)
<1>19. LiveNonces(left) \subseteq LiveNonces(store)
  <2>1. LiveNonces(left) = {left[i].nonce : i \in 1 .. Len(left)}
    BY <1>12 DEF LiveNonces
  <2> QED BY <1>8, <2>1
<1>20. ASSUME NEW m \in dropped
       PROVE  /\ Cardinality(LiveNonces(store)) >= MaxEntries
              /\ m # EmptyNonce
              /\ \A l \in LiveNonces(store) : ExpiryOf(store, m) <= ExpiryOf(store, l)
  <2>1. LiveNonces(store) = {kept[i].nonce : i \in 1 .. Len(kept)}
    BY <1>2 DEF LiveNonces
  <2>2. PICK j \in 1 .. Len(kept) : m = kept[j].nonce
    BY <2>1
  <2>3. d = 1 /\ j = 1
    <3>1. j \notin d + 1 .. Len(kept)
      BY <1>2, <1>7, <2>2
    <3> QED BY <1>3, <3>1
  <2>4. Cardinality(LiveNonces(store)) >= MaxEntries /\ m # EmptyNonce
    <3>1. Len(kept) >= MaxEntries /\ kept[1].nonce # EmptyNonce
      BY <1>5, <2>3
    <3>2. Cardinality(LiveNonces(kept)) = Len(kept)
      BY <1>2, <1>3, AsManyNonces
    <3> QED BY <1>2, <2>2, <2>3, <3>1, <3>2
  <2>5. ASSUME NEW l \in LiveNonces(store)
        PROVE  ExpiryOf(store, m) <= ExpiryOf(store, l)
    <3>1. PICK i \in 1 .. Len(kept) : l = kept[i].nonce
      BY <2>1
    <3>2. ExpiryOf(store, l) = kept[i].expiry /\ ExpiryOf(store, m) = kept[1].expiry
      BY <1>2, <1>3, <2>2, <2>3, <3>1, ExpiryIs
    <3>3. kept[1] \in Entry /\ kept[i] \in Entry
      BY <1>3, <2>2, <2>3
    <3>4. kept[1].expiry <= kept[i].expiry
      BY <1>2, <1>3, <2>2, <2>3, <3>3 DEF Ordered, Entry
    <3> QED BY <3>2, <3>4
  <2> QED BY <2>4, <2>5
<1>21. /\ dropped \in SUBSET LiveNonces(store)
       /\ LiveNonces(next) = (LiveNonces(store) \ dropped) \union {n}
       /\ \A m \in LiveNonces(store) \ dropped : ExpiryOf(next, m) = ExpiryOf(store, m)
  BY <1>16, <1>17, <1>19
<1> HIDE DEF dropped
<1>22. Takes(next, n)
  BY <1>18, <1>20, <1>21 DEF Takes
<1> QED BY <1>11, <1>13, <1>14, <1>15, <1>22

-----------------------------------------------------------------------------
(* What every step keeps. *)

StoreOK(s, t) ==
  /\ s \in Seq(Entry)
  /\ Ordered(s)
  /\ \A i \in 1 .. Len(s) : s[i].expiry <= t + TTL

IInv == TypeOK /\ StoreInv

\* The invariant, of the store and the clock alone.
LEMMA StoreIsOK == IInv => StoreOK(store, now)
BY DEF IInv, TypeOK, StoreInv, StoreOK

\* Cleaning, and consuming from a store that is cleaned.
LEMMA CleaningKeepsStore ==
  ASSUME IInv
  PROVE  StoreOK(CleanExpired(store), now)
<1>1. store \in Seq(Entry)
  BY DEF IInv, TypeOK
<1>2. PICK k \in 0 .. Len(store) :
        /\ IsRest(CleanExpired(store), store, k)
        /\ Ordered(CleanExpired(store))
        /\ \A i \in 1 .. Len(CleanExpired(store)) : CleanExpired(store)[i].expiry <= now + TTL
  BY CleanedStore DEF IInv
<1>3. CleanExpired(store) \in Seq(Entry)
  BY <1>1, <1>2 DEF IsRest
<1> QED BY <1>2, <1>3 DEF StoreOK

\* A nonce that is consumed goes to the end of the store.
LEMMA ConsumeInMemoryKeepsStore ==
  ASSUME IInv, NEW n \in Nonce, ConsumeInMemory(n)
  PROVE  StoreOK(store', now)
<1>1. CASE IsNew(Memory, n)
  <2>1. store' = SetEntry(Evicted(CleanExpired(store)), n)
    BY <1>1 DEF ConsumeInMemory
  <2>2. n \notin LiveNonces(store)
    BY <1>1, CleanedStore DEF IInv
  <2>3. /\ store' \in Seq(Entry)
        /\ Ordered(store')
        /\ \A i \in 1 .. Len(store') : store'[i].expiry <= now + TTL
    BY <2>1, <2>2, ConsumedStore DEF IInv
  <2> QED BY <2>3 DEF StoreOK
<1>2. CASE ~IsNew(Memory, n)
  BY <1>2, CleaningKeepsStore DEF ConsumeInMemory
<1> QED BY <1>1, <1>2

\* The types of the backend and of the history.
ClusterOK(b) == DOMAIN b \subseteq Nonce /\ \A n \in DOMAIN b : b[n] \in Nat

GrantedOK(g) == g \in [{"memory", "cluster"} -> [Nonce -> Nat]]

\* Consuming keeps both stores and the history well-formed.
LEMMA ConsumeKeepsTypes ==
  ASSUME IInv, NEW server \in Server, NEW n \in Nonce, Consume(server, n)
  PROVE  StoreOK(store', now) /\ ClusterOK(clusterBackend') /\ GrantedOK(granted')
<1>1. ClusterOK(clusterBackend) /\ GrantedOK(granted) /\ now \in Nat /\ TTL \in Nat
  BY ReplayGuardAssumption DEF IInv, TypeOK, ClusterOK, GrantedOK
<1>2. GrantedOK(granted')
  <2>1. CASE UNCHANGED granted
    BY <1>1, <2>1
  <2>2. CASE Granted(server, n)
    <3> DEFINE kind == IF server = Memory THEN "memory" ELSE "cluster"
    <3>1. granted' = [granted EXCEPT ![kind][n] = @ + 1] /\ kind \in {"memory", "cluster"}
      BY <2>2 DEF Granted
    <3> HIDE DEF kind
    <3> QED BY <1>1, <3>1 DEF GrantedOK
  <2> QED BY <2>1, <2>2 DEF Consume
<1>3. CASE server = Memory
  <2>1. ConsumeInMemory(n) /\ clusterBackend' = clusterBackend
    BY <1>3 DEF Consume, ConsumeInMemory
  <2> QED BY <1>1, <1>2, <2>1, ConsumeInMemoryKeepsStore
<1>4. CASE server # Memory
  <2>1. store' = store
    BY <1>4 DEF Consume, ConsumeInCluster
  <2>2. \/ clusterBackend' = clusterBackend
        \/ clusterBackend' = [m \in DOMAIN clusterBackend \union {n} |->
                                IF m = n THEN now + TTL ELSE clusterBackend[m]]
    BY <1>4 DEF Consume, ConsumeInCluster
  <2>3. ClusterOK(clusterBackend')
    BY <1>1, <2>2 DEF ClusterOK
  <2> QED BY <1>2, <2>1, <2>3, StoreIsOK
<1> QED BY <1>3, <1>4

\* From its parts to the invariant after a step.
LEMMA PartsMakeInvariant ==
  ASSUME now' \in Nat, servers' \in {Node, {Memory}}, StoreOK(store', now'),
         ClusterOK(clusterBackend'), isHealthy' \in [Node -> BOOLEAN],
         awaiting' \subseteq Call, answers' \in [Request -> Answer], GrantedOK(granted')
  PROVE  IInv'
BY DEF IInv, TypeOK, StoreInv, StoreOK, ClusterOK, GrantedOK, Ordered

\* The invariant, part by part.
LEMMA InvariantHasParts ==
  IInv =>
    /\ now \in Nat /\ servers \in {Node, {Memory}}
    /\ StoreOK(store, now) /\ ClusterOK(clusterBackend)
    /\ isHealthy \in [Node -> BOOLEAN]
    /\ awaiting \subseteq Call /\ answers \in [Request -> Answer] /\ GrantedOK(granted)
BY StoreIsOK DEF IInv, TypeOK, ClusterOK, GrantedOK

\* It holds of stores that are empty.
LEMMA InitKeepsInvariant == Init => IInv
BY ReplayGuardAssumption
   DEF Init, IInv, TypeOK, StoreInv, Ordered, Entry, Answer

\* A response is an answer.
LEMMA AnswerType ==
  ASSUME IInv, NEW r \in Request, NEW answer \in Answer, Respond(r, answer)
  PROVE  answers' \in [Request -> Answer]
BY DEF IInv, TypeOK, Respond

\* What a store makes of a nonce is an answer.
LEMMA AnswerOfType ==
  ASSUME NEW server, NEW n
  PROVE  AnswerOf(server, n) \subseteq Answer
BY DEF AnswerOf, Answer

\* Every step keeps the invariant.
LEMMA StepKeepsInvariant == IInv /\ [Next]_vars => IInv'
<1> SUFFICES ASSUME IInv, [Next]_vars PROVE IInv'
  OBVIOUS
<1> USE InvariantHasParts
<1>1. \A s \in servers : s \in Server
  BY DEF Server
<1>2. ASSUME NEW r \in Request, RejectEarly(r) \/ Receive(r)
      PROVE  IInv'
  <2>1. answers' \in [Request -> Answer]
    BY <1>2, AnswerType DEF RejectEarly, Receive, Answer
  <2> QED BY <1>2, <2>1, PartsMakeInvariant DEF RejectEarly, Receive
<1>3. ASSUME NEW r \in Request, NEW n \in Nonce, VerifyCredentials(r, n)
      PROVE  IInv'
  <2>1. Consume(Memory, n) /\ Memory \in Server
    BY <1>3 DEF VerifyCredentials, Server
  <2>2. answers' \in [Request -> Answer]
    BY <1>3, AnswerType, AnswerOfType DEF VerifyCredentials
  <2> QED BY <1>3, <2>1, <2>2, ConsumeKeepsTypes, PartsMakeInvariant DEF VerifyCredentials
<1>4. ASSUME NEW r \in Request, NEW node \in servers \ {Memory}, NEW n \in Nonce,
             VerifyCredentialsOnPromise(r, node, n)
      PROVE  IInv'
  <2>1. Consume(node, n) /\ node \in Server
    BY <1>1, <1>4 DEF VerifyCredentialsOnPromise
  <2>2. answers' \in [Request -> Answer]
    BY <1>4, AnswerType DEF VerifyCredentialsOnPromise, Answer
  <2> QED BY <1>4, <2>1, <2>2, ConsumeKeepsTypes, PartsMakeInvariant
          DEF VerifyCredentialsOnPromise
<1>5. ASSUME NEW node \in servers \ {Memory},
             VerifyCredentialsOnRejectedPromise(node) \/ SetHealthy(node)
      PROVE  IInv'
  <2>1. CASE VerifyCredentialsOnRejectedPromise(node)
    BY <2>1, PartsMakeInvariant DEF VerifyCredentialsOnRejectedPromise
  <2>2. CASE SetHealthy(node)
    <3>1. isHealthy' \in [Node -> BOOLEAN]
      BY <2>2 DEF SetHealthy
    <3> QED BY <2>2, <3>1, PartsMakeInvariant DEF SetHealthy
  <2> QED BY <1>5, <2>1, <2>2
<1>6. ASSUME NEW r \in Request, NEW server \in servers, NEW n \in Nonce,
             BeginVerifyCredentialsAsync(r, server, n)
      PROVE  IInv'
  <2>1. Reachable(server) \in BOOLEAN
    BY ReplayGuardAssumption DEF Reachable, Server
  <2>2. [request |-> r, server |-> server, nonce |-> n, healthy |-> Reachable(server)] \in Call
    BY <1>1, <2>1 DEF Call
  <2>3. awaiting' \subseteq Call
    BY <1>6, <2>2 DEF BeginVerifyCredentialsAsync
  <2>4. StoreOK(store', now)
    BY <1>6, CleaningKeepsStore DEF BeginVerifyCredentialsAsync
  <2> QED BY <1>6, <2>3, <2>4, PartsMakeInvariant DEF BeginVerifyCredentialsAsync
<1>7. ASSUME NEW call \in awaiting, FinishVerifyCredentialsAsync(call)
      PROVE  IInv'
  <2>1. /\ call.request \in Request /\ call.server \in Server /\ call.nonce \in Nonce
    BY DEF Call
  <2>2. awaiting' \subseteq Call /\ UNCHANGED <<now, servers, isHealthy>>
    BY <1>7 DEF FinishVerifyCredentialsAsync
  <2>3. CASE call.healthy /\ Reachable(call.server)
    <3>1. Consume(call.server, call.nonce)
      BY <1>7, <2>3 DEF FinishVerifyCredentialsAsync
    <3>2. answers' \in [Request -> Answer]
      <4>1. \E answer \in AnswerOf(call.server, call.nonce) : Respond(call.request, answer)
        BY <1>7, <2>3 DEF FinishVerifyCredentialsAsync
      <4> QED BY <2>1, <4>1, AnswerType, AnswerOfType
    <3> QED BY <2>1, <2>2, <3>1, <3>2, ConsumeKeepsTypes, PartsMakeInvariant
  <2>4. CASE ~(call.healthy /\ Reachable(call.server))
    <3>1. /\ Respond(call.request, "REPLAY_STORE_UNAVAILABLE")
          /\ UNCHANGED <<store, clusterBackend, granted>>
      BY <1>7, <2>4 DEF FinishVerifyCredentialsAsync
    <3>2. answers' \in [Request -> Answer]
      BY <2>1, <3>1, AnswerType DEF Answer
    <3> QED BY <2>2, <3>1, <3>2, PartsMakeInvariant
  <2> QED BY <2>3, <2>4
<1>8. CASE Restart
  <2>1. StoreOK(<< >>, now)
    BY ReplayGuardAssumption DEF StoreOK, Ordered
  <2> QED BY <1>8, <2>1, PartsMakeInvariant DEF Restart
<1>9. CASE Tick
  <2>1. now' \in Nat /\ now' = now + 1
    BY <1>9 DEF Tick
  <2>2. StoreOK(store, now')
    <3>1. \A i \in 1 .. Len(store) : store[i].expiry \in Nat
      <4>1. store \in Seq(Entry)
        BY DEF StoreOK
      <4>2. \A i \in 1 .. Len(store) : store[i] \in Entry
        BY <4>1
      <4> QED BY <4>2 DEF Entry
    <3> QED BY <2>1, <3>1, ReplayGuardAssumption DEF StoreOK
  <2> QED BY <1>9, <2>1, <2>2, PartsMakeInvariant DEF Tick
<1>10. CASE UNCHANGED vars
  BY <1>10, PartsMakeInvariant DEF vars
<1> QED BY <1>2, <1>3, <1>4, <1>5, <1>6, <1>7, <1>8, <1>9, <1>10 DEF Next

\* The invariant holds in every state.
LEMMA Invariance == Spec => []IInv
BY InitKeepsInvariant, StepKeepsInvariant, PTL DEF Spec

-----------------------------------------------------------------------------
(* The properties. *)

\* Clock, stores, answers and history stay well-formed.
THEOREM TypeCorrect == Spec => []TypeOK
<1>1. IInv => TypeOK
  BY DEF IInv
<1> QED BY <1>1, Invariance, PTL

\* A step that grants changes the history.
LEMMA GrantShows ==
  ASSUME GrantedOK(granted), NEW server \in Server, NEW n \in Nonce, Granted(server, n)
  PROVE  granted' # granted
<1> DEFINE kind == IF server = Memory THEN "memory" ELSE "cluster"
<1>1. granted' = [granted EXCEPT ![kind][n] = @ + 1] /\ kind \in {"memory", "cluster"}
  BY DEF Granted
<1> HIDE DEF kind
<1>2. granted'[kind][n] = granted[kind][n] + 1 /\ granted[kind][n] \in Nat
  BY <1>1 DEF GrantedOK
<1> QED BY <1>2

\* authenticateRequest answers "authenticated" only in the step that spends the
\* nonce, on a store that is reachable in that step.
THEOREM AuthenticationIsGrant == Spec => AuthenticatedOnlyByGrant
<1> DEFINE ByGrant ==
      \A r \in Request :
        answers'[r] = "authenticated" /\ answers[r] # "authenticated" =>
          /\ granted' # granted
          /\ \A c \in awaiting \ awaiting' : c.server = Memory \/ isHealthy[c.server]
<1>1. IInv /\ [Next]_vars => [ByGrant]_vars
  <2> SUFFICES ASSUME IInv, Next, NEW r \in Request,
                      answers'[r] = "authenticated", answers[r] # "authenticated"
               PROVE  /\ granted' # granted
                      /\ \A c \in awaiting \ awaiting' :
                           c.server = Memory \/ isHealthy[c.server]
    OBVIOUS
  <2>1. /\ answers \in [Request -> Answer] /\ GrantedOK(granted)
        /\ awaiting \subseteq Call /\ servers \subseteq Server
    BY InvariantHasParts DEF Server
  <2>2. answers' # answers
    OBVIOUS
  <2>3. ASSUME NEW q \in Request, NEW answer, Respond(q, answer)
        PROVE  answer = "authenticated"
    BY <2>1, <2>3 DEF Respond
  <2>4. ASSUME NEW server \in Server, NEW n \in Nonce, NEW q \in Request,
               Consume(server, n),
               \E answer \in AnswerOf(server, n) : Respond(q, answer)
        PROVE  granted' # granted
    <3>1. IsNew(server, n)
      BY <2>3, <2>4 DEF AnswerOf
    <3>2. Granted(server, n)
      BY <2>4, <3>1 DEF Consume
    <3> QED BY <2>1, <3>2, GrantShows
  <2>5. ASSUME NEW q \in Request, NEW n \in Nonce, VerifyCredentials(q, n)
        PROVE  granted' # granted /\ awaiting' = awaiting
    BY <2>4, <2>5 DEF VerifyCredentials, Server
  <2>6. ASSUME NEW q \in Request, RejectEarly(q) \/ Receive(q)
        PROVE  FALSE
    BY <2>3, <2>6 DEF RejectEarly, Receive
  <2>7. ASSUME NEW q \in Request, NEW node, NEW n, VerifyCredentialsOnPromise(q, node, n)
        PROVE  FALSE
    BY <2>3, <2>7 DEF VerifyCredentialsOnPromise
  <2>8. ASSUME NEW call \in awaiting, FinishVerifyCredentialsAsync(call)
        PROVE  /\ granted' # granted
               /\ \A c \in awaiting \ awaiting' : c.server = Memory \/ isHealthy[c.server]
    <3>1. call.request \in Request /\ call.server \in Server /\ call.nonce \in Nonce
      BY <2>1 DEF Call
    <3>2. awaiting \ awaiting' \subseteq {call}
      BY <2>8 DEF FinishVerifyCredentialsAsync
    <3>3. call.healthy /\ Reachable(call.server)
      <4>1. ASSUME ~(call.healthy /\ Reachable(call.server))
            PROVE  FALSE
        <5>1. Respond(call.request, "REPLAY_STORE_UNAVAILABLE")
          BY <2>8, <4>1 DEF FinishVerifyCredentialsAsync
        <5> QED BY <2>3, <3>1, <5>1
      <4> QED BY <4>1
    <3>4. /\ Consume(call.server, call.nonce)
          /\ \E answer \in AnswerOf(call.server, call.nonce) : Respond(call.request, answer)
      BY <2>8, <3>3 DEF FinishVerifyCredentialsAsync
    <3>5. granted' # granted
      BY <2>4, <3>1, <3>4
    <3>6. call.server = Memory \/ isHealthy[call.server]
      BY <3>3 DEF Reachable
    <3> QED BY <3>2, <3>5, <3>6
  <2>9. ASSUME NEW q, NEW server, NEW n, BeginVerifyCredentialsAsync(q, server, n)
        PROVE  FALSE
    BY <2>2, <2>9 DEF BeginVerifyCredentialsAsync
  <2>10. ASSUME NEW node, VerifyCredentialsOnRejectedPromise(node) \/ SetHealthy(node)
         PROVE  FALSE
    BY <2>2, <2>10 DEF VerifyCredentialsOnRejectedPromise, SetHealthy
  <2>11. ~Restart /\ ~Tick
    BY <2>2 DEF Restart, Tick
  <2> QED BY <2>5, <2>6, <2>7, <2>8, <2>9, <2>10, <2>11 DEF Next
<1>2. Spec => [][ByGrant]_vars
  BY <1>1, Invariance, PTL DEF Spec
<1> QED BY <1>2 DEF AuthenticatedOnlyByGrant

-----------------------------------------------------------------------------
(* The leases. *)

\* All that a step can do to the stores.
LEMMA StepEffects ==
  ASSUME IInv, [Next]_vars
  PROVE  \/ Tick
         \/ /\ now' = now
            /\ \E server \in Server, n \in Nonce : Consume(server, n)
         \/ /\ UNCHANGED <<now, clusterBackend, granted>>
            /\ store' \in {store, CleanExpired(store), << >>}
<1>0. awaiting \subseteq Call /\ servers \subseteq Server
  BY InvariantHasParts DEF Server
<1>1. ASSUME NEW r \in Request, NEW n \in Nonce, VerifyCredentials(r, n)
      PROVE  now' = now /\ Consume(Memory, n) /\ Memory \in Server
  BY <1>1 DEF VerifyCredentials, Server
<1>2. ASSUME NEW r \in Request, NEW node \in servers, NEW n \in Nonce,
             VerifyCredentialsOnPromise(r, node, n)
      PROVE  now' = now /\ Consume(node, n) /\ node \in Server
  BY <1>0, <1>2 DEF VerifyCredentialsOnPromise
<1>3. ASSUME NEW call \in awaiting, FinishVerifyCredentialsAsync(call)
      PROVE  /\ now' = now
             /\ call.server \in Server /\ call.nonce \in Nonce
             /\ \/ Consume(call.server, call.nonce)
                \/ UNCHANGED <<store, clusterBackend, granted>>
  BY <1>0, <1>3 DEF FinishVerifyCredentialsAsync, Call
<1>4. ASSUME NEW r \in Request, RejectEarly(r) \/ Receive(r)
      PROVE  UNCHANGED <<now, store, clusterBackend, granted>>
  BY <1>4 DEF RejectEarly, Receive
<1>5. ASSUME NEW node, VerifyCredentialsOnRejectedPromise(node) \/ SetHealthy(node)
      PROVE  UNCHANGED <<now, store, clusterBackend, granted>>
  BY <1>5 DEF VerifyCredentialsOnRejectedPromise, SetHealthy
<1>6. ASSUME NEW r \in Request, NEW server, NEW n \in Nonce,
             BeginVerifyCredentialsAsync(r, server, n)
      PROVE  /\ UNCHANGED <<now, clusterBackend, granted>>
             /\ store' \in {store, CleanExpired(store)}
  BY <1>6 DEF BeginVerifyCredentialsAsync
<1>7. ASSUME Restart
      PROVE  UNCHANGED <<now, clusterBackend, granted>> /\ store' = << >>
  BY <1>7 DEF Restart
<1>8. ASSUME UNCHANGED vars
      PROVE  UNCHANGED <<now, store, clusterBackend, granted>>
  BY <1>8 DEF vars
<1> QED BY <1>1, <1>2, <1>3, <1>4, <1>5, <1>6, <1>7, <1>8 DEF Next

\* A nonce that is new is granted, on the store that was asked.
LEMMA GrantedEffect ==
  ASSUME IInv, NEW server \in Server, NEW n \in Nonce, Granted(server, n)
  PROVE  /\ server = Memory =>
              /\ granted'["memory"] = [granted["memory"] EXCEPT ![n] = @ + 1]
              /\ granted'["cluster"] = granted["cluster"]
         /\ server # Memory =>
              /\ granted'["cluster"] = [granted["cluster"] EXCEPT ![n] = @ + 1]
              /\ granted'["memory"] = granted["memory"]
<1>1. GrantedOK(granted)
  BY InvariantHasParts
<1>2. CASE server = Memory
  <2>1. granted' = [granted EXCEPT !["memory"][n] = @ + 1]
    BY <1>2 DEF Granted
  <2> QED BY <1>1, <1>2, <2>1 DEF GrantedOK
<1>3. CASE server # Memory
  <2>1. granted' = [granted EXCEPT !["cluster"][n] = @ + 1]
    BY <1>3 DEF Granted
  <2> QED BY <1>1, <1>3, <2>1 DEF GrantedOK
<1> QED BY <1>2, <1>3

\* On any node: a nonce is granted while the backend holds no live expiry of it.
LEMMA ClusterStep ==
  ASSUME IInv, [Next]_vars
  PROVE  [Cluster!Next]_(Cluster!leaseVars)
<1> DEFINE D == [n \in {m \in DOMAIN clusterBackend : now <= clusterBackend[m]}
                   |-> clusterBackend[n]]
<1>1. /\ ClusterOK(clusterBackend) /\ now \in Nat /\ TTL \in Nat
      /\ GrantedOK(granted)
  BY InvariantHasParts, ReplayGuardAssumption
<1>2. ASSUME UNCHANGED <<now, clusterBackend>>, granted'["cluster"] = granted["cluster"]
      PROVE  UNCHANGED Cluster!leaseVars
  BY <1>2 DEF Cluster!leaseVars
<1>3. CASE Tick
  <2>1. now' = now + 1 /\ clusterBackend' = clusterBackend /\ granted' = granted
    BY <1>3 DEF Tick
  <2>2. D' = [n \in {m \in DOMAIN clusterBackend : now + 1 <= clusterBackend[m]}
                |-> clusterBackend[n]]
    BY <2>1
  <2>3. DOMAIN D = {m \in DOMAIN clusterBackend : now <= clusterBackend[m]}
    OBVIOUS
  <2>4. {k \in DOMAIN D : D[k] >= now + 1} =
        {m \in DOMAIN clusterBackend : now + 1 <= clusterBackend[m]}
    BY <1>1, <2>3 DEF ClusterOK
  <2>5. D' = Cluster!Restrict(D, {k \in DOMAIN D : D[k] >= now + 1})
    BY <1>1, <2>2, <2>4 DEF Cluster!Restrict, ClusterOK
  <2> QED BY <2>1, <2>5 DEF Cluster!Next, Cluster!Tick, Cluster!Held
<1>4. ASSUME now' = now, NEW server \in Server, NEW n \in Nonce, Consume(server, n)
      PROVE  [Cluster!Next]_(Cluster!leaseVars)
  <2>1. CASE server = Memory
    <3>1. clusterBackend' = clusterBackend
      BY <1>4, <2>1 DEF Consume, ConsumeInMemory
    <3>2. granted'["cluster"] = granted["cluster"]
      BY <1>4, <2>1, GrantedEffect DEF Consume
    <3> QED BY <1>2, <1>4, <3>1, <3>2
  <2>2. CASE server # Memory /\ ~IsNew(server, n)
    <3>1. clusterBackend' = clusterBackend /\ granted' = granted
      BY <1>4, <2>2 DEF Consume, ConsumeInCluster
    <3> QED BY <1>2, <1>4, <3>1
  <2>3. CASE server # Memory /\ IsNew(server, n)
    <3>1. /\ clusterBackend' = [m \in DOMAIN clusterBackend \union {n} |->
                                  IF m = n THEN now + TTL ELSE clusterBackend[m]]
          /\ granted'["cluster"] = [granted["cluster"] EXCEPT ![n] = @ + 1]
      BY <1>4, <2>3, GrantedEffect DEF Consume, ConsumeInCluster
    <3>2. n \notin DOMAIN D
      BY <2>3 DEF IsNew, Live
    <3>3. D' = [h \in (DOMAIN D \ {}) \union {n} |-> IF h = n THEN now + TTL ELSE D[h]]
      <4>1. {m \in DOMAIN clusterBackend' : now <= clusterBackend'[m]} = DOMAIN D \union {n}
        BY <1>1, <3>1 DEF ClusterOK
      <4>2. \A h \in DOMAIN D \union {n} :
              clusterBackend'[h] = IF h = n THEN now + TTL ELSE D[h]
        BY <3>1
      <4>3. D' = [h \in DOMAIN D \union {n} |-> clusterBackend'[h]]
        BY <1>4, <4>1
      <4> HIDE DEF D
      <4> QED BY <4>2, <4>3
    <3>4. Cluster!Grant(n, TTL, {})
      BY <1>4, <3>1, <3>2, <3>3 DEF Cluster!Grant, Cluster!Held
    <3>5. {} \in SUBSET Cluster!Held
      OBVIOUS
    <3> QED BY <3>4, <3>5 DEF Cluster!Next
  <2> QED BY <2>1, <2>2, <2>3
<1>5. CASE UNCHANGED <<now, clusterBackend, granted>>
  BY <1>2, <1>5
<1> QED BY <1>3, <1>4, <1>5, StepEffects

\* The shared backend implements leases that are never revoked: whatever node is
\* asked and whatever fails, a nonce is not granted while it is held.
THEOREM ClusterIsLeases == Spec => ClusterGrantsOncePerLifetime
<1>1. Init => Cluster!Init
  <2> SUFFICES ASSUME Init PROVE Cluster!Init
    OBVIOUS
  <2>1. /\ now = 0 /\ clusterBackend = [n \in {} |-> 0]
        /\ granted["cluster"] = [n \in Nonce |-> 0]
    BY DEF Init
  <2>2. [n \in {m \in DOMAIN clusterBackend : now <= clusterBackend[m]} |-> clusterBackend[n]]
          = [k \in {} |-> 0]
    BY <2>1
  <2> QED BY <2>1, <2>2 DEF Cluster!Init
<1> QED BY <1>1, ClusterStep, Invariance, PTL
        DEF Spec, ClusterGrantsOncePerLifetime, Cluster!Spec

\* What a step does to the nonces that the in-memory store holds.
LEMMA MemoryEffects ==
  ASSUME IInv, NEW n \in Nonce, ConsumeInMemory(n)
  PROVE  \/ /\ ~IsNew(Memory, n)
            /\ LiveNonces(store') = LiveNonces(store)
            /\ \A m \in LiveNonces(store) : ExpiryOf(store', m) = ExpiryOf(store, m)
         \/ /\ IsNew(Memory, n)
            /\ n \notin LiveNonces(store)
            /\ Takes(store', n)
<1>1. /\ IsNew(Memory, n) <=> n \notin LiveNonces(store)
      /\ LiveNonces(CleanExpired(store)) = LiveNonces(store)
      /\ \A m \in LiveNonces(store) : ExpiryOf(CleanExpired(store), m) = ExpiryOf(store, m)
  BY CleanedStore DEF IInv
<1>2. CASE IsNew(Memory, n)
  <2>1. store' = SetEntry(Evicted(CleanExpired(store)), n)
    BY <1>2 DEF ConsumeInMemory
  <2>2. n \notin LiveNonces(store)
    BY <1>1, <1>2
  <2>3. Takes(store', n)
    BY <2>1, <2>2, ConsumedStore DEF IInv
  <2> QED BY <1>2, <2>2, <2>3
<1>3. CASE ~IsNew(Memory, n)
  <2>1. store' = CleanExpired(store)
    BY <1>3 DEF ConsumeInMemory
  <2> QED BY <1>1, <1>3, <2>1
<1> QED BY <1>2, <1>3

\* On the in-memory store: cleaning is unseen, evicting and restarting revoke.
LEMMA MemoryStep ==
  ASSUME IInv, [Next]_vars
  PROVE  [InMemory!Next]_(InMemory!leaseVars)
<1> DEFINE D == [n \in LiveNonces(store) |-> ExpiryOf(store, n)]
<1>1. /\ store \in Seq(Entry) /\ Ordered(store) /\ now \in Nat /\ TTL \in Nat
      /\ GrantedOK(granted)
  BY InvariantHasParts, ReplayGuardAssumption DEF StoreOK
<1>2. DOMAIN D = LiveNonces(store) /\ \A n \in LiveNonces(store) : D[n] = ExpiryOf(store, n)
  OBVIOUS
<1>3. ASSUME now' = now
      PROVE  D' = [n \in LiveNonces(store') |-> ExpiryOf(store', n)]
  <2>1. LiveNonces(store)' = LiveNonces(store')
    BY <1>3 DEF LiveNonces, Live
  <2>2. \A n : ExpiryOf(store, n)' = ExpiryOf(store', n)
    BY DEF ExpiryOf
  <2> QED BY <2>1, <2>2
<1>4. ASSUME now' = now, granted'["memory"] = granted["memory"],
             LiveNonces(store') = LiveNonces(store),
             \A m \in LiveNonces(store) : ExpiryOf(store', m) = ExpiryOf(store, m)
      PROVE  UNCHANGED InMemory!leaseVars
  BY <1>3, <1>4 DEF InMemory!leaseVars
<1>5. CASE Tick
  <2>1. now' = now + 1 /\ store' = store /\ granted' = granted
    BY <1>5 DEF Tick
  <2> DEFINE later == {n \in LiveNonces(store) : ExpiryOf(store, n) >= now + 1}
  <2>2. LiveNonces(store)' = later
    <3>1. LiveNonces(store)' =
            {store[i].nonce : i \in {j \in 1 .. Len(store) : now + 1 <= store[j].expiry}}
      BY <2>1 DEF LiveNonces, Live
    <3>2. \A i \in 1 .. Len(store) :
            ExpiryOf(store, store[i].nonce) = store[i].expiry /\ store[i].expiry \in Nat
      <4>1. \A i \in 1 .. Len(store) : store[i] \in Entry
        BY <1>1
      <4> QED BY <1>1, <4>1, ExpiryIs DEF Entry
    <3>3. ASSUME NEW i \in 1 .. Len(store), now + 1 <= store[i].expiry
          PROVE  store[i].nonce \in later
      <4>1. now <= store[i].expiry
        BY <1>1, <3>2, <3>3
      <4>2. store[i].nonce \in LiveNonces(store)
        BY <4>1 DEF LiveNonces, Live
      <4> QED BY <1>1, <3>2, <3>3, <4>2
    <3>4. ASSUME NEW n \in later
          PROVE  \E i \in 1 .. Len(store) : n = store[i].nonce /\ now + 1 <= store[i].expiry
      <4>1. PICK i \in 1 .. Len(store) : n = store[i].nonce
        BY DEF LiveNonces
      <4> QED BY <1>1, <3>2, <4>1
    <3> HIDE DEF later
    <3> QED BY <3>1, <3>3, <3>4
  <2>3. \A n : ExpiryOf(store, n)' = ExpiryOf(store, n)
    BY <2>1 DEF ExpiryOf
  <2>4. D' = [n \in later |-> ExpiryOf(store, n)]
    BY <2>2, <2>3
  <2>5. D' = InMemory!Restrict(D, {k \in DOMAIN D : D[k] >= now + 1})
    <3>1. {k \in DOMAIN D : D[k] >= now + 1} = later
      BY <1>2
    <3>2. \A n \in later : D[n] = ExpiryOf(store, n)
      OBVIOUS
    <3> HIDE DEF D, later
    <3> QED BY <2>4, <3>1, <3>2 DEF InMemory!Restrict
  <2> QED BY <2>1, <2>5 DEF InMemory!Next, InMemory!Tick, InMemory!Held
<1>6. ASSUME now' = now, NEW server \in Server, NEW n \in Nonce, Consume(server, n)
      PROVE  [InMemory!Next]_(InMemory!leaseVars)
  <2>1. CASE server # Memory
    <3>1. store' = store /\ granted'["memory"] = granted["memory"]
      BY <1>6, <2>1, GrantedEffect DEF Consume, ConsumeInCluster
    <3> QED BY <1>4, <1>6, <3>1
  <2>2. CASE server = Memory /\ ~IsNew(server, n)
    <3>1. ConsumeInMemory(n) /\ granted' = granted
      BY <1>6, <2>2 DEF Consume
    <3>2. /\ LiveNonces(store') = LiveNonces(store)
          /\ \A m \in LiveNonces(store) : ExpiryOf(store', m) = ExpiryOf(store, m)
      BY <2>2, <3>1, MemoryEffects
    <3> QED BY <1>4, <1>6, <3>1, <3>2
  <2>3. CASE server = Memory /\ IsNew(server, n)
    <3>1. /\ ConsumeInMemory(n)
          /\ granted'["memory"] = [granted["memory"] EXCEPT ![n] = @ + 1]
      BY <1>6, <2>3, GrantedEffect DEF Consume
    <3>2. /\ n \notin LiveNonces(store)
          /\ Takes(store', n)
      BY <2>3, <3>1, MemoryEffects
    <3>3. PICK dropped \in SUBSET LiveNonces(store) :
            /\ LiveNonces(store') = (LiveNonces(store) \ dropped) \union {n}
            /\ \A m \in LiveNonces(store) \ dropped : ExpiryOf(store', m) = ExpiryOf(store, m)
            /\ ExpiryOf(store', n) = now + TTL
      BY <3>2 DEF Takes
    <3>4. D' = [h \in (DOMAIN D \ dropped) \union {n} |-> IF h = n THEN now + TTL ELSE D[h]]
      <4>1. D' = [h \in LiveNonces(store') |-> ExpiryOf(store', h)]
        BY <1>3, <1>6
      <4>2. \A h \in (LiveNonces(store) \ dropped) \union {n} :
              ExpiryOf(store', h) = IF h = n THEN now + TTL ELSE D[h]
        BY <3>3
      <4> HIDE DEF D
      <4> QED BY <1>2, <3>3, <4>1, <4>2
    <3>5. InMemory!Grant(n, TTL, dropped)
      BY <1>2, <1>6, <3>1, <3>2, <3>4 DEF InMemory!Grant, InMemory!Held
    <3>6. dropped \in SUBSET InMemory!Held
      BY <1>2 DEF InMemory!Held
    <3> QED BY <3>5, <3>6 DEF InMemory!Next
  <2> QED BY <2>1, <2>2, <2>3
<1>7. CASE UNCHANGED <<now, clusterBackend, granted>> /\ store' \in {store, CleanExpired(store)}
  <2>1. /\ LiveNonces(store') = LiveNonces(store)
        /\ \A m \in LiveNonces(store) : ExpiryOf(store', m) = ExpiryOf(store, m)
    BY <1>7, CleanedStore DEF IInv
  <2> QED BY <1>4, <1>7, <2>1
<1>8. CASE UNCHANGED <<now, clusterBackend, granted>> /\ store' = << >>
  <2>1. LiveNonces(store') = {}
    BY <1>8 DEF LiveNonces
  <2>2. D' = InMemory!Restrict(D, DOMAIN D \ DOMAIN D)
    BY <1>3, <1>8, <2>1 DEF InMemory!Restrict
  <2>3. InMemory!Revoke(DOMAIN D)
    BY <1>8, <2>2 DEF InMemory!Revoke, InMemory!Held
  <2>4. DOMAIN D \in SUBSET InMemory!Held
    BY DEF InMemory!Held
  <2> QED BY <2>3, <2>4 DEF InMemory!Next
<1> QED BY <1>5, <1>6, <1>7, <1>8, StepEffects

\* The in-memory store implements leases that may be revoked: a nonce that it
\* remembers is not granted again.
THEOREM MemoryIsLeases == Spec => MemoryGrantsOncePerLifetime
<1>1. Init => InMemory!Init
  <2> SUFFICES ASSUME Init PROVE InMemory!Init
    OBVIOUS
  <2>1. /\ now = 0 /\ store = << >> /\ granted["memory"] = [n \in Nonce |-> 0]
    BY DEF Init
  <2>2. LiveNonces(store) = {}
    BY <2>1 DEF LiveNonces
  <2>3. [n \in LiveNonces(store) |-> ExpiryOf(store, n)] = [k \in {} |-> 0]
    BY <2>2
  <2> QED BY <2>1, <2>3 DEF InMemory!Init
<1> QED BY <1>1, MemoryStep, Invariance, PTL
        DEF Spec, MemoryGrantsOncePerLifetime, InMemory!Spec

\* The eviction in consume() forgets a live nonce only when maxEntries of them or
\* more are remembered, then the one that expires first, and never the empty one.
THEOREM ForgettingIsForced == Spec => ForgetsOnlyWhenFull
<1> DEFINE Forced ==
      \A n \in LiveNonces(store) \ LiveNonces(store') :
        \/ store' = << >>
        \/ now' # now
        \/ /\ Cardinality(LiveNonces(store)) >= MaxEntries
           /\ n # EmptyNonce
           /\ \A m \in LiveNonces(store) : ExpiryOf(store, n) <= ExpiryOf(store, m)
<1>1. IInv /\ [Next]_vars => [Forced]_vars
  <2> SUFFICES ASSUME IInv, [Next]_vars PROVE Forced
    OBVIOUS
  <2>1. CASE Tick
    BY <2>1 DEF Tick, IInv, TypeOK
  <2>2. ASSUME NEW server \in Server, NEW n \in Nonce, Consume(server, n)
        PROVE  Forced
    <3>1. CASE server # Memory
      BY <2>2, <3>1 DEF Consume, ConsumeInCluster
    <3>2. CASE server = Memory
      <4>1. ConsumeInMemory(n)
        BY <2>2, <3>2 DEF Consume
      <4> QED BY <4>1, MemoryEffects DEF Takes
    <3> QED BY <3>1, <3>2
  <2>3. CASE store' \in {store, CleanExpired(store), << >>}
    BY <2>3, CleanedStore DEF IInv
  <2> HIDE DEF Forced
  <2> QED BY <2>1, <2>2, <2>3, StepEffects
<1>2. Spec => [][Forced]_vars
  BY <1>1, Invariance, PTL DEF Spec
<1> QED BY <1>2 DEF ForgetsOnlyWhenFull

\* A step that makes the in-memory store longer is a consume() of it, and past
\* maxEntries that happens behind the empty nonce.
LEMMA GrowthOfStore ==
  ASSUME IInv, [Next]_vars
  PROVE  Outgrows(store')
<1>1. store \in Seq(Entry) /\ Len(store) \in Nat
  BY DEF IInv, TypeOK
<1>2. Outgrows(store) /\ Outgrows(CleanExpired(store)) /\ Outgrows(<< >>)
  <2>1. Len(CleanExpired(store)) <= Len(store) /\ Len(CleanExpired(store)) \in Nat
    <3>1. PICK k \in 0 .. Len(store) : IsRest(CleanExpired(store), store, k)
      BY CleanedStore DEF IInv
    <3> QED BY <1>1, <3>1 DEF IsRest
  <2> QED BY <1>1, <2>1 DEF Outgrows
<1>3. CASE Tick
  BY <1>2, <1>3 DEF Tick
<1>4. ASSUME NEW server \in Server, NEW n \in Nonce, Consume(server, n)
      PROVE  Outgrows(store')
  <2>1. CASE server # Memory
    BY <1>2, <1>4, <2>1 DEF Consume, ConsumeInCluster
  <2>2. CASE server = Memory /\ ~IsNew(Memory, n)
    BY <1>2, <1>4, <2>2 DEF Consume, ConsumeInMemory
  <2>3. CASE server = Memory /\ IsNew(Memory, n)
    <3>1. store' = SetEntry(Evicted(CleanExpired(store)), n)
      BY <1>4, <2>3 DEF Consume, ConsumeInMemory
    <3>2. n \notin LiveNonces(store)
      BY <2>3, CleanedStore DEF IInv
    <3> QED BY <3>1, <3>2, ConsumedStore DEF IInv
  <2> QED BY <2>1, <2>2, <2>3
<1>5. CASE store' \in {store, CleanExpired(store), << >>}
  BY <1>2, <1>5
<1> QED BY <1>3, <1>4, <1>5, StepEffects

\* The Map of the in-memory store grows past maxEntries only while its oldest
\* entry is the empty nonce, which the eviction of consume() passes over.
THEOREM GrowthIsBehindEmptyNonce == Spec => OutgrownOnlyBehindEmptyNonce
<1>1. IInv /\ [Next]_vars => [Outgrows(store')]_vars
  BY GrowthOfStore
<1>2. Spec => [][Outgrows(store')]_vars
  BY <1>1, Invariance, PTL DEF Spec
<1> QED BY <1>2 DEF OutgrownOnlyBehindEmptyNonce, Outgrows

\* So the bound that the constructor is given holds wherever the empty nonce is
\* refused before it reaches the store.
THEOREM BoundedWithoutEmptyNonce ==
  ASSUME EmptyNonce \notin Nonce
  PROVE  Spec => [](Len(store) <= MaxEntries)
<1> DEFINE Bounded == Len(store) <= MaxEntries
<1>1. Init => Bounded
  BY ReplayGuardAssumption DEF Init
<1>2. IInv /\ Bounded /\ [Next]_vars => Bounded'
  <2> SUFFICES ASSUME IInv, Bounded, [Next]_vars, ~Bounded'
               PROVE  FALSE
    OBVIOUS
  <2>1. store \in Seq(Entry) /\ MaxEntries \in Nat \ {0}
    BY ReplayGuardAssumption DEF IInv, TypeOK
  <2>2. store' \in Seq(Entry)
    BY StepKeepsInvariant DEF IInv, TypeOK
  <2>3. Len(store') > Len(store) /\ Len(store') > MaxEntries
    BY <2>1, <2>2
  <2>4. store # << >> /\ store[1].nonce = EmptyNonce
    BY <2>3, GrowthOfStore DEF Outgrows
  <2>5. store[1] \in Entry
    BY <2>1, <2>4
  <2> QED BY <2>4, <2>5 DEF Entry
<1> HIDE DEF Bounded
<1>3. Spec => []Bounded
  BY <1>1, <1>2, Invariance, PTL DEF Spec
<1> QED BY <1>3 DEF Bounded

=============================================================================
