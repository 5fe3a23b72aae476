--------------------------- MODULE MediationProofs ---------------------------
(***************************************************************************)
(* Sovereign OS acts only on decisions: which rule decides, whatever was   *)
(* registered in whatever order, and what the record of a call says of the *)
(* executor it started.                                                    *)
(***************************************************************************)
EXTENDS Mediation, SequenceTheorems, WellFoundedInduction, TLAPS

-----------------------------------------------------------------------------
\* A set of naturals that is not empty has a least element.  The loop over the
\* rules and the sort both stop at one.
LEMMA LeastNatural ==
  ASSUME NEW S, S \subseteq Nat, S # {}
  PROVE  /\ Min(S) \in S
         /\ \A y \in S : Min(S) <= y
<1> DEFINE Less == {p \in Nat \X Nat : p[1] < p[2]}
<1>1. IsWellFoundedOn(Less, Nat)
  BY NatLessThanWellFounded, Zenon DEF OpToRel
<1>2. ASSUME NEW x \in Nat, NEW y \in Nat, y < x
      PROVE  <<y, x>> \in Less
  <2>1. <<y, x>> \in Nat \X Nat
    BY SMT
  <2>2. <<y, x>>[1] < <<y, x>>[2]
    BY <1>2, SMT
  <2> QED BY <2>1, <2>2, Zenon
<1> HIDE DEF Less
<1>3. PICK x \in S : \A y \in S : <<y, x>> \notin Less
  BY <1>1, WFMin, Zenon
<1>4. ASSUME NEW y \in S
      PROVE  x <= y
  <2>1. ~(y < x)
    BY <1>2, <1>3, Zenon
  <2> QED BY <2>1, SMT
<1> QED BY <1>4 DEF Min

-----------------------------------------------------------------------------
(* PolicyEngine. *)

\* Of two registrations, the one that is asked first.
Before(reg, a, b) ==
  \/ Priority(reg[a]) > Priority(reg[b])
  \/ Priority(reg[a]) = Priority(reg[b]) /\ a < b

\* p tells for every place in the order of evaluation which registration is there.
Orders(p, seq, reg) ==
  /\ p \in [DOMAIN seq -> DOMAIN reg]
  /\ \A a \in DOMAIN reg : \E i \in DOMAIN seq : p[i] = a
  /\ \A i \in DOMAIN seq : seq[i] = reg[p[i]]
  /\ \A i, j \in DOMAIN seq : i < j => Before(reg, p[i], p[j])

\* Every default rule is among the registered ones.
DefaultsAmong(reg) == \A k \in 1 .. 5 : \E a \in DOMAIN reg : reg[a] = DefaultRules[k]

\* The order of evaluation is that of priority and then of registration, and no
\* default rule is lost.
InOrder(seq, reg) ==
  /\ seq \in Seq(Rule)
  /\ reg \in Seq(Rule)
  /\ \E p \in [DOMAIN seq -> DOMAIN reg] : Orders(p, seq, reg)
  /\ DefaultsAmong(reg)

PrecedenceInv == InOrder(rules, registered)

\* What a rule is.
LEMMA DefaultRulesAre ==
  /\ DefaultRules \in Seq(Rule)
  /\ Len(DefaultRules) = 5
  /\ DOMAIN DefaultRules = 1 .. 5
  /\ DefaultRules[1] = "EXTREME_RISK_BLOCK"
  /\ DefaultRules[2] = "PROD_HIGH_RISK_ESCALATE"
  /\ DefaultRules[3] = "SENSITIVE_ACTION_APPROVAL"
  /\ DefaultRules[4] = "RBAC_VERIFICATION"
  /\ DefaultRules[5] = "AUTHORIZED_ALLOW"
<1>1. \A i \in DOMAIN DefaultRules : DefaultRules[i] \in Rule
  BY DEF Rule, ToSet
<1>2. DefaultRules \in Seq(Rule)
  <2>1. \A i \in 1 .. 5 : DefaultRules[i] \in Rule
    BY <1>1 DEF DefaultRules
  <2>2. /\ "EXTREME_RISK_BLOCK" \in Rule
        /\ "PROD_HIGH_RISK_ESCALATE" \in Rule
        /\ "SENSITIVE_ACTION_APPROVAL" \in Rule
        /\ "RBAC_VERIFICATION" \in Rule
        /\ "AUTHORIZED_ALLOW" \in Rule
    BY <2>1 DEF DefaultRules
  <2> HIDE DEF Rule
  <2> QED BY <2>2 DEF DefaultRules
<1> QED BY <1>2 DEF DefaultRules

\* Every rule has a priority and an outcome.
LEMMA RuleTypes ==
  ASSUME NEW rule \in Rule
  PROVE  Priority(rule) \in Int /\ OutcomeOf(rule) \in Outcome
<1>1. rule \in DOMAIN CustomRule \/ rule \in ToSet(DefaultRules)
  BY DEF Rule
<1>2. \/ rule \in DOMAIN CustomRule
      \/ rule \in {"EXTREME_RISK_BLOCK", "PROD_HIGH_RISK_ESCALATE",
                   "SENSITIVE_ACTION_APPROVAL", "RBAC_VERIFICATION", "AUTHORIZED_ALLOW"}
  <2>1. ASSUME rule \in ToSet(DefaultRules)
        PROVE  \E i \in 1 .. 5 : rule = DefaultRules[i]
    BY <2>1, DefaultRulesAre DEF ToSet
  <2> QED BY <1>1, <2>1, DefaultRulesAre
<1>3. rule \in DOMAIN CustomRule =>
        CustomRule[rule].priority \in Int /\ CustomRule[rule].outcome \in Outcome
  BY PolicyAssumption
<1> QED BY <1>2, <1>3 DEF Priority, OutcomeOf, Outcome

\* The last default rule matches whatever is asked.
LEMMA LastRuleMatches == \A input : Matches("AUTHORIZED_ALLOW", input)
BY DEF Matches

\* Where the elements are after one was inserted.
LEMMA InsertAtIs ==
  ASSUME NEW S, NEW seq \in Seq(S), NEW e \in S, NEW n \in 1 .. Len(seq) + 1
  PROVE  /\ InsertAt(seq, n, e) \in Seq(S)
         /\ Len(InsertAt(seq, n, e)) = Len(seq) + 1
         /\ \A i \in 1 .. Len(seq) + 1 :
              InsertAt(seq, n, e)[i] =
                IF i < n THEN seq[i] ELSE IF i = n THEN e ELSE seq[i - 1]
<1> DEFINE front == SubSeq(seq, 1, n - 1)
           back == SubSeq(seq, n, Len(seq))
<1>0. Len(seq) \in Nat /\ n \in Nat
  OBVIOUS
<1>1. /\ front \in Seq(S)
      /\ Len(front) = n - 1
      /\ \A i \in 1 .. n - 1 : front[i] = seq[i]
  BY <1>0, SubSeqProperties
<1>2. /\ back \in Seq(S)
      /\ Len(back) = Len(seq) - n + 1
      /\ \A i \in 1 .. Len(seq) - n + 1 : back[i] = seq[n + i - 1]
  BY <1>0, SubSeqProperties
<1>3. InsertAt(seq, n, e) = front \o <<e>> \o back
  BY DEF InsertAt
<1> HIDE DEF front, back
<1>4. /\ front \o <<e>> \in Seq(S)
      /\ Len(front \o <<e>>) = n
      /\ \A i \in 1 .. n : (front \o <<e>>)[i] = IF i < n THEN seq[i] ELSE e
  BY <1>0, <1>1
<1>5. /\ (front \o <<e>>) \o back \in Seq(S)
      /\ Len((front \o <<e>>) \o back) = Len(seq) + 1
  BY <1>0, <1>2, <1>4
<1> DEFINE whole == (front \o <<e>>) \o back
<1>6. \A i \in 1 .. n : whole[i] = IF i < n THEN seq[i] ELSE e
  BY <1>0, <1>2, <1>4
<1>7. \A i \in n + 1 .. Len(seq) + 1 : whole[i] = seq[i - 1]
  <2>1. SUFFICES ASSUME NEW i \in n + 1 .. Len(seq) + 1
                 PROVE  whole[i] = seq[i - 1]
    OBVIOUS
  <2>2. i - n \in 1 .. Len(seq) - n + 1 /\ n + (i - n) - 1 = i - 1
    BY <1>0
  <2>3. whole[i] = back[i - n]
    BY <1>0, <1>2, <1>4, <2>2
  <2>4. back[i - n] = seq[n + (i - n) - 1]
    BY <1>2, <2>2
  <2> QED BY <2>2, <2>3, <2>4
<1> HIDE DEF whole
<1> QED BY <1>0, <1>3, <1>5, <1>6, <1>7 DEF whole

\* registerRule puts the new rule before the first that is below it.
LEMMA RankedIs ==
  ASSUME NEW seq \in Seq(Rule), NEW rule \in Rule
  PROVE  \E place \in 1 .. Len(seq) + 1 :
           /\ Ranked(seq, rule) \in Seq(Rule)
           /\ Len(Ranked(seq, rule)) = Len(seq) + 1
           /\ \A i \in 1 .. Len(seq) + 1 :
                Ranked(seq, rule)[i] =
                  IF i < place THEN seq[i] ELSE IF i = place THEN rule ELSE seq[i - 1]
           /\ place <= Len(seq) => Priority(seq[place]) < Priority(rule)
           /\ \A i \in 1 .. place - 1 : ~(Priority(seq[i]) < Priority(rule))
<1> DEFINE below == {i \in DOMAIN seq : Priority(seq[i]) < Priority(rule)}
<1>1. PICK place : place = Min(below \union {Len(seq) + 1})
  OBVIOUS
<1>2. /\ place \in below \union {Len(seq) + 1}
      /\ \A i \in below \union {Len(seq) + 1} : place <= i
  <2>1. below \union {Len(seq) + 1} \subseteq Nat
    OBVIOUS
  <2> HIDE DEF below
  <2> QED BY <1>1, <2>1, LeastNatural
<1>3. place \in 1 .. Len(seq) + 1
  BY <1>2
<1>4. Ranked(seq, rule) = InsertAt(seq, place, rule)
  BY <1>1 DEF Ranked
<1>5. /\ place <= Len(seq) => Priority(seq[place]) < Priority(rule)
      /\ \A i \in 1 .. place - 1 : ~(Priority(seq[i]) < Priority(rule))
  BY <1>2, <1>3
<1> HIDE DEF below
<1>6. /\ InsertAt(seq, place, rule) \in Seq(Rule)
      /\ Len(InsertAt(seq, place, rule)) = Len(seq) + 1
  BY <1>3, InsertAtIs, Zenon
<1>7. \A i \in 1 .. Len(seq) + 1 :
        InsertAt(seq, place, rule)[i] =
          IF i < place THEN seq[i] ELSE IF i = place THEN rule ELSE seq[i - 1]
  BY <1>3, InsertAtIs, SMT
<1> QED BY <1>3, <1>4, <1>5, <1>6, <1>7, Zenon

\* registerRule puts the new rule in its place, and leaves the others in theirs.
LEMMA RankedOrders ==
  ASSUME NEW seq \in Seq(Rule), NEW reg \in Seq(Rule), NEW rule \in Rule,
         NEW p \in [DOMAIN seq -> DOMAIN reg], Orders(p, seq, reg)
  PROVE  /\ Ranked(seq, rule) \in Seq(Rule)
         /\ \E q \in [DOMAIN Ranked(seq, rule) -> DOMAIN Append(reg, rule)] :
              Orders(q, Ranked(seq, rule), Append(reg, rule))
<1> DEFINE N == Len(seq)
           M == Len(reg)
           next == Ranked(seq, rule)
           regNext == Append(reg, rule)
<1>1. N \in Nat /\ M \in Nat /\ DOMAIN seq = 1 .. N /\ DOMAIN reg = 1 .. M
  OBVIOUS
<1>2. PICK place \in 1 .. N + 1 :
        /\ next \in Seq(Rule)
        /\ Len(next) = N + 1
        /\ \A i \in 1 .. N + 1 :
             next[i] = IF i < place THEN seq[i] ELSE IF i = place THEN rule ELSE seq[i - 1]
        /\ place <= N => Priority(seq[place]) < Priority(rule)
        /\ \A i \in 1 .. place - 1 : ~(Priority(seq[i]) < Priority(rule))
  BY RankedIs
<1> DEFINE q == [i \in 1 .. N + 1 |-> IF i < place THEN p[i]
                                      ELSE IF i = place THEN M + 1 ELSE p[i - 1]]
<1> HIDE DEF next
<1>3. place \in 1 .. N + 1
  OBVIOUS
<1>5. /\ next \in Seq(Rule)
      /\ Len(next) = N + 1
      /\ DOMAIN next = 1 .. N + 1
      /\ \A i \in 1 .. N + 1 :
           next[i] = IF i < place THEN seq[i] ELSE IF i = place THEN rule ELSE seq[i - 1]
  BY <1>1, <1>2
<1>6. /\ regNext \in Seq(Rule)
      /\ DOMAIN regNext = 1 .. M + 1
      /\ \A a \in 1 .. M : regNext[a] = reg[a]
      /\ regNext[M + 1] = rule
  BY <1>1
<1> HIDE DEF regNext
<1>7. \A i \in 1 .. N : p[i] \in 1 .. M
  BY <1>1
<1>8. q \in [1 .. N + 1 -> 1 .. M + 1]
  BY <1>1, <1>3, <1>7
<1>9. \A i \in 1 .. N + 1 :
        q[i] = IF i < place THEN p[i] ELSE IF i = place THEN M + 1 ELSE p[i - 1]
  OBVIOUS
<1> HIDE DEF q
<1>10. ASSUME NEW a \in 1 .. M + 1
       PROVE  \E i \in 1 .. N + 1 : q[i] = a
  <2>1. CASE a = M + 1
    BY <1>3, <1>9, <2>1
  <2>2. CASE a \in 1 .. M
    <3>1. PICK i \in 1 .. N : p[i] = a
      BY <1>1, <2>2 DEF Orders
    <3>2. CASE i < place
      BY <1>1, <1>9, <3>1, <3>2
    <3>3. CASE i >= place
      <4>1. i + 1 \in 1 .. N + 1 /\ ~(i + 1 < place) /\ i + 1 # place /\ (i + 1) - 1 = i
        BY <1>1, <1>3, <3>3
      <4>2. q[i + 1] = p[i]
        BY <1>9, <4>1
      <4> QED BY <3>1, <4>1, <4>2
    <3> QED BY <1>1, <1>3, <3>2, <3>3
  <2> QED BY <1>1, <2>1, <2>2
<1>11. ASSUME NEW i \in 1 .. N + 1
       PROVE  next[i] = regNext[q[i]]
  <2>1. CASE i < place
    <3>1. i \in 1 .. N
      BY <1>1, <1>3, <2>1
    <3>2. seq[i] = reg[p[i]]
      BY <1>1, <3>1 DEF Orders
    <3> QED BY <1>5, <1>6, <1>7, <1>9, <2>1, <3>1, <3>2
  <2>2. CASE i = place
    BY <1>3, <1>5, <1>6, <1>9, <2>2
  <2>3. CASE i > place
    <3>1. i - 1 \in 1 .. N
      BY <1>1, <1>3, <2>3
    <3>2. seq[i - 1] = reg[p[i - 1]]
      BY <1>1, <3>1 DEF Orders
    <3>3. next[i] = seq[i - 1] /\ q[i] = p[i - 1]
      BY <1>3, <1>5, <1>9, <2>3
    <3> QED BY <1>6, <1>7, <3>1, <3>2, <3>3
  <2> QED BY <1>3, <2>1, <2>2, <2>3
<1>12. \A i, j \in 1 .. N : i < j => Before(reg, p[i], p[j])
  BY <1>1 DEF Orders
<1>13. \A a, b \in 1 .. M : Before(reg, a, b) => Before(regNext, a, b)
  BY <1>6 DEF Before
<1>14. \A i \in 1 .. N : seq[i] = reg[p[i]] /\ Priority(seq[i]) \in Int
  <2>1. \A i \in 1 .. N : seq[i] \in Rule
    BY <1>1
  <2> QED BY <1>1, <2>1, RuleTypes DEF Orders
<1>15. Priority(rule) \in Int
  BY RuleTypes
<1>16. ASSUME NEW i \in 1 .. N, i < place
       PROVE  Before(regNext, p[i], M + 1)
  <2>1. Priority(seq[i]) >= Priority(rule)
    <3>1. i \in 1 .. place - 1
      BY <1>1, <1>3, <1>16
    <3> QED BY <1>1, <1>2, <1>14, <1>15, <3>1
  <2>2. regNext[p[i]] = seq[i] /\ p[i] < M + 1
    BY <1>1, <1>6, <1>7, <1>14
  <2>3. regNext[M + 1] = rule
    BY <1>6
  <2> QED BY <1>14, <1>15, <2>1, <2>2, <2>3 DEF Before
<1>17. ASSUME NEW i \in 1 .. N, i >= place
       PROVE  Before(regNext, M + 1, p[i])
  <2>2. place \in 1 .. N /\ Priority(seq[place]) < Priority(rule)
    BY <1>1, <1>2, <1>3, <1>17
  <2>3. Priority(seq[i]) <= Priority(seq[place])
    <3>1. CASE i = place
      BY <1>14, <3>1
    <3>2. CASE place < i
      <4>1. Before(reg, p[place], p[i])
        BY <1>12, <2>2, <3>2
      <4> QED BY <1>14, <2>2, <4>1 DEF Before
    <3> QED BY <1>1, <1>3, <1>17, <3>1, <3>2
  <2>4. regNext[p[i]] = seq[i]
    BY <1>6, <1>7, <1>14
  <2> QED BY <1>6, <1>14, <1>15, <2>2, <2>3, <2>4 DEF Before
<1>18. ASSUME NEW i \in 1 .. N + 1, NEW j \in 1 .. N + 1, i < j
       PROVE  Before(regNext, q[i], q[j])
  <2>1. CASE j < place
    <3>1. /\ i \in 1 .. N /\ j \in 1 .. N
          /\ q[i] = p[i] /\ q[j] = p[j]
      BY <1>1, <1>3, <1>9, <1>18, <2>1
    <3> QED BY <1>7, <1>12, <1>13, <1>18, <3>1
  <2>2. CASE j = place
    <3>1. /\ i \in 1 .. N /\ i < place
          /\ q[i] = p[i] /\ q[j] = M + 1
      BY <1>1, <1>3, <1>9, <1>18, <2>2
    <3> QED BY <1>16, <3>1
  <2>3. CASE i = place
    <3>1. /\ j - 1 \in 1 .. N /\ j - 1 >= place
          /\ q[i] = M + 1 /\ q[j] = p[j - 1]
      BY <1>1, <1>3, <1>9, <1>18, <2>3
    <3> QED BY <1>17, <3>1
  <2>4. CASE i < place /\ j > place
    <3>1. /\ i \in 1 .. N /\ j - 1 \in 1 .. N /\ i < j - 1
          /\ q[i] = p[i] /\ q[j] = p[j - 1]
      BY <1>1, <1>3, <1>9, <1>18, <2>4
    <3> QED BY <1>7, <1>12, <1>13, <3>1
  <2>5. CASE i > place
    <3>1. /\ i - 1 \in 1 .. N /\ j - 1 \in 1 .. N /\ i - 1 < j - 1
          /\ q[i] = p[i - 1] /\ q[j] = p[j - 1]
      BY <1>1, <1>3, <1>9, <1>18, <2>5
    <3> QED BY <1>7, <1>12, <1>13, <3>1
  <2> QED BY <1>1, <1>3, <2>1, <2>2, <2>3, <2>4, <2>5
<1>19. Orders(q, next, regNext)
  BY <1>5, <1>6, <1>8, <1>10, <1>11, <1>18 DEF Orders
<1> QED BY <1>5, <1>6, <1>8, <1>19 DEF next, regNext

\* The constructor, and resetRules, register the default rules in the order of
\* their priorities.
LEMMA DefaultsInOrder == InOrder(DefaultRules, DefaultRules)
<1> DEFINE p == [i \in 1 .. 5 |-> i]
<1>1. /\ p \in [1 .. 5 -> 1 .. 5]
      /\ \A i \in 1 .. 5 : p[i] = i
  OBVIOUS
<1> HIDE DEF p
<1>2. /\ Priority(DefaultRules[1]) = 100
      /\ Priority(DefaultRules[2]) = 80
      /\ Priority(DefaultRules[3]) = 70
      /\ Priority(DefaultRules[4]) = 50
      /\ Priority(DefaultRules[5]) = 10
  BY DefaultRulesAre DEF Priority
<1>3. ASSUME NEW i \in 1 .. 5, NEW j \in 1 .. 5, i < j
      PROVE  Before(DefaultRules, p[i], p[j])
  BY <1>1, <1>2, <1>3 DEF Before
<1>4. Orders(p, DefaultRules, DefaultRules)
  BY <1>1, <1>3, DefaultRulesAre DEF Orders
<1>5. DefaultsAmong(DefaultRules)
  BY DefaultRulesAre DEF DefaultsAmong
<1>6. p \in [DOMAIN DefaultRules -> DOMAIN DefaultRules]
  BY <1>1, DefaultRulesAre
<1> QED BY <1>4, <1>5, <1>6, DefaultRulesAre DEF InOrder

\* One more registration keeps the order.
LEMMA RankedInOrder ==
  ASSUME NEW seq, NEW reg, InOrder(seq, reg), NEW rule \in Rule
  PROVE  InOrder(Ranked(seq, rule), Append(reg, rule))
<1>1. seq \in Seq(Rule) /\ reg \in Seq(Rule)
  BY DEF InOrder
<1>2. PICK p \in [DOMAIN seq -> DOMAIN reg] : Orders(p, seq, reg)
  BY DEF InOrder
<1>3. /\ Ranked(seq, rule) \in Seq(Rule)
      /\ \E q \in [DOMAIN Ranked(seq, rule) -> DOMAIN Append(reg, rule)] :
           Orders(q, Ranked(seq, rule), Append(reg, rule))
  BY <1>1, <1>2, RankedOrders
<1>4. Append(reg, rule) \in Seq(Rule)
  BY <1>1
<1>5. DefaultsAmong(Append(reg, rule))
  <2>1. DefaultsAmong(reg)
    BY DEF InOrder
  <2>2. \A a \in DOMAIN reg :
          a \in DOMAIN Append(reg, rule) /\ Append(reg, rule)[a] = reg[a]
    BY <1>1
  <2> QED BY <2>1, <2>2, Zenon DEF DefaultsAmong
<1> QED BY <1>3, <1>4, <1>5 DEF InOrder

\* Registrations and resets keep the rules in order.
LEMMA PrecedenceStep ==
  ASSUME PrecedenceInv, PolicyNext \/ UNCHANGED policyVars
  PROVE  PrecedenceInv'
<1>1. ASSUME NEW rule \in DOMAIN CustomRule, RegisterRule(rule)
      PROVE  PrecedenceInv'
  BY <1>1, RankedInOrder DEF PrecedenceInv, RegisterRule, Rule
<1>2. CASE ResetRules
  BY <1>2, DefaultsInOrder DEF PrecedenceInv, ResetRules
<1>3. CASE UNCHANGED policyVars
  BY <1>3 DEF policyVars, PrecedenceInv
<1> QED BY <1>1, <1>2, <1>3 DEF PolicyNext

\* The first rule that matches is the one that governs.
LEMMA FirstGoverns ==
  ASSUME PrecedenceInv, NEW input \in Input
  PROVE  \E i \in DOMAIN registered :
           Governs(i, input) /\ EvaluateWithPrecedence(input) = OutcomeOf(registered[i])
<1> DEFINE matching == {i \in DOMAIN rules : Matches(rules[i], input)}
           first == Min(matching)
<1>1. PICK p \in [DOMAIN rules -> DOMAIN registered] : Orders(p, rules, registered)
  BY DEF PrecedenceInv, InOrder
<1>2. rules \in Seq(Rule) /\ registered \in Seq(Rule)
  BY DEF PrecedenceInv, InOrder
<1>3. matching # {}
  <2>1. PICK a \in DOMAIN registered : registered[a] = "AUTHORIZED_ALLOW"
    BY DefaultRulesAre DEF PrecedenceInv, InOrder, DefaultsAmong
  <2>2. PICK i \in DOMAIN rules : p[i] = a
    BY <1>1, <2>1 DEF Orders
  <2>3. rules[i] = "AUTHORIZED_ALLOW"
    BY <1>1, <2>1, <2>2 DEF Orders
  <2>4. Matches(rules[i], input)
    BY <2>3, LastRuleMatches
  <2> QED BY <2>4
<1>4. first \in matching /\ \A i \in matching : first <= i
  <2>1. matching \subseteq Nat
    BY <1>2
  <2> HIDE DEF matching
  <2> QED BY <1>3, <2>1, LeastNatural
<1>5. EvaluateWithPrecedence(input) = OutcomeOf(rules[first])
  BY <1>3 DEF EvaluateWithPrecedence, Verdict
<1> HIDE DEF first
<1>6. /\ first \in DOMAIN rules
      /\ p[first] \in DOMAIN registered
      /\ registered[p[first]] = rules[first]
  BY <1>1, <1>4 DEF Orders
<1>7. Matches(registered[p[first]], input)
  BY <1>4, <1>6
<1>8. ASSUME NEW j \in DOMAIN registered \ {p[first]}, Matches(registered[j], input)
      PROVE  \/ Priority(registered[j]) < Priority(registered[p[first]])
             \/ /\ Priority(registered[j]) = Priority(registered[p[first]])
                /\ p[first] < j
  <2>1. PICK k \in DOMAIN rules : p[k] = j
    BY <1>1 DEF Orders
  <2>2. k # first /\ k \in matching
    BY <1>1, <1>8, <2>1 DEF Orders
  <2>3. first < k
    BY <1>2, <1>4, <1>6, <2>2
  <2>4. Before(registered, p[first], j)
    BY <1>1, <1>6, <2>1, <2>3 DEF Orders
  <2>5. Priority(registered[j]) \in Int /\ Priority(registered[p[first]]) \in Int
    <3>1. registered[j] \in Rule /\ registered[p[first]] \in Rule
      BY <1>2, <1>6
    <3> QED BY <3>1, RuleTypes
  <2> QED BY <2>4, <2>5 DEF Before
<1>9. Governs(p[first], input)
  BY <1>7, <1>8 DEF Governs
<1> QED BY <1>5, <1>6, <1>9

\* What is past its risk limit is matched by a default rule that is above every
\* default rule that allows.
LEMMA RiskyIsBlocked ==
  ASSUME PrecedenceInv, NEW input \in Input, input.riskScore >= RiskLimit(input),
         NEW i \in DOMAIN registered, Governs(i, input), OutcomeOf(registered[i]) = "ALLOW"
  PROVE  registered[i] \in DOMAIN CustomRule
<1> SUFFICES ASSUME registered[i] \notin DOMAIN CustomRule
             PROVE  FALSE
  OBVIOUS
<1>1. registered[i] = "AUTHORIZED_ALLOW"
  <2>1. registered[i] \in Rule
    BY DEF PrecedenceInv, InOrder
  <2>2. \E k \in 1 .. 5 : registered[i] = DefaultRules[k]
    BY <2>1, DefaultRulesAre DEF Rule, ToSet
  <2> QED BY <2>2, DefaultRulesAre DEF OutcomeOf
<1>2. PICK blocker \in {"PROD_HIGH_RISK_ESCALATE", "EXTREME_RISK_BLOCK"} : Matches(blocker, input)
  BY DEF Matches, RiskLimit
<1>3. PICK j \in DOMAIN registered : registered[j] = blocker
  BY <1>2, DefaultRulesAre DEF PrecedenceInv, InOrder, DefaultsAmong
<1>4. j # i /\ Matches(registered[j], input)
  BY <1>1, <1>2, <1>3
<1>5. Priority(registered[j]) >= 80 /\ Priority(registered[j]) \in Int
  BY <1>2, <1>3 DEF Priority
<1>6. Priority(registered[i]) = 10
  BY <1>1 DEF Priority
<1> QED BY <1>4, <1>5, <1>6 DEF Governs

\* Both that the run checks of precedence.
LEMMA PrecedenceDecides == PrecedenceInv => HighestPriorityDecides
<1> SUFFICES ASSUME PrecedenceInv, NEW input \in Input
             PROVE  /\ \E i \in DOMAIN registered :
                         /\ Governs(i, input)
                         /\ EvaluateWithPrecedence(input) = OutcomeOf(registered[i])
                    /\ /\ EvaluateWithPrecedence(input) = "ALLOW"
                       /\ input.riskScore >= RiskLimit(input)
                       => \E i \in DOMAIN registered :
                            Governs(i, input) /\ registered[i] \in DOMAIN CustomRule
  BY DEF HighestPriorityDecides
<1>1. PICK i \in DOMAIN registered :
        Governs(i, input) /\ EvaluateWithPrecedence(input) = OutcomeOf(registered[i])
  BY FirstGoverns
<1>2. ASSUME EvaluateWithPrecedence(input) = "ALLOW", input.riskScore >= RiskLimit(input)
      PROVE  registered[i] \in DOMAIN CustomRule
  BY <1>1, <1>2, RiskyIsBlocked
<1> QED BY <1>1, <1>2

\* Whatever is asked, the answer is one of the four.
LEMMA VerdictType == PrecedenceInv => \A input \in Input : EvaluateWithPrecedence(input) \in Outcome
<1> SUFFICES ASSUME PrecedenceInv, NEW input \in Input
             PROVE  EvaluateWithPrecedence(input) \in Outcome
  OBVIOUS
<1>1. PICK i \in DOMAIN registered : EvaluateWithPrecedence(input) = OutcomeOf(registered[i])
  BY FirstGoverns
<1>2. registered[i] \in Rule
  BY DEF PrecedenceInv, InOrder
<1> QED BY <1>1, <1>2, RuleTypes

-----------------------------------------------------------------------------
(* The record of a call. *)

Approval(c) == Entry(c, "DECISION", "SUCCESS")

\* The audit knows of the call that it was allowed, and nothing more.
JustAllowed(log, c) ==
  \E i \in DOMAIN log : Trail(log, c) = {i} /\ log[i] = Approval(c)

\* What one more record does to the trails.
LEMMA TrailAfterAppend ==
  ASSUME NEW log \in Seq(Record), NEW e \in Record, NEW c
  PROVE  /\ Append(log, e) \in Seq(Record)
         /\ Trail(Append(log, e), c) =
              IF e.call = c THEN Trail(log, c) \union {Len(log) + 1} ELSE Trail(log, c)
         /\ \A i \in DOMAIN log : Append(log, e)[i] = log[i] /\ i < Len(log) + 1
         /\ Append(log, e)[Len(log) + 1] = e
<1> DEFINE next == Append(log, e)
<1>1. /\ next \in Seq(Record)
      /\ Len(next) = Len(log) + 1
      /\ DOMAIN next = 1 .. Len(log) + 1
      /\ \A i \in 1 .. Len(log) : next[i] = log[i]
      /\ next[Len(log) + 1] = e
  BY AppendProperties
<1>2. DOMAIN log = 1 .. Len(log) /\ Len(log) \in Nat
  OBVIOUS
<1> HIDE DEF next
<1>3. CASE e.call = c
  BY <1>1, <1>2, <1>3 DEF Trail
<1>4. CASE e.call # c
  BY <1>1, <1>2, <1>4 DEF Trail
<1> QED BY <1>1, <1>2, <1>3, <1>4 DEF next

\* A record of one call changes nothing about the others.
LEMMA OtherTrails ==
  ASSUME NEW log \in Seq(Record), NEW e \in Record, NEW c, e.call # c
  PROVE  /\ Trail(Append(log, e), c) = Trail(log, c)
         /\ JustAllowed(log, c) => JustAllowed(Append(log, e), c)
         /\ \A entry : BeginsWith(log, c, entry) => BeginsWith(Append(log, e), c, entry)
         /\ \A what : EndsWith(Append(log, e), c, what) <=> EndsWith(log, c, what)
<1> DEFINE next == Append(log, e)
<1>1. /\ Trail(next, c) = Trail(log, c)
      /\ \A i \in DOMAIN log : next[i] = log[i]
  BY TrailAfterAppend
<1>2. Trail(log, c) \subseteq DOMAIN log /\ DOMAIN log \subseteq DOMAIN next
  BY AppendProperties DEF Trail
<1> HIDE DEF next
<1>3. JustAllowed(log, c) => JustAllowed(next, c)
  BY <1>1, <1>2 DEF JustAllowed
<1>4. ASSUME NEW entry, BeginsWith(log, c, entry)
      PROVE  BeginsWith(next, c, entry)
  BY <1>1, <1>2, <1>4 DEF BeginsWith
<1>5. ASSUME NEW what
      PROVE  EndsWith(next, c, what) <=> EndsWith(log, c, what)
  BY <1>1, <1>2 DEF EndsWith
<1> QED BY <1>1, <1>3, <1>4, <1>5 DEF next

\* The trail of a call after a record of its own.
LEMMA OwnTrail ==
  ASSUME NEW log \in Seq(Record), NEW e \in Record, NEW c, e.call = c
  PROVE  /\ \A what : EndsWith(Append(log, e), c, what) <=> e.what = what
         /\ Trail(log, c) = {} /\ e = Approval(c) => JustAllowed(Append(log, e), c)
         /\ BeginsWith(log, c, Approval(c)) /\ e.what # "DECISION"
              => BeginsWith(Append(log, e), c, Approval(c))
<1> DEFINE next == Append(log, e)
           n == Len(log) + 1
<1>1. /\ Trail(next, c) = Trail(log, c) \union {n}
      /\ \A i \in DOMAIN log : next[i] = log[i] /\ i < n
      /\ next[n] = e
  BY TrailAfterAppend
<1>2. /\ Trail(log, c) \subseteq DOMAIN log
      /\ n \in DOMAIN next
      /\ n \in Nat
      /\ \A i \in DOMAIN log : i \in Nat
  BY AppendProperties DEF Trail
<1> HIDE DEF next, n
<1>3. ASSUME NEW what
      PROVE  EndsWith(next, c, what) <=> e.what = what
  <2>1. \A i \in Trail(next, c) : i <= n
    BY <1>1, <1>2
  <2>2. \A i \in Trail(next, c) : n <= i => i = n
    BY <1>1, <1>2
  <2> QED BY <1>1, <2>1, <2>2 DEF EndsWith
<1>4. Trail(log, c) = {} /\ e = Approval(c) => JustAllowed(next, c)
  BY <1>1, <1>2 DEF JustAllowed
<1>5. ASSUME BeginsWith(log, c, Approval(c)), e.what # "DECISION"
      PROVE  BeginsWith(next, c, Approval(c))
  <2>1. Approval(c).what = "DECISION"
    BY DEF Approval, Entry
  <2>2. PICK i \in Trail(log, c) :
          /\ log[i] = Approval(c)
          /\ \A j \in Trail(log, c) \ {i} : i < j /\ log[j].what # Approval(c).what
    BY <1>5 DEF BeginsWith
  <2>3. i \in Trail(next, c) /\ next[i] = Approval(c)
    BY <1>1, <1>2, <2>2
  <2>4. ASSUME NEW j \in Trail(next, c) \ {i}
        PROVE  i < j /\ next[j].what # Approval(c).what
    BY <1>1, <1>2, <1>5, <2>1, <2>2
  <2> QED BY <2>3, <2>4 DEF BeginsWith
<1> QED BY <1>3, <1>4, <1>5 DEF next

\* A call that was just allowed began with its decision.
LEMMA AllowedBegins ==
  ASSUME NEW log, NEW c, JustAllowed(log, c)
  PROVE  BeginsWith(log, c, Approval(c))
BY DEF JustAllowed, BeginsWith

\* A trail that is empty ends with nothing.
LEMMA EmptyTrail ==
  ASSUME NEW log, NEW c, Trail(log, c) = {}
  PROVE  \A what : ~EndsWith(log, c, what)
BY DEF EndsWith

-----------------------------------------------------------------------------
(* The life of a call. *)

CallType == [phase : Phase, kind : Kind, question : Input,
             permission : Outcome, executed : BOOLEAN]

\* Nothing is known of a call before its decision.
Unheard(call, log, emitted, c) ==
  call.phase \in {"idle", "checked"} =>
    /\ Trail(log, c) = {}
    /\ ~call.executed
    /\ c \notin emitted

\* From the decision to the last record there is the decision alone; a tool got
\* there by a permission that said ALLOW, and its executor ran.
Underway(call, log, emitted, c) ==
  call.phase \in {"running", "emitted"} =>
    /\ JustAllowed(log, c)
    /\ c \in emitted <=> call.phase = "emitted"
    /\ call.phase = "running" => call.executed
    /\ call.kind = "tool" => call.executed

Mediated(call, log, c) ==
  call.executed =>
    /\ call.kind = "tool" => call.permission = "ALLOW"
    /\ BeginsWith(log, c, Approval(c))

Told(call, log, emitted, c) ==
  call.phase = "answered" /\ call.kind = "tool" =>
    /\ call.executed <=> EndsWith(log, c, "EXECUTED") \/ EndsWith(log, c, "FAILED")
    /\ c \in emitted <=> EndsWith(log, c, "EXECUTED")

CallInv(call, log, emitted, c) ==
  /\ Unheard(call, log, emitted, c)
  /\ call.phase = "checked" => call.kind = "tool"
  /\ Underway(call, log, emitted, c)
  /\ Mediated(call, log, c)
  /\ Told(call, log, emitted, c)

IInv ==
  /\ PrecedenceInv
  /\ TypeOK
  /\ \A c \in Call : CallInv(calls[c], audit, events, c)

\* What the two properties say, in the terms of the invariant.
LEMMA InvariantTells ==
  IInv => DecidedBeforeExecuted /\ ToolTrailTellsWhatHappened
BY DEF IInv, CallInv, Mediated, Told, Approval, DecidedBeforeExecuted,
       ToolTrailTellsWhatHappened

\* A record of one call, or its event, concerns no other call.
LEMMA OtherCalls ==
  ASSUME NEW log \in Seq(Record), NEW e \in Record, NEW c, e.call # c,
         NEW call, NEW emitted, NEW emittedNext, c \in emittedNext <=> c \in emitted,
         CallInv(call, log, emitted, c)
  PROVE  CallInv(call, Append(log, e), emittedNext, c)
<1>1. Unheard(call, Append(log, e), emittedNext, c)
  BY OtherTrails DEF CallInv, Unheard
<1>2. Underway(call, Append(log, e), emittedNext, c)
  BY OtherTrails DEF CallInv, Underway
<1>3. Mediated(call, Append(log, e), c)
  BY OtherTrails DEF CallInv, Mediated
<1>4. Told(call, Append(log, e), emittedNext, c)
  BY OtherTrails DEF CallInv, Told
<1> QED BY <1>1, <1>2, <1>3, <1>4 DEF CallInv

-----------------------------------------------------------------------------
(* Types. *)

\* Every tool request has an answer among the four.
LEMMA PermissionType ==
  ASSUME PermissionsTypeOK, NEW request \in ToolRequest
  PROVE  CheckPermission(request) \in Outcome
<1> DEFINE p == policies[request.agent]
<1>1. p \in ToolPolicy \union {NoPolicy, VegaPolicy}
  BY MediationAssumption DEF PermissionsTypeOK
<1>2. p.default \in {"DENY", "ALLOW"}
  BY <1>1, ToolPolicyAssumption DEF NoPolicy, VegaPolicy
<1> HIDE DEF p
<1>3. CheckPermission(request) \in {"DENY", "REQUIRE_APPROVAL", "ALLOW", p.default}
  BY DEF CheckPermission, p
<1> QED BY <1>2, <1>3 DEF Outcome

\* What the pipeline puts on record is a record of the call it decides for.
LEMMA EntryType ==
  ASSUME NEW c \in Call
  PROVE  /\ \A what \in What, result \in {"SUCCESS", "DENIED", "FAILURE"} :
              Entry(c, what, result) \in Record
         /\ \A question : /\ Decision(c, question) \in Record
                          /\ Decision(c, question).call = c
                          /\ [Decision(c, question) EXCEPT !.what = "CHANGE"] \in Record
                          /\ [Decision(c, question) EXCEPT !.what = "CHANGE"].call = c
BY DEF Entry, Record, Decision, What

\* The invariant holds of a client that was not called yet.
LEMMA InitTypes == Init => IInv
<1> SUFFICES ASSUME Init PROVE IInv
  OBVIOUS
<1>1. PrecedenceInv
  BY DefaultsInOrder DEF Init, PolicyInit, PrecedenceInv
<1>2. Idle \in CallType
  BY InputAssumption DEF Idle, CallType, Phase, Kind, Outcome
<1>3. TypeOK
  <2>1. PolicyTypeOK
    BY <1>1 DEF PrecedenceInv, InOrder, PolicyTypeOK
  <2>2. PermissionsTypeOK
    BY DEF Init, PermissionsInit, PermissionsTypeOK
  <2>3. calls \in [Call -> CallType]
    BY <1>2 DEF Init
  <2> QED BY <2>1, <2>2, <2>3 DEF Init, TypeOK, CallType
<1>4. ASSUME NEW c \in Call
      PROVE  CallInv(calls[c], audit, events, c)
  <2>1. /\ calls[c].phase = "idle" /\ calls[c].executed = FALSE
        /\ audit = <<>> /\ events = {}
    BY DEF Init, Idle
  <2>2. Trail(audit, c) = {}
    BY <2>1 DEF Trail
  <2> QED BY <2>1, <2>2 DEF CallInv, Unheard, Underway, Mediated, Told
<1> QED BY <1>1, <1>3, <1>4 DEF IInv

-----------------------------------------------------------------------------
(* The steps. *)

\* Two records that are appended together.
LEMMA TwoRecords ==
  ASSUME NEW log \in Seq(Record), NEW e \in Record, NEW f \in Record
  PROVE  log \o <<e, f>> = Append(Append(log, e), f)
<1>1. /\ Append(log, e) \in Seq(Record)
      /\ Append(Append(log, e), f) \in Seq(Record)
      /\ <<e, f>> \in Seq(Record)
  OBVIOUS
<1>2. log \o <<e, f>> \in Seq(Record)
  OBVIOUS
<1>3. Len(log \o <<e, f>>) = Len(Append(Append(log, e), f))
  BY <1>1
<1>4. \A i \in 1 .. Len(log) + 2 : (log \o <<e, f>>)[i] = Append(Append(log, e), f)[i]
  BY <1>1
<1> QED BY <1>1, <1>2, <1>3, <1>4

\* How a step appends to the audit on behalf of c.
Recorded(c) ==
  \/ audit' = audit
  \/ \E e \in Record : e.call = c /\ audit' = Append(audit, e)
  \/ \E e, f \in Record :
       e.call = c /\ f.call = c /\ audit' = Append(Append(audit, e), f)

\* A step of one call keeps the invariant when it keeps it of this call.
LEMMA OneCallStep ==
  ASSUME IInv, NEW c \in Call, NEW call \in CallType,
         Moves(c, call), Recorded(c),
         UNCHANGED <<rules, registered, policies>>,
         events' = events \/ events' = events \union {c},
         CallInv(call, audit', events', c)
  PROVE  IInv'
<1>1. /\ audit \in Seq(Record)
      /\ calls \in [Call -> CallType]
      /\ events \subseteq Call
  BY DEF IInv, TypeOK, CallType
<1>2. calls' = [calls EXCEPT ![c] = call]
  BY DEF Moves
<1>3. PrecedenceInv'
  BY DEF IInv, PrecedenceInv
<1>4. audit' \in Seq(Record)
  BY <1>1 DEF Recorded
<1>5. calls' \in [Call -> CallType]
  BY <1>1, <1>2
<1>6. TypeOK'
  <2>1. PolicyTypeOK' /\ PermissionsTypeOK'
    BY DEF IInv, TypeOK, PolicyTypeOK, PermissionsTypeOK
  <2>2. events' \subseteq Call
    BY <1>1
  <2> QED BY <1>4, <1>5, <2>1, <2>2 DEF TypeOK, CallType
<1>7. ASSUME NEW d \in Call
      PROVE  CallInv(calls'[d], audit', events', d)
  <2>1. CASE d = c
    BY <1>1, <1>2, <2>1
  <2>2. CASE d # c
    <3>1. calls'[d] = calls[d] /\ (d \in events' <=> d \in events)
      BY <1>1, <1>2, <2>2
    <3>2. CallInv(calls[d], audit, events, d)
      BY DEF IInv
    <3>3. CASE audit' = audit
      <4>1. Unheard(calls[d], audit, events', d)
        BY <3>1, <3>2 DEF CallInv, Unheard
      <4>2. Underway(calls[d], audit, events', d)
        BY <3>1, <3>2 DEF CallInv, Underway
      <4>3. Told(calls[d], audit, events', d)
        BY <3>1, <3>2 DEF CallInv, Told
      <4> QED BY <3>1, <3>2, <3>3, <4>1, <4>2, <4>3 DEF CallInv
    <3>4. ASSUME NEW e \in Record, e.call = c, audit' = Append(audit, e)
          PROVE  CallInv(calls[d], audit', events', d)
      BY <1>1, <2>2, <3>1, <3>2, <3>4, OtherCalls
    <3>5. ASSUME NEW e \in Record, NEW f \in Record, e.call = c, f.call = c,
                 audit' = Append(Append(audit, e), f)
          PROVE  CallInv(calls[d], audit', events', d)
      <4>1. Append(audit, e) \in Seq(Record)
        BY <1>1
      <4>2. CallInv(calls[d], Append(audit, e), events', d)
        BY <1>1, <2>2, <3>1, <3>2, <3>5, OtherCalls
      <4> QED BY <2>2, <3>5, <4>1, <4>2, OtherCalls
    <3> QED BY <3>1, <3>3, <3>4, <3>5 DEF Recorded
  <2> QED BY <2>1, <2>2
<1> QED BY <1>3, <1>6, <1>7 DEF IInv

\* The invariant, taken apart for one call.
LEMMA CallOf ==
  ASSUME IInv, NEW c \in Call
  PROVE  /\ calls[c] \in CallType
         /\ audit \in Seq(Record)
         /\ CallInv(calls[c], audit, events, c)
         /\ \A what \in What, result \in {"SUCCESS", "DENIED", "FAILURE"} :
              /\ Entry(c, what, result) \in Record
              /\ Entry(c, what, result).call = c
              /\ Entry(c, what, result).what = what
BY EntryType DEF IInv, TypeOK, CallType, Entry

\* Answering, and nothing else.
LEMMA AnsweredType ==
  ASSUME NEW c \in Call, calls[c] \in CallType
  PROVE  /\ Answered(c) \in CallType
         /\ Answered(c).phase = "answered"
         /\ Answered(c).kind = calls[c].kind
         /\ Answered(c).permission = calls[c].permission
         /\ Answered(c).executed = calls[c].executed
BY DEF Answered, CallType, Phase

\* A tool call that is checked has left no trail yet.
LEMMA InvokeVegaToolStep ==
  ASSUME IInv, NEW c \in Call, NEW request \in ToolRequest, InvokeVegaTool(c, request)
  PROVE  IInv'
<1> DEFINE call == [calls[c] EXCEPT !.phase = "checked", !.kind = "tool",
                                    !.question = ToolQuestion(request),
                                    !.permission = CheckPermission(request)]
<1>1. CheckPermission(request) \in Outcome
  BY PermissionType DEF IInv, TypeOK
<1>2. ToolQuestion(request) \in Input
  BY InputAssumption
<1>3. calls[c] \in CallType /\ CallInv(calls[c], audit, events, c) /\ calls[c].phase = "idle"
  BY CallOf DEF InvokeVegaTool
<1>4. /\ call \in CallType
      /\ call.phase = "checked" /\ call.kind = "tool"
      /\ call.executed = calls[c].executed
  BY <1>1, <1>2, <1>3 DEF CallType, Phase, Kind
<1>5. /\ Moves(c, call)
      /\ UNCHANGED <<rules, registered, policies, audit, events>>
  BY DEF InvokeVegaTool
<1> HIDE DEF call
<1>6. CallInv(call, audit', events', c)
  BY <1>3, <1>4, <1>5 DEF CallInv, Unheard, Underway, Mediated, Told
<1> QED BY <1>4, <1>5, <1>6, OneCallStep DEF Recorded

\* A call without credentials ends without a trail.
LEMMA RejectCredentialsStep ==
  ASSUME IInv, NEW c \in Call, RejectCredentials(c)
  PROVE  IInv'
<1> DEFINE call == [calls[c] EXCEPT !.phase = "answered", !.kind = "tool"]
<1>1. calls[c] \in CallType /\ CallInv(calls[c], audit, events, c) /\ calls[c].phase = "idle"
  BY CallOf DEF RejectCredentials
<1>2. /\ call \in CallType
      /\ call.phase = "answered" /\ call.kind = "tool"
      /\ call.executed = calls[c].executed
  BY <1>1 DEF CallType, Phase, Kind
<1>3. /\ Moves(c, call)
      /\ UNCHANGED <<rules, registered, policies, audit, events>>
  BY DEF RejectCredentials
<1> HIDE DEF call
<1>4. Trail(audit, c) = {} /\ ~calls[c].executed /\ c \notin events
  BY <1>1 DEF CallInv, Unheard
<1>5. CallInv(call, audit', events', c)
  BY <1>2, <1>3, <1>4, EmptyTrail DEF CallInv, Unheard, Underway, Mediated, Told
<1> QED BY <1>2, <1>3, <1>5, OneCallStep DEF Recorded

\* A tool call that is not permitted ends with a record that says BLOCKED.
LEMMA BlockToolStep ==
  ASSUME IInv, NEW c \in Call, BlockTool(c)
  PROVE  IInv'
<1> DEFINE e == Entry(c, "BLOCKED", "DENIED")
<1>1. /\ calls[c] \in CallType /\ CallInv(calls[c], audit, events, c)
      /\ calls[c].phase = "checked" /\ audit \in Seq(Record)
  BY CallOf DEF BlockTool
<1>2. /\ Answered(c) \in CallType
      /\ Answered(c).phase = "answered"
      /\ Answered(c).executed = calls[c].executed
  BY <1>1, AnsweredType
<1>3. e \in Record /\ e.call = c /\ e.what = "BLOCKED"
  BY CallOf DEF What
<1>4. /\ Moves(c, Answered(c)) /\ audit' = Append(audit, e)
      /\ UNCHANGED <<rules, registered, policies, events>>
  BY DEF BlockTool
<1> HIDE DEF e
<1>5. ~calls[c].executed /\ c \notin events
  BY <1>1 DEF CallInv, Unheard
<1>6. \A what : EndsWith(audit', c, what) <=> what = "BLOCKED"
  BY <1>1, <1>3, <1>4, OwnTrail
<1>7. CallInv(Answered(c), audit', events', c)
  BY <1>2, <1>4, <1>5, <1>6 DEF CallInv, Unheard, Underway, Mediated, Told
<1> QED BY <1>2, <1>3, <1>4, <1>7, OneCallStep DEF Recorded

\* A refusal is two records, and no executor starts.
LEMMA RefuseStep ==
  ASSUME IInv, NEW c \in Call, NEW call \in CallType, Refuse(c, call),
         calls[c].phase \in {"idle", "checked"}, call.executed = calls[c].executed
  PROVE  IInv'
<1> DEFINE e == Decision(c, call.question)
           f == Entry(c, "BLOCKED", "DENIED")
           done == [call EXCEPT !.phase = "answered"]
<1>1. /\ CallInv(calls[c], audit, events, c) /\ audit \in Seq(Record)
  BY CallOf
<1>2. done \in CallType /\ done.phase = "answered" /\ done.executed = calls[c].executed
  BY DEF CallType, Phase
<1>3. /\ e \in Record /\ e.call = c
      /\ f \in Record /\ f.call = c /\ f.what = "BLOCKED"
  <2>1. e \in Record /\ e.call = c
    BY EntryType
  <2>2. f \in Record /\ f.call = c /\ f.what = "BLOCKED"
    BY CallOf DEF What
  <2> QED BY <2>1, <2>2
<1>4. /\ Moves(c, done) /\ audit' = audit \o <<e, f>>
      /\ UNCHANGED <<rules, registered, policies, events>>
  BY DEF Refuse
<1> HIDE DEF e, f, done
<1>5. audit' = Append(Append(audit, e), f)
  BY <1>1, <1>3, <1>4, TwoRecords
<1>6. ~calls[c].executed /\ c \notin events
  BY <1>1 DEF CallInv, Unheard
<1>7. \A what : EndsWith(audit', c, what) <=> what = "BLOCKED"
  <2>1. Append(audit, e) \in Seq(Record)
    BY <1>1, <1>3
  <2> QED BY <1>3, <1>5, <2>1, OwnTrail
<1>8. CallInv(done, audit', events', c)
  <2>1. ~done.executed /\ c \notin events'
    BY <1>2, <1>4, <1>6
  <2> QED BY <1>2, <1>7, <2>1 DEF CallInv, Unheard, Underway, Mediated, Told
<1>9. Recorded(c)
  BY <1>3, <1>5 DEF Recorded
<1> QED BY <1>2, <1>4, <1>8, <1>9, OneCallStep

\* What is put on record of a question that is allowed.
LEMMA AllowedDecision ==
  ASSUME NEW c \in Call, NEW question, Allowed(question)
  PROVE  Decision(c, question) = Approval(c) /\ Approval(c) \in Record /\ Approval(c).call = c
<1>1. Decision(c, question) = Approval(c)
  BY DEF Decision, Approval, Allowed
<1> QED BY <1>1, EntryType

\* The approval is the first record of a call.
LEMMA ApprovalRecorded ==
  ASSUME NEW c \in Call, NEW question, Allowed(question), audit \in Seq(Record),
         Trail(audit, c) = {}, audit' = Append(audit, Decision(c, question))
  PROVE  /\ Recorded(c)
         /\ JustAllowed(audit', c)
         /\ BeginsWith(audit', c, Approval(c))
<1>1. audit' = Append(audit, Approval(c)) /\ Approval(c) \in Record /\ Approval(c).call = c
  BY AllowedDecision
<1>2. JustAllowed(audit', c)
  BY <1>1, OwnTrail
<1> QED BY <1>1, <1>2, AllowedBegins DEF Recorded

\* The executor starts on an approval, of a tool only with its permission.
LEMMA StartStep ==
  ASSUME IInv, NEW c \in Call, NEW call \in CallType, Start(c, call),
         calls[c].phase \in {"idle", "checked"},
         call.kind = "tool" => call.permission = "ALLOW"
  PROVE  IInv'
<1> DEFINE next == [call EXCEPT !.phase = "running", !.executed = TRUE]
<1>1. /\ CallInv(calls[c], audit, events, c) /\ audit \in Seq(Record)
  BY CallOf
<1>2. /\ next \in CallType
      /\ next.phase = "running" /\ next.executed
      /\ next.kind = call.kind /\ next.permission = call.permission
  BY DEF CallType, Phase
<1>3. /\ Moves(c, next) /\ Allowed(call.question)
      /\ audit' = Append(audit, Decision(c, call.question))
      /\ UNCHANGED <<rules, registered, policies, events>>
  BY DEF Start
<1> HIDE DEF next
<1>4. Trail(audit, c) = {} /\ c \notin events
  BY <1>1 DEF CallInv, Unheard
<1>5. Recorded(c) /\ JustAllowed(audit', c) /\ BeginsWith(audit', c, Approval(c))
  BY <1>1, <1>3, <1>4, ApprovalRecorded
<1>6. CallInv(next, audit', events', c)
  BY <1>2, <1>3, <1>4, <1>5 DEF CallInv, Unheard, Underway, Mediated, Told
<1> QED BY <1>2, <1>3, <1>5, <1>6, OneCallStep

\* A permitted tool call is refused or started on the pipeline's decision.
LEMMA DecideToolStep ==
  ASSUME IInv, NEW c \in Call, DecideTool(c)
  PROVE  IInv'
<1>1. calls[c] \in CallType /\ calls[c].phase = "checked" /\ calls[c].permission = "ALLOW"
  BY CallOf DEF DecideTool, Permitted
<1> QED BY <1>1, RefuseStep, StartStep DEF DecideTool

\* An executive call asks a question of the pipeline.
LEMMA ExecutiveCallType ==
  ASSUME NEW c \in Call, calls[c] \in CallType, NEW action \in ExecutiveAction
  PROVE  /\ ExecutiveCall(c, action) \in CallType
         /\ ExecutiveCall(c, action).kind = "executive"
         /\ ExecutiveCall(c, action).executed = calls[c].executed
BY InputAssumption DEF ExecutiveCall, CallType, Kind

\* An executive action is refused or started on the same decision.
LEMMA EvaluateExecutiveActionStep ==
  ASSUME IInv, NEW c \in Call, NEW action \in ExecutiveAction,
         EvaluateExecutiveAction(c, action)
  PROVE  IInv'
<1>1. calls[c] \in CallType /\ calls[c].phase = "idle"
  BY CallOf DEF EvaluateExecutiveAction
<1> QED BY <1>1, ExecutiveCallType, RefuseStep, StartStep DEF EvaluateExecutiveAction

\* Without an executor, an allowed action goes straight to its event.
LEMMA EvaluateWithoutExecutorStep ==
  ASSUME IInv, NEW c \in Call, NEW action \in ExecutiveAction,
         EvaluateWithoutExecutor(c, action)
  PROVE  IInv'
<1> DEFINE call == ExecutiveCall(c, action)
           next == [call EXCEPT !.phase = "emitted"]
<1>1. /\ CallInv(calls[c], audit, events, c) /\ audit \in Seq(Record)
      /\ calls[c] \in CallType /\ calls[c].phase = "idle"
  BY CallOf DEF EvaluateWithoutExecutor
<1>2. call \in CallType /\ call.kind = "executive" /\ call.executed = calls[c].executed
  BY <1>1, ExecutiveCallType
<1>3. /\ Moves(c, next) /\ Allowed(call.question)
      /\ audit' = Append(audit, Decision(c, call.question))
      /\ events' = events \union {c}
      /\ UNCHANGED <<rules, registered, policies>>
  BY DEF EvaluateWithoutExecutor
<1> HIDE DEF call
<1>4. /\ next \in CallType
      /\ next.phase = "emitted" /\ next.kind = "executive"
      /\ next.executed = calls[c].executed
  BY <1>2 DEF CallType, Phase
<1> HIDE DEF next
<1>5. Trail(audit, c) = {} /\ c \notin events /\ ~calls[c].executed
  BY <1>1 DEF CallInv, Unheard
<1>6. Recorded(c) /\ JustAllowed(audit', c) /\ BeginsWith(audit', c, Approval(c))
  BY <1>1, <1>3, <1>5, ApprovalRecorded
<1>7. c \in events'
  BY <1>3
<1>8. CallInv(next, audit', events', c)
  BY <1>4, <1>5, <1>6, <1>7 DEF CallInv, Unheard, Underway, Mediated, Told
<1> QED BY <1>3, <1>4, <1>6, <1>8, OneCallStep

\* An event says nothing in the trail.
LEMMA EmitEventStep ==
  ASSUME IInv, NEW c \in Call, EmitEvent(c)
  PROVE  IInv'
<1> DEFINE next == [calls[c] EXCEPT !.phase = "emitted"]
<1>1. /\ calls[c] \in CallType /\ CallInv(calls[c], audit, events, c)
      /\ calls[c].phase = "running"
  BY CallOf DEF EmitEvent
<1>2. /\ next \in CallType
      /\ next.phase = "emitted"
      /\ next.kind = calls[c].kind /\ next.permission = calls[c].permission
      /\ next.executed = calls[c].executed
  BY <1>1 DEF CallType, Phase
<1>3. /\ Moves(c, next) /\ events' = events \union {c}
      /\ UNCHANGED <<rules, registered, policies, audit>>
  BY DEF EmitEvent
<1> HIDE DEF next
<1>4. CallInv(next, audit', events', c)
  BY <1>1, <1>2, <1>3 DEF CallInv, Unheard, Underway, Mediated, Told
<1> QED BY <1>2, <1>3, <1>4, OneCallStep DEF Recorded

\* An executor that throws ends the call; that of a tool is on record.
LEMMA FailStep ==
  ASSUME IInv, NEW c \in Call, Fail(c)
  PROVE  IInv'
<1> DEFINE e == Entry(c, "FAILED", "FAILURE")
<1>1. /\ calls[c] \in CallType /\ CallInv(calls[c], audit, events, c)
      /\ calls[c].phase = "running" /\ audit \in Seq(Record)
  BY CallOf DEF Fail
<1>2. /\ Answered(c) \in CallType
      /\ Answered(c).phase = "answered"
      /\ Answered(c).kind = calls[c].kind
      /\ Answered(c).permission = calls[c].permission
      /\ Answered(c).executed = calls[c].executed
  BY <1>1, AnsweredType
<1>3. e \in Record /\ e.call = c /\ e.what = "FAILED"
  BY CallOf DEF What
<1>4. /\ Moves(c, Answered(c))
      /\ audit' = IF calls[c].kind = "tool" THEN Append(audit, e) ELSE audit
      /\ UNCHANGED <<rules, registered, policies, events>>
  BY DEF Fail
<1> HIDE DEF e
<1>5. /\ calls[c].executed /\ c \notin events
      /\ BeginsWith(audit, c, Approval(c))
      /\ calls[c].kind = "tool" => calls[c].permission = "ALLOW"
  BY <1>1 DEF CallInv, Underway, Mediated
<1>6. CASE calls[c].kind = "tool"
  <2>1. audit' = Append(audit, e)
    BY <1>4, <1>6
  <2>2. /\ BeginsWith(audit', c, Approval(c))
        /\ \A what : EndsWith(audit', c, what) <=> what = "FAILED"
    BY <1>1, <1>3, <1>5, <2>1, OwnTrail
  <2>3. CallInv(Answered(c), audit', events', c)
    BY <1>2, <1>4, <1>5, <2>2 DEF CallInv, Unheard, Underway, Mediated, Told
  <2> QED BY <1>2, <1>3, <1>4, <2>1, <2>3, OneCallStep DEF Recorded
<1>7. CASE calls[c].kind # "tool"
  <2>1. audit' = audit
    BY <1>4, <1>7
  <2>2. CallInv(Answered(c), audit', events', c)
    BY <1>2, <1>4, <1>5, <1>7, <2>1 DEF CallInv, Unheard, Underway, Mediated, Told
  <2> QED BY <1>2, <1>4, <2>1, <2>2, OneCallStep DEF Recorded
<1> QED BY <1>6, <1>7

\* A call that ran ends with a record that says EXECUTED.
LEMMA RecordExecutionStep ==
  ASSUME IInv, NEW c \in Call, RecordExecution(c)
  PROVE  IInv'
<1> DEFINE e == Entry(c, "EXECUTED", "SUCCESS")
<1>1. /\ calls[c] \in CallType /\ CallInv(calls[c], audit, events, c)
      /\ calls[c].phase = "emitted" /\ audit \in Seq(Record)
  BY CallOf DEF RecordExecution
<1>2. /\ Answered(c) \in CallType
      /\ Answered(c).phase = "answered"
      /\ Answered(c).kind = calls[c].kind
      /\ Answered(c).permission = calls[c].permission
      /\ Answered(c).executed = calls[c].executed
  BY <1>1, AnsweredType
<1>3. e \in Record /\ e.call = c /\ e.what = "EXECUTED"
  BY CallOf DEF What
<1>4. /\ Moves(c, Answered(c)) /\ audit' = Append(audit, e)
      /\ UNCHANGED <<rules, registered, policies, events>>
  BY DEF RecordExecution
<1> HIDE DEF e
<1>5. /\ c \in events
      /\ BeginsWith(audit, c, Approval(c))
      /\ calls[c].kind = "tool" => calls[c].executed
      /\ calls[c].executed /\ calls[c].kind = "tool" => calls[c].permission = "ALLOW"
  <2>1. JustAllowed(audit, c)
    BY <1>1 DEF CallInv, Underway
  <2> QED BY <1>1, <2>1, AllowedBegins DEF CallInv, Underway, Mediated
<1>6. /\ BeginsWith(audit', c, Approval(c))
      /\ \A what : EndsWith(audit', c, what) <=> what = "EXECUTED"
  BY <1>1, <1>3, <1>4, <1>5, OwnTrail
<1>7. CallInv(Answered(c), audit', events', c)
  BY <1>2, <1>4, <1>5, <1>6 DEF CallInv, Unheard, Underway, Mediated, Told
<1> QED BY <1>2, <1>3, <1>4, <1>7, OneCallStep DEF Recorded

\* A call that is answered at once, and that was never a request for a tool.
LEMMA AnsweredAtOnce ==
  ASSUME IInv, NEW c \in Call, calls[c].phase = "idle",
         NEW kind \in Kind \ {"tool"}, Recorded(c),
         Moves(c, [calls[c] EXCEPT !.phase = "answered", !.kind = kind]),
         UNCHANGED <<rules, registered, policies, events>>
  PROVE  IInv'
<1> DEFINE next == [calls[c] EXCEPT !.phase = "answered", !.kind = kind]
<1>1. calls[c] \in CallType /\ CallInv(calls[c], audit, events, c)
  BY CallOf
<1>2. /\ next \in CallType
      /\ next.phase = "answered" /\ next.kind # "tool"
      /\ next.executed = calls[c].executed
  BY <1>1 DEF CallType, Phase
<1>3. Moves(c, next)
  OBVIOUS
<1> HIDE DEF next
<1>4. ~next.executed
  BY <1>1, <1>2 DEF CallInv, Unheard
<1>5. CallInv(next, audit', events', c)
  BY <1>2, <1>4 DEF CallInv, Unheard, Underway, Mediated, Told
<1> QED BY <1>2, <1>3, <1>5, OneCallStep

\* A change is decided and recorded at once.
LEMMA EvaluateChangeStep ==
  ASSUME IInv, NEW c \in Call, NEW question, EvaluateChange(c, question)
  PROVE  IInv'
<1> DEFINE e == Decision(c, question)
           f == [Decision(c, question) EXCEPT !.what = "CHANGE"]
<1>1. e \in Record /\ e.call = c /\ f \in Record /\ f.call = c /\ audit \in Seq(Record)
  BY EntryType, CallOf
<1>2. audit' = audit \o <<e, f>>
  BY DEF EvaluateChange
<1> HIDE DEF e, f
<1>3. Recorded(c)
  BY <1>1, <1>2, TwoRecords DEF Recorded
<1> QED BY <1>3, AnsweredAtOnce DEF EvaluateChange, Kind

\* checkPolicy decides and runs nothing.
LEMMA CheckPolicyStep ==
  ASSUME IInv, NEW c \in Call, NEW question, CheckPolicy(c, question)
  PROVE  IInv'
<1>1. Recorded(c)
  BY EntryType DEF CheckPolicy, Recorded
<1> QED BY <1>1, AnsweredAtOnce DEF CheckPolicy, Kind

\* Tool policies and rules change, and every call stays where it is.
LEMMA ChangesStep ==
  ASSUME IInv, ChangePolicies \/ ChangeRules \/ UNCHANGED vars
  PROVE  IInv'
<1>1. UNCHANGED <<calls, audit, events>>
  BY DEF ChangePolicies, ChangeRules, vars
<1>2. PrecedenceInv'
  BY PrecedenceStep DEF IInv, ChangePolicies, ChangeRules, vars, policyVars
<1>3. PermissionsTypeOK'
  BY DEF IInv, TypeOK, PermissionsTypeOK, ChangePolicies, ChangeRules, vars,
         PermissionsNext, RegisterPolicy
<1>4. PolicyTypeOK'
  BY <1>2 DEF PrecedenceInv, InOrder, PolicyTypeOK
<1>5. TypeOK'
  BY <1>1, <1>3, <1>4 DEF IInv, TypeOK
<1> QED BY <1>1, <1>2, <1>5 DEF IInv

\* Every step keeps the invariant.
LEMMA StepKeepsInvariant == IInv /\ [Next]_vars => IInv'
<1> SUFFICES ASSUME IInv, [Next]_vars PROVE IInv'
  OBVIOUS
<1>1. CASE ChangePolicies \/ ChangeRules \/ UNCHANGED vars
  BY <1>1, ChangesStep
<1>2. CASE \E c \in Call, request \in ToolRequest : InvokeVegaTool(c, request)
  BY <1>2, InvokeVegaToolStep
<1>3. CASE \E c \in Call, action \in ExecutiveAction :
             EvaluateExecutiveAction(c, action) \/ EvaluateWithoutExecutor(c, action)
  BY <1>3, EvaluateExecutiveActionStep, EvaluateWithoutExecutorStep
<1>4. CASE \E c \in Call, question \in {ConfigQuestion, DataQuestion} :
             EvaluateChange(c, question)
  BY <1>4, EvaluateChangeStep
<1>5. CASE \E c \in Call, question \in Input : CheckPolicy(c, question)
  BY <1>5, CheckPolicyStep
<1>6. ASSUME NEW c \in Call,
             \/ RejectCredentials(c)
             \/ BlockTool(c)
             \/ DecideTool(c)
             \/ EmitEvent(c)
             \/ Fail(c)
             \/ RecordExecution(c)
      PROVE  IInv'
  BY <1>6, RejectCredentialsStep, BlockToolStep, DecideToolStep, EmitEventStep,
     FailStep, RecordExecutionStep
<1> QED BY <1>1, <1>2, <1>3, <1>4, <1>5, <1>6 DEF Next

\* The invariant holds in every state.
LEMMA Invariance == Spec => []IInv
<1>1. Init => IInv
  BY InitTypes
<1> QED BY <1>1, StepKeepsInvariant, PTL DEF Spec

-----------------------------------------------------------------------------
(* What mediation promises, for any number of calls, agents, policies and rules. *)

\* Every step keeps rules, permissions, calls and records well-formed: whatever
\* is asked has an answer among the four.
THEOREM TypeCorrect == Spec => []TypeOK
<1>1. IInv => TypeOK
  BY DEF IInv
<1> QED BY <1>1, Invariance, PTL

\* registerRule and evaluateWithPrecedence: of the rules that match, one of the
\* highest priority, registered first, decides, and from the risk limits on no
\* default rule allows anything, whatever was registered and reset.
THEOREM PrecedenceHolds == Spec => []HighestPriorityDecides
<1>1. IInv => HighestPriorityDecides
  BY PrecedenceDecides DEF IInv
<1> QED BY <1>1, Invariance, PTL

\* No executor runs but on a decision that is on record and said ALLOW, and for a
\* tool on a permission that said ALLOW.
THEOREM NothingRunsUndecided == Spec => []DecidedBeforeExecuted
<1>1. IInv => DecidedBeforeExecuted
  BY InvariantTells
<1> QED BY <1>1, Invariance, PTL

\* The last record of an answered tool request tells what became of it.
THEOREM TheTrailTells == Spec => []ToolTrailTellsWhatHappened
<1>1. IInv => ToolTrailTellsWhatHappened
  BY InvariantTells
<1> QED BY <1>1, Invariance, PTL

\* An executor starts on what the rules say at that moment.
THEOREM StartsAreCurrent == Spec => StartsUnderRulesInForce
<1> DEFINE Current ==
      \A c \in Call :
        calls'[c].executed /\ ~calls[c].executed =>
          EvaluateWithPrecedence(calls'[c].question) = "ALLOW"
<1>1. IInv /\ [Next]_vars => [Current]_vars
  <2> SUFFICES ASSUME IInv, Next PROVE Current
    OBVIOUS
  <2>1. calls \in [Call -> CallType]
    BY DEF IInv, TypeOK, CallType
  <2>2. ASSUME calls' = calls
        PROVE  Current
    BY <2>2
  <2>3. ASSUME NEW c \in Call, NEW call, Moves(c, call), call.executed = calls[c].executed
        PROVE  Current
    BY <2>1, <2>3 DEF Moves
  <2>4. ASSUME NEW c \in Call, NEW call \in CallType, Start(c, call)
        PROVE  Current
    BY <2>1, <2>4 DEF Start, Moves, Allowed, CallType
  <2>5. ASSUME NEW c \in Call, NEW call \in CallType, Refuse(c, call),
               call.executed = calls[c].executed
        PROVE  Current
    <3> DEFINE next == [call EXCEPT !.phase = "answered"]
    <3>1. Moves(c, next) /\ next.executed = calls[c].executed
      BY <2>5 DEF Refuse, CallType
    <3> HIDE DEF next
    <3> QED BY <2>3, <3>1
  <2>6. ASSUME ChangePolicies \/ ChangeRules
        PROVE  Current
    BY <2>2, <2>6 DEF ChangePolicies, ChangeRules
  <2>7. ASSUME NEW c \in Call, NEW action \in ExecutiveAction,
               EvaluateExecutiveAction(c, action) \/ EvaluateWithoutExecutor(c, action)
        PROVE  Current
    <3>1. /\ ExecutiveCall(c, action) \in CallType
          /\ ExecutiveCall(c, action).executed = calls[c].executed
      BY <2>1, ExecutiveCallType
    <3>2. CASE EvaluateExecutiveAction(c, action)
      BY <2>4, <2>5, <3>1, <3>2 DEF EvaluateExecutiveAction
    <3>3. CASE EvaluateWithoutExecutor(c, action)
      <4> DEFINE next == [ExecutiveCall(c, action) EXCEPT !.phase = "emitted"]
      <4>1. Moves(c, next) /\ next.executed = calls[c].executed
        BY <3>1, <3>3 DEF EvaluateWithoutExecutor, CallType
      <4> HIDE DEF next
      <4> QED BY <2>3, <4>1
    <3> QED BY <2>7, <3>2, <3>3
  <2>8. ASSUME NEW c \in Call, DecideTool(c)
        PROVE  Current
    BY <2>1, <2>4, <2>5, <2>8 DEF DecideTool
  <2>9. ASSUME NEW c \in Call, NEW request \in ToolRequest, InvokeVegaTool(c, request)
        PROVE  Current
    <3> DEFINE next == [calls[c] EXCEPT !.phase = "checked", !.kind = "tool",
                                        !.question = ToolQuestion(request),
                                        !.permission = CheckPermission(request)]
    <3>1. Moves(c, next) /\ next.executed = calls[c].executed
      BY <2>1, <2>9 DEF InvokeVegaTool, CallType
    <3> HIDE DEF next
    <3> QED BY <2>3, <3>1
  <2>10. ASSUME NEW c \in Call, EmitEvent(c)
         PROVE  Current
    <3> DEFINE next == [calls[c] EXCEPT !.phase = "emitted"]
    <3>1. Moves(c, next) /\ next.executed = calls[c].executed
      BY <2>1, <2>10 DEF EmitEvent, CallType
    <3> HIDE DEF next
    <3> QED BY <2>3, <3>1
  <2>11. ASSUME NEW c \in Call, BlockTool(c) \/ Fail(c) \/ RecordExecution(c)
         PROVE  Current
    <3>1. Moves(c, Answered(c))
      BY <2>11 DEF BlockTool, Fail, RecordExecution
    <3>2. Answered(c).executed = calls[c].executed
      BY <2>1, AnsweredType
    <3> QED BY <2>3, <3>1, <3>2
  <2>12. ASSUME NEW c \in Call, NEW kind,
                Moves(c, [calls[c] EXCEPT !.phase = "answered", !.kind = kind])
         PROVE  Current
    <3> DEFINE next == [calls[c] EXCEPT !.phase = "answered", !.kind = kind]
    <3>1. Moves(c, next) /\ next.executed = calls[c].executed
      BY <2>1, <2>12 DEF CallType
    <3> HIDE DEF next
    <3> QED BY <2>3, <3>1
  <2>13. ASSUME NEW c \in Call, NEW question,
                RejectCredentials(c) \/ EvaluateChange(c, question) \/ CheckPolicy(c, question)
         PROVE  Current
    BY <2>12, <2>13 DEF RejectCredentials, EvaluateChange, CheckPolicy
  <2> HIDE DEF Current
  <2> QED BY <2>6, <2>7, <2>8, <2>9, <2>10, <2>11, <2>13 DEF Next
<1>2. Spec => [][Current]_vars
  BY <1>1, Invariance, PTL DEF Spec
<1> QED BY <1>2 DEF StartsUnderRulesInForce

=============================================================================
