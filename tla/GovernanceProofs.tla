-------------------------- MODULE GovernanceProofs --------------------------
(***************************************************************************)
(* For every calendar, set of policies and recommendation: the search over  *)
(* two days finds the windows that cover the instant, and no verdict is     *)
(* weaker than the tenant's rules or than what the platform keeps to itself.*)
(***************************************************************************)
EXTENDS Governance, TLAPS

-------------------------------------------------------------------------------
(* Days and instants. *)

\* Division with remainder: every instant lies in its day.
LEMMA DivisionSplits ==
  ASSUME NEW L \in Nat \ {0}, NEW t \in Int
  PROVE  /\ t \div L \in Int
         /\ t % L \in 0 .. L - 1
         /\ t = (t \div L) * L + (t % L)
BY SMT

\* A later day begins after an earlier one has ended.
LEMMA LaterDay ==
  ASSUME NEW L \in Nat \ {0}, NEW a \in Int, NEW b \in Int, a < b
  PROVE  a * L + L <= b * L
<1>1. b - a - 1 \in Nat  OBVIOUS
<1>2. (b - a - 1) * L >= 0  BY <1>1, SMT
<1>3. (b - a - 1) * L = b * L - a * L - L  BY SMT
<1> QED  BY <1>2, <1>3, SMT

\* The day and the instant of the day are determined by the instant.
LEMMA DivisionIsUnique ==
  ASSUME NEW L \in Nat \ {0}, NEW t \in Int, NEW d \in Int, NEW r \in 0 .. L - 1,
         t = d * L + r
  PROVE  t \div L = d /\ t % L = r
<1> DEFINE q == t \div L
<1>1. q \in Int /\ t % L \in 0 .. L - 1 /\ t = q * L + (t % L)  BY DivisionSplits
<1> HIDE DEF q
<1>2. q * L \in Int /\ d * L \in Int  BY <1>1, SMT
<1>3. CASE q < d
  <2>1. q * L + L <= d * L  BY <1>1, <1>3, LaterDay
  <2> QED  BY <1>1, <1>2, <2>1, SMT
<1>4. CASE d < q
  <2>1. d * L + L <= q * L  BY <1>1, <1>4, LaterDay
  <2> QED  BY <1>1, <1>2, <2>1, SMT
<1>5. q = d  BY <1>1, <1>3, <1>4, SMT
<1> QED  BY <1>1, <1>5, <1>2, SMT DEF q

USE CalendarAssumption

\* Every window found by the search covers the instant, however long it lasts.
LEMMA FoundCovers ==
  ASSUME NEW w \in Window, NEW t \in Int, InWindow(w, t)
  PROVE  Covers(w, t)
<1>1. PICK day \in { DayOf(t), DayOf(t) - 1 } :
        /\ AppliesOn(w, day)
        /\ Opens(w, day) <= t /\ t < Opens(w, day) + w.length
  BY DEF InWindow
<1>2. day \in Int  BY <1>1, DivisionSplits DEF DayOf
<1>3. w.start \in 0 .. DayLength - 1 /\ w.length \in Nat  BY DEF Window
<1> DEFINE s == Opens(w, day)
<1>4. s \in Int /\ s <= t /\ t < s + w.length /\ s = day * DayLength + w.start
  BY <1>1, <1>2, <1>3, SMT DEF Opens
<1> HIDE DEF s
<1>5. DayOf(s) = day /\ s % DayLength = w.start
  <2>1. DayLength \in Nat \ {0} /\ w.start \in 0 .. DayLength - 1  BY <1>3
  <2>2. s \div DayLength = day /\ s % DayLength = w.start
    BY <2>1, <1>2, <1>4, DivisionIsUnique, Zenon
  <2> QED  BY <2>2 DEF DayOf
<1>6. s \in (t - w.length + 1) .. t  BY <1>3, <1>4, SMT
<1> QED  BY <1>1, <1>5, <1>6 DEF Covers

\* A window of a day at most that covers the instant is found by the search.
LEMMA CoversIsFound ==
  ASSUME NEW w \in Window, NEW t \in Int, w.length <= DayLength, Covers(w, t)
  PROVE  InWindow(w, t)
<1>1. w.start \in 0 .. DayLength - 1 /\ w.length \in Nat  BY DEF Window
<1>2. PICK s \in (t - w.length + 1) .. t : s % DayLength = w.start /\ AppliesOn(w, DayOf(s))
  BY DEF Covers
<1>3. s \in Int /\ s <= t /\ t < s + w.length  BY <1>1, <1>2, SMT
<1> DEFINE d == DayOf(s)
           e == DayOf(t)
<1>4. /\ d \in Int /\ s = d * DayLength + w.start
      /\ e \in Int /\ t % DayLength \in 0 .. DayLength - 1
      /\ t = e * DayLength + (t % DayLength)
  BY <1>2, <1>3, DivisionSplits DEF DayOf
<1>5. Opens(w, d) = s  BY <1>4 DEF Opens
<1> HIDE DEF d, e
<1>6. d * DayLength \in Int /\ e * DayLength \in Int /\ (e - 1) * DayLength = e * DayLength - DayLength
  BY <1>4, SMT
<1>7. ~ (d > e)
  <2> SUFFICES ASSUME d > e PROVE FALSE  OBVIOUS
  <2>1. e * DayLength + DayLength <= d * DayLength  BY <1>4, LaterDay
  <2> QED  BY <1>1, <1>3, <1>4, <1>6, <2>1, SMT
<1>8. ~ (d < e - 1)
  <2> SUFFICES ASSUME d < e - 1 PROVE FALSE  OBVIOUS
  <2>1. e - 1 \in Int  BY <1>4
  <2>2. d * DayLength + DayLength <= (e - 1) * DayLength  BY <1>4, <2>1, LaterDay
  <2> QED  BY <1>1, <1>3, <1>4, <1>6, <2>2, SMT
<1>9. d \in { e, e - 1 }  BY <1>4, <1>7, <1>8, SMT
<1> QED  BY <1>2, <1>3, <1>5, <1>9 DEF InWindow, d, e

-------------------------------------------------------------------------------
(* Verdicts. *)

LEMMA RankOf ==
  /\ Rank("auto_execute") = 0 /\ Rank("require_approval") = 1
  /\ Rank("advisory_only") = 2 /\ Rank("prohibit") = 3
BY DEF Rank

LEMMA RankInOrder == \A e \in Effects : Rank(e) \in 0 .. 3
BY RankOf DEF Effects

\* The platform's guards only tighten, and leave an automatic change only what they
\* allow.
LEMMA PlatformTightens ==
  ASSUME NEW effect \in Effects, NEW rec \in Recommendation,
         NEW freeze \in BOOLEAN, NEW escalate \in BOOLEAN, enabled \in BOOLEAN
  PROVE  LET judged == PlatformGuards(effect, rec, freeze, escalate)
         IN  /\ judged \in Effects
             /\ Rank(effect) <= Rank(judged)
             /\ judged = "auto_execute" =>
                  /\ effect = "auto_execute" /\ rec.action \notin Destructive /\ enabled
                  /\ rec.raises => ~freeze /\ ~escalate
BY RankOf DEF PlatformGuards, Effects, Recommendation

\* So do the guards of the specification.
LEMMA SpecificationTightens ==
  ASSUME NEW effect \in Effects, NEW rec \in Recommendation, NEW t
  PROVE  LET final == SpecificationGuards(effect, rec, t)
         IN  /\ final \in Effects
             /\ Rank(effect) <= Rank(final)
             /\ final \in { effect, "prohibit" } \/ final = "require_approval"
             /\ final = "auto_execute" =>
                  effect = "auto_execute" /\ ~rec.excluded /\ ~InChangeFreeze(Freezes, t)
BY RankOf DEF SpecificationGuards, Effects, Recommendation

\* A verdict v no weaker than the effect of the rule or default it comes from.
Tightened(v, effect, rec, t, freeze, escalate) ==
  /\ v.effect \in Effects /\ v.needs \in Int
  /\ Rank(effect) <= Rank(v.effect)
  /\ v.effect = "require_approval" => v.needs # 0
  /\ v.effect = "auto_execute" =>
       /\ effect = "auto_execute" /\ rec.action \notin Destructive /\ enabled
       /\ ~rec.excluded /\ ~InChangeFreeze(Freezes, t)
       /\ rec.raises => ~freeze /\ ~escalate

LEMMA VerdictTightens ==
  ASSUME NEW effect \in Effects, NEW needs \in Int, NEW rec \in Recommendation, NEW t,
         NEW freeze \in BOOLEAN, NEW escalate \in BOOLEAN, enabled \in BOOLEAN
  PROVE  Tightened(Verdict(effect, needs, rec, t, freeze, escalate),
                   effect, rec, t, freeze, escalate)
<1> DEFINE judged == PlatformGuards(effect, rec, freeze, escalate)
           final  == SpecificationGuards(judged, rec, t)
           kept   == AtLeastOne(judged, IF judged = effect THEN needs ELSE 0)
           v      == Verdict(effect, needs, rec, t, freeze, escalate)
<1>1. /\ judged \in Effects /\ Rank(effect) <= Rank(judged)
      /\ judged = "auto_execute" =>
           /\ effect = "auto_execute" /\ rec.action \notin Destructive /\ enabled
           /\ rec.raises => ~freeze /\ ~escalate
  BY PlatformTightens
<1>2. kept \in Int /\ (judged = "require_approval" => kept # 0)  BY DEF AtLeastOne
<1>3. /\ v.effect = final
      /\ v.needs = IF final = judged THEN kept
                   ELSE IF final = "prohibit" THEN 0 ELSE AtLeastOne(final, kept)
  BY DEF Verdict
<1> HIDE DEF judged, kept, v
<1>4. /\ final \in Effects /\ Rank(judged) <= Rank(final)
      /\ final = "auto_execute" =>
           judged = "auto_execute" /\ ~rec.excluded /\ ~InChangeFreeze(Freezes, t)
  BY <1>1, SpecificationTightens
<1> HIDE DEF final
<1>5. v.needs \in Int /\ (final = "require_approval" => v.needs # 0)
  BY <1>2, <1>3 DEF AtLeastOne
<1>6. Rank(effect) <= Rank(v.effect)
  BY <1>1, <1>3, <1>4, RankInOrder
<1>7. Tightened(v, effect, rec, t, freeze, escalate)
  BY <1>1, <1>3, <1>4, <1>5, <1>6 DEF Tightened
<1> QED  BY <1>7 DEF v

\* Policy.Validate leaves no automatic rule for production without its confidence, and
\* none that names nothing.
LEMMA ValidatedRule ==
  ASSUME NEW p \in Policy, ~HasBlocking(p), NEW i \in DOMAIN p.rules,
         p.rules[i].effect = "auto_execute"
  PROVE  /\ ~Unlimited(p.rules[i])
         /\ ReachesProduction(p.rules[i]) => p.rules[i].confidence >= ProductionConfidence
<1>1. ~UnsafeRule(p.rules[i])  BY DEF HasBlocking
<1>2. p.rules[i] \in Rule  BY DEF Policy
<1>3. p.rules[i].confidence \in Nat  BY <1>2 DEF Rule
<1> QED  BY <1>1, <1>3, GovernanceAssumption DEF UnsafeRule

\* The policies an evaluation may read.
Readable(p) == p \in Drafts \cup { Fallback } /\ ~HasBlocking(p)

LEMMA FallbackMatchesNothing ==
  ASSUME NEW rec, NEW t
  PROVE  Matching(Fallback, rec, t) = {} /\ ~HasBlocking(Fallback)
BY DEF Matching, Fallback, HasBlocking

\* Every rule that matches is a rule; where there is none the default stands in.
LEMMA MatchingRules ==
  ASSUME NEW p, Readable(p), NEW rec, NEW t
  PROVE  /\ \A i \in Matching(p, rec, t) : p \in Policy /\ i \in DOMAIN p.rules
                                          /\ i \in Int /\ p.rules[i] \in Rule
         /\ p.default \in Effects /\ p.default # "auto_execute"
<1>1. CASE p = Fallback
  BY <1>1, FallbackMatchesNothing DEF Fallback, Effects
<1>2. CASE p \in Drafts
  <2>1. p \in Policy  BY <1>2, GovernanceAssumption
  <2> QED  BY <2>1 DEF Matching, Policy, HasBlocking, Readable
<1> QED  BY <1>1, <1>2 DEF Readable

\* One evaluation, from the policy and recommendation it read.
LEMMA EvaluationTightens ==
  ASSUME NEW p, Readable(p), NEW rec \in Recommendations, NEW t \in Int,
         NEW freeze \in BOOLEAN, NEW escalate \in BOOLEAN, enabled \in BOOLEAN,
         NEW v \in Verdicts(p, rec, t, freeze, escalate)
  PROVE  LET d == [ rec |-> rec, policy |-> p, at |-> t, freeze |-> freeze,
                    escalate |-> escalate, effect |-> v.effect, needs |-> v.needs ]
         IN  /\ v.effect \in Effects /\ v.needs \in Int
             /\ v.effect = "auto_execute" => Earned(d)
             /\ \A i \in Matching(p, rec, t) : Rank(p.rules[i].effect) <= Rank(v.effect)
             /\ Matching(p, rec, t) = {} => Rank(p.default) <= Rank(v.effect)
             /\ v.effect = "require_approval" => v.needs # 0
<1> DEFINE M == Matching(p, rec, t)
           d == [ rec |-> rec, policy |-> p, at |-> t, freeze |-> freeze,
                  escalate |-> escalate, effect |-> v.effect, needs |-> v.needs ]
<1>1. rec \in Recommendation  BY GovernanceAssumption
<1>2. CASE M = {}
  <2>1. v = Verdict(p.default, 0, rec, t, freeze, escalate)  BY <1>2 DEF Verdicts
  <2>2. p.default \in Effects /\ p.default # "auto_execute"  BY MatchingRules
  <2>3. Tightened(v, p.default, rec, t, freeze, escalate)
    BY <1>1, <2>1, <2>2, VerdictTightens
  <2> QED  BY <1>2, <2>2, <2>3 DEF Tightened
<1>3. CASE M # {}
  <2>1. PICK i \in Deciding(p, rec, t) :
          v = Verdict(p.rules[i].effect, p.rules[i].needs, rec, t, freeze, escalate)
    BY <1>3 DEF Verdicts
  <2>2. i \in M  BY DEF Deciding
  <2>3. p.rules[i].effect \in Effects /\ p.rules[i].needs \in Int
    BY <2>2, MatchingRules DEF Rule
  <2>4. Tightened(v, p.rules[i].effect, rec, t, freeze, escalate)
    BY <1>1, <2>1, <2>3, VerdictTightens
  <2>5. \A j \in M : p.rules[j].effect \in Effects /\ Rank(p.rules[j].effect) <= Rank(p.rules[i].effect)
    <3> SUFFICES ASSUME NEW j \in M
                 PROVE  p.rules[j].effect \in Effects
                        /\ Rank(p.rules[j].effect) <= Rank(p.rules[i].effect)
      OBVIOUS
    <3>1. p.rules[j].effect \in Effects  BY MatchingRules DEF Rule
    <3>2. \/ Rank(p.rules[j].effect) < Rank(p.rules[i].effect)
          \/ p.rules[j].effect = p.rules[i].effect
      BY DEF Deciding
    <3> QED  BY <2>3, <3>1, <3>2, RankInOrder
  <2>6. \A j \in M : Rank(p.rules[j].effect) <= Rank(v.effect)
    BY <2>3, <2>4, <2>5, RankInOrder DEF Tightened
  <2>7. ASSUME v.effect = "auto_execute" PROVE Earned(d)
    <3>1. \A j \in M : p.rules[j].effect = "auto_execute"
      BY <2>4, <2>5, <2>7, RankOf DEF Effects, Tightened
    <3>2. \A j \in M : /\ ~Unlimited(p.rules[j])
                       /\ ReachesProduction(p.rules[j]) =>
                            p.rules[j].confidence >= ProductionConfidence
      <4> SUFFICES ASSUME NEW j \in M
                   PROVE  /\ ~Unlimited(p.rules[j])
                          /\ ReachesProduction(p.rules[j]) =>
                               p.rules[j].confidence >= ProductionConfidence
        OBVIOUS
      <4> QED  BY <3>1, MatchingRules, ValidatedRule DEF Readable
    <3>3. \A j \in M : Matches(p.rules[j], rec, t)  BY DEF Matching
    <3>4. rec.env \in Production => rec.confidence >= ProductionConfidence
      <4> SUFFICES ASSUME rec.env \in Production PROVE rec.confidence >= ProductionConfidence
        OBVIOUS
      <4>1. ReachesProduction(p.rules[i])
        BY <2>2, <3>3 DEF Matches, ReachesProduction
      <4>2. p.rules[i].confidence >= ProductionConfidence /\ rec.confidence >= p.rules[i].confidence
        BY <2>2, <3>2, <3>3, <4>1 DEF Matches
      <4>3. p.rules[i].confidence \in Nat /\ rec.confidence \in Nat
        BY <1>1, <2>2, MatchingRules DEF Rule, Recommendation
      <4> QED  BY <4>2, <4>3, GovernanceAssumption
    <3>5. ASSUME NEW j \in M, p.rules[j].window
          PROVE  \E w \in Windows : AppliesTo(w, rec.env) /\ Covers(w, t)
      <4>1. PICK w \in Windows : AppliesTo(w, rec.env) /\ InWindow(w, t)
        BY <3>3, <3>5 DEF Matches, InMaintenanceWindow
      <4>2. w \in Window  BY GovernanceAssumption
      <4>3. Covers(w, t)  BY <4>1, <4>2, FoundCovers
      <4> QED  BY <4>1, <4>3
    <3> QED  BY <1>3, <2>4, <2>7, <3>1, <3>2, <3>4, <3>5 DEF Earned, Tightened
  <2> QED  BY <1>3, <2>4, <2>6, <2>7 DEF Tightened
<1> QED  BY <1>2, <1>3

-------------------------------------------------------------------------------
(* The theorems. *)

\* The strengthening: what is saved, and so whatever an evaluation reads, passed
\* Validate.
ValidatedOnly == \A p \in saved : ~HasBlocking(p)

GovInv == TypeOK /\ ValidatedOnly

LEMMA InitGovInv == Init => GovInv
BY GovernanceAssumption DEF Init, GovInv, TypeOK, ValidatedOnly

\* What an evaluation holds may be read although another policy has become active.
LEMMA AskedReadable ==
  ASSUME GovInv, asked # None
  PROVE  /\ asked.rec \in Recommendations /\ asked.policy \in saved \cup { Fallback }
         /\ Readable(asked.policy)
BY FallbackMatchesNothing DEF GovInv, TypeOK, ValidatedOnly, Readable

\* The decision of an evaluation, from what it held.
LEMMA DecisionTightens ==
  ASSUME GovInv, NEW freeze \in BOOLEAN, NEW escalate \in BOOLEAN, Decide(freeze, escalate)
  PROVE  /\ decision' \in Decision
         /\ AutomationIsEarned' /\ RestrictionsStand'
<1>1. asked # None  BY DEF Decide
<1>2. /\ asked.rec \in Recommendations /\ asked.policy \in saved \cup { Fallback }
      /\ Readable(asked.policy)
  BY <1>1, AskedReadable
<1>3. enabled \in BOOLEAN /\ now \in 0 .. MaxTime /\ now \in Int /\ enabled' = enabled
  BY GovernanceAssumption DEF GovInv, TypeOK, Decide
<1> DEFINE made(v) == [ rec |-> asked.rec, policy |-> asked.policy, at |-> now,
                        freeze |-> freeze, escalate |-> escalate,
                        effect |-> v.effect, needs |-> v.needs ]
<1>4. PICK v \in Verdicts(asked.policy, asked.rec, now, freeze, escalate) :
        decision' = made(v)
  BY DEF Decide
<1>5. /\ v.effect \in Effects /\ v.needs \in Int
      /\ v.effect = "auto_execute" => Earned(made(v))
      /\ \A i \in Matching(asked.policy, asked.rec, now) :
           Rank(asked.policy.rules[i].effect) <= Rank(v.effect)
      /\ Matching(asked.policy, asked.rec, now) = {} =>
           Rank(asked.policy.default) <= Rank(v.effect)
      /\ v.effect = "require_approval" => v.needs # 0
  BY <1>2, <1>3, EvaluationTightens
<1>6. decision' \in Decision
  BY <1>2, <1>3, <1>4, <1>5 DEF Decision, Readable
<1>7. AutomationIsEarned'
  BY <1>3, <1>4, <1>5 DEF AutomationIsEarned, Earned
<1>8. RestrictionsStand'
  BY <1>4, <1>5 DEF RestrictionsStand
<1> QED  BY <1>6, <1>7, <1>8

\* GovInv is inductive, and a step leaves either no decision, or the one there was, or
\* one that an evaluation has just made.
LEMMA NextGovInv ==
  ASSUME GovInv, [Next]_vars
  PROVE  /\ GovInv'
         /\ AutomationIsEarned => AutomationIsEarned'
         /\ RestrictionsStand => RestrictionsStand'
<1> USE DEF GovInv, TypeOK, ValidatedOnly
<1>1. ASSUME NEW p \in Drafts, Save(p)
      PROVE  GovInv' /\ decision' = None
  BY <1>1 DEF Save
<1>2. ASSUME NEW p \in Drafts, Activate(p)
      PROVE  GovInv' /\ decision' = None
  BY <1>2 DEF Activate
<1>3. ASSUME NEW rec \in Recommendations, Ask(rec)
      PROVE  GovInv' /\ decision' = None
  BY <1>3 DEF Ask
<1>4. ASSUME NEW freeze \in BOOLEAN, NEW escalate \in BOOLEAN, Decide(freeze, escalate)
      PROVE  GovInv' /\ AutomationIsEarned' /\ RestrictionsStand'
  <2>1. decision' \in Decision /\ AutomationIsEarned' /\ RestrictionsStand'
    BY <1>4, DecisionTightens
  <2> QED  BY <1>4, <2>1 DEF Decide
<1>5. CASE Refuse
  <2>1. GovInv' /\ decision' = None  BY <1>5 DEF Refuse
  <2> QED  BY <2>1 DEF AutomationIsEarned, RestrictionsStand
<1>6. CASE Tick
  <2>1. GovInv' /\ decision' = None  BY <1>6, GovernanceAssumption DEF Tick
  <2> QED  BY <2>1 DEF AutomationIsEarned, RestrictionsStand
<1>7. CASE UNCHANGED vars
  BY <1>7 DEF vars, AutomationIsEarned, RestrictionsStand, Earned
<1>8. decision' = None => AutomationIsEarned' /\ RestrictionsStand'
  BY DEF AutomationIsEarned, RestrictionsStand
<1> QED
  BY <1>1, <1>2, <1>3, <1>4, <1>5, <1>6, <1>7, <1>8 DEF Next

LEMMA GovInvariant == Spec => []GovInv
<1>1. GovInv /\ [Next]_vars => GovInv'  BY NextGovInv
<1> QED  BY InitGovInv, <1>1, PTL DEF Spec

\* Types, and that the active policy is a stored one: no policy in use is lost by a
\* later save (SavePolicy, ActivatePolicy).
THEOREM GovernanceTypes == Spec => []TypeOK
<1>1. GovInv => TypeOK  BY DEF GovInv
<1> QED  BY GovInvariant, <1>1, PTL

\* Whatever policies a tenant writes and whenever they are replaced, what Evaluate
\* clears for automatic execution has earned it.
THEOREM AutomationEarned == Spec => []AutomationIsEarned
<1>1. Init => AutomationIsEarned  BY DEF Init, AutomationIsEarned
<1>2. GovInv /\ AutomationIsEarned /\ [Next]_vars => AutomationIsEarned'  BY NextGovInv
<1> QED  BY GovInvariant, <1>1, <1>2, PTL DEF Spec

\* No verdict is weaker than a rule that matches, or than the default of a policy none
\* of whose rules does (govern.Evaluate, applySpecificationGuards).
THEOREM RestrictionsKept == Spec => []RestrictionsStand
<1>1. Init => RestrictionsStand  BY DEF Init, RestrictionsStand
<1>2. GovInv /\ RestrictionsStand /\ [Next]_vars => RestrictionsStand'  BY NextGovInv
<1> QED  BY GovInvariant, <1>1, <1>2, PTL DEF Spec

\* For every calendar and every set of windows, trying two days is exact
\* (InMaintenanceWindow).
THEOREM WindowSearchIsExact == Spec => []WindowsAreExact
<1>1. GovInv => WindowsAreExact
  <2> SUFFICES ASSUME GovInv, NEW w \in Windows, w.length <= DayLength
               PROVE  InWindow(w, now) <=> Covers(w, now)
    BY DEF WindowsAreExact
  <2>1. w \in Window /\ now \in Int  BY GovernanceAssumption DEF GovInv, TypeOK
  <2> QED  BY <2>1, FoundCovers, CoversIsFound
<1> QED  BY GovInvariant, <1>1, PTL

===============================================================================
