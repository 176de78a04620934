----------------------------- MODULE Governance -----------------------------
(***************************************************************************)
(* From a tenant's policies to a verdict on one recommendation: policies    *)
(* are saved and activated (internal/application/governance/service.go),    *)
(* and Service.Evaluate (evaluate.go) reads the active policy, then the     *)
(* budgets and the clock, decides (internal/domain/govern/policy.go) and    *)
(* tightens the decision by the tenant's specification.  A policy is        *)
(* replaced while an evaluation is under way.  Simulate decides by the same *)
(* operators and stores nothing; what Evaluate writes back to the           *)
(* recommendation is in Recommendations.  A version number names nothing    *)
(* here: a decision carries the policy it was made from.                    *)
(***************************************************************************)
EXTENDS MaintenanceWindows, FiniteSets, Sequences

CONSTANTS
  Actions, Destructive,    \* the actions, and those that delete state for good
  Categories,              \* what else a rule may name: categories and rule ids
  Production,              \* production and disaster recovery environments
  ProductionConfidence,    \* the confidence an automatic production change needs
  Recommendations,         \* the recommendations that may be evaluated
  Drafts,                  \* the policies an editor may submit
  Windows, Freezes,        \* of the approved specification
  None,
  MaxSaved,                \* bound: policies saved
  MaxTime                  \* bound: the clock stops here

Effects == { "auto_execute", "require_approval", "advisory_only", "prohibit" }

\* A selector that is empty, and a limit of zero, match everything.
Rule == [ actions : SUBSET Actions, categories : SUBSET Categories,
          envs : SUBSET Environments,
          narrow : BOOLEAN,      \* account, region, kind, application, tag or saving, risk
                                 \* and reversibility limits are set
          confidence : Nat, criticals : Nat, window : BOOLEAN,
          effect : Effects, needs : Int ]

Policy == [rules : Seq(Rule), default : Effects]

Recommendation ==
  [ action : Actions, category : Categories, env : Environments,
    listed : BOOLEAN,            \* the narrow selectors and limits accept it
    confidence : Nat, criticals : Nat,
    raises : BOOLEAN,            \* the change costs more than it saves
    excluded : BOOLEAN ]         \* by action, resource or tag, in the specification

ASSUME GovernanceAssumption ==
  /\ Destructive \subseteq Actions /\ Production \subseteq Environments
  /\ ProductionConfidence \in Nat \ {0}
  /\ Recommendations \subseteq Recommendation
  /\ Drafts \subseteq Policy
  /\ Windows \subseteq Window /\ Freezes \subseteq Freeze
  /\ MaxSaved \in Nat /\ MaxTime \in Nat

VARIABLES
  enabled,   \* the specification's master switch
  saved,     \* the policies saved
  active,    \* the active policy, or the fallback
  now,       \* the clock
  asked,     \* the evaluation under way: its recommendation and policy, or None
  decision   \* the decision the last step made, or None

vars == << enabled, saved, active, now, asked, decision >>

\* A tenant that has never activated a policy: a person approves every change.
Fallback == [rules |-> << >>, default |-> "require_approval"]

Init ==
  /\ enabled \in BOOLEAN
  /\ saved = {}
  /\ active = Fallback
  /\ now = 0
  /\ asked = None
  /\ decision = None

-------------------------------------------------------------------------------
\* Policy.Validate.

Unlimited(r)  == r.actions = {} /\ r.categories = {}

ReachesProduction(r) == r.envs = {} \/ r.envs \cap Production # {}

\* (mutant) a rule that names no environment is not taken for a production rule.
UnsafeWhenNamed(r) ==
  /\ r.effect = "auto_execute"
  /\ \/ r.actions \cap Destructive # {}
     \/ Unlimited(r)
     \/ r.envs \cap Production # {} /\ r.confidence < ProductionConfidence

UnsafeRule(r) ==
  /\ r.effect = "auto_execute"
  /\ \/ r.actions \cap Destructive # {}
     \/ Unlimited(r)
     \/ ReachesProduction(r) /\ r.confidence < ProductionConfidence

HasBlocking(p) ==
  p.default = "auto_execute" \/ \E i \in DOMAIN p.rules : UnsafeRule(p.rules[i])

-------------------------------------------------------------------------------
\* Match.Matches, on a recommendation at an instant.
Matches(r, rec, t) ==
  /\ r.actions = {} \/ rec.action \in r.actions
  /\ r.categories = {} \/ rec.category \in r.categories
  /\ r.envs = {} \/ rec.env \in r.envs
  /\ r.narrow => rec.listed
  /\ rec.confidence >= r.confidence
  /\ r.criticals > 0 => rec.criticals <= r.criticals
  /\ r.window => InMaintenanceWindow(Windows, rec.env, t)

Matching(p, rec, t) == { i \in DOMAIN p.rules : Matches(p.rules[i], rec, t) }

Rank(e) ==
  CASE e = "auto_execute"     -> 0
    [] e = "require_approval" -> 1
    [] e = "advisory_only"    -> 2
    [] e = "prohibit"         -> 3

\* (mutant) the first matching rule decides.
DecidingFirst(p, rec, t) ==
  { i \in Matching(p, rec, t) : \A j \in Matching(p, rec, t) : i <= j }

\* The most restrictive matching rule, the earlier of equals.
Deciding(p, rec, t) ==
  { i \in Matching(p, rec, t) :
      \A j \in Matching(p, rec, t) :
        \/ Rank(p.rules[j].effect) < Rank(p.rules[i].effect)
        \/ p.rules[j].effect = p.rules[i].effect /\ i <= j }

\* The guards of govern.Evaluate that no policy overrides, in their order.
PlatformGuards(effect, rec, freeze, escalate) ==
  LET automatic == effect = "auto_execute" /\ rec.action \notin Destructive /\ enabled
      allowed   == IF effect = "auto_execute" /\ ~automatic THEN "require_approval" ELSE effect
  IN  IF freeze /\ rec.raises THEN "prohibit"
      ELSE IF escalate /\ rec.raises /\ allowed = "auto_execute" THEN "require_approval"
      ELSE allowed

\* applySpecificationGuards.
SpecificationGuards(effect, rec, t) ==
  IF rec.excluded THEN "prohibit"
  ELSE IF effect = "auto_execute" /\ InChangeFreeze(Freezes, t) THEN "require_approval"
  ELSE effect

AtLeastOne(effect, needs) == IF effect = "require_approval" /\ needs = 0 THEN 1 ELSE needs

\* What a rule, or the default, comes to: the rule's number of approvals is kept only
\* while the effect is still the rule's own, and dropped by a prohibition that is not.
Verdict(effect, needs, rec, t, freeze, escalate) ==
  LET judged == PlatformGuards(effect, rec, freeze, escalate)
      final  == SpecificationGuards(judged, rec, t)
      kept   == AtLeastOne(judged, IF judged = effect THEN needs ELSE 0)
  IN  [ effect |-> final,
        needs  |-> IF final = judged THEN kept
                   ELSE IF final = "prohibit" THEN 0 ELSE AtLeastOne(final, kept) ]

\* govern.Evaluate and the guards after it; there is exactly one verdict.
Verdicts(p, rec, t, freeze, escalate) ==
  IF Matching(p, rec, t) = {}
    THEN { Verdict(p.default, 0, rec, t, freeze, escalate) }
    ELSE { Verdict(p.rules[i].effect, p.rules[i].needs, rec, t, freeze, escalate) :
             i \in Deciding(p, rec, t) }

-------------------------------------------------------------------------------
\* (mutant) the store keeps one version of a policy.
SaveOverwrites(p) ==
  /\ ~HasBlocking(p)
  /\ Cardinality(saved) < MaxSaved
  /\ saved' = { p }
  /\ decision' = None
  /\ UNCHANGED << enabled, active, now, asked >>

\* SavePolicy: a policy with a blocking issue is not stored.
Save(p) ==
  /\ ~HasBlocking(p)
  /\ Cardinality(saved) < MaxSaved
  /\ saved' = saved \cup { p }
  /\ decision' = None
  /\ UNCHANGED << enabled, active, now, asked >>

\* ActivatePolicy: a stored policy is validated again.
Activate(p) ==
  /\ p \in saved
  /\ ~HasBlocking(p)
  /\ active' = p
  /\ decision' = None
  /\ UNCHANGED << enabled, saved, now, asked >>

\* The caller's request, and the reads of the recommendation, the specification and
\* the active policy.
Ask(rec) ==
  /\ asked = None
  /\ asked' = [rec |-> rec, policy |-> active]
  /\ decision' = None
  /\ UNCHANGED << enabled, saved, active, now >>

\* The budgets are read, the clock after them.  A failed read of the budgets is no
\* signal.
Decide(freeze, escalate) ==
  /\ asked # None
  /\ \E v \in Verdicts(asked.policy, asked.rec, now, freeze, escalate) :
       decision' = [ rec |-> asked.rec, policy |-> asked.policy, at |-> now,
                     freeze |-> freeze, escalate |-> escalate,
                     effect |-> v.effect, needs |-> v.needs ]
  /\ asked' = None
  /\ UNCHANGED << enabled, saved, active, now >>

\* A fact is missing from the recommendation or a read or the write of the decision
\* failed: there is no decision.
Refuse ==
  /\ asked # None
  /\ asked' = None
  /\ decision' = None
  /\ UNCHANGED << enabled, saved, active, now >>

Tick ==
  /\ now < MaxTime
  /\ now' = now + 1
  /\ decision' = None
  /\ UNCHANGED << enabled, saved, active, asked >>

Next ==
  \/ \E p \in Drafts : Save(p) \/ Activate(p)
  \/ \E rec \in Recommendations : Ask(rec)
  \/ \E freeze, escalate \in BOOLEAN : Decide(freeze, escalate)
  \/ Refuse
  \/ Tick

Spec == Init /\ [][Next]_vars

-------------------------------------------------------------------------------
Decision == [ rec : Recommendations, policy : Drafts \cup { Fallback }, at : 0 .. MaxTime,
              freeze : BOOLEAN, escalate : BOOLEAN, effect : Effects, needs : Int ]

\* Every variable has its type; the active policy is one that was saved (ActivatePolicy
\* takes its policy from the store), and a policy in use is never lost.
TypeOK ==
  /\ enabled \in BOOLEAN
  /\ saved \subseteq Drafts
  /\ active \in saved \cup { Fallback }
  /\ now \in 0 .. MaxTime
  /\ asked \in { None } \cup [rec : Recommendations, policy : saved \cup { Fallback }]
  /\ decision \in { None } \cup Decision

\* What a person would call automatic execution earned: every rule of the deciding
\* policy that matches permits it, they name what they permit, and whatever a tenant
\* wrote, the change is reversible, automation is on, the specification does not
\* exclude it, no freeze is in force, no budget objects to a change that costs more,
\* production changes are confident, and a window was asked for only if one covers the
\* instant of the decision.
Earned(d) ==
  LET matching == Matching(d.policy, d.rec, d.at)
      rule(i)  == d.policy.rules[i]
  IN  /\ matching # {}
      /\ \A i \in matching : rule(i).effect = "auto_execute" /\ ~Unlimited(rule(i))
      /\ d.rec.action \notin Destructive
      /\ enabled
      /\ ~d.rec.excluded
      /\ ~InChangeFreeze(Freezes, d.at)
      /\ d.rec.raises => ~d.freeze /\ ~d.escalate
      /\ d.rec.env \in Production => d.rec.confidence >= ProductionConfidence
      /\ (\E i \in matching : rule(i).window) =>
           \E w \in Windows : AppliesTo(w, d.rec.env) /\ Covers(w, d.at)

\* The verdict auto_execute (govern.Evaluate, applySpecificationGuards) is earned, by
\* a policy that passed Validate when it was saved and when it was activated.
AutomationIsEarned ==
  decision # None /\ decision.effect = "auto_execute" => Earned(decision)

\* No verdict is weaker than any rule that matches, wherever the rule stands in the
\* policy and whatever else matches, nor than the default when nothing matches, and a
\* change that needs approval needs somebody's (govern.Evaluate, tighten).
RestrictionsStand ==
  decision # None =>
    LET p        == decision.policy
        matching == Matching(p, decision.rec, decision.at)
    IN  /\ \A i \in matching : Rank(p.rules[i].effect) <= Rank(decision.effect)
        /\ matching = {} => Rank(p.default) <= Rank(decision.effect)
        /\ decision.effect = "require_approval" => decision.needs # 0

\* Trying today and yesterday finds exactly the windows that cover the instant, across
\* midnight and the end of the week, for windows that last a day at most
\* (InMaintenanceWindow).
WindowsAreExact ==
  \A w \in Windows : w.length <= DayLength => (InWindow(w, now) <=> Covers(w, now))

===============================================================================
