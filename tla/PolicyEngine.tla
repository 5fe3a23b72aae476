---------------------------- MODULE PolicyEngine ----------------------------
(***************************************************************************)
(* src/policy/engine.ts and the role check of src/identity/rbac.ts that    *)
(* one of its default rules makes.                                         *)
(*                                                                         *)
(* A rule is its name.  What a default rule matches is written here; the   *)
(* rules that registerRule adds are given by CustomRule.  An action is a   *)
(* name with its verb, which stands for what the prefix tests of the role  *)
(* rule find in the name.                                                  *)
(***************************************************************************)
EXTENDS Integers, Sequences, FiniteSetsExt, SequencesExt

CONSTANTS
  Input,       \* what may be asked: [roles, explicit, action, production, riskScore]
  CustomRule,  \* name :> [priority, on (a set of inputs), outcome]
  MaxRules     \* bound: rules registered beside the default ones

Outcome == {"ALLOW", "DENY", "REQUIRE_APPROVAL", "ESCALATE"}

ASSUME PolicyAssumption ==
  /\ \A r \in DOMAIN CustomRule :
       /\ CustomRule[r].priority \in Int
       /\ CustomRule[r].on \subseteq Input
       /\ CustomRule[r].outcome \in Outcome
  /\ MaxRules \in Nat

VARIABLES
  rules,      \* PolicyEngine.rules
  registered  \* the same in the order of registration

policyVars == <<rules, registered>>

-----------------------------------------------------------------------------
\* Roles.

Permissions(role) ==
  CASE role = "ADMIN" -> {"READ", "WRITE", "EXECUTE", "ADMINISTER"}
    [] role = "EXECUTIVE" -> {"READ", "CERTIFY"}
    [] role = "SYSTEM" -> {"READ", "WRITE", "EXECUTE"}
    [] role \in {"AGENT", "SERVICE"} -> {"READ", "EXECUTE"}

RestrictedActions(role) ==
  CASE role = "ADMIN" -> {"certify_financial_reports", "override_executive_veto"}
    [] role = "EXECUTIVE" ->
         {"direct_infrastructure_modification", "modify_system_credentials"}
    [] role \in {"SYSTEM", "SERVICE"} ->
         {"administer_user_roles", "certify_financial_reports"}
    [] role = "AGENT" ->
         {"transfer_funds", "delete_production_data", "modify_security_policies",
          "deploy_destructive_infrastructure", "export_raw_credentials"}

\* A restriction of any role outweighs every permission.
HasPermission(input, permission) ==
  /\ \A role \in input.roles : input.action.name \notin RestrictedActions(role)
  /\ \/ permission \in input.explicit
     \/ \E role \in input.roles : permission \in Permissions(role)

RequiredPermission(action) ==
  CASE action.verb = "administer" -> "ADMINISTER"
    [] action.verb = "write" -> "WRITE"
    [] action.verb = "execute" -> "EXECUTE"
    [] action.verb = "certify" -> "CERTIFY"
    [] action.verb = "other" -> "READ"

-----------------------------------------------------------------------------
\* Rules.

SensitiveActions ==
  {"delete_production_database", "execute_fund_transfer",
   "revoke_security_certificates", "modify_iam_policy",
   "deploy_destructive_infrastructure"}

DefaultRules == <<"EXTREME_RISK_BLOCK", "PROD_HIGH_RISK_ESCALATE",
                  "SENSITIVE_ACTION_APPROVAL", "RBAC_VERIFICATION",
                  "AUTHORIZED_ALLOW">>

Priority(rule) ==
  CASE rule = "EXTREME_RISK_BLOCK" -> 100
    [] rule = "PROD_HIGH_RISK_ESCALATE" -> 80
    [] rule = "SENSITIVE_ACTION_APPROVAL" -> 70
    [] rule = "RBAC_VERIFICATION" -> 50
    [] rule = "AUTHORIZED_ALLOW" -> 10
    [] OTHER -> CustomRule[rule].priority

Matches(rule, input) ==
  CASE rule = "EXTREME_RISK_BLOCK" -> input.riskScore >= 90
    [] rule = "PROD_HIGH_RISK_ESCALATE" -> input.production /\ input.riskScore >= 75
    [] rule = "SENSITIVE_ACTION_APPROVAL" -> input.action.name \in SensitiveActions
    [] rule = "RBAC_VERIFICATION" ->
         ~HasPermission(input, RequiredPermission(input.action))
    [] rule = "AUTHORIZED_ALLOW" -> TRUE
    [] OTHER -> input \in CustomRule[rule].on

OutcomeOf(rule) ==
  CASE rule \in {"EXTREME_RISK_BLOCK", "RBAC_VERIFICATION"} -> "DENY"
    [] rule = "PROD_HIGH_RISK_ESCALATE" -> "ESCALATE"
    [] rule = "SENSITIVE_ACTION_APPROVAL" -> "REQUIRE_APPROVAL"
    [] rule = "AUTHORIZED_ALLOW" -> "ALLOW"
    [] OTHER -> CustomRule[rule].outcome

Rule == ToSet(DefaultRules) \union DOMAIN CustomRule

\* A fault of Ranked: no sort.
Pushed(seq, rule) == Append(seq, rule)

\* push and a stable sort by descending priority: the new rule goes before the
\* first that is below it.
Ranked(seq, rule) ==
  LET below == {i \in DOMAIN seq : Priority(seq[i]) < Priority(rule)}
  IN  InsertAt(seq, Min(below \union {Len(seq) + 1}), rule)

\* The first rule that has an opinion decides, and none means DENY.
Verdict(seq, input) ==
  LET matching == {i \in DOMAIN seq : Matches(seq[i], input)}
  IN  IF matching = {} THEN "DENY" ELSE OutcomeOf(seq[Min(matching)])

EvaluateWithPrecedence(input) == Verdict(rules, input)

-----------------------------------------------------------------------------
PolicyTypeOK ==
  /\ rules \in Seq(Rule)
  /\ registered \in Seq(Rule)

\* The constructor registers the default rules, in this order.
PolicyInit ==
  /\ rules = DefaultRules
  /\ registered = DefaultRules

RegisterRule(rule) ==
  /\ Len(rules) < Len(DefaultRules) + MaxRules
  /\ rules' = Ranked(rules, rule)
  /\ registered' = Append(registered, rule)

ResetRules ==
  /\ rules' = DefaultRules
  /\ registered' = DefaultRules

PolicyNext ==
  \/ \E rule \in DOMAIN CustomRule : RegisterRule(rule)
  \/ ResetRules

-----------------------------------------------------------------------------
\* Precedence, said of the registrations and not of the order of evaluation: of
\* the rules that match, one of the highest priority, registered first, decides.
Governs(i, input) ==
  /\ Matches(registered[i], input)
  /\ \A j \in DOMAIN registered \ {i} :
       Matches(registered[j], input) =>
         \/ Priority(registered[j]) < Priority(registered[i])
         \/ Priority(registered[j]) = Priority(registered[i]) /\ i < j

\* The risk from which the document lets nothing through, by the environment.
RiskLimit(input) == IF input.production THEN 75 ELSE 90

\* Whatever was registered in whatever order, every input is decided by the rule
\* that governs it; and what is at its risk limit or past it is allowed by
\* nothing but a rule that was registered to do so (docs/POLICY_ENGINE.md, 4).
HighestPriorityDecides ==
  \A input \in Input :
    /\ \E i \in DOMAIN registered :
         Governs(i, input) /\ EvaluateWithPrecedence(input) = OutcomeOf(registered[i])
    /\ EvaluateWithPrecedence(input) = "ALLOW" /\ input.riskScore >= RiskLimit(input) =>
         \E i \in DOMAIN registered : Governs(i, input) /\ registered[i] \in DOMAIN CustomRule

=============================================================================
