--------------------------- MODULE ToolPermissions ---------------------------
(***************************************************************************)
(* src/ai/tool-permissions.ts: the policies that say which tools an agent  *)
(* may use.  A request is [agent, tool, fits]: fits when the parameters    *)
(* meet the constraint of the tool.                                        *)
(***************************************************************************)

CONSTANTS
  Agent,      \* agents that may be given a tool policy
  ToolPolicy  \* policies registered later: [denied, approval, allowed, default]

ASSUME ToolPolicyAssumption == \A p \in ToolPolicy : p.default \in {"DENY", "ALLOW"}

VARIABLE policies  \* AgentToolPermissionRegistry.policies

\* A fault of NoPolicy: no answer for an agent that is not registered.
NoPolicyNoAnswer == [denied |-> {}, approval |-> {}, allowed |-> {}, default |-> "undefined"]

\* An agent without a policy is denied every tool.
NoPolicy == [denied |-> {}, approval |-> {}, allowed |-> {}, default |-> "DENY"]

VegaPolicy ==
  [denied |-> {"transfer_funds", "delete_production_data",
               "deploy_destructive_infrastructure", "export_credentials",
               "modify_iam_roles"},
   approval |-> {"send_executive_alert", "trigger_sync_workflow",
                 "stage_deployment_manifest"},
   allowed |-> {"read_business_telemetry", "analyse_data", "draft_recommendation",
                "query_metric_dashboard", "summarize_reports"},
   default |-> "DENY"]

CheckPermission(request) ==
  LET p == policies[request.agent]
  IN  CASE request.tool \in p.denied -> "DENY"
        [] request.tool \in p.approval \ p.denied -> "REQUIRE_APPROVAL"
        [] request.tool \in p.allowed \ (p.denied \union p.approval) ->
             IF request.fits THEN "ALLOW" ELSE "DENY"
        [] OTHER -> p.default

PermissionsTypeOK == policies \in [Agent -> ToolPolicy \union {NoPolicy, VegaPolicy}]

\* The constructor registers the policy of vega.
PermissionsInit ==
  policies = [a \in Agent |-> IF a = "vega" THEN VegaPolicy ELSE NoPolicy]

RegisterPolicy(agent, policy) == policies' = [policies EXCEPT ![agent] = policy]

PermissionsNext ==
  \E agent \in Agent, policy \in ToolPolicy : RegisterPolicy(agent, policy)

=============================================================================
