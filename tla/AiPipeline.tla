------------------------------ MODULE AiPipeline ------------------------------
(***************************************************************************)
(* src/ai/pipeline.ts: a request to a model, from its input policy to the  *)
(* permissions of the tools the model asks for.  The model is awaited, and *)
(* tool policies are registered meanwhile.                                 *)
(***************************************************************************)
EXTENDS ToolPermissions, Naturals, Sequences

CONSTANTS
  Ask,         \* calls of executePipeline
  AiRequest,   \* [agent, violates, sensitive]: what the prompt is found to hold
  ModelOutput  \* [leaks, toolCalls], a tool call being [tool, fits]

ASSUME PipelineAssumption ==
  /\ \A r \in AiRequest :
       r.agent \in Agent /\ {r.violates, r.sensitive} \subseteq BOOLEAN
  /\ \A o \in ModelOutput : o.leaks \in BOOLEAN

VARIABLE asks  \* each call: the request, the model's output and the decision

\* Where a request was stopped, if it was.
AskVerdict == {"INPUT_POLICY", "OUTPUT_VALIDATION", "TOOL_PERMISSION",
               "POLICY_DECISION", "COMPLETED", "ERROR"}

NotAsked == [phase |-> "idle"]

PipelineTypeOK ==
  /\ PermissionsTypeOK
  /\ asks \in [Ask ->
       {NotAsked} \union [phase : {"model"}, request : AiRequest]
         \union [phase : {"answered"}, verdict : AskVerdict]
         \union [phase : {"answered"}, request : AiRequest, output : ModelOutput,
                 verdict : AskVerdict]]

PipelineInit == PermissionsInit /\ asks = [a \in Ask |-> NotAsked]

EvaluateInputPolicy(request) == ~request.violates

ClassifyRisk(request) ==
  CASE ~EvaluateInputPolicy(request) -> 90
    [] EvaluateInputPolicy(request) /\ request.sensitive -> 50
    [] OTHER -> 10

Stop(a, verdict) ==
  asks' = [asks EXCEPT ![a] = [phase |-> "answered", verdict |-> verdict]]

\* Up to the await of the model.  No request is escalated for its risk: what
\* scores 80 or more has violated the input policy.
ExecutePipeline(a, request) ==
  /\ asks[a] = NotAsked
  /\ \/ ~EvaluateInputPolicy(request) /\ Stop(a, "INPUT_POLICY")
     \/ /\ EvaluateInputPolicy(request)
        /\ ClassifyRisk(request) < 80
        /\ asks' = [asks EXCEPT ![a] = [phase |-> "model", request |-> request]]
  /\ UNCHANGED policies

\* A fault of CheckToolPermissions: the first tool call stands for all.
CheckFirstTool(agent, toolCalls) ==
  {CheckPermission([agent |-> agent, tool |-> toolCalls[i].tool, fits |-> toolCalls[i].fits]) :
     i \in DOMAIN toolCalls \intersect {1}}

CheckToolPermissions(agent, toolCalls) ==
  {CheckPermission([agent |-> agent, tool |-> toolCalls[i].tool, fits |-> toolCalls[i].fits]) :
     i \in DOMAIN toolCalls}

Decide(agent, output) ==
  LET decisions == CheckToolPermissions(agent, output.toolCalls)
  IN  CASE output.leaks -> "OUTPUT_VALIDATION"
        [] ~output.leaks /\ "DENY" \in decisions -> "TOOL_PERMISSION"
        [] ~output.leaks /\ "DENY" \notin decisions
             /\ "REQUIRE_APPROVAL" \in decisions -> "POLICY_DECISION"
        [] OTHER -> "COMPLETED"

ModelAnswers(a, output) ==
  /\ asks[a].phase = "model"
  /\ asks' = [asks EXCEPT ![a] =
                [phase |-> "answered",
                 request |-> asks[a].request,
                 output |-> output,
                 verdict |-> Decide(asks[a].request.agent, output)]]
  /\ UNCHANGED policies

\* The error of a model goes to the caller.
ModelFails(a) ==
  /\ asks[a].phase = "model"
  /\ Stop(a, "ERROR")
  /\ UNCHANGED policies

PipelineNext ==
  \/ PermissionsNext /\ UNCHANGED asks
  \/ \E a \in Ask :
       \/ \E request \in AiRequest : ExecutePipeline(a, request)
       \/ \E output \in ModelOutput : ModelAnswers(a, output)
       \/ ModelFails(a)

pipelineVars == <<policies, asks>>

-----------------------------------------------------------------------------
PermittedCall(agent, call) ==
  CheckPermission([agent |-> agent, tool |-> call.tool, fits |-> call.fits]) = "ALLOW"

\* A request is completed only if the model leaked nothing and every one of the
\* tools it asked for is allowed by the policies in force when it answers, which
\* may not be those in force when it was asked; and nothing else keeps it from
\* being completed.
CompletedUnderPoliciesInForce ==
  [][\A a \in Ask :
       asks[a].phase = "model" /\ asks'[a].phase = "answered"
         /\ asks'[a].verdict # "ERROR" =>
         LET output == asks'[a].output
         IN  asks'[a].verdict = "COMPLETED" <=>
               /\ ~output.leaks
               /\ \A i \in DOMAIN output.toolCalls :
                    PermittedCall(asks[a].request.agent, output.toolCalls[i])]_pipelineVars

=============================================================================
