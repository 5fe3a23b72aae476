------------------------------ MODULE AiSecurity ------------------------------
(***************************************************************************)
(* The stateful parts of src/ai: the filters and the sandbox of the        *)
(* gateway, and the pipeline.  They share no state, so that what one does  *)
(* never depends on the others: a behaviour calls one of them.             *)
(***************************************************************************)
EXTENDS AiGateway, AiPipeline

VARIABLE used  \* bound: the part a behaviour calls

aiVars == <<now, used, sandboxVars, filterVars, pipelineVars>>

AiTypeOK ==
  /\ now \in Nat
  /\ SandboxTypeOK
  /\ GatewayTypeOK
  /\ PipelineTypeOK

AiInit ==
  /\ now = 0
  /\ used \in {"sandbox", "filters", "pipeline"}
  /\ SandboxInit
  /\ GatewayInit
  /\ PipelineInit

AiTick ==
  /\ used = "sandbox"
  /\ Advance
  /\ UNCHANGED <<used, sandboxVars, filterVars, pipelineVars>>

\* A request without the fields its endpoint asks for.
RejectAiRequest == UNCHANGED aiVars

AiNext ==
  \/ /\ used = "sandbox" /\ SandboxNext
     /\ UNCHANGED <<used, filterVars, pipelineVars>>
  \/ /\ used = "filters" /\ GatewayNext
     /\ UNCHANGED <<now, used, sandboxVars, pipelineVars>>
  \/ /\ used = "pipeline" /\ PipelineNext
     /\ UNCHANGED <<now, used, sandboxVars, filterVars>>
  \/ AiTick
  \/ RejectAiRequest

AiSpec == AiInit /\ [][AiNext]_aiVars

=============================================================================
