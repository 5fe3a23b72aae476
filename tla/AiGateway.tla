------------------------------ MODULE AiGateway ------------------------------
(***************************************************************************)
(* src/ai/gateway.ts: the gateway asks the detector about what goes into a *)
(* model, the armor about what comes out of it and the sandbox about the   *)
(* tools it calls, and puts on record what it did not let pass as it was.  *)
(* Each of its calls runs to its end.                                      *)
(***************************************************************************)
EXTENDS Sandbox, AiFilters

CONSTANTS
  PromptAsked,    \* prompts that clients send
  Output,         \* texts that models answer
  MaxInspections  \* bound: prompts and outputs inspected

ASSUME GatewayAssumption ==
  /\ PromptAsked \subseteq Prompt
  /\ \A text \in Output : text \in Seq(Word)
  /\ MaxInspections \in Nat

VARIABLES
  gatewayAudit,  \* AuditService, as far as the gateway appends to it
  inspections    \* history: every inspection, what came and what was let pass

filterVars == <<armorVars, gatewayAudit, inspections>>

Actions == {"ALLOW", "REDACT", "SANITIZE", "BLOCK"}

Inspection ==
  [kind : {"input"}, asked : Prompt, action : Actions, delivered : Prompt]
    \union [kind : {"output"}, asked : Seq(Word), action : Actions, delivered : Seq(Word)]

AuditRecord == [what : {"prompt_injection_blocked", "model_armor_sanitized"},
                result : {"SUCCESS", "FAILURE"}]

GatewayTypeOK ==
  /\ ArmorTypeOK
  /\ gatewayAudit \in Seq(AuditRecord)
  /\ inspections \in Seq(Inspection)

GatewayInit ==
  /\ ArmorInit
  /\ gatewayAudit = <<>>
  /\ inspections = <<>>

Inspected(kind, asked, action, delivered) ==
  /\ Len(inspections) < MaxInspections
  /\ inspections' = Append(inspections, [kind |-> kind, asked |-> asked,
                                         action |-> action, delivered |-> delivered])
  /\ UNCHANGED armorVars

InspectInput(prompt) ==
  /\ Inspected("input", prompt, Action(prompt), prompt)
  /\ gatewayAudit' = IF Action(prompt) \in {"ALLOW", "SANITIZE"}
                       THEN gatewayAudit
                       ELSE Append(gatewayAudit, [what |-> "prompt_injection_blocked",
                                                  result |-> "FAILURE"])

OutputRecord(answer) ==
  IF answer.action = "ALLOW" THEN <<>>
    ELSE <<[what |-> "model_armor_sanitized",
            result |-> IF answer.action = "BLOCK" THEN "FAILURE" ELSE "SUCCESS"]>>

InspectOutput(text) ==
  LET answer == Inspect(text)
  IN  /\ Inspected("output", text, answer.action, answer.delivered)
      /\ gatewayAudit' = gatewayAudit \o OutputRecord(answer)

GatewayNext ==
  \/ ArmorNext /\ UNCHANGED <<gatewayAudit, inspections>>
  \/ \E prompt \in PromptAsked : InspectInput(prompt)
  \/ \E text \in Output : InspectOutput(text)

-----------------------------------------------------------------------------
\* What the gateway promises.

\* A prompt passes if and only if no rule matches it in any of the forms it may
\* hide in: however few and weak the matches are and however rounding falls, the
\* score of a detection never ends below the threshold that blocks.
EveryDetectionBlocks ==
  \A i \in DOMAIN inspections :
    inspections[i].kind = "input" =>
      /\ Detected(inspections[i].asked) => inspections[i].action = "BLOCK"
      /\ ~Detected(inspections[i].asked) => inspections[i].action = "ALLOW"

\* What is delivered of an output holds no phrase or canary that was registered
\* by then, and no secret, whatever order they were registered in and however
\* they overlap; and an output of which anything was held back is on record, as
\* a failure if all of it was.
NothingRegisteredLeaves ==
  [][inspections' # inspections /\ Last(inspections').kind = "output" =>
       LET i == Last(inspections')
           leaving == ToSet(i.delivered)
       IN  /\ leaving \intersect
                (canaryTokens \union PrivateKey \union Credential \union Pii) = {}
           /\ \A f \in DOMAIN systemPromptFingerprints :
                ~Occurs(systemPromptFingerprints[f], i.delivered)
           /\ i.delivered # i.asked <=> gatewayAudit' # gatewayAudit
           /\ i.delivered # i.asked =>
                (Last(gatewayAudit').result = "FAILURE" <=> i.delivered = <<BLOCKED>>)
    ]_filterVars

=============================================================================
