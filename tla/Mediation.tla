------------------------------ MODULE Mediation ------------------------------
(***************************************************************************)
(* What Sovereign OS asks before it acts: the client of                    *)
(* src/integrations/sovereign-os/client.ts over the tool permissions of    *)
(* src/ai/tool-permissions.ts, the decision pipeline of                    *)
(* src/policy/provenance.ts and the rules of PolicyEngine.                 *)
(*                                                                         *)
(* The client awaits the permission check, the executor that does the      *)
(* work, and the emission of the event: there calls interleave, and tool   *)
(* policies and rules change.  Between the decision and the start of the   *)
(* executor there is no await.                                             *)
(***************************************************************************)
EXTENDS PolicyEngine, ToolPermissions

CONSTANTS
  Call,            \* calls of the client
  ToolRequest,     \* [agent, tool, verb, fits]: fits when the parameters meet the constraint
  ExecutiveAction, \* actions that executives ask for
  Production       \* TRUE: the client's environment is "production"

ASSUME MediationAssumption ==
  /\ \A r \in ToolRequest : r.agent \in Agent /\ r.fits \in BOOLEAN
  /\ Production \in BOOLEAN

VARIABLES
  calls,     \* the calls in progress and answered
  audit,     \* AuditService, a record being the call, what happened and the result
  events     \* calls whose SecurityEvent the threat engine processed

vars == <<rules, registered, policies, calls, audit, events>>

-----------------------------------------------------------------------------
\* What the decision pipeline is asked on behalf of a call.

Question(roles, action, riskScore) ==
  [roles |-> roles, explicit |-> {}, action |-> action,
   production |-> Production, riskScore |-> riskScore]

\* A tool is asked for as the action "tool:<name>".
ToolQuestion(r) ==
  Question({"AGENT"}, [name |-> "tool:" \o r.tool, verb |-> r.verb], 10)
ExecutiveQuestion(action) == Question({"EXECUTIVE"}, action, 25)
ConfigQuestion == Question({"ADMIN"}, [name |-> "modify-config", verb |-> "other"], 30)
DataQuestion == Question({"ADMIN"}, [name |-> "read-sensitive-data", verb |-> "other"], 20)

ASSUME InputAssumption ==
  /\ \A r \in ToolRequest : ToolQuestion(r) \in Input
  /\ \A action \in ExecutiveAction : ExecutiveQuestion(action) \in Input
  /\ {ConfigQuestion, DataQuestion} \subseteq Input

-----------------------------------------------------------------------------
\* The life of a call: idle; a tool request whose permission was read; its
\* executor running; its event emitted; answered.
Phase == {"idle", "checked", "running", "emitted", "answered"}

Kind == {"none", "tool", "executive", "change", "check"}

Idle == [phase |-> "idle", kind |-> "none", question |-> ConfigQuestion,
         permission |-> "DENY", executed |-> FALSE]

What == {"DECISION", "BLOCKED", "EXECUTED", "FAILED", "CHANGE"}

Record == [call : Call, what : What, result : {"SUCCESS", "DENIED", "FAILURE"}]

TypeOK ==
  /\ PolicyTypeOK
  /\ PermissionsTypeOK
  /\ calls \in [Call -> [phase : Phase, kind : Kind, question : Input,
                         permission : Outcome, executed : BOOLEAN]]
  /\ audit \in Seq(Record)
  /\ events \subseteq Call

Init ==
  /\ PolicyInit
  /\ PermissionsInit
  /\ calls = [c \in Call |-> Idle]
  /\ audit = <<>>
  /\ events = {}

Entry(c, what, result) == [call |-> c, what |-> what, result |-> result]

\* SecurityDecisionPipeline.evaluate puts every decision on record.
Decision(c, question) ==
  Entry(c, "DECISION",
        IF EvaluateWithPrecedence(question) = "ALLOW" THEN "SUCCESS" ELSE "DENIED")

\* A fault of Allowed: a ruleset kept from the start.
AllowedByDefault(question) == Verdict(DefaultRules, question) = "ALLOW"

Allowed(question) == EvaluateWithPrecedence(question) = "ALLOW"

Moves(c, call) == calls' = [calls EXCEPT ![c] = call]

Answered(c) == [calls[c] EXCEPT !.phase = "answered"]

-----------------------------------------------------------------------------
ChangePolicies ==
  /\ PermissionsNext
  /\ UNCHANGED <<rules, registered, calls, audit, events>>

ChangeRules ==
  /\ PolicyNext
  /\ UNCHANGED <<policies, calls, audit, events>>

\* invokeVegaTool, up to the await of the permission check.
InvokeVegaTool(c, request) ==
  /\ calls[c].phase = "idle"
  /\ Moves(c, [calls[c] EXCEPT !.phase = "checked", !.kind = "tool",
                               !.question = ToolQuestion(request),
                               !.permission = CheckPermission(request)])
  /\ UNCHANGED <<rules, registered, policies, audit, events>>

\* invokeVegaTool, when the client's own credentials are not accepted.
RejectCredentials(c) ==
  /\ calls[c].phase = "idle"
  /\ Moves(c, [calls[c] EXCEPT !.phase = "answered", !.kind = "tool"])
  /\ UNCHANGED <<rules, registered, policies, audit, events>>

BlockTool(c) ==
  /\ calls[c].phase = "checked"
  /\ calls[c].permission # "ALLOW"
  /\ audit' = Append(audit, Entry(c, "BLOCKED", "DENIED"))
  /\ Moves(c, Answered(c))
  /\ UNCHANGED <<rules, registered, policies, events>>

\* The decision is on record, and what follows from it: a refusal, or the start
\* of the executor.
Refuse(c, call) ==
  /\ ~Allowed(call.question)
  /\ audit' = audit \o <<Decision(c, call.question), Entry(c, "BLOCKED", "DENIED")>>
  /\ Moves(c, [call EXCEPT !.phase = "answered"])
  /\ UNCHANGED <<rules, registered, policies, events>>

Start(c, call) ==
  /\ Allowed(call.question)
  /\ audit' = Append(audit, Decision(c, call.question))
  /\ Moves(c, [call EXCEPT !.phase = "running", !.executed = TRUE])
  /\ UNCHANGED <<rules, registered, policies, events>>

\* A fault of Permitted: the permission is read and not looked at.
PermittedAnyway(c) == calls[c].phase = "checked"

Permitted(c) == calls[c].phase = "checked" /\ calls[c].permission = "ALLOW"

DecideTool(c) == Permitted(c) /\ (Refuse(c, calls[c]) \/ Start(c, calls[c]))

ExecutiveCall(c, action) ==
  [calls[c] EXCEPT !.kind = "executive", !.question = ExecutiveQuestion(action)]

EvaluateExecutiveAction(c, action) ==
  /\ calls[c].phase = "idle"
  /\ Refuse(c, ExecutiveCall(c, action)) \/ Start(c, ExecutiveCall(c, action))

\* The request came without an executor: the event is emitted at once.
EvaluateWithoutExecutor(c, action) ==
  LET call == ExecutiveCall(c, action)
  IN  /\ calls[c].phase = "idle"
      /\ Allowed(call.question)
      /\ audit' = Append(audit, Decision(c, call.question))
      /\ events' = events \union {c}
      /\ Moves(c, [call EXCEPT !.phase = "emitted"])
      /\ UNCHANGED <<rules, registered, policies>>

\* The executor returns, and the event is processed before the next await.
EmitEvent(c) ==
  /\ calls[c].phase = "running"
  /\ events' = events \union {c}
  /\ Moves(c, [calls[c] EXCEPT !.phase = "emitted"])
  /\ UNCHANGED <<rules, registered, policies, audit>>

\* A fault of Fail: nothing catches the error.
FailUncaught(c) ==
  /\ calls[c].phase = "running"
  /\ Moves(c, Answered(c))
  /\ UNCHANGED <<rules, registered, policies, audit, events>>

\* The executor throws.  invokeVegaTool catches it; from
\* evaluateExecutiveAction the error goes to the caller.
Fail(c) ==
  /\ calls[c].phase = "running"
  /\ audit' = IF calls[c].kind = "tool"
                THEN Append(audit, Entry(c, "FAILED", "FAILURE"))
                ELSE audit
  /\ Moves(c, Answered(c))
  /\ UNCHANGED <<rules, registered, policies, events>>

RecordExecution(c) ==
  /\ calls[c].phase = "emitted"
  /\ audit' = Append(audit, Entry(c, "EXECUTED", "SUCCESS"))
  /\ Moves(c, Answered(c))
  /\ UNCHANGED <<rules, registered, policies, events>>

\* evaluateConfigChange and evaluateDataAccess decide and record in one step.
EvaluateChange(c, question) ==
  /\ calls[c].phase = "idle"
  /\ audit' = audit \o <<Decision(c, question),
                         [Decision(c, question) EXCEPT !.what = "CHANGE"]>>
  /\ Moves(c, [calls[c] EXCEPT !.phase = "answered", !.kind = "change"])
  /\ UNCHANGED <<rules, registered, policies, events>>

CheckPolicy(c, question) ==
  /\ calls[c].phase = "idle"
  /\ audit' = Append(audit, Decision(c, question))
  /\ Moves(c, [calls[c] EXCEPT !.phase = "answered", !.kind = "check"])
  /\ UNCHANGED <<rules, registered, policies, events>>

Next ==
  \/ ChangePolicies
  \/ ChangeRules
  \/ \E c \in Call, request \in ToolRequest : InvokeVegaTool(c, request)
  \/ \E c \in Call, action \in ExecutiveAction :
       EvaluateExecutiveAction(c, action) \/ EvaluateWithoutExecutor(c, action)
  \/ \E c \in Call, question \in {ConfigQuestion, DataQuestion} : EvaluateChange(c, question)
  \/ \E c \in Call, question \in Input : CheckPolicy(c, question)
  \/ \E c \in Call :
       \/ RejectCredentials(c)
       \/ BlockTool(c)
       \/ DecideTool(c)
       \/ EmitEvent(c)
       \/ Fail(c)
       \/ RecordExecution(c)

Spec == Init /\ [][Next]_vars

-----------------------------------------------------------------------------
\* What mediation promises.

\* Where the audit speaks of a call, and what it says first and last.
Trail(log, c) == {i \in DOMAIN log : log[i].call = c}

BeginsWith(log, c, entry) ==
  \E i \in Trail(log, c) :
    /\ log[i] = entry
    /\ \A j \in Trail(log, c) \ {i} : i < j /\ log[j].what # entry.what

EndsWith(log, c, what) ==
  \E i \in Trail(log, c) :
    /\ log[i].what = what
    /\ \A j \in Trail(log, c) : j <= i

\* Whatever interleaves, an executor runs only for a call whose tool permission
\* said ALLOW and whose one decision, the first record of the call, said so too.
DecidedBeforeExecuted ==
  \A c \in Call :
    calls[c].executed =>
      /\ calls[c].kind = "tool" => calls[c].permission = "ALLOW"
      /\ BeginsWith(audit, c, Entry(c, "DECISION", "SUCCESS"))

\* The decision an executor starts on is never stale: rules that changed while
\* the call was waiting are the ones that decide.
StartsUnderRulesInForce ==
  [][\A c \in Call :
       calls'[c].executed /\ ~calls[c].executed =>
         EvaluateWithPrecedence(calls'[c].question) = "ALLOW"]_vars

\* The audit tells what became of an answered tool request: its last record says
\* whether the executor ran and how it ended, and an event was emitted for the
\* executions that succeeded and no others.
ToolTrailTellsWhatHappened ==
  \A c \in Call :
    calls[c].phase = "answered" /\ calls[c].kind = "tool" =>
      /\ calls[c].executed <=>
           EndsWith(audit, c, "EXECUTED") \/ EndsWith(audit, c, "FAILED")
      /\ c \in events <=> EndsWith(audit, c, "EXECUTED")

\* "Execution only if allowed -> SecurityEvent emitted -> Tamper-evident Audit
\* Ledger record": the comment at the head of the client says it of VEGA tool
\* calls and executive actions alike.
ExecutionsOnRecord ==
  \A c \in Call :
    calls[c].phase = "answered" /\ calls[c].executed =>
      EndsWith(audit, c, "EXECUTED") \/ EndsWith(audit, c, "FAILED")

=============================================================================
