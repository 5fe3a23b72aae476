------------------------------ MODULE Sandbox ------------------------------
(***************************************************************************)
(* src/ai/agent-sandbox.ts: the guard of the tool calls of AI agents.  An  *)
(* agent has a quota per sliding window and may not repeat itself; a       *)
(* session has a quota for good.  A call without a session counts in one   *)
(* that all agents share.  Every evaluation runs to its end, and Date.now  *)
(* is assumed not to step back.                                            *)
(***************************************************************************)
EXTENDS Runtime, Integers, Sequences

CONSTANTS
  ToolCall,                      \* what agents ask for: [agent, session, tool, arguments],
                                 \*   the arguments being [top, nested]: the values at
                                 \*   the top level, what is in the objects among them
  HighImpactTools,
  QuotaWindowMs,                 \* a minute
  MaxCallsPerMinute,
  MaxCallsPerSession,
  MaxConsecutiveIdenticalCalls,
  MaxEvaluations                 \* bound: calls evaluated

ASSUME SandboxAssumption ==
  /\ QuotaWindowMs \in Nat \ {0}
  /\ MaxCallsPerMinute \in Nat
  /\ MaxCallsPerSession \in Nat
  /\ MaxConsecutiveIdenticalCalls \in Nat \ {0}
  /\ MaxEvaluations \in Nat

VARIABLES
  callHistory,    \* CallRecords of each agent, none for one that is not in the Map
  sessionCounts,  \* calls of each session, 0 for one that is not in the Map
  evaluations     \* history: every call that was evaluated, and the answer to it

sandboxVars == <<callHistory, sessionCounts, evaluations>>

CallingAgent == {call.agent : call \in ToolCall}

Session == {call.session : call \in ToolCall}

Tool == {call.tool : call \in ToolCall}

Answers == {"SESSION_QUOTA", "RATE_LIMIT", "LOOP", "APPROVAL", "PERMITTED"}

CallRecord ==
  [timestamp : Nat, tool : Tool, hash : {call.arguments.top : call \in ToolCall}]

SandboxTypeOK ==
  /\ callHistory \in [CallingAgent -> Seq(CallRecord)]
  /\ sessionCounts \in [Session -> 0 .. MaxCallsPerSession]
  /\ evaluations \in Seq([call : ToolCall, at : Nat, outcome : Answers])
  /\ \A agent \in CallingAgent : Len(callHistory[agent]) <= MaxCallsPerMinute

SandboxInit ==
  /\ callHistory = [agent \in CallingAgent |-> <<>>]
  /\ sessionCounts = [session \in Session |-> 0]
  /\ evaluations = <<>>

-----------------------------------------------------------------------------
\* The names to keep are those of the top level, and JSON.stringify applies them
\* at every depth: what is inside of an object is dropped.
HashArguments(arguments) == arguments.top

\* A fault of Pruned: the history is emptied when its oldest record is too old.
PrunedAltogether(history) ==
  IF history # <<>> /\ now - Head(history).timestamp >= QuotaWindowMs THEN <<>> ELSE history

Pruned(history) ==
  Filtered(history, {i \in DOMAIN history : now - history[i].timestamp < QuotaWindowMs})

Same(record, call) ==
  record.tool = call.tool /\ record.hash = HashArguments(call.arguments)

\* How many calls like this one the history ends with.
ConsecutiveIdentical(history, call) ==
  Cardinality({first \in DOMAIN history :
                 \A i \in first .. Len(history) : Same(history[i], call)})

IsPotentialLoop(history, call) ==
  ConsecutiveIdentical(history, call) >= MaxConsecutiveIdenticalCalls - 1

\* A fault of OverSession: one call too many.
OverSessionByOne(session) == sessionCounts[session] > MaxCallsPerSession

OverSession(session) == sessionCounts[session] + 1 > MaxCallsPerSession

Answer(call, outcome) ==
  evaluations' = Append(evaluations, [call |-> call, at |-> now, outcome |-> outcome])

\* A refused call leaves the history pruned and is not counted.
Refuse(call, history, outcome) ==
  /\ callHistory' = [callHistory EXCEPT ![call.agent] = history]
  /\ UNCHANGED sessionCounts
  /\ Answer(call, outcome)

\* A call that needs approval is counted as if it were made.
Record(call, history) ==
  /\ callHistory' =
       [callHistory EXCEPT ![call.agent] =
          Append(history, [timestamp |-> now, tool |-> call.tool,
                           hash |-> HashArguments(call.arguments)])]
  /\ sessionCounts' = [sessionCounts EXCEPT ![call.session] = @ + 1]
  /\ Answer(call, IF call.tool \in HighImpactTools THEN "APPROVAL" ELSE "PERMITTED")

EvaluateToolExecution(call) ==
  LET history == Pruned(callHistory[call.agent])
  IN  /\ Len(evaluations) < MaxEvaluations
      /\ UNCHANGED now
      /\ \/ OverSession(call.session) /\ Refuse(call, history, "SESSION_QUOTA")
         \/ /\ ~OverSession(call.session)
            /\ \/ /\ Len(history) >= MaxCallsPerMinute
                  /\ Refuse(call, history, "RATE_LIMIT")
               \/ /\ Len(history) < MaxCallsPerMinute
                  /\ \/ IsPotentialLoop(history, call) /\ Refuse(call, history, "LOOP")
                     \/ ~IsPotentialLoop(history, call) /\ Record(call, history)

SandboxNext == \E call \in ToolCall : EvaluateToolExecution(call)

-----------------------------------------------------------------------------
\* What the sandbox promises, over the whole past, which the code forgets.

\* The evaluations after which a call counted.
Counted(past) == {i \in DOMAIN past : past[i].outcome \in {"APPROVAL", "PERMITTED"}}

\* Those of an agent that count at a time, whatever their sessions.
Recent(past, agent, at) ==
  {i \in Counted(past) : past[i].call.agent = agent /\ at - past[i].at < QuotaWindowMs}

OfSession(past, session) == {i \in Counted(past) : past[i].call.session = session}

Alike(call, other) ==
  call.tool = other.tool /\ call.arguments.top = other.arguments.top

\* The latest of the recent calls, as many as may be, are all like this one.
OneOfManyAlike(call, past, recent) ==
  /\ Cardinality(recent) >= MaxConsecutiveIdenticalCalls - 1
  /\ \A i \in recent :
       Cardinality({j \in recent : j > i}) < MaxConsecutiveIdenticalCalls - 1
         => Alike(call, past[i].call)

\* The answer a call deserves.
Deserved(past, call, at) ==
  LET recent == Recent(past, call.agent, at)
      inSession == Cardinality(OfSession(past, call.session))
  IN  CASE inSession >= MaxCallsPerSession -> "SESSION_QUOTA"
        [] inSession < MaxCallsPerSession /\ Cardinality(recent) >= MaxCallsPerMinute ->
             "RATE_LIMIT"
        [] OTHER -> IF OneOfManyAlike(call, past, recent) THEN "LOOP"
                    ELSE IF call.tool \in HighImpactTools THEN "APPROVAL" ELSE "PERMITTED"

\* However the calls of agents and sessions mix and whatever was refused or
\* pruned in between, a call is answered as the past deserves: never more than
\* the quota of an agent in any window, never more than that of a session, no
\* repetition of one call by an agent within a window however other agents or
\* refusals come between, and no refusal without one of these reasons.
AnswersFollowThePast ==
  [][evaluations' # evaluations =>
       LET answer == evaluations'[Len(evaluations')]
       IN  answer.outcome = Deserved(evaluations, answer.call, answer.at)]_sandboxVars

=============================================================================
