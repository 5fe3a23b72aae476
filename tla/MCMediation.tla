----------------------------- MODULE MCMediation -----------------------------
EXTENDS Mediation, TLC

CONSTANTS c1, c2  \* calls

MCCall == {c1, c2}
CallSymmetry == Permutations(MCCall)
MCAgent == {"vega", "vega-ops"}

\* A policy that leaves everything to the rules.
OpenPolicy == [denied |-> {}, approval |-> {}, allowed |-> {}, default |-> "ALLOW"]
MCToolPolicy == {OpenPolicy}

\* Allowed, denied, and allowed by OpenPolicy alone but for administrators.
MCToolRequest ==
  {[agent |-> "vega", tool |-> "analyse_data", verb |-> "other", fits |-> TRUE],
   [agent |-> "vega", tool |-> "read_business_telemetry", verb |-> "other", fits |-> FALSE],
   [agent |-> "vega", tool |-> "send_executive_alert", verb |-> "other", fits |-> TRUE],
   [agent |-> "vega-ops", tool |-> "grant_access", verb |-> "administer", fits |-> TRUE]}

\* Allowed, sensitive, and restricted for executives.
MCExecutiveAction ==
  {[name |-> "isolate-network-segment", verb |-> "other"],
   [name |-> "execute_fund_transfer", verb |-> "execute"],
   [name |-> "direct_infrastructure_modification", verb |-> "other"]}

\* Questions at the thresholds of risk.
Risky ==
  {[ExecutiveQuestion([name |-> "isolate-network-segment", verb |-> "other"])
      EXCEPT !.riskScore = risk, !.production = production] :
     risk \in {74, 75, 89, 90}, production \in BOOLEAN}

Asked ==
  {ToolQuestion(r) : r \in MCToolRequest}
    \union {ExecutiveQuestion(a) : a \in MCExecutiveAction}
    \union {ConfigQuestion, DataQuestion}

MCInput == Risky \union Asked

\* Freeze everything; trust executives at the priority of the rule for sensitive
\* actions; break the glass for everything.
MCCustomRule ==
  [freeze |-> [priority |-> 200, on |-> MCInput, outcome |-> "DENY"],
   trust |-> [priority |-> 70, on |-> {i \in MCInput : "EXECUTIVE" \in i.roles},
              outcome |-> "ALLOW"],
   glass |-> [priority |-> 90, on |-> MCInput, outcome |-> "ALLOW"]]

=============================================================================
