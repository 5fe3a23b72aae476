----------------------------- MODULE MCPlatform -----------------------------
EXTENDS Platform, TLC

CONSTANTS sovereign, metro,  \* services
          kek, tenantKek     \* ids of master keys

MCService == {sovereign, metro}
MCKeyId == {kek, tenantKek}

ServiceSymmetry == Permutations(MCService)

\* A prefix of the other resource, and nothing in common with it.
MCResource == {<<"reports">>, <<"reports", "q1">>, <<"payroll">>}

\* Both directions and a third tenant, every scope, every kind of end.
Between == {<<"north", "south">>, <<"south", "north">>, <<"north", "east">>}

MCFederationAgreement ==
  {[source |-> p[1], target |-> p[2], allowedResources |-> allowed, expiresAt |-> end] :
     p \in Between, allowed \in {{}, {<<"reports", "q1">>}, {<<"*">>}}, end \in {0, 1}}
    \union {[source |-> "north", target |-> "south",
             allowedResources |-> {<<"reports">>, <<"payroll">>}, expiresAt |-> NotADate]}

\* Clean, with a secret, with an advisory that counts and one that does not,
\* and bypasses that lack one thing each.
Clean == [secret |-> FALSE, advisories |-> {"MEDIUM"}, bypass |-> NoBypass]
Failing == [Clean EXCEPT !.secret = TRUE]
Full == [approved |-> TRUE, authorizedBy |-> "ciso", justificationTicket |-> "SEC-1"]

MCBuild ==
  {Clean, Failing, [Clean EXCEPT !.advisories = {"HIGH"}]}
    \union {[Failing EXCEPT !.bypass = b] :
              b \in {Full, [Full EXCEPT !.approved = FALSE], [Full EXCEPT !.authorizedBy = Nobody],
                     [Full EXCEPT !.justificationTicket = NoTicket]}}

MCCaller ==
  {[id |-> "operator", role |-> "SECURITY_OPERATOR"], [id |-> "guest", role |-> "UNPRIVILEGED_GUEST"]}

MCPayload == GovernanceRecords

=============================================================================
