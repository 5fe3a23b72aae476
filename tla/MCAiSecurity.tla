---------------------------- MODULE MCAiSecurity ----------------------------
EXTENDS AiSecurity

Query(n) == [agent |-> "vega", session |-> "default-session", tool |-> "read",
             arguments |-> [top |-> "query", nested |-> n]]

\* Two calls that differ only inside of an object, one of another tool, one in
\* a session of its own, and one of another agent in the shared session.
MCToolCall ==
  {Query(1), Query(2),
   [Query(1) EXCEPT !.tool = "transfer_funds"],
   [Query(1) EXCEPT !.session = "session"],
   [Query(1) EXCEPT !.agent = "atlas"]}

\* Every combination of forms, with nothing, the weakest rule and all of them.
Hits == {{}, {"hypothetical_evil_bypass"}, Rule}
MCPrompt == [direct : Hits, leetspeak : Hits, rot13 : Hits, base64 : {{}, Rule}]

\* Phrases that overlap, contain each other and repeat themselves.
MCFingerprint == {<<"a", "b">>, <<"b", "a">>, <<"a", "b", "a">>, <<"a", "card">>}

MCOutput ==
  {<<"a">>, <<"a", "b">>, <<"a", "b", "a", "b">>, <<"a", "b", "a", "b", "a">>,
   <<"b", "a", "card", "ssn">>, <<"canary", "a">>, <<"private key", "a", "b">>,
   <<"api key", "database uri">>}

MCAgent == {"vega", "vega-ops"}

\* A policy that leaves nothing to ask, and one that forbids what was allowed.
MCToolPolicy ==
  {[denied |-> {}, approval |-> {}, allowed |-> {}, default |-> "ALLOW"],
   [denied |-> {"analyse_data"}, approval |-> {}, allowed |-> {}, default |-> "DENY"]}

MCAiRequest ==
  {[agent |-> "vega", violates |-> TRUE, sensitive |-> FALSE],
   [agent |-> "vega", violates |-> FALSE, sensitive |-> TRUE],
   [agent |-> "vega-ops", violates |-> FALSE, sensitive |-> FALSE]}

Analyse == [tool |-> "analyse_data", fits |-> TRUE]
Alert == [tool |-> "send_executive_alert", fits |-> TRUE]
Transfer == [tool |-> "transfer_funds", fits |-> TRUE]

MCModelOutput ==
  {[leaks |-> TRUE, toolCalls |-> <<Analyse>>]}
    \union {[leaks |-> FALSE, toolCalls |-> calls] :
              calls \in {<<>>, <<Analyse>>, <<Analyse, Alert>>, <<Alert, Transfer>>,
                         <<Analyse, [Analyse EXCEPT !.fits = FALSE]>>}}

=============================================================================
