------------------------- MODULE MCPersistentLedger -------------------------
EXTENDS PersistentLedger, TLC

CONSTANTS p1, p2  \* payloads

MCPayload == {p1, p2}

PayloadSymmetry == Permutations(MCPayload)

AllFaults == Faults

NoFaults == {}

OnlyTorn == {"fragment"}

=============================================================================
