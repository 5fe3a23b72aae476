----------------------------- MODULE MCIdentity -----------------------------
EXTENDS Identity, TLC

CONSTANTS alice, bob  \* subjects and token holders

MCSubject == {alice, bob}
MCAsked == {0, 2, 9}

SubjectSymmetry == Permutations(MCSubject)

=============================================================================
