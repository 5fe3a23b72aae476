SPECIFICATION Spec
CONSTANTS
  alice = alice
  bob = bob
  Subject <- MCSubject
  Holder <- MCSubject
  Asked <- MCAsked
  Shortest = 1
  Longest = 3
  MaxRequests = 2
  ChallengeTtl = 1
  MaxChallenges = 1
  MaxAttempts = 2
  MaxTime = 4
SYMMETRY SubjectSymmetry
INVARIANT OneGrantPerApproval
INVARIANT FirstAssertionDecides
INVARIANT VerifiedBySubjectInTime
PROPERTY ElevationsAreLeases
PROPERTY RevokedForGood
