SPECIFICATION Spec
CONSTANTS
  sovereign = sovereign
  metro = metro
  kek = kek
  tenantKek = tenantKek
  Service <- MCService
  KeyId <- MCKeyId
  Default = kek
  MaxIssued = 4
  MaxJobs = 2
  MaxKeys = 4
  MaxTime = 2
  Tenant = {"north", "south", "east"}
  Resource <- MCResource
  FederationAgreement <- MCFederationAgreement
  Payload <- MCPayload
  Build <- MCBuild
  Caller <- MCCaller
  AlertId = {"a1", "a2"}
  MaxBuilds = 2
  MaxFindings = 2
  MaxRecords = 3
SYMMETRY ServiceSymmetry
INVARIANT OneInForce
INVARIANT ViewsAgree
INVARIANT TrailAccounts
PROPERTY ImplementsVault
PROPERTY AccessMovesWithAgreements
