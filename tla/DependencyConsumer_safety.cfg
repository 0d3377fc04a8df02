SPECIFICATION Spec
CONSTANTS
  Req = {r1, r2}
  Host <- MCHost
  App <- MCApp
  Build = {v1, v2}
  AppOf <- MCAppOf
  Url <- MCUrl
  DefaultHost = dep
  Declarations <- MCDeclarations
  Elsewhere = Elsewhere
  None = None
  MaxRedeploys = 1
  dep = dep
  other = other
  provider = provider
  stranger = stranger
  v1 = v1
  v2 = v2
SYMMETRY Symmetry
INVARIANTS
  TypeOK
  PromptOnlyToDeclared
  RefusalReleasesNothing
  EgressVerifiedTruthful
  IdentityAccepted
PROPERTY
  PromiseKept
CHECK_DEADLOCK FALSE
