SPECIFICATION Spec
CONSTANTS
  Proc = {p1, p2}
  Key = {k1, k2, k3}
  User = {u1, u2, u3, u4}
  None = None
  MaxFaults = 2
  MaxForgets = 1
  qaAAGUID <- MCAAGUID
  rpHash <- MCHash
  Coordinates <- MCCoordinates
  Credentials <- MCCredentials
  Lengths <- MCLengths
SYMMETRY Symmetry
INVARIANTS
  TypeOK
  PersistedCredentialEnrolled
  EnrolledKeysBounded
  DeliveredForAuthenticatedUser
  RegistrationReadsBack
  RefusedOnlyWhenForgotten
PROPERTY
  SessionsKept
