SPECIFICATION Spec
CONSTANTS
  Proc = {p1}
  Key = {k1}
  User = {u1, u2}
  None = None
  MaxFaults = 0
  MaxForgets = 1
  qaAAGUID <- MCAAGUID
  rpHash <- MCHash
  Coordinates <- MCNone
  Credentials <- MCNone
  Lengths <- MCNone
INVARIANT
  ReEnrolsForgottenCredential
