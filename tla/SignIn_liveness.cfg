SPECIFICATION FairSpec
CONSTANTS
  Proc = {p1, p2}
  Key = {k1, k2}
  User = {u1, u2}
  None = None
  MaxFaults = 2
  MaxForgets = 0
  qaAAGUID <- MCAAGUID
  rpHash <- MCHash
  Coordinates <- MCNone
  Credentials <- MCNone
  Lengths <- MCNone
PROPERTY
  KeepsSigningIn
