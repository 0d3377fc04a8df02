SPECIFICATION Spec
CONSTANTS
  Run = {r1, r2}
  Client = {c1, c2, c3, c4}
  Label = {probe}
  Whitelist = {narrow, wide}
  None = None
  MaxFaults = 2
  MaxDrifts = 1
SYMMETRY Symmetry
INVARIANTS
  TypeOK
  ExactCeiling
  PileBounded
  SecretOfItsOwn
PROPERTY
  LeasesKept
