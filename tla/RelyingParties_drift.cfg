SPECIFICATION Spec
CONSTANTS
  Run = {r1}
  Client = {c1, c2}
  Label = {probe}
  Whitelist = {narrow, wide}
  None = None
  MaxFaults = 0
  MaxDrifts = 1
PROPERTY
  DriftedNeverReused
