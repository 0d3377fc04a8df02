SPECIFICATION Spec
CONSTANTS
  Page = {p1}
  SelfKey = {name}
  GovKey = {passport}
  name = name
  passport = passport
  None = None
  Asks <- MCEveryAsk
  Shape = {"absent", "value", "vc"}
  MaxReports = 1
INVARIANT
  TypeOK
PROPERTY
  ReportIsWhatArrived
