SPECIFICATION Spec
CONSTANTS
  Page = {p1, p2}
  SelfKey = {name}
  GovKey = {passport}
  name = name
  passport = passport
  None = None
  Asks <- MCAsks
  Shape = {"absent"}
  MaxReports = 2
SYMMETRY Symmetry
INVARIANTS
  SelectionIsTheCeiling
  HandedOutIsBillable
PROPERTY
  OwnReportIsShown
