SPECIFICATION Spec
CONSTANTS
  Requests = {r1, r2}
  Apps = {app, beta}
  Builds = {b1, b2}
  Amounts = {1}
  LastDay = 2
  None = None
SYMMETRY Symmetric
INVARIANTS
  TypeOK
  DailyTotalsMatch
