SPECIFICATION Spec
CONSTANTS
  Requests = {r1, r2}
  Keys = {k1}
  MaxToken = 2
  Granted = {admin, reader}
  Admin = {admin}
  Orgs = {acme}
  NoRow = NoRow
  None = None
SYMMETRY RequestSymmetry
INVARIANT OldTokenRejected
