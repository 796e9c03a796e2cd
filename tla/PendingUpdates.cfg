SPECIFICATION Spec
CONSTANTS
  Admins = {a1}
  Flows = {f1, f2}
  MaxVersion = 2
  Contents = {"a", "b"}
  Uploads <- OneBundleEach
  None = None
SYMMETRY Symmetric
INVARIANTS TypeOK BytesMatchOffer PendingWasHanded
PROPERTY PendingRegressesOnlyWhenWithdrawn
