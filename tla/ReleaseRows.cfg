SPECIFICATION Spec
CONSTANTS
  Requests = {r1, r2}
  Platforms = {"ios", "android"}
  Targets <- MCTargets
  Channels = {"production"}
  Production = "production"
  Versions = {1}
  Contents = {x1, x2}
  ChannelInputs <- NoInputs
  Routes = {"createApp", "v1CreateApp", "deleteApp", "v1Upload", "postBundle", "deleteBundle", "deleteChannel"}
  NoContent = NoContent
  NoRow = NoRow
  NoKey = NoKey
SYMMETRY StoreSymmetry
INVARIANTS RowsMatchBundles IntactUploads
PROPERTY ImplementsCatalog
