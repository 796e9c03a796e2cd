SPECIFICATION Spec
CONSTANTS
  Requests = {r1, r2, r3}
  Platforms = {"ios"}
  Targets <- MCTargets
  Channels = {"production", "beta"}
  Production = "production"
  Versions = {}
  Contents = {x1}
  ChannelInputs <- MCChannelInputs
  Routes = {"createApp", "v1CreateApp", "postChannel", "deleteChannel"}
  NoContent = NoContent
  NoRow = NoRow
  NoKey = NoKey
SYMMETRY RequestSymmetry
INVARIANTS TypeOK PublicOverlapOnlyByRace FreshPromotions
