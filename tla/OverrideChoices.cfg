SPECIFICATION Spec
CONSTANTS
  Requests = {r1, r2}
  Devices = {d1}
  Channels = {"production", "beta"}
  Production = "production"
  PluginVersions <- MCPluginVersions
  ChannelInputs <- OpenOnly
  Routes = {"setSelf", "unsetSelf", "link", "unlink", "postChannel", "upgrade"}
  NoVersion = NoVersion
  NoRow = NoRow
  NoChannel = NoChannel
  NoDevice = NoDevice
SYMMETRY RequestSymmetry
INVARIANT LastChoiceResolved
