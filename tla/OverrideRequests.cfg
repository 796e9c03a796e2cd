SPECIFICATION Spec
CONSTANTS
  Requests = {r1, r2}
  Devices = {d1}
  Channels = {"production"}
  Production = "production"
  PluginVersions <- KvAndNone
  ChannelInputs <- MCChannelInputs
  Routes = {"setSelf", "link", "update", "deleteChannel", "postChannel", "upload", "deleteBundle", "createApp"}
  NoVersion = NoVersion
  NoRow = NoRow
  NoChannel = NoChannel
  NoDevice = NoDevice
SYMMETRY RequestSymmetry
VIEW ListedAndServed
INVARIANTS TypeOK AssignedChannelsListed
 
