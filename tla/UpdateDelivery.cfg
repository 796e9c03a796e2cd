SPECIFICATION FairSpec
CONSTANTS
  Admins = {a1}
  Flows = {f1}
  MaxVersion = 2
  Contents = {"a", "b"}
  Uploads <- Gated
  None = None
PROPERTY NewestReleaseInstalled
