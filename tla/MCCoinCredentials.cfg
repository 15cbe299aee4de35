\* One credentials request, and the node it restarts.
SPECIFICATION FilesSpec
CONSTANTS
  MaxPosts = 2
  MaxReloads = 0
  MaxRecreates = 1
  MaxCrashes = 0
INVARIANT CredentialsReachNode
CHECK_DEADLOCK FALSE
