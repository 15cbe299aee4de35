\* Two requests of any kind beside the installer's settings, one start of the coin beside
\* a key request's, a new container, and a crash or a failed write, at any step.
SPECIFICATION FilesSpec
CONSTANTS
  MaxPosts = 3
  MaxReloads = 1
  MaxRecreates = 1
  MaxCrashes = 1
INVARIANTS SavedStays PubkeyShown RestartNotForgotten
CHECK_DEADLOCK FALSE
