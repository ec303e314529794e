CONSTANTS
  Asks <- TwiceAsking
  Conflicts <- LiveCommits
  Uploads <- Transfers
  Calls <- NcmRejected
SPECIFICATION ShellSpec
INVARIANT NcmCommandsInNcm
CHECK_DEADLOCK FALSE
