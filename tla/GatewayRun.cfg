CONSTANTS
  Tools = {t1}
  Disabled = 0
  Admin = Admin
  MaxPosts = 2
SPECIFICATION FairSpec
CHECK_DEADLOCK FALSE
INVARIANT NoSenderBlocks
PROPERTIES FailedListenerEndsRun ShutdownEnds
