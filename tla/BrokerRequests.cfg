SPECIFICATION FairSpec
CONSTANTS
  pa = pa
  sub = sub
  cron = cron
  p1 = p1
  p2 = p2
  None = None
  Cron = cron
  Stoppable <- NoIdentity
  PAs <- OnePA
  Subs <- NoIdentity
  Proc <- TwoProcs
  MaxInbox = 1
  Oldest = "fresh"
  MaxMail = 1
CHECK_DEADLOCK FALSE
PROPERTIES
  RunningEnds
  DeathIsNoticed
