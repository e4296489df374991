SPECIFICATION Spec
CONSTANTS
  pa = pa
  sub = sub
  cron = cron
  p1 = p1
  p2 = p2
  None = None
  Cron = cron
  Stoppable <- OnePA
  PAs <- OnePA
  Subs <- OneSub
  Proc <- TwoProcs
  MaxInbox = 1
  Oldest = "idle"
  MaxMail = 1
CHECK_DEADLOCK FALSE
SYMMETRY Symmetry
INVARIANTS
  NoOrphan
  DownMeansNoWorkers
PROPERTIES
  EntryOutlivesProcess
  ImplementsSessionWorkers
