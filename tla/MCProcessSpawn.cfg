\* Both builds.
SPECIFICATION FairSpec
CONSTANTS
  Threads = {t1, t2}
  NoThread = NoThread
  SpawnRetry = 1
  ExecTries = 2
INVARIANTS
  TypeOK
  NoLeak
  NeverBusy
PROPERTY
  EveryCallEnds
