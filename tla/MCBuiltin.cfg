\* The threads around one builtin, from its start to its destruction.
SPECIFICATION FairSpec
CONSTANTS
  Waiters = {t1, t2}
  Codes = {c0, c1}
  NoCode = NoCode
  Nobody = Nobody
  Worker = Worker
  Retries = 2
INVARIANTS
  TypeOK
  NoUseAfterFree
PROPERTIES
  WaitImplements
  NoLostWakeup
  DestroyEnds
