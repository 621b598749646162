\* The descriptors of a builtin whose thread creation is retried.
SPECIFICATION FairSpec
CONSTANTS
  Waiters = {t1}
  Codes = {c0}
  NoCode = NoCode
  Nobody = Nobody
  Worker = Worker
  Retries = 2
INVARIANT
  RunsOnGiven
