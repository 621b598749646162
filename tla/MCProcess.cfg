\* A child that writes up to two chunks to a pipe that holds one, and a
\* timed_wait() of up to two sleeps.
SPECIFICATION FairSpec
CONSTANTS
  Caller = Caller
  NoCode = NoCode
  WaitFails = TRUE
  PipeCap = 1
  Output = 2
  Ticks = 2
INVARIANTS
  HandleMatchesChild
PROPERTIES
  WaitImplements
  CallEnds
