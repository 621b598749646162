CONSTANTS
  p = p
  q = q
  a = a
  b = b
  dest = dest
  other = other
  x = x
  y = y
  z = z
  Procs = {p, q}
  Names = {a, b, dest, other}
  None = None
  Chunks = {x, y, z}
  Hole = Hole
  Bits = {"user", "group"}
  Umask = {"group"}
  Device <- MCDevice
  Now = 50
  Jobs <- MCJobs
  Starts <- MCStarts
SPECIFICATION Spec
INVARIANTS
  MoveKeeps
  CopyOutcome
  OldKept
  WinnerKeeps
