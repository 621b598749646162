\* Both implementations of xsputn(), with strings of up to twice the put area
\* and one character, so that every way to write them happens.
SPECIFICATION Spec
CONSTANTS
  Byte = {b1, b2}
  Hole = Hole
  Cap = 2
  FileMax = 3
  MaxChunk = 5
  Builds = {"posix", "win"}
SYMMETRY Symmetry
INVARIANTS
  BufferBound
  Intact
  CloseDurable
PROPERTY
  Implements
