CONSTANTS
  Width = 4
  NearEnd = 3
  MaxOffset = 3
  MaxPairs = 2
  MaxStarts = 2
  MaxComments = 1
  MaxEdits = 2
  Names <- MCNames
  Values <- MCValues
  FewValues <- MCFewValues
  NewValues <- MCNewValues
  Remarks <- MCRemarks
  Comments <- MCComments
  HandWritten <- MCHandWritten
SPECIFICATION Spec
INVARIANTS
  RoundTrip
  CommentsKept
  EditsKept
CHECK_DEADLOCK FALSE
