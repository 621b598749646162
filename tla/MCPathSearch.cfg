SPECIFICATION Spec
CONSTANTS
  Names <- MCNames
  Order <- MCOrder
  Depth = 2
  StartLeaf <- A
  Jobs <- MCJobs
  Samples <- MCSamples
INVARIANTS
  FindsAll
  RaceTolerated
  DepthFirst
  MatchRight
