SPECIFICATION Spec
CONSTANTS
  MaxVertices = 4
  Source = 0
  Infinity = 6
  Pairs <- Complete
  Batches <- Short
  WeightedBatches <- ShortWeighted
  RankedBatches <- Rings
  Fractions <- TwoFractions
  Rounds = 2
  Attachments <- OneByOne
  InitialCounts = {1, 2}
INVARIANTS
  StructuresSound
  ComponentsMaintained
  CoresMaintained
  PathsMaintained
  WeightedMaintained
  RanksMaintained
  TrianglesMaintained
