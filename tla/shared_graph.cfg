SPECIFICATION Spec
CONSTANTS
  MaxVertices = 4
  Source = 0
  Infinity = 6
  Pairs <- Complete
  Batches <- Short
  WeightedBatches <- ShortWeighted
  RankedBatches <- Rings
  Fractions <- TwoFractions
  Rounds = 2
  Attachments <- Together
  InitialCounts = {1}
INVARIANTS
  ComponentsMaintained
