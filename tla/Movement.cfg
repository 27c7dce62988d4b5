SPECIFICATION MCSpec
CONSTANTS
  None = None
  Junk = Junk
  Width = 4
  Height = 3
  Cells <- Grid
  Degrees = 4
  Child <- GridChild
  Line <- GridLine
  Distance <- GridDistance
  Cost <- GridCost
  Lands <- SomeLands
  Asked <- Back
  Reaches = {0, 2}
  Zeros <- SomeZeros
  MaxCalls = 2
  BucketsCount = 5
  BucketSize = 3
  LastBucketOverflow = 4
  SizeRange = 256
  Unit = 10
  Actors = {x, y}
  Spots = {1, 2}
  Sizes = {1, 2}
  Points = {1, 2, 3}
  Footprint <- Around1
  Bumpable = 1
  Rooted = 15
  StateRange = 256
  MaxChanges = 2
  Nil = Nil
INVARIANTS PathIsLegal NoPathMeansNoWay QueueHolds OccupantsStand
PROPERTIES PopsCheapest CrowdIsCounted SearchEnds
CHECK_DEADLOCK FALSE
