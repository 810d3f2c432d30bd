SPECIFICATION Spec
CONSTANTS
  Names <- AllNames
  Kind <- KindOf
  Pk = "id"
  Cells <- TwoValues
  Queries <- Mean
  MaxRows = 2
  MaxViewRows = 2
  MaxInt = 7
  Scale = 6
  Null = Null
  NoView = NoView
CHECK_DEADLOCK FALSE
INVARIANTS AverageIsMean
