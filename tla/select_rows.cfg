SPECIFICATION Spec
CONSTANTS
  Names <- AllNames
  Kind <- KindOf
  Pk = "id"
  Cells <- TwoValues
  Queries <- OfAll
  MaxRows = 3
  MaxViewRows = 2
  MaxInt = 7
  Scale = 1
  Null = Null
  NoView = NoView
CHECK_DEADLOCK FALSE
INVARIANTS GroupsAreRight SumsAreRight WindowIsShown  PanicIsExplained ViewHolds 
