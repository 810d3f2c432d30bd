SPECIFICATION Spec
CONSTANTS
  p1 = p1  p2 = p2  v1 = v1  v2 = v2  r1 = r1  c1 = c1  c2 = c2  new = new  prev = prev
  Procs = {p1, p2}
  Names = {v1, v2}
  Tables = {r1}
  Cols = {c1, c2}
  Versions = {new, prev}
  VersionOf <- TwoVers
  ColsOf <- Columns
  Queries <- Some
  WriteFails = TRUE
  ReadFails = TRUE
  Crashes = TRUE
  MaxCreates = 3
  NoFile = NoFile  NoView = NoView
CHECK_DEADLOCK FALSE
INVARIANTS CreatedIsFound MemoryIsFile  ViewsAreDistinct
