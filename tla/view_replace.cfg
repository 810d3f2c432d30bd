SPECIFICATION Spec
CONSTANTS
  p1 = p1  p2 = p2  v1 = v1  v2 = v2  r1 = r1  c1 = c1  c2 = c2  new = new  prev = prev
  Procs = {p1}
  Names = {v1, v2}
  Tables = {r1}
  Cols = {c1, c2}
  Versions = {new, prev}
  VersionOf <- Alone
  ColsOf <- Columns
  Queries <- TwoColumns
  WriteFails = FALSE
  ReadFails = FALSE
  Crashes = FALSE
  MaxCreates = 2
  NoFile = NoFile  NoView = NoView
CHECK_DEADLOCK FALSE
INVARIANT ReplaceTakesEffect
