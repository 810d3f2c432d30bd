SPECIFICATION Spec
CONSTANTS
  p1 = p1  p2 = p2  a1 = a1
  foo = foo  bar = bar  lfoo = lfoo  lbar = lbar
  Procs = {p1}
  Accounts = {a1}
  Texts = {foo}
  Folds = {lfoo}
  Fold <- FoldFoo
  Sizes <- FooRows
  AccountOf <- OneAcc
  WithCache <- Cached
  LongTtl = 1
  ShortTtl = 0
  MaxTime = 0
  MaxQueries = 2
  MaxLives = 1
  MaxLive = 1
  Hole = Hole  NoFile = NoFile  NoText = NoText  NoReport = NoReport
  NoKey = NoKey  NoAnswer = NoAnswer
CHECK_DEADLOCK FALSE
INVARIANT HitIsWhole
