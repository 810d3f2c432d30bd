SPECIFICATION FairSpec
CONSTANTS
  p1 = p1  p2 = p2  a1 = a1
  foo = foo  bar = bar  lfoo = lfoo  lbar = lbar
  Procs = {p1, p2}
  Accounts = {a1}
  Texts = {foo, bar}
  Folds = {lfoo, lbar}
  Fold <- FoldFooBar
  Sizes <- SomeNone
  AccountOf <- OneAcc
  WithCache <- Mixed
  LongTtl = 1
  ShortTtl = 0
  MaxTime = 1
  MaxQueries = 1
  MaxLives = 1
  MaxLive = 2
  Hole = Hole  NoFile = NoFile  NoText = NoText  NoReport = NoReport
  NoKey = NoKey  NoAnswer = NoAnswer
CHECK_DEADLOCK FALSE
INVARIANT AnswerMatchesFold
PROPERTIES ImplementsService EveryQueryEnds EverySaveEnds
