SPECIFICATION FairSpec
CONSTANTS
  p1 = p1  p2 = p2
  Procs = {p1, p2}
  MaxLives = 2
  MayFail = TRUE
  Crashes = TRUE
  Blank = Blank  Cut = Cut  NoFile = NoFile
CHECK_DEADLOCK FALSE
INVARIANTS CredentialsAreWhole ConnectsAsGiven TemporaryIsNotKept
PROPERTY StartEnds
