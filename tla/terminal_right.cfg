SPECIFICATION Spec
CONSTANTS
  Reports <- MCReports
  Letters <- MCLetters
  Wide <- MCWide
  DuringList <- MCDuring
  Scripts <- Statements
  Breaks <- MCBreaks
  MaxInputs = 3
  MaxStarts = 2
INVARIANTS
  OfferFitsTheWord
  OfferIsAnswered
  WithAgreesWithDesc
  
  TabPanicIsExplained
PROPERTY ImplementsDictionary
CHECK_DEADLOCK FALSE
