SPECIFICATION FairSpec
CONSTANTS
    Slots = 3
    Setup <- BothModes
    Op = {"read", "rank", "save", "load"}
    MaxQueries = 5
CHECK_DEADLOCK FALSE
INVARIANTS Pipeline NeverInLimbo SuccessMeansStored StoredOnce StatusTruthful LoadedOnce
PROPERTIES AnswerFinal ImplementsService ShutdownReturns
