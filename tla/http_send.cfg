SPECIFICATION FairSpec
CONSTANTS
  Settings <- MCSettings
  ClientErrors <- BitgetClientErrors
CHECK_DEADLOCK FALSE
INVARIANTS TypeOK AttemptsBounded OnlyTransientRepeated GivesUpExhausted PausesBounded SignatureOutlastsPauses
PROPERTY Terminates
