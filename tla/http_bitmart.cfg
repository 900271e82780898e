SPECIFICATION Spec
CONSTANTS
  Settings <- MCSettings
  ClientErrors <- BitmartClientErrors
CHECK_DEADLOCK FALSE
INVARIANT GivesUpExhausted
