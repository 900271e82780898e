SPECIFICATION Spec
CONSTANTS
  Specs <- MCSpecs
  NeedsSecret = {"kucoin"}
  NeedsPassphrase = {"kucoin"}
CHECK_DEADLOCK FALSE
INVARIANTS BlankIsSkipped
