SPECIFICATION Spec
CONSTANTS
  Years <- MCYears
  Begins <- MCBegins
  Spans <- MCSpans
CHECK_DEADLOCK FALSE
INVARIANTS CalculationsAllowed WholeMonth BybitMeetsMonth
PROPERTY MonthsInOrder
