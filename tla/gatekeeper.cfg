SPECIFICATION Spec
CONSTANTS
  owner = owner
  developer = developer
  stranger = stranger
  Users <- MCUsers
  Allowed <- MCAllowed
  MinInterval = 2
  Never = Never
  MaxTime = 5
  MaxPending = 2
  MaxVerdicts = 4
INVARIANTS TypeOK Spacing ThrottledWithCause StrangersLeaveNoTrace
