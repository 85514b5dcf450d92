SPECIFICATION Spec
CONSTANTS
  Uploaders = {u1}
  Callers = {}
  MaxIssued = 1
INVARIANT SecondAttemptNever
CHECK_DEADLOCK FALSE
