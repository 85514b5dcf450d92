SPECIFICATION Spec
CONSTANTS
  Uploaders = {u1}
  Callers = {c1}
  MaxIssued = 3
INVARIANT StoredOnceQuiet
CHECK_DEADLOCK FALSE
