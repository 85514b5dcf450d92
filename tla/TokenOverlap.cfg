SPECIFICATION Spec
CONSTANTS
  Uploaders = {u1, u2}
  Callers = {}
  MaxIssued = 3
PROPERTY ReliableToken
CHECK_DEADLOCK FALSE
