CONSTANTS
  Workers = {w1, w2}
  master = master
  None = None
  MaxHour = 3
  MaxRestarts = 1
CHECK_DEADLOCK FALSE
SPECIFICATION Spec
INVARIANTS TypeOK Exclusive NothingLost FiledByHour 
PROPERTY CatchUp
