SPECIFICATION Spec
CONSTANTS
  acc_tuples <- PriorityTuples
  Queries <- PriorityQueries
  Selector = "default"
  from_lang = "zh"
  DefaultAnswer = "default answer"
  NoAnswer = NoAnswer
  Raise = Raise
  Pending = Pending
INVARIANTS TypeOK EarlyReturnSound
PROPERTIES Implements EventuallyReplies
CHECK_DEADLOCK FALSE
