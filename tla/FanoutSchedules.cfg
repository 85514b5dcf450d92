SPECIFICATION AnySpec
CONSTANTS
  DefaultAnswer = "default answer"
  NoAnswer = NoAnswer
  Raise = Raise
  Pending = Pending
  Requests = {0, 1, 2}
  Bodies = {"hit", "miss"}
  Hits = {"hit"}
  None = None
  Primary = {1, 2}
  Secondary = {3}
  MaxRedirects = 1
  Askers = {a1, a2}
  Cities = {beijing}
  MaxDay = 2
  Null = Null
INVARIANTS WaitsForAll ShowHeadFinal DefaultOnlyWhenSilent InOrderOfArrival OwnBody CompleteAtEnd OnlineAlone OnDateAsked OneForecast NoStreamLeft
PROPERTIES QcloudLosesOnlyQrobot EventuallyReplies Returns AnsweredOnce CachedToday
CHECK_DEADLOCK FALSE
