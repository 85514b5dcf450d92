SPECIFICATION Spec
CONSTANTS
  Procs <- AllProcs
  Uids = {"alice", "bob"}
  Queries <- AllQueries
  MaxReq = 3
  MaxTurn = 4
  Workloads <- GroupLoads
  Schedule <- SCHEDULES
  Serves <- AllServes
  Selector <- AllSelectors
  Outcomes <- Says
  Channels = {"special_skill", "web_search", "knowledge", "default"}
  Blacklisted = {"rude"}
  Whitelisted = {"name", "dad"}
  BadQuestions = {"dad"}
  Unreliable = {"u", "v"}
  Callback = {"g1", "g2", "qq"}
  Overlap = FALSE
  NoAnswer = NoAnswer
  Raise = Raise
  DefaultAnswer = "default answer"
  Nobody = Nobody
  NoRecord = NoRecord
  Default = Default
INVARIANT WhitelistOwnSkill
CHECK_DEADLOCK FALSE
