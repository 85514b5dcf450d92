----------------------------- MODULE MCChatHub -----------------------------
(***************************************************************************)
(* Small deployments for TLC: the flags of the sources in SCHEDULES        *)
(* (src/bin/schedules.py) and the handlers of the services.                *)
(***************************************************************************)
EXTENDS ChatHub

Flag(session_manager, use_cache, group_skill) ==
  [use_session_manager |-> session_manager, use_cache |-> use_cache,
   use_intent |-> TRUE, use_blacklist |-> TRUE, use_whitelist |-> TRUE,
   group_skill |-> group_skill]

SCHEDULES ==
  [wechat     |-> Flag(TRUE, FALSE, FALSE),
   groupqa    |-> Flag(TRUE, FALSE, TRUE),
   qqgroup    |-> Flag(FALSE, TRUE, FALSE),
   aiplatform |-> Flag(FALSE, FALSE, FALSE),
   samsung    |-> [Flag(FALSE, FALSE, FALSE) EXCEPT !.use_intent = FALSE,
                     !.use_blacklist = FALSE, !.use_whitelist = FALSE]]

\* What the accessors say: of `chat`, a skill knows or nobody does; the lists
\* match `rude`, `name` and the bad question `dad`, of which the search knows
\* something.
Answer(from) == <<[answer |-> from, from |-> from, ugc |-> TRUE, level |-> 0]>>
Silent(from) == <<[answer |-> NoAnswer, from |-> from, ugc |-> TRUE, level |-> 0]>>

SayQueries == {"chat", "rude", "name"}

\* In a qqgroup, the search knows the news; knowledge, a channel that is not
\* cached, may know the fact.
QQQueries == {"news", "fact", "name"}

AllQueries == SayQueries \cup QQQueries \cup {"dad"}

Says ==
  [chat |-> {<<Answer("special_skill"), Silent("web_search")>>,
             <<Silent("special_skill"), Silent("web_search")>>},
   rude |-> {<<Silent("special_skill"), Answer("web_search")>>},
   name |-> {<<Silent("special_skill"), Answer("web_search")>>},
   dad  |-> {<<Silent("special_skill"), Answer("web_search")>>},
   news |-> {<<Silent("knowledge"), Answer("web_search")>>},
   fact |-> {<<Answer("knowledge"), Silent("web_search")>>,
             <<Silent("knowledge"), Silent("web_search")>>}]

\* Two workers of the wechat service, two of groupqa, one of qqgroup, and one
\* of tsinghua_robot, whose requests name their source; and one of wechat and
\* one of tsinghua_robot, u and v, whose redis fails now and then.
AllServes ==
  [w1 |-> {"wechat"}, w2 |-> {"wechat"}, g1 |-> {"groupqa"}, g2 |-> {"groupqa"},
   qq |-> {"qqgroup"}, ts |-> {"qqgroup", "samsung"},
   u |-> {"wechat"}, v |-> {"qqgroup"}]

AllSelectors ==
  [w1 |-> [wechat |-> "default"], w2 |-> [wechat |-> "default"],
   g1 |-> [groupqa |-> "group"], g2 |-> [groupqa |-> "group"],
   qq |-> [qqgroup |-> "group"],
   ts |-> [qqgroup |-> "tsinghua", samsung |-> "tsinghua"],
   u |-> [wechat |-> "default"], v |-> [qqgroup |-> "tsinghua"]]

AllProcs == DOMAIN AllServes

Workload(procs, queries, requests) ==
  [procs |-> procs, queries |-> queries, requests |-> requests]

WechatLoad == Workload({"w1", "w2"}, {"chat", "name"}, 3)
GroupLoad  == Workload({"g1", "g2"}, SayQueries, 2)
FaultLoad  == Workload({"u"}, {"chat", "name", "dad"}, 2)
CacheLoad  == Workload({"v"}, {"news"}, 2)
QQLoad     == Workload({"qq", "ts"}, QQQueries, 2)

AllLoads    == {WechatLoad, GroupLoad, QQLoad, FaultLoad, CacheLoad}
WechatLoads == {WechatLoad}
GroupLoads  == {GroupLoad}
=============================================================================
