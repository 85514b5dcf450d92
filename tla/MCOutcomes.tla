----------------------------- MODULE MCOutcomes -----------------------------
(***************************************************************************)
(* Small schedules for TLC, each with the judges of one of SCHEDULES       *)
(* (src/bin/schedules.py) and an accessor or two of each kind, and what    *)
(* their accessors may return.                                             *)
(***************************************************************************)
EXTENDS Naturals, Sequences

CONSTANTS NoAnswer, Raise

Tuples(names, judge) == [a \in DOMAIN names |-> [name |-> names[a], judge |-> judge]]

R(answer, from) == [answer |-> answer, from |-> from, ugc |-> TRUE, level |-> 0]

Nothing(from) == <<R(NoAnswer, from)>>

MayReturn(from) == {Nothing(from), <<R(from, from)>>, <<R(NoAnswer, from), R(from, from)>>, Raise}

\* Every combination of what three or four accessors may return.
Queries3(may, disableds) ==
  {[outcome |-> <<x, y, z>>, disabled |-> d] :
     x \in may[1], y \in may[2], z \in may[3], d \in disableds}

Queries4(may, disableds) ==
  {[outcome |-> <<x, y, z, t>>, disabled |-> d] :
     x \in may[1], y \in may[2], z \in may[3], t \in may[4], d \in disableds}

\* What a disabled accessor would have returned does not matter.
Distinct(queries) == {q \in queries : \A a \in q.disabled : q.outcome[a] = Raise}

\* wechat, gd_mobile, aiplatform, afanti, tsinghua_robot, ...
PriorityTuples == Tuples(<<"skill_platform", "weather", "web_search", "generate">>,
                         "highest_priority")

PriorityQueries ==
  Distinct(Queries4([a \in 1..4 |-> MayReturn(PriorityTuples[a].name)], SUBSET (1..4)))

\* weimi: several weimi answers of different kinds, then VR and web_search
WeimiTuples == Tuples(<<"weimi", "weather", "web_search">>, "wait_for_all")

Web(ugc) == <<[answer |-> "ws", from |-> "web_search", ugc |-> ugc, level |-> 0]>>

WeimiQueries ==
  Queries3(<<{Nothing("weimi"), Raise, <<R("OP", "weimi_category")>>,
             <<R("o1", "weimi_order"), R("o2", "weimi_order")>>,
             <<R("f1", "weimi_faq"), R("f2", "weimi_faq"), R("f3", "weimi_faq")>>},
             {Nothing("weather"), <<R("w", "weather")>>},
             {Nothing("web_search"), Web(TRUE), Web(FALSE)}>>,
           {{}, {2}})

\* yzdd_onsite, common_show: two accessors may give the same answer
ShowTuples == Tuples(<<"special_skill", "weather", "web_search">>, "highest_priority")

ShowQueries ==
  Queries3([a \in 1..3 |->
              LET from == ShowTuples[a].name
              IN {Nothing(from), <<R(from, from)>>, <<R("same", from), R(from, from)>>}],
           {{}, {1}})

\* The results among these lists, and what stands for an accessor without any.
ShowAnswers ==
  {R(answer, from) : answer \in {NoAnswer, "same", "special_skill", "weather", "web_search"},
                     from \in {"special_skill", "weather", "web_search"}}

ASSUME RaiseIsNoList == Raise \notin Seq(ShowAnswers)

\* qcloud
QcloudTuples ==
  Tuples(<<"weather", "haomatong", "web_search", "qrobot">>, "highest_priority_for_qcloud")

Qrobot(level) == <<[answer |-> "qr", from |-> "qrobot", ugc |-> TRUE, level |-> level]>>

QcloudQueries ==
  Queries4(<<{Nothing("weather"), <<R("w", "weather")>>},
             {Nothing("haomatong"), <<R("h", "haomatong")>>},
             {Nothing("web_search"), Web(TRUE), Web(FALSE)},
             {Nothing("qrobot"), Qrobot(1), Qrobot(2), Qrobot(4)}>>,
           {{}})

\* test, and the judge no schedule uses
MixedTuples == <<[name |-> "generate",   judge |-> "wait_for_all"],
                 [name |-> "web_search", judge |-> "highest_priority"],
                 [name |-> "weather",    judge |-> "first_with_res"]>>

MixedQueries ==
  Distinct(Queries3([a \in 1..3 |-> MayReturn(MixedTuples[a].name)], SUBSET (1..3)))
=============================================================================
