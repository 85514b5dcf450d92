--------------------------- MODULE ScheduleProofs ---------------------------
(***************************************************************************)
(* What FanoutProofs proves of a schedule in general, for the four that    *)
(* MCSchedules gives to TLC.                                               *)
(***************************************************************************)
EXTENDS MCSchedules, TLAPS

-----------------------------------------------------------------------------
(* The constants of the schedules.                                         *)

LEMMA Queries3Type ==
  ASSUME NEW may, NEW disableds, NEW q \in Queries3(may, disableds)
  PROVE  q.disabled \in disableds /\ \A a \in 1..3 : q.outcome[a] \in may[a]
<1>1. PICK x \in may[1], y \in may[2], z \in may[3], d \in disableds :
        q = [outcome |-> <<x, y, z>>, disabled |-> d]
  BY DEF Queries3
<1>. QED
  BY <1>1

LEMMA Queries4Type ==
  ASSUME NEW may, NEW disableds, NEW q \in Queries4(may, disableds)
  PROVE  q.disabled \in disableds /\ \A a \in 1..4 : q.outcome[a] \in may[a]
<1>1. PICK x \in may[1], y \in may[2], z \in may[3], t \in may[4], d \in disableds :
        q = [outcome |-> <<x, y, z, t>>, disabled |-> d]
  BY DEF Queries4
<1>. QED
  BY <1>1

-----------------------------------------------------------------------------
(* weimi                                                                   *)

LEMMA WeimiType ==
  /\ Weimi!Acc = 1..3 /\ Weimi!N = 3
  /\ \A a \in 1..3 : WeimiTuples[a].judge \in Weimi!JudgeNames
  /\ Weimi!QueriesType
  /\ Weimi!AllWaitForAll
<1>1. Weimi!Acc = 1..3 /\ Weimi!N = 3
  BY DEF Weimi!Acc, Weimi!N, WeimiTuples, Tuples
<1>2. \A a \in 1..3 : WeimiTuples[a].judge = "wait_for_all"
  BY DEF WeimiTuples, Tuples
<1>3. Weimi!QueriesType
  <2>1. ASSUME NEW q \in WeimiQueries, NEW a \in 1..3
        PROVE  q.outcome[a] # Raise => q.outcome[a] # <<>>
    <3>. DEFINE may == <<{Nothing("weimi"), Raise, <<R("OP", "weimi_category")>>,
                          <<R("o1", "weimi_order"), R("o2", "weimi_order")>>,
                          <<R("f1", "weimi_faq"), R("f2", "weimi_faq"), R("f3", "weimi_faq")>>},
                         {Nothing("weather"), <<R("w", "weather")>>},
                         {Nothing("web_search"), Web(TRUE), Web(FALSE)}>>
    <3>1. q.outcome[a] \in may[a]
      BY Queries3Type DEF WeimiQueries
    <3>2. \A x \in may[a] : x # Raise => x # <<>>
      BY a \in {1, 2, 3} DEF Nothing, Web
    <3>. QED
      BY <3>1, <3>2
  <2>2. ASSUME NEW q \in WeimiQueries
        PROVE  q.disabled \subseteq 1..3
    BY Queries3Type, {2} \subseteq 1..3 DEF WeimiQueries
  <2>. QED
    BY <2>1, <2>2, <1>1 DEF Weimi!QueriesType, Weimi!Missing
<1>. QED
  BY <1>1, <1>2, <1>3 DEF Weimi!AllWaitForAll, Weimi!JudgeNames

LEMMA WeimiInvariant ==
  /\ Weimi!Init => Weimi!WaitInv
  /\ Weimi!WaitInv /\ [Weimi!Next]_(Weimi!vars) => Weimi!WaitInv'
  /\ Weimi!WaitInv => Weimi!EarlyReturnSound /\ Weimi!NoStraggler
<1>1. Weimi!Init => Weimi!WaitInv
  BY WeimiType, Weimi!WaitInit
<1>2. Weimi!WaitInv /\ [Weimi!Next]_(Weimi!vars) => Weimi!WaitInv'
  BY WeimiType, Weimi!WaitNext
<1>3. Weimi!WaitInv => Weimi!EarlyReturnSound /\ Weimi!NoStraggler
  BY WeimiType, Weimi!WaitNoStraggler DEF Weimi!WaitInv
<1>. QED
  BY <1>1, <1>2, <1>3

-----------------------------------------------------------------------------
(* show                                                                    *)

LEMMA ShowType ==
  /\ Show!Acc = 1..3 /\ Show!N = 3
  /\ \A a \in 1..3 : ShowTuples[a].judge \in Show!JudgeNames
  /\ Show!QueriesType
  /\ Show!AllHighestPriority
  /\ Show!ShowResults(ShowAnswers)
<1>1. Show!Acc = 1..3 /\ Show!N = 3
  BY DEF Show!Acc, Show!N, ShowTuples, Tuples
<1>2. \A a \in 1..3 : ShowTuples[a].judge = "highest_priority"
  BY DEF ShowTuples, Tuples
<1>3. \A a \in 1..3 : ShowTuples[a].name \in {"special_skill", "weather", "web_search"}
  BY \A a \in 1..3 : a \in {1, 2, 3} DEF ShowTuples, Tuples
<1>4. ASSUME NEW q \in ShowQueries, NEW a \in 1..3
      PROVE  q.disabled \subseteq 1..3 /\ q.outcome[a] # <<>> /\ q.outcome[a] \in Seq(ShowAnswers)
  <2>. DEFINE from == ShowTuples[a].name
  <2>1. q.disabled \subseteq 1..3
    BY Queries3Type, {1} \subseteq 1..3 DEF ShowQueries
  <2>2. q.outcome[a] \in {Nothing(from), <<R(from, from)>>, <<R("same", from), R(from, from)>>}
    BY Queries3Type DEF ShowQueries
  <2>3. R(NoAnswer, from) \in ShowAnswers /\ R(from, from) \in ShowAnswers
        /\ R("same", from) \in ShowAnswers
    BY <1>3 DEF ShowAnswers
  <2>. HIDE DEF from
  <2>4. \A x \in ShowAnswers, y \in ShowAnswers : <<x>> \in Seq(ShowAnswers) /\ <<x, y>> \in Seq(ShowAnswers)
    OBVIOUS
  <2>5. q.outcome[a] # <<>>
    BY <2>2 DEF Nothing
  <2>6. q.outcome[a] \in Seq(ShowAnswers)
    BY <2>2, <2>3, <2>4 DEF Nothing
  <2>. QED
    BY <2>1, <2>5, <2>6
<1>5. ASSUME NEW a \in 1..3 PROVE Show!NoResult(a) \in ShowAnswers
  <2>1. Show!NoResult(a) = R(NoAnswer, ShowTuples[a].name)
    BY DEF Show!NoResult, R
  <2>. QED
    BY <2>1, <1>3 DEF ShowAnswers
<1>. QED
  BY <1>1, <1>2, <1>4, <1>5, RaiseIsNoList
  DEF Show!AllHighestPriority, Show!JudgeNames, Show!QueriesType, Show!Missing, Show!ShowResults

LEMMA ShowInvariant ==
  /\ Show!Init => Show!ShowInv(ShowAnswers)
  /\ Show!ShowInv(ShowAnswers) /\ [Show!Next]_(Show!vars) => Show!ShowInv(ShowAnswers)'
  /\ Show!ShowInv(ShowAnswers) => Show!ShowHeadFinal
<1>1. Show!Init => Show!ShowInv(ShowAnswers)
  BY ShowType, Show!ShowInit
<1>2. Show!ShowInv(ShowAnswers) /\ [Show!Next]_(Show!vars) => Show!ShowInv(ShowAnswers)'
  BY ShowType, Show!ShowNext
<1>. QED
  BY <1>1, <1>2 DEF Show!ShowInv
-----------------------------------------------------------------------------
(* qcloud                                                                  *)

LEMMA QcloudType ==
  /\ Qcloud!Acc = 1..4 /\ Qcloud!N = 4
  /\ \A a \in 1..4 : QcloudTuples[a].judge \in Qcloud!JudgeNames
  /\ Qcloud!QueriesType
  /\ Qcloud!AllForQcloud
  /\ Qcloud!OneQrobot
<1>1. Qcloud!Acc = 1..4 /\ Qcloud!N = 4
  BY DEF Qcloud!Acc, Qcloud!N, QcloudTuples, Tuples
<1>2. \A a \in 1..4 : QcloudTuples[a].judge = "highest_priority_for_qcloud"
  BY DEF QcloudTuples, Tuples
<1>3. \A a \in 1..4 : QcloudTuples[a].name = "qrobot" <=> a = 4
  BY \A a \in 1..4 : a \in {1, 2, 3, 4} DEF QcloudTuples, Tuples
<1>4. ASSUME NEW q \in QcloudQueries, NEW a \in 1..4
      PROVE  /\ q.disabled = {} /\ q.outcome[a] # <<>>
             /\ q.outcome[a][1].from = "qrobot" => a = 4
  <2>. DEFINE may == <<{Nothing("weather"), <<R("w", "weather")>>},
                       {Nothing("haomatong"), <<R("h", "haomatong")>>},
                       {Nothing("web_search"), Web(TRUE), Web(FALSE)},
                       {Nothing("qrobot"), Qrobot(1), Qrobot(2), Qrobot(4)}>>
  <2>1. q.disabled = {} /\ q.outcome[a] \in may[a]
    BY Queries4Type DEF QcloudQueries
  <2>2. \A x \in may[a] : x # <<>>
    BY a \in {1, 2, 3, 4} DEF Nothing, Web, Qrobot
  <2>3. \A x \in may[a] : x[1].from = "qrobot" => a = 4
    BY a \in {1, 2, 3, 4} DEF Nothing, Web, Qrobot, R
  <2>. QED
    BY <2>1, <2>2, <2>3
<1>5. Qcloud!OneQrobot
  BY <1>1, <1>3, <1>4 DEF Qcloud!OneQrobot, Qcloud!QrobotOutcome
<1>. QED
  BY <1>1, <1>2, <1>4, <1>5
  DEF Qcloud!AllForQcloud, Qcloud!JudgeNames, Qcloud!QueriesType, Qcloud!Missing

LEMMA QcloudInvariant ==
  /\ Qcloud!Init => Qcloud!QcloudInv
  /\ Qcloud!QcloudInv /\ [Qcloud!Next]_(Qcloud!vars) =>
       Qcloud!QcloudInv' /\ [Qcloud!LosesOnlyQrobot]_(Qcloud!vars)
<1>1. Qcloud!Init => Qcloud!QcloudInv
  BY QcloudType, Qcloud!QcloudInit
<1>2. Qcloud!QcloudInv /\ [Qcloud!Next]_(Qcloud!vars) => Qcloud!QcloudInv'
  BY QcloudType, Qcloud!QcloudNext
<1>3. Qcloud!QcloudInv /\ [Qcloud!Next]_(Qcloud!vars) => [Qcloud!LosesOnlyQrobot]_(Qcloud!vars)
  BY QcloudType, Qcloud!QcloudStep
<1>. QED
  BY <1>1, <1>2, <1>3

-----------------------------------------------------------------------------
(* The mix of judges                                                       *)

LEMMA MixedType ==
  /\ Mixed!Acc = 1..3 /\ Mixed!N = 3
  /\ \A a \in 1..3 : MixedTuples[a].judge \in Mixed!JudgeNames
  /\ Mixed!QueriesType
  /\ Mixed!OwnChannels
<1>1. Mixed!Acc = 1..3 /\ Mixed!N = 3
  BY DEF Mixed!Acc, Mixed!N, MixedTuples
<1>2. \A a \in 1..3 : MixedTuples[a].judge \in Mixed!JudgeNames
  BY \A a \in 1..3 : a \in {1, 2, 3} DEF MixedTuples, Mixed!JudgeNames
<1>3. \A a \in 1..3 : MixedTuples[a].name # "default"
  BY \A a \in 1..3 : a \in {1, 2, 3} DEF MixedTuples
<1>4. ASSUME NEW q \in MixedQueries
      PROVE  /\ q.disabled \subseteq 1..3
             /\ \A a \in 1..3 : q.outcome[a] \in MayReturn(MixedTuples[a].name)
  BY Queries3Type DEF MixedQueries, Distinct
<1>5. ASSUME NEW from, from # "default", NEW list \in MayReturn(from), list # Raise
      PROVE  list # <<>> /\ Mixed!OwnAnswers(list)
  <2>1. list # <<>> /\ (DOMAIN list = 1..1 \/ DOMAIN list = 1..2)
    BY <1>5 DEF MayReturn, Nothing
  <2>2. \A k \in DOMAIN list : list[k].from = from
    BY <1>5, \A k \in 1..2 : k \in {1, 2} DEF MayReturn, Nothing, R
  <2>. QED
    BY <2>1, <2>2, <1>5 DEF Mixed!OwnAnswers
<1>. QED
  BY <1>1, <1>2, <1>3, <1>4, <1>5 DEF Mixed!QueriesType, Mixed!Missing, Mixed!OwnChannels

LEMMA MixedInvariant ==
  /\ Mixed!Init => Mixed!SilentInv
  /\ Mixed!SilentInv /\ [Mixed!Next]_(Mixed!vars) => Mixed!SilentInv'
  /\ Mixed!SilentInv => Mixed!DefaultOnlyWhenSilent
<1>1. Mixed!Init => Mixed!SilentInv
  BY MixedType, Mixed!SilentInit
<1>2. Mixed!SilentInv /\ [Mixed!Next]_(Mixed!vars) => Mixed!SilentInv'
  BY MixedType, Mixed!SilentNext DEF Mixed!DefaultSelectors
<1>. QED
  BY <1>1, <1>2 DEF Mixed!SilentInv

-----------------------------------------------------------------------------
(* A request under one of the four, whatever else the behaviour may be of. *)

SchedulesInv ==
  /\ schedule = "weimi"  => Weimi!WaitInv
  /\ schedule = "show"   => Show!ShowInv(ShowAnswers)
  /\ schedule = "qcloud" => Qcloud!QcloudInv
  /\ schedule = "mixed"  => Mixed!SilentInv

LEMMA SchedulesInit == AnyInit => SchedulesInv
BY WeimiInvariant, ShowInvariant, QcloudInvariant, MixedInvariant DEF AnyInit, SchedulesInv

\* The request takes a step of its schedule, or none.
LEMMA ScheduleSteps ==
  ASSUME [AnyNext]_everything
  PROVE  /\ UNCHANGED schedule
         /\ schedule = "weimi"  => [Weimi!Next]_(Weimi!vars)
         /\ schedule = "show"   => [Show!Next]_(Show!vars)
         /\ schedule = "qcloud" => [Qcloud!Next]_(Qcloud!vars)
         /\ schedule = "mixed"  => [Mixed!Next]_(Mixed!vars)
BY DEF AnyNext, Asking, Gathering, Fetching, Weather, everything, request,
       Weimi!vars, Show!vars, Qcloud!vars, Mixed!vars

LEMMA SchedulesNext == SchedulesInv /\ [AnyNext]_everything => SchedulesInv'
BY ScheduleSteps, WeimiInvariant, ShowInvariant, QcloudInvariant, MixedInvariant DEF SchedulesInv

\* A request of weimi is answered with what its final slots say, and leaves
\* no accessor at work behind the reply (WaitsForAll).
THEOREM WeimiWaitsForAll == AnySpec => []WaitsForAll
<1>1. SchedulesInv => WaitsForAll
  BY WeimiInvariant DEF SchedulesInv, WaitsForAll
<1>. QED
  BY <1>1, SchedulesInit, SchedulesNext, PTL DEF AnySpec

\* A robot of show says first what it would have said first, and nothing it
\* would not have said, had it waited (ShowHeadFinal).
THEOREM ShowSaysTheSame == AnySpec => []ShowHeadFinal
<1>1. SchedulesInv => ShowHeadFinal
  BY ShowInvariant DEF SchedulesInv, ShowHeadFinal
<1>. QED
  BY <1>1, SchedulesInit, SchedulesNext, PTL DEF AnySpec

\* The mix of judges gives the default answer only when all its accessors
\* keep silent (DefaultOnlyWhenSilent).
THEOREM MixedIsSilent == AnySpec => []DefaultOnlyWhenSilent
<1>1. SchedulesInv => DefaultOnlyWhenSilent
  BY MixedInvariant DEF SchedulesInv, DefaultOnlyWhenSilent
<1>. QED
  BY <1>1, SchedulesInit, SchedulesNext, PTL DEF AnySpec

\* A reply of qcloud differs from that of a complete wait by a better answer
\* of qrobot that had not come, or not at all (QcloudLosesOnlyQrobot).
THEOREM QcloudLosesNoOther == AnySpec => QcloudLosesOnlyQrobot
<1>1. SchedulesInv /\ [AnyNext]_everything =>
        [schedule = "qcloud" => Qcloud!LosesOnlyQrobot]_everything
  <2>. SUFFICES ASSUME SchedulesInv, [AnyNext]_everything, schedule = "qcloud"
                PROVE  Qcloud!LosesOnlyQrobot \/ UNCHANGED everything
    OBVIOUS
  <2>1. [Qcloud!LosesOnlyQrobot]_(Qcloud!vars)
    BY ScheduleSteps, QcloudInvariant DEF SchedulesInv
  <2>2. UNCHANGED Qcloud!vars => Qcloud!LosesOnlyQrobot
    BY DEF Qcloud!vars, Qcloud!LosesOnlyQrobot
  <2>. QED
    BY <2>1, <2>2
<1>. QED
  BY <1>1, SchedulesInit, SchedulesNext, PTL DEF AnySpec, QcloudLosesOnlyQrobot
=============================================================================
