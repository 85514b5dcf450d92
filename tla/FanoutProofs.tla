---------------------------- MODULE FanoutProofs ----------------------------
(***************************************************************************)
(* Theorems about Fanout, for every schedule and every outcome of its      *)
(* accessors.                                                              *)
(***************************************************************************)
EXTENDS Fanout, Loops, TLAPS

\* Schedules whose judges are all highest_priority, as most of SCHEDULES.
AllHighestPriority == \A a \in Acc : acc_tuples[a].judge = "highest_priority"

\* Schedules that wait for all their accessors: weimi, board.
AllWaitForAll == \A a \in Acc : acc_tuples[a].judge = "wait_for_all"

\* The selectors that take the first answer by priority.
FirstAnswerSelectors == {"format", "default", "tsinghua", "aiplatform", "afanti"}

-----------------------------------------------------------------------------
(* Facts about the constants and the operators.                            *)

LEMMA NNat == N \in Nat /\ N > 0 /\ Acc = 1..N
BY AccTuples

-----------------------------------------------------------------------------
(* Type correctness.                                                       *)

LEMMA TypeInit == Init => TypeOK
<1>. SUFFICES ASSUME Init PROVE TypeOK
  OBVIOUS
<1>1. 1 \in 1..(N + 1)
  BY NNat
<1>2. acc_results = [a \in Acc |-> acc_results[a]]
  BY DEF Init
<1>3. disabled \subseteq Acc /\ \A a \in Acc : outcome[a] # Raise => ~Missing(outcome[a])
  BY QueriesType DEF Init
<1>. QED
  BY <1>1, <1>2, <1>3 DEF Init, TypeOK

LEMMA TypeFinish ==
  ASSUME TypeOK, NEW a \in Acc, Finish(a)
  PROVE  /\ acc_results' = [b \in Acc |-> acc_results'[b]]
         /\ acc_status' \in [Acc -> {"none", "disabled", "done", "timeout"}]
         /\ acc_finished' \subseteq Acc
         /\ evt' \in BOOLEAN
<1>1. acc_results' = [b \in Acc |-> acc_results'[b]]
  BY DEF TypeOK, Finish, Record
<1>2. acc_status' \in [Acc -> {"none", "disabled", "done", "timeout"}]
  BY DEF TypeOK, Finish, Record
<1>3. acc_finished' \subseteq Acc
  BY DEF TypeOK, Finish, Record
<1>4. evt' \in BOOLEAN
  BY DEF TypeOK, Finish, Judge
<1>. QED
  BY <1>1, <1>2, <1>3, <1>4

LEMMA TypeNext == TypeOK /\ [Next]_vars => TypeOK'
<1>. SUFFICES ASSUME TypeOK, [Next]_vars PROVE TypeOK'
  OBVIOUS
<1>1. ASSUME NEW a \in Acc, next = a, next' = a + 1
      PROVE  next' \in 1..(N + 1)
  BY <1>1, NNat
<1>2. ASSUME NEW a \in Acc, SkipDisabled(a) PROVE TypeOK'
  BY <1>1, <1>2 DEF SkipDisabled, TypeOK
<1>3. ASSUME NEW a \in Acc, Start(a) PROVE TypeOK'
  BY <1>1, <1>3 DEF Start, TypeOK
<1>4. ASSUME NEW a \in Acc, RunToEnd(a) PROVE TypeOK'
  BY <1>1, <1>4, TypeFinish DEF RunToEnd, TypeOK
<1>5. ASSUME NEW a \in Acc, Complete(a) PROVE TypeOK'
  BY <1>5, TypeFinish DEF Complete, TypeOK
<1>6. CASE Resume
  BY <1>6 DEF Resume, TypeOK
<1>7. CASE UNCHANGED vars
  BY <1>7 DEF vars, TypeOK
<1>. QED
  BY <1>2, <1>3, <1>4, <1>5, <1>6, <1>7 DEF Next, Loop

\* The state of a request keeps its shape: each slot a list, each status one
\* of the four the code writes, the loop never past its end (TypeOK).
THEOREM TypeCorrect == Spec => []TypeOK
<1>. QED
  BY TypeInit, TypeNext, PTL DEF Spec

-----------------------------------------------------------------------------
(* The list of results fills up with the final slots.                      *)

\* Every slot is empty or final; it is empty until the loop has reached its
\* accessor, and as long as the accessor is running.
SlotsFinal ==
  /\ \A a \in Acc : acc_results[a] \in {<<>>, Final[a]}
  /\ \A a \in Acc : a >= next \/ a \in running => Missing(acc_results[a])
  /\ \A a \in running : a < next /\ a \notin disabled

\* No step empties or rewrites a slot that has its list.
SlotsGrow == \A a \in Acc : ~Missing(acc_results[a]) => acc_results'[a] = acc_results[a]

LEMMA SlotsInit == Init => SlotsFinal
BY NNat DEF Init, SlotsFinal, Missing

\* An accessor that finishes fills its own slot with its final list.
LEMMA SlotsFill ==
  ASSUME TypeOK, NEW a \in Acc, a \notin disabled, Finish(a)
  PROVE  acc_results' = [acc_results EXCEPT ![a] = Final[a]]
BY DEF Finish, Record, Final, FinalResults, Settled

LEMMA SlotsNext ==
  ASSUME TypeOK, SlotsFinal, [Next]_vars
  PROVE  SlotsFinal' /\ SlotsGrow
<1>1. UNCHANGED <<outcome, disabled>> => Final' = Final
  BY DEF Final, FinalResults, Settled
<1>2. ASSUME NEW a \in Acc, Missing(acc_results[a]),
             acc_results' = [acc_results EXCEPT ![a] = Final[a]]
      PROVE  /\ acc_results'[a] = Final[a]
             /\ \A b \in Acc : b # a => acc_results'[b] = acc_results[b]
             /\ SlotsGrow
  BY <1>2 DEF TypeOK, SlotsGrow
<1>3. ASSUME NEW a \in Acc, SkipDisabled(a) PROVE SlotsFinal' /\ SlotsGrow
  <2>1. acc_results' = [acc_results EXCEPT ![a] = Final[a]]
    BY <1>3 DEF SkipDisabled, Final, FinalResults, Settled
  <2>2. Missing(acc_results[a])
    BY <1>3, NNat DEF SkipDisabled, SlotsFinal
  <2>. QED
    BY <1>1, <1>2, <1>3, <2>1, <2>2, NNat DEF SkipDisabled, SlotsFinal, TypeOK
<1>4. ASSUME NEW a \in Acc, Start(a) PROVE SlotsFinal' /\ SlotsGrow
  BY <1>1, <1>4, NNat DEF Start, SlotsFinal, SlotsGrow, TypeOK
<1>5. ASSUME NEW a \in Acc, RunToEnd(a) PROVE SlotsFinal' /\ SlotsGrow
  <2>1. acc_results' = [acc_results EXCEPT ![a] = Final[a]]
    BY <1>5, SlotsFill DEF RunToEnd
  <2>2. Missing(acc_results[a])
    BY <1>5, NNat DEF RunToEnd, SlotsFinal
  <2>. QED
    BY <1>1, <1>2, <1>5, <2>1, <2>2, NNat DEF RunToEnd, SlotsFinal, TypeOK
<1>6. ASSUME NEW a \in Acc, Complete(a) PROVE SlotsFinal' /\ SlotsGrow
  <2>1. acc_results' = [acc_results EXCEPT ![a] = Final[a]]
    BY <1>6, SlotsFill DEF Complete, SlotsFinal
  <2>2. Missing(acc_results[a])
    BY <1>6 DEF Complete, SlotsFinal
  <2>. QED
    BY <1>1, <1>2, <1>6, <2>1, <2>2, NNat DEF Complete, SlotsFinal, TypeOK
<1>7. CASE UNCHANGED <<outcome, disabled, next, running, acc_results>>
  BY <1>1, <1>7 DEF SlotsFinal, SlotsGrow
<1>. QED
  BY <1>3, <1>4, <1>5, <1>6, <1>7 DEF Next, Loop, Resume, vars

-----------------------------------------------------------------------------
(* What the judges make sure of.                                           *)

\* An event that is set was set on the word of a judge: for any condition J
\* that implies what the judge asks, the new slots fulfil it.
LEMMA EventSet ==
  ASSUME TypeOK, SlotsFinal, [Next]_vars, evt', ~evt
  PROVE  \E a \in Acc : JudgeMethod(acc_results', acc_finished', a)
<1>1. PICK a \in Acc : Finish(a)
  BY DEF Next, Loop, SkipDisabled, Start, RunToEnd, Complete, Resume, vars
<1>. QED
  BY <1>1 DEF Finish, Judge

\* The slots that highest_priority looked at are not written again.
LEMMA HighestPriorityStable ==
  ASSUME SlotsGrow, highest_priority(acc_results)
  PROVE  highest_priority(acc_results')
<1>1. CASE wait_for_all(acc_results)
  BY <1>1 DEF SlotsGrow, highest_priority, wait_for_all
<1>2. ASSUME NEW a \in Acc, Answered(acc_results[a]),
             \A b \in 1..(a - 1) : ~Missing(acc_results[b]) /\ ~Answered(acc_results[b])
      PROVE  highest_priority(acc_results')
  <2>1. ~Missing(acc_results[a])
    BY <1>2 DEF Answered, Missing
  <2>2. \A b \in 1..(a - 1) : b \in Acc
    BY <1>2, NNat
  <2>3. \A b \in 1..a : acc_results'[b] = acc_results[b]
    BY <1>2, <2>1, <2>2, NNat DEF SlotsGrow
  <2>. QED
    BY <1>2, <2>3, NNat DEF highest_priority
<1>. QED
  BY <1>1, <1>2 DEF highest_priority

\* The best accessor is the same in any two lists of slots that agree up to it.
LEMMA SameBest ==
  ASSUME NEW res, NEW fin, DOMAIN res = Acc, DOMAIN fin = Acc,
         NEW a \in Acc, Answered(res[a]), \A b \in 1..(a - 1) : ~Answered(res[b]),
         \A b \in 1..a : res[b] = fin[b]
  PROVE  /\ Best(res) = a /\ Best(fin) = a /\ res[a] = fin[a]
         /\ SomeAnswer(res) /\ SomeAnswer(fin)
<1>1. a \in 1..a /\ \A b \in 1..(a - 1) : b \in 1..a
  BY NNat
<1>2. Answered(fin[a]) /\ \A b \in 1..(a - 1) : ~Answered(fin[b])
  BY <1>1
<1>3. \A b \in Acc : b < a \/ b = a \/ a < b
  BY NNat
<1>4. Best(res) = a
  BY <1>3, NNat DEF Best, First
<1>5. Best(fin) = a
  BY <1>2, <1>3, NNat DEF Best, First
<1>. QED
  BY <1>1, <1>2, <1>4, <1>5 DEF SomeAnswer

\* And so is the first answer by priority.
LEMMA SameFirstAnswer ==
  ASSUME NEW res, NEW fin, DOMAIN res = Acc, DOMAIN fin = Acc,
         NEW a \in Acc, Answered(res[a]), \A b \in 1..(a - 1) : ~Answered(res[b]),
         \A b \in 1..a : res[b] = fin[b]
  PROVE  select_results_format(res) = select_results_format(fin)
BY SameBest DEF select_results_format

\* Once every slot has its list, the slots are final.
LEMMA AllSlotsFinal ==
  ASSUME TypeOK, SlotsFinal, wait_for_all(acc_results)
  PROVE  acc_results = Final
<1>1. \A a \in Acc : acc_results[a] = Final[a]
  BY DEF SlotsFinal, wait_for_all, Missing
<1>2. Final = [a \in Acc |-> Final[a]]
  BY DEF Final, FinalResults
<1>. QED
  BY <1>1, <1>2 DEF TypeOK

\* When highest_priority holds, the selectors that take the first answer find
\* in the slots filled so far what they would find in the final ones.
LEMMA PrioritySelect ==
  ASSUME TypeOK, SlotsFinal, highest_priority(acc_results), Selector \in FirstAnswerSelectors
  PROVE  select_results(Selector, acc_results, from_lang) = select_results(Selector, Final, from_lang)
<1>1. select_results_format(acc_results) = select_results_format(Final)
  <2>1. CASE wait_for_all(acc_results)
    BY <2>1, AllSlotsFinal
  <2>2. ASSUME NEW a \in Acc, Answered(acc_results[a]),
               \A b \in 1..(a - 1) : ~Missing(acc_results[b]) /\ ~Answered(acc_results[b])
        PROVE  select_results_format(acc_results) = select_results_format(Final)
    <3>1. ~Missing(acc_results[a])
      BY <2>2 DEF Answered, Missing
    <3>2. \A b \in 1..a : b \in Acc /\ ~Missing(acc_results[b])
      BY <2>2, <3>1, NNat
    <3>3. \A b \in 1..a : acc_results[b] = Final[b]
      BY <3>2 DEF SlotsFinal, Missing
    <3>4. DOMAIN acc_results = Acc
      BY DEF TypeOK
    <3>5. DOMAIN Final = Acc
      BY DEF Final, FinalResults
    <3>. HIDE DEF Final
    <3>. QED
      BY <2>2, <3>3, <3>4, <3>5, SameFirstAnswer
  <2>. QED
    BY <2>1, <2>2 DEF highest_priority
<1>. QED
  BY <1>1 DEF select_results, FirstAnswerSelectors, select_results_format_default,
              select_results_tsinghua, select_results_format_aiplatform,
              select_results_format_afanti

-----------------------------------------------------------------------------
(* The invariants, and the theorems for the two families of schedules.     *)

PriorityInv ==
  /\ TypeOK
  /\ SlotsFinal
  /\ evt => highest_priority(acc_results)
  /\ EarlyReturnSound

LEMMA PriorityInit == Init => PriorityInv
BY TypeInit, SlotsInit DEF Init, PriorityInv, EarlyReturnSound

LEMMA PriorityNext ==
  ASSUME AllHighestPriority, Selector \in FirstAnswerSelectors
  PROVE  PriorityInv /\ [Next]_vars => PriorityInv'
<1>. SUFFICES ASSUME PriorityInv, [Next]_vars PROVE PriorityInv'
  OBVIOUS
<1>1. TypeOK' /\ SlotsFinal' /\ SlotsGrow
  BY TypeNext, SlotsNext DEF PriorityInv
<1>2. evt' => highest_priority(acc_results')
  <2>1. CASE evt
    BY <1>1, <2>1, HighestPriorityStable DEF PriorityInv
  <2>2. CASE evt' /\ ~evt
    <3>1. PICK a \in Acc : JudgeMethod(acc_results', acc_finished', a)
      BY <2>2, EventSet DEF PriorityInv
    <3>. QED
      BY <3>1 DEF JudgeMethod, AllHighestPriority
  <2>. QED
    BY <2>1, <2>2
<1>3. Final' = Final
  BY DEF Next, Loop, SkipDisabled, Start, RunToEnd, Complete, Resume, vars, Final,
         FinalResults, Settled
<1>4. ASSUME Resume PROVE EarlyReturnSound'
  <2>. HIDE DEF Final
  <2>1. select_results(Selector, acc_results, from_lang) = select_results(Selector, Final, from_lang)
    BY <1>4, PrioritySelect DEF Resume, PriorityInv
  <2>. QED
    BY <1>3, <1>4, <2>1 DEF Resume, EarlyReturnSound
<1>5. ASSUME reply' = reply PROVE EarlyReturnSound'
  BY <1>3, <1>5 DEF PriorityInv, EarlyReturnSound
<1>6. EarlyReturnSound'
  BY <1>4, <1>5 DEF Next, Loop, SkipDisabled, Start, RunToEnd, Complete, vars
<1>. QED
  BY <1>1, <1>2, <1>6 DEF PriorityInv

\* A schedule of highest_priority judges with a first-answer selector replies
\* what it would have replied after a complete wait (EarlyReturnSound),
\* however many accessors it has and whatever they return.
THEOREM PriorityEarlyReturn ==
  ASSUME AllHighestPriority, Selector \in FirstAnswerSelectors
  PROVE  Spec => []EarlyReturnSound
<1>1. PriorityInv => EarlyReturnSound
  BY DEF PriorityInv
<1>. QED
  BY <1>1, PriorityInit, PriorityNext, PTL DEF Spec

\* The selection of the abstract specification is that of the detailed one.
LEMMA SameSelection ==
  ASSUME Selector \in FirstAnswerSelectors
  PROVE  ByPriority!select_results(Selector, ByPriority!FinalResults(outcome, disabled), from_lang)
           = select_results(Selector, Final, from_lang)
<1>1. ByPriority!FinalResults(outcome, disabled) = Final
  BY DEF ByPriority!FinalResults, ByPriority!Settled, ByPriority!NoResult, ByPriority!Acc,
         Final, FinalResults, Settled, NoResult, Acc
<1>2. ASSUME NEW res
      PROVE  ByPriority!select_results_format(res) = select_results_format(res)
  BY DEF ByPriority!select_results_format, ByPriority!SomeAnswer, ByPriority!Best,
         ByPriority!First, ByPriority!FirstAnswer, ByPriority!Answered, ByPriority!HasAnswer,
         select_results_format, SomeAnswer, Best, First, FirstAnswer, Answered, HasAnswer
<1>3. ASSUME NEW res
      PROVE  ByPriority!select_results(Selector, res, from_lang)
               = select_results(Selector, res, from_lang)
  BY <1>2 DEF FirstAnswerSelectors, ByPriority!select_results, select_results,
     ByPriority!select_results_format_default, select_results_format_default,
     ByPriority!select_results_tsinghua, select_results_tsinghua,
     ByPriority!select_results_format_aiplatform, select_results_format_aiplatform,
     ByPriority!select_results_format_afanti, select_results_format_afanti,
     ByPriority!OrElse, OrElse, ByPriority!Fallback, Fallback
<1>. QED
  BY <1>1, <1>3

\* Such a schedule implements FirstByPriority: the order in which the
\* accessors arrive cannot be seen in the replies.
THEOREM PriorityRefinement ==
  ASSUME AllHighestPriority, Selector \in FirstAnswerSelectors
  PROVE  Spec => Implements
<1>1. Init => ByPriority!Init
  BY DEF Init, ByPriority!Init
<1>2. PriorityInv /\ [Next]_vars => [ByPriority!Answer]_<<outcome, disabled, reply>>
  <2>. SUFFICES ASSUME PriorityInv, [Next]_vars
                PROVE  [ByPriority!Answer]_<<outcome, disabled, reply>>
    OBVIOUS
  <2>1. CASE Resume
    BY <2>1, PrioritySelect, SameSelection DEF Resume, PriorityInv, ByPriority!Answer
  <2>2. CASE UNCHANGED <<outcome, disabled, reply>>
    BY <2>2
  <2>. QED
    BY <2>1, <2>2 DEF Next, Loop, SkipDisabled, Start, RunToEnd, Complete, vars
<1>. QED
  BY <1>1, <1>2, PriorityInit, PriorityNext, PTL DEF Spec, Implements, ByPriority!Spec

WaitInv ==
  /\ TypeOK
  /\ SlotsFinal
  /\ evt => wait_for_all(acc_results)
  /\ reply # Pending => evt
  /\ EarlyReturnSound

LEMMA WaitInit == Init => WaitInv
BY TypeInit, SlotsInit DEF Init, WaitInv, EarlyReturnSound

LEMMA WaitNext == ASSUME AllWaitForAll PROVE WaitInv /\ [Next]_vars => WaitInv'
<1>. SUFFICES ASSUME WaitInv, [Next]_vars PROVE WaitInv'
  OBVIOUS
<1>1. TypeOK' /\ SlotsFinal' /\ SlotsGrow
  BY TypeNext, SlotsNext DEF WaitInv
<1>2. evt' => wait_for_all(acc_results')
  <2>1. CASE evt
    BY <1>1, <2>1 DEF WaitInv, SlotsGrow, wait_for_all
  <2>2. CASE evt' /\ ~evt
    <3>1. PICK a \in Acc : JudgeMethod(acc_results', acc_finished', a)
      BY <2>2, EventSet DEF WaitInv
    <3>. QED
      BY <3>1 DEF JudgeMethod, AllWaitForAll
  <2>. QED
    BY <2>1, <2>2
<1>3. Final' = Final
  BY DEF Next, Loop, SkipDisabled, Start, RunToEnd, Complete, Resume, vars, Final,
         FinalResults, Settled
<1>4. ASSUME Resume PROVE EarlyReturnSound' /\ evt'
  <2>. HIDE DEF Final
  <2>1. acc_results = Final
    BY <1>4, AllSlotsFinal DEF Resume, WaitInv
  <2>. QED
    BY <1>3, <1>4, <2>1 DEF Resume, EarlyReturnSound
<1>5. ASSUME UNCHANGED reply PROVE EarlyReturnSound' /\ (reply' # Pending => evt')
  <2>1. evt => evt'
    BY DEF Next, Loop, SkipDisabled, Start, RunToEnd, Complete, Resume, Finish, Judge, vars
  <2>. QED
    BY <1>3, <1>5, <2>1 DEF WaitInv, EarlyReturnSound
<1>6. EarlyReturnSound' /\ (reply' # Pending => evt')
  BY <1>4, <1>5 DEF Next, Loop, SkipDisabled, Start, RunToEnd, Complete, vars
<1>. QED
  BY <1>1, <1>2, <1>6 DEF WaitInv

LEMMA WaitNoStraggler == WaitInv => NoStraggler
BY DEF WaitInv, TypeOK, SlotsFinal, wait_for_all, NoStraggler

\* A schedule of wait_for_all judges replies, with any selector, what its
\* final slots say (EarlyReturnSound).
THEOREM WaitEarlyReturn == ASSUME AllWaitForAll PROVE Spec => []EarlyReturnSound
<1>1. WaitInv => EarlyReturnSound
  BY DEF WaitInv
<1>. QED
  BY <1>1, WaitInit, WaitNext, PTL DEF Spec

\* Such a schedule leaves no accessor at work behind the reply (NoStraggler).
THEOREM WaitLeavesNone == ASSUME AllWaitForAll PROVE Spec => []NoStraggler
BY WaitInit, WaitNext, WaitNoStraggler, PTL DEF Spec

-----------------------------------------------------------------------------
(* Default answers, under any mix of judges.                               *)

\* The selectors that put an answer of the handler's own, from "default", in
\* the place of one that is missing.
DefaultSelectors == {"default", "tsinghua", "aiplatform"}

\* A list of results, none of whose answers claims to be the default one.
OwnAnswers(list) ==
  /\ \E n \in Nat : DOMAIN list = 1..n
  /\ \A k \in DOMAIN list : HasAnswer(list[k]) => list[k].from # "default"

\* No accessor names its channel "default".
OwnChannels == \A q \in Queries : \A a \in Acc : q.outcome[a] # Raise => OwnAnswers(q.outcome[a])

\* The loop over the accessors finds one with an answer, if there is one.
LEMMA BestAnswers ==
  ASSUME NEW res, DOMAIN res = Acc, SomeAnswer(res)
  PROVE  Best(res) \in Acc /\ Answered(res[Best(res)])
<1>. DEFINE S == {a \in Acc : Answered(res[a])}
<1>1. PICK m \in S : \A n \in S : m <= n
  <2>1. S \in SUBSET Nat /\ S # {}
    BY NNat DEF SomeAnswer
  <2>. HIDE DEF S
  <2>. QED
    BY <2>1, Least
<1>2. Best(res) = CHOOSE a \in S : \A b \in S : a <= b
  BY DEF Best, First
<1>3. Best(res) \in S
  <2>. HIDE DEF S
  <2>. QED
    BY <1>1, <1>2
<1>. QED
  BY <1>3

\* The answer it takes is one, and so not from "default".
LEMMA FirstAnswerOwn ==
  ASSUME NEW list, OwnAnswers(list), Answered(list)
  PROVE  FirstAnswer(list).from # "default"
<1>. DEFINE S == {k \in DOMAIN list : HasAnswer(list[k])}
<1>1. PICK n \in Nat : DOMAIN list = 1..n
  BY DEF OwnAnswers
<1>2. PICK m \in S : \A k \in S : m <= k
  <2>1. S \in SUBSET Nat /\ S # {}
    BY <1>1 DEF Answered
  <2>. HIDE DEF S
  <2>. QED
    BY <2>1, Least
<1>3. HasAnswer(list[m]) /\ \A j \in 1..(m - 1) : ~HasAnswer(list[j])
  BY <1>1, <1>2
<1>4. \E k \in DOMAIN list : FirstAnswer(list) = list[k] /\ HasAnswer(list[k])
  BY <1>2, <1>3 DEF FirstAnswer
<1>. QED
  BY <1>4 DEF OwnAnswers

LEMMA FormatOwn ==
  ASSUME NEW res, DOMAIN res = Acc, \A a \in Acc : OwnAnswers(res[a]) \/ Missing(res[a]),
         SomeAnswer(res), Selector \in DefaultSelectors
  PROVE  select_results(Selector, res, from_lang)[1].from # "default"
<1>1. Best(res) \in Acc /\ Answered(res[Best(res)])
  BY BestAnswers
<1>2. OwnAnswers(res[Best(res)])
  BY <1>1 DEF Answered, Missing
<1>3. select_results_format(res) = <<FirstAnswer(res[Best(res)])>>
  BY DEF select_results_format
<1>4. select_results(Selector, res, from_lang) = <<FirstAnswer(res[Best(res)])>>
  BY <1>3 DEF select_results, DefaultSelectors, select_results_format_default,
              select_results_tsinghua, select_results_format_aiplatform, OrElse
<1>. QED
  BY <1>1, <1>2, <1>4, FirstAnswerOwn

\* What every judge, the most impatient one included, makes sure of.
AnswerOrAll(res) == SomeAnswer(res) \/ wait_for_all(res)

SilentInv ==
  /\ TypeOK
  /\ SlotsFinal
  /\ \A a \in Acc : outcome[a] # Raise => OwnAnswers(outcome[a])
  /\ evt => AnswerOrAll(acc_results)
  /\ DefaultOnlyWhenSilent

LEMMA JudgeSays ==
  ASSUME DOMAIN acc_results' = Acc, NEW a \in Acc, JudgeMethod(acc_results', acc_finished', a)
  PROVE  AnswerOrAll(acc_results')
<1>1. acc_tuples[a].judge \in JudgeNames
  BY AccTuples
<1>2. CASE acc_tuples[a].judge = "wait_for_all"
  BY <1>2 DEF JudgeMethod, AnswerOrAll
<1>3. CASE acc_tuples[a].judge = "first_with_res"
  BY <1>3 DEF JudgeMethod, first_with_res, AnswerOrAll, SomeAnswer
<1>4. CASE acc_tuples[a].judge = "highest_priority"
  BY <1>4 DEF JudgeMethod, highest_priority, AnswerOrAll, SomeAnswer
<1>5. CASE acc_tuples[a].judge = "highest_priority_for_qcloud"
  BY <1>5 DEF JudgeMethod, highest_priority_for_qcloud, highest_priority, AnswerOrAll, SomeAnswer
<1>. QED
  BY <1>1, <1>2, <1>3, <1>4, <1>5 DEF JudgeNames

LEMMA AnswerOrAllStable ==
  ASSUME TypeOK, TypeOK', SlotsGrow, AnswerOrAll(acc_results)
  PROVE  AnswerOrAll(acc_results')
<1>1. DOMAIN acc_results = Acc /\ DOMAIN acc_results' = Acc
  BY DEF TypeOK
<1>. QED
  BY <1>1 DEF SlotsGrow, AnswerOrAll, SomeAnswer, wait_for_all, Answered, Missing

LEMMA SilentInit == ASSUME OwnChannels PROVE Init => SilentInv
BY TypeInit, SlotsInit DEF Init, SilentInv, OwnChannels, DefaultOnlyWhenSilent

\* The slots of a request that goes on are, where they are filled, final ones.
LEMMA SlotsOwn ==
  ASSUME SilentInv, NEW a \in Acc
  PROVE  OwnAnswers(acc_results[a]) \/ Missing(acc_results[a])
<1>1. OwnAnswers(<<NoResult(a)>>)
  <2>1. DOMAIN <<NoResult(a)>> = 1..1 /\ ~HasAnswer(<<NoResult(a)>>[1])
    BY DEF NoResult, HasAnswer
  <2>. QED
    BY <2>1 DEF OwnAnswers
<1>2. OwnAnswers(Final[a])
  BY <1>1 DEF SilentInv, Final, FinalResults, Settled
<1>. QED
  BY <1>2 DEF SilentInv, SlotsFinal, Missing

LEMMA SilentNext ==
  ASSUME Selector \in DefaultSelectors
  PROVE  SilentInv /\ [Next]_vars => SilentInv'
<1>. SUFFICES ASSUME SilentInv, [Next]_vars PROVE SilentInv'
  OBVIOUS
<1>1. TypeOK' /\ SlotsFinal' /\ SlotsGrow
  BY TypeNext, SlotsNext DEF SilentInv
<1>2. DOMAIN acc_results = Acc /\ DOMAIN acc_results' = Acc
  BY <1>1 DEF SilentInv, TypeOK
<1>3. UNCHANGED <<outcome, disabled>>
  BY DEF Next, Loop, SkipDisabled, Start, RunToEnd, Complete, Resume, vars
<1>4. Final' = Final
  BY <1>3 DEF Final, FinalResults, Settled
<1>5. evt' => AnswerOrAll(acc_results')
  <2>1. CASE evt
    BY <1>1, <2>1, AnswerOrAllStable DEF SilentInv
  <2>2. CASE evt' /\ ~evt
    <3>1. PICK a \in Acc : JudgeMethod(acc_results', acc_finished', a)
      BY <2>2, EventSet DEF SilentInv
    <3>. QED
      BY <1>2, <3>1, JudgeSays
  <2>. QED
    BY <2>1, <2>2
<1>6. ASSUME Resume PROVE DefaultOnlyWhenSilent'
  <2>. HIDE DEF Final
  <2>1. CASE SomeAnswer(acc_results)
    <3>1. reply'[1].from # "default"
      BY <1>2, <1>6, <2>1, SlotsOwn, FormatOwn DEF Resume
    <3>. QED
      BY <3>1 DEF DefaultOnlyWhenSilent
  <2>2. CASE ~SomeAnswer(acc_results)
    <3>1. acc_results = Final
      BY <1>6, <2>2, AllSlotsFinal DEF Resume, SilentInv, AnswerOrAll
    <3>. QED
      BY <1>4, <2>2, <3>1 DEF DefaultOnlyWhenSilent
  <2>. QED
    BY <2>1, <2>2
<1>7. ASSUME reply' = reply PROVE DefaultOnlyWhenSilent'
  BY <1>4, <1>7 DEF SilentInv, DefaultOnlyWhenSilent
<1>8. DefaultOnlyWhenSilent'
  BY <1>6, <1>7 DEF Next, Loop, SkipDisabled, Start, RunToEnd, Complete, vars
<1>. QED
  BY <1>1, <1>3, <1>5, <1>8 DEF SilentInv

\* Whatever the judges of a schedule, a default answer goes out only when
\* every accessor has kept silent, and would have to the end
\* (DefaultOnlyWhenSilent).
THEOREM DefaultIsLast ==
  ASSUME Selector \in DefaultSelectors, OwnChannels
  PROVE  Spec => []DefaultOnlyWhenSilent
<1>1. SilentInv => DefaultOnlyWhenSilent
  BY DEF SilentInv
<1>. QED
  BY <1>1, SilentInit, SilentNext, PTL DEF Spec

-----------------------------------------------------------------------------
(* qcloud, whose selector may go back on the first answer.                 *)

AllForQcloud == \A a \in Acc : acc_tuples[a].judge = "highest_priority_for_qcloud"

\* The channel of qrobot is that of one accessor.
QrobotOutcome(out) ==
  \A a \in Acc : out[a] # Raise /\ out[a][1].from = "qrobot" => acc_tuples[a].name = "qrobot"

OneQrobot ==
  /\ \A a \in Acc, b \in Acc : acc_tuples[a].name = "qrobot" /\ acc_tuples[b].name = "qrobot" => a = b
  /\ \A q \in Queries : QrobotOutcome(q.outcome)

\* The answers of qrobot that the selector prefers to the first one.
Better(res) ==
  {a \in DOMAIN res : /\ a > Best(res) /\ ~Missing(res[a]) /\ res[a][1].from = "qrobot"
                      /\ HasAnswer(res[a][1]) /\ res[a][1].level <= 2}

LEMMA QcloudSelect ==
  ASSUME NEW res, SomeAnswer(res)
  PROVE  select_results_format_qcloud(res) =
           LET first == FirstAnswer(res[Best(res)])
           IN IF first.from = "web_search" /\ first.ugc /\ Better(res) # {}
              THEN <<res[CHOOSE a \in Better(res) : TRUE][1]>> ELSE <<first>>
BY DEF select_results_format_qcloud, Better

QcloudInv ==
  /\ TypeOK
  /\ SlotsFinal
  /\ QrobotOutcome(outcome)
  /\ evt => highest_priority(acc_results)

LEMMA QcloudInit == ASSUME OneQrobot PROVE Init => QcloudInv
BY TypeInit, SlotsInit DEF Init, QcloudInv, OneQrobot

LEMMA QcloudNext == ASSUME AllForQcloud PROVE QcloudInv /\ [Next]_vars => QcloudInv'
<1>. SUFFICES ASSUME QcloudInv, [Next]_vars PROVE QcloudInv'
  OBVIOUS
<1>1. TypeOK' /\ SlotsFinal' /\ SlotsGrow
  BY TypeNext, SlotsNext DEF QcloudInv
<1>2. UNCHANGED outcome
  BY DEF Next, Loop, SkipDisabled, Start, RunToEnd, Complete, Resume, vars
<1>3. evt' => highest_priority(acc_results')
  <2>1. CASE evt
    BY <1>1, <2>1, HighestPriorityStable DEF QcloudInv
  <2>2. CASE evt' /\ ~evt
    <3>1. PICK a \in Acc : JudgeMethod(acc_results', acc_finished', a)
      BY <2>2, EventSet DEF QcloudInv
    <3>. QED
      BY <3>1 DEF JudgeMethod, AllForQcloud, highest_priority_for_qcloud
  <2>. QED
    BY <2>1, <2>2
<1>. QED
  BY <1>1, <1>2, <1>3 DEF QcloudInv, QrobotOutcome

\* A better answer comes from the accessor qrobot.
LEMMA BetterIsQrobot ==
  ASSUME QcloudInv, NEW a \in Better(Final)
  PROVE  a \in Acc /\ acc_tuples[a].name = "qrobot"
<1>1. a \in Acc /\ Final[a][1].from = "qrobot" /\ HasAnswer(Final[a][1])
  BY DEF Better, Final, FinalResults
<1>2. Final[a] = outcome[a] /\ outcome[a] # Raise
  BY <1>1 DEF Final, FinalResults, Settled, NoResult, HasAnswer
<1>. QED
  BY <1>1, <1>2 DEF QcloudInv, QrobotOutcome

\* The reply of qcloud is that of a complete wait, unless the slot of qrobot
\* was still empty.
LEMMA QcloudResume ==
  ASSUME QcloudInv, OneQrobot, Selector = "qcloud", Resume
  PROVE  LosesOnlyQrobot
<1>. DEFINE final == select_results(Selector, Final, from_lang)
<1>1. reply' = select_results_format_qcloud(acc_results) /\ final = select_results_format_qcloud(Final)
  BY DEF Resume, select_results
<1>2. CASE wait_for_all(acc_results)
  BY <1>1, <1>2, AllSlotsFinal DEF QcloudInv, LosesOnlyQrobot
<1>3. ASSUME NEW a \in Acc, Answered(acc_results[a]),
             \A b \in 1..(a - 1) : ~Missing(acc_results[b]) /\ ~Answered(acc_results[b])
      PROVE  LosesOnlyQrobot
  <2>1. DOMAIN acc_results = Acc /\ DOMAIN Final = Acc
    BY DEF QcloudInv, TypeOK, Final, FinalResults
  <2>2. \A b \in Acc : ~Missing(acc_results[b]) => acc_results[b] = Final[b]
    BY DEF QcloudInv, SlotsFinal, Missing
  <2>3. \A b \in 1..a : b \in Acc /\ acc_results[b] = Final[b]
    BY <1>3, <2>2, NNat DEF Answered, Missing
  <2>. DEFINE first == FirstAnswer(Final[a])
              Swaps(res) == first.from = "web_search" /\ first.ugc /\ Better(res) # {}
  <2>4. /\ Best(acc_results) = a /\ Best(Final) = a /\ acc_results[a] = Final[a]
        /\ SomeAnswer(acc_results) /\ SomeAnswer(Final)
    <3>. HIDE DEF Final
    <3>. QED
      BY <1>3, <2>1, <2>3, SameBest
  <2>. HIDE DEF Final
  <2>5. /\ reply' = IF Swaps(acc_results)
                    THEN <<acc_results[CHOOSE b \in Better(acc_results) : TRUE][1]>> ELSE <<first>>
        /\ final = IF Swaps(Final)
                   THEN <<Final[CHOOSE b \in Better(Final) : TRUE][1]>> ELSE <<first>>
    BY <1>1, <2>4, QcloudSelect
  <2>6. \A b \in Acc : ~Missing(acc_results[b]) =>
          (b \in Better(acc_results) <=> b \in Better(Final))
    BY <2>1, <2>2, <2>4 DEF Better
  <2>7. \A b \in Better(acc_results) : b \in Acc /\ ~Missing(acc_results[b])
    BY <2>1 DEF Better
  <2>8. \A b \in Better(Final), c \in Better(Final) : b = c
    BY BetterIsQrobot DEF OneQrobot
  <2>9. CASE Better(acc_results) # {}
    <3>1. Better(acc_results) = Better(Final)
      BY <2>6, <2>7, <2>8, <2>9
    <3>2. PICK b \in Better(acc_results) : TRUE
      BY <2>9
    <3>3. (CHOOSE c \in Better(acc_results) : TRUE) = b /\ (CHOOSE c \in Better(Final) : TRUE) = b
      BY <2>8, <3>1, <3>2
    <3>. QED
      BY <2>2, <2>5, <2>7, <3>1, <3>2, <3>3 DEF LosesOnlyQrobot
  <2>10. CASE Better(acc_results) = {} /\ ~Swaps(Final)
    BY <2>5, <2>10 DEF LosesOnlyQrobot
  <2>11. CASE Better(acc_results) = {} /\ Swaps(Final)
    <3>1. PICK b : b = CHOOSE c \in Better(Final) : TRUE
      OBVIOUS
    <3>2. b \in Better(Final)
      BY <2>11, <3>1
    <3>3. b \in Acc /\ acc_tuples[b].name = "qrobot" /\ Missing(acc_results[b])
      BY <2>6, <2>11, <3>2, BetterIsQrobot
    <3>4. Final[b][1].from = "qrobot" /\ Final[b][1].level <= 2
      BY <3>2 DEF Better
    <3>5. reply' = <<first>> /\ final = <<Final[b][1]>>
      BY <2>5, <2>11, <3>1
    <3>6. reply'[1] = first /\ final[1] = Final[b][1]
      BY <3>5
    <3>. QED
      BY <2>11, <3>3, <3>4, <3>6 DEF LosesOnlyQrobot
  <2>. QED
    BY <2>9, <2>10, <2>11
<1>. QED
  BY <1>2, <1>3 DEF Resume, QcloudInv, highest_priority

LEMMA QcloudStep ==
  ASSUME OneQrobot, Selector = "qcloud"
  PROVE  QcloudInv /\ [Next]_vars => [LosesOnlyQrobot]_vars
<1>1. reply' = reply => LosesOnlyQrobot
  BY DEF LosesOnlyQrobot
<1>. QED
  BY <1>1, QcloudResume DEF Next, Loop, SkipDisabled, Start, RunToEnd, Complete, vars

\* The reply of qcloud depends on the order of arrival in one way only: a
\* user-generated answer of web_search stands although qrobot would have had
\* a good one, because qrobot had not finished (LosesOnlyQrobot).
THEOREM OnlyQrobotIsLost ==
  ASSUME AllForQcloud, OneQrobot, Selector = "qcloud"
  PROVE  Spec => [][LosesOnlyQrobot]_vars
BY QcloudInit, QcloudNext, QcloudStep, PTL DEF Spec

-----------------------------------------------------------------------------
(* show, whose selector takes every answer there is.                       *)

\* The results of accessors, and what a selector may put in their place, are
\* in Results; the outcome of a run() that raises is no list of them.
ShowResults(Results) ==
  /\ Raise \notin Seq(Results)
  /\ \A a \in Acc : NoResult(a) \in Results
  /\ \A q \in Queries, a \in Acc : q.outcome[a] # Raise => q.outcome[a] \in Seq(Results)

\* The loop over one list, round by round: what it takes of the list.
Round(ret, taken, r) == IF ShowAdds(ret, taken, r) THEN Append(taken, r) ELSE taken

TakenIn(Results, ret, list, taken) ==
  /\ taken \in [0..Len(list) -> Seq(Results)]
  /\ taken[0] = <<>> /\ \A k \in 1..Len(list) : taken[k] = Round(ret, taken[k - 1], list[k])
  /\ ShowTakes(ret, list) = taken[Len(list)]

LEMMA ShowTakesLoop ==
  ASSUME NEW Results, NEW ret, NEW list \in Seq(Results)
  PROVE  \E taken : TakenIn(Results, ret, list, taken)
<1>. DEFINE n == Len(list)
            S == Seq(Results)
            Add(t, r) == Round(ret, t, r)
            After(g, k) == IF k = 0 THEN <<>> ELSE Add(g[k - 1], list[k])
            taken == CHOOSE g : g = [k \in 0..n |-> After(g, k)]
<1>1. ShowTakes(ret, list) = taken[n]
  BY DEF ShowTakes, Round
<1>2. n \in Nat /\ \A k \in 1..n : list[k] \in Results
  OBVIOUS
<1>3. <<>> \in S /\ \A t \in S, r \in Results : Add(t, r) \in S
  BY DEF Round
<1>. HIDE DEF Add, S
<1>4. PICK f \in [0..n -> S] : f[0] = <<>> /\ \A k \in 1..n : f[k] = Add(f[k - 1], list[k])
  <2>. DEFINE G == [k \in 1..n |-> [t \in S |-> Add(t, list[k])]]
  <2>1. \A k \in 1..n : [t \in S |-> Add(t, list[k])] \in [S -> S]
    BY <1>2, <1>3
  <2>2. G \in [1..n -> [S -> S]]
    BY <2>1
  <2>. HIDE DEF G, n
  <2>3. IsLoop(S, <<>>, n, G)
    BY <1>2, <1>3, <2>2 DEF IsLoop
  <2>4. PICK f \in [0..n -> S] : f[0] = <<>> /\ \A k \in 1..n : f[k] = G[k][f[k - 1]]
    BY <2>3, LoopExists DEF Run
  <2>5. ASSUME NEW k \in 1..n PROVE f[k] = Add(f[k - 1], list[k])
    <3>1. k - 1 \in 0..n /\ f[k - 1] \in S
      BY <1>2
    <3>. QED
      BY <2>4, <3>1 DEF G
  <2>. QED
    BY <2>4, <2>5
<1>5. f = [k \in 0..n |-> After(f, k)]
  <2>1. f = [k \in 0..n |-> f[k]]
    OBVIOUS
  <2>2. \A k \in 0..n : f[k] = After(f, k)
    BY <1>2, <1>4
  <2>. HIDE DEF After
  <2>. QED
    BY <2>1, <2>2
<1>6. taken = [k \in 0..n |-> After(taken, k)]
  <2>. HIDE DEF After
  <2>. QED
    BY <1>5
<1>. HIDE DEF taken
<1>7. taken[0] = <<>> /\ \A k \in 1..n : taken[k] = Add(taken[k - 1], list[k])
  BY <1>2, <1>6
<1>8. 0..n \subseteq {k \in 0..n : taken[k] \in S}
  <2>. DEFINE P == {k \in 0..n : taken[k] \in S}
  <2>1. 0 \in P
    BY <1>2, <1>3, <1>7
  <2>2. \A k \in 1..n : k - 1 \in P => k \in P
    BY <1>2, <1>3, <1>7
  <2>. HIDE DEF P, n
  <2>3. 0..n \subseteq P
    BY <1>2, <2>1, <2>2, Rounds
  <2>. QED
    BY <2>3 DEF P
<1>9. taken \in [0..n -> S]
  BY <1>6, <1>8
<1>. QED
  BY <1>1, <1>7, <1>9 DEF TakenIn, Add, S

\* What has been said in a list, and whether all of it is different.
Answers(list) == {list[k].answer : k \in DOMAIN list}
Different(list) == \A j, k \in DOMAIN list : list[j].answer = list[k].answer => j = k

LEMMA NewIsNoAnswerOf == \A list, r : NewTo(list, r) <=> r.answer \notin Answers(list)
BY DEF NewTo, Answers

LEMMA Appended ==
  ASSUME NEW Results, NEW list \in Seq(Results), NEW r \in Results
  PROVE  /\ Answers(Append(list, r)) = Answers(list) \cup {r.answer}
         /\ ToSet(Append(list, r)) = ToSet(list) \cup {r}
         /\ TwoOfRetrieve(list) => TwoOfRetrieve(Append(list, r))
         /\ Different(list) /\ NewTo(list, r) => Different(Append(list, r))
<1>. DEFINE n == Len(list)
            more == Append(list, r)
<1>1. /\ DOMAIN more = DOMAIN list \cup {n + 1} /\ n + 1 \notin DOMAIN list
      /\ more[n + 1] = r /\ \A k \in DOMAIN list : more[k] = list[k]
  OBVIOUS
<1>. HIDE DEF n, more
<1>2. Answers(more) = Answers(list) \cup {r.answer}
  BY <1>1 DEF Answers
<1>3. ToSet(more) = ToSet(list) \cup {r}
  BY <1>1 DEF ToSet
<1>4. TwoOfRetrieve(list) => TwoOfRetrieve(more)
  BY <1>1 DEF TwoOfRetrieve
<1>5. Different(list) /\ NewTo(list, r) => Different(more)
  BY <1>1 DEF Different, NewTo
<1>. QED
  BY <1>2, <1>3, <1>4, <1>5 DEF more

\* Two answers of retrieve are two in every list that has all of these.
LEMMA RetrievedTwice ==
  ASSUME NEW some, NEW more, Different(some), ToSet(some) \subseteq ToSet(more), TwoOfRetrieve(some)
  PROVE  TwoOfRetrieve(more)
<1>1. PICK j, k \in DOMAIN some : j # k /\ some[j].from = "retrieve" /\ some[k].from = "retrieve"
  BY DEF TwoOfRetrieve
<1>2. some[j] # some[k]
  BY <1>1 DEF Different
<1>3. PICK i, l \in DOMAIN more : more[i] = some[j] /\ more[l] = some[k]
  BY <1>1 DEF ToSet
<1>. QED
  BY <1>1, <1>2, <1>3 DEF TwoOfRetrieve

\* One round of the loop over a list, in a run that starts from few and in one
\* that starts from many, where the latter has all the answers of the former.
\* What the former takes the latter has or takes; and it takes nothing that
\* the former does not, until the former has its two answers of retrieve.
InStep(many, inFew, inMany) ==
  /\ Answers(inFew) \subseteq Answers(many) \cup Answers(inMany)
  /\ Different(inMany)
  /\ TwoOfRetrieve(inFew) \/ ToSet(inMany) \subseteq ToSet(inFew)

LEMMA ShowRound ==
  ASSUME NEW Results, NEW few, NEW many, Answers(few) \subseteq Answers(many),
         NEW inFew \in Seq(Results), NEW inMany \in Seq(Results), NEW r \in Results,
         InStep(many, inFew, inMany)
  PROVE  InStep(many, Round(few, inFew, r), Round(many, inMany, r))
<1>. USE DEF Round
<1>1. TwoOfRetrieve(inMany) => TwoOfRetrieve(inFew)
  BY RetrievedTwice DEF InStep
<1>2. CASE ShowAdds(few, inFew, r) /\ ShowAdds(many, inMany, r)
  <2>1. Different(Append(inMany, r))
    BY <1>2, Appended DEF ShowAdds, InStep
  <2>2. Answers(Append(inFew, r)) \subseteq Answers(many) \cup Answers(Append(inMany, r))
    BY Appended DEF InStep
  <2>3. TwoOfRetrieve(Append(inFew, r)) \/ ToSet(Append(inMany, r)) \subseteq ToSet(Append(inFew, r))
    BY Appended DEF InStep
  <2>. QED
    BY <1>2, <2>1, <2>2, <2>3 DEF InStep
<1>3. CASE ShowAdds(few, inFew, r) /\ ~ShowAdds(many, inMany, r)
  <2>1. r.answer \in Answers(many) \cup Answers(inMany)
    BY <1>1, <1>3, NewIsNoAnswerOf DEF ShowAdds
  <2>2. Answers(Append(inFew, r)) \subseteq Answers(many) \cup Answers(inMany)
    BY <2>1, Appended DEF InStep
  <2>3. TwoOfRetrieve(Append(inFew, r)) \/ ToSet(inMany) \subseteq ToSet(Append(inFew, r))
    BY Appended DEF InStep
  <2>. QED
    BY <1>3, <2>2, <2>3 DEF InStep
<1>4. CASE ~ShowAdds(few, inFew, r) /\ ShowAdds(many, inMany, r)
  <2>1. Different(Append(inMany, r))
    BY <1>4, Appended DEF ShowAdds, InStep
  <2>2. Answers(inFew) \subseteq Answers(many) \cup Answers(Append(inMany, r))
    BY Appended DEF InStep
  <2>3. r.answer \notin Answers(many) \cup Answers(inMany)
    BY <1>4, NewIsNoAnswerOf DEF ShowAdds
  <2>4. TwoOfRetrieve(inFew)
    BY <1>4, <2>3, NewIsNoAnswerOf DEF ShowAdds, InStep
  <2>. QED
    BY <1>4, <2>1, <2>2, <2>4 DEF InStep
<1>5. CASE ~ShowAdds(few, inFew, r) /\ ~ShowAdds(many, inMany, r)
  BY <1>5
<1>. QED
  BY <1>2, <1>3, <1>4, <1>5

\* With fewer answers before it, a list gives none that it does not give, or
\* that are not there already, with more of them.
LEMMA ShowTakesMore ==
  ASSUME NEW Results, NEW list \in Seq(Results),
         NEW few, NEW many, Answers(few) \subseteq Answers(many)
  PROVE  Answers(ShowTakes(few, list)) \subseteq Answers(many) \cup Answers(ShowTakes(many, list))
<1>. DEFINE n == Len(list)
<1>1. n \in Nat /\ \A k \in 1..n : list[k] \in Results
  OBVIOUS
<1>2. PICK f : TakenIn(Results, few, list, f)
  BY ShowTakesLoop
<1>3. PICK m : TakenIn(Results, many, list, m)
  BY ShowTakesLoop
<1>. DEFINE P == {k \in 0..n : InStep(many, f[k], m[k])}
<1>4. 0 \in P
  <2>1. f[0] = <<>> /\ m[0] = <<>>
    BY <1>2, <1>3 DEF TakenIn
  <2>2. InStep(many, <<>>, <<>>)
    BY DEF InStep, Answers, Different, ToSet
  <2>. QED
    BY <1>1, <2>1, <2>2
<1>5. ASSUME NEW k \in 1..n, k - 1 \in P PROVE k \in P
  <2>1. k - 1 \in 0..n /\ k \in 0..n /\ InStep(many, f[k - 1], m[k - 1])
    BY <1>1, <1>5
  <2>2. f[k - 1] \in Seq(Results) /\ m[k - 1] \in Seq(Results) /\ list[k] \in Results
    BY <1>1, <1>2, <1>3, <2>1 DEF TakenIn
  <2>3. f[k] = Round(few, f[k - 1], list[k]) /\ m[k] = Round(many, m[k - 1], list[k])
    BY <1>2, <1>3 DEF TakenIn
  <2>4. InStep(many, f[k], m[k])
    BY <2>1, <2>2, <2>3, ShowRound
  <2>. QED
    BY <2>1, <2>4
<1>6. n \in P
  <2>1. n \in 0..n
    BY <1>1
  <2>. HIDE DEF P, n
  <2>. QED
    BY <1>1, <1>4, <1>5, <2>1, Rounds
<1>. QED
  BY <1>2, <1>3, <1>6 DEF InStep, TakenIn

\* A list with an answer is not passed over by a loop that has none so far.
LEMMA ShowTakesSome ==
  ASSUME NEW Results, NEW ret, NEW list \in Seq(Results), Answered(list)
  PROVE  ret # <<>> \/ ShowTakes(ret, list) # <<>>
<1>. SUFFICES ASSUME ret = <<>> PROVE ShowTakes(ret, list) # <<>>
  OBVIOUS
<1>. DEFINE n == Len(list)
<1>1. n \in Nat /\ DOMAIN list = 1..n /\ \A k \in 1..n : list[k] \in Results
  OBVIOUS
<1>2. PICK t : TakenIn(Results, ret, list, t)
  BY ShowTakesLoop
<1>3. PICK i \in 1..n : HasAnswer(list[i])
  BY <1>1 DEF Answered
<1>. DEFINE P == {k \in 0..n : k >= i => t[k] # <<>>}
<1>4. ASSUME NEW k \in 1..n, k - 1 \in P PROVE k \in P
  <2>1. k - 1 \in 0..n /\ k \in 0..n /\ (k >= i /\ k # i => k - 1 >= i)
    BY <1>1
  <2>2. t[k] = Round(ret, t[k - 1], list[k])
    BY <1>2 DEF TakenIn
  <2>3. t[k - 1] \in Seq(Results) /\ list[k] \in Results
    BY <1>1, <1>2, <2>1 DEF TakenIn
  <2>4. t[k - 1] # <<>> => t[k] # <<>>
    BY <2>2, <2>3 DEF Round
  <2>5. t[k - 1] = <<>> /\ k = i => t[k] # <<>>
    <3>1. HasAnswer(list[i]) => ShowAdds(<<>>, <<>>, list[i])
      BY DEF ShowAdds, NewTo, TwoOfRetrieve
    <3>. QED
      BY <1>3, <2>2, <2>3, <3>1 DEF Round
  <2>. QED
    BY <1>4, <2>1, <2>4, <2>5
<1>5. 0 \in P
  BY <1>1, <1>3
<1>6. n \in P
  <2>1. n \in 0..n
    BY <1>1
  <2>. HIDE DEF P, n
  <2>. QED
    BY <1>1, <1>4, <1>5, <2>1, Rounds
<1>. QED
  BY <1>1, <1>2, <1>6 DEF TakenIn

LEMMA ShowTakesType ==
  ASSUME NEW Results, NEW ret, NEW list \in Seq(Results)
  PROVE  ShowTakes(ret, list) \in Seq(Results)
<1>1. PICK t : TakenIn(Results, ret, list, t)
  BY ShowTakesLoop
<1>2. Len(list) \in 0..Len(list)
  OBVIOUS
<1>. QED
  BY <1>1, <1>2 DEF TakenIn

LEMMA ShowTakesOfNone == \A ret : ShowTakes(ret, <<>>) = <<>>
<1>. TAKE ret
<1>1. <<>> \in Seq({}) /\ Len(<<>>) = 0
  OBVIOUS
<1>2. PICK t : TakenIn({}, ret, <<>>, t)
  BY <1>1, ShowTakesLoop
<1>. QED
  BY <1>1, <1>2 DEF TakenIn

\* The loop over the slots, round by round.
AllTaken(Results, res, ret) ==
  /\ ret \in [0..N -> Seq(Results)]
  /\ ret[0] = <<>> /\ \A a \in Acc : ret[a] = ret[a - 1] \o ShowTakes(ret[a - 1], res[a])
  /\ ShowAll(res) = ret[N]

LEMMA ShowAllLoop ==
  ASSUME NEW Results, NEW res \in [Acc -> Seq(Results)]
  PROVE  \E ret : AllTaken(Results, res, ret)
<1>. DEFINE S == Seq(Results)
            Add(x, list) == x \o ShowTakes(x, list)
            After(g, a) == IF a = 0 THEN <<>> ELSE Add(g[a - 1], res[a])
            ret == CHOOSE g : g = [a \in 0..N |-> After(g, a)]
<1>1. Len(res) = N /\ N \in Nat /\ Acc = 1..N
  BY NNat
<1>2. ShowAll(res) = ret[N]
  BY <1>1 DEF ShowAll
<1>3. <<>> \in S /\ \A x \in S, list \in S : Add(x, list) \in S
  <2>1. ASSUME NEW x \in S, NEW list \in S PROVE ShowTakes(x, list) \in S
    BY ShowTakesType
  <2>. QED
    BY <2>1
<1>. HIDE DEF Add, S
<1>4. PICK f \in [0..N -> S] : f[0] = <<>> /\ \A a \in 1..N : f[a] = Add(f[a - 1], res[a])
  <2>. DEFINE G == [a \in 1..N |-> [x \in S |-> Add(x, res[a])]]
  <2>1. \A a \in 1..N : [x \in S |-> Add(x, res[a])] \in [S -> S]
    BY <1>1, <1>3 DEF S
  <2>2. G \in [1..N -> [S -> S]]
    BY <2>1
  <2>. HIDE DEF G
  <2>3. IsLoop(S, <<>>, N, G)
    BY <1>1, <1>3, <2>2 DEF IsLoop
  <2>4. PICK f \in [0..N -> S] : f[0] = <<>> /\ \A a \in 1..N : f[a] = G[a][f[a - 1]]
    BY <2>3, LoopExists DEF Run
  <2>5. ASSUME NEW a \in 1..N PROVE f[a] = Add(f[a - 1], res[a])
    <3>1. a - 1 \in 0..N /\ f[a - 1] \in S
      BY <1>1
    <3>. QED
      BY <2>4, <3>1 DEF G
  <2>. QED
    BY <2>4, <2>5
<1>5. f = [a \in 0..N |-> After(f, a)]
  <2>1. f = [a \in 0..N |-> f[a]]
    OBVIOUS
  <2>2. \A a \in 0..N : f[a] = After(f, a)
    BY <1>1, <1>4
  <2>. HIDE DEF After
  <2>. QED
    BY <2>1, <2>2
<1>6. ret = [a \in 0..N |-> After(ret, a)]
  <2>. HIDE DEF After
  <2>. QED
    BY <1>5
<1>. HIDE DEF ret
<1>7. ret[0] = <<>> /\ \A a \in 1..N : ret[a] = Add(ret[a - 1], res[a])
  BY <1>1, <1>6
<1>. DEFINE P == {a \in 0..N : ret[a] \in S}
<1>8. 0 \in P
  BY <1>1, <1>3, <1>7
<1>9. \A a \in 1..N : a - 1 \in P => a \in P
  BY <1>1, <1>3, <1>7 DEF S
<1>10. 0..N \subseteq P
  <2>. HIDE DEF P
  <2>. QED
    BY <1>1, <1>8, <1>9, Rounds
<1>11. ret \in [0..N -> S]
  BY <1>6, <1>10
<1>. QED
  BY <1>1, <1>2, <1>7, <1>11 DEF AllTaken, Add, S

LEMMA Joined ==
  ASSUME NEW Results, NEW s \in Seq(Results), NEW t \in Seq(Results)
  PROVE  /\ Answers(s \o t) = Answers(s) \cup Answers(t)
         /\ s # <<>> \/ t # <<>> => s \o t # <<>>
         /\ s # <<>> => (s \o t)[1] = s[1]
<1>1. Answers(s \o t) \subseteq Answers(s) \cup Answers(t)
  BY DEF Answers
<1>2. Answers(s) \subseteq Answers(s \o t)
  BY DEF Answers
<1>3. ASSUME NEW k \in DOMAIN t PROVE t[k].answer \in Answers(s \o t)
  <2>1. Len(s) + k \in DOMAIN (s \o t) /\ (s \o t)[Len(s) + k] = t[k]
    OBVIOUS
  <2>. QED
    BY <2>1 DEF Answers
<1>4. Answers(t) \subseteq Answers(s \o t)
  BY <1>3 DEF Answers
<1>5. s # <<>> \/ t # <<>> => s \o t # <<>>
  OBVIOUS
<1>6. s # <<>> => (s \o t)[1] = s[1]
  OBVIOUS
<1>. QED
  BY <1>1, <1>2, <1>4, <1>5, <1>6

\* The slots of a request under way, and the final ones.
Filled(res, fin) == \A a \in Acc : res[a] \in {<<>>, fin[a]}

\* What is taken of the slots filled so far is taken of the final ones.
LEMMA ShowAllMore ==
  ASSUME NEW Results, NEW res \in [Acc -> Seq(Results)], NEW fin \in [Acc -> Seq(Results)],
         Filled(res, fin)
  PROVE  Answers(ShowAll(res)) \subseteq Answers(ShowAll(fin))
<1>1. PICK p : AllTaken(Results, res, p)
  BY ShowAllLoop
<1>2. PICK f : AllTaken(Results, fin, f)
  BY ShowAllLoop
<1>. DEFINE P == {a \in 0..N : Answers(p[a]) \subseteq Answers(f[a])}
<1>3. 0 \in P
  BY <1>1, <1>2, NNat DEF AllTaken
<1>4. ASSUME NEW a \in 1..N, a - 1 \in P PROVE a \in P
  <2>. DEFINE few == p[a - 1]
              many == f[a - 1]
  <2>1. a \in Acc /\ a \in 0..N /\ a - 1 \in 0..N /\ Answers(few) \subseteq Answers(many)
    BY <1>4, NNat
  <2>2. few \in Seq(Results) /\ many \in Seq(Results)
    BY <1>1, <1>2, <2>1 DEF AllTaken
  <2>3. res[a] \in Seq(Results) /\ fin[a] \in Seq(Results)
    BY <2>1
  <2>4. ShowTakes(few, res[a]) \in Seq(Results) /\ ShowTakes(many, fin[a]) \in Seq(Results)
    BY <2>3, ShowTakesType
  <2>5. p[a] = few \o ShowTakes(few, res[a]) /\ f[a] = many \o ShowTakes(many, fin[a])
    BY <1>1, <1>2, <2>1 DEF AllTaken
  <2>. HIDE DEF few, many
  <2>6. /\ Answers(p[a]) = Answers(few) \cup Answers(ShowTakes(few, res[a]))
        /\ Answers(f[a]) = Answers(many) \cup Answers(ShowTakes(many, fin[a]))
    BY <2>2, <2>4, <2>5, Joined
  <2>7. Answers(ShowTakes(few, res[a])) \subseteq Answers(many) \cup Answers(ShowTakes(many, fin[a]))
    <3>1. CASE res[a] = <<>>
      BY <3>1, ShowTakesOfNone DEF Answers
    <3>2. CASE res[a] = fin[a]
      BY <2>1, <2>3, <3>2, ShowTakesMore
    <3>. QED
      BY <2>1, <3>1, <3>2 DEF Filled
  <2>. QED
    BY <2>1, <2>6, <2>7
<1>5. N \in P
  <2>1. N \in 0..N /\ N \in Nat
    BY NNat
  <2>. HIDE DEF P
  <2>. QED
    BY <1>3, <1>4, <2>1, Rounds
<1>. QED
  BY <1>1, <1>2, <1>5 DEF AllTaken

\* The first result taken is there once the loop has come to an answer, and
\* the later rounds put what they take behind it.
LEMMA ShowKeepsFirst ==
  ASSUME NEW Results, NEW res \in [Acc -> Seq(Results)], NEW ret,
         AllTaken(Results, res, ret), NEW a \in Acc, Answered(res[a])
  PROVE  ret[a] # <<>> /\ ret[N] # <<>> /\ ret[N][1] = ret[a][1]
<1>1. ASSUME NEW b \in Acc
      PROVE  /\ ret[b - 1] \in Seq(Results) /\ ShowTakes(ret[b - 1], res[b]) \in Seq(Results)
             /\ ret[b] = ret[b - 1] \o ShowTakes(ret[b - 1], res[b])
  <2>1. b - 1 \in 0..N /\ res[b] \in Seq(Results)
    BY NNat
  <2>. QED
    BY <2>1, ShowTakesType DEF AllTaken
<1>2. ret[a] # <<>>
  <2>. DEFINE before == ret[a - 1]
              more == ShowTakes(before, res[a])
  <2>1. before # <<>> \/ more # <<>>
    BY ShowTakesSome
  <2>2. before \in Seq(Results) /\ more \in Seq(Results) /\ ret[a] = before \o more
    BY <1>1
  <2>. HIDE DEF before, more
  <2>. QED
    BY <2>1, <2>2, Joined
<1>. DEFINE P == {b \in 0..N : b >= a => ret[b] # <<>> /\ ret[b][1] = ret[a][1]}
<1>3. 0 \in P
  BY NNat
<1>4. ASSUME NEW b \in 1..N, b - 1 \in P PROVE b \in P
  <2>1. b \in Acc /\ b \in 0..N /\ (b >= a => b = a \/ b - 1 >= a)
    BY NNat
  <2>2. ret[b - 1] # <<>> => ret[b] # <<>> /\ ret[b][1] = ret[b - 1][1]
    <3>. DEFINE before == ret[b - 1]
                more == ShowTakes(before, res[b])
    <3>1. before \in Seq(Results) /\ more \in Seq(Results) /\ ret[b] = before \o more
      BY <1>1, <2>1
    <3>. HIDE DEF before, more
    <3>2. before # <<>> => ret[b] # <<>> /\ ret[b][1] = before[1]
      BY <3>1, Joined
    <3>. QED
      BY <3>2 DEF before
  <2>. QED
    BY <1>2, <1>4, <2>1, <2>2
<1>5. N \in P
  <2>1. N \in 0..N /\ N \in Nat
    BY NNat
  <2>. HIDE DEF P
  <2>. QED
    BY <1>3, <1>4, <2>1, Rounds
<1>. QED
  BY <1>2, <1>5, NNat

\* And it is the same for any two lists of slots that agree up to the answer.
LEMMA ShowAllHead ==
  ASSUME NEW Results, NEW res \in [Acc -> Seq(Results)], NEW fin \in [Acc -> Seq(Results)],
         NEW a \in Acc, Answered(res[a]), \A b \in 1..a : res[b] = fin[b]
  PROVE  /\ ShowAll(res) \in Seq(Results) /\ ShowAll(fin) \in Seq(Results)
         /\ ShowAll(res) # <<>> /\ ShowAll(fin) # <<>> /\ ShowAll(res)[1] = ShowAll(fin)[1]
<1>1. PICK p : AllTaken(Results, res, p)
  BY ShowAllLoop
<1>2. PICK f : AllTaken(Results, fin, f)
  BY ShowAllLoop
<1>3. N \in Nat /\ N \in 0..N /\ a \in 1..a /\ a \in 0..a /\ a \in Nat
  BY NNat
<1>. DEFINE P == {b \in 0..a : p[b] = f[b]}
<1>4. 0 \in P
  BY <1>1, <1>2, <1>3 DEF AllTaken
<1>5. ASSUME NEW b \in 1..a, b - 1 \in P PROVE b \in P
  <2>1. b \in Acc /\ b \in 0..a /\ p[b - 1] = f[b - 1] /\ res[b] = fin[b]
    BY <1>5, NNat
  <2>. QED
    BY <1>1, <1>2, <2>1 DEF AllTaken
<1>6. p[a] = f[a]
  <2>. HIDE DEF P
  <2>1. a \in P
    BY <1>3, <1>4, <1>5, Rounds
  <2>. QED
    BY <2>1 DEF P
<1>7. Answered(fin[a])
  BY <1>3
<1>8. p[N] # <<>> /\ p[N][1] = p[a][1]
  BY <1>1, ShowKeepsFirst
<1>9. f[N] # <<>> /\ f[N][1] = f[a][1]
  BY <1>2, <1>7, ShowKeepsFirst
<1>. QED
  BY <1>1, <1>2, <1>3, <1>6, <1>8, <1>9 DEF AllTaken

ShowInv(Results) ==
  /\ TypeOK
  /\ SlotsFinal
  /\ \A a \in Acc : outcome[a] # Raise => outcome[a] \in Seq(Results)
  /\ evt => highest_priority(acc_results)
  /\ ShowHeadFinal

LEMMA ShowInit ==
  ASSUME NEW Results, ShowResults(Results)
  PROVE  Init => ShowInv(Results)
BY TypeInit, SlotsInit DEF Init, ShowInv, ShowResults, ShowHeadFinal

\* The slots, filled or not, are lists of results.
LEMMA SlotsAreLists ==
  ASSUME NEW Results, ShowResults(Results), ShowInv(Results)
  PROVE  /\ acc_results \in [Acc -> Seq(Results)] /\ Final \in [Acc -> Seq(Results)]
         /\ Filled(acc_results, Final)
<1>1. ASSUME NEW a \in Acc PROVE Final[a] \in Seq(Results)
  <2>1. NoResult(a) \in Results
    BY DEF ShowResults
  <2>2. <<NoResult(a)>> \in Seq(Results)
    BY <2>1
  <2>. QED
    BY <2>2 DEF ShowInv, Final, FinalResults, Settled
<1>2. Final = [a \in Acc |-> Final[a]]
  BY DEF Final, FinalResults
<1>3. acc_results = [a \in Acc |-> acc_results[a]]
  BY DEF ShowInv, TypeOK
<1>4. Filled(acc_results, Final)
  BY DEF ShowInv, SlotsFinal, Filled
<1>. HIDE DEF Final
<1>5. ASSUME NEW a \in Acc PROVE acc_results[a] \in Seq(Results)
  <2>1. Final[a] \in Seq(Results) /\ <<>> \in Seq(Results)
    BY <1>1
  <2>. QED
    BY <1>4, <2>1 DEF Filled
<1>. QED
  BY <1>1, <1>2, <1>3, <1>4, <1>5

LEMMA ShowResume ==
  ASSUME NEW Results, ShowResults(Results), ShowInv(Results), Selector = "show", Resume
  PROVE  LET final == select_results(Selector, Final, from_lang)
         IN IF final = Raise THEN reply' = Raise
            ELSE /\ reply' # Raise
                 /\ reply'[1] = final[1]
                 /\ {r.answer : r \in ToSet(reply')} \subseteq {r.answer : r \in ToSet(final)}
<1>. DEFINE final == select_results(Selector, Final, from_lang)
<1>. HIDE DEF Final
<1>1. /\ reply' = select_results_format_show(acc_results, from_lang)
      /\ final = select_results_format_show(Final, from_lang)
  BY DEF Resume, select_results
<1>. HIDE DEF final
<1>2. CASE wait_for_all(acc_results)
  <2>1. reply' = final
    BY <1>1, <1>2, AllSlotsFinal DEF ShowInv
  <2>. QED
    BY <2>1 DEF final
<1>3. ASSUME NEW a \in Acc, Answered(acc_results[a]),
             \A b \in 1..(a - 1) : ~Missing(acc_results[b]) /\ ~Answered(acc_results[b])
      PROVE  /\ reply' # Raise /\ final # Raise /\ reply'[1] = final[1]
             /\ {r.answer : r \in ToSet(reply')} \subseteq {r.answer : r \in ToSet(final)}
  <2>1. \A b \in 1..a : acc_results[b] = Final[b]
    <3>1. ~Missing(acc_results[a]) /\ \A b \in 1..a : b \in Acc /\ (b = a \/ b \in 1..(a - 1))
      BY <1>3, NNat DEF Answered, Missing
    <3>. QED
      BY <1>3, <3>1 DEF ShowInv, SlotsFinal, Missing
  <2>2. /\ ShowAll(acc_results) \in Seq(Results) /\ ShowAll(Final) \in Seq(Results)
        /\ ShowAll(acc_results) # <<>> /\ ShowAll(Final) # <<>>
        /\ ShowAll(acc_results)[1] = ShowAll(Final)[1]
    BY <1>3, <2>1, SlotsAreLists, ShowAllHead
  <2>3. Answers(ShowAll(acc_results)) \subseteq Answers(ShowAll(Final))
    BY SlotsAreLists, ShowAllMore
  <2>4. reply' = ShowAll(acc_results) /\ final = ShowAll(Final)
    BY <1>1, <2>2 DEF select_results_format_show
  <2>5. \A list : {r.answer : r \in ToSet(list)} = Answers(list)
    BY DEF ToSet, Answers
  <2>. QED
    BY <2>2, <2>3, <2>4, <2>5 DEF ShowResults
<1>. QED
  BY <1>2, <1>3 DEF Resume, ShowInv, highest_priority, final

LEMMA ShowNext ==
  ASSUME NEW Results, ShowResults(Results), AllHighestPriority, Selector = "show"
  PROVE  ShowInv(Results) /\ [Next]_vars => ShowInv(Results)'
<1>. SUFFICES ASSUME ShowInv(Results), [Next]_vars PROVE ShowInv(Results)'
  OBVIOUS
<1>1. TypeOK' /\ SlotsFinal' /\ SlotsGrow
  BY TypeNext, SlotsNext DEF ShowInv
<1>2. evt' => highest_priority(acc_results')
  <2>1. CASE evt
    BY <1>1, <2>1, HighestPriorityStable DEF ShowInv
  <2>2. CASE evt' /\ ~evt
    <3>1. PICK a \in Acc : JudgeMethod(acc_results', acc_finished', a)
      BY <2>2, EventSet DEF ShowInv
    <3>. QED
      BY <3>1 DEF JudgeMethod, AllHighestPriority
  <2>. QED
    BY <2>1, <2>2
<1>3. UNCHANGED <<outcome, disabled>>
  BY DEF Next, Loop, SkipDisabled, Start, RunToEnd, Complete, Resume, vars
<1>4. Final' = Final
  BY <1>3 DEF Final, FinalResults, Settled
<1>. HIDE DEF Final
<1>5. ASSUME Resume PROVE ShowHeadFinal'
  BY <1>4, <1>5, ShowResume DEF ShowHeadFinal
<1>6. ASSUME reply' = reply PROVE ShowHeadFinal'
  BY <1>4, <1>6 DEF ShowInv, ShowHeadFinal
<1>7. ShowHeadFinal'
  BY <1>5, <1>6 DEF Next, Loop, SkipDisabled, Start, RunToEnd, Complete, vars
<1>. QED
  BY <1>1, <1>2, <1>3, <1>7 DEF ShowInv

\* The robots' selector, which takes every distinct answer there is when the
\* request resumes, begins with the answer that a complete wait would have put
\* first and says nothing that it would not have said (ShowHeadFinal), for
\* any number of accessors and of answers of each; it raises only if that
\* would have raised as well.
THEOREM ShowStartsFinal ==
  ASSUME NEW Results, ShowResults(Results), AllHighestPriority, Selector = "show"
  PROVE  Spec => []ShowHeadFinal
<1>1. ShowInv(Results) => ShowHeadFinal
  BY DEF ShowInv
<1>. QED
  BY <1>1, ShowInit, ShowNext, PTL DEF Spec

-----------------------------------------------------------------------------
(* Somebody decides.                                                       *)

\* Where a judge asks for qrobot there is one, and it returns: the run() of
\* Qrobot catches all its exceptions, and nobody is disabled at present.
QrobotReturns(q) ==
  (\E a \in Acc : acc_tuples[a].judge = "highest_priority_for_qcloud") =>
    \E b \in Acc : acc_tuples[b].name = "qrobot" /\ b \notin q.disabled /\ q.outcome[b] # Raise

\* When the last of all accessors has finished the event is set, unless it is
\* the last one of the schedule that was left out, for whom no judge is asked.
LastOneDecides == next = N + 1 /\ running = {} /\ N \notin disabled => evt

\* Who has been started and is not at work has a list of results in its slot,
\* and is among those that have finished unless it was disabled or raised.
Over(a) == a < next /\ a \notin running

DecidesInv ==
  /\ TypeOK
  /\ SlotsFinal
  /\ QrobotReturns([outcome |-> outcome, disabled |-> disabled])
  /\ \A a \in Acc : Over(a) =>
       /\ ~Missing(acc_results[a])
       /\ a \notin disabled /\ outcome[a] # Raise => a \in acc_finished
  /\ LastOneDecides

LEMMA DecidesInit ==
  ASSUME \A q \in Queries : QrobotReturns(q)
  PROVE  Init => DecidesInv
<1>. SUFFICES ASSUME Init PROVE DecidesInv
  OBVIOUS
<1>1. PICK q \in Queries : outcome = q.outcome /\ disabled = q.disabled
  BY DEF Init
<1>2. QrobotReturns([outcome |-> outcome, disabled |-> disabled])
  BY <1>1 DEF QrobotReturns
<1>. QED
  BY <1>2, TypeInit, SlotsInit, NNat DEF Init, DecidesInv, Over, LastOneDecides

LEMMA FinalFilled == ASSUME TypeOK, NEW a \in Acc PROVE ~Missing(Final[a])
BY DEF TypeOK, Final, FinalResults, Settled, Missing

\* The judge of whoever is the last to finish says yes.
LEMMA LastJudge ==
  ASSUME DecidesInv, NEW a \in Acc,
         \A b \in Acc : ~Missing(acc_results'[b]),
         \A b \in Acc : b \notin disabled /\ outcome[b] # Raise => b \in acc_finished'
  PROVE  JudgeMethod(acc_results', acc_finished', a)
<1>1. wait_for_all(acc_results')
  BY DEF wait_for_all
<1>2. acc_tuples[a].judge \in JudgeNames
  BY AccTuples
<1>3. CASE acc_tuples[a].judge = "highest_priority_for_qcloud"
  <2>1. \E b \in acc_finished' : acc_tuples[b].name = "qrobot"
    BY <1>3 DEF DecidesInv, QrobotReturns
  <2>. QED
    BY <1>1, <1>3, <2>1 DEF JudgeMethod, highest_priority_for_qcloud, highest_priority
<1>4. CASE acc_tuples[a].judge = "wait_for_all"
  BY <1>1, <1>4 DEF JudgeMethod
<1>5. CASE acc_tuples[a].judge = "first_with_res"
  BY <1>1, <1>5 DEF JudgeMethod, first_with_res
<1>6. CASE acc_tuples[a].judge = "highest_priority"
  BY <1>1, <1>6 DEF JudgeMethod, highest_priority
<1>. QED
  BY <1>2, <1>3, <1>4, <1>5, <1>6 DEF JudgeNames

\* Whoever finishes, in the loop or behind it, is over.
LEMMA FinishOver ==
  ASSUME TypeOK, NEW a \in Acc, a \notin disabled, Finish(a)
  PROVE  /\ ~Missing(acc_results'[a]) /\ \A b \in Acc \ {a} : acc_results'[b] = acc_results[b]
         /\ outcome[a] # Raise => a \in acc_finished'
         /\ acc_finished \subseteq acc_finished'
<1>1. acc_results' = [acc_results EXCEPT ![a] = Final[a]]
  BY SlotsFill
<1>2. acc_results'[a] = Final[a] /\ \A b \in Acc \ {a} : acc_results'[b] = acc_results[b]
  BY <1>1 DEF TypeOK
<1>3. (outcome[a] # Raise => a \in acc_finished') /\ acc_finished \subseteq acc_finished'
  BY DEF Finish, Record
<1>. QED
  BY <1>2, <1>3, FinalFilled

LEMMA DecidesNext == DecidesInv /\ [Next]_vars => DecidesInv'
<1>. SUFFICES ASSUME DecidesInv, [Next]_vars PROVE DecidesInv'
  OBVIOUS
<1>. DEFINE OverRight ==
       \A a \in Acc : Over(a) =>
         /\ ~Missing(acc_results[a])
         /\ a \notin disabled /\ outcome[a] # Raise => a \in acc_finished
<1>1. TypeOK /\ TypeOK' /\ SlotsFinal' /\ OverRight /\ LastOneDecides
  BY TypeNext, SlotsNext DEF DecidesInv
<1>2. UNCHANGED <<outcome, disabled>>
  BY DEF Next, Loop, SkipDisabled, Start, RunToEnd, Complete, Resume, vars
<1>3. QrobotReturns([outcome |-> outcome, disabled |-> disabled])'
  BY <1>2 DEF DecidesInv, QrobotReturns
<1>4. ASSUME NEW a \in Acc, SkipDisabled(a) PROVE OverRight' /\ LastOneDecides'
  <2>1. /\ next = a /\ next' = a + 1 /\ a \in disabled /\ acc_results'[a] = <<NoResult(a)>>
        /\ \A b \in Acc \ {a} : acc_results'[b] = acc_results[b]
        /\ UNCHANGED <<running, acc_finished>>
    BY <1>1, <1>4 DEF SkipDisabled, TypeOK
  <2>2. OverRight'
    BY <1>1, <1>2, <2>1, NNat DEF Over, Missing
  <2>3. LastOneDecides'
    BY <1>2, <2>1, NNat DEF LastOneDecides
  <2>. QED
    BY <2>2, <2>3
<1>5. ASSUME NEW a \in Acc, Start(a) PROVE OverRight' /\ LastOneDecides'
  <2>1. /\ next = a /\ next' = a + 1 /\ running' = running \cup {a}
        /\ UNCHANGED <<acc_results, acc_finished>>
    BY <1>5 DEF Start
  <2>2. OverRight'
    BY <1>1, <1>2, <2>1, NNat DEF Over
  <2>3. LastOneDecides'
    BY <2>1 DEF LastOneDecides
  <2>. QED
    BY <2>2, <2>3
<1>6. ASSUME NEW a \in Acc, a \notin disabled, Finish(a),
             \A b \in Acc : Over(b)' => b = a \/ Over(b)
      PROVE  OverRight' /\ LastOneDecides'
  <2>1. OverRight'
    BY <1>1, <1>2, <1>6, FinishOver DEF Missing
  <2>2. ASSUME next' = N + 1, running' = {} PROVE evt'
    <3>1. \A b \in Acc : Over(b)'
      BY <2>2, NNat DEF Over
    <3>2. JudgeMethod(acc_results', acc_finished', a)
      BY <1>2, <2>1, <3>1, LastJudge DEF Missing
    <3>. QED
      BY <1>6, <3>2 DEF Finish, Judge
  <2>. QED
    BY <2>1, <2>2 DEF LastOneDecides
<1>7. ASSUME NEW a \in Acc, RunToEnd(a) PROVE OverRight' /\ LastOneDecides'
  <2>1. a \notin disabled /\ Finish(a) /\ next = a /\ next' = a + 1 /\ UNCHANGED running
    BY <1>7 DEF RunToEnd
  <2>2. \A b \in Acc : Over(b)' => b = a \/ Over(b)
    BY <2>1, NNat DEF Over
  <2>. QED
    BY <1>6, <2>1, <2>2
<1>8. ASSUME NEW a \in Acc, Complete(a) PROVE OverRight' /\ LastOneDecides'
  <2>1. a \notin disabled /\ Finish(a) /\ running' = running \ {a} /\ UNCHANGED next
    BY <1>8 DEF Complete, DecidesInv, SlotsFinal
  <2>2. \A b \in Acc : Over(b)' => b = a \/ Over(b)
    BY <2>1 DEF Over
  <2>. QED
    BY <1>6, <2>1, <2>2
<1>9. ASSUME UNCHANGED <<outcome, disabled, next, running, acc_results, acc_finished, evt>>
      PROVE  OverRight' /\ LastOneDecides'
  BY <1>1, <1>9 DEF Over, LastOneDecides
<1>10. OverRight' /\ LastOneDecides'
  BY <1>4, <1>5, <1>7, <1>8, <1>9 DEF Next, Loop, Resume, vars
<1>. QED
  BY <1>1, <1>3, <1>10 DEF DecidesInv

\* Once nobody is at work any more the request goes on, whatever the judges
\* of the schedule are, in whatever order its accessors have finished and
\* whichever of them have raised (LastOneDecides): what EventuallyReplies
\* waits for does not depend on anyone still to come.
THEOREM SomebodyDecides ==
  ASSUME \A q \in Queries : QrobotReturns(q)
  PROVE  Spec => []LastOneDecides
<1>1. DecidesInv => LastOneDecides
  BY DEF DecidesInv
<1>. QED
  BY <1>1, DecidesInit, DecidesNext, PTL DEF Spec
=============================================================================
