------------------------------- MODULE Judges -------------------------------
(***************************************************************************)
(* The judge methods of schedules.py.  A judge is called each time an      *)
(* accessor finishes and says whether the request can be answered now.     *)
(* acc_results maps each accessor to its list (<<>> while it has none),    *)
(* acc_finished is the set of accessors that returned without raising,     *)
(* curr is the accessor that has just finished.                            *)
(***************************************************************************)
EXTENDS AccessorResults

\* Mutant: the loop looks at the last slot only.
wait_for_last(acc_results) == ~Missing(acc_results[N])

wait_for_all(acc_results) == \A a \in Acc : ~Missing(acc_results[a])

\* Mutant: any result list will do, the empty answer included.
first_to_finish(acc_results, curr) == ~Missing(acc_results[curr])

first_with_res(acc_results, curr) ==
  Answered(acc_results[curr]) \/ wait_for_all(acc_results)

\* Mutant: the loop skips the missing slots instead of giving up.
any_priority(acc_results) ==
  wait_for_all(acc_results) \/ \E a \in Acc : Answered(acc_results[a])

\* The walk through the slots meets an answer before any missing list.
highest_priority(acc_results) ==
  \/ wait_for_all(acc_results)
  \/ \E a \in Acc :
       /\ Answered(acc_results[a])
       /\ \A b \in 1..(a - 1) : ~Missing(acc_results[b]) /\ ~Answered(acc_results[b])

\* Mutant: only qrobot may let the request go on.
qrobot_decides(acc_results, acc_finished, curr) ==
  /\ acc_tuples[curr].name = "qrobot"
  /\ highest_priority(acc_results)

highest_priority_for_qcloud(acc_results, acc_finished, curr) ==
  /\ acc_tuples[curr].name = "web_search" =>
       \E b \in acc_finished : acc_tuples[b].name = "qrobot"
  /\ highest_priority(acc_results)

JudgeNames == {"wait_for_all", "first_with_res", "highest_priority",
               "highest_priority_for_qcloud"}

\* The judge of the tuple of accessor a, called when a has finished.
JudgeMethod(acc_results, acc_finished, a) ==
  CASE acc_tuples[a].judge = "wait_for_all"     -> wait_for_all(acc_results)
    [] acc_tuples[a].judge = "first_with_res"   -> first_with_res(acc_results, a)
    [] acc_tuples[a].judge = "highest_priority" -> highest_priority(acc_results)
    [] acc_tuples[a].judge = "highest_priority_for_qcloud" ->
         highest_priority_for_qcloud(acc_results, acc_finished, a)
=============================================================================
