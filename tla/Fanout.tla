------------------------------- MODULE Fanout -------------------------------
(***************************************************************************)
(* One request asking all the accessors of its schedule in parallel:       *)
(* FutureHandler._accParallelAsync, _request_downstream, strategy and the  *)
(* selection at the end of do_chat (src/bin/chathub.py).                   *)
(*                                                                         *)
(* _accParallelAsync walks through acc_tuples without yielding: a disabled *)
(* accessor gets an empty result at once; any other one is started, and    *)
(* runs up to its first pending future or, when it needs no downstream     *)
(* request for this query, to its end.  Every accessor that finishes calls *)
(* the judge, which may set the event the request waits for.  The          *)
(* accessors still running when the event is set are not cancelled: they   *)
(* go on writing into the list of results that the request reads when the  *)
(* event loop gets back to it.                                             *)
(*                                                                         *)
(* outcome fixes beforehand what each accessor is going to return for this *)
(* query, so that what is left to chance is the order in which they        *)
(* return; the code never looks at it before the accessor has finished.    *)
(* acc_results is <<>> where Python has None.  The code updates a slot     *)
(* under a lock that is never contended (no yield while it is held), so    *)
(* the lock is left out.                                                   *)
(***************************************************************************)
EXTENDS Judges, Selectors, FiniteSets

CONSTANTS
  Queries,   \* the possible [outcome |-> .., disabled |-> ..]
  Selector,  \* the selector of the source
  from_lang, \* the language of the request
  Pending    \* the reply while there is none

ASSUME AccTuples ==
  /\ N \in Nat \ {0} /\ Acc = 1..N
  /\ \A a \in Acc : acc_tuples[a].judge \in JudgeNames

\* No run() returns an empty list: each ends in `if rets == []: rets = [(None, ..)]`.
ASSUME QueriesType ==
  \A q \in Queries :
    /\ \A a \in Acc : q.outcome[a] # Raise => ~Missing(q.outcome[a])
    /\ q.disabled \subseteq Acc

VARIABLES
  outcome,      \* what run() is going to return, by accessor
  disabled,     \* acc_params["disabled"]
  next,         \* the position of the loop of _accParallelAsync
  running,      \* accessors waiting for a downstream
  acc_results,  \* the slots
  acc_status,   \* "none" where Python has None
  acc_finished, \* accessors that returned without raising
  evt,          \* self.evt
  reply         \* the selected results once the request went on

vars == <<outcome, disabled, next, running, acc_results, acc_status, acc_finished,
          evt, reply>>

Final == FinalResults(outcome, disabled)

TypeOK ==
  /\ disabled \subseteq Acc
  /\ \A a \in Acc : outcome[a] # Raise => ~Missing(outcome[a])
  /\ next \in 1..(N + 1)
  /\ running \subseteq Acc
  /\ acc_results = [a \in Acc |-> acc_results[a]]
  /\ acc_status \in [Acc -> {"none", "disabled", "done", "timeout"}]
  /\ acc_finished \subseteq Acc
  /\ evt \in BOOLEAN

Init ==
  /\ \E q \in Queries : outcome = q.outcome /\ disabled = q.disabled
  /\ next = 1
  /\ running = {}
  /\ acc_results = [a \in Acc |-> <<>>]
  /\ acc_status = [a \in Acc |-> "none"]
  /\ acc_finished = {}
  /\ evt = FALSE
  /\ reply = Pending

-----------------------------------------------------------------------------
(* _request_downstream after run() has returned or raised.                 *)

\* the try and the except branch
Record(a) ==
  /\ acc_results' = [acc_results EXCEPT ![a] = Settled(outcome, {}, a)]
  /\ IF outcome[a] = Raise
     THEN /\ acc_status' = [acc_status EXCEPT ![a] = "timeout"]
          /\ UNCHANGED acc_finished
     ELSE /\ acc_status' = [acc_status EXCEPT ![a] = "done"]
          /\ acc_finished' = acc_finished \cup {a}

\* Mutant: the judge is called at the end of the try branch.
JudgeDone(a) ==
  evt' = (evt \/ (outcome[a] # Raise /\ JudgeMethod(acc_results', acc_finished', a)))

\* the finally branch
Judge(a) == evt' = (evt \/ JudgeMethod(acc_results', acc_finished', a))

Finish(a) == Record(a) /\ Judge(a)

-----------------------------------------------------------------------------
(* The loop of _accParallelAsync.                                          *)

SkipDisabled(a) ==
  /\ next = a /\ a \in disabled
  /\ next' = a + 1
  /\ acc_results' = [acc_results EXCEPT ![a] = <<NoResult(a)>>]
  /\ acc_status' = [acc_status EXCEPT ![a] = "disabled"]
  /\ UNCHANGED <<outcome, disabled, running, acc_finished, evt, reply>>

\* Mutant: the index moves twice.
StartTwice(a) ==
  /\ next = a /\ a \notin disabled
  /\ next' = a + 2
  /\ running' = running \cup {a}
  /\ UNCHANGED <<outcome, disabled, acc_results, acc_status, acc_finished, evt, reply>>

\* run() stops at a pending future.
Start(a) ==
  /\ next = a /\ a \notin disabled
  /\ next' = a + 1
  /\ running' = running \cup {a}
  /\ UNCHANGED <<outcome, disabled, acc_results, acc_status, acc_finished, evt, reply>>

\* run() needs no downstream for this query and ends within the loop.
RunToEnd(a) ==
  /\ next = a /\ a \notin disabled
  /\ next' = a + 1
  /\ Finish(a)
  /\ UNCHANGED <<outcome, disabled, running, reply>>

\* The loop is over, the event loop runs: an accessor gets its response.
Complete(a) ==
  /\ next = N + 1 /\ a \in running
  /\ running' = running \ {a}
  /\ Finish(a)
  /\ UNCHANGED <<outcome, disabled, next, reply>>

\* `yield self.evt.wait()` returns: strategy ends and do_chat selects.
Resume ==
  /\ next = N + 1 /\ evt /\ reply = Pending
  /\ reply' = select_results(Selector, acc_results, from_lang)
  /\ UNCHANGED <<outcome, disabled, next, running, acc_results, acc_status,
                 acc_finished, evt>>

Loop(a) == SkipDisabled(a) \/ Start(a) \/ RunToEnd(a)

Next == Resume \/ \E a \in Acc : Loop(a) \/ Complete(a)

(***************************************************************************)
(* The loop does not yield, so it ends.  Every downstream request has a    *)
(* request_timeout (AsyncReqsParam, 3 s), after which run() ends as well.  *)
(* A resolved future is run by the next iteration of the event loop.       *)
(***************************************************************************)
Fairness ==
  /\ WF_vars(Resume)
  /\ \A a \in Acc : WF_vars(Loop(a)) /\ WF_vars(Complete(a))

Spec == Init /\ [][Next]_vars /\ Fairness

-----------------------------------------------------------------------------
(* Properties.                                                             *)

\* The request does not wait for all its accessors, and yet the reply is the
\* one it would have selected had it waited: no accessor that is still at
\* work when the judge says yes can change the answer, whatever it returns
\* and whenever it writes into the shared list of results.  Holds for the
\* schedules whose judges are all highest_priority and whose selector takes
\* the first answer, and for those that wait_for_all.
EarlyReturnSound ==
  reply # Pending => reply = select_results(Selector, Final, from_lang)

\* The schedule of the first answer by priority, implemented by arrival.
ByPriority == INSTANCE FirstByPriority
Implements == ByPriority!Spec

\* The event is set in the end, so the request is answered, unless the last
\* accessor of the schedule is disabled (the judge is never called for a
\* disabled accessor, so nobody looks at the results after it).
EventuallyReplies == (N \notin disabled) => <>(reply # Pending)

\* A schedule that waits for all its accessors leaves none running behind
\* the reply (weimi, board): what select_results reads does not move.
NoStraggler == reply # Pending => running = {}

\* A default answer goes out only if every accessor has kept silent, under
\* any mix of judges: the first one to answer is enough to rule it out.
DefaultOnlyWhenSilent ==
  reply # Pending => (reply[1].from = "default" => ~SomeAnswer(Final))

\* The robots' selector takes every answer there is at the time.  How many
\* of the later ones make it depends on their speed; the first one never
\* does, and nothing is said that a complete wait would not have said.
ShowHeadFinal ==
  reply # Pending =>
    LET final == select_results(Selector, Final, from_lang)
    IN IF final = Raise THEN reply = Raise
       ELSE /\ reply # Raise
            /\ reply[1] = final[1]
            /\ {r.answer : r \in ToSet(reply)} \subseteq {r.answer : r \in ToSet(final)}

\* qcloud means a user-generated answer of web_search to give way to a good
\* one of qrobot, and its judge makes web_search wait for qrobot.  Another
\* accessor finishing between the two lets the request go on without
\* qrobot; this is the only way in which the reply can depend on the order
\* of arrival.
LosesOnlyQrobot ==
  reply' # reply =>
    LET final == select_results(Selector, Final, from_lang)
    IN \/ reply' = final
       \/ /\ reply'[1].from = "web_search" /\ reply'[1].ugc
          /\ final[1].from = "qrobot" /\ final[1].level <= 2
          /\ \E a \in Acc : acc_tuples[a].name = "qrobot" /\ Missing(acc_results[a])
=============================================================================
