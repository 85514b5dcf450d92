--------------------------- MODULE AccessorResults ---------------------------
(***************************************************************************)
(* What the accessors of a schedule hand back to the dispatcher.           *)
(*                                                                         *)
(* A schedule lists its accessors in priority order: acc_tuples is a       *)
(* sequence of (accessor, judge method) pairs; the third component of the  *)
(* Python tuple, the timeout, is passed along by the code and read by      *)
(* nothing, so it is left out.  Accessor.run returns a list of             *)
(* (answer, debug_info) pairs, kept here as a sequence of records with the *)
(* fields the judges and the selectors look at:                            *)
(*   answer  NoAnswer stands for None or "" (both are falsy),              *)
(*   from    debug_info["from"], the channel of the answer,                *)
(*   ugc     debug_info.get("is_ugc", True),                               *)
(*   level   debug_info["level"], set by qrobot only.                      *)
(***************************************************************************)
EXTENDS Integers, Sequences

CONSTANTS
  acc_tuples,  \* sequence of [name |-> accessor name, judge |-> judge name]
  NoAnswer,    \* the answer None
  Raise        \* the outcome of a run() that raises instead of returning

Acc == DOMAIN acc_tuples
N   == Len(acc_tuples)

HasAnswer(r) == r.answer # NoAnswer

\* `for res in result_list: if res["answer"]`
Answered(list) == \E k \in DOMAIN list : HasAnswer(list[k])

\* `if not result_list`: true of None, the initial slot, and of [].
Missing(list) == list = <<>>

\* What the dispatcher puts in the slot of an accessor that gives nothing.
NoResult(a) == [answer |-> NoAnswer, from |-> acc_tuples[a].name, ugc |-> TRUE, level |-> 0]

\* The list that ends up in the slot of accessor a.
Settled(outcome, disabled, a) ==
  IF a \in disabled \/ outcome[a] = Raise THEN <<NoResult(a)>> ELSE outcome[a]

\* The slots once every accessor has finished.
FinalResults(outcome, disabled) == [a \in Acc |-> Settled(outcome, disabled, a)]
=============================================================================
