--------------------------- MODULE SessionContext ---------------------------
(***************************************************************************)
(* The context of a conversation, as SessionManager keeps it               *)
(* (src/bin/intervene/session_manager.py).                                 *)
(*                                                                         *)
(* history holds the utterances of the user and of the robot, two for each *)
(* turn; the model tags an entry with the user and the request it comes    *)
(* from, which the code does not store.  Times are left out: the interval  *)
(* after which add would drop the history is sys.maxint everywhere.        *)
(***************************************************************************)
EXTENDS Integers, Sequences

CONSTANT
  MaxTurn   \* _max_turn: how many utterances a context keeps

\* A fresh DEFAULT_CONTEXT.
EmptyContext == [history |-> <<>>, last_from |-> "", in_session |-> FALSE]

\* The query of request r and the answer to it.
Turn(u, r, from) ==
  <<[by |-> u, request |-> r, from |-> "user"], [by |-> u, request |-> r, from |-> from]>>

\* Mutant: the slice is off by one.
TrimShort(history) ==
  IF Len(history) < MaxTurn THEN history
  ELSE SubSeq(history, Len(history) - MaxTurn + 2, Len(history))

\* Mutant: nothing is cut off.
TrimNone(history) == history

\* history[0-self._max_turn:]
Trim(history) ==
  IF Len(history) <= MaxTurn THEN history
  ELSE SubSeq(history, Len(history) - MaxTurn + 1, Len(history))

\* Mutant: the history starts again with each turn.
AddedReset(context, u, r, from) ==
  [context EXCEPT !.history = Turn(u, r, from), !.last_from = from]

\* What add makes of the context it is given, before storing it.
Added(context, u, r, from) ==
  [history |-> Trim(context.history \o Turn(u, r, from)), last_from |-> from,
   in_session |-> context.in_session]

\* The channels after which the next query belongs to a skill, within the ten
\* minutes that `recent` stands for; the flag of GroupSpecialSkill has no
\* such limit.
is_user_last_intent_is_skill(context, recent) ==
  \/ context.last_from = "special_skill" /\ recent
  \/ context.in_session
=============================================================================
