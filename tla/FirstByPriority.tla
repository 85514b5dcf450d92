--------------------------- MODULE FirstByPriority ---------------------------
(***************************************************************************)
(* What a schedule whose judges are all highest_priority promises: the     *)
(* reply to a query depends on what the accessors have to say and on their *)
(* priority order, never on the order in which they say it.  There is no   *)
(* notion of arrival here; the reply appears in one step.                  *)
(***************************************************************************)
EXTENDS Selectors

CONSTANTS
  Selector,  \* the selector of the source
  from_lang, \* the language of the request
  Pending    \* no reply yet

VARIABLES
  outcome,   \* what each accessor has to say about this query
  disabled,  \* the accessors switched off for it
  reply      \* what do_chat gets from strategy and select_results

\* Any query: outcome and disabled are its inputs.
Init == reply = Pending

Answer ==
  /\ reply = Pending
  /\ reply' = select_results(Selector, FinalResults(outcome, disabled), from_lang)
  /\ UNCHANGED <<outcome, disabled>>

Spec == Init /\ [][Answer]_<<outcome, disabled, reply>>
=============================================================================
