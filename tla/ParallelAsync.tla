---------------------------- MODULE ParallelAsync ----------------------------
(***************************************************************************)
(* parallel_async (src/bin/accessor/accessor.py), which every accessor     *)
(* calls to reach its downstreams, on the WaitIterator of tornado          *)
(* (src/lib/tornado/gen.py).                                               *)
(*                                                                         *)
(* The loop yields a future of the iterator, the running future, and reads *)
(* result and index off it when it goes on.  A response runs               *)
(* _done_callback at once; the loop goes on later, by a callback of the    *)
(* event loop, and other responses may come in between: these, and those   *)
(* that come while there is no running future, wait in _finished.          *)
(*                                                                         *)
(* ret holds pairs of a body, None in case of an error, and an id.         *)
(***************************************************************************)
EXTENDS Integers, Sequences, SequencesExt, FiniteSets

CONSTANTS
  Requests,      \* the indices of async_reqs_param_list
  Bodies,        \* what the downstreams may say
  Hits,          \* those of them in which web_search finds an answer
  None,          \* None
  Pending        \* a future that is not done

ASSUME RequestsAssumption ==
  /\ IsFiniteSet(Requests) /\ Hits \subseteq Bodies
  /\ None \notin Bodies /\ {None, Pending} \cap Requests = {} /\ None # Pending

VARIABLES
  body,            \* what every request will get, None for an error or a timeout
  wait_for_all,
  _unfinished,     \* requests whose results have not been handed out
  _finished,       \* responses that wait to be
  _running_future, \* the request it has its result from, or Pending, or None
  current_index,
  ret,
  pc,              \* "loop", "yield" while it waits, "returned"; "on" when the
                   \* future it yields is done already and it goes on at once
  arrived          \* history: the requests in the order of their responses

iterator == <<_unfinished, _finished, _running_future, current_index>>
vars     == <<body, wait_for_all, iterator, ret, pc, arrived>>

TypeOK ==
  /\ body \in [Requests -> Bodies \cup {None}] /\ wait_for_all \in BOOLEAN
  /\ _unfinished \subseteq Requests
  /\ _finished \in Seq(Requests)
  /\ _running_future \in Requests \cup {None, Pending}
  /\ current_index \in Requests \cup {None}
  /\ ret \in Seq((Bodies \cup {None}) \X (Requests \cup {None}))
  /\ pc \in {"loop", "yield", "on", "returned"}
  /\ arrived \in Seq(Requests)

Init ==
  /\ body \in [Requests -> Bodies \cup {None}]
  /\ wait_for_all \in BOOLEAN
  /\ _unfinished = Requests /\ _finished = <<>>
  /\ _running_future = None /\ current_index = None
  /\ ret = <<>> /\ pc = "loop" /\ arrived = <<>>

-----------------------------------------------------------------------------
(* WaitIterator.                                                           *)

\* _return_result
HandOut(i) ==
  /\ _running_future' = i
  /\ current_index' = i
  /\ _unfinished' = _unfinished \ {i}

\* Mutant: the iterator does not ask whether the running future is done.
RespondAnyway(i) ==
  /\ pc \in {"yield", "returned"} /\ i \notin ToSet(arrived)
  /\ arrived' = Append(arrived, i)
  /\ _running_future' = IF _running_future = Pending THEN i ELSE _running_future
  /\ current_index' = i
  /\ _unfinished' = _unfinished \ {i}
  /\ UNCHANGED <<body, wait_for_all, ret, pc, _finished>>

\* A response, an error or the timeout of a request: _done_callback.
Respond(i) ==
  /\ pc \in {"yield", "returned"} /\ i \notin ToSet(arrived)
  /\ arrived' = Append(arrived, i)
  /\ IF _running_future = Pending
     THEN HandOut(i) /\ UNCHANGED _finished
     ELSE /\ _finished' = Append(_finished, i)
          /\ UNCHANGED <<_unfinished, _running_future, current_index>>
  /\ UNCHANGED <<body, wait_for_all, ret, pc>>

-----------------------------------------------------------------------------
(* The loop.                                                               *)

\* done(): there is nothing left.
Return ==
  /\ pc = "loop" /\ _finished = <<>> /\ _unfinished = {}
  /\ pc' = "returned"
  /\ current_index' = None
  /\ UNCHANGED <<body, wait_for_all, _unfinished, _finished, _running_future, ret, arrived>>

\* Mutant: next() does not look for those that wait.
NextWaits ==
  /\ pc = "loop" /\ ~(_finished = <<>> /\ _unfinished = {})
  /\ pc' = "yield"
  /\ _running_future' = Pending
  /\ UNCHANGED <<body, wait_for_all, ret, arrived, _unfinished, _finished, current_index>>

\* next() and the yield of its future
NextFuture ==
  /\ pc = "loop" /\ ~(_finished = <<>> /\ _unfinished = {})
  /\ pc' = IF _finished # <<>> THEN "on" ELSE "yield"
  /\ IF _finished # <<>>
     THEN HandOut(Head(_finished)) /\ _finished' = Tail(_finished)
     ELSE /\ _running_future' = Pending
          /\ UNCHANGED <<_unfinished, _finished, current_index>>
  /\ UNCHANGED <<body, wait_for_all, ret, arrived>>

\* Mutant: the loop is left after an error as well.
ResumeOnce ==
  /\ pc \in {"yield", "on"} /\ _running_future \in Requests
  /\ ret' = Append(ret, <<body[_running_future], current_index>>)
  /\ pc' = IF wait_for_all THEN "loop" ELSE "returned"
  /\ UNCHANGED <<body, wait_for_all, iterator, arrived>>

\* The yield returns the result or raises the error; either has the index that
\* is current by now, and only a result ends the loop before its time.
Resume ==
  /\ pc \in {"yield", "on"} /\ _running_future \in Requests
  /\ ret' = Append(ret, <<body[_running_future], current_index>>)
  /\ pc' = IF body[_running_future] # None /\ ~wait_for_all THEN "returned" ELSE "loop"
  /\ UNCHANGED <<body, wait_for_all, iterator, arrived>>

Next == Return \/ NextFuture \/ Resume \/ \E i \in Requests : Respond(i)

(***************************************************************************)
(* A request has a timeout of three seconds; the event loop goes on.       *)
(***************************************************************************)
Fairness ==
  /\ WF_vars(Return \/ NextFuture \/ Resume)
  /\ \A i \in Requests : WF_vars(Respond(i))

Spec == Init /\ [][Next]_vars /\ Fairness

-----------------------------------------------------------------------------
(* web_search (src/bin/accessor/acc_web_search.py) has two requests, told  *)
(* apart by the id: an answer is taken from 0, the online search, none     *)
(* from 1.  One debug_info gets the id of every result in turn.            *)

\* get_web_search_result makes something of this result.
Online(r) == r[1] # None /\ r[2] = 0

\* Mutant: the answer goes out with the debug_info that all results share.
content_shared(r) == [answer |-> IF r[1] \in Hits THEN r[1] ELSE None, id |-> Last(ret)[2]]

\* parse_content_online: an answer has a copy of debug_info as it is then;
\* without an answer, debug_info itself is returned, and written to later.
parse_content_online(r) ==
  IF r[1] \in Hits THEN [answer |-> r[1], id |-> r[2]]
  ELSE [answer |-> None, id |-> Last(ret)[2]]

\* What run() returns: rets[k] is what it has after k results.
web_search ==
  LET rets[k \in 0..Len(ret)] ==
        IF k = 0 THEN <<>>
        ELSE IF Online(ret[k]) THEN Append(rets[k - 1], parse_content_online(ret[k]))
        ELSE rets[k - 1]
  IN  IF rets[Len(ret)] = <<>> THEN <<[answer |-> None, id |-> Last(ret)[2]]>>
      ELSE rets[Len(ret)]

-----------------------------------------------------------------------------
(* Properties.                                                             *)

\* The result that the loop has not appended yet.
Handing ==
  IF pc \in {"yield", "on"} /\ _running_future \in Requests THEN <<_running_future>> ELSE <<>>

\* Nothing gets lost, doubled or out of order between the callbacks and the
\* loop: the results appended, the one about to be and those that wait are
\* the responses in the order in which they came.
InOrderOfArrival ==
  pc # "returned" \/ wait_for_all =>
    [k \in DOMAIN ret |-> ret[k][2]] \o Handing \o _finished = arrived

\* The id with a body is that of its request, although the body is read off
\* one object and the id off another, after other responses have come.
OwnBody == \A k \in DOMAIN ret : ret[k][2] \in Requests /\ ret[k][1] = body[ret[k][2]]

\* With wait_for_all there is a result of every request in the end.  Without,
\* there is nothing behind the first body, and there is one if anybody had any.
CompleteAtEnd ==
  pc = "returned" =>
    \/ {ret[k][2] : k \in DOMAIN ret} = Requests
    \/ ~wait_for_all /\ \A k \in DOMAIN ret : ret[k][1] # None <=> k = Len(ret)

\* parallel_async comes back.
Returns == <>(pc = "returned")

\* web_search answers what its online search says, under the id of that, in
\* whatever order the two respond and whatever becomes of the other.
OnlineAlone ==
  pc = "returned" /\ wait_for_all /\ 0 \in Requests =>
    web_search = <<IF body[0] \in Hits THEN [answer |-> body[0], id |-> 0]
                   ELSE [answer |-> None, id |-> Last(arrived)]>>
=============================================================================
