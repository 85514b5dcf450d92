------------------------------ MODULE FetchOnce ------------------------------
(***************************************************************************)
(* What a request to a downstream promises the accessor that has made it:  *)
(* one result, a response or an error, in the end.  This is the Respond of *)
(* ParallelAsync, with the fairness that is assumed of it there.           *)
(***************************************************************************)
VARIABLE result

Init == result = "pending"

Answer == result = "pending" /\ result' \in {"response", "error"}

Spec == Init /\ [][Answer]_result /\ WF_result(Answer)
=============================================================================
