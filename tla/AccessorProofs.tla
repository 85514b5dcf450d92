--------------------------- MODULE AccessorProofs ---------------------------
(***************************************************************************)
(* Theorems about ParallelAsync, for any number of requests: the results   *)
(* come in the order of arrival, each under its own id, and are complete   *)
(* in the end, the loop never waits for nobody, and web_search answers     *)
(* what its online search says; and about WeatherCache, for any number of  *)
(* cities, days and queries under way at once.                             *)
(***************************************************************************)
EXTENDS ParallelAsync, WeatherCache, Loops, SequenceTheorems, TLAPS

\* The ids of the results so far.
Ids == [k \in DOMAIN ret |-> ret[k][2]]

\* Where the loop is tells whether there is a running future, and whether it
\* is done; no response waits while it is not.
Running ==
  /\ _running_future = Pending => pc = "yield" /\ _finished = <<>>
  /\ pc \in {"yield", "on"} /\ _running_future \in Requests => current_index = _running_future
  /\ pc = "yield" => _running_future # None
  /\ pc = "on" => _running_future \in Requests

\* What is not yet handed out is still owed, until the loop is left.
Owed ==
  pc # "returned" =>
    \A i \in Requests \ _unfinished :
      \/ \E k \in DOMAIN ret : ret[k][2] = i
      \/ pc \in {"yield", "on"} /\ _running_future = i

\* A loop that looks for one body goes on as long as there has been none.
NoneYet == pc # "returned" /\ ~wait_for_all => \A k \in DOMAIN ret : ret[k][1] = None

Inv == TypeOK /\ Running /\ Owed /\ NoneYet /\ OwnBody /\ CompleteAtEnd

-----------------------------------------------------------------------------
(* Sequences.                                                              *)

LEMMA AppendedLast ==
  ASSUME NEW S, NEW s \in Seq(S), NEW x \in S
  PROVE  /\ Append(s, x) \in Seq(S)
         /\ DOMAIN Append(s, x) = DOMAIN s \cup {Len(s) + 1}
         /\ Len(s) + 1 \notin DOMAIN s
         /\ Len(Append(s, x)) = Len(s) + 1
         /\ Append(s, x)[Len(s) + 1] = x
         /\ \A k \in DOMAIN s : Append(s, x)[k] = s[k]
OBVIOUS

LEMMA ConcatAppend ==
  ASSUME NEW S, NEW s \in Seq(S), NEW t \in Seq(S), NEW x \in S
  PROVE  s \o Append(t, x) = Append(s \o t, x)
OBVIOUS

LEMMA ConcatHead ==
  ASSUME NEW S, NEW s \in Seq(S), NEW t \in Seq(S), t # <<>>
  PROVE  s \o t = (s \o <<Head(t)>>) \o Tail(t)
OBVIOUS

-----------------------------------------------------------------------------
(* Types, ids and completeness.                                            *)

LEMMA InvInit == Init => Inv
BY RequestsAssumption
   DEF Init, Inv, TypeOK, Running, Owed, NoneYet, OwnBody, CompleteAtEnd

LEMMA InvRespond ==
  ASSUME Inv, NEW i \in Requests, Respond(i)
  PROVE  Inv'
<1>. USE RequestsAssumption DEF Inv, Respond, HandOut
<1>1. TypeOK'
  <2>1. arrived' \in Seq(Requests) /\ Append(_finished, i) \in Seq(Requests)
    BY AppendedLast DEF TypeOK
  <2>2. CASE _running_future = Pending
    BY <2>1, <2>2 DEF TypeOK
  <2>3. CASE _running_future # Pending
    BY <2>1, <2>3 DEF TypeOK
  <2>. QED
    BY <2>2, <2>3
<1>2. Running'
  BY DEF TypeOK, Running
<1>3. Owed'
  BY DEF Running, Owed
<1>4. NoneYet' /\ OwnBody' /\ CompleteAtEnd'
  BY DEF NoneYet, OwnBody, CompleteAtEnd
<1>. QED
  BY <1>1, <1>2, <1>3, <1>4

LEMMA InvNextFuture ==
  ASSUME Inv, NextFuture
  PROVE  Inv'
<1>. USE RequestsAssumption DEF Inv, NextFuture, HandOut
<1>1. CASE _finished = <<>>
  BY <1>1 DEF TypeOK, Running, Owed, NoneYet, OwnBody, CompleteAtEnd
<1>2. CASE _finished # <<>>
  <2>1. Head(_finished) \in Requests /\ Tail(_finished) \in Seq(Requests)
    BY <1>2, HeadTailProperties DEF TypeOK
  <2>2. TypeOK' /\ Running'
    BY <1>2, <2>1 DEF TypeOK, Running
  <2>3. Owed' /\ NoneYet' /\ OwnBody' /\ CompleteAtEnd'
    BY <1>2, <2>1 DEF Owed, NoneYet, OwnBody, CompleteAtEnd
  <2>. QED
    BY <2>2, <2>3
<1>. QED
  BY <1>1, <1>2

LEMMA InvResume ==
  ASSUME Inv, Resume
  PROVE  Inv'
<1>. DEFINE r == <<body[_running_future], current_index>>
            S == (Bodies \cup {None}) \X (Requests \cup {None})
            n == Len(ret) + 1
<1>. USE RequestsAssumption DEF Inv, Resume, iterator
<1>1. r \in S /\ r[1] = body[_running_future] /\ r[2] = _running_future
  BY DEF TypeOK, Running
<1>2. /\ ret' \in Seq(S) /\ DOMAIN ret' = DOMAIN ret \cup {n} /\ n \notin DOMAIN ret
      /\ Len(ret') = n /\ ret'[n] = r /\ \A k \in DOMAIN ret : ret'[k] = ret[k]
  <2>1. ret \in Seq(S) /\ ret' = Append(ret, r)
    BY DEF TypeOK
  <2>. HIDE DEF r, S
  <2>. QED
    BY <1>1, <2>1, AppendedLast
<1>. HIDE DEF r, S, n
<1>3. TypeOK' /\ Running'
  BY <1>2 DEF TypeOK, Running, S
<1>4. Owed'
  BY <1>1, <1>2 DEF Owed
<1>5. OwnBody'
  BY <1>1, <1>2 DEF OwnBody, TypeOK
<1>6. NoneYet' /\ CompleteAtEnd'
  BY <1>1, <1>2 DEF NoneYet, CompleteAtEnd, TypeOK
<1>. QED
  BY <1>3, <1>4, <1>5, <1>6

LEMMA InvReturn ==
  ASSUME Inv, Return
  PROVE  Inv'
<1>. USE RequestsAssumption DEF Inv, Return
<1>1. TypeOK' /\ Running' /\ Owed' /\ NoneYet' /\ OwnBody'
  BY DEF TypeOK, Running, Owed, NoneYet, OwnBody
<1>2. {ret[k][2] : k \in DOMAIN ret} = Requests
  BY DEF Owed, OwnBody
<1>. QED
  BY <1>1, <1>2 DEF CompleteAtEnd

LEMMA InvStep == Inv /\ [Next]_vars => Inv'
<1>. SUFFICES ASSUME Inv, [Next]_vars PROVE Inv'
  OBVIOUS
<1>1. CASE UNCHANGED vars
  BY <1>1 DEF Inv, TypeOK, Running, Owed, NoneYet, OwnBody, CompleteAtEnd, vars, iterator
<1>. QED
  BY <1>1, InvRespond, InvNextFuture, InvResume, InvReturn DEF Next

LEMMA Invariance == Spec => []Inv
BY InvInit, InvStep, PTL DEF Spec

-----------------------------------------------------------------------------
(* The order.                                                              *)

LEMMA IdsType ==
  ASSUME Inv
  PROVE  Ids \in Seq(Requests) /\ Handing \in Seq(Requests) /\ _finished \in Seq(Requests)
<1>1. DOMAIN ret = 1..Len(ret) /\ Len(ret) \in Nat
  BY DEF Inv, TypeOK
<1>2. \A k \in DOMAIN ret : ret[k][2] \in Requests
  BY DEF Inv, OwnBody
<1>. QED
  BY <1>1, <1>2 DEF Inv, TypeOK, Ids, Handing

\* What the loop has appended and what it is about to append.
Given == Ids \o Handing

LEMMA OrderInit == Init => InOrderOfArrival
BY RequestsAssumption DEF Init, InOrderOfArrival, Handing

LEMMA OrderRespond ==
  ASSUME Inv, InOrderOfArrival, NEW i \in Requests, Respond(i)
  PROVE  InOrderOfArrival'
<1>. SUFFICES ASSUME pc # "returned" \/ wait_for_all
              PROVE  (Given \o _finished)' = Append(Given \o _finished, i)
  BY DEF InOrderOfArrival, Given, Ids, Respond
<1>1. Ids \in Seq(Requests) /\ Handing \in Seq(Requests) /\ _finished \in Seq(Requests)
      /\ Given \in Seq(Requests)
  BY IdsType DEF Given
<1>2. Ids' = Ids
  BY DEF Ids, Respond
<1>3. CASE _running_future = Pending
  <2>1. Handing = <<>> /\ Handing' = <<i>> /\ _finished = <<>> /\ _finished' = <<>>
    BY <1>3, RequestsAssumption DEF Handing, Respond, HandOut, Inv, Running
  <2>2. Given = Ids /\ Given' = Append(Ids, i)
    BY <1>1, <1>2, <2>1 DEF Given
  <2>. QED
    BY <1>1, <2>1, <2>2
<1>4. CASE _running_future # Pending
  <2>1. Handing' = Handing /\ _finished' = Append(_finished, i)
    BY <1>4 DEF Handing, Respond
  <2>2. Given' = Given
    BY <1>2, <2>1 DEF Given
  <2>. QED
    BY <1>1, <2>1, <2>2, ConcatAppend
<1>. QED
  BY <1>3, <1>4

LEMMA OrderNextFuture ==
  ASSUME Inv, InOrderOfArrival, NextFuture
  PROVE  InOrderOfArrival'
<1>. SUFFICES (Given \o _finished)' = Given \o _finished
  BY DEF InOrderOfArrival, Given, Ids, NextFuture
<1>1. Ids \in Seq(Requests) /\ _finished \in Seq(Requests)
  BY IdsType
<1>2. Ids' = Ids /\ Handing = <<>> /\ Given = Ids
  BY <1>1 DEF Ids, Handing, Given, NextFuture
<1>3. CASE _finished = <<>>
  BY <1>2, <1>3, RequestsAssumption DEF NextFuture, Handing, Given
<1>4. CASE _finished # <<>>
  <2>1. Head(_finished) \in Requests
    BY <1>1, <1>4, HeadTailProperties
  <2>2. Handing' = <<Head(_finished)>> /\ _finished' = Tail(_finished)
    BY <1>4, <2>1 DEF NextFuture, HandOut, Handing
  <2>. QED
    BY <1>1, <1>2, <1>4, <2>2, ConcatHead DEF Given
<1>. QED
  BY <1>3, <1>4

LEMMA OrderResume ==
  ASSUME Inv, InOrderOfArrival, Resume
  PROVE  InOrderOfArrival'
<1>. DEFINE r == <<body[_running_future], current_index>>
            S == (Bodies \cup {None}) \X (Requests \cup {None})
<1>1. r \in S /\ r[2] = _running_future /\ _running_future \in Requests
  BY DEF Inv, TypeOK, Running, Resume
<1>2. ret \in Seq(S) /\ ret' = Append(ret, r)
  BY DEF Inv, TypeOK, Resume
<1>. HIDE DEF r, S
<1>3. Ids \in Seq(Requests) /\ Handing = <<_running_future>>
  BY <1>1, IdsType DEF Handing, Resume
<1>4. Ids' = Append(Ids, _running_future)
  BY <1>1, <1>2, AppendedLast DEF Ids
<1>5. Handing' = <<>>
  BY DEF Handing, Resume
<1>6. Given' = Given
  BY <1>1, <1>3, <1>4, <1>5 DEF Given
<1>. QED
  BY <1>6 DEF InOrderOfArrival, Given, Ids, Resume, iterator

LEMMA OrderStep == Inv /\ InOrderOfArrival /\ [Next]_vars => InOrderOfArrival'
<1>. SUFFICES ASSUME Inv, InOrderOfArrival, [Next]_vars PROVE InOrderOfArrival'
  OBVIOUS
<1>1. CASE Return
  BY <1>1 DEF InOrderOfArrival, Handing, Return
<1>2. CASE UNCHANGED vars
  BY <1>2 DEF InOrderOfArrival, Handing, vars, iterator
<1>. QED
  BY <1>1, <1>2, OrderRespond, OrderNextFuture, OrderResume DEF Next

-----------------------------------------------------------------------------
(* Nobody waits in vain.                                                   *)

\* Where the loop has got to, it can go on, or waits for a request that has
\* not responded.
WaitsForSomebody ==
  /\ pc = "on" => _running_future \in Requests
  /\ pc = "yield" => _running_future \in Requests \/ \E i \in _unfinished : i \notin ToSet(arrived)

\* Nothing is given of a request that the iterator has not handed out, and
\* the loop does not yield a future that nobody is left to resolve.
NotHanded ==
  /\ \A i \in _unfinished :
       /\ \A k \in DOMAIN ret : ret[k][2] # i
       /\ pc \in {"yield", "on"} => _running_future # i
  /\ pc = "yield" /\ _running_future = Pending => _unfinished # {}

WaitInv == Inv /\ InOrderOfArrival /\ NotHanded

LEMMA WaitInit == Init => WaitInv
BY InvInit, OrderInit, RequestsAssumption DEF Init, WaitInv, NotHanded

LEMMA WaitStep == WaitInv /\ [Next]_vars => WaitInv'
<1>. SUFFICES ASSUME WaitInv, [Next]_vars PROVE WaitInv'
  OBVIOUS
<1>1. Inv' /\ InOrderOfArrival'
  BY InvStep, OrderStep DEF WaitInv
<1>2. ASSUME NEW i \in Requests, Respond(i) PROVE NotHanded'
  BY <1>2, RequestsAssumption DEF Respond, HandOut, WaitInv, NotHanded
<1>3. ASSUME NextFuture PROVE NotHanded'
  <2>1. CASE _finished = <<>>
    BY <1>3, <2>1, RequestsAssumption DEF NextFuture, WaitInv, NotHanded, Inv, TypeOK
  <2>2. CASE _finished # <<>>
    BY <1>3, <2>2 DEF NextFuture, HandOut, WaitInv, NotHanded
  <2>. QED
    BY <2>1, <2>2
<1>4. ASSUME Resume PROVE NotHanded'
  <2>. DEFINE S == (Bodies \cup {None}) \X (Requests \cup {None})
              r == <<body[_running_future], current_index>>
              n == Len(ret) + 1
  <2>1. r \in S /\ r[2] = _running_future /\ ret \in Seq(S) /\ ret' = Append(ret, r)
    BY <1>4 DEF Resume, WaitInv, Inv, TypeOK, Running
  <2>. HIDE DEF S, r
  <2>2. DOMAIN ret' = DOMAIN ret \cup {n} /\ ret'[n] = r /\ \A k \in DOMAIN ret : ret'[k] = ret[k]
    BY <2>1, AppendedLast
  <2>3. UNCHANGED _unfinished /\ pc \in {"yield", "on"} /\ pc' \notin {"yield", "on"}
    BY <1>4 DEF Resume, iterator
  <2>. QED
    BY <2>1, <2>2, <2>3 DEF WaitInv, NotHanded
<1>5. ASSUME Return \/ UNCHANGED vars PROVE NotHanded'
  BY <1>5 DEF Return, vars, iterator, WaitInv, NotHanded
<1>. QED
  BY <1>1, <1>2, <1>3, <1>4, <1>5 DEF Next, WaitInv

LEMMA WaitIsForSomebody == WaitInv => WaitsForSomebody
<1>. SUFFICES ASSUME WaitInv, pc = "yield", _running_future \notin Requests
              PROVE  \E i \in _unfinished : i \notin ToSet(arrived)
  BY DEF WaitsForSomebody, WaitInv, Inv, Running
<1>1. _running_future = Pending /\ _finished = <<>> /\ Handing = <<>>
  BY DEF WaitInv, Inv, TypeOK, Running, Handing
<1>2. PICK i \in _unfinished : \A k \in DOMAIN ret : ret[k][2] # i
  BY <1>1 DEF WaitInv, NotHanded
<1>3. Ids \in Seq(Requests)
  BY IdsType DEF WaitInv
<1>4. Ids \o Handing \o _finished = arrived
  BY DEF WaitInv, InOrderOfArrival, Ids
<1>5. Ids = arrived
  BY <1>1, <1>3, <1>4
<1>6. i \notin ToSet(arrived)
  BY <1>2, <1>5 DEF ToSet, Ids
<1>. QED
  BY <1>6

\* parallel_async never waits for nobody: its loop can go on, or a request
\* that has not been handed out is still to respond, although responses come
\* in between next(), the yield and its end (WaitsForSomebody).  As every
\* request times out, this is what Returns rests on.
THEOREM LoopWaitsForSomebody == Spec => []WaitsForSomebody
BY WaitInit, WaitStep, WaitIsForSomebody, PTL DEF Spec

-----------------------------------------------------------------------------
(* web_search.                                                             *)

\* Every request responds once; a call that waits for all returns with no
\* response left over.
Once ==
  /\ \A j, k \in DOMAIN arrived : arrived[j] = arrived[k] => j = k
  /\ pc = "returned" /\ wait_for_all => _finished = <<>>

OnceInv == Inv /\ InOrderOfArrival /\ Once

LEMMA OnceInit == Init => OnceInv
BY InvInit, OrderInit DEF Init, OnceInv, Once

\* After a call that waits for all no response is to come.
LEMMA AllArrived ==
  ASSUME OnceInv, pc = "returned", wait_for_all
  PROVE  Ids = arrived /\ ToSet(arrived) = Requests
<1>1. Ids \in Seq(Requests) /\ Handing = <<>> /\ _finished = <<>>
  BY IdsType DEF OnceInv, Once, Handing
<1>2. Ids \o Handing \o _finished = arrived
  BY DEF OnceInv, InOrderOfArrival, Ids
<1>3. Ids = arrived
  BY <1>1, <1>2
<1>4. ToSet(Ids) = {ret[k][2] : k \in DOMAIN ret}
  BY DEF ToSet, Ids
<1>. QED
  BY <1>3, <1>4 DEF OnceInv, Inv, CompleteAtEnd

LEMMA OnceStep == OnceInv /\ [Next]_vars => OnceInv'
<1>. SUFFICES ASSUME OnceInv, [Next]_vars PROVE OnceInv'
  OBVIOUS
<1>1. Inv' /\ InOrderOfArrival'
  BY InvStep, OrderStep DEF OnceInv
<1>2. ASSUME NEW i \in Requests, Respond(i) PROVE Once'
  <2>1. i \notin {arrived[k] : k \in DOMAIN arrived}
    BY <1>2 DEF Respond, ToSet
  <2>2. /\ DOMAIN arrived' = DOMAIN arrived \cup {Len(arrived) + 1}
        /\ Len(arrived) + 1 \notin DOMAIN arrived
        /\ arrived'[Len(arrived) + 1] = i
        /\ \A k \in DOMAIN arrived : arrived'[k] = arrived[k]
    BY <1>2, AppendedLast DEF Respond, OnceInv, Inv, TypeOK
  <2>3. \A j, k \in DOMAIN arrived' : arrived'[j] = arrived'[k] => j = k
    BY <2>1, <2>2 DEF OnceInv, Once
  <2>4. pc' = "returned" /\ wait_for_all' => FALSE
    BY <1>2, AllArrived DEF Respond
  <2>. QED
    BY <2>3, <2>4 DEF Once
<1>3. ASSUME Return \/ NextFuture \/ Resume \/ UNCHANGED vars PROVE Once'
  BY <1>3 DEF OnceInv, Once, Return, NextFuture, Resume, vars, iterator
<1>. QED
  BY <1>1, <1>2, <1>3 DEF Next, OnceInv

\* The loop over the results, given what it should have after each of them.
LEMMA WebSearchLoop ==
  ASSUME NEW f, Len(ret) \in Nat, f = [k \in 0..Len(ret) |-> f[k]], f[0] = <<>>,
         \A k \in 1..Len(ret) :
           f[k] = IF Online(ret[k]) THEN Append(f[k - 1], parse_content_online(ret[k])) ELSE f[k - 1]
  PROVE  web_search = IF f[Len(ret)] = <<>> THEN <<[answer |-> None, id |-> Last(ret)[2]]>>
                      ELSE f[Len(ret)]
<1>. DEFINE n == Len(ret)
            After(g, k) == IF k = 0 THEN <<>>
                           ELSE IF Online(ret[k])
                           THEN Append(g[k - 1], parse_content_online(ret[k]))
                           ELSE g[k - 1]
            rets == CHOOSE g : g = [k \in 0..n |-> After(g, k)]
<1>1. web_search = IF rets[n] = <<>> THEN <<[answer |-> None, id |-> Last(ret)[2]]>> ELSE rets[n]
  BY DEF web_search
<1>2. \A k \in 0..n : f[k] = After(f, k)
  OBVIOUS
<1>. HIDE DEF After
<1>3. f = [k \in 0..n |-> After(f, k)]
  BY <1>2
<1>4. rets = [k \in 0..n |-> After(rets, k)]
  BY <1>3
<1>. HIDE DEF rets
<1>. DEFINE P == {k \in 0..n : rets[k] = f[k]}
<1>5. 0 \in P
  BY <1>4 DEF After
<1>6. ASSUME NEW k \in 1..n, k - 1 \in P PROVE k \in P
  <2>1. k \in 0..n /\ k # 0 /\ rets[k - 1] = f[k - 1]
    BY <1>6
  <2>2. rets[k] = After(rets, k) /\ f[k] = After(f, k)
    BY <1>2, <1>4, <2>1
  <2>3. After(rets, k) = After(f, k)
    BY <2>1 DEF After
  <2>. QED
    BY <2>1, <2>2, <2>3
<1>7. 0..n \subseteq P
  <2>. HIDE DEF P
  <2>. QED
    BY <1>5, <1>6, Rounds
<1>8. rets[n] = f[n]
  BY <1>7
<1>. QED
  BY <1>1, <1>8

LEMMA OnlineIsAlone == OnceInv => OnlineAlone
<1>. SUFFICES ASSUME OnceInv, pc = "returned", wait_for_all, 0 \in Requests
              PROVE  web_search = <<IF body[0] \in Hits THEN [answer |-> body[0], id |-> 0]
                                    ELSE [answer |-> None, id |-> Last(arrived)]>>
  BY DEF OnlineAlone
<1>. DEFINE n == Len(ret)
<1>1. n \in Nat /\ DOMAIN ret = 1..n
  BY DEF OnceInv, Inv, TypeOK
<1>2. Ids = arrived /\ ToSet(arrived) = Requests
  BY AllArrived
<1>3. PICK z \in 1..n : ret[z][2] = 0
  BY <1>1, <1>2 DEF ToSet, Ids
<1>4. \A k \in 1..n : ret[k][2] = 0 => k = z
  BY <1>1, <1>2, <1>3 DEF OnceInv, Once, Ids
<1>5. Last(ret)[2] = Last(arrived)
  BY <1>1, <1>2, <1>3 DEF Last, Ids
<1>6. ret[z][1] = body[0]
  BY <1>1, <1>3 DEF OnceInv, Inv, OwnBody
<1>7. CASE body[0] = None
  <2>. DEFINE f == [k \in 0..n |-> <<>>]
  <2>1. \A k \in 1..n : ~Online(ret[k])
    BY <1>3, <1>4, <1>6, <1>7 DEF Online
  <2>2. /\ f = [k \in 0..n |-> f[k]] /\ f[0] = <<>> /\ f[n] = <<>>
        /\ \A k \in 1..n : f[k] = IF Online(ret[k]) THEN Append(f[k - 1], parse_content_online(ret[k]))
                               ELSE f[k - 1]
    BY <1>1, <2>1
  <2>. HIDE DEF f
  <2>3. web_search = <<[answer |-> None, id |-> Last(ret)[2]]>>
    BY <1>1, <2>2, WebSearchLoop
  <2>. QED
    BY <1>5, <1>7, <2>3, RequestsAssumption
<1>8. CASE body[0] # None
  <2>. DEFINE p == parse_content_online(ret[z])
              f == [k \in 0..n |-> IF k < z THEN <<>> ELSE <<p>>]
  <2>1. \A k \in 1..n : Online(ret[k]) <=> k = z
    BY <1>3, <1>4, <1>6, <1>8 DEF Online
  <2>2. /\ f = [k \in 0..n |-> f[k]] /\ f[0] = <<>> /\ f[n] = <<p>>
        /\ \A k \in 1..n : f[k] = IF Online(ret[k]) THEN Append(f[k - 1], parse_content_online(ret[k]))
                               ELSE f[k - 1]
    <3>. HIDE DEF p
    <3>1. f = [k \in 0..n |-> f[k]] /\ \A k \in 0..n : f[k] = IF k < z THEN <<>> ELSE <<p>>
      OBVIOUS
    <3>. HIDE DEF f
    <3>2. ASSUME NEW k \in 1..n
          PROVE  f[k] = IF Online(ret[k]) THEN Append(f[k - 1], parse_content_online(ret[k]))
                        ELSE f[k - 1]
      <4>1. k \in 0..n /\ k - 1 \in 0..n /\ (k - 1 < z <=> k <= z)
        BY <1>1
      <4>2. CASE k = z
        <5>1. f[k] = <<p>> /\ f[k - 1] = <<>>
          BY <1>1, <3>1, <4>1, <4>2
        <5>2. Online(ret[k]) /\ parse_content_online(ret[k]) = p
          BY <2>1, <4>2 DEF p
        <5>. QED
          BY <5>1, <5>2
      <4>3. CASE k # z
        BY <1>1, <2>1, <3>1, <4>1, <4>3
      <4>. QED
        BY <4>2, <4>3
    <3>3. 0 \in 0..n /\ n \in 0..n /\ 0 < z /\ ~(n < z)
      BY <1>1
    <3>. QED
      BY <3>1, <3>2, <3>3
  <2>. HIDE DEF f, p
  <2>3. web_search = <<p>>
    <3>1. <<p>> # <<>>
      OBVIOUS
    <3>. QED
      BY <1>1, <2>2, <3>1, WebSearchLoop
  <2>4. p = IF body[0] \in Hits THEN [answer |-> body[0], id |-> 0]
            ELSE [answer |-> None, id |-> Last(arrived)]
    BY <1>3, <1>5, <1>6 DEF parse_content_online, p
  <2>. QED
    BY <2>3, <2>4
<1>. QED
  BY <1>7, <1>8

-----------------------------------------------------------------------------
(* The theorems.                                                           *)

\* The iterator and the results of parallel_async keep their shape.
THEOREM TypeCorrect == Spec => []TypeOK
BY Invariance, PTL DEF Inv

\* The id that parallel_async reads off the iterator belongs to the body that
\* it reads off the future, for any number of requests.
THEOREM IdsAreRight == Spec => []OwnBody
BY Invariance, PTL DEF Inv

\* parallel_async returns a result of every request, or, if it need not wait
\* for all, those up to the first body.
THEOREM ResultsAreComplete == Spec => []CompleteAtEnd
BY Invariance, PTL DEF Inv

\* Until the loop is left the results appended, the one that is about to be
\* and the responses that wait are the responses in the order of arrival:
\* none is lost or given twice, although the loop goes on later than the
\* callbacks of the requests run.
THEOREM ResultsInOrder == Spec => []InOrderOfArrival
BY Invariance, OrderInit, OrderStep, PTL DEF Spec

\* web_search answers what its online search says, under the id of that, in
\* whatever order its requests respond and whatever becomes of the others: it
\* was given the result of the online search once, and the id it reads behind
\* the loop is that of the response that came last.
THEOREM OnlineSearchAlone == Spec => []OnlineAlone
BY OnceInit, OnceStep, OnlineIsAlone, PTL DEF Spec

-----------------------------------------------------------------------------
(* Type correctness.                                                       *)

LEMMA Offsets == \A t \in DateTypes : Offset[t] \in 0..2
BY DEF DateTypes, Offset

LEMMA WordTypes == \A k \in 1..3 : Words[k] \in DateTypes
BY DEF Words, DateTypes

LEMMA TypeInit == WeatherInit => WeatherTypeOK
<1>. SUFFICES ASSUME WeatherInit PROVE WeatherTypeOK
  OBVIOUS
<1>1. (CHOOSE c \in Cities : TRUE) \in Cities
  BY WeatherAssumption
<1>2. day \in 0..MaxDay
  BY WeatherAssumption DEF WeatherInit
<1>3. city_weather_cache = [c \in Cities |-> city_weather_cache[c]]
  BY DEF WeatherInit
<1>. QED
  BY <1>1, <1>2, <1>3 DEF WeatherInit, WeatherTypeOK, DateTypes

LEMMA TypeText ==
  ASSUME WeatherTypeOK, NEW a \in Askers, NEW n \in 0..3, issued[a] # Null
  PROVE  TextOf(a, n) \in [city : Cities, word : DateTypes, date : Nat] \cup {Null}
<1>. DEFINE k == real_date[a] - issued[a] + 1
<1>1. real_date[a] \in Nat /\ issued[a] \in Nat /\ city[a] \in Cities
  BY DEF WeatherTypeOK
<1>2. k \in Int /\ (k \in 1..n => k \in 1..3)
  BY <1>1
<1>3. k \in 1..n => Words[k] \in DateTypes
  BY <1>2, WordTypes
<1>. QED
  BY <1>1, <1>3 DEF TextOf

LEMMA TypeNext == WeatherTypeOK /\ [WeatherNext]_weather => WeatherTypeOK'
<1>. SUFFICES ASSUME WeatherTypeOK, [WeatherNext]_weather PROVE WeatherTypeOK'
  OBVIOUS
<1>. DEFINE Answers == [city : Cities, word : DateTypes, date : Nat] \cup {Null}
<1>1. ASSUME NEW a \in Askers, NEW c \in Cities, NEW t \in DateTypes, Extract(a, c, t)
      PROVE  /\ city' \in [Askers -> Cities] /\ date_type' \in [Askers -> DateTypes]
             /\ real_date' \in [Askers -> Nat]
             /\ day + Offset[t] \in Nat
  BY <1>1, Offsets, WeatherAssumption DEF Extract, WeatherTypeOK
<1>2. ASSUME NEW a \in Askers, NEW c \in Cities, NEW t \in DateTypes, AnswerFromCache(a, c, t)
      PROVE  WeatherTypeOK'
  <2>1. answer' \in [Askers -> Answers]
    BY <1>1, <1>2 DEF AnswerFromCache, WeatherTypeOK
  <2>. QED
    BY <1>1, <1>2, <2>1 DEF AnswerFromCache, WeatherTypeOK
<1>3. ASSUME NEW a \in Askers, NEW c \in Cities, NEW t \in DateTypes, Ask(a, c, t)
      PROVE  WeatherTypeOK'
  <2>1. city_weather_cache' = [d \in Cities |-> city_weather_cache'[d]]
    BY <1>3 DEF Ask, WeatherTypeOK
  <2>. QED
    BY <1>1, <1>3, <2>1 DEF Ask, WeatherTypeOK
<1>4. ASSUME NEW a \in Askers, NoWeather(a) PROVE WeatherTypeOK'
  BY <1>4 DEF NoWeather, WeatherTypeOK
<1>5. ASSUME NEW a \in Askers, Issue(a) PROVE WeatherTypeOK'
  <2>1. day \in 0..day
    BY WeatherAssumption DEF WeatherTypeOK
  <2>. QED
    BY <1>5, <2>1 DEF Issue, WeatherTypeOK
<1>6. ASSUME NEW a \in Askers, Receive(a) PROVE WeatherTypeOK'
  <2>1. PICK n \in 0..3, raises \in BOOLEAN :
          /\ Write(a, n)
          /\ answer' = [answer EXCEPT ![a] = IF raises THEN Null ELSE TextOf(a, n)]
    BY <1>6 DEF Receive
  <2>2. answer' \in [Askers -> Answers]
    BY <1>6, <2>1, TypeText DEF Receive, WeatherTypeOK
  <2>3. city_weather_cache' = [c \in Cities |-> city_weather_cache'[c]]
    BY <2>1 DEF Write, WeatherTypeOK
  <2>. QED
    BY <1>6, <2>2, <2>3 DEF Receive, Stop, WeatherTypeOK
<1>7. ASSUME NEW a \in Askers, NoResponse(a) PROVE WeatherTypeOK'
  BY <1>7 DEF NoResponse, Stop, WeatherTypeOK
<1>8. CASE Flush
  BY <1>8 DEF Flush, WeatherTypeOK
<1>9. CASE Midnight
  <2>1. day' \in 0..MaxDay /\ 0..day \subseteq 0..day'
    BY <1>9, WeatherAssumption DEF Midnight, WeatherTypeOK
  <2>. QED
    BY <1>9, <2>1 DEF Midnight, WeatherTypeOK
<1>10. CASE UNCHANGED weather
  BY <1>10 DEF weather, WeatherTypeOK
<1>. QED
  BY <1>2, <1>3, <1>4, <1>5, <1>6, <1>7, <1>8, <1>9, <1>10 DEF WeatherNext

\* Queries, answers and the cache keep their shape, and no forecast is from a
\* day to come (WeatherTypeOK).
THEOREM WeatherTypeCorrect == WeatherSpec => []WeatherTypeOK
BY TypeInit, TypeNext, PTL DEF WeatherSpec

-----------------------------------------------------------------------------
(* The cache of a city is that of one forecast.                            *)

LEMMA ForecastInit == WeatherInit => OneForecast
BY DEF WeatherInit, OneForecast, NoForecast

LEMMA ForecastNext ==
  ASSUME WeatherTypeOK, WeatherTypeOK', OneForecast, [WeatherNext]_weather
  PROVE  OneForecast'
<1>1. day \in Nat /\ 0 \in 0..day'
  BY WeatherAssumption DEF WeatherTypeOK
<1>2. ASSUME NEW c \in Cities, city_weather_cache' = [city_weather_cache EXCEPT ![c] = NoForecast],
             day' = day
      PROVE  OneForecast'
  <2>1. city_weather_cache'[c] = Forecast(0, 0) /\ 0 \in 0..3
    BY <1>2 DEF WeatherTypeOK, NoForecast
  <2>2. \A d \in Cities : d # c => city_weather_cache'[d] = city_weather_cache[d]
    BY <1>2 DEF WeatherTypeOK
  <2>. QED
    BY <1>1, <1>2, <2>1, <2>2 DEF OneForecast
<1>3. ASSUME UNCHANGED city_weather_cache, day' \in Nat, day <= day' PROVE OneForecast'
  <2>1. 0..day \subseteq 0..day'
    BY <1>1, <1>3
  <2>. QED
    BY <1>3, <2>1 DEF OneForecast
<1>4. ASSUME NEW a \in Askers, NEW c \in Cities, NEW t \in DateTypes, Ask(a, c, t) PROVE OneForecast'
  BY <1>1, <1>2, <1>3, <1>4 DEF Ask
<1>5. ASSUME NEW a \in Askers, Receive(a) PROVE OneForecast'
  <2>1. PICK n \in 0..3 : Write(a, n)
    BY <1>5 DEF Receive
  <2>2. issued[a] \in 0..day' /\ day' = day
    BY <1>5 DEF Receive, WeatherTypeOK
  <2>3. city_weather_cache'[city[a]] = Forecast(issued[a], n)
    BY <2>1 DEF Write, WeatherTypeOK
  <2>4. \A c \in Cities : c # city[a] => city_weather_cache'[c] = city_weather_cache[c]
    BY <2>1 DEF Write, WeatherTypeOK
  <2>. QED
    BY <2>2, <2>3, <2>4 DEF OneForecast
<1>6. CASE Flush
  BY <1>1, <1>6 DEF Flush, OneForecast, NoForecast
<1>7. CASE Midnight
  BY <1>1, <1>3, <1>7 DEF Midnight
<1>8. ASSUME UNCHANGED <<day, city_weather_cache>> PROVE OneForecast'
  BY <1>1, <1>3, <1>8
<1>. QED
  BY <1>4, <1>5, <1>6, <1>7, <1>8
     DEF WeatherNext, AnswerFromCache, NoWeather, Issue, NoResponse, weather

\* The entries of a city are those of a single forecast of today or earlier
\* (OneForecast), however responses and midnights interleave and wherever
\* the writing of a response stops.
THEOREM ForecastsAreWhole == WeatherSpec => []OneForecast
BY TypeInit, TypeNext, ForecastInit, ForecastNext, PTL DEF WeatherSpec

-----------------------------------------------------------------------------
(* Answers.                                                                *)

LEMMA DateNext ==
  ASSUME WeatherTypeOK, OnDateAsked, [WeatherNext]_weather
  PROVE  OnDateAsked'
<1>1. ASSUME NEW a \in Askers, NEW c \in Cities, NEW t \in DateTypes, AnswerFromCache(a, c, t)
      PROVE  OnDateAsked'
  <2>1. answer'[a].city = city'[a] /\ answer'[a].date = real_date'[a]
    BY <1>1 DEF AnswerFromCache, Extract, WeatherTypeOK
  <2>2. \A b \in Askers : b # a =>
          answer'[b] = answer[b] /\ city'[b] = city[b] /\ real_date'[b] = real_date[b]
    BY <1>1 DEF AnswerFromCache, Extract, WeatherTypeOK
  <2>. QED
    BY <1>1, <2>1, <2>2 DEF AnswerFromCache, OnDateAsked
<1>2. ASSUME NEW a \in Askers, NEW c \in Cities, NEW t \in DateTypes, Ask(a, c, t)
      PROVE  OnDateAsked'
  BY <1>2 DEF Ask, Extract, WeatherTypeOK, OnDateAsked
<1>3. ASSUME NEW a \in Askers, NoWeather(a) PROVE OnDateAsked'
  BY <1>3 DEF NoWeather, WeatherTypeOK, OnDateAsked
<1>4. ASSUME NEW a \in Askers, Receive(a) PROVE OnDateAsked'
  <2>1. answer'[a] # Null => answer'[a].city = city[a] /\ answer'[a].date = real_date[a]
    BY <1>4 DEF Receive, TextOf, WeatherTypeOK
  <2>2. \A b \in Askers : b # a => answer'[b] = answer[b]
    BY <1>4 DEF Receive, WeatherTypeOK
  <2>. QED
    BY <1>4, <2>1, <2>2 DEF Receive, OnDateAsked
<1>5. ASSUME NEW a \in Askers, NoResponse(a) PROVE OnDateAsked'
  BY <1>5 DEF NoResponse, OnDateAsked
<1>6. ASSUME UNCHANGED <<asking, city, real_date, answer>> PROVE OnDateAsked'
  BY <1>6 DEF OnDateAsked
<1>. QED
  BY <1>1, <1>2, <1>3, <1>4, <1>5, <1>6 DEF WeatherNext, Issue, Flush, Midnight, weather

\* An answer is about the city and the date its query asked for (OnDateAsked).
THEOREM AnswersAreOnDate == WeatherSpec => []OnDateAsked
<1>1. WeatherInit => OnDateAsked
  BY DEF WeatherInit, OnDateAsked
<1>. QED
  BY <1>1, TypeInit, TypeNext, DateNext, PTL DEF WeatherSpec

\* An answer out of the cache comes from a forecast of the day on which it is
\* given (CachedToday).
THEOREM CachedIsOfToday == WeatherSpec => CachedToday
<1>. DEFINE Today(a) == answer'[a] # answer[a] /\ answer'[a] # Null /\ a \notin asking =>
                          answer'[a].date - Offset[answer'[a].word] = day
<1>1. WeatherTypeOK /\ [WeatherNext]_weather => [\A a \in Askers : Today(a)]_weather
  <2>. SUFFICES ASSUME WeatherTypeOK, [WeatherNext]_weather, NEW a \in Askers, a \notin asking,
                       answer'[a] # answer[a], answer'[a] # Null
                PROVE  answer'[a].date - Offset[answer'[a].word] = day
    OBVIOUS
  <2>1. ASSUME NEW b \in Askers, NEW c \in Cities, NEW t \in DateTypes, AnswerFromCache(b, c, t)
        PROVE  answer'[a].date - Offset[answer'[a].word] = day
    <3>1. a = b
      BY <2>1 DEF AnswerFromCache, WeatherTypeOK
    <3>2. answer'[a].date = day + Offset[t] /\ answer'[a].word = t
      BY <2>1, <3>1 DEF AnswerFromCache, WeatherTypeOK
    <3>3. day \in Int /\ Offset[t] \in Int
      BY Offsets, WeatherAssumption DEF WeatherTypeOK
    <3>. QED
      BY <3>2, <3>3
  <2>2. ASSUME NEW b \in Askers, Receive(b) PROVE FALSE
    BY <2>2 DEF Receive, WeatherTypeOK
  <2>3. ASSUME NEW b \in Askers, NEW c \in Cities, NEW t \in DateTypes, Ask(b, c, t) PROVE FALSE
    BY <2>3 DEF Ask, WeatherTypeOK
  <2>4. ASSUME NEW b \in Askers, NoWeather(b) PROVE FALSE
    BY <2>4 DEF NoWeather, WeatherTypeOK
  <2>. QED
    BY <2>1, <2>2, <2>3, <2>4 DEF WeatherNext, Issue, NoResponse, Flush, Midnight, weather
<1>. QED
  BY <1>1, TypeInit, TypeNext, PTL DEF WeatherSpec, CachedToday
=============================================================================
