----------------------------- MODULE FetchProofs -----------------------------
(***************************************************************************)
(* Theorems about HttpFetch, for any number of addresses and redirects:    *)
(* its types, that no stream is left open, that the connector tries one    *)
(* address of a family at a time and does not stop on its way, and that    *)
(* the caller is never given a second result, nor forgotten before the     *)
(* first one (that this one comes is for TLC).                             *)
(***************************************************************************)
EXTENDS HttpFetch, Loops, SequenceTheorems, TLAPS

Sockets == [Addresses -> {"waiting", "connecting", "open", "closed"}]

LEMMA HopsNat == Hops \subseteq Nat /\ 0 \in Hops
BY FetchAssumption DEF Hops

LEMMA TryNextType ==
  ASSUME NEW s \in Sockets, NEW family \in SUBSET Addresses
  PROVE  /\ TryNext(s, family) \in Sockets
         /\ \A a \in Addresses : TryNext(s, family)[a] = "open" <=> s[a] = "open"
BY DEF TryNext, Sockets

LEMMA TriedType ==
  ASSUME NEW left \in SUBSET Addresses
  PROVE  /\ Tried(left) \in Sockets
         /\ \A a \in Addresses : Tried(left)[a] # "open"
<1>. DEFINE s == [a \in Addresses |-> IF a \in left THEN "waiting" ELSE "closed"]
<1>1. s \in Sockets /\ \A a \in Addresses : s[a] # "open"
  BY DEF Sockets
<1>2. Primary \in SUBSET Addresses
  BY DEF Addresses
<1>. QED
  BY <1>1, <1>2, TryNextType DEF Tried

LEMMA ClosedType ==
  ASSUME FetchTypeOK, NEW h \in Hops
  PROVE  /\ Closed(h) \in Sockets
         /\ \A a \in Addresses : Closed(h)[a] # "open"
BY DEF FetchTypeOK, Closed, Sockets

-----------------------------------------------------------------------------
(* Types and streams.                                                      *)

StreamInv == FetchTypeOK /\ NoStreamLeft

LEMMA StreamInit == FetchInit => StreamInv
<1>. SUFFICES ASSUME FetchInit PROVE StreamInv
  OBVIOUS
<1>1. \A x \in {{}} \cup SUBSET Addresses : Tried(x) \in Sockets /\ \A a \in Addresses : Tried(x)[a] # "open"
  BY TriedType
<1>2. PICK left \in SUBSET Addresses :
        /\ hop = [h \in Hops |-> IF h > 0 THEN "new" ELSE IF left = {} THEN "unreachable" ELSE "connect"]
        /\ socket = [h \in Hops |-> Tried(IF h = 0 THEN left ELSE {})]
        /\ eyeball_timer = [h \in Hops |-> h = 0 /\ left # {}]
  BY DEF FetchInit
<1>3. socket \in [Hops -> Sockets] /\ \A h \in Hops, a \in Addresses : socket[h][a] # "open"
  BY <1>1, <1>2
<1>4. FetchTypeOK
  BY <1>2, <1>3 DEF FetchInit, FetchTypeOK, Sockets
<1>. QED
  BY <1>3, <1>4 DEF StreamInv, NoStreamLeft

LEMMA AnswersType ==
  ASSUME FetchTypeOK, NEW h \in Hops, NEW out \in Results, Answers(h, out)
  PROVE  /\ callbacks' \in Seq(Results) /\ alarm' \in [Hops -> BOOLEAN]
         /\ final_callback' \in [Hops -> BOOLEAN]
         /\ ~alarm'[h] /\ \A g \in Hops \ {h} : alarm'[g] = alarm[g]
BY DEF FetchTypeOK, Answers

LEMMA StreamEyeball ==
  ASSUME StreamInv, NEW h \in Hops, EyeballTimeout(h)
  PROVE  StreamInv'
<1>. USE DEF StreamInv
<1>. DEFINE tried == TryNext(socket[h], Secondary)
<1>1. tried \in Sockets /\ \A b \in Addresses : tried[b] = "open" <=> socket[h][b] = "open"
  <2>1. socket[h] \in Sockets
    BY DEF FetchTypeOK, Sockets
  <2>2. Secondary \in SUBSET Addresses
    BY DEF Addresses
  <2>. QED
    BY <2>1, <2>2, TryNextType
<1>2. socket' = [socket EXCEPT ![h] = tried]
  BY DEF EyeballTimeout
<1>. HIDE DEF tried
<1>. QED
  BY <1>1, <1>2 DEF EyeballTimeout, FetchTypeOK, NoStreamLeft, Sockets

LEMMA StreamConnector ==
  ASSUME StreamInv, NEW h \in Hops, NEW a \in Addresses,
         AttemptFails(h, a) \/ AttemptSucceeds(h, a)
  PROVE  StreamInv'
<1>. USE DEF StreamInv
<1>0. socket[h] \in Sockets
  BY DEF FetchTypeOK, Sockets
<1>2. CASE AttemptFails(h, a)
  <2>. DEFINE without == [socket[h] EXCEPT ![a] = "closed"]
              more    == TryNext(without, Family(a))
              both    == IF eyeball_timer[h] THEN TryNext(more, Secondary) ELSE more
  <2>1. without \in Sockets /\ \A b \in Addresses : without[b] = "open" => socket[h][b] = "open"
    BY <1>0 DEF Sockets
  <2>2. Family(a) \in SUBSET Addresses /\ Secondary \in SUBSET Addresses
    BY DEF Family, Addresses
  <2>3. more \in Sockets /\ \A b \in Addresses : more[b] = "open" <=> without[b] = "open"
    <3>. HIDE DEF without
    <3>. QED
      BY <2>1, <2>2, TryNextType
  <2>4. both \in Sockets /\ \A b \in Addresses : both[b] = "open" => socket[h][b] = "open"
    <3>. HIDE DEF more
    <3>1. CASE eyeball_timer[h]
      BY <2>1, <2>2, <2>3, TryNextType, <3>1
    <3>2. CASE ~eyeball_timer[h]
      BY <2>1, <2>3, <3>2
    <3>. QED
      BY <3>1, <3>2
  <2>5. CASE hop[h] # "connect"
    <3>1. socket' = [socket EXCEPT ![h] = without] /\ UNCHANGED <<hop, eyeball_timer>>
      BY <1>2, <2>5 DEF AttemptFails
    <3>. QED
      BY <1>2, <3>1, <2>1 DEF AttemptFails, FetchTypeOK, NoStreamLeft, Sockets
  <2>6. CASE hop[h] = "connect"
    <3>1. /\ socket' = [socket EXCEPT ![h] = both]
          /\ eyeball_timer' = [eyeball_timer EXCEPT ![h] = FALSE]
          /\ hop' = hop \/ hop' = [hop EXCEPT ![h] = "unreachable"]
      BY <1>2, <2>6 DEF AttemptFails
    <3>2. \A b \in Addresses : both[b] # "open"
      BY <2>4, <2>6 DEF NoStreamLeft
    <3>. HIDE DEF both
    <3>3. UNCHANGED <<tls, alarm, final_callback, chained, callbacks, result>>
      BY <1>2 DEF AttemptFails
    <3>4. FetchTypeOK'
      <4>1. socket' \in [Hops -> Sockets]
        BY <3>1, <2>4 DEF FetchTypeOK, Sockets
      <4>. QED
        BY <3>1, <3>3, <4>1 DEF FetchTypeOK, Sockets
    <3>5. socket'[h] = both /\ \A g \in Hops \ {h} : socket'[g] = socket[g] /\ hop'[g] = hop[g]
      BY <3>1 DEF FetchTypeOK
    <3>6. NoStreamLeft'
      BY <3>2, <3>3, <3>5 DEF NoStreamLeft
    <3>. QED
      BY <3>4, <3>6
  <2>. QED
    BY <2>5, <2>6
<1>3. CASE AttemptSucceeds(h, a)
  <2>1. CASE hop[h] = "connect"
    <3>1. \A b \in Addresses : socket[h][b] # "open"
      BY <2>1 DEF NoStreamLeft
    <3>. DEFINE found == [socket[h] EXCEPT ![a] = "open"]
                to    == IF tls[h] THEN "handshake" ELSE "connected"
    <3>2. found \in Sockets /\ \A b \in Addresses \ {a} : found[b] # "open"
      BY <1>0, <3>1 DEF Sockets
    <3>3. to \in {"handshake", "connected"}
      OBVIOUS
    <3>4. /\ socket' = [socket EXCEPT ![h] = found]
          /\ hop' = [hop EXCEPT ![h] = to]
          /\ eyeball_timer' = [eyeball_timer EXCEPT ![h] = FALSE]
          /\ UNCHANGED <<tls, alarm, final_callback, chained, callbacks, result>>
      BY <1>3, <2>1 DEF AttemptSucceeds
    <3>. HIDE DEF found, to
    <3>5. FetchTypeOK'
      BY <3>2, <3>3, <3>4 DEF FetchTypeOK, Sockets
    <3>6. socket'[h] = found /\ hop'[h] = to
          /\ \A g \in Hops \ {h} : socket'[g] = socket[g] /\ hop'[g] = hop[g]
      BY <3>4 DEF FetchTypeOK
    <3>7. NoStreamLeft'
      BY <3>2, <3>3, <3>4, <3>6 DEF NoStreamLeft
    <3>. QED
      BY <3>5, <3>7
  <2>2. CASE hop[h] # "connect"
    <3>. DEFINE dropped == [socket[h] EXCEPT ![a] = "closed"]
    <3>1. dropped \in Sockets /\ \A b \in Addresses : dropped[b] = "open" => socket[h][b] = "open"
      BY <1>0 DEF Sockets
    <3>2. socket' = [socket EXCEPT ![h] = dropped] /\ UNCHANGED <<hop, eyeball_timer>>
          /\ UNCHANGED <<tls, alarm, final_callback, chained, callbacks, result>>
      BY <1>3, <2>2 DEF AttemptSucceeds
    <3>. HIDE DEF dropped
    <3>3. FetchTypeOK'
      BY <3>1, <3>2 DEF FetchTypeOK, Sockets
    <3>4. socket'[h] = dropped /\ \A g \in Hops \ {h} : socket'[g] = socket[g]
      BY <3>2 DEF FetchTypeOK
    <3>5. NoStreamLeft'
      BY <3>1, <3>2, <3>4 DEF NoStreamLeft
    <3>. QED
      BY <3>3, <3>5
  <2>. QED
    BY <2>1, <2>2
<1>. QED
  BY <1>2, <1>3

LEMMA StreamConnection ==
  ASSUME StreamInv, NEW h \in Hops,
         \/ Handshake(h) \/ OnConnect(h) \/ OnNoConnection(h)
         \/ OnTimeout(h) \/ Finish(h)
  PROVE  StreamInv'
<1>. USE DEF StreamInv
<1>1. Closed(h) \in Sockets /\ \A a \in Addresses : Closed(h)[a] # "open"
  BY ClosedType
<1>2. CASE Handshake(h)
  <2>1. CASE hop' = [hop EXCEPT ![h] = "connected"] /\ UNCHANGED socket
    BY <1>2, <2>1 DEF Handshake, FetchTypeOK, NoStreamLeft
  <2>2. CASE hop' = [hop EXCEPT ![h] = "unreachable"] /\ socket' = [socket EXCEPT ![h] = Closed(h)]
    BY <1>1, <1>2, <2>2 DEF Handshake, FetchTypeOK, NoStreamLeft, Sockets
  <2>. QED
    BY <1>2, <2>1, <2>2 DEF Handshake
<1>3. CASE OnConnect(h)
  <2>1. CASE final_callback[h]
    <3>1. /\ hop' = [hop EXCEPT ![h] = "request"] /\ alarm' = [alarm EXCEPT ![h] = TRUE]
          /\ UNCHANGED <<tls, socket, eyeball_timer, final_callback, chained, callbacks, result>>
      BY <1>3, <2>1 DEF OnConnect
    <3>2. FetchTypeOK'
      BY <3>1 DEF FetchTypeOK
    <3>3. hop'[h] = "request" /\ alarm'[h]
          /\ \A g \in Hops \ {h} : hop'[g] = hop[g] /\ alarm'[g] = alarm[g]
      BY <3>1 DEF FetchTypeOK
    <3>4. NoStreamLeft'
      BY <3>1, <3>3 DEF NoStreamLeft
    <3>. QED
      BY <3>2, <3>4
  <2>2. CASE ~final_callback[h]
    <3>1. /\ hop' = [hop EXCEPT ![h] = "over"] /\ socket' = [socket EXCEPT ![h] = Closed(h)]
          /\ UNCHANGED <<tls, alarm, eyeball_timer, final_callback, chained, callbacks, result>>
      BY <1>3, <2>2 DEF OnConnect
    <3>2. socket' \in [Hops -> Sockets]
      BY <1>1, <3>1 DEF FetchTypeOK, Sockets
    <3>3. FetchTypeOK'
      BY <3>1, <3>2 DEF FetchTypeOK, Sockets
    <3>4. socket'[h] = Closed(h) /\ \A g \in Hops \ {h} : socket'[g] = socket[g] /\ hop'[g] = hop[g]
      BY <3>1 DEF FetchTypeOK
    <3>5. NoStreamLeft'
      BY <1>1, <3>1, <3>4 DEF NoStreamLeft
    <3>. QED
      BY <3>3, <3>5
  <2>. QED
    BY <2>1, <2>2
<1>4. CASE OnNoConnection(h)
  <2>1. "error" \in Results /\ Answers(h, "error")
    BY <1>4 DEF OnNoConnection, Results
  <2>. QED
    BY <1>4, <2>1, AnswersType DEF OnNoConnection, FetchTypeOK, NoStreamLeft
<1>5. CASE OnTimeout(h)
  <2>1. "error" \in Results /\ Answers(h, "error")
    BY <1>5 DEF OnTimeout, Results
  <2>2. CASE hop[h] # "request" /\ UNCHANGED <<hop, socket>>
    BY <1>5, <2>1, <2>2, AnswersType DEF OnTimeout, FetchTypeOK, NoStreamLeft
  <2>3. CASE hop[h] = "request" /\ socket' = [socket EXCEPT ![h] = Closed(h)]
    <3>1. PICK s \in {"late", "over"} : hop' = [hop EXCEPT ![h] = s]
      BY <1>5, <2>3 DEF OnTimeout
    <3>. QED
      BY <1>1, <1>5, <2>1, <2>3, <3>1, AnswersType
         DEF OnTimeout, FetchTypeOK, NoStreamLeft, Sockets
  <2>. QED
    BY <1>5, <2>2, <2>3 DEF OnTimeout
<1>6. CASE Finish(h)
  <2>1. PICK out \in Results : Answers(h, out)
    BY <1>6 DEF Finish
  <2>. QED
    BY <1>1, <1>6, <2>1, AnswersType DEF Finish, FetchTypeOK, NoStreamLeft, Sockets
<1>. QED
  BY <1>2, <1>3, <1>4, <1>5, <1>6

LEMMA StreamRedirect ==
  ASSUME StreamInv, NEW h \in Hops, Redirect(h)
  PROVE  StreamInv'
<1>. USE DEF StreamInv
<1>1. Closed(h) \in Sockets /\ \A a \in Addresses : Closed(h)[a] # "open"
  BY ClosedType
<1>2. PICK left \in SUBSET Addresses :
        /\ hop' = [hop EXCEPT ![h] = "over", ![h + 1] = IF left = {} THEN "unreachable" ELSE "connect"]
        /\ socket' = [socket EXCEPT ![h] = Closed(h), ![h + 1] = Tried(left)]
        /\ eyeball_timer' = [eyeball_timer EXCEPT ![h + 1] = (left # {})]
  BY DEF Redirect
<1>3. Tried(left) \in Sockets /\ \A a \in Addresses : Tried(left)[a] # "open"
  BY TriedType
<1>4. h + 1 \in Hops /\ h + 1 # h
  BY HopsNat DEF Redirect
<1>5. FetchTypeOK'
  BY <1>1, <1>2, <1>3, <1>4 DEF Redirect, FetchTypeOK, Sockets
<1>6. /\ socket'[h] = Closed(h) /\ socket'[h + 1] = Tried(left)
      /\ \A g \in Hops \ {h, h + 1} : socket'[g] = socket[g] /\ hop'[g] = hop[g] /\ alarm'[g] = alarm[g]
  BY <1>2, <1>4 DEF Redirect, FetchTypeOK
<1>7. NoStreamLeft'
  BY <1>1, <1>3, <1>6 DEF NoStreamLeft
<1>. QED
  BY <1>5, <1>7

LEMMA StreamNext == StreamInv /\ [FetchNext]_fetch => StreamInv'
<1>. SUFFICES ASSUME StreamInv, [FetchNext]_fetch PROVE StreamInv'
  OBVIOUS
<1>1. CASE UNCHANGED fetch
  BY <1>1 DEF StreamInv, FetchTypeOK, NoStreamLeft, fetch, connection
<1>2. CASE Deliver
  BY <1>2 DEF Deliver, StreamInv, FetchTypeOK, NoStreamLeft, connection
<1>3. CASE \E h \in Hops : \/ Handshake(h) \/ OnConnect(h) \/ OnNoConnection(h)
                          \/ OnTimeout(h) \/ Finish(h)
  BY <1>3, StreamConnection
<1>4. CASE \E h \in Hops : Redirect(h)
  BY <1>4, StreamRedirect
<1>5. CASE \E h \in Hops, a \in Addresses : AttemptFails(h, a) \/ AttemptSucceeds(h, a)
  BY <1>5, StreamConnector
<1>6. CASE \E h \in Hops : EyeballTimeout(h)
  BY <1>6, StreamEyeball
<1>. QED
  BY <1>1, <1>2, <1>3, <1>4, <1>5, <1>6 DEF FetchNext, OnLoop

LEMMA StreamAlways == FetchSpec => []StreamInv
BY StreamInit, StreamNext, PTL DEF FetchSpec

\* A fetch keeps its shape, for any number of addresses and redirects.
THEOREM TypeCorrect == FetchSpec => []FetchTypeOK
BY StreamAlways, PTL DEF StreamInv

\* NoStreamLeft: whichever attempt, alarm or response comes first, and however
\* late the others are, a stream that is open is in use.
THEOREM StreamsAreClosed == FetchSpec => []NoStreamLeft
BY StreamAlways, PTL DEF StreamInv

-----------------------------------------------------------------------------
(* The contract.                                                           *)

\* Only this hop can answer the caller.
Holds(h) == final_callback[h] /\ chained[h]

\* A hop begins when the one before it is over.
InTurn ==
  \A h \in Hops :
    /\ hop[h] = "new" => ~final_callback[h]
    /\ h + 1 \in Hops /\ hop[h] # "over" => hop[h + 1] = "new"

\* The answer is with one hop, or on its way, or there.
OneChain ==
  /\ \A h \in Hops : Holds(h) => callbacks = <<>> /\ result = "pending"
  /\ \A g, h \in Hops : Holds(g) /\ Holds(h) => g = h
  /\ callbacks # <<>> => Tail(callbacks) = <<>> /\ result = "pending"

OnceInv == InTurn /\ OneChain

LEMMA OnceInit == FetchInit => OnceInv
<1>. SUFFICES ASSUME FetchInit PROVE OnceInv
  OBVIOUS
<1>1. \A h \in Hops : h > 0 => hop[h] = "new"
  BY DEF FetchInit
<1>2. \A h \in Hops : h \in Nat /\ (h + 1 \in Hops => h + 1 > 0)
  BY HopsNat
<1>3. \A h \in Hops : (hop[h] = "new" => h > 0) /\ (final_callback[h] <=> h = 0)
  BY <1>2 DEF FetchInit
<1>4. InTurn
  BY <1>1, <1>2, <1>3 DEF InTurn
<1>5. OneChain
  BY <1>3 DEF FetchInit, OneChain, Holds
<1>. QED
  BY <1>4, <1>5 DEF OnceInv

LEMMA AnswersOnce ==
  ASSUME FetchTypeOK, OneChain, NEW h \in Hops, NEW out \in Results, Answers(h, out),
         UNCHANGED <<chained, result>>
  PROVE  OneChain' /\ ~final_callback'[h]
                   /\ \A g \in Hops \ {h} : final_callback'[g] = final_callback[g]
<1>1. /\ ~final_callback'[h]
      /\ \A g \in Hops \ {h} : final_callback'[g] = final_callback[g]
      /\ callbacks' = IF Holds(h) THEN Append(callbacks, out) ELSE callbacks
  BY DEF Answers, FetchTypeOK, Holds
<1>2. CASE Holds(h)
  <2>1. callbacks = <<>> /\ result = "pending" /\ \A g \in Hops \ {h} : ~Holds(g)
    BY <1>2 DEF OneChain
  <2>2. callbacks' = <<out>> /\ Tail(callbacks') = <<>>
    BY <1>1, <1>2, <2>1
  <2>. QED
    BY <1>1, <2>1, <2>2 DEF OneChain, Holds
<1>3. CASE ~Holds(h)
  BY <1>1, <1>3 DEF OneChain, Holds
<1>. QED
  BY <1>1, <1>2, <1>3

LEMMA OnceConnection ==
  ASSUME FetchTypeOK, OnceInv, NEW h \in Hops,
         OnNoConnection(h) \/ OnTimeout(h) \/ Finish(h)
  PROVE  OnceInv'
<1>1. PICK out \in Results : Answers(h, out) /\ UNCHANGED <<chained, result>>
  BY DEF OnNoConnection, OnTimeout, Finish, Results
<1>2. OneChain' /\ ~final_callback'[h]
      /\ \A g \in Hops \ {h} : final_callback'[g] = final_callback[g]
  BY <1>1, AnswersOnce DEF OnceInv
<1>3. PICK s \in {"late", "over", hop[h]} : hop' = [hop EXCEPT ![h] = s]
  BY DEF OnNoConnection, OnTimeout, Finish, FetchTypeOK
<1>4. (hop[h] = "new" => hop'[h] = "new") /\ (hop'[h] # "over" => hop[h] # "over")
  <2>1. CASE OnNoConnection(h)
    BY <2>1 DEF OnNoConnection, FetchTypeOK
  <2>2. CASE Finish(h)
    BY <2>2 DEF Finish, FetchTypeOK
  <2>3. CASE OnTimeout(h) /\ hop[h] # "request"
    <3>1. hop' = hop
      BY <2>3 DEF OnTimeout
    <3>. QED
      BY <3>1
  <2>4. CASE hop[h] = "request"
    BY <1>3, <2>4 DEF FetchTypeOK
  <2>. QED
    BY <2>1, <2>2, <2>3, <2>4
<1>5. \A g \in Hops \ {h} : hop'[g] = hop[g]
  BY <1>3 DEF FetchTypeOK
<1>6. InTurn'
  <2>. SUFFICES ASSUME NEW g \in Hops
                PROVE  /\ hop'[g] = "new" => ~final_callback'[g]
                       /\ g + 1 \in Hops /\ hop'[g] # "over" => hop'[g + 1] = "new"
    BY DEF InTurn
  <2>1. hop'[g] # "over" => hop[g] # "over"
    BY <1>4, <1>5
  <2>2. g + 1 \in Hops /\ hop[g + 1] = "new" => hop'[g + 1] = "new"
    BY <1>4, <1>5
  <2>. QED
    BY <1>2, <1>5, <2>1, <2>2 DEF OnceInv, InTurn
<1>. QED
  BY <1>2, <1>6 DEF OnceInv

LEMMA OnceRedirect ==
  ASSUME FetchTypeOK, OnceInv, NEW h \in Hops, Redirect(h)
  PROVE  OnceInv'
<1>1. h + 1 \in Hops /\ h + 1 # h /\ h \in Nat
  BY HopsNat DEF Redirect
<1>2. hop[h] # "new" /\ hop[h] # "over" /\ hop[h + 1] = "new" /\ ~final_callback[h + 1]
  BY <1>1 DEF Redirect, OnceInv, InTurn
<1>3. /\ ~final_callback'[h] /\ final_callback'[h + 1]
      /\ \A g \in Hops \ {h, h + 1} : final_callback'[g] = final_callback[g]
      /\ chained'[h + 1] = Holds(h)
      /\ \A g \in Hops \ {h + 1} : chained'[g] = chained[g]
      /\ UNCHANGED <<callbacks, result>>
  BY <1>1 DEF Redirect, FetchTypeOK, Holds
<1>4. PICK s \in {"unreachable", "connect"} : hop' = [hop EXCEPT ![h] = "over", ![h + 1] = s]
  <2>1. PICK left \in SUBSET Addresses :
          hop' = [hop EXCEPT ![h] = "over", ![h + 1] = IF left = {} THEN "unreachable" ELSE "connect"]
    BY DEF Redirect
  <2>. QED
    BY <2>1
<1>5. /\ hop'[h] = "over" /\ hop'[h + 1] \in {"unreachable", "connect"}
      /\ \A g \in Hops \ {h, h + 1} : hop'[g] = hop[g]
  BY <1>1, <1>4 DEF FetchTypeOK
<1>6. InTurn'
  <2>. SUFFICES ASSUME NEW g \in Hops
                PROVE  /\ hop'[g] = "new" => ~final_callback'[g]
                       /\ g + 1 \in Hops /\ hop'[g] # "over" => hop'[g + 1] = "new"
    BY DEF InTurn
  <2>1. hop'[g] = "new" => ~final_callback'[g]
    BY <1>3, <1>5 DEF OnceInv, InTurn
  <2>2. ASSUME g + 1 \in Hops, hop'[g] # "over" PROVE hop'[g + 1] = "new"
    <3>1. g \in Nat
      BY HopsNat
    <3>2. CASE g = h + 1
      <4>1. hop[g + 1] = "new"
        BY <1>2, <2>2, <3>2 DEF OnceInv, InTurn
      <4>2. g + 1 # h /\ g + 1 # h + 1
        BY <1>1, <3>1, <3>2
      <4>. QED
        BY <1>5, <2>2, <4>1, <4>2
    <3>3. CASE g # h + 1
      <4>1. g # h /\ hop[g] # "over"
        BY <1>5, <2>2, <3>3
      <4>2. hop[g + 1] = "new"
        BY <2>2, <4>1 DEF OnceInv, InTurn
      <4>3. g + 1 # h /\ g + 1 # h + 1
        BY <1>1, <1>2, <3>1, <4>1, <4>2
      <4>. QED
        BY <1>5, <2>2, <4>2, <4>3
    <3>. QED
      BY <3>2, <3>3
  <2>. QED
    BY <2>1, <2>2
<1>7. OneChain'
  <2>1. \A g \in Hops : Holds(g)' <=> (g = h + 1 /\ Holds(h)) \/ (g \notin {h, h + 1} /\ Holds(g))
    BY <1>3 DEF Holds
  <2>. QED
    BY <1>3, <2>1 DEF OnceInv, OneChain
<1>. QED
  BY <1>6, <1>7 DEF OnceInv

LEMMA OnceNext == FetchTypeOK /\ OnceInv /\ [FetchNext]_fetch => OnceInv'
<1>. SUFFICES ASSUME FetchTypeOK, OnceInv, [FetchNext]_fetch PROVE OnceInv'
  OBVIOUS
<1>1. CASE UNCHANGED fetch
  BY <1>1 DEF OnceInv, InTurn, OneChain, Holds, fetch, connection
<1>2. CASE Deliver
  BY <1>2 DEF Deliver, OnceInv, InTurn, OneChain, Holds, connection
<1>3. CASE \E h \in Hops : OnNoConnection(h) \/ OnTimeout(h) \/ Finish(h)
  BY <1>3, OnceConnection
<1>4. CASE \E h \in Hops : Redirect(h)
  BY <1>4, OnceRedirect
<1>5. ASSUME UNCHANGED <<final_callback, chained, callbacks, result>>,
             \A h \in Hops : (hop[h] = "new" <=> hop'[h] = "new") /\ (hop[h] = "over" => hop'[h] = "over")
      PROVE  OnceInv'
  BY <1>5 DEF OnceInv, InTurn, OneChain, Holds
<1>6. CASE \E h \in Hops : Handshake(h) \/ OnConnect(h) \/ EyeballTimeout(h)
  BY <1>5, <1>6 DEF Handshake, OnConnect, EyeballTimeout, FetchTypeOK
<1>7. CASE \E h \in Hops, a \in Addresses : AttemptFails(h, a) \/ AttemptSucceeds(h, a)
  <2>. PICK h \in Hops, a \in Addresses : AttemptFails(h, a) \/ AttemptSucceeds(h, a)
    BY <1>7
  <2>1. UNCHANGED <<final_callback, chained, callbacks, result>>
    BY DEF AttemptFails, AttemptSucceeds
  <2>2. hop' = hop \/ (hop[h] = "connect"
                       /\ \E s \in {"unreachable", "handshake", "connected"} : hop' = [hop EXCEPT ![h] = s])
    BY DEF AttemptFails, AttemptSucceeds
  <2>. QED
    BY <1>5, <2>1, <2>2 DEF FetchTypeOK
<1>. QED
  BY <1>1, <1>2, <1>3, <1>4, <1>6, <1>7 DEF FetchNext, OnLoop

LEMMA OnceAlways == FetchSpec => [](FetchTypeOK /\ OnceInv)
BY StreamAlways, OnceInit, OnceNext, PTL DEF FetchSpec, StreamInv

\* The contract: the caller is given one result and no other, whatever races
\* with what.
THEOREM FetchKeepsContract == FetchSpec => Once!Init /\ [][Once!Answer]_result
<1>1. FetchInit => Once!Init
  BY DEF FetchInit, Once!Init
<1>2. FetchTypeOK /\ OnceInv /\ [FetchNext]_fetch => [Once!Answer]_result
  <2>. SUFFICES ASSUME FetchTypeOK, OnceInv, [FetchNext]_fetch PROVE [Once!Answer]_result
    OBVIOUS
  <2>1. CASE Deliver
    <3>1. Head(callbacks) \in Results
      BY <2>1 DEF Deliver, FetchTypeOK
    <3>. QED
      BY <2>1, <3>1 DEF Deliver, OnceInv, OneChain, Once!Answer, Results
  <2>2. CASE ~Deliver
    BY <2>2 DEF FetchNext, OnLoop, OnConnect, OnNoConnection, OnTimeout, EyeballTimeout, Handshake,
                Finish, Redirect, AttemptFails, AttemptSucceeds, fetch
  <2>. QED
    BY <2>1, <2>2
<1>. QED
  BY <1>1, <1>2, OnceAlways, PTL DEF FetchSpec
-----------------------------------------------------------------------------
(* The connector: at most one attempt of a family at a time, and never      *)
(* nothing to come as long as it has addresses left.                       *)

Connecting(s, family) == {a \in family : s[a] = "connecting"}
Waiting(s, family)    == {a \in family : s[a] = "waiting"}

\* The other family begins when the timer of the connector is gone.
Begun(timer) == IF timer THEN {Primary} ELSE {Primary, Secondary}

OneAtATime(s) ==
  \A family \in {Primary, Secondary} : \A a, b \in Connecting(s, family) : a = b

\* Of a hop with these sockets, this timer, and looking for a connection or not.
Attempts(s, timer, looking) ==
  /\ OneAtATime(s)
  /\ timer => looking /\ Connecting(s, Secondary) = {}
  /\ looking => /\ \E a \in Addresses : s[a] # "closed"
                /\ \A a \in Addresses : s[a] # "open"
                /\ \A family \in Begun(timer) :
                     Waiting(s, family) # {} => Connecting(s, family) # {}

ConnectorInv == \A h \in Hops : Attempts(socket[h], eyeball_timer[h], hop[h] = "connect")

\* The first of those that wait, if any does.
LEMMA TryNextTries ==
  ASSUME NEW s \in Sockets, NEW family \in {Primary, Secondary}
  PROVE  \/ TryNext(s, family) = s /\ Waiting(s, family) = {}
         \/ \E m \in family : s[m] = "waiting" /\ TryNext(s, family) = [s EXCEPT ![m] = "connecting"]
<1>1. family \subseteq Nat /\ family \subseteq Addresses
  BY FetchAssumption DEF Addresses
<1>2. DOMAIN s = Addresses /\ s = [a \in Addresses |-> s[a]]
  BY DEF Sockets
<1>3. TryNext(s, family) =
        [a \in Addresses |-> IF a \in Waiting(s, family) /\ \A b \in Waiting(s, family) : a <= b
                             THEN "connecting" ELSE s[a]]
  BY DEF TryNext, Waiting
<1>4. CASE Waiting(s, family) = {}
  BY <1>2, <1>3, <1>4
<1>5. CASE Waiting(s, family) # {}
  <2>1. Waiting(s, family) \in SUBSET Nat
    BY <1>1 DEF Waiting
  <2>2. PICK m \in Waiting(s, family) : \A b \in Waiting(s, family) : m <= b
    BY <1>5, <2>1, Least
  <2>3. \A a \in Waiting(s, family) : (\A b \in Waiting(s, family) : a <= b) => a = m
    BY <2>1, <2>2
  <2>4. m \in family /\ m \in Addresses /\ s[m] = "waiting"
    BY <1>1, <2>2 DEF Waiting
  <2>5. TryNext(s, family) = [s EXCEPT ![m] = "connecting"]
    BY <1>2, <1>3, <2>2, <2>3, <2>4
  <2>. QED
    BY <2>4, <2>5
<1>. QED
  BY <1>4, <1>5

\* It is the only one, if there was none, and touches no other family.
LEMMA TryNextAlone ==
  ASSUME NEW s \in Sockets, NEW family \in {Primary, Secondary}, Connecting(s, family) = {}
  PROVE  LET t == TryNext(s, family)
         IN  /\ t \in Sockets
             /\ \A a, b \in Connecting(t, family) : a = b
             /\ Waiting(t, family) # {} => Connecting(t, family) # {}
             /\ \A a \in Addresses : (t[a] = "closed" <=> s[a] = "closed") /\ (t[a] = "open" <=> s[a] = "open")
             /\ \A a \in Addresses \ family : t[a] = s[a]
<1>. DEFINE t == TryNext(s, family)
<1>1. t \in Sockets /\ family \subseteq Addresses
  BY TryNextType DEF Addresses
<1>2. CASE t = s /\ Waiting(s, family) = {}
  BY <1>1, <1>2
<1>3. ASSUME NEW m \in family, s[m] = "waiting", t = [s EXCEPT ![m] = "connecting"]
      PROVE  /\ \A a, b \in Connecting(t, family) : a = b
             /\ Waiting(t, family) # {} => Connecting(t, family) # {}
             /\ \A a \in Addresses : (t[a] = "closed" <=> s[a] = "closed") /\ (t[a] = "open" <=> s[a] = "open")
             /\ \A a \in Addresses \ family : t[a] = s[a]
  <2>. HIDE DEF t
  <2>1. t[m] = "connecting" /\ \A a \in Addresses \ {m} : t[a] = s[a]
    BY <1>1, <1>3 DEF Sockets
  <2>2. Connecting(t, family) = {m}
    BY <1>1, <2>1 DEF Connecting
  <2>. QED
    BY <1>1, <1>3, <2>1, <2>2
<1>. QED
  BY <1>1, <1>2, <1>3, TryNextTries

LEMMA Families ==
  /\ Primary \subseteq Addresses /\ Secondary \subseteq Addresses
  /\ \A a \in Addresses : a \in Primary <=> a \notin Secondary
BY FetchAssumption DEF Addresses

\* A connector begins with the first of the primary addresses.
LEMMA AttemptsBegin ==
  ASSUME NEW left \in SUBSET Addresses
  PROVE  Attempts(Tried(left), left # {}, left # {})
<1>. DEFINE s == [a \in Addresses |-> IF a \in left THEN "waiting" ELSE "closed"]
            t == TryNext(s, Primary)
<1>1. s \in Sockets /\ Connecting(s, Primary) = {} /\ Connecting(s, Secondary) = {}
  BY Families DEF Sockets, Connecting
<1>2. Tried(left) = t
  BY DEF Tried
<1>3. \A a \in Addresses : s[a] # "open" /\ (s[a] = "closed" <=> a \notin left)
  OBVIOUS
<1>. HIDE DEF s
<1>4. /\ \A a, b \in Connecting(t, Primary) : a = b
      /\ Waiting(t, Primary) # {} => Connecting(t, Primary) # {}
      /\ \A a \in Addresses : (t[a] = "closed" <=> s[a] = "closed") /\ (t[a] = "open" <=> s[a] = "open")
      /\ \A a \in Addresses \ Primary : t[a] = s[a]
  BY <1>1, TryNextAlone
<1>5. Connecting(t, Secondary) = {}
  BY <1>1, <1>4, Families DEF Connecting
<1>. HIDE DEF t
<1>. QED
  BY <1>2, <1>3, <1>4, <1>5 DEF Attempts, OneAtATime, Begun

\* The timer of the connector goes off.
LEMMA AttemptsTimer ==
  ASSUME NEW s \in Sockets, Attempts(s, TRUE, TRUE)
  PROVE  Attempts(TryNext(s, Secondary), FALSE, TRUE)
<1>. DEFINE t == TryNext(s, Secondary)
<1>1. /\ \A a, b \in Connecting(t, Secondary) : a = b
      /\ Waiting(t, Secondary) # {} => Connecting(t, Secondary) # {}
      /\ \A a \in Addresses : (t[a] = "closed" <=> s[a] = "closed") /\ (t[a] = "open" <=> s[a] = "open")
      /\ \A a \in Addresses \ Secondary : t[a] = s[a]
  BY TryNextAlone DEF Attempts
<1>. HIDE DEF t
<1>2. Connecting(t, Primary) = Connecting(s, Primary) /\ Waiting(t, Primary) = Waiting(s, Primary)
  BY <1>1, Families DEF Connecting, Waiting
<1>3. Attempts(t, FALSE, TRUE)
  BY <1>1, <1>2 DEF Attempts, OneAtATime, Begun
<1>. QED
  BY <1>3 DEF t

\* Without a connector that looks, one attempt less is all there can be.
LEMMA AttemptsFewer ==
  ASSUME NEW s, NEW t, OneAtATime(s), \A a \in Addresses : t[a] = "connecting" => s[a] = "connecting"
  PROVE  Attempts(t, FALSE, FALSE)
BY Families DEF Attempts, OneAtATime, Connecting

\* An attempt fails while the connector looks.
LEMMA AttemptsFail ==
  ASSUME NEW s \in Sockets, NEW timer \in BOOLEAN, Attempts(s, timer, TRUE),
         NEW a \in Addresses, s[a] = "connecting"
  PROVE  LET without == [s EXCEPT ![a] = "closed"]
             more    == TryNext(without, Family(a))
             both    == IF timer THEN TryNext(more, Secondary) ELSE more
             last    == \A b \in Addresses : without[b] = "closed"
         IN  Attempts(both, FALSE, ~last)
<1>. DEFINE without == [s EXCEPT ![a] = "closed"]
            f       == Family(a)
            more    == TryNext(without, f)
            both    == IF timer THEN TryNext(more, Secondary) ELSE more
            last    == \A b \in Addresses : without[b] = "closed"
<1>1. f \in {Primary, Secondary} /\ a \in f /\ (timer => f = Primary)
  BY Families DEF Family, Attempts, Connecting
<1>2. /\ without \in Sockets
      /\ without[a] = "closed" /\ \A b \in Addresses \ {a} : without[b] = s[b]
  BY DEF Sockets
<1>. HIDE DEF without, f
<1>3. Connecting(without, f) = {}
  BY <1>1, <1>2, Families DEF Attempts, OneAtATime, Connecting
<1>4. /\ more \in Sockets
      /\ \A x, y \in Connecting(more, f) : x = y
      /\ Waiting(more, f) # {} => Connecting(more, f) # {}
      /\ \A b \in Addresses : (more[b] = "closed" <=> without[b] = "closed")
                              /\ (more[b] = "open" <=> without[b] = "open")
      /\ \A b \in Addresses \ f : more[b] = without[b]
  BY <1>1, <1>2, <1>3, TryNextAlone
<1>. HIDE DEF more
<1>5. \A b \in Addresses : without[b] # "open"
  BY <1>2 DEF Attempts
<1>6. ASSUME ~timer PROVE Attempts(both, FALSE, ~last)
  <2>1. \A g \in {Primary, Secondary} \ {f} :
          Connecting(more, g) = Connecting(s, g) /\ Waiting(more, g) = Waiting(s, g)
    BY <1>1, <1>2, <1>4, Families DEF Connecting, Waiting
  <2>2. OneAtATime(more)
    BY <1>4, <2>1 DEF OneAtATime, Attempts
  <2>3. \A g \in {Primary, Secondary} : Waiting(more, g) # {} => Connecting(more, g) # {}
    BY <1>4, <1>6, <2>1 DEF Attempts, Begun
  <2>. QED
    BY <1>4, <1>5, <1>6, <2>2, <2>3 DEF Attempts, Begun
<1>7. ASSUME timer PROVE Attempts(both, FALSE, ~last)
  <2>. DEFINE t == TryNext(more, Secondary)
  <2>1. f = Primary /\ Connecting(more, Secondary) = {}
    BY <1>1, <1>2, <1>4, <1>7, Families DEF Attempts, Connecting
  <2>2. /\ \A x, y \in Connecting(t, Secondary) : x = y
        /\ Waiting(t, Secondary) # {} => Connecting(t, Secondary) # {}
        /\ \A b \in Addresses : (t[b] = "closed" <=> more[b] = "closed")
                                /\ (t[b] = "open" <=> more[b] = "open")
        /\ \A b \in Addresses \ Secondary : t[b] = more[b]
    BY <1>4, <2>1, TryNextAlone
  <2>3. both = t
    BY <1>7
  <2>. HIDE DEF t, both
  <2>4. Connecting(t, Primary) = Connecting(more, Primary) /\ Waiting(t, Primary) = Waiting(more, Primary)
    BY <2>2, Families DEF Connecting, Waiting
  <2>. QED
    BY <1>4, <1>5, <2>1, <2>2, <2>3, <2>4 DEF Attempts, OneAtATime, Begun
<1>8. Attempts(both, FALSE, ~last)
  BY <1>6, <1>7
<1>. QED
  BY <1>8 DEF more, without, f

LEMMA ConnectorInit == FetchInit => ConnectorInv
<1>. SUFFICES ASSUME FetchInit, NEW h \in Hops
              PROVE  Attempts(socket[h], eyeball_timer[h], hop[h] = "connect")
  BY DEF ConnectorInv
<1>1. PICK left \in SUBSET Addresses :
        /\ hop = [g \in Hops |-> IF g > 0 THEN "new" ELSE IF left = {} THEN "unreachable" ELSE "connect"]
        /\ socket = [g \in Hops |-> Tried(IF g = 0 THEN left ELSE {})]
        /\ eyeball_timer = [g \in Hops |-> g = 0 /\ left # {}]
  BY DEF FetchInit
<1>. DEFINE mine == IF h = 0 THEN left ELSE {}
<1>2. h \in Nat
  BY HopsNat
<1>3. socket[h] = Tried(mine) /\ eyeball_timer[h] = (mine # {}) /\ (hop[h] = "connect") = (mine # {})
  BY <1>1, <1>2
<1>4. Attempts(Tried(mine), mine # {}, mine # {})
  <2>1. mine \in SUBSET Addresses
    OBVIOUS
  <2>. HIDE DEF mine
  <2>. QED
    BY <2>1, AttemptsBegin
<1>. QED
  BY <1>3, <1>4

\* A hop that is past its connector, or has none: what is closed does not count.
LEMMA ConnectorOver ==
  ASSUME FetchTypeOK, ConnectorInv, NEW h \in Hops, hop[h] # "connect", hop'[h] # "connect",
         UNCHANGED eyeball_timer, socket'[h] \in {socket[h], Closed(h)}
  PROVE  Attempts(socket'[h], eyeball_timer'[h], hop'[h] = "connect")
<1>1. OneAtATime(socket[h]) /\ eyeball_timer[h] = FALSE
  BY DEF ConnectorInv, Attempts, FetchTypeOK
<1>2. \A a \in Addresses : socket'[h][a] = "connecting" => socket[h][a] = "connecting"
  BY DEF Closed
<1>3. Attempts(socket'[h], FALSE, FALSE)
  BY <1>1, <1>2, AttemptsFewer
<1>. QED
  BY <1>1, <1>3

LEMMA ConnectorFails ==
  ASSUME FetchTypeOK, ConnectorInv, NEW h \in Hops, NEW a \in Addresses, AttemptFails(h, a)
  PROVE  Attempts(socket'[h], eyeball_timer'[h], hop'[h] = "connect")
<1>. DEFINE without == [socket[h] EXCEPT ![a] = "closed"]
            more    == TryNext(without, Family(a))
            both    == IF eyeball_timer[h] THEN TryNext(more, Secondary) ELSE more
            last    == \A b \in Addresses : without[b] = "closed"
<1>0. socket[h] \in Sockets /\ eyeball_timer[h] \in BOOLEAN /\ socket[h][a] = "connecting"
  BY DEF FetchTypeOK, Sockets, AttemptFails
<1>1. CASE hop[h] = "connect"
  <2>1. Attempts(both, FALSE, ~last)
    BY <1>0, <1>1, AttemptsFail DEF ConnectorInv
  <2>2. /\ socket' = [socket EXCEPT ![h] = both]
        /\ eyeball_timer' = [eyeball_timer EXCEPT ![h] = FALSE]
        /\ hop' = IF last THEN [hop EXCEPT ![h] = "unreachable"] ELSE hop
    BY <1>1 DEF AttemptFails
  <2>. HIDE DEF both, last
  <2>3. socket'[h] = both /\ eyeball_timer'[h] = FALSE /\ (hop'[h] = "connect") = ~last
    BY <1>1, <2>2 DEF FetchTypeOK
  <2>. QED
    BY <2>1, <2>3
<1>2. CASE hop[h] # "connect"
  <2>1. socket' = [socket EXCEPT ![h] = without] /\ UNCHANGED <<hop, eyeball_timer>>
    BY <1>2 DEF AttemptFails
  <2>2. socket'[h] = without
    BY <2>1 DEF FetchTypeOK
  <2>3. OneAtATime(socket[h]) /\ eyeball_timer[h] = FALSE
    BY <1>2 DEF ConnectorInv, Attempts, FetchTypeOK
  <2>4. \A b \in Addresses : without[b] = "connecting" => socket[h][b] = "connecting"
    BY <1>0 DEF Sockets
  <2>5. Attempts(without, FALSE, FALSE)
    BY <2>3, <2>4, AttemptsFewer
  <2>. QED
    BY <1>2, <2>1, <2>2, <2>3, <2>5
<1>. QED
  BY <1>1, <1>2

LEMMA ConnectorSucceeds ==
  ASSUME FetchTypeOK, ConnectorInv, NEW h \in Hops, NEW a \in Addresses, AttemptSucceeds(h, a)
  PROVE  Attempts(socket'[h], eyeball_timer'[h], hop'[h] = "connect")
<1>1. PICK s \in {"open", "closed"} : socket' = [socket EXCEPT ![h][a] = s]
  BY DEF AttemptSucceeds
<1>2. \A b \in Addresses : socket'[h][b] = "connecting" => socket[h][b] = "connecting"
  BY <1>1 DEF FetchTypeOK
<1>3. OneAtATime(socket[h]) /\ (hop[h] # "connect" => eyeball_timer[h] = FALSE)
  BY DEF ConnectorInv, Attempts, FetchTypeOK
<1>4. eyeball_timer'[h] = FALSE /\ hop'[h] # "connect"
  BY <1>3 DEF AttemptSucceeds, FetchTypeOK
<1>5. Attempts(socket'[h], FALSE, FALSE)
  BY <1>2, <1>3, AttemptsFewer
<1>6. (hop'[h] = "connect") = FALSE
  BY <1>4
<1>. QED
  BY <1>4, <1>5, <1>6

LEMMA ConnectorRedirect ==
  ASSUME FetchTypeOK, ConnectorInv, NEW h \in Hops, Redirect(h), NEW g \in Hops
  PROVE  Attempts(socket'[g], eyeball_timer'[g], hop'[g] = "connect")
<1>1. h + 1 \in Hops /\ h + 1 # h
  BY HopsNat DEF Redirect
<1>2. PICK left \in SUBSET Addresses :
        /\ hop' = [hop EXCEPT ![h] = "over", ![h + 1] = IF left = {} THEN "unreachable" ELSE "connect"]
        /\ socket' = [socket EXCEPT ![h] = Closed(h), ![h + 1] = Tried(left)]
        /\ eyeball_timer' = [eyeball_timer EXCEPT ![h + 1] = (left # {})]
  BY DEF Redirect
<1>3. CASE g = h + 1
  <2>1. socket'[g] = Tried(left) /\ eyeball_timer'[g] = (left # {}) /\ (hop'[g] = "connect") = (left # {})
    BY <1>1, <1>2, <1>3 DEF FetchTypeOK
  <2>. QED
    BY <2>1, AttemptsBegin
<1>4. CASE g = h
  <2>1. hop[h] # "connect" /\ hop'[h] = "over" /\ socket'[h] = Closed(h) /\ eyeball_timer'[h] = eyeball_timer[h]
    BY <1>1, <1>2 DEF FetchTypeOK, Redirect
  <2>2. OneAtATime(socket[h]) /\ eyeball_timer[h] = FALSE
    BY <2>1 DEF ConnectorInv, Attempts, FetchTypeOK
  <2>3. \A a \in Addresses : Closed(h)[a] = "connecting" => socket[h][a] = "connecting"
    BY DEF Closed
  <2>4. Attempts(Closed(h), FALSE, FALSE)
    BY <2>2, <2>3, AttemptsFewer
  <2>5. (hop'[h] = "connect") = FALSE
    BY <2>1
  <2>. QED
    BY <1>4, <2>1, <2>2, <2>4, <2>5
<1>5. CASE g \notin {h, h + 1}
  BY <1>1, <1>2, <1>5 DEF FetchTypeOK, ConnectorInv
<1>. QED
  BY <1>3, <1>4, <1>5

LEMMA ConnectorNext == FetchTypeOK /\ ConnectorInv /\ [FetchNext]_fetch => ConnectorInv'
<1>. SUFFICES ASSUME FetchTypeOK, ConnectorInv, [FetchNext]_fetch PROVE ConnectorInv'
  OBVIOUS
<1>1. CASE UNCHANGED connection
  BY <1>1 DEF ConnectorInv, connection
<1>2. ASSUME NEW h \in Hops,
             Attempts(socket'[h], eyeball_timer'[h], hop'[h] = "connect"),
             \A g \in Hops \ {h} : /\ socket'[g] = socket[g] /\ eyeball_timer'[g] = eyeball_timer[g]
                                   /\ hop'[g] = hop[g]
      PROVE  ConnectorInv'
  BY <1>2 DEF ConnectorInv
<1>3. ASSUME NEW h \in Hops, EyeballTimeout(h) PROVE ConnectorInv'
  <2>1. /\ socket' = [socket EXCEPT ![h] = TryNext(@, Secondary)] /\ UNCHANGED hop
        /\ eyeball_timer' = [eyeball_timer EXCEPT ![h] = FALSE] /\ eyeball_timer[h]
    BY <1>3 DEF EyeballTimeout
  <2>2. socket[h] \in Sockets /\ Attempts(socket[h], TRUE, TRUE) /\ hop[h] = "connect"
    BY <2>1 DEF ConnectorInv, Attempts, FetchTypeOK, Sockets
  <2>3. Attempts(TryNext(socket[h], Secondary), FALSE, TRUE)
    BY <2>2, AttemptsTimer
  <2>4. socket'[h] = TryNext(socket[h], Secondary) /\ eyeball_timer'[h] = FALSE /\ (hop'[h] = "connect") = TRUE
    BY <2>1, <2>2 DEF FetchTypeOK
  <2>. QED
    BY <1>2, <2>1, <2>3, <2>4 DEF FetchTypeOK
<1>4. ASSUME NEW h \in Hops, NEW a \in Addresses, AttemptFails(h, a) PROVE ConnectorInv'
  <2>1. \A g \in Hops \ {h} : /\ socket'[g] = socket[g] /\ eyeball_timer'[g] = eyeball_timer[g]
                              /\ hop'[g] = hop[g]
    BY <1>4 DEF AttemptFails, FetchTypeOK
  <2>. QED
    BY <1>2, <1>4, <2>1, ConnectorFails
<1>5. ASSUME NEW h \in Hops, NEW a \in Addresses, AttemptSucceeds(h, a) PROVE ConnectorInv'
  <2>1. \A g \in Hops \ {h} : /\ socket'[g] = socket[g] /\ eyeball_timer'[g] = eyeball_timer[g]
                              /\ hop'[g] = hop[g]
    BY <1>5 DEF AttemptSucceeds, FetchTypeOK
  <2>. QED
    BY <1>2, <1>5, <2>1, ConnectorSucceeds
<1>6. ASSUME NEW h \in Hops,
             Handshake(h) \/ OnConnect(h) \/ OnNoConnection(h) \/ Finish(h)
               \/ (OnTimeout(h) /\ hop[h] = "request")
      PROVE  ConnectorInv'
  <2>1. PICK s \in {"connected", "unreachable", "request", "late", "over"} : hop' = [hop EXCEPT ![h] = s]
    BY <1>6 DEF Handshake, OnConnect, OnNoConnection, Finish, OnTimeout
  <2>2. hop[h] # "connect" /\ UNCHANGED eyeball_timer
    BY <1>6 DEF Handshake, OnConnect, OnNoConnection, Finish, OnTimeout
  <2>3. socket' = socket \/ socket' = [socket EXCEPT ![h] = Closed(h)]
    BY <1>6 DEF Handshake, OnConnect, OnNoConnection, Finish, OnTimeout
  <2>4. hop'[h] # "connect" /\ socket'[h] \in {socket[h], Closed(h)}
    BY <2>1, <2>3 DEF FetchTypeOK
  <2>5. Attempts(socket'[h], eyeball_timer'[h], hop'[h] = "connect")
    BY <2>2, <2>4, ConnectorOver
  <2>. QED
    BY <1>2, <2>1, <2>2, <2>3, <2>5 DEF FetchTypeOK
<1>7. ASSUME NEW h \in Hops, OnTimeout(h), hop[h] # "request" PROVE ConnectorInv'
  BY <1>7 DEF OnTimeout, ConnectorInv
<1>8. ASSUME NEW h \in Hops, Redirect(h) PROVE ConnectorInv'
  BY <1>8, ConnectorRedirect DEF ConnectorInv
<1>. QED
  BY <1>1, <1>3, <1>4, <1>5, <1>6, <1>7, <1>8 DEF FetchNext, OnLoop, Deliver, fetch, connection

LEMMA ConnectorAlways == FetchSpec => [](FetchTypeOK /\ ConnectorInv)
BY StreamAlways, ConnectorInit, ConnectorNext, PTL DEF FetchSpec, StreamInv

\* No family has two attempts under way at once: try_connect goes on when the
\* attempt before has failed, and the other family is begun by the timer or by
\* the first failure, whichever comes first, but not by both.
OneAttemptPerFamily == \A h \in Hops : OneAtATime(socket[h])

THEOREM FamiliesInTurn == FetchSpec => []OneAttemptPerFamily
<1>1. ConnectorInv => OneAttemptPerFamily
  BY DEF ConnectorInv, Attempts, OneAttemptPerFamily
<1>. QED
  BY <1>1, ConnectorAlways, PTL

\* A connector that has not found a connection nor run out of addresses has an
\* attempt under way or its timer running: on_connect_done leaves no address
\* waiting for nobody.
NoneForgotten ==
  \A h \in Hops : hop[h] = "connect" =>
    eyeball_timer[h] \/ Connecting(socket[h], Addresses) # {}

THEOREM ConnectorGoesOn == FetchSpec => []NoneForgotten
<1>1. FetchTypeOK /\ ConnectorInv => NoneForgotten
  <2>. SUFFICES ASSUME FetchTypeOK, ConnectorInv, NEW h \in Hops, hop[h] = "connect", ~eyeball_timer[h]
                PROVE  Connecting(socket[h], Addresses) # {}
    BY DEF NoneForgotten
  <2>1. Attempts(socket[h], FALSE, TRUE)
    BY DEF ConnectorInv, FetchTypeOK
  <2>2. PICK a \in Addresses : socket[h][a] \in {"waiting", "connecting"}
    BY <2>1 DEF Attempts, FetchTypeOK
  <2>3. PICK family \in {Primary, Secondary} : a \in family
    BY Families
  <2>4. Connecting(socket[h], family) # {}
    BY <2>1, <2>2, <2>3 DEF Attempts, Begun, Waiting, Connecting
  <2>. QED
    BY <2>4, Families DEF Connecting
<1>. QED
  BY <1>1, ConnectorAlways, PTL

-----------------------------------------------------------------------------
(* As long as the caller waits, something is on its way to it.             *)

\* Whoever has a callback to call has an alarm set.
ComingInv ==
  /\ \A h \in Hops : final_callback[h] => alarm[h]
  /\ result = "pending" => callbacks # <<>> \/ \E h \in Hops : Holds(h)

LEMMA ComingInit == FetchInit => ComingInv
BY HopsNat DEF FetchInit, ComingInv, Holds

LEMMA AnswersComing ==
  ASSUME FetchTypeOK, ComingInv, NEW h \in Hops, NEW out \in Results, Answers(h, out),
         UNCHANGED <<chained, result>>
  PROVE  ComingInv'
<1>1. /\ ~final_callback'[h]
      /\ \A g \in Hops \ {h} : final_callback'[g] = final_callback[g] /\ alarm'[g] = alarm[g]
      /\ callbacks' = IF Holds(h) THEN Append(callbacks, out) ELSE callbacks
  BY DEF Answers, FetchTypeOK, Holds
<1>2. Holds(h) => callbacks' # <<>>
  <2>1. callbacks \in Seq(Results)
    BY DEF FetchTypeOK
  <2>2. Append(callbacks, out) # <<>>
    BY <2>1, AppendProperties
  <2>. QED
    BY <1>1, <2>2
<1>3. \A g \in Hops \ {h} : Holds(g)' <=> Holds(g)
  BY <1>1 DEF Holds
<1>. QED
  BY <1>1, <1>2, <1>3 DEF ComingInv

LEMMA ComingRedirect ==
  ASSUME FetchTypeOK, ComingInv, OnceInv, NEW h \in Hops, Redirect(h)
  PROVE  ComingInv'
<1>1. h + 1 \in Hops /\ h + 1 # h
  BY HopsNat DEF Redirect
<1>2. /\ ~final_callback'[h] /\ final_callback'[h + 1] /\ alarm'[h + 1]
      /\ \A g \in Hops \ {h, h + 1} :
           final_callback'[g] = final_callback[g] /\ alarm'[g] = alarm[g] /\ chained'[g] = chained[g]
      /\ chained'[h + 1] = Holds(h)
      /\ UNCHANGED <<callbacks, result>>
  BY <1>1 DEF Redirect, FetchTypeOK, Holds
<1>3. ~Holds(h + 1)
  BY <1>1 DEF Redirect, OnceInv, InTurn, Holds
<1>4. \A g \in Hops \ {h, h + 1} : Holds(g)' <=> Holds(g)
  BY <1>2 DEF Holds
<1>5. Holds(h) => Holds(h + 1)'
  BY <1>2 DEF Holds
<1>. QED
  BY <1>1, <1>2, <1>3, <1>4, <1>5 DEF ComingInv

LEMMA ComingNext == FetchTypeOK /\ OnceInv /\ ComingInv /\ [FetchNext]_fetch => ComingInv'
<1>. SUFFICES ASSUME FetchTypeOK, OnceInv, ComingInv, [FetchNext]_fetch PROVE ComingInv'
  OBVIOUS
<1>1. CASE Deliver
  <2>1. Head(callbacks) \in Results
    BY <1>1 DEF Deliver, FetchTypeOK
  <2>. QED
    BY <1>1, <2>1 DEF Deliver, ComingInv, Holds, connection, Results
<1>2. CASE \E h \in Hops : OnNoConnection(h) \/ OnTimeout(h) \/ Finish(h)
  <2>. PICK h \in Hops : OnNoConnection(h) \/ OnTimeout(h) \/ Finish(h)
    BY <1>2
  <2>1. PICK out \in Results : Answers(h, out) /\ UNCHANGED <<chained, result>>
    BY DEF OnNoConnection, OnTimeout, Finish, Results
  <2>. QED
    BY <2>1, AnswersComing
<1>3. CASE \E h \in Hops : Redirect(h)
  BY <1>3, ComingRedirect
<1>4. CASE \E h \in Hops : OnConnect(h)
  BY <1>4 DEF OnConnect, ComingInv, Holds, FetchTypeOK
<1>5. ASSUME UNCHANGED <<alarm, final_callback, chained, callbacks, result>> PROVE ComingInv'
  BY <1>5 DEF ComingInv, Holds
<1>6. CASE \E h \in Hops : Handshake(h) \/ EyeballTimeout(h)
  BY <1>5, <1>6 DEF Handshake, EyeballTimeout
<1>7. CASE \E h \in Hops, a \in Addresses : AttemptFails(h, a) \/ AttemptSucceeds(h, a)
  BY <1>5, <1>7 DEF AttemptFails, AttemptSucceeds
<1>8. CASE UNCHANGED fetch
  BY <1>5, <1>8 DEF fetch, connection
<1>. QED
  BY <1>1, <1>2, <1>3, <1>4, <1>6, <1>7, <1>8 DEF FetchNext, OnLoop

\* The caller of a fetch is never forgotten: as long as it has no result, one
\* is in the queue of the event loop, or a hop that leads back to it has an
\* alarm set, so that what ends the wait of AnsweredOnce is always there.
AnswerComing ==
  result = "pending" => callbacks # <<>> \/ \E h \in Hops : Holds(h) /\ alarm[h]

THEOREM NoCallerForgotten == FetchSpec => []AnswerComing
<1>1. ComingInv => AnswerComing
  BY DEF ComingInv, AnswerComing, Holds
<1>. QED
  BY <1>1, OnceAlways, ComingInit, ComingNext, PTL DEF FetchSpec
=============================================================================
