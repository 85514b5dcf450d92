------------------------------ MODULE HttpFetch ------------------------------
(***************************************************************************)
(* One request to a downstream: fetch of AsyncHTTPClient as the accessors  *)
(* use it, with a client of its own (src/lib/tornado: httpclient.py,       *)
(* simple_httpclient.py, and tcpclient.py for the connection).             *)
(*                                                                         *)
(* A _HTTPConnection has an alarm, for connecting and then for the         *)
(* response.  The connector tries one address after another, those of the  *)
(* second family beside the first when an attempt fails or 0.3 seconds     *)
(* have passed.  Nothing stops an attempt: one may succeed when another    *)
(* one has, or when the alarm has gone off.  A redirect starts the next    *)
(* _HTTPConnection, a hop, with alarm and addresses of its own, and hands  *)
(* the callback on to it.                                                  *)
(*                                                                         *)
(* The network owes nothing: attempts, handshakes and responses may never  *)
(* end.                                                                    *)
(***************************************************************************)
EXTENDS Integers, Sequences, FiniteSets

CONSTANTS
  Primary, Secondary,  \* addresses of two families, tried in their order
  MaxRedirects         \* max_redirects

ASSUME FetchAssumption ==
  /\ Primary \subseteq Nat /\ Secondary \subseteq Nat /\ Primary \cap Secondary = {}
  /\ MaxRedirects \in Nat

Addresses == Primary \cup Secondary
Hops      == 0..MaxRedirects

VARIABLES
  tls,            \* by hop, https: a redirect may change it
  hop,            \* by hop, where it is; it is "new" before its redirect
  socket,         \* by hop and address; one that is not to be had is "closed"
  eyeball_timer,  \* by hop, whether the 0.3 seconds of the connector run
  alarm,          \* by hop, _timeout
  final_callback, \* by hop, whether there is one (still)
  chained,        \* by hop, whether that leads back to the caller
  callbacks,      \* the responses that the event loop has yet to hand over
  result          \* the future of fetch

connection == <<hop, socket, eyeball_timer, alarm, final_callback, chained>>
fetch      == <<tls, connection, callbacks, result>>

Results == {"response", "error"}

FetchTypeOK ==
  /\ tls \in [Hops -> BOOLEAN]
  /\ hop \in [Hops -> {"new", "connect", "unreachable", "handshake", "connected",
                       "request", "late", "over"}]
  /\ socket \in [Hops -> [Addresses -> {"waiting", "connecting", "open", "closed"}]]
  /\ eyeball_timer \in [Hops -> BOOLEAN] /\ alarm \in [Hops -> BOOLEAN]
  /\ final_callback \in [Hops -> BOOLEAN] /\ chained \in [Hops -> BOOLEAN]
  /\ callbacks \in Seq(Results) /\ result \in Results \cup {"pending"}

-----------------------------------------------------------------------------
(* The connector.                                                          *)

\* try_connect
TryNext(sockets, family) ==
  LET waiting == {a \in family : sockets[a] = "waiting"}
  IN  [a \in Addresses |-> IF a \in waiting /\ \A b \in waiting : a <= b
                           THEN "connecting" ELSE sockets[a]]

\* resolve and start, which leave these addresses to try: the others are not
\* among those of the host, or have failed on the spot.
Tried(left) ==
  TryNext([a \in Addresses |-> IF a \in left THEN "waiting" ELSE "closed"], Primary)

\* The first _HTTPConnection.  None of the addresses left is an error, of
\* resolve or of the last attempt.
FetchInit ==
  /\ tls \in [Hops -> BOOLEAN]
  /\ \E left \in SUBSET Addresses :
       /\ hop = [h \in Hops |-> IF h > 0 THEN "new" ELSE IF left = {} THEN "unreachable" ELSE "connect"]
       /\ socket = [h \in Hops |-> Tried(IF h = 0 THEN left ELSE {})]
       /\ eyeball_timer = [h \in Hops |-> h = 0 /\ left # {}]
  /\ alarm = [h \in Hops |-> h = 0]
  /\ final_callback = [h \in Hops |-> h = 0] /\ chained = [h \in Hops |-> h = 0]
  /\ callbacks = <<>> /\ result = "pending"

\* on_timeout of the connector
EyeballTimeout(h) ==
  /\ eyeball_timer[h]
  /\ eyeball_timer' = [eyeball_timer EXCEPT ![h] = FALSE]
  /\ socket' = [socket EXCEPT ![h] = TryNext(@, Secondary)]
  /\ UNCHANGED <<tls, hop, alarm, final_callback, chained, callbacks, result>>

Family(a) == IF a \in Primary THEN Primary ELSE Secondary

\* on_connect_done, of an attempt that has failed: the next of the family, and
\* the other family if it has not begun.
AttemptFails(h, a) ==
  /\ socket[h][a] = "connecting"
  /\ LET without == [socket[h] EXCEPT ![a] = "closed"]
         more    == TryNext(without, Family(a))
         both    == IF eyeball_timer[h] THEN TryNext(more, Secondary) ELSE more
         last    == \A b \in Addresses : without[b] = "closed"
     IN  IF hop[h] # "connect" THEN socket' = [socket EXCEPT ![h] = without] /\ UNCHANGED <<hop, eyeball_timer>>
         ELSE /\ socket' = [socket EXCEPT ![h] = both]
              /\ eyeball_timer' = [eyeball_timer EXCEPT ![h] = FALSE]
              /\ hop' = IF last THEN [hop EXCEPT ![h] = "unreachable"] ELSE hop
  /\ UNCHANGED <<tls, alarm, final_callback, chained, callbacks, result>>

\* on_connect_done, of one that has succeeded: a late arrival is dropped.
AttemptSucceeds(h, a) ==
  /\ socket[h][a] = "connecting"
  /\ IF hop[h] = "connect"
     THEN /\ socket' = [socket EXCEPT ![h][a] = "open"]
          /\ hop' = [hop EXCEPT ![h] = IF tls[h] THEN "handshake" ELSE "connected"]
          /\ eyeball_timer' = [eyeball_timer EXCEPT ![h] = FALSE]
     ELSE socket' = [socket EXCEPT ![h][a] = "closed"] /\ UNCHANGED <<hop, eyeball_timer>>
  /\ UNCHANGED <<tls, alarm, final_callback, chained, callbacks, result>>

\* The stream of this hop is closed.
Closed(h) == [a \in Addresses |-> IF socket[h][a] = "open" THEN "closed" ELSE socket[h][a]]

\* start_tls succeeds, or fails
Handshake(h) ==
  /\ hop[h] = "handshake"
  /\ \/ hop' = [hop EXCEPT ![h] = "connected"] /\ UNCHANGED socket
     \/ hop' = [hop EXCEPT ![h] = "unreachable"] /\ socket' = [socket EXCEPT ![h] = Closed(h)]
  /\ UNCHANGED <<tls, eyeball_timer, alarm, final_callback, chained, callbacks, result>>

-----------------------------------------------------------------------------
(* _HTTPConnection.                                                        *)

\* Mutant: final_callback is not reset.
CallsEveryTime(h, out) ==
  /\ callbacks' = IF final_callback[h] /\ chained[h] THEN Append(callbacks, out) ELSE callbacks
  /\ alarm' = [alarm EXCEPT ![h] = FALSE]
  /\ UNCHANGED final_callback

\* _run_callback, with the alarm taken back: at most once does a hop answer.
\* What it answers when it is not chained is the result of a future nobody has.
Answers(h, out) ==
  /\ callbacks' = IF final_callback[h] /\ chained[h] THEN Append(callbacks, out) ELSE callbacks
  /\ alarm' = [alarm EXCEPT ![h] = FALSE]
  /\ final_callback' = [final_callback EXCEPT ![h] = FALSE]

\* Mutant: the stream that comes too late is forgotten, not closed.
OnConnectLeaves(h) ==
  /\ hop[h] = "connected"
  /\ IF final_callback[h]
     THEN hop' = [hop EXCEPT ![h] = "request"] /\ alarm' = [alarm EXCEPT ![h] = TRUE]
     ELSE hop' = [hop EXCEPT ![h] = "over"] /\ UNCHANGED alarm
  /\ UNCHANGED <<tls, socket, eyeball_timer, final_callback, chained, callbacks, result>>

\* _on_connect: the request is written and the alarm set anew, unless it has
\* gone off before.
OnConnect(h) ==
  /\ hop[h] = "connected"
  /\ IF final_callback[h]
     THEN hop' = [hop EXCEPT ![h] = "request"] /\ alarm' = [alarm EXCEPT ![h] = TRUE] /\ UNCHANGED socket
     ELSE /\ hop' = [hop EXCEPT ![h] = "over"]
          /\ socket' = [socket EXCEPT ![h] = Closed(h)]
          /\ UNCHANGED alarm
  /\ UNCHANGED <<tls, eyeball_timer, final_callback, chained, callbacks, result>>

\* The same callback raises: _handle_exception.
OnNoConnection(h) ==
  /\ hop[h] = "unreachable"
  /\ hop' = [hop EXCEPT ![h] = "over"]
  /\ Answers(h, "error")
  /\ UNCHANGED <<tls, socket, eyeball_timer, chained, result>>

\* _on_timeout.  The response may be in the buffer of the stream by then, and
\* will be read to its end all the same.
OnTimeout(h) ==
  /\ alarm[h]
  /\ Answers(h, "error")
  /\ \/ hop[h] # "request" /\ UNCHANGED <<hop, socket>>
     \/ /\ hop[h] = "request"
        /\ hop' \in {[hop EXCEPT ![h] = s] : s \in {"late", "over"}}
        /\ socket' = [socket EXCEPT ![h] = Closed(h)]
  /\ UNCHANGED <<tls, eyeball_timer, chained, result>>

\* finish, without a redirect, or with one too many, which is an error like
\* any status but 2xx; or the connection breaks.
Finish(h) ==
  /\ hop[h] \in {"request", "late"}
  /\ hop' = [hop EXCEPT ![h] = "over"]
  /\ socket' = [socket EXCEPT ![h] = Closed(h)]
  /\ \E out \in Results : Answers(h, out)
  /\ UNCHANGED <<tls, eyeball_timer, chained, result>>

\* finish, with a redirect: the callback goes with it, also one that has been
\* called (None), and the fetch of the next hop makes one of its own.
Redirect(h) ==
  /\ hop[h] \in {"request", "late"} /\ h + 1 \in Hops
  /\ \E left \in SUBSET Addresses :
       /\ hop' = [hop EXCEPT ![h] = "over", ![h + 1] = IF left = {} THEN "unreachable" ELSE "connect"]
       /\ socket' = [socket EXCEPT ![h] = Closed(h), ![h + 1] = Tried(left)]
       /\ eyeball_timer' = [eyeball_timer EXCEPT ![h + 1] = (left # {})]
  /\ alarm' = [alarm EXCEPT ![h] = FALSE, ![h + 1] = TRUE]
  /\ final_callback' = [final_callback EXCEPT ![h] = FALSE, ![h + 1] = TRUE]
  /\ chained' = [chained EXCEPT ![h + 1] = final_callback[h] /\ chained[h]]
  /\ UNCHANGED <<tls, callbacks, result>>

\* handle_response
Deliver ==
  /\ callbacks # <<>>
  /\ result' = Head(callbacks) /\ callbacks' = Tail(callbacks)
  /\ UNCHANGED <<tls, connection>>

-----------------------------------------------------------------------------

\* What the event loop runs, sooner or later.
OnLoop == Deliver \/ \E h \in Hops : OnConnect(h) \/ OnNoConnection(h) \/ OnTimeout(h)

FetchNext ==
  \/ OnLoop
  \/ \E h \in Hops :
       \/ EyeballTimeout(h) \/ Handshake(h) \/ Finish(h) \/ Redirect(h)
       \/ \E a \in Addresses : AttemptFails(h, a) \/ AttemptSucceeds(h, a)

(***************************************************************************)
(* Alarms go off and scheduled callbacks run.  Nothing of the network.     *)
(***************************************************************************)
FetchSpec == FetchInit /\ [][FetchNext]_fetch /\ WF_fetch(OnLoop)

-----------------------------------------------------------------------------
(* Properties.                                                             *)

\* The caller gets one result, whatever the network does or does not do: a
\* timeout and the answer it races do not both arrive, a redirect does not
\* lose the caller.
AnsweredOnce ==
  \E out \in Results : [](result \in {"pending", out}) /\ <>(result = out)

\* No stream is left open: one that is has been found by its connector first,
\* and is in the handshake, on its way to _on_connect, or in use for a request
\* that is not over.
NoStreamLeft ==
  \A h \in Hops, a \in Addresses : socket[h][a] = "open" =>
    /\ hop[h] \in {"handshake", "connected"} \/ (hop[h] = "request" /\ alarm[h])
    /\ \A b \in Addresses \ {a} : socket[h][b] # "open"

\* The contract of the fetch.
Once == INSTANCE FetchOnce
=============================================================================
