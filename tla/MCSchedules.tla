----------------------------- MODULE MCSchedules -----------------------------
(***************************************************************************)
(* Fanout under each of four schedules that are not the plain one of       *)
(* MCFanout, and, one step down, three sides of its accessors:             *)
(* parallel_async as one with up to three downstreams calls it, the fetch  *)
(* of a single downstream, and the weather accessor with its cache.        *)
(* schedule says which one the request of a behaviour has, "downstreams",  *)
(* "fetch" and "weather" for the latter; under the others parallel_async   *)
(* has returned from a call without requests, a fetch is over, and nobody  *)
(* has asked for the weather.                                              *)
(***************************************************************************)
EXTENDS MCOutcomes, ParallelAsync, HttpFetch, WeatherCache

CONSTANT DefaultAnswer

VARIABLES
  schedule,
  outcome, disabled, next, running, acc_results, acc_status, acc_finished, evt, reply

from_lang == "zh"

\* Fanout together with what is proved of any schedule, for ScheduleProofs to
\* cite of these.
Weimi  == INSTANCE FanoutProofs WITH acc_tuples <- WeimiTuples, Queries <- WeimiQueries,
                                     Selector <- "weimi"
Show   == INSTANCE FanoutProofs WITH acc_tuples <- ShowTuples, Queries <- ShowQueries,
                                     Selector <- "show"
Qcloud == INSTANCE FanoutProofs WITH acc_tuples <- QcloudTuples, Queries <- QcloudQueries,
                                     Selector <- "qcloud"
Mixed  == INSTANCE FanoutProofs WITH acc_tuples <- MixedTuples, Queries <- MixedQueries,
                                     Selector <- "default"

request == <<outcome, disabled, next, running, acc_results, acc_status, acc_finished,
             evt, reply>>
everything == <<schedule, request, vars, fetch, weather>>

NoRequest ==
  /\ outcome = <<>> /\ disabled = {} /\ next = 1 /\ running = {} /\ acc_results = <<>>
  /\ acc_status = <<>> /\ acc_finished = <<>> /\ evt = FALSE /\ reply = NoAnswer

NoDownstreams ==
  /\ body = <<>> /\ wait_for_all = FALSE /\ _unfinished = {} /\ _finished = <<>>
  /\ _running_future = None /\ current_index = None /\ ret = <<>>
  /\ pc = "returned" /\ arrived = <<>>

NoFetch ==
  /\ tls = [h \in Hops |-> FALSE] /\ hop = [h \in Hops |-> "over"] /\ socket = [h \in Hops |-> Tried({})]
  /\ eyeball_timer = [h \in Hops |-> FALSE] /\ alarm = eyeball_timer
  /\ final_callback = alarm /\ chained = alarm
  /\ callbacks = <<>> /\ result = "response"

AnyInit ==
  \/ /\ NoDownstreams /\ NoFetch /\ WeatherInit
     /\ \/ schedule = "weimi"  /\ Weimi!Init
        \/ schedule = "show"   /\ Show!Init
        \/ schedule = "qcloud" /\ Qcloud!Init
        \/ schedule = "mixed"  /\ Mixed!Init
  \/ schedule = "downstreams" /\ Init /\ NoRequest /\ NoFetch /\ WeatherInit
  \/ schedule = "fetch" /\ FetchInit /\ NoRequest /\ NoDownstreams /\ WeatherInit
  \/ schedule = "weather" /\ WeatherInit /\ NoRequest /\ NoDownstreams /\ NoFetch

Asking ==
  /\ UNCHANGED <<schedule, vars, fetch, weather>>
  /\ \/ schedule = "weimi"  /\ Weimi!Next
     \/ schedule = "show"   /\ Show!Next
     \/ schedule = "qcloud" /\ Qcloud!Next
     \/ schedule = "mixed"  /\ Mixed!Next

Gathering == schedule = "downstreams" /\ Next /\ UNCHANGED <<schedule, request, fetch, weather>>
Fetching  == schedule = "fetch" /\ FetchNext /\ UNCHANGED <<schedule, request, vars, weather>>
OnTheLoop == schedule = "fetch" /\ OnLoop /\ UNCHANGED <<schedule, request, vars, weather>>
Weather   == schedule = "weather" /\ WeatherNext /\ UNCHANGED <<schedule, request, vars, fetch>>

AnyNext == Asking \/ Gathering \/ Fetching \/ Weather

\* A request has finitely many steps, each of which goes on to happen once it
\* can: this is the fairness of Fanout and of ParallelAsync, taken together.
\* Of a fetch only what the event loop runs does; of the weather nothing is
\* claimed that would need any.
AnySpec ==
  AnyInit /\ [][AnyNext]_everything /\ WF_everything(Asking \/ Gathering \/ OnTheLoop)

-----------------------------------------------------------------------------
(* The properties of Fanout, each under the schedules it is about; those    *)
(* of ParallelAsync, HttpFetch and WeatherCache go by their own names.     *)

\* A schedule that waits for all replies what its final results say, and no
\* accessor is still at work, and could still write, behind the reply.
WaitsForAll == schedule = "weimi" => Weimi!EarlyReturnSound /\ Weimi!NoStraggler

\* The robots' selector takes every answer there is at the time; the first
\* one, and that nothing foreign gets in, does not depend on the order.
ShowHeadFinal == schedule = "show" => Show!ShowHeadFinal

\* The reply of qcloud depends on the order of arrival in one way only: by
\* losing the better answer of qrobot when another accessor lets it go on.
QcloudLosesOnlyQrobot == [][schedule = "qcloud" => Qcloud!LosesOnlyQrobot]_everything

\* Under a mix of judges, no default answer goes out while somebody has one.
DefaultOnlyWhenSilent == schedule = "mixed" => Mixed!DefaultOnlyWhenSilent

\* The event is set in the end, under every schedule, unless the accessor
\* settled last is a disabled one.
EventuallyReplies ==
  schedule \notin {"downstreams", "fetch", "weather"} /\ (Len(acc_results) \notin disabled) => <>(reply # Pending)
=============================================================================
