------------------------------- MODULE ChatHub -------------------------------
(***************************************************************************)
(* Requests going through FutureHandler.do_chat (src/bin/chathub.py), in   *)
(* the worker processes of the services that share one redis.              *)
(*                                                                         *)
(* Each process serves its requests in turn on one event loop and gives    *)
(* way only at a yield (the intent server, the accessors); the calls to    *)
(* redis block.  Between two such calls another process may run, another   *)
(* request of the same process may not: it is busy.                        *)
(*                                                                         *)
(* SessionManager.get hands out the one DEFAULT_CONTEXT of the process to  *)
(* every user redis knows nothing about, and do_chat to every request of a *)
(* schedule without sessions; add writes into it.  A user redis knows gets *)
(* a context of its own, which is as old as the request.                   *)
(*                                                                         *)
(* A call to redis may fail: client.py sends a command twice before it     *)
(* gives up, and redis may have done then what the caller takes for failed.*)
(* The context that add has updated stays updated.                         *)
(*                                                                         *)
(* The services of QQ acknowledge a request before do_chat and post the    *)
(* reply to a callback behind it.                                          *)
(*                                                                         *)
(* The accessors are those of Fanout, seen through FirstByPriority: one    *)
(* step settles what they say and selects.                                 *)
(***************************************************************************)
EXTENDS SessionContext, FiniteSets

CONSTANTS
  Procs,       \* worker processes
  Uids,        \* users
  Queries,     \* what they say
  MaxReq,      \* bound: requests are 1..MaxReq, started in this order
  Workloads,   \* bound: the requests of a behaviour keep within the procs,
               \* the queries and the number of requests of one of these
  Schedule,    \* by source, the use_* flags, and group_skill when GroupSpecialSkill is on it
  Serves,      \* by process, the sources it is asked for
  Selector,    \* by process and source, the selector
  Outcomes,    \* by query, the slots its accessors may end up with
  Channels,    \* where the accessors' answers come from
  Blacklisted, Whitelisted,  \* queries the lists match
  BadQuestions, \* those of the whitelist it parries whenever they come
  Unreliable,  \* processes whose calls to redis may fail
  Callback,    \* processes of a service that posts its replies
  Overlap,     \* whether a user may speak again before the reply
  NoAnswer, Raise, DefaultAnswer,
  Nobody,      \* no request
  NoRecord,    \* redis has nothing
  Default      \* the context of a request that is DEFAULT_CONTEXT itself

ASSUME HubAssumption ==
  /\ MaxReq \in Nat /\ MaxTurn \in Nat \ {0} /\ Overlap \in BOOLEAN
  /\ Serves \in [Procs -> SUBSET DOMAIN Schedule]
  /\ \A w \in Workloads : w.procs \subseteq Procs /\ w.queries \subseteq Queries
  /\ Nobody \notin 1..MaxReq
  /\ "user" \notin Channels /\ BadQuestions \subseteq Whitelisted

S == INSTANCE Selectors WITH acc_tuples <- <<>>

Req == 1..MaxReq

\* An utterance and a context, as add writes them.
Robot == Channels \cup {"blacklist", "whitelist_pattern"}
Utterance == [by : Uids, request : Req, from : Robot \cup {"user"}]
Context ==
  {c \in [history : Seq(Utterance), last_from : Robot \cup {""}, in_session : BOOLEAN] :
     Len(c.history) <= MaxTurn}

ASSUME NoContext == Default \notin Context /\ NoRecord \notin Context

\* Whatever the accessors say, a selector that does not raise has a result.
ASSUME SelectorAssumption ==
  \A p \in Procs : \A s \in Serves[p], q \in Queries : \A slots \in Outcomes[q] :
    LET results == S!select_results(Selector[p][s], slots, "zh")
    IN results # Raise => results # <<>> /\ results[1].from \in Channels

VARIABLES
  stage,     \* where each request is in do_chat
  uid, source, query, proc,  \* what it is about and who serves it
  context,   \* acc_params["context"]: Default or a copy of its own
  reply,     \* the results it ends with
  busy,      \* by process, the request between two calls to redis
  default,   \* by process, DEFAULT_CONTEXT
  session,   \* redis: by user, the context or NoRecord
  cache      \* redis: by query, the cached results or NoRecord

request == <<uid, source, query, proc>>
vars == <<stage, request, context, reply, busy, default, session, cache>>

Stages == {"new", "intent", "check", "add", "set", "accessors", "callback", "done", "failed", "lost"}
Ended  == {"done", "failed", "lost"}

TypeOK ==
  /\ stage \in [Req -> Stages]
  /\ \A r \in Req : stage[r] # "new" =>
       /\ uid[r] \in Uids /\ query[r] \in Queries /\ proc[r] \in Procs
       /\ source[r] \in Serves[proc[r]]
  /\ DOMAIN uid = Req /\ DOMAIN source = Req /\ DOMAIN query = Req /\ DOMAIN proc = Req
  /\ DOMAIN reply = Req
  /\ context \in [Req -> Context \cup {Default}]
  /\ busy \in [Procs -> Req \cup {Nobody}]
  /\ default \in [Procs -> Context]
  /\ session \in [Uids -> Context \cup {NoRecord}]
  /\ DOMAIN cache = Queries

Init ==
  /\ stage = [r \in Req |-> "new"]
  /\ uid = [r \in Req |-> Nobody] /\ source = uid /\ query = uid /\ proc = uid
  /\ context = [r \in Req |-> Default]
  /\ reply = [r \in Req |-> <<>>]
  /\ busy = [p \in Procs |-> Nobody]
  /\ default = [p \in Procs |-> EmptyContext]
  /\ session = [u \in Uids |-> NoRecord]
  /\ cache = [q \in Queries |-> NoRecord]

-----------------------------------------------------------------------------

Flags(r) == Schedule[source[r]]

\* Mutant: no record is ever understood.
get_default(u) == Default

\* SessionManager.get
get(u) == IF session[u] = NoRecord THEN Default ELSE session[u]

\* What the context of request r, as c names it, holds now.
Deref(c, r) == IF c = Default THEN default[proc[r]] ELSE c

\* SessionManager.add with context c: c is updated where it lives, then stored,
\* or maybe stored when the call fails.
add(c, r, from, fails) ==
  LET new == Added(Deref(c, r), uid[r], r, from)
  IN /\ \/ session' = [session EXCEPT ![uid[r]] = new]
        \/ fails /\ UNCHANGED session
     /\ IF c = Default THEN default' = [default EXCEPT ![proc[r]] = new] ELSE UNCHANGED default

\* Mutant: the end of a request does not free its process.
GoToBusy(r, s) ==
  /\ stage' = [stage EXCEPT ![r] = s]
  /\ busy' = [busy EXCEPT ![proc[r]] = IF s = "accessors" THEN Nobody ELSE r]

\* The process of r runs r up to its next stage, and is busy with it when s
\* is a stage that goes on without a yield.
GoTo(r, s) ==
  /\ stage' = [stage EXCEPT ![r] = s]
  /\ busy' = [busy EXCEPT ![proc[r]] = IF s \in {"check", "add", "set"} THEN r ELSE Nobody]

Runs(r, s) == stage[r] = s /\ busy[proc[r]] \in {r, Nobody}

\* do_chat returns to its handler.
Replied(r) == IF proc[r] \in Callback THEN "callback" ELSE "done"

Results(from) == <<[answer |-> from, from |-> from, ugc |-> TRUE, level |-> 0]>>

\* Bound: request r may say q to p.
Allowed(r, q, p) ==
  \E w \in Workloads :
    /\ r <= w.requests /\ q \in w.queries /\ p \in w.procs
    /\ \A n \in Req : stage[n] # "new" => proc[n] \in w.procs

\* do_chat begins.
Begin(r, u, s, q, p) ==
  /\ stage[r] = "new" /\ busy[p] = Nobody /\ s \in Serves[p] /\ Allowed(r, q, p)
  /\ \A n \in Req : n < r => stage[n] # "new"
  /\ ~Overlap => \A n \in Req : uid[n] = u => stage[n] \in Ended
  /\ uid' = [uid EXCEPT ![r] = u]
  /\ source' = [source EXCEPT ![r] = s]
  /\ query' = [query EXCEPT ![r] = q]
  /\ proc' = [proc EXCEPT ![r] = p]
  /\ UNCHANGED <<reply, default, session, cache>>

\* The schedule, the context, and the intent server if any.
Start(r, u, s, q, p) ==
  /\ Begin(r, u, s, q, p)
  /\ context' = [context EXCEPT ![r] = IF Schedule[s].use_session_manager THEN get(u) ELSE Default]
  /\ IF Schedule[s].use_intent
     THEN stage' = [stage EXCEPT ![r] = "intent"] /\ UNCHANGED busy
     ELSE stage' = [stage EXCEPT ![r] = "check"] /\ busy' = [busy EXCEPT ![p] = r]

\* There is no context to be had.
StartFails(r, u, s, q, p) ==
  /\ Begin(r, u, s, q, p)
  /\ p \in Unreliable /\ Schedule[s].use_session_manager
  /\ stage' = [stage EXCEPT ![r] = "failed"]
  /\ UNCHANGED <<context, busy>>

\* check_intent returns, with an intent or an error: the accessors it
\* disables go by names that no accessor has, so it changes nothing.
check_intent(r) ==
  /\ Runs(r, "intent")
  /\ GoTo(r, "check")
  /\ UNCHANGED <<request, context, reply, default, session, cache>>

\* A reply without the accessors is recorded when there is a session.
ReplyAtOnce(r, results) ==
  /\ reply' = [reply EXCEPT ![r] = results]
  /\ GoTo(r, IF Flags(r).use_session_manager THEN "add" ELSE Replied(r))

BlacklistReplies(r) == Flags(r).use_blacklist /\ query[r] \in Blacklisted

CheckBlacklist(r) ==
  /\ Runs(r, "check") /\ BlacklistReplies(r)
  /\ ReplyAtOnce(r, Results("blacklist"))
  /\ UNCHANGED <<request, context, default, session, cache>>

\* A query of the whitelist, unless it is a bad question, is left to the
\* accessors in the middle of a skill.
WhitelistReplies(r, recent) ==
  /\ Flags(r).use_whitelist /\ query[r] \in Whitelisted
  /\ \/ query[r] \in BadQuestions
     \/ ~is_user_last_intent_is_skill(Deref(context[r], r), recent)

CheckWhitelist(r, recent) ==
  /\ Runs(r, "check") /\ ~BlacklistReplies(r) /\ WhitelistReplies(r, recent)
  /\ ReplyAtOnce(r, Results("whitelist_pattern"))
  /\ UNCHANGED <<request, context, default, session, cache>>

CacheReplies(r) == Flags(r).use_cache /\ cache[query[r]] # NoRecord

CheckCache(r, recent) ==
  /\ Runs(r, "check") /\ ~BlacklistReplies(r) /\ ~WhitelistReplies(r, recent) /\ CacheReplies(r)
  /\ ReplyAtOnce(r, cache[query[r]])
  /\ UNCHANGED <<request, context, default, session, cache>>

\* ResponseCache swallows the errors of redis.
CacheMisses(r) == ~CacheReplies(r) \/ proc[r] \in Unreliable

\* `yield self.strategy(...)`
AskAccessors(r, recent) ==
  /\ Runs(r, "check") /\ ~BlacklistReplies(r) /\ ~WhitelistReplies(r, recent) /\ CacheMisses(r)
  /\ GoTo(r, "accessors")
  /\ UNCHANGED <<request, context, reply, default, session, cache>>

\* SessionManager.add without a context reads it afresh, updates it and
\* writes it back: two calls to redis.
GetAgain(r) ==
  /\ Runs(r, "add")
  /\ context' = [context EXCEPT ![r] = get(uid[r])]
  /\ GoTo(r, "set")
  /\ UNCHANGED <<request, reply, default, session, cache>>

GetAgainFails(r) ==
  /\ Runs(r, "add") /\ proc[r] \in Unreliable
  /\ GoTo(r, "failed")
  /\ UNCHANGED <<request, context, reply, default, session, cache>>

MayFail(r) == {FALSE} \cup {proc[r] \in Unreliable}

SetSession(r) ==
  \E fails \in MayFail(r) :
    /\ Runs(r, "set")
    /\ add(context[r], r, reply[r][1].from, fails)
    /\ GoTo(r, IF fails THEN "failed" ELSE Replied(r))
    /\ UNCHANGED <<request, context, reply, cache>>

\* GroupSpecialSkill finds its user in the middle of a game and says so in
\* the context of the request; nothing takes it back.
GroupSkill(r) ==
  /\ Runs(r, "accessors") /\ Flags(r).group_skill
  /\ IF context[r] = Default
     THEN /\ default' = [default EXCEPT ![proc[r]].in_session = TRUE]
          /\ UNCHANGED context
     ELSE /\ context' = [context EXCEPT ![r].in_session = TRUE]
          /\ UNCHANGED default
  /\ UNCHANGED <<stage, request, reply, busy, session, cache>>

SelectorOf(r) == Selector[proc[r]][source[r]]
Selected(r, slots) == S!select_results(SelectorOf(r), slots, "zh")

\* select_results raises: the handler answers an error, or, when it has
\* acknowledged already, nothing.
SelectFails(r, slots) ==
  /\ Runs(r, "accessors") /\ Selected(r, slots) = Raise
  /\ GoTo(r, "failed")
  /\ UNCHANGED <<request, context, reply, default, session, cache>>

CacheConfig == {"weather", "translation", "yyzs", "poem", "yaoting", "web_search",
                "web_search:pesodu_census", "generate"}

\* Mutant: every channel is cached.
put_any(q, results) == cache' = [cache EXCEPT ![q] = results]

\* `self._cache.put(query, selected, from)`
put(q, results) ==
  cache' = IF results[1].from \in CacheConfig THEN [cache EXCEPT ![q] = results] ELSE cache

\* The reply is selected, cached, and recorded in the context of the request
\* as it was before the accessors were asked.
SelectReplies(r, slots) ==
  /\ Runs(r, "accessors") /\ Selected(r, slots) # Raise
  /\ reply' = [reply EXCEPT ![r] = Selected(r, slots)]
  /\ IF Flags(r).use_cache /\ S!should_cache(SelectorOf(r), slots)
     THEN put(query[r], Selected(r, slots)) \/ (proc[r] \in Unreliable /\ UNCHANGED cache)
     ELSE UNCHANGED cache
  /\ IF Flags(r).use_session_manager
     THEN \E fails \in MayFail(r) :
            /\ add(context[r], r, Selected(r, slots)[1].from, fails)
            /\ GoTo(r, IF fails THEN "failed" ELSE Replied(r))
     ELSE GoTo(r, Replied(r)) /\ UNCHANGED <<default, session>>
  /\ UNCHANGED <<request, context>>

\* The post of the reply succeeds, or raises, in time.
PostReply(r) ==
  /\ Runs(r, "callback")
  /\ GoTo(r, "done") \/ GoTo(r, "failed")
  /\ UNCHANGED <<request, context, reply, default, session, cache>>

-----------------------------------------------------------------------------
(* The surroundings.                                                       *)

\* The time to live of a cached reply is over.
Expire(q) ==
  /\ cache[q] # NoRecord
  /\ cache' = [cache EXCEPT ![q] = NoRecord]
  /\ UNCHANGED <<stage, request, context, reply, busy, default, session>>

\* A worker dies and fork_processes starts another one: its requests are
\* lost, its DEFAULT_CONTEXT is empty again, redis is as it was.
Restart(p) ==
  /\ stage' = [r \in Req |-> IF stage[r] \notin Ended \cup {"new"} /\ proc[r] = p
                             THEN "lost" ELSE stage[r]]
  /\ busy' = [busy EXCEPT ![p] = Nobody]
  /\ default' = [default EXCEPT ![p] = EmptyContext]
  /\ UNCHANGED <<request, context, reply, session, cache>>

Step(r) ==
  \/ check_intent(r)
  \/ CheckBlacklist(r)
  \/ \E recent \in BOOLEAN :
       CheckWhitelist(r, recent) \/ CheckCache(r, recent) \/ AskAccessors(r, recent)
  \/ GetAgain(r) \/ GetAgainFails(r) \/ SetSession(r) \/ PostReply(r)
  \/ \E slots \in Outcomes[query[r]] : SelectFails(r, slots) \/ SelectReplies(r, slots)

Next ==
  \/ \E r \in Req, u \in Uids, q \in Queries, p \in Procs :
       \E s \in Serves[p] : Start(r, u, s, q, p) \/ StartFails(r, u, s, q, p)
  \/ \E r \in Req : stage[r] \notin Ended \cup {"new"} /\ (Step(r) \/ GroupSkill(r))
  \/ \E q \in Queries : Expire(q)
  \/ \E p \in Procs : Restart(p)

(***************************************************************************)
(* A process runs the request it is busy with.  The intent server and the  *)
(* accessors answer or time out, and the event loop runs the requests      *)
(* whose answer is there in the order of their arrival.                    *)
(***************************************************************************)
Fairness == \A r \in Req : WF_vars(stage[r] \notin Ended \cup {"new"} /\ Step(r))

Spec == Init /\ [][Next]_vars /\ Fairness

-----------------------------------------------------------------------------
(* Properties.                                                             *)

Records == {session[u] : u \in Uids} \ {NoRecord}

\* A history is made of whole turns, a query next to its answer, although
\* requests write into the same DEFAULT_CONTEXT with others in between and
\* the oldest utterances are cut off.
WholeTurns(c) ==
  /\ Len(c.history) % 2 = 0
  /\ \A k \in DOMAIN c.history :
       IF k % 2 = 1 THEN c.history[k].from = "user"
       ELSE c.history[k].from # "user" /\ c.history[k].request = c.history[k - 1].request

HistoriesWhole ==
  /\ \A c \in Records : WholeTurns(c)
  /\ \A p \in Procs : WholeTurns(default[p])

\* When a user waits for each reply, a step that touches the record of the
\* user adds one turn of this user at its end and forgets nothing but the
\* oldest utterances.  What else there is gets in with the first turn that
\* redis records for the user, and never later: what others have said, and
\* what this user said in requests that failed when they were to be recorded.
TurnAppended(u) ==
  \E r \in Req :
    /\ uid[r] = u /\ stage[r] \in {"set", "accessors"} /\ stage'[r] # stage[r]
    /\ LET old == session[u].history
           new == session'[u].history
       IN IF session[u] # NoRecord
          THEN new = Trim(old \o Turn(u, r, reply'[r][1].from))
          ELSE \A k \in DOMAIN new :
                 IF k > Len(new) - 2 THEN new[k].by = u /\ new[k].request = r
                 ELSE new[k].by = u => stage[new[k].request] = "failed"

TurnsAppended == [][\A u \in Uids : session'[u] # session[u] => TurnAppended(u)]_vars

\* Whatever happens meanwhile to other users, on the same process or on
\* another, the context that a user who waits for each reply is answered in
\* is the one on record.
ContextFresh ==
  \A r \in Req : stage[r] \in {"intent", "check", "accessors", "set"} /\ Flags(r).use_session_manager =>
    IF session[uid[r]] = NoRecord THEN context[r] = Default
    ELSE context[r] # Default /\ context[r].history = session[uid[r]].history

\* A request that began is answered, fails, or is lost with its process,
\* whatever becomes of redis and of the callback.
EveryRequestEnds == \A r \in Req : stage[r] # "new" ~> stage[r] \in Ended

\* What the cache serves is an answer that the accessors have for the same
\* query, from a channel with a time to live; never a default answer.
CacheSound ==
  \A q \in Queries : cache[q] # NoRecord =>
    /\ cache[q][1].from \in CacheConfig
    /\ \E slots \in Outcomes[q] : cache[q] = S!select_results_format(slots)

\* A user's history holds what was said between the robot and this user.
HistoryIsOwn ==
  \A u \in Uids : session[u] # NoRecord =>
    \A k \in DOMAIN session[u].history : session[u].history[k].by = u

\* A query of the whitelist is left to the accessors only in the middle of a
\* skill, so never in the first request of a user.
WhitelistOwnSkill ==
  \A r \in Req :
    stage[r] = "accessors" /\ Flags(r).use_whitelist /\ query[r] \in Whitelisted =>
      \E n \in Req : n < r /\ stage[n] # "new" /\ uid[n] = uid[r]
=============================================================================
