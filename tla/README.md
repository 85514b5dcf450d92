# Formal specification of the chatbot server

TLA+ specifications of the chat server under `src/bin`, the TLC configurations
that check them on small instances, and theorems about them that TLAPS checks.
The server is a Python 2 / Tornado program: one process type, `server.py`,
started as one of several *services* (integrated, wechat, qqgroup, groupqa,
samsung, tsinghua_robot, chaten), each with a number of forked workers.  A
request names a *source*, the source names a *schedule*, and the schedule lists
the *accessors*, clients of downstream services, that are asked for an answer.

Contents: 1 the system, 2 the modules, 3 the runs, 4 the proofs, 5 findings,
6 what is left out, 7 plan, 8 running the checks.

## 1. The system

### Components

| component | code | state | operations |
|---|---|---|---|
| fan-out | `chathub.py` `_accParallelAsync`, `_request_downstream`, `strategy` | per request: `acc_results`, `acc_status`, `acc_finished`, `evt`, `lock` | start all accessors, record one that ends, judge, set the event, go on |
| judges | `schedules.py` 41-97 | none | `wait_for_all`, `first_with_res`, `highest_priority`, `highest_priority_for_qcloud`, `highest_N_priority` (unused) |
| selectors | `select_results*` of the handlers | none | from the slots to the reply, and whether to cache it |
| pipeline | `chathub.py` `do_chat`, `check_intent` | per request: `acc_params` | schedule, session, intent, blacklist, whitelist, cache, accessors, select, cache, session |
| session manager | `intervene/session_manager.py` | redis by user; the module's `DEFAULT_CONTEXT` | `get`, `add`, `clear`, `info` |
| response cache | `intervene/cache.py` | redis by query, with a time to live per channel | `get`, `put` |
| blacklist, whitelist | `intervene/blacklist.py`, `intervene/whitelist.py` | patterns; `last_answer_id` | `need_req`, matching, choice of an answer |
| schedules manager | `schedules.py` 424-478 | the table `SCHEDULES`, accessor objects | load the sources, `schedule(source)` |
| accessor template | `accessor/accessor.py`, `WaitIterator` of `src/lib/tornado/gen.py` | per call: the iterator, `ret` | `run`, `parallel_async`, `rsc` |
| HTTP client | `simple_httpclient.py`, `tcpclient.py`, `httpclient.py` of `src/lib/tornado` | per request: connector, streams, alarm, `final_callback` | `fetch`: connect, handshake, request, redirect, time out, answer |
| accessors | `accessor/acc_*.py` | tables read at start | `run` |
| weather accessor | `accessor/acc_weather.py` | per worker: `city_weather_cache` | answer from the cache, ask and write it, flush |
| group skill | `accessor/acc_group_special_skill.py` | writes `in_session` into the session context | `run` |
| integrated, samsung, tsinghua_robot services | their `*_handler.py` | none | parse the request, `do_chat`, lay out the reply |
| qqgroup, groupqa services | their `*_handler.py` | none | acknowledge, `do_chat`, call back with the reply |
| chaten service | `chaten/chaten_handler.py` | none | translate, `do_chat`, translate back |
| wechat service | `wechat/` | none but redis | text, images (two clients in parallel), events, commands |
| wechat access token | `wechat/tool/tool.py` | the token in redis, with an expiry | get, update, upload a picture and retry |
| detail log | `src/lib/mpfhandler.py`, `log.ini` | per process: next time of rotation, stream, lock file; on disk: the lock file, the logs | log a record, rotate |
| server | `server.py`, `config.py` | worker processes | start, fork, restart |
| text tools | `common/` | tables | normalisation, segmentation, classification |

### How they interact

A handler calls `do_chat` with the query.  `do_chat` gets the flags and the
accessors from the schedules manager, reads the context of the user from redis (or
takes `DEFAULT_CONTEXT`), yields to the intent server, tries the blacklist, the
whitelist and the cache, and otherwise yields to `strategy`.  The accessors get
`acc_params`, and with it the context itself, not a copy; each reaches its
downstreams through `parallel_async`, which makes an HTTP client for every
request.  When the judge of one that finished says yes, the event is set, and on
its next turn the event loop resumes the request, which selects, may fill the
cache, writes the context back and returns.  A wechat image does not go through
`do_chat`: the handler starts two clients of its own, and both need the access
token.  Everything two requests share goes through one of: redis (sessions, cache,
token), `DEFAULT_CONTEXT`, the weather cache, the mutable module state of the
whitelist, the detail log, and tables that are only read.

### What is hard about it

* **Order of arrival.**  A request does not wait for all its accessors, and those
  still running write into the list it is about to read (`chathub.py:123`,
  `:147`).  Below that, responses come while the loop of `parallel_async` is
  between two futures (`accessor.py:75`, `gen.py:439`); and below that, alarms race
  connections, answers and redirects (`simple_httpclient.py:306`).
* **Read, yield, write.**  The session is read before two yields and written after
  them (`chathub.py:210`, `:271`); `add` without a context is two redis calls; the
  weather cache is looked up before a request and written after it.
* **A shared mutable default.**  All users without a record, and all requests
  without sessions, hold the same `DEFAULT_CONTEXT` (`session_manager.py:50`).
* **A cache shared by services** with different selectors, keyed by the query
  alone; and one of forecasts in which nothing expires, past midnight.
* **Failure.**  Accessors that raise, time out or are disabled; selectors that
  raise; redis that fails after the memory has been changed, or between the two
  calls that store a token; a message that is
  delivered although its post fails; a worker that dies in the middle of a
  request, of a token's update, or of a rotation of the log with the lock in hand.
* **Processes that share what they were forked with.**  A lock file opened before
  the fork does not keep the forked apart (`mpfhandler.py:195`).
* **Wake-up.**  Nobody but an accessor that finishes sets the event.

The full list, each at its line and with the properties that cover it, is
`hazards` in `PROJECT.json`.

### What makes each component correct

* fan-out: the reply does not depend on the speed of the accessors, except where
  the schedule means it to; a request that was started gets its reply.
* pipeline and sessions: records consist of whole turns, in order, none lost; a
  user is answered in the context on record, and in no other user's.
* cache: what it serves is an answer to the query, from a channel meant to be cached.
* every request ends: with a reply, with an error, or with its process.
* parallel_async: no result is lost or doubled, and an answer is taken for the
  request it belongs to.
* HTTP client: a fetch has one result, whatever times out or comes late, and leaves
  no connection open.
* weather: an answer is about the day that was asked for, and one out of the cache
  is not yesterday's.
* access token: one that redis hands out has not expired, a void one leaves, and
  an upload that waits for one ends (the first two fail once an update has been cut
  off between its two calls to redis, section 5).
* image: one reply, in one way, whichever client fails.
* detail log: no record is lost or filed under another hour, one process rotates
  at a time, every process gets to the new file, and nobody waits for a lock for
  ever (several processes keep less than this, sections 3 and 5).

## 2. The modules

| module | models | state |
|---|---|---|
| `AccessorResults` | what accessors return and the slots hold | operators |
| `Judges` | the judge methods | operators |
| `Selectors` | the selectors | operators |
| `FirstByPriority` | abstract specification of a priority schedule | `outcome`, `disabled`, `reply` |
| `Fanout` | one request and its accessors | 9 variables, below |
| `ParallelAsync` | one call of `parallel_async`, and what `web_search` makes of it | 9 variables, below |
| `WeatherCache` | the weather accessor, its cache, midnight | 8 variables, below |
| `HttpFetch` | one fetch: connector, connections, redirects | 9 variables, below |
| `FetchOnce` | abstract specification of a fetch | `result` |
| `MCOutcomes` | schedules and what their accessors may return, for TLC | operators |
| `MCFanout` | `Fanout` under a plain priority schedule | |
| `MCSchedules` | `Fanout` under each of four other schedules, or `ParallelAsync`, `HttpFetch` or `WeatherCache` | `schedule` and theirs |
| `FanoutProofs` | theorems about `Fanout`, for any schedule | |
| `ScheduleProofs` | the same of the four schedules of `MCSchedules` | |
| `AccessorProofs` | theorems about `ParallelAsync` and `WeatherCache` | |
| `FetchProofs` | theorems about `HttpFetch` and `FetchOnce` | |
| `Loops` | lemmas about loops, which the other proofs share | |
| `SessionContext` | a context and what `add` makes of it | operators |
| `ChatHub` | requests in `do_chat`, on several workers, one redis | 11 variables, below |
| `MCChatHub` | deployments for TLC | |
| `ChatProofs` | theorems about `ChatHub` | |
| `AccessToken` | the token of a wechat account, uploads, other callers | 10 variables, below |
| `ImageMessage` | an image message and its two clients, on `AccessToken` | 4 more |
| `WechatProofs` | theorems about these two | |
| `LogRotation` | the detail log in the processes of a server | 13 variables, below |
| `LogProofs` | theorems about `LogRotation` | |

Operators whose comment begins with "Mutant:" are wrong on purpose: each is a
plausible bug in the definition that follows it, there to see that a property
would find it.  No specification uses them.

`MCSchedules` takes `FanoutProofs`, not `Fanout`, as the module of its four
instances: that is `Fanout` with the theorems about it, which `ScheduleProofs` cites of
each schedule once it has shown the assumptions of `Fanout` for the schedule's table.

### Fanout

`outcome` and `disabled` are the inputs of a request: what each accessor will
return (a list of results, or `Raise`) and which are switched off.  They are fixed
beforehand; the code does not look at them before the accessor is done, so that
what is left open is the order.  `next` is the position of the loop in
`_accParallelAsync`; `running` the accessors that wait for a downstream;
`acc_results`, `acc_status`, `acc_finished` and `evt` are the code's; `reply` is
what `select_results` made of the slots.

| action | code |
|---|---|
| `SkipDisabled` | `if acc.acc_name in disabled` (116-118) |
| `Start` | `gen.Task(...)` up to the first pending future of `run` |
| `RunToEnd` | the same when `run` asks no downstream: it ends within the loop |
| `Complete` | a response arrives: `_request_downstream` from 143 to its end |
| `Resume` | `yield self.evt.wait()` returns, `select_results` |

`Finish` is the whole tail of `_request_downstream`: the slot, the status, the
list of the finished, then the judge and the event in the `finally` branch; there
is no yield in it (the lock is free whenever it is asked for), so it is one step.
`Resume` is a step of its own: between setting the event and the resumption other
accessors may finish, and `select_results` sees what they wrote.

`disabled` is an input because the interface has it.  The names that
`check_intent` puts there (`accessor.parse_web_search`) belong to no accessor, so
at present nothing is ever disabled.  Should that be repaired, the request hangs
when the last accessor to be settled is a disabled one and no earlier one has set
the event, because the judge is not called for it: `EventuallyReplies` carries
exactly this proviso.  The slot of a disabled accessor has no `from`, and the
selector of qcloud, which looks at it, would raise; that run disables nobody.

### ParallelAsync

`body` is the input: what every downstream will say, `None` for an error or a
timeout.  `_unfinished`, `_finished`, `_running_future` and `current_index` are
those of the iterator, `ret` is the list of `parallel_async`, `pc` its place in the
loop, `arrived` the history of the responses.

| action | code |
|---|---|
| `Respond` | a future resolves and runs `_done_callback` (`gen.py` 439-444) at once: to the running future, if that is pending, else to `_finished` |
| `NextFuture` | `done()` is false, `next()`, and the yield of its future, which is done already when one was waiting |
| `Resume` | the yield returns or raises; the pair of body and `current_index` goes into `ret` |
| `Return` | `done()` |

Between `Respond` and `Resume` the event loop may run other responses: the result
is read off the running future and the index off the iterator, two objects.
`web_search` is the part of `WebSearch.run` that tells its two answers apart,
including the `debug_info` that all results share until an answer takes a copy.
Nothing is said about an empty list of requests: no caller has one.

### HttpFetch

One fetch of a client of its own, which `parallel_async` makes for every request
(`force_instance`), so that its queue is never used.  A redirect starts a new
`_HTTPConnection`; everything that belongs to one is indexed by its *hop*.  `hop[h]`
is where it is, `socket[h]` its attempts by address, `eyeball_timer` and `alarm` the
timers of the connector and of the connection, `final_callback` whether it still has
one, `chained` whether that leads back to the caller; `callbacks` are those scheduled
on the event loop, `result` the caller's future.

| action | code (`src/lib/tornado`) |
|---|---|
| `FetchInit` | `__init__` and `TCPClient.connect` up to the first pending attempt |
| `EyeballTimeout`, `AttemptFails`, `AttemptSucceeds` | `on_timeout`, `on_connect_done` of `_Connector`, each with `try_connect` |
| `Handshake` | `start_tls`, of https |
| `OnConnect`, `OnNoConnection` | `_on_connect`, or the exception in its place, on the next turn of the loop |
| `OnTimeout` | `_on_timeout`, which raises into `_handle_exception` |
| `Finish`, `Redirect` | the response is there, or the connection has broken |
| `Deliver` | `handle_response` |

An alarm that finds the callback gone does nothing; one that finds it in the middle
of a request closes the stream, but a response in its buffer is still read
(`hop = "late"`), and if it is a redirect it is followed.  Such a hop, whose
predecessor has answered, is not chained: it has a future nobody holds.

### WeatherCache

`day` is the clock.  `city_weather_cache` maps cities and words (today, tomorrow,
the day after, several) to the date of the forecast under that word; the text of
a forecast is determined by word and date.  Of each asker, `city`, `date_type` and
`real_date` are the `debug_info` of the query, `asking` and `issued` its request to
the weather service, `answer` what it was told.

| action | code (`accessor/acc_weather.py`) |
|---|---|
| `AnswerFromCache` | `check_weather_cache` finds an entry of the date asked for |
| `Ask` | it finds none, or one of another date, for which it clears the city; the request goes out |
| `NoWeather` | a query that ends before: a date by number raises a `NameError` (`data_type`), one too far away is declined |
| `Issue`, `Receive`, `NoResponse` | the service makes a forecast; the response is written day by day, up to one that is not understood, and answered from; or there is none |
| `Flush` | the query `flushweatherapi` |
| `Midnight` | |

### ChatHub

`stage` is the place of a request between two yields or two calls to redis; `uid`,
`source`, `query`, `proc` its parameters; `context` is what `acc_params["context"]`
refers to: `Default`, the one `DEFAULT_CONTEXT` of its process, or a copy of its
own read from redis; `busy[p]` the request that process `p` may not leave
(there is no yield between two redis calls); `default[p]` the `DEFAULT_CONTEXT` of
`p`; `session` and `cache` are redis.

| action | code |
|---|---|
| `Start`, `StartFails` | `do_chat` 204-218: schedule, `SessionManager.get`, intent; or redis fails in `get` |
| `check_intent` | the intent server answers or fails |
| `CheckBlacklist`, `CheckWhitelist`, `CheckCache` | a reply without the accessors (223-253) |
| `GetAgain`, `GetAgainFails`, `SetSession` | `SessionManager.add` without a context: get, then set, each of which may fail |
| `AskAccessors` | none of these: `yield self.strategy` (256) |
| `GroupSkill` | `GroupSpecialSkill` sets `in_session` in the context it was handed |
| `SelectFails`, `SelectReplies` | 258-273: select, cache, session, return; or the selector raises, or redis fails |
| `PostReply` | qqgroup and groupqa post the reply to the callback, behind a request they have acknowledged |
| `Expire` | redis drops a cached reply |
| `Restart` | a worker dies and `fork_processes` starts it again |

Redis may fail for the processes in `Unreliable`: the vendored client sends a
command twice and then raises, and redis may have executed it nevertheless.  A
failed `SessionManager.add` leaves the context updated in memory, and so
`DEFAULT_CONTEXT` with the turn of a request that failed; `ResponseCache` swallows
the error, a read of it is a miss.

`Fanout` enters as its abstract specification: the accessors settle in one step on
one of the possible slots.  That is `FirstByPriority`, which `Fanout` is shown to
implement.  History entries are tagged with their user and request, which the
code does not store; the tags are what lets properties speak about whose turn it is.

### AccessToken

Tokens are numbered in the order of their issue.  `issued` and `expired` are the
wechat server: the latest token, and whether its two hours are over; `token` and
`ttl` are redis: the token stored, 0 for none, and whether an expiry is set on it.
Of each uploader, `stage` is the place in `url2mediaId`, `held` the token in its
URL, `update` the place in the `update_access_token` it started, `got` what wechat
answered to that.  `asking` are the callers of `get_access_token_v2` that found no
token.  `halfway` is a history variable: an update has ended, by an error of redis
or with its worker, and left in redis the token it had got, without an expiry.

| action | code (`wechat/tool/tool.py`) |
|---|---|
| `Begin` | `get_access_token` reads redis; with no token, `update_access_token` starts |
| `ReadFails` | or redis fails, and the picture has no media id |
| `Issue` | wechat gets the request of an update |
| `Store`, `Expire` | `red.set`, `red.expire` and the return |
| `Unheard` | redis executes either, the connection is lost, and the client sends the command again or raises (`client.py` 566-581 of `src/lib/redis`) |
| `UpdateFails` | an update raises: its request times out, its answer is not the expected one, or redis fails in `red.set` or `red.expire`, executed (`Unheard`) or not |
| `Uploaded`, `Retry`, `UploadFails` | the answers to an upload: a media id; 42001, an update is started and the same URL tried again; anything else |
| `Get2`, `Issue2` | `get_access_token_v2`: redis, then a request of its own |
| `RedisForgets`, `WechatForgets` | 7000 and 7200 seconds have passed |
| `Crash` | a worker dies, with all the uploaders it has |

`Store` and `Expire` are two steps although no yield separates them, because
other workers run, and because redis may fail or the worker die, in between.  A
token left in redis without an expiry can get one from an update that is at work
already; nobody starts another one for it, since redis has a token.  An uploader
stands for the coroutines of a worker one after the other; several uploaders may
be coroutines of the same worker, which yields at every request.  Time is in
`WechatForgets`: with an expiry set, redis forgets a token 200 seconds before
wechat does, more than an update and an upload can take; without one, redis may
keep it past its time.  Assumed of wechat: only the latest token is honoured, and
a request it handles is handled before the client gives up.  Assumed of redis: a
call returns or raises within those 200 seconds, and has been executed by then or
never will be.  When `get_access_token_v2` gets no answer of redis it raises, and
nothing has happened.

### ImageMessage

Extends `AccessToken`: `Xiaoe` and `Afanti` are its two uploaders, and the actions
below are its steps together with what they mean for the message.  `image` is the
place of `handle_wechat`, `mediaId` the future of xiaoe, `reply` the form of the
reply, `delivered` whether wechat has sent the solution.  In behaviours with
`image = "off"` nothing but `AccessToken` happens, with two free uploaders.

| action | code (`wechat/wechat_handler.py`, `xiaoe_acc.py`, `afanti_acc.py`) |
|---|---|
| `ImageArrives` | xiaoe is started and not yielded; afanti is |
| `XiaoeAnswers` | a picture, whose upload begins, or `""` |
| `UpdateOf`, `UploadOf` (of xiaoe) | `url2mediaId`; its end resolves the future (`Settle`) |
| `AfantiAnswers` | a solution, none, or an error, of redis for one, that ends the handler |
| `PostUpdate`, `Post` | `post_news_msg`: its token, and the message, which may be delivered although the call fails, or refused in a body nobody reads |
| `WaitXiaoe` | the future of xiaoe, and a picture drawn at random if it is `""` |
| `WorkerDies` | both coroutines and the handler are lost |

### LogRotation

`workers`, `forked`, `restarts`, `reaped` are the server: one process, or a master
that forks workers and replaces up to `max_restarts` of the dead.  `hour` is the
clock.  Of each process, `nextRolloverTime`, `stream` and `stream_lock` are its copy
of the handler, `pc` its place in `handle()`.  `lock_file` is what the lock file
says, `holder` the open file description that has the flock, which parent and
child share after a fork; `files` are the logs, each with the hour of its latest
record; `record` the hour of the record at hand.

| action | code (`src/lib/mpfhandler.py`) |
|---|---|
| `Log`, `Acquire` | `handle()`, `acquire()`: a flock, if the process has a lock file |
| `Check` | `shouldRollover`, and the beginning of `doRollover` |
| `Read` | `getNextRolloverTime`: another process has rotated, or not |
| `Aside`, `Rename` | `os.rename` of a dated file that exists, and of the log |
| `OpenLock`, `Save` | `computerNextRolloverTime`, `_openLockFile`, which empties the file, `saveNextRolloverTime` |
| `Reopen`, `Open`, `Write` | the new log; the record and the `release()` of `handle()` |
| `Fork`, `Replace`, `GiveUp`, `Crash` | `fork_processes` of tornado |
| `Restart` | the server is started anew, by a script that removes the lock file or by one that does not |


## 3. The runs

`tlc -config <run>.cfg <module>`.  "Violation" runs check one claim that the code
does not keep; they are the findings of section 5.

| run | module | question | result |
|---|---|---|---|
| `FanoutPriority` | `MCFanout` | with `highest_priority` judges, does the reply depend on the order of arrival, and is there always one? | no; yes |
| `FanoutSchedules` | `MCSchedules` | how far can the order of arrival show under the other schedules, in the results of an accessor, in a fetch, in the weather? | below |
| `Chat` | `MCChatHub` | what are records and the cache made of, are users answered in their own context, do requests end, with redis failing and workers dying? | whole turns, appended; answers to the query; the one on record; yes |
| `ChatIsolation` | `MCChatHub` | is a user's history that user's? | violation |
| `ChatWhitelist` | `MCChatHub` | is a user in a skill only after a request of that user? | violation |
| `ChatOverlap` | `MCChatHub` | are turns kept when requests of one user overlap? | violation |
| `Token` | `ImageMessage` | does redis serve a token past its time, does a void one leave, do uploads end, is an image replied to once? | no, and yes, unless an update was cut off between set and expire; yes; yes |
| `TokenExpired` | `AccessToken` | is the second attempt of an upload never made? | violation |
| `TokenOverlap` | `AccessToken` | is the token of `get_access_token` one that wechat honours? | violation |
| `TokenUnstored` | `AccessToken` | is the latest token in redis once all is quiet? | violation |
| `LogRotation` | `LogRotation` | who rotates, is anything lost or misfiled, does a lock stay with the dead, does everybody get to the new file? | one at a time, of those with a lock file of their own; not by one process; no; yes |
| `LogRotationAgain` | `LogRotation` | is a log rotated once at a time of rotation? | violation |

Three runs are each a sum of instances.  In `FanoutSchedules`, `schedule` says
whether a behaviour is a request under one of four schedules, a call of
`parallel_async`, a fetch, or the weather accessor.  In `Chat`, `Workloads` lists
the groups of workers, queries and numbers of requests within one of which a
behaviour stays: wechat; groupqa; qqgroup with tsinghua_robot; and one worker each
of wechat and of qqgroup whose redis fails.  In `Token` a behaviour either has an
image message or two free uploaders.

**Properties.**

* *Fan-out.*  `EarlyReturnSound`, `Implements` (refinement of `FirstByPriority`),
  `DefaultOnlyWhenSilent`, `ShowHeadFinal` and `QcloudLosesOnlyQrobot` say, schedule by
  schedule, how far the order of arrival can show: weimi, not at all; show, never
  in the first answer; qcloud, only by losing qrobot's better answer; mixed judges,
  never as a default answer while somebody has one.  `WaitsForAll` adds that a
  complete wait leaves nobody writing.  `EventuallyReplies`: the event is set.
* *parallel_async.*  `InOrderOfArrival`: its results are the responses in the order
  of their arrival, each with its own id (`OwnBody`), and at the end one of each
  request or those up to the first body (`CompleteAtEnd`); it `Returns`.
  `OnlineAlone`: the answer online_search gave is marked so, and only it.
* *Fetch.*  `AnsweredOnce`: one result, whatever the network does.  `NoStreamLeft`: an
  open connection is in use, or on its way into use, and is the only one.
* *Weather.*  `OnDateAsked`: an answer is about the city and the date of its query.
  `OneForecast`: what is cached of a city comes from one forecast.  `CachedToday`: an
  answer out of the cache is of a forecast of the same day.
* *Pipeline.*  `HistoriesWhole`, `TurnsAppended` and `ContextFresh` relate records to
  requests; `CacheSound` relates the cache to what accessors can answer;
  `EveryRequestEnds`.
* *Token and image.*  `ExpiryOwed`, `NeverExpired` and `VoidTokenLeaves` relate the
  token of redis, its expiry and the updates at work, through every overlap of
  updates, with commands that are lost, repeated and executed unheard.  They hold
  until an update ends between `red.set` and `red.expire`, by an error of redis or
  with its worker, and its token stays as it is (`halfway`).  From then on redis may
  serve a token that wechat has forgotten: that is the finding of `TokenExpired`. An
  update that fails without this does them no harm.  `InStep` and `OneAnswer`: the
  handler waits for a post as long as that is at work, drops no upload that is not
  over, and sends no picture behind a solution.  `LostOnlyWhenOvertaken`: a solution
  is lost behind a "success" only when a later token made its own void (with the
  same proviso).  `EveryUploadEnds`, `EveryImageReplied`.
* *Log.*  `Exclusive`: of the workers that opened the lock file themselves, one at a
  time is in the critical part of a rollover.  `LockOwed`: whoever has the flock is
  alive and going to give it back.  `NothingLost`, `FiledByHour`: a single process
  renames no log over another and puts no record under an earlier hour, killed
  wherever it may be.  `CatchUp`: a worker behind the hour rotates or notices,
  unless a worker has died and left the lock file empty (`Stuck`); the server of one
  process knows no such exception, wherever it was killed.

**Bounds, and why they are enough.**

* Fan-out: three or four accessors, each with all its kinds of outcome (nothing,
  one answer, nothing then an answer, an exception) and any subset disabled.  A
  judge or a selector compares an accessor with those before and those after it,
  so that three positions show every relation; the proofs cover any number.
* parallel_async: three downstreams: one that is waited for, one whose response
  waits in `_finished`, one still out.
* Fetch: three addresses of two families, so that one family goes on to its second
  while the other is tried beside it; one redirect of the five, which has a
  predecessor and is also the last that is followed.  The proofs cover any number.
* Weather: two queries about one city, over two midnights (`MaxDay` = 2); a query that
  is under way sees at most two days, and cities do not meet.
* Requests: in the wechat workload the first makes a record, the second extends it,
  the third reaches the limit of the history, with two users on two workers, so
  that two requests may overlap around a third.  The other workloads have 2: what
  is particular to them (a selector that raises, an accessor that writes into the
  context, the cache, a failure that leaves something behind for the next request)
  concerns a pair.
* `MaxTurn` = 4 stands for 20: both are even, which is what keeps turns whole (a
  turn is two utterances); three turns exceed it.
* Queries: one the accessors may or may not know, one on each list, and in a faulty
  redis' workload one of the questions that the whitelist parries even in the middle
  of a skill (`BadQuestions`; the wechat workload, whose histories are the longest,
  does without the blacklisted one), and for the cache one known to a cached channel
  and one to another.
* `MaxIssued` = 3, two uploaders, one caller: two updates overtake each other
  while the caller makes both their tokens void.  One image at a time.
* Log: a master and two workers, `MaxHour` = 3: at the first rotation each worker
  opens the lock file for itself, at the second they contend for it.  One restart,
  of a worker or of a server of one process.
* Time: the ten minutes of `is_user_last_intent_is_skill` are the free choice
  `recent`; the `max_interval` of sessions is `sys.maxint` and never passes.
* `Overlap = FALSE` says that a user waits for each reply.  It is the assumption
  under which `TurnsAppended` and `ContextFresh` hold; `ChatOverlap` drops it.

Deadlock is not checked: a behaviour ends when its requests have ended, or at the
last hour or day of its clock.

**Fairness.**

* `HttpFetch`: alarms go off and scheduled callbacks run.  Nothing of the network:
  attempts, handshakes and responses may take for ever.
* `ParallelAsync`: each downstream responds, and the loop goes on when it can.  The
  first is what `HttpFetch` shows of a fetch (`AnsweredOnce`); every request has a
  timeout, three seconds by default.
* `Fanout`: weak fairness of the loop (it does not yield), of the resumption (the
  event loop runs a resolved future), and of each completion (`run` is such loops
  of `parallel_async`).  `MCSchedules` assumes no more than that a request that can
  go on does.
* `ChatHub`: weak fairness of each request's own steps: the intent server has a
  timeout (1000 s) and the exception is caught, the post of a callback has one, the
  fan-out ends by the previous point, everything else runs to its end in one turn
  of the event loop.  None of arrivals, expiry, restarts or the group skill.
* `AccessToken`: weak fairness of each uploader's updates and uploads (their
  requests time out after one and two seconds, the rest runs without a yield, and a
  command is sent twice at most) and of the expiry in redis (time passes); none of
  wechat's expiry, of the callers, of failures of redis or of crashes.
  `ImageMessage` adds the timeouts of its clients (2 and 3.2 seconds for afanti, 3.5
  for xiaoe).
* `LogRotation`: strong fairness of `Handle(p)`, because the kernel gives a flock to
  each who waits for it in the end, and within `handle()` nothing else blocks; weak
  fairness of the master's log and of `fork_processes`.  None of the records of the
  workers, of the clock or of crashes.
* `WeatherCache`: none; nothing is claimed that would need any.

## 4. The proofs

For any number of accessors, requests, workers, users, tokens, cities, hours,
addresses; `ScheduleProofs` for the four schedules as they are in the runs.

| module | theorems |
|---|---|
| `FanoutProofs` | `TypeCorrect`; `PriorityEarlyReturn`, `PriorityRefinement`; `WaitEarlyReturn`, `WaitLeavesNone`; `ShowStartsFinal`; `DefaultIsLast`; `OnlyQrobotIsLost`; `SomebodyDecides` |
| `ScheduleProofs` | `WeimiWaitsForAll`, `ShowSaysTheSame`, `MixedIsSilent`, `QcloudLosesNoOther` |
| `AccessorProofs` | `TypeCorrect`, `ResultsInOrder`, `IdsAreRight`, `ResultsAreComplete`, `LoopWaitsForSomebody`, `OnlineSearchAlone`; `WeatherTypeCorrect`, `ForecastsAreWhole`, `AnswersAreOnDate`, `CachedIsOfToday` |
| `FetchProofs` | `TypeCorrect`, `StreamsAreClosed`, `FetchKeepsContract`, `FamiliesInTurn`, `ConnectorGoesOn`, `NoCallerForgotten` |
| `ChatProofs` | `TypeCorrect`, `HistoriesAreWhole`, `CacheIsSound`, `ContextIsFresh`, `TurnsAreAppended`, `NoProcessStuck` |
| `WechatProofs` | `TypeCorrect`, `ExpiryAlwaysOwed`, `NoSecondAttempt`, `UpdateIsAtWork`, `TokenIsReliable`, `TokenIsStored`; `ImageImplementsToken`, `HandlerInStep`, `OneAnswerOnly`, `LostWhenOvertaken` |
| `LogProofs` | `TypeCorrect`, `RolloversExclude`, `LockAlwaysOwed`, `OneProcessLosesNothing`, `OneProcessFilesByHour` |

*Fan-out.*  Assumed: `AccTuples` (a non-empty sequence of accessors with known
judges) and `QueriesType` (`run` never returns an empty list: every `run` ends in
`if rets == []: rets = [(None, ...)]`).  `EarlyReturnSound` is not inductive: it says
nothing before the reply.  Three facts carry it.  `SlotsFinal`: a slot that is filled
holds the final result of its accessor, so slots only grow towards `Final`.  The
event, once set, was set in a state where some accessor had an answer and all
before it were filled without one, or where all slots were filled.  And this
condition is stable (`HighestPriorityStable`): later writes fill missing slots only,
and those before the first answer are not missing.  Together (`PriorityInv`), when
the request resumes, the first answer in the slots is the first answer in `Final`
(`SameFirstAnswer`), on which alone the selectors in question depend
(`SameSelection`).  For `wait_for_all` the condition is that all slots are filled
(`WaitInv`), and the slots are `Final` itself, whatever the selector.  For a mix of
judges a weaker condition, common to all, is stable as well (`SilentInv`): somebody
has an answer, or all slots are filled, which is enough for `DefaultIsLast`.  For
qcloud (`QcloudInv`) the first answer may only be displaced by one of qrobot.

*The robots' selector* goes over all slots and all their results and keeps what is
new, in two nested loops.  `Selectors` writes these as recursive functions over the
positions.  `Loops` shows that such a function exists, and that what holds before the
first round and is kept by every round holds to the end: the argument is the least
round at which it fails (`Least`, from the well-foundedness of inclusion among finite
sets), so that no induction theorem with an operator parameter is needed.  With it
`ShowStartsFinal` says that the list of the slots begins with the first answer of
`Final` and holds nothing that the list of `Final` does not; the event was set with
everything up to the first answer in place, as above.

*The schedules.*  What `FanoutProofs` says of any schedule, `ScheduleProofs` says of
weimi, show, qcloud and the mix as `MCSchedules` runs them: it checks that each table is
a sequence of accessors with known judges, that each run's outcomes are lists of
results, and that a step of `AnySpec` under a schedule is a step of its instance or a
stutter.  `RaiseIsNoList` (an exception is not a list of results) is assumed of the
model value `Raise`, and TLC evaluates it.  So four properties of the run
`FanoutSchedules` are theorems as they stand in its cfg.

*Somebody decides.*  What `EventuallyReplies` waits for is there: `LastOneDecides` says
that, once nobody is at work, the event is set (unless the last of the schedule is a
disabled one, the proviso above).  `DecidesInv`: whoever is over has its slot filled,
and is in `acc_finished` if it was not disabled and did not raise; so the judge of the
last one to finish sees all slots and says yes, whichever judge it is.  The one of
qcloud asks for qrobot among the finished as well: hence the hypothesis
`QrobotReturns`, which `acc_qrobot.py` keeps, as its `run` catches every exception
(70).  Without it a request whose web_search ends last would wait for ever.

*parallel_async.*  The results so far, the response at hand, and those that wait
are, in this order, the arrivals: that is inductive once the queue, the running
future and the unfinished are related (`Running`, `Owed`).
`LoopWaitsForSomebody`: the loop can go on, or a request that was not handed out has
yet to respond.  Beside the order it needs only that nothing has been given of what is
unfinished, and that `next()` made a new future because something was (`NotHanded`).
`OnlineSearchAlone` follows the loop of `web_search` round by round: as each request
responds once (`Once`), one round alone finds the result of the online search.

*Fetch.*  `StreamInv` is the type with `NoStreamLeft`, which is inductive with it: an
attempt that succeeds looks at where its hop is, and so does the alarm.  The
contract needs two more facts (`OnceInv`).  `InTurn`: a hop that has not been
redirected to has no callback, and only the latest is not over.  `OneChain`: at any
time at most one of these leads to the caller: a hop that still has its callback, a
scheduled callback, the result.  Every step hands the chain on or keeps it, so the
result changes once, from "pending" (`FetchKeepsContract`); that it does change is
liveness, and model-checked.  What it rests on is proved: as long as there is no
result, one is scheduled, or a hop that leads to the caller has its alarm set
(`NoCallerForgotten`).  `ConnectorInv` is about `_Connector` alone: while the timer runs
the second family is left alone, and of a family that has begun one attempt is
under way as long as an address waits, never two.  So the timer and a failure do not
both begin the second family (`FamiliesInTurn`), and no connector stops on its way
(`ConnectorGoesOn`).

*Weather.*  `OneForecast` and `OnDateAsked` are inductive with the type: a response is
written as a whole or up to a day that is not understood, and the cache was cleared
of the city before.  `CachedIsOfToday`, about a step, rests on the comparison of dates in
`AnswerFromCache` alone, whatever the cache holds.

*ChatHub.*  Assumed: `HubAssumption`, `NoContext`, `SelectorAssumption` (the shape of
the parameters; what a selector picks is an answer of an accessor).  `WholeInv`
speaks of every context there is, in redis, in a request, in memory, since each is
written to the next; it needs an even `MaxTurn`.  `FreshInv` needs that users wait for
each reply (`~Overlap`): the context of a request that is under way is the record of
its user as it is now, or `DEFAULT_CONTEXT` when there is none.  `GoesOn` is inductive
as it stands: who is between two calls to redis has its process to itself, and a
process is busy with such a request only, so that the requests of a process are not
in each other's way (`NoProcessStuck`).

*Token.*  `AgeInv` has two parts.  `OwedByItsOwn`: a token without an expiry is the
one that an update, which is going to set an expiry, has got from wechat, whether
that has stored it or redis has done so unheard.  An update that ends takes this
with it only when the token in redis is its own, and that is when `halfway` becomes
true. `LatestInUseIsFresh`: the latest token, wherever it is (in redis, under way,
in an upload), has not expired, from which no upload is at its second attempt.  A
step of an uploader may disturb the first by overwriting the token or setting the
expiry, `WechatForgets` only the second, and its guard is what excludes that.
`AloneInv` adds for the single uploader that the token of redis, and the one under
way, is always the latest, as long as none has been left without an expiry; the two
properties that overlapping calls break (`TokenOverlap`, `TokenUnstored`) follow for
one who is alone.

*Image.*  `ImageImplementsToken` shows that the steps of a message are steps of
`AccessToken` or leave it alone, so that `AgeInv` carries over; with it
`LostOnlyWhenOvertaken` needs only where the post got its token (`Sent`), and that it is
a token that was issued (`RealTokens`).

*Log.*  `LockInv`: the flock is held by a process that is in a part of `handle()` with
the lock, or by nobody, so that two with a lock file of their own exclude each other.
`SoloInv`, of a server of one process: the next time of rotation, what the lock file
says and the hour of the log's latest record bound each other at every point of a
rollover, so that a restart anywhere finds either the old or the new situation.

*Only model-checked*: liveness, which needs fairness and ENABLED, out of reach of the
provers.  `EventuallyReplies`, `Returns`, `AnsweredOnce`, `EveryRequestEnds`,
`EveryUploadEnds`, `EveryImageReplied`, `VoidTokenLeaves` and `CatchUp` are TLC's; what
most of them rest on in a single state is proved: `LastOneDecides`, `WaitsForSomebody`,
`AnswerComing`, `GoesOn`, `UpdateAtWork`, and for the last three `InStep`, `ExpiryOwed`,
`LockOwed`.  All the safety properties of the passing runs are theorems.  The
violations are of runs only.

## 5. Findings

* **Histories mix users** (`ChatIsolation`).  `SessionManager.get` hands out the
  module's `DEFAULT_CONTEXT`, `add` appends to it and stores it under the new
  user, with the turns of all new users before.  Same for a record that cannot
  be read.
* **A skill without end, or without its user** (`ChatWhitelist`).  `in_session`,
  written by `GroupSpecialSkill` into the context at hand, is never cleared and
  lands in `DEFAULT_CONTEXT` for a new user; the whitelist is off from then on.
* **Overlapping requests lose turns** (`ChatOverlap`).  The context is read before
  the yields and written after.
* **Overlapping updates** (`TokenOverlap`).  Two coroutines that find no token ask
  for one each; wechat honours the later, and the answers come in any order:
  `get_access_token`, "supposed to be 100% reliable", returns a void token.
* **A token that is not stored** (`TokenUnstored`).  `get_access_token_v2` asks for a
  token, which makes the earlier one void, and does not write it to redis, against
  the comment at the head of the file.
* **A token past its time** (`TokenExpired`).  An update stores its token and redis
  fails, or the worker dies, before the expiry is set.  Redis keeps the token, so
  nobody asks for another; two hours later wechat refuses it, and every upload finds
  itself in the branch that "should not happen".  The update it starts there repairs
  this, if nothing fails again; a post (`post_news_msg`) starts none, and its
  solutions are lost behind a "success" until an upload does.
* **Rotated twice** (`LogRotationAgain`).  The first server opens the lock file before
  it forks, and the workers inherit the open file.  The flock is that of the open
  file, which both have, so that it does not keep them apart: two read the old time,
  and the second renames the new log over the one the first has just put aside.  The
  same happens by another way when an earlier server has left a lock file: then
  nobody has it open (`stream_lock` is `None`), and nobody locks it before the first
  rotation.

Seen while modelling, and not runs, since no line plainly claims otherwise:

* `range(i)` with `i` undefined in the selectors of qqgroup and groupqa
  (`qqgroup_handler.py:226`): an answer of an accessor ends in a `NameError`, behind a
  request that has been acknowledged (`SelectFails`).  What qqgroup reads from its
  cache, tsinghua_robot has put there.
* A worker that opens the lock file of the log with `'w'`, at the first rotation behind
  one that was left over, and dies before it writes, leaves it empty: every other
  process reads no time in it and gives up its rollover, record after record, and
  so does the worker forked anew.  This is the exception `Stuck` of `CatchUp`.  A new
  server finds the empty file and writes it.
* A fetch that has timed out may still be redirected: the redirect is followed,
  with a 307 as a second POST, and nobody hears the answer.  Each redirect starts
  the timeout anew, so that a request of 3 seconds can take 18.  A TLS handshake that
  outlasts its alarm keeps its connection for as long as the peer likes.
* When afanti raises, the picture of xiaoe is dropped, which the comments at
  `wechat_handler.py` 221-241 do not suggest.
* A date given by number ends a weather query in a `NameError` (`data_type`).
  Queries about several days never find the entry of several days: it is stored
  under one word and looked up under another.  A response that is an error empties
  what was cached of the city.

## 6. What is left out

Most of the repository by lines is vendored (`src/lib`: tornado, redis, werkzeug,
flask, xlrd and others, over nine tenths of it) and not the program's own logic.
Modelled of it is what the program's behaviour rests on and what can go wrong
there: `WaitIterator`, `fork_processes`, the HTTP client, and the log handler, which
is not a library's.  `Event`, `gen.Task`, the lock, `flock`, redis' atomic commands
and the two robots of the image message are modelled from their use.

Of the program itself:

* `common/`, `web_search_parse_*`, and the parsing in the accessors: functions on
  strings without state.  `common/turing.py`, `common/xiaobing.py`: clients of other
  robots for comparison.  Logging text and layout of replies.
* Accessors of one downstream, and those that concatenate several: one call of
  `parallel_async` each, with no state of their own.
* Schedules manager: tables read before the first request.  A source that is
  defined but whose accessors are not loaded passes the check in `schedule()`, and
  its request then raises; a deployment mistake, not a behaviour.
* The whitelist's draw of an answer, with the `last_answer_id` that all users of a
  process share: the code promises nothing to a user, and a model would restate it.
* chaten: three requests in a sequence, without session, cache or lists.
* wechat events and commands: answered from tables, without a yield, apart from
  sending commands; two of these branches cannot run (`self.post_news_msg` without
  that method, `COnfig`).
* `SessionManager.clear` and `info`, which no handler calls; tables of knowledge and
  tsinghua whose reload is commented out.
* The queue of the HTTP client: every request has a client of its own.
* Workers that exit with status 0, which `fork_processes` does not replace, since no
  code path exits so; the cron job that deletes old logs.

## 7. Plan

Done: the fan-out with all its schedules, the pipeline with failures of redis and
the callback services, the token, the image message, `parallel_async`, the HTTP
client under it, the weather cache, the log; with proofs of each.

Left, in this order:

1. wechat events and commands that use the token (`post_news_msg` by command, the
   user list): further callers of `AccessToken`.
2. A timed `Fanout`: how long a reply can take, from the timeouts of its accessors,
   and what the unused timeout of a schedule would change.
3. `FetchOnce` as a parameter of `ParallelAsync`, and the results of that as the
   `outcome` of `Fanout`, composed in one module.

## 8. Running the checks

    tlc -workers 2 -config FanoutPriority.cfg MCFanout
    tlc -workers 2 -config FanoutSchedules.cfg MCSchedules
    tlc -workers 2 -config Chat.cfg MCChatHub
    tlc -workers 2 -config Token.cfg ImageMessage
    tlc -workers 2 -config LogRotation.cfg LogRotation
    tlapm Loops.tla
    for m in Fanout Schedule Accessor Fetch Chat Wechat Log; do tlapm ${m}Proofs.tla; done

`PROJECT.json` lists the runs with their properties, for each property a mutant
that breaks it, the theorems, and for each definition the lines it models.
