----------------------------- MODULE AccessToken -----------------------------
(***************************************************************************)
(* The access token of a wechat account and the uploads that need it       *)
(* (src/bin/wechat/tool/tool.py).                                          *)
(*                                                                         *)
(* The wechat server issues a token for two hours and honours the latest   *)
(* one only.  The coroutines of all the workers share it through redis,    *)
(* which is to forget it after 7000 seconds, a little earlier than wechat: *)
(* whoever finds none there asks for the next one, writes it, and sets its *)
(* expiry, in two calls.  The functions without yield (get_access_token_v2 *)
(* and the commands built on it) ask for one as well, and keep it to       *)
(* themselves.                                                             *)
(*                                                                         *)
(* A call to redis may fail, whether redis has done its part or not: when  *)
(* the connection is lost, the client sends the command once more, and     *)
(* raises if that does not help either.                                    *)
(*                                                                         *)
(* Tokens are numbered in the order of their issue.  An uploader is one    *)
(* coroutine after the other that uploads a picture, each with at most one *)
(* update_access_token at work; several of them may belong to one worker,  *)
(* which yields at every request it makes.                                 *)
(***************************************************************************)
EXTENDS Integers, FiniteSets

CONSTANTS
  Uploaders,  \* the coroutines in url2mediaId
  Callers,    \* the callers of get_access_token_v2
  MaxIssued   \* bound: how many tokens wechat issues

ASSUME TokenAssumption == MaxIssued \in Nat

VARIABLES
  issued,   \* wechat: the latest token, 0 before the first one
  expired,  \* wechat: its two hours are over
  token,    \* redis: account:access_token, 0 when there is none
  ttl,      \* redis: whether the token has its expiry set
  stage,    \* by uploader, where url2mediaId is
  held,     \* by uploader, the token of its url
  update,   \* by uploader, where its update_access_token is
  got,      \* by uploader, the token wechat answered to it
  asking,   \* the callers of get_access_token_v2 that found no token
  halfway   \* history: an update has ended and left its token without an expiry

wechat == <<issued, expired>>
redis  == <<token, ttl>>
vars   == <<wechat, redis, stage, held, update, got, asking, halfway>>

Tokens == 0..MaxIssued

TypeOK ==
  /\ issued \in Tokens /\ expired \in BOOLEAN
  /\ token \in 0..issued /\ ttl \in BOOLEAN
  /\ stage \in [Uploaders -> {"idle", "token", "upload", "retry", "done", "failed"}]
  /\ held \in [Uploaders -> 0..issued]
  /\ update \in [Uploaders -> {"none", "asked", "answered", "set"}]
  /\ got \in [Uploaders -> 0..issued]
  /\ asking \subseteq Callers
  /\ halfway \in BOOLEAN

Init ==
  /\ issued = 0 /\ expired = FALSE
  /\ token = 0 /\ ttl = FALSE
  /\ stage = [u \in Uploaders |-> "idle"]
  /\ held = [u \in Uploaders |-> 0]
  /\ update = [u \in Uploaders |-> "none"]
  /\ got = [u \in Uploaders |-> 0]
  /\ asking = {}
  /\ halfway = FALSE

Valid(t) == t = issued /\ t # 0 /\ ~expired

-----------------------------------------------------------------------------
(* update_access_token, waited for by get_access_token or left alone.      *)

\* wechat issues the next token; the answer is on its way.
Issue(u) ==
  /\ update[u] = "asked" /\ issued < MaxIssued
  /\ issued' = issued + 1 /\ expired' = FALSE
  /\ got' = [got EXCEPT ![u] = issued + 1]
  /\ update' = [update EXCEPT ![u] = "answered"]
  /\ UNCHANGED <<redis, stage, held, asking, halfway>>

\* If the update of u ends here, its token stays in redis without an expiry.
Halfway(u) == update[u] \in {"answered", "set"} /\ token = got[u] /\ ~ttl

\* Mutant: an update that failed is never taken off the books.
UpdateHangs(u) ==
  /\ update[u] # "none"
  /\ update' = [update EXCEPT ![u] = "failed"]
  /\ stage' = IF stage[u] = "token" THEN [stage EXCEPT ![u] = "failed"] ELSE stage
  /\ halfway' = (halfway \/ Halfway(u))
  /\ UNCHANGED <<wechat, redis, held, got, asking>>

\* No answer within a second, or not the expected one; or redis fails in one
\* of the two calls: the coroutine raises, and with it the one that waits for
\* the token.
UpdateFails(u) ==
  /\ update[u] # "none"
  /\ update' = [update EXCEPT ![u] = "none"]
  /\ stage' = IF stage[u] = "token" THEN [stage EXCEPT ![u] = "failed"] ELSE stage
  /\ halfway' = (halfway \/ Halfway(u))
  /\ UNCHANGED <<wechat, redis, held, got, asking>>

\* red.set, which takes away the expiry of what it overwrites
Store(u) ==
  /\ update[u] = "answered"
  /\ token' = got[u] /\ ttl' = FALSE
  /\ update' = [update EXCEPT ![u] = "set"]
  /\ UNCHANGED <<wechat, stage, held, got, asking, halfway>>

\* Mutant: the token is left without an expiry.
ExpireNever(u) ==
  /\ update[u] = "set"
  /\ update' = [update EXCEPT ![u] = "none"]
  /\ IF stage[u] = "token"
     THEN /\ stage' = [stage EXCEPT ![u] = "upload"]
          /\ held' = [held EXCEPT ![u] = got[u]]
     ELSE UNCHANGED <<stage, held>>
  /\ UNCHANGED <<wechat, redis, got, asking, halfway>>

\* red.expire, of whatever token is there by now, and the return
Expire(u) ==
  /\ update[u] = "set"
  /\ ttl' = (token # 0)
  /\ update' = [update EXCEPT ![u] = "none"]
  /\ IF stage[u] = "token"
     THEN /\ stage' = [stage EXCEPT ![u] = "upload"]
          /\ held' = [held EXCEPT ![u] = got[u]]
     ELSE UNCHANGED <<stage, held>>
  /\ UNCHANGED <<wechat, token, got, asking, halfway>>

\* redis does the one or the other, and the connection is lost: the client is
\* going to send the command once more, or to raise.
Unheard(u) ==
  /\ \/ update[u] = "answered" /\ token' = got[u] /\ ttl' = FALSE
     \/ update[u] = "set" /\ ttl' = (token # 0) /\ UNCHANGED token
  /\ UNCHANGED <<wechat, stage, held, update, got, asking, halfway>>

-----------------------------------------------------------------------------
(* url2mediaId.                                                            *)

\* Mutant: without a token, nobody asks for one.
BeginWaiting(u) ==
  /\ stage[u] \in {"idle", "done", "failed"} /\ update[u] = "none"
  /\ IF token = 0
     THEN stage' = [stage EXCEPT ![u] = "token"] /\ UNCHANGED held
     ELSE /\ stage' = [stage EXCEPT ![u] = "upload"]
          /\ held' = [held EXCEPT ![u] = token]
  /\ UNCHANGED <<wechat, redis, update, got, asking, halfway>>

\* A picture to upload: get_access_token reads redis.
Begin(u) ==
  /\ stage[u] \in {"idle", "done", "failed"} /\ update[u] = "none"
  /\ IF token = 0
     THEN /\ stage' = [stage EXCEPT ![u] = "token"]
          /\ update' = [update EXCEPT ![u] = "asked"]
          /\ UNCHANGED held
     ELSE /\ stage' = [stage EXCEPT ![u] = "upload"]
          /\ held' = [held EXCEPT ![u] = token]
          /\ UNCHANGED update
  /\ UNCHANGED <<wechat, redis, got, asking, halfway>>

\* red.get raises: the picture has no media id.
ReadFails(u) ==
  /\ stage[u] \in {"idle", "done", "failed"} /\ update[u] = "none"
  /\ stage' = [stage EXCEPT ![u] = "failed"]
  /\ UNCHANGED <<wechat, redis, held, update, got, asking, halfway>>

\* The picture has a media id.
Uploaded(u) ==
  /\ stage[u] \in {"upload", "retry"} /\ Valid(held[u])
  /\ stage' = [stage EXCEPT ![u] = "done"]
  /\ UNCHANGED <<wechat, redis, held, update, got, asking, halfway>>

\* 42001: update_access_token is started, not waited for, and the same url,
\* with the same token, is tried once more.
Retry(u) ==
  /\ stage[u] = "upload" /\ held[u] = issued /\ expired
  /\ stage' = [stage EXCEPT ![u] = "retry"]
  /\ update' = [update EXCEPT ![u] = "asked"]
  /\ UNCHANGED <<wechat, redis, held, got, asking, halfway>>

\* Another error, another 42001, or no answer in time: the media id is "".
UploadFails(u) ==
  /\ stage[u] \in {"upload", "retry"}
  /\ stage' = [stage EXCEPT ![u] = "failed"]
  /\ UNCHANGED <<wechat, redis, held, update, got, asking, halfway>>

-----------------------------------------------------------------------------
(* get_access_token_v2: redis, which may raise and nothing has happened,   *)
(* then a request of its own.                                              *)

Get2(c) ==
  /\ c \notin asking /\ token = 0
  /\ asking' = asking \cup {c}
  /\ UNCHANGED <<wechat, redis, stage, held, update, got, halfway>>

Issue2(c) ==
  /\ c \in asking /\ issued < MaxIssued
  /\ issued' = issued + 1 /\ expired' = FALSE
  /\ asking' = asking \ {c}
  /\ UNCHANGED <<redis, stage, held, update, got, halfway>>

-----------------------------------------------------------------------------
(* The surroundings.                                                       *)

\* 7000 seconds have passed since the expiry was set.
RedisForgets ==
  /\ ttl
  /\ token' = 0 /\ ttl' = FALSE
  /\ UNCHANGED <<wechat, stage, held, update, got, asking, halfway>>

\* 7200 seconds have passed since the issue.  That is 200 later than redis
\* forgets the token, when it has its expiry, while an update takes one second
\* and an upload two: nobody works with the token at that time, unless redis
\* still hands it out.
WechatForgets ==
  /\ issued # 0 /\ ~expired
  /\ ~(token = issued /\ ttl)
  /\ \A u \in Uploaders :
       /\ update[u] \in {"answered", "set"} => got[u] # issued
       /\ stage[u] \in {"upload", "retry"} /\ held[u] = issued => token = issued
  /\ expired' = TRUE
  /\ UNCHANGED <<issued, redis, stage, held, update, got, asking, halfway>>

\* A worker dies, and with it the coroutines that are us.
Crash(us) ==
  /\ stage' = [u \in Uploaders |-> IF u \in us THEN "idle" ELSE stage[u]]
  /\ update' = [u \in Uploaders |-> IF u \in us THEN "none" ELSE update[u]]
  /\ halfway' = (halfway \/ \E u \in us : Halfway(u))
  /\ UNCHANGED <<wechat, redis, held, got, asking>>

Update(u) == Issue(u) \/ UpdateFails(u) \/ Store(u) \/ Expire(u)
Upload(u) == Uploaded(u) \/ Retry(u) \/ UploadFails(u)

Next ==
  \/ \E u \in Uploaders : Update(u) \/ Unheard(u) \/ Begin(u) \/ ReadFails(u) \/ Upload(u)
  \/ \E us \in SUBSET Uploaders : Crash(us)
  \/ \E c \in Callers : Get2(c) \/ Issue2(c)
  \/ RedisForgets \/ WechatForgets

(***************************************************************************)
(* Requests have timeouts of one and two seconds, what follows an answer   *)
(* runs without a yield, a call to redis is made twice at most, and time   *)
(* passes.                                                                 *)
(***************************************************************************)
Fairness ==
  /\ \A u \in Uploaders : WF_vars(Update(u)) /\ WF_vars(Upload(u))
  /\ WF_vars(RedisForgets)

Spec == Init /\ [][Next]_vars /\ Fairness

-----------------------------------------------------------------------------
(* Properties.                                                             *)

\* However the two calls of several updates follow each other, are repeated or
\* fail, a token without an expiry belongs to the update that has got it and is
\* still going to set one, unless that has ended, by an error of redis or with
\* its worker, and left the token as it is.
ExpiryOwed ==
  ~halfway /\ token # 0 /\ ~ttl =>
    \E u \in Uploaders : update[u] \in {"answered", "set"} /\ got[u] = token

\* As long as this has not happened, no upload is told that its token has
\* expired, and url2mediaId has no need of its second attempt: redis hands out
\* no token older than its 7000 seconds, although the updates that overlap set
\* and undo each other's expiry.
NeverExpired == ~halfway => \A u \in Uploaders : stage[u] # "retry"

\* A token that is no good any more, stored by an update that was overtaken
\* or made void by get_access_token_v2, does not stay in redis for ever.
VoidTokenLeaves ==
  token # 0 /\ ~Valid(token) ~> token = 0 \/ Valid(token) \/ halfway

\* get_access_token returns a token that wechat honours, as long as none has
\* been left in redis without an expiry.
ReliableToken ==
  [][\A u \in Uploaders :
       stage'[u] = "upload" /\ stage[u] # "upload" /\ ~halfway' => Valid(held[u])']_vars

\* An upload ends, with a media id, without one, or with its worker.
EveryUploadEnds ==
  \A u \in Uploaders :
    stage[u] \in {"token", "upload", "retry"} ~> stage[u] \in {"done", "failed", "idle"}

\* Every token wechat issues is written to redis: once no update is at work,
\* redis has the latest one or none.
StoredOnceQuiet ==
  (\A u \in Uploaders : update[u] = "none") /\ asking = {} => token \in {0, issued}

\* The second attempt of an upload is for what "should not happen": that redis
\* hands out a token which wechat has forgotten.
SecondAttemptNever == \A u \in Uploaders : stage[u] # "retry"
=============================================================================
