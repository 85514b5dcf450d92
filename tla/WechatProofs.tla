---------------------------- MODULE WechatProofs ----------------------------
(***************************************************************************)
(* Theorems about AccessToken, without a bound on the tokens:              *)
(*                                                                         *)
(*   - TypeOK, ExpiryOwed, NeverExpired, and that nobody waits for an      *)
(*     update that there is not, for any number of uploaders and of        *)
(*     callers of get_access_token_v2;                                     *)
(*   - ReliableToken, which the comments in the file promise and two       *)
(*     uploaders break, for a single one;                                  *)
(*                                                                         *)
(* and about ImageMessage: it implements AccessToken, so that they hold    *)
(* for the coroutines of a message as well, and what a user gets.          *)
(***************************************************************************)
EXTENDS ImageMessage, TLAPS

-----------------------------------------------------------------------------
(* Type correctness.                                                       *)

\* Those issued so far: they grow by one, and 0 is among them.
LEMMA IssuedGrow ==
  ASSUME TypeOK
  PROVE  /\ 0 \in 0..issued
         /\ issued + 1 \in 0..(issued + 1)
         /\ \A t \in 0..issued : t \in 0..(issued + 1)
         /\ issued < MaxIssued => issued + 1 \in Tokens
BY TokenAssumption DEF TypeOK, Tokens

LEMMA TypeInit == Init => TypeOK
<1>. SUFFICES ASSUME Init PROVE TypeOK
  OBVIOUS
<1>1. 0 \in Tokens /\ 0 \in 0..0
  BY TokenAssumption DEF Tokens
<1>. QED
  BY <1>1 DEF Init, TypeOK

LEMMA TypeUpdate ==
  ASSUME TypeOK, NEW u \in Uploaders, Update(u) \/ Unheard(u)
  PROVE  TypeOK'
<1>1. CASE Issue(u)
  <2>1. issued' = issued + 1 /\ issued' \in Tokens
    BY <1>1, IssuedGrow DEF Issue
  <2>2. token' \in 0..issued' /\ held' \in [Uploaders -> 0..issued']
    BY <1>1, <2>1, IssuedGrow DEF Issue, TypeOK, redis
  <2>3. got' \in [Uploaders -> 0..issued']
    BY <1>1, <2>1, IssuedGrow DEF Issue, TypeOK
  <2>. QED
    BY <1>1, <2>1, <2>2, <2>3 DEF Issue, TypeOK, redis
<1>2. CASE UpdateFails(u)
  BY <1>2 DEF UpdateFails, TypeOK, wechat, redis
<1>3. CASE Store(u)
  BY <1>3 DEF Store, TypeOK, wechat
<1>4. CASE Expire(u)
  BY <1>4 DEF Expire, TypeOK, wechat
<1>5. CASE Unheard(u)
  BY <1>5 DEF Unheard, TypeOK, wechat
<1>. QED
  BY <1>1, <1>2, <1>3, <1>4, <1>5 DEF Update

LEMMA TypeUpload ==
  ASSUME TypeOK, NEW u \in Uploaders, Begin(u) \/ ReadFails(u) \/ Upload(u)
  PROVE  TypeOK'
<1>1. CASE Begin(u)
  BY <1>1 DEF Begin, TypeOK, wechat, redis
<1>2. CASE Uploaded(u)
  BY <1>2 DEF Uploaded, TypeOK, wechat, redis
<1>3. CASE Retry(u)
  BY <1>3 DEF Retry, TypeOK, wechat, redis
<1>4. CASE UploadFails(u)
  BY <1>4 DEF UploadFails, TypeOK, wechat, redis
<1>5. CASE ReadFails(u)
  BY <1>5 DEF ReadFails, TypeOK, wechat, redis
<1>. QED
  BY <1>1, <1>2, <1>3, <1>4, <1>5 DEF Upload

LEMMA TypeNext == TypeOK /\ [Next]_vars => TypeOK'
<1>. SUFFICES ASSUME TypeOK, [Next]_vars PROVE TypeOK'
  OBVIOUS
<1>1. ASSUME NEW c \in Callers, Get2(c) PROVE TypeOK'
  BY <1>1 DEF Get2, TypeOK, wechat, redis
<1>2. ASSUME NEW c \in Callers, Issue2(c) PROVE TypeOK'
  <2>1. issued' = issued + 1 /\ issued' \in Tokens
    BY <1>2, IssuedGrow DEF Issue2
  <2>2. /\ token' \in 0..issued'
        /\ held' \in [Uploaders -> 0..issued'] /\ got' \in [Uploaders -> 0..issued']
    BY <1>2, <2>1, IssuedGrow DEF Issue2, TypeOK, redis
  <2>. QED
    BY <1>2, <2>1, <2>2 DEF Issue2, TypeOK, redis
<1>3. CASE RedisForgets
  BY <1>3, IssuedGrow DEF RedisForgets, TypeOK, wechat
<1>4. CASE WechatForgets
  BY <1>4 DEF WechatForgets, TypeOK, redis
<1>5. ASSUME NEW us \in SUBSET Uploaders, Crash(us) PROVE TypeOK'
  BY <1>5 DEF Crash, TypeOK, wechat, redis
<1>6. CASE UNCHANGED vars
  BY <1>6 DEF vars, TypeOK, wechat, redis
<1>. QED
  BY <1>1, <1>2, <1>3, <1>4, <1>5, <1>6, TypeUpdate, TypeUpload DEF Next

\* The token of redis, those the uploads hold and those on their way have all
\* been issued, and the stages are those of the code (TypeOK).
THEOREM TypeCorrect == Spec => []TypeOK
<1>. QED
  BY TypeInit, TypeNext, PTL DEF Spec

-----------------------------------------------------------------------------
(* Nobody waits for an update that there is not.                           *)

UpdateAtWork == \A u \in Uploaders : stage[u] = "token" => update[u] # "none"

LEMMA AtWorkNext == TypeOK /\ UpdateAtWork /\ [Next]_vars => UpdateAtWork'
<1>. SUFFICES ASSUME TypeOK, UpdateAtWork, [Next]_vars PROVE UpdateAtWork'
  OBVIOUS
<1>. USE DEF UpdateAtWork, TypeOK
<1>1. ASSUME NEW u \in Uploaders, Update(u) PROVE UpdateAtWork'
  BY <1>1 DEF Update, Issue, UpdateFails, Store, Expire
<1>2. ASSUME NEW u \in Uploaders, Begin(u) \/ ReadFails(u) \/ Upload(u) PROVE UpdateAtWork'
  BY <1>2 DEF Begin, ReadFails, Upload, Uploaded, Retry, UploadFails
<1>3. ASSUME NEW us \in SUBSET Uploaders, Crash(us) PROVE UpdateAtWork'
  BY <1>3 DEF Crash
<1>4. ASSUME UNCHANGED <<stage, update>> PROVE UpdateAtWork'
  BY <1>4
<1>5. ASSUME NEW c \in Callers, Get2(c) \/ Issue2(c) PROVE UpdateAtWork'
  BY <1>4, <1>5 DEF Get2, Issue2
<1>6. CASE RedisForgets \/ WechatForgets \/ UNCHANGED vars
  BY <1>4, <1>6 DEF RedisForgets, WechatForgets, vars
<1>7. ASSUME NEW u \in Uploaders, Unheard(u) PROVE UpdateAtWork'
  BY <1>4, <1>7 DEF Unheard
<1>. QED
  BY <1>1, <1>2, <1>3, <1>5, <1>6, <1>7 DEF Next

\* An uploader without a token waits for an update of its own that is at work,
\* whoever else has stored a token, and lost it, in the meantime: the failure
\* of an update reaches who waits for it (UpdateAtWork).  As the requests of an
\* update time out, this is what EveryUploadEnds rests on.
THEOREM UpdateIsAtWork == Spec => []UpdateAtWork
<1>1. Init => UpdateAtWork
  BY DEF Init, UpdateAtWork
<1>. QED
  BY <1>1, TypeInit, TypeNext, AtWorkNext, PTL DEF Spec

-----------------------------------------------------------------------------
(* The age of the tokens.                                                  *)

\* A token without an expiry is that of an update that will set one.
OwedByItsOwn ==
  token # 0 /\ ~ttl =>
    \E u \in Uploaders : update[u] \in {"answered", "set"} /\ got[u] = token

\* If the latest token is in redis, on its way there or part of an upload,
\* its two hours are not over.
LatestInUseIsFresh ==
  /\ token = issued /\ token # 0 => ~expired
  /\ \A u \in Uploaders :
       /\ update[u] \in {"answered", "set"} /\ got[u] = issued => ~expired
       /\ stage[u] = "upload" /\ held[u] = issued => ~expired
       /\ stage[u] # "retry"

AgeInv == ~halfway => OwedByItsOwn /\ LatestInUseIsFresh

LEMMA AgeInit == Init => AgeInv
BY DEF Init, AgeInv, OwedByItsOwn, LatestInUseIsFresh

\* A step of an update.  One that fails leaves the others as they are, and a
\* token without an expiry only if that is its own (Halfway).
LEMMA AgeUpdate ==
  ASSUME TypeOK, AgeInv, NEW u \in Uploaders, Update(u) \/ Unheard(u)
  PROVE  AgeInv'
<1>. USE DEF AgeInv, OwedByItsOwn, LatestInUseIsFresh
<1>1. CASE Issue(u)
  <2>1. issued \in Nat /\ \A t \in 0..issued : t # issued + 1
    BY DEF TypeOK, Tokens
  <2>2. /\ token # issued' /\ ~expired'
        /\ \A v \in Uploaders : held'[v] # issued'
    BY <1>1, <2>1 DEF Issue, TypeOK, redis
  <2>. QED
    BY <1>1, <2>2 DEF Issue, TypeOK, redis
<1>2. CASE UpdateFails(u)
  BY <1>2 DEF UpdateFails, Halfway, TypeOK, wechat, redis
<1>3. CASE Store(u)
  BY <1>3 DEF Store, TypeOK, wechat
<1>4. CASE Expire(u)
  BY <1>4 DEF Expire, TypeOK, wechat
<1>5. CASE Unheard(u)
  BY <1>5 DEF Unheard, TypeOK, wechat
<1>. QED
  BY <1>1, <1>2, <1>3, <1>4, <1>5 DEF Update

LEMMA AgeNext == TypeOK /\ AgeInv /\ [Next]_vars => AgeInv'
<1>. SUFFICES ASSUME TypeOK, AgeInv, [Next]_vars PROVE AgeInv'
  OBVIOUS
<1>. USE DEF AgeInv, OwedByItsOwn, LatestInUseIsFresh
<1>1. ASSUME NEW u \in Uploaders, Begin(u) PROVE AgeInv'
  BY <1>1 DEF Begin, TypeOK, wechat, redis
<1>2. ASSUME NEW u \in Uploaders, Uploaded(u) \/ UploadFails(u) PROVE AgeInv'
  BY <1>2 DEF Uploaded, UploadFails, TypeOK, wechat, redis
<1>3. ASSUME NEW u \in Uploaders, Retry(u) PROVE AgeInv'
  BY <1>3 DEF Retry
<1>4. ASSUME NEW us \in SUBSET Uploaders, Crash(us) PROVE AgeInv'
  BY <1>4 DEF Crash, Halfway, TypeOK, wechat, redis
<1>5. ASSUME NEW c \in Callers, Get2(c) PROVE AgeInv'
  BY <1>5 DEF Get2, wechat, redis
<1>6. ASSUME NEW c \in Callers, Issue2(c) PROVE AgeInv'
  BY <1>6 DEF Issue2, redis
<1>7. CASE RedisForgets
  BY <1>7 DEF RedisForgets, wechat
<1>8. CASE WechatForgets
  <2>1. ~halfway => token # issued
    BY <1>8 DEF WechatForgets
  <2>. QED
    BY <1>8, <2>1 DEF WechatForgets, redis
<1>9. CASE UNCHANGED vars
  BY <1>9 DEF vars, wechat, redis
<1>10. ASSUME NEW u \in Uploaders, ReadFails(u) PROVE AgeInv'
  BY <1>10 DEF ReadFails, TypeOK, wechat, redis
<1>. QED
  BY <1>1, <1>2, <1>3, <1>4, <1>5, <1>6, <1>7, <1>8, <1>9, <1>10, AgeUpdate
     DEF Next, Upload

LEMMA AgeCorrect == Spec => []AgeInv
<1>. QED
  BY AgeInit, AgeNext, TypeCorrect, PTL DEF Spec

\* However many updates overlap and whatever redis makes of their calls, a
\* token without an expiry has an update that will set one, unless that has
\* ended, by an error or with its worker, and left it so (ExpiryOwed).
THEOREM ExpiryAlwaysOwed == Spec => []ExpiryOwed
<1>1. AgeInv => ExpiryOwed
  BY DEF AgeInv, OwedByItsOwn, ExpiryOwed
<1>. QED
  BY <1>1, AgeCorrect, PTL

\* As long as none has been left so, no upload is told that its token has
\* expired, whatever requests, calls to redis and workers are lost on the way
\* (NeverExpired).
THEOREM NoSecondAttempt == Spec => []NeverExpired
<1>1. AgeInv => NeverExpired
  BY DEF AgeInv, LatestInUseIsFresh, NeverExpired
<1>. QED
  BY <1>1, AgeCorrect, PTL

-----------------------------------------------------------------------------
(* One uploader at a time, and nobody in get_access_token_v2.              *)

Alone == (\A u, v \in Uploaders : u = v) /\ Callers = {}

\* What redis holds is good, and its expiry is set or about to be.
StoredGood ==
  token # 0 =>
    Valid(token) /\ (ttl \/ \E u \in Uploaders : update[u] \in {"answered", "set"})

\* An update runs for the one who waits for it, what it got is still the
\* latest, and redis has that or nothing.
UpdateAlone ==
  \A u \in Uploaders :
    /\ update[u] # "none" => stage[u] = "token"
    /\ update[u] = "asked" => token = 0
    /\ update[u] \in {"answered", "set"} => Valid(got[u]) /\ token \in {0, got[u]}
    /\ update[u] = "answered" /\ token # 0 => ~ttl

\* An upload is made with a token wechat honours.
UploadGood ==
  \A u \in Uploaders :
    /\ stage[u] # "retry"
    /\ stage[u] = "upload" => Valid(held[u])

AloneInv == ~halfway => StoredGood /\ UpdateAlone /\ UploadGood

LEMMA AloneInit == Init => AloneInv
BY DEF Init, AloneInv, StoredGood, UpdateAlone, UploadGood

LEMMA AloneUpdate ==
  ASSUME Alone, TypeOK, AloneInv, NEW u \in Uploaders, Update(u) \/ Unheard(u)
  PROVE  AloneInv'
<1>. USE DEF AloneInv, StoredGood, UpdateAlone, UploadGood, Valid
<1>0. \A v \in Uploaders : v = u
  BY DEF Alone
<1>1. CASE Issue(u)
  BY <1>0, <1>1 DEF Issue, TypeOK, Tokens, redis
<1>2. CASE UpdateFails(u)
  BY <1>0, <1>2 DEF UpdateFails, Halfway, TypeOK, wechat, redis
<1>3. CASE Store(u)
  BY <1>0, <1>3 DEF Store, TypeOK, wechat
<1>4. CASE Expire(u)
  BY <1>0, <1>4 DEF Expire, TypeOK, wechat
<1>5. CASE Unheard(u)
  BY <1>0, <1>5 DEF Unheard, TypeOK, wechat
<1>. QED
  BY <1>1, <1>2, <1>3, <1>4, <1>5 DEF Update

LEMMA AloneNext == Alone /\ TypeOK /\ AloneInv /\ [Next]_vars => AloneInv'
<1>. SUFFICES ASSUME Alone, TypeOK, AloneInv, [Next]_vars PROVE AloneInv'
  OBVIOUS
<1>. USE DEF AloneInv, StoredGood, UpdateAlone, UploadGood, Valid
<1>1. ASSUME NEW u \in Uploaders, Begin(u) PROVE AloneInv'
  BY <1>1 DEF Begin, TypeOK, Alone, wechat, redis
<1>2. ASSUME NEW u \in Uploaders, Upload(u) PROVE AloneInv'
  <2>1. CASE Uploaded(u)
    BY <2>1 DEF Uploaded, TypeOK, wechat, redis
  <2>2. CASE Retry(u)
    BY <2>2 DEF Retry
  <2>3. CASE UploadFails(u)
    BY <2>3 DEF UploadFails, TypeOK, wechat, redis
  <2>. QED
    BY <1>2, <2>1, <2>2, <2>3 DEF Upload
<1>3. ASSUME NEW us \in SUBSET Uploaders, Crash(us) PROVE AloneInv'
  BY <1>3 DEF Crash, Halfway, TypeOK, Alone, wechat, redis
<1>4. ASSUME NEW c \in Callers, Get2(c) \/ Issue2(c) PROVE AloneInv'
  BY <1>4 DEF Alone
<1>5. CASE RedisForgets
  BY <1>5 DEF RedisForgets, wechat
<1>6. CASE WechatForgets
  BY <1>6 DEF WechatForgets, redis
<1>7. CASE UNCHANGED vars
  BY <1>7 DEF vars, wechat, redis
<1>8. ASSUME NEW u \in Uploaders, ReadFails(u) PROVE AloneInv'
  BY <1>8 DEF ReadFails, TypeOK, wechat, redis
<1>. QED
  BY <1>1, <1>2, <1>3, <1>4, <1>5, <1>6, <1>7, <1>8, AloneUpdate DEF Next

LEMMA AloneCorrect == Alone /\ Spec => []AloneInv
<1>. SUFFICES ASSUME Alone PROVE Spec => []AloneInv
  OBVIOUS
<1>1. TypeOK /\ AloneInv /\ [Next]_vars => AloneInv'
  BY AloneNext
<1>. QED
  BY <1>1, AloneInit, TypeCorrect, PTL DEF Spec

\* With one upload at a time get_access_token is, as its comment says,
\* reliable: the token it returns is one wechat honours, as long as no update
\* has ended and left its token without an expiry (ReliableToken).
THEOREM TokenIsReliable == Alone /\ Spec => ReliableToken
<1>1. AloneInv' =>
        [\A u \in Uploaders :
           stage'[u] = "upload" /\ stage[u] # "upload" /\ ~halfway' => Valid(held[u])']_vars
  BY DEF AloneInv, UploadGood
<1>. QED
  BY <1>1, AloneCorrect, PTL DEF ReliableToken

\* With one upload at a time and nobody in get_access_token_v2, redis holds
\* the latest token or none once no update is at work (StoredOnceQuiet, which
\* others in the way break), unless an update has ended, by an error of redis
\* or with its worker, between the two calls that write one.
THEOREM TokenIsStored == Alone /\ Spec => [](~halfway => StoredOnceQuiet)
<1>1. AloneInv => (~halfway => StoredOnceQuiet)
  BY DEF AloneInv, StoredGood, StoredOnceQuiet, Valid
<1>. QED
  BY <1>1, AloneCorrect, PTL

-----------------------------------------------------------------------------
(* Every step of a message is a step of AccessToken, or none.              *)

LEMMA TokenStep == [ImageNext]_all => [Next]_vars
<1>. SUFFICES ASSUME [ImageNext]_all PROVE [Next]_vars
  OBVIOUS
<1>0. Xiaoe \in Uploaders /\ Afanti \in Uploaders /\ {Xiaoe, Afanti} \in SUBSET Uploaders
  BY CoroutinesAssumption
<1>1. CASE ImageArrives \/ Handle \/ XiaoeAnswers
  BY <1>0, <1>1 DEF ImageArrives, Handle, WaitXiaoe, AfantiAnswers, XiaoeAnswers, Next
<1>2. CASE WorkerDies
  BY <1>0, <1>2 DEF WorkerDies, Next
<1>3. ASSUME NEW u \in Uploaders,
             UpdateOf(u) \/ UploadOf(u) \/ Unheard(u) \/ NoImage(Begin(u) \/ ReadFails(u))
      PROVE  Next
  BY <1>0, <1>3 DEF UpdateOf, UploadOf, NoImage, PostUpdate, Post, Next, Upload
<1>4. ASSUME NEW us \in SUBSET Uploaders, NoImage(Crash(us)) PROVE Next
  BY <1>4 DEF NoImage, Next
<1>5. CASE (\E c \in Callers : Get2(c) \/ Issue2(c)) \/ RedisForgets \/ WechatForgets
  BY <1>5 DEF Next
<1>6. CASE UNCHANGED all
  BY <1>6 DEF all
<1>. QED
  BY <1>1, <1>2, <1>3, <1>4, <1>5, <1>6 DEF ImageNext

\* A message uses the token as AccessToken says, with its fairness aside.
THEOREM ImageImplementsToken == ImageSpec => Init /\ [][Next]_vars
<1>1. ImageInit => Init
  BY DEF ImageInit
<1>. QED
  BY <1>1, TokenStep, PTL DEF ImageSpec

LEMMA TokenInvariance == ImageSpec => [](TypeOK /\ AgeInv)
<1>1. Init => TypeOK /\ AgeInv
  BY TypeInit, AgeInit
<1>2. TypeOK /\ AgeInv /\ [Next]_vars => (TypeOK /\ AgeInv)'
  BY TypeNext, AgeNext
<1>. QED
  BY <1>1, <1>2, ImageImplementsToken, PTL

-----------------------------------------------------------------------------
(* The handler and its coroutines.                                         *)

LEMMA InStepInit == ImageInit => InStep
BY CoroutinesAssumption DEF ImageInit, Init, InStep, Working

LEMMA InStepNext == TypeOK /\ InStep /\ [ImageNext]_all => InStep'
<1>. SUFFICES ASSUME TypeOK, InStep, [ImageNext]_all PROVE InStep'
  OBVIOUS
<1>. USE CoroutinesAssumption DEF InStep, Working
<1>1. CASE ImageArrives
  BY <1>1 DEF ImageArrives, AtRest, vars
<1>2. CASE XiaoeAnswers
  BY <1>2 DEF XiaoeAnswers, Begin, AtRest, handler, vars, TypeOK
<1>3. CASE AfantiAnswers
  BY <1>3 DEF AfantiAnswers, Begin, Reply, vars, TypeOK
<1>4. CASE WaitXiaoe
  BY <1>4 DEF WaitXiaoe, Reply, vars
<1>5. CASE WorkerDies
  BY <1>5 DEF WorkerDies, Crash, TypeOK
<1>6. ASSUME image # "off", Update(Xiaoe), Settle PROVE InStep'
  BY <1>6 DEF Update, Issue, UpdateFails, Store, Expire, Settle, TypeOK
<1>7. ASSUME image # "off", Upload(Xiaoe), Settle PROVE InStep'
  BY <1>7 DEF Upload, Uploaded, Retry, UploadFails, Settle, TypeOK
<1>8. CASE PostUpdate
  BY <1>8 DEF PostUpdate, Update, Issue, UpdateFails, Store, Expire, Reply, TypeOK
<1>9. CASE Post
  BY <1>9 DEF Post, Uploaded, UploadFails, Reply, TypeOK
<1>10. ASSUME image = "off", UNCHANGED handler PROVE InStep'
  BY <1>10 DEF handler
<1>11. ASSUME UNCHANGED <<stage, update, handler>> PROVE InStep'
  BY <1>11 DEF handler
<1>12. ASSUME NEW u \in Uploaders, UpdateOf(u) \/ UploadOf(u) PROVE InStep'
  BY <1>6, <1>7, <1>8, <1>9, <1>10, <1>12 DEF UpdateOf, UploadOf, NoImage
<1>13. CASE UNCHANGED handler /\ \E c \in Callers : Get2(c) \/ Issue2(c)
  BY <1>11, <1>13 DEF Get2, Issue2
<1>14. CASE UNCHANGED handler /\ (RedisForgets \/ WechatForgets)
  BY <1>11, <1>14 DEF RedisForgets, WechatForgets
<1>15. CASE UNCHANGED all
  BY <1>11, <1>15 DEF all, vars
<1>16. CASE UNCHANGED handler /\ \E u \in Uploaders : Unheard(u)
  BY <1>11, <1>16 DEF Unheard
<1>. QED
  BY <1>1, <1>2, <1>3, <1>4, <1>5, <1>10, <1>12, <1>13, <1>14, <1>15, <1>16
     DEF ImageNext, Handle, NoImage

\* The handler waits for its post exactly as long as that is at work, and
\* drops no upload of xiaoe that is not over (InStep).
THEOREM HandlerInStep == ImageSpec => []InStep
<1>. QED
  BY InStepInit, InStepNext, TokenInvariance, PTL DEF ImageSpec

-----------------------------------------------------------------------------
(* What the user gets.                                                     *)

\* A solution has been sent by a post, whose end is the reply.
Sent == delivered => image = "replied" /\ reply \in {"success", "empty"}

LEMMA SentInit == ImageInit => Sent
BY DEF ImageInit, Sent

LEMMA SentNext == InStep /\ Sent /\ [ImageNext]_all => Sent'
<1>. SUFFICES ASSUME InStep, Sent, [ImageNext]_all PROVE Sent'
  OBVIOUS
<1>. USE DEF Sent
<1>1. CASE ImageArrives
  BY <1>1 DEF ImageArrives
<1>2. CASE XiaoeAnswers
  BY <1>2 DEF XiaoeAnswers, handler
<1>3. CASE AfantiAnswers
  BY <1>3 DEF AfantiAnswers, Reply
<1>4. CASE WaitXiaoe
  BY <1>4 DEF WaitXiaoe
<1>5. CASE WorkerDies
  BY <1>5 DEF WorkerDies, Working
<1>6. CASE PostUpdate
  BY <1>6 DEF PostUpdate
<1>7. CASE Post
  BY <1>7 DEF Post, Reply, InStep
<1>8. CASE UNCHANGED <<image, reply, delivered>>
  BY <1>8
<1>. QED
  BY <1>1, <1>2, <1>3, <1>4, <1>5, <1>6, <1>7, <1>8
     DEF ImageNext, Handle, UpdateOf, UploadOf, NoImage, Settle, all, handler

\* A user to whom a solution has been sent gets no picture, in whatever way
\* the post seemed to end (OneAnswer).
THEOREM OneAnswerOnly == ImageSpec => []OneAnswer
<1>1. Sent => OneAnswer
  BY DEF Sent, OneAnswer
<1>. QED
  BY <1>1, SentInit, SentNext, HandlerInStep, PTL DEF ImageSpec

\* The tokens in use are tokens.
RealTokens ==
  \A u \in Uploaders :
    /\ stage[u] = "upload" => held[u] # 0
    /\ update[u] \in {"answered", "set"} => got[u] # 0

LEMMA RealInit == Init => RealTokens
BY DEF Init, RealTokens

LEMMA RealNext == TypeOK /\ RealTokens /\ [Next]_vars => RealTokens'
<1>. SUFFICES ASSUME TypeOK, RealTokens, [Next]_vars PROVE RealTokens'
  OBVIOUS
<1>. USE DEF RealTokens
<1>1. ASSUME NEW u \in Uploaders, Issue(u) PROVE RealTokens'
  BY <1>1 DEF Issue, TypeOK, Tokens
<1>2. ASSUME NEW u \in Uploaders, UpdateFails(u) PROVE RealTokens'
  BY <1>2 DEF UpdateFails, TypeOK
<1>3. ASSUME NEW u \in Uploaders, Store(u) PROVE RealTokens'
  BY <1>3 DEF Store, TypeOK
<1>4. ASSUME NEW u \in Uploaders, Expire(u) PROVE RealTokens'
  BY <1>4 DEF Expire, TypeOK
<1>5. ASSUME NEW u \in Uploaders, Begin(u) PROVE RealTokens'
  BY <1>5 DEF Begin, TypeOK
<1>6. ASSUME NEW u \in Uploaders, Upload(u) PROVE RealTokens'
  BY <1>6 DEF Upload, Uploaded, Retry, UploadFails, TypeOK
<1>7. ASSUME NEW us \in SUBSET Uploaders, Crash(us) PROVE RealTokens'
  BY <1>7 DEF Crash
<1>8. CASE UNCHANGED <<stage, held, update, got>>
  BY <1>8
<1>9. ASSUME NEW u \in Uploaders, ReadFails(u) PROVE RealTokens'
  BY <1>9 DEF ReadFails, TypeOK
<1>. QED
  BY <1>1, <1>2, <1>3, <1>4, <1>5, <1>6, <1>7, <1>8, <1>9
     DEF Next, Update, Unheard, Get2, Issue2, RedisForgets, WechatForgets, vars

LEMMA LostInit == ImageInit => LostOnlyWhenOvertaken
BY DEF ImageInit, LostOnlyWhenOvertaken

LEMMA LostNext ==
  ASSUME TypeOK, AgeInv, RealTokens, InStep, LostOnlyWhenOvertaken, [ImageNext]_all
  PROVE  LostOnlyWhenOvertaken'
<1>. SUFFICES ASSUME image' = "replied", reply' = "success", ~delivered', ~halfway'
              PROVE  held'[Afanti] # issued'
  BY DEF LostOnlyWhenOvertaken
<1>. USE CoroutinesAssumption
<1>0. ~halfway
  BY TokenStep DEF Next, Update, Issue, UpdateFails, Store, Expire, Unheard, Begin, ReadFails,
                   Upload, Uploaded, Retry, UploadFails, Crash, Get2, Issue2, RedisForgets,
                   WechatForgets, vars
<1>1. CASE image # "replied"
  <2>1. Post
    BY <1>1 DEF ImageNext, ImageArrives, XiaoeAnswers, Handle, AfantiAnswers, WaitXiaoe,
                WorkerDies, Working, UpdateOf, UploadOf, PostUpdate, NoImage, Settle, Reply,
                all, handler
  <2>2. UploadFails(Afanti) /\ ~Valid(held[Afanti])
    BY <2>1 DEF Post, Reply
  <2>3. held[Afanti] # 0 /\ (held[Afanti] = issued => ~expired)
    BY <1>0, <2>1, <2>2 DEF Post, UploadFails, RealTokens, AgeInv, LatestInUseIsFresh
  <2>. QED
    BY <2>2, <2>3 DEF Valid, UploadFails, wechat
<1>2. CASE image = "replied"
  <2>1. reply = "success" /\ ~delivered
    <3>1. Settle => UNCHANGED <<reply, delivered>>
      BY DEF Settle
    <3>2. ASSUME NEW u \in Uploaders, UpdateOf(u) \/ UploadOf(u)
          PROVE  UNCHANGED <<reply, delivered>>
      BY <1>2, <3>1, <3>2 DEF UpdateOf, UploadOf, PostUpdate, Post, NoImage, handler
    <3>3. ASSUME XiaoeAnswers \/ Handle \/ WorkerDies PROVE UNCHANGED <<reply, delivered>>
      BY <1>2, <3>3 DEF XiaoeAnswers, Handle, AfantiAnswers, WaitXiaoe, WorkerDies, handler
    <3>. QED
      BY <3>2, <3>3 DEF ImageNext, ImageArrives, NoImage, all, handler
  <2>2. held[Afanti] # issued /\ held[Afanti] \in 0..issued /\ issued \in Nat
    BY <1>0, <1>2, <2>1 DEF LostOnlyWhenOvertaken, TypeOK, Tokens
  <2>3. update[Afanti] = "none"
    BY <1>2 DEF InStep
  <2>4. issued' \in {issued, issued + 1}
    BY TokenStep DEF Next, Update, Issue, UpdateFails, Store, Expire, Unheard, Begin, ReadFails,
                     Upload, Uploaded, Retry, UploadFails, Crash, Get2, Issue2, RedisForgets,
                     WechatForgets, vars, wechat
  <2>5. held'[Afanti] = held[Afanti]
    <3>1. CASE UNCHANGED held
      BY <3>1
    <3>2. CASE Update(Xiaoe)
      BY <3>2 DEF Update, Issue, UpdateFails, Store, Expire, TypeOK
    <3>3. CASE Begin(Xiaoe)
      BY <3>3 DEF Begin, TypeOK
    <3>4. ASSUME NEW u \in Uploaders, Upload(u) PROVE UNCHANGED held
      BY <3>4 DEF Upload, Uploaded, Retry, UploadFails
    <3>. QED
      BY <1>2, <3>1, <3>2, <3>3, <3>4
         DEF ImageNext, ImageArrives, XiaoeAnswers, Handle, AfantiAnswers, WaitXiaoe,
             WorkerDies, Crash, UpdateOf, UploadOf, PostUpdate, Post, NoImage, Unheard,
             ReadFails, Get2, Issue2, RedisForgets, WechatForgets, all, vars
  <2>. QED
    BY <2>2, <2>4, <2>5
<1>. QED
  BY <1>1, <1>2

\* A solution is lost behind a reply that says "success" only if the token was
\* overtaken (LostOnlyWhenOvertaken), for any bound on the tokens and any
\* number of callers, as long as no update has ended between redis.set and
\* expire and left its token without an expiry.
THEOREM LostWhenOvertaken == ImageSpec => []LostOnlyWhenOvertaken
<1>1. ImageInit => RealTokens
  BY RealInit DEF ImageInit
<1>2. TypeOK /\ RealTokens /\ [ImageNext]_all => RealTokens'
  BY RealNext, TokenStep
<1>3. TypeOK /\ AgeInv /\ RealTokens /\ InStep /\ LostOnlyWhenOvertaken /\ [ImageNext]_all
        => LostOnlyWhenOvertaken'
  BY LostNext
<1>. QED
  BY <1>1, <1>2, <1>3, LostInit, TokenInvariance, HandlerInStep, PTL DEF ImageSpec
=============================================================================
