----------------------------- MODULE ImageMessage -----------------------------
(***************************************************************************)
(* An image sent to the wechat account: handle_wechat of WechatHandler     *)
(* (src/bin/wechat/wechat_handler.py) and its two clients, afanti          *)
(* (afanti_acc.py) and xiaoe (xiaoe_acc.py), with the token of AccessToken *)
(* that both of them need to reach the user.                               *)
(*                                                                         *)
(* xiaoe is started first: it may find a picture, which url2mediaId        *)
(* uploads.  Meanwhile afanti may solve the exercise on the image, and     *)
(* post_news_msg sends the solution as a message of its own.  The handler  *)
(* waits for xiaoe only when afanti has none.                              *)
(*                                                                         *)
(* The two are uploaders of AccessToken: get_access_token and its update   *)
(* are the same, and a message that wechat delivers is what an upload that *)
(* has its media id is there.  In other behaviours no image is sent, and   *)
(* they are any two coroutines that upload.                                *)
(***************************************************************************)
EXTENDS AccessToken

CONSTANTS Xiaoe, Afanti  \* the coroutines of the message

ASSUME CoroutinesAssumption == Uploaders = {Xiaoe, Afanti} /\ Xiaoe # Afanti

VARIABLES
  image,     \* where handle_wechat is; "off" in behaviours without images
  mediaId,   \* what xiaoe_future will return: "pending", "id", or "" for none
  reply,     \* the form of the reply; "default" is a picture drawn at random
  delivered  \* history: wechat has sent the solution to the user

handler == <<image, mediaId, reply, delivered>>
all     == <<vars, handler>>

Working == {"fetch", "post", "wait"}

\* The types, and that the handler and its coroutines are in step: it waits
\* for the post as long as that is at work, and for no upload that is over.
InStep ==
  /\ image \in {"off", "new", "replied", "lost"} \cup Working
  /\ mediaId \in {"pending", "id", ""}
  /\ reply \in {"none", "success", "xiaoe", "default", "empty"} /\ delivered \in BOOLEAN
  /\ image # "off" =>
       /\ image = "post" <=> stage[Afanti] \in {"token", "upload"}
       /\ update[Afanti] # "none" => stage[Afanti] = "token"
       /\ stage[Afanti] # "retry"
       /\ stage[Xiaoe] \in {"token", "upload", "retry"} => mediaId = "pending"

ImageInit ==
  /\ Init
  /\ image \in {"off", "new"}
  /\ mediaId = "" /\ reply = "none" /\ delivered = FALSE

AtRest(u) == stage[u] \in {"idle", "done", "failed"} /\ update[u] = "none"

Reply(form) == image' = "replied" /\ reply' = form

\* Bound: the next image comes when everything about this one is over.
ImageArrives ==
  /\ image \in {"new", "replied", "lost"} /\ mediaId # "pending"
  /\ AtRest(Xiaoe) /\ AtRest(Afanti)
  /\ image' = "fetch" /\ mediaId' = "pending" /\ reply' = "none" /\ delivered' = FALSE
  /\ UNCHANGED vars

-----------------------------------------------------------------------------
(* get_image_by_image, which returns "" whatever goes wrong.               *)

\* The picture of xiaoe is to be uploaded; or there is none, or no answer of
\* redis about the token.
XiaoeAnswers ==
  /\ image # "off" /\ mediaId = "pending" /\ AtRest(Xiaoe)
  /\ \/ Begin(Xiaoe) /\ UNCHANGED handler
     \/ mediaId' = "" /\ UNCHANGED <<vars, image, reply, delivered>>

\* url2mediaId ends, or goes on.
Settle ==
  /\ mediaId' = CASE mediaId = "pending" /\ stage'[Xiaoe] = "done"   -> "id"
                  [] mediaId = "pending" /\ stage'[Xiaoe] = "failed" -> ""
                  [] OTHER                                           -> mediaId
  /\ UNCHANGED <<image, reply, delivered>>

-----------------------------------------------------------------------------
(* get_afanti_by_image, post_news_msg and the rest of the handler.         *)

\* A solution; none; or an error, of afanti or of redis when it is asked for
\* the token, which ends handle_wechat: the reply is empty.
AfantiAnswers ==
  /\ image = "fetch"
  /\ \/ Begin(Afanti) /\ image' = "post" /\ UNCHANGED reply
     \/ UNCHANGED vars /\ image' = "wait" /\ UNCHANGED reply
     \/ UNCHANGED vars /\ Reply("empty")
  /\ UNCHANGED <<mediaId, delivered>>

\* get_access_token of post_news_msg, which raises when its update does
PostUpdate ==
  /\ image = "post" /\ Update(Afanti)
  /\ IF stage'[Afanti] = "failed" THEN Reply("empty") ELSE UNCHANGED <<image, reply>>
  /\ UNCHANGED <<mediaId, delivered>>

\* Mutant: an error of the post is caught, and the picture of xiaoe waited for.
PostCaught ==
  /\ image = "post" /\ stage[Afanti] = "upload"
  /\ \/ /\ Uploaded(Afanti) /\ delivered' = TRUE
        /\ Reply("success") \/ (image' = "wait" /\ UNCHANGED reply)
     \/ /\ UploadFails(Afanti) /\ UNCHANGED delivered
        /\ (~Valid(held[Afanti]) /\ Reply("success")) \/ (image' = "wait" /\ UNCHANGED reply)
  /\ UNCHANGED mediaId

\* The post: wechat delivers the message, although its answer may come too
\* late; or the token is void, which it says in a body nobody reads; or there
\* is no answer.
Post ==
  /\ image = "post" /\ stage[Afanti] = "upload"
  /\ \/ /\ Uploaded(Afanti) /\ delivered' = TRUE
        /\ Reply("success") \/ Reply("empty")
     \/ /\ UploadFails(Afanti) /\ UNCHANGED delivered
        /\ (~Valid(held[Afanti]) /\ Reply("success")) \/ Reply("empty")
  /\ UNCHANGED mediaId

\* Mutant: the picture is waited for, not the end of the search.
WaitPicture ==
  /\ image = "wait" /\ mediaId = "id"
  /\ Reply("xiaoe")
  /\ UNCHANGED <<vars, mediaId, delivered>>

\* xiaoe_future is done.  Without a picture one is drawn; there are none when
\* wechat could not be reached at the start of the server, and the draw raises.
WaitXiaoe ==
  /\ image = "wait" /\ mediaId # "pending"
  /\ IF mediaId = "id" THEN Reply("xiaoe") ELSE Reply("default") \/ Reply("empty")
  /\ UNCHANGED <<vars, mediaId, delivered>>

-----------------------------------------------------------------------------
(* Together.                                                               *)

\* Mutant: the coroutines of the message die alone.
CoroutinesDie == image # "off" /\ Crash({Xiaoe, Afanti}) /\ UNCHANGED handler

\* The worker of the message dies, with both its coroutines.
WorkerDies ==
  /\ image # "off" /\ Crash({Xiaoe, Afanti})
  /\ image' = IF image \in Working THEN "lost" ELSE image
  /\ mediaId' = IF mediaId = "pending" THEN "" ELSE mediaId
  /\ UNCHANGED <<reply, delivered>>

NoImage(A) == image = "off" /\ A /\ UNCHANGED handler

UpdateOf(u) ==
  \/ NoImage(Update(u))
  \/ u = Xiaoe /\ image # "off" /\ Update(u) /\ Settle
  \/ u = Afanti /\ PostUpdate

UploadOf(u) ==
  \/ NoImage(Upload(u))
  \/ u = Xiaoe /\ image # "off" /\ Upload(u) /\ Settle
  \/ u = Afanti /\ Post

Handle == AfantiAnswers \/ WaitXiaoe

ImageNext ==
  \/ ImageArrives \/ XiaoeAnswers \/ Handle \/ WorkerDies
  \/ \E u \in Uploaders : UpdateOf(u) \/ UploadOf(u) \/ NoImage(Begin(u) \/ ReadFails(u))
  \/ UNCHANGED handler /\ \E u \in Uploaders : Unheard(u)
  \/ \E us \in SUBSET Uploaders : NoImage(Crash(us))
  \/ UNCHANGED handler /\ \E c \in Callers : Get2(c) \/ Issue2(c)
  \/ UNCHANGED handler /\ (RedisForgets \/ WechatForgets)

(***************************************************************************)
(* That of AccessToken, and the timeouts of afanti and xiaoe.              *)
(***************************************************************************)
ImageFairness ==
  /\ \A u \in Uploaders : WF_all(UpdateOf(u)) /\ WF_all(UploadOf(u))
  /\ WF_all(XiaoeAnswers) /\ WF_all(Handle)
  /\ WF_all(UNCHANGED handler /\ RedisForgets)

ImageSpec == ImageInit /\ [][ImageNext]_all /\ ImageFairness

-----------------------------------------------------------------------------
(* Properties.                                                             *)

\* A user who gets the solution as a message of its own, late answer or not,
\* is not sent a picture besides.
OneAnswer == delivered => reply \in {"none", "success", "empty"}

\* The handler says "success" without looking at what wechat answered.  The
\* solution is lost behind it only when the token was overtaken by a later
\* one, of xiaoe in the same message, say; never because it was too old.
LostOnlyWhenOvertaken ==
  image = "replied" /\ reply = "success" /\ ~delivered /\ ~halfway => held[Afanti] # issued

\* Whatever becomes of the two clients, the message gets its reply, or is lost
\* with the worker.
EveryImageReplied == image \in Working ~> image \in {"replied", "lost"}
=============================================================================
