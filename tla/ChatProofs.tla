----------------------------- MODULE ChatProofs -----------------------------
(***************************************************************************)
(* Theorems about ChatHub, for any number of workers, users and requests,  *)
(* any schedules and any limit on the history, with workers that die, and  *)
(* redis and the posting of replies failing whenever they like:            *)
(*                                                                         *)
(*   - TypeOK and CacheSound as they are, and that no process is stuck;    *)
(*   - HistoriesWhole, if the limit is even;                               *)
(*   - ContextFresh and TurnsAppended, if users wait for each reply.       *)
(*                                                                         *)
(* The lemmas about a kind of step come in the order of the invariants;    *)
(* StepCases and the ..Facts say what a step does, once for all of them.   *)
(***************************************************************************)
EXTENDS ChatHub, SequenceTheorems, TLAPS

-----------------------------------------------------------------------------
(* A context and what add makes of it.                                     *)

\* What Trim keeps are the last MaxTurn.
LEMMA TrimFacts ==
  ASSUME NEW E, NEW h \in Seq(E)
  PROVE  /\ Trim(h) \in Seq(E)
         /\ Len(Trim(h)) = IF Len(h) <= MaxTurn THEN Len(h) ELSE MaxTurn
         /\ \A k \in 1..Len(Trim(h)) : Trim(h)[k] = h[k + (Len(h) - Len(Trim(h)))]
<1>. MaxTurn \in Nat /\ Len(h) \in Nat
  BY HubAssumption, LenProperties
<1>1. CASE Len(h) <= MaxTurn
  <2>. Trim(h) = h
    BY <1>1 DEF Trim
  <2>. QED
    BY <1>1
<1>2. CASE Len(h) > MaxTurn
  <2>. Trim(h) = SubSeq(h, Len(h) - MaxTurn + 1, Len(h))
    BY <1>2 DEF Trim
  <2>. QED
    BY <1>2, SubSeqProperties
<1>. QED
  BY <1>1, <1>2

LEMMA TurnFacts ==
  ASSUME NEW u \in Uids, NEW r \in Req, NEW from \in Robot
  PROVE  /\ Turn(u, r, from) \in Seq(Utterance)
         /\ Len(Turn(u, r, from)) = 2
         /\ Turn(u, r, from)[1] = [by |-> u, request |-> r, from |-> "user"]
         /\ Turn(u, r, from)[2] = [by |-> u, request |-> r, from |-> from]
<1>. DEFINE said   == [by |-> u, request |-> r, from |-> "user"]
            answer == [by |-> u, request |-> r, from |-> from]
<1>1. said \in Utterance /\ answer \in Utterance
  BY DEF Utterance
<1>2. Turn(u, r, from) = <<said, answer>>
  BY DEF Turn
<1>. HIDE DEF said, answer
<1>3. /\ <<said, answer>> \in Seq(Utterance) /\ Len(<<said, answer>>) = 2
      /\ <<said, answer>>[1] = said /\ <<said, answer>>[2] = answer
  BY <1>1
<1>. QED
  BY <1>2, <1>3 DEF said, answer

LEMMA AddedFacts ==
  ASSUME NEW c \in Context, NEW u \in Uids, NEW r \in Req, NEW from \in Robot
  PROVE  /\ Added(c, u, r, from) \in Context
         /\ c.history \o Turn(u, r, from) \in Seq(Utterance)
         /\ Added(c, u, r, from).history = Trim(c.history \o Turn(u, r, from))
<1>. DEFINE all == c.history \o Turn(u, r, from)
<1>1. c.history \in Seq(Utterance) /\ c.in_session \in BOOLEAN
      /\ c = [history |-> c.history, last_from |-> c.last_from, in_session |-> c.in_session]
  BY DEF Context
<1>2. all \in Seq(Utterance)
  BY <1>1, TurnFacts, ConcatProperties
<1>. HIDE DEF all
<1>3. Trim(all) \in Seq(Utterance) /\ Len(Trim(all)) <= MaxTurn
  BY <1>2, TrimFacts, HubAssumption, LenProperties
<1>. DEFINE added == [history |-> Trim(all), last_from |-> from, in_session |-> c.in_session]
<1>4. Added(c, u, r, from) = added
  BY DEF Added, all
<1>5. added \in Context /\ added.history = Trim(all)
  BY <1>1, <1>3 DEF Context
<1>. QED
  BY <1>2, <1>4, <1>5 DEF all

-----------------------------------------------------------------------------
(* Type correctness: what is recorded comes from the robot, and what the   *)
(* cache has comes from an accessor.                                       *)

Recording ==
  \A r \in Req : stage[r] \in {"add", "set"} =>
    reply[r][1].from \in Robot /\ Flags(r).use_session_manager

CachedFrom == \A q \in Queries : cache[q] # NoRecord => cache[q][1].from \in Channels

TypeInv == TypeOK /\ Recording /\ CachedFrom

Active(r) == stage[r] \notin Ended \cup {"new"}

LEMMA EmptyFacts == EmptyContext \in Context
<1>1. <<>> \in Seq(Utterance) /\ Len(<<>>) = 0 /\ 0 <= MaxTurn
  BY HubAssumption, EmptySeq
<1>. QED
  BY <1>1 DEF EmptyContext, Context

LEMMA TypeInit == Init => TypeInv
<1>. SUFFICES ASSUME Init PROVE TypeInv
  OBVIOUS
<1>1. TypeOK
  BY EmptyFacts DEF Init, TypeOK, Stages
<1>2. Recording /\ CachedFrom
  BY DEF Init, Recording, CachedFrom
<1>. QED
  BY <1>1, <1>2 DEF TypeInv

LEMMA GoToFacts ==
  ASSUME TypeOK, NEW r \in Req, Active(r), NEW s \in Stages, GoTo(r, s)
  PROVE  /\ stage' \in [Req -> Stages]
         /\ stage'[r] = s /\ \A n \in Req \ {r} : stage'[n] = stage[n]
         /\ busy' \in [Procs -> Req \cup {Nobody}]
BY DEF TypeOK, GoTo, Active

\* What add writes: into the record of the user, and where the context lives.
LEMMA AddFacts ==
  ASSUME TypeOK, NEW r \in Req, Active(r), NEW c \in Context \cup {Default},
         NEW from \in Robot, NEW fails \in BOOLEAN, add(c, r, from, fails)
  PROVE  LET new == Added(Deref(c, r), uid[r], r, from)
         IN /\ Deref(c, r) \in Context /\ new \in Context
            /\ \/ session' = [session EXCEPT ![uid[r]] = new]
               \/ fails /\ session' = session
            /\ default' = IF c = Default THEN [default EXCEPT ![proc[r]] = new] ELSE default
            /\ session' \in [Uids -> Context \cup {NoRecord}]
            /\ default' \in [Procs -> Context]
<1>. DEFINE new == Added(Deref(c, r), uid[r], r, from)
<1>1. uid[r] \in Uids /\ proc[r] \in Procs
  BY DEF TypeOK, Active
<1>2. Deref(c, r) \in Context
  BY <1>1 DEF TypeOK, Deref
<1>3. new \in Context
  BY <1>1, <1>2, AddedFacts
<1>4. /\ \/ session' = [session EXCEPT ![uid[r]] = new]
         \/ fails /\ session' = session
      /\ default' = IF c = Default THEN [default EXCEPT ![proc[r]] = new] ELSE default
  BY DEF add
<1>. HIDE DEF new
<1>5. session' \in [Uids -> Context \cup {NoRecord}] /\ default' \in [Procs -> Context]
  BY <1>1, <1>3, <1>4 DEF TypeOK
<1>. QED
  BY <1>2, <1>3, <1>4, <1>5 DEF new

LEMMA SelectedFacts ==
  ASSUME TypeOK, NEW r \in Req, Active(r), NEW slots \in Outcomes[query[r]],
         Selected(r, slots) # Raise
  PROVE  Selected(r, slots)[1].from \in Channels
BY SelectorAssumption DEF TypeOK, Active, Selected, SelectorOf

\* The beginning of a request.
LEMMA TypeStart ==
  ASSUME TypeInv, NEW r \in Req, NEW u \in Uids, NEW q \in Queries, NEW p \in Procs,
         NEW s \in Serves[p], Start(r, u, s, q, p) \/ StartFails(r, u, s, q, p)
  PROVE  TypeInv'
<1>1. /\ stage[r] = "new" /\ uid' = [uid EXCEPT ![r] = u] /\ source' = [source EXCEPT ![r] = s]
      /\ query' = [query EXCEPT ![r] = q] /\ proc' = [proc EXCEPT ![r] = p]
      /\ UNCHANGED <<reply, default, session, cache>>
  BY DEF Start, StartFails, Begin
<1>2. context' \in [Req -> Context \cup {Default}]
  BY DEF Start, StartFails, get, TypeInv, TypeOK
<1>3. /\ stage' \in [Req -> Stages] /\ stage'[r] \in {"intent", "check", "failed"}
      /\ \A n \in Req \ {r} : stage'[n] = stage[n]
      /\ busy' \in [Procs -> Req \cup {Nobody}]
  BY DEF Start, StartFails, TypeInv, TypeOK, Stages
<1>4. TypeOK'
  BY <1>1, <1>2, <1>3 DEF TypeInv, TypeOK
<1>5. Recording'
  BY <1>1, <1>3 DEF TypeInv, TypeOK, Recording, Flags
<1>6. CachedFrom'
  BY <1>1 DEF TypeInv, CachedFrom
<1>. QED
  BY <1>4, <1>5, <1>6 DEF TypeInv

\* A step that takes a request to another stage and does nothing else.
Moves(r, s) == GoTo(r, s) /\ UNCHANGED <<request, context, reply, default, session, cache>>

LEMMA TypeMoves ==
  ASSUME TypeInv, NEW r \in Req, Active(r), NEW s \in Stages \ {"new", "add", "set"}, Moves(r, s)
  PROVE  TypeInv'
<1>1. /\ stage' \in [Req -> Stages] /\ stage'[r] = s
      /\ \A n \in Req \ {r} : stage'[n] = stage[n]
      /\ busy' \in [Procs -> Req \cup {Nobody}]
  BY GoToFacts DEF Moves, TypeInv
<1>2. UNCHANGED <<uid, source, query, proc, context, reply, default, session, cache>>
  BY DEF Moves, request
<1>. QED
  BY <1>1, <1>2 DEF TypeInv, TypeOK, Recording, CachedFrom, Flags, Active

\* Those without a change of their own.
LEMMA MovesFacts ==
  ASSUME NEW r \in Req,
         \/ check_intent(r) \/ GetAgainFails(r) \/ PostReply(r)
         \/ \E recent \in BOOLEAN : AskAccessors(r, recent)
         \/ \E slots \in Outcomes[query[r]] : SelectFails(r, slots)
  PROVE  \E s \in {"check", "failed", "done", "accessors"} :
           Moves(r, s) /\ (s = "check" => stage[r] = "intent") /\ (s = "accessors" => stage[r] = "check")
BY DEF Moves, check_intent, GetAgainFails, PostReply, AskAccessors, SelectFails, Runs

\* A reply without the accessors.
AtOnce(r) ==
  \/ CheckBlacklist(r)
  \/ \E recent \in BOOLEAN : CheckWhitelist(r, recent) \/ CheckCache(r, recent)

LEMMA AtOnceFacts ==
  ASSUME TypeInv, NEW r \in Req, AtOnce(r), Active(r)
  PROVE  /\ stage[r] = "check"
         /\ \E results :
              /\ reply' = [reply EXCEPT ![r] = results] /\ results[1].from \in Robot
              /\ GoTo(r, IF Flags(r).use_session_manager THEN "add" ELSE Replied(r))
         /\ UNCHANGED <<uid, source, query, proc, context, default, session, cache>>
<1>1. CASE CheckBlacklist(r)
  BY <1>1 DEF CheckBlacklist, Runs, ReplyAtOnce, Results, Robot, request
<1>2. ASSUME NEW recent \in BOOLEAN, CheckWhitelist(r, recent)
      PROVE  /\ stage[r] = "check" /\ ReplyAtOnce(r, Results("whitelist_pattern"))
             /\ UNCHANGED <<uid, source, query, proc, context, default, session, cache>>
  BY <1>2 DEF CheckWhitelist, Runs, request
<1>3. ASSUME NEW recent \in BOOLEAN, CheckCache(r, recent)
      PROVE  /\ stage[r] = "check" /\ ReplyAtOnce(r, cache[query[r]])
             /\ cache[query[r]][1].from \in Robot
             /\ UNCHANGED <<uid, source, query, proc, context, default, session, cache>>
  BY <1>3 DEF CheckCache, Runs, request, CacheReplies, TypeInv, TypeOK, CachedFrom, Active, Robot
<1>. QED
  BY <1>1, <1>2, <1>3 DEF AtOnce, ReplyAtOnce, Results, Robot

LEMMA TypeAtOnce ==
  ASSUME TypeInv, NEW r \in Req, AtOnce(r), Active(r)
  PROVE  TypeInv'
<1>1. PICK results :
        /\ reply' = [reply EXCEPT ![r] = results] /\ results[1].from \in Robot
        /\ GoTo(r, IF Flags(r).use_session_manager THEN "add" ELSE Replied(r))
        /\ UNCHANGED <<uid, source, query, proc, context, default, session, cache>>
  BY AtOnceFacts
<1>2. PICK s \in Stages :
        GoTo(r, s) /\ s \notin {"set", "new"} /\ (s = "add" => Flags(r).use_session_manager)
  BY <1>1 DEF Stages, Replied
<1>3. /\ stage' \in [Req -> Stages] /\ stage'[r] = s
      /\ \A n \in Req \ {r} : stage'[n] = stage[n]
      /\ busy' \in [Procs -> Req \cup {Nobody}]
  BY <1>2, GoToFacts DEF TypeInv
<1>4. TypeOK'
  BY <1>1, <1>2, <1>3 DEF TypeInv, TypeOK, Active
<1>5. Recording' /\ CachedFrom'
  BY <1>1, <1>2, <1>3 DEF TypeInv, TypeOK, Recording, CachedFrom, Flags
<1>. QED
  BY <1>4, <1>5 DEF TypeInv

LEMMA TypeGetAgain ==
  ASSUME TypeInv, NEW r \in Req, GetAgain(r), Active(r)
  PROVE  TypeInv'
<1>1. /\ stage' \in [Req -> Stages] /\ stage'[r] = "set"
      /\ \A n \in Req \ {r} : stage'[n] = stage[n]
      /\ busy' \in [Procs -> Req \cup {Nobody}]
  BY GoToFacts DEF GetAgain, TypeInv, Stages
<1>2. get(uid[r]) \in Context \cup {Default}
  BY DEF get, TypeInv, TypeOK, Active
<1>3. /\ stage[r] = "add" /\ context' = [context EXCEPT ![r] = get(uid[r])]
      /\ UNCHANGED <<uid, source, query, proc, reply, default, session, cache>>
  BY DEF GetAgain, Runs, request
<1>. QED
  BY <1>1, <1>2, <1>3 DEF TypeInv, TypeOK, Recording, CachedFrom, Flags

\* A reply is recorded, from the stage "set" or behind the accessors.
LEMMA SetFacts ==
  ASSUME TypeInv, NEW r \in Req, SetSession(r), Active(r)
  PROVE  \E fails \in BOOLEAN :
           /\ stage[r] = "set" /\ reply[r][1].from \in Robot
           /\ Flags(r).use_session_manager
           /\ context[r] \in Context \cup {Default}
           /\ add(context[r], r, reply[r][1].from, fails)
           /\ GoTo(r, IF fails THEN "failed" ELSE Replied(r))
           /\ UNCHANGED <<uid, source, query, proc, context, reply, cache>>
<1>1. MayFail(r) \subseteq BOOLEAN
  BY DEF MayFail
<1>. QED
  BY <1>1 DEF SetSession, Runs, TypeInv, TypeOK, Recording, request

LEMMA TypeSetSession ==
  ASSUME TypeInv, NEW r \in Req, SetSession(r), Active(r)
  PROVE  TypeInv'
<1>1. PICK fails \in BOOLEAN :
        /\ reply[r][1].from \in Robot /\ context[r] \in Context \cup {Default}
        /\ add(context[r], r, reply[r][1].from, fails)
        /\ GoTo(r, IF fails THEN "failed" ELSE Replied(r))
        /\ UNCHANGED <<uid, source, query, proc, context, reply, cache>>
  BY SetFacts
<1>2. /\ session' \in [Uids -> Context \cup {NoRecord}]
      /\ default' \in [Procs -> Context]
  BY <1>1, AddFacts DEF TypeInv
<1>3. PICK s \in Stages : GoTo(r, s) /\ s \notin {"add", "set", "new"}
  BY <1>1 DEF Stages, Replied
<1>4. /\ stage' \in [Req -> Stages] /\ stage'[r] = s
      /\ \A n \in Req \ {r} : stage'[n] = stage[n]
      /\ busy' \in [Procs -> Req \cup {Nobody}]
  BY <1>3, GoToFacts DEF TypeInv
<1>. QED
  BY <1>1, <1>2, <1>3, <1>4 DEF TypeInv, TypeOK, Recording, CachedFrom, Flags, Active

LEMMA SelectFacts ==
  ASSUME TypeInv, NEW r \in Req, NEW slots \in Outcomes[query[r]], SelectReplies(r, slots), Active(r)
  PROVE  /\ stage[r] = "accessors"
         /\ Selected(r, slots)[1].from \in Channels
         /\ context[r] \in Context \cup {Default}
         /\ reply' = [reply EXCEPT ![r] = Selected(r, slots)]
         /\ UNCHANGED <<uid, source, query, proc, context>>
         /\ \/ cache' = cache
            \/ /\ S!should_cache(SelectorOf(r), slots)
               /\ Selected(r, slots)[1].from \in CacheConfig
               /\ cache' = [cache EXCEPT ![query[r]] = Selected(r, slots)]
         /\ \/ \E fails \in BOOLEAN :
                 /\ Flags(r).use_session_manager
                 /\ add(context[r], r, Selected(r, slots)[1].from, fails)
                 /\ GoTo(r, IF fails THEN "failed" ELSE Replied(r))
            \/ GoTo(r, Replied(r)) /\ UNCHANGED <<default, session>>
<1>1. MayFail(r) \subseteq BOOLEAN
  BY DEF MayFail
<1>2. Selected(r, slots)[1].from \in Channels
  BY SelectedFacts DEF SelectReplies, TypeInv
<1>3. /\ stage[r] = "accessors"
      /\ reply' = [reply EXCEPT ![r] = Selected(r, slots)]
      /\ UNCHANGED <<uid, source, query, proc, context>>
  BY DEF SelectReplies, Runs, request
<1>4. \/ cache' = cache
      \/ /\ S!should_cache(SelectorOf(r), slots)
         /\ Selected(r, slots)[1].from \in CacheConfig
         /\ cache' = [cache EXCEPT ![query[r]] = Selected(r, slots)]
  BY DEF SelectReplies, put
<1>5. \/ \E fails \in BOOLEAN :
           /\ Flags(r).use_session_manager
           /\ add(context[r], r, Selected(r, slots)[1].from, fails)
           /\ GoTo(r, IF fails THEN "failed" ELSE Replied(r))
      \/ GoTo(r, Replied(r)) /\ UNCHANGED <<default, session>>
  BY <1>1 DEF SelectReplies
<1>. QED
  BY <1>2, <1>3, <1>4, <1>5 DEF TypeInv, TypeOK

LEMMA TypeSelect ==
  ASSUME TypeInv, NEW r \in Req, NEW slots \in Outcomes[query[r]], SelectReplies(r, slots), Active(r)
  PROVE  TypeInv'
<1>. DEFINE from == Selected(r, slots)[1].from
<1>1. /\ from \in Channels /\ from \in Robot /\ context[r] \in Context \cup {Default}
      /\ reply' = [reply EXCEPT ![r] = Selected(r, slots)]
      /\ UNCHANGED <<uid, source, query, proc, context>>
      /\ \/ cache' = cache
         \/ cache' = [cache EXCEPT ![query[r]] = Selected(r, slots)]
  BY SelectFacts DEF Robot
<1>. HIDE DEF from
<1>2. /\ session' \in [Uids -> Context \cup {NoRecord}]
      /\ default' \in [Procs -> Context]
  <2>1. CASE GoTo(r, Replied(r)) /\ UNCHANGED <<default, session>>
    BY <2>1 DEF TypeInv, TypeOK
  <2>2. ASSUME NEW fails \in BOOLEAN, add(context[r], r, from, fails)
        PROVE  /\ session' \in [Uids -> Context \cup {NoRecord}]
               /\ default' \in [Procs -> Context]
    BY <1>1, <2>2, AddFacts DEF TypeInv
  <2>3. \/ GoTo(r, Replied(r)) /\ UNCHANGED <<default, session>>
        \/ \E fails \in BOOLEAN : add(context[r], r, from, fails)
    BY SelectFacts DEF from
  <2>. QED
    BY <2>1, <2>2, <2>3
<1>3. PICK s \in Stages : GoTo(r, s) /\ s \notin {"add", "set", "new"}
  BY SelectFacts DEF Stages, Replied
<1>4. /\ stage' \in [Req -> Stages] /\ stage'[r] = s
      /\ \A n \in Req \ {r} : stage'[n] = stage[n]
      /\ busy' \in [Procs -> Req \cup {Nobody}]
  BY <1>3, GoToFacts DEF TypeInv
<1>5. TypeOK'
  BY <1>1, <1>2, <1>3, <1>4 DEF TypeInv, TypeOK, Active
<1>6. Recording'
  BY <1>1, <1>3, <1>4 DEF TypeInv, TypeOK, Recording, Flags
<1>7. CachedFrom'
  BY <1>1 DEF TypeInv, TypeOK, CachedFrom, Active, from
<1>. QED
  BY <1>5, <1>6, <1>7 DEF TypeInv

LEMMA TypeGroupSkill ==
  ASSUME TypeInv, NEW r \in Req, GroupSkill(r), Active(r)
  PROVE  TypeInv'
<1>1. \A c \in Context : [c EXCEPT !.in_session = TRUE] \in Context
  BY DEF Context
<1>2. UNCHANGED <<stage, uid, source, query, proc, reply, busy, session, cache>>
  BY DEF GroupSkill, request
<1>3. /\ context' \in [Req -> Context \cup {Default}]
      /\ default' \in [Procs -> Context]
  <2>1. CASE context[r] = Default
    <3>1. /\ context' = context
          /\ default' = [default EXCEPT ![proc[r]] = [default[proc[r]] EXCEPT !.in_session = TRUE]]
      BY <2>1 DEF GroupSkill
    <3>. QED
      BY <1>1, <3>1 DEF TypeInv, TypeOK, Active
  <2>2. CASE context[r] # Default
    <3>1. /\ default' = default
          /\ context' = [context EXCEPT ![r] = [context[r] EXCEPT !.in_session = TRUE]]
      BY <2>2 DEF GroupSkill
    <3>. QED
      BY <1>1, <2>2, <3>1 DEF TypeInv, TypeOK
  <2>. QED
    BY <2>1, <2>2
<1>. QED
  BY <1>2, <1>3 DEF TypeInv, TypeOK, Recording, CachedFrom, Flags

LEMMA TypeSurroundings ==
  ASSUME TypeInv,
         (\E q \in Queries : Expire(q)) \/ (\E p \in Procs : Restart(p))
  PROVE  TypeInv'
<1>1. ASSUME NEW q \in Queries, Expire(q)
      PROVE  TypeInv'
  <2>1. UNCHANGED <<stage, uid, source, query, proc, context, reply, busy, default, session>>
        /\ cache' = [cache EXCEPT ![q] = NoRecord]
    BY <1>1 DEF Expire, request
  <2>. QED
    BY <2>1 DEF TypeInv, TypeOK, Recording, CachedFrom, Flags
<1>2. ASSUME NEW p \in Procs, Restart(p)
      PROVE  TypeInv'
  <2>1. /\ UNCHANGED <<uid, source, query, proc, context, reply, session, cache>>
        /\ busy' = [busy EXCEPT ![p] = Nobody]
        /\ default' = [default EXCEPT ![p] = EmptyContext]
    BY <1>2 DEF Restart, request
  <2>2. /\ stage' \in [Req -> Stages]
        /\ \A r \in Req : stage'[r] = stage[r] \/ (stage[r] # "new" /\ stage'[r] = "lost")
    BY <1>2 DEF Restart, TypeInv, TypeOK, Stages
  <2>. QED
    BY <2>1, <2>2, EmptyFacts DEF TypeInv, TypeOK, Recording, CachedFrom, Flags
<1>. QED
  BY <1>1, <1>2

\* The steps of a request, in the terms of the proofs.
LEMMA StepCases ==
  ASSUME NEW r \in Req, Step(r)
  PROVE  \/ \E s \in {"check", "failed", "done", "accessors"} :
               Moves(r, s) /\ (s = "check" => stage[r] = "intent") /\ (s = "accessors" => stage[r] = "check")
         \/ AtOnce(r) \/ GetAgain(r) \/ SetSession(r)
         \/ \E slots \in Outcomes[query[r]] : SelectReplies(r, slots)
BY MovesFacts DEF Step, AtOnce

LEMMA TypeStep == TypeInv /\ [Next]_vars => TypeInv'
<1>. SUFFICES ASSUME TypeInv, [Next]_vars PROVE TypeInv'
  OBVIOUS
<1>1. ASSUME NEW r \in Req, Step(r), Active(r)
      PROVE  TypeInv'
  <2>1. ASSUME NEW s \in {"check", "failed", "done", "accessors"}, Moves(r, s)
        PROVE  TypeInv'
    BY <1>1, <2>1, TypeMoves DEF Stages
  <2>. QED
    BY <1>1, <2>1, StepCases, TypeAtOnce, TypeGetAgain, TypeSetSession, TypeSelect
<1>2. CASE UNCHANGED vars
  BY <1>2 DEF vars, request, TypeInv, TypeOK, Recording, CachedFrom, Flags
<1>. QED
  BY <1>1, <1>2, TypeStart, TypeGroupSkill, TypeSurroundings DEF Next, Active

LEMMA TypeInvariance == Spec => []TypeInv
BY TypeInit, TypeStep, PTL DEF Spec

\* The state of the requests, the contexts, the records and the caches keeps
\* its shape, and no history exceeds the limit, whatever fails or dies.
THEOREM TypeCorrect == Spec => []TypeOK
<1>1. TypeInv => TypeOK
  BY DEF TypeInv
<1>. QED
  BY <1>1, TypeInvariance, PTL

-----------------------------------------------------------------------------
(* Whole turns.  An even limit cuts off whole turns only, and every context *)
(* a request may hold is made of whole turns, since it may be recorded.    *)

WholeInv == HistoriesWhole /\ \A r \in Req : context[r] # Default => WholeTurns(context[r])

LEMMA EvenFacts ==
  /\ \A a, b \in Nat : a % 2 = 0 /\ b % 2 = 0 /\ b <= a => a - b \in Nat /\ (a - b) % 2 = 0
  /\ \A a, k \in Nat : a % 2 = 0 => (k + a) % 2 = k % 2
  /\ \A a \in Nat : a % 2 = 0 => (a + 1) % 2 = 1 /\ (a + 2) % 2 = 0
  /\ 1 % 2 = 1
OBVIOUS

LEMMA AddedWhole ==
  ASSUME MaxTurn % 2 = 0, NEW c \in Context, WholeTurns(c),
         NEW u \in Uids, NEW r \in Req, NEW from \in Robot
  PROVE  WholeTurns(Added(c, u, r, from))
<1>. DEFINE h   == c.history
            t   == Turn(u, r, from)
            all == h \o t
            new == Trim(all)
<1>1. h \in Seq(Utterance) /\ Len(h) \in Nat /\ Len(h) % 2 = 0
  BY LenProperties DEF Context, WholeTurns
<1>2. t \in Seq(Utterance) /\ Len(t) = 2
      /\ t[1].from = "user" /\ t[2].from = from /\ t[1].request = r /\ t[2].request = r
  <2>. HIDE DEF t
  <2>1. /\ t \in Seq(Utterance) /\ Len(t) = 2
        /\ t[1] = [by |-> u, request |-> r, from |-> "user"]
        /\ t[2] = [by |-> u, request |-> r, from |-> from]
    BY TurnFacts DEF t
  <2>. QED
    BY <2>1
<1>3. all \in Seq(Utterance) /\ Len(all) = Len(h) + 2
      /\ (\A k \in 1..Len(h) : all[k] = h[k])
      /\ all[Len(h) + 1] = t[1] /\ all[Len(h) + 2] = t[2]
  <2>. HIDE DEF h, t
  <2>1. all \in Seq(Utterance) /\ Len(all) = Len(h) + Len(t)
        /\ \A k \in 1..Len(h) + Len(t) :
             all[k] = IF k <= Len(h) THEN h[k] ELSE t[k - Len(h)]
    BY <1>1, <1>2, ConcatProperties
  <2>. QED
    BY <1>1, <1>2, <2>1
<1>4. from # "user"
  BY HubAssumption DEF Robot
<1>5. \A k \in 1..Len(all) :
        IF k % 2 = 1 THEN all[k].from = "user"
        ELSE all[k].from # "user" /\ all[k].request = all[k - 1].request
  <2>1. \A k \in 1..Len(h) :
          IF k % 2 = 1 THEN h[k].from = "user"
          ELSE h[k].from # "user" /\ h[k].request = h[k - 1].request
    BY <1>1 DEF WholeTurns
  <2>. HIDE DEF h, t, all
  <2>. SUFFICES ASSUME NEW k \in 1..Len(all)
                PROVE  IF k % 2 = 1 THEN all[k].from = "user"
                       ELSE all[k].from # "user" /\ all[k].request = all[k - 1].request
    OBVIOUS
  <2>2. CASE k \in 1..Len(h)
    <3>1. k % 2 # 1 => k - 1 \in 1..Len(h)
      BY <1>1, <2>2
    <3>. QED
      BY <1>3, <2>1, <2>2, <3>1
  <2>3. CASE k = Len(h) + 1
    <3>1. k % 2 = 1
      BY <1>1, <2>3, EvenFacts
    <3>. QED
      BY <1>2, <1>3, <2>3, <3>1
  <2>4. CASE k = Len(h) + 2
    <3>1. k % 2 # 1 /\ k - 1 = Len(h) + 1
      BY <1>1, <2>4, EvenFacts
    <3>. QED
      BY <1>2, <1>3, <1>4, <2>4, <3>1
  <2>. QED
    BY <1>1, <1>3, <2>2, <2>3, <2>4
<1>6. /\ new \in Seq(Utterance)
      /\ Len(new) = IF Len(all) <= MaxTurn THEN Len(all) ELSE MaxTurn
      /\ \A k \in 1..Len(new) : new[k] = all[k + (Len(all) - Len(new))]
  <2>. HIDE DEF all
  <2>. QED
    BY <1>3, TrimFacts
<1>. HIDE DEF all, new
<1>. HIDE DEF h, t
<1>7. MaxTurn \in Nat /\ Len(all) \in Nat /\ Len(all) % 2 = 0 /\ Len(new) \in Nat
  BY <1>1, <1>3, HubAssumption, <1>6, EvenFacts, LenProperties
<1>. DEFINE cut == Len(all) - Len(new)
<1>8. Len(new) % 2 = 0 /\ cut \in Nat /\ cut % 2 = 0
      /\ \A k \in 1..Len(new) : k + cut \in 1..Len(all) /\ new[k] = all[k + cut]
  <2>1. Len(new) % 2 = 0 /\ Len(new) <= Len(all)
    <3>1. Len(new) = Len(all) \/ (Len(new) = MaxTurn /\ MaxTurn < Len(all))
      BY <1>6, <1>7
    <3>2. MaxTurn % 2 = 0
      OBVIOUS
    <3>. QED
      BY ONLY <1>7, <3>1, <3>2
  <2>2. cut \in Nat /\ cut % 2 = 0
    BY <1>7, <2>1, EvenFacts
  <2>3. \A k \in 1..Len(new) : k + cut \in 1..Len(all)
    BY <1>7, <2>1
  <2>. QED
    BY <1>6, <2>1, <2>2, <2>3
<1>. HIDE DEF cut
<1>9. ASSUME NEW k \in 1..Len(new)
      PROVE  IF k % 2 = 1 THEN new[k].from = "user"
             ELSE new[k].from # "user" /\ new[k].request = new[k - 1].request
  <2>1. k + cut \in 1..Len(all) /\ new[k] = all[k + cut]
    BY <1>8
  <2>2. (k + cut) % 2 = k % 2
    BY <1>7, <1>8, EvenFacts
  <2>3. k # 1 => k - 1 \in 1..Len(new) /\ new[k - 1] = all[(k + cut) - 1]
    <3>1. k # 1 => (k - 1) + cut = (k + cut) - 1 /\ k - 1 \in 1..Len(new)
      BY ONLY <1>7, <1>8, k \in 1..Len(new)
    <3>. QED
      BY <1>8, <3>1
  <2>. QED
    BY <1>5, <2>1, <2>2, <2>3, EvenFacts
<1>10. Added(c, u, r, from).history = new /\ DOMAIN new = 1..Len(new)
  BY <1>6, AddedFacts, LenProperties DEF new, all, h, t
<1>. QED
  BY <1>8, <1>9, <1>10 DEF WholeTurns

LEMMA EmptyWhole == WholeTurns(EmptyContext)
BY DEF WholeTurns, EmptyContext

LEMMA AddWhole ==
  ASSUME MaxTurn % 2 = 0, TypeOK, WholeInv, NEW r \in Req, Active(r),
         NEW from \in Robot, NEW fails \in BOOLEAN, add(context[r], r, from, fails),
         context' = context
  PROVE  WholeInv'
<1>. DEFINE c   == context[r]
            new == Added(Deref(c, r), uid[r], r, from)
<1>1. c \in Context \cup {Default} /\ uid[r] \in Uids /\ proc[r] \in Procs
  BY DEF TypeOK, Active
<1>2. WholeTurns(Deref(c, r))
  BY <1>1 DEF WholeInv, HistoriesWhole, Deref
<1>3. /\ Deref(c, r) \in Context
      /\ session' = session \/ session' = [session EXCEPT ![uid[r]] = new]
      /\ default' = default \/ default' = [default EXCEPT ![proc[r]] = new]
  BY <1>1, AddFacts
<1>4. WholeTurns(new)
  BY <1>1, <1>2, <1>3, AddedWhole
<1>. HIDE DEF new
<1>5. \A s \in Records' : s \in Records \/ s = new
  BY <1>1, <1>3 DEF Records, TypeOK
<1>6. HistoriesWhole'
  BY <1>1, <1>3, <1>4, <1>5 DEF WholeInv, HistoriesWhole, TypeOK
<1>. QED
  BY <1>6 DEF WholeInv

\* What is neither recorded nor a new context stays as whole as it was.
LEMMA UntouchedWhole ==
  ASSUME WholeInv, UNCHANGED <<context, default, session>>
  PROVE  WholeInv'
BY DEF WholeInv, HistoriesWhole, Records

LEMMA GetWhole ==
  ASSUME WholeInv, NEW u \in Uids
  PROVE  get(u) # Default => WholeTurns(get(u))
BY DEF WholeInv, HistoriesWhole, Records, get

LEMMA WholeStart ==
  ASSUME TypeInv, WholeInv, NEW r \in Req, NEW u \in Uids, NEW q \in Queries, NEW p \in Procs,
         NEW s \in Serves[p], Start(r, u, s, q, p) \/ StartFails(r, u, s, q, p)
  PROVE  WholeInv'
<1>1. UNCHANGED <<default, session>>
      /\ \/ context' = [context EXCEPT ![r] = get(u)]
         \/ context' = [context EXCEPT ![r] = Default]
         \/ context' = context
  BY DEF Start, StartFails, Begin
<1>2. \A n \in Req : context'[n] \in {context[n], Default} \/ context'[n] = get(u)
  BY <1>1 DEF TypeInv, TypeOK
<1>. QED
  BY <1>1, <1>2, GetWhole DEF WholeInv, HistoriesWhole, Records

LEMMA WholeGetAgain ==
  ASSUME TypeInv, WholeInv, NEW r \in Req, GetAgain(r), Active(r)
  PROVE  WholeInv'
<1>1. UNCHANGED <<default, session>> /\ context' = [context EXCEPT ![r] = get(uid[r])]
  BY DEF GetAgain
<1>2. uid[r] \in Uids /\ \A n \in Req : context'[n] = context[n] \/ context'[n] = get(uid[r])
  BY <1>1 DEF TypeInv, TypeOK, Active
<1>. QED
  BY <1>1, <1>2, GetWhole DEF WholeInv, HistoriesWhole, Records

\* GroupSkill changes a flag only.
LEMMA GroupSkillFacts ==
  ASSUME TypeOK, NEW r \in Req, GroupSkill(r), Active(r)
  PROVE  /\ UNCHANGED <<stage, uid, source, query, proc, reply, session, cache>>
         /\ \A n \in Req : /\ context'[n] = Default <=> context[n] = Default
                           /\ context[n] # Default => context'[n].history = context[n].history
         /\ \A p \in Procs : default'[p].history = default[p].history
<1>1. UNCHANGED <<stage, uid, source, query, proc, reply, session, cache>>
  BY DEF GroupSkill, request
<1>2. \A c \in Context : /\ [c EXCEPT !.in_session = TRUE] \in Context
                         /\ [c EXCEPT !.in_session = TRUE].history = c.history
  BY DEF Context
<1>3. CASE context[r] = Default
  <2>1. /\ context' = context
        /\ default' = [default EXCEPT ![proc[r]] = [default[proc[r]] EXCEPT !.in_session = TRUE]]
    BY <1>3 DEF GroupSkill
  <2>. QED
    BY <1>1, <1>2, <2>1 DEF TypeOK, Active
<1>4. CASE context[r] # Default
  <2>1. /\ default' = default
        /\ context' = [context EXCEPT ![r] = [context[r] EXCEPT !.in_session = TRUE]]
    BY <1>4 DEF GroupSkill
  <2>. QED
    BY <1>1, <1>2, <1>4, <2>1, NoContext DEF TypeOK
<1>. QED
  BY <1>3, <1>4

LEMMA WholeGroupSkill ==
  ASSUME TypeInv, WholeInv, NEW r \in Req, GroupSkill(r), Active(r)
  PROVE  WholeInv'
<1>1. \A c, d : c.history = d.history /\ WholeTurns(d) => WholeTurns(c)
  BY DEF WholeTurns
<1>2. /\ session' = session
      /\ \A n \in Req : context'[n] # Default =>
           context[n] # Default /\ context'[n].history = context[n].history
      /\ \A p \in Procs : default'[p].history = default[p].history
  BY GroupSkillFacts DEF TypeInv
<1>. QED
  BY <1>1, <1>2 DEF WholeInv, HistoriesWhole, Records

LEMMA WholeSurroundings ==
  ASSUME TypeInv, WholeInv,
         (\E q \in Queries : Expire(q)) \/ (\E p \in Procs : Restart(p))
  PROVE  WholeInv'
<1>1. UNCHANGED <<context, session>>
      /\ \/ default' = default
         \/ \E p \in Procs : default' = [default EXCEPT ![p] = EmptyContext]
  BY DEF Expire, Restart
<1>. QED
  BY <1>1, EmptyWhole DEF TypeInv, TypeOK, WholeInv, HistoriesWhole, Records

LEMMA WholeStep ==
  ASSUME MaxTurn % 2 = 0
  PROVE  TypeInv /\ WholeInv /\ [Next]_vars => WholeInv'
<1>. SUFFICES ASSUME TypeInv, WholeInv, [Next]_vars PROVE WholeInv'
  OBVIOUS
<1>1. ASSUME NEW r \in Req, Step(r), Active(r)
      PROVE  WholeInv'
  <2>1. ASSUME NEW s \in Stages, Moves(r, s)
        PROVE  WholeInv'
    BY <2>1, UntouchedWhole DEF Moves
  <2>2. CASE AtOnce(r)
    BY <1>1, <2>2, AtOnceFacts, UntouchedWhole
  <2>3. CASE SetSession(r)
    BY <1>1, <2>3, SetFacts, AddWhole DEF TypeInv
  <2>4. ASSUME NEW slots \in Outcomes[query[r]], SelectReplies(r, slots)
        PROVE  WholeInv'
    <3>1. Selected(r, slots)[1].from \in Robot /\ context' = context
          /\ \/ \E fails \in BOOLEAN : add(context[r], r, Selected(r, slots)[1].from, fails)
             \/ UNCHANGED <<default, session>>
      BY <1>1, <2>4, SelectFacts DEF Robot
    <3>. QED
      BY <1>1, <3>1, AddWhole, UntouchedWhole DEF TypeInv
  <2>. QED
    BY <1>1, <2>1, <2>2, <2>3, <2>4, StepCases, WholeGetAgain DEF Stages
<1>2. CASE UNCHANGED vars
  BY <1>2, UntouchedWhole DEF vars
<1>. QED
  BY <1>1, <1>2, WholeStart, WholeGroupSkill, WholeSurroundings DEF Next, Active

\* Every history consists of whole turns, a query and its answer, if the limit
\* on its length is even, however the requests of a worker interleave in the
\* context they share.
THEOREM HistoriesAreWhole ==
  ASSUME MaxTurn % 2 = 0
  PROVE  Spec => []HistoriesWhole
<1>1. Init => WholeInv
  BY EmptyWhole DEF Init, WholeInv, HistoriesWhole, Records
<1>2. TypeInv /\ WholeInv /\ [Next]_vars => WholeInv'
  BY WholeStep
<1>3. WholeInv => HistoriesWhole
  BY DEF WholeInv
<1>. QED
  BY <1>1, <1>2, <1>3, TypeInvariance, PTL DEF Spec

-----------------------------------------------------------------------------
(* The cache.                                                              *)

\* The one selector that lets its results be cached adds nothing of its own
\* to the first answer.
LEMMA Cacheable ==
  ASSUME NEW selector, NEW slots, S!should_cache(selector, slots)
  PROVE  S!select_results(selector, slots, "zh") = S!select_results_format(slots)
<1>1. selector = "tsinghua" /\ S!SomeAnswer(slots)
  BY DEF S!should_cache
<1>2. S!select_results_format(slots) # <<>>
  BY <1>1 DEF S!select_results_format
<1>3. S!select_results_tsinghua(slots) = S!select_results_format(slots)
  BY <1>2 DEF S!select_results_tsinghua, S!OrElse
<1>. QED
  BY <1>1, <1>3 DEF S!select_results

LEMMA CacheUntouched == CacheSound /\ UNCHANGED cache => CacheSound'
BY DEF CacheSound

LEMMA CacheStep == TypeInv /\ CacheSound /\ [Next]_vars => CacheSound'
<1>. SUFFICES ASSUME TypeInv, CacheSound, [Next]_vars PROVE CacheSound'
  OBVIOUS
<1>1. ASSUME NEW r \in Req, NEW slots \in Outcomes[query[r]], SelectReplies(r, slots), Active(r)
      PROVE  CacheSound'
  <2>1. CASE cache' = cache
    BY <2>1, CacheUntouched
  <2>2. CASE /\ S!should_cache(SelectorOf(r), slots)
             /\ Selected(r, slots)[1].from \in CacheConfig
             /\ cache' = [cache EXCEPT ![query[r]] = Selected(r, slots)]
    <3>1. Selected(r, slots) = S!select_results_format(slots)
      BY <2>2, Cacheable DEF Selected
    <3>2. query[r] \in Queries /\ DOMAIN cache = Queries
      BY <1>1 DEF TypeInv, TypeOK, Active
    <3>. QED
      BY <2>2, <3>1, <3>2 DEF CacheSound
  <2>. QED
    BY <1>1, <2>1, <2>2, SelectFacts
<1>2. ASSUME NEW r \in Req, Step(r), Active(r)
      PROVE  CacheSound'
  <2>1. ASSUME NEW s, Moves(r, s)
        PROVE  CacheSound'
    BY <2>1, CacheUntouched DEF Moves
  <2>2. CASE AtOnce(r) \/ GetAgain(r) \/ SetSession(r)
    BY <1>2, <2>2, AtOnceFacts, CacheUntouched DEF GetAgain, SetSession
  <2>. QED
    BY <1>1, <1>2, <2>1, <2>2, StepCases
<1>3. ASSUME NEW q \in Queries, Expire(q)
      PROVE  CacheSound'
  BY <1>3 DEF Expire, CacheSound, TypeInv, TypeOK
<1>4. ASSUME NEW r \in Req, NEW u \in Uids, NEW q \in Queries, NEW p \in Procs,
             NEW s \in Serves[p], Start(r, u, s, q, p) \/ StartFails(r, u, s, q, p)
      PROVE  CacheSound'
  BY <1>4, CacheUntouched DEF Start, StartFails, Begin
<1>5. ASSUME NEW r \in Req, GroupSkill(r)
      PROVE  CacheSound'
  BY <1>5, CacheUntouched DEF GroupSkill
<1>6. ASSUME NEW p \in Procs, Restart(p)
      PROVE  CacheSound'
  BY <1>6, CacheUntouched DEF Restart
<1>7. CASE UNCHANGED vars
  BY <1>7, CacheUntouched DEF vars
<1>. QED
  BY <1>2, <1>3, <1>4, <1>5, <1>6, <1>7 DEF Next, Active

\* What the cache serves is an answer of the accessors to the same query, from
\* a channel with a time to live, whatever services share it.
THEOREM CacheIsSound == Spec => []CacheSound
<1>1. Init => CacheSound
  BY DEF Init, CacheSound
<1>. QED
  BY <1>1, CacheStep, TypeInvariance, PTL DEF Spec

-----------------------------------------------------------------------------
(* The records of users who wait for each reply.                           *)

OneAtATime ==
  \A r, n \in Req : Active(r) /\ Active(n) /\ uid[r] = uid[n] => r = n

\* Users without a record have left nothing in a DEFAULT_CONTEXT but what they
\* said in requests that failed.
OnlyFailedLeft ==
  \A p \in Procs : \A k \in DOMAIN default[p].history :
    LET said == default[p].history[k]
    IN session[said.by] = NoRecord => stage[said.request] = "failed"

FreshInv == OneAtATime /\ ContextFresh /\ OnlyFailedLeft

LEMMA SaidFacts ==
  ASSUME NEW c \in Context, NEW k \in DOMAIN c.history
  PROVE  c.history[k].by \in Uids /\ c.history[k].request \in Req
<1>1. c.history \in Seq(Utterance)
  BY DEF Context
<1>2. c.history[k] \in Utterance
  BY <1>1, ElementOfSeq
<1>. QED
  BY <1>2 DEF Utterance

\* A step of r that leaves contexts and records alone.
LEMMA UntouchedFresh ==
  ASSUME TypeInv, FreshInv, NEW r \in Req, Active(r), NEW s \in Stages \ {"set"},
         s \in {"intent", "check", "accessors"} => stage[r] \in {"intent", "check", "accessors"},
         GoTo(r, s), UNCHANGED <<uid, source, query, proc, context, default, session>>
  PROVE  FreshInv'
<1>1. /\ stage'[r] = s /\ \A n \in Req \ {r} : stage'[n] = stage[n]
  BY GoToFacts DEF TypeInv
<1>2. OneAtATime'
  BY <1>1 DEF FreshInv, OneAtATime, Active
<1>3. ContextFresh'
  BY <1>1 DEF FreshInv, ContextFresh, Flags
<1>4. OnlyFailedLeft'
  <2>1. \A n \in Req : stage[n] = "failed" => stage'[n] = "failed"
    BY <1>1 DEF Active, Ended
  <2>2. \A p \in Procs : \A k \in DOMAIN default[p].history : default[p].history[k].request \in Req
    BY SaidFacts DEF TypeInv, TypeOK
  <2>. QED
    BY <2>1, <2>2 DEF FreshInv, OnlyFailedLeft
<1>. QED
  BY <1>2, <1>3, <1>4 DEF FreshInv

LEMMA FreshStart ==
  ASSUME ~Overlap, TypeInv, FreshInv,
         NEW r \in Req, NEW u \in Uids, NEW q \in Queries, NEW p \in Procs,
         NEW s \in Serves[p], Start(r, u, s, q, p) \/ StartFails(r, u, s, q, p)
  PROVE  FreshInv'
<1>1. /\ stage[r] = "new" /\ \A n \in Req : uid[n] = u => stage[n] \in Ended
      /\ uid' = [uid EXCEPT ![r] = u] /\ source' = [source EXCEPT ![r] = s]
      /\ UNCHANGED <<default, session>>
  BY DEF Start, StartFails, Begin
<1>2. /\ stage'[r] \in {"intent", "check", "failed"}
      /\ \A n \in Req \ {r} : stage'[n] = stage[n]
  BY DEF Start, StartFails, TypeInv, TypeOK
<1>3. /\ uid'[r] = u /\ source'[r] = s
      /\ \A n \in Req \ {r} : uid'[n] = uid[n] /\ source'[n] = source[n]
  BY <1>1 DEF TypeInv, TypeOK
<1>4. OneAtATime'
  BY <1>1, <1>2, <1>3 DEF FreshInv, OneAtATime, Active
<1>5. ContextFresh'
  <2>1. CASE StartFails(r, u, s, q, p)
    <3>1. stage'[r] = "failed" /\ context' = context
      BY <2>1 DEF StartFails, TypeInv, TypeOK
    <3>. QED
      BY <1>1, <1>2, <1>3, <3>1 DEF FreshInv, ContextFresh, Flags
  <2>2. CASE Start(r, u, s, q, p)
    <3>1. /\ context'[r] = IF Schedule[s].use_session_manager THEN get(u) ELSE Default
          /\ \A n \in Req \ {r} : context'[n] = context[n]
      BY <2>2 DEF Start, TypeInv, TypeOK
    <3>2. session[u] # NoRecord => get(u) # Default /\ get(u).history = session[u].history
      BY NoContext DEF get, TypeInv, TypeOK
    <3>. QED
      BY <1>1, <1>2, <1>3, <3>1, <3>2 DEF FreshInv, ContextFresh, Flags, get
  <2>. QED
    BY <2>1, <2>2
<1>6. OnlyFailedLeft'
  <2>1. \A n \in Req : stage[n] = "failed" => stage'[n] = "failed"
    BY <1>1, <1>2
  <2>. QED
    BY <1>1, <2>1, SaidFacts DEF FreshInv, OnlyFailedLeft, TypeInv, TypeOK
<1>. QED
  BY <1>4, <1>5, <1>6 DEF FreshInv

LEMMA FreshGetAgain ==
  ASSUME TypeInv, FreshInv, NEW r \in Req, GetAgain(r), Active(r)
  PROVE  FreshInv'
<1>1. /\ stage'[r] = "set" /\ \A n \in Req \ {r} : stage'[n] = stage[n]
  BY GoToFacts DEF GetAgain, TypeInv, Stages
<1>2. /\ context'[r] = get(uid[r]) /\ \A n \in Req \ {r} : context'[n] = context[n]
      /\ UNCHANGED <<uid, source, default, session>>
  BY DEF GetAgain, TypeInv, TypeOK, request
<1>3. session[uid[r]] # NoRecord =>
        get(uid[r]) # Default /\ get(uid[r]).history = session[uid[r]].history
  BY NoContext DEF get, TypeInv, TypeOK, Active
<1>4. OneAtATime'
  BY <1>1, <1>2 DEF FreshInv, OneAtATime, Active
<1>5. ContextFresh'
  BY <1>1, <1>2, <1>3 DEF FreshInv, ContextFresh, Flags, get
<1>6. OnlyFailedLeft'
  <2>1. \A n \in Req : stage[n] = "failed" => stage'[n] = "failed"
    BY <1>1 DEF Active, Ended
  <2>. QED
    BY <1>2, <2>1, SaidFacts DEF FreshInv, OnlyFailedLeft, TypeInv, TypeOK
<1>. QED
  BY <1>4, <1>5, <1>6 DEF FreshInv

\* The last two of the entries that add stores are the turn it adds; what is
\* before them was there.
LEMMA AddedEntries ==
  ASSUME NEW c \in Context, NEW u \in Uids, NEW r \in Req, NEW from \in Robot,
         NEW k \in DOMAIN Added(c, u, r, from).history
  PROVE  LET new == Added(c, u, r, from).history
         IN IF k > Len(new) - 2 THEN new[k].by = u /\ new[k].request = r
            ELSE \E j \in DOMAIN c.history : new[k] = c.history[j]
<1>. DEFINE h   == c.history
            t   == Turn(u, r, from)
            all == h \o t
            new == Trim(all)
<1>1. Added(c, u, r, from).history = new
  BY AddedFacts
<1>2. h \in Seq(Utterance) /\ Len(h) \in Nat /\ DOMAIN h = 1..Len(h)
  BY LenProperties DEF Context
<1>3. /\ t \in Seq(Utterance) /\ Len(t) = 2
      /\ \A i \in 1..2 : t[i].by = u /\ t[i].request = r
  <2>. HIDE DEF t
  <2>1. /\ t \in Seq(Utterance) /\ Len(t) = 2
        /\ t[1] = [by |-> u, request |-> r, from |-> "user"]
        /\ t[2] = [by |-> u, request |-> r, from |-> from]
    BY TurnFacts DEF t
  <2>2. \A i \in 1..2 : i = 1 \/ i = 2
    OBVIOUS
  <2>. QED
    BY <2>1, <2>2
<1>. HIDE DEF h, t
<1>4. /\ all \in Seq(Utterance) /\ Len(all) = Len(h) + 2
      /\ \A i \in 1..Len(h) + 2 : all[i] = IF i <= Len(h) THEN h[i] ELSE t[i - Len(h)]
  <2>1. /\ all \in Seq(Utterance) /\ Len(all) = Len(h) + Len(t)
        /\ \A i \in 1..Len(h) + Len(t) :
             all[i] = IF i <= Len(h) THEN h[i] ELSE t[i - Len(h)]
    BY <1>2, <1>3, ConcatProperties
  <2>. QED
    BY <1>3, <2>1
<1>. HIDE DEF all
<1>5. /\ new \in Seq(Utterance)
      /\ Len(new) = IF Len(all) <= MaxTurn THEN Len(all) ELSE MaxTurn
      /\ \A i \in 1..Len(new) : new[i] = all[i + (Len(all) - Len(new))]
  BY <1>4, TrimFacts
<1>. HIDE DEF new
<1>6. /\ MaxTurn \in Nat /\ Len(new) \in Nat /\ Len(new) <= Len(all)
      /\ k \in 1..Len(new)
  BY <1>1, <1>2, <1>4, <1>5, HubAssumption, LenProperties
<1>. DEFINE i == k + (Len(all) - Len(new))
<1>7. i \in 1..Len(h) + 2 /\ new[k] = all[i] /\ (k > Len(new) - 2 <=> i > Len(h))
  <2>1. new[k] = all[i]
    BY <1>5, <1>6
  <2>2. Len(all) = Len(h) + 2
    BY <1>4
  <2>3. i \in 1..Len(h) + 2 /\ (k > Len(new) - 2 <=> i > Len(h))
    BY ONLY <1>2, <1>6, <2>2
  <2>. QED
    BY <2>1, <2>3
<1>. HIDE DEF i
<1>8. CASE i > Len(h)
  <2>1. i - Len(h) \in 1..2
    BY <1>2, <1>7, <1>8
  <2>. QED
    BY <1>1, <1>2, <1>3, <1>4, <1>7, <1>8, <2>1
<1>9. CASE i <= Len(h)
  <2>1. i \in DOMAIN h /\ new[k] = h[i]
    BY <1>2, <1>4, <1>7, <1>9
  <2>. QED
    BY <1>1, <1>2, <1>7, <1>9, <2>1 DEF h
<1>. QED
  BY <1>2, <1>7, <1>8, <1>9

\* A reply is recorded, or the attempt fails.
Recorded(r, from, fails) ==
  /\ stage[r] \in {"set", "accessors"} /\ Flags(r).use_session_manager
  /\ add(context[r], r, from, fails)
  /\ GoTo(r, IF fails THEN "failed" ELSE Replied(r))
  /\ UNCHANGED <<uid, source, query, proc, context>>

\* add in the terms of the context that is recorded.
LEMMA RecordedFacts ==
  ASSUME TypeInv, FreshInv, NEW r \in Req, Active(r), NEW from \in Robot, NEW fails \in BOOLEAN,
         Recorded(r, from, fails)
  PROVE  \E c, new \in Context :
           /\ c = Deref(context[r], r) /\ new = Added(c, uid[r], r, from)
           /\ uid[r] \in Uids /\ proc[r] \in Procs
           /\ IF session[uid[r]] = NoRecord
              THEN context[r] = Default /\ c = default[proc[r]]
              ELSE context[r] # Default /\ c.history = session[uid[r]].history
           /\ \/ session' = [session EXCEPT ![uid[r]] = new]
              \/ fails /\ session' = session
           /\ default' = IF context[r] = Default THEN [default EXCEPT ![proc[r]] = new] ELSE default
           /\ stage'[r] \in {"failed", "callback", "done"} /\ (fails => stage'[r] = "failed")
           /\ \A n \in Req \ {r} : stage'[n] = stage[n]
<1>. DEFINE c   == Deref(context[r], r)
            new == Added(c, uid[r], r, from)
<1>1. context[r] \in Context \cup {Default} /\ uid[r] \in Uids /\ proc[r] \in Procs
  BY DEF TypeInv, TypeOK, Active
<1>2. /\ c \in Context /\ new \in Context
      /\ \/ session' = [session EXCEPT ![uid[r]] = new]
         \/ fails /\ session' = session
      /\ default' = IF context[r] = Default THEN [default EXCEPT ![proc[r]] = new] ELSE default
  BY <1>1, AddFacts DEF Recorded, TypeInv
<1>3. IF session[uid[r]] = NoRecord
      THEN context[r] = Default /\ c = default[proc[r]]
      ELSE context[r] # Default /\ c.history = session[uid[r]].history
  BY DEF FreshInv, ContextFresh, Recorded, Deref
<1>4. /\ stage'[r] \in {"failed", "callback", "done"} /\ (fails => stage'[r] = "failed")
      /\ \A n \in Req \ {r} : stage'[n] = stage[n]
  BY GoToFacts DEF Recorded, TypeInv, Stages, Replied
<1>. HIDE DEF new, c
<1>. QED
  BY <1>1, <1>2, <1>3, <1>4 DEF new, c

LEMMA FreshRecorded ==
  ASSUME TypeInv, FreshInv, NEW r \in Req, Active(r), NEW from \in Robot, NEW fails \in BOOLEAN,
         Recorded(r, from, fails)
  PROVE  FreshInv'
<1>1. PICK c, new \in Context :
        /\ c = Deref(context[r], r) /\ new = Added(c, uid[r], r, from)
        /\ uid[r] \in Uids /\ proc[r] \in Procs
        /\ IF session[uid[r]] = NoRecord
           THEN context[r] = Default /\ c = default[proc[r]]
           ELSE context[r] # Default /\ c.history = session[uid[r]].history
        /\ \/ session' = [session EXCEPT ![uid[r]] = new]
           \/ fails /\ session' = session
        /\ default' = IF context[r] = Default THEN [default EXCEPT ![proc[r]] = new] ELSE default
        /\ stage'[r] \in {"failed", "callback", "done"} /\ (fails => stage'[r] = "failed")
        /\ \A n \in Req \ {r} : stage'[n] = stage[n]
  BY RecordedFacts
<1>2. UNCHANGED <<uid, source, context>>
  BY DEF Recorded
<1>3. OneAtATime'
  BY <1>1, <1>2 DEF FreshInv, OneAtATime, Active, Ended
<1>4. \A n \in Req \ {r} : Active(n) => uid[n] # uid[r]
  BY DEF FreshInv, OneAtATime
<1>5. \A u \in Uids : u # uid[r] => session'[u] = session[u]
  BY <1>1 DEF TypeInv, TypeOK
<1>6. ContextFresh'
  <2>. SUFFICES ASSUME NEW n \in Req, (stage[n] \in {"intent", "check", "accessors", "set"})',
                       Flags(n).use_session_manager'
                PROVE  (IF session[uid[n]] = NoRecord THEN context[n] = Default
                        ELSE context[n] # Default /\ context[n].history = session[uid[n]].history)'
    BY DEF ContextFresh
  <2>1. n # r /\ stage'[n] = stage[n] /\ Active(n) /\ uid[n] \in Uids
    BY <1>1 DEF Active, Ended, TypeInv, TypeOK
  <2>2. session'[uid[n]] = session[uid[n]] /\ Flags(n).use_session_manager
    BY <1>2, <1>4, <1>5, <2>1 DEF Flags
  <2>. QED
    BY <1>2, <2>1, <2>2 DEF FreshInv, ContextFresh
<1>7. OnlyFailedLeft'
  <2>1. \A n \in Req : stage[n] = "failed" => stage'[n] = "failed"
    BY <1>1 DEF Active, Ended
  <2>2. \A u \in Uids : session'[u] = NoRecord => session[u] = NoRecord
    BY <1>1, <1>5, NoContext DEF TypeInv, TypeOK
  <2>3. ASSUME NEW p \in Procs, NEW k \in DOMAIN default[p].history,
               session'[default[p].history[k].by] = NoRecord
        PROVE  stage'[default[p].history[k].request] = "failed"
    BY <2>1, <2>2, <2>3, SaidFacts DEF FreshInv, OnlyFailedLeft, TypeInv, TypeOK
  <2>4. ASSUME context[r] = Default, NEW k \in DOMAIN new.history,
               session'[new.history[k].by] = NoRecord
        PROVE  stage'[new.history[k].request] = "failed"
    <3>1. CASE new.history[k].by = uid[r] /\ new.history[k].request = r
      BY <1>1, <2>4, <3>1, NoContext DEF TypeInv, TypeOK
    <3>2. ASSUME NEW j \in DOMAIN c.history, new.history[k] = c.history[j]
          PROVE  stage'[new.history[k].request] = "failed"
      <4>1. c = default[proc[r]]
        BY <1>1, <2>4
      <4>. QED
        BY <1>1, <2>3, <2>4, <3>2, <4>1
    <3>. QED
      BY <1>1, <3>1, <3>2, AddedEntries
  <2>5. \A p \in Procs : default'[p] = default[p] \/ (context[r] = Default /\ default'[p] = new)
    BY <1>1 DEF TypeInv, TypeOK
  <2>. QED
    BY <2>3, <2>4, <2>5 DEF OnlyFailedLeft
<1>. QED
  BY <1>3, <1>6, <1>7 DEF FreshInv

LEMMA TurnsRecorded ==
  ASSUME TypeInv, FreshInv, NEW r \in Req, Active(r), NEW from \in Robot, NEW fails \in BOOLEAN,
         Recorded(r, from, fails), reply'[r][1].from = from,
         NEW u \in Uids, session'[u] # session[u]
  PROVE  TurnAppended(u)
<1>1. PICK c, new \in Context :
        /\ c = Deref(context[r], r) /\ new = Added(c, uid[r], r, from)
        /\ uid[r] \in Uids /\ proc[r] \in Procs
        /\ IF session[uid[r]] = NoRecord
           THEN context[r] = Default /\ c = default[proc[r]]
           ELSE context[r] # Default /\ c.history = session[uid[r]].history
        /\ \/ session' = [session EXCEPT ![uid[r]] = new]
           \/ fails /\ session' = session
        /\ stage'[r] \in {"failed", "callback", "done"}
  BY RecordedFacts
<1>2. u = uid[r] /\ session'[u] = new
  BY <1>1 DEF TypeInv, TypeOK
<1>3. stage[r] \in {"set", "accessors"} /\ stage'[r] # stage[r]
  BY <1>1 DEF Recorded
<1>4. CASE session[u] # NoRecord
  <2>1. new.history = Trim(session[u].history \o Turn(u, r, from))
    BY <1>1, <1>2, <1>4, AddedFacts
  <2>. QED
    BY <1>2, <1>3, <1>4, <2>1 DEF TurnAppended
<1>5. CASE session[u] = NoRecord
  <2>1. ASSUME NEW k \in DOMAIN new.history, ~(k > Len(new.history) - 2), new.history[k].by = u
        PROVE  stage[new.history[k].request] = "failed"
    <3>1. PICK j \in DOMAIN c.history : new.history[k] = c.history[j]
      BY <1>1, <2>1, AddedEntries
    <3>2. c = default[proc[r]]
      BY <1>1, <1>2, <1>5
    <3>. QED
      BY <1>1, <1>5, <2>1, <3>1, <3>2 DEF FreshInv, OnlyFailedLeft
  <2>2. ASSUME NEW k \in DOMAIN new.history, k > Len(new.history) - 2
        PROVE  new.history[k].by = u /\ new.history[k].request = r
    BY <1>1, <1>2, <2>2, AddedEntries
  <2>. QED
    BY <1>2, <1>3, <1>5, <2>1, <2>2 DEF TurnAppended
<1>. QED
  BY <1>4, <1>5

LEMMA FreshGroupSkill ==
  ASSUME TypeInv, FreshInv, NEW r \in Req, GroupSkill(r), Active(r)
  PROVE  FreshInv'
<1>1. /\ UNCHANGED <<stage, uid, source, query, proc, reply, session, cache>>
      /\ \A n \in Req : /\ context'[n] = Default <=> context[n] = Default
                        /\ context[n] # Default => context'[n].history = context[n].history
      /\ \A p \in Procs : default'[p].history = default[p].history
  BY GroupSkillFacts DEF TypeInv
<1>2. OneAtATime'
  BY <1>1 DEF FreshInv, OneAtATime, Active
<1>3. ContextFresh'
  BY <1>1 DEF FreshInv, ContextFresh, Flags
<1>4. OnlyFailedLeft'
  BY <1>1 DEF FreshInv, OnlyFailedLeft
<1>. QED
  BY <1>2, <1>3, <1>4 DEF FreshInv

LEMMA FreshRestart ==
  ASSUME TypeInv, FreshInv, NEW p \in Procs, Restart(p)
  PROVE  FreshInv'
<1>1. /\ UNCHANGED <<uid, source, context, session>>
      /\ \A o \in Procs : default'[o] = default[o] \/ default'[o] = EmptyContext
      /\ \A r \in Req : stage'[r] = stage[r] \/ (Active(r) /\ stage'[r] = "lost")
  BY DEF Restart, request, TypeInv, TypeOK, Active
<1>2. OneAtATime'
  BY <1>1 DEF FreshInv, OneAtATime, Active, Ended
<1>3. ContextFresh'
  BY <1>1 DEF FreshInv, ContextFresh, Flags
<1>4. OnlyFailedLeft'
  <2>1. \A n \in Req : stage[n] = "failed" => stage'[n] = "failed"
    BY <1>1 DEF Active, Ended
  <2>2. DOMAIN EmptyContext.history = {}
    BY DEF EmptyContext
  <2>. QED
    BY <1>1, <2>1, <2>2, SaidFacts DEF FreshInv, OnlyFailedLeft, TypeInv, TypeOK
<1>. QED
  BY <1>2, <1>3, <1>4 DEF FreshInv

\* A request that records its reply.
LEMMA RecordingSteps ==
  ASSUME TypeInv, NEW r \in Req, Active(r),
         SetSession(r) \/ \E slots \in Outcomes[query[r]] : SelectReplies(r, slots)
  PROVE  \/ \E from \in Robot, fails \in BOOLEAN : Recorded(r, from, fails) /\ reply'[r][1].from = from
         \/ /\ stage[r] = "accessors" /\ GoTo(r, Replied(r))
            /\ UNCHANGED <<uid, source, query, proc, context, default, session>>
<1>1. CASE SetSession(r)
  BY <1>1, SetFacts DEF Recorded
<1>2. ASSUME NEW slots \in Outcomes[query[r]], SelectReplies(r, slots)
      PROVE  \/ \E fails \in BOOLEAN : Recorded(r, Selected(r, slots)[1].from, fails)
             \/ /\ stage[r] = "accessors" /\ GoTo(r, Replied(r))
                /\ UNCHANGED <<uid, source, query, proc, context, default, session>>
  BY <1>2, SelectFacts DEF Recorded
<1>3. ASSUME NEW slots \in Outcomes[query[r]], SelectReplies(r, slots)
      PROVE  /\ Selected(r, slots)[1].from \in Robot
             /\ reply'[r][1].from = Selected(r, slots)[1].from
  BY <1>3, SelectFacts DEF Robot, TypeInv, TypeOK
<1>. QED
  BY <1>1, <1>2, <1>3

LEMMA FreshStep ==
  ASSUME ~Overlap
  PROVE  TypeInv /\ FreshInv /\ [Next]_vars => FreshInv'
<1>. SUFFICES ASSUME TypeInv, FreshInv, [Next]_vars PROVE FreshInv'
  OBVIOUS
<1>1. ASSUME NEW r \in Req, Step(r), Active(r)
      PROVE  FreshInv'
  <2>1. ASSUME NEW s \in {"check", "failed", "done", "accessors"}, Moves(r, s),
               s = "check" => stage[r] = "intent", s = "accessors" => stage[r] = "check"
        PROVE  FreshInv'
    BY <1>1, <2>1, UntouchedFresh DEF Moves, request, Stages
  <2>2. CASE AtOnce(r)
    <3>1. \E s \in {"add", "callback", "done"} : GoTo(r, s)
      BY <1>1, <2>2, AtOnceFacts DEF Replied
    <3>2. UNCHANGED <<uid, source, query, proc, context, default, session>>
      BY <1>1, <2>2, AtOnceFacts
    <3>. QED
      BY <1>1, <3>1, <3>2, UntouchedFresh DEF Stages
  <2>3. CASE SetSession(r) \/ \E slots \in Outcomes[query[r]] : SelectReplies(r, slots)
    <3>1. CASE \E from \in Robot, fails \in BOOLEAN : Recorded(r, from, fails)
      BY <1>1, <3>1, FreshRecorded
    <3>2. CASE /\ GoTo(r, Replied(r))
               /\ UNCHANGED <<uid, source, query, proc, context, default, session>>
      BY <1>1, <3>2, UntouchedFresh DEF Replied, Stages
    <3>. QED
      BY <1>1, <2>3, <3>1, <3>2, RecordingSteps
  <2>. QED
    BY <1>1, <2>1, <2>2, <2>3, StepCases, FreshGetAgain
<1>2. ASSUME UNCHANGED <<stage, uid, source, context, default, session>>
      PROVE  FreshInv'
  BY <1>2 DEF FreshInv, OneAtATime, ContextFresh, OnlyFailedLeft, Active, Flags
<1>3. ASSUME NEW q \in Queries, Expire(q)
      PROVE  FreshInv'
  BY <1>2, <1>3 DEF Expire, request
<1>4. CASE UNCHANGED vars
  BY <1>2, <1>4 DEF vars, request
<1>. QED
  BY <1>1, <1>3, <1>4, FreshStart, FreshGroupSkill, FreshRestart DEF Next, Active

LEMMA FreshInvariance ==
  ASSUME ~Overlap
  PROVE  Spec => []FreshInv
<1>1. Init => FreshInv
  <2>1. DOMAIN EmptyContext.history = {}
    BY DEF EmptyContext
  <2>. QED
    BY <2>1 DEF Init, FreshInv, OneAtATime, ContextFresh, OnlyFailedLeft, Active
<1>2. TypeInv /\ FreshInv /\ [Next]_vars => FreshInv'
  BY FreshStep
<1>. QED
  BY <1>1, <1>2, TypeInvariance, PTL DEF Spec

\* The context that a user who waits for each reply is answered in is the one
\* on record, whoever else is served meanwhile, and by whichever worker.
THEOREM ContextIsFresh ==
  ASSUME ~Overlap
  PROVE  Spec => []ContextFresh
<1>1. FreshInv => ContextFresh
  BY DEF FreshInv
<1>. QED
  BY <1>1, FreshInvariance, PTL

LEMMA TurnsStep ==
  TypeInv /\ FreshInv /\ [Next]_vars =>
    [\A u \in Uids : session'[u] # session[u] => TurnAppended(u)]_vars
<1>. SUFFICES ASSUME TypeInv, FreshInv, Next, NEW u \in Uids, session'[u] # session[u]
              PROVE  TurnAppended(u)
  OBVIOUS
<1>1. PICK r \in Req : Step(r) /\ Active(r)
  <2>1. session' # session
    OBVIOUS
  <2>2. ASSUME NEW r \in Req, NEW v \in Uids, NEW q \in Queries, NEW p \in Procs, NEW s \in Serves[p],
               Start(r, v, s, q, p) \/ StartFails(r, v, s, q, p)
        PROVE  session' = session
    BY <2>2 DEF Start, StartFails, Begin
  <2>3. ASSUME NEW r \in Req, GroupSkill(r)
        PROVE  session' = session
    BY <2>3 DEF GroupSkill
  <2>4. (\E q \in Queries : Expire(q)) \/ (\E p \in Procs : Restart(p)) => session' = session
    BY DEF Expire, Restart
  <2>. QED
    BY <2>1, <2>2, <2>3, <2>4 DEF Next, Active
<1>2. SetSession(r) \/ \E slots \in Outcomes[query[r]] : SelectReplies(r, slots)
  BY <1>1, StepCases, AtOnceFacts DEF Moves, GetAgain
<1>3. PICK from \in Robot, fails \in BOOLEAN : Recorded(r, from, fails) /\ reply'[r][1].from = from
  BY <1>1, <1>2, RecordingSteps
<1>. QED
  BY <1>1, <1>3, TurnsRecorded

\* When users wait for each reply, a record changes only by one turn of its
\* user being added, whatever fails: no turn that was recorded is lost, and no
\* other user's gets in once there is a record.
THEOREM TurnsAreAppended ==
  ASSUME ~Overlap
  PROVE  Spec => TurnsAppended
<1>1. Spec => []FreshInv
  BY FreshInvariance
<1>. QED
  BY <1>1, TypeInvariance, TurnsStep, PTL DEF Spec, TurnsAppended

-----------------------------------------------------------------------------
(* Nobody is in the way.                                                   *)

\* A request that is between two calls to redis has its process to itself,
\* and a process is busy only with a request of its own that is there.
GoesOn ==
  /\ \A p \in Procs : busy[p] # Nobody =>
       proc[busy[p]] = p /\ stage[busy[p]] \in {"check", "add", "set"}
  /\ \A r \in Req : stage[r] \in {"check", "add", "set"} => busy[proc[r]] = r

LEMMA GoesOnInit == Init => GoesOn
BY DEF Init, GoesOn

\* Every step of a request is one of a process that is free or busy with it,
\* and ends where the request gives way or the process is busy with it.
LEMMA StepGoesTo ==
  ASSUME NEW r \in Req, Step(r)
  PROVE  /\ busy[proc[r]] \in {r, Nobody} /\ UNCHANGED proc
         /\ \E s \in Stages : GoTo(r, s)
<1>1. ASSUME GetAgain(r) \/ GetAgainFails(r) \/ PostReply(r) \/ check_intent(r)
      PROVE  /\ busy[proc[r]] \in {r, Nobody} /\ UNCHANGED proc
             /\ \E s \in Stages : GoTo(r, s)
  BY <1>1 DEF GetAgain, GetAgainFails, PostReply, check_intent, Runs, request, Stages
<1>2. ASSUME \/ CheckBlacklist(r)
             \/ \E recent \in BOOLEAN :
                  CheckWhitelist(r, recent) \/ CheckCache(r, recent) \/ AskAccessors(r, recent)
      PROVE  /\ busy[proc[r]] \in {r, Nobody} /\ UNCHANGED proc
             /\ \E s \in Stages : GoTo(r, s)
  <2>1. "add" \in Stages /\ Replied(r) \in Stages /\ "accessors" \in Stages
    BY DEF Stages, Replied
  <2>. QED
    BY <1>2, <2>1 DEF CheckBlacklist, CheckWhitelist, CheckCache, AskAccessors, Runs, ReplyAtOnce, request
<1>3. ASSUME SetSession(r)
      PROVE  /\ busy[proc[r]] \in {r, Nobody} /\ UNCHANGED proc
             /\ \E s \in Stages : GoTo(r, s)
  <2>1. "failed" \in Stages /\ Replied(r) \in Stages
    BY DEF Stages, Replied
  <2>. QED
    BY <1>3, <2>1 DEF SetSession, Runs, request
<1>4. ASSUME NEW slots \in Outcomes[query[r]], SelectFails(r, slots) \/ SelectReplies(r, slots)
      PROVE  /\ busy[proc[r]] \in {r, Nobody} /\ UNCHANGED proc
             /\ \E s \in Stages : GoTo(r, s)
  <2>1. "failed" \in Stages /\ Replied(r) \in Stages
    BY DEF Stages, Replied
  <2>. QED
    BY <1>4, <2>1 DEF SelectFails, SelectReplies, Runs, request
<1>. QED
  BY <1>1, <1>2, <1>3, <1>4 DEF Step

LEMMA GoesOnStep == TypeInv /\ GoesOn /\ [Next]_vars => GoesOn'
<1>. SUFFICES ASSUME TypeInv, GoesOn, [Next]_vars PROVE GoesOn'
  OBVIOUS
<1>0. Nobody \notin Req
  BY HubAssumption DEF Req
<1>1. ASSUME NEW r \in Req, Step(r), Active(r)
      PROVE  GoesOn'
  <2>1. PICK s \in Stages : GoTo(r, s)
    BY <1>1, StepGoesTo
  <2>2. /\ busy[proc[r]] \in {r, Nobody} /\ proc[r] \in Procs
        /\ stage'[r] = s /\ \A n \in Req \ {r} : stage'[n] = stage[n]
        /\ UNCHANGED proc
    BY <1>1, <2>1, StepGoesTo, GoToFacts DEF TypeInv, TypeOK, Active
  <2>3. /\ busy'[proc[r]] = (IF s \in {"check", "add", "set"} THEN r ELSE Nobody)
        /\ \A p \in Procs \ {proc[r]} : busy'[p] = busy[p]
    BY <2>1, <2>2 DEF GoTo, TypeInv, TypeOK
  <2>4. \A n \in Req \ {r} : stage[n] \in {"check", "add", "set"} => proc[n] # proc[r] /\ proc[n] \in Procs
    BY <1>0, <2>2 DEF GoesOn, TypeInv, TypeOK
  <2>5. \A n \in Req : stage'[n] \in {"check", "add", "set"} => busy'[proc'[n]] = n
    BY <2>2, <2>3, <2>4 DEF GoesOn
  <2>6. \A p \in Procs \ {proc[r]} : busy'[p] # Nobody => busy[p] \in Req \ {r}
    BY <2>3 DEF GoesOn, TypeInv, TypeOK
  <2>7. \A p \in Procs : busy'[p] # Nobody =>
          proc'[busy'[p]] = p /\ stage'[busy'[p]] \in {"check", "add", "set"}
    BY <2>2, <2>3, <2>6 DEF GoesOn
  <2>. QED
    BY <2>5, <2>7 DEF GoesOn
<1>2. ASSUME NEW r \in Req, NEW u \in Uids, NEW q \in Queries, NEW p \in Procs, NEW s \in Serves[p],
             Start(r, u, s, q, p) \/ StartFails(r, u, s, q, p)
      PROVE  GoesOn'
  <2>1. /\ stage[r] = "new" /\ busy[p] = Nobody
        /\ proc'[r] = p /\ \A n \in Req \ {r} : proc'[n] = proc[n] /\ stage'[n] = stage[n]
        /\ \/ stage'[r] = "check" /\ busy' = [busy EXCEPT ![p] = r]
           \/ stage'[r] \in {"intent", "failed"} /\ UNCHANGED busy
    BY <1>2 DEF Start, StartFails, Begin, TypeInv, TypeOK
  <2>2. \A n \in Req \ {r} : stage[n] \in {"check", "add", "set"} => proc[n] # p /\ proc[n] \in Procs
    BY <1>0, <2>1 DEF GoesOn, TypeInv, TypeOK
  <2>3. \A o \in Procs : busy[o] # Nobody => busy[o] \in Req \ {r} /\ o # p
    BY <2>1 DEF GoesOn, TypeInv, TypeOK
  <2>. QED
    BY <1>0, <2>1, <2>2, <2>3 DEF GoesOn, TypeInv, TypeOK
<1>3. ASSUME NEW p \in Procs, Restart(p)
      PROVE  GoesOn'
  <2>1. /\ UNCHANGED proc /\ busy'[p] = Nobody /\ \A o \in Procs \ {p} : busy'[o] = busy[o]
        /\ \A r \in Req : stage'[r] = IF Active(r) /\ proc[r] = p THEN "lost" ELSE stage[r]
    BY <1>3 DEF Restart, request, TypeInv, TypeOK, Active
  <2>2. \A r \in Req : stage[r] \in {"check", "add", "set"} => Active(r) /\ proc[r] \in Procs
    BY DEF Active, Ended, TypeInv, TypeOK
  <2>3. \A r \in Req : stage'[r] \in {"check", "add", "set"} => busy'[proc'[r]] = r
    BY <2>1, <2>2 DEF GoesOn
  <2>4. \A o \in Procs : busy'[o] # Nobody =>
          proc'[busy'[o]] = o /\ stage'[busy'[o]] \in {"check", "add", "set"}
    BY <2>1 DEF GoesOn, TypeInv, TypeOK
  <2>. QED
    BY <2>3, <2>4 DEF GoesOn
<1>4. ASSUME UNCHANGED <<stage, proc, busy>>
      PROVE  GoesOn'
  BY <1>4 DEF GoesOn
<1>5. ASSUME NEW r \in Req, GroupSkill(r)
      PROVE  GoesOn'
  BY <1>4, <1>5 DEF GroupSkill, request
<1>6. ASSUME NEW q \in Queries, Expire(q)
      PROVE  GoesOn'
  BY <1>4, <1>6 DEF Expire, request
<1>7. CASE UNCHANGED vars
  BY <1>4, <1>7 DEF vars, request
<1>. QED
  BY <1>1, <1>2, <1>3, <1>5, <1>6, <1>7 DEF Next, Active

\* However many requests share a process, none is in the way of another for
\* good: who has called redis is the one the process is busy with, and a
\* process that is not free is busy with a request that can go on (GoesOn).
\* With this a request that began always has a step to take once its process
\* is free, which is what EveryRequestEnds rests on.
THEOREM NoProcessStuck == Spec => []GoesOn
BY TypeInvariance, GoesOnInit, GoesOnStep, PTL DEF Spec
=============================================================================
