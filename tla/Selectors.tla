------------------------------ MODULE Selectors ------------------------------
(***************************************************************************)
(* The select_results methods of the handlers: from the slots of all the   *)
(* accessors, in priority order, to the list of results that becomes the   *)
(* reply.  None and the empty list are skipped alike by every selector, so *)
(* a selector may run while lower-priority accessors are still at work.    *)
(* An answer drawn with random.choice from a list of default answers is    *)
(* the single value DefaultAnswer.                                         *)
(***************************************************************************)
EXTENDS AccessorResults, SequencesExt

CONSTANT DefaultAnswer

\* The loop over the accessors breaks at the first of these positions.
First(positions) == CHOOSE a \in positions : \A b \in positions : a <= b

\* The highest-priority accessor that has an answer, when there is one.
Best(acc_results) == First({a \in DOMAIN acc_results : Answered(acc_results[a])})

FirstAnswer(list) ==
  list[CHOOSE k \in DOMAIN list :
         HasAnswer(list[k]) /\ \A j \in 1..(k - 1) : ~HasAnswer(list[j])]

SomeAnswer(acc_results) == \E a \in DOMAIN acc_results : Answered(acc_results[a])

Fallback(answer, from) == <<[answer |-> answer, from |-> from, ugc |-> TRUE, level |-> 0]>>

OrElse(ret, fallback) == IF ret = <<>> THEN fallback ELSE ret

\* IntegratedHandler, source wenda or samsung; SamsungHandler.
select_results_format(acc_results) ==
  IF SomeAnswer(acc_results)
  THEN <<FirstAnswer(acc_results[Best(acc_results)])>>
  ELSE <<>>

\* IntegratedHandler, most sources; WechatHandler.
select_results_format_default(acc_results) ==
  OrElse(select_results_format(acc_results), Fallback(DefaultAnswer, "default"))

\* TsinghuaHandler
select_results_tsinghua(acc_results) ==
  OrElse(select_results_format(acc_results), Fallback(DefaultAnswer, "default"))

select_results_format_aiplatform(acc_results) ==
  OrElse(select_results_format(acc_results), Fallback(DefaultAnswer, "default"))

select_results_format_afanti(acc_results) ==
  OrElse(select_results_format(acc_results), Fallback(NoAnswer, "empty"))

\* A user-generated answer of web_search yields to a qrobot answer of level
\* 1 or 2; nothing else is reconsidered.  Written for the one source that
\* uses it, where qrobot alone comes after web_search.
select_results_format_qcloud(acc_results) ==
  LET first  == FirstAnswer(acc_results[Best(acc_results)])
      Better == {a \in DOMAIN acc_results :
                   /\ a > Best(acc_results)
                   /\ ~Missing(acc_results[a])
                   /\ acc_results[a][1].from = "qrobot"
                   /\ HasAnswer(acc_results[a][1])
                   /\ acc_results[a][1].level <= 2}
  IN IF ~SomeAnswer(acc_results) THEN Fallback(NoAnswer, "empty")
     ELSE IF first.from = "web_search" /\ first.ugc /\ Better # {}
     THEN <<acc_results[CHOOSE a \in Better : TRUE][1]>>
     ELSE <<first>>

\* weimi: the answers of one accessor.  weimi_order answers are all taken,
\* two of weimi_faq, one of any other channel; the category "OP" is never
\* taken itself but replaces a user-generated answer of web_search.
IsOP(r) == r.from = "weimi_category" /\ r.answer = "OP"

WeimiStops(list, k) ==
  /\ HasAnswer(list[k]) /\ ~IsOP(list[k]) /\ list[k].from # "weimi_order"
  /\ list[k].from = "weimi_faq" =>
       \E j \in 1..(k - 1) : HasAnswer(list[j]) /\ list[j].from = "weimi_faq"

WeimiTakes(list) ==
  LET upTo == SelectInSeq([k \in DOMAIN list |-> WeimiStops(list, k)], LAMBDA b : b)
      seen == IF upTo = 0 THEN list ELSE SubSeq(list, 1, upTo)
  IN SelectSeq(seen, LAMBDA r : HasAnswer(r) /\ ~IsOP(r))

select_results_format_weimi(acc_results) ==
  LET a   == First({b \in DOMAIN acc_results : WeimiTakes(acc_results[b]) # <<>>})
      ops == SelectSeq(FlattenSeq(SubSeq(acc_results, 1, a)), IsOP)
      Put(r) == IF r.from = "web_search" /\ r.ugc /\ ops # <<>> THEN ops[1] ELSE r
  IN IF \A b \in DOMAIN acc_results : WeimiTakes(acc_results[b]) = <<>>
     THEN Fallback(DefaultAnswer, "default")
     ELSE LET taken == WeimiTakes(acc_results[a])
          IN [k \in DOMAIN taken |-> Put(taken[k])]

\* show: every distinct answer, in priority order; a list is left as soon as
\* it has given two answers of retrieve.  With no answer at all, the default
\* one in English; in any other language the misspelt name `andom` raises.
NewTo(list, r) == \A k \in DOMAIN list : list[k].answer # r.answer

TwoOfRetrieve(list) ==
  \E j, k \in DOMAIN list : j # k /\ list[j].from = "retrieve" /\ list[k].from = "retrieve"

ShowAdds(ret, taken, r) ==
  HasAnswer(r) /\ NewTo(ret, r) /\ NewTo(taken, r) /\ ~TwoOfRetrieve(taken)

\* What the list of one accessor adds to ret.
ShowTakes(ret, list) ==
  LET taken[k \in 0..Len(list)] ==
        IF k = 0 THEN <<>>
        ELSE IF ShowAdds(ret, taken[k - 1], list[k]) THEN Append(taken[k - 1], list[k])
        ELSE taken[k - 1]
  IN  taken[Len(list)]

ShowAll(acc_results) ==
  LET ret[a \in 0..Len(acc_results)] ==
        IF a = 0 THEN <<>> ELSE ret[a - 1] \o ShowTakes(ret[a - 1], acc_results[a])
  IN  ret[Len(acc_results)]

select_results_format_show(acc_results, from_lang) ==
  IF ShowAll(acc_results) # <<>> THEN ShowAll(acc_results)
  ELSE IF from_lang = "en" THEN Fallback(DefaultAnswer, "dafault")
  ELSE Raise

\* show_medical: as show, with the answers of special_skill moved in front.
select_results_format_medical(acc_results, from_lang) ==
  LET ret     == select_results_format_show(acc_results, from_lang)
      skill   == SelectSeq(ret, LAMBDA r : r.from = "special_skill")
      others  == SelectSeq(ret, LAMBDA r : r.from # "special_skill")
  IN IF ret = Raise THEN Raise ELSE Reverse(skill) \o others

\* FutureHandler.select_results, and IntegratedHandler for board and test.
select_results_all(acc_results) == FlattenSeq(acc_results)

\* GroupQAHandler and QQGroupHandler.  `range(i)` names an undefined i, and
\* it is evaluated as soon as an answer is found.
select_results_group(acc_results) ==
  IF SomeAnswer(acc_results) THEN Raise ELSE Fallback(DefaultAnswer, "default")

\* IntegratedHandler.select_results and the select_results of the handlers
\* that override it, by the selector that the source ends up with.
SelectorNames == {"format", "default", "tsinghua", "aiplatform", "afanti", "qcloud", "weimi",
                  "show", "medical", "all", "group"}

select_results(selector, acc_results, from_lang) ==
  CASE selector = "format"     -> select_results_format(acc_results)
    [] selector = "default"    -> select_results_format_default(acc_results)
    [] selector = "tsinghua"   -> select_results_tsinghua(acc_results)
    [] selector = "aiplatform" -> select_results_format_aiplatform(acc_results)
    [] selector = "afanti"     -> select_results_format_afanti(acc_results)
    [] selector = "qcloud"     -> select_results_format_qcloud(acc_results)
    [] selector = "weimi"      -> select_results_format_weimi(acc_results)
    [] selector = "show"       -> select_results_format_show(acc_results, from_lang)
    [] selector = "medical"    -> select_results_format_medical(acc_results, from_lang)
    [] selector = "all"        -> select_results_all(acc_results)
    [] selector = "group"      -> select_results_group(acc_results)

\* The second value they return.  The group handlers mean to cache as well,
\* and raise before they can.
should_cache(selector, acc_results) == selector = "tsinghua" /\ SomeAnswer(acc_results)
=============================================================================
