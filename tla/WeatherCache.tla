---------------------------- MODULE WeatherCache ----------------------------
(***************************************************************************)
(* The weather accessor and its cache (src/bin/accessor/acc_weather.py).   *)
(*                                                                         *)
(* A worker keeps the forecasts it has fetched in city_weather_cache, by   *)
(* city and by the word for the day (today, tomorrow, ..), each with its   *)
(* date.  Nothing expires: an entry counts as long as its date is the one   *)
(* the word stands for at the time it is asked for.  A query that finds    *)
(* none asks the weather service, and other queries, and midnight, may     *)
(* come before the service answers.                                        *)
(*                                                                         *)
(* Days are numbered.  A forecast made on day i calls the days i, i + 1    *)
(* and i + 2 today, tomorrow and after_tomorrow, so that it is known by i  *)
(* and by the number of days it has; the text of an answer is the word and *)
(* the date it begins with.  The three days a query may ask for are        *)
(* answered with the first; several, the key they are stored under, is not *)
(* the word they are asked for with.                                       *)
(***************************************************************************)
EXTENDS Integers, Sequences

CONSTANTS
  Askers,  \* each with one query after the other
  Cities,
  MaxDay,  \* the last midnight is that before this day
  Null     \* None

ASSUME WeatherAssumption ==
  /\ MaxDay \in Nat /\ Cities # {}
  /\ Null \notin Nat

VARIABLES
  day,                \* datetime.date.today()
  city_weather_cache, \* by city and word the date of the forecast; an empty
                      \* function also where the city is no key
  asking,             \* who waits for the weather service
  city, date_type,    \* debug_info of each asker's last query
  real_date,
  issued,             \* when the service has made its forecast, if it has
  answer              \* None or the city, word and date of the text

weather == <<day, city_weather_cache, asking, city, date_type, real_date, issued, answer>>

Words     == <<"today", "tomorrow", "after_tomorrow">>
DateTypes == {"today", "tomorrow", "after_tomorrow", "three_days"}

\* datetime.timedelta
Offset == [today |-> 0, tomorrow |-> 1, after_tomorrow |-> 2, three_days |-> 0]

\* The entries of the first n days of the forecast of day i.
Forecast(i, n) ==
  [w \in {Words[k] : k \in 1..n} \cup (IF n = 3 THEN {"several"} ELSE {}) |->
     IF w = "several" THEN i + 2 ELSE i + Offset[w]]

NoForecast == Forecast(0, 0)

WeatherTypeOK ==
  /\ day \in 0..MaxDay
  /\ city_weather_cache = [c \in Cities |-> city_weather_cache[c]]
  /\ asking \subseteq Askers
  /\ city \in [Askers -> Cities]
  /\ date_type \in [Askers -> DateTypes]
  /\ real_date \in [Askers -> Nat]
  /\ issued \in [Askers -> 0..day \cup {Null}]
  /\ answer \in [Askers -> [city : Cities, word : DateTypes, date : Nat] \cup {Null}]

WeatherInit ==
  /\ day = 0
  /\ city_weather_cache = [c \in Cities |-> NoForecast]
  /\ asking = {}
  /\ city = [a \in Askers |-> CHOOSE c \in Cities : TRUE]
  /\ date_type = [a \in Askers |-> "today"]
  /\ real_date = [a \in Askers |-> 0]
  /\ issued = [a \in Askers |-> Null]
  /\ answer = [a \in Askers |-> Null]

-----------------------------------------------------------------------------
(* weather_intention_judgement, for a query with a city of the list.       *)

\* extract_weather_date, extract_weather_city
Extract(a, c, t) ==
  /\ a \notin asking
  /\ city' = [city EXCEPT ![a] = c]
  /\ date_type' = [date_type EXCEPT ![a] = t]
  /\ real_date' = [real_date EXCEPT ![a] = day + Offset[t]]

Cached(c, t) == t \in DOMAIN city_weather_cache[c]

\* Mutant: an entry counts whatever its date.
CachedEver(a, c, t) ==
  /\ Extract(a, c, t)
  /\ Cached(c, t)
  /\ answer' = [answer EXCEPT ![a] = [city |-> c, word |-> t, date |-> city_weather_cache[c][t]]]
  /\ UNCHANGED <<day, city_weather_cache, asking, issued>>

\* check_weather_cache has an entry of the date asked for.
AnswerFromCache(a, c, t) ==
  /\ Extract(a, c, t)
  /\ Cached(c, t) /\ city_weather_cache[c][t] = day + Offset[t]
  /\ answer' = [answer EXCEPT ![a] = [city |-> c, word |-> t, date |-> city_weather_cache[c][t]]]
  /\ UNCHANGED <<day, city_weather_cache, asking, issued>>

\* It has none, or one of another date, with which the city is cleared.
Ask(a, c, t) ==
  /\ Extract(a, c, t)
  /\ Cached(c, t) => city_weather_cache[c][t] # day + Offset[t]
  /\ city_weather_cache' =
       IF Cached(c, t) THEN [city_weather_cache EXCEPT ![c] = NoForecast] ELSE city_weather_cache
  /\ asking' = asking \cup {a}
  /\ issued' = [issued EXCEPT ![a] = Null]
  /\ answer' = [answer EXCEPT ![a] = Null]
  /\ UNCHANGED day

\* A date by its number ends in a NameError (data_type, in
\* set_date_time_and_type), one too far away in an answer without weather.
NoWeather(a) ==
  /\ a \notin asking
  /\ answer' = [answer EXCEPT ![a] = Null]
  /\ UNCHANGED <<day, city_weather_cache, asking, city, date_type, real_date, issued>>

-----------------------------------------------------------------------------
(* The answer of the weather service.                                      *)

\* The service makes its forecast.
Issue(a) ==
  /\ a \in asking /\ issued[a] = Null
  /\ issued' = [issued EXCEPT ![a] = day]
  /\ UNCHANGED <<day, city_weather_cache, asking, city, date_type, real_date, answer>>

Stop(a) == asking' = asking \ {a}

\* Mutant: the entries of the city are not cleared first.
WriteOver(a, n) ==
  city_weather_cache' = [city_weather_cache EXCEPT ![city[a]] =
    [w \in DOMAIN @ \cup DOMAIN Forecast(issued[a], n) |->
       IF w \in DOMAIN Forecast(issued[a], n) THEN Forecast(issued[a], n)[w] ELSE @[w]]]

\* Where write_weather_cache gets to, with n days understood.
Write(a, n) ==
  city_weather_cache' = [city_weather_cache EXCEPT ![city[a]] = Forecast(issued[a], n)]

\* Mutant: the answer is the day of the word asked for, whatever its date.
TextOfWord(a, n) ==
  LET k == Offset[date_type[a]] + 1
  IN IF k \in 1..n THEN [city |-> city[a], word |-> Words[k], date |-> issued[a] + k - 1] ELSE Null

\* The text of the day whose date was asked for.
TextOf(a, n) ==
  LET k == real_date[a] - issued[a] + 1
  IN IF k \in 1..n THEN [city |-> city[a], word |-> Words[k], date |-> real_date[a]] ELSE Null

\* get_weather_result: the days are written one by one, and one that is not
\* understood raises, as does an answer that holds an error only (n = 0).
Receive(a) ==
  /\ a \in asking /\ issued[a] # Null
  /\ \E n \in 0..3, raises \in BOOLEAN :
       /\ raises => n < 3
       /\ Write(a, n)
       /\ answer' = [answer EXCEPT ![a] = IF raises THEN Null ELSE TextOf(a, n)]
  /\ Stop(a)
  /\ UNCHANGED <<day, city, date_type, real_date, issued>>

\* There is no response: parallel_async has None for a body.
NoResponse(a) ==
  /\ a \in asking
  /\ Stop(a)
  /\ UNCHANGED <<day, city_weather_cache, city, date_type, real_date, issued, answer>>

-----------------------------------------------------------------------------

\* The query flushweatherapi.
Flush ==
  /\ city_weather_cache' = [c \in Cities |-> NoForecast]
  /\ UNCHANGED <<day, asking, city, date_type, real_date, issued, answer>>

\* Requests time out after three seconds: none sees two midnights.
Midnight ==
  /\ day < MaxDay
  /\ \A a \in asking : real_date[a] = day + Offset[date_type[a]]
  /\ day' = day + 1
  /\ UNCHANGED <<city_weather_cache, asking, city, date_type, real_date, issued, answer>>

WeatherNext ==
  \/ Flush \/ Midnight
  \/ \E a \in Askers :
       \/ NoWeather(a) \/ Issue(a) \/ Receive(a) \/ NoResponse(a)
       \/ \E c \in Cities, t \in DateTypes : AnswerFromCache(a, c, t) \/ Ask(a, c, t)

WeatherSpec == WeatherInit /\ [][WeatherNext]_weather

-----------------------------------------------------------------------------
(* Properties.                                                             *)

\* An answer is about the city and the date the query asked for, whatever
\* other queries and midnights have made of the cache in the meantime.
OnDateAsked ==
  \A a \in Askers : answer[a] # Null => answer[a].city = city[a] /\ answer[a].date = real_date[a]

\* What is cached of a city comes from a single forecast, and from one of
\* today or an earlier day, in whatever order the responses arrive and
\* wherever writing one of them stops.
OneForecast ==
  \A c \in Cities : \E i \in 0..day, n \in 0..3 : city_weather_cache[c] = Forecast(i, n)

\* An answer out of the cache is from a forecast of today, and so calls the
\* day by its name, although nothing in the cache expires.
CachedToday ==
  [][\A a \in Askers :
       answer'[a] # answer[a] /\ answer'[a] # Null /\ a \notin asking =>
         answer'[a].date - Offset[answer'[a].word] = day]_weather
=============================================================================
