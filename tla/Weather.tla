------------------------------- MODULE Weather -------------------------------
(***************************************************************************)
(* WeatherModule (modules/weather.h) and the forecast service it asks over *)
(* HTTP.  A call takes time: the service answers with what it has when it  *)
(* is asked, and the module stamps the answer when it has come.  A         *)
(* forecast is a number, the larger the newer; the service answers 304     *)
(* when the date the request carries is not before the newest forecast.    *)
(* That date was read from the clock of this machine, the forecast's is    *)
(* from the service's clock, Skew seconds ahead of it.  lastApiCall, which *)
(* nothing reads, is left out.                                             *)
(*                                                                         *)
(* blind is not in the code: the seconds, of the service's clock, whose    *)
(* forecasts the date to be sent hides although they have not come.        *)
(***************************************************************************)
EXTENDS Integers

CONSTANTS
  Period,     \* secondsPerUpdate
  Skew,       \* what the service's clock has more than time(nullptr)
  None        \* nothing shown, no call

VARIABLES
  now,           \* time(nullptr), 1 or later: 0 is "never"
  newest,        \* the service's forecast
  published,     \* when it was published, by the service's clock
  forecast,      \* temperature, weatherCode, ...: the forecast parsed last, 0: none
  lastModified, lastUpdate, showDetails,
  content,       \* the forecast the element shows, and whether with details
  reply,         \* of a call under way: what will come
  called,        \* and the seconds it has taken
  blind


Answers == {"fresh", "bad", "cached", "error"}

TypeOK ==
  /\ newest \in Nat \ {0} /\ published \in Int
  /\ forecast \in Nat
  /\ lastModified \in Nat /\ lastUpdate \in Nat
  /\ showDetails \in BOOLEAN
  /\ content \in {None} \cup (Nat \X BOOLEAN)
  /\ reply \in {None} \cup [kind : Answers, forecast : Nat]
  /\ called \in Nat /\ blind \in SUBSET Int

Init ==
  /\ newest = 1 /\ published = Skew
  /\ forecast = 0
  /\ lastModified = 0 /\ lastUpdate = 0
  /\ showDetails = FALSE /\ content = None
  /\ reply = None /\ called = 0 /\ blind = {}

-----------------------------------------------------------------------------

(* The request carries no date, or one before the newest forecast.         *)
modified == lastModified = 0 \/ published > lastModified

(* fetchWeatherData up to curl_easy_perform.  The body of a 200 may not    *)
(* parse; any call may fail.                                               *)
fetchBegins ==
  /\ reply = None
  /\ \E k \in (IF modified THEN {"fresh", "bad"} ELSE {"cached"}) \cup {"error"} :
       reply' = [kind |-> k, forecast |-> newest]
  /\ UNCHANGED <<newest, published, forecast, lastModified, lastUpdate,
                 content, called, blind>>

(* Mutant: the date is that of the next second.                            *)
stamped_Ahead == lastModified' = IF reply.kind \in {"fresh", "bad"}
                                 THEN now + 1 ELSE lastModified

(* After a 200 lastModified is set, whether the body parsed or not; a      *)
(* header Last-Modified sets it in HeaderCallback with any answer, when it *)
(* comes, also if the body never does.                                     *)
stamped == IF reply.kind \in {"fresh", "bad"}
           THEN lastModified' = now
           ELSE lastModified' \in {lastModified} \cup ((now - called)..now)

(* A new date hides what the service publishes up to it: since the call    *)
(* began, or at any time if the forecast it had then has not come.         *)
hidden == (IF forecast' = reply.forecast THEN now - called + Skew ELSE Skew)..now

(* fetchWeatherData after it, with parseWeatherJson *)
fetchReturns ==
  /\ reply # None
  /\ stamped
  /\ forecast' = IF reply.kind = "fresh" THEN reply.forecast ELSE forecast
  /\ blind' = IF lastModified' = lastModified THEN blind ELSE hidden
  /\ reply' = None /\ called' = 0

success == reply.kind \in {"fresh", "cached"}

(* generateBuffer: what is shown stands for icon, text and colour, which   *)
(* are all functions of the forecast and of showDetails.                   *)
generateBuffer == content' = <<forecast', showDetails>>

(* initialize(): the first call *)
initialize ==
  /\ fetchReturns
  /\ UNCHANGED <<newest, published, lastUpdate, showDetails, content>>

(* update() after its call *)
doUpdate ==
  /\ fetchReturns
  /\ generateBuffer
  /\ lastUpdate' = now
  /\ UNCHANGED <<newest, published, showDetails>>

(* lastUpdate is 0 until the first update()                                *)
shouldUpdate == now - lastUpdate >= Period \/ lastUpdate = 0

(* the left click, up to its call *)
toggleDetails == content # None /\ showDetails' = ~showDetails /\ fetchBegins

(* The service publishes a forecast, one in a second at most.              *)
Publish ==
  /\ published < now + Skew
  /\ newest' = newest + 1
  /\ published' = now + Skew
  /\ UNCHANGED <<forecast, lastModified, lastUpdate,
                 showDetails, content, reply, called, blind>>
=============================================================================
