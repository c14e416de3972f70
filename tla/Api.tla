-------------------------------- MODULE Api ---------------------------------
(***************************************************************************)
(* The HTTP API of the backend behind the rate limiter: the checks and     *)
(* call analyses that write rows, and the history, its summary and the     *)
(* administrator's views that read them while others write, one TLA+ step  *)
(* per statement.  Any statement may fail, with or without effect, and no  *)
(* two of them share a transaction.                                        *)
(*                                                                         *)
(* A row is named by the request that inserts it; the tables are sets of   *)
(* such requests, whose result, time and caller are the row's columns.     *)
(* All messages are of channel "sms".  What a check does to the numbers    *)
(* table is left to Reputation, and the auth routes to Sessions.           *)
(***************************************************************************)
EXTENDS RateLimit, Classifier

CONSTANTS
  User,          \* accounts
  Admin,         \* those whose tokens carry the role admin
  NoOne,         \* no valid access token
  NoText,        \* no text
  Day,           \* ticks to the day
  DefaultDays,   \* defaultSummaryDays
  MaxDays,       \* maxSummaryDays
  Threats,       \* summaryThreats
  DefaultLimit,  \* how long a list is without a valid limit
  MaxLimit       \* the longest list

ASSUME ApiAssumption ==
  /\ Admin \subseteq User /\ NoOne \notin User
  /\ NoText \notin Text
  /\ Day \in Nat /\ MaxDays \in Nat /\ DefaultDays \in 1..MaxDays
  /\ Threats \in Nat \ {0}
  /\ MaxLimit \in Nat /\ DefaultLimit \in 1..MaxLimit

VARIABLES
  mock,        \* whether the classifier is the mock
  route,       \* what a request asks for
  caller,      \* by whose token
  filter,      \* the channel or the verdict it narrows a list to
  since,       \* where the period of its summary begins
  text,        \* the text it is about, from when that is looked at
  result,      \* what the text was classified as
  created,     \* created_at of its row
  messages, detections, sessions, versions,  \* the tables
  counted,     \* rows its first statement counted
  limit,       \* LIMIT of its list, 0 for none
  shown,       \* rows it answers with, and the category of each
  reply,       \* its answer
  before,      \* history: the writes answered before a reader was let in
  stored       \* history: the rows a list may hold that were there then

askVars == <<mock, route, caller, filter, before, stored>>
rowVars == <<text, result, created>>
tables == <<messages, detections, sessions, versions>>
readVars == <<since, counted, limit, shown>>
handlerVars == <<askVars, rowVars, tables, readVars, reply>>
vars == <<perMinute, now, minute, count, ends, at, key, entry, resent, troubled, lost,
          mock, route, caller, filter, since, text, result, created,
          messages, detections, sessions, versions, counted, limit, shown, reply,
          before, stored>>

Writes == {"check", "analyze", "add version"}
AdminRoute == {"messages", "metrics", "add version", "versions"}
Route == {"check", "analyze", "history", "summary"} \cup AdminRoute
Steps == {"new", "incr", "expire", "auth", "insert", "category", "save", "threats",
          "distribution", "done"} \cup Route
Row == Request \X Category

HandlerTypeOK ==
  /\ mock \in BOOLEAN
  /\ route \in [Request -> Route \cup {"none"}]
  /\ caller \in [Request -> User \cup {NoOne}]
  /\ filter \in [Request -> {"any", "call"} \cup Verdict]
  /\ since \in [Request -> Int]
  /\ text \in [Request -> Text \cup {NoText}]
  /\ result \in [Request -> Result]
  /\ created \in [Request -> 0..MaxTime]
  /\ messages \subseteq Request /\ detections \subseteq Request
  /\ sessions \subseteq Request /\ versions \subseteq Request
  /\ counted \in [Request -> SUBSET Request]
  /\ limit \in [Request -> Nat]
  /\ shown \in [Request -> SUBSET Row]
  /\ reply \in [Request -> {"none", "ok", "invalid", "unauthorized", "forbidden", "failed"}]
  /\ before \in [Request -> SUBSET Request]
  /\ stored \in [Request -> SUBSET Request]

TypeOK == LimitTypeOK /\ at \in [Request -> Steps] /\ HandlerTypeOK

Init ==
  /\ LimitInit
  /\ at = [r \in Request |-> "new"]
  /\ mock \in BOOLEAN
  /\ route = [r \in Request |-> "none"]
  /\ caller = [r \in Request |-> NoOne]
  /\ filter = [r \in Request |-> "any"]
  /\ since = [r \in Request |-> 0]
  /\ text = [r \in Request |-> NoText]
  /\ result = [r \in Request |-> Judged(0, 0, NoCategory)]
  /\ created = [r \in Request |-> 0]
  /\ messages = {} /\ detections = {} /\ sessions = {} /\ versions = {}
  /\ counted = [r \in Request |-> {}]
  /\ limit = [r \in Request |-> 0]
  /\ shown = [r \in Request |-> {}]
  /\ reply = [r \in Request |-> "none"]
  /\ before = [r \in Request |-> {}]
  /\ stored = [r \in Request |-> {}]

-----------------------------------------------------------------------------
(* The routes: the middleware of each group, then the handler. *)

Answer(r, how) == Goto(r, "done") /\ reply' = [reply EXCEPT ![r] = how]

Proceed(r, step) == Goto(r, step) /\ UNCHANGED reply

Answered == {s \in Request : route[s] \in Writes /\ reply[s] = "ok"}

Authorized(u) == u \in User

MayAsk(u, d) == d \in AdminRoute => u \in Admin

Filters(d) == {"any"} \cup (IF d = "history" THEN {"call"} ELSE IF d = "messages" THEN Verdict ELSE {})

Dispatch(r, u, d) ==
  /\ at[r] = "auth"
  /\ IF Authorized(u) /\ MayAsk(u, d)
     THEN /\ route' = [route EXCEPT ![r] = d]
          /\ caller' = [caller EXCEPT ![r] = u]
          /\ \E f \in Filters(d) : filter' = [filter EXCEPT ![r] = f]
          /\ before' = [before EXCEPT ![r] = IF d \in Writes THEN {} ELSE Answered]
          /\ stored' = [stored EXCEPT ![r] = IF d \in Writes THEN {} ELSE messages \cup versions]
          /\ Proceed(r, d)
     ELSE /\ Answer(r, IF Authorized(u) THEN "forbidden" ELSE "unauthorized")
          /\ UNCHANGED <<route, caller, filter, before, stored>>
  /\ UNCHANGED <<limitVars, mock, tables, rowVars, readVars>>

-----------------------------------------------------------------------------
(* Writers. *)

Classified(t) == IF mock THEN Mock(t) ELSE Pipeline(t)

(* The hits the classifier in use goes by. *)
HitsIn(t) == IF mock THEN t.byMock ELSE t.byRules

(* An error of the classifier or its timeout ends the request. *)
Classify(r) ==
  /\ at[r] \in {"check", "analyze"}
  /\ \/ /\ \E t \in Text : \E res \in Classified(t) :
             text' = [text EXCEPT ![r] = t] /\ result' = [result EXCEPT ![r] = res]
        /\ Proceed(r, IF at[r] = "check" THEN "insert" ELSE "save")
     \/ Answer(r, "failed") /\ UNCHANGED <<text, result>>
  /\ UNCHANGED <<limitVars, askVars, tables, created, readVars>>

(* A statement that inserts the request's row into a table; after an error   *)
(* the row may or may not be there.                                          *)
Inserts(r, table) == table \cup {r}

InsertMessage(r) ==
  /\ at[r] = "insert"
  /\ \/ /\ messages' = Inserts(r, messages)
        /\ created' = [created EXCEPT ![r] = now]
        /\ Proceed(r, "category") \/ Answer(r, "failed")
     \/ UNCHANGED <<messages, created>> /\ Answer(r, "failed")
  /\ UNCHANGED <<limitVars, askVars, detections, sessions, versions, text, result, readVars>>

(* Mutant: the table lacks the category of the pipeline alone. *)
IdByNameOfRules(name) == IF name \in 1..Rules THEN name ELSE NoCategory

(* The categories are those the migrations insert; another name has no id. *)
IdByName(name) == IF name \in 1..Other THEN name ELSE NoCategory

(* The category is looked up and the detection inserted.  The statement on   *)
(* the number of a scam comes last and may still fail.                       *)
InsertDetection(r) ==
  /\ at[r] = "category"
  /\ \/ /\ detections' = Inserts(r, detections)
        /\ Answer(r, "ok") \/ Answer(r, "failed")
     \/ UNCHANGED detections /\ Answer(r, "failed")
  /\ UNCHANGED <<limitVars, askVars, messages, sessions, versions, rowVars, readVars>>

(* Mutant: the threshold itself is not over it. *)
AlertAbove(r) == result[r].probability > ScamThreshold

Alert(r) == result[r].probability >= ScamThreshold

SaveSession(r) ==
  /\ at[r] = "save"
  /\ \/ sessions' = Inserts(r, sessions) /\ Answer(r, "ok")
     \/ sessions' \in {sessions, Inserts(r, sessions)} /\ Answer(r, "failed")
  /\ UNCHANGED <<limitVars, askVars, messages, detections, versions, rowVars, readVars>>

CreateVersion(r) ==
  /\ at[r] = "add version"
  /\ \/ versions' = Inserts(r, versions) /\ Answer(r, "ok")
     \/ versions' \in {versions, Inserts(r, versions)} /\ Answer(r, "failed")
  /\ UNCHANGED <<limitVars, askVars, messages, detections, sessions, rowVars, readVars>>

-----------------------------------------------------------------------------
(* Readers. *)

(* ORDER BY created_at DESC LIMIT n; rows of one time come in any order. *)
Newest(S, n) ==
  {T \in SUBSET S : /\ Cardinality(T) = IF Cardinality(S) < n THEN Cardinality(S) ELSE n
                    /\ \A t \in T, s \in S \ T : created[t] >= created[s]}

(* A row with the category of its detection, if it has one that names one. *)
WithCategory(s) == <<s, IF s \in detections THEN IdByName(result[s].category) ELSE NoCategory>>

LimitOf(raw) == IF raw \in 1..MaxLimit THEN raw ELSE DefaultLimit

OwnMessages(r) == {m \in messages : caller[m] = caller[r]}

Unsafe(S) == {m \in S : result[m].verdict \in {"scam", "suspicious"}}

(* Mutant: JOIN detections where the code has a LEFT JOIN. *)
ShowDetected(r, S, n) ==
  /\ limit' = [limit EXCEPT ![r] = n]
  /\ \E T \in Newest(S \cap detections, n) : shown' = [shown EXCEPT ![r] = {WithCategory(m) : m \in T}]

Show(r, S, n) ==
  /\ limit' = [limit EXCEPT ![r] = n]
  /\ \E T \in Newest(S, n) : shown' = [shown EXCEPT ![r] = {WithCategory(m) : m \in T}]

ListHistory(r) ==
  /\ at[r] = "history"
  /\ \/ /\ \E raw \in 0..MaxLimit :
             Show(r, IF filter[r] = "call" THEN {} ELSE OwnMessages(r), LimitOf(raw))
        /\ Answer(r, "ok")
     \/ Answer(r, "failed") /\ UNCHANGED <<limit, shown>>
  /\ UNCHANGED <<limitVars, askVars, tables, rowVars, since, counted>>

ListMessages(r) ==
  /\ at[r] = "messages"
  /\ \/ /\ \E raw \in 0..MaxLimit :
             Show(r, {m \in messages : filter[r] \in {"any", result[m].verdict}}, LimitOf(raw))
        /\ Answer(r, "ok")
     \/ Answer(r, "failed") /\ UNCHANGED <<limit, shown>>
  /\ UNCHANGED <<limitVars, askVars, tables, rowVars, since, counted>>

ListVersions(r) ==
  /\ at[r] = "versions"
  /\ \/ /\ shown' = [shown EXCEPT ![r] = {<<v, NoCategory>> : v \in versions}]
        /\ Answer(r, "ok")
     \/ Answer(r, "failed") /\ UNCHANGED shown
  /\ UNCHANGED <<limitVars, askVars, tables, rowVars, since, counted, limit>>

(* No value of days, here 0, means the default; a wrong one, here any above  *)
(* the maximum, is an error.                                                 *)
ValidDays(raw) == raw <= MaxDays

SummarySince(raw) == now - Day * (IF raw = 0 THEN DefaultDays ELSE raw)

(* The summary counts the caller's messages of the period ... *)
CountOwn(r) ==
  /\ at[r] = "summary"
  /\ \E raw \in 0..(MaxDays + 1) :
       \/ /\ ValidDays(raw)
          /\ since' = [since EXCEPT ![r] = SummarySince(raw)]
          /\ counted' = [counted EXCEPT ![r] = {m \in OwnMessages(r) : created[m] >= SummarySince(raw)}]
          /\ Proceed(r, "threats")
       \/ /\ Answer(r, IF ValidDays(raw) THEN "failed" ELSE "invalid")
          /\ UNCHANGED <<since, counted>>
  /\ UNCHANGED <<limitVars, askVars, tables, rowVars, limit, shown>>

(* Mutant: of the period, which the counts take to begin at since itself. *)
ThreatsAfterSince(r) == {m \in Unsafe(OwnMessages(r)) : created[m] > since[r]}

ThreatsTo(r) == Unsafe(OwnMessages(r))

(* ... and then reads the newest threats of any age. *)
ListThreats(r) ==
  /\ at[r] = "threats"
  /\ \/ Show(r, ThreatsTo(r), Threats) /\ Answer(r, "ok")
     \/ Answer(r, "failed") /\ UNCHANGED <<limit, shown>>
  /\ UNCHANGED <<limitVars, askVars, tables, rowVars, since, counted>>

(* The overview counts messages, unsafe messages and sessions with an alert  *)
(* in one statement ...                                                      *)
CountAll(r) ==
  /\ at[r] = "metrics"
  /\ \/ /\ counted' = [counted EXCEPT ![r] = messages \cup {s \in sessions : Alert(s)}]
        /\ Proceed(r, "distribution")
     \/ Answer(r, "failed") /\ UNCHANGED counted
  /\ UNCHANGED <<limitVars, askVars, tables, rowVars, since, limit, shown>>

(* ... and the detections of every category in another. *)
CountCategories(r) ==
  /\ at[r] = "distribution"
  /\ \/ /\ shown' = [shown EXCEPT ![r] =
              {WithCategory(d) : d \in {x \in detections : IdByName(result[x].category) # NoCategory}}]
        /\ Answer(r, "ok")
     \/ Answer(r, "failed") /\ UNCHANGED shown
  /\ UNCHANGED <<limitVars, askVars, tables, rowVars, since, counted, limit>>

-----------------------------------------------------------------------------
Limiter(r) ==
  \/ \E a \in Address : Arrive(r, a)
  \/ Incr(r) \/ ResendIncr(r) \/ SetExpiry(r)

Writer(r) ==
  \/ Classify(r) \/ InsertMessage(r) \/ InsertDetection(r) \/ SaveSession(r) \/ CreateVersion(r)

Reader(r) ==
  \/ ListHistory(r) \/ ListMessages(r) \/ ListVersions(r)
  \/ CountOwn(r) \/ ListThreats(r) \/ CountAll(r) \/ CountCategories(r)

Next ==
  \/ \E r \in Request :
       \/ Limiter(r) /\ UNCHANGED handlerVars
       \/ \E u \in User \cup {NoOne}, d \in Route : Dispatch(r, u, d)
       \/ Writer(r) \/ Reader(r)
  \/ (Tick \/ RedisRestart) /\ UNCHANGED handlerVars

Spec == Init /\ [][Next]_vars

-----------------------------------------------------------------------------
(* Properties *)

(* The rows a list is asked for. *)
Matches(r, s) ==
  \/ route[r] = "history" /\ route[s] = "check" /\ caller[s] = caller[r] /\ filter[r] # "call"
  \/ route[r] = "messages" /\ route[s] = "check" /\ filter[r] \in {"any", result[s].verdict}
  \/ /\ route[r] = "summary" /\ route[s] = "check" /\ caller[s] = caller[r]
     /\ result[s].verdict # "safe"
  \/ route[r] = "versions" /\ route[s] = "add version"

Listed(r) == {p[1] : p \in shown[r]}

Filled(r) == limit[r] > 0 /\ Cardinality(Listed(r)) = limit[r]

(* A list has every row of those it is asked for that was there when it was  *)
(* let in, whatever is written meanwhile and even if its detection never is, *)
(* and each that was answered with the category it was answered with; only   *)
(* one filled to its LIMIT leaves rows out, and none newer than what it has. *)
ListIsCurrent ==
  \A r \in Request : reply[r] = "ok" =>
    \A s \in stored[r] \cup before[r] : Matches(r, s) =>
      \/ /\ s \in Listed(r)
         /\ s \in before[r] => <<s, result[s].category>> \in shown[r]
      \/ Filled(r) /\ \A m \in Listed(r) : created[m] >= created[s]

(* The two statements of a summary agree: checks that finish between them    *)
(* never leave it with fewer threats listed than it counts, up to the limit, *)
(* and what was answered in its period is counted.                           *)
SummaryAgrees ==
  \A r \in Request : route[r] = "summary" /\ reply[r] = "ok" =>
    /\ \/ Cardinality(Listed(r)) >= Cardinality(Unsafe(counted[r]))
       \/ Cardinality(Listed(r)) = Threats
    /\ \A s \in before[r] :
         route[s] = "check" /\ caller[s] = caller[r] /\ created[s] >= since[r]
           => s \in counted[r]

(* The overview has every check and every alert answered before it, and each *)
(* unsafe check under its category, those no rule explains under "other".    *)
OverviewAgrees ==
  \A r \in Request : route[r] = "metrics" /\ reply[r] = "ok" =>
    \A s \in before[r] :
      /\ route[s] = "check" =>
           /\ s \in counted[r]
           /\ result[s].category # NoCategory => <<s, result[s].category>> \in shown[r]
      /\ route[s] = "analyze" /\ result[s].verdict = "scam" => s \in counted[r]

(* A text is filed under the first rule of those the classifier in use finds *)
(* the most hits of, and what only the model objects to under "other";       *)
(* nothing safe is filed.                                                    *)
CategoryIsForemost ==
  \A r \in Request : text[r] # NoText =>
    LET hits == HitsIn(text[r])
    IN  IF result[r].verdict = "safe" THEN result[r].category = NoCategory
        ELSE IF \A i \in 1..Rules : hits[i] = 0 THEN result[r].category = Other \/ mock
        ELSE result[r].category \in Foremost(hits)

(* A call whose transcript is a scam has an alert: the threshold is applied  *)
(* to the rounded probability, the verdict was decided on the exact one.     *)
ScamRaisesAlert ==
  \A r \in sessions : result[r].verdict = "scam" => Alert(r)

=============================================================================
