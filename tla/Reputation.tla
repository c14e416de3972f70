----------------------------- MODULE Reputation -----------------------------
(***************************************************************************)
(* Checking SMS and the reputation of their senders: sms.Service.Check and *)
(* CheckBatch, the report handler and the numbers table they share, one    *)
(* TLA+ step per statement.  No step of a request is in a transaction with *)
(* another: any of them may fail, with or without having taken effect, and *)
(* what earlier steps wrote stays.                                         *)
(*                                                                         *)
(* The id of a message row is the request and the position that made it.   *)
(* Rows are never updated, so a row also stands for its id.  Scores are    *)
(* counted in a unit small enough for the increments to be whole numbers   *)
(* (0.05 for 0.2, 0.15 and 1.0: 4, 3 and 20).                              *)
(***************************************************************************)
EXTENDS Naturals, Sequences, FiniteSets

CONSTANTS
  Check,          \* requests to /sms/check and /sms/check/batch, each served once
  Feedback,       \* requests to /reports, each served once
  User,           \* authenticated callers
  Number,         \* sender numbers
  NoNumber,       \* an empty source_number
  NoRow,          \* no message row
  MaxItems,       \* bounds how many messages all checks together hold
  ScamIncrement,  \* scamReputationIncrement of internal/sms
  ReportStep,     \* reputationStep of internal/reports
  MaxRisk         \* the score 1.0

Request == Check \cup Feedback

ASSUME ReputationAssumption ==
  /\ IsFiniteSet(Check) /\ IsFiniteSet(Feedback) /\ Check \cap Feedback = {}
  /\ NoNumber \notin Number
  /\ MaxItems \in Nat \ {0}
  /\ ScamIncrement \in Nat /\ ReportStep \in Nat /\ MaxRisk \in Nat
  /\ NoRow \notin [id : Request \X Nat, user : User, source : Number \cup {NoNumber},
                   scam : BOOLEAN]

VARIABLES
  messages,       \* messages table
  detections,     \* the messages that have a detections row
  reports,        \* reports table
  count,          \* numbers.reports_count, 0 for a number without a row
  risk,           \* numbers.risk_score
  pc,             \* the statement a request is at
  user,           \* its caller
  items,          \* the senders of the messages it is asked to check, in order
  results,        \* what each of them came to, in order
  row,            \* the message at hand: being checked, or reported
  feedback,       \* the feedback it reports
  reply           \* how it was answered; "lost" when it was not

dbVars == <<messages, detections, reports>>
numberVars == <<count, risk>>
requestVars == <<pc, user, items, results, row, feedback, reply>>
vars == <<messages, detections, reports, count, risk,
          pc, user, items, results, row, feedback, reply>>

Source == Number \cup {NoNumber}
Message == [id : Request \X Nat, user : User, source : Source, scam : BOOLEAN]
Report == [id : Request, user : User, message : Message,
           feedback : {"confirmed", "false_positive"}]
CheckSteps == {"classify", "insert", "category", "detect", "raise"}
ReportSteps == {"owner", "report", "source", "score"}

TypeOK ==
  /\ messages \subseteq Message
  /\ detections \subseteq messages
  /\ reports \subseteq Report
  /\ count \in [Number -> Nat]
  /\ risk \in [Number -> 0..MaxRisk]
  /\ pc \in [Request -> {"new", "done"} \cup CheckSteps \cup ReportSteps]
  /\ user \in [Request -> User]
  /\ items \in [Request -> Seq(Source)]
  /\ results \in [Request -> Seq({"ok", "error"})]
  /\ row \in [Request -> Message \cup {NoRow}]
  /\ feedback \in [Request -> {"none", "confirmed", "false_positive"}]
  /\ reply \in [Request -> {"none", "checked", "created", "not found", "failed", "lost"}]

(* Each request is some user's. *)
Init ==
  /\ messages = {} /\ detections = {} /\ reports = {}
  /\ count = [n \in Number |-> 0]
  /\ risk = [n \in Number |-> 0]
  /\ pc = [r \in Request |-> "new"]
  /\ user \in [Request -> User]
  /\ items = [r \in Request |-> <<>>]
  /\ results = [r \in Request |-> <<>>]
  /\ row = [r \in Request |-> NoRow]
  /\ feedback = [r \in Request |-> "none"]
  /\ reply = [r \in Request |-> "none"]

-----------------------------------------------------------------------------
(* The numbers table.  Each operation is one atomic statement. *)

Capped(x) == IF x > MaxRisk THEN MaxRisk ELSE x
Floored(x, by) == IF x < by THEN 0 ELSE x - by

(* Mutant: LEAST(1.0, ...) is only in the insert, not in the update. *)
RegisterScamUncapped(n, by) ==
  /\ count' = [count EXCEPT ![n] = @ + 1]
  /\ risk' = [risk EXCEPT ![n] = IF count[n] = 0 THEN Capped(by) ELSE @ + by]

(* Mutant: ON CONFLICT (number) DO NOTHING. *)
RegisterScamOnce(n, by) ==
  /\ count' = [count EXCEPT ![n] = 1]
  /\ risk' = [risk EXCEPT ![n] = IF count[n] = 0 THEN Capped(by) ELSE @]

(* Inserts the number, or counts one more report and raises its score. *)
RegisterScam(n, by) ==
  /\ count' = [count EXCEPT ![n] = @ + 1]
  /\ risk' = [risk EXCEPT ![n] = Capped(@ + by)]

(* Mutant: the false alarm is an upsert like the confirmation. *)
RegisterFalsePositiveUpsert(n, by) ==
  /\ count' = [count EXCEPT ![n] = @ + 1]
  /\ risk' = [risk EXCEPT ![n] = IF count[n] = 0 THEN by ELSE Floored(@, by)]

(* Updates the number if it has a row; a number without one has score 0. *)
RegisterFalsePositive(n, by) ==
  /\ risk' = [risk EXCEPT ![n] = Floored(@, by)]
  /\ UNCHANGED count

-----------------------------------------------------------------------------
(* Check, and CheckBatch, which runs it on one message after the other. *)

Position(r) == Len(results[r]) + 1

Goto(r, step) == pc' = [pc EXCEPT ![r] = step] /\ UNCHANGED <<results, reply>>

Answer(r, a) ==
  /\ pc' = [pc EXCEPT ![r] = "done"]
  /\ reply' = [reply EXCEPT ![r] = a]
  /\ UNCHANGED results

(* Mutant: the first error ends the batch. *)
FinishItemOrAbort(r, result) ==
  /\ results' = [results EXCEPT ![r] = Append(@, result)]
  /\ IF Position(r) = Len(items[r]) \/ result = "error"
     THEN pc' = [pc EXCEPT ![r] = "done"] /\ reply' = [reply EXCEPT ![r] = "checked"]
     ELSE pc' = [pc EXCEPT ![r] = "classify"] /\ UNCHANGED reply

(* Check has returned: record the result, go on to the next message or       *)
(* answer the request.                                                       *)
FinishItem(r, result) ==
  /\ results' = [results EXCEPT ![r] = Append(@, result)]
  /\ IF Position(r) = Len(items[r])
     THEN pc' = [pc EXCEPT ![r] = "done"] /\ reply' = [reply EXCEPT ![r] = "checked"]
     ELSE pc' = [pc EXCEPT ![r] = "classify"] /\ UNCHANGED reply

Asked == {p \in Check \X (1..MaxItems) : p[2] <= Len(items[p[1]])}

StartCheck(r, sources) ==
  /\ pc[r] = "new"
  /\ Cardinality(Asked) + Len(sources) <= MaxItems
  /\ items' = [items EXCEPT ![r] = sources]
  /\ Goto(r, "classify")
  /\ UNCHANGED <<dbVars, numberVars, user, row, feedback>>

(* The classifier answers with a verdict, or fails. *)
Classify(r) ==
  /\ pc[r] = "classify"
  /\ \/ /\ \E scam \in BOOLEAN :
             row' = [row EXCEPT ![r] =
               [id |-> <<r, Position(r)>>, user |-> user[r],
                source |-> items[r][Position(r)], scam |-> scam]]
        /\ Goto(r, "insert")
     \/ FinishItem(r, "error") /\ UNCHANGED row
  /\ UNCHANGED <<dbVars, numberVars, user, items, feedback>>

InsertMessage(r) ==
  /\ pc[r] = "insert"
  /\ \/ messages' = messages \cup {row[r]} /\ Goto(r, "category")
     \/ messages' \in {messages, messages \cup {row[r]}} /\ FinishItem(r, "error")
  /\ UNCHANGED <<detections, reports, numberVars, user, items, row, feedback>>

(* An unknown category name is no error: the detection then has none. *)
FindCategory(r) ==
  /\ pc[r] = "category"
  /\ Goto(r, "detect") \/ FinishItem(r, "error")
  /\ UNCHANGED <<dbVars, numberVars, user, items, row, feedback>>

Raises(m) == m.scam /\ m.source \in Number

(* Mutant: the row is not looked at when the score is due. *)
InsertDetectionLater(r) ==
  /\ UNCHANGED detections
  /\ \/ Raises(row[r]) /\ Goto(r, "raise")
     \/ ~Raises(row[r]) /\ FinishItem(r, "ok")

InsertDetection(r) ==
  /\ detections' = detections \cup {row[r]}
  /\ \/ Raises(row[r]) /\ Goto(r, "raise")
     \/ ~Raises(row[r]) /\ FinishItem(r, "ok")

Detect(r) ==
  /\ pc[r] = "detect"
  /\ \/ InsertDetection(r)
     \/ detections' \in {detections, detections \cup {row[r]}} /\ FinishItem(r, "error")
  /\ UNCHANGED <<messages, reports, numberVars, user, items, row, feedback>>

(* A scam from a known sender raises that sender's score. *)
RaiseNumber(r) ==
  /\ pc[r] = "raise"
  /\ \/ RegisterScam(row[r].source, ScamIncrement) /\ FinishItem(r, "ok")
     \/ RegisterScam(row[r].source, ScamIncrement) /\ FinishItem(r, "error")
     \/ UNCHANGED numberVars /\ FinishItem(r, "error")
  /\ UNCHANGED <<dbVars, user, items, row, feedback>>

-----------------------------------------------------------------------------
(* The report handler. *)

(* The message is one the caller was told of, or anybody's. *)
StartReport(r, m, f) ==
  /\ pc[r] = "new"
  /\ row' = [row EXCEPT ![r] = m]
  /\ feedback' = [feedback EXCEPT ![r] = f]
  /\ Goto(r, "owner")
  /\ UNCHANGED <<dbVars, numberVars, user, items>>

(* Mutant: any stored message may be reported. *)
MayReportStored(r) == row[r] \in messages

MayReport(r) == row[r].user = user[r]

CheckOwner(r) ==
  /\ pc[r] = "owner"
  /\ \/ MayReport(r) /\ Goto(r, "report")
     \/ ~MayReport(r) /\ Answer(r, "not found")
     \/ Answer(r, "failed")
  /\ UNCHANGED <<dbVars, numberVars, user, items, row, feedback>>

Reported(r) ==
  reports \cup {[id |-> r, user |-> user[r], message |-> row[r], feedback |-> feedback[r]]}

InsertReport(r) ==
  /\ pc[r] = "report"
  /\ \/ reports' = Reported(r) /\ Goto(r, "source")
     \/ reports' \in {reports, Reported(r)} /\ Answer(r, "failed")
  /\ UNCHANGED <<messages, detections, numberVars, user, items, row, feedback>>

(* Without a number, or when it cannot be read, there is no score to move. *)
ReadSource(r) ==
  /\ pc[r] = "source"
  /\ \/ row[r].source \in Number /\ Goto(r, "score")
     \/ Answer(r, "created")
  /\ UNCHANGED <<dbVars, numberVars, user, items, row, feedback>>

(* The errors of both updates are dropped: the report is answered with 201. *)
ScoreReport(r) ==
  /\ pc[r] = "score"
  /\ \/ feedback[r] = "confirmed" /\ RegisterScam(row[r].source, ReportStep)
     \/ feedback[r] = "false_positive" /\ RegisterFalsePositive(row[r].source, ReportStep)
     \/ UNCHANGED numberVars
  /\ Answer(r, "created")
  /\ UNCHANGED <<dbVars, user, items, row, feedback>>

-----------------------------------------------------------------------------
(* The process dies, or the caller hangs up: the context of the request is   *)
(* cancelled, the statement at hand fails, and a batch stops there.          *)
Abandon(r) ==
  /\ pc[r] \notin {"new", "done"}
  /\ Answer(r, "lost")
  /\ UNCHANGED <<dbVars, numberVars, user, items, row, feedback>>

Next ==
  \/ \E r \in Check :
       \/ \E k \in 1..MaxItems : \E sources \in [1..k -> Source] : StartCheck(r, sources)
       \/ Classify(r) \/ InsertMessage(r) \/ FindCategory(r) \/ Detect(r) \/ RaiseNumber(r)
  \/ \E r \in Feedback :
       \/ \E m \in messages, f \in {"confirmed", "false_positive"} : StartReport(r, m, f)
       \/ CheckOwner(r) \/ InsertReport(r) \/ ReadSource(r) \/ ScoreReport(r)
  \/ \E r \in Request : Abandon(r)

Spec == Init /\ [][Next]_vars
-----------------------------------------------------------------------------
(* Properties *)

(* What speaks against a number: the scam detections of its messages and the *)
(* reports that confirm one.                                                 *)
ScamsFrom(n) == {m \in detections : m.scam /\ m.source = n}
Confirmed(n) == {p \in reports : p.feedback = "confirmed" /\ p.message.source = n}

(* However requests fail or overlap, a number's report count never exceeds   *)
(* the evidence on file: RegisterScam runs last, after the row it counts.    *)
RaisesAreBacked ==
  \A n \in Number : count[n] <= Cardinality(ScamsFrom(n)) + Cardinality(Confirmed(n))

(* Nor does its score exceed what that evidence is worth; so a score over    *)
(* the call guard's threshold is never the work of a single check.           *)
RiskIsEarned ==
  \A n \in Number :
    risk[n] <= ScamIncrement * Cardinality(ScamsFrom(n))
               + ReportStep * Cardinality(Confirmed(n))

(* Conversely no increment is lost: every check that reported a scam from a  *)
(* number without an error has been counted on it.                           *)
CleanScams(n) ==
  {m \in messages : /\ m.scam /\ m.source = n
                    /\ m.id[2] <= Len(results[m.id[1]])
                    /\ results[m.id[1]][m.id[2]] = "ok"}

ScamsAreCounted == \A n \in Number : Cardinality(CleanScams(n)) <= count[n]

(* A report on file is on a stored message, by the user who had it checked   *)
(* (FR-8: a report on another user's message is rejected).                   *)
ReportsByOwners ==
  \A p \in reports : p.message \in messages /\ p.user = p.message.user

(* A check answered for without error is on file with its detection, and an  *)
(* answered batch has one result per message whatever failed on the way.     *)
AnswersAreComplete ==
  \A r \in Request :
    /\ reply[r] = "checked" => Len(results[r]) = Len(items[r])
    /\ \A i \in 1..Len(results[r]) : results[r][i] = "ok" =>
         \E m \in detections : m.id = <<r, i>> /\ m.source = items[r][i]

=============================================================================
