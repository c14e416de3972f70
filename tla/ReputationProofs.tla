-------------------------- MODULE ReputationProofs --------------------------
(***************************************************************************)
(* What MCReputation shows for two messages and two reports holds for any  *)
(* number of requests, users, numbers and messages, and whatever the two   *)
(* increments and the maximum score are.                                   *)
(*                                                                         *)
(* The idea: a check that has stored its detection but not yet raised the  *)
(* number, and a report that is stored but not yet scored, are evidence    *)
(* the number has still to be charged for.  Counting them on the side of   *)
(* the count (Backed, Earned) makes the bounds inductive.                  *)
(***************************************************************************)
EXTENDS Reputation, FiniteSetTheorems, SequenceTheorems, TLAPS

(* A check at a statement works on a message of its own, stored as far as    *)
(* the statements before it have stored it.                                  *)
CheckAt(r) ==
  /\ pc[r] \in {"new", "done"} \cup CheckSteps
  /\ pc[r] = "new" => results[r] = <<>>
  /\ reply[r] = "checked" => pc[r] = "done"
  /\ pc[r] \in CheckSteps => Position(r) <= Len(items[r])
  /\ pc[r] \in CheckSteps \ {"classify"} =>
       /\ row[r] \in Message
       /\ row[r].id = <<r, Position(r)>>
       /\ row[r].source = items[r][Position(r)]
  /\ pc[r] \in {"category", "detect", "raise"} => row[r] \in messages
  /\ pc[r] = "raise" => row[r] \in detections /\ Raises(row[r])

CheckShape == \A r \in Check : CheckAt(r)

(* A report at a statement is about a stored message, its caller's own from  *)
(* the ownership check on.                                                   *)
ReportAt(r) ==
  /\ pc[r] \in {"new", "done"} \cup ReportSteps
  /\ reply[r] # "checked" /\ results[r] = <<>>
  /\ pc[r] \in ReportSteps =>
       row[r] \in messages /\ feedback[r] \in {"confirmed", "false_positive"}
  /\ pc[r] \in {"report", "source", "score"} => row[r].user = user[r]
  /\ pc[r] = "score" => row[r].source \in Number

ReportShape == \A r \in Feedback : ReportAt(r)

(* Where a check may be once its message is stored, and once its detection   *)
(* is; where a report may be once it is stored.                              *)
Stored == {"category", "detect", "raise", "done"}
Flagged == {"raise", "done"}
OnFile == {"source", "score", "done"}

(* A stored message has been dealt with, or is the one its check is at.      *)
Filed ==
  /\ \A m \in messages :
       /\ m.id[1] \in Check /\ m.id[2] # 0
       /\ \/ m.id[2] <= Len(results[m.id[1]])
          \/ m.id[2] = Position(m.id[1]) /\ pc[m.id[1]] \in Stored
  /\ \A m, o \in messages : m.id = o.id => m = o

(* Its detection is stored last but for the score. *)
Detected ==
  \A m \in detections :
    m.id[2] <= Len(results[m.id[1]]) \/ pc[m.id[1]] \in Flagged

(* A report on file is its request's, past the insertion. *)
Submitted ==
  \A p \in reports : p.id \in Feedback /\ pc[p.id] \in OnFile

Finite == IsFiniteSet(messages) /\ IsFiniteSet(reports)

Inv == /\ TypeOK /\ CheckShape /\ ReportShape
       /\ Filed /\ Detected /\ Submitted /\ Finite

-----------------------------------------------------------------------------

(* What it means for r that Check returns: one more result, and only r's. *)
LEMMA Finished ==
  ASSUME TypeOK, NEW r \in Check, NEW x \in {"ok", "error"}, FinishItem(r, x)
  PROVE  /\ results' = [results EXCEPT ![r] = Append(results[r], x)]
         /\ results' \in [Request -> Seq({"ok", "error"})]
         /\ Len(results'[r]) = Len(results[r]) + 1
         /\ results'[r][Position(r)] = x
         /\ \A i \in 1..Len(results[r]) : results'[r][i] = results[r][i]
         /\ \/ /\ Position(r) = Len(items[r])
               /\ pc' = [pc EXCEPT ![r] = "done"]
               /\ reply' = [reply EXCEPT ![r] = "checked"]
            \/ /\ Position(r) # Len(items[r])
               /\ pc' = [pc EXCEPT ![r] = "classify"]
               /\ reply' = reply
<1>1. results[r] \in Seq({"ok", "error"}) /\ Len(results[r]) \in Nat
  BY LenProperties DEF TypeOK, Request
<1>2. /\ Append(results[r], x) \in Seq({"ok", "error"})
      /\ Len(Append(results[r], x)) = Len(results[r]) + 1
      /\ \A i \in 1..Len(results[r]) : Append(results[r], x)[i] = results[r][i]
      /\ Append(results[r], x)[Len(results[r]) + 1] = x
  BY <1>1, AppendProperties
<1>3. results' = [results EXCEPT ![r] = Append(results[r], x)]
  BY DEF FinishItem
<1>4. results'[r] = Append(results[r], x)
  BY <1>3 DEF TypeOK, Request
<1>5. results' \in [Request -> Seq({"ok", "error"})]
  BY <1>2, <1>3 DEF TypeOK
<1> QED
  BY <1>1, <1>2, <1>3, <1>4, <1>5 DEF FinishItem, Position

(* The types of the variables that say where a request is. *)
Control ==
  /\ pc \in [Request -> {"new", "done"} \cup CheckSteps \cup ReportSteps]
  /\ results \in [Request -> Seq({"ok", "error"})]
  /\ reply \in [Request -> {"none", "checked", "created", "not found", "failed", "lost"}]

(* Moving on, answering and finishing a message keep these types. *)
LEMMA ControlStep ==
  ASSUME TypeOK, NEW r \in Request,
         \/ \E step \in CheckSteps \cup ReportSteps : Goto(r, step)
         \/ r \in Check /\ \E x \in {"ok", "error"} : FinishItem(r, x)
         \/ \E a \in {"created", "not found", "failed", "lost"} : Answer(r, a)
         \/ UNCHANGED <<pc, results, reply>>
  PROVE  Control'
<1>1. CASE \E step \in CheckSteps \cup ReportSteps : Goto(r, step)
  BY <1>1 DEF Goto, TypeOK, Control
<1>2. CASE r \in Check /\ \E x \in {"ok", "error"} : FinishItem(r, x)
  <2> PICK x \in {"ok", "error"} : FinishItem(r, x)
    BY <1>2
  <2> QED
    BY <1>2, Finished DEF TypeOK, Control, CheckSteps
<1>3. CASE \E a \in {"created", "not found", "failed", "lost"} : Answer(r, a)
  BY <1>3 DEF Answer, TypeOK, Control
<1>4. CASE UNCHANGED <<pc, results, reply>>
  BY <1>4 DEF TypeOK, Control
<1> QED
  BY <1>1, <1>2, <1>3, <1>4

(* Both updates of the numbers table keep its types. *)
LEMMA NumberTypes ==
  ASSUME TypeOK, NEW n \in Number, NEW by \in Nat,
         RegisterScam(n, by) \/ RegisterFalsePositive(n, by)
  PROVE  count' \in [Number -> Nat] /\ risk' \in [Number -> 0..MaxRisk]
<1> DEFINE c == count[n]  k == risk[n]
<1>1. c \in Nat /\ k \in 0..MaxRisk /\ MaxRisk \in Nat
  BY ReputationAssumption DEF TypeOK
<1>2. c + 1 \in Nat /\ Capped(k + by) \in 0..MaxRisk /\ Floored(k, by) \in 0..MaxRisk
  BY <1>1 DEF Capped, Floored
<1>3. /\ count' \in {count, [count EXCEPT ![n] = c + 1]}
      /\ risk' \in {[risk EXCEPT ![n] = Capped(k + by)], [risk EXCEPT ![n] = Floored(k, by)]}
  BY DEF RegisterScam, RegisterFalsePositive
<1> HIDE DEF c, k
<1> QED
  BY <1>2, <1>3 DEF TypeOK

(* Every action keeps every variable in its type. *)
LEMMA TypeStep ==
  ASSUME Inv, [Next]_vars
  PROVE  TypeOK'
<1> USE DEF Inv, dbVars, numberVars
<1>1. ASSUME NEW r \in Check, NEW k \in 1..MaxItems, NEW sources \in [1..k -> Source],
             StartCheck(r, sources)
      PROVE  TypeOK'
  <2>1. k \in Nat
    BY ReputationAssumption
  <2>2. sources \in Seq(Source)
    BY <2>1, SeqDef
  <2>3. Control'
    BY <1>1, ControlStep DEF StartCheck, CheckSteps, Request
  <2> QED
    BY <1>1, <2>2, <2>3 DEF StartCheck, TypeOK, Control, Request
<1>2. ASSUME NEW r \in Check, Classify(r)
      PROVE  TypeOK'
  <2>1. Position(r) \in 1..Len(items[r]) /\ Position(r) \in Nat
    <3>1. Position(r) <= Len(items[r])
      BY <1>2 DEF CheckShape, CheckAt, Classify, CheckSteps
    <3>2. Len(results[r]) \in Nat /\ Len(items[r]) \in Nat
      BY LenProperties DEF TypeOK, Request
    <3> QED
      BY <3>1, <3>2 DEF Position
  <2>2. items[r][Position(r)] \in Source
    BY <2>1, ElementOfSeq DEF TypeOK, Request
  <2>3. \A scam \in BOOLEAN :
          [id |-> <<r, Position(r)>>, user |-> user[r],
           source |-> items[r][Position(r)], scam |-> scam] \in Message
    BY <2>1, <2>2 DEF Message, TypeOK, Request
  <2>4. Control'
    BY <1>2, ControlStep DEF Classify, CheckSteps, Request
  <2>5. row' \in [Request -> Message \cup {NoRow}]
    BY <1>2, <2>3 DEF Classify, TypeOK, Request
  <2> QED
    BY <1>2, <2>4, <2>5 DEF Classify, TypeOK, Control
<1>3. ASSUME NEW r \in Check, InsertMessage(r)
      PROVE  TypeOK'
  <2>1. row[r] \in Message
    BY <1>3 DEF InsertMessage, CheckShape, CheckAt, CheckSteps
  <2>2. Control'
    BY <1>3, ControlStep DEF InsertMessage, CheckSteps, Request
  <2> QED
    BY <1>3, <2>1, <2>2 DEF InsertMessage, TypeOK, Control
<1>4. ASSUME NEW r \in Check, FindCategory(r)
      PROVE  TypeOK'
  <2>1. Control'
    BY <1>4, ControlStep DEF FindCategory, CheckSteps, Request
  <2> QED
    BY <1>4, <2>1 DEF FindCategory, TypeOK, Control
<1>5. ASSUME NEW r \in Check, Detect(r)
      PROVE  TypeOK'
  <2>1. row[r] \in messages
    BY <1>5 DEF Detect, CheckShape, CheckAt
  <2>2. Control'
    BY <1>5, ControlStep DEF Detect, InsertDetection, CheckSteps, Request
  <2> QED
    BY <1>5, <2>1, <2>2 DEF Detect, InsertDetection, TypeOK, Control
<1>6. ASSUME NEW r \in Check, RaiseNumber(r)
      PROVE  TypeOK'
  <2>1. row[r].source \in Number
    BY <1>6 DEF RaiseNumber, CheckShape, CheckAt, Raises
  <2>2. Control'
    BY <1>6, ControlStep DEF RaiseNumber, CheckSteps, Request
  <2>3. count' \in [Number -> Nat] /\ risk' \in [Number -> 0..MaxRisk]
    BY <1>6, <2>1, NumberTypes, ReputationAssumption DEF RaiseNumber, TypeOK
  <2> QED
    BY <1>6, <2>2, <2>3 DEF RaiseNumber, TypeOK, Control
<1>7. ASSUME NEW r \in Feedback, NEW m \in messages, NEW f \in {"confirmed", "false_positive"},
             StartReport(r, m, f)
      PROVE  TypeOK'
  <2>1. Control'
    BY <1>7, ControlStep DEF StartReport, ReportSteps, Request
  <2> QED
    BY <1>7, <2>1 DEF StartReport, TypeOK, Control, Request
<1>8. ASSUME NEW r \in Feedback, CheckOwner(r)
      PROVE  TypeOK'
  <2>1. Control'
    BY <1>8, ControlStep DEF CheckOwner, ReportSteps, Request
  <2> QED
    BY <1>8, <2>1 DEF CheckOwner, TypeOK, Control
<1>9. ASSUME NEW r \in Feedback, InsertReport(r)
      PROVE  TypeOK'
  <2>1. [id |-> r, user |-> user[r], message |-> row[r], feedback |-> feedback[r]] \in Report
    BY <1>9 DEF InsertReport, ReportShape, ReportAt, ReportSteps, TypeOK, Report, Request
  <2>2. Control'
    BY <1>9, ControlStep DEF InsertReport, ReportSteps, Request
  <2> QED
    BY <1>9, <2>1, <2>2 DEF InsertReport, Reported, TypeOK, Control
<1>10. ASSUME NEW r \in Feedback, ReadSource(r)
       PROVE  TypeOK'
  <2>1. Control'
    BY <1>10, ControlStep DEF ReadSource, ReportSteps, Request
  <2> QED
    BY <1>10, <2>1 DEF ReadSource, TypeOK, Control
<1>11. ASSUME NEW r \in Feedback, ScoreReport(r)
       PROVE  TypeOK'
  <2>1. row[r].source \in Number
    BY <1>11 DEF ScoreReport, ReportShape, ReportAt
  <2>2. Control'
    BY <1>11, ControlStep DEF ScoreReport, Request
  <2>3. count' \in [Number -> Nat] /\ risk' \in [Number -> 0..MaxRisk]
    BY <1>11, <2>1, NumberTypes, ReputationAssumption DEF ScoreReport, TypeOK
  <2> QED
    BY <1>11, <2>2, <2>3 DEF ScoreReport, TypeOK, Control
<1>12. ASSUME NEW r \in Request, Abandon(r)
       PROVE  TypeOK'
  <2>1. Control'
    BY <1>12, ControlStep DEF Abandon
  <2> QED
    BY <1>12, <2>1 DEF Abandon, TypeOK, Control
<1>13. CASE UNCHANGED vars
  BY <1>13 DEF vars, TypeOK
<1> QED
  BY <1>1, <1>2, <1>3, <1>4, <1>5, <1>6, <1>7, <1>8, <1>9, <1>10, <1>11, <1>12, <1>13
  DEF Next

-----------------------------------------------------------------------------

(* A step is one request's, and rows are only ever added. *)
Others(r) ==
  /\ \A q \in Request \ {r} :
       /\ pc'[q] = pc[q] /\ results'[q] = results[q] /\ reply'[q] = reply[q]
       /\ items'[q] = items[q] /\ row'[q] = row[q] /\ feedback'[q] = feedback[q]
  /\ user' = user

Grows == messages \subseteq messages' /\ detections \subseteq detections'
                                      /\ reports \subseteq reports'

(* Every statement of a check leaves the other requests alone. *)
LEMMA CheckIsLocal ==
  ASSUME Inv, NEW r \in Check,
         \/ \E k \in 1..MaxItems : \E sources \in [1..k -> Source] : StartCheck(r, sources)
         \/ Classify(r) \/ InsertMessage(r) \/ FindCategory(r) \/ Detect(r) \/ RaiseNumber(r)
  PROVE  Others(r) /\ Grows
<1> USE DEF Inv, TypeOK, Others, Grows, Request, dbVars, numberVars
<1>1. ASSUME NEW x, FinishItem(r, x)
      PROVE  \A q \in Request \ {r} :
               pc'[q] = pc[q] /\ results'[q] = results[q] /\ reply'[q] = reply[q]
  BY <1>1 DEF FinishItem
<1>2. ASSUME NEW step, Goto(r, step)
      PROVE  \A q \in Request \ {r} :
               pc'[q] = pc[q] /\ results'[q] = results[q] /\ reply'[q] = reply[q]
  BY <1>2 DEF Goto
<1>3. ASSUME NEW k \in 1..MaxItems, NEW sources \in [1..k -> Source], StartCheck(r, sources)
      PROVE  Others(r) /\ Grows
  BY <1>2, <1>3 DEF StartCheck
<1>4. CASE Classify(r)
  BY <1>1, <1>2, <1>4 DEF Classify
<1>5. CASE InsertMessage(r)
  BY <1>1, <1>2, <1>5 DEF InsertMessage
<1>6. CASE FindCategory(r)
  BY <1>1, <1>2, <1>6 DEF FindCategory
<1>7. CASE Detect(r)
  BY <1>1, <1>2, <1>7 DEF Detect, InsertDetection
<1>8. CASE RaiseNumber(r)
  BY <1>1, <1>2, <1>8 DEF RaiseNumber
<1> QED
  BY <1>3, <1>4, <1>5, <1>6, <1>7, <1>8

(* So does every statement of a report, and an abandoned request. *)
LEMMA ReportIsLocal ==
  ASSUME Inv, NEW r \in Request,
         \/ \E m \in messages, f \in {"confirmed", "false_positive"} : StartReport(r, m, f)
         \/ CheckOwner(r) \/ InsertReport(r) \/ ReadSource(r) \/ ScoreReport(r) \/ Abandon(r)
  PROVE  Others(r) /\ Grows
<1> USE DEF Inv, TypeOK, Others, Grows, Request, dbVars, numberVars, Goto, Answer
<1>1. ASSUME NEW m \in messages, NEW f \in {"confirmed", "false_positive"}, StartReport(r, m, f)
      PROVE  Others(r) /\ Grows
  BY <1>1 DEF StartReport
<1>2. CASE CheckOwner(r)
  BY <1>2 DEF CheckOwner
<1>3. CASE InsertReport(r)
  BY <1>3 DEF InsertReport, Reported
<1>4. CASE ReadSource(r)
  BY <1>4 DEF ReadSource
<1>5. CASE ScoreReport(r)
  BY <1>5 DEF ScoreReport
<1>6. CASE Abandon(r)
  BY <1>6 DEF Abandon
<1> QED
  BY <1>1, <1>2, <1>3, <1>4, <1>5, <1>6

(* What holds at the statement a request is at keeps holding while others    *)
(* move.                                                                     *)
LEMMA ShapeIsLocal ==
  ASSUME Inv, NEW r \in Request, Others(r), Grows,
         r \in Check => CheckAt(r)', r \in Feedback => ReportAt(r)'
  PROVE  CheckShape' /\ ReportShape'
<1>1. ASSUME NEW q \in Check, q # r
      PROVE  CheckAt(q)'
  BY <1>1 DEF Inv, CheckShape, CheckAt, Others, Grows, Request, Position
<1>2. ASSUME NEW q \in Feedback, q # r
      PROVE  ReportAt(q)'
  BY <1>2 DEF Inv, ReportShape, ReportAt, Others, Grows, Request
<1> QED
  BY <1>1, <1>2 DEF CheckShape, ReportShape

(* The messages a check is asked for: at least one, and a sequence. *)
LEMMA SourcesLength ==
  ASSUME NEW k \in 1..MaxItems, NEW sources \in [1..k -> Source]
  PROVE  k \in Nat /\ k >= 1 /\ sources \in Seq(Source) /\ Len(sources) = k
<1>1. k \in Nat /\ k >= 1
  BY ReputationAssumption
<1>2. sources \in Seq(Source)
  BY <1>1, SeqDef
<1>3. Len(sources) \in Nat /\ 1..Len(sources) = 1..k
  BY <1>2, LenProperties
<1> QED
  BY <1>1, <1>2, <1>3

(* Each statement leaves its request in the shape the next one expects. *)
LEMMA ShapeStep ==
  ASSUME Inv, [Next]_vars
  PROVE  CheckShape' /\ ReportShape'
<1> USE DEF Inv, Request, dbVars, numberVars, Goto, Answer
<1>0. TypeOK
  OBVIOUS
<1>1. ASSUME NEW r \in Check, NEW k \in 1..MaxItems, NEW sources \in [1..k -> Source],
             StartCheck(r, sources)
      PROVE  CheckShape' /\ ReportShape'
  <2>1. k \in Nat /\ k >= 1 /\ Len(sources) = k
    BY SourcesLength
  <2>2. results[r] = <<>> /\ Len(results[r]) = 0 /\ reply[r] # "checked"
    <3>1. pc[r] = "new"
      BY <1>1 DEF StartCheck
    <3> QED
      BY <3>1, EmptySeq DEF CheckShape, CheckAt
  <2>3. pc'[r] = "classify" /\ results' = results /\ reply' = reply /\ items'[r] = sources
    BY <1>1 DEF StartCheck, TypeOK
  <2>4. CheckAt(r)'
    BY <2>1, <2>2, <2>3 DEF CheckAt, CheckSteps, Position
  <2> QED
    BY <1>1, <2>4, CheckIsLocal, ShapeIsLocal, ReputationAssumption
<1>2. ASSUME NEW r \in Check, NEW x \in {"ok", "error"}, FinishItem(r, x),
             pc[r] \in CheckSteps, UNCHANGED items, Others(r), Grows
      PROVE  CheckShape' /\ ReportShape'
  <2>1. Position(r) <= Len(items[r]) /\ Len(results[r]) \in Nat /\ Len(items[r]) \in Nat
    <3>1. Position(r) <= Len(items[r])
      BY <1>2 DEF CheckShape, CheckAt
    <3>2. Len(results[r]) \in Nat /\ Len(items[r]) \in Nat
      BY LenProperties DEF TypeOK
    <3> QED
      BY <3>1, <3>2
  <2>2. \/ pc'[r] = "done"
        \/ pc'[r] = "classify" /\ reply' = reply /\ Position(r) # Len(items[r])
    <3>1. \/ pc' = [pc EXCEPT ![r] = "done"]
          \/ /\ pc' = [pc EXCEPT ![r] = "classify"]
             /\ reply' = reply /\ Position(r) # Len(items[r])
      BY <1>2, Finished
    <3> QED
      BY <3>1 DEF TypeOK
  <2>3. Len(results'[r]) = Len(results[r]) + 1
    BY <1>2, Finished
  <2>4. reply[r] # "checked"
    BY <1>2 DEF CheckShape, CheckAt, CheckSteps
  <2>5. pc'[r] = "classify" => Len(results'[r]) + 1 <= Len(items'[r])
    BY <1>2, <2>1, <2>2, <2>3 DEF Position
  <2>6. CheckAt(r)'
    BY <2>2, <2>4, <2>5 DEF CheckAt, CheckSteps, Position
  <2> QED
    BY <1>2, <2>6, ShapeIsLocal, ReputationAssumption
<1>3. ASSUME NEW r \in Check, Classify(r)
      PROVE  CheckShape' /\ ReportShape'
  <2>1. Others(r) /\ Grows
    BY <1>3, CheckIsLocal
  <2>2. CASE FinishItem(r, "error")
    BY <1>2, <1>3, <2>1, <2>2 DEF Classify, CheckSteps
  <2>3. ASSUME NEW scam \in BOOLEAN, Goto(r, "insert"),
               row' = [row EXCEPT ![r] =
                 [id |-> <<r, Position(r)>>, user |-> user[r],
                  source |-> items[r][Position(r)], scam |-> scam]]
        PROVE  CheckAt(r)'
    <3>1. /\ row'[r].id = <<r, Position(r)>>
          /\ row'[r].source = items[r][Position(r)]
          /\ pc'[r] = "insert" /\ results' = results /\ reply' = reply /\ items' = items
      BY <1>3, <2>3 DEF Classify, TypeOK
    <3>2. Position(r) <= Len(items[r]) /\ reply[r] # "checked"
      BY <1>3 DEF CheckShape, CheckAt, Classify, CheckSteps
    <3>3. row'[r] \in Message
      <4>2. row'[r] = [id |-> <<r, Position(r)>>, user |-> user[r],
                       source |-> items[r][Position(r)], scam |-> scam]
        BY <2>3 DEF TypeOK
      <4>1. Len(results[r]) \in Nat /\ Len(items[r]) \in Nat
        BY LenProperties DEF TypeOK
      <4>3. Position(r) \in 1..Len(items[r]) /\ Position(r) \in Nat
        BY <3>2, <4>1 DEF Position
      <4>4. items[r][Position(r)] \in Source
        BY <4>3, ElementOfSeq DEF TypeOK
      <4>5. user[r] \in User
        BY DEF TypeOK
      <4> QED
        BY <4>2, <4>3, <4>4, <4>5 DEF Message
    <3> QED
      BY <3>1, <3>2, <3>3 DEF CheckAt, CheckSteps, Position
  <2> QED
    BY <1>3, <2>1, <2>2, <2>3, ShapeIsLocal, ReputationAssumption DEF Classify
<1>4. ASSUME NEW r \in Check, InsertMessage(r)
      PROVE  CheckShape' /\ ReportShape'
  <2>1. Others(r) /\ Grows
    BY <1>4, CheckIsLocal
  <2>2. CASE FinishItem(r, "error")
    BY <1>2, <1>4, <2>1, <2>2 DEF InsertMessage, CheckSteps
  <2>3. CASE messages' = messages \cup {row[r]} /\ Goto(r, "category")
    <3>1. CheckAt(r)'
      BY <1>4, <2>3 DEF InsertMessage, CheckShape, CheckAt, CheckSteps, Position, TypeOK
    <3> QED
      BY <2>1, <3>1, ShapeIsLocal, ReputationAssumption
  <2> QED
    BY <1>4, <2>2, <2>3 DEF InsertMessage
<1>5. ASSUME NEW r \in Check, FindCategory(r)
      PROVE  CheckShape' /\ ReportShape'
  <2>1. Others(r) /\ Grows
    BY <1>5, CheckIsLocal
  <2>2. CASE FinishItem(r, "error")
    BY <1>2, <1>5, <2>1, <2>2 DEF FindCategory, CheckSteps
  <2>3. CASE Goto(r, "detect")
    <3>1. CheckAt(r)'
      BY <1>5, <2>3 DEF FindCategory, CheckShape, CheckAt, CheckSteps, Position, TypeOK
    <3> QED
      BY <2>1, <3>1, ShapeIsLocal, ReputationAssumption
  <2> QED
    BY <1>5, <2>2, <2>3 DEF FindCategory
<1>6. ASSUME NEW r \in Check, Detect(r)
      PROVE  CheckShape' /\ ReportShape'
  <2>1. Others(r) /\ Grows
    BY <1>6, CheckIsLocal
  <2>2. ASSUME NEW x \in {"ok", "error"}, FinishItem(r, x)
        PROVE  CheckShape' /\ ReportShape'
    BY <1>2, <1>6, <2>1, <2>2 DEF Detect, CheckSteps
  <2>3. CASE detections' = detections \cup {row[r]} /\ Raises(row[r]) /\ Goto(r, "raise")
    <3>1. CheckAt(r)'
      BY <1>6, <2>3 DEF Detect, CheckShape, CheckAt, CheckSteps, Position, TypeOK
    <3> QED
      BY <2>1, <3>1, ShapeIsLocal, ReputationAssumption
  <2> QED
    BY <1>6, <2>2, <2>3 DEF Detect, InsertDetection
<1>7. ASSUME NEW r \in Check, RaiseNumber(r)
      PROVE  CheckShape' /\ ReportShape'
  <2>1. Others(r) /\ Grows
    BY <1>7, CheckIsLocal
  <2> QED
    BY <1>2, <1>7, <2>1 DEF RaiseNumber, CheckSteps
<1>8. ASSUME NEW r \in Feedback,
             \/ \E m \in messages, f \in {"confirmed", "false_positive"} : StartReport(r, m, f)
             \/ CheckOwner(r) \/ InsertReport(r) \/ ReadSource(r) \/ ScoreReport(r)
      PROVE  CheckShape' /\ ReportShape'
  <2>1. Others(r) /\ Grows /\ r \notin Check
    BY <1>8, ReportIsLocal, ReputationAssumption
  <2>2. ReportAt(r)'
    <3>1. ASSUME NEW m \in messages, NEW f \in {"confirmed", "false_positive"},
                 StartReport(r, m, f)
          PROVE  ReportAt(r)'
      BY <3>1, <2>1 DEF StartReport, ReportShape, ReportAt, ReportSteps, Grows, TypeOK
    <3>2. CASE CheckOwner(r)
      BY <3>2 DEF CheckOwner, MayReport, ReportShape, ReportAt, ReportSteps, TypeOK
    <3>3. CASE InsertReport(r)
      BY <3>3 DEF InsertReport, ReportShape, ReportAt, ReportSteps, TypeOK
    <3>4. CASE ReadSource(r)
      BY <3>4 DEF ReadSource, ReportShape, ReportAt, ReportSteps, TypeOK
    <3>5. CASE ScoreReport(r)
      BY <3>5 DEF ScoreReport, ReportShape, ReportAt, ReportSteps, TypeOK
    <3> QED
      BY <1>8, <3>1, <3>2, <3>3, <3>4, <3>5
  <2> QED
    BY <2>1, <2>2, ShapeIsLocal
<1>9. ASSUME NEW r \in Request, Abandon(r)
      PROVE  CheckShape' /\ ReportShape'
  <2>1. r \in Check => CheckAt(r)'
    BY <1>9 DEF Abandon, CheckShape, CheckAt, CheckSteps, Position, TypeOK
  <2>2. r \in Feedback => ReportAt(r)'
    BY <1>9 DEF Abandon, ReportShape, ReportAt, ReportSteps, TypeOK
  <2> QED
    BY <1>9, <2>1, <2>2, ReportIsLocal, ShapeIsLocal
<1>10. CASE UNCHANGED vars
  BY <1>10 DEF vars, CheckShape, CheckAt, ReportShape, ReportAt, Position
<1> QED
  BY <1>1, <1>3, <1>4, <1>5, <1>6, <1>7, <1>8, <1>9, <1>10 DEF Next

-----------------------------------------------------------------------------

(* How a step of r may move r past its rows, and which row it may add. *)
Advances(r) ==
  \/ /\ results' = results
     /\ pc[r] \in Stored => pc'[r] \in Stored
     /\ pc[r] \in Flagged => pc'[r] \in Flagged
     /\ pc[r] \in OnFile => pc'[r] \in OnFile
  \/ r \in Check /\ \E x \in {"ok", "error"} : FinishItem(r, x)

AddsRow(r) ==
  /\ \/ messages' = messages
     \/ /\ r \in Check /\ pc[r] = "insert"
        /\ messages' = messages \cup {row[r]}
        /\ Goto(r, "category") \/ FinishItem(r, "error")
  /\ \/ detections' = detections
     \/ /\ r \in Check /\ pc[r] = "detect"
        /\ detections' = detections \cup {row[r]}
        /\ Goto(r, "raise") \/ \E x \in {"ok", "error"} : FinishItem(r, x)
  /\ \/ reports' = reports
     \/ /\ r \in Feedback /\ pc[r] = "report"
        /\ reports' = Reported(r) /\ pc'[r] \in OnFile

(* Every step is some request's, in these ways. *)
LEMMA StepIsLocal ==
  ASSUME Inv, Next
  PROVE  \E r \in Request : Others(r) /\ Grows /\ Advances(r) /\ AddsRow(r)
<1> USE DEF Request, dbVars, numberVars, Goto, Answer
<1>0. TypeOK
  BY DEF Inv
<1>1. ASSUME NEW r \in Check, NEW k \in 1..MaxItems, NEW sources \in [1..k -> Source],
             StartCheck(r, sources)
      PROVE  Others(r) /\ Grows /\ Advances(r) /\ AddsRow(r)
  <2>1. Others(r) /\ Grows
    BY <1>1, CheckIsLocal
  <2> QED
    BY <1>1, <2>1 DEF StartCheck, Advances, AddsRow, Stored, Flagged, OnFile
<1>2. ASSUME NEW r \in Check,
             Classify(r) \/ InsertMessage(r) \/ FindCategory(r) \/ Detect(r) \/ RaiseNumber(r)
      PROVE  Others(r) /\ Grows /\ Advances(r) /\ AddsRow(r)
  <2>1. Others(r) /\ Grows
    BY <1>2, CheckIsLocal
  <2>2. Advances(r)
    BY <1>0, <1>2 DEF TypeOK, Classify, InsertMessage, FindCategory, Detect, InsertDetection,
       RaiseNumber, Advances, Stored, Flagged, OnFile
  <2>3. AddsRow(r)
    BY <1>2 DEF Classify, InsertMessage, FindCategory, Detect, InsertDetection,
       RaiseNumber, AddsRow
  <2> QED
    BY <2>1, <2>2, <2>3
<1>3. ASSUME NEW r \in Feedback,
             \/ \E m \in messages, f \in {"confirmed", "false_positive"} : StartReport(r, m, f)
             \/ CheckOwner(r) \/ InsertReport(r) \/ ReadSource(r) \/ ScoreReport(r)
      PROVE  Others(r) /\ Grows /\ Advances(r) /\ AddsRow(r)
  <2>1. Others(r) /\ Grows
    BY <1>3, ReportIsLocal
  <2>2. Advances(r)
    BY <1>0, <1>3 DEF TypeOK, StartReport, CheckOwner, InsertReport, ReadSource, ScoreReport,
       Advances, Stored, Flagged, OnFile
  <2>3. AddsRow(r)
    BY <1>0, <1>3 DEF TypeOK, StartReport, CheckOwner, InsertReport, ReadSource, ScoreReport,
       AddsRow, OnFile
  <2> QED
    BY <2>1, <2>2, <2>3
<1>4. ASSUME NEW r \in Request, Abandon(r)
      PROVE  Others(r) /\ Grows /\ Advances(r) /\ AddsRow(r)
  <2>1. Others(r) /\ Grows
    BY <1>4, ReportIsLocal
  <2> QED
    BY <1>0, <1>4, <2>1 DEF TypeOK, Abandon, Advances, AddsRow, Stored, Flagged, OnFile
<1> QED
  BY <1>1, <1>2, <1>3, <1>4 DEF Next

(* A stored message belongs to a check that is at it or past it, and only    *)
(* one message has its id.                                                   *)
LEMMA FiledStep ==
  ASSUME Inv, NEW r \in Request, Others(r), Advances(r), AddsRow(r)
  PROVE  Filed'
<1> USE DEF Request
<1>0. TypeOK
  BY DEF Inv
<1>1. \A m \in messages : m.id[1] \in Check /\ m.id[2] \in Nat
  BY <1>0 DEF TypeOK, Message, Inv, Filed
<1>2. \A q \in Request : Len(results[q]) \in Nat
  BY <1>0, LenProperties DEF TypeOK
<1>3. ASSUME NEW x \in {"ok", "error"}, r \in Check, FinishItem(r, x)
      PROVE  Len(results'[r]) = Len(results[r]) + 1
  BY <1>0, <1>3, Finished
<1>4. ASSUME NEW m \in messages
      PROVE  \/ m.id[2] <= Len(results'[m.id[1]])
             \/ m.id[2] = Len(results'[m.id[1]]) + 1 /\ pc'[m.id[1]] \in Stored
  <2>1. \/ m.id[2] <= Len(results[m.id[1]])
        \/ m.id[2] = Len(results[m.id[1]]) + 1 /\ pc[m.id[1]] \in Stored
    BY DEF Inv, Filed, Position
  <2>2. CASE m.id[1] # r
    BY <1>1, <2>1, <2>2 DEF Others
  <2>3. CASE m.id[1] = r
    BY <1>1, <1>2, <1>3, <2>1, <2>3 DEF Advances
  <2> QED
    BY <2>2, <2>3
<1>5. CASE messages' = messages
  BY <1>1, <1>4, <1>5 DEF Filed, Position, Inv
<1>6. ASSUME r \in Check, pc[r] = "insert", messages' = messages \cup {row[r]},
             Goto(r, "category") \/ FinishItem(r, "error")
      PROVE  Filed'
  <2>1. row[r].id = <<r, Position(r)>>
    BY <1>6 DEF Inv, CheckShape, CheckAt, CheckSteps
  <2>2. row[r].id[1] = r /\ row[r].id[2] = Len(results[r]) + 1
    BY <2>1 DEF Position
  <2>3. \/ row[r].id[2] <= Len(results'[r])
        \/ row[r].id[2] = Len(results'[r]) + 1 /\ pc'[r] \in Stored
    <3>1. CASE Goto(r, "category")
      BY <1>0, <2>2, <3>1 DEF Goto, Stored, TypeOK
    <3>2. CASE FinishItem(r, "error")
      BY <1>2, <1>3, <1>6, <2>2, <3>2
    <3> QED
      BY <1>6, <3>1, <3>2
  <2>4. \A o \in messages : o.id # row[r].id
    BY <1>0, <1>2, <1>6, <2>2 DEF Inv, Filed, Stored
  <2> QED
    BY <1>1, <1>4, <1>6, <2>2, <2>3, <2>4 DEF Filed, Position, Inv
<1> QED
  BY <1>5, <1>6 DEF AddsRow

(* A detection belongs to a check past the insertion of it. *)
LEMMA DetectedStep ==
  ASSUME Inv, NEW r \in Request, Others(r), Advances(r), AddsRow(r)
  PROVE  Detected'
<1> USE DEF Request
<1>0. TypeOK
  BY DEF Inv
<1>1. \A m \in messages : m.id[1] \in Check /\ m.id[2] \in Nat
  BY <1>0 DEF TypeOK, Message, Inv, Filed
<1>2. \A q \in Request : Len(results[q]) \in Nat
  BY <1>0, LenProperties DEF TypeOK
<1>3. ASSUME NEW x \in {"ok", "error"}, r \in Check, FinishItem(r, x)
      PROVE  Len(results'[r]) = Len(results[r]) + 1
  BY <1>0, <1>3, Finished
<1>4. ASSUME NEW m \in detections
      PROVE  m.id[2] <= Len(results'[m.id[1]]) \/ pc'[m.id[1]] \in Flagged
  <2>1. m \in messages
    BY <1>0 DEF TypeOK
  <2>2. \/ m.id[2] <= Len(results[m.id[1]])
        \/ m.id[2] = Len(results[m.id[1]]) + 1 /\ pc[m.id[1]] \in Flagged
    BY <2>1 DEF Inv, Filed, Detected, Position
  <2>3. CASE m.id[1] # r
    BY <1>1, <2>1, <2>2, <2>3 DEF Others
  <2>4. CASE m.id[1] = r
    BY <1>1, <1>2, <1>3, <2>1, <2>2, <2>4 DEF Advances
  <2> QED
    BY <2>3, <2>4
<1>5. CASE detections' = detections
  BY <1>4, <1>5 DEF Detected
<1>6. ASSUME r \in Check, pc[r] = "detect", detections' = detections \cup {row[r]},
             Goto(r, "raise") \/ \E x \in {"ok", "error"} : FinishItem(r, x)
      PROVE  Detected'
  <2>1. row[r].id = <<r, Position(r)>>
    BY <1>6 DEF Inv, CheckShape, CheckAt, CheckSteps
  <2>2. row[r].id[1] = r /\ row[r].id[2] = Len(results[r]) + 1
    BY <2>1 DEF Position
  <2>3. row[r].id[2] <= Len(results'[r]) \/ pc'[r] \in Flagged
    <3>1. CASE Goto(r, "raise")
      BY <1>0, <2>2, <3>1 DEF Goto, Flagged, TypeOK
    <3>2. ASSUME NEW x \in {"ok", "error"}, FinishItem(r, x)
          PROVE  row[r].id[2] <= Len(results'[r])
      BY <1>2, <1>3, <1>6, <2>2, <3>2
    <3> QED
      BY <1>6, <3>1, <3>2
  <2> QED
    BY <1>4, <1>6, <2>2, <2>3 DEF Detected
<1> QED
  BY <1>5, <1>6 DEF AddsRow

(* A report on file belongs to a request past its insertion; and both tables *)
(* stay finite.                                                              *)
LEMMA SubmittedStep ==
  ASSUME Inv, NEW r \in Request, Others(r), Advances(r), AddsRow(r)
  PROVE  Submitted' /\ Finite'
<1>1. Finite'
  <2>1. messages' = messages \/ messages' = messages \cup {row[r]}
    BY DEF AddsRow
  <2>2. \E x : reports' = reports \/ reports' = reports \cup {x}
    BY DEF AddsRow, Reported
  <2> QED
    BY <2>1, <2>2, FS_AddElement DEF Inv, Finite
<1>2. ASSUME NEW p \in reports
      PROVE  p.id \in Feedback /\ pc'[p.id] \in OnFile
  <2>1. p.id \in Feedback /\ p.id \notin Check /\ pc[p.id] \in OnFile
    BY ReputationAssumption DEF Inv, Submitted
  <2>2. CASE p.id = r
    BY <2>1, <2>2 DEF Advances
  <2>3. CASE p.id # r
    BY <2>1, <2>3 DEF Others, Request
  <2> QED
    BY <2>1, <2>2, <2>3
<1>3. CASE reports' = reports
  BY <1>1, <1>2, <1>3 DEF Submitted
<1>4. CASE r \in Feedback /\ reports' = Reported(r) /\ pc'[r] \in OnFile
  BY <1>1, <1>2, <1>4 DEF Submitted, Reported
<1> QED
  BY <1>1, <1>3, <1>4 DEF AddsRow

-----------------------------------------------------------------------------
(* The invariant, and what it gives at once. *)

(* The invariant holds at the start, *)
LEMMA InitInv == Init => Inv
<1> SUFFICES ASSUME Init PROVE Inv
  OBVIOUS
<1>1. TypeOK
  BY ReputationAssumption, EmptySeq DEF Init, TypeOK, Request
<1>2. Finite
  BY FS_EmptySet DEF Init, Finite
<1> QED
  BY <1>1, <1>2 DEF Inv, Init, CheckShape, CheckAt, ReportShape, ReportAt, CheckSteps, ReportSteps,
     Filed, Detected, Submitted, Request, TypeOK

(* and every step keeps it. *)
LEMMA StepInv == Inv /\ [Next]_vars => Inv'
<1> SUFFICES ASSUME Inv, [Next]_vars PROVE Inv'
  OBVIOUS
<1>1. TypeOK' /\ CheckShape' /\ ReportShape'
  BY TypeStep, ShapeStep
<1>2. CASE Next
  <2> PICK r \in Request : Others(r) /\ Grows /\ Advances(r) /\ AddsRow(r)
    BY <1>2, StepIsLocal
  <2> QED
    BY <1>1, FiledStep, DetectedStep, SubmittedStep DEF Inv
<1>3. CASE UNCHANGED vars
  BY <1>1, <1>3 DEF Inv, vars, Filed, Detected, Submitted, Finite, Position
<1> QED
  BY <1>2, <1>3

(* So it always holds. *)
THEOREM Inductive == Spec => []Inv
<1> QED
  BY InitInv, StepInv, PTL DEF Spec

(* Every variable keeps its type: no score leaves 0..MaxRisk although three  *)
(* statements of two services move it.                                       *)
THEOREM TypeCorrect == Spec => []TypeOK
<1>1. Inv => TypeOK
  BY DEF Inv
<1> QED
  BY <1>1, Inductive, PTL

-----------------------------------------------------------------------------
(* Counting the evidence. *)

(* The checks that have stored a scam of n and not yet raised n; the reports *)
(* on file that confirm one and have not yet scored it.                      *)
Due(n) == {r \in Check : pc[r] = "raise" /\ row[r].source = n}

Vouched(n) ==
  {r \in Feedback :
     pc[r] \in {"source", "score"} /\ feedback[r] = "confirmed" /\ row[r].source = n}

(* The ways a step may bear on a number: it only adds evidence or drops a    *)
(* claim; a scam is stored, or charged for; a confirmation is stored, or     *)
(* charged for.                                                              *)
Idles(n) ==
  /\ count'[n] = count[n] /\ risk'[n] <= risk[n]
  /\ Due(n)' \subseteq Due(n) /\ Vouched(n)' \subseteq Vouched(n)
  /\ ScamsFrom(n) \subseteq ScamsFrom(n)' /\ Confirmed(n) \subseteq Confirmed(n)'

FilesScam(n, r) ==
  /\ count' = count /\ risk' = risk
  /\ Due(n)' \subseteq Due(n) \cup {r} /\ Vouched(n)' = Vouched(n)
  /\ row[r] \notin ScamsFrom(n) /\ ScamsFrom(n)' = ScamsFrom(n) \cup {row[r]}
  /\ Confirmed(n)' = Confirmed(n)

ChargesScam(n, r) ==
  /\ count'[n] = count[n] + 1 /\ risk'[n] <= risk[n] + ScamIncrement
  /\ r \in Due(n) /\ Due(n)' = Due(n) \ {r} /\ Vouched(n)' = Vouched(n)
  /\ ScamsFrom(n)' = ScamsFrom(n) /\ Confirmed(n)' = Confirmed(n)

FilesReport(n, r, p) ==
  /\ count' = count /\ risk' = risk
  /\ Due(n)' = Due(n) /\ Vouched(n)' \subseteq Vouched(n) \cup {r}
  /\ ScamsFrom(n)' = ScamsFrom(n)
  /\ p \notin Confirmed(n) /\ Confirmed(n)' = Confirmed(n) \cup {p}

ChargesReport(n, r) ==
  /\ count'[n] = count[n] + 1 /\ risk'[n] <= risk[n] + ReportStep
  /\ Due(n)' = Due(n) /\ r \in Vouched(n) /\ Vouched(n)' = Vouched(n) \ {r}
  /\ ScamsFrom(n)' = ScamsFrom(n) /\ Confirmed(n)' = Confirmed(n)

Bears(n) ==
  \/ Idles(n)
  \/ \E r \in Check : FilesScam(n, r) \/ ChargesScam(n, r)
  \/ \E r \in Feedback : ChargesReport(n, r) \/ \E p : FilesReport(n, r, p)

(* Scores are numbers, hence comparable. *)
LEMMA ScoreIsNat ==
  ASSUME TypeOK, NEW n \in Number
  PROVE  count[n] \in Nat /\ risk[n] \in Nat /\ risk[n] \in 0..MaxRisk /\ risk[n] <= risk[n]
<1>1. count[n] \in Nat /\ risk[n] \in 0..MaxRisk
  BY DEF TypeOK
<1>2. MaxRisk \in Nat
  BY ReputationAssumption
<1> QED
  BY <1>1, <1>2

(* What the two updates do to a number. *)
LEMMA ScoreMoves ==
  ASSUME TypeOK, NEW n \in Number, NEW m \in Number, NEW by \in Nat
  PROVE  /\ RegisterScam(m, by) /\ m = n =>
              count'[n] = count[n] + 1 /\ risk'[n] <= risk[n] + by
         /\ RegisterScam(m, by) /\ m # n => count'[n] = count[n] /\ risk'[n] = risk[n]
         /\ RegisterFalsePositive(m, by) => count'[n] = count[n] /\ risk'[n] <= risk[n]
<1>1. \A k \in 0..MaxRisk : Capped(k + by) <= k + by /\ Floored(k, by) <= k
  BY ReputationAssumption DEF Capped, Floored
<1>2. risk[n] \in 0..MaxRisk /\ risk[n] <= risk[n] /\ risk[m] \in 0..MaxRisk
  BY ScoreIsNat
<1> QED
  BY <1>1, <1>2 DEF RegisterScam, RegisterFalsePositive, TypeOK

(* A step that adds no row and starts no charge leaves the balance alone.    *)
LEMMA IdleStep ==
  ASSUME TypeOK, NEW r \in Request, Others(r), Grows, NEW n \in Number,
         count'[n] = count[n], risk'[n] <= risk[n],
         r \in Check => pc'[r] # "raise",
         r \in Feedback /\ pc'[r] \in {"source", "score"} =>
           /\ pc[r] \in {"source", "score"} \/ feedback'[r] # "confirmed" \/ row'[r].source # n
           /\ feedback'[r] = feedback[r] /\ row'[r] = row[r]
  PROVE  Idles(n)
<1>1. Due(n)' \subseteq Due(n)
  BY DEF Due, Others, Request
<1>2. Vouched(n)' \subseteq Vouched(n)
  BY DEF Vouched, Others, Request
<1>3. ScamsFrom(n) \subseteq ScamsFrom(n)' /\ Confirmed(n) \subseteq Confirmed(n)'
  BY DEF ScamsFrom, Confirmed, Grows
<1> QED
  BY <1>1, <1>2, <1>3 DEF Idles

(* A step of a check bears on a number in one of the ways above. *)
LEMMA CheckBears ==
  ASSUME Inv, NEW r \in Check, NEW n \in Number,
         \/ \E k \in 1..MaxItems : \E sources \in [1..k -> Source] : StartCheck(r, sources)
         \/ Classify(r) \/ InsertMessage(r) \/ FindCategory(r) \/ Detect(r) \/ RaiseNumber(r)
  PROVE  Bears(n)
<1> USE DEF Inv, dbVars, numberVars
<1>1. Others(r) /\ Grows /\ r \in Request /\ r \notin Feedback
  BY CheckIsLocal, ReputationAssumption DEF Request
<1>2. risk[n] <= risk[n] /\ pc \in [Request -> {"new", "done"} \cup CheckSteps \cup ReportSteps]
  BY ScoreIsNat DEF TypeOK
<1>3. ASSUME NEW x \in {"ok", "error"}, FinishItem(r, x)
      PROVE  pc'[r] # "raise"
  BY <1>1, <1>2, <1>3 DEF FinishItem
<1>4. ASSUME NEW step, Goto(r, step)
      PROVE  pc'[r] = step
  BY <1>1, <1>2, <1>4 DEF Goto
<1>5. ASSUME pc'[r] # "raise", count'[n] = count[n], risk'[n] <= risk[n]
      PROVE  Bears(n)
  BY <1>1, <1>5, IdleStep DEF Bears
<1>6. ASSUME NEW k \in 1..MaxItems, NEW sources \in [1..k -> Source], StartCheck(r, sources)
      PROVE  Bears(n)
  BY <1>2, <1>4, <1>5, <1>6 DEF StartCheck
<1>7. CASE Classify(r)
  BY <1>2, <1>3, <1>4, <1>5, <1>7 DEF Classify
<1>8. CASE InsertMessage(r)
  BY <1>2, <1>3, <1>4, <1>5, <1>8 DEF InsertMessage
<1>9. CASE FindCategory(r)
  BY <1>2, <1>3, <1>4, <1>5, <1>9 DEF FindCategory
<1>10. CASE Detect(r)
  <2>1. CASE \E x \in {"ok", "error"} : FinishItem(r, x)
    BY <1>2, <1>3, <1>5, <1>10, <2>1 DEF Detect
  <2>2. CASE detections' = detections \cup {row[r]} /\ Raises(row[r]) /\ Goto(r, "raise")
    <3>1. row' = row /\ reports' = reports /\ feedback' = feedback /\ count' = count /\ risk' = risk
      BY <1>10 DEF Detect
    <3>2. row[r].id = <<r, Position(r)>> /\ Len(results[r]) \in Nat
      BY <1>1, <1>10, LenProperties DEF Detect, CheckShape, CheckAt, CheckSteps, TypeOK
    <3>3. row[r] \notin detections
      BY <1>10, <3>2 DEF Detected, Detect, Flagged, Position
    <3>4. Vouched(n)' = Vouched(n) /\ Confirmed(n)' = Confirmed(n)
      BY <1>1, <3>1 DEF Vouched, Confirmed, Others, Request
    <3>5. CASE row[r].source = n
      <4>1. ScamsFrom(n)' = ScamsFrom(n) \cup {row[r]} /\ row[r] \notin ScamsFrom(n)
        BY <2>2, <3>3, <3>5 DEF ScamsFrom, Raises
      <4>2. Due(n)' \subseteq Due(n) \cup {r}
        BY <1>1, <3>1 DEF Due, Others, Request
      <4> QED
        BY <3>1, <3>4, <4>1, <4>2 DEF Bears, FilesScam
    <3>6. CASE row[r].source # n
      <4>1. Due(n)' \subseteq Due(n)
        BY <1>1, <3>1, <3>6 DEF Due, Others, Request
      <4>2. ScamsFrom(n) \subseteq ScamsFrom(n)'
        BY <1>1 DEF ScamsFrom, Grows
      <4> QED
        BY <1>2, <3>1, <3>4, <4>1, <4>2 DEF Bears, Idles
    <3> QED
      BY <3>5, <3>6
  <2> QED
    BY <1>10, <2>1, <2>2 DEF Detect, InsertDetection
<1>11. CASE RaiseNumber(r)
  <2>1. /\ row[r].source \in Number /\ pc[r] = "raise" /\ pc'[r] # "raise"
        /\ row' = row /\ reports' = reports /\ feedback' = feedback /\ detections' = detections
    BY <1>3, <1>11 DEF RaiseNumber, CheckShape, CheckAt, Raises
  <2>2. CASE UNCHANGED numberVars
    BY <1>2, <1>5, <2>1, <2>2
  <2>3. CASE RegisterScam(row[r].source, ScamIncrement) /\ row[r].source # n
    <3>1. count'[n] = count[n] /\ risk'[n] = risk[n]
      BY <2>1, <2>3, ScoreMoves, ReputationAssumption
    <3> QED
      BY <1>2, <1>5, <2>1, <3>1
  <2>4. CASE RegisterScam(row[r].source, ScamIncrement) /\ row[r].source = n
    <3>1. count'[n] = count[n] + 1 /\ risk'[n] <= risk[n] + ScamIncrement
      BY <2>4, ScoreMoves, ReputationAssumption
    <3>2. r \in Due(n) /\ Due(n)' = Due(n) \ {r}
      BY <1>1, <2>1, <2>4 DEF Due, Others, Request
    <3>3. Vouched(n)' = Vouched(n) /\ Confirmed(n)' = Confirmed(n) /\ ScamsFrom(n)' = ScamsFrom(n)
      BY <1>1, <2>1 DEF Vouched, Confirmed, ScamsFrom, Others, Request
    <3> QED
      BY <3>1, <3>2, <3>3 DEF Bears, ChargesScam
  <2> QED
    BY <1>11, <2>2, <2>3, <2>4 DEF RaiseNumber
<1> QED
  BY <1>6, <1>7, <1>8, <1>9, <1>10, <1>11

(* So does a step of a report, and an abandoned request. *)
LEMMA ReportBears ==
  ASSUME Inv, NEW r \in Request, NEW n \in Number,
         \/ /\ r \in Feedback
            /\ \/ \E m \in messages, f \in {"confirmed", "false_positive"} : StartReport(r, m, f)
               \/ CheckOwner(r) \/ InsertReport(r) \/ ReadSource(r) \/ ScoreReport(r)
         \/ Abandon(r)
  PROVE  Bears(n)
<1> USE DEF Inv, dbVars, numberVars, Goto, Answer
<1>1. Others(r) /\ Grows /\ ~(r \in Check /\ r \in Feedback)
  BY ReportIsLocal, ReputationAssumption
<1>2. risk[n] <= risk[n] /\ pc \in [Request -> {"new", "done"} \cup CheckSteps \cup ReportSteps]
  BY ScoreIsNat DEF TypeOK
<1>3. ASSUME pc'[r] \in {"done", "owner", "report"}, count'[n] = count[n], risk'[n] <= risk[n]
      PROVE  Bears(n)
  BY <1>1, <1>3, IdleStep DEF Bears
<1>4. ASSUME NEW m \in messages, NEW f \in {"confirmed", "false_positive"}, StartReport(r, m, f)
      PROVE  Bears(n)
  BY <1>2, <1>3, <1>4 DEF StartReport
<1>5. CASE CheckOwner(r)
  BY <1>2, <1>3, <1>5 DEF CheckOwner
<1>6. CASE r \in Feedback /\ ReadSource(r)
  <2>1. CASE pc'[r] = "done"
    BY <1>2, <1>3, <1>6, <2>1 DEF ReadSource
  <2>2. CASE Goto(r, "score")
    BY <1>1, <1>2, <1>6, <2>2, IdleStep DEF ReadSource, Bears
  <2> QED
    BY <1>2, <1>6, <2>1, <2>2 DEF ReadSource
<1>7. CASE Abandon(r)
  BY <1>2, <1>3, <1>7 DEF Abandon
<1>8. CASE r \in Feedback /\ InsertReport(r)
  <2>1. CASE pc'[r] = "done"
    BY <1>2, <1>3, <1>8, <2>1 DEF InsertReport
  <2>2. CASE reports' = Reported(r) /\ Goto(r, "source")
    <3> DEFINE p == [id |-> r, user |-> user[r], message |-> row[r], feedback |-> feedback[r]]
    <3>1. /\ row' = row /\ feedback' = feedback /\ detections' = detections
          /\ count' = count /\ risk' = risk /\ pc[r] = "report" /\ pc'[r] = "source"
      BY <1>2, <1>8, <2>2 DEF InsertReport
    <3>2. p \notin reports
      BY <3>1 DEF Submitted, OnFile
    <3>3. Due(n)' = Due(n) /\ ScamsFrom(n)' = ScamsFrom(n)
      BY <1>1, <1>8, <3>1 DEF Due, ScamsFrom, Others, Request
    <3>4. CASE feedback[r] = "confirmed" /\ row[r].source = n
      <4>1. Confirmed(n)' = Confirmed(n) \cup {p} /\ p \notin Confirmed(n)
        BY <2>2, <3>2, <3>4 DEF Confirmed, Reported
      <4>2. Vouched(n)' \subseteq Vouched(n) \cup {r}
        BY <1>1, <3>1 DEF Vouched, Others, Request
      <4> QED
        BY <1>8, <3>1, <3>3, <4>1, <4>2 DEF Bears, FilesReport
    <3>5. CASE ~(feedback[r] = "confirmed" /\ row[r].source = n)
      <4>1. count'[n] = count[n] /\ risk'[n] <= risk[n]
        BY <1>2, <3>1
      <4> QED
        BY <1>1, <1>8, <3>1, <3>5, <4>1, IdleStep DEF Bears
    <3> QED
      BY <3>4, <3>5
  <2> QED
    BY <1>2, <1>8, <2>1, <2>2 DEF InsertReport
<1>9. CASE r \in Feedback /\ ScoreReport(r)
  <2>1. /\ row[r].source \in Number /\ pc[r] = "score" /\ pc'[r] = "done"
        /\ row' = row /\ reports' = reports /\ feedback' = feedback /\ detections' = detections
    BY <1>2, <1>9 DEF ScoreReport, ReportShape, ReportAt
  <2>2. CASE UNCHANGED numberVars
    BY <1>2, <1>3, <2>1, <2>2
  <2>3. CASE RegisterFalsePositive(row[r].source, ReportStep)
    <3>1. count'[n] = count[n] /\ risk'[n] <= risk[n]
      BY <2>1, <2>3, ScoreMoves, ReputationAssumption
    <3> QED
      BY <1>3, <2>1, <3>1
  <2>4. CASE RegisterScam(row[r].source, ReportStep) /\ row[r].source # n
    <3>1. count'[n] = count[n] /\ risk'[n] = risk[n]
      BY <2>1, <2>4, ScoreMoves, ReputationAssumption
    <3> QED
      BY <1>2, <1>3, <2>1, <3>1
  <2>5. CASE feedback[r] = "confirmed" /\ RegisterScam(row[r].source, ReportStep)
             /\ row[r].source = n
    <3>1. count'[n] = count[n] + 1 /\ risk'[n] <= risk[n] + ReportStep
      BY <2>5, ScoreMoves, ReputationAssumption
    <3>2. r \in Vouched(n) /\ Vouched(n)' = Vouched(n) \ {r}
      BY <1>1, <1>9, <2>1, <2>5 DEF Vouched, Others, Request
    <3>3. Due(n)' = Due(n) /\ Confirmed(n)' = Confirmed(n) /\ ScamsFrom(n)' = ScamsFrom(n)
      BY <1>1, <1>9, <2>1 DEF Due, Confirmed, ScamsFrom, Others, Request
    <3> QED
      BY <1>9, <3>1, <3>2, <3>3 DEF Bears, ChargesReport
  <2> QED
    BY <1>9, <2>2, <2>3, <2>4, <2>5 DEF ScoreReport
<1> QED
  BY <1>4, <1>5, <1>6, <1>7, <1>8, <1>9

(* Every step bears on every number in one of the ways above. *)
LEMMA EveryStepBears ==
  ASSUME Inv, [Next]_vars, NEW n \in Number
  PROVE  Bears(n)
<1>1. CASE Next
  BY <1>1, CheckBears, ReportBears DEF Next, Request
<1>2. CASE UNCHANGED vars
  BY <1>2, ScoreIsNat DEF Inv, vars, Bears, Idles, Due, Vouched, ScamsFrom, Confirmed
<1> QED
  BY <1>1, <1>2

-----------------------------------------------------------------------------
(* The balance: what a number has been charged with, plus what it is still   *)
(* to be charged with, is covered by the evidence on file.                   *)

Backed ==
  \A n \in Number :
    count[n] + Cardinality(Due(n)) + Cardinality(Vouched(n))
      <= Cardinality(ScamsFrom(n)) + Cardinality(Confirmed(n))

Earned ==
  \A n \in Number :
    risk[n] + ScamIncrement * Cardinality(Due(n)) + ReportStep * Cardinality(Vouched(n))
      <= ScamIncrement * Cardinality(ScamsFrom(n)) + ReportStep * Cardinality(Confirmed(n))

(* All four sets are finite, so their sizes are numbers. *)
LEMMA AllFinite ==
  ASSUME Inv, NEW n \in Number
  PROVE  /\ IsFiniteSet(Due(n)) /\ Cardinality(Due(n)) \in Nat
         /\ IsFiniteSet(Vouched(n)) /\ Cardinality(Vouched(n)) \in Nat
         /\ IsFiniteSet(ScamsFrom(n)) /\ Cardinality(ScamsFrom(n)) \in Nat
         /\ IsFiniteSet(Confirmed(n)) /\ Cardinality(Confirmed(n)) \in Nat
<1>1. /\ Due(n) \in SUBSET Check /\ Vouched(n) \in SUBSET Feedback
      /\ ScamsFrom(n) \in SUBSET messages /\ Confirmed(n) \in SUBSET reports
  BY DEF Due, Vouched, ScamsFrom, Confirmed, Inv, TypeOK
<1>2. /\ IsFiniteSet(Check) /\ IsFiniteSet(Feedback)
      /\ IsFiniteSet(messages) /\ IsFiniteSet(reports)
  BY ReputationAssumption DEF Inv, Finite
<1>3. /\ IsFiniteSet(Due(n)) /\ IsFiniteSet(Vouched(n))
      /\ IsFiniteSet(ScamsFrom(n)) /\ IsFiniteSet(Confirmed(n))
  BY <1>1, <1>2, FS_Subset
<1> QED
  BY <1>3, FS_CardinalityType

(* The same after a step. *)
LEMMA FinitePrimed ==
  ASSUME Inv', NEW n \in Number
  PROVE  /\ IsFiniteSet(Due(n)') /\ IsFiniteSet(Vouched(n)')
         /\ IsFiniteSet(ScamsFrom(n)') /\ IsFiniteSet(Confirmed(n)')
<1>1. /\ Due(n)' \in SUBSET Check /\ Vouched(n)' \in SUBSET Feedback
      /\ ScamsFrom(n)' \in SUBSET messages' /\ Confirmed(n)' \in SUBSET reports'
  BY DEF Due, Vouched, ScamsFrom, Confirmed, Inv, TypeOK
<1>2. /\ IsFiniteSet(Check) /\ IsFiniteSet(Feedback)
      /\ IsFiniteSet(messages') /\ IsFiniteSet(reports')
  BY ReputationAssumption DEF Inv, Finite
<1> QED
  BY <1>1, <1>2, FS_Subset

(* A bound that grows with the evidence grows with each step as it must.     *)
LEMMA Weigh ==
  ASSUME NEW a \in Nat, NEW x \in Nat, NEW y \in Nat
  PROVE  /\ a * x \in Nat /\ a * (x + 1) = a * x + a
         /\ x <= y => a * x <= a * y
<1>1. a * x \in Nat /\ a * (x + 1) = a * x + a
  OBVIOUS
<1>2. ASSUME x <= y
      PROVE  a * x <= a * y
  <2>1. a * (y - x) >= 0 /\ a * y = a * x + a * (y - x)
    BY <1>2
  <2> QED
    BY <1>2, <2>1
<1> QED
  BY <1>1, <1>2

(* The arithmetic of a step: c charged, d and v claims, s and k evidence.    *)
Moves(c, d, v, s, k, cc, dd, vv, ss, kk, a, b) ==
  \/ cc <= c /\ dd <= d /\ vv <= v /\ s <= ss /\ k <= kk
  \/ cc = c /\ dd <= d + 1 /\ vv = v /\ ss = s + 1 /\ kk = k
  \/ cc <= c + a /\ d = dd + 1 /\ vv = v /\ ss = s /\ kk = k
  \/ cc = c /\ dd = d /\ vv <= v + 1 /\ ss = s /\ kk = k + 1
  \/ cc <= c + b /\ dd = d /\ v = vv + 1 /\ ss = s /\ kk = k

Numbers(c, d, v, s, k, cc, dd, vv, ss, kk, a, b) ==
  /\ c \in Nat /\ d \in Nat /\ v \in Nat /\ s \in Nat /\ k \in Nat
  /\ cc \in Nat /\ dd \in Nat /\ vv \in Nat /\ ss \in Nat /\ kk \in Nat
  /\ a \in Nat /\ b \in Nat

Covers(c, d, v, s, k, a, b) == c + a * d + b * v <= a * s + b * k

LEMMA Balance ==
  ASSUME NEW c, NEW d, NEW v, NEW s, NEW k, NEW cc, NEW dd, NEW vv, NEW ss, NEW kk,
         NEW a, NEW b, Numbers(c, d, v, s, k, cc, dd, vv, ss, kk, a, b),
         Moves(c, d, v, s, k, cc, dd, vv, ss, kk, a, b),
         Covers(c, d, v, s, k, a, b)
  PROVE  Covers(cc, dd, vv, ss, kk, a, b)
<1> DEFINE D == a * d  V == b * v  S == a * s  K == b * k
           DD == a * dd  VV == b * vv  SS == a * ss  KK == b * kk
<1> USE DEF Numbers
<1>1. /\ D \in Nat /\ V \in Nat /\ S \in Nat /\ K \in Nat
      /\ DD \in Nat /\ VV \in Nat /\ SS \in Nat /\ KK \in Nat
  BY Weigh
<1>2. c + D + V <= S + K
  BY DEF Covers
<1>3. CASE cc <= c /\ dd <= d /\ vv <= v /\ s <= ss /\ k <= kk
  <2>1. DD <= D /\ VV <= V /\ S <= SS /\ K <= KK
    BY <1>3, Weigh
  <2> HIDE DEF D, V, S, K, DD, VV, SS, KK
  <2>2. cc + DD + VV <= SS + KK
    BY <1>1, <1>2, <1>3, <2>1
  <2> QED
    BY <2>2 DEF DD, VV, SS, KK, Covers
<1>4. CASE cc = c /\ dd <= d + 1 /\ vv = v /\ ss = s + 1 /\ kk = k
  <2>1. DD <= D + a /\ VV = V /\ SS = S + a /\ KK = K
    <3>1. DD <= a * (d + 1)
      BY <1>4, Weigh
    <3>2. a * (d + 1) = D + a /\ a * (s + 1) = S + a
      BY Weigh
    <3> QED
      BY <1>4, <3>1, <3>2
  <2> HIDE DEF D, V, S, K, DD, VV, SS, KK
  <2>2. cc + DD + VV <= SS + KK
    BY <1>1, <1>2, <1>4, <2>1
  <2> QED
    BY <2>2 DEF DD, VV, SS, KK, Covers
<1>5. CASE cc <= c + a /\ d = dd + 1 /\ vv = v /\ ss = s /\ kk = k
  <2>1. D = DD + a /\ VV = V /\ SS = S /\ KK = K
    BY <1>5, Weigh
  <2> HIDE DEF D, V, S, K, DD, VV, SS, KK
  <2>2. cc + DD + VV <= SS + KK
    BY <1>1, <1>2, <1>5, <2>1
  <2> QED
    BY <2>2 DEF DD, VV, SS, KK, Covers
<1>6. CASE cc = c /\ dd = d /\ vv <= v + 1 /\ ss = s /\ kk = k + 1
  <2>1. DD = D /\ VV <= V + b /\ SS = S /\ KK = K + b
    <3>1. VV <= b * (v + 1)
      BY <1>6, Weigh
    <3>2. b * (v + 1) = V + b /\ b * (k + 1) = K + b
      BY Weigh
    <3> QED
      BY <1>6, <3>1, <3>2
  <2> HIDE DEF D, V, S, K, DD, VV, SS, KK
  <2>2. cc + DD + VV <= SS + KK
    BY <1>1, <1>2, <1>6, <2>1
  <2> QED
    BY <2>2 DEF DD, VV, SS, KK, Covers
<1>7. CASE cc <= c + b /\ dd = d /\ v = vv + 1 /\ ss = s /\ kk = k
  <2>1. DD = D /\ V = VV + b /\ SS = S /\ KK = K
    BY <1>7, Weigh
  <2> HIDE DEF D, V, S, K, DD, VV, SS, KK
  <2>2. cc + DD + VV <= SS + KK
    BY <1>1, <1>2, <1>7, <2>1
  <2> QED
    BY <2>2 DEF DD, VV, SS, KK, Covers
<1> QED
  BY <1>3, <1>4, <1>5, <1>6, <1>7 DEF Moves

(* The cardinalities move as the sets of Bears do. *)
LEMMA BearsCounted ==
  ASSUME Inv, Inv', NEW n \in Number, Bears(n)
  PROVE  LET d == Cardinality(Due(n))         dd == Cardinality(Due(n)')
             v == Cardinality(Vouched(n))     vv == Cardinality(Vouched(n)')
             s == Cardinality(ScamsFrom(n))   ss == Cardinality(ScamsFrom(n)')
             k == Cardinality(Confirmed(n))   kk == Cardinality(Confirmed(n)')
         IN  \/ /\ count'[n] = count[n] /\ risk'[n] <= risk[n]
                /\ dd <= d /\ vv <= v /\ s <= ss /\ k <= kk
             \/ /\ count'[n] = count[n] /\ risk'[n] = risk[n]
                /\ dd <= d + 1 /\ vv = v /\ ss = s + 1 /\ kk = k
             \/ /\ count'[n] = count[n] + 1 /\ risk'[n] <= risk[n] + ScamIncrement
                /\ d = dd + 1 /\ vv = v /\ ss = s /\ kk = k
             \/ /\ count'[n] = count[n] /\ risk'[n] = risk[n]
                /\ dd = d /\ vv <= v + 1 /\ ss = s /\ kk = k + 1
             \/ /\ count'[n] = count[n] + 1 /\ risk'[n] <= risk[n] + ReportStep
                /\ dd = d /\ v = vv + 1 /\ ss = s /\ kk = k
<1> DEFINE D == Due(n)        DD == Due(n)'
           V == Vouched(n)    VV == Vouched(n)'
           S == ScamsFrom(n)  SS == ScamsFrom(n)'
           K == Confirmed(n)  KK == Confirmed(n)'
<1>1. /\ IsFiniteSet(D) /\ IsFiniteSet(V) /\ IsFiniteSet(S) /\ IsFiniteSet(K)
      /\ Cardinality(D) \in Nat /\ Cardinality(V) \in Nat
      /\ Cardinality(S) \in Nat /\ Cardinality(K) \in Nat
  BY AllFinite
<1>2. /\ IsFiniteSet(DD) /\ IsFiniteSet(VV) /\ IsFiniteSet(SS) /\ IsFiniteSet(KK)
  BY FinitePrimed
<1>3. CASE Idles(n)
  <2>1. DD \in SUBSET D /\ VV \in SUBSET V /\ S \in SUBSET SS /\ K \in SUBSET KK
    BY <1>3 DEF Idles
  <2> HIDE DEF D, DD, V, VV, S, SS, K, KK
  <2>2. /\ Cardinality(DD) <= Cardinality(D) /\ Cardinality(VV) <= Cardinality(V)
        /\ Cardinality(S) <= Cardinality(SS) /\ Cardinality(K) <= Cardinality(KK)
    BY <1>1, <1>2, <2>1, FS_Subset
  <2> QED
    BY <1>3, <2>2 DEF Idles, D, DD, V, VV, S, SS, K, KK
<1>4. ASSUME NEW r \in Check, FilesScam(n, r)
      PROVE  /\ count'[n] = count[n] /\ risk'[n] = risk[n]
             /\ Cardinality(DD) <= Cardinality(D) + 1 /\ Cardinality(VV) = Cardinality(V)
             /\ Cardinality(SS) = Cardinality(S) + 1 /\ Cardinality(KK) = Cardinality(K)
  <2>1. /\ count' = count /\ risk' = risk
        /\ DD \in SUBSET (D \cup {r}) /\ VV = V /\ KK = K
        /\ row[r] \notin S /\ SS = S \cup {row[r]}
    BY <1>4 DEF FilesScam
  <2> HIDE DEF D, DD, V, VV, S, SS, K, KK
  <2>2. IsFiniteSet(D \cup {r}) /\ Cardinality(D \cup {r}) <= Cardinality(D) + 1
    <3>1. /\ IsFiniteSet(D \cup {r})
          /\ \/ Cardinality(D \cup {r}) = Cardinality(D)
             \/ Cardinality(D \cup {r}) = Cardinality(D) + 1
      BY <1>1, FS_AddElement
    <3> QED
      BY <1>1, <3>1
  <2>3. Cardinality(DD) <= Cardinality(D \cup {r})
    BY <2>1, <2>2, FS_Subset
  <2>4. Cardinality(D \cup {r}) \in Nat /\ Cardinality(DD) \in Nat
    BY <1>2, <2>2, FS_CardinalityType
  <2>5. Cardinality(SS) = Cardinality(S) + 1
    BY <1>1, <2>1, FS_AddElement
  <2> QED
    BY <1>1, <2>1, <2>2, <2>3, <2>4, <2>5
<1>5. ASSUME NEW r \in Check, ChargesScam(n, r)
      PROVE  /\ count'[n] = count[n] + 1 /\ risk'[n] <= risk[n] + ScamIncrement
             /\ Cardinality(D) = Cardinality(DD) + 1 /\ Cardinality(VV) = Cardinality(V)
             /\ Cardinality(SS) = Cardinality(S) /\ Cardinality(KK) = Cardinality(K)
  <2>1. r \in D /\ DD = D \ {r} /\ VV = V /\ SS = S /\ KK = K
    BY <1>5 DEF ChargesScam
  <2> HIDE DEF D, DD, V, VV, S, SS, K, KK
  <2>2. Cardinality(DD) = Cardinality(D) - 1
    BY <1>1, <2>1, FS_RemoveElement
  <2> QED
    BY <1>1, <1>5, <2>1, <2>2 DEF ChargesScam
<1>6. ASSUME NEW r \in Feedback, NEW p, FilesReport(n, r, p)
      PROVE  /\ count'[n] = count[n] /\ risk'[n] = risk[n]
             /\ Cardinality(DD) = Cardinality(D) /\ Cardinality(VV) <= Cardinality(V) + 1
             /\ Cardinality(SS) = Cardinality(S) /\ Cardinality(KK) = Cardinality(K) + 1
  <2>1. /\ count' = count /\ risk' = risk
        /\ VV \in SUBSET (V \cup {r}) /\ DD = D /\ SS = S
        /\ p \notin K /\ KK = K \cup {p}
    BY <1>6 DEF FilesReport
  <2> HIDE DEF D, DD, V, VV, S, SS, K, KK
  <2>2. IsFiniteSet(V \cup {r}) /\ Cardinality(V \cup {r}) <= Cardinality(V) + 1
    <3>1. /\ IsFiniteSet(V \cup {r})
          /\ \/ Cardinality(V \cup {r}) = Cardinality(V)
             \/ Cardinality(V \cup {r}) = Cardinality(V) + 1
      BY <1>1, FS_AddElement
    <3> QED
      BY <1>1, <3>1
  <2>3. Cardinality(VV) <= Cardinality(V \cup {r})
    BY <2>1, <2>2, FS_Subset
  <2>4. Cardinality(V \cup {r}) \in Nat /\ Cardinality(VV) \in Nat
    BY <1>2, <2>2, FS_CardinalityType
  <2>5. Cardinality(KK) = Cardinality(K) + 1
    BY <1>1, <2>1, FS_AddElement
  <2> QED
    BY <1>1, <2>1, <2>2, <2>3, <2>4, <2>5
<1>7. ASSUME NEW r \in Feedback, ChargesReport(n, r)
      PROVE  /\ count'[n] = count[n] + 1 /\ risk'[n] <= risk[n] + ReportStep
             /\ Cardinality(DD) = Cardinality(D) /\ Cardinality(V) = Cardinality(VV) + 1
             /\ Cardinality(SS) = Cardinality(S) /\ Cardinality(KK) = Cardinality(K)
  <2>1. r \in V /\ VV = V \ {r} /\ DD = D /\ SS = S /\ KK = K
    BY <1>7 DEF ChargesReport
  <2> HIDE DEF D, DD, V, VV, S, SS, K, KK
  <2>2. Cardinality(VV) = Cardinality(V) - 1
    BY <1>1, <2>1, FS_RemoveElement
  <2> QED
    BY <1>1, <1>7, <2>1, <2>2 DEF ChargesReport
<1> QED
  BY <1>3, <1>4, <1>5, <1>6, <1>7 DEF Bears

(* Every step keeps the balance. *)
LEMMA BalanceStep ==
  ASSUME Inv, Inv', Backed, Earned, [Next]_vars
  PROVE  Backed' /\ Earned'
<1> SUFFICES ASSUME NEW n \in Number
             PROVE  /\ count'[n] + Cardinality(Due(n)') + Cardinality(Vouched(n)')
                          <= Cardinality(ScamsFrom(n)') + Cardinality(Confirmed(n)')
                    /\ risk'[n] + ScamIncrement * Cardinality(Due(n)')
                                + ReportStep * Cardinality(Vouched(n)')
                          <= ScamIncrement * Cardinality(ScamsFrom(n)')
                             + ReportStep * Cardinality(Confirmed(n)')
  BY DEF Backed, Earned
<1> DEFINE d == Cardinality(Due(n))         dd == Cardinality(Due(n)')
           v == Cardinality(Vouched(n))     vv == Cardinality(Vouched(n)')
           s == Cardinality(ScamsFrom(n))   ss == Cardinality(ScamsFrom(n)')
           k == Cardinality(Confirmed(n))   kk == Cardinality(Confirmed(n)')
           c == count[n]  cc == count'[n]  x == risk[n]  xx == risk'[n]
<1>1. \/ cc = c /\ xx <= x /\ dd <= d /\ vv <= v /\ s <= ss /\ k <= kk
      \/ cc = c /\ xx = x /\ dd <= d + 1 /\ vv = v /\ ss = s + 1 /\ kk = k
      \/ cc = c + 1 /\ xx <= x + ScamIncrement /\ d = dd + 1 /\ vv = v /\ ss = s /\ kk = k
      \/ cc = c /\ xx = x /\ dd = d /\ vv <= v + 1 /\ ss = s /\ kk = k + 1
      \/ cc = c + 1 /\ xx <= x + ReportStep /\ dd = d /\ v = vv + 1 /\ ss = s /\ kk = k
  BY EveryStepBears, BearsCounted
<1>2. d \in Nat /\ v \in Nat /\ s \in Nat /\ k \in Nat
  BY AllFinite
<1>3. dd \in Nat /\ vv \in Nat /\ ss \in Nat /\ kk \in Nat
  BY FinitePrimed, FS_CardinalityType
<1>4. c \in Nat /\ cc \in Nat /\ x \in Nat /\ xx \in Nat
  <2>1. c \in Nat /\ cc \in Nat /\ x \in 0..MaxRisk /\ xx \in 0..MaxRisk /\ MaxRisk \in Nat
    BY ReputationAssumption DEF Inv, TypeOK
  <2> QED
    BY <2>1
<1>5. c + d + v <= s + k
  BY DEF Backed
<1>6. x + ScamIncrement * d + ReportStep * v <= ScamIncrement * s + ReportStep * k
  BY DEF Earned
<1>7. ScamIncrement \in Nat /\ ReportStep \in Nat
  BY ReputationAssumption
<1> HIDE DEF d, dd, v, vv, s, ss, k, kk, c, cc, x, xx
<1>8. cc + dd + vv <= ss + kk
  BY <1>1, <1>2, <1>3, <1>4, <1>5
<1>9. xx + ScamIncrement * dd + ReportStep * vv <= ScamIncrement * ss + ReportStep * kk
  <2>1. Moves(x, d, v, s, k, xx, dd, vv, ss, kk, ScamIncrement, ReportStep)
    BY <1>1 DEF Moves
  <2>2. Covers(x, d, v, s, k, ScamIncrement, ReportStep)
    BY <1>6 DEF Covers
  <2>3. Covers(xx, dd, vv, ss, kk, ScamIncrement, ReportStep)
    <3>1. Numbers(x, d, v, s, k, xx, dd, vv, ss, kk, ScamIncrement, ReportStep)
      BY <1>2, <1>3, <1>4, <1>7 DEF Numbers
    <3> QED
      BY <2>1, <2>2, <3>1, Balance
  <2> QED
    BY <2>3 DEF Covers
<1> QED
  BY <1>8, <1>9 DEF d, dd, v, vv, s, ss, k, kk, c, cc, x, xx

(* Without rows there is nothing to charge for. *)
LEMMA InitBalance == Init => Backed /\ Earned
<1> SUFFICES ASSUME Init, NEW n \in Number
             PROVE  /\ count[n] = 0 /\ risk[n] = 0
                    /\ Cardinality(Due(n)) = 0 /\ Cardinality(Vouched(n)) = 0
                    /\ Cardinality(ScamsFrom(n)) = 0 /\ Cardinality(Confirmed(n)) = 0
  <2>1. ScamIncrement * 0 = 0 /\ ReportStep * 0 = 0
    BY ReputationAssumption
  <2> QED
    BY <2>1 DEF Backed, Earned
<1>1. /\ Due(n) = {} /\ Vouched(n) = {} /\ ScamsFrom(n) = {} /\ Confirmed(n) = {}
  BY DEF Init, Due, Vouched, ScamsFrom, Confirmed, Request
<1> QED
  BY <1>1, FS_EmptySet DEF Init

(* So it always holds. *)
LEMMA Balanced == Spec => [](Backed /\ Earned)
<1>1. Inv /\ Inv' /\ (Backed /\ Earned) /\ [Next]_vars => (Backed /\ Earned)'
  BY BalanceStep
<1> QED
  BY <1>1, InitBalance, Inductive, PTL DEF Spec

(* However requests fail or overlap, the report count of a number is covered *)
(* by the scam detections and confirmed reports on file about it: Check and  *)
(* the report handler store the row before they raise the number.            *)
THEOREM RaisesBacked == Spec => []RaisesAreBacked
<1>1. Inv /\ Backed => RaisesAreBacked
  <2> SUFFICES ASSUME Inv, Backed, NEW n \in Number
               PROVE  count[n] <= Cardinality(ScamsFrom(n)) + Cardinality(Confirmed(n))
    BY DEF RaisesAreBacked
  <2>1. count[n] \in Nat
    BY ScoreIsNat DEF Inv
  <2>2. count[n] + Cardinality(Due(n)) + Cardinality(Vouched(n))
          <= Cardinality(ScamsFrom(n)) + Cardinality(Confirmed(n))
    BY DEF Backed
  <2> QED
    BY <2>1, <2>2, AllFinite
<1> QED
  BY <1>1, Balanced, Inductive, PTL

(* Its score is no more than what that evidence is worth, and false alarms,  *)
(* the cap and the floor only take away from it.                             *)
THEOREM RiskEarned == Spec => []RiskIsEarned
<1>1. Inv /\ Earned => RiskIsEarned
  <2> SUFFICES ASSUME Inv, Earned, NEW n \in Number
               PROVE  risk[n] <= ScamIncrement * Cardinality(ScamsFrom(n))
                                 + ReportStep * Cardinality(Confirmed(n))
    BY DEF RiskIsEarned
  <2> DEFINE d == ScamIncrement * Cardinality(Due(n))
             v == ReportStep * Cardinality(Vouched(n))
             e == ScamIncrement * Cardinality(ScamsFrom(n))
             k == ReportStep * Cardinality(Confirmed(n))
  <2>1. risk[n] \in Nat
    BY ScoreIsNat DEF Inv
  <2>2. risk[n] + d + v <= e + k
    BY DEF Earned
  <2>3. d \in Nat /\ v \in Nat /\ e \in Nat /\ k \in Nat
    <3>1. \A a, b \in Nat : a * b \in Nat
      OBVIOUS
    <3> QED
      BY <3>1, AllFinite, ReputationAssumption
  <2> QED
    <3> HIDE DEF d, v, e, k
    <3>1. risk[n] <= e + k
      BY <2>1, <2>2, <2>3
    <3> QED
      BY <3>1 DEF e, k
<1> QED
  BY <1>1, Balanced, Inductive, PTL

-----------------------------------------------------------------------------
(* No increment is lost. *)

(* When Check returns, the only message that may join the clean ones is the  *)
(* one at hand.                                                              *)
LEMMA CleanFinish ==
  ASSUME Inv, NEW r \in Check, pc[r] \in CheckSteps,
         NEW x \in {"ok", "error"}, FinishItem(r, x),
         \/ messages' = messages
         \/ messages' = messages \cup {row[r]} /\ x = "error" /\ pc[r] = "insert",
         NEW n \in Number, NEW m \in CleanScams(n)'
  PROVE  m \in CleanScams(n) \/ (x = "ok" /\ m = row[r])
<1> DEFINE L == Len(results[r])
<1>0. TypeOK /\ r \in Request /\ L \in Nat
  BY LenProperties DEF Inv, TypeOK, Request
<1>1. /\ m \in messages' /\ m.scam /\ m.source = n
      /\ m.id[2] <= Len(results'[m.id[1]]) /\ results'[m.id[1]][m.id[2]] = "ok"
  BY DEF CleanScams
<1>2. /\ results' = [results EXCEPT ![r] = Append(results[r], x)]
      /\ Len(results'[r]) = L + 1 /\ results'[r][L + 1] = x
      /\ \A i \in 1..L : results'[r][i] = results[r][i]
  BY <1>0, Finished DEF Position
<1>3. pc[r] # "classify" => row[r].id[1] = r /\ row[r].id[2] = L + 1
  BY DEF Inv, CheckShape, CheckAt, Position, CheckSteps
<1>4. CASE m \notin messages
  BY <1>1, <1>2, <1>3, <1>4
<1>5. CASE m \in messages
  <2>1. /\ m.id[1] \in Check /\ m.id[2] \in Nat
        /\ \/ m.id[2] <= Len(results[m.id[1]])
           \/ m.id[2] = Len(results[m.id[1]]) + 1 /\ pc[m.id[1]] \in Stored
    BY <1>0, <1>5 DEF Inv, Filed, TypeOK, Message, Position
  <2>2. CASE m.id[1] # r
    <3>1. results'[m.id[1]] = results[m.id[1]]
      BY <1>0, <1>2, <2>1, <2>2 DEF TypeOK, Request
    <3> QED
      BY <1>1, <1>5, <3>1 DEF CleanScams
  <2>3. CASE m.id[1] = r /\ m.id[2] <= L
    <3>1. m.id[2] \in 1..L
      BY <1>0, <1>5, <2>1, <2>3 DEF Inv, Filed
    <3> QED
      BY <1>1, <1>2, <1>5, <2>3, <3>1 DEF CleanScams
  <2>4. CASE m.id[1] = r /\ m.id[2] = L + 1 /\ pc[r] \in Stored
    <3>1. x = "ok" /\ pc[r] \in {"category", "detect", "raise"}
      BY <1>1, <1>2, <2>4 DEF Stored, CheckSteps
    <3>2. row[r] \in messages /\ row[r].id = m.id
      <4>1. row[r] \in messages /\ row[r].id = <<r, Position(r)>>
        BY <3>1 DEF Inv, CheckShape, CheckAt, CheckSteps
      <4>2. m.id \in Request \X Nat
        BY <1>0, <1>5 DEF TypeOK, Message
      <4> QED
        BY <2>4, <4>1, <4>2 DEF Position
    <3> QED
      BY <1>5, <3>1, <3>2 DEF Inv, Filed
  <2> QED
    BY <2>1, <2>2, <2>3, <2>4
<1> QED
  BY <1>4, <1>5

(* A step leaves no more clean messages of a number, or one more and then    *)
(* counts it.                                                                *)
CleanMoves(n) ==
  \/ CleanScams(n)' \subseteq CleanScams(n)
  \/ /\ \E m : CleanScams(n)' \subseteq CleanScams(n) \cup {m}
     /\ count'[n] = count[n] + 1

(* The statements of a check do. *)
LEMMA CleanCheck ==
  ASSUME Inv, NEW r \in Check, NEW n \in Number,
         Classify(r) \/ InsertMessage(r) \/ FindCategory(r) \/ Detect(r) \/ RaiseNumber(r)
  PROVE  CleanMoves(n)
<1>0. TypeOK /\ r \in Request
  BY DEF Inv, Request
<1>1. ASSUME pc[r] \in CheckSteps, FinishItem(r, "error"),
             \/ messages' = messages
             \/ messages' = messages \cup {row[r]} /\ pc[r] = "insert"
      PROVE  CleanMoves(n)
  <2>1. ASSUME NEW m \in CleanScams(n)' PROVE m \in CleanScams(n)
    BY <1>1, <2>1, CleanFinish
  <2> QED
    BY <2>1 DEF CleanMoves
<1>2. ASSUME NEW step, Goto(r, step), messages' = messages
      PROVE  CleanMoves(n)
  BY <1>2 DEF Goto, CleanMoves, CleanScams
<1>3. CASE Classify(r)
  BY <1>1, <1>2, <1>3 DEF Classify, dbVars, CheckSteps
<1>4. CASE InsertMessage(r)
  <2>1. CASE messages' = messages \cup {row[r]} /\ Goto(r, "category")
    <3>1. ASSUME NEW m \in CleanScams(n)' PROVE m \in CleanScams(n)
      <4>1. row[r].id = <<r, Position(r)>>
        BY <1>4 DEF InsertMessage, Inv, CheckShape, CheckAt, CheckSteps
      <4>2. row[r].id[1] = r /\ row[r].id[2] = Len(results[r]) + 1
        BY <4>1 DEF Position
      <4>0. Len(results[r]) \in Nat
        BY <1>0, LenProperties DEF TypeOK
      <4>3. results' = results /\ m \in messages' /\ m.scam /\ m.source = n
            /\ m.id[2] <= Len(results[m.id[1]]) /\ results[m.id[1]][m.id[2]] = "ok"
        BY <2>1, <3>1 DEF CleanScams, Goto
      <4> QED
        BY <2>1, <4>0, <4>2, <4>3 DEF CleanScams
    <3> QED
      BY <3>1 DEF CleanMoves
  <2>2. CASE messages' \in {messages, messages \cup {row[r]}} /\ FinishItem(r, "error")
    BY <1>1, <1>4, <2>2 DEF InsertMessage, CheckSteps
  <2> QED
    BY <1>4, <2>1, <2>2 DEF InsertMessage
<1>5. CASE FindCategory(r)
  BY <1>1, <1>2, <1>5 DEF FindCategory, dbVars, CheckSteps
<1>6. CASE Detect(r)
  <2>1. pc[r] \in CheckSteps /\ messages' = messages
    BY <1>6 DEF Detect, CheckSteps
  <2>2. CASE ~Raises(row[r]) /\ FinishItem(r, "ok")
    <3>1. ASSUME NEW m \in CleanScams(n)' PROVE m \in CleanScams(n)
      <4>1. m.scam /\ m.source = n
        BY DEF CleanScams
      <4>2. m \in CleanScams(n) \/ m = row[r]
        BY <2>1, <2>2, <3>1, CleanFinish
      <4> QED
        BY <2>2, <4>1, <4>2 DEF Raises
    <3> QED
      BY <3>1 DEF CleanMoves
  <2> QED
    BY <1>1, <1>2, <1>6, <2>1, <2>2 DEF Detect, InsertDetection
<1>7. CASE RaiseNumber(r)
  <2>1. pc[r] \in CheckSteps /\ messages' = messages /\ row[r].source \in Number
    BY <1>7 DEF RaiseNumber, CheckSteps, dbVars, Inv, CheckShape, CheckAt, Raises
  <2>2. CASE RegisterScam(row[r].source, ScamIncrement) /\ FinishItem(r, "ok")
    <3>1. ASSUME NEW m \in CleanScams(n)'
          PROVE  m \in CleanScams(n) \/ (m = row[r] /\ row[r].source = n)
      <4>1. m.source = n
        BY DEF CleanScams
      <4>2. m \in CleanScams(n) \/ m = row[r]
        BY <2>1, <2>2, <3>1, CleanFinish
      <4> QED
        BY <4>1, <4>2
    <3>2. CASE row[r].source = n
      <4>1. count'[n] = count[n] + 1
        BY <1>0, <2>2, <3>2, ScoreMoves, ReputationAssumption
      <4>2. CleanScams(n)' \subseteq CleanScams(n) \cup {row[r]}
        BY <3>1
      <4> QED
        BY <4>1, <4>2 DEF CleanMoves
    <3>3. CASE row[r].source # n
      BY <3>1, <3>3 DEF CleanMoves
    <3> QED
      BY <3>2, <3>3
  <2> QED
    BY <1>1, <1>7, <2>1, <2>2 DEF RaiseNumber
<1> QED
  BY <1>3, <1>4, <1>5, <1>6, <1>7

(* And so does every step. *)
LEMMA CleanStep ==
  ASSUME Inv, [Next]_vars, NEW n \in Number
  PROVE  CleanMoves(n)
<1>1. ASSUME messages' = messages, results' = results
      PROVE  CleanMoves(n)
  BY <1>1 DEF CleanMoves, CleanScams
<1>2. ASSUME NEW r \in Check, NEW k \in 1..MaxItems, NEW sources \in [1..k -> Source],
             StartCheck(r, sources)
      PROVE  CleanMoves(n)
  BY <1>1, <1>2 DEF StartCheck, Goto, dbVars
<1>3. ASSUME NEW r \in Feedback,
             \/ \E m \in messages, f \in {"confirmed", "false_positive"} : StartReport(r, m, f)
             \/ CheckOwner(r) \/ InsertReport(r) \/ ReadSource(r) \/ ScoreReport(r)
      PROVE  CleanMoves(n)
  <2>1. messages' = messages
    BY <1>3 DEF StartReport, CheckOwner, InsertReport, ReadSource, ScoreReport, dbVars
  <2>2. results' = results
    BY <1>3 DEF StartReport, CheckOwner, InsertReport, ReadSource, ScoreReport, Goto, Answer
  <2> QED
    BY <1>1, <2>1, <2>2
<1>4. ASSUME NEW r \in Request, Abandon(r)
      PROVE  CleanMoves(n)
  BY <1>1, <1>4 DEF Abandon, Answer, dbVars
<1>5. CASE UNCHANGED vars
  BY <1>1, <1>5 DEF vars
<1> QED
  BY <1>2, <1>3, <1>4, <1>5, CleanCheck DEF Next

(* Every scam a check reported without an error has been counted on its      *)
(* sender: concurrent checks and reports never overwrite each other's count, *)
(* which is one upsert.                                                      *)
THEOREM ScamsCounted == Spec => []ScamsAreCounted
<1>1. Init => ScamsAreCounted
  <2> SUFFICES ASSUME Init, NEW n \in Number
               PROVE  Cardinality(CleanScams(n)) <= count[n]
    BY DEF ScamsAreCounted
  <2>1. CleanScams(n) = {}
    BY DEF Init, CleanScams
  <2> QED
    BY <2>1, FS_EmptySet DEF Init
<1>2. Inv /\ Inv' /\ ScamsAreCounted /\ [Next]_vars => ScamsAreCounted'
  <2> SUFFICES ASSUME Inv, Inv', ScamsAreCounted, [Next]_vars, NEW n \in Number
               PROVE  Cardinality(CleanScams(n)') <= count'[n]
    BY DEF ScamsAreCounted
  <2> DEFINE C == CleanScams(n)  CC == CleanScams(n)'
  <2>1. IsFiniteSet(C) /\ IsFiniteSet(CC)
    <3>1. C \in SUBSET messages /\ CC \in SUBSET messages'
      BY DEF CleanScams
    <3> QED
      BY <3>1, FS_Subset DEF Inv, Finite
  <2>2. Cardinality(C) \in Nat /\ Cardinality(CC) \in Nat
    BY <2>1, FS_CardinalityType
  <2>3. count[n] \in Nat /\ count'[n] \in {count[n], count[n] + 1}
    BY EveryStepBears, ScoreIsNat
    DEF Inv, Bears, Idles, FilesScam, ChargesScam, FilesReport, ChargesReport
  <2>4. Cardinality(C) <= count[n]
    BY DEF ScamsAreCounted
  <2> HIDE DEF C, CC
  <2>5. CASE CC \subseteq C
    <3>1. Cardinality(CC) <= Cardinality(C)
      BY <2>1, <2>5, FS_Subset
    <3> QED
      BY <2>2, <2>3, <2>4, <3>1 DEF CC
  <2>6. CASE (\E m : CC \subseteq C \cup {m}) /\ count'[n] = count[n] + 1
    <3> PICK m : CC \subseteq C \cup {m}
      BY <2>6
    <3>1. /\ IsFiniteSet(C \cup {m})
          /\ \/ Cardinality(C \cup {m}) = Cardinality(C)
             \/ Cardinality(C \cup {m}) = Cardinality(C) + 1
      BY <2>1, FS_AddElement
    <3>2. Cardinality(CC) <= Cardinality(C \cup {m})
      BY <3>1, FS_Subset
    <3> QED
      BY <2>2, <2>3, <2>4, <2>6, <3>1, <3>2 DEF CC
  <2> QED
    BY <2>5, <2>6, CleanStep DEF CleanMoves, C, CC
<1> QED
  BY <1>1, <1>2, Inductive, PTL DEF Spec

(* When every check of a scam from a number came back without error and no   *)
(* report confirms one, the count is exact: one for each detection on file.  *)
THEOREM CountIsExact ==
  Spec => [](\A n \in Number :
               Confirmed(n) = {} /\ ScamsFrom(n) \subseteq CleanScams(n)
                 => count[n] = Cardinality(ScamsFrom(n)))
<1>1. Inv /\ RaisesAreBacked /\ ScamsAreCounted =>
        \A n \in Number :
          Confirmed(n) = {} /\ ScamsFrom(n) \subseteq CleanScams(n)
            => count[n] = Cardinality(ScamsFrom(n))
  <2> SUFFICES ASSUME Inv, RaisesAreBacked, ScamsAreCounted, NEW n \in Number,
                      Confirmed(n) = {}, ScamsFrom(n) \subseteq CleanScams(n)
               PROVE  count[n] = Cardinality(ScamsFrom(n))
    OBVIOUS
  <2>1. IsFiniteSet(CleanScams(n))
    <3>1. CleanScams(n) \in SUBSET messages /\ IsFiniteSet(messages)
      BY DEF CleanScams, Inv, Finite
    <3> QED
      BY <3>1, FS_Subset
  <2>2. Cardinality(ScamsFrom(n)) <= Cardinality(CleanScams(n))
    BY <2>1, FS_Subset
  <2>3. Cardinality(CleanScams(n)) <= count[n]
    BY DEF ScamsAreCounted
  <2>4. count[n] <= Cardinality(ScamsFrom(n)) + 0
    BY FS_EmptySet DEF RaisesAreBacked
  <2>5. Cardinality(CleanScams(n)) \in Nat /\ Cardinality(ScamsFrom(n)) \in Nat
    BY <2>1, FS_CardinalityType, AllFinite
  <2>6. count[n] \in Nat
    BY ScoreIsNat DEF Inv
  <2> QED
    BY <2>2, <2>3, <2>4, <2>5, <2>6
<1> QED
  BY <1>1, Inductive, RaisesBacked, ScamsCounted, PTL

(* What a count of rows is worth at most: with the larger step for each.     *)
LEMMA RowsForScore ==
  ASSUME NEW s \in Nat, NEW p \in Nat, p <= s, s > 0,
         NEW a \in Nat, NEW b \in Nat, NEW k \in Nat, k * s <= s * a + p * b
  PROVE  k <= a + b
<1>1. p * b <= s * b
  <2>1. PICK d \in Nat : s = p + d
    BY s - p \in Nat
  <2>2. s * b = p * b + d * b
    BY <2>1
  <2>3. d * b \in Nat /\ p * b \in Nat /\ s * b \in Nat
    <3>1. \A x, y \in Nat : x * y \in Nat
      OBVIOUS
    <3> QED
      BY <2>1, <3>1
  <2> QED
    BY <2>2, <2>3
<1>2. s * (a + b) = s * a + s * b
  OBVIOUS
<1> SUFFICES ASSUME k > a + b PROVE FALSE
  OBVIOUS
<1>3. PICK e \in Nat : k = a + b + 1 + e
  BY k - (a + b + 1) \in Nat
<1>4. k * s = s * (a + b) + s + e * s
  BY <1>3
<1>5. \A x, y \in Nat : x * y \in Nat
  OBVIOUS
<1>6. e * s \in Nat /\ s * (a + b) \in Nat /\ s * a \in Nat /\ s * b \in Nat /\ p * b \in Nat
      /\ k * s \in Nat
  BY <1>3, <1>5
<1> QED
  BY <1>1, <1>2, <1>4, <1>6

(* A score of k scam increments stands on k rows about the number.  With the *)
(* code's 0.2 and 0.15, the call guard's threshold of 0.6                    *)
(* (CallGuardService.kt:134) takes three detections or confirmed reports: no *)
(* single check or report makes a caller suspicious.                         *)
THEOREM ScoreStandsOnRows ==
  ASSUME ReportStep <= ScamIncrement, ScamIncrement > 0, NEW k \in Nat
  PROVE  Spec => [](\A n \in Number : risk[n] >= k * ScamIncrement =>
                      Cardinality(ScamsFrom(n)) + Cardinality(Confirmed(n)) >= k)
<1>1. Inv /\ RiskIsEarned =>
        \A n \in Number : risk[n] >= k * ScamIncrement =>
          Cardinality(ScamsFrom(n)) + Cardinality(Confirmed(n)) >= k
  <2> SUFFICES ASSUME Inv, RiskIsEarned, NEW n \in Number, risk[n] >= k * ScamIncrement
               PROVE  Cardinality(ScamsFrom(n)) + Cardinality(Confirmed(n)) >= k
    OBVIOUS
  <2> DEFINE a == Cardinality(ScamsFrom(n))  b == Cardinality(Confirmed(n))
  <2>1. a \in Nat /\ b \in Nat /\ ScamIncrement \in Nat /\ ReportStep \in Nat
    BY AllFinite, ReputationAssumption
  <2>2. risk[n] \in Nat /\ risk[n] <= ScamIncrement * a + ReportStep * b
    BY ScoreIsNat DEF Inv, RiskIsEarned
  <2> HIDE DEF a, b
  <2>3. /\ k * ScamIncrement \in Nat /\ ScamIncrement * a \in Nat /\ ReportStep * b \in Nat
    <3>1. \A x, y \in Nat : x * y \in Nat
      OBVIOUS
    <3> QED
      BY <2>1, <3>1
  <2>4. k * ScamIncrement <= ScamIncrement * a + ReportStep * b
    BY <2>2, <2>3
  <2>5. k <= a + b
    BY <2>1, <2>4, RowsForScore
  <2> QED
    BY <2>1, <2>5 DEF a, b
<1> QED
  BY <1>1, Inductive, RiskEarned, PTL

-----------------------------------------------------------------------------
(* Who reports what, and what an answer says. *)

(* A report on file is on a stored message, by the user who had it checked:  *)
(* the ownership check comes before the insertion and rows never change.     *)
THEOREM OwnersReport == Spec => []ReportsByOwners
<1>1. Init => ReportsByOwners
  BY DEF Init, ReportsByOwners
<1>2. Inv /\ ReportsByOwners /\ [Next]_vars => ReportsByOwners'
  <2> SUFFICES ASSUME Inv, ReportsByOwners, [Next]_vars
               PROVE  ReportsByOwners'
    OBVIOUS
  <2>1. CASE UNCHANGED vars
    BY <2>1 DEF vars, ReportsByOwners
  <2>2. ASSUME NEW r \in Request, Grows, AddsRow(r)
        PROVE  ReportsByOwners'
    <3>1. CASE reports' = reports
      BY <2>2, <3>1 DEF Grows, ReportsByOwners
    <3>2. CASE r \in Feedback /\ pc[r] = "report" /\ reports' = Reported(r)
      <4>1. row[r] \in messages /\ row[r].user = user[r]
        BY <3>2 DEF Inv, ReportShape, ReportAt, ReportSteps
      <4> QED
        BY <2>2, <3>2, <4>1 DEF Grows, ReportsByOwners, Reported
    <3> QED
      BY <2>2, <3>1, <3>2 DEF AddsRow
  <2> QED
    BY <2>1, <2>2, StepIsLocal
<1> QED
  BY <1>1, <1>2, Inductive, PTL DEF Spec

(* What an answer of q says is true. *)
AnswerAt(q) ==
  /\ reply[q] = "checked" => Len(results[q]) = Len(items[q])
  /\ \A i \in 1..Len(results[q]) : results[q][i] = "ok" =>
       \E m \in detections : m.id = <<q, i>> /\ m.source = items[q][i]

(* The answers of the other requests stay as true as they are. *)
LEMMA AnswerIsLocal ==
  ASSUME Inv, AnswersAreComplete, NEW r \in Request, Others(r), Grows, AnswerAt(r)'
  PROVE  AnswersAreComplete'
<1>1. ASSUME NEW q \in Request, q # r PROVE AnswerAt(q)'
  <2>1. AnswerAt(q)
    BY DEF AnswersAreComplete, AnswerAt
  <2>2. results'[q] = results[q] /\ reply'[q] = reply[q] /\ items'[q] = items[q]
    BY <1>1 DEF Others
  <2>3. detections \subseteq detections'
    BY DEF Grows
  <2> QED
    BY <2>1, <2>2, <2>3 DEF AnswerAt
<1>2. \A q \in Request : AnswerAt(q)'
  BY <1>1
<1> QED
  BY <1>2 DEF AnswersAreComplete, AnswerAt

(* So does the answer of r when nothing it speaks of changes. *)
LEMMA AnswerIsKept ==
  ASSUME Inv, AnswersAreComplete, NEW r \in Request, Grows, results' = results,
         reply'[r] = "checked" => (reply[r] = "checked" /\ items' = items),
         items' = items \/ results[r] = <<>>
  PROVE  AnswerAt(r)'
<1>1. AnswerAt(r)
  BY DEF AnswersAreComplete, AnswerAt
<1>2. reply'[r] = "checked" => Len(results'[r]) = Len(items'[r])
  BY <1>1 DEF AnswerAt
<1>3. CASE items' = items
  BY <1>1, <1>2, <1>3 DEF AnswerAt, Grows
<1>4. CASE results[r] = <<>>
  <2>1. 1..Len(results'[r]) = {}
    BY <1>4
  <2> QED
    BY <1>2, <2>1 DEF AnswerAt
<1> QED
  BY <1>3, <1>4

(* When Check returns, the message at hand has its detection if there was no *)
(* error, and the request is answered after the last message.                *)
LEMMA AnswerFinish ==
  ASSUME Inv, AnswersAreComplete, NEW r \in Check, pc[r] \in CheckSteps, Grows,
         NEW x \in {"ok", "error"}, FinishItem(r, x), items' = items,
         x = "ok" => (pc[r] \in {"detect", "raise"} /\ row[r] \in detections')
  PROVE  AnswerAt(r)'
<1> DEFINE L == Len(results[r])
<1>0. TypeOK /\ r \in Request /\ L \in Nat
  BY LenProperties DEF Inv, TypeOK, Request
<1>1. /\ Len(results'[r]) = L + 1 /\ results'[r][L + 1] = x
      /\ \A i \in 1..L : results'[r][i] = results[r][i]
      /\ \/ L + 1 = Len(items[r])
         \/ reply' = reply
  BY <1>0, Finished DEF Position
<1>2. AnswerAt(r)
  BY <1>0 DEF AnswersAreComplete, AnswerAt
<1>3. reply[r] # "checked"
  BY DEF Inv, CheckShape, CheckAt, CheckSteps
<1>4. reply'[r] = "checked" => Len(results'[r]) = Len(items'[r])
  BY <1>1, <1>3
<1>5. ASSUME NEW i \in 1..(L + 1), results'[r][i] = "ok"
      PROVE  \E m \in detections' : m.id = <<r, i>> /\ m.source = items'[r][i]
  <2>1. CASE i \in 1..L
    BY <1>1, <1>2, <1>5, <2>1 DEF AnswerAt, Grows
  <2>2. CASE i = L + 1
    <3>1. x = "ok"
      BY <1>1, <1>5, <2>2
    <3>2. row[r].id = <<r, Position(r)>> /\ row[r].source = items[r][Position(r)]
      BY <3>1 DEF Inv, CheckShape, CheckAt, CheckSteps
    <3> QED
      BY <2>2, <3>1, <3>2 DEF Position
  <2>3. i \in 1..L \/ i = L + 1
    BY <1>0
  <2> QED
    BY <2>1, <2>2, <2>3
<1> QED
  BY <1>1, <1>4, <1>5 DEF AnswerAt

(* An answered batch has one result per message whatever failed on the way,  *)
(* and a result without error has its detection on file.                     *)
THEOREM AnswersComplete == Spec => []AnswersAreComplete
<1>1. Init => AnswersAreComplete
  BY DEF Init, AnswersAreComplete
<1>2. Inv /\ AnswersAreComplete /\ [Next]_vars => AnswersAreComplete'
  <2> SUFFICES ASSUME Inv, AnswersAreComplete, [Next]_vars
               PROVE  AnswersAreComplete'
    OBVIOUS
  <2>1. ASSUME NEW r \in Check, NEW k \in 1..MaxItems, NEW sources \in [1..k -> Source],
               StartCheck(r, sources)
        PROVE  AnswersAreComplete'
    <3>1. results[r] = <<>> /\ reply[r] # "checked" /\ results' = results /\ reply' = reply
      BY <2>1 DEF StartCheck, Goto, Inv, CheckShape, CheckAt
    <3>2. Others(r) /\ Grows
      BY <2>1, CheckIsLocal
    <3> QED
      BY <3>1, <3>2, AnswerIsKept, AnswerIsLocal DEF Request
  <2>2. ASSUME NEW r \in Check,
               Classify(r) \/ InsertMessage(r) \/ FindCategory(r) \/ Detect(r) \/ RaiseNumber(r)
        PROVE  AnswersAreComplete'
    <3>1. Others(r) /\ Grows
      BY <2>2, CheckIsLocal
    <3>2. pc[r] \in CheckSteps /\ items' = items
      BY <2>2 DEF Classify, InsertMessage, FindCategory, Detect, RaiseNumber, CheckSteps
    <3>3. CASE \E step : Goto(r, step)
      BY <3>1, <3>2, <3>3, AnswerIsKept, AnswerIsLocal DEF Goto, Request
    <3>4. CASE FinishItem(r, "error")
      BY <3>1, <3>2, <3>4, AnswerFinish, AnswerIsLocal DEF Request
    <3>5. CASE FinishItem(r, "ok") /\ pc[r] \in {"detect", "raise"} /\ row[r] \in detections'
      BY <3>1, <3>2, <3>5, AnswerFinish, AnswerIsLocal DEF Request
    <3>6. pc[r] = "raise" => row[r] \in detections'
      BY <3>1 DEF Inv, CheckShape, CheckAt, Grows
    <3> QED
      BY <2>2, <3>3, <3>4, <3>5, <3>6
      DEF Classify, InsertMessage, FindCategory, Detect, InsertDetection, RaiseNumber
  <2>3. ASSUME NEW r \in Request,
               \/ /\ r \in Feedback
                  /\ \/ \E m \in messages, f \in {"confirmed", "false_positive"} :
                          StartReport(r, m, f)
                     \/ CheckOwner(r) \/ InsertReport(r) \/ ReadSource(r) \/ ScoreReport(r)
               \/ Abandon(r)
        PROVE  AnswersAreComplete'
    <3>1. Others(r) /\ Grows
      BY <2>3, ReportIsLocal
    <3>2. results' = results /\ items' = items
      BY <2>3 DEF StartReport, CheckOwner, InsertReport, ReadSource, ScoreReport, Abandon,
         Goto, Answer
    <3>3. reply'[r] = "checked" => reply[r] = "checked"
      BY <2>3 DEF StartReport, CheckOwner, InsertReport, ReadSource, ScoreReport, Abandon,
         Goto, Answer, Inv, TypeOK
    <3> QED
      BY <3>1, <3>2, <3>3, AnswerIsKept, AnswerIsLocal
  <2>4. CASE UNCHANGED vars
    BY <2>4 DEF vars, AnswersAreComplete
  <2> QED
    BY <2>1, <2>2, <2>3, <2>4 DEF Next, Request
<1> QED
  BY <1>1, <1>2, Inductive, PTL DEF Spec

=============================================================================
