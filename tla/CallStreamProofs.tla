-------------------------- MODULE CallStreamProofs --------------------------
(***************************************************************************)
(* For any number of streams, fragments of any length and any window: the  *)
(* handler keeps its types, the row of a stream owns up to every answer    *)
(* the phone was sent, and the phone sees what CallPeer promises.          *)
(*                                                                         *)
(* The invariant counts: a handler has read no more frames than were sent, *)
(* has answered no more than it has read, and one fewer while it still     *)
(* works on the last; what it answered is within its maximum; and after    *)
(* its row is written nothing of the stream moves.  Of the text it says    *)
(* that each fragment read is a block, behind the blocks before it, so     *)
(* that to count its runes is to measure an interval.                      *)
(***************************************************************************)
EXTENDS CallStream, SequenceTheorems, FiniteSetTheorems, TLAPS

(* Before the connection there is nothing, afterwards an owner. *)
Opened ==
  \A s \in Stream :
    /\ link[s] = "none" => handler[s] = "none" /\ owner[s] = NoUser
    /\ link[s] # "none" => owner[s] # NoUser

(* At most one answer to each fragment read, none yet to the one at work. *)
AnswersInTurn ==
  \A s \in Stream :
    /\ received[s] <= Len(sent[s])
    /\ Len(answers[s]) <= received[s]
    /\ handler[s] \in {"classify", "write"} => Len(answers[s]) < received[s]

(* The maximum bounds the verdict at hand and the answers; the flag is its. *)
MaximumBounds ==
  \A s \in Stream :
    /\ flagged[s] <=> maximum[s] >= Threshold
    /\ handler[s] = "write" => verdict[s] <= maximum[s]
    /\ \A i \in 1..Len(answers[s]) : answers[s][i] <= maximum[s]

(* A row is the final state of a handler that has ended. *)
RowsAreFinal ==
  \A c \in sessions : c.stream \in Stream /\ handler[c.stream] = "done" /\ c = Session(c.stream)

Inv == TypeOK /\ Opened /\ AnswersInTurn /\ MaximumBounds /\ RowsAreFinal

-----------------------------------------------------------------------------
(* The window of a text is a text.                                           *)
LEMMA WindowType ==
  ASSUME NEW text \in Seq(Nat)
  PROVE  Window(text) \in Seq(Nat)
<1>1. CASE Len(text) <= MaxRunes
  BY <1>1 DEF Window
<1>2. CASE Len(text) > MaxRunes
  <2>1. Len(text) \in Nat /\ MaxRunes \in Nat
    BY StreamAssumption
  <2>2. \A i \in Len(text) - MaxRunes + 1 .. Len(text) : i \in 1..Len(text)
    BY <1>2, <2>1
  <2>3. \A i \in Len(text) - MaxRunes + 1 .. Len(text) : text[i] \in Nat
    BY <2>2, ElementOfSeq
  <2>4. Len(text) - MaxRunes + 1 \in Int /\ Len(text) \in Int
    BY <2>1
  <2>5. SubSeq(text, Len(text) - MaxRunes + 1, Len(text)) \in Seq(Nat)
    BY <2>3, <2>4, SubSeqProperties
  <2> QED
    BY <1>2, <2>1, <2>5 DEF Window
<1> QED
  BY <1>1, <1>2, StreamAssumption

(* Appending a fragment to a transcript gives a transcript.                  *)
LEMMA WrittenType ==
  ASSUME TypeOK, NEW s \in Stream, NEW k \in 1..Len(sent[s])
  PROVE  Written(s, k) \in Seq(Nat)
<1> DEFINE n == sent[s][k] + 1
<1> DEFINE tail == [i \in 1..n |-> k]
<1>1. n \in Nat /\ k \in Nat
  <2>1. sent[s][k] \in Fragment
    BY ElementOfSeq DEF TypeOK
  <2>2. Len(sent[s]) \in Nat
    BY DEF TypeOK
  <2>3. sent[s][k] \in Nat
    BY <2>1, StreamAssumption
  <2> QED
    BY <2>2, <2>3
<1>2. tail \in Seq(Nat)
  <2>1. tail \in [1..n -> Nat]
    BY <1>1
  <2> QED
    BY <1>1, <2>1
<1>3. transcript[s] \in Seq(Nat)
  BY DEF TypeOK
<1> QED
  BY <1>2, <1>3, ConcatProperties DEF Written

(* Every step of the phone, the network and the handler keeps the types.     *)
(* A row has a user because only a stream that somebody opened is handled.   *)
LEMMA TypeStep ==
  ASSUME TypeOK, Opened, [Next]_vars
  PROVE  TypeOK'
<1> USE DEF phoneVars, localVars, Goto, Level, Busy
<1>1. ASSUME NEW s \in Stream, NEW u \in User, Connect(s, u) PROVE TypeOK'
  BY <1>1 DEF Connect, TypeOK
<1>2. ASSUME NEW s \in Stream, NEW f \in Fragment, Send(s, f) PROVE TypeOK'
  <2>1. Append(sent[s], f) \in Seq(Fragment)
    BY DEF TypeOK
  <2>2. sent' \in [Stream -> Seq(Fragment)]
    BY <1>2, <2>1 DEF Send, TypeOK
  <2> QED
    BY <1>2, <2>2 DEF Send, TypeOK
<1>3. ASSUME NEW s \in Stream, Shut(s) \/ Lose(s) PROVE TypeOK'
  BY <1>3 DEF Shut, Lose, TypeOK
<1>4. ASSUME NEW s \in Stream, Authenticate(s) PROVE TypeOK'
  BY <1>4 DEF Authenticate, TypeOK
<1>5. ASSUME NEW s \in Stream, ReadFrame(s) PROVE TypeOK'
  <2>1. received[s] \in Nat /\ Len(sent[s]) \in Nat
    BY DEF TypeOK
  <2>2. received' \in [Stream -> Nat] /\ received'[s] \in 1..Len(sent[s])
    BY <1>5, <2>1 DEF ReadFrame, TypeOK
  <2>3. Written(s, received'[s]) \in Seq(Nat)
    BY <2>2, WrittenType
  <2>4. transcript' \in [Stream -> Seq(Nat)] /\ transcript'[s] \in Seq(Nat)
    BY <1>5, <2>3 DEF ReadFrame, TypeOK
  <2>5. heard' \in [Stream -> Seq(Nat)]
    BY <1>5, <2>4, WindowType DEF ReadFrame, TypeOK
  <2> QED
    BY <1>5, <2>2, <2>4, <2>5 DEF ReadFrame, TypeOK
<1>6. ASSUME NEW s \in Stream, ReadFails(s) PROVE TypeOK'
  BY <1>6 DEF ReadFails, AfterLastFrame, TypeOK
<1>7. ASSUME NEW s \in Stream, Classify(s) PROVE TypeOK'
  <2> DEFINE Skips == UNCHANGED <<maximum, flagged, verdict>> /\ Goto(s, "read")
             Judges(p) == Raise(s, p) /\ verdict' = [verdict EXCEPT ![s] = p] /\ Goto(s, "write")
  <2>1. <<>> \in Seq(Nat)
    OBVIOUS
  <2>2. heard' \in [Stream -> Seq(Nat)]
    BY <1>7, <2>1 DEF Classify, TypeOK
  <2>3. CASE Skips
    BY <1>7, <2>2, <2>3 DEF Classify, TypeOK
  <2>4. ASSUME NEW p \in Level, Judges(p)
        PROVE  TypeOK'
    <3>1. maximum' \in [Stream -> Level] /\ verdict' \in [Stream -> Level]
      BY <2>4 DEF Raise, TypeOK
    <3>2. flagged' \in [Stream -> BOOLEAN]
      BY <2>4 DEF Raise, TypeOK
    <3> QED
      BY <1>7, <2>2, <2>4, <3>1, <3>2 DEF Classify, TypeOK
  <2>5. Skips \/ \E p \in Level : Judges(p)
    BY <1>7 DEF Classify
  <2> HIDE DEF Skips, Judges
  <2> QED
    BY <2>3, <2>4, <2>5
<1>8. ASSUME NEW s \in Stream, WriteAnswer(s) PROVE TypeOK'
  <2>1. Append(answers[s], verdict[s]) \in Seq(Level)
    BY DEF TypeOK
  <2>2. answers' \in [Stream -> Seq(Level)]
    <3>1. answers \in [Stream -> Seq(Level)]
      BY DEF TypeOK
    <3>2. answers' = answers \/ answers' = [answers EXCEPT ![s] = Append(answers[s], verdict[s])]
      BY <1>8 DEF WriteAnswer, Answer
    <3> HIDE DEF Level
    <3> QED
      BY <2>1, <3>1, <3>2
  <2> QED
    BY <1>8, <2>2 DEF WriteAnswer, Answer, TypeOK
<1>9. ASSUME NEW s \in Stream, SaveSession(s) PROVE TypeOK'
  <2>1. Session(s) \in [stream : Stream, user : User, transcript : Seq(Nat),
                        maximum : Level, alert : BOOLEAN]
    BY <1>9 DEF SaveSession, Session, TypeOK, Opened
  <2> QED
    BY <1>9, <2>1 DEF SaveSession, TypeOK
<1>10. CASE StopServer
  BY <1>10 DEF StopServer, TypeOK
<1>11. CASE UNCHANGED vars
  BY <1>11 DEF vars, TypeOK
<1> QED
  BY <1>1, <1>2, <1>3, <1>4, <1>5, <1>6, <1>7, <1>8, <1>9, <1>10, <1>11
  DEF Next, Handle

(* A stream that nobody has opened stays untouched, and one that was opened  *)
(* keeps its owner.                                                          *)
LEMMA OpenedStep ==
  ASSUME TypeOK, Opened, [Next]_vars
  PROVE  Opened'
<1> USE StreamAssumption DEF phoneVars, localVars, Goto, Busy
<1>1. ASSUME NEW s \in Stream, NEW u \in User, Connect(s, u) PROVE Opened'
  BY <1>1 DEF Connect, TypeOK, Opened
<1>2. ASSUME NEW s \in Stream, Shut(s) \/ Lose(s) PROVE Opened'
  BY <1>2 DEF Shut, Lose, TypeOK, Opened
<1>3. ASSUME UNCHANGED <<link, owner>>, NEW s \in Stream, handler[s] # "none",
             \A t \in Stream \ {s} : handler'[t] = handler[t]
      PROVE  Opened'
  BY <1>3 DEF Opened
<1>4. ASSUME NEW s \in Stream, Handle(s) PROVE Opened'
  <2>1. UNCHANGED <<link, owner>> /\ handler[s] # "none"
    BY <1>4 DEF Handle, Authenticate, ReadFrame, ReadFails, Classify, WriteAnswer, SaveSession
  <2>2. \A t \in Stream \ {s} : handler'[t] = handler[t]
    BY <1>4 DEF Handle, Authenticate, ReadFrame, ReadFails, AfterLastFrame, Classify,
                WriteAnswer, Answer, SaveSession, TypeOK
  <2> QED
    BY <1>3, <2>1, <2>2
<1>5. ASSUME NEW s \in Stream, NEW f \in Fragment, Send(s, f) PROVE Opened'
  BY <1>5 DEF Send, Opened
<1>6. CASE StopServer
  BY <1>6 DEF StopServer, TypeOK, Opened
<1>7. CASE UNCHANGED vars
  BY <1>7 DEF vars, Opened
<1> QED
  BY <1>1, <1>2, <1>4, <1>5, <1>6, <1>7 DEF Next

(* Reading raises what may be answered by one; answering uses it up.         *)
LEMMA TurnStep ==
  ASSUME TypeOK, AnswersInTurn, [Next]_vars
  PROVE  AnswersInTurn'
<1> USE DEF phoneVars, localVars, Goto, Busy
<1>1. ASSUME UNCHANGED <<received, answers, sent>>,
             \A s \in Stream : handler'[s] \in {"classify", "write"}
                              => handler[s] \in {"classify", "write"}
      PROVE  AnswersInTurn'
  BY <1>1 DEF AnswersInTurn
<1>2. ASSUME NEW s \in Stream, NEW u \in User, Connect(s, u) PROVE AnswersInTurn'
  BY <1>1, <1>2 DEF Connect, TypeOK
<1>3. ASSUME NEW s \in Stream, NEW f \in Fragment, Send(s, f) PROVE AnswersInTurn'
  <2>1. \A t \in Stream : Len(sent[t]) \in Nat /\ Len(sent'[t]) \in Nat
                         /\ Len(sent[t]) <= Len(sent'[t])
    BY <1>3 DEF Send, TypeOK
  <2>2. \A t \in Stream : received[t] \in Nat
    BY DEF TypeOK
  <2> QED
    BY <1>3, <2>1, <2>2 DEF Send, AnswersInTurn
<1>4. ASSUME NEW s \in Stream, Shut(s) \/ Lose(s) PROVE AnswersInTurn'
  BY <1>1, <1>4 DEF Shut, Lose
<1>5. ASSUME NEW s \in Stream, Authenticate(s) \/ ReadFails(s) \/ SaveSession(s)
      PROVE  AnswersInTurn'
  BY <1>1, <1>5 DEF Authenticate, ReadFails, AfterLastFrame, SaveSession, TypeOK
<1>6. ASSUME NEW s \in Stream, ReadFrame(s) PROVE AnswersInTurn'
  <2>1. \A t \in Stream : received[t] \in Nat /\ Len(sent[t]) \in Nat /\ Len(answers[t]) \in Nat
    BY DEF TypeOK
  <2>2. received' = [received EXCEPT ![s] = received[s] + 1] /\ received[s] < Len(sent[s])
        /\ UNCHANGED <<sent, answers>> /\ handler' = [handler EXCEPT ![s] = "classify"]
    BY <1>6 DEF ReadFrame
  <2> QED
    BY <2>1, <2>2 DEF AnswersInTurn, TypeOK
<1>7. ASSUME NEW s \in Stream, Classify(s) PROVE AnswersInTurn'
  BY <1>1, <1>7 DEF Classify, TypeOK
<1>8. ASSUME NEW s \in Stream, WriteAnswer(s) PROVE AnswersInTurn'
  <2>1. CASE UNCHANGED answers
    <3>1. handler'[s] \notin {"classify", "write"} /\ UNCHANGED <<received, sent>>
      BY <1>8 DEF WriteAnswer, Answer, TypeOK
    <3>2. \A t \in Stream \ {s} : handler'[t] = handler[t]
      BY <1>8 DEF WriteAnswer, Answer, TypeOK
    <3> QED
      BY <2>1, <3>1, <3>2 DEF AnswersInTurn
  <2>2. CASE Answer(s)
    <3>1. handler[s] = "write" /\ UNCHANGED <<received, sent>>
      BY <1>8 DEF WriteAnswer
    <3>2. \A t \in Stream : Len(answers[t]) \in Nat /\ received[t] \in Nat
      BY DEF TypeOK
    <3>3. Len(answers'[s]) = Len(answers[s]) + 1 /\ handler'[s] = "read"
      BY <2>2 DEF Answer, TypeOK
    <3>4. \A t \in Stream \ {s} : answers'[t] = answers[t] /\ handler'[t] = handler[t]
      BY <2>2 DEF Answer, TypeOK
    <3> QED
      BY <3>1, <3>2, <3>3, <3>4 DEF AnswersInTurn
  <2> QED
    BY <1>8, <2>1, <2>2 DEF WriteAnswer
<1>9. CASE StopServer
  BY <1>1, <1>9 DEF StopServer, TypeOK
<1>10. CASE UNCHANGED vars
  BY <1>1, <1>10 DEF vars
<1> QED
  BY <1>2, <1>3, <1>4, <1>5, <1>6, <1>7, <1>8, <1>9, <1>10 DEF Next, Handle

(* The maximum only grows, with every verdict before it is answered, and the *)
(* flag goes up when it passes the threshold.                                *)
LEMMA MaximumStep ==
  ASSUME TypeOK, MaximumBounds, [Next]_vars
  PROVE  MaximumBounds'
<1> USE StreamAssumption DEF phoneVars, localVars, Goto, Busy
<1>1. ASSUME UNCHANGED <<flagged, maximum, verdict, answers>>,
             \A s \in Stream : handler'[s] = "write" => handler[s] = "write"
      PROVE  MaximumBounds'
  BY <1>1 DEF MaximumBounds
<1>2. ASSUME NEW s \in Stream, NEW u \in User, Connect(s, u) PROVE MaximumBounds'
  BY <1>1, <1>2 DEF Connect, TypeOK
<1>3. ASSUME NEW s \in Stream, NEW f \in Fragment, Send(s, f) PROVE MaximumBounds'
  BY <1>1, <1>3 DEF Send
<1>4. ASSUME NEW s \in Stream, Shut(s) \/ Lose(s) PROVE MaximumBounds'
  BY <1>1, <1>4 DEF Shut, Lose
<1>5. ASSUME NEW s \in Stream,
             Authenticate(s) \/ ReadFrame(s) \/ ReadFails(s) \/ SaveSession(s)
      PROVE  MaximumBounds'
  BY <1>1, <1>5 DEF Authenticate, ReadFrame, ReadFails, AfterLastFrame, SaveSession, TypeOK
<1>6. ASSUME NEW s \in Stream, Classify(s) PROVE MaximumBounds'
  <2>1. CASE UNCHANGED <<maximum, flagged, verdict>> /\ Goto(s, "read")
    BY <1>1, <1>6, <2>1 DEF Classify, TypeOK
  <2>2. ASSUME NEW p \in Level, Raise(s, p), verdict' = [verdict EXCEPT ![s] = p], Goto(s, "write")
        PROVE  MaximumBounds'
    <3>1. \A t \in Stream : maximum[t] \in Nat /\ flagged[t] \in BOOLEAN
      BY DEF TypeOK, Level
    <3>2. p \in Nat /\ Threshold \in Nat
      BY DEF Level
    <3>3. /\ maximum'[s] = IF p > maximum[s] THEN p ELSE maximum[s]
          /\ flagged'[s] = (flagged[s] \/ p >= Threshold)
          /\ verdict'[s] = p /\ answers' = answers
      BY <1>6, <2>2 DEF Raise, TypeOK, Classify
    <3>4. \A t \in Stream \ {s} :
            /\ maximum'[t] = maximum[t] /\ flagged'[t] = flagged[t]
            /\ verdict'[t] = verdict[t] /\ handler'[t] = handler[t]
      BY <2>2 DEF Raise, TypeOK
    <3>5. flagged'[s] <=> maximum'[s] >= Threshold
      <4>1. flagged[s] <=> maximum[s] >= Threshold
        BY DEF MaximumBounds
      <4>2. (maximum'[s] >= Threshold) <=> (maximum[s] >= Threshold \/ p >= Threshold)
        BY <3>1, <3>2, <3>3
      <4> QED
        BY <3>3, <4>1, <4>2
    <3>6. verdict'[s] <= maximum'[s] /\ maximum[s] <= maximum'[s] /\ maximum'[s] \in Nat
      BY <3>1, <3>2, <3>3
    <3>7. \A i \in 1..Len(answers[s]) : answers[s][i] \in Nat /\ answers[s][i] <= maximum[s]
      <4>1. answers[s] \in Seq(Level)
        BY DEF TypeOK
      <4>2. \A i \in 1..Len(answers[s]) : answers[s][i] \in Level
        BY <4>1, ElementOfSeq
      <4> QED
        BY <4>2 DEF MaximumBounds, Level
    <3>8. \A i \in 1..Len(answers[s]) : answers[s][i] <= maximum'[s]
      BY <3>1, <3>6, <3>7
    <3> QED
      BY <3>3, <3>4, <3>5, <3>6, <3>8 DEF MaximumBounds
  <2> QED
    BY <1>6, <2>1, <2>2 DEF Classify
<1>7. ASSUME NEW s \in Stream, WriteAnswer(s) PROVE MaximumBounds'
  <2>1. CASE UNCHANGED answers
    BY <1>1, <1>7, <2>1 DEF WriteAnswer, Answer, TypeOK
  <2>2. CASE Answer(s)
    <3>1. handler[s] = "write" /\ UNCHANGED <<maximum, flagged, verdict>>
      BY <1>7 DEF WriteAnswer
    <3>2. verdict[s] <= maximum[s] /\ verdict[s] \in Level /\ answers[s] \in Seq(Level)
      BY <3>1 DEF MaximumBounds, TypeOK
    <3>3. answers'[s] = Append(answers[s], verdict[s]) /\ handler'[s] = "read"
      BY <2>2 DEF Answer, TypeOK
    <3>4. \A i \in 1..Len(answers'[s]) : answers'[s][i] <= maximum[s]
      <4>1. /\ Len(answers'[s]) = Len(answers[s]) + 1 /\ Len(answers[s]) \in Nat
            /\ \A i \in 1..Len(answers[s]) : answers'[s][i] = answers[s][i]
            /\ answers'[s][Len(answers[s]) + 1] = verdict[s]
        BY <3>2, <3>3, AppendProperties
      <4>2. \A i \in 1..Len(answers[s]) : answers[s][i] <= maximum[s]
        BY DEF MaximumBounds
      <4> QED
        BY <3>2, <4>1, <4>2
    <3>5. \A t \in Stream \ {s} : answers'[t] = answers[t] /\ handler'[t] = handler[t]
      BY <2>2 DEF Answer, TypeOK
    <3> QED
      BY <3>1, <3>3, <3>4, <3>5 DEF MaximumBounds
  <2> QED
    BY <1>7, <2>1, <2>2 DEF WriteAnswer
<1>8. CASE StopServer
  BY <1>1, <1>8 DEF StopServer, TypeOK
<1>9. CASE UNCHANGED vars
  BY <1>1, <1>9 DEF vars
<1> QED
  BY <1>2, <1>3, <1>4, <1>5, <1>6, <1>7, <1>8, <1>9 DEF Next, Handle

(* Nothing that a row was made of changes after it is written.               *)
LEMMA FinalStep ==
  ASSUME TypeOK, Opened, RowsAreFinal, [Next]_vars
  PROVE  RowsAreFinal'
<1> USE DEF phoneVars, localVars, Goto, Busy
<1>1. ASSUME NEW s \in Stream, handler[s] # "done", UNCHANGED sessions,
             \A t \in Stream \ {s} :
               /\ handler'[t] = handler[t] /\ owner'[t] = owner[t]
               /\ transcript'[t] = transcript[t] /\ maximum'[t] = maximum[t]
               /\ flagged'[t] = flagged[t]
      PROVE  RowsAreFinal'
  BY <1>1 DEF RowsAreFinal, Session
<1>2. ASSUME UNCHANGED <<owner, transcript, maximum, flagged, sessions>>,
             \A t \in Stream : handler[t] = "done" => handler'[t] = "done"
      PROVE  RowsAreFinal'
  BY <1>2 DEF RowsAreFinal, Session
<1>3. ASSUME NEW s \in Stream, NEW u \in User, Connect(s, u) PROVE RowsAreFinal'
  <2>1. handler[s] = "none"
    BY <1>3 DEF Connect, Opened
  <2> QED
    BY <1>1, <1>3, <2>1 DEF Connect, TypeOK
<1>4. ASSUME NEW s \in Stream, (\E f \in Fragment : Send(s, f)) \/ Shut(s) \/ Lose(s)
      PROVE  RowsAreFinal'
  BY <1>2, <1>4 DEF Send, Shut, Lose
<1>5. ASSUME NEW s \in Stream,
             Authenticate(s) \/ ReadFrame(s) \/ ReadFails(s) \/ Classify(s) \/ WriteAnswer(s)
      PROVE  RowsAreFinal'
  <2>1. handler[s] # "done" /\ UNCHANGED <<sessions, owner>>
    BY <1>5 DEF Authenticate, ReadFrame, ReadFails, Classify, WriteAnswer
  <2>2. \A t \in Stream \ {s} : handler'[t] = handler[t] /\ transcript'[t] = transcript[t]
    BY <1>5 DEF Authenticate, ReadFrame, ReadFails, AfterLastFrame, Classify, WriteAnswer,
                Answer, TypeOK
  <2>3. \A t \in Stream \ {s} : maximum'[t] = maximum[t] /\ flagged'[t] = flagged[t]
    BY <1>5 DEF Authenticate, ReadFrame, ReadFails, Classify, Raise, WriteAnswer, TypeOK
  <2> QED
    BY <1>1, <2>1, <2>2, <2>3
<1>6. ASSUME NEW s \in Stream, SaveSession(s) PROVE RowsAreFinal'
  <2>1. handler' = [handler EXCEPT ![s] = "done"] /\ handler[s] # "done"
        /\ UNCHANGED <<owner, transcript, maximum, flagged>>
    BY <1>6 DEF SaveSession
  <2>2. \A t \in Stream : Session(t)' = Session(t)
    BY <2>1 DEF Session
  <2>3. handler'[s] = "done" /\ Session(s).stream = s
    BY <2>1 DEF TypeOK, Session
  <2>4. sessions' \in {sessions, sessions \cup {Session(s)}}
    BY <1>6 DEF SaveSession
  <2>5. ASSUME NEW c \in sessions'
        PROVE  c.stream \in Stream /\ handler'[c.stream] = "done" /\ c = Session(c.stream)'
    <3>1. CASE c \in sessions
      BY <2>1, <2>2, <3>1 DEF RowsAreFinal, TypeOK
    <3>2. CASE c = Session(s)
      BY <2>2, <2>3, <3>2
    <3> QED
      BY <2>4, <3>1, <3>2
  <2> QED
    BY <2>5 DEF RowsAreFinal
<1>7. CASE StopServer
  BY <1>2, <1>7 DEF StopServer
<1>8. CASE UNCHANGED vars
  BY <1>2, <1>8 DEF vars
<1> QED
  BY <1>3, <1>4, <1>5, <1>6, <1>7, <1>8 DEF Next, Handle

-----------------------------------------------------------------------------
(* At the start nobody has connected.                                        *)
LEMMA InitInv == Init => Inv
<1> SUFFICES ASSUME Init PROVE Inv
  OBVIOUS
<1> USE StreamAssumption DEF Init
<1>1. /\ \A S : <<>> \in Seq(S)
      /\ 0 \in Level
  BY DEF Level
<1>2. TypeOK
  BY <1>1 DEF TypeOK
<1>3. Opened /\ AnswersInTurn
  BY DEF Opened, AnswersInTurn
<1>4. MaximumBounds
  <2>1. \A s \in Stream : ~flagged[s] /\ maximum[s] = 0 /\ Len(answers[s]) = 0
                         /\ handler[s] = "none"
    OBVIOUS
  <2> QED
    BY <2>1 DEF MaximumBounds
<1>5. RowsAreFinal
  BY DEF RowsAreFinal
<1> QED
  BY <1>2, <1>3, <1>4, <1>5 DEF Inv

(* The invariant is inductive.                                               *)
THEOREM Inductive == Spec => []Inv
<1>1. Inv /\ [Next]_vars => Inv'
  BY TypeStep, OpenedStep, TurnStep, MaximumStep, FinalStep DEF Inv
<1> QED
  BY InitInv, <1>1, PTL DEF Spec

(* Whatever fails and whenever the server stops, the handlers' variables and *)
(* the rows have their types.                                                *)
THEOREM TypeCorrect == Spec => []TypeOK
<1>1. Inv => TypeOK
  BY DEF Inv
<1> QED
  BY Inductive, <1>1, PTL

(* A row is its stream's only one, is its caller's, bounds every answer the  *)
(* phone was sent, and is flagged exactly if its maximum is a scam's.        *)
THEOREM AnswersFiled == Spec => []AnswersAreOnFile
<1>1. Inv => AnswersAreOnFile
  <2> SUFFICES ASSUME Inv, NEW c \in sessions
               PROVE  /\ c.user = owner[c.stream]
                      /\ c.alert = (c.maximum >= Threshold)
                      /\ \A i \in DOMAIN answers[c.stream] : answers[c.stream][i] <= c.maximum
                      /\ \A d \in sessions : d.stream = c.stream => d = c
    BY DEF AnswersAreOnFile
  <2>1. c.stream \in Stream /\ c = Session(c.stream)
    BY DEF Inv, RowsAreFinal
  <2>2. c.user = owner[c.stream] /\ c.alert = flagged[c.stream] /\ c.maximum = maximum[c.stream]
    BY <2>1 DEF Session
  <2>3. DOMAIN answers[c.stream] = 1..Len(answers[c.stream])
    BY <2>1 DEF Inv, TypeOK
  <2>4. \A d \in sessions : d = Session(d.stream)
    BY DEF Inv, RowsAreFinal
  <2>5. c.alert \in BOOLEAN /\ (c.alert <=> c.maximum >= Threshold)
    BY <2>1, <2>2 DEF Inv, TypeOK, MaximumBounds
  <2>6. c.alert = (c.maximum >= Threshold)
    BY <2>5
  <2>7. \A i \in DOMAIN answers[c.stream] : answers[c.stream][i] <= c.maximum
    BY <2>1, <2>2, <2>3 DEF Inv, MaximumBounds
  <2>8. \A d \in sessions : d.stream = c.stream => d = c
    BY <2>1, <2>4
  <2> QED
    BY <2>2, <2>6, <2>7, <2>8
<1> QED
  BY Inductive, <1>1, PTL

-----------------------------------------------------------------------------
(* What a handler has of a text: its fragments are blocks, one after the     *)
(* other, and the last one read ends it.                                     *)
PlacesOf(text, f) == {i \in DOMAIN text : text[i] = f}

Blocks(s) ==
  /\ \A i, j \in DOMAIN transcript[s] : i < j => transcript[s][i] <= transcript[s][j]
  /\ \A i \in DOMAIN transcript[s] : transcript[s][i] \in 1..received[s]
  /\ \A f \in 1..received[s] : \E a \in Nat : PlacesOf(transcript[s], f) = (a + 1)..(a + sent[s][f] + 1)

LastBlock(s) ==
  /\ received[s] > 0 /\ heard[s] = Window(transcript[s])
  /\ sent[s][received[s]] < Len(transcript[s])
  /\ PlacesOf(transcript[s], received[s]) =
       (Len(transcript[s]) - sent[s][received[s]])..Len(transcript[s])

Texts ==
  \A s \in Stream :
    /\ received[s] <= Len(sent[s])
    /\ Blocks(s)
    /\ handler[s] = "classify" => LastBlock(s)

(* Blocks stay as long as the text does and the fragments read are the same. *)
LEMMA SameText ==
  ASSUME NEW s \in Stream, TypeOK, Blocks(s),
         transcript'[s] = transcript[s], received'[s] = received[s],
         \A f \in 1..received[s] : sent'[s][f] = sent[s][f]
  PROVE  Blocks(s)' /\ (received[s] > 0 /\ heard'[s] = heard[s] /\ LastBlock(s) => LastBlock(s)')
<1>1. received[s] \in Nat
  BY DEF TypeOK
<1>2. Blocks(s)'
  <2>1. \A f \in 1..received'[s] : \E a \in Nat : PlacesOf(transcript'[s], f) = (a + 1)..(a + sent'[s][f] + 1)
    BY DEF Blocks
  <2>2. /\ \A i, j \in DOMAIN transcript'[s] : i < j => transcript'[s][i] <= transcript'[s][j]
        /\ \A i \in DOMAIN transcript'[s] : transcript'[s][i] \in 1..received'[s]
    BY DEF Blocks
  <2> QED
    BY <2>1, <2>2 DEF Blocks
<1>3. ASSUME received[s] > 0, heard'[s] = heard[s], LastBlock(s) PROVE LastBlock(s)'
  <2>1. sent'[s][received'[s]] = sent[s][received[s]]
    BY <1>1, <1>3
  <2> QED
    BY <1>3, <2>1 DEF LastBlock, Window
<1> QED
  BY <1>2, <1>3

(* The next fragment is a block of its own, behind the others.               *)
LEMMA NextBlock ==
  ASSUME TypeOK, NEW s \in Stream, received[s] < Len(sent[s]), Blocks(s),
         UNCHANGED sent, received'[s] = received[s] + 1,
         transcript'[s] = Written(s, received[s] + 1), heard'[s] = Window(transcript'[s])
  PROVE  Blocks(s)' /\ LastBlock(s)'
<1> DEFINE T == transcript[s]
           U == transcript'[s]
           k == received[s] + 1
           n == sent[s][k] + 1
<1>1. k \in Nat \ {0} /\ received[s] \in Nat /\ Len(sent[s]) \in Nat /\ k \in 1..Len(sent[s])
      /\ received[s] = k - 1
  <2>1. received[s] \in Nat /\ Len(sent[s]) \in Nat
    BY DEF TypeOK
  <2> QED
    BY <2>1
<1>2. U = Written(s, k) /\ received'[s] = k /\ heard'[s] = Window(U) /\ sent' = sent
  OBVIOUS
<1> HIDE DEF k
<1>3. n = sent[s][k] + 1 /\ sent[s][k] \in Nat \ {0}
  <2>1. sent[s][k] \in Fragment
    BY <1>1, ElementOfSeq DEF TypeOK
  <2> QED
    BY <2>1, StreamAssumption
<1>4. n \in Nat /\ n > 1
  BY <1>3
<1>5. T \in Seq(Nat) /\ Len(T) \in Nat /\ DOMAIN T = 1..Len(T)
  BY DEF TypeOK
<1>6. /\ U \in Seq(Nat) /\ Len(U) = Len(T) + n /\ DOMAIN U = 1..(Len(T) + n)
      /\ \A i \in 1..Len(T) : U[i] = T[i]
      /\ \A i \in (Len(T) + 1)..(Len(T) + n) : U[i] = k
  <2> DEFINE tail == [i \in 1..n |-> k]
  <2>1. tail \in Seq(Nat) /\ Len(tail) = n /\ \A i \in 1..n : tail[i] = k
    <3>1. tail \in [1..n -> Nat]
      BY <1>1
    <3> QED
      BY <1>1, <1>4, <3>1
  <2>2. U = T \o tail
    BY <1>2 DEF Written
  <2> HIDE DEF tail, T, U, n
  <2>3. /\ U \in Seq(Nat) /\ Len(U) = Len(T) + n
        /\ \A i \in 1..(Len(T) + n) : U[i] = IF i <= Len(T) THEN T[i] ELSE tail[i - Len(T)]
    BY <1>5, <2>1, <2>2, ConcatProperties
  <2>4. DOMAIN U = 1..(Len(T) + n)
    BY <2>3
  <2>5. ASSUME NEW i \in (Len(T) + 1)..(Len(T) + n) PROVE U[i] = k
    <3>1. i \in 1..(Len(T) + n) /\ ~(i <= Len(T)) /\ i - Len(T) \in 1..n
      BY <1>4, <1>5
    <3> QED
      BY <2>1, <2>3, <3>1
  <2>6. ASSUME NEW i \in 1..Len(T) PROVE U[i] = T[i]
    <3>1. i \in 1..(Len(T) + n) /\ i <= Len(T)
      BY <1>4, <1>5
    <3> QED
      BY <2>3, <3>1
  <2> QED
    BY <2>3, <2>4, <2>5, <2>6
<1>7. \A i \in 1..Len(T) : T[i] \in 1..received[s]
  BY <1>5 DEF Blocks
<1>8. \A i, j \in 1..Len(T) : i < j => T[i] <= T[j]
  BY <1>5 DEF Blocks
<1> HIDE DEF T, U, n
<1>9. PlacesOf(U, k) = (Len(T) + 1)..(Len(T) + n)
  <2>1. PlacesOf(U, k) = {i \in 1..(Len(T) + n) : U[i] = k}
    BY <1>6 DEF PlacesOf
  <2>2. \A i \in 1..Len(T) : U[i] # k
    BY <1>1, <1>6, <1>7
  <2> QED
    BY <1>4, <1>5, <1>6, <2>1, <2>2
<1>10. ASSUME NEW f \in 1..received[s] PROVE PlacesOf(U, f) = PlacesOf(T, f)
  <2>1. PlacesOf(U, f) = {i \in 1..(Len(T) + n) : U[i] = f} /\ PlacesOf(T, f) = {i \in 1..Len(T) : T[i] = f}
    BY <1>5, <1>6 DEF PlacesOf
  <2>2. \A i \in (Len(T) + 1)..(Len(T) + n) : U[i] # f
    BY <1>1, <1>6
  <2>3. \A i \in 1..(Len(T) + n) : i \in 1..Len(T) \/ i \in (Len(T) + 1)..(Len(T) + n)
    BY <1>4, <1>5
  <2>4. \A i \in 1..Len(T) : i \in 1..(Len(T) + n)
    BY <1>4, <1>5
  <2> QED
    BY <1>6, <2>1, <2>2, <2>3, <2>4
<1>11. Blocks(s)'
  <2>1. ASSUME NEW i \in 1..(Len(T) + n) PROVE U[i] \in 1..received[s] \/ U[i] = k
    <3>1. i \in 1..Len(T) \/ i \in (Len(T) + 1)..(Len(T) + n)
      BY <1>4, <1>5
    <3> QED
      BY <1>6, <1>7, <3>1
  <2>2. ASSUME NEW i \in 1..(Len(T) + n), NEW j \in 1..(Len(T) + n), i < j PROVE U[i] <= U[j]
    <3>1. CASE j <= Len(T)
      <4>1. i \in 1..Len(T) /\ j \in 1..Len(T)
        BY <1>5, <2>2, <3>1
      <4> QED
        BY <1>6, <1>8, <2>2, <4>1
    <3>2. CASE j > Len(T)
      <4>1. U[j] = k
        BY <1>4, <1>5, <1>6, <3>2
      <4>2. U[i] \in 1..received[s] \/ U[i] = k
        BY <2>1
      <4> QED
        BY <1>1, <4>1, <4>2
    <3> QED
      BY <1>4, <1>5, <3>1, <3>2
  <2>3. ASSUME NEW i \in 1..(Len(T) + n) PROVE U[i] \in 1..k
    <3>1. U[i] \in 1..received[s] \/ U[i] = k
      BY <2>1
    <3> QED
      BY <1>1, <3>1
  <2>4. n = sent[s][k] + 1 /\ sent[s][k] \in Nat
    BY <1>3
  <2>5. ASSUME NEW f \in 1..k PROVE \E a \in Nat : PlacesOf(U, f) = (a + 1)..(a + sent[s][f] + 1)
    <3>1. CASE f = k
      <4>1. Len(T) + n = Len(T) + sent[s][f] + 1
        BY <1>5, <2>4, <3>1
      <4>2. PlacesOf(U, f) = (Len(T) + 1)..(Len(T) + sent[s][f] + 1)
        BY <1>9, <3>1, <4>1
      <4> QED
        BY <1>5, <4>2
    <3>2. CASE f # k
      <4>1. f \in 1..received[s]
        BY <1>1, <3>2
      <4> QED
        BY <1>10, <4>1 DEF Blocks, T
    <3> QED
      BY <3>1, <3>2
  <2> QED
    BY <1>2, <1>6, <2>2, <2>3, <2>5 DEF Blocks, U
<1>12. LastBlock(s)'
  <2>1. n - 1 = sent[s][k] /\ sent[s][k] \in Int
    BY <1>3
  <2>2. sent[s][k] < Len(U) /\ Len(U) - sent[s][k] = Len(T) + 1
    BY <1>4, <1>5, <1>6, <2>1
  <2>3. PlacesOf(U, k) = (Len(U) - sent[s][k])..Len(U)
    BY <1>6, <1>9, <2>2
  <2> QED
    BY <1>1, <1>2, <2>2, <2>3 DEF LastBlock, U
<1> QED
  BY <1>11, <1>12

(* Only reading a frame writes text, behind what is there; what is sent      *)
(* meanwhile comes later.                                                    *)
LEMMA TextStep ==
  ASSUME TypeOK, Texts, [Next]_vars
  PROVE  Texts'
<1> USE DEF phoneVars, localVars, Goto, Busy
<1> DEFINE Same(s) == /\ received'[s] = received[s] /\ transcript'[s] = transcript[s]
                      /\ handler'[s] = "classify" => handler[s] = "classify" /\ heard'[s] = heard[s]
<1>1. ASSUME NEW s \in Stream, Same(s), Len(sent[s]) <= Len(sent'[s]),
             \A f \in 1..Len(sent[s]) : sent'[s][f] = sent[s][f]
      PROVE  /\ received'[s] <= Len(sent'[s]) /\ Blocks(s)'
             /\ handler'[s] = "classify" => LastBlock(s)'
  <2>1. received[s] \in Nat /\ Len(sent[s]) \in Nat /\ received[s] <= Len(sent[s])
    BY DEF TypeOK, Texts
  <2>2. \A f \in 1..received[s] : sent'[s][f] = sent[s][f]
    BY <1>1, <2>1
  <2>3. Blocks(s) /\ (handler[s] = "classify" => LastBlock(s))
    BY DEF Texts
  <2>4. Blocks(s)' /\ (received[s] > 0 /\ heard'[s] = heard[s] /\ LastBlock(s) => LastBlock(s)')
    BY <1>1, <2>2, <2>3, SameText
  <2>5. LastBlock(s) => received[s] > 0
    BY DEF LastBlock
  <2>6. Len(sent'[s]) \in Int => received'[s] <= Len(sent'[s])
    BY <1>1, <2>1
  <2> QED
    BY <1>1, <2>1, <2>3, <2>4, <2>5, <2>6
<1> HIDE DEF Same
<1>2. ASSUME UNCHANGED sent, \A s \in Stream : Same(s) PROVE Texts'
  <2>1. \A s \in Stream : Len(sent[s]) <= Len(sent'[s]) /\ \A f \in 1..Len(sent[s]) : sent'[s][f] = sent[s][f]
    BY <1>2 DEF TypeOK
  <2> QED
    BY <1>1, <1>2, <2>1 DEF Texts
<1>3. ASSUME NEW s \in Stream, NEW f \in Fragment, Send(s, f) PROVE Texts'
  <2>1. \A t \in Stream : Same(t)
    BY <1>3 DEF Send, Same
  <2>2. \A t \in Stream : sent[t] \in Seq(Fragment)
    BY DEF TypeOK
  <2>3. \A t \in Stream : sent'[t] = IF t = s THEN Append(sent[t], f) ELSE sent[t]
    BY <1>3 DEF Send, TypeOK
  <2>4. ASSUME NEW t \in Stream
        PROVE  Len(sent[t]) <= Len(sent'[t]) /\ \A g \in 1..Len(sent[t]) : sent'[t][g] = sent[t][g]
    <3>1. CASE t = s
      <4>1. sent'[t] = Append(sent[t], f) /\ sent[t] \in Seq(Fragment)
        BY <2>2, <2>3, <3>1
      <4>2. Len(sent'[t]) = Len(sent[t]) + 1 /\ Len(sent[t]) \in Nat
        BY <4>1, AppendProperties
      <4>3. \A g \in 1..Len(sent[t]) : sent'[t][g] = sent[t][g]
        BY <4>1, AppendProperties
      <4>4. Len(sent[t]) <= Len(sent'[t])
        BY <4>2
      <4> QED
        BY <4>3, <4>4
    <3>2. CASE t # s
      <4>1. sent'[t] = sent[t] /\ Len(sent[t]) \in Nat
        BY <2>2, <2>3, <3>2
      <4> QED
        BY <4>1
    <3> QED
      BY <3>1, <3>2
  <2> QED
    BY <1>1, <2>1, <2>4 DEF Texts
<1>4. ASSUME NEW s \in Stream, ReadFrame(s) PROVE Texts'
  <2>1. /\ received'[s] = received[s] + 1 /\ received[s] < Len(sent[s]) /\ UNCHANGED sent
        /\ transcript'[s] = Written(s, received[s] + 1) /\ heard'[s] = Window(transcript'[s])
    BY <1>4 DEF ReadFrame, TypeOK
  <2>2. Blocks(s)' /\ LastBlock(s)'
    BY <2>1, NextBlock DEF Texts
  <2>3. received'[s] <= Len(sent'[s])
    <3>1. received[s] \in Nat /\ Len(sent[s]) \in Nat
      BY DEF TypeOK
    <3> QED
      BY <2>1, <3>1
  <2>4. ASSUME NEW t \in Stream \ {s} PROVE Same(t)
    BY <1>4 DEF ReadFrame, TypeOK, Same
  <2>5. \A t \in Stream : Len(sent[t]) <= Len(sent'[t]) /\ \A f \in 1..Len(sent[t]) : sent'[t][f] = sent[t][f]
    BY <2>1 DEF TypeOK
  <2> QED
    BY <1>1, <2>2, <2>3, <2>4, <2>5 DEF Texts
<1>5. ASSUME NEW s \in Stream, NEW u \in User, Connect(s, u) PROVE Texts'
  BY <1>2, <1>5 DEF Connect, TypeOK, Same
<1>6. ASSUME NEW s \in Stream, Shut(s) \/ Lose(s) PROVE Texts'
  BY <1>2, <1>6 DEF Shut, Lose, Same
<1>7. ASSUME NEW s \in Stream, Authenticate(s) \/ ReadFails(s) \/ WriteAnswer(s) \/ SaveSession(s)
      PROVE  Texts'
  BY <1>2, <1>7 DEF Authenticate, ReadFails, AfterLastFrame, WriteAnswer, Answer, SaveSession, TypeOK, Same
<1>8. ASSUME NEW s \in Stream, Classify(s) PROVE Texts'
  <2>1. UNCHANGED <<sent, received, transcript>> /\ handler'[s] # "classify"
    BY <1>8 DEF Classify, TypeOK
  <2>2. \A t \in Stream \ {s} : handler'[t] = handler[t] /\ heard'[t] = heard[t]
    BY <1>8 DEF Classify, TypeOK
  <2> QED
    BY <1>2, <2>1, <2>2 DEF Same
<1>9. CASE StopServer
  BY <1>2, <1>9 DEF StopServer, TypeOK, Same
<1>10. CASE UNCHANGED vars
  BY <1>2, <1>10 DEF vars, Same
<1> QED
  BY <1>3, <1>4, <1>5, <1>6, <1>7, <1>8, <1>9, <1>10 DEF Next, Handle

(* Nothing is read before a stream is opened.                                *)
LEMMA InitTexts == Init => Texts
<1> SUFFICES ASSUME Init, NEW s \in Stream
             PROVE  /\ received[s] <= Len(sent[s]) /\ Blocks(s)
                    /\ handler[s] = "classify" => LastBlock(s)
  BY DEF Texts
<1>1. received[s] = 0 /\ sent[s] = <<>> /\ transcript[s] = <<>> /\ handler[s] = "none"
  BY DEF Init
<1>2. DOMAIN transcript[s] = {}
  BY <1>1
<1> QED
  BY <1>1, <1>2 DEF Blocks

LEMMA TextInvariant == Spec => [](Inv /\ Texts)
<1>1. Inv /\ Texts /\ [Next]_vars => Texts'
  BY TextStep DEF Inv
<1> QED
  BY Inductive, InitTexts, <1>1, PTL DEF Spec

(* Of however long a call, the classifier is given the end, with the whole   *)
(* of the latest fragment or its last runes: sliding window of stream.       *)
THEOREM WindowsHoldLatest == Spec => []WindowHoldsLatest
<1> SUFFICES ASSUME Inv, Texts PROVE WindowHoldsLatest
  BY TextInvariant, PTL
<1> SUFFICES ASSUME NEW s \in Stream, handler[s] = "classify"
             PROVE  LET cut == Len(transcript[s]) - Len(heard[s])
                        latest == {i \in DOMAIN heard[s] : heard[s][i] = received[s]}
                    IN  /\ Len(heard[s]) = LeastOf(MaxRunes, Len(transcript[s]))
                        /\ \A i \in DOMAIN heard[s] : heard[s][i] = transcript[s][cut + i]
                        /\ Cardinality(latest) = LeastOf(MaxRunes, sent[s][received[s]] + 1)
  BY DEF WindowHoldsLatest
<1> DEFINE T == transcript[s]
           W == heard[s]
           cut == Len(T) - Len(W)
           k == received[s]
           n == sent[s][k]
<1>1. T \in Seq(Nat) /\ DOMAIN T = 1..Len(T)
  BY DEF Inv, TypeOK
<1>2. Len(T) \in Nat /\ k \in Nat /\ MaxRunes \in Nat /\ MaxRunes > 0
  BY StreamAssumption DEF Inv, TypeOK
<1>3. k > 0 /\ W = Window(T) /\ n < Len(T) /\ PlacesOf(T, k) = (Len(T) - n)..Len(T)
  BY DEF Texts, LastBlock
<1>4. n \in Nat
  <2>1. k \in 1..Len(sent[s]) /\ sent[s] \in Seq(Fragment)
    <3>1. Len(sent[s]) \in Nat /\ k <= Len(sent[s]) /\ sent[s] \in Seq(Fragment)
      BY DEF Inv, TypeOK, Texts
    <3> QED
      BY <1>2, <1>3, <3>1
  <2>2. n \in Fragment
    BY <2>1, ElementOfSeq
  <2> QED
    BY <2>2, StreamAssumption
<1> HIDE DEF T, W, k, n
<1>5. /\ Len(W) = LeastOf(MaxRunes, Len(T)) /\ DOMAIN W = 1..Len(W) /\ Len(W) \in Nat
      /\ \A i \in 1..Len(W) : W[i] = T[cut + i]
  <2>1. CASE Len(T) <= MaxRunes
    <3>1. W = T /\ Len(W) = Len(T)
      BY <1>3, <2>1 DEF Window
    <3>2. Len(T) = LeastOf(MaxRunes, Len(T))
      BY <1>2, <2>1 DEF LeastOf
    <3>3. \A i \in 1..Len(W) : cut + i = i
      BY <1>2, <3>1
    <3> QED
      BY <1>1, <1>2, <3>1, <3>2, <3>3
  <2>2. CASE Len(T) > MaxRunes
    <3>1. W = SubSeq(T, Len(T) - MaxRunes + 1, Len(T))
      BY <1>2, <1>3, <2>2 DEF Window
    <3>2. \A i \in Len(T) - MaxRunes + 1 .. Len(T) : T[i] \in Nat
      <4>1. \A i \in Len(T) - MaxRunes + 1 .. Len(T) : i \in 1..Len(T)
        BY <1>2, <2>2
      <4> QED
        BY <1>1, <4>1, ElementOfSeq
    <3>3. /\ Len(W) = MaxRunes /\ W \in Seq(Nat)
          /\ \A i \in 1..MaxRunes : W[i] = T[Len(T) - MaxRunes + 1 + i - 1]
      <4>1. Len(T) - MaxRunes + 1 \in Int /\ Len(T) \in Int
            /\ Len(T) - (Len(T) - MaxRunes + 1) + 1 = MaxRunes /\ Len(T) - MaxRunes + 1 <= Len(T)
        BY <1>2
      <4> QED
        BY <3>1, <3>2, <4>1, SubSeqProperties
    <3>4. Len(W) = LeastOf(MaxRunes, Len(T))
      BY <1>2, <2>2, <3>3 DEF LeastOf
    <3>5. \A i \in 1..MaxRunes : Len(T) - MaxRunes + 1 + i - 1 = cut + i
      BY <1>2, <3>3
    <3>6. DOMAIN W = 1..Len(W) /\ Len(W) \in Nat
      BY <1>2, <3>3
    <3> QED
      BY <3>3, <3>4, <3>5, <3>6
  <2> QED
    BY <1>2, <2>1, <2>2
<1> DEFINE latest == {i \in DOMAIN W : W[i] = k}
           size == LeastOf(MaxRunes, n + 1)
<1>6. Len(W) \in Nat /\ cut \in Nat /\ cut + Len(W) = Len(T) /\ size \in Nat /\ size <= Len(W)
      /\ size >= 1
  BY <1>2, <1>3, <1>4, <1>5 DEF LeastOf
<1>7. latest = (Len(W) - size + 1)..Len(W)
  <2>1. \A i \in 1..Len(W) : W[i] = k <=> cut + i \in PlacesOf(T, k)
    <3>1. \A i \in 1..Len(W) : cut + i \in 1..Len(T)
      BY <1>6, <1>2
    <3> QED
      BY <1>1, <1>5, <3>1 DEF PlacesOf
  <2>2. \A i \in 1..Len(W) : cut + i \in PlacesOf(T, k) <=> i >= Len(W) - n
    <3>1. ASSUME NEW i \in 1..Len(W) PROVE cut + i \in (Len(T) - n)..Len(T) <=> i >= Len(W) - n
      BY <1>2, <1>4, <1>6
    <3> QED
      BY <1>3, <3>1
  <2>3. \A i \in 1..Len(W) : i >= Len(W) - n <=> i \in (Len(W) - size + 1)..Len(W)
    BY <1>2, <1>3, <1>4, <1>5, <1>6 DEF LeastOf
  <2>4. (Len(W) - size + 1)..Len(W) \subseteq 1..Len(W)
    BY <1>6
  <2> QED
    BY <1>5, <2>1, <2>2, <2>3, <2>4
<1>8. Cardinality(latest) = size
  <2>1. Cardinality((Len(W) - size + 1)..Len(W)) =
          IF Len(W) - size + 1 > Len(W) THEN 0 ELSE Len(W) - (Len(W) - size + 1) + 1
    <3>1. Len(W) - size + 1 \in Int /\ Len(W) \in Int
      BY <1>6
    <3> HIDE DEF size
    <3> QED
      BY <3>1, FS_Interval
  <2> HIDE DEF latest, size, cut
  <2> QED
    BY <1>6, <1>7, <2>1
<1> QED
  BY <1>5, <1>8 DEF T, W, k, n

(* A row has every fragment the handler read, whole, once and in order,      *)
(* whatever the window was: SaveSession after the loop.                      *)
THEOREM SessionsWhole == Spec => []SessionsAreWhole
<1> SUFFICES ASSUME Inv, Texts PROVE SessionsAreWhole
  BY TextInvariant, PTL
<1> SUFFICES ASSUME NEW c \in sessions
             PROVE  LET k == received[c.stream]
                        T == c.transcript
                    IN  /\ \A i, j \in DOMAIN T : i < j => T[i] <= T[j]
                        /\ \A i \in DOMAIN T : T[i] \in 1..k
                        /\ \A f \in 1..k : Cardinality({i \in DOMAIN T : T[i] = f}) = sent[c.stream][f] + 1
  BY DEF SessionsAreWhole
<1>1. c.stream \in Stream /\ c.transcript = transcript[c.stream]
  BY DEF Inv, RowsAreFinal, Session
<1>2. PICK s \in Stream : s = c.stream
  BY <1>1
<1>3. Blocks(s) /\ c.transcript = transcript[s] /\ received[s] <= Len(sent[s])
  BY <1>1, <1>2 DEF Texts
<1>4. ASSUME NEW f \in 1..received[s]
      PROVE  Cardinality(PlacesOf(transcript[s], f)) = sent[s][f] + 1
  <2>1. PICK a \in Nat : PlacesOf(transcript[s], f) = (a + 1)..(a + sent[s][f] + 1)
    BY <1>3 DEF Blocks
  <2>2. sent[s][f] \in Nat
    <3>1. received[s] \in Nat /\ Len(sent[s]) \in Nat /\ sent[s] \in Seq(Fragment)
      BY DEF Inv, TypeOK
    <3>2. f \in 1..Len(sent[s])
      BY <1>3, <3>1
    <3>3. sent[s][f] \in Fragment
      BY <3>1, <3>2, ElementOfSeq
    <3> QED
      BY <3>3, StreamAssumption
  <2> DEFINE b == a + sent[s][f] + 1
  <2>3. b \in Int /\ a + 1 \in Int /\ ~(a + 1 > b) /\ b - (a + 1) + 1 = sent[s][f] + 1
    BY <2>2
  <2> HIDE DEF b
  <2>4. Cardinality((a + 1)..b) = b - (a + 1) + 1
    BY <2>3, FS_Interval
  <2> QED
    BY <2>1, <2>3, <2>4 DEF b
<1> QED
  BY <1>2, <1>3, <1>4 DEF Blocks, PlacesOf

-----------------------------------------------------------------------------
(* The alert flags of a sequence of answers, as the refinement has them.     *)
Flags(q) == [i \in 1..Len(q) |-> q[i] >= Threshold]

(* One more answer is one more flag.                                         *)
LEMMA FlagsAppend ==
  ASSUME NEW q \in Seq(Level), NEW v \in Level,
         NEW flag \in BOOLEAN, flag <=> v >= Threshold
  PROVE  Flags(Append(q, v)) = Append(Flags(q), flag)
<1> DEFINE n == Len(q)
           p == Append(q, v)
<1>1. n \in Nat /\ Len(p) = n + 1 /\ p[n + 1] = v /\ \A i \in 1..n : p[i] = q[i]
  BY AppendProperties, LenProperties
<1>2. Flags(q) \in Seq(BOOLEAN) /\ Len(Flags(q)) = n
  <2>1. Flags(q) \in [1..n -> BOOLEAN]
    BY DEF Flags
  <2> QED
    BY <1>1, <2>1
<1>3. Flags(p) \in Seq(BOOLEAN) /\ Len(Flags(p)) = n + 1
  <2>1. Flags(p) \in [1..(n + 1) -> BOOLEAN]
    BY <1>1 DEF Flags
  <2>2. n + 1 \in Nat
    BY <1>1
  <2> QED
    BY <2>1, <2>2
<1>4. /\ Append(Flags(q), flag) \in Seq(BOOLEAN)
      /\ Len(Append(Flags(q), flag)) = n + 1
      /\ \A i \in 1..n : Append(Flags(q), flag)[i] = Flags(q)[i]
      /\ Append(Flags(q), flag)[n + 1] = flag
  BY <1>2, AppendProperties
<1>5. ASSUME NEW i \in 1..(n + 1) PROVE Flags(p)[i] = Append(Flags(q), flag)[i]
  <2>1. CASE i \in 1..n
    <3>1. Flags(p)[i] = (p[i] >= Threshold) /\ Flags(q)[i] = (q[i] >= Threshold)
      BY <1>1, <2>1 DEF Flags
    <3> QED
      BY <1>1, <1>4, <2>1, <3>1
  <2>2. CASE i = n + 1
    <3>1. Flags(p)[n + 1] = (p[n + 1] >= Threshold)
      BY <1>1 DEF Flags
    <3> QED
      BY <1>1, <1>4, <2>2, <3>1
  <2>3. i \in 1..n \/ i = n + 1
    BY <1>1
  <2> QED
    BY <2>1, <2>2, <2>3
<1> QED
  BY <1>3, <1>4, <1>5, SeqEqual

(* What the phone sees of the backend is what CallPeer promises: each answer *)
(* is to one fragment more than were answered before, and a stream never     *)
(* changes hands.                                                            *)
THEOREM PeerRefined == Spec => ImplementsPeer
<1> DEFINE Said == [s \in Stream |-> Len(sent[s])]
           Told == [s \in Stream |-> Flags(answers[s])]
<1>1. Init => Peer!PeerInit
  <2> SUFFICES ASSUME Init PROVE Peer!PeerInit
    OBVIOUS
  <2>1. owner = [s \in Stream |-> NoUser] /\ Said = [s \in Stream |-> 0]
    BY DEF Init
  <2>2. \A s \in Stream : Flags(answers[s]) = <<>>
    BY DEF Init, Flags
  <2> QED
    BY <2>1, <2>2 DEF Peer!PeerInit, Flags
<1>2. Inv /\ [Next]_vars => [Peer!PeerNext]_(Peer!peerVars)
  <2> SUFFICES ASSUME Inv, [Next]_vars PROVE [Peer!PeerNext]_(Peer!peerVars)
    OBVIOUS
  <2> USE DEF phoneVars, localVars, Goto
  <2>1. ASSUME UNCHANGED <<owner, sent, answers>> PROVE UNCHANGED Peer!peerVars
    BY <2>1 DEF Peer!peerVars
  <2>2. ASSUME NEW s \in Stream, NEW u \in User, Connect(s, u) PROVE Peer!Connect(s, u)
    <3>1. owner[s] = NoUser
      BY <2>2 DEF Connect, Inv, Opened
    <3> QED
      BY <2>2, <3>1 DEF Connect, Peer!Connect
  <2>3. ASSUME NEW s \in Stream, NEW f \in Fragment, Send(s, f) PROVE Peer!Send(s)
    <3>1. owner[s] # NoUser
      BY <2>3 DEF Send, Inv, Opened
    <3>2. sent' = [sent EXCEPT ![s] = Append(sent[s], f)]
          /\ Len(Append(sent[s], f)) = Len(sent[s]) + 1
      BY <2>3 DEF Send, Inv, TypeOK
    <3>3. Said' = [Said EXCEPT ![s] = @ + 1]
      BY <3>2 DEF Inv, TypeOK
    <3> QED
      BY <2>3, <3>1, <3>3 DEF Send, Peer!Send
  <2>4. ASSUME NEW s \in Stream, Handle(s), answers' # answers,
               NEW alert \in BOOLEAN, alert <=> verdict[s] >= Threshold
        PROVE  Peer!Tell(s, alert)
    <3>1. handler[s] = "write" /\ Answer(s) /\ UNCHANGED <<owner, sent>>
      BY <2>4 DEF Handle, Authenticate, ReadFrame, ReadFails, Classify, WriteAnswer, SaveSession
    <3>2. answers[s] \in Seq(Level) /\ verdict[s] \in Level
      BY DEF Inv, TypeOK
    <3>3. Len(Flags(answers[s])) < Said[s]
      <4>1. Len(answers[s]) < received[s] /\ received[s] <= Len(sent[s])
        BY <3>1 DEF Inv, AnswersInTurn
      <4>2. Len(answers[s]) \in Nat /\ received[s] \in Nat /\ Len(sent[s]) \in Nat
        BY DEF Inv, TypeOK
      <4>3. Len(Flags(answers[s])) = Len(answers[s])
        BY <4>2 DEF Flags
      <4> QED
        BY <4>1, <4>2, <4>3
    <3>4. answers' = [answers EXCEPT ![s] = Append(answers[s], verdict[s])]
      BY <3>1 DEF Answer
    <3>5. Told' = [Told EXCEPT ![s] = Append(@, alert)]
      BY <2>4, <3>2, <3>4, FlagsAppend DEF Inv, TypeOK
    <3> QED
      BY <3>1, <3>3, <3>5 DEF Peer!Tell, Flags
  <2>5. ASSUME NEW s \in Stream, Handle(s) PROVE UNCHANGED <<owner, sent>>
    BY <2>5 DEF Handle, Authenticate, ReadFrame, ReadFails, Classify, WriteAnswer, SaveSession
  <2>6. ASSUME NEW s \in Stream, Shut(s) \/ Lose(s) PROVE UNCHANGED <<owner, sent, answers>>
    BY <2>6 DEF Shut, Lose
  <2>7. CASE StopServer
    BY <2>1, <2>7 DEF StopServer
  <2>8. CASE UNCHANGED vars
    BY <2>1, <2>8 DEF vars
  <2>9. ASSUME NEW s \in Stream, Handle(s)
         PROVE  Peer!PeerNext \/ UNCHANGED Peer!peerVars
    <3>1. CASE UNCHANGED answers
      BY <2>1, <2>5, <2>9, <3>1
    <3>2. CASE answers' # answers
      <4>1. PICK alert \in BOOLEAN : alert <=> verdict[s] >= Threshold
        OBVIOUS
      <4>2. Peer!Tell(s, alert)
        BY <2>4, <2>9, <3>2, <4>1
      <4> QED
        BY <4>2 DEF Peer!PeerNext
    <3> QED
      BY <3>1, <3>2
  <2>10. ASSUME NEW s \in Stream, (\E u \in User : Connect(s, u)) \/ (\E f \in Fragment : Send(s, f))
         PROVE  Peer!PeerNext
    BY <2>2, <2>3, <2>10 DEF Peer!PeerNext
  <2> QED
    BY <2>1, <2>6, <2>7, <2>8, <2>9, <2>10 DEF Next
<1> QED
  BY <1>1, <1>2, Inductive, PTL DEF Spec, ImplementsPeer, Peer!PeerSpec

=============================================================================
