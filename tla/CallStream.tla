----------------------------- MODULE CallStream -----------------------------
(***************************************************************************)
(* The backend's side of a live call: calls.Handler.stream, one handler    *)
(* per WebSocket, from the upgrade to the call_sessions row.  Reading,     *)
(* classifying, writing and saving are steps; any of them may fail.  The   *)
(* phone at the other end connects, sends and closes when it likes.        *)
(*                                                                         *)
(* A fragment is the number of its runes.  In a transcript a rune stands   *)
(* for the fragment it belongs to, by its place in the stream; the space   *)
(* written after a fragment counts as its last rune.                       *)
(***************************************************************************)
EXTENDS Naturals, Sequences, FiniteSets

CONSTANTS
  Stream,        \* WebSockets, each opened once
  User,          \* accounts
  NoUser,        \* nobody
  Fragment,      \* recognised pieces of speech
  MaxFragments,  \* bounds how many are sent on a stream
  MaxRunes,      \* maxRunes of window
  MaxLevel,      \* the probability 1.0
  Threshold      \* scamThreshold

ASSUME StreamAssumption ==
  /\ NoUser \notin User
  /\ Fragment \subseteq Nat \ {0}
  /\ MaxFragments \in Nat /\ MaxRunes \in Nat \ {0}
  /\ MaxLevel \in Nat /\ Threshold \in 1..MaxLevel

VARIABLES
  link,        \* the connection: up, closed by the phone, or lost
  sent,        \* the frames the phone has written to it
  answers,     \* the frames the server has written to it
  handler,     \* where the handler of a stream is
  owner,       \* userID: whose token opened it
  received,    \* how many frames it has read
  transcript,  \* transcript
  heard,       \* what the classifier is given
  maximum,     \* maxProbability
  flagged,     \* alertTriggered
  verdict,     \* the result being answered
  sessions     \* call_sessions table

phoneVars == <<link, sent, owner>>
localVars == <<received, transcript, heard, maximum, flagged, verdict>>
vars == <<link, sent, answers, handler, owner, received, transcript, heard, maximum,
          flagged, verdict, sessions>>

Level == 0..MaxLevel
Busy == {"asked", "read", "classify", "write", "save"}

TypeOK ==
  /\ link \in [Stream -> {"none", "up", "shut", "lost"}]
  /\ sent \in [Stream -> Seq(Fragment)]
  /\ answers \in [Stream -> Seq(Level)]
  /\ handler \in [Stream -> {"none", "done"} \cup Busy]
  /\ owner \in [Stream -> User \cup {NoUser}]
  /\ received \in [Stream -> Nat]
  /\ transcript \in [Stream -> Seq(Nat)]
  /\ heard \in [Stream -> Seq(Nat)]
  /\ maximum \in [Stream -> Level]
  /\ flagged \in [Stream -> BOOLEAN]
  /\ verdict \in [Stream -> Level]
  /\ sessions \subseteq [stream : Stream, user : User, transcript : Seq(Nat),
                         maximum : Level, alert : BOOLEAN]

Init ==
  /\ link = [s \in Stream |-> "none"]
  /\ sent = [s \in Stream |-> <<>>]
  /\ answers = [s \in Stream |-> <<>>]
  /\ handler = [s \in Stream |-> "none"]
  /\ owner = [s \in Stream |-> NoUser]
  /\ received = [s \in Stream |-> 0]
  /\ transcript = [s \in Stream |-> <<>>]
  /\ heard = [s \in Stream |-> <<>>]
  /\ maximum = [s \in Stream |-> 0]
  /\ flagged = [s \in Stream |-> FALSE]
  /\ verdict = [s \in Stream |-> 0]
  /\ sessions = {}

-----------------------------------------------------------------------------
(* The phone and the network. *)

Connect(s, u) ==
  /\ link[s] = "none"
  /\ link' = [link EXCEPT ![s] = "up"]
  /\ handler' = [handler EXCEPT ![s] = "asked"]
  /\ owner' = [owner EXCEPT ![s] = u]
  /\ UNCHANGED <<sent, answers, localVars, sessions>>

(* The app never sends an empty text, so the handler's test for one is left  *)
(* out.                                                                      *)
Send(s, f) ==
  /\ link[s] = "up" /\ Len(sent[s]) < MaxFragments
  /\ sent' = [sent EXCEPT ![s] = Append(@, f)]
  /\ UNCHANGED <<link, owner, answers, handler, localVars, sessions>>

(* What was written before the close is still on its way. *)
Shut(s) ==
  /\ link[s] = "up"
  /\ link' = [link EXCEPT ![s] = "shut"]
  /\ UNCHANGED <<sent, owner, answers, handler, localVars, sessions>>

Lose(s) ==
  /\ link[s] \in {"up", "shut"}
  /\ link' = [link EXCEPT ![s] = "lost"]
  /\ UNCHANGED <<sent, owner, answers, handler, localVars, sessions>>

-----------------------------------------------------------------------------
(* The handler. *)

Goto(s, step) == handler' = [handler EXCEPT ![s] = step]

(* Without a valid token the upgrade is refused, and there is no session. *)
Authenticate(s) ==
  /\ handler[s] = "asked"
  /\ Goto(s, "read") \/ Goto(s, "done")
  /\ UNCHANGED <<phoneVars, answers, localVars, sessions>>

(* Mutant: the first maxRunes runes. *)
WindowOfStart(text) ==
  SubSeq(text, 1, IF Len(text) <= MaxRunes THEN Len(text) ELSE MaxRunes)

(* The last maxRunes runes. *)
Window(text) ==
  IF Len(text) <= MaxRunes THEN text
  ELSE SubSeq(text, Len(text) - MaxRunes + 1, Len(text))

(* Mutant: the transcript is cut to the window. *)
WrittenInWindow(s, k) ==
  Window(transcript[s] \o [i \in 1..(sent[s][k] + 1) |-> k])

(* The transcript with the k-th fragment and its space. *)
Written(s, k) == transcript[s] \o [i \in 1..(sent[s][k] + 1) |-> k]

ReadFrame(s) ==
  /\ handler[s] = "read" /\ received[s] < Len(sent[s])
  /\ received' = [received EXCEPT ![s] = @ + 1]
  /\ transcript' = [transcript EXCEPT ![s] = Written(s, received'[s])]
  /\ heard' = [heard EXCEPT ![s] = Window(transcript'[s])]
  /\ Goto(s, "classify")
  /\ UNCHANGED <<phoneVars, answers, maximum, flagged, verdict, sessions>>

(* Mutant: the loop goes on after a failed read. *)
AfterLastFrameGoOn(s) == Goto(s, "read")

(* The loop ends. *)
AfterLastFrame(s) == Goto(s, "save")

(* ReadJSON fails when the phone has closed and every frame is read, or when *)
(* the connection is lost, with or without the frames on their way.          *)
ReadFails(s) ==
  /\ handler[s] = "read"
  /\ link[s] = "lost" \/ (link[s] = "shut" /\ received[s] = Len(sent[s]))
  /\ AfterLastFrame(s)
  /\ UNCHANGED <<phoneVars, answers, localVars, sessions>>

(* Mutant: the last result instead of the highest. *)
RaiseToLast(s, p) ==
  /\ maximum' = [maximum EXCEPT ![s] = p]
  /\ flagged' = [flagged EXCEPT ![s] = p >= Threshold]

Raise(s, p) ==
  /\ maximum' = [maximum EXCEPT ![s] = IF p > @ THEN p ELSE @]
  /\ flagged' = [flagged EXCEPT ![s] = @ \/ p >= Threshold]

(* A failed classification is skipped: the fragment gets no answer. *)
Classify(s) ==
  /\ handler[s] = "classify"
  /\ \/ \E p \in Level :
          /\ Raise(s, p)
          /\ verdict' = [verdict EXCEPT ![s] = p]
          /\ Goto(s, "write")
     \/ Goto(s, "read") /\ UNCHANGED <<maximum, flagged, verdict>>
  /\ heard' = [heard EXCEPT ![s] = <<>>]
  /\ UNCHANGED <<phoneVars, answers, received, transcript, sessions>>

(* Mutant: the verdict of a write that failed is written again. *)
AnswerAgain(s) ==
  /\ answers' = [answers EXCEPT ![s] = Append(@, verdict[s])]
  /\ Goto(s, "read") \/ Goto(s, "write")

Answer(s) ==
  /\ answers' = [answers EXCEPT ![s] = Append(@, verdict[s])]
  /\ Goto(s, "read")

(* A write on a connection that is down may fail, or vanish. *)
WriteAnswer(s) ==
  /\ handler[s] = "write"
  /\ \/ link[s] = "up" /\ Answer(s)
     \/ link[s] # "up" /\ (Goto(s, "read") \/ Goto(s, "save")) /\ UNCHANGED answers
  /\ UNCHANGED <<phoneVars, localVars, sessions>>

Session(s) ==
  [stream |-> s, user |-> owner[s], transcript |-> transcript[s],
   maximum |-> maximum[s], alert |-> flagged[s]]

(* The result of the insertion is ignored. *)
SaveSession(s) ==
  /\ handler[s] = "save"
  /\ sessions' \in {sessions, sessions \cup {Session(s)}}
  /\ Goto(s, "done")
  /\ UNCHANGED <<phoneVars, answers, localVars>>

(* The process ends: Shutdown does not wait for upgraded connections.        *)
StopServer ==
  /\ \E s \in Stream : handler[s] \in Busy
  /\ handler' = [s \in Stream |-> IF handler[s] \in Busy THEN "done" ELSE handler[s]]
  /\ link' = [s \in Stream |-> IF handler[s] \in Busy THEN "lost" ELSE link[s]]
  /\ UNCHANGED <<sent, owner, answers, localVars, sessions>>

Handle(s) ==
  \/ Authenticate(s) \/ ReadFrame(s) \/ ReadFails(s) \/ Classify(s)
  \/ WriteAnswer(s) \/ SaveSession(s)

Next ==
  \/ \E s \in Stream :
       \/ \E u \in User : Connect(s, u)
       \/ \E f \in Fragment : Send(s, f)
       \/ Shut(s) \/ Lose(s) \/ Handle(s)
  \/ StopServer

(* Every call a handler makes returns: the classifier's has a deadline, a    *)
(* database statement ends with its connection, and the kernel notices a     *)
(* dead peer.                                                                *)
Spec == Init /\ [][Next]_vars /\ \A s \in Stream : WF_vars(Handle(s))

-----------------------------------------------------------------------------
(* Properties *)

LeastOf(a, b) == IF a < b THEN a ELSE b

(* What is classified is the end of the transcript, as much of it as the     *)
(* window holds, so that a new fragment is always judged: whole if it fits,  *)
(* with its last runes otherwise, and with what was said before it.          *)
WindowHoldsLatest ==
  \A s \in Stream : handler[s] = "classify" =>
    LET cut == Len(transcript[s]) - Len(heard[s])
        latest == {i \in DOMAIN heard[s] : heard[s][i] = received[s]}
    IN  /\ Len(heard[s]) = LeastOf(MaxRunes, Len(transcript[s]))
        /\ \A i \in DOMAIN heard[s] : heard[s][i] = transcript[s][cut + i]
        /\ Cardinality(latest) = LeastOf(MaxRunes, sent[s][received[s]] + 1)

(* The row of a stream tells the whole of it: every fragment the handler     *)
(* read, once and in the order they were sent, whatever the window showed    *)
(* the classifier.                                                           *)
SessionsAreWhole ==
  \A c \in sessions :
    LET k == received[c.stream]
        T == c.transcript
    IN  /\ \A i, j \in DOMAIN T : i < j => T[i] <= T[j]
        /\ \A i \in DOMAIN T : T[i] \in 1..k
        /\ \A f \in 1..k : Cardinality({i \in DOMAIN T : T[i] = f}) = sent[c.stream][f] + 1

(* And it owns up to every answer: an alert the phone was sent is flagged,   *)
(* no answer was above the maximum, the flag is the maximum's, and the row   *)
(* is its caller's only one.                                                 *)
AnswersAreOnFile ==
  \A c \in sessions :
    /\ c.user = owner[c.stream]
    /\ c.alert = (c.maximum >= Threshold)
    /\ \A i \in DOMAIN answers[c.stream] : answers[c.stream][i] <= c.maximum
    /\ \A d \in sessions : d.stream = c.stream => d = c

(* When the phone has gone, the handler comes to an end, whatever was still  *)
(* on the way; only a failed insertion keeps it from leaving a row.          *)
StreamsEnd == \A s \in Stream : link[s] \in {"shut", "lost"} ~> handler[s] = "done"

(* The phone sees what CallPeer promises. *)
Peer == INSTANCE CallPeer WITH
  opener <- owner,
  said <- [s \in Stream |-> Len(sent[s])],
  told <- [s \in Stream |-> [i \in 1..Len(answers[s]) |-> answers[s][i] >= Threshold]]

ImplementsPeer == Peer!PeerSpec

=============================================================================
