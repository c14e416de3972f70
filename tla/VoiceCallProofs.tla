--------------------------- MODULE VoiceCallProofs ---------------------------
(***************************************************************************)
(* However many starts, stops and restarts overlap: an active session is   *)
(* connected, a dismissed alert stays quiet, and the alert on screen is    *)
(* the signed-in user's unless a socket has gone astray.                   *)
(*                                                                         *)
(* The first two are inductive.  For the third one needs to know that a    *)
(* socket that still delivers is then the controller's own, and was opened *)
(* by whoever is signed in.  The last part composes the phone with the     *)
(* backend's side of the call, by what CallPeer allows each.               *)
(***************************************************************************)
EXTENDS VoiceCall, TLAPS

(* A call of start connects with somebody's token, and until it has, there   *)
(* is nothing of its stream: no events, no answer handled, not at hand.      *)
StartShape ==
  /\ \A s \in Stream :
       /\ step[s] = "connect" => token[s] # NoUser
       /\ opener[s] = NoUser => events[s] = "none" /\ taken[s] = 0
       /\ taken[s] <= Len(told[s])
  /\ socket # NoStream => opener[socket] # NoUser

(* Without a stray socket, what still delivers is the session at hand. *)
OneSession ==
  ~stray => \A s \in Stream : events[s] = "on" => s = socket /\ opener[s] = account

Inv ==
  /\ TypeOK /\ StartShape /\ OneSession
  /\ ActiveIsConnected /\ DismissedStaysQuiet /\ AlertsAreOwn

-----------------------------------------------------------------------------
(* Every action keeps every variable in its type. *)
LEMMA TypeStep == TypeOK /\ [Next]_vars => TypeOK'
<1> SUFFICES ASSUME TypeOK, [Next]_vars PROVE TypeOK'
  OBVIOUS
<1> USE DEF TypeOK, PeerTypeOK, CallOf, peerVars, stateVars, socketVars
<1>1. ASSUME NEW s \in Stream, TapStart(s) PROVE TypeOK'
  BY <1>1 DEF TapStart, Go
<1>2. ASSUME NEW s \in Stream, ReadToken(s) PROVE TypeOK'
  BY <1>2 DEF ReadToken, Go
<1>3. ASSUME NEW s \in Stream, Open(s) PROVE TypeOK'
  BY <1>3 DEF Open, Connect, OpenSocket, Stray, Delivers, Fresh, Go
<1>4. ASSUME NEW s \in Stream, HandleAlert(s) PROVE TypeOK'
  <2>1. taken[s] \in Nat /\ taken[s] + 1 \in Nat
    OBVIOUS
  <2>2. taken' \in [Stream -> Nat]
    BY <1>4, <2>1 DEF HandleAlert
  <2>3. alerted' \in BOOLEAN
    BY <1>4 DEF HandleAlert, Alerts
  <2> QED
    BY <1>4, <2>2, <2>3 DEF HandleAlert
<1>5. ASSUME NEW s \in Stream, HandleClosed(s) PROVE TypeOK'
  BY <1>5 DEF HandleClosed, Deactivate
<1>6. ASSUME NEW s \in Stream, NEW alert \in BOOLEAN, Tell(s, alert), UNCHANGED voiceVars
      PROVE  TypeOK'
  <2>1. Append(told[s], alert) \in Seq(BOOLEAN)
    OBVIOUS
  <2>2. told' \in [Stream -> Seq(BOOLEAN)]
    BY <1>6, <2>1 DEF Tell
  <2> QED
    BY <1>6, <2>2 DEF Tell, voiceVars
<1>7. ASSUME NEW c \in Stream \cup Restart, Initialized(c) PROVE TypeOK'
  BY <1>7 DEF Initialized, Go
<1>8. ASSUME NEW c \in Stop, TapStop(c) \/ SpeechStopped(c) \/ SocketClosed(c) PROVE TypeOK'
  <2>1. CASE TapStop(c)
    BY <2>1 DEF TapStop, Silence, Go
  <2>2. CASE SpeechStopped(c)
    BY <2>2 DEF SpeechStopped, CloseSocket, Go
  <2>3. CASE SocketClosed(c)
    BY <2>3 DEF SocketClosed, Stray, Delivers, Deactivate, Go
  <2> QED
    BY <1>8, <2>1, <2>2, <2>3
<1>9. CASE Pauses
  BY <1>9 DEF Pauses, Silence
<1>10. CASE SpeechDone
  BY <1>10 DEF SpeechDone, Go
<1>11. CASE Say
  <2>1. socket \in Stream /\ said[socket] + 1 \in Nat
    BY <1>11 DEF Say, Delivers
  <2>2. said' \in [Stream -> Nat]
    BY <1>11, <2>1 DEF Say, Send
  <2> QED
    BY <1>11, <2>2 DEF Say, Send, voiceVars
<1>12. CASE DismissAlert
  BY <1>12 DEF DismissAlert
<1>13. CASE SignOut
  BY <1>13 DEF SignOut, ForgetCall, CloseSocket, Silence, Fresh
<1>14. ASSUME NEW u \in User, SignIn(u) PROVE TypeOK'
  BY <1>14 DEF SignIn
<1>15. CASE UNCHANGED vars
  BY <1>15 DEF vars
<1> QED
  BY <1>1, <1>2, <1>3, <1>4, <1>5, <1>6, <1>7, <1>8, <1>9, <1>10, <1>11, <1>12, <1>13,
     <1>14, <1>15
  DEF Next

(* The user never talks to nobody: only Open activates a session, with a     *)
(* socket, and whatever takes the socket away deactivates it or is a stop    *)
(* that will.  What deactivates one without a stop is the end of a socket    *)
(* that delivered, which is the one at hand.                                 *)
LEMMA ConnectedStep ==
  ASSUME TypeOK, OneSession, ActiveIsConnected, [Next]_vars
  PROVE  ActiveIsConnected'
<1> DEFINE Stopping == \E c \in Stop : step[c] \in {"stop", "close"}
<1>0. /\ ActiveIsConnected <=> (~Stopping =>
                                    /\ active => Delivers(socket)
                                    /\ Delivers(socket) /\ ~stray => active)
      /\ ActiveIsConnected' <=> (~Stopping' =>
                                    /\ active' => Delivers(socket)'
                                    /\ Delivers(socket)' /\ ~stray' => active')
  BY DEF ActiveIsConnected
<1> USE VoiceAssumption DEF TypeOK, CallOf, peerVars, stateVars, socketVars
<1>1. ASSUME UNCHANGED <<active, socket, events>>, stray => stray',
             \A c \in Stop : step[c] \in {"stop", "close"} => step'[c] \in {"stop", "close"}
      PROVE  ActiveIsConnected'
  BY <1>0, <1>1 DEF Delivers
<1>2. ASSUME NEW s \in Stream, TapStart(s) \/ ReadToken(s) PROVE ActiveIsConnected'
  BY <1>1, <1>2 DEF TapStart, ReadToken, Go
<1>3. ASSUME NEW s \in Stream, Open(s) PROVE ActiveIsConnected'
  <2>1. socket' = s /\ events'[s] = "on" /\ s # NoStream /\ active'
    BY <1>3 DEF Open, OpenSocket, Fresh
  <2> QED
    BY <1>0, <2>1 DEF Delivers
<1>4. ASSUME NEW s \in Stream, HandleAlert(s) PROVE ActiveIsConnected'
  BY <1>1, <1>4 DEF HandleAlert
<1>5. ASSUME NEW s \in Stream, HandleClosed(s) PROVE ActiveIsConnected'
  <2>1. events[s] = "on" /\ events'[s] = "off" /\ ~active' /\ UNCHANGED <<socket, stray>>
    BY <1>5 DEF HandleClosed, Deactivate
  <2>2. ~stray => s = socket
    BY <2>1 DEF OneSession
  <2> QED
    BY <1>0, <2>1, <2>2 DEF Delivers
<1>6. CASE UNCHANGED voiceVars
  BY <1>1, <1>6 DEF voiceVars
<1>7. ASSUME NEW c \in Stream \cup Restart, Initialized(c) PROVE ActiveIsConnected'
  BY <1>1, <1>7 DEF Initialized, Go
<1>8. ASSUME NEW c \in Stop, TapStop(c) \/ SpeechStopped(c) \/ SocketClosed(c)
      PROVE  ActiveIsConnected'
  <2>1. CASE TapStop(c)
    BY <1>1, <2>1 DEF TapStop, Go
  <2>2. CASE SpeechStopped(c)
    <3>1. step'[c] = "close"
      BY <2>2 DEF SpeechStopped, Go
    <3> QED
      BY <1>0, <3>1
  <2>3. CASE SocketClosed(c)
    BY <1>0, <2>3 DEF SocketClosed, Deactivate, Delivers
  <2> QED
    BY <1>8, <2>1, <2>2, <2>3
<1>9. CASE Pauses
  BY <1>1, <1>9 DEF Pauses
<1>10. CASE SpeechDone
  <2>1. CASE \E c \in Restart : step[c] = "none" /\ Go(c, "ready")
    BY <1>1, <1>10, <2>1 DEF SpeechDone, Go
  <2>2. CASE UNCHANGED step
    BY <1>1, <1>10, <2>2 DEF SpeechDone
  <2> QED
    BY <1>10, <2>1, <2>2 DEF SpeechDone
<1>11. CASE Say
  BY <1>6, <1>11 DEF Say
<1>12. CASE DismissAlert
  BY <1>1, <1>12 DEF DismissAlert
<1>13. CASE SignOut
  BY <1>0, <1>13 DEF SignOut, ForgetCall, CloseSocket, Fresh, Delivers
<1>14. ASSUME NEW u \in User, SignIn(u) PROVE ActiveIsConnected'
  BY <1>1, <1>14 DEF SignIn
<1>15. CASE UNCHANGED vars
  BY <1>1, <1>15 DEF vars
<1> QED
  BY <1>2, <1>3, <1>4, <1>5, <1>6, <1>7, <1>8, <1>9, <1>10, <1>11, <1>12, <1>13,
     <1>14, <1>15
  DEF Next

(* Only an answer raises an alert, and it asks _muted; a dismissal and a new *)
(* session take the alert down.                                              *)
LEMMA QuietStep ==
  ASSUME TypeOK, DismissedStaysQuiet, [Next]_vars
  PROVE  DismissedStaysQuiet'
<1> USE DEF DismissedStaysQuiet, TypeOK, stateVars
<1>1. ASSUME UNCHANGED <<alerted, muted>> PROVE DismissedStaysQuiet'
  BY <1>1
<1>2. ASSUME NEW s \in Stream, Open(s) PROVE DismissedStaysQuiet'
  BY <1>2 DEF Open, Fresh
<1>3. ASSUME NEW s \in Stream, HandleAlert(s) PROVE DismissedStaysQuiet'
  BY <1>3 DEF HandleAlert, Alerts
<1>4. CASE DismissAlert
  BY <1>4 DEF DismissAlert
<1>5. CASE SignOut
  BY <1>5 DEF SignOut, ForgetCall, Fresh
<1>6. ASSUME NEW s \in Stream, TapStart(s) \/ ReadToken(s) \/ HandleClosed(s)
      PROVE  UNCHANGED <<alerted, muted>>
  BY <1>6 DEF TapStart, ReadToken, HandleClosed
<1>7. ASSUME NEW c \in CallOf,
             Initialized(c) \/ TapStop(c) \/ SpeechStopped(c) \/ SocketClosed(c)
      PROVE  UNCHANGED <<alerted, muted>>
  BY <1>7 DEF Initialized, TapStop, SpeechStopped, SocketClosed
<1>8. ASSUME Pauses \/ SpeechDone \/ Say \/ (\E u \in User : SignIn(u)) \/ UNCHANGED voiceVars
             \/ UNCHANGED vars
      PROVE  UNCHANGED <<alerted, muted>>
  BY <1>8 DEF Pauses, SpeechDone, Say, SignIn, voiceVars, vars
<1> QED
  BY <1>1, <1>2, <1>3, <1>4, <1>5, <1>6, <1>7, <1>8 DEF Next, CallOf

(* A stream that nobody has opened is left alone by everything.              *)
LEMMA ShapeStep ==
  ASSUME TypeOK, StartShape, [Next]_vars
  PROVE  StartShape'
<1> USE VoiceAssumption DEF TypeOK, PeerTypeOK, CallOf, peerVars, stateVars, socketVars
<1>1. ASSUME UNCHANGED <<peerVars, taken, events, token>>, socket' \in {socket, NoStream},
             \A s \in Stream : step'[s] = "connect" => step[s] = "connect"
      PROVE  StartShape'
  BY <1>1 DEF StartShape
<1>2. ASSUME NEW s \in Stream, TapStart(s) PROVE StartShape'
  BY <1>1, <1>2 DEF TapStart, Go
<1>3. ASSUME NEW s \in Stream, ReadToken(s) PROVE StartShape'
  BY <1>3 DEF ReadToken, Go, StartShape
<1>4. ASSUME NEW s \in Stream, Open(s) PROVE StartShape'
  <2>1. token[s] # NoUser /\ UNCHANGED <<taken, token, told>>
    BY <1>4 DEF Open, StartShape, Connect
  <2>2. opener' = [opener EXCEPT ![s] = token[s]] /\ socket' = s
        /\ events' = [events EXCEPT ![s] = "on"] /\ step' = [step EXCEPT ![s] = "ready"]
    BY <1>4 DEF Open, Connect, OpenSocket, Go
  <2> QED
    BY <2>1, <2>2 DEF StartShape
<1>5. ASSUME NEW s \in Stream, HandleAlert(s) PROVE StartShape'
  <2>1. taken[s] + 1 <= Len(told[s]) /\ opener[s] # NoUser
    BY <1>5 DEF HandleAlert, StartShape
  <2> QED
    BY <1>5, <2>1 DEF HandleAlert, StartShape
<1>6. ASSUME NEW s \in Stream, HandleClosed(s) PROVE StartShape'
  BY <1>6 DEF HandleClosed, StartShape
<1>7. ASSUME NEW s \in Stream, NEW alert \in BOOLEAN, Tell(s, alert), UNCHANGED voiceVars
      PROVE  StartShape'
  <2>1. \A t \in Stream : Len(told[t]) <= Len(told'[t])
    BY <1>7 DEF Tell
  <2> QED
    BY <1>7, <2>1 DEF Tell, voiceVars, StartShape
<1>8. ASSUME NEW c \in Stream \cup Restart, Initialized(c) PROVE StartShape'
  BY <1>1, <1>8 DEF Initialized, Go
<1>9. ASSUME NEW c \in Stop, TapStop(c) \/ SpeechStopped(c) \/ SocketClosed(c)
      PROVE  StartShape'
  <2>1. CASE TapStop(c)
    BY <1>1, <2>1 DEF TapStop, Go
  <2>2. CASE SpeechStopped(c)
    BY <2>2 DEF SpeechStopped, CloseSocket, Go, StartShape
  <2>3. CASE SocketClosed(c)
    BY <1>1, <2>3 DEF SocketClosed, Go
  <2> QED
    BY <1>9, <2>1, <2>2, <2>3
<1>10. CASE Pauses
  BY <1>1, <1>10 DEF Pauses
<1>11. CASE SpeechDone
  <2>1. CASE \E c \in Restart : step[c] = "none" /\ Go(c, "ready")
    BY <1>1, <1>11, <2>1 DEF SpeechDone, Go
  <2>2. CASE UNCHANGED step
    BY <1>1, <1>11, <2>2 DEF SpeechDone
  <2> QED
    BY <1>11, <2>1, <2>2 DEF SpeechDone
<1>12. CASE Say
  BY <1>12 DEF Say, Send, voiceVars, StartShape
<1>13. CASE DismissAlert
  BY <1>1, <1>13 DEF DismissAlert
<1>14. CASE SignOut
  BY <1>14 DEF SignOut, ForgetCall, CloseSocket, StartShape
<1>15. ASSUME NEW u \in User, SignIn(u) PROVE StartShape'
  BY <1>1, <1>15 DEF SignIn
<1>16. CASE UNCHANGED vars
  BY <1>1, <1>16 DEF vars
<1> QED
  BY <1>2, <1>3, <1>4, <1>5, <1>6, <1>7, <1>8, <1>9, <1>10, <1>11, <1>12, <1>13,
     <1>14, <1>15, <1>16
  DEF Next

(* The socket at hand is replaced or dropped only after it was turned off,   *)
(* or the step says that it has gone astray; and nobody signs in while one   *)
(* delivers.                                                                 *)
LEMMA SessionStep ==
  ASSUME TypeOK, StartShape, OneSession, [Next]_vars
  PROVE  OneSession'
<1> USE VoiceAssumption DEF TypeOK, PeerTypeOK, CallOf, peerVars, stateVars, socketVars
<1>1. ASSUME UNCHANGED <<opener, account, socket>>, stray => stray',
             \A s \in Stream : events'[s] = "on" => events[s] = "on"
      PROVE  OneSession'
  BY <1>1 DEF OneSession
<1>2. ASSUME NEW s \in Stream, TapStart(s) \/ ReadToken(s) \/ HandleAlert(s) PROVE OneSession'
  BY <1>1, <1>2 DEF TapStart, ReadToken, HandleAlert
<1>3. ASSUME NEW s \in Stream, Open(s) PROVE OneSession'
  <2> SUFFICES ASSUME ~stray', NEW t \in Stream, events'[t] = "on"
               PROVE  t = socket' /\ opener'[t] = account'
    BY DEF OneSession
  <2>1. /\ ~stray /\ ~Delivers(socket) /\ token[s] = account
        /\ socket' = s /\ account' = account
        /\ events' = [events EXCEPT ![s] = "on"]
        /\ opener' = [opener EXCEPT ![s] = token[s]]
    BY <1>3 DEF Open, Connect, OpenSocket, Stray
  <2>2. CASE t # s
    BY <2>1, <2>2 DEF OneSession, Delivers
  <2> QED
    BY <2>1, <2>2
<1>4. ASSUME NEW s \in Stream, HandleClosed(s) PROVE OneSession'
  BY <1>1, <1>4 DEF HandleClosed
<1>5. ASSUME NEW s \in Stream, NEW alert \in BOOLEAN, Tell(s, alert), UNCHANGED voiceVars
      PROVE  OneSession'
  BY <1>1, <1>5 DEF Tell, voiceVars
<1>6. ASSUME NEW c \in Stream \cup Restart, Initialized(c) PROVE OneSession'
  BY <1>1, <1>6 DEF Initialized
<1>7. ASSUME NEW c \in Stop, TapStop(c) \/ SpeechStopped(c) \/ SocketClosed(c)
      PROVE  OneSession'
  <2>1. CASE TapStop(c)
    BY <1>1, <2>1 DEF TapStop
  <2>2. CASE SpeechStopped(c)
    BY <1>1, <2>2 DEF SpeechStopped, CloseSocket
  <2>3. CASE SocketClosed(c)
    BY <2>3 DEF SocketClosed, Stray, Delivers, OneSession
  <2> QED
    BY <1>7, <2>1, <2>2, <2>3
<1>8. CASE Pauses \/ SpeechDone \/ DismissAlert
  BY <1>1, <1>8 DEF Pauses, SpeechDone, DismissAlert
<1>9. CASE Say
  BY <1>1, <1>9 DEF Say, Send, voiceVars
<1>10. CASE SignOut
  BY <1>10 DEF SignOut, ForgetCall, CloseSocket, OneSession
<1>11. ASSUME NEW u \in User, SignIn(u) PROVE OneSession'
  BY <1>11 DEF SignIn, OneSession, StartShape
<1>12. CASE UNCHANGED vars
  BY <1>1, <1>12 DEF vars
<1> QED
  BY <1>2, <1>3, <1>4, <1>5, <1>6, <1>7, <1>8, <1>9, <1>10, <1>11, <1>12
  DEF Next

(* An alert is raised by an answer of the session at hand, which is the      *)
(* signed-in user's, and taken down when the user leaves.                    *)
LEMMA OwnStep ==
  ASSUME TypeOK, StartShape, OneSession, AlertsAreOwn, [Next]_vars
  PROVE  AlertsAreOwn'
<1> USE VoiceAssumption DEF TypeOK, PeerTypeOK, CallOf, peerVars, stateVars, socketVars
<1>1. ASSUME UNCHANGED <<opener, account, told, taken>>, stray => stray', alerted' => alerted
      PROVE  AlertsAreOwn'
  BY <1>1 DEF AlertsAreOwn
<1>2. ASSUME NEW s \in Stream, TapStart(s) \/ ReadToken(s) PROVE AlertsAreOwn'
  BY <1>1, <1>2 DEF TapStart, ReadToken
<1>3. ASSUME NEW s \in Stream, Open(s) PROVE AlertsAreOwn'
  BY <1>3 DEF Open, Fresh, AlertsAreOwn
<1>4. ASSUME NEW s \in Stream, HandleAlert(s) PROVE AlertsAreOwn'
  <2> SUFFICES ASSUME alerted', ~stray'
               PROVE  \E t \in Stream : opener[t] = account /\ \E i \in 1..taken'[t] : told[t][i]
    BY <1>4 DEF HandleAlert, AlertsAreOwn
  <2>1. ~stray /\ events[s] = "on" /\ taken' = [taken EXCEPT ![s] = taken[s] + 1]
    BY <1>4 DEF HandleAlert
  <2>2. CASE alerted
    <3>1. PICK t \in Stream : opener[t] = account /\ \E i \in 1..taken[t] : told[t][i]
      BY <2>1, <2>2 DEF AlertsAreOwn
    <3>2. taken[t] \in Nat /\ taken'[t] \in Nat /\ taken[t] <= taken'[t]
      BY <2>1
    <3>3. 1..taken[t] \subseteq 1..taken'[t]
      BY <3>2
    <3> QED
      BY <3>1, <3>3
  <2>3. CASE ~alerted
    <3>1. opener[s] = account
      BY <2>1 DEF OneSession
    <3>2. told[s][taken'[s]] /\ taken'[s] \in 1..taken'[s]
      BY <1>4, <2>1, <2>3 DEF HandleAlert, Alerts
    <3> QED
      BY <3>1, <3>2
  <2> QED
    BY <2>2, <2>3
<1>5. ASSUME NEW s \in Stream, HandleClosed(s) PROVE AlertsAreOwn'
  BY <1>1, <1>5 DEF HandleClosed
<1>6. ASSUME NEW s \in Stream, NEW alert \in BOOLEAN, Tell(s, alert), UNCHANGED voiceVars
      PROVE  AlertsAreOwn'
  <2>1. ASSUME NEW t \in Stream, NEW i \in 1..taken[t] PROVE told'[t][i] = told[t][i]
    <3>1. i \in 1..Len(told[t])
      BY DEF StartShape
    <3> QED
      BY <1>6, <3>1 DEF Tell
  <2> QED
    BY <1>6, <2>1 DEF Tell, voiceVars, AlertsAreOwn
<1>7. ASSUME NEW c \in CallOf,
             Initialized(c) \/ TapStop(c) \/ SpeechStopped(c) \/ SocketClosed(c)
      PROVE  AlertsAreOwn'
  BY <1>1, <1>7 DEF Initialized, TapStop, SpeechStopped, SocketClosed, Stray
<1>8. CASE Pauses \/ SpeechDone \/ DismissAlert
  BY <1>1, <1>8 DEF Pauses, SpeechDone, DismissAlert
<1>9. CASE Say
  BY <1>1, <1>9 DEF Say, Send, voiceVars
<1>10. CASE SignOut
  BY <1>10 DEF SignOut, ForgetCall, Fresh, AlertsAreOwn
<1>11. ASSUME NEW u \in User, SignIn(u) PROVE AlertsAreOwn'
  <2>1. alerted => stray
    BY <1>11 DEF SignIn, AlertsAreOwn, StartShape
  <2> QED
    BY <1>11, <2>1 DEF SignIn, AlertsAreOwn
<1>12. CASE UNCHANGED vars
  BY <1>1, <1>12 DEF vars
<1> QED
  BY <1>2, <1>3, <1>4, <1>5, <1>6, <1>7, <1>8, <1>9, <1>10, <1>11, <1>12
  DEF Next

-----------------------------------------------------------------------------
(* Nothing is open, said or shown at the start.                              *)
LEMMA InitInv == Init => Inv
<1> SUFFICES ASSUME Init PROVE Inv
  OBVIOUS
<1> USE DEF Init, PeerInit
<1>1. TypeOK
  <2>1. PeerTypeOK
    <3>1. <<>> \in Seq(BOOLEAN)
      OBVIOUS
    <3>2. opener \in [Stream -> User \cup {NoUser}] /\ said \in [Stream -> Nat]
      OBVIOUS
    <3>3. told \in [Stream -> Seq(BOOLEAN)]
      BY <3>1
    <3> QED
      BY <3>2, <3>3 DEF PeerTypeOK
  <2> QED
    BY <2>1 DEF TypeOK
<1>2. StartShape
  <2>1. \A s \in Stream : step[s] = "none" /\ events[s] = "none" /\ taken[s] = 0
    BY DEF CallOf
  <2>2. \A s \in Stream : Len(told[s]) = 0
    OBVIOUS
  <2> QED
    BY <2>1, <2>2 DEF StartShape
<1>3. OneSession
  BY DEF OneSession
<1>4. ActiveIsConnected /\ DismissedStaysQuiet /\ AlertsAreOwn
  BY DEF ActiveIsConnected, Delivers, DismissedStaysQuiet, AlertsAreOwn
<1> QED
  BY <1>1, <1>2, <1>3, <1>4 DEF Inv

(* The invariant is inductive.                                               *)
THEOREM Inductive == Spec => []Inv
<1>1. Inv /\ [Next]_vars => Inv'
  BY TypeStep, ConnectedStep, QuietStep, ShapeStep, SessionStep, OwnStep DEF Inv
<1> QED
  BY InitInv, <1>1, PTL DEF Spec

(* Every variable of the controller and the streams keeps its type.          *)
THEOREM TypeCorrect == Spec => []TypeOK
<1>1. Inv => TypeOK
  BY DEF Inv
<1> QED
  BY Inductive, <1>1, PTL

(* However starts, stops, closed connections and sign-outs overlap, an       *)
(* active session has a socket the controller holds and hears from.          *)
THEOREM ActiveConnected == Spec => []ActiveIsConnected
<1>1. Inv => ActiveIsConnected
  BY DEF Inv
<1> QED
  BY Inductive, <1>1, PTL

(* However late an answer comes, a dismissed alert stays dismissed.          *)
THEOREM DismissedQuiet == Spec => []DismissedStaysQuiet
<1>1. Inv => DismissedStaysQuiet
  BY DEF Inv
<1> QED
  BY Inductive, <1>1, PTL

(* As long as every socket was closed before the controller let go of it,    *)
(* no alert reaches another account than the caller's.                       *)
THEOREM OwnAlerts == Spec => []AlertsAreOwn
<1>1. Inv => AlertsAreOwn
  BY DEF Inv
<1> QED
  BY Inductive, <1>1, PTL

(* Nothing that is said reaches the server in the name of another account    *)
(* than the one signed in, nor of any when nobody is, again unless a socket  *)
(* has gone astray: a recogniser that a late start turns on after a sign-out *)
(* is heard by nobody.                                                       *)
THEOREM SpokenAsSignedIn ==
  Spec => [][~stray => \A s \in Stream : said'[s] # said[s] =>
                         opener[s] = account /\ account # NoUser]_vars
<1>1. Inv /\ [Next]_vars =>
        [~stray => \A s \in Stream : said'[s] # said[s] =>
                     opener[s] = account /\ account # NoUser]_vars
  <2> SUFFICES ASSUME Inv, Next, ~stray, NEW s \in Stream, said'[s] # said[s]
               PROVE  opener[s] = account /\ account # NoUser
    OBVIOUS
  <2>1. CASE Say
    <3>1. Delivers(socket) /\ socket = s
      BY <2>1 DEF Say, Send, Inv, TypeOK, PeerTypeOK
    <3> QED
      BY <3>1 DEF Delivers, Inv, OneSession, StartShape
  <2>2. CASE UNCHANGED said
    BY <2>2
  <2> QED
    BY <2>1, <2>2
    DEF Next, TapStart, ReadToken, Open, Connect, HandleAlert, HandleClosed, Tell, Initialized,
        TapStop, SpeechStopped, SocketClosed, Pauses, SpeechDone, DismissAlert, SignOut, SignIn,
        peerVars
<1> QED
  BY <1>1, Inductive, PTL DEF Spec

-----------------------------------------------------------------------------
(* The composition with the backend's side of the call, which implements     *)
(* CallPeer (CallStreamProofs): what the app does to a stream is what a      *)
(* stream's phone may do.                                                    *)
LEMMA UsesPeerStep ==
  ASSUME TypeOK, StartShape, [Next]_vars
  PROVE  [PeerNext]_peerVars
<1> USE DEF TypeOK
<1>1. ASSUME NEW s \in Stream, Open(s) PROVE PeerNext
  <2>1. token[s] \in User
    BY <1>1 DEF Open, StartShape
  <2> QED
    BY <1>1, <2>1 DEF Open, PeerNext
<1>2. CASE Say
  <2>1. socket \in Stream
    BY <1>2 DEF Say, Delivers
  <2> QED
    BY <1>2, <2>1 DEF Say, PeerNext
<1>3. ASSUME NEW s \in Stream, NEW alert \in BOOLEAN, Tell(s, alert) PROVE PeerNext
  BY <1>3 DEF PeerNext
<1>4. ASSUME NEW s \in Stream, TapStart(s) \/ ReadToken(s) \/ HandleAlert(s) \/ HandleClosed(s)
      PROVE  UNCHANGED peerVars
  BY <1>4 DEF TapStart, ReadToken, HandleAlert, HandleClosed
<1>5. ASSUME \/ \E c \in Stream \cup Restart : Initialized(c)
             \/ \E c \in Stop : TapStop(c) \/ SpeechStopped(c) \/ SocketClosed(c)
             \/ Pauses \/ SpeechDone \/ DismissAlert \/ SignOut
             \/ \E u \in User : SignIn(u)
             \/ UNCHANGED vars
      PROVE  UNCHANGED peerVars
  BY <1>5 DEF Initialized, TapStop, SpeechStopped, SocketClosed, Pauses, SpeechDone, DismissAlert,
     SignOut, SignIn, vars, peerVars
<1> QED
  BY <1>1, <1>2, <1>3, <1>4, <1>5 DEF Next

(* The app connects a stream once, with an account's token, and speaks only  *)
(* on a stream that was opened, however its calls overlap: what is proved    *)
(* here holds of the app with the stream handler at the other end.           *)
UsesPeer == PeerSpec

THEOREM PeerUsed == Spec => UsesPeer
<1>1. Init => PeerInit
  BY DEF Init
<1>2. Inv => TypeOK /\ StartShape
  BY DEF Inv
<1> QED
  BY <1>1, <1>2, Inductive, UsesPeerStep, PTL DEF Spec, UsesPeer, PeerSpec

(* What the peer promises about a stream: silence before it is opened, and   *)
(* no more answers than fragments.                                           *)
Answers == \A s \in Stream : Len(told[s]) <= said[s] /\ (opener[s] = NoUser => said[s] = 0)

LEMMA PeerAnswers == ASSUME PeerTypeOK, Answers, [PeerNext]_peerVars PROVE Answers'
<1> USE VoiceAssumption DEF PeerTypeOK
<1>1. ASSUME NEW s \in Stream, NEW u \in User, Connect(s, u) PROVE Answers'
  BY <1>1 DEF Connect, Answers
<1>2. ASSUME NEW s \in Stream, Send(s) PROVE Answers'
  <2>1. /\ opener[s] # NoUser /\ opener' = opener /\ told' = told
        /\ said'[s] = said[s] + 1 /\ \A t \in Stream \ {s} : said'[t] = said[t]
    BY <1>2 DEF Send
  <2>2. Len(told[s]) \in Nat /\ said[s] \in Nat
    OBVIOUS
  <2>3. Len(told[s]) <= said[s] + 1
    BY <2>2 DEF Answers
  <2> QED
    BY <2>1, <2>3 DEF Answers
<1>3. ASSUME NEW s \in Stream, NEW alert \in BOOLEAN, Tell(s, alert) PROVE Answers'
  <2>1. /\ opener' = opener /\ said' = said /\ told'[s] = Append(told[s], alert)
        /\ \A t \in Stream \ {s} : told'[t] = told[t]
    BY <1>3 DEF Tell
  <2>2. Len(told'[s]) = Len(told[s]) + 1
    BY <2>1
  <2>3. Len(told[s]) \in Nat /\ said[s] \in Nat /\ Len(told[s]) < said[s]
    BY <1>3 DEF Tell
  <2>4. Len(told'[s]) <= said'[s]
    BY <2>1, <2>2, <2>3
  <2> QED
    BY <2>1, <2>4 DEF Answers
<1>4. CASE UNCHANGED peerVars
  BY <1>4 DEF peerVars, Answers
<1> QED
  BY <1>1, <1>2, <1>3, <1>4 DEF PeerNext

(* The app never handles more answers about a call than it sent fragments of *)
(* it, none of a stream it has not opened, and each only once it was told.   *)
AnswersFollowSpeech ==
  \A s \in Stream :
    /\ taken[s] <= Len(told[s]) /\ Len(told[s]) <= said[s]
    /\ opener[s] = NoUser => taken[s] = 0 /\ said[s] = 0

(* However starts, stops and closed connections overlap.                     *)
THEOREM AnswersFollow == Spec => []AnswersFollowSpeech
<1>1. Init => Answers
  <2> SUFFICES ASSUME Init, NEW s \in Stream
               PROVE  Len(told[s]) <= said[s] /\ (opener[s] = NoUser => said[s] = 0)
    BY DEF Answers
  <2>1. told[s] = <<>> /\ said[s] = 0
    BY DEF Init, PeerInit
  <2>2. Len(told[s]) = 0
    BY <2>1
  <2> QED
    BY <2>1, <2>2
<1>2. Inv => TypeOK /\ StartShape /\ PeerTypeOK
  BY DEF Inv, TypeOK
<1>3. Spec => []Answers
  BY <1>1, <1>2, Inductive, UsesPeerStep, PeerAnswers, PTL DEF Spec
<1>4. Answers /\ StartShape => AnswersFollowSpeech
  BY DEF Answers, StartShape, AnswersFollowSpeech
<1> QED
  BY <1>2, <1>3, <1>4, Inductive, PTL

=============================================================================
