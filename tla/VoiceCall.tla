------------------------------ MODULE VoiceCall ------------------------------
(***************************************************************************)
(* The live call as the phone sees it: VoiceController and CallSocket with *)
(* the speech recogniser and the app gate that signs the user out.  Of the *)
(* backend it relies on what CallPeer promises and CallStream implements.  *)
(*                                                                         *)
(* start, stop and _startListening are asynchronous and nothing keeps two  *)
(* of them apart; each await is a step of its call.  A call of start is    *)
(* named by the stream it opens.  The recogniser and its status events are *)
(* the plugin's: it hears only after listen, and reports "done" some time  *)
(* after it ended by itself or was stopped.  state.listening, a label that  *)
(* nothing reads, and the texts of the state are left out.                 *)
(***************************************************************************)
EXTENDS CallPeer, FiniteSets

CONSTANTS
  Stop,          \* calls of stop
  Restart,       \* calls of _startListening from _onSpeechStatus
  NoStream,      \* no socket
  MaxFragments   \* bounds how many fragments are sent on a stream

ASSUME VoiceAssumption ==
  /\ NoUser \notin User /\ MaxFragments \in Nat
  /\ NoStream \notin Stream
  /\ Stream \cap Stop = {} /\ Stream \cap Restart = {} /\ Stop \cap Restart = {}

VARIABLES
  taken,      \* how many answers of a stream the app has handled
  account,    \* who is signed in, and whose token is in the storage
  active,     \* state.active
  alerted,    \* state.alerted
  muted,      \* _muted
  socket,     \* _socket
  events,     \* the subscription of each socket
  step,       \* where each call is
  token,      \* the token a call of start has read
  mic,        \* the recogniser is on
  done,       \* it has a "done" to report
  stray       \* history: a socket has left the controller's hands

stateVars == <<active, alerted, muted>>
socketVars == <<socket, events>>
voiceVars == <<taken, account, active, alerted, muted, socket, events, step,
               token, mic, done, stray>>
vars == <<opener, said, told, taken, account, active, alerted, muted, socket,
          events, step, token, mic, done, stray>>

CallOf == Stream \cup Stop \cup Restart

TypeOK ==
  /\ PeerTypeOK
  /\ taken \in [Stream -> Nat]
  /\ account \in User \cup {NoUser}
  /\ active \in BOOLEAN /\ alerted \in BOOLEAN /\ muted \in BOOLEAN
  /\ socket \in Stream \cup {NoStream}
  /\ events \in [Stream -> {"none", "on", "off"}]
  /\ step \in [CallOf -> {"none", "token", "connect", "ready", "stop", "close", "end"}]
  /\ token \in [Stream -> User \cup {NoUser}]
  /\ mic \in BOOLEAN /\ done \in BOOLEAN /\ stray \in BOOLEAN

Init ==
  /\ PeerInit
  /\ taken = [s \in Stream |-> 0]
  /\ account \in User
  /\ active = FALSE /\ alerted = FALSE /\ muted = FALSE
  /\ socket = NoStream /\ events = [s \in Stream |-> "none"]
  /\ step = [c \in CallOf |-> "none"]
  /\ token = [s \in Stream |-> NoUser]
  /\ mic = FALSE /\ done = FALSE /\ stray = FALSE

Go(c, at) == step' = [step EXCEPT ![c] = at]

(* The recogniser is told to stop, and will say when it has. *)
Silence == mic' = FALSE /\ done' = (done \/ mic)

Fresh(isActive) == active' = isActive /\ alerted' = FALSE

(* The socket at hand is let go while it still delivers. *)
Stray(b) == stray' = (stray \/ b)
Delivers(s) == s # NoStream /\ events[s] = "on"

-----------------------------------------------------------------------------
(* start *)

TapStart(s) ==
  /\ step[s] = "none" /\ account # NoUser /\ ~active
  /\ Go(s, "token")
  /\ UNCHANGED <<peerVars, taken, account, stateVars, socketVars, token, mic, done, stray>>

(* The storage answers; the call goes on when it gets its turn. *)
ReadToken(s) ==
  /\ step[s] = "token"
  /\ token' = [token EXCEPT ![s] = account]
  /\ Go(s, IF account = NoUser THEN "end" ELSE "connect")
  /\ UNCHANGED <<peerVars, taken, account, stateVars, socketVars, mic, done, stray>>

(* connect returns at once; what is sent before the upgrade waits for it. *)
OpenSocket(s) ==
  /\ socket' = s
  /\ events' = [events EXCEPT ![s] = "on"]

Open(s) ==
  /\ step[s] = "connect"
  /\ Connect(s, token[s])
  /\ OpenSocket(s)
  /\ Stray(Delivers(socket) \/ token[s] # account)
  /\ muted' = FALSE
  /\ Fresh(TRUE)
  /\ Go(s, "ready")
  /\ UNCHANGED <<taken, account, token, mic, done>>

-----------------------------------------------------------------------------
(* _startListening, awaited by start or called on "done" *)

(* The recogniser is ready, perhaps after asking for the permission, and     *)
(* listens; or it is not available.                                          *)
Initialized(c) ==
  /\ step[c] = "ready"
  /\ mic' \in {mic, TRUE}
  /\ Go(c, "end")
  /\ UNCHANGED <<peerVars, taken, account, stateVars, socketVars, token, done, stray>>

(* The recogniser falls silent after a pause. *)
Pauses ==
  /\ mic
  /\ Silence
  /\ UNCHANGED <<peerVars, taken, account, stateVars, socketVars, step, token, stray>>

(* _onSpeechStatus: an active session listens again. *)
SpeechDone ==
  /\ done
  /\ done' = FALSE
  /\ \/ active /\ \E c \in Restart : step[c] = "none" /\ Go(c, "ready")
     \/ ~active /\ UNCHANGED step
  /\ UNCHANGED <<peerVars, taken, account, stateVars, socketVars, token, mic, stray>>

(* A final result, or a line the user typed into an active session.  On a    *)
(* connection that is down, a frame is dropped without an error.             *)
Say ==
  /\ mic \/ active
  /\ Delivers(socket) /\ said[socket] < MaxFragments
  /\ Send(socket)
  /\ UNCHANGED voiceVars

-----------------------------------------------------------------------------
(* stop *)

(* The button of an active session, or of the alert, which stays on screen   *)
(* when the connection has closed.                                           *)
TapStop(c) ==
  /\ step[c] = "none" /\ account # NoUser /\ (active \/ alerted)
  /\ Silence
  /\ Go(c, "stop")
  /\ UNCHANGED <<peerVars, taken, account, stateVars, socketVars, token, stray>>

(* CallSocket.close of the present socket, if there is one. *)
CloseSocket ==
  events' = [s \in Stream |-> IF s = socket THEN "off" ELSE events[s]]

SpeechStopped(c) ==
  /\ step[c] = "stop"
  /\ CloseSocket
  /\ Go(c, "close")
  /\ UNCHANGED <<peerVars, taken, account, stateVars, socket, token, mic, done, stray>>

Deactivate == active' = FALSE

SocketClosed(c) ==
  /\ step[c] = "close"
  /\ Stray(Delivers(socket))
  /\ socket' = NoStream
  /\ Deactivate
  /\ Go(c, "end")
  /\ UNCHANGED <<peerVars, taken, account, alerted, muted, events, token, mic, done>>

-----------------------------------------------------------------------------
(* Events of the sockets, and the user's answer to an alert *)

(* Mutant: only the haptics are muted. *)
AlertsLoudly(alert) == alerted' = (alerted \/ alert)

Alerts(alert) == alerted' = (alerted \/ (alert /\ ~muted))

HandleAlert(s) ==
  /\ events[s] = "on" /\ taken[s] < Len(told[s])
  /\ taken' = [taken EXCEPT ![s] = @ + 1]
  /\ Alerts(told[s][taken'[s]])
  /\ UNCHANGED <<peerVars, account, active, muted, socketVars, step, token, mic,
                 done, stray>>

(* Mutant: close() leaves the subscription of the old connection.            *)
HandleClosedLate(s) ==
  /\ events[s] # "none"
  /\ events' = [events EXCEPT ![s] = "off"]
  /\ Deactivate
  /\ UNCHANGED <<peerVars, taken, account, alerted, muted, socket, step, token, mic, done, stray>>

(* The server refuses or closes the stream, or the network is lost, at any   *)
(* time and with answers on the way.  The recogniser is not stopped.         *)
HandleClosed(s) ==
  /\ events[s] = "on"
  /\ events' = [events EXCEPT ![s] = "off"]
  /\ Deactivate
  /\ UNCHANGED <<peerVars, taken, account, alerted, muted, socket, step, token, mic, done, stray>>

DismissAlert ==
  /\ alerted /\ account # NoUser
  /\ muted' = TRUE /\ alerted' = FALSE
  /\ UNCHANGED <<peerVars, taken, account, active, socketVars, step, token, mic, done, stray>>

-----------------------------------------------------------------------------
(* The gate: invalidating the controller runs onDispose and build, on the    *)
(* same controller; the calls under way go on.  A login leaves it alone.     *)

(* Mutant: the socket and the microphone are let go, the state is not. *)
ForgetCallOutside == CloseSocket /\ Silence /\ UNCHANGED stateVars

ForgetCall ==
  /\ CloseSocket
  /\ Silence
  /\ Fresh(FALSE)
  /\ UNCHANGED muted

SignOut ==
  /\ account # NoUser
  /\ account' = NoUser
  /\ ForgetCall
  /\ UNCHANGED <<peerVars, taken, socket, step, token, stray>>

SignIn(u) ==
  /\ account = NoUser
  /\ account' = u
  /\ UNCHANGED <<peerVars, taken, stateVars, socketVars, step, token, mic, done, stray>>

Next ==
  \/ \E s \in Stream :
       \/ TapStart(s) \/ ReadToken(s) \/ Open(s) \/ HandleAlert(s) \/ HandleClosed(s)
       \/ \E alert \in BOOLEAN : Tell(s, alert) /\ UNCHANGED voiceVars
  \/ \E c \in Stream \cup Restart : Initialized(c)
  \/ \E c \in Stop : TapStop(c) \/ SpeechStopped(c) \/ SocketClosed(c)
  \/ Pauses \/ SpeechDone \/ Say \/ DismissAlert \/ SignOut
  \/ \E u \in User : SignIn(u)

Spec == Init /\ [][Next]_vars

-----------------------------------------------------------------------------
(* Properties *)

(* Unless it is just being stopped, a session shown as active has a socket   *)
(* the controller holds and hears from, and one that is heard from is shown  *)
(* as active, as long as no other has gone astray: the user never talks to   *)
(* nobody, and no old connection's end hides the present one, however        *)
(* starts, stops, closed connections and sign-outs overlap.                  *)
ActiveIsConnected ==
  (\A c \in Stop : step[c] \notin {"stop", "close"}) =>
    /\ active => Delivers(socket)
    /\ Delivers(socket) /\ ~stray => active

(* After "not a scammer" there are no more alerts until the next session     *)
(* (the comment on _muted).                                                  *)
DismissedStaysQuiet == muted => ~alerted

(* The alert on screen was raised by an answer about a call of the user who  *)
(* is signed in, unless a socket has gone astray: every login starts clean.  *)
AlertsAreOwn ==
  alerted /\ ~stray =>
    \E s \in Stream : opener[s] = account /\ \E i \in 1..taken[s] : told[s][i]

(* The gate's comment says a sign-out stops listening to a call.  A start    *)
(* still waiting for the recogniser turns it on afterwards.                  *)
SignedOutIsDeaf == account = NoUser => ~mic

=============================================================================
