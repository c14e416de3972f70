------------------------------ MODULE CallPeer ------------------------------
(***************************************************************************)
(* What the backend promises the phone about a live call: a stream is one  *)
(* caller's, and each answer is to a fragment of it, in the order they     *)
(* were sent, never more than one to each.  Fragments may stay unanswered. *)
(* Module CallStream implements this; module VoiceCall relies on it.       *)
(***************************************************************************)
EXTENDS Naturals, Sequences

CONSTANTS
  Stream,   \* WebSockets, each opened once
  User,     \* accounts
  NoUser    \* nobody

VARIABLES
  opener,   \* whose token a stream was opened with
  said,     \* how many fragments were sent on it
  told      \* the alert flags of its answers

peerVars == <<opener, said, told>>

PeerTypeOK ==
  /\ opener \in [Stream -> User \cup {NoUser}]
  /\ said \in [Stream -> Nat]
  /\ told \in [Stream -> Seq(BOOLEAN)]

PeerInit ==
  /\ opener = [s \in Stream |-> NoUser]
  /\ said = [s \in Stream |-> 0]
  /\ told = [s \in Stream |-> <<>>]

Connect(s, u) ==
  /\ opener[s] = NoUser
  /\ opener' = [opener EXCEPT ![s] = u]
  /\ UNCHANGED <<said, told>>

Send(s) ==
  /\ opener[s] # NoUser
  /\ said' = [said EXCEPT ![s] = @ + 1]
  /\ UNCHANGED <<opener, told>>

Tell(s, alert) ==
  /\ Len(told[s]) < said[s]
  /\ told' = [told EXCEPT ![s] = Append(@, alert)]
  /\ UNCHANGED <<opener, said>>

PeerNext ==
  \E s \in Stream :
    \/ \E u \in User : Connect(s, u)
    \/ Send(s)
    \/ \E alert \in BOOLEAN : Tell(s, alert)

PeerSpec == PeerInit /\ [][PeerNext]_peerVars

=============================================================================
