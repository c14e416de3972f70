----------------------------- MODULE MCScreens -----------------------------
(* A small instance of Screens.  The scans, the switch and the manual check  *)
(* meet in the account and the permission only, so that of each nothing new *)
(* is seen while another is at work: Apart leaves such behaviours out, and   *)
(* lets two scans overlap, or one and an incoming message.                   *)
EXTENDS Screens, TLC

Symmetry == Permutations(User) \cup Permutations(Scan) \cup Permutations(Restore)
              \cup Permutations(Check)

Begun == {c \in Scan : scanAt[c] # "none"} \cup {m \in Incoming : incomingAt[m] # "none"}

SwitchRests == \A w \in Watch \cup Restore : watchAt[w] \in {"none", "role", "end"}

InboxRests == Begun = {} /\ SwitchRests /\ status = "idle" /\ ~watching

ChecksRest ==
  /\ \A c \in Check : checkAt[c] = "none"
  /\ fetch = "due" /\ list = NoList /\ shown.kind = "none"

Apart ==
  /\ Begun = {} \/ SwitchRests
  /\ Cardinality(Begun) <= 2
  /\ InboxRests \/ ChecksRest

=============================================================================
