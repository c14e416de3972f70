--------------------------- MODULE SessionLedger ---------------------------
(***************************************************************************)
(* What the session store promises the rest of the system, whatever the    *)
(* interleaving of requests, failures and expiries: a refresh-token id is  *)
(* opened at most once, for one account, and a session that has ended      *)
(* never comes back.                                                       *)
(***************************************************************************)
CONSTANTS
  Jti,      \* refresh-token ids
  Phone,    \* accounts, named by their phone number
  NoOne     \* no account

VARIABLES
  life,     \* life[j]: where id j is in its life
  holder    \* holder[j]: the account id j was opened for

ledgerVars == <<life, holder>>

LedgerTypeOK ==
  /\ life \in [Jti -> {"unborn", "live", "dead"}]
  /\ holder \in [Jti -> Phone \cup {NoOne}]

LedgerInit ==
  /\ life = [j \in Jti |-> "unborn"]
  /\ holder = [j \in Jti |-> NoOne]

(* A fresh id is opened for an account. *)
Open(j, p) ==
  /\ life[j] = "unborn"
  /\ life' = [life EXCEPT ![j] = "live"]
  /\ holder' = [holder EXCEPT ![j] = p]

(* Sessions end: rotated away, evicted by their TTL, or lost with Redis. *)
Close(J) ==
  /\ J # {} /\ \A j \in J : life[j] = "live"
  /\ life' = [j \in Jti |-> IF j \in J THEN "dead" ELSE life[j]]
  /\ UNCHANGED holder

LedgerNext ==
  \/ \E j \in Jti, p \in Phone : Open(j, p)
  \/ \E J \in SUBSET Jti : Close(J)

LedgerSpec == LedgerInit /\ [][LedgerNext]_ledgerVars

=============================================================================
