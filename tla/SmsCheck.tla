----------------------------- MODULE SmsCheck -----------------------------
(***************************************************************************)
(* The manual check of a message (SmsController) and the history list that *)
(* each answered check makes stale (historyProvider; the summary is        *)
(* invalidated together with it and behaves alike).                        *)
(*                                                                         *)
(* A check is a call of SmsController.check and also the row the backend   *)
(* stores for it.  What a provider shows while it reloads, its last value, *)
(* is Riverpod's.                                                          *)
(***************************************************************************)
EXTENDS Gate, Naturals

CONSTANTS
  Check,       \* calls of check
  MaxCurrent   \* bounds how often _current moves

ASSUME CheckAssumption == MaxCurrent \in Nat

VARIABLES
  current,   \* _current
  shown,     \* the state: its kind, and the number of the check it tells of
  checkAt,   \* where each call is
  request,   \* its local variable
  checkedAs, \* the account its request went out as
  rows,      \* checks the backend has stored
  fetch,     \* the reload of the history: "idle", "due", or "sent"
  reply,     \* the list on its way to the phone
  list       \* the list on the screen

smsVars == <<current, shown, checkAt, request, checkedAs, rows, fetch, reply, list>>
callVars == <<checkAt, request, checkedAs, rows>>
historyVars == <<fetch, reply, list>>

List == [ok : BOOLEAN, of : Account, rows : SUBSET Check]

SmsTypeOK ==
  /\ current \in 0..MaxCurrent
  /\ shown \in [kind : {"none", "loading", "data", "error"}, by : 0..MaxCurrent]
  /\ checkAt \in [Check -> {"none", "post", "wait", "answered", "failed"}]
  /\ request \in [Check -> 0..MaxCurrent]
  /\ checkedAs \in [Check -> Account]
  /\ rows \subseteq Check
  /\ fetch \in {"idle", "due", "sent"}
  /\ reply \in List /\ list \in List

NoList == [ok |-> FALSE, of |-> NoUser, rows |-> {}]

SmsInit ==
  /\ current = 0 /\ shown = [kind |-> "none", by |-> 0]
  /\ checkAt = [c \in Check |-> "none"] /\ request = [c \in Check |-> 0]
  /\ checkedAs = [c \in Check |-> NoUser] /\ rows = {}
  /\ fetch = "due" /\ reply = NoList /\ list = NoList

(* A new number, and what is shown under it. *)
Move(kind) ==
  /\ current < MaxCurrent
  /\ current' = current + 1 /\ shown' = [kind |-> kind, by |-> current']

(* ref.invalidate: a reload under way is dropped, and one is due as soon as  *)
(* somebody watches.                                                         *)
Invalidate == fetch' = "due" /\ reply' = NoList

-----------------------------------------------------------------------------
(* check *)

StartCheck(c) ==
  /\ checkAt[c] = "none" /\ SignedIn /\ shown.kind # "loading"
  /\ Move("loading")
  /\ request' = [request EXCEPT ![c] = current']
  /\ checkAt' = [checkAt EXCEPT ![c] = "post"]
  /\ UNCHANGED <<account, checkedAs, rows, historyVars>>

PostCheck(c) ==
  /\ checkAt[c] = "post"
  /\ checkedAs' = [checkedAs EXCEPT ![c] = account]
  /\ checkAt' = [checkAt EXCEPT ![c] = "wait"]
  /\ UNCHANGED <<account, current, shown, request, rows, historyVars>>

(* The backend stores the check, which the phone may never hear of. *)
StoreCheck(c) ==
  /\ checkAt[c] \in {"wait", "failed"} /\ checkedAs[c] # NoUser /\ c \notin rows
  /\ rows' = rows \cup {c}
  /\ UNCHANGED <<account, current, shown, checkAt, request, checkedAs, historyVars>>

(* Mutant: the answer of any check is shown. *)
ShowAny(c, kind) == shown' = [kind |-> kind, by |-> request[c]]

(* Only the answer to the current check is shown. *)
Show(c, kind) ==
  shown' = IF request[c] = current THEN [kind |-> kind, by |-> current] ELSE shown

(* Mutant: the history reloads only for an answer that is shown. *)
ReloadIfShown(c) == IF request[c] = current THEN Invalidate ELSE UNCHANGED <<fetch, reply>>

(* The history reloads even when the answer is not shown. *)
Reload(c) == Invalidate

CheckAnswered(c) ==
  /\ checkAt[c] = "wait" /\ c \in rows
  /\ Reload(c) /\ Show(c, "data")
  /\ checkAt' = [checkAt EXCEPT ![c] = "answered"]
  /\ UNCHANGED <<account, current, request, checkedAs, rows, list>>

(* Any error, an answer that is lost or late included; the history stays. *)
CheckFails(c) ==
  /\ checkAt[c] = "wait"
  /\ Show(c, "error")
  /\ checkAt' = [checkAt EXCEPT ![c] = "failed"]
  /\ UNCHANGED <<account, current, request, checkedAs, rows, historyVars>>

(* Clear.  With nothing shown, no check is under way that the number it moves *)
(* would tell apart.                                                         *)
Reset ==
  /\ SignedIn /\ shown.kind # "none" /\ Move("none")
  /\ UNCHANGED <<account, callVars, historyVars>>

-----------------------------------------------------------------------------
(* historyProvider *)

(* The tab is opened, or the list is pulled down. *)
OpenHistory ==
  /\ SignedIn /\ Invalidate
  /\ UNCHANGED <<account, current, shown, callVars, list>>

(* The request goes out and the backend answers for its account; without a   *)
(* screen that watches nothing is loaded.                                    *)
FetchHistory ==
  /\ fetch = "due" /\ SignedIn
  /\ fetch' = "sent"
  /\ \E ok \in BOOLEAN :
       reply' = [ok |-> ok, of |-> account, rows |-> {c \in rows : checkedAs[c] = account}]
  /\ UNCHANGED <<account, current, shown, callVars, list>>

HistoryArrives ==
  /\ fetch = "sent"
  /\ fetch' = "idle" /\ list' = reply /\ reply' = NoList
  /\ UNCHANGED <<account, current, shown, callVars>>

-----------------------------------------------------------------------------
(* What the gate does at a login: it invalidates the controller, whose build *)
(* takes a new number, and the history.                                      *)

EnterChecks ==
  /\ Move("none") /\ Invalidate
  /\ UNCHANGED <<callVars, list>>

(* The process ends: its calls are never answered. *)
KillChecks ==
  /\ current' = 0 /\ shown' = [kind |-> "none", by |-> 0]
  /\ checkAt' = [c \in Check |-> IF checkAt[c] = "none" THEN "none" ELSE "failed"]
  /\ request' = [c \in Check |-> 0]
  /\ fetch' = "due" /\ reply' = NoList /\ list' = NoList
  /\ UNCHANGED <<checkedAs, rows>>

SmsNext ==
  \/ \E c \in Check : StartCheck(c) \/ PostCheck(c) \/ StoreCheck(c) \/ CheckAnswered(c) \/ CheckFails(c)
  \/ Reset \/ OpenHistory \/ FetchHistory \/ HistoryArrives

-----------------------------------------------------------------------------
(* Properties *)

(* What the screen shows is always about the latest check: it is loading as  *)
(* long as that check is under way, so that its button comes back, and then  *)
(* shows that check's own end, in whatever order the answers arrive and      *)
(* however often the user clears the screen.                                 *)
ScreenShowsLatest ==
  /\ shown.by = current
  /\ shown.kind # "none" =>
       \E c \in Check :
         /\ request[c] = current
         /\ checkAt[c] \in CASE shown.kind = "loading" -> {"post", "wait"}
                             [] shown.kind = "data" -> {"answered"}
                             [] shown.kind = "error" -> {"failed"}

(* The verdict on screen is about a check of the account signed in. *)
ResultIsOwn ==
  SignedIn /\ shown.kind = "data" =>
    \A c \in Check : request[c] = current => checkedAs[c] = account

(* A list that is not being reloaded is the signed-in account's. *)
HistoryIsOwn == SignedIn /\ fetch = "idle" => list.of = account

(* A check answered to the phone is in the history as soon as no reload is   *)
(* under way, even one whose verdict was no longer wanted: the list never    *)
(* goes stale by a check of this screen.                                     *)
AnsweredIsListed ==
  SignedIn /\ fetch = "idle" /\ list.ok =>
    \A c \in Check : checkAt[c] = "answered" /\ checkedAs[c] = account => c \in list.rows

=============================================================================
