------------------------------ MODULE Screens ------------------------------
(***************************************************************************)
(* The inbox guard, the manual check and the history under the gate of     *)
(* app.dart, which signs accounts in and out while calls of all three are  *)
(* under way and decides what each of them forgets, and when.              *)
(***************************************************************************)
EXTENDS InboxGuard, SmsCheck

vars == <<account, granted, guardOn, status, watching, scanned, total, findings, scan,
          scanAt, number, size, upto, found, postedAs, incomingAt, watchAt,
          current, shown, checkAt, request, checkedAs, rows, fetch, reply, list>>

TypeOK == account \in Account /\ InboxTypeOK /\ SmsTypeOK

Init == account = NoUser /\ InboxInit /\ SmsInit

(* A login, or a session restored at the start. *)
SignIn(u, r) ==
  /\ account = NoUser /\ account' = u
  /\ EnterInbox(r) /\ EnterChecks

(* Logout, or the end of the session: only the inbox is told. *)
SignOut ==
  /\ SignedIn /\ account' = NoUser
  /\ LeaveInbox /\ UNCHANGED smsVars

(* The process is killed and started again. *)
Restart == account' = NoUser /\ KillInbox /\ KillChecks

Next ==
  \/ \E u \in User, r \in Restore : SignIn(u, r)
  \/ SignOut \/ Restart
  \/ InboxNext /\ UNCHANGED smsVars
  \/ SmsNext /\ UNCHANGED inboxVars

Spec == Init /\ [][Next]_vars

-----------------------------------------------------------------------------
(* Nothing a scan found, no verdict of the manual check and no settled       *)
(* history of another account is on the screens of the one signed in.        *)
ShownIsOwn == FindingsAreOwn /\ ResultIsOwn /\ HistoryIsOwn

=============================================================================
