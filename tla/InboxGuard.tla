---------------------------- MODULE InboxGuard ----------------------------
(***************************************************************************)
(* GuardController: scans of the SMS inbox, checks of incoming messages in  *)
(* the foreground, and the switch that turns them on.                      *)
(*                                                                         *)
(* Its methods are asynchronous and run any number of times at once; each  *)
(* await is a step of its call.  A message of the inbox is its position, a  *)
(* finding the call that found it, that position and the account the       *)
(* request went out as.  What the backend answers is a choice; so is the   *)
(* permission, which the user may change in the system settings.  The      *)
(* notifications and the call-screening role are left out.                 *)
(***************************************************************************)
EXTENDS Gate, Integers, FiniteSets

CONSTANTS
  Scan,      \* calls of scanInbox and requestPermission
  Incoming,  \* messages that arrive in the foreground
  Watch,     \* calls of startWatching from the settings
  Restore,   \* calls of restore
  BatchSize, \* _batchSize
  Limit      \* scanInbox's limit

ASSUME InboxAssumption ==
  /\ BatchSize \in Nat \ {0} /\ Limit \in Nat
  /\ Scan \cap Incoming = {}

VARIABLES
  granted,   \* the SMS permission
  guardOn,   \* GuardPrefs, on the device
  status, watching, scanned, total, findings,   \* GuardState
  scan,      \* _scan
  scanAt,    \* where each call is
  number,    \* its local variables: scan
  size,      \*   inbox.length
  upto,      \*   end
  found,     \*   findings
  postedAs,  \* the account a request of a call went out as
  incomingAt,
  watchAt

stateVars == <<status, scanned, total, findings>>
scanVars == <<scanAt, number, size, upto, found>>
inboxVars == <<granted, guardOn, status, watching, scanned, total, findings, scan,
               scanAt, number, size, upto, found, postedAs, incomingAt, watchAt>>

Finding == [from : Scan \cup Incoming, at : 0..Limit, as : User]

InboxTypeOK ==
  /\ granted \in BOOLEAN /\ guardOn \in BOOLEAN /\ watching \in BOOLEAN
  /\ status \in {"idle", "needsPermission", "scanning", "ready", "failed"}
  /\ scanned \in 0..Limit /\ total \in 0..Limit /\ findings \subseteq Finding
  /\ scan \in Nat
  /\ scanAt \in [Scan -> {"none", "grant", "allow", "ask", "read", "post", "check", "end"}]
  /\ number \in [Scan -> Nat] /\ size \in [Scan -> 0..Limit]
  /\ upto \in [Scan -> 0..Limit] /\ found \in [Scan -> SUBSET Finding]
  /\ postedAs \in [Scan \cup Incoming -> Account]
  /\ incomingAt \in [Incoming -> {"none", "post", "check", "end"}]
  /\ watchAt \in [Watch \cup Restore ->
                    {"none", "role", "pref", "perm", "ask", "listen", "save", "end"}]

InboxInit ==
  /\ granted \in BOOLEAN /\ guardOn \in BOOLEAN
  /\ status = "idle" /\ watching = FALSE /\ scan = 0
  /\ scanned = 0 /\ total = 0 /\ findings = {}
  /\ scanAt = [c \in Scan |-> "none"] /\ number = [c \in Scan |-> 0]
  /\ size = [c \in Scan |-> 0] /\ upto = [c \in Scan |-> 0]
  /\ found = [c \in Scan |-> {}]
  /\ postedAs = [c \in Scan \cup Incoming |-> NoUser]
  /\ incomingAt = [m \in Incoming |-> "none"]
  /\ watchAt = [w \in Watch \cup Restore |-> "none"]

GoScan(c, at) == scanAt' = [scanAt EXCEPT ![c] = at]

(* A scan returns, and its local variables are gone. *)
Return(c) ==
  /\ GoScan(c, "end")
  /\ number' = [number EXCEPT ![c] = 0] /\ size' = [size EXCEPT ![c] = 0]
  /\ upto' = [upto EXCEPT ![c] = 0] /\ found' = [found EXCEPT ![c] = {}]
  /\ postedAs' = [postedAs EXCEPT ![c] = NoUser]

GoWatch(w, at) == watchAt' = [watchAt EXCEPT ![w] = at]

-----------------------------------------------------------------------------
(* Permission *)

(* The user changes it in the system settings. *)
SetPermission ==
  /\ granted' = ~granted
  /\ UNCHANGED <<account, guardOn, stateVars, watching, scan, scanVars, postedAs,
                 incomingAt, watchAt>>

(* refreshPermission, when the settings tab opens or the app is resumed. *)
RefreshPermission ==
  /\ \/ ~granted /\ status' = "needsPermission"
     \/ granted /\ status = "needsPermission" /\ status' = "idle"
  /\ UNCHANGED <<account, granted, guardOn, watching, scanned, total, findings, scan,
                 scanVars, postedAs, incomingAt, watchAt>>

(* requestPermission from the card of the settings, or from the scan screen, *)
(* which goes on to scan.                                                    *)
TapGrant(c, at) ==
  /\ scanAt[c] = "none" /\ SignedIn /\ status = "needsPermission"
  /\ at \in {"grant", "allow"} /\ GoScan(c, at)
  /\ UNCHANGED <<account, granted, guardOn, stateVars, watching, scan, number, size,
                 upto, found, postedAs, incomingAt, watchAt>>

Answered(c) ==
  /\ scanAt[c] \in {"grant", "allow"}
  /\ granted' \in {granted, TRUE}
  /\ status' = IF granted' THEN "idle" ELSE "needsPermission"
  /\ GoScan(c, IF granted' /\ scanAt[c] = "grant" THEN "ask" ELSE "end")
  /\ UNCHANGED <<account, guardOn, watching, scanned, total, findings, scan, number,
                 size, upto, found, postedAs, incomingAt, watchAt>>

-----------------------------------------------------------------------------
(* scanInbox *)

(* The screen opens, or its button is tapped: no scan is shown as running. *)
StartScan(c) ==
  /\ scanAt[c] = "none" /\ SignedIn /\ status # "scanning"
  /\ GoScan(c, "ask")
  /\ UNCHANGED <<account, granted, guardOn, stateVars, watching, scan, number, size,
                 upto, found, postedAs, incomingAt, watchAt>>

NoResults == scanned' = 0 /\ total' = 0 /\ findings' = {}

(* hasPermission answers; the scan takes its number. *)
NumberScan(c) ==
  /\ scanAt[c] = "ask"
  /\ \/ /\ ~granted
        /\ status' = "needsPermission" /\ GoScan(c, "end")
        /\ UNCHANGED <<scan, number, scanned, total, findings>>
     \/ /\ granted
        /\ scan' = scan + 1 /\ number' = [number EXCEPT ![c] = scan']
        /\ status' = "scanning" /\ NoResults /\ GoScan(c, "read")
  /\ UNCHANGED <<account, granted, guardOn, watching, size, upto, found, postedAs,
                 incomingAt, watchAt>>

(* The calls whose results may be shown. *)
Current(c) == number[c] = scan

ReadInbox(c) ==
  /\ scanAt[c] = "read" /\ Current(c)
  /\ \/ total' = 0 /\ status' = "ready" /\ Return(c)
     \/ /\ total' \in 1..Limit /\ size' = [size EXCEPT ![c] = total'] /\ GoScan(c, "post")
        /\ UNCHANGED <<status, number, upto, found, postedAs>>
  /\ UNCHANGED <<account, granted, guardOn, watching, scanned, findings, scan,
                 incomingAt, watchAt>>

(* checkBatch: the interceptor reads the token once the request is on its way. *)
PostBatch(c) ==
  /\ scanAt[c] = "post"
  /\ postedAs' = [postedAs EXCEPT ![c] = account]
  /\ GoScan(c, "check")
  /\ UNCHANGED <<account, granted, guardOn, stateVars, watching, scan, number, size,
                 upto, found, incomingAt, watchAt>>

(* Without a token the backend answers with an error. *)
Judged(call) == postedAs[call] # NoUser

BatchEnd(c) ==
  IF upto[c] + BatchSize < size[c] THEN upto[c] + BatchSize ELSE size[c]

(* What a batch adds to a list: nothing unsafe, or something, which is one   *)
(* finding whatever its size.                                                *)
Unsafe(c) == [from |-> c, at |-> BatchEnd(c), as |-> postedAs[c]]

(* Mutant: each batch starts a list of its own. *)
CollectAnew(c) == {{}, {Unsafe(c)}}

Collect(c) == {found[c], found[c] \cup {Unsafe(c)}}

(* The list of the scan replaces the one shown, incoming messages and all. *)
BatchChecked(c) ==
  /\ scanAt[c] = "check" /\ Judged(c) /\ Current(c)
  /\ findings' \in Collect(c) /\ scanned' = BatchEnd(c)
  /\ \/ /\ BatchEnd(c) < size[c]
        /\ found' = [found EXCEPT ![c] = findings'] /\ upto' = [upto EXCEPT ![c] = scanned']
        /\ GoScan(c, "post") /\ UNCHANGED <<status, number, size, postedAs>>
     \/ BatchEnd(c) = size[c] /\ status' = "ready" /\ Return(c)
  /\ UNCHANGED <<account, granted, guardOn, watching, total, scan, incomingAt, watchAt>>

(* Reading or checking throws; without a token, checking always does. *)
ScanFails(c) ==
  /\ scanAt[c] \in {"read", "check"} /\ Current(c)
  /\ status' = "failed" /\ Return(c)
  /\ UNCHANGED <<account, granted, guardOn, watching, scanned, total, findings, scan,
                 incomingAt, watchAt>>

(* A scan that is no longer the current one ends without a trace. *)
ScanStops(c) ==
  /\ scanAt[c] \in {"read", "check"} /\ ~Current(c)
  /\ Return(c)
  /\ UNCHANGED <<account, granted, guardOn, stateVars, watching, scan, incomingAt, watchAt>>

-----------------------------------------------------------------------------
(* _checkIncoming *)

Arrive(m) ==
  /\ incomingAt[m] = "none" /\ watching
  /\ incomingAt' = [incomingAt EXCEPT ![m] = "post"]
  /\ UNCHANGED <<account, granted, guardOn, stateVars, watching, scan, scanVars,
                 postedAs, watchAt>>

PostIncoming(m) ==
  /\ incomingAt[m] = "post"
  /\ postedAs' = [postedAs EXCEPT ![m] = account]
  /\ incomingAt' = [incomingAt EXCEPT ![m] = "check"]
  /\ UNCHANGED <<account, granted, guardOn, stateVars, watching, scan, scanVars, watchAt>>

(* The answer is shown if it is not safe; a failure is ignored. *)
IncomingChecked(m) ==
  /\ incomingAt[m] = "check"
  /\ \/ UNCHANGED findings
     \/ /\ Judged(m)
        /\ findings' = findings \cup {[from |-> m, at |-> 0, as |-> postedAs[m]]}
  /\ incomingAt' = [incomingAt EXCEPT ![m] = "end"]
  /\ postedAs' = [postedAs EXCEPT ![m] = NoUser]
  /\ UNCHANGED <<account, granted, guardOn, status, watching, scanned, total, scan,
                 scanVars, watchAt>>

-----------------------------------------------------------------------------
(* startWatching and restore *)

TapWatch(w) ==
  /\ watchAt[w] = "none" /\ SignedIn /\ ~watching
  /\ GoWatch(w, "ask")
  /\ UNCHANGED <<account, granted, guardOn, stateVars, watching, scan, scanVars,
                 postedAs, incomingAt>>

(* restore awaits the call-screening role, the preference and the permission *)
(* and then calls startWatching.                                             *)
RestoreOn(w) ==
  /\ \/ watchAt[w] = "role" /\ GoWatch(w, IF watching THEN "end" ELSE "pref")
     \/ watchAt[w] = "pref" /\ GoWatch(w, IF guardOn THEN "perm" ELSE "end")
     \/ watchAt[w] = "perm" /\ GoWatch(w, IF granted THEN "ask" ELSE "end")
  /\ UNCHANGED <<account, granted, guardOn, stateVars, watching, scan, scanVars,
                 postedAs, incomingAt>>

MayWatch(w) ==
  /\ watchAt[w] = "ask"
  /\ status' = IF granted THEN status ELSE "needsPermission"
  /\ GoWatch(w, IF granted THEN "listen" ELSE "end")
  /\ UNCHANGED <<account, granted, guardOn, watching, scanned, total, findings, scan,
                 scanVars, postedAs, incomingAt>>

Listen(w) ==
  /\ watchAt[w] = "listen"
  /\ watching' = TRUE /\ GoWatch(w, "save")
  /\ UNCHANGED <<account, granted, guardOn, stateVars, scan, scanVars, postedAs, incomingAt>>

SaveGuardOn(w) ==
  /\ watchAt[w] = "save"
  /\ guardOn' = TRUE /\ GoWatch(w, "end")
  /\ UNCHANGED <<account, granted, stateVars, watching, scan, scanVars, postedAs, incomingAt>>

-----------------------------------------------------------------------------
(* What others do to the controller *)

(* Mutant: the results go, the running scan stays. *)
ClearScanShown ==
  /\ status' = IF status = "needsPermission" THEN status ELSE "idle"
  /\ NoResults /\ UNCHANGED scan

(* Mutant: the label of the scan stays. *)
ClearScanSilently == scan' = scan + 1 /\ NoResults /\ UNCHANGED status

ClearScan ==
  /\ scan' = scan + 1
  /\ status' = IF status = "needsPermission" THEN status ELSE "idle"
  /\ NoResults

(* The gate pops the scan screen, whose button then does not go on to scan,  *)
(* and calls clearScan.                                                      *)
LeaveInbox ==
  /\ ClearScan
  /\ scanAt' = [c \in Scan |-> IF scanAt[c] = "grant" THEN "allow" ELSE scanAt[c]]
  /\ UNCHANGED <<granted, guardOn, watching, number, size, upto, found, postedAs,
                 incomingAt, watchAt>>

(* Home appears and calls restore. *)
EnterInbox(r) ==
  /\ watchAt[r] = "none" /\ GoWatch(r, "role")
  /\ UNCHANGED <<granted, guardOn, stateVars, watching, scan, scanVars, postedAs, incomingAt>>

Ended(at) == IF at = "none" THEN "none" ELSE "end"

(* The process ends and starts again: only the device's settings are left. *)
KillInbox ==
  /\ status' = "idle" /\ watching' = FALSE /\ scan' = 0 /\ NoResults
  /\ scanAt' = [c \in Scan |-> Ended(scanAt[c])] /\ number' = [c \in Scan |-> 0]
  /\ size' = [c \in Scan |-> 0] /\ upto' = [c \in Scan |-> 0] /\ found' = [c \in Scan |-> {}]
  /\ postedAs' = [c \in Scan \cup Incoming |-> NoUser]
  /\ incomingAt' = [m \in Incoming |-> Ended(incomingAt[m])]
  /\ watchAt' = [w \in Watch \cup Restore |-> Ended(watchAt[w])]
  /\ UNCHANGED <<granted, guardOn>>

ScanStep(c) ==
  Answered(c) \/ NumberScan(c) \/ ReadInbox(c) \/ PostBatch(c) \/ BatchChecked(c)
    \/ ScanFails(c) \/ ScanStops(c)

WatchStep(w) == RestoreOn(w) \/ MayWatch(w) \/ Listen(w) \/ SaveGuardOn(w)

InboxNext ==
  \/ SetPermission \/ RefreshPermission
  \/ \E c \in Scan : TapGrant(c, "grant") \/ TapGrant(c, "allow") \/ StartScan(c) \/ ScanStep(c)
  \/ \E m \in Incoming : Arrive(m) \/ PostIncoming(m) \/ IncomingChecked(m)
  \/ \E w \in Watch : TapWatch(w)
  \/ \E w \in Watch \cup Restore : WatchStep(w)

-----------------------------------------------------------------------------
(* Properties *)

(* A scan shown as running is running: the progress bar never freezes and    *)
(* its button comes back, whichever scan superseded which, and although      *)
(* requestPermission, refreshPermission and clearScan rewrite the status.    *)
(* One shown as complete has checked every message it read.                  *)
StatusIsTrue ==
  /\ status = "scanning" =>
       \E c \in Scan : Current(c) /\ scanAt[c] \in {"read", "post", "check"}
  /\ status = "ready" => scanned = total

(* What the current scan has found stays on the screen: neither its later     *)
(* batches, nor other scans that end, nor incoming messages take it away.    *)
FindingsStay ==
  [][scan' = scan => {f \in findings : f.from \in Scan} \subseteq findings']_inboxVars

(* What a scan has put on the screen was checked as the account signed in    *)
(* now: a scan of the session before stops at clearScan.  Nothing like it    *)
(* holds for incoming messages, which are shown whoever is signed in.        *)
FindingsAreOwn == \A f \in findings : f.from \in Scan => f.as = account

=============================================================================
