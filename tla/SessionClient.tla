--------------------------- MODULE SessionClient ---------------------------
(***************************************************************************)
(* The mobile app's side of a session, composed with the session ledger    *)
(* the backend implements (module Sessions): the two keys of TokenStorage, *)
(* the auth interceptor under every API call, the auth controller, and the *)
(* isolate Android starts for an SMS, which shares the keys with the app   *)
(* but not its state.  Every await is a step: each storage key is read,    *)
(* written and deleted on its own, and calls interleave between them.      *)
(*                                                                         *)
(* A pair of tokens is named by the id of its refresh token.  Access       *)
(* tokens are checked by their signature alone, so one stays good until    *)
(* it expires, whatever happened to its session.                           *)
(* Pairs are numbered in the order they are issued, accounts in the order  *)
(* they first sign in.                                                     *)
(***************************************************************************)
EXTENDS Naturals

CONSTANTS
  Call,        \* API calls in flight at once
  Background,  \* those made by the isolate of an incoming SMS
  Phone,       \* accounts
  Jti,         \* token pairs; bounds how many are issued
  NoOne,       \* no account
  NoToken,     \* a key that is not in the storage
  Faulty       \* whether requests fail, sessions are lost and processes killed

ASSUME ClientAssumption ==
  /\ Background \subseteq Call
  /\ Phone \subseteq Nat /\ NoOne \notin Phone
  /\ Jti \subseteq Nat
  /\ NoToken \notin Jti
  /\ Faulty \in BOOLEAN

VARIABLES
  life, holder,  \* the server's ledger
  stale,         \* pairs whose access token has expired
  access,        \* access_token in the storage
  refresh,       \* refresh_token in the storage
  status,        \* AuthState.status
  account,       \* whose data the signed-in user sees
  flow,          \* where login, logout or _restore is
  fresh,         \* the pair a login was answered with
  at,            \* where each call is
  held,          \* the access token it was sent with
  shown,         \* the refresh token it has read
  got,           \* the pair it was answered with
  disturbed,     \* history: a refresh was rejected, failed or cut off, or a
                 \* logout overlapped it, or the server ended a session
  leaked         \* history: a sign-out left something of its session behind

serverVars == <<life, holder, stale>>
storageVars == <<access, refresh>>
userVars == <<status, account, flow, fresh>>
callVars == <<at, held, shown, got>>
history == <<disturbed, leaked>>
vars == <<life, holder, stale, access, refresh, status, account, flow, fresh,
          at, held, shown, got, disturbed, leaked>>

Ledger == INSTANCE SessionLedger

Token == Jti \cup {NoToken}
Saving == {"save access", "save refresh", "clear access", "clear refresh"}

TypeOK ==
  /\ Ledger!LedgerTypeOK
  /\ stale \subseteq Jti
  /\ access \in Token /\ refresh \in Token
  /\ status \in {"unknown", "in", "out"}
  /\ account \in Phone \cup {NoOne}
  /\ flow \in {"none", "restore"} \cup Saving
  /\ fresh \in Token
  /\ at \in [Call -> {"idle", "sent", "refused", "rotate", "spent"} \cup Saving]
  /\ held \in [Call -> Token]
  /\ shown \in [Call -> Token]
  /\ got \in [Call -> Token]
  /\ disturbed \in BOOLEAN /\ leaked \in BOOLEAN

Init ==
  /\ Ledger!LedgerInit
  /\ stale = {}
  /\ access = NoToken /\ refresh = NoToken
  /\ status = "unknown" /\ account = NoOne /\ flow = "restore" /\ fresh = NoToken
  /\ at = [c \in Call |-> "idle"]
  /\ held = [c \in Call |-> NoToken]
  /\ shown = [c \in Call |-> NoToken]
  /\ got = [c \in Call |-> NoToken]
  /\ disturbed = FALSE /\ leaked = FALSE

Refreshing(c) == at[c] \in {"rotate", "spent"} \cup Saving

(* The login screen takes over, while a token may be left in the storage and *)
(* calls of C may still be refreshing.                                       *)
SignOut(left, C) ==
  /\ status' = "out"
  /\ leaked' = (leaked \/ left # NoToken \/ \E c \in C : Refreshing(c))
  /\ UNCHANGED disturbed

Goto(c, step) == at' = [at EXCEPT ![c] = step]

(* A call has ended, and its local variables with it. *)
End(c) ==
  /\ Goto(c, "idle")
  /\ held' = [held EXCEPT ![c] = NoToken]
  /\ shown' = [shown EXCEPT ![c] = NoToken]
  /\ got' = [got EXCEPT ![c] = NoToken]

(* The server issues the next pair to an account. *)
Issue(j, p) ==
  /\ \A i \in Jti : i < j => life[i] # "unborn"
  /\ Ledger!Open(j, p)

Disturb(b) == disturbed' = (disturbed \/ b) /\ UNCHANGED leaked

-----------------------------------------------------------------------------
(* TokenStorage.  save and clear are two awaits each; these are the halves.  *)

StoreAccess(j) == access' = j /\ UNCHANGED refresh

(* Mutant: the refresh token of the answer is not kept. *)
StoreRefreshNever(j) == UNCHANGED storageVars

StoreRefresh(j) == refresh' = j /\ UNCHANGED access

ForgetAccess == access' = NoToken /\ UNCHANGED refresh

(* Mutant: clear only deletes the access token. *)
ForgetNothing == UNCHANGED storageVars

ForgetRefresh == refresh' = NoToken /\ UNCHANGED access

-----------------------------------------------------------------------------
(* An API call through the interceptor.  Calls come one after another, so a  *)
(* call that has ended may be made again.                                    *)

(* onRequest; the isolate leaves SMS alone when there is no token. *)
Send(c) ==
  /\ at[c] = "idle"
  /\ IF c \in Background THEN access # NoToken ELSE status = "in"
  /\ held' = [held EXCEPT ![c] = access]
  /\ Goto(c, "sent")
  /\ UNCHANGED <<serverVars, storageVars, userVars, shown, got, history>>

(* The server answers; 401 is handled by onError. *)
Respond(c) ==
  /\ at[c] = "sent"
  /\ \/ held[c] \in Jti \ stale /\ End(c)
     \/ /\ held[c] \notin Jti \ stale
        /\ Goto(c, "refused") /\ held' = [held EXCEPT ![c] = NoToken]
        /\ UNCHANGED <<shown, got>>
  /\ UNCHANGED <<serverVars, storageVars, userVars, history>>

Unreachable(c) ==
  /\ Faulty /\ at[c] = "sent"
  /\ End(c)
  /\ UNCHANGED <<serverVars, storageVars, userVars, history>>

(* Mutant: onSessionExpired is not called. *)
ReportNothing(c) == UNCHANGED <<status, history>>

(* onSessionExpired: sessionExpired in the app, nothing in the isolate. *)
ReportExpiry(c) ==
  IF c \notin Background /\ status = "in"
  THEN SignOut(access', Call \ {c})
  ELSE UNCHANGED <<status, history>>

(* _refreshTokens. *)
ReadRefresh(c) ==
  /\ at[c] = "refused"
  /\ UNCHANGED <<serverVars, storageVars, account, flow, fresh>>
  /\ \/ /\ refresh = NoToken
        /\ End(c) /\ ReportExpiry(c)
     \/ /\ refresh # NoToken
        /\ shown' = [shown EXCEPT ![c] = refresh]
        /\ Goto(c, "rotate")
        /\ Disturb(flow # "none")
        /\ UNCHANGED <<status, held, got>>

(* The server deletes the session and opens the next one, in two steps; a    *)
(* token it does not know is rejected.  Two refreshes of one token that look *)
(* it up before either deletes it both go on.                                *)
Rotate(c) ==
  /\ at[c] = "rotate"
  /\ \/ Ledger!Close({shown[c]}) /\ Goto(c, "spent") /\ UNCHANGED history
     \/ /\ life[shown[c]] = "dead"
        /\ \/ Goto(c, "clear access") /\ Disturb(TRUE)
           \/ /\ \E d \in Call : at[d] = "spent" /\ shown[d] = shown[c]
              /\ Goto(c, "spent") /\ UNCHANGED history
        /\ UNCHANGED <<life, holder>>
  /\ UNCHANGED <<stale, storageVars, userVars, held, shown, got>>

Grant(c) ==
  /\ at[c] = "spent"
  /\ \E j \in Jti :
       /\ Issue(j, holder[shown[c]])
       /\ got' = [got EXCEPT ![c] = j]
  /\ Goto(c, "save access")
  /\ UNCHANGED <<stale, storageVars, userVars, held, shown, history>>

(* Any other end is a DioException too: no connection, a timeout, a 500.     *)
(* What the server did before is not undone.                                 *)
RefreshFails(c) ==
  /\ Faulty /\ at[c] \in {"rotate", "spent"}
  /\ \/ UNCHANGED <<life, holder>>
     \/ at[c] = "rotate" /\ Ledger!Close({shown[c]})
     \/ at[c] = "spent" /\ \E j \in Jti : Issue(j, holder[shown[c]])
  /\ Goto(c, "clear access")
  /\ Disturb(TRUE)
  /\ UNCHANGED <<stale, storageVars, userVars, held, shown, got>>

(* save, after which the request is sent once more and its answer, whatever  *)
(* it is, ends the call.                                                     *)
Save(c) ==
  /\ \/ /\ at[c] = "save access"
        /\ StoreAccess(got[c]) /\ Goto(c, "save refresh")
        /\ UNCHANGED <<held, shown, got>>
     \/ /\ at[c] = "save refresh"
        /\ StoreRefresh(got[c]) /\ End(c)
  /\ UNCHANGED <<serverVars, userVars, history>>

(* clear, then onSessionExpired. *)
Clear(c) ==
  /\ \/ /\ at[c] = "clear access"
        /\ ForgetAccess /\ Goto(c, "clear refresh")
        /\ UNCHANGED <<status, held, shown, got, history>>
     \/ /\ at[c] = "clear refresh"
        /\ ForgetRefresh /\ End(c) /\ ReportExpiry(c)
  /\ UNCHANGED <<serverVars, account, flow, fresh>>

-----------------------------------------------------------------------------
(* The auth controller.  One of its flows runs at a time: the login button   *)
(* is disabled while one submits, and Home offers no login.                  *)

(* Login or registration; the server opens a session. *)
Login(p) ==
  /\ status = "out" /\ flow = "none"
  /\ \A q \in Phone : q < p => \E i \in Jti : holder[i] = q
  /\ \E j \in Jti :
       /\ Issue(j, p)
       /\ \/ flow' = "save access" /\ fresh' = j
          \/ Faulty /\ UNCHANGED <<flow, fresh>>
  /\ UNCHANGED <<stale, storageVars, status, account, callVars, history>>

PersistLogin ==
  /\ fresh # NoToken
  /\ \/ flow = "save access" /\ StoreAccess(fresh) /\ flow' = "save refresh"
        /\ UNCHANGED <<status, account, fresh>>
     \/ /\ flow = "save refresh" /\ StoreRefresh(fresh) /\ flow' = "none"
        /\ status' = "in" /\ account' = holder[fresh] /\ fresh' = NoToken
  /\ UNCHANGED <<serverVars, callVars, history>>

StartLogout ==
  /\ status = "in" /\ flow = "none"
  /\ flow' = "clear access"
  /\ Disturb(\E c \in Call : Refreshing(c))
  /\ UNCHANGED <<serverVars, storageVars, status, account, fresh, callVars>>

Logout ==
  /\ \/ /\ flow = "clear access" /\ ForgetAccess /\ flow' = "clear refresh"
        /\ UNCHANGED <<status, history>>
     \/ /\ flow = "clear refresh" /\ ForgetRefresh /\ flow' = "none"
        /\ SignOut(access', Call)
  /\ UNCHANGED <<serverVars, account, fresh, callVars>>

(* The app's process is killed and started again; the isolate may live on.   *)
Restart ==
  /\ Faulty /\ status # "unknown"
  /\ status' = "unknown" /\ account' = NoOne /\ flow' = "restore" /\ fresh' = NoToken
  /\ \E killed \in {Call, Call \ Background} :
       /\ at' = [c \in Call |-> IF c \in killed THEN "idle" ELSE at[c]]
       /\ held' = [c \in Call |-> IF c \in killed THEN NoToken ELSE held[c]]
       /\ shown' = [c \in Call |-> IF c \in killed THEN NoToken ELSE shown[c]]
       /\ got' = [c \in Call |-> IF c \in killed THEN NoToken ELSE got[c]]
  /\ Disturb(flow # "none" \/ \E c \in Call : Refreshing(c))
  /\ UNCHANGED <<serverVars, storageVars>>

(* hasSession: an access token is there. *)
Restore ==
  /\ flow = "restore"
  /\ flow' = "none"
  /\ UNCHANGED <<serverVars, storageVars, fresh, callVars>>
  /\ \/ access = NoToken /\ SignOut(refresh, Call) /\ UNCHANGED account
     \/ /\ access # NoToken
        /\ status' = "in" /\ account' = holder[access]
        /\ UNCHANGED history

-----------------------------------------------------------------------------
(* The server on its own. *)

(* Access tokens live equally long, so they expire in the order of issue. *)
ExpireAccess(j) ==
  /\ life[j] # "unborn" /\ j \notin stale
  /\ \A i \in Jti : i < j => i \in stale
  /\ stale' = stale \cup {j}
  /\ UNCHANGED <<life, holder, storageVars, userVars, callVars, history>>

(* A session ends by its TTL or with Redis; only those the device still knows *)
(* make a difference to it.                                                   *)
EndSession(j) ==
  /\ Faulty /\ (j \in {refresh, fresh} \/ \E c \in Call : j \in {shown[c], got[c]})
  /\ Ledger!Close({j})
  /\ Disturb(TRUE)
  /\ UNCHANGED <<stale, storageVars, userVars, callVars>>

Next ==
  \/ \E c \in Call :
       \/ Send(c) \/ Respond(c) \/ Unreachable(c) \/ ReadRefresh(c)
       \/ Rotate(c) \/ Grant(c) \/ RefreshFails(c) \/ Save(c) \/ Clear(c)
  \/ \E p \in Phone : Login(p)
  \/ PersistLogin \/ StartLogout \/ Logout \/ Restart \/ Restore
  \/ \E j \in Jti : ExpireAccess(j) \/ EndSession(j)

Spec == Init /\ [][Next]_vars

(* The user goes on using the app, whose code runs on to its next await; a   *)
(* refresh ends by an answer or by the receive timeout; and the network is   *)
(* not down for every single request.  Of the isolate nothing is assumed:    *)
(* Android may stop it for good.                                             *)
Progress(c) == ReadRefresh(c) \/ Rotate(c) \/ Grant(c) \/ RefreshFails(c) \/ Save(c) \/ Clear(c)

Fairness ==
  \A c \in Call \ Background : WF_vars(Progress(c)) /\ WF_vars(Send(c)) /\ SF_vars(Respond(c))

FairSpec == Spec /\ Fairness

-----------------------------------------------------------------------------
(* Properties *)

Quiet == flow = "none" /\ \A c \in Call : ~Refreshing(c)

(* As long as the server answers every refresh with a pair, no logout        *)
(* overlaps one and the server ends no session, a signed-in device keeps a   *)
(* session that works, in whatever order overlapping refreshes, of one token *)
(* or of one after the other, save what each was answered with.              *)
SessionKept ==
  ~disturbed /\ Quiet /\ status = "in" =>
    access # NoToken /\ refresh # NoToken /\ life[refresh] = "live"

(* Whatever fails, crashes or expires, both tokens in the storage are the    *)
(* signed-in user's, unless a sign-out has left a token there, or a refresh  *)
(* on its way: it then writes the old account's tokens, or deletes the new   *)
(* account's.                                                                *)
OneAccount ==
  ~leaked /\ Quiet /\ status = "in" =>
    \A j \in {access, refresh} \ {NoToken} : holder[j] = account

(* A user without a usable token does not stay on Home, failing every        *)
(* request from then on: some call finds out and leads to the login screen.  *)
Stranded ==
  /\ status = "in" /\ flow = "none"
  /\ access \in stale \cup {NoToken}
  /\ refresh = NoToken \/ life[refresh] = "dead"

LeavesHome == Stranded ~> ~Stranded

(* The interceptor's doc comment: sessionExpired is for a refresh token the  *)
(* server rejects because the session ran out or it no longer has it.  Of    *)
(* two calls refused together, one ends the session the other has renewed.   *)
EndsOnlyWhenGone ==
  [][\A j \in Jti :
       status = "in" /\ status' = "out" /\ flow = "none" /\ holder[j] = account
         => life[j] # "live"]_vars

=============================================================================
