------------------------------ MODULE Sessions ------------------------------
(***************************************************************************)
(* The auth service of the backend (internal/auth): registration, login    *)
(* and the rotation of refresh tokens, one TLA+ step per statement sent to *)
(* PostgreSQL or Redis.  Requests of all replicas interleave between       *)
(* statements; any statement may fail, with or without having taken        *)
(* effect; a request may be abandoned between two of them; sessions expire *)
(* and Redis, which the cluster runs without a volume, may lose them all.  *)
(*                                                                         *)
(* Phones stand for accounts (users.phone is UNIQUE and rows are never     *)
(* deleted).  A refresh token is its id; the id is 16 random bytes and is  *)
(* taken to be fresh.  Tokens whose signature or kind is wrong are refused *)
(* before any state is read and are left out.                              *)
(***************************************************************************)
CONSTANTS
  Request,      \* HTTP requests to the auth handlers, each served once
  Phone,        \* phone numbers
  AdminPhone,   \* ADMIN_PHONES of the configuration
  Jti,          \* refresh-token ids; bounds how many tokens are issued
  NoOne,        \* no account
  NoToken       \* no refresh token

ASSUME SessionAssumption ==
  /\ AdminPhone \subseteq Phone
  /\ NoOne \notin Phone
  /\ NoToken \notin Jti

VARIABLES
  accounts,     \* users table: the role of each phone's row, or "none"
  redis,        \* refresh:<jti> keys: the account of a live session
  owner,        \* uid claim of the refresh token signed with each id
  expired,      \* ids whose refresh token is past its exp claim
  op,           \* the handler a request calls
  pc,           \* the statement a request is at
  who,          \* the account a request acts for
  shown,        \* the refresh token a request presents
  role,         \* the role a request has read for its access token
  granted,      \* the refresh token a request is answered with
  code          \* the answer of a request; "failed" is a 500 or none at all

dbVars == <<accounts>>
sessionVars == <<redis, owner, expired>>
requestVars == <<op, pc, who, shown, role, granted, code>>
vars == <<accounts, redis, owner, expired, op, pc, who, shown, role, granted, code>>

Roles == {"user", "admin"}
Steps == {"new", "exists", "create", "lookup", "session", "delete", "role", "save", "done"}
Codes == {"none", "ok", "conflict", "unauthorized", "failed"}

TypeOK ==
  /\ accounts \in [Phone -> Roles \cup {"none"}]
  /\ redis \in [Jti -> Phone \cup {NoOne}]
  /\ owner \in [Jti -> Phone \cup {NoOne}]
  /\ expired \subseteq Jti
  /\ op \in [Request -> {"none", "register", "login", "refresh"}]
  /\ pc \in [Request -> Steps]
  /\ who \in [Request -> Phone \cup {NoOne}]
  /\ shown \in [Request -> Jti \cup {NoToken}]
  /\ role \in [Request -> Roles \cup {"none"}]
  /\ granted \in [Request -> Jti \cup {NoToken}]
  /\ code \in [Request -> Codes]

Init ==
  /\ accounts = [p \in Phone |-> "none"]
  /\ redis = [j \in Jti |-> NoOne]
  /\ owner = [j \in Jti |-> NoOne]
  /\ expired = {}
  /\ op = [r \in Request |-> "none"]
  /\ pc = [r \in Request |-> "new"]
  /\ who = [r \in Request |-> NoOne]
  /\ shown = [r \in Request |-> NoToken]
  /\ role = [r \in Request |-> "none"]
  /\ granted = [r \in Request |-> NoToken]
  /\ code = [r \in Request |-> "none"]

-----------------------------------------------------------------------------
(* Moving a request on, and answering it. *)

Goto(r, step) ==
  /\ pc' = [pc EXCEPT ![r] = step]
  /\ UNCHANGED code

Answer(r, c) ==
  /\ pc' = [pc EXCEPT ![r] = "done"]
  /\ code' = [code EXCEPT ![r] = c]

(* A request enters a handler with the body it was sent. *)
Begin(r, handler, p, j) ==
  /\ pc[r] = "new"
  /\ op' = [op EXCEPT ![r] = handler]
  /\ who' = [who EXCEPT ![r] = p]
  /\ shown' = [shown EXCEPT ![r] = j]
  /\ UNCHANGED <<dbVars, sessionVars, role, granted>>

-----------------------------------------------------------------------------
(* Register *)

StartRegister(r, p) == Begin(r, "register", p, NoToken) /\ Goto(r, "exists")

(* ExistsByPhone: a known phone is a conflict. *)
CheckPhone(r) ==
  /\ pc[r] = "exists"
  /\ \/ accounts[who[r]] = "none" /\ Goto(r, "create")
     \/ accounts[who[r]] # "none" /\ Answer(r, "conflict")
     \/ Answer(r, "failed")
  /\ UNCHANGED <<dbVars, sessionVars, op, who, shown, role, granted>>

(* Mutant: no UNIQUE constraint behind the insert. *)
InsertUserTwice(r) ==
  /\ accounts' = [accounts EXCEPT ![who[r]] = "user"]
  /\ \/ Goto(r, "save") /\ role' = [role EXCEPT ![r] = "user"]
     \/ Answer(r, "failed") /\ UNCHANGED role

(* Mutant: the claim anticipates the promotion a restart will make. *)
InsertUserPromoted(r) ==
  /\ accounts[who[r]] = "none"
  /\ accounts' = [accounts EXCEPT ![who[r]] = "user"]
  /\ Goto(r, "save")
  /\ role' = [role EXCEPT ![r] = IF who[r] \in AdminPhone THEN "admin" ELSE "user"]

(* users.Create inserts the row with the default role.  The phone may have   *)
(* been taken since ExistsByPhone: the UNIQUE constraint then fails the      *)
(* statement.                                                                *)
InsertUser(r) ==
  /\ accounts[who[r]] = "none"
  /\ accounts' = [accounts EXCEPT ![who[r]] = "user"]
  /\ \/ Goto(r, "save") /\ role' = [role EXCEPT ![r] = "user"]
     \/ Answer(r, "failed") /\ UNCHANGED role

CreateUser(r) ==
  /\ pc[r] = "create"
  /\ \/ InsertUser(r)
     \/ Answer(r, "failed") /\ UNCHANGED <<accounts, role>>
  /\ UNCHANGED <<sessionVars, op, who, shown, granted>>

-----------------------------------------------------------------------------
(* Login *)

StartLogin(r, p) == Begin(r, "login", p, NoToken) /\ Goto(r, "lookup")

(* GetByPhone and the bcrypt comparison. *)
LookupUser(r) ==
  /\ pc[r] = "lookup"
  /\ \/ /\ accounts[who[r]] # "none"
        /\ Goto(r, "save")
        /\ role' = [role EXCEPT ![r] = accounts[who[r]]]
     \/ Answer(r, "unauthorized") /\ UNCHANGED role
     \/ Answer(r, "failed") /\ UNCHANGED role
  /\ UNCHANGED <<dbVars, sessionVars, op, who, shown, granted>>

-----------------------------------------------------------------------------
(* Refresh *)

(* A client presents a refresh token it was answered with; ParseRefresh       *)
(* refuses an expired one before Redis is asked.                             *)
StartRefresh(r, j) ==
  /\ \E q \in Request : granted[q] = j
  /\ Begin(r, "refresh", owner[j], j)
  /\ \/ j \notin expired /\ Goto(r, "session")
     \/ j \in expired /\ Answer(r, "unauthorized")

(* Mutant: the signature alone lets a refresh through. *)
SessionAssumed(r) == owner[shown[r]] = who[r]

(* Redis GET.  A missing key, another account's id, and any error of Redis   *)
(* (the value read is then empty, hence not the caller's id) are all         *)
(* answered with 401.                                                        *)
SessionFound(r) == redis[shown[r]] = who[r]

GetSession(r) ==
  /\ pc[r] = "session"
  /\ \/ SessionFound(r) /\ Goto(r, "delete")
     \/ Answer(r, "unauthorized")
  /\ UNCHANGED <<dbVars, sessionVars, op, who, shown, role, granted>>

(* Mutant: the old key is left to its TTL. *)
DeletedLater(r) == redis

(* Redis DEL.  How many keys it removed is not looked at. *)
Deleted(r) == [redis EXCEPT ![shown[r]] = NoOne]

DeleteSession(r) ==
  /\ pc[r] = "delete"
  /\ \/ redis' = Deleted(r) /\ Goto(r, "role")
     \/ redis' \in {redis, Deleted(r)} /\ Answer(r, "failed")
  /\ UNCHANGED <<dbVars, owner, expired, op, who, shown, role, granted>>

ReadRole(r) ==
  /\ pc[r] = "role"
  /\ \/ /\ accounts[who[r]] # "none"
        /\ Goto(r, "save")
        /\ role' = [role EXCEPT ![r] = accounts[who[r]]]
     \/ Answer(r, "failed") /\ UNCHANGED role
  /\ UNCHANGED <<dbVars, sessionVars, op, who, shown, granted>>

-----------------------------------------------------------------------------
(* issueTokens, shared by the three handlers: sign the pair, then Redis SET. *)

(* Mutant: an id may be drawn again. *)
FreshEnough(j) == owner[j] \in Phone \cup {NoOne}

Fresh(j) == owner[j] = NoOne

(* Mutant: a refresh also prolongs the session it came from. *)
StoreSessionSliding(r, j) ==
  /\ Fresh(j)
  /\ owner' = [owner EXCEPT ![j] = who[r]]
  /\ redis' = [i \in Jti |-> IF i \in {j, shown[r]} THEN who[r] ELSE redis[i]]

StoreSession(r, j) ==
  /\ Fresh(j)
  /\ owner' = [owner EXCEPT ![j] = who[r]]
  /\ redis' = [redis EXCEPT ![j] = who[r]]

IssueTokens(r) ==
  /\ pc[r] = "save"
  /\ \/ \E j \in Jti :
          /\ StoreSession(r, j)
          /\ \/ Answer(r, "ok") /\ granted' = [granted EXCEPT ![r] = j]
             \/ Answer(r, "failed") /\ UNCHANGED granted
     \/ Answer(r, "failed") /\ UNCHANGED <<owner, redis, granted>>
  /\ UNCHANGED <<dbVars, expired, op, who, shown, role>>

-----------------------------------------------------------------------------
(* The world around the handlers. *)

(* The process dies, or the client hangs up and cancels the context. *)
Abandon(r) ==
  /\ pc[r] \notin {"new", "done"}
  /\ Answer(r, "failed")
  /\ UNCHANGED <<dbVars, sessionVars, op, who, shown, role, granted>>

(* A replica starts and promotes the configured phones that have an account. *)
Promoted == [p \in Phone |->
               IF p \in AdminPhone /\ accounts[p] # "none" THEN "admin" ELSE accounts[p]]

StartReplica ==
  /\ accounts' = Promoted
  /\ accounts' # accounts
  /\ UNCHANGED <<sessionVars, requestVars>>

(* The exp claim is set before the key's TTL starts, so it passes first. *)
ExpireToken(j) ==
  /\ ~Fresh(j) /\ j \notin expired
  /\ expired' = expired \cup {j}
  /\ UNCHANGED <<dbVars, redis, owner, requestVars>>

EvictSession(j) ==
  /\ j \in expired /\ redis[j] # NoOne
  /\ redis' = [redis EXCEPT ![j] = NoOne]
  /\ UNCHANGED <<dbVars, owner, expired, requestVars>>

RedisRestart ==
  /\ \E j \in Jti : redis[j] # NoOne
  /\ redis' = [j \in Jti |-> NoOne]
  /\ UNCHANGED <<dbVars, owner, expired, requestVars>>

Next ==
  \/ \E r \in Request, p \in Phone : StartRegister(r, p) \/ StartLogin(r, p)
  \/ \E r \in Request, j \in Jti : StartRefresh(r, j)
  \/ \E r \in Request :
       \/ CheckPhone(r) \/ CreateUser(r) \/ LookupUser(r)
       \/ GetSession(r) \/ DeleteSession(r) \/ ReadRole(r)
       \/ IssueTokens(r) \/ Abandon(r)
  \/ StartReplica
  \/ \E j \in Jti : ExpireToken(j) \/ EvictSession(j)
  \/ RedisRestart

Spec == Init /\ [][Next]_vars

-----------------------------------------------------------------------------
(* Properties *)

Answered(r, handler) == op[r] = handler /\ code[r] = "ok"

(* Of several registrations of one phone, racing or retried, at most one is  *)
(* answered with tokens (Register: exists, then insert, not atomic).         *)
OneRegistrationPerPhone ==
  \A r, q \in Request :
    Answered(r, "register") /\ Answered(q, "register") /\ who[r] = who[q] => r = q

(* Once a refresh has been answered with a new pair, the token it presented  *)
(* opens no session any more (Refresh deletes the key before issuing).       *)
RotatedTokenIsDead ==
  \A r \in Request : Answered(r, "refresh") => redis[shown[r]] = NoOne

(* A live session, and every pair handed out, is for the account that proved *)
(* itself: the phone of the login or registration, or the subject of the     *)
(* token presented; and that account exists.                                 *)
SessionsBelongToAccounts ==
  /\ \A j \in Jti : redis[j] # NoOne => redis[j] = owner[j] /\ accounts[owner[j]] # "none"
  /\ \A r \in Request : code[r] = "ok" =>
       /\ owner[granted[r]] = who[r]
       /\ op[r] = "refresh" => owner[shown[r]] = who[r]

(* No access token claims a role the account does not hold: the claim was    *)
(* read from the row, and roles only go up (PromoteToAdmin).  It may lag.    *)
ClaimedRoleIsHeld ==
  \A r \in Request : code[r] = "ok" => role[r] \in {"user", accounts[who[r]]}

(* A refresh is let through only on a token no other refresh has spent:      *)
(* requests that share a token must overlap for both to be answered.         *)
SpentBy(q, j) ==
  op[q] = "refresh" /\ shown[q] = j /\ (pc[q] \in {"role", "save"} \/ code[q] = "ok")

NoReplay ==
  [][\A r, q \in Request :
       pc[r] = "session" /\ pc'[r] = "delete" => ~SpentBy(q, shown[r])]_vars

(* The session store the client sees behind these handlers. *)
Ledger == INSTANCE SessionLedger WITH
  life <- [j \in Jti |-> IF Fresh(j) THEN "unborn"
                         ELSE IF redis[j] # NoOne THEN "live" ELSE "dead"],
  holder <- owner

ImplementsLedger == Ledger!LedgerSpec

(* The auth interceptor's doc comment: a refresh is rejected when the        *)
(* session ran out or the server no longer has it.  The code also rejects    *)
(* when Redis merely fails to answer.                                        *)
RejectedOnlyWhenGone ==
  \A r \in Request : op[r] = "refresh" /\ code[r] = "unauthorized" =>
    shown[r] \in expired \/ redis[shown[r]] = NoOne

=============================================================================
