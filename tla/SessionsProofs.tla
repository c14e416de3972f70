--------------------------- MODULE SessionsProofs ---------------------------
(***************************************************************************)
(* What MCSessions shows for four requests holds for every set of          *)
(* requests, phones and token ids.  The inductive invariant says what a    *)
(* request that has reached a statement already knows, and what it has     *)
(* already done to the shared stores.  At the end the service is shown to  *)
(* be an implementation of SessionLedger, on which the client relies.      *)
(***************************************************************************)
EXTENDS Sessions, TLAPS

(* The program counter, the handler, the answer and the token agree. *)
Shape ==
  \A r \in Request :
    /\ pc[r] = "new" <=> op[r] = "none"
    /\ pc[r] = "done" <=> code[r] # "none"
    /\ pc[r] \in {"exists", "create"} => op[r] = "register"
    /\ pc[r] = "lookup" => op[r] = "login"
    /\ pc[r] \in {"session", "delete", "role"} => op[r] = "refresh"
    /\ op[r] # "none" => who[r] \in Phone
    /\ granted[r] # NoToken <=> code[r] = "ok"

(* An account, once inserted, is known to the one request that inserted it. *)
Created(r) == op[r] = "register" /\ (pc[r] = "save" \/ code[r] = "ok")

Accounts ==
  /\ \A r \in Request : Created(r) => accounts[who[r]] # "none"
  /\ \A r, q \in Request : Created(r) /\ Created(q) /\ who[r] = who[q] => r = q

(* A request about to issue tokens has an account and a role it holds. *)
Entitled(r) == pc[r] = "save" \/ code[r] = "ok"

Entitlement ==
  \A r \in Request : Entitled(r) =>
    /\ accounts[who[r]] # "none"
    /\ role[r] \in {"user", accounts[who[r]]}

(* Ids are bound to accounts for good, and Redis agrees with the claims. *)
Binding ==
  /\ \A j \in Jti : redis[j] # NoOne => redis[j] = owner[j]
  /\ \A j \in Jti : owner[j] # NoOne => accounts[owner[j]] # "none"
  /\ \A r \in Request : granted[r] # NoToken => owner[granted[r]] = who[r]
  /\ \A r \in Request : op[r] = "refresh" => shown[r] \in Jti /\ owner[shown[r]] = who[r]

(* A token some refresh has spent is no longer in Redis. *)
Spent == \A r \in Request, j \in Jti : SpentBy(r, j) => redis[j] = NoOne

IInv == TypeOK /\ Shape /\ Accounts /\ Entitlement /\ Binding /\ Spent

-----------------------------------------------------------------------------

(* Every action keeps every variable in its type. *)
LEMMA TypeStep ==
  ASSUME TypeOK, Shape, [Next]_vars
  PROVE  TypeOK'
<1> USE SessionAssumption DEF TypeOK, Roles, Steps, Codes, dbVars, sessionVars, requestVars,
         Shape
<1>1. ASSUME NEW r \in Request, NEW p \in Phone, StartRegister(r, p)
      PROVE  TypeOK'
  BY <1>1 DEF StartRegister, Begin, Goto
<1>2. ASSUME NEW r \in Request, NEW p \in Phone, StartLogin(r, p)
      PROVE  TypeOK'
  BY <1>2 DEF StartLogin, Begin, Goto
<1>3. ASSUME NEW r \in Request, NEW j \in Jti, StartRefresh(r, j)
      PROVE  TypeOK'
  BY <1>3 DEF StartRefresh, Begin, Goto, Answer
<1>4. ASSUME NEW r \in Request, CheckPhone(r)
      PROVE  TypeOK'
  BY <1>4 DEF CheckPhone, Goto, Answer
<1>5. ASSUME NEW r \in Request, CreateUser(r)
      PROVE  TypeOK'
  BY <1>5 DEF CreateUser, InsertUser, Goto, Answer
<1>6. ASSUME NEW r \in Request, LookupUser(r)
      PROVE  TypeOK'
  BY <1>6 DEF LookupUser, Goto, Answer
<1>7. ASSUME NEW r \in Request, GetSession(r)
      PROVE  TypeOK'
  BY <1>7 DEF GetSession, SessionFound, Goto, Answer
<1>8. ASSUME NEW r \in Request, DeleteSession(r)
      PROVE  TypeOK'
  BY <1>8 DEF DeleteSession, Deleted, Goto, Answer
<1>9. ASSUME NEW r \in Request, ReadRole(r)
      PROVE  TypeOK'
  BY <1>9 DEF ReadRole, Goto, Answer
<1>10. ASSUME NEW r \in Request, IssueTokens(r)
      PROVE  TypeOK'
  BY <1>10 DEF IssueTokens, StoreSession, Fresh, Answer
<1>11. ASSUME NEW r \in Request, Abandon(r)
      PROVE  TypeOK'
  BY <1>11 DEF Abandon, Answer
<1>12. CASE StartReplica
  BY <1>12 DEF StartReplica, Promoted
<1>13. ASSUME NEW j \in Jti, ExpireToken(j)
      PROVE  TypeOK'
  BY <1>13 DEF ExpireToken, Fresh
<1>14. ASSUME NEW j \in Jti, EvictSession(j)
      PROVE  TypeOK'
  BY <1>14 DEF EvictSession
<1>15. CASE RedisRestart
  BY <1>15 DEF RedisRestart
<1>16. CASE UNCHANGED vars
  BY <1>16 DEF vars
<1>. QED
  BY <1>1, <1>2, <1>3, <1>4, <1>5, <1>6, <1>7, <1>8, <1>9, <1>10, <1>11,
     <1>12, <1>13, <1>14, <1>15, <1>16 DEF Next

(* A request only moves along its own handler. *)
LEMMA ShapeStep ==
  ASSUME TypeOK, Shape, Binding, [Next]_vars
  PROVE  Shape'
<1> USE SessionAssumption DEF TypeOK, Roles, Steps, Codes, dbVars, sessionVars, requestVars,
         Shape, Binding
<1>1. ASSUME NEW r \in Request, NEW p \in Phone, StartRegister(r, p)
      PROVE  Shape'
  BY <1>1 DEF StartRegister, Begin, Goto
<1>2. ASSUME NEW r \in Request, NEW p \in Phone, StartLogin(r, p)
      PROVE  Shape'
  BY <1>2 DEF StartLogin, Begin, Goto
<1>3. ASSUME NEW r \in Request, NEW j \in Jti, StartRefresh(r, j)
      PROVE  Shape'
  BY <1>3 DEF StartRefresh, Begin, Goto, Answer
<1>4. ASSUME NEW r \in Request, CheckPhone(r)
      PROVE  Shape'
  BY <1>4 DEF CheckPhone, Goto, Answer
<1>5. ASSUME NEW r \in Request, CreateUser(r)
      PROVE  Shape'
  BY <1>5 DEF CreateUser, InsertUser, Goto, Answer
<1>6. ASSUME NEW r \in Request, LookupUser(r)
      PROVE  Shape'
  BY <1>6 DEF LookupUser, Goto, Answer
<1>7. ASSUME NEW r \in Request, GetSession(r)
      PROVE  Shape'
  BY <1>7 DEF GetSession, SessionFound, Goto, Answer
<1>8. ASSUME NEW r \in Request, DeleteSession(r)
      PROVE  Shape'
  BY <1>8 DEF DeleteSession, Deleted, Goto, Answer
<1>9. ASSUME NEW r \in Request, ReadRole(r)
      PROVE  Shape'
  BY <1>9 DEF ReadRole, Goto, Answer
<1>10. ASSUME NEW r \in Request, IssueTokens(r)
      PROVE  Shape'
  BY <1>10 DEF IssueTokens, StoreSession, Fresh, Answer
<1>11. ASSUME NEW r \in Request, Abandon(r)
      PROVE  Shape'
  BY <1>11 DEF Abandon, Answer
<1>12. CASE StartReplica
  BY <1>12 DEF StartReplica, Promoted
<1>13. ASSUME NEW j \in Jti, ExpireToken(j)
      PROVE  Shape'
  BY <1>13 DEF ExpireToken, Fresh
<1>14. ASSUME NEW j \in Jti, EvictSession(j)
      PROVE  Shape'
  BY <1>14 DEF EvictSession
<1>15. CASE RedisRestart
  BY <1>15 DEF RedisRestart
<1>16. CASE UNCHANGED vars
  BY <1>16 DEF vars
<1>. QED
  BY <1>1, <1>2, <1>3, <1>4, <1>5, <1>6, <1>7, <1>8, <1>9, <1>10, <1>11,
     <1>12, <1>13, <1>14, <1>15, <1>16 DEF Next

(* Only the insert creates, and it creates a phone that had no row. *)
LEMMA AccountsStep ==
  ASSUME TypeOK, Shape, Accounts, [Next]_vars
  PROVE  Accounts'
<1> USE SessionAssumption DEF TypeOK, Roles, Steps, Codes, dbVars, sessionVars, requestVars, Shape, Accounts, Created
<1>1. ASSUME NEW r \in Request, NEW p \in Phone, StartRegister(r, p)
      PROVE  Accounts'
  BY <1>1 DEF StartRegister, Begin, Goto
<1>2. ASSUME NEW r \in Request, NEW p \in Phone, StartLogin(r, p)
      PROVE  Accounts'
  BY <1>2 DEF StartLogin, Begin, Goto
<1>3. ASSUME NEW r \in Request, NEW j \in Jti, StartRefresh(r, j)
      PROVE  Accounts'
  BY <1>3 DEF StartRefresh, Begin, Goto, Answer
<1>4. ASSUME NEW r \in Request, CheckPhone(r)
      PROVE  Accounts'
  BY <1>4 DEF CheckPhone, Goto, Answer
<1>5. ASSUME NEW r \in Request, CreateUser(r)
      PROVE  Accounts'
  BY <1>5 DEF CreateUser, InsertUser, Goto, Answer
<1>6. ASSUME NEW r \in Request, LookupUser(r)
      PROVE  Accounts'
  BY <1>6 DEF LookupUser, Goto, Answer
<1>7. ASSUME NEW r \in Request, GetSession(r)
      PROVE  Accounts'
  BY <1>7 DEF GetSession, SessionFound, Goto, Answer
<1>8. ASSUME NEW r \in Request, DeleteSession(r)
      PROVE  Accounts'
  BY <1>8 DEF DeleteSession, Deleted, Goto, Answer
<1>9. ASSUME NEW r \in Request, ReadRole(r)
      PROVE  Accounts'
  BY <1>9 DEF ReadRole, Goto, Answer
<1>10. ASSUME NEW r \in Request, IssueTokens(r)
      PROVE  Accounts'
  BY <1>10 DEF IssueTokens, StoreSession, Fresh, Answer
<1>11. ASSUME NEW r \in Request, Abandon(r)
      PROVE  Accounts'
  BY <1>11 DEF Abandon, Answer
<1>12. CASE StartReplica
  BY <1>12 DEF StartReplica, Promoted
<1>13. ASSUME NEW j \in Jti, ExpireToken(j)
      PROVE  Accounts'
  BY <1>13 DEF ExpireToken, Fresh
<1>14. ASSUME NEW j \in Jti, EvictSession(j)
      PROVE  Accounts'
  BY <1>14 DEF EvictSession
<1>15. CASE RedisRestart
  BY <1>15 DEF RedisRestart
<1>16. CASE UNCHANGED vars
  BY <1>16 DEF vars
<1>. QED
  BY <1>1, <1>2, <1>3, <1>4, <1>5, <1>6, <1>7, <1>8, <1>9, <1>10, <1>11,
     <1>12, <1>13, <1>14, <1>15, <1>16 DEF Next

(* The role a request carries was read from a row, and rows are only promoted. *)
LEMMA EntitlementStep ==
  ASSUME TypeOK, Shape, Entitlement, [Next]_vars
  PROVE  Entitlement'
<1> USE SessionAssumption DEF TypeOK, Roles, Steps, Codes, dbVars, sessionVars, requestVars, Shape, Entitlement, Entitled
<1>1. ASSUME NEW r \in Request, NEW p \in Phone, StartRegister(r, p)
      PROVE  Entitlement'
  BY <1>1 DEF StartRegister, Begin, Goto
<1>2. ASSUME NEW r \in Request, NEW p \in Phone, StartLogin(r, p)
      PROVE  Entitlement'
  BY <1>2 DEF StartLogin, Begin, Goto
<1>3. ASSUME NEW r \in Request, NEW j \in Jti, StartRefresh(r, j)
      PROVE  Entitlement'
  BY <1>3 DEF StartRefresh, Begin, Goto, Answer
<1>4. ASSUME NEW r \in Request, CheckPhone(r)
      PROVE  Entitlement'
  BY <1>4 DEF CheckPhone, Goto, Answer
<1>5. ASSUME NEW r \in Request, CreateUser(r)
      PROVE  Entitlement'
  BY <1>5 DEF CreateUser, InsertUser, Goto, Answer
<1>6. ASSUME NEW r \in Request, LookupUser(r)
      PROVE  Entitlement'
  BY <1>6 DEF LookupUser, Goto, Answer
<1>7. ASSUME NEW r \in Request, GetSession(r)
      PROVE  Entitlement'
  BY <1>7 DEF GetSession, SessionFound, Goto, Answer
<1>8. ASSUME NEW r \in Request, DeleteSession(r)
      PROVE  Entitlement'
  BY <1>8 DEF DeleteSession, Deleted, Goto, Answer
<1>9. ASSUME NEW r \in Request, ReadRole(r)
      PROVE  Entitlement'
  BY <1>9 DEF ReadRole, Goto, Answer
<1>10. ASSUME NEW r \in Request, IssueTokens(r)
      PROVE  Entitlement'
  BY <1>10 DEF IssueTokens, StoreSession, Fresh, Answer
<1>11. ASSUME NEW r \in Request, Abandon(r)
      PROVE  Entitlement'
  BY <1>11 DEF Abandon, Answer
<1>12. CASE StartReplica
  BY <1>12 DEF StartReplica, Promoted
<1>13. ASSUME NEW j \in Jti, ExpireToken(j)
      PROVE  Entitlement'
  BY <1>13 DEF ExpireToken, Fresh
<1>14. ASSUME NEW j \in Jti, EvictSession(j)
      PROVE  Entitlement'
  BY <1>14 DEF EvictSession
<1>15. CASE RedisRestart
  BY <1>15 DEF RedisRestart
<1>16. CASE UNCHANGED vars
  BY <1>16 DEF vars
<1>. QED
  BY <1>1, <1>2, <1>3, <1>4, <1>5, <1>6, <1>7, <1>8, <1>9, <1>10, <1>11,
     <1>12, <1>13, <1>14, <1>15, <1>16 DEF Next

(* Fresh ids keep claims and Redis in agreement. *)
LEMMA BindingStep ==
  ASSUME TypeOK, Shape, Entitlement, Binding, [Next]_vars
  PROVE  Binding'
<1> USE SessionAssumption DEF TypeOK, Roles, Steps, Codes, dbVars, sessionVars, requestVars, Shape, Entitlement, Entitled, Binding
<1>1. ASSUME NEW r \in Request, NEW p \in Phone, StartRegister(r, p)
      PROVE  Binding'
  BY <1>1 DEF StartRegister, Begin, Goto
<1>2. ASSUME NEW r \in Request, NEW p \in Phone, StartLogin(r, p)
      PROVE  Binding'
  BY <1>2 DEF StartLogin, Begin, Goto
<1>3. ASSUME NEW r \in Request, NEW j \in Jti, StartRefresh(r, j)
      PROVE  Binding'
  BY <1>3 DEF StartRefresh, Begin, Goto, Answer
<1>4. ASSUME NEW r \in Request, CheckPhone(r)
      PROVE  Binding'
  BY <1>4 DEF CheckPhone, Goto, Answer
<1>5. ASSUME NEW r \in Request, CreateUser(r)
      PROVE  Binding'
  BY <1>5 DEF CreateUser, InsertUser, Goto, Answer
<1>6. ASSUME NEW r \in Request, LookupUser(r)
      PROVE  Binding'
  BY <1>6 DEF LookupUser, Goto, Answer
<1>7. ASSUME NEW r \in Request, GetSession(r)
      PROVE  Binding'
  BY <1>7 DEF GetSession, SessionFound, Goto, Answer
<1>8. ASSUME NEW r \in Request, DeleteSession(r)
      PROVE  Binding'
  BY <1>8 DEF DeleteSession, Deleted, Goto, Answer
<1>9. ASSUME NEW r \in Request, ReadRole(r)
      PROVE  Binding'
  BY <1>9 DEF ReadRole, Goto, Answer
<1>10. ASSUME NEW r \in Request, IssueTokens(r)
      PROVE  Binding'
  BY <1>10 DEF IssueTokens, StoreSession, Fresh, Answer
<1>11. ASSUME NEW r \in Request, Abandon(r)
      PROVE  Binding'
  BY <1>11 DEF Abandon, Answer
<1>12. CASE StartReplica
  BY <1>12 DEF StartReplica, Promoted
<1>13. ASSUME NEW j \in Jti, ExpireToken(j)
      PROVE  Binding'
  BY <1>13 DEF ExpireToken, Fresh
<1>14. ASSUME NEW j \in Jti, EvictSession(j)
      PROVE  Binding'
  BY <1>14 DEF EvictSession
<1>15. CASE RedisRestart
  BY <1>15 DEF RedisRestart
<1>16. CASE UNCHANGED vars
  BY <1>16 DEF vars
<1>. QED
  BY <1>1, <1>2, <1>3, <1>4, <1>5, <1>6, <1>7, <1>8, <1>9, <1>10, <1>11,
     <1>12, <1>13, <1>14, <1>15, <1>16 DEF Next

(* A spent token has a claim, so it is not fresh and is never stored again. *)
LEMMA SpentStep ==
  ASSUME TypeOK, Shape, Entitlement, Binding, Spent, [Next]_vars
  PROVE  Spent'
<1> USE SessionAssumption DEF TypeOK, Roles, Steps, Codes, dbVars, sessionVars, requestVars,
         Shape, Entitlement, Entitled, Binding, Spent, SpentBy
<1>1. ASSUME NEW r \in Request, NEW p \in Phone, StartRegister(r, p)
      PROVE  Spent'
  BY <1>1 DEF StartRegister, Begin, Goto
<1>2. ASSUME NEW r \in Request, NEW p \in Phone, StartLogin(r, p)
      PROVE  Spent'
  BY <1>2 DEF StartLogin, Begin, Goto
<1>3. ASSUME NEW r \in Request, NEW j \in Jti, StartRefresh(r, j)
      PROVE  Spent'
  BY <1>3 DEF StartRefresh, Begin, Goto, Answer
<1>4. ASSUME NEW r \in Request, CheckPhone(r)
      PROVE  Spent'
  BY <1>4 DEF CheckPhone, Goto, Answer
<1>5. ASSUME NEW r \in Request, CreateUser(r)
      PROVE  Spent'
  BY <1>5 DEF CreateUser, InsertUser, Goto, Answer
<1>6. ASSUME NEW r \in Request, LookupUser(r)
      PROVE  Spent'
  BY <1>6 DEF LookupUser, Goto, Answer
<1>7. ASSUME NEW r \in Request, GetSession(r)
      PROVE  Spent'
  BY <1>7 DEF GetSession, SessionFound, Goto, Answer
<1>8. ASSUME NEW r \in Request, DeleteSession(r)
      PROVE  Spent'
  BY <1>8 DEF DeleteSession, Deleted, Goto, Answer
<1>9. ASSUME NEW r \in Request, ReadRole(r)
      PROVE  Spent'
  BY <1>9 DEF ReadRole, Goto, Answer
<1>10. ASSUME NEW r \in Request, IssueTokens(r)
      PROVE  Spent'
  BY <1>10 DEF IssueTokens, StoreSession, Fresh, Answer
<1>11. ASSUME NEW r \in Request, Abandon(r)
      PROVE  Spent'
  BY <1>11 DEF Abandon, Answer
<1>12. CASE StartReplica
  BY <1>12 DEF StartReplica, Promoted
<1>13. ASSUME NEW j \in Jti, ExpireToken(j)
      PROVE  Spent'
  BY <1>13 DEF ExpireToken, Fresh
<1>14. ASSUME NEW j \in Jti, EvictSession(j)
      PROVE  Spent'
  BY <1>14 DEF EvictSession
<1>15. CASE RedisRestart
  BY <1>15 DEF RedisRestart
<1>16. CASE UNCHANGED vars
  BY <1>16 DEF vars
<1>. QED
  BY <1>1, <1>2, <1>3, <1>4, <1>5, <1>6, <1>7, <1>8, <1>9, <1>10, <1>11,
     <1>12, <1>13, <1>14, <1>15, <1>16 DEF Next

-----------------------------------------------------------------------------
(* The invariant holds initially and every step keeps it. *)

LEMMA InitIInv == Init => IInv
BY SessionAssumption
   DEF Init, IInv, TypeOK, Roles, Steps, Codes, Shape, Accounts, Created, Entitlement,
       Entitled, Binding, Spent, SpentBy

LEMMA StepIInv == IInv /\ [Next]_vars => IInv'
BY TypeStep, ShapeStep, AccountsStep, EntitlementStep, BindingStep, SpentStep DEF IInv

(* The auth service never leaves the inductive invariant. *)
THEOREM Inductive == Spec => []IInv
BY InitIInv, StepIInv, PTL DEF Spec

(* Every variable keeps its type. *)
THEOREM TypeCorrect == Spec => []TypeOK
<1>1. IInv => TypeOK  BY DEF IInv
<1>. QED  BY <1>1, Inductive, PTL

(* However registrations of a phone race, at most one gets tokens. *)
THEOREM RegistersOnce == Spec => []OneRegistrationPerPhone
<1>1. IInv => OneRegistrationPerPhone
  BY DEF IInv, Accounts, Created, OneRegistrationPerPhone, Answered
<1>. QED  BY <1>1, Inductive, PTL

(* A token exchanged by an answered refresh is dead for good. *)
THEOREM RotationKills == Spec => []RotatedTokenIsDead
<1>1. IInv => RotatedTokenIsDead
  BY DEF IInv, Binding, Spent, SpentBy, RotatedTokenIsDead, Answered
<1>. QED  BY <1>1, Inductive, PTL

(* Sessions and pairs are for the account that proved itself. *)
THEOREM SessionsHaveAccounts == Spec => []SessionsBelongToAccounts
<1>1. IInv => SessionsBelongToAccounts
  BY SessionAssumption DEF IInv, TypeOK, Shape, Binding, SessionsBelongToAccounts
<1>. QED  BY <1>1, Inductive, PTL

(* No access token claims more than the account's row holds. *)
THEOREM RolesAreHeld == Spec => []ClaimedRoleIsHeld
<1>1. IInv => ClaimedRoleIsHeld
  BY DEF IInv, Entitlement, Entitled, ClaimedRoleIsHeld
<1>. QED  BY <1>1, Inductive, PTL

-----------------------------------------------------------------------------
(* A refresh passes the session check only on a token nobody has spent: Redis *)
(* would have to hold a key that Spent says is gone.                          *)

LEMMA ReplayStep ==
  ASSUME IInv, [Next]_vars, NEW r \in Request, NEW q \in Request,
         pc[r] = "session", pc'[r] = "delete"
  PROVE  ~SpentBy(q, shown[r])
<1> USE DEF IInv, TypeOK, Shape
<1>1. redis[shown[r]] = who[r]
  BY DEF Next, StartRegister, StartLogin, StartRefresh, Begin, CheckPhone, CreateUser,
         InsertUser, LookupUser, GetSession, SessionFound, DeleteSession, ReadRole,
         IssueTokens, Abandon, StartReplica, ExpireToken, EvictSession, RedisRestart,
         Goto, Answer, vars, requestVars
<1>2. shown[r] \in Jti /\ who[r] \in Phone
  BY DEF Binding
<1>. QED
  BY <1>1, <1>2, SessionAssumption DEF Spent

THEOREM ReplaysFail == Spec => NoReplay
<1>1. IInv /\ [Next]_vars =>
        [\A r, q \in Request :
           pc[r] = "session" /\ pc'[r] = "delete" => ~SpentBy(q, shown[r])]_vars
  BY ReplayStep
<1>. QED  BY <1>1, Inductive, PTL DEF Spec, NoReplay

-----------------------------------------------------------------------------
(* The handlers implement the ledger: issuing tokens opens an unborn id, and  *)
(* a DEL, an eviction or a restart of Redis closes live ones.                 *)

LEMMA InitLedger == Init => Ledger!LedgerInit
BY DEF Init, Ledger!LedgerInit, Fresh

LEMMA StepLedger ==
  ASSUME IInv, [Next]_vars
  PROVE  [Ledger!LedgerNext]_(Ledger!ledgerVars)
<1> DEFINE life == [j \in Jti |-> IF Fresh(j) THEN "unborn"
                                  ELSE IF redis[j] # NoOne THEN "live" ELSE "dead"]
<1> USE SessionAssumption DEF IInv, TypeOK, Fresh
<1>1. ASSUME UNCHANGED <<redis, owner>>
      PROVE  UNCHANGED Ledger!ledgerVars
  BY <1>1 DEF Ledger!ledgerVars
<1>2. ASSUME NEW r \in Request, NEW j \in Jti, pc[r] = "save", StoreSession(r, j)
      PROVE  Ledger!Open(j, who[r]) /\ who[r] \in Phone
  <2>1. who[r] \in Phone
    BY <1>2 DEF Shape
  <2>. QED
    BY <1>2, <2>1 DEF StoreSession, Ledger!Open
<1>3. ASSUME NEW J \in SUBSET Jti, redis' = [j \in Jti |-> IF j \in J THEN NoOne ELSE redis[j]],
             UNCHANGED owner
      PROVE  Ledger!LedgerNext \/ UNCHANGED Ledger!ledgerVars
  <2> DEFINE K == {j \in J : redis[j] # NoOne}
  <2>1. \A j \in Jti : redis[j] # NoOne => ~Fresh(j)
    BY DEF Binding
  <2>2. CASE K = {}
    BY <1>3, <2>2, <1>1
  <2>3. CASE K # {}
    <3>1. \A j \in K : life[j] = "live"
      BY <2>1
    <3>2. life' = [j \in Jti |-> IF j \in K THEN "dead" ELSE life[j]]
      BY <1>3, <2>1
    <3>. QED
      BY <1>3, <2>3, <3>1, <3>2 DEF Ledger!LedgerNext, Ledger!Close
  <2>. QED
    BY <2>2, <2>3
<1>4. ASSUME NEW r \in Request, IssueTokens(r)
      PROVE  Ledger!LedgerNext \/ UNCHANGED Ledger!ledgerVars
  <2>1. CASE UNCHANGED <<owner, redis>>
    BY <2>1, <1>1
  <2>2. ASSUME NEW j \in Jti, StoreSession(r, j)
        PROVE  Ledger!LedgerNext
    <3>1. pc[r] = "save"
      BY <1>4 DEF IssueTokens
    <3>2. Ledger!Open(j, who[r]) /\ who[r] \in Phone
      BY <2>2, <3>1, <1>2
    <3>. QED
      BY <3>2 DEF Ledger!LedgerNext, Ledger!Open
  <2>. QED
    BY <1>4, <2>1, <2>2 DEF IssueTokens
<1>5. ASSUME NEW r \in Request, DeleteSession(r)
      PROVE  Ledger!LedgerNext \/ UNCHANGED Ledger!ledgerVars
  <2>1. CASE redis' = redis
    BY <1>5, <2>1, <1>1 DEF DeleteSession
  <2>2. CASE redis' = Deleted(r)
    <3>1. shown[r] \in Jti
      BY <1>5 DEF DeleteSession, Shape, Binding
    <3>2. redis' = [j \in Jti |-> IF j \in {shown[r]} THEN NoOne ELSE redis[j]]
      BY <2>2, <3>1 DEF Deleted
    <3>3. UNCHANGED owner /\ {shown[r]} \in SUBSET Jti
      BY <1>5, <3>1 DEF DeleteSession
    <3>. QED
      BY <3>2, <3>3, <1>3
  <2>. QED
    BY <1>5, <2>1, <2>2 DEF DeleteSession
<1>6. ASSUME NEW j \in Jti, EvictSession(j)
      PROVE  Ledger!LedgerNext \/ UNCHANGED Ledger!ledgerVars
  <2>1. redis' = [i \in Jti |-> IF i \in {j} THEN NoOne ELSE redis[i]]
    BY <1>6 DEF EvictSession
  <2>2. UNCHANGED owner /\ {j} \in SUBSET Jti
    BY <1>6 DEF EvictSession
  <2>. QED
    BY <2>1, <2>2, <1>3
<1>7. CASE RedisRestart
  BY <1>7, <1>3 DEF RedisRestart
<1>8. ASSUME NEW r \in Request,
             \/ \E p \in Phone : StartRegister(r, p) \/ StartLogin(r, p)
             \/ \E j \in Jti : StartRefresh(r, j)
             \/ CheckPhone(r) \/ CreateUser(r) \/ LookupUser(r) \/ GetSession(r)
             \/ ReadRole(r) \/ Abandon(r)
      PROVE  UNCHANGED <<redis, owner>>
  BY <1>8 DEF StartRegister, StartLogin, StartRefresh, Begin, CheckPhone, CreateUser,
              LookupUser, GetSession, ReadRole, Abandon, sessionVars
<1>9. (StartReplica \/ (\E j \in Jti : ExpireToken(j)) \/ UNCHANGED vars)
        => UNCHANGED <<redis, owner>>
  BY DEF StartReplica, ExpireToken, vars, sessionVars
<1>. QED
  BY <1>1, <1>4, <1>5, <1>6, <1>7, <1>8, <1>9 DEF Next

(* The statement-level auth service is an implementation of SessionLedger. *)
THEOREM Implementation == Spec => ImplementsLedger
BY InitLedger, StepLedger, Inductive, PTL
   DEF Spec, ImplementsLedger, Ledger!LedgerSpec

(* What a client of the ledger relies on, in terms of Redis and the claims:  *)
(* a token id stays its account's, and a session that has ended, by a        *)
(* rotation, its time to live or a loss of Redis, never comes back, whoever  *)
(* refreshes, logs in or registers meanwhile.                                *)
EndedForGood ==
  [][\A j \in Jti : owner[j] # NoOne =>
       owner'[j] = owner[j] /\ (redis[j] = NoOne => redis'[j] = NoOne)]_vars

LEMMA EndedStep ==
  ASSUME IInv, [Next]_vars, NEW j \in Jti, owner[j] # NoOne
  PROVE  owner'[j] = owner[j] /\ (redis[j] = NoOne => redis'[j] = NoOne)
<1> USE SessionAssumption DEF IInv, TypeOK, Fresh
<1> DEFINE life == [i \in Jti |-> IF Fresh(i) THEN "unborn"
                                  ELSE IF redis[i] # NoOne THEN "live" ELSE "dead"]
<1>1. life[j] # "unborn" /\ (redis[j] = NoOne <=> life[j] = "dead")
  OBVIOUS
<1>2. CASE \E i \in Jti, p \in Phone : Ledger!Open(i, p)
  <2>1. PICK i \in Jti, p \in Phone : Ledger!Open(i, p)
    BY <1>2
  <2>2. i # j
    BY <1>1, <2>1 DEF Ledger!Open
  <2>3. owner'[j] = owner[j] /\ life'[j] = life[j]
    BY <2>1, <2>2 DEF Ledger!Open
  <2>. QED
    BY <2>3
<1>3. CASE \E J \in SUBSET Jti : Ledger!Close(J)
  <2>1. owner' = owner /\ (life[j] = "dead" => life'[j] = "dead")
    BY <1>3 DEF Ledger!Close
  <2>. QED
    BY <2>1
<1>4. CASE UNCHANGED Ledger!ledgerVars
  <2>1. owner' = owner /\ life'[j] = life[j]
    BY <1>4 DEF Ledger!ledgerVars
  <2>. QED
    BY <2>1
<1>. QED
  BY <1>2, <1>3, <1>4, StepLedger DEF Ledger!LedgerNext

(* An ended session never comes back. *)
THEOREM EndsForGood == Spec => EndedForGood
<1>1. IInv /\ [Next]_vars =>
        [\A j \in Jti : owner[j] # NoOne =>
           owner'[j] = owner[j] /\ (redis[j] = NoOne => redis'[j] = NoOne)]_vars
  BY EndedStep
<1>. QED
  BY <1>1, Inductive, PTL DEF Spec, EndedForGood

=============================================================================
