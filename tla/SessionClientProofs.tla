------------------------ MODULE SessionClientProofs ------------------------
(***************************************************************************)
(* For any number of calls, accounts and token pairs: a device nothing has *)
(* disturbed keeps a session that works, and its tokens are the signed-in  *)
(* user's unless a sign-out has leaked.                                    *)
(*                                                                         *)
(* Both properties speak of quiet moments.  In between, the invariant has  *)
(* to follow every refresh, however many overlap, from the token it shows  *)
(* to the pair it stores, and login and logout from one half of the        *)
(* storage to the other: Kept says how far each has come while             *)
(* undisturbed, Own whose every token on its way is.  At the end, what the app does to the server is shown to be     *)
(* what SessionLedger lets its clients do.                                 *)
(***************************************************************************)
EXTENDS SessionClient, TLAPS

Showing(c) == at[c] \in {"rotate", "spent"}
Storing(c) == at[c] \in {"save access", "save refresh"}

(* Tokens on their way were issued by the server. *)
Born(x) == x # NoToken => life[x] # "unborn"

Issued ==
  /\ Born(access) /\ Born(refresh) /\ Born(fresh)
  /\ \A c \in Call :
       /\ Showing(c) => shown[c] # NoToken
       /\ Storing(c) => got[c] # NoToken
       /\ Born(shown[c]) /\ Born(got[c])

(* What the user can be in the middle of. *)
FlowShape ==
  /\ (flow = "restore") <=> (status = "unknown")
  /\ flow \in {"save access", "save refresh"} => status = "out" /\ fresh # NoToken

(* Undisturbed, refreshes overlap nothing but each other.  Each is answered  *)
(* with a pair that is live and nobody else's until it is stored, and as     *)
(* long as the stored refresh token is spent, the one that will replace it   *)
(* is on its way.                                                            *)
Bare == access = NoToken /\ refresh = NoToken
Whole == access # NoToken /\ refresh # NoToken /\ life[refresh] = "live"

Calm(c) ==
  /\ flow = "none" /\ status = "in" /\ access # NoToken /\ refresh # NoToken
  /\ at[c] \notin {"clear access", "clear refresh"}

Pending(c) ==
  /\ life[got[c]] = "live" /\ got[c] # refresh
  /\ \A d \in Call : Showing(d) => shown[d] # got[c]
  /\ \A d \in Call \ {c} : Storing(d) => got[d] # got[c]

Renewed == life[refresh] = "live" \/ \E d \in Call : at[d] = "spent" \/ Storing(d)

Underway ==
  \A c \in Call : (Refreshing(c) => Calm(c) /\ Renewed) /\ (Storing(c) => Pending(c))

AtRest ==
  (\A c \in Call : ~Refreshing(c)) =>
    /\ flow = "none" => IF status = "in" THEN Whole ELSE Bare
    /\ flow = "restore" => Bare \/ Whole
    /\ flow = "save access" => Bare /\ life[fresh] = "live"
    /\ flow = "save refresh" => access # NoToken /\ refresh = NoToken /\ life[fresh] = "live"
    /\ flow \in {"clear access", "clear refresh"} => status = "in" /\ refresh # NoToken
    /\ flow = "clear refresh" => access = NoToken

Kept == ~disturbed => Underway /\ AtRest

(* Without a leak, a sign-out leaves nothing, and what is on its way before  *)
(* it is one account's.                                                      *)
OnItsWay(j) ==
  \/ j \in {access, refresh}
  \/ \E c \in Call : (Showing(c) /\ shown[c] = j) \/ (Storing(c) /\ got[c] = j)

Own ==
  ~leaked =>
    /\ status = "out" =>
         /\ \A c \in Call : ~Refreshing(c)
         /\ refresh = NoToken
         /\ access = IF flow = "save refresh" THEN fresh ELSE NoToken
    /\ status # "out" => \A i, j \in Jti : OnItsWay(i) /\ OnItsWay(j) => holder[i] = holder[j]
    /\ status = "in" => \A j \in Jti : OnItsWay(j) => holder[j] = account

Inv == TypeOK /\ Issued /\ FlowShape /\ Kept /\ Own


-----------------------------------------------------------------------------
(* The types of the calls' variables and those of the others. *)
CallTypeOK ==
  /\ at \in [Call -> {"idle", "sent", "refused", "rotate", "spent"} \cup Saving]
  /\ held \in [Call -> Token]
  /\ shown \in [Call -> Token]
  /\ got \in [Call -> Token]

RestTypeOK ==
  /\ Ledger!LedgerTypeOK
  /\ stale \subseteq Jti
  /\ access \in Token /\ refresh \in Token
  /\ status \in {"unknown", "in", "out"}
  /\ account \in Phone \cup {NoOne}
  /\ flow \in {"none", "restore"} \cup Saving
  /\ fresh \in Token
  /\ disturbed \in BOOLEAN /\ leaked \in BOOLEAN

LEMMA TypeParts == TypeOK <=> CallTypeOK /\ RestTypeOK
BY DEF TypeOK, CallTypeOK, RestTypeOK

LEMMA NextTypeParts == CallTypeOK' /\ RestTypeOK' => TypeOK'
BY DEF TypeOK, CallTypeOK, RestTypeOK

LEMMA EndTypes == ASSUME CallTypeOK, NEW c \in Call, End(c) PROVE CallTypeOK'
BY DEF CallTypeOK, End, Goto, Token

LEMMA GotoTypes ==
  ASSUME CallTypeOK, NEW c \in Call, NEW step \in {"sent", "refused", "rotate", "spent"} \cup Saving,
         Goto(c, step), NEW x \in Token,
         held' \in {held, [held EXCEPT ![c] = x]},
         shown' \in {shown, [shown EXCEPT ![c] = x]},
         got' \in {got, [got EXCEPT ![c] = x]}
  PROVE  CallTypeOK'
BY DEF CallTypeOK, Goto

(* The ledger's steps keep its types. *)
LEMMA OpenTypes ==
  ASSUME Ledger!LedgerTypeOK, NEW j \in Jti, NEW p \in Phone \cup {NoOne}, Ledger!Open(j, p)
  PROVE  Ledger!LedgerTypeOK'
BY DEF Ledger!LedgerTypeOK, Ledger!Open

LEMMA CloseTypes ==
  ASSUME Ledger!LedgerTypeOK, NEW J, Ledger!Close(J)
  PROVE  Ledger!LedgerTypeOK'
BY DEF Ledger!LedgerTypeOK, Ledger!Close

LEMMA LedgerSame ==
  ASSUME Ledger!LedgerTypeOK, UNCHANGED <<life, holder>>
  PROVE  Ledger!LedgerTypeOK'
BY DEF Ledger!LedgerTypeOK

(* A call's own steps. *)
LEMMA CallTypes ==
  ASSUME TypeOK, Issued, NEW c \in Call,
         Send(c) \/ Respond(c) \/ Unreachable(c) \/ ReadRefresh(c) \/ Rotate(c)
           \/ Grant(c) \/ RefreshFails(c) \/ Save(c) \/ Clear(c)
  PROVE  TypeOK'
<1> USE TypeParts, NextTypeParts
<1>1. CASE Send(c)
  <2>1. CallTypeOK'
    BY <1>1, GotoTypes DEF Send, RestTypeOK
  <2>2. RestTypeOK'
    BY <1>1 DEF Send, RestTypeOK, Ledger!LedgerTypeOK, serverVars, storageVars, userVars, history
  <2> QED
    BY <2>1, <2>2
<1>2. CASE Respond(c) \/ Unreachable(c)
  <2>1. CallTypeOK'
    <3>1. CASE End(c)
      BY <3>1, EndTypes
    <3>2. CASE ~End(c)
      BY <1>2, <3>2, GotoTypes DEF Respond, Unreachable, Token
    <3> QED
      BY <3>1, <3>2
  <2>2. RestTypeOK'
    BY <1>2 DEF Respond, Unreachable, RestTypeOK, Ledger!LedgerTypeOK, serverVars, storageVars,
                userVars, history
  <2> QED
    BY <2>1, <2>2
<1>3. CASE ReadRefresh(c)
  <2>1. CallTypeOK'
    <3>1. CASE End(c)
      BY <3>1, EndTypes
    <3>2. CASE ~End(c)
      BY <1>3, <3>2, GotoTypes DEF ReadRefresh, RestTypeOK
    <3> QED
      BY <3>1, <3>2
  <2>2. RestTypeOK'
    BY <1>3 DEF ReadRefresh, ReportExpiry, SignOut, Disturb, RestTypeOK, Ledger!LedgerTypeOK,
                serverVars, storageVars, history
  <2> QED
    BY <2>1, <2>2
<1>4. CASE Rotate(c) \/ RefreshFails(c)
  <2>1. CallTypeOK'
    BY <1>4, GotoTypes DEF Rotate, RefreshFails, Saving, Token
  <2>2. Ledger!LedgerTypeOK'
    <3>1. CASE UNCHANGED <<life, holder>>
      BY <3>1, LedgerSame DEF RestTypeOK
    <3>2. CASE Ledger!Close({shown[c]})
      BY <3>2, CloseTypes DEF RestTypeOK
    <3>3. ASSUME NEW j \in Jti, at[c] = "spent", Issue(j, holder[shown[c]])
          PROVE  Ledger!LedgerTypeOK'
      <4>1. holder[shown[c]] \in Phone \cup {NoOne}
        BY <3>3 DEF Issued, Showing, TypeOK, Ledger!LedgerTypeOK, Token
      <4> QED
        BY <3>3, <4>1, OpenTypes DEF Issue, RestTypeOK
    <3> QED
      BY <1>4, <3>1, <3>2, <3>3 DEF Rotate, RefreshFails
  <2>3. RestTypeOK'
    BY <1>4, <2>2 DEF Rotate, RefreshFails, Disturb, RestTypeOK, storageVars, userVars, history
  <2> QED
    BY <2>1, <2>3
<1>5. CASE Grant(c)
  <2> PICK j \in Jti : Issue(j, holder[shown[c]]) /\ got' = [got EXCEPT ![c] = j]
    BY <1>5 DEF Grant
  <2>1. CallTypeOK'
    BY <1>5, GotoTypes DEF Grant, Saving, Token
  <2>2. holder[shown[c]] \in Phone \cup {NoOne}
    BY <1>5 DEF Grant, Issued, Showing, TypeOK, Ledger!LedgerTypeOK, Token
  <2>3. Ledger!LedgerTypeOK'
    BY <2>2, OpenTypes DEF Issue, RestTypeOK
  <2>4. RestTypeOK'
    BY <1>5, <2>3 DEF Grant, RestTypeOK, storageVars, userVars, history
  <2> QED
    BY <2>1, <2>4
<1>6. CASE Save(c)
  <2>1. CallTypeOK'
    <3>1. CASE End(c)
      BY <3>1, EndTypes
    <3>2. CASE ~End(c)
      BY <1>6, <3>2, GotoTypes DEF Save, Saving, Token
    <3> QED
      BY <3>1, <3>2
  <2>2. got[c] \in Token
    BY DEF TypeOK
  <2>3. RestTypeOK'
    BY <1>6, <2>2 DEF Save, StoreAccess, StoreRefresh, RestTypeOK, Ledger!LedgerTypeOK, serverVars,
                      userVars, history
  <2> QED
    BY <2>1, <2>3
<1>7. CASE Clear(c)
  <2>1. CallTypeOK'
    <3>1. CASE End(c)
      BY <3>1, EndTypes
    <3>2. CASE ~End(c)
      BY <1>7, <3>2, GotoTypes DEF Clear, Saving, Token
    <3> QED
      BY <3>1, <3>2
  <2>2. RestTypeOK'
    BY <1>7 DEF Clear, ForgetAccess, ForgetRefresh, ReportExpiry, SignOut, RestTypeOK, Token,
                Ledger!LedgerTypeOK, serverVars, history
  <2> QED
    BY <2>1, <2>2
<1> QED
  BY <1>1, <1>2, <1>3, <1>4, <1>5, <1>6, <1>7

(* Every action keeps every variable in its type. *)
LEMMA TypeStep == TypeOK /\ Issued /\ [Next]_vars => TypeOK'
<1> SUFFICES ASSUME TypeOK, Issued, [Next]_vars PROVE TypeOK'
  OBVIOUS
<1> USE TypeParts, NextTypeParts
<1>1. ASSUME UNCHANGED callVars PROVE CallTypeOK'
  BY <1>1 DEF CallTypeOK, callVars
<1>2. ASSUME NEW p \in Phone, Login(p) PROVE TypeOK'
  <2> PICK j \in Jti : Issue(j, p) /\ ((flow' = "save access" /\ fresh' = j) \/ UNCHANGED <<flow, fresh>>)
    BY <1>2 DEF Login
  <2>1. Ledger!LedgerTypeOK'
    BY OpenTypes DEF Issue, RestTypeOK
  <2>2. RestTypeOK'
    BY <1>2, <2>1 DEF Login, RestTypeOK, Saving, Token, storageVars, history
  <2> QED
    BY <1>1, <1>2, <2>2 DEF Login
<1>3. CASE PersistLogin
  <2>1. fresh \in Jti => holder[fresh] \in Phone \cup {NoOne}
    BY DEF RestTypeOK, Ledger!LedgerTypeOK
  <2>2. RestTypeOK'
    BY <1>3, <2>1 DEF PersistLogin, StoreAccess, StoreRefresh, RestTypeOK, Saving, Token,
                      Ledger!LedgerTypeOK, serverVars, history
  <2> QED
    BY <1>1, <1>3, <2>2 DEF PersistLogin
<1>4. CASE StartLogout \/ Logout
  <2>1. RestTypeOK'
    BY <1>4 DEF StartLogout, Logout, Disturb, ForgetAccess, ForgetRefresh, SignOut, RestTypeOK,
                Saving, Token, Ledger!LedgerTypeOK, serverVars, storageVars, history
  <2> QED
    BY <1>1, <1>4, <2>1 DEF StartLogout, Logout
<1>5. CASE Restart
  <2>1. CallTypeOK'
    BY <1>5 DEF Restart, CallTypeOK, Token
  <2>2. RestTypeOK'
    BY <1>5 DEF Restart, Disturb, RestTypeOK, Token, Ledger!LedgerTypeOK, serverVars, storageVars
  <2> QED
    BY <2>1, <2>2
<1>6. CASE Restore
  <2>1. access \in Jti => holder[access] \in Phone \cup {NoOne}
    BY DEF RestTypeOK, Ledger!LedgerTypeOK
  <2>2. RestTypeOK'
    BY <1>6, <2>1 DEF Restore, SignOut, RestTypeOK, Token, Ledger!LedgerTypeOK, serverVars,
                      storageVars, history
  <2> QED
    BY <1>1, <1>6, <2>2 DEF Restore
<1>7. ASSUME NEW j \in Jti, ExpireAccess(j) PROVE TypeOK'
  <2>1. RestTypeOK'
    BY <1>7 DEF ExpireAccess, RestTypeOK, Ledger!LedgerTypeOK, storageVars, userVars, history
  <2> QED
    BY <1>1, <1>7, <2>1 DEF ExpireAccess
<1>8. ASSUME NEW j \in Jti, EndSession(j) PROVE TypeOK'
  <2>1. Ledger!LedgerTypeOK'
    BY <1>8, CloseTypes DEF EndSession, RestTypeOK
  <2>2. RestTypeOK'
    BY <1>8, <2>1 DEF EndSession, Disturb, RestTypeOK, storageVars, userVars
  <2> QED
    BY <1>1, <1>8, <2>2 DEF EndSession
<1>9. CASE UNCHANGED vars
  <2>1. RestTypeOK'
    BY <1>9 DEF vars, RestTypeOK, Ledger!LedgerTypeOK
  <2> QED
    BY <1>1, <1>9, <2>1 DEF vars, callVars
<1> QED
  BY <1>2, <1>3, <1>4, <1>5, <1>6, <1>7, <1>8, <1>9, CallTypes DEF Next

-----------------------------------------------------------------------------
(* A token never returns to be unborn, so what has been issued stays so. *)
LEMMA LifeGoesOn ==
  ASSUME TypeOK, [Next]_vars, NEW j \in Jti, life[j] # "unborn"
  PROVE  life'[j] # "unborn"
<1> USE DEF TypeOK, Ledger!LedgerTypeOK
<1>1. ASSUME NEW J, Ledger!Close(J) PROVE life'[j] # "unborn"
  BY <1>1 DEF Ledger!Close
<1>2. ASSUME NEW i \in Jti, NEW p, Issue(i, p) PROVE life'[j] # "unborn"
  BY <1>2 DEF Issue, Ledger!Open
<1>3. ASSUME UNCHANGED life PROVE life'[j] # "unborn"
  BY <1>3
<1>4. ASSUME NEW c \in Call,
             Send(c) \/ Respond(c) \/ Unreachable(c) \/ ReadRefresh(c) \/ Rotate(c)
               \/ Grant(c) \/ RefreshFails(c) \/ Save(c) \/ Clear(c)
      PROVE  life'[j] # "unborn"
  BY <1>1, <1>2, <1>3, <1>4 DEF Send, Respond, Unreachable, ReadRefresh, Rotate, Grant, RefreshFails,
     Save, Clear, serverVars
<1> QED
  BY <1>1, <1>2, <1>3, <1>4 DEF Next, Login, PersistLogin, StartLogout, Logout, Restart, Restore,
     ExpireAccess, EndSession, serverVars, vars

(* Tokens come into the storage, and on their way, as the server issues them *)
(* or from where they were already.                                          *)
LEMMA BornStays ==
  ASSUME TypeOK, [Next]_vars, NEW x \in Token, x # NoToken => life[x] # "unborn"
  PROVE  x # NoToken => life'[x] # "unborn"
BY LifeGoesOn DEF Token

CallStep(c) ==
  \/ Send(c) \/ Respond(c) \/ Unreachable(c) \/ ReadRefresh(c) \/ Rotate(c)
  \/ Grant(c) \/ RefreshFails(c) \/ Save(c) \/ Clear(c)

LEMMA StorageFrom ==
  ASSUME [Next]_vars
  PROVE  /\ access' \in {access, fresh, NoToken} \/ \E c \in Call : access' = got[c]
         /\ refresh' \in {refresh, fresh, NoToken} \/ \E c \in Call : refresh' = got[c]
<1>1. ASSUME NEW c \in Call, CallStep(c)
      PROVE  access' \in {access, got[c], NoToken} /\ refresh' \in {refresh, got[c], NoToken}
  BY <1>1 DEF CallStep, Send, Respond, Unreachable, ReadRefresh, Rotate, Grant, RefreshFails, Save,
     Clear, StoreAccess, StoreRefresh, ForgetAccess, ForgetRefresh, storageVars
<1>2. ASSUME ~\E c \in Call : CallStep(c)
      PROVE  access' \in {access, fresh, NoToken} /\ refresh' \in {refresh, fresh, NoToken}
  BY <1>2 DEF Next, CallStep, Login, PersistLogin, StartLogout, Logout, Restart, Restore, ExpireAccess,
     EndSession, StoreAccess, StoreRefresh, ForgetAccess, ForgetRefresh, storageVars, vars
<1> QED
  BY <1>1, <1>2

LEMMA FreshFrom ==
  ASSUME TypeOK, [Next]_vars
  PROVE  fresh' \in {fresh, NoToken} \/ (fresh' \in Jti /\ life'[fresh'] = "live")
<1>1. ASSUME NEW p \in Phone, Login(p)
      PROVE  fresh' \in {fresh, NoToken} \/ (fresh' \in Jti /\ life'[fresh'] = "live")
  <2> PICK j \in Jti : Issue(j, p) /\ ((flow' = "save access" /\ fresh' = j) \/ UNCHANGED <<flow, fresh>>)
    BY <1>1 DEF Login
  <2>1. life'[j] = "live"
    BY DEF Issue, Ledger!Open, TypeOK, Ledger!LedgerTypeOK
  <2> QED
    BY <2>1
<1>2. ASSUME ~\E p \in Phone : Login(p) PROVE fresh' \in {fresh, NoToken}
  BY <1>2 DEF Next, Send, Respond, Unreachable, ReadRefresh, Rotate, Grant, RefreshFails, Save, Clear,
     PersistLogin, StartLogout, Logout, Restart, Restore, ExpireAccess, EndSession, userVars, vars
<1> QED
  BY <1>1, <1>2

(* What a step does to the calls: it leaves a call as it was or ends it, or  *)
(* takes it on.                                                              *)
Same(c) ==
  /\ at'[c] = at[c] /\ held'[c] = held[c] /\ shown'[c] = shown[c] /\ got'[c] = got[c]

Ended(c) ==
  /\ at'[c] = "idle" /\ held'[c] = NoToken /\ shown'[c] = NoToken /\ got'[c] = NoToken

LEMMA OthersSame ==
  ASSUME TypeOK, NEW c \in Call, CallStep(c), NEW d \in Call, d # c
  PROVE  Same(d)
<1>1. at'[d] = at[d]
  BY DEF TypeOK, CallStep, Send, Respond, Unreachable, ReadRefresh, Rotate, Grant, RefreshFails, Save,
     Clear, End, Goto
<1>2. held'[d] = held[d]
  BY DEF TypeOK, CallStep, Send, Respond, Unreachable, ReadRefresh, Rotate, Grant, RefreshFails, Save,
     Clear, End
<1>3. shown'[d] = shown[d]
  BY DEF TypeOK, CallStep, Send, Respond, Unreachable, ReadRefresh, Rotate, Grant, RefreshFails, Save,
     Clear, End
<1>4. got'[d] = got[d]
  BY DEF TypeOK, CallStep, Send, Respond, Unreachable, ReadRefresh, Rotate, Grant, RefreshFails, Save,
     Clear, End
<1> QED
  BY <1>1, <1>2, <1>3, <1>4 DEF Same

LEMMA EndEnds == ASSUME TypeOK, NEW c \in Call, End(c) PROVE Ended(c)
BY DEF TypeOK, End, Goto, Ended

LEMMA RestLeavesCalls ==
  ASSUME [Next]_vars, ~\E c \in Call : CallStep(c), NEW d \in Call
  PROVE  Same(d) \/ (Restart /\ Ended(d))
<1>1. CASE Restart
  <2> PICK killed \in {Call, Call \ Background} :
        /\ at' = [c \in Call |-> IF c \in killed THEN "idle" ELSE at[c]]
        /\ held' = [c \in Call |-> IF c \in killed THEN NoToken ELSE held[c]]
        /\ shown' = [c \in Call |-> IF c \in killed THEN NoToken ELSE shown[c]]
        /\ got' = [c \in Call |-> IF c \in killed THEN NoToken ELSE got[c]]
    BY <1>1 DEF Restart
  <2> QED
    BY <1>1 DEF Same, Ended
<1>2. CASE ~Restart
  BY <1>2 DEF Next, CallStep, Same, Login, PersistLogin, StartLogout, Logout, Restore, ExpireAccess,
     EndSession, callVars, vars
<1> QED
  BY <1>1, <1>2

(* Where a call's tokens come from: it shows the stored token, and gets one  *)
(* the server has just opened for the same account.                          *)
LEMMA CallFrom ==
  ASSUME TypeOK, Issued, NEW c \in Call, CallStep(c)
  PROVE  /\ shown'[c] \in {shown[c], refresh, NoToken}
         /\ got'[c] \in {got[c], NoToken} \/ (got'[c] \in Jti /\ life'[got'[c]] = "live")
         /\ at'[c] \in {"rotate", "spent"} => shown'[c] # NoToken
         /\ at'[c] \in {"save access", "save refresh"} => got'[c] # NoToken
<1> USE DEF TypeOK, Ledger!LedgerTypeOK
<1>1. CASE End(c)
  BY <1>1, EndEnds DEF Ended
<1>2. CASE Grant(c)
  <2> PICK j \in Jti : Issue(j, holder[shown[c]]) /\ got' = [got EXCEPT ![c] = j]
    BY <1>2 DEF Grant
  <2>1. life'[j] = "live" /\ got'[c] = j /\ j # NoToken
    BY ClientAssumption DEF Issue, Ledger!Open
  <2> QED
    BY <1>2, <2>1 DEF Grant, Goto
<1>3. CASE ReadRefresh(c)
  BY <1>1, <1>3 DEF ReadRefresh, Goto
<1>4. CASE Send(c) \/ Respond(c) \/ Unreachable(c)
  BY <1>1, <1>4 DEF Send, Respond, Unreachable, Goto
<1>5. CASE Rotate(c) \/ RefreshFails(c)
  BY <1>5 DEF Rotate, RefreshFails, Goto, Issued, Showing
<1>6. CASE Save(c)
  BY <1>1, <1>6 DEF Save, Goto, Issued, Storing
<1>7. CASE Clear(c)
  BY <1>1, <1>7 DEF Clear, Goto
<1> QED
  BY <1>2, <1>3, <1>4, <1>5, <1>6, <1>7 DEF CallStep

LEMMA IssuedStep == TypeOK /\ Issued /\ [Next]_vars => Issued'
<1> SUFFICES ASSUME TypeOK, Issued, [Next]_vars PROVE Issued'
  OBVIOUS
<1>1. ASSUME NEW x \in Token, Born(x) PROVE x # NoToken => life'[x] # "unborn"
  BY <1>1, BornStays DEF Born
<1>2. access \in Token /\ refresh \in Token /\ fresh \in Token /\ NoToken \in Token
  BY DEF TypeOK, Token
<1>3. \A c \in Call : shown[c] \in Token /\ got[c] \in Token
  BY DEF TypeOK
<1>4. Born(NoToken) /\ Born(access) /\ Born(refresh) /\ Born(fresh)
  BY DEF Issued, Born
<1>5. \A c \in Call : Born(shown[c]) /\ Born(got[c])
  BY DEF Issued
<1>6. Born(access)' /\ Born(refresh)'
  BY <1>1, <1>2, <1>3, <1>4, <1>5, StorageFrom DEF Born
<1>7. Born(fresh)'
  BY <1>1, <1>2, <1>4, FreshFrom DEF Born
<1>8. ASSUME NEW c \in Call
      PROVE  /\ Showing(c)' => shown'[c] # NoToken
             /\ Storing(c)' => got'[c] # NoToken
             /\ Born(shown[c])' /\ Born(got[c])'
  <2>1. CASE CallStep(c)
    BY <1>1, <1>2, <1>3, <1>4, <1>5, <2>1, CallFrom DEF Showing, Storing, Born
  <2>2. CASE Same(c)
    <3>1. Born(shown[c])' /\ Born(got[c])'
      BY <1>1, <1>3, <1>5, <2>2 DEF Same, Born
    <3> QED
      BY <2>2, <3>1 DEF Same, Showing, Storing, Issued
  <2>3. CASE Ended(c)
    BY <2>3 DEF Ended, Showing, Storing, Born
  <2> QED
    BY <2>1, <2>2, <2>3, OthersSame, RestLeavesCalls
<1> QED
  BY <1>6, <1>7, <1>8 DEF Issued

-----------------------------------------------------------------------------
(* The flows keep to the status. *)
LEMMA CallStatus ==
  ASSUME NEW c \in Call, CallStep(c)
  PROVE  /\ flow' = flow /\ fresh' = fresh /\ account' = account
         /\ status' = status \/ (status = "in" /\ status' = "out")
BY DEF CallStep, Send, Respond, Unreachable, ReadRefresh, Rotate, Grant, RefreshFails, Save, Clear,
   ReportExpiry, SignOut, userVars

LEMMA FlowStep == TypeOK /\ FlowShape /\ [Next]_vars => FlowShape'
<1> SUFFICES ASSUME TypeOK, FlowShape, [Next]_vars PROVE FlowShape'
  OBVIOUS
<1> USE DEF FlowShape
<1>1. ASSUME NEW c \in Call, CallStep(c) PROVE FlowShape'
  BY <1>1, CallStatus
<1>2. ASSUME NEW p \in Phone, Login(p) PROVE FlowShape'
  BY <1>2, ClientAssumption DEF Login
<1>3. CASE PersistLogin
  BY <1>3 DEF PersistLogin
<1>4. CASE StartLogout \/ Logout
  BY <1>4 DEF StartLogout, Logout, SignOut
<1>5. CASE Restart \/ Restore
  BY <1>5 DEF Restart, Restore, SignOut
<1>6. ASSUME NEW j \in Jti, ExpireAccess(j) \/ EndSession(j) PROVE FlowShape'
  BY <1>6 DEF ExpireAccess, EndSession, userVars
<1>7. CASE UNCHANGED vars
  BY <1>7 DEF vars
<1> QED
  BY <1>1, <1>2, <1>3, <1>4, <1>5, <1>6, <1>7 DEF Next, CallStep

-----------------------------------------------------------------------------
(* A step after which nothing has been disturbed. *)
LEMMA DisturbedStays == ASSUME [Next]_vars, disturbed PROVE disturbed'
<1>1. ASSUME NEW c \in Call, CallStep(c) PROVE disturbed'
  BY <1>1 DEF CallStep, Send, Respond, Unreachable, ReadRefresh, Rotate, Grant, RefreshFails, Save,
     Clear, ReportExpiry, SignOut, Disturb, history
<1>2. ASSUME ~\E c \in Call : CallStep(c) PROVE disturbed'
  BY <1>2 DEF Next, CallStep, Login, PersistLogin, StartLogout, Logout, SignOut, Restart, Restore,
     ExpireAccess, EndSession, Disturb, history, vars
<1> QED
  BY <1>1, <1>2

(* Steps of calls that do not refresh, before or after, change nothing. *)
LEMMA CalmKept ==
  ASSUME TypeOK, Underway, AtRest,
         UNCHANGED <<life, access, refresh, status, flow, fresh>>,
         \A d \in Call : Same(d) \/ ~(Refreshing(d) \/ Refreshing(d)')
  PROVE  Underway' /\ AtRest'
<1>1. \A d \in Call : Refreshing(d)' <=> Refreshing(d)
  BY DEF Same, Refreshing
<1>2. \A d \in Call : (Storing(d) \/ Showing(d) => Refreshing(d)) /\ ((Storing(d) \/ Showing(d))' => Refreshing(d)')
  BY DEF Storing, Showing, Refreshing, Saving
<1>3. \A d \in Call : Refreshing(d) => at'[d] = at[d] /\ shown'[d] = shown[d] /\ got'[d] = got[d]
  BY DEF Same
<1>4. \A d \in Call : (Storing(d)' <=> Storing(d)) /\ (Showing(d)' <=> Showing(d))
  BY <1>1, <1>2, <1>3 DEF Storing, Showing
<1>5. ASSUME NEW c \in Call, Refreshing(c)' PROVE Calm(c)' /\ Renewed'
  <2>1. Refreshing(c) /\ Calm(c) /\ Renewed
    BY <1>1, <1>5 DEF Underway
  <2>2. Renewed'
    <3>1. ASSUME NEW d \in Call, at[d] = "spent" \/ Storing(d) PROVE at'[d] = "spent" \/ Storing(d)'
      BY <1>2, <1>3, <1>4, <3>1 DEF Showing
    <3> QED
      BY <2>1, <3>1 DEF Renewed
  <2> QED
    BY <1>3, <2>1, <2>2 DEF Calm
<1>6. ASSUME NEW c \in Call, Storing(c)' PROVE Pending(c)'
  <2>1. Storing(c) /\ Pending(c) /\ got'[c] = got[c]
    BY <1>2, <1>3, <1>4, <1>6 DEF Underway
  <2>2. \A d \in Call : Showing(d)' => shown'[d] # got'[c]
    BY <1>2, <1>3, <1>4, <2>1 DEF Pending
  <2>3. \A d \in Call \ {c} : Storing(d)' => got'[d] # got'[c]
    BY <1>2, <1>3, <1>4, <2>1 DEF Pending
  <2> QED
    BY <2>1, <2>2, <2>3 DEF Pending
<1>7. AtRest'
  BY <1>1 DEF AtRest, Whole, Bare
<1> QED
  BY <1>5, <1>6, <1>7 DEF Underway

(* A step of one refreshing call, the others standing where they were. *)
LEMMA UnderwayKept ==
  ASSUME TypeOK, Underway, NEW c \in Call, CallStep(c),
         flow' = "none", status' = "in", access' # NoToken, refresh' # NoToken, Renewed',
         at'[c] \notin {"clear access", "clear refresh"},
         \A d \in Call : Storing(d)' => Pending(d)',
         (\A d \in Call : ~Refreshing(d)') => Whole'
  PROVE  Underway' /\ AtRest'
<1>1. ASSUME NEW d \in Call, Refreshing(d)' PROVE Calm(d)'
  <2>1. CASE d = c
    BY <2>1 DEF Calm
  <2>2. CASE d # c
    <3>1. at'[d] = at[d]
      BY <2>2, OthersSame DEF Same
    <3>2. Refreshing(d)
      BY <1>1, <3>1 DEF Refreshing
    <3> QED
      BY <3>1, <3>2 DEF Underway, Calm
  <2> QED
    BY <2>1, <2>2
<1>2. AtRest'
  BY DEF AtRest, Saving
<1> QED
  BY <1>1, <1>2 DEF Underway

LEMMA KeptByCall ==
  ASSUME TypeOK, Issued, FlowShape, Underway, AtRest, NEW c \in Call, CallStep(c), ~disturbed'
  PROVE  Underway' /\ AtRest'
<1> USE DEF TypeOK, Ledger!LedgerTypeOK
<1>1. \A d \in Call \ {c} : Same(d)
  BY OthersSame
<1>2. \A d \in Call \ {c} :
        /\ at'[d] = at[d] /\ shown'[d] = shown[d] /\ got'[d] = got[d]
        /\ (Storing(d)' <=> Storing(d)) /\ (Showing(d)' <=> Showing(d))
        /\ (Refreshing(d)' <=> Refreshing(d))
  BY <1>1 DEF Same, Storing, Showing, Refreshing
<1>3. CASE Send(c) \/ Respond(c) \/ Unreachable(c)
  <2>1. ~Refreshing(c) /\ ~Refreshing(c)'
    BY <1>3 DEF Send, Respond, Unreachable, End, Goto, Refreshing, Saving
  <2>2. UNCHANGED <<life, access, refresh, status, flow, fresh>>
    BY <1>3 DEF Send, Respond, Unreachable, serverVars, storageVars, userVars
  <2> QED
    BY <1>1, <2>1, <2>2, CalmKept
<1>4. CASE ReadRefresh(c)
  <2>1. ~Refreshing(c)
    BY <1>4 DEF ReadRefresh, Refreshing, Saving
  <2>2. CASE refresh = NoToken
    <3>1. \A d \in Call : ~Refreshing(d)
      BY <2>2 DEF Underway, Calm
    <3>2. status # "in"
      BY <2>2, <3>1 DEF AtRest, Whole, FlowShape, Saving
    <3>3. End(c) /\ UNCHANGED <<life, access, refresh, status, flow, fresh>>
      BY <1>4, <2>2, <3>2 DEF ReadRefresh, ReportExpiry, serverVars, storageVars
    <3>4. ~Refreshing(c)'
      BY <3>3 DEF End, Goto, Refreshing, Saving
    <3> QED
      BY <1>1, <2>1, <3>3, <3>4, CalmKept
  <2>3. CASE refresh # NoToken
    <3>1. flow = "none"
      BY <1>4, <2>3 DEF ReadRefresh, Disturb
    <3>2. at'[c] = "rotate" /\ shown'[c] = refresh
      BY <1>4, <2>3 DEF ReadRefresh, Goto
    <3>3. UNCHANGED <<life, access, refresh, status, flow>>
      BY <1>4, <2>3 DEF ReadRefresh, serverVars, storageVars
    <3>4. status = "in" /\ access # NoToken /\ Renewed
      BY <2>3, <3>1 DEF Underway, Calm, AtRest, Whole, Bare, Renewed
    <3>5. Refreshing(c)' /\ ~Storing(c)' /\ ~Storing(c) /\ at[c] # "spent"
      BY <2>1, <3>2 DEF Refreshing, Storing, Saving
    <3>6. Renewed'
      BY <1>2, <3>3, <3>4, <3>5 DEF Renewed
    <3>7. ASSUME NEW d \in Call, Storing(d)' PROVE Pending(d)'
      <4>1. d # c /\ Pending(d) /\ got'[d] = got[d]
        BY <1>2, <3>5, <3>7 DEF Underway
      <4> QED
        BY <1>2, <3>2, <3>3, <3>5, <4>1 DEF Pending
    <3> QED
      BY <2>3, <3>1, <3>2, <3>3, <3>4, <3>5, <3>6, <3>7, UnderwayKept
  <2> QED
    BY <2>2, <2>3
<1>5. ASSUME Refreshing(c)
      PROVE  /\ flow = "none" /\ status = "in" /\ access # NoToken /\ refresh # NoToken
             /\ at[c] \notin {"clear access", "clear refresh"}
  BY <1>5 DEF Underway, Calm
<1>6. CASE Rotate(c)
  <2>1. at[c] = "rotate" /\ at'[c] = "spent"
    BY <1>6 DEF Rotate, Goto, Disturb
  <2>2. Refreshing(c) /\ Refreshing(c)' /\ Showing(c) /\ ~Storing(c)'
    BY <2>1 DEF Refreshing, Showing, Storing
  <2>3. UNCHANGED <<access, refresh, status, flow, shown, got>>
    BY <1>6 DEF Rotate, storageVars, userVars
  <2>4. \A j \in Jti : j # shown[c] => life'[j] = life[j]
    BY <1>6 DEF Rotate, Ledger!Close
  <2>5. ASSUME NEW d \in Call, Storing(d)' PROVE Pending(d)'
    <3>1. d # c /\ Storing(d) /\ Pending(d)
      BY <1>2, <2>2, <2>5 DEF Underway
    <3>2. got[d] \in Jti /\ got[d] # shown[c]
      BY <2>2, <3>1 DEF Pending, Issued, Token
    <3>3. \A e \in Call : Showing(e)' => Showing(e)
      BY <1>2, <2>2
    <3>4. \A e \in Call : Storing(e)' => Storing(e)
      BY <1>2, <2>2
    <3> QED
      BY <2>3, <2>4, <3>1, <3>2, <3>3, <3>4 DEF Pending
  <2>6. Renewed'
    BY <2>1 DEF Renewed
  <2> QED
    BY <1>5, <2>1, <2>2, <2>3, <2>5, <2>6, UnderwayKept
<1>7. CASE Grant(c)
  <2>1. Refreshing(c) /\ at'[c] = "save access" /\ Refreshing(c)' /\ Storing(c)'
    BY <1>7 DEF Grant, Goto, Refreshing, Saving, Storing
  <2> PICK j \in Jti : Issue(j, holder[shown[c]]) /\ got' = [got EXCEPT ![c] = j]
    BY <1>7 DEF Grant
  <2>2. life[j] = "unborn" /\ life'[j] = "live" /\ got'[c] = j
    BY DEF Issue, Ledger!Open
  <2>3. \A i \in Jti : i # j => life'[i] = life[i]
    BY DEF Issue, Ledger!Open
  <2>4. UNCHANGED <<access, refresh, status, flow, shown>>
    BY <1>7 DEF Grant, storageVars, userVars
  <2>5. refresh # j /\ \A d \in Call : (Showing(d) => shown[d] # j) /\ (Storing(d) => got[d] # j)
    BY <2>2, ClientAssumption DEF Issued, Born
  <2>6. \A d \in Call : Showing(d)' => Showing(d)
    BY <1>2, <2>1 DEF Showing
  <2>7. ASSUME NEW d \in Call, Storing(d)' PROVE Pending(d)'
    <3>1. CASE d = c
      BY <1>2, <2>2, <2>4, <2>5, <2>6, <3>1 DEF Pending
    <3>2. CASE d # c
      <4>1. Storing(d) /\ Pending(d) /\ got'[d] = got[d]
        BY <1>2, <2>7, <3>2 DEF Underway
      <4>2. life'[got[d]] = "live"
        BY <2>3, <2>5, <4>1 DEF Pending, Issued, Token
      <4> QED
        BY <1>2, <2>2, <2>4, <2>5, <2>6, <4>1, <4>2 DEF Pending
    <3> QED
      BY <3>1, <3>2
  <2>8. Renewed'
    BY <2>1 DEF Renewed
  <2> QED
    BY <1>5, <2>1, <2>4, <2>7, <2>8, UnderwayKept
<1>8. CASE RefreshFails(c)
  BY <1>8 DEF RefreshFails, Disturb
<1>9. CASE Save(c)
  <2>1. Refreshing(c) /\ Storing(c) /\ got[c] # NoToken /\ Pending(c) /\ ~Showing(c)'
    BY <1>9 DEF Save, Goto, End, Refreshing, Saving, Storing, Showing, Issued, Underway
  <2>2. UNCHANGED <<life, status, flow, fresh>>
    BY <1>9 DEF Save, serverVars, userVars
  <2>3. CASE at[c] = "save access"
    <3>1. access' = got[c] /\ refresh' = refresh /\ UNCHANGED <<got, shown>> /\ at'[c] = "save refresh"
      BY <1>9, <2>3 DEF Save, StoreAccess, Goto
    <3>2. Storing(c)' /\ Refreshing(c)' /\ Renewed'
      BY <3>1 DEF Storing, Refreshing, Saving, Renewed
    <3>3. ASSUME NEW d \in Call, Storing(d)' PROVE Pending(d)'
      <4>1. Pending(d)
        BY <1>2, <2>1, <3>3 DEF Underway
      <4>2. \A e \in Call : (Showing(e)' => Showing(e)) /\ (Storing(e)' => Storing(e))
        BY <1>2, <2>1
      <4> QED
        BY <2>2, <3>1, <4>1, <4>2 DEF Pending
    <3> QED
      BY <1>5, <2>1, <2>2, <3>1, <3>2, <3>3, UnderwayKept
  <2>4. CASE at[c] = "save refresh"
    <3>1. access' = access /\ refresh' = got[c] /\ at'[c] = "idle"
      BY <1>9, <2>4 DEF Save, StoreRefresh, End, Goto
    <3>2. Whole' /\ Renewed' /\ ~Storing(c)'
      BY <1>5, <2>1, <2>2, <3>1 DEF Pending, Whole, Renewed, Storing
    <3>3. ASSUME NEW d \in Call, Storing(d)' PROVE Pending(d)'
      <4>1. d # c /\ Storing(d) /\ Pending(d) /\ got'[d] = got[d]
        BY <1>2, <3>2, <3>3 DEF Underway
      <4>2. got[d] # got[c]
        BY <2>1, <4>1 DEF Pending
      <4> QED
        BY <1>2, <2>1, <2>2, <3>1, <3>2, <4>1, <4>2 DEF Pending
    <3> QED
      BY <1>5, <2>1, <2>2, <3>1, <3>2, <3>3, UnderwayKept DEF Whole
  <2> QED
    BY <1>9, <2>3, <2>4 DEF Save
<1>10. CASE Clear(c)
  BY <1>5, <1>10 DEF Clear, Refreshing, Saving
<1> QED
  BY <1>3, <1>4, <1>6, <1>7, <1>8, <1>9, <1>10 DEF CallStep

LEMMA KeptStep == TypeOK /\ Issued /\ FlowShape /\ Kept /\ [Next]_vars => Kept'
<1> SUFFICES ASSUME TypeOK, Issued, FlowShape, Kept, [Next]_vars, ~disturbed'
             PROVE  Underway' /\ AtRest'
  BY DEF Kept
<1> Underway /\ AtRest
  BY DisturbedStays DEF Kept
<1> USE DEF TypeOK, Ledger!LedgerTypeOK
<1>1. ASSUME NEW c \in Call, CallStep(c) PROVE Underway' /\ AtRest'
  BY <1>1, KeptByCall
<1>2. ASSUME UNCHANGED callVars PROVE \A d \in Call : Same(d) /\ (Refreshing(d)' <=> Refreshing(d))
  BY <1>2 DEF callVars, Same, Refreshing
<1>3. ASSUME flow # "none" \/ status # "in" PROVE \A d \in Call : ~Refreshing(d)
  BY <1>3 DEF Underway, Calm
<1>4. ASSUME \A d \in Call : ~Refreshing(d)', AtRest' PROVE Underway' /\ AtRest'
  <2>1. \A d \in Call : ~Storing(d)'
    BY <1>4 DEF Storing, Refreshing, Saving
  <2> QED
    BY <1>4, <2>1 DEF Underway
<1>5. ASSUME NEW p \in Phone, Login(p) PROVE Underway' /\ AtRest'
  <2>1. status = "out" /\ flow = "none" /\ Bare
    BY <1>3, <1>5 DEF Login, AtRest
  <2> PICK j \in Jti : Issue(j, p) /\ ((flow' = "save access" /\ fresh' = j) \/ UNCHANGED <<flow, fresh>>)
    BY <1>5 DEF Login
  <2>2. life'[j] = "live" /\ UNCHANGED <<access, refresh, status, callVars>>
    BY <1>5 DEF Login, Issue, Ledger!Open, storageVars
  <2>3. AtRest'
    BY <2>1, <2>2 DEF AtRest, Bare
  <2> QED
    BY <1>2, <1>3, <1>4, <2>1, <2>2, <2>3
<1>6. CASE PersistLogin
  <2>1. \A d \in Call : ~Refreshing(d)
    BY <1>3, <1>6 DEF PersistLogin
  <2>2. CASE flow = "save access"
    <3>1. access' = fresh /\ refresh' = NoToken /\ flow' = "save refresh"
      BY <1>6, <2>1, <2>2 DEF PersistLogin, StoreAccess, AtRest, Bare
    <3>2. fresh # NoToken /\ life[fresh] = "live" /\ UNCHANGED <<life, fresh>>
      BY <1>6, <2>1, <2>2 DEF PersistLogin, FlowShape, AtRest, serverVars
    <3>3. AtRest'
      BY <3>1, <3>2 DEF AtRest
    <3> QED
      BY <1>2, <1>4, <1>6, <2>1, <3>3 DEF PersistLogin
  <2>3. CASE flow = "save refresh"
    <3>1. access' # NoToken /\ refresh' = fresh /\ flow' = "none" /\ status' = "in"
      BY <1>6, <2>1, <2>3 DEF PersistLogin, StoreRefresh, AtRest
    <3>2. fresh # NoToken /\ life[fresh] = "live" /\ UNCHANGED life
      BY <1>6, <2>1, <2>3 DEF PersistLogin, AtRest, serverVars
    <3>3. AtRest'
      BY <3>1, <3>2 DEF AtRest, Whole
    <3> QED
      BY <1>2, <1>4, <1>6, <2>1, <3>3 DEF PersistLogin
  <2> QED
    BY <1>6, <2>2, <2>3 DEF PersistLogin
<1>7. CASE StartLogout
  <2>1. \A d \in Call : ~Refreshing(d)
    BY <1>7 DEF StartLogout, Disturb
  <2>2. AtRest'
    BY <1>7, <2>1 DEF StartLogout, AtRest, Whole, serverVars, storageVars
  <2> QED
    BY <1>2, <1>4, <1>7, <2>1, <2>2 DEF StartLogout
<1>8. CASE Logout
  <2>1. \A d \in Call : ~Refreshing(d)
    BY <1>3, <1>8 DEF Logout
  <2>2. AtRest'
    BY <1>8, <2>1 DEF Logout, ForgetAccess, ForgetRefresh, SignOut, AtRest, Bare, serverVars
  <2> QED
    BY <1>2, <1>4, <1>8, <2>1, <2>2 DEF Logout
<1>9. CASE Restart
  <2>1. flow = "none" /\ \A d \in Call : ~Refreshing(d)
    BY <1>9 DEF Restart, Disturb
  <2>2. \A d \in Call : ~Refreshing(d)'
    <3>1. \A d \in Call : at'[d] = "idle" \/ at'[d] = at[d]
      BY <1>9 DEF Restart
    <3> QED
      BY <2>1, <3>1 DEF Refreshing, Saving
  <2>3. flow' = "restore" /\ UNCHANGED <<life, access, refresh>>
    BY <1>9 DEF Restart, serverVars, storageVars
  <2>4. AtRest'
    BY <2>1, <2>3 DEF AtRest, Bare, Whole
  <2> QED
    BY <1>4, <2>2, <2>4
<1>10. CASE Restore
  <2>1. flow = "restore" /\ \A d \in Call : ~Refreshing(d)
    BY <1>3, <1>10 DEF Restore
  <2>2. AtRest'
    BY <1>10, <2>1 DEF Restore, SignOut, AtRest, Bare, Whole, serverVars, storageVars
  <2> QED
    BY <1>2, <1>4, <1>10, <2>1, <2>2 DEF Restore
<1>11. ASSUME NEW j \in Jti, ExpireAccess(j) PROVE Underway' /\ AtRest'
  BY <1>2, <1>11, CalmKept DEF ExpireAccess, storageVars, userVars
<1>12. ASSUME NEW j \in Jti, EndSession(j) PROVE Underway' /\ AtRest'
  BY <1>12 DEF EndSession, Disturb
<1>13. CASE UNCHANGED vars
  BY <1>2, <1>13, CalmKept DEF vars, callVars
<1> QED
  BY <1>1, <1>5, <1>6, <1>7, <1>8, <1>9, <1>10, <1>11, <1>12, <1>13 DEF Next, CallStep

-----------------------------------------------------------------------------
(* A step without a leak. *)
LEMMA LeakedStays == ASSUME [Next]_vars, leaked PROVE leaked'
<1>1. ASSUME NEW c \in Call, CallStep(c) PROVE leaked'
  BY <1>1 DEF CallStep, Send, Respond, Unreachable, ReadRefresh, Rotate, Grant, RefreshFails, Save,
     Clear, ReportExpiry, SignOut, Disturb, history
<1>2. ASSUME ~\E c \in Call : CallStep(c) PROVE leaked'
  BY <1>2 DEF Next, CallStep, Login, PersistLogin, StartLogout, Logout, SignOut, Restart, Restore,
     ExpireAccess, EndSession, Disturb, history, vars
<1> QED
  BY <1>1, <1>2

(* What is on its way has been issued, and keeps its account. *)
LEMMA OnItsWayBorn ==
  ASSUME Issued, NEW j \in Jti, OnItsWay(j)
  PROVE  life[j] # "unborn"
BY ClientAssumption DEF Issued, Born, OnItsWay

LEMMA HolderStays ==
  ASSUME TypeOK, [Next]_vars, NEW j \in Jti, life[j] # "unborn"
  PROVE  holder'[j] = holder[j]
<1> USE DEF TypeOK, Ledger!LedgerTypeOK
<1>1. ASSUME NEW J, Ledger!Close(J) PROVE holder'[j] = holder[j]
  BY <1>1 DEF Ledger!Close
<1>2. ASSUME NEW i \in Jti, NEW p, Issue(i, p) PROVE holder'[j] = holder[j]
  BY <1>2 DEF Issue, Ledger!Open
<1>3. ASSUME UNCHANGED holder PROVE holder'[j] = holder[j]
  BY <1>3
<1>4. ASSUME NEW c \in Call, CallStep(c) PROVE holder'[j] = holder[j]
  BY <1>1, <1>2, <1>3, <1>4 DEF CallStep, Send, Respond, Unreachable, ReadRefresh, Rotate, Grant,
     RefreshFails, Save, Clear, serverVars
<1> QED
  BY <1>1, <1>2, <1>3, <1>4 DEF CallStep, Next, Login, PersistLogin, StartLogout, Logout, Restart,
     Restore, ExpireAccess, EndSession, serverVars, vars

(* Once nobody is signed out, tokens come on their way only from others that *)
(* are: the same, or the one a refresh has shown, for whose account the next *)
(* is opened.                                                                *)
LEMMA CallPassesOn ==
  ASSUME TypeOK, Issued, NEW c \in Call, CallStep(c), NEW j \in Jti, OnItsWay(j)'
  PROVE  OnItsWay(j) \/ \E i \in Jti : OnItsWay(i) /\ holder'[j] = holder[i]
<1> USE DEF TypeOK, Ledger!LedgerTypeOK
<1>1. ASSUME NEW d \in Call, d # c, (Showing(d)' /\ shown'[d] = j) \/ (Storing(d)' /\ got'[d] = j)
      PROVE  OnItsWay(j)
  BY <1>1, OthersSame DEF Same, Showing, Storing, OnItsWay
<1>2. ASSUME Same(c) \/ Ended(c), UNCHANGED storageVars PROVE OnItsWay(j)
  BY <1>1, <1>2 DEF Same, Ended, Showing, Storing, OnItsWay, storageVars
<1>3. CASE Send(c) \/ Respond(c) \/ Unreachable(c)
  <2>1. ~Showing(c)' /\ ~Storing(c)'
    BY <1>3 DEF Send, Respond, Unreachable, End, Goto, Showing, Storing
  <2> QED
    BY <1>1, <1>3, <2>1 DEF Send, Respond, Unreachable, OnItsWay, storageVars
<1>4. CASE ReadRefresh(c)
  <2>1. CASE End(c)
    BY <1>2, <1>4, <2>1, EndEnds DEF ReadRefresh
  <2>2. CASE ~End(c)
    <3>1. shown'[c] = refresh /\ at'[c] = "rotate" /\ UNCHANGED storageVars
      BY <1>4, <2>2 DEF ReadRefresh, Goto
    <3> QED
      BY <1>1, <3>1 DEF OnItsWay, Storing, storageVars
  <2> QED
    BY <2>1, <2>2
<1>5. CASE Rotate(c) \/ RefreshFails(c)
  <2>1. UNCHANGED <<storageVars, shown, got>> /\ Showing(c) /\ ~Storing(c)'
    BY <1>5 DEF Rotate, RefreshFails, Goto, Showing, Storing
  <2> QED
    BY <1>1, <2>1 DEF OnItsWay, storageVars
<1>6. CASE Grant(c)
  <2> PICK k \in Jti : Issue(k, holder[shown[c]]) /\ got' = [got EXCEPT ![c] = k]
    BY <1>6 DEF Grant
  <2>1. Showing(c) /\ shown[c] \in Jti /\ ~Showing(c)' /\ got'[c] = k /\ UNCHANGED storageVars
    BY <1>6 DEF Grant, Goto, Showing, Issued, Token
  <2>2. holder'[k] = holder[shown[c]]
    BY DEF Issue, Ledger!Open
  <2>3. OnItsWay(shown[c])
    BY <2>1 DEF OnItsWay
  <2>4. OnItsWay(j) \/ j = k
    BY <1>1, <2>1 DEF OnItsWay, storageVars
  <2> QED
    BY <2>1, <2>2, <2>3, <2>4
<1>7. CASE Save(c)
  <2>1. Storing(c) /\ ~Showing(c)' /\ (Storing(c)' => got'[c] = got[c])
    BY <1>7 DEF Save, End, Goto, Showing, Storing
  <2>2. access' \in {access, got[c]} /\ refresh' \in {refresh, got[c]}
    BY <1>7 DEF Save, StoreAccess, StoreRefresh
  <2> QED
    BY <1>1, <2>1, <2>2 DEF OnItsWay
<1>8. CASE Clear(c)
  <2>1. ~Showing(c)' /\ ~Storing(c)'
    BY <1>8 DEF Clear, End, Goto, Showing, Storing
  <2>2. access' \in {access, NoToken} /\ refresh' \in {refresh, NoToken} /\ j # NoToken
    BY <1>8, ClientAssumption DEF Clear, ForgetAccess, ForgetRefresh
  <2> QED
    BY <1>1, <2>1, <2>2 DEF OnItsWay
<1> QED
  BY <1>3, <1>4, <1>5, <1>6, <1>7, <1>8 DEF CallStep

LEMMA PassesOn ==
  ASSUME TypeOK, Issued, FlowShape, [Next]_vars, status # "out", NEW j \in Jti, OnItsWay(j)'
  PROVE  \E i \in Jti : OnItsWay(i) /\ holder'[j] = holder[i]
<1>1. ASSUME OnItsWay(j) PROVE \E i \in Jti : OnItsWay(i) /\ holder'[j] = holder[i]
  BY <1>1, OnItsWayBorn, HolderStays
<1>2. ASSUME NEW c \in Call, CallStep(c)
      PROVE  \E i \in Jti : OnItsWay(i) /\ holder'[j] = holder[i]
  BY <1>1, <1>2, CallPassesOn
<1>3. ASSUME ~\E c \in Call : CallStep(c) PROVE OnItsWay(j)
  <2>1. access' \in {access, NoToken} /\ refresh' \in {refresh, NoToken}
    BY <1>3 DEF Next, CallStep, FlowShape, Login, PersistLogin, StartLogout, Logout, Restart, Restore,
       ExpireAccess, EndSession, ForgetAccess, ForgetRefresh, storageVars, vars
  <2>2. j # NoToken
    BY ClientAssumption
  <2>3. ASSUME NEW d \in Call, (Showing(d)' /\ shown'[d] = j) \/ (Storing(d)' /\ got'[d] = j)
        PROVE  OnItsWay(j)
    BY <1>3, <2>3, RestLeavesCalls DEF Same, Ended, Showing, Storing, OnItsWay
  <2> QED
    BY <2>1, <2>2, <2>3 DEF OnItsWay
<1> QED
  BY <1>1, <1>2, <1>3

(* Signed out, calls do not refresh. *)
LEMMA OutByCall ==
  ASSUME TypeOK, status = "out", refresh = NoToken, \A d \in Call : ~Refreshing(d),
         NEW c \in Call, CallStep(c)
  PROVE  /\ \A d \in Call : ~Refreshing(d)'
         /\ UNCHANGED <<status, access, refresh, flow, fresh>>
<1>1. ~Refreshing(c)
  OBVIOUS
<1>2. Send(c) \/ Respond(c) \/ Unreachable(c) \/ ReadRefresh(c)
  BY <1>1 DEF CallStep, Rotate, Grant, RefreshFails, Save, Clear, Refreshing, Saving
<1>3. ~Refreshing(c)'
  BY <1>2 DEF Send, Respond, Unreachable, ReadRefresh, End, Goto, Refreshing, Saving, TypeOK
<1>4. UNCHANGED <<status, access, refresh, flow, fresh>>
  BY <1>2 DEF Send, Respond, Unreachable, ReadRefresh, ReportExpiry, storageVars, userVars
<1>5. \A d \in Call \ {c} : ~Refreshing(d)'
  BY OthersSame DEF Same, Refreshing
<1> QED
  BY <1>3, <1>4, <1>5

(* A sign-out that leaks nothing leaves nothing. *)
LEMMA OutAfter ==
  ASSUME TypeOK, FlowShape, [Next]_vars, ~leaked', status # "out", status' = "out"
  PROVE  (\A d \in Call : ~Refreshing(d)') /\ access' = NoToken /\ refresh' = NoToken
<1>1. ASSUME NEW c \in Call, CallStep(c)
      PROVE  (\A d \in Call : ~Refreshing(d)') /\ access' = NoToken /\ refresh' = NoToken
  <2>1. End(c) /\ refresh' = NoToken /\ SignOut(access', Call \ {c})
    BY <1>1 DEF CallStep, Send, Respond, Unreachable, ReadRefresh, Rotate, Grant, RefreshFails, Save,
       Clear, ForgetRefresh, ReportExpiry, Disturb, userVars, storageVars
  <2>2. access' = NoToken /\ \A d \in Call \ {c} : ~Refreshing(d)
    BY <2>1 DEF SignOut
  <2>3. ~Refreshing(c)'
    BY <2>1, EndEnds DEF Ended, Refreshing, Saving
  <2>4. \A d \in Call \ {c} : ~Refreshing(d)'
    BY <1>1, <2>2, OthersSame DEF Same, Refreshing
  <2> QED
    BY <2>1, <2>2, <2>3, <2>4
<1>2. CASE Logout \/ Restore
  <2>1. refresh' = NoToken /\ SignOut(access', Call) /\ UNCHANGED callVars
    <3>1. CASE Logout
      BY <1>2, <3>1 DEF Logout, ForgetRefresh
    <3>2. CASE Restore
      BY <3>2 DEF Restore, SignOut, storageVars
    <3> QED
      BY <1>2, <3>1, <3>2
  <2> QED
    BY <2>1 DEF SignOut, callVars, Refreshing
<1> QED
  BY <1>1, <1>2 DEF Next, CallStep, Login, PersistLogin, StartLogout, Restart, ExpireAccess, EndSession,
     FlowShape, userVars, vars

(* Signed out, only a login leads to new tokens. *)
LEMMA OwnFromOut ==
  ASSUME TypeOK, Issued, FlowShape, [Next]_vars, status = "out", refresh = NoToken,
         access = IF flow = "save refresh" THEN fresh ELSE NoToken,
         \A c \in Call : ~Refreshing(c)
  PROVE  /\ \A c \in Call : ~Refreshing(c)'
         /\ status' = "out" => /\ refresh' = NoToken
                               /\ access' = IF flow' = "save refresh" THEN fresh' ELSE NoToken
         /\ status' = "in" => {access', refresh'} = {fresh} /\ account' = holder[fresh]
         /\ status' = "unknown" => {access', refresh'} \subseteq {access, NoToken}
<1>1. ASSUME NEW c \in Call, CallStep(c)
      PROVE  /\ \A d \in Call : ~Refreshing(d)'
             /\ UNCHANGED <<status, access, refresh, flow, fresh>>
  BY <1>1, OutByCall
<1>2. ASSUME UNCHANGED callVars PROVE \A c \in Call : ~Refreshing(c)'
  BY <1>2 DEF callVars, Refreshing
<1>3. ASSUME NEW p \in Phone, Login(p)
      PROVE  /\ UNCHANGED <<status, access, refresh, callVars>> /\ status' = "out"
             /\ access = NoToken /\ flow' # "save refresh"
  BY <1>3 DEF Login, storageVars
<1>4. CASE PersistLogin
  <2>1. CASE flow = "save access"
    BY <1>2, <1>4, <2>1 DEF PersistLogin, StoreAccess
  <2>2. CASE flow = "save refresh"
    BY <1>2, <1>4, <2>2 DEF PersistLogin, StoreRefresh
  <2> QED
    BY <1>4, <2>1, <2>2 DEF PersistLogin
<1>5. CASE StartLogout \/ Logout
  BY <1>2, <1>5 DEF StartLogout, Logout, ForgetAccess, ForgetRefresh, SignOut
<1>6. CASE Restart
  <2>1. \A c \in Call : ~Refreshing(c)'
    BY <1>6 DEF Restart, Refreshing, Saving
  <2> QED
    BY <1>6, <2>1 DEF Restart, storageVars
<1>7. CASE Restore
  BY <1>7 DEF Restore, FlowShape
<1>8. ASSUME NEW j \in Jti, ExpireAccess(j) \/ EndSession(j)
      PROVE  UNCHANGED <<status, access, refresh, flow, fresh, callVars>>
  BY <1>8 DEF ExpireAccess, EndSession, storageVars, userVars
<1>9. CASE UNCHANGED vars
  BY <1>2, <1>9 DEF vars, callVars
<1> QED
  BY <1>1, <1>2, <1>3, <1>4, <1>5, <1>6, <1>7, <1>8, <1>9 DEF Next, CallStep

LEMMA OwnStep == TypeOK /\ Issued /\ FlowShape /\ Own /\ [Next]_vars => Own'
<1> SUFFICES ASSUME TypeOK, Issued, FlowShape, Own, [Next]_vars, ~leaked'
             PROVE  /\ status' = "out" =>
                         /\ \A c \in Call : ~Refreshing(c)'
                         /\ refresh' = NoToken
                         /\ access' = IF flow' = "save refresh" THEN fresh' ELSE NoToken
                    /\ status' # "out" => \A i, j \in Jti : OnItsWay(i)' /\ OnItsWay(j)' => holder'[i] = holder'[j]
                    /\ status' = "in" => \A j \in Jti : OnItsWay(j)' => holder'[j] = account'
  BY DEF Own
<1>1. ~leaked
  BY LeakedStays
<1>2. CASE status = "out"
  <2> \A c \in Call : ~Refreshing(c)' /\ ~Showing(c)' /\ ~Storing(c)'
    BY <1>1, <1>2, OwnFromOut DEF Own, Refreshing, Saving, Showing, Storing
  <2>1. \A j \in Jti : OnItsWay(j)' => j \in {access', refresh'}
    BY DEF OnItsWay
  <2>2. CASE status' = "out"
    BY <1>1, <1>2, <2>2, OwnFromOut DEF Own
  <2>3. CASE status' = "in"
    <3>1. {access', refresh'} = {fresh} /\ account' = holder[fresh]
      BY <1>1, <1>2, <2>3, OwnFromOut DEF Own
    <3>2. fresh \in Jti => holder'[fresh] = holder[fresh]
      BY HolderStays, ClientAssumption DEF Issued, Born
    <3> QED
      BY <2>1, <2>3, <3>1, <3>2
  <2>4. CASE status' = "unknown"
    <3>1. {access', refresh'} \subseteq {access, NoToken}
      BY <1>1, <1>2, <2>4, OwnFromOut DEF Own
    <3> QED
      BY <2>1, <2>4, <3>1, ClientAssumption
  <2>5. status' \in {"unknown", "in", "out"}
    BY TypeStep DEF TypeOK
  <2> QED
    BY <2>2, <2>3, <2>4, <2>5
<1>3. CASE status # "out"
  <2>1. \A i, j \in Jti : OnItsWay(i) /\ OnItsWay(j) => holder[i] = holder[j]
    BY <1>1, <1>3 DEF Own
  <2>2. ASSUME NEW j \in Jti, OnItsWay(j)'
        PROVE  \E i \in Jti : OnItsWay(i) /\ holder'[j] = holder[i]
    BY <1>3, <2>2, PassesOn
  <2>3. \A i, j \in Jti : OnItsWay(i)' /\ OnItsWay(j)' => holder'[i] = holder'[j]
    BY <2>1, <2>2
  <2>4. ASSUME status' = "in", NEW j \in Jti, OnItsWay(j)' PROVE holder'[j] = account'
    <3>1. CASE status = "in"
      <4>1. account' = account
        BY <2>4, <3>1, CallStatus DEF Next, CallStep, FlowShape, Login, PersistLogin, StartLogout, Logout,
           Restart, Restore, ExpireAccess, EndSession, userVars, vars
      <4> QED
        BY <1>1, <2>2, <2>4, <3>1, <4>1 DEF Own
    <3>2. CASE status # "in"
      <4>1. Restore
        BY <1>3, <2>4, <3>2, CallStatus DEF Next, CallStep, FlowShape, Login, PersistLogin, StartLogout,
           Logout, Restart, ExpireAccess, EndSession, SignOut, userVars, vars
      <4>2. access \in Jti /\ account' = holder[access]
        BY <2>4, <4>1 DEF Restore, SignOut, TypeOK, Token
      <4>3. OnItsWay(access)
        BY DEF OnItsWay
      <4> QED
        BY <2>1, <2>2, <2>4, <4>2, <4>3
    <3> QED
      BY <3>1, <3>2
  <2>5. status' = "out" => /\ \A c \in Call : ~Refreshing(c)'
                           /\ refresh' = NoToken /\ access' = NoToken
    BY <1>3, OutAfter
  <2>6. status' = "out" => flow' # "save refresh"
    BY <1>3, CallStatus DEF Next, CallStep, FlowShape, Login, PersistLogin, StartLogout, Logout, Restart,
       Restore, ExpireAccess, EndSession, SignOut, userVars, vars
  <2> QED
    BY <2>3, <2>4, <2>5, <2>6
<1> QED
  BY <1>2, <1>3

-----------------------------------------------------------------------------
(* The invariant holds in every reachable state. *)
LEMMA InvInit == Init => Inv
<1> SUFFICES ASSUME Init PROVE Inv
  OBVIOUS
<1> USE DEF Init
<1>1. TypeOK
  BY DEF TypeOK, Token, Saving, Ledger!LedgerTypeOK, Ledger!LedgerInit
<1>2. \A c \in Call : ~Refreshing(c) /\ ~Showing(c) /\ ~Storing(c)
  BY DEF Refreshing, Saving, Showing, Storing
<1>3. Issued
  BY <1>2 DEF Issued, Born
<1>4. FlowShape
  BY DEF FlowShape
<1>5. Kept
  BY <1>2 DEF Kept, Underway, AtRest, Bare
<1>6. Own
  BY <1>2, ClientAssumption DEF Own, OnItsWay
<1> QED
  BY <1>1, <1>3, <1>4, <1>5, <1>6 DEF Inv

LEMMA InvStep == Inv /\ [Next]_vars => Inv'
BY TypeStep, IssuedStep, FlowStep, KeptStep, OwnStep DEF Inv

LEMMA Invariance == Spec => []Inv
BY InvInit, InvStep, PTL DEF Spec

(* Every variable of the app, and of the server as it sees it, keeps its     *)
(* type.                                                                     *)
THEOREM TypeCorrect == Spec => []TypeOK
<1>1. Inv => TypeOK
  BY DEF Inv
<1> QED
  BY <1>1, Invariance, PTL

(* Undisturbed, a signed-in device keeps a session that works, for any       *)
(* number of calls and rotations: token_storage.dart and                     *)
(* auth_interceptor.dart.                                                    *)
THEOREM KeepsSession == Spec => []SessionKept
<1>1. Inv => SessionKept
  BY DEF Inv, Kept, AtRest, Whole, SessionKept, Quiet
<1> QED
  BY <1>1, Invariance, PTL

(* Whatever fails, crashes or expires, the tokens of a device no sign-out    *)
(* has left anything on are the signed-in user's.                            *)
THEOREM KeepsAccounts == Spec => []OneAccount
<1>1. ASSUME Inv PROVE OneAccount
  <2>1. \A j \in {access, refresh} \ {NoToken} : j \in Jti /\ OnItsWay(j)
    BY <1>1 DEF Inv, TypeOK, Token, OnItsWay
  <2> QED
    BY <1>1, <2>1 DEF Inv, Own, OneAccount
<1> QED
  BY <1>1, Invariance, PTL

-----------------------------------------------------------------------------
(* The composition with the session ledger, which the auth service           *)
(* implements (SessionsProofs): whatever the app does, the server's part of  *)
(* it is a step of the ledger.                                               *)

(* A pair that was issued is an account's. *)
Owned == \A j \in Jti : life[j] # "unborn" => holder[j] \in Phone

LEMMA OwnedKept ==
  ASSUME Ledger!LedgerTypeOK, Owned, [Ledger!LedgerNext]_(Ledger!ledgerVars)
  PROVE  Owned'
<1> USE DEF Ledger!LedgerTypeOK, Owned
<1>1. ASSUME NEW j \in Jti, NEW p \in Phone, Ledger!Open(j, p) PROVE Owned'
  BY <1>1 DEF Ledger!Open
<1>2. ASSUME NEW J \in SUBSET Jti, Ledger!Close(J) PROVE Owned'
  BY <1>2 DEF Ledger!Close
<1>3. CASE UNCHANGED Ledger!ledgerVars
  BY <1>3 DEF Ledger!ledgerVars
<1> QED
  BY <1>1, <1>2, <1>3 DEF Ledger!LedgerNext

LEMMA UsesLedgerStep ==
  ASSUME TypeOK, Issued, Owned, [Next]_vars
  PROVE  [Ledger!LedgerNext]_(Ledger!ledgerVars)
<1>1. ASSUME NEW j \in Jti, NEW p \in Phone, Issue(j, p) PROVE Ledger!LedgerNext
  BY <1>1 DEF Issue, Ledger!LedgerNext
<1>2. ASSUME NEW j \in Jti, Ledger!Close({j}) PROVE Ledger!LedgerNext
  <2>1. {j} \in SUBSET Jti
    OBVIOUS
  <2> QED
    BY <1>2, <2>1 DEF Ledger!LedgerNext
<1>3. ASSUME UNCHANGED <<life, holder>> PROVE UNCHANGED Ledger!ledgerVars
  BY <1>3 DEF Ledger!ledgerVars
<1>4. ASSUME NEW c \in Call, Rotate(c) \/ Grant(c) \/ RefreshFails(c)
      PROVE  [Ledger!LedgerNext]_(Ledger!ledgerVars)
  <2>1. shown[c] \in Jti /\ life[shown[c]] # "unborn"
    BY <1>4 DEF Rotate, Grant, RefreshFails, Issued, Showing, Born, TypeOK, Token
  <2>2. holder[shown[c]] \in Phone
    BY <2>1 DEF Owned
  <2>3. CASE Ledger!Close({shown[c]})
    BY <1>2, <2>1, <2>3
  <2>4. CASE \E j \in Jti : Issue(j, holder[shown[c]])
    BY <1>1, <2>2, <2>4
  <2>5. CASE UNCHANGED <<life, holder>>
    BY <1>3, <2>5
  <2> QED
    BY <1>4, <2>3, <2>4, <2>5 DEF Rotate, Grant, RefreshFails
<1>5. ASSUME NEW c \in Call, Send(c) \/ Respond(c) \/ Unreachable(c) \/ ReadRefresh(c)
                               \/ Save(c) \/ Clear(c)
      PROVE  UNCHANGED <<life, holder>>
  BY <1>5 DEF Send, Respond, Unreachable, ReadRefresh, Save, Clear, serverVars
<1>6. ASSUME NEW p \in Phone, Login(p) PROVE Ledger!LedgerNext
  BY <1>1, <1>6 DEF Login
<1>7. ASSUME NEW j \in Jti, EndSession(j) PROVE Ledger!LedgerNext
  BY <1>2, <1>7 DEF EndSession
<1>8. ASSUME \/ PersistLogin \/ StartLogout \/ Logout \/ Restart \/ Restore
             \/ \E j \in Jti : ExpireAccess(j)
             \/ UNCHANGED vars
      PROVE  UNCHANGED <<life, holder>>
  BY <1>8 DEF PersistLogin, StartLogout, Logout, Restart, Restore, ExpireAccess, serverVars, vars
<1> QED
  BY <1>3, <1>4, <1>5, <1>6, <1>7, <1>8 DEF Next

(* The app and the network together never ask more of the server than the    *)
(* ledger allows: what is proved here holds of the phone with the auth       *)
(* service in the ledger's place.                                            *)
UsesLedger == Ledger!LedgerSpec

THEOREM LedgerUsed == Spec => UsesLedger
<1>1. Init => Ledger!LedgerInit /\ Owned
  BY DEF Init, Ledger!LedgerInit, Owned
<1>2. Inv => TypeOK /\ Issued /\ Ledger!LedgerTypeOK
  BY DEF Inv, TypeOK
<1>3. Spec => []Owned
  BY <1>1, <1>2, Invariance, UsesLedgerStep, OwnedKept, PTL DEF Spec
<1> QED
  BY <1>1, <1>2, <1>3, Invariance, UsesLedgerStep, PTL DEF Spec, UsesLedger, Ledger!LedgerSpec

-----------------------------------------------------------------------------
(* What brings up the login screen while nothing has been disturbed: not a   *)
(* call, which then ends its refresh with a new pair, and not a restart,     *)
(* which finds the pair it left.                                             *)

(* As long as the server answers every refresh with a pair, no logout        *)
(* overlaps one and the server ends no session, it is the user who signs     *)
(* out, by a logout that has deleted both keys (onSessionExpired and         *)
(* sessionExpired).                                                          *)
OnlyUserSignsOut ==
  [][status = "in" /\ status' = "out" /\ ~disturbed' => flow = "clear refresh"]_vars

LEMMA SignOutStep ==
  ASSUME TypeOK, FlowShape, Kept, [Next]_vars, status = "in", status' = "out", ~disturbed'
  PROVE  flow = "clear refresh"
<1>1. Underway /\ AtRest
  BY DisturbedStays DEF Kept
<1>2. ASSUME NEW c \in Call, CallStep(c) PROVE FALSE
  <2>1. ReadRefresh(c) \/ Clear(c)
    BY <1>2 DEF CallStep, Send, Respond, Unreachable, Rotate, Grant, RefreshFails, Save, userVars
  <2>2. CASE Clear(c)
    BY <1>1, <2>2 DEF Clear, Underway, Calm, Refreshing, Saving
  <2>3. CASE ReadRefresh(c)
    <3>1. refresh = NoToken
      BY <2>3 DEF ReadRefresh
    <3>2. \A d \in Call : ~Refreshing(d)
      BY <1>1, <3>1 DEF Underway, Calm
    <3> QED
      BY <1>1, <3>1, <3>2 DEF AtRest, Whole, FlowShape, TypeOK, Saving
  <2> QED
    BY <2>1, <2>2, <2>3
<1>3. ~\E c \in Call : CallStep(c)
  BY <1>2
<1>4. ~Restore
  BY DEF Restore, FlowShape
<1> QED
  BY <1>3, <1>4 DEF Next, CallStep, Login, PersistLogin, StartLogout, Logout, Restart, ExpireAccess,
     EndSession, userVars, vars

(* Undisturbed, nobody but the user ends a session on the device. *)
THEOREM UserSignsOut == Spec => OnlyUserSignsOut
<1>1. Inv => TypeOK /\ FlowShape /\ Kept
  BY DEF Inv
<1> QED
  BY <1>1, Invariance, SignOutStep, PTL DEF Spec, OnlyUserSignsOut

=============================================================================
