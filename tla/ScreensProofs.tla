--------------------------- MODULE ScreensProofs ---------------------------
(***************************************************************************)
(* Proofs about Screens.  The inbox guard and the checks have an inductive *)
(* invariant each; a step of one leaves the other's variables alone, and   *)
(* both see the gate.                                                      *)
(***************************************************************************)
EXTENDS Screens, TLAPS

-----------------------------------------------------------------------------
(* Types *)

SignedOutTo(u) == account = NoUser /\ account' = u

(* What a step of Screens does to the inbox guard, unless it leaves it alone. *)
InboxStep == InboxNext \/ (\E u \in User, r \in Restore : SignedOutTo(u) /\ EnterInbox(r))
               \/ (account' = NoUser /\ (LeaveInbox \/ KillInbox))

(* The steps of the inbox guard and of the gate on it keep its types: the    *)
(* progress stays within the limit and every finding names an account.       *)
LEMMA InboxTypes ==
  ASSUME account \in Account, InboxTypeOK, InboxStep
  PROVE  InboxTypeOK' /\ account' \in Account
<1> USE GateAssumption, InboxAssumption DEF Account, SignedIn
<1>1. CASE SetPermission \/ RefreshPermission
  BY <1>1 DEF SetPermission, RefreshPermission, InboxTypeOK, stateVars, scanVars
<1>2. ASSUME NEW c \in Scan, NEW at, TapGrant(c, at) \/ StartScan(c) \/ Answered(c)
      PROVE  InboxTypeOK' /\ account' \in Account
  BY <1>2 DEF TapGrant, StartScan, Answered, GoScan, InboxTypeOK, stateVars, scanVars
<1>3. ASSUME NEW c \in Scan, NumberScan(c)
      PROVE  InboxTypeOK' /\ account' \in Account
  BY <1>3 DEF NumberScan, NoResults, GoScan, InboxTypeOK
<1>4. ASSUME NEW c \in Scan, ReadInbox(c)
      PROVE  InboxTypeOK' /\ account' \in Account
  BY <1>4 DEF ReadInbox, Return, GoScan, InboxTypeOK
<1>5. ASSUME NEW c \in Scan, PostBatch(c) \/ ScanFails(c) \/ ScanStops(c)
      PROVE  InboxTypeOK' /\ account' \in Account
  BY <1>5 DEF PostBatch, ScanFails, ScanStops, Return, GoScan, InboxTypeOK, stateVars, scanVars
<1>6. ASSUME NEW c \in Scan, BatchChecked(c)
      PROVE  InboxTypeOK' /\ account' \in Account
  <2>1. BatchEnd(c) \in 0..Limit
    BY DEF BatchEnd, InboxTypeOK
  <2>2. Unsafe(c) \in Finding
    BY <1>6, <2>1 DEF BatchChecked, Judged, Unsafe, Finding, InboxTypeOK
  <2>3. findings' \subseteq Finding /\ found' \in [Scan -> SUBSET Finding]
    BY <1>6, <2>2 DEF BatchChecked, Collect, Return, InboxTypeOK
  <2> QED
    BY <1>6, <2>1, <2>3 DEF BatchChecked, Return, GoScan, InboxTypeOK
<1>7. ASSUME NEW m \in Incoming, Arrive(m) \/ PostIncoming(m)
      PROVE  InboxTypeOK' /\ account' \in Account
  BY <1>7 DEF Arrive, PostIncoming, InboxTypeOK, stateVars, scanVars
<1>8. ASSUME NEW m \in Incoming, IncomingChecked(m)
      PROVE  InboxTypeOK' /\ account' \in Account
  <2>1. findings' \subseteq Finding
    BY <1>8 DEF IncomingChecked, Judged, Finding, InboxTypeOK
  <2> QED
    BY <1>8, <2>1 DEF IncomingChecked, InboxTypeOK, scanVars
<1>9. ASSUME NEW w \in Watch \cup Restore, TapWatch(w) \/ WatchStep(w)
      PROVE  InboxTypeOK' /\ account' \in Account
  BY <1>9 DEF TapWatch, WatchStep, RestoreOn, MayWatch, Listen, SaveGuardOn, GoWatch,
              InboxTypeOK, stateVars, scanVars
<1>10. ASSUME NEW u \in User, NEW r \in Restore, SignedOutTo(u), EnterInbox(r)
       PROVE  InboxTypeOK' /\ account' \in Account
  BY <1>10 DEF SignedOutTo, EnterInbox, GoWatch, InboxTypeOK, stateVars, scanVars
<1>11. CASE account' = NoUser /\ LeaveInbox
  BY <1>11 DEF LeaveInbox, ClearScan, NoResults, InboxTypeOK
<1>12. CASE account' = NoUser /\ KillInbox
  <2>1. \A at : Ended(at) \in {"none", "end"}
    BY DEF Ended
  <2>2. scanAt' \in [Scan -> {"none", "end"}] /\ incomingAt' \in [Incoming -> {"none", "end"}]
        /\ watchAt' \in [Watch \cup Restore -> {"none", "end"}]
    BY <1>12, <2>1 DEF KillInbox
  <2>3. number' \in [Scan -> Nat] /\ size' \in [Scan -> 0..Limit] /\ upto' \in [Scan -> 0..Limit]
        /\ found' \in [Scan -> SUBSET Finding] /\ postedAs' \in [Scan \cup Incoming -> Account]
    BY <1>12 DEF KillInbox
  <2>4. scanned' \in 0..Limit /\ total' \in 0..Limit /\ findings' = {} /\ scan' \in Nat
    BY <1>12 DEF KillInbox, NoResults
  <2>5. granted' = granted /\ guardOn' = guardOn /\ status' = "idle" /\ watching' = FALSE
    BY <1>12 DEF KillInbox
  <2>6. scanAt' \in [Scan -> {"none", "grant", "allow", "ask", "read", "post", "check", "end"}]
    BY <2>2
  <2>7. incomingAt' \in [Incoming -> {"none", "post", "check", "end"}]
    BY <2>2
  <2>8. watchAt' \in [Watch \cup Restore ->
                        {"none", "role", "pref", "perm", "ask", "listen", "save", "end"}]
    BY <2>2
  <2> QED
    BY <1>12, <2>3, <2>4, <2>5, <2>6, <2>7, <2>8 DEF InboxTypeOK
<1> QED
  BY <1>1, <1>2, <1>3, <1>4, <1>5, <1>6, <1>7, <1>8, <1>9, <1>10, <1>11, <1>12
  DEF InboxStep, InboxNext, ScanStep

-----------------------------------------------------------------------------
(* The inbox guard *)

Running(c) == scanAt[c] \in {"read", "post", "check"}

OfScan(f) == f.from \in Scan

(* Numbers are given out once, so that one running scan at most is current.  *)
Numbered ==
  /\ \A c \in Scan : number[c] <= scan /\ (Running(c) => number[c] >= 1)
  /\ \A c, d \in Scan : Running(c) /\ Running(d) /\ number[c] = number[d] => c = d

(* The locals of the current scan are what the screen shows of it.           *)
Shows ==
  /\ \A c \in Scan : Running(c) /\ Current(c) =>
       /\ status # "ready"
       /\ IF scanAt[c] = "read" THEN scanned = 0 ELSE size[c] = total
       /\ \A f \in findings : OfScan(f) => f \in found[c]
  /\ scan = 0 => \A f \in findings : ~OfScan(f)

(* They are of the present session.                                          *)
Owns ==
  \A c \in Scan :
    /\ ~Running(c) => found[c] = {}
    /\ Running(c) /\ Current(c) => \A f \in found[c] : f.as = account
    /\ scanAt[c] = "check" /\ Current(c) => postedAs[c] \in {account, NoUser}

InboxInv == Numbered /\ Shows /\ Owns /\ StatusIsTrue /\ FindingsAreOwn

(* A step that neither moves a scan nor rewrites the progress, nor says that *)
(* one is running or complete, leaves the invariant as it is.                *)
LEMMA InboxKept ==
  ASSUME InboxTypeOK, InboxInv,
         UNCHANGED <<account, scan, number, size, found, scanned, total>>,
         \A c \in Scan : scanAt'[c] = scanAt[c] \/ (~Running(c) /\ ~Running(c)'),
         \A c \in Scan : postedAs'[c] = postedAs[c],
         \A f \in findings' : f \in findings \/ ~OfScan(f),
         status' \in {status, "idle", "needsPermission"}
  PROVE  InboxInv'
<1>1. \A c \in Scan : Running(c)' <=> Running(c)
  BY DEF Running
<1>2. \A c \in Scan : Running(c) => scanAt'[c] = scanAt[c]
  OBVIOUS
<1>3. Numbered'
  BY <1>1 DEF InboxInv, Numbered
<1>4. Shows'
  BY <1>1, <1>2 DEF InboxInv, Shows, OfScan, Current
<1>5. Owns'
  BY <1>1, <1>2 DEF InboxInv, Owns, Current, Running
<1>6. StatusIsTrue'
  BY <1>1, <1>2 DEF InboxInv, StatusIsTrue, Current, Running
<1>7. FindingsAreOwn'
  BY DEF InboxInv, FindingsAreOwn, OfScan
<1> QED
  BY <1>3, <1>4, <1>5, <1>6, <1>7 DEF InboxInv

(* A call of scanInbox that ends the current scan, or an older one.          *)
LEMMA InboxReturns ==
  ASSUME InboxTypeOK, InboxInv, NEW c \in Scan, Running(c), Return(c),
         UNCHANGED <<account, scan>>,
         \/ /\ Current(c) /\ status' \in {"ready", "failed"}
            /\ status' = "ready" => scanned' = total'
            /\ \A f \in findings' : OfScan(f) => f.as = account
         \/ ~Current(c) /\ UNCHANGED <<scanned, total, status, findings>>
  PROVE  InboxInv'
<1> USE DEF Return, GoScan
<1>1. /\ ~Running(c)' /\ number'[c] = 0 /\ found'[c] = {} /\ scanAt'[c] = "end"
      /\ \A d \in Scan \ {c} : /\ scanAt'[d] = scanAt[d] /\ number'[d] = number[d]
                              /\ size'[d] = size[d] /\ found'[d] = found[d]
                              /\ postedAs'[d] = postedAs[d]
  BY DEF InboxTypeOK, Running
<1>2. \A d \in Scan \ {c} : Running(d)' <=> Running(d)
  BY <1>1 DEF Running
<1>3. Numbered'
  BY <1>1, <1>2 DEF InboxInv, Numbered, InboxTypeOK
<1>4. scan >= 1
  BY DEF InboxInv, Numbered, InboxTypeOK
<1>5. Owns'
  <2> SUFFICES ASSUME NEW d \in Scan
               PROVE  /\ ~Running(d)' => found'[d] = {}
                      /\ Running(d)' /\ Current(d)' => \A f \in found'[d] : f.as = account'
                      /\ scanAt'[d] = "check" /\ Current(d)' => postedAs'[d] \in {account', NoUser}
    BY DEF Owns
  <2> QED
    BY <1>1, <1>2 DEF InboxInv, Owns, Current
<1>6. CASE Current(c)
  <2>1. \A d \in Scan : Running(d)' => ~Current(d)'
    BY <1>1, <1>2, <1>6 DEF InboxInv, Numbered, Current
  <2>2. Shows'
    BY <1>4, <2>1 DEF Shows
  <2>3. StatusIsTrue' /\ FindingsAreOwn'
    BY <1>6 DEF StatusIsTrue, FindingsAreOwn, OfScan
  <2> QED
    BY <1>3, <1>5, <2>2, <2>3 DEF InboxInv
<1>7. CASE ~Current(c)
  <2>1. UNCHANGED <<scanned, total, status, findings>>
    BY <1>7
  <2>2. \A d \in Scan : Running(d)' => d # c /\ Running(d) /\ (Current(d)' <=> Current(d))
    BY <1>1, <1>2 DEF Current
  <2>3. \A d \in Scan : Running(d) /\ Current(d) => d # c /\ Running(d)' /\ Current(d)'
    BY <1>1, <1>2, <1>7 DEF Current
  <2>4. Shows'
    BY <1>1, <1>4, <2>1, <2>2 DEF InboxInv, Shows, OfScan
  <2>5. StatusIsTrue'
    BY <1>1, <2>1, <2>3 DEF InboxInv, StatusIsTrue, Running
  <2>6. FindingsAreOwn'
    BY <2>1 DEF InboxInv, FindingsAreOwn
  <2> QED
    BY <1>3, <1>5, <2>4, <2>5, <2>6 DEF InboxInv
<1> QED
  BY <1>6, <1>7

(* Each step of the inbox guard and of the gate keeps its invariant.         *)
LEMMA InboxKeeps ==
  ASSUME account \in Account, InboxTypeOK, InboxInv, InboxStep
  PROVE  InboxInv'
<1> USE GateAssumption, InboxAssumption
<1>1. CASE SetPermission \/ RefreshPermission
  <2>1. \A c \in Scan : scanAt'[c] = scanAt[c] /\ postedAs'[c] = postedAs[c]
    BY <1>1 DEF SetPermission, RefreshPermission, scanVars
  <2> QED
    BY <1>1, <2>1, InboxKept DEF SetPermission, RefreshPermission, stateVars, scanVars
<1>2. ASSUME NEW c \in Scan, NEW at, TapGrant(c, at) \/ StartScan(c) \/ Answered(c)
      PROVE  InboxInv'
  <2>1. \A d \in Scan : scanAt'[d] = scanAt[d] \/ (~Running(d) /\ ~Running(d)')
    BY <1>2 DEF TapGrant, StartScan, Answered, GoScan, Running, InboxTypeOK
  <2> QED
    BY <1>2, <2>1, InboxKept DEF TapGrant, StartScan, Answered, stateVars
<1>3. ASSUME NEW c \in Scan, NumberScan(c)
      PROVE  InboxInv'
  <2>1. CASE ~granted
    <3>1. \A d \in Scan : scanAt'[d] = scanAt[d] \/ (~Running(d) /\ ~Running(d)')
      BY <1>3, <2>1 DEF NumberScan, GoScan, Running, InboxTypeOK
    <3> QED
      BY <1>3, <2>1, <3>1, InboxKept DEF NumberScan
  <2>2. CASE granted
    <3>1. /\ scan' = scan + 1 /\ number'[c] = scan' /\ scanAt'[c] = "read"
          /\ found'[c] = {} /\ Running(c)' /\ Current(c)' /\ findings' = {}
          /\ status' = "scanning" /\ scanned' = 0 /\ scan' # 0
      BY <1>3, <2>2 DEF NumberScan, GoScan, NoResults, Running, Current, InboxInv, Owns, InboxTypeOK
    <3>2. \A d \in Scan \ {c} : /\ number'[d] = number[d] /\ scanAt'[d] = scanAt[d]
                            /\ found'[d] = found[d] /\ ~Current(d)'
                            /\ (Running(d)' <=> Running(d))
      BY <1>3, <2>2, <3>1 DEF NumberScan, GoScan, Running, Current, InboxInv, Numbered, InboxTypeOK
    <3>3. Numbered'
      <4>1. scan \in Nat /\ scan' = scan + 1 /\ number'[c] = scan'
            /\ \A d \in Scan : number[d] \in Nat /\ number[d] <= scan
        BY <3>1 DEF InboxInv, Numbered, InboxTypeOK
      <4>2. number'[c] <= scan' /\ number'[c] >= 1
        BY <4>1
      <4>3. \A d \in Scan \ {c} :
              /\ number'[d] <= scan' /\ number'[d] < number'[c]
              /\ Running(d)' => number'[d] >= 1
        <5> SUFFICES ASSUME NEW d \in Scan \ {c}
                     PROVE  /\ number'[d] <= scan' /\ number'[d] < number'[c]
                            /\ Running(d)' => number'[d] >= 1
          OBVIOUS
        <5>1. number'[d] = number[d] /\ (Running(d)' => Running(d))
          BY <3>2
        <5>2. number[d] \in Nat /\ number[d] <= scan /\ (Running(d) => number[d] >= 1)
          BY <4>1 DEF InboxInv, Numbered
        <5> QED
          BY <4>1, <5>1, <5>2
      <4>4. \A d, e \in Scan \ {c} :
              Running(d)' /\ Running(e)' /\ number'[d] = number'[e] => d = e
        BY <3>2 DEF InboxInv, Numbered
      <4>5. \A d \in Scan \ {c} : number'[d] # number'[c]
        <5> SUFFICES ASSUME NEW d \in Scan \ {c} PROVE number'[d] # number'[c]
          OBVIOUS
        <5>1. number'[d] = number[d] /\ number[d] \in Nat /\ number[d] <= scan
          BY <3>2, <4>1
        <5> QED
          BY <4>1, <5>1
      <4>6. \A d \in Scan : number'[d] <= scan' /\ (Running(d)' => number'[d] >= 1)
        BY <4>2, <4>3
      <4>7. \A d, e \in Scan :
              Running(d)' /\ Running(e)' /\ number'[d] = number'[e] => d = e
        BY <4>4, <4>5
      <4> QED
        BY <4>6, <4>7 DEF Numbered
    <3>4. Shows'
      BY <3>1, <3>2 DEF Shows
    <3>5. Owns'
      BY <3>1, <3>2 DEF InboxInv, Owns
    <3>6. StatusIsTrue' /\ FindingsAreOwn'
      BY <3>1 DEF StatusIsTrue, FindingsAreOwn
    <3> QED
      BY <3>3, <3>4, <3>5, <3>6 DEF InboxInv
  <2> QED
    BY <2>1, <2>2
<1>4. ASSUME NEW c \in Scan, ReadInbox(c)
      PROVE  InboxInv'
  <2>1. Running(c) /\ Current(c)
    BY <1>4 DEF ReadInbox, Running
  <2>2. CASE Return(c)
    <3>1. scanned' = total' /\ status' = "ready"
      BY <1>4, <2>1, <2>2 DEF ReadInbox, InboxInv, Shows, Return, GoScan, InboxTypeOK
    <3>2. \A f \in findings' : OfScan(f) => f.as = account
      BY <1>4 DEF ReadInbox, InboxInv, FindingsAreOwn, OfScan
    <3> QED
      BY <1>4, <2>1, <2>2, <3>1, <3>2, InboxReturns DEF ReadInbox
  <2>3. CASE ~Return(c)
    <3>1. /\ total' \in 1..Limit /\ size' = [size EXCEPT ![c] = total'] /\ GoScan(c, "post")
          /\ UNCHANGED <<account, status, scan, scanned, findings, number, found, postedAs>>
      BY <1>4, <2>3 DEF ReadInbox
    <3>2. Running(c)' /\ scanAt'[c] = "post" /\ size'[c] = total' /\ Current(c)'
      BY <2>1, <3>1 DEF GoScan, Running, Current, InboxTypeOK
    <3>3. \A d \in Scan \ {c} : scanAt'[d] = scanAt[d] /\ (Running(d)' <=> Running(d))
      BY <3>1 DEF GoScan, Running, InboxTypeOK
    <3>4. \A d \in Scan \ {c} : Running(d) => ~Current(d)
      BY <2>1 DEF InboxInv, Numbered, Current
    <3>5. Numbered'
      BY <2>1, <3>1, <3>2, <3>3 DEF InboxInv, Numbered
    <3>6. Shows'
      BY <2>1, <3>1, <3>2, <3>3, <3>4 DEF InboxInv, Shows, Current, OfScan
    <3>7. Owns'
      BY <2>1, <3>1, <3>2, <3>3, <3>4 DEF InboxInv, Owns, Current
    <3>8. StatusIsTrue' /\ FindingsAreOwn'
      BY <2>1, <3>1, <3>2 DEF InboxInv, Shows, StatusIsTrue, FindingsAreOwn
    <3> QED
      BY <3>5, <3>6, <3>7, <3>8 DEF InboxInv
  <2> QED
    BY <2>2, <2>3
<1>5. ASSUME NEW c \in Scan, PostBatch(c)
      PROVE  InboxInv'
  <2>1. /\ scanAt[c] = "post" /\ scanAt'[c] = "check" /\ postedAs'[c] = account
        /\ \A d \in Scan \ {c} : scanAt'[d] = scanAt[d] /\ postedAs'[d] = postedAs[d]
        /\ UNCHANGED <<account, status, scan, scanned, total, findings, number, size, found>>
    BY <1>5 DEF PostBatch, GoScan, stateVars, InboxTypeOK
  <2>2. \A d \in Scan : (Running(d)' <=> Running(d)) /\ (Current(d)' <=> Current(d))
    BY <2>1 DEF Running, Current
  <2>3. Numbered' /\ FindingsAreOwn'
    BY <2>1, <2>2 DEF InboxInv, Numbered, FindingsAreOwn
  <2>4. Shows'
    BY <2>1, <2>2 DEF InboxInv, Shows, OfScan
  <2>5. Owns'
    BY <2>1, <2>2 DEF InboxInv, Owns
  <2>6. StatusIsTrue'
    BY <2>1, <2>2 DEF InboxInv, StatusIsTrue, Running
  <2> QED
    BY <2>3, <2>4, <2>5, <2>6 DEF InboxInv
<1>6. ASSUME NEW c \in Scan, BatchChecked(c)
      PROVE  InboxInv'
  <2>1. /\ Running(c) /\ Current(c) /\ scanAt[c] = "check" /\ postedAs[c] = account
        /\ size[c] = total /\ status # "ready"
    BY <1>6 DEF BatchChecked, Judged, Running, InboxInv, Shows, Owns, InboxTypeOK
  <2>2. \A f \in findings' : f.as = account
    BY <1>6, <2>1 DEF BatchChecked, Collect, Unsafe, InboxInv, Owns
  <2>3. CASE BatchEnd(c) = size[c] /\ status' = "ready" /\ Return(c)
    <3>1. scanned' = total' /\ UNCHANGED <<account, scan>>
      BY <1>6, <2>1, <2>3 DEF BatchChecked
    <3> QED
      BY <2>1, <2>2, <2>3, <3>1, InboxReturns
  <2>4. CASE /\ found' = [found EXCEPT ![c] = findings'] /\ GoScan(c, "post")
             /\ UNCHANGED <<status, number, size, postedAs>>
    <3>1. /\ found'[c] = findings' /\ scanAt'[c] = "post" /\ Running(c)' /\ Current(c)'
          /\ UNCHANGED <<account, total, scan>>
      BY <1>6, <2>1, <2>4 DEF BatchChecked, GoScan, Running, Current, InboxTypeOK
    <3>2. \A d \in Scan \ {c} : /\ scanAt'[d] = scanAt[d] /\ found'[d] = found[d]
                            /\ (Running(d)' <=> Running(d))
      BY <2>4 DEF GoScan, Running, InboxTypeOK
    <3>3. \A d \in Scan \ {c} : Running(d) => ~Current(d)
      BY <2>1 DEF InboxInv, Numbered, Current
    <3>4. scan >= 1
      BY <2>1 DEF InboxInv, Numbered, Current, InboxTypeOK
    <3>5. Numbered'
      BY <2>1, <2>4, <3>1, <3>2 DEF InboxInv, Numbered
    <3>6. Shows'
      BY <2>1, <2>4, <3>1, <3>2, <3>3, <3>4 DEF Shows, Current
    <3>7. Owns'
      BY <2>1, <2>2, <2>4, <3>1, <3>2, <3>3 DEF InboxInv, Owns, Current
    <3>8. StatusIsTrue' /\ FindingsAreOwn'
      BY <2>1, <2>2, <2>4, <3>1 DEF StatusIsTrue, FindingsAreOwn, Running
    <3> QED
      BY <3>5, <3>6, <3>7, <3>8 DEF InboxInv
  <2> QED
    BY <1>6, <2>3, <2>4 DEF BatchChecked
<1>7. ASSUME NEW c \in Scan, ScanFails(c) \/ ScanStops(c)
      PROVE  InboxInv'
  <2>1. Running(c)
    BY <1>7 DEF ScanFails, ScanStops, Running
  <2>2. \A f \in findings : OfScan(f) => f.as = account
    BY DEF InboxInv, FindingsAreOwn, OfScan
  <2> QED
    BY <1>7, <2>1, <2>2, InboxReturns DEF ScanFails, ScanStops, stateVars
<1>8. ASSUME NEW m \in Incoming, Arrive(m) \/ PostIncoming(m) \/ IncomingChecked(m)
      PROVE  InboxInv'
  <2>1. \A c \in Scan : c # m
    OBVIOUS
  <2>2. \A c \in Scan : scanAt'[c] = scanAt[c] /\ postedAs'[c] = postedAs[c]
    BY <1>8, <2>1 DEF Arrive, PostIncoming, IncomingChecked, scanVars, InboxTypeOK
  <2>3. \A f \in findings' : f \in findings \/ ~OfScan(f)
    BY <1>8, <2>1 DEF Arrive, PostIncoming, IncomingChecked, stateVars, OfScan
  <2> QED
    BY <1>8, <2>2, <2>3, InboxKept
    DEF Arrive, PostIncoming, IncomingChecked, stateVars, scanVars
<1>9. ASSUME NEW w \in Watch \cup Restore, TapWatch(w) \/ WatchStep(w)
      PROVE  InboxInv'
  <2>1. \A c \in Scan : scanAt'[c] = scanAt[c] /\ postedAs'[c] = postedAs[c]
    BY <1>9 DEF TapWatch, WatchStep, RestoreOn, MayWatch, Listen, SaveGuardOn, scanVars
  <2>2. status' \in {status, "needsPermission"}
    BY <1>9 DEF TapWatch, WatchStep, RestoreOn, MayWatch, Listen, SaveGuardOn, stateVars
  <2> QED
    BY <1>9, <2>1, <2>2, InboxKept
    DEF TapWatch, WatchStep, RestoreOn, MayWatch, Listen, SaveGuardOn, stateVars, scanVars
<1>10. ASSUME NEW u \in User, NEW r \in Restore, SignedOutTo(u), EnterInbox(r)
       PROVE  InboxInv'
  <2>1. UNCHANGED <<stateVars, scan, scanVars, postedAs>> /\ account = NoUser
    BY <1>10 DEF EnterInbox, SignedOutTo
  <2>2. \A f \in Finding : f.as # NoUser
    BY DEF Finding
  <2>3. \A f \in findings : ~OfScan(f)
    BY <2>1, <2>2 DEF InboxInv, FindingsAreOwn, OfScan, InboxTypeOK
  <2>4. \A c \in Scan : Running(c) /\ Current(c) => found[c] = {}
    BY <2>1, <2>2 DEF InboxInv, Owns, InboxTypeOK
  <2>5. \A c \in Scan : (Running(c)' <=> Running(c)) /\ (Current(c)' <=> Current(c))
    BY <2>1 DEF Running, Current, scanVars
  <2>6. Numbered' /\ Shows' /\ StatusIsTrue'
    BY <2>1, <2>5 DEF InboxInv, Numbered, Shows, OfScan, StatusIsTrue, Running, stateVars, scanVars
  <2>7. Owns'
    BY <2>1, <2>4, <2>5 DEF InboxInv, Owns, scanVars
  <2>8. FindingsAreOwn'
    BY <2>1, <2>3 DEF FindingsAreOwn, OfScan, stateVars
  <2> QED
    BY <2>6, <2>7, <2>8 DEF InboxInv
<1>11. CASE account' = NoUser /\ LeaveInbox
  <2>1. /\ scan' = scan + 1 /\ findings' = {} /\ status' \in {"needsPermission", "idle"}
        /\ UNCHANGED <<number, found, size, postedAs>>
    BY <1>11 DEF LeaveInbox, ClearScan, NoResults
  <2>2. \A c \in Scan : (Running(c)' <=> Running(c)) /\ ~Current(c)'
    BY <1>11, <2>1 DEF LeaveInbox, Running, Current, InboxInv, Numbered, InboxTypeOK
  <2>3. Numbered'
    BY <2>1, <2>2 DEF InboxInv, Numbered, InboxTypeOK
  <2>4. Shows' /\ StatusIsTrue' /\ FindingsAreOwn'
    BY <2>1, <2>2 DEF Shows, StatusIsTrue, FindingsAreOwn
  <2>5. Owns'
    BY <2>1, <2>2 DEF InboxInv, Owns
  <2> QED
    BY <2>3, <2>4, <2>5 DEF InboxInv
<1>12. CASE account' = NoUser /\ KillInbox
  <2>1. /\ scan' = 0 /\ findings' = {} /\ status' = "idle"
        /\ \A c \in Scan : number'[c] = 0 /\ found'[c] = {} /\ scanAt'[c] = Ended(scanAt[c])
    BY <1>12 DEF KillInbox, NoResults
  <2>2. \A c \in Scan : ~Running(c)' /\ scanAt'[c] # "check"
    BY <2>1 DEF Running, Ended
  <2> QED
    BY <2>1, <2>2 DEF InboxInv, Numbered, Shows, Owns, StatusIsTrue, FindingsAreOwn
<1> QED
  BY <1>1, <1>2, <1>3, <1>4, <1>5, <1>6, <1>7, <1>8, <1>9, <1>10, <1>11, <1>12
  DEF InboxStep, InboxNext, ScanStep

(* What the current scan has found is still there after any step of it or    *)
(* of another call.                                                          *)
LEMMA FindingsKept ==
  ASSUME account \in Account, InboxTypeOK, InboxInv, InboxStep, scan' = scan,
         NEW f \in findings, OfScan(f)
  PROVE  f \in findings'
<1>1. scan # 0 /\ scan \in Nat
  BY DEF InboxInv, Shows, InboxTypeOK
<1>2. CASE UNCHANGED findings
  BY <1>2
<1>3. ASSUME NEW c \in Scan, NumberScan(c)
      PROVE  f \in findings'
  BY <1>1, <1>3 DEF NumberScan
<1>4. ASSUME NEW c \in Scan, BatchChecked(c)
      PROVE  f \in findings'
  <2>1. Running(c) /\ Current(c)
    BY <1>4 DEF BatchChecked, Running
  <2>2. f \in found[c]
    BY <2>1 DEF InboxInv, Shows
  <2> QED
    BY <1>4, <2>2 DEF BatchChecked, Collect
<1>5. ASSUME NEW m \in Incoming, IncomingChecked(m)
      PROVE  f \in findings'
  BY <1>5 DEF IncomingChecked
<1>6. CASE LeaveInbox \/ KillInbox
  BY <1>1, <1>6 DEF LeaveInbox, KillInbox, ClearScan
<1> QED
  BY <1>2, <1>3, <1>4, <1>5, <1>6
  DEF InboxStep, InboxNext, ScanStep, WatchStep, SetPermission, RefreshPermission, TapGrant,
      Answered, StartScan, ReadInbox, PostBatch, ScanFails, ScanStops, Arrive, PostIncoming,
      TapWatch, RestoreOn, MayWatch, Listen, SaveGuardOn, EnterInbox, stateVars

(* The progress shown is the current scan's: as far as its last batch went.  *)
ProgressIsCurrent ==
  /\ \A c \in Scan :
       /\ ~Running(c) => upto[c] = 0
       /\ scanAt[c] = "read" => upto[c] = 0
       /\ Running(c) /\ Current(c) => scanned = upto[c]
       /\ scanAt[c] = "read" /\ Current(c) => total = 0
       /\ scanAt[c] \in {"post", "check"} /\ Current(c) => upto[c] <= size[c]
  /\ scan = 0 => scanned = 0 /\ total = 0

Forward == scanned <= scanned' /\ (total' = total \/ total = 0)

(* A step that leaves the scans and the progress alone.                      *)
LEMMA ProgressKept ==
  ASSUME InboxTypeOK, ProgressIsCurrent,
         UNCHANGED <<scan, number, size, upto, scanned, total>>,
         \A c \in Scan : scanAt'[c] = scanAt[c] \/ (~Running(c) /\ ~Running(c)')
  PROVE  ProgressIsCurrent' /\ Forward
<1>1. \A c \in Scan : (Running(c)' <=> Running(c)) /\ (Current(c)' <=> Current(c))
  BY DEF Running, Current
<1>2. \A c \in Scan : scanAt'[c] = scanAt[c]
                      \/ scanAt'[c] \notin {"read", "post", "check"}
  BY DEF Running
<1>3. ProgressIsCurrent'
  BY <1>1, <1>2 DEF ProgressIsCurrent
<1>4. Forward
  BY InboxAssumption DEF Forward, InboxTypeOK
<1> QED
  BY <1>3, <1>4

(* A scan that ends leaves no position behind.                               *)
LEMMA ProgressReturns ==
  ASSUME InboxTypeOK, InboxInv, ProgressIsCurrent, NEW c \in Scan, Running(c), Return(c),
         scan' = scan,
         Current(c) \/ UNCHANGED <<scanned, total>>
  PROVE  ProgressIsCurrent'
<1>1. scan # 0
  BY DEF InboxInv, Numbered, InboxTypeOK
<1>2. scanAt'[c] = "end" /\ upto'[c] = 0
  BY DEF Return, GoScan, InboxTypeOK
<1>3. \A d \in Scan \ {c} : /\ scanAt'[d] = scanAt[d] /\ number'[d] = number[d]
                            /\ size'[d] = size[d] /\ upto'[d] = upto[d]
  BY DEF Return, GoScan, InboxTypeOK
<1>4. Current(c) => \A d \in Scan \ {c} : Running(d) => ~Current(d)
  BY DEF InboxInv, Numbered, Current
<1> SUFFICES ASSUME NEW d \in Scan
             PROVE  /\ ~Running(d)' => upto'[d] = 0
                    /\ scanAt'[d] = "read" => upto'[d] = 0
                    /\ Running(d)' /\ Current(d)' => scanned' = upto'[d]
                    /\ scanAt'[d] = "read" /\ Current(d)' => total' = 0
                    /\ scanAt'[d] \in {"post", "check"} /\ Current(d)' => upto'[d] <= size'[d]
  BY <1>1 DEF ProgressIsCurrent
<1>5. CASE d = c
  BY <1>2, <1>5 DEF Running
<1>6. CASE d # c
  <2>1. (Running(d)' <=> Running(d)) /\ (Current(d)' <=> Current(d))
    BY <1>3, <1>6 DEF Running, Current
  <2>2. Running(d) /\ Current(d) => UNCHANGED <<scanned, total>>
    BY <1>4, <1>6
  <2> QED
    BY <1>3, <1>6, <2>1, <2>2 DEF ProgressIsCurrent, Running
<1> QED
  BY <1>5, <1>6

(* The progress stays the current scan's and only goes forward within it.    *)
LEMMA ProgressKeeps ==
  ASSUME account \in Account, InboxTypeOK, InboxInv, ProgressIsCurrent, InboxStep
  PROVE  ProgressIsCurrent' /\ (scan' = scan => Forward)
<1> USE InboxAssumption
<1>1. CASE SetPermission \/ RefreshPermission
  <2>1. UNCHANGED <<scan, scanAt, number, size, upto, scanned, total>>
    BY <1>1 DEF SetPermission, RefreshPermission, stateVars, scanVars
  <2> QED
    BY <2>1, ProgressKept
<1>2. ASSUME NEW c \in Scan, NEW at, TapGrant(c, at) \/ StartScan(c) \/ Answered(c)
      PROVE  ProgressIsCurrent' /\ Forward
  <2>1. \A d \in Scan : scanAt'[d] = scanAt[d] \/ (~Running(d) /\ ~Running(d)')
    BY <1>2 DEF TapGrant, StartScan, Answered, GoScan, Running, InboxTypeOK
  <2> QED
    BY <1>2, <2>1, ProgressKept DEF TapGrant, StartScan, Answered, stateVars
<1>3. ASSUME NEW c \in Scan, NumberScan(c)
      PROVE  ProgressIsCurrent' /\ (scan' = scan => Forward)
  <2>1. CASE ~granted
    <3>1. \A d \in Scan : scanAt'[d] = scanAt[d] \/ (~Running(d) /\ ~Running(d)')
      BY <1>3, <2>1 DEF NumberScan, GoScan, Running, InboxTypeOK
    <3> QED
      BY <1>3, <2>1, <3>1, ProgressKept DEF NumberScan
  <2>2. CASE granted
    <3>1. /\ scan' = scan + 1 /\ scan' # scan /\ scan' # 0 /\ scanned' = 0 /\ total' = 0
          /\ scanAt'[c] = "read" /\ upto'[c] = 0 /\ UNCHANGED <<size, upto>>
      BY <1>3, <2>2 DEF NumberScan, GoScan, NoResults, Running, ProgressIsCurrent, InboxTypeOK
    <3>2. \A d \in Scan \ {c} : scanAt'[d] = scanAt[d] /\ ~Current(d)'
      BY <1>3, <2>2, <3>1 DEF NumberScan, GoScan, Current, InboxInv, Numbered, InboxTypeOK
    <3>3. \A d \in Scan \ {c} : Running(d)' <=> Running(d)
      BY <3>2 DEF Running
    <3> QED
      BY <3>1, <3>2, <3>3 DEF ProgressIsCurrent
  <2> QED
    BY <2>1, <2>2
<1>4. ASSUME NEW c \in Scan, ReadInbox(c)
      PROVE  ProgressIsCurrent' /\ Forward
  <2>1. Running(c) /\ Current(c) /\ scanAt[c] = "read" /\ scanned = 0 /\ total = 0
        /\ upto[c] = 0 /\ scanned' = scanned /\ scan' = scan
    BY <1>4 DEF ReadInbox, Running, ProgressIsCurrent
  <2>2. Forward
    BY <2>1 DEF Forward
  <2>3. CASE Return(c)
    BY <2>1, <2>2, <2>3, ProgressReturns
  <2>4. CASE ~Return(c)
    <3>1. /\ total' \in 1..Limit /\ size' = [size EXCEPT ![c] = total'] /\ GoScan(c, "post")
          /\ UNCHANGED <<scan, scanned, number, upto>>
      BY <1>4, <2>4 DEF ReadInbox
    <3>2. scanAt'[c] = "post" /\ size'[c] = total' /\ upto'[c] = 0
      BY <2>1, <3>1 DEF GoScan, InboxTypeOK
    <3>3. \A d \in Scan \ {c} : scanAt'[d] = scanAt[d] /\ size'[d] = size[d]
      BY <3>1 DEF GoScan, InboxTypeOK
    <3>4. \A d \in Scan \ {c} : Running(d) => ~Current(d)
      BY <2>1 DEF InboxInv, Numbered, Current
    <3>5. scan # 0
      BY <2>1 DEF InboxInv, Numbered, Current, InboxTypeOK
    <3>6. ProgressIsCurrent'
      BY <2>1, <3>1, <3>2, <3>3, <3>4, <3>5 DEF ProgressIsCurrent, Running, Current
    <3> QED
      BY <2>2, <3>6
  <2> QED
    BY <2>3, <2>4
<1>5. ASSUME NEW c \in Scan, PostBatch(c)
      PROVE  ProgressIsCurrent' /\ Forward
  <2>1. /\ scanAt[c] = "post" /\ scanAt'[c] = "check"
        /\ \A d \in Scan \ {c} : scanAt'[d] = scanAt[d]
        /\ UNCHANGED <<scan, number, size, upto, scanned, total>>
    BY <1>5 DEF PostBatch, GoScan, stateVars, InboxTypeOK
  <2>2. \A d \in Scan : (Running(d)' <=> Running(d)) /\ (Current(d)' <=> Current(d))
    BY <2>1 DEF Running, Current
  <2>3. ProgressIsCurrent'
    BY <2>1, <2>2 DEF ProgressIsCurrent
  <2>4. Forward
    BY <2>1 DEF Forward, InboxTypeOK
  <2> QED
    BY <2>3, <2>4
<1>6. ASSUME NEW c \in Scan, BatchChecked(c)
      PROVE  ProgressIsCurrent' /\ Forward
  <2>1. /\ Running(c) /\ Current(c) /\ scanAt[c] = "check" /\ scanned' = BatchEnd(c)
        /\ total' = total /\ scan' = scan
    BY <1>6 DEF BatchChecked, Running
  <2>2. scanned = upto[c] /\ upto[c] <= size[c]
    BY <2>1 DEF ProgressIsCurrent
  <2>3. scanned <= scanned' /\ scanned' <= size[c]
    BY <2>1, <2>2 DEF BatchEnd, InboxTypeOK
  <2>4. Forward
    BY <2>1, <2>3 DEF Forward
  <2>5. CASE Return(c)
    BY <2>1, <2>4, <2>5, ProgressReturns
  <2>6. CASE ~Return(c)
    <3>1. /\ upto' = [upto EXCEPT ![c] = scanned'] /\ GoScan(c, "post")
          /\ UNCHANGED <<number, size>>
      BY <1>6, <2>6 DEF BatchChecked
    <3>2. scanAt'[c] = "post" /\ upto'[c] = scanned'
      BY <3>1 DEF GoScan, InboxTypeOK
    <3>3. \A d \in Scan \ {c} : scanAt'[d] = scanAt[d] /\ upto'[d] = upto[d]
      BY <3>1 DEF GoScan, InboxTypeOK
    <3>4. \A d \in Scan \ {c} : Running(d) => ~Current(d)
      BY <2>1 DEF InboxInv, Numbered, Current
    <3>5. scan # 0
      BY <2>1 DEF InboxInv, Numbered, Current, InboxTypeOK
    <3>6. ProgressIsCurrent'
      BY <2>1, <2>3, <3>1, <3>2, <3>3, <3>4, <3>5 DEF ProgressIsCurrent, Running, Current
    <3> QED
      BY <2>4, <3>6
  <2> QED
    BY <2>5, <2>6
<1>7. ASSUME NEW c \in Scan, ScanFails(c) \/ ScanStops(c)
      PROVE  ProgressIsCurrent' /\ Forward
  <2>1. Running(c) /\ Return(c) /\ UNCHANGED <<scan, scanned, total>>
    BY <1>7 DEF ScanFails, ScanStops, Running, stateVars
  <2>2. Forward
    BY <2>1 DEF Forward, InboxTypeOK
  <2> QED
    BY <2>1, <2>2, ProgressReturns
<1>8. ASSUME NEW m \in Incoming, Arrive(m) \/ PostIncoming(m) \/ IncomingChecked(m)
      PROVE  ProgressIsCurrent' /\ Forward
  <2>1. UNCHANGED <<scan, scanAt, number, size, upto, scanned, total>>
    BY <1>8 DEF Arrive, PostIncoming, IncomingChecked, stateVars, scanVars
  <2> QED
    BY <2>1, ProgressKept
<1>9. ASSUME NEW w \in Watch \cup Restore, TapWatch(w) \/ WatchStep(w) \/ EnterInbox(w)
      PROVE  ProgressIsCurrent' /\ Forward
  <2>1. UNCHANGED <<scan, scanAt, number, size, upto, scanned, total>>
    BY <1>9 DEF TapWatch, WatchStep, RestoreOn, MayWatch, Listen, SaveGuardOn, EnterInbox,
                stateVars, scanVars
  <2> QED
    BY <2>1, ProgressKept
<1>10. CASE LeaveInbox
  <2>1. /\ scan' = scan + 1 /\ UNCHANGED <<number, size, upto>>
        /\ \A c \in Scan : scanAt'[c] = scanAt[c] \/ (~Running(c) /\ ~Running(c)')
    BY <1>10 DEF LeaveInbox, ClearScan, Running, InboxTypeOK
  <2>2. scan' # scan /\ scan' # 0 /\ \A c \in Scan : ~Current(c)'
    BY <2>1 DEF Current, InboxInv, Numbered, InboxTypeOK
  <2>3. \A c \in Scan : /\ Running(c)' <=> Running(c)
                        /\ scanAt'[c] = "read" => scanAt[c] = "read"
    BY <2>1 DEF Running
  <2> QED
    BY <2>1, <2>2, <2>3 DEF ProgressIsCurrent
<1>11. CASE KillInbox
  <2>1. /\ scan' = 0 /\ scanned' = 0 /\ total' = 0
        /\ \A c \in Scan : upto'[c] = 0 /\ scanAt'[c] = Ended(scanAt[c])
    BY <1>11 DEF KillInbox, NoResults
  <2>2. \A c \in Scan : scanAt'[c] \notin {"read", "post", "check"}
    BY <2>1 DEF Ended
  <2>3. scan' = scan => Forward
    BY <2>1 DEF ProgressIsCurrent, Forward
  <2> QED
    BY <2>1, <2>2, <2>3 DEF ProgressIsCurrent
<1> QED
  BY <1>1, <1>2, <1>3, <1>4, <1>5, <1>6, <1>7, <1>8, <1>9, <1>10, <1>11
  DEF InboxStep, InboxNext, ScanStep

-----------------------------------------------------------------------------
(* The manual check and the history *)

(* What a step of Screens does to the checks, unless it leaves them alone.   *)
SmsStep ==
  \/ SmsNext
  \/ \E u \in User : SignedOutTo(u) /\ EnterChecks
  \/ account' = NoUser /\ (KillChecks \/ UNCHANGED smsVars)

(* The steps of the checks and of the gate on them keep their types: the     *)
(* numbers stay within the bound, a list names an account and its rows.      *)
LEMMA SmsTypes ==
  ASSUME account \in Account, SmsTypeOK, SmsStep
  PROVE  SmsTypeOK'
<1>0. NoList \in List
  BY DEF NoList, List, Account
<1> USE <1>0, CheckAssumption DEF SignedIn, Move, Invalidate, callVars, historyVars
<1>1. ASSUME NEW c \in Check, StartCheck(c)
      PROVE  SmsTypeOK'
  BY <1>1 DEF StartCheck, SmsTypeOK
<1>2. ASSUME NEW c \in Check, PostCheck(c) \/ StoreCheck(c)
      PROVE  SmsTypeOK'
  BY <1>2 DEF PostCheck, StoreCheck, SmsTypeOK
<1>3. ASSUME NEW c \in Check, CheckAnswered(c) \/ CheckFails(c)
      PROVE  SmsTypeOK'
  <2>1. shown' \in [kind : {"none", "loading", "data", "error"}, by : 0..MaxCurrent]
    BY <1>3 DEF CheckAnswered, CheckFails, Show, SmsTypeOK
  <2>2. checkAt' \in [Check -> {"none", "post", "wait", "answered", "failed"}]
    BY <1>3 DEF CheckAnswered, CheckFails, SmsTypeOK
  <2>3. reply' \in List /\ list' \in List /\ fetch' \in {"idle", "due", "sent"}
    BY <1>3 DEF CheckAnswered, CheckFails, Reload, SmsTypeOK
  <2> QED
    BY <1>3, <2>1, <2>2, <2>3 DEF CheckAnswered, CheckFails, SmsTypeOK
<1>4. CASE Reset \/ OpenHistory \/ HistoryArrives
  BY <1>4 DEF Reset, OpenHistory, HistoryArrives, SmsTypeOK
<1>5. CASE FetchHistory
  <2>1. reply' \in List
    BY <1>5 DEF FetchHistory, List, SmsTypeOK
  <2> QED
    BY <1>5, <2>1 DEF FetchHistory, SmsTypeOK
<1>6. CASE EnterChecks
  BY <1>6 DEF EnterChecks, SmsTypeOK
<1>7. CASE KillChecks
  <2>1. checkAt' \in [Check -> {"none", "post", "wait", "answered", "failed"}]
    BY <1>7 DEF KillChecks, SmsTypeOK
  <2> QED
    BY <1>7, <2>1 DEF KillChecks, SmsTypeOK
<1>8. CASE UNCHANGED smsVars
  BY <1>8 DEF smsVars, SmsTypeOK
<1> QED
  BY <1>1, <1>2, <1>3, <1>4, <1>5, <1>6, <1>7, <1>8 DEF SmsStep, SmsNext

(* The numbers of the checks are given out once, and a login has one of its  *)
(* own.                                                                      *)
Counted ==
  /\ \A c \in Check :
       request[c] <= current /\ (checkAt[c] \in {"post", "wait"} => request[c] > 0)
  /\ \A c, d \in Check : request[c] = request[d] /\ request[c] > 0 => c = d
  /\ SignedIn => current > 0
  /\ shown.kind # "none" => current > 0

(* The current check was sent as the account signed in.                      *)
CurrentIsOwn ==
  SignedIn =>
    \A c \in Check : request[c] = current /\ checkAt[c] \in {"wait", "answered", "failed"}
                      => checkedAs[c] = account

AllAnswered(l) ==
  \A c \in Check : checkAt[c] = "answered" /\ checkedAs[c] = account => c \in l.rows

(* An answered check is stored, and the list on its way tells of it.         *)
Listed ==
  /\ \A c \in Check : checkAt[c] = "answered" => c \in rows
  /\ SignedIn /\ fetch = "sent" => reply.of = account /\ (reply.ok => AllAnswered(reply))

SmsInv ==
  /\ Counted /\ CurrentIsOwn /\ Listed
  /\ ScreenShowsLatest /\ HistoryIsOwn /\ AnsweredIsListed

(* The verdict shown is the current check's, which is the session's own.     *)
LEMMA OwnResult ==
  ASSUME SmsTypeOK, SmsInv
  PROVE  ResultIsOwn
<1> SUFFICES ASSUME SignedIn, shown.kind = "data", NEW c \in Check, request[c] = current
             PROVE  checkedAs[c] = account
  BY DEF ResultIsOwn
<1>1. PICK d \in Check : request[d] = current /\ checkAt[d] = "answered"
  BY DEF SmsInv, ScreenShowsLatest
<1>2. c = d
  BY <1>1 DEF SmsInv, Counted
<1> QED
  BY <1>1, <1>2 DEF SmsInv, CurrentIsOwn

(* Each step of the checks and of the gate on them keeps their invariant.    *)
LEMMA SmsKeeps ==
  ASSUME account \in Account, SmsTypeOK, SmsInv, SmsStep, SmsTypeOK'
  PROVE  SmsInv'
<1> USE DEF Move, Invalidate, callVars, historyVars
<1>1. ASSUME NEW c \in Check, StartCheck(c)
      PROVE  SmsInv'
  <2>1. /\ current' = current + 1 /\ shown'.kind = "loading" /\ shown'.by = current'
        /\ request'[c] = current' /\ checkAt'[c] = "post" /\ account' = account
        /\ UNCHANGED <<checkedAs, rows, fetch, reply, list>>
        /\ \A d \in Check \ {c} : request'[d] = request[d] /\ checkAt'[d] = checkAt[d]
    BY <1>1 DEF StartCheck, SmsTypeOK
  <2>2. current \in Nat /\ \A d \in Check : request[d] \in Nat /\ request[d] <= current
    BY CheckAssumption DEF SmsTypeOK, SmsInv, Counted
  <2>3. \A d \in Check \ {c} : request'[d] < current' /\ request'[d] # request'[c]
    BY <2>1, <2>2
  <2>4. Counted'
    BY <2>1, <2>2, <2>3 DEF SmsInv, Counted
  <2>5. CurrentIsOwn'
    BY <2>1, <2>3 DEF CurrentIsOwn
  <2>6. \A d \in Check : checkAt'[d] = "answered" => checkAt[d] = "answered"
    BY <2>1
  <2>7. Listed' /\ HistoryIsOwn' /\ AnsweredIsListed'
    BY <2>1, <2>6 DEF SmsInv, Listed, AllAnswered, HistoryIsOwn, AnsweredIsListed, SignedIn
  <2>8. ScreenShowsLatest'
    BY <2>1 DEF ScreenShowsLatest
  <2> QED
    BY <2>4, <2>5, <2>7, <2>8 DEF SmsInv
<1>2. ASSUME NEW c \in Check, PostCheck(c)
      PROVE  SmsInv'
  <2>1. /\ checkAt[c] = "post" /\ checkAt'[c] = "wait" /\ checkedAs'[c] = account
        /\ UNCHANGED <<account, current, shown, request, rows, fetch, reply, list>>
        /\ \A d \in Check \ {c} : checkedAs'[d] = checkedAs[d] /\ checkAt'[d] = checkAt[d]
    BY <1>2 DEF PostCheck, SmsTypeOK
  <2>2. Counted' /\ CurrentIsOwn'
    BY <2>1 DEF SmsInv, Counted, CurrentIsOwn, SignedIn
  <2>3. \A d \in Check : checkAt'[d] = "answered" =>
          checkAt[d] = "answered" /\ checkedAs'[d] = checkedAs[d]
    BY <2>1
  <2>4. Listed' /\ HistoryIsOwn' /\ AnsweredIsListed'
    BY <2>1, <2>3 DEF SmsInv, Listed, AllAnswered, HistoryIsOwn, AnsweredIsListed, SignedIn
  <2>5. ScreenShowsLatest'
    BY <2>1 DEF SmsInv, ScreenShowsLatest, SmsTypeOK
  <2> QED
    BY <2>2, <2>4, <2>5 DEF SmsInv
<1>3. ASSUME NEW c \in Check, StoreCheck(c)
      PROVE  SmsInv'
  <2>1. /\ rows \subseteq rows'
        /\ UNCHANGED <<account, current, shown, checkAt, request, checkedAs, fetch, reply, list>>
    BY <1>3 DEF StoreCheck
  <2>2. Counted' /\ CurrentIsOwn' /\ ScreenShowsLatest'
    BY <2>1 DEF SmsInv, Counted, CurrentIsOwn, ScreenShowsLatest, SignedIn
  <2>3. Listed' /\ HistoryIsOwn' /\ AnsweredIsListed'
    BY <2>1 DEF SmsInv, Listed, AllAnswered, HistoryIsOwn, AnsweredIsListed, SignedIn
  <2> QED
    BY <2>2, <2>3 DEF SmsInv
<1>4. ASSUME NEW c \in Check, CheckAnswered(c) \/ CheckFails(c)
      PROVE  SmsInv'
  <2>1. PICK end \in {"answered", "failed"} :
          /\ checkAt[c] = "wait" /\ checkAt'[c] = end
          /\ \A d \in Check \ {c} : checkAt'[d] = checkAt[d]
          /\ UNCHANGED <<account, current, request, checkedAs, rows, list>>
          /\ end = "answered" => c \in rows /\ fetch' = "due"
          /\ end = "failed" => UNCHANGED <<fetch, reply>>
          /\ Show(c, IF end = "answered" THEN "data" ELSE "error")
    BY <1>4 DEF CheckAnswered, CheckFails, Reload, SmsTypeOK
  <2>2. Counted'
    <3>1. request[c] > 0 /\ (request[c] = current => current > 0)
      BY <2>1 DEF SmsInv, Counted
    <3>2. shown'.kind # "none" => current > 0
      BY <2>1, <3>1 DEF Show, SmsInv, Counted
    <3> QED
      BY <2>1, <3>2 DEF SmsInv, Counted, SignedIn
  <2>3. CurrentIsOwn'
    BY <2>1 DEF SmsInv, CurrentIsOwn, SignedIn
  <2>4. ScreenShowsLatest'
    <3>1. CASE request[c] = current
      <4>1. shown' = [kind |-> IF end = "answered" THEN "data" ELSE "error", by |-> current]
        BY <2>1, <3>1 DEF Show
      <4> QED
        BY <2>1, <3>1, <4>1 DEF ScreenShowsLatest
    <3>2. CASE request[c] # current
      <4>1. shown' = shown
        BY <2>1, <3>2 DEF Show
      <4>2. \A d \in Check : request[d] = current => checkAt'[d] = checkAt[d]
        BY <2>1, <3>2
      <4> QED
        BY <2>1, <4>1, <4>2 DEF SmsInv, ScreenShowsLatest
    <3> QED
      BY <3>1, <3>2
  <2>5. CASE end = "answered"
    BY <2>1, <2>2, <2>3, <2>4, <2>5 DEF SmsInv, Listed, HistoryIsOwn, AnsweredIsListed
  <2>6. CASE end = "failed"
    <3>1. \A d \in Check : checkAt'[d] = "answered" => checkAt[d] = "answered"
      BY <2>1, <2>6
    <3>2. Listed' /\ HistoryIsOwn' /\ AnsweredIsListed'
      BY <2>1, <2>6, <3>1 DEF SmsInv, Listed, AllAnswered, HistoryIsOwn, AnsweredIsListed, SignedIn
    <3> QED
      BY <2>2, <2>3, <2>4, <3>2 DEF SmsInv
  <2> QED
    BY <2>5, <2>6
<1>5. ASSUME Move("none"), UNCHANGED callVars,
             UNCHANGED <<account, fetch, reply, list>>
               \/ fetch' = "due"
      PROVE  SmsInv'
  <2>1. current' = current + 1 /\ shown'.kind = "none" /\ shown'.by = current'
        /\ UNCHANGED <<checkAt, request, checkedAs, rows>>
    BY <1>5
  <2>2. current \in Nat /\ \A d \in Check : request[d] \in Nat /\ request[d] <= current
    BY CheckAssumption DEF SmsTypeOK, SmsInv, Counted
  <2>3. \A d \in Check : request'[d] <= current' /\ request'[d] # current'
    BY <2>1, <2>2
  <2>4. Counted'
    BY <2>1, <2>2, <2>3 DEF SmsInv, Counted
  <2>5. CurrentIsOwn' /\ ScreenShowsLatest'
    BY <2>1, <2>3 DEF CurrentIsOwn, ScreenShowsLatest
  <2>6. Listed' /\ HistoryIsOwn' /\ AnsweredIsListed'
    BY <1>5, <2>1 DEF SmsInv, Listed, AllAnswered, HistoryIsOwn, AnsweredIsListed, SignedIn
  <2> QED
    BY <2>4, <2>5, <2>6 DEF SmsInv
<1>6. ASSUME UNCHANGED <<account, current, shown, callVars>>,
             OpenHistory \/ FetchHistory \/ HistoryArrives
      PROVE  SmsInv'
  <2>1. Counted' /\ CurrentIsOwn' /\ ScreenShowsLatest'
    BY <1>6 DEF SmsInv, Counted, CurrentIsOwn, ScreenShowsLatest, SignedIn
  <2>2. CASE OpenHistory
    BY <1>6, <2>1, <2>2 DEF OpenHistory, SmsInv, Listed, HistoryIsOwn, AnsweredIsListed
  <2>3. CASE FetchHistory
    <3>1. /\ fetch' = "sent" /\ reply'.of = account
          /\ reply'.rows = {c \in rows : checkedAs[c] = account}
      BY <2>3 DEF FetchHistory
    <3>2. Listed'
      BY <1>6, <3>1 DEF SmsInv, Listed, AllAnswered
    <3> QED
      BY <1>6, <2>1, <3>1, <3>2 DEF SmsInv, HistoryIsOwn, AnsweredIsListed
  <2>4. CASE HistoryArrives
    <3>1. fetch = "sent" /\ fetch' = "idle" /\ list' = reply
      BY <2>4 DEF HistoryArrives
    <3> QED
      BY <1>6, <2>1, <3>1
      DEF SmsInv, Listed, AllAnswered, HistoryIsOwn, AnsweredIsListed, SignedIn
  <2> QED
    BY <1>6, <2>2, <2>3, <2>4
<1>7. CASE account' = NoUser /\ UNCHANGED smsVars
  BY <1>7 DEF smsVars, SmsInv, Counted, CurrentIsOwn, Listed, ScreenShowsLatest, HistoryIsOwn,
              AnsweredIsListed, SignedIn
<1>8. CASE account' = NoUser /\ KillChecks
  <2>1. /\ current' = 0 /\ shown'.kind = "none" /\ shown'.by = 0 /\ rows' = rows
        /\ \A c \in Check : request'[c] = 0
        /\ \A c \in Check : checkAt'[c] \in {"none", "failed"}
    BY <1>8 DEF KillChecks
  <2> QED
    BY <1>8, <2>1 DEF SmsInv, Counted, CurrentIsOwn, Listed, ScreenShowsLatest, HistoryIsOwn,
                      AnsweredIsListed, SignedIn
<1>9. CASE Reset \/ \E u \in User : SignedOutTo(u) /\ EnterChecks
  BY <1>5, <1>9 DEF Reset, EnterChecks
<1>10. CASE OpenHistory \/ FetchHistory \/ HistoryArrives
  BY <1>6, <1>10 DEF OpenHistory, FetchHistory, HistoryArrives
<1> QED
  BY <1>1, <1>2, <1>3, <1>4, <1>7, <1>8, <1>9, <1>10 DEF SmsStep, SmsNext

-----------------------------------------------------------------------------
(* Screens *)

ScreensInv == TypeOK /\ InboxInv /\ SmsInv

(* A step of Screens is one of each part, or leaves a part alone.            *)
LEMMA StepOfParts ==
  ASSUME TypeOK, Next
  PROVE  /\ InboxStep \/ UNCHANGED <<account, inboxVars>>
         /\ SmsStep \/ UNCHANGED <<account, smsVars>>
<1>1. InboxNext => InboxStep
  BY DEF InboxStep
<1>2. SmsNext => SmsStep
  BY DEF SmsStep
<1>3. CASE \E u \in User, r \in Restore : SignIn(u, r)
  BY <1>3 DEF SignIn, SignedOutTo, InboxStep, SmsStep
<1>4. CASE SignOut \/ Restart
  BY <1>4 DEF SignOut, Restart, InboxStep, SmsStep
<1>5. CASE InboxNext /\ UNCHANGED smsVars
  <2>1. UNCHANGED account
    BY <1>5
    DEF InboxNext, ScanStep, WatchStep, SetPermission, RefreshPermission, TapGrant, Answered,
        StartScan, NumberScan, ReadInbox, PostBatch, BatchChecked, ScanFails, ScanStops, Arrive,
        PostIncoming, IncomingChecked, TapWatch, RestoreOn, MayWatch, Listen, SaveGuardOn
  <2> QED
    BY <1>1, <1>5, <2>1
<1>6. CASE SmsNext /\ UNCHANGED inboxVars
  <2>1. UNCHANGED account
    BY <1>6
    DEF SmsNext, StartCheck, PostCheck, StoreCheck, CheckAnswered, CheckFails, Reset,
        OpenHistory, FetchHistory, HistoryArrives
  <2> QED
    BY <1>2, <1>6, <2>1
<1> QED
  BY <1>3, <1>4, <1>5, <1>6 DEF Next

LEMMA ScreensInvInit == Init => ScreensInv
<1> SUFFICES ASSUME Init PROVE ScreensInv
  OBVIOUS
<1> USE GateAssumption, InboxAssumption, CheckAssumption DEF Init, Account
<1>1. InboxTypeOK
  <2>1. postedAs \in [Scan \cup Incoming -> Account] /\ found \in [Scan -> SUBSET Finding]
    BY DEF InboxInit
  <2>2. number \in [Scan -> Nat] /\ size \in [Scan -> 0..Limit] /\ upto \in [Scan -> 0..Limit]
    BY DEF InboxInit
  <2>3. scanAt \in [Scan -> {"none", "grant", "allow", "ask", "read", "post", "check", "end"}]
    BY DEF InboxInit
  <2>4. /\ incomingAt \in [Incoming -> {"none", "post", "check", "end"}]
        /\ watchAt \in [Watch \cup Restore ->
                           {"none", "role", "pref", "perm", "ask", "listen", "save", "end"}]
    BY DEF InboxInit
  <2>5. scanned \in 0..Limit /\ total \in 0..Limit /\ findings \subseteq Finding /\ scan \in Nat
    BY DEF InboxInit
  <2>6. granted \in BOOLEAN /\ guardOn \in BOOLEAN /\ watching = FALSE /\ status = "idle"
    BY DEF InboxInit
  <2> QED
    BY <2>1, <2>2, <2>3, <2>4, <2>5, <2>6 DEF InboxTypeOK
<1>2. SmsTypeOK
  BY DEF SmsInit, SmsTypeOK, NoList, List
<1>3. InboxInv
  BY DEF InboxInit, InboxInv, Numbered, Shows, Owns, StatusIsTrue, FindingsAreOwn, Running
<1>4. SmsInv
  BY DEF SmsInit, SmsInv, Counted, CurrentIsOwn, Listed, ScreenShowsLatest, HistoryIsOwn,
         AnsweredIsListed, SignedIn
<1> QED
  BY <1>1, <1>2, <1>3, <1>4 DEF ScreensInv, TypeOK

LEMMA ScreensInvNext == ScreensInv /\ [Next]_vars => ScreensInv'
<1> SUFFICES ASSUME ScreensInv, [Next]_vars PROVE ScreensInv'
  OBVIOUS
<1> USE DEF ScreensInv, TypeOK
<1>1. /\ InboxStep \/ UNCHANGED <<account, inboxVars>>
      /\ SmsStep \/ UNCHANGED <<account, smsVars>>
  BY StepOfParts DEF vars, inboxVars, smsVars
<1>2. InboxTypeOK' /\ InboxInv' /\ account' \in Account
  <2>1. CASE InboxStep
    BY <2>1, InboxTypes, InboxKeeps
  <2>2. CASE UNCHANGED <<account, inboxVars>>
    BY <2>2 DEF inboxVars, InboxTypeOK, InboxInv, Numbered, Shows, Owns, StatusIsTrue,
                FindingsAreOwn, Running, Current, OfScan
  <2> QED
    BY <1>1, <2>1, <2>2
<1>3. SmsTypeOK' /\ SmsInv'
  <2>1. CASE SmsStep
    BY <2>1, SmsTypes, SmsKeeps
  <2>2. CASE UNCHANGED <<account, smsVars>>
    BY <2>2 DEF smsVars, SmsTypeOK, SmsInv, Counted, CurrentIsOwn, Listed, AllAnswered,
                ScreenShowsLatest, HistoryIsOwn, AnsweredIsListed, SignedIn
  <2> QED
    BY <1>1, <2>1, <2>2
<1> QED
  BY <1>2, <1>3

LEMMA ScreensInvariant == Spec => []ScreensInv
  BY ScreensInvInit, ScreensInvNext, PTL DEF Spec

(* The variables keep their types: progress within the limit, findings that  *)
(* name the call and the account they came from.                             *)
THEOREM TypeCorrect == Spec => []TypeOK
<1>1. ScreensInv => TypeOK
  BY DEF ScreensInv
<1> QED
  BY <1>1, ScreensInvariant, PTL

(* However many scans overlap and whatever else rewrites the status, one     *)
(* shown as running is running and one shown as complete checked all it read. *)
THEOREM StatusTrue == Spec => []StatusIsTrue
<1>1. ScreensInv => StatusIsTrue
  BY DEF ScreensInv, InboxInv
<1> QED
  BY <1>1, ScreensInvariant, PTL

(* No result of another account is on the screens, except an incoming        *)
(* message's.                                                                *)
THEOREM ShownOwn == Spec => []ShownIsOwn
<1>1. ScreensInv => ShownIsOwn
  BY OwnResult DEF ScreensInv, TypeOK, InboxInv, SmsInv, ShownIsOwn
<1> QED
  BY <1>1, ScreensInvariant, PTL

(* The manual check's screen is always about the latest check.               *)
THEOREM ShowsLatest == Spec => []ScreenShowsLatest
<1>1. ScreensInv => ScreenShowsLatest
  BY DEF ScreensInv, SmsInv
<1> QED
  BY <1>1, ScreensInvariant, PTL

(* A settled history lists every check that was answered to its account.     *)
THEOREM ListsAnswered == Spec => []AnsweredIsListed
<1>1. ScreensInv => AnsweredIsListed
  BY DEF ScreensInv, SmsInv
<1> QED
  BY <1>1, ScreensInvariant, PTL

(* Nothing takes away what the current scan has found.                       *)
THEOREM FindingsPersist == Spec => FindingsStay
<1>1. ScreensInv /\ [Next]_vars =>
        [scan' = scan => {f \in findings : f.from \in Scan} \subseteq findings']_inboxVars
  <2> SUFFICES ASSUME ScreensInv, [Next]_vars, scan' = scan,
                      NEW f \in findings, f.from \in Scan
               PROVE  f \in findings' \/ UNCHANGED inboxVars
    OBVIOUS
  <2>1. InboxStep \/ UNCHANGED inboxVars
    BY StepOfParts DEF ScreensInv, vars, inboxVars
  <2> QED
    BY <2>1, FindingsKept DEF ScreensInv, TypeOK, OfScan
<1> QED
  BY <1>1, ScreensInvariant, PTL DEF Spec, FindingsStay

(* The progress bar of a scan never goes back, and its length is set once,   *)
(* although scans overlap: batches of a scan that was superseded, and those  *)
(* of a session that is over, no longer move it.                             *)
THEOREM ProgressAdvances ==
  Spec => [][scan' = scan => scanned <= scanned' /\ (total' = total \/ total = 0)]_vars
<1> DEFINE IInv == ScreensInv /\ ProgressIsCurrent
<1>1. Init => IInv
  <2>1. Init => ProgressIsCurrent
    BY DEF Init, InboxInit, ProgressIsCurrent, Running
  <2> QED
    BY <2>1, ScreensInvInit
<1>2. IInv /\ [Next]_vars =>
        ProgressIsCurrent' /\ [scan' = scan => Forward]_vars
  <2> SUFFICES ASSUME ScreensInv, ProgressIsCurrent, [Next]_vars
               PROVE  ProgressIsCurrent' /\ (scan' = scan => Forward)
    OBVIOUS
  <2>1. InboxStep \/ UNCHANGED <<account, inboxVars>>
    BY StepOfParts DEF ScreensInv, vars, inboxVars
  <2>2. CASE InboxStep
    BY <2>2, ProgressKeeps DEF ScreensInv, TypeOK
  <2>3. CASE UNCHANGED <<account, inboxVars>>
    <3>1. UNCHANGED <<scan, scanAt, number, size, upto, scanned, total>>
      BY <2>3 DEF inboxVars
    <3> QED
      BY <3>1, ProgressKept DEF ScreensInv, TypeOK
  <2> QED
    BY <2>1, <2>2, <2>3
<1>3. IInv /\ [Next]_vars => IInv'
  BY <1>2, ScreensInvNext
<1>4. IInv /\ [Next]_vars =>
        [scan' = scan => scanned <= scanned' /\ (total' = total \/ total = 0)]_vars
  BY <1>2 DEF Forward
<1> QED
  BY <1>1, <1>3, <1>4, PTL DEF Spec

=============================================================================
