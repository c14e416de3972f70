--------------------------- MODULE MigrateProofs ---------------------------
(***************************************************************************)
(* Migration is safe for any number of replicas, files and crashes.  What  *)
(* makes the properties inductive is that everything is a prefix of the    *)
(* sorted list: the recorded versions, and so what each process has left,  *)
(* which in turn is never more than what others have recorded since.       *)
(*                                                                         *)
(* The last part is about the schema that no start can complete any more:  *)
(* it takes a fault to get there, and nothing leads out.                   *)
(***************************************************************************)
EXTENDS Migrate, TLAPS

(* The recorded versions are the first ones. *)
RecordedPrefix == \E k \in 0..Files : recorded = 1..k

(* A process in the loop has the last files left, and those before them are *)
(* recorded; the one it is about to record is applied.                       *)
InLoop(r) ==
  pc[r] \in {"apply", "record"} =>
    \E k \in File : /\ todo[r] = k..Files
                    /\ 1..(k-1) \subseteq recorded
                    /\ pc[r] = "record" => k \in applied

Loops == \A r \in Replica : InLoop(r)

IInv ==
  /\ TypeOK /\ RecordedPrefix /\ Loops
  /\ RecordedIsApplied /\ AppliedInOrder /\ ServingIsMigrated

-----------------------------------------------------------------------------

(* The next file of a process is the first of those it has left. *)
LEMMA NextIsFirst ==
  ASSUME NEW r \in Replica, NEW k \in File, todo[r] = k..Files
  PROVE  NextFile(r) = k
<1>1. k \in todo[r] /\ \A f \in todo[r] : k <= f
  BY MigrateAssumption DEF File
<1>2. \A f \in todo[r] : (\A g \in todo[r] : f <= g) => f = k
  <2>. SUFFICES ASSUME NEW f \in todo[r], \A g \in todo[r] : f <= g
                PROVE  f = k
    OBVIOUS
  <2>1. f \in Int /\ k \in Int
    BY MigrateAssumption DEF File
  <2>2. f <= k /\ k <= f
    BY <1>1
  <2>. QED
    BY <2>1, <2>2
<1>. QED
  BY <1>1, <1>2 DEF NextFile, Min

LEMMA InitIInv == Init => IInv
<1>. SUFFICES ASSUME Init PROVE IInv
  OBVIOUS
<1>1. recorded = 1..0 /\ 0 \in 0..Files
  BY MigrateAssumption DEF Init
<1>. QED
  BY <1>1, MigrateAssumption
  DEF Init, IInv, TypeOK, RecordedPrefix, Loops, InLoop, RecordedIsApplied,
      AppliedInOrder, ServingIsMigrated, File

(* Whatever a process has left, going on with it leads to a well-placed one. *)
LEMMA ContinueInLoop ==
  ASSUME IInv, NEW r \in Replica, NEW k \in 0..Files, 1..k \subseteq recorded',
         recorded' \subseteq applied', applied' \subseteq File,
         Continue(r, (k+1)..Files)
  PROVE  /\ InLoop(r)'
         /\ pc'[r] \in {"boot", "serving"} => applied' = File
<1> USE MigrateAssumption DEF IInv, TypeOK, File
<1>1. CASE k = Files
  <2>1. (k+1)..Files = {}
    BY <1>1
  <2>2. 1..k = File
    BY <1>1
  <2>. QED
    BY <2>1, <2>2 DEF Continue, Goto, InLoop
<1>2. CASE k < Files
  <2>1. (k+1)..Files # {} /\ k+1 \in File /\ 1..((k+1)-1) = 1..k
    BY <1>2
  <2>. QED
    BY <2>1 DEF Continue, Goto, InLoop
<1>. QED
  BY <1>1, <1>2

LEMMA StepIInv == IInv /\ [Next]_vars => IInv'
<1>. SUFFICES ASSUME IInv, [Next]_vars PROVE IInv'
  OBVIOUS
<1> USE MigrateAssumption DEF File
<1>1. ASSUME NEW r \in Replica, Start(r) PROVE IInv'
  BY <1>1 DEF Start, Goto, IInv, TypeOK, RecordedPrefix, Loops, InLoop, RecordedIsApplied,
      AppliedInOrder, ServingIsMigrated
<1>2. ASSUME NEW r \in Replica, LoadApplied(r) PROVE IInv'
  <2>1. PICK k \in 0..Files : recorded = 1..k
    BY DEF IInv, RecordedPrefix
  <2>2. File \ Loaded = (k+1)..Files
    BY <2>1 DEF Loaded
  <2>3. InLoop(r)' /\ (pc'[r] \in {"boot", "serving"} => applied' = File)
    BY <1>2, <2>1, <2>2, ContinueInLoop DEF LoadApplied, IInv, RecordedIsApplied, TypeOK
  <2>. QED
    BY <1>2, <2>2, <2>3
    DEF LoadApplied, Continue, Goto, IInv, TypeOK, RecordedPrefix, Loops, InLoop,
        RecordedIsApplied, AppliedInOrder, ServingIsMigrated
<1>3. ASSUME NEW r \in Replica, ApplyFile(r) PROVE IInv'
  <2>1. PICK k \in File : todo[r] = k..Files /\ 1..(k-1) \subseteq recorded
    BY <1>3 DEF ApplyFile, IInv, Loops, InLoop
  <2>2. NextFile(r) = k
    BY <2>1, NextIsFirst
  <2>3. applied' \in {applied, applied \cup {k}} /\ (pc'[r] = "record" => k \in applied')
    BY <1>3, <2>2 DEF ApplyFile, Apply, Fail, Goto, IInv, TypeOK
  <2>4. pc'[r] \in {"down", "record"} /\ \A q \in Replica \ {r} : pc'[q] = pc[q]
    BY <1>3, <2>2 DEF ApplyFile, Apply, Fail, Goto, IInv, TypeOK
  <2>5. TypeOK'
    BY <1>3, <2>2 DEF ApplyFile, Apply, Fail, Goto, IInv, TypeOK
  <2>6. RecordedPrefix' /\ RecordedIsApplied'
    BY <1>3, <2>3 DEF ApplyFile, IInv, RecordedPrefix, RecordedIsApplied
  <2>7. AppliedInOrder'
    BY <2>1, <2>3 DEF IInv, TypeOK, AppliedInOrder, RecordedIsApplied
  <2>8. Loops'
    BY <1>3, <2>1, <2>3, <2>4 DEF ApplyFile, IInv, Loops, InLoop
  <2>9. ServingIsMigrated'
    BY <2>1, <2>3, <2>4 DEF IInv, ServingIsMigrated
  <2>. QED
    BY <2>5, <2>6, <2>7, <2>8, <2>9 DEF IInv
<1>4. ASSUME NEW r \in Replica, RecordVersion(r) PROVE IInv'
  <2>1. PICK k \in File : todo[r] = k..Files /\ 1..(k-1) \subseteq recorded /\ k \in applied
    BY <1>4 DEF RecordVersion, IInv, Loops, InLoop
  <2>2. NextFile(r) = k
    BY <2>1, NextIsFirst
  <2>3. CASE k \in recorded
    BY <1>4, <2>2, <2>3
    DEF RecordVersion, Fail, Goto, IInv, TypeOK, RecordedPrefix, Loops, InLoop,
        RecordedIsApplied, AppliedInOrder, ServingIsMigrated
  <2>4. CASE k \notin recorded
    <3>1. recorded = 1..(k-1)
      BY <2>1, <2>4 DEF IInv, RecordedPrefix
    <3>2. recorded' = 1..k /\ k \in 0..Files /\ todo[r] \ {k} = (k+1)..Files
      <4>1. recorded' = recorded \cup {k}
        BY <1>4, <2>2, <2>4 DEF RecordVersion
      <4>2. (1..(k-1)) \cup {k} = 1..k /\ k \in 0..Files
        OBVIOUS
      <4>3. (k..Files) \ {k} = (k+1)..Files
        OBVIOUS
      <4>. QED
        BY <2>1, <3>1, <4>1, <4>2, <4>3
    <3>3. Continue(r, (k+1)..Files) /\ UNCHANGED <<applied, faults>>
      BY <1>4, <2>2, <2>4, <3>2 DEF RecordVersion
    <3>4. RecordedPrefix' /\ RecordedIsApplied' /\ AppliedInOrder'
      BY <2>1, <3>1, <3>2, <3>3
      DEF IInv, RecordedPrefix, RecordedIsApplied, AppliedInOrder
    <3>5. InLoop(r)' /\ (pc'[r] \in {"boot", "serving"} => applied' = File)
      BY <3>2, <3>3, <3>4, ContinueInLoop DEF IInv, TypeOK, RecordedIsApplied
    <3>6. TypeOK' /\ \A q \in Replica \ {r} : pc'[q] = pc[q] /\ todo'[q] = todo[q]
      BY <3>2, <3>3 DEF Continue, Goto, IInv, TypeOK
    <3>7. recorded \subseteq recorded'
      BY <3>1, <3>2
    <3>8. Loops'
      BY <3>3, <3>5, <3>6, <3>7 DEF IInv, Loops, InLoop
    <3>9. ServingIsMigrated'
      BY <3>3, <3>5, <3>6 DEF IInv, ServingIsMigrated
    <3>. QED
      BY <3>4, <3>6, <3>8, <3>9 DEF IInv
  <2>. QED
    BY <2>3, <2>4
<1>5. ASSUME NEW r \in Replica, Serve(r) PROVE IInv'
  BY <1>5 DEF Serve, Goto, IInv, TypeOK, RecordedPrefix, Loops, InLoop, RecordedIsApplied,
      AppliedInOrder, ServingIsMigrated
<1>6. ASSUME NEW r \in Replica, Crash(r) PROVE IInv'
  BY <1>6 DEF Crash, Goto, IInv, TypeOK, RecordedPrefix, Loops, InLoop, RecordedIsApplied,
      AppliedInOrder, ServingIsMigrated
<1>7. CASE UNCHANGED vars
  BY <1>7 DEF vars, IInv, TypeOK, RecordedPrefix, Loops, InLoop, RecordedIsApplied,
      AppliedInOrder, ServingIsMigrated, NextFile
<1>. QED
  BY <1>1, <1>2, <1>3, <1>4, <1>5, <1>6, <1>7 DEF Next, Step

(* The invariant holds in every reachable state. *)
THEOREM Inductive == Spec => []IInv
  BY InitIInv, StepIInv, PTL DEF Spec

(* The variables keep their types. *)
THEOREM TypeCorrect == Spec => []TypeOK
<1>1. IInv => TypeOK
  BY DEF IInv
<1>. QED
  BY Inductive, <1>1, PTL

(* A recorded version has been applied, however many replicas race. *)
THEOREM RecordIsTrue == Spec => []RecordedIsApplied
<1>1. IInv => RecordedIsApplied
  BY DEF IInv
<1>. QED
  BY Inductive, <1>1, PTL

(* Files are applied in the order of their names. *)
THEOREM OrderIsKept == Spec => []AppliedInOrder
<1>1. IInv => AppliedInOrder
  BY DEF IInv
<1>. QED
  BY Inductive, <1>1, PTL

(* No replica serves on an incomplete schema. *)
THEOREM ServesOnCompleteSchema == Spec => []ServingIsMigrated
<1>1. IInv => ServingIsMigrated
  BY DEF IInv
<1>. QED
  BY Inductive, <1>1, PTL

-----------------------------------------------------------------------------
(* What a crash between the two statements does, and what nothing else does. *)

(* Migrate is left only when every version is recorded, which is more than   *)
(* that every file is applied.                                               *)
LeavesRecorded == \A r \in Replica : pc[r] \in {"boot", "serving"} => recorded = File

LEMMA RecordedStep == IInv /\ LeavesRecorded /\ [Next]_vars => LeavesRecorded'
<1>. SUFFICES ASSUME IInv, LeavesRecorded, [Next]_vars PROVE LeavesRecorded'
  OBVIOUS
<1> USE MigrateAssumption DEF IInv, TypeOK, LeavesRecorded, Goto
<1>1. ASSUME NEW r \in Replica, LoadApplied(r) PROVE LeavesRecorded'
  BY <1>1 DEF LoadApplied, Continue, Loaded
<1>2. ASSUME NEW r \in Replica, RecordVersion(r) PROVE LeavesRecorded'
  <2>1. PICK k \in File : todo[r] = k..Files /\ 1..(k-1) \subseteq recorded
    BY <1>2 DEF RecordVersion, Loops, InLoop
  <2>2. NextFile(r) = k
    BY <2>1, NextIsFirst
  <2>3. recorded \subseteq recorded' /\ recorded' \subseteq File
    BY <1>2, <2>2 DEF RecordVersion
  <2>4. ASSUME pc'[r] = "boot" PROVE recorded' = File
    <3>1. recorded' = recorded \cup {k} /\ todo[r] \ {k} = {}
      BY <1>2, <2>2, <2>4 DEF RecordVersion, Continue, Fail
    <3>2. Files \in todo[r]
      BY <2>1 DEF File
    <3>3. k = Files
      BY <3>1, <3>2
    <3>4. File \subseteq 1..(k-1) \cup {k}
      BY <3>3 DEF File
    <3>. QED
      BY <2>1, <2>3, <3>1, <3>4
  <2>5. pc'[r] \in {"boot", "apply", "down"} /\ \A q \in Replica \ {r} : pc'[q] = pc[q]
    BY <1>2 DEF RecordVersion, Continue, Fail
  <2>. QED
    BY <2>3, <2>4, <2>5
<1>3. ASSUME NEW r \in Replica, Start(r) \/ ApplyFile(r) \/ Serve(r) \/ Crash(r)
      PROVE  LeavesRecorded'
  BY <1>3 DEF Start, ApplyFile, Apply, Fail, Serve, Crash
<1>4. CASE UNCHANGED vars
  BY <1>4 DEF vars
<1>. QED
  BY <1>1, <1>2, <1>3, <1>4 DEF Next, Step

(* Nobody takes a wedge away: the file cannot be applied again, so no        *)
(* process comes to record it.                                               *)
LEMMA WedgedStep == TypeOK /\ Wedged /\ [Next]_vars => Wedged'
<1>. SUFFICES ASSUME TypeOK, Wedged, [Next]_vars PROVE Wedged'
  OBVIOUS
<1>1. PICK f \in applied \ (recorded \cup Idempotent) :
        \A r \in Replica : ~(pc[r] = "record" /\ NextFile(r) = f)
  BY DEF Wedged
<1>. SUFFICES /\ f \in applied' \ (recorded' \cup Idempotent)
              /\ \A r \in Replica : ~(pc'[r] = "record" /\ NextFile(r)' = f)
  BY DEF Wedged
<1> USE <1>1 DEF TypeOK, Goto
<1>2. ASSUME NEW r \in Replica, ApplyFile(r)
      PROVE  /\ f \in applied' \ (recorded' \cup Idempotent)
             /\ \A q \in Replica : ~(pc'[q] = "record" /\ NextFile(q)' = f)
  <2>1. \A q \in Replica : NextFile(q)' = NextFile(q)
    BY <1>2 DEF ApplyFile, NextFile
  <2>2. pc'[r] = "record" => NextFile(r) # f
    BY <1>2 DEF ApplyFile, Apply, Fail
  <2>. QED
    BY <1>2, <2>1, <2>2 DEF ApplyFile, Apply, Fail
<1>3. ASSUME NEW r \in Replica, LoadApplied(r) \/ RecordVersion(r)
      PROVE  /\ f \in applied' \ (recorded' \cup Idempotent)
             /\ \A q \in Replica : ~(pc'[q] = "record" /\ NextFile(q)' = f)
  <2>1. pc'[r] # "record" /\ \A q \in Replica \ {r} : pc'[q] = pc[q]
    BY <1>3 DEF LoadApplied, RecordVersion, Continue, Fail
  <2>2. \A q \in Replica \ {r} : todo'[q] = todo[q]
    BY <1>3 DEF LoadApplied, RecordVersion, Continue
  <2>3. f \notin recorded' /\ f \in applied'
    BY <1>3 DEF LoadApplied, RecordVersion
  <2>. QED
    BY <2>1, <2>2, <2>3 DEF NextFile
<1>4. ASSUME NEW r \in Replica, Start(r) \/ Serve(r) \/ Crash(r)
      PROVE  /\ f \in applied' \ (recorded' \cup Idempotent)
             /\ \A q \in Replica : ~(pc'[q] = "record" /\ NextFile(q)' = f)
  BY <1>4 DEF Start, Serve, Crash, NextFile
<1>5. CASE UNCHANGED vars
  BY <1>5 DEF vars, NextFile
<1>. QED
  BY <1>2, <1>3, <1>4, <1>5 DEF Next, Step

(* Without a crash, a file that is applied and not recorded is in the hands  *)
(* of a process that is about to record it.                                  *)
InHand ==
  faults = 0 =>
    \A f \in applied \ recorded : \E r \in Replica : pc[r] = "record" /\ NextFile(r) = f

LEMMA InHandStep == TypeOK /\ InHand /\ [Next]_vars => InHand'
<1>. SUFFICES ASSUME TypeOK, InHand, [Next]_vars, faults' = 0, NEW f \in applied' \ recorded'
              PROVE  \E r \in Replica : pc'[r] = "record" /\ NextFile(r)' = f
  BY DEF InHand
<1> USE MigrateAssumption DEF TypeOK, InHand, Goto
<1>1. ASSUME NEW r \in Replica, ApplyFile(r)
      PROVE  \E q \in Replica : pc'[q] = "record" /\ NextFile(q)' = f
  <2>1. \A q \in Replica : NextFile(q)' = NextFile(q)
    BY <1>1 DEF ApplyFile, NextFile
  <2>2. CASE f \in applied
    <3>1. PICK q \in Replica : pc[q] = "record" /\ NextFile(q) = f
      BY <1>1, <2>2 DEF ApplyFile
    <3>2. q # r
      BY <1>1, <3>1 DEF ApplyFile
    <3>. QED
      BY <1>1, <2>1, <3>1, <3>2 DEF ApplyFile, Apply, Fail
  <2>3. CASE f \notin applied
    BY <1>1, <2>1, <2>3 DEF ApplyFile, Apply, Fail
  <2>. QED
    BY <2>2, <2>3
<1>2. ASSUME NEW r \in Replica, Start(r) \/ LoadApplied(r) \/ RecordVersion(r) \/ Serve(r)
      PROVE  \E q \in Replica : pc'[q] = "record" /\ NextFile(q)' = f
  <2>1. f \in applied \ recorded /\ faults = 0
    BY <1>2 DEF Start, LoadApplied, RecordVersion, Serve
  <2>2. PICK q \in Replica : pc[q] = "record" /\ NextFile(q) = f
    BY <2>1
  <2>3. q # r
    BY <1>2, <2>1, <2>2 DEF Start, LoadApplied, RecordVersion, Serve
  <2>4. pc'[q] = pc[q] /\ todo'[q] = todo[q]
    BY <1>2, <2>3 DEF Start, LoadApplied, RecordVersion, Serve, Continue, Fail
  <2>. QED
    BY <2>2, <2>4 DEF NextFile
<1>3. ASSUME NEW r \in Replica, Crash(r)
      PROVE  \E q \in Replica : pc'[q] = "record" /\ NextFile(q)' = f
  BY <1>3 DEF Crash
<1>4. CASE UNCHANGED vars
  BY <1>4 DEF vars, NextFile
<1>. QED
  BY <1>1, <1>2, <1>3, <1>4 DEF Next, Step

(* A crash between applying a file and recording it is final: from then on   *)
(* no replica ever serves, however often the cluster restarts it.            *)
THEOREM WedgedForGood == Spec => [](Wedged => [](Wedged /\ \A r \in Replica : pc[r] # "serving"))
<1>1. Init => LeavesRecorded
  BY DEF Init, LeavesRecorded
<1>2. Spec => []LeavesRecorded
  BY <1>1, Inductive, RecordedStep, PTL DEF Spec
<1>3. IInv /\ LeavesRecorded /\ Wedged => \A r \in Replica : pc[r] # "serving"
  BY DEF Wedged, LeavesRecorded, IInv, TypeOK
<1>4. IInv => TypeOK
  BY DEF IInv
<1>. QED
  BY <1>2, <1>3, <1>4, Inductive, WedgedStep, PTL DEF Spec

(* And it takes a crash: replicas that only race through the files and make  *)
(* each other's statements fail never wedge the start-up, whatever their     *)
(* number.                                                                   *)
THEOREM RacingNeverWedges == Spec => [](faults = 0 => ~Wedged)
<1>1. Init => InHand
  BY DEF Init, InHand
<1>2. Spec => []InHand
  BY <1>1, TypeCorrect, InHandStep, PTL DEF Spec
<1>3. InHand => (faults = 0 => ~Wedged)
  BY DEF InHand, Wedged
<1>. QED
  BY <1>2, <1>3, PTL

=============================================================================
