------------------------------- MODULE Migrate -------------------------------
(***************************************************************************)
(* Start-up of the backend: store.Migrate and what main does around it.    *)
(* Several replicas start at once and are restarted whenever they exit.    *)
(* Applying a migration file and recording its version are two statements  *)
(* in two transactions.  A statement that fails makes the process exit, so *)
(* a failure and a crash at that statement are the same event here.        *)
(*                                                                         *)
(* Files are their position in the sorted list.  A file is sent as one     *)
(* simple-protocol query, hence applied as a whole or not at all.          *)
(***************************************************************************)
EXTENDS Integers, FiniteSets, FiniteSetsExt

CONSTANTS
  Replica,     \* backend processes
  Files,       \* number of files under migrations/
  Idempotent,  \* the files that may be applied again (0002 only inserts what is missing)
  MaxFaults    \* bounds the crashes and failed statements of a behaviour

ASSUME MigrateAssumption ==
  /\ Files \in Nat
  /\ Idempotent \subseteq 1..Files
  /\ MaxFaults \in Nat

VARIABLES
  applied,     \* files whose statements have taken effect
  recorded,    \* versions in schema_migrations
  pc,          \* where each process is
  todo,        \* files a process has yet to go through, by what it loaded
  faults       \* crashes so far

vars == <<applied, recorded, pc, todo, faults>>

File == 1..Files

TypeOK ==
  /\ applied \subseteq File
  /\ recorded \subseteq File
  /\ pc \in [Replica -> {"down", "load", "apply", "record", "boot", "serving"}]
  /\ todo \in [Replica -> SUBSET File]
  /\ faults \in 0..MaxFaults

Init ==
  /\ applied = {} /\ recorded = {}
  /\ pc = [r \in Replica |-> "down"]
  /\ todo = [r \in Replica |-> {}]
  /\ faults = 0

-----------------------------------------------------------------------------

Goto(r, step) == pc' = [pc EXCEPT ![r] = step]

(* Mutant: Migrate's error is logged and start-up goes on. *)
FailAndServe(r) == Goto(r, "boot")

(* run returns the error and the process exits. *)
Fail(r) == Goto(r, "down")

(* Mutant: ReadDir's names are not sorted. *)
NextFileUnsorted(r) == Max(todo[r])

NextFile(r) == Min(todo[r])

(* The loop over the files: skip what is done, then leave Migrate. *)
Continue(r, rest) ==
  /\ todo' = [todo EXCEPT ![r] = rest]
  /\ Goto(r, IF rest = {} THEN "boot" ELSE "apply")

(* The container is (re)started; CREATE TABLE IF NOT EXISTS. *)
Start(r) ==
  /\ pc[r] = "down"
  /\ Goto(r, "load")
  /\ UNCHANGED <<applied, recorded, todo, faults>>

(* Mutant: the versions are not read back. *)
LoadedNothing == {}

Loaded == recorded

LoadApplied(r) ==
  /\ pc[r] = "load"
  /\ Continue(r, File \ Loaded)
  /\ UNCHANGED <<applied, recorded, faults>>

(* Mutant: the error of the file's statements is not looked at. *)
ApplyUnchecked(r, f) ==
  /\ applied' \in {applied, applied \cup {f}}
  /\ Goto(r, "record")

(* The statements of a file that is already there fail, unless it is         *)
(* idempotent.                                                               *)
Apply(r, f) ==
  /\ IF f \in applied \ Idempotent
     THEN Fail(r) /\ UNCHANGED applied
     ELSE Goto(r, "record") /\ applied' = applied \cup {f}

ApplyFile(r) ==
  /\ pc[r] = "apply"
  /\ Apply(r, NextFile(r))
  /\ UNCHANGED <<recorded, todo, faults>>

(* version is the primary key of schema_migrations. *)
RecordVersion(r) ==
  /\ pc[r] = "record"
  /\ \/ /\ NextFile(r) \in recorded
        /\ Fail(r) /\ UNCHANGED <<recorded, todo>>
     \/ /\ NextFile(r) \notin recorded
        /\ recorded' = recorded \cup {NextFile(r)}
        /\ Continue(r, todo[r] \ {NextFile(r)})
  /\ UNCHANGED <<applied, faults>>

(* Administrators, Redis and the classifier; then ListenAndServe. *)
Serve(r) ==
  /\ pc[r] = "boot"
  /\ Goto(r, "serving")
  /\ UNCHANGED <<applied, recorded, todo, faults>>

Crash(r) ==
  /\ pc[r] # "down" /\ faults < MaxFaults
  /\ faults' = faults + 1
  /\ Goto(r, "down")
  /\ UNCHANGED <<applied, recorded, todo>>

Step(r) == Start(r) \/ LoadApplied(r) \/ ApplyFile(r) \/ RecordVersion(r) \/ Serve(r)

Next == \E r \in Replica : Step(r) \/ Crash(r)

Spec == Init /\ [][Next]_vars

(* Processes run, and the cluster restarts those that exit. *)
FairSpec == Spec /\ \A r \in Replica : WF_vars(Step(r))

-----------------------------------------------------------------------------
(* Properties *)

(* schema_migrations never claims a file that is not there, although several *)
(* replicas write it and crash between the two statements.                   *)
RecordedIsApplied == recorded \subseteq applied

(* Files take effect in the order of their names, so a file may rely on the  *)
(* ones before it (0002 and 0003 alter tables of 0001).                      *)
AppliedInOrder == \A f \in applied : 1..f \subseteq applied

(* A replica serves only on the complete schema, whoever applied it.         *)
ServingIsMigrated == \A r \in Replica : pc[r] \in {"boot", "serving"} => applied = File

(* A file is there that no start can apply again, and nobody is about to     *)
(* record it.                                                                *)
Wedged ==
  \E f \in applied \ (recorded \cup Idempotent) :
    \A r \in Replica : ~(pc[r] = "record" /\ NextFile(r) = f)

(* Replicas that race through the files and make each other fail all come up *)
(* in the end, unless a crash has fallen between the two statements.         *)
ServesUnlessWedged == <>(Wedged \/ \A r \in Replica : pc[r] = "serving")

(* backend README: the server applies the migrations on startup and listens. *)
(* After a crash between the two statements no start ever gets that far.     *)
AppliesAndListens == <>(\E r \in Replica : pc[r] = "serving")

=============================================================================
