------------------------ MODULE AtomicReplaceProofs ------------------------
(***************************************************************************)
(* That a file replaced by any number of calls is always whole, for any    *)
(* process ids, sizes, failures and crashes, as long as no two calls run   *)
(* under one process id at the same time.                                  *)
(***************************************************************************)
EXTENDS AtomicReplace, TLAPS

(* Every reachable state is well typed, whoever shares a process id. *)
THEOREM TypeCorrect == Spec => []TypeOK
<1>1. Init => TypeOK
  BY ReplaceAssumption DEF Init, TypeOK, Files, Steps
<1>2. TypeOK /\ [Next]_vars => TypeOK'
  <2> SUFFICES ASSUME TypeOK, [Next]_vars PROVE TypeOK'
    OBVIOUS
  <2> USE ReplaceAssumption DEF TypeOK, Files, Steps, Goto, readerVars
  <2>1. ASSUME NEW w \in Writers, Create(w) PROVE TypeOK'
    BY <2>1 DEF Create
  <2>2. ASSUME NEW w \in Writers, Write(w) PROVE TypeOK'
    BY <2>2 DEF Write
  <2>3. ASSUME NEW w \in Writers, Sync(w) PROVE TypeOK'
    BY <2>3 DEF Sync
  <2>4. ASSUME NEW w \in Writers, Rename(w) PROVE TypeOK'
    BY <2>4 DEF Rename
  <2>5. ASSUME NEW w \in Writers, SyncDir(w) PROVE TypeOK'
    BY <2>5 DEF SyncDir
  <2>6. ASSUME NEW w \in Writers, Fail(w) PROVE TypeOK'
    BY <2>6 DEF Fail
  <2>7. ASSUME NEW w \in Writers, Cleanup(w) PROVE TypeOK'
    BY <2>7 DEF Cleanup
  <2>8. ASSUME NEW w \in Writers, Crash(w) PROVE TypeOK'
    BY <2>8 DEF Crash
  <2>9. CASE Inspect \/ Read
    BY <2>9 DEF Inspect, Read
  <2>10. CASE UNCHANGED vars
    BY <2>10 DEF vars
  <2> QED
    BY <2>1, <2>2, <2>3, <2>4, <2>5, <2>6, <2>7, <2>8, <2>9, <2>10 DEF Next, Writer
<1> QED
  BY <1>1, <1>2, PTL DEF Spec

-----------------------------------------------------------------------------
(* The inductive invariant: live calls have process ids of their own, so each
   finds its own file under its temporary name; what it renames is whole, and
   once renamed it was installed. *)

Exclusive ==
  \A v, w \in Writers : Live(v) /\ Live(w) /\ Pid[v] = Pid[w] => v = w

WholeWhenSynced ==
  \A w \in Writers : pc[w] \in {"sync", "rename"} => data[w] = "whole"

InstalledWhenRenamed ==
  \A w \in Writers : pc[w] \in {"sync_dir", "done"} => w \in installed

Inductive ==
  /\ TypeOK
  /\ Exclusive
  /\ OwnTemp
  /\ WholeWhenSynced
  /\ TargetIsWhole
  /\ InstalledWhenRenamed

LEMMA InductiveStep ==
  ASSUME ~Shared, Inductive, TypeOK', [Next]_vars
  PROVE  Inductive'
<1> USE ReplaceAssumption DEF Inductive, TypeOK, Exclusive, OwnTemp, WholeWhenSynced,
      TargetIsWhole, InstalledWhenRenamed, Live, Files, Written, Goto, readerVars
<1>1. ASSUME NEW w \in Writers, Create(w) PROVE Inductive'
  BY <1>1 DEF Create
<1>2. ASSUME NEW w \in Writers, Write(w) PROVE Inductive'
  BY <1>2 DEF Write
<1>3. ASSUME NEW w \in Writers, Sync(w) PROVE Inductive'
  BY <1>3 DEF Sync
<1>4. ASSUME NEW w \in Writers, Rename(w) PROVE Inductive'
  BY <1>4 DEF Rename
<1>5. ASSUME NEW w \in Writers, SyncDir(w) PROVE Inductive'
  BY <1>5 DEF SyncDir
<1>6. ASSUME NEW w \in Writers, Fail(w) PROVE Inductive'
  BY <1>6 DEF Fail
<1>7. ASSUME NEW w \in Writers, Cleanup(w) PROVE Inductive'
  BY <1>7 DEF Cleanup
<1>8. ASSUME NEW w \in Writers, Crash(w) PROVE Inductive'
  BY <1>8 DEF Crash
<1>9. CASE Inspect \/ Read
  BY <1>9 DEF Inspect, Read
<1>10. CASE UNCHANGED vars
  BY <1>10 DEF vars
<1> QED
  BY <1>1, <1>2, <1>3, <1>4, <1>5, <1>6, <1>7, <1>8, <1>9, <1>10 DEF Next, Writer

(* The inductive invariant holds in every reachable state. *)
THEOREM InductiveHolds ==
  ASSUME ~Shared
  PROVE  Spec => []Inductive
<1>1. Init /\ TypeOK => Inductive
  BY ReplaceAssumption DEF Init, Inductive, Exclusive, OwnTemp, WholeWhenSynced, TargetIsWhole,
     InstalledWhenRenamed, Live, Written
<1>2. Inductive /\ TypeOK' /\ [Next]_vars => Inductive'
  BY InductiveStep
<1> QED
  BY <1>1, <1>2, TypeCorrect, PTL DEF Spec

(* Whoever opens the target finds a whole file (FsReportDir::replace,
   atomic_write). *)
THEOREM AlwaysWhole ==
  ASSUME ~Shared
  PROVE  Spec => []TargetIsWhole
<1>1. Inductive => TargetIsWhole
  BY DEF Inductive
<1> QED
  BY <1>1, InductiveHolds, PTL

(* A call that reports success has had its own file installed. *)
THEOREM SuccessMeansInstalled ==
  ASSUME ~Shared
  PROVE  Spec => []SuccessIsInstalled
<1>1. Inductive => SuccessIsInstalled
  BY DEF Inductive, InstalledWhenRenamed, SuccessIsInstalled
<1> QED
  BY <1>1, InductiveHolds, PTL

-----------------------------------------------------------------------------
(* Refinement: only a rename changes what the target holds, and it installs
   the caller's own, whole file. *)

LEMMA StepReplaces ==
  ASSUME ~Shared, Inductive, Inductive', [Next]_vars
  PROVE  Register!Next \/ UNCHANGED target
<1> USE DEF readerVars
<1>1. ASSUME NEW w \in Writers, Rename(w) PROVE Register!Next \/ UNCHANGED target
  <2>1. CASE target' = target
    BY <2>1
  <2>2. CASE target' # target
    <3>1. target' \in Files /\ target' # Absent
      BY <1>1, <2>2, ReplaceAssumption DEF Rename, Inductive, OwnTemp, Files, TypeOK
    <3>2. Written(target)' = "whole"
      BY <3>1 DEF Inductive, TargetIsWhole
    <3> QED
      BY <3>1, <3>2 DEF Register!Next, Register!Replace, Written
  <2> QED
    BY <2>1, <2>2
<1>2. ASSUME NEW w \in Writers,
             Create(w) \/ Write(w) \/ Sync(w) \/ SyncDir(w) \/ Fail(w) \/ Cleanup(w) \/ Crash(w)
      PROVE  UNCHANGED target
  BY <1>2 DEF Create, Write, Sync, SyncDir, Fail, Cleanup, Crash
<1>3. CASE Inspect \/ Read \/ UNCHANGED vars
  BY <1>3 DEF Inspect, Read, vars
<1> QED
  BY <1>1, <1>2, <1>3 DEF Next, Writer

(* The calls implement an atomically replaced register: "Atomically replaces
   an artifact at a canonical Table path" (report.rs:320). *)
THEOREM ReplacesRegister ==
  ASSUME ~Shared
  PROVE  Spec => ReplacesAtomically
<1> DEFINE torn == IF target = Absent \/ Written(target) = "whole" THEN target ELSE "torn"
<1>1. Init => Register!Init
  BY ReplaceAssumption DEF Init, Register!Init, Files, Written
<1>2. Inductive /\ Inductive' /\ [Next]_vars => [Register!Next]_torn
  <2> SUFFICES ASSUME Inductive, Inductive', [Next]_vars
               PROVE  Register!Next \/ torn' = torn
    OBVIOUS
  <2>1. torn = target /\ torn' = target'
    BY DEF Inductive, TargetIsWhole
  <2> QED
    BY <2>1, StepReplaces
<1> QED
  BY <1>1, <1>2, InductiveHolds, PTL DEF Spec, ReplacesAtomically, Register!Spec

=============================================================================
