--------------------------- MODULE AtomicReplace ---------------------------
(***************************************************************************)
(* Replacing one file by way of a temporary file named after the process:  *)
(* FsReportDir::replace and read_bounded (src/src/bench/report.rs), and    *)
(* atomic_write (src/crates/simdoc/src/repo_contract_cli.rs), which removes *)
(* nothing when it could not create its file and does not sync the         *)
(* directory.                                                              *)
(*                                                                         *)
(* A writer is one call.  Files are named by the writer that created them, *)
(* so a rename moves whatever file has the name, and a writer whose file   *)
(* was removed goes on writing to it.                                      *)
(***************************************************************************)
EXTENDS Naturals

CONSTANTS
  Writers,    \* the calls that replace the file
  Old,        \* the file that was there before
  Absent,     \* no file
  Pids,       \* process ids
  Pid,        \* the process id of each call
  Shared,     \* whether calls under one process id may run at the same time
  Size,       \* the bytes of each whole file
  ByteLimit,  \* the bytes a reader accepts
  ForReports, \* whether this is FsReportDir::replace, not atomic_write
  MaxErrors   \* bound on failing system calls

ASSUME ReplaceAssumption ==
  /\ Old \notin Writers /\ Absent \notin Writers \cup {Old}
  /\ Pid \in [Writers -> Pids]
  /\ Shared \in BOOLEAN
  /\ Size \in [Writers \cup {Old} -> Nat] /\ ByteLimit \in Nat
  /\ ForReports \in BOOLEAN
  /\ MaxErrors \in Nat

VARIABLES
  pc,         \* what each writer does next
  target,     \* the file under the name that is replaced
  temp,       \* the file under each process's temporary name
  data,       \* how much of each writer's file is written
  installed,  \* history: the files that were ever under the target's name
  reader,     \* what a reader does next
  seen,       \* the file a reader read, and how much of it
  errors      \* number of failing system calls so far

vars == <<pc, target, temp, data, installed, reader, seen, errors>>
readerVars == <<reader, seen>>

Files == Writers \cup {Old}

Written(file) == IF file = Old THEN "whole" ELSE data[file]

Init ==
  /\ pc = [w \in Writers |-> "idle"]
  /\ target \in {Old, Absent}
  /\ temp = [p \in Pids |-> Absent]
  /\ data = [w \in Writers |-> "nothing"]
  /\ installed = {target}
  /\ reader = "idle"
  /\ seen = Absent
  /\ errors = 0

Goto(w, step) == pc' = [pc EXCEPT ![w] = step]

Live(w) == pc[w] \in {"write", "sync", "rename", "sync_dir", "cleanup"}

-----------------------------------------------------------------------------

(* create_new fails if the name is taken. *)
Create(w) ==
  /\ pc[w] = "idle"
  /\ Shared \/ \A v \in Writers : Pid[v] = Pid[w] => ~Live(v)
  /\ IF temp[Pid[w]] = Absent
       THEN /\ temp' = [temp EXCEPT ![Pid[w]] = w]
            /\ Goto(w, "write")
       ELSE /\ Goto(w, IF ForReports THEN "cleanup" ELSE "failed")
            /\ UNCHANGED temp
  /\ UNCHANGED <<target, data, installed, readerVars, errors>>

(* Mutant: the file is renamed before all of it is written. *)
MutWrite(w) ==
  /\ pc[w] = "write"
  /\ data' = [data EXCEPT ![w] = IF @ = "nothing" THEN "part" ELSE "whole"]
  /\ Goto(w, "sync")
  /\ UNCHANGED <<target, temp, installed, readerVars, errors>>

(* write_all, in two writes. *)
Write(w) ==
  /\ pc[w] = "write"
  /\ data' = [data EXCEPT ![w] = IF @ = "nothing" THEN "part" ELSE "whole"]
  /\ Goto(w, IF data[w] = "nothing" THEN "write" ELSE "sync")
  /\ UNCHANGED <<target, temp, installed, readerVars, errors>>

Sync(w) ==
  /\ pc[w] = "sync"
  /\ Goto(w, "rename")
  /\ UNCHANGED <<target, temp, data, installed, readerVars, errors>>

Rename(w) ==
  /\ pc[w] = "rename"
  /\ IF temp[Pid[w]] = Absent
       THEN /\ Goto(w, "cleanup")
            /\ UNCHANGED <<target, temp, installed>>
       ELSE /\ target' = temp[Pid[w]]
            /\ installed' = installed \cup {target'}
            /\ temp' = [temp EXCEPT ![Pid[w]] = Absent]
            /\ Goto(w, IF ForReports THEN "sync_dir" ELSE "done")
  /\ UNCHANGED <<data, readerVars, errors>>

SyncDir(w) ==
  /\ pc[w] = "sync_dir"
  /\ Goto(w, "done")
  /\ UNCHANGED <<target, temp, data, installed, readerVars, errors>>

(* Mutant: a failing rename is ignored. *)
MutFail(w) ==
  /\ pc[w] \in {"write", "sync", "rename", "sync_dir"}
  /\ errors < MaxErrors
  /\ errors' = errors + 1
  /\ Goto(w, IF pc[w] = "rename" THEN "done" ELSE "cleanup")
  /\ UNCHANGED <<target, temp, data, installed, readerVars>>

(* A system call fails; a failing write may have written something. *)
Fail(w) ==
  /\ pc[w] \in {"write", "sync", "rename", "sync_dir"}
  /\ errors < MaxErrors
  /\ errors' = errors + 1
  /\ Goto(w, "cleanup")
  /\ UNCHANGED <<target, temp, data, installed, readerVars>>

Cleanup(w) ==
  /\ pc[w] = "cleanup"
  /\ temp' = [temp EXCEPT ![Pid[w]] = Absent]
  /\ Goto(w, "failed")
  /\ UNCHANGED <<target, data, installed, readerVars, errors>>

Crash(w) ==
  /\ Live(w)
  /\ Goto(w, "crashed")
  /\ UNCHANGED <<target, temp, data, installed, readerVars, errors>>

-----------------------------------------------------------------------------
(* read_bounded: ask for the size, then read. *)

Inspect ==
  /\ reader = "idle" /\ target # Absent
  /\ Size[target] <= ByteLimit
  /\ reader' = "read"
  /\ UNCHANGED <<pc, target, temp, data, installed, seen, errors>>

Read ==
  /\ reader = "read"
  /\ seen' = target
  /\ reader' = "idle"
  /\ UNCHANGED <<pc, target, temp, data, installed, errors>>

Writer(w) ==
  \/ Create(w) \/ Write(w) \/ Sync(w) \/ Rename(w) \/ SyncDir(w)
  \/ Fail(w) \/ Cleanup(w) \/ Crash(w)

Next == (\E w \in Writers : Writer(w)) \/ Inspect \/ Read

Spec == Init /\ [][Next]_vars

-----------------------------------------------------------------------------
(* Properties. *)

Steps == {"idle", "write", "sync", "rename", "sync_dir", "cleanup", "done", "failed", "crashed"}

TypeOK ==
  /\ pc \in [Writers -> Steps]
  /\ target \in Files \cup {Absent}
  /\ temp \in [Pids -> Writers \cup {Absent}]
  /\ data \in [Writers -> {"nothing", "part", "whole"}]
  /\ installed \subseteq Files \cup {Absent}
  /\ reader \in {"idle", "read"}
  /\ seen \in Files \cup {Absent}
  /\ errors \in 0..MaxErrors

(* "Atomically replaces an artifact at a canonical Table path"
   (report.rs:320): nobody ever finds a part of a file under the target's
   name, whoever crashes or reuses the process id of a crashed writer. *)
TargetIsWhole == target # Absent => Written(target) = "whole"

(* A call that reports success has had its own file installed. *)
SuccessIsInstalled == \A w \in Writers : pc[w] = "done" => w \in installed

(* Only a crash leaves a temporary file behind, and the next call under its
   process id removes it or is refused. *)
LeftoverIsCrashed ==
  \A p \in Pids : temp[p] # Absent => Live(temp[p]) \/ pc[temp[p]] = "crashed"

(* What the path holds, seen by a reader: one whole artifact after another. *)
Register == INSTANCE AtomicFile WITH
  Artifacts <- Files,
  held <- IF target = Absent \/ Written(target) = "whole" THEN target ELSE "torn"

ReplacesAtomically == Register!Spec

(* "Reads an artifact under a strict byte limit" (report.rs:322). *)
ReadIsBounded == seen # Absent => Size[seen] <= ByteLimit

(* What makes the others hold while no process id is shared: a writer's
   temporary name is its own until it has renamed or given up. *)
OwnTemp ==
  \A w \in Writers : pc[w] \in {"write", "sync", "rename"} => temp[Pid[w]] = w

=============================================================================
