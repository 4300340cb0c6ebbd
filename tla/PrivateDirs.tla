---------------------------- MODULE PrivateDirs ----------------------------
(***************************************************************************)
(* The private directories of documentation runs (private_dir and          *)
(* hermetic_home of src/src/cargo_home.rs, and their copy in               *)
(* src/crates/simdoc/src/cargo_home.rs, as simdoc_route.rs uses them).     *)
(*                                                                         *)
(* A process makes a Cargo home with the locked crates and a target        *)
(* directory, both named after its process id.  Before it makes either, it *)
(* removes the directories whose process id it cannot find.  Ids are used  *)
(* again, and a process only sees those of its own namespace.              *)
(***************************************************************************)
EXTENDS Naturals, FiniteSets

CONSTANTS
  Processes,  \* processes, each with an id for its life
  Namespace,  \* the process-id namespace of each
  Pids,       \* process ids
  Crates,     \* the registry crates of Cargo.lock
  MaxEdits    \* bound on changes of the real Cargo cache

ASSUME DirsAssumption == IsFiniteSet(Crates) /\ MaxEdits \in Nat /\ 0 \notin Pids

Labels == {"home", "target"}

VARIABLES
  pid,      \* the id of each process; 0 before and after its life
  pc,       \* what each process does next
  dirs,     \* the private directories there are
  held,     \* what the Cargo home of each process holds
  listed,   \* the directories a sweep still has to look at
  doomed,   \* the directories a sweep is about to remove
  cache,    \* each archive of the real Cargo cache
  edits,    \* number of changes of the cache so far
  due,      \* history: what the sweep under way ought to remove
  foreign   \* history: the processes whose directories one of another namespace judged

vars == <<pid, pc, dirs, held, listed, doomed, cache, edits, due, foreign>>

(* A directory is simdoc-private-<id>-<time>-<label>; the time tells processes apart. *)
Dir(p, label) == [owner |-> p, pid |-> pid[p], label |-> label]

Alive(p) == pid[p] # 0
Exists(p, id) == \E q \in Processes : Namespace[q] = Namespace[p] /\ pid[q] = id

Init ==
  /\ pid = [p \in Processes |-> 0]
  /\ pc = [p \in Processes |-> "unborn"]
  /\ dirs = {} /\ held = [p \in Processes |-> {}]
  /\ listed = [p \in Processes |-> {}] /\ doomed = [p \in Processes |-> {}]
  /\ cache \in [Crates -> {"locked", "other", "absent"}]
  /\ edits = 0
  /\ due = [p \in Processes |-> {}] /\ foreign = {}

Goto(p, step) == pc' = [pc EXCEPT ![p] = step]
-----------------------------------------------------------------------------
(* The system gives a process an id that nobody of its namespace has. *)
Start(p) ==
  /\ pc[p] = "unborn"
  /\ \E id \in Pids :
       /\ ~Exists(p, id)
       /\ pid' = [pid EXCEPT ![p] = id]
       /\ due' = [q \in Processes |-> {d \in due[q] : d.pid # id}]
  /\ Goto(p, "list_home")
  /\ UNCHANGED <<dirs, held, listed, doomed, cache, edits, foreign>>

(* The end of a process, or its death at any time; its directories stay. *)
End(p) ==
  /\ Alive(p)
  /\ pid' = [pid EXCEPT ![p] = 0]
  /\ Goto(p, "gone")
  /\ listed' = [listed EXCEPT ![p] = {}] /\ doomed' = [doomed EXCEPT ![p] = {}]
  /\ due' = [due EXCEPT ![p] = {}]
  /\ UNCHANGED <<dirs, held, cache, edits, foreign>>
-----------------------------------------------------------------------------
(* private_dir. *)

ListStep == [home |-> "list_home", target |-> "list_target"]
SweepStep == [home |-> "sweep_home", target |-> "sweep_target"]

List(p) ==
  \E label \in Labels :
    /\ pc[p] = ListStep[label]
    /\ listed' = [listed EXCEPT ![p] = dirs]
    /\ due' = [due EXCEPT ![p] = {d \in dirs : ~Exists(p, d.pid)}]
    /\ Goto(p, SweepStep[label])
    /\ UNCHANGED <<pid, dirs, held, doomed, cache, edits, foreign>>

(* Mutant: a directory is judged by whether its id is the caller's own. *)
MutJudge(p) ==
  \E d \in listed[p] :
    /\ doomed[p] = {}
    /\ listed' = [listed EXCEPT ![p] = @ \ {d}]
    /\ doomed' = [doomed EXCEPT ![p] = IF d.pid = pid[p] THEN {} ELSE {d}]
    /\ foreign' = IF Namespace[d.owner] = Namespace[p] THEN foreign ELSE foreign \cup {d.owner}
    /\ UNCHANGED <<pid, pc, dirs, held, cache, edits, due>>

(* One directory is judged by whether /proc/<id> exists, *)
Judge(p) ==
  \E d \in listed[p] :
    /\ doomed[p] = {}
    /\ listed' = [listed EXCEPT ![p] = @ \ {d}]
    /\ doomed' = [doomed EXCEPT ![p] = IF Exists(p, d.pid) THEN {} ELSE {d}]
    /\ foreign' = IF Namespace[d.owner] = Namespace[p] THEN foreign ELSE foreign \cup {d.owner}
    /\ UNCHANGED <<pid, pc, dirs, held, cache, edits, due>>

(* and removed some time later. *)
RemoveDir(p) ==
  /\ doomed[p] # {}
  /\ dirs' = dirs \ doomed[p]
  /\ doomed' = [doomed EXCEPT ![p] = {}]
  /\ UNCHANGED <<pid, pc, held, listed, cache, edits, due, foreign>>

(* Mutant: the sweep stops at the first directory it has judged. *)
MutSwept(p) == doomed[p] = {}
Swept(p) == listed[p] = {} /\ doomed[p] = {}

Make(p) ==
  \E label \in Labels :
    /\ pc[p] = SweepStep[label] /\ Swept(p)
    /\ dirs' = dirs \cup {Dir(p, label)}
    /\ Goto(p, IF label = "home" THEN "fill" ELSE "use")
    /\ listed' = [listed EXCEPT ![p] = {}]
    /\ due' = [due EXCEPT ![p] = {}]
    /\ UNCHANGED <<pid, held, doomed, cache, edits, foreign>>
-----------------------------------------------------------------------------
(* hermetic_home. *)

(* Mutant: an archive that is not in the cache is left out. *)
MutFill(p, c) ==
  /\ pc[p] = "fill" /\ c \notin {h.crate : h \in held[p]}
  /\ cache[c] # "other"
  /\ held' = [held EXCEPT ![p] = @ \cup {[crate |-> c, content |-> cache[c]]}]
  /\ UNCHANGED <<pid, pc, dirs, listed, doomed, cache, edits, due, foreign>>

(* The archive is read once, has the digest of Cargo.lock, and is written: an archive
   that is another or is not there ends the run. *)
Fill(p, c) ==
  /\ pc[p] = "fill" /\ c \notin {h.crate : h \in held[p]}
  /\ cache[c] = "locked"
  /\ held' = [held EXCEPT ![p] = @ \cup {[crate |-> c, content |-> cache[c]]}]
  /\ UNCHANGED <<pid, pc, dirs, listed, doomed, cache, edits, due, foreign>>

Filled(p) ==
  /\ pc[p] = "fill" /\ {h.crate : h \in held[p]} = Crates
  /\ Goto(p, "list_target")
  /\ UNCHANGED <<pid, dirs, held, listed, doomed, cache, edits, due, foreign>>

(* Other programs download, replace and clean what is in the real cache. *)
CacheEdit ==
  /\ edits < MaxEdits
  /\ edits' = edits + 1
  /\ \E c \in Crates, content \in {"locked", "other", "absent"} :
       cache' = [cache EXCEPT ![c] = content]
  /\ UNCHANGED <<pid, pc, dirs, held, listed, doomed, due, foreign>>
-----------------------------------------------------------------------------
ProcessStep(p) ==
  \/ Start(p) \/ End(p) \/ List(p) \/ Judge(p) \/ RemoveDir(p) \/ Make(p)
  \/ (\E c \in Crates : Fill(p, c)) \/ Filled(p)

Next == (\E p \in Processes : ProcessStep(p)) \/ CacheEdit

Spec == Init /\ [][Next]_vars
-----------------------------------------------------------------------------
Made(p) == IF pc[p] = "use" THEN Labels
           ELSE IF pc[p] \in {"fill", "list_target", "sweep_target"} THEN {"home"} ELSE {}

(* The directories of a process that is alive stay where they are, however many sweeps
   look at them and whoever had its id before (cargo_home.rs:52), unless the sweep of
   another namespace looked, which cannot see the process. *)
LiveDirsStay ==
  \A p \in Processes : Alive(p) /\ p \notin foreign =>
    \A label \in Made(p) : Dir(p, label) \in dirs

(* When a directory is made, all those are gone whose process was dead when the sweep
   began and whose id nobody has been given since. *)
SweepsAreComplete ==
  [][\A p \in Processes : pc[p] \in {"sweep_home", "sweep_target"} /\ pc'[p] \in {"fill", "use"} =>
       due[p] \cap dirs = {}]_vars

(* A home that is used holds the archives that Cargo.lock names, each with its digest,
   and nothing else, whatever happens to the real cache meanwhile. *)
HomesAreLocked ==
  \A p \in Processes : pc[p] \in {"list_target", "sweep_target", "use"} =>
    held[p] = [crate : Crates, content : {"locked"}]

=============================================================================
