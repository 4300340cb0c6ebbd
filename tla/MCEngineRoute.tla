---------------------------- MODULE MCEngineRoute ----------------------------
(* The private directories and the pinned engine of documentation runs, each on its own. *)
EXTENDS PrivateDirs, EnginePin, TLC
CONSTANTS p1, p2, p3
VARIABLE part

MCNamespace == [p \in Processes |-> IF p = p3 THEN "container" ELSE "host"]
MCSymmetry == Permutations({p1, p2})
MCToolchains ==
  {[host |-> "linux", release |-> "r1", commit |-> "c", content |-> 1],
   [host |-> "linux", release |-> "r1", commit |-> "c", content |-> 2],
   [host |-> "musl", release |-> "r1", commit |-> "c", content |-> 1],
   [host |-> "linux", release |-> "r2", commit |-> "d", content |-> 1]}

MCInit ==
  /\ Init /\ EngineInit
  /\ \/ /\ part = "dirs"
        /\ source = "s1" /\ channel = "r1" /\ place = [p \in Places |-> NoToolchain]
     \/ part = "engine" /\ cache = [c \in Crates |-> "locked"]

MCNext ==
  \/ part = "dirs" /\ Next /\ UNCHANGED <<engineVars, part>>
  \/ part = "engine" /\ EngineNext /\ UNCHANGED <<vars, part>>

MCSpec == MCInit /\ [][MCNext]_<<vars, engineVars, part>>
=============================================================================
