----------------------------- MODULE AtomicFile -----------------------------
(***************************************************************************)
(* What "atomically replaces an artifact" promises a reader: the path holds *)
(* nothing or one whole artifact, and changes from one to another in a     *)
(* step (the trait AtomicReportDir of src/src/bench/report.rs).            *)
(***************************************************************************)
CONSTANTS
  Artifacts,  \* the artifacts that may be written
  Absent      \* no artifact

VARIABLE held

Init == held \in Artifacts \cup {Absent}

Replace(artifact) == held' = artifact

Next == \E artifact \in Artifacts : Replace(artifact)

Spec == Init /\ [][Next]_held

=============================================================================
