-------------------------- MODULE MCAtomicReplace --------------------------
(* Three calls, two of them or all under one process id; the second writes more than
   a reader accepts. *)
EXTENDS AtomicReplace

CONSTANTS w1, w2, w3

MCWriters == {w1, w2, w3}
MCPid == [w \in MCWriters |-> IF w = w3 THEN 2 ELSE 1]
MCOnePid == [w \in MCWriters |-> 1]
MCSize == [f \in MCWriters \cup {Old} |-> IF f = w2 THEN 2 ELSE 1]

=============================================================================
