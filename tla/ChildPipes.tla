----------------------------- MODULE ChildPipes -----------------------------
(***************************************************************************)
(* What the two process runners of the code (build_inputs/                 *)
(* bounded_process.rs, bench/exec.rs) start and what they share with it: a *)
(* child process, the pipes of its two output streams, and the threads     *)
(* that read them.  The child may start a grandchild, which inherits the   *)
(* streams and which nobody kills.  Bytes are counted, not looked at.      *)
(***************************************************************************)
EXTENDS Naturals, FiniteSets

CONSTANTS
  PipeSize,    \* bytes a pipe holds
  Grandchild,  \* whether the child may start a grandchild
  MaxOutput    \* bound on the bytes written to a stream

ASSUME ProcessAssumption ==
  /\ PipeSize \in Nat \ {0}
  /\ Grandchild \in BOOLEAN
  /\ MaxOutput \in Nat

Streams == {"stdout", "stderr"}
Processes == {"child", "grandchild"}

VARIABLES
  alive,       \* the processes that run
  killed,      \* whether the child was sent SIGKILL while it ran
  holds,       \* the streams a process holds open
  pipe,        \* bytes written to a stream and not read yet
  written,     \* history: bytes written to each stream
  reader       \* what each reader thread does

processVars == <<alive, killed, holds, pipe, written>>

Least(m, n) == IF m <= n THEN m ELSE n

ProcessInit ==
  /\ alive = {"child"}
  /\ killed = FALSE
  /\ holds = [p \in Processes |-> IF p = "child" THEN Streams ELSE {}]
  /\ pipe = [s \in Streams |-> 0]
  /\ written = [s \in Streams |-> 0]
  /\ reader = [s \in Streams |-> "reading"]

(* A write blocks while the pipe is full; it fails when nobody reads. *)
Write(p, s) ==
  /\ p \in alive /\ s \in holds[p] /\ reader[s] = "reading"
  /\ ~(p = "child" /\ killed)
  /\ \E n \in 1..Least(PipeSize - pipe[s], MaxOutput - written[s]) :
       /\ pipe' = [pipe EXCEPT ![s] = @ + n]
       /\ written' = [written EXCEPT ![s] = @ + n]
  /\ UNCHANGED <<alive, killed, holds, reader>>

CloseStream(p, s) ==
  /\ p \in alive /\ s \in holds[p]
  /\ ~(p = "child" /\ killed)
  /\ holds' = [holds EXCEPT ![p] = @ \ {s}]
  /\ UNCHANGED <<alive, killed, pipe, written, reader>>

Fork ==
  /\ Grandchild
  /\ alive = {"child"} /\ ~killed
  /\ holds' = [holds EXCEPT !["grandchild"] = holds["child"]]
  /\ alive' = Processes
  /\ UNCHANGED <<killed, pipe, written, reader>>

(* A process exits, or a killed child dies. *)
Exit(p) ==
  /\ p \in alive
  /\ alive' = alive \ {p}
  /\ holds' = [holds EXCEPT ![p] = {}]
  /\ UNCHANGED <<killed, pipe, written, reader>>

ProcessStep ==
  \/ \E p \in Processes : Exit(p) \/ \E s \in Streams : Write(p, s) \/ CloseStream(p, s)
  \/ Fork

(* kill(2) of a child that exited and was not waited for succeeds and does
   nothing. *)
Kill == killed' = (killed \/ "child" \in alive)

(* A read of at most size bytes. *)
Take(s, size) == pipe' = [pipe EXCEPT ![s] = @ - Least(@, size)]

(* The end of a stream: nothing to read and nobody to write. *)
AtEnd(s) == pipe[s] = 0 /\ \A p \in Processes : s \notin holds[p]

ProcessTypeOK ==
  /\ alive \subseteq Processes
  /\ killed \in BOOLEAN
  /\ holds \in [Processes -> SUBSET Streams]
  /\ pipe \in [Streams -> 0..PipeSize]
  /\ written \in [Streams -> 0..MaxOutput]

=============================================================================
