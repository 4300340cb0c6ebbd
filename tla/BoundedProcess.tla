--------------------------- MODULE BoundedProcess ---------------------------
(***************************************************************************)
(* run_bounded: run a child process and capture at most so many bytes of   *)
(* each of its two output streams (src/src/build_inputs/bounded_process.rs *)
(* and its copy src/crates/simdoc/src/bounded_process.rs).                 *)
(*                                                                         *)
(* The parent starts one reader thread per stream and waits for what they  *)
(* send over a channel; a stream that outgrows its limit gets the child    *)
(* killed.  The child may start a grandchild, which inherits the streams   *)
(* and which nobody kills (module ChildPipes).                             *)
(***************************************************************************)
EXTENDS ChildPipes, Sequences

CONSTANTS
  StdoutLimit, StderrLimit,  \* bytes of each stream that may be captured
  ChunkSize,   \* bytes a read returns at most
  MaxErrors    \* bound on failing reads

ASSUME LimitAssumption ==
  /\ StdoutLimit \in Nat
  /\ StderrLimit \in Nat
  /\ ChunkSize \in Nat \ {0}
  /\ MaxErrors \in Nat

Limit == [s \in Streams |-> IF s = "stdout" THEN StdoutLimit ELSE StderrLimit]

VARIABLES
  kept,        \* bytes a reader captured
  over,        \* whether a reader saw its limit exceeded
  events,      \* events a reader sent and the parent did not receive yet
  parent,      \* what the parent does
  overflowed,  \* whether the parent heard of an overflow
  streams,     \* what the parent knows of each stream
  errors       \* number of failed reads so far

readerVars == <<reader, kept, over, events, errors>>
parentVars == <<parent, overflowed, streams>>
vars == <<processVars, readerVars, parentVars>>

Collected(n) == [kind |-> "collected", bytes |-> n]
Unreadable == [kind |-> "unreadable", bytes |-> 0]
Pending == [kind |-> "pending", bytes |-> 0]
Overflow == [kind |-> "overflow", bytes |-> 0]

Init ==
  /\ ProcessInit
  /\ kept = [s \in Streams |-> 0]
  /\ over = [s \in Streams |-> FALSE]
  /\ events = [s \in Streams |-> <<>>]
  /\ parent = "receive"
  /\ overflowed = FALSE
  /\ streams = [s \in Streams |-> Pending]
  /\ errors = 0

-----------------------------------------------------------------------------
(* spawn_reader: read until the end of the stream; over the limit, drop what
   was kept, tell the parent once, and go on reading. *)

Send(s, event) == events' = [events EXCEPT ![s] = Append(@, event)]

Finish(s, event) ==
  /\ reader' = [reader EXCEPT ![s] = "done"]
  /\ Send(s, event)

(* Mutant: the parent is not told of an overflow. *)
MutQuiet(s) ==
  /\ reader[s] = "reading" /\ pipe[s] > 0
  /\ LET n == Least(pipe[s], ChunkSize)
     IN  /\ Take(s, ChunkSize)
         /\ over' = [over EXCEPT ![s] = @ \/ kept[s] + n > Limit[s]]
         /\ kept' = [kept EXCEPT ![s] = IF over'[s] THEN 0 ELSE @ + n]
  /\ UNCHANGED <<alive, killed, holds, written, reader, events, errors, parentVars>>

Read(s) ==
  /\ reader[s] = "reading" /\ pipe[s] > 0
  /\ LET n == Least(pipe[s], ChunkSize)
     IN  /\ Take(s, ChunkSize)
         /\ \/ /\ over[s]
               /\ UNCHANGED <<kept, over, events>>
            \/ /\ ~over[s] /\ kept[s] + n > Limit[s]
               /\ over' = [over EXCEPT ![s] = TRUE]
               /\ kept' = [kept EXCEPT ![s] = 0]
               /\ Send(s, Overflow)
            \/ /\ ~over[s] /\ kept[s] + n <= Limit[s]
               /\ kept' = [kept EXCEPT ![s] = @ + n]
               /\ UNCHANGED <<over, events>>
  /\ UNCHANGED <<alive, killed, holds, written, reader, errors, parentVars>>

(* Mutant: a reader past its limit ends without a word. *)
MutReadEnd(s) ==
  /\ reader[s] = "reading" /\ AtEnd(s)
  /\ IF over[s]
       THEN reader' = [reader EXCEPT ![s] = "done"] /\ UNCHANGED events
       ELSE Finish(s, Collected(kept[s]))
  /\ UNCHANGED <<processVars, kept, over, errors, parentVars>>

ReadEnd(s) ==
  /\ reader[s] = "reading" /\ AtEnd(s)
  /\ Finish(s, Collected(kept[s]))
  /\ UNCHANGED <<processVars, kept, over, errors, parentVars>>

(* read failed: what was kept is lost, the pipe is closed. *)
ReadError(s) ==
  /\ reader[s] = "reading"
  /\ errors < MaxErrors
  /\ errors' = errors + 1
  /\ Finish(s, Unreadable)
  /\ UNCHANGED <<processVars, kept, over, parentVars>>

-----------------------------------------------------------------------------
(* run_bounded.  Events of one reader arrive in the order they were sent;
   those of two readers in any order. *)

Waiting == \E s \in Streams : streams[s] = Pending

(* Mutant: an overflow is noted, the child left alone. *)
MutReceive(s) ==
  /\ parent = "receive" /\ Waiting /\ events[s] # <<>>
  /\ events' = [events EXCEPT ![s] = Tail(@)]
  /\ IF Head(events[s]) = Overflow
       THEN overflowed' = TRUE /\ UNCHANGED streams
       ELSE streams' = [streams EXCEPT ![s] = Head(events[s])] /\ UNCHANGED overflowed
  /\ UNCHANGED <<processVars, reader, kept, over, errors, parent>>

(* The first overflow kills the child, which may have exited already. *)
Receive(s) ==
  /\ parent = "receive" /\ Waiting /\ events[s] # <<>>
  /\ events' = [events EXCEPT ![s] = Tail(@)]
  /\ IF Head(events[s]) = Overflow
       THEN /\ overflowed' = TRUE
            /\ Kill
            /\ UNCHANGED streams
       ELSE /\ streams' = [streams EXCEPT ![s] = Head(events[s])]
            /\ UNCHANGED <<overflowed, killed>>
  /\ UNCHANGED <<alive, holds, pipe, written, reader, kept, over, errors, parent>>

(* Both readers are done: join them, then wait for the child to exit. *)
Return ==
  /\ parent = "receive" /\ ~Waiting
  /\ "child" \notin alive
  /\ parent' = IF overflowed THEN "refused"
               ELSE IF \E s \in Streams : streams[s] = Unreadable THEN "unreadable"
               ELSE "captured"
  /\ UNCHANGED <<processVars, readerVars, overflowed, streams>>

Returned == parent # "receive"

-----------------------------------------------------------------------------

Others == UNCHANGED <<kept, over, events, errors, parentVars>>

Reader(s) == Read(s) \/ ReadEnd(s) \/ ReadError(s)

Parent == Return \/ \E s \in Streams : Receive(s)

Done == Returned /\ UNCHANGED vars

Next ==
  \/ ProcessStep /\ Others
  \/ \E s \in Streams : Reader(s)
  \/ Parent
  \/ Done

Spec == Init /\ [][Next]_vars

(* Threads are scheduled and a killed child dies. *)
FairSpec ==
  /\ Spec
  /\ \A s \in Streams : WF_vars(Read(s) \/ ReadEnd(s))
  /\ WF_vars(Parent)
  /\ WF_vars(killed /\ Exit("child") /\ Others)

-----------------------------------------------------------------------------
(* Properties. *)

TypeOK ==
  /\ ProcessTypeOK
  /\ reader \in [Streams -> {"reading", "done"}]
  /\ kept \in [Streams -> Nat]
  /\ over \in [Streams -> BOOLEAN]
  /\ \A s \in Streams : Len(events[s]) <= 2
  /\ parent \in {"receive", "captured", "refused", "unreadable"}
  /\ overflowed \in BOOLEAN
  /\ \A s \in Streams : streams[s].kind \in {"pending", "collected", "unreadable"}
  /\ errors \in 0..MaxErrors

(* "capturing at most stdout_limit and stderr_limit bytes": no reader ever
   keeps more than its limit, whatever the sizes of the reads. *)
CaptureIsBounded == \A s \in Streams : kept[s] <= Limit[s]

(* A run that reports captured output captured all of it: nothing any process
   wrote before the end of the streams is missing, in either stream.  A run is
   refused for its output only if a stream outgrew its limit. *)
CaptureIsComplete ==
  /\ parent = "captured" =>
       \A s \in Streams : streams[s] = Collected(written[s]) /\ written[s] <= Limit[s]
  /\ parent = "refused" => \E s \in Streams : written[s] > Limit[s]

(* A child whose output outgrows its limit is terminated: it does not run for
   ever, even if it never stops writing. *)
OverIsKilled == \A s \in Streams : over[s] ~> "child" \notin alive

(* A process that fills a pipe is not blocked for ever: the readers go on
   reading past the limit. *)
PipesDrain == \A s \in Streams : pipe[s] = PipeSize ~> pipe[s] < PipeSize \/ reader[s] = "done"

(* If every process exits some time, the parent returns. *)
AlwaysReturns == alive = {} ~> Returned

(* "the reader keeps draining (and discarding) so that a grandchild still
   holding the pipe can never block the parent" (bounded_process.rs:9-11). *)
KilledReturns == killed ~> Returned

=============================================================================
