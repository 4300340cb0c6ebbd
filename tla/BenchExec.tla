----------------------------- MODULE BenchExec -----------------------------
(***************************************************************************)
(* execute: run one benchmark workload with bounded output and time        *)
(* (src/src/bench/exec.rs).  Two threads drain the streams and retain a    *)
(* prefix of each; the parent polls the child until it exits or the        *)
(* deadline is past, then kills and reaps it, then joins the threads.      *)
(***************************************************************************)
EXTENDS ChildPipes

CONSTANTS
  StdoutLimit, StderrLimit,  \* bytes of each stream that are retained
  ChunkSize,   \* bytes a read returns at most
  MaxErrors    \* bound on failing system calls

ASSUME LimitAssumption ==
  /\ StdoutLimit \in Nat
  /\ StderrLimit \in Nat
  /\ ChunkSize \in Nat \ {0}
  /\ MaxErrors \in Nat

Limit == [s \in Streams |-> IF s = "stdout" THEN StdoutLimit ELSE StderrLimit]

VARIABLES
  retained,    \* bytes a reader retained
  truncated,   \* whether a reader dropped a byte
  due,         \* whether the deadline is past
  parent,      \* what the parent does
  timedOut,    \* timed_out of the sample
  fate,        \* history: how the child ended
  errors       \* number of failed system calls so far

readerVars == <<reader, retained, truncated>>
parentVars == <<due, parent, timedOut>>
execVars == <<processVars, readerVars, parentVars, fate, errors>>

ExecInit ==
  /\ ProcessInit
  /\ retained = [s \in Streams |-> 0]
  /\ truncated = [s \in Streams |-> FALSE]
  /\ due = FALSE
  /\ parent = "poll"
  /\ timedOut = FALSE
  /\ fate = "none"
  /\ errors = 0

Process ==
  /\ ProcessStep
  /\ fate' = IF "child" \in alive \ alive'
               THEN IF killed THEN "killed" ELSE "exited"
               ELSE fate
  /\ UNCHANGED <<retained, truncated, parentVars, errors>>

-----------------------------------------------------------------------------
(* drain: retain what fits, note what does not, read to the end. *)

(* Mutant: a stream that only reaches its limit counts as truncated. *)
MutReach(s) ==
  /\ reader[s] = "reading" /\ pipe[s] > 0
  /\ LET read      == Least(pipe[s], ChunkSize)
         available == Limit[s] - retained[s]
     IN  /\ retained' = [retained EXCEPT ![s] = @ + Least(read, available)]
         /\ truncated' = [truncated EXCEPT ![s] = @ \/ read >= available]
  /\ Take(s, ChunkSize)
  /\ UNCHANGED <<alive, killed, holds, written, reader, parentVars, fate, errors>>

(* Mutant: a reader stops at its limit. *)
MutStop(s) ==
  /\ reader[s] = "reading" /\ pipe[s] > 0 /\ ~truncated[s]
  /\ LET read      == Least(pipe[s], ChunkSize)
         available == Limit[s] - retained[s]
     IN  /\ retained' = [retained EXCEPT ![s] = @ + Least(read, available)]
         /\ truncated' = [truncated EXCEPT ![s] = @ \/ read > available]
  /\ Take(s, ChunkSize)
  /\ UNCHANGED <<alive, killed, holds, written, reader, parentVars, fate, errors>>

Read(s) ==
  /\ reader[s] = "reading" /\ pipe[s] > 0
  /\ LET read      == Least(pipe[s], ChunkSize)
         available == Limit[s] - retained[s]
     IN  /\ retained' = [retained EXCEPT ![s] = @ + Least(read, available)]
         /\ truncated' = [truncated EXCEPT ![s] = @ \/ read > available]
  /\ Take(s, ChunkSize)
  /\ UNCHANGED <<alive, killed, holds, written, reader, parentVars, fate, errors>>

ReadEnd(s) ==
  /\ reader[s] = "reading" /\ AtEnd(s)
  /\ reader' = [reader EXCEPT ![s] = "done"]
  /\ UNCHANGED <<processVars, retained, truncated, parentVars, fate, errors>>

Fails == errors < MaxErrors /\ errors' = errors + 1

ReadError(s) ==
  /\ reader[s] = "reading" /\ Fails
  /\ reader' = [reader EXCEPT ![s] = "failed"]
  /\ UNCHANGED <<processVars, retained, truncated, parentVars, fate>>

-----------------------------------------------------------------------------
(* wait_bounded *)

Goto(step) == parent' = step

Elapse ==
  /\ ~due
  /\ due' = TRUE
  /\ UNCHANGED <<processVars, readerVars, parent, timedOut, fate, errors>>

(* try_wait *)
Poll ==
  /\ parent = "poll"
  /\ Goto(IF "child" \in alive THEN "check" ELSE "stdout")
  /\ UNCHANGED <<processVars, readerVars, due, timedOut, fate, errors>>

(* Mutant: at the deadline the child is waited for and not killed. *)
MutCheckDeadline ==
  /\ parent = "check"
  /\ Goto(IF due THEN "reap" ELSE "poll")
  /\ UNCHANGED <<processVars, readerVars, due, timedOut, fate, errors>>

CheckDeadline ==
  /\ parent = "check"
  /\ IF due
       THEN /\ Kill
            /\ Goto("reap")
       ELSE /\ UNCHANGED killed
            /\ Goto("poll")
  /\ UNCHANGED <<alive, holds, pipe, written, readerVars, due, timedOut, fate, errors>>

Reap ==
  /\ parent = "reap" /\ "child" \notin alive
  /\ timedOut' = TRUE
  /\ Goto("stdout")
  /\ UNCHANGED <<processVars, readerVars, due, fate, errors>>

(* try_wait, kill or wait fails: execute returns and leaves the child and the
   threads to themselves. *)
WaitError ==
  /\ parent \in {"poll", "check", "reap"} /\ Fails
  /\ parent = "check" => due
  /\ Goto("failed")
  /\ UNCHANGED <<processVars, readerVars, due, timedOut, fate>>

(* stdout is joined first; its failure hides what became of stderr. *)
Join(s, next) ==
  /\ parent = s /\ reader[s] # "reading"
  /\ Goto(IF reader[s] = "failed" THEN "failed" ELSE next)
  /\ UNCHANGED <<processVars, readerVars, due, timedOut, fate, errors>>

Returned == parent \in {"sampled", "failed"}

-----------------------------------------------------------------------------

Parent == Poll \/ CheckDeadline \/ Reap \/ Join("stdout", "stderr") \/ Join("stderr", "sampled")

ExecNext ==
  \/ Process
  \/ \E s \in Streams : Read(s) \/ ReadEnd(s) \/ ReadError(s)
  \/ Elapse
  \/ Parent \/ WaitError
  \/ Returned /\ UNCHANGED execVars

ExecSpec == ExecInit /\ [][ExecNext]_execVars

ChildDies == Process /\ "child" \notin alive'

(* Threads are scheduled, time passes and a killed child dies. *)
ExecFairSpec ==
  /\ ExecSpec
  /\ \A s \in Streams : WF_execVars(Read(s) \/ ReadEnd(s))
  /\ WF_execVars(Parent) /\ WF_execVars(Elapse)
  /\ WF_execVars(killed /\ ChildDies)

-----------------------------------------------------------------------------
(* Properties. *)

ExecTypeOK ==
  /\ ProcessTypeOK
  /\ reader \in [Streams -> {"reading", "done", "failed"}]
  /\ \A s \in Streams : retained[s] \in 0..Limit[s]
  /\ truncated \in [Streams -> BOOLEAN]
  /\ due \in BOOLEAN
  /\ parent \in {"poll", "check", "reap", "stdout", "stderr", "sampled", "failed"}
  /\ timedOut \in BOOLEAN
  /\ fate \in {"none", "exited", "killed"}
  /\ errors \in 0..MaxErrors

(* "Retained stdout prefix", "Whether stdout exceeded its retention limit"
   (exec.rs:100-111): a sample holds as much as fits of everything that was
   written to a stream, also by a killed child or by its grandchild, and says
   that it is truncated exactly if something is missing. *)
PrefixIsHonest ==
  parent = "sampled" =>
    \A s \in Streams :
      /\ retained[s] = Least(written[s], Limit[s])
      /\ truncated[s] <=> written[s] > Limit[s]

(* A sample is taken of a child that is gone, and one that was killed is never
   passed off as one that exited in time. *)
SampleIsSettled ==
  parent \in {"stdout", "stderr", "sampled"} =>
    /\ "child" \notin alive
    /\ fate = "killed" => timedOut

(* After the deadline the child ends, however much it still has to write,
   unless a system call fails. *)
DeadlineKills == due ~> "child" \notin alive \/ parent = "failed"

(* Unless a grandchild stays for ever, execute returns: the readers go on
   reading past the limit, so that nobody is held up by what it writes. *)
AlwaysReturns == <>[]("grandchild" \notin alive) => <>Returned

(* "Whether the deadline caused termination" (exec.rs:120). *)
TimedOutIsKilled == timedOut => fate = "killed"

(* "Executes one declaration with bounded output and time" (exec.rs:152). *)
DeadlineReturns == due ~> Returned

=============================================================================
