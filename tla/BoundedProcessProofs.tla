------------------------ MODULE BoundedProcessProofs ------------------------
(***************************************************************************)
(* Proofs about BoundedProcess, for any limits, chunk and pipe sizes, any  *)
(* amount of output and any number of failing reads.                       *)
(***************************************************************************)
EXTENDS BoundedProcess, SequenceTheorems, TLAPS

-----------------------------------------------------------------------------
(* The invariant. *)

(* What a reader may send as its last event: an error, or what it kept of a
   stream it has read to the end. *)
Finals(s) == {Unreadable} \cup (IF pipe[s] = 0 THEN {Collected(kept[s])} ELSE {})

(* A byte that was written is kept or still in the pipe, unless the reader is
   past its limit; then more was written than the limit allows. *)
Accounted(s) ==
  /\ over[s] => kept[s] = 0 /\ written[s] > Limit[s]
  /\ ~over[s] => kept[s] <= Limit[s] /\ written[s] = kept[s] + pipe[s]

(* The overflow comes first, the last event second, and the parent has
   received exactly what is no longer in the channel. *)
Told(s) == over[s] => overflowed

InReading(s) ==
  /\ reader[s] = "reading" /\ streams[s] = Pending
  /\ \/ events[s] = <<>> /\ Told(s)
     \/ events[s] = <<Overflow>> /\ over[s]

InFlight(s) ==
  /\ reader[s] = "done" /\ streams[s] = Pending
  /\ \E final \in Finals(s) :
       \/ events[s] = <<final>> /\ Told(s)
       \/ events[s] = <<Overflow, final>> /\ over[s]

Settled(s) ==
  /\ reader[s] = "done" /\ streams[s] \in Finals(s)
  /\ events[s] = <<>> /\ Told(s)

InOrder(s) == InReading(s) \/ InFlight(s) \/ Settled(s)

(* What the parent returned is what it had heard. *)
Verdict ==
  /\ overflowed => \E s \in Streams : over[s]
  /\ Returned => ~Waiting
  /\ parent = "refused" => overflowed
  /\ parent = "captured" => ~overflowed /\ \A s \in Streams : streams[s] # Unreadable

Types ==
  /\ ProcessTypeOK
  /\ reader \in [Streams -> {"reading", "done"}]
  /\ kept \in [Streams -> Nat]
  /\ over \in [Streams -> BOOLEAN]
  /\ DOMAIN events = Streams
  /\ parent \in {"receive", "captured", "refused", "unreadable"}
  /\ overflowed \in BOOLEAN
  /\ DOMAIN streams = Streams
  /\ errors \in 0..MaxErrors

Inductive ==
  /\ Types
  /\ \A s \in Streams : Accounted(s) /\ InOrder(s)
  /\ Verdict

-----------------------------------------------------------------------------
(* Streams and events. *)

LEMMA LimitType == \A s \in Streams : Limit[s] \in Nat
BY LimitAssumption DEF Limit

(* The four events differ as far as the parent tells them apart. *)
LEMMA EventsDiffer ==
  /\ \A n : Collected(n) # Overflow /\ Collected(n) # Pending /\ Collected(n) # Unreadable
  /\ Unreadable # Overflow /\ Unreadable # Pending /\ Overflow # Pending
  /\ \A m, n : Collected(m) = Collected(n) => m = n
BY DEF Collected, Unreadable, Overflow, Pending

(* Short channels. *)
LEMMA Channels ==
  ASSUME NEW d, NEW e
  PROVE  /\ Head(<<e>>) = e /\ Tail(<<e>>) = <<>> /\ Len(<<e>>) = 1
         /\ Append(<<>>, e) = <<e>>
         /\ Head(<<d, e>>) = d /\ Tail(<<d, e>>) = <<e>> /\ Len(<<d, e>>) = 2
         /\ Append(<<d>>, e) = <<d, e>>
<1>1. <<e>> \in Seq({d, e}) /\ <<d>> \in Seq({d, e}) /\ <<d, e>> \in Seq({d, e})
      /\ <<>> \in Seq({d, e})
  OBVIOUS
<1>2. Head(<<e>>) = e /\ Len(<<e>>) = 1 /\ Head(<<d, e>>) = d /\ Len(<<d, e>>) = 2
  OBVIOUS
<1>3. Tail(<<e>>) = <<>>
  BY <1>1
<1>4. Tail(<<d, e>>) = <<e>>
  BY <1>1
<1>5. Append(<<>>, e) = <<e>>
  BY <1>1
<1>6. Append(<<d>>, e) = <<d, e>>
  <2>1. /\ Append(<<d>>, e) \in Seq({d, e}) /\ Len(Append(<<d>>, e)) = 2
        /\ Append(<<d>>, e)[1] = d /\ Append(<<d>>, e)[2] = e
    <3>1. <<d>> \in Seq({d, e}) /\ e \in {d, e} /\ Len(<<d>>) = 1 /\ <<d>>[1] = d
      OBVIOUS
    <3> QED
      BY <3>1, AppendProperties
  <2>2. /\ <<d, e>> \in Seq({d, e}) /\ Len(<<d, e>>) = 2
        /\ <<d, e>>[1] = d /\ <<d, e>>[2] = e
    OBVIOUS
  <2>3. \A i \in 1..Len(Append(<<d>>, e)) : Append(<<d>>, e)[i] = <<d, e>>[i]
    BY <2>1, <2>2
  <2> QED
    BY <2>1, <2>2, <2>3, SeqEqual
<1> QED
  BY <1>2, <1>3, <1>4, <1>5, <1>6

LEMMA EmptyChannel == Len(<<>>) = 0
OBVIOUS

LEMMA FinalsAreFinal ==
  \A s : \A final \in Finals(s) : final # Overflow /\ final # Pending
BY EventsDiffer DEF Finals

(* What is true of a stream stays true while nobody touches it. *)
LEMMA StreamFrame ==
  ASSUME NEW s \in Streams, Accounted(s), InOrder(s),
         UNCHANGED <<kept[s], over[s], written[s], pipe[s], reader[s], events[s],
                     streams[s]>>,
         overflowed => overflowed'
  PROVE  Accounted(s)' /\ InOrder(s)'
<1>1. Accounted(s)'
  BY DEF Accounted
<1>2. Finals(s)' = Finals(s)
  BY DEF Finals
<1>3. Told(s) => Told(s)'
  BY DEF Told
<1>4. InReading(s) => InReading(s)'
  BY <1>3 DEF InReading
<1>5. InFlight(s) => InFlight(s)'
  BY <1>2, <1>3 DEF InFlight
<1>6. Settled(s) => Settled(s)'
  BY <1>2, <1>3 DEF Settled
<1> QED
  BY <1>1, <1>4, <1>5, <1>6 DEF InOrder

-----------------------------------------------------------------------------
(* Types. *)

LEMMA NextTypes == ASSUME Types, [Next]_vars PROVE Types'
<1> USE DEF Types, ProcessTypeOK, Others, parentVars, readerVars, processVars
<1>1. ASSUME NEW p \in Processes, NEW s \in Streams, Write(p, s), Others PROVE Types'
  BY <1>1, ProcessAssumption DEF Write, Least
<1>2. ASSUME ProcessStep, Others, ~\E p \in Processes, s \in Streams : Write(p, s)
      PROVE  Types'
  <2>1. ASSUME NEW p \in Processes, Exit(p) PROVE Types'
    BY <1>2, <2>1 DEF Exit
  <2>2. ASSUME NEW p \in Processes, NEW s \in Streams, CloseStream(p, s) PROVE Types'
    BY <1>2, <2>2 DEF CloseStream
  <2>3. ASSUME Fork PROVE Types'
    <3>1. holds' \in [Processes -> SUBSET Streams]
      BY <2>3 DEF Fork, Processes
    <3> QED
      BY <1>2, <2>3, <3>1 DEF Fork
  <2> QED
    BY <1>2, <2>1, <2>2, <2>3 DEF ProcessStep
<1>3. ASSUME NEW s \in Streams, Read(s) PROVE Types'
  <2>1. Least(pipe[s], ChunkSize) \in Nat /\ Least(pipe[s], ChunkSize) <= pipe[s]
    BY LimitAssumption, ProcessAssumption DEF Least
  <2>2. pipe' \in [Streams -> 0..PipeSize]
    BY <1>3, <2>1, ProcessAssumption DEF Read, Take
  <2>3. /\ kept' \in [Streams -> Nat]
        /\ over' \in [Streams -> BOOLEAN]
        /\ DOMAIN events' = Streams
    <3>1. kept' \in [Streams -> Nat]
      BY <1>3, <2>1 DEF Read
    <3>2. over' \in [Streams -> BOOLEAN]
      BY <1>3 DEF Read
    <3>3. DOMAIN events' = Streams
      BY <1>3 DEF Read, Send
    <3> QED
      BY <3>1, <3>2, <3>3
  <2> QED
    BY <1>3, <2>2, <2>3 DEF Read
<1>4. ASSUME NEW s \in Streams, ReadEnd(s) PROVE Types'
  BY <1>4 DEF ReadEnd, Finish, Send
<1>5. ASSUME NEW s \in Streams, ReadError(s) PROVE Types'
  BY <1>5, LimitAssumption DEF ReadError, Finish, Send
<1>6. ASSUME NEW s \in Streams, Receive(s) PROVE Types'
  BY <1>6 DEF Receive, Kill
<1>7. ASSUME Return PROVE Types'
  BY <1>7 DEF Return
<1>8. CASE UNCHANGED vars
  BY <1>8 DEF vars
<1> QED
  BY <1>1, <1>2, <1>3, <1>4, <1>5, <1>6, <1>7, <1>8 DEF Next, Reader, Parent, Done

-----------------------------------------------------------------------------
(* One stream. *)

(* A step that does nothing to the streams, the channels or the parent. *)
LEMMA Frame ==
  ASSUME Inductive, Types',
         UNCHANGED <<kept, over, written, pipe, reader, events, streams, overflowed, parent>>
  PROVE  Inductive'
<1>1. \A s \in Streams : (Accounted(s) /\ InOrder(s))'
  BY StreamFrame DEF Inductive
<1>2. Verdict'
  BY DEF Inductive, Verdict, Returned, Waiting
<1> QED
  BY <1>1, <1>2 DEF Inductive

(* Only a reader that still reads has a stream processes can write to. *)
LEMMA WriteStep ==
  ASSUME Inductive, Types', NEW p \in Processes, NEW s \in Streams, Write(p, s), Others
  PROVE  Inductive'
<1>1. /\ reader[s] = "reading"
      /\ UNCHANGED <<reader, kept, over, events, streams, overflowed, parent>>
  BY DEF Write, Others, parentVars
<1>2. PICK n \in Nat \ {0} :
        /\ pipe' = [pipe EXCEPT ![s] = @ + n]
        /\ written' = [written EXCEPT ![s] = @ + n]
  <2>1. \A n \in 1..Least(PipeSize - pipe[s], MaxOutput - written[s]) : n \in Nat \ {0}
    OBVIOUS
  <2> QED
    BY <2>1 DEF Write
<1>3. \A t \in Streams \ {s} : UNCHANGED <<pipe[t], written[t]>>
  BY <1>2 DEF Inductive, Types, ProcessTypeOK
<1>4. \A t \in Streams \ {s} : (Accounted(t) /\ InOrder(t))'
  BY <1>1, <1>3, StreamFrame DEF Inductive
<1>5. pipe'[s] = pipe[s] + n /\ written'[s] = written[s] + n
  BY <1>2 DEF Inductive, Types, ProcessTypeOK
<1>6. Accounted(s)'
  <2>1. pipe[s] \in Nat /\ written[s] \in Nat /\ kept[s] \in Nat /\ Limit[s] \in Nat
    BY LimitType DEF Inductive, Types, ProcessTypeOK
  <2> QED
    BY <1>1, <1>5, <2>1 DEF Inductive, Accounted
<1>7. InOrder(s)'
  BY <1>1 DEF Inductive, InOrder, InReading, InFlight, Settled, Told
<1>8. Verdict'
  BY <1>1 DEF Inductive, Verdict, Returned, Waiting
<1> QED
  BY <1>4, <1>6, <1>7, <1>8 DEF Inductive

(* A read keeps what it took from the pipe, or tells of the overflow. *)
LEMMA ReadStep ==
  ASSUME Inductive, Types', NEW s \in Streams, Read(s)
  PROVE  Inductive'
<1> DEFINE n == Least(pipe[s], ChunkSize)
<1>1. /\ reader[s] = "reading"
      /\ UNCHANGED <<reader, written, streams, overflowed, parent>>
  BY DEF Read, parentVars
<1>2. /\ pipe[s] \in Nat /\ written[s] \in Nat /\ kept[s] \in Nat /\ Limit[s] \in Nat
      /\ n \in Nat /\ n <= pipe[s]
  BY LimitType, LimitAssumption DEF Inductive, Types, ProcessTypeOK, Least
<1>3. pipe' = [pipe EXCEPT ![s] = pipe[s] - n]
  BY DEF Read, Take
<1>4. \/ over[s] /\ UNCHANGED <<kept, over, events>>
      \/ /\ ~over[s] /\ kept[s] + n > Limit[s]
         /\ over' = [over EXCEPT ![s] = TRUE]
         /\ kept' = [kept EXCEPT ![s] = 0]
         /\ events' = [events EXCEPT ![s] = Append(@, Overflow)]
      \/ /\ ~over[s] /\ kept[s] + n <= Limit[s]
         /\ kept' = [kept EXCEPT ![s] = @ + n]
         /\ UNCHANGED <<over, events>>
  BY DEF Read, Send
<1> HIDE DEF n
<1> USE DEF Inductive, Types, ProcessTypeOK
<1>5. \A t \in Streams \ {s} : UNCHANGED <<pipe[t], kept[t], over[t], events[t]>>
  BY <1>3, <1>4
<1>6. \A t \in Streams \ {s} : (Accounted(t) /\ InOrder(t))'
  BY <1>1, <1>5, StreamFrame
<1>7. pipe'[s] = pipe[s] - n
  BY <1>3
<1>8. Accounted(s)'
  <2>1. CASE over[s] /\ UNCHANGED <<kept, over, events>>
    BY <1>1, <2>1 DEF Accounted
  <2>2. CASE ~over[s] /\ kept[s] + n > Limit[s] /\ over' = [over EXCEPT ![s] = TRUE]
             /\ kept' = [kept EXCEPT ![s] = 0]
    <3>1. written[s] > Limit[s]
      BY <1>2, <2>2 DEF Accounted
    <3> QED
      BY <1>1, <2>2, <3>1 DEF Accounted
  <2>3. CASE ~over[s] /\ kept[s] + n <= Limit[s] /\ kept' = [kept EXCEPT ![s] = @ + n]
             /\ over' = over
    <3>1. kept'[s] = kept[s] + n
      BY <2>3
    <3>2. kept[s] <= Limit[s] /\ written[s] = kept[s] + pipe[s]
      BY <2>3 DEF Accounted
    <3>3. written[s] = kept'[s] + pipe'[s] /\ kept'[s] <= Limit[s]
      BY <1>2, <1>7, <2>3, <3>1, <3>2
    <3> QED
      BY <1>1, <2>3, <3>3 DEF Accounted
  <2> QED
    BY <1>4, <2>1, <2>2, <2>3
<1>9. InOrder(s)'
  <2>1. InReading(s)
    BY <1>1 DEF InOrder, InFlight, Settled
  <2>2. CASE UNCHANGED <<over, events>>
    BY <1>1, <2>1, <2>2 DEF InOrder, InReading, Told
  <2>3. CASE ~over[s] /\ over' = [over EXCEPT ![s] = TRUE]
             /\ events' = [events EXCEPT ![s] = Append(@, Overflow)]
    <3>1. events[s] = <<>>
      BY <2>1, <2>3 DEF InReading
    <3>2. events'[s] = <<Overflow>> /\ over'[s]
      BY <2>3, <3>1, Channels
    <3> QED
      BY <1>1, <2>1, <3>2 DEF InOrder, InReading
  <2> QED
    BY <1>4, <2>2, <2>3
<1>10. Verdict'
  <2>1. \A t \in Streams : over[t] => over'[t]
    BY <1>4
  <2> QED
    BY <1>1, <2>1 DEF Verdict, Returned, Waiting
<1> QED
  BY <1>6, <1>8, <1>9, <1>10

(* The reader ends with what it kept of a stream that is at its end, or with
   an error. *)
LEMMA FinishStep ==
  ASSUME Inductive, Types', NEW s \in Streams, ReadEnd(s) \/ ReadError(s)
  PROVE  Inductive'
<1>1. /\ reader[s] = "reading"
      /\ UNCHANGED <<kept, over, pipe, written, streams, overflowed, parent>>
      /\ reader' = [reader EXCEPT ![s] = "done"]
  BY DEF ReadEnd, ReadError, Finish, parentVars, processVars
<1>2. PICK final \in Finals(s) : events' = [events EXCEPT ![s] = Append(@, final)]
  BY DEF ReadEnd, ReadError, Finish, Send, Finals, AtEnd
<1> USE DEF Inductive, Types
<1>3. \A t \in Streams \ {s} : UNCHANGED <<reader[t], events[t]>>
  BY <1>1, <1>2
<1>4. \A t \in Streams \ {s} : (Accounted(t) /\ InOrder(t))'
  BY <1>1, <1>3, StreamFrame
<1>5. Accounted(s)'
  BY <1>1 DEF Accounted
<1>6. InOrder(s)'
  <2>1. InReading(s)
    BY <1>1 DEF InOrder, InFlight, Settled
  <2>2. final \in Finals(s)' /\ reader'[s] = "done" /\ streams'[s] = Pending
    BY <1>1, <2>1 DEF Finals, InReading
  <2>3. CASE events[s] = <<>> /\ Told(s)
    <3>1. events'[s] = <<final>> /\ Told(s)'
      BY <1>1, <1>2, <2>3, Channels DEF Told
    <3> QED
      BY <2>2, <3>1 DEF InOrder, InFlight
  <2>4. CASE events[s] = <<Overflow>> /\ over[s]
    <3>1. events'[s] = <<Overflow, final>> /\ over'[s]
      <4>1. Append(<<Overflow>>, final) = <<Overflow, final>>
        BY Channels
      <4> QED
        BY <1>1, <1>2, <2>4, <4>1
    <3> QED
      BY <2>2, <3>1 DEF InOrder, InFlight
  <2> QED
    BY <2>1, <2>3, <2>4 DEF InReading
<1>7. Verdict'
  BY <1>1 DEF Verdict, Returned, Waiting
<1> QED
  BY <1>4, <1>5, <1>6, <1>7

-----------------------------------------------------------------------------
(* The parent. *)

LEMMA ReceiveStep ==
  ASSUME Inductive, Types', NEW s \in Streams, Receive(s)
  PROVE  Inductive'
<1>1. /\ parent = "receive" /\ events[s] # <<>>
      /\ UNCHANGED <<reader, kept, over, pipe, written, parent>>
      /\ events' = [events EXCEPT ![s] = Tail(@)]
  BY DEF Receive
<1>2. /\ Head(events[s]) = Overflow => overflowed' /\ UNCHANGED streams
      /\ Head(events[s]) # Overflow =>
           /\ UNCHANGED overflowed
           /\ streams' = [streams EXCEPT ![s] = Head(events[s])]
  BY DEF Receive
<1> USE DEF Inductive, Types
<1>3. \A t \in Streams \ {s} : UNCHANGED <<streams[t], events[t]>>
  BY <1>1, <1>2
<1>4. overflowed => overflowed'
  BY <1>2
<1>5. \A t \in Streams \ {s} : (Accounted(t) /\ InOrder(t))'
  BY <1>1, <1>3, <1>4, StreamFrame
<1>6. Accounted(s)'
  BY <1>1 DEF Accounted
<1>7. Finals(s)' = Finals(s)
  BY <1>1 DEF Finals
<1>8. InOrder(s)' /\ (Head(events[s]) = Overflow => over[s])
  <2>1. CASE events[s] = <<Overflow>> /\ over[s] /\ InReading(s)
    <3>1. Head(events[s]) = Overflow /\ events'[s] = <<>>
      BY <1>1, <2>1, Channels
    <3>2. InReading(s)'
      BY <1>1, <1>2, <2>1, <3>1 DEF InReading, Told
    <3> QED
      BY <2>1, <3>2 DEF InOrder
  <2>2. ASSUME NEW final \in Finals(s), events[s] = <<final>>, Told(s), InFlight(s)
        PROVE  InOrder(s)' /\ Head(events[s]) # Overflow
    <3>1. Head(events[s]) = final /\ final # Overflow /\ events'[s] = <<>>
      BY <1>1, <2>2, Channels, FinalsAreFinal
    <3>2. streams'[s] = final /\ Told(s)'
      BY <1>1, <1>2, <2>2, <3>1 DEF Told
    <3>3. Settled(s)'
      BY <1>1, <1>7, <2>2, <3>1, <3>2 DEF Settled, InFlight
    <3> QED
      BY <3>1, <3>3 DEF InOrder
  <2>3. ASSUME NEW final \in Finals(s), events[s] = <<Overflow, final>>, over[s], InFlight(s)
        PROVE  InOrder(s)'
    <3>1. Head(events[s]) = Overflow /\ events'[s] = <<final>>
      BY <1>1, <2>3, Channels
    <3>2. Told(s)' /\ streams' = streams
      BY <1>2, <3>1 DEF Told
    <3>3. InFlight(s)'
      BY <1>1, <1>7, <2>3, <3>1, <3>2 DEF InFlight
    <3> QED
      BY <3>3 DEF InOrder
  <2>4. CASE InReading(s)
    BY <1>1, <2>1, <2>4 DEF InReading
  <2>5. CASE InFlight(s)
    <3>1. PICK final \in Finals(s) :
            \/ events[s] = <<final>> /\ Told(s)
            \/ events[s] = <<Overflow, final>> /\ over[s]
      BY <2>5 DEF InFlight
    <3> QED
      BY <2>2, <2>3, <2>5, <3>1
  <2> QED
    BY <1>1, <2>4, <2>5 DEF InOrder, Settled
<1>9. Verdict'
  <2>1. overflowed' => \E t \in Streams : over'[t]
    BY <1>1, <1>2, <1>8 DEF Verdict
  <2> QED
    BY <1>1, <2>1 DEF Verdict, Returned
<1> QED
  BY <1>5, <1>6, <1>8, <1>9

LEMMA ReturnStep ==
  ASSUME Inductive, Types', Return
  PROVE  Inductive'
<1>1. /\ ~Waiting
      /\ UNCHANGED <<kept, over, written, pipe, reader, events, streams, overflowed>>
      /\ parent' = IF overflowed THEN "refused"
                   ELSE IF \E s \in Streams : streams[s] = Unreadable THEN "unreadable"
                   ELSE "captured"
  BY DEF Return, processVars, readerVars
<1>2. \A s \in Streams : (Accounted(s) /\ InOrder(s))'
  BY <1>1, StreamFrame DEF Inductive
<1>3. Verdict'
  BY <1>1 DEF Inductive, Verdict, Waiting
<1> QED
  BY <1>2, <1>3 DEF Inductive

-----------------------------------------------------------------------------

LEMMA InitInductive == Init => Inductive
<1> SUFFICES ASSUME Init PROVE Inductive
  OBVIOUS
<1>1. Types
  <2>1. ProcessTypeOK
    <3>1. holds \in [Processes -> SUBSET Streams]
      BY DEF Init, ProcessInit
    <3>2. pipe \in [Streams -> 0..PipeSize] /\ written \in [Streams -> 0..MaxOutput]
      BY ProcessAssumption DEF Init, ProcessInit
    <3>3. alive \subseteq Processes /\ killed \in BOOLEAN
      BY DEF Init, ProcessInit, Processes
    <3> QED
      BY <3>1, <3>2, <3>3 DEF ProcessTypeOK
  <2>2. errors \in 0..MaxErrors
    BY LimitAssumption DEF Init
  <2> QED
    BY <2>1, <2>2 DEF Init, ProcessInit, Types
<1>2. \A s \in Streams : Accounted(s) /\ InOrder(s)
  BY LimitType DEF Init, ProcessInit, Accounted, InOrder, InReading, Told
<1>3. Verdict
  BY DEF Init, Verdict, Returned
<1> QED
  BY <1>1, <1>2, <1>3 DEF Inductive

LEMMA NextInductive == ASSUME Inductive, [Next]_vars PROVE Inductive'
<1>0. Types'
  BY NextTypes DEF Inductive
<1>1. CASE ProcessStep /\ Others
  <2>1. CASE \E p \in Processes, s \in Streams : Write(p, s)
    BY <1>0, <1>1, <2>1, WriteStep
  <2>2. CASE ~\E p \in Processes, s \in Streams : Write(p, s)
    <3>1. UNCHANGED <<pipe, written, reader>>
      BY <1>1, <2>2 DEF ProcessStep, Exit, CloseStream, Fork
    <3> QED
      BY <1>0, <1>1, <3>1, Frame DEF Others, parentVars
  <2> QED
    BY <2>1, <2>2
<1>2. CASE \E s \in Streams : Reader(s)
  BY <1>0, <1>2, ReadStep, FinishStep DEF Reader
<1>3. CASE Parent
  BY <1>0, <1>3, ReceiveStep, ReturnStep DEF Parent
<1>4. CASE UNCHANGED vars
  BY <1>0, <1>4, Frame DEF vars, processVars, readerVars, parentVars
<1> QED
  BY <1>1, <1>2, <1>3, <1>4 DEF Next, Done

THEOREM InductiveHolds == Spec => []Inductive
<1> QED
  BY InitInductive, NextInductive, PTL DEF Spec

(* The variables of run_bounded hold what their types say; a channel never
   holds more than the overflow and the last event of its reader. *)
THEOREM TypeCorrect == Spec => []TypeOK
<1>1. Inductive => TypeOK
  <2> SUFFICES ASSUME Inductive PROVE TypeOK
    OBVIOUS
  <2>1. \A s \in Streams : Len(events[s]) <= 2
    <3> SUFFICES ASSUME NEW s \in Streams PROVE Len(events[s]) <= 2
      OBVIOUS
    <3>1. \/ events[s] = <<>>
          \/ \E d : events[s] = <<d>>
          \/ \E d, e : events[s] = <<d, e>>
      BY DEF Inductive, InOrder, InReading, InFlight, Settled
    <3>2. CASE events[s] = <<>>
      BY <3>2, EmptyChannel
    <3>3. ASSUME NEW d, events[s] = <<d>> PROVE Len(events[s]) <= 2
      BY <3>3
    <3>4. ASSUME NEW d, NEW e, events[s] = <<d, e>> PROVE Len(events[s]) <= 2
      BY <3>4
    <3> QED
      BY <3>1, <3>2, <3>3, <3>4
  <2>2. \A s \in Streams : streams[s].kind \in {"pending", "collected", "unreadable"}
    BY DEF Inductive, InOrder, InReading, InFlight, Settled, Finals, Pending, Collected,
           Unreadable
  <2> QED
    BY <2>1, <2>2 DEF Inductive, Types, TypeOK
<1> QED
  BY <1>1, InductiveHolds, PTL

(* "capturing at most stdout_limit and stderr_limit bytes". *)
THEOREM BoundedCapture == Spec => []CaptureIsBounded
<1>1. Inductive => CaptureIsBounded
  BY LimitType DEF Inductive, Accounted, CaptureIsBounded, Types
<1> QED
  BY <1>1, InductiveHolds, PTL

(* run_bounded reports captured output only if it captured all of it, and
   refuses a run only if a stream outgrew its limit. *)
THEOREM CompleteCapture == Spec => []CaptureIsComplete
<1>1. Inductive => CaptureIsComplete
  <2> SUFFICES ASSUME Inductive PROVE CaptureIsComplete
    OBVIOUS
  <2>1. ASSUME parent = "captured", NEW s \in Streams
        PROVE  streams[s] = Collected(written[s]) /\ written[s] <= Limit[s]
    <3>1. Settled(s) /\ ~overflowed /\ streams[s] # Unreadable
      BY <2>1 DEF Inductive, Verdict, Returned, Waiting, InOrder, InReading, InFlight
    <3>2. ~over[s]
      BY <3>1 DEF Settled, Told
    <3>3. pipe[s] = 0 /\ streams[s] = Collected(kept[s])
      BY <3>1 DEF Settled, Finals
    <3>4. kept[s] <= Limit[s] /\ written[s] = kept[s] /\ kept[s] \in Nat
      BY <3>2, <3>3 DEF Inductive, Types, Accounted
    <3> QED
      BY <3>3, <3>4
  <2>2. parent = "refused" => \E s \in Streams : written[s] > Limit[s]
    BY DEF Inductive, Verdict, Accounted
  <2> QED
    BY <2>1, <2>2 DEF CaptureIsComplete
<1> QED
  BY <1>1, InductiveHolds, PTL

=============================================================================
