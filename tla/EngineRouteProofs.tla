--------------------------- MODULE EngineRouteProofs ---------------------------
(***************************************************************************)
(* Proofs about what is decided before anything is built. The two halves of*)
(* a launch of the engine: the private directories, for any number of      *)
(* processes, namespaces, ids, crates and changes of the cache, and the pin*)
(* of the engine, for any commits, machines and edits. The gates over a    *)
(* checkout, for any repositories: the contract, the harnesses it accepts  *)
(* and the inputs its hash binds, the validation matrix made from it, and  *)
(* the firewall, the index and the units of the atelier.                   *)
(***************************************************************************)
EXTENDS PrivateDirs, EnginePin, ValidationMatrix,
        FiniteSetTheorems, SequenceTheorems, WellFoundedInduction, TLAPS

-----------------------------------------------------------------------------
(* The private directories. *)

Steps == {"unborn", "list_home", "sweep_home", "fill", "list_target", "sweep_target", "use", "gone"}
Dirs == [owner : Processes, pid : Pids, label : Labels]
Homes == [crate : Crates, content : {"locked"}]

DirsTypeOK ==
  /\ pid \in [Processes -> Pids \cup {0}]
  /\ pc \in [Processes -> Steps]
  /\ dirs \in SUBSET Dirs
  /\ held \in [Processes -> SUBSET Homes]
  /\ listed \in [Processes -> SUBSET Dirs]
  /\ doomed \in [Processes -> SUBSET Dirs]
  /\ cache \in [Crates -> {"locked", "other", "absent"}]
  /\ due \in [Processes -> SUBSET Dirs]
  /\ foreign \in SUBSET Processes

(* A process has an id while it lives, and no other of its namespace has it then. *)
IdsAreOwn ==
  \A p \in Processes :
    /\ pid[p] = 0 <=> pc[p] \in {"unborn", "gone"}
    /\ \A q \in Processes : pid[q] = pid[p] /\ Namespace[q] = Namespace[p] /\ pid[p] # 0 => q = p

(* A directory that was seen was made by its owner, who has the same id for life. *)
MadeBy(d) ==
  \/ pc[d.owner] = "gone"
  \/ d.label \in Made(d.owner) /\ pid[d.owner] = d.pid
SeenWasMade ==
  \A d \in dirs \cup UNION {listed[p] \cup due[p] : p \in Processes} : MadeBy(d)

(* What a sweep is about to remove is of the dead, or of those it cannot see. *)
DoomedAreDead ==
  \A p \in Processes : \A d \in doomed[p] : pc[d.owner] = "gone" \/ d.owner \in foreign

(* What a sweep ought to remove nobody has the id of, and it has yet to look at it. *)
DueIsLeft ==
  \A p \in Processes :
    /\ \A d \in due[p] : ~Exists(p, d.pid)
    /\ due[p] # {} => pc[p] \in {"sweep_home", "sweep_target"}
    /\ due[p] \cap dirs \subseteq listed[p] \cup doomed[p]

(* After the filling of a home each crate was taken. *)
HomesAreFilled ==
  \A p \in Processes : pc[p] \in {"list_target", "sweep_target", "use"} =>
    {h.crate : h \in held[p]} = Crates

DirsInv ==
  /\ DirsTypeOK /\ IdsAreOwn /\ SeenWasMade /\ DoomedAreDead
  /\ DueIsLeft /\ HomesAreFilled /\ LiveDirsStay

LEMMA DirsInvInit == Init => DirsInv
<1> SUFFICES ASSUME Init PROVE DirsInv
  OBVIOUS
<1>1. DirsTypeOK
  BY DEF Init, DirsTypeOK, Steps
<1>2. IdsAreOwn
  BY DEF Init, IdsAreOwn
<1>3. SeenWasMade /\ DoomedAreDead /\ DueIsLeft
  BY DEF Init, SeenWasMade, DoomedAreDead, DueIsLeft
<1>4. HomesAreFilled /\ LiveDirsStay
  BY DEF Init, HomesAreFilled, LiveDirsStay, Alive
<1> QED
  BY <1>1, <1>2, <1>3, <1>4 DEF DirsInv

(* A process is in one place, and only a living one is in a sweep or uses what it made. *)
LEMMA Facts ==
  ASSUME DirsInv
  PROVE  /\ \A p \in Processes : pc[p] \in Steps /\ pid[p] \in Pids \cup {0}
         /\ \A p \in Processes : pid[p] = 0 <=> pc[p] \in {"unborn", "gone"}
         /\ \A p \in Processes : listed[p] \subseteq Dirs /\ doomed[p] \subseteq Dirs /\ due[p] \subseteq Dirs
         /\ \A d \in Dirs : d.owner \in Processes /\ d.pid \in Pids /\ d.label \in Labels
  BY DEF DirsInv, DirsTypeOK, IdsAreOwn, Dirs

LEMMA StartInv == ASSUME DirsInv, NEW p \in Processes, Start(p) PROVE DirsInv'
<1> USE DirsAssumption
<1> PICK id \in Pids : /\ ~Exists(p, id) /\ pid' = [pid EXCEPT ![p] = id]
                       /\ due' = [q \in Processes |-> {d \in due[q] : d.pid # id}]
  BY DEF Start
<1>1. pc[p] = "unborn" /\ pc' = [pc EXCEPT ![p] = "list_home"]
  BY DEF Start, Goto
<1>2. UNCHANGED <<dirs, held, listed, doomed, cache, edits, foreign>>
  BY DEF Start
<1>3. DirsTypeOK'
  BY <1>1, <1>2 DEF DirsInv, DirsTypeOK, Steps
<1>4. IdsAreOwn'
  <2>1. \A q \in Processes : q # p /\ Namespace[q] = Namespace[p] => pid[q] # id
    BY DEF Exists
  <2>2. \A q \in Processes : /\ pid'[q] = (IF q = p THEN id ELSE pid[q])
                              /\ pc'[q] = (IF q = p THEN "list_home" ELSE pc[q])
    BY <1>1 DEF DirsInv, DirsTypeOK
  <2> QED
    BY <2>1, <2>2 DEF DirsInv, IdsAreOwn
<1>5. \A d \in Dirs : MadeBy(d) => MadeBy(d)'
  BY <1>1 DEF MadeBy, Made, DirsInv, DirsTypeOK, Dirs
<1>6. SeenWasMade'
  BY <1>2, <1>5 DEF SeenWasMade, DirsInv, DirsTypeOK
<1>7. DoomedAreDead'
  BY <1>1, <1>2, Facts DEF DoomedAreDead, DirsInv, DirsTypeOK
<1>8. DueIsLeft'
  <2>1. \A q \in Processes : \A d \in due'[q] : d \in due[q] /\ d.pid # id
    OBVIOUS
  <2>2. \A q \in Processes : \A d \in due'[q] : ~Exists(q, d.pid)'
    BY <2>1, Facts DEF DueIsLeft, DirsInv, DirsTypeOK, Exists
  <2>3. \A q \in Processes : due'[q] # {} => pc'[q] \in {"sweep_home", "sweep_target"}
    BY <2>1, <1>1, Facts DEF DueIsLeft, DirsInv, DirsTypeOK
  <2> QED
    BY <2>1, <2>2, <2>3, <1>2 DEF DueIsLeft, DirsInv
<1>9. HomesAreFilled' /\ LiveDirsStay'
  <2>1. HomesAreFilled'
    BY <1>1, <1>2 DEF HomesAreFilled, DirsInv, DirsTypeOK
  <2>2. \A q \in Processes \ {p} : pid'[q] = pid[q] /\ Made(q)' = Made(q)
    BY <1>1 DEF Made, DirsInv, DirsTypeOK
  <2>3. Made(p)' = {}
    BY <1>1 DEF Made, DirsInv, DirsTypeOK
  <2> QED
    BY <2>1, <2>2, <2>3, <1>2 DEF LiveDirsStay, DirsInv, Dir, Alive
<1> QED
  BY <1>3, <1>4, <1>6, <1>7, <1>8, <1>9 DEF DirsInv

LEMMA EndInv == ASSUME DirsInv, NEW p \in Processes, End(p) PROVE DirsInv'
<1>1. pid' = [pid EXCEPT ![p] = 0] /\ pc' = [pc EXCEPT ![p] = "gone"] /\ pid[p] # 0
  BY DEF End, Goto, Alive
<1>2. /\ listed' = [listed EXCEPT ![p] = {}] /\ doomed' = [doomed EXCEPT ![p] = {}]
      /\ due' = [due EXCEPT ![p] = {}] /\ UNCHANGED <<dirs, held, cache, edits, foreign>>
  BY DEF End
<1>3. DirsTypeOK'
  BY <1>1, <1>2 DEF DirsInv, DirsTypeOK, Steps
<1>4. IdsAreOwn'
  BY <1>1 DEF DirsInv, DirsTypeOK, IdsAreOwn
<1>5. \A d \in Dirs : MadeBy(d) => MadeBy(d)'
  BY <1>1 DEF MadeBy, Made, DirsInv, DirsTypeOK, Dirs
<1>6. SeenWasMade'
  BY <1>2, <1>5 DEF SeenWasMade, DirsInv, DirsTypeOK
<1>7. DoomedAreDead'
  BY <1>1, <1>2, Facts DEF DoomedAreDead, DirsInv, DirsTypeOK
<1>8. DueIsLeft'
  <2>1. \A q \in Processes : \A d \in due'[q] : d \in due[q] /\ q # p
    BY <1>2 DEF DirsInv, DirsTypeOK
  <2>2. \A q \in Processes : \A d \in due'[q] : ~Exists(q, d.pid)'
    BY <1>1, <2>1, Facts, DirsAssumption DEF DueIsLeft, DirsInv, DirsTypeOK, Exists
  <2> QED
    BY <1>1, <1>2, <2>1, <2>2 DEF DueIsLeft, DirsInv, DirsTypeOK
<1>9. HomesAreFilled' /\ LiveDirsStay'
  <2>1. HomesAreFilled'
    BY <1>1, <1>2 DEF HomesAreFilled, DirsInv, DirsTypeOK
  <2>2. \A q \in Processes \ {p} : pid'[q] = pid[q] /\ Made(q)' = Made(q)
    BY <1>1 DEF Made, DirsInv, DirsTypeOK
  <2>3. pid'[p] = 0
    BY <1>1 DEF DirsInv, DirsTypeOK
  <2> QED
    BY <2>1, <2>2, <2>3, <1>2 DEF LiveDirsStay, DirsInv, Dir, Alive
<1> QED
  BY <1>3, <1>4, <1>6, <1>7, <1>8, <1>9 DEF DirsInv

(* A step that changes no id and only moves one process on, to where it has made as much. *)
LEMMA MovesOn ==
  ASSUME DirsInv, NEW p \in Processes, UNCHANGED pid, NEW step \in Steps \ {"unborn", "gone"},
         pc' = [pc EXCEPT ![p] = step], pid[p] # 0, Made(p) \subseteq Made(p)'
  PROVE  /\ IdsAreOwn'
         /\ \A d \in Dirs : MadeBy(d) => MadeBy(d)'
         /\ \A q \in Processes \ {p} : Made(q)' = Made(q) /\ pc'[q] = pc[q]
         /\ pc'[p] = step
         /\ \A q \in Processes, id \in Pids : Exists(q, id)' = Exists(q, id)
<1>1. IdsAreOwn'
  BY DEF DirsInv, DirsTypeOK, IdsAreOwn
<1>2. \A q \in Processes \ {p} : Made(q)' = Made(q) /\ pc'[q] = pc[q]
  BY DEF Made, DirsInv, DirsTypeOK
<1>3. \A d \in Dirs : MadeBy(d) => MadeBy(d)'
  <2> SUFFICES ASSUME NEW d \in Dirs, MadeBy(d) PROVE MadeBy(d)'
    OBVIOUS
  <2>1. CASE d.owner = p
    BY <2>1, Facts DEF MadeBy
  <2>2. CASE d.owner # p
    BY <2>2, <1>2, Facts DEF MadeBy
  <2> QED
    BY <2>1, <2>2
<1> QED
  BY <1>1, <1>2, <1>3 DEF DirsInv, DirsTypeOK, Exists

LEMMA ListInv == ASSUME DirsInv, NEW p \in Processes, List(p) PROVE DirsInv'
<1> PICK label \in Labels :
      /\ pc[p] = ListStep[label] /\ pc' = [pc EXCEPT ![p] = SweepStep[label]]
      /\ listed' = [listed EXCEPT ![p] = dirs]
      /\ due' = [due EXCEPT ![p] = {d \in dirs : ~Exists(p, d.pid)}]
  BY DEF List, Goto
<1>1. UNCHANGED <<pid, dirs, held, doomed, cache, edits, foreign>>
  BY DEF List
<1>2. /\ pc[p] \in {"list_home", "list_target"} /\ SweepStep[label] \in {"sweep_home", "sweep_target"}
      /\ pc[p] = "list_home" <=> SweepStep[label] = "sweep_home"
  BY DEF Labels, ListStep, SweepStep
<1>3. Made(p)' = Made(p) /\ pid[p] # 0
  BY <1>2, Facts DEF Made, DirsInv, DirsTypeOK
<1>4. DirsTypeOK'
  BY <1>1, <1>2 DEF DirsInv, DirsTypeOK, Steps
<1>5. /\ IdsAreOwn' /\ \A d \in Dirs : MadeBy(d) => MadeBy(d)'
      /\ \A q \in Processes \ {p} : Made(q)' = Made(q) /\ pc'[q] = pc[q]
      /\ pc'[p] = SweepStep[label]
      /\ \A q \in Processes, id \in Pids : Exists(q, id)' = Exists(q, id)
  BY <1>1, <1>2, <1>3, MovesOn DEF Steps
<1>6. SeenWasMade'
  BY <1>1, <1>5 DEF SeenWasMade, DirsInv, DirsTypeOK
<1>7. DoomedAreDead'
  BY <1>1, <1>2, <1>5, Facts DEF DoomedAreDead, DirsInv, DirsTypeOK
<1>8. DueIsLeft'
  BY <1>1, <1>2, <1>5, Facts DEF DueIsLeft, DirsInv, DirsTypeOK
<1>9. HomesAreFilled' /\ LiveDirsStay'
  <2>1. \A q \in Processes : Made(q)' = Made(q)
    BY <1>3, <1>5
  <2>2. LiveDirsStay'
    BY <1>1, <2>1 DEF LiveDirsStay, DirsInv, Dir, Alive
  <2> QED
    BY <1>1, <1>2, <1>5, <2>2 DEF HomesAreFilled, DirsInv, DirsTypeOK
<1> QED
  BY <1>4, <1>5, <1>6, <1>7, <1>8, <1>9 DEF DirsInv

LEMMA JudgeInv == ASSUME DirsInv, NEW p \in Processes, Judge(p) PROVE DirsInv'
<1> PICK d \in listed[p] :
      /\ doomed[p] = {}
      /\ listed' = [listed EXCEPT ![p] = @ \ {d}]
      /\ doomed' = [doomed EXCEPT ![p] = IF Exists(p, d.pid) THEN {} ELSE {d}]
      /\ foreign' = IF Namespace[d.owner] = Namespace[p] THEN foreign ELSE foreign \cup {d.owner}
  BY DEF Judge
<1>1. UNCHANGED <<pid, pc, dirs, held, cache, edits, due>>
  BY DEF Judge
<1>2. d \in Dirs /\ d.owner \in Processes /\ d.pid \in Pids
  BY Facts DEF Dirs
<1>3. DirsTypeOK'
  BY <1>1, <1>2 DEF DirsInv, DirsTypeOK
<1>4. IdsAreOwn' /\ SeenWasMade' /\ HomesAreFilled'
  BY <1>1 DEF DirsInv, DirsTypeOK, IdsAreOwn, SeenWasMade, MadeBy, Made, HomesAreFilled
<1>5. DoomedAreDead'
  <2>1. ~Exists(p, d.pid) => pc[d.owner] = "gone" \/ d.owner \in foreign'
    <3> SUFFICES ASSUME ~Exists(p, d.pid), Namespace[d.owner] = Namespace[p] PROVE pc[d.owner] = "gone"
      BY <1>2
    <3>1. pid[d.owner] # d.pid
      BY <1>2 DEF Exists
    <3>2. MadeBy(d)
      BY DEF DirsInv, SeenWasMade
    <3> QED
      BY <3>1, <3>2 DEF MadeBy
  <2>2. foreign \subseteq foreign'
    OBVIOUS
  <2> QED
    BY <1>1, <2>1, <2>2 DEF DoomedAreDead, DirsInv, DirsTypeOK
<1>6. DueIsLeft'
  <2>1. d \in due[p] => ~Exists(p, d.pid)
    BY DEF DueIsLeft, DirsInv
  <2>2. \A q \in Processes : due[q] \cap dirs \subseteq listed'[q] \cup doomed'[q]
    BY <2>1 DEF DueIsLeft, DirsInv, DirsTypeOK
  <2> QED
    BY <1>1, <2>2 DEF DueIsLeft, DirsInv, Exists
<1>7. LiveDirsStay'
  BY <1>1 DEF LiveDirsStay, DirsInv, Dir, Alive, Made
<1> QED
  BY <1>3, <1>4, <1>5, <1>6, <1>7 DEF DirsInv

LEMMA RemoveInv == ASSUME DirsInv, NEW p \in Processes, RemoveDir(p) PROVE DirsInv'
<1>1. /\ dirs' = dirs \ doomed[p] /\ doomed' = [doomed EXCEPT ![p] = {}]
      /\ UNCHANGED <<pid, pc, held, listed, cache, edits, due, foreign>>
  BY DEF RemoveDir
<1>2. DirsTypeOK'
  BY <1>1 DEF DirsInv, DirsTypeOK
<1>3. IdsAreOwn' /\ SeenWasMade' /\ HomesAreFilled'
  BY <1>1 DEF DirsInv, DirsTypeOK, IdsAreOwn, SeenWasMade, MadeBy, Made, HomesAreFilled
<1>4. DoomedAreDead' /\ DueIsLeft'
  BY <1>1 DEF DoomedAreDead, DueIsLeft, DirsInv, DirsTypeOK, Exists
<1>5. LiveDirsStay'
  <2>1. \A q \in Processes, label \in Labels : Alive(q) /\ q \notin foreign => Dir(q, label) \notin doomed[p]
    BY Facts DEF DoomedAreDead, DirsInv, Dir, Alive
  <2>2. \A q \in Processes : Made(q) \subseteq Labels
    BY DEF Made, Labels
  <2> QED
    BY <1>1, <2>1, <2>2 DEF LiveDirsStay, DirsInv, Dir, Alive, Made
<1> QED
  BY <1>2, <1>3, <1>4, <1>5 DEF DirsInv

LEMMA MakeInv == ASSUME DirsInv, NEW p \in Processes, Make(p) PROVE DirsInv'
<1> PICK label \in Labels :
      /\ pc[p] = SweepStep[label] /\ Swept(p)
      /\ dirs' = dirs \cup {Dir(p, label)}
      /\ pc' = [pc EXCEPT ![p] = IF label = "home" THEN "fill" ELSE "use"]
      /\ listed' = [listed EXCEPT ![p] = {}]
      /\ due' = [due EXCEPT ![p] = {}]
  BY DEF Make, Goto
<1> DEFINE step == IF label = "home" THEN "fill" ELSE "use"
<1>1. UNCHANGED <<pid, held, doomed, cache, edits, foreign>>
  BY DEF Make
<1>2. /\ label = "home" => pc[p] = "sweep_home"
      /\ label = "target" => pc[p] = "sweep_target"
      /\ label \in {"home", "target"}
  BY DEF Labels, SweepStep
<1>3. /\ pc[p] \in {"sweep_home", "sweep_target"}
      /\ pid[p] \in Pids /\ pid[p] # 0
  BY <1>2, Facts
<1>4. Made(p)' = Made(p) \cup {label} /\ label \notin Made(p)
  BY <1>2 DEF Made, Labels, DirsInv, DirsTypeOK
<1>5. Dir(p, label) \in Dirs
  BY <1>3 DEF Dir, Dirs
<1>6. DirsTypeOK'
  BY <1>1, <1>5 DEF DirsInv, DirsTypeOK, Steps
<1>7. /\ IdsAreOwn' /\ \A d \in Dirs : MadeBy(d) => MadeBy(d)'
      /\ \A q \in Processes \ {p} : Made(q)' = Made(q) /\ pc'[q] = pc[q]
      /\ pc'[p] = step
      /\ \A q \in Processes, id \in Pids : Exists(q, id)' = Exists(q, id)
  BY <1>1, <1>3, <1>4, MovesOn DEF Steps
<1>8. MadeBy(Dir(p, label))'
  <2>1. label \in Made(p)'
    BY <1>4
  <2>2. Dir(p, label)' = Dir(p, label) /\ pid' = pid
    BY <1>1 DEF Dir
  <2>3. /\ Dir(p, label).owner = p /\ Dir(p, label).label = label
        /\ Dir(p, label).pid = pid[p]
    BY DEF Dir
  <2> QED
    BY <2>1, <2>2, <2>3 DEF MadeBy
<1>9. SeenWasMade'
  <2>1. \A q \in Processes : listed'[q] \subseteq listed[q] /\ due'[q] \subseteq due[q]
    BY DEF DirsInv, DirsTypeOK
  <2>2. \A d \in dirs' \cup UNION {listed'[q] \cup due'[q] : q \in Processes} :
          \/ d \in dirs \cup UNION {listed[q] \cup due[q] : q \in Processes}
          \/ d = Dir(p, label)
    BY <2>1
  <2>3. \A d \in dirs \cup UNION {listed[q] \cup due[q] : q \in Processes} : d \in Dirs /\ MadeBy(d)
    BY Facts DEF DirsInv, SeenWasMade, DirsTypeOK
  <2>4. Dir(p, label)' = Dir(p, label)
    BY <1>1 DEF Dir
  <2> QED
    BY <1>7, <1>8, <2>2, <2>3, <2>4 DEF SeenWasMade
<1>10. DoomedAreDead'
  BY <1>1, <1>3, <1>7, Facts DEF DoomedAreDead, DirsInv, DirsTypeOK
<1>11. DueIsLeft'
  <2>1. \A q \in Processes : Dir(p, label) \notin due[q]
    <3> SUFFICES ASSUME NEW q \in Processes, Dir(p, label) \in due[q] PROVE FALSE
      OBVIOUS
    <3>1. MadeBy(Dir(p, label))
      BY DEF SeenWasMade, DirsInv
    <3> QED
      BY <3>1, <1>3, <1>4 DEF MadeBy, Dir
  <2>2. \A q \in Processes : due'[q] = IF q = p THEN {} ELSE due[q]
    BY DEF DirsInv, DirsTypeOK
  <2>3. \A q \in Processes \ {p} : listed'[q] = listed[q]
    BY DEF DirsInv, DirsTypeOK
  <2> QED
    BY <1>1, <1>7, <2>1, <2>2, <2>3, Facts DEF DueIsLeft, DirsInv
<1>12. HomesAreFilled'
  BY <1>1, <1>2, <1>7 DEF HomesAreFilled, DirsInv
<1>13. LiveDirsStay'
  <2>1. \A q \in Processes, l \in Labels : Dir(q, l)' = Dir(q, l)
    BY <1>1 DEF Dir
  <2>2. \A q \in Processes : Made(q) \subseteq Labels /\ Made(q)' \subseteq Labels
    BY DEF Made, Labels
  <2> QED
    BY <1>1, <1>4, <1>7, <2>1, <2>2 DEF LiveDirsStay, DirsInv, Alive
<1> QED
  BY <1>6, <1>7, <1>9, <1>10, <1>11, <1>12, <1>13 DEF DirsInv

LEMMA FillInv == ASSUME DirsInv, NEW p \in Processes, NEW c \in Crates, Fill(p, c) PROVE DirsInv'
<1>1. /\ pc[p] = "fill" /\ UNCHANGED <<pid, pc, dirs, listed, doomed, cache, edits, due, foreign>>
      /\ held' = [held EXCEPT ![p] = @ \cup {[crate |-> c, content |-> "locked"]}]
  BY DEF Fill
<1>2. DirsTypeOK'
  BY <1>1 DEF DirsInv, DirsTypeOK, Homes
<1>3. HomesAreFilled'
  BY <1>1 DEF DirsInv, DirsTypeOK, HomesAreFilled
<1> QED
  BY <1>1, <1>2, <1>3 DEF DirsInv, DirsTypeOK, IdsAreOwn, SeenWasMade, MadeBy, Made, DoomedAreDead,
                         DueIsLeft, Exists, LiveDirsStay, Dir, Alive

LEMMA FilledInv == ASSUME DirsInv, NEW p \in Processes, Filled(p) PROVE DirsInv'
<1>1. /\ pc[p] = "fill" /\ {h.crate : h \in held[p]} = Crates /\ pc' = [pc EXCEPT ![p] = "list_target"]
      /\ UNCHANGED <<pid, dirs, held, listed, doomed, cache, edits, due, foreign>>
  BY DEF Filled, Goto
<1>2. Made(p)' = Made(p) /\ pid[p] # 0
  BY <1>1, Facts DEF Made, DirsInv, DirsTypeOK
<1>3. DirsTypeOK'
  BY <1>1 DEF DirsInv, DirsTypeOK, Steps
<1>4. /\ IdsAreOwn' /\ \A d \in Dirs : MadeBy(d) => MadeBy(d)'
      /\ \A q \in Processes \ {p} : Made(q)' = Made(q) /\ pc'[q] = pc[q]
      /\ pc'[p] = "list_target"
      /\ \A q \in Processes, id \in Pids : Exists(q, id)' = Exists(q, id)
  BY <1>1, <1>2, MovesOn DEF Steps
<1>5. SeenWasMade' /\ DoomedAreDead'
  BY <1>1, <1>4, Facts DEF SeenWasMade, DoomedAreDead, DirsInv, DirsTypeOK
<1>6. DueIsLeft'
  BY <1>1, <1>4, Facts DEF DueIsLeft, DirsInv
<1>7. HomesAreFilled' /\ LiveDirsStay'
  <2>1. \A q \in Processes : Made(q)' = Made(q)
    BY <1>2, <1>4
  <2>2. LiveDirsStay'
    BY <1>1, <2>1 DEF LiveDirsStay, DirsInv, Dir, Alive
  <2> QED
    BY <1>1, <1>4, <2>2 DEF HomesAreFilled, DirsInv
<1> QED
  BY <1>3, <1>4, <1>5, <1>6, <1>7 DEF DirsInv

LEMMA CacheEditInv == ASSUME DirsInv, CacheEdit PROVE DirsInv'
<1>1. /\ UNCHANGED <<pid, pc, dirs, held, listed, doomed, due, foreign>>
      /\ \E c \in Crates, content \in {"locked", "other", "absent"} :
           cache' = [cache EXCEPT ![c] = content]
  BY DEF CacheEdit
<1>2. DirsTypeOK'
  BY <1>1 DEF DirsInv, DirsTypeOK
<1> QED
  BY <1>1, <1>2 DEF DirsInv, IdsAreOwn, SeenWasMade, MadeBy, Made, DoomedAreDead, DueIsLeft,
                    Exists, HomesAreFilled, LiveDirsStay, Dir, Alive

LEMMA DirsInvNext == ASSUME DirsInv, [Next]_vars PROVE DirsInv'
<1>1. CASE \E p \in Processes : ProcessStep(p)
  <2> PICK p \in Processes : ProcessStep(p)
    BY <1>1
  <2>1. CASE Start(p)
    BY <2>1, StartInv
  <2>2. CASE End(p)
    BY <2>2, EndInv
  <2>3. CASE List(p)
    BY <2>3, ListInv
  <2>4. CASE Judge(p)
    BY <2>4, JudgeInv
  <2>5. CASE RemoveDir(p)
    BY <2>5, RemoveInv
  <2>6. CASE Make(p)
    BY <2>6, MakeInv
  <2>7. CASE \E c \in Crates : Fill(p, c)
    BY <2>7, FillInv
  <2>8. CASE Filled(p)
    BY <2>8, FilledInv
  <2> QED
    BY <2>1, <2>2, <2>3, <2>4, <2>5, <2>6, <2>7, <2>8 DEF ProcessStep
<1>2. CASE CacheEdit
  BY <1>2, CacheEditInv
<1>3. CASE UNCHANGED vars
  BY <1>3 DEF vars, DirsInv, DirsTypeOK, IdsAreOwn, SeenWasMade, MadeBy, Made, DoomedAreDead,
              DueIsLeft, Exists, HomesAreFilled, LiveDirsStay, Dir, Alive
<1> QED
  BY <1>1, <1>2, <1>3 DEF Next

LEMMA DirsInvHolds == Spec => []DirsInv
  BY DirsInvInit, DirsInvNext, PTL DEF Spec
-----------------------------------------------------------------------------
(* The directories of a living process stay, through every sweep of its namespace and
   every reuse of an id (private_dir, src/src/cargo_home.rs:36-66). *)
THEOREM LiveDirsAreKept == Spec => []LiveDirsStay
<1>1. DirsInv => LiveDirsStay
  BY DEF DirsInv
<1> QED
  BY <1>1, DirsInvHolds, PTL

(* A home that is used holds what Cargo.lock names with its digests and nothing else,
   whatever other programs do to the cache (hermetic_home, src/src/cargo_home.rs:117-200). *)
THEOREM HomesHoldTheLock == Spec => []HomesAreLocked
<1>1. DirsInv => HomesAreLocked
  <2> SUFFICES ASSUME DirsInv, NEW p \in Processes, pc[p] \in {"list_target", "sweep_target", "use"}
               PROVE  held[p] = [crate : Crates, content : {"locked"}]
    BY DEF HomesAreLocked
  <2>1. held[p] \subseteq Homes
    BY DEF DirsInv, DirsTypeOK
  <2>2. \A c \in Crates : \E h \in held[p] : h.crate = c
    BY DEF DirsInv, HomesAreFilled
  <2>3. \A h \in Homes : h = [crate |-> h.crate, content |-> "locked"]
    BY DEF Homes
  <2>4. Homes \subseteq held[p]
    <3> SUFFICES ASSUME NEW g \in Homes PROVE g \in held[p]
      OBVIOUS
    <3>1. PICK h \in held[p] : h.crate = g.crate
      BY <2>2 DEF Homes
    <3> QED
      BY <2>1, <2>3, <3>1
  <2> QED
    BY <2>1, <2>4 DEF Homes
<1> QED
  BY <1>1, DirsInvHolds, PTL

(* When a sweep makes its directory nothing is left of the dead it found whose ids nobody
   took meanwhile: it judges all that it listed and removes all that it condemned. *)
THEOREM SweepsFinish == Spec => SweepsAreComplete
<1>1. ASSUME DirsInv, [Next]_vars
      PROVE  [\A p \in Processes : pc[p] \in {"sweep_home", "sweep_target"} /\ pc'[p] \in {"fill", "use"} =>
                due[p] \cap dirs = {}]_vars
  <2> SUFFICES ASSUME Next, NEW p \in Processes,
                      pc[p] \in {"sweep_home", "sweep_target"}, pc'[p] \in {"fill", "use"}
               PROVE  due[p] \cap dirs = {}
    BY <1>1 DEF vars
  <2>1. ~CacheEdit
    BY DEF CacheEdit
  <2> PICK q \in Processes : ProcessStep(q)
    BY <2>1 DEF Next
  <2>2. pc \in [Processes -> Steps]
    BY <1>1 DEF DirsInv, DirsTypeOK
  <2>3. ~Start(q) /\ ~End(q) /\ ~Judge(q) /\ ~RemoveDir(q) /\ ~(\E c \in Crates : Fill(q, c)) /\ ~Filled(q)
    BY <2>2 DEF Start, End, Judge, RemoveDir, Fill, Filled, Goto
  <2>4. ~List(q)
    BY <2>2 DEF List, Goto, Labels, ListStep, SweepStep
  <2>5. Make(q)
    BY <2>3, <2>4 DEF ProcessStep
  <2>6. q = p /\ Swept(p)
    BY <2>2, <2>5 DEF Make, Goto
  <2> QED
    BY <1>1, <2>6 DEF Swept, DirsInv, DueIsLeft
<1> QED
  BY <1>1, DirsInvHolds, PTL DEF Spec, SweepsAreComplete

-----------------------------------------------------------------------------
(* The engine pin. *)

(* A pin that a launch would accept as things are. *)
Current(m) ==
  /\ m # NoPin /\ m.source = source /\ m.channel = channel /\ Accepts(m, place["started"])

AfterScript == {"compile", "identity", "command", "rescript", "recompile", "tools", "ran"}

(* What the build script read is still so, or the launch knows. *)
LaunchInv ==
  /\ launch.pc \notin {"idle", "refused"} => launch.pin # NoPin
  /\ launch.pc # "idle" /\ ~launch.moved => launch.pin = manifest
  /\ launch.pc \in AfterScript /\ ~launch.moved =>
       launch.exe.tools # NoToolchain /\ launch.pin.digests[launch.exe.tools.host] = launch.exe.tools
  /\ launch.pc \in {"compile", "identity"} /\ ~launch.late => source = launch.exe.hash
  /\ launch.pc = "identity" /\ ~launch.late => launch.exe.code = launch.exe.hash
  /\ launch.pc \in {"command", "rescript", "recompile", "tools", "ran"} /\ ~launch.late =>
       source = launch.pin.source
  /\ launch.pc \in {"command", "tools", "ran"} /\ ~launch.late => launch.exe.code = launch.pin.source

(* What a pin has read is still so, or the pin knows. *)
PinnerInv ==
  pinner.pc # "idle" =>
    /\ pinner.pin = manifest
    /\ pinner.clean => pinner.source = source /\ pinner.channel = channel
    /\ pinner.clean /\ pinner.pc = "report" => pinner.digest = place["started"]
    /\ pinner.pc = "report" => pinner.digest # NoToolchain
    /\ ~pinner.clean => ~clean

(* A launch under which nothing changes sees one state of the checkout. *)
CleanInv ==
  /\ clean => Current(manifest)
  /\ launch.clean => clean
  /\ launch.clean =>
       /\ launch.pc # "idle" => launch.pin = manifest
       /\ launch.pc \in AfterScript \cup {"script"} =>
            launch.at = "started" /\ launch.tools = place["started"]
       /\ launch.pc \in AfterScript => launch.exe.hash = source /\ launch.exe.tools = place["started"]
       /\ launch.pc # "refused"

EngineInv == EngineTypeOK /\ LaunchInv /\ PinnerInv /\ CleanInv /\ PinIsCoherent

LEMMA EngineInvInit == EngineInit => EngineInv
<1> SUFFICES ASSUME EngineInit PROVE EngineInv
  OBVIOUS
<1> USE DEF EngineInit
<1>1. launch.pc = "idle" /\ ~launch.clean /\ pinner.pc = "idle"
  BY DEF Idle, NotPinning
<1>2. launch \in Launches
  BY DEF Idle, NoExecutable, Places, Launches
<1>3. pinner \in Pinners
  BY DEF NotPinning, Pinners
<1>4. EngineTypeOK
  BY <1>1, <1>2, <1>3 DEF EngineTypeOK
<1> QED
  BY <1>1, <1>4 DEF EngineInv, LaunchInv, PinnerInv, CleanInv, PinIsCoherent, AfterScript

LEMMA NoPinning == NotPinning \in Pinners /\ NotPinning.pc = "idle"
  BY DEF NotPinning, Pinners

(* What a step of simdoc-pin that writes nothing leaves as it was. *)
LEMMA OthersStay ==
  ASSUME LaunchInv, CleanInv, PinIsCoherent,
         UNCHANGED <<source, channel, place, manifest, launch, clean, mixed>>
  PROVE  LaunchInv' /\ CleanInv' /\ PinIsCoherent'
  BY DEF LaunchInv, CleanInv, PinIsCoherent, Current, Accepts

(* What a step of the launch leaves as it was. *)
LEMMA LaunchFrame ==
  ASSUME EngineInv, launch' \in Launches,
         UNCHANGED <<source, channel, place, manifest, pinner, changes, clean, mixed>>
  PROVE  EngineTypeOK' /\ PinnerInv' /\ PinIsCoherent' /\ (clean => Current(manifest) /\ Current(manifest)')
  BY DEF EngineInv, EngineTypeOK, PinnerInv, PinIsCoherent, CleanInv, Current, Accepts

(* A refused launch needs no more than that something changed under it. *)
LEMMA RefusedInv ==
  ASSUME EngineInv, NEW l \in Launches, launch' = Refused(l), ~l.clean,
         ~l.moved => l.pin = manifest,
         UNCHANGED <<source, channel, place, manifest, pinner, changes, clean, mixed>>
  PROVE  EngineInv'
<1>1. /\ launch' \in Launches /\ launch'.pc = "refused" /\ launch'.pin = l.pin
      /\ launch'.moved = l.moved /\ ~launch'.clean
  BY DEF Refused, Launches
<1>2. LaunchInv'
  BY <1>1 DEF LaunchInv, AfterScript
<1>3. CleanInv'
  BY <1>1, LaunchFrame DEF CleanInv
<1> QED
  BY <1>1, <1>2, <1>3, LaunchFrame DEF EngineInv

LEMMA LaunchKeeps == EngineInv /\ Launch => EngineInv'
<1> SUFFICES ASSUME EngineInv, Launch PROVE EngineInv'
  OBVIOUS
<1>a. launch \in Launches /\ LaunchInv /\ CleanInv /\ EngineTypeOK
  BY DEF EngineInv, EngineTypeOK
<1>1. CASE ReadPin
  <2> DEFINE l == [launch EXCEPT !.pin = manifest, !.clean = clean, !.moved = FALSE]
  <2>1. /\ launch.pc = "idle" /\ launch' = (IF manifest = NoPin THEN Refused(l) ELSE [l EXCEPT !.pc = "source"])
        /\ UNCHANGED <<source, channel, place, manifest, pinner, changes, clean, mixed>>
    BY <1>1 DEF ReadPin, Launched
  <2>2. l \in Launches /\ l.pin = manifest /\ l.clean = clean /\ ~l.moved
    BY <1>a DEF Launches, EngineTypeOK
  <2> HIDE DEF l
  <2>3. CASE manifest = NoPin
    <3>1. ~l.clean
      BY <1>a, <2>2, <2>3 DEF CleanInv, Current
    <3> QED
      BY <2>1, <2>2, <2>3, <3>1, RefusedInv
  <2>4. CASE manifest # NoPin
    <3>1. /\ launch' \in Launches /\ launch'.pc = "source" /\ launch'.pin = manifest
          /\ launch'.clean = clean /\ ~launch'.moved
      BY <2>1, <2>2, <2>4 DEF Launches
    <3>2. LaunchInv'
      BY <2>1, <2>4, <3>1 DEF LaunchInv, AfterScript
    <3>3. CleanInv'
      BY <2>1, <3>1, LaunchFrame DEF CleanInv, AfterScript
    <3> QED
      BY <2>1, <3>1, <3>2, <3>3, LaunchFrame DEF EngineInv
  <2> QED
    BY <2>3, <2>4
<1>2. CASE VerifySource
  <2>1. /\ launch.pc = "source" /\ UNCHANGED <<source, channel, place, manifest, pinner, changes, clean, mixed>>
        /\ launch' = (IF source = launch.pin.source /\ channel = launch.pin.channel
                      THEN [launch EXCEPT !.pc = "locate"] ELSE Refused(launch))
    BY <1>2 DEF VerifySource, Launched
  <2>2. CASE launch' = Refused(launch) /\ ~(source = launch.pin.source /\ channel = launch.pin.channel)
    <3>1. ~launch.clean /\ (~launch.moved => launch.pin = manifest)
      BY <1>a, <2>1, <2>2 DEF CleanInv, LaunchInv, Current
    <3> QED
      BY <1>a, <2>1, <2>2, <3>1, RefusedInv
  <2>3. CASE launch' = [launch EXCEPT !.pc = "locate"]
    <3>1. /\ launch' \in Launches /\ launch'.pc = "locate" /\ launch'.pin = launch.pin
          /\ launch'.clean = launch.clean /\ launch'.moved = launch.moved
      BY <1>a, <2>3 DEF Launches
    <3>2. LaunchInv' /\ CleanInv'
      BY <1>a, <2>1, <3>1, LaunchFrame DEF LaunchInv, CleanInv, AfterScript
    <3> QED
      BY <2>1, <3>1, <3>2, LaunchFrame DEF EngineInv
  <2> QED
    BY <2>1, <2>2, <2>3
<1>3. CASE Locate
  <2>1. launch.pc = "locate" /\ UNCHANGED <<source, channel, place, manifest, pinner, changes, clean, mixed>>
    BY <1>3 DEF Locate, Launched
  <2>2. CASE \E p \in Places : /\ launch' = [launch EXCEPT !.pc = "script", !.at = p, !.tools = place[p]]
                               /\ launch.clean => p = "started"
    <3>1. PICK p \in Places : /\ launch' = [launch EXCEPT !.pc = "script", !.at = p, !.tools = place[p]]
                              /\ launch.clean => p = "started"
      BY <2>2
    <3>2. /\ launch' \in Launches /\ launch'.pc = "script" /\ launch'.pin = launch.pin
          /\ launch'.clean = launch.clean /\ launch'.moved = launch.moved
          /\ launch'.at = p /\ launch'.tools = place[p]
      BY <1>a, <3>1 DEF Launches, EngineTypeOK
    <3>3. LaunchInv' /\ CleanInv'
      BY <1>a, <2>1, <3>1, <3>2, LaunchFrame DEF LaunchInv, CleanInv, AfterScript
    <3> QED
      BY <2>1, <3>2, <3>3, LaunchFrame DEF EngineInv
  <2>3. CASE launch' = Refused(launch) /\ ~Accepts(launch.pin, place["started"])
    <3>1. ~launch.clean /\ (~launch.moved => launch.pin = manifest)
      BY <1>a, <2>1, <2>3 DEF CleanInv, LaunchInv, Current
    <3> QED
      BY <1>a, <2>1, <2>3, <3>1, RefusedInv
  <2>4. launch.clean => Accepts(launch.pin, place["started"])
    BY <1>a, <2>1 DEF CleanInv, Current
  <2> QED
    BY <1>3, <2>2, <2>3, <2>4 DEF Locate, Launched, Places
<1>4. CASE BuildScript
  <2> DEFINE t == place[launch.at]
  <2>1. PICK again \in BOOLEAN :
          /\ launch.pc = (IF again THEN "rescript" ELSE "script")
          /\ UNCHANGED <<source, channel, place, manifest, pinner, changes, clean, mixed>>
          /\ launch' = (IF ScriptAccepts(t)
                        THEN [launch EXCEPT !.pc = IF again THEN "recompile" ELSE "compile",
                                !.stale = FALSE, !.late = again /\ @,
                                !.exe = [hash |-> source, tools |-> t, code |-> "none"]]
                        ELSE Refused(launch))
    BY <1>4 DEF BuildScript, Launched
  <2>2. CASE ScriptAccepts(t)
    <3>1. t \in Toolchains
      BY <1>a, <2>2 DEF ScriptAccepts, EngineTypeOK, Launches
    <3>2. /\ launch' \in Launches /\ launch'.pc = (IF again THEN "recompile" ELSE "compile")
          /\ launch'.pin = launch.pin /\ launch'.clean = launch.clean /\ launch'.moved = launch.moved
          /\ launch'.at = launch.at /\ launch'.tools = launch.tools /\ launch'.late = (again /\ launch.late)
          /\ launch'.exe.hash = source /\ launch'.exe.tools = t
      BY <1>a, <2>1, <2>2, <3>1 DEF Launches, EngineTypeOK
    <3>3. LaunchInv'
      BY <1>a, <2>1, <2>2, <3>1, <3>2 DEF LaunchInv, AfterScript, ScriptAccepts, PinAssumption
    <3>4. CleanInv'
      BY <1>a, <2>1, <3>2, LaunchFrame DEF CleanInv, AfterScript
    <3> QED
      BY <2>1, <3>2, <3>3, <3>4, LaunchFrame DEF EngineInv
  <2>3. CASE ~ScriptAccepts(t)
    <3>1. ~launch.clean /\ (~launch.moved => launch.pin = manifest)
      BY <1>a, <2>1, <2>3 DEF CleanInv, LaunchInv, Current, Accepts, ScriptAccepts, AfterScript
    <3> QED
      BY <1>a, <2>1, <2>3, <3>1, RefusedInv
  <2> QED
    BY <2>2, <2>3
<1>5. CASE Compile
  <2>1. PICK again \in BOOLEAN :
          /\ launch.pc = (IF again THEN "recompile" ELSE "compile")
          /\ UNCHANGED <<source, channel, place, manifest, pinner, changes, clean, mixed>>
          /\ launch' = (IF place[launch.at] = NoToolchain THEN Refused(launch)
                        ELSE [launch EXCEPT !.pc = IF again THEN "tools" ELSE "identity", !.exe.code = source])
    BY <1>5 DEF Compile, Launched
  <2>2. CASE place[launch.at] = NoToolchain
    <3>1. ~launch.clean /\ (~launch.moved => launch.pin = manifest)
      BY <1>a, <2>1, <2>2 DEF CleanInv, LaunchInv, Current, Accepts, AfterScript
    <3> QED
      BY <1>a, <2>1, <2>2, <3>1, RefusedInv
  <2>3. CASE place[launch.at] # NoToolchain
    <3>1. /\ launch' \in Launches /\ launch'.pc = (IF again THEN "tools" ELSE "identity")
          /\ launch'.pin = launch.pin /\ launch'.clean = launch.clean /\ launch'.moved = launch.moved
          /\ launch'.at = launch.at /\ launch'.tools = launch.tools /\ launch'.late = launch.late
          /\ launch'.exe.hash = launch.exe.hash /\ launch'.exe.tools = launch.exe.tools
          /\ launch'.exe.code = source
      BY <1>a, <2>1, <2>3 DEF Launches, EngineTypeOK
    <3>2. LaunchInv'
      BY <1>a, <2>1, <3>1 DEF LaunchInv, AfterScript
    <3>3. CleanInv'
      BY <1>a, <2>1, <3>1, LaunchFrame DEF CleanInv, AfterScript
    <3> QED
      BY <2>1, <3>1, <3>2, <3>3, LaunchFrame DEF EngineInv
  <2> QED
    BY <2>2, <2>3
<1>6. CASE VerifyIdentity
  <2>1. /\ launch.pc = "identity" /\ UNCHANGED <<source, channel, place, manifest, pinner, changes, clean, mixed>>
        /\ launch' = (IF IdentityMatches(launch) THEN [launch EXCEPT !.pc = "command"] ELSE Refused(launch))
    BY <1>6 DEF VerifyIdentity, Launched
  <2>2. CASE IdentityMatches(launch)
    <3>1. /\ launch' \in Launches /\ launch'.pc = "command" /\ launch'.pin = launch.pin
          /\ launch'.clean = launch.clean /\ launch'.moved = launch.moved /\ launch'.exe = launch.exe
          /\ launch'.at = launch.at /\ launch'.tools = launch.tools /\ launch'.late = launch.late
      BY <1>a, <2>1, <2>2 DEF Launches
    <3>2. LaunchInv'
      BY <1>a, <2>1, <2>2, <3>1 DEF LaunchInv, AfterScript, IdentityMatches
    <3>3. CleanInv'
      BY <1>a, <2>1, <3>1, LaunchFrame DEF CleanInv, AfterScript
    <3> QED
      BY <2>1, <3>1, <3>2, <3>3, LaunchFrame DEF EngineInv
  <2>3. CASE ~IdentityMatches(launch)
    <3>1. launch.clean => IdentityMatches(launch)
      BY <1>a, <2>1 DEF CleanInv, Current, Accepts, IdentityMatches, AfterScript
    <3>2. ~launch.moved => launch.pin = manifest
      BY <1>a, <2>1 DEF LaunchInv
    <3> QED
      BY <1>a, <2>1, <2>3, <3>1, <3>2, RefusedInv
  <2> QED
    BY <2>2, <2>3
<1>7. CASE RunCommand
  <2>1. launch.pc = "command" /\ UNCHANGED <<source, channel, place, manifest, pinner, changes, clean, mixed>>
    BY <1>7 DEF RunCommand, Launched
  <2>2. CASE \E next \in {"rescript", "tools"} : launch' = [launch EXCEPT !.pc = next]
    <3>1. PICK next \in {"rescript", "tools"} : launch' = [launch EXCEPT !.pc = next]
      BY <2>2
    <3>2. /\ launch' \in Launches /\ launch'.pc = next /\ launch'.pin = launch.pin
          /\ launch'.clean = launch.clean /\ launch'.moved = launch.moved /\ launch'.exe = launch.exe
          /\ launch'.at = launch.at /\ launch'.tools = launch.tools /\ launch'.late = launch.late
      BY <1>a, <3>1 DEF Launches
    <3>3. LaunchInv'
      BY <1>a, <2>1, <3>2 DEF LaunchInv, AfterScript
    <3>4. CleanInv'
      BY <1>a, <2>1, <3>2, LaunchFrame DEF CleanInv, AfterScript
    <3> QED
      BY <2>1, <3>2, <3>3, <3>4, LaunchFrame DEF EngineInv
  <2>3. CASE place[launch.at] = NoToolchain /\ launch' = Refused(launch)
    <3>1. ~launch.clean /\ (~launch.moved => launch.pin = manifest)
      BY <1>a, <2>1, <2>3 DEF CleanInv, LaunchInv, Current, Accepts, AfterScript
    <3> QED
      BY <1>a, <2>1, <2>3, <3>1, RefusedInv
  <2> QED
    BY <1>7, <2>2, <2>3 DEF RunCommand, Launched
<1>8. CASE VerifyTools
  <2>1. /\ launch.pc = "tools" /\ UNCHANGED <<source, channel, place, manifest, pinner, changes, clean, mixed>>
        /\ launch' = (IF place[launch.at] = launch.exe.tools THEN [launch EXCEPT !.pc = "ran"] ELSE Refused(launch))
    BY <1>8 DEF VerifyTools, Launched
  <2>2. CASE place[launch.at] = launch.exe.tools
    <3>1. /\ launch' \in Launches /\ launch'.pc = "ran" /\ launch'.pin = launch.pin
          /\ launch'.clean = launch.clean /\ launch'.moved = launch.moved /\ launch'.exe = launch.exe
          /\ launch'.at = launch.at /\ launch'.tools = launch.tools /\ launch'.late = launch.late
      BY <1>a, <2>1, <2>2 DEF Launches
    <3>2. LaunchInv'
      BY <1>a, <2>1, <3>1 DEF LaunchInv, AfterScript
    <3>3. CleanInv'
      BY <1>a, <2>1, <3>1, LaunchFrame DEF CleanInv, AfterScript
    <3> QED
      BY <2>1, <3>1, <3>2, <3>3, LaunchFrame DEF EngineInv
  <2>3. CASE place[launch.at] # launch.exe.tools
    <3>1. ~launch.clean /\ (~launch.moved => launch.pin = manifest)
      BY <1>a, <2>1, <2>3 DEF CleanInv, LaunchInv, AfterScript
    <3> QED
      BY <1>a, <2>1, <2>3, <3>1, RefusedInv
  <2> QED
    BY <2>1, <2>2, <2>3
<1> QED
  BY <1>1, <1>2, <1>3, <1>4, <1>5, <1>6, <1>7, <1>8 DEF Launch

(* What the developer changes, every reader that is under way knows. *)
LEMMA EditKeeps == EngineInv /\ (EditSource \/ EditChannel \/ Install) => EngineInv'
<1> SUFFICES ASSUME EngineInv, EditSource \/ EditChannel \/ Install PROVE EngineInv'
  OBVIOUS
<1>a. launch \in Launches /\ pinner \in Pinners
  BY DEF EngineInv, EngineTypeOK
<1>1. PICK touched \in BOOLEAN, late \in BOOLEAN :
        Edited(touched, late) /\ UNCHANGED <<manifest, mixed>> /\ (source' # source => late)
  BY DEF EditSource, EditChannel, Install
<1>2. /\ launch' \in Launches /\ launch'.pc = launch.pc /\ launch'.pin = launch.pin
      /\ ~launch'.clean /\ launch'.moved = launch.moved /\ launch'.exe = launch.exe
      /\ launch'.at = launch.at /\ launch'.tools = launch.tools /\ launch'.late = (launch.late \/ late)
  BY <1>a, <1>1 DEF Edited, Launches
<1>3. /\ pinner' \in Pinners /\ pinner'.pc = pinner.pc /\ pinner'.pin = pinner.pin /\ ~pinner'.clean
      /\ pinner'.source = pinner.source /\ pinner'.channel = pinner.channel /\ pinner'.digest = pinner.digest
  BY <1>a, <1>1 DEF Edited, Pinners
<1>4. EngineTypeOK'
  <2>1. source' \in Sources /\ channel' \in Releases /\ place' \in [Places -> Toolchains \cup {NoToolchain}]
    BY DEF EngineInv, EngineTypeOK, EditSource, EditChannel, Install
  <2>2. changes \in Nat /\ changes' = changes + 1 /\ clean' = FALSE /\ mixed' = mixed
    BY <1>1 DEF Edited, EngineInv, EngineTypeOK
  <2>3. changes' \in Nat
    BY <2>2
  <2>4. clean' \in BOOLEAN /\ mixed' \in BOOLEAN
    BY <2>2, Zenon DEF EngineInv, EngineTypeOK
  <2> QED
    BY <1>1, <1>2, <1>3, <2>1, <2>3, <2>4 DEF EngineInv, EngineTypeOK
<1>5. LaunchInv'
  BY <1>1, <1>2 DEF EngineInv, LaunchInv, AfterScript
<1>6. PinnerInv' /\ CleanInv'
  BY <1>1, <1>2, <1>3 DEF Edited, EngineInv, PinnerInv, CleanInv
<1>7. PinIsCoherent'
  BY <1>1 DEF EngineInv, PinIsCoherent
<1> QED
  BY <1>4, <1>5, <1>6, <1>7 DEF EngineInv

LEMMA EngineInvNext == EngineInv /\ [EngineNext]_engineVars => EngineInv'
<1> SUFFICES ASSUME EngineInv, [EngineNext]_engineVars PROVE EngineInv'
  OBVIOUS
<1> USE PinAssumption DEF EngineInv
<1>1. CASE UNCHANGED engineVars
  BY <1>1 DEF engineVars, EngineTypeOK, LaunchInv, PinnerInv, CleanInv, PinIsCoherent, Current, Accepts
<1>2. CASE Measure
  <2>1. EngineTypeOK'
    BY <1>2 DEF Measure, EngineTypeOK, Pinners
  <2>2. PinnerInv'
    BY <1>2 DEF Measure, PinnerInv, EngineTypeOK
  <2> QED
    BY <1>2, <2>1, <2>2, OthersStay DEF Measure
<1>3. CASE Digest
  <2>1. EngineTypeOK'
    <3>1. place["started"] \in Toolchains \cup {NoToolchain}
      BY DEF EngineTypeOK, Places
    <3>2. CASE pinner' = NotPinning
      BY <1>3, <3>2, NoPinning DEF Digest, EngineTypeOK
    <3>3. CASE pinner' = [pinner EXCEPT !.pc = "report", !.digest = place["started"]]
      <4>1. pinner \in Pinners
        BY DEF EngineTypeOK
      <4>2. pinner' \in Pinners /\ pinner'.source = pinner.source /\ pinner'.channel = pinner.channel
        BY <3>1, <3>3, <4>1 DEF Pinners
      <4> QED
        BY <1>3, <4>2 DEF Digest, EngineTypeOK
    <3> QED
      BY <1>3, <3>2, <3>3 DEF Digest
  <2>2. PinnerInv'
    BY <1>3 DEF Digest, PinnerInv, EngineTypeOK, NotPinning
  <2> QED
    BY <1>3, <2>1, <2>2, OthersStay DEF Digest
<1>4. CASE Pin
  <2> DEFINE running == place["started"]
  <2> USE <1>4
  <2>1. CASE UNCHANGED <<manifest, launch, clean, mixed>>
    <3>1. pinner' = NotPinning /\ UNCHANGED <<source, channel, place, changes>>
      BY DEF Pin
    <3>2. EngineTypeOK'
      BY <2>1, <3>1, NoPinning DEF EngineTypeOK
    <3>3. PinnerInv'
      BY <3>1, NoPinning DEF PinnerInv
    <3> QED
      BY <2>1, <3>1, <3>2, <3>3, OthersStay
  <2>2. CASE /\ running # NoToolchain /\ running.release = pinner.channel /\ IsCurrent(pinner.pin, running)
             /\ clean' = (clean \/ pinner.clean) /\ UNCHANGED <<manifest, launch, mixed>>
    <3>1. pinner.pc = "report" /\ pinner' = NotPinning /\ UNCHANGED <<source, channel, place, changes>>
      BY DEF Pin
    <3>2. EngineTypeOK' /\ PinnerInv'
      BY <2>2, <3>1, NoPinning DEF EngineTypeOK, PinnerInv, Pinners
    <3>3. pinner.clean => Current(manifest)
      BY <2>2, <3>1 DEF IsCurrent, Current, Accepts, PinnerInv
    <3>4. CleanInv'
      BY <2>2, <3>1, <3>3 DEF CleanInv, Current, Accepts
    <3> QED
      BY <2>2, <3>1, <3>2, <3>4 DEF LaunchInv, PinIsCoherent
  <2>3. CASE /\ running # NoToolchain /\ running.release = pinner.channel
             /\ manifest' = Measured(running)
             /\ launch' = [launch EXCEPT !.stale = TRUE, !.moved = @ \/ manifest' # manifest]
             /\ clean' = pinner.clean /\ mixed' = (mixed \/ ~pinner.clean)
    <3>1. pinner.pc = "report" /\ pinner' = NotPinning /\ UNCHANGED <<source, channel, place, changes>>
      BY DEF Pin
    <3>2. running \in Toolchains /\ running.host \in Hosts
      BY <2>3 DEF EngineTypeOK, Places, Hosts
    <3>3. /\ launch' \in Launches /\ launch'.pc = launch.pc /\ launch'.pin = launch.pin
          /\ launch'.at = launch.at /\ launch'.tools = launch.tools /\ launch'.exe = launch.exe
          /\ launch'.late = launch.late /\ launch'.clean = launch.clean
          /\ launch'.moved = (launch.moved \/ manifest' # manifest)
      <4>1. launch \in Launches
        BY DEF EngineTypeOK
      <4> QED
        BY <2>3, <4>1 DEF Launches
    <3> DEFINE same == /\ pinner.pin # NoPin /\ pinner.pin.channel = pinner.channel
                       /\ pinner.pin.commit = running.commit
               kept == IF same THEN pinner.pin.digests ELSE [h \in Hosts |-> NoToolchain]
    <3>4. manifest' = [source |-> pinner.source, channel |-> pinner.channel, commit |-> running.commit,
                       digests |-> [kept EXCEPT ![running.host] = pinner.digest]]
      BY <2>3 DEF Measured
    <3>5. kept \in [Hosts -> Toolchains \cup {NoToolchain}]
      BY <3>1 DEF EngineTypeOK, Pinners, Pins
    <3> HIDE DEF kept
    <3>6. manifest' \in Pins
      <4>1. pinner.digest \in Toolchains \cup {NoToolchain} /\ pinner.source \in Sources
              /\ pinner.channel \in Releases /\ running.commit \in Commits
        BY <3>1, <3>2 DEF EngineTypeOK, Pinners, Commits
      <4> QED
        BY <3>4, <3>5, <4>1 DEF Pins
    <3>7. pinner.clean => Current(manifest)'
      <4>1. pinner.clean => pinner.digest = running /\ pinner.source = source /\ pinner.channel = channel
        BY <3>1 DEF PinnerInv
      <4>2. manifest'.digests[running.host] = pinner.digest
        BY <3>2, <3>4, <3>5
      <4>3. manifest' # NoPin
        BY <3>6 DEF Pins
      <4> QED
        BY <2>3, <3>1, <3>4, <4>1, <4>2, <4>3 DEF Current, Accepts
    <3>8. clean => pinner.clean /\ manifest' = manifest
      <4>1. SUFFICES ASSUME clean PROVE pinner.clean /\ manifest' = manifest
        OBVIOUS
      <4>2. pinner.clean /\ pinner.pin = manifest /\ Current(manifest)
        BY <3>1, <4>1 DEF PinnerInv, CleanInv, EngineTypeOK, Pinners
      <4>3. pinner.digest = running /\ pinner.source = source /\ pinner.channel = channel
        BY <3>1, <4>2 DEF PinnerInv
      <4>4. manifest \in Pins /\ manifest.digests[running.host] = running
        BY <4>2 DEF Current, Accepts, EngineTypeOK
      <4>5. kept = manifest.digests
        BY <4>2, <4>3 DEF kept, Current, Accepts
      <4>6. [kept EXCEPT ![running.host] = pinner.digest] = manifest.digests
        BY <3>2, <4>3, <4>4, <4>5 DEF Pins
      <4> QED
        BY <3>4, <4>2, <4>3, <4>4, <4>6 DEF Pins, Current, Accepts
    <3>9. EngineTypeOK' /\ PinnerInv'
      BY <2>3, <3>1, <3>3, <3>6, NoPinning DEF EngineTypeOK, PinnerInv, Pinners
    <3>10. LaunchInv'
      BY <3>1, <3>3 DEF LaunchInv
    <3>11. CleanInv'
      BY <2>3, <3>1, <3>3, <3>7, <3>8 DEF CleanInv
    <3>12. PinIsCoherent'
      <4>1. SUFFICES ASSUME ~mixed, pinner.clean, NEW h \in Hosts, manifest'.digests[h] # NoToolchain
                     PROVE  /\ manifest'.digests[h].host = h
                            /\ manifest'.digests[h].release = manifest'.channel
                            /\ manifest'.digests[h].commit = manifest'.commit
        BY <2>3 DEF PinIsCoherent, EngineTypeOK
      <4>2. CASE h = running.host
        <5>1. manifest'.digests[h] = running
          BY <3>1, <3>2, <3>4, <3>5, <4>1, <4>2 DEF PinnerInv
        <5> QED
          BY <2>3, <3>4, <4>2, <5>1
      <4>3. CASE h # running.host
        <5>1. manifest'.digests[h] = kept[h]
          BY <3>4, <3>5, <4>3
        <5>2. same /\ kept = manifest.digests /\ manifest # NoPin
          BY <3>1, <4>1, <5>1 DEF kept, PinnerInv
        <5> QED
          BY <3>1, <3>4, <4>1, <5>1, <5>2 DEF PinIsCoherent, PinnerInv
      <4> QED
        BY <4>2, <4>3
    <3> QED
      BY <3>9, <3>10, <3>11, <3>12
  <2> QED
    BY <2>1, <2>2, <2>3 DEF Pin
<1>5. CASE Launch
  BY <1>5, LaunchKeeps
<1>6. CASE EditSource
  BY <1>6, EditKeeps
<1>7. CASE EditChannel
  BY <1>7, EditKeeps
<1>8. CASE Install
  BY <1>8, EditKeeps
<1> QED
  BY <1>1, <1>2, <1>3, <1>4, <1>5, <1>6, <1>7, <1>8 DEF EngineNext

(* The type correctness of the specification. *)
THEOREM EngineTypeCorrect == EngineSpec => []EngineTypeOK
<1>1. EngineInv => EngineTypeOK
  BY DEF EngineInv
<1> QED
  BY <1>1, EngineInvInit, EngineInvNext, PTL DEF EngineSpec

(* The engine that runs was compiled from the committed source with the committed
   toolchain. *)
THEOREM CommittedRuns == EngineSpec => []EngineIsCommitted
<1>1. EngineInv => EngineIsCommitted
  BY DEF EngineInv, LaunchInv, EngineIsCommitted, AfterScript
<1> QED
  BY <1>1, EngineInvInit, EngineInvNext, PTL DEF EngineSpec

(* The digests of all hosts in the manifest are of one release. *)
THEOREM PinsCohere == EngineSpec => []PinIsCoherent
<1>1. EngineInv => PinIsCoherent
  BY DEF EngineInv
<1> QED
  BY <1>1, EngineInvInit, EngineInvNext, PTL DEF EngineSpec

(* What simdoc-pin wrote or found current is accepted by every launch until something
   changes. *)
THEOREM PinnedLaunches == EngineSpec => []PinnedIsAccepted
<1>1. EngineInv => PinnedIsAccepted
  BY DEF EngineInv, CleanInv, PinnedIsAccepted
<1> QED
  BY <1>1, EngineInvInit, EngineInvNext, PTL DEF EngineSpec

-----------------------------------------------------------------------------
(* The repository contract: every package is covered, or excluded for a reason. *)

(* The package of a directory is kept where git knows of it. *)
Tracked(repo, dir) == Manifest(dir) \in Manifests(repo)

(* What git, cargo and a root manifest can say of a checkout. *)
IsCheckout(repo, Words) ==
  /\ {"Cargo", "toml"} \subseteq Words
  /\ IsFiniteSet(DOMAIN repo.package) /\ DOMAIN repo.package \subseteq Seq(Words)
  /\ repo.declared \in Seq(Seq(Words))
  /\ Len(repo.exclusions) \in Nat /\ DOMAIN repo.exclusions = 1..Len(repo.exclusions)
  /\ \A i \in DOMAIN repo.exclusions :
       repo.exclusions[i].path \in Seq(Words) /\ repo.exclusions[i].consumer \in Seq(Words)
  /\ \A d \in DOMAIN repo.cargo : repo.cargo[d].members \in Seq(DOMAIN repo.package)

(* Cargo finds a workspace by walking up from a package: a member lies below the root of its
   workspace, with no other workspace between, and a package at the root is a member. *)
CargoWalksUp(repo) ==
  \A d \in DOMAIN repo.cargo : repo.cargo[d].root = d =>
    /\ d \in DOMAIN repo.package => d \in ToSet(repo.cargo[d].members)
    /\ \A p \in ToSet(repo.cargo[d].members) :
         /\ IsPrefix(d, p)
         /\ \A e \in DOMAIN repo.cargo : repo.cargo[e].root = e /\ IsPrefix(e, p) => IsPrefix(e, d)

(* An exclusion names a directory: it is not the manifest of a package. *)
ExcludesDirectories(repo) ==
  \A i \in DOMAIN repo.exclusions : \A p \in DOMAIN repo.package :
    IsPrefix(repo.exclusions[i].path, Manifest(p)) => IsPrefix(repo.exclusions[i].path, p)

(* What a covered package needs by its path is tracked. *)
NeedsAreTracked(repo) ==
  \A p \in Members(repo) : \A q \in repo.package[p].paths \cap DOMAIN repo.package : Tracked(repo, q)

(* Numbers have a least one. *)
LEMMA LeastNumber ==
  ASSUME NEW S \in SUBSET Nat, S # {}
  PROVE  \E x \in S : \A y \in S : x <= y
<1> DEFINE R == OpToRel(<, Nat)
<1>1. IsWellFoundedOn(R, Nat)
  BY NatLessThanWellFounded
<1>2. \A x, y \in Nat : <<x, y>> \in R <=> x < y
  BY DEF OpToRel
<1> HIDE DEF R
<1>3. PICK x \in S : \A y \in S : <<y, x>> \notin R
  BY <1>1, WFMin
<1>4. \A y \in S : x \in Nat /\ y \in Nat /\ ~(y < x)
  BY <1>2, <1>3
<1> QED
  BY <1>4

(* A manifest lies in its directory, and its path tells that it is a manifest. *)
LEMMA ManifestFacts ==
  ASSUME NEW Words, {"Cargo", "toml"} \subseteq Words, NEW dir \in Seq(Words)
  PROVE  /\ DirOf(Manifest(dir)) = dir
         /\ IsManifest(Manifest(dir))
<1> DEFINE name == <<"Cargo", "toml">>
           whole == dir \o name
<1>1. name \in Seq(Words) /\ Len(name) = 2
  OBVIOUS
<1>2. Len(dir) \in Nat /\ dir \in Seq(Words)
  OBVIOUS
<1> HIDE DEF name
<1>3. whole \in Seq(Words) /\ Len(whole) = Len(dir) + 2 /\ \A i \in 1..Len(dir) : whole[i] = dir[i]
  <2>1. whole \in Seq(Words) /\ Len(whole) = Len(dir) + Len(name)
    BY <1>1, <1>2, ConcatProperties
  <2>2. \A i \in 1..Len(dir) : whole[i] = dir[i]
    BY <1>1, <1>2, ConcatProperties
  <2> QED
    BY <1>1, <2>1, <2>2
<1>4. SubSeq(whole, 1, Len(dir)) = dir
  BY <1>2, <1>3, SubSeqProperties, SeqEqual
<1>5. Len(whole) - 2 = Len(dir) /\ Len(whole) >= 2
  BY <1>2, <1>3
<1>6. DirOf(whole) = dir
  BY <1>4, <1>5 DEF DirOf
<1>7. Manifest(dir) = whole
  BY DEF Manifest, name
<1> HIDE DEF whole
<1> QED
  BY <1>5, <1>6, <1>7 DEF IsManifest

(* The exclusion around a path, if there is one: the first of contract_exclusions. *)
LEMMA ExcluderFacts ==
  ASSUME NEW repo, NEW Words, IsCheckout(repo, Words), NEW m
  PROVE  /\ ExcluderOf(repo, m) = 0 <=> \A i \in DOMAIN repo.exclusions :
              ~IsPrefix(repo.exclusions[i].path, m)
         /\ ExcluderOf(repo, m) # 0 => /\ ExcluderOf(repo, m) \in DOMAIN repo.exclusions
                                       /\ IsPrefix(repo.exclusions[ExcluderOf(repo, m)].path, m)
<1> DEFINE around == {i \in DOMAIN repo.exclusions : IsPrefix(repo.exclusions[i].path, m)}
           first == CHOOSE i \in around : \A j \in around : i <= j
<1>1. around \subseteq Nat /\ 0 \notin around
  BY DEF IsCheckout
<1>2. ExcluderOf(repo, m) = IF around = {} THEN 0 ELSE first
  BY DEF ExcluderOf
<1>3. around # {} => first \in around
  <2> SUFFICES ASSUME around # {} PROVE first \in around
    OBVIOUS
  <2>1. \E i \in around : \A j \in around : i <= j
    BY <1>1, LeastNumber
  <2> QED
    BY <2>1
<1> HIDE DEF first
<1> QED
  BY <1>1, <1>2, <1>3

(* What is in a sequence. *)
LEMMA SeqRange ==
  ASSUME NEW S, NEW s \in Seq(S)
  PROVE  /\ ToSet(s) \subseteq S
         /\ DOMAIN s = 1..Len(s) /\ Len(s) \in Nat
         /\ \A x : x \in ToSet(s) <=> \E i \in DOMAIN s : s[i] = x
BY DEF ToSet

(* Workspaces that contract_workspaces accepts: they are roots, their members are packages,
   and no two have a package of the same name. *)
LEMMA CoveringFacts ==
  ASSUME NEW repo, NEW Words, IsCheckout(repo, Words), WorkspacesOK(repo)
  PROVE  /\ Covering(repo) \subseteq Seq(Words)
         /\ \A d \in Covering(repo) : d \in DOMAIN repo.cargo /\ repo.cargo[d].root = d
         /\ \A d \in ToSet(repo.declared) : d # <<>>
         /\ Members(repo) \subseteq DOMAIN repo.package
         /\ \A d \in Covering(repo) : \A p \in ToSet(repo.cargo[d].members) : p \in Members(repo)
         /\ \A d, e \in Covering(repo) : d # e => Names(repo, d) \cap Names(repo, e) = {}
<1>1. repo.declared \in Seq(Seq(Words)) /\ <<>> \in Seq(Words)
  BY DEF IsCheckout
<1>2. ToSet(repo.declared) \subseteq Seq(Words) /\ DOMAIN repo.declared =
        1..Len(repo.declared) /\ Len(repo.declared) \in Nat
      /\ \A x : x \in ToSet(repo.declared) <=> \E i \in DOMAIN repo.declared : repo.declared[i] = x
  BY <1>1, SeqRange
<1>3. Covering(repo) \subseteq Seq(Words)
  BY <1>1, <1>2 DEF Covering
<1>4. ASSUME NEW d \in Covering(repo) PROVE d \in DOMAIN repo.cargo /\ repo.cargo[d].root = d
  BY <1>2 DEF Covering, WorkspacesOK, Loads
<1>5. \A d \in ToSet(repo.declared) : d # <<>>
  BY <1>2 DEF WorkspacesOK, IsPlain
<1>6. Members(repo) \subseteq DOMAIN repo.package
  <2> SUFFICES ASSUME NEW d \in Covering(repo), NEW p \in ToSet(repo.cargo[d].members)
        PROVE p \in DOMAIN repo.package
    BY DEF Members
  <2>1. repo.cargo[d].members \in Seq(DOMAIN repo.package)
    BY <1>4 DEF IsCheckout
  <2> QED
    BY <2>1, SeqRange
<1>7. ASSUME NEW i \in DOMAIN repo.declared, NEW b \in {<<>>} \cup {repo.declared[j] : j \in 1..(i - 1)}
      PROVE  Names(repo, repo.declared[i]) \cap Names(repo, b) = {}
  BY DEF WorkspacesOK
<1>8. ASSUME NEW d \in Covering(repo), NEW e \in Covering(repo), d # e
        PROVE Names(repo, d) \cap Names(repo, e) = {}
  <2>1. CASE d = <<>>
    <3>1. PICK i \in DOMAIN repo.declared : repo.declared[i] = e
      BY <1>2, <1>8, <2>1 DEF Covering
    <3> QED
      BY <1>7, <2>1, <3>1
  <2>2. CASE e = <<>>
    <3>1. PICK i \in DOMAIN repo.declared : repo.declared[i] = d
      BY <1>2, <1>8, <2>2 DEF Covering
    <3> QED
      BY <1>7, <2>2, <3>1
  <2>3. CASE d # <<>> /\ e # <<>>
    <3>1. PICK i \in DOMAIN repo.declared : repo.declared[i] = d
      BY <1>2, <2>3 DEF Covering
    <3>2. PICK j \in DOMAIN repo.declared : repo.declared[j] = e
      BY <1>2, <2>3 DEF Covering
    <3>3. i # j /\ i \in Nat /\ j \in Nat /\ i >= 1 /\ j >= 1
      BY <1>2, <1>8, <3>1, <3>2
    <3>4. j \in 1..(i - 1) \/ i \in 1..(j - 1)
      BY <3>3
    <3> QED
      BY <1>7, <3>1, <3>2, <3>4
  <2> QED
    BY <2>1, <2>2, <2>3
<1>9. \A d \in Covering(repo) : \A p \in ToSet(repo.cargo[d].members) : p \in Members(repo)
  BY DEF Members
<1> QED
  BY <1>3, <1>4, <1>5, <1>6, <1>8, <1>9

(* A prefix is no longer than what it is a prefix of, and as long only if it is all of it. *)
LEMMA PrefixFacts ==
  ASSUME NEW Words, NEW d \in Seq(Words), NEW e \in Seq(Words), IsPrefix(d, e)
  PROVE  /\ Len(d) <= Len(e)
         /\ Len(e) <= Len(d) => d = e
<1>1. d \in Seq(Words) /\ e \in Seq(Words)
  OBVIOUS
<1>2. Len(d) <= Len(e) /\ SubSeq(d, 1, Len(d)) = SubSeq(e, 1, Len(d)) /\ Len(d) \in Nat /\ Len(e) \in Nat
  BY <1>1, LenProperties DEF IsPrefix
<1>3. ASSUME Len(e) <= Len(d) PROVE d = e
  <2>1. Len(e) = Len(d)
    BY <1>2, <1>3
  <2>2. SubSeq(d, 1, Len(d)) = d /\ SubSeq(e, 1, Len(e)) = e
    BY <1>1, SubSeqFull
  <2> QED
    BY <1>2, <2>1, <2>2
<1> QED
  BY <1>2, <1>3

(* A member is one of the innermost workspace around it, and of no other. *)
LEMMA OneHome ==
  ASSUME NEW repo, NEW Words, IsCheckout(repo, Words), CargoWalksUp(repo), WorkspacesOK(repo),
         NEW p \in Members(repo)
  PROVE  {d \in Covering(repo) : p \in ToSet(repo.cargo[d].members)} = {WorkspaceOf(repo, p)}
<1>1. PICK d \in Covering(repo) : p \in ToSet(repo.cargo[d].members)
  BY DEF Members
<1>2. ASSUME NEW e \in Covering(repo), p \in ToSet(repo.cargo[e].members) PROVE e = d
  <2>1. repo.package[p].name \in Names(repo, d) /\ repo.package[p].name \in Names(repo, e)
    BY <1>1, <1>2 DEF Names
  <2>2. e # d => Names(repo, e) \cap Names(repo, d) = {}
    BY CoveringFacts
  <2> QED
    BY <2>1, <2>2
<1>3. p \in Seq(Words) /\ d \in Seq(Words)
  BY CoveringFacts DEF IsCheckout
<1>4. IsPrefix(d, p) /\ \A e \in Covering(repo) : IsPrefix(e, p) => IsPrefix(e, d)
  BY <1>1, CoveringFacts DEF CargoWalksUp
<1> DEFINE around == {e \in ToSet(repo.declared) : IsPrefix(e, p)}
           inner == CHOOSE e \in around : \A f \in around : Len(f) <= Len(e)
<1>5. WorkspaceOf(repo, p) = IF around = {} THEN <<>> ELSE inner
  BY DEF WorkspaceOf
<1>6. \A e \in around : e \in Seq(Words) /\ e \in Covering(repo) /\ e # <<>> /\ IsPrefix(e, d)
  BY <1>4, CoveringFacts DEF Covering
<1>7. CASE d = <<>>
  <2>1. ASSUME NEW e \in around PROVE FALSE
    <3>1. e \in Seq(Words) /\ IsPrefix(e, <<>>) /\ e # <<>>
      BY <1>6, <1>7
    <3>2. Len(e) <= Len(<<>>) /\ Len(<<>>) = 0 /\ Len(e) \in Nat
      BY <3>1 DEF IsPrefix
    <3> QED
      BY <3>1, <3>2, EmptySeq
  <2> QED
    BY <1>1, <1>2, <1>5, <1>7, <2>1
<1>8. CASE d # <<>>
  <2>1. d \in around
    BY <1>4, <1>8 DEF Covering
  <2>2. \A e \in around : Len(e) <= Len(d)
    BY <1>3, <1>6, PrefixFacts
  <2>3. inner \in around /\ \A f \in around : Len(f) <= Len(inner)
    BY <2>1, <2>2
  <2> HIDE DEF inner
  <2>4. inner = d
    BY <1>3, <1>6, <2>1, <2>3, PrefixFacts
  <2> QED
    BY <1>1, <1>2, <1>5, <2>1, <2>4
<1> QED
  BY <1>7, <1>8

(* A path is a prefix of it and the rest. *)
LEMMA Rejoined ==
  ASSUME NEW Words, NEW d \in Seq(Words), NEW e \in Seq(Words), IsPrefix(d, e)
  PROVE  e = d \o SubSeq(e, Len(d) + 1, Len(e))
<1>1. Len(d) \in Nat /\ Len(e) \in Nat /\ Len(d) <= Len(e) /\ SubSeq(d, 1, Len(d)) = SubSeq(e, 1, Len(d))
  BY DEF IsPrefix
<1>2. SubSeq(d, 1, Len(d)) = d
  BY SubSeqFull
<1> DEFINE rest == SubSeq(e, Len(d) + 1, Len(e))
<1>3. rest \in Seq(Words) /\ Len(rest) = Len(e) - Len(d) /\ \A i \in 1..(Len(e) - Len(d)) : rest[i] =
        e[Len(d) + i]
  BY <1>1
<1> HIDE DEF rest
<1>4. d \o rest \in Seq(Words) /\ Len(d \o rest) = Len(d) + Len(rest)
  BY <1>3, ConcatProperties
<1>5. ASSUME NEW i \in 1..Len(e) PROVE e[i] = (d \o rest)[i]
  <2>1. (d \o rest)[i] = IF i <= Len(d) THEN d[i] ELSE rest[i - Len(d)]
    BY <1>1, <1>3, ConcatProperties
  <2>2. CASE i <= Len(d)
    <3>1. SubSeq(e, 1, Len(d))[i] = e[i]
      BY <1>1, <2>2
    <3> QED
      BY <1>1, <1>2, <2>1, <2>2, <3>1
  <2>3. CASE ~(i <= Len(d))
    <3>1. i - Len(d) \in 1..(Len(e) - Len(d)) /\ Len(d) + (i - Len(d)) = i
      BY <1>1, <2>3
    <3> QED
      BY <1>3, <2>1, <2>3, <3>1
  <2> QED
    BY <2>2, <2>3
<1>6. Len(d \o rest) = Len(e)
  BY <1>1, <1>3, <1>4
<1> QED
  BY <1>4, <1>5, <1>6, SeqEqual DEF rest

(* The directory of a file is a path. *)
LEMMA ShortenedIsPath ==
  ASSUME NEW Words, NEW file \in Seq(Words)
  PROVE  DirOf(file) \in Seq(Words)
<1>1. Len(file) \in Nat /\ Len(file) - 2 <= Len(file)
  OBVIOUS
<1> QED
  BY <1>1, SubSeqProperties DEF DirOf

(* The package that owns the consumer of an exclusion is covered. *)
LEMMA OwnerIsMember ==
  ASSUME NEW repo, NEW Words, IsCheckout(repo, Words), WorkspacesOK(repo), NEW class, NEW consumer,
         OwnersOf(repo, class, consumer) # {}
  PROVE  OwnerPackage(repo, class, consumer) \in Members(repo)
<1> DEFINE at(n) == IF n = 0 THEN <<>> ELSE repo.declared[n]
           of(n) == repo.cargo[at(n)].members
           owners(n) == {i \in DOMAIN of(n) : of(n)[i] \in OwnersOf(repo, class, consumer)}
           first(numbers) == CHOOSE n \in numbers : \A m \in numbers : n <= m
           having == {n \in 0..Len(repo.declared) : owners(n) # {}}
           workspace == first(having)
           position == first(owners(workspace))
<1>1. OwnerPackage(repo, class, consumer) = of(workspace)[position]
  BY DEF OwnerPackage
<1>2. repo.declared \in Seq(Seq(Words)) /\ DOMAIN repo.declared =
        1..Len(repo.declared) /\ Len(repo.declared) \in Nat
      /\ \A x : x \in ToSet(repo.declared) <=> \E i \in DOMAIN repo.declared : repo.declared[i] = x
  BY SeqRange DEF IsCheckout
<1>3. OwnersOf(repo, class, consumer) \subseteq Members(repo)
  BY DEF OwnersOf
<1>4. ASSUME NEW n \in 0..Len(repo.declared) PROVE of(n) \in Seq(DOMAIN repo.package)
  <2>1. at(n) \in Covering(repo)
    <3>1. n = 0 \/ n \in DOMAIN repo.declared
      BY <1>2
    <3> QED
      BY <1>2, <3>1 DEF Covering
  <2> QED
    BY <2>1, CoveringFacts DEF IsCheckout
<1>5. having # {}
  <2>1. PICK p \in Members(repo) : p \in OwnersOf(repo, class, consumer)
    BY <1>3
  <2>2. PICK d \in Covering(repo) : p \in ToSet(repo.cargo[d].members)
    BY DEF Members
  <2>3. PICK n \in 0..Len(repo.declared) : at(n) = d
    <3>1. d = <<>> \/ d \in ToSet(repo.declared)
      BY <2>2 DEF Covering
    <3>2. CASE d = <<>>
      <4>1. 0 \in 0..Len(repo.declared) /\ at(0) = d
        BY <1>2, <3>2
      <4> QED
        BY <4>1
    <3>3. CASE d \in ToSet(repo.declared)
      <4>1. PICK n \in DOMAIN repo.declared : repo.declared[n] = d
        BY <1>2, <3>3
      <4>2. n \in 0..Len(repo.declared) /\ n # 0
        BY <1>2
      <4> QED
        BY <4>1, <4>2
    <3> QED
      BY <3>1, <3>2, <3>3
  <2>4. PICK i \in DOMAIN of(n) : of(n)[i] = p
    <3>1. of(n) \in Seq(DOMAIN repo.package) /\ p \in ToSet(of(n))
      BY <1>4, <2>2, <2>3
    <3> HIDE DEF of
    <3> QED
      BY <3>1, SeqRange
  <2>5. i \in owners(n)
    BY <2>1, <2>4
  <2> QED
    BY <2>5
<1>6. ASSUME NEW numbers \in SUBSET Nat, numbers # {} PROVE first(numbers) \in numbers
  <2>1. \E n \in numbers : \A m \in numbers : n <= m
    BY <1>6, LeastNumber
  <2> QED
    BY <2>1
<1>7. having \in SUBSET Nat
  BY <1>2
<1>8. workspace \in having
  BY <1>5, <1>6, <1>7
<1> HIDE DEF workspace
<1>9. owners(workspace) \in SUBSET Nat /\ owners(workspace) # {}
  <2>1. of(workspace) \in Seq(DOMAIN repo.package)
    BY <1>4, <1>8
  <2> HIDE DEF of
  <2>2. DOMAIN of(workspace) \subseteq Nat
    BY <2>1, LenProperties
  <2> QED
    BY <1>8, <2>2
<1>10. position \in owners(workspace)
  BY <1>6, <1>9
<1> HIDE DEF position, of
<1> QED
  BY <1>1, <1>3, <1>10

(* Induction, of a set of numbers. *)
LEMMA NumberInduction ==
  ASSUME NEW S \in SUBSET Nat, 0 \in S, \A n \in S : n + 1 \in S
  PROVE  S = Nat
<1> SUFFICES ASSUME Nat \ S # {} PROVE FALSE
  OBVIOUS
<1>1. PICK x \in Nat \ S : \A y \in Nat \ S : x <= y
  BY LeastNumber
<1>2. x - 1 \in Nat /\ ~(x <= x - 1)
  BY <1>1
<1>3. x - 1 \in S
  BY <1>1, <1>2
<1>4. (x - 1) + 1 \in S
  BY <1>3
<1> QED
  BY <1>1, <1>4

(* Each value is made of the one before it. *)
Iterates(f, N, base, step) == f = [n \in 0..N |-> IF n = 0 THEN base ELSE step[n][f[n - 1]]]

(* There are such values. *)
LEMMA Iteration ==
  ASSUME NEW T, NEW base \in T, NEW N \in Nat, NEW step \in [1..N -> [T -> T]]
  PROVE  \E f \in [0..N -> T] : Iterates(f, N, base, step)
<1> DEFINE Right(f, n) == f[n] = IF n = 0 THEN base ELSE step[n][f[n - 1]]
           Upto(f, m) == \A n \in 0..N : n <= m => Right(f, n)
           S == {m \in Nat : \E f \in [0..N -> T] : Upto(f, m)}
<1>1. 0 \in S
  <2> DEFINE f == [n \in 0..N |-> base]
  <2>1. f \in [0..N -> T] /\ Upto(f, 0)
    OBVIOUS
  <2> QED
    BY <2>1
<1>2. ASSUME NEW m \in S PROVE m + 1 \in S
  <2>1. PICK f \in [0..N -> T] : Upto(f, m)
    OBVIOUS
  <2> DEFINE g == [n \in 0..N |-> IF n = m + 1 THEN step[n][f[n - 1]] ELSE f[n]]
  <2>2. m \in Nat
    OBVIOUS
  <2>3. ASSUME NEW n \in 0..N PROVE g[n] \in T
    <3>1. CASE n = m + 1
      <4>1. n \in 1..N /\ n - 1 \in 0..N
        BY <2>2, <3>1
      <4>2. step[n] \in [T -> T] /\ f[n - 1] \in T
        BY <4>1
      <4> QED
        BY <3>1, <4>2
    <3> QED
      BY <3>1
  <2>4. ASSUME NEW n \in 0..N, n <= m + 1 PROVE Right(g, n)
    <3>1. CASE n = m + 1
      <4>1. n - 1 \in 0..N /\ n - 1 # m + 1 /\ n # 0
        BY <2>2, <3>1
      <4> QED
        BY <3>1, <4>1
    <3>2. CASE n # m + 1
      <4>1. n <= m /\ Right(f, n) /\ (n # 0 => n - 1 \in 0..N /\ n - 1 # m + 1)
        BY <2>1, <2>2, <2>4, <3>2
      <4> QED
        BY <3>2, <4>1
    <3> QED
      BY <3>1, <3>2
  <2>5. g \in [0..N -> T]
    BY <2>3
  <2> HIDE DEF g
  <2> QED
    BY <2>2, <2>4, <2>5
<1> HIDE DEF S
<1>3. S = Nat
  <2>1. S \in SUBSET Nat
    BY DEF S
  <2> QED
    BY <1>1, <1>2, <2>1, NumberInduction
<1>4. PICK f \in [0..N -> T] : Upto(f, N)
  BY <1>3 DEF S
<1>5. \A n \in 0..N : f[n] = IF n = 0 THEN base ELSE step[n][f[n - 1]]
  BY <1>4
<1>6. f = [n \in 0..N |-> IF n = 0 THEN base ELSE step[n][f[n - 1]]]
  BY <1>5
<1> QED
  BY <1>6 DEF Iterates

(* A package is covered when its manifest is. *)
LEMMA CoveredIsMember ==
  ASSUME NEW repo, NEW Words, IsCheckout(repo, Words), CargoWalksUp(repo), WorkspacesOK(repo),
         NEW p \in DOMAIN repo.package
  PROVE  Manifest(p) \in CoveredManifests(repo) <=> p \in Members(repo)
<1>1. p \in Members(repo) => Manifest(p) \in CoveredManifests(repo)
  BY DEF CoveredManifests
<1>2. ASSUME Manifest(p) \in CoveredManifests(repo) PROVE p \in Members(repo)
  <2>1. PICK d \in Members(repo) \cup Covering(repo) : Manifest(p) = Manifest(d)
    BY <1>2 DEF CoveredManifests
  <2>2. /\ p \in Seq(Words) /\ d \in Seq(Words) /\ {"Cargo", "toml"} \subseteq Words
        /\ d \in Covering(repo) => d \in DOMAIN repo.cargo /\ repo.cargo[d].root = d
        /\ d \in Covering(repo) => \A q \in ToSet(repo.cargo[d].members) : q \in Members(repo)
    BY CoveringFacts DEF IsCheckout
  <2>3. p = d
    <3>1. DirOf(Manifest(p)) = p /\ DirOf(Manifest(d)) = d
      BY <2>2, ManifestFacts
    <3> QED
      BY <2>1, <3>1
  <2> QED
    BY <2>1, <2>2, <2>3 DEF CargoWalksUp
<1> QED
  BY <1>1, <1>2

(* What a covered package needs is covered. *)
LEMMA NeedsAreCovered ==
  ASSUME NEW repo, NEW Words, IsCheckout(repo, Words), CargoWalksUp(repo), ExcludesDirectories(repo),
         NeedsAreTracked(repo), ContractPackages(repo),
         NEW p \in Members(repo), NEW q \in repo.package[p].paths \cap DOMAIN repo.package
  PROVE  q \in Members(repo)
<1>1. WorkspacesOK(repo) /\ Tracked(repo, q) /\ \A i \in DOMAIN repo.exclusions :
        ~IsPrefix(repo.exclusions[i].path, q)
  BY DEF ContractPackages, NeedsAreTracked
<1>2. \A i \in DOMAIN repo.exclusions : ~IsPrefix(repo.exclusions[i].path, Manifest(q))
  BY <1>1 DEF ExcludesDirectories
<1>3. ExcluderOf(repo, Manifest(q)) = 0
  BY <1>2, ExcluderFacts
<1>4. Manifest(q) \in CoveredManifests(repo)
  BY <1>1, <1>3 DEF ContractPackages, Tracked
<1> QED
  BY <1>1, <1>4, CoveredIsMember

(* So is what it needs through others. *)
LEMMA ReachesMembers ==
  ASSUME NEW repo, NEW Words, IsCheckout(repo, Words), CargoWalksUp(repo), ExcludesDirectories(repo),
         NeedsAreTracked(repo), ContractPackages(repo)
  PROVE  Reaches(repo) \cap DOMAIN repo.package \subseteq Members(repo)
<1> DEFINE next(ps) == ps \cup UNION {repo.package[p].paths : p \in ps \cap DOMAIN repo.package}
           N == Cardinality(DOMAIN repo.package)
           All == Members(repo) \cup UNION {repo.package[p].paths : p \in DOMAIN repo.package}
           Sound == {ps \in SUBSET All : ps \cap DOMAIN repo.package \subseteq Members(repo)}
           Body(f) == [n \in 0..N |-> IF n = 0 THEN Members(repo) ELSE next(f[n - 1])]
           upTo == CHOOSE f : f = Body(f)
           step == [n \in 1..N |-> [ps \in Sound |-> next(ps)]]
<1>1. N \in Nat
  BY FS_CardinalityType DEF IsCheckout
<1>2. ASSUME NEW ps \in Sound PROVE next(ps) \in Sound
  <2>1. \A p \in ps \cap DOMAIN repo.package : p \in Members(repo)
    OBVIOUS
  <2>2. \A p \in ps \cap DOMAIN repo.package : repo.package[p].paths \subseteq All
    OBVIOUS
  <2>3. \A p \in ps \cap DOMAIN repo.package : \A q \in repo.package[p].paths \cap DOMAIN repo.package :
          q \in Members(repo)
    BY <2>1, NeedsAreCovered
  <2>4. next(ps) \subseteq All
    BY <2>2
  <2>5. next(ps) \cap DOMAIN repo.package \subseteq Members(repo)
    BY <2>3
  <2> HIDE DEF next, All
  <2> QED
    BY <2>4, <2>5
<1>3. Members(repo) \in Sound
  OBVIOUS
<1> HIDE DEF N, Sound, next
<1>4. step \in [1..N -> [Sound -> Sound]]
  BY <1>2
<1>5. PICK f \in [0..N -> Sound] : Iterates(f, N, Members(repo), step)
  <2> HIDE DEF step
  <2> QED
    BY <1>1, <1>3, <1>4, Iteration
<1>6. f = Body(f)
  <2>1. ASSUME NEW n \in 0..N PROVE f[n] = Body(f)[n]
    <3>1. n # 0 => n \in 1..N /\ n - 1 \in 0..N
      BY <1>1
    <3>2. n # 0 => step[n][f[n - 1]] = next(f[n - 1])
      BY <3>1
    <3> HIDE DEF step
    <3> QED
      BY <1>5, <3>2 DEF Iterates
  <2> HIDE DEF step
  <2>2. f = [n \in 0..N |-> f[n]]
    OBVIOUS
  <2>3. \A n \in 0..N : f[n] = IF n = 0 THEN Members(repo) ELSE next(f[n - 1])
    BY <2>1
  <2> QED
    BY <2>2, <2>3
<1>7. upTo = Body(upTo)
  <2> HIDE DEF Body
  <2> QED
    BY <1>6
<1>8. Reaches(repo) = upTo[N]
  BY DEF Reaches, N, next
<1> HIDE DEF upTo
<1> DEFINE S == {n \in Nat : n <= N => upTo[n] \in Sound}
<1>9. S = Nat
  <2>1. 0 \in S
    BY <1>1, <1>3, <1>7
  <2>2. ASSUME NEW n \in S PROVE n + 1 \in S
    <3>1. CASE n + 1 <= N
      <4>1. n + 1 \in 0..N /\ n + 1 # 0 /\ (n + 1) - 1 = n /\ upTo[n] \in Sound
        BY <1>1, <3>1
      <4>2. upTo[n + 1] = next(upTo[n])
        BY <1>7, <4>1
      <4> QED
        BY <1>2, <4>1, <4>2
    <3> QED
      BY <3>1
  <2>3. S \in SUBSET Nat
    OBVIOUS
  <2> HIDE DEF S
  <2> QED
    BY <2>1, <2>2, <2>3, NumberInduction
<1>10. upTo[N] \in Sound
  BY <1>1, <1>9
<1> QED
  BY <1>8, <1>10 DEF Sound

(* contract_packages of workspace_policy.rs, for any checkout: in a repository that has a
   contract every package git knows of is either a member of exactly one workspace, the
   innermost around it, or excluded for a use that exists, unpublished, and out of reach of
   every covered package. *)
THEOREM TotalContract ==
  ASSUME NEW repo, NEW Words, IsCheckout(repo, Words), CargoWalksUp(repo), ExcludesDirectories(repo),
         NeedsAreTracked(repo)
  PROVE  ContractIsTotal(repo)
<1> DEFINE homes(p) == {d \in Covering(repo) : p \in ToSet(repo.cargo[d].members)}
           i(p) == ExcluderOf(repo, Manifest(p))
           used(e) == IF e.class = "focused-test-harness" THEN e.command \in repo.commands
                      ELSE \E q \in Members(repo) : \E s \in repo.says[e.consumer] :
                             e.path \in {b \o s : b \in {<<>>, q, DirOf(e.consumer)}}
<1> SUFFICES ASSUME ContractPackages(repo), NEW p \in DOMAIN repo.package, OwnedFile(repo, Manifest(p))
             PROVE  IF i(p) = 0 THEN homes(p) = {WorkspaceOf(repo, p)}
                    ELSE /\ homes(p) = {} /\ repo.package[p].unpublished /\ p \notin Reaches(repo)
                         /\ used(repo.exclusions[i(p)])
  BY DEF ContractIsTotal
<1>1. /\ WorkspacesOK(repo)
      /\ \A m \in Manifests(repo) : m \in CoveredManifests(repo) <=> ExcluderOf(repo, m) = 0
      /\ \A n \in DOMAIN repo.exclusions : IsProved(repo, n) /\ IsWitnessed(repo, n)
  BY DEF ContractPackages
<1>2. p \in Seq(Words) /\ DirOf(Manifest(p)) = p /\ IsManifest(Manifest(p))
  BY ManifestFacts DEF IsCheckout
<1>3. Manifest(p) \in Manifests(repo)
  BY <1>2 DEF Manifests, OwnedFile
<1>4. i(p) = 0 <=> p \in Members(repo)
  BY <1>1, <1>3, CoveredIsMember
<1>5. CASE i(p) = 0
  BY <1>1, <1>4, <1>5, OneHome
<1>6. CASE i(p) # 0
  <2> DEFINE n == i(p)
             e == repo.exclusions[n]
  <2>1. n \in DOMAIN repo.exclusions /\ Manifest(p) \in Excluded(repo, n)
    BY <1>3, <1>6, ExcluderFacts DEF Excluded
  <2>2. homes(p) = {} /\ p \notin Reaches(repo)
    BY <1>4, <1>6, ReachesMembers DEF Members
  <2> HIDE DEF n
  <2>3. repo.package[p].unpublished
    <3>1. \A m \in Excluded(repo, n) : DirOf(m) \in DOMAIN repo.package => repo.package[DirOf(m)].unpublished
      BY <1>1, <2>1 DEF IsProved
    <3> QED
      BY <1>2, <2>1, <3>1
  <2>4. IsWitnessed(repo, n)
    BY <1>1, <2>1
  <2>5. ASSUME e.class = "focused-test-harness" PROVE used(e)
    <3>1. e.command \in repo.commands
      BY <2>4, <2>5 DEF IsWitnessed
    <3> QED
      BY <2>5, <3>1
  <2>6. ASSUME e.class # "focused-test-harness" PROVE used(e)
    <3> DEFINE owner == OwnerPackage(repo, e.class, e.consumer)
    <3>1. /\ OwnersOf(repo, e.class, e.consumer) # {}
          /\ repo.says[e.consumer] \cap AcceptedNames(e.path, owner, e.consumer) # {}
      BY <2>4, <2>6 DEF IsWitnessed
    <3>2. owner \in Members(repo)
      BY <1>1, <3>1, OwnerIsMember
    <3> HIDE DEF owner
    <3>3. PICK s \in repo.says[e.consumer] : s \in AcceptedNames(e.path, owner, e.consumer)
      BY <3>1
    <3>4. PICK b \in {<<>>, owner, DirOf(e.consumer)} : /\ IsPrefix(b, e.path) /\ b # e.path
                                                      /\ s = SubSeq(e.path, Len(b) + 1, Len(e.path))
      BY <3>3 DEF AcceptedNames
    <3>5. e.path = b \o s
      <4>1. e.path \in Seq(Words) /\ e.consumer \in Seq(Words)
        BY <2>1 DEF IsCheckout
      <4>2. owner \in Seq(Words) /\ <<>> \in Seq(Words)
        <5>1. owner \in DOMAIN repo.package
          BY <1>1, <3>2, CoveringFacts
        <5> QED
          BY <5>1 DEF IsCheckout
      <4>3. DirOf(e.consumer) \in Seq(Words)
        BY <4>1, ShortenedIsPath
      <4> HIDE DEF e
      <4>4. b \in Seq(Words)
        BY <3>4, <4>2, <4>3
      <4> QED
        BY <3>4, <4>1, <4>4, Rejoined
    <3> QED
      BY <2>6, <3>2, <3>4, <3>5
  <2> QED
    BY <1>6, <2>2, <2>3, <2>5, <2>6 DEF n
<1> QED
  BY <1>5, <1>6

-----------------------------------------------------------------------------
(* The harness of an excluded package: what is accepted is what cargo runs. *)

(* What a manifest and the files beside it can say: targets are listed by their kinds. *)
IsTable(table, files) ==
  /\ IsFiniteSet(files)
  /\ \A kind \in {"bin", "test", "example"} : \E T : table.targets[kind] \in Seq(T)

(* The declared names of a kind, and the targets that Cargo finds by itself. *)
DeclaredNames(table, kind) == {t.name : t \in ToSet(table.targets[kind])}
FoundNames(table, kind, files) ==
  IF table.auto[kind] THEN Discovered(kind, table, files) \ DeclaredNames(table, kind) ELSE {}
AreUnique(table, kind) ==
  \A i, j \in DOMAIN table.targets[kind] :
    table.targets[kind][i].name = table.targets[kind][j].name => i = j

(* The image of a finite set is finite. *)
LEMMA FiniteImage ==
  ASSUME NEW S, IsFiniteSet(S), NEW T, NEW f \in [S -> T]
  PROVE  IsFiniteSet({f[x] : x \in S})
<1> DEFINE image == {f[x] : x \in S}
<1>1. f \in Surjection(S, image)
  BY DEF Surjection
<1> QED
  BY <1>1, FS_Surjection

(* Finitely many targets are found, *)
LEMMA FoundAreFinite ==
  ASSUME NEW table, NEW files, IsTable(table, files), NEW kind \in {"bin", "test"}
  PROVE  IsFiniteSet(FoundNames(table, kind, files))
<1>1. IsFiniteSet(Discovered(kind, table, files))
  <2>1. CASE kind = "test"
    <3> DEFINE S == {g \in files : g[1] = "tests" /\ IsUnit(g, 3)}
               f == [g \in S |-> g[2]]
               T == {g[2] : g \in S}
    <3>1. IsFiniteSet(S)
      BY FS_Subset DEF IsTable
    <3>2. f \in [S -> T]
      OBVIOUS
    <3>3. Discovered(kind, table, files) = {f[g] : g \in S}
      BY <2>1 DEF Discovered
    <3> HIDE DEF S, f, T
    <3>4. IsFiniteSet({f[g] : g \in S})
      BY <3>1, <3>2, FiniteImage
    <3> QED
      BY <3>3, <3>4
  <2>2. CASE kind = "bin"
    <3> DEFINE S == {g \in files : IsPrefix(<<"src", "bin">>, g) /\ IsUnit(g, 4)}
               f == [g \in S |-> g[3]]
               T == {g[3] : g \in S}
               main == IF <<"src", "main", "rs">> \in files THEN {table.name} ELSE {}
    <3>1. IsFiniteSet(S)
      BY FS_Subset DEF IsTable
    <3>2. f \in [S -> T]
      OBVIOUS
    <3>3. Discovered(kind, table, files) = {f[g] : g \in S} \cup main
      BY <2>2 DEF Discovered
    <3>4. IsFiniteSet(main)
      BY FS_Singleton, FS_EmptySet
    <3> HIDE DEF S, f, T, main
    <3>5. IsFiniteSet({f[g] : g \in S})
      BY <3>1, <3>2, FiniteImage
    <3> QED
      BY <3>3, <3>4, <3>5, FS_Union
  <2> QED
    BY <2>1, <2>2
<1>2. FoundNames(table, kind, files) \subseteq Discovered(kind, table, files) \/ FoundNames(table, kind, files) = {}
  BY DEF FoundNames
<1> QED
  BY <1>1, <1>2, FS_Subset, FS_EmptySet

(* The declared targets of a kind. *)
LEMMA DeclaredAre ==
  ASSUME NEW table, NEW files, IsTable(table, files), NEW kind \in {"bin", "test", "example"}
  PROVE  /\ Len(table.targets[kind]) \in Nat /\ DOMAIN table.targets[kind] = 1..Len(table.targets[kind])
         /\ \A t : t \in ToSet(table.targets[kind]) <=> \E i \in DOMAIN table.targets[kind] :
              table.targets[kind][i] = t
<1>1. PICK T : table.targets[kind] \in Seq(T)
  BY DEF IsTable
<1> QED
  BY <1>1, SeqRange

(* As many names as targets are declared when no name is declared twice, and then only. *)
LEMMA UniqueIsCounted ==
  ASSUME NEW table, NEW files, IsTable(table, files), NEW kind \in {"bin", "test", "example"}
  PROVE  /\ IsFiniteSet(DeclaredNames(table, kind))
         /\ Cardinality({table.targets[kind][i].name :
              i \in DOMAIN table.targets[kind]}) = Len(table.targets[kind])
              <=> AreUnique(table, kind)
         /\ DeclaredNames(table, kind) = {table.targets[kind][i].name : i \in DOMAIN table.targets[kind]}
<1> DEFINE declared == table.targets[kind]
           N == Len(declared)
           names == {declared[i].name : i \in DOMAIN declared}
           naming == [i \in 1..N |-> declared[i].name]
<1>1. N \in Nat /\ DOMAIN declared = 1..N
      /\ \A t : t \in ToSet(declared) <=> \E i \in DOMAIN declared : declared[i] = t
  BY DeclaredAre
<1>2. DeclaredNames(table, kind) = names
  BY <1>1 DEF DeclaredNames
<1> HIDE DEF declared, N
<1>3. naming \in Surjection(1..N, names)
  BY <1>1 DEF Surjection
<1>4. IsFiniteSet(1..N) /\ Cardinality(1..N) = N
  BY <1>1, FS_Interval
<1>5. IsFiniteSet(names) /\ (Cardinality(names) = N <=> naming \in Injection(1..N, names))
  <2> HIDE DEF naming, names
  <2> QED
    BY <1>3, <1>4, FS_Surjection
<1>6. naming \in Injection(1..N, names) <=> \A i, j \in 1..N : declared[i].name = declared[j].name => i = j
  <2>1. naming \in [1..N -> names]
    BY <1>3 DEF Surjection
  <2>2. \A i \in 1..N : naming[i] = declared[i].name
    OBVIOUS
  <2> HIDE DEF naming, names
  <2> QED
    BY <2>1, <2>2 DEF Injection, IsInjective
<1> HIDE DEF names
<1> QED
  BY <1>1, <1>2, <1>5, <1>6 DEF AreUnique, declared, N, names

(* A target that is declared, and one that is found. *)
TargetOf(table, kind, files, t) ==
  [name |-> t.name, source |-> HasSource(t, kind, table, files), runs |-> ~t.gated /\ (kind = "test" =>
      t.test)]
TargetFound(n) == [name |-> n, source |-> TRUE, runs |-> TRUE]

(* The targets that Cargo sees: those of the manifest and those it finds. *)
LEMMA TargetsAre ==
  ASSUME NEW table, NEW kind, NEW files
  PROVE  CargoTargets(table, kind, files) =
           {TargetOf(table, kind, files, t) : t \in ToSet(table.targets[kind])}
             \cup {TargetFound(n) : n \in FoundNames(table, kind, files)}
BY DEF CargoTargets, TargetOf, TargetFound, FoundNames, DeclaredNames

(* Their parts. *)
LEMMA FoundParts ==
  ASSUME NEW n
  PROVE  TargetFound(n).name = n /\ TargetFound(n).source /\ TargetFound(n).runs
<1> DEFINE x == TargetFound(n)
<1>1. x = [name |-> n, source |-> TRUE, runs |-> TRUE]
  BY DEF TargetFound
<1> HIDE DEF x
<1>2. x.name = n
  BY <1>1
<1>3. x.source /\ x.runs
  BY <1>1, Zenon
<1> QED
  BY <1>2, <1>3 DEF x

(* Their parts. *)
LEMMA DeclaredParts ==
  ASSUME NEW table, NEW kind, NEW files, NEW t
  PROVE  /\ TargetOf(table, kind, files, t).name = t.name
         /\ TargetOf(table, kind, files, t).source <=> HasSource(t, kind, table, files)
         /\ TargetOf(table, kind, files, t).runs <=> ~t.gated /\ (kind = "test" => t.test)
<1> DEFINE x == TargetOf(table, kind, files, t)
           has == HasSource(t, kind, table, files)
           runs == ~t.gated /\ (kind = "test" => t.test)
<1>1. x = [name |-> t.name, source |-> has, runs |-> runs]
  BY DEF TargetOf
<1> HIDE DEF x, has, runs
<1>2. x.name = t.name
  BY <1>1
<1>3. x.source = has
  BY <1>1, Zenon
<1>4. x.runs = runs
  BY <1>1, Zenon
<1>5. (x.source <=> has) /\ (x.runs <=> runs)
  BY <1>3, <1>4, Zenon
<1> QED
  BY <1>2, <1>5 DEF x, has, runs

(* The names that have a target which is built and run. *)
Runnable(table, kind, files) ==
  FoundNames(table, kind, files) \cup
    {t.name : t \in {u \in ToSet(table.targets[kind]) : /\ ~u.gated /\ (kind = "test" => u.test)
                                                        /\ HasSource(u, kind, table, files)}}

(* They are the names of targets that Cargo builds and runs. *)
LEMMA RunnableIs ==
  ASSUME NEW table, NEW kind, NEW files, NEW n
  PROVE  n \in Runnable(table, kind, files) <=>
           \E x \in CargoTargets(table, kind, files) : x.name = n /\ x.runs /\ x.source
<1> DEFINE ready == {u \in ToSet(table.targets[kind]) : /\ ~u.gated /\ (kind = "test" => u.test)
                                                       /\ HasSource(u, kind, table, files)}
<1>1. ASSUME n \in Runnable(table, kind, files)
      PROVE  \E x \in CargoTargets(table, kind, files) : x.name = n /\ x.runs /\ x.source
  <2>1. n \in FoundNames(table, kind, files) \/ \E t \in ready : t.name = n
    BY <1>1 DEF Runnable
  <2>2. CASE n \in FoundNames(table, kind, files)
    <3>1. TargetFound(n) \in CargoTargets(table, kind, files)
      BY <2>2, TargetsAre
    <3> QED
      BY <3>1, FoundParts
  <2>3. CASE \E t \in ready : t.name = n
    <3>1. PICK t \in ready : t.name = n
      BY <2>3
    <3>2. TargetOf(table, kind, files, t) \in CargoTargets(table, kind, files)
      BY TargetsAre
    <3>3. t.name = n /\ ~t.gated /\ (kind = "test" => t.test) /\ HasSource(t, kind, table, files)
      BY <3>1
    <3> HIDE DEF ready
    <3> QED
      BY <3>2, <3>3, DeclaredParts
  <2> QED
    BY <2>1, <2>2, <2>3
<1>2. ASSUME NEW x \in CargoTargets(table, kind, files), x.name = n, x.runs, x.source
      PROVE  n \in Runnable(table, kind, files)
  <2>1. \/ \E t \in ToSet(table.targets[kind]) : x = TargetOf(table, kind, files, t)
        \/ \E m \in FoundNames(table, kind, files) : x = TargetFound(m)
    BY TargetsAre
  <2>2. CASE \E t \in ToSet(table.targets[kind]) : x = TargetOf(table, kind, files, t)
    <3>1. PICK t \in ToSet(table.targets[kind]) : x = TargetOf(table, kind, files, t)
      BY <2>2
    <3>2. t.name = n /\ ~t.gated /\ (kind = "test" => t.test) /\ HasSource(t, kind, table, files)
      BY <1>2, <3>1, DeclaredParts
    <3>3. t \in ready
      BY <3>2
    <3> QED
      BY <3>2, <3>3 DEF Runnable
  <2>3. CASE \E m \in FoundNames(table, kind, files) : x = TargetFound(m)
    BY <1>2, <2>3, FoundParts DEF Runnable
  <2> QED
    BY <2>1, <2>2, <2>3
<1> QED
  BY <1>1, <1>2

(* The names of the targets are those that are declared and those that are found. *)
AreNamed(table, kind, files) ==
  \A n : n \in DeclaredNames(table, kind) \cup FoundNames(table, kind, files) <=>
           \E x \in CargoTargets(table, kind, files) : x.name = n

(* They are. *)
LEMMA TargetNames ==
  ASSUME NEW table, NEW kind, NEW files
  PROVE  AreNamed(table, kind, files)
<1>1. ASSUME NEW n \in DeclaredNames(table, kind) PROVE \E x \in CargoTargets(table, kind, files) : x.name = n
  <2>1. PICK t \in ToSet(table.targets[kind]) : t.name = n
    BY DEF DeclaredNames
  <2>2. TargetOf(table, kind, files, t) \in CargoTargets(table, kind, files)
    BY TargetsAre
  <2> QED
    BY <2>1, <2>2, DeclaredParts
<1>2. ASSUME NEW n \in FoundNames(table, kind, files) PROVE \E x \in CargoTargets(table, kind, files) :
        x.name = n
  <2>1. TargetFound(n) \in CargoTargets(table, kind, files)
    BY TargetsAre
  <2> QED
    BY <2>1, FoundParts
<1>3. ASSUME NEW x \in CargoTargets(table, kind, files)
      PROVE  x.name \in DeclaredNames(table, kind) \cup FoundNames(table, kind, files)
  <2>1. \/ \E t \in ToSet(table.targets[kind]) : x = TargetOf(table, kind, files, t)
        \/ \E m \in FoundNames(table, kind, files) : x = TargetFound(m)
    BY TargetsAre
  <2>2. \A t \in ToSet(table.targets[kind]) :
          TargetOf(table, kind, files, t).name \in DeclaredNames(table, kind)
    BY DeclaredParts DEF DeclaredNames
  <2> QED
    BY <2>1, <2>2, FoundParts
<1> QED
  BY <1>1, <1>2, <1>3 DEF AreNamed

(* Where no name is declared twice, a target is known by its name. *)
LEMMA OneByName ==
  ASSUME NEW table, NEW files, IsTable(table, files), NEW kind \in {"bin", "test"}, AreUnique(table, kind),
         NEW x \in CargoTargets(table, kind, files), NEW y \in CargoTargets(table, kind, files), x.name =
             y.name
  PROVE  x = y
<1> DEFINE D(t) == TargetOf(table, kind, files, t)
<1>1. \A z \in CargoTargets(table, kind, files) :
        \/ \E t \in ToSet(table.targets[kind]) : z = TargetOf(table, kind, files, t)
        \/ \E m \in FoundNames(table, kind, files) : z = TargetFound(m)
  BY TargetsAre
<1>2. \A t \in ToSet(table.targets[kind]) :
        t.name \in DeclaredNames(table, kind) /\ t.name \notin FoundNames(table, kind, files)
  <2>1. ASSUME NEW t \in ToSet(table.targets[kind]) PROVE t.name \in DeclaredNames(table, kind)
    BY DEF DeclaredNames
  <2>2. \A n : n \in FoundNames(table, kind, files) => n \notin DeclaredNames(table, kind)
    BY DEF FoundNames
  <2> QED
    BY <2>1, <2>2
<1>3. \A t, u \in ToSet(table.targets[kind]) : t.name = u.name => t = u
  <2>1. kind \in {"bin", "test", "example"}
    OBVIOUS
  <2>2. \A t : t \in ToSet(table.targets[kind]) <=>
               \E i \in DOMAIN table.targets[kind] : table.targets[kind][i] = t
    BY <2>1, DeclaredAre
  <2> QED
    BY <2>2 DEF AreUnique
<1>4. \A t : TargetOf(table, kind, files, t).name = t.name
  BY DeclaredParts
<1>5. \A m : TargetFound(m).name = m
  BY FoundParts
<1>6. CASE \E t \in ToSet(table.targets[kind]) : x = TargetOf(table, kind, files, t)
  <2>1. PICK t \in ToSet(table.targets[kind]) : x = TargetOf(table, kind, files, t)
    BY <1>6
  <2>2. x.name = t.name /\ x.name \notin FoundNames(table, kind, files)
    BY <1>2, <1>4, <2>1
  <2>3. PICK u \in ToSet(table.targets[kind]) : y = TargetOf(table, kind, files, u)
    BY <1>1, <1>5, <2>2
  <2>4. u.name = t.name
    BY <1>4, <2>2, <2>3
  <2> QED
    BY <1>3, <2>1, <2>3, <2>4
<1>7. CASE \E m \in FoundNames(table, kind, files) : x = TargetFound(m)
  <2>1. PICK m \in FoundNames(table, kind, files) : x = TargetFound(m)
    BY <1>7
  <2>2. y.name = m
    BY <1>5, <2>1
  <2>3. PICK k \in FoundNames(table, kind, files) : y = TargetFound(k)
    BY <1>1, <1>2, <1>4, <2>2
  <2> QED
    BY <1>5, <2>1, <2>2, <2>3
<1> QED
  BY <1>1, <1>6, <1>7

(* Cargo sees finitely many targets. *)
LEMMA TargetsAreFinite ==
  ASSUME NEW table, NEW files, IsTable(table, files), NEW kind \in {"bin", "test"}
  PROVE  IsFiniteSet(CargoTargets(table, kind, files))
<1> DEFINE declared == table.targets[kind]
           N == Len(declared)
           f == [i \in 1..N |-> TargetOf(table, kind, files, declared[i])]
           g == [n \in FoundNames(table, kind, files) |-> TargetFound(n)]
<1>0. kind \in {"bin", "test", "example"}
  OBVIOUS
<1>1. N \in Nat /\ DOMAIN declared = 1..N /\ \A t : t \in ToSet(declared) <=> \E i \in DOMAIN declared :
        declared[i] = t
  BY <1>0, DeclaredAre
<1>2. IsFiniteSet({f[i] : i \in 1..N})
  <2> DEFINE S == 1..N
             T == {f[i] : i \in S}
  <2>1. f \in [S -> T]
    OBVIOUS
  <2>2. IsFiniteSet(S)
    BY <1>1, FS_Interval
  <2> HIDE DEF f, S
  <2>3. IsFiniteSet({f[i] : i \in S})
    <3> HIDE DEF T
    <3> QED
      BY <2>1, <2>2, FiniteImage
  <2> QED
    BY <2>3 DEF S
<1>3. IsFiniteSet({g[n] : n \in FoundNames(table, kind, files)})
  <2>1. g \in [FoundNames(table, kind, files) -> {g[n] : n \in FoundNames(table, kind, files)}]
    OBVIOUS
  <2>2. IsFiniteSet(FoundNames(table, kind, files))
    BY FoundAreFinite
  <2> HIDE DEF g
  <2> QED
    BY <2>1, <2>2, FiniteImage
<1>4. ASSUME NEW x \in CargoTargets(table, kind, files)
      PROVE  x \in {f[i] : i \in 1..N} \cup {g[n] : n \in FoundNames(table, kind, files)}
  <2>1. \/ \E t \in ToSet(declared) : x = TargetOf(table, kind, files, t)
        \/ \E m \in FoundNames(table, kind, files) : x = TargetFound(m)
    BY TargetsAre
  <2>2. CASE \E t \in ToSet(declared) : x = TargetOf(table, kind, files, t)
    <3>1. PICK i \in 1..N : x = TargetOf(table, kind, files, declared[i])
      BY <1>1, <2>2
    <3>2. x = f[i]
      BY <3>1
    <3> QED
      BY <3>2
  <2>3. CASE \E m \in FoundNames(table, kind, files) : x = TargetFound(m)
    BY <2>3
  <2> QED
    BY <2>1, <2>2, <2>3
<1> HIDE DEF f, g, N
<1>5. IsFiniteSet({f[i] : i \in 1..N} \cup {g[n] : n \in FoundNames(table, kind, files)})
  BY <1>2, <1>3, FS_Union
<1> QED
  BY <1>4, <1>5, FS_Subset

(* The library of the package. *)
HasLibrary(table, files) ==
  table.lib.here => (IF table.lib.path = Absent THEN <<"src", "lib", "rs">> ELSE table.lib.path) \in files

(* What has_cargo_target asks of the library. *)
LEMMA LibraryIs ==
  ASSUME NEW table, NEW files
  PROVE  (table.lib.here => HasSource([name |-> table.name, path |-> table.lib.path], "lib", table, files))
           <=> HasLibrary(table, files)
<1> DEFINE x == [name |-> table.name, path |-> table.lib.path]
<1>1. x.path = table.lib.path
  OBVIOUS
<1> HIDE DEF x
<1>2. HasSource(x, "lib", table, files) <=>
        (IF table.lib.path = Absent THEN <<"src", "lib", "rs">> ELSE table.lib.path) \in files
  BY <1>1 DEF HasSource, Conventional
<1> QED
  BY <1>2 DEF HasLibrary, x

(* What has_cargo_target asks of a test, *)
LEMMA HasTest ==
  ASSUME NEW table, NEW files, IsTable(table, files)
  PROVE  HasCargoTarget(table, files, "test") <=>
           /\ table.package /\ HasLibrary(table, files) /\ AreUnique(table, "test")
           /\ \A k \in {"bin", "test", "example"} : \A t \in ToSet(table.targets[k]) :
                HasSource(t, k, table, files)
           /\ Runnable(table, "test", files) # {}
<1> DEFINE declared == table.targets["test"]
           names == {declared[i].name : i \in DOMAIN declared}
           automatic == IF table.auto["test"] THEN Discovered("test", table, files) \ names ELSE {}
           runnable == automatic \cup
             {t.name : t \in {u \in ToSet(declared) : /\ ~u.gated /\ ("test" = "run" \/ u.test)
                                                      /\ HasSource(u, "test", table, files)}}
           library == table.lib.here =>
               HasSource([name |-> table.name, path |-> table.lib.path], "lib", table, files)
           sources == \A k \in {"bin", "test", "example"} : \A t \in ToSet(table.targets[k]) :
               HasSource(t, k, table, files)
           unique == Cardinality(names) = Len(declared)
<1>1. HasCargoTarget(table, files, "test") <=> table.package /\ library /\ sources /\ unique /\ runnable # {}
  BY DEF HasCargoTarget
<1>2. (unique <=> AreUnique(table, "test")) /\ DeclaredNames(table, "test") = names
  BY UniqueIsCounted
<1>3. runnable = Runnable(table, "test", files)
  BY <1>2 DEF Runnable, FoundNames
<1>4. library <=> HasLibrary(table, files)
  BY LibraryIs
<1> HIDE DEF runnable, library, unique, sources
<1> QED
  BY <1>1, <1>2, <1>3, <1>4 DEF sources

(* and of a run. *)
LEMMA HasRun ==
  ASSUME NEW table, NEW files, IsTable(table, files)
  PROVE  HasCargoTarget(table, files, "run") <=>
           /\ table.package /\ HasLibrary(table, files) /\ AreUnique(table, "bin")
           /\ IF table.default # "none" THEN table.default \in Runnable(table, "bin", files)
              ELSE /\ Runnable(table, "bin", files) # {}
                   /\ Cardinality(DeclaredNames(table, "bin") \cup FoundNames(table, "bin", files)) = 1
<1> DEFINE declared == table.targets["bin"]
           names == {declared[i].name : i \in DOMAIN declared}
           automatic == IF table.auto["bin"] THEN Discovered("bin", table, files) \ names ELSE {}
           runnable == automatic \cup
             {t.name : t \in {u \in ToSet(declared) : /\ ~u.gated /\ ("run" = "run" \/ u.test)
                                                      /\ HasSource(u, "bin", table, files)}}
           library == table.lib.here =>
               HasSource([name |-> table.name, path |-> table.lib.path], "lib", table, files)
           unique == Cardinality(names) = Len(declared)
           one == Cardinality(names \cup automatic) = 1
<1>1. HasCargoTarget(table, files, "run") <=>
        /\ table.package /\ library /\ unique
        /\ IF table.default # "none" THEN table.default \in runnable ELSE runnable # {} /\ one
  BY DEF HasCargoTarget
<1>2. (unique <=> AreUnique(table, "bin")) /\ DeclaredNames(table, "bin") = names
  BY UniqueIsCounted
<1>3. automatic = FoundNames(table, "bin", files)
  BY <1>2 DEF FoundNames
<1>4. runnable = Runnable(table, "bin", files)
  BY <1>3 DEF Runnable
<1>5. library <=> HasLibrary(table, files)
  BY LibraryIs
<1> HIDE DEF runnable, library, unique, automatic, names
<1> QED
  BY <1>1, <1>2, <1>3, <1>4, <1>5

(* has_cargo_target of exclusion_witness.rs, for any package and any files: a harness is accepted if, and
   only if, cargo has, for its verb, something to build and to run: each source of a target is
   there, no name is declared twice, and a run knows which binary it is. *)
THEOREM RunnableHarness ==
  ASSUME NEW table, NEW files, NEW verb \in {"test", "run"}, IsTable(table, files)
  PROVE  HarnessRuns(table, files, verb)
<1>1. CASE verb = "test"
  <2> DEFINE bins == CargoTargets(table, "bin", files)
             tests == CargoTargets(table, "test", files)
             sources(k) == \A t \in ToSet(table.targets[k]) : HasSource(t, k, table, files)
  <2>1. CargoRuns(table, files, "test") <=>
          /\ table.package /\ HasLibrary(table, files) /\ AreUnique(table, "test")
          /\ \A t \in bins \cup tests : t.source
          /\ sources("example") /\ \E t \in tests : t.runs
    BY DEF CargoRuns, HasLibrary, AreUnique
  <2>2. ASSUME NEW kind PROVE (\A x \in CargoTargets(table, kind, files) : x.source) <=> sources(kind)
    <3>1. \A x : x \in CargoTargets(table, kind, files) <=>
            \/ \E t \in ToSet(table.targets[kind]) : x = TargetOf(table, kind, files, t)
            \/ \E m \in FoundNames(table, kind, files) : x = TargetFound(m)
      BY TargetsAre
    <3> QED
      BY <3>1, DeclaredParts, FoundParts
  <2>3. HasCargoTarget(table, files, "test") <=>
          /\ table.package /\ HasLibrary(table, files) /\ AreUnique(table, "test")
          /\ sources("bin") /\ sources("test") /\ sources("example")
          /\ Runnable(table, "test", files) # {}
    BY HasTest
  <2>4. (\A t \in bins : t.source) <=> sources("bin")
    BY <2>2
  <2>5. (\A t \in tests : t.source) <=> sources("test")
    BY <2>2
  <2>6. ASSUME \A t \in tests : t.source PROVE (\E t \in tests :
          t.runs) <=> Runnable(table, "test", files) # {}
    <3>1. \A n : n \in Runnable(table, "test", files) <=> \E x \in tests : x.name = n /\ x.runs /\ x.source
      BY RunnableIs
    <3> HIDE DEF tests
    <3> QED
      BY <2>6, <3>1
  <2> HIDE DEF bins, tests, sources
  <2> QED
    BY <1>1, <2>1, <2>3, <2>4, <2>5, <2>6 DEF HarnessRuns
<1>2. CASE verb = "run"
  <2> DEFINE bins == CargoTargets(table, "bin", files)
             chosen == IF table.default # "none" THEN {t \in bins : t.name = table.default} ELSE bins
             names == DeclaredNames(table, "bin") \cup FoundNames(table, "bin", files)
             runnable == Runnable(table, "bin", files)
             asked == IF table.default # "none" THEN table.default \in runnable
                      ELSE runnable # {} /\ Cardinality(names) = 1
             good == Cardinality(chosen) = 1 /\ \A t \in chosen : t.runs /\ t.source
  <2>1. CargoRuns(table, files, "run") <=>
          table.package /\ HasLibrary(table, files) /\ AreUnique(table, "bin") /\ good
    BY DEF CargoRuns, HasLibrary, AreUnique
  <2>2. HasCargoTarget(table, files, "run") <=>
          table.package /\ HasLibrary(table, files) /\ AreUnique(table, "bin") /\ asked
    BY HasRun
  <2>3. IsFiniteSet(chosen)
    <3>1. IsFiniteSet(bins) /\ chosen \subseteq bins
      BY TargetsAreFinite
    <3> QED
      BY <3>1, FS_Subset
  <2>4. IsFiniteSet(names)
    BY UniqueIsCounted, FoundAreFinite, FS_Union
  <2>5. \A n : n \in runnable <=> \E x \in bins : x.name = n /\ x.runs /\ x.source
    BY RunnableIs
  <2>6. \A n : n \in names <=> \E x \in bins : x.name = n
    <3>1. AreNamed(table, "bin", files)
      BY TargetNames
    <3> QED
      BY <3>1, Zenon DEF AreNamed
  <2>7. AreUnique(table, "bin") => \A x, y \in bins : x.name = y.name => x = y
    BY OneByName
  <2>8. (Cardinality(chosen) = 1 <=> \E x : chosen = {x}) /\ (Cardinality(names) = 1 <=> \E n : names = {n})
    BY <2>3, <2>4, FS_Singleton
  <2> HIDE DEF bins, names, runnable
  <2>9. ASSUME AreUnique(table, "bin"), table.default # "none" PROVE good <=> asked
    <3>1. chosen = {t \in bins : t.name = table.default}
      BY <2>9
    <3>2. asked <=> \E x \in bins : x.name = table.default /\ x.runs /\ x.source
      BY <2>5, <2>9
    <3>3. ASSUME NEW x \in bins, x.name = table.default PROVE chosen = {x}
      BY <2>7, <2>9, <3>1, <3>3
    <3> HIDE DEF chosen, asked
    <3>4. ASSUME good PROVE asked
      <4>1. PICK x : chosen = {x}
        BY <2>8, <3>4
      <4>2. x \in bins /\ x.name = table.default
        BY <3>1, <4>1
      <4> QED
        BY <3>2, <3>4, <4>1, <4>2
    <3>5. ASSUME asked PROVE good
      <4>1. PICK x \in bins : x.name = table.default /\ x.runs /\ x.source
        BY <3>2, <3>5
      <4>2. chosen = {x}
        BY <3>3, <4>1
      <4> QED
        BY <2>8, <4>1, <4>2
    <3> QED
      BY <3>4, <3>5
  <2>10. ASSUME AreUnique(table, "bin"), ~(table.default # "none") PROVE good <=> asked
    <3>1. chosen = bins /\ (asked <=> runnable # {} /\ Cardinality(names) = 1)
      BY <2>10
    <3> HIDE DEF chosen, asked
    <3>4. ASSUME good PROVE asked
      <4>1. PICK x : bins = {x}
        BY <2>8, <3>1, <3>4
      <4>2. names = {x.name}
        BY <2>6, <4>1
      <4>3. x.name \in runnable
        BY <2>5, <3>1, <3>4, <4>1
      <4> QED
        BY <2>8, <3>1, <4>2, <4>3
    <3>5. ASSUME asked PROVE good
      <4>1. PICK n : names = {n}
        BY <2>8, <3>1, <3>5
      <4>2. PICK m : m \in runnable
        BY <3>1, <3>5
      <4>3. PICK x \in bins : x.name = m /\ x.runs /\ x.source
        BY <2>5, <4>2
      <4>4. \A y \in bins : y.name = n
        BY <2>6, <4>1
      <4>5. bins = {x}
        BY <2>7, <2>10, <4>3, <4>4
      <4> QED
        BY <2>8, <3>1, <4>3, <4>5
    <3> QED
      BY <3>4, <3>5
  <2> HIDE DEF good, asked
  <2> QED
    BY <1>2, <2>1, <2>2, <2>9, <2>10 DEF HarnessRuns
<1> QED
  BY <1>1, <1>2

-----------------------------------------------------------------------------
(* The inputs of the contract: they bind what it was decided from. *)

(* The last two names of a file, and the files whose names make them inputs. *)
EndsOf(f) == SubSeq(f, Len(f) - 1, Len(f))
InputEnds == {<<"Cargo", "toml">>, <<"book", "toml">>, <<"recipe", "toml">>}
TargetSources(repo) == UNION {{t.src : t \in repo.package[p].targets} : p \in Members(repo)}

(* A file has a name and an extension; manifests and recipes lie outside of the directories that
   is_contract_input passes over, and none of them, nor a source, among the generated documents;
   only a fixture has a consumer that is a file. *)
IsBindable(repo, Words) ==
  /\ \A f \in repo.tracked : f \in Seq(Words) /\ Len(f) >= 2
  /\ \A f \in repo.tracked : EndsOf(f) \in InputEnds =>
       \A i \in 1..(Len(f) - 2) : f[i] \notin {".git", ".sim", "target", ".meta-workspace", "sim-tooling"}
  /\ \A f \in repo.tracked : IsPrefix(<<"docs", "generated">>, f) =>
       EndsOf(f) \notin InputEnds /\ f \notin TargetSources(repo)
  /\ \A i \in DOMAIN repo.exclusions :
       repo.exclusions[i].class = "focused-test-harness" => repo.exclusions[i].consumer = Absent

(* The files of a checkout are those that it owns. *)
LEMMA OwnedIsListed ==
  ASSUME NEW repo, NEW Words, IsBindable(repo, Words), NEW f, OwnedFile(repo, f)
  PROVE  f \in FilesUnder(repo, <<>>) /\ f \in repo.tracked
<1>1. f \in repo.tracked
  BY DEF OwnedFile
<1>2. f \in Seq(Words) /\ Len(f) >= 2
  BY <1>1 DEF IsBindable
<1>3. f # <<>> /\ IsPrefix(<<>>, f)
  BY <1>2 DEF IsPrefix
<1> QED
  BY <1>1, <1>3 DEF FilesUnder

(* The source of a covered target is an input. *)
LEMMA SourceIsInput ==
  ASSUME NEW repo, NEW Words, IsBindable(repo, Words), NEW f \in TargetSources(repo), OwnedFile(repo, f)
  PROVE  f \in InputFiles(repo)
BY OwnedIsListed DEF InputFiles, TargetSources

(* A file that is named as manifests and recipes are is an input. *)
LEMMA NamedIsInput ==
  ASSUME NEW repo, NEW Words, IsBindable(repo, Words), NEW f, OwnedFile(repo, f), EndsOf(f) \in InputEnds
  PROVE  f \in InputFiles(repo)
<1>1. f \in FilesUnder(repo, <<>>) /\ f \in repo.tracked
  BY OwnedIsListed
<1>2. \A i \in 1..(Len(f) - 2) : f[i] \notin {".git", ".sim", "target", ".meta-workspace", "sim-tooling"}
  BY <1>1 DEF IsBindable
<1>3. IsContractInput(f)
  BY <1>2 DEF IsContractInput, EndsOf, InputEnds
<1> QED
  BY <1>1, <1>3 DEF InputFiles

(* So is a manifest named. *)
LEMMA ManifestEnds ==
  ASSUME NEW Words, NEW f \in Seq(Words), IsManifest(f)
  PROVE  EndsOf(f) = <<"Cargo", "toml">>
<1> DEFINE dir == DirOf(f)
           name == <<"Cargo", "toml">>
           ends == EndsOf(f)
<1>1. Len(f) \in Nat /\ Len(f) >= 2 /\ f = dir \o name
  BY DEF IsManifest, Manifest
<1>2. dir \in Seq(Words) /\ Len(dir) = Len(f) - 2
  <2> HIDE DEF dir, name, ends
  <2>1. Len(f) \in Nat /\ Len(f) >= 2 /\ Len(f) - 2 \in Nat
    BY <1>1
  <2>2. \A i \in 1..(Len(f) - 2) : f[i] \in Words
    BY <2>1
  <2> DEFINE n == Len(f) - 2
             front == SubSeq(f, 1, n)
  <2>3. dir = front
    BY Zenon DEF DirOf, dir
  <2>4. n \in Int /\ 1 \in Int /\ n >= 0
    BY <2>1
  <2> HIDE DEF n
  <2>5. front \in Seq(Words) /\ Len(front) = IF 1 <= n THEN n - 1 + 1 ELSE 0
    BY <2>2, <2>4, SubSeqProperties DEF n
  <2> HIDE DEF front
  <2>6. Len(front) = n
    BY <2>4, <2>5
  <2> QED
    BY <2>3, <2>5, <2>6 DEF n
<1>3. name \in Seq({"Cargo", "toml"}) /\ Len(name) = 2 /\ name[1] = "Cargo" /\ name[2] = "toml"
  OBVIOUS
<1> HIDE DEF dir, name
<1>4. f[Len(f) - 1] = name[1] /\ f[Len(f)] = name[2]
  <2>1. dir \in Seq(Words \cup {"Cargo", "toml"}) /\ name \in Seq(Words \cup {"Cargo", "toml"})
    BY <1>2, <1>3
  <2>2. (dir \o name)[Len(dir) + 1] = name[1] /\ (dir \o name)[Len(dir) + 2] = name[2]
    <3> DEFINE n == Len(dir)
    <3>1. n \in Nat
      BY <1>2
    <3>2. \A i \in 1..(n + 2) : (dir \o name)[i] = IF i <= n THEN dir[i] ELSE name[i - n]
      BY <1>3, <2>1, ConcatProperties
    <3> HIDE DEF n
    <3>3. n + 1 \in 1..(n + 2) /\ n + 2 \in 1..(n + 2) /\ ~(n + 1 <= n) /\ ~(n + 2 <= n)
          /\ (n + 1) - n = 1 /\ (n + 2) - n = 2
      BY <3>1
    <3>4. (dir \o name)[n + 1] = name[(n + 1) - n] /\ (dir \o name)[n + 2] = name[(n + 2) - n]
      BY <3>2, <3>3
    <3> QED
      BY <3>3, <3>4 DEF n
  <2> QED
    BY <1>1, <1>2, <2>2
<1>5. ends \in Seq(Words) /\ Len(ends) = 2 /\ ends[1] = f[Len(f) - 1] /\ ends[2] = f[Len(f)]
  BY <1>1, SubSeqProperties DEF EndsOf
<1> QED
  BY <1>3, <1>4, <1>5

(* Every manifest of an accepted contract is owned: covered, or excluded. *)
LEMMA ManifestsAreOwned ==
  ASSUME NEW repo, NEW Words, IsCheckout(repo, Words), ContractPackages(repo), NEW m \in Manifests(repo)
  PROVE  OwnedFile(repo, m)
<1>1. CASE m \in CoveredManifests(repo)
  <2>1. PICK d \in Members(repo) \cup Covering(repo) : m = Manifest(d)
    BY <1>1 DEF CoveredManifests
  <2> QED
    BY <2>1 DEF ContractPackages, MembersOwned
<1>2. CASE m \notin CoveredManifests(repo)
  <2> DEFINE n == ExcluderOf(repo, m)
  <2>1. n # 0
    BY <1>2 DEF ContractPackages
  <2>2. n \in DOMAIN repo.exclusions
    BY <2>1, ExcluderFacts
  <2>3. m \in Excluded(repo, n)
    BY DEF Excluded
  <2>4. IsProved(repo, n)
    BY <2>2 DEF ContractPackages
  <2> HIDE DEF n
  <2> QED
    BY <2>3, <2>4 DEF IsProved
<1> QED
  BY <1>1, <1>2

(* Of the generated documents only the citizens are an input. *)
LEMMA GeneratedIsNoInput ==
  ASSUME NEW repo, NEW Words, IsBindable(repo, Words), NEW f \in InputFiles(repo),
         IsPrefix(<<"docs", "generated">>, f)
  PROVE  f[3] = "citizens"
<1>1. f \in repo.tracked /\ (IsContractInput(f) \/ f \in TargetSources(repo))
  BY DEF InputFiles, FilesUnder, TargetSources
<1>2. f \in Seq(Words) /\ Len(f) >= 2 /\ EndsOf(f) \notin InputEnds /\ f \notin TargetSources(repo)
  BY <1>1 DEF IsBindable
<1>3. f[1] = "docs"
  <2> DEFINE at == <<"docs", "generated">>
  <2>1. Len(at) = 2 /\ SubSeq(at, 1, 2) = SubSeq(f, 1, 2)
    BY DEF IsPrefix
  <2>2. SubSeq(at, 1, 2)[1] = "docs"
    OBVIOUS
  <2>3. SubSeq(f, 1, 2)[1] = f[1]
    BY <1>2
  <2> QED
    BY <2>1, <2>2, <2>3
<1>4. \/ f \in {<<"repo-contract-cut", "toml">>, <<"features", "toml">>, <<"docs", "generated", "citizens", "md">>}
      \/ EndsOf(f) \in InputEnds
      \/ f[1] \in {"src", "crates"}
      \/ SubSeq(f, 1, 2) = <<".github", "workflows">>
      \/ f[1] = "tests"
  BY <1>1, <1>2 DEF IsContractInput, EndsOf, InputEnds
<1>5. SubSeq(f, 1, 2) # <<".github", "workflows">>
  <2>1. SubSeq(f, 1, 2)[1] = "docs"
    BY <1>2, <1>3
  <2>2. <<".github", "workflows">>[1] # "docs"
    OBVIOUS
  <2> QED
    BY <2>1, <2>2, Zenon
<1>6. f # <<"repo-contract-cut", "toml">> /\ f # <<"features", "toml">>
  BY <1>3
<1>7. f = <<"docs", "generated", "citizens", "md">>
  BY <1>2, <1>3, <1>4, <1>5, <1>6
<1> QED
  BY <1>7

(* input_files of repo_contract_scan.rs, for any checkout: the hash of an accepted contract binds
   every manifest it covers or excludes, every source of a covered target and every consumer of
   a fixture, and no document that the generators write but the citizens. *)
THEOREM BoundInputs ==
  ASSUME NEW repo, NEW Words, IsCheckout(repo, Words), IsBindable(repo, Words)
  PROVE  InputsBindReads(repo)
<1> SUFFICES ASSUME ContractPackages(repo)
    PROVE  /\ Manifests(repo) \subseteq InputFiles(repo)
           /\ \A p \in Members(repo) : \A t \in repo.package[p].targets : t.src \in InputFiles(repo)
           /\ \A e \in ToSet(repo.exclusions) : e.consumer # Absent => e.consumer \in InputFiles(repo)
           /\ \A f \in InputFiles(repo) : ~IsPrefix(<<"docs", "generated">>, f) \/ f[3] = "citizens"
  BY DEF InputsBindReads
<1>1. ASSUME NEW m \in Manifests(repo) PROVE m \in InputFiles(repo)
  <2>1. OwnedFile(repo, m) /\ IsManifest(m) /\ m \in repo.tracked
    BY ManifestsAreOwned DEF Manifests
  <2>2. EndsOf(m) \in InputEnds
    BY <2>1, ManifestEnds DEF IsBindable, InputEnds
  <2> QED
    BY <2>1, <2>2, NamedIsInput
<1>2. ASSUME NEW p \in Members(repo), NEW t \in repo.package[p].targets PROVE t.src \in InputFiles(repo)
  <2>1. OwnedFile(repo, t.src)
    BY DEF ContractPackages, MembersOwned
  <2>2. t.src \in TargetSources(repo)
    BY DEF TargetSources
  <2> QED
    BY <2>1, <2>2, SourceIsInput
<1>3. ASSUME NEW i \in DOMAIN repo.exclusions, repo.exclusions[i].consumer # Absent
      PROVE  repo.exclusions[i].consumer \in InputFiles(repo)
  <2> DEFINE e == repo.exclusions[i]
  <2>1. e.class \in {"test-fixture", "recipe-fixture"}
    BY <1>3 DEF ContractPackages, ExclusionsOK, IsBindable
  <2>2. OwnedFile(repo, e.consumer) /\ OwnersOf(repo, e.class, e.consumer) # {}
    <3>1. IsWitnessed(repo, i)
      BY DEF ContractPackages
    <3> QED
      BY <2>1, <3>1 DEF IsWitnessed
  <2>3. CASE e.class = "test-fixture"
    <3>1. \E p \in Members(repo) : \E t \in repo.package[p].targets : t.src = e.consumer
      BY <2>2, <2>3 DEF OwnersOf
    <3> QED
      BY <1>2, <3>1
  <2>4. CASE e.class = "recipe-fixture"
    <3>1. EndsOf(e.consumer) = <<"recipe", "toml">>
      BY <2>2, <2>4 DEF OwnersOf, EndsOf
    <3> QED
      BY <2>2, <3>1, NamedIsInput DEF InputEnds
  <2> QED
    BY <2>1, <2>3, <2>4
<1>4. ASSUME NEW e \in ToSet(repo.exclusions), e.consumer # Absent PROVE e.consumer \in InputFiles(repo)
  <2>1. PICK i \in DOMAIN repo.exclusions : e = repo.exclusions[i]
    BY DEF ToSet
  <2> QED
    BY <1>3, <1>4, <2>1
<1> QED
  BY <1>1, <1>2, <1>4, GeneratedIsNoInput

-----------------------------------------------------------------------------
(* The validation matrix: every package is compiled, with its features. *)

(* The commands of a matrix: of a workspace, of a package with some features, of a group by the
   package that speaks for it. *)
Whole(d) == [Check(d) EXCEPT !.whole = TRUE]
Single(repo, p, f) == [CheckCommand(repo, p) EXCEPT !.package = repo.package[p].name, !.features = f]
Spokesman(repo, cut, g) ==
  CHOOSE p \in Members(repo) : repo.package[p].name = Representative(g, cut.groups[g])
Spoken(repo, cut, g) ==
    [CheckCommand(repo, Spokesman(repo, cut, g)) EXCEPT !.package = Representative(g, cut.groups[g])]

(* Cargo knows the packages of a workspace by their names. *)
NamesTell(repo) ==
  \A d \in DOMAIN repo.cargo : \A p, q \in ToSet(repo.cargo[d].members) :
    repo.package[p].name # "" /\ (repo.package[p].name = repo.package[q].name => p = q)

(* The command of a workspace, *)
LEMMA WholeIs ==
  ASSUME NEW d
  PROVE  Whole(d).manifest = d /\ Whole(d).package = "" /\ Whole(d).whole /\ Whole(d).features = "default"
BY DEF Whole, Check

(* of a package with some features, *)
LEMMA SingleIs ==
  ASSUME NEW repo, NEW p, NEW f
  PROVE  /\ Single(repo, p, f).manifest = WorkspaceOf(repo, p) /\ Single(repo, p, f).package =
              repo.package[p].name
         /\ ~Single(repo, p, f).whole /\ Single(repo, p, f).features = f
BY DEF Single, CheckCommand, Check

(* of a group, *)
LEMMA SpokenIs ==
  ASSUME NEW repo, NEW cut, NEW g
  PROVE  /\ Spoken(repo, cut, g).manifest = WorkspaceOf(repo, Spokesman(repo, cut, g))
         /\ Spoken(repo, cut, g).package = Representative(g, cut.groups[g])
         /\ ~Spoken(repo, cut, g).whole /\ Spoken(repo, cut, g).features = "default"
BY DEF Spoken, CheckCommand, Check

(* and the row that holds it. *)
LEMMA RowIs ==
  ASSUME NEW s, NEW u, NEW c
  PROVE  MatrixRow(s, u, c).scope = s /\ MatrixRow(s, u, c).subject = u /\ MatrixRow(s, u, c).command = c
BY DEF MatrixRow

(* The rows of the workspaces. *)
LEMMA WorkspaceRowsAre ==
  ASSUME NEW repo
  PROVE  WorkspaceRows(repo) = {MatrixRow("workspace", d, Whole(d)) : d \in Covering(repo)}
BY DEF WorkspaceRows, Whole

(* The rows of packages with features. *)
IsFeatureRow(repo, features, r) ==
  \E p \in Members(repo) : \E f \in {"no-default", "all"} :
    features[p] # {} /\ r = MatrixRow("package-feature", p, Single(repo, p, f))

(* They are what package_feature_rows makes. *)
LEMMA FeatureRowsAre ==
  ASSUME NEW repo, NEW features, NEW r
  PROVE  r \in PackageFeatureRows(repo, features) <=> IsFeatureRow(repo, features, r)
<1> DEFINE F(p, f) == MatrixRow("package-feature", p, Single(repo, p, f))
           S == {q \in Members(repo) : features[q] # {}}
<1>1. PackageFeatureRows(repo, features) = {F(p, f) : p \in S, f \in {"no-default", "all"}}
  BY DEF PackageFeatureRows, Single
<1> HIDE DEF F
<1>2. r \in PackageFeatureRows(repo, features) <=> \E p \in S : \E f \in {"no-default", "all"} : r = F(p, f)
  BY <1>1
<1>3. r \in PackageFeatureRows(repo, features) <=>
        \E p \in Members(repo) : \E f \in {"no-default", "all"} : features[p] # {} /\ r = F(p, f)
  BY <1>2
<1> QED
  BY <1>3 DEF F, IsFeatureRow

(* The rows of the groups. *)
LEMMA GroupRowsAre ==
  ASSUME NEW repo, NEW cut
  PROVE  GroupRows(repo, cut) = {MatrixRow("split-group", <<g>>, Spoken(repo, cut, g)) :
      g \in ToSet(cut.order)}
BY DEF GroupRows, Spoken, Spokesman

(* The slow rows name no package. *)
LEMMA SlowRowsAre ==
  ASSUME NEW repo, NEW r \in SlowRows(repo)
  PROVE  r.scope = "slow" /\ r.command.package = ""
<1> DEFINE A == MatrixRow("slow", <<"benches">>, [Check(<<>>) EXCEPT !.features = "all"])
           B(d) == MatrixRow("slow", d, Check(d))
           fuzz == {d \in {<<"fuzz">>} : OwnedFile(repo, Manifest(d))}
<1>1. SlowRows(repo) = {A} \cup {B(d) : d \in fuzz}
  BY DEF SlowRows
<1>2. A.scope = "slow" /\ A.command.package = ""
  BY DEF MatrixRow, Check
<1>3. \A d : B(d).scope = "slow" /\ B(d).command.package = ""
  BY DEF MatrixRow, Check
<1> HIDE DEF A, B, fuzz
<1> QED
  BY <1>1, <1>2, <1>3

(* What the rows of a matrix build. *)
LEMMA WholeBuilds ==
  ASSUME NEW repo, NEW d
  PROVE  Built(repo, Whole(d)) = ToSet(repo.cargo[d].members)
BY WholeIs DEF Built

(* The command names the package p where p is. *)
IsNamed(repo, p, command) ==
  command.manifest = WorkspaceOf(repo, p) /\ ~command.whole /\ command.package = repo.package[p].name

(* The command of a package names it. *)
LEMMA SingleIsNamed ==
  ASSUME NEW repo, NEW p, NEW f
  PROVE  IsNamed(repo, p, Single(repo, p, f))
BY SingleIs DEF IsNamed

(* A repository that has a contract, in a checkout, whose packages Cargo can tell apart. *)
Stands(repo, Words) ==
  IsCheckout(repo, Words) /\ CargoWalksUp(repo) /\ NamesTell(repo) /\ ContractPackages(repo)

(* The command builds this package and no other. *)
BuildsOnly(repo, command, p) == Built(repo, command) = {p}

(* A command that names a package, in its workspace, builds that package only. *)
LEMMA SingleBuilds ==
  ASSUME NEW repo, NEW Words, Stands(repo, Words), NEW p \in Members(repo), NEW command, IsNamed(repo, p, command)
  PROVE  BuildsOnly(repo, command, p) /\ command.package # ""
<1>0. IsCheckout(repo, Words) /\ CargoWalksUp(repo) /\ NamesTell(repo) /\ WorkspacesOK(repo)
  BY DEF Stands, ContractPackages
<1>1. WorkspaceOf(repo, p) \in Covering(repo) /\ p \in ToSet(repo.cargo[WorkspaceOf(repo, p)].members)
  BY <1>0, OneHome
<1>2. WorkspaceOf(repo, p) \in DOMAIN repo.cargo
  BY <1>0, <1>1, CoveringFacts
<1> DEFINE d == WorkspaceOf(repo, p)
<1>3. \A q \in ToSet(repo.cargo[d].members) :
        repo.package[q].name # "" /\ (repo.package[q].name = repo.package[p].name => q = p)
  BY <1>0, <1>1, <1>2 DEF NamesTell
<1> HIDE DEF d
<1>4. Built(repo, command) = {q \in ToSet(repo.cargo[d].members) :
        repo.package[q].name = repo.package[p].name}
  BY DEF Built, IsNamed, d
<1>5. p \in ToSet(repo.cargo[d].members)
  BY <1>1 DEF d
<1> QED
  BY <1>3, <1>4, <1>5 DEF IsNamed, BuildsOnly

(* The sequence of a finite set. *)
LEMMA SequenceOfSet ==
  ASSUME NEW S, IsFiniteSet(S)
  PROVE  SetToSeq(S) \in Seq(S)
<1>1. Cardinality(S) \in Nat /\ ExistsBijection(1..Cardinality(S), S)
  BY FS_CardinalityType
<1>2. PICK f : f \in Bijection(1..Cardinality(S), S)
  BY <1>1 DEF ExistsBijection
<1>3. f \in [1..Cardinality(S) -> S] /\ IsInjective(f)
  BY <1>2 DEF Bijection, Injection, Surjection, IsInjective
<1>4. SetToSeq(S) \in [1..Cardinality(S) -> S]
  BY <1>3 DEF SetToSeq
<1> QED
  BY <1>1, <1>4

(* What a cut may be parsed to. *)
IsCut(declared, Words) ==
  /\ declared = [section |-> declared.section, open |-> declared.open, items |-> declared.items,
                 order |-> declared.order, groups |-> declared.groups]
  /\ \A g \in DOMAIN declared.groups : declared.groups[g] \in Seq(Words)

(* The representative of a group is one of the group. *)
LEMMA GroupsAreLists ==
  ASSUME NEW repo, NEW Words, IsCheckout(repo, Words), WorkspacesOK(repo), NEW declared, IsCut(declared, Words),
         GroupsOK(repo, SplitCut(repo, declared)), NEW g \in ToSet(SplitCut(repo, declared).order)
  PROVE  Representative(g, SplitCut(repo, declared).groups[g]) \in ToSet(SplitCut(repo, declared).groups[g])
<1> DEFINE cut == SplitCut(repo, declared)
           names == {repo.package[p].name : p \in Members(repo)}
           packages == cut.groups[g]
<1>1. packages # <<>> /\ DOMAIN cut.groups = ToSet(cut.order) /\ g \in ToSet(cut.order)
  BY DEF GroupsOK, CutOK
<1>2. \E S : packages \in Seq(S)
  <2>1. CASE declared.order # <<>>
    <3>1. cut = declared
      BY <2>1 DEF SplitCut
    <3> HIDE DEF cut
    <3> QED
      BY <1>1, <3>1 DEF IsCut
  <2>2. CASE declared.order = <<>>
    <3>1. cut = [declared EXCEPT !.order = <<"workspace">>, !.groups = [h \in {"workspace"} |-> SetToSeq(names)]]
      BY <2>2 DEF SplitCut
    <3>2. cut.order = <<"workspace">> /\ cut.groups = [h \in {"workspace"} |-> SetToSeq(names)]
      BY <3>1 DEF IsCut
    <3> HIDE DEF cut
    <3>3. g = "workspace"
      BY <1>1, <3>2 DEF ToSet
    <3>4. packages = SetToSeq(names)
      BY <3>2, <3>3
    <3>5. IsFiniteSet(names)
      <4>1. Members(repo) \subseteq DOMAIN repo.package /\ IsFiniteSet(DOMAIN repo.package)
        BY CoveringFacts DEF IsCheckout
      <4>2. IsFiniteSet(Members(repo))
        BY <4>1, FS_Subset
      <4> DEFINE naming == [p \in Members(repo) |-> repo.package[p].name]
      <4>3. naming \in Surjection(Members(repo), names)
        BY DEF Surjection
      <4> QED
        BY <4>2, <4>3, FS_Surjection DEF ExistsSurjection
    <3> QED
      BY <3>4, <3>5, SequenceOfSet
  <2> QED
    BY <2>1, <2>2
<1> HIDE DEF packages
<1>3. 1 \in DOMAIN packages
  BY <1>1, <1>2
<1>4. packages[1] \in ToSet(packages)
  BY <1>3 DEF ToSet
<1> QED
  BY <1>4 DEF Representative, packages

(* What is known of a repository whose matrix is made. *)
IsMatrixed(repo, Words, features, declared) ==
  /\ IsCheckout(repo, Words) /\ CargoWalksUp(repo) /\ NamesTell(repo)
  /\ Members(repo) \subseteq DOMAIN features /\ IsCut(declared, Words)

(* What a row is. *)
RowKind(repo, features, r) ==
  \/ r.scope = "slow" /\ r.command.package = ""
  \/ /\ r.scope = "workspace" /\ r.command.package = "" /\ r.command.features = "default"
     /\ \E d \in Covering(repo) : Built(repo, r.command) = ToSet(repo.cargo[d].members)
  \/ /\ r.scope = "package-feature" /\ r.subject \in Members(repo) /\ features[r.subject] # {}
     /\ r.command.features \in {"no-default", "all"} /\ r.command.package # ""
     /\ Built(repo, r.command) = {r.subject}
  \/ /\ r.scope = "split-group" /\ r.command.features = "default" /\ r.command.package # ""
     /\ \E p \in Members(repo) : Built(repo, r.command) = {p}

(* Every row of a matrix names a package that is the only one of its name where it is run, or
   a workspace, or is slow. *)
LEMMA RowFacts ==
  ASSUME NEW repo, NEW Words, NEW features, NEW declared, Stands(repo, Words),
         GroupsOK(repo, SplitCut(repo, declared)),
         NEW r \in MatrixRows(repo, features, SplitCut(repo, declared))
  PROVE  RowKind(repo, features, r)
<1> DEFINE cut == SplitCut(repo, declared)
<1>2. CASE r \in WorkspaceRows(repo)
  <2>1. PICK d \in Covering(repo) : r = MatrixRow("workspace", d, Whole(d))
    BY <1>2, WorkspaceRowsAre
  <2>2. r.scope = "workspace" /\ r.command = Whole(d)
    BY <2>1, RowIs
  <2> HIDE DEF cut
  <2>3. r.command.package = "" /\ r.command.features = "default"
    <3>1. Whole(d).package = "" /\ Whole(d).features = "default"
      BY WholeIs
    <3> QED
      BY <2>2, <3>1
  <2>4. Built(repo, r.command) = ToSet(repo.cargo[d].members)
    BY <2>2, WholeBuilds
  <2> QED
    BY <2>2, <2>3, <2>4 DEF RowKind
<1>3. CASE r \in PackageFeatureRows(repo, features)
  <2>1. PICK p \in Members(repo), f \in {"no-default", "all"} :
          features[p] # {} /\ r = MatrixRow("package-feature", p, Single(repo, p, f))
    BY <1>3, FeatureRowsAre DEF IsFeatureRow
  <2>2. r.scope = "package-feature" /\ r.subject = p /\ r.command = Single(repo, p, f)
    BY <2>1, RowIs
  <2>3. /\ BuildsOnly(repo, Single(repo, p, f), p) /\ Single(repo, p, f).package # ""
        /\ Single(repo, p, f).features = f
    <3>1. IsNamed(repo, p, Single(repo, p, f)) /\ Single(repo, p, f).features = f
      BY SingleIs, SingleIsNamed
    <3> HIDE DEF cut
    <3> QED
      BY <3>1, SingleBuilds
  <2> QED
    BY <2>1, <2>2, <2>3 DEF RowKind, BuildsOnly
<1>4. CASE r \in GroupRows(repo, cut)
  <2>1. PICK g \in ToSet(cut.order) : r = MatrixRow("split-group", <<g>>, Spoken(repo, cut, g))
    BY <1>4, GroupRowsAre
  <2>2. r.scope = "split-group" /\ r.command = Spoken(repo, cut, g)
    BY <2>1, RowIs
  <2> HIDE DEF cut
  <2>3. Spokesman(repo, cut, g) \in Members(repo)
        /\ repo.package[Spokesman(repo, cut, g)].name = Representative(g, cut.groups[g])
    BY <2>1 DEF GroupsOK, Spokesman, cut
  <2>4. IsNamed(repo, Spokesman(repo, cut, g), Spoken(repo, cut, g)) /\ Spoken(repo, cut, g).features =
          "default"
    BY <2>3, SpokenIs DEF IsNamed
  <2>5. BuildsOnly(repo, Spoken(repo, cut, g), Spokesman(repo, cut, g)) /\ Spoken(repo, cut, g).package # ""
    BY <2>3, <2>4, SingleBuilds
  <2> QED
    BY <2>2, <2>3, <2>4, <2>5 DEF RowKind, BuildsOnly
<1>5. CASE r \in SlowRows(repo)
  BY <1>5, SlowRowsAre DEF RowKind
<1> QED
  BY <1>2, <1>3, <1>4, <1>5 DEF MatrixRows

(* What the rows compile with some features. *)
LEMMA CompiledBy ==
  ASSUME NEW repo, NEW rows, NEW f, NEW p
  PROVE  p \in Compiled(repo, rows, f) <=>
           \E r \in rows : r.scope # "slow" /\ r.command.features = f /\ p \in Built(repo, r.command)
BY DEF Compiled

(* A matrix is made of a repository that has a contract and whose groups are right. *)
LEMMA MatrixOf ==
  ASSUME NEW repo, NEW features, NEW declared,
         ContractPackages(repo) /\ GroupsOK(repo, SplitCut(repo, declared)) =>
           RowsCompile(repo, features, declared, MatrixRows(repo, features, SplitCut(repo, declared)))
  PROVE  MatrixCompiles(repo, features, declared)
<1> DEFINE rows == MatrixRows(repo, features, SplitCut(repo, declared))
           good == ContractPackages(repo) /\ GroupsOK(repo, SplitCut(repo, declared))
           made == ValidationMatrix(repo, features, declared, {}, FALSE)
<1>1. CASE good
  <2>1. made = [ok |-> TRUE, file |-> rows]
    BY <1>1 DEF ValidationMatrix
  <2>2. RowsCompile(repo, features, declared, rows)
    BY <1>1
  <2> HIDE DEF made, rows
  <2>3. made.file = rows
    BY <2>1
  <2> QED
    BY <2>2, <2>3 DEF MatrixCompiles, made
<1>2. CASE ~good
  <2>1. made = [ok |-> FALSE, file |-> {}]
    BY <1>2 DEF ValidationMatrix
  <2> HIDE DEF made
  <2>2. ~made.ok
    BY <2>1, Zenon
  <2> QED
    BY <2>2 DEF MatrixCompiles, made
<1> QED
  BY <1>1, <1>2

(* validation_matrix_for_repo, for any repository that has a contract: its rows compile every
   package as it is by default and every package with features without and with all of them,
   each row that names a package builds that one, every group builds one of its own, and a
   committed matrix is refused once a package gains its first feature. *)
THEOREM CompilingMatrix ==
  ASSUME NEW repo, NEW Words, NEW features, NEW declared, IsMatrixed(repo, Words, features, declared)
  PROVE  MatrixCompiles(repo, features, declared)
<1> DEFINE cut == SplitCut(repo, declared)
           rows == MatrixRows(repo, features, cut)
           gained == Gained(features)
<1>1. SUFFICES ASSUME ContractPackages(repo), GroupsOK(repo, cut)
               PROVE  /\ \A r \in rows : r.command.package # "" => Cardinality(Built(repo, r.command)) = 1
                      /\ Compiled(repo, rows, "default") = Members(repo)
                      /\ \A f \in {"no-default", "all"} : Compiled(repo, rows, f) = {p \in Members(repo) :
                           features[p] # {}}
                      /\ \A g \in ToSet(cut.order) : \E r \in rows :
                           r.subject = <<g>> /\ \E p \in Built(repo, r.command) :
                               repo.package[p].name \in ToSet(cut.groups[g])
                      /\ ValidationMatrix(repo, features, declared, rows, TRUE).ok
                      /\ (\E p \in Members(repo) : features[p] = {}) =>
                            ~ValidationMatrix(repo, gained, declared, rows, TRUE).ok
  BY MatrixOf DEF RowsCompile
<1>2. WorkspacesOK(repo) /\ Stands(repo, Words) /\ IsCut(declared, Words)
  BY <1>1 DEF ContractPackages, IsMatrixed, Stands
<1>3. \A r \in rows : RowKind(repo, features, r)
  BY <1>1, <1>2, RowFacts
<1>4. ASSUME NEW r \in rows, r.command.package # "" PROVE Cardinality(Built(repo, r.command)) = 1
  <2> HIDE DEF rows
  <2>0. RowKind(repo, features, r)
    BY <1>3
  <2>1. \E p : Built(repo, r.command) = {p}
    BY <2>0, <1>4 DEF RowKind
  <2> QED
    BY <2>1, FS_Singleton
<1>5. Compiled(repo, rows, "default") = Members(repo)
  <2>1. ASSUME NEW p \in Members(repo) PROVE p \in Compiled(repo, rows, "default")
    <3>1. PICK d \in Covering(repo) : p \in ToSet(repo.cargo[d].members)
      BY DEF Members
    <3> DEFINE r == MatrixRow("workspace", d, Whole(d))
    <3>2. r \in rows
      BY WorkspaceRowsAre DEF MatrixRows
    <3>3. r.scope = "workspace" /\ r.command = Whole(d)
      BY RowIs
    <3> HIDE DEF r, rows
    <3>4. r.command.features = "default"
      BY <3>3, WholeIs
    <3>5. p \in Built(repo, r.command)
      BY <3>1, <3>3, WholeBuilds
    <3> QED
      BY <3>2, <3>3, <3>4, <3>5, CompiledBy
  <2> HIDE DEF rows
  <2>2. ASSUME NEW r \in rows, r.scope # "slow", r.command.features = "default"
        PROVE  Built(repo, r.command) \subseteq Members(repo)
    <3>0. RowKind(repo, features, r)
      BY <1>3
    <3>1. \/ \E d \in Covering(repo) : Built(repo, r.command) = ToSet(repo.cargo[d].members)
          \/ \E p \in Members(repo) : Built(repo, r.command) = {p}
      BY <3>0, <2>2 DEF RowKind
    <3> QED
      BY <3>1 DEF Members
  <2> QED
    BY <2>1, <2>2, CompiledBy
<1>6. ASSUME NEW f \in {"no-default", "all"} PROVE Compiled(repo, rows, f) = {p \in Members(repo) :
        features[p] # {}}
  <2>1. ASSUME NEW p \in Members(repo), features[p] # {} PROVE p \in Compiled(repo, rows, f)
    <3> DEFINE r == MatrixRow("package-feature", p, Single(repo, p, f))
    <3>1. IsFeatureRow(repo, features, r)
      BY <2>1 DEF IsFeatureRow
    <3>2. r \in rows
      BY <3>1, FeatureRowsAre DEF MatrixRows
    <3>3. r.scope = "package-feature" /\ r.command = Single(repo, p, f)
      BY RowIs
    <3> HIDE DEF r, rows
    <3>4. r.command.features = f /\ BuildsOnly(repo, r.command, p)
      <4>1. IsNamed(repo, p, r.command) /\ r.command.features = f
        BY <3>3, SingleIs, SingleIsNamed
      <4> QED
        BY <1>2, <4>1, SingleBuilds
    <3>5. p \in Built(repo, r.command)
      BY <3>4 DEF BuildsOnly
    <3> QED
      BY <3>2, <3>3, <3>4, <3>5, CompiledBy
  <2> HIDE DEF rows
  <2>2. ASSUME NEW r \in rows, r.scope # "slow", r.command.features = f
        PROVE  \E p \in Members(repo) : features[p] # {} /\ Built(repo, r.command) = {p}
    <3>0. RowKind(repo, features, r)
      BY <1>3
    <3>1. r.command.features # "default"
      BY <2>2
    <3> QED
      BY <3>0, <3>1, <2>2 DEF RowKind
  <2> DEFINE with == {p \in Members(repo) : features[p] # {}}
  <2>3. \A p \in with : p \in Compiled(repo, rows, f)
    BY <2>1
  <2>4. \A p \in Compiled(repo, rows, f) : p \in with
    <3> SUFFICES ASSUME NEW p \in Compiled(repo, rows, f) PROVE p \in with
      OBVIOUS
    <3>1. PICK r \in rows : r.scope # "slow" /\ r.command.features = f /\ p \in Built(repo, r.command)
      BY CompiledBy
    <3> QED
      BY <2>2, <3>1
  <2> HIDE DEF with
  <2>5. Compiled(repo, rows, f) = with
    BY <2>3, <2>4
  <2> QED
    BY <2>5 DEF with
<1>7. ASSUME NEW g \in ToSet(cut.order)
      PROVE  \E r \in rows : r.subject = <<g>> /\ \E p \in Built(repo, r.command) :
          repo.package[p].name \in ToSet(cut.groups[g])
  <2> DEFINE r == MatrixRow("split-group", <<g>>, Spoken(repo, cut, g))
             q == Spokesman(repo, cut, g)
  <2>1. r \in rows
    BY GroupRowsAre DEF MatrixRows
  <2>2. r.subject = <<g>> /\ r.command = Spoken(repo, cut, g)
    BY RowIs
  <2>5. Representative(g, cut.groups[g]) \in ToSet(cut.groups[g])
    BY <1>1, <1>2, GroupsAreLists DEF Stands
  <2> HIDE DEF r, rows, cut
  <2>3. q \in Members(repo) /\ repo.package[q].name = Representative(g, cut.groups[g])
    BY <1>1 DEF GroupsOK, Spokesman
  <2>4. IsNamed(repo, q, Spoken(repo, cut, g))
    BY <2>3, SpokenIs DEF IsNamed
  <2> HIDE DEF q
  <2>6. BuildsOnly(repo, r.command, q)
    BY <1>2, <2>2, <2>3, <2>4, SingleBuilds
  <2> QED
    BY <2>1, <2>2, <2>3, <2>5, <2>6 DEF BuildsOnly
<1>8. ValidationMatrix(repo, features, declared, rows, TRUE).ok
  <2> HIDE DEF rows
  <2> QED
    BY <1>1 DEF ValidationMatrix, rows
<1>9. ASSUME NEW p \in Members(repo), features[p] = {}
      PROVE  ~ValidationMatrix(repo, gained, declared, rows, TRUE).ok
  <2> DEFINE more == MatrixRows(repo, gained, cut)
             r == MatrixRow("package-feature", p, Single(repo, p, "all"))
  <2>1. p \in DOMAIN features
    BY DEF IsMatrixed
  <2>2. gained[p] # {}
    BY <2>1 DEF Gained
  <2> HIDE DEF gained
  <2>3. IsFeatureRow(repo, gained, r)
    BY <2>2 DEF IsFeatureRow
  <2>4. r \in more
    BY <2>3, FeatureRowsAre DEF MatrixRows
  <2>5. r.scope = "package-feature" /\ r.subject = p
    BY RowIs
  <2> HIDE DEF r, rows
  <2>6. r \notin rows
    <3> SUFFICES ASSUME r \in rows PROVE FALSE
      OBVIOUS
    <3>0. RowKind(repo, features, r)
      BY <1>3
    <3>1. features[r.subject] # {}
      BY <3>0, <2>5 DEF RowKind
    <3> QED
      BY <1>9, <2>5, <3>1
  <2> HIDE DEF more
  <2>7. rows # more
    BY <2>4, <2>6
  <2>8. ValidationMatrix(repo, gained, declared, rows, TRUE) = [ok |-> rows = more, file |-> rows]
    BY <1>1 DEF ValidationMatrix, more, rows
  <2> DEFINE checked == ValidationMatrix(repo, gained, declared, rows, TRUE)
  <2>9. checked = [ok |-> FALSE, file |-> rows]
    BY <2>7, <2>8
  <2> HIDE DEF checked
  <2>10. ~checked.ok
    BY <2>9, Zenon
  <2> QED
    BY <2>10 DEF checked
<1> QED
  BY <1>4, <1>5, <1>6, <1>7, <1>8, <1>9

-----------------------------------------------------------------------------
(* The firewall of the atelier: what passes is clean. *)

Firewall == INSTANCE AtelierGuard

(* Fences that open and close blocks by turns. *)
IsChain(lines, n, turn) ==
  turn \in [1..n -> Firewall!Fences(lines)] /\ \A k \in 1..n : Firewall!TakesTurns(lines, turn, k)

(* They are those up to line i: none is left that opens a block, or that closes the last. *)
EndsAt(lines, i, n, turn, open) ==
  /\ n > 0 => turn[n] <= i
  /\ IF n % 2 = 0
     THEN open = "none" /\ \A s \in Firewall!Fences(lines) : s <= i => n > 0 /\ s <= turn[n]
     ELSE /\ open = lines[turn[n]].is
          /\ \A s \in Firewall!Fences(lines) : s <= i /\ s > turn[n] => lines[s].is # open

(* What is open after line i is what such fences leave. *)
Parsed(lines, i, open) ==
  \E n \in Nat : \E turn : IsChain(lines, n, turn) /\ EndsAt(lines, i, n, turn, open)

(* What the fence after a line is made of. *)
AfterLine(line, open) ==
  IF line.is \in {"tick", "tilde"} /\ open = "none" THEN line.is ELSE IF line.is = open THEN "none" ELSE open

(* By turns. *)
LEMMA Parity ==
  ASSUME NEW n \in Nat
  PROVE  (n + 1) % 2 = 0 <=> n % 2 # 0
OBVIOUS

(* One more fence of the chain. *)
LEMMA LongerChain ==
  ASSUME NEW lines, NEW n \in Nat, NEW turn, IsChain(lines, n, turn), NEW s \in Firewall!Fences(lines),
         IF n = 0 THEN Firewall!Opens(lines, 0, s)
         ELSE IF n % 2 = 0 THEN Firewall!Opens(lines, turn[n], s) ELSE Firewall!Closes(lines, turn[n], s)
  PROVE  IsChain(lines, n + 1, [k \in 1..(n + 1) |-> IF k = n + 1 THEN s ELSE turn[k]])
<1> DEFINE more == [k \in 1..(n + 1) |-> IF k = n + 1 THEN s ELSE turn[k]]
<1>1. turn \in [1..n -> Firewall!Fences(lines)] /\ \A k \in 1..n : Firewall!TakesTurns(lines, turn, k)
  BY DEF IsChain
<1>2. more \in [1..(n + 1) -> Firewall!Fences(lines)]
  BY <1>1
<1>3. more[n + 1] = s /\ (n > 0 => more[n] = turn[n])
  OBVIOUS
<1>4. \A k \in 1..n : more[k] = turn[k] /\ (k # 1 => more[k - 1] = turn[k - 1])
  OBVIOUS
<1> HIDE DEF more
<1>5. ASSUME NEW k \in 1..n PROVE Firewall!TakesTurns(lines, more, k)
  <2>1. Firewall!TakesTurns(lines, turn, k) /\ more[k] = turn[k] /\ (k # 1 => more[k - 1] = turn[k - 1])
    BY <1>1, <1>4
  <2> QED
    BY <2>1 DEF Firewall!TakesTurns
<1>6. Firewall!TakesTurns(lines, more, n + 1)
  <2>1. CASE n = 0
    BY <1>3, <2>1 DEF Firewall!TakesTurns
  <2>2. CASE n # 0
    <3>1. n + 1 # 1 /\ (n + 1) - 1 = n /\ n > 0 /\ more[n] = turn[n]
      BY <1>3, <2>2
    <3>2. (n + 1) % 2 = 0 <=> n % 2 # 0
      BY Parity
    <3> QED
      BY <1>3, <2>2, <3>1, <3>2 DEF Firewall!TakesTurns
  <2> QED
    BY <2>1, <2>2
<1>7. \A k \in 1..(n + 1) : k \in 1..n \/ k = n + 1
  OBVIOUS
<1>8. IsChain(lines, n + 1, more)
  BY <1>2, <1>5, <1>6, <1>7 DEF IsChain
<1> QED
  BY <1>8 DEF more

(* A line more. *)
LEMMA NextLine ==
  ASSUME NEW L \in Nat, NEW lines, DOMAIN lines = 1..L, NEW i \in 0..(L - 1), NEW open, Parsed(lines, i, open)
  PROVE  Parsed(lines, i + 1, AfterLine(lines[i + 1], open))
<1> DEFINE s == i + 1
           after == AfterLine(lines[s], open)
<1>0. PICK n \in Nat : \E turn : IsChain(lines, n, turn) /\ EndsAt(lines, i, n, turn, open)
  BY DEF Parsed
<1>1. PICK turn : IsChain(lines, n, turn) /\ EndsAt(lines, i, n, turn, open)
  BY <1>0
<1>2. s \in 1..L /\ Firewall!Fences(lines) \subseteq 1..L /\ \A t \in 1..L : t <= s <=> t <= i \/ t = s
  BY DEF Firewall!Fences
<1>3. n > 0 => turn[n] \in Firewall!Fences(lines) /\ turn[n] <= i /\ turn[n] < s
  <2>1. n > 0 => n \in 1..n
    OBVIOUS
  <2>2. n > 0 => turn[n] \in Firewall!Fences(lines)
    BY <1>1, <2>1 DEF IsChain
  <2>3. n > 0 => turn[n] <= i
    BY <1>1 DEF EndsAt
  <2> QED
    BY <1>2, <2>2, <2>3
<1>4. n % 2 = 0 => open = "none"
  BY <1>1 DEF EndsAt
<1>5. n % 2 # 0 => n > 0 /\ open = lines[turn[n]].is /\ open \in {"tick", "tilde"}
  <2>1. n % 2 # 0 => n > 0
    OBVIOUS
  <2> QED
    BY <1>1, <1>3, <2>1 DEF EndsAt, Firewall!Fences
<1>6. CASE n % 2 = 0 /\ s \in Firewall!Fences(lines)
  <2> DEFINE more == [k \in 1..(n + 1) |-> IF k = n + 1 THEN s ELSE turn[k]]
  <2>1. after = lines[s].is
    BY <1>4, <1>6 DEF AfterLine, Firewall!Fences
  <2>2. \A t \in Firewall!Fences(lines) : t <= i => n > 0 /\ t <= turn[n]
    BY <1>1, <1>6 DEF EndsAt
  <2>3. IF n = 0 THEN Firewall!Opens(lines, 0, s) ELSE Firewall!Opens(lines, turn[n], s)
    BY <1>2, <1>3, <1>6, <2>2 DEF Firewall!Opens
  <2>4. IsChain(lines, n + 1, more)
    BY <1>1, <1>6, <2>3, LongerChain
  <2>5. more[n + 1] = s /\ (n + 1) % 2 # 0 /\ n + 1 \in Nat
    BY <1>6, Parity
  <2> HIDE DEF more, after
  <2>6. EndsAt(lines, s, n + 1, more, after)
    BY <1>2, <2>1, <2>5 DEF EndsAt
  <2> QED
    BY <2>4, <2>5, <2>6 DEF Parsed, after
<1>7. CASE n % 2 = 0 /\ s \notin Firewall!Fences(lines)
  <2>1. after = open
    BY <1>2, <1>4, <1>7 DEF AfterLine, Firewall!Fences
  <2>2. EndsAt(lines, s, n, turn, open)
    BY <1>1, <1>2, <1>3, <1>7 DEF EndsAt
  <2> QED
    BY <1>1, <2>1, <2>2 DEF Parsed
<1>8. CASE n % 2 # 0 /\ lines[s].is = open
  <2> DEFINE more == [k \in 1..(n + 1) |-> IF k = n + 1 THEN s ELSE turn[k]]
  <2>0. s \in Firewall!Fences(lines)
    BY <1>2, <1>5, <1>8 DEF Firewall!Fences
  <2>1. after = "none"
    BY <1>5, <1>8 DEF AfterLine
  <2>2. \A t \in Firewall!Fences(lines) : t <= i /\ t > turn[n] => lines[t].is # open
    BY <1>1, <1>8 DEF EndsAt
  <2>3. n # 0 /\ Firewall!Closes(lines, turn[n], s)
    BY <1>2, <1>3, <1>5, <1>8, <2>0, <2>2 DEF Firewall!Closes
  <2>4. IsChain(lines, n + 1, more)
    BY <1>1, <1>8, <2>0, <2>3, LongerChain
  <2> DEFINE m == n + 1
  <2>5. more[m] = s /\ m % 2 = 0 /\ m \in Nat /\ m > 0
    BY <1>8, Parity
  <2> HIDE DEF more, after, m
  <2>6. \A t \in Firewall!Fences(lines) : t <= s => m > 0 /\ t <= more[m]
    BY <2>5
  <2>7. EndsAt(lines, s, m, more, after)
    BY <1>2, <2>1, <2>5, <2>6 DEF EndsAt
  <2> QED
    BY <2>4, <2>5, <2>7 DEF Parsed, after, m
<1>9. CASE n % 2 # 0 /\ lines[s].is # open
  <2>1. after = open
    BY <1>5, <1>9 DEF AfterLine
  <2>2. EndsAt(lines, s, n, turn, open)
    BY <1>1, <1>2, <1>3, <1>5, <1>9 DEF EndsAt
  <2> QED
    BY <1>1, <2>1, <2>2 DEF Parsed
<1> QED
  BY <1>6, <1>7, <1>8, <1>9

(* The fence after each line, as the rule reads the text. *)
LEMMA FenceIs ==
  ASSUME NEW Line, NEW lines \in Seq(Line)
  PROVE  /\ Firewall!Fence(lines)[0] = "none"
         /\ \A i \in 1..Len(lines) :
              Firewall!Fence(lines)[i] = AfterLine(lines[i], Firewall!Fence(lines)[i - 1])
<1> DEFINE N == Len(lines)
           T == {"none", "tick", "tilde"}
           Body(f) == [i \in 0..N |->
                         IF i = 0 THEN "none"
                         ELSE IF lines[i].is \in {"tick", "tilde"} /\ f[i - 1] = "none" THEN lines[i].is
                         ELSE IF lines[i].is = f[i - 1] THEN "none" ELSE f[i - 1]]
           fence == CHOOSE f : f = Body(f)
           step == [i \in 1..N |-> [open \in T |-> AfterLine(lines[i], open)]]
<1>1. ASSUME NEW i \in 1..N, NEW open \in T PROVE AfterLine(lines[i], open) \in T
  BY DEF AfterLine
<1> HIDE DEF N
<1>2. step \in [1..N -> [T -> T]]
  BY <1>1
<1>3. N \in Nat
  BY DEF N
<1>4. PICK f \in [0..N -> T] : Iterates(f, N, "none", step)
  <2>1. "none" \in T
    OBVIOUS
  <2> HIDE DEF step, T
  <2> QED
    BY <1>2, <1>3, <2>1, Iteration
<1>5. f = Body(f)
  <2>1. ASSUME NEW i \in 0..N PROVE f[i] = Body(f)[i]
    <3>1. i # 0 => i \in 1..N /\ i - 1 \in 0..N
      BY <1>3
    <3>2. i # 0 => step[i][f[i - 1]] = AfterLine(lines[i], f[i - 1])
      BY <3>1
    <3> HIDE DEF step
    <3> QED
      BY <1>4, <3>2 DEF Iterates, AfterLine
  <2> HIDE DEF step
  <2>2. f = [i \in 0..N |-> f[i]]
    OBVIOUS
  <2>3. Body(f) = [i \in 0..N |-> Body(f)[i]]
    OBVIOUS
  <2> HIDE DEF Body
  <2> QED
    BY <2>1, <2>2, <2>3
<1>6. fence = Body(fence)
  <2> HIDE DEF Body
  <2> QED
    BY <1>5
<1>7. Firewall!Fence(lines) = fence
  BY DEF Firewall!Fence, N
<1> HIDE DEF fence
<1>8. \A i \in 0..N : fence[i] = IF i = 0 THEN "none" ELSE AfterLine(lines[i], fence[i - 1])
  BY <1>6 DEF AfterLine
<1>9. fence[0] = "none"
  BY <1>3, <1>8
<1>10. \A i \in 1..N : i \in 0..N /\ i # 0
  BY <1>3
<1>11. \A i \in 1..N : fence[i] = AfterLine(lines[i], fence[i - 1])
  BY <1>8, <1>10
<1> QED
  BY <1>7, <1>9, <1>11 DEF N

(* What the rule has open after each line is what the fences up to it leave. *)
LEMMA FenceParsed ==
  ASSUME NEW Line, NEW lines \in Seq(Line), NEW i \in 0..Len(lines)
  PROVE  Parsed(lines, i, Firewall!Fence(lines)[i])
<1> DEFINE fence == Firewall!Fence(lines)
           N == Len(lines)
           S == {n \in Nat : n <= N => Parsed(lines, n, fence[n])}
<1>0. fence[0] = "none" /\ \A n \in 1..N : fence[n] = AfterLine(lines[n], fence[n - 1])
  BY FenceIs
<1> HIDE DEF fence
<1>1. Parsed(lines, 0, fence[0])
  <2> DEFINE none == [k \in 1..0 |-> 1]
  <2>1. IsChain(lines, 0, none)
    BY DEF IsChain
  <2>2. \A s \in Firewall!Fences(lines) : s > 0
    BY DEF Firewall!Fences
  <2>3. EndsAt(lines, 0, 0, none, fence[0])
    <3>1. 0 % 2 = 0 /\ ~(0 > 0)
      OBVIOUS
    <3>2. \A s \in Firewall!Fences(lines) : ~(s <= 0)
      BY <2>2 DEF Firewall!Fences
    <3> QED
      BY <1>0, <3>1, <3>2 DEF EndsAt
  <2> QED
    BY <2>1, <2>3 DEF Parsed
<1>2. ASSUME NEW n \in S PROVE n + 1 \in S
  <2>1. SUFFICES ASSUME n + 1 <= N PROVE Parsed(lines, n + 1, fence[n + 1])
    OBVIOUS
  <2>2. n \in Nat /\ n \in 0..(N - 1) /\ n + 1 \in 1..N /\ (n + 1) - 1 = n
    BY <2>1
  <2>3. Parsed(lines, n, fence[n])
    BY <2>1, <2>2
  <2>4. Parsed(lines, n + 1, AfterLine(lines[n + 1], fence[n]))
    BY <2>2, <2>3, NextLine
  <2> QED
    BY <1>0, <2>2, <2>4
<1>3. S = Nat
  <2>1. 0 \in S /\ S \in SUBSET Nat
    BY <1>1
  <2> HIDE DEF S
  <2> QED
    BY <1>2, <2>1, NumberInduction
<1> QED
  BY <1>3 DEF fence

(* A chain climbs, and so is no longer than there are fences. *)
LEMMA ChainClimbs ==
  ASSUME NEW Line, NEW lines \in Seq(Line), NEW n \in Nat, NEW turn, IsChain(lines, n, turn)
  PROVE  Cardinality(Firewall!Fences(lines)) \in Nat /\ n <= Cardinality(Firewall!Fences(lines))
<1>0. turn \in [1..n -> Firewall!Fences(lines)] /\ Firewall!Fences(lines) \subseteq 1..Len(lines)
  BY DEF IsChain, Firewall!Fences
<1>1. \A k \in 1..n : k # 1 => k - 1 \in 1..n /\ turn[k - 1] < turn[k]
  <2> SUFFICES ASSUME NEW k \in 1..n, k # 1 PROVE k - 1 \in 1..n /\ turn[k - 1] < turn[k]
    OBVIOUS
  <2>1. Firewall!TakesTurns(lines, turn, k)
    BY DEF IsChain
  <2>2. Firewall!Closes(lines, turn[k - 1], turn[k]) \/ Firewall!Opens(lines, turn[k - 1], turn[k])
    BY <2>1 DEF Firewall!TakesTurns
  <2>3. k - 1 \in 1..n /\ turn[k - 1] \in 1..Len(lines) /\ turn[k] \in 1..Len(lines)
    BY <1>0
  <2> QED
    BY <2>2, <2>3 DEF Firewall!Closes, Firewall!Opens
<1> DEFINE S == {m \in Nat : m <= n => \A k \in 1..m : k < m => turn[k] < turn[m]}
<1>2. 0 \in S /\ S \in SUBSET Nat
  OBVIOUS
<1>3. ASSUME NEW m \in S PROVE m + 1 \in S
  <2>1. SUFFICES ASSUME m + 1 <= n, NEW k \in 1..(m + 1), k < m + 1 PROVE turn[k] < turn[m + 1]
    OBVIOUS
  <2>2. m \in 1..n /\ m + 1 \in 1..n /\ k \in 1..m /\ m + 1 # 1 /\ (m + 1) - 1 = m
    BY <2>1
  <2>3. turn[m] < turn[m + 1]
    BY <1>1, <2>2
  <2>4. k = m \/ turn[k] < turn[m]
    BY <2>1, <2>2
  <2>5. turn[k] \in 1..Len(lines) /\ turn[m] \in 1..Len(lines) /\ turn[m + 1] \in 1..Len(lines)
    BY <1>0, <2>2
  <2> QED
    BY <2>3, <2>4, <2>5
<1>4. S = Nat
  <2> HIDE DEF S
  <2> QED
    BY <1>2, <1>3, NumberInduction
<1>5. \A k, m \in 1..n : k < m => turn[k] < turn[m]
  BY <1>4
<1>6. turn \in Injection(1..n, Firewall!Fences(lines))
  <2>1. \A k, m \in 1..n : turn[k] = turn[m] => k = m
    <3> SUFFICES ASSUME NEW k \in 1..n, NEW m \in 1..n, turn[k] = turn[m], k # m PROVE FALSE
      OBVIOUS
    <3>1. turn[k] \in 1..Len(lines) /\ turn[m] \in 1..Len(lines)
      BY <1>0
    <3>2. k < m \/ m < k
      OBVIOUS
    <3> QED
      BY <1>5, <3>1, <3>2
  <2> QED
    BY <1>0, <2>1 DEF Injection, IsInjective
<1>7. IsFiniteSet(Firewall!Fences(lines))
  <2>1. IsFiniteSet(1..Len(lines))
    BY FS_Interval
  <2> QED
    BY <1>0, <2>1, FS_Subset
<1>8. Cardinality(1..n) = n
  BY FS_Interval
<1>9. Cardinality(1..n) <= Cardinality(Firewall!Fences(lines))
  BY <1>6, <1>7, FS_Injection
<1> QED
  BY <1>7, <1>8, <1>9, FS_CardinalityType

(* A line after which a fence is open is in a block. *)
LEMMA OpenIsBlock ==
  ASSUME NEW Line, NEW lines \in Seq(Line), NEW i \in 1..Len(lines), Firewall!Fence(lines)[i] # "none"
  PROVE  Firewall!InBlock(lines, i)
<1> DEFINE open == Firewall!Fence(lines)[i]
<1>0. i \in 0..Len(lines) /\ open # "none"
  OBVIOUS
<1>1. Parsed(lines, i, open)
  BY <1>0, FenceParsed
<1> HIDE DEF open
<1>2. PICK n \in Nat : \E turn : IsChain(lines, n, turn) /\ EndsAt(lines, i, n, turn, open)
  BY <1>1 DEF Parsed
<1>3. PICK turn : IsChain(lines, n, turn) /\ EndsAt(lines, i, n, turn, open)
  BY <1>2
<1>4. n % 2 # 0
  BY <1>0, <1>3 DEF EndsAt
<1>5. n % 2 = 1 /\ n > 0 /\ n \in 1..n
  <2>0. n \in Nat
    BY <1>2
  <2>1. n % 2 \in {0, 1} /\ (n = 0 => n % 2 = 0)
    BY <2>0
  <2> QED
    BY <1>4, <2>0, <2>1
<1>6. turn[n] <= i /\ \A s \in Firewall!Fences(lines) : s <= i /\ s > turn[n] =>
        lines[s].is # lines[turn[n]].is
  BY <1>3, <1>4, <1>5 DEF EndsAt
<1>7. ~\E s \in Firewall!Fences(lines) : Firewall!Closes(lines, turn[n], s) /\ s <= i
  BY <1>6 DEF Firewall!Closes
<1>8. n \in 0..Cardinality(Firewall!Fences(lines))
  <2>1. IsChain(lines, n, turn)
    BY <1>3
  <2>2. Cardinality(Firewall!Fences(lines)) \in Nat /\ n <= Cardinality(Firewall!Fences(lines))
    BY <2>1, ChainClimbs
  <2>3. n \in Nat
    BY <1>2
  <2> QED
    BY <2>2, <2>3
<1>9. turn \in [1..n -> Firewall!Fences(lines)] /\ \A k \in 1..n : Firewall!TakesTurns(lines, turn, k)
  BY <1>3 DEF IsChain
<1> DEFINE Good(m, t) ==
             /\ m % 2 = 1 /\ t[m] <= i
             /\ \A k \in 1..m : Firewall!TakesTurns(lines, t, k)
             /\ ~\E s \in Firewall!Fences(lines) : Firewall!Closes(lines, t[m], s) /\ s <= i
<1>10. Good(n, turn)
  BY <1>5, <1>6, <1>7, <1>9
<1>11. Firewall!InBlock(lines, i) <=>
         \E m \in 0..Cardinality(Firewall!Fences(lines)) : \E t \in [1..m -> Firewall!Fences(lines)] :
             Good(m, t)
  <2>1. Firewall!Cardinality(Firewall!Fences(lines)) = Cardinality(Firewall!Fences(lines))
    BY Zenon DEF Firewall!Cardinality, Cardinality
  <2> QED
    BY <2>1 DEF Firewall!InBlock
<1> HIDE DEF Good
<1> QED
  BY <1>8, <1>9, <1>10, <1>11

(* What guard answers, all of it or of some rules. *)
LEMMA GuardIs ==
  ASSUME NEW repos, NEW rules
  PROVE  /\ Firewall!Guard(repos, rules).ok => Firewall!Guard(repos, {}).ok
         /\ Firewall!Guard(repos, rules).ok =>
              Firewall!Guard(repos, rules).findings = Firewall!Findings(repos, rules)
         /\ Firewall!Guard(repos, rules).findings \subseteq Firewall!Findings(repos, rules)
         /\ Firewall!Guard(repos, rules).passed =>
              \A g \in Firewall!Findings(repos, rules) : g.severity # "error"
<1> DEFINE refused(rs) == ~(rs \subseteq DOMAIN Firewall!Severity) \/ \E r \in repos :
      ~Firewall!ScanRepo(r).ok
           found == Firewall!Findings(repos, rules)
           asked == Firewall!Guard(repos, rules)
<1>1. CASE refused(rules)
  <2>1. asked = [ok |-> FALSE, passed |-> FALSE, findings |-> {}]
    BY <1>1 DEF Firewall!Guard
  <2> HIDE DEF asked
  <2>2. ~asked.ok /\ ~asked.passed
    BY <2>1, Zenon
  <2>3. asked.findings = {}
    BY <2>1
  <2> QED
    BY <2>2, <2>3 DEF asked
<1>2. CASE ~refused(rules)
  <2>1. ~refused({})
    BY <1>2
  <2>2. Firewall!Guard(repos, {}) =
          [ok |-> TRUE, findings |-> Firewall!Findings(repos, {}),
           passed |-> \A g \in Firewall!Findings(repos, {}) : g.severity # "error"]
    BY <2>1 DEF Firewall!Guard
  <2>3. asked = [ok |-> TRUE, findings |-> found, passed |-> \A g \in found : g.severity # "error"]
    BY <1>2 DEF Firewall!Guard
  <2> HIDE DEF asked, refused
  <2>4. asked.findings = found
    BY <2>3
  <2>5. Firewall!Guard(repos, {}).ok
    <3> DEFINE all == Firewall!Guard(repos, {})
    <3>1. all = [ok |-> TRUE, findings |-> Firewall!Findings(repos, {}),
                 passed |-> \A g \in Firewall!Findings(repos, {}) : g.severity # "error"]
      BY <2>2
    <3> HIDE DEF all
    <3>2. all.ok
      BY <3>1, Zenon
    <3> QED
      BY <3>2 DEF all
  <2>6. ASSUME NEW g \in found, g.severity = "error" PROVE ~asked.passed
    <3>1. asked = [ok |-> TRUE, findings |-> found, passed |-> FALSE]
      BY <2>3, <2>6
    <3> QED
      BY <3>1, Zenon
  <2> QED
    BY <2>4, <2>5, <2>6 DEF asked
<1> QED
  BY <1>1, <1>2

(* What is found in a repository, and of what severity. *)
LEMMA FoundIs ==
  ASSUME NEW rule \in DOMAIN Firewall!Severity, NEW repo, NEW paths, NEW p \in paths
  PROVE  /\ Firewall!Finding(rule, repo, p, Firewall!Severity[rule]) \in Firewall!Found(rule, repo, paths)
         /\ Firewall!Finding(rule, repo, p, Firewall!Severity[rule]).severity = Firewall!Severity[rule]
BY DEF Firewall!Found, Firewall!Finding

(* A rule of errors that is kept finds nothing. *)
LEMMA NothingFound ==
  ASSUME NEW rule \in DOMAIN Firewall!Severity \ {"rust-file-size-policy", "kernel-boundary-warning"},
         NEW repo, NEW paths,
         \A g \in Firewall!Found(rule, repo, paths) : g.severity # "error"
  PROVE  paths = {}
<1>1. Firewall!Severity[rule] = "error"
  BY DEF Firewall!Severity
<1> QED
  BY <1>1, FoundIs

(* The parts of a scan. *)
LEMMA ScanHolds ==
  ASSUME NEW r, NEW known, known = Firewall!Listed(r)
  PROVE  Firewall!ScanRepo(r).findings =
           Firewall!Ascii(r, known) \cup Firewall!PresentTense(r, known) \cup Firewall!GeneratedDocs(r)
             \cup Firewall!CodeFree(r, known) \cup Firewall!LocalPathDeps(r, known) \cup Firewall!MetaWorkspace(r)
             \cup Firewall!RemotePolicy(r) \cup Firewall!FileSize(r, known) \cup Firewall!KernelBoundary(r, known)
BY DEF Firewall!ScanRepo

(* What files can be. *)
HasFiles(r, Words, Line) ==
  \A f \in r.files : f.path \in Seq(Words) /\ f.path # <<>> /\ f.size \in Nat /\ f.lines \in Seq(Line)

(* A line that the rule passes over is in a block, or looks like one. *)
LEMMA QuietFile ==
  ASSUME NEW Line, NEW f, f.lines \in Seq(Line),
         \A i \in Firewall!Spoken(f) : ~f.lines[i].says
  PROVE  Firewall!IsQuiet(f)
<1>1. SUFFICES ASSUME NEW i \in DOMAIN f.lines, f.lines[i].says
               PROVE  \/ f.ext = "rs" /\ f.lines[i].is # "comment"
                      \/ f.ext = "md" /\ (\/ f.lines[i].is \in {"tick", "tilde", "indented"}
                                          \/ Firewall!InBlock(f.lines, i))
  BY DEF Firewall!IsQuiet
<1>2. i \notin Firewall!Spoken(f)
  BY <1>1
<1>3. \/ f.ext =
        "md" /\ (f.lines[i].is \in {"tick", "tilde", "indented"} \/ Firewall!Fence(f.lines)[i] # "none")
      \/ f.ext = "rs" /\ f.lines[i].is # "comment"
  BY <1>1, <1>2 DEF Firewall!Spoken
<1>4. i \in 1..Len(f.lines)
  BY <1>1
<1>5. Firewall!Fence(f.lines)[i] # "none" => Firewall!InBlock(f.lines, i)
  BY <1>4, OpenIsBlock
<1> QED
  BY <1>3, <1>5

(* A repository without a finding of severity error is clean. *)
LEMMA CleanRepository ==
  ASSUME NEW r, NEW Words, NEW Line, HasFiles(r, Words, Line), r.here, r.git = "dir",
         \A g \in Firewall!ScanRepo(r).findings : g.severity # "error"
  PROVE  Firewall!IsClean(r)
<1> DEFINE known == Firewall!Listed(r)
           texts == Firewall!Texts(r)
           found == Firewall!ScanRepo(r).findings
<1>1. \A f : f \in texts <=> f \in known /\ Firewall!IsText(f)
  BY DEF Firewall!Texts, Firewall!Listed
<1>2. \A f \in known : f \in r.files
  BY DEF Firewall!Listed
<1>3. /\ Firewall!Ascii(r, known) \subseteq found /\ Firewall!PresentTense(r, known) \subseteq found
      /\ Firewall!GeneratedDocs(r) \subseteq found /\ Firewall!CodeFree(r, known) \subseteq found
      /\ Firewall!LocalPathDeps(r, known) \subseteq found /\ Firewall!RemotePolicy(r) \subseteq found
      /\ Firewall!FileSize(r, known) \subseteq found
  BY ScanHolds
<1>4. \A f \in texts : Firewall!IsRust(f) <=> f.ext = "rs"
  BY DEF Firewall!IsRust
<1> HIDE DEF known, texts, found
<1>5. \A g \in found : g.severity # "error"
  BY DEF found
<1>6. DOMAIN Firewall!Severity \ {"rust-file-size-policy", "kernel-boundary-warning"} =
        {"ascii-source-markdown", "present-tense-public-docs", "generated-docs-clean", "code-free-control-repos",
         "no-local-public-path-deps", "meta-workspace-not-source", "remote-policy"}
  BY DEF Firewall!Severity
<1>10. \A f \in texts : \A i \in DOMAIN f.lines : f.lines[i].ascii
  <2> DEFINE bad == {f.path : f \in {f \in known : Firewall!IsText(f) /\ \E i \in DOMAIN f.lines :
        ~f.lines[i].ascii}}
  <2>1. Firewall!Ascii(r, known) = Firewall!Found("ascii-source-markdown", r, bad)
    BY DEF Firewall!Ascii
  <2> HIDE DEF bad
  <2>2. bad = {}
    BY <1>3, <1>5, <1>6, <2>1, NothingFound
  <2> QED
    BY <1>1, <2>2 DEF bad
<1>11. ASSUME r.kind \in {"code", "frontpage"}, NEW f \in texts, Firewall!IsPublic(f)
         PROVE Firewall!IsQuiet(f)
  <2> DEFINE bad == {g.path : g \in {g \in known : Firewall!IsPublic(g) /\ \E i \in Firewall!Spoken(g) :
        g.lines[i].says}}
  <2>1. Firewall!PresentTense(r, known) = Firewall!Found("present-tense-public-docs", r, bad)
    BY <1>11 DEF Firewall!PresentTense
  <2> HIDE DEF bad
  <2>2. bad = {}
    BY <1>3, <1>5, <1>6, <2>1, NothingFound
  <2>3. \A i \in Firewall!Spoken(f) : ~f.lines[i].says
    BY <1>1, <1>11, <2>2 DEF bad
  <2>4. f.lines \in Seq(Line) /\ Firewall!IsText(f)
    BY <1>1, <1>2 DEF HasFiles
  <2> QED
    BY <2>3, <2>4, QuietFile
<1>12. ASSUME r.kind = "code", r.docsHere PROVE r.docs = {}
  <2>1. Firewall!GeneratedDocs(r) = Firewall!Found("generated-docs-clean", r, r.docs)
    BY <1>12 DEF Firewall!GeneratedDocs, Firewall!GitKnows
  <2> QED
    BY <1>3, <1>5, <1>6, <2>1, NothingFound
<1>13. ASSUME r.kind = "code", NEW f \in texts, Firewall!NameOf(f) = "Cargo.toml", NEW i \in DOMAIN f.lines
       PROVE  f.lines[i].dep # "absolute"
  <2> DEFINE bad == {g.path : g \in {g \in known : /\ Firewall!NameOf(g) = "Cargo.toml"
                                                    /\ \E k \in DOMAIN g.lines : g.lines[k].dep = "absolute"}}
  <2>1. Firewall!LocalPathDeps(r, known) = Firewall!Found("no-local-public-path-deps", r, bad)
    BY <1>13 DEF Firewall!LocalPathDeps
  <2> HIDE DEF bad
  <2>2. bad = {}
    BY <1>3, <1>5, <1>6, <2>1, NothingFound
  <2> QED
    BY <1>1, <1>13, <2>2 DEF bad
<1>14. ASSUME ~r.code, NEW f \in texts PROVE f.path[1] # "src" /\ (Firewall!IsRust(f) => f.path[1] = "docs")
  <2> DEFINE roots == {p \in {<<"Cargo.toml">>, <<"src">>, <<"crates">>} :
                         r.here /\ \E g \in r.files : Firewall!IsPrefix(p, g.path)}
             rust == {g.path : g \in {g \in known : Firewall!IsRust(g) /\ g.path[1] # "docs"}}
  <2>1. Firewall!CodeFree(r, known) = Firewall!Found("code-free-control-repos", r, roots \cup rust)
    BY <1>14 DEF Firewall!CodeFree
  <2> HIDE DEF roots, rust
  <2>2. roots \cup rust = {}
    BY <1>3, <1>5, <1>6, <2>1, NothingFound
  <2>3. f.path[1] # "src"
    <3> SUFFICES ASSUME f.path[1] = "src" PROVE FALSE
      OBVIOUS
    <3>1. f \in r.files /\ f.path \in Seq(Words) /\ f.path # <<>>
      BY <1>1, <1>2 DEF HasFiles
    <3>2. Firewall!IsPrefix(<<"src">>, f.path)
      BY <3>1 DEF Firewall!IsPrefix
    <3>3. <<"src">> \in roots
      BY <3>1, <3>2 DEF roots
    <3> QED
      BY <2>2, <3>3
  <2>4. Firewall!IsRust(f) => f.path[1] = "docs"
    BY <1>1, <2>2 DEF rust
  <2> QED
    BY <2>3, <2>4
<1>15. ASSUME r.kind = "private", NEW m \in r.remotes PROVE ~m.github
  <2> DEFINE bad == {q \in Firewall!GitKnows(r, r.remotes) :
                       \/ r.kind = "private" /\ q.github
                       \/ r.kind \in {"code", "frontpage"} /\ q.push /\ q.nest /\ ~q.github}
             places == {p \in {<<"repos.toml">>} : r.publish} \cup {<<".git", "config">> : q \in bad}
  <2>1. Firewall!RemotePolicy(r) = Firewall!Found("remote-policy", r, places)
    BY DEF Firewall!RemotePolicy
  <2> HIDE DEF bad, places
  <2>2. places = {}
    BY <1>3, <1>5, <1>6, <2>1, NothingFound
  <2>3. bad = {}
    BY <2>2 DEF places
  <2> QED
    BY <1>15, <2>3 DEF bad, Firewall!GitKnows
<1>16. ASSUME r.code, NEW f \in texts, Firewall!IsRust(f)
       PROVE  f.size <= 700 /\ (Firewall!NameOf(f) = "mod" => f.size <= 250)
  <2> DEFINE limit(g) == IF Firewall!NameOf(g) \in {"lib", "main", "mod"} THEN <<150, 250>> ELSE <<500, 700>>
             over(k) == {g \in known : Firewall!IsRust(g) /\ g.size > limit(g)[k]}
             rule(g) ==
                 Firewall!Finding("rust-file-size-policy", r, g.path, IF g \in over(2) THEN "error" ELSE "warning")
  <2>1. Firewall!FileSize(r, known) = {rule(g) : g \in over(1)}
    BY <1>16 DEF Firewall!FileSize
  <2>2. f \in known /\ f.size \in Nat
    BY <1>1, <1>2 DEF HasFiles
  <2>3. limit(f)[2] <= 700 /\ limit(f)[1] < limit(f)[2] /\ (Firewall!NameOf(f) = "mod" => limit(f)[2] = 250)
        /\ limit(f)[1] \in Nat /\ limit(f)[2] \in Nat
    OBVIOUS
  <2> HIDE DEF limit
  <2>4. SUFFICES ASSUME f.size > limit(f)[2] PROVE FALSE
    BY <2>2, <2>3
  <2>5. f \in over(1) /\ f \in over(2)
    BY <1>16, <2>2, <2>3, <2>4
  <2>6. rule(f).severity = "error"
    BY <2>5 DEF Firewall!Finding
  <2> HIDE DEF over, rule
  <2>7. rule(f) \in found
    BY <1>3, <2>1, <2>5
  <2> QED
    BY <1>5, <2>6, <2>7
<1> QED
  BY <1>10, <1>11, <1>12, <1>13, <1>14, <1>15, <1>16 DEF Firewall!IsClean, texts

(* Whose capability a finding gates. *)
LEMMA OwnCapability ==
  ASSUME NEW repo, NEW g \in Firewall!ScanRepo(repo).findings, NEW name, name # g.repo
  PROVE  g.capability \notin {<<"EditRepo", name>>, <<"RegenDocs", name>>}
<1> DEFINE known == Firewall!Listed(repo)
           Bears(rule) == \E p, s : g = Firewall!Finding(rule, repo, p, s)
<1>1. ASSUME NEW rule, NEW paths, g \in Firewall!Found(rule, repo, paths) PROVE Bears(rule)
  BY <1>1 DEF Firewall!Found
<1>2. ASSUME g \in Firewall!FileSize(repo, known) PROVE Bears("rust-file-size-policy")
  BY <1>2 DEF Firewall!FileSize
<1>3. g \in Firewall!KernelBoundary(repo, known) => Bears("kernel-boundary-warning") /\ repo.name =
        "sim-kernel"
  BY <1>1 DEF Firewall!KernelBoundary
<1>4. \E rule : Bears(rule) /\ (rule = "kernel-boundary-warning" => repo.name = "sim-kernel")
  <2>1. \/ g \in Firewall!Ascii(repo, known) \/ g \in Firewall!PresentTense(repo, known)
        \/ g \in Firewall!GeneratedDocs(repo) \/ g \in Firewall!CodeFree(repo, known)
        \/ g \in Firewall!LocalPathDeps(repo, known) \/ g \in Firewall!MetaWorkspace(repo)
        \/ g \in Firewall!RemotePolicy(repo) \/ g \in Firewall!FileSize(repo, known)
        \/ g \in Firewall!KernelBoundary(repo, known)
    BY ScanHolds
  <2>2. g \in Firewall!Ascii(repo, known) => Bears("ascii-source-markdown")
    BY <1>1 DEF Firewall!Ascii
  <2>3. g \in Firewall!PresentTense(repo, known) => Bears("present-tense-public-docs")
    BY <1>1 DEF Firewall!PresentTense
  <2>4. g \in Firewall!GeneratedDocs(repo) => Bears("generated-docs-clean")
    BY <1>1 DEF Firewall!GeneratedDocs
  <2>5. g \in Firewall!CodeFree(repo, known) => Bears("code-free-control-repos")
    BY <1>1 DEF Firewall!CodeFree
  <2>6. g \in Firewall!LocalPathDeps(repo, known) => Bears("no-local-public-path-deps")
    BY <1>1 DEF Firewall!LocalPathDeps
  <2>7. g \in Firewall!MetaWorkspace(repo) => Bears("meta-workspace-not-source")
    BY <1>1 DEF Firewall!MetaWorkspace
  <2>8. g \in Firewall!RemotePolicy(repo) => Bears("remote-policy")
    BY <1>1 DEF Firewall!RemotePolicy
  <2> HIDE DEF Bears, known
  <2> QED
    BY <1>2, <1>3, <2>1, <2>2, <2>3, <2>4, <2>5, <2>6, <2>7, <2>8
<1>5. PICK rule, p, s : g = Firewall!Finding(rule, repo, p, s) /\ (rule = "kernel-boundary-warning" =>
        repo.name = "sim-kernel")
  BY <1>4
<1>6. g.repo = repo.name /\ g.capability = Firewall!Capability(rule, repo)
  BY <1>5 DEF Firewall!Finding
<1>7. g.capability \in {<<"PlanPin">>, <<"RegenDocs", repo.name>>, <<"EditRepo", repo.name>>}
  BY <1>5, <1>6 DEF Firewall!Capability
<1> QED
  BY <1>6, <1>7

(* scan_repo and the rules of atelier-guard, for any repositories: a run of some rules finds
   what those rules find in a run of all, a finding gates no other repository, and a run that
   passes leaves every checkout clean. *)
THEOREM CleanPass ==
  ASSUME NEW repos, NEW rules, NEW Words, NEW Line, \A r \in repos : HasFiles(r, Words, Line)
  PROVE  Firewall!PassMeansClean(repos, rules)
<1> DEFINE all == Firewall!Guard(repos, {})
           one == Firewall!Guard(repos, rules)
<1>1. one.ok => all.ok /\ one.findings = {g \in all.findings : rules = {} \/ g.rule \in rules}
  <2>1. SUFFICES ASSUME one.ok PROVE all.ok /\ one.findings = {g \in all.findings :
          rules = {} \/ g.rule \in rules}
    OBVIOUS
  <2>2. all.ok
    BY <2>1, GuardIs
  <2>3. one.findings = Firewall!Findings(repos, rules) /\ all.findings = Firewall!Findings(repos, {})
    BY <2>1, <2>2, GuardIs
  <2> HIDE DEF one, all
  <2> QED
    BY <2>2, <2>3 DEF Firewall!Findings
<1>2. ASSUME NEW g \in all.findings, NEW r \in repos, r.name # g.repo
      PROVE  g.capability \notin {<<"EditRepo", r.name>>, <<"RegenDocs", r.name>>}
  <2>1. g \in Firewall!Findings(repos, {})
    BY GuardIs
  <2>2. PICK q \in repos : g \in Firewall!ScanRepo(q).findings
    BY <2>1 DEF Firewall!Findings
  <2> QED
    BY <1>2, <2>2, OwnCapability
<1>3. ASSUME all.passed, NEW r \in repos, r.here, r.git = "dir" PROVE Firewall!IsClean(r)
  <2>1. \A g \in Firewall!Findings(repos, {}) : g.severity # "error"
    BY <1>3, GuardIs
  <2>2. \A g \in Firewall!ScanRepo(r).findings : g \in Firewall!Findings(repos, {})
    BY DEF Firewall!Findings
  <2>3. HasFiles(r, Words, Line)
    OBVIOUS
  <2> QED
    BY <1>3, <2>1, <2>2, <2>3, CleanRepository
<1> QED
  BY <1>1, <1>2, <1>3 DEF Firewall!PassMeansClean

-----------------------------------------------------------------------------
(* The index of the atelier: what it is silent about is whole. *)

Atelier == INSTANCE AtelierIndex

(* What checkouts can be: their names and the paths of their files tell them apart, and the
   manifest that lists them, which is read first, is no file that cannot be read. *)
AreCheckouts(repos, Words) ==
  /\ \A r, q \in repos : r.name = q.name => r = q
  /\ \A r \in repos :
       /\ r.sources \subseteq Seq(Words)
       /\ \A f \in r.files : f.path \in Seq(Words) /\ (f.path = <<"repos.toml">> => f.reads)
       /\ \A f, g \in r.files : f.path = g.path => f = g

(* What is taken below a root. *)
LEMMA WalkedIs ==
  ASSUME NEW repo, NEW root, NEW exts, NEW f
  PROVE  f \in Atelier!Walked(repo, root, exts) <=>
           /\ f \in repo.files /\ Atelier!IsStrictPrefix(root, f.path) /\ f.ext \in exts
           /\ \A n \in Len(root)..Len(f.path) : n > 0 => f.path[n] \notin Atelier!Ignored
           /\ ".meta-workspace" \notin Atelier!ToSet(f.path)
BY DEF Atelier!Walked

(* A file without an ignored directory is walked. *)
LEMMA OpenIsWalked ==
  ASSUME NEW Words, NEW repo, NEW f \in repo.files, f.path \in Seq(Words), NEW root \in Seq(Words),
         NEW exts, f.ext \in exts,
         Atelier!IsStrictPrefix(root, f.path), Atelier!ToSet(f.path) \cap Atelier!Ignored = {}
  PROVE  f \in Atelier!Walked(repo, root, exts)
<1>1. \A n \in 1..Len(f.path) : f.path[n] \in Atelier!ToSet(f.path)
  BY DEF Atelier!ToSet
<1>2. \A n \in Len(root)..Len(f.path) : n > 0 => n \in 1..Len(f.path)
  OBVIOUS
<1>3. \A n \in Len(root)..Len(f.path) : n > 0 => f.path[n] \notin Atelier!Ignored
  BY <1>1, <1>2
<1>4. ".meta-workspace" \in Atelier!Ignored
  BY DEF Atelier!Ignored
<1> QED
  BY <1>3, <1>4, WalkedIs

(* What may be taken is of the checkout and of no meta workspace. *)
LEMMA TakenIs ==
  ASSUME NEW repo, NEW f \in Atelier!Taken(repo)
  PROVE  f \in repo.files /\ (f.path = <<"README.md">> \/ ".meta-workspace" \notin Atelier!ToSet(f.path))
<1>1. \/ f \in Atelier!Readme(repo)
      \/ \E root, exts : f \in Atelier!Walked(repo, root, exts)
  BY DEF Atelier!Taken, Atelier!RustFiles
<1>2. f \in Atelier!Readme(repo) => f \in repo.files /\ f.path = <<"README.md">>
  BY DEF Atelier!Readme
<1> QED
  BY <1>1, <1>2, WalkedIs

(* The files of a checkout that the index is to have. *)
Asked(r, f) ==
  \/ f.path = <<"README.md">>
  \/ Atelier!IsStrictPrefix(<<"recipes">>, f.path) /\ f.ext \in Atelier!TextLike
  \/ f.ext = "rs" /\ \E s \in {<<>>} \cup r.sources :
       /\ Atelier!IsStrictPrefix(Append(s, "src"), f.path)
       /\ \E g \in r.files : g.path = Append(s, "Cargo.toml")

(* What is to be in the index is taken. *)
LEMMA AskedIsTaken ==
  ASSUME NEW Words, {"src", "recipes"} \subseteq Words, NEW r, r.present, r.sources \subseteq Seq(Words),
         NEW f \in r.files, f.path \in Seq(Words), Asked(r, f),
             Atelier!ToSet(f.path) \cap Atelier!Ignored = {}
  PROVE  f \in Atelier!Taken(r)
<1>1. CASE f.path = <<"README.md">>
  BY <1>1 DEF Atelier!Taken, Atelier!Readme
<1>2. CASE Atelier!IsStrictPrefix(<<"recipes">>, f.path) /\ f.ext \in Atelier!TextLike
  <2>1. <<"recipes">> \in Seq(Words) /\ <<"recipes">> \in Atelier!TextRoots
    BY DEF Atelier!TextRoots
  <2>2. f \in Atelier!Walked(r, <<"recipes">>, Atelier!TextLike)
    BY <1>2, <2>1, OpenIsWalked
  <2> QED
    BY <2>1, <2>2 DEF Atelier!Taken
<1>3. CASE f.ext = "rs" /\ \E s \in {<<>>} \cup r.sources :
             /\ Atelier!IsStrictPrefix(Append(s, "src"), f.path)
             /\ \E g \in r.files : g.path = Append(s, "Cargo.toml")
  <2>1. PICK s \in {<<>>} \cup r.sources : /\ Atelier!IsStrictPrefix(Append(s, "src"), f.path)
                                           /\ \E g \in r.files : g.path = Append(s, "Cargo.toml")
    BY <1>3
  <2>2. s \in Atelier!CrateRoots(r) /\ Append(s, "src") \in Seq(Words)
    <3>1. s \in Seq(Words)
      <4>1. s = <<>> \/ s \in r.sources
        BY <2>1
      <4>2. <<>> \in Seq(Words)
        OBVIOUS
      <4> QED
        BY <4>1, <4>2
    <3>2. Append(s, "src") \in Seq(Words)
      BY <3>1
    <3>3. s \in Atelier!CrateRoots(r)
      BY <2>1 DEF Atelier!CrateRoots
    <3> QED
      BY <3>2, <3>3
  <2>3. f \in Atelier!Walked(r, Append(s, "src"), {"rs"})
    BY <1>3, <2>1, <2>2, OpenIsWalked
  <2> QED
    BY <2>2, <2>3 DEF Atelier!Taken, Atelier!RustFiles
<1> QED
  BY <1>1, <1>2, <1>3 DEF Asked

(* The checkouts whose collection stops at a file that cannot be read. *)
Failing(repos) == {r \in repos : \E f \in Atelier!Taken(r) : ~f.reads}

(* What the index has of a checkout, and what it says of it. *)
LEMMA CollectedIs ==
  ASSUME NEW repos, NEW r \in repos
  PROVE  /\ r \in Failing(repos) => <<r.name, "collection failed">> \in Atelier!Collected(repos).diagnostics
         /\ Atelier!Status(r) # "clean" =>
              <<r.name, Atelier!Status(r)>> \in Atelier!Collected(repos).diagnostics
         /\ r \notin Failing(repos) => <<r.name, <<"repos.toml">>>> \in Atelier!Collected(repos).units
         /\ r \notin Failing(repos) => \A f \in Atelier!Taken(r) :
              <<r.name, f.path>> \in Atelier!Collected(repos).units
<1>1. /\ Atelier!Collected(repos).units =
           UNION {{<<q.name, <<"repos.toml">>>>} \cup {<<q.name, f.path>> : f \in Atelier!Taken(q)} :
               q \in repos \ Failing(repos)}
      /\ Atelier!Collected(repos).diagnostics =
           {<<q.name, Atelier!Status(q)>> : q \in {q \in repos : Atelier!Status(q) # "clean"}}
             \cup {<<q.name, "collection failed">> : q \in Failing(repos)}
  BY DEF Atelier!Collected, Failing
<1> DEFINE units(q) == {<<q.name, <<"repos.toml">>>>} \cup {<<q.name, f.path>> : f \in Atelier!Taken(q)}
<1>2. r \notin Failing(repos) => units(r) \subseteq Atelier!Collected(repos).units
  BY <1>1
<1>3. <<r.name, <<"repos.toml">>>> \in units(r) /\ \A f \in Atelier!Taken(r) : <<r.name, f.path>> \in units(r)
  OBVIOUS
<1>4. r \in Failing(repos) => <<r.name, "collection failed">> \in Atelier!Collected(repos).diagnostics
  BY <1>1
<1>5. Atelier!Status(r) # "clean" => <<r.name, Atelier!Status(r)>> \in Atelier!Collected(repos).diagnostics
  BY <1>1
<1> HIDE DEF units
<1> QED
  BY <1>2, <1>3, <1>4, <1>5

(* A unit is of a checkout that was collected whole. *)
LEMMA UnitIs ==
  ASSUME NEW repos, NEW name, NEW path, <<name, path>> \in Atelier!Collected(repos).units
  PROVE  \E q \in repos \ Failing(repos) :
           name = q.name /\ (path = <<"repos.toml">> \/ \E f \in Atelier!Taken(q) : path = f.path)
<1>1. Atelier!Collected(repos).units =
        UNION {{<<q.name, <<"repos.toml">>>>} \cup {<<q.name, f.path>> : f \in Atelier!Taken(q)} :
            q \in repos \ Failing(repos)}
  BY DEF Atelier!Collected, Failing
<1>2. PICK q \in repos \ Failing(repos) :
        <<name, path>> \in {<<q.name, <<"repos.toml">>>>} \cup {<<q.name, f.path>> : f \in Atelier!Taken(q)}
  BY <1>1
<1> QED
  BY <1>2

(* collect_work_repo_index, for any checkouts: one of which no diagnostic speaks is in the
   index with its manifest and every file that is asked for, and nothing in the index is of a
   file that was not read or of a meta workspace. *)
THEOREM WholeSilence ==
  ASSUME NEW repos, NEW Words, {"src", "recipes"} \subseteq Words, AreCheckouts(repos, Words)
  PROVE  Atelier!SilenceIsWhole(repos)
<1> DEFINE index == Atelier!Collected(repos)
<1>1. ASSUME NEW r \in repos, \A d \in index.diagnostics : d[1] # r.name
      PROVE  /\ <<r.name, <<"repos.toml">>>> \in index.units
             /\ \A f \in r.files : Asked(r, f) /\ Atelier!ToSet(f.path) \cap Atelier!Ignored = {} =>
                  <<r.name, f.path>> \in index.units
  <2>1. r \notin Failing(repos)
    <3>1. r \in Failing(repos) => <<r.name, "collection failed">> \in index.diagnostics
      BY CollectedIs
    <3> HIDE DEF index
    <3> QED
      BY <1>1, <3>1
  <2>2. Atelier!Status(r) = "clean"
    <3>1. Atelier!Status(r) # "clean" => <<r.name, Atelier!Status(r)>> \in index.diagnostics
      BY CollectedIs
    <3> HIDE DEF index
    <3> QED
      BY <1>1, <3>1
  <2>3. r.present
    BY <2>2 DEF Atelier!Status
  <2>4. r.sources \subseteq Seq(Words) /\ \A f \in r.files : f.path \in Seq(Words)
    BY DEF AreCheckouts
  <2>5. \A f \in r.files : Asked(r, f) /\ Atelier!ToSet(f.path) \cap Atelier!Ignored = {} =>
          f \in Atelier!Taken(r)
    BY <2>3, <2>4, AskedIsTaken
  <2> QED
    BY <2>1, <2>5, CollectedIs
<1>2. ASSUME NEW r \in repos, NEW f \in r.files, <<r.name, f.path>> \in index.units
      PROVE  f.reads /\ ".meta-workspace" \notin Atelier!ToSet(f.path)
  <2>1. PICK q \in repos \ Failing(repos) :
          r.name = q.name /\ (f.path = <<"repos.toml">> \/ \E g \in Atelier!Taken(q) : f.path = g.path)
    BY <1>2, UnitIs
  <2>2. q = r
    BY <2>1 DEF AreCheckouts
  <2>3. CASE f.path = <<"repos.toml">>
    <3>1. f.reads
      BY <2>3 DEF AreCheckouts
    <3> QED
      BY <2>3, <3>1 DEF Atelier!ToSet
  <2>4. CASE \E g \in Atelier!Taken(r) : f.path = g.path
    <3>1. PICK g \in Atelier!Taken(r) : f.path = g.path
      BY <2>4
    <3>2. g \in r.files /\ (g.path = <<"README.md">> \/ ".meta-workspace" \notin Atelier!ToSet(g.path))
      BY TakenIs
    <3>3. g = f
      BY <3>1, <3>2 DEF AreCheckouts
    <3>4. f.reads
      BY <2>1, <2>2, <3>1, <3>3 DEF Failing
    <3>5. ".meta-workspace" \notin Atelier!ToSet(<<"README.md">>)
      BY DEF Atelier!ToSet
    <3> QED
      BY <3>1, <3>2, <3>4, <3>5
  <2> QED
    BY <2>1, <2>2, <2>3, <2>4
<1> HIDE DEF index
<1> QED
  BY <1>1, <1>2 DEF Atelier!SilenceIsWhole, Asked, index

-----------------------------------------------------------------------------
(* The units of the index document: what they relate to is there. *)

(* The ids of the records of an index, *)
NamedBy(doc, i) == {c.id : c \in doc.features[i].grammars}
FeatureIds(doc) == {doc.features[i].id : i \in DOMAIN doc.features}
GrammarIds(doc) == UNION {NamedBy(doc, i) : i \in DOMAIN doc.features}
RecordIds(doc) ==
  {s.id : s \in doc.subjects} \cup {s.id : s \in doc.surfaces} \cup {s.id : s \in doc.specimens}
    \cup FeatureIds(doc) \cup GrammarIds(doc) \cup {r.id : r \in doc.routes}
Anchored(doc) == UNION {doc.features[i].anchors : i \in DOMAIN doc.features}

(* and an index whose records refer to its records and anchors, which check_index_doc of
   sim-index-core sees to before any unit is made of it. *)
RefersWithin(doc) ==
  LET known == RecordIds(doc) \cup Anchored(doc)
  IN /\ \A e \in doc.edges : e.rel = "contains" => e.from \in known /\ e.to \in known
     /\ \A s \in doc.surfaces \cup doc.specimens : s.subject \in known
     /\ \A i \in DOMAIN doc.features :
          LET f == doc.features[i]
          IN /\ f.subject \in known /\ f.surfaces \subseteq known /\ f.specimens \subseteq known
             /\ \A c \in f.grammars : c.refs \subseteq known
     /\ \A r \in doc.routes : \A i \in DOMAIN r.steps : r.steps[i].id \in known

(* The parts of a unit. *)
LEMMA UnitParts ==
  ASSUME NEW kind, NEW id, NEW related, NEW panels
  PROVE  LET u == Atelier!Unit(kind, id, related, panels)
         IN u.kind = kind /\ u.id = id /\ u.related = related /\ u.panels = panels
BY DEF Atelier!Unit

(* The features of an index. *)
LEMMA FeaturesAre ==
  ASSUME NEW doc
  PROVE  \A f : f \in Atelier!ToSet(doc.features) <=> \E i \in DOMAIN doc.features : f = doc.features[i]
BY DEF Atelier!ToSet

(* Each record has a unit. *)
SubjectKind(s) ==
  IF s.kind \in Atelier!PackageKinds THEN "package"
  ELSE IF s.kind \in {"language", "grammar"} THEN s.kind ELSE "subject"
SubjectUnit(doc, s) ==
  Atelier!Unit(SubjectKind(s), s.id, Atelier!Containers(doc, s.id) \cup Atelier!Contents(doc, s.id), {"exists"})
FeatureUnit(doc, f) ==
  Atelier!Unit("feature", f.id, {f.subject} \cup f.anchors \cup f.surfaces \cup f.specimens \cup {g.id :
      g \in f.grammars},
               {"exists"} \cup (IF Atelier!Runs(doc, f) THEN {"run"} ELSE {}))
(* A grammar has the unit of the first feature that names it. *)
FirstNaming(doc, g) == Atelier!Min({i \in DOMAIN doc.features : \E c \in doc.features[i].grammars : c.id = g})
ContractOf(doc, g) == CHOOSE c \in doc.features[FirstNaming(doc, g)].grammars : c.id = g
GrammarUnit(doc, g) ==
  Atelier!Unit("grammar", g, {doc.features[FirstNaming(doc, g)].id} \cup ContractOf(doc, g).refs, {"exists"})
RouteUnit(r) ==
  Atelier!Unit("route", r.id, {s.id : s \in Atelier!ToSet(r.steps)},
               {"reuse"} \cup (IF \E s \in Atelier!ToSet(r.steps) : s.is = "specimen" THEN {"run"} ELSE {}))

(* The units are those of the subjects, *)
LEMMA SubjectUnitsAre ==
  ASSUME NEW doc
  PROVE  Atelier!SubjectUnits(doc) = {SubjectUnit(doc, s) : s \in doc.subjects}
BY DEF Atelier!SubjectUnits, SubjectUnit, SubjectKind

(* of the features, *)
LEMMA FeatureUnitsAre ==
  ASSUME NEW doc
  PROVE  Atelier!FeatureUnits(doc) = {FeatureUnit(doc, doc.features[i]) : i \in DOMAIN doc.features}
<1> DEFINE F(f) == FeatureUnit(doc, f)
<1>1. Atelier!FeatureUnits(doc) = {F(f) : f \in Atelier!ToSet(doc.features)}
  BY DEF Atelier!FeatureUnits, FeatureUnit
<1> HIDE DEF F
<1>2. {F(f) : f \in Atelier!ToSet(doc.features)} = {F(doc.features[i]) : i \in DOMAIN doc.features}
  <2> DEFINE all == Atelier!ToSet(doc.features)
  <2>1. \A f : f \in all <=> \E i \in DOMAIN doc.features : f = doc.features[i]
    BY FeaturesAre
  <2> HIDE DEF all
  <2>2. {F(f) : f \in all} = {F(doc.features[i]) : i \in DOMAIN doc.features}
    BY <2>1
  <2> QED
    BY <2>2 DEF all
<1> QED
  BY <1>1, <1>2 DEF F

(* of the grammars, *)
LEMMA GrammarUnitsAre ==
  ASSUME NEW doc
  PROVE  Atelier!GrammarUnits(doc) =
           {GrammarUnit(doc, g) : g \in GrammarIds(doc)}
<1> DEFINE F(g) == GrammarUnit(doc, g)
           said(f) == {c.id : c \in f.grammars}
           named == UNION {said(f) : f \in Atelier!ToSet(doc.features)}
<1>1. Atelier!GrammarUnits(doc) = {F(g) : g \in named}
  BY DEF Atelier!GrammarUnits, GrammarUnit, FirstNaming, ContractOf
<1> HIDE DEF F
<1>2. \A i \in DOMAIN doc.features : NamedBy(doc, i) = said(doc.features[i])
  BY DEF NamedBy
<1> HIDE DEF said
<1>3. named = GrammarIds(doc)
  <2> DEFINE all == Atelier!ToSet(doc.features)
  <2>1. \A f : f \in all <=> \E i \in DOMAIN doc.features : f = doc.features[i]
    BY FeaturesAre
  <2> HIDE DEF all
  <2>2. UNION {said(f) : f \in all} = GrammarIds(doc)
    BY <1>2, <2>1 DEF GrammarIds
  <2> QED
    BY <2>2 DEF all
<1> HIDE DEF named
<1> QED
  BY <1>1, <1>3 DEF F

(* and of the routes. *)
LEMMA RouteUnitsAre ==
  ASSUME NEW doc
  PROVE  Atelier!RouteUnits(doc) = {RouteUnit(r) : r \in doc.routes}
BY DEF Atelier!RouteUnits, RouteUnit

(* The first feature that names a grammar, and what it says of it. *)
LEMMA NamedByFeature ==
  ASSUME NEW doc, NEW T, doc.features \in Seq(T), NEW i \in DOMAIN doc.features,
         NEW c \in doc.features[i].grammars
  PROVE  /\ FirstNaming(doc, c.id) \in DOMAIN doc.features
         /\ ContractOf(doc, c.id) \in doc.features[FirstNaming(doc, c.id)].grammars
         /\ ContractOf(doc, c.id).id = c.id
<1> DEFINE g == c.id
           naming == {j \in DOMAIN doc.features : \E d \in doc.features[j].grammars : d.id = g}
<1>1. naming \in SUBSET Nat /\ naming # {}
  BY LenProperties
<1>2. PICK x \in naming : \A y \in naming : x <= y
  <2> HIDE DEF naming
  <2> QED
    BY <1>1, LeastNumber
<1>3. FirstNaming(doc, g) = CHOOSE n \in naming : \A m \in naming : m >= n
  BY DEF FirstNaming, Atelier!Min
<1>4. \A y \in naming : y >= x
  BY <1>1, <1>2
<1>5. FirstNaming(doc, g) \in naming
  <2> HIDE DEF naming
  <2> QED
    BY <1>2, <1>3, <1>4
<1>6. \E d \in doc.features[FirstNaming(doc, g)].grammars : d.id = g
  BY <1>5
<1> QED
  BY <1>5, <1>6 DEF ContractOf

(* Each record is a unit. *)
LEMMA RecordsHaveUnits ==
  ASSUME NEW doc, NEW x \in RecordIds(doc)
  PROVE  \E u \in Atelier!GraphUnits(doc) : u.id = x
<1>7. \/ \E s \in doc.subjects : x = s.id
      \/ \E s \in doc.surfaces : x = s.id
      \/ \E s \in doc.specimens : x = s.id
      \/ \E i \in DOMAIN doc.features : x = doc.features[i].id
      \/ \E i \in DOMAIN doc.features : x \in NamedBy(doc, i)
      \/ \E r \in doc.routes : x = r.id
  <2>1. \/ x \in {s.id : s \in doc.subjects} \/ x \in {s.id : s \in doc.surfaces}
        \/ x \in {s.id : s \in doc.specimens} \/ x \in {r.id : r \in doc.routes}
        \/ x \in FeatureIds(doc) \/ x \in GrammarIds(doc)
    BY DEF RecordIds
  <2>2. x \in FeatureIds(doc) => \E i \in DOMAIN doc.features : x = doc.features[i].id
    BY DEF FeatureIds
  <2>3. x \in GrammarIds(doc) => \E i \in DOMAIN doc.features : x \in NamedBy(doc, i)
    BY DEF GrammarIds
  <2> QED
    BY <2>1, <2>2, <2>3
<1>1. CASE \E s \in doc.subjects : x = s.id
  <2>1. PICK s \in doc.subjects : x = s.id
    BY <1>1
  <2>2. SubjectUnit(doc, s) \in Atelier!GraphUnits(doc)
    BY SubjectUnitsAre DEF Atelier!GraphUnits
  <2>3. SubjectUnit(doc, s).id = x
    BY <2>1, UnitParts DEF SubjectUnit
  <2> QED
    BY <2>2, <2>3
<1>2. CASE \E s \in doc.surfaces : x = s.id
  <2>1. PICK s \in doc.surfaces : x = s.id
    BY <1>2
  <2> DEFINE u == Atelier!Unit("surface", s.id, {s.subject}, {"exists"})
  <2>2. u \in Atelier!GraphUnits(doc)
    BY DEF Atelier!GraphUnits, Atelier!SurfaceUnits
  <2>3. u.id = x
    BY <2>1, UnitParts
  <2> QED
    BY <2>2, <2>3
<1>3. CASE \E s \in doc.specimens : x = s.id
  <2>1. PICK s \in doc.specimens : x = s.id
    BY <1>3
  <2> DEFINE u == Atelier!Unit("specimen", s.id, {s.subject}, {"run"})
  <2>2. u \in Atelier!GraphUnits(doc)
    BY DEF Atelier!GraphUnits, Atelier!SpecimenUnits
  <2>3. u.id = x
    BY <2>1, UnitParts
  <2> QED
    BY <2>2, <2>3
<1>4. CASE \E i \in DOMAIN doc.features : x = doc.features[i].id
  <2>1. PICK i \in DOMAIN doc.features : x = doc.features[i].id
    BY <1>4
  <2>2. FeatureUnit(doc, doc.features[i]) \in Atelier!GraphUnits(doc)
    BY FeatureUnitsAre DEF Atelier!GraphUnits
  <2>3. FeatureUnit(doc, doc.features[i]).id = x
    BY <2>1, UnitParts DEF FeatureUnit
  <2> QED
    BY <2>2, <2>3
<1>5. CASE \E i \in DOMAIN doc.features : x \in NamedBy(doc, i)
  <2>1. GrammarUnit(doc, x) \in Atelier!GraphUnits(doc)
    BY <1>5, GrammarUnitsAre DEF Atelier!GraphUnits, GrammarIds, NamedBy
  <2>2. GrammarUnit(doc, x).id = x
    BY UnitParts DEF GrammarUnit
  <2> QED
    BY <2>1, <2>2
<1>6. CASE \E r \in doc.routes : x = r.id
  <2>1. PICK r \in doc.routes : x = r.id
    BY <1>6
  <2>2. RouteUnit(r) \in Atelier!GraphUnits(doc)
    BY RouteUnitsAre DEF Atelier!GraphUnits
  <2>3. RouteUnit(r).id = x
    BY <2>1, UnitParts DEF RouteUnit
  <2> QED
    BY <2>2, <2>3
<1> QED
  BY <1>1, <1>2, <1>3, <1>4, <1>5, <1>6, <1>7

(* What a unit relates to is what its record refers to. *)
LEMMA RelatedIsKnown ==
  ASSUME NEW doc, NEW T, doc.features \in Seq(T), RefersWithin(doc), NEW u \in Atelier!GraphUnits(doc)
  PROVE  u.related \subseteq RecordIds(doc) \cup Anchored(doc)
<1> DEFINE known == RecordIds(doc) \cup Anchored(doc)
<1>0. /\ \A e \in doc.edges : e.rel = "contains" => e.from \in known /\ e.to \in known
      /\ \A s \in doc.surfaces \cup doc.specimens : s.subject \in known
      /\ \A i \in DOMAIN doc.features :
           /\ doc.features[i].subject \in known /\ doc.features[i].surfaces \subseteq known
           /\ doc.features[i].specimens \subseteq known
           /\ \A c \in doc.features[i].grammars : c.refs \subseteq known
      /\ \A r \in doc.routes : \A i \in DOMAIN r.steps : r.steps[i].id \in known
  BY DEF RefersWithin
<1>00. ASSUME NEW i \in DOMAIN doc.features
       PROVE  /\ doc.features[i].id \in known /\ doc.features[i].anchors \subseteq known
              /\ \A c \in doc.features[i].grammars : c.id \in known
  <2>1. doc.features[i].id \in RecordIds(doc)
    BY DEF RecordIds, FeatureIds
  <2>2. doc.features[i].anchors \subseteq Anchored(doc)
    BY DEF Anchored
  <2>3. \A c \in doc.features[i].grammars : c.id \in NamedBy(doc, i)
    BY DEF NamedBy
  <2>4. NamedBy(doc, i) \subseteq RecordIds(doc)
    BY DEF RecordIds, GrammarIds
  <2> QED
    BY <2>1, <2>2, <2>3, <2>4
<1> HIDE DEF known
<1>1. CASE u \in Atelier!SubjectUnits(doc)
  <2>1. PICK s \in doc.subjects : u = SubjectUnit(doc, s)
    BY <1>1, SubjectUnitsAre
  <2>2. u.related = Atelier!Containers(doc, s.id) \cup Atelier!Contents(doc, s.id)
    BY <2>1, UnitParts DEF SubjectUnit
  <2>3. Atelier!Containers(doc, s.id) \subseteq known /\ Atelier!Contents(doc, s.id) \subseteq known
    BY <1>0 DEF Atelier!Containers, Atelier!Contents
  <2> QED
    BY <2>2, <2>3 DEF known
<1>2. CASE u \in Atelier!SurfaceUnits(doc)
  <2>1. PICK s \in doc.surfaces : u = Atelier!Unit("surface", s.id, {s.subject}, {"exists"})
    BY <1>2 DEF Atelier!SurfaceUnits
  <2>2. u.related = {s.subject}
    BY <2>1, UnitParts
  <2> QED
    BY <1>0, <2>2 DEF known
<1>3. CASE u \in Atelier!SpecimenUnits(doc)
  <2>1. PICK s \in doc.specimens : u = Atelier!Unit("specimen", s.id, {s.subject}, {"run"})
    BY <1>3 DEF Atelier!SpecimenUnits
  <2>2. u.related = {s.subject}
    BY <2>1, UnitParts
  <2> QED
    BY <1>0, <2>2 DEF known
<1>4. CASE u \in Atelier!FeatureUnits(doc)
  <2>1. PICK i \in DOMAIN doc.features : u = FeatureUnit(doc, doc.features[i])
    BY <1>4, FeatureUnitsAre
  <2> DEFINE f == doc.features[i]
  <2>2. u.related = {f.subject} \cup f.anchors \cup f.surfaces \cup f.specimens \cup {g.id : g \in f.grammars}
    BY <2>1, UnitParts DEF FeatureUnit
  <2>3. /\ f.subject \in known /\ f.anchors \subseteq known
        /\ f.surfaces \subseteq known /\ f.specimens \subseteq known
        /\ \A g \in f.grammars : g.id \in known
    BY <1>0, <1>00
  <2> HIDE DEF f
  <2> QED
    BY <2>2, <2>3 DEF known
<1>5. CASE u \in Atelier!GrammarUnits(doc)
  <2>1. PICK i \in DOMAIN doc.features : \E c \in doc.features[i].grammars : u = GrammarUnit(doc, c.id)
    BY <1>5, GrammarUnitsAre DEF GrammarIds, NamedBy
  <2>2. PICK c \in doc.features[i].grammars : u = GrammarUnit(doc, c.id)
    BY <2>1
  <2>3. u.related = {doc.features[FirstNaming(doc, c.id)].id} \cup ContractOf(doc, c.id).refs
    BY <2>2, UnitParts DEF GrammarUnit
  <2>4. /\ FirstNaming(doc, c.id) \in DOMAIN doc.features
        /\ ContractOf(doc, c.id) \in doc.features[FirstNaming(doc, c.id)].grammars
    BY NamedByFeature
  <2>5. doc.features[FirstNaming(doc, c.id)].id \in known /\ ContractOf(doc, c.id).refs \subseteq known
    BY <1>0, <1>00, <2>4
  <2> QED
    BY <2>3, <2>5 DEF known
<1>6. CASE u \in Atelier!RouteUnits(doc)
  <2>1. PICK r \in doc.routes : u = RouteUnit(r)
    BY <1>6, RouteUnitsAre
  <2>2. u.related = {s.id : s \in Atelier!ToSet(r.steps)}
    BY <2>1, UnitParts DEF RouteUnit
  <2>3. \A s \in Atelier!ToSet(r.steps) : s.id \in known
    BY <1>0 DEF Atelier!ToSet
  <2> QED
    BY <2>2, <2>3 DEF known
<1> QED
  BY <1>1, <1>2, <1>3, <1>4, <1>5, <1>6 DEF Atelier!GraphUnits

(* A unit that is a feature's is made of a feature. *)
LEMMA FeatureKind ==
  ASSUME NEW doc, NEW u \in Atelier!GraphUnits(doc), u.kind = "feature"
  PROVE  u \in Atelier!FeatureUnits(doc)
<1>1. u \notin Atelier!SubjectUnits(doc)
  <2>1. ASSUME NEW s \in doc.subjects PROVE SubjectUnit(doc, s).kind # "feature"
    <3>1. SubjectKind(s) # "feature"
      BY DEF SubjectKind
    <3>2. SubjectUnit(doc, s).kind = SubjectKind(s)
      BY UnitParts DEF SubjectUnit
    <3> QED
      BY <3>1, <3>2
  <2> QED
    BY <2>1, SubjectUnitsAre
<1>2. u \notin Atelier!SurfaceUnits(doc)
  <2>1. \A s \in doc.surfaces : Atelier!Unit("surface", s.id, {s.subject}, {"exists"}).kind = "surface"
    BY UnitParts
  <2> QED
    BY <2>1 DEF Atelier!SurfaceUnits
<1>3. u \notin Atelier!SpecimenUnits(doc)
  <2>1. \A s \in doc.specimens : Atelier!Unit("specimen", s.id, {s.subject}, {"run"}).kind = "specimen"
    BY UnitParts
  <2> QED
    BY <2>1 DEF Atelier!SpecimenUnits
<1>4. u \notin Atelier!GrammarUnits(doc)
  <2>1. \A g : GrammarUnit(doc, g).kind = "grammar"
    BY UnitParts DEF GrammarUnit
  <2> QED
    BY <2>1, GrammarUnitsAre
<1>5. u \notin Atelier!RouteUnits(doc)
  <2>1. \A r : RouteUnit(r).kind = "route"
    BY UnitParts DEF RouteUnit
  <2> QED
    BY <2>1, RouteUnitsAre
<1> QED
  BY <1>1, <1>2, <1>3, <1>4, <1>5 DEF Atelier!GraphUnits

(* collect_index_graph_units, for any index whose records refer to its records and anchors: what
   a unit relates to is a unit or an anchor, packages and what they hold name each other, a
   feature that runs has a runnable specimen, and a grammar and a feature name each other. *)
THEOREM ConnectedUnits ==
  ASSUME NEW doc, NEW T, doc.features \in Seq(T), RefersWithin(doc)
  PROVE  Atelier!GraphUnitsConnect(doc)
<1> DEFINE units == Atelier!GraphUnits(doc)
           ids == {u.id : u \in units}
           anchors == UNION {f.anchors : f \in Atelier!ToSet(doc.features)}
<1>1. ASSUME NEW u \in units PROVE u.related \subseteq ids \cup anchors
  <2>1. RecordIds(doc) \subseteq ids
    BY RecordsHaveUnits
  <2>2. Anchored(doc) \subseteq anchors
    BY FeaturesAre DEF Anchored
  <2>3. u.related \subseteq RecordIds(doc) \cup Anchored(doc)
    BY RelatedIsKnown
  <2> HIDE DEF ids, anchors
  <2> QED
    BY <2>1, <2>2, <2>3
<1>2. ASSUME NEW u \in Atelier!SubjectUnits(doc), NEW v \in Atelier!SubjectUnits(doc)
      PROVE  v.id \in u.related <=> u.id \in v.related
  <2>1. PICK s \in doc.subjects : u = SubjectUnit(doc, s)
    BY SubjectUnitsAre
  <2>2. PICK t \in doc.subjects : v = SubjectUnit(doc, t)
    BY SubjectUnitsAre
  <2>3. u.id = s.id /\ u.related = Atelier!Containers(doc, s.id) \cup Atelier!Contents(doc, s.id)
    BY <2>1, UnitParts DEF SubjectUnit
  <2>4. v.id = t.id /\ v.related = Atelier!Containers(doc, t.id) \cup Atelier!Contents(doc, t.id)
    BY <2>2, UnitParts DEF SubjectUnit
  <2>5. \A x, y : x \in Atelier!Containers(doc, y) <=> y \in Atelier!Contents(doc, x)
    BY DEF Atelier!Containers, Atelier!Contents
  <2> QED
    BY <2>3, <2>4, <2>5
<1>3. ASSUME NEW u \in units, u.kind = "feature", "run" \in u.panels
      PROVE  \E s \in doc.specimens : s.runnable /\ s.id \in u.related
  <2>1. PICK i \in DOMAIN doc.features : u = FeatureUnit(doc, doc.features[i])
    BY <1>3, FeatureKind, FeatureUnitsAre
  <2> DEFINE f == doc.features[i]
  <2>2. /\ u.panels = {"exists"} \cup (IF Atelier!Runs(doc, f) THEN {"run"} ELSE {})
        /\ f.specimens \subseteq u.related
    BY <2>1, UnitParts DEF FeatureUnit
  <2> HIDE DEF f
  <2>3. Atelier!Runs(doc, f)
    BY <1>3, <2>2
  <2> QED
    BY <2>2, <2>3 DEF Atelier!Runs
<1>4. ASSUME NEW g \in Atelier!GrammarUnits(doc)
      PROVE  \E u \in units : u.kind = "feature" /\ u.id \in g.related /\ g.id \in u.related
  <2>1. PICK i \in DOMAIN doc.features : \E c \in doc.features[i].grammars : g = GrammarUnit(doc, c.id)
    BY GrammarUnitsAre DEF GrammarIds, NamedBy
  <2>2. PICK c \in doc.features[i].grammars : g = GrammarUnit(doc, c.id)
    BY <2>1
  <2> DEFINE n == FirstNaming(doc, c.id)
             u == FeatureUnit(doc, doc.features[n])
  <2>3. /\ n \in DOMAIN doc.features /\ ContractOf(doc, c.id).id = c.id
        /\ ContractOf(doc, c.id) \in doc.features[n].grammars
    BY NamedByFeature
  <2>4. g.id = c.id /\ doc.features[n].id \in g.related
    BY <2>2, UnitParts DEF GrammarUnit
  <2> HIDE DEF n
  <2>5. u \in units
    BY <2>3, FeatureUnitsAre DEF Atelier!GraphUnits
  <2>6. u.kind = "feature" /\ u.id = doc.features[n].id /\ {d.id :
          d \in doc.features[n].grammars} \subseteq u.related
    BY UnitParts DEF FeatureUnit
  <2>7. c.id \in u.related
    BY <2>3, <2>6
  <2> HIDE DEF u
  <2> QED
    BY <2>4, <2>5, <2>6, <2>7
<1> HIDE DEF units
<1>5. /\ \A u \in units : u.related \subseteq ids \cup anchors
      /\ \A u \in {v \in units : v.kind = "feature"} : "run" \in u.panels => \E s \in doc.specimens :
           s.runnable /\ s.id \in u.related
      /\ \A g \in Atelier!GrammarUnits(doc) : \E u \in {v \in units : v.kind = "feature"} :
           u.id \in g.related /\ g.id \in u.related
  BY <1>1, <1>3, <1>4
<1> QED
  BY <1>2, <1>5 DEF Atelier!GraphUnitsConnect, units
=============================================================================
