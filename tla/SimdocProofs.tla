----------------------------- MODULE SimdocProofs -----------------------------
(***************************************************************************)
(* Proofs about Simdoc, for any runs, sources and number of edits; about   *)
(* the index that is made beside it: fragments and their overlay, for any  *)
(* documents, the merge, for any fragments, and the gate on overlap, for   *)
(* any documents, sources and exceptions; and about what a documentation   *)
(* run reads and writes: the shared resolver, of any farm, and the writer, *)
(* in any tree.                                                            *)
(***************************************************************************)
EXTENDS Simdoc, IndexFragment, IndexMerge, IndexOverlap, ResolverInput,
        FiniteSetTheorems, SequenceTheorems, TLAPS

-----------------------------------------------------------------------------
(* The invariant. *)

(* What a lane may hold, or a run may have in mind for it. *)
Contents == Recipes \cup Packages \cup Contracts \cup {Nothing, Torn, Reuse}

States == [ids : Recipes, digests : [CardLanes -> Contents]]

Minds ==
  [print : Sources \cup {Nothing}, names : Packages \cup {Nothing},
   first : Sources \cup {Nothing}, hash : Sources \cup {Nothing}, second : Sources \cup {Nothing},
   cards : Recipes \cup {Nothing}, state : States \cup {Nothing},
   plan : [1..3 -> Contents], next : 1..3]

Steps ==
  {"start", "docs", "catalog", "sync_catalogs", "project", "measure", "fragment", "confirm",
   "spine", "plan", "lanes", "persist", "done", "failed"}

Types ==
  /\ source \in Sources
  /\ lane \in [Lanes -> Contents]
  /\ state \in States \cup {Nothing, Torn}
  /\ check \in [Runs -> BOOLEAN]
  /\ pc \in [Runs -> Steps]
  /\ had \in [Runs -> Minds]
  /\ meddled \in BOOLEAN

AfterCatalogs == {"project", "measure", "fragment", "confirm", "spine", "plan", "lanes", "persist"}
AfterManifest == AfterCatalogs \cup {"sync_catalogs"}

(* Run r has planned, and written or checked, the lane at place i of Order. *)
Planned(r, i) == pc[r] \in {"lanes", "persist"} \/ (pc[r] = "plan" /\ i < had[r].next)
Settled(r, i) == pc[r] = "persist" \/ (pc[r] = "lanes" /\ i < had[r].next)

(* What a run has read, and which lanes it may pass over. *)
Prepared(r) ==
  /\ pc[r] \notin {"plan", "lanes", "done", "failed"} => had[r].next = 1
  /\ pc[r] \in {"sync_catalogs", "project", "measure", "fragment", "confirm"} =>
       had[r].names \in Packages
  /\ pc[r] \in {"measure", "fragment", "confirm", "spine", "plan"} => had[r].first \in Sources
  /\ pc[r] \in {"fragment", "confirm", "spine", "plan"} => had[r].hash \in Sources
  /\ pc[r] \in {"confirm", "spine", "plan"} => had[r].second \in Sources
  /\ pc[r] \in {"plan", "lanes", "persist"} => had[r].cards \in Recipes
  /\ pc[r] = "plan" /\ check[r] => had[r].state = Nothing
  /\ pc[r] \in {"lanes", "persist"} => had[r].plan[3] # Reuse
  /\ \A i \in {1, 2} : Planned(r, i) =>
       had[r].plan[i] = had[r].cards \/ (had[r].plan[i] = Reuse /\ ~check[r])

(* As long as nobody meddles, a state vouches for what is so, and a lane that is passed
   over holds the cards. *)
Vouched ==
  ~meddled /\ state \notin {Nothing, Torn} =>
    \A l \in CardLanes : state.digests[l] = state.ids

Trusted(r) ==
  ~meddled =>
    /\ pc[r] = "plan" /\ had[r].state # Nothing =>
         \A l \in CardLanes : had[r].state.digests[l] = had[r].state.ids
    /\ \A i \in {1, 2} :
         Planned(r, i) /\ had[r].plan[i] = Reuse => lane[Order[i]] = had[r].cards

(* A run that nobody crosses has read the sources as they are, and its lanes are theirs. *)
Seen(r) ==
  /\ pc[r] \in AfterManifest => source.described
  /\ pc[r] \in {"sync_catalogs", "project", "measure", "fragment", "confirm"} =>
       had[r].names = source.packages
  /\ pc[r] \in AfterCatalogs => lane["catalog"] = source.packages
  /\ pc[r] \in {"measure", "fragment", "confirm", "spine", "plan"} => had[r].first = source
  /\ pc[r] \in {"fragment", "confirm", "spine", "plan"} => had[r].hash = source
  /\ pc[r] \in {"confirm", "spine", "plan"} => had[r].second = source
  /\ pc[r] \in {"plan", "lanes", "persist"} => had[r].cards = source.recipes
  /\ pc[r] \in {"lanes", "persist"} => had[r].plan[3] = Contract(source)

Renewed(r) ==
  check[r] \/ ~meddled =>
    \A i \in 1..3 : Settled(r, i) => lane[Order[i]] = Encoded(Order[i], source)

RunInv(r) ==
  /\ Prepared(r)
  /\ Trusted(r)
  /\ r \notin crossed => Seen(r) /\ Renewed(r)

Inductive == Types /\ Vouched /\ \A r \in Runs : RunInv(r)

-----------------------------------------------------------------------------
(* The files of a run, in order. *)

LEMMA OrderOfLanes ==
  /\ DOMAIN Order = 1..3 /\ Len(Order) = 3
  /\ Order[1] = "cards" /\ Order[2] = "index" /\ Order[3] = "contract"
  /\ (CHOOSE i \in DOMAIN Order : Order[i] = "cards") = 1
  /\ (CHOOSE i \in DOMAIN Order : Order[i] = "index") = 2
<1>1. /\ DOMAIN Order = 1..3 /\ Len(Order) = 3
      /\ Order[1] = "cards" /\ Order[2] = "index" /\ Order[3] = "contract"
  BY DEF Order
<1>2. \A i \in 1..3 : i = 1 \/ i = 2 \/ i = 3
  OBVIOUS
<1> QED
  BY <1>1, <1>2

-----------------------------------------------------------------------------
(* Frames. *)

(* A run keeps what it knows when others change files, for then it is crossed. *)
LEMMA OthersKeep ==
  ASSUME Inductive, NEW q \in Runs,
         pc'[q] = pc[q], had'[q] = had[q], check' = check,
         q \in crossed => q \in crossed',
         meddled => meddled',
         lane' = lane \/ (Live(q) => q \in crossed' /\ meddled'),
         source' = source \/ (Live(q) => q \in crossed')
  PROVE  RunInv(q)'
<1>1. RunInv(q) /\ meddled \in BOOLEAN
  BY DEF Inductive, Types
<1>2. Prepared(q)'
  BY <1>1 DEF RunInv, Prepared, Planned
<1>3. Trusted(q)'
  BY <1>1 DEF RunInv, Trusted, Planned, Live
<1>4. q \notin crossed' => Seen(q)'
  BY <1>1 DEF RunInv, Seen, Live, AfterManifest, AfterCatalogs, Contract
<1>5. q \notin crossed' => Renewed(q)'
  BY <1>1 DEF RunInv, Renewed, Settled, Live, Encoded, Contract
<1> QED
  BY <1>2, <1>3, <1>4, <1>5 DEF RunInv

(* A step that only reads. *)
LEMMA ReadFrame ==
  ASSUME Inductive, NEW r \in Runs, NEW step \in Steps, NEW mind,
         mind \in Minds, Keep(r, mind), pc' = [pc EXCEPT ![r] = step], ReadsOnly
  PROVE  /\ Types' /\ Vouched'
         /\ \A q \in Runs \ {r} : RunInv(q)'
         /\ pc'[r] = step /\ had'[r] = mind
<1>1. Types'
  BY DEF Inductive, Types, Keep, ReadsOnly
<1>2. Vouched'
  BY DEF Inductive, Vouched, ReadsOnly
<1>3. ASSUME NEW q \in Runs \ {r} PROVE RunInv(q)'
  <2>1. pc'[q] = pc[q] /\ had'[q] = had[q]
    BY <1>3 DEF Inductive, Types, Keep
  <2> QED
    BY <2>1, OthersKeep DEF ReadsOnly
<1> QED
  BY <1>1, <1>2, <1>3 DEF Inductive, Types, Keep

(* Before it plans a run knows no more than what it has read. *)
LEMMA EarlyFrame ==
  ASSUME NEW r \in Runs, Prepared(r)', Seen(r)' \/ r \in crossed',
         pc'[r] \notin {"plan", "lanes", "persist"}
  PROVE  RunInv(r)'
BY DEF RunInv, Trusted, Renewed, Planned, Settled

(* A run that has ended knows nothing. *)
LEMMA EndFrame ==
  ASSUME NEW r \in Runs, pc'[r] \in {"done", "failed"}
  PROVE  RunInv(r)'
BY DEF RunInv, Prepared, Seen, Trusted, Renewed, Planned, Settled, AfterManifest, AfterCatalogs

-----------------------------------------------------------------------------
(* Each step keeps the invariant. *)

LEMMA InitInductive == Init => Inductive
<1> SUFFICES ASSUME Init PROVE Inductive
  OBVIOUS
<1>1. Blank \in Minds
  <2>1. <<Nothing, Nothing, Nothing>> \in [1..3 -> Contents]
    BY DEF Contents
  <2> QED
    BY <2>1 DEF Blank, Minds
<1>2. lane \in [Lanes -> Contents]
  <2>1. ASSUME NEW l \in Lanes PROVE Encoded(l, source) \in Contents
    BY DEF Init, Encoded, Contract, Contents, Sources, Contracts, Lanes, CardLanes
  <2> QED
    BY <2>1 DEF Init, Contents
<1>3. state \in States \cup {Nothing} /\ Vouched
  <2>1. CASE state = Nothing
    BY <2>1 DEF Vouched
  <2>2. ASSUME NEW c \in Recipes, state = StateOf(c, [l \in CardLanes |-> c])
        PROVE  state \in States \cup {Nothing} /\ Vouched
    BY <2>2 DEF Vouched, StateOf, States, Contents
  <2> QED
    BY <2>1, <2>2 DEF Init
<1>4. Types
  BY <1>1, <1>2, <1>3 DEF Init, Types, Steps
<1>5. ASSUME NEW r \in Runs PROVE RunInv(r)
  BY DEF Init, Blank, RunInv, Prepared, Trusted, Seen, Renewed, Planned, Settled, AfterManifest,
         AfterCatalogs
<1> QED
  BY <1>3, <1>4, <1>5 DEF Inductive

LEMMA FailStep == ASSUME Inductive, NEW r \in Runs, Fail(r) PROVE Inductive'
<1>1. /\ pc' = [pc EXCEPT ![r] = "failed"]
      /\ had' = [had EXCEPT ![r] = Blank] /\ crossed' = crossed \ {r}
      /\ UNCHANGED <<source, lane, state, check, meddled>>
  BY DEF Fail, Goto, Forget, Keep
<1>2. Blank \in Minds
  <2>1. <<Nothing, Nothing, Nothing>> \in [1..3 -> Contents]
    BY DEF Contents
  <2> QED
    BY <2>1 DEF Blank, Minds
<1>3. Types' /\ Vouched'
  BY <1>1, <1>2 DEF Inductive, Types, Steps, Vouched
<1>4. RunInv(r)'
  BY <1>1, EndFrame DEF Inductive, Types
<1>5. ASSUME NEW q \in Runs \ {r} PROVE RunInv(q)'
  BY <1>1, OthersKeep DEF Inductive, Types
<1> QED
  BY <1>3, <1>4, <1>5 DEF Inductive

LEMMA FingerprintStep == ASSUME Inductive, NEW r \in Runs, Fingerprint(r) PROVE Inductive'
<1> DEFINE mind == [had[r] EXCEPT !.print = source]
<1>1. mind \in Minds /\ mind.next = had[r].next
  BY DEF Inductive, Types, Minds
<1>2. PICK step \in {"docs", "catalog"} : pc' = [pc EXCEPT ![r] = step]
  BY DEF Fingerprint, Goto
<1>3. Keep(r, mind) /\ ReadsOnly /\ pc[r] = "start"
  BY DEF Fingerprint
<1> HIDE DEF mind
<1>4. /\ Types' /\ Vouched' /\ pc'[r] = step /\ had'[r] = mind
      /\ \A q \in Runs \ {r} : RunInv(q)'
  BY <1>1, <1>2, <1>3, ReadFrame DEF Steps
<1>5. Prepared(r)' /\ Seen(r)'
  BY <1>1, <1>3, <1>4
  DEF Inductive, RunInv, Prepared, Seen, Planned, AfterManifest, AfterCatalogs
<1>6. RunInv(r)'
  BY <1>4, <1>5, EarlyFrame
<1> QED
  BY <1>4, <1>6 DEF Inductive

LEMMA BuildDocsStep == ASSUME Inductive, NEW r \in Runs, BuildDocs(r) PROVE Inductive'
<1> DEFINE mind == [had[r] EXCEPT !.print = Nothing]
<1>1. mind \in Minds /\ mind.next = had[r].next
  BY DEF Inductive, Types, Minds
<1>2. /\ pc[r] = "docs" /\ pc' = [pc EXCEPT ![r] = "catalog"] /\ had' = [had EXCEPT ![r] = mind]
      /\ UNCHANGED <<source, lane, state, check, crossed, meddled>>
  BY DEF BuildDocs, Goto, Keep
<1> HIDE DEF mind
<1>3. Types' /\ Vouched' /\ pc'[r] = "catalog" /\ had'[r] = mind
  BY <1>1, <1>2 DEF Inductive, Types, Steps, Vouched
<1>4. RunInv(r)'
  <2>1. Prepared(r)' /\ Seen(r)'
    BY <1>1, <1>2, <1>3
    DEF Inductive, RunInv, Prepared, Seen, Planned, AfterManifest, AfterCatalogs
  <2> QED
    BY <1>3, <2>1, EarlyFrame
<1>5. ASSUME NEW q \in Runs \ {r} PROVE RunInv(q)'
  BY <1>2, OthersKeep DEF Inductive, Types
<1> QED
  BY <1>3, <1>4, <1>5 DEF Inductive

LEMMA SyncManifestStep == ASSUME Inductive, NEW r \in Runs, SyncManifest(r) PROVE Inductive'
<1> DEFINE mind == [had[r] EXCEPT !.names = source.packages]
<1>1. /\ pc[r] = "catalog" /\ source' = [source EXCEPT !.described = TRUE]
      /\ pc' = [pc EXCEPT ![r] = "sync_catalogs"] /\ had' = [had EXCEPT ![r] = mind]
      /\ UNCHANGED <<lane, state, check>>
  BY DEF SyncManifest, Goto, Keep
<1>2. \/ source' = source /\ UNCHANGED <<crossed, meddled>>
      \/ Disturbs(r)
  BY DEF SyncManifest
<1>3. /\ mind \in Minds /\ mind.next = had[r].next
      /\ source' \in Sources /\ mind.names = source'.packages /\ source'.described
  <2>1. source \in Sources /\ had[r] \in Minds
    BY DEF Inductive, Types
  <2>2. source' \in Sources /\ source'.packages = source.packages /\ source'.described
    BY <1>1, <2>1 DEF Sources
  <2>3. mind \in Minds /\ mind.names = source.packages /\ mind.next = had[r].next
    BY <2>1 DEF Minds, Sources
  <2> QED
    BY <2>2, <2>3
<1>4. meddled' \in BOOLEAN /\ (meddled => meddled')
  BY <1>2 DEF Disturbs, Inductive, Types
<1>5. Types' /\ Vouched' /\ pc'[r] = "sync_catalogs" /\ had'[r] = mind
  BY <1>1, <1>3, <1>4 DEF Inductive, Types, Steps, Vouched
<1>6. RunInv(r)'
  <2>1. source'.packages \in Packages
    BY <1>3 DEF Sources
  <2>2. Prepared(r)'
    BY <1>1, <1>3, <1>5, <2>1 DEF Inductive, RunInv, Prepared, Planned
  <2>3. Seen(r)'
    BY <1>3, <1>5 DEF Seen, AfterManifest, AfterCatalogs
  <2> QED
    BY <1>5, <2>2, <2>3, EarlyFrame
<1>7. ASSUME NEW q \in Runs \ {r} PROVE RunInv(q)'
  BY <1>1, <1>2, <1>4, OthersKeep DEF Inductive, Types, Disturbs, Others
<1> QED
  BY <1>5, <1>6, <1>7 DEF Inductive

LEMMA SyncCatalogsStep == ASSUME Inductive, NEW r \in Runs, SyncCatalogs(r) PROVE Inductive'
<1>1. /\ pc[r] = "sync_catalogs" /\ lane' = [lane EXCEPT !["catalog"] = had[r].names]
      /\ pc' = [pc EXCEPT ![r] = "project"]
      /\ UNCHANGED <<source, state, check, had>>
  BY DEF SyncCatalogs, Goto
<1>2. \/ lane' = lane /\ UNCHANGED <<crossed, meddled>>
      \/ Disturbs(r)
  BY DEF SyncCatalogs
<1>3. had[r].names \in Packages /\ (r \notin crossed => had[r].names = source.packages)
  BY <1>1 DEF Inductive, RunInv, Prepared, Seen
<1>4. meddled' \in BOOLEAN /\ (meddled => meddled')
  BY <1>2 DEF Disturbs, Inductive, Types
<1>5. lane' \in [Lanes -> Contents] /\ lane'["catalog"] = had[r].names
  BY <1>1, <1>3 DEF Inductive, Types, Lanes, Contents
<1>6. Types' /\ Vouched' /\ pc'[r] = "project"
  BY <1>1, <1>4, <1>5 DEF Inductive, Types, Steps, Vouched
<1>7. RunInv(r)'
  <2>1. Prepared(r)'
    BY <1>1, <1>3, <1>6 DEF Inductive, RunInv, Prepared, Planned
  <2>2. r \notin crossed' => r \notin crossed
    BY <1>2 DEF Disturbs
  <2>3. r \notin crossed' => Seen(r)'
    BY <1>1, <1>3, <1>5, <1>6, <2>2 DEF Inductive, RunInv, Seen, AfterManifest, AfterCatalogs
  <2> QED
    BY <1>6, <2>1, <2>3, EarlyFrame
<1>8. ASSUME NEW q \in Runs \ {r} PROVE RunInv(q)'
  BY <1>1, <1>2, <1>4, OthersKeep DEF Inductive, Types, Disturbs, Others
<1> QED
  BY <1>6, <1>7, <1>8 DEF Inductive

(* Steps that read the sources once more. *)
LEMMA ReadStep ==
  ASSUME Inductive, NEW r \in Runs, Project(r) \/ Measure(r) \/ Fragment(r)
  PROVE  Inductive'
<1>1. PICK step \in {"measure", "fragment", "confirm"} :
        /\ pc' = [pc EXCEPT ![r] = step]
        /\ step = "measure" => pc[r] = "project" /\ Keep(r, [had[r] EXCEPT !.first = source])
        /\ step = "fragment" => pc[r] = "measure" /\ Keep(r, [had[r] EXCEPT !.hash = source])
        /\ step = "confirm" => pc[r] = "fragment" /\ Keep(r, [had[r] EXCEPT !.second = source])
  BY DEF Project, Measure, Fragment, Goto
<1>2. ReadsOnly
  BY DEF Project, Measure, Fragment
<1>3. source \in Sources /\ had[r] \in Minds
  BY DEF Inductive, Types
<1>4. PICK mind \in Minds :
        /\ Keep(r, mind)
        /\ mind.names = had[r].names /\ mind.next = had[r].next
        /\ step = "measure" => mind.first = source
        /\ step = "fragment" => mind.first = had[r].first /\ mind.hash = source
        /\ step = "confirm" =>
             mind.first = had[r].first /\ mind.hash = had[r].hash /\ mind.second = source
  <2>1. CASE step = "measure"
    <3> DEFINE new == [had[r] EXCEPT !.first = source]
    <3>1. new \in Minds /\ new.next = had[r].next /\ new.names = had[r].names /\ new.first = source
      BY <1>3 DEF Minds
    <3> QED
      BY <1>1, <2>1, <3>1
  <2>2. CASE step = "fragment"
    <3> DEFINE new == [had[r] EXCEPT !.hash = source]
    <3>1. new \in Minds /\ new.next = had[r].next /\ new.names = had[r].names /\ new.first = had[r].first /\ new.hash = source
      BY <1>3 DEF Minds
    <3> QED
      BY <1>1, <2>2, <3>1
  <2>3. CASE step = "confirm"
    <3> DEFINE new == [had[r] EXCEPT !.second = source]
    <3>1. /\ new \in Minds /\ new.next = had[r].next /\ new.names = had[r].names /\ new.first = had[r].first
          /\ new.hash = had[r].hash /\ new.second = source
      BY <1>3 DEF Minds
    <3> QED
      BY <1>1, <2>3, <3>1
  <2> QED
    BY <2>1, <2>2, <2>3
<1>5. /\ Types' /\ Vouched' /\ pc'[r] = step /\ had'[r] = mind
      /\ \A q \in Runs \ {r} : RunInv(q)'
  BY <1>1, <1>2, <1>4, ReadFrame DEF Steps
<1>6. Prepared(r)'
  BY <1>1, <1>3, <1>4, <1>5 DEF Inductive, RunInv, Prepared, Planned
<1>7. Seen(r)' \/ r \in crossed'
  BY <1>1, <1>2, <1>4, <1>5
  DEF ReadsOnly, Inductive, RunInv, Seen, AfterManifest, AfterCatalogs
<1>8. RunInv(r)'
  BY <1>5, <1>6, <1>7, EarlyFrame
<1> QED
  BY <1>5, <1>8 DEF Inductive

LEMMA ConfirmStep == ASSUME Inductive, NEW r \in Runs, Confirm(r) PROVE Inductive'
<1> DEFINE mind == [had[r] EXCEPT !.names = Nothing]
<1>1. pc[r] = "confirm" /\ pc' = [pc EXCEPT ![r] = "spine"] /\ Keep(r, mind) /\ ReadsOnly
  BY DEF Confirm, Goto
<1>2. /\ mind \in Minds /\ mind.first = had[r].first /\ mind.hash = had[r].hash
      /\ mind.second = had[r].second /\ mind.next = had[r].next
  <2>1. had[r] \in Minds
    BY DEF Inductive, Types
  <2> QED
    BY <2>1 DEF Minds
<1> HIDE DEF mind
<1>3. /\ Types' /\ Vouched' /\ pc'[r] = "spine" /\ had'[r] = mind
      /\ \A q \in Runs \ {r} : RunInv(q)'
  BY <1>1, <1>2, ReadFrame DEF Steps
<1>4. Prepared(r)'
  BY <1>1, <1>2, <1>3 DEF Inductive, RunInv, Prepared, Planned
<1>5. Seen(r)' \/ r \in crossed'
  BY <1>1, <1>2, <1>3 DEF ReadsOnly, Inductive, RunInv, Seen, AfterManifest, AfterCatalogs
<1>6. RunInv(r)'
  BY <1>3, <1>4, <1>5, EarlyFrame
<1> QED
  BY <1>3, <1>6 DEF Inductive

LEMMA ReadSpineStep == ASSUME Inductive, NEW r \in Runs, ReadSpine(r) PROVE Inductive'
<1> DEFINE mind == [had[r] EXCEPT !.cards = source.recipes, !.state = KnownState(r)]
<1>1. pc[r] = "spine" /\ pc' = [pc EXCEPT ![r] = "plan"] /\ Keep(r, mind) /\ ReadsOnly
  BY DEF ReadSpine, Goto
<1>2. KnownState(r) \in States \cup {Nothing} /\ (KnownState(r) # Nothing => KnownState(r) = state)
  BY DEF KnownState, Inductive, Types
<1>3. KnownState(r) # Nothing => state \notin {Nothing, Torn} /\ ~check[r]
  BY <1>2 DEF KnownState
<1>4. /\ mind \in Minds /\ mind.first = had[r].first /\ mind.hash = had[r].hash
      /\ mind.second = had[r].second /\ mind.cards = source.recipes /\ mind.state = KnownState(r)
      /\ mind.next = had[r].next
  <2>1. had[r] \in Minds /\ source.recipes \in Recipes
    BY DEF Inductive, Types, Sources
  <2> QED
    BY <1>2, <2>1 DEF Minds
<1> HIDE DEF mind
<1>5. /\ Types' /\ Vouched' /\ pc'[r] = "plan" /\ had'[r] = mind
      /\ \A q \in Runs \ {r} : RunInv(q)'
  <2>1. "plan" \in Steps
    BY DEF Steps
  <2>2. Keep(r, mind) /\ ReadsOnly /\ mind \in Minds /\ pc' = [pc EXCEPT ![r] = "plan"]
    BY <1>1, <1>4
  <2> QED
    BY <2>1, <2>2, ReadFrame
<1>6. mind.next = 1 /\ ~(\E i \in {1, 2} : i < mind.next)
  BY <1>1, <1>4 DEF Inductive, RunInv, Prepared
<1>7. Prepared(r)'
  <2>1. ~\E i \in {1, 2} : Planned(r, i)'
    BY <1>5, <1>6 DEF Planned
  <2>2. source.recipes \in Recipes
    BY DEF Inductive, Types, Sources
  <2> QED
    BY <1>1, <1>3, <1>4, <1>5, <2>1, <2>2 DEF Inductive, RunInv, Prepared, ReadsOnly
<1>8. Trusted(r)'
  <2>1. ~\E i \in {1, 2} : Planned(r, i)'
    BY <1>5, <1>6 DEF Planned
  <2>2. ~meddled /\ KnownState(r) # Nothing =>
          \A l \in CardLanes : KnownState(r).digests[l] = KnownState(r).ids
    BY <1>2, <1>3 DEF Inductive, Vouched
  <2> QED
    BY <1>1, <1>4, <1>5, <2>1, <2>2 DEF Trusted, ReadsOnly
<1>9. Seen(r)' \/ r \in crossed'
  BY <1>1, <1>4, <1>5 DEF ReadsOnly, Inductive, RunInv, Seen, AfterManifest, AfterCatalogs
<1>10. Renewed(r)'
  BY <1>5 DEF Renewed, Settled
<1> QED
  BY <1>5, <1>7, <1>8, <1>9, <1>10 DEF Inductive, RunInv

Planning(m, plan, first, hash, second, known, next) ==
  [m EXCEPT !.plan = plan, !.first = first, !.hash = hash, !.second = second,
            !.state = known, !.next = next]

LEMMA PlanningIsMind ==
  ASSUME NEW m \in Minds, NEW plan \in [1..3 -> Contents], NEW next \in 1..3,
         NEW first \in Sources \cup {Nothing}, NEW hash \in Sources \cup {Nothing},
         NEW second \in Sources \cup {Nothing}, NEW known \in States \cup {Nothing}
  PROVE  Planning(m, plan, first, hash, second, known, next) \in Minds
BY DEF Minds, Planning

(* What a run decides for the next lane. *)
LEMMA PlanFacts ==
  ASSUME Inductive, NEW r \in Runs, Plan(r)
  PROVE  \E v \in Contents, mind \in Minds :
           /\ Keep(r, mind)
           /\ mind.plan = [had[r].plan EXCEPT ![had[r].next] = v]
           /\ mind.cards = had[r].cards
           /\ IF had[r].next < 3
                THEN /\ mind.first = had[r].first /\ mind.hash = had[r].hash
                     /\ mind.second = had[r].second /\ mind.state = had[r].state
                     /\ mind.next = had[r].next + 1
                     /\ pc' = pc
                ELSE mind.next = 1 /\ pc' = [pc EXCEPT ![r] = "lanes"]
           /\ had[r].next \in {1, 2} =>
                \/ v = had[r].cards
                \/ /\ v = Reuse /\ had[r].state # Nothing
                   /\ had[r].state.ids = had[r].cards
                   /\ lane[Order[had[r].next]] = had[r].state.digests[Order[had[r].next]]
           /\ had[r].next = 3 =>
                /\ v # Reuse
                /\ v = [first |-> had[r].first, hash |-> had[r].hash, second |-> had[r].second]
<1> DEFINE n == had[r].next
           l == Order[n]
           content == IF l = "contract"
                      THEN [first |-> had[r].first, hash |-> had[r].hash, second |-> had[r].second]
                      ELSE had[r].cards
           v == IF Reusable(r, l) THEN Reuse ELSE content
           mind == [had[r] EXCEPT
                      !.plan[n] = v,
                      !.first = IF n < 3 THEN @ ELSE Nothing,
                      !.hash = IF n < 3 THEN @ ELSE Nothing,
                      !.second = IF n < 3 THEN @ ELSE Nothing,
                      !.state = IF n < 3 THEN @ ELSE Nothing,
                      !.next = IF n < 3 THEN @ + 1 ELSE 1]
<1>1. had[r] \in Minds /\ n \in 1..3 /\ pc[r] = "plan"
  BY DEF Inductive, Types, Minds, Plan
<1>2. /\ had[r].first \in Sources /\ had[r].hash \in Sources /\ had[r].second \in Sources
      /\ had[r].cards \in Recipes
  BY <1>1 DEF Inductive, RunInv, Prepared
<1>3. Keep(r, mind) /\ (IF n < 3 THEN pc' = pc ELSE pc' = [pc EXCEPT ![r] = "lanes"])
  BY OrderOfLanes DEF Plan, Goto
<1>4. content \in Recipes \cup Contracts
  BY <1>2 DEF Contracts
<1>5. v \in Contents
  BY <1>4 DEF Contents
<1>6. n \in {1, 2} => l \in CardLanes /\ l # "contract"
  BY OrderOfLanes DEF CardLanes
<1>7. n = 3 => l = "contract" /\ l \notin CardLanes
  BY OrderOfLanes DEF CardLanes
<1>8. n \in {1, 2} =>
        \/ v = had[r].cards
        \/ /\ v = Reuse /\ had[r].state # Nothing
           /\ had[r].state.ids = had[r].cards
           /\ lane[l] = had[r].state.digests[l]
  BY <1>6 DEF Reusable
<1>9. n = 3 =>
        /\ v # Reuse
        /\ v = [first |-> had[r].first, hash |-> had[r].hash, second |-> had[r].second]
  <2>1. Reuse \notin Contracts
    BY SimdocAssumption
  <2>2. n = 3 => v = [first |-> had[r].first, hash |-> had[r].hash, second |-> had[r].second]
    BY <1>7 DEF Reusable
  <2>3. [first |-> had[r].first, hash |-> had[r].hash, second |-> had[r].second] \in Contracts
    BY <1>2 DEF Contracts
  <2> QED
    BY <2>1, <2>2, <2>3
<1> HIDE DEF v
<1>10. /\ mind \in Minds /\ mind.cards = had[r].cards
       /\ mind.plan = [had[r].plan EXCEPT ![n] = v]
       /\ IF n < 3
            THEN /\ mind.first = had[r].first /\ mind.hash = had[r].hash
                 /\ mind.second = had[r].second /\ mind.state = had[r].state
                 /\ mind.next = n + 1
            ELSE mind.next = 1
  <2> DEFINE plan == [had[r].plan EXCEPT ![n] = v]
             m == had[r]
  <2>1. m \in Minds /\ plan \in [1..3 -> Contents] /\ n + 1 \in Nat /\ (n < 3 => n + 1 \in 1..3)
    BY <1>1, <1>5 DEF Minds
  <2>2. mind = [m EXCEPT !.plan = plan,
                         !.first = IF n < 3 THEN @ ELSE Nothing,
                         !.hash = IF n < 3 THEN @ ELSE Nothing,
                         !.second = IF n < 3 THEN @ ELSE Nothing,
                         !.state = IF n < 3 THEN @ ELSE Nothing,
                         !.next = IF n < 3 THEN @ + 1 ELSE 1]
    OBVIOUS
  <2>3. CASE n < 3
    <3>1. /\ mind.first = m.first /\ mind.hash = m.hash /\ mind.second = m.second
          /\ mind.state = m.state /\ mind.next = n + 1 /\ mind.cards = m.cards
          /\ mind.plan = plan
      <4> HIDE DEF plan, m
      <4> QED
        BY <2>1, <2>2, <2>3 DEF Minds
    <3>2. mind = Planning(m, plan, m.first, m.hash, m.second, m.state, n + 1)
      BY <2>3 DEF Planning
    <3>3. mind \in Minds
      <4>1. /\ m.first \in Sources \cup {Nothing} /\ m.hash \in Sources \cup {Nothing}
            /\ m.second \in Sources \cup {Nothing} /\ m.state \in States \cup {Nothing}
        BY <1>1 DEF Minds
      <4> HIDE DEF plan, m, mind, n
      <4> QED
        BY <2>1, <2>3, <3>2, <4>1, PlanningIsMind
    <3> QED
      BY <2>3, <3>1, <3>3
  <2>4. CASE ~(n < 3)
    <3>1. mind.next = 1 /\ mind.cards = m.cards /\ mind.plan = plan
      <4> HIDE DEF plan, m
      <4> QED
        BY <2>1, <2>2, <2>4 DEF Minds
    <3>2. mind = Planning(m, plan, Nothing, Nothing, Nothing, Nothing, 1)
      BY <2>4 DEF Planning
    <3>3. mind \in Minds
      <4>1. /\ Nothing \in Sources \cup {Nothing} /\ Nothing \in States \cup {Nothing}
            /\ 1 \in 1..3
        OBVIOUS
      <4> HIDE DEF plan, m, mind, n
      <4> QED
        BY <2>1, <2>4, <3>2, <4>1, PlanningIsMind
    <3> QED
      BY <2>4, <3>1, <3>3
  <2> QED
    BY <2>3, <2>4
<1> HIDE DEF mind
<1> QED
  BY <1>3, <1>5, <1>8, <1>9, <1>10

LEMMA PlanStep == ASSUME Inductive, NEW r \in Runs, Plan(r) PROVE Inductive'
<1> DEFINE n == had[r].next
<1>1. pc[r] = "plan" /\ ReadsOnly /\ n \in 1..3 /\ had[r].plan \in [1..3 -> Contents]
  BY DEF Plan, Inductive, Types, Minds
<1>2. PICK v \in Contents, mind \in Minds :
        /\ Keep(r, mind)
        /\ mind.plan = [had[r].plan EXCEPT ![n] = v]
        /\ mind.cards = had[r].cards
        /\ IF n < 3
             THEN /\ mind.first = had[r].first /\ mind.hash = had[r].hash
                  /\ mind.second = had[r].second /\ mind.state = had[r].state
                  /\ mind.next = n + 1
                  /\ pc' = pc
             ELSE mind.next = 1 /\ pc' = [pc EXCEPT ![r] = "lanes"]
        /\ n \in {1, 2} =>
             \/ v = had[r].cards
             \/ /\ v = Reuse /\ had[r].state # Nothing
                /\ had[r].state.ids = had[r].cards
                /\ lane[Order[n]] = had[r].state.digests[Order[n]]
        /\ n = 3 =>
             /\ v # Reuse
             /\ v = [first |-> had[r].first, hash |-> had[r].hash, second |-> had[r].second]
  BY PlanFacts
<1>3. PICK step \in {"plan", "lanes"} :
        /\ pc' = [pc EXCEPT ![r] = step]
        /\ n < 3 => step = "plan"
        /\ ~(n < 3) => step = "lanes"
  BY <1>1, <1>2 DEF Inductive, Types
<1>4. /\ Types' /\ Vouched' /\ pc'[r] = step /\ had'[r] = mind
      /\ \A q \in Runs \ {r} : RunInv(q)'
  <2>1. /\ Keep(r, mind) /\ pc' = [pc EXCEPT ![r] = step] /\ ReadsOnly
        /\ step \in Steps /\ mind \in Minds
    BY <1>1, <1>2, <1>3 DEF Steps
  <2> QED
    BY <2>1, ReadFrame
<1>5. \A i \in {1, 2} : Planned(r, i)' => i = n \/ (Planned(r, i) /\ i # n)
  BY <1>1, <1>2, <1>3, <1>4 DEF Planned
<1>6. \A i \in 1..3 : i # n => mind.plan[i] = had[r].plan[i]
  BY <1>1, <1>2
<1>7. mind.plan[n] = v
  BY <1>1, <1>2
<1>8. /\ Prepared(r) /\ Trusted(r) /\ (r \notin crossed => Seen(r)) /\ had[r].cards \in Recipes
      /\ meddled' = meddled /\ check' = check /\ crossed' = crossed /\ UNCHANGED <<lane, source>>
  BY <1>1 DEF Inductive, RunInv, Prepared, ReadsOnly
<1>9. ASSUME NEW i \in {1, 2}, Planned(r, i)'
      PROVE  /\ mind.plan[i] = had[r].cards \/ (mind.plan[i] = Reuse /\ ~check[r])
             /\ ~meddled /\ mind.plan[i] = Reuse => lane[Order[i]] = had[r].cards
  <2>1. CASE i = n
    <3>1. /\ check[r] => had[r].state = Nothing
          /\ ~meddled /\ had[r].state # Nothing =>
               \A l \in CardLanes : had[r].state.digests[l] = had[r].state.ids
      BY <1>1, <1>8 DEF Prepared, Trusted
    <3>2. Order[i] \in CardLanes
      BY OrderOfLanes DEF CardLanes
    <3>3. had[r].cards # Reuse
      BY <1>8, SimdocAssumption
    <3> QED
      BY <1>2, <1>7, <2>1, <3>1, <3>2, <3>3
  <2>2. CASE i # n /\ Planned(r, i)
    BY <1>6, <1>8, <2>2 DEF Prepared, Trusted
  <2> QED
    BY <1>5, <1>9, <2>1, <2>2
<1>10. Prepared(r)'
  <2>1. step = "lanes" => mind.plan[3] # Reuse
    BY <1>1, <1>2, <1>3, <1>7
  <2>2. step = "plan" =>
          /\ mind.first \in Sources /\ mind.hash \in Sources /\ mind.second \in Sources
          /\ (check[r] => mind.state = Nothing)
    BY <1>1, <1>2, <1>3, <1>8 DEF Prepared
  <2> QED
    BY <1>2, <1>3, <1>4, <1>8, <1>9, <2>1, <2>2 DEF Prepared
<1>11. Trusted(r)'
  <2>1. step = "plan" => mind.state = had[r].state
    BY <1>1, <1>2, <1>3
  <2> QED
    BY <1>1, <1>2, <1>3, <1>4, <1>8, <1>9, <2>1 DEF Trusted
<1>12. r \notin crossed' => Seen(r)'
  <2> SUFFICES ASSUME r \notin crossed PROVE Seen(r)'
    BY <1>8
  <2>1. step = "lanes" => mind.plan[3] = Contract(source)
    BY <1>1, <1>2, <1>3, <1>7, <1>8 DEF Seen, Contract
  <2>2. step = "plan" =>
          mind.first = had[r].first /\ mind.hash = had[r].hash /\ mind.second = had[r].second
    BY <1>1, <1>2, <1>3
  <2> QED
    BY <1>1, <1>2, <1>3, <1>4, <1>8, <2>1, <2>2 DEF Seen, AfterManifest, AfterCatalogs, Contract
<1>13. Renewed(r)'
  <2>1. ~\E i \in 1..3 : Settled(r, i)'
    BY <1>1, <1>2, <1>3, <1>4 DEF Settled
  <2> QED
    BY <2>1 DEF Renewed
<1> QED
  BY <1>4, <1>10, <1>11, <1>12, <1>13 DEF Inductive, RunInv

LEMMA LaneStep == ASSUME Inductive, NEW r \in Runs, Lane(r) PROVE Inductive'
<1> DEFINE n == had[r].next
           content == had[r].plan[n]
           mind == [had[r] EXCEPT !.next = IF n < 3 THEN @ + 1 ELSE 1]
<1>1. /\ pc[r] = "lanes" /\ n \in 1..3 /\ content \in Contents
      /\ had[r] \in Minds
  BY DEF Lane, Inductive, Types, Minds
<1>2. /\ check[r] => content \in {Reuse, lane[Order[n]]}
      /\ lane' = IF content = Reuse THEN lane ELSE [lane EXCEPT ![Order[n]] = content]
      /\ Keep(r, mind)
      /\ IF n < 3 THEN pc' = pc ELSE pc' = [pc EXCEPT ![r] = "persist"]
      /\ UNCHANGED <<source, state, check>>
  BY OrderOfLanes DEF Lane, Goto
<1>3. \/ lane' = lane /\ UNCHANGED <<crossed, meddled>>
      \/ Disturbs(r)
  BY DEF Lane
<1>4. /\ mind \in Minds /\ mind.plan = had[r].plan /\ mind.cards = had[r].cards
      /\ mind.next = IF n < 3 THEN n + 1 ELSE 1
  BY <1>1 DEF Minds
<1>5. PICK step \in {"lanes", "persist"} :
        /\ pc' = [pc EXCEPT ![r] = step]
        /\ n < 3 => step = "lanes"
        /\ ~(n < 3) => step = "persist"
  BY <1>1, <1>2 DEF Inductive, Types
<1>6. /\ meddled' \in BOOLEAN /\ (meddled => meddled')
      /\ (r \notin crossed' => r \notin crossed)
  BY <1>3 DEF Disturbs, Inductive, Types
<1>7. Order[n] \in Lanes /\ Order[n] # "catalog"
  BY <1>1, OrderOfLanes DEF Lanes, CardLanes
<1> HIDE DEF mind
<1>8. /\ lane' \in [Lanes -> Contents]
      /\ content # Reuse => lane'[Order[n]] = content
      /\ \A i \in 1..3 : i # n => lane'[Order[i]] = lane[Order[i]]
      /\ lane'["catalog"] = lane["catalog"]
  <2>1. lane \in [Lanes -> Contents] /\ "catalog" \in Lanes
    BY DEF Inductive, Types, Lanes
  <2>2. \A i \in 1..3 : Order[i] \in Lanes /\ (i # n => Order[i] # Order[n])
    BY <1>1, OrderOfLanes DEF Lanes, CardLanes
  <2> HIDE DEF n, content
  <2> QED
    BY <1>1, <1>2, <1>7, <2>1, <2>2
<1>9. Types' /\ Vouched' /\ pc'[r] = step /\ had'[r] = mind
  BY <1>2, <1>4, <1>5, <1>6, <1>8 DEF Inductive, Types, Steps, Vouched, Keep
<1>10. Prepared(r) /\ Trusted(r) /\ (r \notin crossed => Seen(r) /\ Renewed(r))
  BY DEF Inductive, RunInv
<1>11. Prepared(r)'
  BY <1>1, <1>2, <1>4, <1>5, <1>9, <1>10 DEF Prepared, Planned
<1>12. Trusted(r)'
  <2>1. ASSUME NEW i \in {1, 2}, ~meddled', mind.plan[i] = Reuse
        PROVE  lane'[Order[i]] = mind.cards
    <3>1. lane[Order[i]] = had[r].cards
      BY <1>1, <1>4, <1>6, <1>10, <2>1 DEF Trusted, Planned
    <3>2. CASE i = n
      BY <1>2, <1>4, <2>1, <3>1, <3>2
    <3>3. CASE i # n
      BY <1>4, <1>8, <3>1, <3>3
    <3> QED
      BY <3>2, <3>3
  <2> QED
    BY <1>9, <2>1 DEF Trusted
<1>13. r \notin crossed' => Seen(r)'
  BY <1>1, <1>2, <1>4, <1>5, <1>6, <1>8, <1>9, <1>10
  DEF Seen, AfterManifest, AfterCatalogs, Contract
<1>14. r \notin crossed' => Renewed(r)'
  <2> SUFFICES ASSUME r \notin crossed, check[r] \/ ~meddled', NEW i \in 1..3, Settled(r, i)'
               PROVE  lane'[Order[i]] = Encoded(Order[i], source)
    BY <1>2, <1>6 DEF Renewed, Encoded, Contract
  <2>1. had[r].cards = source.recipes /\ had[r].plan[3] = Contract(source) /\ had[r].plan[3] # Reuse
    BY <1>1, <1>10 DEF Seen, Prepared
  <2>2. /\ Encoded(Order[1], source) = source.recipes /\ Encoded(Order[2], source) = source.recipes
        /\ Encoded(Order[3], source) = Contract(source)
    BY OrderOfLanes DEF Encoded, CardLanes
  <2>3. CASE i # n
    <3>1. Settled(r, i)
      BY <1>1, <1>2, <1>4, <1>5, <1>9, <2>3 DEF Settled
    <3> QED
      BY <1>6, <1>8, <1>10, <2>3, <3>1 DEF Renewed
  <2>4. CASE i = n /\ n = 3
    BY <1>8, <2>1, <2>2, <2>4
  <2>5. CASE i = n /\ n \in {1, 2}
    <3>1. content = had[r].cards \/ (content = Reuse /\ ~check[r])
      BY <1>1, <1>10, <2>5 DEF Prepared, Planned
    <3>2. CASE content = Reuse
      <4>1. ~check[r] /\ ~meddled
        <5>1. had[r].cards # Reuse
          BY <1>1, <1>10, SimdocAssumption DEF Prepared
        <5> QED
          BY <1>6, <3>1, <3>2, <5>1
      <4>2. lane[Order[n]] = had[r].cards
        BY <1>1, <1>10, <2>5, <3>2, <4>1 DEF Trusted, Planned
      <4>3. lane' = lane
        BY <1>2, <3>2
      <4> QED
        BY <2>1, <2>2, <2>5, <4>2, <4>3
    <3>3. CASE content # Reuse
      BY <1>8, <2>1, <2>2, <2>5, <3>1, <3>3
    <3> QED
      BY <3>2, <3>3
  <2> QED
    BY <1>1, <2>3, <2>4, <2>5
<1>15. ASSUME NEW q \in Runs \ {r} PROVE RunInv(q)'
  <2>1. pc'[q] = pc[q] /\ had'[q] = had[q]
    BY <1>2, <1>5, <1>15 DEF Inductive, Types, Keep
  <2>2. lane' = lane \/ (Live(q) => q \in crossed' /\ meddled')
    BY <1>3, <1>15 DEF Disturbs, Others
  <2>3. q \in crossed => q \in crossed'
    BY <1>3 DEF Disturbs
  <2> QED
    BY <1>2, <1>6, <2>1, <2>2, <2>3, OthersKeep
<1> QED
  BY <1>9, <1>11, <1>12, <1>13, <1>14, <1>15 DEF Inductive, RunInv

(* A run that ends keeps the others as they are. *)
LEMMA EndOthers ==
  ASSUME Inductive, NEW r \in Runs, NEW step, pc' = [pc EXCEPT ![r] = step],
         had' = [had EXCEPT ![r] = Blank],
         \A q \in Runs \ {r} : q \in crossed => q \in crossed',
         meddled => meddled',
         lane' = lane \/ Disturbs(r),
         UNCHANGED <<source, check>>
  PROVE  \A q \in Runs \ {r} : RunInv(q)'
<1> SUFFICES ASSUME NEW q \in Runs \ {r} PROVE RunInv(q)'
  OBVIOUS
<1>1. pc'[q] = pc[q] /\ had'[q] = had[q]
  BY DEF Inductive, Types
<1>2. lane' = lane \/ (Live(q) => q \in crossed' /\ meddled')
  BY DEF Disturbs, Others
<1> QED
  BY <1>1, <1>2, OthersKeep

(* The state that a run writes vouches for its lanes, and as long as nobody meddled that
   is so. *)
LEMMA PersistStep == ASSUME Inductive, NEW r \in Runs, Persist(r) PROVE Inductive'
<1> DEFINE plan == had[r].plan
           vouch(l, i) == IF plan[i] = Reuse THEN lane[l] ELSE plan[i]
<1>1. /\ pc[r] = "persist" /\ pc' = [pc EXCEPT ![r] = "done"]
      /\ had' = [had EXCEPT ![r] = Blank] /\ crossed' = crossed \ {r}
      /\ UNCHANGED <<source, lane, check, meddled>>
  BY DEF Persist, Goto, Forget, Keep
<1>2. /\ state' = [ids |-> had[r].cards, digests |-> state'.digests]
      /\ state'.digests \in [CardLanes -> Contents]
      /\ state'.digests["cards"] = vouch("cards", 1)
      /\ state'.digests["index"] = vouch("index", 2)
  <2> DEFINE at(l) == CHOOSE i \in DOMAIN Order : Order[i] = l
             digests == [l \in CardLanes |-> vouch(l, at(l))]
  <2>1. state' = [ids |-> had[r].cards, digests |-> digests]
    BY DEF Persist, StateOf
  <2>2. at("cards") = 1 /\ at("index") = 2
    BY OrderOfLanes
  <2>3. lane["cards"] \in Contents /\ lane["index"] \in Contents
    BY DEF Inductive, Types, Lanes, CardLanes
  <2>4. plan[1] \in Contents /\ plan[2] \in Contents
    BY DEF Inductive, Types, Minds
  <2> HIDE DEF at, plan
  <2>5. digests["cards"] = vouch("cards", 1) /\ digests["index"] = vouch("index", 2)
    BY <2>2 DEF CardLanes
  <2>6. digests \in [CardLanes -> Contents]
    BY <2>2, <2>3, <2>4 DEF CardLanes
  <2> HIDE DEF digests
  <2> QED
    BY <2>1, <2>5, <2>6
<1>3. had[r].cards \in Recipes
  BY <1>1 DEF Inductive, RunInv, Prepared
<1>4. state' \in States
  BY <1>2, <1>3 DEF States
<1>5. Blank \in Minds
  <2>1. <<Nothing, Nothing, Nothing>> \in [1..3 -> Contents]
    BY DEF Contents
  <2> QED
    BY <2>1 DEF Blank, Minds
<1>6. Types'
  BY <1>1, <1>4, <1>5 DEF Inductive, Types, Steps
<1>7. Vouched'
  <2> SUFFICES ASSUME ~meddled PROVE \A l \in CardLanes : state'.digests[l] = state'.ids
    BY <1>1 DEF Vouched
  <2>1. \A i \in {1, 2} :
          /\ plan[i] = had[r].cards \/ plan[i] = Reuse
          /\ plan[i] = Reuse => lane[Order[i]] = had[r].cards
    BY <1>1 DEF Inductive, RunInv, Prepared, Trusted, Planned
  <2>2. vouch("cards", 1) = had[r].cards /\ vouch("index", 2) = had[r].cards
    BY <2>1, OrderOfLanes
  <2> QED
    BY <1>2, <2>2 DEF CardLanes
<1>8. RunInv(r)'
  BY <1>1, EndFrame DEF Inductive, Types
<1>9. \A q \in Runs \ {r} : RunInv(q)'
  BY <1>1, EndOthers
<1> QED
  BY <1>6, <1>7, <1>8, <1>9 DEF Inductive

LEMMA CrashStep == ASSUME Inductive, NEW r \in Runs, CrashInWrite(r) PROVE Inductive'
<1> DEFINE l == Order[had[r].next]
<1>1. /\ pc' = [pc EXCEPT ![r] = "failed"] /\ had' = [had EXCEPT ![r] = Blank]
      /\ UNCHANGED <<source, check>>
      /\ \/ state' = Torn /\ UNCHANGED <<lane, crossed, meddled>>
         \/ lane' = [lane EXCEPT ![l] = Torn] /\ Disturbs(r) /\ UNCHANGED state
  BY DEF CrashInWrite, Goto, Keep
<1>2. Blank \in Minds
  <2>1. <<Nothing, Nothing, Nothing>> \in [1..3 -> Contents]
    BY DEF Contents
  <2> QED
    BY <2>1 DEF Blank, Minds
<1>3. meddled' \in BOOLEAN /\ (meddled => meddled')
  BY <1>1 DEF Disturbs, Inductive, Types
<1>4. lane' \in [Lanes -> Contents]
  BY <1>1 DEF Inductive, Types, Contents
<1>5. Types'
  BY <1>1, <1>2, <1>3, <1>4 DEF Inductive, Types, Steps
<1>6. Vouched'
  BY <1>1, <1>3 DEF Inductive, Vouched
<1>7. RunInv(r)'
  BY <1>1, EndFrame DEF Inductive, Types
<1>8. \A q \in Runs \ {r} : RunInv(q)'
  <2>1. \A q \in Runs \ {r} : q \in crossed => q \in crossed'
    BY <1>1 DEF Disturbs
  <2> QED
    BY <1>1, <1>3, <2>1, EndOthers
<1> QED
  BY <1>5, <1>6, <1>7, <1>8 DEF Inductive

LEMMA PeopleStep == ASSUME Inductive, EditSource \/ EditLane PROVE Inductive'
<1>1. /\ crossed' = crossed \cup {r \in Runs : Live(r)}
      /\ UNCHANGED <<state, check, pc, had>>
  BY DEF EditSource, EditLane, Edited
<1>2. /\ meddled' \in BOOLEAN /\ (meddled => meddled')
      /\ lane' = lane \/ (\A q \in Runs : Live(q) => meddled')
      /\ source' \in Sources /\ lane' \in [Lanes -> Contents]
  <2>1. CASE EditSource
    BY <2>1 DEF EditSource, Inductive, Types
  <2>2. CASE EditLane
    BY <2>2 DEF EditLane, Inductive, Types, Contents
  <2> QED
    BY <2>1, <2>2
<1>3. Types'
  BY <1>1, <1>2 DEF Inductive, Types
<1>4. Vouched'
  BY <1>1, <1>2 DEF Inductive, Vouched
<1>5. ASSUME NEW q \in Runs PROVE RunInv(q)'
  <2>1. Live(q) => q \in crossed'
    BY <1>1
  <2> QED
    BY <1>1, <1>2, <2>1, OthersKeep
<1> QED
  BY <1>3, <1>4, <1>5 DEF Inductive

LEMMA NextInductive == ASSUME Inductive, [Next]_vars PROVE Inductive'
<1>1. CASE UNCHANGED vars
  <2>1. Types' /\ Vouched'
    BY <1>1 DEF vars, Inductive, Types, Vouched
  <2>2. ASSUME NEW q \in Runs PROVE RunInv(q)'
    BY <1>1, OthersKeep DEF vars
  <2> QED
    BY <2>1, <2>2 DEF Inductive
<1>2. CASE \E r \in Runs : RunStep(r)
  <2> PICK r \in Runs : RunStep(r)
    BY <1>2
  <2> QED
    BY FailStep, FingerprintStep, BuildDocsStep, SyncManifestStep, SyncCatalogsStep, ReadStep,
       ConfirmStep, ReadSpineStep, PlanStep, LaneStep, PersistStep, CrashStep
    DEF RunStep
<1> QED
  BY <1>1, <1>2, PeopleStep DEF Next

-----------------------------------------------------------------------------

THEOREM InductiveHolds == Spec => []Inductive
<1> QED
  BY InitInductive, NextInductive, PTL DEF Spec

(* A run that succeeds persists, and nobody else does so in its name. *)
LEMMA SuccessPersists ==
  ASSUME Inductive, [Next]_vars, NEW r \in Runs, Succeeds(r)
  PROVE  Persist(r)
<1>1. pc[r] = "persist" /\ pc'[r] = "done" /\ pc \in [Runs -> Steps]
  BY DEF Succeeds, Inductive, Types
<1>2. pc' # pc
  BY <1>1
<1>3. \E q \in Runs : RunStep(q)
  BY <1>2 DEF Next, vars, EditSource, EditLane, Edited
<1> PICK q \in Runs : RunStep(q)
  BY <1>3
<1>4. \/ Persist(q)
      \/ \E step \in Steps \ {"done"} : pc' = [pc EXCEPT ![q] = step]
      \/ pc' = pc
  BY DEF RunStep, Fail, CrashInWrite, Fingerprint, BuildDocs, SyncManifest, SyncCatalogs, Project,
         Measure, Fragment, Confirm, ReadSpine, Plan, Lane, Goto, Steps
<1>5. Persist(q)
  BY <1>1, <1>2, <1>4
<1>6. q = r
  BY <1>1, <1>5 DEF Persist, Goto
<1> QED
  BY <1>5, <1>6

(* When nobody crosses a run that gets as far as persist_state, and it checks or nobody
   meddled, the lanes are those of the sources. *)
LEMMA PersistIsCurrent ==
  ASSUME Inductive, NEW r \in Runs, Persist(r), r \notin crossed, check[r] \/ ~meddled
  PROVE  Current
<1>1. pc[r] = "persist"
  BY DEF Persist
<1>2. source.described /\ lane["catalog"] = source.packages
  BY <1>1 DEF Inductive, RunInv, Seen, AfterManifest, AfterCatalogs
<1>3. \A i \in 1..3 : lane[Order[i]] = Encoded(Order[i], source)
  BY <1>1 DEF Inductive, RunInv, Renewed, Settled
<1>4. /\ lane["cards"] = Encoded("cards", source) /\ lane["index"] = Encoded("index", source)
      /\ lane["contract"] = Encoded("contract", source)
  BY <1>3, OrderOfLanes
<1>5. lane["catalog"] = Encoded("catalog", source)
  BY <1>2 DEF Encoded, CardLanes
<1> QED
  BY <1>2, <1>4, <1>5 DEF Current, Lanes, CardLanes

(* simdoc.rs: a refresh that succeeds leaves every lane as its sources have it, when nobody
   changed them meanwhile, whatever crashed or was edited before. *)
THEOREM RefreshesAreCurrent == Spec => RefreshIsCurrent
<1>1. ASSUME Inductive, [Next]_vars
      PROVE  [\A r \in Runs : Succeeds(r) /\ ~check[r] /\ r \notin crossed /\ ~meddled => Current]_vars
  BY <1>1, SuccessPersists, PersistIsCurrent
<1> QED
  BY <1>1, InductiveHolds, PTL DEF Spec, RefreshIsCurrent

(* simdoc.rs, --check: a check that succeeds while nobody changes anything has seen current
   lanes, whatever the local caches say. *)
THEOREM ChecksAreHonest == Spec => CheckIsHonest
<1>1. ASSUME Inductive, [Next]_vars
      PROVE  [\A r \in Runs : Succeeds(r) /\ check[r] /\ r \notin crossed => Current]_vars
  BY <1>1, SuccessPersists, PersistIsCurrent
<1> QED
  BY <1>1, InductiveHolds, PTL DEF Spec, CheckIsHonest

(* cardspine_state.rs: what .sim/cardspine-state.json vouches for is the encoding of its
   cards, as long as nobody meddles with a run. *)
THEOREM StatesAreSound == Spec => []StateIsSound
<1>1. Inductive => StateIsSound
  BY DEF Inductive, Vouched, StateIsSound
<1> QED
  BY <1>1, InductiveHolds, PTL

(***************************************************************************)
(* The index fragment and the doctor.                                      *)
(***************************************************************************)

(* What a discovery gives, of any names: each item once, owned by a subject, and no
   features yet; an overlay that uses the name of a row of the doctor claims its item. *)
ItemsOf(Names) == [kind : Names, id : Names, owner : Names, facet : Names, live : BOOLEAN]

FeaturesOf(Names) ==
  [id : Names, subject : Names, claims : SUBSET Names, contracts : SUBSET Names,
   audiences : SUBSET Names, generated : BOOLEAN, framework : BOOLEAN]

DocsOf(Names) ==
  [subjects : SUBSET Names, items : SUBSET ItemsOf(Names), drafts : SUBSET FeaturesOf(Names),
   features : {{}}, routed : SUBSET Names]

RowId(item) == <<"missing", Key(item)>>

IsDiscovered(doc, overlay) ==
  /\ \A i, j \in doc.items : Key(i) = Key(j) => i = j
  /\ \A i \in doc.items : i.owner \in doc.subjects
  /\ \A f \in overlay, i \in doc.items : f.id = RowId(i) => Key(i) \in f.claims

Row(item) ==
  [id |-> RowId(item), subject |-> item.owner, claims |-> {Key(item)}, contracts |-> {},
   audiences |-> {}, generated |-> FALSE, framework |-> FALSE]

(* What preserving contracts leaves as it was. *)
SameButContracts(f, g) ==
  /\ f.id = g.id /\ f.subject = g.subject /\ f.claims = g.claims
  /\ f.audiences = g.audiences /\ f.generated = g.generated /\ f.framework = g.framework

(* Contracts are added and nothing else changes. *)
LEMMA ContractsAdded ==
  ASSUME NEW Names, NEW doc, NEW f \in FeaturesOf(Names)
  PROVE  /\ SameButContracts(WithContracts(f, doc), f)
         /\ WithContracts(f, doc).contracts
              = f.contracts \cup UNION {d.contracts : d \in {d \in doc.drafts : Covers(f, d)}}
BY DEF FeaturesOf, WithContracts, SameButContracts

(* The same of a row of the doctor. *)
LEMMA RowContractsAdded ==
  ASSUME NEW doc, NEW i
  PROVE  /\ SameButContracts(WithContracts(Row(i), doc), Row(i))
         /\ Row(i).id = RowId(i) /\ Row(i).subject = i.owner /\ Row(i).claims = {Key(i)}
         /\ Row(i).audiences = {}
BY DEF WithContracts, SameButContracts, Row

(* What a merge makes of each part of what was discovered. *)
LEMMA MergedFacts ==
  ASSUME NEW Names, NEW doc \in DocsOf(Names), NEW overlay
  PROVE  /\ MergeAuthored(doc, overlay).subjects = doc.subjects
         /\ MergeAuthored(doc, overlay).items = doc.items
         /\ MergeAuthored(doc, overlay).routed = doc.routed
         /\ MergeAuthored(doc, overlay).features = {WithContracts(f, doc) : f \in overlay}
         /\ MergeAuthored(doc, overlay).drafts
              = Uncovered(doc.drafts, {WithContracts(f, doc) : f \in overlay})
<1>1. doc.features \cup {WithContracts(f, doc) : f \in overlay} = {WithContracts(f, doc) : f \in overlay}
  BY DEF DocsOf
<1> DEFINE features == {WithContracts(f, doc) : f \in overlay}
<1> HIDE DEF features
<1>2. MergeAuthored(doc, overlay)
        = [doc EXCEPT !.features = features, !.drafts = Uncovered(@, features)]
  BY <1>1 DEF MergeAuthored, features
<1> QED
  BY <1>2 DEF DocsOf, features

(* A gap of a route is one of a feature. *)
Gaping(doc, f, g) ==
  /\ f.id \notin doc.routed
  /\ \/ g = <<"major_entrypoints", f.id>> /\ IsEntrypoint(doc, f)
     \/ g = <<"frameworks", f.id>> /\ IsFramework(doc, f)

LEMMA GapsAreOfFeatures ==
  ASSUME NEW doc, NEW g
  PROVE  g \in RouteGaps(doc) <=> \E f \in doc.features : Gaping(doc, f, g)
BY Zenon DEF RouteGaps, Gaping

(* The doctor's rows are those of the unclaimed items. *)
LEMMA RowsAre == ASSUME NEW doc PROVE DoctorRows(doc) = {Row(i) : i \in Unclaimed(doc)}
BY DEF DoctorRows, Row, RowId

(* One who is covered with contracts added or without is covered. *)
LEMMA CoversAgrees ==
  ASSUME NEW f, NEW g, SameButContracts(f, g), NEW d
  PROVE  Covers(f, d) <=> Covers(g, d)
BY DEF SameButContracts, Covers

(* merge_authored and missing_draft_rows: an overlay that is merged loses no grammar
   contract, and the rows of the doctor, appended to it, are accepted and leave no item
   unclaimed and none claimed twice that was not, whatever was discovered. *)
THEOREM HealingDoctor ==
  ASSUME NEW Names, NEW doc \in DocsOf(Names), NEW overlay \in SUBSET FeaturesOf(Names),
         IsDiscovered(doc, overlay), NEW stricts
  PROVE  DoctorHeals(doc, overlay, stricts)
<1> DEFINE merged == MergeAuthored(doc, overlay)
           rows == DoctorRows(merged)
           healed == MergeAuthored(doc, overlay \cup rows)
           W(f) == WithContracts(f, doc)
<1> SUFFICES ASSUME MergeOK(doc, overlay)
             PROVE  /\ GrammarContracts(merged) = GrammarContracts(doc) \cup UNION {f.contracts : f \in overlay}
                    /\ \A d \in merged.drafts, f \in merged.features : d.claims \cap f.claims = {}
                    /\ MergeOK(doc, overlay \cup rows)
                    /\ Unclaimed(healed) = {}
                    /\ Duplicated(healed) => Duplicated(merged)
                    /\ \A strict \in stricts :
                         /\ Coverage(healed, strict) # "unindexed"
                         /\ Coverage(merged, strict) = "covered" /\ Coverage(healed, strict) # "covered" =>
                              \E f \in rows : Coverage(healed, strict) = "unrouted" /\ f.id \notin doc.routed
  BY DEF DoctorHeals
<1>1. /\ merged.items = doc.items /\ merged.routed = doc.routed
      /\ merged.features = {W(f) : f \in overlay}
      /\ merged.drafts = {d \in doc.drafts : \A f \in merged.features : ~Covers(f, d)}
  BY MergedFacts DEF Uncovered
<1>2. /\ healed.items = doc.items /\ healed.routed = doc.routed
      /\ healed.features = {W(f) : f \in overlay \cup rows}
      /\ healed.drafts = {d \in doc.drafts : \A f \in healed.features : ~Covers(f, d)}
  BY MergedFacts DEF Uncovered
<1>3. rows = {Row(i) : i \in Unclaimed(merged)}
  BY RowsAre
<1>4. \A f \in overlay : SameButContracts(W(f), f) /\ W(f).contracts
              = f.contracts \cup UNION {d.contracts : d \in {d \in doc.drafts : Covers(f, d)}}
  BY ContractsAdded
<1>5. \A i \in Unclaimed(merged) : /\ SameButContracts(W(Row(i)), Row(i))
                                   /\ Row(i).id = RowId(i) /\ Row(i).subject = i.owner
                                   /\ Row(i).claims = {Key(i)} /\ Row(i).audiences = {}
  BY RowContractsAdded
<1> HIDE DEF merged, rows, healed, W
<1>6. \A i \in Unclaimed(merged) : i \in doc.items /\ Claimants(merged, Key(i)) = {}
  BY <1>1 DEF Unclaimed, Claimable
<1>7. doc.features = {}
  BY DEF DocsOf
(* No contract is lost. *)
<1>8. GrammarContracts(merged) = GrammarContracts(doc) \cup UNION {f.contracts : f \in overlay}
  <2>1. ASSUME NEW c \in GrammarContracts(merged)
        PROVE  c \in GrammarContracts(doc) \cup UNION {f.contracts : f \in overlay}
    <3>1. PICK d \in merged.drafts \cup merged.features : c \in d.contracts
      BY DEF GrammarContracts
    <3>2. CASE d \in merged.drafts
      BY <1>1, <3>1, <3>2 DEF GrammarContracts
    <3>3. CASE d \in merged.features
      <4>1. PICK f \in overlay : d = W(f)
        BY <1>1, <3>3
      <4>2. c \in f.contracts \/ \E e \in doc.drafts : c \in e.contracts
        BY <1>4, <3>1, <4>1
      <4> QED
        BY <4>2 DEF GrammarContracts
    <3> QED
      BY <3>1, <3>2, <3>3
  <2>2. ASSUME NEW f \in overlay, NEW c \in f.contracts PROVE c \in GrammarContracts(merged)
    <3>1. c \in W(f).contracts /\ W(f) \in merged.features
      BY <1>1, <1>4
    <3> QED
      BY <3>1 DEF GrammarContracts
  <2>3. ASSUME NEW d \in doc.drafts, NEW c \in d.contracts PROVE c \in GrammarContracts(merged)
    <3>1. CASE d \in merged.drafts
      BY <3>1 DEF GrammarContracts
    <3>2. CASE d \notin merged.drafts
      <4>1. PICK f \in overlay : Covers(W(f), d)
        BY <1>1, <3>2
      <4>2. Covers(f, d)
        BY <1>4, <4>1, CoversAgrees
      <4>3. c \in W(f).contracts /\ W(f) \in merged.features
        BY <1>1, <1>4, <4>2
      <4> QED
        BY <4>3 DEF GrammarContracts
    <3> QED
      BY <3>1, <3>2
  <2>4. ASSUME NEW c \in GrammarContracts(doc) PROVE c \in GrammarContracts(merged)
    <3>1. PICK d \in doc.drafts : c \in d.contracts
      BY <1>7 DEF GrammarContracts
    <3> QED
      BY <2>3, <3>1
  <2> QED
    BY <2>1, <2>2, <2>4
<1>9. \A d \in merged.drafts, f \in merged.features : d.claims \cap f.claims = {}
  BY <1>1 DEF Covers
(* The rows are accepted. *)
<1>10. MergeOK(doc, overlay \cup rows)
  <2>1. ASSUME NEW i \in Unclaimed(merged) PROVE Resolved(Row(i), doc)
    <3>1. i \in doc.items /\ i.owner \in doc.subjects
      BY <1>6 DEF IsDiscovered
    <3>2. Row(i).claims \subseteq {Key(j) : j \in doc.items}
      BY <1>5, <3>1
    <3> QED
      BY <1>5, <3>1, <3>2 DEF Resolved
  <2>2. \A f \in overlay \cup rows : Resolved(f, doc)
    BY <1>3, <2>1 DEF MergeOK
  <2>3. ASSUME NEW i \in Unclaimed(merged), NEW f \in overlay PROVE f.id # Row(i).id
    <3>1. ASSUME f.id = RowId(i) PROVE FALSE
      <4>1. i \in doc.items /\ Key(i) \in f.claims
        BY <1>6, <3>1 DEF IsDiscovered
      <4>2. Key(i) \in W(f).claims /\ W(f) \in merged.features
        BY <1>1, <1>4, <4>1 DEF SameButContracts
      <4> QED
        BY <1>6, <4>2 DEF Claimants
    <3> QED
      BY <1>5, <3>1
  <2>4. ASSUME NEW i \in Unclaimed(merged), NEW j \in Unclaimed(merged), Row(i).id = Row(j).id
        PROVE  Row(i) = Row(j)
    <3>1. Key(i) = Key(j)
      BY <1>5, <2>4 DEF RowId
    <3>2. i = j
      BY <1>6, <3>1 DEF IsDiscovered
    <3> QED
      BY <3>2
  <2>5. \A f, g \in overlay \cup rows : f.id = g.id => f = g
    BY <1>3, <2>3, <2>4 DEF MergeOK
  <2> QED
    BY <2>2, <2>5 DEF MergeOK
(* Who claims an item afterwards. *)
<1>11. healed.drafts = merged.drafts
  <2>1. merged.features \subseteq healed.features
    BY <1>1, <1>2
  <2>2. ASSUME NEW d \in merged.drafts, NEW f \in healed.features PROVE ~Covers(f, d)
    <3>1. CASE f \in merged.features
      BY <1>1, <3>1
    <3>2. CASE f \notin merged.features
      <4>1. PICK i \in Unclaimed(merged) : f = W(Row(i))
        BY <1>1, <1>2, <1>3, <3>2
      <4>2. Key(i) \notin d.claims
        BY <1>6 DEF Claimants
      <4> QED
        BY <1>5, <4>1, <4>2 DEF Covers, SameButContracts
    <3> QED
      BY <3>1, <3>2
  <2> QED
    BY <1>1, <1>2, <2>1, <2>2
<1>12. ASSUME NEW f \in healed.features
       PROVE  f \in merged.features \/ \E i \in Unclaimed(merged) : f = W(Row(i))
  BY <1>1, <1>2, <1>3
<1>13. ASSUME NEW i \in Unclaimed(merged)
       PROVE  W(Row(i)) \in healed.features /\ W(Row(i)).claims = {Key(i)}
  BY <1>2, <1>3, <1>5 DEF SameButContracts
<1>14. \A key : Claimants(merged, key) \subseteq Claimants(healed, key)
  BY <1>1, <1>2, <1>11 DEF Claimants
<1>15. Unclaimed(healed) = {}
  <2> SUFFICES ASSUME NEW i \in Unclaimed(healed) PROVE FALSE
    OBVIOUS
  <2>1. i \in Claimable(merged) /\ Claimants(healed, Key(i)) = {}
    BY <1>1, <1>2 DEF Unclaimed, Claimable
  <2>2. i \in Unclaimed(merged)
    BY <1>14, <2>1 DEF Unclaimed
  <2>3. W(Row(i)) \in Claimants(healed, Key(i))
    BY <1>13, <2>2 DEF Claimants
  <2> QED
    BY <2>1, <2>3
<1>16. Duplicated(healed) => Duplicated(merged)
  <2> SUFFICES ASSUME NEW i \in doc.items, Cardinality(Claimants(healed, Key(i))) > 1
               PROVE  Cardinality(Claimants(merged, Key(i))) > 1
    BY <1>1, <1>2 DEF Duplicated
  <2>1. CASE \E j \in Unclaimed(merged) : Key(j) = Key(i)
    <3>1. PICK j \in Unclaimed(merged) : Key(j) = Key(i)
      BY <2>1
    <3>2. j = i
      BY <1>6, <3>1 DEF IsDiscovered
    <3>3. Claimants(healed, Key(i)) \subseteq {W(Row(i))}
      <4> SUFFICES ASSUME NEW f \in Claimants(healed, Key(i)) PROVE f = W(Row(i))
        OBVIOUS
      <4>1. f \notin Claimants(merged, Key(i)) /\ Key(i) \in f.claims
        BY <1>6, <3>2 DEF Claimants
      <4>2. f \in healed.features /\ f \notin merged.features
        BY <1>11, <4>1 DEF Claimants
      <4>3. PICK k \in Unclaimed(merged) : f = W(Row(k))
        BY <1>12, <4>2
      <4>4. Key(k) = Key(i)
        BY <1>13, <4>1, <4>3
      <4>5. k = i
        BY <1>6, <4>4 DEF IsDiscovered
      <4> QED
        BY <4>3, <4>5
    <3>4. IsFiniteSet({W(Row(i))}) /\ Cardinality({W(Row(i))}) = 1
      BY FS_Singleton
    <3>5. Cardinality(Claimants(healed, Key(i))) <= 1 /\ Cardinality(Claimants(healed, Key(i))) \in Nat
      BY <3>3, <3>4, FS_Subset, FS_CardinalityType
    <3> QED
      BY <3>5
  <2>2. CASE \A j \in Unclaimed(merged) : Key(j) # Key(i)
    <3>1. Claimants(healed, Key(i)) \subseteq Claimants(merged, Key(i))
      <4> SUFFICES ASSUME NEW f \in Claimants(healed, Key(i)), f \in healed.features
                   PROVE  f \in merged.features
        BY <1>11 DEF Claimants
      <4>1. Key(i) \in f.claims
        BY DEF Claimants
      <4> QED
        BY <1>12, <1>13, <2>2, <4>1
    <3>2. Claimants(healed, Key(i)) = Claimants(merged, Key(i))
      BY <1>14, <3>1
    <3> QED
      BY <3>2
  <2> QED
    BY <2>1, <2>2
<1>17. ASSUME NEW strict \in stricts
       PROVE  Coverage(healed, strict) # "unindexed"
  BY <1>15 DEF Coverage
<1>18. ASSUME NEW strict \in stricts, Coverage(merged, strict) = "covered", Coverage(healed, strict) # "covered"
       PROVE  \E f \in rows : Coverage(healed, strict) = "unrouted" /\ f.id \notin doc.routed
  <2>1. /\ ~Duplicated(merged)
        /\ \A f \in SpecimenGaps(merged, strict) : ~SpecimenStrict(strict, f)
        /\ \A g \in RouteGaps(merged) : {"all", g[1]} \cap strict.routes = {}
    BY <1>18 DEF Coverage
  <2>2. ASSUME NEW f \in SpecimenGaps(healed, strict) PROVE ~SpecimenStrict(strict, f)
    <3>1. f \in healed.features /\ ~HasSpecimen(healed, f)
      BY DEF SpecimenGaps
    <3>2. CASE f \in merged.features
      <4>1. ~HasSpecimen(merged, f)
        BY <1>1, <1>2, <3>1 DEF HasSpecimen
      <4> QED
        BY <2>1, <3>2, <4>1 DEF SpecimenGaps
    <3>3. CASE f \notin merged.features
      <4>1. f.audiences = {}
        BY <1>5, <1>12, <3>1, <3>3 DEF SameButContracts
      <4> QED
        BY <4>1 DEF SpecimenStrict
    <3> QED
      BY <3>2, <3>3
  <2>3. /\ Coverage(healed, strict) = "unrouted"
        /\ \E g \in RouteGaps(healed) : {"all", g[1]} \cap strict.routes # {}
    BY <1>15, <1>16, <1>18, <2>1, <2>2 DEF Coverage
  <2>4. PICK g \in RouteGaps(healed) : {"all", g[1]} \cap strict.routes # {}
    BY <2>3
  <2>5. PICK f \in healed.features : Gaping(healed, f, g)
    BY GapsAreOfFeatures
  <2>6. f \notin merged.features
    <3>1. ASSUME f \in merged.features PROVE FALSE
      <4>1. Gaping(merged, f, g)
        BY <1>1, <1>2, <2>5 DEF Gaping, IsEntrypoint, IsFramework
      <4>2. g \in RouteGaps(merged)
        BY <3>1, <4>1, GapsAreOfFeatures
      <4> QED
        BY <2>1, <2>4, <4>2
    <3> QED
      BY <3>1
  <2>7. PICK i \in Unclaimed(merged) : f = W(Row(i))
    BY <1>12, <2>6
  <2>8. Row(i) \in rows /\ Row(i).id \notin doc.routed
    BY <1>2, <1>3, <1>5, <2>5, <2>7 DEF Gaping, SameButContracts
  <2> QED
    BY <2>3, <2>8
<1> QED
  BY <1>8, <1>9, <1>10, <1>15, <1>16, <1>17, <1>18

(* package_subjects, merge_subjects, merge_edges: every subject but languages and their
   grammars is contained in the repository, itself or in a crate that is. *)
THEOREM RootedSubjects ==
  ASSUME NEW repo, NEW packages, NEW owners
  PROVE  SubjectsAreRooted(repo, packages, owners)
<1> DEFINE edges == Edges(repo, packages, owners)
<1>1. ASSUME NEW p \in packages, NEW e \in PackageEdges(repo, p) PROVE e \in edges
  BY DEF Edges
<1>2. ASSUME NEW o \in owners \ {"workspace"} PROVE <<repo, <<"crate", o>>>> \in edges
  BY DEF Edges
<1> HIDE DEF edges
<1> SUFFICES ASSUME NEW s \in Subjects(repo, packages, owners), s # repo
             PROVE  \/ s[1] \in {"language", "grammar"}
                    \/ <<repo, s>> \in edges
                    \/ \E p \in packages : /\ <<repo, <<"crate", p.name>>>> \in edges
                                           /\ <<<<"crate", p.name>>, s>> \in edges
  BY DEF SubjectsAreRooted, edges
<1>3. CASE \E o \in owners \ {"workspace"} : s = <<"crate", o>>
  BY <1>2, <1>3
<1>4. ASSUME NEW p \in packages, s \in PackageSubjects(p)
      PROVE  \/ s[1] \in {"language", "grammar"}
             \/ <<repo, s>> \in edges
             \/ /\ <<repo, <<"crate", p.name>>>> \in edges
                /\ <<<<"crate", p.name>>, s>> \in edges
  <2>1. <<repo, <<"crate", p.name>>>> \in edges /\ <<repo, <<"crate", p.alias>>>> \in edges
    BY <1>1 DEF PackageEdges
  <2>2. ASSUME NEW lib \in p.libs
        PROVE  <<<<"crate", p.name>>, <<"runtime-lib", p.name, lib>>>> \in edges
    BY <1>1 DEF PackageEdges
  <2>3. \/ s \in {<<"crate", p.name>>, <<"crate", p.alias>>}
        \/ \E lib \in p.libs : s = <<"runtime-lib", p.name, lib>>
        \/ s \in {<<"language", p.name>>, <<"grammar", p.name>>}
    BY <1>4 DEF PackageSubjects
  <2> QED
    BY <2>1, <2>2, <2>3
<1> QED
  BY <1>3, <1>4 DEF Subjects

(***************************************************************************)
(* The merge of fragments.                                                 *)
(***************************************************************************)

(* A bijection keeps the number of members. *)
LEMMA SameSize ==
  ASSUME NEW S, IsFiniteSet(S), NEW T, NEW f \in [S -> T],
         \A x, y \in S : f[x] = f[y] => x = y,
         \A t \in T : \E x \in S : f[x] = t
  PROVE  IsFiniteSet(T) /\ Cardinality(T) = Cardinality(S)
<1>1. f \in Injection(S, T)
  BY DEF Injection, IsInjective
<1>2. f \in Surjection(S, T)
  BY DEF Surjection
<1>3. f \in Bijection(S, T)
  BY <1>1, <1>2 DEF Bijection
<1>4. ExistsBijection(S, T)
  BY <1>3 DEF ExistsBijection
<1> QED
  BY <1>4, FS_Bijection

(* Fragments of any repositories, names and words, whose ids are not qualified yet. *)
Unqualified(Names) == [local : {Everywhere}, name : Names]
RefsOf(Names) == [kind : Kinds, id : Unqualified(Names)]
RecordsOf(Names) == [kind : Kinds, id : Unqualified(Names), refs : SUBSET RefsOf(Names)]
EdgesOf(Names) == [from : Unqualified(Names), rel : Names, to : Unqualified(Names)]
FactsOf(Names) == [anchor : Unqualified(Names), place : Names, says : Names]

FragmentsOf(Names) ==
  {f \in [repo : Names \ {Everywhere}, public : BOOLEAN, records : SUBSET RecordsOf(Names),
          edges : SUBSET EdgesOf(Names), facts : SUBSET FactsOf(Names)] : IsFiniteSet(f.records)}

(* What a sequence of fragments is made of. *)
LEMMA FragmentFacts ==
  ASSUME NEW Names, NEW all \in Seq(FragmentsOf(Names))
  PROVE  /\ Len(all) \in Nat /\ DOMAIN all = 1..Len(all) /\ IsFiniteSet(DOMAIN all)
         /\ \A i \in DOMAIN all :
              /\ all[i].repo # Everywhere /\ IsFiniteSet(all[i].records)
              /\ \A r \in all[i].records :
                   /\ r \in RecordsOf(Names)
                   /\ r.id \in Unqualified(Names) /\ \A ref \in r.refs : ref.id \in Unqualified(Names)
              /\ \A e \in all[i].edges : e.from \in Unqualified(Names) /\ e.to \in Unqualified(Names)
              /\ \A t \in all[i].facts : t \in FactsOf(Names) /\ t.anchor \in Unqualified(Names)
<1>1. Len(all) \in Nat /\ DOMAIN all = 1..Len(all)
  OBVIOUS
<1>2. IsFiniteSet(DOMAIN all)
  BY <1>1, FS_Interval
<1>3. ASSUME NEW i \in DOMAIN all
      PROVE  /\ all[i].repo # Everywhere /\ IsFiniteSet(all[i].records)
             /\ all[i].records \subseteq RecordsOf(Names)
             /\ all[i].edges \subseteq EdgesOf(Names)
             /\ all[i].facts \subseteq FactsOf(Names)
  <2>1. all[i] \in FragmentsOf(Names)
    OBVIOUS
  <2> QED
    BY <2>1 DEF FragmentsOf
<1>4. ASSUME NEW r \in RecordsOf(Names)
      PROVE  r.id \in Unqualified(Names) /\ \A ref \in r.refs : ref.id \in Unqualified(Names)
  <2>1. r.refs \subseteq RefsOf(Names)
    BY DEF RecordsOf
  <2> QED
    BY <2>1 DEF RecordsOf, RefsOf
<1>5. \A e \in EdgesOf(Names) : e.from \in Unqualified(Names) /\ e.to \in Unqualified(Names)
  BY DEF EdgesOf
<1>6. \A t \in FactsOf(Names) : t.anchor \in Unqualified(Names)
  BY DEF FactsOf
<1> QED
  BY <1>1, <1>2, <1>3, <1>4, <1>5, <1>6

(* What an id is mapped to: itself, or the same name with the repository. *)
LEMMA MappedFacts ==
  ASSUME NEW Names, NEW all, NEW f, NEW kind, NEW id \in Unqualified(Names)
  PROVE  /\ id.local = Everywhere
         /\ Has(f, kind, id) /\ Count(all, kind, id) > 1 =>
              Mapped(all, f, kind, id).local = f.repo
         /\ ~(Has(f, kind, id) /\ Count(all, kind, id) > 1) =>
              Mapped(all, f, kind, id) = id
         /\ Mapped(all, f, kind, id).name = id.name
BY DEF Unqualified, Mapped

(* Unqualified ids of one name are the same. *)
LEMMA SameName ==
  ASSUME NEW Names, NEW id \in Unqualified(Names), NEW other \in Unqualified(Names),
         id.name = other.name
  PROVE  id = other
BY DEF Unqualified

(* Two different things are two. *)
LEMMA PairCount ==
  ASSUME NEW i, NEW j, i # j
  PROVE  Cardinality({i, j}) = 2
<1>1. Cardinality({i}) = 1 /\ IsFiniteSet({i})
  BY FS_Singleton
<1>2. Cardinality({i} \cup {j}) = Cardinality({i}) + 1
  BY <1>1, FS_AddElement
<1>3. Cardinality({i} \cup {j}) = 2
  BY <1>1, <1>2
<1>4. {i} \cup {j} = {i, j}
  OBVIOUS
<1> QED
  BY <1>3, <1>4, Zenon

(* An id that two places have is counted twice. *)
LEMMA CountFacts ==
  ASSUME NEW Names, NEW all \in Seq(FragmentsOf(Names)), NEW kind, NEW id
  PROVE  /\ Count(all, kind, id) \in Nat
         /\ \A i, j \in DOMAIN all :
              Has(all[i], kind, id) /\ Has(all[j], kind, id) /\ ~(Count(all, kind, id) > 1) => i = j
<1> DEFINE S == {i \in DOMAIN all : Has(all[i], kind, id)}
<1>1. IsFiniteSet(S) /\ Cardinality(S) \in Nat
  <2>1. IsFiniteSet(DOMAIN all)
    BY FragmentFacts
  <2> QED
    BY <2>1, FS_Subset, FS_CardinalityType
<1>2. ASSUME NEW i \in S, NEW j \in S, i # j PROVE Cardinality(S) > 1
  <2> HIDE DEF S
  <2>1. {i, j} \in SUBSET S
    BY <1>2
  <2>2. Cardinality({i, j}) = 2
    BY <1>2, PairCount
  <2>3. Cardinality({i, j}) <= Cardinality(S)
    BY <1>1, <2>1, FS_Subset
  <2> QED
    BY <1>1, <2>2, <2>3
<1>3. Count(all, kind, id) = Cardinality(S)
  BY DEF Count
<1> QED
  BY <1>1, <1>2, <1>3

-----------------------------------------------------------------------------
(* References. *)

Keeps(all, f, kind, id) ==
  /\ Owners(all, kind, Mapped(all, f, kind, id)) = Meant(all, f, kind, id)
  /\ Cardinality(Meant(all, f, kind, id)) = 1

Owns(f, all, kind, id) ==
  \E r \in f.records : r.kind = kind /\ Mapped(all, f, kind, r.id) = id

(* Who owns an id. *)
LEMMA OwnersAre ==
  ASSUME NEW all, NEW kind, NEW id
  PROVE  Owners(all, kind, id) = {all[i].repo : i \in {j \in DOMAIN all : Owns(all[j], all, kind, id)}}
BY DEF Owners, Owns

(* A reference to a record of one's own is kept. *)
LEMMA OwnReferenceKept ==
  ASSUME NEW Names, NEW all \in Seq(FragmentsOf(Names)), NEW i \in DOMAIN all,
         NEW kind, NEW id \in Unqualified(Names), Has(all[i], kind, id)
  PROVE  Keeps(all, all[i], kind, id)
<1> DEFINE m == Mapped(all, all[i], kind, id)
<1>1. Meant(all, all[i], kind, id) = {all[i].repo}
  BY DEF Meant
<1>2. Owns(all[i], all, kind, m)
  BY DEF Has, Owns
<1>3. ASSUME NEW j \in DOMAIN all, Owns(all[j], all, kind, m) PROVE all[j].repo = all[i].repo
  <2>1. PICK r \in all[j].records : r.kind = kind /\ Mapped(all, all[j], kind, r.id) = m
    BY <1>3 DEF Owns
  <2>2. r.id \in Unqualified(Names) /\ Has(all[j], kind, r.id)
    BY <2>1, FragmentFacts DEF Has
  <2>3. r.id = id
    BY <2>1, <2>2, MappedFacts, SameName
  <2>4. CASE Count(all, kind, id) > 1
    BY <2>1, <2>2, <2>3, <2>4, MappedFacts
  <2>5. CASE ~(Count(all, kind, id) > 1)
    <3>1. i = j
      BY <2>2, <2>3, <2>5, CountFacts
    <3> QED
      BY <3>1
  <2> QED
    BY <2>4, <2>5
<1> HIDE DEF m
<1>4. Owners(all, kind, m) = {all[i].repo}
  BY <1>2, <1>3, OwnersAre
<1>5. Cardinality({all[i].repo}) = 1
  BY FS_Singleton
<1> QED
  BY <1>1, <1>4, <1>5 DEF Keeps, m

(* One to a record of somebody else's, if it is to an id of the merged document, too. *)
LEMMA ForeignReferenceKept ==
  ASSUME NEW Names, NEW all \in Seq(FragmentsOf(Names)), NEW i \in DOMAIN all,
         NEW kind, NEW id \in Unqualified(Names), ~Has(all[i], kind, id),
         NEW k \in DOMAIN all, Owns(all[k], all, kind, Mapped(all, all[i], kind, id))
  PROVE  Keeps(all, all[i], kind, id)
<1>1. Mapped(all, all[i], kind, id) = id
  BY MappedFacts
<1>2. ASSUME NEW j \in DOMAIN all, Owns(all[j], all, kind, id)
      PROVE  Has(all[j], kind, id) /\ ~(Count(all, kind, id) > 1)
  <2>1. PICK r \in all[j].records : r.kind = kind /\ Mapped(all, all[j], kind, r.id) = id
    BY <1>2 DEF Owns
  <2>2. r.id \in Unqualified(Names) /\ Has(all[j], kind, r.id)
    BY <2>1, FragmentFacts DEF Has
  <2>3. r.id = id
    BY <2>1, <2>2, MappedFacts, SameName
  <2>4. all[j].repo # Everywhere /\ id.local = Everywhere
    BY FragmentFacts, MappedFacts
  <2> QED
    BY <2>1, <2>2, <2>3, <2>4, MappedFacts
<1>3. Has(all[k], kind, id) /\ ~(Count(all, kind, id) > 1)
  BY <1>1, <1>2
<1>4. {j \in DOMAIN all : Has(all[j], kind, id)} = {k}
  BY <1>3, CountFacts
<1>5. {j \in DOMAIN all : Owns(all[j], all, kind, id)} = {k}
  BY <1>1, <1>2, <1>4
<1>6. Meant(all, all[i], kind, id) = {all[k].repo}
  BY <1>4 DEF Meant
<1>7. Owners(all, kind, id) = {all[k].repo}
  BY <1>5, OwnersAre
<1>8. Cardinality({all[k].repo}) = 1
  BY FS_Singleton
<1> QED
  BY <1>1, <1>6, <1>7, <1>8 DEF Keeps

-----------------------------------------------------------------------------
(* What is merged. *)

(* The merged document, part by part. *)
LEMMA MergedAre ==
  ASSUME NEW all
  PROVE  /\ Merged(all).records = UNION {RewriteDoc(all, all[i]).records : i \in DOMAIN all}
         /\ Merged(all).edges = UNION {RewriteDoc(all, all[i]).edges : i \in DOMAIN all}
         /\ Merged(all).facts = UNION {RewriteDoc(all, all[i]).facts : i \in DOMAIN all}
         /\ Merged(all).repeated = Repeated(all)
<1> DEFINE rewritten == [i \in DOMAIN all |-> RewriteDoc(all, all[i])]
<1>1. DOMAIN rewritten = DOMAIN all /\ \A i \in DOMAIN all : rewritten[i] = RewriteDoc(all, all[i])
  OBVIOUS
<1>2. /\ Merged(all).records = UNION {rewritten[i].records : i \in DOMAIN rewritten}
      /\ Merged(all).edges = UNION {rewritten[i].edges : i \in DOMAIN rewritten}
      /\ Merged(all).facts = UNION {rewritten[i].facts : i \in DOMAIN rewritten}
      /\ Merged(all).repeated = Repeated(all)
  BY DEF Merged, Together
<1> HIDE DEF rewritten
<1> QED
  BY <1>1, <1>2

(* A rewritten fragment, part by part. *)
LEMMA RewrittenAre ==
  ASSUME NEW all, NEW f
  PROVE  /\ RewriteDoc(all, f).records = {RewriteRecord(all, f, r) : r \in f.records}
         /\ RewriteDoc(all, f).edges = {RewriteEdge(all, f, e) : e \in f.edges}
         /\ RewriteDoc(all, f).facts
              = {[t EXCEPT !.anchor = Mapped(all, f, "anchors", @)] : t \in f.facts}
BY DEF RewriteDoc

(* A rewritten record. *)
LEMMA RecordIs ==
  ASSUME NEW all, NEW f, NEW r
  PROVE  /\ RewriteRecord(all, f, r).kind = r.kind
         /\ RewriteRecord(all, f, r).id = Mapped(all, f, r.kind, r.id)
         /\ RewriteRecord(all, f, r).refs
              = {Ref(ref.kind, Mapped(all, f, ref.kind, ref.id)) : ref \in r.refs}
BY DEF RewriteRecord, Record

(* Each record once. *)
LEMMA RecordsKept ==
  ASSUME NEW Names, NEW all \in Seq(FragmentsOf(Names)), ~Repeated(all)
  PROVE  Cardinality(Merged(all).records)
           = Cardinality(UNION {{i} \X all[i].records : i \in DOMAIN all})
<1> DEFINE S == UNION {{i} \X all[i].records : i \in DOMAIN all}
           R == Merged(all).records
           g(p) == RewriteRecord(all, all[p[1]], p[2])
           h == [p \in S |-> g(p)]
<1>1. IsFiniteSet(S)
  <2>1. IsFiniteSet({{i} \X all[i].records : i \in DOMAIN all})
    <3> DEFINE T == {{i} \X all[i].records : i \in DOMAIN all}
               e == [i \in DOMAIN all |-> {i} \X all[i].records]
    <3>1. e \in Surjection(DOMAIN all, T)
      BY DEF Surjection
    <3> HIDE DEF e, T
    <3>2. IsFiniteSet(DOMAIN all)
      BY FragmentFacts
    <3>3. IsFiniteSet(T)
      BY <3>1, <3>2, FS_Surjection
    <3> QED
      BY <3>3 DEF T
  <2>2. ASSUME NEW i \in DOMAIN all PROVE IsFiniteSet({i} \X all[i].records)
    <3>1. IsFiniteSet({i}) /\ IsFiniteSet(all[i].records)
      BY FragmentFacts, FS_Singleton
    <3> QED
      BY <3>1, FS_Product
  <2> QED
    BY <2>1, <2>2, FS_UNION
<1>2. \A p \in S : p = <<p[1], p[2]>> /\ p[1] \in DOMAIN all /\ p[2] \in all[p[1]].records
  OBVIOUS
<1>3. \A i \in DOMAIN all : \A r \in all[i].records : <<i, r>> \in S
  OBVIOUS
<1>4. R = UNION {RewriteDoc(all, all[i]).records : i \in DOMAIN all}
  BY MergedAre
<1> HIDE DEF S, R
<1>5. \A p \in S : g(p) \in R
  <2> SUFFICES ASSUME NEW p \in S PROVE g(p) \in R
    OBVIOUS
  <2>1. p[1] \in DOMAIN all /\ g(p) \in RewriteDoc(all, all[p[1]]).records
    BY <1>2, RewrittenAre
  <2> QED
    BY <1>4, <2>1
<1>6. ASSUME NEW u \in R PROVE \E p \in S : g(p) = u
  <2>1. PICK i \in DOMAIN all : u \in RewriteDoc(all, all[i]).records
    BY <1>4
  <2>2. PICK r \in all[i].records : u = RewriteRecord(all, all[i], r)
    BY <2>1, RewrittenAre
  <2>3. <<i, r>> \in S /\ g(<<i, r>>) = u
    BY <1>3, <2>2
  <2> QED
    BY <2>3
<1>7. ASSUME NEW p \in S, NEW q \in S, g(p) = g(q) PROVE p = q
  <2>1. p[2].kind = q[2].kind
        /\ Mapped(all, all[p[1]], p[2].kind, p[2].id) = Mapped(all, all[q[1]], q[2].kind, q[2].id)
    BY <1>7, RecordIs
  <2>2. <<p[1], p[2]>> = <<q[1], q[2]>>
    BY <1>2, <2>1 DEF Repeated
  <2> QED
    BY <1>2, <2>2
<1> HIDE DEF g
<1>8. /\ h \in [S -> R]
      /\ \A p, q \in S : h[p] = h[q] => p = q
      /\ \A u \in R : \E p \in S : h[p] = u
  BY <1>5, <1>6, <1>7
<1> HIDE DEF h
<1>9. Cardinality(R) = Cardinality(S)
  BY <1>1, <1>8, SameSize
<1> QED
  BY <1>9 DEF S, R

(* What the check of the merged document says of a reference. *)
LEMMA CheckedReference ==
  ASSUME NEW all, Checked(Merged(all)),
         NEW kind, NEW id, Ref(kind, id) \in {Ref(r.kind, r.id) : r \in Merged(all).records}
  PROVE  \E k \in DOMAIN all : Owns(all[k], all, kind, id)
<1>1. PICK u \in Merged(all).records : u.kind = kind /\ u.id = id
  BY DEF Ref
<1>2. PICK k \in DOMAIN all : u \in RewriteDoc(all, all[k]).records
  BY MergedAre
<1>3. PICK r \in all[k].records : u = RewriteRecord(all, all[k], r)
  BY <1>2, RewrittenAre
<1>4. r.kind = kind /\ Mapped(all, all[k], kind, r.id) = id
  BY <1>1, <1>3, RecordIs
<1> QED
  BY <1>4 DEF Owns

(* Any reference to an id of the merged document is kept. *)
LEMMA ReferenceKept ==
  ASSUME NEW Names, NEW all \in Seq(FragmentsOf(Names)), Checked(Merged(all)),
         NEW i \in DOMAIN all, NEW kind, NEW id \in Unqualified(Names),
         Ref(kind, Mapped(all, all[i], kind, id)) \in {Ref(r.kind, r.id) : r \in Merged(all).records}
  PROVE  Keeps(all, all[i], kind, id)
<1>1. PICK k \in DOMAIN all : Owns(all[k], all, kind, Mapped(all, all[i], kind, id))
  BY CheckedReference
<1> QED
  BY <1>1, OwnReferenceKept, ForeignReferenceKept

(* So those of records are, which the check has found, *)
LEMMA RecordReferencesKept ==
  ASSUME NEW Names, NEW all \in Seq(FragmentsOf(Names)), Checked(Merged(all)),
         NEW i \in DOMAIN all, NEW r \in all[i].records, NEW ref \in r.refs
  PROVE  Keeps(all, all[i], ref.kind, ref.id)
<1> DEFINE ids == {Ref(u.kind, u.id) : u \in Merged(all).records}
           u == RewriteRecord(all, all[i], r)
<1>1. u \in RewriteDoc(all, all[i]).records
  BY RewrittenAre
<1>2. u \in Merged(all).records
  BY <1>1, MergedAre
<1>3. Ref(ref.kind, Mapped(all, all[i], ref.kind, ref.id)) \in u.refs
  BY RecordIs
<1>4. \A v \in Merged(all).records : v.refs \subseteq ids
  BY DEF Checked
<1> HIDE DEF u, ids
<1>5. Ref(ref.kind, Mapped(all, all[i], ref.kind, ref.id)) \in ids
  BY <1>2, <1>3, <1>4
<1>6. ref.id \in Unqualified(Names)
  BY FragmentFacts
<1> QED
  BY <1>5, <1>6, ReferenceKept DEF ids

(* A rewritten edge. *)
LEMMA EdgeIs ==
  ASSUME NEW all, NEW f, NEW e
  PROVE  /\ RewriteEdge(all, f, e).rel = e.rel
         /\ RewriteEdge(all, f, e).from = MappedEnd(all, f, Ends(e.rel)[1], e.from)
         /\ RewriteEdge(all, f, e).to = MappedEnd(all, f, Ends(e.rel)[2], e.to)
BY DEF RewriteEdge

(* and the ends of edges. *)
LEMMA EdgeEndsKept ==
  ASSUME NEW Names, NEW all \in Seq(FragmentsOf(Names)), Checked(Merged(all)),
         NEW i \in DOMAIN all, NEW e \in all[i].edges
  PROVE  /\ Ends(e.rel)[1] # "any" => Keeps(all, all[i], Ends(e.rel)[1], e.from)
         /\ Ends(e.rel)[2] # "any" => Keeps(all, all[i], Ends(e.rel)[2], e.to)
<1> DEFINE ids == {Ref(u.kind, u.id) : u \in Merged(all).records}
           u == RewriteEdge(all, all[i], e)
<1>1. u \in RewriteDoc(all, all[i]).edges
  BY RewrittenAre
<1>2. u \in Merged(all).edges
  BY <1>1, MergedAre
<1>3. \A v \in Merged(all).edges :
        /\ Ends(v.rel)[1] # "any" => Ref(Ends(v.rel)[1], v.from) \in ids
        /\ Ends(v.rel)[2] # "any" => Ref(Ends(v.rel)[2], v.to) \in ids
  BY DEF Checked
<1>4. /\ u.rel = e.rel
      /\ Ends(e.rel)[1] # "any" => u.from = Mapped(all, all[i], Ends(e.rel)[1], e.from)
      /\ Ends(e.rel)[2] # "any" => u.to = Mapped(all, all[i], Ends(e.rel)[2], e.to)
  BY EdgeIs DEF MappedEnd
<1> HIDE DEF u, ids
<1>5. /\ Ends(e.rel)[1] # "any" => Ref(Ends(e.rel)[1], Mapped(all, all[i], Ends(e.rel)[1], e.from)) \in ids
      /\ Ends(e.rel)[2] # "any" => Ref(Ends(e.rel)[2], Mapped(all, all[i], Ends(e.rel)[2], e.to)) \in ids
  BY <1>2, <1>3, <1>4
<1>6. e.from \in Unqualified(Names) /\ e.to \in Unqualified(Names)
  BY FragmentFacts
<1> QED
  BY <1>5, <1>6, ReferenceKept DEF ids

(* Facts are not contradicted. *)
LEMMA FactsKept ==
  ASSUME NEW Names, NEW all \in Seq(FragmentsOf(Names)), ~Conflict(Merged(all).facts),
         NEW i \in DOMAIN all, NEW t \in all[i].facts, NEW u \in Merged(all).facts,
         u.anchor = Mapped(all, all[i], "anchors", t.anchor), u.place = t.place
  PROVE  u.says = t.says
<1> DEFINE v == [t EXCEPT !.anchor = Mapped(all, all[i], "anchors", @)]
<1>1. v \in RewriteDoc(all, all[i]).facts
  BY RewrittenAre
<1>2. v \in Merged(all).facts
  BY <1>1, MergedAre
<1>3. t \in FactsOf(Names)
  BY FragmentFacts
<1>4. v.anchor = Mapped(all, all[i], "anchors", t.anchor) /\ v.place = t.place /\ v.says = t.says
  BY <1>3 DEF FactsOf
<1> HIDE DEF v
<1>5. u = v
  BY <1>2, <1>4 DEF Conflict
<1> QED
  BY <1>4, <1>5

-----------------------------------------------------------------------------
(* The order of the fragments. *)

(* Places counted from the other end. *)
LEMMA ReverseFacts ==
  ASSUME NEW Names, NEW all \in Seq(FragmentsOf(Names))
  PROVE  /\ DOMAIN Reverse(all) = DOMAIN all
         /\ \A i \in DOMAIN all : /\ Len(all) + 1 - i \in DOMAIN all
                                  /\ Len(all) + 1 - (Len(all) + 1 - i) = i
                                  /\ Reverse(all)[i] = all[Len(all) + 1 - i]
<1>1. Len(all) \in Nat /\ DOMAIN all = 1..Len(all)
  OBVIOUS
<1>2. Reverse(all) = [i \in 1..Len(all) |-> all[(Len(all) - i) + 1]]
  BY DEF Reverse
<1>3. \A i \in 1..Len(all) : (Len(all) - i) + 1 = Len(all) + 1 - i
  BY <1>1
<1> QED
  BY <1>1, <1>2, <1>3

(* As many fragments have an id in the other order, *)
LEMMA CountReversed ==
  ASSUME NEW Names, NEW all \in Seq(FragmentsOf(Names)), NEW kind, NEW id
  PROVE  Count(Reverse(all), kind, id) = Count(all, kind, id)
<1> DEFINE S == {i \in DOMAIN all : Has(all[i], kind, id)}
           T == {i \in DOMAIN all : Has(all[Len(all) + 1 - i], kind, id)}
           f == [i \in S |-> Len(all) + 1 - i]
<1>1. IsFiniteSet(S)
  <2>1. IsFiniteSet(DOMAIN all)
    BY FragmentFacts
  <2> QED
    BY <2>1, FS_Subset
<1>2. \A i \in S : Len(all) + 1 - i \in T /\ Len(all) + 1 - (Len(all) + 1 - i) = i
  BY ReverseFacts
<1>3. \A i \in T : Len(all) + 1 - i \in S /\ Len(all) + 1 - (Len(all) + 1 - i) = i
  BY ReverseFacts
<1>4. Count(all, kind, id) = Cardinality(S)
  BY DEF Count
<1>5. Count(Reverse(all), kind, id) = Cardinality(T)
  <2>1. {i \in DOMAIN Reverse(all) : Has(Reverse(all)[i], kind, id)} = T
    BY ReverseFacts
  <2> HIDE DEF T
  <2> QED
    BY <2>1 DEF Count
<1> HIDE DEF S, T
<1>6. f \in [S -> T]
  BY <1>2
<1>7. ASSUME NEW i \in S, NEW j \in S, f[i] = f[j] PROVE i = j
  <2>1. Len(all) + 1 - i = Len(all) + 1 - j
    BY <1>7
  <2> QED
    BY <1>2, <2>1
<1>8. ASSUME NEW t \in T PROVE \E i \in S : f[i] = t
  <2>1. Len(all) + 1 - t \in S /\ f[Len(all) + 1 - t] = t
    BY <1>3
  <2> QED
    BY <2>1
<1> HIDE DEF f
<1>9. Cardinality(T) = Cardinality(S)
  BY <1>1, <1>6, <1>7, <1>8, SameSize
<1> QED
  BY <1>4, <1>5, <1>9

(* so that each is rewritten as it was. *)
LEMMA RewriteReversed ==
  ASSUME NEW Names, NEW all \in Seq(FragmentsOf(Names)), NEW f
  PROVE  /\ \A kind, id : Mapped(Reverse(all), f, kind, id) = Mapped(all, f, kind, id)
         /\ RewriteDoc(Reverse(all), f) = RewriteDoc(all, f)
<1> DEFINE rev == Reverse(all)
<1>1. \A kind, id : Count(rev, kind, id) = Count(all, kind, id)
  BY CountReversed
<1> HIDE DEF rev
<1>2. \A kind, id : Mapped(rev, f, kind, id) = Mapped(all, f, kind, id)
  BY <1>1 DEF Mapped
<1>3. \A id : MappedAny(rev, f, id) = MappedAny(all, f, id)
  BY <1>2 DEF MappedAny
<1>4. \A kind, id : MappedEnd(rev, f, kind, id) = MappedEnd(all, f, kind, id)
  BY <1>2, <1>3 DEF MappedEnd
<1>5. \A e : RewriteEdge(rev, f, e) = RewriteEdge(all, f, e)
  BY <1>4 DEF RewriteEdge
<1>6. ASSUME NEW r PROVE RewriteRecord(rev, f, r) = RewriteRecord(all, f, r)
  <2>1. {Ref(ref.kind, Mapped(rev, f, ref.kind, ref.id)) : ref \in r.refs}
          = {Ref(ref.kind, Mapped(all, f, ref.kind, ref.id)) : ref \in r.refs}
    BY <1>2
  <2> QED
    BY <1>2, <2>1 DEF RewriteRecord
<1>7. {RewriteRecord(rev, f, r) : r \in f.records} = {RewriteRecord(all, f, r) : r \in f.records}
  BY <1>6
<1>8. {RewriteEdge(rev, f, e) : e \in f.edges} = {RewriteEdge(all, f, e) : e \in f.edges}
  BY <1>5
<1>9. {[t EXCEPT !.anchor = Mapped(rev, f, "anchors", t.anchor)] : t \in f.facts}
        = {[t EXCEPT !.anchor = Mapped(all, f, "anchors", t.anchor)] : t \in f.facts}
  BY <1>2
<1> QED
  BY <1>2, <1>7, <1>8, <1>9 DEF RewriteDoc, rev

(* Unions over the places do not depend on their order. *)
LEMMA UnionReversed ==
  ASSUME NEW Names, NEW all \in Seq(FragmentsOf(Names)), NEW g, NEW h,
         \A i \in DOMAIN all : h[i] = g[Len(all) + 1 - i]
  PROVE  UNION {h[i] : i \in DOMAIN all} = UNION {g[i] : i \in DOMAIN all}
<1>1. \A i \in DOMAIN all : /\ Len(all) + 1 - i \in DOMAIN all
                            /\ Len(all) + 1 - (Len(all) + 1 - i) = i
  BY ReverseFacts
<1>2. \A i \in DOMAIN all : g[i] = h[Len(all) + 1 - i]
  BY <1>1
<1> QED
  BY <1>1, <1>2

(* The merged document is the same. *)
LEMMA OrderMakesNoDifference ==
  ASSUME NEW Names, NEW all \in Seq(FragmentsOf(Names))
  PROVE  Merged(Reverse(all)) = Merged(all)
<1> DEFINE rev == Reverse(all)
           n == Len(all) + 1
<1>1. /\ DOMAIN rev = DOMAIN all
      /\ \A i \in DOMAIN all : n - i \in DOMAIN all /\ n - (n - i) = i /\ rev[i] = all[n - i]
  BY ReverseFacts
<1>2. /\ \A f, kind, id : Mapped(rev, f, kind, id) = Mapped(all, f, kind, id)
      /\ \A f : RewriteDoc(rev, f) = RewriteDoc(all, f)
  BY RewriteReversed
<1> HIDE DEF rev
<1>3. \A i \in DOMAIN all : RewriteDoc(rev, rev[i]) = RewriteDoc(all, all[n - i])
  BY <1>1, <1>2
<1>4. UNION {RewriteDoc(rev, rev[i]).records : i \in DOMAIN rev}
        = UNION {RewriteDoc(all, all[i]).records : i \in DOMAIN all}
  <2> DEFINE g == [i \in DOMAIN all |-> RewriteDoc(all, all[i]).records]
             h == [i \in DOMAIN all |-> RewriteDoc(rev, rev[i]).records]
  <2>1. \A i \in DOMAIN all : h[i] = g[Len(all) + 1 - i]
    BY <1>1, <1>3
  <2>2. UNION {h[i] : i \in DOMAIN all} = UNION {g[i] : i \in DOMAIN all}
    <3> HIDE DEF g, h
    <3> QED
      BY <2>1, UnionReversed
  <2> QED
    BY <1>1, <2>2
<1>5. UNION {RewriteDoc(rev, rev[i]).edges : i \in DOMAIN rev}
        = UNION {RewriteDoc(all, all[i]).edges : i \in DOMAIN all}
  <2> DEFINE g == [i \in DOMAIN all |-> RewriteDoc(all, all[i]).edges]
             h == [i \in DOMAIN all |-> RewriteDoc(rev, rev[i]).edges]
  <2>1. \A i \in DOMAIN all : h[i] = g[Len(all) + 1 - i]
    BY <1>1, <1>3
  <2>2. UNION {h[i] : i \in DOMAIN all} = UNION {g[i] : i \in DOMAIN all}
    <3> HIDE DEF g, h
    <3> QED
      BY <2>1, UnionReversed
  <2> QED
    BY <1>1, <2>2
<1>6. UNION {RewriteDoc(rev, rev[i]).facts : i \in DOMAIN rev}
        = UNION {RewriteDoc(all, all[i]).facts : i \in DOMAIN all}
  <2> DEFINE g == [i \in DOMAIN all |-> RewriteDoc(all, all[i]).facts]
             h == [i \in DOMAIN all |-> RewriteDoc(rev, rev[i]).facts]
  <2>1. \A i \in DOMAIN all : h[i] = g[Len(all) + 1 - i]
    BY <1>1, <1>3
  <2>2. UNION {h[i] : i \in DOMAIN all} = UNION {g[i] : i \in DOMAIN all}
    <3> HIDE DEF g, h
    <3> QED
      BY <2>1, UnionReversed
  <2> QED
    BY <1>1, <2>2
<1>7. (\A i \in DOMAIN rev : rev[i].public) <=> (\A i \in DOMAIN all : all[i].public)
  BY <1>1
<1>8. Repeated(rev) <=> Repeated(all)
  <2> DEFINE Twice(s, i, j) ==
        \E r \in s[i].records, t \in s[j].records :
          /\ <<i, r>> # <<j, t>> /\ r.kind = t.kind
          /\ Mapped(all, s[i], r.kind, r.id) = Mapped(all, s[j], t.kind, t.id)
  <2>1. Repeated(all) <=> \E i, j \in DOMAIN all : Twice(all, i, j)
    BY DEF Repeated
  <2>2. Repeated(rev) <=> \E i, j \in DOMAIN all : Twice(rev, i, j)
    BY <1>1, <1>2 DEF Repeated
  <2>3. \A i, j \in DOMAIN all : n - i = n - j => i = j
    BY <1>1
  <2>4. ASSUME NEW i \in DOMAIN all, NEW j \in DOMAIN all
        PROVE  Twice(rev, i, j) <=> Twice(all, n - i, n - j)
    <3>1. rev[i] = all[n - i] /\ rev[j] = all[n - j] /\ (n - i = n - j <=> i = j)
      BY <1>1, <2>3
    <3> HIDE DEF n
    <3> QED
      BY <3>1
  <2> HIDE DEF Twice, n
  <2>5. ASSUME NEW i \in DOMAIN all, NEW j \in DOMAIN all, Twice(all, i, j)
        PROVE  Twice(rev, n - i, n - j)
    <3>1. n - i \in DOMAIN all /\ n - j \in DOMAIN all /\ n - (n - i) = i /\ n - (n - j) = j
      BY <1>1
    <3>2. Twice(rev, n - i, n - j) <=> Twice(all, n - (n - i), n - (n - j))
      BY <2>4, <3>1
    <3> QED
      BY <2>5, <3>1, <3>2
  <2> QED
    BY <1>1, <2>1, <2>2, <2>4, <2>5
<1>9. Repeated(rev) = Repeated(all) /\ (\A i \in DOMAIN rev : rev[i].public) = (\A i \in DOMAIN all : all[i].public)
  <2>1. Repeated(rev) \in BOOLEAN /\ Repeated(all) \in BOOLEAN
    BY DEF Repeated
  <2> QED
    BY <1>7, <1>8, <2>1
<1>10. ASSUME NEW s
       PROVE  Merged(s) = [public |-> \A i \in DOMAIN s : s[i].public,
                           records |-> UNION {RewriteDoc(s, s[i]).records : i \in DOMAIN s},
                           edges |-> UNION {RewriteDoc(s, s[i]).edges : i \in DOMAIN s},
                           facts |-> UNION {RewriteDoc(s, s[i]).facts : i \in DOMAIN s},
                           repeated |-> Repeated(s)]
  <2> DEFINE rewritten == [i \in DOMAIN s |-> RewriteDoc(s, s[i])]
  <2>1. DOMAIN rewritten = DOMAIN s /\ \A i \in DOMAIN s : rewritten[i] = RewriteDoc(s, s[i])
    OBVIOUS
  <2>2. /\ UNION {rewritten[i].records : i \in DOMAIN rewritten} = UNION {RewriteDoc(s, s[i]).records : i \in DOMAIN s}
        /\ UNION {rewritten[i].edges : i \in DOMAIN rewritten} = UNION {RewriteDoc(s, s[i]).edges : i \in DOMAIN s}
        /\ UNION {rewritten[i].facts : i \in DOMAIN rewritten} = UNION {RewriteDoc(s, s[i]).facts : i \in DOMAIN s}
    <3> HIDE DEF rewritten
    <3> QED
      BY <2>1
  <2> QED
    BY <2>2 DEF Merged, Together
<1> QED
  BY <1>4, <1>5, <1>6, <1>9, <1>10 DEF rev

(* A merge that is accepted keeps every record once, what every reference means and what is
   said of every anchor, in any order of the fragments (merge_fragments of
   index_merge.rs), whatever their records, references and facts. *)
THEOREM FaithfulMerge ==
  ASSUME NEW Names, NEW all \in Seq(FragmentsOf(Names))
  PROVE  KeepsMeaning(all)
<1> SUFFICES ASSUME Accepted(all)
             PROVE  /\ Cardinality(Merged(all).records)
                         = Cardinality(UNION {{i} \X all[i].records : i \in DOMAIN all})
                    /\ \A i \in DOMAIN all :
                         /\ \A r \in all[i].records : \A ref \in r.refs : Keeps(all, all[i], ref.kind, ref.id)
                         /\ \A e \in all[i].edges :
                              /\ Ends(e.rel)[1] # "any" => Keeps(all, all[i], Ends(e.rel)[1], e.from)
                              /\ Ends(e.rel)[2] # "any" => Keeps(all, all[i], Ends(e.rel)[2], e.to)
                         /\ \A t \in all[i].facts :
                              /\ Has(all[i], "anchors", t.anchor) => Keeps(all, all[i], "anchors", t.anchor)
                              /\ \A u \in Merged(all).facts :
                                   u.anchor = Mapped(all, all[i], "anchors", t.anchor) /\ u.place = t.place
                                     => u.says = t.says
                    /\ Merged(Reverse(all)) = Merged(all)
  BY Zenon DEF KeepsMeaning, Keeps
<1>1. Checked(Merged(all)) /\ ~Conflict(Merged(all).facts) /\ ~Repeated(all)
  BY MergedAre DEF Accepted, Checked
<1>2. \A i \in DOMAIN all : \A t \in all[i].facts : t.anchor \in Unqualified(Names)
  BY FragmentFacts
<1>3. \A i \in DOMAIN all : \A t \in all[i].facts :
        Has(all[i], "anchors", t.anchor) => Keeps(all, all[i], "anchors", t.anchor)
  BY <1>2, OwnReferenceKept
<1> QED
  BY <1>1, <1>3, RecordsKept, RecordReferencesKept, EdgeEndsKept, FactsKept, OrderMakesNoDifference

(***************************************************************************)
(* The gate on overlap.                                                    *)
(***************************************************************************)

(* Inputs as they are read: the members of a report are of four classes. *)
InputsOf(Docs, Trees, Reports, Policies, Exceptions) ==
  {in \in [doc : Docs, sources : Trees, report : Reports, policy : Policies, exceptions : SUBSET Exceptions] :
     \A c \in in.report.clusters : \A m \in c.members : m.class \in Decided \cup {"candidate", "regression"}}

(* What has one member has a member. *)
LEMMA NoneHasSizeOne == Cardinality({}) # 1
BY FS_EmptySet

(* Every cluster has a member. *)
LEMMA ClustersHaveMembers ==
  ASSUME NEW doc, NEW sources, PlacesFound(doc, sources),
         NEW c \in Structural(doc, sources)
  PROVE  \E at : Candidate(at) \in c.members
<1>1. CASE c \in ImplementationClusters(doc, sources)
  <2> DEFINE items == {r \in doc.relations : r.protocol # Unresolved /\ ~r.truncated /\ r.long}
             P(r) == ImplementationSource(sources, Crate(doc, r.anchor), r.symbol)
  <2>1. PICK i \in {ImplementationId(r) : r \in {r \in items : \E s \in items : s # r /\ ImplementationId(s) = ImplementationId(r)}} :
          c = [id |-> i, members |-> {Candidate(at) : at \in UNION {P(r) : r \in {r \in items : ImplementationId(r) = i}}}]
    BY <1>1 DEF ImplementationClusters, Grouped
  <2>2. PICK r \in items : ImplementationId(r) = i
    BY <2>1
  <2>3. Cardinality(P(r)) = 1
    BY <1>1, <2>1, <2>2 DEF PlacesFound
  <2>4. PICK at : at \in P(r)
    BY <2>3, NoneHasSizeOne
  <2>5. Candidate(at) \in c.members
    BY <2>1, <2>2, <2>4
  <2> QED
    BY <2>5
<1>2. CASE c \in RecordClusters(doc, sources)
  <2> DEFINE items == WideRecords(doc)
             P(d) == DeclarationSource(sources, Crate(doc, d.anchor), d.path, d.symbol)
  <2>1. PICK i \in {RecordId(r) : r \in {r \in items : \E s \in items : s # r /\ RecordId(s) = RecordId(r)}} :
          c = [id |-> i, members |-> {Candidate(at) : at \in UNION {P(r) : r \in {r \in items : RecordId(r) = i}}}]
    BY <1>2 DEF RecordClusters, Grouped
  <2>2. PICK r \in items : RecordId(r) = i
    BY <2>1
  <2>3. Cardinality(P(r)) = 1
    BY <2>2 DEF PlacesFound
  <2>4. PICK at : at \in P(r)
    BY <2>3, NoneHasSizeOne
  <2>5. Candidate(at) \in c.members
    BY <2>1, <2>2, <2>4
  <2> QED
    BY <2>5
<1> QED
  BY <1>1, <1>2 DEF Structural

(* Each candidate of a cluster is judged. *)
LEMMA CandidateIsJudged ==
  ASSUME NEW exceptions, NEW clusters, NEW c \in clusters, NEW m \in c.members
  PROVE  \E d \in Classified(exceptions, clusters) : Judged(exceptions, c.id, m) \in d.members
<1>1. [id |-> c.id, members |-> {Judged(exceptions, c.id, n) : n \in c.members}] \in Classified(exceptions, clusters)
  BY DEF Classified
<1> QED
  BY <1>1

(* Judging leaves a member where it is. *)
LEMMA PlaceStays ==
  ASSUME NEW exceptions, NEW id, NEW at
  PROVE  /\ Judged(exceptions, id, Candidate(at)).repo = at.repo
         /\ Judged(exceptions, id, Candidate(at)).path = at.path
BY DEF Judged, Candidate

(* A run that passes has an exception for every cluster, and one only. *)
LEMMA PassIsExcepted ==
  ASSUME NEW in, StrictPasses(in), NEW c \in Structural(in.doc, in.sources)
  PROVE  c.id \in Reasons(in)
<1>1. PICK at : Candidate(at) \in c.members
  BY ClustersHaveMembers DEF StrictPasses
<1>2. SUFFICES ASSUME \A e \in in.exceptions : e.id # c.id PROVE FALSE
  BY DEF Reasons
<1> DEFINE clusters == Structural(in.doc, in.sources)
<1>3. Judged(in.exceptions, c.id, Candidate(at)) = Candidate(at)
  <2>1. {e \in in.exceptions : e.id = c.id} = {}
    BY <1>2
  <2> QED
    BY <2>1 DEF Judged
<1>4. PICK d \in Classified(in.exceptions, clusters) : Candidate(at) \in d.members
  BY <1>1, <1>3, CandidateIsJudged
<1>5. MemberFound(in.doc, in.sources, Candidate(at))
  BY DEF MemberFound, Candidate
<1> QED
  BY <1>4, <1>5 DEF StrictPasses

(* The place of a kept member is answered for, or in a repository that owns its members. *)
LEMMA KeptIsAnswered ==
  ASSUME NEW in, NEW at, at.repo \in DOMAIN in.sources.packages, NEW m,
         m.repo = at.repo, m.path = at.path, ~MemberFound(in.doc, in.sources, m)
  PROVE  at.repo \in MemberOwned \/ AnsweredFor(in, at)
<1>1. SUFFICES ASSUME at.repo \notin MemberOwned PROVE AnsweredFor(in, at)
  OBVIOUS
<1> DEFINE subjects == MemberSubject(in.doc, in.sources, m)
           holding == {p \in in.sources.packages[m.repo] : IsPrefix(p.root, m.path)}
           deepest == {p \in holding : \A q \in holding : Len(q.root) <= Len(p.root)}
<1>2. Cardinality(subjects) = 1 /\ \A s \in subjects : FeaturesFor(in.doc, s) # {}
  BY <1>1 DEF MemberFound, AllowedUnmapped
<1>3. PICK s : s \in subjects
  BY <1>2, NoneHasSizeOne
<1>4. s \in in.doc.subjects /\ \E p \in PackageFor(in.sources, m.repo, m.path) : s.crate = p /\ s.repo \in {"", m.repo}
  BY <1>3 DEF MemberSubject
<1>5. PICK p \in deepest : s.crate = p.name /\ s.repo \in {"", m.repo}
  BY <1>4 DEF PackageFor
<1>6. PICK f \in in.doc.features : f.subject = s \/ \E a \in f.anchors : in.doc.anchors[a].subject = s
  BY <1>2, <1>3 DEF FeaturesFor
<1>7. \A q \in in.sources.packages[at.repo] : IsPrefix(q.root, at.path) => Len(q.root) <= Len(p.root)
  BY <1>5
<1> QED
  BY <1>4, <1>5, <1>6, <1>7 DEF AnsweredFor

(* run of index_overlap.rs with --strict, of any document, sources, report, policy and
   exceptions: a pass leaves no twins undecided or unanswered for, and needs each of its
   exceptions. *)
THEOREM DecidedPass ==
  ASSUME NEW Docs, NEW Trees, NEW Reports, NEW Policies, NEW Exceptions,
         NEW in \in InputsOf(Docs, Trees, Reports, Policies, Exceptions)
  PROVE  PassMeansDecided(in)
<1> SUFFICES ASSUME StrictPasses(in) PROVE
    /\ \A r, s \in in.doc.relations : Twins(r, s) =>
         /\ ImplementationId(r) \in Reasons(in)
         /\ \A at \in ImplementationSource(in.sources, Crate(in.doc, r.anchor), r.symbol) :
              at.repo \in MemberOwned \/ AnsweredFor(in, at)
    /\ \A e \in in.exceptions : ~StrictPasses([in EXCEPT !.exceptions = @ \ {e}])
    /\ \A c \in in.report.clusters : \A m \in c.members : m.class \in Decided
  BY DEF PassMeansDecided
<1> DEFINE clusters == Structural(in.doc, in.sources)
<1>1. ASSUME NEW r \in in.doc.relations, NEW s \in in.doc.relations, Twins(r, s)
      PROVE  /\ ImplementationId(r) \in Reasons(in)
             /\ \A at \in ImplementationSource(in.sources, Crate(in.doc, r.anchor), r.symbol) :
                  at.repo \in MemberOwned \/ AnsweredFor(in, at)
  <2> DEFINE items == {t \in in.doc.relations : t.protocol # Unresolved /\ ~t.truncated /\ t.long}
             P(t) == ImplementationSource(in.sources, Crate(in.doc, t.anchor), t.symbol)
             M(i) == {Candidate(at) : at \in UNION {P(t) : t \in {t \in items : ImplementationId(t) = i}}}
             C(i) == [id |-> i, members |-> M(i)]
             id == ImplementationId(r)
  <2>1. r \in items /\ s \in items /\ s # r /\ ImplementationId(s) = id
    BY <1>1 DEF Twins, ImplementationId
  <2>2. id \in {ImplementationId(t) : t \in {t \in items : \E u \in items : u # t /\ ImplementationId(u) = ImplementationId(t)}}
    BY <2>1
  <2>3. C(id) \in clusters
    BY <2>2 DEF Structural, ImplementationClusters, Grouped
  <2>4. C(id).id \in Reasons(in)
    BY <2>3, PassIsExcepted
  <2>5. ASSUME NEW at \in P(r)
        PROVE  at.repo \in MemberOwned \/ AnsweredFor(in, at)
    <3>1. Candidate(at) \in C(id).members
      BY <2>1
    <3> DEFINE m == Judged(in.exceptions, id, Candidate(at))
    <3>2. PICK d \in Classified(in.exceptions, clusters) : m \in d.members
      <4> HIDE DEF clusters, M
      <4> QED
        BY <2>3, <3>1, CandidateIsJudged
    <3>3. ~MemberFound(in.doc, in.sources, m)
      <4> HIDE DEF m
      <4> QED
        BY <3>2 DEF StrictPasses
    <3>4. m.repo = at.repo /\ m.path = at.path
      BY PlaceStays
    <3>6. at.repo \in DOMAIN in.sources.packages
      BY DEF ImplementationSource
    <3> QED
      BY <3>3, <3>4, <3>6, KeptIsAnswered
  <2> QED
    BY <2>4, <2>5
<1>2. ASSUME NEW e \in in.exceptions, StrictPasses([in EXCEPT !.exceptions = @ \ {e}])
      PROVE  FALSE
  <2> DEFINE less == [in EXCEPT !.exceptions = @ \ {e}]
  <2>1. less.doc = in.doc /\ less.sources = in.sources /\ less.exceptions = in.exceptions \ {e}
    BY DEF InputsOf
  <2>2. PICK c \in clusters : c.id = e.id
    BY DEF StrictPasses, Stale
  <2>3. c.id \in Reasons(less)
    <3> HIDE DEF less
    <3> QED
      BY <1>2, <2>1, PassIsExcepted DEF less
  <2>4. PICK f \in in.exceptions \ {e} : f.id = e.id
    BY <2>1, <2>2, <2>3 DEF Reasons
  <2> QED
    BY <2>4 DEF StrictPasses, ExceptionsOK
<1>3. ASSUME NEW c \in in.report.clusters, NEW m \in c.members
      PROVE  m.class \in Decided
  BY DEF StrictPasses, MemberFound, InputsOf
<1> QED
  BY <1>1, <1>2, <1>3

(***************************************************************************)
(* The resolver of a documentation run.                                    *)
(***************************************************************************)

(* A farm as it is read: entries are of three kinds, and what a target names is a file. *)
IsFarm(farm) ==
  \A id \in DOMAIN farm.packages :
    /\ \A e \in farm.packages[id].entries : e.is \in {"manifest", "file", "link"}
    /\ \A t \in farm.packages[id].targets : t # <<>>

Links(package) == {e \in package.entries : e.is = "link"}

(* A package is of the repository when all that it links to is. *)
LEMMA HereIs ==
  ASSUME NEW farm, NEW package, ~Belongs(farm, package).refused
  PROVE  Belongs(farm, package).here <=> \A e \in Links(package) : e.to[1] = Repo
<1> DEFINE links == {e \in package.entries : e.is = "link"}
           inside == {e \in links : e.to[1] = Repo}
           refused == \/ \E e \in package.entries : e.is = "file"
                      \/ \E e \in links : ~Exists(farm, e.to)
                      \/ links = {} \/ inside \notin {{}, links}
<1>1. Belongs(farm, package) = IF refused THEN Refused ELSE [refused |-> FALSE, here |-> inside = links]
  BY DEF Belongs
<1>2. Refused.refused
  BY DEF Refused
<1> HIDE DEF refused
<1>3. Belongs(farm, package) = [refused |-> FALSE, here |-> inside = links]
  BY <1>1, <1>2
<1>4. links # {} /\ (inside = links <=> \A e \in links : e.to[1] = Repo)
  BY <1>1, <1>2, <1>3 DEF refused
<1>5. Links(package) = links
  BY DEF Links
<1>6. Belongs(farm, package).here = (inside = links)
  BY <1>3
<1> QED
  BY <1>4, <1>5, <1>6

(* What is bound of a link is what is there. *)
LEMMA BoundIs ==
  ASSUME NEW farm, NEW entry
  PROVE  /\ {<<b.as, b.file.content>> : b \in Bound(farm, entry).files}
              = {<<<<entry.name>> \o SubSeq(f.path, Len(entry.to) + 1, Len(f.path)), f.content>> :
                   f \in At(farm, entry.to) \cup Beneath(farm, entry.to)}
         /\ {b.file : b \in Bound(farm, entry).files} = At(farm, entry.to) \cup Beneath(farm, entry.to)
<1> DEFINE S == At(farm, entry.to) \cup Beneath(farm, entry.to)
           name(f) == <<entry.name>> \o SubSeq(f.path, Len(entry.to) + 1, Len(f.path))
           row(f) == [as |-> name(f), file |-> f]
           files == Bound(farm, entry).files
<1>1. files = {row(f) : f \in S}
  BY DEF Bound
<1> HIDE DEF S, name, files
<1>0. \A f \in S : row(f).as = name(f) /\ row(f).file = f
  OBVIOUS
<1> HIDE DEF row
<1>2. {<<b.as, b.file.content>> : b \in files} = {<<name(f), f.content>> : f \in S}
  BY <1>1, <1>0
<1>3. {b.file : b \in files} = S
  BY <1>1, <1>0
<1> QED
  BY <1>2, <1>3 DEF S, name, files

(* A link that is bound holds files that git tracks, and nested locks. *)
LEMMA BoundIsOwned ==
  ASSUME NEW farm, NEW entry, Bound(farm, entry).ok,
         NEW f \in At(farm, entry.to) \cup Beneath(farm, entry.to)
  PROVE  f \in farm.files /\ (Owned(f) \/ Last(f.path) = "lock")
<1>1. f \in farm.files
  BY DEF At, Beneath
<1>2. /\ \A g \in At(farm, entry.to) : Owned(g)
      /\ \A g \in Beneath(farm, entry.to) : Owned(g) \/ IsNestedLockfile(farm, g)
  BY DEF Bound
<1> QED
  BY <1>1, <1>2 DEF IsNestedLockfile

(* What the files of a package are, when they are not refused. *)
LEMMA FilesAre ==
  ASSUME NEW farm, NEW package, ~PackageFiles(farm, package).refused
  PROVE  /\ PackageFiles(farm, package).files
              = {[as |-> <<e.name>>, file |-> Generated(package)] : e \in {d \in package.entries : d.is = "manifest"}}
                  \cup UNION {Bound(farm, e).files : e \in Links(package)}
         /\ \A e \in package.entries : e.is # "file"
         /\ \A e \in Links(package) : Bound(farm, e).ok
<1> DEFINE links == {e \in package.entries : e.is = "link"}
           own == {[as |-> <<e.name>>, file |-> Generated(package)] : e \in {d \in package.entries : d.is = "manifest"}}
           all == own \cup UNION {Bound(farm, e).files : e \in links}
           bad == (\E e \in package.entries : e.is = "file") \/ \E e \in links : ~Bound(farm, e).ok
<1>1. PackageFiles(farm, package) = IF bad THEN Refused ELSE [refused |-> FALSE, files |-> all]
  BY DEF PackageFiles
<1>2. Refused.refused
  BY DEF Refused
<1> HIDE DEF all
<1>3. ~bad /\ PackageFiles(farm, package).files = all
  BY <1>1, <1>2
<1> QED
  BY <1>3 DEF Links, all

(* The files of a package that is not refused are what cargo reads for it. *)
LEMMA FilesAreReads ==
  ASSUME NEW farm, IsFarm(farm), NEW id \in DOMAIN farm.packages, ~PackageFiles(farm, farm.packages[id]).refused
  PROVE  {<<b.as, b.file.content>> : b \in PackageFiles(farm, farm.packages[id]).files} = Reads(farm, id)
<1> DEFINE package == farm.packages[id]
           text(b) == <<b.as, b.file.content>>
           own == {[as |-> <<e.name>>, file |-> Generated(package)] : e \in {d \in package.entries : d.is = "manifest"}}
           through(e) == {<<<<e.name>> \o SubSeq(f.path, Len(e.to) + 1, Len(f.path)), f.content>> :
                            f \in At(farm, e.to) \cup Beneath(farm, e.to)}
           read(e) == CASE e.is = "manifest" -> {<<<<e.name>>, package.generated>>}
                        [] e.is = "file" -> {<<<<e.name>>, e.content>>}
                        [] e.is = "link" -> through(e)
<1>1. /\ PackageFiles(farm, package).files = own \cup UNION {Bound(farm, e).files : e \in Links(package)}
      /\ \A e \in package.entries : e.is # "file"
  BY FilesAre
<1>2. Reads(farm, id) = UNION {read(e) : e \in package.entries}
  BY DEF Reads
<1>3. \A e \in Links(package) : {text(b) : b \in Bound(farm, e).files} = through(e)
  BY BoundIs
<1>4. {text(b) : b \in own} = {<<<<e.name>>, package.generated>> : e \in {d \in package.entries : d.is = "manifest"}}
  <2> DEFINE row(e) == [as |-> <<e.name>>, file |-> Generated(package)]
             D == {d \in package.entries : d.is = "manifest"}
  <2>1. Generated(package).content = package.generated
    BY DEF Generated
  <2>2. \A e : row(e).as = <<e.name>> /\ row(e).file = Generated(package)
    OBVIOUS
  <2>3. own = {row(e) : e \in D}
    OBVIOUS
  <2> HIDE DEF row, D, own
  <2>4. {text(b) : b \in own} = {<<<<e.name>>, package.generated>> : e \in D}
    BY <2>1, <2>2, <2>3
  <2> QED
    BY <2>4 DEF D
<1>5. \A e \in package.entries : e.is \in {"manifest", "link"}
  BY <1>1 DEF IsFarm
<1>6. \A e \in package.entries : /\ e.is = "manifest" => read(e) = {<<<<e.name>>, package.generated>>}
                                 /\ e.is = "link" => read(e) = through(e)
  OBVIOUS
<1>7. Links(package) = {e \in package.entries : e.is = "link"}
  BY DEF Links
<1>8. {text(b) : b \in PackageFiles(farm, package).files}
        = {text(b) : b \in own} \cup UNION {{text(b) : b \in Bound(farm, e).files} : e \in Links(package)}
  <2> DEFINE B(e) == Bound(farm, e).files
  <2> HIDE DEF text, own, B
  <2>1. PackageFiles(farm, package).files = own \cup UNION {B(e) : e \in Links(package)}
    BY <1>1 DEF B
  <2> HIDE DEF package
  <2>2. \A x : x \in {text(b) : b \in own \cup UNION {B(e) : e \in Links(package)}}
                 <=> x \in {text(b) : b \in own} \cup UNION {{text(b) : b \in B(e)} : e \in Links(package)}
    OBVIOUS
  <2> QED
    BY <2>1, <2>2 DEF B
<1> HIDE DEF text, own, through, read, package
<1>9. UNION {{text(b) : b \in Bound(farm, e).files} : e \in Links(package)} = UNION {through(e) : e \in Links(package)}
  BY <1>3
<1>10. {text(b) : b \in own} \cup UNION {through(e) : e \in Links(package)} = UNION {read(e) : e \in package.entries}
  BY <1>4, <1>5, <1>6, <1>7
<1> QED
  BY <1>2, <1>8, <1>9, <1>10 DEF package, text

(* validate of resolver_input.rs: whatever the farm and the names a repository declares, an
   accepted resolver's identity binds all that cargo reads for it, each a tracked file or a
   nested lock, and nothing of a namesake. *)
THEOREM BoundReads ==
  ASSUME NEW farm, IsFarm(farm), NEW names
  PROVE  IdentityBindsReads(farm, names)
<1> DEFINE v == Validate(farm, names)
           pack(id) == farm.packages[id]
           wanted == Candidates(farm, names)
           belongs(id) == Belongs(farm, pack(id))
           kept == {id \in wanted : belongs(id).here}
           local == {id \in DOMAIN farm.packages : pack(id).local /\ id \in Reached(farm, kept)}
           bound(id) == PackageFiles(farm, pack(id))
           header(id) == <<pack(id).name, pack(id).version>>
           bytes(id) == {<<b.as, b.file.content>> : b \in bound(id).files}
           links(id) == {e \in pack(id).entries : e.is = "link"}
           ours == {id \in wanted : \A e \in links(id) : e.to[1] = Repo}
           read == {id \in DOMAIN farm.packages : pack(id).local /\ id \in Reached(farm, ours)}
           vouched(f) == f.is = "file" /\ (f.tracked \/ Last(f.path) = "lock")
           unbound(id) == \/ ~TargetsBound(pack(id), bound(id).files)
                          \/ \E b \in bound(id).files : b.file.is # "file"
           identity == [refused |-> FALSE, manifest |-> farm.manifest, lock |-> farm.lock,
                        selected |-> {pack(id).name : id \in kept}, closure |-> {<<header(id), bytes(id)>> : id \in local}]
<1>1. v = IF \E id \in wanted : belongs(id).refused THEN Refused
          ELSE IF kept = {} \/ (\E id \in local : bound(id).refused) THEN Refused
          ELSE IF \E id \in local : unbound(id) THEN Refused
          ELSE identity
  BY DEF Validate
<1>2. Refused.refused
  BY DEF Refused
<1> SUFFICES ASSUME ~v.refused
             PROVE  /\ ours # {} /\ v.selected = {pack(id).name : id \in ours}
                    /\ v.closure = {<<header(id), Reads(farm, id)>> : id \in read}
                    /\ \A id \in read : \A e \in links(id) : \A f \in At(farm, e.to) \cup Beneath(farm, e.to) : vouched(f)
                    /\ \A id \in read : \A t \in pack(id).targets : \E f \in At(farm, t) : vouched(f)
  BY DEF IdentityBindsReads
<1>3. /\ \A id \in wanted : ~belongs(id).refused
      /\ kept # {} /\ \A id \in local : ~bound(id).refused /\ ~unbound(id)
      /\ v.selected = {pack(id).name : id \in kept} /\ v.closure = {<<header(id), bytes(id)>> : id \in local}
  <2> HIDE DEF wanted, belongs, kept, local, bound, unbound, header, bytes, pack, v
  <2>1. /\ \A id \in wanted : ~belongs(id).refused
        /\ kept # {} /\ \A id \in local : ~bound(id).refused /\ ~unbound(id)
        /\ v = identity
    BY <1>1, <1>2
  <2> QED
    BY <2>1
<1>4. kept = ours
  <2>1. \A id \in wanted : belongs(id).here <=> \A e \in links(id) : e.to[1] = Repo
    BY <1>3, HereIs DEF Links
  <2> QED
    BY <2>1
<1>5. local = read
  BY <1>4
<1>6. \A id \in read : bytes(id) = Reads(farm, id)
  BY <1>3, <1>5, FilesAreReads
<1>7. ASSUME NEW id \in read, NEW e \in links(id), NEW f \in At(farm, e.to) \cup Beneath(farm, e.to)
      PROVE  vouched(f)
  <2>1. ~bound(id).refused /\ ~unbound(id) /\ id \in DOMAIN farm.packages
    BY <1>3, <1>5
  <2>2. /\ Bound(farm, e).ok /\ e \in Links(pack(id))
        /\ Bound(farm, e).files \subseteq bound(id).files
    <3>1. e \in Links(pack(id))
      BY DEF Links
    <3> QED
      BY <2>1, <3>1, FilesAre
  <2>3. PICK b \in Bound(farm, e).files : b.file = f
    <3>1. f \in {b.file : b \in Bound(farm, e).files}
      BY BoundIs
    <3> QED
      BY <3>1
  <2>4. f.is = "file"
    BY <2>1, <2>2, <2>3
  <2>5. Owned(f) \/ Last(f.path) = "lock"
    BY <2>2, BoundIsOwned
  <2> QED
    BY <2>4, <2>5 DEF Owned
<1>8. ASSUME NEW id \in read, NEW t \in pack(id).targets
      PROVE  \E f \in At(farm, t) : vouched(f)
  <2>1. ~bound(id).refused /\ ~unbound(id) /\ id \in DOMAIN farm.packages
    BY <1>3, <1>5
  <2>2. PICK b \in bound(id).files : b.file.path = t
    BY <2>1 DEF TargetsBound
  <2>3. t # <<>>
    BY <2>1 DEF IsFarm
  <2>4. PICK e \in Links(pack(id)) : b \in Bound(farm, e).files
    <3>1. \A d : [as |-> <<d.name>>, file |-> Generated(pack(id))].file.path = <<>>
      BY DEF Generated
    <3>2. \/ b \in {[as |-> <<d.name>>, file |-> Generated(pack(id))] : d \in {d \in pack(id).entries : d.is = "manifest"}}
          \/ b \in UNION {Bound(farm, e).files : e \in Links(pack(id))}
      BY <2>1, FilesAre
    <3> HIDE DEF pack
    <3>3. b \in UNION {Bound(farm, e).files : e \in Links(pack(id))}
      BY <2>2, <2>3, <3>1, <3>2
    <3> QED
      BY <3>3
  <2>5. b.file \in At(farm, e.to) \cup Beneath(farm, e.to)
    <3>1. b.file \in {c.file : c \in Bound(farm, e).files}
      BY <2>4
    <3> QED
      BY <3>1, BoundIs
  <2>6. b.file \in At(farm, t)
    BY <2>2, <2>5 DEF At, Beneath
  <2>7. vouched(b.file)
    <3>1. e \in links(id)
      BY DEF Links
    <3> QED
      BY <1>7, <2>5, <3>1
  <2> QED
    BY <2>6, <2>7
<1> HIDE DEF v, bytes, header, read, ours, pack, local, kept
<1>9. v.closure = {<<header(id), Reads(farm, id)>> : id \in read}
  BY <1>3, <1>5, <1>6
<1> QED
  BY <1>3, <1>4, <1>7, <1>8, <1>9

(***************************************************************************)
(* What a generator of the documentation writes.                           *)
(***************************************************************************)

Publish == INSTANCE Publication

(* A beginning of a path is a prefix of it, shorter than all of it. *)
LEMMA Beginnings ==
  ASSUME NEW Names, NEW path \in Seq(Names), NEW n \in 1..Len(path)
  PROVE  /\ Publish!IsPrefix(SubSeq(path, 1, n), path)
         /\ n < Len(path) => SubSeq(path, 1, n) # path
         /\ SubSeq(path, 1, Len(path)) = path
<1> DEFINE part == SubSeq(path, 1, n)
<1>1. part \in Seq(Names) /\ Len(part) = n /\ \A i \in 1..n : part[i] = path[i]
  BY SubSeqProperties
<1>2. SubSeq(part, 1, Len(part)) = part /\ SubSeq(path, 1, Len(path)) = path
  BY <1>1, SubSeqFull
<1> HIDE DEF part
<1>3. Publish!IsPrefix(part, path)
  BY <1>1, <1>2 DEF Publish!IsPrefix, part
<1>4. n < Len(path) => part # path
  BY <1>1
<1> QED
  BY <1>2, <1>3, <1>4 DEF part

(* write of publication.rs, with ensure_ordinary_target: whatever the tree, the text and the
   path, what is written is one file where the path says and the directories above it,
   through no link. *)
THEOREM OneFileWritten ==
  ASSUME NEW env, NEW literals, NEW tree, NEW text, NEW Names, NEW path \in Seq(Names)
  PROVE  Publish!WritesOneFile(env, literals, tree, path, text)
<1> DEFINE w == Publish!Write(env, literals, tree, path, text)
           parents == {SubSeq(path, 1, n) : n \in 1..(Len(path) - 1)}
           made == [p \in DOMAIN tree \cup parents |-> IF p \in DOMAIN tree THEN tree[p] ELSE "dir"]
           after == [p \in DOMAIN made \cup {path} |-> IF p = path THEN "file" ELSE made[p]]
<1>1. w = IF ~Publish!Guard(env, literals, text, FALSE) \/ ~Publish!OrdinaryTarget(tree, path) THEN Publish!Refused
          ELSE IF (\E p \in parents : made[p] # "dir") \/ ~Publish!OrdinaryTarget(made, path) THEN Publish!Refused
          ELSE [refused |-> FALSE, tree |-> after]
  BY DEF Publish!Write
<1>2. Publish!Refused.refused
  BY DEF Publish!Refused
<1> SUFFICES ASSUME ~w.refused
             PROVE  /\ \A p \in DOMAIN tree : p # path => w.tree[p] = tree[p]
                    /\ \A p \in DOMAIN w.tree \ DOMAIN tree : Publish!IsPrefix(p, path)
                    /\ \A n \in 1..Len(path) : w.tree[SubSeq(path, 1, n)] = IF n = Len(path) THEN "file" ELSE "dir"
  BY DEF Publish!WritesOneFile
<1>3. (\A p \in parents : made[p] = "dir") /\ w.tree = after /\ path # <<>>
  <2> HIDE DEF parents, made, after, w
  <2>1. (\A p \in parents : made[p] = "dir") /\ Publish!OrdinaryTarget(tree, path) /\ w = [refused |-> FALSE, tree |-> after]
    BY <1>1, <1>2
  <2> QED
    BY <2>1 DEF Publish!OrdinaryTarget
<1> HIDE DEF w
<1>4. Len(path) \in Nat /\ Len(path) > 0
  BY <1>3, EmptySeq
<1>5. \A p \in DOMAIN tree : p # path => w.tree[p] = tree[p]
  BY <1>3
<1>6. ASSUME NEW p \in DOMAIN w.tree \ DOMAIN tree PROVE Publish!IsPrefix(p, path)
  <2>1. p \in parents \cup {path}
    BY <1>3
  <2>2. PICK n \in 1..Len(path) : p = SubSeq(path, 1, n)
    <3>1. CASE p = path
      <4>1. p = SubSeq(path, 1, Len(path)) /\ Len(path) \in 1..Len(path)
        BY <1>4, <3>1, Beginnings
      <4> QED
        BY <4>1
    <3>2. CASE p \in parents
      BY <1>4, <3>2
    <3> QED
      BY <2>1, <3>1, <3>2
  <2> QED
    BY <2>2, Beginnings
<1>7. ASSUME NEW n \in 1..Len(path)
      PROVE  w.tree[SubSeq(path, 1, n)] = IF n = Len(path) THEN "file" ELSE "dir"
  <2>1. CASE n = Len(path)
    BY <1>3, <2>1, Beginnings
  <2>2. CASE n # Len(path)
    <3>1. SubSeq(path, 1, n) # path /\ SubSeq(path, 1, n) \in parents
      BY <1>4, <2>2, Beginnings
    <3> QED
      BY <1>3, <2>2, <3>1
  <2> QED
    BY <2>1, <2>2
<1> QED
  BY <1>5, <1>6, <1>7
=============================================================================
