------------------------------- MODULE Simdoc -------------------------------
(***************************************************************************)
(* Runs of simdoc and simdoc --check in one checkout                       *)
(* (src/crates/simdoc/src/simdoc.rs with simdoc_rustdoc.rs,                *)
(* crate_catalog.rs, repo_contract.rs and cardspine_state.rs).             *)
(*                                                                         *)
(* A run verifies that the sources can be documented unless a fingerprint  *)
(* says it was done, brings the crate catalog up to date, projects the     *)
(* sources to the contract, and writes or checks the documentation lanes.  *)
(* A refresh leaves a card lane alone when .sim/cardspine-state.json says  *)
(* that the file there is the encoding of the cards there are.  People     *)
(* edit sources and lanes at any time, and processes die at any time.      *)
(***************************************************************************)
EXTENDS Naturals, FiniteSets, Sequences, TLC

CONSTANTS
  Runs,         \* invocations of simdoc
  Recipes,      \* what the recipe files may be, and with them the cards
  Packages,     \* what the rest of the sources may be
  Documentable, \* the packages for which cargo doc succeeds
  Nothing,      \* no file
  Torn,         \* a file that was being written when its writer died
  Reuse,        \* the lane is left as it is
  MaxEdits      \* bound on edits by people

Sources == [recipes : Recipes, packages : Packages, described : BOOLEAN]
Contracts == [first : Sources, hash : Sources, second : Sources]

CardLanes == {"cards", "index"}    \* docs/agents/cards.jsonl and card-index.json
Lanes == CardLanes \cup {"contract", "catalog"}
Order == <<"cards", "index", "contract">>

ASSUME SimdocAssumption ==
  /\ Documentable \subseteq Packages
  /\ Nothing # Torn /\ Torn # Reuse /\ Reuse # Nothing
  /\ MaxEdits \in Nat
  /\ {Nothing, Torn, Reuse} \cap (Recipes \cup Packages \cup Sources \cup Contracts) = {}

(* Runs differ in nothing but their names; for TLC. *)
RunSymmetry == Permutations(Runs)

VARIABLES
  source,    \* the tracked sources
  lane,      \* the generated files
  state,     \* .sim/cardspine-state.json
  cache,     \* target/.simdoc-docbuild-fingerprint
  check,     \* whether each run only checks
  pc,        \* what each run does next
  had,       \* what each run has read and made so far
  edits,     \* number of edits so far
  crossed,   \* history: the runs during which somebody else changed sources or lanes
  meddled    \* history: whether lanes were changed under a run by somebody else, or
             \* sources between the look of a run at them and cargo's

vars == <<source, lane, state, cache, check, pc, had, edits, crossed, meddled>>

Blank == [print |-> Nothing, names |-> Nothing, first |-> Nothing, hash |-> Nothing,
          second |-> Nothing, cards |-> Nothing, state |-> Nothing,
          plan |-> <<Nothing, Nothing, Nothing>>, next |-> 1]

Live(r) == pc[r] \notin {"start", "done", "failed"}
Goto(r, step) == pc' = [pc EXCEPT ![r] = step]
Keep(r, what) == had' = [had EXCEPT ![r] = what]

(* Encoded(l, s): what lane l is for sources s. *)
Contract(s) == [first |-> s, hash |-> s, second |-> s]
Encoded(l, s) == CASE l \in CardLanes -> s.recipes
                   [] l = "contract" -> Contract(s)
                   [] l = "catalog" -> s.packages

Current == source.described /\ \A l \in Lanes : lane[l] = Encoded(l, source)

(* What a state vouches for: card lanes for cards. *)
StateOf(cards, digests) == [ids |-> cards, digests |-> digests]

Init ==
  /\ source \in Sources
  /\ lane = [l \in Lanes |-> IF source.described THEN Encoded(l, source) ELSE Nothing]
  /\ state \in {Nothing} \cup {StateOf(c, [l \in CardLanes |-> c]) : c \in Recipes}
  /\ cache = Nothing
  /\ check \in [Runs -> BOOLEAN]
  /\ pc = [r \in Runs |-> "start"]
  /\ had = [r \in Runs |-> Blank]
  /\ edits = 0 /\ crossed = {} /\ meddled = FALSE

Others(r) == {q \in Runs \ {r} : Live(q)}

(* A run changes a file that other runs are working with. *)
Disturbs(r) == crossed' = crossed \cup Others(r) /\ meddled' = (meddled \/ Others(r) # {})

ReadsOnly == UNCHANGED <<source, lane, state, cache, check, edits, crossed, meddled>>

Forget(r) == Keep(r, Blank) /\ crossed' = crossed \ {r}

(* Any early return or failing call, and a crash; what was written stays. *)
Fail(r) ==
  /\ Live(r) /\ Goto(r, "failed") /\ Forget(r)
  /\ UNCHANGED <<source, lane, state, cache, check, edits, meddled>>
-----------------------------------------------------------------------------
(* cargo doc. *)

(* run_api_docs looks at its inputs, and skips cargo doc when the cache has their
   fingerprint; force is the other disjunct. *)
Fingerprint(r) ==
  /\ pc[r] = "start"
  /\ Keep(r, [had[r] EXCEPT !.print = source])
  /\ \/ Goto(r, "docs")
     \/ cache = source /\ Goto(r, "catalog")
  /\ ReadsOnly

(* Cargo reads the sources itself; the fingerprint that is kept was taken before. *)
BuildDocs(r) ==
  /\ pc[r] = "docs"
  /\ source.packages \in Documentable
  /\ cache' = had[r].print
  /\ Goto(r, "catalog")
  /\ Keep(r, [had[r] EXCEPT !.print = Nothing])
  /\ UNCHANGED <<source, lane, state, check, edits, crossed, meddled>>
-----------------------------------------------------------------------------
(* The crate catalog. *)

(* crate_catalog reads the packages; sync_manifest adds what a manifest lacks. *)
SyncManifest(r) ==
  /\ pc[r] = "catalog"
  /\ check[r] => source.described
  /\ source' = [source EXCEPT !.described = TRUE]
  /\ IF source' = source THEN UNCHANGED <<crossed, meddled>> ELSE Disturbs(r)
  /\ Keep(r, [had[r] EXCEPT !.names = source.packages])
  /\ Goto(r, "sync_catalogs")
  /\ UNCHANGED <<lane, state, cache, check, edits>>

(* sync_catalogs: the catalog is checked, or written when it differs. *)
SyncCatalogs(r) ==
  /\ pc[r] = "sync_catalogs"
  /\ check[r] => lane["catalog"] = had[r].names
  /\ lane' = [lane EXCEPT !["catalog"] = had[r].names]
  /\ IF lane' = lane THEN UNCHANGED <<crossed, meddled>> ELSE Disturbs(r)
  /\ Goto(r, "project")
  /\ UNCHANGED <<source, state, cache, check, had, edits>>
-----------------------------------------------------------------------------
(* contract_artifacts_observed. *)

(* Packages, citizens, exemptions, recipes and cards are read. *)
Project(r) ==
  /\ pc[r] = "project"
  /\ Keep(r, [had[r] EXCEPT !.first = source])
  /\ Goto(r, "measure")
  /\ ReadsOnly

(* Then the inputs are measured for the provenance, *)
Measure(r) ==
  /\ pc[r] = "measure"
  /\ Keep(r, [had[r] EXCEPT !.hash = source])
  /\ Goto(r, "fragment")
  /\ ReadsOnly

(* then the index fragment is read, *)
Fragment(r) ==
  /\ pc[r] = "fragment"
  /\ Keep(r, [had[r] EXCEPT !.second = source])
  /\ Goto(r, "confirm")
  /\ ReadsOnly

(* then ensure_inputs_unchanged measures them again.  Packages of the contract and of
   the catalog are compared later, in ensure_catalog_matches_contract. *)
Confirm(r) ==
  /\ pc[r] = "confirm"
  /\ source = had[r].hash
  /\ had[r].first.packages = had[r].names
  /\ Goto(r, "spine")
  /\ Keep(r, [had[r] EXCEPT !.names = Nothing])
  /\ ReadsOnly
-----------------------------------------------------------------------------
(* The lanes. *)

(* Mutant: a check trusts the local cache. *)
MutKnownState(r) == IF state = Torn THEN Nothing ELSE state

(* A refresh reads the state, a check does not.  What cannot be parsed is no state. *)
KnownState(r) == IF check[r] \/ state = Torn THEN Nothing ELSE state

(* CardSpine::for_repo lists the recipes once more, then the state is read. *)
ReadSpine(r) ==
  /\ pc[r] = "spine"
  /\ Keep(r, [had[r] EXCEPT !.cards = source.recipes, !.state = KnownState(r)])
  /\ Goto(r, "plan")
  /\ ReadsOnly

(* Mutant: a lane whose cards are unchanged is not looked at. *)
MutReusable(r, l) ==
  LET known == had[r].state IN
  /\ l \in CardLanes
  /\ known # Nothing
  /\ known.ids = had[r].cards
  /\ lane[l] # Nothing

(* can_reuse_card_lane: the cards have the ids of the state, and the file its digest. *)
Reusable(r, l) ==
  LET known == had[r].state IN
  /\ l \in CardLanes
  /\ known # Nothing
  /\ known.ids = had[r].cards
  /\ lane[l] # Nothing /\ lane[l] = known.digests[l]

(* expected_files: one file after the other. *)
Plan(r) ==
  LET l == Order[had[r].next]
      content == IF l = "contract"
                 THEN [first |-> had[r].first, hash |-> had[r].hash, second |-> had[r].second]
                 ELSE had[r].cards
      more == had[r].next < Len(Order)
  IN /\ pc[r] = "plan"
     /\ Keep(r, [had[r] EXCEPT
                   !.plan[had[r].next] = IF Reusable(r, l) THEN Reuse ELSE content,
                   !.first = IF more THEN @ ELSE Nothing,
                   !.hash = IF more THEN @ ELSE Nothing,
                   !.second = IF more THEN @ ELSE Nothing,
                   !.state = IF more THEN @ ELSE Nothing,
                   !.next = IF more THEN @ + 1 ELSE 1])
     /\ IF more THEN UNCHANGED pc ELSE Goto(r, "lanes")
     /\ ReadsOnly

(* write_files and check_files: a lane at a time; one that is reused is passed over. *)
Lane(r) ==
  LET l == Order[had[r].next]
      content == had[r].plan[had[r].next]
      more == had[r].next < Len(Order)
  IN /\ pc[r] = "lanes"
     /\ check[r] => content \in {Reuse, lane[l]}
     /\ lane' = IF content = Reuse THEN lane ELSE [lane EXCEPT ![l] = content]
     /\ IF lane' = lane THEN UNCHANGED <<crossed, meddled>> ELSE Disturbs(r)
     /\ Keep(r, [had[r] EXCEPT !.next = IF more THEN @ + 1 ELSE 1])
     /\ IF more THEN UNCHANGED pc ELSE Goto(r, "persist")
     /\ UNCHANGED <<source, state, cache, check, edits>>

(* persist_state, of a check too: the digest of a lane that was reused is read again. *)
Persist(r) ==
  /\ pc[r] = "persist"
  /\ \A i \in DOMAIN Order : had[r].plan[i] = Reuse => lane[Order[i]] # Nothing
  /\ state' = StateOf(had[r].cards,
                [l \in CardLanes |->
                   LET content == had[r].plan[CHOOSE i \in DOMAIN Order : Order[i] = l]
                   IN IF content = Reuse THEN lane[l] ELSE content])
  /\ Goto(r, "done") /\ Forget(r)
  /\ UNCHANGED <<source, lane, cache, check, edits, meddled>>

(* fs::write truncates before it writes: a crash leaves a part of the lane or state. *)
CrashInWrite(r) ==
  /\ ~check[r] /\ pc[r] \in {"lanes", "persist"}
  /\ IF pc[r] = "persist"
       THEN state' = Torn /\ UNCHANGED <<lane, crossed, meddled>>
       ELSE /\ had[r].plan[had[r].next] # Reuse
            /\ lane' = [lane EXCEPT ![Order[had[r].next]] = Torn]
            /\ Disturbs(r) /\ UNCHANGED state
  /\ Goto(r, "failed") /\ Keep(r, Blank)
  /\ UNCHANGED <<source, cache, check, edits>>
-----------------------------------------------------------------------------
(* People. *)

Edited ==
  /\ edits < MaxEdits
  /\ edits' = edits + 1
  /\ crossed' = crossed \cup {r \in Runs : Live(r)}
  /\ UNCHANGED <<state, cache, check, pc, had>>

EditSource ==
  /\ source' \in Sources \ {source}
  /\ meddled' = (meddled \/ \E r \in Runs : pc[r] = "docs")
  /\ Edited /\ UNCHANGED lane

(* A lane is edited or removed, or comes from another commit. *)
EditLane ==
  /\ \E l \in Lanes, content \in Recipes \cup {Nothing} : lane' = [lane EXCEPT ![l] = content]
  /\ lane' # lane
  /\ meddled' = (meddled \/ \E r \in Runs : Live(r))
  /\ Edited /\ UNCHANGED source
-----------------------------------------------------------------------------
RunStep(r) ==
  \/ Fail(r) \/ CrashInWrite(r)
  \/ Fingerprint(r) \/ BuildDocs(r)
  \/ SyncManifest(r) \/ SyncCatalogs(r)
  \/ Project(r) \/ Measure(r) \/ Fragment(r) \/ Confirm(r)
  \/ ReadSpine(r) \/ Plan(r) \/ Lane(r) \/ Persist(r)

Next == (\E r \in Runs : RunStep(r)) \/ EditSource \/ EditLane

Spec == Init /\ [][Next]_vars
-----------------------------------------------------------------------------
Succeeds(r) == pc[r] = "persist" /\ pc'[r] = "done"

(* A refresh that succeeds leaves every lane as its sources have it, when nobody changed
   them meanwhile: also after runs that crashed between two lanes or before the state was
   written (simdoc.rs:63), with a torn state, and with lanes or sources that were edited
   or taken from another commit between runs.  That lanes are never changed under a run
   is needed: the digest of a reused lane is read a second time (simdoc.rs:408). *)
RefreshIsCurrent ==
  [][\A r \in Runs : Succeeds(r) /\ ~check[r] /\ r \notin crossed /\ ~meddled => Current]_vars

(* A check that succeeds while nobody changes anything has seen current lanes, whatever
   the local caches say and whoever meddled with them before (the comment of
   simdoc.rs:52-53). *)
CheckIsHonest ==
  [][\A r \in Runs : Succeeds(r) /\ check[r] /\ r \notin crossed => Current]_vars

(* What the state vouches for is true: its lanes are the encoding of its cards. *)
StateIsSound ==
  ~meddled /\ state \notin {Nothing, Torn} =>
    \A l \in CardLanes : state.digests[l] = state.ids
-----------------------------------------------------------------------------
(* "Builds every contract artifact from one measured snapshot: the inputs the provenance
   hash binds are measured again after every projection has read them, and any change
   refuses the run" (repo_contract.rs, contract_artifacts_observed): what passes the
   second measurement was projected from the sources that were measured. *)
ContractIsSnapshot ==
  \A r \in Runs : pc[r] = "spine" => had[r].first = had[r].hash

=============================================================================
