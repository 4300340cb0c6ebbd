---------------------------- MODULE IndexFragment ----------------------------
(***************************************************************************)
(* The index fragment of a repository and the rules about it: the authored *)
(* overlay merged into what was discovered (index_fragment.rs and          *)
(* index_author.rs of simdoc), the coverage rules of index-check           *)
(* (src/src/index_rules.rs) and the rows that index doctor writes.         *)
(*                                                                         *)
(* An item is an anchor, surface or specimen [kind, id, owner, facet,      *)
(* live]; live: runnable and checked, for a specimen.  A draft or feature  *)
(* is [id, subject, claims, contracts, audiences], claims are items' keys. *)
(***************************************************************************)
EXTENDS Naturals, FiniteSets, Sequences

Key(item) == <<item.kind, item.id>>
-----------------------------------------------------------------------------
(* package_subjects: a package is a crate of the repository, under its alias too, and
   contains the runtime libraries it implements; a codec also brings a language. *)
PackageSubjects(p) ==
  {<<"crate", p.name>>, <<"crate", p.alias>>} \cup {<<"runtime-lib", p.name, lib>> : lib \in p.libs}
    \cup (IF p.codec THEN {<<"language", p.name>>, <<"grammar", p.name>>} ELSE {})
PackageEdges(repo, p) ==
  {<<repo, <<"crate", n>>>> : n \in {p.name, p.alias}}
    \cup {<<<<"crate", p.name>>, <<"runtime-lib", p.name, lib>>>> : lib \in p.libs}
    \cup (IF p.codec THEN {<<<<"language", p.name>>, <<"grammar", p.name>>>>} ELSE {})

(* card_owner_subjects, merge_subjects, merge_edges *)
Subjects(repo, packages, owners) ==
  {repo} \cup {<<"crate", o>> : o \in owners \ {"workspace"}}
         \cup UNION {PackageSubjects(p) : p \in packages}
Edges(repo, packages, owners) ==
  {<<repo, <<"crate", o>>>> : o \in owners \ {"workspace"}}
    \cup UNION {PackageEdges(repo, p) : p \in packages}
-----------------------------------------------------------------------------
(* resolve_claims *)
Resolved(draft, doc) ==
  draft.subject \in doc.subjects /\ draft.claims \subseteq {Key(i) : i \in doc.items}

Covers(authored, draft) == authored.claims \cap draft.claims # {}

(* preserve_covered_grammar_contracts *)
WithContracts(authored, doc) ==
  [authored EXCEPT !.contracts = @ \cup UNION {d.contracts : d \in {d \in doc.drafts : Covers(authored, d)}}]

(* Mutant: only a draft whose claims are all authored is removed. *)
MutUncovered(drafts, features) ==
  {d \in drafts : ~(d.claims \subseteq UNION {f.claims : f \in features})}

(* remove_covered_drafts *)
Uncovered(drafts, features) == {d \in drafts : \A f \in features : ~Covers(f, d)}

(* merge_authored, when every claim resolves. *)
MergeAuthored(doc, overlay) ==
  LET features == doc.features \cup {WithContracts(f, doc) : f \in overlay}
  IN [doc EXCEPT !.features = features, !.drafts = Uncovered(@, features)]
MergeOK(doc, overlay) ==
  /\ \A f \in overlay : Resolved(f, doc)
  /\ \A f, g \in overlay : f.id = g.id => f = g
-----------------------------------------------------------------------------
(* claim_counts, claimable_items *)
Claimants(doc, key) == {d \in doc.drafts \cup doc.features : key \in d.claims}
Claimable(doc) == {i \in doc.items : i.kind = "specimen" => i.live}
Unclaimed(doc) == {i \in Claimable(doc) : Claimants(doc, Key(i)) = {}}
Duplicated(doc) == \E i \in doc.items : Cardinality(Claimants(doc, Key(i))) > 1

(* Strictness::requires *)
Requires(strict, item) ==
  CASE item.kind = "anchor" ->
         \/ "user" \in strict.audiences /\ item.facet = "cli-verb"
         \/ "framework" \in strict.audiences /\ item.facet = "runtime-lib"
         \/ "code" \in strict.audiences /\ item.facet \in {"crate", "runtime-lib", "export"}
    [] item.kind = "surface" ->
         item.facet \in strict.surfaces \/ ("user" \in strict.audiences /\ item.facet = "cli")
    [] item.kind = "specimen" -> {"all", item.facet} \cap strict.specimens # {}

(* feature_has_runnable_specimen, feature_specimen_strict, feature_specimen_gaps *)
HasSpecimen(doc, f) == \E i \in doc.items : i.kind = "specimen" /\ i.live /\ Key(i) \in f.claims
SpecimenStrict(strict, f) == \E a \in f.audiences : {"all", a} \cap strict.specimens # {}
SpecimenGaps(doc, strict) ==
  {f \in doc.features : ~HasSpecimen(doc, f) /\ (SpecimenStrict(strict, f) \/ f.audiences \cap {"user", "framework"} # {})}

(* is_major_entrypoint, is_framework_feature, route_coverage_gaps *)
IsEntrypoint(doc, f) ==
  ~f.generated /\ \E i \in doc.items : i.kind = "surface" /\ i.facet = "cli" /\ Key(i) \in f.claims
IsFramework(doc, f) ==
  \/ f.subject[1] = "runtime-lib" \/ f.framework
  \/ \E i \in doc.items : Key(i) \in f.claims /\ i.kind \in {"anchor", "surface"} /\
       (i.owner[1] = "runtime-lib" \/ (i.kind = "surface" /\ i.facet \in {"view", "view-edit", "model-exchange", "site"}))
RouteGaps(doc) ==
  {<<"major_entrypoints", f.id>> : f \in {f \in doc.features : f.id \notin doc.routed /\ IsEntrypoint(doc, f)}}
    \cup {<<"frameworks", f.id>> : f \in {f \in doc.features : f.id \notin doc.routed /\ IsFramework(doc, f)}}

(* check_coverage_with_feature_audiences: the first rule that is broken. *)
Coverage(doc, strict) ==
  IF Duplicated(doc) THEN "duplicate"
  ELSE IF \E i \in Unclaimed(doc) : Requires(strict, i) THEN "unindexed"
  ELSE IF \E f \in SpecimenGaps(doc, strict) : SpecimenStrict(strict, f) THEN "unexampled"
  ELSE IF \E g \in RouteGaps(doc) : {"all", g[1]} \cap strict.routes # {} THEN "unrouted"
  ELSE "covered"

(* missing_draft_rows, render_missing_features: a feature for each item that is unclaimed. *)
DoctorRows(doc) ==
  {[id |-> <<"missing", Key(i)>>, subject |-> i.owner, claims |-> {Key(i)}, contracts |-> {},
    audiences |-> {}, generated |-> FALSE, framework |-> FALSE] : i \in Unclaimed(doc)}
-----------------------------------------------------------------------------
GrammarContracts(doc) == UNION {d.contracts : d \in doc.drafts \cup doc.features}

(* Merging an overlay loses no grammar contract of a draft that it removes, and claims no
   item both as a draft and as a feature.  An item that only a removed draft claimed is
   what the doctor asks about: appended to the overlay its rows are accepted, claim every
   item, and claim none twice if none was, so that no strictness finds one unindexed. *)
DoctorHeals(doc, overlay, stricts) ==
  MergeOK(doc, overlay) =>
    LET merged == MergeAuthored(doc, overlay)
        healed == MergeAuthored(doc, overlay \cup DoctorRows(merged))
    IN /\ GrammarContracts(merged) = GrammarContracts(doc) \cup UNION {f.contracts : f \in overlay}
       /\ \A d \in merged.drafts, f \in merged.features : d.claims \cap f.claims = {}
       /\ MergeOK(doc, overlay \cup DoctorRows(merged))
       /\ Unclaimed(healed) = {}
       /\ Duplicated(healed) => Duplicated(merged)
       /\ \A strict \in stricts :
            /\ Coverage(healed, strict) # "unindexed"
            /\ Coverage(merged, strict) = "covered" /\ Coverage(healed, strict) # "covered" =>
                 \E f \in DoctorRows(merged) : Coverage(healed, strict) = "unrouted" /\ f.id \notin doc.routed

(* Everything the packages bring is contained in the repository, but for languages. *)
SubjectsAreRooted(repo, packages, owners) ==
  LET edges == Edges(repo, packages, owners)
  IN \A s \in Subjects(repo, packages, owners) \ {repo} :
       \/ s[1] \in {"language", "grammar"}
       \/ <<repo, s>> \in edges
       \/ \E p \in packages : <<repo, <<"crate", p.name>>>> \in edges /\ <<<<"crate", p.name>>, s>> \in edges
=============================================================================
