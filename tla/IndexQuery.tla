-------------------------------- MODULE IndexQuery --------------------------------
(* Questions to an index: `index find` (src/src/index_find.rs and index_find/facts.rs) and
   `index route` (src/src/index_route.rs).

   A text is the sequence of its words, in lower case.  Ids of subjects and of surfaces are the
   sequences of their segments, others are names; the texts of a record hold the words of its ids.
   A document is [subjects, anchors, declarations, relations, surfaces, features, specimens, routes];
   an option that need not be given is a set of at most one value. *)
EXTENDS Naturals, Sequences, FiniteSets, SequencesExt, FiniteSetsExt, Functions

Roles == {"struct", "trait"}

-----------------------------------------------------------------------------
(* Options (index_find.rs).  An argument is [flag, value], a value a sequence of words. *)

Valued == {"audience", "surface", "role", "implements", "feature"}
Given(args, flag) == LET given == SelectSeq(args, LAMBDA a : a.flag = flag)
                     IN IF given = <<>> THEN {} ELSE {Last(given).value}
FactFlags == {"role", "implements", "resolved", "unresolved", "feature"}

(* FindOptions::parse, non_empty_option and parse_declaration_role *)
Parse(args) ==
  LET flags == {args[i].flag : i \in DOMAIN args}
      resolutions == {i \in DOMAIN args : args[i].flag \in {"resolved", "unresolved"}}
      query == FlattenSeq([i \in DOMAIN args |-> IF args[i].flag = "query" THEN args[i].value ELSE <<>>])
      bad(a) == \/ a.flag = "unknown"
                \/ a.flag \in Valued /\ a.value = <<>>
                \/ a.flag = "role" /\ \A r \in Roles : a.value # <<r>>
  IN [ok |-> /\ \A i \in DOMAIN args : ~bad(args[i])
             /\ Cardinality(resolutions) <= 1
             /\ "input" \in flags /\ (query # <<>> \/ FactFlags \cap flags # {}),
      query |-> query, resolution |-> {args[i].flag : i \in resolutions},
      option |-> [f \in Valued |-> Given(args, f)]]

FactFilter(o) == o.resolution # {} \/ \E f \in Valued \ {"audience", "surface"} : o.option[f] # {}

-----------------------------------------------------------------------------
(* What matches (index_find.rs). *)

(* matches_query *)
Matches(needle, texts) ==
  \E t \in texts : \E i \in 0..(Len(t) - Len(needle)) : SubSeq(t, i + 1, i + Len(needle)) = needle

(* surface_matches_filter and surface_id_matches_filter: a kind, an id, or what an id starts with. *)
SurfaceIdMatches(id, filter) == \A f \in filter : IsPrefix(f, id)
SurfaceMatches(s, filter) == \A f \in filter : f = <<s.kind>> \/ IsPrefix(f, s.id)

SubjectOnSurface(doc, subject, filter) ==
  \/ filter = {}
  \/ \E s \in doc.surfaces : s.subject = subject.id /\ SurfaceMatches(s, filter)
  \/ /\ Len(subject.id) = 2 /\ subject.id[1] = "grammar"
     /\ \E s \in doc.surfaces : SurfaceMatches(s, filter) /\ s.id[Len(s.id)] = subject.id[2]

(* feature_matches_surface *)
FeatureOnSurface(doc, feature, filter) ==
  \/ filter = {}
  \/ \E id \in feature.surfaces :
       LET known == {s \in doc.surfaces : s.id = id}
       IN IF known # {} THEN \E s \in known : SurfaceMatches(s, filter) ELSE SurfaceIdMatches(id, filter)
  \/ \E id \in feature.contracts : SurfaceIdMatches(id, filter)

Claimants(doc, specimen) == {f \in doc.features : specimen \in f.specimens}
SpecimenOnSurface(doc, specimen, filter) ==
  filter = {} \/ \E f \in Claimants(doc, specimen) : FeatureOnSurface(doc, f, filter)

(* route_matches_surface *)
RouteOnSurface(doc, route, filter) ==
  \/ filter = {}
  \/ \E i \in DOMAIN route.steps :
       LET step == route.steps[i]
       IN IF step.is = "specimen" THEN SpecimenOnSurface(doc, step.id, filter)
          ELSE \E f \in doc.features : f.id = step.id /\ FeatureOnSurface(doc, f, filter)

(* feature_matches_audience, specimen_matches_audience and route_matches_audience *)
ForAudience(route, audience) == \A a \in audience : a[1] \in route.audiences
StepForAudience(doc, is, id, audience) ==
  audience = {} \/ \E r \in doc.routes : ForAudience(r, audience) /\ \E i \in DOMAIN r.steps : r.steps[i].is = is /\ r.steps[i].id = id

-----------------------------------------------------------------------------
(* Facts (index_find/facts.rs).  A relation has the words of its implementor, the protocol as it is
   spelled, and the protocols that it may be: one when it is resolved. *)

(* relation_matches *)
RelationMatches(r, o) ==
  /\ \A p \in o.option["implements"] : p = <<r.spelling>> \/ \E c \in r.protocols : p = <<c>>
  /\ \A s \in o.resolution : r.resolved <=> s = "resolved"

RelationTexts(r) == {<<r.implementor>>, <<r.spelling>>} \cup {<<c>> : c \in r.protocols}

(* Mutant: one relation may implement the protocol and another have the resolution. *)
MutSelected(doc, o) ==
  {a \in doc.anchors :
     LET relations == {r \in doc.relations : r.anchor = a.id}
     IN /\ o.option["implements"] # {} => \E r \in relations : RelationMatches(r, [o EXCEPT !.resolution = {}])
        /\ o.resolution # {} => \E r \in relations : RelationMatches(r, [o EXCEPT !.option["implements"] = {}])}

(* selected_fact_anchors *)
Selected(doc, o) ==
  {a \in doc.anchors :
     LET declarations == {d \in doc.declarations : d.anchor = a.id}
         relations == {r \in doc.relations : r.anchor = a.id}
     IN /\ o.option["role"] # {} => \E d \in declarations : <<d.role>> \in o.option["role"]
        /\ o.option["implements"] # {} \/ o.resolution # {} => \E r \in relations : RelationMatches(r, o)
        /\ \A f \in o.option["feature"] : \E g \in doc.features : a.id \in g.anchors /\ f \in {<<g.id>>, <<g.key>>}
        /\ \/ o.query = <<>>
           \/ Matches(o.query, a.texts)
           \/ \E d \in declarations : Matches(o.query, d.texts)
           \/ \E r \in relations : Matches(o.query, RelationTexts(r))}

Asked(o, texts) == ~FactFilter(o) /\ Matches(o.query, texts)
Owns(chosen, f) == \E a \in chosen : a.id \in f.anchors
Row(kind, rs) == {[kind |-> kind, of |-> r] : r \in rs}

(* specimen_linked_feature_matches_query *)
LinkedMatches(doc, specimen, o) ==
  \E f \in Claimants(doc, specimen) : FeatureOnSurface(doc, f, o.option["surface"]) /\ Asked(o, f.texts)

(* find_rows: subjects, anchors and surfaces, of which an audience has none. *)
PlaceRows(doc, o) ==
  LET surface == o.option["surface"]
      chosen == Selected(doc, o)
      subjects == {s \in doc.subjects : /\ SubjectOnSurface(doc, s, surface)
                                        /\ Asked(o, s.texts) \/ \E a \in chosen : a.subject = s.id}
      surfaces == {s \in doc.surfaces : SurfaceMatches(s, surface) /\ Matches(o.query, s.texts)}
  IN Row("subject", subjects) \cup Row("anchor", chosen) \cup Row("surface", surfaces)

(* find_rows: features, specimens and routes *)
UseRows(doc, o) ==
  LET audience == o.option["audience"]
      surface == o.option["surface"]
      chosen == Selected(doc, o)
      surfaceText(f) == FlattenSeq(SetToSeq(f.surfaces))
      features == {f \in doc.features : /\ StepForAudience(doc, "feature", f.id, audience)
                                        /\ FeatureOnSurface(doc, f, surface)
                                        /\ Asked(o, f.texts \cup {surfaceText(f)}) \/ Owns(chosen, f)}
      specimens == {s \in doc.specimens : /\ StepForAudience(doc, "specimen", s.id, audience)
                                          /\ SpecimenOnSurface(doc, s.id, surface)
                                          /\ \/ Asked(o, s.texts) \/ LinkedMatches(doc, s.id, o)
                                             \/ \E f \in Claimants(doc, s.id) : Owns(chosen, f)}
      routes == {r \in doc.routes : ForAudience(r, audience) /\ RouteOnSurface(doc, r, surface) /\ Asked(o, r.texts)}
  IN Row("feature", features) \cup Row("specimen", specimens) \cup Row("route", routes)

Rows(doc, o) == UseRows(doc, o) \cup IF o.option["audience"] = {} THEN PlaceRows(doc, o) ELSE {}

(* A question that asks for more finds nothing that it did not find before: one more argument, which
   is of a flag that was not there or more of the query, only takes rows away.  A question about
   facts finds an anchor only by a relation or a declaration that has all that was asked of it at
   once, every other row but a surface's only by such an anchor, and each such anchor unless an
   audience hides it; and a question of words alone finds every record that has them
   (index_find.rs:236-461, facts.rs:10-57). *)
FindNarrows(doc, args, more) ==
  LET o == Parse(args)
      p == Parse(Append(args, more))
      new == more.flag = "query" \/ \A i \in DOMAIN args : args[i].flag # more.flag
      earned(a) ==
        /\ \A r \in p.option["role"] : \E d \in doc.declarations : d.anchor = a.id /\ r = <<d.role>>
        /\ p.option["implements"] # {} \/ p.resolution # {} =>
             \E r \in doc.relations :
               /\ r.anchor = a.id /\ (p.resolution # {} => p.resolution = {IF r.resolved THEN "resolved" ELSE "unresolved"})
               /\ \A w \in p.option["implements"] : w[1] \in r.protocols \cup {r.spelling}
      rests(row, a) == CASE row.kind = "anchor" -> row.of = a
                         [] row.kind = "subject" -> row.of.id = a.subject
                         [] row.kind = "feature" -> a.id \in row.of.anchors
                         [] row.kind = "specimen" -> \E f \in doc.features : row.of.id \in f.specimens /\ a.id \in f.anchors
                         [] OTHER -> row.kind = "surface"
      plain == {"audience", "surface"} \cap {args[i].flag : i \in DOMAIN args} = {}
  IN /\ o.ok /\ p.ok /\ new => Rows(doc, p) \subseteq Rows(doc, o)
     /\ p.ok /\ FactFilter(p) => \A row \in Rows(doc, p) : row.kind = "surface" \/ \E a \in doc.anchors : earned(a) /\ rests(row, a)
     /\ o.ok /\ ~FactFilter(o) /\ plain =>
          \A kind \in {"subjects", "anchors", "features", "specimens", "routes"} : \A r \in doc[kind] :
            Matches(o.query, r.texts) => \E row \in Rows(doc, o) : row.of = r

-----------------------------------------------------------------------------
(* Routes (index_route.rs).  A task is a sequence of words. *)

StopWords == {"the", "a"}

(* terms *)
Terms(task) == SelectSeq(task, LAMBDA word : word \notin StopWords)

(* step_title and specimen_meta: what a step's record says, or its id. *)
StepText(doc, step) ==
  LET found == IF step.is = "feature" THEN {f \in doc.features : f.id = step.id} ELSE {s \in doc.specimens : s.id = step.id}
  IN {step.id} \cup step.why \cup UNION {r.title : r \in found}

(* route_text *)
RouteText(doc, route) == {route.id} \cup route.title \cup route.audiences \cup UNION {StepText(doc, route.steps[i]) : i \in DOMAIN route.steps}

(* Mutant: a term in the title counts and one elsewhere does not. *)
MutRouteScore(doc, route, terms) ==
  IF terms = <<>> THEN 1 ELSE 5 * Cardinality({i \in DOMAIN terms : terms[i] \in {route.id} \cup route.title})

(* route_score *)
RouteScore(doc, route, terms) ==
  IF terms = <<>> THEN 1
  ELSE 10 * Cardinality({i \in DOMAIN terms : terms[i] \in RouteText(doc, route)})
       + 5 * Cardinality({i \in DOMAIN terms : terms[i] \in {route.id} \cup route.title})

(* route_rows *)
RouteRows(doc, order, task) ==
  LET terms == Terms(task)
      score == [r \in doc.routes |-> RouteScore(doc, r, terms)]
      before(r, s) == score[r] > score[s] \/ (score[r] = score[s] /\ order[r.id] < order[s.id])
  IN SetToSortSeq({r \in doc.routes : score[r] > 0}, before)

(* A task finds each route once that has a word of it anywhere, in the steps' records too, and no
   other; one that has every word of the task that another has, each at least as prominently, comes
   first unless the other has its words as well (index_route.rs:94-151). *)
RoutesAreBest(doc, order, task) ==
  LET rows == RouteRows(doc, order, task)
      words == ToSet(task) \ StopWords
      head(r) == words \cap ({r.id} \cup r.title)
      has(r) == words \cap RouteText(doc, r)
  IN /\ ToSet(rows) = {r \in doc.routes : words = {} \/ has(r) # {}} /\ IsInjective(rows)
     /\ \A i, j \in DOMAIN rows :
          has(rows[i]) \subseteq has(rows[j]) /\ head(rows[i]) \subseteq head(rows[j])
          /\ <<has(rows[i]), head(rows[i])>> # <<has(rows[j]), head(rows[j])>> => j < i
=============================================================================
