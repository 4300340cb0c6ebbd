----------------------------- MODULE IndexMerge -----------------------------
(***************************************************************************)
(* index merge: the fragments of several repositories become one document  *)
(* (src/src/index_merge.rs and index_merge/source_facts.rs).               *)
(*                                                                         *)
(* A fragment is [repo, public, records, edges, facts].  A record is its   *)
(* kind, its id and the records it refers to; a reference is a kind and an *)
(* id.  An id is [local, name]: local is the repository it was qualified   *)
(* with, or Everywhere.  A fact says something of an anchor.               *)
(***************************************************************************)
EXTENDS Naturals, FiniteSets, Sequences, SequencesExt

Everywhere == "everywhere"
Id(name) == [local |-> Everywhere, name |-> name]
Ref(kind, id) == [kind |-> kind, id |-> id]
Record(kind, id, refs) == [kind |-> kind, id |-> id, refs |-> refs]

Kinds == {"subjects", "anchors", "surfaces", "specimens", "drafts", "features", "routes"}

(* The kinds of the ends of an edge; "any" is the first map that has the id. *)
Ends(rel) ==
  CASE rel = "contains" -> <<"subjects", "subjects">>
    [] rel = "anchors" -> <<"features", "anchors">>
    [] rel = "surfaces" -> <<"features", "surfaces">>
    [] rel = "demonstrates" -> <<"features", "specimens">>
    [] rel \in {"supports", "presents", "replaces"} -> <<"features", "features">>
    [] rel = "routes" -> <<"routes", "any">>
    [] OTHER -> <<"any", "any">>

AnyOrder == <<"subjects", "anchors", "surfaces", "specimens", "features", "routes">>
-----------------------------------------------------------------------------
Has(fragment, kind, id) == \E r \in fragment.records : r.kind = kind /\ r.id = id

(* CollisionCounts::from_fragments: how many fragments have an id. *)
Count(fragments, kind, id) == Cardinality({i \in DOMAIN fragments : Has(fragments[i], kind, id)})

(* Mutant: the first fragment that has an id keeps it as it is. *)
MutMapped(fragments, f, kind, id) ==
  IF Has(f, kind, id) /\ \E i, j \in DOMAIN fragments :
       i < j /\ fragments[j] = f /\ Has(fragments[i], kind, id)
  THEN [id EXCEPT !.local = f.repo] ELSE id

(* IdMaps::for_fragment and map: an id of the fragment that others have too is qualified
   with the repository; an id of somebody else stays as it is. *)
Mapped(fragments, f, kind, id) ==
  IF Has(f, kind, id) /\ Count(fragments, kind, id) > 1
  THEN [id EXCEPT !.local = f.repo] ELSE id

MappedAny(fragments, f, id) ==
  LET having == {n \in DOMAIN AnyOrder : Has(f, AnyOrder[n], id)}
      first  == CHOOSE n \in having : \A m \in having : n <= m
  IN IF having = {} THEN id ELSE Mapped(fragments, f, AnyOrder[first], id)

MappedEnd(fragments, f, kind, id) ==
  IF kind = "any" THEN MappedAny(fragments, f, id) ELSE Mapped(fragments, f, kind, id)

RewriteEdge(fragments, f, e) ==
  [from |-> MappedEnd(fragments, f, Ends(e.rel)[1], e.from), rel |-> e.rel,
   to |-> MappedEnd(fragments, f, Ends(e.rel)[2], e.to)]

RewriteRecord(fragments, f, r) ==
  Record(r.kind, Mapped(fragments, f, r.kind, r.id),
         {Ref(ref.kind, Mapped(fragments, f, ref.kind, ref.id)) : ref \in r.refs})

(* rewrite_doc *)
RewriteDoc(fragments, f) ==
  [records |-> {RewriteRecord(fragments, f, r) : r \in f.records},
   edges |-> {RewriteEdge(fragments, f, e) : e \in f.edges},
   facts |-> {[t EXCEPT !.anchor = Mapped(fragments, f, "anchors", @)] : t \in f.facts}]
-----------------------------------------------------------------------------
(* merge_source_facts: one fact for an anchor and a place, or a conflict. *)
Conflict(facts) == \E s, t \in facts : s.anchor = t.anchor /\ s.place = t.place /\ s # t

Together(rewritten, part(_)) == UNION {part(rewritten[i]) : i \in DOMAIN rewritten}

(* Records are appended, so that an id may come twice; facts and edges are not. *)
Repeated(fragments) ==
  \E i, j \in DOMAIN fragments :
    \E r \in fragments[i].records, s \in fragments[j].records :
      /\ <<i, r>> # <<j, s>> /\ r.kind = s.kind
      /\ Mapped(fragments, fragments[i], r.kind, r.id) = Mapped(fragments, fragments[j], s.kind, s.id)

(* merge_fragment_paths: private fragments are left out unless they are asked for. *)
Chosen(fragments, publicOnly) ==
  SelectSeq(fragments, LAMBDA f : publicOnly => f.public)

(* merge_fragments, before the check of the merged document. *)
Merged(fragments) ==
  LET rewritten == [i \in DOMAIN fragments |-> RewriteDoc(fragments, fragments[i])]
  IN [public |-> \A i \in DOMAIN fragments : fragments[i].public,
      records |-> Together(rewritten, LAMBDA d : d.records),
      edges |-> Together(rewritten, LAMBDA d : d.edges),
      facts |-> Together(rewritten, LAMBDA d : d.facts),
      repeated |-> Repeated(fragments)]

(* check_index_doc: ids are unique and every reference is to a record. *)
Checked(doc) ==
  LET ids == {Ref(r.kind, r.id) : r \in doc.records}
      Known(kind, id) == IF kind = "any" THEN \E r \in ids : r.id = id ELSE Ref(kind, id) \in ids
  IN /\ ~doc.repeated
     /\ \A r \in doc.records : r.refs \subseteq ids
     /\ \A e \in doc.edges : Known(Ends(e.rel)[1], e.from) /\ Known(Ends(e.rel)[2], e.to)

Accepted(fragments) ==
  /\ fragments # <<>>
  /\ ~Conflict(Merged(fragments).facts)
  /\ Checked(Merged(fragments))
-----------------------------------------------------------------------------
(* The fragments whose record a reference of fragment f may mean: its own, or those of
   others when it has none. *)
Meant(fragments, f, kind, id) ==
  IF Has(f, kind, id) THEN {f.repo}
  ELSE {fragments[i].repo : i \in {j \in DOMAIN fragments : Has(fragments[j], kind, id)}}

(* The repository whose record has an id of the merged document. *)
Owners(fragments, kind, id) ==
  {fragments[i].repo : i \in {j \in DOMAIN fragments :
     \E r \in fragments[j].records : r.kind = kind /\ Mapped(fragments, fragments[j], kind, r.id) = id}}

(* A merge that is accepted keeps every record of every fragment once, and every
   reference, of a record or at the end of an edge, is to the record that it was to in its
   own fragment; a reference to another repository's record is to the only one there is.
   Facts about an anchor of a fragment are about the same one, and nothing else is said of
   it.  The order of the fragments makes no difference. *)
KeepsMeaning(all) ==
  LET Kept(f, kind, id) ==
        Owners(all, kind, Mapped(all, f, kind, id)) = Meant(all, f, kind, id)
        /\ Cardinality(Meant(all, f, kind, id)) = 1
  IN Accepted(all) =>
       /\ Cardinality(Merged(all).records)
            = Cardinality(UNION {{i} \X all[i].records : i \in DOMAIN all})
       /\ \A i \in DOMAIN all :
            /\ \A r \in all[i].records : \A ref \in r.refs : Kept(all[i], ref.kind, ref.id)
            /\ \A e \in all[i].edges :
                 /\ Ends(e.rel)[1] # "any" => Kept(all[i], Ends(e.rel)[1], e.from)
                 /\ Ends(e.rel)[2] # "any" => Kept(all[i], Ends(e.rel)[2], e.to)
            /\ \A t \in all[i].facts :
                 /\ Has(all[i], "anchors", t.anchor) => Kept(all[i], "anchors", t.anchor)
                 /\ \A u \in Merged(all).facts :
                      u.anchor = Mapped(all, all[i], "anchors", t.anchor) /\ u.place = t.place
                        => u.says = t.says
       /\ Merged(Reverse(all)) = Merged(all)

MergeKeepsMeaning(fragments, publicOnly) == KeepsMeaning(Chosen(fragments, publicOnly))

=============================================================================
