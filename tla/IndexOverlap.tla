---------------------------- MODULE IndexOverlap ----------------------------
(* index overlap: which duplicated implementations and records of an index document nobody has
   decided about (src/src/index_overlap*.rs and the lookups of index_source.rs).

   An input is [doc, sources, report, policy, exceptions].  The document has subjects, anchors (a
   function to subjects), features [subject, anchors], edges, protocol relations [anchor, protocol,
   body, long, truncated, symbol] and declarations [anchor, shape, wide, truncated, path, symbol,
   role]; a place is [repo, path, symbol], and a path is a sequence.  Sources give each repository
   its packages [name, root] and declare the places where a symbol is found.  --strict requires all
   three files. *)
EXTENDS Naturals, FiniteSets, Sequences, SequencesExt

Unresolved == "unresolved"
MemberOwned == {"sim-kernel", "sim-private"}
OwnerRels == {"reuses", "composes", "delegates-to"}
OwnerFeature == 0
-----------------------------------------------------------------------------
(* SourceResolver::package_for: the package with the deepest root that holds a path. *)
PackageFor(sources, repo, path) ==
  LET holding == {p \in sources.packages[repo] : IsPrefix(p.root, path)}
      deepest == {p \in holding : \A q \in holding : Len(q.root) <= Len(p.root)}
  IN IF repo \in DOMAIN sources.packages /\ Cardinality(deepest) = 1
     THEN {p.name : p \in deepest} ELSE {}

(* declaration_source, implementation_source: the one place of a symbol in a package. *)
DeclarationSource(sources, package, path, symbol) ==
  {at \in sources.places : at.symbol = symbol /\ at.path = path
                             /\ PackageFor(sources, at.repo, at.path) = {package}}

ImplementationSource(sources, package, symbol) ==
  {at \in sources.places : at.symbol = symbol /\ at.repo \in DOMAIN sources.packages
       /\ \E p \in sources.packages[at.repo] : p.name = package /\ IsPrefix(p.root, at.path)}
-----------------------------------------------------------------------------
Decided == {"keep", "delegated"}

(* read_overlap_report, read_cluster, read_member: a complete report of some roots. *)
ReportOK(report) ==
  /\ report.complete /\ report.roots > 0
  /\ \A c \in report.clusters : \A m \in c.members : m.class \in Decided => m.reason

(* CoveragePolicy::read: at least one protocol, no exemption without a reason. *)
PolicyOK(policy) == policy.protocols # {} /\ \A e \in policy.exemptions : e.reason

(* StructuralExceptions::read: a cluster is excepted once, as kept or delegated. *)
ExceptionsOK(exceptions) ==
  \A e \in exceptions :
    e.class \in Decided /\ e.reason /\ \A f \in exceptions : f.id = e.id => f = e

Crate(doc, anchor) == doc.anchors[anchor].subject.crate
Candidate(at) == [repo |-> at.repo, path |-> at.path, class |-> "candidate", reason |-> FALSE]
Grouped(items, id(_), places(_)) ==
  {[id |-> i, members |-> {Candidate(at) : at \in UNION {places(r) : r \in {r \in items : id(r) = i}}}] :
     i \in {id(r) : r \in {r \in items : \E s \in items : s # r /\ id(s) = id(r)}}}

ImplementationId(r) == [kind |-> "implementation-shape", protocol |-> r.protocol, shape |-> r.body]
RecordId(d) == [kind |-> "record-shape", protocol |-> "none", shape |-> d.shape]

(* implementation_shape_clusters: equal bodies of one resolved protocol. *)
ImplementationClusters(doc, sources) ==
  Grouped({r \in doc.relations : r.protocol # Unresolved /\ ~r.truncated /\ r.long},
          ImplementationId, LAMBDA r : ImplementationSource(sources, Crate(doc, r.anchor), r.symbol))

(* record_shape_clusters: structs with the same four or more public fields. *)
WideRecords(doc) == {d \in doc.declarations : d.role = "struct" /\ d.wide /\ ~d.truncated}
RecordClusters(doc, sources) ==
  Grouped(WideRecords(doc), RecordId,
          LAMBDA d : DeclarationSource(sources, Crate(doc, d.anchor), d.path, d.symbol))

(* Their errors: a member whose place is not found, or found twice. *)
PlacesFound(doc, sources) ==
  /\ \A c \in ImplementationClusters(doc, sources) : \A r \in doc.relations :
       ImplementationId(r) = c.id /\ ~r.truncated /\ r.long =>
         Cardinality(ImplementationSource(sources, Crate(doc, r.anchor), r.symbol)) = 1
  /\ \A d \in WideRecords(doc) :
       Cardinality(DeclarationSource(sources, Crate(doc, d.anchor), d.path, d.symbol)) = 1

Structural(doc, sources) == ImplementationClusters(doc, sources) \cup RecordClusters(doc, sources)

(* StructuralExceptions::classify: an exception of no cluster is stale. *)
Stale(exceptions, clusters) == {e \in exceptions : \A c \in clusters : c.id # e.id}
Judged(exceptions, id, m) ==
  LET mine == {e \in exceptions : e.id = id}
  IN IF mine = {} THEN m ELSE [m EXCEPT !.class = (CHOOSE e \in mine : TRUE).class, !.reason = TRUE]

Classified(exceptions, clusters) ==
  {[id |-> c.id, members |-> {Judged(exceptions, c.id, m) : m \in c.members}] : c \in clusters}
-----------------------------------------------------------------------------
(* features_for_subject: the features of a subject, or that claim an anchor of it. *)
FeaturesFor(doc, subject) ==
  {f \in doc.features : f.subject = subject \/ \E a \in f.anchors : doc.anchors[a].subject = subject}

(* member_subject, resolve_merged_crate_subject *)
MemberSubject(doc, sources, m) ==
  {s \in doc.subjects : \E p \in PackageFor(sources, m.repo, m.path) :
     s.crate = p /\ s.repo \in {"", m.repo}}

(* Mutant: a kept member of any repository may have no feature. *)
MutAllowedUnmapped(m) == m.class \in Decided /\ m.reason

(* should_allow_unmapped_keep *)
AllowedUnmapped(m) == m.class \in Decided /\ m.repo \in MemberOwned /\ m.reason

(* overlap_findings *)
MemberFound(doc, sources, m) ==
  \/ m.class \in {"candidate", "regression"}
  \/ LET subjects == MemberSubject(doc, sources, m)
     IN /\ Cardinality(subjects) # 1 \/ \E s \in subjects : FeaturesFor(doc, s) = {}
        /\ ~AllowedUnmapped(m)

(* protocol_coverage_findings *)
Applicable(doc, policy) == {r \in doc.relations : r.protocol \in policy.protocols}
Covered(doc, r) ==
  \/ \E f \in doc.features : r.anchor \in f.anchors
  \/ FeaturesFor(doc, doc.anchors[r.anchor].subject) # {}
CoverageFound(doc, policy) ==
  \/ \E r \in Applicable(doc, policy) :
       ~Covered(doc, r) /\ \A e \in policy.exemptions : e.anchor # r.anchor
  \/ \E e \in policy.exemptions : \A r \in Applicable(doc, policy) : r.anchor # e.anchor

(* has_edge_path and has_explicit_owner_relation: at least one edge away. *)
PathsFrom(doc, rels) ==
  LET Edges == {e \in doc.edges : e.rel \in rels}
      reach[n \in 0..Cardinality(Edges)] ==
        IF n = 0 THEN {<<e.from, e.to>> : e \in Edges}
        ELSE reach[n - 1] \cup {<<s[1][1], s[2].to>> : s \in {s \in reach[n - 1] \X Edges : s[1][2] = s[2].from}}
  IN reach[Cardinality(Edges)]

(* benchmark_ownership_findings: benchmark code outside its owner, whose last claiming
   feature is not related to the owner's. *)
BenchmarkFound(doc) ==
  \E d \in doc.declarations :
    LET claims == {f \in doc.features : d.anchor \in f.anchors}
    IN /\ d.role = "benchmark" /\ Crate(doc, d.anchor) # "owner"
       /\ \A f \in claims :
            (\A g \in claims : g.id <= f.id) => <<f.id, OwnerFeature>> \notin PathsFrom(doc, OwnerRels)

(* run with --strict; the findings about protocol roles are advisory only. *)
StrictPasses(in) ==
  LET clusters == Structural(in.doc, in.sources)
      report == in.report.clusters \cup Classified(in.exceptions, clusters)
  IN /\ ReportOK(in.report) /\ PolicyOK(in.policy) /\ ExceptionsOK(in.exceptions)
     /\ PlacesFound(in.doc, in.sources)
     /\ Stale(in.exceptions, clusters) = {}
     /\ \A c \in report : \A m \in c.members : ~MemberFound(in.doc, in.sources, m)
     /\ ~CoverageFound(in.doc, in.policy) /\ ~BenchmarkFound(in.doc)
-----------------------------------------------------------------------------
(* Two implementations of one protocol with one body. *)
Twins(r, s) ==
  /\ r # s /\ r.protocol = s.protocol /\ r.body = s.body /\ r.protocol # Unresolved
  /\ \A t \in {r, s} : t.long /\ ~t.truncated

Reasons(in) == {e.id : e \in in.exceptions}

(* A feature answers for a place: it has the crate that the place is in, with no crate
   nested deeper around it, as its subject, or an anchor of that crate. *)
AnsweredFor(in, at) ==
  \E s \in in.doc.subjects, f \in in.doc.features, p \in in.sources.packages[at.repo] :
    /\ s.crate = p.name /\ s.repo \in {"", at.repo} /\ IsPrefix(p.root, at.path)
    /\ \A q \in in.sources.packages[at.repo] : IsPrefix(q.root, at.path) => Len(q.root) <= Len(p.root)
    /\ f.subject = s \/ \E a \in f.anchors : in.doc.anchors[a].subject = s

(* A strict run that passes leaves no twins that nobody decided about: an exception with
   their protocol and body keeps them, and a feature answers for each or its repository
   owns its members.  Only the exceptions that are needed pass: with one more or one less
   the run fails.  No candidate or regression of the report is left. *)
PassMeansDecided(in) ==
  StrictPasses(in) =>
    /\ \A r, s \in in.doc.relations : Twins(r, s) =>
         /\ ImplementationId(r) \in Reasons(in)
         /\ \A at \in ImplementationSource(in.sources, Crate(in.doc, r.anchor), r.symbol) :
              at.repo \in MemberOwned \/ AnsweredFor(in, at)
    /\ \A e \in in.exceptions : ~StrictPasses([in EXCEPT !.exceptions = @ \ {e}])
    /\ \A c \in in.report.clusters : \A m \in c.members : m.class \in Decided
=============================================================================
