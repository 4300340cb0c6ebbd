----------------------------- MODULE AtelierIndex -----------------------------
(* The index of the checkouts that atelier-index writes (index.rs, index_manifest.rs,
   index_units.rs, index_graph_units.rs, index_doc.rs of src/src/atelier) and the hints
   that atelier-radar finds in it (radar.rs, radar/score.rs).

   A text is a sequence of characters: "n" ends a line, "_" is blank, "#" a hash, "w" a
   letter of two bytes and every other a letter of one.  A path is a sequence of names;
   what a unit says is left out. *)
EXTENDS Naturals, Sequences, FiniteSets, SequencesExt, FiniteSetsExt

-----------------------------------------------------------------------------
(* Chunks of a text (index_doc.rs).  A range is from its first character up to its end. *)

Blank == {"_", "n"}
Bytes(text, from, to) == (to - from) + Cardinality({i \in from..(to - 1) : text[i] = "w"})

Trimmed(s) ==
  LET dark == {i \in DOMAIN s : s[i] \notin Blank}
  IN IF dark = {} THEN <<>> ELSE SubSeq(s, Min(dark), Max(dark))

NoBlock == [start |-> 0, end |-> 0, path |-> <<>>]
Block(start, end, path) == [start |-> start, end |-> end, path |-> path]

(* line_segments *)
Lines(text) ==
  LET starts == {i \in DOMAIN text : i = 1 \/ text[i - 1] = "n"}
      end(i) == Min({j \in i..Len(text) : text[j] = "n"} \cup {Len(text) + 1})
  IN SetToSortSeq({Block(i, end(i), <<>>) : i \in starts}, LAMBDA a, b : a.start < b.start)

Line(text, l) == Trimmed(SubSeq(text, l.start, l.end - 1))

(* heading *)
Level(line) == Max({n \in 0..Len(line) : \A i \in 1..n : line[i] = "#"})
Title(line) == Trimmed(SubSeq(line, Level(line) + 1, Len(line)))
IsHeading(line) == Level(line) \in 1..6 /\ Title(line) # <<>>

Flush(s) == IF s.open = NoBlock THEN s ELSE [s EXCEPT !.blocks = Append(@, s.open), !.open = NoBlock]

(* Mutant: a heading does not end the paragraph above it. *)
MutTakeLine(text, s, l) ==
  LET line == Line(text, l)
  IN CASE IsHeading(line) ->
            LET kept == IF Len(s.headings) < Level(line) THEN Len(s.headings) ELSE Level(line) - 1
            IN [s EXCEPT !.headings = Append(SubSeq(@, 1, kept), Title(line))]
       [] ~IsHeading(line) /\ line = <<>> -> Flush(s)
       [] ~IsHeading(line) /\ line # <<>> /\ s.open # NoBlock -> [s EXCEPT !.open.end = l.end]
       [] OTHER -> [s EXCEPT !.open = Block(l.start, l.end, s.headings)]

(* doc_blocks, one line: paragraphs end at a blank line and at a heading, which closes as
   many of the headings above it as are at its level or deeper. *)
TakeLine(text, s, l) ==
  LET line == Line(text, l)
  IN CASE IsHeading(line) ->
            LET kept == IF Len(s.headings) < Level(line) THEN Len(s.headings) ELSE Level(line) - 1
            IN [Flush(s) EXCEPT !.headings = Append(SubSeq(@, 1, kept), Title(line))]
       [] ~IsHeading(line) /\ line = <<>> -> Flush(s)
       [] ~IsHeading(line) /\ line # <<>> /\ s.open # NoBlock -> [s EXCEPT !.open.end = l.end]
       [] OTHER -> [s EXCEPT !.open = Block(l.start, l.end, s.headings)]

DocBlocks(text) ==
  Flush(FoldLeft(LAMBDA s, l : TakeLine(text, s, l), [headings |-> <<>>, open |-> NoBlock, blocks |-> <<>>],
                 Lines(text))).blocks

(* fixed_range: as many characters as fit, and all the rest if the first does not. *)
FixedRange(text, b, max) ==
  LET next(c) == LET fit == {j \in (c + 1)..b.end : Bytes(text, c, j) <= max}
                 IN IF fit = {} THEN b.end ELSE Max(fit)
      from[n \in 0..(b.end - b.start)] ==
        IF n = 0 THEN <<>> ELSE LET c == b.end - n IN <<Block(c, next(c), b.path)>> \o from[b.end - next(c)]
  IN from[b.end - b.start]

(* f1_recursive_chunks, without the empty ones. *)
Chunks(text, max) ==
  LET split(b) == IF Bytes(text, b.start, b.end) <= max THEN <<b>> ELSE FixedRange(text, b, max)
      found == FlattenSeq([i \in DOMAIN DocBlocks(text) |-> split(DocBlocks(text)[i])])
      all == IF found = <<>> /\ text # <<>> THEN FixedRange(text, Block(1, Len(text) + 1, <<>>), max) ELSE found
  IN SelectSeq(all, LAMBDA c : Trimmed(SubSeq(text, c.start, c.end - 1)) # <<>>)

(* Each letter of a text is in one chunk, or in a heading; no chunk is longer than asked,
   and its path is the sections it lies in where no level is skipped. *)
ChunksCoverText(text, max) ==
  LET chunks == Chunks(text, max)
      heads == SelectSeq(Lines(text), LAMBDA l : IsHeading(Line(text, l)))
      level(k) == Level(Line(text, heads[k]))
      nested == \A k \in DOMAIN heads : level(k) <= (IF k = 1 THEN 1 ELSE level(k - 1) + 1)
      headed(i) == \E k \in DOMAIN heads : i \in heads[k].start..(heads[k].end - 1)
      dark == {i \in DOMAIN text : text[i] \notin Blank}
      holding(i) == {k \in DOMAIN chunks : i \in chunks[k].start..(chunks[k].end - 1)}
      open(i) == SelectSeq([k \in DOMAIN heads |-> k],
                           LAMBDA k : heads[k].start < i /\ \A m \in (k + 1)..Len(heads) :
                                        heads[m].start < i => level(m) > level(k))
      sections(i) == [n \in DOMAIN open(i) |-> Title(Line(text, heads[open(i)[n]]))]
  IN /\ \A i \in dark : Cardinality(holding(i)) =
          IF headed(i) /\ (\E j \in dark : ~headed(j)) THEN 0 ELSE 1
     /\ max > 1 => \A k \in DOMAIN chunks : Bytes(text, chunks[k].start, chunks[k].end) <= max
     /\ nested /\ (\E j \in dark : ~headed(j)) => \A k \in DOMAIN chunks : chunks[k].path = sections(chunks[k].start)

-----------------------------------------------------------------------------
(* The units of a checkout [name, present, git, clean, code, sources, files], a file being
   [path, ext, reads] (index_manifest.rs, index_units.rs). *)

Status(repo) ==
  IF ~repo.present THEN "missing"
  ELSE IF repo.code /\ ~(\E f \in repo.files : f.path = <<"Cargo.toml">>) THEN "no manifest"
  ELSE IF ~repo.git THEN "not git"
  ELSE IF repo.clean THEN "clean" ELSE "dirty"

Ignored == {".git", "target", ".sim", ".meta-workspace"}
TextLike == {"md", "toml", "json", "rs"}
Walked(repo, root, exts) ==
  {f \in repo.files : /\ IsStrictPrefix(root, f.path) /\ f.ext \in exts
                      /\ \A n \in Len(root)..Len(f.path) : n > 0 => f.path[n] \notin Ignored
                      /\ ".meta-workspace" \notin ToSet(f.path)}

TextRoots == {<<"docs", "generated">>, <<"docs", "agents">>, <<"docs", "humans">>,
              <<"docs", "diagrams", "generated">>, <<"recipes">>}
CrateRoots(repo) == {r \in {<<>>} \cup repo.sources : \E f \in repo.files : f.path = Append(r, "Cargo.toml")}

Readme(repo) == {f \in repo.files : f.path = <<"README.md">>}
RustFiles(repo) == UNION {Walked(repo, Append(r, "src"), {"rs"}) : r \in CrateRoots(repo)}
Taken(repo) == IF ~repo.present THEN {}
               ELSE Readme(repo) \cup RustFiles(repo) \cup UNION {Walked(repo, r, TextLike) : r \in TextRoots}

(* Mutant: a checkout that cannot be read is left out without a word. *)
MutCollected(repos) ==
  LET failing == {r \in repos : \E f \in Taken(r) : ~f.reads}
  IN [units |-> UNION {{<<r.name, <<"repos.toml">>>>} \cup {<<r.name, f.path>> : f \in Taken(r)} : r \in repos \ failing},
      diagnostics |-> {<<r.name, Status(r)>> : r \in {q \in repos : Status(q) # "clean"}}]

(* collect_units for each, in atelier_index: one file that cannot be read or parsed leaves
   its whole checkout out. *)
Collected(repos) ==
  LET failing == {r \in repos : \E f \in Taken(r) : ~f.reads}
  IN [units |-> UNION {{<<r.name, <<"repos.toml">>>>} \cup {<<r.name, f.path>> : f \in Taken(r)} : r \in repos \ failing},
      diagnostics |-> {<<r.name, Status(r)>> : r \in {q \in repos : Status(q) # "clean"}}
                        \cup {<<r.name, "collection failed">> : r \in failing}]

(* A checkout about which the index says nothing is in it whole: its recipes, its documents
   and the sources of its packages, and nothing that is generated, built or git's. *)
SilenceIsWhole(repos) ==
  LET index == Collected(repos)
      asked(r, f) == \/ f.path = <<"README.md">>
                     \/ IsStrictPrefix(<<"recipes">>, f.path) /\ f.ext \in TextLike
                     \/ f.ext = "rs" /\ \E s \in {<<>>} \cup r.sources :
                          /\ IsStrictPrefix(Append(s, "src"), f.path)
                          /\ \E g \in r.files : g.path = Append(s, "Cargo.toml")
  IN \A r \in repos :
       /\ (\A d \in index.diagnostics : d[1] # r.name) =>
            /\ <<r.name, <<"repos.toml">>>> \in index.units
            /\ \A f \in r.files : asked(r, f) /\ ToSet(f.path) \cap Ignored = {} => <<r.name, f.path>> \in index.units
       /\ \A f \in r.files : <<r.name, f.path>> \in index.units => f.reads /\ ".meta-workspace" \notin ToSet(f.path)

-----------------------------------------------------------------------------
(* The units of the index document (index_graph_units.rs). *)

Unit(kind, id, related, panels) == [kind |-> kind, id |-> id, related |-> related, panels |-> panels]

Containers(doc, id) == {e.from : e \in {d \in doc.edges : d.rel = "contains" /\ d.to = id}}
Contents(doc, id) == {e.to : e \in {d \in doc.edges : d.rel = "contains" /\ d.from = id}}
PackageKinds == {"repo", "crate", "runtime-lib"}

SubjectUnits(doc) ==
  {Unit(IF s.kind \in PackageKinds THEN "package" ELSE IF s.kind \in {"language", "grammar"} THEN s.kind ELSE "subject",
        s.id, Containers(doc, s.id) \cup Contents(doc, s.id), {"exists"}) : s \in doc.subjects}

SurfaceUnits(doc) == {Unit("surface", s.id, {s.subject}, {"exists"}) : s \in doc.surfaces}
SpecimenUnits(doc) == {Unit("specimen", s.id, {s.subject}, {"run"}) : s \in doc.specimens}

(* Mutant: a specimen of the feature's subject is enough. *)
MutRuns(doc, feature) == \E s \in doc.specimens : s.subject = feature.subject /\ s.runnable

(* feature_has_runnable_specimen *)
Runs(doc, feature) == \E s \in doc.specimens : s.id \in feature.specimens /\ s.runnable

FeatureUnits(doc) ==
  {Unit("feature", f.id, {f.subject} \cup f.anchors \cup f.surfaces \cup f.specimens \cup {g.id : g \in f.grammars},
        {"exists"} \cup (IF Runs(doc, f) THEN {"run"} ELSE {})) : f \in ToSet(doc.features)}

(* grammar_units: the first feature that names a grammar has it. *)
GrammarUnits(doc) ==
  LET named(g) == Min({i \in DOMAIN doc.features : \E c \in doc.features[i].grammars : c.id = g})
      contract(g) == CHOOSE c \in doc.features[named(g)].grammars : c.id = g
  IN {Unit("grammar", g, {doc.features[named(g)].id} \cup contract(g).refs, {"exists"})
        : g \in UNION {{c.id : c \in f.grammars} : f \in ToSet(doc.features)}}

RouteUnits(doc) ==
  {Unit("route", r.id, {s.id : s \in ToSet(r.steps)},
        {"reuse"} \cup (IF \E s \in ToSet(r.steps) : s.is = "specimen" THEN {"run"} ELSE {})) : r \in doc.routes}

GraphUnits(doc) ==
  SubjectUnits(doc) \cup SurfaceUnits(doc) \cup SpecimenUnits(doc) \cup FeatureUnits(doc)
    \cup GrammarUnits(doc) \cup RouteUnits(doc)

(* Every id a unit relates to is that of a unit or of an anchor of a feature; containment
   is seen from both ends; and a feature that offers a run relates to a specimen that runs,
   and a grammar to a feature that relates to it. *)
GraphUnitsConnect(doc) ==
  LET units == GraphUnits(doc)
      ids == {u.id : u \in units}
      anchors == UNION {f.anchors : f \in ToSet(doc.features)}
      of(kind) == {u \in units : u.kind = kind}
  IN /\ \A u \in units : u.related \subseteq ids \cup anchors
     /\ \A u, v \in SubjectUnits(doc) : v.id \in u.related <=> u.id \in v.related
     /\ \A u \in of("feature") : "run" \in u.panels => \E s \in doc.specimens : s.runnable /\ s.id \in u.related
     /\ \A g \in GrammarUnits(doc) : \E u \in of("feature") : u.id \in g.related /\ g.id \in u.related

-----------------------------------------------------------------------------
(* The radar (radar.rs, score.rs).  A chunk is [id, repo, kind, line, file, words, roles,
   graph, related, panels, near]: near is the cosine, and scores are in twentieths. *)

(* live_span: of a file that is still there. *)
IsLive(chunk, present) == chunk.line > 0 /\ <<chunk.repo, chunk.file>> \in present

Matches(chunk, query) ==
  /\ query.repo \in {"any", chunk.repo} /\ query.kind \in {"any", chunk.kind}
  /\ query.role = "any" \/ query.role \in chunk.roles \cup chunk.words

AtMost(n, limit) == IF n < limit THEN n ELSE limit
KindWords == {"feature", "framework", "grammar", "route", "specimen", "package"}

KindBoost(kind, terms, topical) ==
  CASE kind = "grammar" -> IF "grammar" \in terms /\ topical THEN 32 ELSE 4
    [] kind = "route" -> IF topical THEN 18 ELSE 6
    [] kind = "feature" -> IF topical THEN 16 ELSE 6
    [] kind = "specimen" -> IF topical THEN 7 ELSE 2
    [] kind = "package" -> 5
    [] OTHER -> 0

(* graph_boost *)
Boost(chunk, terms) ==
  LET bonus(condition, n) == IF condition THEN n ELSE 0
      said == Cardinality(terms \cap chunk.words)
  IN bonus(chunk.graph # "none" /\ chunk.graph \in terms, 48)
       + bonus(chunk.graph # "none", KindBoost(chunk.kind, terms, (terms \ KindWords) \cap chunk.words # {}))
       + AtMost(4 * said, 16)
       + bonus("run" \in chunk.panels, 3) + bonus("reuse" \in chunk.panels, 8)
       + bonus("framework" \in terms \cap chunk.words, 8) + bonus(chunk.related \cap terms # {}, 6)

Score(chunk, query) == chunk.near + Boost(chunk, query.terms)

(* Mutant: the hints are cut before the chunks of files that are gone are put aside. *)
MutHints(chunks, query, present) ==
  LET better(a, b) == Score(a, query) > Score(b, query) \/ (Score(a, query) = Score(b, query) /\ a.id <= b.id)
      all == SetToSortSeq({c \in ToSet(chunks) : Matches(c, query)}, better)
  IN SelectSeq(SubSeq(all, 1, AtMost(Len(all), query.limit)), LAMBDA c : IsLive(c, present))

(* rank_hints *)
Hints(chunks, query, present) ==
  LET better(a, b) == Score(a, query) > Score(b, query) \/ (Score(a, query) = Score(b, query) /\ a.id <= b.id)
      live == SetToSortSeq({c \in ToSet(chunks) : Matches(c, query) /\ IsLive(c, present)}, better)
  IN SubSeq(live, 1, AtMost(Len(live), query.limit))

Stale(chunks, query, present) == {c.id : c \in {d \in ToSet(chunks) : Matches(d, query) /\ ~IsLive(d, present)}}

(* As many hints as there may be, none of a file that is gone, none worse than a chunk that
   was left out; what is not shown for a file that is gone is reported. *)
HintsAreBest(chunks, query, present) ==
  LET hints == ToSet(Hints(chunks, query, present))
      wanted == {c \in ToSet(chunks) : Matches(c, query)}
      out == {c \in wanted \ hints : c.id \notin Stale(chunks, query, present)}
  IN /\ \A c \in hints : <<c.repo, c.file>> \in present
     /\ out # {} => Cardinality(hints) = query.limit
     /\ \A c \in hints, d \in out : Score(c, query) >= Score(d, query)
     /\ \A c \in wanted : <<c.repo, c.file>> \notin present => c.id \in Stale(chunks, query, present)
=============================================================================
