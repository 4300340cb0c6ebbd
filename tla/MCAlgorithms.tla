------------------------------ MODULE MCAlgorithms ------------------------------
(* The laws of the pure modules, each on every one of a set of small inputs: a step
   takes one input of one module. *)
EXTENDS Naturals, FiniteSets, Sequences, SequencesExt, FiniteSetsExt, TLC

Cargo == INSTANCE CargoGraph
Merge == INSTANCE IndexMerge
Overlap == INSTANCE IndexOverlap
Authored == INSTANCE IndexFragment
Bench == INSTANCE BenchCompare
Gates == INSTANCE SourceGates
Fixture == INSTANCE FixtureUse
Contract == INSTANCE RepoContract
Resolver == INSTANCE ResolverInput
Atelier == INSTANCE AtelierIndex
Publish == INSTANCE Publication
Pack == INSTANCE CheckPack
Declared == INSTANCE BenchSpec
Query == INSTANCE IndexQuery
Firewall == INSTANCE AtelierGuard
Evidence == INSTANCE RecipeEvidence
Matrix == INSTANCE ValidationMatrix

VARIABLE case
Take(law, input) == case' = [law |-> law, taken |-> TRUE, input |-> input]
Given(law) == case.law = law /\ case.taken
Laws == {"cargo", "merge", "overlap", "fragment", "bench", "license", "platform",
         "consumed", "resolved", "cfg",
         "contract", "harness", "cut", "provenance", "resolver",
         "chunks", "checkouts", "units", "radar",
         "guard", "write", "scopes",
         "pack", "lock", "spec", "environment", "policy", "find", "route", "firewall",
         "yaml", "recipes", "matrix"}

(* A local package a, a local package p it may need, a local package b that only p may
   need, two versions of a registry package r and one of s. *)
Materialize ==
  LET a == Cargo!Package("a", 1, TRUE)
      p == Cargo!Package("p", 1, TRUE)
      b == Cargo!Package("b", 1, TRUE)
      r1 == Cargo!Package("r", 1, FALSE)
      r2 == Cargo!Package("r", 2, FALSE)
      s == Cargo!Package("s", 1, FALSE)
      Edges(ea, ep, e1, e2) ==
        [q \in {a, b, p, r1, r2, s} |->
           CASE q = a -> ea [] q = p -> ep [] q = r1 -> e1 [] q = r2 -> e2 [] q \in {b, s} -> {}]
      Row(nodes, q, exact) ==
        [package |-> q,
         dependencies |-> {[name |-> d.name, version |-> IF exact \/ d.name = "r" THEN d.version
                                                         ELSE Cargo!AnyVersion] : d \in nodes[q]}]
      Workspace(nodes, units, patches, unused, exact) ==
        LET used == [q \in DOMAIN nodes \ unused |-> nodes[q] \ unused]
        IN [nodes |-> used, units |-> units, patches |-> patches, unused |-> unused,
            lock |-> {Row(used, q, exact) : q \in DOMAIN used}]
  IN \E ea \in SUBSET {p, r1, s}, ep \in SUBSET {b, r1, r2}, e1 \in SUBSET {s},
        e2 \in SUBSET {s}, units \in SUBSET {p, r1, s}, patches \in SUBSET {p},
        unused \in SUBSET {p}, exact \in BOOLEAN :
       Take("cargo", Workspace(Edges(ea, ep, e1, e2), {a} \cup (units \ unused), patches \cup unused, unused, exact))

(* Up to three fragments of two or three repositories with a subject, an anchor, two
   features, a route and edges between them, some of which only another has. *)
MergeIndex ==
  LET R(kind, n, refs) == Merge!Record(kind, Merge!Id(n), refs)
      F(kind, n) == Merge!Ref(kind, Merge!Id(n))
      E(n, rel, m) == [from |-> Merge!Id(n), rel |-> rel, to |-> Merge!Id(m)]
      pool == {R("subjects", "s", {}), R("features", "f", {F("subjects", "s")}),
               R("features", "s", {F("features", "f")}), R("routes", "r", {F("features", "f")})}
      edges == {{}, {E("f", "supports", "s")}, {E("r", "routes", "f"), E("s", "contains", "s")}}
      Fragment(repo, public, records, es, facts) ==
        [repo |-> repo, public |-> public, records |-> records, edges |-> es, facts |-> facts]
      facts == {{}} \cup {{[anchor |-> Merge!Id("s"), place |-> 1, says |-> w]} : w \in {"a", "b"}}
      one(repo) == {Fragment(repo, TRUE, rs, es, {}) : rs \in SUBSET pool, es \in edges}
      said(f) == {[f EXCEPT !.facts = ts] : ts \in facts}
      two(repo) == {Fragment(repo, p, rs, {}, {}) : p \in BOOLEAN, rs \in SUBSET pool}
      few(repo) == UNION {said(Fragment(repo, TRUE, rs, {}, {})) : rs \in SUBSET {R("anchors", "s", {})}}
  IN \E fragments \in {<<f, g>> : f \in one("a"), g \in one("b")} \cup {<<f, g>> : f \in few("a"), g \in few("b")}
       \cup {<<f, g, h>> : f \in two("a"), g \in two("b"), h \in two("c")}, publicOnly \in BOOLEAN :
  Take("merge", <<fragments, publicOnly>>)

(* Implementations in crate p, in deep within p, and in q of a repository that owns its
   members; a record of p and q; a benchmark in p; a feature of p and one that claims q. *)
ReportOverlap ==
  LET Subject(crate) == [repo |-> "", crate |-> crate]
      crates == <<"p", "q", "deep">>
      places == [p |-> [repo |-> "a", path |-> <<"p", "f">>, symbol |-> "p"],
                 q |-> [repo |-> "sim-kernel", path |-> <<"q", "f">>, symbol |-> "q"],
                 deep |-> [repo |-> "a", path |-> <<"p", "deep", "f">>, symbol |-> "deep"]]
      packages == [a |-> {[name |-> "p", root |-> <<"p">>], [name |-> "deep", root |-> <<"p", "deep">>]}]
                    @@ ("sim-kernel" :> {[name |-> "q", root |-> <<>>]})
      sources == [packages |-> packages, places |-> {places[c] : c \in DOMAIN places}]
      Relation(a, protocol, body, truncated) ==
        [anchor |-> a, protocol |-> protocol, body |-> body, long |-> TRUE,
         truncated |-> truncated, symbol |-> crates[a]]
      Record(a) == [anchor |-> a, shape |-> "s", role |-> "struct", wide |-> TRUE,
                    truncated |-> FALSE, path |-> places[crates[a]].path, symbol |-> crates[a]]
      benchmark == [Record(1) EXCEPT !.role = "benchmark", !.wide = FALSE]
      Some(a) == {{}} \cup {{Relation(a, p, b, t)} : p \in {"P", "Q", Overlap!Unresolved},
                                                b \in {"b", "c"}, t \in {FALSE}}
      features == {[id |-> 1, subject |-> Subject("p"), anchors |-> {}],
                   [id |-> 2, subject |-> Subject("x"), anchors |-> {1, 2}]}
      Kept(class) == [id |-> [kind |-> "report", protocol |-> "none", shape |-> "c"],
                      members |-> {[repo |-> "a", path |-> <<"p", "deep", "h">>, class |-> class, reason |-> TRUE]}]
      exceptions == {[id |-> [kind |-> k, protocol |-> p, shape |-> s], class |-> "keep", reason |-> TRUE] :
                       <<k, p, s>> \in {<<"implementation-shape", "P", "b">>,
                                        <<"implementation-shape", "Q", "b">>, <<"record-shape", "none", "s">>}}
  IN \E fs \in SUBSET features, es \in {{}, {[from |-> 2, rel |-> "reuses", to |-> 3],
                                              [from |-> 3, rel |-> "composes", to |-> Overlap!OwnerFeature]}},
        r1 \in Some(1), r2 \in Some(2), r3 \in {{}, {Relation(3, "P", "b", FALSE)}, {Relation(3, "P", "b", TRUE)}},
        ds \in {{}, {Record(1), Record(2)}, {benchmark}}, cs \in {{}, {Kept("keep")}, {Kept("regression")}},
        xs \in {{}, {[anchor |-> 3, reason |-> TRUE]}}, es2 \in {es2 \in SUBSET exceptions : Cardinality(es2) # 2} :
       Take("overlap", [doc |-> [subjects |-> {Subject(c) : c \in {"p", "q", "deep"}},
                anchors |-> [a \in 1..3 |-> [subject |-> Subject(crates[a])]],
                features |-> fs, edges |-> es, relations |-> r1 \cup r2 \cup r3, declarations |-> ds],
       sources |-> sources,
       report |-> [complete |-> TRUE, roots |-> 1, clusters |-> cs],
       policy |-> [protocols |-> {"P"}, exemptions |-> xs], exceptions |-> es2])

Stricts ==
  {[audiences |-> a, surfaces |-> {}, specimens |-> s, routes |-> r] :
     a \in SUBSET {"user", "framework", "code"}, s \in {{}, {"all"}, {"recipe"}, {"user"}},
     r \in {{}, {"all"}}}

Packages ==
  {[name |-> n, alias |-> a, libs |-> ls, codec |-> c] :
     n \in {"p", "q"}, a \in {"p", "q"}, ls \in SUBSET {"l"}, c \in BOOLEAN}

(* What was discovered in a crate and its runtime library, drafts that overlap, and
   authored features that claim a part of them. *)
MergeOverlay ==
  LET crate == <<"crate", "p">>
      lib == <<"runtime-lib", "p", "l">>
      Item(kind, id, owner, facet, live) ==
        [kind |-> kind, id |-> id, owner |-> owner, facet |-> facet, live |-> live]
      items == {Item("anchor", "a", crate, "cli-verb", FALSE), Item("anchor", "b", lib, "runtime-lib", FALSE),
                Item("surface", "a", crate, "cli", FALSE), Item("specimen", "x", crate, "recipe", TRUE),
                Item("specimen", "y", lib, "recipe", FALSE)}
      Draft(id, claims, contracts, audiences) ==
        [id |-> <<"feature", id>>, subject |-> crate, claims |-> claims, contracts |-> contracts,
         audiences |-> audiences, generated |-> FALSE, framework |-> FALSE]
      drafts == {Draft("d1", {<<"anchor", "a">>, <<"surface", "a">>}, {"c1"}, {}),
                 Draft("d2", {<<"anchor", "b">>}, {"c2"}, {}),
                 Draft("d3", {<<"surface", "a">>, <<"specimen", "x">>}, {"c3"}, {})}
      features == {Draft("f1", {<<"anchor", "a">>}, {}, {"user"}),
                   Draft("f2", {<<"surface", "a">>, <<"specimen", "x">>}, {}, {}),
                   Draft("f3", {<<"anchor", "b">>, <<"anchor", "a">>}, {}, {"framework"})}
  IN \E is \in SUBSET items, ds \in SUBSET drafts, fs \in SUBSET features,
        rs \in {{}, {<<"feature", "f1">>, <<"feature", "f2">>}} :
       Take("fragment", [doc |-> [subjects |-> {crate, lib}, items |-> is, drafts |-> ds, features |-> {}, routed |-> rs],
       overlay |-> fs])

ScanPackages == \E ps \in SUBSET Packages, owners \in SUBSET {"p", "r", "workspace"} :
  Cardinality(ps) <= 2 /\ Take("subjects", <<ps, owners>>)

(* Up to two samples in any order, or three in order; values with ties, with zero and
   with an outlier. *)
SampleSets ==
  LET one == {Bench!Sample(i, v) : i \in 0..2, v \in {0, 2, 9}}
  IN  {<<>>} \cup {<<s>> : s \in one} \cup {<<s, t>> \in one \X one : s.index <= t.index}
      \cup {<<Bench!Sample(0, u), Bench!Sample(1, v), Bench!Sample(2, w)>> : u, v, w \in {0, 2, 9}}

Compare == \E b, c \in SampleSets, compatible \in BOOLEAN, direction \in {"lower", "higher"},
               m \in {1, 2}, o \in {0, 1} :
  Take("bench", <<b, c, compatible, direction,
                  [minimum |-> m, dispersion |-> 100, outlier |-> o, threshold |-> 50]>>)

(* One file with up to three lines of marks; a package within two workspaces. *)
CheckLicense ==
  LET comment(what) == <<"//", what>>
      lines == {<<>>, <<comment("notice")>>, <<comment("plain"), <<"raw", 0>>>>, <<<<"quote", 0>>>>,
                <<<<"raw", 0>>>>, <<<<"raw", 1>>>>, <<<<"quote", 1>>>>, <<<<"raw", 1>>, <<"quote", 0>>>>,
                <<<<"quote", 0>>, <<"raw", 1>>>>, <<<<"raw", 0>>, comment("generated"), <<"quote", 0>>>>,
                <<comment("generated")>>}
      file(head, path, touched) ==
        [bound |-> TRUE, exists |-> TRUE, touched |-> touched, path |-> path, head |-> head]
      glob(g) == [glob |-> g, kind |-> "golden", reason |-> TRUE]
      absent == [here |-> FALSE]
      none == [d \in {<<>>} |-> [package |-> absent, workspace |-> Gates!NoTable]]
      table == [here: {TRUE}, publish: {"none", "false"}, license: {"none", "own"}]
      text(dir) == dir \o <<"legal", "LICENSE">>
      package(publish, license, workspace) ==
        [here |-> TRUE, version |-> TRUE, publish |-> publish, license |-> license, workspace |-> workspace]
  IN \E tree \in {[files |-> {file(<<a, b, c>>, <<"x">>, t)}, exclusions |-> {}, canonical |-> {<<"LICENSE">>},
       manifests |-> none] : a, b, c \in lines, t \in BOOLEAN}
     \cup {[files |-> {file(<<>>, path, TRUE)}, exclusions |-> {glob(g)}, canonical |-> {<<"LICENSE">>},
            manifests |-> none] :
             path \in {<<"a">>, <<"a", "b">>, <<"b", "a", "b">>},
             g \in UNION {[1..n -> {"a", "b", "*", "**"}] : n \in 0..3}}
     \cup {[files |-> {}, exclusions |-> {}, canonical |-> {<<"LICENSE">>} \cup texts,
            manifests |-> (<<>> :> [package |-> absent, workspace |-> outer])
                          @@ (<<"c">> :> [package |-> absent, workspace |-> inner])
                          @@ (<<"c", "p">> :> [package |-> package(p, l, w), workspace |-> Gates!NoTable])] :
             outer \in table, inner \in table \cup {Gates!NoTable},
             p \in {"none", "false", "workspace"}, l \in {"none", "own", "workspace"},
             w \in {Gates!Unnamed, <<>>},
             texts \in SUBSET {text(<<>>), text(<<"c">>), text(<<"c", "p">>), <<"c", "p", "LICENSE">>}}, strict \in BOOLEAN : Take("license", <<tree, strict>>)

(* Up to four lines. *)
ScanFile ==
  \E n \in 1..4 : \E lines \in [1..n ->
       {[cfg |-> FALSE, mod |-> m, opens |-> o, closes |-> c, kinds |-> {"call"}] :
          m \in {FALSE}, o \in 0..1, c \in 0..1}
       \cup {[cfg |-> TRUE, mod |-> FALSE, opens |-> 0, closes |-> 0, kinds |-> {}]}
       \cup {[cfg |-> FALSE, mod |-> TRUE, opens |-> o, closes |-> c, kinds |-> {"call"}] :
               o \in 1..2, c \in 0..1}] :
    Take("platform", [repo |-> "r", package |-> "p", target |-> "lib", bin |-> FALSE, lines |-> lines])

Item(module, name, attrs, async, body) ==
  [module |-> module, name |-> name, attrs |-> attrs, async |-> async, params |-> {},
   body |-> body, reviewed |-> name = Fixture!Helper]
TestAttr == [is |-> "test"]
CfgAttr(value) == [is |-> "cfg", meta |-> [is |-> "is", key |-> 1, value |-> value]]

(* A test whose body has two statements, the first a simple one or a branch.  Whether a
   chain of constants always returns is not seen, which the code's documents say. *)
ConsumeInBody ==
  LET helper == <<Fixture!Helper>>
      c == Fixture!Call(helper, <<>>, "x", FALSE)
      f == Fixture!Call(<<"f">>, <<>>, Fixture!NoFixture, FALSE)
      S(e, drops) == Fixture!Statement(e, drops, {})
      simple == {c, f, Fixture!Call(<<"f">>, <<c>>, Fixture!NoFixture, FALSE),
                 Fixture!Call(<<"drop">>, <<c>>, Fixture!NoFixture, FALSE), Fixture!Method(c),
                 Fixture!Group(<<f, c>>), Fixture!Eager(<<f, c>>, 1), Fixture!Return,
                 Fixture!Block(<<S(Fixture!Return, TRUE), S(c, FALSE)>>), Fixture!Opaque}
      let == Fixture!Let({Fixture!Helper}, c)
      atoms == {Fixture!Bool("true"), Fixture!Bool("false"), Fixture!Not(Fixture!Bool("true")), Fixture!Cfg}
      conditions == atoms \cup {c, let}
      chains ==
        {Fixture!Both(op, l, r) : op \in {"and", "or"}, l \in atoms, r \in atoms \cup {c}}
        \cup {Fixture!Both("and", let, c), Fixture!Both("and", Fixture!Bool("true"), let)}
      uses == {<<>>, <<S(c, FALSE)>>}
      inner == uses \cup {<<S(Fixture!Return, TRUE)>>}
      Branches(ks, bodies) ==
        {Fixture!If(k, t, o) : k \in ks, t \in bodies, o \in {Fixture!Block(b) : b \in bodies}}
      branches == Branches(conditions, inner) \cup Branches(chains, uses)
                    \cup {Fixture!While(k, <<S(c, FALSE)>>) : k \in conditions \cup chains}
                    \cup {Fixture!Bind(c, ns, t) : ns \in {{}, {Fixture!Helper}}, t \in inner}
      statements == {[expr |-> e, drops |-> d, names |-> ns, hoists |-> hs, off |-> o] :
                       e \in simple, d \in BOOLEAN, ns, hs \in {{}, {Fixture!Helper}}, o \in BOOLEAN}
      plain == {S(e, d) : e \in simple, d \in BOOLEAN}
  IN \E body \in {<<s, t>> : s \in statements, t \in plain} \cup {<<S(e, FALSE), t>> : e \in branches, t \in plain} :
  Take("consumed",
       [attrs |-> {}, uses |-> <<>>, globs |-> {},
        items |-> {Item(<<>>, Fixture!Helper, {}, FALSE, <<>>), Item(<<>>, "t", {TestAttr}, FALSE, body)}])

(* A test that calls go through the modules m and m::n, which may hold a decoy of the
   helper; go consumes. *)
ConsumeByPath ==
  \E called \in {<<"go">>, <<"m", "go">>, <<"crate", "m", "n", "go">>, <<"self", "m", "n", "go">>},
    consumed \in {<<Fixture!Helper>>, <<"super", Fixture!Helper>>, <<"crate", Fixture!Helper>>},
    awaited, async \in BOOLEAN, off \in {{}, {CfgAttr("false")}, {CfgAttr("true")}, {[is |-> "ignore"]}},
    homes \in SUBSET {<<>>, <<"m">>, <<"m", "n">>}, decoy \in {{}, {<<"m", "n">>}},
    use \in {<<>>, <<"m", "n", "go">>, <<"self", "m", "go">>}, glob \in {{}, {<<"m", "n">>}, {<<"m">>}} :
      LET S(path, fixture) == <<Fixture!Statement(Fixture!Call(path, <<>>, fixture, awaited), FALSE, {})>>
          Go(home) == Item(home, "go", off, async, S(consumed, "x"))
          Decoy(home) == [Item(home, Fixture!Helper, {}, FALSE, <<>>) EXCEPT !.reviewed = FALSE]
      IN Take("resolved",
              [attrs |-> {},
               uses |-> IF use = <<>> THEN <<>>
                        ELSE <<[module |-> <<>>, name |-> "go", attrs |-> {}, path |-> use]>>,
               globs |-> {[module |-> <<>>, path |-> g] : g \in glob}
                           \cup {[module |-> <<"m", "n">>, path |-> <<"super", "super">>]},
               items |-> {Item(<<>>, Fixture!Helper, {}, FALSE, <<>>),
                          Item(<<>>, "t", {TestAttr}, FALSE, S(called, Fixture!NoFixture))}
                           \cup {Go(h) : h \in homes} \cup {Decoy(h) : h \in decoy}])

DecideCfg ==
  LET leaf == {[is |-> "is", key |-> k, value |-> v] : k \in {1, 2}, v \in {"true", "false", "unknown"}}
      over(ms) == {[is |-> op, of |-> {m, n}] : op \in {"all", "any"}, m, n \in ms}
                    \cup {[is |-> op, of |-> {}] : op \in {"all", "any"}}
                    \cup {[is |-> "not", of |-> {m}] : m \in ms}
  IN \E meta \in over(leaf) \cup over(over(leaf)) : Take("cfg", meta)

(* A root package, a workspace crates with a package p, a fixture of p's test and a
   harness that tests p. *)
MakeContract ==
  LET crates == <<"crates">>
      p == <<"crates", "p">>
      ui == <<"crates", "p", "tests", "ui">>
      h == <<"h">>
      test == <<"crates", "p", "tests", "ui", "rs">>
      lib(d) == d \o <<"src", "lib", "rs">>
      code == <<"code", "lib", "rs">>
      generated == <<"docs", "generated", "contract", "json">>
      Target(kind, src) == [kind |-> kind, src |-> src, test |-> TRUE]
      Package(name, unpublished, targets, paths) ==
        [name |-> name, unpublished |-> unpublished, targets |-> targets, paths |-> paths]
      Exclusion(path, class, consumer, command) ==
        [path |-> path, class |-> class, reason |-> TRUE, consumer |-> consumer, command |-> command]
      command == <<[is |-> "cargo", path |-> <<>>], [is |-> "test", path |-> <<>>],
                   [is |-> "--manifest-path", path |-> Contract!Manifest(h)]>>
      table == [package |-> TRUE, name |-> "h", lib |-> [here |-> FALSE, path |-> <<>>],
                targets |-> [k \in {"bin", "test", "example"} |-> <<>>],
                auto |-> [k \in {"bin", "test"} |-> TRUE], default |-> "none"]
      exclusions == {Exclusion(ui, "test-fixture", test, <<>>), Exclusion(h, "focused-test-harness", <<>>, command),
                     Exclusion(p, "test-fixture", test, <<>>), Exclusion(p \o <<"tests">>, "test-fixture", test, <<>>)}
      some == {Contract!Manifest(d) : d \in {<<>>, p, ui, h}} \cup {test, code, lib(p), generated, <<"h", "tests", "t", "rs">>}
  IN \E nested, hidden \in BOOLEAN, links \in {{}, {crates}}, declared \in {<<>>, <<crates>>, <<crates, crates>>},
        excluded \in {<<>>} \cup {<<e, f>> : e, f \in exclusions}, commands \in {{}, {command}},
        says \in {{<<"tests", "ui">>}, {<<"ui">>}, {<<"tests">>}, {<<"other">>}}, name \in {"p", "r"},
        needs \in SUBSET {ui, h}, tests \in {{}, {p}} :
       Take("contract", [tracked |-> some \cup (IF nested THEN {Contract!Manifest(crates)} ELSE {}),
       files |-> some \cup {Contract!Manifest(crates)}, links |-> links,
       cargo |-> IF nested THEN (<<>> :> [root |-> <<>>, members |-> <<<<>>>>]) @@ (crates :> [root |-> crates, members |-> <<p>>])
                 ELSE (<<>> :> [root |-> <<>>, members |-> <<<<>>, p>>]),
       declared |-> declared, exclusions |-> excluded, commands |-> commands,
       says |-> (test :> says), harness |-> (h :> table),
       package |-> (<<>> :> Package("r", FALSE, {Target("lib", code)}, {p}))
                   @@ (p :> Package(name, FALSE, {Target("lib", lib(p)), Target("test", test)}, needs))
                   @@ (ui :> Package("f", hidden, {}, {}))
                   @@ (h :> Package("h", TRUE, {}, tests))])

(* A root package r, p and q around or within a declared workspace, and cuts of their names. *)
MakeMatrix ==
  LET p == <<"crates", "p">>
      q == <<"crates", "deep", "q">>
      lib(d) == d \o <<"src", "lib", "rs">>
      fuzz == Contract!Manifest(<<"fuzz">>)
      Package(name, d) == [name |-> name, unpublished |-> FALSE, paths |-> {}, targets |-> {[kind |-> "lib", src |-> lib(d), test |-> TRUE]}]
      homes == {(<<>> :> {<<>>, p, q}), (<<>> :> {<<>>, p}) @@ (<<"crates", "deep">> :> {q}), (<<>> :> {<<>>}) @@ (<<"crates">> :> {p, q}),
                (<<>> :> {<<>>}) @@ (<<"crates">> :> {p}) @@ (<<"crates", "deep">> :> {q})}
      groups == {[g \in {} |-> <<>>], "sdk" :> <<"r", "sim-server">>, ("sdk" :> <<"p">>) @@ ("x" :> <<"sim-server", "r">>),
                 ("x" :> <<>>), ("x" :> <<"gone">>)}
      files == {Contract!Manifest(<<>>), Contract!Manifest(p), Contract!Manifest(q), lib(<<>>), lib(p), lib(q)}
  IN \E home \in homes, gs \in groups, more \in SUBSET {fuzz, <<"docs", "generated", "matrix", "md">>},
        features \in [{<<>>, p, q} -> {{}, {"f"}}] :
     LET owned == files \cup {Contract!Manifest(d) : d \in DOMAIN home} \cup more
         nested == DOMAIN home \ {<<>>}
         order == IF gs = [g \in {} |-> <<>>] THEN <<>> ELSE IF "sdk" \in DOMAIN gs /\ "x" \in DOMAIN gs THEN <<"x", "sdk">>
                  ELSE IF "sdk" \in DOMAIN gs THEN <<"sdk">> ELSE <<"x">>
         exclude == [path |-> <<"fuzz">>, class |-> "focused-test-harness", reason |-> TRUE, consumer |-> <<>>,
                     command |-> <<[is |-> "cargo", path |-> <<>>], [is |-> "run", path |-> <<>>], [is |-> "--manifest-path", path |-> fuzz]>>]
     IN Take("matrix", <<[tracked |-> owned, files |-> owned, links |-> {},
           cargo |-> [d \in DOMAIN home |-> [root |-> d, members |-> SetToSeq(home[d])]],
           declared |-> SetToSeq(nested), exclusions |-> IF fuzz \in more THEN <<exclude>> ELSE <<>>, commands |-> {exclude.command},
           says |-> [f \in {} |-> {}], 
           harness |-> (<<"fuzz">> :> [package |-> TRUE, name |-> "fuzz", lib |-> [here |-> FALSE, path |-> <<>>], default |-> "none",
                          targets |-> [bin |-> <<[name |-> "fuzz", path |-> fuzz, gated |-> FALSE, test |-> TRUE]>>, test |-> <<>>, example |-> <<>>],
                          auto |-> [k \in {"bin", "test"} |-> FALSE]]),
           package |-> (<<>> :> Package("r", <<>>)) @@ (p :> Package("p", p)) @@ (q :> Package("sim-server", q))
                        @@ (<<"fuzz">> :> [name |-> "fuzz", unpublished |-> TRUE, targets |-> {}, paths |-> {<<>>}])],
           features, [Contract!ParsedCut(<<>>) EXCEPT !.order = order, !.groups = gs]>>)

RunHarness ==
  LET Target(name, path, gated, test) == [name |-> name, path |-> path, gated |-> gated, test |-> test]
      own == <<"own", "rs">>
      bin == {Target(n, p, g, TRUE) : n \in {"h", "b"}, p \in {Contract!Absent, own, Contract!NotAString}, g \in BOOLEAN}
      test == {Target("t", p, g, t) : p \in {Contract!Absent, own}, g \in {FALSE}, t \in BOOLEAN}
                \cup {Target("t", Contract!Absent, TRUE, TRUE)}
      example == {Target("e", Contract!Absent, FALSE, TRUE)}
      few(ts) == {<<>>} \cup {<<t>> : t \in ts}
      two == {<<b, c>> : b, c \in {Target(n, Contract!Absent, FALSE, TRUE) : n \in {"h", "b"}}}
  IN \E bins \in few(bin) \cup two, tests \in few(test), examples \in few(example),
        auto \in BOOLEAN, default \in {"none", "h", "b"}, here \in BOOLEAN, verb \in {"test", "run"},
        files \in SUBSET {own, <<"src", "main", "rs">>, <<"src", "bin", "b", "rs">>, <<"tests", "t", "main", "rs">>} :
       Take("harness", <<[package |-> TRUE, name |-> "h", lib |-> [here |-> here, path |-> <<>>],
                          default |-> default, auto |-> [k \in {"bin", "test"} |-> auto],
                          targets |-> [bin |-> bins, test |-> tests, example |-> examples]],
                         files \cup {<<"src", "lib", "rs">> : f \in files \cap {own}}, verb>>)

ReadCut ==
  LET line == {[is |-> "section", key |-> k, items |-> <<>>, closes |-> TRUE] : k \in {"groups", "other"}}
              \cup {[is |-> "array", key |-> k, items |-> i, closes |-> c] :
                      k \in {"group_order", "a", "b"}, i \in {<<"a">>, <<"p">>, <<"a", "b">>}, c \in BOOLEAN}
              \cup {[is |-> "items", key |-> "", items |-> i, closes |-> c] : i \in {<<>>, <<"p">>}, c \in BOOLEAN}
  IN \E lines \in [1..3 -> line], start \in {"", "groups"}, names \in {{"p"}, {"p", "a"}} :
       Take("cut", <<(IF start = "" THEN <<>> ELSE <<[is |-> "section", key |-> start, items |-> <<>>, closes |-> TRUE]>>)
                       \o lines, names>>)

RecordProvenance == \E preserved \in [hash: 0..2, commit: 0..2, time: 0..2], hash \in 1..2, head, later \in 1..3 :
  (preserved.hash = 0 => preserved = Contract!NoProvenance) /\ Take("provenance", <<preserved, hash, head, later>>)

(* A package a of the repository with what may lie in its sources, a namesake n and a
   dependency d from another checkout or from a directory that is none. *)
BindResolver ==
  LET src == <<"repo", "a", "src">>
      file(path, is, tracked) == [path |-> path, is |-> is, tracked |-> tracked, content |-> path]
      always == {file(Append(src, "lib"), "file", TRUE), file(<<"repo", "b">>, "file", TRUE),
                 file(<<"other", "src", "lib">>, "file", TRUE), file(<<"private", "src", "lib">>, "file", FALSE)}
      maybe == {file(Append(src, "u"), "file", FALSE), file(Append(src, "l"), "link", TRUE)}
      toml == {{}, {file(src \o <<"n", "toml">>, "file", TRUE)}, {file(src \o <<"n", "toml">>, "file", FALSE)}}
      lock == {{}, {file(src \o <<"n", "lock">>, "file", FALSE)}, {file(src \o <<"n", "lock">>, "link", FALSE)}}
      manifest == [name |-> "toml", is |-> "manifest", to |-> <<>>]
      link(name, to) == [name |-> name, is |-> "link", to |-> to]
      more == {{}, {[name |-> "own", is |-> "file", to |-> <<>>, content |-> "own"]}, {link("b", <<"repo", "b">>)},
               {link("o", <<"other", "src">>)}, {link("gone", <<"repo", "gone">>)}}
      package(name, local, member, entries, targets, needs) ==
        [name |-> name, version |-> 1, local |-> local, member |-> member, entries |-> entries \cup {manifest},
         targets |-> targets, needs |-> needs, generated |-> name]
  IN \E fs \in SUBSET maybe, t \in toml, k \in lock, es \in more,
        target \in {Append(src, "lib"), <<"private", "src", "lib">>, Append(src, "u")}, needs \in {{}, {"d"}},
        member, local \in BOOLEAN, to \in {<<"other", "src">>, <<"repo", "b">>},
        from \in {<<"other", "src">>, <<"private", "src">>}, names \in SUBSET {"a", "d"} :
       Take("resolver", <<[manifest |-> "m", lock |-> "k", checkouts |-> {"repo", "other"}, files |-> always \cup fs \cup t \cup k,
       packages |-> [a |-> package("a", TRUE, TRUE, {link("src", src)} \cup es, {target}, needs),
                     n |-> package("a", TRUE, member, {link("src", to)}, {}, {}),
                     d |-> package("d", local, FALSE, {link("src", from)}, {}, {})]], names>>)

ChunkText ==
  \E max \in 1..3 :
     \/ \E n \in 0..5 : \E text \in [1..n -> {"n", "_", "#", "a", "w"}] : Take("chunks", <<text, max>>)
     \/ \E n \in 6..7 : \E text \in [1..n -> {"n", "#", "a"}] : Take("chunks", <<text, max>>)

(* Two checkouts with up to three files each. *)
IndexCheckouts ==
  LET file(path, ext, reads) == [path |-> path, ext |-> ext, reads |-> reads]
      paths == {<<<<"README.md">>, "md">>, <<<<"Cargo.toml">>, "toml">>, <<<<"p", "Cargo.toml">>, "toml">>,
                <<<<"src", "lib">>, "rs">>, <<<<"p", "src", "m">>, "rs">>, <<<<"p", "src", "target", "m">>, "rs">>,
                <<<<"recipes", "r">>, "md">>, <<<<"recipes", ".sim", "r">>, "md">>, <<<<"docs", "humans", "d">>, "md">>}
      files == {file(p[1], p[2], reads) : p \in paths, reads \in BOOLEAN}
      some == {fs \in UNION {kSubset(k, files) : k \in 0..3} : \A f, g \in fs : f.path = g.path => f = g}
      repo(name, fs, present, git, clean) ==
        [name |-> name, present |-> present, git |-> git, clean |-> clean, code |-> TRUE, sources |-> {<<"p">>},
         files |-> fs]
  IN \E fs \in some, gs \in {{}, {file(<<"Cargo.toml">>, "toml", TRUE), file(<<"README.md">>, "md", FALSE)}},
        present, git, clean \in BOOLEAN :
       (present \/ fs = {}) /\ Take("checkouts", {repo("a", fs, present, git, clean), repo("b", gs, TRUE, TRUE, TRUE)})

(* Nested subjects, a surface, specimens, two features that name grammars and a route. *)
IndexDocuments ==
  LET subject(id, kind) == [id |-> id, kind |-> kind]
      grammar(id, refs) == [id |-> id, refs |-> refs]
      feature(id, of, specimens, grammars) ==
        [id |-> id, subject |-> of, anchors |-> {"x"}, surfaces |-> {"s"}, specimens |-> specimens,
         grammars |-> grammars]
      edges == {[from |-> "r", rel |-> "contains", to |-> "c"], [from |-> "c", rel |-> "contains", to |-> "l"],
                [from |-> "r", rel |-> "supports", to |-> "l"]}
  IN \E es \in SUBSET edges, runs, runs2 \in BOOLEAN, sp \in SUBSET {"p", "q"},
        g1, g2 \in {{}, {grammar("g", {"s"})}, {grammar("h", {}), grammar("g", {})}}, is \in {"specimen", "feature"} :
       Take("units", [subjects |-> {subject("r", "repo"), subject("c", "crate"), subject("l", "language")},
                      surfaces |-> {[id |-> "s", subject |-> "c"]}, edges |-> es,
                      specimens |-> {[id |-> "p", subject |-> "c", runnable |-> runs],
                                     [id |-> "q", subject |-> "l", runnable |-> runs2]},
                      features |-> <<feature("f", "c", sp, g1), feature("e", "l", {"p"}, g2)>>,
                      routes |-> {[id |-> "t", steps |-> <<[is |-> is, id |-> IF is = "specimen" THEN "q" ELSE "f"]>>]}])

(* Three chunks of two files, one of which may be gone. *)
AimRadar ==
  LET chunk(id, kind, line, file, words, graph, panels, near) ==
        [id |-> id, repo |-> "r", kind |-> kind, line |-> line, file |-> file, words |-> words, roles |-> {},
         graph |-> graph, related |-> {}, panels |-> panels, near |-> near]
      chunks(id) == {chunk(id, k, l, f, ws, g, {"run"}, near) :
                       k \in {"feature", "grammar"}, l \in 0..1, f \in {"x", "y"}, ws \in {{}, {"t", "framework"}},
                       g \in {"none", "g"}, near \in {0, 20}}
      third == chunk(3, "route", 1, "x", {"t"}, "h", {"reuse"}, 7)
  IN \E c \in chunks(1), d \in chunks(2), terms \in {{"t"}, {"grammar", "g", "t"}, {"framework"}}, limit \in 1..2,
        kind \in {"any", "feature"}, present \in {{<<"r", "x">>}, {<<"r", "x">>, <<"r", "y">>}} :
       Take("radar", <<<<c, d, third>>, [repo |-> "any", kind |-> kind, role |-> "any", terms |-> terms, limit |-> limit],
                       present>>)

(* A repository /a/a, directories of the environment with one segment and with two, and
   texts of up to seven characters. *)
Machine == [repo |-> <<"/", "a", "/", "a">>, parent |-> <<"/", "a">>, named |-> {<<"/", "b">>, <<"/", "b", "/", "a">>}]
Public == {<<"/", "b", "/", "b">>, <<"F", "/", "b">>}

GuardText ==
  \/ \E n \in 0..4, json \in BOOLEAN : \E text \in [1..n -> {"a", "b", "/", "~", "$", " ", "=", ")", ".", ":", "F"}] :
       Take("guard", <<text, json>>)
  \/ \E n \in 5..7 : \E text \in [1..n -> {"a", "b", "/", "="}] : Take("guard", <<text, FALSE>>)

WriteText ==
  LET p == <<"d", "e", "f">>
      kinds == [p1 : {"dir", "link", "file", "none"}, p2 : {"dir", "link", "file", "none"}, p3 : {"link", "file", "dir", "none"}]
  IN \E k \in kinds, text \in {<<"a">>, <<"/", "b", "/", "a">>}, path \in {p, <<"d">>, <<"..", "d">>, <<"g", "h">>} :
       /\ k.p1 # "dir" => k.p2 = "none"
       /\ k.p2 # "dir" => k.p3 = "none"
       /\ LET kind == (<<"d">> :> k.p1) @@ (<<"d", "e">> :> k.p2) @@ (p :> k.p3)
              here == {q \in DOMAIN kind : kind[q] # "none"}
          IN Take("write", <<[q \in here |-> kind[q]], path, text>>)

UseScopes ==
  LET op == {[is |-> "enter", of |-> r] : r \in {"a", "b"}} \cup {[is |-> "read", of |-> f] : f \in {"foreign", "owned"}}
              \cup {[is |-> e, of |-> ""] : e \in {"finish", "drop"}}
  IN \E n \in 1..6 : \E ops \in [1..n -> op] : Publish!Legal(ops) /\ Take("scopes", ops)

(* A platform with two facts; options that are right but for one of them. *)
CheckCorpus ==
  LET builds(p, a) == [producer |-> 1, adapter |-> [inputs |-> 1, lock |-> a], pack |-> [inputs |-> 2, lock |-> p]]
      own == ("success" :> 1) @@ ("diverged" :> 2) @@ ("cas" :> 3) @@ ("acknowledgement" :> 4)
      identities == {own, [own EXCEPT !["diverged"] = 1], [own EXCEPT !["acknowledgement"] = 3]}
      classes == {[r \in Pack!Roles |-> r], [r \in Pack!Roles |-> "success"]}
  IN \E class \in classes, acceptance, binding \in identities,
        p1 \in {"p1", "p2", Pack!None}, p2 \in {"p2", Pack!None}, lock \in 1..2,
        live, verifies, right \in BOOLEAN, other \in {{}, {"result"}, {"support"}}, status \in {"current", "revoked"} :
       LET corpus == [id |-> "c", class |-> class, acceptance |-> acceptance, binding |-> binding,
                      witness |-> [f \in {"p1", "p2"} |-> IF f = "p1" THEN p1 ELSE p2]]
           b == builds(1, lock)
           evidence == [f \in {"p1", "p2"} \cup DOMAIN Pack!SpecimenFacts |-> TRUE]
           options == [checker |-> "checker/c-op", scope |-> IF right THEN "operation/local" ELSE "other",
                       subject |-> evidence, binding |-> Pack!Binding(b)]
       IN Take("pack", <<corpus, options, [live |-> live, verifies |-> verifies, other |-> other, status |-> status], b>>)

SelectLock ==
  LET dirs == {<<>>, <<"w">>, <<"w", "p">>, <<"x">>}
  IN \E here \in SUBSET dirs : \E tree \in [here -> [is : {"file", "link"}, content : 1..3]],
        file \in {{}} \cup {{d} : d \in dirs}, digest \in {{}, {1}, {2}} :
       Take("lock", <<[file |-> file, digest |-> digest], <<"w", "p">>, tree>>)

(* A specification that is sound, ones that are not, and others like it. *)
GoodSpec == [text |-> [t \in Declared!Texts |-> "t"], metrics |-> <<"m">>, samples |-> 1, noise |-> 0, threshold |-> {},
             confidence |-> 95, cpus |-> 1, features |-> <<>>, capabilities |-> <<>>, comment |-> ""]

DeclareBench ==
  \E blank \in SUBSET {"name", "target"}, metrics \in {<<>>, <<"m">>, <<"m", "">>}, samples, cpus \in 0..1,
     noise \in {-1, 0, 2, Declared!PosInf, Declared!NaN}, threshold \in {{}} \cup {{t} : t \in {-1, 0, 2, Declared!PosInf, Declared!NaN}},
     confidence \in {0, 99, 100, Declared!NaN}, features, others \in {<<"a", "b">>, <<"b", "a", "a">>}, word \in {"", "w"},
     more \in 1..2 :
    LET given == [GoodSpec EXCEPT !.text = [t \in Declared!Texts |-> IF t \in blank THEN "" ELSE "t"],
                    !.metrics = metrics, !.samples = samples, !.noise = noise, !.threshold = threshold,
                    !.confidence = confidence, !.cpus = cpus, !.features = features]
    IN Take("spec", <<given, [given EXCEPT !.features = others, !.comment = word,
                                           !.samples = IF more = 1 THEN @ ELSE 2]>>)

(* Two machines that read one fact well and another in every way. *)
CompareMachines ==
  LET Lines(key, values) == {[ok |-> FALSE], [ok |-> TRUE, value |-> <<>>]}
        \cup {[ok |-> TRUE, value |-> <<[key |-> "other", value |-> "o"], [key |-> key, value |-> v], [key |-> key, value |-> "late"]>>] : v \in values}
      memory == {[ok |-> FALSE]} \cup {[ok |-> TRUE, value |-> <<[key |-> "MemTotal", number |-> n, unit |-> u]>>] :
                                       n \in {-1, 0, 3, 4, 16}, u \in {"kB", "MB"}}
      known(v) == [ok |-> TRUE, value |-> v]
      machines == {[host |-> [id |-> "h", ssh |-> "h"],
                    build |-> ("source-revision" :> r) @@ [target |-> "t", profile |-> "p", toolchain |-> "c", features |-> fs],
                    machine |-> [release |-> os, cpuinfo |-> [ok |-> FALSE], architecture |-> known("x"),
                                 governor |-> g, cpus |-> c, meminfo |-> m]] :
                     r \in {"", "r"}, fs \in {<<"a", "b">>, <<"b", "a", "b">>},
                     os \in Lines("ID", {"", "linux"}), g \in {[ok |-> FALSE], known("g")},
                     c \in {[ok |-> FALSE], known(0), known(2)}, m \in {[ok |-> FALSE]}}
      few == {k \in machines : k.build["source-revision"] = "r" /\ k.machine.governor.ok}
      read == {[k EXCEPT !.machine.meminfo = m] : k \in {k \in few : k.machine.cpus = known(2) /\ k.build.features = <<"a", "b">>}, m \in memory}
  IN \E one \in machines \cup read, two \in few \cup read,
        names \in {<<"operating-system", "operating-system", "logical-cpus">>, <<"memory-bytes">>, <<"features", "memory-bytes">>,
                   <<"cpu-model">>, <<"source-revision", "cpu-governor">>, <<"label", "features">>} :
       Take("environment", <<names, one, two>>)

(* A policy, two changes of one or two of its parts each, and a result. *)
ChangePolicy ==
  LET frozen == [floor |-> 2, samples |-> 1, dispersion |-> 1, inconclusive |-> FALSE, characterization |-> 1, decision |-> 1,
                 cases |-> ("v" :> 1) @@ ("w" :> 1)]
      cases == {("v" :> 1) @@ ("w" :> 1), "v" :> 1, ("v" :> 0) @@ ("w" :> 2), ("v" :> 1) @@ ("w" :> 1) @@ ("x" :> 1)}
      policies == {[frozen EXCEPT !.floor = f, !.samples = s, !.inconclusive = i, !.decision = d, !.cases = cs] :
                     f \in 1..2, s \in 1..2, i \in BOOLEAN, d \in 1..2, cs \in cases}
  IN \E between, last \in policies, improvement \in 1..2, w \in 0..2, x \in 0..1, conclusive \in BOOLEAN :
       Take("policy", <<frozen, between, last,
              [improvement |-> improvement, samples |-> 1, dispersion |-> 1, conclusive |-> conclusive,
               regression |-> ("v" :> 0) @@ ("w" :> w) @@ ("x" :> x)]>>)

(* Two anchors of one package with what is declared of them, a grammar, surfaces, features, a
   specimen and a route; up to two arguments and one more. *)
FindRows ==
  LET subject(id, texts) == [id |-> id, texts |-> texts]
      c == <<"c">>
      g == <<"grammar", "l">>
      relation(a, spelling, resolved, protocols) ==
        [anchor |-> a, implementor |-> "i", spelling |-> spelling, resolved |-> resolved, protocols |-> protocols]
      surface(id, kind) == [id |-> id, kind |-> kind, subject |-> c, texts |-> {id, c, <<kind>>}]
      feature(id, anchors, surfaces, specimens, contracts, texts) ==
        [id |-> id, key |-> "k", anchors |-> anchors, surfaces |-> surfaces, specimens |-> specimens,
         contracts |-> contracts, texts |-> texts]
      step(is, id) == [is |-> is, id |-> id]
      arg(flag, value) == [flag |-> flag, value |-> value]
      input == arg("input", <<"file">>)
      flags == {arg("query", <<"w">>), arg("query", <<"i">>), arg("audience", <<"u">>), arg("audience", <<>>),
                arg("surface", <<"view">>), arg("surface", <<"syntax">>), arg("role", <<"struct">>), arg("role", <<"other">>),
                arg("implements", <<"P">>), arg("implements", <<"Q">>), arg("resolved", <<>>), arg("unresolved", <<>>),
                arg("feature", <<"k">>), arg("unknown", <<>>)}
  IN \E relations \in SUBSET {relation("x", "P", TRUE, {"R"}), relation("x", "q", FALSE, {"Q"}), relation("y", "q", FALSE, {"P", "Q"})},
        mine \in {{}, {"x"}, {"x", "y"}}, on \in {{<<"view", "l">>}, {<<"view", "gone">>}, {}}, steps \in {<<step("feature", "f")>>, <<step("specimen", "s")>>},
        base \in {<<>>} \cup {<<a>> : a \in flags} \cup {<<a, b>> : a \in flags, b \in {arg("implements", <<"Q">>), arg("query", <<"w">>)}}, more \in flags :
       Take("find", <<[subjects |-> {subject(c, {c, <<"w", "i">>}), subject(g, {g})},
                       anchors |-> {[id |-> "x", subject |-> c, texts |-> {<<"x">>, c, <<"w">>}], [id |-> "y", subject |-> g, texts |-> {<<"y">>}]},
                       declarations |-> {[anchor |-> "x", role |-> "struct", texts |-> {<<"struct">>}]},
                       relations |-> relations,
                       surfaces |-> {surface(<<"view", "l">>, "view"), surface(<<"edit", "m">>, "syntax")},
                       features |-> {feature("f", mine, on, {"s"}, {}, {<<"f">>, <<"w", "i">>}),
                                     feature("e", {"y"}, {}, {}, {<<"syntax", "z">>}, {<<"e">>, <<"k">>})},
                       specimens |-> {[id |-> "s", texts |-> {<<"s">>, c}]},
                       routes |-> {[id |-> "r", audiences |-> {"u"}, steps |-> steps, texts |-> {<<"r">>, <<"u">>, <<"w">>}]}],
                      <<input>> \o base, more>>)

FindRoutes ==
  LET step(is, id, why) == [is |-> is, id |-> id, why |-> why]
      doc(routes, title) == [features |-> {[id |-> "f", title |-> title]}, specimens |-> {[id |-> "s", title |-> {"v"}]}, routes |-> routes]
      route(id, title, steps) == [id |-> id, title |-> title, audiences |-> {"u"}, steps |-> steps]
      steps == {<<>>, <<step("feature", "f", {"w"})>>, <<step("specimen", "s", {}), step("feature", "gone", {"t"})>>}
      titles == {{}, {"t"}, {"t", "v", "the"}}
      words == {"t", "v", "w", "u", "the", "r2"}
  IN \E t1, t2 \in titles, s1, s2, s3 \in steps, title \in SUBSET {"t", "v"}, n \in 1..2 : \E task \in [1..n -> words] :
       Take("route", <<doc({route("r1", t1, s1), route("r2", t2, s2), route("r3", {"w"}, s3)}, title),
                       ("r1" :> 1) @@ ("r2" :> 2) @@ ("r3" :> 3), task>>)

(* A Markdown file of up to five lines; a repository with up to two files, and a second one. *)
Line(is, says) == [is |-> is, ascii |-> TRUE, says |-> says, dep |-> "none"]
GuardedFile(path, ext, lines) ==
  [path |-> path, ext |-> ext, tracked |-> TRUE, is |-> "file", utf8 |-> TRUE, lines |-> lines, size |-> 10, kernel |-> FALSE]
GuardedRepo(name, kind, code, files) ==
  [name |-> name, kind |-> kind, code |-> code, publish |-> FALSE, meta |-> {}, here |-> TRUE, git |-> "dir",
   files |-> files, docs |-> {}, docsHere |-> TRUE, remotes |-> {}]

GuardLines ==
  \E n \in 1..6 : \E lines \in [1..n -> {Line("tick", FALSE), Line("tilde", FALSE), Line("indented", TRUE), Line("text", TRUE)}] :
    Take("firewall", <<{GuardedRepo("a", "code", TRUE, {GuardedFile(<<"README">>, "md", lines)})}, {}>>)

GuardRepos ==
  LET says == <<Line("comment", TRUE)>>
      quiet == <<Line("code", TRUE), Line("comment", FALSE)>>
      dep(p) == <<[Line("text", FALSE) EXCEPT !.dep = p]>>
      files == {GuardedFile(<<"src", "x">>, "rs", says), GuardedFile(<<"src", "x">>, "rs", quiet),
                GuardedFile(<<"docs", "generated", "x">>, "rs", says), GuardedFile(<<"docs", "provenance">>, "md", <<Line("text", TRUE)>>),
                [GuardedFile(<<"src", "mod">>, "rs", quiet) EXCEPT !.size = 300], [GuardedFile(<<"src", "y">>, "rs", quiet) EXCEPT !.size = 600],
                [GuardedFile(<<"p", "target", "z">>, "rs", <<>>) EXCEPT !.size = 701], GuardedFile(<<"target", "z">>, "rs", says),
                [GuardedFile(<<"src", "k">>, "rs", <<>>) EXCEPT !.kernel = TRUE],
                [GuardedFile(<<"docs", "t">>, "toml", <<>>) EXCEPT !.utf8 = FALSE],
                [GuardedFile(<<"u">>, "md", <<[Line("text", FALSE) EXCEPT !.ascii = FALSE]>>) EXCEPT !.tracked = FALSE],
                [GuardedFile(<<"l">>, "md", <<>>) EXCEPT !.is = "dirlink"],
                GuardedFile(<<"Cargo.toml">>, "toml", dep("absolute")), GuardedFile(<<"p", "Cargo.toml">>, "toml", dep("relative")),
                [GuardedFile(<<"b">>, "md", <<[Line("text", FALSE) EXCEPT !.ascii = FALSE]>>) EXCEPT !.path = <<".github", "b">>]}
      remote(push, github, nest) == [push |-> push, github |-> github, nest |-> nest]
  IN \E fs \in UNION {kSubset(k, files) : k \in 0..2}, kind \in {"code", "private", "frontpage"}, code \in BOOLEAN,
        git \in {"dir", "broken", "file"}, docs \in {{}, {<<"docs", "d">>}}, remotes \in {{}, {remote(TRUE, FALSE, TRUE)}, {remote(FALSE, TRUE, TRUE)}},
        name \in {"a", "sim-kernel"}, rules \in {{}, {"rust-file-size-policy"}, {"unknown"}} :
       LET r == [GuardedRepo(name, kind, code, fs) EXCEPT !.git = git, !.docs = docs, !.remotes = remotes, !.docsHere = (kind = "code")]
       IN Take("firewall", <<{r, GuardedRepo("b", "code", FALSE, {GuardedFile(<<"d">>, "md", <<>>)})}, rules>>)

(* A document of up to four lines; a workflow of one job and step, with what may take its force. *)
YamlLine(indent, dash, key, value) == [indent |-> indent, dash |-> dash, key |-> key, value |-> value, blank |-> FALSE]
ReadYaml ==
  LET kinds == {<<TRUE, "", <<>>>>, <<TRUE, "", <<"x">>>>, <<TRUE, "a", <<>>>>, <<TRUE, "a", <<"|">>>>,
                <<FALSE, "a", <<>>>>, <<FALSE, "a", <<"|">>>>, <<FALSE, "b", <<>>>>, <<FALSE, "b", <<"x">>>>}
      more == {<<TRUE, "", <<"|">>>>, <<FALSE, "", <<"x">>>>, <<FALSE, "a", <<"[", "x", "y">>>>, <<TRUE, "", <<"[", "x">>>>,
               <<FALSE, "a", <<"&">>>>}
      Of(ks, indents) == {YamlLine(i, k[1], k[2], k[3]) : k \in ks, i \in indents}
      blank == [YamlLine(0, FALSE, "", <<>>) EXCEPT !.blank = TRUE]
      wide == Of(kinds \cup more, {0, 2, 4}) \cup {blank}
  IN \/ \E one \in Of(kinds \cup more, {0}), two, three \in wide : Take("yaml", <<one, two, three>>)
     \/ \E one \in {k \in Of(kinds, {0}) : k.key = "a"} : \E rest \in [1..3 -> Of(kinds, {0, 2, 4})] : Take("yaml", <<one>> \o rest)

ReadRecipes ==
  LET key(i, k, v) == YamlLine(i, FALSE, k, v)
      one(ls) == {<<l>> : l \in ls}
      on == {<<key(0, "on", <<"push">>)>>, <<key(0, "on", <<"[", "other", "pull_request">>)>>,
             <<key(0, "on", <<>>), key(2, "push", <<>>)>>, <<key(0, "on", <<"other">>)>>, <<>>}
      force == {<<>>} \cup one({key(i, k, <<"v">>) : i \in {0, 2, 4, 6, 8}, k \in {"if", "shell", "defaults"}})
      run == {<<YamlLine(i, TRUE, "run", <<c>>)>> : i \in {4, 6}, c \in {"xtask", "script"}}
             \cup {<<YamlLine(4, TRUE, "name", <<"v">>), key(6, "run", <<"|">>)>> \o ls :
                     ls \in {<<key(8, "", <<"xtask">>)>>, <<key(8, "", <<"xtask">>), key(8, "", <<"script">>)>>, <<key(6, "", <<"xtask">>)>>}}
      files == {Evidence!Consumers[i].file : i \in 1..2}
  IN \E head \in on, before, within, after \in force, runs \in one({key(4, "runs-on", <<"v">>), key(4, "runs-on", <<>>)}), step \in run,
        plain \in BOOLEAN :
     \E manifest \in (IF plain THEN {{}} ELSE SUBSET {"xtask", "script"}), owned \in (IF plain THEN {files} ELSE SUBSET files),
        path \in (IF plain THEN {<<".github", "workflows", "yml">>} ELSE {<<".github", "workflows", "yml">>, <<".github", "workflows", "d", "yml">>}),
        here \in (IF plain THEN {TRUE} ELSE BOOLEAN) :
       /\ (before # <<>> \/ ~plain) => (within = <<>> /\ after = <<>> /\ (plain \/ before = <<>>))
       /\ Take("recipes",
            [manifest |-> manifest, owned |-> owned,
             workflows |-> {[path |-> path, owned |-> here,
                             lines |-> head \o before \o <<key(0, "jobs", <<>>), key(2, "j", <<>>)>> \o runs \o within
                                         \o <<key(4, "steps", <<>>)>> \o step \o after]}])

Init == case \in {[law |-> law, taken |-> FALSE, input |-> {}] : law \in Laws}
Next ==
  /\ ~case.taken
  /\ \/ case.law = "cargo" /\ Materialize
     \/ case.law = "merge" /\ MergeIndex
     \/ case.law = "overlap" /\ ReportOverlap
     \/ case.law = "fragment" /\ (MergeOverlay \/ ScanPackages)
     \/ case.law = "bench" /\ Compare
     \/ case.law = "license" /\ CheckLicense
     \/ case.law = "platform" /\ ScanFile
     \/ case.law = "consumed" /\ ConsumeInBody
     \/ case.law = "resolved" /\ ConsumeByPath
     \/ case.law = "cfg" /\ DecideCfg
     \/ case.law = "contract" /\ MakeContract
     \/ case.law = "harness" /\ RunHarness
     \/ case.law = "cut" /\ ReadCut
     \/ case.law = "provenance" /\ RecordProvenance
     \/ case.law = "resolver" /\ BindResolver
     \/ case.law = "chunks" /\ ChunkText
     \/ case.law = "checkouts" /\ IndexCheckouts
     \/ case.law = "units" /\ IndexDocuments
     \/ case.law = "radar" /\ AimRadar
     \/ case.law = "guard" /\ GuardText
     \/ case.law = "write" /\ WriteText
     \/ case.law = "scopes" /\ UseScopes
     \/ case.law = "pack" /\ CheckCorpus
     \/ case.law = "lock" /\ SelectLock
     \/ case.law = "spec" /\ DeclareBench
     \/ case.law = "environment" /\ CompareMachines
     \/ case.law = "policy" /\ ChangePolicy
     \/ case.law = "find" /\ FindRows
     \/ case.law = "firewall" /\ (GuardLines \/ GuardRepos)
     \/ case.law = "route" /\ FindRoutes
     \/ case.law = "yaml" /\ ReadYaml
     \/ case.law = "recipes" /\ ReadRecipes
     \/ case.law = "matrix" /\ MakeMatrix
Spec == Init /\ [][Next]_case

(* What a private registry is filled with is all that the selected packages need and no more, and
   the identity of a resolver input changes with everything that a build of it reads
   (materialize.rs, resolver_input.rs). *)
ClosureIsCopied ==
  /\ Given("cargo") => Cargo!CopiesWhatIsNeeded(case.input)
  /\ Given("resolver") => Resolver!IdentityBindsReads(case.input[1], case.input[2])

(* A merged index holds each fragment's records under the repository they came from, whatever the
   order of the fragments, with no reference left dangling (index_merge.rs). *)
MergeIsFaithful ==
  Given("merge") => Merge!MergeKeepsMeaning(case.input[1], case.input[2])

(* What an index says is complete: authored features heal what they claim, texts are cut without
   loss, silence means that there is nothing, and questions and routes find the best and all that
   matches (index_author.rs, atelier/index.rs, atelier/radar.rs, index_find.rs, index_route.rs). *)
IndexIsWhole ==
  /\ Given("fragment") => Authored!DoctorHeals(case.input.doc, case.input.overlay, Stricts)
  /\ Given("subjects") => Authored!SubjectsAreRooted(<<"repo", "r">>, case.input[1], case.input[2])
  /\ Given("chunks") => Atelier!ChunksCoverText(case.input[1], case.input[2])
  /\ Given("checkouts") => Atelier!SilenceIsWhole(case.input)
  /\ Given("units") => Atelier!GraphUnitsConnect(case.input)
  /\ Given("radar") => Atelier!HintsAreBest(case.input[1], case.input[2], case.input[3])
  /\ Given("find") => Query!FindNarrows(case.input[1], case.input[2], case.input[3])
  /\ Given("route") => Query!RoutesAreBest(case.input[1], case.input[2], case.input[3])

(* A gate that passes has looked: licenses, platform facts, published text, the firewall, and a
   recipe's consumer, which is read from workflows as they are written (license_gate.rs,
   platform_inventory.rs, publication.rs, atelier/guard.rs, recipe_evidence.rs). *)
GatesAreHonest ==
  /\ Given("license") => Gates!LicenseIsHonest(case.input[1], case.input[2])
  /\ Given("yaml") => Evidence!TreeIsText(case.input)
  /\ Given("recipes") => Evidence!ConsumerIsDeclared(case.input)
  /\ Given("platform") => Gates!FactsAreComplete(case.input)
  /\ Given("guard") => Publish!NothingLocalPasses(Machine, Public, case.input[1], case.input[2])
  /\ Given("firewall") => Firewall!PassMeansClean(case.input[1], case.input[2])
  /\ Given("write") => Publish!WritesOneFile(Machine, Public, case.input[1], case.input[2], case.input[3])
  /\ Given("scopes") => Publish!ForeignReadsRefuse(case.input)

(* A contract covers or excludes every package on evidence that a compiled test, a cut, a harness
   or the provenance really gives, and its matrix compiles what it covers (repo_contract/,
   validation_matrix.rs). *)
ContractIsWitnessed ==
  /\ Given("consumed") \/ Given("resolved") => Fixture!CreditIsEarned(case.input)
  /\ Given("cfg") => Fixture!CfgIsDecided(case.input, {1, 2})
  /\ Given("contract") => Contract!ContractIsTotal(case.input)
  /\ Given("contract") => Contract!InputsBindReads(case.input)
  /\ Given("matrix") => Matrix!MatrixCompiles(case.input[1], case.input[2], case.input[3])
  /\ Given("matrix") => Contract!InputsBindReads(case.input[1])
  /\ Given("harness") => Contract!HarnessRuns(case.input[1], case.input[2], case.input[3])
  /\ Given("cut") => Contract!CutIsPartition(case.input[1], case.input[2])
  /\ Given("provenance") => Contract!ProvenanceIsStable(case.input[1], case.input[2], case.input[3], case.input[4])

(* A verdict, of a benchmark or of a check pack, follows from what was measured and vouched for, on
   machines that were compared by what they are, under no weaker a policy than was frozen
   (bench/, check_pack.rs). *)
VerdictIsEarned ==
  /\ Given("bench") => Bench!VerdictIsEarned(case.input[1], case.input[2], case.input[3],
                                             case.input[4], case.input[5])
  /\ Given("pack") => Pack!PassIsVouchedFor(case.input[1], case.input[2], case.input[3], case.input[4])
  /\ Given("spec") => Declared!SpecIsWhole(case.input[1], case.input[2], GoodSpec)
  /\ Given("environment") => Declared!ComparedIsObserved(case.input[1], case.input[2], case.input[3])
  /\ Given("policy") => Declared!NoCreepingWeakening(case.input[1], case.input[2], case.input[3], case.input[4])
  /\ Given("lock") => Pack!LockIsExact(case.input[1], case.input[2], case.input[3])

(* A report on overlap passes only when every cluster of like implementations was decided by a
   person, or is exempt for a reason that still holds (index_overlap.rs). *)
PassMeansDecided == Given("overlap") => Overlap!PassMeansDecided(case.input)
=============================================================================
