------------------------------ MODULE RecipeEvidence ------------------------------
(* Whether a repository declares a consumer of its recipes
   (src/crates/simdoc/src/recipe_evidence.rs), read from its manifest and from its workflows by a
   strict reader of YAML (src/crates/simdoc/src/workflow_yaml.rs).

   A line is [indent, dash, key, value, blank]: `- key: value` with or without its dash and its key.
   A value is a sequence: <<>> of none, <<"|">> of a block scalar, <<"[", ...>> of a flow sequence,
   <<"&">> of what is not supported, and else of one text.  A scalar is the sequence of the
   contents of its lines.  Lines that are less deep than the first of their block scalar, and an item
   whose text starts with another dash, are not modelled. *)
EXTENDS Naturals, Sequences, FiniteSets, SequencesExt, FiniteSetsExt

-----------------------------------------------------------------------------
(* The reader (workflow_yaml.rs). *)

Refused == [is |-> "refused"]
Content(line) == [dash |-> line.dash, key |-> line.key, value |-> line.value]
Plain(text) == [dash |-> FALSE, key |-> "", value |-> <<text>>]
Scalar(contents) == [is |-> "scalar", text |-> contents]
Items(trees) == [is |-> "seq", items |-> trees]
Entries(entries) == [is |-> "map", entries |-> entries]

(* scalar *)
ScalarOf(value) ==
  IF value = <<"&">> THEN Refused
  ELSE IF value[1] = "[" THEN Items([i \in 1..(Len(value) - 1) |-> Scalar(<<Plain(value[i + 1])>>)])
  ELSE Scalar(<<Plain(value[1])>>)

(* Parser::skip_blank: where the next line that is not blank is. *)
SkipBlank(lines, at) == Min({k \in at..(Len(lines) + 1) : k > Len(lines) \/ ~lines[k].blank})

(* Mutant: a line as deep as the key still belongs to its block. *)
MutBodyEnd(lines, at, indent) ==
  Min({k \in at..(Len(lines) + 1) : k > Len(lines) \/ (~lines[k].blank /\ lines[k].indent < indent)})

(* Parser::block_scalar: where the lines that are deeper than the key end. *)
BodyEnd(lines, at, indent) ==
  Min({k \in at..(Len(lines) + 1) : k > Len(lines) \/ (~lines[k].blank /\ lines[k].indent <= indent)})

Read(tree, at) == [tree |-> tree, at |-> at]
Body(lines, at, end) ==
  LET body == SelectSeq(SubSeq(lines, at, end - 1), LAMBDA line : ~line.blank)
  IN Read(Scalar([i \in DOMAIN body |-> Content(body[i])]), end)

RECURSIVE Sequence(_, _, _, _), Mapping(_, _, _, _)

(* Parser::block, at a line that is not blank, as everywhere below. *)
Block(lines, at) ==
  IF lines[at].dash THEN Sequence(lines, at, lines[at].indent, <<>>) ELSE Mapping(lines, at, lines[at].indent, <<>>)

(* The key of an item opens a mapping at its column. *)
ItemAt(lines, at, line, next, indent) ==
  IF line.key # "" THEN Mapping([lines EXCEPT ![at] = [line EXCEPT !.indent = indent + 2, !.dash = FALSE]], at, indent + 2, <<>>)
  ELSE IF line.value # <<>> THEN Read(ScalarOf(line.value), next)
  ELSE IF next > Len(lines) THEN Read(Refused, next)
  ELSE IF lines[next].indent <= indent THEN Read(Refused, next) ELSE Block(lines, next)

MoreItems(lines, indent, items, item) ==
  IF item.tree = Refused THEN item ELSE Sequence(lines, item.at, indent, Append(items, item.tree))

(* Parser::sequence *)
Sequence(lines, at, indent, items) ==
  LET line == lines[at]
  IN IF at > Len(lines) THEN Read(Items(items), at)
     ELSE IF line.indent < indent \/ (line.indent = indent /\ ~line.dash) THEN Read(Items(items), at)
     ELSE IF line.indent > indent THEN Read(Refused, at)
     ELSE MoreItems(lines, indent, items, ItemAt(lines, at, line, SkipBlank(lines, at + 1), indent))

(* A sequence may sit at its key's own column. *)
ValueAt(lines, line, next, indent) ==
  IF line.value = <<"|">> THEN Body(lines, next, BodyEnd(lines, next, indent))
  ELSE IF line.value # <<>> THEN Read(ScalarOf(line.value), next)
  ELSE IF next > Len(lines) THEN Read(Scalar(<<>>), next)
  ELSE IF lines[next].indent > indent THEN Block(lines, next)
  ELSE IF lines[next].indent = indent /\ lines[next].dash THEN Sequence(lines, next, indent, <<>>)
  ELSE Read(Scalar(<<>>), next)

MoreEntries(lines, indent, entries, key, value) ==
  IF value.tree = Refused THEN value
  ELSE Mapping(lines, value.at, indent, Append(entries, [key |-> key, value |-> value.tree]))

(* Parser::mapping *)
Mapping(lines, at, indent, entries) ==
  LET line == lines[at]
  IN IF at > Len(lines) THEN Read(Entries(entries), at)
     ELSE IF line.indent < indent \/ (line.indent = indent /\ line.dash) THEN Read(Entries(entries), at)
     ELSE IF line.indent > indent \/ line.key = "" \/ (\E i \in DOMAIN entries : entries[i].key = line.key) THEN Read(Refused, at)
     ELSE MoreEntries(lines, indent, entries, line.key, ValueAt(lines, line, SkipBlank(lines, at + 1), indent))

(* parse *)
Whole(lines, all) == IF all.at <= Len(lines) THEN Refused ELSE all.tree
Parse(lines) ==
  LET at == SkipBlank(lines, 1) IN IF at > Len(lines) THEN Refused ELSE Whole(lines, Block(lines, at))

-----------------------------------------------------------------------------
(* Evidence (recipe_evidence.rs). *)

(* Yaml::get, which is none of what is no mapping. *)
Get(tree, key) == IF tree.is # "map" THEN {} ELSE {tree.entries[i].value : i \in {i \in DOMAIN tree.entries : tree.entries[i].key = key}}
HasNone(tree, keys) == \A k \in keys : Get(tree, k) = {}

IsWord(text) == Len(text) = 1 /\ text[1].value # <<>> /\ text[1] = Plain(text[1].value[1])
Names(tree) ==
  CASE tree.is = "scalar" -> {t[1].value[1] : t \in {t \in {tree.text} : IsWord(t)}}
    [] tree.is = "map" -> {tree.entries[i].key : i \in DOMAIN tree.entries}
    [] OTHER -> UNION {{t.value[1] : t \in ToSet(tree.items[i].text)} : i \in {i \in DOMAIN tree.items : tree.items[i].is = "scalar"}}

Commands(step) == {r.text[1].value[1] : r \in {r \in Get(step, "run") : r.is = "scalar" /\ IsWord(r.text)}}

(* Mutant: a step that runs only on a condition counts. *)
MutStepCommands(step) == IF HasNone(step, {"continue-on-error", "working-directory", "shell"}) THEN Commands(step) ELSE {}

(* The command of a step that a workflow really runs, which is of one line. *)
StepCommands(step) ==
  IF HasNone(step, {"if", "continue-on-error", "working-directory", "shell"}) THEN Commands(step) ELSE {}

JobCommands(job) ==
  LET runner(r) == CASE r.is = "scalar" -> r.text # <<>> [] r.is = "seq" -> r.items # <<>> [] OTHER -> TRUE
  IN IF HasNone(job, {"if", "continue-on-error", "defaults"}) /\ (\E r \in Get(job, "runs-on") : runner(r))
     THEN UNION {UNION {StepCommands(s.items[i]) : i \in DOMAIN s.items} : s \in {s \in Get(job, "steps") : s.is = "seq"}}
     ELSE {}

(* workflow_run_steps *)
Steps(tree) ==
  IF tree = Refused THEN {}
  ELSE IF ~HasNone(tree, {"defaults"}) \/ ~\E on \in Get(tree, "on") : Names(on) \cap {"push", "pull_request"} # {} THEN {}
  ELSE UNION {UNION {JobCommands(jobs.entries[i].value) : i \in DOMAIN jobs.entries} : jobs \in {j \in Get(tree, "jobs") : j.is = "map"}}
RunSteps(lines) == Steps(Parse(lines))

Consumers == <<[command |-> "xtask", file |-> <<"xtask", "src", "main">>], [command |-> "script", file |-> <<"scripts", "check">>]>>

(* declared_validation_commands: a workflow is [path, lines, owned]. *)
DeclaredCommands(repo) ==
  repo.manifest \cup UNION {RunSteps(w.lines) : w \in {w \in repo.workflows : w.owned /\ Len(w.path) = 3 /\ w.path[3] \in {"yml", "yaml"}}}

(* declared_consumer: the first that is declared and whose file is tracked. *)
DeclaredConsumer(repo) ==
  LET declared == SelectSeq(Consumers, LAMBDA c : c.command \in DeclaredCommands(repo) /\ c.file \in repo.owned)
  IN IF declared = <<>> THEN "none" ELSE declared[1].command

-----------------------------------------------------------------------------
(* What a document says, line by line.  A line is text when a block scalar is open above it; else its
   dash and its key are nodes, each within the last node above that is further left, a dash also
   within a key of its own column. *)

KeyColumn(line) == line.indent + IF line.dash THEN 2 ELSE 0

Texts(lines) ==
  LET text[i \in DOMAIN lines] ==
        \E h \in 1..(i - 1) : /\ ~lines[h].blank /\ lines[h].value = <<"|">> /\ lines[h].key # "" /\ ~text[h]
                              /\ \A k \in (h + 1)..i : lines[k].blank \/ lines[k].indent > KeyColumn(lines[h])
  IN text
Nodes(lines, text) ==
  LET rows == {i \in DOMAIN lines : ~lines[i].blank /\ ~text[i]}
  IN {<<i, "dash">> : i \in {i \in rows : lines[i].dash}} \cup {<<i, "key">> : i \in {i \in rows : lines[i].key # ""}}

Column(lines, n) == IF n[2] = "dash" THEN lines[n[1]].indent ELSE KeyColumn(lines[n[1]])
Root == <<0, "key">>
LastOf(ns) == IF ns = {} THEN Root ELSE CHOOSE m \in ns : \A k \in ns : k[1] < m[1] \/ (k[1] = m[1] /\ (k = m \/ m[2] = "key"))
Within(lines, nodes) ==
  [n \in nodes |->
     LastOf({m \in nodes : /\ m[1] < n[1] \/ (m[1] = n[1] /\ m[2] = "dash" /\ n[2] = "key")
                           /\ \/ Column(lines, m) < Column(lines, n)
                              \/ Column(lines, m) = Column(lines, n) /\ m[2] = "key" /\ n[2] = "dash"})]

PathsOf(lines, within) ==
  LET step(n) == IF n[2] = "key" THEN <<"key", lines[n[1]].key>>
                 ELSE <<"item", Cardinality({m \in DOMAIN within : m[2] = "dash" /\ m[1] <= n[1] /\ within[m] = within[n]})>>
      path[n \in DOMAIN within] == IF within[n] = Root THEN <<step(n)>> ELSE Append(path[within[n]], step(n))
  IN path

SaysAt(lines, text, path, line, i) ==
  LET body == {k \in DOMAIN lines : text[k] /\ ~lines[k].blank /\ k > i /\ \A j \in (i + 1)..k : lines[j].blank \/ text[j]}
      inOrder == SetToSortSeq(body, LAMBDA a, b : a < b)
  IN CASE line.value = <<"|">> /\ line.key # "" ->
            {[path |-> path, text |-> [k \in DOMAIN inOrder |-> Content(lines[inOrder[k]])]]}
       [] line.value = <<>> -> {[path |-> path, text |-> <<>>]}
       [] line.value # <<>> /\ line.value[1] = "[" ->
            {[path |-> Append(path, <<"item", k - 1>>), text |-> <<Plain(line.value[k])>>] : k \in 2..Len(line.value)}
       [] OTHER -> {[path |-> path, text |-> <<Plain(line.value[1])>>]}

SaysIn(lines, text, within, paths) ==
  UNION {SaysAt(lines, text, paths[n], lines[n[1]], n[1]) : n \in {n \in DOMAIN within : ~\E m \in DOMAIN within : within[m] = n}}
SaysOf(lines, text, within) == SaysIn(lines, text, within, PathsOf(lines, within))
SaysBy(lines, text) == SaysOf(lines, text, Within(lines, Nodes(lines, text)))
Says(lines) == SaysBy(lines, Texts(lines))

RECURSIVE Leaves(_, _)
Leaves(tree, path) ==
  CASE tree.is = "scalar" -> {[path |-> path, text |-> tree.text]}
    [] tree.is = "seq" -> UNION {Leaves(tree.items[i], Append(path, <<"item", i>>)) : i \in DOMAIN tree.items}
    [] OTHER -> UNION {Leaves(tree.entries[i].value, Append(path, <<"key", tree.entries[i].key>>)) : i \in DOMAIN tree.entries}

(* A document that the reader accepts means what the tree says: its leaves are those that the
   columns of its lines give it (workflow_yaml.rs:6-10). *)
Means(tree, says) == tree = Refused \/ Leaves(tree, <<>>) = says
TreeIsText(lines) == Means(Parse(lines), Says(lines))

(* The consumer that is recorded has its file, and is named by the manifest or is all that the run of
   a step says, in a workflow that a push or a pull request starts, where nothing in that step, in its job or around
   them makes it depend on something or run elsewhere (recipe_evidence.rs:30-63). *)
Key(k) == <<"key", k>>
Runs(says, command) ==
  /\ \E s \in says, event \in {"push", "pull_request"} :
       s.path[1] = Key("on") /\ (IsPrefix(<<Key("on"), Key(event)>>, s.path) \/ s.text = <<Plain(event)>>)
  /\ ~\E s \in says : s.path[1] = Key("defaults")
  /\ \E run \in {s \in says : s.text = <<Plain(command)>> /\ Len(s.path) = 5 /\ s.path[5] = Key("run")} :
       LET Has(depth, k) == {s \in says : IsPrefix(Append(SubSeq(run.path, 1, depth), Key(k)), s.path)}
       IN /\ run.path[1] = Key("jobs") /\ run.path[3] = Key("steps") /\ run.path[4][1] = "item"
          /\ \E s \in Has(2, "runs-on") : s.text # <<>>
          /\ \A k \in {"if", "continue-on-error", "defaults"} : Has(2, k) = {}
          /\ \A k \in {"if", "continue-on-error", "working-directory", "shell"} : Has(4, k) = {}

Vouched(repo, c) ==
  c # "none" => /\ \E k \in ToSet(Consumers) : k.command = c /\ k.file \in repo.owned
                /\ c \in repo.manifest \/ \E w \in repo.workflows : w.owned /\ Parse(w.lines) # Refused /\ Runs(Says(w.lines), c)
ConsumerIsDeclared(repo) == Vouched(repo, DeclaredConsumer(repo))
=============================================================================
