------------------------------ MODULE SourceGates ------------------------------
(***************************************************************************)
(* The gates over the files of a checkout: check-license                   *)
(* (src/src/license_gate.rs), check-file-sizes (src/src/file_size_gate.rs) *)
(* and platform-inventory (src/src/platform_inventory.rs).                 *)
(*                                                                         *)
(* A path is a sequence of names.  A line of a head is a sequence of marks *)
(* <<kind, value>>: "raw", an opener of a raw string with that many #;     *)
(* "quote", a quote with that many # after it; "//", a comment that says   *)
(* value.  What is between the marks does not matter.                      *)
(***************************************************************************)
EXTENDS Integers, Sequences, FiniteSets, SequencesExt

-----------------------------------------------------------------------------
(* Notices. *)

Code == -1     \* no raw string is open
Comment == -2  \* nor in the rest of this line

(* Mutant: a quote closes any raw string. *)
MutAfterMark(mark, open) ==
  CASE open >= 0 -> IF mark[1] = "//" THEN open ELSE Code
    [] open = Comment -> Comment
    [] open = Code -> CASE mark[1] = "raw" -> mark[2] [] mark[1] = "//" -> Comment [] OTHER -> Code

(* raw_string_state_after, a mark at a time: the number of # of the raw string that is
   open.  An opener is a quote too. *)
AfterMark(mark, open) ==
  CASE open >= 0 -> IF \/ mark[1] = "quote" /\ mark[2] >= open
                       \/ mark[1] = "raw" /\ open = 0
                    THEN Code ELSE open
    [] open = Comment -> Comment
    [] open = Code -> CASE mark[1] = "raw" -> mark[2] [] mark[1] = "//" -> Comment [] OTHER -> Code

AfterLine(line, open) ==
  LET last == FoldLeft(LAMBDA state, mark : AfterMark(mark, state), open, line)
  IN IF last = Comment THEN Code ELSE last

(* lines_outside_raw_strings: those at whose start none is open. *)
Outside(head) ==
  LET before[i \in 1..(Len(head) + 1)] ==
        IF i = 1 THEN Code ELSE AfterLine(head[i - 1], before[i - 1])
  IN {i \in DOMAIN head : before[i] = Code}

Says(line, what) == line # <<>> /\ line[1] = <<"//", what>>

(* The head starts after a shebang, and is HEAD_LINES long at most. *)
Classified(head) ==
  LET said(what) == \E i \in Outside(head) : Says(head[i], what)
  IN CASE said("notice") -> "present" [] ~said("notice") /\ said("generated") -> "generated"
       [] ~said("notice") /\ ~said("generated") /\ said("other") -> "other"
       [] OTHER -> "missing"

-----------------------------------------------------------------------------
(* Exclusions. *)

(* segments_match, with the number of names of the glob and of the path already taken. *)
GlobMatches(glob, path) ==
  LET from[i \in 1..(Len(glob) + 1), j \in 1..(Len(path) + 1)] ==
        IF i > Len(glob) THEN j > Len(path)
        ELSE IF glob[i] = "**" THEN \E k \in j..(Len(path) + 1) : from[i + 1, k]
        ELSE j <= Len(path) /\ glob[i] \in {"*", path[j]} /\ from[i + 1, j + 1]
  IN from[1, 1]

ExclusionsOK(entries) ==
  \A e \in entries : e.kind \in {"generated", "third-party", "golden", "frozen-evidence"} /\ e.reason

IsExcluded(entries, path) == \E e \in entries : GlobMatches(e.glob, path)

-----------------------------------------------------------------------------
(* Licence texts of packages.  A manifest holds a [package] and a [workspace] table, which
   may be absent; "none" stands for an absent key, "workspace" for an inherited one. *)

NoTable == [here |-> FALSE, publish |-> "none", license |-> "none"]
Unnamed == <<"?">>  \* the value of an absent workspace key

(* nearest_workspace: the one that is named, or else the innermost one around. *)
WorkspaceOf(tree, dir) ==
  LET declared == {d \in DOMAIN tree.manifests : tree.manifests[d].workspace.here /\ IsPrefix(d, dir)}
      named == tree.manifests[dir].package.workspace
  IN IF named # Unnamed THEN named
     ELSE IF declared = {} THEN <<>>
     ELSE CHOOSE d \in declared : \A e \in declared : Len(e) <= Len(d)

TableOf(tree, dir) ==
  IF dir \in DOMAIN tree.manifests THEN tree.manifests[dir].workspace ELSE NoTable

IsPublishable(package, table) ==
  /\ package.version
  /\ (IF package.publish = "workspace" THEN table.publish ELSE package.publish)
       \notin {"false", "nowhere"}

(* resolve_workspace_license_file, and without one any canonical LICENSE beside it. *)
LicenseOf(tree, dir) ==
  LET package == tree.manifests[dir].package
      at == WorkspaceOf(tree, dir)
  IN CASE package.license = "own" -> dir \o <<"legal", "LICENSE">>
       [] package.license = "workspace" /\ TableOf(tree, at).license = "own" ->
            at \o <<"legal", "LICENSE">>
       [] OTHER -> dir \o <<"LICENSE">>

WithoutLicense(tree) ==
  {dir \in DOMAIN tree.manifests \ {<<>>} :
     /\ tree.manifests[dir].package.here
     /\ IsPublishable(tree.manifests[dir].package, TableOf(tree, WorkspaceOf(tree, dir)))
     /\ LicenseOf(tree, dir) \notin tree.canonical}

-----------------------------------------------------------------------------
(* check-license *)

(* touched_files: what git says changed since the merge base, and untracked files. *)
Missing(tree) ==
  {f \in tree.files : f.bound /\ f.exists /\ ~IsExcluded(tree.exclusions, f.path)
                        /\ Classified(f.head) = "missing"}

LicensePasses(tree, strict) ==
  /\ ExclusionsOK(tree.exclusions)
  /\ <<"LICENSE">> \in tree.canonical
  /\ \A f \in Missing(tree) : ~f.touched
  /\ strict => Missing(tree) = {} /\ WithoutLicense(tree) = {}

-----------------------------------------------------------------------------
(* check-file-sizes: entry points are held to a limit of their own. *)

SizesPass(files, limits) ==
  \A f \in files : f.skipped \/ f.lines <= (IF f.entrypoint THEN limits.entrypoint ELSE limits.general)

-----------------------------------------------------------------------------
(* platform-inventory.  A line of a file: how many braces it opens and closes, whether
   it is a cfg attribute that says test, or opens a module, and the kinds of host
   binding on it. *)

(* scan_file: which lines belong to tests. *)
Scanned(lines) ==
  LET step(s, l) ==
        LET pending == s.pending \/ l.cfg
            opens == pending /\ l.mod /\ l.opens > 0
            start == IF opens THEN s.depth + l.opens ELSE s.start
            depth == IF s.depth + l.opens >= l.closes THEN s.depth + l.opens - l.closes ELSE 0
        IN [depth |-> depth, pending |-> pending /\ ~opens,
            start |-> IF depth < start THEN 0 ELSE start,
            test |-> Append(s.test, start > 0)]
  IN FoldLeft(step, [depth |-> 0, pending |-> FALSE, start |-> 0, test |-> <<>>], lines).test

RoleOf(file, test) ==
  CASE test \/ file.target \in {"test", "example", "bench"} -> "test"
    [] file.repo = "sim-tooling" \/ file.target = "build" \/ file.package = "xtask" \/ file.bin -> "tool"
    [] file.package \in {"host", "platform"} -> "capsule"
    [] file.package = "sim-run" -> "bootstrap"
    [] OTHER -> "pure"

(* One fact for a line and a kind of binding, whatever else of the kind is there. *)
Facts(file) ==
  LET tests == Scanned(file.lines)
  IN UNION {{[line |-> i, kind |-> k, role |-> RoleOf(file, tests[i])] : k \in file.lines[i].kinds} :
              i \in DOMAIN file.lines}

-----------------------------------------------------------------------------
(* Laws. *)

(* Where a mark is in a raw string: after an opener that is code, and before what closes
   it. *)
RawLines(head) ==
  LET marks == FlattenSeq([i \in DOMAIN head |-> [p \in DOMAIN head[i] |-> <<i, head[i][p]>>]])
      Closes(q, m) == \/ m[1] = "quote" /\ m[2] >= q[2]
                      \/ m[1] = "raw" /\ q[2] = 0
      inside[q \in 0..Len(marks)] ==
        \E o \in 1..(q - 1) :
          /\ marks[o][2][1] = "raw" /\ ~inside[o]
          /\ \A c \in 1..(o - 1) : marks[c][1] = marks[o][1] /\ marks[c][2][1] = "//" => inside[c]
          /\ \A m \in (o + 1)..(q - 1) : ~Closes(marks[o][2], marks[m][2])
      Upto(i) == Cardinality({q \in DOMAIN marks : marks[q][1] < i})
  IN {i \in DOMAIN head :
        \E o \in 1..Upto(i) :
          /\ marks[o][2][1] = "raw" /\ ~inside[o]
          /\ \A c \in 1..(o - 1) : marks[c][1] = marks[o][1] /\ marks[c][2][1] = "//" => inside[c]
          /\ \A m \in (o + 1)..Upto(i) : ~Closes(marks[o][2], marks[m][2])}

Declares(head, what) == \E i \in DOMAIN head \ RawLines(head) : Says(head[i], what)

(* A glob spans a path when the path can be cut into one part for each of its names. *)
Spans(glob, path) ==
  \E cut \in [0..Len(glob) -> 0..Len(path)] :
    /\ cut[0] = 0 /\ cut[Len(glob)] = Len(path)
    /\ \A i \in DOMAIN glob :
         IF glob[i] = "**" THEN cut[i - 1] <= cut[i]
         ELSE cut[i] = cut[i - 1] + 1 /\ glob[i] \in {"*", path[cut[i]]}

(* A published package carries the text its own workspace names. *)
Ships(tree, dir) ==
  LET package == tree.manifests[dir].package
      Innermost(w) == /\ IsPrefix(w, dir) /\ tree.manifests[w].workspace.here
                      /\ \A e \in DOMAIN tree.manifests :
                           IsPrefix(w, e) /\ IsPrefix(e, dir) /\ e # w => ~tree.manifests[e].workspace.here
      homes == IF package.workspace # Unnamed THEN {package.workspace}
               ELSE {w \in DOMAIN tree.manifests : Innermost(w)}
      Inherits(key, value) == \E w \in homes : TableOf(tree, w)[key] = value
  IN \/ ~package.version
     \/ package.publish \in {"false", "nowhere"}
     \/ package.publish = "workspace" /\ \E v \in {"false", "nowhere"} : Inherits("publish", v)
     \/ package.license = "own" /\ dir \o <<"legal", "LICENSE">> \in tree.canonical
     \/ /\ package.license = "workspace" /\ Inherits("license", "own")
        /\ \E w \in homes : w \o <<"legal", "LICENSE">> \in tree.canonical
     \/ /\ package.license # "own"
        /\ ~(package.license = "workspace" /\ Inherits("license", "own"))
        /\ dir \o <<"LICENSE">> \in tree.canonical

LicenseIsHonest(tree, strict) ==
  LicensePasses(tree, strict) =>
    /\ \A f \in tree.files : f.bound /\ f.exists /\ (f.touched \/ strict) =>
         \/ \E e \in tree.exclusions : e.reason /\ Spans(e.glob, f.path)
         \/ \E what \in {"notice", "generated", "other"} : Declares(f.head, what)
    /\ strict => \A dir \in DOMAIN tree.manifests \ {<<>>} :
         tree.manifests[dir].package.here => Ships(tree, dir)

(* What is taken for a test is between the braces of a module that a cfg attribute
   precedes, when every such attribute is followed by a module that begins there. *)
TestsAreTests(lines) ==
  LET Depth(i) == FoldLeft(LAMBDA d, l : d + l.opens - l.closes, 0, SubSeq(lines, 1, i))
  IN (/\ \A i \in DOMAIN lines : lines[i].cfg =>
            i < Len(lines) /\ lines[i + 1].mod /\ lines[i + 1].opens > 0
      /\ \A i \in DOMAIN lines : Depth(i) >= 0)
     => \A i \in DOMAIN lines : Scanned(lines)[i] =>
          \E m \in 2..i : /\ lines[m].mod /\ lines[m - 1].cfg
                         /\ \A j \in m..(i - 1) : Depth(j) > Depth(m - 1)

(* Facts say test of nothing else, and every binding of every line has a fact. *)
FactsAreComplete(file) ==
  /\ TestsAreTests(file.lines)
  /\ \A i \in DOMAIN file.lines : \A k \in file.lines[i].kinds :
       \E f \in Facts(file) : f.line = i /\ f.kind = k

=============================================================================
