------------------------------ MODULE Publication ------------------------------
(* What a generator of the documentation may read and publish
   (src/crates/simdoc/src/publication.rs and owned.rs).

   A text is a sequence of characters: a blank, "=" where a path may start and ")" where one
   ends, "." and ":", the "/", "~" and "$" of paths, "F" for the five of file:, and letters.
   A tree maps a path, a sequence of names, to file, dir or link. *)
EXTENDS Naturals, Sequences, FiniteSets, SequencesExt, FiniteSetsExt

Refused == [refused |-> TRUE]

-----------------------------------------------------------------------------
(* The guard of a text. *)

IsDelimiter(c) == c \in {" ", ")"}
IsBoundary(c) == c \in {" ", "="}
IsPlain(c) == c \notin {" ", "=", ")", ":", "F", "~", "$"}
Punctuation == {".", ":"}

(* The end of what starts at i: the next delimiter. *)
End(text, i) == Min({j \in i..Len(text) : IsDelimiter(text[j])} \cup {Len(text) + 1})

(* file_urls: the scheme and the slash after it, where an earlier one is not read. *)
FileUrls(text) ==
  LET starts == {i \in 1..(Len(text) - 1) : text[i] = "F" /\ text[i + 1] = "/"}
      first(i) == \A j \in starts : j < i => End(text, j) <= i
  IN {SubSeq(text, i, End(text, i) - 1) : i \in {j \in starts : first(j)}}

(* inside_relative_path_or_url *)
Inside(text, i) ==
  LET start == Max({0} \cup {j \in 1..(i - 1) : IsBoundary(text[j])}) + 1
      url == \E j \in start..(i - 2) : text[j] \in {":", "F"} /\ text[j + 1] = "/" /\ text[j + 2] = "/"
  IN start < i /\ (url \/ \A j \in start..(i - 1) : IsPlain(text[j]))

Starts(text, i, boundary) ==
  LET second == IF i < Len(text) THEN text[i + 1] ELSE " "
      here == CASE text[i] = "/" -> ~IsDelimiter(second) /\ second # "/"
                [] text[i] = "~" -> second = "/"
                [] text[i] = "$" -> second \notin {" ", "=", ")", ".", ":", "/", "~", "$"}
                [] OTHER -> FALSE
  IN here /\ (boundary \/ text[i] = "$" \/ ~Inside(text, i))

(* A path from i on, without the punctuation of the sentence after it. *)
Token(text, i) ==
  LET kept == {j \in i..(End(text, i) - 1) : text[j] \notin Punctuation}
  IN SubSeq(text, i, IF kept = {} THEN i - 1 ELSE Max(kept))

Segments(token) ==
  LET name(i) == token[i] # "/" /\ \E j \in 1..i : token[j] # "~"
  IN Cardinality({i \in DOMAIN token : name(i) /\ (i = 1 \/ ~name(i - 1))})

Kept(token) == IF token # <<>> /\ token[1] = "$" THEN "/" \in ToSet(token) ELSE Segments(token) >= 2

(* path_tokens: what is in a path that was taken is not looked at again. *)
PathTokens(text) ==
  LET boundary(i) == i = 1 \/ IsBoundary(text[i - 1])
      step(s, i) == IF i < s.next \/ ~Starts(text, i, boundary(i)) \/ ~Kept(Token(text, i)) THEN s
                    ELSE [tokens |-> s.tokens \cup {Token(text, i)}, next |-> End(text, i)]
  IN FoldLeft(step, [tokens |-> {}, next |-> 1], [i \in DOMAIN text |-> i]).tokens

(* outside_json_path of one string. *)
OutsideJson(text, literals) ==
  IF text # <<>> /\ text[1] = "/" THEN text \notin literals
  ELSE \/ IsPrefix(<<"~", "/">>, text) \/ IsPrefix(<<".", ".", "/">>, text) \/ text = <<".", ".">>
       \/ \E i \in DOMAIN text : LET rest == SubSeq(text, i, Len(text)) IN
            rest = <<"/", ".", ".">> \/ IsPrefix(<<"/", ".", ".", "/">>, rest)

(* local_locations: the repository, its parent where that has one, and the directories of
   the environment that have two segments. *)
Locations(env) ==
  {env.repo} \cup (IF Segments(env.parent) > 0 THEN {env.parent} ELSE {}) \cup {d \in env.named : Segments(d) >= 2}

Occurs(part, text) == \E i \in DOMAIN text : IsPrefix(part, SubSeq(text, i, Len(text)))

(* Mutant: what lies below a public path is public. *)
MutGuard(env, literals, text, json) ==
  /\ \A l \in Locations(env) : ~Occurs(l, text)
  /\ FileUrls(text) \subseteq literals
  /\ \A t \in PathTokens(text) : t \in literals \/ \E l \in literals : IsPrefix(l, t)
  /\ ~json \/ ~OutsideJson(text, literals)

Guard(env, literals, text, json) ==
  /\ \A l \in Locations(env) : ~Occurs(l, text)
  /\ FileUrls(text) \subseteq literals
  /\ PathTokens(text) \subseteq literals
  /\ ~json \/ ~OutsideJson(text, literals)

(* ensure_ordinary_target: no part that is there is a link, and the last is a file.  A path
   that goes up is none of the repository's. *)
OrdinaryTarget(tree, path) ==
  LET parts == {SubSeq(path, 1, n) : n \in 1..Len(path)}
      there(part) == \A n \in 1..Len(part) : SubSeq(part, 1, n) \in DOMAIN tree
  IN /\ ".." \notin ToSet(path) /\ path # <<>>
     /\ \A part \in parts : there(part) => tree[part] # "link" /\ (part = path => tree[part] = "file")

(* write *)
Write(env, literals, tree, path, text) ==
  LET parents == {SubSeq(path, 1, n) : n \in 1..(Len(path) - 1)}
      made == [p \in DOMAIN tree \cup parents |-> IF p \in DOMAIN tree THEN tree[p] ELSE "dir"]
  IN IF ~Guard(env, literals, text, FALSE) \/ ~OrdinaryTarget(tree, path) THEN Refused
     ELSE IF (\E p \in parents : made[p] # "dir") \/ ~OrdinaryTarget(made, path) THEN Refused
     ELSE [refused |-> FALSE, tree |-> [p \in DOMAIN made \cup {path} |-> IF p = path THEN "file" ELSE made[p]]]

(* A text that passes names no place of this machine: none of its directories, no file:
   URL, and no path of two segments where a word starts, however the scanner went through
   what is before it, except what may be published (publication.rs:12-26).  A second slash
   makes a comment of it. *)
NothingLocalPasses(env, literals, text, json) ==
  LET starts == {i \in 1..(Len(text) - 1) : i = 1 \/ IsBoundary(text[i - 1])}
      path(i) == (text[i] = "/" /\ text[i + 1] # "/" /\ ~IsDelimiter(text[i + 1])) \/ (text[i] = "~" /\ text[i + 1] = "/")
  IN Guard(env, literals, text, json) =>
       /\ \A d \in {env.repo, env.parent} \cup env.named : Segments(d) >= 2 => ~Occurs(d, text)
       /\ \A i \in 1..(Len(text) - 1) : text[i] = "F" /\ text[i + 1] = "/" =>
            \E j \in 1..i : SubSeq(text, j, End(text, i) - 1) \in literals
       /\ \A i \in starts : path(i) /\ Segments(Token(text, i)) >= 2 => Token(text, i) \in literals
       /\ json /\ text # <<>> /\ text[1] = "/" => text \in literals

(* What is written is one file where the path says, which goes through no link, and the
   directories above it. *)
WritesOneFile(env, literals, tree, path, text) ==
  LET w == Write(env, literals, tree, path, text)
  IN ~w.refused =>
       /\ \A p \in DOMAIN tree : p # path => w.tree[p] = tree[p]
       /\ \A p \in DOMAIN w.tree \ DOMAIN tree : IsPrefix(p, path)
       /\ \A n \in 1..Len(path) : w.tree[SubSeq(path, 1, n)] = IF n = Len(path) THEN "file" ELSE "dir"

-----------------------------------------------------------------------------
(* Scopes of owned reads.  A state has the scopes that were made, the one that is current
   (0 where none is) and the guards that are alive, the last on top.  A step is to enter a
   worktree, to finish or to drop the last guard, or to read a file: owned, foreign, which
   is there but is not git's, or absent. *)

NoScope == [scopes |-> <<>>, current |-> 0, guards |-> <<>>, failed |-> FALSE, panicked |-> FALSE]

(* enter *)
Enter(s, root) ==
  IF s.current # 0 /\ s.scopes[s.current].root = root
  THEN [s EXCEPT !.guards = Append(@, [previous |-> s.current, nested |-> TRUE])]
  ELSE [s EXCEPT !.scopes = Append(@, [root |-> root, violations |-> {}]), !.current = Len(s.scopes) + 1,
                 !.guards = Append(@, [previous |-> s.current, nested |-> FALSE])]

(* Drop *)
DropGuard(s) ==
  [s EXCEPT !.guards = Front(@), !.current = IF Last(s.guards).nested THEN @ ELSE Last(s.guards).previous]

(* Mutant: what a nested guard saw is its own. *)
MutFinish(s) ==
  LET refused == s.scopes[s.current].violations # {}
  IN [DropGuard(s) EXCEPT !.failed = @ \/ (refused /\ ~Last(s.guards).nested),
                          !.scopes[s.current].violations = {}]

(* finish *)
Finish(s) ==
  LET refused == ~Last(s.guards).nested /\ s.scopes[s.current].violations # {}
  IN [DropGuard(s) EXCEPT !.failed = @ \/ refused]

(* read: what is there and not owned is recorded. *)
Read(s, file) ==
  IF s.current = 0 THEN [s EXCEPT !.panicked = TRUE]
  ELSE IF file = "foreign" THEN [s EXCEPT !.scopes[s.current].violations = @ \cup {file}]
  ELSE s

Step(s, op) ==
  CASE op.is = "enter" -> Enter(s, op.of)
    [] op.is = "read" -> Read(s, op.of)
    [] op.is = "finish" -> Finish(s)
    [] op.is = "drop" -> DropGuard(s)

After(ops) == FoldLeft(Step, NoScope, ops)

(* A sequence of steps that a program can take: a guard is there to finish or to drop. *)
Legal(ops) ==
  \A n \in DOMAIN ops : ops[n].is \in {"finish", "drop"} =>
    Cardinality({k \in 1..(n - 1) : ops[k].is = "enter"}) > Cardinality({k \in 1..(n - 1) : ops[k].is \in {"finish", "drop"}})

(* However scopes nest, none is left when their guards are gone; and a run whose guards all
   finish fails exactly when it read a foreign file within a scope, even where the failed
   read was tolerated, and panics when it read outside of one (owned.rs:6-16). *)
ForeignReadsRefuse(ops) ==
  LET s == After(ops)
      count(n, of) == Cardinality({k \in 1..n : ops[k].is \in of})
      open(n) == count(n, {"enter"}) - count(n, {"finish", "drop"})
      reads == {n \in DOMAIN ops : ops[n].is = "read"}
      finished == open(Len(ops)) = 0 /\ count(Len(ops), {"drop"}) = 0
  IN Legal(ops) =>
       /\ open(Len(ops)) = 0 => s.current = 0
       /\ finished => (s.failed <=> \E n \in reads : ops[n].of = "foreign" /\ open(n) > 0)
       /\ s.panicked <=> \E n \in reads : open(n) = 0
=============================================================================
