------------------------------ MODULE FixtureUse ------------------------------
(***************************************************************************)
(* Which fixtures a test target is known to consume: live_test_fixtures    *)
(* (src/crates/simdoc/src/repo_contract/fixture_consumption.rs and its     *)
(* parts), which reads the syntax tree of one file.                        *)
(*                                                                         *)
(* An expression is a record whose field `is` names its form; a value that *)
(* does not matter is left out of it.  A path is a sequence of names, and  *)
(* a body a sequence of statements.                                        *)
(***************************************************************************)
EXTENDS Naturals, Sequences, FiniteSets, SequencesExt

Helper == "consume_fixture"
NoFixture == ""

Call(path, args, fixture, awaited) ==
  [is |-> "call", path |-> path, args |-> args, fixture |-> fixture, awaited |-> awaited]
Bool(v) == [is |-> "bool", value |-> v]             \* also cfg!(any()), cfg!(all()), cfg!(test)
Cfg == [is |-> "cfg"]                               \* any other cfg!
Opaque == [is |-> "opaque"]                         \* a closure, an async block, another macro
Return == [is |-> "return"]
Not(e) == [is |-> "not", on |-> e]
Method(e) == [is |-> "method", on |-> e]
Group(parts) == [is |-> "group", parts |-> parts]   \* a tuple, an array, parentheses
Eager(parts, n) == [is |-> "eager", parts |-> parts, first |-> n]  \* assert!, format!, ...
Block(body) == [is |-> "block", body |-> body]
If(c, then, other) == [is |-> "if", cond |-> c, then |-> then, other |-> other]
While(c, body) == [is |-> "while", cond |-> c, body |-> body]
Both(op, l, r) == [is |-> "both", op |-> op, left |-> l, right |-> r]
Let(names, e) == [is |-> "let", names |-> names, on |-> e]
Bind(head, names, body) == [is |-> "bind", head |-> head, names |-> names, body |-> body]  \* for, match
(* A statement drops its value or not, binds names after it, may hoist those of a local
   item, and may be disabled by an attribute. *)
Statement(e, drops, names) ==
  [expr |-> e, drops |-> drops, names |-> names, hoists |-> {}, off |-> FALSE]

-----------------------------------------------------------------------------
(* Attributes. *)

And3(values) ==
  IF "false" \in values THEN "false" ELSE IF values \subseteq {"true"} THEN "true" ELSE "unknown"
Or3(values) ==
  IF "true" \in values THEN "true" ELSE IF values \subseteq {"false"} THEN "false" ELSE "unknown"
Not3(v) == CASE v = "true" -> "false" [] v = "false" -> "true" [] OTHER -> "unknown"

RECURSIVE CfgHolds(_)
CfgHolds(meta) ==
  CASE meta.is = "all" -> And3({CfgHolds(m) : m \in meta.of})
    [] meta.is = "any" -> Or3({CfgHolds(m) : m \in meta.of})
    [] meta.is = "not" /\ Cardinality(meta.of) = 1 -> Not3(CfgHolds(CHOOSE m \in meta.of : TRUE))
    [] meta.is = "is" -> meta.value
    [] OTHER -> "unknown"

Disabled(attributes) ==
  \E a \in attributes : \/ a.is \in {"cfg_attr", "ignore"}
                        \/ a.is = "cfg" /\ CfgHolds(a.meta) # "true"

-----------------------------------------------------------------------------
(* What a body calls.  names are those that a local binding shadows. *)

RECURSIVE Root(_), Constant(_)
Root(e) == IF e.is = "method" THEN Root(e.on) ELSE e

Constant(e) ==
  CASE e.is = "bool" -> e.value
    [] e.is = "not" -> Not3(Constant(e.on))
    [] e.is = "group" /\ Len(e.parts) = 1 -> Constant(e.parts[1])
    [] OTHER -> "unknown"

Consumes(call) == Last(call.path) = Helper /\ call.fixture # NoFixture

Recorded(call, names) ==
  IF Head(call.path) \in names THEN {}
  ELSE {[path |-> call.path, awaited |-> call.awaited,
         fixture |-> IF Consumes(call) THEN call.fixture ELSE NoFixture]}

RECURSIVE Diverges(_)
BodyDiverges(body) == \E i \in DOMAIN body : Diverges(body[i].expr)
Diverges(e) ==
  \/ e.is = "return"
  \/ e.is = "block" /\ BodyDiverges(e.body)
  \/ /\ e.is = "if"
     /\ \/ Constant(e.cond) = "false" \/ BodyDiverges(e.then)
     /\ \/ Constant(e.cond) = "true" \/ Diverges(e.other)

RECURSIVE Visit(_, _), VisitBody(_, _), VisitCondition(_, _), VisitDropped(_, _)
VisitAll(es, names) == UNION {Visit(es[i], names) : i \in DOMAIN es}

(* visit_stmt: a name that it binds shadows what comes after it. *)
VisitStatement(s, names) ==
  IF s.off THEN {} ELSE IF s.drops THEN VisitDropped(s.expr, names) ELSE Visit(s.expr, names)

(* Mutant: what follows a statement that always returns is visited too. *)
MutVisitBody(body, names) ==
  LET outer == names \cup UNION {body[i].hoists : i \in DOMAIN body}
      bound(i) == UNION {body[j].names : j \in {k \in 1..(i - 1) : ~body[k].off}}
  IN UNION {VisitStatement(body[i], outer \cup bound(i)) : i \in DOMAIN body}

VisitBody(body, names) ==
  LET outer == names \cup UNION {body[i].hoists : i \in DOMAIN body}
      bound(i) == UNION {body[j].names : j \in {k \in 1..(i - 1) : ~body[k].off}}
  IN UNION {VisitStatement(body[i], outer \cup bound(i)) :
              i \in {k \in DOMAIN body : \A j \in 1..(k - 1) : ~Diverges(body[j].expr)}}

(* A value that is thrown away consumes nothing, but its arguments may. *)
VisitDropped(e, names) ==
  LET root == Root(e)
      thrown == IF root.is = "call" /\ root.path = <<"drop">> /\ root.args # <<>>
                THEN root.args[1] ELSE root
  IN IF e.is = "group" THEN UNION {VisitDropped(e.parts[i], names) : i \in DOMAIN e.parts}
     ELSE IF thrown.is = "call" /\ Consumes(thrown) THEN VisitAll(thrown.args, names)
     ELSE Visit(e, names)

(* What was learnt of a condition, the names it binds and what it calls. *)
VisitCondition(c, names) ==
  IF c.is = "both"
  THEN LET l == VisitCondition(c.left, names)
           r == VisitCondition(c.right, names \cup l.names)
           both == {l.holds, r.holds}
       IN IF l.holds = (IF c.op = "and" THEN "false" ELSE "true") THEN l
          ELSE [calls |-> l.calls \cup r.calls, names |-> l.names \cup r.names,
                holds |-> IF both \subseteq {"true", "false"}
                          THEN IF c.op = "and" THEN And3(both) ELSE Or3(both)
                          ELSE IF "cfg" \in both THEN "cfg" ELSE "maybe"]
  ELSE LET known == Constant(c)
       IN [calls |-> IF known # "unknown" \/ c.is = "cfg" THEN {}
                     ELSE Visit(IF c.is = "let" THEN c.on ELSE c, names),
           names |-> IF c.is = "let" THEN c.names ELSE {},
           holds |-> IF known # "unknown" THEN known ELSE IF c.is = "cfg" THEN "cfg" ELSE "maybe"]

Visit(e, names) ==
  CASE e.is = "call" -> Recorded(e, names) \cup VisitAll(e.args, names)
    [] e.is = "group" -> VisitAll(e.parts, names)
    [] e.is = "eager" -> VisitAll(SubSeq(e.parts, 1, e.first), names)
    [] e.is \in {"not", "method", "let"} -> Visit(e.on, names)
    [] e.is = "both" -> Visit(e.left, names) \cup Visit(e.right, names)
    [] e.is = "block" -> VisitBody(e.body, names)
    [] e.is = "bind" -> Visit(e.head, names) \cup VisitBody(e.body, names \cup e.names)
    [] e.is = "if" ->
         LET c == VisitCondition(e.cond, names)
         IN c.calls \cup (IF c.holds \in {"true", "maybe"} THEN VisitBody(e.then, names \cup c.names) ELSE {})
                    \cup (IF c.holds \in {"false", "maybe"} THEN Visit(e.other, names \cup c.names) ELSE {})
    [] e.is = "while" ->
         LET c == VisitCondition(e.cond, names)
         IN c.calls \cup (IF c.holds \in {"true", "maybe"} THEN VisitBody(e.body, names \cup c.names) ELSE {})
    [] OTHER -> {}

-----------------------------------------------------------------------------
(* The items of a file, each known by its module and its name. *)

IsTest(attributes) == \E a \in attributes : a.is = "test"
Key(item) == Append(item.module, item.name)
Live(file) == {i \in file.items : ~Disabled(i.attrs)}
Facts(file) ==
  [k \in {Key(i) : i \in Live(file)} |->
     LET same == {i \in Live(file) : Key(i) = k}
     IN [test |-> \E i \in same : IsTest(i.attrs), async |-> \E i \in same : i.async,
         calls |-> UNION {VisitBody(i.body, i.params) : i \in same}]]

(* absolute: the path of a use, from the root of the file. *)
Absolute(module, path) ==
  LET supers == Cardinality({n \in DOMAIN path : \A i \in 1..n : path[i] = "super"})
  IN CASE path[1] = "crate" -> Tail(path) [] path[1] = "self" -> module \o Tail(path)
       [] OTHER -> SubSeq(module, 1, Len(module) - supers) \o SubSeq(path, supers + 1, Len(path))

Aliases(file, module, name) ==
  LET uses == SelectSeq(file.uses, LAMBDA u : u.module = module /\ u.name = name /\ ~Disabled(u.attrs))
  IN IF uses = <<>> THEN {} ELSE {Absolute(module, Last(uses).path)}

(* What the module defines shadows what it imports, and that what it imports by a glob. *)
Resolve(file, known, module, path) ==
  LET local == module \o path
      imported == {a \o Tail(path) : a \in Aliases(file, module, path[1])} \cap known
      globs == {Absolute(module, g.path) \o path : g \in {u \in file.globs : u.module = module}}
  IN known \cap
     (CASE path[1] = "crate" -> {Tail(path)}
        [] path[1] = "self" -> {module \o Tail(path)}
        [] path[1] = "super" -> {SubSeq(module, 1, Len(module) - 1) \o Tail(path)}
        [] OTHER -> IF local \in known THEN {local} ELSE IF imported # {} THEN imported ELSE globs)

Reviewed(file) == {Key(i) : i \in {j \in Live(file) : j.name = Helper /\ j.reviewed}}

Targets(file, facts, k, c) ==
  {t \in Resolve(file, DOMAIN facts, Front(k), c.path) : c.awaited \/ ~facts[t].async}

Reached(file, facts) ==
  LET upTo[n \in 0..Cardinality(DOMAIN facts)] ==
        IF n = 0 THEN {k \in DOMAIN facts : facts[k].test}
        ELSE upTo[n - 1] \cup UNION {UNION {Targets(file, facts, k, c) : c \in facts[k].calls} : k \in upTo[n - 1]}
  IN upTo[Cardinality(DOMAIN facts)]

IsHelper(file, facts, k, call) ==
  Resolve(file, DOMAIN facts, Front(k), call.path) \cap Reviewed(file) # {}

LiveTestFixtures(file, facts) ==
  IF Disabled(file.attrs) \/ Reviewed(file) = {} THEN {}
  ELSE UNION {{c.fixture : c \in {d \in facts[k].calls : d.fixture # NoFixture /\ IsHelper(file, facts, k, d)}} :
                k \in Reached(file, facts)}

-----------------------------------------------------------------------------
(* What a run of the test may do, by the meaning of the language: an outcome is how an
   expression ends and the calls that were made, each with its use of the value. *)

Outcome(to, did) == [to |-> to, did |-> did]
After(firsts, next(_)) ==
  UNION {IF o.to = "return" THEN {o} ELSE {Outcome(n.to, o.did \cup n.did) : n \in next(o)} : o \in firsts}
Ends(outcomes, tos) == {Outcome(t, o.did) : o \in {p \in outcomes : p.to # "return"}, t \in tos}
                         \cup {o \in outcomes : o.to = "return"}

RECURSIVE Run(_, _, _), RunAll(_, _, _), RunBody(_, _), Bound(_)
Bound(c) == CASE c.is = "let" -> c.names [] c.is = "both" -> Bound(c.left) \cup Bound(c.right) [] OTHER -> {}

RunAll(es, names, used) ==
  IF es = <<>> THEN {Outcome("unit", {})}
  ELSE After(Run(Head(es), names, used), LAMBDA o : RunAll(Tail(es), names, used))

RunBody(body, names) ==
  LET s == Head(body) IN
  IF body = <<>> THEN {Outcome("unit", {})}
  ELSE After(IF s.off THEN {Outcome("unit", {})} ELSE Run(s.expr, names, ~s.drops),
             LAMBDA o : RunBody(Tail(body), names \cup IF s.off THEN {} ELSE s.names))

Run(e, names, used) ==
  LET enter(body, inner) == RunBody(body, inner \cup UNION {body[i].hoists : i \in DOMAIN body})
      branch(yes, no) == After(Run(e.cond, names, TRUE), LAMBDA o : IF o.to = "true" THEN yes ELSE no)
      unit == {Outcome("unit", {})}
  IN CASE e.is = "call" ->
            Ends(After(RunAll(e.args, names, used \/ e.path # <<"drop">>), LAMBDA o :
                   {Outcome("unit", IF Head(e.path) \in names THEN {}
                                    ELSE {[path |-> e.path, fixture |-> e.fixture,
                                           awaited |-> e.awaited, used |-> used]})}), {"true", "false"})
       [] e.is = "bool" -> {Outcome(e.value, {})}
       [] e.is = "cfg" -> {Outcome("true", {}), Outcome("false", {})}
       [] e.is = "return" -> {Outcome("return", {})}
       [] e.is = "not" -> {Outcome(IF o.to = "return" THEN o.to ELSE Not3(o.to), o.did) :
                             o \in Run(e.on, names, used)}
       [] e.is \in {"let", "method"} -> Ends(Run(e.on, names, used), {"true", "false"})
       [] e.is = "group" -> IF Len(e.parts) = 1 THEN Run(e.parts[1], names, used)
                            ELSE RunAll(e.parts, names, used)
       [] e.is = "eager" -> RunAll(SubSeq(e.parts, 1, e.first), names, TRUE)
       [] e.is = "block" -> enter(e.body, names)
       [] e.is = "bind" -> After(Run(e.head, names, TRUE),
                                 LAMBDA o : unit \cup enter(e.body, names \cup e.names))
       [] e.is = "both" -> After(Run(e.left, names, used),
                                 LAMBDA o : IF o.to = (IF e.op = "and" THEN "false" ELSE "true") THEN {Outcome(o.to, {})}
                                            ELSE Run(e.right, names \cup Bound(e.left), used))
       [] e.is = "if" -> branch(enter(e.then, names \cup Bound(e.cond)), Run(e.other, names, used))
       [] e.is = "while" -> branch(enter(e.body, names \cup Bound(e.cond)), unit)
       [] OTHER -> unit

(* A run may call what an outcome of its body calls; the body of an async item waits. *)
MayCall(file, k) ==
  UNION {o.did : o \in UNION {RunBody(i.body, i.params \cup UNION {i.body[n].hoists : n \in DOMAIN i.body}) :
                                i \in {j \in Live(file) : Key(j) = k}}}
MayReach(file, facts) ==
  LET upTo[n \in 0..Cardinality(file.items)] ==
        IF n = 0 THEN {Key(i) : i \in {j \in Live(file) : IsTest(j.attrs)}}
        ELSE upTo[n - 1] \cup UNION {UNION {Targets(file, facts, k, c) : c \in MayCall(file, k)} : k \in upTo[n - 1]}
  IN upTo[Cardinality(file.items)]

(* The witness (exclusion_witness.rs:11-25): a fixture is consumed only if some run of a test
   that is not ignored calls the reviewed helper with it and uses what that returns. *)
EarnedBy(file, facts) ==
  \A f \in LiveTestFixtures(file, facts) :
    \E k \in MayReach(file, facts) : \E c \in MayCall(file, k) :
      c.fixture = f /\ c.used /\ IsHelper(file, facts, k, c)
CreditIsEarned(file) == EarnedBy(file, Facts(file))

(* A cfg that is said to hold holds whatever its unknown parts are. *)
RECURSIVE HoldsIn(_, _)
HoldsIn(meta, unknown) ==
  CASE meta.is = "all" -> \A m \in meta.of : HoldsIn(m, unknown)
    [] meta.is = "any" -> \E m \in meta.of : HoldsIn(m, unknown)
    [] meta.is = "not" -> ~\E m \in meta.of : HoldsIn(m, unknown)
    [] meta.is = "is" -> meta.value = "true" \/ (meta.value = "unknown" /\ meta.key \in unknown)
CfgIsDecided(meta, keys) ==
  \A unknown \in SUBSET keys :
    /\ CfgHolds(meta) = "true" => HoldsIn(meta, unknown)
    /\ CfgHolds(meta) = "false" => ~HoldsIn(meta, unknown)
=============================================================================
