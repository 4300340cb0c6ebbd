----------------------------- MODULE CargoGraph -----------------------------
(***************************************************************************)
(* Which packages build-inputs materialize and select take from a          *)
(* workspace (src/src/build_inputs/graph.rs, registry.rs, manifest.rs and  *)
(* selected_view/checks.rs): the packages of a unit graph, what Cargo's    *)
(* resolver reaches from them, what Cargo.lock reaches from local packages *)
(* that are only there for the resolver, and the manifest and the lock     *)
(* that are left of the workspace's.                                       *)
(*                                                                         *)
(* A package is its identity: name, version, and whether it is local.  A   *)
(* workspace is what its owner gives: [nodes, units, patches, lock,        *)
(* unused], a function from packages to their dependencies, the packages   *)
(* of the unit graph, the local patches, the rows of Cargo.lock and the    *)
(* patches it lists as unused.                                             *)
(***************************************************************************)
EXTENDS Naturals, FiniteSets

Package(name, version, local) == [name |-> name, version |-> version, local |-> local]

Names(packages) == {p.name : p \in packages}
Local(packages) == {p \in packages : p.local}
Registry(packages) == {p \in packages : ~p.local}

(* What a worklist reaches over edges. *)
Closure(edges, start) ==
  LET Within[n \in 0..Cardinality(DOMAIN edges)] ==
        IF n = 0 THEN start
        ELSE Within[n - 1] \cup UNION {edges[p] : p \in Within[n - 1] \cap DOMAIN edges}
  IN Within[Cardinality(DOMAIN edges)]

(* selected_packages: the unit graph and the metadata name the same packages. *)
SelectedOK(ws) == ws.units # {} /\ ws.units \subseteq DOMAIN ws.nodes

(* resolver_only_package_ids: everything selected packages depend on, in the end. *)
ResolverOK(ws) == Closure(ws.nodes, ws.units) \subseteq DOMAIN ws.nodes
ResolverOnly(ws) == Closure(ws.nodes, ws.units) \ ws.units

(* resolver_local_packages, with a patch of the same name in the place of what the
   metadata has, and never a package that is selected. *)
LocalResolver(ws) ==
  LET patches == {p \in ws.patches : p.name \notin Names(Local(ws.units))}
  IN patches \cup {p \in Local(ResolverOnly(ws)) :
                     p.name \notin Names(patches) \cup Names(Local(ws.units))}

(* lock_dependency_matches: a dependency is a name, or a name and a version. *)
AnyVersion == 0

Matching(lock, dependency) ==
  {row \in lock : /\ row.package.name = dependency.name
                  /\ dependency.version \in {AnyVersion, row.package.version}}

(* The rows of a local package for the resolver; a patch Cargo did not need has none. *)
RowsOf(ws, p) == {row \in ws.lock : row.package = p}

LockEdges(lock) ==
  [row \in lock |-> UNION {Matching(lock, d) : d \in row.dependencies}]

Starts(ws) == UNION {RowsOf(ws, p) : p \in LocalResolver(ws)}
Visited(ws) == Closure(LockEdges(ws.lock), Starts(ws))

(* Every local package has one row or is an unused patch, and no dependency met on the
   way is ambiguous. *)
LockOK(ws) ==
  /\ \A p \in LocalResolver(ws) :
       Cardinality(RowsOf(ws, p)) = 1 \/ (RowsOf(ws, p) = {} /\ p \in ws.unused)
  /\ \A row \in Visited(ws) : \A d \in row.dependencies :
       Cardinality(Matching(ws.lock, d)) = 1

(* Mutant: only what the metadata reaches is kept of the lock. *)
MutLockedResolver(ws) ==
  LET retained == Registry(ResolverOnly(ws))
  IN {row.package : row \in {r \in ws.lock : r.package \in retained}} \ ws.units

(* locked_resolver_packages: the rows of the lock that the metadata or the lock itself
   reaches and that are not selected. *)
LockedResolver(ws) ==
  LET reached == {row.package : row \in
                    UNION {LockEdges(ws.lock)[r] : r \in Visited(ws)}}
      retained == Registry(ResolverOnly(ws) \cup reached)
  IN {row.package : row \in {r \in ws.lock : r.package \in retained}} \ ws.units

Accepted(ws) ==
  /\ SelectedOK(ws) /\ ResolverOK(ws) /\ LockOK(ws)
  /\ Local(ws.units) # {} /\ Registry(ws.units) # {}

(* What materialize_into copies to the source and the vendor tree. *)
Copied(ws) == ws.units \cup LocalResolver(ws) \cup LockedResolver(ws)

(* narrow_workspace_manifest: the members, the packages Cargo must not take for members,
   and the patches that are left; each names packages/<name>. *)
Narrowed(ws) ==
  LET kept == Names(Local(ws.units) \cup LocalResolver(ws))
  IN [members |-> Names(Local(ws.units)),
      exclude |-> kept \ Names(Local(ws.units)),
      patches |-> Names(ws.patches) \cap kept]

(* validate_narrow_lock: after Cargo resolved the narrowed view again, its lock holds
   rows of the first lock, and local packages of the view. *)
NarrowLockOK(ws, narrowed) ==
  \A row \in narrowed :
    IF row.package.local
    THEN row.package.name \in Names(Local(ResolverOnly(ws) \cup ws.units))
    ELSE \E kept \in ws.lock : kept.package = row.package
-----------------------------------------------------------------------------
(* The least set that has what it starts with and the dependencies of its members:
   a definition without a worklist. *)
Least(ws, start) ==
  {p \in DOMAIN ws.nodes :
     \A closed \in SUBSET DOMAIN ws.nodes :
       start \subseteq closed /\ (\A q \in closed : ws.nodes[q] \subseteq closed)
         => p \in closed}

(* The lock is that of the metadata: the same packages and dependencies, apart from the
   patches nothing needs. *)
LockAgrees(ws) ==
  /\ {row.package : row \in ws.lock} = DOMAIN ws.nodes \ ws.unused
  /\ \A row \in ws.lock :
       {match.package : match \in LockEdges(ws.lock)[row]} = ws.nodes[row.package]

(* A workspace as Cargo has it: local packages have names of their own, and patches are
   local and the only packages that may be unused. *)
LocalsAreNamed(ws) ==
  /\ \A p, q \in Local(DOMAIN ws.nodes \cup ws.patches) : p.name = q.name => p = q
  /\ ws.unused \subseteq ws.patches /\ ws.patches = Local(ws.patches)

(* The local packages that patches need are patches too or needed by selected packages;
   the code does not look for others, as the walk over the lock takes none from it. *)
PatchesAreEnough(ws) ==
  Local(Least(ws, ws.units \cup (ws.patches \ ws.unused)))
    \subseteq Least(ws, ws.units) \cup ws.patches

(* What is copied can be built and nothing else is: all that selected packages and used
   patches need, transitively, each once, whichever of the two walks finds it; the
   narrowed manifest names no package that was not copied, and Cargo's own narrowing of
   the lock is never refused. *)
CopiesWhatIsNeeded(ws) ==
  Accepted(ws) /\ LockAgrees(ws) /\ LocalsAreNamed(ws) /\ PatchesAreEnough(ws) =>
    /\ Copied(ws) = Least(ws, ws.units \cup (ws.patches \ ws.unused)) \cup ws.patches
    /\ LET manifest == Narrowed(ws) IN
         /\ manifest.members \cup manifest.exclude = Names(Local(Copied(ws)))
         /\ manifest.patches \subseteq manifest.members \cup manifest.exclude
    /\ NarrowLockOK(ws, {row \in ws.lock : row.package \in Least(ws, ws.units)})

=============================================================================
