-------------------------- MODULE MCVaultNamespace --------------------------
(* Small instances of VaultNamespace: two notes, bundles that differ in one
   note, in the Index identity only, or in the owner. *)
EXTENDS VaultNamespace, TLC

CONSTANTS c1, c2, u1, o1, o2, i1, i2

MCPaths == {1, 2}
MCContents == {c1, c2, u1}
MCUserContents == {u1}
MCOwners == {o1, o2}
MCIndexes == {i1, i2}

Bundle(owner, index, first, second) ==
  [schema |-> "v3", owner |-> owner, index |-> index,
   artifacts |-> (1 :> first) @@ (2 :> second)]

OldBundle == Bundle(o1, i1, c1, c1)
NewBundle == Bundle(o1, i2, c2, c1)
Shrunk    == Bundle(o1, i2, c2, NoFile)
Reindexed == Bundle(o1, i2, c1, c1)
Foreign   == Bundle(o2, i2, c2, c1)

OneRequest == {NewBundle}
TwoRequests == {OldBundle, NewBundle}
RacingRequests == {OldBundle, Shrunk, Foreign}
OwnRequests == {OldBundle, NewBundle, Reindexed, Shrunk}
AllRequests == {OldBundle, NewBundle, Reindexed, Shrunk, Foreign}

FromOld == {BundleTree(OldBundle)}
FromEmpty == {EmptyTree}
FromMissingOrOld == {Absent, BundleTree(OldBundle)}
FromAnyOld == {Absent, EmptyTree, BundleTree(OldBundle)}

ExporterSymmetry == Permutations(Exporters)

=============================================================================
