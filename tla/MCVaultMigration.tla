-------------------------- MODULE MCVaultMigration --------------------------
(* Small instances of VaultMigration: two notes; a genuine v1 namespace, one
   whose notes do not say what the Index says, one of another owner, a retired
   v2 one, and namespaces migrated before. *)
EXTENDS VaultMigration, TLC

CONSTANTS m1, m2, c1, c2, u1, o1, o2, i1, i2

MCPaths == {1, 2}
MCContents == {c1, c2, u1}
MCUserContents == {u1}
MCOwners == {o1, o2}
MCIndexes == {i1, i2}

Bundle(schema, owner, index, first, second) ==
  [schema |-> schema, owner |-> owner, index |-> index,
   artifacts |-> (1 :> first) @@ (2 :> second)]

MCLegacy == Bundle("v1", o1, i1, c1, c1)
MCWanted == Bundle("v3", o2, i1, c2, c1)
Forged   == Bundle("v1", o1, i1, c1, c2)
Short    == Bundle("v1", o1, i1, c1, NoFile)
Foreign  == Bundle("v1", o2, i1, c1, c1)
Retired  == Bundle("v2", o2, i1, c2, c1)
Moved    == Bundle("v3", o2, i2, c2, c1)

MCTeams == {{m1}, {m1, m2}}
FromBundle ==
  {BundleTree(b) : b \in {MCLegacy, MCWanted, Forged, Short, Foreign, Retired, Moved}}

=============================================================================
