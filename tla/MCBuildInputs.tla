--------------------------- MODULE MCBuildInputs ---------------------------
EXTENDS BuildInputs, TLC
MCPaths == {1, 2}
MCDirs == {"d"}
MCAbove == [path \in MCPaths |-> IF path = 2 THEN {"d"} ELSE {}]
MCSize == [body \in {"x", "y"} |-> IF body = "x" THEN 1 ELSE 2]
MCSources ==
  {[path \in paths |-> [body |-> "x", executable |-> FALSE]] : paths \in {{1}, MCPaths}}
MCSymmetry == Permutations(Runs)
MCLimits == [k \in Kinds |-> [entries |-> IF k = "materialize" THEN 3 ELSE 4, bytes |-> 3]]
=============================================================================
