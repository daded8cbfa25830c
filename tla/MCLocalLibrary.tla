---------------------------- MODULE MCLocalLibrary ----------------------------
EXTENDS LocalLibrary, TLC

\* The second directory lies inside the first.
MCRootFiles == [outer |-> {"f", "g"}, inner |-> {"g"}]
MCAdmits == [all |-> {"f", "g"}, some |-> {"f"}]
Row(root, type, prefix, filter, enabled) ==
  [root |-> root, type |-> type, prefix |-> prefix, filter |-> filter, enabled |-> enabled]
MCStoredRow == Row("outer", "movies", "", "all", TRUE)
MCSourceDrafts == {
  Row("outer", "shows", "Home", "some", TRUE),
  Row("inner", "movies", "", "all", TRUE),
  Row("outer", "movies", "", "(", FALSE)}
LibSymmetry == Permutations(Scanners) \cup Permutations(Lookers)
================================================================================
