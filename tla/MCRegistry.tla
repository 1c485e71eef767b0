----------------------------- MODULE MCRegistry -----------------------------
(* A small instance of Registry for TLC: three servers, two of them below  *)
(* the same manager of each kind and one below another level manager.      *)
EXTENDS Registry, TLC

CONSTANTS a, b, Fresh

MCPaths == {<<a, a, a, a>>, <<a, a, a, b>>, <<a, b, a, a>>}
MCNodes == Fresh \cup {Root}
Symmetry == Permutations(Fresh) \cup Permutations(Conns) \cup Permutations(Procs)
=============================================================================
