--------------------------- MODULE MCTursoStore ---------------------------
(* Finite instances of TursoStore for TLC. *)
EXTENDS TursoStore, TLC

\* One prefix names every key, as the root prefix does.
MCPrefixKeys == {Keys}

\* Tasks, keys and values are interchangeable.
Symmetry == Permutations(Tasks) \cup Permutations(Keys) \cup Permutations(Values)
=============================================================================
