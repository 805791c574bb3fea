-------------------------- MODULE MCRusqliteStore --------------------------
(* Finite instances of RusqliteStore for TLC. *)
EXTENDS RusqliteStore, TLC

\* One prefix names every key, as the root prefix does.
MCPrefixKeys == {Keys}

\* Threads, connections and values are interchangeable.
Symmetry ==
  Permutations(Threads) \cup Permutations(Conns) \cup Permutations(Values)
=============================================================================
