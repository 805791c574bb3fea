--------------------------- MODULE StoreRequests ---------------------------
(***************************************************************************)
(* The requests that both backends serve, src/rusqlite_store.rs and        *)
(* src/turso_store.rs: what each does to the rows of table zarr and what   *)
(* it reads.  Both run the same SQL, src/queries.rs.  Which keys a prefix  *)
(* names is the subject of module Queries: here a prefix is a set of keys. *)
(***************************************************************************)
CONSTANTS Keys, Values,  \* rows of table zarr
          Absent,        \* the value of a key with no row
          PrefixKeys     \* the sets of keys that some prefix names

ASSUME PrefixAssumption == PrefixKeys \subseteq SUBSET Keys

Singletons == {{k} : k \in Keys}

Set == [op: {"set"}, keys: Singletons, value: Values]
Erase == [op: {"erase"}, keys: Singletons, value: {Absent}]
ErasePrefix == [op: {"erase_prefix"}, keys: PrefixKeys, value: {Absent}]

\* get, get_partial, get_partial_many, size_key
Get == [op: {"get"}, keys: Singletons, value: {Absent}]

\* list, list_prefix, size, size_prefix; list_dir
List == [op: {"list", "list_dir"}, keys: PrefixKeys \cup {Keys}, value: {Absent}]

\* set_partial, set_partial_many; they and the next ones touch no row
SetPartial == [op: {"set_partial"}, keys: {{}}, value: {Absent}]

Maintenance == [op: {"checkpoint", "vacuum"}, keys: {{}}, value: {Absent}]

Requests ==
  Set \cup Erase \cup ErasePrefix \cup Get \cup List \cup SetPartial \cup Maintenance

Mutations == {"set", "erase", "erase_prefix"}

\* INSERT .. ON CONFLICT DO UPDATE, DELETE .. WHERE: one statement each.
Effect(d, r) ==
  IF r.op \in Mutations
    THEN [k \in Keys |-> IF k \in r.keys THEN r.value ELSE d[k]]
    ELSE d

Nothing == [k \in {} |-> Absent]

\* What request r reads: the keys it names, all at the same instant.
Answer(d, r) ==
  IF r.op \in Mutations THEN Nothing ELSE [k \in r.keys |-> d[k]]

\* What has been read when the rows of request r break off.
PartialAnswers(d, r) == {[k \in S |-> d[k]] : S \in SUBSET r.keys}

Answers == UNION {[S -> Values \cup {Absent}] : S \in SUBSET Keys}
=============================================================================
