---------------------------- MODULE MCOpenStore ----------------------------
(* Finite instances of OpenStore for TLC. *)
EXTENDS OpenStore, TLC

\* No file is removed: readers, writers and creators of both stores.
WithoutRemoval ==
  {o \in BuiltOptions :
     /\ ~o.truncate /\ ~o.exclusive
     /\ o.update_timestamp_on_write <=> (o.write /\ ~o.create)}

Symmetry == Permutations(Openers)
=============================================================================
