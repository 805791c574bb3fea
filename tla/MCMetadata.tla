---------------------------- MODULE MCMetadata ----------------------------
(* A finite instance of Metadata for TLC. *)
EXTENDS Metadata, TLC

MCSecs == {-1, 0, 1}
MCMillis == {0, 5}
MCRests == {0, 7}
MCOffsets == {-1, 1}
MCPieces == {"a", "b"}

\* In order, too short, too long, not a number, above the width.
MCVersionTexts ==
  {<<1, 0>>, <<1, MaxU64>>, <<1>>, <<1, 0, 0>>, <<1, Junk>>, <<MaxU64 + 1, 0>>}

\* In UTC and not, before 1970 and after, with and without a fraction.
MCTimeTexts ==
  {Junk} \cup
  [at: {[secs |-> s, millis |-> 5, rest |-> 7] : s \in {-1, 1}}, fraction: {TRUE}, offset: {0, None}]
  \cup [at: {[secs |-> 0, millis |-> 0, rest |-> 0]}, fraction: {FALSE}, offset: {None, -1, 1}]

\* The row k, if there is one.
OneRow(k, v) == IF v = None THEN [x \in {} |-> None] ELSE k :> v

MCForeignRows ==
  {OneRow("sqlitestore_version", version) @@ OneRow("compatible_flags", flags)
     @@ OneRow("modified_at", time) @@ OneRow("created_at", other) :
       version \in MCVersionTexts \cup {None}, flags \in {None, {""}, {"a", ""}, {"a", "b"}},
       time \in MCTimeTexts \cup {None}, other \in {None, "v"}}
=============================================================================
