------------------------------ MODULE Metadata ------------------------------
(***************************************************************************)
(* src/metadata.rs and the statements on table zarr_sqlitestore_metadata:  *)
(* what is written there as text and what is read back from it.  Stores    *)
(* made by other programs have rows in forms this code never writes.       *)
(*                                                                         *)
(* A text is what its reader tells apart.  A version is the sequence of    *)
(* the fields between its dots, flags are the set of the pieces between    *)
(* their commas ("" has one empty piece), a timestamp is a civil time with *)
(* or without a fraction and an offset.  An instant is split at its second *)
(* and its millisecond; like its civil time, it counts up from there.      *)
(*                                                                         *)
(* External parts: SQLite's clock is after 1970, and its %f is seconds     *)
(* with three digits, cut off; rows are TEXT; jiff parses RFC 3339.        *)
(***************************************************************************)
EXTENDS Integers, Sequences

CONSTANTS Secs, Millis, Rests,  \* parts of the instants in use
          Offsets,              \* offsets from UTC, in seconds
          Numbers, MaxU64,      \* fields of versions; the greatest that fits
          Pieces,               \* flags, the pieces between commas
          UnknownKeys, Values,  \* other rows, and what created_by can be
          None,                 \* Option::None, no offset, no row
          Invalid,              \* an error
          Junk,                 \* a text that cannot be parsed
          ForeignRows           \* tables that other programs made

Instants == [secs: Secs, millis: Millis, rest: Rests]

Core == {"sqlitestore_version", "compatible_flags", "incompatible_flags"}
Known == Core \cup {"created_by", "modified_at"}

\* What texts stand for.
Versions == [major: 0..MaxU64, minor: 0..MaxU64]
Timestamps == [secs: Int, millis: Nat, rest: Nat]
Metadatas ==
  [version: Versions, compatible_flags: SUBSET Pieces, incompatible_flags: SUBSET Pieces,
   created_by: Values \cup {None}, modified_at: Timestamps \cup {None},
   unknown: UNION {[D -> Values] : D \in SUBSET UnknownKeys}]

VersionTexts == Seq(Numbers \cup {Junk})
FlagTexts == SUBSET (Pieces \cup {""})
TimeTexts ==
  {t \in [at: Timestamps, fraction: BOOLEAN, offset: Offsets \cup {0, None}] :
     t.fraction \/ (t.at.millis = 0 /\ t.at.rest = 0)}

\* A table: the rows present, with texts that fit their keys.
IsTable(r) ==
  /\ r = [k \in DOMAIN r |-> r[k]]
  /\ DOMAIN r \subseteq Known \cup UnknownKeys
  /\ \A k \in DOMAIN r :
       /\ k = "sqlitestore_version" => r[k] \in VersionTexts
       /\ k \in {"compatible_flags", "incompatible_flags"} => r[k] \in FlagTexts
       /\ k = "modified_at" => r[k] \in TimeTexts \cup {Junk}
       /\ k \in {"created_by"} \cup UnknownKeys => r[k] \in Values

ASSUME PartsAssumption ==
  /\ Secs \subseteq Int /\ Millis \subseteq Nat /\ Rests \subseteq Nat /\ Offsets \subseteq Int
  /\ {0, 1} \subseteq Numbers /\ Numbers \subseteq Nat /\ MaxU64 \in Nat \ {0}
  /\ "" \notin Pieces /\ UnknownKeys \cap Known = {}
ASSUME DistinctAssumption ==
  /\ None \notin Int \cup Versions \cup Timestamps \cup Values
  /\ Invalid \notin Versions \cup Metadatas
  /\ Junk \notin Nat \cup TimeTexts
ASSUME RowAssumption == \A r \in ForeignRows : IsTable(r)

VARIABLES rows,     \* table zarr_sqlitestore_metadata: k -> v
          clock,    \* the time
          step,     \* the statement that the creator of this store runs next;
                    \* "done": none, or made by another program
          created,  \* history: was the store made by this code
          stamped   \* history: the time of our stamp, if the last stamp is ours

vars == <<rows, clock, step, created, stamped>>

-----------------------------------------------------------------------------
(* Version.                                                                *)

LATEST_VERSION == [major |-> 1, minor |-> 0]

DisplayVersion(v) == <<v.major, v.minor>>

\* parse::<u64>(), which fails above the width.
IsU64(n) == n # Junk /\ n <= MaxU64

ParseVersion(text) ==
  IF Len(text) = 2 /\ IsU64(text[1]) /\ IsU64(text[2])
    THEN [major |-> text[1], minor |-> text[2]]
    ELSE Invalid

MinorCompatible(self, other) == self.major = other.major /\ self.minor >= other.minor

(* Flags.                                                                  *)

DisplayFlags(flags) == IF flags \ {""} = {} THEN {""} ELSE flags \ {""}

\* Mutant: without the filter of from_iter.
KeepEmptyPiece(text) == text

ParseFlags(text) == text \ {""}

(* Timestamp.                                                              *)

\* Mutant: no fraction is ever printed.
NoSubsec(n) == FALSE

\* subsec_nanosecond() > 0, where it has the sign of the whole timestamp: an
\* instant before 1970 has none above 0.
HasSubsec(n) == n.secs >= 0 /\ (n.millis > 0 \/ n.rest > 0)

CutToMillis(n) == [n EXCEPT !.rest = 0]
CutToSecond(n) == [n EXCEPT !.rest = 0, !.millis = 0]

DisplayTimestamp(n) ==
  [at |-> IF HasSubsec(n) THEN CutToMillis(n) ELSE CutToSecond(n),
   fraction |-> HasSubsec(n), offset |-> 0]

\* With an offset, or else as a time in UTC.  Left out: the panic of .expect
\* for a civil time that jiff reads and its Timestamp cannot hold, in the
\* first days of the year -9999 and the last ones of 9999.
ParseTimestamp(text) ==
  IF text = Junk THEN Invalid
  ELSE IF text.offset = None THEN text.at
  ELSE [text.at EXCEPT !.secs = @ - text.offset]

(* Metadata.                                                               *)

Row(r, k, default) == IF k \in DOMAIN r THEN r[k] ELSE default

\* MetadataBuilder::add_key_value of every row, in any order.  Only a version
\* fails; a modified_at that cannot be read is passed over.
add_key_values(r) ==
  [version |-> IF "sqlitestore_version" \in DOMAIN r
                 THEN ParseVersion(r["sqlitestore_version"]) ELSE None,
   compatible_flags |-> ParseFlags(Row(r, "compatible_flags", {})),
   incompatible_flags |-> ParseFlags(Row(r, "incompatible_flags", {})),
   created_by |-> Row(r, "created_by", None),
   modified_at |-> LET text == Row(r, "modified_at", Junk)
                   IN  IF text = Junk THEN None ELSE ParseTimestamp(text),
   unknown |-> [k \in DOMAIN r \ Known |-> r[k]]]

\* MetadataBuilder::build
build(b) == IF b.version \in {None, Invalid} THEN Invalid ELSE b

read_metadata == build(add_key_values(rows))

-----------------------------------------------------------------------------
(* Statements.                                                             *)

\* Mutant: ON CONFLICT DO NOTHING.
InsertIfAbsent(new) ==
  rows' = [k \in DOMAIN new \cup DOMAIN rows |-> IF k \in DOMAIN rows THEN rows[k] ELSE new[k]]

\* INSERT .. ON CONFLICT DO UPDATE
Upsert(new) ==
  rows' = [k \in DOMAIN new \cup DOMAIN rows |-> IF k \in DOMAIN new THEN new[k] ELSE rows[k]]

\* Its three parameters, for the metadata of make_metadata.
CoreRows ==
  [k \in Core |-> IF k = "sqlitestore_version" THEN DisplayVersion(LATEST_VERSION)
                  ELSE DisplayFlags({})]

\* strftime('%Y-%m-%dT%H:%M:%fZ', 'now', 'utc', 'subsec')
Now == [at |-> CutToMillis(clock), fraction |-> TRUE, offset |-> 0]

Init ==
  /\ clock \in {n \in Instants : n.secs >= 0}
  /\ stamped = None
  /\ \/ rows = [k \in {} |-> None] /\ step = "core" /\ created = TRUE
     \/ rows \in ForeignRows /\ step = "done" /\ created = FALSE

\* write_metadata: the metadata have no unknown keys and no modified_at.
InsertCore ==
  /\ step = "core"
  /\ Upsert(CoreRows)
  /\ step' = "created_by"
  /\ UNCHANGED <<clock, created, stamped>>

InsertCreatedBy ==
  /\ step = "created_by"
  /\ \E v \in Values : Upsert([k \in {"created_by"} |-> v])
  /\ step' = "done"
  /\ UNCHANGED <<clock, created, stamped>>

\* Mutant: the stamp is written with the rest of the metadata.
StampWithDefaults ==
  /\ Upsert([k \in Core \cup {"modified_at"} |-> IF k \in Core THEN CoreRows[k] ELSE Now])
  /\ stamped' = clock
  /\ UNCHANGED <<clock, step, created>>

\* Mutant: another key.
StampMisspelled ==
  /\ Upsert([k \in {"modified"} |-> Now])
  /\ stamped' = clock
  /\ UNCHANGED <<clock, step, created>>

\* update_modified_at, of whoever has the store open, also while another
\* process is creating it.
Stamp ==
  /\ Upsert([k \in {"modified_at"} |-> Now])
  /\ stamped' = clock
  /\ UNCHANGED <<clock, step, created>>

ForeignStamps ==
  {r["modified_at"] : r \in {r \in ForeignRows : "modified_at" \in DOMAIN r}}

\* Another program stamps, in a form of its own.
ForeignStamp ==
  /\ \E text \in ForeignStamps : Upsert([k \in {"modified_at"} |-> text])
  /\ stamped' = None
  /\ UNCHANGED <<clock, step, created>>

\* The system's clock, which can be set back.
Tick ==
  /\ clock' \in {n \in Instants : n.secs >= 0}
  /\ UNCHANGED <<rows, step, created, stamped>>

Next == InsertCore \/ InsertCreatedBy \/ Stamp \/ ForeignStamp \/ Tick

Spec == Init /\ [][Next]_vars

-----------------------------------------------------------------------------
(* Properties.                                                             *)

\* The values that each variable can have.
TypeOK ==
  /\ IsTable(rows)
  /\ clock \in {n \in Instants : n.secs >= 0}
  /\ step \in {"core", "created_by", "done"}
  /\ created \in BOOLEAN
  /\ stamped \in {n \in Instants : n.secs >= 0} \cup {None}

\* A store that this code creates can be read once its version is there, is
\* of a version that this code supports and needs no flag, even when it was
\* stamped, by us or by others, while it was being created.
CreatedReads ==
  created /\ step # "core" =>
    /\ read_metadata # Invalid
    /\ MinorCompatible(LATEST_VERSION, read_metadata.version)
    /\ read_metadata.incompatible_flags = {}
    /\ step = "done" => read_metadata.created_by # None

\* Whatever row was there, unreadable ones included, what is read after our
\* stamp is its time to the millisecond.
StampReadsBack ==
  stamped # None /\ read_metadata # Invalid =>
    read_metadata.modified_at = CutToMillis(stamped)

\* The test metadata.rs:339 "assert_eq!(ts.to_string(), ts_str)": a stamp that
\* was read is printed the way SQLite wrote it.  This code does not: within
\* the first millisecond of a second it leaves out the ".000".
StampPrintsAsWritten ==
  stamped # None /\ read_metadata # Invalid =>
    DisplayTimestamp(read_metadata.modified_at) = rows["modified_at"]

\* What was read can be printed and read again, whoever wrote it: a timestamp
\* loses what is below a millisecond or, before 1970, below a second, and
\* nothing more when this is done again.
PrintedReadsBack ==
  LET m == read_metadata
      twice(n) == ParseTimestamp(DisplayTimestamp(n))
  IN  m # Invalid =>
        /\ ParseVersion(DisplayVersion(m.version)) = m.version
        /\ ParseFlags(DisplayFlags(m.compatible_flags)) = m.compatible_flags
        /\ m.modified_at # None =>
             /\ twice(m.modified_at) =
                  IF m.modified_at.secs >= 0
                    THEN CutToMillis(m.modified_at) ELSE CutToSecond(m.modified_at)
             /\ twice(twice(m.modified_at)) = twice(m.modified_at)

\* Who stamps a store leaves all else that is read from it as it was, and a
\* store that could be read can be read afterwards.
MeaningKept ==
  [][step' = step /\ read_metadata # Invalid =>
       read_metadata' = [read_metadata EXCEPT !.modified_at = read_metadata'.modified_at]]_vars
=============================================================================
