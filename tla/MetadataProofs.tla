-------------------------- MODULE MetadataProofs --------------------------
(***************************************************************************)
(* Proofs about Metadata, for any instants, any width of a version's       *)
(* numbers, and any tables of other programs.                              *)
(***************************************************************************)
EXTENDS Metadata, TLAPS

\* Our stamp is in its row as SQLite wrote it, until another one is.
StampInv ==
  stamped # None =>
    /\ "modified_at" \in DOMAIN rows
    /\ rows["modified_at"] = [at |-> CutToMillis(stamped), fraction |-> TRUE, offset |-> 0]

\* What the creator has inserted is still there.
CreatedInv ==
  created = TRUE =>
    /\ step # "core" =>
         /\ Core \subseteq DOMAIN rows
         /\ \A k \in Core : rows[k] = CoreRows[k]
    /\ step = "done" => "created_by" \in DOMAIN rows

IInv == TypeOK /\ StampInv /\ CreatedInv

-----------------------------------------------------------------------------
LEMMA CutType ==
  ASSUME NEW n \in Timestamps
  PROVE  CutToMillis(n) \in Timestamps /\ CutToSecond(n) \in Timestamps
BY DEF CutToMillis, CutToSecond, Timestamps

LEMMA CutShape ==
  ASSUME NEW n \in Timestamps
  PROVE  /\ CutToMillis(n) = [secs |-> n.secs, millis |-> n.millis, rest |-> 0]
         /\ CutToSecond(n) = [secs |-> n.secs, millis |-> 0, rest |-> 0]
         /\ [n EXCEPT !.secs = @ - 0] = n
<1>1. ASSUME NEW x \in Timestamps, NEW y \in Timestamps,
             x.secs = y.secs, x.millis = y.millis, x.rest = y.rest
      PROVE  x = y
  BY <1>1 DEF Timestamps
<1>2. n.secs \in Int /\ n.millis \in Nat /\ n.rest \in Nat
  BY DEF Timestamps
<1>3. CutToMillis(n) = [secs |-> n.secs, millis |-> n.millis, rest |-> 0]
  <2>1. [secs |-> n.secs, millis |-> n.millis, rest |-> 0] \in Timestamps
    BY <1>2 DEF Timestamps
  <2>2. /\ CutToMillis(n).secs = n.secs /\ CutToMillis(n).millis = n.millis
        /\ CutToMillis(n).rest = 0
    BY DEF CutToMillis, Timestamps
  <2> QED
    BY <1>1, <2>1, <2>2, CutType
<1>4. CutToSecond(n) = [secs |-> n.secs, millis |-> 0, rest |-> 0]
  <2>1. [secs |-> n.secs, millis |-> 0, rest |-> 0] \in Timestamps
    BY <1>2 DEF Timestamps
  <2>2. /\ CutToSecond(n).secs = n.secs /\ CutToSecond(n).millis = 0
        /\ CutToSecond(n).rest = 0
    BY DEF CutToSecond, Timestamps
  <2> QED
    BY <1>1, <2>1, <2>2, CutType
<1>5. [n EXCEPT !.secs = @ - 0] = n
  <2>1. n.secs - 0 = n.secs
    BY <1>2
  <2> QED
    BY <2>1 DEF Timestamps
<1> QED
  BY <1>3, <1>4, <1>5

LEMMA CoreRowsType == IsTable(CoreRows) /\ DOMAIN CoreRows = Core
<1>1. <<1, 0>> \in VersionTexts
  <2>1. 0 \in Numbers \cup {Junk} /\ 1 \in Numbers \cup {Junk}
    BY PartsAssumption
  <2> QED
    BY <2>1 DEF VersionTexts
<1>2. DisplayVersion(LATEST_VERSION) = <<1, 0>>
  BY DEF DisplayVersion, LATEST_VERSION
<1>3. DisplayFlags({}) \in FlagTexts
  BY DEF DisplayFlags, FlagTexts
<1>4. /\ DOMAIN CoreRows = Core
      /\ CoreRows = [k \in Core |-> CoreRows[k]]
      /\ \A k \in Core : CoreRows[k] = IF k = "sqlitestore_version" THEN <<1, 0>>
                                       ELSE DisplayFlags({})
  BY <1>2 DEF CoreRows
<1> QED
  BY <1>1, <1>3, <1>4, PartsAssumption DEF IsTable, Core, Known

LEMMA NowType ==
  ASSUME clock \in Instants
  PROVE  Now \in TimeTexts
<1>1. clock \in Timestamps
  BY PartsAssumption DEF Instants, Timestamps
<1>2. CutToMillis(clock) \in Timestamps
  BY <1>1, CutType
<1> QED
  BY <1>2 DEF Now, TimeTexts

(* A table stays one when rows of fitting texts are put into it.           *)
LEMMA UpsertType ==
  ASSUME IsTable(rows), NEW new, IsTable(new), Upsert(new)
  PROVE  /\ IsTable(rows')
         /\ DOMAIN rows' = DOMAIN new \cup DOMAIN rows
         /\ \A k \in DOMAIN rows' : rows'[k] = IF k \in DOMAIN new THEN new[k] ELSE rows[k]
<1>1. /\ DOMAIN rows' = DOMAIN new \cup DOMAIN rows
      /\ \A k \in DOMAIN rows' : rows'[k] = IF k \in DOMAIN new THEN new[k] ELSE rows[k]
  BY DEF Upsert
<1>2. rows' = [k \in DOMAIN rows' |-> rows'[k]]
  BY DEF Upsert
<1> QED
  BY <1>1, <1>2 DEF IsTable

LEMMA TypeInit == Init => TypeOK
BY RowAssumption, PartsAssumption DEF Init, TypeOK, IsTable

LEMMA TypeStep == TypeOK /\ [Next]_vars => TypeOK'
<1> SUFFICES ASSUME TypeOK, [Next]_vars PROVE TypeOK'
  OBVIOUS
<1>1. CASE InsertCore
  <2>1. IsTable(rows')
    BY <1>1, CoreRowsType, UpsertType DEF InsertCore, TypeOK
  <2> QED
    BY <1>1, <2>1 DEF InsertCore, TypeOK
<1>2. CASE InsertCreatedBy
  <2>1. PICK v \in Values : Upsert([k \in {"created_by"} |-> v])
    BY <1>2 DEF InsertCreatedBy
  <2>2. IsTable([k \in {"created_by"} |-> v])
    BY PartsAssumption DEF IsTable, Known
  <2>3. IsTable(rows')
    BY <2>1, <2>2, UpsertType DEF TypeOK
  <2> QED
    BY <1>2, <2>3 DEF InsertCreatedBy, TypeOK
<1>3. ASSUME NEW text \in TimeTexts \cup {Junk}, Upsert([k \in {"modified_at"} |-> text])
      PROVE  IsTable(rows')
  <2>1. IsTable([k \in {"modified_at"} |-> text])
    BY PartsAssumption DEF IsTable, Known
  <2> QED
    BY <1>3, <2>1, UpsertType DEF TypeOK
<1>4. CASE Stamp
  <2>1. IsTable(rows')
    BY <1>3, <1>4, NowType DEF Stamp, TypeOK
  <2> QED
    BY <1>4, <2>1 DEF Stamp, TypeOK
<1>5. CASE ForeignStamp
  <2>1. ForeignStamps \subseteq TimeTexts \cup {Junk}
    BY RowAssumption DEF ForeignStamps, IsTable
  <2>2. IsTable(rows')
    BY <1>3, <1>5, <2>1 DEF ForeignStamp
  <2> QED
    BY <1>5, <2>2 DEF ForeignStamp, TypeOK
<1>6. CASE Tick \/ UNCHANGED vars
  BY <1>6 DEF Tick, vars, TypeOK
<1> QED
  BY <1>1, <1>2, <1>4, <1>5, <1>6 DEF Next

(* The values that each variable can have.                                 *)
THEOREM TypeCorrect == Spec => []TypeOK
BY TypeInit, TypeStep, PTL DEF Spec

-----------------------------------------------------------------------------
LEMMA StampStep == TypeOK /\ StampInv /\ [Next]_vars => StampInv'
<1> SUFFICES ASSUME TypeOK, StampInv, [Next]_vars PROVE StampInv'
  OBVIOUS
<1>1. ASSUME UNCHANGED stamped, stamped # None,
             "modified_at" \in DOMAIN rows', rows'["modified_at"] = rows["modified_at"]
      PROVE  StampInv'
  BY <1>1 DEF StampInv
<1>2. CASE InsertCore
  BY <1>1, <1>2, CoreRowsType DEF InsertCore, Upsert, StampInv, Core
<1>3. CASE InsertCreatedBy
  BY <1>1, <1>3 DEF InsertCreatedBy, Upsert, StampInv
<1>4. CASE Stamp
  BY <1>4 DEF Stamp, Upsert, StampInv, Now
<1>5. CASE ForeignStamp
  BY <1>5 DEF ForeignStamp, StampInv
<1>6. CASE Tick \/ UNCHANGED vars
  BY <1>6 DEF Tick, vars, StampInv
<1> QED
  BY <1>2, <1>3, <1>4, <1>5, <1>6 DEF Next

LEMMA CreatedStep == TypeOK /\ CreatedInv /\ [Next]_vars => CreatedInv'
<1> SUFFICES ASSUME TypeOK, CreatedInv, [Next]_vars PROVE CreatedInv'
  OBVIOUS
<1>1. ASSUME UNCHANGED <<created, step>>, DOMAIN rows \subseteq DOMAIN rows',
             \A k \in DOMAIN rows : k # "modified_at" => rows'[k] = rows[k]
      PROVE  CreatedInv'
  <2>1. CoreRows' = CoreRows
    BY DEF CoreRows
  <2> QED
    BY <1>1, <2>1 DEF CreatedInv, Core
<1>2. CASE InsertCore
  BY <1>2, CoreRowsType DEF InsertCore, Upsert, CreatedInv
<1>3. CASE InsertCreatedBy
  BY <1>3 DEF InsertCreatedBy, Upsert, CreatedInv, Core, TypeOK
<1>4. CASE Stamp
  BY <1>1, <1>4 DEF Stamp, Upsert
<1>5. CASE ForeignStamp
  BY <1>1, <1>5 DEF ForeignStamp, Upsert
<1>6. CASE Tick \/ UNCHANGED vars
  BY <1>1, <1>6 DEF Tick, vars
<1> QED
  BY <1>2, <1>3, <1>4, <1>5, <1>6 DEF Next

LEMMA Inductive == Spec => []IInv
<1>1. Init => IInv
  <2>1. Init => StampInv /\ CreatedInv
    BY DEF Init, StampInv, CreatedInv
  <2> QED
    BY <2>1, TypeInit DEF IInv
<1>2. IInv /\ [Next]_vars => IInv'
  BY TypeStep, StampStep, CreatedStep DEF IInv
<1> QED
  BY <1>1, <1>2, PTL DEF Spec

-----------------------------------------------------------------------------
LEMMA BuilderType ==
  ASSUME TypeOK
  PROVE  LET b == add_key_values(rows)
         IN  /\ b.version \in Versions \cup {None, Invalid}
             /\ b.version \in Versions => b \in Metadatas
<1> DEFINE b == add_key_values(rows)
<1>1. b.version \in Versions \cup {None, Invalid}
  <2>1. ASSUME NEW text \in VersionTexts PROVE ParseVersion(text) \in Versions \cup {Invalid}
    <3>1. \A i \in 1..Len(text) : text[i] \in Numbers \cup {Junk}
      BY DEF VersionTexts
    <3>2. ASSUME Len(text) = 2, IsU64(text[1]), IsU64(text[2])
          PROVE  text[1] \in 0..MaxU64 /\ text[2] \in 0..MaxU64
      <4>1. text[1] \in Numbers \cup {Junk} /\ text[2] \in Numbers \cup {Junk}
        BY <3>1, <3>2
      <4>2. ASSUME NEW n \in Numbers \cup {Junk}, IsU64(n) PROVE n \in 0..MaxU64
          <5>1. n \in Nat /\ MaxU64 \in Nat
            BY <4>2, PartsAssumption DEF IsU64
          <5>2. n <= MaxU64
            BY <4>2 DEF IsU64
          <5> QED
            BY <5>1, <5>2
      <4> QED
        BY <3>2, <4>1, <4>2
    <3> QED
      BY <3>2 DEF ParseVersion, Versions
  <2>2. b.version = IF "sqlitestore_version" \in DOMAIN rows
                      THEN ParseVersion(rows["sqlitestore_version"]) ELSE None
    BY DEF add_key_values
  <2>3. "sqlitestore_version" \in DOMAIN rows => rows["sqlitestore_version"] \in VersionTexts
    BY DEF TypeOK, IsTable
  <2> QED
    BY <2>1, <2>2, <2>3
<1>2. /\ ParseFlags(Row(rows, "compatible_flags", {})) \in SUBSET Pieces
      /\ ParseFlags(Row(rows, "incompatible_flags", {})) \in SUBSET Pieces
  BY DEF TypeOK, IsTable, ParseFlags, Row, FlagTexts
<1>3. Row(rows, "created_by", None) \in Values \cup {None}
  BY DEF TypeOK, IsTable, Row
<1>4. b.modified_at \in Timestamps \cup {None}
  <2> DEFINE text == Row(rows, "modified_at", Junk)
  <2>1. text \in TimeTexts \cup {Junk}
    BY DEF TypeOK, IsTable, Row
  <2>2. b.modified_at = IF text = Junk THEN None ELSE ParseTimestamp(text)
    BY DEF add_key_values
  <2> HIDE DEF text
  <2>3. text # Junk => ParseTimestamp(text) \in Timestamps
    <3> SUFFICES ASSUME text \in TimeTexts, text # Junk PROVE ParseTimestamp(text) \in Timestamps
      BY <2>1
    <3>1. text.at \in Timestamps /\ text.offset \in Int \cup {None}
      <4>1. Offsets \subseteq Int
        BY PartsAssumption
      <4>2. text \in [at: Timestamps, fraction: BOOLEAN, offset: Offsets \cup {0, None}]
        BY DEF TimeTexts
      <4>3. text.at \in Timestamps /\ text.offset \in Offsets \cup {0, None}
        BY <4>2, Zenon
      <4>4. ASSUME NEW o \in Offsets \cup {0, None} PROVE o \in Int \cup {None}
        BY <4>1
      <4> QED
        BY <4>3, <4>4
    <3>2. ASSUME NEW at \in Timestamps, NEW o \in Int PROVE [at EXCEPT !.secs = @ - o] \in Timestamps
      BY DEF Timestamps
    <3>3. CASE text.offset = None
      BY <3>1, <3>3 DEF ParseTimestamp
    <3>4. CASE text.offset # None
      <4>1. ParseTimestamp(text) = [text.at EXCEPT !.secs = @ - text.offset]
        BY <3>4 DEF ParseTimestamp
      <4> QED
        BY <3>1, <3>2, <3>4, <4>1
    <3> QED
      BY <3>3, <3>4
  <2> QED
    BY <2>2, <2>3
<1>5. [k \in DOMAIN rows \ Known |-> rows[k]]
        \in UNION {[D -> Values] : D \in SUBSET UnknownKeys}
  <2>1. DOMAIN rows \ Known \in SUBSET UnknownKeys
    BY DEF TypeOK, IsTable
  <2>2. \A k \in DOMAIN rows \ Known : rows[k] \in Values
    BY <2>1 DEF TypeOK, IsTable
  <2> DEFINE D == DOMAIN rows \ Known
  <2>3. [k \in D |-> rows[k]] \in [D -> Values]
    BY <2>2
  <2> QED
    BY <2>1, <2>3
<1>6. ASSUME b.version \in Versions PROVE b \in Metadatas
  BY <1>2, <1>3, <1>4, <1>5, <1>6 DEF Metadatas, add_key_values
<1> QED
  BY <1>1, <1>6

(* Reading the rows fails exactly where the version fails.                 *)
LEMMA ReadType ==
  ASSUME TypeOK
  PROVE  /\ read_metadata \in Metadatas \cup {Invalid}
         /\ read_metadata # Invalid <=> add_key_values(rows).version \in Versions
         /\ read_metadata # Invalid => read_metadata = add_key_values(rows)
BY BuilderType, DistinctAssumption DEF read_metadata, build

LEMMA StampIsRead ==
  ASSUME IInv, stamped # None, read_metadata # Invalid
  PROVE  /\ stamped \in Timestamps /\ stamped.secs >= 0
         /\ read_metadata.modified_at = CutToMillis(stamped)
<1> DEFINE text == Row(rows, "modified_at", Junk)
<1>1. stamped \in Timestamps /\ stamped.secs >= 0
  BY PartsAssumption DEF IInv, TypeOK, Instants, Timestamps
<1>2. text = [at |-> CutToMillis(stamped), fraction |-> TRUE, offset |-> 0] /\ text # Junk
  <2>1. text = [at |-> CutToMillis(stamped), fraction |-> TRUE, offset |-> 0]
    BY DEF IInv, StampInv, Row
  <2>2. text \in TimeTexts
    <3>1. CutToMillis(stamped) \in Timestamps
      BY <1>1, CutType
    <3> HIDE DEF text
    <3>2. /\ text \in [at: Timestamps, fraction: BOOLEAN, offset: Offsets \cup {0, None}]
          /\ text.fraction
      BY <2>1, <3>1
    <3> QED
      BY <3>2 DEF TimeTexts
  <2> QED
    BY <2>1, <2>2, DistinctAssumption
<1>3. read_metadata.modified_at = ParseTimestamp(text)
  BY <1>2, ReadType DEF IInv, add_key_values
<1>4. [CutToMillis(stamped) EXCEPT !.secs = @ - 0] = CutToMillis(stamped)
  BY <1>1, CutType DEF Timestamps
<1>5. 0 # None
  BY DistinctAssumption
<1> QED
  BY <1>1, <1>2, <1>3, <1>4, <1>5 DEF ParseTimestamp

(* Whatever row was there, what is read after our stamp is its time to the *)
(* millisecond.                                                            *)
THEOREM OurStampIsRead == Spec => []StampReadsBack
<1>1. IInv => StampReadsBack
  BY StampIsRead DEF StampReadsBack
<1> QED
  BY <1>1, Inductive, PTL

(* The bound of what metadata.rs:339 asserts: a stamp that was read is      *)
(* printed as SQLite wrote it, if it was not taken within the first         *)
(* millisecond of a second.                                                *)
THEOREM OurStampIsPrinted ==
  Spec => [](stamped # None /\ stamped.millis # 0 => StampPrintsAsWritten)
<1>1. IInv => (stamped # None /\ stamped.millis # 0 => StampPrintsAsWritten)
  <2> SUFFICES ASSUME IInv, stamped # None, stamped.millis # 0, read_metadata # Invalid
               PROVE  DisplayTimestamp(CutToMillis(stamped)) = rows["modified_at"]
    BY StampIsRead DEF StampPrintsAsWritten
  <2>1. rows["modified_at"] = [at |-> CutToMillis(stamped), fraction |-> TRUE, offset |-> 0]
    BY DEF IInv, StampInv
  <2>2. stamped \in Timestamps /\ stamped.secs >= 0
    BY StampIsRead
  <2>3. HasSubsec(CutToMillis(stamped))
    BY <2>2 DEF HasSubsec, CutToMillis, Timestamps
  <2>4. CutToMillis(CutToMillis(stamped)) = CutToMillis(stamped)
    BY <2>2 DEF CutToMillis, Timestamps
  <2> QED
    BY <2>1, <2>3, <2>4 DEF DisplayTimestamp
<1> QED
  BY <1>1, Inductive, PTL

(* Reading and printing a version, flags and a timestamp.                  *)
LEMMA VersionRoundTrip ==
  ASSUME NEW v \in Versions
  PROVE  ParseVersion(DisplayVersion(v)) = v
<1>1. v.major \in 0..MaxU64 /\ v.minor \in 0..MaxU64 /\ v = [major |-> v.major, minor |-> v.minor]
  BY DEF Versions
<1>2. IsU64(v.major) /\ IsU64(v.minor)
  <2>1. MaxU64 \in Nat /\ Junk \notin Nat
    BY PartsAssumption, DistinctAssumption
  <2> QED
    BY <1>1, <2>1 DEF IsU64
<1> QED
  BY <1>1, <1>2 DEF ParseVersion, DisplayVersion

LEMMA FlagsRoundTrip ==
  ASSUME NEW F \in SUBSET Pieces
  PROVE  ParseFlags(DisplayFlags(F)) = F
BY PartsAssumption DEF ParseFlags, DisplayFlags

LEMMA TimestampRoundTrip ==
  ASSUME NEW n \in Timestamps
  PROVE  LET twice(x) == ParseTimestamp(DisplayTimestamp(x))
         IN  /\ twice(n) = IF n.secs >= 0 THEN CutToMillis(n) ELSE CutToSecond(n)
             /\ twice(twice(n)) = twice(n)
<1> DEFINE twice(x) == ParseTimestamp(DisplayTimestamp(x))
           cut(x) == IF x.secs >= 0 THEN CutToMillis(x) ELSE CutToSecond(x)
<1>1. ASSUME NEW x \in Timestamps PROVE twice(x) = cut(x)
  <2> DEFINE d == DisplayTimestamp(x)
  <2>1. d.at = cut(x) /\ d.offset = 0
    <3>1. x.secs \in Int /\ x.millis \in Nat /\ x.rest \in Nat
      BY DEF Timestamps
    <3>2. ASSUME x.secs >= 0, ~HasSubsec(x) PROVE CutToSecond(x) = CutToMillis(x)
      <4>1. x.millis = 0
        BY <3>1, <3>2 DEF HasSubsec
      <4> QED
        BY <4>1, CutShape
    <3> QED
      BY <3>2 DEF DisplayTimestamp, HasSubsec
  <2>2. d \in TimeTexts
    <3>1. CutToMillis(x) \in Timestamps /\ CutToSecond(x) \in Timestamps
      BY CutType
    <3>2. ~d.fraction => d.at.millis = 0 /\ d.at.rest = 0
      BY DEF DisplayTimestamp, CutToSecond, Timestamps
    <3>3. d \in [at: Timestamps, fraction: BOOLEAN, offset: Offsets \cup {0, None}]
      BY <3>1 DEF DisplayTimestamp, HasSubsec
    <3> QED
      BY <3>2, <3>3 DEF TimeTexts
  <2>3. d # Junk /\ 0 # None
    BY <2>2, DistinctAssumption
  <2>4. [cut(x) EXCEPT !.secs = @ - 0] = cut(x)
    <3>1. cut(x) \in Timestamps
      BY CutType
    <3> HIDE DEF cut
    <3> QED
      BY <3>1, CutShape
  <2> HIDE DEF d, cut
  <2>5. ParseTimestamp(d) = [cut(x) EXCEPT !.secs = @ - 0]
    BY <2>1, <2>3 DEF ParseTimestamp
  <2> QED
    BY <2>4, <2>5 DEF d
<1>2. cut(n) \in Timestamps
  BY CutType
<1>3. cut(cut(n)) = cut(n)
  BY DEF CutToMillis, CutToSecond, Timestamps
<1> HIDE DEF cut, twice
<1>4. twice(n) = cut(n) /\ twice(twice(n)) = twice(n)
  BY <1>1, <1>2, <1>3
<1> QED
  BY <1>4 DEF cut, twice

LEMMA LatestType == LATEST_VERSION \in Versions
<1>1. MaxU64 \in Nat \ {0}
  BY PartsAssumption
<1>2. 0 \in 0..MaxU64 /\ 1 \in 0..MaxU64
  BY <1>1
<1> QED
  BY <1>2 DEF LATEST_VERSION, Versions

(* A store that this code creates can be read once its version is there,   *)
(* whoever stamped it meanwhile.                                           *)
THEOREM CreatedIsReadable == Spec => []CreatedReads
<1>1. IInv => CreatedReads
  <2> SUFFICES ASSUME IInv, created = TRUE, step # "core"
               PROVE  /\ read_metadata # Invalid
                      /\ MinorCompatible(LATEST_VERSION, read_metadata.version)
                      /\ read_metadata.incompatible_flags = {}
                      /\ step = "done" => read_metadata.created_by # None
    BY DEF CreatedReads
  <2>1. /\ Core \subseteq DOMAIN rows /\ \A k \in Core : rows[k] = CoreRows[k]
        /\ step = "done" => "created_by" \in DOMAIN rows
    BY DEF IInv, CreatedInv
  <2>2. /\ rows["sqlitestore_version"] = DisplayVersion(LATEST_VERSION)
        /\ rows["incompatible_flags"] = DisplayFlags({})
    BY <2>1 DEF CoreRows, Core
  <2>3. ParseVersion(DisplayVersion(LATEST_VERSION)) = LATEST_VERSION
    BY LatestType, VersionRoundTrip
  <2>4. add_key_values(rows).version = LATEST_VERSION /\ LATEST_VERSION \in Versions
    BY <2>1, <2>2, <2>3, LatestType DEF add_key_values, Core
  <2>5. read_metadata # Invalid /\ read_metadata = add_key_values(rows)
    BY <2>4, ReadType DEF IInv
  <2>6. MinorCompatible(LATEST_VERSION, LATEST_VERSION)
    BY DEF MinorCompatible, LATEST_VERSION
  <2>7. read_metadata.incompatible_flags = {}
    BY <2>1, <2>2, <2>5 DEF add_key_values, Row, Core, DisplayFlags, ParseFlags
  <2>8. ASSUME step = "done" PROVE read_metadata.created_by # None
    <3>1. rows["created_by"] \in Values /\ read_metadata.created_by = rows["created_by"]
      BY <2>1, <2>5, <2>8 DEF add_key_values, Row, IInv, TypeOK, IsTable
    <3> QED
      BY <3>1, DistinctAssumption
  <2> QED
    BY <2>4, <2>5, <2>6, <2>7, <2>8
<1> QED
  BY <1>1, Inductive, PTL

(* What was read can be printed and read again, whoever wrote it.          *)
THEOREM ReadIsPrinted == Spec => []PrintedReadsBack
<1>1. TypeOK => PrintedReadsBack
  <2> SUFFICES ASSUME TypeOK, read_metadata # Invalid
               PROVE  PrintedReadsBack
    BY DEF PrintedReadsBack
  <2> DEFINE m == read_metadata
  <2>1. m \in Metadatas
    BY ReadType
  <2>2. /\ m.version \in Versions /\ m.compatible_flags \in SUBSET Pieces
        /\ m.modified_at \in Timestamps \cup {None}
    BY <2>1 DEF Metadatas
  <2> HIDE DEF m
  <2>3. /\ ParseVersion(DisplayVersion(m.version)) = m.version
        /\ ParseFlags(DisplayFlags(m.compatible_flags)) = m.compatible_flags
    BY <2>2, VersionRoundTrip, FlagsRoundTrip
  <2> QED
    BY <2>2, <2>3, TimestampRoundTrip DEF PrintedReadsBack, m
<1> QED
  BY <1>1, TypeCorrect, PTL

(* Who stamps a store leaves all else that is read from it as it was.      *)
THEOREM StampKeepsMeaning == Spec => MeaningKept
<1>1. TypeOK /\ [Next]_vars =>
        [step' = step /\ read_metadata # Invalid =>
           read_metadata' = [read_metadata EXCEPT !.modified_at = read_metadata'.modified_at]]_vars
  <2> SUFFICES ASSUME TypeOK, [Next]_vars, step' = step, read_metadata # Invalid
               PROVE  read_metadata' =
                        [read_metadata EXCEPT !.modified_at = read_metadata'.modified_at]
    OBVIOUS
  <2> DEFINE b == add_key_values(rows)
  <2>1. /\ DOMAIN rows' \ {"modified_at"} = DOMAIN rows \ {"modified_at"}
        /\ \A k \in DOMAIN rows \ {"modified_at"} : rows'[k] = rows[k]
    <3>1. ~InsertCore /\ ~InsertCreatedBy
      BY DEF InsertCore, InsertCreatedBy
    <3>2. CASE \E text : Upsert([k \in {"modified_at"} |-> text])
      BY <3>2 DEF Upsert
    <3>3. CASE UNCHANGED rows
      BY <3>3
    <3> QED
      BY <3>1, <3>2, <3>3 DEF Next, Stamp, ForeignStamp, Tick, vars
  <2>2. /\ b'.version = b.version /\ b'.compatible_flags = b.compatible_flags
        /\ b'.incompatible_flags = b.incompatible_flags /\ b'.created_by = b.created_by
        /\ b'.unknown = b.unknown
    BY <2>1 DEF add_key_values, Row, Known, Core
  <2>3. read_metadata = b /\ read_metadata' = b'
    <3>1. b.version \in Versions /\ read_metadata = b
      BY ReadType
    <3>2. b'.version \notin {None, Invalid}
      BY <2>2, <3>1, DistinctAssumption
    <3> HIDE DEF b
    <3>3. read_metadata' = build(b)'
      BY DEF read_metadata, b
    <3> QED
      BY <3>1, <3>2, <3>3 DEF build
  <2>4. b' = [b EXCEPT !.modified_at = b'.modified_at]
    <3>1. /\ b = [version |-> b.version, compatible_flags |-> b.compatible_flags,
                   incompatible_flags |-> b.incompatible_flags, created_by |-> b.created_by,
                   modified_at |-> b.modified_at, unknown |-> b.unknown]
          /\ b' = [version |-> b'.version, compatible_flags |-> b'.compatible_flags,
                   incompatible_flags |-> b'.incompatible_flags, created_by |-> b'.created_by,
                   modified_at |-> b'.modified_at, unknown |-> b'.unknown]
      BY DEF add_key_values
    <3> HIDE DEF b
    <3> QED
      BY <2>2, <3>1
  <2> HIDE DEF b
  <2> QED
    BY <2>3, <2>4
<1> QED
  BY <1>1, TypeCorrect, PTL DEF Spec, MeaningKept
=============================================================================
