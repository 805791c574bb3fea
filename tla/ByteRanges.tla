---------------------------- MODULE ByteRanges ----------------------------
(***************************************************************************)
(* Which bytes of a value get_partial and get_partial_many return: the     *)
(* substr() that src/queries.rs writes for a ByteRange, against the bytes  *)
(* that the range means.                                                   *)
(*                                                                         *)
(* External parts.  zarrs_storage: FromStart(offset, length or none) and   *)
(* Suffix(length), all unsigned.  SQLite: substr counts from 1, or from    *)
(* the end if the start is negative, ignores positions outside of the      *)
(* blob, and is NULL for an empty blob.  Offsets at the limit of 64 bits   *)
(* are left out.                                                           *)
(***************************************************************************)
EXTENDS Integers, Sequences

CONSTANT Null  \* SQL NULL, and Rust's None

FromStart(offset, length) == [suffix |-> FALSE, offset |-> offset, length |-> length]
Suffix(length) == [suffix |-> TRUE, offset |-> 0, length |-> length]

ByteRange ==
  [suffix : {FALSE}, offset : Nat, length : Nat \cup {Null}]
    \cup [suffix : {TRUE}, offset : {0}, length : Nat]

Least(m, n) == IF m <= n THEN m ELSE n

-----------------------------------------------------------------------------
(* SQLite's substr on a blob.                                              *)

Between(v, first, last) ==
  IF v = <<>> THEN Null
              ELSE SubSeq(v, IF first < 1 THEN 1 ELSE first, Least(last, Len(v)))

First(v, y) == IF y < 0 THEN Len(v) + 1 + y ELSE y

substr(v, y) == Between(v, First(v, y), Len(v))

substrLen(v, y, z) == Between(v, First(v, y), First(v, y) + z - 1)

-----------------------------------------------------------------------------
\* Mutant: SQL counts from 1.
SubstrFromZero(v, r) ==
  IF r.suffix THEN substr(v, -r.length)
  ELSE IF r.length = Null THEN substr(v, r.offset)
  ELSE substrLen(v, r.offset, r.length)

\* impl Display for Substr
Substr(v, r) ==
  IF r.suffix THEN substr(v, -r.length)
  ELSE IF r.length = Null THEN substr(v, r.offset + 1)
  ELSE substrLen(v, r.offset + 1, r.length)

-----------------------------------------------------------------------------
(* The meaning of a range on a value: bytes start+1 .. end, cut off at the *)
(* end of the value.                                                       *)

Start(v, r) ==
  IF r.suffix THEN Len(v) - Least(r.length, Len(v)) ELSE Least(r.offset, Len(v))

End(v, r) ==
  IF r.suffix \/ r.length = Null THEN Len(v) ELSE Least(r.offset + r.length, Len(v))

Slice(v, r) == [i \in 1..(End(v, r) - Start(v, r)) |-> v[Start(v, r) + i]]
=============================================================================
