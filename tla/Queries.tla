------------------------------ MODULE Queries ------------------------------
(***************************************************************************)
(* src/queries.rs and the methods that run its statements: which rows of   *)
(* table zarr a key or a prefix names, for set, erase, erase_prefix, list, *)
(* list_prefix, list_dir, size_key, size, size_prefix and get_partial_many. *)
(*                                                                         *)
(* A key is a sequence of character codes, since these queries are about   *)
(* characters: '/' ends a prefix, '0' follows '/', LIKE has wildcards and  *)
(* ignores the case of ASCII letters.  A value is a sequence of bytes.      *)
(*                                                                         *)
(* External parts: zarrs_storage accepts as StoreKey what neither starts   *)
(* nor ends with '/', and as StorePrefix the empty root or what ends, but  *)
(* does not start, with '/'; SQLite compares TEXT in the order of the      *)
(* codes (BINARY, the collation of column k).                              *)
(***************************************************************************)
EXTENDS ByteRanges, FiniteSetsExt

CONSTANTS Keys,      \* store keys in use
          Prefixes,  \* store prefixes in use
          Values,    \* values
          Requested  \* lists of byte ranges that callers ask for

Slash == 47
Zero == 48
Percent == 37
Underscore == 95

IsStoreKey(k) == k \in Seq(Nat) /\ k # <<>> /\ k[1] # Slash /\ k[Len(k)] # Slash
IsStorePrefix(p) == p \in Seq(Nat) /\ (p # <<>> => p[1] # Slash /\ p[Len(p)] = Slash)

ASSUME KeyAssumption == \A k \in Keys : IsStoreKey(k)
ASSUME StorePrefixAssumption == \A p \in Prefixes : IsStorePrefix(p)
ASSUME ValueAssumption == Values \subseteq Seq(0..255)
ASSUME RangeAssumption == Requested \subseteq Seq(ByteRange) /\ Null \notin Nat

VARIABLE zarr  \* table zarr: key -> value

Init == zarr = [k \in {} |-> <<>>]

-----------------------------------------------------------------------------
(* SQL functions and operators.                                            *)

\* a < b, in the order of the codes of the first characters that differ.
Less(a, b) ==
  \E n \in 0..Len(a) :
    /\ n <= Len(b)
    /\ \A i \in 1..n : a[i] = b[i]
    /\ n < Len(b)
    /\ n = Len(a) \/ (n < Len(a) /\ a[n + 1] < b[n + 1])

\* instr(s, '/'): the position of the first one, or 0.
instr(s) ==
  IF \E i \in 1..Len(s) : s[i] = Slash
    THEN CHOOSE i \in 1..Len(s) : s[i] = Slash /\ \A j \in 1..(i - 1) : s[j] # Slash
    ELSE 0

Lower(c) == IF c \in 65..90 THEN c + 32 ELSE c

\* s LIKE pat, without an ESCAPE clause: match[j] is the set of positions from
\* which on s is like pat from its j-th character on.
Like(s, pat) ==
  LET match[j \in 1..(Len(pat) + 1)] ==
        IF j > Len(pat) THEN {Len(s) + 1}
        ELSE IF pat[j] = Percent
          THEN {i \in 1..(Len(s) + 1) : \E n \in match[j + 1] : i <= n}
          ELSE {i \in 1..Len(s) :
                  /\ pat[j] = Underscore \/ Lower(s[i]) = Lower(pat[j])
                  /\ i + 1 \in match[j + 1]}
  IN 1 \in match[1]

-----------------------------------------------------------------------------
(* Queries that read.                                                      *)

IsRoot(p) == p = <<>>

\* Mutant: no pop.
UpperWithoutPop(p) == p \o <<Zero>>

\* s.pop(); s.push('0')
prefix_upper(p) == SubSeq(p, 1, Len(p) - 1) \o <<Zero>>

\* k > ?1 AND k < ?2
InRange(k, p) == Less(p, k) /\ Less(k, prefix_upper(p))

list == DOMAIN zarr

list_prefix(p) == IF IsRoot(p) THEN list ELSE {k \in list : InRange(k, p)}

\* Mutant: off by one.
RestFromSecond(k, p) == SubSeq(k, Len(p) + 2, Len(k))

\* list_dir_root_query is list_dir_query with nothing to cut off.
rest(k, p) == SubSeq(k, Len(p) + 1, Len(k))

\* Mutant: the keys of all levels.
ListDirOfAllKeys(p) ==
  [keys |-> list_prefix(p),
   prefixes |-> {p \o SubSeq(rest(k, p), 1, instr(rest(k, p))) :
                   k \in {k \in list_prefix(p) : instr(rest(k, p)) > 0}}]

list_dir(p) ==
  [keys |-> {k \in list_prefix(p) : instr(rest(k, p)) = 0},
   prefixes |-> {p \o SubSeq(rest(k, p), 1, instr(rest(k, p))) :
                   k \in {k \in list_prefix(p) : instr(rest(k, p)) > 0}}]

\* sum() of no rows is NULL, which is no i64: size() returns an error, although
\* queries.rs:262 says "Returns 1 row with 1 integer column".
size == IF list = {} THEN Null ELSE MapThenSumSet(LAMBDA k : Len(zarr[k]), list)

\* size_prefix_query selects k, so the i64 that size_prefix reads is a text:
\* an error, except for the root.  For no row RusqliteStore returns an error
\* too, as here, and TursoStore Ok(0).
size_prefix(p) == IF IsRoot(p) THEN size ELSE Null

size_key(k) == IF k \in list THEN Len(zarr[k]) ELSE Null

\* One column for each range; get_partial is the case of one range.  For no
\* range at all the table is not asked.
get_partial_many(k, ranges) ==
  IF ranges = <<>> THEN <<>>
  ELSE IF k \notin list THEN Null
  ELSE [i \in 1..Len(ranges) |-> Substr(zarr[k], ranges[i])]

-----------------------------------------------------------------------------
(* Statements that write.                                                  *)

\* Mutant: the value is appended to.
SetAppends(k, v) ==
  zarr' = [x \in DOMAIN zarr \cup {k} |->
             IF x # k THEN zarr[x] ELSE IF k \in DOMAIN zarr THEN zarr[k] \o v ELSE v]

\* INSERT .. ON CONFLICT (k) DO UPDATE
set(k, v) == zarr' = [x \in DOMAIN zarr \cup {k} |-> IF x = k THEN v ELSE zarr[x]]

Retain(S) == zarr' = [x \in DOMAIN zarr \cap S |-> zarr[x]]

erase(k) == Retain({x \in DOMAIN zarr : x # k})

\* Mutant: no wildcard at the end.
ErasedWithoutWildcard(p) == {x \in DOMAIN zarr : Like(x, p)}

\* DELETE .. WHERE k LIKE prefix || '%'
Erased(p) == {x \in DOMAIN zarr : Like(x, p \o <<Percent>>)}

erase_prefix(p) == Retain(DOMAIN zarr \ Erased(p))

Next ==
  \/ \E k \in Keys, v \in Values : set(k, v)
  \/ \E k \in Keys : erase(k)
  \/ \E p \in Prefixes : erase_prefix(p)

Spec == Init /\ [][Next]_zarr

-----------------------------------------------------------------------------
(* Properties.                                                             *)

\* Rows are store keys with values.
TypeOK == DOMAIN zarr \subseteq Keys /\ \A k \in DOMAIN zarr : zarr[k] \in Values

\* What "descendant of a prefix" means.
Descendant(k, p) == Len(k) > Len(p) /\ \A i \in 1..Len(p) : k[i] = p[i]

\* list_prefix lists the descendants and no other key: not the key that is
\* the prefix without its '/', none that sorts next to it ("a.b", "a0").
ListPrefixExact ==
  \A p \in Prefixes : list_prefix(p) = {k \in DOMAIN zarr : Descendant(k, p)}

\* list_dir is one level of a tree: each descendant of a prefix is listed
\* itself or lies below exactly one of the prefixes listed, and each of those
\* is a prefix one level deeper with something below it.
ListDirIsOneLevel ==
  \A p \in Prefixes :
    LET dir == list_dir(p)
    IN  /\ \A k \in list_prefix(p) :
             IF k \in dir.keys
               THEN \A q \in dir.prefixes : ~Descendant(k, q)
               ELSE \E q \in dir.prefixes :
                      /\ Descendant(k, q)
                      /\ \A r \in dir.prefixes : Descendant(k, r) => r = q
        /\ dir.keys \subseteq list_prefix(p)
        /\ \A q \in dir.prefixes :
             /\ IsStorePrefix(q) /\ Descendant(q, p)
             /\ \A i \in (Len(p) + 1)..(Len(q) - 1) : q[i] # Slash
             /\ list_prefix(q) # {} /\ list_prefix(q) \subseteq list_prefix(p)

\* A walk over all calls of list_dir: who starts at a prefix and goes on to
\* every prefix that is listed on the way finds each descendant, and finds it
\* in one listing only.
WalkFindsEachKeyOnce ==
  LET shown == UNION {{p} \X list_dir(p).keys : p \in Prefixes}
      below == UNION {{p} \X list_dir(p).prefixes : p \in Prefixes}
  IN  \A p \in Prefixes, S \in SUBSET Prefixes :
        p \in S /\ (\A e \in below : e[1] \in S => e[2] \in S) =>
          \A k \in list_prefix(p) : \E q \in S : \A r \in S : <<r, k>> \in shown <=> r = q

\* erase_prefix leaves no descendant of its prefix, whatever wildcards and
\* letters the prefix has: what LIKE matches is at least what it should.
ErasePrefixClears ==
  \A p \in Prefixes : {k \in DOMAIN zarr : Descendant(k, p)} \subseteq Erased(p)

\* rusqlite_store.rs:538-539: what is under the prefix "a/" is its descendants.
\* Erasing a prefix erases no other key.
ErasePrefixKeepsOthers ==
  \A p \in Prefixes : Erased(p) \subseteq {k \in DOMAIN zarr : Descendant(k, p)}

\* get_partial_many returns, in the order of the ranges, what each of them
\* means, cut off at the end of the value; neither an empty value nor the
\* empty suffix is asked for.
PartialIsSlice ==
  \A k \in DOMAIN zarr, ranges \in Requested :
    zarr[k] # <<>> /\ (\A i \in 1..Len(ranges) : ranges[i] # Suffix(0)) =>
      get_partial_many(k, ranges) = [i \in 1..Len(ranges) |-> Slice(zarr[k], ranges[i])]

\* The test rusqlite_store.rs:503 takes Suffix(n) for the last n bytes,
\* data[data.len() - n..], of any value that has so many.
SuffixIsExact ==
  \A k \in DOMAIN zarr, n \in 0..3 :
    n <= Len(zarr[k]) /\ zarr[k] # <<>> =>
      get_partial_many(k, <<Suffix(n)>>) = << SubSeq(zarr[k], Len(zarr[k]) - n + 1, Len(zarr[k])) >>
=============================================================================
