-------------------------- MODULE StatementProofs --------------------------
(***************************************************************************)
(* The SQL statements of Queries serve the requests of StoreRequests: so   *)
(* what RusqliteStore and TursoStore take for the effect and the answer of *)
(* a request is what the statements of src/queries.rs do to table zarr.    *)
(* StoreRequests has a set of keys where the code has a prefix; a prefix   *)
(* names one set in a listing and, by LIKE, perhaps a larger one in        *)
(* erase_prefix.                                                           *)
(***************************************************************************)
EXTENDS ErasePrefixProofs

\* The keys that a listing, and that erase_prefix, takes a prefix for.
Under(p) == {k \in Keys : Descendant(k, p)}
Matched(p) == {k \in Keys : Like(k, p \o <<Percent>>)}

\* Table zarr as a map of all keys.
rows == [k \in Keys |-> IF k \in DOMAIN zarr THEN zarr[k] ELSE Null]

Rows == INSTANCE StoreRequests
          WITH PrefixKeys <- {Under(p) : p \in Prefixes} \cup {Matched(p) : p \in Prefixes},
               Absent <- Null

(* Without wildcards and upper-case letters a prefix names the same keys   *)
(* in both: then RusqliteStore's one set of keys for each prefix is exact. *)
THEOREM PrefixNamesOneSet ==
  ASSUME \A p \in Prefixes : IsLiteral(p) /\ IsLowerCase(p),
         \A k \in Keys : IsLowerCase(k)
  PROVE  \A p \in Prefixes : Matched(p) = Under(p)
<1> SUFFICES ASSUME NEW p \in Prefixes, NEW k \in Keys
             PROVE  Like(k, p \o <<Percent>>) <=> Descendant(k, p)
  BY DEF Matched, Under
<1>1. IsStoreKey(k) /\ IsStorePrefix(p) /\ IsLiteral(p) /\ IsLowerCase(p) /\ IsLowerCase(k)
  BY KeyAssumption, StorePrefixAssumption
<1>2. Like(k, p \o <<Percent>>) <=> DescendantInAnyCase(k, p)
  BY <1>1, LikeIsDescendant
<1> QED
  BY <1>1, <1>2, OneCase

-----------------------------------------------------------------------------
(* Every statement that writes is the effect of a request.                 *)
LEMMA SetIsRequest ==
  ASSUME TypeOK, NEW k \in Keys, NEW v \in Values, set(k, v)
  PROVE  \E r \in Rows!Requests : rows' = Rows!Effect(rows, r)
<1> DEFINE r == [op |-> "set", keys |-> {k}, value |-> v]
<1>1. r \in Rows!Requests
  BY DEF Rows!Requests, Rows!Set, Rows!Singletons
<1>2. \A x \in Keys : rows'[x] = IF x = k THEN v ELSE rows[x]
  BY DEF rows, set
<1>3. Rows!Effect(rows, r) = [x \in Keys |-> IF x = k THEN v ELSE rows[x]]
  BY DEF Rows!Effect, Rows!Mutations
<1>4. rows' = [x \in Keys |-> rows'[x]]
  BY DEF rows
<1> QED
  BY <1>1, <1>2, <1>3, <1>4

\* A DELETE of the rows whose keys are not in S.
LEMMA RetainIsEffect ==
  ASSUME NEW S, NEW D, Retain(S), \A x \in DOMAIN zarr : x \in S <=> x \notin D,
         NEW op \in Rows!Mutations
  PROVE  rows' = Rows!Effect(rows, [op |-> op, keys |-> D, value |-> Null])
<1>1. \A x \in Keys : rows'[x] = IF x \in D THEN Null ELSE rows[x]
  BY DEF rows, Retain
<1>2. Rows!Effect(rows, [op |-> op, keys |-> D, value |-> Null])
        = [x \in Keys |-> IF x \in D THEN Null ELSE rows[x]]
  BY DEF Rows!Effect
<1>3. rows' = [x \in Keys |-> rows'[x]]
  BY DEF rows
<1> QED
  BY <1>1, <1>2, <1>3

(* What writes of the store do to table zarr: every statement that         *)
(* changes it does, to the map of all keys, what StoreRequests says of a   *)
(* request, for all keys, prefixes and values.                             *)
THEOREM StatementsAreRequests ==
  Spec => /\ rows = [k \in Keys |-> Null]
          /\ [][\E r \in Rows!Requests : rows' = Rows!Effect(rows, r)]_rows
<1>1. Init => rows = [k \in Keys |-> Null]
  BY DEF Init, rows
<1>2. TypeOK /\ [Next]_zarr => [\E r \in Rows!Requests : rows' = Rows!Effect(rows, r)]_rows
  <2> SUFFICES ASSUME TypeOK, [Next]_zarr
               PROVE  UNCHANGED rows \/ \E r \in Rows!Requests : rows' = Rows!Effect(rows, r)
    OBVIOUS
  <2>1. CASE UNCHANGED zarr
    BY <2>1 DEF rows
  <2>2. ASSUME NEW k \in Keys, NEW v \in Values, set(k, v)
        PROVE  \E r \in Rows!Requests : rows' = Rows!Effect(rows, r)
    BY <2>2, SetIsRequest
  <2>3. ASSUME NEW k \in Keys, erase(k)
        PROVE  \E r \in Rows!Requests : rows' = Rows!Effect(rows, r)
    <3> DEFINE r == [op |-> "erase", keys |-> {k}, value |-> Null]
    <3>1. r \in Rows!Requests
      BY DEF Rows!Requests, Rows!Erase, Rows!Singletons
    <3> DEFINE S == {x \in DOMAIN zarr : x # k}
    <3>2. Retain(S) /\ \A x \in DOMAIN zarr : x \in S <=> x \notin {k}
      BY <2>3, Zenon DEF erase
    <3>3. "erase" \in Rows!Mutations
      BY DEF Rows!Mutations
    <3> HIDE DEF S
    <3>4. rows' = Rows!Effect(rows, r)
      BY <3>2, <3>3, RetainIsEffect, Zenon
    <3> QED
      BY <3>1, <3>4
  <2>4. ASSUME NEW p \in Prefixes, erase_prefix(p)
        PROVE  \E r \in Rows!Requests : rows' = Rows!Effect(rows, r)
    <3> DEFINE r == [op |-> "erase_prefix", keys |-> Matched(p), value |-> Null]
    <3>1. r \in Rows!Requests
      BY DEF Rows!Requests, Rows!ErasePrefix
    <3>2. \A x \in DOMAIN zarr : x \in DOMAIN zarr \ Erased(p) <=> x \notin Matched(p)
      BY DEF TypeOK, Erased, Matched
    <3>3. Retain(DOMAIN zarr \ Erased(p)) /\ "erase_prefix" \in Rows!Mutations
      BY <2>4 DEF erase_prefix, Rows!Mutations
    <3>4. rows' = Rows!Effect(rows, r)
      BY <3>2, <3>3, RetainIsEffect, Zenon
    <3> QED
      BY <3>1, <3>4
  <2> QED
    BY <2>1, <2>2, <2>3, <2>4 DEF Next
<1> QED
  BY <1>1, <1>2, TypeInvariant, PTL DEF Spec

-----------------------------------------------------------------------------
(* What is read.                                                           *)
ListAnswer(p) == Rows!Answer(rows, [op |-> "list", keys |-> Under(p), value |-> Null])
GetAnswer(k) == Rows!Answer(rows, [op |-> "get", keys |-> {k}, value |-> Null])

(* list_prefix returns the keys that the answer to its request has a value *)
(* for, and get and size_key find a row if and only if the answer has one, *)
(* which is then what get_partial_many cuts its ranges from.               *)
THEOREM ReadsAreAnswers ==
  ASSUME Null \notin Values
  PROVE  Spec => [](/\ \A p \in Prefixes :
                         list_prefix(p) = {k \in Under(p) : ListAnswer(p)[k] # Null}
                    /\ \A k \in Keys, ranges \in Requested :
                         ranges # <<>> =>
                           get_partial_many(k, ranges) =
                             IF GetAnswer(k)[k] = Null THEN Null
                             ELSE [i \in 1..Len(ranges) |-> Substr(GetAnswer(k)[k], ranges[i])])
<1> DEFINE Inv == /\ \A p \in Prefixes :
                       list_prefix(p) = {k \in Under(p) : ListAnswer(p)[k] # Null}
                  /\ \A k \in Keys, ranges \in Requested :
                       ranges # <<>> =>
                         get_partial_many(k, ranges) =
                           IF GetAnswer(k)[k] = Null THEN Null
                           ELSE [i \in 1..Len(ranges) |-> Substr(GetAnswer(k)[k], ranges[i])]
<1>1. TypeOK /\ ListPrefixExact => Inv
  <2> SUFFICES ASSUME TypeOK, ListPrefixExact PROVE Inv
    OBVIOUS
  <2>1. \A k \in Keys : rows[k] = IF k \in DOMAIN zarr THEN zarr[k] ELSE Null
    BY DEF rows
  <2>2. \A k \in Keys : rows[k] # Null <=> k \in DOMAIN zarr
    BY <2>1 DEF TypeOK
  <2>3. ASSUME NEW p \in Prefixes
        PROVE  list_prefix(p) = {k \in Under(p) : ListAnswer(p)[k] # Null}
    <3>1. \A k \in Under(p) : k \in Keys /\ ListAnswer(p)[k] = rows[k]
      BY DEF ListAnswer, Rows!Answer, Rows!Mutations, Under
    <3>2. list_prefix(p) = {k \in DOMAIN zarr : Descendant(k, p)}
      BY DEF ListPrefixExact
    <3> QED
      BY <2>2, <3>1, <3>2 DEF TypeOK, Under
  <2>4. ASSUME NEW k \in Keys, NEW ranges \in Requested, ranges # <<>>
        PROVE  get_partial_many(k, ranges) =
                 IF GetAnswer(k)[k] = Null THEN Null
                 ELSE [i \in 1..Len(ranges) |-> Substr(GetAnswer(k)[k], ranges[i])]
    <3>1. GetAnswer(k)[k] = rows[k]
      BY DEF GetAnswer, Rows!Answer, Rows!Mutations
    <3>2. CASE k \in DOMAIN zarr
      BY <2>1, <2>2, <2>4, <3>1, <3>2 DEF get_partial_many, list
    <3>3. CASE k \notin DOMAIN zarr
      BY <2>2, <2>4, <3>1, <3>3 DEF get_partial_many, list
    <3> QED
      BY <3>2, <3>3
  <2> QED
    BY <2>3, <2>4
<1> QED
  BY <1>1, TypeInvariant, ListPrefixIsExact, PTL
=============================================================================
