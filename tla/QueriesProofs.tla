--------------------------- MODULE QueriesProofs ---------------------------
(***************************************************************************)
(* Proofs about Queries, for any set of store keys and store prefixes over *)
(* any characters.                                                         *)
(***************************************************************************)
EXTENDS Queries, SequenceTheorems, WellFoundedInduction, TLAPS

(* prefix_upper replaces the '/' at the end by the next character code and *)
(* leaves the rest of the prefix as it is.                                 *)
LEMMA UpperShape ==
  ASSUME NEW p \in Seq(Nat), p # <<>>
  PROVE  /\ Len(p) \in Nat \ {0}
         /\ prefix_upper(p) \in Seq(Nat)
         /\ Len(prefix_upper(p)) = Len(p)
         /\ \A i \in 1..(Len(p) - 1) : prefix_upper(p)[i] = p[i]
         /\ prefix_upper(p)[Len(p)] = Zero
<1>1. Len(p) \in Nat \ {0}
  OBVIOUS
<1>2. SubSeq(p, 1, Len(p) - 1) \in Seq(Nat) /\ Len(SubSeq(p, 1, Len(p) - 1)) = Len(p) - 1
      /\ \A i \in 1..(Len(p) - 1) : SubSeq(p, 1, Len(p) - 1)[i] = p[i]
  <2>1. 1 \in Int /\ Len(p) - 1 \in Int /\ \A i \in 1..(Len(p) - 1) : p[i] \in Nat
    BY <1>1
  <2> DEFINE q == SubSeq(p, 1, Len(p) - 1)
  <2>2. q \in Seq(Nat)
    BY <2>1, SubSeqProperties
  <2>3. Len(q) = IF 1 <= Len(p) - 1 THEN (Len(p) - 1) - 1 + 1 ELSE 0
    BY <2>1, SubSeqProperties
  <2>4. \A i \in 1..((Len(p) - 1) - 1 + 1) : q[i] = p[1 + i - 1]
    BY <2>1, SubSeqProperties
  <2> HIDE DEF q
  <2>5. Len(q) = Len(p) - 1
    <3> DEFINE n == Len(p)
    <3>1. n \in Nat \ {0} /\ Len(q) = IF 1 <= n - 1 THEN (n - 1) - 1 + 1 ELSE 0
      BY <1>1, <2>3
    <3> HIDE DEF n
    <3>2. CASE n = 1
      BY <3>1, <3>2 DEF n
    <3>3. CASE n > 1
      BY <3>1, <3>3 DEF n
    <3> QED
      BY <3>1, <3>2, <3>3
  <2>6. \A i \in 1..(Len(p) - 1) : q[i] = p[i]
    <3> SUFFICES ASSUME NEW i \in 1..(Len(p) - 1) PROVE q[i] = p[i]
      OBVIOUS
    <3>1. i \in 1..((Len(p) - 1) - 1 + 1) /\ 1 + i - 1 = i
      BY <1>1
    <3> QED
      BY <2>4, <3>1
  <2> QED
    BY <2>2, <2>5, <2>6 DEF q
<1>3. <<Zero>> \in Seq(Nat) /\ Len(<<Zero>>) = 1 /\ <<Zero>>[1] = Zero
  BY DEF Zero
<1> HIDE DEF Zero
<1> QED
  BY <1>1, <1>2, <1>3 DEF prefix_upper

(* Nothing sorts between "prefix/" and "prefix0" but what starts with      *)
(* "prefix/" and is longer: '0' is the very next code after '/'.           *)
LEMMA RangeIsDescendant ==
  ASSUME NEW k \in Seq(Nat), NEW p \in Seq(Nat), p # <<>>, p[Len(p)] = Slash
  PROVE  InRange(k, p) <=> Descendant(k, p)
<1> DEFINE u == prefix_upper(p)
           L == Len(p)
<1>1. /\ L \in Nat \ {0} /\ Len(u) = L /\ u[L] = 48 /\ p[L] = 47
      /\ \A i \in 1..(L - 1) : u[i] = p[i]
  BY UpperShape DEF Zero, Slash
<1>2. /\ Len(k) \in Nat
      /\ \A i \in 1..Len(k) : k[i] \in Nat
      /\ \A i \in 1..L : p[i] \in Nat
  OBVIOUS
<1> HIDE DEF u, L
<1>3. ASSUME Descendant(k, p) PROVE InRange(k, p)
  <2>1. Len(k) > L /\ \A i \in 1..L : k[i] = p[i]
    BY <1>3 DEF Descendant, L
  <2>2. Less(p, k)
    <3>1. L \in 0..L /\ L <= Len(k) /\ L < Len(k) /\ \A i \in 1..L : p[i] = k[i]
      BY <1>1, <1>2, <2>1
    <3> QED
      BY <3>1 DEF Less, L
  <2>3. Less(k, u)
    <3>1. /\ L - 1 \in 0..Len(k) /\ L - 1 <= Len(u) /\ L - 1 < Len(u)
          /\ \A i \in 1..(L - 1) : k[i] = u[i]
          /\ L - 1 < Len(k) /\ k[(L - 1) + 1] < u[(L - 1) + 1]
      BY <1>1, <1>2, <2>1
    <3> QED
      BY <3>1 DEF Less
  <2> QED
    BY <2>2, <2>3 DEF InRange, u
<1>4. ASSUME InRange(k, p) PROVE Descendant(k, p)
  <2>1. Less(p, k) /\ Less(k, u)
    BY <1>4 DEF InRange, u
  <2>2. PICK n \in 0..L :
          /\ n <= Len(k)
          /\ \A i \in 1..n : p[i] = k[i]
          /\ n < Len(k)
          /\ n = L \/ (n < L /\ p[n + 1] < k[n + 1])
    BY <2>1 DEF Less, L
  <2>3. PICK m \in 0..Len(k) :
          /\ m <= L
          /\ \A i \in 1..m : k[i] = u[i]
          /\ m < L
          /\ m = Len(k) \/ (m < Len(k) /\ k[m + 1] < u[m + 1])
    BY <1>1, <2>1 DEF Less
  <2>4. CASE n = L
    BY <1>1, <1>2, <2>2, <2>4 DEF Descendant, L
  <2>5. CASE n < L
    <3>1. n + 1 \in 1..L /\ n + 1 \in 1..Len(k) /\ p[n + 1] < k[n + 1]
      BY <1>1, <1>2, <2>2, <2>5
    <3>2. k[n + 1] >= u[n + 1] /\ u[n + 1] \in Nat
      <4>1. p[n + 1] \in Nat /\ k[n + 1] \in Nat /\ n \in Nat
        BY <1>2, <3>1
      <4>2. CASE n + 1 = L
        <5>1. p[n + 1] = 47 /\ u[n + 1] = 48
          BY <1>1, <4>2
        <5> QED
          BY <3>1, <4>1, <5>1
      <4>3. CASE n + 1 < L
        <5>1. n + 1 \in 1..(L - 1)
          BY <1>1, <4>1, <4>3
        <5>2. u[n + 1] = p[n + 1]
          BY <1>1, <5>1
        <5> QED
          BY <3>1, <4>1, <5>2
      <4>4. n + 1 = L \/ n + 1 < L
        BY <1>1, <3>1, <4>1
      <4> QED
        BY <4>2, <4>3, <4>4
    <3>3. m <= n
      <4>1. SUFFICES ASSUME m > n PROVE FALSE
        BY <1>2, <2>2, <2>3
      <4>2. k[n + 1] = u[n + 1] /\ n + 1 < L
        BY <1>1, <1>2, <2>2, <2>3, <2>5, <4>1
      <4>3. u[n + 1] = p[n + 1]
        BY <1>1, <2>2, <4>2
      <4> QED
        BY <1>2, <3>1, <4>2, <4>3
    <3>4. m < Len(k) /\ k[m + 1] < u[m + 1]
      BY <1>2, <2>2, <2>3, <3>1, <3>3
    <3>5. CASE m = n
      <4>1. k[n + 1] < u[n + 1] /\ k[n + 1] >= u[n + 1] /\ k[n + 1] \in Nat /\ u[n + 1] \in Nat
        BY <1>2, <3>1, <3>2, <3>4, <3>5
      <4> QED
        BY <4>1
    <3>6. CASE m < n
      <4>1. m + 1 \in 1..n /\ m + 1 \in 1..(L - 1)
        BY <1>1, <2>2, <2>3, <2>5, <3>6
      <4>2. k[m + 1] = u[m + 1] /\ k[m + 1] \in Nat
        BY <1>1, <1>2, <2>2, <2>3, <3>1, <4>1
      <4> QED
        BY <3>4, <4>2
    <3>7. m = n \/ m < n
      BY <1>1, <1>2, <3>3
    <3> QED
      BY <3>5, <3>6, <3>7
  <2> QED
    BY <1>1, <2>2, <2>4, <2>5
<1> QED
  BY <1>3, <1>4

-----------------------------------------------------------------------------
(* The bytes a..b of a value, numbered from 1.                             *)
LEMMA SubSeqIsSlice ==
  ASSUME NEW v \in Seq(Nat), NEW a \in Int, NEW b \in Int, a >= 1, b <= Len(v),
         NEW s \in Nat, NEW e \in Nat,
         a <= b => s = a - 1 /\ e = b,
         a > b => e <= s
  PROVE  SubSeq(v, a, b) = [i \in 1..(e - s) |-> v[s + i]]
<1> DEFINE q == SubSeq(v, a, b)
<1>1. \A i \in a..b : v[i] \in Nat
  OBVIOUS
<1>2. q \in Seq(Nat) /\ Len(q) = IF a <= b THEN b - a + 1 ELSE 0
  BY <1>1, SubSeqProperties
<1>3. \A i \in 1..(b - a + 1) : q[i] = v[a + i - 1]
  BY <1>1, SubSeqProperties
<1> HIDE DEF q
<1>4. q = [i \in 1..Len(q) |-> q[i]]
  BY <1>2
<1>5. CASE a <= b
  <2>1. Len(q) = e - s /\ Len(q) = b - a + 1
    BY <1>2, <1>5
  <2>2. \A i \in 1..(e - s) : q[i] = v[s + i]
    <3> SUFFICES ASSUME NEW i \in 1..(e - s) PROVE q[i] = v[s + i]
      OBVIOUS
    <3>1. i \in 1..(b - a + 1) /\ a + i - 1 = s + i
      BY <1>5
    <3> QED
      BY <1>3, <3>1
  <2>3. q = [i \in 1..(e - s) |-> q[i]]
    BY <1>4, <2>1
  <2> QED
    BY <2>2, <2>3 DEF q
<1>6. CASE a > b
  <2>1. 1..Len(q) = {} /\ 1..(e - s) = {}
    BY <1>2, <1>6
  <2> QED
    BY <1>4, <2>1 DEF q
<1> QED
  BY <1>5, <1>6

(* substr, with the offsets of Substr, cuts out of a value that is not     *)
(* empty the bytes that the range means, for any range but Suffix(0).      *)
LEMMA SubstrIsSlice ==
  ASSUME NEW v \in Seq(Nat), v # <<>>, NEW r \in ByteRange, r # Suffix(0)
  PROVE  Substr(v, r) = Slice(v, r)
<1>1. Len(v) \in Nat \ {0}
  OBVIOUS
<1>2. CASE r.suffix
  <2>1. r.length \in Nat \ {0}
    BY <1>2 DEF ByteRange, Suffix
  <2> DEFINE n == Len(v)
             y == -r.length
             first == IF n + 1 + y < 1 THEN 1 ELSE n + 1 + y
  <2>2. n \in Nat \ {0} /\ y \in Int /\ y < 0 /\ first \in Int
    BY <1>1, <2>1
  <2>3. Substr(v, r) = substr(v, y)
    BY <1>2 DEF Substr
  <2>4. Substr(v, r) = SubSeq(v, first, n)
    <3>1. First(v, y) = n + 1 + y
      BY <2>2 DEF First
    <3>2. Least(n, n) = n
      BY DEF Least
    <3> HIDE DEF y
    <3> QED
      BY <2>3, <3>1, <3>2 DEF substr, Between
  <2> DEFINE s == n - Least(r.length, n)
  <2>5. Slice(v, r) = [i \in 1..(n - s) |-> v[s + i]]
    BY <1>2 DEF Slice, Start, End
  <2>6. s \in Nat /\ first >= 1 /\ s = first - 1 /\ first <= n
    <3>1. CASE r.length <= n
      <4>1. s = n - r.length
        BY <3>1 DEF Least
      <4>2. first = n + 1 - r.length
        BY <2>1, <2>2, <3>1
      <4> HIDE DEF s, first, n
      <4> QED
        BY <2>1, <2>2, <3>1, <4>1, <4>2
    <3>2. CASE ~(r.length <= n)
      <4>1. s = n - n
        BY <3>2 DEF Least
      <4>2. first = 1
        BY <2>1, <2>2, <3>2
      <4> HIDE DEF s, first, n
      <4> QED
        BY <2>2, <4>1, <4>2
    <3> QED
      BY <3>1, <3>2
  <2> HIDE DEF first, s
  <2>7. SubSeq(v, first, n) = [i \in 1..(n - s) |-> v[s + i]]
    <3>1. first \in Int /\ first >= 1 /\ n \in Int /\ n \in Nat /\ n <= Len(v) /\ s \in Nat
      BY <2>2, <2>6
    <3>2. first <= n => s = first - 1 /\ n = n
      BY <2>6
    <3>3. first > n => n <= s
      BY <2>6, <3>1
    <3> HIDE DEF n
    <3> QED
      BY <3>1, <3>2, <3>3, SubSeqIsSlice
  <2> QED
    BY <2>4, <2>5, <2>7
<1>3. CASE ~r.suffix /\ r.length = Null
  <2> DEFINE n == Len(v)
             y == r.offset + 1
             s == Least(r.offset, n)
  <2>1. n \in Nat \ {0} /\ r.offset \in Nat /\ y \in Nat /\ y >= 1
    <3>1. r.offset \in Nat
      BY <1>3 DEF ByteRange
    <3> QED
      BY <1>1, <3>1
  <2>2. Substr(v, r) = substr(v, y)
    BY <1>3 DEF Substr
  <2>3. Substr(v, r) = SubSeq(v, y, n)
    <3>1. First(v, y) = y
      BY <2>1 DEF First
    <3>2. Least(n, n) = n
      BY DEF Least
    <3>3. ~(y < 1)
      BY <2>1
    <3> HIDE DEF y
    <3> QED
      BY <2>2, <3>1, <3>2, <3>3 DEF substr, Between
  <2>4. Slice(v, r) = [i \in 1..(n - s) |-> v[s + i]]
    BY <1>3 DEF Slice, Start, End
  <2>5. s \in Nat /\ (y <= n => s = y - 1) /\ (y > n => n <= s)
    BY <2>1 DEF Least
  <2> HIDE DEF y, s
  <2>6. SubSeq(v, y, n) = [i \in 1..(n - s) |-> v[s + i]]
    <3>1. y \in Int /\ y >= 1 /\ n \in Int /\ n \in Nat /\ n <= Len(v) /\ s \in Nat
      BY <2>1, <2>5
    <3>2. y <= n => s = y - 1 /\ n = n
      BY <2>5
    <3>3. y > n => n <= s
      BY <2>5
    <3> HIDE DEF n
    <3> QED
      BY <3>1, <3>2, <3>3, SubSeqIsSlice
  <2> QED
    BY <2>3, <2>4, <2>6
<1>4. CASE ~r.suffix /\ r.length # Null
  <2> DEFINE n == Len(v)
             y == r.offset + 1
             last == y + r.length - 1
             b == Least(last, n)
             s == Least(r.offset, n)
             e == Least(r.offset + r.length, n)
  <2>1. /\ n \in Nat \ {0} /\ r.offset \in Nat /\ r.length \in Nat
        /\ y \in Nat /\ y >= 1 /\ last \in Nat
    <3>1. r.offset \in Nat /\ r.length \in Nat
      BY <1>4 DEF ByteRange
    <3> QED
      BY <1>1, <3>1
  <2>2. Substr(v, r) = substrLen(v, y, r.length)
    BY <1>4 DEF Substr
  <2>3. Substr(v, r) = SubSeq(v, y, b)
    <3>1. First(v, y) = y
      BY <2>1 DEF First
    <3>2. ~(y < 1)
      BY <2>1
    <3>3. substrLen(v, y, r.length) = Between(v, y, last)
      BY <3>1 DEF substrLen
    <3> HIDE DEF y, last
    <3> QED
      BY <2>2, <3>2, <3>3 DEF Between
  <2>4. Slice(v, r) = [i \in 1..(e - s) |-> v[s + i]]
    BY <1>4 DEF Slice, Start, End
  <2>5. /\ b \in Int /\ b <= n /\ s \in Nat /\ e \in Nat
        /\ y <= b => s = y - 1 /\ e = b
        /\ y > b => e <= s
    <3>1. last = r.offset + r.length /\ y = r.offset + 1
      BY <2>1
    <3>2. b = e
      BY <3>1
    <3>3. CASE r.offset <= n
      BY <2>1, <3>1, <3>2, <3>3 DEF Least
    <3>4. CASE r.offset > n
      BY <2>1, <3>1, <3>2, <3>4 DEF Least
    <3> QED
      BY <2>1, <3>3, <3>4
  <2> HIDE DEF y, b, s, e, last
  <2>6. SubSeq(v, y, b) = [i \in 1..(e - s) |-> v[s + i]]
    <3>1. y \in Int /\ y >= 1
      BY <2>1
    <3>2. b <= Len(v)
      BY <2>5
    <3>3. b \in Int /\ s \in Nat /\ e \in Nat
      BY <2>5
    <3>4. y <= b => s = y - 1 /\ e = b
      BY <2>5
    <3>5. y > b => e <= s
      BY <2>5
    <3> QED
      BY <3>1, <3>2, <3>3, <3>4, <3>5, SubSeqIsSlice
  <2> QED
    BY <2>3, <2>4, <2>6
<1>5. r.suffix \in BOOLEAN
  BY DEF ByteRange
<1> QED
  BY <1>2, <1>3, <1>4, <1>5, Zenon

-----------------------------------------------------------------------------
LEMMA TypeInvariant == Spec => []TypeOK
<1>1. Init => TypeOK
  BY DEF Init, TypeOK
<1>2. TypeOK /\ [Next]_zarr => TypeOK'
  <2> SUFFICES ASSUME TypeOK, [Next]_zarr PROVE TypeOK'
    OBVIOUS
  <2> USE DEF TypeOK
  <2>1. ASSUME NEW k \in Keys, NEW v \in Values, set(k, v) PROVE TypeOK'
    BY <2>1 DEF set
  <2>2. ASSUME NEW S, Retain(S) PROVE TypeOK'
    BY <2>2 DEF Retain
  <2>3. ASSUME NEW k \in Keys, erase(k) PROVE TypeOK'
    BY <2>2, <2>3 DEF erase
  <2>4. ASSUME NEW p \in Prefixes, erase_prefix(p) PROVE TypeOK'
    BY <2>2, <2>4 DEF erase_prefix
  <2>5. CASE UNCHANGED zarr
    BY <2>5
  <2> QED
    BY <2>1, <2>3, <2>4, <2>5 DEF Next
<1> QED
  BY <1>1, <1>2, PTL DEF Spec

(* The table holds store keys, with values.                                *)
THEOREM TypeCorrect == Spec => []TypeOK
BY TypeInvariant

(* list_prefix of any store prefix, in use or not.                         *)
LEMMA PrefixLists ==
  ASSUME \A k \in DOMAIN zarr : k \in Seq(Nat) /\ k # <<>>, NEW p, IsStorePrefix(p)
  PROVE  list_prefix(p) = {k \in DOMAIN zarr : Descendant(k, p)}
<1>1. p \in Seq(Nat) /\ (p # <<>> => p[Len(p)] = Slash)
  BY DEF IsStorePrefix
<1>2. CASE p = <<>>
  <2>1. \A k \in DOMAIN zarr : Len(k) > 0
    OBVIOUS
  <2>2. \A k \in DOMAIN zarr : Descendant(k, p)
    BY <1>2, <2>1 DEF Descendant
  <2> QED
    BY <1>2, <2>2 DEF list_prefix, IsRoot, list
<1>3. CASE p # <<>>
  <2>1. \A k \in DOMAIN zarr : InRange(k, p) <=> Descendant(k, p)
    BY <1>1, <1>3, RangeIsDescendant
  <2> QED
    BY <1>3, <2>1 DEF list_prefix, IsRoot, list
<1> QED
  BY <1>2, <1>3

(* list_prefix_query lists the descendants of the prefix, all of them and  *)
(* no other key, for keys and prefixes over any characters.                *)
THEOREM ListPrefixIsExact == Spec => []ListPrefixExact
<1>1. TypeOK => ListPrefixExact
  <2>1. TypeOK => \A k \in DOMAIN zarr : k \in Seq(Nat) /\ k # <<>>
    BY KeyAssumption DEF TypeOK, IsStoreKey
  <2> QED
    BY <2>1, StorePrefixAssumption, PrefixLists DEF ListPrefixExact
<1> QED
  BY <1>1, TypeInvariant, PTL

(* get_partial_many returns what each range means, in their order, of any  *)
(* value that is not empty and for any ranges but Suffix(0).               *)
THEOREM PartialIsExact == Spec => []PartialIsSlice
<1>1. TypeOK => PartialIsSlice
  <2> SUFFICES ASSUME TypeOK, NEW k \in DOMAIN zarr, NEW ranges \in Requested,
                      zarr[k] # <<>>, \A i \in 1..Len(ranges) : ranges[i] # Suffix(0)
               PROVE  get_partial_many(k, ranges)
                        = [i \in 1..Len(ranges) |-> Slice(zarr[k], ranges[i])]
    BY DEF PartialIsSlice
  <2>1. zarr[k] \in Seq(Nat)
    <3>1. zarr[k] \in Seq(0..255)
      BY ValueAssumption DEF TypeOK
    <3>2. 0..255 \subseteq Nat
      OBVIOUS
    <3> QED
      BY <3>1, <3>2, SeqMonotonic
  <2>2. ranges \in Seq(ByteRange)
    BY RangeAssumption
  <2>3. \A i \in 1..Len(ranges) : Substr(zarr[k], ranges[i]) = Slice(zarr[k], ranges[i])
    BY <2>1, <2>2, SubstrIsSlice
  <2>4. CASE ranges = <<>>
    BY <2>4 DEF get_partial_many
  <2>5. CASE ranges # <<>>
    BY <2>3, <2>5 DEF get_partial_many, list
  <2> QED
    BY <2>4, <2>5
<1> QED
  BY <1>1, TypeInvariant, PTL

-----------------------------------------------------------------------------
(* The library's induction takes an operator; this does not.               *)
LEMMA NatLessWellFounded == IsWellFoundedOn({ss \in Nat \X Nat : ss[1] < ss[2]}, Nat)
<1>1. OpToRel(<, Nat) = {ss \in Nat \X Nat : ss[1] < ss[2]}
  BY Zenon DEF OpToRel
<1> QED
  BY <1>1, NatLessThanWellFounded, Zenon

LEMMA LeastPosition ==
  ASSUME NEW S \in SUBSET Nat, S # {}
  PROVE  \E n \in S : \A m \in S : n <= m
<1> DEFINE R == {ss \in Nat \X Nat : ss[1] < ss[2]}
<1>1. \A U \in SUBSET Nat : U # {} => \E x \in U : \A y \in U : ~(<<y, x>> \in R)
  BY NatLessWellFounded, WFMin, Zenon
<1>2. PICK x \in S : \A y \in S : <<y, x>> \notin R
  BY <1>1
<1>3. \A y \in S : ~(y < x)
  BY <1>2
<1> QED
  BY <1>2, <1>3

(* instr finds the first '/'.                                              *)
LEMMA InstrIsFirst ==
  ASSUME NEW s \in Seq(Nat)
  PROVE  /\ instr(s) \in 0..Len(s)
         /\ instr(s) = 0 => \A i \in 1..Len(s) : s[i] # Slash
         /\ instr(s) > 0 => s[instr(s)] = Slash /\ \A j \in 1..(instr(s) - 1) : s[j] # Slash
<1>1. CASE \A i \in 1..Len(s) : s[i] # Slash
  <2>1. instr(s) = 0
    BY <1>1 DEF instr
  <2> QED
    BY <1>1, <2>1
<1>2. CASE \E i \in 1..Len(s) : s[i] = Slash
  <2> DEFINE S == {i \in 1..Len(s) : s[i] = Slash}
             Earliest(i) == s[i] = Slash /\ \A j \in 1..(i - 1) : s[j] # Slash
  <2>1. PICK n \in S : \A m \in S : n <= m
    <3>1. S \in SUBSET Nat /\ S # {}
      BY <1>2
    <3> HIDE DEF S
    <3> QED
      BY <3>1, LeastPosition
  <2>2. Earliest(n) /\ n \in 1..Len(s)
    <3>1. \A j \in 1..(n - 1) : j \in 1..Len(s) /\ ~(n <= j)
      BY <2>1
    <3> QED
      BY <2>1, <3>1
  <2>3. instr(s) = CHOOSE i \in 1..Len(s) : Earliest(i)
    BY <1>2 DEF instr
  <2> HIDE DEF Earliest
  <2>4. instr(s) \in 1..Len(s) /\ Earliest(instr(s))
    BY <2>2, <2>3
  <2> QED
    BY <2>4 DEF Earliest
<1> QED
  BY <1>1, <1>2

LEMMA InstrFound ==
  ASSUME NEW s \in Seq(Nat), instr(s) > 0
  PROVE  /\ instr(s) \in 1..Len(s) /\ s[instr(s)] = Slash
         /\ \A j \in 1..(instr(s) - 1) : s[j] # Slash
<1>1. /\ instr(s) \in 0..Len(s)
      /\ s[instr(s)] = Slash /\ \A j \in 1..(instr(s) - 1) : s[j] # Slash
  BY InstrIsFirst
<1>2. Len(s) \in Nat
  OBVIOUS
<1> HIDE DEF instr
<1>3. instr(s) \in 1..Len(s)
  BY <1>1, <1>2
<1> QED
  BY <1>1, <1>3

\* q is k up to the first '/' behind p.
Below(k, p, q) ==
  /\ q \in Seq(Nat) /\ Len(q) \in (Len(p) + 1)..(Len(k) - 1)
  /\ \A j \in 1..Len(q) : q[j] = k[j]
  /\ q[Len(q)] = Slash
  /\ \A j \in (Len(p) + 1)..(Len(q) - 1) : q[j] # Slash

LEMMA RestShape ==
  ASSUME NEW k \in Seq(Nat), NEW p \in Seq(Nat), Descendant(k, p)
  PROVE  /\ rest(k, p) \in Seq(Nat) /\ Len(rest(k, p)) = Len(k) - Len(p)
         /\ \A i \in 1..(Len(k) - Len(p)) : rest(k, p)[i] = k[Len(p) + i]
<1> DEFINE a == Len(p) + 1
           b == Len(k)
<1>1. a \in Nat /\ b \in Nat /\ a <= b /\ a >= 1 /\ \A i \in a..b : k[i] \in Nat
  BY DEF Descendant
<1>2. /\ SubSeq(k, a, b) \in Seq(Nat)
      /\ Len(SubSeq(k, a, b)) = IF a <= b THEN b - a + 1 ELSE 0
      /\ \A i \in 1..(b - a + 1) : SubSeq(k, a, b)[i] = k[a + i - 1]
  BY <1>1, SubSeqProperties
<1>3. b - a + 1 = Len(k) - Len(p) /\ \A i \in 1..(Len(k) - Len(p)) : a + i - 1 = Len(p) + i
  OBVIOUS
<1> QED
  BY <1>1, <1>2, <1>3 DEF rest

LEMMA ChildIsBelow ==
  ASSUME NEW k \in Seq(Nat), NEW p \in Seq(Nat), Descendant(k, p), k[Len(k)] # Slash,
         instr(rest(k, p)) > 0
  PROVE  Below(k, p, p \o SubSeq(rest(k, p), 1, instr(rest(k, p))))
<1> DEFINE r == rest(k, p)
           i == instr(rest(k, p))
           c == SubSeq(rest(k, p), 1, instr(rest(k, p)))
           q == p \o c
<1>1. /\ r \in Seq(Nat) /\ Len(r) = Len(k) - Len(p)
      /\ \A j \in 1..(Len(k) - Len(p)) : r[j] = k[Len(p) + j]
  BY RestShape
<1>2. i \in 1..Len(r) /\ r[i] = Slash /\ \A j \in 1..(i - 1) : r[j] # Slash
  <2>1. /\ instr(rest(k, p)) \in 1..Len(rest(k, p))
        /\ rest(k, p)[instr(rest(k, p))] = Slash
        /\ \A j \in 1..(instr(rest(k, p)) - 1) : rest(k, p)[j] # Slash
    BY <1>1, InstrFound, Zenon
  <2> QED
    BY <2>1, Zenon
<1>3. c \in Seq(Nat) /\ Len(c) = i /\ \A j \in 1..i : c[j] = r[j]
  <2> HIDE DEF r, i
  <2>1. i \in Nat /\ 1 <= i /\ \A j \in 1..i : r[j] \in Nat
    <3>1. r \in Seq(Nat) /\ i \in 1..Len(r)
      BY <1>1, <1>2, Zenon
    <3> QED
      BY <3>1
  <2>2. /\ SubSeq(r, 1, i) \in Seq(Nat)
        /\ Len(SubSeq(r, 1, i)) = IF 1 <= i THEN i - 1 + 1 ELSE 0
        /\ \A j \in 1..(i - 1 + 1) : SubSeq(r, 1, i)[j] = r[1 + j - 1]
    BY <2>1, SubSeqProperties
  <2>3. i - 1 + 1 = i /\ \A j \in 1..i : 1 + j - 1 = j
    BY <2>1
  <2> QED
    BY <2>1, <2>2, <2>3 DEF r, i
<1> HIDE DEF r, i, c
<1>4. /\ q \in Seq(Nat) /\ Len(q) = Len(p) + i
      /\ \A j \in 1..Len(p) : q[j] = p[j]
      /\ \A j \in 1..i : q[Len(p) + j] = r[j]
  <2>1. /\ q \in Seq(Nat) /\ Len(q) = Len(p) + Len(c)
        /\ \A j \in 1..(Len(p) + Len(c)) :
             q[j] = IF j <= Len(p) THEN p[j] ELSE c[j - Len(p)]
    BY <1>3, ConcatProperties
  <2> HIDE DEF q
  <2>2. Len(p) \in Nat /\ i \in Nat
    BY <1>1, <1>2
  <2>3. \A j \in 1..i : Len(p) + j \in 1..(Len(p) + i) /\ ~(Len(p) + j <= Len(p))
                       /\ (Len(p) + j) - Len(p) = j
    BY <2>2
  <2>4. \A j \in 1..Len(p) : j \in 1..(Len(p) + i) /\ j <= Len(p)
    BY <2>2
  <2>5. \A j \in 1..Len(p) : q[j] = p[j]
    BY <1>3, <2>1, <2>4
  <2>6. \A j \in 1..i : q[Len(p) + j] = r[j]
    <3> SUFFICES ASSUME NEW j \in 1..i PROVE q[Len(p) + j] = r[j]
      OBVIOUS
    <3>1. q[Len(p) + j] = c[(Len(p) + j) - Len(p)]
      BY <1>3, <2>1, <2>3
    <3>2. (Len(p) + j) - Len(p) = j
      BY <2>2
    <3> QED
      BY <1>3, <3>1, <3>2
  <2> QED
    BY <1>3, <2>1, <2>5, <2>6
<1> HIDE DEF q
<1>5. Len(p) \in Nat /\ Len(k) \in Nat /\ i \in 1..(Len(k) - Len(p))
  <2>1. Len(p) \in Nat /\ Len(k) \in Nat
    BY LenProperties
  <2>2. i \in 1..(Len(k) - Len(p))
    BY <1>1, <1>2, Zenon
  <2> QED
    BY <2>1, <2>2
<1>6. \A j \in 1..Len(q) : q[j] = k[j]
  <2>1. \A j \in 1..Len(p) : q[j] = k[j]
    BY <1>4 DEF Descendant
  <2>2. \A j \in 1..i : q[Len(p) + j] = k[Len(p) + j]
    <3> SUFFICES ASSUME NEW j \in 1..i PROVE q[Len(p) + j] = k[Len(p) + j]
      OBVIOUS
    <3>1. j \in 1..(Len(k) - Len(p))
      BY <1>5
    <3>2. r[j] = k[Len(p) + j] /\ q[Len(p) + j] = r[j]
      BY <1>1, <1>4, <3>1, Zenon
    <3> QED
      BY <3>2
  <2>3. Len(q) = Len(p) + i
    BY <1>4
  <2>4. ASSUME NEW j \in 1..Len(q), j > Len(p) PROVE j - Len(p) \in 1..i /\ Len(p) + (j - Len(p)) = j
    BY <1>5, <2>3, <2>4
  <2>5. ASSUME NEW j \in 1..Len(q), ~(j > Len(p)) PROVE j \in 1..Len(p)
    BY <1>5, <2>3, <2>5
  <2> QED
    BY <2>1, <2>2, <2>4, <2>5, Zenon
<1>7. q[Len(q)] = Slash
  <2>1. i \in 1..i
    BY <1>5
  <2>2. Len(q) = Len(p) + i /\ q[Len(p) + i] = r[i] /\ r[i] = Slash
    BY <1>2, <1>4, <2>1, Zenon
  <2> QED
    BY <2>2
<1>8. \A j \in (Len(p) + 1)..(Len(q) - 1) : q[j] # Slash
  <2> SUFFICES ASSUME NEW j \in (Len(p) + 1)..(Len(q) - 1) PROVE q[j] # Slash
    OBVIOUS
  <2>1. j - Len(p) \in 1..(i - 1) /\ j - Len(p) \in 1..i /\ Len(p) + (j - Len(p)) = j
    BY <1>4, <1>5
  <2> QED
    BY <1>2, <1>4, <2>1
<1>9. Len(q) \in (Len(p) + 1)..(Len(k) - 1)
  <2>1. Len(q) # Len(k)
    <3>1. Len(q) \in 1..Len(q)
      BY <1>4, <1>5
    <3> QED
      BY <1>6, <1>7, <3>1
  <2> QED
    BY <1>4, <1>5, <2>1
<1> QED
  BY <1>4, <1>6, <1>7, <1>8, <1>9 DEF Below, q, c, r, i

LEMMA BelowDescends ==
  ASSUME NEW k \in Seq(Nat), NEW p \in Seq(Nat), Descendant(k, p), NEW q, Below(k, p, q)
  PROVE  Descendant(k, q) /\ Descendant(q, p)
<1>1. Len(p) \in Nat /\ Len(k) \in Nat /\ Len(q) \in (Len(p) + 1)..(Len(k) - 1)
  BY DEF Below
<1>2. \A i \in 1..Len(p) : i \in 1..Len(q)
  BY <1>1
<1> QED
  BY <1>1, <1>2 DEF Below, Descendant

LEMMA BelowEnds ==
  ASSUME NEW k \in Seq(Nat), NEW p \in Seq(Nat), NEW q, Below(k, p, q)
  PROVE  /\ Len(q) \in (Len(p) + 1)..(Len(k) - 1) /\ k[Len(q)] = Slash
         /\ \A j \in (Len(p) + 1)..(Len(q) - 1) : k[j] # Slash
<1>1. Len(p) \in Nat /\ Len(q) \in (Len(p) + 1)..(Len(k) - 1) /\ Len(k) \in Nat
  BY DEF Below
<1>2. Len(q) \in 1..Len(q) /\ \A j \in (Len(p) + 1)..(Len(q) - 1) : j \in 1..Len(q)
  BY <1>1
<1> QED
  BY <1>1, <1>2 DEF Below

LEMMA BelowOther ==
  ASSUME NEW k \in Seq(Nat), NEW p \in Seq(Nat), NEW x \in Seq(Nat), NEW q,
         Below(x, p, q), Descendant(k, q)
  PROVE  Below(k, p, q)
<1>1. Len(p) \in Nat /\ Len(k) \in Nat /\ Len(q) \in Nat /\ Len(q) >= Len(p) + 1 /\ Len(q) < Len(k)
  <2>1. Len(q) \in (Len(p) + 1)..(Len(x) - 1) /\ Len(x) \in Nat /\ Len(p) \in Nat
    BY DEF Below
  <2> QED
    BY <2>1 DEF Descendant
<1>2. Len(q) \in (Len(p) + 1)..(Len(k) - 1)
  BY <1>1
<1> QED
  BY <1>2 DEF Below, Descendant

LEMMA BelowUnique ==
  ASSUME NEW k \in Seq(Nat), NEW p \in Seq(Nat), NEW q, NEW r,
         Below(k, p, q), Below(k, p, r)
  PROVE  r = q
<1>1. /\ Len(p) \in Nat /\ Len(q) \in Nat /\ Len(r) \in Nat
      /\ Len(q) >= Len(p) + 1 /\ Len(r) >= Len(p) + 1
  <2>1. ASSUME NEW x, Below(k, p, x) PROVE Len(x) \in Nat /\ Len(x) >= Len(p) + 1
    <3>1. x \in Seq(Nat) /\ Len(x) \in (Len(p) + 1)..(Len(k) - 1)
      BY <2>1 DEF Below
    <3> QED
      BY <3>1
  <2> QED
    BY <2>1
<1>2. ~(Len(q) < Len(r)) /\ ~(Len(r) < Len(q))
  <2>1. Len(q) < Len(r) => Len(q) \in (Len(p) + 1)..(Len(r) - 1)
    BY <1>1
  <2>2. Len(r) < Len(q) => Len(r) \in (Len(p) + 1)..(Len(q) - 1)
    BY <1>1
  <2>3. /\ k[Len(q)] = Slash /\ \A j \in (Len(p) + 1)..(Len(q) - 1) : k[j] # Slash
        /\ k[Len(r)] = Slash /\ \A j \in (Len(p) + 1)..(Len(r) - 1) : k[j] # Slash
    BY BelowEnds
  <2> QED
    BY <2>1, <2>2, <2>3
<1>3. Len(q) = Len(r)
  BY <1>1, <1>2
<1>4. q \in Seq(Nat) /\ r \in Seq(Nat) /\ \A j \in 1..Len(q) : q[j] = r[j]
  BY <1>3 DEF Below
<1> QED
  BY <1>3, <1>4, SeqEqual

LEMMA DescendantTransitive ==
  ASSUME NEW k \in Seq(Nat), NEW q \in Seq(Nat), NEW p \in Seq(Nat),
         Descendant(k, q), Descendant(q, p)
  PROVE  Descendant(k, p)
<1>1. \A i \in 1..Len(p) : i \in 1..Len(q)
  BY DEF Descendant
<1> QED
  BY <1>1 DEF Descendant

\* The descendants that list_dir sums up in prefixes.
Deeper(p) == {k \in list_prefix(p) : instr(rest(k, p)) > 0}
Child(k, p) == p \o SubSeq(rest(k, p), 1, instr(rest(k, p)))

(* list_dir shows one level of a tree: every descendant itself or below    *)
(* exactly one of the prefixes listed, and no prefix without a descendant. *)
THEOREM ListDirIsALevel == Spec => []ListDirIsOneLevel
<1>1. TypeOK => ListDirIsOneLevel
  <2> SUFFICES ASSUME TypeOK, NEW p \in Prefixes
               PROVE  LET dir == list_dir(p)
                      IN  /\ \A k \in list_prefix(p) :
                               IF k \in dir.keys
                                 THEN \A q \in dir.prefixes : ~Descendant(k, q)
                                 ELSE \E q \in dir.prefixes :
                                        /\ Descendant(k, q)
                                        /\ \A r \in dir.prefixes : Descendant(k, r) => r = q
                          /\ dir.keys \subseteq list_prefix(p)
                          /\ \A q \in dir.prefixes :
                               /\ IsStorePrefix(q) /\ Descendant(q, p)
                               /\ \A i \in (Len(p) + 1)..(Len(q) - 1) : q[i] # Slash
                               /\ list_prefix(q) # {} /\ list_prefix(q) \subseteq list_prefix(p)
    BY DEF ListDirIsOneLevel
  <2> DEFINE dir == list_dir(p)
  <2>1. \A k \in DOMAIN zarr : k \in Seq(Nat) /\ k # <<>> /\ k[1] # Slash /\ k[Len(k)] # Slash
    BY KeyAssumption DEF TypeOK, IsStoreKey
  <2>2. p \in Seq(Nat) /\ IsStorePrefix(p)
    BY StorePrefixAssumption DEF IsStorePrefix
  <2>3. ASSUME NEW q, IsStorePrefix(q)
        PROVE  list_prefix(q) = {k \in DOMAIN zarr : Descendant(k, q)}
    BY <2>1, <2>3, PrefixLists
  <2>4. \A k \in list_prefix(p) : k \in DOMAIN zarr /\ k \in Seq(Nat) /\ Descendant(k, p)
    BY <2>1, <2>2, <2>3
  <2>5. /\ dir.keys = {k \in list_prefix(p) : instr(rest(k, p)) = 0}
        /\ dir.prefixes = {Child(k, p) : k \in Deeper(p)}
    BY DEF list_dir, Deeper, Child
  <2> HIDE DEF dir
  <2>6. \A k \in Deeper(p) : k \in list_prefix(p) /\ Below(k, p, Child(k, p))
    BY <2>1, <2>2, <2>4, ChildIsBelow DEF Deeper, Child
  <2>7. ASSUME NEW k \in list_prefix(p)
        PROVE  IF k \in dir.keys
                 THEN \A q \in dir.prefixes : ~Descendant(k, q)
                 ELSE \E q \in dir.prefixes :
                        /\ Descendant(k, q)
                        /\ \A r \in dir.prefixes : Descendant(k, r) => r = q
    <3>1. ASSUME NEW x \in Seq(Nat), NEW q, Below(x, p, q), Descendant(k, q)
          PROVE  Below(k, p, q)
      BY <2>2, <2>4, <3>1, BelowOther
    <3>2. CASE k \in dir.keys
      <4> SUFFICES ASSUME NEW x \in Deeper(p), Descendant(k, Child(x, p)) PROVE FALSE
        BY <2>5, <3>2
      <4>1. Below(k, p, Child(x, p))
        BY <2>4, <2>6, <3>1
      <4>2. \A i \in 1..(Len(k) - Len(p)) : k[Len(p) + i] # Slash
        <5>1. instr(rest(k, p)) = 0
          BY <2>5, <3>2
        <5>2. /\ rest(k, p) \in Seq(Nat) /\ Len(rest(k, p)) = Len(k) - Len(p)
              /\ \A i \in 1..(Len(k) - Len(p)) : rest(k, p)[i] = k[Len(p) + i]
          BY <2>2, <2>4, RestShape
        <5>3. \A i \in 1..Len(rest(k, p)) : rest(k, p)[i] # Slash
          BY <5>1, <5>2, InstrIsFirst
        <5> QED
          BY <5>2, <5>3
      <4> DEFINE L == Len(Child(x, p))
      <4>3. L \in (Len(p) + 1)..(Len(k) - 1) /\ k[L] = Slash
        BY <2>2, <2>4, <4>1, BelowEnds
      <4> HIDE DEF L
      <4>4. L - Len(p) \in 1..(Len(k) - Len(p)) /\ Len(p) + (L - Len(p)) = L
        BY <2>2, <2>4, <4>3
      <4> QED
        BY <4>2, <4>3, <4>4
    <3>3. CASE k \notin dir.keys
      <4>1. k \in Deeper(p)
        BY <2>2, <2>4, <2>5, <3>3, RestShape, InstrIsFirst DEF Deeper
      <4>2. Below(k, p, Child(k, p)) /\ Child(k, p) \in dir.prefixes
        BY <2>5, <2>6, <4>1
      <4>3. Descendant(k, Child(k, p))
        BY <2>2, <2>4, <4>2, BelowDescends
      <4>4. ASSUME NEW x \in Deeper(p), Descendant(k, Child(x, p))
            PROVE  Child(x, p) = Child(k, p)
        BY <2>2, <2>4, <2>6, <3>1, <4>2, <4>4, BelowUnique
      <4> QED
        BY <2>5, <3>3, <4>2, <4>3, <4>4
    <3> QED
      BY <3>2, <3>3
  <2>8. ASSUME NEW k \in Deeper(p), NEW q, q = Child(k, p)
        PROVE  /\ IsStorePrefix(q) /\ Descendant(q, p)
               /\ \A i \in (Len(p) + 1)..(Len(q) - 1) : q[i] # Slash
               /\ list_prefix(q) # {} /\ list_prefix(q) \subseteq list_prefix(p)
    <3>1. Below(k, p, q) /\ Descendant(k, q) /\ Descendant(q, p) /\ k \in DOMAIN zarr
      BY <2>2, <2>4, <2>6, <2>8, BelowDescends
    <3>2. IsStorePrefix(q)
      <4>1. q \in Seq(Nat) /\ Len(q) >= 1 /\ q[1] = k[1] /\ q[Len(q)] = Slash
        BY <2>2, <3>1 DEF Below
      <4> QED
        BY <2>1, <3>1, <4>1 DEF IsStorePrefix
    <3>3. list_prefix(q) = {x \in DOMAIN zarr : Descendant(x, q)}
      BY <2>3, <3>2
    <3>4. ASSUME NEW x \in DOMAIN zarr, Descendant(x, q) PROVE Descendant(x, p)
      BY <2>1, <2>2, <3>1, <3>2, <3>4, DescendantTransitive DEF IsStorePrefix
    <3> QED
      BY <2>2, <2>3, <3>1, <3>2, <3>3, <3>4 DEF Below
  <2> QED
    BY <2>5, <2>7, <2>8 DEF dir
<1> QED
  BY <1>1, TypeInvariant, PTL

-----------------------------------------------------------------------------
(* A walk through the listings of a store.                                 *)

\* A key is shown by the listing of one prefix only, the one it has up to
\* its last '/'.
LEMMA NoLaterParent ==
  ASSUME NEW k \in Seq(Nat), NEW p \in Seq(Nat), NEW q \in Seq(Nat),
         Descendant(k, p), Descendant(k, q), instr(rest(k, p)) = 0,
         q # <<>> => q[Len(q)] = Slash
  PROVE  ~(Len(p) < Len(q))
<1> SUFFICES ASSUME Len(p) < Len(q) PROVE FALSE
  OBVIOUS
<1>1. Len(p) \in Nat /\ Len(q) \in Nat /\ Len(k) \in Nat /\ Len(q) < Len(k)
  BY DEF Descendant
<1>2. k[Len(q)] = Slash
  <2>1. q # <<>> /\ Len(q) \in 1..Len(q)
    BY <1>1
  <2> QED
    BY <2>1 DEF Descendant
<1>3. /\ rest(k, p) \in Seq(Nat) /\ Len(rest(k, p)) = Len(k) - Len(p)
      /\ \A i \in 1..(Len(k) - Len(p)) : rest(k, p)[i] = k[Len(p) + i]
  BY RestShape
<1>4. \A i \in 1..Len(rest(k, p)) : rest(k, p)[i] # Slash
  BY <1>3, InstrIsFirst
<1>5. Len(q) - Len(p) \in 1..(Len(k) - Len(p)) /\ Len(p) + (Len(q) - Len(p)) = Len(q)
  BY <1>1
<1> QED
  BY <1>2, <1>3, <1>4, <1>5

LEMMA OneParent ==
  ASSUME NEW k \in Seq(Nat), NEW p \in Seq(Nat), NEW q \in Seq(Nat),
         Descendant(k, p), Descendant(k, q),
         instr(rest(k, p)) = 0, instr(rest(k, q)) = 0,
         p # <<>> => p[Len(p)] = Slash, q # <<>> => q[Len(q)] = Slash
  PROVE  p = q
<1>1. ~(Len(p) < Len(q)) /\ ~(Len(q) < Len(p))
  BY NoLaterParent
<1>2. Len(p) \in Nat /\ Len(q) \in Nat
  OBVIOUS
<1>3. Len(p) = Len(q)
  BY <1>1, <1>2
<1>4. \A i \in 1..Len(p) : p[i] = q[i]
  BY <1>3 DEF Descendant
<1> QED
  BY <1>3, <1>4, SeqEqual

\* Of the prefixes in S that k lies below there is a longest one.
LEMMA LongestAbove ==
  ASSUME NEW k \in Seq(Nat), NEW S, S \subseteq Seq(Nat), NEW p \in S, Descendant(k, p)
  PROVE  \E q \in S : Descendant(k, q) /\ \A r \in S : Descendant(k, r) => ~(Len(q) < Len(r))
<1> DEFINE D == {q \in S : Descendant(k, q)}
           N == {Len(k) - Len(q) : q \in D}
<1>1. \A q \in D : Len(q) \in Nat /\ Len(k) \in Nat /\ Len(q) < Len(k)
  BY DEF Descendant
<1> HIDE DEF D
<1>2. N \in SUBSET Nat
  BY <1>1
<1>3. N # {}
  BY DEF D
<1>4. PICK n \in N : \A x \in N : n <= x
  <2> HIDE DEF N
  <2> QED
    BY <1>2, <1>3, LeastPosition
<1>5. PICK q \in D : n = Len(k) - Len(q)
  OBVIOUS
<1>6. ASSUME NEW r \in D PROVE ~(Len(q) < Len(r))
  <2>1. Len(k) - Len(q) <= Len(k) - Len(r)
    BY <1>4, <1>5
  <2> QED
    BY <1>1, <2>1
<1> QED
  BY <1>5, <1>6 DEF D

(* The walk that starts at any prefix and follows every prefix it is shown *)
(* finds every descendant, in exactly one of the listings, for keys and    *)
(* prefixes of any length.                                                 *)
THEOREM WalkFindsAll == Spec => []WalkFindsEachKeyOnce
<1>1. TypeOK /\ ListDirIsOneLevel => WalkFindsEachKeyOnce
  <2> DEFINE shown == UNION {{p} \X list_dir(p).keys : p \in Prefixes}
             below == UNION {{p} \X list_dir(p).prefixes : p \in Prefixes}
  <2> SUFFICES ASSUME TypeOK, ListDirIsOneLevel,
                      NEW p \in Prefixes, NEW S \in SUBSET Prefixes, p \in S,
                      \A e \in below : e[1] \in S => e[2] \in S,
                      NEW k \in list_prefix(p)
               PROVE  \E q \in S : \A r \in S : <<r, k>> \in shown <=> r = q
    BY DEF WalkFindsEachKeyOnce
  <2>1. \A r \in S : <<r, k>> \in shown <=> k \in list_dir(r).keys
    <3> HIDE DEF list_dir
    <3> QED
      OBVIOUS
  <2>2. \A q \in S : list_dir(q).prefixes \subseteq S
    <3> SUFFICES ASSUME NEW q \in S, NEW x \in list_dir(q).prefixes PROVE x \in S
      OBVIOUS
    <3>1. <<q, x>> \in below
      OBVIOUS
    <3> QED
      BY <3>1
  <2> HIDE DEF shown, below
  <2>3. \A x \in DOMAIN zarr : x \in Seq(Nat) /\ x # <<>>
    BY KeyAssumption DEF TypeOK, IsStoreKey
  <2>4. \A q \in Prefixes : /\ q \in Seq(Nat) /\ (q # <<>> => q[Len(q)] = Slash)
                           /\ list_prefix(q) = {x \in DOMAIN zarr : Descendant(x, q)}
    BY <2>3, StorePrefixAssumption, PrefixLists DEF IsStorePrefix
  <2>5. k \in Seq(Nat) /\ k \in DOMAIN zarr /\ Descendant(k, p)
    BY <2>3, <2>4
  <2>6. S \subseteq Seq(Nat)
    BY <2>4
  <2>7. PICK q \in S : /\ Descendant(k, q)
                      /\ \A r \in S : Descendant(k, r) => ~(Len(q) < Len(r))
    BY <2>5, <2>6, LongestAbove
  <2>8. k \in list_prefix(q)
    BY <2>4, <2>5, <2>7
  <2>9. k \in list_dir(q).keys
    <3> SUFFICES ASSUME k \notin list_dir(q).keys PROVE FALSE
      OBVIOUS
    <3>1. PICK x \in list_dir(q).prefixes : Descendant(k, x)
      BY <2>8 DEF ListDirIsOneLevel
    <3>2. Descendant(x, q)
      BY DEF ListDirIsOneLevel
    <3> QED
      BY <2>2, <2>7, <3>1, <3>2 DEF Descendant
  <2>10. ASSUME NEW r \in S, k \in list_dir(r).keys PROVE r = q
    <3>1. k \in list_prefix(r) /\ instr(rest(k, r)) = 0 /\ instr(rest(k, q)) = 0
      BY <2>9, <2>10 DEF list_dir
    <3>2. Descendant(k, r) /\ Descendant(k, q)
      BY <2>4, <2>7, <3>1
    <3> QED
      BY <2>4, <2>5, <3>1, <3>2, OneParent
  <2> QED
    BY <2>1, <2>9, <2>10
<1> QED
  BY <1>1, TypeInvariant, ListDirIsALevel, PTL
=============================================================================
