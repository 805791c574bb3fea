------------------------- MODULE ErasePrefixProofs -------------------------
(***************************************************************************)
(* Proofs about LIKE and about erase_prefix, which uses it, for any store  *)
(* keys and prefixes over any characters.                                  *)
(*                                                                         *)
(* Like is defined by a recursive function, of which TLA+ says only that   *)
(* it satisfies its equation if any function does.  So first comes that    *)
(* one does (HasMatch), by the least number of steps from the end of the   *)
(* pattern for which there is none; the rest follows from the equation.    *)
(***************************************************************************)
EXTENDS QueriesProofs

\* The equation of match in Like, at j.
Step(s, pat, f, j) ==
  IF j > Len(pat) THEN {Len(s) + 1}
  ELSE IF pat[j] = Percent
    THEN {i \in 1..(Len(s) + 1) : \E n \in f[j + 1] : i <= n}
    ELSE {i \in 1..Len(s) :
            /\ pat[j] = Underscore \/ Lower(s[i]) = Lower(pat[j])
            /\ i + 1 \in f[j + 1]}

IsMatch(s, pat, f) == f = [j \in 1..(Len(pat) + 1) |-> Step(s, pat, f, j)]

\* h solves the equation from lo on.
Solves(s, pat, h, lo) ==
  /\ h = [j \in lo..(Len(pat) + 1) |-> h[j]]
  /\ \A j \in lo..(Len(pat) + 1) : h[j] = Step(s, pat, h, j)

-----------------------------------------------------------------------------
(* Induction over the positions of a sequence, up and down, for a set S.   *)
LEMMA Upward ==
  ASSUME NEW n \in Nat, NEW S, 1 \in S, \A j \in 1..n : j \in S => j + 1 \in S
  PROVE  \A j \in 1..(n + 1) : j \in S
<1> DEFINE Missing == {j \in 1..(n + 1) : j \notin S}
<1> SUFFICES ASSUME Missing # {} PROVE FALSE
  OBVIOUS
<1>1. Missing \in SUBSET Nat
  OBVIOUS
<1>2. PICK j \in Missing : \A x \in Missing : j <= x
  <2> HIDE DEF Missing
  <2> QED
    BY <1>1, LeastPosition
<1>3. j \in 2..(n + 1)
  BY <1>2
<1>4. j - 1 \in 1..n /\ j - 1 \in 1..(n + 1) /\ ~(j <= j - 1) /\ (j - 1) + 1 = j
  BY <1>3
<1> QED
  BY <1>2, <1>4

LEMMA Downward ==
  ASSUME NEW n \in Nat, NEW S, n + 1 \in S, \A j \in 1..n : j + 1 \in S => j \in S
  PROVE  1 \in S
<1> DEFINE T == {j \in 1..(n + 1) : n + 2 - j \in S}
<1>1. 1 \in T
  <2>1. n + 2 - 1 = n + 1 /\ 1 \in 1..(n + 1)
    OBVIOUS
  <2> QED
    BY <2>1
<1>2. \A j \in 1..n : j \in T => j + 1 \in T
  <2> SUFFICES ASSUME NEW j \in 1..n, j \in T PROVE j + 1 \in T
    OBVIOUS
  <2>1. /\ n + 1 - j \in 1..n /\ (n + 1 - j) + 1 = n + 2 - j
        /\ n + 2 - (j + 1) = n + 1 - j /\ j + 1 \in 1..(n + 1)
    OBVIOUS
  <2> QED
    BY <2>1
<1>3. n + 1 \in T
  <2> HIDE DEF T
  <2>1. \A j \in 1..(n + 1) : j \in T
    BY <1>1, <1>2, Upward
  <2> QED
    BY <2>1
<1>4. n + 2 - (n + 1) = 1
  OBVIOUS
<1> QED
  BY <1>3, <1>4

-----------------------------------------------------------------------------
(* The recursive function match in the definition of Like exists.          *)
LEMMA HasMatch ==
  ASSUME NEW s \in Seq(Nat), NEW pat \in Seq(Nat)
  PROVE  \E f : IsMatch(s, pat, f)
<1> DEFINE n == Len(pat)
           Good == {lo \in 1..(n + 1) : \E h : Solves(s, pat, h, lo)}
<1>0. n \in Nat
  OBVIOUS
<1>1. \E h : Solves(s, pat, h, n + 1)
  <2> DEFINE h == [j \in (n + 1)..(n + 1) |-> {Len(s) + 1}]
  <2>1. \A j \in (n + 1)..(n + 1) : j > n /\ h[j] = {Len(s) + 1}
    BY <1>0
  <2>2. Solves(s, pat, h, n + 1)
    BY <2>1, Zenon DEF Solves, Step
  <2> QED
    BY <2>2
<1>2. ASSUME NEW lo \in 1..n, \E h : Solves(s, pat, h, lo + 1)
      PROVE  \E h : Solves(s, pat, h, lo)
  <2>1. PICK h : Solves(s, pat, h, lo + 1)
    BY <1>2
  <2> DEFINE g == [j \in lo..(n + 1) |-> IF j = lo THEN Step(s, pat, h, lo) ELSE h[j]]
  <2>2. \A j \in lo..(n + 1) : /\ j <= n => j + 1 \in lo..(n + 1) /\ j + 1 # lo
                               /\ j # lo => j \in (lo + 1)..(n + 1)
    BY <1>0
  <2>3. \A j \in lo..(n + 1) : j <= n => g[j + 1] = h[j + 1]
    BY <2>2
  <2>4. \A j \in lo..(n + 1) : j > n \/ j <= n
    BY <1>0
  <2>5. \A j \in lo..(n + 1) : Step(s, pat, g, j) = Step(s, pat, h, j)
    <3> SUFFICES ASSUME NEW j \in lo..(n + 1) PROVE Step(s, pat, g, j) = Step(s, pat, h, j)
      OBVIOUS
    <3>1. CASE j > n
      BY <3>1 DEF Step
    <3>2. CASE j <= n
      <4>1. g[j + 1] = h[j + 1]
        BY <2>3, <3>2
      <4> HIDE DEF g
      <4> QED
        BY <4>1 DEF Step
    <3> QED
      BY <2>4, <3>1, <3>2
  <2>6. \A j \in lo..(n + 1) : g[j] = Step(s, pat, h, j)
    <3> SUFFICES ASSUME NEW j \in lo..(n + 1) PROVE g[j] = Step(s, pat, h, j)
      OBVIOUS
    <3>1. CASE j = lo
      BY <3>1
    <3>2. CASE j # lo
      BY <2>1, <2>2, <3>2 DEF Solves
    <3> QED
      BY <3>1, <3>2
  <2>7. g = [j \in lo..(n + 1) |-> g[j]]
    OBVIOUS
  <2> HIDE DEF g
  <2>8. Solves(s, pat, g, lo)
    BY <2>5, <2>6, <2>7, Zenon DEF Solves
  <2> QED
    BY <2>8
<1>3. \E h : Solves(s, pat, h, 1)
  <2>1. n + 1 \in Good
    BY <1>0, <1>1
  <2>2. \A j \in 1..n : j + 1 \in Good => j \in Good
    <3> SUFFICES ASSUME NEW j \in 1..n, j + 1 \in Good PROVE j \in Good
      OBVIOUS
    <3>1. j \in 1..(n + 1)
      BY <1>0
    <3> QED
      BY <1>2, <3>1
  <2>3. 1 \in Good
    <3> HIDE DEF Good
    <3> QED
      BY <1>0, <2>1, <2>2, Downward
  <2> QED
    BY <2>3
<1> QED
  BY <1>3, Zenon DEF Solves, IsMatch

(* Like by the equation: the cases of the end of the pattern, of '%' and   *)
(* of another character.                                                   *)
LEMMA LikeByMatch ==
  ASSUME NEW s \in Seq(Nat), NEW pat \in Seq(Nat)
  PROVE  \E f :
           /\ Like(s, pat) <=> 1 \in f[1]
           /\ f[Len(pat) + 1] = {Len(s) + 1}
           /\ \A j \in 1..Len(pat) :
                f[j] = IF pat[j] = Percent
                         THEN {i \in 1..(Len(s) + 1) : \E n \in f[j + 1] : i <= n}
                         ELSE {i \in 1..Len(s) :
                                 /\ pat[j] = Underscore \/ Lower(s[i]) = Lower(pat[j])
                                 /\ i + 1 \in f[j + 1]}
<1>1. \E f : IsMatch(s, pat, f)
  BY HasMatch
<1>2. Like(s, pat) <=> 1 \in (CHOOSE f : IsMatch(s, pat, f))[1]
  BY Zenon DEF Like, IsMatch, Step
<1>3. PICK f : IsMatch(s, pat, f) /\ (Like(s, pat) <=> 1 \in f[1])
  BY <1>1, <1>2, Zenon
<1>4. \A j \in 1..(Len(pat) + 1) : f[j] = Step(s, pat, f, j)
  BY <1>3, Zenon DEF IsMatch
<1>5. Len(pat) \in Nat
  OBVIOUS
<1>6. f[Len(pat) + 1] = {Len(s) + 1}
  <2>1. Len(pat) + 1 \in 1..(Len(pat) + 1) /\ Len(pat) + 1 > Len(pat)
    BY <1>5
  <2> QED
    BY <1>4, <2>1 DEF Step
<1>7. \A j \in 1..Len(pat) : j \in 1..(Len(pat) + 1) /\ ~(j > Len(pat))
  BY <1>5
<1>8. \A j \in 1..Len(pat) :
        f[j] = IF pat[j] = Percent
                 THEN {i \in 1..(Len(s) + 1) : \E n \in f[j + 1] : i <= n}
                 ELSE {i \in 1..Len(s) :
                         /\ pat[j] = Underscore \/ Lower(s[i]) = Lower(pat[j])
                         /\ i + 1 \in f[j + 1]}
  BY <1>4, <1>7, Zenon DEF Step
<1> QED
  BY <1>3, <1>6, <1>8, Zenon

-----------------------------------------------------------------------------
(* prefix || '%' as a pattern.                                             *)
LEMMA PatternShape ==
  ASSUME NEW p \in Seq(Nat)
  PROVE  /\ p \o <<Percent>> \in Seq(Nat)
         /\ Len(p) \in Nat /\ Len(p \o <<Percent>>) = Len(p) + 1
         /\ \A i \in 1..Len(p) : (p \o <<Percent>>)[i] = p[i]
         /\ (p \o <<Percent>>)[Len(p) + 1] = Percent
<1>1. <<Percent>> \in Seq(Nat) /\ Len(<<Percent>>) = 1 /\ <<Percent>>[1] = Percent
  BY DEF Percent
<1> HIDE DEF Percent
<1> QED
  BY <1>1

\* k starts with p, whatever the case of its ASCII letters, and is longer.
DescendantInAnyCase(k, p) ==
  Len(k) > Len(p) /\ \A i \in 1..Len(p) : Lower(k[i]) = Lower(p[i])

\* p has no wildcard of LIKE.
IsLiteral(p) == \A i \in 1..Len(p) : p[i] # Percent /\ p[i] # Underscore

\* s has no upper-case ASCII letter.
IsLowerCase(s) == \A i \in 1..Len(s) : s[i] \notin 65..90

(* What starts with a prefix is like the prefix with '%' behind it: at each *)
(* position, the wildcards of the prefix included, the character matches.   *)
LEMMA DescendantIsLike ==
  ASSUME NEW k \in Seq(Nat), NEW p \in Seq(Nat), DescendantInAnyCase(k, p)
  PROVE  Like(k, p \o <<Percent>>)
<1> DEFINE pat == p \o <<Percent>>
           m == Len(p)
           n == Len(k)
<1>1. /\ pat \in Seq(Nat) /\ m \in Nat /\ Len(pat) = m + 1
      /\ \A i \in 1..m : pat[i] = p[i]
      /\ pat[m + 1] = Percent
  BY PatternShape
<1>2. n \in Nat /\ n > m /\ \A i \in 1..m : Lower(k[i]) = Lower(p[i])
  BY DEF DescendantInAnyCase
<1> HIDE DEF pat
<1>3. PICK f :
        /\ Like(k, pat) <=> 1 \in f[1]
        /\ f[Len(pat) + 1] = {n + 1}
        /\ \A j \in 1..Len(pat) :
             f[j] = IF pat[j] = Percent
                      THEN {i \in 1..(n + 1) : \E x \in f[j + 1] : i <= x}
                      ELSE {i \in 1..n :
                              /\ pat[j] = Underscore \/ Lower(k[i]) = Lower(pat[j])
                              /\ i + 1 \in f[j + 1]}
  BY <1>1, LikeByMatch
<1> HIDE DEF m, n
<1> DEFINE S == {j \in 1..(m + 1) : j \in f[j]}
<1>4. m + 1 \in S
  <2>1. f[m + 1] = {i \in 1..(n + 1) : \E x \in f[(m + 1) + 1] : i <= x}
    <3>1. m + 1 \in 1..Len(pat) /\ pat[m + 1] = Percent
      BY <1>1
    <3> QED
      BY <1>3, <3>1, Zenon
  <2>2. n + 1 \in f[(m + 1) + 1]
    BY <1>1, <1>3
  <2>3. m + 1 \in 1..(n + 1) /\ m + 1 <= n + 1 /\ m + 1 \in 1..(m + 1)
    BY <1>1, <1>2
  <2> QED
    BY <2>1, <2>2, <2>3
<1>5. \A j \in 1..m : j + 1 \in S => j \in S
  <2> SUFFICES ASSUME NEW j \in 1..m, j + 1 \in f[j + 1] PROVE j \in f[j]
    BY <1>1
  <2>1. /\ j \in 1..Len(pat) /\ j \in 1..n /\ j \in 1..(n + 1) /\ j <= j + 1
        /\ Lower(k[j]) = Lower(pat[j])
    BY <1>1, <1>2
  <2>2. CASE pat[j] = Percent
    BY <1>3, <2>1, <2>2
  <2>3. CASE pat[j] # Percent
    BY <1>3, <2>1, <2>3
  <2> QED
    BY <2>2, <2>3
<1>6. 1 \in S
  <2> HIDE DEF S
  <2> QED
    BY <1>1, <1>4, <1>5, Downward
<1> QED
  BY <1>3, <1>6 DEF pat

(* Without wildcards in it, what is like the prefix with '%' behind it     *)
(* starts with the prefix, whatever the case of the letters.               *)
LEMMA LikeStartsWith ==
  ASSUME NEW k \in Seq(Nat), NEW p \in Seq(Nat), IsLiteral(p), Like(k, p \o <<Percent>>)
  PROVE  Len(k) >= Len(p) /\ \A i \in 1..Len(p) : Lower(k[i]) = Lower(p[i])
<1> DEFINE pat == p \o <<Percent>>
           m == Len(p)
           n == Len(k)
<1>1. /\ pat \in Seq(Nat) /\ m \in Nat /\ Len(pat) = m + 1
      /\ \A i \in 1..m : pat[i] = p[i] /\ p[i] # Percent /\ p[i] # Underscore
      /\ pat[m + 1] = Percent
  BY PatternShape DEF IsLiteral
<1>2. n \in Nat /\ Like(k, pat)
  OBVIOUS
<1> HIDE DEF pat
<1>3. PICK f :
        /\ Like(k, pat) <=> 1 \in f[1]
        /\ f[Len(pat) + 1] = {n + 1}
        /\ \A j \in 1..Len(pat) :
             f[j] = IF pat[j] = Percent
                      THEN {i \in 1..(n + 1) : \E x \in f[j + 1] : i <= x}
                      ELSE {i \in 1..n :
                              /\ pat[j] = Underscore \/ Lower(k[i]) = Lower(pat[j])
                              /\ i + 1 \in f[j + 1]}
  BY <1>1, LikeByMatch
<1> HIDE DEF m, n
<1> DEFINE S == {j \in 1..(m + 1) : j \in f[j]}
<1>4. \A j \in 1..m : j \in f[j] => j \in 1..n /\ Lower(k[j]) = Lower(p[j]) /\ j + 1 \in f[j + 1]
  <2> SUFFICES ASSUME NEW j \in 1..m, j \in f[j]
               PROVE  j \in 1..n /\ Lower(k[j]) = Lower(p[j]) /\ j + 1 \in f[j + 1]
    OBVIOUS
  <2>1. j \in 1..Len(pat) /\ pat[j] = p[j] /\ p[j] # Percent /\ p[j] # Underscore
    BY <1>1
  <2>2. f[j] = {i \in 1..n : /\ pat[j] = Underscore \/ Lower(k[i]) = Lower(pat[j])
                             /\ i + 1 \in f[j + 1]}
    BY <1>3, <2>1
  <2> QED
    BY <2>1, <2>2
<1>5. \A j \in 1..(m + 1) : j \in S
  <2>1. 1 \in S
    BY <1>1, <1>2, <1>3
  <2>2. \A j \in 1..m : j \in S => j + 1 \in S
    BY <1>1, <1>4
  <2> HIDE DEF S
  <2> QED
    BY <1>1, <2>1, <2>2, Upward
<1>6. m + 1 \in 1..(n + 1)
  <2>1. m + 1 \in f[m + 1]
    BY <1>1, <1>5
  <2>2. m + 1 \in 1..Len(pat)
    BY <1>1
  <2> QED
    BY <1>1, <1>3, <2>1, <2>2
<1>7. \A j \in 1..m : Lower(k[j]) = Lower(p[j])
  BY <1>1, <1>4, <1>5
<1> QED
  BY <1>1, <1>2, <1>6, <1>7 DEF m, n

(* '/' has no other case; a letter that is not upper-case stays itself.    *)
LEMMA LowerCases ==
  /\ \A c \in Nat : Lower(c) = Lower(47) => c = 47
  /\ \A c : c \notin 65..90 => Lower(c) = c
BY DEF Lower

(* For a key and a prefix without wildcards, LIKE is "starts with" but for *)
(* the case: the '/' at the end of the prefix is no key's last character.  *)
LEMMA LikeIsDescendant ==
  ASSUME NEW k, NEW p, IsStoreKey(k), IsStorePrefix(p), IsLiteral(p)
  PROVE  Like(k, p \o <<Percent>>) <=> DescendantInAnyCase(k, p)
<1>1. k \in Seq(Nat) /\ p \in Seq(Nat) /\ k # <<>> /\ k[Len(k)] # 47
  BY DEF IsStoreKey, IsStorePrefix, Slash
<1>2. DescendantInAnyCase(k, p) => Like(k, p \o <<Percent>>)
  BY <1>1, DescendantIsLike
<1>3. ASSUME Like(k, p \o <<Percent>>) PROVE DescendantInAnyCase(k, p)
  <2>1. Len(k) >= Len(p) /\ \A i \in 1..Len(p) : Lower(k[i]) = Lower(p[i])
    BY <1>1, <1>3, LikeStartsWith
  <2>2. Len(k) # Len(p)
    <3>1. CASE p = <<>>
      BY <1>1, <3>1
    <3>2. CASE p # <<>>
      <4>1. p[Len(p)] = 47 /\ Len(p) \in 1..Len(p)
        BY <1>1, <3>2 DEF IsStorePrefix, Slash
      <4>2. SUFFICES ASSUME Len(k) = Len(p) PROVE FALSE
        OBVIOUS
      <4>3. Lower(k[Len(k)]) = Lower(47) /\ k[Len(k)] \in Nat
        BY <1>1, <2>1, <4>1, <4>2
      <4> QED
        BY <1>1, <4>3, LowerCases
    <3> QED
      BY <3>1, <3>2
  <2> QED
    BY <1>1, <2>1, <2>2 DEF DescendantInAnyCase
<1> QED
  BY <1>2, <1>3

LEMMA OneCase ==
  ASSUME NEW k, NEW p, IsStoreKey(k), IsStorePrefix(p), IsLowerCase(k), IsLowerCase(p)
  PROVE  DescendantInAnyCase(k, p) <=> Descendant(k, p)
<1>1. Len(k) \in Nat /\ Len(p) \in Nat
  BY DEF IsStoreKey, IsStorePrefix
<1>2. ASSUME Len(k) > Len(p), NEW i \in 1..Len(p) PROVE Lower(k[i]) = k[i] /\ Lower(p[i]) = p[i]
  <2>1. i \in 1..Len(k)
    BY <1>1, <1>2
  <2>2. k[i] \notin 65..90 /\ p[i] \notin 65..90
    BY <2>1 DEF IsLowerCase
  <2> QED
    BY <2>2, LowerCases
<1> QED
  BY <1>2 DEF Descendant, DescendantInAnyCase

-----------------------------------------------------------------------------
(* erase_prefix clears the prefix: for any keys and prefixes, with any     *)
(* wildcards and letters in them, the LIKE of its statement matches every  *)
(* descendant.                                                             *)
THEOREM ErasePrefixClearsAll == Spec => []ErasePrefixClears
<1>1. TypeOK => ErasePrefixClears
  <2> SUFFICES ASSUME TypeOK, NEW p \in Prefixes, NEW k \in DOMAIN zarr, Descendant(k, p)
               PROVE  Like(k, p \o <<Percent>>)
    BY DEF ErasePrefixClears, Erased
  <2>1. k \in Seq(Nat) /\ p \in Seq(Nat)
    BY KeyAssumption, StorePrefixAssumption DEF TypeOK, IsStoreKey, IsStorePrefix
  <2>2. DescendantInAnyCase(k, p)
    BY DEF Descendant, DescendantInAnyCase
  <2> QED
    BY <2>1, <2>2, DescendantIsLike
<1> QED
  BY <1>1, TypeInvariant, PTL

(* What else erase_prefix erases: with a prefix that has neither '%' nor   *)
(* '_', exactly the keys that start with it in any case.                   *)
THEOREM ErasePrefixIgnoresCase ==
  Spec => [](\A p \in Prefixes :
               IsLiteral(p) => Erased(p) = {k \in DOMAIN zarr : DescendantInAnyCase(k, p)})
<1> DEFINE Inv == \A p \in Prefixes :
             IsLiteral(p) => Erased(p) = {k \in DOMAIN zarr : DescendantInAnyCase(k, p)}
<1>1. TypeOK => Inv
  <2> SUFFICES ASSUME TypeOK, NEW p \in Prefixes, IsLiteral(p), NEW k \in DOMAIN zarr
               PROVE  Like(k, p \o <<Percent>>) <=> DescendantInAnyCase(k, p)
    BY DEF Erased
  <2>1. IsStoreKey(k) /\ IsStorePrefix(p)
    BY KeyAssumption, StorePrefixAssumption DEF TypeOK
  <2> QED
    BY <2>1, LikeIsDescendant
<1> QED
  BY <1>1, TypeInvariant, PTL

(* The keys and prefixes for which erase_prefix does what the test at      *)
(* rusqlite_store.rs:538-539 says of it: no '%' and no '_' in a prefix, no *)
(* upper-case letter in either.                                            *)
THEOREM ErasePrefixIsExact ==
  ASSUME \A p \in Prefixes : IsLiteral(p) /\ IsLowerCase(p),
         \A k \in Keys : IsLowerCase(k)
  PROVE  Spec => []ErasePrefixKeepsOthers
<1>1. TypeOK => ErasePrefixKeepsOthers
  <2> SUFFICES ASSUME TypeOK, NEW p \in Prefixes, NEW k \in DOMAIN zarr,
                      Like(k, p \o <<Percent>>)
               PROVE  Descendant(k, p)
    BY DEF ErasePrefixKeepsOthers, Erased
  <2>1. IsStoreKey(k) /\ IsStorePrefix(p) /\ IsLiteral(p) /\ IsLowerCase(p) /\ IsLowerCase(k)
    BY KeyAssumption, StorePrefixAssumption DEF TypeOK
  <2>2. DescendantInAnyCase(k, p)
    BY <2>1, LikeIsDescendant
  <2> QED
    BY <2>1, <2>2, OneCase
<1> QED
  BY <1>1, TypeInvariant, PTL
=============================================================================
