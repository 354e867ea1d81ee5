--------------------------- MODULE SequenceLemmas ---------------------------
(***************************************************************************)
(* Facts about numbers and sequences that the proofs of several modules    *)
(* share.                                                                  *)
(***************************************************************************)
EXTENDS Integers, Sequences, SequencesExt, FiniteSets, FiniteSetTheorems, TLAPS,
        WellFoundedInduction

\* A non-empty set of naturals has a least element.
LEMMA LeastExists ==
  ASSUME NEW S \in SUBSET Nat, S # {}
  PROVE  \E x \in S : \A y \in S : x <= y
<1>1. IsWellFoundedOn(OpToRel(<, Nat), Nat)
  BY NatLessThanWellFounded
<1>2. PICK x \in S : \A y \in S : ~ (<<y, x>> \in OpToRel(<, Nat))
  BY <1>1, WFMin
<1>3. \A y \in S : ~ (y < x)
  BY <1>2 DEF OpToRel
<1>4. QED BY <1>3

\* Min, which SelectInSeq uses, picks an index of the set it is given.
LEMMA MinIsMember ==
  ASSUME NEW n \in Nat, NEW S \in SUBSET (1..n)
  PROVE  S # {} => Min(S) \in S
<1>1. S \in SUBSET Nat
  OBVIOUS
<1>2. S # {} => \E x \in S : \A y \in S : x <= y
  BY <1>1, LeastExists
<1>3. QED BY <1>2 DEF Min

\* vector::erase: the elements before the erased one stay, the others move down.
LEMMA RemoveAtProperties ==
  ASSUME NEW R, NEW s \in Seq(R), NEW i \in 1..Len(s)
  PROVE /\ RemoveAt(s, i) \in Seq(R)
        /\ Len(RemoveAt(s, i)) = Len(s) - 1
        /\ \A j \in 1..Len(s)-1 : RemoveAt(s,i)[j] = IF j < i THEN s[j] ELSE s[j+1]
<1> DEFINE a == SubSeq(s, 1, i-1)
           b == SubSeq(s, i+1, Len(s))
<1>1. a \in Seq(R) /\ Len(a) = i-1 /\ \A j \in 1..i-1 : a[j] = s[j]
  OBVIOUS
<1>2. b \in Seq(R) /\ Len(b) = Len(s)-i /\ \A j \in 1..Len(s)-i : b[j] = s[j+i]
  OBVIOUS
<1>3. RemoveAt(s,i) = a \o b BY DEF RemoveAt
<1> HIDE DEF a, b
<1>4. a \o b \in Seq(R) /\ Len(a \o b) = Len(s)-1 BY <1>1, <1>2
<1>5. \A j \in 1..Len(s)-1 : (a \o b)[j] = IF j < i THEN a[j] ELSE b[j-(i-1)]
  BY <1>1, <1>2
<1>6. QED BY <1>1, <1>2, <1>3, <1>4, <1>5

\* What is left of a sequence without one element.
LEMMA RemoveAtRest ==
  ASSUME NEW R, NEW s \in Seq(R), NEW i \in 1..Len(s)
  PROVE  LET t == RemoveAt(s, i)
         IN  /\ t \in Seq(R)
             /\ \A j \in 1..Len(t) : \E k \in 1..Len(s) : k # i /\ t[j] = s[k]
             /\ \A k \in 1..Len(s) : k # i => \E j \in 1..Len(t) : t[j] = s[k]
<1> DEFINE t == RemoveAt(s, i)
<1>0. Len(s) \in Nat
  OBVIOUS
<1>1. /\ t \in Seq(R) /\ Len(t) = Len(s) - 1
      /\ \A j \in 1..Len(s)-1 : t[j] = IF j < i THEN s[j] ELSE s[j + 1]
  BY RemoveAtProperties, Zenon
<1> HIDE DEF t
<1>2. \A j \in 1..Len(t) : \E k \in 1..Len(s) : k # i /\ t[j] = s[k]
  <2>1. SUFFICES ASSUME NEW j \in 1..Len(t) PROVE \E k \in 1..Len(s) : k # i /\ t[j] = s[k]
    OBVIOUS
  <2>2. j < i => j \in 1..Len(s) /\ j # i /\ t[j] = s[j]
    BY <1>0, <1>1
  <2>3. ~ j < i => j + 1 \in 1..Len(s) /\ j + 1 # i /\ t[j] = s[j + 1]
    BY <1>0, <1>1
  <2>4. QED BY <2>2, <2>3
<1>3. \A k \in 1..Len(s) : k # i => \E j \in 1..Len(t) : t[j] = s[k]
  <2>1. SUFFICES ASSUME NEW k \in 1..Len(s), k # i PROVE \E j \in 1..Len(t) : t[j] = s[k]
    OBVIOUS
  <2>2. CASE k < i
    <3>1. k \in 1..Len(t) /\ t[k] = s[k]
      BY <1>0, <1>1, <2>2
    <3>2. QED BY <3>1
  <2>3. CASE k > i
    <3>1. k - 1 \in 1..Len(t) /\ t[k - 1] = s[(k - 1) + 1] /\ (k - 1) + 1 = k
      BY <1>0, <1>1, <2>3
    <3>2. QED BY <3>1
  <2>4. QED BY <1>0, <2>1, <2>2, <2>3
<1>4. QED BY <1>1, <1>2, <1>3 DEF t

\* Overwriting an element of a sequence keeps its type and its length.
LEMMA UpdateType ==
  ASSUME NEW R, NEW s \in Seq(R), NEW k \in 1..Len(s), NEW e \in R
  PROVE  [s EXCEPT ![k] = e] \in Seq(R) /\ Len([s EXCEPT ![k] = e]) = Len(s)
OBVIOUS

\* Length and elements of a concatenation.
LEMMA ConcatElements ==
  ASSUME NEW R, NEW q \in Seq(R), NEW r \in Seq(R)
  PROVE  /\ q \o r \in Seq(R) /\ Len(q) \in Nat /\ Len(r) \in Nat
         /\ Len(q \o r) = Len(q) + Len(r)
         /\ \A n \in 1..Len(q) : (q \o r)[n] = q[n]
         /\ \A n \in 1..Len(r) : (q \o r)[Len(q) + n] = r[n]
OBVIOUS

\* A sequence that begins as q does, followed by others.
LEMMA PrefixConcat ==
  ASSUME NEW R, NEW q \in Seq(R), NEW n \in 0..Len(q), NEW r \in Seq(R),
         NEW p \in Seq(R), Len(p) = n, \A m \in 1..n : p[m] = q[m]
  PROVE  /\ p \o r \in Seq(R) /\ Len(p \o r) = n + Len(r) /\ Len(r) \in Nat
         /\ \A m \in 1..n : m \in 1..Len(p \o r) /\ m \in 1..Len(q) /\ (p \o r)[m] = q[m]
         /\ \A m \in 1..Len(p \o r) :
              m \in 1..n \/ (m - n \in 1..Len(r) /\ (p \o r)[m] = r[m - n])
OBVIOUS

\* The first n elements of a sequence, followed by others.
LEMMA PrefixThen ==
  ASSUME NEW R, NEW q \in Seq(R), NEW n \in 0..Len(q), NEW r \in Seq(R)
  PROVE  LET v == SubSeq(q, 1, n) \o r
         IN  /\ v \in Seq(R) /\ Len(v) = n + Len(r) /\ Len(r) \in Nat
             /\ \A m \in 1..n : m \in 1..Len(v) /\ m \in 1..Len(q) /\ v[m] = q[m]
             /\ \A m \in 1..Len(v) : m \in 1..n \/ (m - n \in 1..Len(r) /\ v[m] = r[m - n])
<1> DEFINE p == SubSeq(q, 1, n)
<1>1. p \in Seq(R) /\ Len(p) = n /\ \A m \in 1..n : p[m] = q[m]
  OBVIOUS
<1> HIDE DEF p
<1>2. /\ p \o r \in Seq(R) /\ Len(p \o r) = n + Len(r) /\ Len(r) \in Nat
      /\ \A m \in 1..n : m \in 1..Len(p \o r) /\ m \in 1..Len(q) /\ (p \o r)[m] = q[m]
      /\ \A m \in 1..Len(p \o r) :
           m \in 1..n \/ (m - n \in 1..Len(r) /\ (p \o r)[m] = r[m - n])
  BY <1>1, SMT
<1>3. QED BY <1>2 DEF p

\* Two sequences of one element make a pair.
LEMMA PairOfTwo ==
  ASSUME NEW R, NEW a \in R, NEW b \in R
  PROVE  <<>> \o <<a>> \o <<b>> = <<a, b>>
<1>1. <<>> \o <<a>> = <<a>> /\ <<a>> \in Seq(R)
  OBVIOUS
<1>2. Append(<<a>>, b) = <<a>> \o <<b>>
  BY <1>1
<1>3. ASSUME NEW t \in Seq(R), Len(t) = 2 PROVE t = <<t[1], t[2]>>
  BY <1>3
<1>4. Append(<<a>>, b) \in Seq(R) /\ Len(Append(<<a>>, b)) = 2
      /\ Append(<<a>>, b)[1] = a /\ Append(<<a>>, b)[2] = b
  OBVIOUS
<1>5. QED BY <1>1, <1>2, <1>3, <1>4

-----------------------------------------------------------------------------
(* Counting the elements of a sequence that belong to a set *)

\* How many elements of a sequence belong to a set.
Positions(q, S) == {n \in 1..Len(q) : q[n] \in S}
Count(q, S)  == Cardinality(Positions(q, S))

\* A count is a natural number, and not zero if there is such an element.
LEMMA CountType ==
  ASSUME NEW R, NEW q \in Seq(R), NEW S
  PROVE  /\ IsFiniteSet(Positions(q, S)) /\ Count(q, S) \in Nat
         /\ Count(q, S) = 0 <=> \A n \in 1..Len(q) : q[n] \notin S
<1>1. IsFiniteSet(1..Len(q))
  BY FS_Interval
<1>2. IsFiniteSet(Positions(q, S))
  BY <1>1, FS_Subset DEF Positions
<1>3. Count(q, S) \in Nat /\ (Count(q, S) = 0 <=> Positions(q, S) = {})
  BY <1>2, FS_CardinalityType, FS_EmptySet DEF Count
<1>4. QED BY <1>2, <1>3 DEF Positions

\* Counts add up when sequences are put one after the other.
LEMMA CountConcat ==
  ASSUME NEW R, NEW q \in Seq(R), NEW r \in Seq(R), NEW S
  PROVE  Count(q \o r, S) = Count(q, S) + Count(r, S)
<1> DEFINE A == Positions(q, S)
           B == Positions(r, S)
           C == {n \in Len(q)+1..Len(q)+Len(r) : r[n - Len(q)] \in S}
           f == [n \in B |-> Len(q) + n]
<1>1. /\ Len(q) \in Nat /\ Len(r) \in Nat /\ Len(q \o r) = Len(q) + Len(r)
      /\ \A n \in 1..Len(q) : (q \o r)[n] = q[n]
      /\ \A n \in Len(q)+1..Len(q)+Len(r) : (q \o r)[n] = r[n - Len(q)]
  OBVIOUS
<1>2. Positions(q \o r, S) = A \cup C
  BY <1>1 DEF Positions
<1>3. A \cap C = {}
  BY <1>1 DEF Positions
<1>4. IsFiniteSet(A) /\ IsFiniteSet(B) /\ Cardinality(A) \in Nat /\ Cardinality(B) \in Nat
  BY CountType DEF Count
<1>5. f \in Bijection(B, C)
  <2>1. \A n \in B : Len(q) + n \in C
    BY <1>1 DEF Positions
  <2>2. \A m, n \in B : Len(q) + m = Len(q) + n => m = n
    BY <1>1 DEF Positions
  <2>3. \A c \in C : c - Len(q) \in B /\ Len(q) + (c - Len(q)) = c
    BY <1>1 DEF Positions
  <2> HIDE DEF B, C
  <2>4. f \in [B -> C] /\ \A m, n \in B : f[m] = f[n] => m = n
    BY <2>1, <2>2
  <2>5. \A c \in C : \E n \in B : f[n] = c
    BY <2>3
  <2> HIDE DEF f
  <2>6. QED BY <2>4, <2>5 DEF Bijection, Injection, Surjection, IsInjective
<1> HIDE DEF A, B, C, f
<1>6. IsFiniteSet(C) /\ Cardinality(C) = Cardinality(B)
  <2>1. ExistsBijection(B, C)
    BY <1>5 DEF ExistsBijection
  <2>2. QED BY <1>4, <2>1, FS_Bijection
<1>7. Cardinality(A \cup C) = Cardinality(A) + Cardinality(C) - Cardinality(A \cap C)
  BY <1>4, <1>6, FS_Union
<1>8. Cardinality(A \cap C) = 0
  BY <1>3, FS_EmptySet
<1>9. Cardinality(A \cup C) = Cardinality(A) + Cardinality(B)
  BY <1>4, <1>6, <1>7, <1>8
<1>10. QED BY <1>2, <1>9 DEF Count, A, B

\* One element counts once or not at all.
LEMMA CountOne ==
  ASSUME NEW m, NEW S
  PROVE  Count(<<m>>, S) = IF m \in S THEN 1 ELSE 0
<1>1. Positions(<<m>>, S) = IF m \in S THEN {1} ELSE {}
  BY DEF Positions
<1>2. Cardinality({1}) = 1 /\ Cardinality({}) = 0
  BY FS_Singleton, FS_EmptySet
<1>3. QED BY <1>1, <1>2 DEF Count

\* push_back counts its element.
LEMMA CountAppend ==
  ASSUME NEW R, NEW q \in Seq(R), NEW m \in R, NEW S
  PROVE  Count(Append(q, m), S) = Count(q, S) + IF m \in S THEN 1 ELSE 0
<1> DEFINE one == <<m>>
<1>1. Append(q, m) = q \o one /\ one \in Seq(R)
  OBVIOUS
<1>2. Count(one, S) = IF m \in S THEN 1 ELSE 0
  BY CountOne
<1> HIDE DEF one
<1>3. Count(q \o one, S) = Count(q, S) + Count(one, S)
  BY <1>1, CountConcat
<1>4. QED BY <1>1, <1>2, <1>3

\* Taking the first element takes it from the count.
LEMMA CountTail ==
  ASSUME NEW R, NEW q \in Seq(R), q # <<>>, NEW S
  PROVE  Count(q, S) = Count(Tail(q), S) + IF Head(q) \in S THEN 1 ELSE 0
<1> DEFINE one == <<Head(q)>>
<1>1. q = one \o Tail(q) /\ one \in Seq(R) /\ Tail(q) \in Seq(R)
  OBVIOUS
<1>2. Count(Tail(q), S) \in Nat
  BY <1>1, CountType
<1>3. Count(one, S) = IF Head(q) \in S THEN 1 ELSE 0
  BY CountOne
<1> HIDE DEF one
<1>4. Count(one \o Tail(q), S) = Count(one, S) + Count(Tail(q), S)
  BY <1>1, CountConcat
<1>5. Count(q, S) = Count(one \o Tail(q), S)
  BY <1>1, Zenon
<1>6. QED BY <1>2, <1>3, <1>4, <1>5

\* Sequences that are alike count alike.
LEMMA CountAlike ==
  ASSUME NEW q, NEW r, Len(q) = Len(r), NEW S, NEW U,
         \A n \in 1..Len(q) : q[n] \in S <=> r[n] \in U
  PROVE  Count(q, S) = Count(r, U)
<1>1. Positions(q, S) = Positions(r, U)
  BY DEF Positions
<1>2. QED BY <1>1 DEF Count

\* vector::erase takes its element from the count.
LEMMA CountRemoveAt ==
  ASSUME NEW R, NEW q \in Seq(R), NEW i \in 1..Len(q), NEW S
  PROVE  Count(q, S) = Count(RemoveAt(q, i), S) + IF q[i] \in S THEN 1 ELSE 0
<1> DEFINE a == SubSeq(q, 1, i-1)
           b == SubSeq(q, i+1, Len(q))
           m == <<q[i]>>
<1>1. a \in Seq(R) /\ b \in Seq(R) /\ m \in Seq(R) /\ RemoveAt(q, i) = a \o b
  BY DEF RemoveAt
<1>2. Count(q, S) = Count((a \o m) \o b, S)
  <2>1. /\ Len(a) = i - 1 /\ \A n \in 1..i-1 : a[n] = q[n]
        /\ Len(m) = 1 /\ m[1] = q[i]
        /\ Len(b) = Len(q) - i /\ \A n \in 1..Len(q)-i : b[n] = q[n + i]
    OBVIOUS
  <2> DEFINE c == a \o m
             d == c \o b
  <2> HIDE DEF a, b, m
  <2>2. /\ c \in Seq(R) /\ Len(c) = Len(a) + Len(m)
        /\ \A n \in 1..Len(c) : c[n] = IF n <= Len(a) THEN a[n] ELSE m[n - Len(a)]
    BY <1>1
  <2> HIDE DEF c
  <2>3. Len(c) = i /\ \A n \in 1..i : c[n] = q[n]
    <3>1. Len(c) = i /\ i \in Nat
      BY <2>1, <2>2
    <3>2. SUFFICES ASSUME NEW n \in 1..i PROVE c[n] = q[n]
      BY <3>1
    <3>3. CASE n = i
      BY <2>1, <2>2, <3>1, <3>3
    <3>4. CASE n < i
      BY <2>1, <2>2, <3>1, <3>4
    <3>5. QED BY <3>1, <3>3, <3>4
  <2>3a. c \in Seq(R)
    BY <2>2
  <2>4. /\ Len(d) = Len(c) + Len(b)
        /\ \A n \in 1..Len(d) : d[n] = IF n <= Len(c) THEN c[n] ELSE b[n - Len(c)]
    BY <1>1, <2>3a
  <2> HIDE DEF d
  <2>5. Len(d) = Len(q) /\ \A n \in 1..Len(q) : d[n] = q[n]
    <3>1. Len(d) = Len(q)
      BY <2>1, <2>3, <2>4
    <3>2. SUFFICES ASSUME NEW n \in 1..Len(q) PROVE d[n] = q[n]
      BY <3>1
    <3>3. CASE n <= i
      BY <2>3, <2>4, <3>1, <3>3
    <3>4. CASE n > i
      <4>1. n - i \in 1..Len(q)-i /\ d[n] = b[n - i]
        BY <2>3, <2>4, <3>1, <3>4
      <4>2. b[n - i] = q[(n - i) + i]
        BY <2>1, <4>1
      <4>3. QED BY <4>1, <4>2
    <3>5. QED BY <3>3, <3>4
  <2>6. Count(q, S) = Count(d, S)
    BY <2>5, CountAlike
  <2>7. QED BY <2>6 DEF c, d
<1> HIDE DEF a, b, m
<1>3. /\ Count((a \o m) \o b, S) = Count(a \o m, S) + Count(b, S)
      /\ Count(a \o m, S) = Count(a, S) + Count(m, S)
      /\ Count(a \o b, S) = Count(a, S) + Count(b, S)
  <2> DEFINE c == a \o m
  <2>1. c \in Seq(R)
    BY <1>1
  <2>2. Count(c, S) = Count(a, S) + Count(m, S)
    BY <1>1, CountConcat
  <2>3. Count(a \o b, S) = Count(a, S) + Count(b, S)
    BY <1>1, CountConcat
  <2> HIDE DEF c
  <2>4. Count(c \o b, S) = Count(c, S) + Count(b, S)
    BY <1>1, <2>1, CountConcat
  <2>5. QED BY <2>2, <2>3, <2>4 DEF c
<1>4. Count(a, S) \in Nat /\ Count(b, S) \in Nat /\ Count(m, S) = IF q[i] \in S THEN 1 ELSE 0
  BY <1>1, CountType, CountOne DEF m
<1>5. QED BY <1>1, <1>2, <1>3, <1>4
=============================================================================
