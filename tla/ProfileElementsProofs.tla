----------------------- MODULE ProfileElementsProofs -----------------------
(***************************************************************************)
(* Proofs about ProfileElements: profiles with any PEs, and any number of  *)
(* edits and sessions.                                                     *)
(***************************************************************************)
EXTENDS ProfileElements, SequenceTheorems, FiniteSetTheorems, WellFoundedInduction, TLAPS

-----------------------------------------------------------------------------
(* Induction over the naturals, in a first-order form                       *)

\* A set of numbers with 0 that is closed under successors has all of them.
LEMMA SetInduction ==
  ASSUME NEW S, 0 \in S, \A n \in Nat : n \in S => n + 1 \in S
  PROVE  Nat \subseteq S
<1> DEFINE T == Nat \ S
           R == {ss \in Nat \X Nat : ss[1] < ss[2]}
<1> SUFFICES ASSUME T # {} PROVE FALSE   OBVIOUS
<1>0. IsWellFoundedOn(R, Nat)   BY NatLessThanWellFounded DEF OpToRel
<1>a. T \subseteq Nat   OBVIOUS
<1> HIDE DEF R, T
<1>1. PICK x \in T : \A y \in T : ~ (<<y, x>> \in R)   BY <1>0, <1>a, WFMin
<1>2. x \in Nat /\ x # 0 /\ x \notin S   BY <1>a DEF T
<1>3. x - 1 \in Nat /\ x = (x - 1) + 1   BY <1>2
<1>4. x - 1 \in T   BY <1>2, <1>3 DEF T
<1>5. <<x - 1, x>> \in R   BY <1>2, <1>3 DEF R
<1> QED BY <1>1, <1>4, <1>5

\* The same up to a number N.
LEMMA UpTo ==
  ASSUME NEW N \in Nat, NEW S, 0 \in S, \A n \in 0 .. N - 1 : n \in S => n + 1 \in S
  PROVE  0 .. N \subseteq S
<1> DEFINE T == {n \in Nat : n > N \/ n \in S}
<1>1. 0 \in T   OBVIOUS
<1>2. \A n \in Nat : n \in T => n + 1 \in T   OBVIOUS
<1>3. Nat \subseteq T
  <2> HIDE DEF T
  <2> QED BY <1>1, <1>2, SetInduction
<1> QED BY <1>3

\* A set of numbers that is not empty has a least one.
LEMMA LeastOf ==
  ASSUME NEW T, T \subseteq Nat, T # {}
  PROVE  \E x \in T : \A y \in T : x <= y
<1> DEFINE R == {ss \in Nat \X Nat : ss[1] < ss[2]}
<1>0. IsWellFoundedOn(R, Nat)   BY NatLessThanWellFounded DEF OpToRel
<1> HIDE DEF R
<1>1. PICK x \in T : \A y \in T : ~ (<<y, x>> \in R)   BY <1>0, WFMin
<1>2. \A y \in T : y \in Nat /\ x \in Nat /\ ~ (y < x)   BY <1>1 DEF R
<1> QED BY <1>2

Steps(N, X) == [(1 .. N) \X X -> X]

Iterates(f, x0, step, N) == f[0] = x0 /\ \A k \in 1 .. N : f[k] = step[<<k, f[k - 1]>>]

\* A function defined by recursion on 0 .. N stays in a set that each of its
\* steps maps into itself.
LEMMA Recursion ==
  ASSUME NEW X, NEW x0 \in X, NEW N \in Nat, NEW step \in Steps(N, X)
  PROVE  \E f \in [0 .. N -> X] : Iterates(f, x0, step, N)
<1> step \in [(1 .. N) \X X -> X]   BY DEF Steps
<1> DEFINE Upto(f, n) == f[0] = x0 /\ \A k \in 1 .. n : f[k] = step[<<k, f[k - 1]>>]
           S == {n \in Nat : \E f \in [0 .. N -> X] : Upto(f, n)}
<1>1. 0 \in S
  <2>1. [k \in 0 .. N |-> x0] \in [0 .. N -> X] /\ Upto([k \in 0 .. N |-> x0], 0)   OBVIOUS
  <2> HIDE DEF Upto
  <2> QED BY <2>1
<1>2. ASSUME NEW n \in 0 .. N - 1, n \in S PROVE n + 1 \in S
  <2>1. PICK f \in [0 .. N -> X] : Upto(f, n)   BY <1>2
  <2>2. n \in 0 .. N /\ n + 1 \in 1 .. N /\ n + 1 \in 0 .. N /\ n + 1 # 0 /\ n + 1 - 1 = n
    OBVIOUS
  <2>3. step[<<n + 1, f[n]>>] \in X   BY <2>2
  <2> DEFINE g == [f EXCEPT ![n + 1] = step[<<n + 1, f[n]>>]]
  <2>4. g \in [0 .. N -> X]   BY <2>2, <2>3
  <2>5. g[n + 1] = step[<<n + 1, g[n + 1 - 1]>>]   BY <2>2
  <2>6. \A k \in 1 .. n : g[k] = f[k] /\ g[k - 1] = f[k - 1]   BY <2>2
  <2>7. \A k \in 1 .. n : f[k] = step[<<k, f[k - 1]>>]   BY <2>1
  <2>8. g[0] = x0   BY <2>1, <2>2
  <2>9. \A k \in 1 .. n + 1 : k \in 1 .. n \/ k = n + 1   OBVIOUS
  <2> HIDE DEF g
  <2>10. \A k \in 1 .. n + 1 : g[k] = step[<<k, g[k - 1]>>]
    <3> TAKE k \in 1 .. n + 1
    <3>1. CASE k \in 1 .. n   BY <2>6, <2>7, <3>1
    <3>2. CASE k = n + 1   BY <2>5, <3>2
    <3> QED BY <2>9, <3>1, <3>2
  <2>11. Upto(g, n + 1)   BY <2>8, <2>10
  <2> HIDE DEF Upto
  <2> QED BY <2>2, <2>4, <2>11
<1>3. 0 .. N \subseteq S
  <2> HIDE DEF S
  <2> QED BY <1>1, <1>2, UpTo
<1>4. N \in S
  <2> HIDE DEF S
  <2> QED BY <1>3
<1> QED BY <1>4 DEF Iterates

-----------------------------------------------------------------------------
(* Sublists                                                                  *)

\* s consists of the elements of t at the positions of I, in their order: h
\* says where in t each of them stands.
Embedded(h, s, t, I) ==
  /\ h \in [1 .. Len(s) -> I]
  /\ \A i, j \in 1 .. Len(s) : i < j => h[i] < h[j]
  /\ \A k \in I : \E i \in 1 .. Len(s) : h[i] = k

SublistAt(s, t, I) == \E h : Embedded(h, s, t, I) /\ \A i \in 1 .. Len(s) : s[i] = t[h[i]]

\* Python's list comprehension with a condition, of a prefix and the element
\* behind it.
LEMMA SublistGrows ==
  ASSUME NEW S, NEW t \in Seq(S), NEW I, NEW n \in 0 .. Len(t) - 1,
         NEW s \in Seq(S), SublistAt(s, t, I \cap 1 .. n)
  PROVE  SublistAt(IF n + 1 \in I THEN Append(s, t[n + 1]) ELSE s, t, I \cap 1 .. n + 1)
<1>0. Len(t) \in Nat /\ Len(s) \in Nat /\ n \in Nat   BY LenProperties
<1>1. PICK h : Embedded(h, s, t, I \cap 1 .. n) /\ \A i \in 1 .. Len(s) : s[i] = t[h[i]]
  BY DEF SublistAt
<1>2. CASE n + 1 \notin I
  <2>1. I \cap 1 .. n + 1 = I \cap 1 .. n   BY <1>0, <1>2
  <2> QED BY <1>2, <2>1
<1>3. CASE n + 1 \in I
  <2> DEFINE r == Append(s, t[n + 1])
             m == Len(s)
             g == [i \in 1 .. m + 1 |-> IF i = m + 1 THEN n + 1 ELSE h[i]]
             J == I \cap 1 .. n + 1
  <2>0. t[n + 1] \in S   BY <1>0, ElementOfSeq
  <2>1. Len(r) = m + 1 /\ r[m + 1] = t[n + 1] /\ \A i \in 1 .. m : r[i] = s[i]
    BY <2>0
  <2>2. \A i \in 1 .. m : h[i] \in I /\ h[i] \in 1 .. n   BY <1>1 DEF Embedded
  <2>3. \A i \in 1 .. m : g[i] = h[i] /\ i # m + 1   BY <1>0
  <2>4. g[m + 1] = n + 1   BY <1>0
  <2>5. \A i \in 1 .. m + 1 : i \in 1 .. m \/ i = m + 1   BY <1>0
  <2>6. g \in [1 .. m + 1 -> J]
    <3>1. \A i \in 1 .. m + 1 : g[i] \in J
      <4> HIDE DEF g
      <4> QED BY <1>0, <1>3, <2>2, <2>3, <2>4, <2>5
    <3> QED BY <3>1
  <2> HIDE DEF g
  <2>7. \A i, j \in 1 .. m + 1 : i < j => g[i] < g[j]
    <3> TAKE i, j \in 1 .. m + 1
    <3> HAVE i < j
    <3>1. i \in 1 .. m /\ h[i] \in 1 .. n   BY <1>0, <2>2
    <3>2. CASE j = m + 1   BY <1>0, <2>3, <2>4, <3>1, <3>2
    <3>3. CASE j \in 1 .. m   BY <1>1, <2>3, <3>1, <3>3 DEF Embedded
    <3> QED BY <2>5, <3>2, <3>3
  <2>8. \A k \in J : \E i \in 1 .. m + 1 : g[i] = k
    <3> TAKE k \in J
    <3>1. CASE k = n + 1   BY <1>0, <2>4, <3>1
    <3>2. CASE k # n + 1
      <4>1. k \in I \cap 1 .. n   BY <1>0, <3>2
      <4>2. PICK i \in 1 .. m : h[i] = k   BY <1>1, <4>1 DEF Embedded
      <4>3. i \in 1 .. m + 1   BY <1>0
      <4> QED BY <2>3, <4>2, <4>3
    <3> QED BY <3>1, <3>2
  <2>9. Embedded(g, r, t, J)
    <3> HIDE DEF r, J
    <3> QED BY <2>1, <2>6, <2>7, <2>8 DEF Embedded
  <2>10. \A i \in 1 .. Len(r) : r[i] = t[g[i]]
    <3> TAKE i \in 1 .. Len(r)
    <3>1. CASE i \in 1 .. m   BY <1>1, <2>1, <2>3, <3>1
    <3>2. CASE i = m + 1   BY <2>1, <2>4, <3>2
    <3> QED BY <2>1, <2>5, <3>1, <3>2
  <2>11. SublistAt(r, t, J)   BY <2>9, <2>10 DEF SublistAt
  <2> QED BY <1>3, <2>11
<1> QED BY <1>2, <1>3

\* At is the sublist at the positions it is given.
LEMMA AtIsSublist ==
  ASSUME NEW S, NEW t \in Seq(S), NEW I \in SUBSET (1 .. Len(t))
  PROVE  At(t, I) \in Seq(S) /\ SublistAt(At(t, I), t, I)
<1> DEFINE N == Len(t)
           X == Seq(S)
           Next1(k, s) == IF k \in I THEN Append(s, t[k]) ELSE s
           IsKept(f) == f = [n \in 0 .. N |-> IF n = 0 THEN <<>> ELSE Next1(n, f[n - 1])]
           step == [ks \in (1 .. N) \X X |-> Next1(ks[1], ks[2])]
           kept == CHOOSE f : IsKept(f)
<1>0. N \in Nat /\ \A k \in 1 .. N : t[k] \in S   BY LenProperties, ElementOfSeq
<1>1. step \in Steps(N, X)
  <2>1. \A k \in 1 .. N, s \in X : Next1(k, s) \in X   BY <1>0
  <2> HIDE DEF Next1, N, X
  <2> QED BY <2>1 DEF Steps
<1>2. PICK f \in [0 .. N -> X] : Iterates(f, <<>>, step, N)
  <2>1. <<>> \in X   OBVIOUS
  <2> HIDE DEF step, N, X
  <2> QED BY <1>0, <1>1, <2>1, Recursion
<1> HIDE DEF N, X
<1>3. IsKept(f)
  <2>1. f[0] = <<>>   BY <1>2 DEF Iterates
  <2>2. ASSUME NEW k \in 1 .. N PROVE f[k] = Next1(k, f[k - 1])
    <3>1. f[k] = step[<<k, f[k - 1]>>]
      <4> HIDE DEF step
      <4> QED BY <1>2 DEF Iterates
    <3>2. k - 1 \in 0 .. N   BY <1>0
    <3>3. <<k, f[k - 1]>> \in (1 .. N) \X X   BY <1>2, <3>2
    <3> HIDE DEF Next1
    <3> QED BY <3>1, <3>3
  <2> HIDE DEF Next1, step
  <2>3. \A k \in 0 .. N : f[k] = IF k = 0 THEN <<>> ELSE Next1(k, f[k - 1])
    BY <1>0, <2>1, <2>2
  <2>4. f = [k \in 0 .. N |-> f[k]]   OBVIOUS
  <2> QED BY <2>3, <2>4
<1>4. IsKept(kept)
  <2> HIDE DEF IsKept
  <2> QED BY <1>3
<1>5. At(t, I) = kept[N]   BY DEF At, N
<1> HIDE DEF kept
<1>6. kept[0] = <<>> /\ \A k \in 1 .. N : kept[k] = Next1(k, kept[k - 1])
  <2> HIDE DEF Next1
  <2>1. kept[0] = <<>>   BY <1>0, <1>4
  <2>2. \A k \in 1 .. N : k \in 0 .. N /\ k # 0   BY <1>0
  <2> QED BY <1>4, <2>1, <2>2
<1> DEFINE P == {n \in 0 .. N : kept[n] \in Seq(S) /\ SublistAt(kept[n], t, I \cap 1 .. n)}
<1>7. 0 \in P
  <2>1. I \cap 1 .. 0 = {}   OBVIOUS
  <2>2. Embedded(<<>>, <<>>, t, {})   BY DEF Embedded
  <2>3. SublistAt(<<>>, t, {})   BY <2>2 DEF SublistAt
  <2>4. SublistAt(kept[0], t, I \cap 1 .. 0)   BY <1>6, <2>1, <2>3
  <2>5. kept[0] \in Seq(S)   BY <1>6
  <2> QED BY <1>0, <2>4, <2>5
<1>8. ASSUME NEW n \in 0 .. N - 1, n \in P PROVE n + 1 \in P
  <2>1. n + 1 \in 1 .. N /\ n + 1 - 1 = n /\ n + 1 \in 0 .. N   BY <1>0
  <2>2. kept[n + 1] = IF n + 1 \in I THEN Append(kept[n], t[n + 1]) ELSE kept[n]
    BY <1>6, <2>1
  <2>3. kept[n] \in Seq(S) /\ SublistAt(kept[n], t, I \cap 1 .. n)   BY <1>8
  <2>4. SublistAt(kept[n + 1], t, I \cap 1 .. n + 1)
    <3> HIDE DEF P
    <3>1. n \in 0 .. Len(t) - 1   BY DEF N
    <3> DEFINE s == kept[n]
               J == I \cap 1 .. n + 1
    <3>2. SublistAt(IF n + 1 \in I THEN Append(s, t[n + 1]) ELSE s, t, J)
      <4> HIDE DEF s
      <4> QED BY <2>3, <3>1, SublistGrows DEF s
    <3> QED BY <2>2, <3>2
  <2>5. kept[n + 1] \in Seq(S)   BY <1>0, <2>1, <2>2, <2>3
  <2> QED BY <2>1, <2>4, <2>5
<1>9. 0 .. N \subseteq P
  <2> HIDE DEF P
  <2> QED BY <1>0, <1>7, <1>8, UpTo
<1>10. N \in P
  <2> HIDE DEF P
  <2> QED BY <1>0, <1>9
<1>11. I \cap 1 .. N = I   BY DEF N
<1> QED BY <1>5, <1>10, <1>11

InOrder(h, n) ==
  \A i, j \in 1 .. n : (h[i] < h[j] <=> i < j) /\ (h[i] = h[j] <=> i = j)

\* The map of a sublist into its list keeps the order both ways.
LEMMA EmbeddedOrder ==
  ASSUME NEW S, NEW s \in Seq(S), NEW t \in Seq(S), NEW I \in SUBSET (1 .. Len(t)), NEW h,
         Embedded(h, s, t, I)
  PROVE  /\ \A i \in 1 .. Len(s) : h[i] \in I /\ h[i] \in 1 .. Len(t)
         /\ InOrder(h, Len(s))
<1>0. Len(s) \in Nat /\ Len(t) \in Nat   BY LenProperties
<1>1. \A i \in 1 .. Len(s) : h[i] \in I /\ h[i] \in 1 .. Len(t)   BY DEF Embedded
<1>2. ASSUME NEW i \in 1 .. Len(s), NEW j \in 1 .. Len(s)
      PROVE  (h[i] < h[j] <=> i < j) /\ (h[i] = h[j] <=> i = j)
  <2>1. h[i] \in Nat /\ h[j] \in Nat   BY <1>1
  <2>2. i < j => h[i] < h[j]   BY DEF Embedded
  <2>3. j < i => h[j] < h[i]   BY DEF Embedded
  <2>4. i < j \/ i = j \/ j < i   OBVIOUS
  <2> QED BY <2>1, <2>2, <2>3, <2>4
<1> QED BY <1>1, <1>2 DEF InOrder

-----------------------------------------------------------------------------
(* Identifications and uids                                                  *)

UniqueUids(list) == \A i, j \in 1 .. Len(list) : list[i].uid = list[j].uid => i = j

Numbered(list) ==
  /\ check_identification_unique(list)
  /\ \A i \in 1 .. Len(list) : list[i].identification = 0 <=> ~HasHeader(list[i])

\* renumber_identification numbers the PEs that have a PE header, each
\* differently, and leaves them as they are otherwise.
LEMMA Renumbered ==
  ASSUME NEW list \in Seq(PEs)
  PROVE  /\ renumber_identification(list) \in Seq(PEs)
         /\ Len(renumber_identification(list)) = Len(list)
         /\ \A i \in 1 .. Len(list) : \E n \in Nat :
              renumber_identification(list)[i] = [list[i] EXCEPT !.identification = n]
         /\ Numbered(renumber_identification(list))
<1> DEFINE Before(i) == {j \in 1 .. i : HasHeader(list[j])}
           number(i) == IF HasHeader(list[i]) THEN Cardinality(Before(i)) ELSE 0
           r == renumber_identification(list)
<1>0. Len(list) \in Nat /\ \A i \in 1 .. Len(list) : list[i] \in PEs
  BY LenProperties, ElementOfSeq
<1>1. r = [i \in 1 .. Len(list) |-> [list[i] EXCEPT !.identification = number(i)]]
  BY DEF renumber_identification
<1>2. \A i \in 1 .. Len(list) : IsFiniteSet(Before(i))
  <2> TAKE i \in 1 .. Len(list)
  <2>1. IsFiniteSet(1 .. i)   BY FS_Interval
  <2> QED BY <2>1, FS_Subset
<1>3. \A i \in 1 .. Len(list) : Cardinality(Before(i)) \in Nat
  <2> HIDE DEF Before
  <2> QED BY <1>2, FS_CardinalityType
<1>4. \A i \in 1 .. Len(list) : number(i) \in Nat
  <2> HIDE DEF Before
  <2> QED BY <1>3
<1>5. ASSUME NEW i \in 1 .. Len(list)
      PROVE  /\ r[i] = [list[i] EXCEPT !.identification = number(i)]
             /\ r[i] \in PEs /\ r[i].identification = number(i)
             /\ HasHeader(r[i]) <=> HasHeader(list[i])
  <2>1. number(i) \in Nat /\ list[i] \in PEs   BY <1>0, <1>4
  <2>2. r[i] = [list[i] EXCEPT !.identification = number(i)]
    <3> HIDE DEF number
    <3> QED BY <1>1
  <2> HIDE DEF number, r
  <2> QED BY <2>1, <2>2 DEF PEs, HasHeader
<1>6. r \in Seq(PEs) /\ Len(r) = Len(list)
  <2>1. \A i \in 1 .. Len(list) : r[i] \in PEs   BY <1>5
  <2>2. r = [i \in 1 .. Len(list) |-> r[i]]   BY <1>1
  <2> HIDE DEF r
  <2> QED BY <1>0, <2>1, <2>2
<1>7. ASSUME NEW i \in 1 .. Len(list), NEW j \in 1 .. Len(list), i < j, HasHeader(list[j])
      PROVE  Cardinality(Before(i)) < Cardinality(Before(j))
  <2>1. Before(i) \subseteq Before(j) /\ j \in Before(j) /\ j \notin Before(i)
    BY <1>7
  <2>2. IsFiniteSet(Before(j)) /\ IsFiniteSet(Before(i))   BY <1>2
  <2>3. Cardinality(Before(j)) \in Nat /\ Cardinality(Before(i)) \in Nat   BY <1>3
  <2> HIDE DEF Before
  <2> QED BY <2>1, <2>2, <2>3, FS_Subset
<1>8. \A i \in 1 .. Len(list) : number(i) = 0 <=> ~HasHeader(list[i])
  <2> TAKE i \in 1 .. Len(list)
  <2>1. CASE HasHeader(list[i])
    <3>1. i \in Before(i)   BY <2>1
    <3>2. IsFiniteSet(Before(i)) /\ Cardinality(Before(i)) \in Nat   BY <1>2, <1>3
    <3>3. Cardinality(Before(i)) # 0
      <4> HIDE DEF Before
      <4> QED BY <3>1, <3>2, FS_EmptySet
    <3> QED BY <2>1, <3>3
  <2> QED BY <2>1
<1>9. check_identification_unique(r)
  <2> HIDE DEF r
  <2> SUFFICES ASSUME NEW i \in 1 .. Len(list), NEW j \in 1 .. Len(list), i # j,
                      HasHeader(r[i]), HasHeader(r[j])
               PROVE  r[i].identification # r[j].identification
    BY <1>6 DEF check_identification_unique
  <2>0. /\ HasHeader(list[i]) /\ HasHeader(list[j])
        /\ r[i].identification = number(i) /\ r[j].identification = number(j)
    <3> HIDE DEF number
    <3> QED BY <1>5
  <2>1. Cardinality(Before(i)) \in Nat /\ Cardinality(Before(j)) \in Nat   BY <1>3
  <2>2. i < j \/ j < i   BY <1>0
  <2> HIDE DEF Before
  <2> QED BY <1>7, <2>0, <2>1, <2>2
<1>10. Numbered(r)
  <2> HIDE DEF r, number
  <2> QED BY <1>5, <1>6, <1>8, <1>9 DEF Numbered
<1> QED
  <2> HIDE DEF r, number
  <2>1. \A i \in 1 .. Len(list) : \E n \in Nat : r[i] = [list[i] EXCEPT !.identification = n]
    BY <1>4, <1>5
  <2> QED BY <1>6, <1>10, <2>1 DEF r

\* A sublist of a list that is numbered, and whose objects are distinct, is.
LEMMA SublistNumbered ==
  ASSUME NEW s \in Seq(PEs), NEW t \in Seq(PEs), NEW I \in SUBSET (1 .. Len(t)),
         SublistAt(s, t, I)
  PROVE  /\ Numbered(t) => Numbered(s)
         /\ UniqueUids(t) => UniqueUids(s)
         /\ Range(s) \subseteq Range(t)
         /\ \A k \in I : t[k] \in Range(s)
         /\ \A i \in 1 .. Len(s) : \E k \in I : s[i] = t[k]
<1>1. PICK h : Embedded(h, s, t, I) /\ \A i \in 1 .. Len(s) : s[i] = t[h[i]]
  BY DEF SublistAt
<1>2. \A i \in 1 .. Len(s) : h[i] \in I /\ h[i] \in 1 .. Len(t) /\ s[i] = t[h[i]]
  BY <1>1, EmbeddedOrder
<1>3. \A i, j \in 1 .. Len(s) : h[i] = h[j] => i = j
  <2>1. Embedded(h, s, t, I)   BY <1>1
  <2>2. InOrder(h, Len(s))   BY <2>1, EmbeddedOrder
  <2> QED BY <2>2 DEF InOrder
<1>4. ASSUME Numbered(t) PROVE Numbered(s)
  <2>1. \A i \in 1 .. Len(s) : s[i].identification = 0 <=> ~HasHeader(s[i])
    BY <1>2, <1>4 DEF Numbered
  <2>2. ASSUME NEW i \in 1 .. Len(s), NEW j \in 1 .. Len(s), HasHeader(s[i]), HasHeader(s[j]), i # j
        PROVE  s[i].identification # s[j].identification
    <3>1. h[i] # h[j] /\ HasHeader(t[h[i]]) /\ HasHeader(t[h[j]])   BY <1>2, <1>3, <2>2
    <3>2. check_identification_unique(t)   BY <1>4 DEF Numbered
    <3>3. h[i] \in 1 .. Len(t) /\ h[j] \in 1 .. Len(t) /\ s[i] = t[h[i]] /\ s[j] = t[h[j]]
      BY <1>2
    <3>4. t[h[i]].identification # t[h[j]].identification
      BY <3>1, <3>2, <3>3, Zenon DEF check_identification_unique
    <3> QED BY <3>3, <3>4
  <2> QED BY <2>1, <2>2 DEF Numbered, check_identification_unique
<1>5. UniqueUids(t) => UniqueUids(s)
  <2> SUFFICES ASSUME UniqueUids(t), NEW i \in 1 .. Len(s), NEW j \in 1 .. Len(s), s[i].uid = s[j].uid
               PROVE  i = j
    BY DEF UniqueUids
  <2>1. t[h[i]].uid = t[h[j]].uid /\ h[i] \in 1 .. Len(t) /\ h[j] \in 1 .. Len(t)   BY <1>2
  <2>2. h[i] = h[j]   BY <2>1, Zenon DEF UniqueUids
  <2> QED BY <1>3, <2>2
<1>6. DOMAIN s = 1 .. Len(s) /\ DOMAIN t = 1 .. Len(t)   BY LenProperties
<1>7. \A k \in I : t[k] \in Range(s)
  <2> TAKE k \in I
  <2>1. PICK i \in 1 .. Len(s) : h[i] = k   BY <1>1 DEF Embedded
  <2> QED BY <1>2, <1>6, <2>1 DEF Range
<1> QED BY <1>2, <1>4, <1>5, <1>6, <1>7 DEF Range

-----------------------------------------------------------------------------
(* Instances                                                                 *)

\* The PE at position k is the NAA that the PE at position j comes after.
Owner(list, k, j) ==
  /\ k \in 1 .. j /\ list[k].type \in NaaTypes
  /\ \A x \in k + 1 .. j : list[x].type \notin NaaTypes

Related(pe) == pe.type \notin petype_not_naa_related

SameObject(a, b) ==
  a.uid = b.uid /\ a.type = b.type /\ a.mandated = b.mandated /\ (a.pin2 = "-" <=> b.pin2 = "-")

SameObjects(h, s, t) == \A i \in 1 .. Len(s) : SameObject(s[i], t[h[i]])

\* A set of positions that is not empty has a greatest one.
LEMMA GreatestOf ==
  ASSUME NEW n \in Nat, NEW T \in SUBSET (0 .. n), T # {}
  PROVE  \E k \in T : \A x \in T : x <= k
<1> DEFINE M == {n - k : k \in T}
<1>1. M \subseteq Nat /\ M # {}
  <2>1. \A k \in T : n - k \in Nat   OBVIOUS
  <2> QED BY <2>1
<1>2. PICK m \in M : \A x \in M : m <= x
  <2> HIDE DEF M
  <2> QED BY <1>1, LeastOf
<1>3. PICK k \in T : m = n - k   BY <1>2
<1>4. \A x \in T : n - k <= n - x   BY <1>2, <1>3
<1> QED BY <1>4

\* Where there is an NAA, the last of them is the owner.
LEMMA OwnerExists ==
  ASSUME NEW list, NEW j \in Nat, NEW i \in 1 .. j, list[i].type \in NaaTypes
  PROVE  \E k \in i .. j : Owner(list, k, j)
<1> DEFINE T == {k \in i .. j : list[k].type \in NaaTypes}
<1>1. T \in SUBSET (0 .. j) /\ T # {}   OBVIOUS
<1>2. PICK k \in T : \A x \in T : x <= k
  <2> HIDE DEF T
  <2> QED BY <1>1, GreatestOf
<1>3. \A x \in k + 1 .. j : x \in i .. j /\ ~ (x <= k)   BY <1>2
<1>4. \A x \in k + 1 .. j : list[x].type \notin NaaTypes   BY <1>2, <1>3
<1>5. k \in 1 .. j   BY <1>2
<1> QED BY <1>2, <1>4, <1>5 DEF Owner

\* A PE has at most one owner.
LEMMA OwnerUnique ==
  ASSUME NEW list, NEW j \in Nat, NEW i, NEW k, Owner(list, i, j), Owner(list, k, j)
  PROVE  i = k
<1>1. i \in 1 .. j /\ k \in 1 .. j   BY DEF Owner
<1>2. ~ (i < k) /\ ~ (k < i)
  <2>1. i < k => k \in i + 1 .. j   BY <1>1
  <2>2. k < i => i \in k + 1 .. j   BY <1>1
  <2> QED BY <2>1, <2>2 DEF Owner
<1> QED BY <1>1, <1>2

\* The stretch of an NAA has the related PEs that it owns.
LEMMA StretchIs ==
  ASSUME NEW list \in Seq(PEs), NEW i \in 1 .. Len(list), list[i].type \in NaaTypes
  PROVE  \A u : u \in Stretch(list, i) <=>
           \E j \in 1 .. Len(list) : Owner(list, i, j) /\ Related(list[j]) /\ u = list[j].uid
<1>0. Len(list) \in Nat   BY LenProperties
<1>1. ASSUME NEW j \in i .. Len(list), Related(list[j]),
             \A k \in i + 1 .. j : list[k].type \notin NaaTypes
      PROVE  j \in 1 .. Len(list) /\ Owner(list, i, j)
  BY <1>0, <1>1 DEF Owner
<1>2. ASSUME NEW j \in 1 .. Len(list), Owner(list, i, j)
      PROVE  j \in i .. Len(list) /\ \A k \in i + 1 .. j : list[k].type \notin NaaTypes
  BY <1>0, <1>2 DEF Owner
<1> QED BY <1>1, <1>2 DEF Stretch, Related

\* A PE that counts for an NAA is in I as its owner is.
StretchwiseKept(t, I) ==
  \A j \in 1 .. Len(t), k \in 1 .. Len(t) :
    Owner(t, k, j) /\ Related(t[j]) => (k \in I <=> j \in I)

\* Where the PEs outside of a sublist, as far as they count for an NAA, are
\* those of NAAs outside of it, an instance has the same PEs in both lists.
LEMMA SameStretch ==
  ASSUME NEW s \in Seq(PEs), NEW t \in Seq(PEs), NEW I \in SUBSET (1 .. Len(t)), NEW h,
         Embedded(h, s, t, I), SameObjects(h, s, t),
         StretchwiseKept(t, I), NEW i \in 1 .. Len(s), s[i].type \in NaaTypes
  PROVE  Stretch(s, i) = Stretch(t, h[i])
<1>0. Len(s) \in Nat /\ Len(t) \in Nat   BY LenProperties
<1>1. \A j \in 1 .. Len(s) : h[j] \in I /\ h[j] \in 1 .. Len(t) /\ h[j] \in Nat
  <2>1. \A j \in 1 .. Len(s) : h[j] \in I   BY DEF Embedded
  <2>2. \A k \in I : k \in 1 .. Len(t) /\ k \in Nat   BY <1>0
  <2> QED BY <2>1, <2>2, Zenon
<1>2. \A j, k \in 1 .. Len(s) : (h[j] < h[k] <=> j < k) /\ (h[j] = h[k] <=> j = k)
  <2>1. InOrder(h, Len(s))   BY EmbeddedOrder
  <2> QED BY <2>1 DEF InOrder
<1>3. \A j \in 1 .. Len(s) : s[j].uid = t[h[j]].uid /\ s[j].type = t[h[j]].type
  BY Zenon DEF SameObject, SameObjects
<1>4. \A k \in I : \E j \in 1 .. Len(s) : h[j] = k   BY DEF Embedded
<1>5. ASSUME NEW j \in 1 .. Len(s), Owner(s, i, j), Related(s[j])
      PROVE  Owner(t, h[i], h[j]) /\ Related(t[h[j]])
  <2>1. i \in 1 .. j /\ i <= j   BY <1>5 DEF Owner
  <2>2. h[i] <= h[j]
    <3>1. i < j \/ i = j   BY <2>1
    <3> QED BY <1>1, <1>2, <3>1
  <2>3. h[i] \in 1 .. h[j] /\ t[h[i]].type \in NaaTypes   BY <1>1, <1>3, <2>2
  <2>4. Related(t[h[j]])   BY <1>3, <1>5 DEF Related
  <2>5. PICK k \in h[i] .. h[j] : Owner(t, k, h[j])   BY <1>1, <2>3, OwnerExists
  <2>6. k \in 1 .. Len(t)   BY <1>0, <1>1, <2>5
  <2>7. k \in I   BY <1>1, <2>4, <2>5, <2>6 DEF StretchwiseKept
  <2>8. PICK b \in 1 .. Len(s) : h[b] = k   BY <1>4, <2>7
  <2>9. b = i
    <3> SUFFICES ASSUME b # i PROVE FALSE   OBVIOUS
    <3>1. h[i] <= h[b] /\ h[b] <= h[j]   BY <1>1, <2>5, <2>8
    <3>2. i < b /\ b <= j
      <4>1. h[i] < h[b] \/ h[i] = h[b]   BY <1>1, <3>1
      <4>2. h[b] < h[j] \/ h[b] = h[j]   BY <1>1, <3>1
      <4>3. i < b   BY <1>2, <4>1
      <4>4. b < j \/ b = j   BY <1>2, <4>2
      <4> QED BY <4>3, <4>4
    <3>3. b \in i + 1 .. j   BY <3>2
    <3>4. s[b].type \in NaaTypes   BY <1>3, <2>5, <2>8 DEF Owner
    <3> QED BY <1>5, <3>3, <3>4 DEF Owner
  <2> QED BY <2>4, <2>5, <2>8, <2>9
<1>6. ASSUME NEW j \in 1 .. Len(t), Owner(t, h[i], j), Related(t[j])
      PROVE  \E b \in 1 .. Len(s) : h[b] = j /\ Owner(s, i, b) /\ Related(s[b])
  <2>1. j \in I   BY <1>1, <1>6 DEF StretchwiseKept
  <2>2. PICK b \in 1 .. Len(s) : h[b] = j   BY <1>4, <2>1
  <2>3. Related(s[b])   BY <1>3, <1>6, <2>2 DEF Related
  <2>4. h[i] \in 1 .. h[b]   BY <1>6, <2>2 DEF Owner
  <2>5. i <= b
    <3>1. h[i] < h[b] \/ h[i] = h[b]   BY <1>1, <2>4
    <3>2. i < b \/ i = b   BY <1>2, <3>1
    <3> QED BY <3>2
  <2>6. ASSUME NEW x \in i + 1 .. b PROVE s[x].type \notin NaaTypes
    <3>1. x \in 1 .. Len(s) /\ i < x /\ (x < b \/ x = b)   BY <1>0, <2>5
    <3>2. h[i] < h[x] /\ (h[x] < h[b] \/ h[x] = h[b])   BY <1>2, <3>1
    <3>3. h[x] \in h[i] + 1 .. j   BY <1>1, <2>2, <3>1, <3>2
    <3> QED BY <1>3, <1>6, <3>1, <3>3 DEF Owner
  <2>7. i \in 1 .. b   BY <2>5
  <2> QED BY <2>2, <2>3, <2>6, <2>7 DEF Owner
<1>7. t[h[i]].type \in NaaTypes   BY <1>3
<1>8. \A u : u \in Stretch(s, i) => u \in Stretch(t, h[i])
  <2> SUFFICES ASSUME NEW u, u \in Stretch(s, i) PROVE u \in Stretch(t, h[i])   OBVIOUS
  <2>1. PICK j \in 1 .. Len(s) : Owner(s, i, j) /\ Related(s[j]) /\ u = s[j].uid
    BY StretchIs
  <2> QED BY <1>1, <1>3, <1>5, <1>7, <2>1, StretchIs
<1>9. \A u : u \in Stretch(t, h[i]) => u \in Stretch(s, i)
  <2> SUFFICES ASSUME NEW u, u \in Stretch(t, h[i]) PROVE u \in Stretch(s, i)   OBVIOUS
  <2>1. PICK j \in 1 .. Len(t) : Owner(t, h[i], j) /\ Related(t[j]) /\ u = t[j].uid
    BY <1>1, <1>7, StretchIs
  <2>2. PICK b \in 1 .. Len(s) : h[b] = j /\ Owner(s, i, b) /\ Related(s[b])
    BY <1>6, <2>1
  <2> QED BY <1>3, <2>1, <2>2, StretchIs
<1> QED BY <1>8, <1>9

\* Where the list has the PEs of uids, it has the first PIN2 among them.
LEMMA SamePin ==
  ASSUME NEW s \in Seq(PEs), NEW t \in Seq(PEs), NEW I \in SUBSET (1 .. Len(t)), NEW h,
         Embedded(h, s, t, I), SameObjects(h, s, t), UniqueUids(t),
         NEW uids, uids \subseteq {s[i].uid : i \in 1 .. Len(s)}
  PROVE  PinOf(s, uids) = PinOf(t, uids)
<1> DEFINE Ps == {i \in Where(s, "pinCodes") : s[i].uid \in uids /\ s[i].pin2 # "-"}
           Pt == {i \in Where(t, "pinCodes") : t[i].uid \in uids /\ t[i].pin2 # "-"}
<1>0. Len(s) \in Nat /\ Len(t) \in Nat   BY LenProperties
<1>1. \A j \in 1 .. Len(s) : h[j] \in 1 .. Len(t) /\ h[j] \in Nat
  <2>1. \A j \in 1 .. Len(s) : h[j] \in I   BY DEF Embedded
  <2>2. \A k \in I : k \in 1 .. Len(t) /\ k \in Nat   BY <1>0
  <2> QED BY <2>1, <2>2, Zenon
<1>2. \A j, k \in 1 .. Len(s) : (h[j] < h[k] <=> j < k) /\ (h[j] = h[k] <=> j = k)
  <2>1. InOrder(h, Len(s))   BY EmbeddedOrder
  <2> QED BY <2>1 DEF InOrder
<1>3. \A j \in 1 .. Len(s) :
        s[j].uid = t[h[j]].uid /\ s[j].type = t[h[j]].type /\ (s[j].pin2 = "-" <=> t[h[j]].pin2 = "-")
  BY Zenon DEF SameObject, SameObjects
<1>4. \A j \in 1 .. Len(s) : j \in Ps <=> h[j] \in Pt
  BY <1>1, <1>3, Zenon DEF Where
<1>5. \A k \in Pt : \E j \in Ps : h[j] = k
  <2> TAKE k \in Pt
  <2>1. k \in 1 .. Len(t) /\ t[k].uid \in uids   BY DEF Where
  <2>2. PICK j \in 1 .. Len(s) : t[k].uid = s[j].uid   BY <2>1
  <2>3. h[j] = k
    <3>1. h[j] \in 1 .. Len(t) /\ t[h[j]].uid = t[k].uid   BY <1>1, <1>3, <2>2, Zenon
    <3> QED BY <2>1, <3>1, Zenon DEF UniqueUids
  <2> QED BY <1>4, <2>2, <2>3
<1>6. Ps \subseteq 1 .. Len(s)   BY DEF Where
<1> HIDE DEF Ps, Pt
<1>7. \A j \in Ps : j \in First(Ps) <=> h[j] \in First(Pt)
  <2> TAKE j \in Ps
  <2>0. j \in 1 .. Len(s) /\ h[j] \in Pt   BY <1>4, <1>6
  <2>1. ASSUME \A k \in Ps : j <= k PROVE \A k \in Pt : h[j] <= k
    <3> TAKE k \in Pt
    <3>1. PICK i \in Ps : h[i] = k   BY <1>5
    <3>2. i \in 1 .. Len(s) /\ j <= i   BY <1>6, <2>1
    <3>3. j < i \/ j = i   BY <2>0, <3>2
    <3>4. h[j] < h[i] \/ h[j] = h[i]   BY <1>2, <2>0, <3>2, <3>3
    <3> QED BY <1>1, <2>0, <3>1, <3>2, <3>4
  <2>2. ASSUME \A k \in Pt : h[j] <= k PROVE \A k \in Ps : j <= k
    <3> TAKE i \in Ps
    <3>1. i \in 1 .. Len(s) /\ h[i] \in Pt   BY <1>4, <1>6
    <3>2. h[j] <= h[i]   BY <2>2, <3>1
    <3>3. h[j] < h[i] \/ h[j] = h[i]   BY <1>1, <2>0, <3>1, <3>2
    <3>4. j < i \/ j = i   BY <1>2, <2>0, <3>1, <3>3
    <3> QED BY <2>0, <3>1, <3>4
  <2> QED BY <2>0, <2>1, <2>2 DEF First
<1>8. \A u : u \in {s[i].uid : i \in First(Ps)} <=> u \in {t[i].uid : i \in First(Pt)}
  <2>1. \A i \in First(Ps) : i \in Ps   BY DEF First
  <2>2. \A k \in First(Pt) : k \in Pt   BY DEF First
  <2>3. ASSUME NEW i \in First(Ps) PROVE h[i] \in First(Pt) /\ s[i].uid = t[h[i]].uid
    <3>1. i \in Ps /\ i \in 1 .. Len(s)   BY <1>6, <2>1
    <3> QED BY <1>3, <1>7, <3>1
  <2>4. ASSUME NEW k \in First(Pt) PROVE \E i \in First(Ps) : s[i].uid = t[k].uid
    <3>1. PICK i \in Ps : h[i] = k   BY <1>5, <2>2
    <3>2. i \in 1 .. Len(s)   BY <1>6
    <3> QED BY <1>3, <1>7, <3>1, <3>2
  <2> QED BY <2>3, <2>4
<1> QED BY <1>8 DEF PinOf, Ps, Pt

\* With the same PEs and the same PIN2, an instance is the same in both lists.
LEMMA SameInstance ==
  ASSUME NEW s \in Seq(PEs), NEW t \in Seq(PEs), NEW I \in SUBSET (1 .. Len(t)), NEW h,
         Embedded(h, s, t, I), SameObjects(h, s, t), UniqueUids(t),
         StretchwiseKept(t, I), NEW i \in 1 .. Len(s), s[i].type \in NaaTypes
  PROVE  Instance(s, i) = Instance(t, h[i])
<1>1. Stretch(s, i) = Stretch(t, h[i])   BY SameStretch
<1>2. Stretch(s, i) \subseteq {s[j].uid : j \in 1 .. Len(s)}   BY StretchIs
<1>3. PinOf(s, Stretch(s, i)) = PinOf(t, Stretch(s, i))   BY <1>2, SamePin
<1>4. s[i].mandated = t[h[i]].mandated   BY DEF SameObjects, SameObject
<1> QED BY <1>1, <1>3, <1>4 DEF Instance

\* A list and its sublist have the same instances of an NAA that is kept.
LEMMA SameInstances ==
  ASSUME NEW s \in Seq(PEs), NEW t \in Seq(PEs), NEW I \in SUBSET (1 .. Len(t)), NEW h,
         Embedded(h, s, t, I), SameObjects(h, s, t), UniqueUids(t),
         StretchwiseKept(t, I), NEW naa \in NaaTypes, Where(t, naa) \subseteq I
  PROVE  Instances(s, naa) = Instances(t, naa)
<1>1. \A j \in 1 .. Len(s) : h[j] \in 1 .. Len(t) /\ s[j].type = t[h[j]].type
  BY EmbeddedOrder DEF SameObjects, SameObject
<1>2. ASSUME NEW i \in Where(s, naa)
      PROVE  h[i] \in Where(t, naa) /\ Instance(s, i) = Instance(t, h[i])
  <2>1. i \in 1 .. Len(s) /\ s[i].type = naa   BY DEF Where
  <2>2. s[i].type \in NaaTypes   BY <2>1
  <2>3. Instance(s, i) = Instance(t, h[i])   BY <2>1, <2>2, SameInstance
  <2> QED BY <1>1, <2>1, <2>3 DEF Where
<1>3. ASSUME NEW k \in Where(t, naa)
      PROVE  \E i \in Where(s, naa) : h[i] = k
  <2>1. PICK i \in 1 .. Len(s) : h[i] = k   BY DEF Embedded
  <2>2. s[i].type = naa   BY <1>1, <2>1 DEF Where
  <2> QED BY <2>1, <2>2 DEF Where
<1> HIDE DEF Where
<1> QED BY <1>2, <1>3 DEF Instances

\* An embedding of a list into itself, with the same objects.
LEMMA SamePlaces ==
  ASSUME NEW s \in Seq(PEs), NEW t \in Seq(PEs), Len(s) = Len(t), UniqueUids(t),
         \A i \in 1 .. Len(s) : SameObject(s[i], t[i]),
         NEW naa \in NaaTypes
  PROVE  Instances(s, naa) = Instances(t, naa)
<1> DEFINE h == [i \in 1 .. Len(s) |-> i]
           I == 1 .. Len(t)
<1>1. Embedded(h, s, t, I)   BY DEF Embedded
<1>2. SameObjects(h, s, t)   BY DEF SameObjects
<1>3. StretchwiseKept(t, I)   BY DEF StretchwiseKept
<1>4. Where(t, naa) \subseteq I /\ I \in SUBSET (1 .. Len(t))   BY DEF Where
<1> HIDE DEF h, I
<1> QED BY <1>1, <1>2, <1>3, <1>4, SameInstances

\* An NAA stands in its own instance, and nothing in the instance of another.
LEMMA OwnStretch ==
  ASSUME NEW t \in Seq(PEs), UniqueUids(t), NEW k \in 1 .. Len(t), t[k].type \in NaaTypes,
         NEW j \in 1 .. Len(t)
  PROVE  t[j].uid \in Stretch(t, k) <=> Owner(t, k, j) /\ Related(t[j])
<1>1. ASSUME t[j].uid \in Stretch(t, k) PROVE Owner(t, k, j) /\ Related(t[j])
  <2>1. PICK x \in 1 .. Len(t) : Owner(t, k, x) /\ Related(t[x]) /\ t[j].uid = t[x].uid
    BY <1>1, StretchIs
  <2>2. x = j   BY <2>1 DEF UniqueUids
  <2> QED BY <2>1, <2>2
<1>2. ASSUME Owner(t, k, j), Related(t[j]) PROVE t[j].uid \in Stretch(t, k)   BY <1>2, StretchIs
<1> QED BY <1>1, <1>2

\* An NAA is its own owner.
LEMMA OwnsItself ==
  ASSUME NEW t \in Seq(PEs), NEW k \in 1 .. Len(t), t[k].type \in NaaTypes
  PROVE  Owner(t, k, k) /\ Related(t[k])
<1>1. \A x \in k + 1 .. k : FALSE   OBVIOUS
<1>2. k \in 1 .. k   OBVIOUS
<1>3. Related(t[k])   BY DEF Related, NaaTypes, petype_not_naa_related
<1> QED BY <1>1, <1>2, <1>3 DEF Owner

-----------------------------------------------------------------------------
(* Edits                                                                     *)

InstanceRecords == [mandated : BOOLEAN, pes : SUBSET Nat, pin : SUBSET Nat]

\* The PEs in an instance of an NAA count for it.
InstanceOf(pe, naa) == Related(pe) /\ (pe.type \in NaaTypes => pe.type = naa)

\* What every instance of a list satisfies: its PIN2 is in one of its PEs, and
\* these are PEs of the list that count for the NAA.
LEMMA InstanceFacts ==
  ASSUME NEW list \in Seq(PEs), UniqueUids(list), NEW naa \in NaaTypes, NEW inst \in Instances(list, naa)
  PROVE  /\ inst \in InstanceRecords
         /\ inst.pin \subseteq inst.pes /\ inst.pes \subseteq Uids(list)
         /\ \A i \in 1 .. Len(list) : list[i].uid \in inst.pin => list[i].pin2 # "-"
         /\ \A i \in 1 .. Len(list) : list[i].uid \in inst.pes => InstanceOf(list[i], naa)
         /\ \A i \in 1 .. Len(list) : list[i].uid \in inst.pes /\ i = 1 => list[i].type \in NaaTypes
<1>0. Len(list) \in Nat /\ DOMAIN list = 1 .. Len(list) /\ \A i \in 1 .. Len(list) : list[i] \in PEs
  BY LenProperties, ElementOfSeq
<1>1. PICK i \in Where(list, naa) : inst = Instance(list, i)   BY DEF Instances
<1>2. i \in 1 .. Len(list) /\ list[i].type \in NaaTypes   BY DEF Where
<1>3. /\ inst.mandated = list[i].mandated /\ inst.pes = Stretch(list, i)
      /\ inst.pin = PinOf(list, Stretch(list, i))
      /\ inst = [mandated |-> inst.mandated, pes |-> inst.pes, pin |-> inst.pin]
  BY <1>1 DEF Instance
<1>4. \A u \in inst.pes : \E j \in 1 .. Len(list) : u = list[j].uid   BY <1>2, <1>3, StretchIs
<1>5. \A u \in inst.pin : \E j \in 1 .. Len(list) :
        u = list[j].uid /\ list[j].uid \in inst.pes /\ list[j].pin2 # "-"
  BY <1>3 DEF PinOf, First, Where
<1>6. \A j \in 1 .. Len(list) : list[j].uid \in Nat /\ list[j].mandated \in BOOLEAN
  BY <1>0 DEF PEs
<1>7. \A j \in 1 .. Len(list) : list[j].uid \in Uids(list)
  BY <1>0 DEF Uids, Range
<1>8. inst \in InstanceRecords
  <2>1. inst.pes \in SUBSET Nat   BY <1>4, <1>6
  <2>2. inst.pin \in SUBSET Nat   BY <1>5, <1>6
  <2>3. inst.mandated \in BOOLEAN   BY <1>2, <1>3, <1>6
  <2> QED BY <1>3, <2>1, <2>2, <2>3 DEF InstanceRecords
<1>9. ASSUME NEW k \in 1 .. Len(list), list[k].uid \in inst.pin PROVE list[k].pin2 # "-"
  <2>1. PICK j \in 1 .. Len(list) : list[k].uid = list[j].uid /\ list[j].pin2 # "-"   BY <1>5, <1>9
  <2>2. k = j   BY <2>1 DEF UniqueUids
  <2> QED BY <2>1, <2>2
<1>10. ASSUME NEW j \in 1 .. Len(list), list[j].uid \in inst.pes
       PROVE  InstanceOf(list[j], naa) /\ (j = 1 => list[j].type \in NaaTypes)
  <2>1. Owner(list, i, j) /\ Related(list[j])   BY <1>2, <1>3, <1>10, OwnStretch
  <2>2. ASSUME list[j].type \in NaaTypes PROVE list[j].type = naa
    <3>1. Owner(list, j, j)   BY <2>2, OwnsItself
    <3>2. i = j   BY <2>1, <3>1, OwnerUnique
    <3> QED BY <3>2 DEF Where
  <2>3. ASSUME j = 1 PROVE list[j].type \in NaaTypes
    <3>1. i = 1   BY <2>1, <2>3 DEF Owner
    <3> QED BY <1>2, <2>3, <3>1
  <2> QED BY <2>1, <2>2, <2>3 DEF InstanceOf
<1> QED BY <1>4, <1>5, <1>7, <1>8, <1>9, <1>10

\* A PE that an edit left as it was, but for its identification.
SamePE(a, b) ==
  SameObject(a, b) /\ a.pin2 = b.pin2 /\ a.value = b.value /\ a.adf = b.adf

\* Every PE of s is one of t, or has been added.
Edited(s, t, uids) ==
  \A i \in 1 .. Len(s) :
    \/ \E j \in 1 .. Len(t) : SamePE(s[i], t[j])
    \/ s[i].uid \notin uids /\ s[i].type \in {"application", "securityDomain"}

\* Removing PEs that count for no NAA leaves the instances.
LEMMA UnrelatedRemoved ==
  ASSUME NEW t \in Seq(PEs), UniqueUids(t), NEW I \in SUBSET (1 .. Len(t)),
         \A j \in 1 .. Len(t) : j \in I \/ ~Related(t[j]),
         NEW naa \in NaaTypes
  PROVE  Instances(At(t, I), naa) = Instances(t, naa)
<1> DEFINE s == At(t, I)
<1>1. s \in Seq(PEs) /\ SublistAt(s, t, I)   BY AtIsSublist
<1>2. PICK h : Embedded(h, s, t, I) /\ \A i \in 1 .. Len(s) : s[i] = t[h[i]]
  BY <1>1 DEF SublistAt
<1> HIDE DEF s
<1>3. SameObjects(h, s, t)   BY <1>2 DEF SameObjects, SameObject
<1>4. \A j \in 1 .. Len(t) : t[j].type \in NaaTypes => j \in I
  BY DEF Related, NaaTypes, petype_not_naa_related
<1>5. StretchwiseKept(t, I)   BY <1>4 DEF StretchwiseKept, Owner
<1>6. Where(t, naa) \subseteq I   BY <1>4 DEF Where
<1>7. Embedded(h, s, t, I)   BY <1>2
<1> QED BY <1>1, <1>3, <1>5, <1>6, <1>7, SameInstances DEF s

\* An inserted PE that counts for no NAA leaves the instances.
LEMMA UnrelatedInserted ==
  ASSUME NEW t \in Seq(PEs), UniqueUids(t), NEW i \in 1 .. Len(t), NEW pe \in PEs,
         pe.uid \notin Uids(t), ~Related(pe)
  PROVE  LET s == inserted(t, i, pe)
         IN  /\ s \in Seq(PEs) /\ Len(s) = Len(t) + 1
             /\ UniqueUids(s) /\ Numbered(s)
             /\ \A naa \in NaaTypes : Instances(s, naa) = Instances(t, naa)
             /\ \A k \in 1 .. Len(s) :
                  /\ k <= i => SamePE(s[k], t[k])
                  /\ k = i + 1 => SamePE(s[k], pe)
                  /\ k > i + 1 => SamePE(s[k], t[k - 1])
<1> DEFINE r == InsertAt(t, i + 1, pe)
           s == inserted(t, i, pe)
           h == [k \in 1 .. Len(t) |-> IF k <= i THEN k ELSE k + 1]
           I == (1 .. Len(t) + 1) \ {i + 1}
<1>0. Len(t) \in Nat /\ DOMAIN t = 1 .. Len(t) /\ i \in Nat /\ \A k \in 1 .. Len(t) : t[k] \in PEs
  BY LenProperties, ElementOfSeq
<1>1. /\ r \in Seq(PEs) /\ Len(r) = Len(t) + 1
      /\ \A k \in 1 .. Len(t) + 1 : r[k] = IF k <= i THEN t[k] ELSE IF k = i + 1 THEN pe ELSE t[k - 1]
  <2> DEFINE a == SubSeq(t, 1, i)
             b == SubSeq(t, i + 1, Len(t))
  <2>1. a \in Seq(PEs) /\ Len(a) = i /\ \A k \in 1 .. i : a[k] = t[k]
    BY <1>0, SubSeqProperties
  <2>2. b \in Seq(PEs) /\ Len(b) = Len(t) - i /\ \A k \in 1 .. Len(t) - i : b[k] = t[i + k]
    <3> DEFINE m == i + 1
               n == Len(t)
    <3>1. m \in Int /\ n \in Int /\ \A k \in m .. n : t[k] \in PEs   BY <1>0
    <3>6. i <= n /\ m \in Nat /\ n \in Nat   BY <1>0
    <3>2. n - m + 1 = Len(t) - i   BY <1>0
    <3>7. m <= n \/ Len(t) - i = 0
      <4> HIDE DEF n, r, s, h, I, a, b
      <4>1. n = Len(t)   BY DEF n
      <4>2. i < n \/ i = n   BY <3>6
      <4> QED BY <3>6, <4>1, <4>2
    <3>5. \A k \in 1 .. n - m + 1 : m + k - 1 = i + k   BY <1>0
    <3>3. b = SubSeq(t, m, n)   OBVIOUS
    <3> HIDE DEF m, n, b
    <3>4. b \in Seq(PEs) /\ Len(b) = (IF m <= n THEN n - m + 1 ELSE 0)
          /\ \A k \in 1 .. n - m + 1 : b[k] = t[m + k - 1]
      BY <3>1, <3>3, SubSeqProperties
    <3> QED BY <1>0, <3>1, <3>2, <3>4, <3>5, <3>7
  <2>3. r = a \o <<pe>> \o b
    <3>1. (i + 1) - 1 = i   BY <1>0
    <3> HIDE DEF r
    <3>2. r = SubSeq(t, 1, (i + 1) - 1) \o <<pe>> \o SubSeq(t, i + 1, Len(t))   BY DEF InsertAt, r
    <3> QED BY <3>1, <3>2
  <2> HIDE DEF a, b, r
  <2> DEFINE c == a \o <<pe>>
  <2>4. c \in Seq(PEs) /\ Len(c) = i + 1 /\ \A k \in 1 .. i + 1 : c[k] = IF k <= i THEN t[k] ELSE pe
    <3>1. c = Append(a, pe)   BY <2>1
    <3> QED BY <1>0, <2>1, <3>1
  <2> HIDE DEF c
  <2>5. r = c \o b   BY <2>3 DEF c
  <2>6. r \in Seq(PEs) /\ Len(r) = Len(c) + Len(b)
        /\ \A k \in 1 .. Len(c) + Len(b) : r[k] = IF k <= Len(c) THEN c[k] ELSE b[k - Len(c)]
    BY <2>2, <2>4, <2>5, ConcatProperties
  <2>7. Len(r) = Len(t) + 1   BY <1>0, <2>2, <2>4, <2>6
  <2>8. ASSUME NEW k \in 1 .. Len(t) + 1
        PROVE  r[k] = IF k <= i THEN t[k] ELSE IF k = i + 1 THEN pe ELSE t[k - 1]
    <3>1. k <= i + 1 => k \in 1 .. i + 1   BY <1>0
    <3>2. k > i + 1 => k - (i + 1) \in 1 .. Len(t) - i /\ i + (k - (i + 1)) = k - 1   BY <1>0
    <3>3. k \in 1 .. Len(c) + Len(b)   BY <1>0, <2>2, <2>4
    <3>4. CASE k <= i + 1   BY <1>0, <2>4, <2>6, <3>1, <3>3, <3>4
    <3>5. CASE k > i + 1   BY <1>0, <2>2, <2>4, <2>6, <3>2, <3>3, <3>5
    <3> QED BY <1>0, <3>4, <3>5
  <2> QED BY <2>6, <2>7, <2>8
<1> HIDE DEF r
<1>2. /\ s \in Seq(PEs) /\ Len(s) = Len(t) + 1 /\ Numbered(s)
      /\ \A k \in 1 .. Len(t) + 1 : \E n \in Nat : s[k] = [r[k] EXCEPT !.identification = n]
  BY <1>1, Renumbered DEF inserted, r
<1> HIDE DEF s
<1>3. \A k \in 1 .. Len(t) + 1 : r[k] \in PEs   BY <1>1, ElementOfSeq
<1>4. \A k \in 1 .. Len(t) + 1 : SamePE(s[k], r[k])
  <2> TAKE k \in 1 .. Len(t) + 1
  <2>1. PICK x \in PEs : x = r[k]   BY <1>3
  <2>2. PICK n \in Nat : s[k] = [x EXCEPT !.identification = n]   BY <1>2, <2>1
  <2>3. SamePE([x EXCEPT !.identification = n], x)   BY DEF SamePE, SameObject, PEs
  <2> QED BY <2>1, <2>2, <2>3
<1>5. ASSUME NEW k \in 1 .. Len(s)
      PROVE  /\ k <= i => SamePE(s[k], t[k])
             /\ k = i + 1 => SamePE(s[k], pe)
             /\ k > i + 1 => SamePE(s[k], t[k - 1])
  BY <1>0, <1>1, <1>2, <1>4
<1>6. \A k \in 1 .. Len(t) : t[k].uid \in Uids(t)   BY <1>0 DEF Uids, Range
<1>7. UniqueUids(s)
  <2>1. \A k \in 1 .. Len(s) : s[k].uid = r[k].uid   BY <1>2, <1>4 DEF SamePE, SameObject
  <2>2. ASSUME NEW j \in 1 .. Len(t) + 1, NEW k \in 1 .. Len(t) + 1, r[j].uid = r[k].uid PROVE j = k
    <3> DEFINE place(x) == IF x <= i THEN x ELSE x - 1
    <3>1. \A x \in 1 .. Len(t) + 1 : x # i + 1 => place(x) \in 1 .. Len(t) /\ r[x] = t[place(x)]
      BY <1>0, <1>1
    <3>2. \A x \in 1 .. Len(t) + 1 : x = i + 1 => r[x] = pe   BY <1>0, <1>1
    <3>3. CASE j = i + 1 \/ k = i + 1
      <4> HIDE DEF place
      <4> QED BY <1>6, <2>2, <3>1, <3>2, <3>3
    <3>4. CASE j # i + 1 /\ k # i + 1
      <4>1. place(j) = place(k)
        <5> HIDE DEF place
        <5> QED BY <2>2, <3>1, <3>4 DEF UniqueUids
      <4> QED BY <1>0, <3>4, <4>1
    <3> QED BY <3>3, <3>4
  <2> QED BY <1>2, <2>1, <2>2 DEF UniqueUids
<1>8. Embedded(h, t, s, I)
  <2>1. \A k \in 1 .. Len(t) : h[k] \in I   BY <1>0
  <2>2. h \in [1 .. Len(t) -> I]   BY <2>1
  <2>3. \A j, k \in 1 .. Len(t) : j < k => h[j] < h[k]   BY <1>0
  <2>4. ASSUME NEW k \in I PROVE \E j \in 1 .. Len(t) : h[j] = k
    <3>1. CASE k <= i
      <4>1. k \in 1 .. Len(t) /\ h[k] = k   BY <1>0, <3>1
      <4> QED BY <4>1
    <3>2. CASE k > i
      <4>1. k - 1 \in 1 .. Len(t) /\ h[k - 1] = k   BY <1>0, <3>2
      <4> QED BY <4>1
    <3> QED BY <1>0, <3>1, <3>2
  <2> HIDE DEF h, I
  <2> QED BY <2>2, <2>3, <2>4 DEF Embedded
<1>9. SameObjects(h, t, s)
  <2> SUFFICES ASSUME NEW k \in 1 .. Len(t) PROVE SameObject(t[k], s[h[k]])
    BY DEF SameObjects
  <2>1. CASE k <= i
    <3>1. h[k] = k /\ k \in 1 .. Len(s)   BY <1>0, <1>2, <2>1
    <3> QED BY <1>5, <2>1, <3>1 DEF SamePE, SameObject
  <2>2. CASE k > i
    <3>1. h[k] = k + 1 /\ k + 1 \in 1 .. Len(s) /\ k + 1 > i + 1 /\ k + 1 - 1 = k   BY <1>0, <1>2, <2>2
    <3>2. SamePE(s[k + 1], t[k])   BY <1>5, <3>1
    <3> QED BY <3>1, <3>2 DEF SamePE, SameObject
  <2> QED BY <1>0, <2>1, <2>2
<1>10. \A j \in 1 .. Len(s) : Related(s[j]) => j \in I
  <2> TAKE j \in 1 .. Len(s)
  <2>1. j = i + 1 => SamePE(s[j], pe)   BY <1>5
  <2>2. j = i + 1 => ~Related(s[j])   BY <2>1 DEF SamePE, SameObject, Related
  <2> QED BY <1>2, <2>2
<1>11. \A j \in 1 .. Len(s) : s[j].type \in NaaTypes => j \in I
  BY <1>10 DEF Related, NaaTypes, petype_not_naa_related
<1>12. I \in SUBSET (1 .. Len(s))   BY <1>2
<1> HIDE DEF h, I
<1>13. StretchwiseKept(s, I)   BY <1>10, <1>11 DEF StretchwiseKept, Owner
<1>14. ASSUME NEW naa \in NaaTypes PROVE Instances(s, naa) = Instances(t, naa)
  <2>1. Where(s, naa) \subseteq I   BY <1>11 DEF Where
  <2> QED BY <1>2, <1>7, <1>8, <1>9, <1>12, <1>13, <2>1, SameInstances
<1> QED BY <1>2, <1>5, <1>7, <1>14 DEF s

\* Of the objects in uids the list has those of the instances of n only.
OfInstances(t, n, uids) == \A u \in uids \cap Uids(t) : \E inst \in Instances(t, n) : u \in inst.pes

HasInstances(t, n, uids) == \A inst \in Instances(t, n) : inst.pes \subseteq uids

NaaIsGone(s, t, n, uids) ==
  /\ s \in Seq(PEs) /\ SublistAt(s, t, {i \in 1 .. Len(t) : t[i].uid \notin uids})
  /\ n \notin Types(s) /\ Uids(s) \cap uids = {}
  /\ OfInstances(t, n, uids) =>
       \A m \in NaaTypes : m # n => Instances(s, m) = Instances(t, m)

\* Removing the PEs of the instances of an NAA takes the NAA, and of the
\* others nothing.
LEMMA NaaRemoved ==
  ASSUME NEW t \in Seq(PEs), UniqueUids(t), NEW n \in NaaTypes, NEW uids,
         HasInstances(t, n, uids), NEW s, s = Keep(t, Uids(t) \ uids)
  PROVE  NaaIsGone(s, t, n, uids)
<1> DEFINE I == {i \in 1 .. Len(t) : t[i].uid \notin uids}
<1>0. Len(t) \in Nat /\ DOMAIN t = 1 .. Len(t) /\ I \in SUBSET (1 .. Len(t))   BY LenProperties
<1>1. s = At(t, I)
  <2>1. \A i \in 1 .. Len(t) : t[i].uid \in Uids(t)   BY <1>0 DEF Uids, Range
  <2>2. {i \in 1 .. Len(t) : t[i].uid \in Uids(t) \ uids} = I   BY <2>1
  <2> QED BY <2>2 DEF Keep
<1>2. s \in Seq(PEs) /\ SublistAt(s, t, I)   BY <1>0, <1>1, AtIsSublist
<1>3. PICK h : Embedded(h, s, t, I) /\ \A i \in 1 .. Len(s) : s[i] = t[h[i]]
  BY <1>2 DEF SublistAt
<1>4. Embedded(h, s, t, I) /\ SameObjects(h, s, t)   BY <1>3 DEF SameObjects, SameObject
<1>5. \A i \in 1 .. Len(s) : h[i] \in I /\ s[i] = t[h[i]]   BY <1>3 DEF Embedded
<1>6. DOMAIN s = 1 .. Len(s)   BY <1>2, LenProperties
<1>7. Uids(s) \cap uids = {}   BY <1>5, <1>6 DEF Uids, Range
<1>8. \A k \in Where(t, n) : t[k].uid \in uids
  <2> TAKE k \in Where(t, n)
  <2>1. k \in 1 .. Len(t) /\ t[k].type = n   BY DEF Where
  <2>2. t[k].type \in NaaTypes   BY <2>1
  <2>3. t[k].uid \in Stretch(t, k)   BY <2>1, <2>2, OwnStretch, OwnsItself
  <2>4. Instance(t, k).pes = Stretch(t, k)   BY DEF Instance
  <2>5. Instance(t, k) \in Instances(t, n)   BY DEF Instances
  <2> QED BY <2>3, <2>4, <2>5 DEF HasInstances
<1>9. n \notin Types(s)
  <2> SUFFICES ASSUME NEW i \in 1 .. Len(s), s[i].type = n PROVE FALSE   BY <1>6 DEF Types, Range
  <2>1. h[i] \in I /\ t[h[i]].type = n   BY <1>5
  <2>2. h[i] \in Where(t, n)   BY <2>1 DEF Where
  <2> QED BY <1>8, <2>1, <2>2
<1>10. ASSUME OfInstances(t, n, uids),
              NEW m \in NaaTypes, m # n
       PROVE  Instances(s, m) = Instances(t, m)
  <2>1. ASSUME NEW j \in 1 .. Len(t), t[j].uid \in uids
        PROVE  \E k \in Where(t, n) : Owner(t, k, j) /\ Related(t[j])
    <3>1. t[j].uid \in Uids(t)   BY <1>0 DEF Uids, Range
    <3>2. PICK inst \in Instances(t, n) : t[j].uid \in inst.pes   BY <1>10, <2>1, <3>1 DEF OfInstances
    <3>3. PICK k \in Where(t, n) : inst = Instance(t, k)   BY DEF Instances
    <3>4. t[j].uid \in Stretch(t, k)   BY <3>2, <3>3 DEF Instance
    <3>5. k \in 1 .. Len(t) /\ t[k].type \in NaaTypes   BY DEF Where
    <3>6. Owner(t, k, j) /\ Related(t[j])   BY <3>4, <3>5, OwnStretch
    <3> QED BY <3>6
  <2>2. ASSUME NEW k \in 1 .. Len(t), t[k].type \in NaaTypes, t[k].uid \in uids
        PROVE  t[k].type = n
    <3>1. PICK x \in Where(t, n) : Owner(t, x, k)   BY <2>1, <2>2
    <3>2. Owner(t, k, k)   BY <2>2, OwnsItself
    <3>3. x = k   BY <3>1, <3>2, OwnerUnique
    <3> QED BY <3>3 DEF Where
  <2>3. ASSUME NEW j \in 1 .. Len(t), NEW k \in 1 .. Len(t), Owner(t, k, j), Related(t[j])
        PROVE  k \in I <=> j \in I
    <3>0. t[k].type \in NaaTypes   BY <2>3 DEF Owner
    <3>1. ASSUME t[j].uid \in uids PROVE t[k].uid \in uids
      <4>1. PICK x \in Where(t, n) : Owner(t, x, j)   BY <2>1, <3>1
      <4>2. x = k   BY <2>3, <4>1, OwnerUnique
      <4> QED BY <1>8, <4>2
    <3>2. ASSUME t[k].uid \in uids PROVE t[j].uid \in uids
      <4>1. t[k].type = n   BY <2>2, <3>0, <3>2
      <4>2. k \in Where(t, n)   BY <4>1 DEF Where
      <4>3. t[j].uid \in Stretch(t, k)   BY <2>3, <3>0, OwnStretch
      <4>4. Instance(t, k) \in Instances(t, n) /\ Instance(t, k).pes = Stretch(t, k)
        BY <4>2 DEF Instances, Instance
      <4> QED BY <4>3, <4>4 DEF HasInstances
    <3> QED BY <3>1, <3>2
  <2>4. StretchwiseKept(t, I)
    <3> HIDE DEF I
    <3> QED BY <2>3 DEF StretchwiseKept
  <2>5. Where(t, m) \subseteq I   BY <1>10, <2>2 DEF Where
  <2> HIDE DEF I
  <2> QED BY <1>0, <1>2, <1>4, <1>10, <2>4, <2>5, SameInstances
<1> QED BY <1>2, <1>7, <1>9, <1>10 DEF NaaIsGone

\* A list whose PEs are all of another one is numbered, and its objects are
\* distinct, where those of the other are; its PEs are as they were.
LEMMA Removed ==
  ASSUME NEW t \in Seq(PEs), NEW I \in SUBSET (1 .. Len(t)), UniqueUids(t), Numbered(t)
  PROVE  LET s == At(t, I)
         IN  /\ s \in Seq(PEs) /\ UniqueUids(s) /\ Numbered(s)
             /\ Uids(s) \subseteq Uids(t) /\ Types(s) \subseteq Types(t)
             /\ \A i \in 1 .. Len(s) : \E j \in I : s[i] = t[j]
             /\ \A j \in I : t[j] \in Range(s)
<1> DEFINE s == At(t, I)
<1>1. s \in Seq(PEs) /\ SublistAt(s, t, I)   BY AtIsSublist
<1> HIDE DEF s
<1>2. /\ UniqueUids(s) /\ Numbered(s) /\ Range(s) \subseteq Range(t)
      /\ \A i \in 1 .. Len(s) : \E j \in I : s[i] = t[j]
      /\ \A j \in I : t[j] \in Range(s)
  BY <1>1, SublistNumbered
<1>3. Uids(s) \subseteq Uids(t) /\ Types(s) \subseteq Types(t)   BY <1>2 DEF Uids, Types
<1> QED BY <1>1, <1>2, <1>3 DEF s

Agree(h, g, n) == \A i \in 1 .. n : h[i] = g[i]

\* Two enumerations of the same positions in order agree as far as both go.
LEMMA EnumerationsAgree ==
  ASSUME NEW a \in Nat, NEW b \in Nat, NEW I \in SUBSET Nat, NEW h, NEW g,
         \A i \in 1 .. a : h[i] \in I, \A k \in I : \E i \in 1 .. a : h[i] = k,
         \A i \in 1 .. b : g[i] \in I, \A k \in I : \E i \in 1 .. b : g[i] = k,
         InOrder(h, a), InOrder(g, b)
  PROVE  a = b /\ Agree(h, g, a)
<1> DEFINE T == {i \in Nat : i \in 1 .. a /\ i \in 1 .. b /\ h[i] # g[i]}
<1>1. T = {}
  <2> SUFFICES ASSUME T # {} PROVE FALSE   OBVIOUS
  <2>1. PICK i \in T : \A j \in T : i <= j
    <3>1. T \subseteq Nat   OBVIOUS
    <3> HIDE DEF T
    <3> QED BY <3>1, LeastOf
  <2>2. i \in 1 .. a /\ i \in 1 .. b /\ h[i] # g[i]   BY <2>1
  <2>3. h[i] \in I /\ g[i] \in I /\ h[i] \in Nat /\ g[i] \in Nat   BY <2>2
  <2>4. \A j \in 1 .. a : j \in 1 .. b /\ j < i => h[j] = g[j]
    <3> TAKE j \in 1 .. a
    <3>1. j \in Nat /\ i \in Nat   BY <2>2
    <3>2. j < i => j \notin T   BY <2>1, <3>1
    <3> QED BY <3>1, <3>2
  <2> HIDE DEF T
  <2>5. CASE h[i] < g[i]
    <3>1. PICK j \in 1 .. b : g[j] = h[i]   BY <2>3
    <3>2. j < i   BY <2>2, <2>5, <3>1 DEF InOrder
    <3>3. j \in 1 .. a   BY <2>2, <3>1, <3>2
    <3>4. h[j] = h[i]   BY <2>4, <3>1, <3>2, <3>3
    <3>5. j = i   BY <2>2, <3>3, <3>4 DEF InOrder
    <3> QED BY <2>2, <3>1, <3>5
  <2>6. CASE g[i] < h[i]
    <3>1. PICK j \in 1 .. a : h[j] = g[i]   BY <2>3
    <3>2. j < i   BY <2>2, <2>6, <3>1 DEF InOrder
    <3>3. j \in 1 .. b   BY <2>2, <3>1, <3>2
    <3>4. g[j] = g[i]   BY <2>4, <3>1, <3>2, <3>3
    <3>5. j = i   BY <2>2, <3>3, <3>4 DEF InOrder
    <3> QED BY <2>2, <3>1, <3>5
  <2> QED BY <2>2, <2>3, <2>5, <2>6
<1>2. \A i \in 1 .. a : i \in 1 .. b => h[i] = g[i]   BY <1>1
<1> HIDE DEF T
<1>3. ~ (a < b)
  <2> SUFFICES ASSUME a < b PROVE FALSE   OBVIOUS
  <2>1. a + 1 \in 1 .. b   OBVIOUS
  <2>2. PICK j \in 1 .. a : h[j] = g[a + 1]   BY <2>1
  <2>3. j \in 1 .. b   BY <2>2
  <2>4. g[j] = g[a + 1]   BY <1>2, <2>2, <2>3
  <2>5. j = a + 1   BY <2>1, <2>3, <2>4 DEF InOrder
  <2> QED BY <2>2, <2>5
<1>4. ~ (b < a)
  <2> SUFFICES ASSUME b < a PROVE FALSE   OBVIOUS
  <2>1. b + 1 \in 1 .. a   OBVIOUS
  <2>2. PICK j \in 1 .. b : g[j] = h[b + 1]   BY <2>1
  <2>3. j \in 1 .. a   BY <2>2
  <2>4. h[j] = h[b + 1]   BY <1>2, <2>2, <2>3
  <2>5. j = b + 1   BY <2>1, <2>3, <2>4 DEF InOrder
  <2> QED BY <2>2, <2>5
<1>5. a = b   BY <1>3, <1>4
<1> QED BY <1>2, <1>5 DEF Agree

\* There is one sublist at some positions.
LEMMA SublistUnique ==
  ASSUME NEW r \in Seq(PEs), NEW s \in Seq(PEs), NEW t \in Seq(PEs), NEW I \in SUBSET (1 .. Len(t)),
         SublistAt(r, t, I), SublistAt(s, t, I)
  PROVE  r = s
<1>0. Len(r) \in Nat /\ Len(s) \in Nat /\ Len(t) \in Nat   BY LenProperties
<1>1. PICK h : Embedded(h, r, t, I) /\ \A i \in 1 .. Len(r) : r[i] = t[h[i]]   BY DEF SublistAt
<1>2. PICK g : Embedded(g, s, t, I) /\ \A i \in 1 .. Len(s) : s[i] = t[g[i]]   BY DEF SublistAt
<1>3. I \in SUBSET Nat   OBVIOUS
<1>4. Embedded(h, r, t, I) /\ Embedded(g, s, t, I)   BY <1>1, <1>2
<1>5. InOrder(h, Len(r)) /\ InOrder(g, Len(s))   BY <1>4, EmbeddedOrder
<1>6. /\ \A i \in 1 .. Len(r) : h[i] \in I
      /\ \A k \in I : \E i \in 1 .. Len(r) : h[i] = k
      /\ \A i \in 1 .. Len(s) : g[i] \in I
      /\ \A k \in I : \E i \in 1 .. Len(s) : g[i] = k
  BY <1>4 DEF Embedded
<1>7. Len(r) = Len(s) /\ Agree(h, g, Len(r))
  <2> DEFINE a == Len(r)
             b == Len(s)
  <2>1. a \in Nat /\ b \in Nat /\ InOrder(h, a) /\ InOrder(g, b)   BY <1>0, <1>5
  <2>2. (\A i \in 1 .. a : h[i] \in I) /\ (\A k \in I : \E i \in 1 .. a : h[i] = k)   BY <1>6
  <2>3. (\A i \in 1 .. b : g[i] \in I) /\ (\A k \in I : \E i \in 1 .. b : g[i] = k)   BY <1>6
  <2> HIDE DEF a, b
  <2>4. a = b /\ Agree(h, g, a)   BY <1>3, <2>1, <2>2, <2>3, EnumerationsAgree
  <2> QED BY <2>4 DEF a, b
<1>8. \A i \in 1 .. Len(r) : r[i] = s[i]   BY <1>1, <1>2, <1>7 DEF Agree
<1> QED BY <1>7, <1>8, SeqEqual

\* J are the positions in I where a list has the elements of P.
Selects(J, I, list, P) == \A j : j \in J <=> j \in I /\ list[j] \in P

\* A sublist of a sublist is one, of the positions the latter has.
LEMMA SublistOfSublist ==
  ASSUME NEW s \in Seq(PEs), NEW r \in Seq(PEs), NEW t \in Seq(PEs),
         NEW I \in SUBSET (1 .. Len(t)), NEW J \in SUBSET (1 .. Len(r)), NEW P,
         SublistAt(r, t, I), SublistAt(s, r, J),
         Selects(J, 1 .. Len(r), r, P), NEW rest, Selects(rest, I, t, P)
  PROVE  SublistAt(s, t, rest)
<1>0. Len(r) \in Nat /\ Len(s) \in Nat /\ Len(t) \in Nat   BY LenProperties
<1>1. PICK h : Embedded(h, r, t, I) /\ \A i \in 1 .. Len(r) : r[i] = t[h[i]]   BY DEF SublistAt
<1>2. PICK g : Embedded(g, s, r, J) /\ \A i \in 1 .. Len(s) : s[i] = r[g[i]]   BY DEF SublistAt
<1>3. Embedded(h, r, t, I) /\ Embedded(g, s, r, J)   BY <1>1, <1>2
<1>4. InOrder(h, Len(r)) /\ InOrder(g, Len(s))   BY <1>3, EmbeddedOrder
<1>5. \A i \in 1 .. Len(s) : g[i] \in J /\ g[i] \in 1 .. Len(r) /\ s[i] = r[g[i]]
  BY <1>2, <1>3, EmbeddedOrder
<1>6. \A j \in 1 .. Len(r) : h[j] \in I /\ r[j] = t[h[j]]   BY <1>1, <1>3, EmbeddedOrder
<1> DEFINE f == [i \in 1 .. Len(s) |-> h[g[i]]]
<1>7. \A i \in 1 .. Len(s) : f[i] = h[g[i]] /\ f[i] \in rest /\ s[i] = t[f[i]]
  <2> TAKE i \in 1 .. Len(s)
  <2>1. g[i] \in J /\ g[i] \in 1 .. Len(r) /\ s[i] = r[g[i]]   BY <1>5
  <2>2. h[g[i]] \in I /\ r[g[i]] = t[h[g[i]]] /\ r[g[i]] \in P   BY <1>6, <2>1 DEF Selects
  <2> QED BY <2>1, <2>2 DEF Selects
<1>8. f \in [1 .. Len(s) -> rest]   BY <1>7
<1>9. ASSUME NEW i \in 1 .. Len(s), NEW j \in 1 .. Len(s), i < j PROVE f[i] < f[j]
  <2>1. g[i] < g[j]   BY <1>4, <1>9 DEF InOrder
  <2>2. h[g[i]] < h[g[j]]   BY <1>4, <1>5, <2>1 DEF InOrder
  <2> QED BY <2>2
<1>10. ASSUME NEW k \in rest PROVE \E i \in 1 .. Len(s) : f[i] = k
  <2>0. k \in I /\ t[k] \in P   BY DEF Selects
  <2>1. PICK j \in 1 .. Len(r) : h[j] = k   BY <1>3, <2>0 DEF Embedded
  <2>2. j \in J   BY <1>6, <2>0, <2>1 DEF Selects
  <2>3. PICK i \in 1 .. Len(s) : g[i] = j   BY <1>3, <2>2 DEF Embedded
  <2> QED BY <2>1, <2>3
<1> HIDE DEF f
<1>11. Embedded(f, s, t, rest)   BY <1>8, <1>9, <1>10 DEF Embedded
<1> QED BY <1>7, <1>11 DEF SublistAt

\* A sublist that has the first PEs or the last starts or ends with them.
LEMMA SublistEnds ==
  ASSUME NEW s \in Seq(PEs), NEW t \in Seq(PEs), NEW I \in SUBSET (1 .. Len(t)), SublistAt(s, t, I)
  PROVE  /\ 1 \in I => Len(s) >= 1 /\ s[1] = t[1]
         /\ 1 \in I /\ 2 \in I => Len(s) >= 2 /\ s[2] = t[2]
         /\ Len(t) \in I => Len(s) >= 1 /\ s[Len(s)] = t[Len(t)]
<1>0. Len(s) \in Nat /\ Len(t) \in Nat   BY LenProperties
<1>1. PICK h : Embedded(h, s, t, I) /\ \A i \in 1 .. Len(s) : s[i] = t[h[i]]   BY DEF SublistAt
<1>2. Embedded(h, s, t, I)   BY <1>1
<1>3. /\ \A i \in 1 .. Len(s) : h[i] \in I /\ h[i] \in 1 .. Len(t)
      /\ InOrder(h, Len(s))
  BY <1>2, EmbeddedOrder
<1>4. \A k \in I : \E i \in 1 .. Len(s) : h[i] = k   BY <1>2 DEF Embedded
<1>5. ASSUME 1 \in I PROVE 1 \in 1 .. Len(s) /\ h[1] = 1
  <2>1. PICK a \in 1 .. Len(s) : h[a] = 1   BY <1>4, <1>5
  <2>2. 1 \in 1 .. Len(s)   BY <1>0, <2>1
  <2>3. ~ (1 < a)
    <3>1. 1 < a => h[1] < h[a]   BY <1>3, <2>1, <2>2 DEF InOrder
    <3>2. h[1] \in 1 .. Len(t)   BY <1>3, <2>2
    <3> QED BY <2>1, <3>1, <3>2
  <2>4. a = 1   BY <2>1, <2>3
  <2> QED BY <2>1, <2>2, <2>4
<1>6. ASSUME 1 \in I, 2 \in I PROVE 2 \in 1 .. Len(s) /\ h[2] = 2
  <2>1. PICK b \in 1 .. Len(s) : h[b] = 2   BY <1>4, <1>6
  <2>2. 1 \in 1 .. Len(s) /\ h[1] = 1   BY <1>5, <1>6
  <2>3. b # 1   BY <2>1, <2>2
  <2>4. 2 \in 1 .. Len(s)   BY <1>0, <2>1, <2>3
  <2>5. ~ (2 < b)
    <3>1. h[1] < h[2]   BY <1>3, <2>2, <2>4 DEF InOrder
    <3>2. 2 < b => h[2] < h[b]   BY <1>3, <2>1, <2>4 DEF InOrder
    <3>3. h[2] \in 1 .. Len(t)   BY <1>3, <2>4
    <3> QED BY <2>1, <2>2, <3>1, <3>2, <3>3
  <2>6. b = 2   BY <2>1, <2>3, <2>5
  <2> QED BY <2>1, <2>4, <2>6
<1>7. ASSUME Len(t) \in I PROVE Len(s) \in 1 .. Len(s) /\ h[Len(s)] = Len(t)
  <2> DEFINE n == Len(s)
  <2>1. PICK c \in 1 .. n : h[c] = Len(t)   BY <1>4, <1>7
  <2>2. n \in 1 .. n   BY <1>0, <2>1
  <2>3. ~ (c < n)
    <3>1. c < n => h[c] < h[n]   BY <1>3, <2>1, <2>2 DEF InOrder
    <3>2. h[n] \in 1 .. Len(t)   BY <1>3, <2>2
    <3> QED BY <1>0, <2>1, <3>1, <3>2
  <2>4. c = n   BY <1>0, <2>1, <2>3
  <2> QED BY <2>1, <2>2, <2>4
<1> QED BY <1>0, <1>1, <1>5, <1>6, <1>7

-----------------------------------------------------------------------------
(* The inductive invariant                                                   *)

\* The types of the state.
ElementsTypes ==
  /\ file.pes \in Seq(PEs) /\ pe_list \in Seq(PEs)
  /\ loaded \in BOOLEAN /\ ops \in Nat /\ loads \in Nat
  /\ pes_by_naa \in [NaaTypes -> SUBSET InstanceRecords]

\* The objects that are or were in the list of this session.
Known == 1 .. Len(file.pes) + ops

\* The objects in the list are distinct and known.
Objects ==
  loaded => UniqueUids(pe_list) /\ Uids(pe_list) \subseteq Known

\* The list and the file are numbered.
Numbering == Numbered(pe_list) /\ Numbered(file.pes)

\* The file starts with the header.
StartsWithHeader == Len(file.pes) >= 1 /\ file.pes[1].type = "header"

\* A header at the start of the file stays at the start of the list, unless all
\* headers are removed.
HeaderFirst ==
  loaded /\ StartsWithHeader =>
    /\ \A i \in 1 .. Len(pe_list) : pe_list[i].uid = 1 => i = 1 /\ pe_list[i].type = "header"
    /\ \A i \in 1 .. Len(pe_list) : pe_list[i].type = "header" => pe_list[1].uid = 1

\* The index has the instances of the list; what else it has is gone from the
\* list, unless single PEs were removed.
IndexOf(naa) ==
  /\ Instances(pe_list, naa) \subseteq pes_by_naa[naa]
  /\ \A inst \in pes_by_naa[naa] :
       /\ inst.pin \subseteq inst.pes /\ inst.pes \subseteq Known
       /\ \A i \in 1 .. Len(pe_list) : pe_list[i].uid \in inst.pin => pe_list[i].pin2 # "-"
       /\ \A i \in 1 .. Len(pe_list) : pe_list[i].uid \in inst.pes => InstanceOf(pe_list[i], naa)
       /\ StartsWithHeader => 1 \notin inst.pes
       /\ "remove-pe" \notin removed =>
            inst \in Instances(pe_list, naa) \/ inst.pes \cap Uids(pe_list) = {}
  /\ removed = {} => pes_by_naa[naa] = Instances(pe_list, naa)

\* The index is one of every NAA.
Indexed == loaded => \A naa \in NaaTypes : IndexOf(naa)

\* A parameter has its new value at every place that holds it.
InPlace(param) ==
  \A i \in 1 .. Len(pe_list) :
    /\ param = "ICCID" /\ pe_list[i].type \in {"header", "mf"} => pe_list[i].value = "new"
    /\ param = "IMSI" /\ pe_list[i].type = "usim" => pe_list[i].value = "new"
    /\ param = "K" /\ pe_list[i].type = "akaParameter" => pe_list[i].value = "new"
    /\ param = "PIN2" /\ "remove-pe" \notin removed =>
         \A naa \in Removable : \A inst \in Instances(pe_list, naa) :
           pe_list[i].uid \in inst.pin => pe_list[i].pin2 = "new"

\* The parameters applied in this session are in place.
Applied == \A param \in applied : InPlace(param)

\* What was written is the list.
Written ==
  op.name = "write" =>
    file.pes = [i \in 1 .. Len(pe_list) |-> [pe_list[i] EXCEPT !.uid = 0]]

\* The inductive invariant.
ElementsIInv ==
  ElementsTypes /\ Objects /\ Numbering /\ HeaderFirst /\ Indexed /\ Applied /\ Written

-----------------------------------------------------------------------------
(* An edit that changes the list and rebuilds the index                      *)

\* What an edit leaves of the instances of an NAA: all of them or none.
InstancesAfter(s, naa) ==
  \/ Instances(s, naa) = Instances(pe_list, naa)
  \/ Instances(s, naa) = {} /\ \A inst \in pes_by_naa[naa] : inst.pes \cap Uids(s) = {}

\* A header at the start stays there, if not all headers are removed.
HeaderKept(s) ==
  StartsWithHeader /\ Len(pe_list) >= 1 /\ pe_list[1].type = "header" /\ pe_list[1].uid = 1 =>
    \/ \A i \in 1 .. Len(s) : s[i].type # "header"
    \/ Len(s) >= 1 /\ s[1].uid = 1

\* An edit that leaves or removes whole instances, and PEs outside of them,
\* keeps the invariant.
LEMMA EditKeeps ==
  ASSUME ElementsIInv, loaded, ops' = ops + 1, op'.name # "write",
         UNCHANGED <<file, loaded, loads, applied>>, removed \subseteq removed',
         NEW s \in Seq(PEs), New(s), UniqueUids(s), Numbered(s),
         Uids(s) \subseteq 1 .. Len(file.pes) + ops + 1, Edited(s, pe_list, Known), HeaderKept(s),
         removed' = {} => \A naa \in NaaTypes : Instances(s, naa) = Instances(pe_list, naa),
         "remove-pe" \notin removed' => \A naa \in NaaTypes : InstancesAfter(s, naa)
  PROVE  ElementsIInv'
<1> DEFINE t == pe_list
<1>0. /\ t \in Seq(PEs) /\ UniqueUids(t) /\ Uids(t) \subseteq Known /\ ops \in Nat
      /\ pe_list' = s /\ file' = file /\ applied' = applied /\ loaded' = loaded
      /\ DOMAIN s = 1 .. Len(s) /\ DOMAIN t = 1 .. Len(t) /\ Len(file.pes) \in Nat
  BY LenProperties DEF ElementsIInv, ElementsTypes, Objects, New
<1>1. \A naa \in NaaTypes : pes_by_naa'[naa] = pes_by_naa[naa] \cup Instances(s, naa)
  BY DEF New, _rebuild_pes_by_naa
<1>2. Known \subseteq Known' /\ Known' = 1 .. Len(file.pes) + ops + 1
  <2> DEFINE n == Len(file.pes)
  <2>1. Known = 1 .. n + ops /\ Known' = 1 .. n + ops'   BY <1>0 DEF Known
  <2>2. n \in Nat   BY <1>0
  <2> HIDE DEF n
  <2>3. 1 .. n + ops \subseteq 1 .. n + ops + 1   BY <1>0, <2>2
  <2>4. n + ops' = n + ops + 1   BY <1>0, <2>2
  <2> QED BY <2>1, <2>3, <2>4 DEF n
<1>3. ElementsTypes'
  <2>1. \A naa \in NaaTypes : Instances(s, naa) \subseteq InstanceRecords   BY InstanceFacts
  <2>2. pes_by_naa \in [NaaTypes -> SUBSET InstanceRecords]   BY DEF ElementsIInv, ElementsTypes
  <2>3. pes_by_naa' = [naa \in NaaTypes |-> pes_by_naa[naa] \cup Instances(s, naa)]
    BY DEF New, _rebuild_pes_by_naa
  <2>4. pes_by_naa' \in [NaaTypes -> SUBSET InstanceRecords]   BY <2>1, <2>2, <2>3
  <2> QED BY <1>0, <2>4 DEF ElementsIInv, ElementsTypes
<1>4. Objects'   BY <1>0, <1>2 DEF Objects
<1>5. Numbering'   BY <1>0 DEF ElementsIInv, Numbering
<1>6. Written'   BY DEF Written
\* A PE whose object is known is a PE of the old list.
<1>7. ASSUME NEW i \in 1 .. Len(s), s[i].uid \in Known
      PROVE  \E j \in 1 .. Len(t) : SamePE(s[i], t[j])
  BY <1>7 DEF Edited
<1>8. \A j \in 1 .. Len(t) : t[j].uid \in Uids(t)   BY <1>0 DEF Uids, Range
<1>11. ASSUME StartsWithHeader
       PROVE  /\ \A i \in 1 .. Len(s) : s[i].uid = 1 => i = 1 /\ s[i].type = "header"
              /\ \A i \in 1 .. Len(s) : s[i].type = "header" => s[1].uid = 1
  <2>1. /\ \A i \in 1 .. Len(t) : t[i].uid = 1 => i = 1 /\ t[i].type = "header"
        /\ \A i \in 1 .. Len(t) : t[i].type = "header" => t[1].uid = 1
    BY <1>11 DEF ElementsIInv, HeaderFirst
  <2>2. ASSUME NEW i \in 1 .. Len(s), s[i].type = "header" PROVE s[1].uid = 1
    <3>1. PICK j \in 1 .. Len(t) : SamePE(s[i], t[j])   BY <2>2 DEF Edited
    <3>2. t[j].type = "header"   BY <2>2, <3>1 DEF SamePE, SameObject
    <3>3. t[1].uid = 1 /\ Len(t) >= 1 /\ 1 \in 1 .. Len(t)   BY <1>0, <2>1, <3>2
    <3>4. t[1].type = "header"   BY <2>1, <3>3
    <3> QED BY <1>11, <2>2, <3>3, <3>4 DEF HeaderKept
  <2>3. ASSUME NEW i \in 1 .. Len(s), s[i].uid = 1 PROVE i = 1 /\ s[i].type = "header"
    <3>1. 1 \in Known   BY <1>0, <1>11 DEF StartsWithHeader, Known
    <3>2. PICK j \in 1 .. Len(t) : SamePE(s[i], t[j])   BY <1>7, <2>3, <3>1
    <3>3. t[j].uid = 1 /\ s[i].type = t[j].type   BY <2>3, <3>2 DEF SamePE, SameObject
    <3>4. s[i].type = "header"   BY <2>1, <3>3
    <3>5. s[1].uid = 1 /\ 1 \in 1 .. Len(s)   BY <2>2, <3>4
    <3> QED BY <2>3, <3>4, <3>5 DEF UniqueUids
  <2> QED BY <2>2, <2>3
<1>12. HeaderFirst'   BY <1>0, <1>11 DEF HeaderFirst, StartsWithHeader
<1>9. Indexed'
  <2> SUFFICES ASSUME NEW naa \in NaaTypes PROVE IndexOf(naa)'   BY DEF Indexed
  <2>0. IndexOf(naa)   BY DEF ElementsIInv, Indexed
  <2>1. Instances(s, naa) \subseteq pes_by_naa'[naa]   BY <1>1
  <2>2. removed' = {} => pes_by_naa'[naa] = Instances(s, naa)
    BY <1>1, <2>0 DEF IndexOf
  <2>3. ASSUME NEW inst \in Instances(s, naa)
        PROVE  /\ inst.pin \subseteq inst.pes /\ inst.pes \subseteq Known'
               /\ \A i \in 1 .. Len(s) : s[i].uid \in inst.pin => s[i].pin2 # "-"
               /\ \A i \in 1 .. Len(s) : s[i].uid \in inst.pes => InstanceOf(s[i], naa)
               /\ StartsWithHeader => 1 \notin inst.pes
    <3>1. /\ inst.pin \subseteq inst.pes /\ inst.pes \subseteq Uids(s)
          /\ \A i \in 1 .. Len(s) : s[i].uid \in inst.pin => s[i].pin2 # "-"
          /\ \A i \in 1 .. Len(s) : s[i].uid \in inst.pes => InstanceOf(s[i], naa)
          /\ \A i \in 1 .. Len(s) : s[i].uid \in inst.pes /\ i = 1 => s[i].type \in NaaTypes
      BY InstanceFacts
    <3>2. ASSUME StartsWithHeader, 1 \in inst.pes PROVE FALSE
      <4>1. PICK i \in 1 .. Len(s) : s[i].uid = 1   BY <1>0, <3>1, <3>2 DEF Uids, Range
      <4>2. i = 1 /\ s[i].type = "header"   BY <1>11, <3>2, <4>1
      <4> QED BY <3>1, <3>2, <4>1, <4>2 DEF NaaTypes
    <3> QED BY <1>2, <3>1, <3>2
  <2>4. ASSUME NEW inst \in pes_by_naa[naa]
        PROVE  /\ inst.pin \subseteq inst.pes /\ inst.pes \subseteq Known /\ inst.pes \subseteq Known'
               /\ \A i \in 1 .. Len(s) : s[i].uid \in inst.pin => s[i].pin2 # "-"
               /\ \A i \in 1 .. Len(s) : s[i].uid \in inst.pes => InstanceOf(s[i], naa)
               /\ StartsWithHeader => 1 \notin inst.pes
    <3>1. /\ inst.pin \subseteq inst.pes /\ inst.pes \subseteq Known
          /\ \A i \in 1 .. Len(t) : t[i].uid \in inst.pin => t[i].pin2 # "-"
          /\ \A i \in 1 .. Len(t) : t[i].uid \in inst.pes => InstanceOf(t[i], naa)
          /\ StartsWithHeader => 1 \notin inst.pes
      BY <2>0 DEF IndexOf
    <3>2. ASSUME NEW i \in 1 .. Len(s), s[i].uid \in inst.pin PROVE s[i].pin2 # "-"
      <4>1. PICK j \in 1 .. Len(t) : SamePE(s[i], t[j])   BY <1>7, <3>1, <3>2
      <4>2. t[j].uid \in inst.pin   BY <3>2, <4>1 DEF SamePE, SameObject
      <4>3. t[j].pin2 # "-"   BY <3>1, <4>2
      <4> QED BY <4>1, <4>3 DEF SamePE
    <3>3. ASSUME NEW i \in 1 .. Len(s), s[i].uid \in inst.pes PROVE InstanceOf(s[i], naa)
      <4>1. PICK j \in 1 .. Len(t) : SamePE(s[i], t[j])   BY <1>7, <3>1, <3>3
      <4>2. t[j].uid = s[i].uid /\ t[j].type = s[i].type   BY <4>1 DEF SamePE, SameObject
      <4>3. InstanceOf(t[j], naa)   BY <3>1, <3>3, <4>2
      <4> QED BY <4>2, <4>3 DEF InstanceOf, Related
    <3> QED BY <1>2, <3>1, <3>2, <3>3
  <2>5. ASSUME NEW inst \in pes_by_naa[naa], "remove-pe" \notin removed'
        PROVE  inst \in Instances(s, naa) \/ inst.pes \cap Uids(s) = {}
    <3>1. inst \in Instances(t, naa) \/ inst.pes \cap Uids(t) = {}   BY <2>0, <2>5 DEF IndexOf
    <3>2. ASSUME inst.pes \cap Uids(t) = {} PROVE inst.pes \cap Uids(s) = {}
      <4> SUFFICES ASSUME NEW i \in 1 .. Len(s), s[i].uid \in inst.pes PROVE FALSE
        BY <1>0 DEF Uids, Range
      <4>1. s[i].uid \in Known   BY <2>4
      <4>2. PICK j \in 1 .. Len(t) : SamePE(s[i], t[j])   BY <1>7, <4>1
      <4>3. t[j].uid = s[i].uid   BY <4>2 DEF SamePE, SameObject
      <4> QED BY <1>8, <3>2, <4>3
    <3> QED BY <2>5, <3>1, <3>2 DEF InstancesAfter
  <2>6. StartsWithHeader' <=> StartsWithHeader   BY <1>0 DEF StartsWithHeader
  <2> QED BY <1>0, <1>1, <2>1, <2>2, <2>3, <2>4, <2>5, <2>6 DEF IndexOf
<1>10. Applied'
  <2> SUFFICES ASSUME NEW param \in applied, NEW i \in 1 .. Len(s)
      PROVE /\ param = "ICCID" /\ s[i].type \in {"header", "mf"} => s[i].value = "new"
            /\ param = "IMSI" /\ s[i].type = "usim" => s[i].value = "new"
            /\ param = "K" /\ s[i].type = "akaParameter" => s[i].value = "new"
            /\ param = "PIN2" /\ "remove-pe" \notin removed' =>
                 \A naa \in Removable : \A inst \in Instances(s, naa) :
                   s[i].uid \in inst.pin => s[i].pin2 = "new"
    BY <1>0 DEF Applied, InPlace
  <2>1. InPlace(param)   BY DEF ElementsIInv, Applied
  <2>2. ASSUME s[i].type \in {"header", "mf", "usim", "akaParameter"}
        PROVE  \E j \in 1 .. Len(t) : SamePE(s[i], t[j])
    BY <2>2 DEF Edited
  <2>3. /\ param = "ICCID" /\ s[i].type \in {"header", "mf"} => s[i].value = "new"
        /\ param = "IMSI" /\ s[i].type = "usim" => s[i].value = "new"
        /\ param = "K" /\ s[i].type = "akaParameter" => s[i].value = "new"
    BY <2>1, <2>2 DEF InPlace, SamePE, SameObject
  <2>4. ASSUME param = "PIN2", "remove-pe" \notin removed',
               NEW naa \in Removable, NEW inst \in Instances(s, naa), s[i].uid \in inst.pin
        PROVE  s[i].pin2 = "new"
    <3>0. naa \in NaaTypes   BY DEF Removable, NaaTypes
    <3>1. Instances(s, naa) = Instances(t, naa)   BY <2>4, <3>0 DEF InstancesAfter
    <3>2. inst \in Instances(t, naa) /\ inst.pin \subseteq inst.pes /\ inst.pes \subseteq Uids(t)
      <4>1. inst \in Instances(t, naa)   BY <3>1
      <4> QED BY <1>0, <3>0, <4>1, InstanceFacts
    <3>3. PICK j \in 1 .. Len(t) : SamePE(s[i], t[j])   BY <1>0, <1>7, <2>4, <3>2
    <3>4. t[j].uid \in inst.pin   BY <2>4, <3>3 DEF SamePE, SameObject
    <3>5. t[j].pin2 = "new"   BY <2>1, <2>4, <3>2, <3>4 DEF InPlace
    <3> QED BY <3>3, <3>5 DEF SamePE
  <2> QED BY <2>3, <2>4
<1> QED BY <1>3, <1>4, <1>5, <1>6, <1>9, <1>10, <1>12 DEF ElementsIInv

-----------------------------------------------------------------------------
(* Setting values                                                            *)

\* What the setting of a value changes in a PE.
LEMMA ValueSet ==
  ASSUME NEW x \in PEs, NEW y, y = [x EXCEPT !.value = "new"]
  PROVE  /\ y \in PEs /\ SameObject(y, x) /\ y.identification = x.identification
         /\ y.value = "new" /\ y.pin2 = x.pin2
BY DEF PEs, SameObject

\* What the setting of a PIN2 changes in a PE.
LEMMA Pin2Set ==
  ASSUME NEW x \in PEs, NEW y, y = [x EXCEPT !.pin2 = "new"], x.pin2 # "-"
  PROVE  /\ y \in PEs /\ SameObject(y, x) /\ y.identification = x.identification
         /\ y.value = x.value /\ y.pin2 = "new"
BY DEF PEs, SameObject

\* The setting of values in any PEs keeps the invariant, if what it counts as
\* applied is in place.
LEMMA SetKeeps ==
  ASSUME ElementsIInv, loaded, ops' = ops + 1, op'.name # "write",
         UNCHANGED <<file, loaded, loads, pes_by_naa, removed>>,
         NEW uids, NEW field, Set(uids, field),
         field = "pin2" => \A i \in 1 .. Len(pe_list) : pe_list[i].uid \in uids => pe_list[i].pin2 # "-"
  PROVE  /\ (\A param \in applied' : param \in applied \/ InPlace(param)') => ElementsIInv'
         /\ Len(pe_list') = Len(pe_list)
         /\ \A i \in 1 .. Len(pe_list) : SameObject(pe_list'[i], pe_list[i])
         /\ \A naa \in NaaTypes : Instances(pe_list', naa) = Instances(pe_list, naa)
<1> DEFINE t == pe_list
           s == pe_list'
<1>0. /\ t \in Seq(PEs) /\ UniqueUids(t) /\ Uids(t) \subseteq Known /\ ops \in Nat
      /\ Len(t) \in Nat /\ DOMAIN t = 1 .. Len(t) /\ Len(file.pes) \in Nat
      /\ \A i \in 1 .. Len(t) : t[i] \in PEs
  BY LenProperties, ElementOfSeq DEF ElementsIInv, ElementsTypes, Objects
<1>1. /\ s = [i \in 1 .. Len(t) |-> s[i]]
      /\ \A i \in 1 .. Len(t) :
           s[i] = IF t[i].uid \notin uids THEN t[i]
                  ELSE IF field = "pin2" THEN [t[i] EXCEPT !.pin2 = "new"] ELSE [t[i] EXCEPT !.value = "new"]
  BY DEF Set
<1>2. ASSUME NEW i \in 1 .. Len(t)
      PROVE  /\ s[i] \in PEs /\ SameObject(s[i], t[i]) /\ s[i].identification = t[i].identification
             /\ s[i].value = t[i].value \/ s[i].value = "new"
             /\ s[i].pin2 = t[i].pin2 \/ s[i].pin2 = "new"
  <2>1. t[i] \in PEs   BY <1>0
  <2>2. t[i].uid \in uids /\ field = "pin2" => t[i].pin2 # "-"   OBVIOUS
  <2>3. CASE t[i].uid \notin uids   BY <1>1, <2>1, <2>3 DEF SameObject
  <2>4. CASE t[i].uid \in uids /\ field = "pin2"
    <3>1. s[i] = [t[i] EXCEPT !.pin2 = "new"]   BY <1>1, <2>4
    <3> HIDE DEF s
    <3> QED BY <2>1, <2>2, <2>4, <3>1, Pin2Set
  <2>5. CASE t[i].uid \in uids /\ field # "pin2"
    <3>1. s[i] = [t[i] EXCEPT !.value = "new"]   BY <1>1, <2>5
    <3> HIDE DEF s
    <3> QED BY <2>1, <3>1, ValueSet
  <2> QED BY <2>3, <2>4, <2>5
<1>3. s \in Seq(PEs) /\ Len(s) = Len(t) /\ DOMAIN s = 1 .. Len(s)
  <2> HIDE DEF s
  <2>1. \A i \in 1 .. Len(t) : s[i] \in PEs   BY <1>2
  <2> QED BY <1>0, <1>1, <2>1
<1> HIDE DEF s, t
<1>4. ASSUME NEW naa \in NaaTypes PROVE Instances(s, naa) = Instances(t, naa)
  BY <1>0, <1>2, <1>3, SamePlaces
<1>5. Uids(s) = Uids(t)
  <2>1. \A i \in 1 .. Len(t) : s[i].uid = t[i].uid   BY <1>2 DEF SameObject
  <2> QED BY <1>0, <1>3, <2>1 DEF Uids, Range
<1>6. Known \subseteq Known'
  <2> DEFINE n == Len(file.pes)
  <2>1. Known = 1 .. n + ops /\ Known' = 1 .. n + (ops + 1)   BY <1>0 DEF Known
  <2>2. n \in Nat   BY <1>0
  <2> HIDE DEF n
  <2>3. 1 .. n + ops \subseteq 1 .. n + (ops + 1)   BY <1>0, <2>2
  <2> QED BY <2>1, <2>3
<1>7. ElementsTypes'   BY <1>0, <1>3 DEF ElementsIInv, ElementsTypes, s
<1>8. Objects'
  <2>1. UniqueUids(s)   BY <1>0, <1>2, <1>3 DEF UniqueUids, SameObject
  <2> QED BY <1>0, <1>5, <1>6, <2>1 DEF Objects, s
<1>9. Numbering'
  <2>1. \A i \in 1 .. Len(s) :
          s[i].identification = t[i].identification /\ (HasHeader(s[i]) <=> HasHeader(t[i]))
    BY <1>2, <1>3 DEF SameObject, HasHeader
  <2>2. Numbered(t) /\ Numbered(file.pes)   BY DEF ElementsIInv, Numbering, t
  <2>3. Numbered(s)   BY <1>3, <2>1, <2>2 DEF Numbered, check_identification_unique
  <2> QED BY <2>2, <2>3 DEF Numbering, s
<1>10. Written'   BY DEF Written
<1>11. Indexed'
  <2> SUFFICES ASSUME NEW naa \in NaaTypes PROVE IndexOf(naa)'   BY DEF Indexed
  <2>0. IndexOf(naa)   BY DEF ElementsIInv, Indexed
  <2>1. ASSUME NEW inst \in pes_by_naa[naa], NEW i \in 1 .. Len(s), s[i].uid \in inst.pin
        PROVE  s[i].pin2 # "-"
    <3>1. i \in 1 .. Len(t) /\ SameObject(s[i], t[i])   BY <1>2, <1>3
    <3>2. t[i].pin2 # "-"   BY <2>0, <2>1, <3>1 DEF IndexOf, SameObject, t
    <3> QED BY <3>1, <3>2 DEF SameObject
  <2>5. ASSUME NEW inst \in pes_by_naa[naa], NEW i \in 1 .. Len(s), s[i].uid \in inst.pes
        PROVE  InstanceOf(s[i], naa)
    <3>1. i \in 1 .. Len(t) /\ SameObject(s[i], t[i])   BY <1>2, <1>3
    <3>2. InstanceOf(t[i], naa)   BY <2>0, <2>5, <3>1 DEF IndexOf, SameObject, t
    <3> QED BY <3>1, <3>2 DEF SameObject, InstanceOf, Related
  <2>6. StartsWithHeader' <=> StartsWithHeader   BY DEF StartsWithHeader
  <2>2. pes_by_naa' = pes_by_naa /\ removed' = removed   OBVIOUS
  <2>3. Instances(pe_list', naa) = Instances(pe_list, naa) /\ Uids(pe_list') = Uids(pe_list)
    BY <1>4, <1>5 DEF s, t
  <2>4. \A inst \in pes_by_naa[naa] : \A i \in 1 .. Len(pe_list') :
          /\ pe_list'[i].uid \in inst.pin => pe_list'[i].pin2 # "-"
          /\ pe_list'[i].uid \in inst.pes => InstanceOf(pe_list'[i], naa)
    BY <2>1, <2>5 DEF s
  <2> QED BY <1>6, <2>0, <2>2, <2>3, <2>4, <2>6 DEF IndexOf
<1>12. ASSUME NEW param, InPlace(param) PROVE InPlace(param)'
  <2> SUFFICES ASSUME NEW i \in 1 .. Len(s)
      PROVE /\ param = "ICCID" /\ s[i].type \in {"header", "mf"} => s[i].value = "new"
            /\ param = "IMSI" /\ s[i].type = "usim" => s[i].value = "new"
            /\ param = "K" /\ s[i].type = "akaParameter" => s[i].value = "new"
            /\ param = "PIN2" /\ "remove-pe" \notin removed' =>
                 \A naa \in Removable : \A inst \in Instances(s, naa) :
                   s[i].uid \in inst.pin => s[i].pin2 = "new"
    BY DEF InPlace, s
  <2>1. i \in 1 .. Len(t) /\ s[i].type = t[i].type /\ s[i].uid = t[i].uid
    BY <1>2, <1>3 DEF SameObject
  <2>2. (s[i].value = t[i].value \/ s[i].value = "new") /\ (s[i].pin2 = t[i].pin2 \/ s[i].pin2 = "new")
    BY <1>2, <2>1
  <2>3. /\ param = "ICCID" /\ s[i].type \in {"header", "mf"} => s[i].value = "new"
        /\ param = "IMSI" /\ s[i].type = "usim" => s[i].value = "new"
        /\ param = "K" /\ s[i].type = "akaParameter" => s[i].value = "new"
    BY <1>12, <2>1, <2>2 DEF InPlace, t
  <2>4. ASSUME param = "PIN2", "remove-pe" \notin removed',
               NEW naa \in Removable, NEW inst \in Instances(s, naa), s[i].uid \in inst.pin
        PROVE  s[i].pin2 = "new"
    <3>1. naa \in NaaTypes   BY DEF Removable, NaaTypes
    <3>2. inst \in Instances(t, naa)   BY <1>4, <3>1
    <3>3. t[i].pin2 = "new"   BY <1>12, <2>1, <2>4, <3>2 DEF InPlace, t
    <3> QED BY <2>2, <3>3
  <2> QED BY <2>3, <2>4
<1>14. HeaderFirst'
  <2>1. \A i \in 1 .. Len(s) : i \in 1 .. Len(t) /\ s[i].uid = t[i].uid /\ s[i].type = t[i].type
    BY <1>2, <1>3 DEF SameObject
  <2>2. Len(s) >= 1 => s[1].uid = t[1].uid   BY <1>0, <1>3, <2>1
  <2>3. StartsWithHeader' <=> StartsWithHeader   BY DEF StartsWithHeader
  <2> SUFFICES ASSUME StartsWithHeader
      PROVE /\ \A i \in 1 .. Len(s) : s[i].uid = 1 => i = 1 /\ s[i].type = "header"
            /\ \A i \in 1 .. Len(s) : s[i].type = "header" => s[1].uid = 1
    BY <2>3 DEF HeaderFirst, s
  <2>4. /\ \A i \in 1 .. Len(t) : t[i].uid = 1 => i = 1 /\ t[i].type = "header"
        /\ \A i \in 1 .. Len(t) : t[i].type = "header" => t[1].uid = 1
    BY DEF ElementsIInv, HeaderFirst, t
  <2> QED BY <1>0, <1>3, <2>1, <2>2, <2>4
<1>13. ASSUME \A param \in applied' : param \in applied \/ InPlace(param)' PROVE ElementsIInv'
  <2>1. \A param \in applied : InPlace(param)   BY DEF ElementsIInv, Applied
  <2>2. \A param \in applied' : InPlace(param)'   BY <1>12, <1>13, <2>1
  <2>3. Applied'   BY <2>2 DEF Applied
  <2> QED BY <1>7, <1>8, <1>9, <1>10, <1>11, <1>14, <2>3 DEF ElementsIInv
<1> QED BY <1>2, <1>3, <1>4, <1>13 DEF s, t

-----------------------------------------------------------------------------
(* The invariant is inductive                                                *)

\* Nothing is loaded at the start.
LEMMA ElementsInitially == Init => ElementsIInv
<1> SUFFICES ASSUME Init PROVE ElementsIInv   OBVIOUS
<1>1. /\ file \in Profiles /\ loaded = FALSE /\ pe_list = <<>> /\ pes_by_naa = NoIndex
      /\ op.name = "none" /\ applied = {} /\ ops = 0 /\ loads = 0
  BY DEF Init
<1>2. pe_list \in Seq(PEs) /\ Len(pe_list) = 0   BY <1>1
<1>3. ElementsTypes
  <2>1. pes_by_naa \in [NaaTypes -> SUBSET InstanceRecords]   BY <1>1 DEF NoIndex
  <2> QED BY <1>1, <1>2, <2>1, ProfilesAssumption DEF ElementsTypes
<1>4. Numbering
  <2>1. Numbered(pe_list)   BY <1>2 DEF Numbered, check_identification_unique
  <2>2. Numbered(file.pes)   BY <1>1, ProfilesAssumption DEF Numbered
  <2> QED BY <2>1, <2>2 DEF Numbering
<1> QED BY <1>1, <1>3, <1>4 DEF ElementsIInv, Objects, HeaderFirst, Indexed, Applied, Written

\* A PE with another uid.
LEMMA UidSet ==
  ASSUME NEW x \in PEs, NEW n \in Nat
  PROVE  LET y == [x EXCEPT !.uid = n]
         IN  /\ y \in PEs /\ y.uid = n /\ y.identification = x.identification /\ y.type = x.type
             /\ HasHeader(y) <=> HasHeader(x)
BY DEF PEs, HasHeader

\* Loading builds new objects and a new index.
LEMMA LoadStep == ASSUME ElementsIInv, Load PROVE ElementsIInv'
<1> DEFINE f == file.pes
           list == [i \in 1 .. Len(f) |-> [f[i] EXCEPT !.uid = i]]
<1>0. /\ f \in Seq(PEs) /\ Len(f) \in Nat /\ Numbered(f) /\ ops \in Nat /\ loads \in Nat
      /\ \A i \in 1 .. Len(f) : f[i] \in PEs
  BY LenProperties, ElementOfSeq DEF ElementsIInv, ElementsTypes, Numbering
<1>1. /\ file' = file /\ loaded' = TRUE /\ loads' = loads + 1 /\ ops' = ops /\ op'.name = "load"
      /\ pe_list' = list /\ removed' = {} /\ applied' = {}
      /\ pes_by_naa' = _rebuild_pes_by_naa(NoIndex, list)
  BY DEF Load
<1>2. \A i \in 1 .. Len(f) :
        /\ list[i] \in PEs /\ list[i].uid = i /\ list[i].identification = f[i].identification
        /\ list[i].type = f[i].type
        /\ HasHeader(list[i]) <=> HasHeader(f[i])
  <2> TAKE i \in 1 .. Len(f)
  <2>1. f[i] \in PEs /\ i \in Nat /\ list[i] = [f[i] EXCEPT !.uid = i]   BY <1>0
  <2> HIDE DEF list, f
  <2> QED BY <2>1, UidSet
<1>3. list = [i \in 1 .. Len(f) |-> list[i]]   OBVIOUS
<1> HIDE DEF list
<1>4. list \in Seq(PEs) /\ Len(list) = Len(f) /\ DOMAIN list = 1 .. Len(list)
  <2>1. \A i \in 1 .. Len(f) : list[i] \in PEs   BY <1>2
  <2>2. list \in [1 .. Len(f) -> PEs]   BY <1>3, <2>1
  <2> QED BY <1>0, <2>2
<1>5. UniqueUids(list)   BY <1>2, <1>4 DEF UniqueUids
<1>6. Uids(list) \subseteq 1 .. Len(f) + ops   BY <1>0, <1>2, <1>4 DEF Uids, Range
<1>7. Numbered(list)   BY <1>0, <1>2, <1>4 DEF Numbered, check_identification_unique
<1>8. \A naa \in NaaTypes : pes_by_naa'[naa] = Instances(list, naa)
  BY <1>1 DEF _rebuild_pes_by_naa, NoIndex
<1>9. \A naa \in NaaTypes : \A inst \in Instances(list, naa) :
        /\ inst \in InstanceRecords /\ inst.pin \subseteq inst.pes /\ inst.pes \subseteq Uids(list)
        /\ \A i \in 1 .. Len(list) : list[i].uid \in inst.pin => list[i].pin2 # "-"
        /\ \A i \in 1 .. Len(list) : list[i].uid \in inst.pes => InstanceOf(list[i], naa)
        /\ \A i \in 1 .. Len(list) : list[i].uid \in inst.pes /\ i = 1 => list[i].type \in NaaTypes
  BY <1>4, <1>5, InstanceFacts
<1>10. ElementsTypes'
  <2>1. pes_by_naa' \in [NaaTypes -> SUBSET InstanceRecords]
    BY <1>1, <1>9 DEF _rebuild_pes_by_naa, NoIndex
  <2> QED BY <1>0, <1>1, <1>4, <2>1 DEF ElementsTypes
<1>11. Known' = 1 .. Len(f) + ops   BY <1>1 DEF Known
<1>12. Objects'   BY <1>1, <1>5, <1>6, <1>11 DEF Objects
<1>13. Numbering'   BY <1>0, <1>1, <1>7 DEF Numbering
<1>14. Indexed'
  <2> SUFFICES ASSUME NEW naa \in NaaTypes PROVE IndexOf(naa)'   BY DEF Indexed
  <2>1. ASSUME StartsWithHeader, NEW inst \in Instances(list, naa), 1 \in inst.pes PROVE FALSE
    <3>1. 1 \in 1 .. Len(list) /\ list[1].uid = 1 /\ list[1].type = "header"
      BY <1>0, <1>2, <1>4, <2>1 DEF StartsWithHeader
    <3>2. list[1].type \in NaaTypes   BY <1>9, <2>1, <3>1
    <3> QED BY <3>1, <3>2 DEF NaaTypes
  <2>2. StartsWithHeader' <=> StartsWithHeader   BY <1>1 DEF StartsWithHeader
  <2> QED BY <1>1, <1>6, <1>8, <1>9, <1>11, <2>1, <2>2 DEF IndexOf
<1>15. Applied' /\ Written'   BY <1>1 DEF Applied, Written
<1>16. HeaderFirst'
  <2>1. StartsWithHeader' => Len(list) >= 1 /\ f[1].type = "header" /\ 1 \in 1 .. Len(f)
    BY <1>0, <1>1, <1>4 DEF StartsWithHeader
  <2>2. StartsWithHeader' => list[1].uid = 1 /\ list[1].type = "header"   BY <1>2, <2>1
  <2>3. \A i \in 1 .. Len(list) : list[i].uid = i   BY <1>2, <1>4
  <2> QED BY <1>1, <2>2, <2>3 DEF HeaderFirst
<1> QED BY <1>10, <1>12, <1>13, <1>14, <1>15, <1>16 DEF ElementsIInv

\* Writing leaves the list.
LEMMA WriteStep == ASSUME ElementsIInv, write_pes PROVE ElementsIInv'
<1> DEFINE t == pe_list
           list == [i \in 1 .. Len(t) |-> [t[i] EXCEPT !.uid = 0]]
<1>0. /\ t \in Seq(PEs) /\ Len(t) \in Nat /\ Numbered(t) /\ \A i \in 1 .. Len(t) : t[i] \in PEs
  BY LenProperties, ElementOfSeq DEF ElementsIInv, ElementsTypes, Numbering
<1>1. /\ loaded' = FALSE /\ file' = [pes |-> list, svc |-> svc, gfste |-> gfste]
      /\ op' = [name |-> "write", arg |-> "-"]
      /\ pe_list' = t /\ pes_by_naa' = pes_by_naa /\ removed' = removed /\ applied' = applied
      /\ ops' = ops /\ loads' = loads
  BY DEF write_pes
<1>2. \A i \in 1 .. Len(t) :
        /\ list[i] \in PEs /\ list[i].identification = t[i].identification
        /\ HasHeader(list[i]) <=> HasHeader(t[i])
  <2> TAKE i \in 1 .. Len(t)
  <2>1. t[i] \in PEs /\ 0 \in Nat /\ list[i] = [t[i] EXCEPT !.uid = 0]   BY <1>0
  <2> HIDE DEF list, t
  <2> QED BY <2>1, UidSet
<1>3. list = [i \in 1 .. Len(t) |-> list[i]]   OBVIOUS
<1>4. Written'   BY <1>1 DEF Written
<1> HIDE DEF list, t
<1>5. file'.pes = list   BY <1>1
<1>6. list \in Seq(PEs) /\ Len(list) = Len(t)   BY <1>0, <1>2, <1>3
<1>7. Numbered(list)   BY <1>0, <1>2, <1>6 DEF Numbered, check_identification_unique
<1>8. ElementsTypes'   BY <1>0, <1>1, <1>5, <1>6 DEF ElementsIInv, ElementsTypes
<1>9. Numbering'   BY <1>0, <1>1, <1>5, <1>7 DEF Numbering
<1>10. Applied'
  <2>1. pe_list' = pe_list   BY <1>1 DEF t
  <2>2. \A param : InPlace(param) => InPlace(param)'   BY <1>1, <2>1 DEF InPlace
  <2> QED BY <1>1, <2>2 DEF ElementsIInv, Applied
<1> QED BY <1>1, <1>4, <1>8, <1>9, <1>10 DEF ElementsIInv, Objects, HeaderFirst, Indexed

\* A removal of PEs leaves others as they were.
LEMMA RemovalEdits ==
  ASSUME ElementsIInv, loaded, NEW I \in SUBSET (1 .. Len(pe_list))
  PROVE  LET s == At(pe_list, I)
         IN  /\ s \in Seq(PEs) /\ UniqueUids(s) /\ Numbered(s)
             /\ Uids(s) \subseteq 1 .. Len(file.pes) + ops + 1 /\ Edited(s, pe_list, Known)
             /\ 1 \in I => HeaderKept(s)
<1> DEFINE s == At(pe_list, I)
<1>0. /\ pe_list \in Seq(PEs) /\ UniqueUids(pe_list) /\ Numbered(pe_list) /\ Uids(pe_list) \subseteq Known
      /\ ops \in Nat /\ file.pes \in Seq(PEs)
  BY DEF ElementsIInv, ElementsTypes, Objects, Numbering
<1>1. /\ s \in Seq(PEs) /\ UniqueUids(s) /\ Numbered(s) /\ Uids(s) \subseteq Uids(pe_list)
      /\ \A i \in 1 .. Len(s) : \E j \in I : s[i] = pe_list[j]
  BY <1>0, Removed
<1> HIDE DEF s
<1>2. Uids(s) \subseteq 1 .. Len(file.pes) + ops + 1
  <2> DEFINE n == Len(file.pes)
  <2>1. n \in Nat   BY <1>0, LenProperties
  <2>2. Known = 1 .. n + ops   BY DEF Known
  <2> HIDE DEF n
  <2>3. 1 .. n + ops \subseteq 1 .. n + ops + 1   BY <1>0, <2>1
  <2>4. Uids(s) \subseteq 1 .. n + ops + 1   BY <1>0, <1>1, <2>2, <2>3
  <2> QED BY <2>4 DEF n
<1>3. Edited(s, pe_list, Known)
  <2> SUFFICES ASSUME NEW i \in 1 .. Len(s) PROVE \E j \in 1 .. Len(pe_list) : SamePE(s[i], pe_list[j])
    BY DEF Edited
  <2>1. PICK j \in I : s[i] = pe_list[j]   BY <1>1
  <2> QED BY <2>1 DEF SamePE, SameObject
<1>4. 1 \in I => HeaderKept(s)
  <2>1. SublistAt(s, pe_list, I)   BY <1>0, AtIsSublist DEF s
  <2> QED BY <1>0, <1>1, <2>1, SublistEnds DEF HeaderKept
<1> QED BY <1>1, <1>2, <1>3, <1>4 DEF s

\* Removing PEs by type or identification keeps the invariant.
LEMMA RemovePeStep == ASSUME ElementsIInv, do_remove_pe PROVE ElementsIInv'
<1>1. PICK I \in SUBSET (1 .. Len(pe_list)) :
        /\ loaded /\ ops' = ops + 1 /\ op'.name = "remove-pe" /\ file' = file /\ loaded' = loaded
        /\ loads' = loads /\ applied' = applied /\ removed' = removed \cup {"remove-pe"}
        /\ New(At(pe_list, I))
        /\ Len(pe_list) >= 1 /\ pe_list[1].type = "header" =>
             1 \in I \/ \A i \in I : pe_list[i].type # "header"
  <2>1. PICK pe \in Range(pe_list), byType \in BOOLEAN :
          /\ HasHeader(pe) \/ byType
          /\ Edit("remove-pe", pe.type)
          /\ New(At(pe_list, {i \in 1..Len(pe_list) :
                         IF byType THEN TypeName(pe_list[i]) # TypeName(pe)
                         ELSE pe_list[i].identification # pe.identification}))
          /\ removed' = removed \cup {"remove-pe"}
    BY DEF do_remove_pe
  <2> DEFINE I == {i \in 1..Len(pe_list) :
                         IF byType THEN TypeName(pe_list[i]) # TypeName(pe)
                         ELSE pe_list[i].identification # pe.identification}
  <2>2. I \in SUBSET (1 .. Len(pe_list)) /\ New(At(pe_list, I))   BY <2>1
  <2>3. ASSUME Len(pe_list) >= 1, pe_list[1].type = "header"
        PROVE  1 \in I \/ \A i \in I : pe_list[i].type # "header"
    <3>1. pe_list \in Seq(PEs) /\ Numbered(pe_list)   BY DEF ElementsIInv, ElementsTypes, Numbering
    <3>2. Len(pe_list) \in Nat /\ DOMAIN pe_list = 1 .. Len(pe_list)   BY <3>1, LenProperties
    <3>3. 1 \in 1 .. Len(pe_list)   BY <2>3, <3>2
    <3>4. CASE byType   BY <2>3, <3>3, <3>4 DEF TypeName
    <3>5. CASE ~byType
      <4>1. PICK j \in 1 .. Len(pe_list) : pe = pe_list[j]   BY <3>2 DEF Range
      <4>2. pe.identification # 0   BY <2>1, <3>1, <3>5, <4>1 DEF Numbered
      <4>3. pe_list[1].identification = 0   BY <2>3, <3>1, <3>3 DEF Numbered, HasHeader
      <4> QED BY <3>3, <3>5, <4>2, <4>3
    <3> QED BY <3>4, <3>5
  <2> HIDE DEF I
  <2> QED BY <2>1, <2>2, <2>3 DEF Edit, Call
<1> DEFINE s == At(pe_list, I)
<1>2. /\ s \in Seq(PEs) /\ UniqueUids(s) /\ Numbered(s)
      /\ Uids(s) \subseteq 1 .. Len(file.pes) + ops + 1 /\ Edited(s, pe_list, Known)
      /\ 1 \in I => HeaderKept(s)
  BY <1>1, RemovalEdits
<1>3. New(s)   BY <1>1
<1>4. \A i \in 1 .. Len(s) : \E j \in I : s[i] = pe_list[j]
  BY <1>1, Removed DEF ElementsIInv, ElementsTypes, Objects, Numbering
<1> HIDE DEF s
<1>5. HeaderKept(s)
  <2>1. CASE 1 \in I
    <3>1. 1 \in I => HeaderKept(s)   BY <1>2
    <3> HIDE DEF HeaderKept
    <3> QED BY <2>1, <3>1, Zenon
  <2>2. CASE \A i \in I : pe_list[i].type # "header"
    <3>1. ASSUME NEW i \in 1 .. Len(s) PROVE s[i].type # "header"
      <4>1. PICK j \in I : s[i] = pe_list[j]   BY <1>4
      <4> QED BY <2>2, <4>1
    <3> QED BY <3>1 DEF HeaderKept
  <2>3. CASE ~ (Len(pe_list) >= 1 /\ pe_list[1].type = "header")
    <3> HIDE DEF s
    <3> QED BY <2>3, Zenon DEF HeaderKept
  <2>4. (Len(pe_list) >= 1 /\ pe_list[1].type = "header") => (1 \in I \/ \A i \in I : pe_list[i].type # "header")
    BY <1>1
  <2> HIDE DEF HeaderKept
  <2> QED BY <2>1, <2>2, <2>3, <2>4, Zenon
<1> QED BY <1>1, <1>2, <1>3, <1>5, EditKeeps

\* Removing an application keeps the invariant.
LEMMA RemoveAppStep == ASSUME ElementsIInv, do_remove_app PROVE ElementsIInv'
<1>0. /\ pe_list \in Seq(PEs) /\ Numbered(pe_list)
  BY DEF ElementsIInv, ElementsTypes, Numbering
<1>1. PICK app \in First(Where(pe_list, "application")) :
        /\ loaded /\ ops' = ops + 1 /\ op'.name = "remove-app" /\ file' = file /\ loaded' = loaded
        /\ loads' = loads /\ applied' = applied /\ removed' = removed \cup {"remove-app"}
        /\ New(At(pe_list, {i \in 1..Len(pe_list) : pe_list[i].identification # pe_list[app].identification}))
  <2>1. PICK app \in First(Where(pe_list, "application")) :
          /\ Edit("remove-app", "-")
          /\ New(At(pe_list, {i \in 1..Len(pe_list) : pe_list[i].identification # pe_list[app].identification}))
          /\ removed' = removed \cup {"remove-app"}
    BY DEF do_remove_app
  <2> QED BY <2>1 DEF Edit, Call
<1>2. app \in 1 .. Len(pe_list) /\ pe_list[app].type = "application"   BY DEF First, Where
<1> DEFINE I == {i \in 1..Len(pe_list) : pe_list[i].identification # pe_list[app].identification}
           s == At(pe_list, I)
<1>3. \A i \in 1 .. Len(pe_list) : i \in I \/ i = app
  <2> TAKE i \in 1 .. Len(pe_list)
  <2> SUFFICES ASSUME pe_list[i].identification = pe_list[app].identification, i # app PROVE FALSE
    OBVIOUS
  <2>1. HasHeader(pe_list[app])   BY <1>2 DEF HasHeader
  <2>2. pe_list[app].identification # 0   BY <1>0, <1>2, <2>1 DEF Numbered
  <2>3. HasHeader(pe_list[i])   BY <1>0, <2>2 DEF Numbered
  <2> QED BY <1>0, <1>2, <2>1, <2>3 DEF Numbered, check_identification_unique
<1>4. I \in SUBSET (1 .. Len(pe_list)) /\ New(s)   BY <1>1
<1>5. \A j \in 1 .. Len(pe_list) : j \in I \/ ~Related(pe_list[j])
  <2> HIDE DEF I
  <2> QED BY <1>2, <1>3 DEF Related, petype_not_naa_related
<1> HIDE DEF I
<1>6. /\ s \in Seq(PEs) /\ UniqueUids(s) /\ Numbered(s)
      /\ Uids(s) \subseteq 1 .. Len(file.pes) + ops + 1 /\ Edited(s, pe_list, Known)
      /\ 1 \in I => HeaderKept(s)
  BY <1>1, <1>4, RemovalEdits
<1>7. UniqueUids(pe_list)   BY <1>1 DEF ElementsIInv, Objects
<1>8. \A naa \in NaaTypes : Instances(s, naa) = Instances(pe_list, naa)
  BY <1>0, <1>4, <1>5, <1>7, UnrelatedRemoved
<1> HIDE DEF s
<1>9. \A naa \in NaaTypes : InstancesAfter(s, naa)   BY <1>8 DEF InstancesAfter
<1>10. HeaderKept(s)
  <2> SUFFICES ASSUME Len(pe_list) >= 1, pe_list[1].type = "header" PROVE HeaderKept(s)
    BY DEF HeaderKept
  <2>1. 1 \in 1 .. Len(pe_list)   BY <1>0, LenProperties
  <2>2. 1 \in I   BY <1>2, <1>3, <2>1
  <2> QED BY <1>6, <2>2
<1> QED BY <1>1, <1>4, <1>6, <1>8, <1>9, <1>10, EditKeeps

\* The new PE of an insertion is an object of its own.
LEMMA NewObject ==
  ASSUME ElementsIInv, loaded, NEW type \in {"application", "securityDomain"}
  PROVE  /\ NewPE(type) \in PEs /\ NewPE(type).uid = Len(file.pes) + ops + 1
         /\ NewPE(type).type = type /\ NewPE(type).uid \notin Known
<1> DEFINE pe == NewPE(type)
           p == PE(type, "-", "-")
           n == Len(file.pes)
           u == n + ops + 1
<1>1. ops \in Nat /\ n \in Nat   BY LenProperties DEF ElementsIInv, ElementsTypes
<1>2. type \in PETypes /\ "-" \in Adfs   BY DEF PETypes, Adfs
<1>3. p \in PEs /\ p.type = type   BY <1>2 DEF PE, PEs
<1>4. pe = [p EXCEPT !.uid = u]   BY DEF NewPE
<1>5. Known = 1 .. n + ops   BY DEF Known
<1> HIDE DEF n
<1>6. u \in Nat /\ u \notin 1 .. n + ops   BY <1>1
<1> HIDE DEF pe, p, u
<1>7. pe \in PEs /\ pe.uid = u /\ pe.type = p.type   BY <1>3, <1>4, <1>6, UidSet
<1> QED BY <1>3, <1>5, <1>6, <1>7 DEF pe, u, n

\* An added application or security domain.
LEMMA InsertStep ==
  ASSUME ElementsIInv, loaded, ops' = ops + 1, op'.name # "write",
         UNCHANGED <<file, loaded, loads, applied, removed>>,
         NEW i \in 1 .. Len(pe_list), NEW type \in {"application", "securityDomain"},
         New(inserted(pe_list, i, NewPE(type)))
  PROVE  ElementsIInv'
<1> DEFINE t == pe_list
           pe == NewPE(type)
           s == inserted(t, i, pe)
           n == Len(file.pes)
<1>0. /\ t \in Seq(PEs) /\ UniqueUids(t) /\ Uids(t) \subseteq Known /\ ops \in Nat
      /\ Len(t) \in Nat /\ DOMAIN t = 1 .. Len(t) /\ n \in Nat
  BY LenProperties DEF ElementsIInv, ElementsTypes, Objects
<1>1. pe \in PEs /\ pe.uid = n + ops + 1 /\ pe.type = type /\ pe.uid \notin Known   BY NewObject
<1>2. Known = 1 .. n + ops   BY DEF Known
<1> HIDE DEF pe, n
<1>4. ~Related(pe)   BY <1>1 DEF Related, petype_not_naa_related
<1>5. pe.uid \notin Uids(t)   BY <1>0, <1>1
<1>6. /\ s \in Seq(PEs) /\ Len(s) = Len(t) + 1
      /\ UniqueUids(s) /\ Numbered(s)
      /\ \A naa \in NaaTypes : Instances(s, naa) = Instances(t, naa)
      /\ \A k \in 1 .. Len(s) :
           /\ k <= i => SamePE(s[k], t[k])
           /\ k = i + 1 => SamePE(s[k], pe)
           /\ k > i + 1 => SamePE(s[k], t[k - 1])
  BY <1>0, <1>1, <1>4, <1>5, UnrelatedInserted
<1>7. New(s)   BY DEF pe
<1> HIDE DEF s
<1>8. \A k \in 1 .. Len(s) : (\E j \in 1 .. Len(t) : SamePE(s[k], t[j])) \/ SamePE(s[k], pe)
  <2> TAKE k \in 1 .. Len(s)
  <2>1. k <= i => k \in 1 .. Len(t)   BY <1>0
  <2>2. k > i + 1 => k - 1 \in 1 .. Len(t)   BY <1>0, <1>6
  <2>3. k <= i \/ k = i + 1 \/ k > i + 1   BY <1>0
  <2> QED BY <1>6, <2>1, <2>2, <2>3
<1>9. Edited(s, t, Known)
  <2> SUFFICES ASSUME NEW k \in 1 .. Len(s), SamePE(s[k], pe)
               PROVE  s[k].uid \notin Known /\ s[k].type \in {"application", "securityDomain"}
    BY <1>8 DEF Edited
  <2> QED BY <1>1 DEF SamePE, SameObject
<1>10. Uids(s) \subseteq 1 .. n + ops + 1
  <2> SUFFICES ASSUME NEW k \in 1 .. Len(s) PROVE s[k].uid \in 1 .. n + ops + 1
    <3>1. DOMAIN s = 1 .. Len(s)   BY <1>6, LenProperties
    <3> QED BY <3>1 DEF Uids, Range
  <2>1. CASE SamePE(s[k], pe)   BY <1>0, <1>1, <2>1 DEF SamePE, SameObject
  <2>2. CASE \E j \in 1 .. Len(t) : SamePE(s[k], t[j])
    <3>1. PICK j \in 1 .. Len(t) : SamePE(s[k], t[j])   BY <2>2
    <3>2. t[j].uid \in Uids(t)   BY <1>0 DEF Uids, Range
    <3>3. s[k].uid \in 1 .. n + ops   BY <1>0, <1>2, <3>1, <3>2 DEF SamePE, SameObject
    <3> QED BY <1>0, <3>3
  <2> QED BY <1>8, <2>1, <2>2
<1>11. \A naa \in NaaTypes : InstancesAfter(s, naa)   BY <1>6 DEF InstancesAfter
<1>12. HeaderKept(s)
  <2>1. Len(s) >= 1 /\ 1 \in 1 .. Len(s) /\ 1 <= i   BY <1>0, <1>6
  <2>2. SamePE(s[1], t[1])   BY <1>6, <2>1
  <2> QED BY <2>1, <2>2 DEF HeaderKept, SamePE, SameObject
<1> QED BY <1>6, <1>7, <1>9, <1>10, <1>11, <1>12, EditKeeps DEF n

\* The PEs that the removal of an NAA takes, by the index.
Gone(naa) == UNION {inst.pes : inst \in pes_by_naa[naa]}
\* An RFM for the ADF of an NAA.
RfmFor(naa, pe) == pe.type = "rfm" /\ \E a \in Where(pe_list, naa) : pe.adf = pe_list[a].adf

\* remove_naas_of_type leaves the sublist outside of the instances and their RFM.
LEMMA WithoutNaaIs ==
  ASSUME ElementsIInv, loaded, NEW naa \in Removable
  PROVE  WithoutNaa(naa) =
           At(pe_list, {i \in 1 .. Len(pe_list) : pe_list[i].uid \notin Gone(naa) /\ ~RfmFor(naa, pe_list[i])})
<1> DEFINE t == pe_list
           I == {i \in 1 .. Len(t) : t[i].uid \notin Gone(naa)}
           rest == {i \in 1 .. Len(t) : t[i].uid \notin Gone(naa) /\ ~RfmFor(naa, t[i])}
           P == {pe \in PEs : ~RfmFor(naa, pe)}
           left == WithoutNaa_KeepsRfm(naa)
           J == {i \in 1 .. Len(left) : ~RfmFor(naa, left[i])}
           s == WithoutNaa(naa)
<1>0. t \in Seq(PEs) /\ UniqueUids(t) /\ naa \in NaaTypes /\ IndexOf(naa)
      /\ \A i \in 1 .. Len(t) : t[i] \in PEs
  BY ElementOfSeq DEF ElementsIInv, ElementsTypes, Objects, Indexed, Removable, NaaTypes
<1>1. left \in Seq(PEs) /\ SublistAt(left, t, I)
  <2>1. left = Keep(t, Uids(t) \ Gone(naa))   BY DEF WithoutNaa_KeepsRfm, Gone
  <2>2. HasInstances(t, naa, Gone(naa))   BY <1>0 DEF IndexOf, Gone, HasInstances
  <2> HIDE DEF left
  <2> QED BY <1>0, <2>1, <2>2, NaaRemoved DEF NaaIsGone
<1>2. s = At(left, J)
  <2>1. \A i \in 1 .. Len(left) : RfmFor(naa, left[i]) <=>
          left[i].type = "rfm" /\ left[i].adf \in {pe_list[a].adf : a \in Where(pe_list, naa)}
    BY DEF RfmFor
  <2>2. J = {i \in 1 .. Len(left) :
               ~ (left[i].type = "rfm" /\ left[i].adf \in {pe_list[a].adf : a \in Where(pe_list, naa)})}
    BY <2>1
  <2> HIDE DEF J
  <2> QED BY <2>2 DEF WithoutNaa
<1>3. J \in SUBSET (1 .. Len(left)) /\ I \in SUBSET (1 .. Len(t)) /\ rest \in SUBSET (1 .. Len(t))   OBVIOUS
<1>4. Selects(J, 1 .. Len(left), left, P)
  <2>1. \A i \in 1 .. Len(left) : i \in J <=> left[i] \in P   BY <1>1, ElementOfSeq
  <2> HIDE DEF P
  <2> QED BY <2>1 DEF Selects
<1>5. Selects(rest, I, t, P)
  <2>1. rest = {i \in I : t[i] \in P}   BY <1>0
  <2> HIDE DEF P, I, rest
  <2> QED BY <2>1 DEF Selects
<1> HIDE DEF I, J, rest, P, left, s, t
<1>6. s \in Seq(PEs) /\ SublistAt(s, left, J)   BY <1>1, <1>2, <1>3, AtIsSublist
<1>7. SublistAt(s, t, rest)   BY <1>0, <1>1, <1>3, <1>4, <1>5, <1>6, SublistOfSublist
<1>8. At(t, rest) \in Seq(PEs) /\ SublistAt(At(t, rest), t, rest)   BY <1>0, <1>3, AtIsSublist
<1>9. s = At(t, rest)   BY <1>0, <1>3, <1>6, <1>7, <1>8, SublistUnique
<1> QED BY <1>9 DEF s, t, rest

\* What is left of the instances when an NAA is removed.
LEMMA WithoutNaaInstances ==
  ASSUME ElementsIInv, loaded, NEW naa \in Removable
  PROVE  /\ naa \notin Types(WithoutNaa(naa)) /\ Uids(WithoutNaa(naa)) \cap Gone(naa) = {}
         /\ "remove-pe" \notin removed => \A m \in NaaTypes : InstancesAfter(WithoutNaa(naa), m)
<1> DEFINE t == pe_list
           left == WithoutNaa_KeepsRfm(naa)
           J == {i \in 1 .. Len(left) : ~RfmFor(naa, left[i])}
           s == WithoutNaa(naa)
<1>0. t \in Seq(PEs) /\ UniqueUids(t) /\ naa \in NaaTypes /\ IndexOf(naa)
  BY DEF ElementsIInv, ElementsTypes, Objects, Indexed, Removable, NaaTypes
<1>1. /\ left \in Seq(PEs) /\ SublistAt(left, t, {i \in 1 .. Len(t) : t[i].uid \notin Gone(naa)})
      /\ naa \notin Types(left) /\ Uids(left) \cap Gone(naa) = {}
      /\ OfInstances(t, naa, Gone(naa)) =>
           \A m \in NaaTypes : m # naa => Instances(left, m) = Instances(t, m)
  <2>1. NaaIsGone(left, t, naa, Gone(naa))
    <3>1. left = Keep(t, Uids(t) \ Gone(naa))   BY DEF WithoutNaa_KeepsRfm, Gone
    <3>2. HasInstances(t, naa, Gone(naa))   BY <1>0 DEF IndexOf, Gone, HasInstances
    <3> HIDE DEF left
    <3> QED BY <1>0, <3>1, <3>2, NaaRemoved
  <2> HIDE DEF left
  <2> QED BY <2>1 DEF NaaIsGone
<1>2. s = At(left, J)
  <2>1. \A i \in 1 .. Len(left) : RfmFor(naa, left[i]) <=>
          left[i].type = "rfm" /\ left[i].adf \in {pe_list[a].adf : a \in Where(pe_list, naa)}
    BY DEF RfmFor
  <2>2. J = {i \in 1 .. Len(left) :
               ~ (left[i].type = "rfm" /\ left[i].adf \in {pe_list[a].adf : a \in Where(pe_list, naa)})}
    BY <2>1
  <2> HIDE DEF J
  <2> QED BY <2>2 DEF WithoutNaa
<1>3. J \in SUBSET (1 .. Len(left))   OBVIOUS
<1>4. \A j \in 1 .. Len(left) : j \in J \/ ~Related(left[j])
  BY DEF RfmFor, Related, petype_not_naa_related
<1> HIDE DEF left, J, s
<1>5. UniqueUids(left)
  BY <1>0, <1>1, SublistNumbered
<1>6. s \in Seq(PEs) /\ SublistAt(s, left, J)   BY <1>1, <1>2, <1>3, AtIsSublist
<1>7. Range(s) \subseteq Range(left)   BY <1>1, <1>3, <1>6, SublistNumbered
<1>8. Types(s) \subseteq Types(left) /\ Uids(s) \subseteq Uids(left)   BY <1>7 DEF Types, Uids
<1>9. naa \notin Types(s) /\ Uids(s) \cap Gone(naa) = {}   BY <1>1, <1>8
<1>10. ASSUME "remove-pe" \notin removed, NEW m \in NaaTypes PROVE InstancesAfter(s, m)
  <2>1. CASE m = naa
    <3>1. Where(s, naa) = {}
      <4>1. DOMAIN s = 1 .. Len(s)   BY <1>6, LenProperties
      <4> QED BY <1>9, <4>1 DEF Where, Types, Range
    <3>2. Instances(s, naa) = {}   BY <3>1 DEF Instances
    <3>3. \A inst \in pes_by_naa[naa] : inst.pes \cap Uids(s) = {}   BY <1>9 DEF Gone
    <3> QED BY <2>1, <3>2, <3>3 DEF InstancesAfter
  <2>2. CASE m # naa
    <3>1. OfInstances(t, naa, Gone(naa))
      <4> SUFFICES ASSUME NEW u \in Gone(naa) \cap Uids(t)
                   PROVE  \E inst \in Instances(t, naa) : u \in inst.pes
        BY DEF OfInstances
      <4>1. PICK inst \in pes_by_naa[naa] : u \in inst.pes   BY DEF Gone
      <4>2. inst \in Instances(t, naa)   BY <1>0, <1>10, <4>1 DEF IndexOf
      <4> QED BY <4>1, <4>2
    <3>2. Instances(left, m) = Instances(t, m)   BY <1>1, <2>2, <3>1
    <3>3. Instances(s, m) = Instances(left, m)   BY <1>1, <1>2, <1>3, <1>4, <1>5, UnrelatedRemoved
    <3> QED BY <3>2, <3>3 DEF InstancesAfter
  <2> QED BY <2>1, <2>2
<1> QED BY <1>9, <1>10 DEF s

\* Removing an NAA keeps the invariant.
LEMMA RemoveNaaStep == ASSUME ElementsIInv, remove_naas_of_type PROVE ElementsIInv'
<1>1. PICK naa \in Removable :
        Edit("remove-naa", naa) /\ New(WithoutNaa(naa)) /\ removed' = removed \cup {"remove-naa"}
  BY DEF remove_naas_of_type
<1>2. /\ loaded /\ ops' = ops + 1 /\ op'.name = "remove-naa" /\ file' = file /\ loaded' = loaded
      /\ loads' = loads /\ applied' = applied
  BY <1>1 DEF Edit, Call
<1> DEFINE s == WithoutNaa(naa)
           kept == {i \in 1 .. Len(pe_list) : pe_list[i].uid \notin Gone(naa) /\ ~RfmFor(naa, pe_list[i])}
<1>3. kept \in SUBSET (1 .. Len(pe_list)) /\ s = At(pe_list, kept)   BY <1>2, WithoutNaaIs
<1>7. StartsWithHeader /\ Len(pe_list) >= 1 /\ pe_list[1].type = "header" /\ pe_list[1].uid = 1 => 1 \in kept
  <2>1. IndexOf(naa)   BY <1>2 DEF ElementsIInv, Indexed, Removable, NaaTypes
  <2>2. StartsWithHeader => 1 \notin Gone(naa)   BY <2>1 DEF IndexOf, Gone
  <2>3. pe_list[1].type = "header" => ~RfmFor(naa, pe_list[1])   BY DEF RfmFor
  <2>4. Len(pe_list) >= 1 => 1 \in 1 .. Len(pe_list)
    BY LenProperties DEF ElementsIInv, ElementsTypes
  <2> QED BY <2>2, <2>3, <2>4
<1> HIDE DEF kept
<1>4. /\ s \in Seq(PEs) /\ UniqueUids(s) /\ Numbered(s)
      /\ Uids(s) \subseteq 1 .. Len(file.pes) + ops + 1 /\ Edited(s, pe_list, Known)
      /\ 1 \in kept => HeaderKept(s)
  BY <1>2, <1>3, RemovalEdits
<1>5. "remove-pe" \notin removed' => \A m \in NaaTypes : InstancesAfter(s, m)
  BY <1>1, <1>2, WithoutNaaInstances
<1>6. New(s)   BY <1>1
<1> HIDE DEF s
<1>8. HeaderKept(s)   BY <1>4, <1>7 DEF HeaderKept
<1> QED BY <1>1, <1>2, <1>4, <1>5, <1>6, <1>8, EditKeeps

\* Adding an application or a security domain keeps the invariant.
LEMMA InsertSteps == ASSUME ElementsIInv, do_add_app \/ add_ssd PROVE ElementsIInv'
<1>1. PICK i \in 1 .. Len(pe_list), type \in {"application", "securityDomain"} :
        /\ Edit("add-app", "-") \/ Edit("add-ssd", "-")
        /\ New(inserted(pe_list, i, NewPE(type))) /\ removed' = removed
  <2>1. CASE do_add_app   BY <2>1 DEF do_add_app
  <2>2. CASE add_ssd
    <3>1. PICK i \in First(Where(pe_list, "securityDomain")) :
            /\ Edit("add-ssd", "-")
            /\ New(inserted(pe_list, i, NewPE("securityDomain"))) /\ removed' = removed
      BY <2>2 DEF add_ssd
    <3>2. i \in 1 .. Len(pe_list)   BY DEF First, Where
    <3> QED BY <3>1, <3>2
  <2> QED BY <2>1, <2>2
<1>2. /\ loaded /\ ops' = ops + 1 /\ op'.name # "write" /\ file' = file /\ loaded' = loaded
      /\ loads' = loads /\ applied' = applied
  BY <1>1 DEF Edit, Call
<1> QED BY <1>1, <1>2, InsertStep

\* Edits of the header leave the list and the index.
LEMMA HeaderSteps ==
  ASSUME ElementsIInv,
         do_edit_mand_srv_list \/ rebuild_mandatory_services \/ rebuild_mandatory_gfstelist
  PROVE  ElementsIInv'
<1>1. /\ \E name \in {"edit-services", "rebuild-services", "rebuild-gfste"} : \E arg : Edit(name, arg)
      /\ pe_list' = pe_list /\ pes_by_naa' = pes_by_naa /\ removed' = removed
  BY DEF do_edit_mand_srv_list, rebuild_mandatory_services, rebuild_mandatory_gfstelist
<1>2. /\ loaded /\ ops' = ops + 1 /\ op'.name # "write" /\ file' = file /\ loaded' = loaded
      /\ loads' = loads /\ applied' = applied
  BY <1>1 DEF Edit, Call
<1>3. Set({}, "value") <=> pe_list' = [i \in 1 .. Len(pe_list) |-> pe_list[i]]   BY DEF Set
<1>4. pe_list = [i \in 1 .. Len(pe_list) |-> pe_list[i]]
  <2>1. pe_list \in Seq(PEs)   BY DEF ElementsIInv, ElementsTypes
  <2>2. DOMAIN pe_list = 1 .. Len(pe_list)   BY <2>1, LenProperties
  <2> QED BY <2>1, <2>2
<1>5. Set({}, "value")   BY <1>1, <1>3, <1>4
<1> QED BY <1>1, <1>2, <1>5, SetKeeps

\* Where a parameter that all PEs of some types hold is set.
LEMMA SetTypes ==
  ASSUME ElementsIInv, NEW types, Set(OfTypes(types), "value"), NEW i \in 1 .. Len(pe_list),
         pe_list[i].type \in types
  PROVE  pe_list'[i].value = "new"
<1>1. pe_list \in Seq(PEs) /\ DOMAIN pe_list = 1 .. Len(pe_list) /\ pe_list[i] \in PEs
  BY LenProperties, ElementOfSeq DEF ElementsIInv, ElementsTypes
<1>2. pe_list[i].uid \in OfTypes(types)   BY <1>1 DEF OfTypes, Range
<1>3. pe_list'[i] = [pe_list[i] EXCEPT !.value = "new"]   BY <1>2 DEF Set
<1> QED BY <1>1, <1>3, ValueSet

\* Setting the ICCID, the IMSI or the key keeps the invariant, and what is
\* applied is in place.
LEMMA ValueSteps == ASSUME ElementsIInv, Iccid \/ IccidRaises \/ Imsi \/ K PROVE ElementsIInv'
<1>1. PICK types, param :
        /\ loaded /\ ops' = ops + 1 /\ op'.name # "write" /\ file' = file /\ loaded' = loaded /\ loads' = loads
        /\ pes_by_naa' = pes_by_naa /\ removed' = removed
        /\ Set(OfTypes(types), "value")
        /\ \/ applied' = applied
           \/ /\ applied' = applied \cup {param}
              /\ \/ param = "ICCID" /\ types = {"header", "mf"}
                 \/ param = "IMSI" /\ types = {"usim"}
                 \/ param = "K" /\ types = {"akaParameter"}
  <2>1. CASE Iccid   BY <2>1 DEF Iccid, Apply, Call
  <2>2. CASE IccidRaises   BY <2>2 DEF IccidRaises, Edit, Call
  <2>3. CASE Imsi   BY <2>3 DEF Imsi, Apply, Call
  <2>4. CASE K   BY <2>4 DEF K, Apply, Call
  <2> QED BY <2>1, <2>2, <2>3, <2>4
<1>2. /\ (\A p \in applied' : p \in applied \/ InPlace(p)') => ElementsIInv'
      /\ Len(pe_list') = Len(pe_list)
      /\ \A i \in 1 .. Len(pe_list) : SameObject(pe_list'[i], pe_list[i])
  BY <1>1, SetKeeps
<1>3. ASSUME applied' = applied \cup {param},
             \/ param = "ICCID" /\ types = {"header", "mf"}
             \/ param = "IMSI" /\ types = {"usim"}
             \/ param = "K" /\ types = {"akaParameter"}
      PROVE  InPlace(param)'
  <2>1. ASSUME NEW i \in 1 .. Len(pe_list'), pe_list'[i].type \in types PROVE pe_list'[i].value = "new"
    <3>1. i \in 1 .. Len(pe_list) /\ pe_list[i].type \in types   BY <1>2, <2>1 DEF SameObject
    <3> QED BY <1>1, <3>1, SetTypes
  <2> QED BY <1>3, <2>1 DEF InPlace
<1> QED BY <1>1, <1>2, <1>3

\* Setting the PIN2 of all instances, or of some before one raises, keeps the
\* invariant.
LEMMA PinStep == ASSUME ElementsIInv, Pin2 \/ Pin2Raises PROVE ElementsIInv'
<1>1. PICK visited \in SUBSET Pin2Instances :
        /\ loaded /\ ops' = ops + 1 /\ op'.name # "write" /\ file' = file /\ loaded' = loaded /\ loads' = loads
        /\ pes_by_naa' = pes_by_naa /\ removed' = removed
        /\ Set(UNION {inst.pin : inst \in visited}, "pin2")
        /\ \/ applied' = applied
           \/ applied' = applied \cup {"PIN2"} /\ visited = Pin2Instances
  <2>1. CASE Pin2   BY <2>1 DEF Pin2, Apply, Call
  <2>2. CASE Pin2Raises   BY <2>2 DEF Pin2Raises, Edit, Call
  <2> QED BY <2>1, <2>2
<1> DEFINE uids == UNION {inst.pin : inst \in visited}
<1>2. \A naa \in Removable : IndexOf(naa) /\ naa \in NaaTypes
  BY <1>1 DEF ElementsIInv, Indexed, Removable, NaaTypes
<1>3. \A inst : inst \in Pin2Instances <=> \E naa \in Removable : inst \in pes_by_naa[naa]
  BY DEF Pin2Instances, Removable
<1>4. \A i \in 1 .. Len(pe_list) : pe_list[i].uid \in uids => pe_list[i].pin2 # "-"
  <2> SUFFICES ASSUME NEW i \in 1 .. Len(pe_list), NEW inst \in visited, pe_list[i].uid \in inst.pin
               PROVE  pe_list[i].pin2 # "-"
    OBVIOUS
  <2>1. PICK naa \in Removable : inst \in pes_by_naa[naa]   BY <1>3
  <2> QED BY <1>2, <2>1 DEF IndexOf
<1>5. Set(uids, "pin2")   BY <1>1
<1>6. \A u : u \in uids <=> \E inst \in visited : u \in inst.pin   OBVIOUS
<1> HIDE DEF uids
<1>7. /\ (\A p \in applied' : p \in applied \/ InPlace(p)') => ElementsIInv'
      /\ Len(pe_list') = Len(pe_list)
      /\ \A i \in 1 .. Len(pe_list) : SameObject(pe_list'[i], pe_list[i])
      /\ \A naa \in NaaTypes : Instances(pe_list', naa) = Instances(pe_list, naa)
  BY <1>1, <1>4, <1>5, SetKeeps
<1>8. ASSUME visited = Pin2Instances PROVE InPlace("PIN2")'
  <2>1. ASSUME NEW i \in 1 .. Len(pe_list'), NEW naa \in Removable,
               NEW inst \in Instances(pe_list', naa), pe_list'[i].uid \in inst.pin
        PROVE  pe_list'[i].pin2 = "new"
    <3>1. i \in 1 .. Len(pe_list) /\ pe_list[i].uid \in inst.pin   BY <1>7, <2>1 DEF SameObject
    <3>2. inst \in visited   BY <1>2, <1>3, <1>7, <1>8 DEF IndexOf
    <3>3. pe_list[i].uid \in uids   BY <1>6, <3>1, <3>2
    <3>4. pe_list[i] \in PEs   BY <3>1, ElementOfSeq DEF ElementsIInv, ElementsTypes
    <3>5. pe_list[i].pin2 # "-"   BY <1>4, <3>1, <3>3
    <3>6. pe_list'[i] = [pe_list[i] EXCEPT !.pin2 = "new"]   BY <1>5, <3>1, <3>3 DEF Set
    <3> QED BY <3>4, <3>5, <3>6, Pin2Set
  <2> QED BY <2>1 DEF InPlace
<1> QED BY <1>1, <1>7, <1>8

\* Every step keeps the invariant.
LEMMA ElementsStep == ElementsIInv /\ [Next]_vars => ElementsIInv'
<1> SUFFICES ASSUME ElementsIInv, [Next]_vars PROVE ElementsIInv'   OBVIOUS
<1>1. CASE Load   BY <1>1, LoadStep
<1>2. CASE write_pes   BY <1>2, WriteStep
<1>3. CASE do_remove_pe   BY <1>3, RemovePeStep
<1>4. CASE remove_naas_of_type   BY <1>4, RemoveNaaStep
<1>5. CASE do_add_app \/ add_ssd   BY <1>5, InsertSteps
<1>6. CASE do_remove_app   BY <1>6, RemoveAppStep
<1>7. CASE do_edit_mand_srv_list \/ rebuild_mandatory_services \/ rebuild_mandatory_gfstelist
  BY <1>7, HeaderSteps
<1>8. CASE Iccid \/ IccidRaises \/ Imsi \/ K   BY <1>8, ValueSteps
<1>9. CASE Pin2 \/ Pin2Raises   BY <1>9, PinStep
<1>10. CASE UNCHANGED vars
  <2>1. pe_list' = pe_list /\ removed' = removed /\ Known' = Known   BY <1>10 DEF vars, Known
  <2>2. (\A naa \in NaaTypes : IndexOf(naa) => IndexOf(naa)') /\ \A param : InPlace(param) => InPlace(param)'
    BY <1>10, <2>1 DEF vars, IndexOf, InPlace, StartsWithHeader
  <2> QED BY <1>10, <2>1, <2>2
        DEF vars, ElementsIInv, ElementsTypes, Objects, HeaderFirst, StartsWithHeader, Numbering, Indexed, Applied, Written
<1> QED BY <1>1, <1>2, <1>3, <1>4, <1>5, <1>6, <1>7, <1>8, <1>9, <1>10 DEF Next

\* The invariant holds of profiles with any PEs and any sessions: the index has
\* the instances of the list, whatever was edited (_rebuild_pes_by_naa).
THEOREM ElementsInvariant == Spec => []ElementsIInv
BY ElementsInitially, ElementsStep, PTL DEF Spec

-----------------------------------------------------------------------------
(* The properties                                                            *)

\* The PEs in memory keep distinct identifications over any edits
\* (renumber_identification).
THEOREM IdentificationsUnique == Spec => []IdentificationUnique
<1>1. ElementsIInv => IdentificationUnique
  BY DEF ElementsIInv, Numbering, Numbered, IdentificationUnique
<1> QED BY <1>1, ElementsInvariant, PTL

\* A file that was written has what was applied.
LEMMA WrittenAsApplied == ElementsIInv => AppliedIsWritten
<1> SUFFICES ASSUME ElementsIInv, op.name = "write" PROVE AppliedIsWritten   BY DEF AppliedIsWritten
<1> DEFINE f == file.pes
           t == pe_list
<1>1. t \in Seq(PEs) /\ f \in Seq(PEs) /\ DOMAIN f = 1 .. Len(f) /\ Len(t) \in Nat
      /\ \A i \in 1 .. Len(t) : t[i] \in PEs
  BY LenProperties, ElementOfSeq DEF ElementsIInv, ElementsTypes
<1>2. f = [i \in 1 .. Len(t) |-> [t[i] EXCEPT !.uid = 0]]   BY DEF ElementsIInv, Written
<1>3. DOMAIN f = 1 .. Len(t)   BY <1>2
<1>4. \A i \in 1 .. Len(t) : f[i].type = t[i].type /\ f[i].value = t[i].value /\ f[i].pin2 = t[i].pin2
  <2> TAKE i \in 1 .. Len(t)
  <2>1. f[i] = [t[i] EXCEPT !.uid = 0] /\ t[i] \in PEs   BY <1>1, <1>2
  <2> HIDE DEF f, t
  <2> QED BY <2>1 DEF PEs
<1>5. \A pe \in Range(f) : \E i \in 1 .. Len(t) : pe = f[i]   BY <1>3 DEF Range
<1> HIDE DEF f
<1>6. \A param \in applied : InPlace(param)   BY DEF ElementsIInv, Applied
<1>7. "ICCID" \in applied => \A pe \in Range(f) : pe.type \in {"header", "mf"} => pe.value = "new"
  BY <1>4, <1>5, <1>6 DEF InPlace
<1>8. "IMSI" \in applied => \A pe \in Range(f) : pe.type = "usim" => pe.value = "new"
  BY <1>4, <1>5, <1>6 DEF InPlace
<1>9. "K" \in applied => \A pe \in Range(f) : pe.type = "akaParameter" => pe.value = "new"
  BY <1>4, <1>5, <1>6 DEF InPlace
<1>10. ASSUME "PIN2" \in applied, "remove-pe" \notin removed,
              NEW naa \in Removable, NEW i \in Instances(t, naa),
              NEW j \in 1 .. Len(t), t[j].uid \in i.pin
       PROVE  f[j].pin2 = "new"
  BY <1>4, <1>6, <1>10 DEF InPlace
<1> QED BY <1>7, <1>8, <1>9, <1>10 DEF AppliedIsWritten, f

\* A parameter applied without an error is in the file written after it, at every
\* place that holds it (apply_val, to_der).
THEOREM ParametersWritten == Spec => []AppliedIsWritten
BY WrittenAsApplied, ElementsInvariant, PTL

\* What RemovedWithoutTrace says of a step.
RemovalStep ==
  op'.name = "remove-naa" /\ ops' # ops /\ Ordered(op'.arg) =>
     LET naa == op'.arg
         rfm == {pe \in Range(pe_list) : pe.type = "rfm" /\ \E a \in Where(pe_list, naa) : pe.adf = pe_list[a].adf}
         own == (UNION {i.pes : i \in Instances(pe_list, naa)}) \cup {pe.uid : pe \in rfm}
     IN /\ Types(pe_list') \cap pe_types[naa] = {}
        /\ naa \notin svc' /\ gfste' \cap pe_types[naa] = {}
        /\ "remove-pe" \notin removed => pe_list' = Keep(pe_list, Uids(pe_list) \ own)

\* Every step that removes an NAA satisfies it.
LEMMA RemovalOfNaa == ElementsIInv /\ [Next]_vars => RemovalStep
<1> SUFFICES ASSUME ElementsIInv, [Next]_vars, op'.name = "remove-naa", ops' # ops, Ordered(op'.arg)
             PROVE  LET naa == op'.arg
                        rfm == {pe \in Range(pe_list) : pe.type = "rfm" /\ \E a \in Where(pe_list, naa) : pe.adf = pe_list[a].adf}
                        own == (UNION {i.pes : i \in Instances(pe_list, naa)}) \cup {pe.uid : pe \in rfm}
                    IN /\ Types(pe_list') \cap pe_types[naa] = {}
                       /\ naa \notin svc' /\ gfste' \cap pe_types[naa] = {}
                       /\ "remove-pe" \notin removed => pe_list' = Keep(pe_list, Uids(pe_list) \ own)
  BY DEF RemovalStep
<1>1. remove_naas_of_type
  <2>1. ~Load /\ ~write_pes   BY DEF Load, write_pes
  <2>2. ~UNCHANGED vars   BY DEF vars
  <2>3. ~do_remove_pe /\ ~do_remove_app /\ ~do_add_app /\ ~add_ssd
    <3>1. do_remove_pe => \E arg : Edit("remove-pe", arg)   BY DEF do_remove_pe
    <3>2. do_remove_app => Edit("remove-app", "-")   BY DEF do_remove_app
    <3>3. do_add_app => Edit("add-app", "-")   BY DEF do_add_app
    <3>4. add_ssd => Edit("add-ssd", "-")   BY DEF add_ssd
    <3> QED BY <3>1, <3>2, <3>3, <3>4 DEF Edit, Call
  <2>4. ~do_edit_mand_srv_list /\ ~rebuild_mandatory_services /\ ~rebuild_mandatory_gfstelist
    BY DEF do_edit_mand_srv_list, rebuild_mandatory_services, rebuild_mandatory_gfstelist, Edit, Call
  <2>5. ~Iccid /\ ~IccidRaises /\ ~Imsi /\ ~K /\ ~Pin2 /\ ~Pin2Raises
    BY DEF Iccid, IccidRaises, Imsi, K, Pin2, Pin2Raises, Apply, Edit, Call
  <2> QED BY <2>1, <2>2, <2>3, <2>4, <2>5 DEF Next
<1>2. PICK naa \in Removable :
        /\ Edit("remove-naa", naa) /\ New(WithoutNaa(naa)) /\ svc' = svc \ {naa} /\ gfste' = gfste \ pe_types[naa]
  BY <1>1 DEF remove_naas_of_type
<1>3. op'.arg = naa /\ loaded   BY <1>2 DEF Edit, Call
<1> DEFINE t == pe_list
           s == pe_list'
           rfm == {pe \in Range(pe_list) : pe.type = "rfm" /\ \E a \in Where(pe_list, naa) : pe.adf = pe_list[a].adf}
           ofInstances == UNION {i.pes : i \in Instances(pe_list, naa)}
           ofRfm == {pe.uid : pe \in rfm}
           own == ofInstances \cup ofRfm
           kept == {i \in 1 .. Len(pe_list) : pe_list[i].uid \notin Gone(naa) /\ ~RfmFor(naa, pe_list[i])}
<1>4. /\ t \in Seq(PEs) /\ UniqueUids(t) /\ naa \in NaaTypes /\ IndexOf(naa) /\ DOMAIN t = 1 .. Len(t)
  BY <1>3, LenProperties DEF ElementsIInv, ElementsTypes, Objects, Indexed, Removable, NaaTypes
<1>5. s = WithoutNaa(naa) /\ s = At(t, kept) /\ kept \in SUBSET (1 .. Len(t))
  BY <1>2, <1>3, WithoutNaaIs DEF New
<1>6. \A i \in 1 .. Len(t) : t[i].uid \in Uids(t) /\ t[i] \in Range(t)   BY <1>4 DEF Uids, Range
<1> HIDE DEF s
<1>7. Types(s) \cap pe_types[naa] = {}
  <2>1. s \in Seq(PEs) /\ \A i \in 1 .. Len(s) : \E j \in kept : s[i] = t[j]
    <3>1. Numbered(t)   BY DEF ElementsIInv, Numbering
    <3> DEFINE r == At(t, kept)
    <3>2. r \in Seq(PEs) /\ \A i \in 1 .. Len(r) : \E j \in kept : r[i] = t[j]
      <4> HIDE DEF kept, t
      <4> QED BY <1>4, <1>5, <3>1, Removed
    <3>3. s = r   BY <1>5
    <3> HIDE DEF r, kept, t
    <3> QED BY <3>2, <3>3
  <2>2. DOMAIN s = 1 .. Len(s)   BY <2>1, LenProperties
  <2> SUFFICES ASSUME NEW i \in 1 .. Len(s), s[i].type \in pe_types[naa] PROVE FALSE
    BY <2>2 DEF Types, Range
  <2>3. PICK j \in kept : s[i] = t[j]   BY <2>1
  <2>4. j \in 1 .. Len(t) /\ t[j].uid \notin Gone(naa) /\ t[j] \in Range(t)   BY <1>6
  <2>5. PICK inst \in Instances(t, naa) : t[j].uid \in inst.pes   BY <1>3, <2>3, <2>4 DEF Ordered
  <2>6. inst \in pes_by_naa[naa]   BY <1>4 DEF IndexOf
  <2> QED BY <2>4, <2>5, <2>6 DEF Gone
<1>8. naa \notin svc' /\ gfste' \cap pe_types[naa] = {}   BY <1>2
<1>9. ASSUME "remove-pe" \notin removed PROVE s = Keep(t, Uids(t) \ own)
  <2>1. ASSUME NEW i \in 1 .. Len(t)
        PROVE  t[i].uid \in Gone(naa) <=> \E inst \in Instances(t, naa) : t[i].uid \in inst.pes
    <3>1. \A inst \in Instances(t, naa) : inst \in pes_by_naa[naa]   BY <1>4 DEF IndexOf
    <3>2. \A inst \in pes_by_naa[naa] : t[i].uid \in inst.pes => inst \in Instances(t, naa)
      BY <1>4, <1>6, <1>9 DEF IndexOf
    <3> QED BY <3>1, <3>2 DEF Gone
  <2>2. ASSUME NEW i \in 1 .. Len(t) PROVE t[i].uid \in {pe.uid : pe \in rfm} <=> RfmFor(naa, t[i])
    <3>1. RfmFor(naa, t[i]) => t[i] \in rfm   BY <1>6 DEF RfmFor
    <3>2. ASSUME NEW pe \in rfm, t[i].uid = pe.uid PROVE RfmFor(naa, t[i])
      <4>1. PICK j \in 1 .. Len(t) : pe = t[j]   BY <1>4 DEF Range
      <4>2. i = j   BY <1>4, <3>2, <4>1 DEF UniqueUids
      <4> QED BY <3>2, <4>1, <4>2 DEF RfmFor
    <3> QED BY <3>1, <3>2
  <2>3. \A i \in 1 .. Len(t) : t[i].uid \in own <=> t[i].uid \in Gone(naa) \/ RfmFor(naa, t[i])
    <3> TAKE i \in 1 .. Len(t)
    <3> DEFINE u == t[i].uid
    <3>1. u \in ofInstances <=> \E inst \in Instances(t, naa) : u \in inst.pes
      <4> HIDE DEF u
      <4> QED OBVIOUS
    <3>2. u \in ofRfm <=> RfmFor(naa, t[i])   BY <2>2
    <3> HIDE DEF ofInstances, ofRfm
    <3> QED BY <2>1, <3>1, <3>2
  <2> HIDE DEF own
  <2>4. {i \in 1 .. Len(t) : t[i].uid \in Uids(t) \ own} = kept   BY <1>6, <2>3
  <2> QED BY <1>5, <2>4 DEF Keep
<1> QED BY <1>3, <1>7, <1>8, <1>9 DEF s

\* Removing an NAA leaves nothing of it and takes nothing else
\* (remove_naas_of_type).
THEOREM NaaRemovedWithoutTrace == Spec => RemovedWithoutTrace
<1>1. RemovedWithoutTrace <=> [][RemovalStep]_vars
  BY DEF RemovedWithoutTrace, RemovalStep
<1> QED BY <1>1, RemovalOfNaa, ElementsInvariant, PTL DEF Spec

-----------------------------------------------------------------------------
(* The basic checks                                                          *)

\* A type of a list is the type of the PE at some position.
LEMMA TypesAre ==
  ASSUME NEW list \in Seq(PEs)
  PROVE  /\ Len(list) \in Nat
         /\ \A x : x \in Types(list) <=> \E i \in 1 .. Len(list) : list[i].type = x
<1>1. Len(list) \in Nat /\ DOMAIN list = 1 .. Len(list)   BY LenProperties
<1>2. Range(list) = {list[i] : i \in 1 .. Len(list)}   BY <1>1 DEF Range
<1> QED BY <1>1, <1>2 DEF Types

\* The checks of the start, the end and the number of PEs, of a sublist.
LEMMA ChecksOfSublist ==
  ASSUME NEW s \in Seq(PEs), NEW t \in Seq(PEs), NEW I \in SUBSET (1 .. Len(t)), SublistAt(s, t, I),
         1 \in I, 2 \in I, Len(t) \in I, check_start_and_end(t), check_number_of_occurrence(t)
  PROVE  check_start_and_end(s) /\ check_number_of_occurrence(s)
<1>1. /\ s[1] = t[1] /\ Len(s) >= 2 /\ s[2] = t[2] /\ s[Len(s)] = t[Len(t)]
  BY SublistEnds
<1>2. check_start_and_end(s)   BY <1>1 DEF check_start_and_end, Last
<1>3. PICK h : Embedded(h, s, t, I) /\ \A i \in 1 .. Len(s) : s[i] = t[h[i]]   BY DEF SublistAt
<1>4. Embedded(h, s, t, I)   BY <1>3
<1>5. /\ \A i \in 1 .. Len(s) : h[i] \in 1 .. Len(t) /\ s[i] = t[h[i]]
      /\ InOrder(h, Len(s))
  BY <1>3, <1>4, EmbeddedOrder
<1>6. ASSUME NEW x, \A i, j \in Where(t, x) : i = j, NEW i \in Where(s, x), NEW j \in Where(s, x)
      PROVE  i = j
  <2>1. i \in 1 .. Len(s) /\ j \in 1 .. Len(s) /\ s[i].type = x /\ s[j].type = x   BY DEF Where
  <2>2. h[i] \in Where(t, x) /\ h[j] \in Where(t, x)   BY <1>5, <2>1 DEF Where
  <2>3. h[i] = h[j]   BY <1>6, <2>2
  <2> QED BY <1>5, <2>1, <2>3 DEF InOrder
<1> QED BY <1>2, <1>6 DEF check_number_of_occurrence

\* Removing an application keeps the basic checks.
LEMMA ChecksWithoutApp ==
  ASSUME ElementsIInv, do_remove_app, Checks(pe_list, svc), IdentificationUnique'
  PROVE  Checks(pe_list', svc')
<1> DEFINE t == pe_list
           s == pe_list'
<1>0. t \in Seq(PEs) /\ UniqueUids(t) /\ Numbered(t)
  <2>1. loaded   BY DEF do_remove_app, Edit, Call
  <2> QED BY <2>1 DEF ElementsIInv, ElementsTypes, Objects, Numbering
<1>1. PICK app \in First(Where(t, "application")) :
        /\ svc' = svc
        /\ s = At(t, {i \in 1..Len(t) : t[i].identification # t[app].identification})
  BY DEF do_remove_app, New
<1>2. app \in 1 .. Len(t) /\ t[app].type = "application"   BY DEF First, Where
<1> DEFINE I == {i \in 1..Len(t) : t[i].identification # t[app].identification}
<1>3. \A i \in 1 .. Len(t) : t[i].type # "application" => i \in I
  <2> TAKE i \in 1 .. Len(t)
  <2> SUFFICES ASSUME t[i].identification = t[app].identification, t[i].type # "application" PROVE FALSE
    OBVIOUS
  <2>1. HasHeader(t[app])   BY <1>2 DEF HasHeader
  <2>2. t[app].identification # 0   BY <1>0, <1>2, <2>1 DEF Numbered
  <2>3. HasHeader(t[i])   BY <1>0, <2>2 DEF Numbered
  <2>4. check_identification_unique(t) /\ i # app   BY <1>0, <1>2 DEF Numbered
  <2> QED BY <1>2, <2>1, <2>3, <2>4 DEF check_identification_unique
<1>4. I \in SUBSET (1 .. Len(t)) /\ s = At(t, I)   BY <1>1
<1> HIDE DEF I, s, t
<1>5. s \in Seq(PEs) /\ SublistAt(s, t, I)   BY <1>0, <1>4, AtIsSublist
<1>6. check_start_and_end(t) /\ check_number_of_occurrence(t) /\ check_optional_ordering(t)
      /\ check_mandatory_services(t, svc)
  BY DEF Checks, t
<1>7. 1 \in I /\ 2 \in I /\ Len(t) \in I
  <2>1. Len(t) >= 2 /\ t[1].type = "header" /\ t[2].type = "mf" /\ t[Len(t)].type = "end"
    BY <1>6 DEF check_start_and_end, Last
  <2>2. Len(t) \in Nat   BY <1>0, LenProperties
  <2>3. 1 \in 1 .. Len(t) /\ 2 \in 1 .. Len(t) /\ Len(t) \in 1 .. Len(t)   BY <2>1, <2>2
  <2> QED BY <1>3, <2>1, <2>3
<1>8. check_start_and_end(s) /\ check_number_of_occurrence(s)
  BY <1>0, <1>4, <1>5, <1>6, <1>7, ChecksOfSublist
<1>9. \A x : x # "application" => (x \in Types(s) <=> x \in Types(t))
  <2>1. \A j \in I : t[j] \in Range(s)   BY <1>0, <1>4, Removed
  <2>2. Types(s) \subseteq Types(t)   BY <1>0, <1>4, Removed
  <2>3. ASSUME NEW x, x # "application", x \in Types(t) PROVE x \in Types(s)
    <3>1. PICK i \in 1 .. Len(t) : t[i].type = x   BY <1>0, <2>3, TypesAre
    <3>2. t[i] \in Range(s)   BY <1>3, <2>1, <2>3, <3>1
    <3> QED BY <3>1, <3>2 DEF Types
  <2> QED BY <2>2, <2>3
<1>10. check_optional_ordering(s)   BY <1>6, <1>9 DEF check_optional_ordering, Removable, Opt
<1>11. check_mandatory_services(s, svc)   BY <1>6, <1>9 DEF check_mandatory_services, Removable
<1>12. check_identification_unique(s)   BY DEF IdentificationUnique, s
<1> QED BY <1>1, <1>8, <1>10, <1>11, <1>12 DEF Checks, s

\* Removing an NAA that is in order keeps the basic checks.
LEMMA ChecksWithoutNaa ==
  ASSUME ElementsIInv, remove_naas_of_type, RemovalStep, Checks(pe_list, svc), IdentificationUnique',
         Ordered(op'.arg), svc \cap {"milenage", "gba-usim"} = {}, 1 \in Where(file.pes, "header")
  PROVE  Checks(pe_list', svc')
<1> DEFINE t == pe_list
           s == pe_list'
<1>1. PICK naa \in Removable :
        /\ Edit("remove-naa", naa) /\ New(WithoutNaa(naa)) /\ svc' = svc \ {naa}
  BY DEF remove_naas_of_type
<1>2. op'.arg = naa /\ op'.name = "remove-naa" /\ ops' # ops /\ loaded
  BY <1>1 DEF Edit, Call, ElementsIInv, ElementsTypes
<1>0. /\ t \in Seq(PEs) /\ UniqueUids(t) /\ Numbered(t) /\ naa \in NaaTypes /\ IndexOf(naa)
      /\ naa # "mf"
  BY <1>2 DEF ElementsIInv, ElementsTypes, Objects, Numbering, Indexed, Removable, NaaTypes
<1> DEFINE I == {i \in 1 .. Len(pe_list) : pe_list[i].uid \notin Gone(naa) /\ ~RfmFor(naa, pe_list[i])}
<1>4. I \in SUBSET (1 .. Len(t)) /\ s = At(t, I)   BY <1>1, <1>2, WithoutNaaIs DEF New
<1>6. check_start_and_end(t) /\ check_number_of_occurrence(t) /\ check_optional_ordering(t)
      /\ check_mandatory_services(t, svc)
  BY DEF Checks
<1>3. ASSUME NEW i \in 1 .. Len(t), t[i].uid \in Gone(naa)
      PROVE  InstanceOf(t[i], naa) /\ i # 1
  <2>1. PICK inst \in pes_by_naa[naa] : t[i].uid \in inst.pes   BY <1>3 DEF Gone
  <2>2. InstanceOf(t[i], naa)   BY <1>0, <2>1 DEF IndexOf
  <2>3. StartsWithHeader
    <3>1. file.pes \in Seq(PEs)   BY DEF ElementsIInv, ElementsTypes
    <3>2. Len(file.pes) \in Nat   BY <3>1, LenProperties
    <3> QED BY <3>2 DEF Where, StartsWithHeader
  <2>4. 1 \notin inst.pes   BY <1>0, <2>1, <2>3 DEF IndexOf
  <2>5. i = 1 => t[i].uid = 1
    <3>1. t[1].type = "header"   BY <1>6 DEF check_start_and_end
    <3> QED BY <1>2, <2>3, <3>1 DEF ElementsIInv, HeaderFirst
  <2> QED BY <2>1, <2>2, <2>4, <2>5
<1>5. \A i \in 1 .. Len(t) :
        \/ i = 1 /\ t[i].type = "header"
        \/ t[i].type = "end"
        \/ t[i].type \in NaaTypes /\ t[i].type # naa
        => i \in I
  <2> TAKE i \in 1 .. Len(t)
  <2>1. ASSUME RfmFor(naa, t[i]) PROVE t[i].type = "rfm"   BY <2>1 DEF RfmFor
  <2>2. ASSUME t[i].uid \in Gone(naa)
        PROVE  i # 1 /\ t[i].type # "end" /\ (t[i].type \in NaaTypes => t[i].type = naa)
    BY <1>3, <2>2 DEF InstanceOf, Related, petype_not_naa_related
  <2> QED BY <2>1, <2>2 DEF NaaTypes
<1>16. Types(s) \cap pe_types[naa] = {}   BY <1>2 DEF RemovalStep
<1> HIDE DEF I, s, t
<1>17. s \in Seq(PEs) /\ SublistAt(s, t, I)   BY <1>0, <1>4, AtIsSublist
<1>7. 1 \in I /\ 2 \in I /\ Len(t) \in I
  <2>1. Len(t) >= 2 /\ t[1].type = "header" /\ t[2].type = "mf" /\ t[Len(t)].type = "end"
    BY <1>6 DEF check_start_and_end, Last
  <2>2. Len(t) \in Nat   BY <1>0, LenProperties
  <2>3. 1 \in 1 .. Len(t) /\ 2 \in 1 .. Len(t) /\ Len(t) \in 1 .. Len(t)   BY <2>1, <2>2
  <2>4. "mf" \in NaaTypes   BY DEF NaaTypes
  <2> QED BY <1>0, <1>5, <2>1, <2>3, <2>4
<1>8. check_start_and_end(s) /\ check_number_of_occurrence(s)
  BY <1>0, <1>4, <1>6, <1>7, <1>17, ChecksOfSublist
<1>9. /\ Types(s) \subseteq Types(t)
      /\ \A x \in Removable : x # naa /\ x \in Types(t) => x \in Types(s)
  <2>1. \A j \in I : t[j] \in Range(s)   BY <1>0, <1>4, Removed
  <2>2. Types(s) \subseteq Types(t)   BY <1>0, <1>4, Removed
  <2>3. ASSUME NEW x \in Removable, x # naa, x \in Types(t) PROVE x \in Types(s)
    <3>1. PICK i \in 1 .. Len(t) : t[i].type = x   BY <1>0, <2>3, TypesAre
    <3>2. x \in NaaTypes   BY DEF Removable, NaaTypes
    <3>3. i \in I   BY <1>5, <2>3, <3>1, <3>2
    <3>4. t[i] \in Range(s)   BY <2>1, <3>3
    <3> QED BY <3>1, <3>4 DEF Types
  <2> QED BY <2>2, <2>3
<1>10. check_optional_ordering(s)
  <2> SUFFICES ASSUME NEW n \in Removable, Opt(n) \in Types(s) PROVE n \in Types(s)
    BY DEF check_optional_ordering
  <2>1. n \in Types(t)   BY <1>6, <1>9 DEF check_optional_ordering
  <2>2. n # naa   BY <1>16 DEF pe_types
  <2> QED BY <1>9, <2>1, <2>2
<1>11. check_mandatory_services(s, svc')
  <2>1. svc \cap Removable \subseteq Types(t)   BY <1>6 DEF check_mandatory_services
  <2>2. svc' \cap Removable \subseteq Types(s)   BY <1>1, <1>9, <2>1
  <2>3. "akaMapping" \notin Types(s)   BY <1>6, <1>9 DEF check_mandatory_services
  <2> QED BY <1>1, <2>2, <2>3 DEF check_mandatory_services
<1>12. check_identification_unique(s)   BY DEF IdentificationUnique, s
<1> QED BY <1>8, <1>10, <1>11, <1>12 DEF Checks, s

\* The types of which a list has at most one PE.
UniqueTypes == {"header", "end"} \cup NaaTypes \cup UNION {pe_types[n] : n \in Removable}

\* Inserting an application or a security domain behind another one keeps the
\* basic checks.
LEMMA ChecksWithInserted ==
  ASSUME ElementsIInv, loaded, Checks(pe_list, svc), IdentificationUnique', svc' = svc,
         NEW i \in 1 .. Len(pe_list), pe_list[i].type = "securityDomain",
         NEW pe \in PEs, pe.uid \notin Uids(pe_list), pe.type \in {"application", "securityDomain"},
         pe_list' = inserted(pe_list, i, pe)
  PROVE  Checks(pe_list', svc')
<1> DEFINE t == pe_list
           s == pe_list'
<1>0. t \in Seq(PEs) /\ UniqueUids(t)
  BY DEF ElementsIInv, ElementsTypes, Objects
<1>1. /\ s \in Seq(PEs) /\ Len(s) = Len(t) + 1
      /\ \A k \in 1 .. Len(s) :
           /\ k <= i => SamePE(s[k], t[k])
           /\ k = i + 1 => SamePE(s[k], pe)
           /\ k > i + 1 => SamePE(s[k], t[k - 1])
  <2>1. ~Related(pe)   BY DEF Related, petype_not_naa_related
  <2> QED BY <1>0, <2>1, UnrelatedInserted
<1> HIDE DEF s
<1>2. Len(t) \in Nat   BY <1>0, LenProperties
<1>3. check_start_and_end(t) /\ check_number_of_occurrence(t) /\ check_optional_ordering(t)
      /\ check_mandatory_services(t, svc)
  BY DEF Checks
<1> DEFINE place(k) == IF k <= i THEN k ELSE k - 1
<1>4. \A k \in 1 .. Len(s) : \/ place(k) \in 1 .. Len(t) /\ k # i + 1 /\ s[k].type = t[place(k)].type
                             \/ k = i + 1 /\ s[k].type = pe.type
  <2> TAKE k \in 1 .. Len(s)
  <2>1. CASE k <= i   BY <1>1, <1>2, <2>1 DEF SamePE, SameObject
  <2>2. CASE k = i + 1   BY <1>1, <2>2 DEF SamePE, SameObject
  <2>3. CASE k > i + 1
    <3>1. SamePE(s[k], t[k - 1]) /\ place(k) = k - 1 /\ k - 1 \in 1 .. Len(t)   BY <1>1, <1>2, <2>3
    <3> QED BY <2>3, <3>1 DEF SamePE, SameObject
  <2> QED BY <1>2, <2>1, <2>2, <2>3
<1>5. check_start_and_end(s)
  <2>1. Len(t) >= 2 /\ t[1].type = "header" /\ t[2].type = "mf" /\ t[Len(t)].type = "end"
    BY <1>3 DEF check_start_and_end, Last
  <2>2. i # 1 /\ i # 2 /\ i # Len(t)   BY <2>1
  <2>3. 1 \in 1 .. Len(s) /\ 2 \in 1 .. Len(s) /\ 1 <= i /\ 2 <= i   BY <1>1, <1>2, <2>1, <2>2
  <2>4. s[1].type = "header" /\ s[2].type = "mf"   BY <1>1, <2>1, <2>3 DEF SamePE, SameObject
  <2>5. Len(s) \in 1 .. Len(s) /\ Len(s) > i + 1 /\ Len(s) - 1 = Len(t) /\ Len(s) >= 2
    BY <1>1, <1>2, <2>1, <2>2
  <2>6. SamePE(s[Len(s)], t[Len(t)])   BY <1>1, <2>5
  <2> QED BY <2>1, <2>4, <2>5, <2>6 DEF check_start_and_end, Last, SamePE, SameObject
<1>6. check_number_of_occurrence(s)
  <2>1. pe.type \notin UniqueTypes
    BY DEF UniqueTypes, NaaTypes, pe_types, Removable, Opt
  <2>2. ASSUME NEW x \in UniqueTypes, NEW j \in Where(s, x), NEW k \in Where(s, x) PROVE j = k
    <3>1. j \in 1 .. Len(s) /\ k \in 1 .. Len(s) /\ s[j].type = x /\ s[k].type = x   BY DEF Where
    <3>2. place(j) \in Where(t, x) /\ place(k) \in Where(t, x) /\ j # i + 1 /\ k # i + 1
      <4> HIDE DEF place
      <4> QED BY <1>4, <2>1, <3>1 DEF Where
    <3>3. place(j) = place(k)
      <4>1. \A a, b \in Where(t, x) : a = b   BY <1>3 DEF check_number_of_occurrence, UniqueTypes
      <4> HIDE DEF place
      <4> QED BY <3>2, <4>1
    <3> QED BY <1>1, <1>2, <3>1, <3>2, <3>3
  <2> QED BY <2>2 DEF check_number_of_occurrence, UniqueTypes
<1>7. \A x : x \notin {"application", "securityDomain"} => (x \in Types(s) <=> x \in Types(t))
  <2>1. ASSUME NEW x, x \notin {"application", "securityDomain"}, x \in Types(s) PROVE x \in Types(t)
    <3>1. PICK k \in 1 .. Len(s) : s[k].type = x   BY <1>1, <2>1, TypesAre
    <3>2. place(k) \in 1 .. Len(t) /\ t[place(k)].type = x
      <4> HIDE DEF place
      <4> QED BY <1>4, <2>1, <3>1
    <3> HIDE DEF place
    <3> QED BY <1>0, <3>2, TypesAre
  <2>2. ASSUME NEW x, x \in Types(t) PROVE x \in Types(s)
    <3>1. PICK k \in 1 .. Len(t) : t[k].type = x   BY <1>0, <2>2, TypesAre
    <3>2. CASE k <= i
      <4>1. k \in 1 .. Len(s) /\ s[k].type = x   BY <1>1, <1>2, <3>1, <3>2 DEF SamePE, SameObject
      <4> QED BY <1>1, <4>1, TypesAre
    <3>3. CASE k > i
      <4>1. k + 1 \in 1 .. Len(s) /\ k + 1 > i + 1 /\ k + 1 - 1 = k   BY <1>1, <1>2, <3>3
      <4>2. SamePE(s[k + 1], t[k])   BY <1>1, <4>1
      <4>3. s[k + 1].type = x   BY <3>1, <4>2 DEF SamePE, SameObject
      <4> QED BY <1>1, <4>1, <4>3, TypesAre
    <3> QED BY <1>2, <3>2, <3>3
  <2> QED BY <2>1, <2>2
<1>8. check_optional_ordering(s)   BY <1>3, <1>7 DEF check_optional_ordering, Removable, Opt
<1>9. check_mandatory_services(s, svc)   BY <1>3, <1>7 DEF check_mandatory_services, Removable
<1>10. check_identification_unique(s)   BY DEF IdentificationUnique, s
<1> QED BY <1>5, <1>6, <1>8, <1>9, <1>10 DEF Checks, s

\* The checks see of a PE only its type and identification.
LEMMA ChecksOfTypes ==
  ASSUME NEW s \in Seq(PEs), NEW t \in Seq(PEs), Len(s) = Len(t),
         \A i \in 1 .. Len(t) : s[i].type = t[i].type,
         NEW services, Checks(t, services), check_identification_unique(s)
  PROVE  Checks(s, services)
<1>1. check_start_and_end(t) /\ check_number_of_occurrence(t) /\ check_optional_ordering(t)
      /\ check_mandatory_services(t, services)
  BY DEF Checks
<1>2. Len(t) \in Nat   BY LenProperties
<1>3. check_start_and_end(s)
  <2>1. Len(t) >= 2 /\ t[1].type = "header" /\ t[2].type = "mf" /\ t[Len(t)].type = "end"
    BY <1>1 DEF check_start_and_end, Last
  <2>2. 1 \in 1 .. Len(t) /\ 2 \in 1 .. Len(t) /\ Len(t) \in 1 .. Len(t)   BY <1>2, <2>1
  <2> QED BY <2>1, <2>2 DEF check_start_and_end, Last
<1>4. \A x : Where(s, x) = Where(t, x)   BY DEF Where
<1>5. check_number_of_occurrence(s)   BY <1>1, <1>4 DEF check_number_of_occurrence
<1>6. \A x : x \in Types(s) <=> x \in Types(t)   BY TypesAre
<1>7. check_optional_ordering(s)   BY <1>1, <1>6 DEF check_optional_ordering
<1>8. check_mandatory_services(s, services)   BY <1>1, <1>6 DEF check_mandatory_services
<1> QED BY <1>3, <1>5, <1>7, <1>8 DEF Checks

\* Personalisation changes values and PINs.
LEMMA ChecksWithValues ==
  ASSUME ElementsIInv, Iccid \/ IccidRaises \/ Imsi \/ K \/ Pin2 \/ Pin2Raises,
         Checks(pe_list, svc), IdentificationUnique'
  PROVE  Checks(pe_list', svc')
<1>1. PICK uids, field : Set(uids, field) /\ svc' = svc
  BY DEF Iccid, IccidRaises, Imsi, K, Pin2, Pin2Raises, Apply
<1> DEFINE t == pe_list
           s == pe_list'
<1>2. t \in Seq(PEs) /\ s \in Seq(PEs) /\ Len(t) \in Nat /\ \A i \in 1 .. Len(t) : t[i] \in PEs
  <2>1. ElementsIInv'
    <3>1. CASE Iccid \/ IccidRaises \/ Imsi \/ K   BY <3>1, ValueSteps
    <3>2. CASE Pin2 \/ Pin2Raises   BY <3>2, PinStep
    <3> QED BY <3>1, <3>2
  <2> QED BY <2>1, LenProperties, ElementOfSeq DEF ElementsIInv, ElementsTypes
<1>3. /\ s = [i \in 1 .. Len(t) |-> s[i]]
      /\ \A i \in 1 .. Len(t) :
           s[i] = IF t[i].uid \notin uids THEN t[i]
                  ELSE IF field = "pin2" THEN [t[i] EXCEPT !.pin2 = "new"] ELSE [t[i] EXCEPT !.value = "new"]
  BY <1>1 DEF Set
<1>4. Len(s) = Len(t)
  <2>1. DOMAIN s = 1 .. Len(t) /\ DOMAIN s = 1 .. Len(s) /\ Len(s) \in Nat   BY <1>2, <1>3, LenProperties
  <2> HIDE DEF s, t
  <2> QED BY <1>2, <2>1
<1>5. \A i \in 1 .. Len(t) : s[i].type = t[i].type
  <2> TAKE i \in 1 .. Len(t)
  <2>1. t[i] \in PEs   BY <1>2
  <2> DEFINE x == t[i]
             y == s[i]
  <2>2. y = x \/ y = [x EXCEPT !.pin2 = "new"] \/ y = [x EXCEPT !.value = "new"]   BY <1>3
  <2>3. x \in PEs   BY <2>1
  <2> HIDE DEF x, y
  <2>4. y.type = x.type   BY <2>2, <2>3 DEF PEs
  <2> QED BY <2>4 DEF x, y
<1>6. check_identification_unique(s)   BY DEF IdentificationUnique
<1> HIDE DEF s, t
<1>7. Checks(s, svc)
  <2>1. Checks(t, svc)   BY DEF t
  <2> QED BY <1>2, <1>4, <1>5, <1>6, <2>1, ChecksOfTypes
<1> QED BY <1>1, <1>7 DEF s

\* add-app and add_ssd insert so.
LEMMA ChecksWithInsertion ==
  ASSUME ElementsIInv, do_add_app \/ add_ssd, Checks(pe_list, svc), IdentificationUnique'
  PROVE  Checks(pe_list', svc')
<1>1. PICK i \in 1 .. Len(pe_list), type \in {"application", "securityDomain"} :
        /\ loaded /\ pe_list[i].type = "securityDomain" /\ svc' = svc
        /\ pe_list' = inserted(pe_list, i, NewPE(type))
  <2>1. CASE do_add_app
    <3>1. PICK i \in 1 .. Len(pe_list) :
            /\ loaded /\ Where(pe_list, "securityDomain") = {i} /\ svc' = svc
            /\ pe_list' = inserted(pe_list, i, NewPE("application"))
      BY <2>1 DEF do_add_app, New, Edit, Call
    <3>2. pe_list[i].type = "securityDomain"   BY <3>1 DEF Where
    <3> QED BY <3>1, <3>2
  <2>2. CASE add_ssd
    <3>1. PICK i \in First(Where(pe_list, "securityDomain")) :
            /\ loaded /\ svc' = svc
            /\ pe_list' = inserted(pe_list, i, NewPE("securityDomain"))
      BY <2>2 DEF add_ssd, New, Edit, Call
    <3>2. i \in 1 .. Len(pe_list) /\ pe_list[i].type = "securityDomain"   BY DEF First, Where
    <3> QED BY <3>1, <3>2
  <2> QED BY <2>1, <2>2
<1> DEFINE pe == NewPE(type)
<1>2. pe \in PEs /\ pe.type = type /\ pe.uid \notin Known   BY <1>1, NewObject
<1>3. pe.uid \notin Uids(pe_list)   BY <1>1, <1>2 DEF ElementsIInv, Objects
<1>4. pe_list' = inserted(pe_list, i, pe)   BY <1>1
<1> HIDE DEF pe
<1> QED BY <1>1, <1>2, <1>3, <1>4, ChecksWithInserted

\* The services are rebuilt from an index that has the instances of the list.
LEMMA ChecksWithServices ==
  ASSUME ElementsIInv, rebuild_mandatory_services, removed = {}, Checks(pe_list, svc)
  PROVE  Checks(pe_list', svc')
<1>1. /\ loaded /\ pe_list' = pe_list
      /\ svc' = {naa \in Removable : \E inst \in pes_by_naa[naa] : inst.mandated}
                \cup {"milenage" : pe \in {pe \in Range(pe_list) : pe.type = "akaParameter" /\ pe.mandated}}
                \cup {"javacard" : pe \in {pe \in Range(pe_list) : pe.type = "application" /\ pe.mandated}}
  BY DEF rebuild_mandatory_services, Edit, Call
<1>2. pe_list \in Seq(PEs)   BY DEF ElementsIInv, ElementsTypes
<1>3. svc' \cap Removable \subseteq Types(pe_list)
  <2> SUFFICES ASSUME NEW naa \in Removable, naa \in svc' PROVE naa \in Types(pe_list)
    OBVIOUS
  <2>1. PICK inst : inst \in pes_by_naa[naa]   BY <1>1 DEF Removable
  <2>2. naa \in NaaTypes   BY DEF Removable, NaaTypes
  <2>3. inst \in Instances(pe_list, naa)   BY <1>1, <2>1, <2>2 DEF ElementsIInv, Indexed, IndexOf
  <2>4. PICK i \in Where(pe_list, naa) : TRUE   BY <2>3 DEF Instances
  <2>5. i \in 1 .. Len(pe_list) /\ pe_list[i].type = naa   BY DEF Where
  <2> QED BY <1>2, <2>5, TypesAre
<1>4. "gba-usim" \notin svc'   BY <1>1 DEF Removable
<1>5. "milenage" \in svc' => "akaParameter" \in Types(pe_list)   BY <1>1 DEF Removable, Types
<1>6. check_mandatory_services(pe_list, svc')
  BY <1>3, <1>4, <1>5 DEF check_mandatory_services, Checks
<1> QED BY <1>1, <1>6 DEF Checks

\* What ChecksKept says of a step.
ChecksStep ==
  ops' # ops /\ Checks(pe_list, svc)
  /\ op'.name \notin {"remove-pe", "edit-services"}
  /\ (op'.name = "remove-naa" => /\ Ordered(op'.arg) /\ svc \cap {"milenage", "gba-usim"} = {}
                                 /\ 1 \in Where(file.pes, "header"))
  /\ (op'.name = "rebuild-services" => removed = {})
  => Checks(pe_list', svc')

\* Every step satisfies it.
LEMMA ChecksAfter == ElementsIInv /\ ElementsIInv' /\ [Next]_vars => ChecksStep
<1> SUFFICES ASSUME ElementsIInv, ElementsIInv', [Next]_vars, ops' # ops, Checks(pe_list, svc),
                    op'.name \notin {"remove-pe", "edit-services"},
                    op'.name = "remove-naa" => /\ Ordered(op'.arg) /\ svc \cap {"milenage", "gba-usim"} = {}
                                               /\ 1 \in Where(file.pes, "header"),
                    op'.name = "rebuild-services" => removed = {}
             PROVE  Checks(pe_list', svc')
  BY DEF ChecksStep
<1>1. IdentificationUnique'   BY DEF ElementsIInv, Numbering, Numbered, IdentificationUnique
<1>2. CASE Load \/ write_pes \/ UNCHANGED vars   BY <1>2 DEF Load, write_pes, vars
<1>3. CASE do_remove_pe   BY <1>3 DEF do_remove_pe, Edit, Call
<1>4. CASE do_edit_mand_srv_list   BY <1>4 DEF do_edit_mand_srv_list, Edit, Call
<1>5. CASE remove_naas_of_type
  <2>1. op'.name = "remove-naa"   BY <1>5 DEF remove_naas_of_type, Edit, Call
  <2>2. RemovalStep   BY RemovalOfNaa
  <2> QED BY <1>1, <1>5, <2>1, <2>2, ChecksWithoutNaa
<1>6. CASE do_remove_app   BY <1>1, <1>6, ChecksWithoutApp
<1>7. CASE do_add_app \/ add_ssd   BY <1>1, <1>7, ChecksWithInsertion
<1>8. CASE rebuild_mandatory_services
  <2>1. op'.name = "rebuild-services"   BY <1>8 DEF rebuild_mandatory_services, Edit, Call
  <2> QED BY <1>8, <2>1, ChecksWithServices
<1>9. CASE rebuild_mandatory_gfstelist
  <2>1. pe_list' = pe_list /\ svc' = svc   BY <1>9 DEF rebuild_mandatory_gfstelist
  <2> QED BY <2>1
<1>10. CASE Iccid \/ IccidRaises \/ Imsi \/ K \/ Pin2 \/ Pin2Raises   BY <1>1, <1>10, ChecksWithValues
<1> QED BY <1>2, <1>3, <1>4, <1>5, <1>6, <1>7, <1>8, <1>9, <1>10 DEF Next

\* A profile that passes the basic checks passes them after every edit but those
\* that ChecksKept names (CheckBasicStructure.check).
THEOREM BasicChecksKept == Spec => ChecksKept
<1>1. ChecksKept <=> [][ChecksStep]_vars
  BY DEF ChecksKept, ChecksStep
<1> QED BY <1>1, ChecksAfter, ElementsInvariant, PTL DEF Spec
=============================================================================
