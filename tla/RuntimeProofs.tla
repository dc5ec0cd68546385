----------------------------- MODULE RuntimeProofs -----------------------------
(***************************************************************************)
(* Proofs about Runtime: any profile and card, any sequence of commands on *)
(* any channels, and any refusals by the card.  The card and what pySim    *)
(* knows of it are trees of paths; LeadsTo(T, f) is the file to which the  *)
(* path f leads on card T.  The first half says where the card gets to     *)
(* along the paths of build_select_path_to, the second what the commands   *)
(* of RuntimeLchan do with it.                                             *)
(*                                                                         *)
(* Then proofs about FileAccess: files of every size, any number of        *)
(* records, any max_cmd_len, any data and any number of faults of the card.*)
(***************************************************************************)
EXTENDS Runtime, FileAccess, Integers, TLAPS, SequenceTheorems, WellFoundedInduction

-----------------------------------------------------------------------------
(* Induction over the naturals, in a first-order form *)

\* A set of numbers with 0 that is closed under successors has all of them.
LEMMA SetInduction ==
  ASSUME NEW S, 0 \in S, \A n \in Nat : n \in S => n + 1 \in S
  PROVE  Nat \subseteq S
<1> DEFINE T == Nat \ S
           R == {ss \in Nat \X Nat : ss[1] < ss[2]}
<1> SUFFICES ASSUME T # {} PROVE FALSE   OBVIOUS
<1>0. IsWellFoundedOn(R, Nat)   BY NatLessThanWellFounded DEF OpToRel
<1>a. T \subseteq Nat   OBVIOUS
<1> HIDE DEF R, T
<1>1. PICK x \in T : \A y \in T : ~ (<<y, x>> \in R)   BY <1>0, <1>a, WFMin
<1>2. x \in Nat /\ x # 0 /\ x \notin S   BY <1>a DEF T
<1>3. x - 1 \in Nat /\ x = (x - 1) + 1   BY <1>2
<1>4. x - 1 \in T   BY <1>2, <1>3 DEF T
<1>5. <<x - 1, x>> \in R   BY <1>2, <1>3 DEF R
<1> QED BY <1>1, <1>4, <1>5

\* The same up to a number N.
LEMMA UpTo ==
  ASSUME NEW N \in Nat, NEW S, 0 \in S, \A n \in 0 .. N - 1 : n \in S => n + 1 \in S
  PROVE  0 .. N \subseteq S
<1> DEFINE T == {n \in Nat : n > N \/ n \in S}
<1>1. 0 \in T   OBVIOUS
<1>2. \A n \in Nat : n \in T => n + 1 \in T   OBVIOUS
<1>3. Nat \subseteq T
  <2> HIDE DEF T
  <2> QED BY <1>1, <1>2, SetInduction
<1> QED BY <1>3

Steps(N, X) == [(1 .. N) \X X -> X]

Iterates(f, x0, step, N) == f[0] = x0 /\ \A k \in 1 .. N : f[k] = step[<<k, f[k - 1]>>]

\* A function defined by recursion on 0 .. N stays in a set that each of its
\* steps maps into itself.
LEMMA Recursion ==
  ASSUME NEW X, NEW x0 \in X, NEW N \in Nat, NEW step \in Steps(N, X)
  PROVE  \E f \in [0 .. N -> X] : Iterates(f, x0, step, N)
<1> step \in [(1 .. N) \X X -> X]   BY DEF Steps
<1> DEFINE Upto(f, n) == f[0] = x0 /\ \A k \in 1 .. n : f[k] = step[<<k, f[k - 1]>>]
           S == {n \in Nat : \E f \in [0 .. N -> X] : Upto(f, n)}
<1>1. 0 \in S
  <2>1. [k \in 0 .. N |-> x0] \in [0 .. N -> X] /\ Upto([k \in 0 .. N |-> x0], 0)   OBVIOUS
  <2> HIDE DEF Upto
  <2> QED BY <2>1
<1>2. ASSUME NEW n \in 0 .. N - 1, n \in S PROVE n + 1 \in S
  <2>1. PICK f \in [0 .. N -> X] : Upto(f, n)   BY <1>2
  <2>2. n \in 0 .. N /\ n + 1 \in 1 .. N /\ n + 1 \in 0 .. N /\ n + 1 # 0 /\ n + 1 - 1 = n
    OBVIOUS
  <2>3. step[<<n + 1, f[n]>>] \in X   BY <2>2
  <2> DEFINE g == [f EXCEPT ![n + 1] = step[<<n + 1, f[n]>>]]
  <2>4. g \in [0 .. N -> X]   BY <2>2, <2>3
  <2>5. g[n + 1] = step[<<n + 1, g[n + 1 - 1]>>]   BY <2>2
  <2>6. \A k \in 1 .. n : g[k] = f[k] /\ g[k - 1] = f[k - 1]   BY <2>2
  <2>7. \A k \in 1 .. n : f[k] = step[<<k, f[k - 1]>>]   BY <2>1
  <2>8. g[0] = x0   BY <2>1, <2>2
  <2>9. \A k \in 1 .. n + 1 : k \in 1 .. n \/ k = n + 1   OBVIOUS
  <2> HIDE DEF g
  <2>10. \A k \in 1 .. n + 1 : g[k] = step[<<k, g[k - 1]>>]
    <3> TAKE k \in 1 .. n + 1
    <3>1. CASE k \in 1 .. n   BY <2>6, <2>7, <3>1
    <3>2. CASE k = n + 1   BY <2>5, <3>2
    <3> QED BY <2>9, <3>1, <3>2
  <2>11. Upto(g, n + 1)   BY <2>8, <2>10
  <2> HIDE DEF Upto
  <2> QED BY <2>2, <2>4, <2>11
<1>3. 0 .. N \subseteq S
  <2> HIDE DEF S
  <2> QED BY <1>1, <1>2, UpTo
<1>4. N \in S
  <2> HIDE DEF S
  <2> QED BY <1>3
<1> QED BY <1>4 DEF Iterates
-----------------------------------------------------------------------------
(* Paths *)

Path == {f \in Seq(STRING) : LegalPath(f)}

LEMMA PathIs ==
  ASSUME NEW f \in Path
  PROVE  /\ f \in Seq(STRING) /\ Len(f) \in Nat /\ Len(f) >= 1 /\ f # <<>>
         /\ f[1] = "3f00" /\ Last(f) = f[Len(f)] /\ Last(f) \in STRING
         /\ \A i \in 1 .. Len(f) : f[i] \in STRING
         /\ \A i \in 2 .. Len(f) : f[i] # "3f00"
         /\ \A i \in 1 .. Len(f) : f[i] \in Apps => i = 2
         /\ Last(f) \in Apps <=> IsADF(f)
         /\ Len(f) > 1 => Last(f) # "3f00"
         /\ IsADF(f) => Len(f) = 2
<1>0. f \in Seq(STRING) /\ LegalPath(f)   BY DEF Path
<1>1. Len(f) \in Nat /\ DOMAIN f = 1 .. Len(f) /\ f \in [1 .. Len(f) -> STRING]
  BY <1>0, LenProperties
<1>2. Len(f) >= 1   BY <1>0, <1>1, EmptySeq DEF LegalPath
<1>3. Last(f) = f[Len(f)] /\ Last(f) \in STRING   BY <1>1, <1>2 DEF Last
<1>4. "3f00" \notin Apps   BY RuntimeAssumption
<1>5. /\ f # <<>> /\ f[1] = "3f00"
      /\ \A i \in 2 .. Len(f) : f[i] # "3f00" /\ (f[i] \in Apps => i = 2)
  BY <1>0 DEF LegalPath
<1>6. IsADF(f) <=> Len(f) = 2 /\ f[2] \in Apps   BY DEF IsADF
<1>7. ASSUME NEW i \in 1 .. Len(f), f[i] \in Apps PROVE i = 2
  <2>1. i # 1   BY <1>4, <1>5, <1>7
  <2>2. i \in 2 .. Len(f)   BY <1>1, <2>1
  <2> QED BY <1>5, <1>7, <2>2
<1>10. Last(f) \in Apps <=> IsADF(f)
  <2>1. Len(f) \in 1 .. Len(f)   BY <1>1, <1>2
  <2> QED BY <1>3, <1>6, <1>7, <2>1
<1>8. Len(f) > 1 => Last(f) # "3f00"
  <2>1. Len(f) > 1 => Len(f) \in 2 .. Len(f)   BY <1>1
  <2> QED BY <1>3, <1>5, <2>1
<1>9. \A i \in 1 .. Len(f) : f[i] \in STRING   BY <1>1
<1> QED BY <1>0, <1>1, <1>2, <1>3, <1>5, <1>6, <1>7, <1>8, <1>9, <1>10

\* The MF: its path, its FID.
LEMMA MFIs ==
  /\ MF \in Path /\ Len(MF) = 1 /\ Last(MF) = "3f00" /\ ~IsADF(MF) /\ Parent(MF) = MF
  /\ \A f \in Path : Len(f) = 1 => f = MF
  /\ \A f \in Path : Last(f) = "3f00" => f = MF
  /\ \A f \in Path : f # MF => Len(f) > 1 /\ Parent(f) = Front(f)
<1>1. MF \in Seq(STRING) /\ Len(MF) = 1 /\ MF[1] = "3f00" /\ MF # <<>>
  <2>2. MF \in Seq(STRING)   BY RuntimeAssumption DEF FileTree
  <2>3. Len(MF) = 1 /\ MF[1] = "3f00"   BY DEF MF
  <2> QED BY <2>2, <2>3, EmptySeq
<1>2. MF \in Path   BY <1>1 DEF Path, LegalPath
<1>3. ASSUME NEW f \in Path, Len(f) = 1 PROVE f = MF
  <2>1. f \in Seq(STRING) /\ f[1] = "3f00"   BY PathIs
  <2> QED BY <1>1, <1>3, <2>1, SeqEqual
<1>4. ASSUME NEW f \in Path, Last(f) = "3f00" PROVE f = MF
  <2>1. Len(f) \in Nat /\ Len(f) >= 1 /\ ~(Len(f) > 1)   BY <1>4, PathIs
  <2> QED BY <1>3, <2>1
<1>5. ASSUME NEW f \in Path, f # MF PROVE Len(f) > 1 /\ Parent(f) = Front(f)
  <2>1. Len(f) \in Nat /\ Len(f) >= 1   BY PathIs
  <2>2. Len(f) # 1   BY <1>3, <1>5
  <2> DEFINE l == Len(f)
  <2>5. l \in Nat /\ l >= 1 /\ l # 1   BY <2>1, <2>2
  <2> HIDE DEF l
  <2>6. l > 1   BY <2>5
  <2>3. Len(f) > 1   BY <2>6 DEF l
  <2>4. Parent(f) = Front(f)   BY <1>5 DEF Parent
  <2> QED BY <2>3, <2>4
<1>6. Last(MF) = "3f00"   BY <1>1, <1>2, PathIs
<1> QED BY <1>1, <1>2, <1>3, <1>4, <1>5, <1>6 DEF IsADF, Parent

\* A path is cut after k identifiers.
LEMMA PrefixIs ==
  ASSUME NEW f \in Path, NEW k \in 1 .. Len(f)
  PROVE  /\ Prefix(f, k) \in Path /\ Len(Prefix(f, k)) = k
         /\ \A i \in 1 .. k : Prefix(f, k)[i] = f[i]
         /\ Last(Prefix(f, k)) = f[k]
<1>0. /\ f \in Seq(STRING) /\ Len(f) \in Nat /\ k \in Nat /\ k >= 1
      /\ f[1] = "3f00" /\ \A i \in 1 .. Len(f) : f[i] \in STRING
  BY PathIs
<1>1. \A i \in 1 .. k : f[i] \in STRING   BY <1>0
<1>2. /\ Prefix(f, k) \in Seq(STRING) /\ Len(Prefix(f, k)) = k
      /\ \A i \in 1 .. k : Prefix(f, k)[i] = f[i]
  <2>1. 1 \in Int /\ k \in Int /\ k - 1 + 1 = k   BY <1>0
  <2>2. /\ SubSeq(f, 1, k) \in Seq(STRING)
        /\ Len(SubSeq(f, 1, k)) = (IF 1 <= k THEN k - 1 + 1 ELSE 0)
        /\ \A i \in 1 .. k - 1 + 1 : SubSeq(f, 1, k)[i] = f[1 + i - 1]
    BY <1>1, <2>1, SubSeqProperties
  <2>3. \A i \in 1 .. k : 1 + i - 1 = i   OBVIOUS
  <2> QED BY <1>0, <2>1, <2>2, <2>3 DEF Prefix
<1> DEFINE p == Prefix(f, k)
<1> HIDE DEF p
<1>3. p \in Path
  <2>1. p \in Seq(STRING) /\ Len(p) = k /\ \A i \in 1 .. k : p[i] = f[i]   BY <1>2 DEF p
  <2>2. p # <<>>   BY <1>0, <2>1, EmptySeq
  <2>3. p[1] = "3f00"   BY <1>0, <2>1
  <2>4. ASSUME NEW i \in 2 .. Len(p) PROVE p[i] # "3f00" /\ (p[i] \in Apps => i = 2)
    <3>1. i \in 2 .. Len(f) /\ i \in 1 .. Len(f) /\ i \in 1 .. k   BY <1>0, <2>1
    <3> QED BY <2>1, <3>1, PathIs
  <2> QED BY <2>1, <2>2, <2>3, <2>4 DEF Path, LegalPath
<1>4. Last(p) = p[k] /\ k \in 1 .. k   BY <1>0, <1>2, <1>3, PathIs DEF p
<1> QED BY <1>2, <1>3, <1>4 DEF p

LEMMA PrefixOfPrefix ==
  ASSUME NEW f \in Path, NEW k \in 1 .. Len(f), NEW j \in 1 .. k
  PROVE  Prefix(Prefix(f, k), j) = Prefix(f, j)
<1>0. Len(f) \in Nat /\ j \in 1 .. Len(f)   BY PathIs
<1>1. PICK p \in Path : p = Prefix(f, k)   BY PrefixIs
<1>2. Len(p) = k /\ \A i \in 1 .. k : p[i] = f[i]   BY <1>1, PrefixIs
<1>3. PICK q \in Path : q = Prefix(f, j)   BY <1>0, PrefixIs
<1>4. Len(q) = j /\ \A i \in 1 .. j : q[i] = f[i]   BY <1>0, <1>3, PrefixIs
<1>5. j \in 1 .. Len(p)   BY <1>2
<1>6. PICK r \in Path : r = Prefix(p, j)   BY <1>5, PrefixIs
<1>7. Len(r) = j /\ \A i \in 1 .. j : r[i] = p[i]   BY <1>5, <1>6, PrefixIs
<1>8. \A i \in 1 .. Len(r) : r[i] = q[i]
  <2>1. \A i \in 1 .. j : i \in 1 .. k   BY <1>0
  <2> QED BY <1>2, <1>4, <1>7, <2>1
<1>9. r \in Seq(STRING) /\ q \in Seq(STRING)   BY PathIs
<1>10. r = q   BY <1>4, <1>7, <1>8, <1>9, SeqEqual
<1> QED BY <1>1, <1>3, <1>6, <1>10

LEMMA WholePrefix ==
  ASSUME NEW f \in Path
  PROVE  Prefix(f, Len(f)) = f
<1>1. f \in Seq(STRING)   BY PathIs
<1> QED BY <1>1, SubSeqFull DEF Prefix

\* The path of the DF in which a file lies.
LEMMA FrontIs ==
  ASSUME NEW f \in Path, Len(f) > 1
  PROVE  /\ Front(f) = Prefix(f, Len(f) - 1) /\ Front(f) \in Path /\ Len(Front(f)) = Len(f) - 1
         /\ \A i \in 1 .. Len(f) - 1 : Front(f)[i] = f[i] /\ Prefix(Front(f), i) = Prefix(f, i)
         /\ Parent(f) = Front(f) /\ f # MF
<1>0. Len(f) \in Nat /\ Len(f) - 1 \in 1 .. Len(f)   BY PathIs
<1>1. Front(f) = Prefix(f, Len(f) - 1)   BY DEF Front, Prefix
<1>2. f # MF
  <2>1. Len(MF) = 1   BY MFIs
  <2>2. ~(1 > 1)   OBVIOUS
  <2> QED BY <2>1, <2>2, Zenon
<1> QED BY <1>0, <1>1, <1>2, PrefixIs, PrefixOfPrefix DEF Parent

\* Files of one DF differ in the FID.
LEMMA SameFile ==
  ASSUME NEW f \in Path, NEW g \in Path, Len(f) > 1, Len(g) > 1,
         Front(f) = Front(g), Last(f) = Last(g)
  PROVE  f = g
<1>1. f \in Seq(STRING) /\ g \in Seq(STRING) /\ Len(f) \in Nat /\ Len(g) \in Nat   BY PathIs
<1>2. Len(Front(f)) = Len(f) - 1 /\ Len(Front(g)) = Len(g) - 1   BY FrontIs
<1>3. Len(f) = Len(g)   BY <1>1, <1>2
<1>4. f[Len(f)] = g[Len(f)]   BY <1>3, PathIs
<1>5. \A i \in 1 .. Len(f) - 1 : f[i] = g[i]
  <2>1. \A i \in 1 .. Len(f) - 1 : Front(f)[i] = f[i]   BY FrontIs
  <2>2. \A i \in 1 .. Len(g) - 1 : Front(g)[i] = g[i]   BY FrontIs
  <2> QED BY <1>3, <2>1, <2>2
<1>6. \A i \in 1 .. Len(f) : i \in 1 .. Len(f) - 1 \/ i = Len(f)   BY <1>1
<1> QED BY <1>1, <1>3, <1>4, <1>5, <1>6, SeqEqual

LEMMA ADFIs ==
  ASSUME NEW f \in Path, IsADF(f)
  PROVE  /\ Len(f) = 2 /\ Front(f) = MF /\ Last(f) = f[2] /\ f # MF /\ Parent(f) = MF
         /\ \A g \in Path : Last(g) = Last(f) => g = f
<1>1. Len(f) = 2 /\ Last(f) = f[2] /\ Last(f) \in Apps   BY PathIs
<1>2. Front(f) \in Path /\ Len(Front(f)) = 1 /\ Parent(f) = Front(f) /\ f # MF
  <2>1. Len(f) > 1 /\ Len(f) - 1 = 1   BY <1>1
  <2> QED BY <2>1, FrontIs
<1>3. Front(f) = MF   BY <1>2, MFIs
<1>4. ASSUME NEW g \in Path, Last(g) = Last(f) PROVE g = f
  <2>1. IsADF(g)   BY <1>1, <1>4, PathIs
  <2>2. Len(g) = 2   BY <2>1, PathIs
  <2>5. Len(g) > 1 /\ Len(g) - 1 = 1   BY <2>2
  <2>3. Front(g) \in Path /\ Len(Front(g)) = 1   BY <2>5, FrontIs
  <2>4. Front(g) = MF   BY <2>3, MFIs
  <2>6. Len(f) > 1   BY <1>1
  <2> QED BY <1>3, <1>4, <2>4, <2>5, <2>6, SameFile
<1> QED BY <1>1, <1>2, <1>3, <1>4

\* A file in a DF.
LEMMA AppendIs ==
  ASSUME NEW f \in Path, NEW id \in STRING, id # "3f00", id \notin Apps
  PROVE  /\ Append(f, id) \in Path /\ Len(Append(f, id)) = Len(f) + 1
         /\ Front(Append(f, id)) = f /\ Last(Append(f, id)) = id
         /\ Append(f, id) # MF /\ ~IsADF(Append(f, id)) /\ Parent(Append(f, id)) = f
<1>0. f \in Seq(STRING) /\ Len(f) \in Nat /\ Len(f) >= 1 /\ f[1] = "3f00"   BY PathIs
<1>1. PICK g \in Seq(STRING) : g = Append(f, id)
  <2>1. Append(f, id) \in Seq(STRING)   BY <1>0
  <2> QED BY <2>1
<1>2. Len(g) = Len(f) + 1 /\ g[Len(f) + 1] = id /\ \A i \in 1 .. Len(f) : g[i] = f[i]
  BY <1>0, <1>1
<1>3. g \in Path
  <2>1. g # <<>>   BY <1>0, <1>2, EmptySeq
  <2>2. g[1] = "3f00"   BY <1>0, <1>2
  <2>3. ASSUME NEW i \in 2 .. Len(g) PROVE g[i] # "3f00" /\ (g[i] \in Apps => i = 2)
    <3>1. CASE i = Len(f) + 1   BY <1>2, <3>1
    <3>2. CASE i # Len(f) + 1
      <4>1. i \in 2 .. Len(f) /\ i \in 1 .. Len(f)   BY <1>0, <1>2, <3>2
      <4> QED BY <1>2, <4>1, PathIs
    <3> QED BY <3>1, <3>2
  <2> QED BY <2>1, <2>2, <2>3 DEF Path, LegalPath
<1>4. Last(g) = id   BY <1>2, <1>3, PathIs
<1>5. Len(g) > 1   BY <1>0, <1>2
<1>6. Front(g) = f
  <2>1. /\ Front(g) \in Path /\ Len(Front(g)) = Len(g) - 1 /\ Parent(g) = Front(g) /\ g # MF
        /\ \A i \in 1 .. Len(g) - 1 : Front(g)[i] = g[i]
    BY <1>3, <1>5, FrontIs
  <2>2. Front(g) \in Seq(STRING)   BY <2>1, PathIs
  <2>3. Len(Front(g)) = Len(f) /\ Len(g) - 1 = Len(f)   BY <1>0, <1>2, <2>1
  <2>4. \A i \in 1 .. Len(f) : Front(g)[i] = f[i]   BY <1>2, <2>1, <2>3
  <2> QED BY <1>0, <2>2, <2>3, <2>4, SeqEqual
<1>7. g # MF /\ Parent(g) = f   BY <1>3, <1>5, <1>6, FrontIs
<1>8. ~IsADF(g)   BY <1>3, <1>4, PathIs
<1> QED BY <1>1, <1>2, <1>3, <1>4, <1>6, <1>7, <1>8

-----------------------------------------------------------------------------
(* The card *)

\* A set of paths that has the MF and, with each DF, the files in it has all.
LEMMA PathInduction ==
  ASSUME NEW S, MF \in S, \A f \in Path : Len(f) > 1 /\ Front(f) \in S => f \in S
  PROVE  Path \subseteq S
<1> DEFINE N == {n \in Nat : \A f \in Path : Len(f) = n + 1 => f \in S}
<1>1. 0 \in N
  <2>1. ASSUME NEW f \in Path, Len(f) = 0 + 1 PROVE f \in S
    <3>1. Len(f) = 1   BY <2>1
    <3> QED BY <3>1, MFIs
  <2> QED BY <2>1
<1>2. ASSUME NEW n \in Nat, n \in N PROVE n + 1 \in N
  <2>1. ASSUME NEW f \in Path, Len(f) = n + 1 + 1 PROVE f \in S
    <3>1. Len(f) > 1 /\ Len(f) - 1 = n + 1   BY <2>1
    <3>2. Front(f) \in Path /\ Len(Front(f)) = n + 1   BY <3>1, FrontIs
    <3>3. Front(f) \in S   BY <1>2, <3>2
    <3> QED BY <3>1, <3>3
  <2> QED BY <2>1
<1>3. Nat \subseteq N
  <2> HIDE DEF N
  <2> QED BY <1>1, <1>2, SetInduction
<1>4. ASSUME NEW f \in Path PROVE f \in S
  <2>1. Len(f) \in Nat /\ Len(f) >= 1   BY PathIs
  <2>2. Len(f) - 1 \in Nat /\ Len(f) = Len(f) - 1 + 1   BY <2>1
  <2>3. Len(f) - 1 \in N   BY <1>3, <2>2
  <2> QED BY <2>2, <2>3
<1> QED BY <1>4

LEMMA TreeIs ==
  ASSUME NEW T, FileTree(T)
  PROVE  /\ DOMAIN T \subseteq Path /\ MF \in DOMAIN T /\ T[MF] = "df"
         /\ \A f \in DOMAIN T : T[f] \in {"df", "ef"} /\ (IsADF(f) => T[f] = "df")
         /\ \A f \in DOMAIN T : Len(f) > 1 => Front(f) \in DOMAIN T /\ T[Front(f)] = "df"
         /\ \A f \in DOMAIN T : Parent(f) \in DOMAIN T /\ T[Parent(f)] = "df"
         /\ \A f \in DOMAIN T : \A k \in 1 .. Len(f) : Prefix(f, k) \in DOMAIN T
<1>1. /\ DOMAIN T \subseteq Path /\ MF \in DOMAIN T /\ T[MF] = "df"
      /\ \A f \in DOMAIN T : T[f] \in {"df", "ef"} /\ (IsADF(f) => T[f] = "df")
  BY DEF FileTree, Path
<1>2. ASSUME NEW f \in DOMAIN T, Len(f) > 1 PROVE Front(f) \in DOMAIN T /\ T[Front(f)] = "df"
  <2>1. f \in Path /\ Len(f) \in Nat   BY <1>1, PathIs
  <2>2. Front(f) = Prefix(f, Len(f) - 1)   BY <1>2, <2>1, FrontIs
  <2>3. Len(f) - 1 \in 1 .. Len(f) - 1   BY <1>2, <2>1
  <2> QED BY <2>2, <2>3 DEF FileTree
<1>3. ASSUME NEW f \in DOMAIN T PROVE Parent(f) \in DOMAIN T /\ T[Parent(f)] = "df"
  <2>1. CASE f = MF   BY <1>1, <2>1, MFIs
  <2>2. CASE f # MF
    <3>1. Len(f) > 1 /\ Parent(f) = Front(f)   BY <1>1, <2>2, MFIs
    <3> QED BY <1>2, <3>1
  <2> QED BY <2>1, <2>2
<1>4. ASSUME NEW f \in DOMAIN T, NEW k \in 1 .. Len(f) PROVE Prefix(f, k) \in DOMAIN T
  <2>0. f \in Path /\ Len(f) \in Nat   BY <1>1, PathIs
  <2>1. CASE k = Len(f)   BY <2>0, <2>1, WholePrefix
  <2>2. CASE k # Len(f)
    <3>1. k \in 1 .. Len(f) - 1   BY <2>0, <2>2
    <3> QED BY <3>1 DEF FileTree
  <2> QED BY <2>1, <2>2
<1> QED BY <1>1, <1>2, <1>3, <1>4

\* The DF of a file.
LEMMA CardDfIs ==
  ASSUME NEW T, FileTree(T), NEW g \in DOMAIN T
  PROVE  /\ CardDf(T, g) \in DOMAIN T /\ T[CardDf(T, g)] = "df"
         /\ T[g] = "df" => CardDf(T, g) = g
         /\ T[g] = "ef" => g # MF /\ Len(g) > 1 /\ CardDf(T, g) = Front(g) /\ Parent(g) = Front(g)
<1>1. g \in Path /\ T[MF] = "df" /\ T[g] \in {"df", "ef"}   BY TreeIs
<1>2. CASE T[g] = "df"   BY <1>2 DEF CardDf
<1>3. CASE T[g] = "ef"
  <2>1. g # MF   BY <1>1, <1>3
  <2>2. Len(g) > 1 /\ Parent(g) = Front(g)   BY <1>1, <2>1, MFIs
  <2>3. CardDf(T, g) = Front(g)   BY <1>3, <2>2 DEF CardDf
  <2>4. Front(g) \in DOMAIN T /\ T[Front(g)] = "df"   BY <2>2, TreeIs
  <2> QED BY <1>3, <2>1, <2>2, <2>3, <2>4
<1> QED BY <1>1, <1>2, <1>3

\* An application without file system selects nothing by FID.
Mute(T, g) == IsADF(CardDf(T, g)) /\ CardDf(T, g)[2] \in AppsWithoutFs

LEMMA ReachIs ==
  ASSUME NEW T, NEW g, NEW f
  PROVE  f \in InReach(T, g) <=>
           /\ f \in DOMAIN T /\ ~Mute(T, g) /\ ~IsADF(f)
           /\ \/ f \in {MF, CardDf(T, g)}
              \/ f # MF /\ Parent(f) = CardDf(T, g)
              \/ /\ ~IsADF(CardDf(T, g))
                 /\ \/ f = Parent(CardDf(T, g))
                    \/ f # MF /\ Parent(f) = Parent(CardDf(T, g)) /\ T[f] = "df"
BY DEF InReach, Mute

\* An EF lies in the DF from which it was selected.
LEMMA ReachedEF ==
  ASSUME NEW T, FileTree(T), NEW g \in DOMAIN T, NEW h \in InReach(T, g), T[h] = "ef"
  PROVE  h # MF /\ Front(h) = CardDf(T, g) /\ Parent(h) = CardDf(T, g) /\ CardDf(T, h) = CardDf(T, g)
<1> DEFINE d == CardDf(T, g)
<1>1. d \in DOMAIN T /\ T[d] = "df" /\ T[MF] = "df" /\ h \in DOMAIN T
  BY CardDfIs, TreeIs, ReachIs
<1>2. T[Parent(d)] = "df"   BY <1>1, TreeIs
<1>3. /\ \/ h \in {MF, d}
         \/ h # MF /\ Parent(h) = d
         \/ h = Parent(d)
         \/ T[h] = "df"
  BY ReachIs
<1>4. h # MF /\ Parent(h) = d   BY <1>1, <1>2, <1>3
<1>5. Parent(h) = Front(h) /\ CardDf(T, h) = Front(h)   BY <1>1, CardDfIs
<1> QED BY <1>4, <1>5

\* What was selected by FID can select by FID, the MF at least, and the DF that it
\* was selected from.
LEMMA WayBack ==
  ASSUME NEW T, FileTree(T), NEW g \in DOMAIN T, NEW h \in InReach(T, g)
  PROVE  /\ ~Mute(T, h) /\ MF \in InReach(T, h)
         /\ h # MF /\ ~IsADF(CardDf(T, g)) => CardDf(T, g) \in InReach(T, h)
<1> DEFINE d == CardDf(T, g)
           e == CardDf(T, h)
<1>1. /\ d \in DOMAIN T /\ T[d] = "df" /\ T[MF] = "df" /\ h \in DOMAIN T /\ MF \in DOMAIN T
      /\ T[h] \in {"df", "ef"} /\ ~IsADF(h) /\ ~Mute(T, g) /\ ~IsADF(MF)
  BY CardDfIs, TreeIs, ReachIs, MFIs
<1>2. ~Mute(T, h)
  <2>1. CASE T[h] = "df"
    <3>1. e = h   BY <1>1, <2>1, CardDfIs
    <3> QED BY <1>1, <3>1 DEF Mute
  <2>2. CASE T[h] = "ef"
    <3>1. e = d   BY <2>2, ReachedEF
    <3> QED BY <1>1, <3>1 DEF Mute
  <2> QED BY <1>1, <2>1, <2>2
<1>3. MF \in InReach(T, h)   BY <1>1, <1>2, ReachIs
<1>4. ASSUME h # MF, ~IsADF(d) PROVE d \in InReach(T, h)
  <2>1. CASE d = MF   BY <1>3, <2>1
  <2>2. CASE T[h] = "ef"
    <3>1. e = d   BY <2>2, ReachedEF
    <3> QED BY <1>1, <1>2, <1>4, <3>1, ReachIs
  <2>3. CASE T[h] = "df" /\ d # MF
    <3>1. e = h   BY <1>1, <2>3, CardDfIs
    <3>2. \/ h = d \/ Parent(h) = d \/ h = Parent(d) \/ Parent(h) = Parent(d)
      BY <1>4, ReachIs
    <3>3. \/ d = e \/ d = Parent(e) \/ Parent(d) = e \/ Parent(d) = Parent(e)
      BY <3>1, <3>2
    <3>4. ~IsADF(e)   BY <1>1, <3>1
    <3> HIDE DEF d, e
    <3>5. d \in InReach(T, h) <=>
            /\ d \in DOMAIN T /\ ~Mute(T, h) /\ ~IsADF(d)
            /\ \/ d \in {MF, e}
               \/ d # MF /\ Parent(d) = e
               \/ ~IsADF(e) /\ (d = Parent(e) \/ (d # MF /\ Parent(d) = Parent(e) /\ T[d] = "df"))
      BY ReachIs DEF e
    <3> QED BY <1>1, <1>2, <1>4, <2>3, <3>3, <3>4, <3>5
  <2> QED BY <1>1, <2>1, <2>2, <2>3
<1> QED BY <1>2, <1>3, <1>4

CardOk(T) == FileTree(T) /\ FidsApart(T) /\ SameKinds(T, T)

LEMMA FoundIs ==
  ASSUME NEW T, CardOk(T), NEW g \in DOMAIN T, NEW f \in Path
  PROVE  /\ Found(T, g, f) \subseteq DOMAIN T
         /\ \A h \in Found(T, g, f) : Last(h) = Last(f)
         /\ \A h, k \in Found(T, g, f) : h = k
         /\ IsADF(f) => Found(T, g, f) = {f} \cap DOMAIN T
         /\ ~IsADF(f) => Found(T, g, f) = {h \in InReach(T, g) : Last(h) = Last(f)}
         /\ Found(T, g, MF) \subseteq {MF}
         /\ f # MF => MF \notin Found(T, g, f)
<1>1. FileTree(T) /\ FidsApart(T)   BY DEF CardOk
<1>2. /\ IsADF(f) => Found(T, g, f) = {f} \cap DOMAIN T
      /\ ~IsADF(f) => Found(T, g, f) = {h \in InReach(T, g) : Last(h) = Last(f)}
  BY DEF Found, FoundByFid
<1>3. InReach(T, g) \subseteq DOMAIN T   BY DEF InReach
<1>4. Found(T, g, f) \subseteq DOMAIN T /\ \A h \in Found(T, g, f) : Last(h) = Last(f)
  BY <1>2, <1>3
<1>5. \A h, k \in Found(T, g, f) : h = k
  <2>1. CASE IsADF(f)   BY <1>2, <2>1
  <2>2. CASE ~IsADF(f)
    <3>1. \A h, k \in InReach(T, g) : Last(h) = Last(k) => h = k   BY <1>1 DEF FidsApart
    <3> QED BY <1>2, <2>2, <3>1
  <2> QED BY <2>1, <2>2
<1>6. Found(T, g, MF) \subseteq {MF}
  <2>1. Found(T, g, MF) = {h \in InReach(T, g) : Last(h) = "3f00"}
    BY MFIs DEF Found, FoundByFid
  <2>2. DOMAIN T \subseteq Path   BY <1>1, TreeIs
  <2> QED BY <1>3, <2>1, <2>2, MFIs
<1>7. f # MF => MF \notin Found(T, g, f)
  <2>1. Last(MF) = "3f00"   BY MFIs
  <2>2. Last(f) = "3f00" => f = MF   BY MFIs
  <2> QED BY <1>4, <2>1, <2>2
<1> QED BY <1>2, <1>4, <1>5, <1>6, <1>7

-----------------------------------------------------------------------------
(* Where paths lead to *)

WalkStep(T, no, s, f) == (UNION {Found(T, h, f) : h \in s}) \ no

\* The files that the card has selected along a path, one SELECT after the other.
LEMMA CardWalkIs ==
  ASSUME NEW T, NEW no, NEW g, NEW path, CardOk(T), g \in DOMAIN T, path \in Seq(Path)
  PROVE  /\ CardWalk(T, no, g, path) \in [0 .. Len(path) -> SUBSET DOMAIN T]
         /\ CardWalk(T, no, g, path)[0] = {g}
         /\ \A k \in 1 .. Len(path) :
              CardWalk(T, no, g, path)[k] = WalkStep(T, no, CardWalk(T, no, g, path)[k - 1], path[k])
<1> DEFINE N == Len(path)
           X == SUBSET DOMAIN T
           IsGo(w) == w = [i \in 0 .. N |->
                             IF i = 0 THEN {g} ELSE WalkStep(T, no, w[i - 1], path[i])]
           step == [ks \in (1 .. N) \X X |-> WalkStep(T, no, ks[2], path[ks[1]])]
           go == CHOOSE w : IsGo(w)
<1>0. N \in Nat /\ \A k \in 1 .. N : path[k] \in Path   BY LenProperties
<1>s. \A k \in 1 .. N, s \in X : WalkStep(T, no, s, path[k]) \in X
  <2>1. \A k \in 1 .. N : \A h \in DOMAIN T : Found(T, h, path[k]) \subseteq DOMAIN T
    BY <1>0, FoundIs
  <2> QED BY <2>1 DEF WalkStep
<1>1. step \in Steps(N, X)
  <2> HIDE DEF N, X
  <2> QED BY <1>s DEF Steps
<1>2. PICK f \in [0 .. N -> X] : Iterates(f, {g}, step, N)
  <2>1. {g} \in X   OBVIOUS
  <2> HIDE DEF step, N, X
  <2> QED BY <1>0, <1>1, <2>1, Recursion
<1> HIDE DEF N, X
<1>3. IsGo(f)
  <2>1. f[0] = {g}   BY <1>2 DEF Iterates
  <2>2. ASSUME NEW k \in 1 .. N PROVE f[k] = WalkStep(T, no, f[k - 1], path[k])
    <3>1. f[k] = step[<<k, f[k - 1]>>]
      <4> HIDE DEF step
      <4> QED BY <1>2 DEF Iterates
    <3>2. k - 1 \in 0 .. N   BY <1>0
    <3>3. <<k, f[k - 1]>> \in (1 .. N) \X X   BY <1>2, <3>2
    <3> QED BY <3>1, <3>3
  <2> HIDE DEF step
  <2>3. \A k \in 0 .. N : f[k] = IF k = 0 THEN {g} ELSE WalkStep(T, no, f[k - 1], path[k])
    BY <1>0, <2>1, <2>2
  <2>4. f = [k \in 0 .. N |-> f[k]]   OBVIOUS
  <2> QED BY <2>3, <2>4
<1>4. IsGo(go)
  <2> HIDE DEF IsGo
  <2> QED BY <1>3
<1>5. CardWalk(T, no, g, path) = go   BY DEF CardWalk, WalkStep, N
<1> HIDE DEF go
<1>6. /\ go[0] = {g}
      /\ \A k \in 1 .. N : go[k] = WalkStep(T, no, go[k - 1], path[k])
  <2>1. go[0] = {g}   BY <1>0, <1>4
  <2>2. \A k \in 1 .. N : k \in 0 .. N /\ k # 0   BY <1>0
  <2> QED BY <1>4, <2>1, <2>2
<1> DEFINE P == {n \in 0 .. N : go[n] \in X}
<1>7. 0 .. N \subseteq P
  <2>1. 0 \in P   BY <1>0, <1>6 DEF X
  <2>2. ASSUME NEW n \in 0 .. N - 1, n \in P PROVE n + 1 \in P
    <3>1. n + 1 \in 1 .. N /\ n + 1 - 1 = n /\ n + 1 \in 0 .. N   BY <1>0
    <3>2. go[n + 1] = WalkStep(T, no, go[n], path[n + 1]) /\ go[n] \in X   BY <1>6, <2>2, <3>1
    <3>3. go[n + 1] \in X   BY <1>s, <3>1, <3>2
    <3> QED BY <3>1, <3>3
  <2> HIDE DEF P
  <2> QED BY <1>0, <2>1, <2>2, UpTo
<1>8. go \in [0 .. N -> X]
  <2>1. go = [k \in 0 .. N |-> go[k]]   BY <1>4
  <2> QED BY <1>7, <2>1
<1> QED BY <1>5, <1>6, <1>8 DEF N, X

LEMMA WalkIs ==
  ASSUME NEW T, NEW no, NEW g, NEW path, NEW w, CardOk(T), g \in DOMAIN T,
         path \in Seq(Path), w = CardWalk(T, no, g, path)
  PROVE  /\ w \in [0 .. Len(path) -> SUBSET DOMAIN T]
         /\ w[0] = {g}
         /\ \A k \in 1 .. Len(path) : w[k] = WalkStep(T, no, w[k - 1], path[k])
BY CardWalkIs

Way(f) == [i \in 1 .. Len(f) |-> Prefix(f, i)]
LeadsTo(T, f) == CardWalk(T, {}, MF, Way(f))[Len(f)]

LEMMA WayIs ==
  ASSUME NEW f \in Path
  PROVE  Way(f) \in Seq(Path) /\ Len(Way(f)) = Len(f) /\ \A i \in 1 .. Len(f) : Way(f)[i] = Prefix(f, i)
<1>1. Len(f) \in Nat   BY PathIs
<1>2. \A i \in 1 .. Len(f) : Prefix(f, i) \in Path   BY PrefixIs
<1> DEFINE l == Len(f)
<1>3. l \in Nat /\ \A i \in 1 .. l : Prefix(f, i) \in Path   BY <1>1, <1>2
<1> HIDE DEF l
<1>4. [i \in 1 .. l |-> Prefix(f, i)] \in [1 .. l -> Path]   BY <1>3
<1>5. [i \in 1 .. l |-> Prefix(f, i)] \in Seq(Path) /\ Len([i \in 1 .. l |-> Prefix(f, i)]) = l
  BY <1>3, <1>4
<1> QED BY <1>5 DEF Way, l

\* A path leads to what SELECT finds from where the path of its DF leads to.
LEMMA LeadsOn ==
  ASSUME NEW T, CardOk(T), NEW f \in Path
  PROVE  /\ LeadsTo(T, f) \subseteq DOMAIN T
         /\ LeadsTo(T, MF) = {MF}
         /\ Len(f) > 1 => LeadsTo(T, f) = UNION {Found(T, h, f) : h \in LeadsTo(T, Front(f))}
<1>1. FileTree(T) /\ MF \in DOMAIN T   BY TreeIs DEF CardOk
<1>2. LeadsTo(T, f) \subseteq DOMAIN T
  <2>1. Len(f) \in 0 .. Len(f)   BY PathIs
  <2> DEFINE w == CardWalk(T, {}, MF, Way(f))
  <2>2. w \in [0 .. Len(f) -> SUBSET DOMAIN T]   BY <1>1, WayIs, CardWalkIs
  <2> HIDE DEF w
  <2>3. w[Len(f)] \subseteq DOMAIN T   BY <2>1, <2>2
  <2> QED BY <2>3 DEF LeadsTo, w
<1>3. LeadsTo(T, MF) = {MF}
  <2>0. MF \in Path /\ Len(MF) = 1   BY MFIs
  <2>1. Way(MF) \in Seq(Path) /\ Len(Way(MF)) = 1 /\ Way(MF)[1] = MF
    <3>1. 1 \in 1 .. Len(MF)   BY <2>0
    <3>2. Way(MF)[1] = Prefix(MF, 1)   BY <2>0, <3>1, WayIs
    <3>3. Prefix(MF, 1) = MF   BY <2>0, WholePrefix
    <3> QED BY <2>0, <3>2, <3>3, WayIs
  <2> DEFINE w == CardWalk(T, {}, MF, Way(MF))
  <2>2. /\ w[0] = {MF}
        /\ \A k \in 1 .. Len(Way(MF)) : w[k] = WalkStep(T, {}, w[k - 1], Way(MF)[k])
    <3>1. PICK p \in Seq(Path) : p = Way(MF)   BY <2>1
    <3>2. LET x == CardWalk(T, {}, MF, p) IN
          x[0] = {MF} /\ \A k \in 1 .. Len(p) : x[k] = WalkStep(T, {}, x[k - 1], p[k])
      BY <1>1, CardWalkIs
    <3> QED BY <3>1, <3>2
  <2> HIDE DEF w
  <2>3. w[1] = WalkStep(T, {}, {MF}, MF)
    <3>1. 1 \in 1 .. 1 /\ 1 - 1 = 0   OBVIOUS
    <3> QED BY <2>1, <2>2, <3>1
  <2>4. w[1] = Found(T, MF, MF)   BY <2>3 DEF WalkStep
  <2>5. ~Mute(T, MF) /\ MF \in InReach(T, MF)
    <3>1. T[MF] = "df" /\ CardDf(T, MF) = MF   BY <1>1, TreeIs, CardDfIs
    <3>2. ~Mute(T, MF)   BY <3>1, MFIs DEF Mute
    <3> QED BY <1>1, <3>1, <3>2, MFIs, ReachIs
  <2>6. MF \in Found(T, MF, MF)   BY <1>1, <2>0, <2>5, FoundIs, MFIs
  <2>7. Found(T, MF, MF) \subseteq {MF}   BY <1>1, <2>0, FoundIs
  <2> QED BY <2>0, <2>4, <2>6, <2>7 DEF LeadsTo, w
<1>4. ASSUME Len(f) > 1 PROVE LeadsTo(T, f) = UNION {Found(T, h, f) : h \in LeadsTo(T, Front(f))}
  <2>1. PICK b \in Path : b = Front(f)   BY <1>4, FrontIs
  <2>2. Len(f) \in Nat /\ Len(b) = Len(f) - 1 /\ \A i \in 1 .. Len(b) : Prefix(b, i) = Prefix(f, i)
    BY <1>4, <2>1, PathIs, FrontIs
  <2>3. /\ Way(f) \in Seq(Path) /\ Len(Way(f)) = Len(f)
        /\ \A i \in 1 .. Len(f) : Way(f)[i] = Prefix(f, i)
        /\ Way(b) \in Seq(Path) /\ Len(Way(b)) = Len(b)
        /\ \A i \in 1 .. Len(b) : Way(b)[i] = Prefix(b, i)
    BY WayIs
  <2> DEFINE v == CardWalk(T, {}, MF, Way(b))
             w == CardWalk(T, {}, MF, Way(f))
  <2>4. /\ v[0] = {MF}
        /\ \A k \in 1 .. Len(b) : v[k] = WalkStep(T, {}, v[k - 1], Way(b)[k])
    BY <1>1, <2>3, CardWalkIs
  <2>5. /\ w[0] = {MF}
        /\ \A k \in 1 .. Len(f) : w[k] = WalkStep(T, {}, w[k - 1], Way(f)[k])
    BY <1>1, <2>3, CardWalkIs
  <2> HIDE DEF v, w
  <2> DEFINE S == {k \in 0 .. Len(b) : v[k] = w[k]}
  <2>6. 0 .. Len(b) \subseteq S
    <3>0. 0 \in 0 .. Len(b)   BY PathIs
    <3>1. 0 \in S   BY <2>4, <2>5, <3>0
    <3>2. ASSUME NEW n \in 0 .. Len(b) - 1, n \in S PROVE n + 1 \in S
      <4>1. n + 1 \in 1 .. Len(b) /\ n + 1 \in 1 .. Len(f) /\ n + 1 - 1 = n /\ n + 1 \in 0 .. Len(b)
        BY <2>2
      <4>2. v[n + 1] = WalkStep(T, {}, v[n], Way(b)[n + 1])   BY <2>4, <4>1
      <4>3. w[n + 1] = WalkStep(T, {}, w[n], Way(f)[n + 1])   BY <2>5, <4>1
      <4>4. v[n] = w[n] /\ Way(b)[n + 1] = Way(f)[n + 1]   BY <2>2, <2>3, <3>2, <4>1
      <4>5. v[n + 1] = w[n + 1]   BY <4>2, <4>3, <4>4
      <4> QED BY <4>1, <4>5
    <3>3. Len(b) \in Nat   BY PathIs
    <3> HIDE DEF S
    <3> QED BY <3>1, <3>2, <3>3, UpTo
  <2>7. v[Len(b)] = w[Len(b)]
    <3>1. Len(b) \in 0 .. Len(b)   BY PathIs
    <3> QED BY <2>6, <3>1
  <2>8. w[Len(f)] = WalkStep(T, {}, w[Len(b)], f)
    <3>1. Len(f) \in 1 .. Len(f) /\ Len(f) - 1 = Len(b)   BY <1>4, <2>2
    <3>2. w[Len(f)] = WalkStep(T, {}, w[Len(b)], Way(f)[Len(f)])   BY <2>5, <3>1
    <3>3. Way(f)[Len(f)] = f   BY <2>3, <3>1, WholePrefix
    <3> QED BY <3>2, <3>3
  <2>9. LeadsTo(T, f) = w[Len(f)] /\ LeadsTo(T, b) = v[Len(b)]   BY DEF LeadsTo, v, w
  <2> QED BY <2>1, <2>7, <2>8, <2>9 DEF WalkStep
<1> QED BY <1>2, <1>3, <1>4

\* A path leads to one file at most.
LEMMA LeadsToOne ==
  ASSUME NEW T, CardOk(T), NEW f \in Path
  PROVE  \A h, k \in LeadsTo(T, f) : h = k
<1> DEFINE S == {p \in Path : \A h, k \in LeadsTo(T, p) : h = k}
<1>1. MF \in S
  <2>1. MF \in Path   BY MFIs
  <2>2. LeadsTo(T, MF) = {MF}   BY <2>1, LeadsOn
  <2> QED BY <2>1, <2>2
<1>2. ASSUME NEW p \in Path, Len(p) > 1, Front(p) \in S PROVE p \in S
  <2>1. Front(p) \in Path /\ LeadsTo(T, Front(p)) \subseteq DOMAIN T   BY <1>2, LeadsOn
  <2>2. LeadsTo(T, p) = UNION {Found(T, h, p) : h \in LeadsTo(T, Front(p))}   BY <1>2, LeadsOn
  <2>3. ASSUME NEW h \in LeadsTo(T, p), NEW k \in LeadsTo(T, p) PROVE h = k
    <3>1. PICK x \in LeadsTo(T, Front(p)) : h \in Found(T, x, p)   BY <2>2
    <3>2. PICK y \in LeadsTo(T, Front(p)) : k \in Found(T, y, p)   BY <2>2
    <3>3. x = y   BY <1>2
    <3>4. x \in DOMAIN T   BY <2>1
    <3>5. \A u, v \in Found(T, x, p) : u = v   BY <3>4, FoundIs
    <3> QED BY <3>1, <3>2, <3>3, <3>5
  <2> QED BY <2>3
<1> HIDE DEF S
<1>3. Path \subseteq S   BY <1>1, <1>2, PathInduction
<1> QED BY <1>3 DEF S

-----------------------------------------------------------------------------
(* What pySim knows and what the card has *)

Knows(R, T) == CardOk(T) /\ FileTree(R) /\ SameKinds(R, T)

\* A file and its path have the FID and the kind in common.
LEMMA LeadsAlike ==
  ASSUME NEW R, NEW T, Knows(R, T), NEW f \in DOMAIN R, NEW h \in LeadsTo(T, f)
  PROVE  /\ f \in Path /\ h \in DOMAIN T /\ h \in Path /\ Last(h) = Last(f) /\ T[h] = R[f]
         /\ IsADF(f) => h = f
         /\ h = MF <=> f = MF
         /\ IsADF(h) <=> IsADF(f)
         /\ Len(f) > 1 => \E g \in LeadsTo(T, Front(f)) : h \in Found(T, g, f)
<1>1. CardOk(T) /\ FileTree(T) /\ FileTree(R) /\ SameKinds(R, T)   BY DEF Knows, CardOk
<1>2. f \in Path   BY <1>1, TreeIs
<1>3. h \in DOMAIN T /\ h \in Path
  <2>1. LeadsTo(T, f) \subseteq DOMAIN T   BY <1>1, <1>2, LeadsOn
  <2> QED BY <1>1, <2>1, TreeIs
<1>4. Len(f) > 1 => \E g \in LeadsTo(T, Front(f)) : h \in Found(T, g, f)
  <2>1. Len(f) > 1 => LeadsTo(T, f) = UNION {Found(T, g, f) : g \in LeadsTo(T, Front(f))}
    BY <1>1, <1>2, LeadsOn
  <2> QED BY <2>1
<1>5. Last(h) = Last(f) /\ (IsADF(f) => h = f)
  <2>1. CASE f = MF
    <3>1. LeadsTo(T, MF) = {MF}   BY <1>1, <1>2, LeadsOn
    <3> QED BY <2>1, <3>1
  <2>2. CASE f # MF
    <3>1. Len(f) > 1   BY <1>2, <2>2, MFIs
    <3>2. PICK g \in LeadsTo(T, Front(f)) : h \in Found(T, g, f)   BY <1>4, <3>1
    <3>3. g \in DOMAIN T
      <4>1. Front(f) \in Path   BY <1>2, <3>1, FrontIs
      <4> QED BY <1>1, <4>1, LeadsOn
    <3> QED BY <1>1, <1>2, <3>2, <3>3, FoundIs
  <2> QED BY <2>1, <2>2
<1>6. T[h] = R[f]   BY <1>1, <1>3, <1>5 DEF SameKinds
<1>7. h = MF <=> f = MF   BY <1>2, <1>3, <1>5, MFIs
<1>8. IsADF(h) <=> IsADF(f)   BY <1>2, <1>3, <1>5, PathIs
<1> QED BY <1>2, <1>3, <1>4, <1>5, <1>6, <1>7, <1>8

\* Only an application without file system selects nothing by FID.
LEMMA MuteIs ==
  ASSUME NEW R, NEW T, Knows(R, T), NEW f \in DOMAIN R, NEW h \in LeadsTo(T, f)
  PROVE  Mute(T, h) => IsADF(f) /\ f[2] \in AppsWithoutFs /\ h = f
<1>1. CardOk(T) /\ FileTree(T) /\ f \in Path   BY LeadsAlike DEF Knows, CardOk
<1>2. CASE IsADF(f)
  <2>1. h = f /\ h \in DOMAIN T   BY <1>2, LeadsAlike
  <2>2. T[h] = "df"   BY <1>1, <1>2, <2>1, TreeIs
  <2>3. CardDf(T, h) = h   BY <1>1, <2>1, <2>2, CardDfIs
  <2> QED BY <1>2, <2>1, <2>3 DEF Mute
<1>3. CASE f = MF
  <2>1. h = MF /\ MF \in DOMAIN T /\ T[MF] = "df"   BY <1>1, <1>3, LeadsAlike, TreeIs
  <2>2. CardDf(T, h) = MF   BY <1>1, <2>1, CardDfIs
  <2> QED BY <2>2, MFIs DEF Mute
<1>4. CASE ~IsADF(f) /\ f # MF
  <2>1. Len(f) > 1   BY <1>1, <1>4, MFIs
  <2>2. PICK g \in LeadsTo(T, Front(f)) : h \in Found(T, g, f)   BY <2>1, LeadsAlike
  <2>3. g \in DOMAIN T
    <3>1. Front(f) \in Path   BY <1>1, <2>1, FrontIs
    <3> QED BY <1>1, <3>1, LeadsOn
  <2>4. h \in InReach(T, g)   BY <1>1, <1>4, <2>2, <2>3, FoundIs
  <2> QED BY <1>1, <2>3, <2>4, WayBack
<1> QED BY <1>2, <1>3, <1>4

\* From a file that the card has found by its FID in a DF of pySim's, it finds the DF.
LEMMA FindsParent ==
  ASSUME NEW R, NEW T, Knows(R, T), NEW b \in DOMAIN R, R[b] = "df",
         NEW g \in LeadsTo(T, b), NEW k \in InReach(T, g), k # MF \/ b = MF
  PROVE  g \in Found(T, k, b)
<1>1. CardOk(T) /\ FileTree(T) /\ FileTree(R)   BY DEF Knows, CardOk
<1>2. /\ b \in Path /\ g \in DOMAIN T /\ Last(g) = Last(b) /\ T[g] = "df"
      /\ IsADF(b) => g = b
      /\ g = MF <=> b = MF
      /\ IsADF(g) <=> IsADF(b)
  BY LeadsAlike
<1>3. k \in DOMAIN T   BY ReachIs
<1>4. CASE IsADF(b)   BY <1>1, <1>2, <1>3, <1>4, FoundIs
<1>5. CASE ~IsADF(b)
  <2>1. CardDf(T, g) = g   BY <1>1, <1>2, CardDfIs
  <2>2. g \in InReach(T, k)
    <3>1. CASE g = MF   BY <1>1, <1>2, <3>1, WayBack
    <3>2. CASE g # MF
      <4>1. k # MF   BY <1>2, <3>2
      <4> QED BY <1>1, <1>2, <1>5, <2>1, <4>1, WayBack
    <3> QED BY <3>1, <3>2
  <2> QED BY <1>1, <1>2, <1>3, <1>5, <2>2, FoundIs
<1> QED BY <1>4, <1>5

\* One level up: the card finds the DF, and nothing else.
LEMMA StepUp ==
  ASSUME NEW R, NEW T, Knows(R, T), NEW f \in DOMAIN R, Len(f) > 1, NEW h \in LeadsTo(T, f)
  PROVE  /\ Found(T, h, Front(f)) \subseteq LeadsTo(T, Front(f))
         /\ ~IsADF(f) => \E g \in LeadsTo(T, Front(f)) : g \in Found(T, h, Front(f))
<1>1. CardOk(T) /\ FileTree(T) /\ FileTree(R)   BY DEF Knows, CardOk
<1>2. f \in Path /\ Front(f) \in Path /\ Front(f) \in DOMAIN R /\ R[Front(f)] = "df" /\ f # MF
  BY <1>1, TreeIs, FrontIs
<1>3. h \in DOMAIN T /\ h # MF   BY <1>2, LeadsAlike
<1>4. CASE IsADF(f)
  <2>1. Front(f) = MF   BY <1>2, <1>4, ADFIs
  <2>2. LeadsTo(T, MF) = {MF}   BY <1>1, <1>2, LeadsOn
  <2>3. Found(T, h, MF) \subseteq {MF}   BY <1>1, <1>2, <1>3, FoundIs
  <2> QED BY <1>4, <2>1, <2>2, <2>3
<1>5. CASE ~IsADF(f)
  <2>1. PICK g \in LeadsTo(T, Front(f)) : h \in Found(T, g, f)   BY LeadsAlike
  <2>2. g \in DOMAIN T   BY <1>2, LeadsAlike
  <2>3. h \in InReach(T, g)   BY <1>1, <1>2, <1>5, <2>1, <2>2, FoundIs
  <2>4. g \in Found(T, h, Front(f))   BY <1>2, <1>3, <2>3, FindsParent
  <2>5. \A x, y \in Found(T, h, Front(f)) : x = y   BY <1>1, <1>2, <1>3, FoundIs
  <2> QED BY <2>1, <2>4, <2>5
<1> QED BY <1>4, <1>5

\* One level down.
LEMMA StepDown ==
  ASSUME NEW T, CardOk(T), NEW f \in Path, Len(f) > 1, NEW h \in LeadsTo(T, Front(f))
  PROVE  /\ Found(T, h, f) \subseteq LeadsTo(T, f)
         /\ LeadsTo(T, f) \subseteq Found(T, h, f)
<1>1. LeadsTo(T, f) = UNION {Found(T, g, f) : g \in LeadsTo(T, Front(f))}   BY LeadsOn
<1>2. \A g, k \in LeadsTo(T, Front(f)) : g = k   BY FrontIs, LeadsToOne
<1> QED BY <1>1, <1>2

\* An application is found from everywhere, the MF from everywhere but an
\* application without file system.
LEMMA StepAnywhere ==
  ASSUME NEW R, NEW T, Knows(R, T), NEW h \in DOMAIN T, NEW f \in DOMAIN R
  PROVE  /\ IsADF(f) => Found(T, h, f) = LeadsTo(T, f)
         /\ f = MF => Found(T, h, f) \subseteq LeadsTo(T, f)
         /\ ~Mute(T, h) => MF \in Found(T, h, MF)
         /\ Mute(T, h) /\ ~IsADF(f) => Found(T, h, f) = {}
<1>1. CardOk(T) /\ FileTree(T) /\ FileTree(R) /\ MF \in DOMAIN T   BY TreeIs DEF Knows, CardOk
<1>2. f \in Path   BY <1>1, TreeIs
<1>3. ASSUME IsADF(f) PROVE Found(T, h, f) = LeadsTo(T, f)
  <2>0. Len(f) > 1 /\ Front(f) = MF
    <3>1. Len(f) = 2 /\ Front(f) = MF   BY <1>2, <1>3, ADFIs
    <3> QED BY <3>1
  <2>1. LeadsTo(T, f) = UNION {Found(T, g, f) : g \in LeadsTo(T, MF)}   BY <1>1, <1>2, <2>0, LeadsOn
  <2>2. LeadsTo(T, MF) = {MF}   BY <1>1, <1>2, LeadsOn
  <2>3. Found(T, MF, f) = {f} \cap DOMAIN T   BY <1>1, <1>2, <1>3, FoundIs
  <2>4. Found(T, h, f) = {f} \cap DOMAIN T   BY <1>1, <1>2, <1>3, FoundIs
  <2> QED BY <2>1, <2>2, <2>3, <2>4
<1>4. ASSUME f = MF PROVE Found(T, h, f) \subseteq LeadsTo(T, f)
  <2>1. LeadsTo(T, MF) = {MF}   BY <1>1, <1>2, LeadsOn
  <2>2. Found(T, h, MF) \subseteq {MF}   BY <1>1, <1>2, FoundIs
  <2> QED BY <1>4, <2>1, <2>2
<1>5. ASSUME ~Mute(T, h) PROVE MF \in Found(T, h, MF)
  <2>1. MF \in InReach(T, h)   BY <1>1, <1>5, MFIs, ReachIs
  <2> QED BY <2>1, MFIs DEF Found, FoundByFid
<1>6. ASSUME Mute(T, h), ~IsADF(f) PROVE Found(T, h, f) = {}
  <2>1. InReach(T, h) = {}   BY <1>6, ReachIs
  <2> QED BY <1>6, <2>1 DEF Found, FoundByFid
<1> QED BY <1>3, <1>4, <1>5, <1>6

\* A card with another file: what a path led to it still leads to.
LEMMA LeadsStill ==
  ASSUME NEW T, CardOk(T), NEW U, CardOk(U), DOMAIN T \subseteq DOMAIN U,
         \A f \in DOMAIN T : U[f] = T[f], NEW f \in Path
  PROVE  LeadsTo(T, f) \subseteq LeadsTo(U, f)
<1> DEFINE S == {p \in Path : LeadsTo(T, p) \subseteq LeadsTo(U, p)}
<1>0. FileTree(T) /\ FileTree(U) /\ MF \in Path   BY MFIs DEF CardOk
<1>1. MF \in S
  <2>1. LeadsTo(T, MF) = {MF} /\ LeadsTo(U, MF) = {MF}   BY <1>0, LeadsOn
  <2> QED BY <1>0, <2>1
<1>2. ASSUME NEW p \in Path, Len(p) > 1, Front(p) \in S PROVE p \in S
  <2>1. /\ LeadsTo(T, p) = UNION {Found(T, h, p) : h \in LeadsTo(T, Front(p))}
        /\ LeadsTo(U, p) = UNION {Found(U, h, p) : h \in LeadsTo(U, Front(p))}
    BY <1>2, LeadsOn
  <2>2. ASSUME NEW h \in LeadsTo(T, Front(p)) PROVE Found(T, h, p) \subseteq Found(U, h, p)
    <3>1. h \in DOMAIN T /\ h \in DOMAIN U   BY <1>2, LeadsOn
    <3>2. CardDf(T, h) = CardDf(U, h)   BY <3>1 DEF CardDf
    <3>3. Mute(T, h) <=> Mute(U, h)   BY <3>2 DEF Mute
    <3>4. InReach(T, h) \subseteq InReach(U, h)
      <4>1. ASSUME NEW x \in InReach(T, h) PROVE x \in InReach(U, h)
        <5>1. x \in DOMAIN T /\ x \in DOMAIN U /\ T[x] = U[x]   BY ReachIs
        <5> DEFINE d == CardDf(T, h)
        <5>2. /\ ~Mute(U, h) /\ ~IsADF(x)
              /\ \/ x \in {MF, d}
                 \/ x # MF /\ Parent(x) = d
                 \/ ~IsADF(d) /\ (x = Parent(d) \/ (x # MF /\ Parent(x) = Parent(d) /\ U[x] = "df"))
          BY <3>3, <5>1, ReachIs
        <5> QED BY <3>2, <5>1, <5>2, ReachIs
      <4> QED BY <4>1
    <3> QED BY <3>4 DEF Found, FoundByFid
  <2>3. LeadsTo(T, Front(p)) \subseteq LeadsTo(U, Front(p))   BY <1>2
  <2> QED BY <2>1, <2>2, <2>3
<1> HIDE DEF S
<1>3. Path \subseteq S   BY <1>1, <1>2, PathInduction
<1> QED BY <1>3 DEF S

-----------------------------------------------------------------------------
(* The paths of build_select_path_to *)

\* A set of numbers up to N has a largest.
LEMMA Largest ==
  ASSUME NEW N \in Nat, NEW S \in SUBSET (1 .. N), S # {}
  PROVE  \E m \in S : \A j \in S : j <= m
<1> DEFINE P == {n \in Nat : \A s \in S : s <= n => \E m \in S : \A j \in S : j <= n => j <= m}
<1>1. 0 \in P
  <2>1. \A s \in S : ~(s <= 0)   OBVIOUS
  <2> QED BY <2>1
<1>2. ASSUME NEW n \in Nat, n \in P PROVE n + 1 \in P
  <2>1. ASSUME NEW s \in S, s <= n + 1 PROVE \E m \in S : \A j \in S : j <= n + 1 => j <= m
    <3>1. CASE n + 1 \in S   BY <3>1
    <3>2. CASE n + 1 \notin S
      <4>1. \A j \in S : j <= n + 1 => j <= n   BY <3>2
      <4>2. s <= n   BY <2>1, <4>1
      <4>3. PICK m \in S : \A j \in S : j <= n => j <= m   BY <1>2, <4>2
      <4> QED BY <4>1, <4>3
    <3> QED BY <3>1, <3>2
  <2> QED BY <2>1
<1>3. Nat \subseteq P
  <2> HIDE DEF P
  <2> QED BY <1>1, <1>2, SetInduction
<1>4. \A j \in S : j <= N   OBVIOUS
<1>5. N \in P   BY <1>3
<1>6. PICK s \in S : TRUE   OBVIOUS
<1>7. PICK m \in S : \A j \in S : j <= N => j <= m   BY <1>4, <1>5, <1>6
<1> QED BY <1>4, <1>7

\* A path from f goes up to its prefix of length c and down to t.
UpDown(f, t, c) ==
  [i \in 1 .. Len(f) - c |-> SubSeq(f, 1, Len(f) - i)]
    \o [i \in 1 .. Len(t) - c |-> SubSeq(t, 1, c + i)]

IsCommon(f, t, c) ==
  /\ c \in 1 .. Len(f) /\ c < Len(t) /\ Prefix(f, c) = Prefix(t, c)
  /\ \A j \in c + 1 .. Len(f) : j >= Len(t) \/ Prefix(f, j) # Prefix(t, j)

LEMMA PathParts ==
  ASSUME NEW f \in Path, NEW t \in Path, t # MF
  PROVE  \E c : IsCommon(f, t, c) /\ build_select_path_to(f, t) = clip_path(UpDown(f, t, c))
<1> DEFINE C == {k \in 1 .. Len(f) : k < Len(t) /\ Prefix(f, k) = Prefix(t, k)}
<1>1. Len(f) \in Nat /\ Len(f) >= 1 /\ Len(t) \in Nat /\ Len(t) > 1   BY PathIs, MFIs
<1>2. 1 \in C
  <2>1. 1 \in 1 .. Len(f) /\ 1 \in 1 .. Len(t)   BY <1>1
  <2>2. Prefix(f, 1) = MF /\ Prefix(t, 1) = MF
    <3>1. Prefix(f, 1) \in Path /\ Len(Prefix(f, 1)) = 1   BY <2>1, PrefixIs
    <3>2. Prefix(t, 1) \in Path /\ Len(Prefix(t, 1)) = 1   BY <2>1, PrefixIs
    <3> QED BY <3>1, <3>2, MFIs
  <2> QED BY <1>1, <2>1, <2>2
<1>3. PICK m \in C : \A j \in C : j <= m
  <2>1. C \in SUBSET (1 .. Len(f)) /\ C # {}   BY <1>2
  <2> HIDE DEF C
  <2> QED BY <1>1, <2>1, Largest
<1>4. IsCommon(f, t, m)
  <2>1. ASSUME NEW j \in m + 1 .. Len(f) PROVE j >= Len(t) \/ Prefix(f, j) # Prefix(t, j)
    <3>1. j \in 1 .. Len(f) /\ ~(j <= m)   BY <1>1, <1>3
    <3>2. j \notin C   BY <1>3, <3>1
    <3> QED BY <1>1, <3>1, <3>2
  <2> QED BY <1>1, <1>3, <2>1 DEF IsCommon
<1> DEFINE c == CHOOSE k \in 1 .. Len(f) :
        /\ k < Len(t) /\ SubSeq(f, 1, k) = SubSeq(t, 1, k)
        /\ \A j \in k + 1 .. Len(f) :
             j >= Len(t) \/ SubSeq(f, 1, j) # SubSeq(t, 1, j)
<1>5. IsCommon(f, t, c)
  <2>1. \E k \in 1 .. Len(f) :
          /\ k < Len(t) /\ SubSeq(f, 1, k) = SubSeq(t, 1, k)
          /\ \A j \in k + 1 .. Len(f) : j >= Len(t) \/ SubSeq(f, 1, j) # SubSeq(t, 1, j)
    BY <1>4 DEF IsCommon, Prefix
  <2>2. /\ c \in 1 .. Len(f)
        /\ c < Len(t) /\ SubSeq(f, 1, c) = SubSeq(t, 1, c)
        /\ \A j \in c + 1 .. Len(f) : j >= Len(t) \/ SubSeq(f, 1, j) # SubSeq(t, 1, j)
    BY <2>1, Zenon
  <2> HIDE DEF c
  <2> QED BY <2>2 DEF IsCommon, Prefix
<1>6. build_select_path_to(f, t) = clip_path(UpDown(f, t, c))
  BY DEF build_select_path_to, UpDown
<1> QED BY <1>5, <1>6

LEMMA UpDownIs ==
  ASSUME NEW f \in Path, NEW t \in Path, NEW c, IsCommon(f, t, c)
  PROVE  /\ c \in Nat /\ c >= 1 /\ c <= Len(f) /\ c < Len(t)
         /\ UpDown(f, t, c) \in Seq(Path)
         /\ Len(UpDown(f, t, c)) = Len(f) - c + (Len(t) - c)
         /\ \A i \in 1 .. Len(f) - c : UpDown(f, t, c)[i] = Prefix(f, Len(f) - i)
         /\ \A i \in Len(f) - c + 1 .. Len(f) - c + (Len(t) - c) :
              UpDown(f, t, c)[i] = Prefix(t, c + (i - (Len(f) - c)))
<1>1. /\ Len(f) \in Nat /\ Len(t) \in Nat /\ c \in Nat /\ c >= 1 /\ c <= Len(f) /\ c < Len(t)
  BY PathIs DEF IsCommon
<1> DEFINE m == Len(f) - c
           n == Len(t) - c
           up == [i \in 1 .. m |-> Prefix(f, Len(f) - i)]
           down == [i \in 1 .. n |-> Prefix(t, c + i)]
<1>2. m \in Nat /\ n \in Nat   BY <1>1
<1>3. up \in Seq(Path) /\ Len(up) = m
  <2>1. \A i \in 1 .. m : Len(f) - i \in 1 .. Len(f)   BY <1>1
  <2>2. \A i \in 1 .. m : Prefix(f, Len(f) - i) \in Path   BY <2>1, PrefixIs
  <2>3. up \in [1 .. m -> Path]   BY <2>2
  <2> HIDE DEF m
  <2> QED BY <1>2, <2>3
<1>4. down \in Seq(Path) /\ Len(down) = n
  <2>1. \A i \in 1 .. n : c + i \in 1 .. Len(t)   BY <1>1
  <2>2. \A i \in 1 .. n : Prefix(t, c + i) \in Path   BY <2>1, PrefixIs
  <2>3. down \in [1 .. n -> Path]   BY <2>2
  <2> HIDE DEF n
  <2> QED BY <1>2, <2>3
<1>5. UpDown(f, t, c) = up \o down   BY DEF UpDown, Prefix
<1>6. /\ \A i \in 1 .. m : up[i] = Prefix(f, Len(f) - i)
      /\ \A i \in 1 .. n : down[i] = Prefix(t, c + i)
  OBVIOUS
<1> HIDE DEF up, down
<1>7. /\ up \o down \in Seq(Path) /\ Len(up \o down) = m + n
      /\ \A i \in 1 .. m + n : (up \o down)[i] = IF i <= m THEN up[i] ELSE down[i - m]
  <2>1. /\ up \o down \in Seq(Path) /\ Len(up \o down) = Len(up) + Len(down)
        /\ \A i \in 1 .. Len(up) + Len(down) :
             (up \o down)[i] = IF i <= Len(up) THEN up[i] ELSE down[i - Len(up)]
    BY <1>3, <1>4, ConcatProperties
  <2> HIDE DEF m, n
  <2> QED BY <1>3, <1>4, <2>1
<1>8. \A i \in 1 .. m : (up \o down)[i] = Prefix(f, Len(f) - i)
  <2>1. \A i \in 1 .. m : i \in 1 .. m + n /\ i <= m   BY <1>1
  <2> QED BY <1>6, <1>7, <2>1
<1>9. ASSUME NEW i \in m + 1 .. m + n PROVE (up \o down)[i] = Prefix(t, c + (i - m))
  <2>1. i \in 1 .. m + n /\ ~(i <= m) /\ i - m \in 1 .. n   BY <1>1
  <2> QED BY <1>6, <1>7, <2>1
<1> QED BY <1>1, <1>5, <1>7, <1>8, <1>9

\* SELECTs that the card follows step by step.
Adjacent(e, p) ==
  \/ Len(e) > 1 /\ p = Front(e)
  \/ Len(p) > 1 /\ e = Front(p)
  \/ IsADF(p) \/ p = MF

Above(x, f) == \E k \in 1 .. Len(f) - 1 : x = Prefix(f, k)

\* A path from f to t through files of R.
Connects(R, f, t, q) ==
  /\ q \in Seq(DOMAIN R) /\ Len(q) \in Nat /\ Len(q) >= 1 /\ q[Len(q)] = t
  /\ Adjacent(f, q[1])
  /\ \A i \in 2 .. Len(q) : Adjacent(q[i - 1], q[i])
  /\ \A i \in 1 .. Len(q) - 1 : Above(q[i], f) \/ Above(q[i], t)

LEMMA UpDownConnects ==
  ASSUME NEW R, FileTree(R), NEW f \in DOMAIN R, NEW t \in DOMAIN R, NEW c, IsCommon(f, t, c)
  PROVE  Connects(R, f, t, UpDown(f, t, c))
<1>0. f \in Path /\ t \in Path   BY TreeIs
<1>1. /\ c \in Nat /\ c >= 1 /\ c <= Len(f) /\ c < Len(t) /\ Len(f) \in Nat /\ Len(t) \in Nat
      /\ Prefix(f, c) = Prefix(t, c)
  BY <1>0, UpDownIs, PathIs DEF IsCommon
<1> DEFINE m == Len(f) - c
           l == m + (Len(t) - c)
<1>2. m \in Nat /\ l \in Nat /\ l >= 1 /\ m < l   BY <1>1
<1>3. PICK q : q = UpDown(f, t, c)   OBVIOUS
<1>4. /\ q \in Seq(Path) /\ Len(q) = l
      /\ \A i \in 1 .. m : q[i] = Prefix(f, Len(f) - i)
      /\ \A i \in m + 1 .. l : q[i] = Prefix(t, c + (i - m))
  BY <1>0, <1>3, UpDownIs
<1>5. /\ \A i \in 1 .. m : Len(f) - i \in 1 .. Len(f) - 1 /\ Len(f) - i \in 1 .. Len(f)
      /\ \A i \in m + 1 .. l : c + (i - m) \in 1 .. Len(t)
      /\ \A i \in m + 1 .. l - 1 : c + (i - m) \in 1 .. Len(t) - 1
      /\ \A i \in 1 .. l : i \in 1 .. m \/ i \in m + 1 .. l
      /\ \A i \in 1 .. l - 1 : i \in 1 .. m \/ i \in m + 1 .. l - 1
      /\ l \in m + 1 .. l /\ c + (l - m) = Len(t)
  BY <1>1, <1>2
<1>6. \A i \in 1 .. l : q[i] \in DOMAIN R
  <2>1. \A i \in 1 .. m : q[i] \in DOMAIN R   BY <1>4, <1>5, TreeIs
  <2>2. \A i \in m + 1 .. l : q[i] \in DOMAIN R   BY <1>4, <1>5, TreeIs
  <2> QED BY <1>5, <2>1, <2>2
<1>7. q \in Seq(DOMAIN R)
  <2>1. q \in [1 .. Len(q) -> Path]   BY <1>4, LenProperties
  <2>2. q \in [1 .. Len(q) -> DOMAIN R]   BY <1>4, <1>6, <2>1
  <2> HIDE DEF l
  <2> QED BY <1>2, <1>4, <2>2
<1>8. q[l] = t
  <2>1. q[l] = Prefix(t, Len(t))   BY <1>4, <1>5
  <2> QED BY <1>0, <2>1, WholePrefix
<1>9. \A i \in 1 .. l - 1 : Above(q[i], f) \/ Above(q[i], t)
  <2>1. \A i \in 1 .. m : Above(q[i], f)   BY <1>4, <1>5 DEF Above
  <2>2. \A i \in m + 1 .. l - 1 : Above(q[i], t)
    <3>1. ASSUME NEW i \in m + 1 .. l - 1 PROVE Above(q[i], t)
      <4>1. i \in m + 1 .. l   BY <1>2
      <4> QED BY <1>4, <1>5, <4>1 DEF Above
    <3> QED BY <3>1
  <2> QED BY <1>5, <2>1, <2>2
\* What comes before the i-th: f itself, or a prefix of it or of t.
<1> DEFINE before(i) == IF i = 1 THEN f ELSE q[i - 1]
<1>10. ASSUME NEW i \in 1 .. l PROVE Adjacent(before(i), q[i])
  <2>1. CASE i \in 1 .. m
    <3>1. before(i) = Prefix(f, Len(f) - i + 1)
      <4>1. CASE i = 1
        <5>1. Len(f) - i + 1 = Len(f)   BY <1>1, <4>1
        <5> QED BY <1>0, <4>1, <5>1, WholePrefix
      <4>2. CASE i # 1
        <5>1. i - 1 \in 1 .. m /\ Len(f) - (i - 1) = Len(f) - i + 1   BY <1>1, <2>1, <4>2
        <5> QED BY <1>4, <4>2, <5>1
      <4> QED BY <4>1, <4>2
    <3> DEFINE k == Len(f) - i + 1
    <3>2. k \in 1 .. Len(f) /\ k > 1 /\ k - 1 = Len(f) - i /\ k - 1 \in 1 .. k   BY <1>1, <2>1
    <3> HIDE DEF k
    <3>3. PICK e \in Path : e = Prefix(f, k)   BY <1>0, <3>2, PrefixIs
    <3>4. Len(e) = k   BY <1>0, <3>2, <3>3, PrefixIs
    <3>5. Front(e) = Prefix(e, k - 1)   BY <3>2, <3>4, FrontIs
    <3>6. Prefix(e, k - 1) = Prefix(f, k - 1)   BY <1>0, <3>2, <3>3, PrefixOfPrefix
    <3>7. q[i] = Prefix(f, k - 1)   BY <1>4, <2>1, <3>2
    <3>8. before(i) = e   BY <3>1, <3>3 DEF k
    <3> HIDE DEF before
    <3> QED BY <3>2, <3>4, <3>5, <3>6, <3>7, <3>8 DEF Adjacent
  <2>2. CASE i \in m + 1 .. l
    <3> DEFINE k == c + (i - m)
    <3>1. k \in 1 .. Len(t) /\ k > 1 /\ k - 1 \in 1 .. k   BY <1>1, <1>2, <2>2
    <3>2. before(i) = Prefix(t, k - 1)
      <4>1. CASE i = m + 1
        <5>1. k - 1 = c   BY <1>1, <4>1
        <5>2. before(i) = Prefix(f, c)
          <6>1. CASE m = 0
            <7>1. i = 1 /\ c = Len(f)   BY <1>1, <4>1, <6>1
            <7> QED BY <1>0, <7>1, WholePrefix
          <6>2. CASE m # 0
            <7>1. i # 1 /\ i - 1 = m /\ m \in 1 .. m /\ Len(f) - m = c   BY <1>1, <1>2, <4>1, <6>2
            <7>2. q[m] = Prefix(f, c)
              <8>1. q[m] = Prefix(f, Len(f) - m)   BY <1>4, <7>1
              <8> QED BY <7>1, <8>1
            <7> QED BY <7>1, <7>2
          <6> QED BY <6>1, <6>2
        <5> QED BY <1>1, <5>1, <5>2
      <4>2. CASE i # m + 1
        <5>1. i # 1 /\ i - 1 \in m + 1 .. l /\ c + (i - 1 - m) = k - 1   BY <1>1, <1>2, <2>2, <4>2
        <5>2. q[i - 1] = Prefix(t, c + (i - 1 - m))   BY <1>4, <5>1
        <5> QED BY <5>1, <5>2
      <4> QED BY <4>1, <4>2
    <3>3. q[i] = Prefix(t, k)   BY <1>4, <2>2
    <3> HIDE DEF k
    <3>4. PICK e \in Path : e = Prefix(t, k)   BY <1>0, <3>1, PrefixIs
    <3>5. Len(e) = k   BY <1>0, <3>1, <3>4, PrefixIs
    <3>6. Front(e) = Prefix(e, k - 1)   BY <3>1, <3>5, FrontIs
    <3>7. Prefix(e, k - 1) = Prefix(t, k - 1)   BY <1>0, <3>1, <3>4, PrefixOfPrefix
    <3> HIDE DEF before
    <3> QED BY <3>1, <3>2, <3>3, <3>4, <3>5, <3>6, <3>7 DEF Adjacent
  <2> QED BY <1>5, <2>1, <2>2
<1>11. Adjacent(f, q[1])
  <2>1. 1 \in 1 .. l   BY <1>2
  <2> QED BY <1>10, <2>1
<1>12. \A i \in 2 .. l : Adjacent(q[i - 1], q[i])
  <2>1. \A i \in 2 .. l : i \in 1 .. l /\ i # 1   BY <1>2
  <2> QED BY <1>10, <2>1
<1> HIDE DEF l, m, before
<1>13. Connects(R, f, t, q)   BY <1>2, <1>4, <1>7, <1>8, <1>9, <1>11, <1>12 DEF Connects
<1> QED BY <1>3, <1>13

\* Cut at an application, the path still connects; and applications come first.
LEMMA ClipConnects ==
  ASSUME NEW R, NEW f, NEW t, NEW q, Connects(R, f, t, q)
  PROVE  /\ Connects(R, f, t, clip_path(q))
         /\ \A i \in 2 .. Len(clip_path(q)) : ~IsADF(clip_path(q)[i])
<1> DEFINE A == {i \in 1 .. Len(q) : IsADF(q[i])}
<1>1. /\ q \in Seq(DOMAIN R) /\ Len(q) \in Nat /\ Len(q) >= 1 /\ q[Len(q)] = t
      /\ \A i \in 1 .. Len(q) : q[i] \in DOMAIN R
  BY LenProperties DEF Connects
<1>2. CASE A = {}
  <2>1. clip_path(q) = q   BY <1>2 DEF clip_path
  <2>2. \A i \in 2 .. Len(q) : i \in 1 .. Len(q)   BY <1>1
  <2> QED BY <1>2, <2>1, <2>2
<1>3. CASE A # {}
  <2> DEFINE a == CHOOSE i \in A : \A j \in A : j <= i
  <2>1. a \in A /\ \A j \in A : j <= a
    <3>1. A \in SUBSET (1 .. Len(q))   OBVIOUS
    <3> HIDE DEF A
    <3>2. \E i \in A : \A j \in A : j <= i   BY <1>1, <1>3, <3>1, Largest
    <3> QED BY <3>2
  <2>2. clip_path(q) = SubSeq(q, a, Len(q))   BY <1>3 DEF clip_path
  <2> HIDE DEF a
  <2>3. a \in 1 .. Len(q) /\ IsADF(q[a]) /\ \A j \in 1 .. Len(q) : IsADF(q[j]) => j <= a   BY <2>1
  <2> HIDE DEF A
  <2> DEFINE n == Len(q) - a + 1
  <2>4. a \in Nat /\ n \in Nat /\ n >= 1 /\ a + n - 1 = Len(q)   BY <1>1, <2>3
  <2>5. PICK p : p = clip_path(q)   OBVIOUS
  <2>6. /\ p \in Seq(DOMAIN R) /\ Len(p) = n
        /\ \A i \in 1 .. n : p[i] = q[a + i - 1]
    <3>1. a \in Int /\ Len(q) \in Int /\ a <= Len(q) /\ \A i \in a .. Len(q) : q[i] \in DOMAIN R
      BY <1>1, <2>3
    <3> QED BY <2>2, <2>5, <3>1, SubSeqProperties
  <2>7. \A i \in 1 .. n : a + i - 1 \in 1 .. Len(q)   BY <1>1, <2>3, <2>4
  <2>8. p[n] = t
    <3>1. n \in 1 .. n   BY <2>4
    <3>2. p[n] = q[a + n - 1]   BY <2>6, <3>1
    <3> QED BY <1>1, <2>4, <3>2
  <2>9. Adjacent(f, p[1])
    <3>1. 1 \in 1 .. n /\ a + 1 - 1 = a   BY <2>4
    <3>2. p[1] = q[a + 1 - 1]   BY <2>6, <3>1
    <3>3. p[1] = q[a]   BY <3>1, <3>2
    <3> QED BY <2>3, <3>3 DEF Adjacent
  <2>10. ASSUME NEW i \in 2 .. n PROVE Adjacent(p[i - 1], p[i]) /\ ~IsADF(p[i])
    <3>1. i \in 1 .. n /\ i - 1 \in 1 .. n   BY <2>4
    <3>2. p[i] = q[a + i - 1] /\ p[i - 1] = q[a + (i - 1) - 1]   BY <2>6, <3>1
    <3> DEFINE j == a + i - 1
    <3>3. j \in 2 .. Len(q) /\ j \in 1 .. Len(q) /\ a + (i - 1) - 1 = j - 1 /\ ~(j <= a)   BY <1>1, <2>3, <2>4
    <3>4. p[i] = q[j] /\ p[i - 1] = q[j - 1]   BY <3>2, <3>3
    <3> HIDE DEF j
    <3>5. Adjacent(q[j - 1], q[j])   BY <3>3 DEF Connects
    <3>6. ~IsADF(q[j])   BY <2>3, <3>3
    <3> QED BY <3>4, <3>5, <3>6
  <2>11. ASSUME NEW i \in 1 .. n - 1 PROVE Above(p[i], f) \/ Above(p[i], t)
    <3>1. i \in 1 .. n /\ a + i - 1 \in 1 .. Len(q) - 1   BY <1>1, <2>3, <2>4
    <3>2. p[i] = q[a + i - 1]   BY <2>6, <3>1
    <3> QED BY <3>1, <3>2 DEF Connects
  <2>12. Connects(R, f, t, p)
    <3> HIDE DEF n
    <3>1. \A i \in 2 .. n : Adjacent(p[i - 1], p[i])   BY <2>10
    <3> QED BY <2>4, <2>6, <2>8, <2>9, <2>11, <3>1 DEF Connects
  <2>13. \A i \in 2 .. Len(p) : ~IsADF(p[i])
    <3> HIDE DEF n
    <3> QED BY <2>6, <2>10
  <2> QED BY <2>5, <2>12, <2>13
<1> QED BY <1>2, <1>3

\* The paths that select_file takes.
LEMMA PathConnects ==
  ASSUME NEW R, FileTree(R), NEW f \in DOMAIN R, NEW t \in DOMAIN R
  PROVE  /\ Connects(R, f, t, build_select_path_to(f, t))
         /\ \A i \in 2 .. Len(build_select_path_to(f, t)) : ~IsADF(build_select_path_to(f, t)[i])
         /\ t = MF => build_select_path_to(f, t) = <<MF>>
<1>1. CASE t = MF
  <2>1. build_select_path_to(f, t) = <<MF>>   BY <1>1 DEF build_select_path_to
  <2>2. PICK q : q = <<MF>>   OBVIOUS
  <2>3. q \in Seq(DOMAIN R) /\ Len(q) = 1 /\ q[1] = MF   BY <1>1, <2>2
  <2>4. Connects(R, f, t, q)
    <3>1. Len(q) \in Nat /\ Len(q) >= 1   BY <2>3
    <3>2. q[Len(q)] = t /\ Adjacent(f, q[1])   BY <1>1, <2>3 DEF Adjacent
    <3>3. (\A i \in 2 .. Len(q) : FALSE) /\ (\A i \in 1 .. Len(q) - 1 : FALSE)   BY <2>3
    <3> QED BY <2>3, <3>1, <3>2, <3>3 DEF Connects
  <2>5. \A i \in 2 .. Len(q) : ~IsADF(q[i])   BY <2>3
  <2> QED BY <2>1, <2>2, <2>4, <2>5
<1>2. CASE t # MF
  <2>1. f \in Path /\ t \in Path   BY TreeIs
  <2>2. PICK c : IsCommon(f, t, c) /\ build_select_path_to(f, t) = clip_path(UpDown(f, t, c))
    BY <1>2, <2>1, PathParts
  <2>3. Connects(R, f, t, UpDown(f, t, c))   BY <2>2, UpDownConnects
  <2> QED BY <1>2, <2>2, <2>3, ClipConnects
<1> QED BY <1>1, <1>2

-----------------------------------------------------------------------------
(* Walks along a path of select_file *)

LEMMA StepAdjacent ==
  ASSUME NEW R, NEW T, Knows(R, T), NEW e \in DOMAIN R, NEW p \in DOMAIN R, Adjacent(e, p),
         NEW h \in LeadsTo(T, e)
  PROVE  /\ Found(T, h, p) \subseteq LeadsTo(T, p)
         /\ LeadsTo(T, p) # {} /\ ~(p = MF /\ Mute(T, h)) => Found(T, h, p) # {}
<1>1. CardOk(T) /\ FileTree(R) /\ e \in Path /\ p \in Path /\ h \in DOMAIN T
  BY LeadsAlike, TreeIs DEF Knows
<1>2. CASE IsADF(p) \/ p = MF   BY <1>1, <1>2, StepAnywhere
<1>3. CASE Len(e) > 1 /\ p = Front(e) /\ ~(IsADF(p) \/ p = MF)
  <2>1. ~IsADF(e)   BY <1>1, <1>3, ADFIs
  <2> QED BY <1>3, <2>1, StepUp
<1>4. CASE Len(p) > 1 /\ e = Front(p)   BY <1>1, <1>4, StepDown
<1> QED BY <1>2, <1>3, <1>4 DEF Adjacent

\* From the first file on that was found, the card follows.
LEMMA WalkLeads ==
  ASSUME NEW R, NEW T, Knows(R, T), NEW no, NEW g \in DOMAIN T,
         NEW f, NEW t, NEW q, Connects(R, f, t, q),
         WalkStep(T, no, {g}, q[1]) \subseteq LeadsTo(T, q[1])
  PROVE  \A k \in 1 .. Len(q) : CardWalk(T, no, g, q)[k] \subseteq LeadsTo(T, q[k])
<1>0. CardOk(T) /\ FileTree(R) /\ DOMAIN R \subseteq Path   BY TreeIs DEF Knows
<1>1. /\ q \in Seq(DOMAIN R) /\ q \in Seq(Path) /\ Len(q) \in Nat /\ Len(q) >= 1
      /\ \A i \in 1 .. Len(q) : q[i] \in DOMAIN R
  BY <1>0, LenProperties, SeqMonotonic DEF Connects
<1>2. PICK w : w = CardWalk(T, no, g, q)   OBVIOUS
<1>3. /\ w[0] = {g}
      /\ \A k \in 1 .. Len(q) : w[k] = WalkStep(T, no, w[k - 1], q[k])
  <2>1. q \in Seq(Path)   BY <1>1
  <2>2. LET x == CardWalk(T, no, g, q) IN
        x[0] = {g} /\ \A k \in 1 .. Len(q) : x[k] = WalkStep(T, no, x[k - 1], q[k])
    BY <1>0, <2>1, CardWalkIs
  <2> QED BY <1>2, <2>2
<1> DEFINE S == {n \in 0 .. Len(q) - 1 : w[n + 1] \subseteq LeadsTo(T, q[n + 1])}
<1>4. 0 \in S
  <2>1. 0 \in 0 .. Len(q) - 1 /\ 0 + 1 = 1 /\ 1 \in 1 .. Len(q) /\ 1 - 1 = 0   BY <1>1
  <2>2. w[1] = WalkStep(T, no, {g}, q[1])   BY <1>3, <2>1
  <2> QED BY <2>1, <2>2
<1>5. ASSUME NEW n \in 0 .. (Len(q) - 1) - 1, n \in S PROVE n + 1 \in S
  <2> DEFINE k == n + 1
  <2>1. k \in Nat /\ k \in 1 .. Len(q) /\ k + 1 \in 2 .. Len(q) /\ k + 1 \in 1 .. Len(q)
        /\ k + 1 - 1 = k /\ k \in 0 .. Len(q) - 1
    BY <1>1
  <2>2. w[k] \subseteq LeadsTo(T, q[k])   BY <1>5
  <2> HIDE DEF k
  <2>3. Adjacent(q[k], q[k + 1])
    <3>1. \A i \in 2 .. Len(q) : Adjacent(q[i - 1], q[i])   BY DEF Connects
    <3> QED BY <2>1, <3>1
  <2>4. \A h \in w[k] : Found(T, h, q[k + 1]) \subseteq LeadsTo(T, q[k + 1])
    BY <1>1, <2>1, <2>2, <2>3, StepAdjacent
  <2>5. w[k + 1] = WalkStep(T, no, w[k], q[k + 1])   BY <1>3, <2>1
  <2>6. w[k + 1] \subseteq LeadsTo(T, q[k + 1])   BY <2>4, <2>5 DEF WalkStep
  <2> QED BY <2>1, <2>6 DEF k
<1>6. 0 .. Len(q) - 1 \subseteq S
  <2>1. Len(q) - 1 \in Nat   BY <1>1
  <2> HIDE DEF S
  <2> QED BY <1>4, <1>5, <2>1, UpTo
<1>7. ASSUME NEW k \in 1 .. Len(q) PROVE w[k] \subseteq LeadsTo(T, q[k])
  <2>1. k - 1 \in 0 .. Len(q) - 1 /\ k - 1 + 1 = k   BY <1>1
  <2>2. k - 1 \in S   BY <1>6, <2>1
  <2> QED BY <2>1, <2>2
<1> QED BY <1>2, <1>7

\* Files above one that the card has are on the card, and an application above it
\* has files.
LEMMA AboveFound ==
  ASSUME NEW R, NEW T, Knows(R, T), NEW f \in DOMAIN R, LeadsTo(T, f) # {}, NEW x, Above(x, f)
  PROVE  x \in DOMAIN R /\ LeadsTo(T, x) # {} /\ \A h \in LeadsTo(T, x) : ~Mute(T, h)
<1> DEFINE Good(y) == LeadsTo(T, y) # {} /\ \A h \in LeadsTo(T, y) : ~Mute(T, h)
           S == {p \in Path : p \in DOMAIN R /\ LeadsTo(T, p) # {} =>
                                \A k \in 1 .. Len(p) - 1 : Good(Prefix(p, k))}
<1>0. CardOk(T) /\ FileTree(R) /\ DOMAIN R \subseteq Path   BY TreeIs DEF Knows
<1>1. MF \in S
  <2>1. MF \in Path /\ Len(MF) = 1   BY MFIs
  <2>2. \A k \in 1 .. Len(MF) - 1 : FALSE   BY <2>1
  <2> QED BY <2>1, <2>2
<1>2. ASSUME NEW p \in Path, Len(p) > 1, Front(p) \in S PROVE p \in S
  <2> SUFFICES ASSUME p \in DOMAIN R, LeadsTo(T, p) # {}, NEW k \in 1 .. Len(p) - 1
               PROVE  Good(Prefix(p, k))
    OBVIOUS
  <2> DEFINE b == Front(p)
  <2>1. /\ b \in Path /\ b \in DOMAIN R /\ Len(b) = Len(p) - 1 /\ Len(p) \in Nat
        /\ Prefix(b, k) = Prefix(p, k) /\ b = Prefix(p, Len(p) - 1)
    BY <1>0, <1>2, FrontIs, TreeIs, PathIs
  <2>2. LeadsTo(T, p) = UNION {Found(T, h, p) : h \in LeadsTo(T, b)}   BY <1>0, <1>2, LeadsOn
  <2>3. LeadsTo(T, b) # {}   BY <2>2
  <2>4. CASE k \in 1 .. Len(b) - 1   BY <1>2, <2>1, <2>3, <2>4
  <2>5. CASE k = Len(b)
    <3>1. Prefix(p, k) = b   BY <2>1, <2>5
    <3>2. ASSUME NEW h \in LeadsTo(T, b) PROVE ~Mute(T, h)
      <4>1. CASE IsADF(p)
        <5>1. b = MF   BY <1>2, <4>1, ADFIs
        <5>2. ~IsADF(b)   BY <5>1, MFIs
        <5> QED BY <2>1, <5>2, MuteIs
      <4>2. CASE ~IsADF(p)
        <5>1. h \in DOMAIN T   BY <2>1, LeadsAlike
        <5>2. LeadsTo(T, p) \subseteq Found(T, h, p)   BY <1>0, <1>2, StepDown
        <5> QED BY <4>2, <5>1, <5>2, StepAnywhere
      <4> QED BY <4>1, <4>2
    <3> QED BY <2>3, <3>1, <3>2
  <2> QED BY <2>1, <2>4, <2>5
<1> HIDE DEF S
<1>3. Path \subseteq S   BY <1>1, <1>2, PathInduction
<1>4. PICK k \in 1 .. Len(f) - 1 : x = Prefix(f, k)   BY DEF Above
<1>5. f \in Path /\ k \in 1 .. Len(f)   BY <1>0, PathIs
<1>6. f \in S   BY <1>3, <1>5
<1>7. Good(Prefix(f, k))   BY <1>4, <1>6 DEF S
<1>8. Prefix(f, k) \in DOMAIN R   BY <1>0, <1>5, TreeIs
<1> QED BY <1>4, <1>7, <1>8

\* If the card refuses nothing, it follows to the end, unless there is an application without
\* file system at the beginning.
LEMMA WalkArrives ==
  ASSUME NEW R, NEW T, Knows(R, T), NEW g \in DOMAIN T,
         NEW f \in DOMAIN R, NEW t \in DOMAIN R, NEW q, Connects(R, f, t, q),
         LeadsTo(T, f) # {}, LeadsTo(T, t) # {},
         Found(T, g, q[1]) # {}, Found(T, g, q[1]) \subseteq LeadsTo(T, q[1])
  PROVE  CardWalk(T, {}, g, q)[Len(q)] # {}
<1>0. CardOk(T) /\ FileTree(R) /\ DOMAIN R \subseteq Path   BY TreeIs DEF Knows
<1>1. /\ q \in Seq(DOMAIN R) /\ q \in Seq(Path) /\ Len(q) \in Nat /\ Len(q) >= 1
      /\ \A i \in 1 .. Len(q) : q[i] \in DOMAIN R
      /\ q[Len(q)] = t
  BY <1>0, LenProperties, SeqMonotonic DEF Connects
<1>2. PICK w : w = CardWalk(T, {}, g, q)   OBVIOUS
<1>3. /\ w[0] = {g}
      /\ \A k \in 1 .. Len(q) : w[k] = WalkStep(T, {}, w[k - 1], q[k])
  <2>1. q \in Seq(Path)   BY <1>1
  <2>2. LET x == CardWalk(T, {}, g, q) IN
        x[0] = {g} /\ \A k \in 1 .. Len(q) : x[k] = WalkStep(T, {}, x[k - 1], q[k])
    BY <1>0, <2>1, CardWalkIs
  <2> QED BY <1>2, <2>2
<1>w. WalkStep(T, {}, {g}, q[1]) = Found(T, g, q[1])   BY DEF WalkStep
<1>4. \A k \in 1 .. Len(q) : w[k] \subseteq LeadsTo(T, q[k])   BY <1>2, <1>w, WalkLeads
<1>5. ASSUME NEW k \in 1 .. Len(q) PROVE LeadsTo(T, q[k]) # {}
  <2>1. CASE k = Len(q)   BY <1>1, <2>1
  <2>2. CASE k # Len(q)
    <3>1. k \in 1 .. Len(q) - 1   BY <1>1, <2>2
    <3>2. Above(q[k], f) \/ Above(q[k], t)   BY <3>1 DEF Connects
    <3> QED BY <3>2, AboveFound
  <2> QED BY <2>1, <2>2
<1> DEFINE S == {n \in 0 .. Len(q) - 1 : w[n + 1] # {}}
<1>6. 0 \in S
  <2>1. 0 \in 0 .. Len(q) - 1 /\ 0 + 1 = 1 /\ 1 \in 1 .. Len(q) /\ 1 - 1 = 0   BY <1>1
  <2>2. w[1] = WalkStep(T, {}, {g}, q[1])   BY <1>3, <2>1
  <2> QED BY <1>w, <2>1, <2>2
<1>7. ASSUME NEW n \in 0 .. (Len(q) - 1) - 1, n \in S PROVE n + 1 \in S
  <2> DEFINE k == n + 1
  <2>1. k \in Nat /\ k \in 1 .. Len(q) /\ k + 1 \in 2 .. Len(q) /\ k + 1 \in 1 .. Len(q)
        /\ k + 1 - 1 = k /\ k \in 0 .. Len(q) - 1 /\ k \in 1 .. Len(q) - 1
    BY <1>1
  <2>2. w[k] # {}   BY <1>7
  <2> HIDE DEF k
  <2>3. Adjacent(q[k], q[k + 1])
    <3>1. \A i \in 2 .. Len(q) : Adjacent(q[i - 1], q[i])   BY DEF Connects
    <3> QED BY <2>1, <3>1
  <2>4. PICK h \in w[k] : h \in LeadsTo(T, q[k])   BY <1>4, <2>1, <2>2
  <2>5. ~Mute(T, h)
    <3>1. Above(q[k], f) \/ Above(q[k], t)   BY <2>1 DEF Connects
    <3> QED BY <2>4, <3>1, AboveFound
  <2>6. Found(T, h, q[k + 1]) # {}
    <3>1. LeadsTo(T, q[k + 1]) # {}   BY <1>5, <2>1
    <3>2. q[k] \in DOMAIN R /\ q[k + 1] \in DOMAIN R   BY <1>1, <2>1
    <3> QED BY <2>3, <2>4, <2>5, <3>1, <3>2, StepAdjacent
  <2>7. w[k + 1] = WalkStep(T, {}, w[k], q[k + 1])   BY <1>3, <2>1
  <2>8. w[k + 1] # {}   BY <2>4, <2>6, <2>7 DEF WalkStep
  <2> QED BY <2>1, <2>8 DEF k
<1>8. 0 .. Len(q) - 1 \subseteq S
  <2>1. Len(q) - 1 \in Nat   BY <1>1
  <2> HIDE DEF S
  <2> QED BY <1>6, <1>7, <2>1, UpTo
<1>9. Len(q) - 1 \in 0 .. Len(q) - 1 /\ Len(q) - 1 + 1 = Len(q)   BY <1>1
<1>10. Len(q) - 1 \in S
  <2> HIDE DEF S
  <2> QED BY <1>8, <1>9
<1> QED BY <1>2, <1>9, <1>10

\* The last file that is found.
LastFound(w, n, N) == n \in 0 .. N /\ w[n] # {} /\ \A m \in n + 1 .. N : w[m] = {}

LEMMA SomeLast ==
  ASSUME NEW w, NEW N \in Nat, w[0] # {}
  PROVE  LET n == CHOOSE n \in 0 .. N : w[n] # {} /\ \A m \in n + 1 .. N : w[m] = {}
         IN  LastFound(w, n, N)
<1> DEFINE C == {n \in 1 .. N : w[n] # {}}
<1>1. \E n \in 0 .. N : w[n] # {} /\ \A m \in n + 1 .. N : w[m] = {}
  <2>1. CASE C = {}
    <3>1. 0 \in 0 .. N /\ \A m \in 0 + 1 .. N : m \in 1 .. N   OBVIOUS
    <3>2. \A m \in 1 .. N : w[m] = {}   BY <2>1
    <3> QED BY <3>1, <3>2
  <2>2. CASE C # {}
    <3>1. C \in SUBSET (1 .. N)   OBVIOUS
    <3>2. PICK m \in C : \A j \in C : j <= m
      <4> HIDE DEF C
      <4> QED BY <2>2, <3>1, Largest
    <3>3. m \in 0 .. N /\ w[m] # {}   BY <3>2
    <3>4. ASSUME NEW j \in m + 1 .. N PROVE w[j] = {}
      <4>1. j \in 1 .. N /\ ~(j <= m)   BY <3>3
      <4> QED BY <3>2, <4>1
    <3> QED BY <3>3, <3>4
  <2> QED BY <2>1, <2>2
<1> QED BY <1>1 DEF LastFound

-----------------------------------------------------------------------------
(* What a command works on *)

Trees == UNION {[D -> {"df", "ef"}] : D \in SUBSET Path}

States(T) ==
  [sel : Path, adf : KnownApps \cup {None}, fcp : Path \cup {None}, at : Path, files : {T},
   tree : Trees, raised : BOOLEAN, lost : BOOLEAN]

TreeInv(R) ==
  /\ DOMAIN Profile \subseteq DOMAIN R
  /\ \A f \in DOMAIN R : IsADF(f) => f \in KnownApps
  /\ \A f \in DOMAIN R : Last(f) = NewFid => R[f] = "df"

CardInv(T) ==
  /\ CardOk(T)
  /\ KnownApps \subseteq DOMAIN T
  /\ \A f \in DOMAIN T : Last(f) = NewFid => T[f] = "df"

\* pySim is in an application without file system.
InMute(adf) == adf # None /\ adf[2] \in AppsWithoutFs

\* It then has that application selected, and knows that it is in it.
AdfInv(sel, adf) ==
  /\ InMute(adf) => sel = adf
  /\ IsADF(sel) /\ sel[2] \in AppsWithoutFs => adf = sel

Valid(st, T) ==
  /\ st \in States(T) /\ CardInv(T) /\ Knows(st.tree, T) /\ TreeInv(st.tree)
  /\ st.sel \in DOMAIN st.tree /\ st.at \in DOMAIN T /\ AdfInv(st.sel, st.adf)

Agree(st, T) == st.at \in LeadsTo(T, st.sel) /\ st.fcp \in {None, st.at} /\ ~st.lost

LEMMA ValidIs ==
  ASSUME NEW st, NEW T, Valid(st, T)
  PROVE  /\ st.sel \in Path /\ st.adf \in KnownApps \cup {None} /\ st.fcp \in Path \cup {None}
         /\ st.at \in Path /\ st.files = T /\ st.tree \in Trees /\ st.raised \in BOOLEAN
         /\ CardOk(T) /\ FileTree(T) /\ FileTree(st.tree) /\ DOMAIN st.tree \subseteq Path
         /\ DOMAIN T \subseteq Path /\ KnownApps \subseteq DOMAIN st.tree
         /\ st.sel \in DOMAIN st.tree /\ st.at \in DOMAIN T /\ Knows(st.tree, T)
<1>1. /\ st.sel \in Path /\ st.adf \in KnownApps \cup {None} /\ st.fcp \in Path \cup {None}
      /\ st.at \in Path /\ st.files = T /\ st.tree \in Trees /\ st.raised \in BOOLEAN
  BY DEF Valid, States
<1>2. CardOk(T) /\ FileTree(T) /\ FileTree(st.tree)   BY DEF Valid, CardInv, Knows, CardOk
<1>3. KnownApps \subseteq DOMAIN st.tree   BY DEF Valid, TreeInv, KnownApps
<1>4. st.sel \in DOMAIN st.tree /\ st.at \in DOMAIN T /\ Knows(st.tree, T)   BY DEF Valid
<1> QED BY <1>1, <1>2, <1>3, <1>4, TreeIs

\* An application is an ADF.
LEMMA AppIs ==
  ASSUME NEW T, CardInv(T), NEW R, Knows(R, T), NEW a \in KnownApps, a \in DOMAIN R
  PROVE  IsADF(a) /\ a \in DOMAIN T /\ a # None /\ LeadsTo(T, a) = {a}
<1>1. IsADF(a) /\ a \in DOMAIN T /\ a # None   BY RuntimeAssumption DEF KnownApps, CardInv
<1>2. a \in Path /\ CardOk(T) /\ MF \in DOMAIN T   BY TreeIs DEF Knows, CardOk
<1>3. Found(T, MF, a) = LeadsTo(T, a)   BY <1>1, <1>2, StepAnywhere
<1>4. Found(T, MF, a) = {a} \cap DOMAIN T   BY <1>1, <1>2, FoundIs
<1> QED BY <1>1, <1>3, <1>4

\* An ADF is all that leads to it.
LEMMA AtADF ==
  ASSUME NEW st, NEW T, Valid(st, T), Agree(st, T)
  PROVE  /\ IsADF(st.sel) => st.at = st.sel
         /\ Mute(T, st.at) => IsADF(st.sel) /\ st.sel[2] \in AppsWithoutFs /\ st.at = st.sel
<1>1. Knows(st.tree, T) /\ st.sel \in DOMAIN st.tree   BY ValidIs
<1> QED BY <1>1, LeadsAlike, MuteIs DEF Agree

\* Once nothing is found, nothing is found any more.
LEMMA WalkEnds ==
  ASSUME NEW T, CardOk(T), NEW no, NEW g \in DOMAIN T, NEW q \in Seq(Path),
         NEW k \in 0 .. Len(q), CardWalk(T, no, g, q)[k] = {}
  PROVE  \A m \in k .. Len(q) : CardWalk(T, no, g, q)[m] = {}
<1>1. PICK w : w = CardWalk(T, no, g, q)   OBVIOUS
<1>2. \A i \in 1 .. Len(q) : w[i] = WalkStep(T, no, w[i - 1], q[i])
  BY <1>1, WalkIs
<1>3. Len(q) \in Nat /\ k \in Nat /\ Len(q) - k \in Nat   BY LenProperties
<1> DEFINE S == {n \in 0 .. Len(q) - k : w[k + n] = {}}
<1>4. 0 \in S   BY <1>1, <1>3
<1>5. ASSUME NEW n \in 0 .. (Len(q) - k) - 1, n \in S PROVE n + 1 \in S
  <2>1. k + (n + 1) \in 1 .. Len(q) /\ k + (n + 1) - 1 = k + n /\ n + 1 \in 0 .. Len(q) - k
    BY <1>3
  <2>2. w[k + (n + 1)] = WalkStep(T, no, w[k + n], q[k + (n + 1)])   BY <1>2, <2>1
  <2>3. w[k + n] = {}   BY <1>5
  <2>4. w[k + (n + 1)] = {}   BY <2>2, <2>3 DEF WalkStep
  <2> QED BY <2>1, <2>4
<1>6. 0 .. Len(q) - k \subseteq S
  <2> HIDE DEF S
  <2> QED BY <1>3, <1>4, <1>5, UpTo
<1>7. ASSUME NEW m \in k .. Len(q) PROVE w[m] = {}
  <2>1. m - k \in 0 .. Len(q) - k /\ k + (m - k) = m   BY <1>3
  <2>2. m - k \in S   BY <1>6, <2>1
  <2> QED BY <2>1, <2>2
<1> QED BY <1>1, <1>7

LEMMA OneOfIs ==
  ASSUME NEW s, s # {}
  PROVE  OneOf(s) \in s
BY DEF OneOf

\* The file that GoTo ends at: the n-th of the path, or the one before if none was found.
EndsAt(st, q, n) == IF n = 0 THEN st.sel ELSE q[n]

GoneTo(st, r, q, w, n) ==
  /\ r.sel = EndsAt(st, q, n)
  /\ r.adf = IF IsADF(EndsAt(st, q, n)) THEN EndsAt(st, q, n) ELSE st.adf
  /\ r.fcp = IF n = 0 THEN st.fcp ELSE OneOf(w[n])
  /\ r.at = OneOf(w[n]) /\ r.files = st.files /\ r.tree = st.tree
  /\ r.raised <=> n < Len(q)
  /\ r.lost <=> st.lost /\ n = 0

LEMMA GoToIs ==
  ASSUME NEW st, NEW T, NEW t, NEW q, NEW w, Valid(st, T), t \in DOMAIN st.tree,
         q = build_select_path_to(st.sel, t), w = CardWalk(T, refused, st.at, q)
  PROVE  \E n : /\ LastFound(w, n, Len(q)) /\ n \in Nat
                /\ GoneTo(st, GoTo(st, t), q, w, n)
                /\ GoTo(st, t) \in States(T)
                /\ EndsAt(st, q, n) \in DOMAIN st.tree /\ OneOf(w[n]) \in w[n]
                /\ OneOf(w[n]) \in DOMAIN T
<1>1. /\ st.sel \in Path /\ st.adf \in KnownApps \cup {None} /\ st.fcp \in Path \cup {None}
      /\ st.at \in Path /\ st.files = T /\ st.tree \in Trees /\ st.raised \in BOOLEAN
      /\ CardOk(T) /\ FileTree(st.tree) /\ DOMAIN st.tree \subseteq Path /\ DOMAIN T \subseteq Path
      /\ st.sel \in DOMAIN st.tree /\ st.at \in DOMAIN T
  BY ValidIs
<1>2. /\ q \in Seq(DOMAIN st.tree) /\ Len(q) \in Nat /\ Len(q) >= 1 /\ q \in Seq(Path)
      /\ \A i \in 1 .. Len(q) : q[i] \in DOMAIN st.tree
  <2>1. Connects(st.tree, st.sel, t, q)   BY <1>1, PathConnects
  <2>2. q \in Seq(DOMAIN st.tree) /\ Len(q) \in Nat /\ Len(q) >= 1   BY <2>1 DEF Connects
  <2> QED BY <1>1, <2>2, LenProperties, SeqMonotonic
<1>3. w[0] = {st.at} /\ w \in [0 .. Len(q) -> SUBSET DOMAIN T]
  <2>1. q \in Seq(Path)   BY <1>2
  <2> QED BY <1>1, <2>1, WalkIs
<1> DEFINE n == CHOOSE n \in 0 .. Len(q) : w[n] # {} /\ \A m \in n + 1 .. Len(q) : w[m] = {}
<1>4. LastFound(w, n, Len(q))
  <2>1. w[0] # {} /\ Len(q) \in Nat   BY <1>2, <1>3
  <2> HIDE DEF n
  <2> QED BY <2>1, SomeLast DEF n
<1>5. GoTo(st, t) = Reached(st, q, w, n)   BY <1>1 DEF GoTo
<1> HIDE DEF n
<1>6. n \in 0 .. Len(q) /\ n \in Nat /\ w[n] # {}   BY <1>2, <1>4 DEF LastFound
<1>7. OneOf(w[n]) \in w[n] /\ OneOf(w[n]) \in DOMAIN T   BY <1>3, <1>6, OneOfIs
<1> DEFINE e == EndsAt(st, q, n)
<1>8. e \in DOMAIN st.tree
  <2>1. n # 0 => n \in 1 .. Len(q)   BY <1>2, <1>6
  <2> QED BY <1>1, <1>2, <2>1 DEF EndsAt
<1>9. (IF IsADF(e) THEN e ELSE st.adf) \in KnownApps \cup {None}
  <2>1. IsADF(e) => e \in KnownApps   BY <1>8 DEF Valid, TreeInv
  <2> QED BY <1>1, <2>1
<1> DEFINE r == [sel |-> e, adf |-> IF IsADF(e) THEN e ELSE st.adf,
                 fcp |-> IF n = 0 THEN st.fcp ELSE OneOf(w[n]),
                 at |-> OneOf(w[n]), files |-> T, tree |-> st.tree, raised |-> n < Len(q),
                 lost |-> st.lost /\ n = 0]
<1>10. GoTo(st, t) = r
  <2>1. st = [sel |-> st.sel, adf |-> st.adf, fcp |-> st.fcp, at |-> st.at, files |-> st.files,
              tree |-> st.tree, raised |-> st.raised, lost |-> st.lost]
    BY DEF Valid, States
  <2> QED BY <1>1, <1>5, <2>1 DEF Reached, _select_post, EndsAt
<1>11. r \in States(T)
  <2>1. OneOf(w[n]) \in Path /\ e \in Path   BY <1>1, <1>7, <1>8
  <2>2. (n < Len(q)) \in BOOLEAN /\ (st.lost /\ n = 0) \in BOOLEAN   BY <1>2, <1>6
  <2> HIDE DEF e
  <2> QED BY <1>1, <1>9, <2>1, <2>2 DEF States
<1>12. GoneTo(st, r, q, w, n)   BY <1>1 DEF GoneTo
<1> QED BY <1>4, <1>6, <1>7, <1>8, <1>10, <1>11, <1>12

-----------------------------------------------------------------------------
(* select_file *)

Nearby(st, T, t) ==
  LET p == build_select_path_to(st.sel, t)[1] IN
  WalkStep(T, refused, {st.at}, p) # {} /\ WalkStep(T, refused, {st.at}, p) \subseteq LeadsTo(T, p)

\* pySim and the card agree, or they will with the first SELECT.
Starts(st, T, t) == Agree(st, T) \/ (Nearby(st, T, t) /\ (InMute(st.adf) => IsADF(t)))

WayTo(st, t, q) ==
  /\ Connects(st.tree, st.sel, t, q) /\ q \in Seq(DOMAIN st.tree) /\ q \in Seq(Path)
  /\ Len(q) \in Nat /\ Len(q) >= 1 /\ q[Len(q)] = t /\ Adjacent(st.sel, q[1])
  /\ \A i \in 1 .. Len(q) : q[i] \in DOMAIN st.tree
  /\ \A i \in 2 .. Len(q) : ~IsADF(q[i])
  /\ IsADF(t) => Len(q) = 1 /\ q[1] = t

LEMMA PathIsOk ==
  ASSUME NEW st, NEW T, NEW t, NEW q, Valid(st, T), t \in DOMAIN st.tree,
         q = build_select_path_to(st.sel, t)
  PROVE  WayTo(st, t, q)
<1>1. FileTree(st.tree) /\ st.sel \in DOMAIN st.tree /\ DOMAIN st.tree \subseteq Path   BY ValidIs
<1>2. Connects(st.tree, st.sel, t, q) /\ \A i \in 2 .. Len(q) : ~IsADF(q[i])
  BY <1>1, PathConnects
<1>3. q \in Seq(DOMAIN st.tree) /\ Len(q) \in Nat /\ Len(q) >= 1 /\ q[Len(q)] = t /\ Adjacent(st.sel, q[1])
  BY <1>2 DEF Connects
<1>4. q \in Seq(Path) /\ \A i \in 1 .. Len(q) : q[i] \in DOMAIN st.tree
  BY <1>1, <1>3, LenProperties, SeqMonotonic
<1>5. ASSUME IsADF(t) PROVE Len(q) = 1 /\ q[1] = t
  <2>1. PICK l \in Nat : l = Len(q) /\ l >= 1   BY <1>3
  <2>3. l \notin 2 .. l   BY <1>2, <1>3, <1>5, <2>1
  <2>5. l \in Nat /\ l >= 1   BY <2>1
  <2>4. l = 1   BY <2>3, <2>5
  <2>2. Len(q) = 1   BY <2>1, <2>4
  <2> QED BY <1>3, <2>2
<1> QED BY <1>2, <1>3, <1>4, <1>5 DEF WayTo

\* What the walk finds is where the path leads to.
Followed(st, T, q, w) ==
  /\ \A k \in 1 .. Len(q) : w[k] \subseteq LeadsTo(T, q[k])
  /\ Agree(st, T) \/ w[1] # {}
  /\ w[0] = {st.at}
  /\ \A k \in 1 .. Len(q) : w[k] = WalkStep(T, refused, w[k - 1], q[k])

LEMMA GoesOn ==
  ASSUME NEW st, NEW T, NEW t, NEW q, NEW w, Valid(st, T), t \in DOMAIN st.tree,
         Starts(st, T, t), q = build_select_path_to(st.sel, t),
         w = CardWalk(T, refused, st.at, q)
  PROVE  Followed(st, T, q, w)
<1>1. /\ Knows(st.tree, T) /\ CardOk(T) /\ st.at \in DOMAIN T /\ st.sel \in DOMAIN st.tree
  BY ValidIs
<1>2. /\ Connects(st.tree, st.sel, t, q) /\ q \in Seq(Path) /\ Len(q) \in Nat /\ Len(q) >= 1
      /\ Adjacent(st.sel, q[1]) /\ \A i \in 1 .. Len(q) : q[i] \in DOMAIN st.tree
  BY PathIsOk DEF WayTo
<1>3. WalkStep(T, refused, {st.at}, q[1]) \subseteq LeadsTo(T, q[1])
  <2>1. CASE Agree(st, T)
    <3>1. st.at \in LeadsTo(T, st.sel) /\ q[1] \in DOMAIN st.tree   BY <1>2, <2>1 DEF Agree
    <3>2. Found(T, st.at, q[1]) \subseteq LeadsTo(T, q[1])   BY <1>1, <1>2, <3>1, StepAdjacent
    <3> QED BY <3>2 DEF WalkStep
  <2>2. CASE Nearby(st, T, t)   BY <2>2 DEF Nearby
  <2> QED BY <2>1, <2>2 DEF Starts
<1>4. \A k \in 1 .. Len(q) : w[k] \subseteq LeadsTo(T, q[k])   BY <1>1, <1>2, <1>3, WalkLeads
<1>5. /\ w[0] = {st.at}
      /\ \A k \in 1 .. Len(q) : w[k] = WalkStep(T, refused, w[k - 1], q[k])
  BY <1>1, <1>2, WalkIs
<1>6. Agree(st, T) \/ w[1] # {}
  <2>1. 1 \in 1 .. Len(q) /\ 1 - 1 = 0   BY <1>2
  <2>2. w[1] = WalkStep(T, refused, {st.at}, q[1])   BY <1>5, <2>1
  <2> QED BY <2>2 DEF Starts, Nearby
<1> QED BY <1>4, <1>5, <1>6 DEF Followed

LEMMA GoToAgrees ==
  ASSUME NEW st, NEW T, Valid(st, T), NEW t \in DOMAIN st.tree, ~Trapped(st, t), Starts(st, T, t)
  PROVE  /\ Valid(GoTo(st, t), T) /\ Agree(GoTo(st, t), T)
         /\ GoTo(st, t).tree = st.tree
         /\ ~GoTo(st, t).raised => GoTo(st, t).sel = t
<1>1. PICK q : q = build_select_path_to(st.sel, t)   OBVIOUS
<1>2. PICK w : w = CardWalk(T, refused, st.at, q)   OBVIOUS
<1>3. /\ Knows(st.tree, T) /\ CardOk(T) /\ st.at \in DOMAIN T /\ st.sel \in DOMAIN st.tree
      /\ DOMAIN st.tree \subseteq Path /\ FileTree(st.tree)
      /\ st.adf \in KnownApps \cup {None}
  BY ValidIs
<1>4. /\ q \in Seq(Path) /\ Len(q) \in Nat /\ Len(q) >= 1 /\ q[Len(q)] = t
      /\ \A i \in 1 .. Len(q) : q[i] \in DOMAIN st.tree
      /\ \A i \in 2 .. Len(q) : ~IsADF(q[i])
      /\ IsADF(t) => Len(q) = 1 /\ q[1] = t
  <2>1. WayTo(st, t, q)   BY <1>1, PathIsOk
  <2> QED BY <2>1 DEF WayTo
<1>5. /\ \A k \in 1 .. Len(q) : w[k] \subseteq LeadsTo(T, q[k])
      /\ Agree(st, T) \/ w[1] # {}
      /\ w[0] = {st.at}
      /\ \A k \in 1 .. Len(q) : w[k] = WalkStep(T, refused, w[k - 1], q[k])
  <2>1. Followed(st, T, q, w)   BY <1>1, <1>2, GoesOn
  <2> QED BY <2>1 DEF Followed
<1>6. PICK r : r = GoTo(st, t)   OBVIOUS
<1>7. PICK n : /\ LastFound(w, n, Len(q)) /\ n \in Nat
               /\ GoneTo(st, r, q, w, n) /\ r \in States(T)
               /\ EndsAt(st, q, n) \in DOMAIN st.tree /\ OneOf(w[n]) \in w[n]
               /\ OneOf(w[n]) \in DOMAIN T
  BY <1>1, <1>2, <1>6, GoToIs
<1>8. n \in 0 .. Len(q) /\ w[n] # {} /\ \A m \in n + 1 .. Len(q) : w[m] = {}
  BY <1>7 DEF LastFound
<1>9. n # 0 => n \in 1 .. Len(q)   BY <1>4, <1>7, <1>8
<1>10. /\ r.sel = EndsAt(st, q, n)
       /\ r.adf = IF IsADF(r.sel) THEN r.sel ELSE st.adf
       /\ r.fcp = IF n = 0 THEN st.fcp ELSE OneOf(w[n])
       /\ r.at = OneOf(w[n]) /\ r.tree = st.tree
       /\ r.raised <=> n < Len(q)
       /\ r.lost <=> st.lost /\ n = 0
  BY <1>7 DEF GoneTo
<1>11. n = 0 => r.sel = st.sel /\ r.at = st.at /\ Agree(st, T)
  <2>1. n = 0 => 1 \in n + 1 .. Len(q)   BY <1>4
  <2>2. n = 0 => w[1] = {}   BY <1>8, <2>1
  <2>3. n = 0 => r.at \in {st.at}   BY <1>5, <1>7, <1>10
  <2> QED BY <1>5, <1>10, <2>2, <2>3 DEF EndsAt
<1>12. n # 0 => r.sel = q[n] /\ r.at \in LeadsTo(T, q[n])
  <2>1. n # 0 => w[n] \subseteq LeadsTo(T, q[n])   BY <1>5, <1>9
  <2> QED BY <1>7, <1>10, <2>1 DEF EndsAt
<1>13. Agree(r, T)
  <2>1. CASE n = 0   BY <1>10, <1>11, <2>1 DEF Agree
  <2>2. CASE n # 0   BY <1>10, <1>12, <2>2 DEF Agree
  <2> QED BY <2>1, <2>2
<1>14. AdfInv(r.sel, r.adf)
  <2>0. AdfInv(st.sel, st.adf)   BY DEF Valid
  <2>1. CASE IsADF(r.sel)   BY <1>10, <2>1 DEF AdfInv
  <2>2. CASE ~IsADF(r.sel)
    <3> SUFFICES ASSUME InMute(st.adf) PROVE FALSE   BY <1>10, <2>2 DEF AdfInv
    <3>1. st.sel = st.adf /\ st.adf # None /\ st.adf[2] \in AppsWithoutFs /\ st.adf \in KnownApps
      BY <1>3, <2>0 DEF AdfInv, InMute
    <3>2. IsADF(st.sel) /\ st.sel[2] \in AppsWithoutFs   BY <3>1 DEF KnownApps
    <3>3. n # 0   BY <1>11, <2>2, <3>2
    <3>4. n \in 1 .. Len(q) /\ r.sel = q[n]   BY <1>9, <1>12, <3>3
    <3>5. CASE IsADF(t)
      <4>0. Len(q) = 1   BY <1>4, <3>5
      <4>2. \A i \in 1 .. 1 : i = 1   OBVIOUS
      <4>1. n = 1   BY <3>4, <4>0, <4>2
      <4> QED BY <1>4, <2>2, <3>4, <3>5, <4>1
    <3>6. CASE ~IsADF(t)
      <4>1. Agree(st, T) /\ AppsWithFs = {}   BY <3>1, <3>6 DEF Starts, Trapped
      <4>2. st.at = st.sel   BY <3>2, <4>1, AtADF
      <4>3. Mute(T, st.at)
        <5>1. T[st.at] = "df"   BY <1>3, <3>2, <4>2, TreeIs DEF CardOk
        <5>2. CardDf(T, st.at) = st.at   BY <1>3, <5>1, CardDfIs DEF CardOk
        <5> QED BY <3>2, <4>2, <5>2 DEF Mute
      <4>4. w[1] = WalkStep(T, refused, {st.at}, q[1]) /\ q[1] \in DOMAIN st.tree
        <5>1. 1 \in 1 .. Len(q) /\ 1 - 1 = 0   BY <1>4
        <5>2. w[1] = WalkStep(T, refused, w[1 - 1], q[1])   BY <1>5, <5>1
        <5> QED BY <1>4, <1>5, <5>1, <5>2
      <4>5. CASE ~IsADF(q[1])
        <5>1. Found(T, st.at, q[1]) = {}   BY <1>3, <4>3, <4>4, <4>5, StepAnywhere
        <5>2. w[1] = {}   BY <4>4, <5>1 DEF WalkStep
        <5>3. 1 \in 0 .. Len(q) /\ n \in 1 .. Len(q)   BY <1>4, <3>4
        <5>4. w[n] = {}   BY <1>2, <1>3, <1>4, <5>2, <5>3, WalkEnds
        <5> QED BY <1>8, <5>4
      <4>6. CASE IsADF(q[1])
        <5>1. q[1] \in KnownApps   BY <4>4, <4>6 DEF Valid, TreeInv
        <5>2. q[1][2] \in AppsWithoutFs   BY <4>1, <5>1 DEF AppsWithFs
        <5>3. n # 1   BY <2>2, <3>4, <4>6
        <5>4. 2 \in 1 .. Len(q) /\ 2 \in 2 .. Len(q) /\ 2 - 1 = 1 /\ 1 \in 1 .. Len(q) /\ n \in 2 .. Len(q)
              /\ 2 \in 0 .. Len(q)
          BY <1>4, <3>4, <5>3
        <5>5. w[2] = WalkStep(T, refused, w[1], q[2]) /\ q[2] \in DOMAIN st.tree /\ ~IsADF(q[2])
          BY <1>4, <1>5, <5>4
        <5>6. ASSUME NEW h \in w[1] PROVE Found(T, h, q[2]) = {}
          <6>1. h \in LeadsTo(T, q[1])   BY <1>5, <5>4
          <6>2. h = q[1] /\ h \in DOMAIN T   BY <1>3, <4>4, <4>6, <6>1, LeadsAlike
          <6>3. T[h] = "df"   BY <1>3, <4>6, <6>2, TreeIs DEF CardOk
          <6>4. CardDf(T, h) = h   BY <1>3, <6>2, <6>3, CardDfIs DEF CardOk
          <6>5. Mute(T, h)   BY <4>6, <5>2, <6>2, <6>4 DEF Mute
          <6> QED BY <1>3, <5>5, <6>2, <6>5, StepAnywhere
        <5>7. w[2] = {}   BY <5>5, <5>6 DEF WalkStep
        <5>8. w[n] = {}   BY <1>2, <1>3, <1>4, <5>4, <5>7, WalkEnds
        <5> QED BY <1>8, <5>8
      <4> QED BY <4>5, <4>6
    <3> QED BY <3>5, <3>6
  <2> QED BY <2>1, <2>2
<1>15. Valid(r, T)
  <2>1. CardInv(T) /\ Knows(st.tree, T) /\ TreeInv(st.tree)   BY DEF Valid
  <2> QED BY <1>7, <1>10, <1>14, <2>1 DEF Valid
<1>16. ~r.raised => r.sel = t
  <2>1. ~r.raised => n = Len(q)   BY <1>4, <1>8, <1>10
  <2> QED BY <1>4, <1>12, <2>1
<1> QED BY <1>6, <1>10, <1>13, <1>15, <1>16

\* If the card refuses nothing, it arrives.
LEMMA GoToArrives ==
  ASSUME NEW st, NEW T, Valid(st, T), NEW t \in DOMAIN st.tree, refused = {}, Starts(st, T, t),
         LeadsTo(T, st.sel) # {}, LeadsTo(T, t) # {},
         Nearby(st, T, t) \/ ~Mute(T, st.at) \/ IsADF(t)
  PROVE  ~GoTo(st, t).raised
<1>1. PICK q : q = build_select_path_to(st.sel, t)   OBVIOUS
<1>2. PICK w : w = CardWalk(T, refused, st.at, q)   OBVIOUS
<1>3. /\ Knows(st.tree, T) /\ CardOk(T) /\ st.at \in DOMAIN T /\ st.sel \in DOMAIN st.tree
  BY ValidIs
<1>4. /\ Connects(st.tree, st.sel, t, q) /\ Len(q) \in Nat /\ Len(q) >= 1 /\ q[Len(q)] = t
      /\ \A i \in 1 .. Len(q) : q[i] \in DOMAIN st.tree
      /\ IsADF(t) => Len(q) = 1 /\ q[1] = t
      /\ Adjacent(st.sel, q[1])
  <2>1. WayTo(st, t, q)   BY <1>1, PathIsOk
  <2> QED BY <2>1 DEF WayTo
<1>5. /\ \A k \in 1 .. Len(q) : w[k] \subseteq LeadsTo(T, q[k])
      /\ w[0] = {st.at}
      /\ \A k \in 1 .. Len(q) : w[k] = WalkStep(T, refused, w[k - 1], q[k])
  <2>1. Followed(st, T, q, w)   BY <1>1, <1>2, GoesOn
  <2> QED BY <2>1 DEF Followed
<1>6. w[1] = Found(T, st.at, q[1]) /\ w[1] \subseteq LeadsTo(T, q[1])
  <2>1. 1 \in 1 .. Len(q) /\ 1 - 1 = 0   BY <1>4
  <2>2. w[1] = WalkStep(T, refused, w[1 - 1], q[1]) /\ w[1] \subseteq LeadsTo(T, q[1])   BY <1>5, <2>1
  <2> QED BY <1>5, <2>1, <2>2 DEF WalkStep
<1>7. Found(T, st.at, q[1]) # {}
  <2>1. CASE Nearby(st, T, t)   BY <1>1, <2>1 DEF Nearby, WalkStep
  <2>2. CASE ~Nearby(st, T, t)
    <3>1. st.at \in LeadsTo(T, st.sel)   BY <2>2 DEF Starts, Agree
    <3>2. LeadsTo(T, q[1]) # {}
      <4>1. CASE Len(q) = 1   BY <1>4, <4>1
      <4>2. CASE Len(q) # 1
        <5>0. PICK l \in Nat : l = Len(q) /\ l >= 1 /\ l # 1   BY <1>4, <4>2
        <5>3. 1 \in 1 .. l - 1   BY <5>0
        <5>1. 1 \in 1 .. Len(q) - 1   BY <5>0, <5>3
        <5>2. Above(q[1], st.sel) \/ Above(q[1], t)   BY <1>4, <5>1 DEF Connects
        <5> QED BY <1>3, <5>2, AboveFound
      <4> QED BY <4>1, <4>2
    <3>3. ~(q[1] = MF /\ Mute(T, st.at))   BY <1>4, <2>2, MFIs
    <3>4. q[1] \in DOMAIN st.tree
      <4>1. 1 \in 1 .. Len(q)   BY <1>4
      <4> QED BY <1>4, <4>1
    <3> QED BY <1>3, <1>4, <3>1, <3>2, <3>3, <3>4, StepAdjacent
  <2> QED BY <2>1, <2>2
<1>8. w[Len(q)] # {}   BY <1>2, <1>3, <1>4, <1>6, <1>7, WalkArrives
<1>9. PICK r : r = GoTo(st, t)   OBVIOUS
<1>10. PICK n : LastFound(w, n, Len(q)) /\ n \in Nat /\ GoneTo(st, r, q, w, n)
  BY <1>1, <1>2, <1>9, GoToIs
<1>11. n = Len(q)
  <2>1. n \in 0 .. Len(q) /\ \A m \in n + 1 .. Len(q) : w[m] = {}   BY <1>10 DEF LastFound
  <2>2. Len(q) \notin n + 1 .. Len(q)   BY <1>8, <2>1
  <2> QED BY <1>4, <2>1, <2>2
<1>12. ~r.raised
  <2>1. r.raised <=> n < Len(q)   BY <1>10 DEF GoneTo
  <2> QED BY <1>4, <1>11, <2>1
<1> QED BY <1>9, <1>12

Settled(r, T, R) == Valid(r, T) /\ Agree(r, T) /\ r.tree = R

\* The raised of a state alone is changed.
SameBut(r, st, b) ==
  /\ r.sel = st.sel /\ r.adf = st.adf /\ r.fcp = st.fcp /\ r.at = st.at /\ r.files = st.files
  /\ r.tree = st.tree /\ r.raised = b /\ r.lost = st.lost

LEMMA SetRaised ==
  ASSUME NEW st, NEW T, NEW b, st \in States(T), b \in BOOLEAN
  PROVE  SameBut([st EXCEPT !.raised = b], st, b) /\ [st EXCEPT !.raised = b] \in States(T)
<1>1. [st EXCEPT !.raised = b] \in States(T)   BY DEF States
<1>2. SameBut([st EXCEPT !.raised = b], st, b)   BY DEF States, SameBut
<1> QED BY <1>1, <1>2

LEMMA SameIs ==
  ASSUME NEW r, NEW st, NEW T, NEW b, SameBut(r, st, b), r \in States(T)
  PROVE  /\ Valid(st, T) => Valid(r, T)
         /\ Agree(st, T) => Agree(r, T)
         /\ \A t : Trapped(r, t) <=> Trapped(st, t)
BY DEF SameBut, Valid, Agree, Trapped

LEMMA SetRaisedIs ==
  ASSUME NEW st, NEW T, NEW b, Valid(st, T), b \in BOOLEAN
  PROVE  /\ SameBut([st EXCEPT !.raised = b], st, b) /\ Valid([st EXCEPT !.raised = b], T)
         /\ Agree(st, T) => Agree([st EXCEPT !.raised = b], T)
         /\ \A t : Trapped([st EXCEPT !.raised = b], t) <=> Trapped(st, t)
<1>1. st \in States(T)   BY DEF Valid
<1>2. PICK r : r = [st EXCEPT !.raised = b]   OBVIOUS
<1>3. SameBut(r, st, b) /\ r \in States(T)   BY <1>1, <1>2, SetRaised
<1>4. Valid(r, T) /\ (Agree(st, T) => Agree(r, T)) /\ \A t : Trapped(r, t) <=> Trapped(st, t)
  BY <1>3, SameIs
<1> QED BY <1>2, <1>3, <1>4

\* The application by which pySim escapes.
LEMMA EscapeIs ==
  ASSUME NEW st, NEW T, NEW t, Valid(st, T), Trapped(st, t)
  PROVE  /\ OneOf(AppsWithFs) \in KnownApps /\ OneOf(AppsWithFs)[2] \notin AppsWithoutFs
         /\ OneOf(AppsWithFs) \in DOMAIN st.tree /\ IsADF(OneOf(AppsWithFs))
         /\ IsADF(st.sel) /\ st.sel = st.adf /\ st.sel[2] \in AppsWithoutFs
         /\ OneOf(AppsWithFs) # st.sel /\ ~IsADF(t)
<1>1. OneOf(AppsWithFs) \in AppsWithFs   BY OneOfIs DEF Trapped
<1>2. /\ OneOf(AppsWithFs) \in KnownApps /\ OneOf(AppsWithFs)[2] \notin AppsWithoutFs
      /\ OneOf(AppsWithFs) \in DOMAIN st.tree /\ IsADF(OneOf(AppsWithFs))
  BY <1>1, ValidIs DEF AppsWithFs, KnownApps
<1>3. st.sel = st.adf /\ st.adf \in KnownApps /\ st.adf[2] \in AppsWithoutFs /\ ~IsADF(t)
  BY ValidIs DEF Trapped, Valid, AdfInv, InMute
<1> QED BY <1>2, <1>3 DEF KnownApps

LEMMA SelectFileAgrees ==
  ASSUME NEW st, NEW T, NEW t, Valid(st, T), Agree(st, T), t \in DOMAIN st.tree
  PROVE  /\ Settled(select_file(st, t), T, st.tree)
         /\ ~select_file(st, t).raised => select_file(st, t).sel = t
<1>1. CASE Trapped(st, t)
  <2>1. PICK a : a = OneOf(AppsWithFs)   OBVIOUS
  <2>2. /\ a \in DOMAIN st.tree /\ IsADF(a) /\ a[2] \notin AppsWithoutFs
        /\ IsADF(st.sel) /\ st.sel \in DOMAIN st.tree
    BY <1>1, <2>1, EscapeIs, ValidIs
  <2>3. PICK x : x = GoTo(st, a)   OBVIOUS
  <2>4. Valid(x, T) /\ Agree(x, T) /\ x.tree = st.tree /\ (~x.raised => x.sel = a)
    <3>1. ~Trapped(st, a) /\ Starts(st, T, a)   BY <2>2 DEF Trapped, Starts
    <3> QED BY <2>2, <2>3, <3>1, GoToAgrees
  <2>5. select_file(st, t) = GoOnTo(OrBackTo(x, st.sel), t)
    BY <1>1, <2>1, <2>3 DEF select_file, EscapeApp
  <2>6. CASE x.raised
    <3>1. PICK y : y = GoTo(x, st.sel)   OBVIOUS
    <3>2. Valid(y, T) /\ Agree(y, T) /\ y.tree = st.tree
      <4>1. ~Trapped(x, st.sel) /\ Starts(x, T, st.sel)   BY <2>2, <2>4 DEF Trapped, Starts
      <4> QED BY <2>2, <2>4, <3>1, <4>1, GoToAgrees
    <3>3. PICK z : z = [y EXCEPT !.raised = TRUE]   OBVIOUS
    <3>4. SameBut(z, y, TRUE) /\ Valid(z, T) /\ Agree(z, T)   BY <3>2, <3>3, SetRaisedIs
    <3>5. select_file(st, t) = z   BY <2>5, <2>6, <3>1, <3>3, <3>4 DEF GoOnTo, OrBackTo, SameBut
    <3> QED BY <3>2, <3>4, <3>5 DEF Settled, SameBut
  <2>7. CASE ~x.raised
    <3>1. select_file(st, t) = GoTo(x, t)   BY <2>5, <2>7 DEF GoOnTo, OrBackTo
    <3>2. ~Trapped(x, t)
      <4>1. AdfInv(x.sel, x.adf) /\ x.sel = a   BY <2>4, <2>7 DEF Valid
      <4> QED BY <2>2, <4>1 DEF AdfInv, InMute, Trapped
    <3>3. Starts(x, T, t)   BY <2>4 DEF Starts
    <3> QED BY <2>4, <3>1, <3>2, <3>3, GoToAgrees DEF Settled
  <2> QED BY <2>6, <2>7
<1>2. CASE ~Trapped(st, t)
  <2>1. PICK y : y = [st EXCEPT !.raised = FALSE]   OBVIOUS
  <2>2. SameBut(y, st, FALSE) /\ Valid(y, T) /\ Agree(y, T) /\ ~Trapped(y, t)
    BY <1>2, <2>1, SetRaisedIs
  <2>3. y.tree = st.tree /\ ~y.raised   BY <2>2 DEF SameBut
  <2>4. select_file(st, t) = GoTo(y, t)
    BY <1>2, <2>1, <2>3 DEF select_file, EscapeApp, GoOnTo
  <2>5. Starts(y, T, t)   BY <2>2 DEF Starts
  <2> QED BY <2>2, <2>3, <2>4, <2>5, GoToAgrees DEF Settled
<1> QED BY <1>1, <1>2

\* Not trapped, the card can follow the path to t.
LEMMA FreeToGo ==
  ASSUME NEW st, NEW T, NEW t, Valid(st, T), Agree(st, T), AppsAssured, ~Trapped(st, t)
  PROVE  ~Mute(T, st.at) \/ IsADF(t)
<1> SUFFICES ASSUME Mute(T, st.at), ~IsADF(t) PROVE FALSE   OBVIOUS
<1>1. IsADF(st.sel) /\ st.sel[2] \in AppsWithoutFs   BY AtADF
<1>2. st.adf = st.sel   BY <1>1 DEF Valid, AdfInv
<1>3. st.sel \in KnownApps   BY <1>1 DEF Valid, TreeInv
<1>4. AppsWithFs # {} /\ st.adf # None   BY <1>1, <1>2, <1>3, RuntimeAssumption DEF AppsAssured
<1> QED BY <1>1, <1>2, <1>4 DEF Trapped

LEMMA SelectFileArrives ==
  ASSUME NEW st, NEW T, NEW t, Valid(st, T), Agree(st, T), t \in DOMAIN st.tree,
         refused = {}, AppsAssured, LeadsTo(T, t) # {}
  PROVE  ~select_file(st, t).raised
<1>0. LeadsTo(T, st.sel) # {}   BY DEF Agree
<1>1. CASE Trapped(st, t)
  <2>1. PICK a : a = OneOf(AppsWithFs)   OBVIOUS
  <2>2. /\ a \in DOMAIN st.tree /\ IsADF(a) /\ a[2] \notin AppsWithoutFs /\ a \in KnownApps
    BY <1>1, <2>1, EscapeIs, ValidIs
  <2>3. PICK x : x = GoTo(st, a)   OBVIOUS
  <2>4. ~Trapped(st, a) /\ Starts(st, T, a)   BY <2>2 DEF Trapped, Starts
  <2>5. Valid(x, T) /\ Agree(x, T) /\ x.tree = st.tree /\ (~x.raised => x.sel = a)
    BY <2>2, <2>3, <2>4, GoToAgrees
  <2>6. LeadsTo(T, a) # {}
    <3>1. CardInv(T) /\ Knows(st.tree, T)   BY DEF Valid
    <3> QED BY <2>2, <3>1, AppIs
  <2>7. ~x.raised   BY <1>0, <2>2, <2>3, <2>4, <2>6, GoToArrives
  <2>8. select_file(st, t) = GoTo(x, t)
    BY <1>1, <2>1, <2>3, <2>7 DEF select_file, EscapeApp, GoOnTo, OrBackTo
  <2>9. ~Mute(T, x.at)
    <3>1. x.sel = a   BY <2>5, <2>7
    <3> QED BY <2>2, <2>5, <3>1, AtADF
  <2>10. Starts(x, T, t) /\ LeadsTo(T, x.sel) # {}   BY <2>5 DEF Starts, Agree
  <2> QED BY <2>5, <2>8, <2>9, <2>10, GoToArrives
<1>2. CASE ~Trapped(st, t)
  <2>1. PICK y : y = [st EXCEPT !.raised = FALSE]   OBVIOUS
  <2>2. SameBut(y, st, FALSE) /\ Valid(y, T) /\ Agree(y, T) /\ ~Trapped(y, t)
    BY <1>2, <2>1, SetRaisedIs
  <2>3. y.tree = st.tree /\ ~y.raised /\ y.sel = st.sel   BY <2>2 DEF SameBut
  <2>4. select_file(st, t) = GoTo(y, t)
    BY <1>2, <2>1, <2>3 DEF select_file, EscapeApp, GoOnTo
  <2>5. Starts(y, T, t)   BY <2>2 DEF Starts
  <2>6. ~Mute(T, y.at) \/ IsADF(t)   BY <2>2, FreeToGo
  <2> QED BY <1>0, <2>2, <2>3, <2>4, <2>5, <2>6, GoToArrives
<1> QED BY <1>1, <1>2

\* Back to the selected file: by its DF.
LEMMA PathBack ==
  ASSUME NEW f \in Path, ~IsADF(f)
  PROVE  build_select_path_to(f, f)[1] = Parent(f)
<1>1. CASE f = MF   BY <1>1, MFIs DEF build_select_path_to
<1>2. CASE f # MF
  <2>1. Len(f) > 1 /\ Parent(f) = Front(f) /\ Len(f) \in Nat /\ Front(f) = Prefix(f, Len(f) - 1)
    BY <1>2, MFIs, FrontIs, PathIs
  <2>2. PICK c : IsCommon(f, f, c) /\ build_select_path_to(f, f) = clip_path(UpDown(f, f, c))
    BY <1>2, PathParts
  <2>3. c = Len(f) - 1
    <3>1. c \in Nat /\ c < Len(f) /\ \A j \in c + 1 .. Len(f) : j >= Len(f)
      BY <2>1, <2>2 DEF IsCommon
    <3>2. PICK l \in Nat : l = Len(f) /\ l > 1   BY <2>1
    <3>3. c < l /\ \A j \in c + 1 .. l : j >= l   BY <3>1, <3>2
    <3>4. l \in Nat /\ c \in Nat   BY <3>1
    <3>5. c + 1 \in c + 1 .. l   BY <3>3, <3>4
    <3>6. c + 1 >= l   BY <3>3, <3>5
    <3>7. c = l - 1   BY <3>3, <3>4, <3>6
    <3> QED BY <3>2, <3>7
  <2>4. PICK q : q = UpDown(f, f, c)   OBVIOUS
  <2>5. /\ q \in Seq(Path) /\ Len(q) = Len(f) - c + (Len(f) - c)
        /\ \A i \in 1 .. Len(f) - c : q[i] = Prefix(f, Len(f) - i)
        /\ \A i \in Len(f) - c + 1 .. Len(f) - c + (Len(f) - c) :
             q[i] = Prefix(f, c + (i - (Len(f) - c)))
    BY <2>2, <2>4, UpDownIs
  <2>6. Len(f) - c = 1   BY <2>1, <2>3
  <2>7. Len(q) = 2 /\ q[1] = Front(f) /\ q[2] = f
    <3>1. Len(q) = 1 + 1   BY <2>5, <2>6
    <3>2. 1 \in 1 .. 1 /\ 2 \in 1 + 1 .. 1 + 1   OBVIOUS
    <3>3. q[1] = Prefix(f, Len(f) - 1)   BY <2>5, <2>6, <3>2
    <3>4. q[2] = Prefix(f, c + (2 - 1))   BY <2>5, <2>6, <3>2
    <3>5. c + (2 - 1) = Len(f)   BY <2>1, <2>3
    <3>6. Prefix(f, Len(f)) = f   BY WholePrefix
    <3> QED BY <2>1, <3>1, <3>3, <3>4, <3>5, <3>6
  <2>8. clip_path(q)[1] = q[1]
    <3> DEFINE A == {i \in 1 .. Len(q) : IsADF(q[i])}
    <3>1. A \subseteq {1}
      <4>1. \A i \in 1 .. 2 : i = 1 \/ i = 2   OBVIOUS
      <4> QED BY <2>7, <4>1
    <3>2. CASE A = {}   BY <3>2 DEF clip_path
    <3>3. CASE A # {}
      <4>1. A = {1}   BY <3>1, <3>3
      <4>2. (CHOOSE i \in A : \A j \in A : j <= i) = 1
        <5> HIDE DEF A
        <5>1. 1 \in A /\ \A j \in A : j <= 1   BY <4>1
        <5>2. \A i \in A : i = 1   BY <4>1
        <5> QED BY <5>1, <5>2
      <4>3. clip_path(q) = SubSeq(q, 1, Len(q))   BY <3>3, <4>2 DEF clip_path
      <4> QED BY <2>5, <4>3, SubSeqFull
    <3> QED BY <3>2, <3>3
  <2> QED BY <2>1, <2>2, <2>4, <2>7, <2>8
<1> QED BY <1>1, <1>2

LEMMA OneStep ==
  ASSUME NEW T, NEW no, NEW g, NEW f
  PROVE  WalkStep(T, no, {g}, f) = Found(T, g, f) \ no
<1>1. ASSUME NEW x \in WalkStep(T, no, {g}, f) PROVE x \in Found(T, g, f) \ no
  <2>1. PICK h \in {g} : x \in Found(T, h, f)   BY DEF WalkStep
  <2>2. x \notin no   BY DEF WalkStep
  <2> QED BY <2>1, <2>2
<1>2. ASSUME NEW x \in Found(T, g, f) \ no PROVE x \in WalkStep(T, no, {g}, f)
  <2>1. x \in UNION {Found(T, h, f) : h \in {g}}   OBVIOUS
  <2> QED BY <2>1, Zenon DEF WalkStep
<1>3. WalkStep(T, no, {g}, f) \subseteq Found(T, g, f) \ no   BY <1>1
<1>4. Found(T, g, f) \ no \subseteq WalkStep(T, no, {g}, f)   BY <1>2
<1> QED BY <1>3, <1>4

\* Wherever the card is, the first SELECT of the way from the selected file to t finds
\* what pySim means, if anything.
OnlyAlong(st, T, t) ==
  LET p == build_select_path_to(st.sel, t)[1] IN Found(T, st.at, p) \subseteq LeadsTo(T, p)

\* Nothing but the exception is new: the way begins with a SELECT that failed.
Stayed(r, st) ==
  /\ r.raised /\ (r.lost <=> st.lost) /\ r.sel = st.sel /\ r.at = st.at
  /\ InMute(r.adf) => InMute(st.adf)

\* From where that is so pySim and the card come to agree, or both stay.
LEMMA FromAfar ==
  ASSUME NEW st, NEW T, NEW t, NEW r, NEW p, Valid(st, T), t \in DOMAIN st.tree,
         InMute(st.adf) => IsADF(t), p = build_select_path_to(st.sel, t)[1],
         OnlyAlong(st, T, t), r = select_file(st, t)
  PROVE  /\ Valid(r, T) /\ r.tree = st.tree
         /\ Agree(r, T) \/ Stayed(r, st)
         /\ Found(T, st.at, p) = {} => Stayed(r, st)
         /\ Agree(r, T) \/ refused # {} \/ Found(T, st.at, p) = {}
         /\ refused = {} /\ Found(T, st.at, p) # {} /\ LeadsTo(T, st.sel) # {} /\ LeadsTo(T, t) # {}
              => ~r.raised
         /\ ~r.raised => r.sel = t
<1>1. PICK q : q = build_select_path_to(st.sel, t)   OBVIOUS
<1>2. PICK y : y = [st EXCEPT !.raised = FALSE]   OBVIOUS
<1>3. ~Trapped(st, t)   BY DEF Trapped, InMute
<1>4. SameBut(y, st, FALSE) /\ Valid(y, T) /\ ~Trapped(y, t)   BY <1>2, <1>3, SetRaisedIs
<1>5. /\ y.tree = st.tree /\ ~y.raised /\ y.sel = st.sel /\ y.at = st.at /\ y.adf = st.adf
      /\ y.lost = st.lost
  BY <1>4 DEF SameBut
<1>6. r = GoTo(y, t)   BY <1>2, <1>3, <1>5 DEF select_file, EscapeApp, GoOnTo
<1>7. PICK s : s = WalkStep(T, refused, {st.at}, p)   OBVIOUS
<1>8. s = Found(T, st.at, p) \ refused   BY <1>7, OneStep
<1>9. s \subseteq LeadsTo(T, p)   BY <1>8 DEF OnlyAlong
<1>10. t \in DOMAIN y.tree   BY <1>5
<1>11. CASE s # {}
  <2>1. Nearby(y, T, t)   BY <1>5, <1>7, <1>9, <1>11 DEF Nearby
  <2>2. Starts(y, T, t)   BY <1>5, <2>1 DEF Starts
  <2>3. Valid(r, T) /\ Agree(r, T) /\ r.tree = y.tree /\ (~r.raised => r.sel = t)
    BY <1>4, <1>6, <1>10, <2>2, GoToAgrees
  <2>4. refused = {} /\ LeadsTo(T, st.sel) # {} /\ LeadsTo(T, t) # {} => ~r.raised
    BY <1>4, <1>5, <1>6, <1>10, <2>1, <2>2, GoToArrives
  <2>5. Found(T, st.at, p) # {}   BY <1>8, <1>11
  <2> QED BY <1>5, <2>3, <2>4, <2>5
<1>12. CASE s = {}
  <2>1. PICK w : w = CardWalk(T, refused, y.at, q)   OBVIOUS
  <2>2. q = build_select_path_to(y.sel, t) /\ q[1] = p   BY <1>1, <1>5
  <2>3. PICK n : /\ LastFound(w, n, Len(q)) /\ n \in Nat
                 /\ GoneTo(y, GoTo(y, t), q, w, n)
                 /\ GoTo(y, t) \in States(T)
                 /\ EndsAt(y, q, n) \in DOMAIN y.tree /\ OneOf(w[n]) \in w[n]
                 /\ OneOf(w[n]) \in DOMAIN T
    BY <1>4, <1>10, <2>1, <2>2, GoToIs
  <2>4. q \in Seq(Path) /\ Len(q) \in Nat /\ Len(q) >= 1
    <3>1. WayTo(y, t, q)   BY <1>4, <1>10, <2>2, PathIsOk
    <3> QED BY <3>1 DEF WayTo
  <2>5. y.at \in DOMAIN T /\ CardOk(T)   BY <1>4, ValidIs
  <2>6. w[0] = {y.at} /\ \A k \in 1 .. Len(q) : w[k] = WalkStep(T, refused, w[k - 1], q[k])
    BY <2>1, <2>4, <2>5, WalkIs
  <2>7. w[1] = {}
    <3>1. 1 \in 1 .. Len(q) /\ 1 - 1 = 0   BY <2>4
    <3>2. w[1] = WalkStep(T, refused, w[0], q[1])   BY <2>6, <3>1
    <3> QED BY <1>5, <1>7, <1>12, <2>2, <2>6, <3>2
  <2>8. n = 0
    <3>1. 1 \in 0 .. Len(q)   BY <2>4
    <3>2. \A m \in 1 .. Len(q) : w[m] = {}   BY <2>1, <2>4, <2>5, <2>7, <3>1, WalkEnds
    <3>3. n \in 0 .. Len(q) /\ w[n] # {}   BY <2>3 DEF LastFound
    <3> QED BY <2>4, <3>2, <3>3
  <2>9. GoneTo(y, r, q, w, 0)   BY <1>6, <2>3, <2>8
  <2>10. EndsAt(y, q, 0) = y.sel   BY DEF EndsAt
  <2>11. OneOf(w[0]) = y.at   BY <2>3, <2>6, <2>8
  <2>12. /\ r.sel = st.sel /\ r.adf = (IF IsADF(st.sel) THEN st.sel ELSE st.adf) /\ r.at = st.at
         /\ r.tree = st.tree /\ r.raised /\ (r.lost <=> st.lost)
    BY <1>5, <2>4, <2>9, <2>10, <2>11 DEF GoneTo
  <2>13. InMute(r.adf) <=> InMute(st.adf)
    <3>1. CASE IsADF(st.sel)
      <4>1. r.adf = st.sel   BY <2>12, <3>1
      <4>2. InMute(st.sel) => InMute(st.adf)   BY <3>1 DEF Valid, AdfInv, InMute
      <4>3. InMute(st.adf) => st.sel = st.adf   BY DEF Valid, AdfInv
      <4> QED BY <4>1, <4>2, <4>3
    <3>2. CASE ~IsADF(st.sel)   BY <2>12, <3>2
    <3> QED BY <3>1, <3>2
  <2>14. Stayed(r, st)   BY <2>12, <2>13 DEF Stayed
  <2>15. Valid(r, T)
    <3>1. r \in States(T)   BY <1>6, <2>3
    <3>2. AdfInv(r.sel, r.adf)
      <4>1. CASE IsADF(st.sel)   BY <2>12, <4>1 DEF AdfInv
      <4>2. CASE ~IsADF(st.sel)
        <5>1. AdfInv(st.sel, st.adf)   BY DEF Valid
        <5> QED BY <2>12, <4>2, <5>1
      <4> QED BY <4>1, <4>2
    <3> QED BY <2>12, <3>1, <3>2 DEF Valid
  <2>16. refused = {} => Found(T, st.at, p) = {}   BY <1>8, <1>12
  <2> QED BY <2>12, <2>14, <2>15, <2>16
<1> QED BY <1>11, <1>12

\* The card is at a file that pySim does not know of, from which nothing else is found
\* than pySim means.
Strays(st, T) ==
  /\ st.raised /\ st.lost /\ ~InMute(st.adf)
  /\ \A t \in DOMAIN st.tree : OnlyAlong(st, T, t)

LEMMA StraysStill ==
  ASSUME NEW r, NEW st, NEW T, Strays(st, T), Stayed(r, st), r.tree = st.tree
  PROVE  Strays(r, T)
<1>1. r.sel = st.sel /\ r.at = st.at /\ r.raised /\ r.lost /\ ~InMute(r.adf)
  BY DEF Strays, Stayed
<1>2. \A t \in DOMAIN r.tree : OnlyAlong(r, T, t)   BY <1>1 DEF Strays, OnlyAlong
<1> QED BY <1>1, <1>2 DEF Strays

-----------------------------------------------------------------------------
(* What a name stands for *)

\* Of some paths one is no longer than the others.
LEMMA Shortest ==
  ASSUME NEW S, S \subseteq Path, S # {}
  PROVE  \E g \in S : \A h \in S : Len(g) <= Len(h)
<1> DEFINE L == {n \in Nat : \E g \in S : Len(g) = n}
           R == {ss \in Nat \X Nat : ss[1] < ss[2]}
<1>0. IsWellFoundedOn(R, Nat)   BY NatLessThanWellFounded DEF OpToRel
<1>1. L \subseteq Nat   OBVIOUS
<1>2. \A g \in S : Len(g) \in L   BY PathIs
<1>3. L # {}   BY <1>2
<1>4. PICK n \in L : \A m \in L : ~(<<m, n>> \in R)
  <2> HIDE DEF L, R
  <2> QED BY <1>0, <1>1, <1>3, WFMin
<1>5. \A m \in L : n <= m
  <2> SUFFICES ASSUME NEW m \in L PROVE n <= m   OBVIOUS
  <2>1. m \in Nat /\ n \in Nat   OBVIOUS
  <2>2. m < n => <<m, n>> \in R   BY <2>1
  <2> HIDE DEF R, L
  <2> QED BY <1>4, <2>1, <2>2
<1>6. PICK g \in S : Len(g) = n   OBVIOUS
<1> HIDE DEF L
<1> QED BY <1>2, <1>5, <1>6

LEMMA NamedIs ==
  ASSUME NEW R, FileTree(R), TreeInv(R), KnownApps \subseteq DOMAIN R, NEW f \in DOMAIN R, NEW id
  PROVE  /\ named(R, f, id) \subseteq DOMAIN R
         /\ named(R, f, id) = {} =>
              /\ id # "3f00"
              /\ \A g \in children(R, f) \cup {f} : Last(g) # id
         /\ named(R, f, "3f00") = {MF}
<1> DEFINE below(n) == {g \in children(R, f) : Last(g) = n}
           above(n) == {g \in global_selectables(f) : Last(g) = n}
<1>0. \A n : named(R, f, n) = IF below(n) # {} THEN below(n)
                              ELSE {g \in above(n) : \A h \in above(n) : Len(g) <= Len(h)}
  BY DEF named
<1>1. f \in Path /\ Len(f) \in Nat /\ Len(f) >= 1 /\ DOMAIN R \subseteq Path /\ MF \in DOMAIN R
  BY TreeIs, PathIs
<1>2. \A n : below(n) \subseteq DOMAIN R   BY DEF children
<1>3. global_selectables(f) \subseteq DOMAIN R
  <2>1. \A i \in 1 .. Len(f) : Prefix(f, i) \in DOMAIN R   BY TreeIs
  <2> QED BY <2>1 DEF global_selectables, Prefix
<1>4. f \in global_selectables(f) /\ MF \in global_selectables(f)
  <2>1. Prefix(f, Len(f)) = f /\ Len(f) \in 1 .. Len(f) /\ 1 \in 1 .. Len(f)   BY <1>1, WholePrefix
  <2>2. Prefix(f, 1) = MF
    <3>1. Prefix(f, 1) \in Path /\ Len(Prefix(f, 1)) = 1   BY <1>1, <2>1, PrefixIs
    <3> QED BY <3>1, MFIs
  <2> QED BY <2>1, <2>2 DEF global_selectables, Prefix
<1>5. \A n : above(n) \subseteq DOMAIN R   BY <1>3
<1>6. \A n : named(R, f, n) \subseteq DOMAIN R
  <2> HIDE DEF above, below
  <2> QED BY <1>0, <1>2, <1>5
<1>7. ASSUME NEW n, named(R, f, n) = {} PROVE above(n) = {} /\ below(n) = {}
  <2>1. above(n) # {} => \E g \in above(n) : \A h \in above(n) : Len(g) <= Len(h)
    <3>1. above(n) \subseteq Path   BY <1>1, <1>5
    <3> HIDE DEF above
    <3> QED BY <3>1, Shortest
  <2> HIDE DEF above, below
  <2> QED BY <1>0, <1>7, <2>1
<1>8. MF \in above("3f00")   BY <1>4, MFIs
<1>9. above("3f00") \subseteq {MF} /\ below("3f00") = {}
  <2>1. above("3f00") \subseteq {MF}   BY <1>1, <1>3, MFIs
  <2>2. below("3f00") = {}   BY <1>1, MFIs DEF children
  <2> QED BY <2>1, <2>2
<1>10. named(R, f, "3f00") = {MF}
  <2>1. above("3f00") = {MF}
    <3> HIDE DEF above, below
    <3> QED BY <1>8, <1>9
  <2>2. Len(MF) <= Len(MF)   BY MFIs
  <2> HIDE DEF above, below
  <2> QED BY <1>0, <1>9, <2>1, <2>2
<1>11. named(R, f, id) = {} => id # "3f00" /\ \A g \in children(R, f) \cup {f} : Last(g) # id
  <2>1. named(R, f, id) = {} => id # "3f00"   BY <1>10
  <2>2. named(R, f, id) = {} => below(id) = {} /\ above(id) = {}   BY <1>7
  <2> QED BY <1>4, <2>1, <2>2
<1> QED BY <1>6, <1>10, <1>11

-----------------------------------------------------------------------------
(* Files that are added *)

Grown(A, R, f, kind) ==
  /\ DOMAIN A = DOMAIN R \cup {f} /\ A[f] = kind
  /\ \A g \in DOMAIN R : A[g] = R[g]
  /\ FileTree(A)

\* A place for another file: in a DF.
Place(R, f) ==
  f \in Path /\ Len(f) > 1 /\ Front(f) \in DOMAIN R /\ R[Front(f)] = "df" /\ f \notin DOMAIN R
    /\ ~IsADF(f)

LEMMA AddedIs ==
  ASSUME NEW R, NEW f, NEW kind, FileTree(R), Place(R, f), kind \in {"df", "ef"}
  PROVE  Grown(Added(R, f, kind), R, f, kind)
<1>0. /\ f \in Path /\ Len(f) > 1 /\ Front(f) \in DOMAIN R /\ R[Front(f)] = "df"
      /\ f \notin DOMAIN R /\ ~IsADF(f)
  BY DEF Place
<1>1. PICK A : A = Added(R, f, kind)   OBVIOUS
<1>2. /\ A = [g \in DOMAIN R \cup {f} |-> IF g = f THEN kind ELSE R[g]]
      /\ DOMAIN A = DOMAIN R \cup {f} /\ A[f] = kind /\ \A g \in DOMAIN R : A[g] = R[g]
  BY <1>0, <1>1 DEF Added
<1>3. A \in [DOMAIN A -> {"df", "ef"}]
  <2>1. \A g \in DOMAIN R : R[g] \in {"df", "ef"}   BY TreeIs
  <2>2. \A g \in DOMAIN A : A[g] \in {"df", "ef"}   BY <1>2, <2>1
  <2>3. A = [g \in DOMAIN A |-> A[g]]   BY <1>2
  <2> QED BY <2>2, <2>3
<1>4. ASSUME NEW g \in DOMAIN R
      PROVE  /\ g \in Seq(STRING) /\ LegalPath(g) /\ (IsADF(g) => A[g] = "df")
             /\ \A k \in 1 .. Len(g) - 1 : Prefix(g, k) \in DOMAIN A /\ A[Prefix(g, k)] = "df"
  BY <1>2 DEF FileTree
<1>5. \A k \in 1 .. Len(f) - 1 : Prefix(f, k) \in DOMAIN A /\ A[Prefix(f, k)] = "df"
  <2> SUFFICES ASSUME NEW k \in 1 .. Len(f) - 1 PROVE Prefix(f, k) \in DOMAIN A /\ A[Prefix(f, k)] = "df"
    OBVIOUS
  <2>1. PICK l \in Nat : l = Len(f) /\ l > 1   BY <1>0, PathIs
  <2>2. Len(Front(f)) = l - 1 /\ Prefix(Front(f), k) = Prefix(f, k) /\ Front(f) = Prefix(f, l - 1)
    BY <1>0, <2>1, FrontIs
  <2>3. CASE k = l - 1   BY <1>0, <1>2, <2>2, <2>3
  <2>4. CASE k # l - 1
    <3>1. k \in 1 .. (l - 1) - 1   BY <2>1, <2>4
    <3>2. Prefix(Front(f), k) \in DOMAIN R /\ R[Prefix(Front(f), k)] = "df"   BY <1>0, <2>2, <3>1 DEF FileTree
    <3> QED BY <1>2, <2>2, <3>2
  <2> QED BY <2>3, <2>4
<1>6. f \in Seq(STRING) /\ LegalPath(f)   BY <1>0 DEF Path
<1>7. MF \in DOMAIN A /\ A[MF] = "df"   BY <1>2 DEF FileTree
<1>8. FileTree(A)
  <2>1. \A g \in DOMAIN A :
          /\ g \in Seq(STRING) /\ LegalPath(g) /\ (IsADF(g) => A[g] = "df")
          /\ \A k \in 1 .. Len(g) - 1 : Prefix(g, k) \in DOMAIN A /\ A[Prefix(g, k)] = "df"
    <3> SUFFICES ASSUME NEW g \in DOMAIN A
                 PROVE  /\ g \in Seq(STRING) /\ LegalPath(g) /\ (IsADF(g) => A[g] = "df")
                        /\ \A k \in 1 .. Len(g) - 1 :
                             Prefix(g, k) \in DOMAIN A /\ A[Prefix(g, k)] = "df"
      OBVIOUS
    <3>1. CASE g = f   BY <1>0, <1>5, <1>6, <3>1
    <3>2. CASE g # f
      <4>1. g \in DOMAIN R   BY <1>2, <3>2
      <4> QED BY <1>4, <4>1
    <3> QED BY <3>1, <3>2
  <2> QED BY <1>3, <1>7, <2>1 DEF FileTree
<1> QED BY <1>1, <1>2, <1>8 DEF Grown

\* pySim knows another file, of the kind that the card has found.
Learned(A, R, f, T) ==
  Knows(A, T) /\ TreeInv(A) /\ A \in Trees /\ DOMAIN A = DOMAIN R \cup {f}

LEMMA KnowsAdded ==
  ASSUME NEW R, NEW T, NEW f, NEW h, NEW A, A = Added(R, f, T[h]),
         Knows(R, T), TreeInv(R), CardInv(T), R \in Trees,
         Place(R, f), h \in DOMAIN T, Last(h) = Last(f)
  PROVE  Learned(A, R, f, T)
<1>2. FileTree(R) /\ CardOk(T) /\ FileTree(T) /\ SameKinds(R, T) /\ SameKinds(T, T)
  BY DEF Knows, CardOk
<1>3. PICK kind \in {"df", "ef"} : kind = T[h]   BY <1>2, TreeIs
<1>4. /\ DOMAIN A = DOMAIN R \cup {f} /\ A[f] = T[h] /\ \A g \in DOMAIN R : A[g] = R[g]
      /\ FileTree(A)
  <2>1. A = Added(R, f, kind)   BY <1>3
  <2>2. Grown(A, R, f, kind)   BY <1>2, <2>1, AddedIs
  <2> QED BY <1>3, <2>2 DEF Grown
<1>5. SameKinds(A, T)   BY <1>2, <1>4 DEF SameKinds
<1>6. TreeInv(A)
  <2>1. DOMAIN Profile \subseteq DOMAIN A   BY <1>4 DEF TreeInv
  <2>2. \A g \in DOMAIN A : IsADF(g) => g \in KnownApps   BY <1>4 DEF TreeInv, Place
  <2>3. \A g \in DOMAIN A : Last(g) = NewFid => A[g] = "df"   BY <1>4 DEF TreeInv, CardInv
  <2> QED BY <2>1, <2>2, <2>3 DEF TreeInv
<1>7. A \in Trees
  <2>1. A \in [DOMAIN A -> {"df", "ef"}] /\ DOMAIN A \subseteq Path   BY <1>4, TreeIs DEF FileTree
  <2> QED BY <2>1 DEF Trees
<1> QED BY <1>2, <1>4, <1>5, <1>6, <1>7 DEF Knows, Learned

-----------------------------------------------------------------------------
(* select *)

\* What a command leaves: pySim and the card agree, at the same file after a
\* failure if the card refuses nothing; or the way back was refused.
Kept(r, st, T) ==
  /\ Valid(r, T) /\ DOMAIN st.tree \subseteq DOMAIN r.tree
  /\ \/ /\ Agree(r, T)
        /\ AppsAssured /\ refused = {} /\ r.raised => r.sel = st.sel /\ r.at = st.at
     \/ Strays(r, T) /\ refused # {}

\* From where the runtime goes back to the file that was selected.
LEMMA GoBackAgrees ==
  ASSUME NEW y, NEW T, NEW f, Valid(y, T), Agree(y, T), f \in DOMAIN y.tree, y.raised
  PROVE  /\ Settled(GoBack(y, f), T, y.tree) /\ GoBack(y, f).raised
         /\ AppsAssured /\ refused = {} /\ LeadsTo(T, f) # {} => GoBack(y, f).sel = f
<1>1. PICK z : z = select_file(y, f)   OBVIOUS
<1>2. Settled(z, T, y.tree) /\ (~z.raised => z.sel = f)   BY <1>1, SelectFileAgrees
<1>3. Valid(z, T) /\ Agree(z, T) /\ z.tree = y.tree   BY <1>2 DEF Settled
<1>4. PICK r : r = [z EXCEPT !.raised = TRUE]   OBVIOUS
<1>5. SameBut(r, z, TRUE) /\ Valid(r, T) /\ Agree(r, T)   BY <1>3, <1>4, SetRaisedIs
<1>6. GoBack(y, f) = r   BY <1>1, <1>4 DEF GoBack
<1>7. AppsAssured /\ refused = {} /\ LeadsTo(T, f) # {} => ~z.raised   BY <1>1, SelectFileArrives
<1>8. r.sel = z.sel /\ r.tree = z.tree /\ r.raised   BY <1>5 DEF SameBut
<1> QED BY <1>2, <1>3, <1>5, <1>6, <1>7, <1>8 DEF Settled

LEMMA SameAt ==
  ASSUME NEW r, NEW st, NEW T, Valid(r, T), Agree(r, T), Valid(st, T), Agree(st, T), r.sel = st.sel
  PROVE  r.at = st.at
BY LeadsToOne, ValidIs DEF Agree

\* After a command that may have failed.
LEMMA GoBackKeeps ==
  ASSUME NEW y, NEW st, NEW T, Valid(st, T), Agree(st, T), Valid(y, T), Agree(y, T),
         DOMAIN st.tree \subseteq DOMAIN y.tree
  PROVE  Kept(GoBack(y, st.sel), st, T) /\ (~y.raised => GoBack(y, st.sel) = y)
<1>1. CASE ~y.raised   BY <1>1 DEF GoBack, Kept
<1>2. CASE y.raised
  <2>1. PICK r : r = GoBack(y, st.sel)   OBVIOUS
  <2>2. st.sel \in DOMAIN y.tree   BY ValidIs
  <2>3. Settled(r, T, y.tree) /\ (AppsAssured /\ refused = {} /\ LeadsTo(T, st.sel) # {} => r.sel = st.sel)
    BY <1>2, <2>1, <2>2, GoBackAgrees
  <2>4. LeadsTo(T, st.sel) # {}   BY DEF Agree
  <2>5. Valid(r, T) /\ Agree(r, T) /\ r.tree = y.tree   BY <2>3 DEF Settled
  <2>6. r.sel = st.sel => r.at = st.at   BY <2>5, SameAt
  <2>7. Kept(r, st, T)   BY <2>3, <2>4, <2>5, <2>6 DEF Kept
  <2> QED BY <1>2, <2>1, <2>7
<1> QED BY <1>1, <1>2

\* A file that pySim knows by its name.
LEMMA SelectKnown ==
  ASSUME NEW st, NEW T, NEW id, Valid(st, T), Agree(st, T), named(st.tree, st.sel, id) # {}
  PROVE  Kept(select(st, id), st, T)
<1>1. PICK f : f = OneOf(named(st.tree, st.sel, id))   OBVIOUS
<1>2. f \in DOMAIN st.tree
  <2>1. FileTree(st.tree) /\ TreeInv(st.tree) /\ KnownApps \subseteq DOMAIN st.tree /\ st.sel \in DOMAIN st.tree
    BY ValidIs DEF Valid
  <2>2. named(st.tree, st.sel, id) \subseteq DOMAIN st.tree   BY <2>1, NamedIs
  <2> QED BY <1>1, <2>2, OneOfIs
<1>3. PICK y : y = select_file(st, f)   OBVIOUS
<1>4. Valid(y, T) /\ Agree(y, T) /\ y.tree = st.tree   BY <1>2, <1>3, SelectFileAgrees DEF Settled
<1>5. select(st, id) = GoBack(y, st.sel)   BY <1>1, <1>3 DEF select
<1> QED BY <1>4, <1>5, GoBackKeeps

\* The card refuses one of the files it may refuse, if any.
Refusals == {{f} : f \in Refusable} \cup {{}}

\* From what was found from an EF, the DF of that EF is found.
LEMMA ProbedFromEF ==
  ASSUME NEW st, NEW T, NEW h, NEW id, Valid(st, T), Agree(st, T), named(st.tree, st.sel, id) = {},
         st.tree[st.sel] = "ef", h \in FoundByFid(T, st.at, id)
  PROVE  /\ ~IsADF(st.sel) /\ Parent(st.sel) = Front(st.sel) /\ h \in DOMAIN T
         /\ Found(T, h, Parent(st.sel)) # {}
         /\ Found(T, h, Parent(st.sel)) \subseteq LeadsTo(T, Parent(st.sel))
<1>1. /\ Knows(st.tree, T) /\ CardOk(T) /\ FileTree(T) /\ FileTree(st.tree) /\ TreeInv(st.tree)
      /\ KnownApps \subseteq DOMAIN st.tree /\ st.sel \in DOMAIN st.tree
      /\ st.at \in DOMAIN T /\ st.sel \in Path /\ st.at \in Path
  BY ValidIs DEF Valid
<1>2. st.sel # MF /\ Len(st.sel) > 1 /\ Parent(st.sel) = Front(st.sel) /\ ~IsADF(st.sel)
  <2>1. st.sel # MF /\ ~IsADF(st.sel)   BY <1>1, TreeIs
  <2> QED BY <1>1, <2>1, MFIs
<1>3. T[st.at] = "ef"   BY <1>1, LeadsAlike DEF Agree
<1>4. PICK g \in LeadsTo(T, Front(st.sel)) : st.at \in Found(T, g, st.sel)
  BY <1>1, <1>2, LeadsAlike DEF Agree
<1>5. Front(st.sel) \in DOMAIN st.tree /\ st.tree[Front(st.sel)] = "df"   BY <1>1, <1>2, TreeIs
<1>6. g \in DOMAIN T /\ T[g] = "df" /\ CardDf(T, g) = g
  <2>1. g \in DOMAIN T /\ T[g] = "df"   BY <1>1, <1>4, <1>5, LeadsAlike
  <2> QED BY <2>1 DEF CardDf
<1>7. st.at \in InReach(T, g)   BY <1>1, <1>2, <1>4, <1>6, FoundIs
<1>8. CardDf(T, st.at) = g   BY <1>1, <1>3, <1>6, <1>7, ReachedEF
<1>9. h \in InReach(T, g) /\ Last(h) = id /\ h \in DOMAIN T
  <2>1. h \in InReach(T, st.at) /\ Last(h) = id   BY DEF FoundByFid
  <2> QED BY <1>6, <1>8, <2>1 DEF InReach
<1>10. id # "3f00"   BY <1>1, NamedIs
<1>11. h # MF   BY <1>9, <1>10, MFIs
<1>12. g \in Found(T, h, Front(st.sel))   BY <1>1, <1>4, <1>5, <1>9, <1>11, FindsParent
<1>13. \A x, y \in Found(T, h, Front(st.sel)) : x = y
  <2>1. Front(st.sel) \in Path   BY <1>1, <1>5, TreeIs
  <2> QED BY <1>1, <1>9, <2>1, FoundIs
<1>14. Found(T, h, Front(st.sel)) \subseteq LeadsTo(T, Front(st.sel))   BY <1>4, <1>12, <1>13
<1> QED BY <1>2, <1>9, <1>12, <1>14

\* The card then is at another file than pySim; the ways of pySim begin with that DF.
LEMMA StraysFromEF ==
  ASSUME NEW st, NEW r, NEW T, NEW id, NEW h, Valid(st, T), Agree(st, T),
         named(st.tree, st.sel, id) = {}, st.tree[st.sel] = "ef", h \in FoundByFid(T, st.at, id),
         r = [st EXCEPT !.at = h, !.raised = TRUE, !.lost = TRUE]
  PROVE  /\ Valid(r, T) /\ Strays(r, T) /\ r.sel = st.sel /\ r.tree = st.tree
         /\ Found(T, r.at, build_select_path_to(r.sel, r.sel)[1]) # {}
<1>1. /\ ~IsADF(st.sel) /\ Parent(st.sel) = Front(st.sel) /\ h \in DOMAIN T
      /\ Found(T, h, Parent(st.sel)) # {}
      /\ Found(T, h, Parent(st.sel)) \subseteq LeadsTo(T, Parent(st.sel))
  BY ProbedFromEF
<1>2. st \in States(T) /\ h \in Path /\ DOMAIN st.tree \subseteq Path /\ FileTree(st.tree)
      /\ st.sel \in DOMAIN st.tree /\ st.adf \in KnownApps \cup {None} /\ Knows(st.tree, T)
  BY <1>1, ValidIs DEF Valid
<1>3. /\ r \in States(T) /\ r.sel = st.sel /\ r.adf = st.adf /\ r.at = h /\ r.tree = st.tree
      /\ r.raised /\ r.lost
  BY <1>2 DEF States
<1>4. Valid(r, T)   BY <1>1, <1>3 DEF Valid
<1>5. ~InMute(r.adf)
  <2>1. InMute(st.adf) => st.sel = st.adf /\ st.adf \in KnownApps   BY <1>2 DEF Valid, AdfInv, InMute
  <2> QED BY <1>1, <1>3, <2>1 DEF KnownApps
<1>6. ASSUME NEW t \in DOMAIN st.tree PROVE OnlyAlong(r, T, t)
  <2>1. PICK q : q = build_select_path_to(st.sel, t)   OBVIOUS
  <2>2. Adjacent(st.sel, q[1]) /\ q[1] \in DOMAIN st.tree
    <3>1. WayTo(st, t, q)   BY <2>1, PathIsOk
    <3>2. 1 \in 1 .. Len(q)   BY <3>1 DEF WayTo
    <3> QED BY <3>1, <3>2 DEF WayTo
  <2>3. CASE IsADF(q[1]) \/ q[1] = MF
    <3>1. Found(T, h, q[1]) \subseteq LeadsTo(T, q[1])   BY <1>1, <1>2, <2>2, <2>3, StepAnywhere
    <3> QED BY <1>3, <2>1, <3>1 DEF OnlyAlong
  <2>4. CASE q[1] = Front(st.sel)   BY <1>1, <1>3, <2>1, <2>4 DEF OnlyAlong
  <2>5. CASE Len(q[1]) > 1 /\ st.sel = Front(q[1])
    <3>1. st.tree[st.sel] = "df"   BY <1>2, <2>2, <2>5, TreeIs
    <3> QED BY <3>1
  <2> QED BY <2>2, <2>3, <2>4, <2>5 DEF Adjacent
<1>7. Strays(r, T)   BY <1>3, <1>5, <1>6 DEF Strays
<1>8. build_select_path_to(r.sel, r.sel)[1] = Parent(st.sel)
  <2>1. st.sel \in Path   BY <1>2
  <2> QED BY <1>1, <1>3, <2>1, PathBack
<1> QED BY <1>1, <1>3, <1>4, <1>7, <1>8

\* The way back from there to any file.
LEMMA StraysBack ==
  ASSUME NEW y, NEW T, NEW f, NEW r, Valid(y, T), Strays(y, T), f \in DOMAIN y.tree, r = GoBack(y, f)
  PROVE  /\ Valid(r, T) /\ r.tree = y.tree /\ r.raised
         /\ Agree(r, T) \/ Strays(r, T)
         /\ Agree(r, T) \/ refused # {} \/ Found(T, y.at, build_select_path_to(y.sel, f)[1]) = {}
         /\ refused = {} /\ Found(T, y.at, build_select_path_to(y.sel, f)[1]) # {}
              /\ LeadsTo(T, y.sel) # {} /\ LeadsTo(T, f) # {} => r.sel = f
<1>1. PICK z : z = select_file(y, f)   OBVIOUS
<1>2. PICK p : p = build_select_path_to(y.sel, f)[1]   OBVIOUS
<1>3. OnlyAlong(y, T, f) /\ ~InMute(y.adf) /\ y.raised   BY DEF Strays
<1>4. /\ Valid(z, T) /\ z.tree = y.tree
      /\ Agree(z, T) \/ Stayed(z, y)
      /\ Agree(z, T) \/ refused # {} \/ Found(T, y.at, p) = {}
      /\ refused = {} /\ Found(T, y.at, p) # {} /\ LeadsTo(T, y.sel) # {} /\ LeadsTo(T, f) # {}
           => ~z.raised
      /\ ~z.raised => z.sel = f
  BY <1>1, <1>2, <1>3, FromAfar
<1>5. SameBut(r, z, TRUE) /\ Valid(r, T) /\ (Agree(z, T) => Agree(r, T))
  <2>1. PICK u : u = [z EXCEPT !.raised = TRUE]   OBVIOUS
  <2>2. Valid(z, T)   BY <1>4
  <2>3. SameBut(u, z, TRUE) /\ Valid(u, T) /\ (Agree(z, T) => Agree(u, T))
    BY <2>1, <2>2, SetRaisedIs
  <2>4. r = u   BY <1>1, <1>3, <2>1 DEF GoBack
  <2> QED BY <2>3, <2>4
<1>6. r.raised /\ r.tree = y.tree /\ r.sel = z.sel   BY <1>4, <1>5 DEF SameBut
<1>7. Stayed(z, y) => Strays(r, T)
  <2>1. Stayed(z, y) => Stayed(r, y)   BY <1>5 DEF SameBut, Stayed
  <2> QED BY <1>6, <2>1, StraysStill
<1> QED BY <1>2, <1>4, <1>5, <1>6, <1>7

\* pySim and the card may differ by the file that the card has selected.
LEMMA BackFromEF ==
  ASSUME NEW st, NEW r, NEW T, NEW id, NEW h, Valid(st, T), Agree(st, T),
         named(st.tree, st.sel, id) = {}, st.tree[st.sel] = "ef", h \in FoundByFid(T, st.at, id),
         r = [st EXCEPT !.at = h, !.raised = TRUE, !.lost = TRUE]
  PROVE  Kept(GoBack(r, st.sel), st, T)
<1>1. /\ Valid(r, T) /\ Strays(r, T) /\ r.sel = st.sel /\ r.tree = st.tree
      /\ Found(T, r.at, build_select_path_to(r.sel, r.sel)[1]) # {}
  BY StraysFromEF
<1>2. PICK y : y = GoBack(r, st.sel)   OBVIOUS
<1>3. st.sel \in DOMAIN r.tree /\ LeadsTo(T, st.sel) # {}   BY <1>1, ValidIs DEF Agree
<1>4. /\ Valid(y, T) /\ y.tree = r.tree /\ y.raised
      /\ Agree(y, T) \/ Strays(y, T)
      /\ Agree(y, T) \/ refused # {}
      /\ refused = {} => y.sel = st.sel
  <2>1. PICK u, f : u = r /\ f = st.sel   OBVIOUS
  <2>2. Valid(u, T) /\ Strays(u, T) /\ f \in DOMAIN u.tree /\ y = GoBack(u, f)
    BY <1>1, <1>2, <1>3, <2>1
  <2>3. /\ Found(T, u.at, build_select_path_to(u.sel, f)[1]) # {}
        /\ LeadsTo(T, u.sel) # {} /\ LeadsTo(T, f) # {}
    BY <1>1, <1>3, <2>1
  <2>4. /\ Valid(y, T) /\ y.tree = u.tree /\ y.raised
        /\ Agree(y, T) \/ Strays(y, T)
        /\ Agree(y, T) \/ refused # {} \/ Found(T, u.at, build_select_path_to(u.sel, f)[1]) = {}
        /\ refused = {} /\ Found(T, u.at, build_select_path_to(u.sel, f)[1]) # {}
             /\ LeadsTo(T, u.sel) # {} /\ LeadsTo(T, f) # {} => y.sel = f
    BY <2>2, StraysBack
  <2> QED BY <2>1, <2>3, <2>4
<1>5. Agree(y, T) /\ y.sel = st.sel => y.at = st.at   BY <1>4, SameAt
<1> QED BY <1>1, <1>2, <1>4, <1>5 DEF Kept

\* The command goes on with what pySim knows, or more.
Goes(r, st, T) ==
  Valid(r, T) /\ Agree(r, T) /\ DOMAIN st.tree \subseteq DOMAIN r.tree /\ r.raised = st.raised

\* A file found from a DF becomes known there.
LEMMA ProbedFromDF ==
  ASSUME NEW st, NEW r, NEW T, NEW id, NEW h, NEW f, Valid(st, T), Agree(st, T), id \in STRING,
         named(st.tree, st.sel, id) = {}, st.tree[st.sel] = "df", h \in FoundByFid(T, st.at, id),
         id \notin Apps, f = Append(st.sel, id),
         r = _select_post([st EXCEPT !.at = h, !.tree = Added(@, f, T[h])], f, h)
  PROVE  Goes(r, st, T)
<1>1. /\ Knows(st.tree, T) /\ CardOk(T) /\ FileTree(T) /\ FileTree(st.tree) /\ TreeInv(st.tree)
      /\ KnownApps \subseteq DOMAIN st.tree /\ CardInv(T) /\ st.sel \in DOMAIN st.tree
      /\ st.at \in DOMAIN T /\ st.sel \in Path /\ st.tree \in Trees /\ st \in States(T)
      /\ DOMAIN T \subseteq Path
  BY ValidIs DEF Valid
<1>2. id # "3f00" /\ \A g \in children(st.tree, st.sel) \cup {st.sel} : Last(g) # id
  BY <1>1, NamedIs
<1>3. /\ f \in Path /\ Len(f) > 1 /\ Front(f) = st.sel /\ Last(f) = id /\ f # MF /\ ~IsADF(f)
      /\ Parent(f) = st.sel
  <2>1. Len(st.sel) \in Nat /\ Len(st.sel) >= 1   BY <1>1, PathIs
  <2>2. /\ f \in Path /\ Len(f) = Len(st.sel) + 1 /\ Front(f) = st.sel /\ Last(f) = id /\ f # MF
        /\ ~IsADF(f) /\ Parent(f) = st.sel
    BY <1>1, <1>2, AppendIs
  <2> QED BY <2>1, <2>2
<1>4. f \notin DOMAIN st.tree
  <2>1. get_cwd(st.tree, st.sel) = st.sel   BY DEF get_cwd
  <2>2. f # st.sel   BY <1>2, <1>3
  <2> QED BY <1>2, <1>3, <2>1, <2>2 DEF children
<1>5. h \in DOMAIN T /\ Last(h) = id /\ h \in Path /\ h \in InReach(T, st.at)
  <2>1. h \in InReach(T, st.at) /\ Last(h) = id   BY DEF FoundByFid
  <2>2. h \in DOMAIN T   BY <2>1, ReachIs
  <2> QED BY <1>1, <2>1, <2>2
<1>6. PICK A : A = Added(st.tree, f, T[h])   OBVIOUS
<1>7. Knows(A, T) /\ TreeInv(A) /\ A \in Trees /\ DOMAIN A = DOMAIN st.tree \cup {f}
  <2>1. Place(st.tree, f)   BY <1>1, <1>3, <1>4 DEF Place
  <2>2. Last(h) = Last(f)   BY <1>3, <1>5
  <2>3. Learned(A, st.tree, f, T)   BY <1>1, <1>5, <1>6, <2>1, <2>2, KnowsAdded
  <2> QED BY <2>3 DEF Learned
<1>8. /\ r \in States(T) /\ r.sel = f /\ r.adf = st.adf /\ r.fcp = h /\ r.at = h /\ r.tree = A
      /\ r.raised = st.raised /\ r.lost = st.lost
  <2>1. PICK q \in States(T) : q = st   BY <1>1
  <2>2. r = [q EXCEPT !.at = h, !.tree = A, !.sel = f, !.fcp = h]
    BY <1>3, <1>6, <2>1 DEF States, _select_post
  <2>3. f \in Path /\ h \in Path /\ A \in Trees   BY <1>3, <1>5, <1>7
  <2> QED BY <2>1, <2>2, <2>3 DEF States
<1>9. ~InMute(st.adf)
  <2> SUFFICES ASSUME InMute(st.adf) PROVE FALSE   OBVIOUS
  <2>1. st.sel = st.adf /\ st.adf \in KnownApps /\ st.adf[2] \in AppsWithoutFs
    BY <1>1, ValidIs DEF Valid, AdfInv, InMute
  <2>2. IsADF(st.sel) /\ st.at = st.sel   BY <2>1, AtADF DEF KnownApps
  <2>3. CardDf(T, st.at) = st.at   BY <1>1, <2>2, TreeIs, CardDfIs
  <2>4. Mute(T, st.at)   BY <2>1, <2>2, <2>3 DEF Mute
  <2> QED BY <1>5, <2>4, ReachIs
<1>10. Valid(r, T)
  <2>1. AdfInv(r.sel, r.adf)   BY <1>3, <1>8, <1>9 DEF AdfInv
  <2> QED BY <1>1, <1>5, <1>7, <1>8, <2>1 DEF Valid
<1>11. Agree(r, T)
  <2>1. h \in Found(T, st.at, f)   BY <1>1, <1>3, <1>5, FoundIs
  <2>2. h \in LeadsTo(T, f)   BY <1>1, <1>3, <2>1, StepDown DEF Agree
  <2> QED BY <1>8, <2>2 DEF Agree
<1> QED BY <1>7, <1>8, <1>10, <1>11 DEF Goes

\* A name that pySim does not know is tried on the card.
LEMMA SelectUnknown ==
  ASSUME NEW st, NEW T, NEW id, Valid(st, T), Agree(st, T), id \in STRING,
         named(st.tree, st.sel, id) = {}
  PROVE  Kept(select(st, id), st, T)
<1>1. PICK x : x = [st EXCEPT !.raised = FALSE]   OBVIOUS
<1>2. SameBut(x, st, FALSE) /\ Valid(x, T) /\ Agree(x, T)   BY <1>1, SetRaisedIs
<1>3. /\ x.sel = st.sel /\ x.tree = st.tree /\ x.at = st.at /\ x.files = T /\ ~x.raised
  BY <1>2, ValidIs DEF SameBut
<1>4. PICK found : found = IF id \in Apps THEN {} ELSE FoundByFid(T, x.at, id) \ refused   OBVIOUS
<1>5. select(st, id) = GoBack(Probed(x, id, found), st.sel)
  BY <1>1, <1>3, <1>4 DEF select, probe_file
<1>6. \A y : Kept(y, x, T) => Kept(y, st, T)   BY <1>3 DEF Kept
<1>7. CASE found = {}
  <2>1. PICK y : y = [x EXCEPT !.raised = TRUE]   OBVIOUS
  <2>2. SameBut(y, x, TRUE) /\ Valid(y, T) /\ Agree(y, T)   BY <1>2, <2>1, SetRaisedIs
  <2>3. y.tree = x.tree   BY <2>2 DEF SameBut
  <2>4. Probed(x, id, found) = y   BY <1>7, <2>1 DEF Probed
  <2>5. Kept(GoBack(y, x.sel), x, T)   BY <1>2, <2>2, <2>3, GoBackKeeps
  <2> QED BY <1>3, <1>5, <1>6, <2>4, <2>5
<1>8. CASE found # {}
  <2>1. PICK h : h = OneOf(found)   OBVIOUS
  <2>2. h \in found   BY <1>8, <2>1, OneOfIs
  <2>3. h \in FoundByFid(T, x.at, id) /\ id \notin Apps   BY <1>4, <2>2
  <2>4. CASE x.tree[x.sel] = "ef"
    <3>1. PICK r : r = [x EXCEPT !.at = h, !.raised = TRUE, !.lost = TRUE]   OBVIOUS
    <3>2. Probed(x, id, found) = r   BY <1>8, <2>1, <2>4, <3>1 DEF Probed
    <3>3. Kept(GoBack(r, x.sel), x, T)   BY <1>2, <1>3, <2>3, <2>4, <3>1, BackFromEF
    <3> QED BY <1>3, <1>5, <1>6, <3>2, <3>3
  <2>5. CASE x.tree[x.sel] # "ef"
    <3>1. PICK f : f = Append(x.sel, id)   OBVIOUS
    <3>2. PICK r : r = _select_post([x EXCEPT !.at = h, !.tree = Added(@, f, T[h])], f, h)   OBVIOUS
    <3>3. Probed(x, id, found) = r   BY <1>3, <1>8, <2>1, <2>5, <3>1, <3>2 DEF Probed
    <3>4. x.tree[x.sel] = "df"   BY <1>2, <2>5, ValidIs, TreeIs
    <3>5. Valid(r, T) /\ Agree(r, T) /\ DOMAIN x.tree \subseteq DOMAIN r.tree /\ ~r.raised
      <4>1. named(x.tree, x.sel, id) = {}   BY <1>3
      <4>2. Goes(r, x, T)   BY <1>2, <2>3, <3>1, <3>2, <3>4, <4>1, ProbedFromDF
      <4> QED BY <1>3, <4>2 DEF Goes
    <3>6. GoBack(r, st.sel) = r   BY <3>5 DEF GoBack
    <3> QED BY <1>3, <1>5, <3>3, <3>5, <3>6 DEF Kept
  <2> QED BY <2>4, <2>5
<1> QED BY <1>7, <1>8

LEMMA SelectKeeps ==
  ASSUME NEW st, NEW T, NEW id, Valid(st, T), Agree(st, T), id \in STRING
  PROVE  Kept(select(st, id), st, T)
BY SelectKnown, SelectUnknown

\* The MF can be selected if the card refuses nothing.
LEMMA SelectMF ==
  ASSUME NEW st, NEW T, Valid(st, T), Agree(st, T), refused = {}, AppsAssured
  PROVE  ~select(st, Last(MF)).raised
<1>1. /\ Knows(st.tree, T) /\ CardOk(T) /\ FileTree(st.tree) /\ TreeInv(st.tree)
      /\ KnownApps \subseteq DOMAIN st.tree /\ st.sel \in DOMAIN st.tree
  BY ValidIs DEF Valid
<1>2. Last(MF) = "3f00" /\ named(st.tree, st.sel, Last(MF)) = {MF} /\ MF \in DOMAIN st.tree
  BY <1>1, NamedIs, MFIs, TreeIs
<1>3. OneOf({MF}) = MF   BY DEF OneOf
<1>4. LeadsTo(T, MF) # {}   BY <1>1, LeadsOn, MFIs
<1>5. ~select_file(st, MF).raised   BY <1>2, <1>4, SelectFileArrives
<1>6. select(st, Last(MF)) = GoBack(select_file(st, MF), st.sel)   BY <1>2, <1>3 DEF select
<1> QED BY <1>5, <1>6 DEF GoBack

-----------------------------------------------------------------------------
(* Paths that the user enters, and resets *)

\* What select makes of the names of a path so far.
Entered(st, T) ==
  {r \in States(T) : /\ Valid(r, T) /\ DOMAIN st.tree \subseteq DOMAIN r.tree
                     /\ Agree(r, T) \/ (Strays(r, T) /\ refused # {})}

\* One name of a path.
Enter(r, id) == IF r.raised THEN r ELSE select(r, id)

LEMMA EnterIs ==
  ASSUME NEW st, NEW r, NEW T, NEW id, r \in Entered(st, T), id \in STRING
  PROVE  Enter(r, id) \in Entered(st, T)
<1>1. CASE r.raised   BY <1>1 DEF Enter
<1>2. CASE ~r.raised
  <2>1. PICK y : y = select(r, id)   OBVIOUS
  <2>2. Valid(r, T) /\ Agree(r, T) /\ DOMAIN st.tree \subseteq DOMAIN r.tree   BY <1>2 DEF Entered, Strays
  <2>3. Kept(y, r, T)   BY <2>1, <2>2, SelectKeeps
  <2>4. /\ Valid(y, T) /\ DOMAIN r.tree \subseteq DOMAIN y.tree
        /\ Agree(y, T) \/ (Strays(y, T) /\ refused # {})
    BY <2>3 DEF Kept
  <2>5. y \in States(T)   BY <2>4 DEF Valid
  <2> QED BY <1>2, <2>1, <2>2, <2>4, <2>5 DEF Entered, Enter
<1> QED BY <1>1, <1>2

LEMMA SelectPathKeeps ==
  ASSUME NEW st, NEW T, NEW ids, Valid(st, T), Agree(st, T), ids \in Seq(STRING)
  PROVE  Kept(selectPath(st, ids), st, T)
<1> DEFINE N == Len(ids)
           X == Entered(st, T)
           IsGo(w) == w = [n \in 0 .. N |-> IF n = 0 THEN st ELSE Enter(w[n - 1], ids[n])]
           step == [kr \in (1 .. N) \X X |-> Enter(kr[2], ids[kr[1]])]
           go == CHOOSE w : IsGo(w)
<1>0. N \in Nat /\ \A k \in 1 .. N : ids[k] \in STRING   BY LenProperties
<1>s. \A k \in 1 .. N, r \in X : Enter(r, ids[k]) \in X
  <2> SUFFICES ASSUME NEW k \in 1 .. N, NEW r \in X PROVE Enter(r, ids[k]) \in X   OBVIOUS
  <2>1. PICK id \in STRING : id = ids[k]   BY <1>0
  <2>2. Enter(r, id) \in Entered(st, T)   BY EnterIs
  <2> QED BY <2>1, <2>2
<1>1. step \in Steps(N, X)
  <2> HIDE DEF N, X
  <2> QED BY <1>s DEF Steps
<1>2. PICK f \in [0 .. N -> X] : Iterates(f, st, step, N)
  <2>1. st \in X   BY DEF Entered, Valid
  <2> HIDE DEF step, N, X
  <2> QED BY <1>0, <1>1, <2>1, Recursion
<1> HIDE DEF N, X
<1>3. IsGo(f)
  <2>1. f[0] = st   BY <1>2 DEF Iterates
  <2>2. ASSUME NEW k \in 1 .. N PROVE f[k] = Enter(f[k - 1], ids[k])
    <3>1. f[k] = step[<<k, f[k - 1]>>]
      <4> HIDE DEF step
      <4> QED BY <1>2 DEF Iterates
    <3>2. k - 1 \in 0 .. N   BY <1>0
    <3>3. <<k, f[k - 1]>> \in (1 .. N) \X X   BY <1>2, <3>2
    <3> QED BY <3>1, <3>3
  <2> HIDE DEF step
  <2>3. \A k \in 0 .. N : f[k] = IF k = 0 THEN st ELSE Enter(f[k - 1], ids[k])
    BY <1>0, <2>1, <2>2
  <2>4. f = [k \in 0 .. N |-> f[k]]   OBVIOUS
  <2> QED BY <2>3, <2>4
<1>4. IsGo(go)
  <2> HIDE DEF IsGo
  <2> QED BY <1>3
<1>5. selectPath(st, ids) = GoBack(go[N], st.sel)   BY DEF selectPath, Enter, N
<1> HIDE DEF go
<1>6. /\ go[0] = st
      /\ \A k \in 1 .. N : go[k] = Enter(go[k - 1], ids[k])
  <2>1. go[0] = st   BY <1>0, <1>4
  <2>2. \A k \in 1 .. N : k \in 0 .. N /\ k # 0   BY <1>0
  <2> QED BY <1>4, <2>1, <2>2
<1> DEFINE P == {n \in 0 .. N : go[n] \in X}
<1>7. 0 .. N \subseteq P
  <2>1. 0 \in P   BY <1>0, <1>6 DEF X, Entered, Valid
  <2>2. ASSUME NEW n \in 0 .. N - 1, n \in P PROVE n + 1 \in P
    <3>1. n + 1 \in 1 .. N /\ n + 1 - 1 = n /\ n + 1 \in 0 .. N   BY <1>0
    <3>2. go[n + 1] = Enter(go[n], ids[n + 1]) /\ go[n] \in X   BY <1>6, <2>2, <3>1
    <3>3. go[n + 1] \in X   BY <1>s, <3>1, <3>2
    <3> QED BY <3>1, <3>3
  <2> HIDE DEF P
  <2> QED BY <1>0, <2>1, <2>2, UpTo
<1>8. PICK y : y = go[N]   OBVIOUS
<1>9. y \in X   BY <1>0, <1>7, <1>8
<1>10. /\ Valid(y, T) /\ DOMAIN st.tree \subseteq DOMAIN y.tree
       /\ Agree(y, T) \/ (Strays(y, T) /\ refused # {})
  BY <1>9 DEF X, Entered
<1>11. CASE Agree(y, T)   BY <1>5, <1>8, <1>10, <1>11, GoBackKeeps
<1>12. CASE ~Agree(y, T)
  <2>1. PICK r : r = GoBack(y, st.sel)   OBVIOUS
  <2>2. st.sel \in DOMAIN y.tree   BY <1>10, ValidIs
  <2>3. Valid(r, T) /\ r.tree = y.tree /\ (Agree(r, T) \/ Strays(r, T))
    BY <1>10, <1>12, <2>1, <2>2, StraysBack
  <2>4. Kept(r, st, T)   BY <1>10, <1>12, <2>3 DEF Kept
  <2> QED BY <1>5, <1>8, <2>1, <2>4
<1> QED BY <1>11, <1>12

\* A path of one SELECT.
Stepped(r, st, t, s) ==
  /\ s # {} => /\ r.sel = t /\ r.at \in s /\ r.fcp = r.at /\ ~r.raised /\ ~r.lost
               /\ r.adf = IF IsADF(t) THEN t ELSE st.adf
  /\ s = {} => /\ r.sel = st.sel /\ r.at = st.at /\ r.fcp = st.fcp /\ r.raised
               /\ (r.lost <=> st.lost)
               /\ r.adf = IF IsADF(st.sel) THEN st.sel ELSE st.adf
  /\ r.tree = st.tree /\ r.files = st.files

LEMMA GoToInOne ==
  ASSUME NEW st, NEW T, NEW t, NEW s, Valid(st, T), t \in DOMAIN st.tree, t = MF \/ IsADF(t),
         s = WalkStep(T, refused, {st.at}, t)
  PROVE  GoTo(st, t) \in States(T) /\ Stepped(GoTo(st, t), st, t, s)
<1>1. PICK q : q = build_select_path_to(st.sel, t)   OBVIOUS
<1>2. Len(q) = 1 /\ q[1] = t /\ q \in Seq(Path)
  <2>1. WayTo(st, t, q)   BY <1>1, PathIsOk
  <2>2. CASE t = MF
    <3>1. q = <<MF>>   BY <1>1, <2>2 DEF build_select_path_to
    <3> QED BY <2>1, <2>2, <3>1 DEF WayTo
  <2>3. CASE IsADF(t)   BY <2>1, <2>3 DEF WayTo
  <2> QED BY <2>2, <2>3
<1>3. PICK w : w = CardWalk(T, refused, st.at, q)   OBVIOUS
<1>4. PICK n : /\ LastFound(w, n, Len(q)) /\ n \in Nat
               /\ GoneTo(st, GoTo(st, t), q, w, n)
               /\ GoTo(st, t) \in States(T)
               /\ EndsAt(st, q, n) \in DOMAIN st.tree /\ OneOf(w[n]) \in w[n]
               /\ OneOf(w[n]) \in DOMAIN T
  BY <1>1, <1>3, GoToIs
<1>5. w[0] = {st.at} /\ w[1] = s
  <2>1. st.at \in DOMAIN T /\ CardOk(T)   BY ValidIs
  <2>2. w[0] = {st.at} /\ \A k \in 1 .. Len(q) : w[k] = WalkStep(T, refused, w[k - 1], q[k])
    BY <1>2, <1>3, <2>1, WalkIs
  <2>3. 1 \in 1 .. Len(q) /\ 1 - 1 = 0   BY <1>2
  <2>4. w[1] = WalkStep(T, refused, w[0], q[1])   BY <2>2, <2>3
  <2> QED BY <1>2, <2>2, <2>4
<1>6. n \in 0 .. 1 /\ w[n] # {} /\ \A m \in n + 1 .. 1 : w[m] = {}   BY <1>2, <1>4 DEF LastFound
<1>x. PICK x : x = GoTo(st, t)   OBVIOUS
<1>7. CASE s # {}
  <2>1. n # 0
    <3>1. n = 0 => 1 \in n + 1 .. 1   OBVIOUS
    <3> QED BY <1>5, <1>6, <1>7, <3>1
  <2>2. n = 1   BY <1>6, <2>1
  <2>3. GoneTo(st, x, q, w, 1)   BY <1>4, <1>x, <2>2
  <2>4. EndsAt(st, q, 1) = t   BY <1>2 DEF EndsAt
  <2>5. OneOf(w[1]) \in s   BY <1>4, <1>5, <2>2
  <2>6. /\ x.sel = t /\ x.adf = IF IsADF(t) THEN t ELSE st.adf
        /\ x.fcp = OneOf(w[1]) /\ x.at = OneOf(w[1]) /\ x.files = st.files /\ x.tree = st.tree
        /\ ~x.raised /\ ~x.lost
    BY <1>2, <2>3, <2>4 DEF GoneTo
  <2>7. Stepped(x, st, t, s)   BY <1>7, <2>5, <2>6 DEF Stepped
  <2> QED BY <1>4, <1>x, <2>7
<1>8. CASE s = {}
  <2>1. n = 0
    <3>1. n # 1   BY <1>5, <1>6, <1>8
    <3> QED BY <1>6, <3>1
  <2>2. OneOf(w[n]) = st.at   BY <1>4, <1>5, <2>1
  <2>3. GoneTo(st, x, q, w, 0)   BY <1>4, <1>x, <2>1
  <2>4. EndsAt(st, q, 0) = st.sel   BY DEF EndsAt
  <2>5. OneOf(w[0]) = st.at   BY <2>1, <2>2
  <2>6. /\ x.sel = st.sel /\ x.adf = IF IsADF(st.sel) THEN st.sel ELSE st.adf
        /\ x.fcp = st.fcp /\ x.at = st.at /\ x.files = st.files /\ x.tree = st.tree
        /\ x.raised /\ (x.lost <=> st.lost)
    BY <1>2, <2>3, <2>4, <2>5 DEF GoneTo
  <2>7. Stepped(x, st, t, s)   BY <1>8, <2>6 DEF Stepped
  <2> QED BY <1>4, <1>x, <2>7
<1> QED BY <1>4, <1>7, <1>8

\* The card is at the MF, whatever pySim believes.
AtMF(x, st) ==
  /\ x.sel = st.sel /\ x.adf = st.adf /\ x.at = MF /\ x.files = st.files /\ x.tree = st.tree
  /\ ~x.lost

\* pySim is at the MF, too.
Home(r, st, T) == r \in States(T) /\ r.sel = MF /\ r.at = MF /\ r.fcp = MF /\ r.tree = st.tree /\ ~r.raised

\* From an application with files, or none, the card selects the MF.
LEMMA HomeIs ==
  ASSUME NEW x, NEW T, Valid(x, T), ~Mute(T, x.at), MF \notin refused
  PROVE  Home(GoTo(x, MF), x, T)
<1>1. PICK s : s = WalkStep(T, refused, {x.at}, MF)   OBVIOUS
<1>2. s = {MF}
  <2>1. Knows(x.tree, T) /\ CardOk(T) /\ x.at \in DOMAIN T /\ MF \in DOMAIN x.tree /\ MF \in Path
    BY ValidIs, TreeIs, MFIs
  <2>2. MF \in Found(T, x.at, MF)   BY <2>1, StepAnywhere
  <2>3. Found(T, x.at, MF) \subseteq {MF}   BY <2>1, FoundIs
  <2>4. s = Found(T, x.at, MF) \ refused   BY <1>1, OneStep
  <2> QED BY <2>2, <2>3, <2>4
<1>3. MF \in DOMAIN x.tree   BY ValidIs, TreeIs
<1>4. GoTo(x, MF) \in States(T) /\ Stepped(GoTo(x, MF), x, MF, s)   BY <1>1, <1>3, GoToInOne
<1> QED BY <1>2, <1>4 DEF Stepped, Home

LEMMA MFNotMute ==
  ASSUME NEW T, FileTree(T)
  PROVE  ~Mute(T, MF)
<1>1. CardDf(T, MF) = MF   BY TreeIs DEF CardDf
<1> QED BY <1>1, MFIs DEF Mute

\* Only one file is refused.
LEMMA OneRefused ==
  ASSUME NEW a, NEW b, refused \in Refusals, a \in refused, b \in refused
  PROVE  a = b
BY DEF Refusals

\* In an application without file system, and the card reset: another
\* application is selected, or this one again.
LEMMA ResetTrapped ==
  ASSUME NEW x, NEW st, NEW T, NEW y, Valid(st, T), Agree(st, T), Valid(x, T), AtMF(x, st),
         Trapped(x, MF), refused \in Refusals, MF \notin refused, y = select_file(x, MF)
  PROVE  \/ Home(y, st, T)
         \/ y.raised /\ refused # {} /\ Valid(y, T) /\ Agree(y, T) /\ y.tree = st.tree
<1>1. PICK a : a = OneOf(AppsWithFs)   OBVIOUS
<1>2. /\ a \in KnownApps /\ a[2] \notin AppsWithoutFs /\ a \in DOMAIN x.tree /\ IsADF(a)
      /\ IsADF(x.sel) /\ x.sel = x.adf /\ x.sel[2] \in AppsWithoutFs /\ a # x.sel
  BY <1>1, EscapeIs
<1>3. /\ Knows(x.tree, T) /\ CardOk(T) /\ FileTree(T) /\ x.at = MF /\ MF \in DOMAIN T
      /\ x.sel \in DOMAIN x.tree /\ CardInv(T) /\ a \in DOMAIN T
  BY <1>2, ValidIs, TreeIs DEF Valid, AtMF, CardInv
<1>4. x.sel \in DOMAIN T /\ LeadsTo(T, x.sel) = {x.sel}
  <2>1. x.sel \in KnownApps   BY <1>2, <1>3 DEF Valid, TreeInv
  <2> QED BY <1>3, <2>1, AppIs
<1>5. PICK s : s = WalkStep(T, refused, {x.at}, a)   OBVIOUS
<1>6. s = {a} \ refused
  <2>1. Found(T, MF, a) = {a} \cap DOMAIN T   BY <1>2 DEF Found
  <2>2. s = Found(T, MF, a) \ refused   BY <1>3, <1>5, OneStep
  <2> QED BY <1>3, <2>1, <2>2
<1>7. PICK z : z = GoTo(x, a)   OBVIOUS
<1>8. z \in States(T) /\ Stepped(z, x, a, s)   BY <1>2, <1>5, <1>7, GoToInOne
<1>9. y = GoOnTo(OrBackTo(z, x.sel), MF)   BY <1>1, <1>7 DEF select_file, EscapeApp
<1>10. CASE a \notin refused
  <2>1. z.sel = a /\ z.at = a /\ ~z.raised /\ z.tree = x.tree /\ z.adf = a   BY <1>2, <1>6, <1>8, <1>10 DEF Stepped
  <2>2. Valid(z, T)
    <3>1. AdfInv(z.sel, z.adf)   BY <2>1 DEF AdfInv
    <3> QED BY <1>2, <1>3, <1>8, <2>1, <3>1 DEF Valid
  <2>3. ~Mute(T, z.at)
    <3>1. CardDf(T, a) = a   BY <1>2, <1>3, TreeIs, CardDfIs
    <3> QED BY <1>2, <2>1, <3>1 DEF Mute
  <2>4. y = GoTo(z, MF)   BY <1>9, <2>1 DEF GoOnTo, OrBackTo
  <2>5. Home(y, z, T)   BY <2>2, <2>3, <2>4, HomeIs
  <2> QED BY <2>1, <2>5 DEF Home, AtMF
<1>11. CASE a \in refused
  <2>1. /\ z.sel = x.sel /\ z.at = MF /\ z.fcp = x.fcp /\ z.raised /\ z.tree = x.tree /\ z.adf = x.adf
        /\ z.files = x.files /\ ~z.lost
    BY <1>2, <1>3, <1>6, <1>8, <1>11 DEF Stepped, AtMF
  <2>2. Valid(z, T)
    <3>1. AdfInv(z.sel, z.adf)   BY <2>1 DEF Valid
    <3> QED BY <1>3, <1>8, <2>1, <3>1 DEF Valid
  <2>3. PICK s2 : s2 = WalkStep(T, refused, {z.at}, x.sel)   OBVIOUS
  <2>4. s2 = {x.sel}
    <3>1. Found(T, z.at, x.sel) = {x.sel} \cap DOMAIN T   BY <1>2 DEF Found
    <3>2. s2 = Found(T, z.at, x.sel) \ refused   BY <2>3, OneStep
    <3>3. x.sel \notin refused   BY <1>2, <1>11, OneRefused
    <3> QED BY <1>4, <3>1, <3>2, <3>3
  <2>5. PICK u : u = GoTo(z, x.sel)   OBVIOUS
  <2>6. u \in States(T) /\ Stepped(u, z, x.sel, s2)
    <3>1. x.sel \in DOMAIN z.tree   BY <1>3, <2>1
    <3> QED BY <1>2, <2>2, <2>3, <2>5, <3>1, GoToInOne
  <2>7. u.sel = x.sel /\ u.at = x.sel /\ u.fcp = x.sel /\ u.tree = x.tree /\ u.adf = x.sel /\ ~u.lost
    BY <1>2, <2>1, <2>4, <2>6 DEF Stepped
  <2>8. Valid(u, T) /\ Agree(u, T)
    <3>1. AdfInv(u.sel, u.adf)   BY <2>7 DEF AdfInv
    <3>2. Valid(u, T)   BY <1>3, <1>4, <2>6, <2>7, <3>1 DEF Valid
    <3>3. Agree(u, T)   BY <1>4, <2>7 DEF Agree
    <3> QED BY <3>2, <3>3
  <2>9. PICK v : v = [u EXCEPT !.raised = TRUE]   OBVIOUS
  <2>10. SameBut(v, u, TRUE) /\ Valid(v, T) /\ Agree(v, T)   BY <2>8, <2>9, SetRaisedIs
  <2>11. v.raised /\ v.tree = st.tree   BY <2>7, <2>10 DEF SameBut, AtMF
  <2>12. y = v   BY <1>9, <2>1, <2>5, <2>9, <2>11 DEF GoOnTo, OrBackTo
  <2> QED BY <1>11, <2>10, <2>11, <2>12
<1> QED BY <1>10, <1>11

\* After a reset pySim is at the MF, too, or the command has failed and pySim and the
\* card agree nevertheless.
LEMMA ResetAgrees ==
  ASSUME NEW x, NEW st, NEW T, NEW r, Valid(st, T), Agree(st, T), x \in States(T), AtMF(x, st),
         x.fcp = st.fcp, refused \in Refusals, MF \notin Refusable, r = select(x, Last(MF))
  PROVE  \/ Home(r, st, T)
         \/ r.raised /\ refused # {} /\ Valid(r, T) /\ Agree(r, T) /\ r.tree = st.tree
<1>1. Valid(x, T)
  <2>1. MF \in DOMAIN T   BY ValidIs, TreeIs
  <2> QED BY <2>1 DEF Valid, AtMF
<1>2. MF \notin refused   BY DEF Refusals
<1>3. PICK y : y = select_file(x, MF)   OBVIOUS
<1>4. r = GoBack(y, x.sel)
  <2>1. FileTree(x.tree) /\ TreeInv(x.tree) /\ KnownApps \subseteq DOMAIN x.tree /\ x.sel \in DOMAIN x.tree
    BY <1>1, ValidIs DEF Valid
  <2>2. named(x.tree, x.sel, Last(MF)) = {MF}   BY <2>1, NamedIs, MFIs
  <2>3. OneOf({MF}) = MF   BY DEF OneOf
  <2> QED BY <1>3, <2>2, <2>3 DEF select
<1>5. \/ Home(y, st, T)
      \/ y.raised /\ refused # {} /\ Valid(y, T) /\ Agree(y, T) /\ y.tree = st.tree
  <2>1. CASE Trapped(x, MF)   BY <1>1, <1>2, <1>3, <2>1, ResetTrapped
  <2>2. CASE ~Trapped(x, MF)
    <3>1. PICK z : z = [x EXCEPT !.raised = FALSE]   OBVIOUS
    <3>2. SameBut(z, x, FALSE) /\ Valid(z, T)   BY <1>1, <3>1, SetRaisedIs
    <3>3. z.at = MF /\ ~z.raised /\ z.tree = st.tree   BY <3>2 DEF SameBut, AtMF
    <3>4. y = GoTo(z, MF)   BY <1>3, <2>2, <3>1, <3>3 DEF select_file, EscapeApp, GoOnTo
    <3>5. ~Mute(T, z.at)   BY <3>3, ValidIs, MFNotMute
    <3>6. Home(y, z, T)   BY <1>2, <3>2, <3>4, <3>5, HomeIs
    <3> QED BY <3>3, <3>6 DEF Home
  <2> QED BY <2>1, <2>2
<1>6. CASE ~y.raised
  <2>1. r = y   BY <1>4, <1>6 DEF GoBack
  <2> QED BY <1>5, <1>6, <2>1
<1>7. CASE y.raised
  <2>1. refused # {} /\ Valid(y, T) /\ Agree(y, T) /\ y.tree = st.tree   BY <1>5, <1>7 DEF Home
  <2>2. x.sel \in DOMAIN y.tree   BY <1>1, <2>1, ValidIs DEF AtMF
  <2>3. Settled(r, T, y.tree) /\ r.raised   BY <1>4, <1>7, <2>1, <2>2, GoBackAgrees
  <2> QED BY <2>1, <2>3 DEF Settled
<1> QED BY <1>6, <1>7

-----------------------------------------------------------------------------
(* A DF that the user creates *)

\* The card with another DF in one of its DFs.
LEMMA CardAdded ==
  ASSUME NEW T, NEW U, NEW d, NEW f, CardInv(T), d \in DOMAIN T, T[d] = "df",
         f = Append(d, NewFid), f \notin DOMAIN T, U = Added(T, f, "df"), FidsApart(U)
  PROVE  /\ CardInv(U) /\ Grown(U, T, f, "df")
         /\ f \in Path /\ ~IsADF(f) /\ Parent(f) = d /\ f # MF /\ Last(f) = NewFid /\ f # d
<1>0. CardOk(T) /\ FileTree(T) /\ SameKinds(T, T) /\ d \in Path   BY TreeIs DEF CardInv, CardOk
<1>1. NewFid \in STRING /\ NewFid # "3f00" /\ NewFid \notin Apps   BY RuntimeAssumption
<1>2. /\ f \in Path /\ Len(f) = Len(d) + 1 /\ Front(f) = d /\ Last(f) = NewFid /\ ~IsADF(f)
      /\ Parent(f) = d /\ f # MF
  BY <1>0, <1>1, AppendIs
<1>3. Len(f) > 1 /\ f # d
  <2>1. Len(d) \in Nat /\ Len(d) >= 1   BY <1>0, PathIs
  <2> QED BY <1>2, <2>1
<1>4. Place(T, f)   BY <1>0, <1>2, <1>3 DEF Place
<1>5. Grown(U, T, f, "df")   BY <1>0, <1>4, AddedIs
<1>6. /\ DOMAIN U = DOMAIN T \cup {f} /\ U[f] = "df" /\ FileTree(U)
      /\ \A g \in DOMAIN T : U[g] = T[g]
  BY <1>5 DEF Grown
<1>7. \A g \in DOMAIN T : Last(g) = NewFid => T[g] = "df"   BY DEF CardInv
<1>8. SameKinds(U, U)
  <2> SUFFICES ASSUME NEW g \in DOMAIN U, NEW h \in DOMAIN U, Last(g) = Last(h) PROVE U[g] = U[h]
    BY DEF SameKinds
  <2>1. CASE g \in DOMAIN T /\ h \in DOMAIN T
    <3>1. T[g] = T[h]   BY <1>0, <2>1 DEF SameKinds
    <3> QED BY <1>6, <2>1, <3>1
  <2>2. \A k \in DOMAIN U : Last(k) = NewFid => U[k] = "df"   BY <1>6, <1>7
  <2>3. CASE g = f \/ h = f
    <3>1. Last(g) = NewFid /\ Last(h) = NewFid   BY <1>2, <2>3
    <3> QED BY <2>2, <3>1
  <2> QED BY <1>6, <2>1, <2>3
<1>9. CardOk(U)   BY <1>6, <1>8 DEF CardOk
<1>10. KnownApps \subseteq DOMAIN U   BY <1>6 DEF CardInv
<1>11. \A g \in DOMAIN U : Last(g) = NewFid => U[g] = "df"   BY <1>6, <1>7
<1>12. CardInv(U)   BY <1>9, <1>10, <1>11 DEF CardInv
<1> QED BY <1>2, <1>3, <1>5, <1>12

\* A card that has more files.
Larger(U, T) == CardInv(U) /\ CardInv(T) /\ DOMAIN T \subseteq DOMAIN U /\ \A f \in DOMAIN T : U[f] = T[f]

LEMMA LargerLeads ==
  ASSUME NEW T, NEW U, Larger(U, T), NEW f \in Path
  PROVE  LeadsTo(T, f) \subseteq LeadsTo(U, f)
BY LeadsStill DEF Larger, CardInv

\* pySim knows what it knew of the smaller card.
LEMMA LargerKnows ==
  ASSUME NEW R, NEW T, NEW U, NEW d, NEW f, CardInv(T), Knows(R, T), TreeInv(R),
         d \in DOMAIN T, T[d] = "df", f = Append(d, NewFid), f \notin DOMAIN T,
         U = Added(T, f, "df"), FidsApart(U)
  PROVE  Larger(U, T) /\ Knows(R, U)
<1>2. CardInv(U) /\ Grown(U, T, f, "df") /\ f \in Path /\ Last(f) = NewFid   BY CardAdded
<1>3. DOMAIN U = DOMAIN T \cup {f} /\ U[f] = "df" /\ \A g \in DOMAIN T : U[g] = T[g]   BY <1>2 DEF Grown
<1>4. Larger(U, T)   BY <1>2, <1>3 DEF Larger
<1>5. Last(f) = NewFid   BY <1>2
<1>6. SameKinds(R, U)
  <2> SUFFICES ASSUME NEW h \in DOMAIN R, NEW g \in DOMAIN U, Last(h) = Last(g) PROVE R[h] = U[g]
    BY DEF SameKinds
  <2>1. CASE g = f
    <3>1. Last(h) = NewFid   BY <1>5, <2>1
    <3>2. R[h] = "df"   BY <3>1 DEF TreeInv
    <3> QED BY <1>3, <2>1, <3>2
  <2>2. CASE g # f
    <3>1. g \in DOMAIN T /\ U[g] = T[g]   BY <1>3, <2>2
    <3>2. R[h] = T[g]   BY <3>1 DEF Knows, SameKinds
    <3> QED BY <3>1, <3>2
  <2> QED BY <2>1, <2>2
<1>7. Knows(R, U)   BY <1>2, <1>6 DEF Knows, CardInv
<1> QED BY <1>4, <1>7

\* The DFs in which pySim and the card are.
LEMMA CwdIs ==
  ASSUME NEW st, NEW T, NEW f, Valid(st, T), Agree(st, T), f = get_cwd(st.tree, st.sel)
  PROVE  /\ f \in DOMAIN st.tree /\ CardDf(T, st.at) \in LeadsTo(T, f)
         /\ f # st.sel => f = Parent(st.sel) /\ ~IsADF(st.sel) /\ ~Mute(T, CardDf(T, st.at))
         /\ f = MF => Parent(st.sel) = MF /\ ~IsADF(st.sel)
<1>1. /\ Knows(st.tree, T) /\ CardOk(T) /\ FileTree(T) /\ FileTree(st.tree) /\ st.sel \in DOMAIN st.tree
      /\ st.at \in DOMAIN T /\ st.sel \in Path /\ st.at \in LeadsTo(T, st.sel)
  BY ValidIs DEF Agree
<1>2. T[st.at] = st.tree[st.sel]   BY <1>1, LeadsAlike
<1>3. CASE st.tree[st.sel] = "df"
  <2>1. f = st.sel /\ CardDf(T, st.at) = st.at   BY <1>2, <1>3 DEF CardDf, get_cwd
  <2>2. f = MF => Parent(st.sel) = MF /\ ~IsADF(st.sel)   BY <2>1, MFIs
  <2> QED BY <1>1, <2>1, <2>2
<1>4. CASE st.tree[st.sel] # "df"
  <2>1. T[st.at] = "ef" /\ st.tree[st.sel] = "ef"   BY <1>1, <1>2, <1>4, TreeIs
  <2>2. st.sel # MF /\ ~IsADF(st.sel)   BY <1>1, <2>1, TreeIs
  <2>3. Len(st.sel) > 1 /\ Parent(st.sel) = Front(st.sel)   BY <1>1, <2>2, MFIs
  <2>4. f = Front(st.sel)   BY <1>4, <2>3 DEF get_cwd
  <2>5. f \in DOMAIN st.tree /\ st.tree[f] = "df"   BY <1>1, <2>3, <2>4, TreeIs
  <2>6. PICK g \in LeadsTo(T, f) : st.at \in Found(T, g, st.sel)
    BY <1>1, <2>3, <2>4, LeadsAlike
  <2>7. g \in DOMAIN T /\ T[g] = "df"   BY <1>1, <2>5, LeadsAlike
  <2>8. st.at \in InReach(T, g)   BY <1>1, <2>2, <2>6, <2>7, FoundIs
  <2>9. CardDf(T, g) = g   BY <2>7 DEF CardDf
  <2>10. CardDf(T, st.at) = g   BY <1>1, <2>1, <2>7, <2>8, <2>9, ReachedEF
  <2>11. ~Mute(T, g)   BY <2>8, ReachIs
  <2> QED BY <2>2, <2>3, <2>4, <2>5, <2>6, <2>10, <2>11
<1> QED BY <1>3, <1>4

\* From the new DF the card finds no other files by FID than from the file before.
LEMMA NewReach ==
  ASSUME NEW T, NEW U, NEW g, NEW f, CardInv(T), Larger(U, T), g \in DOMAIN T, ~Mute(T, g),
         Grown(U, T, f, "df"), f \in Path, ~IsADF(f), f # MF, Parent(f) = CardDf(T, g), f # CardDf(T, g),
         f \notin DOMAIN T
  PROVE  InReach(U, f) \subseteq InReach(U, g) /\ ~Mute(U, f)
<1>1. /\ DOMAIN U = DOMAIN T \cup {f} /\ U[f] = "df" /\ FileTree(T) /\ FileTree(U)
      /\ \A x \in DOMAIN T : U[x] = T[x]
  BY DEF Grown, CardInv, CardOk
<1>2. PICK d : d = CardDf(T, g)   OBVIOUS
<1>3. CardDf(U, g) = d /\ CardDf(U, f) = f   BY <1>1, <1>2 DEF CardDf
<1>4. ~Mute(U, g) /\ ~Mute(U, f)   BY <1>2, <1>3 DEF Mute
<1>5. ASSUME NEW x \in InReach(U, f) PROVE x \in InReach(U, g)
  <2>1. /\ x \in DOMAIN U /\ ~IsADF(x)
        /\ \/ x \in {MF, f}
           \/ x # MF /\ Parent(x) = f
           \/ x = Parent(f)
           \/ x # MF /\ Parent(x) = Parent(f) /\ U[x] = "df"
    BY <1>3, ReachIs
  <2>2. ~(x # MF /\ Parent(x) = f)
    <3> SUFFICES ASSUME x # MF, Parent(x) = f PROVE FALSE   OBVIOUS
    <3>1. x # f   BY <1>2
    <3>2. x \in DOMAIN T   BY <1>1, <2>1, <3>1
    <3> QED BY <1>1, <3>2, TreeIs
  <2>3. x = MF \/ x = d \/ (x # MF /\ Parent(x) = d)   BY <1>2, <2>1, <2>2
  <2> QED BY <1>3, <1>4, <2>1, <2>3, ReachIs
<1> QED BY <1>4, <1>5

\* After the creation of a DF pySim selects the file again that it had selected, unless
\* the first SELECT of the way is refused or finds nothing.
Created(r, st, U, T) ==
  /\ Larger(U, T) /\ Valid(r, U) /\ r.tree = st.tree
  /\ r.lost \/ (Agree(r, U) /\ (refused = {} => ~r.raised))

\* With all else found, pySim and the card agree, or pySim still does not know.
LEMMA LostOrBack ==
  ASSUME NEW x, NEW U, NEW t, NEW r, Valid(x, U), x.lost, t \in DOMAIN x.tree,
         InMute(x.adf) => IsADF(t), OnlyAlong(x, U, t), LeadsTo(U, x.sel) # {}, LeadsTo(U, t) # {},
         r = select_file(x, t)
  PROVE  /\ Valid(r, U) /\ r.tree = x.tree
         /\ r.lost \/ (Agree(r, U) /\ (refused = {} => ~r.raised))
<1>1. PICK p : p = build_select_path_to(x.sel, t)[1]   OBVIOUS
<1>2. /\ Valid(r, U) /\ r.tree = x.tree
      /\ Agree(r, U) \/ Stayed(r, x)
      /\ Found(U, x.at, p) = {} => Stayed(r, x)
      /\ refused = {} /\ Found(U, x.at, p) # {} => ~r.raised
  BY <1>1, FromAfar
<1> QED BY <1>2 DEF Stayed

LEMMA CreateAgrees ==
  ASSUME NEW st, NEW T, NEW f, NEW U, NEW x, NEW r, Valid(st, T), Agree(st, T),
         f = Append(CardDf(T, st.at), NewFid), Parent(f) \in CreateIn, f \notin DOMAIN T,
         U = Added(T, f, "df"), FidsApart(U),
         x = [st EXCEPT !.at = f, !.files = U, !.lost = TRUE], r = select_file(x, st.sel)
  PROVE  Created(r, st, U, T)
<1>1. /\ Knows(st.tree, T) /\ CardOk(T) /\ FileTree(T) /\ FileTree(st.tree) /\ TreeInv(st.tree)
      /\ CardInv(T) /\ st.sel \in DOMAIN st.tree /\ st.at \in DOMAIN T /\ st \in States(T)
      /\ st.at \in LeadsTo(T, st.sel) /\ st.sel \in Path
  BY ValidIs DEF Valid, Agree
<1>2. PICK d : d = CardDf(T, st.at)   OBVIOUS
<1>3. d \in DOMAIN T /\ T[d] = "df" /\ f = Append(d, NewFid)   BY <1>1, <1>2, CardDfIs
<1>4. Larger(U, T) /\ Knows(st.tree, U)   BY <1>1, <1>3, LargerKnows
<1>5. /\ CardInv(U) /\ Grown(U, T, f, "df") /\ f \in Path /\ ~IsADF(f) /\ f # MF /\ Parent(f) = d
      /\ f # d
  BY <1>1, <1>3, CardAdded
<1>6. CardOk(U) /\ FileTree(U) /\ f \in DOMAIN U /\ U[f] = "df"   BY <1>5 DEF Grown, CardInv, CardOk
<1>7. ~Mute(T, st.at)
  <2>1. d \in CreateIn   BY <1>5
  <2>2. IsADF(d) => d[2] \notin AppsWithoutFs   BY <2>1, RuntimeAssumption
  <2> QED BY <1>2, <2>2 DEF Mute
<1>8. /\ x \in States(U) /\ x.sel = st.sel /\ x.at = f /\ x.tree = st.tree /\ x.adf = st.adf
      /\ x.lost
  BY <1>1, <1>5 DEF States
<1>9. Valid(x, U)
  <2>1. AdfInv(x.sel, x.adf)   BY <1>8 DEF Valid
  <2> QED BY <1>1, <1>4, <1>5, <1>6, <1>8, <2>1 DEF Valid
<1>10. PICK p : p = build_select_path_to(x.sel, x.sel)[1]   OBVIOUS
<1>11. st.at \in LeadsTo(U, st.sel)   BY <1>1, <1>4, LargerLeads
<1>12. Found(U, f, p) \subseteq LeadsTo(U, p)
  <2>1. CASE IsADF(st.sel)
    <3>1. PICK q : q = build_select_path_to(x.sel, x.sel)   OBVIOUS
    <3>0. x.sel \in DOMAIN x.tree   BY <1>1, <1>8
    <3>2. WayTo(x, x.sel, q)   BY <1>9, <3>0, <3>1, PathIsOk
    <3>3. p = st.sel   BY <1>8, <1>10, <2>1, <3>1, <3>2 DEF WayTo
    <3> QED BY <1>1, <1>4, <1>6, <2>1, <3>3, StepAnywhere
  <2>2. CASE ~IsADF(st.sel)
    <3>1. p = Parent(st.sel)   BY <1>1, <1>8, <1>10, <2>2, PathBack
    <3>2. CASE st.sel = MF
      <4>1. p = MF   BY <3>1, <3>2, MFIs
      <4>2. MF \in DOMAIN st.tree   BY <1>1, TreeIs
      <4> QED BY <1>4, <1>6, <4>1, <4>2, StepAnywhere
    <3>3. CASE st.sel # MF
      <4>1. Len(st.sel) > 1 /\ p = Front(st.sel)   BY <1>1, <3>1, <3>3, MFIs
      <4>2. Found(U, st.at, p) \subseteq LeadsTo(U, p)   BY <1>1, <1>4, <1>11, <4>1, StepUp
      <4>3. p \in Path /\ p \in DOMAIN st.tree   BY <1>1, <4>1, TreeIs
      <4>4. CASE IsADF(p)   BY <1>4, <1>6, <4>3, <4>4, StepAnywhere
      <4>5. CASE ~IsADF(p)
        <5>1. InReach(U, f) \subseteq InReach(U, st.at)
          <6>1. PICK g, k : g = st.at /\ k = f   OBVIOUS
          <6>2. /\ CardInv(T) /\ Larger(U, T) /\ g \in DOMAIN T /\ ~Mute(T, g) /\ Grown(U, T, k, "df")
                /\ k \in Path /\ ~IsADF(k) /\ k # MF /\ k \notin DOMAIN T
                /\ Parent(k) = CardDf(T, g) /\ k # CardDf(T, g)
            BY <1>1, <1>2, <1>4, <1>5, <1>7, <6>1
          <6>3. InReach(U, k) \subseteq InReach(U, g)   BY <6>2, NewReach
          <6> QED BY <6>1, <6>3
        <5>2. st.at \in DOMAIN U   BY <1>1, <1>4 DEF Larger
        <5>3. /\ Found(U, f, p) = {h \in InReach(U, f) : Last(h) = Last(p)}
              /\ Found(U, st.at, p) = {h \in InReach(U, st.at) : Last(h) = Last(p)}
          BY <1>6, <4>3, <4>5, <5>2, FoundIs
        <5> QED BY <4>2, <5>1, <5>3
      <4> QED BY <4>4, <4>5
    <3> QED BY <3>2, <3>3
  <2> QED BY <2>1, <2>2
<1>13. OnlyAlong(x, U, x.sel)   BY <1>8, <1>10, <1>12 DEF OnlyAlong
<1>14. InMute(x.adf) => IsADF(x.sel)
  <2>1. InMute(st.adf) => st.sel = st.adf /\ st.adf \in KnownApps
    BY <1>1 DEF Valid, AdfInv, InMute, States
  <2> QED BY <1>8, <2>1 DEF KnownApps
<1>15. r = select_file(x, x.sel) /\ x.sel \in DOMAIN x.tree   BY <1>1, <1>8
<1>16. LeadsTo(U, x.sel) # {}   BY <1>8, <1>11
<1>17. Valid(r, U) /\ r.tree = x.tree /\ (r.lost \/ (Agree(r, U) /\ (refused = {} => ~r.raised)))
  <2>1. PICK u, t, y : u = x /\ t = x.sel /\ y = r   OBVIOUS
  <2>2. /\ Valid(u, U) /\ u.lost /\ t \in DOMAIN u.tree /\ (InMute(u.adf) => IsADF(t))
        /\ OnlyAlong(u, U, t) /\ y = select_file(u, t)
        /\ LeadsTo(U, u.sel) # {} /\ LeadsTo(U, t) # {}
    BY <1>8, <1>9, <1>13, <1>14, <1>15, <1>16, <2>1
  <2>3. Valid(y, U) /\ y.tree = u.tree /\ (y.lost \/ (Agree(y, U) /\ (refused = {} => ~y.raised)))
    BY <2>2, LostOrBack, Zenon
  <2> QED BY <2>1, <2>3
<1> QED BY <1>4, <1>8, <1>17 DEF Created

-----------------------------------------------------------------------------
(* The invariant of the runtime *)

Lchans == [sel : Path, adf : KnownApps \cup {None}, fcp : Path \cup {None}]

\* On a channel pySim and the card agree.
ChannelOk(l, here, R, T) ==
  /\ l \in Lchans /\ here \in Path
  /\ l.sel \in DOMAIN R /\ here \in DOMAIN T
  /\ here \in LeadsTo(T, l.sel) /\ l.fcp \in {None, here}
  /\ AdfInv(l.sel, l.adf)

FilesOk(R, T) == CardInv(T) /\ R \in Trees /\ Knows(R, T) /\ TreeInv(R)

ChannelsOk(L, C, R, T) ==
  /\ 0 \in DOMAIN L /\ DOMAIN C = DOMAIN L
  /\ L \in [DOMAIN L -> Lchans] /\ C \in [DOMAIN L -> Path]
  /\ \A ch \in DOMAIN L : ChannelOk(L[ch], C[ch], R, T)

RuntimeInvariant ==
  /\ FilesOk(tree, files)
  /\ ChannelsOk(lchan, current, tree, files)
  /\ refused \in Refusals
  /\ raised \in BOOLEAN

\* What a command begins with.
LEMMA StateIs ==
  ASSUME NEW ch, RuntimeInvariant, ch \in DOMAIN lchan
  PROVE  Valid(State(ch), files) /\ Agree(State(ch), files)
<1>1. /\ ChannelOk(lchan[ch], current[ch], tree, files)   BY DEF RuntimeInvariant, ChannelsOk
<1>2. PICK s : s = State(ch)   OBVIOUS
<1>3. /\ s = [sel |-> lchan[ch].sel, adf |-> lchan[ch].adf, fcp |-> lchan[ch].fcp,
              at |-> current[ch], files |-> files, tree |-> tree, raised |-> FALSE, lost |-> FALSE]
  BY <1>2 DEF State
<1>4. lchan[ch] \in Lchans /\ current[ch] \in Path /\ tree \in Trees
  BY <1>1 DEF ChannelOk, RuntimeInvariant, FilesOk
<1>5. s \in States(files)   BY <1>3, <1>4 DEF Lchans, States
<1>6. s.sel = lchan[ch].sel /\ s.adf = lchan[ch].adf /\ s.at = current[ch] /\ s.fcp = lchan[ch].fcp
      /\ s.tree = tree /\ ~s.lost
  BY <1>3
<1>7. Valid(s, files)   BY <1>1, <1>5, <1>6 DEF ChannelOk, RuntimeInvariant, FilesOk, Valid
<1>8. Agree(s, files)   BY <1>1, <1>6 DEF ChannelOk, Agree
<1> QED BY <1>2, <1>7, <1>8

\* What a command ends in.
LEMMA ChannelOf ==
  ASSUME NEW r, NEW T, Valid(r, T), Agree(r, T)
  PROVE  ChannelOk(Lchan(r.sel, r.adf, r.fcp), r.at, r.tree, T)
<1>1. /\ r.sel \in Path /\ r.adf \in KnownApps \cup {None} /\ r.fcp \in Path \cup {None}
      /\ r.at \in Path /\ r.sel \in DOMAIN r.tree /\ r.at \in DOMAIN T
  BY ValidIs
<1>2. PICK l : l = Lchan(r.sel, r.adf, r.fcp)   OBVIOUS
<1>3. l \in Lchans /\ l.sel = r.sel /\ l.adf = r.adf /\ l.fcp = r.fcp   BY <1>1, <1>2 DEF Lchan, Lchans
<1> QED BY <1>1, <1>2, <1>3 DEF ChannelOk, Agree, Valid

\* A channel on which nothing happens, while files are added.
LEMMA ChannelStays ==
  ASSUME NEW l, NEW here, NEW R, NEW S, NEW T, NEW U, ChannelOk(l, here, R, T),
         DOMAIN R \subseteq DOMAIN S, U = T \/ Larger(U, T)
  PROVE  ChannelOk(l, here, S, U)
<1>1. l.sel \in Path   BY DEF ChannelOk, Lchans
<1>2. LeadsTo(T, l.sel) \subseteq LeadsTo(U, l.sel)   BY <1>1, LargerLeads
<1>3. DOMAIN T \subseteq DOMAIN U   BY DEF Larger
<1> QED BY <1>1, <1>2, <1>3 DEF ChannelOk

\* A command on the current channel.
LEMMA CommandEnds ==
  ASSUME NEW r, NEW U, RuntimeInvariant, CurrentOpen, EndsIn(r), Valid(r, U), Agree(r, U),
         DOMAIN tree \subseteq DOMAIN r.tree, U = files \/ Larger(U, files),
         UNCHANGED <<cur, refused>>
  PROVE  RuntimeInvariant'
<1>1. PICK l : l = Lchan(r.sel, r.adf, r.fcp)   OBVIOUS
<1>2. /\ lchan' = [lchan EXCEPT ![cur] = l] /\ current' = [current EXCEPT ![cur] = r.at]
      /\ files' = U /\ tree' = r.tree /\ raised' = r.raised /\ cur \in DOMAIN lchan
  BY <1>1, ValidIs DEF EndsIn, CurrentOpen
<1>3. ChannelOk(l, r.at, r.tree, U)   BY <1>1, ChannelOf
<1>4. /\ 0 \in DOMAIN lchan /\ DOMAIN current = DOMAIN lchan
      /\ lchan \in [DOMAIN lchan -> Lchans] /\ current \in [DOMAIN lchan -> Path]
      /\ \A ch \in DOMAIN lchan : ChannelOk(lchan[ch], current[ch], tree, files)
  BY DEF RuntimeInvariant, ChannelsOk
<1>5. \A ch \in DOMAIN lchan : ChannelOk(lchan[ch], current[ch], r.tree, U)
  BY <1>4, ChannelStays
<1>6. l \in Lchans /\ r.at \in Path   BY <1>3 DEF ChannelOk
<1>7. PICK L, C : L = [lchan EXCEPT ![cur] = l] /\ C = [current EXCEPT ![cur] = r.at]   OBVIOUS
<1>8. /\ DOMAIN L = DOMAIN lchan /\ DOMAIN C = DOMAIN lchan
      /\ L \in [DOMAIN lchan -> Lchans] /\ C \in [DOMAIN lchan -> Path]
      /\ \A ch \in DOMAIN lchan : L[ch] = (IF ch = cur THEN l ELSE lchan[ch])
                                  /\ C[ch] = (IF ch = cur THEN r.at ELSE current[ch])
  BY <1>2, <1>4, <1>6, <1>7
<1>9. ChannelsOk(L, C, r.tree, U)
  <2>1. \A ch \in DOMAIN L : ChannelOk(L[ch], C[ch], r.tree, U)   BY <1>3, <1>5, <1>8
  <2> QED BY <1>4, <1>8, <2>1 DEF ChannelsOk
<1>10. FilesOk(r.tree, U)   BY ValidIs DEF FilesOk, Valid
<1>11. r.raised \in BOOLEAN   BY ValidIs
<1>12. refused' \in Refusals   BY DEF RuntimeInvariant, Refusals
<1>13. ChannelsOk(lchan, current, tree, files)'   BY <1>2, <1>7, <1>9
<1>14. FilesOk(tree, files)'   BY <1>2, <1>10
<1> QED BY <1>2, <1>11, <1>12, <1>13, <1>14 DEF RuntimeInvariant

LEMMA RuntimeInitially ==
  ASSUME RuntimeInit
  PROVE  RuntimeInvariant
<1>1. /\ tree = Profile /\ files = Card /\ refused = {} /\ raised = FALSE
      /\ lchan = [ch \in {0} |-> Lchan(MF, None, MF)] /\ current = [ch \in {0} |-> MF]
  BY DEF RuntimeInit
<1>2. /\ FileTree(Profile) /\ FileTree(Card) /\ KnownApps \subseteq DOMAIN Card
      /\ FidsApart(Card) /\ SameKinds(Card, Card) /\ SameKinds(Profile, Card)
      /\ \A T \in {Profile, Card} : \A f \in DOMAIN T : Last(f) = NewFid => T[f] = "df"
      /\ None \notin KnownApps
  BY RuntimeAssumption
<1>3. CardOk(Card)   BY <1>2 DEF CardOk
<1>4. FilesOk(tree, files)
  <2>1. CardInv(Card)   BY <1>2, <1>3 DEF CardInv
  <2>2. Knows(Profile, Card)   BY <1>2, <1>3 DEF Knows
  <2>3. TreeInv(Profile)   BY <1>2 DEF TreeInv, KnownApps
  <2>4. Profile \in Trees
    <3>1. Profile \in [DOMAIN Profile -> {"df", "ef"}] /\ DOMAIN Profile \subseteq Path
      BY <1>2, TreeIs DEF FileTree
    <3> QED BY <3>1 DEF Trees
  <2> QED BY <1>1, <2>1, <2>2, <2>3, <2>4 DEF FilesOk
<1>5. PICK l : l = Lchan(MF, None, MF)   OBVIOUS
<1>6. l \in Lchans /\ l.sel = MF /\ l.adf = None /\ l.fcp = MF   BY <1>5, MFIs DEF Lchan, Lchans
<1>7. ChannelOk(l, MF, tree, files)
  <2>1. LeadsTo(Card, MF) = {MF}   BY <1>3, LeadsOn, MFIs
  <2>2. AdfInv(MF, None)   BY MFIs DEF AdfInv, InMute
  <2>3. MF \in DOMAIN Profile /\ MF \in DOMAIN Card   BY <1>2, TreeIs
  <2> QED BY <1>1, <1>6, <2>1, <2>2, <2>3, MFIs DEF ChannelOk
<1>8. ChannelsOk(lchan, current, tree, files)
  <2>1. /\ DOMAIN lchan = {0} /\ DOMAIN current = {0} /\ lchan[0] = l /\ current[0] = MF
        /\ lchan = [ch \in {0} |-> l] /\ current = [ch \in {0} |-> MF]
    BY <1>1, <1>5
  <2>2. lchan \in [DOMAIN lchan -> Lchans] /\ current \in [DOMAIN lchan -> Path]
    BY <1>6, <2>1, MFIs
  <2>3. \A ch \in DOMAIN lchan : ChannelOk(lchan[ch], current[ch], tree, files)   BY <1>7, <2>1
  <2> QED BY <2>1, <2>2, <2>3 DEF ChannelsOk
<1> QED BY <1>1, <1>4, <1>8 DEF RuntimeInvariant, Refusals

\* The current channel opens another one.
LEMMA OpenedIs ==
  ASSUME NEW ch, RuntimeInvariant, do_open_channel(ch)
  PROVE  RuntimeInvariant'
<1>1. PICK l, here :
        /\ l = add_lchan
        /\ here = (IF cur = 0 THEN MF ELSE CardDf(files, current[cur]))
  OBVIOUS
<1>2. /\ cur \in DOMAIN lchan /\ ch \notin DOMAIN current
      /\ lchan' = Added(lchan, ch, l) /\ current' = Added(current, ch, here)
      /\ tree' = tree /\ files' = files /\ refused' = refused /\ raised' = FALSE
  BY <1>1 DEF do_open_channel, CurrentOpen
<1>3. /\ 0 \in DOMAIN lchan /\ DOMAIN current = DOMAIN lchan
      /\ lchan \in [DOMAIN lchan -> Lchans] /\ current \in [DOMAIN lchan -> Path]
      /\ \A c \in DOMAIN lchan : ChannelOk(lchan[c], current[c], tree, files)
  BY DEF RuntimeInvariant, ChannelsOk
<1>4. PICK st : st = State(cur)   OBVIOUS
<1>5. Valid(st, files) /\ Agree(st, files)   BY <1>2, <1>4, StateIs
<1>6. st.sel = lchan[cur].sel /\ st.at = current[cur] /\ st.tree = tree /\ st.adf = lchan[cur].adf
  BY <1>4 DEF State
<1>7. /\ Knows(tree, files) /\ CardOk(files) /\ FileTree(files) /\ FileTree(tree) /\ TreeInv(tree)
      /\ st.adf \in KnownApps \cup {None} /\ st.at \in DOMAIN files /\ AdfInv(st.sel, st.adf)
      /\ DOMAIN files \subseteq Path /\ DOMAIN tree \subseteq Path
  BY <1>5, <1>6, ValidIs DEF Valid
<1>8. ChannelOk(l, here, tree, files)
  <2>1. CASE cur = 0
    <3>1. l = Lchan(MF, None, None) /\ here = MF   BY <1>1, <2>1 DEF add_lchan
    <3>2. l \in Lchans /\ l.sel = MF /\ l.adf = None /\ l.fcp = None   BY <3>1, MFIs DEF Lchan, Lchans
    <3>3. LeadsTo(files, MF) = {MF}   BY <1>7, LeadsOn, MFIs
    <3>4. AdfInv(MF, None)   BY MFIs DEF AdfInv, InMute
    <3>5. MF \in DOMAIN tree /\ MF \in DOMAIN files   BY <1>7, TreeIs
    <3> QED BY <3>1, <3>2, <3>3, <3>4, <3>5, MFIs DEF ChannelOk
  <2>2. CASE cur # 0
    <3>1. PICK f : f = get_cwd(st.tree, st.sel)   OBVIOUS
    <3>2. l = Lchan(f, st.adf, None) /\ here = CardDf(files, st.at)
      BY <1>1, <1>6, <2>2, <3>1 DEF add_lchan
    <3>3. /\ f \in DOMAIN tree /\ here \in LeadsTo(files, f)
          /\ f # st.sel => f = Parent(st.sel) /\ ~IsADF(st.sel) /\ ~Mute(files, here)
      BY <1>5, <1>6, <3>1, <3>2, CwdIs
    <3>4. here \in DOMAIN files /\ files[here] = "df"   BY <1>7, <3>2, CardDfIs
    <3>5. l \in Lchans /\ l.sel = f /\ l.adf = st.adf /\ l.fcp = None
      BY <1>7, <3>2, <3>3 DEF Lchan, Lchans
    <3>6. AdfInv(f, st.adf)
      <4>1. CASE f = st.sel   BY <1>7, <4>1
      <4>2. CASE f # st.sel
        <5>1. ~IsADF(st.sel) /\ ~Mute(files, here)   BY <3>3, <4>2
        <5>2. ~InMute(st.adf)
          <6>1. InMute(st.adf) => st.sel = st.adf /\ st.adf \in KnownApps   BY <1>7 DEF AdfInv, InMute
          <6> QED BY <5>1, <6>1 DEF KnownApps
        <5>3. ~(IsADF(f) /\ f[2] \in AppsWithoutFs)
          <6>1. IsADF(f) => here = f   BY <1>7, <3>3, LeadsAlike
          <6>2. CardDf(files, here) = here   BY <3>4 DEF CardDf
          <6> QED BY <5>1, <6>1, <6>2 DEF Mute
        <5> QED BY <5>2, <5>3 DEF AdfInv
      <4> QED BY <4>1, <4>2
    <3> QED BY <1>7, <3>3, <3>4, <3>5, <3>6 DEF ChannelOk
  <2> QED BY <2>1, <2>2
<1>9. l \in Lchans /\ here \in Path   BY <1>8 DEF ChannelOk
<1>10. PICK L, C : L = Added(lchan, ch, l) /\ C = Added(current, ch, here)   OBVIOUS
<1>11. ChannelsOk(L, C, tree, files)
  <2>1. /\ DOMAIN L = DOMAIN lchan \cup {ch} /\ DOMAIN C = DOMAIN lchan \cup {ch}
        /\ \A c \in DOMAIN L : L[c] = (IF c = ch THEN l ELSE lchan[c])
                               /\ C[c] = (IF c = ch THEN here ELSE current[c])
        /\ L = [c \in DOMAIN L |-> L[c]] /\ C = [c \in DOMAIN L |-> C[c]]
    BY <1>3, <1>10 DEF Added
  <2>2. \A c \in DOMAIN L : ChannelOk(L[c], C[c], tree, files)   BY <1>3, <1>8, <2>1
  <2>3. \A c \in DOMAIN L : L[c] \in Lchans /\ C[c] \in Path   BY <2>2 DEF ChannelOk
  <2>4. L \in [DOMAIN L -> Lchans] /\ C \in [DOMAIN L -> Path]   BY <2>1, <2>3
  <2> QED BY <1>3, <2>1, <2>2, <2>4 DEF ChannelsOk
<1>12. ChannelsOk(lchan, current, tree, files)'   BY <1>2, <1>10, <1>11
<1>13. FilesOk(tree, files)' /\ refused' \in Refusals   BY <1>2 DEF RuntimeInvariant
<1> QED BY <1>2, <1>12, <1>13 DEF RuntimeInvariant

LEMMA ClosedIs ==
  ASSUME NEW ch, RuntimeInvariant, do_close_channel(ch)
  PROVE  RuntimeInvariant'
<1>1. PICK L, C : /\ L = [c \in DOMAIN lchan \ {ch} |-> lchan[c]]
                  /\ C = [c \in DOMAIN current \ {ch} |-> current[c]]
  OBVIOUS
<1>2. /\ ch # 0 /\ lchan' = L /\ current' = C
      /\ tree' = tree /\ files' = files /\ refused' = refused /\ raised' = FALSE
  BY <1>1 DEF do_close_channel, Restrict
<1>3. /\ 0 \in DOMAIN lchan /\ DOMAIN current = DOMAIN lchan
      /\ lchan \in [DOMAIN lchan -> Lchans] /\ current \in [DOMAIN lchan -> Path]
      /\ \A c \in DOMAIN lchan : ChannelOk(lchan[c], current[c], tree, files)
  BY DEF RuntimeInvariant, ChannelsOk
<1>4. ChannelsOk(L, C, tree, files)
  <2>1. /\ DOMAIN L = DOMAIN lchan \ {ch} /\ DOMAIN C = DOMAIN L
        /\ \A c \in DOMAIN L : L[c] = lchan[c] /\ C[c] = current[c]
        /\ L \in [DOMAIN L -> Lchans] /\ C \in [DOMAIN L -> Path]
    BY <1>1, <1>3
  <2> QED BY <1>2, <1>3, <2>1 DEF ChannelsOk
<1>5. ChannelsOk(lchan, current, tree, files)'   BY <1>2, <1>4
<1>6. FilesOk(tree, files)' /\ refused' \in Refusals   BY <1>2 DEF RuntimeInvariant
<1> QED BY <1>2, <1>5, <1>6 DEF RuntimeInvariant

\* A reset fails only if an application is refused.
LEMMA ResetIs ==
  ASSUME RuntimeInvariant, do_reset
  PROVE  RuntimeInvariant' /\ (raised' => refused # {})
<1>1. PICK st : st = State(0)   OBVIOUS
<1>2. 0 \in DOMAIN lchan   BY DEF RuntimeInvariant, ChannelsOk
<1>3. Valid(st, files) /\ Agree(st, files)   BY <1>1, <1>2, StateIs
<1>4. PICK x : x = [st EXCEPT !.at = MF]   OBVIOUS
<1>5. x \in States(files) /\ AtMF(x, st) /\ x.fcp = st.fcp
  BY <1>3, <1>4, MFIs DEF Valid, Agree, States, AtMF
<1>6. PICK r : r = select(x, Last(MF))   OBVIOUS
<1>7. \/ Home(r, st, files)
      \/ r.raised /\ refused # {} /\ Valid(r, files) /\ Agree(r, files) /\ r.tree = st.tree
  <2>1. refused \in Refusals /\ MF \notin Refusable   BY RuntimeAssumption DEF RuntimeInvariant
  <2> QED BY <1>3, <1>5, <1>6, <2>1, ResetAgrees
<1>8. PICK l : l = Lchan(r.sel, IF r.raised THEN r.adf ELSE None, r.fcp)   OBVIOUS
<1>9. /\ lchan' = [ch \in {0} |-> l] /\ current' = [ch \in {0} |-> r.at]
      /\ tree' = r.tree /\ raised' = r.raised /\ files' = files /\ refused' = refused
  BY <1>1, <1>4, <1>6, <1>8 DEF do_reset, ResetTo, ResetLchan
<1>10. st.tree = tree   BY <1>1 DEF State
<1>11. FilesOk(tree, files)   BY DEF RuntimeInvariant
<1>12. ChannelOk(l, r.at, tree, files) /\ r.raised \in BOOLEAN /\ r.tree = tree
  <2>1. CASE Home(r, st, files)
    <3>1. r.sel = MF /\ r.at = MF /\ r.fcp = MF /\ ~r.raised /\ r.tree = tree /\ r.raised \in BOOLEAN
      BY <1>10, <2>1 DEF Home, States
    <3>2. l \in Lchans /\ l.sel = MF /\ l.adf = None /\ l.fcp = MF   BY <1>8, <3>1, MFIs DEF Lchan, Lchans
    <3>3. /\ CardOk(files) /\ FileTree(files) /\ FileTree(tree)   BY <1>11 DEF FilesOk, Knows, CardOk
    <3>4. LeadsTo(files, MF) = {MF}   BY <3>3, LeadsOn, MFIs
    <3>5. AdfInv(MF, None)   BY MFIs DEF AdfInv, InMute
    <3>6. MF \in DOMAIN tree /\ MF \in DOMAIN files   BY <3>3, TreeIs
    <3> QED BY <3>1, <3>2, <3>4, <3>5, <3>6, MFIs DEF ChannelOk
  <2>2. CASE ~Home(r, st, files)
    <3>1. r.raised /\ Valid(r, files) /\ Agree(r, files) /\ r.tree = tree   BY <1>7, <1>10, <2>2
    <3>2. l = Lchan(r.sel, r.adf, r.fcp)   BY <1>8, <3>1
    <3>3. ChannelOk(l, r.at, r.tree, files)   BY <3>1, <3>2, ChannelOf
    <3> QED BY <3>1, <3>3, ValidIs
  <2> QED BY <2>1, <2>2
<1>13. PICK L, C : L = [ch \in {0} |-> l] /\ C = [ch \in {0} |-> r.at]   OBVIOUS
<1>14. ChannelsOk(L, C, tree, files)
  <2>1. DOMAIN L = {0} /\ DOMAIN C = {0} /\ L[0] = l /\ C[0] = r.at   BY <1>13
  <2>2. l \in Lchans /\ r.at \in Path   BY <1>12 DEF ChannelOk
  <2>3. L \in [DOMAIN L -> Lchans] /\ C \in [DOMAIN L -> Path]   BY <1>13, <2>1, <2>2
  <2> QED BY <1>12, <2>1, <2>3 DEF ChannelsOk
<1>15. ChannelsOk(lchan, current, tree, files)' /\ FilesOk(tree, files)'
  BY <1>9, <1>11, <1>12, <1>13, <1>14
<1>16. refused' \in Refusals /\ raised' \in BOOLEAN   BY <1>9, <1>12 DEF RuntimeInvariant
<1>17. RuntimeInvariant'   BY <1>15, <1>16 DEF RuntimeInvariant
<1>18. raised' => refused # {}   BY <1>7, <1>9 DEF Home
<1> QED BY <1>17, <1>18

\* What is proved of each command, unless it leaves the card where pySim does not know.
CommandOk ==
  \/ astray'
  \/ /\ RuntimeInvariant'
     /\ AppsAssured /\ refused = {} /\ raised' /\ cur' = cur =>
          lchan'[cur].sel = lchan[cur].sel /\ current'[cur] = current[cur]

LEMMA LostIs ==
  ASSUME NEW r, NEW T, Valid(r, T), EndsIn(r), r.lost
  PROVE  astray'
<1>1. r.lost \in BOOLEAN   BY DEF Valid, States
<1>2. astray' = (astray \/ r.lost)   BY DEF EndsIn
<1> QED BY <1>1, <1>2

LEMMA KeptIs ==
  ASSUME NEW r, RuntimeInvariant, CurrentOpen, EndsIn(r), Kept(r, State(cur), files),
         UNCHANGED <<cur, refused>>
  PROVE  CommandOk
<1>0. SUFFICES ASSUME ~r.lost PROVE CommandOk
  <2>1. Valid(r, files)   BY DEF Kept
  <2> QED BY <2>1, LostIs DEF CommandOk
<1>1. PICK st : st = State(cur)   OBVIOUS
<1>2. st.sel = lchan[cur].sel /\ st.at = current[cur] /\ st.tree = tree   BY <1>1 DEF State
<1>3. /\ Valid(r, files) /\ Agree(r, files) /\ DOMAIN tree \subseteq DOMAIN r.tree
      /\ AppsAssured /\ refused = {} /\ r.raised => r.sel = lchan[cur].sel /\ r.at = current[cur]
  BY <1>0, <1>1, <1>2 DEF Kept, Strays
<1>4. RuntimeInvariant'   BY <1>3, CommandEnds
<1>5. PICK l : l = Lchan(r.sel, r.adf, r.fcp)   OBVIOUS
<1>6. /\ lchan' = [lchan EXCEPT ![cur] = l] /\ current' = [current EXCEPT ![cur] = r.at]
      /\ raised' = r.raised /\ cur \in DOMAIN lchan /\ cur \in DOMAIN current
  BY <1>5 DEF EndsIn, CurrentOpen, RuntimeInvariant, ChannelsOk
<1>7. lchan'[cur] = l /\ current'[cur] = r.at
  <2>1. lchan \in [DOMAIN lchan -> Lchans] /\ current \in [DOMAIN lchan -> Path]
    BY DEF RuntimeInvariant, ChannelsOk
  <2> QED BY <1>6, <2>1
<1>8. l.sel = r.sel   BY <1>5 DEF Lchan
<1> QED BY <1>3, <1>4, <1>6, <1>7, <1>8 DEF CommandOk

LEMMA RuntimeStep ==
  ASSUME RuntimeInvariant, RuntimeNext
  PROVE  CommandOk
<1>1. ASSUME NEW id \in Names, do_select(id) PROVE CommandOk
  <2>1. cur \in DOMAIN lchan /\ EndsIn(select(State(cur), id)) /\ UNCHANGED <<cur, refused>>
    BY <1>1 DEF do_select, CurrentOpen
  <2>2. Valid(State(cur), files) /\ Agree(State(cur), files)   BY <2>1, StateIs
  <2>3. id \in STRING   BY RuntimeAssumption
  <2>4. Kept(select(State(cur), id), State(cur), files)   BY <2>2, <2>3, SelectKeeps
  <2> QED BY <2>1, <2>4, KeptIs DEF CurrentOpen
<1>2. ASSUME NEW ids \in NamePaths, do_select_path(ids) PROVE CommandOk
  <2>1. cur \in DOMAIN lchan /\ EndsIn(selectPath(State(cur), ids)) /\ UNCHANGED <<cur, refused>>
    BY <1>2 DEF do_select_path, CurrentOpen
  <2>2. Valid(State(cur), files) /\ Agree(State(cur), files)   BY <2>1, StateIs
  <2>3. ids \in Seq(STRING)   BY RuntimeAssumption
  <2>4. Kept(selectPath(State(cur), ids), State(cur), files)   BY <2>2, <2>3, SelectPathKeeps
  <2> QED BY <2>1, <2>4, KeptIs DEF CurrentOpen
<1>3. ASSUME do_create_df PROVE CommandOk
  <2>1. PICK st, f, U : st = State(cur) /\ f = Append(CardDf(files, current[cur]), NewFid)
                        /\ U = Added(files, f, "df")
    OBVIOUS
  <2>2. PICK x : x = [st EXCEPT !.at = f, !.files = U, !.lost = TRUE]   OBVIOUS
  <2>3. PICK r : r = select_file(x, st.sel)   OBVIOUS
  <2>4. st.sel = lchan[cur].sel /\ st.at = current[cur] /\ st.tree = tree /\ st.files = files
    BY <2>1 DEF State
  <2>5. x = [st EXCEPT !.at = f, !.files = Added(@, f, "df"), !.lost = TRUE]
    BY <2>1, <2>2, <2>4 DEF State
  <2>6. /\ cur \in DOMAIN lchan /\ Parent(f) \in CreateIn /\ f \notin DOMAIN files /\ FidsApart(U)
        /\ EndsIn(r) /\ UNCHANGED <<cur, refused>>
    BY <1>3, <2>1, <2>3, <2>4, <2>5 DEF do_create_df, CurrentOpen
  <2>7. Valid(st, files) /\ Agree(st, files)   BY <2>1, <2>6, StateIs
  <2>8. f = Append(CardDf(files, st.at), NewFid)   BY <2>1, <2>4
  <2>9. /\ Larger(U, files) /\ Valid(r, U) /\ r.tree = st.tree
        /\ r.lost \/ (Agree(r, U) /\ (refused = {} => ~r.raised))
    <3>1. Created(r, st, U, files)   BY <2>1, <2>2, <2>3, <2>6, <2>7, <2>8, CreateAgrees
    <3> QED BY <3>1 DEF Created
  <2>10. CASE r.lost   BY <2>6, <2>9, <2>10, LostIs DEF CommandOk
  <2>11. CASE ~r.lost
    <3>1. RuntimeInvariant'   BY <2>4, <2>6, <2>9, <2>11, CommandEnds DEF CurrentOpen
    <3>2. raised' = r.raised   BY <2>6 DEF EndsIn
    <3> QED BY <2>9, <2>11, <3>1, <3>2 DEF CommandOk
  <2> QED BY <2>10, <2>11
<1>4. ASSUME NEW ch \in Channels, do_open_channel(ch) PROVE CommandOk
  <2>1. ~raised'   BY <1>4 DEF do_open_channel
  <2> QED BY <1>4, <2>1, OpenedIs DEF CommandOk
<1>5. ASSUME NEW ch \in Channels, do_close_channel(ch) PROVE CommandOk
  <2>1. ~raised'   BY <1>5 DEF do_close_channel
  <2> QED BY <1>5, <2>1, ClosedIs DEF CommandOk
<1>6. ASSUME NEW ch \in Channels, do_switch_channel(ch) PROVE CommandOk
  <2>1. raised' = FALSE /\ UNCHANGED <<tree, lchan, files, current, refused>>
    BY <1>6 DEF do_switch_channel
  <2> QED BY <2>1 DEF CommandOk, RuntimeInvariant
<1>7. ASSUME do_reset PROVE CommandOk   BY <1>7, ResetIs DEF CommandOk
<1>8. ASSUME Refuse PROVE CommandOk
  <2>1. raised' = FALSE /\ UNCHANGED <<tree, lchan, files, current>> /\ refused' \in Refusals
    BY <1>8 DEF Refuse, Refusals
  <2> QED BY <2>1 DEF CommandOk, RuntimeInvariant
<1> QED BY <1>1, <1>2, <1>3, <1>4, <1>5, <1>6, <1>7, <1>8 DEF RuntimeNext

\* A way back that has failed at its first SELECT is never made good.
LEMMA AstrayStays ==
  ASSUME astray, [RuntimeNext]_runtime
  PROVE  astray'
<1>1. (\E r : EndsIn(r)) => astray'   BY DEF EndsIn
<1>2. UNCHANGED astray => astray'   OBVIOUS
<1>3. ASSUME NEW id \in Names, do_select(id) PROVE astray'   BY <1>1, <1>3 DEF do_select
<1>4. ASSUME NEW ids \in NamePaths, do_select_path(ids) PROVE astray'
  BY <1>1, <1>4 DEF do_select_path
<1>5. ASSUME do_create_df PROVE astray'   BY <1>1, <1>5 DEF do_create_df
<1>6. ASSUME NEW ch \in Channels,
             do_open_channel(ch) \/ do_close_channel(ch) \/ do_switch_channel(ch)
      PROVE  astray'
  BY <1>2, <1>6 DEF do_open_channel, do_close_channel, do_switch_channel
<1>7. ASSUME do_reset \/ Refuse PROVE astray'   BY <1>2, <1>7 DEF do_reset, Refuse
<1>8. ASSUME UNCHANGED runtime PROVE astray'   BY <1>2, <1>8 DEF runtime
<1> QED BY <1>3, <1>4, <1>5, <1>6, <1>7, <1>8 DEF RuntimeNext

\* What is inductive.
OnTrack == astray \/ RuntimeInvariant

LEMMA OnTrackAlways ==
  RuntimeSpec => []OnTrack
<1>1. RuntimeInit => OnTrack   BY RuntimeInitially DEF OnTrack
<1>2. OnTrack /\ [RuntimeNext]_runtime => OnTrack'
  <2>1. ASSUME RuntimeInvariant, RuntimeNext PROVE OnTrack'
    BY <2>1, RuntimeStep DEF CommandOk, OnTrack
  <2>2. ASSUME RuntimeInvariant, UNCHANGED runtime PROVE OnTrack'
    BY <2>2 DEF runtime, RuntimeInvariant, OnTrack
  <2>3. ASSUME astray, [RuntimeNext]_runtime PROVE OnTrack'   BY <2>3, AstrayStays DEF OnTrack
  <2> QED BY <2>1, <2>2, <2>3 DEF OnTrack
<1> QED BY <1>1, <1>2, PTL DEF RuntimeSpec

\* The invariant of selection, as long as no way back has failed at its first SELECT:
\* what pySim knows of the card is of the same kinds, on every channel the path of the
\* selected file leads to the file that the card has selected, and pySim knows when it
\* is in an application without file system, whatever the card refuses
\* (runtime.py:375-472).
THEOREM RuntimeInvariantHolds ==
  RuntimeSpec => [](~astray => RuntimeInvariant)
<1>1. OnTrack => (~astray => RuntimeInvariant)   BY DEF OnTrack
<1> QED BY <1>1, OnTrackAlways, PTL

\* As long, the file that pySim believes to be selected on a channel, and the FCP it
\* keeps, are those of the file that the card has selected (_select_post, also after an
\* SwMatchError, probe_file, reset, do_open_channel).
THEOREM SelectionsAgree ==
  RuntimeSpec => []SelectedOnCard
<1>1. OnTrack => SelectedOnCard
  <2> SUFFICES ASSUME RuntimeInvariant PROVE AlwaysOnCard   BY DEF OnTrack, SelectedOnCard
  <2>1. /\ DOMAIN lchan = DOMAIN current
        /\ \A ch \in DOMAIN lchan : ChannelOk(lchan[ch], current[ch], tree, files)
    BY DEF RuntimeInvariant, ChannelsOk
  <2>2. CardOk(files)   BY DEF RuntimeInvariant, FilesOk, CardInv
  <2>3. ASSUME NEW ch \in DOMAIN lchan
        PROVE  /\ Resolved(lchan[ch].sel) = {current[ch]}
               /\ lchan[ch].fcp \in {None, current[ch]}
    <3>1. /\ lchan[ch].sel \in Path /\ current[ch] \in LeadsTo(files, lchan[ch].sel)
          /\ lchan[ch].fcp \in {None, current[ch]}
      BY <2>1 DEF ChannelOk, Lchans
    <3>2. \A h, k \in LeadsTo(files, lchan[ch].sel) : h = k   BY <2>2, <3>1, LeadsToOne
    <3>3. Resolved(lchan[ch].sel) = LeadsTo(files, lchan[ch].sel)   BY DEF Resolved, LeadsTo, Way
    <3> QED BY <3>1, <3>2, <3>3
  <2> QED BY <2>1, <2>3 DEF AlwaysOnCard
<1> QED BY <1>1, OnTrackAlways, PTL

\* The MF can be selected from every file that was reached: select_file leaves an
\* application without file system through another one.
THEOREM NeverTrapped ==
  ASSUME AppsAssured
  PROVE  RuntimeSpec => []NotTrapped
<1>1. OnTrack => NotTrapped   BY StateIs, SelectMF DEF OnTrack, NotTrapped
<1> QED BY <1>1, OnTrackAlways, PTL

\* A select that failed though the card refuses nothing has brought both back to the
\* file before: the way back of select and of its paths arrives.
THEOREM FailuresGoBack ==
  ASSUME AppsAssured
  PROVE  RuntimeSpec => FailedGoesBack
<1>1. /\ OnTrack /\ [RuntimeNext]_runtime
      => [raised' /\ refused = {} /\ ~astray' /\ cur' = cur =>
            lchan'[cur].sel = lchan[cur].sel /\ current'[cur] = current[cur]]_runtime
  BY RuntimeStep, AstrayStays DEF CommandOk, OnTrack
<1> QED BY <1>1, OnTrackAlways, PTL DEF RuntimeSpec, FailedGoesBack

-----------------------------------------------------------------------------
(* FileAccess *)

IsContent(c) ==
  /\ c = [file \in Files |-> c[file]]
  /\ \A file \in Files : c[file] \in [0 .. FileLength(file) - 1 -> Byte]

Requests ==
  [op : {"read", "nothing", "update"}, file : Files, offset : Nat, length : Nat,
   data : Seq(Byte), capital : BOOLEAN, verify : BOOLEAN, conserve : BOOLEAN, sized : BOOLEAN]

\* What the callers of a record have in common.
WellFormed(r) ==
  /\ r \in Requests
  /\ r.file # 0 => r.offset = 0 /\ (r.op = "read" => r.length = RecordLength)
  /\ r.sized => ~r.verify

Fits(r) ==
  /\ r.offset + Len(r.data) <= FileLength(r.file)
  /\ r.file # 0 => Len(r.data) = RecordLength

ReadCalls   == {"select_read", "reading"}
BeforeWrite == {"too_long", "size", "conserve", "conserving", "select"}
UpdateCalls == BeforeWrite \cup {"writing", "verify", "verifying"}

TypeInv ==
  /\ IsContent(content) /\ IsContent(was)
  /\ WellFormed(req)
  /\ at \in ReadCalls \cup UpdateCalls \cup {"returned", "raised"}
  /\ at = "select_read" => req.op \in {"read", "nothing"}
  /\ at = "reading" => req.op = "read"
  /\ at \in UpdateCalls => req.op = "update"
  /\ at \in {"verify", "verifying"} => req.verify
  /\ pos \in Nat /\ got \in Seq(Byte)
  /\ faulty \in BOOLEAN /\ spoilt \in BOOLEAN /\ faults \in Nat
  /\ spoilt => faulty

\* What has been read so far.
ReadInv ==
  at \in ReadingStates \/ (at = "returned" /\ req.op = "read") =>
    /\ pos <= Total /\ Len(got) = pos
    /\ req.file # 0 => pos \in {0, Total}
    /\ pos = 0 \/ req.offset + pos <= FileLength(req.file)
    /\ \A i \in 1 .. pos : got[i] = content[req.file][req.offset + i - 1]

\* A read has returned all it was to read, and something.
ReadEnd == at = "returned" /\ req.op = "read" => pos = Total /\ pos > 0

Whole == content = WrittenUpTo(Len(req.data))

WriteInv ==
  /\ at \in ReadCalls \cup BeforeWrite \/ req.op # "update" => content = was /\ ~spoilt
  /\ at = "writing" =>
       /\ pos <= Len(req.data)
       /\ ~spoilt => content = WrittenUpTo(pos)
       /\ \/ pos = Len(req.data) \/ pos = 0
          \/ req.file = 0 /\ \E k \in 0 .. pos : pos = k * max_cmd_len
  /\ at \in {"verify", "verifying"} /\ ~spoilt => Whole

\* Whatever the card stores, it stores it where it was told to.
OutsideInv ==
  \A file \in Files : \A i \in 0 .. FileLength(file) - 1 :
    \/ content[file][i] = was[file][i]
    \/ file = req.file /\ i \in req.offset .. req.offset + Len(req.data) - 1

SizedInv ==
  req.sized =>
    /\ ~Ended => Fits(req)
    /\ at = "raised" /\ ~faulty => content = was

Different ==
  ~req.capital /\ req.conserve /\ ~faulty /\ req.data # <<>> /\ req.offset + Len(req.data) <= FileLength(req.file)
    => was # WrittenUpTo(Len(req.data))

ConserveInv == at = "select" \/ (at = "writing" /\ pos = 0) => Different

IInv ==
  /\ TypeInv /\ ReadInv /\ ReadEnd /\ WriteInv /\ OutsideInv /\ SizedInv /\ ConserveInv
  /\ PrefixWritten /\ UpdatedExactly

-----------------------------------------------------------------------------
(* Files with some of their bytes replaced *)

\* What the assumption says of the constants as far as the proofs need it.
LEMMA Sizes ==
  /\ Size \in Nat /\ Records \in Nat
  /\ RecordLength \in Nat \ {0} /\ max_cmd_len \in Nat \ {0}
  /\ ff \in Byte /\ Data \subseteq Seq(Byte)
  /\ Offsets \subseteq Nat /\ Lengths \subseteq Nat
<1>1. AddressableOffsets \subseteq Nat
  BY DEF AddressableOffsets
<1>2. Size \in AddressableOffsets \ {0} /\ Offsets \subseteq AddressableOffsets
  BY FileAssumption DEF FileAssumption
<1>3. Size \in Nat /\ Offsets \subseteq Nat
  BY <1>1, <1>2, Zenon
<1> QED
  BY <1>3, FileAssumption DEF FileAssumption

\* The lengths of files are natural numbers.
LEMMA LengthOfFile ==
  ASSUME NEW file \in Files
  PROVE  FileLength(file) \in Nat
BY Sizes DEF FileLength

\* A file stays a file when some of its bytes are written.
LEMMA OverlayOfBytes ==
  ASSUME NEW file \in Files, NEW g \in [0 .. FileLength(file) - 1 -> Byte],
         NEW from \in Nat, NEW n \in Nat, NEW m \in Nat, n <= m, NEW bytes \in [1 .. m -> Byte]
  PROVE  Overlay(g, from, bytes, n) \in [0 .. FileLength(file) - 1 -> Byte]
<1> DEFINE D == 0 .. FileLength(file) - 1
           e(i) == IF i \in from .. from + n - 1 THEN bytes[i - from + 1] ELSE g[i]
<1>1. ASSUME NEW i \in D PROVE e(i) \in Byte
  BY LengthOfFile
<1>2. Overlay(g, from, bytes, n) = [i \in D |-> e(i)]
  BY DEF Overlay
<1> QED
  BY <1>1, <1>2

\* WrittenUpTo and Stored as functions of the state they look at.
Written(w, r, n) == [w EXCEPT ![r.file] = Overlay(@, r.offset, r.data, n)]
StoredAt(c, r, p, bytes, n) == [c EXCEPT ![r.file] = Overlay(@, r.offset + p, bytes, n)]

\* With none of the data written the file is what it was.
LEMMA NothingWritten ==
  ASSUME NEW w, NEW r, IsContent(w), WellFormed(r)
  PROVE  Written(w, r, 0) = w
<1> DEFINE g == w[r.file]
<1>1. r.file \in Files /\ r.offset \in Nat
  BY DEF WellFormed, Requests
<1>2. g \in [0 .. FileLength(r.file) - 1 -> Byte]
  BY <1>1 DEF IsContent
<1>3. \A i \in DOMAIN g : ~(i \in r.offset .. r.offset + 0 - 1)
  BY <1>1, <1>2, LengthOfFile
<1>4. Overlay(g, r.offset, r.data, 0) = g
  BY <1>2, <1>3 DEF Overlay
<1> QED
  BY <1>1, <1>4 DEF Written, IsContent

\* What is written, byte by byte.
LEMMA WrittenBytes ==
  ASSUME NEW w, NEW r, IsContent(w), WellFormed(r), NEW n \in 0 .. Len(r.data)
  PROVE  /\ IsContent(Written(w, r, n))
         /\ \A file \in Files : \A i \in 0 .. FileLength(file) - 1 :
              Written(w, r, n)[file][i] =
                IF file = r.file /\ i \in r.offset .. r.offset + n - 1
                THEN r.data[i - r.offset + 1] ELSE w[file][i]
<1>1. r.file \in Files /\ r.offset \in Nat /\ r.data \in Seq(Byte)
  BY DEF WellFormed, Requests
<1> DEFINE g == Overlay(w[r.file], r.offset, r.data, n)
<1>2. w[r.file] \in [0 .. FileLength(r.file) - 1 -> Byte]
  BY <1>1 DEF IsContent
<1>3. r.data \in [1 .. Len(r.data) -> Byte] /\ Len(r.data) \in Nat
  BY <1>1
<1>4. g \in [0 .. FileLength(r.file) - 1 -> Byte]
  BY <1>1, <1>2, <1>3, OverlayOfBytes
<1>5. Written(w, r, n) = [file \in Files |-> IF file = r.file THEN g ELSE w[file]]
  BY <1>1 DEF Written, IsContent
<1>6. \A i \in 0 .. FileLength(r.file) - 1 :
        g[i] = IF i \in r.offset .. r.offset + n - 1
               THEN r.data[i - r.offset + 1] ELSE w[r.file][i]
  BY <1>2 DEF Overlay
<1>7. IsContent(Written(w, r, n))
  <2>1. \A file \in Files : Written(w, r, n)[file] \in [0 .. FileLength(file) - 1 -> Byte]
    BY <1>4, <1>5 DEF IsContent
  <2> QED
    BY <1>5, <2>1 DEF IsContent
<1> QED
  BY <1>5, <1>6, <1>7

\* Two contents with the same bytes are the same.
LEMMA SameBytes ==
  ASSUME NEW c, NEW d, IsContent(c), IsContent(d),
         \A file \in Files : \A i \in 0 .. FileLength(file) - 1 : c[file][i] = d[file][i]
  PROVE  c = d
<1>1. ASSUME NEW file \in Files PROVE c[file] = d[file]
  <2>1. /\ c[file] \in [0 .. FileLength(file) - 1 -> Byte]
        /\ d[file] \in [0 .. FileLength(file) - 1 -> Byte]
    BY DEF IsContent
  <2> DEFINE D == 0 .. FileLength(file) - 1
  <2>2. \A i \in D : c[file][i] = d[file][i]
    OBVIOUS
  <2>3. c[file] = [i \in D |-> c[file][i]] /\ d[file] = [i \in D |-> d[file][i]]
    BY <2>1
  <2> HIDE DEF D
  <2>4. [i \in D |-> c[file][i]] = [i \in D |-> d[file][i]]
    BY <2>2
  <2> QED
    BY <2>3, <2>4
<1> QED
  BY <1>1 DEF IsContent

\* What a command that is carried out does, byte by byte (update_binary).
LEMMA StoredBytes ==
  ASSUME NEW c, NEW r, IsContent(c), WellFormed(r), NEW p \in Nat,
         NEW n \in Nat, NEW bytes \in [1 .. n -> Byte]
  PROVE  /\ IsContent(StoredAt(c, r, p, bytes, n))
         /\ \A file \in Files : \A i \in 0 .. FileLength(file) - 1 :
              StoredAt(c, r, p, bytes, n)[file][i] =
                IF file = r.file /\ i \in r.offset + p .. r.offset + p + n - 1
                THEN bytes[i - (r.offset + p) + 1] ELSE c[file][i]
<1>1. r.file \in Files /\ r.offset \in Nat
  BY DEF WellFormed, Requests
<1> DEFINE from == r.offset + p
           g == Overlay(c[r.file], from, bytes, n)
<1>2. c[r.file] \in [0 .. FileLength(r.file) - 1 -> Byte]
  BY <1>1 DEF IsContent
<1>3. from \in Nat
  BY <1>1
<1>4. g \in [0 .. FileLength(r.file) - 1 -> Byte]
  <2>1. PICK file \in Files : file = r.file
    BY <1>1
  <2>2. PICK old \in [0 .. FileLength(file) - 1 -> Byte] : old = c[r.file]
    BY <1>2, <2>1
  <2>3. n <= n
    OBVIOUS
  <2> HIDE DEF from
  <2>4. Overlay(old, from, bytes, n) \in [0 .. FileLength(file) - 1 -> Byte]
    BY <1>3, <2>3, OverlayOfBytes
  <2> QED
    BY <2>1, <2>2, <2>4
<1>5. StoredAt(c, r, p, bytes, n) = [file \in Files |-> IF file = r.file THEN g ELSE c[file]]
  BY <1>1 DEF StoredAt, IsContent
<1>6. \A i \in 0 .. FileLength(r.file) - 1 :
        g[i] = IF i \in from .. from + n - 1 THEN bytes[i - from + 1] ELSE c[r.file][i]
  BY <1>2 DEF Overlay
<1>7. IsContent(StoredAt(c, r, p, bytes, n))
  <2>1. \A file \in Files : StoredAt(c, r, p, bytes, n)[file] \in [0 .. FileLength(file) - 1 -> Byte]
    BY <1>4, <1>5 DEF IsContent
  <2> QED
    BY <1>5, <2>1 DEF IsContent
<1> QED
  BY <1>5, <1>6, <1>7

\* One more command of the loop writes one more piece of the data.
LEMMA NextPiece ==
  ASSUME NEW w, NEW r, IsContent(w), WellFormed(r),
         NEW p \in Nat, NEW n \in Nat, p + n <= Len(r.data), NEW bytes \in [1 .. n -> Byte],
         \A i \in 1 .. n : bytes[i] = r.data[p + i]
  PROVE  StoredAt(Written(w, r, p), r, p, bytes, n) = Written(w, r, p + n)
<1>1. r.file \in Files /\ r.offset \in Nat /\ r.data \in Seq(Byte) /\ Len(r.data) \in Nat
  BY DEF WellFormed, Requests
<1>2. p \in 0 .. Len(r.data) /\ p + n \in 0 .. Len(r.data)
  BY <1>1
<1>3. IsContent(Written(w, r, p)) /\ IsContent(Written(w, r, p + n))
  BY <1>2, WrittenBytes
<1> DEFINE s == StoredAt(Written(w, r, p), r, p, bytes, n)
<1>4. ASSUME NEW file \in Files, NEW i \in 0 .. FileLength(file) - 1
      PROVE  s[file][i] = Written(w, r, p + n)[file][i]
  <2>1. s[file][i] =
          IF file = r.file /\ i \in r.offset + p .. r.offset + p + n - 1
          THEN bytes[i - (r.offset + p) + 1] ELSE Written(w, r, p)[file][i]
    <3>1. PICK v : v = Written(w, r, p)
      OBVIOUS
    <3>2. IsContent(v)
      BY <1>3, <3>1
    <3>3. StoredAt(v, r, p, bytes, n)[file][i] =
            IF file = r.file /\ i \in r.offset + p .. r.offset + p + n - 1
            THEN bytes[i - (r.offset + p) + 1] ELSE v[file][i]
      BY <3>2, StoredBytes
    <3> QED
      BY <3>1, <3>3
  <2>2. Written(w, r, p)[file][i] =
          IF file = r.file /\ i \in r.offset .. r.offset + p - 1
          THEN r.data[i - r.offset + 1] ELSE w[file][i]
    BY <1>2, WrittenBytes
  <2>3. Written(w, r, p + n)[file][i] =
          IF file = r.file /\ i \in r.offset .. r.offset + (p + n) - 1
          THEN r.data[i - r.offset + 1] ELSE w[file][i]
    BY <1>2, WrittenBytes
  <2>4. i \in Nat
    BY LengthOfFile
  <2>5. CASE file = r.file /\ i \in r.offset + p .. r.offset + p + n - 1
    <3>1. i - (r.offset + p) + 1 \in 1 .. n
      BY <1>1, <2>4, <2>5
    <3>2. p + (i - (r.offset + p) + 1) = i - r.offset + 1
      BY <1>1, <2>4
    <3>3. i \in r.offset .. r.offset + (p + n) - 1
      BY <1>1, <2>4, <2>5
    <3> QED
      BY <2>1, <2>3, <2>5, <3>1, <3>2, <3>3
  <2>6. CASE ~(file = r.file /\ i \in r.offset + p .. r.offset + p + n - 1)
    <3>1. file = r.file =>
            (i \in r.offset .. r.offset + (p + n) - 1 <=> i \in r.offset .. r.offset + p - 1)
      BY <1>1, <2>4, <2>6
    <3> QED
      BY <2>1, <2>2, <2>3, <2>6, <3>1
  <2> QED
    BY <2>5, <2>6
<1>5. IsContent(s)
  BY <1>3, StoredBytes
<1> QED
  BY <1>3, <1>4, <1>5, SameBytes

-----------------------------------------------------------------------------
(* Beginning a call *)

\* A call begins with nothing done.
LEMMA CallBegins ==
  ASSUME IInv, NEW r, NEW first, WellFormed(r), req' = r /\ Begin(first),
         first \in {"select_read", "size", "too_long", "raised"},
         first = "select_read" => r.op \in {"read", "nothing"} /\ ~r.sized,
         first \in {"size", "too_long"} => r.op = "update",
         first = "too_long" => ~r.sized,
         first = "size" /\ r.sized => Fits(r),
         first = "raised" => r.op = "update"
  PROVE  IInv'
<1> USE DEF Begin
<1>1. TypeInv'
  <2>1. IsContent(content)' /\ IsContent(was)' /\ WellFormed(req)'
    <3>1. content' = content /\ was' = content /\ req' = r /\ IsContent(content)
      BY DEF IInv, TypeInv
    <3>2. IsContent(content') /\ IsContent(was') /\ WellFormed(req')
      BY <3>1
    <3> QED
      BY <3>2 DEF IsContent, WellFormed, Requests
  <2>2. got' \in Seq(Byte) /\ pos' \in Nat /\ faults' \in Nat
    BY DEF IInv, TypeInv
  <2> QED
    BY <2>1, <2>2 DEF TypeInv, ReadCalls, UpdateCalls, BeforeWrite
<1>2. ReadInv' /\ ReadEnd'
  BY DEF ReadInv, ReadEnd, ReadingStates
<1>3. WriteInv'
  BY DEF WriteInv, ReadCalls, BeforeWrite
<1>4. OutsideInv'
  BY DEF OutsideInv
<1>5. SizedInv'
  BY DEF SizedInv, Ended, Fits
<1>6. ConserveInv'
  BY DEF ConserveInv
<1>7. PrefixWritten'
  <2>1. content' = Written(was', req', 0)
    BY NothingWritten DEF IInv, TypeInv
  <2>2. 0 \in 0 .. Len(req'.data)
    BY DEF WellFormed, Requests
  <2> QED
    BY <2>1, <2>2 DEF PrefixWritten, WrittenUpTo, Written
<1>8. UpdatedExactly'
  BY DEF UpdatedExactly
<1> QED
  BY <1>1, <1>2, <1>3, <1>4, <1>5, <1>6, <1>7, <1>8 DEF IInv

\* A padded record has the length of a record (update_record).
LEMMA PaddedRecord ==
  ASSUME NEW data \in Seq(Byte), NEW force_len \in BOOLEAN, NEW leftpad \in BOOLEAN
  PROVE  /\ Padded(data, force_len, leftpad) \in Seq(Byte)
         /\ ~force_len /\ Len(data) <= RecordLength =>
              Len(Padded(data, force_len, leftpad)) = RecordLength
<1> USE Sizes
<1>1. CASE force_len \/ Len(data) >= RecordLength
  BY <1>1 DEF Padded
<1>2. CASE ~(force_len \/ Len(data) >= RecordLength)
  <2>1. rpad(data) \in [1 .. RecordLength -> Byte]
    BY DEF rpad
  <2>2. lpad(data) \in [1 .. RecordLength -> Byte]
    BY <1>2 DEF lpad
  <2>3. Padded(data, force_len, leftpad) \in [1 .. RecordLength -> Byte]
    BY <1>2, <2>1, <2>2 DEF Padded
  <2> QED
    BY <2>3
<1> QED
  BY <1>1, <1>2

LEMMA CallStep == IInv /\ Call => IInv'
<1> SUFFICES ASSUME IInv, Call PROVE IInv'
  OBVIOUS
<1> USE Sizes
<1>1. ASSUME NEW offset \in Offsets, read_binary_rest(offset) PROVE IInv'
  <2>1. CASE offset <= Size
    <3> DEFINE r == Read(0, offset, Size - offset)
    <3>1. Size - offset \in Nat /\ offset \in Nat /\ 0 \in Files
      BY <2>1 DEF Files
    <3>2. WellFormed(r) /\ r.op = "read" /\ ~r.sized
      BY <3>1 DEF WellFormed, Requests, Read, Reading
    <3>3. req' = r /\ Begin("select_read")
      BY <1>1, <2>1 DEF read_binary_rest
    <3> HIDE DEF r
    <3> QED
      BY <3>2, <3>3, CallBegins
  <2>2. CASE ~(offset <= Size)
    <3> DEFINE r == Reading("nothing", 0, offset, 0)
    <3>1. 0 \in Files /\ offset \in Nat
      BY DEF Files
    <3>2. WellFormed(r) /\ r.op = "nothing" /\ ~r.sized
      BY <3>1 DEF WellFormed, Requests, Reading
    <3>3. req' = r /\ Begin("select_read")
      BY <1>1, <2>2 DEF read_binary_rest
    <3> HIDE DEF r
    <3> QED
      BY <3>2, <3>3, CallBegins
  <2> QED
    BY <2>1, <2>2
<1>2. ASSUME NEW offset \in Offsets, NEW length \in Lengths, read_binary(offset, length)
      PROVE  IInv'
  <2> DEFINE r == Read(0, offset, length)
  <2>1. WellFormed(r) /\ r.op = "read" /\ ~r.sized
    BY DEF WellFormed, Requests, Read, Reading, Files
  <2>2. req' = r /\ Begin("select_read")
    BY <1>2 DEF read_binary
  <2> HIDE DEF r
  <2> QED
    BY <2>1, <2>2, CallBegins
<1>3. ASSUME NEW n \in Files \ {0}, read_record(n) PROVE IInv'
  <2> DEFINE r == Read(n, 0, RecordLength)
  <2>1. WellFormed(r) /\ r.op = "read" /\ ~r.sized
    BY DEF WellFormed, Requests, Read, Reading
  <2>2. req' = r /\ Begin("select_read")
    BY <1>3 DEF read_record
  <2> HIDE DEF r
  <2> QED
    BY <2>1, <2>2, CallBegins
<1>4. ASSUME NEW offset \in Offsets, NEW data \in Data,
             NEW verify \in BOOLEAN, NEW conserve \in BOOLEAN, NEW sized \in BOOLEAN,
             NEW capital \in Capitals(data),
             sized => ~verify, update_binary(offset, data, capital, verify, conserve, sized)
      PROVE  IInv'
  <2> DEFINE r == Update(0, offset, data, capital, verify, conserve, sized)
             first == IF sized /\ ~Writeable(0, offset, data) THEN "raised" ELSE "size"
  <2>1. WellFormed(r) /\ r.op = "update" /\ r.sized = sized
    <3>1. 0 \in Files /\ offset \in Nat /\ data \in Seq(Byte) /\ capital \in BOOLEAN
      BY DEF Files, Capitals
    <3> QED
      BY <1>4, <3>1 DEF WellFormed, Requests, Update
  <2>2. first = "size" /\ sized => Fits(r)
    <3>1. data \in Seq(Byte) /\ Len(data) \in Nat /\ offset \in Nat
      OBVIOUS
    <3> QED
      BY <3>1, LengthOfFile DEF Fits, Writeable, Update
  <2>3. req' = r /\ Begin(first)
    BY <1>4 DEF update_binary
  <2>4. first \in {"raised", "size"}
    OBVIOUS
  <2> HIDE DEF r, first
  <2> QED
    BY <2>1, <2>2, <2>3, <2>4, CallBegins
<1>5. ASSUME NEW n \in Files \ {0}, NEW data \in Data,
             NEW force_len \in BOOLEAN, NEW leftpad \in BOOLEAN,
             NEW verify \in BOOLEAN, NEW conserve \in BOOLEAN, NEW sized \in BOOLEAN,
             NEW capital \in Capitals(data),
             sized => ~force_len /\ ~verify,
             update_record(n, data, capital, force_len, leftpad, verify, conserve, sized)
      PROVE  IInv'
  <2> DEFINE padded == Padded(data, force_len, leftpad)
             r == Update(n, 0, padded, capital, verify, conserve, sized)
             first == IF sized /\ ~Writeable(n, 0, data) THEN "raised"
                      ELSE IF ~force_len /\ Len(data) > RecordLength THEN "too_long" ELSE "size"
  <2>1. data \in Seq(Byte)
    OBVIOUS
  <2>2. /\ padded \in Seq(Byte)
        /\ ~force_len /\ Len(data) <= RecordLength => Len(padded) = RecordLength
    BY <2>1, PaddedRecord
  <2> HIDE DEF padded
  <2>3. WellFormed(r) /\ r.op = "update" /\ r.sized = sized
    <3>1. capital \in BOOLEAN
      BY DEF Capitals
    <3> QED
      BY <1>5, <2>2, <3>1 DEF WellFormed, Requests, Update
  <2>4. sized /\ first # "raised" => Len(data) <= RecordLength
    BY <2>1 DEF Writeable, FileLength
  <2>5. first = "too_long" => ~sized
    BY <1>5, <2>1, <2>4
  <2>6. first = "size" /\ sized => Fits(r)
    BY <1>5, <2>2, <2>4 DEF Fits, Update, FileLength
  <2>7. req' = r /\ Begin(first)
    BY <1>5 DEF update_record, padded
  <2>8. first \in {"raised", "size", "too_long"}
    OBVIOUS
  <2> HIDE DEF r, first
  <2> QED
    BY <2>3, <2>5, <2>6, <2>7, <2>8, CallBegins
<1> QED
  BY <1>1, <1>2, <1>3, <1>4, <1>5 DEF Call

-----------------------------------------------------------------------------
(* SELECT *)

\* What all steps but those that write leave as it is.
Untouched == UNCHANGED <<content, req, was, spoilt>>

\* A step that writes nothing keeps what is said of the content alone.
LEMMA NothingTouched ==
  ASSUME IInv, Untouched
  PROVE  /\ (IsContent(content) /\ IsContent(was) /\ WellFormed(req))'
         /\ OutsideInv' /\ PrefixWritten'
<1>1. IsContent(content') /\ IsContent(was') /\ WellFormed(req')
  BY DEF IInv, TypeInv, Untouched
<1>2. OutsideInv'
  BY DEF IInv, OutsideInv, Untouched
<1>3. PrefixWritten'
  BY DEF IInv, PrefixWritten, WrittenUpTo, Overlay, Untouched
<1> QED
  BY <1>1, <1>2, <1>3 DEF IsContent, WellFormed, Requests

\* What is to be read is of a natural length.
LEMMA TotalType == ASSUME IInv PROVE Total \in Nat
BY Sizes DEF IInv, TypeInv, WellFormed, Requests, Total

\* Before the first command an update has written nothing.
LEMMA Unwritten ==
  ASSUME IInv, content = was
  PROVE  content = WrittenUpTo(0) /\ 0 <= Len(req.data) /\ Len(req.data) \in Nat
<1>1. Written(was, req, 0) = was
  BY NothingWritten DEF IInv, TypeInv
<1> QED
  BY <1>1 DEF Written, WrittenUpTo, IInv, TypeInv, WellFormed, Requests

\* The card works or it fails.
LEMMA CardDoes ==
  ASSUME IInv, CardWorks \/ CardFails
  PROVE  faulty \in BOOLEAN /\ faulty' \in BOOLEAN /\ faults' \in Nat /\ (faulty => faulty')
<1>1. faulty \in BOOLEAN /\ faults \in Nat
  BY DEF IInv, TypeInv
<1>2. CASE CardWorks
  BY <1>1, <1>2 DEF CardWorks
<1>3. CASE CardFails
  <2>1. faulty' = TRUE /\ faults' = faults + 1
    BY <1>3 DEF CardFails
  <2> QED
    BY <1>1, <2>1
<1> QED
  BY <1>2, <1>3

LEMMA SelectStep == IInv /\ Select => IInv'
<1> SUFFICES ASSUME IInv, Select PROVE IInv'
  OBVIOUS
<1>1. Untouched /\ pos' = 0 /\ got' = <<>>
  BY DEF Select, Untouched
<1>2. /\ at \in {"select_read", "too_long", "size", "conserve", "select", "verify"}
      /\ \/ CardWorks /\ at' = AfterSelect
         \/ CardFails /\ at' = AfterFailure
  BY DEF Select
<1>3. TypeInv /\ WriteInv /\ SizedInv /\ ConserveInv
  BY DEF IInv
<1>4. /\ at = "select_read" => at' \in {"reading", "returned", "raised"}
      /\ at = "select_read" /\ at' = "reading" => req.op = "read"
      /\ at = "select_read" /\ at' = "returned" => req.op = "nothing"
      /\ at = "too_long" => at' = "raised"
      /\ at = "size" => at' \in {"conserve", "select", "writing", "raised"}
      /\ at = "size" /\ at' \in {"select", "writing"} => ~req.conserve
      /\ at = "conserve" => at' \in {"conserving", "select", "writing"}
      /\ at = "conserve" /\ at' \in {"select", "writing"} => faulty'
      /\ at = "select" => at' \in {"writing", "raised"}
      /\ at = "verify" => at' \in {"verifying", "raised"}
      /\ at' = "raised" => faulty' \/ at = "too_long"
      /\ faulty \in BOOLEAN /\ faulty' \in BOOLEAN /\ faults' \in Nat /\ (faulty => faulty')
  <2>1. faulty \in BOOLEAN /\ faulty' \in BOOLEAN /\ faults' \in Nat /\ (faulty => faulty')
    BY <1>2, CardDoes
  <2>2. at = "select_read" => req.op \in {"read", "nothing"}
    BY <1>3 DEF TypeInv
  <2>3. CASE CardWorks /\ at' = AfterSelect
    BY <1>2, <2>1, <2>2, <2>3 DEF AfterSelect, BeforeWriting
  <2>4. CASE CardFails /\ at' = AfterFailure
    <3>1. faulty' = TRUE
      BY <2>4 DEF CardFails
    <3> QED
      BY <1>2, <2>1, <2>4, <3>1 DEF AfterFailure, BeforeWriting
  <2> QED
    BY <1>2, <2>3, <2>4
<1>5. TypeInv'
  <2>1. (IsContent(content) /\ IsContent(was) /\ WellFormed(req))'
    BY <1>1, NothingTouched
  <2> QED
    BY <1>1, <1>2, <1>3, <1>4, <2>1 DEF TypeInv, Untouched, ReadCalls, UpdateCalls, BeforeWrite
<1>6. ReadInv' /\ ReadEnd'
  <2>1. Total' = Total /\ Total \in Nat /\ req' = req
    BY <1>1, TotalType DEF Total, Untouched
  <2>2. ~(at' = "returned" /\ req'.op = "read")
    BY <1>2, <1>4, <2>1
  <2> QED
    BY <1>1, <2>1, <2>2 DEF ReadInv, ReadEnd
<1>7. WriteInv'
  <2>1. at # "verify" => content = was /\ ~spoilt
    BY <1>2, <1>3 DEF WriteInv, ReadCalls, BeforeWrite
  <2>2. req' = req /\ content' = content /\ was' = was /\ spoilt' = spoilt
    BY <1>1 DEF Untouched
  <2>3. at' \in ReadCalls \cup BeforeWrite \/ req.op # "update" => content = was /\ ~spoilt
    BY <1>2, <1>3, <1>4, <2>1 DEF WriteInv, ReadCalls, BeforeWrite
  <2>4. at' = "writing" => content' = WrittenUpTo(0)' /\ 0 <= Len(req'.data)
    <3>1. at' = "writing" => content = WrittenUpTo(0) /\ 0 <= Len(req.data)
      BY <1>2, <1>4, <2>1, Unwritten
    <3> QED
      BY <3>1, <2>2 DEF WrittenUpTo, Overlay
  <2>5. at' \in {"verify", "verifying"} /\ ~spoilt => Whole
    BY <1>2, <1>3, <1>4 DEF WriteInv
  <2>6. Whole => Whole'
    BY <2>2 DEF Whole, WrittenUpTo, Overlay
  <2> QED
    BY <1>1, <2>2, <2>3, <2>4, <2>5, <2>6 DEF WriteInv
<1>8. SizedInv'
  <2>1. at = "too_long" => content = was
    BY <1>3 DEF WriteInv, BeforeWrite
  <2> QED
    BY <1>1, <1>2, <1>3, <1>4, <2>1 DEF SizedInv, Untouched, Ended, Fits
<1>9. ConserveInv'
  <2>1. at' \in {"select", "writing"} => ~req.conserve \/ faulty' \/ (at = "select" /\ Different)
    BY <1>2, <1>3, <1>4 DEF ConserveInv
  <2> QED
    BY <1>1, <1>4, <2>1 DEF ConserveInv, Different, Untouched, WrittenUpTo, Overlay
<1>10. UpdatedExactly'
  BY <1>1, <1>2, <1>4 DEF UpdatedExactly, Untouched
<1> QED
  BY <1>1, <1>5, <1>6, <1>7, <1>8, <1>9, <1>10, NothingTouched DEF IInv

-----------------------------------------------------------------------------
(* Reading *)

\* One more command of the loop reads the next piece of the file.
LEMMA NextRead ==
  ASSUME IInv, at \in ReadingStates, pos < Total, NEW n, n = Chunk(Total)
  PROVE  /\ n \in Nat /\ n > 0 /\ pos + n <= Total
         /\ req.file # 0 => pos = 0 /\ n = Total
<1> USE Sizes
<1>1. pos \in Nat /\ Total \in Nat /\ (req.file # 0 => pos \in {0, Total})
  BY TotalType DEF IInv, TypeInv, ReadInv
<1> QED
  BY <1>1 DEF Chunk, Smaller

\* A read that fails is made up for by none when a comparison asked for it.
LEMMA ReadFails ==
  ASSUME IInv, Untouched, at \in ReadingStates, ReadFailed,
         faulty \in BOOLEAN, faulty' \in BOOLEAN, faults' \in Nat, faulty => faulty',
         at = "conserving" => faulty' \/ Different
  PROVE  IInv'
<1>1. pos' = 0 /\ got' = <<>> /\ at' = AfterFailure
  BY DEF ReadFailed
<1>2. TypeInv /\ WriteInv /\ SizedInv /\ ConserveInv
  BY DEF IInv
<1>3. /\ at = "reading" => at' = "raised" /\ req.op = "read"
      /\ at = "conserving" => at' \in {"select", "writing"} /\ req.op = "update"
      /\ at = "verifying" => at' = "raised" /\ req.op = "update" /\ req.verify
      /\ at \in {"reading", "conserving", "verifying"}
  BY <1>1, <1>2 DEF TypeInv, AfterFailure, BeforeWriting, ReadingStates, UpdateCalls, BeforeWrite
<1>4. TypeInv'
  <2>1. (IsContent(content) /\ IsContent(was) /\ WellFormed(req))'
    BY NothingTouched
  <2> QED
    BY <1>1, <1>2, <1>3, <2>1 DEF TypeInv, Untouched, ReadCalls, UpdateCalls, BeforeWrite
<1>5. ReadInv' /\ ReadEnd'
  BY <1>1, <1>3 DEF ReadInv, ReadEnd, ReadingStates
<1>6. WriteInv'
  <2>1. at # "verifying" => content = was /\ ~spoilt
    BY <1>2, <1>3 DEF WriteInv, ReadCalls, BeforeWrite
  <2>2. req' = req /\ content' = content /\ was' = was /\ spoilt' = spoilt
    BY DEF Untouched
  <2>3. at' = "writing" => content' = WrittenUpTo(0)' /\ 0 <= Len(req'.data)
    <3>1. at' = "writing" => content = WrittenUpTo(0) /\ 0 <= Len(req.data)
      BY <1>3, <2>1, Unwritten
    <3> QED
      BY <3>1, <2>2 DEF WrittenUpTo, Overlay
  <2>4. at' \in ReadCalls \cup BeforeWrite \/ req.op # "update" => content = was /\ ~spoilt
    BY <1>2, <1>3, <2>1 DEF WriteInv, ReadCalls, BeforeWrite
  <2> QED
    BY <1>1, <1>3, <2>2, <2>3, <2>4 DEF WriteInv
<1>7. SizedInv'
  <2>1. at = "reading" => content = was
    BY <1>2, <1>3 DEF WriteInv
  <2>2. at = "verifying" => ~req.sized
    BY <1>2, <1>3 DEF TypeInv, WellFormed
  <2> QED
    BY <1>2, <1>3, <2>1, <2>2 DEF SizedInv, Untouched, Ended, Fits
<1>8. ConserveInv'
  BY <1>1, <1>3 DEF ConserveInv, Different, Untouched, WrittenUpTo, Overlay
<1>9. UpdatedExactly'
  BY <1>3 DEF UpdatedExactly
<1> QED
  BY <1>4, <1>5, <1>6, <1>7, <1>8, <1>9, NothingTouched DEF IInv

LEMMA ReadChunkStep == IInv /\ ReadChunk => IInv'
<1> SUFFICES ASSUME IInv, ReadChunk PROVE IInv'
  OBVIOUS
<1> DEFINE n == Chunk(Total)
<1>1. Untouched /\ at \in ReadingStates /\ pos < Total
  BY DEF ReadChunk, Untouched
<1>2. /\ pos \in Nat /\ Total \in Nat /\ req.offset \in Nat /\ req.file \in Files
      /\ FileLength(req.file) \in Nat /\ got \in Seq(Byte)
      /\ content[req.file] \in [0 .. FileLength(req.file) - 1 -> Byte]
  BY TotalType, LengthOfFile DEF IInv, TypeInv, WellFormed, Requests, IsContent
<1>3. n \in Nat /\ n > 0 /\ pos + n <= Total /\ (req.file # 0 => pos = 0 /\ n = Total)
  BY <1>1, NextRead
<1>4. \/ /\ ChunkOffset + n <= FileLength(req.file)
         /\ got' = got \o Slice(req.file, ChunkOffset, n)
         /\ pos' = pos + n
         /\ UNCHANGED at /\ CardWorks
      \/ ~(ChunkOffset + n <= FileLength(req.file)) /\ CardWorks /\ ReadFailed
      \/ CardFails /\ ReadFailed
  BY DEF ReadChunk
<1> HIDE DEF n
<1>5. faulty \in BOOLEAN /\ faulty' \in BOOLEAN /\ faults' \in Nat /\ (faulty => faulty')
  BY <1>4, CardDoes
<1>6. CASE CardFails /\ ReadFailed
  <2>1. faulty'
    BY <1>6 DEF CardFails
  <2> QED
    BY <1>1, <1>5, <1>6, <2>1, ReadFails
<1>7. CASE ~(ChunkOffset + n <= FileLength(req.file)) /\ CardWorks /\ ReadFailed
  <2>1. ASSUME at = "conserving" PROVE Different
    <3>1. req.op = "update" /\ Len(req.data) \in Nat
      BY <2>1 DEF IInv, TypeInv, UpdateCalls, BeforeWrite, WellFormed, Requests
    <3>2. CASE req.file = 0
      <4>1. Total = Len(req.data)
        BY <3>1, <3>2 DEF Total
      <4>2. ~(req.offset + Len(req.data) <= FileLength(req.file))
        BY <1>2, <1>3, <1>7, <3>1, <4>1 DEF ChunkOffset
      <4> QED
        BY <4>2 DEF Different
    <3>3. CASE req.file # 0
      <4>1. Total = RecordLength /\ FileLength(req.file) = RecordLength /\ req.offset = 0
        BY <3>1, <3>3 DEF Total, FileLength, IInv, TypeInv, WellFormed
      <4>2. ChunkOffset + n <= FileLength(req.file)
        BY <1>2, <1>3, <3>3, <4>1 DEF ChunkOffset
      <4> QED
        BY <1>7, <4>2
    <3> QED
      BY <3>2, <3>3
  <2> QED
    BY <1>1, <1>5, <1>7, <2>1, ReadFails
<1>8. CASE /\ ChunkOffset + n <= FileLength(req.file)
           /\ got' = got \o Slice(req.file, ChunkOffset, n)
           /\ pos' = pos + n
           /\ UNCHANGED at /\ CardWorks
  <2> DEFINE piece == Slice(req.file, ChunkOffset, n)
  <2>1. piece \in Seq(Byte) /\ Len(piece) = n
    <3>1. ASSUME NEW i \in 1 .. n PROVE content[req.file][ChunkOffset + i - 1] \in Byte
      <4>1. ChunkOffset + i - 1 \in 0 .. FileLength(req.file) - 1
        BY <1>2, <1>3, <1>8 DEF ChunkOffset
      <4> QED
        BY <1>2, <4>1
    <3>2. piece \in [1 .. n -> Byte]
      BY <3>1 DEF Slice
    <3> QED
      BY <1>3, <3>2
  <2>2. TypeInv'
    <3>1. (IsContent(content) /\ IsContent(was) /\ WellFormed(req))'
      BY <1>1, NothingTouched
    <3>2. got' \in Seq(Byte) /\ pos' \in Nat
      BY <1>2, <1>3, <1>8, <2>1
    <3>3. TypeInv
      BY DEF IInv
    <3> QED
      BY <1>1, <1>5, <1>8, <3>1, <3>2, <3>3 DEF TypeInv, Untouched
  <2>3. ReadInv'
    <3>1. Total' = Total /\ req' = req /\ content' = content /\ FileLength(req'.file) = FileLength(req.file)
      BY <1>1 DEF Total, Untouched
    <3>2. Len(got) = pos /\ \A i \in 1 .. pos : got[i] = content[req.file][req.offset + i - 1]
      BY <1>1 DEF IInv, ReadInv
    <3>3. Len(got') = pos'
      <4>1. got \in Seq(Byte) /\ got' = got \o piece /\ pos' = pos + n
        BY <1>2, <1>8
      <4>2. Len(got \o piece) = Len(got) + Len(piece)
        <5> HIDE DEF piece
        <5> QED
          BY <2>1, <4>1, ConcatProperties
      <4> QED
        BY <2>1, <3>2, <4>1, <4>2
    <3>4. ASSUME NEW i \in 1 .. pos' PROVE got'[i] = content[req.file][req.offset + i - 1]
      <4>1. CASE i <= pos
        BY <1>2, <1>3, <1>8, <2>1, <3>2, <4>1
      <4>2. CASE ~(i <= pos)
        <5>1. i - pos \in 1 .. n
          BY <1>2, <1>3, <1>8, <4>2
        <5>2. got'[i] = piece[i - pos]
          BY <1>2, <1>3, <1>8, <2>1, <3>2, <4>2
        <5>3. piece[i - pos] = content[req.file][ChunkOffset + (i - pos) - 1]
          BY <5>1 DEF Slice
        <5>4. ChunkOffset + (i - pos) - 1 = req.offset + i - 1
          BY <1>2, <1>3, <1>8 DEF ChunkOffset
        <5> QED
          BY <5>2, <5>3, <5>4
      <4> QED
        BY <4>1, <4>2
    <3>5. pos' <= Total /\ (req.file # 0 => pos' \in {0, Total})
      BY <1>2, <1>3, <1>8
    <3>6. req.offset + pos' <= FileLength(req.file)
      BY <1>2, <1>3, <1>8 DEF ChunkOffset
    <3> QED
      BY <3>1, <3>3, <3>4, <3>5, <3>6 DEF ReadInv
  <2>4. ReadEnd' /\ UpdatedExactly' /\ ConserveInv'
    BY <1>1, <1>8 DEF ReadEnd, UpdatedExactly, ConserveInv, ReadingStates
  <2>5. WriteInv'
    <3>1. WriteInv
      BY DEF IInv
    <3> QED
      BY <1>1, <1>8, <3>1 DEF WriteInv, Whole, Untouched, WrittenUpTo, Overlay, ReadingStates
  <2>6. SizedInv'
    <3>1. SizedInv
      BY DEF IInv
    <3> QED
      BY <1>1, <1>8, <3>1 DEF SizedInv, Untouched, Ended, Fits, ReadingStates
  <2> QED
    BY <1>1, <2>2, <2>3, <2>4, <2>5, <2>6, NothingTouched DEF IInv
<1> QED
  BY <1>4, <1>6, <1>7, <1>8

\* What was read matches the data just when the file has them.
LEMMA WholeRead ==
  ASSUME IInv, at \in {"conserving", "verifying"}, pos = Total,
         req.offset + Len(req.data) <= FileLength(req.file)
  PROVE  /\ Len(req.data) <= Len(got)
         /\ \A i \in 1 .. Len(req.data) : got[i] = content[req.file][req.offset + i - 1]
         /\ Whole <=> \A i \in 1 .. Len(req.data) : got[i] = req.data[i]
<1>1. /\ req.op = "update" /\ req.data \in Seq(Byte) /\ Len(req.data) \in Nat
      /\ req.offset \in Nat /\ req.file \in Files
      /\ IsContent(content) /\ IsContent(was) /\ WellFormed(req)
  BY DEF IInv, TypeInv, UpdateCalls, BeforeWrite, WellFormed, Requests
<1>2. Len(got) = Total /\ \A i \in 1 .. Total : got[i] = content[req.file][req.offset + i - 1]
  BY DEF IInv, ReadInv, ReadingStates
<1>3. Len(req.data) <= Total
  BY <1>1 DEF Total, FileLength, WellFormed
<1>4. Len(req.data) <= Len(got)
      /\ \A i \in 1 .. Len(req.data) : got[i] = content[req.file][req.offset + i - 1]
  BY <1>1, <1>2, <1>3, TotalType
<1> DEFINE whole == Written(was, req, Len(req.data))
<1>5. IsContent(whole)
      /\ \A file \in Files : \A i \in 0 .. FileLength(file) - 1 :
           whole[file][i] = IF file = req.file /\ i \in req.offset .. req.offset + Len(req.data) - 1
                            THEN req.data[i - req.offset + 1] ELSE was[file][i]
  BY <1>1, WrittenBytes
<1>6. Whole <=> content = whole
  BY DEF Whole, WrittenUpTo, Written
<1> HIDE DEF whole
<1>7. ASSUME content = whole, NEW i \in 1 .. Len(req.data) PROVE got[i] = req.data[i]
  <2>1. req.offset + i - 1 \in 0 .. FileLength(req.file) - 1
        /\ req.offset + i - 1 \in req.offset .. req.offset + Len(req.data) - 1
        /\ (req.offset + i - 1) - req.offset + 1 = i
    BY <1>1, LengthOfFile
  <2>2. whole[req.file][req.offset + i - 1] = req.data[(req.offset + i - 1) - req.offset + 1]
    BY <1>1, <1>5, <2>1
  <2> QED
    BY <1>4, <1>7, <2>1, <2>2
<1>8. ASSUME \A i \in 1 .. Len(req.data) : got[i] = req.data[i] PROVE content = whole
  <2>1. ASSUME NEW file \in Files, NEW i \in 0 .. FileLength(file) - 1
        PROVE  content[file][i] = whole[file][i]
    <3>1. CASE file = req.file /\ i \in req.offset .. req.offset + Len(req.data) - 1
      <4>1. i - req.offset + 1 \in 1 .. Len(req.data) /\ req.offset + (i - req.offset + 1) - 1 = i
        BY <1>1, <3>1, LengthOfFile
      <4>2. got[i - req.offset + 1] = content[file][i]
        BY <1>4, <3>1, <4>1
      <4>3. got[i - req.offset + 1] = req.data[i - req.offset + 1]
        BY <1>8, <4>1
      <4>4. whole[file][i] = req.data[i - req.offset + 1]
        BY <1>5, <3>1
      <4> QED
        BY <4>2, <4>3, <4>4
    <3>2. CASE ~(file = req.file /\ i \in req.offset .. req.offset + Len(req.data) - 1)
      <4>1. content[file][i] = was[file][i]
        BY <3>2 DEF IInv, OutsideInv
      <4> QED
        BY <1>5, <3>2, <4>1
    <3> QED
      BY <3>1, <3>2
  <2> QED
    BY <1>1, <1>5, <2>1, SameBytes
<1> QED
  BY <1>4, <1>6, <1>7, <1>8

LEMMA ReadDoneStep == IInv /\ ReadDone => IInv'
<1> SUFFICES ASSUME IInv, ReadDone PROVE IInv'
  OBVIOUS
<1>1. Untouched /\ faulty' = faulty /\ faults' = faults
  BY DEF ReadDone, Untouched
<1>2. /\ at \in {"reading", "conserving", "verifying"} /\ pos = Total
      /\ TypeInv /\ WriteInv /\ SizedInv /\ ConserveInv
  BY TotalType DEF IInv, TypeInv, ReadInv, ReadDone, ReadingStates
<1>3. faulty \in BOOLEAN /\ faulty' \in BOOLEAN /\ faults' \in Nat /\ (faulty => faulty')
  BY <1>1, <1>2 DEF TypeInv
<1>4. CASE at = "reading"
  <2>1. pos' = pos /\ got' = got /\ at' = IF Total = 0 THEN "raised" ELSE "returned"
    BY <1>4 DEF ReadDone, AfterFailure
  <2>2. req.op = "read" /\ content = was /\ ~spoilt
    BY <1>2, <1>4 DEF TypeInv, WriteInv, ReadCalls
  <2>3. TypeInv'
    <3>1. (IsContent(content) /\ IsContent(was) /\ WellFormed(req))'
      BY <1>1, NothingTouched
    <3> QED
      BY <1>1, <1>2, <2>1, <3>1 DEF TypeInv, Untouched, UpdateCalls, BeforeWrite, ReadCalls
  <2>4. ReadInv' /\ ReadEnd'
    <3>1. Total' = Total /\ Total \in Nat /\ FileLength(req'.file) = FileLength(req.file)
      BY <1>1, TotalType DEF Total, Untouched
    <3>2. ReadInv
      BY DEF IInv
    <3> QED
      BY <1>1, <1>2, <1>4, <2>1, <3>1, <3>2 DEF ReadInv, ReadEnd, Untouched, ReadingStates
  <2>5. WriteInv' /\ SizedInv' /\ ConserveInv' /\ UpdatedExactly'
    BY <1>1, <1>2, <2>1, <2>2
       DEF WriteInv, SizedInv, ConserveInv, UpdatedExactly, Untouched, Ended, BeforeWrite
  <2> QED
    BY <1>1, <2>3, <2>4, <2>5, NothingTouched DEF IInv
<1>5. CASE Total = 0 /\ at # "reading"
  <2>1. at = "conserving" => Different
    <3>1. at = "conserving" => req.op = "update" /\ Len(req.data) \in Nat /\ req.data \in Seq(Byte)
      BY <1>2 DEF TypeInv, UpdateCalls, BeforeWrite, WellFormed, Requests
    <3>2. at = "conserving" => Len(req.data) = 0
      BY <1>5, <3>1, Sizes DEF Total
    <3>3. at = "conserving" => req.data = <<>>
      BY <3>1, <3>2
    <3> QED
      BY <3>3 DEF Different
  <2>2. ReadFailed
    BY <1>5 DEF ReadDone, ReadFailed
  <2> QED
    BY <1>1, <1>2, <1>3, <2>1, <2>2, ReadFails DEF ReadingStates
<1>6. CASE at = "conserving" /\ Total # 0 /\ ~Matches
  <2>1. ReadFailed
    BY <1>6 DEF ReadDone, ReadFailed, AfterFailure
  <2>2. Different
    <3>1. ~req.capital /\ req.offset + Len(req.data) <= FileLength(req.file) => ~Whole
      BY <1>2, <1>6, WholeRead DEF Matches
    <3>2. content = was
      BY <1>2, <1>6 DEF WriteInv, BeforeWrite
    <3> QED
      BY <3>1, <3>2 DEF Different, Whole
  <2> QED
    BY <1>1, <1>2, <1>3, <2>1, <2>2, ReadFails DEF ReadingStates
<1>7. CASE at = "verifying" /\ Total # 0 /\ got # req.data
  <2>1. ReadFailed
    BY <1>7 DEF ReadDone, ReadFailed, AfterFailure
  <2> QED
    BY <1>1, <1>2, <1>3, <1>7, <2>1, ReadFails DEF ReadingStates
<1>8. CASE /\ Total # 0
           /\ \/ at = "conserving" /\ Matches
              \/ at = "verifying" /\ got = req.data
  <2>1. at' = "returned" /\ pos' = 0 /\ got' = <<>>
    BY <1>8 DEF ReadDone
  <2>2. req.op = "update"
    BY <1>2, <1>8 DEF TypeInv, UpdateCalls, BeforeWrite
  <2>3. Whole
    <3>1. Len(req.data) \in Nat /\ Len(got) = Total /\ Total \in Nat
          /\ req.offset + Total <= FileLength(req.file)
      BY <1>2, <1>8, TotalType DEF IInv, TypeInv, WellFormed, Requests, ReadInv, ReadingStates
    <3>2. Len(req.data) <= Len(got) /\ \A i \in 1 .. Len(req.data) : got[i] = req.data[i]
      BY <1>8, <3>1 DEF Matches
    <3>3. req.offset + Len(req.data) <= FileLength(req.file)
      BY <1>2, <3>1, <3>2, LengthOfFile DEF TypeInv, WellFormed, Requests
    <3> QED
      BY <1>2, <1>8, <3>2, <3>3, WholeRead
  <2>4. TypeInv'
    <3>1. (IsContent(content) /\ IsContent(was) /\ WellFormed(req))'
      BY <1>1, NothingTouched
    <3> QED
      BY <1>1, <1>2, <2>1, <3>1 DEF TypeInv, Untouched, UpdateCalls, BeforeWrite, ReadCalls
  <2>5. ReadInv' /\ ReadEnd' /\ WriteInv' /\ SizedInv' /\ ConserveInv'
    BY <1>1, <1>2, <2>1, <2>2
       DEF ReadInv, ReadEnd, WriteInv, SizedInv, ConserveInv, Untouched, Ended, BeforeWrite,
           ReadingStates, ReadCalls
  <2>6. UpdatedExactly'
    BY <1>1, <2>3 DEF UpdatedExactly, Whole, WrittenUpTo, Overlay, Untouched
  <2> QED
    BY <1>1, <2>4, <2>5, <2>6, NothingTouched DEF IInv
<1> QED
  BY <1>2, <1>4, <1>5, <1>6, <1>7, <1>8

-----------------------------------------------------------------------------
(* Writing *)

LEMMA WriteDoneStep == IInv /\ WriteDone => IInv'
<1> SUFFICES ASSUME IInv, WriteDone PROVE IInv'
  OBVIOUS
<1>1. Untouched /\ faulty' = faulty /\ faults' = faults /\ pos' = pos /\ got' = got
  BY DEF WriteDone, Untouched
<1>2. /\ at = "writing" /\ TypeInv /\ WriteInv /\ SizedInv /\ req.op = "update"
      /\ pos = Len(req.data) /\ (~spoilt => Whole)
  <2>1. at = "writing" /\ pos >= Len(req.data)
    BY DEF WriteDone
  <2>2. TypeInv /\ WriteInv /\ SizedInv
    BY DEF IInv
  <2>3. req.op = "update" /\ pos \in Nat /\ Len(req.data) \in Nat
    BY <2>1, <2>2 DEF TypeInv, UpdateCalls, WellFormed, Requests
  <2>4. pos = Len(req.data) /\ (~spoilt => content = WrittenUpTo(pos))
    BY <2>1, <2>2, <2>3 DEF WriteInv
  <2> QED
    BY <2>1, <2>2, <2>3, <2>4 DEF Whole
<1>3. at' = IF req.data = <<>> THEN "raised" ELSE IF req.verify THEN "verify" ELSE "returned"
  BY DEF WriteDone
<1>4. TypeInv'
  <2>1. (IsContent(content) /\ IsContent(was) /\ WellFormed(req))'
    BY <1>1, NothingTouched
  <2> QED
    BY <1>1, <1>2, <1>3, <2>1 DEF TypeInv, Untouched, UpdateCalls, BeforeWrite, ReadCalls
<1>5. ReadInv' /\ ReadEnd' /\ ConserveInv'
  BY <1>1, <1>2, <1>3 DEF ReadInv, ReadEnd, ConserveInv, Untouched, ReadingStates
<1>6. WriteInv'
  BY <1>1, <1>2, <1>3
     DEF WriteInv, Whole, WrittenUpTo, Overlay, Untouched, BeforeWrite, ReadCalls
<1>7. SizedInv'
  <2>1. req.data = <<>> /\ ~spoilt => content = was
    <3>1. Written(was, req, 0) = was
      BY <1>2, NothingWritten DEF TypeInv
    <3>2. req.data = <<>> => Len(req.data) = 0
      OBVIOUS
    <3> QED
      BY <1>2, <3>1, <3>2 DEF Whole, WrittenUpTo, Written
  <2>2. spoilt => faulty
    BY <1>2 DEF TypeInv
  <2> QED
    BY <1>1, <1>2, <1>3, <2>1, <2>2 DEF SizedInv, Untouched, Ended, Fits
<1>8. UpdatedExactly'
  BY <1>1, <1>2, <1>3 DEF UpdatedExactly, Whole, WrittenUpTo, Overlay, Untouched
<1> QED
  BY <1>1, <1>4, <1>5, <1>6, <1>7, <1>8, NothingTouched DEF IInv

\* A command of the loop carries data that are there to be written, and some.
LEMMA NextWrite ==
  ASSUME IInv, at = "writing", pos < Len(req.data), NEW n, n = Chunk(Len(req.data))
  PROVE  /\ pos \in Nat /\ n \in Nat /\ n > 0 /\ pos + n <= Len(req.data)
         /\ Len(req.data) \in Nat /\ req.op = "update"
         /\ ChunkData(n) \in [1 .. n -> Byte]
         /\ req.file # 0 => pos = 0 /\ n = Len(req.data)
         /\ \/ pos + n = Len(req.data)
            \/ req.file = 0 /\ \E k \in 0 .. pos + n : pos + n = k * max_cmd_len
<1> USE Sizes
<1>1. pos \in Nat /\ req.data \in Seq(Byte) /\ Len(req.data) \in Nat /\ req.op = "update"
  BY DEF IInv, TypeInv, UpdateCalls, WellFormed, Requests
<1>2. \/ pos = Len(req.data) \/ pos = 0
      \/ req.file = 0 /\ \E k \in 0 .. pos : pos = k * max_cmd_len
  BY DEF IInv, WriteInv
<1>3. req.file # 0 => pos = 0 /\ n = Len(req.data)
  BY <1>1, <1>2 DEF Chunk
<1>4. n \in Nat /\ n > 0 /\ pos + n <= Len(req.data)
      /\ (req.file = 0 => n = max_cmd_len \/ pos + n = Len(req.data))
  BY <1>1, <1>3 DEF Chunk, Smaller
<1>5. ChunkData(n) \in [1 .. n -> Byte]
  <2>1. ASSUME NEW i \in 1 .. n PROVE req.data[pos + i] \in Byte
    <3>1. pos + i \in 1 .. Len(req.data)
      BY <1>1, <1>4
    <3> QED
      BY <1>1, <3>1
  <2> QED
    BY <2>1 DEF ChunkData
<1>6. ASSUME pos + n # Len(req.data)
      PROVE  req.file = 0 /\ \E k \in 0 .. pos + n : pos + n = k * max_cmd_len
  <2>1. req.file = 0 /\ n = max_cmd_len
    BY <1>1, <1>3, <1>4, <1>6
  <2>2. CASE pos = 0
    <3>1. 1 \in 0 .. pos + n /\ pos + n = 1 * max_cmd_len
      BY <1>4, <2>1, <2>2
    <3> QED
      BY <2>1, <3>1
  <2>3. CASE pos # 0
    <3>1. PICK k \in 0 .. pos : pos = k * max_cmd_len
      BY <1>1, <1>2, <2>3
    <3>2. k + 1 \in 0 .. pos + n
      BY <1>1, <1>4, <3>1
    <3>3. k * max_cmd_len + max_cmd_len = (k + 1) * max_cmd_len
      BY <3>1
    <3>4. pos + n = (k + 1) * max_cmd_len
      BY <2>1, <3>1, <3>3
    <3> QED
      BY <2>1, <3>2, <3>4
  <2> QED
    BY <2>2, <2>3
<1> QED
  BY <1>1, <1>3, <1>4, <1>5, <1>6

\* A command that is carried out leaves a file that differs from what it was
\* only where it is written to.
LEMMA CommandStores ==
  ASSUME IInv, at = "writing", pos < Len(req.data),
         NEW n, n = Chunk(Len(req.data)), NEW m, m = pos + n, NEW bytes \in [1 .. n -> Byte],
         content' = Stored(bytes, n), req' = req, was' = was
  PROVE  /\ IsContent(content)' /\ IsContent(was)' /\ WellFormed(req)' /\ OutsideInv'
         /\ (\A i \in 1 .. n : bytes[i] = req.data[pos + i]) /\ ~spoilt
              => content' = WrittenUpTo(m)'
<1>1. pos \in Nat /\ n \in Nat /\ pos + n <= Len(req.data) /\ Len(req.data) \in Nat
  BY NextWrite
<1>2. IsContent(content) /\ IsContent(was) /\ WellFormed(req) /\ req.offset \in Nat
  BY DEF IInv, TypeInv, WellFormed, Requests
<1> DEFINE c == StoredAt(content, req, pos, bytes, n)
<1>3. content' = c
  BY DEF Stored, StoredAt, ChunkOffset
<1>4. IsContent(c)
      /\ \A file \in Files : \A i \in 0 .. FileLength(file) - 1 :
           c[file][i] = IF file = req.file /\ i \in req.offset + pos .. req.offset + pos + n - 1
                        THEN bytes[i - (req.offset + pos) + 1] ELSE content[file][i]
  <2>1. bytes \in [1 .. n -> Byte]
    OBVIOUS
  <2>2. \A q \in Nat, l \in Nat : \A b \in [1 .. l -> Byte] :
          /\ IsContent(StoredAt(content, req, q, b, l))
          /\ \A file \in Files : \A i \in 0 .. FileLength(file) - 1 :
               StoredAt(content, req, q, b, l)[file][i] =
                 IF file = req.file /\ i \in req.offset + q .. req.offset + q + l - 1
                 THEN b[i - (req.offset + q) + 1] ELSE content[file][i]
    BY <1>2, StoredBytes
  <2> DEFINE stored == StoredAt(content, req, pos, bytes, n)
  <2> HIDE DEF stored
  <2>3. /\ IsContent(stored)
        /\ \A file \in Files : \A i \in 0 .. FileLength(file) - 1 :
             stored[file][i] =
               IF file = req.file /\ i \in req.offset + pos .. req.offset + pos + n - 1
               THEN bytes[i - (req.offset + pos) + 1] ELSE content[file][i]
    BY <1>1, <2>1, <2>2 DEF stored
  <2> QED
    BY <2>3 DEF stored
<1> HIDE DEF c
<1>5. OutsideInv'
  <2>1. ASSUME NEW file \in Files, NEW i \in 0 .. FileLength(file) - 1
        PROVE  \/ c[file][i] = was[file][i]
               \/ file = req.file /\ i \in req.offset .. req.offset + Len(req.data) - 1
    <3>1. i \in Nat
      BY LengthOfFile
    <3>2. CASE file = req.file /\ i \in req.offset + pos .. req.offset + pos + n - 1
      BY <1>1, <1>2, <3>1, <3>2
    <3>3. CASE ~(file = req.file /\ i \in req.offset + pos .. req.offset + pos + n - 1)
      <4>1. c[file][i] = content[file][i]
        BY <1>4, <3>3
      <4> QED
        BY <4>1 DEF IInv, OutsideInv
    <3> QED
      BY <3>2, <3>3
  <2> QED
    BY <1>3, <2>1 DEF OutsideInv, FileLength
<1>6. ASSUME \A i \in 1 .. n : bytes[i] = req.data[pos + i], ~spoilt
      PROVE  content' = WrittenUpTo(m)'
  <2>1. content = Written(was, req, pos)
    BY <1>6 DEF IInv, WriteInv, WrittenUpTo, Written
  <2>2. StoredAt(Written(was, req, pos), req, pos, bytes, n) = Written(was, req, pos + n)
    <3>1. PICK w : w = was
      OBVIOUS
    <3>2. PICK r : r = req
      OBVIOUS
    <3>3. PICK p \in Nat : p = pos
      BY <1>1
    <3>4. PICK l \in Nat : l = n
      BY <1>1
    <3>5. PICK b \in [1 .. l -> Byte] : b = bytes
      BY <3>4
    <3>6. IsContent(w) /\ WellFormed(r) /\ p + l <= Len(r.data)
      BY <1>1, <1>2, <3>1, <3>2, <3>3, <3>4
    <3>7. \A i \in 1 .. l : b[i] = r.data[p + i]
      BY <1>6, <3>2, <3>3, <3>4, <3>5
    <3>8. StoredAt(Written(w, r, p), r, p, b, l) = Written(w, r, p + l)
      BY <3>6, <3>7, NextPiece
    <3> QED
      BY <3>1, <3>2, <3>3, <3>4, <3>5, <3>8
  <2>3. content' = Written(was, req, pos + n)
    BY <1>3, <2>1, <2>2 DEF c
  <2>4. Written(was, req, m) = [was EXCEPT ![req.file] = Overlay(@, req.offset, req.data, m)]
    BY DEF Written
  <2> QED
    BY <2>3, <2>4 DEF WrittenUpTo, Overlay
<1>7. IsContent(content') /\ IsContent(was') /\ WellFormed(req')
  BY <1>2, <1>3, <1>4
<1> QED
  BY <1>5, <1>6, <1>7 DEF IsContent, WellFormed, Requests

\* An update that has written a piece and goes on, or has failed.
LEMMA PieceWritten ==
  ASSUME IInv, at = "writing", pos < Len(req.data),
         NEW n, n = Chunk(Len(req.data)), NEW bytes \in [1 .. n -> Byte],
         content' = Stored(bytes, n), req' = req, was' = was, got' = got,
         \/ pos' = pos + n /\ at' = at
         \/ pos' = pos /\ at' = "raised" /\ faulty',
         spoilt' \in BOOLEAN, spoilt => spoilt', spoilt' => faulty',
         faulty \in BOOLEAN, faulty' \in BOOLEAN, faults' \in Nat, faulty => faulty',
         ~spoilt' => \A i \in 1 .. n : bytes[i] = req.data[pos + i]
  PROVE  IInv'
<1> PICK m : m = pos + n
  OBVIOUS
<1>1. /\ pos \in Nat /\ n \in Nat /\ n > 0 /\ m <= Len(req.data)
      /\ Len(req.data) \in Nat /\ req.op = "update"
      /\ \/ m = Len(req.data)
         \/ req.file = 0 /\ \E k \in 0 .. m : m = k * max_cmd_len
  BY NextWrite
<1>2. TypeInv /\ SizedInv /\ spoilt \in BOOLEAN
  BY DEF IInv, TypeInv
<1>3. /\ (IsContent(content) /\ IsContent(was) /\ WellFormed(req))'
      /\ OutsideInv'
      /\ ~spoilt' => content' = WrittenUpTo(m)'
  BY <1>2, CommandStores
<1>4. m \in 0 .. Len(req.data) /\ m # 0 /\ (pos' = m \/ (pos' = pos /\ at' = "raised"))
      /\ pos' \in Nat
  BY <1>1
<1>5. TypeInv'
  BY <1>2, <1>3, <1>4 DEF TypeInv, UpdateCalls, BeforeWrite, ReadCalls
<1>6. ReadInv' /\ ReadEnd' /\ UpdatedExactly' /\ ConserveInv'
  BY <1>4 DEF ReadInv, ReadEnd, UpdatedExactly, ConserveInv, ReadingStates
<1>7. WriteInv'
  <2>1. at' = "writing" => pos' = m
    BY <1>4
  <2>2. at' = "writing" /\ ~spoilt' => content' = WrittenUpTo(pos)'
    BY <1>3, <2>1 DEF WrittenUpTo, Overlay
  <2> QED
    BY <1>1, <1>4, <2>1, <2>2 DEF WriteInv, BeforeWrite, ReadCalls
<1>8. SizedInv'
  BY <1>2 DEF SizedInv, Ended, Fits, FileLength
<1>9. PrefixWritten'
  BY <1>1, <1>3, <1>4 DEF PrefixWritten
<1> QED
  BY <1>3, <1>5, <1>6, <1>7, <1>8, <1>9 DEF IInv

LEMMA WriteChunkStep == IInv /\ WriteChunk => IInv'
<1> SUFFICES ASSUME IInv, WriteChunk PROVE IInv'
  OBVIOUS
<1> DEFINE n == Chunk(Len(req.data))
<1>1. at = "writing" /\ pos < Len(req.data) /\ UNCHANGED <<req, got, was>>
  BY DEF WriteChunk
<1>2. /\ pos \in Nat /\ n \in Nat /\ n > 0 /\ pos + n <= Len(req.data)
      /\ Len(req.data) \in Nat /\ req.op = "update"
      /\ ChunkData(n) \in [1 .. n -> Byte]
      /\ req.file # 0 => pos = 0 /\ n = Len(req.data)
  BY <1>1, NextWrite
<1>3. /\ req.offset \in Nat /\ spoilt \in BOOLEAN /\ (spoilt => faulty)
      /\ TypeInv /\ SizedInv
  BY DEF IInv, TypeInv, WellFormed, Requests
<1>4. \/ /\ Accepted(n) /\ CardWorks
         /\ content' = Stored(ChunkData(n), n)
         /\ pos' = pos + n
         /\ UNCHANGED <<at, spoilt>>
      \/ /\ Accepted(n) /\ CardFails
         /\ \E i \in 1 .. n, b \in Byte : content' = Stored([ChunkData(n) EXCEPT ![i] = b], n)
         /\ spoilt' = TRUE
         /\ pos' = pos + n
         /\ UNCHANGED at
      \/ /\ Accepted(n) /\ CardFails
         /\ content' = Stored(ChunkData(n), n)
         /\ at' = "raised"
         /\ UNCHANGED <<pos, spoilt>>
      \/ /\ Accepted(n) => CardFails
         /\ ~Accepted(n) => CardWorks
         /\ at' = "raised"
         /\ UNCHANGED <<content, pos, spoilt>>
  BY DEF WriteChunk
<1>5. \A i \in 1 .. n : ChunkData(n)[i] = req.data[pos + i]
  BY DEF ChunkData
<1>6. CardWorks \/ CardFails
  BY <1>4
<1>7. faulty \in BOOLEAN /\ faulty' \in BOOLEAN /\ faults' \in Nat /\ (faulty => faulty')
  BY <1>6, CardDoes
<1>8. CardFails => faulty'
  BY DEF CardFails
<1> HIDE DEF n
<1>9. CASE /\ Accepted(n) /\ CardWorks
           /\ content' = Stored(ChunkData(n), n)
           /\ pos' = pos + n
           /\ UNCHANGED <<at, spoilt>>
  BY <1>1, <1>2, <1>3, <1>5, <1>7, <1>9, PieceWritten DEF n
<1>10. CASE /\ Accepted(n) /\ CardFails
            /\ \E i \in 1 .. n, b \in Byte : content' = Stored([ChunkData(n) EXCEPT ![i] = b], n)
            /\ spoilt' = TRUE
            /\ pos' = pos + n
            /\ UNCHANGED at
  <2>1. PICK i \in 1 .. n, b \in Byte : content' = Stored([ChunkData(n) EXCEPT ![i] = b], n)
    BY <1>10
  <2> DEFINE bytes == [ChunkData(n) EXCEPT ![i] = b]
  <2>2. bytes \in [1 .. n -> Byte]
    BY <1>2
  <2>3. content' = Stored(bytes, n)
    BY <2>1
  <2> HIDE DEF bytes
  <2> QED
    BY <1>1, <1>3, <1>7, <1>8, <1>10, <2>2, <2>3, PieceWritten DEF n
<1>11. CASE /\ Accepted(n) /\ CardFails
            /\ content' = Stored(ChunkData(n), n)
            /\ at' = "raised"
            /\ UNCHANGED <<pos, spoilt>>
  BY <1>1, <1>2, <1>3, <1>5, <1>7, <1>8, <1>11, PieceWritten DEF n
<1>12. CASE /\ Accepted(n) => CardFails
            /\ ~Accepted(n) => CardWorks
            /\ at' = "raised"
            /\ UNCHANGED <<content, pos, spoilt>>
  <2>1. Untouched /\ pos' = pos /\ got' = got
    BY <1>1, <1>12 DEF Untouched
  <2>2. (IsContent(content) /\ IsContent(was) /\ WellFormed(req))'
    BY <2>1, NothingTouched
  <2>3. TypeInv'
    BY <1>3, <1>7, <1>12, <2>1, <2>2 DEF TypeInv, Untouched, UpdateCalls, BeforeWrite, ReadCalls
  <2>4. ReadInv' /\ ReadEnd' /\ UpdatedExactly' /\ ConserveInv' /\ WriteInv'
    BY <1>2, <1>12, <2>1
       DEF ReadInv, ReadEnd, UpdatedExactly, ConserveInv, WriteInv, ReadingStates, Untouched,
           BeforeWrite, ReadCalls
  <2>5. Fits(req) => Accepted(n)
    <3>1. CASE req.file = 0
      BY <1>2, <1>3, <3>1, Sizes DEF Fits, Accepted, ChunkOffset, FileLength
    <3>2. CASE req.file # 0
      BY <1>2, <3>2 DEF Fits, Accepted
    <3> QED
      BY <3>1, <3>2
  <2>6. SizedInv'
    BY <1>1, <1>3, <1>8, <1>12, <2>1, <2>5 DEF SizedInv, Ended, Fits, Untouched
  <2> QED
    BY <2>1, <2>3, <2>4, <2>6, NothingTouched DEF IInv
<1> QED
  BY <1>4, <1>9, <1>10, <1>11, <1>12

-----------------------------------------------------------------------------
(* The invariant *)

LEMMA Initially == Init => IInv
<1> SUFFICES ASSUME Init PROVE IInv
  OBVIOUS
<1> USE Sizes
<1>1. IsContent(content) /\ IsContent(was) /\ content = was
  BY DEF Init, IsContent
<1>2. req.file = 0 /\ req.offset = 0 /\ req.op = "read" /\ ~req.sized /\ WellFormed(req)
      /\ req.data = <<>>
  <2>1. 0 \in Files
    BY DEF Files
  <2> QED
    BY <2>1 DEF Init, Read, Reading, WellFormed, Requests
<1>3. at = "raised" /\ pos = 0 /\ got = <<>> /\ faulty = FALSE /\ spoilt = FALSE /\ faults = 0
  BY DEF Init
<1>4. TypeInv
  <2>1. got \in Seq(Byte) /\ pos \in Nat /\ faults \in Nat
    BY <1>3
  <2>2. faulty \in BOOLEAN /\ spoilt \in BOOLEAN /\ (spoilt => faulty)
    BY <1>3
  <2> QED
    BY <1>1, <1>2, <1>3, <2>1, <2>2 DEF TypeInv, UpdateCalls, BeforeWrite, ReadCalls
<1>5. PrefixWritten
  <2>1. Written(was, req, 0) = was /\ Len(req.data) = 0
    BY <1>1, <1>2, NothingWritten
  <2> QED
    BY <1>1, <2>1 DEF PrefixWritten, Written, WrittenUpTo
<1> QED
  BY <1>1, <1>2, <1>3, <1>4, <1>5
     DEF IInv, ReadInv, ReadEnd, WriteInv, OutsideInv, SizedInv, ConserveInv, UpdatedExactly,
         ReadingStates, Ended

LEMMA Inductive == IInv /\ [Next]_vars => IInv'
<1> SUFFICES ASSUME IInv, [Next]_vars PROVE IInv'
  OBVIOUS
<1>1. CASE Call
  BY <1>1, CallStep
<1>2. CASE Select
  BY <1>2, SelectStep
<1>3. CASE ReadChunk
  BY <1>3, ReadChunkStep
<1>4. CASE ReadDone
  BY <1>4, ReadDoneStep
<1>5. CASE WriteChunk
  BY <1>5, WriteChunkStep
<1>6. CASE WriteDone
  BY <1>6, WriteDoneStep
<1>7. CASE UNCHANGED vars
  <2>1. Untouched /\ UNCHANGED <<at, pos, got, faulty, faults>>
    BY <1>7 DEF vars, Untouched
  <2>2. TypeInv /\ ReadInv /\ ReadEnd /\ WriteInv /\ SizedInv /\ ConserveInv /\ UpdatedExactly
    BY DEF IInv
  <2>3. TypeInv'
    <3>1. (IsContent(content) /\ IsContent(was) /\ WellFormed(req))'
      BY <2>1, NothingTouched
    <3> QED
      BY <2>1, <2>2, <3>1 DEF TypeInv, Untouched
  <2>4. ReadInv' /\ ReadEnd'
    BY <2>1, <2>2 DEF ReadInv, ReadEnd, Total, FileLength, Untouched
  <2>5. WriteInv' /\ UpdatedExactly'
    BY <2>1, <2>2 DEF WriteInv, UpdatedExactly, Whole, WrittenUpTo, Overlay, Untouched
  <2>6. SizedInv' /\ ConserveInv'
    BY <2>1, <2>2
       DEF SizedInv, Ended, Fits, ConserveInv, Different, WrittenUpTo, Overlay, Untouched
  <2> QED
    BY <2>1, <2>3, <2>4, <2>5, <2>6, NothingTouched DEF IInv
<1> QED
  BY <1>1, <1>2, <1>3, <1>4, <1>5, <1>6, <1>7 DEF Next, Proceed

\* IInv is an inductive invariant of calls, faults of the card and all steps
\* of the loops of read_binary and update_binary.
THEOREM FileInvariant == Spec => []IInv
BY Initially, Inductive, PTL DEF Spec

\* What a read returns is the content of the file (read_binary, read_record).
THEOREM ReadIsContentHolds == Spec => []ReadIsContent
<1>1. IInv => ReadIsContent
  <2> SUFFICES ASSUME IInv, at = "returned", req.op = "read"
               PROVE  /\ req.offset + req.length <= FileLength(req.file)
                      /\ got = Slice(req.file, req.offset, req.length)
                      /\ content = was
    BY DEF ReadIsContent
  <2>1. Total = req.length /\ pos = req.length /\ Len(got) = pos /\ content = was
        /\ req.offset + pos <= FileLength(req.file)
        /\ \A i \in 1 .. pos : got[i] = content[req.file][req.offset + i - 1]
    BY TotalType DEF IInv, ReadInv, ReadEnd, WriteInv, Total
  <2>2. got \in Seq(Byte) /\ Slice(req.file, req.offset, req.length) =
          [i \in 1 .. pos |-> content[req.file][req.offset + i - 1]]
    BY <2>1 DEF IInv, TypeInv, Slice
  <2>3. got = [i \in 1 .. Len(got) |-> got[i]]
    BY <2>2
  <2>4. [i \in 1 .. pos |-> got[i]] = [i \in 1 .. pos |-> content[req.file][req.offset + i - 1]]
    BY <2>1
  <2> QED
    BY <2>1, <2>2, <2>3, <2>4
<1> QED
  BY <1>1, FileInvariant, PTL

\* A file has a prefix of the data, up to the end of a command, however the
\* card fails (update_binary, update_record).
THEOREM PrefixWrittenHolds == Spec => []PrefixWritten
<1>1. IInv => PrefixWritten
  BY DEF IInv
<1> QED
  BY <1>1, FileInvariant, PTL

\* An update that returns has written its data and nothing else.
THEOREM UpdatedExactlyHolds == Spec => []UpdatedExactly
<1>1. IInv => UpdatedExactly
  BY DEF IInv
<1> QED
  BY <1>1, FileInvariant, PTL

\* With conserve nothing is written over with what is there, if the data came
\* in small letters as the card's does (update_binary, update_record).
THEOREM WritesOnlyWhatDiffersHolds == Spec => []WritesOnlyWhatDiffers
<1>1. IInv => WritesOnlyWhatDiffers
  <2> SUFFICES ASSUME IInv, ~req.capital, at = "writing", pos = 0, req.conserve,
                      ~faulty, req.data # <<>>,
                      req.offset + Len(req.data) <= FileLength(req.file)
               PROVE  content # WrittenUpTo(Len(req.data))
    BY DEF WritesOnlyWhatDiffers, AlwaysConserves
  <2>1. was # WrittenUpTo(Len(req.data))
    BY DEF IInv, ConserveInv, Different
  <2>2. ~spoilt => content = WrittenUpTo(0)
    BY DEF IInv, WriteInv
  <2>3. ~spoilt
    BY DEF IInv, TypeInv
  <2>4. Written(was, req, 0) = was
    BY NothingWritten DEF IInv, TypeInv
  <2>5. content = was
    BY <2>2, <2>3, <2>4 DEF Written, WrittenUpTo
  <2> QED
    BY <2>1, <2>5
<1> QED
  BY <1>1, FileInvariant, PTL

\* An update that does not fit fails before anything is written, when the
\* size is known (__check_writeable_size).
THEOREM RefusedWhollyHolds == Spec => []RefusedWholly
<1>1. IInv => RefusedWholly
  BY DEF IInv, SizedInv, RefusedWholly
<1> QED
  BY <1>1, FileInvariant, PTL

\* What an update leaves in a file, however it ends (update_binary,
\* update_record).
THEOREM UpdateKeptHolds == Spec => []UpdateKept
<1>1. PrefixWritten /\ UpdatedExactly /\ RefusedWholly => UpdateKept
  BY DEF UpdateKept
<1> QED
  BY <1>1, PrefixWrittenHolds, UpdatedExactlyHolds, RefusedWhollyHolds, PTL
=============================================================================
