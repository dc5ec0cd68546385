---------------------- MODULE BoundProfilePackageProofs ----------------------
(* Proofs about BoundProfilePackage and about BspSegments, for every value   *)
(* of their constants: plaintexts of every length, segments of every size    *)
(* that leaves room for a byte.                                              *)
EXTENDS BoundProfilePackage, BspSegments, SequenceTheorems, TLAPS

CommandType == [tag : Tags, plain : Plaintexts]

-----------------------------------------------------------------------------
(* Sequences *)

\* A function on 1 .. n is a sequence of length n.
LEMMA FunctionIsSeq ==
  ASSUME NEW S, NEW n \in Nat, NEW f \in [1 .. n -> S]
  PROVE  f \in Seq(S) /\ Len(f) = n
<1>1. f \in Seq(S)
  OBVIOUS
<1> QED BY <1>1, LenProperties

\* The elements of a concatenation.
LEMMA ConcatElements ==
  ASSUME NEW S, NEW q \in Seq(S), NEW r \in Seq(S)
  PROVE  /\ q \o r \in Seq(S)
         /\ Len(q \o r) = Len(q) + Len(r)
         /\ \A i \in 1 .. Len(q) : (q \o r)[i] = q[i]
         /\ \A i \in 1 .. Len(r) : (q \o r)[Len(q) + i] = r[i]
<1>1. ASSUME NEW i \in 1 .. Len(q)
      PROVE  (q \o r)[i] = q[i]
  BY ConcatProperties
<1>2. ASSUME NEW i \in 1 .. Len(r)
      PROVE  (q \o r)[Len(q) + i] = r[i]
  BY ConcatProperties
<1> QED BY <1>1, <1>2, ConcatProperties

\* Four sequences in a row.
LEMMA FourParts ==
  ASSUME NEW S, NEW a \in Seq(S), NEW b \in Seq(S), NEW c \in Seq(S), NEW d \in Seq(S),
         NEW q, q = ((a \o b) \o c) \o d
  PROVE  /\ q \in Seq(S)
         /\ Len(q) = Len(a) + Len(b) + Len(c) + Len(d)
         /\ \A i \in 1 .. Len(a) : q[i] = a[i]
         /\ \A i \in 1 .. Len(b) : q[Len(a) + i] = b[i]
         /\ \A i \in 1 .. Len(c) : q[Len(a) + Len(b) + i] = c[i]
         /\ \A i \in 1 .. Len(d) : q[Len(a) + Len(b) + Len(c) + i] = d[i]
<1> DEFINE ab == a \o b
           abc == ab \o c
           abcd == abc \o d
<1>0. Len(a) \in Nat /\ Len(b) \in Nat /\ Len(c) \in Nat /\ Len(d) \in Nat
  OBVIOUS
<1>1. /\ ab \in Seq(S) /\ Len(ab) = Len(a) + Len(b)
      /\ \A i \in 1 .. Len(a) : ab[i] = a[i]
      /\ \A i \in 1 .. Len(b) : ab[Len(a) + i] = b[i]
  BY ConcatElements
<1> HIDE DEF ab
<1>2. /\ abc \in Seq(S) /\ Len(abc) = Len(ab) + Len(c)
      /\ \A i \in 1 .. Len(ab) : abc[i] = ab[i]
      /\ \A i \in 1 .. Len(c) : abc[Len(ab) + i] = c[i]
  <2>1. ab \in Seq(S)
    BY <1>1
  <2> QED BY <2>1, ConcatElements
<1> HIDE DEF abc
<1>3. /\ abcd \in Seq(S) /\ Len(abcd) = Len(abc) + Len(d)
      /\ \A i \in 1 .. Len(abc) : abcd[i] = abc[i]
      /\ \A i \in 1 .. Len(d) : abcd[Len(abc) + i] = d[i]
  <2>1. abc \in Seq(S)
    BY <1>2
  <2> QED BY <2>1, ConcatElements
<1> HIDE DEF abcd
<1>4. ASSUME NEW i \in 1 .. Len(a)
      PROVE  abcd[i] = a[i]
  <2>1. i \in 1 .. Len(ab) /\ i \in 1 .. Len(abc)
    BY <1>0, <1>1, <1>2
  <2> QED BY <2>1, <1>1, <1>2, <1>3
<1>5. ASSUME NEW i \in 1 .. Len(b)
      PROVE  abcd[Len(a) + i] = b[i]
  <2>1. Len(a) + i \in 1 .. Len(ab) /\ Len(a) + i \in 1 .. Len(abc)
    BY <1>0, <1>1, <1>2
  <2> QED BY <2>1, <1>1, <1>2, <1>3
<1>6. ASSUME NEW i \in 1 .. Len(c)
      PROVE  abcd[Len(a) + Len(b) + i] = c[i]
  BY <1>0, <1>1, <1>2, <1>3
<1>7. ASSUME NEW i \in 1 .. Len(d)
      PROVE  abcd[Len(a) + Len(b) + Len(c) + i] = d[i]
  BY <1>0, <1>1, <1>2, <1>3
<1>8. Len(abcd) = Len(a) + Len(b) + Len(c) + Len(d)
  BY <1>1, <1>2, <1>3
<1>9. abcd \in Seq(S)
  BY <1>3
<1> HIDE DEF abcd, abc, ab
<1>10. q = abcd
  BY DEF abcd, abc, ab
<1> QED BY <1>4, <1>5, <1>6, <1>7, <1>8, <1>9, <1>10

-----------------------------------------------------------------------------
(* The commands of a package *)

\* What the assumptions say of one session.
LEMMA SessionFacts ==
  ASSUME NEW s \in Sessions
  PROVE  /\ SessionKeys[s] \in KeySets
         /\ PppKeys[s] \in KeySets \cup {NoKeys}
         /\ Metadata[s] \in Seq(Contents) /\ Len(Metadata[s]) > 0
         /\ Len(Metadata[s]) \in Nat
         /\ Upp[s] \in Seq(Contents) /\ Len(Upp[s]) \in Nat
         /\ Before(s) \in Nat /\ Before(s) > 1
BY BppAssumption, EmptySeq DEF BppAssumption, Before

\* The command at each place of a package.
LEMMA CommandsAre ==
  ASSUME NEW s \in Sessions
  PROVE  /\ Commands(s) \in Seq(CommandType)
         /\ Len(Commands(s)) = Before(s) + Len(Upp[s])
         /\ Commands(s)[1] = Command("87", Configure)
         /\ \A i \in 1 .. Len(Metadata[s]) :
              Commands(s)[1 + i] = Command("88", Metadata[s][i])
         /\ WithPpp(s) => Commands(s)[Before(s)] =
                            Command("87", ReplaceSessionKeysRequest(PppKeys[s]))
         /\ \A i \in 1 .. Len(Upp[s]) :
              Commands(s)[Before(s) + i] = Command("86", Upp[s][i])
<1> DEFINE m == Len(Metadata[s])
           u == Len(Upp[s])
           c1 == <<Command("87", Configure)>>
           c2 == [i \in 1 .. m |-> Command("88", Metadata[s][i])]
           c3 == IF WithPpp(s)
                   THEN <<Command("87", ReplaceSessionKeysRequest(PppKeys[s]))>>
                   ELSE <<>>
           c4 == [i \in 1 .. u |-> Command("86", Upp[s][i])]
<1>0. /\ m \in Nat /\ u \in Nat
      /\ \A i \in 1 .. m : Metadata[s][i] \in Contents
      /\ \A i \in 1 .. u : Upp[s][i] \in Contents
  BY SessionFacts
<1>1. c1 \in Seq(CommandType) /\ Len(c1) = 1 /\ c1[1] = Command("87", Configure)
  BY DEF CommandType, Command, Tags, Plaintexts
<1>2. c2 \in Seq(CommandType) /\ Len(c2) = m
  <2>1. \A i \in 1 .. m : Command("88", Metadata[s][i]) \in CommandType
    BY <1>0 DEF CommandType, Command, Tags, Plaintexts
  <2>2. c2 \in [1 .. m -> CommandType]
    BY <2>1
  <2> QED BY <1>0, <2>2, FunctionIsSeq
<1>3. /\ c3 \in Seq(CommandType)
      /\ Len(c3) = IF WithPpp(s) THEN 1 ELSE 0
      /\ WithPpp(s) => c3[1] = Command("87", ReplaceSessionKeysRequest(PppKeys[s]))
  <2>1. CASE WithPpp(s)
    <3>1. c3 = <<Command("87", ReplaceSessionKeysRequest(PppKeys[s]))>>
      BY <2>1
    <3>2. Command("87", ReplaceSessionKeysRequest(PppKeys[s])) \in CommandType
      BY <2>1, SessionFacts DEF CommandType, Command, Tags, Plaintexts, WithPpp
    <3> HIDE DEF c3
    <3> QED BY <2>1, <3>1, <3>2
  <2>2. CASE ~WithPpp(s)
    <3>1. c3 = <<>>
      BY <2>2
    <3> HIDE DEF c3
    <3> QED BY <2>2, <3>1
  <2> QED BY <2>1, <2>2
<1>4. c4 \in Seq(CommandType) /\ Len(c4) = u
  <2>1. \A i \in 1 .. u : Command("86", Upp[s][i]) \in CommandType
    BY <1>0 DEF CommandType, Command, Tags, Plaintexts
  <2>2. c4 \in [1 .. u -> CommandType]
    BY <2>1
  <2> QED BY <1>0, <2>2, FunctionIsSeq
<1> DEFINE q == ((c1 \o c2) \o c3) \o c4
<1>5. Commands(s) = q
  BY DEF Commands
<1>6. ASSUME NEW i \in 1 .. m
      PROVE  c2[i] = Command("88", Metadata[s][i])
  OBVIOUS
<1>7. ASSUME NEW i \in 1 .. u
      PROVE  c4[i] = Command("86", Upp[s][i])
  OBVIOUS
<1> HIDE DEF c1, c2, c3, c4
<1>8. /\ q \in Seq(CommandType)
      /\ Len(q) = Len(c1) + Len(c2) + Len(c3) + Len(c4)
      /\ \A i \in 1 .. Len(c1) : q[i] = c1[i]
      /\ \A i \in 1 .. Len(c2) : q[Len(c1) + i] = c2[i]
      /\ \A i \in 1 .. Len(c3) : q[Len(c1) + Len(c2) + i] = c3[i]
      /\ \A i \in 1 .. Len(c4) : q[Len(c1) + Len(c2) + Len(c3) + i] = c4[i]
  <2>1. c1 \in Seq(CommandType) /\ c2 \in Seq(CommandType)
        /\ c3 \in Seq(CommandType) /\ c4 \in Seq(CommandType)
    BY <1>1, <1>2, <1>3, <1>4
  <2>2. q = ((c1 \o c2) \o c3) \o c4
    OBVIOUS
  <2> HIDE DEF q
  <2> QED BY <2>1, <2>2, FourParts
<1> HIDE DEF q
<1>9. Before(s) = Len(c1) + Len(c2) + Len(c3)
  BY <1>1, <1>2, <1>3 DEF Before
<1>10. Len(q) = Before(s) + u
  BY <1>4, <1>8, <1>9
<1>11. q[1] = Command("87", Configure)
  BY <1>1, <1>8
<1>12. ASSUME NEW i \in 1 .. m
       PROVE  q[1 + i] = Command("88", Metadata[s][i])
  BY <1>1, <1>2, <1>6, <1>8
<1>13. WithPpp(s) => q[Before(s)] =
                       Command("87", ReplaceSessionKeysRequest(PppKeys[s]))
  BY <1>0, <1>1, <1>2, <1>3, <1>8, <1>9
<1>14. ASSUME NEW i \in 1 .. u
       PROVE  q[Before(s) + i] = Command("86", Upp[s][i])
  BY <1>4, <1>7, <1>8, <1>9
<1> QED BY <1>5, <1>8, <1>10, <1>11, <1>12, <1>13, <1>14

\* The places of a package, from which tags and plaintexts follow.
LEMMA Places ==
  ASSUME NEW s \in Sessions, NEW i \in 1 .. Len(Commands(s))
  PROVE  /\ i \in Nat /\ i >= 1 /\ i <= Before(s) + Len(Upp[s])
         /\ Before(s) = IF WithPpp(s) THEN 2 + Len(Metadata[s]) ELSE 1 + Len(Metadata[s])
         /\ Before(s) \in Nat /\ Len(Metadata[s]) \in Nat /\ Len(Upp[s]) \in Nat
         /\ Len(Metadata[s]) > 0
         /\ Commands(s)[i] \in CommandType
<1>1. Len(Commands(s)) = Before(s) + Len(Upp[s])
  BY CommandsAre
<1>2. Before(s) \in Nat /\ Len(Metadata[s]) \in Nat /\ Len(Upp[s]) \in Nat
      /\ Len(Metadata[s]) > 0
  BY SessionFacts
<1>3. Before(s) = 1 + Len(Metadata[s]) + (IF WithPpp(s) THEN 1 ELSE 0)
  BY DEF Before
<1>4. Before(s) = IF WithPpp(s) THEN 2 + Len(Metadata[s]) ELSE 1 + Len(Metadata[s])
  <2>1. CASE WithPpp(s)
    BY <1>2, <1>3, <2>1
  <2>2. CASE ~WithPpp(s)
    BY <1>2, <1>3, <2>2
  <2> QED BY <2>1, <2>2
<1>5. Commands(s) \in Seq(CommandType)
  BY CommandsAre
<1>6. Commands(s)[i] \in CommandType
  BY <1>5, ElementOfSeq
<1>7. i \in Nat /\ i >= 1 /\ i <= Before(s) + Len(Upp[s])
  BY <1>1, <1>2
<1> QED BY <1>2, <1>4, <1>6, <1>7

\* The first command,
LEMMA FirstCommand ==
  ASSUME NEW s \in Sessions
  PROVE  Commands(s)[1].tag = "87" /\ Commands(s)[1].plain = Configure
<1>1. Commands(s)[1] = Command("87", Configure)
  BY CommandsAre
<1> QED BY <1>1 DEF Command

\* the metadata,
LEMMA MetadataCommand ==
  ASSUME NEW s \in Sessions, NEW i \in Nat, i > 1, i <= 1 + Len(Metadata[s])
  PROVE  /\ Commands(s)[i].tag = "88"
         /\ Commands(s)[i].plain = Metadata[s][i - 1]
         /\ Commands(s)[i].plain \in Contents
<1>1. Len(Metadata[s]) \in Nat /\ Metadata[s] \in Seq(Contents)
  BY SessionFacts
<1>2. i - 1 \in 1 .. Len(Metadata[s])
  BY <1>1
<1>3. Commands(s)[1 + (i - 1)] = Command("88", Metadata[s][i - 1])
  BY <1>2, CommandsAre
<1>4. 1 + (i - 1) = i
  OBVIOUS
<1>5. Metadata[s][i - 1] \in Contents
  BY <1>1, <1>2, ElementOfSeq
<1>6. Commands(s)[i] = Command("88", Metadata[s][i - 1])
  BY <1>3, <1>4
<1> QED BY <1>5, <1>6 DEF Command

\* the replacement keys,
LEMMA KeysCommand ==
  ASSUME NEW s \in Sessions, WithPpp(s)
  PROVE  /\ Commands(s)[Before(s)].tag = "87"
         /\ Commands(s)[Before(s)].plain = ReplaceSessionKeysRequest(PppKeys[s])
<1>1. Commands(s)[Before(s)] = Command("87", ReplaceSessionKeysRequest(PppKeys[s]))
  BY CommandsAre
<1> QED BY <1>1 DEF Command

\* and the profile.
LEMMA ProfileCommand ==
  ASSUME NEW s \in Sessions, NEW i \in Nat, i > Before(s), i <= Before(s) + Len(Upp[s])
  PROVE  /\ Commands(s)[i].tag = "86"
         /\ Commands(s)[i].plain = Upp[s][i - Before(s)]
         /\ Commands(s)[i].plain \in Contents
<1>1. Len(Upp[s]) \in Nat /\ Upp[s] \in Seq(Contents) /\ Before(s) \in Nat
  BY SessionFacts
<1>2. i - Before(s) \in 1 .. Len(Upp[s])
  BY <1>1
<1>3. Commands(s)[Before(s) + (i - Before(s))] = Command("86", Upp[s][i - Before(s)])
  BY <1>2, CommandsAre
<1>4. Before(s) + (i - Before(s)) = i
  BY <1>1
<1>5. Upp[s][i - Before(s)] \in Contents
  BY <1>1, <1>2, ElementOfSeq
<1>6. Commands(s)[i] = Command("86", Upp[s][i - Before(s)])
  BY <1>3, <1>4
<1> QED BY <1>5, <1>6 DEF Command

\* The tag tells the place,
LEMMA TagAt ==
  ASSUME NEW s \in Sessions, NEW i \in 1 .. Len(Commands(s))
  PROVE  /\ Commands(s)[i].tag = "86" <=> i > Before(s)
         /\ Commands(s)[i].tag = "88" <=> i > 1 /\ i <= 1 + Len(Metadata[s])
<1> DEFINE tag == Commands(s)[i].tag
           m == Len(Metadata[s])
           b == Before(s)
<1>1. /\ i \in Nat /\ i >= 1 /\ i <= b + Len(Upp[s])
      /\ b = IF WithPpp(s) THEN 2 + m ELSE 1 + m
      /\ b \in Nat /\ m \in Nat /\ m > 0
  BY Places
<1>2. i = 1 => tag = "87"
  BY FirstCommand
<1>3. i > 1 /\ i <= 1 + m => tag = "88"
  BY <1>1, MetadataCommand
<1>4. WithPpp(s) /\ i = b => tag = "87"
  BY KeysCommand
<1>5. i > b => tag = "86"
  BY <1>1, ProfileCommand
<1> HIDE DEF tag, m, b
<1>6. (tag = "86" <=> i > b) /\ (tag = "88" <=> i > 1 /\ i <= 1 + m)
  BY <1>1, <1>2, <1>3, <1>4, <1>5
<1> QED BY <1>6 DEF tag, m, b

\* and only the command before the profile replaces keys.
LEMMA ReplacesAt ==
  ASSUME NEW s \in Sessions, NEW i \in 1 .. Len(Commands(s)), NEW k \in KeySets,
         Commands(s)[i].plain = ReplaceSessionKeysRequest(k)
  PROVE  WithPpp(s) /\ i = Before(s) /\ k = PppKeys[s]
<1> DEFINE p == Commands(s)[i].plain
           m == Len(Metadata[s])
           b == Before(s)
<1>1. /\ i \in Nat /\ i >= 1 /\ i <= b + Len(Upp[s])
      /\ b = IF WithPpp(s) THEN 2 + m ELSE 1 + m
      /\ b \in Nat /\ m \in Nat /\ m > 0
  BY Places
<1>2. p \notin Contents \cup {Configure}
  BY BppAssumption DEF BppAssumption
<1>3. i # 1
  BY <1>2, FirstCommand
<1>4. ~(i > 1 /\ i <= 1 + m)
  BY <1>1, <1>2, MetadataCommand
<1>5. ~(i > b)
  BY <1>1, <1>2, ProfileCommand
<1>6. WithPpp(s) /\ i = b
  <2> HIDE DEF p, m, b
  <2> QED BY <1>1, <1>3, <1>4, <1>5
<1>7. ReplaceSessionKeysRequest(k) = ReplaceSessionKeysRequest(PppKeys[s])
  BY <1>6, KeysCommand
<1>8. k = PppKeys[s]
  BY <1>7 DEF ReplaceSessionKeysRequest
<1> QED BY <1>6, <1>8

-----------------------------------------------------------------------------
(* What is authenticated, and the chaining values *)

\* Places from which an instance protects commands.
LEMMA InstanceFacts ==
  ASSUME NEW s \in Sessions, NEW w \in {"session", "ppp"}
  PROVE  Base(s, w) \in Nat /\ KeysOf(s, w) \in KeySets \cup {NoKeys}
BY SessionFacts DEF Base, KeysOf

\* The fields of what is authenticated.
LEMMA BodyAt ==
  ASSUME NEW s \in Sessions, NEW w \in {"session", "ppp"},
         NEW i \in 1 .. Len(Commands(s))
  PROVE  /\ Body(s, w, i).tag = Commands(s)[i].tag
         /\ Body(s, w, i).data.plain = Commands(s)[i].plain
         /\ Commands(s)[i].tag = "88" => Body(s, w, i).data = Clear(Commands(s)[i].plain)
         /\ Commands(s)[i].tag # "88" =>
              Body(s, w, i).data = [s_enc |-> KeysOf(s, w), icv |-> i - Base(s, w),
                                    plain |-> Commands(s)[i].plain]
BY DEF Body, Clear

LEMMA BodyTyped ==
  ASSUME NEW s \in Sessions, NEW w \in {"session", "ppp"},
         NEW i \in 1 .. Len(Commands(s)), i > Base(s, w)
  PROVE  Body(s, w, i) \in BodyType
<1>1. i - Base(s, w) \in Nat /\ KeysOf(s, w) \in KeySets \cup {NoKeys}
  BY InstanceFacts, Places
<1>2. Commands(s)[i].tag \in Tags /\ Commands(s)[i].plain \in Plaintexts
  BY Places DEF CommandType
<1>3. Clear(Commands(s)[i].plain) \in DataType
  BY <1>2 DEF Clear, DataType
<1>4. [s_enc |-> KeysOf(s, w), icv |-> i - Base(s, w), plain |-> Commands(s)[i].plain]
        \in DataType
  BY <1>1, <1>2 DEF DataType
<1> QED BY <1>2, <1>3, <1>4 DEF Body, BodyType

\* A chaining value of n segments, and the next one.
LEMMA ChainIs ==
  ASSUME NEW s \in Sessions, NEW w \in {"session", "ppp"}, NEW n \in Nat,
         Base(s, w) + n <= Len(Commands(s))
  PROVE  /\ Chain(s, w, n) \in Seq(BodyType)
         /\ Len(Chain(s, w, n)) = n
         /\ \A j \in 1 .. n : Chain(s, w, n)[j] = Body(s, w, Base(s, w) + j)
<1>1. ASSUME NEW j \in 1 .. n
      PROVE  Body(s, w, Base(s, w) + j) \in BodyType
  <2>1. Base(s, w) + j \in 1 .. Len(Commands(s)) /\ Base(s, w) + j > Base(s, w)
    BY InstanceFacts, CommandsAre, LenProperties
  <2> QED BY <2>1, BodyTyped
<1>2. Chain(s, w, n) \in [1 .. n -> BodyType]
  BY <1>1 DEF Chain
<1>3. Chain(s, w, n) \in Seq(BodyType) /\ Len(Chain(s, w, n)) = n
  BY <1>2, FunctionIsSeq
<1>4. \A j \in 1 .. n : Chain(s, w, n)[j] = Body(s, w, Base(s, w) + j)
  BY DEF Chain
<1> QED BY <1>3, <1>4

LEMMA ChainNext ==
  ASSUME NEW s \in Sessions, NEW w \in {"session", "ppp"}, NEW n \in Nat,
         Base(s, w) + n + 1 <= Len(Commands(s))
  PROVE  Append(Chain(s, w, n), Body(s, w, Base(s, w) + n + 1)) = Chain(s, w, n + 1)
<1> DEFINE c == Chain(s, w, n)
           d == Chain(s, w, n + 1)
           z == Body(s, w, Base(s, w) + n + 1)
<1>0. Base(s, w) \in Nat /\ Len(Commands(s)) \in Nat
  BY InstanceFacts, CommandsAre, LenProperties
<1>1. /\ c \in Seq(BodyType) /\ Len(c) = n
      /\ \A j \in 1 .. n : c[j] = Body(s, w, Base(s, w) + j)
  <2>1. Base(s, w) + n <= Len(Commands(s))
    BY <1>0
  <2> QED BY <2>1, ChainIs
<1>2. /\ d \in Seq(BodyType) /\ Len(d) = n + 1
      /\ \A j \in 1 .. n + 1 : d[j] = Body(s, w, Base(s, w) + j)
  <2>1. n + 1 \in Nat /\ Base(s, w) + (n + 1) <= Len(Commands(s))
    BY <1>0
  <2> QED BY <2>1, ChainIs
<1>3. z \in BodyType
  <2>1. Base(s, w) + n + 1 \in 1 .. Len(Commands(s)) /\ Base(s, w) + n + 1 > Base(s, w)
    BY <1>0
  <2> QED BY <2>1, BodyTyped
<1>4. d[n + 1] = z
  BY <1>0, <1>2
<1> HIDE DEF c, d, z
<1>5. Append(c, z) \in Seq(BodyType) /\ Len(Append(c, z)) = n + 1
  BY <1>1, <1>3, AppendProperties
<1>6. ASSUME NEW j \in 1 .. n + 1
      PROVE  Append(c, z)[j] = d[j]
  <2>1. CASE j = n + 1
    BY <1>1, <1>3, <1>4, <2>1, AppendProperties
  <2>2. CASE j # n + 1
    <3>1. j \in 1 .. n /\ j \in 1 .. Len(c)
      BY <1>1, <2>2
    <3>2. Append(c, z)[j] = c[j]
      BY <1>1, <1>3, <3>1, AppendProperties
    <3> QED BY <1>1, <1>2, <3>1, <3>2
  <2> QED BY <2>1, <2>2
<1>7. Append(c, z) = d
  BY <1>2, <1>5, <1>6, SeqEqual
<1> QED BY <1>7 DEF c, d, z

\* Two appended sequences are equal only if their parts are.
LEMMA AppendEqual ==
  ASSUME NEW S, NEW q \in Seq(S), NEW r \in Seq(S), NEW a \in S, NEW b \in S,
         Append(q, a) = Append(r, b)
  PROVE  q = r /\ a = b
<1>1. Len(Append(q, a)) = Len(q) + 1 /\ Len(Append(r, b)) = Len(r) + 1
  BY AppendProperties
<1>2. Len(q) = Len(r) /\ Len(q) \in Nat
  BY <1>1, LenProperties
<1>3. a = b
  <2>1. Append(q, a)[Len(q) + 1] = a /\ Append(r, b)[Len(r) + 1] = b
    BY AppendProperties
  <2> QED BY <1>2, <2>1
<1>4. ASSUME NEW j \in 1 .. Len(q)
      PROVE  q[j] = r[j]
  <2>1. Append(q, a)[j] = q[j] /\ Append(r, b)[j] = r[j]
    BY <1>2, AppendProperties
  <2> QED BY <2>1
<1>5. q = r
  BY <1>2, <1>4, SeqEqual
<1> QED BY <1>3, <1>5

-----------------------------------------------------------------------------
(* Types *)

InstanceName == {"session", "ppp"}
PartName == Parts \cup {"returned", "raised"}
GotType == [Parts -> Seq(Plaintexts \cup {Garbage})]
EuiccType == [bsp : Instance, part : PartName, got : GotType]

LEMMA InstanceTyped ==
  ASSUME NEW k \in KeySets \cup {NoKeys}
  PROVE  BspInstance(k) \in Instance
BY DEF BspInstance, Instance

\* An instance that has protected or taken a segment.
LEMMA SteppedTyped ==
  ASSUME NEW b \in Instance, NEW x \in SegmentType
  PROVE  /\ Chained(b, x) \in Instance
         /\ Protected(b, x) \in Instance
         /\ Taken(b, x) \in Instance
<1>1. [tag |-> x.tag, data |-> x.data] \in BodyType
  BY DEF SegmentType, BodyType
<1>2. Append(b.mac_chain, [tag |-> x.tag, data |-> x.data]) \in Seq(BodyType)
  BY <1>1 DEF Instance
<1>3. Chained(b, x) \in Instance
  BY <1>2 DEF Chained, Instance
<1>4. [Chained(b, x) EXCEPT !.block_nr = @ + 1] \in Instance
  <2> HIDE DEF Chained
  <2> QED BY <1>3 DEF Instance
<1> QED BY <1>3, <1>4 DEF Protected, Taken

LEMMA AuthTyped ==
  ASSUME NEW b \in Instance, NEW tag \in Tags, NEW d \in DataType
  PROVE  auth(b, tag, d) \in SegmentType
<1>1. Append(b.mac_chain, [tag |-> tag, data |-> d]) \in Seq(BodyType)
  BY DEF Instance, BodyType
<1>2. b.keys \in KeySets \cup {NoKeys}
  BY DEF Instance
<1> QED BY <1>1, <1>2 DEF auth, SegmentType

LEMMA InitTyped == Init => TypeOK
<1> SUFFICES ASSUME Init PROVE TypeOK
  OBVIOUS
<1>1. ASSUME NEW s \in Sessions
      PROVE  /\ BspInstance(PppKeys[s]) \in Instance
             /\ BspInstance(SessionKeys[s]) \in Instance
  BY SessionFacts, InstanceTyped
<1>2. dp \in [Sessions -> [{"session", "ppp"} -> Instance]]
  BY <1>1 DEF Init
<1>3. bpp \in [Sessions -> Seq(SegmentType)]
  BY DEF Init
<1>4. euicc \in [Sessions ->
       [bsp : Instance, part : Parts \cup {"returned", "raised"},
        got : [Parts -> Seq(Plaintexts \cup {Garbage})]]]
  BY <1>1 DEF Init, Parts
<1> QED BY <1>2, <1>3, <1>4 DEF TypeOK

\* The command to be protected next, its segment and who makes it.
NextPlace(s) == Len(bpp[s]) + 1
NextCommand(s) == Commands(s)[NextPlace(s)]
NextSegment(s) ==
  LET b == dp[s][Protector(s, NextCommand(s))] IN
  IF NextCommand(s).tag = "88"
    THEN mac_only_one(b, NextCommand(s).tag, NextCommand(s).plain)
    ELSE encrypt_and_mac_one(b, NextCommand(s).tag, NextCommand(s).plain)

LEMMA EncodeStep ==
  ASSUME TypeOK, NEW s \in Sessions, encode(s), Len(bpp[s]) <= Len(Commands(s))
  PROVE  /\ NextPlace(s) \in 1 .. Len(Commands(s))
         /\ NextCommand(s) \in CommandType
         /\ Protector(s, NextCommand(s)) \in InstanceName
         /\ dp[s][Protector(s, NextCommand(s))] \in Instance
         /\ NextSegment(s) \in SegmentType
         /\ bpp' = [bpp EXCEPT ![s] = Append(@, NextSegment(s))]
         /\ dp' = [dp EXCEPT ![s][Protector(s, NextCommand(s))] =
                     Protected(@, NextSegment(s))]
         /\ euicc' = euicc
<1> DEFINE n == Len(bpp[s])
           c == NextCommand(s)
           b == dp[s][Protector(s, c)]
<1>1. n \in Nat /\ Len(Commands(s)) \in Nat /\ n # Len(Commands(s))
  <2>1. bpp[s] \in Seq(SegmentType) /\ Commands(s) \in Seq(CommandType)
    BY CommandsAre DEF TypeOK
  <2>2. n # Len(Commands(s))
    BY DEF encode, Encoded
  <2> QED BY <2>1, <2>2
<1>2. NextPlace(s) \in 1 .. Len(Commands(s))
  BY <1>1 DEF NextPlace
<1>3. c \in CommandType
  BY <1>2, Places DEF NextCommand
<1>4. Protector(s, c) \in InstanceName
  BY DEF Protector, InstanceName
<1>5. b \in Instance
  BY <1>4 DEF TypeOK, InstanceName
<1>6. c.tag \in Tags /\ c.plain \in Plaintexts
  BY <1>3 DEF CommandType
<1>7. Clear(c.plain) \in DataType /\ encrypt(b, c.plain) \in DataType
  BY <1>5, <1>6 DEF Clear, encrypt, DataType, Instance
<1>8. mac_only_one(b, c.tag, c.plain) \in SegmentType
      /\ encrypt_and_mac_one(b, c.tag, c.plain) \in SegmentType
  <2> HIDE DEF c, b
  <2> QED BY <1>5, <1>6, <1>7, AuthTyped DEF mac_only_one, encrypt_and_mac_one
<1>9. NextSegment(s) \in SegmentType
  BY <1>8 DEF NextSegment
<1>10. /\ bpp' = [bpp EXCEPT ![s] = Append(@, NextSegment(s))]
       /\ dp' = [dp EXCEPT ![s][Protector(s, NextCommand(s))] =
                   Protected(@, NextSegment(s))]
       /\ euicc' = euicc
  BY DEF encode, NextSegment, NextCommand, NextPlace
<1> QED BY <1>2, <1>3, <1>4, <1>5, <1>9, <1>10

\* What is on the wire is a segment of a package.
LEMMA WireTyped ==
  ASSUME TypeOK, NEW x \in Wire
  PROVE  /\ x \in SegmentType
         /\ \E u \in Sessions : \E j \in 1 .. Len(bpp[u]) : x = bpp[u][j]
<1>1. \E u \in Sessions : \E j \in 1 .. Len(bpp[u]) : x = bpp[u][j]
  BY DEF Wire
<1>2. PICK u \in Sessions : \E j \in 1 .. Len(bpp[u]) : x = bpp[u][j]
  BY <1>1
<1>3. PICK j \in 1 .. Len(bpp[u]) : x = bpp[u][j]
  BY <1>2
<1>4. bpp[u] \in Seq(SegmentType)
  BY DEF TypeOK
<1> QED BY <1>1, <1>3, <1>4, ElementOfSeq

-----------------------------------------------------------------------------
(* The SM-DP+ *)

\* How many of n commands were protected by the instance of the PPP, and by
\* either instance.
PppOf(s, n) == IF WithPpp(s) /\ n > Before(s) THEN n - Before(s) ELSE 0
SentBy(s, w, n) == IF w = "ppp" THEN PppOf(s, n) ELSE n - PppOf(s, n)

\* The instance that protects the command at place i, and how many it has
\* protected before.
LEMMA ProtectorAt ==
  ASSUME NEW s \in Sessions, NEW n \in Nat, n + 1 \in 1 .. Len(Commands(s)),
         NEW w, w = Protector(s, Commands(s)[n + 1])
  PROVE  /\ w \in InstanceName
         /\ n >= Base(s, w) /\ n - Base(s, w) \in Nat
         /\ SentBy(s, w, n) = n - Base(s, w)
         /\ \A v \in InstanceName :
              SentBy(s, v, n + 1) = IF v = w THEN SentBy(s, v, n) + 1 ELSE SentBy(s, v, n)
<1>1. Before(s) \in Nat
  BY SessionFacts
<1>2. Commands(s)[n + 1].tag = "86" <=> n + 1 > Before(s)
  BY TagAt
<1>3. CASE WithPpp(s) /\ n + 1 > Before(s)
  <2>1. w = "ppp" /\ Base(s, w) = Before(s)
    BY <1>2, <1>3 DEF Protector, Base
  <2>2. PppOf(s, n) = n - Before(s) /\ PppOf(s, n + 1) = n + 1 - Before(s)
    <3>1. CASE n > Before(s)
      BY <1>1, <1>3, <3>1 DEF PppOf
    <3>2. CASE n = Before(s)
      BY <1>1, <1>3, <3>2 DEF PppOf
    <3> QED BY <1>1, <1>3, <3>1, <3>2
  <2> QED BY <1>1, <1>3, <2>1, <2>2 DEF SentBy, InstanceName
<1>4. CASE ~(WithPpp(s) /\ n + 1 > Before(s))
  <2>1. w = "session" /\ Base(s, w) = 0
    BY <1>2, <1>4 DEF Protector, Base
  <2>2. PppOf(s, n) = 0 /\ PppOf(s, n + 1) = 0
    BY <1>1, <1>4 DEF PppOf
  <2> QED BY <1>1, <2>1, <2>2 DEF SentBy, InstanceName
<1> QED BY <1>3, <1>4

\* The instance after one more segment.
LEMMA ChainedIs ==
  ASSUME NEW k, NEW n, NEW m, NEW x
  PROVE  Chained([keys |-> k, block_nr |-> n, mac_chain |-> m], x) =
           [keys |-> k, block_nr |-> n,
            mac_chain |-> Append(m, [tag |-> x.tag, data |-> x.data])]
BY DEF Chained

LEMMA ChainedAt ==
  ASSUME NEW t, NEW w, NEW n, NEW x
  PROVE  Chained(At(t, w, n), x) =
           [keys |-> KeysOf(t, w), block_nr |-> n + 1,
            mac_chain |-> Append(Chain(t, w, n), [tag |-> x.tag, data |-> x.data])]
BY ChainedIs DEF At

\* The segment it makes of the command.
LEMMA SegmentMade ==
  ASSUME NEW s \in Sessions, NEW w \in InstanceName, NEW n \in Nat,
         Base(s, w) + n + 1 <= Len(Commands(s)),
         NEW c, c = Commands(s)[Base(s, w) + n + 1],
         NEW x, x = IF c.tag = "88" THEN mac_only_one(At(s, w, n), c.tag, c.plain)
                    ELSE encrypt_and_mac_one(At(s, w, n), c.tag, c.plain)
  PROVE  /\ x = Segment(s, w, Base(s, w) + n + 1)
         /\ Protected(At(s, w, n), x) = At(s, w, n + 1)
<1> DEFINE i == Base(s, w) + n + 1
           d == Body(s, w, i).data
<1>0. Base(s, w) \in Nat /\ Len(Commands(s)) \in Nat
  BY InstanceFacts, CommandsAre, LenProperties DEF InstanceName
<1>1. i \in 1 .. Len(Commands(s)) /\ i - Base(s, w) = n + 1
  BY <1>0
<1>2. d = IF c.tag = "88" THEN Clear(c.plain) ELSE encrypt(At(s, w, n), c.plain)
  BY <1>1 DEF Body, encrypt, At
<1>3. Body(s, w, i) = [tag |-> c.tag, data |-> d]
  BY DEF Body
<1>4. x = auth(At(s, w, n), c.tag, d)
  BY <1>2 DEF mac_only_one, encrypt_and_mac_one
<1>5. Append(Chain(s, w, n), [tag |-> c.tag, data |-> d]) = Chain(s, w, n + 1)
  BY <1>3, ChainNext DEF InstanceName
<1> HIDE DEF d
<1>6. x = [tag |-> c.tag, data |-> d,
           mac |-> [s_mac |-> KeysOf(s, w), over |-> Chain(s, w, n + 1)]]
  BY <1>4, <1>5 DEF auth, At
<1>7. x = Segment(s, w, i)
  BY <1>1, <1>3, <1>6 DEF Segment, d
<1>8. Chained(At(s, w, n), x) = [keys |-> KeysOf(s, w), block_nr |-> n + 1,
                                 mac_chain |-> Chain(s, w, n + 1)]
  <2>1. x.tag = c.tag /\ x.data = d
    BY <1>6
  <2>2. Chained(At(s, w, n), x) =
          [keys |-> KeysOf(s, w), block_nr |-> n + 1,
           mac_chain |-> Append(Chain(s, w, n), [tag |-> x.tag, data |-> x.data])]
    BY ChainedAt
  <2> QED BY <1>5, <2>1, <2>2
<1>9. Protected(At(s, w, n), x) = At(s, w, n + 1)
  BY <1>8 DEF Protected, At
<1> QED BY <1>7, <1>9

\* The invariant of the SM-DP+, with the abbreviations from above.
SentBySession(s, p, d) ==
  /\ Len(p) <= Len(Commands(s))
  /\ \A i \in 1 .. Len(p) : p[i] = Segment(s, Protector(s, Commands(s)[i]), i)
  /\ d = [w \in InstanceName |-> At(s, w, SentBy(s, w, Len(p)))]

LEMMA SentIs == SentAsPlanned <=> \A s \in Sessions : SentBySession(s, bpp[s], dp[s])
<1>1. ASSUME NEW s \in Sessions
      PROVE  [w \in InstanceName |-> At(s, w, SentBy(s, w, Len(bpp[s])))] =
             [w \in {"session", "ppp"} |->
                IF w = "ppp" THEN At(s, w, PppOf(s, Len(bpp[s])))
                ELSE At(s, w, Len(bpp[s]) - PppOf(s, Len(bpp[s])))]
  BY DEF InstanceName, SentBy
<1> QED BY <1>1 DEF SentAsPlanned, SentBySession, PppOf

LEMMA EncodeKeeps ==
  ASSUME TypeOK, SentAsPlanned, NEW s \in Sessions, encode(s)
  PROVE  TypeOK' /\ SentAsPlanned'
<1> DEFINE p == bpp[s]
           n == Len(p)
           c == NextCommand(s)
           w == Protector(s, c)
           x == NextSegment(s)
<1>1. \A r \in Sessions : SentBySession(r, bpp[r], dp[r])
  BY SentIs
<1>2. /\ NextPlace(s) \in 1 .. Len(Commands(s))
      /\ w \in InstanceName
      /\ dp[s][w] \in Instance
      /\ x \in SegmentType
      /\ bpp' = [bpp EXCEPT ![s] = Append(@, x)]
      /\ dp' = [dp EXCEPT ![s][w] = Protected(@, x)]
      /\ euicc' = euicc
  <2>1. Len(bpp[s]) <= Len(Commands(s))
    BY <1>1 DEF SentBySession
  <2> QED BY <2>1, EncodeStep
<1>3. p \in Seq(SegmentType) /\ n \in Nat /\ Len(Commands(s)) \in Nat
  BY CommandsAre, LenProperties DEF TypeOK
<1>4. n + 1 \in 1 .. Len(Commands(s)) /\ c = Commands(s)[n + 1]
  BY <1>2 DEF NextPlace, NextCommand
<1> HIDE DEF c
<1>5. /\ n - Base(s, w) \in Nat /\ n >= Base(s, w)
      /\ SentBy(s, w, n) = n - Base(s, w)
      /\ \A v \in InstanceName :
           SentBy(s, v, n + 1) = IF v = w THEN SentBy(s, v, n) + 1 ELSE SentBy(s, v, n)
  <2>1. w = Protector(s, Commands(s)[n + 1])
    BY <1>4
  <2> HIDE DEF w
  <2> QED BY <1>3, <1>4, <2>1, ProtectorAt
<1>6. dp[s] = [v \in InstanceName |-> At(s, v, SentBy(s, v, n))]
  BY <1>1 DEF SentBySession
<1>7. dp[s][w] = At(s, w, n - Base(s, w))
  BY <1>2, <1>5, <1>6
<1>8. Base(s, w) \in Nat /\ Base(s, w) + (n - Base(s, w)) + 1 = n + 1
  BY <1>2, <1>3, InstanceFacts DEF InstanceName
<1>9. x = Segment(s, w, n + 1) /\ Protected(dp[s][w], x) = At(s, w, (n - Base(s, w)) + 1)
  <2>1. x = IF c.tag = "88" THEN mac_only_one(dp[s][w], c.tag, c.plain)
            ELSE encrypt_and_mac_one(dp[s][w], c.tag, c.plain)
    BY DEF NextSegment, c
  <2>2. Base(s, w) + (n - Base(s, w)) + 1 <= Len(Commands(s))
    BY <1>3, <1>4, <1>8
  <2>3. c = Commands(s)[Base(s, w) + (n - Base(s, w)) + 1]
    BY <1>4, <1>8
  <2>4. w \in InstanceName /\ n - Base(s, w) \in Nat
    BY <1>2, <1>5
  <2>5. x = IF c.tag = "88" THEN mac_only_one(At(s, w, n - Base(s, w)), c.tag, c.plain)
            ELSE encrypt_and_mac_one(At(s, w, n - Base(s, w)), c.tag, c.plain)
    BY <1>7, <2>1
  <2> HIDE DEF w, x
  <2>6. /\ x = Segment(s, w, Base(s, w) + (n - Base(s, w)) + 1)
        /\ Protected(At(s, w, n - Base(s, w)), x) = At(s, w, (n - Base(s, w)) + 1)
    BY <2>2, <2>3, <2>4, <2>5, SegmentMade
  <2> QED BY <1>7, <1>8, <2>6
<1> HIDE DEF x, w
<1>10. Protected(dp[s][w], x) \in Instance
  BY <1>2, SteppedTyped
<1>11. TypeOK'
  <2>1. Append(p, x) \in Seq(SegmentType)
    BY <1>2, <1>3
  <2>2. bpp' \in [Sessions -> Seq(SegmentType)]
    BY <1>2, <2>1 DEF TypeOK
  <2>3. dp' \in [Sessions -> [{"session", "ppp"} -> Instance]]
    BY <1>2, <1>10 DEF TypeOK, InstanceName
  <2> QED BY <1>2, <2>2, <2>3 DEF TypeOK
<1>12. bpp'[s] = Append(p, x) /\ Len(bpp'[s]) = n + 1
  BY <1>2, <1>3, AppendProperties DEF TypeOK
<1>13. dp'[s] = [v \in InstanceName |-> At(s, v, SentBy(s, v, n + 1))]
  <2>1. dp'[s] = [dp[s] EXCEPT ![w] = Protected(@, x)]
    BY <1>2 DEF TypeOK
  <2>2. dp'[s] = [v \in InstanceName |->
                    IF v = w THEN At(s, w, (n - Base(s, w)) + 1)
                    ELSE At(s, v, SentBy(s, v, n))]
    BY <1>2, <1>6, <1>9, <2>1
  <2>3. ASSUME NEW v \in InstanceName
        PROVE  (IF v = w THEN At(s, w, (n - Base(s, w)) + 1) ELSE At(s, v, SentBy(s, v, n)))
                 = At(s, v, SentBy(s, v, n + 1))
    BY <1>5
  <2> QED BY <2>2, <2>3
<1>14. ASSUME NEW i \in 1 .. n + 1
       PROVE  bpp'[s][i] = Segment(s, Protector(s, Commands(s)[i]), i)
  <2>1. CASE i = n + 1
    <3>1. bpp'[s][i] = x
      BY <1>2, <1>3, <1>12, <2>1, AppendProperties
    <3> QED BY <1>4, <1>9, <2>1, <3>1 DEF w
  <2>2. CASE i # n + 1
    <3>1. i \in 1 .. n
      BY <1>3, <2>2
    <3>2. bpp'[s][i] = p[i]
      BY <1>2, <1>3, <1>12, <3>1, AppendProperties
    <3> QED BY <1>1, <3>1, <3>2 DEF SentBySession
  <2> QED BY <2>1, <2>2
<1>15. SentBySession(s, bpp'[s], dp'[s])
  BY <1>3, <1>4, <1>12, <1>13, <1>14 DEF SentBySession
<1>16. ASSUME NEW r \in Sessions, r # s
       PROVE  SentBySession(r, bpp'[r], dp'[r])
  <2>1. bpp'[r] = bpp[r] /\ dp'[r] = dp[r]
    BY <1>2, <1>16 DEF TypeOK
  <2> QED BY <1>1, <2>1
<1>17. SentAsPlanned'
  <2>1. \A r \in Sessions : SentBySession(r, bpp'[r], dp'[r])
    BY <1>15, <1>16
  <2>2. ASSUME NEW r \in Sessions
        PROVE  [v \in InstanceName |-> At(r, v, SentBy(r, v, Len(bpp'[r])))] =
               [v \in {"session", "ppp"} |->
                  IF v = "ppp" THEN At(r, v, PppOf(r, Len(bpp'[r])))
                  ELSE At(r, v, Len(bpp'[r]) - PppOf(r, Len(bpp'[r])))]
    BY DEF InstanceName, SentBy
  <2> QED BY <2>1, <2>2 DEF SentAsPlanned, SentBySession, PppOf
<1> QED BY <1>11, <1>17

-----------------------------------------------------------------------------
(* What an eUICC's instance verifies *)

\* The instance after a segment that continues its chaining value.
LEMMA TakenAt ==
  ASSUME NEW t, NEW w, NEW n, NEW u, NEW z, NEW x,
         KeysOf(u, z) = KeysOf(t, w),
         Append(Chain(t, w, n), [tag |-> x.tag, data |-> x.data]) = Chain(u, z, n + 1)
  PROVE  Taken(At(t, w, n), x) = At(u, z, n + 1)
<1>1. Chained(At(t, w, n), x) =
        [keys |-> KeysOf(u, z), block_nr |-> n + 1, mac_chain |-> Chain(u, z, n + 1)]
  BY ChainedAt
<1> QED BY <1>1 DEF Taken, At

\* A segment that verifies is, whatever it was made from, the one that some
\* instance with the same keys has made after the same segments.
LEMMA SegmentVerified ==
  ASSUME NEW t \in Sessions, NEW w \in InstanceName, NEW n \in Nat,
         Base(t, w) + n <= Len(Commands(t)),
         NEW u \in Sessions, NEW z \in InstanceName,
         NEW j \in 1 .. Len(Commands(u)), j > Base(u, z),
         NEW x \in SegmentType, NEW seg,
         seg = [x EXCEPT !.mac = Segment(u, z, j).mac],
         verify(At(t, w, n), seg)
  PROVE  /\ seg = Segment(u, z, j)
         /\ KeysOf(u, z) = KeysOf(t, w)
         /\ j = Base(u, z) + n + 1
         /\ Chain(t, w, n) = Chain(u, z, n)
         /\ Taken(At(t, w, n), seg) = At(u, z, n + 1)
<1> DEFINE d == j - Base(u, z) - 1
           b == [tag |-> x.tag, data |-> x.data]
           m == [s_mac |-> KeysOf(u, z), over |-> Chain(u, z, d + 1)]
           f == Body(u, z, j)
<1>0. /\ Base(u, z) \in Nat /\ Len(Commands(u)) \in Nat
      /\ j \in Nat /\ d \in Nat /\ j - Base(u, z) = d + 1
      /\ j = Base(u, z) + d + 1 /\ Base(u, z) + d + 1 <= Len(Commands(u))
  BY InstanceFacts, CommandsAre, LenProperties DEF InstanceName
<1>1. Chain(t, w, n) \in Seq(BodyType) /\ Len(Chain(t, w, n)) = n
  BY ChainIs DEF InstanceName
<1>2. Chain(u, z, d) \in Seq(BodyType) /\ Len(Chain(u, z, d)) = d
  <2>1. Base(u, z) + d <= Len(Commands(u))
    BY <1>0
  <2> HIDE DEF d
  <2> QED BY <1>0, <2>1, ChainIs DEF InstanceName
<1>3. f \in BodyType
  BY BodyTyped DEF InstanceName
<1>4. b \in BodyType
  BY DEF SegmentType, BodyType
<1>5. Append(Chain(u, z, d), f) = Chain(u, z, d + 1)
  <2>1. Append(Chain(u, z, d), Body(u, z, Base(u, z) + d + 1)) = Chain(u, z, d + 1)
    <3> HIDE DEF d
    <3> QED BY <1>0, ChainNext DEF InstanceName
  <2> QED BY <1>0, <2>1
<1>6. Segment(u, z, j) = [tag |-> f.tag, data |-> f.data, mac |-> m]
  BY <1>0 DEF Segment
<1> HIDE DEF d, f
<1>7. seg = [tag |-> x.tag, data |-> x.data, mac |-> m]
  <2> HIDE DEF m
  <2>1. Segment(u, z, j).mac = m
    BY <1>6
  <2>2. seg = [x EXCEPT !.mac = m]
    BY <2>1
  <2> QED BY <2>2 DEF SegmentType
<1>8. m = [s_mac |-> KeysOf(t, w), over |-> Append(Chain(t, w, n), b)]
  <2>1. seg.mac = auth(At(t, w, n), seg.tag, seg.data).mac
    BY DEF verify
  <2>2. seg.tag = x.tag /\ seg.data = x.data /\ seg.mac = m
    BY <1>7
  <2>3. auth(At(t, w, n), x.tag, x.data).mac =
          [s_mac |-> KeysOf(t, w), over |-> Append(Chain(t, w, n), b)]
    BY DEF auth, At
  <2> QED BY <2>1, <2>2, <2>3
<1>9. KeysOf(u, z) = KeysOf(t, w) /\ Append(Chain(u, z, d), f) = Append(Chain(t, w, n), b)
  BY <1>5, <1>8
<1> HIDE DEF b
<1>10. Chain(u, z, d) = Chain(t, w, n) /\ f = b
  BY <1>1, <1>2, <1>3, <1>4, <1>9, AppendEqual
<1>11. d = n
  BY <1>1, <1>2, <1>10
<1>12. seg = Segment(u, z, j)
  <2>1. f.tag = x.tag /\ f.data = x.data
    BY <1>10 DEF b
  <2> QED BY <1>6, <1>7, <2>1
<1>13. Append(Chain(t, w, n), [tag |-> seg.tag, data |-> seg.data]) = Chain(u, z, n + 1)
  <2>1. seg.tag = x.tag /\ seg.data = x.data
    BY <1>7
  <2>2. [tag |-> seg.tag, data |-> seg.data] = b
    BY <2>1 DEF b
  <2> QED BY <1>5, <1>9, <1>11, <2>2
<1>14. Taken(At(t, w, n), seg) = At(u, z, n + 1)
  <2>1. ASSUME NEW y,
               Append(Chain(t, w, n), [tag |-> y.tag, data |-> y.data]) = Chain(u, z, n + 1)
        PROVE  Taken(At(t, w, n), y) = At(u, z, n + 1)
    BY <1>9, <2>1, TakenAt
  <2> QED BY <1>13, <2>1
<1> QED BY <1>0, <1>9, <1>10, <1>11, <1>12, <1>14

\* What the receiver reads in it.
LEMMA SegmentRead ==
  ASSUME NEW t \in Sessions, NEW w \in InstanceName, NEW n \in Nat,
         NEW u \in Sessions, NEW z \in InstanceName,
         NEW j \in 1 .. Len(Commands(u)), j = Base(u, z) + n + 1,
         KeysOf(u, z) = KeysOf(t, w)
  PROVE  /\ Segment(u, z, j).tag = Commands(u)[j].tag
         /\ Commands(u)[j].tag = "88" =>
              demac_only_one(At(t, w, n), Segment(u, z, j)) = Commands(u)[j].plain
         /\ Commands(u)[j].tag # "88" =>
              demac_and_decrypt_one(At(t, w, n), Segment(u, z, j)) = Commands(u)[j].plain
<1>1. Base(u, z) \in Nat /\ j - Base(u, z) = n + 1
  BY InstanceFacts DEF InstanceName
<1>2. Segment(u, z, j).tag = Body(u, z, j).tag /\ Segment(u, z, j).data = Body(u, z, j).data
  BY DEF Segment
<1>3. CASE Commands(u)[j].tag = "88"
  <2>1. Segment(u, z, j).data = Clear(Commands(u)[j].plain)
    BY <1>2, <1>3, BodyAt DEF InstanceName
  <2>2. Segment(u, z, j).data.s_enc = NoKeys
        /\ Segment(u, z, j).data.plain = Commands(u)[j].plain
    BY <2>1 DEF Clear
  <2>3. demac_only_one(At(t, w, n), Segment(u, z, j)) = Commands(u)[j].plain
    BY <2>2 DEF demac_only_one
  <2>4. Segment(u, z, j).tag = Commands(u)[j].tag
    BY <1>2, BodyAt DEF InstanceName
  <2> QED BY <1>3, <2>3, <2>4
<1>4. CASE Commands(u)[j].tag # "88"
  <2>1. Segment(u, z, j).data =
          [s_enc |-> KeysOf(u, z), icv |-> n + 1, plain |-> Commands(u)[j].plain]
    BY <1>1, <1>2, <1>4, BodyAt DEF InstanceName
  <2>2. At(t, w, n).keys = KeysOf(u, z) /\ At(t, w, n).block_nr = n + 1
    BY DEF At
  <2>3. demac_and_decrypt_one(At(t, w, n), Segment(u, z, j)) = Commands(u)[j].plain
    BY <2>1, <2>2 DEF demac_and_decrypt_one, decrypt
  <2> QED BY <1>2, <1>4, <2>3, BodyAt DEF InstanceName
<1> QED BY <1>3, <1>4

-----------------------------------------------------------------------------
(* The eUICC *)

\* How many segments of a part an eUICC in state e has taken, and of all
\* parts that the session keys protect.
TakenIn(e, part) == Len(e.got[part])
FirstIn(e) ==
  TakenIn(e, "firstSequenceOf87") + TakenIn(e, "sequenceOf88")
  + TakenIn(e, "secondSequenceOf87")

\* The invariant of the eUICC, of the state e that it has for session s.
PlainOk(s, e) ==
  /\ FirstIn(e) <= Before(s)
  /\ \A i \in 1 .. TakenIn(e, "firstSequenceOf87") :
       e.got["firstSequenceOf87"][i] = Plain(s)[i]
  /\ \A i \in 1 .. TakenIn(e, "sequenceOf88") :
       e.got["sequenceOf88"][i] = Plain(s)[TakenIn(e, "firstSequenceOf87") + i]
  /\ \A i \in 1 .. TakenIn(e, "secondSequenceOf87") :
       e.got["secondSequenceOf87"][i] =
         Plain(s)[TakenIn(e, "firstSequenceOf87") + TakenIn(e, "sequenceOf88") + i]

PartOk(e) ==
  /\ e.part = "firstSequenceOf87" =>
       /\ TakenIn(e, "sequenceOf88") = 0
       /\ TakenIn(e, "secondSequenceOf87") = 0
       /\ TakenIn(e, "sequenceOf86") = 0
  /\ e.part = "sequenceOf88" =>
       /\ TakenIn(e, "firstSequenceOf87") > 0
       /\ TakenIn(e, "secondSequenceOf87") = 0
       /\ TakenIn(e, "sequenceOf86") = 0
  /\ e.part = "secondSequenceOf87" =>
       TakenIn(e, "firstSequenceOf87") > 0 /\ TakenIn(e, "sequenceOf86") = 0
  /\ e.part = "sequenceOf86" => TakenIn(e, "firstSequenceOf87") > 0

ProfileFits(s, e, t) ==
  /\ PppKeys[t] = PppKeys[s]
  /\ PppKeys[s] = NoKeys => t = s
  /\ TakenIn(e, "sequenceOf86") <= Len(Upp[t])
  /\ \A i \in 1 .. TakenIn(e, "sequenceOf86") : e.got["sequenceOf86"][i] = Upp[t][i]

ProfileOk(s, e) ==
  TakenIn(e, "sequenceOf86") > 0 => \E t \in Sessions : ProfileFits(s, e, t)

\* The instance after segments that the session keys protect, and after a
\* replacement of the keys.
WithSessionKeys(s, e) ==
  /\ TakenIn(e, "secondSequenceOf87") = 0
  /\ TakenIn(e, "sequenceOf86") > 0 => ~WithPpp(s) /\ FirstIn(e) = Before(s)
  /\ e.bsp = At(s, "session", FirstIn(e) + TakenIn(e, "sequenceOf86"))

WithPppKeys(s, e) ==
  /\ WithPpp(s) /\ FirstIn(e) = Before(s)
  /\ \E t \in Sessions :
       ProfileFits(s, e, t) /\ e.bsp = At(t, "ppp", TakenIn(e, "sequenceOf86"))

BspOk(s, e) ==
  /\ e.part \in Parts \ {"sequenceOf86"} => e.bsp = At(s, "session", FirstIn(e))
  /\ e.part = "sequenceOf86" => WithSessionKeys(s, e) \/ WithPppKeys(s, e)

EuiccOk(s, e) == PlainOk(s, e) /\ PartOk(e) /\ ProfileOk(s, e) /\ BspOk(s, e)

LEMMA EuiccIs ==
  ASSUME NEW s \in Sessions
  PROVE  /\ EuiccOk(s, euicc[s]) <=> PartsInOrder(s) /\ ProfileInOrder(s) /\ ReceiverAt(s)
         /\ EuiccOk(s, euicc'[s]) <=>
              PartsInOrder(s)' /\ ProfileInOrder(s)' /\ ReceiverAt(s)'
<1>1. PartsInOrder(s) <=> PlainOk(s, euicc[s]) /\ PartOk(euicc[s])
  BY DEF PartsInOrder, PlainOk, PartOk, FirstIn, TakenIn, TakenOf
<1>2. PartsInOrder(s)' <=> PlainOk(s, euicc'[s]) /\ PartOk(euicc'[s])
  BY DEF PartsInOrder, PlainOk, PartOk, FirstIn, TakenIn, TakenOf
<1>3. ASSUME NEW t \in Sessions
      PROVE  /\ ProfileOf(s, t) <=> ProfileFits(s, euicc[s], t)
             /\ ProfileOf(s, t)' <=> ProfileFits(s, euicc'[s], t)
  BY DEF ProfileOf, ProfileFits, TakenIn, TakenOf
<1>4. /\ ProfileInOrder(s) <=> ProfileOk(s, euicc[s])
      /\ ProfileInOrder(s)' <=> ProfileOk(s, euicc'[s])
  BY <1>3 DEF ProfileInOrder, ProfileOk, TakenIn, TakenOf
<1>5. ReceiverAt(s) <=> BspOk(s, euicc[s])
  BY <1>3 DEF ReceiverAt, BspOk, WithSessionKeys, WithPppKeys, FirstIn, TakenIn, TakenOf
<1>6. ReceiverAt(s)' <=> BspOk(s, euicc'[s])
  BY <1>3 DEF ReceiverAt, BspOk, WithSessionKeys, WithPppKeys, FirstIn, TakenIn, TakenOf
<1> QED BY <1>1, <1>2, <1>4, <1>5, <1>6 DEF EuiccOk

\* Lengths of what was taken.
LEMMA TakenTyped ==
  ASSUME NEW e \in EuiccType
  PROVE  /\ \A part \in Parts : TakenIn(e, part) \in Nat
         /\ FirstIn(e) \in Nat
<1>1. ASSUME NEW part \in Parts
      PROVE  TakenIn(e, part) \in Nat
  <2>1. e.got[part] \in Seq(Plaintexts \cup {Garbage})
    BY DEF EuiccType, GotType
  <2> QED BY <2>1 DEF TakenIn
<1>2. FirstIn(e) \in Nat
  BY <1>1 DEF FirstIn, Parts
<1> QED BY <1>1, <1>2

\* The state after a part has ended: only the part and the instance change.
LEMMA PartEnds ==
  ASSUME NEW s \in Sessions, NEW e \in EuiccType, EuiccOk(s, e), NEW f \in EuiccType,
         f.got = e.got, PartOk(f), BspOk(s, f)
  PROVE  EuiccOk(s, f)
<1>1. /\ \A part : TakenIn(f, part) = TakenIn(e, part)
      /\ FirstIn(f) = FirstIn(e)
  BY DEF TakenIn, FirstIn
<1>2. PlainOk(s, f)
  BY <1>1 DEF EuiccOk, PlainOk
<1>3. \A t \in Sessions : ProfileFits(s, f, t) <=> ProfileFits(s, e, t)
  BY <1>1 DEF ProfileFits
<1>4. ProfileOk(s, f)
  BY <1>1, <1>3 DEF EuiccOk, ProfileOk
<1> QED BY <1>2, <1>4 DEF EuiccOk

\* A decoding that has ended.
LEMMA EndedOk ==
  ASSUME NEW s \in Sessions, NEW e \in EuiccType, EuiccOk(s, e), NEW f \in EuiccType,
         f.got = e.got, f.part \in {"raised", "returned"}
  PROVE  EuiccOk(s, f)
<1>1. f.part \notin Parts
  BY DEF Parts
<1>2. PartOk(f) /\ BspOk(s, f)
  BY <1>1 DEF PartOk, BspOk, Parts
<1> QED BY <1>2, PartEnds

\* One more plaintext of a part.
Grown(e, f, part, p) ==
  /\ TakenIn(f, part) = TakenIn(e, part) + 1
  /\ \A i \in 1 .. TakenIn(e, part) : f.got[part][i] = e.got[part][i]
  /\ f.got[part][TakenIn(e, part) + 1] = p
  /\ \A q \in Parts \ {part} : f.got[q] = e.got[q] /\ TakenIn(f, q) = TakenIn(e, q)

LEMMA PartGrows ==
  ASSUME NEW e \in EuiccType, NEW part \in Parts, NEW p \in Plaintexts \cup {Garbage},
         NEW f, f.got = [e.got EXCEPT ![part] = Append(@, p)]
  PROVE  f.got \in GotType /\ Grown(e, f, part, p)
<1>1. e.got \in GotType /\ e.got[part] \in Seq(Plaintexts \cup {Garbage})
  BY DEF EuiccType, GotType
<1>2. f.got[part] = Append(e.got[part], p)
  BY <1>1 DEF GotType
<1>3. Append(e.got[part], p) \in Seq(Plaintexts \cup {Garbage})
  BY <1>1, AppendProperties
<1>4. f.got \in GotType
  BY <1>1, <1>3 DEF GotType
<1>5. TakenIn(f, part) = TakenIn(e, part) + 1
  BY <1>1, <1>2, AppendProperties DEF TakenIn
<1>6. \A i \in 1 .. TakenIn(e, part) : f.got[part][i] = e.got[part][i]
  BY <1>1, <1>2, AppendProperties DEF TakenIn
<1>7. f.got[part][TakenIn(e, part) + 1] = p
  BY <1>1, <1>2, AppendProperties DEF TakenIn
<1>8. ASSUME NEW q \in Parts \ {part}
      PROVE  f.got[q] = e.got[q] /\ TakenIn(f, q) = TakenIn(e, q)
  BY <1>1 DEF GotType, TakenIn
<1> QED BY <1>4, <1>5, <1>6, <1>7, <1>8 DEF Grown

\* The session keys' next segment is taken.
LEMMA TakesWithSessionKeys ==
  ASSUME NEW s \in Sessions, NEW e \in EuiccType, EuiccOk(s, e),
         NEW part \in Parts \ {"sequenceOf86"}, e.part = part,
         NEW p, NEW f, f.part = part, Grown(e, f, part, p),
         p = Plain(s)[FirstIn(e) + 1], FirstIn(e) + 1 <= Before(s),
         f.bsp = At(s, "session", FirstIn(e) + 1)
  PROVE  EuiccOk(s, f)
<1> DEFINE n == FirstIn(e)
<1>0. /\ TakenIn(e, "firstSequenceOf87") \in Nat /\ TakenIn(e, "sequenceOf88") \in Nat
      /\ TakenIn(e, "secondSequenceOf87") \in Nat /\ TakenIn(e, "sequenceOf86") \in Nat
      /\ n \in Nat /\ Before(s) \in Nat
  BY TakenTyped, SessionFacts DEF Parts
<1>1. /\ TakenIn(f, part) = TakenIn(e, part) + 1
      /\ \A i \in 1 .. TakenIn(e, part) : f.got[part][i] = e.got[part][i]
      /\ f.got[part][TakenIn(e, part) + 1] = p
      /\ \A q \in Parts \ {part} : f.got[q] = e.got[q] /\ TakenIn(f, q) = TakenIn(e, q)
  BY DEF Grown
<1>2. ProfileOk(s, f)
  <2>1. f.got["sequenceOf86"] = e.got["sequenceOf86"]
        /\ TakenIn(f, "sequenceOf86") = TakenIn(e, "sequenceOf86")
    BY <1>1 DEF Parts
  <2>2. \A t \in Sessions : ProfileFits(s, f, t) <=> ProfileFits(s, e, t)
    BY <2>1 DEF ProfileFits
  <2> QED BY <2>1, <2>2 DEF EuiccOk, ProfileOk
<1>3. PartOk(f) /\ PlainOk(s, f) /\ FirstIn(f) = n + 1
  <2>1. CASE part = "firstSequenceOf87"
    <3>1. /\ TakenIn(f, "firstSequenceOf87") = TakenIn(e, "firstSequenceOf87") + 1
          /\ TakenIn(f, "sequenceOf88") = 0 /\ TakenIn(e, "sequenceOf88") = 0
          /\ TakenIn(f, "secondSequenceOf87") = 0 /\ TakenIn(e, "secondSequenceOf87") = 0
          /\ TakenIn(f, "sequenceOf86") = 0
      BY <1>1, <2>1 DEF EuiccOk, PartOk, Parts
    <3>2. FirstIn(f) = n + 1 /\ n = TakenIn(e, "firstSequenceOf87")
      BY <1>0, <3>1 DEF FirstIn
    <3>3. ASSUME NEW i \in 1 .. TakenIn(f, "firstSequenceOf87")
          PROVE  f.got["firstSequenceOf87"][i] = Plain(s)[i]
      <4>1. CASE i = n + 1
        BY <1>1, <2>1, <3>2, <4>1
      <4>2. CASE i # n + 1
        <5>1. i \in 1 .. TakenIn(e, "firstSequenceOf87")
          BY <1>0, <3>1, <3>2, <4>2
        <5> QED BY <1>1, <2>1, <5>1 DEF EuiccOk, PlainOk
      <4> QED BY <4>1, <4>2
    <3>4. 1 .. TakenIn(f, "sequenceOf88") = {} /\ 1 .. TakenIn(f, "secondSequenceOf87") = {}
      BY <3>1
    <3>5. FirstIn(f) <= Before(s)
      BY <3>2
    <3>6. PlainOk(s, f)
      BY <3>3, <3>4, <3>5 DEF PlainOk
    <3> QED BY <2>1, <3>1, <3>2, <3>6 DEF PartOk
  <2>2. CASE part = "sequenceOf88"
    <3>1. /\ TakenIn(f, "sequenceOf88") = TakenIn(e, "sequenceOf88") + 1
          /\ TakenIn(f, "firstSequenceOf87") = TakenIn(e, "firstSequenceOf87")
          /\ f.got["firstSequenceOf87"] = e.got["firstSequenceOf87"]
          /\ TakenIn(e, "firstSequenceOf87") > 0
          /\ TakenIn(f, "secondSequenceOf87") = 0 /\ TakenIn(e, "secondSequenceOf87") = 0
          /\ TakenIn(f, "sequenceOf86") = 0
      BY <1>1, <2>2 DEF EuiccOk, PartOk, Parts
    <3>2. FirstIn(f) = n + 1
          /\ n = TakenIn(e, "firstSequenceOf87") + TakenIn(e, "sequenceOf88")
      BY <1>0, <3>1 DEF FirstIn
    <3>3. ASSUME NEW i \in 1 .. TakenIn(f, "sequenceOf88")
          PROVE  f.got["sequenceOf88"][i] = Plain(s)[TakenIn(e, "firstSequenceOf87") + i]
      <4>1. CASE i = TakenIn(e, "sequenceOf88") + 1
        <5>1. TakenIn(e, "firstSequenceOf87") + i = n + 1
          BY <1>0, <3>2, <4>1
        <5> QED BY <1>1, <2>2, <4>1, <5>1
      <4>2. CASE i # TakenIn(e, "sequenceOf88") + 1
        <5>1. i \in 1 .. TakenIn(e, "sequenceOf88")
          BY <1>0, <3>1, <4>2
        <5> QED BY <1>1, <2>2, <5>1 DEF EuiccOk, PlainOk
      <4> QED BY <4>1, <4>2
    <3>4. \A i \in 1 .. TakenIn(f, "firstSequenceOf87") :
            f.got["firstSequenceOf87"][i] = Plain(s)[i]
      BY <3>1 DEF EuiccOk, PlainOk
    <3>5. 1 .. TakenIn(f, "secondSequenceOf87") = {}
      BY <3>1
    <3>6. FirstIn(f) <= Before(s)
      BY <3>2
    <3>7. PlainOk(s, f)
      BY <3>1, <3>3, <3>4, <3>5, <3>6 DEF PlainOk
    <3> QED BY <2>2, <3>1, <3>2, <3>7 DEF PartOk
  <2>3. CASE part = "secondSequenceOf87"
    <3>1. /\ TakenIn(f, "secondSequenceOf87") = TakenIn(e, "secondSequenceOf87") + 1
          /\ TakenIn(f, "firstSequenceOf87") = TakenIn(e, "firstSequenceOf87")
          /\ f.got["firstSequenceOf87"] = e.got["firstSequenceOf87"]
          /\ TakenIn(f, "sequenceOf88") = TakenIn(e, "sequenceOf88")
          /\ f.got["sequenceOf88"] = e.got["sequenceOf88"]
          /\ TakenIn(e, "firstSequenceOf87") > 0
          /\ TakenIn(f, "sequenceOf86") = 0
      BY <1>1, <2>3 DEF EuiccOk, PartOk, Parts
    <3>2. FirstIn(f) = n + 1
          /\ n = TakenIn(e, "firstSequenceOf87") + TakenIn(e, "sequenceOf88")
                 + TakenIn(e, "secondSequenceOf87")
      BY <1>0, <3>1 DEF FirstIn
    <3>3. ASSUME NEW i \in 1 .. TakenIn(f, "secondSequenceOf87")
          PROVE  f.got["secondSequenceOf87"][i] =
                   Plain(s)[TakenIn(e, "firstSequenceOf87") + TakenIn(e, "sequenceOf88") + i]
      <4>1. CASE i = TakenIn(e, "secondSequenceOf87") + 1
        <5>1. TakenIn(e, "firstSequenceOf87") + TakenIn(e, "sequenceOf88") + i = n + 1
          BY <1>0, <3>2, <4>1
        <5> QED BY <1>1, <2>3, <4>1, <5>1
      <4>2. CASE i # TakenIn(e, "secondSequenceOf87") + 1
        <5>1. i \in 1 .. TakenIn(e, "secondSequenceOf87")
          BY <1>0, <3>1, <4>2
        <5> QED BY <1>1, <2>3, <5>1 DEF EuiccOk, PlainOk
      <4> QED BY <4>1, <4>2
    <3>4. \A i \in 1 .. TakenIn(f, "firstSequenceOf87") :
            f.got["firstSequenceOf87"][i] = Plain(s)[i]
      BY <3>1 DEF EuiccOk, PlainOk
    <3>5. \A i \in 1 .. TakenIn(f, "sequenceOf88") :
            f.got["sequenceOf88"][i] = Plain(s)[TakenIn(e, "firstSequenceOf87") + i]
      BY <3>1 DEF EuiccOk, PlainOk
    <3>6. PlainOk(s, f)
      BY <1>0, <3>1, <3>2, <3>3, <3>4, <3>5 DEF PlainOk
    <3> QED BY <2>3, <3>1, <3>2, <3>6 DEF PartOk
  <2> QED BY <2>1, <2>2, <2>3 DEF Parts
<1>4. BspOk(s, f)
  BY <1>3 DEF BspOk
<1> QED BY <1>2, <1>3, <1>4 DEF EuiccOk

\* A segment of the profile is taken, by either instance.
LEMMA TakesProfile ==
  ASSUME NEW s \in Sessions, NEW e \in EuiccType, EuiccOk(s, e),
         e.part = "sequenceOf86",
         NEW p, NEW f, f.part = "sequenceOf86", Grown(e, f, "sequenceOf86", p),
         NEW t \in Sessions,
         PppKeys[t] = PppKeys[s], PppKeys[s] = NoKeys => t = s,
         TakenIn(e, "sequenceOf86") + 1 <= Len(Upp[t]),
         \A i \in 1 .. TakenIn(e, "sequenceOf86") : e.got["sequenceOf86"][i] = Upp[t][i],
         p = Upp[t][TakenIn(e, "sequenceOf86") + 1],
         FirstIn(e) = Before(s),
         \/ /\ WithPpp(s) /\ f.bsp = At(t, "ppp", TakenIn(e, "sequenceOf86") + 1)
         \/ /\ ~WithPpp(s) /\ TakenIn(e, "secondSequenceOf87") = 0
            /\ f.bsp = At(s, "session", FirstIn(e) + TakenIn(e, "sequenceOf86") + 1)
  PROVE  EuiccOk(s, f)
<1> DEFINE d == TakenIn(e, "sequenceOf86")
<1>0. d \in Nat /\ Len(Upp[t]) \in Nat /\ FirstIn(e) \in Nat
  BY TakenTyped, SessionFacts DEF Parts
<1>1. /\ TakenIn(f, "sequenceOf86") = d + 1
      /\ \A i \in 1 .. d : f.got["sequenceOf86"][i] = e.got["sequenceOf86"][i]
      /\ f.got["sequenceOf86"][d + 1] = p
      /\ \A q \in Parts \ {"sequenceOf86"} :
           f.got[q] = e.got[q] /\ TakenIn(f, q) = TakenIn(e, q)
  BY DEF Grown
<1>2. /\ f.got["firstSequenceOf87"] = e.got["firstSequenceOf87"]
      /\ TakenIn(f, "firstSequenceOf87") = TakenIn(e, "firstSequenceOf87")
      /\ f.got["sequenceOf88"] = e.got["sequenceOf88"]
      /\ TakenIn(f, "sequenceOf88") = TakenIn(e, "sequenceOf88")
      /\ f.got["secondSequenceOf87"] = e.got["secondSequenceOf87"]
      /\ TakenIn(f, "secondSequenceOf87") = TakenIn(e, "secondSequenceOf87")
  BY <1>1 DEF Parts
<1>3. FirstIn(f) = FirstIn(e)
  BY <1>2 DEF FirstIn
<1>4. PlainOk(s, f)
  BY <1>2, <1>3 DEF EuiccOk, PlainOk
<1>5. PartOk(f)
  BY <1>2 DEF EuiccOk, PartOk
<1>6. ProfileFits(s, f, t)
  <2>1. ASSUME NEW i \in 1 .. d + 1
        PROVE  f.got["sequenceOf86"][i] = Upp[t][i]
    <3>1. CASE i = d + 1
      BY <1>1, <3>1
    <3>2. CASE i # d + 1
      <4>1. i \in 1 .. d
        BY <1>0, <3>2
      <4> QED BY <1>1, <4>1
    <3> QED BY <3>1, <3>2
  <2> QED BY <1>1, <2>1 DEF ProfileFits
<1>7. ProfileOk(s, f)
  BY <1>6 DEF ProfileOk
<1>8. BspOk(s, f)
  <2>1. CASE WithPpp(s) /\ f.bsp = At(t, "ppp", d + 1)
    <3>1. WithPppKeys(s, f)
      BY <1>1, <1>3, <1>6, <2>1 DEF WithPppKeys
    <3> QED BY <3>1 DEF BspOk
  <2>2. CASE ~WithPpp(s) /\ TakenIn(e, "secondSequenceOf87") = 0
             /\ f.bsp = At(s, "session", FirstIn(e) + d + 1)
    <3>1. FirstIn(f) + TakenIn(f, "sequenceOf86") = FirstIn(e) + d + 1
      BY <1>0, <1>1, <1>3
    <3>2. WithSessionKeys(s, f)
      BY <1>2, <1>3, <2>2, <3>1 DEF WithSessionKeys
    <3> QED BY <3>2 DEF BspOk
  <2> QED BY <2>1, <2>2
<1> QED BY <1>4, <1>5, <1>7, <1>8 DEF EuiccOk

LEMMA PlainIs ==
  ASSUME NEW s \in Sessions, NEW i \in 1 .. Len(Commands(s))
  PROVE  Plain(s)[i] = Commands(s)[i].plain
BY DEF Plain

\* What is on the wire is what the SM-DP+ was to make of some command.
LEMMA OnWire ==
  ASSUME TypeOK, SentAsPlanned, NEW x \in Wire
  PROVE  \E u \in Sessions : \E j \in 1 .. Len(Commands(u)) :
           x = Segment(u, Protector(u, Commands(u)[j]), j)
<1>1. PICK u \in Sessions : \E j \in 1 .. Len(bpp[u]) : x = bpp[u][j]
  BY WireTyped
<1>2. PICK j \in 1 .. Len(bpp[u]) : x = bpp[u][j]
  BY <1>1
<1>3. SentBySession(u, bpp[u], dp[u])
  BY SentIs
<1>4. Len(bpp[u]) \in Nat /\ Len(Commands(u)) \in Nat
  BY CommandsAre, LenProperties DEF TypeOK
<1>5. j \in 1 .. Len(Commands(u))
  BY <1>3, <1>4 DEF SentBySession
<1>6. x = Segment(u, Protector(u, Commands(u)[j]), j)
  BY <1>2, <1>3 DEF SentBySession
<1> QED BY <1>5, <1>6

\* A command and the instance that protects it.
LEMMA ProtectorIs ==
  ASSUME NEW u \in Sessions, NEW j \in 1 .. Len(Commands(u)),
         NEW z, z = Protector(u, Commands(u)[j])
  PROVE  /\ z \in InstanceName /\ j > Base(u, z) /\ j \in Nat
         /\ z = "ppp" <=> Commands(u)[j].tag = "86" /\ WithPpp(u)
         /\ Commands(u)[j].tag = "86" <=> j > Before(u)
<1>1. Commands(u)[j].tag = "86" <=> j > Before(u)
  BY TagAt
<1>2. z \in InstanceName /\ (z = "ppp" <=> Commands(u)[j].tag = "86" /\ WithPpp(u))
  BY DEF Protector, InstanceName
<1>3. j > Base(u, z) /\ j \in Nat
  BY <1>1, <1>2, Places DEF Base
<1> QED BY <1>1, <1>2, <1>3

\* A segment that the instance with the session keys verifies, of a part
\* that they protect, is the next one of this session's package.
LEMMA NextWithSessionKeys ==
  ASSUME NEW s \in Sessions, NEW n \in Nat,
         NEW u \in Sessions, NEW j \in 1 .. Len(Commands(u)),
         NEW z, z = Protector(u, Commands(u)[j]),
         KeysOf(u, z) = SessionKeys[s], j = Base(u, z) + n + 1,
         Commands(u)[j].tag # "86"
  PROVE  u = s /\ z = "session" /\ j = n + 1 /\ j <= Before(s)
<1>1. z = "session" /\ ~(j > Before(u)) /\ j \in Nat
  BY ProtectorIs DEF InstanceName
<1>2. SessionKeys[u] = SessionKeys[s] /\ Base(u, z) = 0
  BY <1>1 DEF KeysOf, Base
<1>3. u = s
  BY <1>2, BppAssumption DEF BppAssumption
<1>4. Before(s) \in Nat
  BY SessionFacts
<1> QED BY <1>1, <1>2, <1>3, <1>4

\* With the same chaining value, two packages of PPPs have the same profile
\* up to there.
LEMMA SameProfile ==
  ASSUME NEW t \in Sessions, NEW u \in Sessions, NEW d \in Nat,
         d <= Len(Upp[t]), d <= Len(Upp[u]),
         Chain(t, "ppp", d) = Chain(u, "ppp", d),
         NEW i \in 1 .. d
  PROVE  Upp[t][i] = Upp[u][i]
<1>1. ASSUME NEW v \in Sessions, d <= Len(Upp[v])
      PROVE  Chain(v, "ppp", d)[i].data.plain = Upp[v][i]
  <2>1. /\ Before(v) \in Nat /\ Len(Upp[v]) \in Nat
        /\ Len(Commands(v)) = Before(v) + Len(Upp[v])
    BY SessionFacts, CommandsAre
  <2>2. Base(v, "ppp") = Before(v)
    BY DEF Base
  <2>3. Before(v) + i \in 1 .. Len(Commands(v))
    BY <1>1, <2>1
  <2>4. Chain(v, "ppp", d)[i] = Body(v, "ppp", Before(v) + i)
    BY <2>2 DEF Chain
  <2>5. Body(v, "ppp", Before(v) + i).data.plain = Commands(v)[Before(v) + i].plain
    BY <2>3, BodyAt
  <2>6. Commands(v)[Before(v) + i].plain = Upp[v][(Before(v) + i) - Before(v)]
    <3>1. /\ Before(v) + i \in Nat /\ Before(v) + i > Before(v)
          /\ Before(v) + i <= Before(v) + Len(Upp[v])
      BY <1>1, <2>1
    <3> QED BY <3>1, ProfileCommand
  <2>7. (Before(v) + i) - Before(v) = i
    BY <2>1
  <2> QED BY <2>4, <2>5, <2>6, <2>7
<1>2. Chain(t, "ppp", d)[i].data.plain = Upp[t][i]
  BY <1>1
<1>3. Chain(u, "ppp", d)[i].data.plain = Upp[u][i]
  BY <1>1
<1> QED BY <1>2, <1>3

\* The two instances of one package do not start alike.
LEMMA ChainsDiffer ==
  ASSUME NEW s \in Sessions, NEW n \in Nat, n > 0,
         Before(s) + n <= Len(Commands(s))
  PROVE  Chain(s, "session", n) # Chain(s, "ppp", n)
<1>1. Before(s) \in Nat /\ Len(Commands(s)) \in Nat /\ Before(s) > 1
  BY SessionFacts, CommandsAre, LenProperties
<1>2. Base(s, "session") = 0 /\ Base(s, "ppp") = Before(s)
  BY DEF Base
<1>3. Chain(s, "session", n)[1].tag = "87"
  <2>1. Chain(s, "session", n)[1] = Body(s, "session", 1)
    BY <1>2 DEF Chain
  <2>2. 1 \in 1 .. Len(Commands(s))
    BY <1>1
  <2>3. Body(s, "session", 1).tag = Commands(s)[1].tag
    BY <2>2, BodyAt
  <2> QED BY <2>1, <2>3, FirstCommand
<1>4. Chain(s, "ppp", n)[1].tag = "86"
  <2>1. Chain(s, "ppp", n)[1] = Body(s, "ppp", Before(s) + 1)
    BY <1>2 DEF Chain
  <2>2. Before(s) + 1 \in 1 .. Len(Commands(s)) /\ Before(s) + 1 > Before(s)
    BY <1>1
  <2>3. Body(s, "ppp", Before(s) + 1).tag = Commands(s)[Before(s) + 1].tag
    BY <2>2, BodyAt
  <2>4. Commands(s)[Before(s) + 1].tag = "86"
    BY <2>2, TagAt
  <2> QED BY <2>1, <2>3, <2>4
<1> QED BY <1>3, <1>4

\* The place j is the one after b segments of the c that follow place a.
LEMMA Room ==
  ASSUME NEW a \in Nat, NEW b \in Nat, NEW c \in Nat, NEW j \in Nat,
         j = a + b + 1, j <= a + c
  PROVE  b + 1 <= c /\ b <= c /\ j > a /\ j - a = b + 1
OBVIOUS

\* A segment of a profile that the instance with the session keys verifies,
\* and one that the instance with the keys of a PPP verifies.
LEMMA ProfileWithSessionKeys ==
  ASSUME NEW s \in Sessions, NEW e \in EuiccType, EuiccOk(s, e),
         e.part = "sequenceOf86", WithSessionKeys(s, e),
         NEW d, d = TakenIn(e, "sequenceOf86"),
         NEW u \in Sessions, NEW j \in 1 .. Len(Commands(u)),
         NEW z, z = Protector(u, Commands(u)[j]),
         Commands(u)[j].tag = "86",
         KeysOf(u, z) = SessionKeys[s], j = Base(u, z) + (FirstIn(e) + d) + 1,
         Chain(s, "session", FirstIn(e) + d) = Chain(u, z, FirstIn(e) + d)
  PROVE  /\ u = s /\ z = "session" /\ PppKeys[s] = NoKeys /\ FirstIn(e) = Before(s)
         /\ d + 1 <= Len(Upp[s])
         /\ \A i \in 1 .. d : e.got["sequenceOf86"][i] = Upp[s][i]
         /\ Commands(s)[j].plain = Upp[s][d + 1]
<1>0. /\ d \in Nat /\ FirstIn(e) \in Nat /\ TakenIn(e, "firstSequenceOf87") \in Nat
      /\ TakenIn(e, "sequenceOf88") \in Nat /\ TakenIn(e, "secondSequenceOf87") \in Nat
  BY TakenTyped DEF Parts
<1>1. FirstIn(e) > 0 /\ FirstIn(e) <= Before(s)
  BY <1>0 DEF EuiccOk, PartOk, PlainOk, FirstIn
<1>2. /\ z \in InstanceName /\ j \in Nat
      /\ z = "ppp" <=> WithPpp(u)
      /\ j > Before(u)
      /\ Base(u, z) \in Nat
  BY ProtectorIs, InstanceFacts DEF InstanceName
<1>3. z # "ppp"
  <2>1. SUFFICES ASSUME z = "ppp" PROVE FALSE
    OBVIOUS
  <2>2. PppKeys[u] = SessionKeys[s]
    BY <2>1 DEF KeysOf
  <2>3. u = s
    BY <2>2, BppAssumption DEF BppAssumption
  <2>4. j = Before(s) + (FirstIn(e) + d) + 1 /\ Len(Commands(s)) \in Nat /\ Before(s) \in Nat
    BY <2>1, <2>3, SessionFacts, CommandsAre, LenProperties DEF Base
  <2>5. Before(s) + (FirstIn(e) + d) <= Len(Commands(s))
        /\ FirstIn(e) + d \in Nat /\ FirstIn(e) + d > 0
    <3>1. j <= Len(Commands(s))
      BY <1>2, <2>3, <2>4
    <3>2. FirstIn(e) + d \in Nat /\ FirstIn(e) + d > 0
      BY <1>0, <1>1
    <3> DEFINE n == FirstIn(e) + d
    <3> HIDE DEF n
    <3>3. Before(s) + n <= Len(Commands(s))
      <4>1. n \in Nat /\ j = Before(s) + n + 1
        BY <2>4, <3>2 DEF n
      <4>2. Base(u, z) = Before(s)
        BY <2>1, <2>3 DEF Base
      <4> QED BY <1>2, <2>4, <3>1, <4>1, <4>2
    <3> QED BY <3>2, <3>3 DEF n
  <2>6. Chain(s, "session", FirstIn(e) + d) # Chain(s, "ppp", FirstIn(e) + d)
    BY <2>5, ChainsDiffer
  <2> QED BY <2>1, <2>3, <2>6
<1>4. z = "session" /\ ~WithPpp(u) /\ Base(u, z) = 0
  BY <1>2, <1>3 DEF InstanceName, Base
<1>5. u = s
  <2>1. SessionKeys[u] = SessionKeys[s]
    BY <1>4 DEF KeysOf
  <2> QED BY <2>1, BppAssumption DEF BppAssumption
<1>6. PppKeys[s] = NoKeys
  BY <1>4, <1>5 DEF WithPpp
<1>7. Before(s) \in Nat /\ Len(Upp[s]) \in Nat /\ Len(Commands(s)) = Before(s) + Len(Upp[s])
  BY SessionFacts, CommandsAre
<1>8. j = FirstIn(e) + d + 1
  BY <1>0, <1>4
<1>9. FirstIn(e) = Before(s)
  <2>1. CASE d > 0
    BY <2>1 DEF WithSessionKeys
  <2>2. CASE ~(d > 0)
    <3>1. d = 0 /\ j > Before(s)
      BY <1>0, <1>2, <1>5, <2>2
    <3>2. j = FirstIn(e) + 1
      BY <1>0, <1>4, <1>8, <3>1
    <3>3. FirstIn(e) >= Before(s)
      BY <1>0, <1>4, <1>7, <3>1, <3>2
    <3> QED BY <1>0, <1>1, <1>7, <3>3
  <2> QED BY <2>1, <2>2
<1>10. d + 1 <= Len(Upp[s]) /\ j > Before(s) /\ j - Before(s) = d + 1
        /\ j <= Before(s) + Len(Upp[s])
  <2>1. j <= Before(s) + Len(Upp[s])
    BY <1>2, <1>5, <1>7
  <2>2. j = Before(s) + d + 1
    BY <1>8, <1>9
  <2>3. ASSUME NEW k \in Nat, k = Before(s) + d + 1, k <= Before(s) + Len(Upp[s])
        PROVE  d + 1 <= Len(Upp[s]) /\ k > Before(s) /\ k - Before(s) = d + 1
    <3>1. d \in Nat /\ Before(s) \in Nat /\ Len(Upp[s]) \in Nat
      BY <1>0, <1>7
    <3> QED BY <2>3, <3>1, Room
  <2> QED BY <1>2, <2>1, <2>2, <2>3
<1>11. \A i \in 1 .. d : e.got["sequenceOf86"][i] = Upp[s][i]
  <2>1. CASE d > 0
    <3>1. PICK t \in Sessions : ProfileFits(s, e, t)
      BY <2>1 DEF EuiccOk, ProfileOk
    <3> QED BY <1>6, <3>1 DEF ProfileFits
  <2>2. CASE ~(d > 0)
    BY <1>0, <2>2
  <2> QED BY <2>1, <2>2
<1>12. Commands(s)[j].plain = Upp[s][d + 1]
  <2>1. j \in Nat /\ j > Before(s) /\ j <= Before(s) + Len(Upp[s]) /\ j - Before(s) = d + 1
    BY <1>2, <1>10
  <2>2. Commands(s)[j].plain = Upp[s][j - Before(s)]
    BY <2>1, ProfileCommand
  <2> QED BY <2>1, <2>2
<1> QED BY <1>4, <1>5, <1>6, <1>9, <1>10, <1>11, <1>12

LEMMA ProfileWithPppKeys ==
  ASSUME NEW s \in Sessions, NEW e \in EuiccType, WithPpp(s),
         NEW d, d = TakenIn(e, "sequenceOf86"),
         NEW t \in Sessions, ProfileFits(s, e, t),
         NEW u \in Sessions, NEW j \in 1 .. Len(Commands(u)),
         NEW z, z = Protector(u, Commands(u)[j]),
         Commands(u)[j].tag = "86",
         KeysOf(u, z) = PppKeys[t], j = Base(u, z) + d + 1,
         Chain(t, "ppp", d) = Chain(u, z, d)
  PROVE  /\ z = "ppp" /\ PppKeys[u] = PppKeys[s] /\ PppKeys[s] # NoKeys
         /\ d + 1 <= Len(Upp[u])
         /\ \A i \in 1 .. d : e.got["sequenceOf86"][i] = Upp[u][i]
         /\ Commands(u)[j].plain = Upp[u][d + 1]
<1>0. d \in Nat
  BY TakenTyped DEF Parts
<1>1. PppKeys[t] = PppKeys[s] /\ PppKeys[s] # NoKeys /\ d <= Len(Upp[t])
  BY DEF ProfileFits, WithPpp
<1>2. z \in InstanceName /\ (z = "ppp" <=> WithPpp(u)) /\ Base(u, z) \in Nat
  BY ProtectorIs, InstanceFacts DEF InstanceName
<1>3. z = "ppp"
  <2>1. SUFFICES ASSUME z = "session" PROVE FALSE
    BY <1>2 DEF InstanceName
  <2>2. SessionKeys[u] = PppKeys[s]
    BY <1>1, <2>1 DEF KeysOf
  <2>3. u = s
    BY <2>2, BppAssumption DEF BppAssumption
  <2> QED BY <1>2, <2>1, <2>3
<1>4. PppKeys[u] = PppKeys[s] /\ Base(u, z) = Before(u)
  BY <1>1, <1>3 DEF KeysOf, Base
<1>5. Before(u) \in Nat /\ Len(Upp[u]) \in Nat /\ Len(Commands(u)) = Before(u) + Len(Upp[u])
  BY SessionFacts, CommandsAre
<1>6. j \in Nat /\ j = Before(u) + d + 1 /\ j <= Before(u) + Len(Upp[u])
  BY <1>0, <1>4, <1>5
<1>7. d + 1 <= Len(Upp[u]) /\ d <= Len(Upp[u]) /\ j > Before(u) /\ j - Before(u) = d + 1
  BY <1>0, <1>2, <1>4, <1>5, <1>6, Room
<1>8. Commands(u)[j].plain = Upp[u][d + 1]
  <2>1. Commands(u)[j].plain = Upp[u][j - Before(u)]
    BY <1>6, <1>7, ProfileCommand
  <2> QED BY <1>7, <2>1
<1>9. ASSUME NEW i \in 1 .. d
      PROVE  e.got["sequenceOf86"][i] = Upp[u][i]
  <2>1. Chain(t, "ppp", d) = Chain(u, "ppp", d)
    BY <1>3
  <2>2. Upp[t][i] = Upp[u][i]
    BY <1>0, <1>1, <1>7, <2>1, SameProfile
  <2> QED BY <2>2 DEF ProfileFits
<1> QED BY <1>1, <1>3, <1>4, <1>7, <1>8, <1>9

-----------------------------------------------------------------------------
(* The steps of the eUICC *)

LEMMA TagOfPart ==
  ASSUME NEW part \in Parts
  PROVE  /\ TagOf(part) = "88" <=> part = "sequenceOf88"
         /\ TagOf(part) = "86" <=> part = "sequenceOf86"
BY DEF TagOf, Parts

\* The state that decode has after a segment: it was taken, or has made
\* decode raise.
Verified(e, x, p) == [e EXCEPT !.bsp = Taken(@, x), !.got[e.part] = Append(@, p)]
Raised(e) == [e EXCEPT !.part = "raised"]
Read(e, x) ==
  IF e.part = "sequenceOf88" THEN demac_only_one(e.bsp, x)
  ELSE demac_and_decrypt_one(e.bsp, x)

\* Both as records.
LEMMA StepTaken ==
  ASSUME NEW e \in EuiccType, NEW c \in Instance, NEW q, NEW p
  PROVE  [e EXCEPT !.bsp = c, !.got[q] = Append(@, p)] =
           [bsp |-> c, part |-> e.part, got |-> [e.got EXCEPT ![q] = Append(@, p)]]
<1>1. [e EXCEPT !.bsp = c] = [bsp |-> c, part |-> e.part, got |-> e.got]
  BY DEF EuiccType
<1>2. ASSUME NEW f, f = [bsp |-> c, part |-> e.part, got |-> e.got]
      PROVE  [f EXCEPT !.got[q] = Append(@, p)] =
               [bsp |-> c, part |-> e.part, got |-> [e.got EXCEPT ![q] = Append(@, p)]]
  <2>1. f.got = e.got
    BY <1>2
  <2>2. [f EXCEPT !.got[q] = Append(@, p)] =
        [f EXCEPT !.got = [f.got EXCEPT ![q] = Append(@, p)]]
    OBVIOUS
  <2>3. ASSUME NEW h
        PROVE  [f EXCEPT !.got = h] = [bsp |-> c, part |-> e.part, got |-> h]
    BY <1>2
  <2> QED BY <2>1, <2>2, <2>3
<1> QED BY <1>1, <1>2

LEMMA BspAndPart ==
  ASSUME NEW e \in EuiccType, NEW c \in Instance, NEW q
  PROVE  [e EXCEPT !.bsp = c, !.part = q] = [bsp |-> c, part |-> q, got |-> e.got]
<1>1. [e EXCEPT !.bsp = c] = [bsp |-> c, part |-> e.part, got |-> e.got]
  BY DEF EuiccType
<1>2. ASSUME NEW f, f = [bsp |-> c, part |-> e.part, got |-> e.got]
      PROVE  [f EXCEPT !.part = q] = [bsp |-> c, part |-> q, got |-> e.got]
  BY <1>2
<1> QED BY <1>1, <1>2

LEMMA VerifiedIs ==
  ASSUME NEW e \in EuiccType, e.part \in Parts, NEW x \in SegmentType,
         NEW p \in Plaintexts \cup {Garbage}
  PROVE  /\ Verified(e, x, p) \in EuiccType
         /\ Verified(e, x, p).bsp = Taken(e.bsp, x)
         /\ Verified(e, x, p).part = e.part
         /\ Grown(e, Verified(e, x, p), e.part, p)
<1> DEFINE f == Verified(e, x, p)
<1>0. Taken(e.bsp, x) \in Instance
  BY SteppedTyped DEF EuiccType
<1>1. f = [bsp |-> Taken(e.bsp, x), part |-> e.part,
           got |-> [e.got EXCEPT ![e.part] = Append(@, p)]]
  BY <1>0, StepTaken DEF Verified
<1>2. f.got = [e.got EXCEPT ![e.part] = Append(@, p)]
  BY <1>1
<1>3. f.got \in GotType /\ Grown(e, f, e.part, p)
  <2> HIDE DEF f
  <2> QED BY <1>2, PartGrows
<1>4. f \in EuiccType
  BY <1>0, <1>1, <1>3 DEF EuiccType
<1> QED BY <1>1, <1>3, <1>4

LEMMA RaisedIs ==
  ASSUME NEW e \in EuiccType
  PROVE  Raised(e) \in EuiccType /\ Raised(e).part = "raised"
         /\ Raised(e).got = e.got
<1>1. "raised" \in PartName
  BY DEF PartName
<1> QED BY <1>1 DEF Raised, EuiccType

LEMMA ReadTyped ==
  ASSUME NEW e \in EuiccType, NEW x \in SegmentType
  PROVE  Read(e, x) \in Plaintexts \cup {Garbage}
BY DEF Read, demac_only_one, demac_and_decrypt_one, decrypt, SegmentType, DataType

\* A segment that verifies, taken by the instance of the session,
LEMMA VerifiedWithSessionKeys ==
  ASSUME NEW s \in Sessions, NEW e \in EuiccType, EuiccOk(s, e),
         NEW part \in Parts \ {"sequenceOf86"}, e.part = part,
         NEW u \in Sessions, NEW j \in 1 .. Len(Commands(u)),
         NEW x \in SegmentType, NEW seg \in SegmentType, x.tag = TagOf(part),
         seg = [x EXCEPT !.mac = Segment(u, Protector(u, Commands(u)[j]), j).mac],
         verify(e.bsp, seg)
  PROVE  EuiccOk(s, Verified(e, seg, Read(e, seg)))
<1> DEFINE n == FirstIn(e)
           z == Protector(u, Commands(u)[j])
           p == Read(e, seg)
<1>0. /\ n \in Nat /\ Before(s) \in Nat /\ n <= Before(s)
      /\ Len(Commands(s)) = Before(s) + Len(Upp[s]) /\ Len(Upp[s]) \in Nat
  BY TakenTyped, SessionFacts, CommandsAre DEF EuiccOk, PlainOk
<1>1. e.bsp = At(s, "session", n)
  BY DEF EuiccOk, BspOk
<1>2. Base(s, "session") = 0 /\ KeysOf(s, "session") = SessionKeys[s]
      /\ "session" \in InstanceName
  BY DEF Base, KeysOf, InstanceName
<1>3. z \in InstanceName /\ j > Base(u, z)
  BY ProtectorIs
<1>4. /\ seg = Segment(u, z, j) /\ KeysOf(u, z) = SessionKeys[s]
      /\ j = Base(u, z) + n + 1
      /\ Taken(e.bsp, seg) = At(u, z, n + 1)
  <2>1. verify(At(s, "session", n), seg) /\ seg = [x EXCEPT !.mac = Segment(u, z, j).mac]
    BY <1>1
  <2>2. Base(s, "session") + n <= Len(Commands(s))
    BY <1>0, <1>2
  <2> HIDE DEF z, n
  <2>3. /\ seg = Segment(u, z, j) /\ KeysOf(u, z) = KeysOf(s, "session")
        /\ j = Base(u, z) + n + 1
        /\ Taken(At(s, "session", n), seg) = At(u, z, n + 1)
    BY <1>0, <1>2, <1>3, <2>1, <2>2, SegmentVerified
  <2> QED BY <1>1, <1>2, <2>3
<1>5. Commands(u)[j].tag = TagOf(part) /\ Commands(u)[j].tag # "86"
  <2>1. seg.tag = x.tag
    BY DEF SegmentType
  <2>2. Segment(u, z, j).tag = Commands(u)[j].tag
    BY <1>3, BodyAt DEF Segment, InstanceName
  <2> QED BY <1>4, <2>1, <2>2, TagOfPart
<1>6. u = s /\ z = "session" /\ j = n + 1 /\ j <= Before(s)
  <2>1. z = Protector(u, Commands(u)[j])
    OBVIOUS
  <2> HIDE DEF z, n
  <2> QED BY <1>0, <1>4, <1>5, <2>1, NextWithSessionKeys
<1>7. p = Plain(s)[n + 1]
  <2>1. p = Commands(s)[j].plain
    <3>1. j \in 1 .. Len(Commands(s)) /\ j = Base(s, "session") + n + 1
          /\ seg = Segment(s, "session", j)
      BY <1>0, <1>2, <1>4, <1>6
    <3>2. /\ Commands(s)[j].tag = "88" =>
               demac_only_one(At(s, "session", n), Segment(s, "session", j))
                 = Commands(s)[j].plain
          /\ Commands(s)[j].tag # "88" =>
               demac_and_decrypt_one(At(s, "session", n), Segment(s, "session", j))
                 = Commands(s)[j].plain
      <4> HIDE DEF n
      <4> QED BY <1>0, <1>2, <3>1, SegmentRead
    <3>3. Commands(s)[j].tag = "88" <=> part = "sequenceOf88"
      BY <1>5, <1>6, TagOfPart
    <3> QED BY <1>1, <3>1, <3>2, <3>3 DEF Read
  <2>2. Plain(s)[j] = Commands(s)[j].plain
    BY <1>6, PlainIs
  <2> QED BY <1>6, <2>1, <2>2
<1>8. p \in Plaintexts \cup {Garbage}
  BY ReadTyped
<1>9. /\ Verified(e, seg, p).bsp = At(s, "session", n + 1)
      /\ Verified(e, seg, p).part = part
      /\ Grown(e, Verified(e, seg, p), part, p)
  <2> HIDE DEF p
  <2> QED BY <1>4, <1>6, <1>8, VerifiedIs
<1>10. n + 1 <= Before(s)
  BY <1>6
<1> HIDE DEF n, p
<1>11. ASSUME NEW f, f.part = part, Grown(e, f, part, p), f.bsp = At(s, "session", n + 1)
       PROVE  EuiccOk(s, f)
  BY <1>7, <1>10, <1>11, TakesWithSessionKeys DEF n
<1> QED BY <1>9, <1>11 DEF p

\* and one of a profile, taken by either instance.
LEMMA VerifiedOfProfile ==
  ASSUME NEW s \in Sessions, NEW e \in EuiccType, EuiccOk(s, e),
         e.part = "sequenceOf86",
         NEW u \in Sessions, NEW j \in 1 .. Len(Commands(u)),
         NEW x \in SegmentType, NEW seg \in SegmentType, x.tag = "86",
         seg = [x EXCEPT !.mac = Segment(u, Protector(u, Commands(u)[j]), j).mac],
         verify(e.bsp, seg)
  PROVE  EuiccOk(s, Verified(e, seg, Read(e, seg)))
<1> DEFINE first == FirstIn(e)
           d == TakenIn(e, "sequenceOf86")
           z == Protector(u, Commands(u)[j])
           p == Read(e, seg)
<1>0. /\ first \in Nat /\ d \in Nat /\ Before(s) \in Nat /\ first <= Before(s)
      /\ Len(Commands(s)) = Before(s) + Len(Upp[s]) /\ Len(Upp[s]) \in Nat
  BY TakenTyped, SessionFacts, CommandsAre DEF EuiccOk, PlainOk, Parts
<1>1. z \in InstanceName /\ j > Base(u, z) /\ Base(u, z) \in Nat
  BY ProtectorIs, InstanceFacts DEF InstanceName
<1>2. seg.tag = "86" /\ Segment(u, z, j).tag = Commands(u)[j].tag
  <2>1. seg.tag = x.tag
    BY DEF SegmentType
  <2>2. Segment(u, z, j).tag = Commands(u)[j].tag
    BY <1>1, BodyAt DEF Segment, InstanceName
  <2> QED BY <2>1, <2>2
\* What follows of an instance that has taken n segments.
<1>3. ASSUME NEW t \in Sessions, NEW w \in InstanceName, NEW n \in Nat,
             Base(t, w) + n <= Len(Commands(t)), e.bsp = At(t, w, n)
      PROVE  /\ KeysOf(u, z) = KeysOf(t, w) /\ j = Base(u, z) + n + 1
             /\ Chain(t, w, n) = Chain(u, z, n)
             /\ Taken(e.bsp, seg) = At(u, z, n + 1)
             /\ Commands(u)[j].tag = "86"
             /\ p = Commands(u)[j].plain
  <2>1. verify(At(t, w, n), seg) /\ seg = [x EXCEPT !.mac = Segment(u, z, j).mac]
    BY <1>3
  <2>2. /\ seg = Segment(u, z, j) /\ KeysOf(u, z) = KeysOf(t, w)
        /\ j = Base(u, z) + n + 1
        /\ Chain(t, w, n) = Chain(u, z, n)
        /\ Taken(At(t, w, n), seg) = At(u, z, n + 1)
    <3> HIDE DEF z
    <3> QED BY <1>1, <1>3, <2>1, SegmentVerified
  <2>3. Commands(u)[j].tag = "86"
    BY <1>2, <2>2
  <2>4. demac_and_decrypt_one(At(t, w, n), Segment(u, z, j)) = Commands(u)[j].plain
    <3> HIDE DEF z
    <3>1. Commands(u)[j].tag # "88" =>
            demac_and_decrypt_one(At(t, w, n), Segment(u, z, j)) = Commands(u)[j].plain
      BY <1>1, <2>2, SegmentRead
    <3> QED BY <2>3, <3>1
  <2>5. p = Commands(u)[j].plain
    BY <1>3, <2>2, <2>4 DEF Read
  <2> QED BY <1>3, <2>2, <2>3, <2>5
<1>4. p \in Plaintexts \cup {Garbage}
  BY ReadTyped
<1>5. /\ Verified(e, seg, p).bsp = Taken(e.bsp, seg)
      /\ Verified(e, seg, p).part = "sequenceOf86"
      /\ Grown(e, Verified(e, seg, p), "sequenceOf86", p)
  <2>1. e.part \in Parts
    BY DEF Parts
  <2> HIDE DEF p
  <2> QED BY <1>4, <2>1, VerifiedIs
<1>6. z = Protector(u, Commands(u)[j])
  OBVIOUS
<1>7. WithSessionKeys(s, e) \/ WithPppKeys(s, e)
  BY DEF EuiccOk, BspOk
<1> HIDE DEF z, p
<1>8. CASE WithSessionKeys(s, e)
  <2>1. /\ Base(s, "session") = 0 /\ KeysOf(s, "session") = SessionKeys[s]
        /\ "session" \in InstanceName
        /\ e.bsp = At(s, "session", first + d)
        /\ first + d \in Nat
    BY <1>0, <1>8 DEF Base, KeysOf, InstanceName, WithSessionKeys
  <2>2. Base(s, "session") + (first + d) <= Len(Commands(s))
    <3>1. CASE d > 0
      <4>1. first = Before(s) /\ PppKeys[s] = NoKeys
        BY <1>8, <3>1 DEF WithSessionKeys, WithPpp
      <4>2. PICK t \in Sessions : ProfileFits(s, e, t)
        BY <3>1 DEF EuiccOk, ProfileOk
      <4>3. d <= Len(Upp[s])
        BY <4>1, <4>2 DEF ProfileFits
      <4> QED BY <1>0, <2>1, <4>1, <4>3
    <3>2. CASE ~(d > 0)
      BY <1>0, <2>1, <3>2
    <3> QED BY <3>1, <3>2
  <2>3. /\ KeysOf(u, z) = KeysOf(s, "session") /\ j = Base(u, z) + (first + d) + 1
        /\ Chain(s, "session", first + d) = Chain(u, z, first + d)
        /\ Taken(e.bsp, seg) = At(u, z, (first + d) + 1)
        /\ Commands(u)[j].tag = "86"
        /\ p = Commands(u)[j].plain
    BY <1>3, <2>1, <2>2
  <2>4. /\ u = s /\ z = "session" /\ PppKeys[s] = NoKeys /\ first = Before(s)
        /\ d + 1 <= Len(Upp[s])
        /\ \A i \in 1 .. d : e.got["sequenceOf86"][i] = Upp[s][i]
        /\ Commands(s)[j].plain = Upp[s][d + 1]
    BY <1>6, <1>8, <2>1, <2>3, ProfileWithSessionKeys
  <2>5. p = Upp[s][d + 1]
    BY <2>3, <2>4
  <2>6. Taken(e.bsp, seg) = At(s, "session", first + d + 1)
    BY <2>3, <2>4
  <2>7. TakenIn(e, "secondSequenceOf87") = 0 /\ ~WithPpp(s)
    BY <1>8, <2>4 DEF WithSessionKeys, WithPpp
  <2>8. ASSUME NEW f, f.part = "sequenceOf86", Grown(e, f, "sequenceOf86", p),
               f.bsp = At(s, "session", first + d + 1)
        PROVE  EuiccOk(s, f)
    BY <2>4, <2>5, <2>7, <2>8, TakesProfile
  <2> QED BY <1>5, <2>6, <2>8 DEF p
<1>9. CASE WithPppKeys(s, e)
  <2>1. PICK t \in Sessions : ProfileFits(s, e, t) /\ e.bsp = At(t, "ppp", d)
    BY <1>9 DEF WithPppKeys
  <2>2. WithPpp(s) /\ first = Before(s)
    BY <1>9 DEF WithPppKeys
  <2>3. /\ KeysOf(t, "ppp") = PppKeys[t] /\ "ppp" \in InstanceName
        /\ Base(t, "ppp") + d <= Len(Commands(t))
    <3>1. d <= Len(Upp[t])
      BY <2>1 DEF ProfileFits
    <3>2. Len(Commands(t)) = Before(t) + Len(Upp[t]) /\ Before(t) \in Nat
          /\ Len(Upp[t]) \in Nat
      BY SessionFacts, CommandsAre
    <3>3. Base(t, "ppp") = Before(t)
      BY DEF Base
    <3> QED BY <1>0, <3>1, <3>2, <3>3 DEF KeysOf, InstanceName
  <2>4. /\ KeysOf(u, z) = KeysOf(t, "ppp") /\ j = Base(u, z) + d + 1
        /\ Chain(t, "ppp", d) = Chain(u, z, d)
        /\ Taken(e.bsp, seg) = At(u, z, d + 1)
        /\ Commands(u)[j].tag = "86"
        /\ p = Commands(u)[j].plain
    BY <1>0, <1>3, <2>1, <2>3
  <2>5. /\ z = "ppp" /\ PppKeys[u] = PppKeys[s] /\ PppKeys[s] # NoKeys
        /\ d + 1 <= Len(Upp[u])
        /\ \A i \in 1 .. d : e.got["sequenceOf86"][i] = Upp[u][i]
        /\ Commands(u)[j].plain = Upp[u][d + 1]
    BY <1>6, <2>1, <2>2, <2>3, <2>4, ProfileWithPppKeys
  <2>6. p = Upp[u][d + 1] /\ Taken(e.bsp, seg) = At(u, "ppp", d + 1)
    BY <2>4, <2>5
  <2>7. ASSUME NEW f, f.part = "sequenceOf86", Grown(e, f, "sequenceOf86", p),
               f.bsp = At(u, "ppp", d + 1)
        PROVE  EuiccOk(s, f)
    BY <2>2, <2>5, <2>6, <2>7, TakesProfile
  <2> QED BY <1>5, <2>6, <2>7 DEF p
<1> QED BY <1>7, <1>8, <1>9

\* Every step of the eUICC changes its state for one session, and keeps the
\* invariant there.
EuiccStep(s) ==
  /\ \E f \in EuiccType : EuiccOk(s, f) /\ euicc' = [euicc EXCEPT ![s] = f]
  /\ dp' = dp /\ bpp' = bpp

LEMMA TakeKeeps ==
  ASSUME TypeOK, SentAsPlanned, NEW s \in Sessions, EuiccOk(s, euicc[s]),
         NEW x \in Wire, NEW y \in Wire, TakeSegment(s, x, y)
  PROVE  EuiccStep(s)
<1> DEFINE e == euicc[s]
           seg == [x EXCEPT !.mac = y.mac]
<1>1. e \in EuiccType /\ e.part \in Parts /\ x.tag = TagOf(e.part)
  BY DEF TypeOK, EuiccType, PartName, GotType, TakeSegment, Decoding
<1>2. x \in SegmentType /\ y \in SegmentType
  BY WireTyped
<1>3. PICK u \in Sessions : \E j \in 1 .. Len(Commands(u)) :
        y = Segment(u, Protector(u, Commands(u)[j]), j)
  BY OnWire
<1>4. PICK j \in 1 .. Len(Commands(u)) : y = Segment(u, Protector(u, Commands(u)[j]), j)
  BY <1>3
<1>5. seg \in SegmentType
  BY <1>2 DEF SegmentType
<1>6. /\ euicc' = [euicc EXCEPT ![s] = IF verify(e.bsp, seg)
                     THEN Verified(e, seg, Read(e, seg)) ELSE Raised(e)]
      /\ dp' = dp /\ bpp' = bpp
  BY DEF TakeSegment, Verified, Raised, Read
<1>7. seg = [x EXCEPT !.mac = Segment(u, Protector(u, Commands(u)[j]), j).mac]
  BY <1>4
<1> HIDE DEF e, seg
<1>8. CASE verify(e.bsp, seg)
  <2>1. Verified(e, seg, Read(e, seg)) \in EuiccType
    BY <1>1, <1>5, ReadTyped, VerifiedIs
  <2>2. EuiccOk(s, Verified(e, seg, Read(e, seg)))
    <3>1. CASE e.part = "sequenceOf86"
      <4>1. x.tag = "86"
        BY <1>1, <3>1, TagOfPart
      <4>2. EuiccOk(s, e)
        BY DEF e
      <4> QED BY <1>1, <1>2, <1>5, <1>7, <1>8, <3>1, <4>1, <4>2, VerifiedOfProfile
    <3>2. CASE e.part # "sequenceOf86"
      <4>1. EuiccOk(s, e) /\ e.part \in Parts \ {"sequenceOf86"}
        BY <1>1, <3>2 DEF e
      <4> QED BY <1>1, <1>2, <1>5, <1>7, <1>8, <4>1, VerifiedWithSessionKeys
    <3> QED BY <3>1, <3>2
  <2> QED BY <1>6, <1>8, <2>1, <2>2 DEF EuiccStep
<1>9. CASE ~verify(e.bsp, seg)
  <2>1. Raised(e) \in EuiccType /\ Raised(e).part = "raised"
        /\ Raised(e).got = e.got
    BY <1>1, <1>5, RaisedIs
  <2>2. EuiccOk(s, Raised(e))
    <3>1. EuiccOk(s, e)
      BY DEF e
    <3> QED BY <1>1, <2>1, <3>1, EndedOk
  <2> QED BY <1>6, <1>9, <2>1, <2>2 DEF EuiccStep
<1> QED BY <1>8, <1>9

\* A part ends, with another part or with the end of the decoding.
LEMMA PartStep ==
  ASSUME TypeOK, NEW s \in Sessions, EuiccOk(s, euicc[s]),
         NEW part \in Parts, NEW decodes \in BOOLEAN, NEW next \in PartName,
         EndOfPart(s, part, decodes, next),
         NEW f, f = [bsp |-> euicc[s].bsp, part |-> IF decodes THEN next ELSE "raised",
                     got |-> euicc[s].got],
         decodes /\ next \in Parts => PartOk(f) /\ BspOk(s, f)
  PROVE  EuiccStep(s)
<1> DEFINE e == euicc[s]
<1>1. e \in EuiccType
  BY DEF TypeOK, EuiccType, PartName, GotType
<1>2. f \in EuiccType /\ f.got = e.got
  BY <1>1 DEF EuiccType, PartName
<1>3. euicc' = [euicc EXCEPT ![s] = f] /\ dp' = dp /\ bpp' = bpp
  <2>1. [e EXCEPT !.part = IF decodes THEN next ELSE "raised"] = f
    BY <1>1 DEF EuiccType
  <2>2. euicc' = [euicc EXCEPT ![s] =
                    [@ EXCEPT !.part = IF decodes THEN next ELSE "raised"]]
    BY DEF EndOfPart
  <2> QED BY <2>1, <2>2 DEF EndOfPart
<1>4. EuiccOk(s, f)
  <2>1. CASE decodes /\ next \in Parts
    BY <1>1, <1>2, <2>1, PartEnds
  <2>2. CASE ~(decodes /\ next \in Parts)
    <3>1. f.part \in {"raised", "returned"}
      BY <2>2 DEF PartName
    <3> QED BY <1>1, <1>2, <3>1, EndedOk
  <2> QED BY <2>1, <2>2
<1> QED BY <1>2, <1>3, <1>4 DEF EuiccStep

LEMMA ConfigureKeeps ==
  ASSUME TypeOK, NEW s \in Sessions, EuiccOk(s, euicc[s]), ConfigureDecodes(s)
  PROVE  EuiccStep(s)
<1> DEFINE e == euicc[s]
           decodes == e.got["firstSequenceOf87"] = <<Configure>>
           f == [bsp |-> e.bsp, part |-> IF decodes THEN "sequenceOf88" ELSE "raised",
                 got |-> e.got]
<1>1. e.part = "firstSequenceOf87" /\ decodes \in BOOLEAN
      /\ EndOfPart(s, "firstSequenceOf87", decodes, "sequenceOf88")
  BY DEF ConfigureDecodes, EndOfPart
<1>2. ASSUME decodes
      PROVE  PartOk(f) /\ BspOk(s, f)
  <2>1. /\ \A part : TakenIn(f, part) = TakenIn(e, part)
        /\ FirstIn(f) = FirstIn(e) /\ f.part = "sequenceOf88" /\ f.bsp = e.bsp
    BY <1>2 DEF TakenIn, FirstIn
  <2>2. TakenIn(e, "firstSequenceOf87") = 1
    BY <1>2 DEF TakenIn
  <2>3. TakenIn(e, "secondSequenceOf87") = 0 /\ TakenIn(e, "sequenceOf86") = 0
        /\ e.bsp = At(s, "session", FirstIn(e))
    BY <1>1 DEF EuiccOk, PartOk, BspOk, Parts
  <2> HIDE DEF f
  <2> QED BY <2>1, <2>2, <2>3 DEF PartOk, BspOk
<1>3. "firstSequenceOf87" \in Parts /\ "sequenceOf88" \in PartName
  BY DEF Parts, PartName
<1> HIDE DEF decodes
<1> QED BY <1>1, <1>2, <1>3, PartStep

LEMMA MetadataKeeps ==
  ASSUME TypeOK, NEW s \in Sessions, EuiccOk(s, euicc[s]),
         NEW next \in {"secondSequenceOf87", "sequenceOf86"}, MetadataDecodes(s, next)
  PROVE  EuiccStep(s)
<1> DEFINE e == euicc[s]
           decodes == \E t \in Sessions : e.got["sequenceOf88"] = Metadata[t]
           f == [bsp |-> e.bsp, part |-> IF decodes THEN next ELSE "raised",
                 got |-> e.got]
<1>1. e.part = "sequenceOf88" /\ decodes \in BOOLEAN
      /\ EndOfPart(s, "sequenceOf88", decodes, next)
  BY DEF MetadataDecodes, EndOfPart
<1>2. ASSUME decodes
      PROVE  PartOk(f) /\ BspOk(s, f)
  <2>1. /\ \A part : TakenIn(f, part) = TakenIn(e, part)
        /\ FirstIn(f) = FirstIn(e) /\ f.part = next /\ f.bsp = e.bsp
    BY <1>2 DEF TakenIn, FirstIn
  <2>2. TakenIn(e, "firstSequenceOf87") > 0
        /\ TakenIn(e, "secondSequenceOf87") = 0 /\ TakenIn(e, "sequenceOf86") = 0
        /\ e.bsp = At(s, "session", FirstIn(e))
    BY <1>1 DEF EuiccOk, PartOk, BspOk, Parts
  <2>3. e \in EuiccType
    BY DEF TypeOK, EuiccType, PartName, GotType
  <2>4. FirstIn(e) + TakenIn(e, "sequenceOf86") = FirstIn(e)
    BY <2>2, <2>3, TakenTyped
  <2> HIDE DEF f
  <2>5. WithSessionKeys(s, f)
    BY <2>1, <2>2, <2>4 DEF WithSessionKeys
  <2> QED BY <2>1, <2>2, <2>5 DEF PartOk, BspOk
<1>3. "sequenceOf88" \in Parts /\ next \in PartName
  BY DEF Parts, PartName
<1> HIDE DEF decodes
<1> QED BY <1>1, <1>2, <1>3, PartStep

LEMMA RefusalKeeps ==
  ASSUME TypeOK, NEW s \in Sessions, EuiccOk(s, euicc[s]),
         KeysNotReplaced(s) \/ ProfileReturned(s)
  PROVE  EuiccStep(s)
<1>1. "secondSequenceOf87" \in Parts /\ "sequenceOf86" \in Parts
      /\ "raised" \in PartName \ Parts /\ "returned" \in PartName \ Parts
  BY DEF Parts, PartName
<1>2. CASE KeysNotReplaced(s)
  <2>1. EndOfPart(s, "secondSequenceOf87", FALSE, "raised")
    BY <1>2 DEF KeysNotReplaced
  <2> QED BY <1>1, <2>1, PartStep
<1>3. CASE ProfileReturned(s)
  <2>1. EndOfPart(s, "sequenceOf86", TRUE, "returned")
    BY <1>3 DEF ProfileReturned
  <2> QED BY <1>1, <2>1, PartStep
<1> QED BY <1>2, <1>3

LEMMA ReplacedKeeps ==
  ASSUME TypeOK, NEW s \in Sessions, EuiccOk(s, euicc[s]), KeysReplaced(s)
  PROVE  EuiccStep(s)
<1> DEFINE e == euicc[s]
           a == TakenIn(e, "firstSequenceOf87")
           b == TakenIn(e, "sequenceOf88")
<1>1. PICK k \in KeySets :
        /\ e.part = "secondSequenceOf87"
        /\ e.got["secondSequenceOf87"] = <<ReplaceSessionKeysRequest(k)>>
        /\ euicc' = [euicc EXCEPT ![s].part = "sequenceOf86",
                                  ![s].bsp = ReplacedInstance(euicc[s].bsp, k)]
        /\ dp' = dp /\ bpp' = bpp
  BY DEF KeysReplaced
<1>2. e \in EuiccType
  BY DEF TypeOK, EuiccType, PartName, GotType
<1>3. BspInstance(k) \in Instance /\ ReplacedInstance(e.bsp, k) = BspInstance(k)
  BY InstanceTyped DEF ReplacedInstance
<1> DEFINE f == [bsp |-> BspInstance(k), part |-> "sequenceOf86", got |-> e.got]
<1>4. f \in EuiccType
  BY <1>2, <1>3 DEF EuiccType, PartName, Parts
<1>5. euicc' = [euicc EXCEPT ![s] = f]
  <2>1. [e EXCEPT !.bsp = BspInstance(k), !.part = "sequenceOf86"] = f
    BY <1>2, <1>3, BspAndPart
  <2>2. [e EXCEPT !.part = "sequenceOf86", !.bsp = BspInstance(k)] = f
    <3>1. [e EXCEPT !.part = "sequenceOf86"] =
            [bsp |-> e.bsp, part |-> "sequenceOf86", got |-> e.got]
      BY <1>2 DEF EuiccType
    <3>2. ASSUME NEW h, h = [bsp |-> e.bsp, part |-> "sequenceOf86", got |-> e.got]
          PROVE  [h EXCEPT !.bsp = BspInstance(k)] = f
      BY <3>2
    <3> QED BY <3>1, <3>2
  <2>3. euicc' = [euicc EXCEPT ![s] =
                    [@ EXCEPT !.part = "sequenceOf86", !.bsp = BspInstance(k)]]
    BY <1>1, <1>3
  <2> QED BY <2>2, <2>3
<1>6. /\ TakenIn(e, "secondSequenceOf87") = 1 /\ a > 0 /\ a \in Nat /\ b \in Nat
      /\ TakenIn(e, "sequenceOf86") = 0
      /\ FirstIn(e) = a + b + 1 /\ FirstIn(e) <= Before(s) /\ Before(s) \in Nat
  <2>1. TakenIn(e, "secondSequenceOf87") = 1
    BY <1>1 DEF TakenIn
  <2>2. a > 0 /\ TakenIn(e, "sequenceOf86") = 0
    BY <1>1 DEF EuiccOk, PartOk
  <2>3. a \in Nat /\ b \in Nat
    BY <1>2, TakenTyped DEF Parts
  <2>4. FirstIn(e) <= Before(s)
    BY DEF EuiccOk, PlainOk
  <2> QED BY <2>1, <2>2, <2>3, <2>4, SessionFacts DEF FirstIn
<1>7. Plain(s)[a + b + 1] = ReplaceSessionKeysRequest(k)
  <2>1. e.got["secondSequenceOf87"][1] = Plain(s)[a + b + 1]
    BY <1>6 DEF EuiccOk, PlainOk
  <2> QED BY <1>1, <2>1
<1>8. WithPpp(s) /\ FirstIn(e) = Before(s) /\ k = PppKeys[s]
  <2>1. a + b + 1 \in 1 .. Len(Commands(s))
    <3>1. Len(Commands(s)) = Before(s) + Len(Upp[s]) /\ Len(Upp[s]) \in Nat
      BY SessionFacts, CommandsAre
    <3> QED BY <1>6, <3>1
  <2>2. Commands(s)[a + b + 1].plain = ReplaceSessionKeysRequest(k)
    BY <1>7, <2>1, PlainIs
  <2>3. WithPpp(s) /\ a + b + 1 = Before(s) /\ k = PppKeys[s]
    BY <2>1, <2>2, ReplacesAt
  <2> QED BY <1>6, <2>3
<1>9. BspInstance(k) = At(s, "ppp", 0)
  <2>1. Chain(s, "ppp", 0) = <<>>
    <3>1. Base(s, "ppp") + 0 <= Len(Commands(s))
      <4>1. Len(Commands(s)) = Before(s) + Len(Upp[s]) /\ Len(Upp[s]) \in Nat
        BY SessionFacts, CommandsAre
      <4> QED BY <1>6, <4>1 DEF Base
    <3>2. Chain(s, "ppp", 0) \in Seq(BodyType) /\ Len(Chain(s, "ppp", 0)) = 0
      BY <3>1, ChainIs
    <3> QED BY <3>2, EmptySeq
  <2> QED BY <1>8, <2>1 DEF BspInstance, At, KeysOf
<1>10. /\ \A part : TakenIn(f, part) = TakenIn(e, part)
       /\ FirstIn(f) = FirstIn(e) /\ f.part = "sequenceOf86" /\ f.got = e.got
       /\ f.bsp = At(s, "ppp", 0)
  BY <1>9 DEF TakenIn, FirstIn
<1> HIDE DEF f
<1>11. ProfileFits(s, f, s)
  BY <1>6, <1>10, SessionFacts DEF ProfileFits
<1>12. WithPppKeys(s, f)
  BY <1>6, <1>8, <1>10, <1>11 DEF WithPppKeys
<1>13. PartOk(f) /\ BspOk(s, f)
  BY <1>6, <1>10, <1>12 DEF PartOk, BspOk
<1>14. EuiccOk(s, f)
  BY <1>2, <1>4, <1>10, <1>13, PartEnds
<1> QED BY <1>1, <1>4, <1>5, <1>14 DEF EuiccStep

\* A step of the eUICC keeps the invariant.
LEMMA EuiccStepKeeps ==
  ASSUME IInv, NEW s \in Sessions, EuiccStep(s)
  PROVE  IInv'
<1>1. PICK f \in EuiccType : EuiccOk(s, f) /\ euicc' = [euicc EXCEPT ![s] = f]
  BY DEF EuiccStep
<1>2. dp' = dp /\ bpp' = bpp
  BY DEF EuiccStep
<1>3. TypeOK'
  <2>1. euicc' \in [Sessions -> EuiccType]
    BY <1>1 DEF IInv, TypeOK, EuiccType, PartName, GotType
  <2> QED BY <1>2, <2>1 DEF IInv, TypeOK, EuiccType, PartName, GotType
<1>4. SentAsPlanned'
  BY <1>2 DEF IInv, SentAsPlanned
<1>5. ASSUME NEW r \in Sessions
      PROVE  PartsInOrder(r)' /\ ProfileInOrder(r)' /\ ReceiverAt(r)'
  <2>1. euicc'[r] = IF r = s THEN f ELSE euicc[r]
    BY <1>1 DEF IInv, TypeOK
  <2>2. EuiccOk(r, euicc[r])
    BY EuiccIs DEF IInv
  <2>3. EuiccOk(r, euicc'[r])
    BY <1>1, <2>1, <2>2
  <2> QED BY <2>3, EuiccIs
<1> QED BY <1>3, <1>4, <1>5 DEF IInv

LEMMA InitInvariant == Init => IInv
<1> SUFFICES ASSUME Init PROVE IInv
  OBVIOUS
<1>1. TypeOK
  BY InitTyped
<1>2. ASSUME NEW s \in Sessions, NEW w \in InstanceName
      PROVE  BspInstance(KeysOf(s, w)) = At(s, w, 0)
  <2>1. Base(s, w) + 0 <= Len(Commands(s))
    <3>1. Len(Commands(s)) = Before(s) + Len(Upp[s]) /\ Len(Upp[s]) \in Nat
          /\ Before(s) \in Nat
      BY SessionFacts, CommandsAre
    <3> QED BY <3>1 DEF Base
  <2>2. Chain(s, w, 0) \in Seq(BodyType) /\ Len(Chain(s, w, 0)) = 0
    BY <2>1, ChainIs DEF InstanceName
  <2>3. Chain(s, w, 0) = <<>>
    BY <2>2, EmptySeq
  <2> QED BY <2>3 DEF BspInstance, At
<1>3. SentAsPlanned
  <2>1. ASSUME NEW s \in Sessions
        PROVE  SentBySession(s, bpp[s], dp[s])
    <3>1. bpp[s] = <<>> /\ Len(bpp[s]) = 0
      BY DEF Init
    <3>2. dp[s] = [w \in InstanceName |-> BspInstance(KeysOf(s, w))]
      BY DEF Init, InstanceName, KeysOf
    <3>3. ASSUME NEW w \in InstanceName
          PROVE  SentBy(s, w, 0) = 0
      BY SessionFacts DEF SentBy, PppOf
    <3>4. dp[s] = [w \in InstanceName |-> At(s, w, SentBy(s, w, 0))]
      BY <1>2, <3>2, <3>3
    <3>5. Len(Commands(s)) \in Nat
      BY CommandsAre, LenProperties
    <3> QED BY <3>1, <3>4, <3>5 DEF SentBySession
  <2> QED BY <2>1, SentIs
<1>4. ASSUME NEW s \in Sessions
      PROVE  EuiccOk(s, euicc[s])
  <2> DEFINE e == euicc[s]
  <2>1. /\ e.bsp = BspInstance(SessionKeys[s]) /\ e.part = "firstSequenceOf87"
        /\ \A part \in Parts : e.got[part] = <<>>
    BY DEF Init
  <2>2. \A part \in Parts : TakenIn(e, part) = 0
    BY <2>1 DEF TakenIn
  <2> HIDE DEF e
  <2>3. /\ TakenIn(e, "firstSequenceOf87") = 0 /\ TakenIn(e, "sequenceOf88") = 0
        /\ TakenIn(e, "secondSequenceOf87") = 0 /\ TakenIn(e, "sequenceOf86") = 0
        /\ FirstIn(e) = 0
    BY <2>2 DEF Parts, FirstIn
  <2>4. PlainOk(s, e)
    BY <2>3, SessionFacts DEF PlainOk
  <2>5. PartOk(e) /\ ProfileOk(s, e)
    BY <2>1, <2>3 DEF PartOk, ProfileOk
  <2>6. e.bsp = At(s, "session", FirstIn(e))
    BY <1>2, <2>1, <2>3 DEF KeysOf, InstanceName
  <2>7. BspOk(s, e)
    BY <2>1, <2>6 DEF BspOk
  <2> QED BY <2>4, <2>5, <2>7 DEF EuiccOk, e
<1> QED BY <1>1, <1>3, <1>4, EuiccIs DEF IInv

LEMMA NextInvariant == IInv /\ [Next]_vars => IInv'
<1> SUFFICES ASSUME IInv, [Next]_vars PROVE IInv'
  OBVIOUS
<1>1. TypeOK /\ SentAsPlanned /\ \A s \in Sessions : EuiccOk(s, euicc[s])
  BY EuiccIs DEF IInv
<1>2. ASSUME NEW s \in Sessions, encode(s)
      PROVE  IInv'
  <2>1. TypeOK' /\ SentAsPlanned'
    BY <1>1, <1>2, EncodeKeeps
  <2>2. euicc' = euicc
    BY <1>2 DEF encode
  <2>3. ASSUME NEW r \in Sessions
        PROVE  PartsInOrder(r)' /\ ProfileInOrder(r)' /\ ReceiverAt(r)'
    <3>1. EuiccOk(r, euicc'[r])
      BY <1>1, <2>2
    <3> QED BY <3>1, EuiccIs
  <2> QED BY <2>1, <2>3 DEF IInv
<1>3. ASSUME NEW s \in Sessions, NEW x \in Wire, NEW y \in Wire, TakeSegment(s, x, y)
      PROVE  IInv'
  <2>1. EuiccStep(s)
    BY <1>1, <1>3, TakeKeeps
  <2> QED BY <2>1, EuiccStepKeeps
<1>4. ASSUME NEW s \in Sessions, ConfigureDecodes(s)
      PROVE  IInv'
  BY <1>1, <1>4, ConfigureKeeps, EuiccStepKeeps
<1>5. ASSUME NEW s \in Sessions, NEW next \in {"secondSequenceOf87", "sequenceOf86"},
             MetadataDecodes(s, next)
      PROVE  IInv'
  <2>1. EuiccStep(s)
    BY <1>1, <1>5, MetadataKeeps
  <2> QED BY <2>1, EuiccStepKeeps
<1>6. ASSUME NEW s \in Sessions, KeysReplaced(s)
      PROVE  IInv'
  BY <1>1, <1>6, ReplacedKeeps, EuiccStepKeeps
<1>7. ASSUME NEW s \in Sessions, KeysNotReplaced(s) \/ ProfileReturned(s)
      PROVE  IInv'
  BY <1>1, <1>7, RefusalKeeps, EuiccStepKeeps
<1>8. CASE UNCHANGED vars
  <2>1. euicc' = euicc /\ dp' = dp /\ bpp' = bpp
    BY <1>8 DEF vars
  <2>2. TypeOK' /\ SentAsPlanned'
    BY <1>1, <2>1 DEF TypeOK, SentAsPlanned
  <2>3. ASSUME NEW r \in Sessions
        PROVE  PartsInOrder(r)' /\ ProfileInOrder(r)' /\ ReceiverAt(r)'
    <3>1. EuiccOk(r, euicc'[r])
      BY <1>1, <2>1
    <3> QED BY <3>1, EuiccIs
  <2> QED BY <2>2, <2>3 DEF IInv
<1> QED BY <1>2, <1>3, <1>4, <1>5, <1>6, <1>7, <1>8 DEF Next

\* Through every behaviour, both ends are in the closed form: the SM-DP+ has
\* protected the commands of encode in their order, the eUICC has taken some
\* first ones of them, and its instance is the SM-DP+'s after as many.
THEOREM ClosedForm == Spec => []IInv
<1>1. Init => IInv
  BY InitInvariant
<1>2. IInv /\ [Next]_vars => IInv'
  BY NextInvariant
<1> QED BY <1>1, <1>2, PTL DEF Spec

-----------------------------------------------------------------------------
(* What follows from it *)

LEMMA StartIs ==
  ASSUME NEW S, NEW q \in Seq(S), NEW r \in Seq(S), Len(q) <= Len(r),
         \A i \in 1 .. Len(q) : q[i] = r[i]
  PROVE  StartOf(q, r)
<1> DEFINE n == Len(q)
           t == SubSeq(r, 1, n)
<1>1. n \in Nat /\ Len(r) \in Nat
  OBVIOUS
<1>2. t \in Seq(S) /\ Len(t) = n /\ \A i \in 1 .. n : t[i] = r[i]
  <2>1. \A i \in 1 .. n : r[i] \in S
    BY <1>1, ElementOfSeq
  <2>2. /\ t \in Seq(S)
        /\ Len(t) = IF 1 <= n THEN n - 1 + 1 ELSE 0
        /\ \A i \in 1 .. n - 1 + 1 : t[i] = r[1 + i - 1]
    <3> HIDE DEF n
    <3> QED BY <1>1, <2>1, SubSeqProperties
  <2> HIDE DEF t
  <2> QED BY <1>1, <2>2
<1>3. q = t
  <2> HIDE DEF t
  <2> QED BY <1>2, SeqEqual
<1> QED BY <1>3 DEF StartOf

\* What was taken with the session keys, as one sequence.
LEMMA TakenFirstIs ==
  ASSUME TypeOK, NEW s \in Sessions, PlainOk(s, euicc[s])
  PROVE  /\ Plain(s) \in Seq(Plaintexts \cup {Garbage})
         /\ Len(Plain(s)) = Len(Commands(s))
         /\ TakenFirst(s) \in Seq(Plaintexts \cup {Garbage})
         /\ Len(TakenFirst(s)) = FirstIn(euicc[s])
         /\ \A i \in 1 .. FirstIn(euicc[s]) : TakenFirst(s)[i] = Plain(s)[i]
<1> DEFINE e == euicc[s]
           S == Plaintexts \cup {Garbage}
           a == e.got["firstSequenceOf87"]
           b == e.got["sequenceOf88"]
           c == e.got["secondSequenceOf87"]
           q == (a \o b) \o c
<1>1. a \in Seq(S) /\ b \in Seq(S) /\ c \in Seq(S)
  BY DEF TypeOK, Parts
<1>2. Plain(s) \in Seq(S) /\ Len(Plain(s)) = Len(Commands(s))
  <2>1. ASSUME NEW i \in 1 .. Len(Commands(s))
        PROVE  Commands(s)[i].plain \in S
    BY Places DEF CommandType
  <2>2. Plain(s) \in [1 .. Len(Commands(s)) -> S]
    BY <2>1 DEF Plain
  <2>3. Len(Commands(s)) \in Nat
    BY CommandsAre, LenProperties
  <2> QED BY <2>2, <2>3, FunctionIsSeq
<1>3. /\ Len(a) = TakenIn(e, "firstSequenceOf87") /\ Len(b) = TakenIn(e, "sequenceOf88")
      /\ Len(c) = TakenIn(e, "secondSequenceOf87") /\ FirstIn(e) = Len(a) + Len(b) + Len(c)
  BY DEF TakenIn, FirstIn
<1>4. /\ \A i \in 1 .. Len(a) : a[i] = Plain(s)[i]
      /\ \A i \in 1 .. Len(b) : b[i] = Plain(s)[Len(a) + i]
      /\ \A i \in 1 .. Len(c) : c[i] = Plain(s)[Len(a) + Len(b) + i]
  BY <1>3 DEF PlainOk
<1>5. TakenFirst(s) = q
  BY DEF TakenFirst
<1> HIDE DEF a, b, c, S, e
<1>6. /\ a \o b \in Seq(S) /\ Len(a \o b) = Len(a) + Len(b)
      /\ \A i \in 1 .. Len(a) : (a \o b)[i] = a[i]
      /\ \A i \in 1 .. Len(b) : (a \o b)[Len(a) + i] = b[i]
  BY <1>1, ConcatElements
<1>7. /\ q \in Seq(S) /\ Len(q) = Len(a \o b) + Len(c)
      /\ \A i \in 1 .. Len(a \o b) : q[i] = (a \o b)[i]
      /\ \A i \in 1 .. Len(c) : q[Len(a \o b) + i] = c[i]
  BY <1>1, <1>6, ConcatElements
<1> DEFINE ab == a \o b
<1> HIDE DEF q, ab
<1>8. Len(a) \in Nat /\ Len(b) \in Nat /\ Len(c) \in Nat
  BY <1>1, LenProperties
<1>9. ASSUME NEW i \in 1 .. Len(a) + Len(b) + Len(c)
      PROVE  q[i] = Plain(s)[i]
  <2>1. CASE i <= Len(a)
    <3>1. i \in 1 .. Len(a) /\ i \in 1 .. Len(a \o b)
      BY <1>6, <1>8, <2>1
    <3> QED BY <1>4, <1>6, <1>7, <3>1
  <2>2. CASE i > Len(a) /\ i <= Len(a) + Len(b)
    <3>1. i - Len(a) \in 1 .. Len(b) /\ i \in 1 .. Len(a \o b) /\ Len(a) + (i - Len(a)) = i
      BY <1>6, <1>8, <2>2
    <3>2. q[i] = (a \o b)[i]
      BY <1>7, <3>1
    <3>3. (a \o b)[Len(a) + (i - Len(a))] = b[i - Len(a)]
      BY <1>6, <3>1
    <3>4. b[i - Len(a)] = Plain(s)[Len(a) + (i - Len(a))]
      BY <1>4, <3>1
    <3> QED BY <3>1, <3>2, <3>3, <3>4
  <2>3. CASE i > Len(a) + Len(b)
    <3> DEFINE k == i - (Len(a) + Len(b))
    <3>1. k \in 1 .. Len(c) /\ Len(a) + Len(b) + k = i
      BY <1>8, <2>3
    <3> HIDE DEF k
    <3>2. q[Len(a) + Len(b) + k] = c[k]
      BY <1>6, <1>7, <3>1
    <3>3. c[k] = Plain(s)[Len(a) + Len(b) + k]
      BY <1>4, <3>1
    <3> QED BY <3>1, <3>2, <3>3
  <2> QED BY <1>8, <2>1, <2>2, <2>3
<1>10. Len(q) = Len(a) + Len(b) + Len(c)
  BY <1>6, <1>7
<1> QED BY <1>2, <1>3, <1>5, <1>7, <1>9, <1>10 DEF S, e

LEMMA InvariantTakenInOrder == IInv => TakenInOrder
<1> SUFFICES ASSUME IInv, NEW s \in Sessions
             PROVE  /\ StartOf(TakenFirst(s), Plain(s))
                    /\ euicc[s].got["sequenceOf86"] # <<>> =>
                         \E t \in Sessions :
                           /\ StartOf(euicc[s].got["sequenceOf86"], Upp[t])
                           /\ PppKeys[t] = PppKeys[s]
                           /\ PppKeys[s] = NoKeys => t = s
  BY DEF TakenInOrder
<1> DEFINE e == euicc[s]
           S == Plaintexts \cup {Garbage}
<1>1. TypeOK /\ EuiccOk(s, e)
  BY EuiccIs DEF IInv
<1>2. StartOf(TakenFirst(s), Plain(s))
  <2>1. /\ Plain(s) \in Seq(S) /\ Len(Plain(s)) = Len(Commands(s))
        /\ TakenFirst(s) \in Seq(S) /\ Len(TakenFirst(s)) = FirstIn(e)
        /\ \A i \in 1 .. FirstIn(e) : TakenFirst(s)[i] = Plain(s)[i]
    BY <1>1, TakenFirstIs DEF EuiccOk
  <2>2. FirstIn(e) <= Len(Commands(s))
    <3>1. FirstIn(e) <= Before(s) /\ FirstIn(e) \in Nat
      <4>1. e \in EuiccType
        BY <1>1 DEF TypeOK, EuiccType, PartName, GotType
      <4> QED BY <1>1, <4>1, TakenTyped DEF EuiccOk, PlainOk
    <3>2. Len(Commands(s)) = Before(s) + Len(Upp[s]) /\ Len(Upp[s]) \in Nat
          /\ Before(s) \in Nat
      BY SessionFacts, CommandsAre
    <3> QED BY <3>1, <3>2
  <2> HIDE DEF S, e
  <2> QED BY <2>1, <2>2, StartIs
<1>3. ASSUME e.got["sequenceOf86"] # <<>>
      PROVE  \E t \in Sessions :
               /\ StartOf(e.got["sequenceOf86"], Upp[t])
               /\ PppKeys[t] = PppKeys[s]
               /\ PppKeys[s] = NoKeys => t = s
  <2> DEFINE g == e.got["sequenceOf86"]
  <2>1. g \in Seq(S)
    BY <1>1 DEF TypeOK, Parts
  <2>2. TakenIn(e, "sequenceOf86") = Len(g) /\ Len(g) > 0
    <3>1. Len(g) \in Nat /\ Len(g) # 0
      BY <1>3, <2>1, EmptySeq, LenProperties
    <3> QED BY <3>1 DEF TakenIn
  <2>3. PICK t \in Sessions : ProfileFits(s, e, t)
    BY <1>1, <2>2 DEF EuiccOk, ProfileOk
  <2>4. Len(g) <= Len(Upp[t]) /\ \A i \in 1 .. Len(g) : g[i] = Upp[t][i]
    BY <2>2, <2>3 DEF ProfileFits
  <2>5. Upp[t] \in Seq(S)
    <3>1. Upp[t] \in Seq(Contents) /\ Contents \subseteq S
      BY SessionFacts DEF Plaintexts
    <3> HIDE DEF S
    <3> QED BY <3>1
  <2>6. StartOf(g, Upp[t])
    <3> HIDE DEF g, S
    <3> QED BY <2>1, <2>4, <2>5, StartIs
  <2> QED BY <2>3, <2>6 DEF ProfileFits
<1> QED BY <1>2, <1>3

\* What the eUICC has taken is what the SM-DP+ has sent, in order and from
\* the beginning, and the profile is of a PPP with the keys installed.
THEOREM TakenAsSent == Spec => []TakenInOrder
BY ClosedForm, InvariantTakenInOrder, PTL

\* The segment an instance makes next is the one an equal instance verifies.
LEMMA NextVerifies ==
  ASSUME NEW t \in Sessions, NEW w \in InstanceName, NEW n \in Nat,
         NEW j \in 1 .. Len(Commands(t)), j = Base(t, w) + n + 1
  PROVE  verify(At(t, w, n), Segment(t, w, j))
<1>1. Base(t, w) \in Nat /\ j - Base(t, w) = n + 1
  BY InstanceFacts DEF InstanceName
<1>2. Append(Chain(t, w, n), Body(t, w, j)) = Chain(t, w, n + 1)
  <2>1. Base(t, w) + n + 1 <= Len(Commands(t))
    BY CommandsAre, LenProperties
  <2> QED BY <2>1, ChainNext DEF InstanceName
<1> DEFINE f == Body(t, w, j)
<1>3. [tag |-> f.tag, data |-> f.data] = f
  BY DEF Body
<1>4. Segment(t, w, j) = [tag |-> f.tag, data |-> f.data,
                          mac |-> [s_mac |-> KeysOf(t, w), over |-> Chain(t, w, n + 1)]]
  BY <1>1 DEF Segment
<1> HIDE DEF f
<1>5. Segment(t, w, j).tag = f.tag /\ Segment(t, w, j).data = f.data
      /\ Segment(t, w, j).mac = [s_mac |-> KeysOf(t, w), over |-> Chain(t, w, n + 1)]
  BY <1>4
<1>6. auth(At(t, w, n), f.tag, f.data).mac =
        [s_mac |-> KeysOf(t, w),
         over |-> Append(Chain(t, w, n), [tag |-> f.tag, data |-> f.data])]
  BY DEF auth, At
<1>7. Append(Chain(t, w, n), [tag |-> f.tag, data |-> f.data]) = Chain(t, w, n + 1)
  BY <1>2, <1>3 DEF f
<1> QED BY <1>5, <1>6, <1>7 DEF verify

\* The chaining values of two PPPs with the same profile up to there.
LEMMA SameChain ==
  ASSUME NEW s \in Sessions, NEW t \in Sessions, NEW d \in Nat,
         d <= Len(Upp[s]), d <= Len(Upp[t]), PppKeys[t] = PppKeys[s],
         \A i \in 1 .. d : Upp[t][i] = Upp[s][i]
  PROVE  At(t, "ppp", d) = At(s, "ppp", d)
<1>1. ASSUME NEW v \in Sessions, d <= Len(Upp[v]), NEW i \in 1 .. d
      PROVE  Body(v, "ppp", Base(v, "ppp") + i) =
               [tag |-> "86",
                data |-> [s_enc |-> PppKeys[v], icv |-> i, plain |-> Upp[v][i]]]
  <2>1. /\ Before(v) \in Nat /\ Len(Upp[v]) \in Nat
        /\ Len(Commands(v)) = Before(v) + Len(Upp[v])
    BY SessionFacts, CommandsAre
  <2>2. Base(v, "ppp") = Before(v) /\ KeysOf(v, "ppp") = PppKeys[v]
    BY DEF Base, KeysOf
  <2>3. i \in 1 .. Len(Upp[v])
    BY <1>1, <2>1
  <2>4. Commands(v)[Before(v) + i] = Command("86", Upp[v][i])
    BY <2>3, CommandsAre
  <2>5. (Before(v) + i) - Before(v) = i
    BY <2>1
  <2> QED BY <2>2, <2>4, <2>5 DEF Body, Command
<1>2. ASSUME NEW i \in 1 .. d
      PROVE  Body(t, "ppp", Base(t, "ppp") + i) = Body(s, "ppp", Base(s, "ppp") + i)
  <2>1. Body(t, "ppp", Base(t, "ppp") + i) =
          [tag |-> "86", data |-> [s_enc |-> PppKeys[t], icv |-> i, plain |-> Upp[t][i]]]
    BY <1>1
  <2>2. Body(s, "ppp", Base(s, "ppp") + i) =
          [tag |-> "86", data |-> [s_enc |-> PppKeys[s], icv |-> i, plain |-> Upp[s][i]]]
    BY <1>1
  <2> QED BY <2>1, <2>2
<1>3. Chain(t, "ppp", d) = Chain(s, "ppp", d)
  BY <1>2 DEF Chain
<1> QED BY <1>3 DEF At, KeysOf

LEMMA InvariantInStep == IInv => InStep
<1> SUFFICES
      ASSUME IInv, NEW s \in Sessions,
             Encoded(s) /\ Decoding(s),
             NEW n, n = Len(TakenFirst(s)) + Len(euicc[s].got["sequenceOf86"]),
             n < Len(bpp[s]), Commands(s)[n + 1].tag = TagOf(euicc[s].part),
             TakenFirst(s) \o euicc[s].got["sequenceOf86"] = SubSeq(Plain(s), 1, n),
             euicc[s].part = "sequenceOf86" /\ WithPpp(s) =>
               euicc[s].got["secondSequenceOf87"] # <<>>
      PROVE  /\ verify(euicc[s].bsp, bpp[s][n + 1])
             /\ IF euicc[s].part = "sequenceOf88"
                  THEN demac_only_one(euicc[s].bsp, bpp[s][n + 1]) = Plain(s)[n + 1]
                  ELSE demac_and_decrypt_one(euicc[s].bsp, bpp[s][n + 1]) = Plain(s)[n + 1]
  BY DEF InStep
<1> DEFINE e == euicc[s]
           S == Plaintexts \cup {Garbage}
           first == FirstIn(e)
           d == TakenIn(e, "sequenceOf86")
           j == n + 1
           z == Protector(s, Commands(s)[j])
<1>1. TypeOK /\ SentAsPlanned /\ EuiccOk(s, e) /\ e \in EuiccType /\ e.part \in Parts
  BY EuiccIs DEF IInv, TypeOK, EuiccType, PartName, GotType, Decoding
<1>2. /\ Plain(s) \in Seq(S) /\ Len(Plain(s)) = Len(Commands(s))
      /\ TakenFirst(s) \in Seq(S) /\ Len(TakenFirst(s)) = first
  BY <1>1, TakenFirstIs DEF EuiccOk
<1>3. /\ first \in Nat /\ d \in Nat /\ n = first + d /\ n \in Nat
      /\ first <= Before(s) /\ Before(s) \in Nat /\ Len(Upp[s]) \in Nat
      /\ Len(Commands(s)) = Before(s) + Len(Upp[s])
  <2>1. first \in Nat /\ d \in Nat
    BY <1>1, TakenTyped DEF Parts
  <2>2. n = first + d
    BY <1>2 DEF TakenIn
  <2> QED BY <1>1, <2>1, <2>2, SessionFacts, CommandsAre DEF EuiccOk, PlainOk
<1>4. j \in 1 .. Len(Commands(s)) /\ bpp[s][j] = Segment(s, z, j)
  <2>1. SentBySession(s, bpp[s], dp[s])
    BY <1>1, SentIs
  <2>2. Len(bpp[s]) = Len(Commands(s))
    BY DEF Encoded
  <2>3. j \in 1 .. Len(bpp[s]) /\ j \in 1 .. Len(Commands(s))
    <3>1. \A a, b \in Nat : a < b => a + 1 \in 1 .. b
      OBVIOUS
    <3>2. n \in Nat /\ Len(bpp[s]) \in Nat /\ n < Len(bpp[s])
      BY <1>3, <2>2
    <3>3. j \in 1 .. Len(bpp[s])
      BY <3>1, <3>2
    <3> QED BY <2>2, <3>3
  <2>4. \A i \in 1 .. Len(bpp[s]) : bpp[s][i] = Segment(s, Protector(s, Commands(s)[i]), i)
    BY <2>1 DEF SentBySession
  <2> HIDE DEF j
  <2>5. bpp[s][j] = Segment(s, Protector(s, Commands(s)[j]), j)
    BY <2>3, <2>4
  <2> QED BY <2>3, <2>5
<1>5. /\ z \in InstanceName
      /\ z = "ppp" <=> Commands(s)[j].tag = "86" /\ WithPpp(s)
      /\ Commands(s)[j].tag = "86" <=> j > Before(s)
  BY <1>4, ProtectorIs
<1>6. Plain(s)[j] = Commands(s)[j].plain
  BY <1>4, PlainIs
<1>7. /\ Commands(s)[j].tag = "88" <=> e.part = "sequenceOf88"
      /\ Commands(s)[j].tag = "86" <=> e.part = "sequenceOf86"
  BY <1>1, TagOfPart
\* It is enough that the eUICC's instance is where the SM-DP+'s was.
<1>8. ASSUME NEW m \in Nat, e.bsp = At(s, z, m), j = Base(s, z) + m + 1
      PROVE  /\ verify(e.bsp, bpp[s][j])
             /\ IF e.part = "sequenceOf88"
                  THEN demac_only_one(e.bsp, bpp[s][j]) = Plain(s)[j]
                  ELSE demac_and_decrypt_one(e.bsp, bpp[s][j]) = Plain(s)[j]
  <2> HIDE DEF z, j
  <2>1. verify(At(s, z, m), Segment(s, z, j))
    BY <1>4, <1>5, <1>8, NextVerifies
  <2>2. /\ Commands(s)[j].tag = "88" =>
             demac_only_one(At(s, z, m), Segment(s, z, j)) = Commands(s)[j].plain
        /\ Commands(s)[j].tag # "88" =>
             demac_and_decrypt_one(At(s, z, m), Segment(s, z, j)) = Commands(s)[j].plain
    BY <1>4, <1>5, <1>8, SegmentRead
  <2> QED BY <1>4, <1>6, <1>7, <1>8, <2>1, <2>2
<1>9. CASE e.part # "sequenceOf86"
  <2>1. z = "session" /\ Base(s, z) = 0
    BY <1>5, <1>7, <1>9 DEF InstanceName, Base
  <2>2. e.bsp = At(s, "session", first) /\ d = 0
    BY <1>1, <1>9 DEF EuiccOk, BspOk, PartOk, Parts
  <2>3. e.bsp = At(s, z, n) /\ j = Base(s, z) + n + 1
    BY <1>3, <2>1, <2>2
  <2> QED BY <1>3, <1>8, <2>3
<1>10. CASE e.part = "sequenceOf86" /\ WithSessionKeys(s, e)
  <2>1. ~WithPpp(s)
    <3>1. e.got["secondSequenceOf87"] = <<>>
      <4>1. e.got["secondSequenceOf87"] \in Seq(S)
        BY <1>1 DEF EuiccType, GotType, Parts
      <4>2. Len(e.got["secondSequenceOf87"]) = 0
        BY <1>10 DEF WithSessionKeys, TakenIn
      <4> QED BY <4>1, <4>2, EmptySeq
    <3> QED BY <1>10, <3>1
  <2>2. z = "session" /\ Base(s, z) = 0
    BY <1>5, <2>1 DEF InstanceName, Base
  <2>3. e.bsp = At(s, z, n) /\ j = Base(s, z) + n + 1
    BY <1>3, <1>10, <2>2 DEF WithSessionKeys
  <2> QED BY <1>3, <1>8, <2>3
<1>11. CASE e.part = "sequenceOf86" /\ WithPppKeys(s, e)
  <2>1. WithPpp(s) /\ first = Before(s)
    BY <1>11 DEF WithPppKeys
  <2>2. z = "ppp" /\ Base(s, z) = Before(s)
    BY <1>5, <1>7, <1>11, <2>1 DEF Base
  <2>3. PICK t \in Sessions : ProfileFits(s, e, t) /\ e.bsp = At(t, "ppp", d)
    BY <1>11 DEF WithPppKeys
  <2>4. d <= Len(Upp[s])
    BY <1>3, <1>4, <2>1
  <2>5. ASSUME NEW i \in 1 .. d
        PROVE  Upp[t][i] = Upp[s][i]
    <3> DEFINE g == e.got["sequenceOf86"]
               k == Before(s) + i
    <3>1. g \in Seq(S) /\ Len(g) = d
      BY <1>1 DEF EuiccType, GotType, Parts, TakenIn
    <3>2. g[i] = Upp[t][i]
      BY <2>3 DEF ProfileFits
    <3>3. (TakenFirst(s) \o g)[Len(TakenFirst(s)) + i] = g[i]
      <4> HIDE DEF g, S
      <4> QED BY <1>2, <3>1, ConcatElements
    <3>4. Len(TakenFirst(s)) + i = k
      BY <1>2, <2>1
    <3>5. SubSeq(Plain(s), 1, n)[k] = g[i]
      BY <3>3, <3>4
    <3>6. SubSeq(Plain(s), 1, n)[k] = Plain(s)[k]
      <4> HIDE DEF S
      <4>a. n \in Int /\ 1 \in Int
        BY <1>3
      <4>b. Plain(s) \in Seq(S) /\ n <= Len(Plain(s))
        BY <1>2, <1>3, <1>4
      <4>1. n \in Int /\ 1 \in Int /\ \A h \in 1 .. n : Plain(s)[h] \in S
        BY <4>a, <4>b, ElementOfSeq
      <4>2. k \in 1 .. n - 1 + 1 /\ 1 + k - 1 = k
        BY <1>3, <2>1
      <4>3. \A h \in 1 .. n - 1 + 1 : SubSeq(Plain(s), 1, n)[h] = Plain(s)[1 + h - 1]
        <5> HIDE DEF S
        <5> QED BY <4>1, SubSeqProperties
      <4> QED BY <4>2, <4>3
    <3>7. Plain(s)[k] = Upp[s][i]
      <4>1. k \in Nat /\ k > Before(s) /\ k <= Before(s) + Len(Upp[s])
            /\ k - Before(s) = i /\ k \in 1 .. Len(Commands(s))
        BY <1>3, <2>4
      <4> HIDE DEF k
      <4>2. Commands(s)[k].plain = Upp[s][k - Before(s)]
        BY <4>1, ProfileCommand
      <4> QED BY <4>1, <4>2, PlainIs
    <3> QED BY <3>2, <3>5, <3>6, <3>7
  <2>6. At(t, "ppp", d) = At(s, "ppp", d)
    <3>1. d <= Len(Upp[t]) /\ PppKeys[t] = PppKeys[s]
      BY <2>3 DEF ProfileFits
    <3> HIDE DEF d
    <3> QED BY <1>3, <2>4, <2>5, <3>1, SameChain
  <2>7. e.bsp = At(s, z, d) /\ j = Base(s, z) + d + 1
    BY <1>3, <2>1, <2>2, <2>3, <2>6
  <2> QED BY <1>3, <1>8, <2>7
<1>12. e.part = "sequenceOf86" => WithSessionKeys(s, e) \/ WithPppKeys(s, e)
  BY <1>1 DEF EuiccOk, BspOk
<1> QED BY <1>9, <1>10, <1>11, <1>12

\* The two ends stay in step: what is taken as it was made is verified, and
\* read as it was written, the next time as well.
THEOREM StaysInStep == Spec => []InStep
BY ClosedForm, InvariantInStep, PTL

-----------------------------------------------------------------------------
(* The segments of a plaintext *)

\* The end of segment i, and of the segments cut so far.
EndOf(segments) ==
  IF segments = <<>> THEN 0 ELSE segments[Len(segments)].from + segments[Len(segments)].size

CutTypeInv ==
  /\ operation \in Operations /\ length \in Nat /\ remainder \in 0 .. length
  /\ result \in Seq([from : Nat, size : Nat])

CutCover ==
  /\ \A i \in 1 .. Len(result) :
       /\ result[i].size > 0
       /\ result[i].from = IF i = 1 THEN 0 ELSE result[i - 1].from + result[i - 1].size
  /\ length - remainder = EndOf(result)

CutFits == \A i \in 1 .. Len(result) : result[i].size <= max_payload_size

CutIInv == CutTypeInv /\ CutCover /\ CutFits

\* A segment is not empty, at most full, and no longer than what is left
\* (encrypt_and_mac, mac_only).
LEMMA SegmentLengthBounds ==
  ASSUME NEW rest \in Nat \ {0}
  PROVE  SegmentLength(rest) \in 1 .. rest /\ SegmentLength(rest) <= max_payload_size
BY SegmentsAssumption, SMT DEF SegmentLength, SegmentsAssumption

\* Padding adds a block at most (BspAlgoCrypt, _pad_to_multiple).
LEMMA PaddingBound ==
  ASSUME NEW n \in Nat
  PROVE  PaddedLength(n) \in Nat /\ PaddedLength(n) <= n + blocksize
<1>1. PICK b \in Nat \ {0} : b = blocksize
  BY SegmentsAssumption DEF SegmentsAssumption
<1>2. PICK m \in Nat : m = (n + 1) + b - 1
  BY <1>1
<1>3. PICK q \in Nat : q = m \div b
  BY <1>1
<1>4. q * b <= m /\ q * b \in Nat
  BY <1>1, <1>3
<1>5. PaddedLength(n) = q * b
  BY <1>1, <1>2, <1>3 DEF PaddedLength
<1> QED BY <1>1, <1>2, <1>4, <1>5

\* A segment that fits the payload keeps to the bound, whether it is encrypted
\* or not (BspInstance.__init__, BspAlgoMac.auth).
LEMMA SegmentFits ==
  ASSUME NEW op \in {"encrypt_and_mac", "mac_only"},
         NEW n \in Nat, n <= max_payload_size
  PROVE  ProtectedSize(op, n) <=
           MAX_SEGMENT_SIZE + (IF op = "encrypt_and_mac" THEN blocksize ELSE 0)
<1>1. /\ MAX_SEGMENT_SIZE \in Nat /\ l_mac \in Nat /\ blocksize \in Nat
      /\ n + l_mac + 4 <= MAX_SEGMENT_SIZE
  BY SegmentsAssumption, SMT DEF SegmentsAssumption, max_payload_size, LengthOfLength
<1>2. \A k \in Nat : LengthOfLength(k) \in 1 .. 3
  BY DEF LengthOfLength
<1>3. CASE op = "mac_only"
  <2>1. ProtectedSize(op, n) = 1 + LengthOfLength(n + l_mac) + n + l_mac
    BY <1>3 DEF ProtectedSize
  <2>2. LengthOfLength(n + l_mac) \in 1 .. 3
    BY <1>1, <1>2
  <2> QED BY <1>1, <1>3, <2>1, <2>2
<1>4. CASE op = "encrypt_and_mac"
  <2>1. PICK d \in Nat : d = PaddedLength(n)
    BY PaddingBound
  <2>2. d <= n + blocksize
    BY <2>1, PaddingBound
  <2>3. ProtectedSize(op, n) = 1 + LengthOfLength(d + l_mac) + d + l_mac
    BY <1>4, <2>1 DEF ProtectedSize
  <2>4. LengthOfLength(d + l_mac) \in 1 .. 3
    BY <1>1, <1>2, <2>1
  <2> QED BY <1>1, <1>4, <2>2, <2>3, <2>4
<1> QED BY <1>3, <1>4

\* An element of a sequence is in its set.
LEMMA CutElement ==
  ASSUME NEW S, NEW seq \in Seq(S), NEW i \in 1 .. Len(seq)
  PROVE  seq[i] \in S
OBVIOUS

\* Nothing is cut at first.
LEMMA CutInitially == CutInit => CutIInv
<1> SUFFICES ASSUME CutInit PROVE CutIInv
  OBVIOUS
<1> USE DEF CutInit
<1>1. CutTypeInv
  BY SegmentsAssumption DEF CutTypeInv, SegmentsAssumption
<1>2. CutCover
  BY <1>1 DEF CutCover, EndOf, CutTypeInv
<1>3. CutFits
  BY DEF CutFits
<1> QED
  BY <1>1, <1>2, <1>3 DEF CutIInv

\* A round of the loop.
LEMMA CutStep == CutIInv /\ [CutSegment]_cutVars => CutIInv'
<1> SUFFICES ASSUME CutIInv, [CutSegment]_cutVars PROVE CutIInv'
  OBVIOUS
<1> USE DEF CutIInv
<1>1. CASE UNCHANGED cutVars
  BY <1>1 DEF cutVars, CutTypeInv, CutCover, EndOf, CutFits
<1>2. CASE CutSegment
  <2> DEFINE n == SegmentLength(remainder)
             segment == [from |-> length - remainder, size |-> n]
  <2>1. remainder \in Nat \ {0} /\ length \in Nat /\ remainder <= length
    BY <1>2 DEF CutSegment, CutTypeInv
  <2>2. n \in 1 .. remainder /\ n <= max_payload_size
    BY <2>1, SegmentLengthBounds
  <2>3. /\ result' = Append(result, segment) /\ remainder' = remainder - n
        /\ length' = length /\ operation' = operation
    BY <1>2 DEF CutSegment
  <2> HIDE DEF n
  <2>4. segment \in [from : Nat, size : Nat]
    BY <2>1, <2>2
  <2>5. CutTypeInv'
    BY <2>1, <2>2, <2>3, <2>4 DEF CutTypeInv
  <2>6. /\ result \in Seq([from : Nat, size : Nat])
        /\ Len(result') = Len(result) + 1
        /\ result'[Len(result) + 1] = segment
        /\ \A i \in 1 .. Len(result) : result'[i] = result[i]
    BY <2>3, <2>4 DEF CutTypeInv
  <2>7. CutFits'
    <3>1. max_payload_size' = max_payload_size
      BY DEF max_payload_size, LengthOfLength
    <3>2. \A i \in 1 .. Len(result) : result[i].size <= max_payload_size
      BY DEF CutFits
    <3> SUFFICES ASSUME NEW i \in 1 .. Len(result')
                 PROVE  result'[i].size <= max_payload_size
      BY <3>1 DEF CutFits
    <3>3. CASE i \in 1 .. Len(result)
      <4>1. result'[i] = result[i]
        BY <3>3, <2>6
      <4> QED
        BY <3>2, <3>3, <4>1
    <3>4. CASE i = Len(result) + 1
      <4>1. result'[i] = segment
        BY <3>4, <2>6
      <4> QED
        BY <2>2, <4>1
    <3>5. Len(result) \in Nat
      BY <2>6
    <3> QED
      BY <2>6, <3>3, <3>4, <3>5
  <2>8. segment.from = EndOf(result)
    BY DEF CutCover
  <2>9. (length - remainder = EndOf(result))'
    BY <2>1, <2>2, <2>3, <2>6 DEF EndOf
  <2>10. ASSUME NEW i \in 1 .. Len(result')
         PROVE  /\ result'[i].size > 0
                /\ result'[i].from = IF i = 1 THEN 0 ELSE result'[i - 1].from + result'[i - 1].size
    <3>1. CASE i \in 1 .. Len(result)
      <4>1. /\ result[i].size > 0
            /\ result[i].from = IF i = 1 THEN 0 ELSE result[i - 1].from + result[i - 1].size
        BY <3>1 DEF CutCover
      <4>2. result'[i] = result[i]
        BY <3>1, <2>6
      <4>3. CASE i = 1
        BY <4>1, <4>2, <4>3
      <4>4. CASE i # 1
        <5>1. i - 1 \in 1 .. Len(result)
          BY <3>1, <4>4, <2>6
        <5>2. result'[i - 1] = result[i - 1]
          BY <5>1, <2>6
        <5> QED
          BY <4>1, <4>2, <4>4, <5>2
      <4> QED
        BY <4>3, <4>4
    <3>2. CASE i = Len(result) + 1
      <4>1. result'[i] = segment /\ segment.size > 0 /\ segment.from = EndOf(result)
        BY <2>2, <2>6, <2>8, <3>2
      <4>2. CASE result = <<>>
        BY <3>2, <4>1, <4>2 DEF EndOf
      <4>3. CASE result # <<>>
        <5>1. Len(result) \in 1 .. Len(result) /\ i # 1 /\ i - 1 = Len(result)
          BY <2>6, <3>2, <4>3
        <5>2. result'[i - 1] = result[Len(result)]
          BY <2>6, <5>1
        <5> QED
          BY <4>1, <4>3, <5>1, <5>2 DEF EndOf
      <4> QED
        BY <4>2, <4>3
    <3> QED
      BY <3>1, <3>2, <2>6
  <2> QED
    BY <2>5, <2>7, <2>9, <2>10 DEF CutCover
<1> QED
  BY <1>1, <1>2

\* The loop keeps to the cover of the plaintext and to the payload of a segment.
THEOREM CutInvariant == CutSpec => []CutIInv
<1> QED
  BY CutInitially, CutStep, PTL DEF CutSpec

\* The segments cut so far are the beginning of the plaintext, each byte once,
\* for every length and segment size (encrypt_and_mac, mac_only).
THEOREM EveryByteOnce == CutSpec => []SegmentsCover
<1>1. CutIInv => SegmentsCover
  BY DEF CutIInv, CutTypeInv, CutCover, EndOf, SegmentsCover
<1> QED
  BY <1>1, CutInvariant, PTL

\* What is only authenticated keeps the limit and what is encrypted exceeds it
\* by a block at most, for every length and every limit of at least 256 bytes
\* (encrypt_and_mac, mac_only, MAX_SEGMENT_SIZE).
THEOREM LimitKept == CutSpec => []SegmentSizeBounded
<1>1. CutIInv => SegmentSizeBounded
  <2> SUFFICES ASSUME CutIInv, NEW i \in 1 .. Len(result)
               PROVE  ProtectedSize(operation, result[i].size) <=
                        MAX_SEGMENT_SIZE + (IF operation = "encrypt_and_mac" THEN blocksize ELSE 0)
    BY DEF SegmentSizeBounded
  <2>1. operation \in {"encrypt_and_mac", "mac_only"}
    BY SegmentsAssumption DEF CutIInv, CutTypeInv, SegmentsAssumption
  <2>2. result \in Seq([from : Nat, size : Nat])
    BY DEF CutIInv, CutTypeInv
  <2>3. result[i] \in [from : Nat, size : Nat]
    BY <2>2, CutElement
  <2>4. result[i].size <= max_payload_size
    BY DEF CutIInv, CutFits
  <2> QED
    BY <2>1, <2>3, <2>4, SegmentFits
<1> QED
  BY <1>1, CutInvariant, PTL

\* Both hold: each byte is sent once, in segments that keep to the bound
\* (encrypt_and_mac, mac_only).
THEOREM SegmentsRightHolds == CutSpec => []SegmentsRight
<1>1. SegmentsCover /\ SegmentSizeBounded => SegmentsRight
  BY DEF SegmentsRight
<1> QED
  BY <1>1, EveryByteOnce, LimitKept, PTL
=============================================================================
