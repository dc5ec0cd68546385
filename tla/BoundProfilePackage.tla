------------------------- MODULE BoundProfilePackage -------------------------
(***************************************************************************)
(* The bound profile package of es8p.py and the BPP security protocol of   *)
(* bsp.py below it.  The SM-DP+ protects the commands of a package one     *)
(* after the other (BoundProfilePackage.encode); the eUICC takes the       *)
(* protected segments one after the other (BoundProfilePackage.decode).    *)
(* Each end holds a BspInstance: keys, a block number for the encryption   *)
(* and a MAC chaining value, which the two ends must step alike, across    *)
(* the change of keys that ReplaceSessionKeys makes.                       *)
(*                                                                         *)
(* Cryptography is a term algebra: a ciphertext records the key and the    *)
(* block number that made it, and a MAC chaining value the initial value   *)
(* (named by the keys) and all that was authenticated since.  The 8 bytes  *)
(* of a MAC are taken for the 16 of the chaining value.                    *)
(*                                                                         *)
(* Between the two ends, segments may be lost, repeated, reordered, taken  *)
(* from another session's package or damaged; they stay in the sequence    *)
(* that their tag belongs to.                                              *)
(***************************************************************************)
EXTENDS Naturals, Sequences

CONSTANTS
  Sessions,     \* download sessions
  KeySets,      \* BSP keys: S-ENC, S-MAC and initial MAC chaining value
  SessionKeys,  \* of each session, what bsp_key_derivation yields
  PppKeys,      \* of each session, the keys its PPP was made with
  NoKeys,       \* instead of those: the package was made from_upp
  Configure,    \* the ConfigureISDPRequest
  Contents,     \* what the other commands may say
  Metadata,     \* of each session, its StoreMetadataRequest, in segments
  Upp,          \* of each session, its profile, in segments
  Garbage       \* what a ciphertext is to somebody with other keys

ReplaceSessionKeysRequest(k) == [ppk |-> k]

Plaintexts ==
  Contents \cup {Configure} \cup {ReplaceSessionKeysRequest(k) : k \in KeySets}

ASSUME BppAssumption ==
  /\ SessionKeys \in [Sessions -> KeySets]
  /\ PppKeys \in [Sessions -> KeySets \cup {NoKeys}]
  /\ NoKeys \notin KeySets
  /\ Metadata \in [Sessions -> Seq(Contents) \ {<<>>}]
  /\ Upp \in [Sessions -> Seq(Contents)]
  /\ Garbage \notin Plaintexts
  /\ Configure \notin Contents
  /\ \A k \in KeySets : ReplaceSessionKeysRequest(k) \notin Contents \cup {Configure}
  \* A shared secret of its own for each session, and for each EID.
  /\ \A s, t \in Sessions :
       s # t => SessionKeys[s] # SessionKeys[t] /\ SessionKeys[s] # PppKeys[t]

Tags == {"86", "87", "88"}
DataType == [s_enc : KeySets \cup {NoKeys}, icv : Nat, plain : Plaintexts]
BodyType == [tag : Tags, data : DataType]
SegmentType ==
  [tag : Tags, data : DataType, mac : [s_mac : KeySets \cup {NoKeys}, over : Seq(BodyType)]]
Instance ==
  [keys : KeySets \cup {NoKeys}, block_nr : Nat, mac_chain : Seq(BodyType)]

VARIABLES
  dp,     \* at the SM-DP+: the two BspInstances that make a session's package
  bpp,    \* the protected segments of each package, as encode makes them
  euicc   \* at the eUICC: how far decode has come

vars == <<dp, bpp, euicc>>

-----------------------------------------------------------------------------
(* BspInstance *)

BspInstance(k) == [keys |-> k, block_nr |-> 1, mac_chain |-> <<>>]

Clear(p) == [s_enc |-> NoKeys, icv |-> 0, plain |-> p]
encrypt(b, p) == [s_enc |-> b.keys, icv |-> b.block_nr, plain |-> p]

\* A wrong key or ICV yields something else than the plaintext.
decrypt(b, d) == IF d.s_enc = b.keys /\ d.icv = b.block_nr THEN d.plain ELSE Garbage

\* The segment that auth makes of a tag and data, and the instance after it.
auth(b, tag, d) ==
  [tag |-> tag, data |-> d,
   mac |-> [s_mac |-> b.keys, over |-> Append(b.mac_chain, [tag |-> tag, data |-> d])]]

Chained(b, x) == [b EXCEPT !.mac_chain = Append(@, [tag |-> x.tag, data |-> x.data])]

\* Faulty: the MAC is computed without the chaining value.
verify_Unchained(b, x) ==
  /\ x.mac.s_mac = b.keys
  /\ x.mac.over[Len(x.mac.over)] = [tag |-> x.tag, data |-> x.data]

verify(b, x) == x.mac = auth(b, x.tag, x.data).mac

encrypt_and_mac_one(b, tag, p) == auth(b, tag, encrypt(b, p))
mac_only_one(b, tag, p) == auth(b, tag, Clear(p))

\* The sender's instance after segment x: a segment that is only
\* authenticated counts as well.
Protected(b, x) == [Chained(b, x) EXCEPT !.block_nr = @ + 1]

\* What the receiver makes of a segment that verifies.
demac_and_decrypt_one(b, x) == decrypt(b, x.data)
demac_only_one(b, x) == IF x.data.s_enc = NoKeys THEN x.data.plain ELSE Garbage

\* The receiver's instance after it.
Taken(b, x) == [Chained(b, x) EXCEPT !.block_nr = @ + 1]

-----------------------------------------------------------------------------
(* BoundProfilePackage.encode *)

WithPpp(s) == PppKeys[s] # NoKeys

\* The commands of a package in their order.  The metadata are not encrypted.
Command(tag, p) == [tag |-> tag, plain |-> p]

Commands(s) ==
  <<Command("87", Configure)>>
  \o [i \in 1 .. Len(Metadata[s]) |-> Command("88", Metadata[s][i])]
  \o (IF WithPpp(s) THEN <<Command("87", ReplaceSessionKeysRequest(PppKeys[s]))>>
      ELSE <<>>)
  \o [i \in 1 .. Len(Upp[s]) |-> Command("86", Upp[s][i])]

\* The instance that protects a command: the one of the PPP has its own.
Protector(s, c) == IF c.tag = "86" /\ WithPpp(s) THEN "ppp" ELSE "session"

Encoded(s) == Len(bpp[s]) = Len(Commands(s))

\* The next command of a package is protected and put into it.
encode(s) ==
  LET c == Commands(s)[Len(bpp[s]) + 1]
      b == dp[s][Protector(s, c)]
      x == IF c.tag = "88" THEN mac_only_one(b, c.tag, c.plain)
           ELSE encrypt_and_mac_one(b, c.tag, c.plain)
  IN
  /\ ~Encoded(s)
  /\ bpp' = [bpp EXCEPT ![s] = Append(@, x)]
  /\ dp' = [dp EXCEPT ![s][Protector(s, c)] = Protected(@, x)]
  /\ UNCHANGED euicc

-----------------------------------------------------------------------------
(* BoundProfilePackage.decode *)

Parts == {"firstSequenceOf87", "sequenceOf88", "secondSequenceOf87", "sequenceOf86"}

TagOf(part) ==
  CASE part \in {"firstSequenceOf87", "secondSequenceOf87"} -> "87"
    [] part = "sequenceOf88" -> "88"
    [] part = "sequenceOf86" -> "86"

\* What is between the two ends at some time.
Wire == UNION {{bpp[s][i] : i \in 1 .. Len(bpp[s])} : s \in Sessions}

Decoding(s) == euicc[s].part \in Parts

\* A segment of the part at hand that verifies is taken; any other makes
\* decode raise, and the instance is not used again.  The command is x's, the
\* MAC may be another segment's.  That x carries the tag of the part is what the
\* LPA is trusted with: decode checks the tag of a sequence (es8p.py:257-280),
\* not that of each segment in it.
TakeSegment(s, x, y) ==
  LET e == euicc[s]
      seg == [x EXCEPT !.mac = y.mac]
      p == IF e.part = "sequenceOf88" THEN demac_only_one(e.bsp, seg)
           ELSE demac_and_decrypt_one(e.bsp, seg)
  IN
  /\ Encoded(s) /\ Decoding(s)
  /\ x.tag = TagOf(e.part)
  /\ euicc' = [euicc EXCEPT ![s] =
       IF verify(e.bsp, seg)
         THEN [e EXCEPT !.bsp = Taken(@, seg), !.got[e.part] = Append(@, p)]
         ELSE [e EXCEPT !.part = "raised"]]
  /\ UNCHANGED <<dp, bpp>>

\* The end of a part: its plaintexts are decoded, or decode raises.
EndOfPart(s, part, decodes, next) ==
  /\ Encoded(s)
  /\ euicc[s].part = part
  /\ euicc' = [euicc EXCEPT ![s].part = IF decodes THEN next ELSE "raised"]
  /\ UNCHANGED <<dp, bpp>>

ConfigureDecodes(s) ==
  EndOfPart(s, "firstSequenceOf87",
            euicc[s].got["firstSequenceOf87"] = <<Configure>>, "sequenceOf88")

\* secondSequenceOf87 may be absent.
MetadataDecodes(s, next) ==
  EndOfPart(s, "sequenceOf88",
            \E t \in Sessions : euicc[s].got["sequenceOf88"] = Metadata[t], next)

\* Faulty: the new keys are used, the block number goes on.
ReplacedInstance_KeepsCount(b, k) == [BspInstance(k) EXCEPT !.block_nr = b.block_nr]

\* The instance with the replacement keys, after the one in use.
ReplacedInstance(b, k) == BspInstance(k)

\* ReplaceSessionKeys: a new instance, with the keys of the PPP.
KeysReplaced(s) ==
  \E k \in KeySets :
    /\ euicc[s].part = "secondSequenceOf87"
    /\ Encoded(s)
    /\ euicc[s].got["secondSequenceOf87"] = <<ReplaceSessionKeysRequest(k)>>
    /\ euicc' = [euicc EXCEPT ![s].part = "sequenceOf86",
                              ![s].bsp = ReplacedInstance(euicc[s].bsp, k)]
    /\ UNCHANGED <<dp, bpp>>

KeysNotReplaced(s) ==
  /\ \A k \in KeySets :
       euicc[s].got["secondSequenceOf87"] # <<ReplaceSessionKeysRequest(k)>>
  /\ EndOfPart(s, "secondSequenceOf87", FALSE, "raised")

\* decode returns the UPP, of however many segments.
ProfileReturned(s) == EndOfPart(s, "sequenceOf86", TRUE, "returned")

-----------------------------------------------------------------------------
Init ==
  /\ dp = [s \in Sessions |->
            [i \in {"session", "ppp"} |->
               BspInstance(IF i = "ppp" THEN PppKeys[s] ELSE SessionKeys[s])]]
  /\ bpp = [s \in Sessions |-> <<>>]
  /\ euicc = [s \in Sessions |->
               [bsp |-> BspInstance(SessionKeys[s]), part |-> "firstSequenceOf87",
                got |-> [part \in Parts |-> <<>>]]]

Next ==
  \E s \in Sessions :
    \/ encode(s)
    \/ \E x, y \in Wire : TakeSegment(s, x, y)
    \/ ConfigureDecodes(s)
    \/ \E next \in {"secondSequenceOf87", "sequenceOf86"} : MetadataDecodes(s, next)
    \/ KeysReplaced(s)
    \/ KeysNotReplaced(s)
    \/ ProfileReturned(s)

Spec == Init /\ [][Next]_vars

-----------------------------------------------------------------------------
(* Properties *)

StartOf(q, r) == Len(q) <= Len(r) /\ q = SubSeq(r, 1, Len(q))

Plain(s) == [i \in 1 .. Len(Commands(s)) |-> Commands(s)[i].plain]

\* What the eUICC has taken with the session keys.
TakenFirst(s) ==
  euicc[s].got["firstSequenceOf87"] \o euicc[s].got["sequenceOf88"]
  \o euicc[s].got["secondSequenceOf87"]

\* What the eUICC has taken is what the SM-DP+ has sent, from the beginning,
\* in order and complete up to there, whatever happened to the segments on
\* the way: a segment that was lost, repeated, reordered, damaged or made for
\* another session ends the decoding.  The profile itself is of a PPP with
\* the keys that this session's ReplaceSessionKeys has installed.
TakenInOrder ==
  \A s \in Sessions :
    /\ StartOf(TakenFirst(s), Plain(s))
    /\ euicc[s].got["sequenceOf86"] # <<>> =>
         \E t \in Sessions :
           /\ StartOf(euicc[s].got["sequenceOf86"], Upp[t])
           /\ PppKeys[t] = PppKeys[s]
           /\ PppKeys[s] = NoKeys => t = s

\* The facts on which the above rests, in closed form.  A command is at the
\* place i in a package; those before place Before(s) have tags 87 and 88.
Before(s) == 1 + Len(Metadata[s]) + (IF WithPpp(s) THEN 1 ELSE 0)

\* How many commands were protected before the first of an instance.
Base(s, w) == IF w = "ppp" THEN Before(s) ELSE 0
KeysOf(s, w) == IF w = "ppp" THEN PppKeys[s] ELSE SessionKeys[s]

\* What is authenticated of the command at place i, by instance w.
Body(s, w, i) ==
  LET c == Commands(s)[i] IN
  [tag |-> c.tag,
   data |-> IF c.tag = "88" THEN Clear(c.plain)
            ELSE [s_enc |-> KeysOf(s, w), icv |-> i - Base(s, w), plain |-> c.plain]]

\* An instance of session s that has protected or taken n segments.
Chain(s, w, n) == [j \in 1 .. n |-> Body(s, w, Base(s, w) + j)]
At(s, w, n) == [keys |-> KeysOf(s, w), block_nr |-> n + 1, mac_chain |-> Chain(s, w, n)]

Segment(s, w, i) ==
  [tag |-> Body(s, w, i).tag, data |-> Body(s, w, i).data,
   mac |-> [s_mac |-> KeysOf(s, w), over |-> Chain(s, w, i - Base(s, w))]]

\* The SM-DP+ has made the package as planned, up to here.
SentAsPlanned ==
  \A s \in Sessions :
    LET n == Len(bpp[s])
        ppp == IF WithPpp(s) /\ n > Before(s) THEN n - Before(s) ELSE 0
    IN
    /\ n <= Len(Commands(s))
    /\ \A i \in 1 .. n : bpp[s][i] = Segment(s, Protector(s, Commands(s)[i]), i)
    /\ dp[s] = [w \in {"session", "ppp"} |->
                 IF w = "ppp" THEN At(s, w, ppp) ELSE At(s, w, n - ppp)]

\* How many segments of each part the eUICC has taken.
TakenOf(s, part) == Len(euicc[s].got[part])

\* They are the ones of the package, part after part.
PartsInOrder(s) ==
  LET g == euicc[s].got
      a == TakenOf(s, "firstSequenceOf87")
      b == TakenOf(s, "sequenceOf88")
      c == TakenOf(s, "secondSequenceOf87")
      d == TakenOf(s, "sequenceOf86")
  IN
  /\ a + b + c <= Before(s)
  /\ \A i \in 1 .. a : g["firstSequenceOf87"][i] = Plain(s)[i]
  /\ \A i \in 1 .. b : g["sequenceOf88"][i] = Plain(s)[a + i]
  /\ \A i \in 1 .. c : g["secondSequenceOf87"][i] = Plain(s)[a + b + i]
  /\ euicc[s].part = "firstSequenceOf87" => b = 0 /\ c = 0 /\ d = 0
  /\ euicc[s].part = "sequenceOf88" => a > 0 /\ c = 0 /\ d = 0
  /\ euicc[s].part = "secondSequenceOf87" => a > 0 /\ d = 0
  /\ euicc[s].part = "sequenceOf86" => a > 0

\* The profile is one of a PPP with the keys this session was told.
ProfileOf(s, t) ==
  /\ PppKeys[t] = PppKeys[s]
  /\ PppKeys[s] = NoKeys => t = s
  /\ TakenOf(s, "sequenceOf86") <= Len(Upp[t])
  /\ \A i \in 1 .. TakenOf(s, "sequenceOf86") : euicc[s].got["sequenceOf86"][i] = Upp[t][i]

ProfileInOrder(s) ==
  TakenOf(s, "sequenceOf86") > 0 => \E t \in Sessions : ProfileOf(s, t)

\* The eUICC's instance is where the SM-DP+'s was after as many segments.
ReceiverAt(s) ==
  LET first == TakenOf(s, "firstSequenceOf87") + TakenOf(s, "sequenceOf88")
               + TakenOf(s, "secondSequenceOf87")
      d == TakenOf(s, "sequenceOf86")
  IN
  /\ euicc[s].part \in Parts \ {"sequenceOf86"} => euicc[s].bsp = At(s, "session", first)
  /\ euicc[s].part = "sequenceOf86" =>
       \/ /\ TakenOf(s, "secondSequenceOf87") = 0
          /\ d > 0 => ~WithPpp(s) /\ first = Before(s)
          /\ euicc[s].bsp = At(s, "session", first + d)
       \/ /\ WithPpp(s) /\ first = Before(s)
          /\ \E t \in Sessions : ProfileOf(s, t) /\ euicc[s].bsp = At(t, "ppp", d)

TypeOK ==
  /\ dp \in [Sessions -> [{"session", "ppp"} -> Instance]]
  /\ bpp \in [Sessions -> Seq(SegmentType)]
  /\ euicc \in [Sessions ->
       [bsp : Instance, part : Parts \cup {"returned", "raised"},
        got : [Parts -> Seq(Plaintexts \cup {Garbage})]]]

IInv ==
  /\ TypeOK
  /\ SentAsPlanned
  /\ \A s \in Sessions : PartsInOrder(s) /\ ProfileInOrder(s) /\ ReceiverAt(s)

\* The two ends stay in step: as long as the eUICC has taken a package's
\* segments as they were made, it takes the next one as well, and reads in
\* it what the SM-DP+ has written, across segments that are only
\* authenticated and across the replacement of the keys.
InStep ==
  \A s \in Sessions :
    LET e == euicc[s]
        n == Len(TakenFirst(s)) + Len(e.got["sequenceOf86"])
    IN
    (/\ Encoded(s) /\ Decoding(s) /\ n < Len(bpp[s])
     /\ Commands(s)[n + 1].tag = TagOf(e.part)
     /\ TakenFirst(s) \o e.got["sequenceOf86"] = SubSeq(Plain(s), 1, n)
     /\ e.part = "sequenceOf86" /\ WithPpp(s) => e.got["secondSequenceOf87"] # <<>>)
    => /\ verify(e.bsp, bpp[s][n + 1])
       /\ IF e.part = "sequenceOf88"
            THEN demac_only_one(e.bsp, bpp[s][n + 1]) = Plain(s)[n + 1]
            ELSE demac_and_decrypt_one(e.bsp, bpp[s][n + 1]) = Plain(s)[n + 1]
=============================================================================
