------------------------ MODULE MCBoundProfilePackage ------------------------
(***************************************************************************)
(* An instance of BoundProfilePackage for TLC: two sessions whose PPPs     *)
(* were made with the same test keys, as osmo-smdpp.py does, and one whose *)
(* PPP was made with the session keys once more, as it does with --zk.     *)
(* The packages begin alike.                                               *)
(*                                                                         *)
(* Beside it, an instance of BspSegments, with lengths around the limits   *)
(* of none, one, two and three full segments, and one of MerkleAccumulator *)
(* with four elements, one of them the digest of two others, and a pairing *)
(* function of the naturals for the digests.  The three share no state, so *)
(* the run looks at one of them at a time: at packages and at accumulators *)
(* where there is nothing to be cut.  An accumulator is left alone when it *)
(* can give no more proofs, of which its properties speak.                 *)
(***************************************************************************)
EXTENDS BoundProfilePackage, BspSegments, MerkleAccumulator, TLC

CONSTANTS s1, s2, s3, k1, k2, k3, kp, c1, c2

MCSessions == {s1, s2, s3}
MCKeySets == {k1, k2, k3, kp}
MCSessionKeys == s1 :> k1 @@ s2 :> k2 @@ s3 :> k3
MCPppKeys == s1 :> kp @@ s2 :> kp @@ s3 :> k3
MCContents == {c1, c2}
MCMetadata == s1 :> <<c1, c2>> @@ s2 :> <<c1, c1>> @@ s3 :> <<c1>>
MCUpp == s1 :> <<c1, c2>> @@ s2 :> <<c1, c1>> @@ s3 :> <<c2>>
MCLengths == UNION {{n + 1008 * k : n \in 0 .. 40 \cup 980 .. 1007} : k \in 0 .. 2}

MCHash(a, b) == ((a + b) * (a + b + 1)) \div 2 + b + 5
MCElements == {1, 2, 3, MCHash(1, 2)}

MCInit == Init /\ CutInit /\ AccumulatorInit

MCNext ==
  \/ length = 0 /\ operation = "mac_only" /\ Next /\ UNCHANGED <<cutVars, accumulator>>
  \/ CutSegment /\ UNCHANGED <<vars, accumulator>>
  \/ /\ length = 0 /\ operation = "encrypt_and_mac" /\ Cardinality(proofs) < MaxProofs
     /\ AccumulatorNext /\ UNCHANGED <<vars, cutVars>>

MCSpec == MCInit /\ [][MCNext]_<<vars, cutVars, accumulator>>
=============================================================================
