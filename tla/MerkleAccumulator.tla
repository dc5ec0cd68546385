-------------------------- MODULE MerkleAccumulator --------------------------
(***************************************************************************)
(* The Merkle accumulator of rsp.py: its members, its root, the proofs it  *)
(* generates and their verification.  The members are hashed in the order  *)
(* in which they were added; verifyProof orders each pair by value.        *)
(***************************************************************************)
EXTENDS Integers, SequencesExt

CONSTANTS
  Elements,        \* numbers, as which digests are compared
  hash_fn(_, _),   \* the digest of two digests in a row
  MaxProofs        \* bound: proofs generated

\* No collisions.  An element may well be a digest, also one of the tree: its
\* bytes are the leaf, without a hash of their own.
ASSUME MerkleAssumption ==
  /\ Elements \subseteq Nat /\ MaxProofs \in Nat
  /\ \A a, b \in Elements : hash_fn(a, b) \in Nat
  /\ \A a, b, c, d \in Elements : hash_fn(a, b) = hash_fn(c, d) => a = c /\ b = d

VARIABLES
  leaves,  \* the members in the order of the dict
  root,    \* what get_root returns
  proofs   \* membership proofs generated, and for what

accumulator == <<leaves, root, proofs>>

NoRoot == -1

\* Faulty: the last node of an odd number is left out.
NextLevel_OddDropped(nodes) ==
  [i \in 1 .. Len(nodes) \div 2 |-> hash_fn(nodes[2 * i - 1], nodes[2 * i])]

\* The next level: the last node of an odd number is paired with itself.
RightOf(nodes, i) == IF 2 * i <= Len(nodes) THEN nodes[2 * i] ELSE nodes[2 * i - 1]
NextLevel(nodes) ==
  [i \in 1 .. (Len(nodes) + 1) \div 2 |-> hash_fn(nodes[2 * i - 1], RightOf(nodes, i))]

\* The levels of the tree, from the nodes to the one at the top.
Levels(nodes) ==
  LET level[k \in 0 .. Len(nodes)] ==
        IF k = 0 THEN nodes ELSE NextLevel(level[k - 1])
  IN  level

\* The level at which the loop over the levels ends.
Height(nodes) ==
  CHOOSE k \in 0 .. Len(nodes) :
    /\ Len(Levels(nodes)[k]) = 1
    /\ \A j \in 0 .. k - 1 : Len(Levels(nodes)[j]) # 1

RootOf(nodes) ==
  IF nodes = <<>> THEN NoRoot ELSE Levels(nodes)[Height(nodes)][1]

\* The siblings of node number index, from the leaves to the root.
Siblings(nodes, index) ==
  LET position[k \in 0 .. Len(nodes)] ==
        IF k = 0 THEN index ELSE (position[k - 1] + 1) \div 2
      SiblingOf(level, i) ==
        IF i % 2 = 1 THEN RightOf(level, (i + 1) \div 2) ELSE level[i - 1]
  IN  [k \in 1 .. Height(nodes) |->
         SiblingOf(Levels(nodes)[k - 1], position[k - 1])]

hash_ordered(a, b) == IF a < b THEN hash_fn(a, b) ELSE hash_fn(b, a)

verifyProof(element, proof, r) ==
  LET current[k \in 0 .. Len(proof)] ==
        IF k = 0 THEN element ELSE hash_ordered(current[k - 1], proof[k])
  IN  current[Len(proof)] = r

add(e) ==
  /\ ~Contains(leaves, e)
  /\ leaves' = Append(leaves, e)
  /\ root' = RootOf(leaves')
  /\ UNCHANGED proofs

\* Faulty: the root is not computed again.
remove_RootKept(e) ==
  /\ \E i \in 1 .. Len(leaves) : leaves[i] = e /\ leaves' = RemoveAt(leaves, i)
  /\ UNCHANGED <<root, proofs>>

remove(e) ==
  /\ \E i \in 1 .. Len(leaves) : leaves[i] = e /\ leaves' = RemoveAt(leaves, i)
  /\ root' = RootOf(leaves')
  /\ UNCHANGED proofs

\* A proof is given away together with the root; members is for the
\* properties.
generateProof(e) ==
  /\ proofs' = proofs \cup
       {[element |-> e, proof |-> Siblings(leaves, index), root |-> root,
         members |-> leaves] : index \in {i \in 1 .. Len(leaves) : leaves[i] = e}}
  /\ Cardinality(proofs') <= MaxProofs
  /\ UNCHANGED <<leaves, root>>

AccumulatorInit == leaves = <<>> /\ root = NoRoot /\ proofs = {}

AccumulatorNext == \E e \in Elements : add(e) \/ remove(e) \/ generateProof(e)

AccumulatorSpec == AccumulatorInit /\ [][AccumulatorNext]_accumulator

-----------------------------------------------------------------------------
\* A proof, of whatever member and time, makes verifyProof accept an element
\* only if it is one of the nodes at that level of the tree, counted from the
\* root it is verified against, that the length of the proof names: with a
\* proof as long as the tree is high, only if it is a member.  verifyProof is
\* not told the height: with a shorter proof it accepts inner nodes as well.
NoFalseMember ==
  \A p, q \in proofs, e \in Elements :
    /\ verifyProof(e, p.proof, q.root)
    /\ Len(p.proof) <= Height(q.members)
    => Contains(Levels(q.members)[Height(q.members) - Len(p.proof)], e)

\* A root stands for one list of members among the trees of its height, also
\* after members were removed and added again.  (A lower tree may have its
\* inner nodes as members.)
RootCommits ==
  \A p, q \in proofs :
    p.root = q.root /\ Height(p.members) = Height(q.members) => p.members = q.members
=============================================================================
