----------------------------- MODULE BspSegments -----------------------------
(***************************************************************************)
(* How BspInstance.encrypt_and_mac and mac_only of bsp.py cut a plaintext  *)
(* into segments, and how long the protected segments become.  Only the    *)
(* lengths are modelled: a segment is the range of bytes it carries.       *)
(***************************************************************************)
EXTENDS Naturals, Sequences

CONSTANTS
  MAX_SEGMENT_SIZE, blocksize, l_mac,  \* of bsp.py
  Operations,   \* "encrypt_and_mac" and "mac_only", or one of them
  Lengths       \* of the plaintexts to be cut

\* The bytes that bertlv_encode_len takes for a length (up to 64 KiB).
LengthOfLength(n) == IF n < 128 THEN 1 ELSE IF n < 256 THEN 2 ELSE 3

\* Faulty: the room for the tag is forgotten.
max_payload_size_NoTag == MAX_SEGMENT_SIZE - LengthOfLength(MAX_SEGMENT_SIZE) - l_mac

\* What BspInstance.__init__ computes.
max_payload_size == MAX_SEGMENT_SIZE - 1 - LengthOfLength(MAX_SEGMENT_SIZE) - l_mac

\* A length field of three bytes, as MAX_SEGMENT_SIZE has it, is the longest.
ASSUME SegmentsAssumption ==
  /\ MAX_SEGMENT_SIZE \in Nat /\ MAX_SEGMENT_SIZE >= 256 /\ l_mac \in Nat
  /\ blocksize \in Nat \ {0}
  /\ max_payload_size \in Nat \ {0}
  /\ Lengths \subseteq Nat
  /\ Operations \subseteq {"encrypt_and_mac", "mac_only"}

VARIABLES
  operation,
  length,     \* of the plaintext
  remainder,  \* bytes not yet cut off
  result      \* the segments: first byte and number of bytes of each

cutVars == <<operation, length, remainder, result>>

\* An 0x80, then zeroes up to a multiple of the block size.
PaddedLength(n) == (((n + 1) + blocksize - 1) \div blocksize) * blocksize

\* Tag, length, data and MAC of a protected segment of n bytes.
ProtectedSize(op, n) ==
  LET data == IF op = "encrypt_and_mac" THEN PaddedLength(n) ELSE n
  IN  1 + LengthOfLength(data + l_mac) + data + l_mac

\* Faulty: what is left is cut as if it were a full segment.
SegmentLength_AlwaysFull(rest) == max_payload_size

\* A full segment, or what is left.
SegmentLength(rest) == IF rest < max_payload_size THEN rest ELSE max_payload_size

\* The assertion of encrypt_and_mac_one and mac_only_one.
FitsPayload(n) == n <= max_payload_size

\* One round of the loop.
CutSegment ==
  /\ remainder > 0
  /\ FitsPayload(SegmentLength(remainder))
  /\ result' = Append(result, [from |-> length - remainder, size |-> SegmentLength(remainder)])
  /\ remainder' = remainder - SegmentLength(remainder)
  /\ UNCHANGED <<operation, length>>

CutInit ==
  /\ operation \in Operations
  /\ length \in Lengths
  /\ remainder = length
  /\ result = <<>>

CutSpec == CutInit /\ [][CutSegment]_cutVars

-----------------------------------------------------------------------------
\* The segments that have been cut are the beginning of the plaintext, up to
\* the remainder: no byte is lost, none is sent twice and no segment is
\* empty, whatever the length.
SegmentsCover ==
  /\ \A i \in 1 .. Len(result) :
       /\ result[i].size > 0
       /\ result[i].from = IF i = 1 THEN 0 ELSE result[i - 1].from + result[i - 1].size
  /\ remainder \in 0 .. length
  /\ length - remainder = IF result = <<>> THEN 0
                          ELSE result[Len(result)].from + result[Len(result)].size

\* bsp.py:22: "That block of data is split into segments of a maximum size of
\* 1020 bytes (including the tag, length field and MAC)."  True of what is only
\* authenticated; encrypt_and_mac pads a segment after it has been cut.
SegmentSizeLimited ==
  \A i \in 1 .. Len(result) : ProtectedSize(operation, result[i].size) <= MAX_SEGMENT_SIZE

\* What holds of both operations: the limit, exceeded by the padding of one
\* block at most, and only where the segment is encrypted.
SegmentSizeBounded ==
  \A i \in 1 .. Len(result) :
    ProtectedSize(operation, result[i].size) <=
      MAX_SEGMENT_SIZE + (IF operation = "encrypt_and_mac" THEN blocksize ELSE 0)

\* mac_only and encrypt_and_mac cut every plaintext, of the edge lengths too,
\* into segments that carry each of its bytes once and keep to that bound.
SegmentsRight == SegmentsCover /\ SegmentSizeBounded
=============================================================================
