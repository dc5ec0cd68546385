------------------------------ MODULE FileAccess ------------------------------
(***************************************************************************)
(* Reading and updating a file: RuntimeLchan of runtime.py over            *)
(* SimCardCommands of commands.py.  What the caller sees as one call is a  *)
(* SELECT, as many READ BINARY or UPDATE BINARY as max_cmd_len demands, and *)
(* before and after the update a read, to spare the card a write or to     *)
(* verify it.  The card may refuse any command, carry it out although its  *)
(* answer is lost, or store something else than it was given.              *)
(*                                                                         *)
(* File 0 is a transparent EF, file n > 0 record n of a linear fixed EF.   *)
(***************************************************************************)
EXTENDS Naturals, Sequences

CONSTANTS
  Size,         \* of the transparent EF
  RecordLength, Records,   \* of the linear fixed EF
  max_cmd_len,  \* what one command may carry: 255 less the overhead of a secure channel
  Byte, ff,     \* values of a byte; the filler
  Lettered,     \* those with a digit above 9
  Data,         \* what the callers write
  Offsets, Lengths,        \* where they read and write, and how much they read
  MaxFaults     \* bound: faults of the card

\* P1 and P2 hold an offset in 15 bits; the code forms no more of it than that
\* when the file has fewer bytes (of a longer one it would address another).
AddressableOffsets == 0 .. 32767

\* A size of 0 is not checked (not writeable_size); no file has it.
ASSUME FileAssumption ==
  /\ Size \in AddressableOffsets \ {0} /\ Records \in Nat
  /\ RecordLength \in Nat \ {0} /\ max_cmd_len \in Nat \ {0}
  /\ ff \in Byte /\ Data \subseteq Seq(Byte) /\ Lettered \subseteq Byte
  /\ Offsets \subseteq AddressableOffsets /\ Lengths \subseteq Nat
  /\ MaxFaults \in Nat

Files == 0 .. Records
FileLength(file) == IF file = 0 THEN Size ELSE RecordLength

VARIABLES
  content,  \* file -> its bytes, from 0 on
  req,      \* the arguments of the call
  at,       \* how far the call has come
  pos,      \* chunk_offset
  got,      \* total_data
  was,      \* the content when the call began
  faulty,   \* has the card failed in the call
  spoilt,   \* has it stored something else
  faults    \* how often it has failed

vars == <<content, req, at, pos, got, was, faulty, spoilt, faults>>

Reading(op, file, offset, length) ==
  [op |-> op, file |-> file, offset |-> offset, length |-> length, data |-> <<>>,
   capital |-> FALSE, verify |-> FALSE, conserve |-> FALSE, sized |-> FALSE]
Read(file, offset, length) == Reading("read", file, offset, length)

\* capital: the caller gave a digit of the data as a capital letter, which
\* is_hexstr and expand_hex let pass.  sized: through a RuntimeLchan whose FCP
\* tells the size.
Update(file, offset, data, capital, verify, conserve, sized) ==
  [op |-> "update", file |-> file, offset |-> offset, length |-> 0, data |-> data,
   capital |-> capital, verify |-> verify, conserve |-> conserve, sized |-> sized]

Ended == at \in {"returned", "raised"}
Smaller(m, n) == IF m <= n THEN m ELSE n

\* n bytes of a file, and the file with some of its bytes replaced
Slice(file, offset, n) == [i \in 1 .. n |-> content[file][offset + i - 1]]
Overlay(bytes, offset, data, n) ==
  [i \in DOMAIN bytes |-> IF i \in offset .. offset + n - 1 THEN data[i - offset + 1] ELSE bytes[i]]

-----------------------------------------------------------------------------
(* Calls *)

Begin(first) ==
  /\ Ended
  /\ at' = first
  /\ pos' = 0 /\ got' = <<>>
  /\ was' = content
  /\ faulty' = FALSE /\ spoilt' = FALSE
  /\ UNCHANGED <<content, faults>>

read_binary(offset, length) == req' = Read(0, offset, length) /\ Begin("select_read")

\* length None: what there is from the offset on
read_binary_rest(offset) ==
  /\ req' = IF offset <= Size THEN Read(0, offset, Size - offset)
            ELSE Reading("nothing", 0, offset, 0)
  /\ Begin("select_read")

read_record(n) == req' = Read(n, 0, RecordLength) /\ Begin("select_read")

\* Faulty: the offset is forgotten.
Writeable_NoOffset(file, offset, data) == Len(data) <= FileLength(file)

\* __check_writeable_size
Writeable(file, offset, data) == Len(data) + offset <= FileLength(file)

update_binary(offset, data, capital, verify, conserve, sized) ==
  /\ req' = Update(0, offset, data, capital, verify, conserve, sized)
  /\ Begin(IF sized /\ ~Writeable(0, offset, data) THEN "raised" ELSE "size")

rpad(data) == [i \in 1 .. RecordLength |-> IF i <= Len(data) THEN data[i] ELSE ff]
lpad(data) ==
  [i \in 1 .. RecordLength |->
     IF i <= RecordLength - Len(data) THEN ff ELSE data[i - (RecordLength - Len(data))]]
Padded(data, force_len, leftpad) ==
  IF force_len \/ Len(data) >= RecordLength THEN data
  ELSE IF leftpad THEN lpad(data) ELSE rpad(data)

\* The length of a record is known after a SELECT; nothing but its failure
\* comes between the arguments and what is made of them.
update_record(n, data, capital, force_len, leftpad, verify, conserve, sized) ==
  /\ req' = Update(n, 0, Padded(data, force_len, leftpad), capital, verify, conserve, sized)
  /\ Begin(IF sized /\ ~Writeable(n, 0, data) THEN "raised"
           ELSE IF ~force_len /\ Len(data) > RecordLength THEN "too_long" ELSE "size")

-----------------------------------------------------------------------------
(* What the card does with a command, apart from carrying it out: *)

CardFails ==
  /\ faults < MaxFaults
  /\ faults' = faults + 1
  /\ faulty' = TRUE
CardWorks == UNCHANGED <<faults, faulty>>

Total == IF req.op = "read" THEN req.length
         ELSE IF req.file = 0 THEN Len(req.data) ELSE RecordLength
Chunk(total) == IF req.file = 0 THEN Smaller(max_cmd_len, total - pos) ELSE total

\* Faulty: each command begins where the first did.
ChunkOffset_NotAdded == req.offset

ChunkOffset == req.offset + pos

-----------------------------------------------------------------------------
(* SELECT *)

\* The comparison before the update is over without a match: a transparent
\* EF is selected again, a record is not.
BeforeWriting == IF req.file = 0 THEN "select" ELSE "writing"

AfterSelect ==
  CASE at = "select_read" -> IF req.op = "nothing" THEN "returned" ELSE "reading"
    [] at = "too_long"    -> "raised"
    [] at = "size"        -> IF req.conserve THEN "conserve" ELSE BeforeWriting
    [] at = "conserve"    -> "conserving"
    [] at = "select"      -> "writing"
    [] at = "verify"      -> "verifying"

\* "cannot read data. This is not a fatal error" before an update.
AfterFailure == IF at \in {"conserve", "conserving"} THEN BeforeWriting ELSE "raised"

Select ==
  /\ at \in {"select_read", "too_long", "size", "conserve", "select", "verify"}
  /\ \/ CardWorks /\ at' = AfterSelect
     \/ CardFails /\ at' = AfterFailure
  /\ pos' = 0 /\ got' = <<>>
  /\ UNCHANGED <<content, req, was, spoilt>>

-----------------------------------------------------------------------------
(* The loop of read_binary, and the one command of read_record *)

ReadingStates == {"reading", "conserving", "verifying"}

ReadFailed == at' = AfterFailure /\ pos' = 0 /\ got' = <<>>

\* Past the end of the file the card refuses.
ReadChunk ==
  /\ at \in ReadingStates /\ pos < Total
  /\ LET n == Chunk(Total)
     IN  \/ /\ ChunkOffset + n <= FileLength(req.file)
            /\ got' = got \o Slice(req.file, ChunkOffset, n)
            /\ pos' = pos + n
            /\ UNCHANGED at /\ CardWorks
         \/ ~(ChunkOffset + n <= FileLength(req.file)) /\ CardWorks /\ ReadFailed
         \/ CardFails /\ ReadFailed
  /\ UNCHANGED <<content, req, was, spoilt>>

\* Faulty: a record that begins with the data is not found to match.
Matches_Whole == ~req.capital /\ got = req.data

\* What was read is what is to be written (of a record, as much of it), digit
\* by digit: those of the card are small letters, those of the caller what
\* he made them.
Matches ==
  /\ ~req.capital
  /\ Len(req.data) <= Len(got) /\ \A i \in 1 .. Len(req.data) : got[i] = req.data[i]

\* A read of nothing has no status word to return, and raises.
ReadDone ==
  /\ at \in ReadingStates /\ pos >= Total
  /\ at' = IF Total = 0 THEN AfterFailure
           ELSE CASE at = "reading"    -> "returned"
                  [] at = "conserving" -> IF Matches THEN "returned" ELSE BeforeWriting
                  [] at = "verifying"  -> IF got = req.data THEN "returned" ELSE "raised"
  /\ IF at = "reading" THEN UNCHANGED <<pos, got>> ELSE pos' = 0 /\ got' = <<>>
  /\ UNCHANGED <<content, req, was, faulty, spoilt, faults>>

-----------------------------------------------------------------------------
(* The loop of update_binary, and the one command of update_record *)

\* A record is written as a whole or not at all.
Accepted(n) ==
  IF req.file = 0 THEN ChunkOffset + n <= Size ELSE n = RecordLength

Stored(bytes, n) ==
  [content EXCEPT ![req.file] = Overlay(@, ChunkOffset, bytes, n)]
\* Faulty: each command carries the beginning of the data.
ChunkData_FromStart(n) == [i \in 1 .. n |-> req.data[i]]
ChunkData(n) == [i \in 1 .. n |-> req.data[pos + i]]

WriteChunk ==
  /\ at = "writing" /\ pos < Len(req.data)
  /\ LET n == Chunk(Len(req.data)) IN
       \/ /\ Accepted(n) /\ CardWorks
          /\ content' = Stored(ChunkData(n), n)
          /\ pos' = pos + n
          /\ UNCHANGED <<at, spoilt>>
       \/ /\ Accepted(n) /\ CardFails
          /\ \E i \in 1 .. n, b \in Byte :
               content' = Stored([ChunkData(n) EXCEPT ![i] = b], n)
          /\ spoilt' = TRUE
          /\ pos' = pos + n
          /\ UNCHANGED at
       \/ /\ Accepted(n) /\ CardFails
          /\ content' = Stored(ChunkData(n), n)
          /\ at' = "raised"
          /\ UNCHANGED <<pos, spoilt>>
       \/ /\ Accepted(n) => CardFails
          /\ ~Accepted(n) => CardWorks
          /\ at' = "raised"
          /\ UNCHANGED <<content, pos, spoilt>>
  /\ UNCHANGED <<req, got, was>>

\* Faulty: nothing is verified.
WriteDone_Unverified ==
  /\ at = "writing" /\ pos >= Len(req.data)
  /\ at' = IF req.data = <<>> THEN "raised" ELSE "returned"
  /\ UNCHANGED <<content, req, pos, got, was, faulty, spoilt, faults>>

\* An update with nothing has no status word to return, and raises.
WriteDone ==
  /\ at = "writing" /\ pos >= Len(req.data)
  /\ at' = IF req.data = <<>> THEN "raised" ELSE IF req.verify THEN "verify" ELSE "returned"
  /\ UNCHANGED <<content, req, pos, got, was, faulty, spoilt, faults>>

-----------------------------------------------------------------------------
Init ==
  /\ content \in [Files -> UNION {[0 .. FileLength(file) - 1 -> Byte] : file \in Files}]
  /\ \A file \in Files : content[file] \in [0 .. FileLength(file) - 1 -> Byte]
  /\ req = Read(0, 0, 0) /\ at = "raised"
  /\ pos = 0 /\ got = <<>> /\ was = content
  /\ faulty = FALSE /\ spoilt = FALSE /\ faults = 0

\* Hexadecimal digits of the data may be capitals where they are letters.
Capitals(data) == {c \in BOOLEAN : c => \E i \in DOMAIN data : data[i] \in Lettered}

\* A RuntimeLchan passes on neither verify nor force_len.
Call ==
  \/ \E offset \in Offsets : read_binary_rest(offset)
  \/ \E offset \in Offsets, length \in Lengths : read_binary(offset, length)
  \/ \E n \in Files \ {0} : read_record(n)
  \/ \E offset \in Offsets, data \in Data, verify, conserve, sized \in BOOLEAN :
       /\ sized => ~verify
       /\ \E capital \in Capitals(data) :
            update_binary(offset, data, capital, verify, conserve, sized)
  \/ \E n \in Files \ {0}, data \in Data, force_len, leftpad, verify, conserve, sized \in BOOLEAN :
       /\ sized => ~force_len /\ ~verify
       /\ \E capital \in Capitals(data) :
            update_record(n, data, capital, force_len, leftpad, verify, conserve, sized)

Proceed == Select \/ ReadChunk \/ ReadDone \/ WriteChunk \/ WriteDone

Next == Call \/ Proceed

Spec == Init /\ [][Next]_vars

-----------------------------------------------------------------------------
(* Properties *)

\* The transparent EF or record that is written, as it is with the first n
\* bytes of the data.
WrittenUpTo(n) ==
  [was EXCEPT ![req.file] = Overlay(@, req.offset, req.data, n)]

\* What read_binary returns is the content of the file from the offset on,
\* none of it skipped or repeated at the ends of the commands, and a read
\* changes nothing.
ReadIsContent ==
  at = "returned" /\ req.op = "read" =>
    /\ req.offset + req.length <= FileLength(req.file)
    /\ got = Slice(req.file, req.offset, req.length)
    /\ content = was

\* However an update_binary ends, and while it goes on, the file has a prefix
\* of the data, up to the end of a command, and is otherwise what it was;
\* a record has all or nothing.
PrefixWritten ==
  ~spoilt =>
    \E n \in 0 .. Len(req.data) :
      /\ content = WrittenUpTo(n)
      /\ \/ n = Len(req.data)
         \/ req.file = 0 /\ \E k \in 0 .. n : n = k * max_cmd_len
         \/ n = 0

\* An update that returned has written all of its data and changed nothing
\* else, whether it compared before or not; with verify even on a card that
\* stores something else than it is given.
UpdatedExactly ==
  at = "returned" /\ req.op = "update" /\ (req.verify \/ ~spoilt) =>
    content = WrittenUpTo(Len(req.data))

\* "Save write cycles by reading+comparing before write": as long as the card
\* works, nothing is written over with what is there (commands.py:357, 448).
AlwaysConserves ==
  at = "writing" /\ pos = 0 /\ req.conserve /\ ~faulty
  /\ req.data # <<>> /\ req.offset + Len(req.data) <= FileLength(req.file) =>
    content # WrittenUpTo(Len(req.data))

\* So it is as long as the data comes in small letters, as all does that pySim
\* encoded itself: no other difference between what is read and what is given,
\* padding, a record longer than the data or the parts of a split read, leads
\* to a write.
WritesOnlyWhatDiffers == ~req.capital => AlwaysConserves

\* "Guard against unsuccessful writes caused by attempts to write data that
\* exceeds the file limits": an update through a channel that knows the size
\* fails as a whole, unless the card fails.
RefusedWholly == at = "raised" /\ req.sized /\ ~faulty => content = was

\* However an update_binary or update_record ends, refused beforehand, broken
\* off by the card or complete, the file holds just what the caller can tell
\* from the outcome.
UpdateKept == PrefixWritten /\ UpdatedExactly /\ RefusedWholly
=============================================================================
