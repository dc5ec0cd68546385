------------------------ MODULE CardProgrammingProofs ------------------------
(***************************************************************************)
(* Proofs about CardProgramming: whatever fails, and however often a batch *)
(* is taken up again, the HLR follows the CSV file, and the cards of the   *)
(* good bin are recorded as they are and told apart by their IMSI.         *)
(***************************************************************************)
EXTENDS CardProgramming, SequenceTheorems, TLAPS

-----------------------------------------------------------------------------
(***************************************************************************)
(* The programs.                                                           *)
(***************************************************************************)
Does == {"verify", "update", "send", "adf", "read_aids"}
StepSet == [does : Does, items : SUBSET Items]

\* What a program has yet to write and to have confirmed.
Confirms(todo, x) == \E i \in DOMAIN todo : todo[i].does = "update" /\ x \in todo[i].items

\* Every step is one of those that Step makes.
LEMMA StepsMade ==
    /\ {Verify, VerifyNew, Rest, ReadAids} \subseteq StepSet
    /\ \A x \in SUBSET Items : {Update(x), Sent(x), InAdf(x)} \subseteq StepSet
<1>1. \A d \in Does, x \in SUBSET Items : Step(d, x) \in StepSet
  BY DEF Step, StepSet
<1>2. {"adm"} \in SUBSET Items /\ {} \in SUBSET Items
  BY DEF Items
<1> QED BY <1>1, <1>2 DEF Verify, VerifyNew, Rest, ReadAids, Update, Sent, InAdf, Does

\* A program method is a sequence of such steps, and an update of the IMSI is among them.
LEMMA Programs ==
    ASSUME NEW k \in KnownKinds
    PROVE  Program(k) \in Seq(StepSet) /\ Confirms(Program(k), "imsi")
<1> DEFINE Fine(p) == p \in Seq(StepSet) /\ Confirms(p, "imsi")
<1>0. /\ {"iccid", "imsi", "ki"} \in SUBSET Items /\ {"iccid", "imsi"} \in SUBSET Items
      /\ {"ki", "opc", "iccid", "imsi"} \in SUBSET Items
      /\ \A x \in Items \union {"adm"} : {x} \in SUBSET Items
  BY DEF Items
<1>1. \A x \in SUBSET Items : Update(x).does = "update" /\ Update(x).items = x
  BY DEF Update, Step
<1>2. Fine(MagicSim_program)
  <2>1. MagicSim_program \in Seq(StepSet)
    BY StepsMade, <1>0 DEF MagicSim_program
  <2>2. 2 \in DOMAIN MagicSim_program /\ MagicSim_program[2] = Update({"iccid", "imsi", "ki"})
    BY DEF MagicSim_program
  <2> QED BY <2>1, <2>2, <1>0, <1>1 DEF Confirms
<1>3. Fine(FakeMagicSim_program)
  <2>1. FakeMagicSim_program \in Seq(StepSet)
    BY StepsMade, <1>0 DEF FakeMagicSim_program
  <2>2. 2 \in DOMAIN FakeMagicSim_program /\ FakeMagicSim_program[2] = Update({"iccid", "imsi", "ki"})
    BY DEF FakeMagicSim_program
  <2> QED BY <2>1, <2>2, <1>0, <1>1 DEF Confirms
<1>4. Fine(GrcardSim_program)
  <2>1. GrcardSim_program \in Seq(StepSet)
    BY StepsMade, <1>0 DEF GrcardSim_program, Items
  <2>2. 3 \in DOMAIN GrcardSim_program /\ GrcardSim_program[3] = Update({"imsi"})
    BY DEF GrcardSim_program
  <2> QED BY <2>1, <2>2, <1>0, <1>1 DEF Confirms, Items
<1>5. Fine(SysmoUSIMgr1_program)
  <2>1. SysmoUSIMgr1_program \in Seq(StepSet)
    BY StepsMade, <1>0 DEF SysmoUSIMgr1_program
  <2>2. 2 \in DOMAIN SysmoUSIMgr1_program
        /\ SysmoUSIMgr1_program[2] = Update({"ki", "opc", "iccid", "imsi"})
    BY DEF SysmoUSIMgr1_program
  <2> QED BY <2>1, <2>2, <1>0, <1>1 DEF Confirms
<1>6. Fine(SysmoSIMgr2_program)
  <2>1. SysmoSIMgr2_program \in Seq(StepSet)
    BY StepsMade, <1>0 DEF SysmoSIMgr2_program, Items
  <2>2. 5 \in DOMAIN SysmoSIMgr2_program /\ SysmoSIMgr2_program[5] = Update({"imsi"})
    BY DEF SysmoSIMgr2_program
  <2> QED BY <2>1, <2>2, <1>0, <1>1 DEF Confirms, Items
<1>7. Fine(SysmoUSIMSJS1_program)
  <2>1. SysmoUSIMSJS1_program \in Seq(StepSet)
    BY StepsMade, <1>0 DEF SysmoUSIMSJS1_program, Items
  <2>2. 6 \in DOMAIN SysmoUSIMSJS1_program /\ SysmoUSIMSJS1_program[6] = Update({"imsi"})
    BY DEF SysmoUSIMSJS1_program
  <2> QED BY <2>1, <2>2, <1>0, <1>1 DEF Confirms, Items
<1>8. Fine(FairwavesSIM_program)
  <2>1. FairwavesSIM_program \in Seq(StepSet)
    BY StepsMade, <1>0 DEF FairwavesSIM_program, Items
  <2>2. 3 \in DOMAIN FairwavesSIM_program /\ FairwavesSIM_program[3] = Update({"imsi"})
    BY DEF FairwavesSIM_program
  <2> QED BY <2>1, <2>2, <1>0, <1>1 DEF Confirms, Items
<1>9. Fine(OpenCellsSim_program)
  <2>1. OpenCellsSim_program \in Seq(StepSet)
    BY StepsMade, <1>0 DEF OpenCellsSim_program, Items
  <2>2. 5 \in DOMAIN OpenCellsSim_program /\ OpenCellsSim_program[5] = Update({"imsi"})
    BY DEF OpenCellsSim_program
  <2> QED BY <2>1, <2>2, <1>0, <1>1 DEF Confirms, Items
<1>10. Fine(WavemobileSim_program)
  <2>1. WavemobileSim_program \in Seq(StepSet)
    BY StepsMade, <1>0 DEF WavemobileSim_program, Items
  <2>2. 3 \in DOMAIN WavemobileSim_program /\ WavemobileSim_program[3] = Update({"imsi"})
    BY DEF WavemobileSim_program
  <2> QED BY <2>1, <2>2, <1>0, <1>1 DEF Confirms, Items
<1>11. Fine(SysmoISIMSJA2_program)
  <2>1. SysmoISIMSJA2_program \in Seq(StepSet)
    BY StepsMade, <1>0 DEF SysmoISIMSJA2_program, Items
  <2>2. 4 \in DOMAIN SysmoISIMSJA2_program /\ SysmoISIMSJA2_program[4] = Update({"imsi"})
    BY DEF SysmoISIMSJA2_program
  <2> QED BY <2>1, <2>2, <1>0, <1>1 DEF Confirms, Items
<1>12. Fine(GialerSim_program)
  <2>1. GialerSim_program \in Seq(StepSet)
    BY StepsMade, <1>0 DEF GialerSim_program, Items
  <2>2. 3 \in DOMAIN GialerSim_program /\ GialerSim_program[3] = Update({"imsi"})
    BY DEF GialerSim_program
  <2> QED BY <2>1, <2>2, <1>0, <1>1 DEF Confirms, Items
<1> HIDE DEF Fine
<1>13. Fine(Program(k))
  BY <1>2, <1>3, <1>4, <1>5, <1>6, <1>7, <1>8, <1>9, <1>10, <1>11, <1>12 DEF Program, KnownKinds
<1> QED BY <1>13 DEF Fine

\* What is confirmed is what an update of the program writes.
LEMMA VouchedConfirmed ==
    ASSUME NEW k, NEW x
    PROVE  x \in Vouched(k) <=> Confirms(Program(k), x)
BY DEF Vouched, Confirms

-----------------------------------------------------------------------------
(***************************************************************************)
(* Types, and where the card and its parameters are.                       *)
(***************************************************************************)
WithParameters == {"program", "csv", "hlr", "save", "done"}
WithCard == WithParameters \union {"detect", "erase", "parameters", "error"}

Progress ==
    /\ pc \in WithCard \union {"get", "off"}
    /\ pc \in WithCard => reader \in Cards /\ where[reader] = "reader"
    /\ pc \in WithParameters => cp \in [Items -> Nat]
    /\ steps \in Seq(StepSet)
    /\ kis \in Nat

Placed == TypeOK /\ Progress

USE DEF WithParameters, WithCard

LEMMA InitPlaced == Init => Placed
<1> SUFFICES ASSUME Init PROVE Placed
  OBVIOUS
<1>1. content \in [Cards -> [Items -> Nat]]
  <2> SUFFICES ASSUME NEW c \in Cards, NEW i \in Items, i \in DOMAIN Fresh[c]
               PROVE  Fresh[c][i] \in Nat
    BY DEF Init
  <2> QED BY BatchAssumption
<1> QED BY <1>1, BatchAssumption DEF Init, Placed, TypeOK, Progress

\* The parameters of a card, drawn or looked up.
LEMMA ParametersTyped ==
    ASSUME NEW a \in Nat, NEW b \in Nat, NEW k \in Nat
    PROVE  /\ Parameters(a, b, k) \in [Items -> Nat]
           /\ Parameters(a, b, k)["iccid"] = a /\ Parameters(a, b, k)["imsi"] = b
           /\ Parameters(a, b, k)["ki"] = k /\ Parameters(a, b, k)["opc"] = k
BY DEF Parameters, Items

LEMMA GeneratedTyped ==
    ASSUME num \in Nat, kis \in Nat
    PROVE  gen_parameters \in [Items -> Nat] /\ gen_parameters["imsi"] = num + 1
<1>1. num + 1 \in Nat /\ kis + 1 \in Nat
  OBVIOUS
<1> QED BY <1>1, ParametersTyped DEF gen_parameters

LEMMA RowsTyped ==
    ASSUME NEW i \in DOMAIN Rows
    PROVE  /\ Rows[i].iccid \in Nat /\ Rows[i].imsi \in Nat /\ Rows[i].ki \in Nat
           /\ read_params_csv(i) \in [Items -> Nat]
           /\ \A x \in Identity : read_params_csv(i)[x] = Rows[i][x]
<1> DEFINE R == [iccid : Nat, imsi : Nat, ki : Nat]
<1>1. Rows[i] \in R
  <2>1. Rows \in Seq(R)
    BY BatchAssumption
  <2> HIDE DEF R
  <2> QED BY <2>1
<1> QED BY <1>1, ParametersTyped DEF read_params_csv, Identity

CsvRow == [iccid : Nat, imsi : Nat, ki : Nat, opc : Nat]
Entry == [imsi |-> Row.imsi, ki |-> Row.ki]

LEMMA RowTyped ==
    ASSUME cp \in [Items -> Nat]
    PROVE  /\ Row \in CsvRow /\ Entry \in [imsi : Nat, ki : Nat]
           /\ Row.imsi = cp["imsi"] /\ Row.ki = cp["ki"]
           /\ Entry.imsi = cp["imsi"] /\ Entry.ki = cp["ki"]
BY DEF Row, Entry, CsvRow, Items

\* What the steps of a program do to the card: items are written with the parameters
\* of the card, and a step is left behind.
Writes(x) ==
    \/ content' = content
    \/ Written(reader, x)

LEMMA ProgramStep ==
    ASSUME Placed, program
    PROVE  /\ steps # <<>> /\ Head(steps) \in StepSet /\ Tail(steps) \in Seq(StepSet)
           /\ Writes(Head(steps).items)
           /\ \/ pc' = "error" /\ steps' = steps
              \/ /\ pc' = "program" /\ steps' = Tail(steps)
                 /\ Head(steps).does = "update" => Written(reader, Head(steps).items)
           /\ pc = "program" /\ ~opts.dry_run
           /\ UNCHANGED <<kind, opts, num, reader, where, cp, kis, csv, hlr, noted>>
<1>1. steps # <<>> /\ steps \in Seq(StepSet)
  BY DEF program, Placed, Progress
<1>2. Head(steps) \in StepSet /\ Tail(steps) \in Seq(StepSet)
  BY <1>1
<1> DEFINE s == Head(steps)
<1>3. Writes(s.items)
  BY DEF program, verifies, updates, passesOver, sends, read_aids, Writes
<1>4. \/ pc' = "error" /\ steps' = steps
      \/ /\ pc' = "program" /\ steps' = Tail(steps)
         /\ s.does = "update" => Written(reader, s.items)
  BY DEF program, verifies, updates, passesOver, sends, read_aids, Except, NextStep
<1> QED BY <1>1, <1>2, <1>3, <1>4 DEF program

LEMMA WrittenTyped ==
    ASSUME NEW x \in SUBSET Items, Writes(x), TypeOK, cp \in [Items -> Nat], reader \in Cards
    PROVE  /\ content' \in [Cards -> [Items -> Nat]]
           /\ \A c \in Cards : c # reader => content'[c] = content[c]
           /\ \A i \in Items : content'[reader][i] \in {content[reader][i], cp[i]}
           /\ \A i \in Items : i \notin x => content'[reader][i] = content[reader][i]
           /\ Written(reader, x) => \A i \in x : content'[reader][i] = cp[i]
<1> DEFINE card == [i \in Items |-> IF i \in x THEN cp[i] ELSE content[reader][i]]
<1>1. content \in [Cards -> [Items -> Nat]] /\ card \in [Items -> Nat]
  BY DEF TypeOK
<1>2. Written(reader, x) => content' = [content EXCEPT ![reader] = card]
  BY DEF Written
<1>3. \A i \in Items : card[i] = IF i \in x THEN cp[i] ELSE content[reader][i]
  OBVIOUS
<1> HIDE DEF card
<1> QED BY <1>1, <1>2, <1>3 DEF Writes

\* The CSV file is appended to.
LEMMA CsvGrows ==
    ASSUME Placed, write_params_csv
    PROVE  /\ csv \in Seq(CsvRow) /\ csv' \in Seq(CsvRow)
           /\ \/ pc' = "error" /\ csv' = csv
              \/ /\ pc' = "hlr" /\ Len(csv') = Len(csv) + 1 /\ csv'[Len(csv')] = Row
                 /\ DOMAIN csv' = DOMAIN csv \union {Len(csv) + 1}
                 /\ \A i \in DOMAIN csv : csv'[i] = csv[i]
<1>1. csv \in Seq(CsvRow) /\ Row \in CsvRow
  BY RowTyped DEF write_params_csv, Placed, TypeOK, Progress, CsvRow
<1>2. (pc' = "error" /\ csv' = csv) \/ (pc' = "hlr" /\ csv' = Append(csv, Row))
  BY DEF write_params_csv, Except
<1>3. Append(csv, Row) \in Seq(CsvRow) /\ Len(Append(csv, Row)) = Len(csv) + 1
      /\ Append(csv, Row)[Len(csv) + 1] = Row
      /\ \A i \in 1 .. Len(csv) : Append(csv, Row)[i] = csv[i]
  BY <1>1, AppendProperties
<1>4. Len(csv) \in Nat /\ DOMAIN csv = 1 .. Len(csv)
      /\ DOMAIN Append(csv, Row) = 1 .. Len(csv) + 1
  BY <1>1, <1>3
<1>5. 1 .. Len(csv) + 1 = (1 .. Len(csv)) \union {Len(csv) + 1}
  BY <1>4
<1> QED BY <1>1, <1>2, <1>3, <1>4, <1>5

LEMMA NextPlaced == Placed /\ [Next]_vars => Placed'
<1> SUFFICES ASSUME Placed, [Next]_vars PROVE Placed'
  OBVIOUS
<1> USE DEF Placed, Progress, TypeOK
<1>1. CASE get
  BY <1>1 DEF get, Except, Works, Fails
<1>2. CASE card_detect
  BY <1>2 DEF card_detect, Except, Works, Fails
<1>3. CASE erase
  <2> DEFINE card == [i \in Items |-> IF i \in Erasable(kind) THEN 0 ELSE content[reader][i]]
  <2>1. card \in [Items -> Nat]
    BY <1>3 DEF erase
  <2>2. content' = content \/ content' = [content EXCEPT ![reader] = card]
    BY <1>3 DEF erase
  <2> HIDE DEF card
  <2>3. content' \in [Cards -> [Items -> Nat]]
    BY <2>1, <2>2
  <2> QED BY <1>3, <2>3 DEF erase, Except
<1>4. CASE parameters
  <2>1. cp' \in [Items -> Nat] \/ (pc' = "error" /\ cp' = cp)
    <3>1. CASE opts.source = "cmdline"
      <4>1. num \in Nat /\ kis \in Nat
        BY BatchAssumption
      <4>2. cp' = gen_parameters
        BY <1>4, <3>1 DEF parameters
      <4> QED BY <4>1, <4>2, GeneratedTyped
    <3>2. CASE opts.source # "cmdline"
      BY <1>4, <3>2, RowsTyped DEF parameters, find_row_in_csv_file, Except
    <3> QED BY <3>1, <3>2
  <2>2. steps' \in Seq(StepSet)
    BY <1>4, Programs, BatchAssumption DEF parameters
  <2> QED BY <1>4, <2>1, <2>2 DEF parameters, Except
<1>5. CASE program
  <2>1. content' \in [Cards -> [Items -> Nat]]
    BY <1>5, ProgramStep, WrittenTyped DEF StepSet
  <2> QED BY <1>5, <2>1, ProgramStep
<1>6. CASE program_returns
  BY <1>6 DEF program_returns
<1>7. CASE write_params_csv
  <2>1. csv' \in Seq([iccid : Nat, imsi : Nat, ki : Nat, opc : Nat])
    BY <1>7, CsvGrows DEF CsvRow
  <2> QED BY <1>7, <2>1 DEF write_params_csv, Except
<1>8. CASE write_params_hlr
  BY <1>8, RowTyped DEF write_params_hlr, Except, Entry
<1>9. CASE save_batch
  BY <1>9, BatchAssumption DEF save_batch, Except, Works, Fails
<1>10. CASE done
  BY <1>10 DEF done, PutAway
<1>11. CASE error
  BY <1>11 DEF error, PutAway
<1>12. CASE Interrupt
  BY <1>12 DEF Interrupt, PutAway
<1>13. CASE Resume
  BY <1>13 DEF Resume
<1>14. CASE Restock
  BY <1>14 DEF Restock
<1>15. CASE UNCHANGED vars
  BY <1>15 DEF vars
<1> QED
  BY <1>1, <1>2, <1>3, <1>4, <1>5, <1>6, <1>7, <1>8, <1>9, <1>10, <1>11, <1>12, <1>13, <1>14,
     <1>15 DEF Next

-----------------------------------------------------------------------------
(***************************************************************************)
(* The records of a card: its row is the last of the CSV file as long as   *)
(* the card is worked at, and its IMSI and Ki are in the HLR once they     *)
(* were committed.                                                         *)
(***************************************************************************)
Recorded ==
    /\ pc \in {"hlr", "save", "done"} => Len(csv) \in DOMAIN csv /\ csv[Len(csv)] = Row
    /\ pc \in {"save", "done"} /\ opts.write_hlr => Entry \in hlr

\* What the actions leave alone that write neither the CSV file nor the HLR.
Elsewhere == get \/ card_detect \/ erase \/ parameters \/ program \/ program_returns
             \/ done \/ error \/ Interrupt \/ Resume \/ Restock \/ UNCHANGED vars

LEMMA ElsewhereKeeps ==
    ASSUME Placed, Elsewhere
    PROVE  /\ csv' = csv /\ hlr' = hlr /\ opts' = opts /\ kind' = kind
           /\ pc' \in {"hlr", "save", "done"} => pc' = pc /\ cp' = cp
           /\ pc' \in WithParameters => reader' = reader /\ (pc' = "program" \/ cp' = cp)
<1>1. CASE get
  BY <1>1 DEF get, Except
<1>2. CASE card_detect
  BY <1>2 DEF card_detect, Except
<1>3. CASE erase
  BY <1>3 DEF erase, Except
<1>4. CASE parameters
  BY <1>4 DEF parameters, Except
<1>5. CASE program
  BY <1>5, ProgramStep
<1>6. CASE program_returns
  BY <1>6 DEF program_returns
<1>7. CASE done
  BY <1>7 DEF done
<1>8. CASE error
  BY <1>8 DEF error
<1>9. CASE Interrupt
  BY <1>9 DEF Interrupt
<1>10. CASE Resume
  BY <1>10 DEF Resume
<1>11. CASE Restock
  BY <1>11 DEF Restock
<1>12. CASE UNCHANGED vars
  BY <1>12 DEF vars
<1> QED
  BY <1>1, <1>2, <1>3, <1>4, <1>5, <1>6, <1>7, <1>8, <1>9, <1>10, <1>11, <1>12 DEF Elsewhere

\* What the HLR is written with.
LEMMA HlrGrows ==
    ASSUME Placed, write_params_hlr
    PROVE  /\ csv' = csv /\ cp' = cp /\ opts' = opts /\ pc = "hlr" /\ cp \in [Items -> Nat]
           /\ pc' \in {"error", "save"}
           /\ \/ hlr' = hlr /\ (pc' = "error" \/ ~opts.write_hlr)
              \/ /\ hlr' = hlr \union {Entry}
                 /\ \A s \in hlr : s.imsi # Row.imsi
BY DEF write_params_hlr, Except, Entry, Placed, Progress

LEMMA NextRecorded ==
    ASSUME Placed, Recorded, [Next]_vars
    PROVE  Recorded'
<1>1. CASE Elsewhere
  BY <1>1, ElsewhereKeeps DEF Recorded, Row, Entry
<1>2. CASE write_params_csv
  <2>1. cp' = cp /\ opts' = opts /\ hlr' = hlr
    BY <1>2 DEF write_params_csv
  <2> QED BY <1>2, <2>1, CsvGrows DEF Recorded, Row, Entry
<1>3. CASE write_params_hlr
  BY <1>3, HlrGrows DEF Recorded, Row, Entry
<1>4. CASE save_batch
  BY <1>4 DEF save_batch, Recorded, Row, Entry, Except
<1> QED BY <1>1, <1>2, <1>3, <1>4 DEF Next, Elsewhere

LEMMA NextHlrFollows ==
    ASSUME Placed, Recorded, HlrFollows, [Next]_vars
    PROVE  HlrFollows'
<1>1. CASE Elsewhere \/ save_batch
  <2>1. hlr' = hlr /\ csv' = csv
    BY <1>1, ElsewhereKeeps DEF save_batch
  <2> QED BY <2>1 DEF HlrFollows
<1>2. CASE write_params_csv
  <2>1. hlr' = hlr
    BY <1>2 DEF write_params_csv
  <2>2. \A i \in DOMAIN csv : i \in DOMAIN csv' /\ csv'[i] = csv[i]
    BY <1>2, CsvGrows
  <2> QED BY <2>1, <2>2 DEF HlrFollows
<1>3. CASE write_params_hlr
  <2>1. Len(csv) \in DOMAIN csv /\ csv[Len(csv)] = Row
    BY <1>3, HlrGrows DEF Recorded
  <2>2. Entry.imsi = Row.imsi /\ Entry.ki = Row.ki
    BY <1>3, HlrGrows, RowTyped
  <2>3. csv' = csv /\ hlr' \subseteq hlr \union {Entry}
        /\ (Entry \in hlr' \ hlr => \A s \in hlr : s.imsi # Row.imsi)
    BY <1>3, HlrGrows
  <2>4. \A s \in hlr' : \E i \in DOMAIN csv' : csv'[i].imsi = s.imsi /\ csv'[i].ki = s.ki
    BY <2>1, <2>2, <2>3 DEF HlrFollows
  <2>5. \A s, t \in hlr' : s.imsi = t.imsi => s = t
    BY <2>2, <2>3 DEF HlrFollows
  <2> QED BY <2>4, <2>5 DEF HlrFollows
<1> QED BY <1>1, <1>2, <1>3 DEF Next, Elsewhere

-----------------------------------------------------------------------------
(***************************************************************************)
(* What is on the card: an item that the program method has an update for  *)
(* is written, or its update is still to come.                             *)
(***************************************************************************)
Confirmed ==
    pc \in WithParameters /\ ~opts.dry_run =>
        \A x \in Vouched(kind) :
            content[reader][x] = cp[x] \/ (pc = "program" /\ Confirms(steps, x))

LEMMA VouchedItems ==
    ASSUME Placed
    PROVE  Vouched(kind) \subseteq Items /\ "imsi" \in Vouched(kind)
<1>1. kind \in KnownKinds
  BY BatchAssumption DEF Placed, TypeOK
<1>2. Program(kind) \in Seq(StepSet) /\ Confirms(Program(kind), "imsi")
  BY <1>1, Programs
<1>3. \A i \in DOMAIN Program(kind) : Program(kind)[i] \in StepSet
  BY <1>2
<1>4. \A i \in DOMAIN Program(kind) : Program(kind)[i].items \subseteq Items
  BY <1>3 DEF StepSet
<1> QED BY <1>2, <1>4, VouchedConfirmed DEF Confirms

\* An update that is still to come is the next step or one of the others.
LEMMA ConfirmsNext ==
    ASSUME NEW s \in Seq(StepSet), s # <<>>, NEW x, Confirms(s, x)
    PROVE  (Head(s).does = "update" /\ x \in Head(s).items) \/ Confirms(Tail(s), x)
<1>1. PICK i \in DOMAIN s : s[i].does = "update" /\ x \in s[i].items
  BY DEF Confirms
<1>2. CASE i = 1
  BY <1>1, <1>2
<1>3. CASE i # 1
  <2>1. i - 1 \in 1 .. Len(Tail(s)) /\ Tail(s)[i - 1] = s[i]
    BY <1>1, <1>3, HeadTailProperties
  <2>2. DOMAIN Tail(s) = 1 .. Len(Tail(s))
    BY HeadTailProperties
  <2> QED BY <1>1, <2>1, <2>2 DEF Confirms
<1> QED BY <1>2, <1>3

LEMMA NextConfirmed ==
    ASSUME Placed, Confirmed, [Next]_vars
    PROVE  Confirmed'
<1> SUFFICES ASSUME pc' \in WithParameters, ~opts'.dry_run, NEW x \in Vouched(kind')
             PROVE  content'[reader'][x] = cp'[x] \/ (pc' = "program" /\ Confirms(steps', x))
  BY DEF Confirmed
<1>1. CASE get \/ card_detect \/ erase \/ error \/ done \/ Interrupt \/ Resume \/ Restock
  BY <1>1 DEF get, card_detect, erase, error, done, Interrupt, Resume, Restock, Except
<1>2. CASE parameters
  <2>1. pc' = "program" /\ steps' = Program(kind) /\ kind' = kind
    BY <1>2 DEF parameters, Except
  <2> QED BY <2>1, VouchedConfirmed
<1>3. CASE program
  <2>1. /\ pc = "program" /\ pc' = "program" /\ steps' = Tail(steps)
        /\ kind' = kind /\ reader' = reader /\ cp' = cp /\ ~opts.dry_run
    BY <1>3, ProgramStep
  <2>2. reader \in Cards /\ cp \in [Items -> Nat] /\ TypeOK /\ steps \in Seq(StepSet)
    BY <2>1 DEF Placed, Progress
  <2>3. x \in Items
    BY <2>1, VouchedItems
  <2>4. steps # <<>> /\ Writes(Head(steps).items) /\ Head(steps).items \in SUBSET Items
        /\ (Head(steps).does = "update" => Written(reader, Head(steps).items))
    BY <1>3, <2>1, ProgramStep DEF StepSet
  <2>5. CASE content[reader][x] = cp[x]
    BY <2>1, <2>2, <2>3, <2>4, <2>5, WrittenTyped
  <2>6. CASE Confirms(steps, x)
    <3>1. CASE Head(steps).does = "update" /\ x \in Head(steps).items
      BY <2>1, <2>2, <2>3, <2>4, <3>1, WrittenTyped
    <3>2. CASE Confirms(Tail(steps), x)
      BY <2>1, <3>2
    <3> QED BY <2>2, <2>4, <2>6, <3>1, <3>2, ConfirmsNext
  <2> QED BY <2>1, <2>5, <2>6 DEF Confirmed
<1>4. CASE program_returns
  <2>1. steps = <<>> /\ UNCHANGED <<content, cp, reader, kind, opts>> /\ pc = "program"
    BY <1>4 DEF program_returns
  <2> QED BY <2>1 DEF Confirmed, Confirms
<1>5. CASE write_params_csv \/ write_params_hlr \/ save_batch
  <2>1. UNCHANGED <<content, cp, reader, kind, opts>> /\ pc \in {"csv", "hlr", "save"}
    BY <1>5 DEF write_params_csv, write_params_hlr, save_batch
  <2> QED BY <2>1 DEF Confirmed
<1>6. CASE UNCHANGED vars
  BY <1>6 DEF vars, Confirmed
<1> QED BY <1>1, <1>2, <1>3, <1>4, <1>5, <1>6 DEF Next

-----------------------------------------------------------------------------
(***************************************************************************)
(* The good bin.                                                           *)
(***************************************************************************)

\* A card gets there by done alone, and is not written any more.
LEMMA GoodGrows ==
    ASSUME Placed, [Next]_vars
    PROVE  /\ opts' = opts /\ kind' = kind
           /\ \A g \in Good : g \in Cards /\ content'[g] = content[g]
           /\ \A g \in Good' :
                  \/ g \in Good
                  \/ g = reader /\ done /\ pc' = "get" /\ ~opts.dry_run
<1> USE DEF Placed, TypeOK, Progress
<1>1. CASE get
  BY <1>1 DEF get, Good
<1>2. CASE card_detect
  BY <1>2 DEF card_detect, Good
<1>3. CASE erase
  <2>1. where' = where /\ opts' = opts /\ kind' = kind /\ reader \in Cards /\ where[reader] = "reader"
    BY <1>3 DEF erase
  <2>2. \A g \in Cards : g # reader => content'[g] = content[g]
    BY <1>3 DEF erase
  <2> QED BY <2>1, <2>2 DEF Good
<1>4. CASE parameters
  BY <1>4 DEF parameters, Good
<1>5. CASE program
  <2>1. where' = where /\ opts' = opts /\ kind' = kind /\ reader \in Cards /\ where[reader] = "reader"
    BY <1>5, ProgramStep
  <2>2. \A g \in Cards : g # reader => content'[g] = content[g]
    BY <1>5, ProgramStep, WrittenTyped DEF StepSet
  <2> QED BY <2>1, <2>2 DEF Good
<1>6. CASE program_returns
  BY <1>6 DEF program_returns, Good
<1>7. CASE write_params_csv
  BY <1>7 DEF write_params_csv, Good
<1>8. CASE write_params_hlr
  BY <1>8 DEF write_params_hlr, Good
<1>9. CASE save_batch
  BY <1>9 DEF save_batch, Good
<1>10. CASE done
  <2>1. UNCHANGED <<opts, kind, content>>
    BY <1>10 DEF done
  <2>2. \/ pc' = "get" /\ where' = [where EXCEPT ![reader] = "good"]
        \/ where' = [where EXCEPT ![reader] = "left"]
    BY <1>10 DEF done, PutAway
  <2> QED BY <1>10, <2>1, <2>2 DEF Good
<1>11. CASE error
  BY <1>11 DEF error, PutAway, Good
<1>12. CASE Interrupt
  BY <1>12 DEF Interrupt, PutAway, Good
<1>13. CASE Resume
  BY <1>13 DEF Resume, Good
<1>14. CASE Restock
  BY <1>14 DEF Restock, Good
<1>15. CASE UNCHANGED vars
  BY <1>15 DEF vars, Good
<1> QED
  BY <1>1, <1>2, <1>3, <1>4, <1>5, <1>6, <1>7, <1>8, <1>9, <1>10, <1>11, <1>12, <1>13, <1>14,
     <1>15 DEF Next

\* What is on a card that is done is what has been recorded last.
LEMMA DoneAsRecorded ==
    ASSUME Placed, Recorded, Confirmed, pc = "done", ~opts.dry_run
    PROVE  /\ reader \in Cards /\ cp \in [Items -> Nat]
           /\ content[reader]["imsi"] = cp["imsi"]
           /\ \A x \in Vouched(kind) \intersect {"iccid", "imsi", "ki", "opc"} :
                  csv[Len(csv)][x] = content[reader][x]
           /\ Len(csv) \in DOMAIN csv /\ csv[Len(csv)] = Row
<1>1. cp \in [Items -> Nat] /\ reader \in Cards
  BY DEF Placed, Progress
<1>2. \A x \in Vouched(kind) : content[reader][x] = cp[x]
  BY DEF Confirmed
<1>3. \A x \in {"iccid", "imsi", "ki", "opc"} : Row[x] = cp[x]
  BY DEF Row
<1> QED BY <1>1, <1>2, <1>3, VouchedItems DEF Recorded

-----------------------------------------------------------------------------
(***************************************************************************)
(* Why two cards never have one IMSI.  With generated parameters it is the *)
(* number, which counts up: the number noted for a later batch is not      *)
(* below that of any good card.                                            *)
(***************************************************************************)
Numbered ==
    opts.source = "cmdline" =>
        /\ pc \in {"program", "csv", "hlr", "save"} => cp["imsi"] = num + 1
        /\ pc = "done" => cp["imsi"] = num /\ noted = num
        /\ noted # none => noted <= num
        /\ \A g \in Good :
               /\ content[g]["imsi"] <= num
               /\ pc = "done" => content[g]["imsi"] < num
               /\ noted # none => content[g]["imsi"] <= noted

\* With looked-up parameters it is the row's, and a card keeps what it is found by.
RowOf(c, i) == i \in DOMAIN Rows /\ Rows[i][opts.read] = Fresh[c][opts.read]

LookedUp ==
    opts.source = "csv" =>
        /\ pc # "erase"
        /\ \A c \in Cards : content[c][opts.read] = Fresh[c][opts.read]
        /\ pc \in WithParameters => \E i : RowOf(reader, i) /\ cp = read_params_csv(i)
        /\ \A g \in Good : \E i : RowOf(g, i) /\ content[g]["imsi"] = Rows[i].imsi

Apart == pc \in WithParameters => \A g \in Good : content[g]["imsi"] # cp["imsi"]

LEMMA AlwaysApart ==
    ASSUME Placed, Numbered, LookedUp
    PROVE  Apart
<1> SUFFICES ASSUME pc \in WithParameters, NEW g \in Good
             PROVE  content[g]["imsi"] # cp["imsi"]
  BY DEF Apart
<1>1. g \in Cards /\ reader \in Cards /\ g # reader
  BY DEF Good, Placed, Progress
<1>2. opts \in Options /\ opts.source \in {"cmdline", "csv"}
  BY BatchAssumption DEF Placed, TypeOK
<1>3. CASE opts.source = "cmdline"
  <2>1. num \in Nat /\ content[g]["imsi"] \in Nat
    BY <1>1, BatchAssumption DEF Placed, TypeOK, Items
  <2> QED BY <1>3, <2>1 DEF Numbered
<1>4. CASE opts.source = "csv"
  <2>1. PICK i : RowOf(reader, i) /\ cp = read_params_csv(i)
    BY <1>4 DEF LookedUp
  <2>2. PICK j : RowOf(g, j) /\ content[g]["imsi"] = Rows[j].imsi
    BY <1>4 DEF LookedUp
  <2>3. cp["imsi"] = Rows[i].imsi
    BY <2>1, RowsTyped DEF RowOf, Identity
  <2>4. Rows[i].imsi = Rows[j].imsi => i = j
    BY <1>2, <1>4, <2>1, <2>2, CsvAssumption DEF RowOf
  <2>5. i # j
    BY <1>1, <1>2, <1>4, <2>1, <2>2, CsvAssumption DEF RowOf
  <2> QED BY <2>2, <2>3, <2>4, <2>5
<1> QED BY <1>2, <1>3, <1>4

LEMMA NextNumbered ==
    ASSUME Placed, Recorded, Confirmed, Numbered, [Next]_vars
    PROVE  Numbered'
<1> SUFFICES ASSUME opts'.source = "cmdline" PROVE Numbered'
  BY DEF Numbered
<1>0. opts.source = "cmdline" /\ num \in Nat
      /\ \A g \in Good : g \in Cards /\ content'[g] = content[g] /\ content[g]["imsi"] \in Nat
  BY GoodGrows, BatchAssumption DEF Placed, TypeOK, Items
<1>1. CASE save_batch
  <2>1. /\ pc = "save" /\ num' = num + 1 /\ cp' = cp
        /\ (noted' = num + 1 /\ pc' = "done") \/ (pc' = "error" /\ noted' \in {noted, none})
    BY <1>1 DEF save_batch, Except
  <2>2. \A g \in Good' : g \in Good
    BY <1>1, GoodGrows DEF save_batch, done
  <2> QED BY <1>0, <2>1, <2>2 DEF Numbered, Placed, TypeOK
<1>2. CASE done
  <2>1. /\ pc = "done" /\ pc' \in {"get", "off"} /\ num' = num /\ noted' = noted
        /\ content' = content
    BY <1>2 DEF done
  <2>2. \A g \in Good' : g \in Good \/ (g = reader /\ ~opts.dry_run)
    BY GoodGrows
  <2>3. ~opts.dry_run => content[reader]["imsi"] = num /\ noted = num
    BY <1>0, <2>1, DoneAsRecorded DEF Numbered
  <2> QED BY <1>0, <2>1, <2>2, <2>3 DEF Numbered
<1>3. CASE ~save_batch /\ ~done
  <2>1. \A g \in Good' : g \in Good /\ content'[g] = content[g]
    BY <1>0, <1>3, GoodGrows
  <2>2. CASE parameters
    <3>1. pc' = "program" /\ cp' = gen_parameters /\ num' = num /\ noted' = noted
      BY <1>0, <2>2 DEF parameters
    <3>2. cp'["imsi"] = num + 1
      BY <1>0, <3>1, GeneratedTyped DEF Placed, Progress
    <3> QED BY <1>0, <2>1, <3>1, <3>2 DEF Numbered
  <2>3. CASE Resume
    <3>1. noted # none /\ num' = noted /\ noted' = noted /\ pc' = "get"
      BY <2>3 DEF Resume
    <3> QED BY <1>0, <2>1, <3>1 DEF Numbered, Placed, TypeOK
  <2>4. CASE Interrupt
    <3>1. pc' = "off" /\ num' = num /\ noted' \in {noted, none}
      BY <2>4 DEF Interrupt
    <3> QED BY <1>0, <2>1, <3>1 DEF Numbered
  <2>5. CASE program
    <3>1. pc = "program" /\ pc' \in {"program", "error"} /\ UNCHANGED <<num, noted, cp>>
      BY <2>5, ProgramStep
    <3> QED BY <1>0, <2>1, <3>1 DEF Numbered
  <2>6. CASE program_returns \/ write_params_csv \/ write_params_hlr
    <3>1. /\ pc \in {"program", "csv", "hlr"} /\ pc' \in {"csv", "hlr", "save", "error"}
          /\ UNCHANGED <<num, noted, cp>>
      BY <2>6 DEF program_returns, write_params_csv, write_params_hlr, Except
    <3> QED BY <1>0, <2>1, <3>1 DEF Numbered
  <2>7. CASE get \/ card_detect \/ erase \/ error \/ Restock
    <3>1. /\ pc' \in {"detect", "erase", "parameters", "get", "off", "error"}
          /\ UNCHANGED <<num, noted>>
      BY <2>7 DEF get, card_detect, erase, error, Restock, Except
    <3> QED BY <1>0, <2>1, <3>1 DEF Numbered
  <2>8. CASE UNCHANGED vars
    BY <1>0, <2>1, <2>8 DEF vars, Numbered
  <2> QED BY <1>3, <2>2, <2>3, <2>4, <2>5, <2>6, <2>7, <2>8 DEF Next
<1> QED BY <1>1, <1>2, <1>3

LEMMA NextLookedUp ==
    ASSUME Placed, Recorded, Confirmed, LookedUp, [Next]_vars
    PROVE  LookedUp'
<1> SUFFICES ASSUME opts'.source = "csv" PROVE LookedUp'
  BY DEF LookedUp
<1>0. /\ opts' = opts /\ opts.source = "csv" /\ opts \in Options /\ ~opts.erase
      /\ opts.read \in Identity /\ opts.read \in Items
  BY GoodGrows, BatchAssumption, CsvAssumption DEF Placed, TypeOK, Identity, Items
<1>1. pc' # "erase"
  BY <1>0 DEF Next, LookedUp, vars, get, card_detect, erase, parameters, program_returns,
     write_params_csv, write_params_hlr, save_batch, done, error, Interrupt, Resume, Restock,
     Except, program, verifies, updates, passesOver, sends, read_aids, NextStep
<1>2. CASE program
  <2>1. /\ pc = "program" /\ UNCHANGED <<reader, cp, where>>
        /\ Writes(Head(steps).items) /\ Head(steps).items \in SUBSET Items
    BY <1>2, ProgramStep DEF StepSet
  <2>2. PICK i : RowOf(reader, i) /\ cp = read_params_csv(i)
    BY <1>0, <2>1 DEF LookedUp
  <2>3. cp[opts.read] = Fresh[reader][opts.read]
    BY <1>0, <2>2, RowsTyped DEF RowOf
  <2>4. \A c \in Cards : content'[c][opts.read] = Fresh[c][opts.read]
    <3>1. /\ \A c \in Cards : c # reader => content'[c] = content[c]
          /\ content'[reader][opts.read] \in {content[reader][opts.read], cp[opts.read]}
          /\ reader \in Cards
      BY <1>0, <2>1, WrittenTyped DEF Placed, Progress
    <3> QED BY <1>0, <2>3, <3>1 DEF LookedUp
  <2>5. \A g \in Good' : g \in Good /\ content'[g] = content[g]
    BY <2>1, GoodGrows DEF done
  <2> QED BY <1>0, <1>1, <2>1, <2>2, <2>4, <2>5 DEF LookedUp, RowOf
<1>3. CASE ~program
  <2>1. content' = content
    BY <1>3, <1>0 DEF Next, LookedUp, vars, get, card_detect, erase, parameters, program_returns,
       write_params_csv, write_params_hlr, save_batch, done, error, Interrupt, Resume, Restock
  <2>2. pc' \in WithParameters => \E i : RowOf(reader', i) /\ cp' = read_params_csv(i)
    <3>1. CASE parameters
      <4>1. pc' = "error"
            \/ \E i \in find_row_in_csv_file(opts.read, content[reader][opts.read]) :
                  cp' = read_params_csv(i)
        BY <1>0, <3>1 DEF parameters, Except
      <4>2. reader' = reader /\ reader \in Cards
        BY <3>1 DEF parameters, Placed, Progress
      <4>3. \A i \in find_row_in_csv_file(opts.read, content[reader][opts.read]) : RowOf(reader, i)
        BY <1>0, <4>2 DEF find_row_in_csv_file, RowOf, LookedUp
      <4> QED BY <4>1, <4>2, <4>3
    <3>2. CASE get \/ card_detect \/ erase \/ done \/ error \/ Interrupt \/ Resume \/ Restock
      BY <3>2 DEF get, card_detect, erase, done, error, Interrupt, Resume, Restock, Except
    <3>3. CASE \/ program_returns \/ write_params_csv \/ write_params_hlr \/ save_batch
               \/ UNCHANGED vars
      <4>1. UNCHANGED <<reader, cp>> /\ (pc' \in WithParameters => pc \in WithParameters)
        BY <3>3 DEF program_returns, write_params_csv, write_params_hlr, save_batch, vars
      <4> QED BY <1>0, <4>1 DEF LookedUp
    <3> QED BY <1>3, <3>1, <3>2, <3>3 DEF Next
  <2>3. \A g \in Good' : \E i : RowOf(g, i) /\ content[g]["imsi"] = Rows[i].imsi
    <3> SUFFICES ASSUME NEW g \in Good', g \notin Good
                 PROVE  \E i : RowOf(g, i) /\ content[g]["imsi"] = Rows[i].imsi
      BY <1>0 DEF LookedUp
    <3>1. g = reader /\ pc = "done" /\ ~opts.dry_run
      BY GoodGrows DEF done
    <3>2. PICK i : RowOf(reader, i) /\ cp = read_params_csv(i)
      BY <1>0, <3>1 DEF LookedUp
    <3>3. cp["imsi"] = Rows[i].imsi
      BY <3>2, RowsTyped DEF RowOf, Identity
    <3> QED BY <3>1, <3>2, <3>3, DoneAsRecorded
  <2> QED BY <1>0, <1>1, <2>1, <2>2, <2>3 DEF LookedUp, RowOf
<1> QED BY <1>2, <1>3

-----------------------------------------------------------------------------
(***************************************************************************)
(* The records of the good cards: no row with the IMSI of one is written   *)
(* any more.                                                               *)
(***************************************************************************)
Files == {"iccid", "imsi", "ki", "opc"}

LastRowAt(g, r) ==
    /\ r \in DOMAIN csv /\ csv[r].imsi = content[g]["imsi"]
    /\ \A j \in DOMAIN csv : csv[j].imsi = content[g]["imsi"] => j <= r

Kept(g) ==
    /\ \E r : LastRowAt(g, r) /\ \A x \in Vouched(kind) \intersect Files : csv[r][x] = content[g][x]
    /\ opts.write_hlr /\ "ki" \in Vouched(kind) =>
           [imsi |-> content[g]["imsi"], ki |-> content[g]["ki"]] \in hlr

GoodKept == \A g \in Good : Kept(g)

LEMMA NextGoodKept ==
    ASSUME Placed, Recorded, Confirmed, Apart, GoodKept, [Next]_vars
    PROVE  GoodKept'
<1> SUFFICES ASSUME NEW g \in Good' PROVE Kept(g)'
  BY DEF GoodKept
<1>1. opts' = opts /\ kind' = kind
  BY GoodGrows
<1>2. hlr \subseteq hlr'
  <2>1. CASE Elsewhere \/ write_params_csv \/ save_batch
    BY <2>1, ElsewhereKeeps DEF write_params_csv, save_batch
  <2>2. CASE write_params_hlr
    BY <2>2, HlrGrows
  <2> QED BY <2>1, <2>2 DEF Next, Elsewhere
<1>3. CASE g \in Good
  <2>1. content'[g] = content[g]
    BY <1>3, GoodGrows
  <2>2. PICK r : LastRowAt(g, r) /\ \A x \in Vouched(kind) \intersect Files : csv[r][x] = content[g][x]
    BY <1>3 DEF GoodKept, Kept
  <2>3. CASE csv' = csv
    BY <1>1, <1>2, <1>3, <2>1, <2>2, <2>3 DEF GoodKept, Kept, LastRowAt
  <2>4. CASE csv' # csv
    <3>1. write_params_csv
      BY <2>4, ElsewhereKeeps, HlrGrows DEF Next, Elsewhere, save_batch
    <3>2. /\ DOMAIN csv' = DOMAIN csv \union {Len(csv) + 1} /\ csv'[Len(csv) + 1] = Row
          /\ \A i \in DOMAIN csv : csv'[i] = csv[i]
      BY <2>4, <3>1, CsvGrows
    <3>3. Row.imsi # content[g]["imsi"]
      BY <1>3, <3>1, RowTyped DEF write_params_csv, Apart, Placed, Progress
    <3>4. LastRowAt(g, r)'
      BY <2>1, <2>2, <3>2, <3>3 DEF LastRowAt
    <3>5. csv'[r] = csv[r]
      BY <2>2, <3>2 DEF LastRowAt
    <3> QED BY <1>1, <1>2, <1>3, <2>1, <2>2, <3>4, <3>5 DEF GoodKept, Kept
  <2> QED BY <2>3, <2>4
<1>4. CASE g \notin Good
  <2>1. g = reader /\ done /\ ~opts.dry_run
    BY <1>4, GoodGrows
  <2>2. pc = "done" /\ content' = content /\ csv' = csv /\ hlr' = hlr
    BY <2>1 DEF done
  <2>3. /\ content[g]["imsi"] = cp["imsi"] /\ cp \in [Items -> Nat]
        /\ \A x \in Vouched(kind) \intersect Files : csv[Len(csv)][x] = content[g][x]
        /\ Len(csv) \in DOMAIN csv /\ csv[Len(csv)] = Row
    BY <2>1, <2>2, DoneAsRecorded DEF Files
  <2>4. LastRowAt(g, Len(csv))
    <3>1. \A j \in DOMAIN csv : j <= Len(csv)
      BY DEF Placed, TypeOK
    <3> QED BY <2>3, <3>1, RowTyped DEF LastRowAt
  <2>5. "ki" \in Vouched(kind) => content[g]["ki"] = cp["ki"]
    BY <2>1, <2>2 DEF Confirmed
  <2>6. opts.write_hlr => Entry \in hlr
    BY <2>2 DEF Recorded
  <2>7. Entry = [imsi |-> cp["imsi"], ki |-> cp["ki"]]
    BY DEF Entry, Row
  <2>8. Kept(g)
    BY <2>3, <2>4, <2>5, <2>6, <2>7 DEF Kept
  <2> QED BY <1>1, <2>2, <2>8 DEF Kept, LastRowAt
<1> QED BY <1>3, <1>4

LEMMA NextGoodDistinct ==
    ASSUME Placed, Recorded, Confirmed, Apart, GoodDistinct, [Next]_vars
    PROVE  GoodDistinct'
<1> SUFFICES ASSUME NEW c \in Good', NEW d \in Good', content'[c]["imsi"] = content'[d]["imsi"]
             PROVE  c = d
  BY DEF GoodDistinct
<1>1. \A g \in Good' : \/ g \in Good /\ content'[g] = content[g]
                       \/ g = reader /\ done /\ ~opts.dry_run
  BY GoodGrows
<1>2. CASE done /\ ~opts.dry_run
  <2>1. content' = content /\ pc = "done"
    BY <1>2 DEF done
  <2>2. content[reader]["imsi"] = cp["imsi"]
    BY <1>2, <2>1, DoneAsRecorded
  <2> QED BY <1>1, <2>1, <2>2 DEF Apart, GoodDistinct
<1>3. CASE ~(done /\ ~opts.dry_run)
  BY <1>1, <1>3 DEF GoodDistinct
<1> QED BY <1>2, <1>3

LEMMA KeptIsRecorded == Placed /\ GoodKept => GoodAsRecorded
<1> SUFFICES ASSUME Placed, GoodKept, NEW c \in Good
             PROVE  /\ LastRow(content[c]["imsi"]) # {}
                    /\ \A r \in LastRow(content[c]["imsi"]), i \in Vouched(kind) \intersect Files :
                           csv[r][i] = content[c][i]
                    /\ opts.write_hlr /\ "ki" \in Vouched(kind) =>
                           [imsi |-> content[c]["imsi"], ki |-> content[c]["ki"]] \in hlr
  BY DEF GoodAsRecorded, Files
<1>1. PICK r : LastRowAt(c, r) /\ \A x \in Vouched(kind) \intersect Files : csv[r][x] = content[c][x]
  BY DEF GoodKept, Kept
<1>2. r \in LastRow(content[c]["imsi"])
  BY <1>1 DEF LastRowAt, LastRow
<1>3. \A q \in LastRow(content[c]["imsi"]) : q = r
  <2>1. \A i \in DOMAIN csv : i \in Nat
    BY DEF Placed, TypeOK
  <2> QED BY <1>1, <1>2, <2>1 DEF LastRowAt, LastRow
<1> QED BY <1>1, <1>2, <1>3 DEF GoodKept, Kept

-----------------------------------------------------------------------------
(***************************************************************************)
(* The inductive invariant.                                                *)
(***************************************************************************)
IInv ==
    /\ Placed /\ Recorded /\ Confirmed
    /\ Numbered /\ LookedUp
    /\ HlrFollows /\ GoodKept /\ GoodDistinct

LEMMA InitIInv == Init => IInv
<1> SUFFICES ASSUME Init PROVE IInv
  OBVIOUS
<1>1. Placed
  BY InitPlaced
<1>2. Good = {}
  BY DEF Init, Good
<1>3. Recorded /\ Confirmed /\ HlrFollows /\ GoodKept /\ GoodDistinct
  BY <1>2 DEF Init, Recorded, Confirmed, HlrFollows, GoodKept, GoodDistinct
<1>4. Numbered
  BY <1>2, BatchAssumption DEF Init, Numbered
<1>5. LookedUp
  <2> SUFFICES ASSUME opts.source = "csv", NEW c \in Cards
               PROVE  content[c][opts.read] = Fresh[c][opts.read]
    BY <1>2 DEF Init, LookedUp
  <2>1. opts.read \in Identity /\ opts.read \in Items
    BY BatchAssumption DEF Init, Identity, Items
  <2>2. Fresh[c] \in [iccid : Nat, imsi : Nat]
    BY BatchAssumption
  <2>3. opts.read \in DOMAIN Fresh[c]
    BY <2>1, <2>2 DEF Identity
  <2> QED BY <2>1, <2>3 DEF Init
<1> QED BY <1>1, <1>3, <1>4, <1>5 DEF IInv

LEMMA NextIInv == IInv /\ [Next]_vars => IInv'
<1> SUFFICES ASSUME IInv, [Next]_vars PROVE IInv'
  OBVIOUS
<1>1. Apart
  BY AlwaysApart DEF IInv
<1> QED
  BY <1>1, NextPlaced, NextRecorded, NextConfirmed, NextNumbered, NextLookedUp, NextHlrFollows,
     NextGoodKept, NextGoodDistinct DEF IInv

\* Whatever fails or is interrupted, and however often a batch is taken up again, a card
\* has what its program method wrote, its records say so, and its IMSI is taken.
THEOREM Invariant == Spec => []IInv
BY InitIInv, NextIInv, PTL DEF Spec

\* The types of process_card's state.
THEOREM TypeCorrect == Spec => []TypeOK
<1>1. IInv => TypeOK
  BY DEF IInv, Placed
<1> QED BY <1>1, Invariant, PTL

\* A card of the good bin is recorded as it is, in the CSV file and in the HLR.
THEOREM GoodRecorded == Spec => []GoodAsRecorded
<1>1. IInv => GoodAsRecorded
  BY KeptIsRecorded DEF IInv
<1> QED BY <1>1, Invariant, PTL

\* No two cards of the good bin have one IMSI.
THEOREM GoodApart == Spec => []GoodDistinct
<1>1. IInv => GoodDistinct
  BY DEF IInv
<1> QED BY <1>1, Invariant, PTL

\* The HLR has every subscriber once, and none that the CSV file does not have.
THEOREM HlrInCsv == Spec => []HlrFollows
<1>1. IInv => HlrFollows
  BY DEF IInv
<1> QED BY <1>1, Invariant, PTL

-----------------------------------------------------------------------------
(***************************************************************************)
(* A card leaves the reader.  What process_card has yet to do for it: the  *)
(* calls that follow, and the steps of the program method.                 *)
(***************************************************************************)
Turn == [detect |-> 9, erase |-> 8, parameters |-> 7, program |-> 6, csv |-> 5, hlr |-> 4,
         save |-> 3, done |-> 2, error |-> 1]

StepsToGo ==
    IF pc \in {"detect", "erase", "parameters"} THEN Len(Program(kind))
    ELSE IF pc = "program" THEN Len(steps) ELSE 0

ToGo == Turn[pc] + StepsToGo

\* The only card in the reader is the one at work.
InReader == \A c \in Cards : where[c] = "reader" => pc \in WithCard /\ c = reader

\* The steps of a program are counted down.
LEMMA StepsCounted ==
    ASSUME Placed
    PROVE  /\ Len(Program(kind)) \in Nat /\ Len(steps) \in Nat
           /\ steps # <<>> => Len(Tail(steps)) \in Nat /\ Len(Tail(steps)) + 1 = Len(steps)
<1>1. Program(kind) \in Seq(StepSet) /\ steps \in Seq(StepSet)
  BY Programs, BatchAssumption DEF Placed, TypeOK, Progress
<1> QED BY <1>1

LEMMA ToGoCounts ==
    ASSUME Placed, pc \in WithCard
    PROVE  ToGo \in Nat /\ ToGo > 0
<1>1. StepsToGo \in Nat
  BY StepsCounted DEF StepsToGo
<1>2. Turn[pc] \in Nat \ {0}
  BY DEF Turn
<1> QED BY <1>1, <1>2 DEF ToGo

\* Every call is nearer to the end than the one before it.
LEMMA ToGoFalls ==
    ASSUME Placed, Next, pc \in WithCard, pc' \in WithCard
    PROVE  ToGo' < ToGo
<1> USE DEF ToGo, StepsToGo, Turn
<1>1. /\ Len(Program(kind)) \in Nat /\ Len(steps) \in Nat
      /\ steps # <<>> => Len(Tail(steps)) \in Nat /\ Len(Tail(steps)) + 1 = Len(steps)
  BY StepsCounted
<1>2. CASE card_detect
  BY <1>1, <1>2 DEF card_detect, Except
<1>3. CASE erase
  BY <1>1, <1>3 DEF erase, Except
<1>4. CASE parameters
  BY <1>1, <1>4 DEF parameters, Except
<1>5. CASE program
  <2>1. /\ pc = "program" /\ steps # <<>>
        /\ (pc' = "error" \/ (pc' = "program" /\ steps' = Tail(steps)))
    BY <1>5, ProgramStep
  <2>2. Len(Tail(steps)) \in Nat /\ Len(Tail(steps)) + 1 = Len(steps)
    BY <1>1, <2>1
  <2>3. \E n, m \in Nat : Len(steps) = n /\ Len(Tail(steps)) = m /\ m + 1 = n
    <3>1. Len(steps) \in Nat
      BY <1>1
    <3> QED BY <2>2, <3>1, Zenon
  <2> PICK n, m \in Nat : Len(steps) = n /\ Len(Tail(steps)) = m /\ m + 1 = n
    BY <2>3, Zenon
  <2>4. CASE pc' = "error"
    BY <2>1, <2>4
  <2>5. CASE pc' = "program" /\ steps' = Tail(steps)
    BY <2>1, <2>5
  <2> QED BY <2>1, <2>4, <2>5
<1>6. CASE program_returns
  BY <1>1, <1>6 DEF program_returns
<1>7. CASE write_params_csv
  BY <1>7 DEF write_params_csv, Except
<1>8. CASE write_params_hlr
  BY <1>8 DEF write_params_hlr, Except
<1>9. CASE save_batch
  BY <1>9 DEF save_batch, Except
<1>10. ~(get \/ done \/ error \/ Interrupt \/ Resume \/ Restock)
  BY DEF get, done, error, Interrupt, Resume, Restock
<1> QED
  BY <1>2, <1>3, <1>4, <1>5, <1>6, <1>7, <1>8, <1>9, <1>10 DEF Next

LEMMA NextInReader == Placed /\ InReader /\ [Next]_vars => InReader'
<1> SUFFICES ASSUME Placed, InReader, [Next]_vars, NEW c \in Cards, where'[c] = "reader"
             PROVE  pc' \in WithCard /\ c = reader'
  BY DEF InReader
<1> USE DEF InReader
<1>0. /\ where \in [Cards -> {"stock", "reader", "good", "error", "left"}]
      /\ pc \in WithCard => reader \in Cards /\ reader # none
  BY NoneAssumption DEF Placed, TypeOK, Progress
<1>1. CASE get
  BY <1>0, <1>1 DEF get, Except
<1>2. CASE where' = where /\ reader' = reader /\ pc' \in WithCard
  BY <1>2
<1>3. CASE pc \in WithCard /\ \E bin \in {"good", "error", "left"} : PutAway(bin)
  BY <1>0, <1>3 DEF PutAway
<1>4. CASE Interrupt
  <2>1. where[c] = "reader" => c = reader /\ reader # none
    BY <1>0
  <2>2. CASE reader = none
    BY <1>4, <2>1, <2>2 DEF Interrupt
  <2>3. CASE reader # none
    BY <1>0, <1>4, <2>1, <2>3 DEF Interrupt, PutAway
  <2> QED BY <2>2, <2>3
<1>5. CASE Resume \/ Restock
  BY <1>0, <1>5 DEF Resume, Restock
<1>6. CASE UNCHANGED vars
  BY <1>6 DEF vars
<1>7. CASE card_detect \/ erase \/ parameters \/ program \/ program_returns
           \/ write_params_csv \/ write_params_hlr \/ save_batch
  <2>1. CASE program
    BY <1>2, <2>1, ProgramStep
  <2>2. CASE card_detect \/ erase \/ parameters \/ program_returns
             \/ write_params_csv \/ write_params_hlr \/ save_batch
    BY <1>2, <2>2 DEF card_detect, erase, parameters, program_returns, write_params_csv,
                      write_params_hlr, save_batch, Except
  <2> QED BY <1>7, <2>1, <2>2
<1>8. CASE done \/ error
  BY <1>3, <1>8 DEF done, error
<1> QED BY <1>1, <1>4, <1>5, <1>6, <1>7, <1>8 DEF Next

\* No card is forgotten in the reader, and none is worked at for ever: the card in the
\* reader is the one that process_card is at work with, and every step either takes it
\* out (ch.done, ch.error, or the interruption of the program) or leaves less to do for
\* it, in natural numbers.
THEOREM CardLeaves ==
    Spec => /\ []InReader
            /\ [](pc \in WithCard => ToGo \in Nat)
            /\ [][(pc \in WithCard) /\ (pc' \in WithCard) => ToGo' < ToGo]_vars
<1>1. Init => Placed /\ InReader
  <2>1. Init => InReader
    BY DEF Init, InReader
  <2> QED BY <2>1, InitPlaced
<1>2. (Placed /\ InReader) /\ [Next]_vars => (Placed /\ InReader)'
  BY NextPlaced, NextInReader
<1>3. Placed => (pc \in WithCard => ToGo \in Nat)
  BY ToGoCounts
<1>4. Placed /\ [Next]_vars => [(pc \in WithCard) /\ (pc' \in WithCard) => ToGo' < ToGo]_vars
  BY ToGoFalls
<1> QED
  BY <1>1, <1>2, <1>3, <1>4, PTL DEF Spec

=============================================================================
