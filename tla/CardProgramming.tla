--------------------------- MODULE CardProgramming ---------------------------
(***************************************************************************)
(* pySim-prog.py in batch mode: cards are taken, programmed with generated *)
(* or looked-up parameters, recorded in a CSV file and an HLR, counted and *)
(* put away (pySim/card_handler.py); pySim/legacy/cards.py holds what a    *)
(* program method writes for each type of card.  A command may fail, a     *)
(* file may not be writable, the user may interrupt, and the batch may be  *)
(* taken up again.                                                         *)
(***************************************************************************)
EXTENDS Naturals, Sequences, FiniteSets

CONSTANTS
    Cards,          \* the cards of the batch
    Kinds,          \* the types of card, see Program
    Options,        \* command lines: [source, read, write_hlr, dry_run, erase]
    Rows,           \* the CSV file that parameters are read from: [iccid, imsi, ki]
    Fresh,          \* the ICCID and the IMSI that every card comes with
    none,
    FirstNum,       \* --num
    MaxNum,         \* bound: card numbers
    MaxFaults,      \* bound: failures and interruptions
    NeverFails      \* parts of the world that do not fail

VARIABLES
    kind,       \* the type of the cards
    opts,       \* the command line
    pc,         \* where process_card and its loop are
    num,        \* opts.num
    reader,     \* the card in the reader
    where,      \* where every card is: stock, reader, good, error, left
    content,    \* what is written on every card
    cp,         \* the parameters of this card
    steps,      \* what program has yet to do
    aids,       \* whether the AIDs of the card could be read
    kis,        \* number of random keys drawn
    csv,        \* rows written
    hlr,        \* subscribers written
    noted,      \* number to go on with: the batch state's, or that of --num
    faults      \* failures so far

vars == <<kind, opts, pc, num, reader, where, content, cp, steps, aids, kis,
          csv, hlr, noted, faults>>

-----------------------------------------------------------------------------
(***************************************************************************)
(* What the program methods do, in their order: PINs are verified, files   *)
(* are written, and a refusal raises; some commands are sent with          *)
(* send_apdu, which looks at no status word; some files are written only   *)
(* in an application whose AID was found.  Files that hold neither         *)
(* identity nor key (PLMN lists, SMSP, SPN, AD ...) are "rest".            *)
(***************************************************************************)
Items == {"iccid", "imsi", "ki", "opc", "adm", "usim_ki", "isim_ki"}

Step(does, items) == [does |-> does, items |-> items]
Verify == Step("verify", {})
VerifyNew == Step("verify", {"adm"})
Update(items) == Step("update", items)
Rest == Step("update", {})
Sent(items) == Step("send", items)
ReadAids == Step("read_aids", {})
InAdf(items) == Step("adf", items)

MagicSim_program == <<Rest, Update({"iccid", "imsi", "ki"}), Rest>>
FakeMagicSim_program == <<Rest, Update({"iccid", "imsi", "ki"})>>
GrcardSim_program == <<Verify, Update({"iccid"}), Update({"imsi"}), Rest, Sent({"ki"}), Rest>>
SysmoUSIMgr1_program == <<Verify, Update({"ki", "opc", "iccid", "imsi"})>>
SysmoSIMgr2_program ==
    <<Verify, Sent({"adm"}), VerifyNew, Update({"iccid"}), Update({"imsi"}), Rest, Update({"ki"}), Rest>>
SysmoUSIMSJS1_program ==
    <<Verify, Update({"iccid"}), Update({"ki"}), Update({"opc"}), Rest, Update({"imsi"}), Rest>>
FairwavesSIM_program ==
    <<Verify, Rest, Update({"imsi"}), Update({"ki"}), Update({"opc"}), Rest>>
OpenCellsSim_program ==
    <<Verify, Update({"iccid"}), Update({"ki"}), Update({"opc"}), Update({"imsi"})>>
WavemobileSim_program == <<Verify, Rest, Update({"imsi"}), Rest>>
SysmoISIMSJA2_program ==
    <<Verify, ReadAids, Rest, Update({"imsi"}), Rest, Update({"ki"}), Update({"opc"}),
      InAdf({"isim_ki"}), InAdf({}), InAdf({"usim_ki"}), InAdf({})>>
GialerSim_program ==
    <<Verify, Update({"iccid"}), Update({"imsi"}), Rest, Update({"ki"}), Update({"opc"}), Rest>>

KnownKinds ==
    {"supersim", "magicsim", "fakemagicsim", "grcardsim", "sysmosim-gr1", "sysmoUSIM-GR1",
     "sysmoSIM-GR2", "sysmoUSIM-SJS1", "Fairwaves-SIM", "OpenCells-SIM", "Wavemobile-SIM",
     "sysmoISIM-SJA2", "sysmoISIM-SJA5", "gialersim"}

Program(k) ==
    CASE k \in {"supersim", "magicsim"}              -> MagicSim_program
      [] k = "fakemagicsim"                          -> FakeMagicSim_program
      [] k \in {"grcardsim", "sysmosim-gr1"}         -> GrcardSim_program
      [] k = "sysmoUSIM-GR1"                         -> SysmoUSIMgr1_program
      [] k = "sysmoSIM-GR2"                          -> SysmoSIMgr2_program
      [] k = "sysmoUSIM-SJS1"                        -> SysmoUSIMSJS1_program
      [] k = "Fairwaves-SIM"                         -> FairwavesSIM_program
      [] k = "OpenCells-SIM"                         -> OpenCellsSim_program
      [] k = "Wavemobile-SIM"                        -> WavemobileSim_program
      [] k \in {"sysmoISIM-SJA2", "sysmoISIM-SJA5"}  -> SysmoISIMSJA2_program
      [] k = "gialersim"                             -> GialerSim_program

\* Only the magic SIMs can be erased.
Erasable(k) == IF k \in {"supersim", "magicsim", "fakemagicsim"} THEN {"iccid", "imsi", "ki"} ELSE {}

\* What a program method that returns has had confirmed by the card.
Vouched(k) ==
    UNION {s.items : s \in {Program(k)[i] : i \in {i \in DOMAIN Program(k) : Program(k)[i].does = "update"}}}

-----------------------------------------------------------------------------
Identity == {"iccid", "imsi"}

ASSUME BatchAssumption ==
    /\ FirstNum \in Nat /\ MaxNum \in Nat /\ FirstNum <= MaxNum
    /\ Kinds \subseteq KnownKinds
    /\ Options \subseteq [source : {"cmdline", "csv"}, read : Identity, write_hlr : BOOLEAN,
                         dry_run : BOOLEAN, erase : BOOLEAN]
    /\ Rows \in Seq([iccid : Nat, imsi : Nat, ki : Nat])
    /\ Fresh \in [Cards -> [iccid : Nat, imsi : Nat]]

\* What whoever provides a CSV file has to see to: nobody checks that two rows, or two
\* cards, are not taken for one, and a card that was erased is not to be found any more.
ASSUME CsvAssumption ==
    \A o \in Options : o.source = "csv" =>
        /\ ~o.erase
        /\ \A i, j \in DOMAIN Rows : Rows[i].imsi = Rows[j].imsi => i = j
        /\ \A c, d \in Cards : Fresh[c][o.read] = Fresh[d][o.read] => c = d

ASSUME NoneAssumption == none \notin Cards

(***************************************************************************)
(* The parameters of a card: as a function of the items.                   *)
(***************************************************************************)
Parameters(iccid, imsi, ki) ==
    [i \in Items |-> CASE i = "iccid" -> iccid
                       [] i = "imsi"  -> imsi
                       [] i = "adm"   -> 1
                       [] OTHER       -> ki]

\* ICCID and IMSI follow from the number, Ki and OPc are drawn.
gen_parameters == Parameters(num + 1, num + 1, kis + 1)

\* The first row with the identity that was read from the card.
find_row_in_csv_file(id, value) ==
    {i \in DOMAIN Rows : Rows[i][id] = value /\ \A j \in 1 .. i - 1 : Rows[j][id] # value}

read_params_csv(i) == Parameters(Rows[i].iccid, Rows[i].imsi, Rows[i].ki)

-----------------------------------------------------------------------------
Init ==
    /\ kind \in Kinds
    /\ opts \in Options
    /\ pc = "get"
    /\ num = FirstNum
    /\ reader = none
    /\ where = [c \in Cards |-> "stock"]
    /\ content = [c \in Cards |-> [i \in Items |->
                     IF i \in DOMAIN Fresh[c] THEN Fresh[c][i] ELSE 0]]
    /\ cp = none
    /\ steps = <<>>
    /\ aids = FALSE
    /\ kis = 0
    /\ csv = <<>>
    /\ hlr = {}
    /\ noted = FirstNum
    /\ faults = 0

Fails(part) == part \notin NeverFails /\ faults < MaxFaults /\ faults' = faults + 1
Works == UNCHANGED faults

\* Any exception: the card is pulled from the reader.
Except == pc' = "error"

\* ch.get: the reader may not reach the card; a machine that fails ends the program.
get ==
    /\ pc = "get"
    /\ \/ \E c \in Cards :
              /\ where[c] = "stock"
              /\ reader' = c
              /\ where' = [where EXCEPT ![c] = "reader"]
              /\ \/ Works /\ pc' = "detect"
                 \/ Fails("card") /\ Except
       \/ Fails("handler") /\ pc' = "off" /\ UNCHANGED <<reader, where>>
    /\ UNCHANGED <<kind, opts, num, content, cp, steps, aids, kis, csv, hlr, noted>>

card_detect ==
    /\ pc = "detect"
    /\ \/ Works /\ pc' = IF opts.erase /\ ~opts.dry_run THEN "erase" ELSE "parameters"
       \/ Fails("card") /\ Except
    /\ UNCHANGED <<kind, opts, num, reader, where, content, cp, steps, aids, kis,
                   csv, hlr, noted>>

erase ==
    /\ pc = "erase"
    /\ \/ /\ Works
          /\ content' = [content EXCEPT ![reader] =
                            [i \in Items |-> IF i \in Erasable(kind) THEN 0 ELSE content[reader][i]]]
          /\ pc' = "parameters"
       \/ Fails("card") /\ Except /\ UNCHANGED content
    /\ UNCHANGED <<kind, opts, num, reader, where, cp, steps, aids, kis, csv, hlr, noted>>

\* Mutant of parameters: a card without a row is skipped.
parameters_Skips ==
    /\ pc = "parameters"
    /\ Works
    /\ IF opts.source = "cmdline"
       THEN cp' = gen_parameters /\ kis' = kis + 1 /\ pc' = "program"
       ELSE LET found == find_row_in_csv_file(opts.read, content[reader][opts.read])
            IN  /\ UNCHANGED kis
                /\ \/ found = {} /\ pc' = "get" /\ UNCHANGED cp
                   \/ pc' = "program" /\ \E i \in found : cp' = read_params_csv(i)
    /\ steps' = Program(kind)
    /\ aids' = FALSE
    /\ UNCHANGED <<kind, opts, num, reader, where, content, csv, hlr, noted>>

\* No row found is return code 2, which also pulls the card.
parameters ==
    /\ pc = "parameters"
    /\ Works
    /\ IF opts.source = "cmdline"
       THEN cp' = gen_parameters /\ kis' = kis + 1 /\ pc' = "program"
       ELSE LET found == find_row_in_csv_file(opts.read, content[reader][opts.read])
            IN  /\ UNCHANGED kis
                /\ \/ found = {} /\ Except /\ UNCHANGED cp
                   \/ pc' = "program" /\ \E i \in found : cp' = read_params_csv(i)
    /\ steps' = Program(kind)
    /\ aids' = FALSE
    /\ UNCHANGED <<kind, opts, num, reader, where, content, csv, hlr, noted>>

-----------------------------------------------------------------------------
Written(c, items) ==
    content' = [content EXCEPT ![c] = [i \in Items |-> IF i \in items THEN cp[i] ELSE content[c][i]]]
NextStep == steps' = Tail(steps) /\ pc' = "program"

\* A PIN is verified, if need be one that was written just now.
verifies(s) ==
    /\ s.does = "verify"
    /\ \/ Works /\ (\A i \in s.items : content[reader][i] = cp[i]) /\ NextStep
       \/ Works /\ (\E i \in s.items : content[reader][i] # cp[i]) /\ Except /\ UNCHANGED steps
       \/ Fails("card") /\ Except /\ UNCHANGED steps
    /\ UNCHANGED <<content, aids>>

\* Mutant of updates: nobody looks at the status word.
updates_Unchecked(s) ==
    /\ s.does = "update" \/ (s.does = "adf" /\ aids)
    /\ \/ Works /\ Written(reader, s.items)
       \/ Fails("card") /\ UNCHANGED content
    /\ NextStep
    /\ UNCHANGED aids

\* An update, which the card carries out or refuses, or carries out without being
\* heard.
updates(s) ==
    /\ s.does = "update" \/ (s.does = "adf" /\ aids)
    /\ \/ Works /\ Written(reader, s.items) /\ NextStep
       \/ Fails("card") /\ Except /\ UNCHANGED steps
          /\ (Written(reader, s.items) \/ UNCHANGED content)
    /\ UNCHANGED aids

\* Without the AIDs the applications are passed over.
passesOver(s) ==
    /\ s.does = "adf" /\ ~aids
    /\ Works /\ NextStep
    /\ UNCHANGED <<content, aids>>

\* Nobody looks at what send_apdu returns.
sends(s) ==
    /\ s.does = "send"
    /\ \/ Works /\ Written(reader, s.items)
       \/ Fails("card") /\ UNCHANGED content
    /\ NextStep
    /\ UNCHANGED aids

\* read_aids prints what goes wrong and has then found none.
read_aids(s) ==
    /\ s.does = "read_aids"
    /\ \/ Works /\ aids' = TRUE
       \/ Fails("card") /\ aids' = FALSE
    /\ NextStep
    /\ UNCHANGED content

program ==
    /\ pc = "program" /\ steps # <<>> /\ ~opts.dry_run
    /\ LET s == Head(steps)
       IN  verifies(s) \/ updates(s) \/ passesOver(s) \/ sends(s) \/ read_aids(s)
    /\ UNCHANGED <<kind, opts, num, reader, where, cp, kis, csv, hlr, noted>>

program_returns ==
    /\ pc = "program" /\ (steps = <<>> \/ opts.dry_run)
    /\ pc' = "csv"
    /\ UNCHANGED <<kind, opts, num, reader, where, content, cp, steps, aids, kis, csv, hlr, noted, faults>>

-----------------------------------------------------------------------------
Row == [iccid |-> cp["iccid"], imsi |-> cp["imsi"], ki |-> cp["ki"], opc |-> cp["opc"]]

\* Mutant of write_params_csv: a failure is only printed.
write_params_csv_Printed ==
    /\ pc = "csv"
    /\ \/ Works /\ csv' = Append(csv, Row)
       \/ Fails("file") /\ UNCHANGED csv
    /\ pc' = "hlr"
    /\ UNCHANGED <<kind, opts, num, reader, where, content, cp, steps, aids, kis, hlr, noted>>

write_params_csv ==
    /\ pc = "csv"
    /\ \/ Works /\ csv' = Append(csv, Row) /\ pc' = "hlr"
       \/ Fails("file") /\ Except /\ UNCHANGED csv
    /\ UNCHANGED <<kind, opts, num, reader, where, content, cp, steps, aids, kis, hlr, noted>>

\* Both inserts are committed together; the HLR has an IMSI only once.
write_params_hlr ==
    /\ pc = "hlr"
    /\ \/ /\ Works
          /\ IF opts.write_hlr /\ \E s \in hlr : s.imsi = Row.imsi
             THEN Except /\ UNCHANGED hlr
             ELSE /\ pc' = "save"
                  /\ hlr' = hlr \union IF opts.write_hlr THEN {[imsi |-> Row.imsi, ki |-> Row.ki]} ELSE {}
       \/ opts.write_hlr /\ Fails("file") /\ Except /\ UNCHANGED hlr
    /\ UNCHANGED <<kind, opts, num, reader, where, content, cp, steps, aids, kis, csv, noted>>

\* Mutant of save_batch: the state is saved before the number is counted up.
save_batch_TooEarly ==
    /\ pc = "save"
    /\ num < MaxNum
    /\ num' = num + 1
    /\ \/ Works /\ noted' = num /\ pc' = "done"
       \/ Fails("file") /\ Except /\ noted' \in {noted, none}
    /\ UNCHANGED <<kind, opts, reader, where, content, cp, steps, aids, kis, csv, hlr>>

\* The next number, and the batch state, which is truncated before it is written.
save_batch ==
    /\ pc = "save"
    /\ num < MaxNum
    /\ num' = num + 1
    /\ \/ Works /\ noted' = num + 1 /\ pc' = "done"
       \/ Fails("file") /\ Except /\ noted' \in {noted, none}
    /\ UNCHANGED <<kind, opts, reader, where, content, cp, steps, aids, kis, csv, hlr>>

PutAway(bin) == where' = [where EXCEPT ![reader] = bin] /\ reader' = none

\* ch.done and ch.error: as for get, a machine that fails ends the program, with the
\* card where it was.
done ==
    /\ pc = "done"
    /\ \/ Works /\ pc' = "get" /\ PutAway("good")
       \/ Fails("handler") /\ pc' = "off" /\ PutAway("left")
    /\ UNCHANGED <<kind, opts, num, content, cp, steps, aids, kis, csv, hlr, noted>>

error ==
    /\ pc = "error"
    /\ \/ Works /\ pc' = "get" /\ PutAway("error")
       \/ Fails("handler") /\ pc' = "off" /\ PutAway("left")
    /\ UNCHANGED <<kind, opts, num, content, cp, steps, aids, kis, csv, hlr, noted>>

\* CTRL-C, between any two steps, also while the batch state is written.
Interrupt ==
    /\ pc # "off" /\ Fails("user")
    /\ pc' = "off"
    /\ IF reader = none THEN UNCHANGED <<reader, where>> ELSE PutAway("left")
    /\ noted' \in IF pc = "save" THEN {noted, none} ELSE {noted}
    /\ UNCHANGED <<kind, opts, num, content, cp, steps, aids, kis, csv, hlr>>

\* The batch is taken up again.  init_batch cannot read a state file that is there
\* (dict.iteritems), so the user takes the number out of it and gives it as --num.
Resume ==
    /\ pc = "off"
    /\ noted # none
    /\ num' = noted
    /\ pc' = "get"
    /\ UNCHANGED <<kind, opts, reader, where, content, cp, steps, aids, kis, csv, hlr, noted, faults>>

\* A card of the error bin, or one that was left, is tried again.
Restock ==
    /\ pc \in {"get", "off"}
    /\ faults < MaxFaults
    /\ \E c \in Cards : where[c] \in {"error", "left"} /\ where' = [where EXCEPT ![c] = "stock"]
    /\ faults' = faults + 1
    /\ UNCHANGED <<kind, opts, pc, num, reader, content, cp, steps, aids, kis, csv, hlr, noted>>

Next ==
    \/ get \/ card_detect \/ erase \/ parameters \/ program \/ program_returns
    \/ write_params_csv \/ write_params_hlr \/ save_batch \/ done \/ error
    \/ Interrupt \/ Resume \/ Restock

\* The program runs on, and the card and the machine answer; nobody has to interrupt or
\* to resume a batch.
Spec ==
    /\ Init /\ [][Next]_vars
    /\ WF_vars(card_detect) /\ WF_vars(erase) /\ WF_vars(parameters) /\ WF_vars(program)
    /\ WF_vars(program_returns) /\ WF_vars(write_params_csv) /\ WF_vars(write_params_hlr)
    /\ WF_vars(save_batch) /\ WF_vars(done) /\ WF_vars(error)

-----------------------------------------------------------------------------
TypeOK ==
    /\ kind \in Kinds /\ opts \in Options
    /\ num \in FirstNum .. MaxNum /\ noted \in (FirstNum .. MaxNum) \union {none}
    /\ reader \in Cards \union {none}
    /\ where \in [Cards -> {"stock", "reader", "good", "error", "left"}]
    /\ content \in [Cards -> [Items -> Nat]]
    /\ cp \in [Items -> Nat] \union {none}
    /\ hlr \subseteq [imsi : Nat, ki : Nat]
    /\ csv \in Seq([iccid : Nat, imsi : Nat, ki : Nat, opc : Nat])

Good == {c \in Cards : where[c] = "good" /\ ~opts.dry_run}

\* Of two rows with one IMSI the later one counts.
LastRow(imsi) ==
    {i \in DOMAIN csv : csv[i].imsi = imsi /\ \A j \in DOMAIN csv : csv[j].imsi = imsi => j <= i}

\* A card of the good bin is recorded as it is: what its program method has had confirmed
\* is what the CSV file and the HLR say of its IMSI, whatever failed for other cards.
\* (process_card writes the records after programming and calls ch.done last.)
GoodAsRecorded ==
    \A c \in Good :
        /\ LastRow(content[c]["imsi"]) # {}
        /\ \A r \in LastRow(content[c]["imsi"]), i \in Vouched(kind) \intersect {"iccid", "imsi", "ki", "opc"} :
               csv[r][i] = content[c][i]
        /\ opts.write_hlr /\ "ki" \in Vouched(kind) =>
               [imsi |-> content[c]["imsi"], ki |-> content[c]["ki"]] \in hlr

\* No two cards of the good bin have the same IMSI, across failures and batches that
\* are taken up again.  (The number is counted up and saved before ch.done.)
GoodDistinct ==
    \A c, d \in Good : content[c]["imsi"] = content[d]["imsi"] => c = d

\* Every subscriber of the HLR is in the CSV file, with its Ki, and is there once.
\* (write_parameters_to_csv_and_hlr writes the CSV file first.)
HlrFollows ==
    /\ \A s \in hlr : \E i \in DOMAIN csv : csv[i].imsi = s.imsi /\ csv[i].ki = s.ki
    /\ \A s, t \in hlr : s.imsi = t.imsi => s = t

\* A card that was put into the reader is taken out of it.  (Whatever process_card returns
\* or raises, ch.done or ch.error follows.)
CardsPutAway == \A c \in Cards : where[c] = "reader" ~> where[c] # "reader"

=============================================================================
