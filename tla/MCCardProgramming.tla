------------------------- MODULE MCCardProgramming -------------------------
(* Instances of CardProgramming for TLC. *)
EXTENDS CardProgramming

CONSTANTS c1, c2, c3

AllKinds ==
    {"magicsim", "fakemagicsim", "grcardsim", "sysmoUSIM-GR1", "sysmoSIM-GR2", "sysmoUSIM-SJS1",
     "Fairwaves-SIM", "OpenCells-SIM", "Wavemobile-SIM", "sysmoISIM-SJA2", "gialersim"}
SomeKinds == {"magicsim", "sysmoSIM-GR2", "sysmoISIM-SJA2"}

Cmdline(tohlr, dry) ==
    [source |-> "cmdline", read |-> "iccid", write_hlr |-> tohlr, dry_run |-> dry, erase |-> TRUE]
Csv(read) ==
    [source |-> "csv", read |-> read, write_hlr |-> FALSE, dry_run |-> FALSE, erase |-> FALSE]
SomeOptions ==
    {Cmdline(TRUE, FALSE), Cmdline(FALSE, FALSE), Cmdline(TRUE, TRUE), Csv("iccid"), Csv("imsi")}

Id(c) == CASE c = c1 -> 11 [] c = c2 -> 12 [] OTHER -> 13
FreshCards == [c \in Cards |-> [iccid |-> Id(c), imsi |-> Id(c) + 10]]
\* The third card is in no row.
SomeRows == <<[iccid |-> 12, imsi |-> 22, ki |-> 32], [iccid |-> 11, imsi |-> 21, ki |-> 31]>>
=============================================================================
