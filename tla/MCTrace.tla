------------------------------ MODULE MCTrace ------------------------------
(* A card with a DF, an application with a DF of the same FID, an EF each,   *)
(* and an EF the profile does not know; the profile also knows an            *)
(* application that is not on the card, and the ISD-R, which answers a       *)
(* SELECT with an FCI.                                                       *)
EXTENDS Trace

MCFile == {"MF", "tel", "telPb", "imsi", "new", "usim", "usimPb", "isim", "isdr"}
MCApp == {"usim", "isim", "isdr"}
MCEF == {"imsi", "new"}
MCProfile == MCFile \ {"new"}
MCOnCard == MCFile \ {"isim"}
MCParent == [f \in MCFile |->
  CASE f = "telPb" -> "tel" [] f \in {"usimPb", "imsi"} -> "usim" [] OTHER -> "MF"]
MCFid == [f \in MCFile |->
  CASE f = "MF" -> "3f00" [] f = "tel" -> "7f10" [] f \in {"telPb", "usimPb"} -> "5f3a"
    [] f = "imsi" -> "6f07" [] f = "new" -> "2fff" [] OTHER -> "-"]
MCPaths == {<<"7f10", "5f3a">>, <<"7fff", "6f07">>, <<"5f3a">>}
=============================================================================
