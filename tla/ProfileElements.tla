-------------------------- MODULE ProfileElements --------------------------
(***************************************************************************)
(* An eSIM profile as a sequence of profile elements (PEs): it is loaded   *)
(* from its DER file, edited as by saip-tool or personalised, and written  *)
(* back.  ProfileElementSequence keeps an index of the PEs of every NAA    *)
(* beside the list, and the header lists the services and file templates   *)
(* the other PEs need.  A session is one load and the calls up to the next.*)
(***************************************************************************)
EXTENDS Integers, Sequences, FiniteSets, SequencesExt

CONSTANTS
  Profiles,       \* the profile files to start from: [pes, svc, gfste]
  MaxOps, MaxLoads    \* bounds: edits in all; loads of the file

VARIABLES
  file,      \* the profile file: [pes |-> sequence of PEs, svc, gfste |-> sets]
  loaded,    \* a session has the file in memory
  pe_list, pes_by_naa,      \* ProfileElementSequence
  svc, gfste,               \* the header's eUICC-Mandatory-services and -GFSTEList
  op,        \* history: the last call and its argument
  removed,   \* history: the calls of this session that removed PEs
  applied,   \* history: the parameters applied in this session, each in all places
  ops, loads

vars == <<file, loaded, pe_list, pes_by_naa, svc, gfste, op, removed, applied, ops, loads>>
pes == <<pe_list, pes_by_naa, svc, gfste>>

NaaTypes == {"mf", "usim", "isim"}
Removable == {"usim", "isim"}
petype_not_naa_related == {"securityDomain", "rfm", "application", "end"}
Opt(n) == IF n = "usim" THEN "opt-usim" ELSE "opt-isim"
pe_types == [n \in Removable |-> {n, Opt(n)}]       \* Naa.pe_types, and their templates
Parameters == {"ICCID", "IMSI", "PIN2", "K"}

(* A PE: uid is the Python object; identification is 0 where there is no PE   *)
(* header; adf is the ADF of an NAA or of the access an RFM has; pin2 tells   *)
(* what a pinCodes has for PIN2; value is the ICCID, IMSI or key in the PE.   *)
(* An akaParameter with a mappingParameter, which has no key but refers to    *)
(* that of another application, is an akaMapping here.                        *)
PE(type, adf, pin2) ==
  [uid |-> 0, type |-> type, identification |-> 0, mandated |-> TRUE, adf |-> adf, pin2 |-> pin2, value |-> "template"]

TypeName(pe) == IF pe.type = "akaMapping" THEN "akaParameter" ELSE pe.type
HasHeader(pe) == pe.type # "header"
Types(list) == {pe.type : pe \in Range(list)}
Uids(list) == {pe.uid : pe \in Range(list)}
Where(list, type) == {i \in 1..Len(list) : list[i].type = type}
First(positions) == {i \in positions : \A j \in positions : i <= j}

(* The PEs at some positions, in their order.                                 *)
At(list, positions) ==
  LET kept[n \in 0..Len(list)] ==
        IF n = 0 THEN <<>>
        ELSE IF n \in positions THEN Append(kept[n - 1], list[n]) ELSE kept[n - 1]
  IN  kept[Len(list)]
Keep(list, uids) == At(list, {i \in 1..Len(list) : list[i].uid \in uids})

(* CheckBasicStructure.check_identification_unique                            *)
check_identification_unique(list) ==
  \A i, j \in 1..Len(list) : HasHeader(list[i]) /\ HasHeader(list[j]) /\ i # j =>
                               list[i].identification # list[j].identification

(* A profile file has PEs of any types and ADFs, and numbers those that have   *)
(* a PE header, each differently.                                             *)
PETypes == {"application", "securityDomain"} \cup UNION {Types(p.pes) : p \in Profiles}
Adfs == {"-"} \cup UNION {{pe.adf : pe \in Range(p.pes)} : p \in Profiles}
PEs == [uid : Nat, type : PETypes, identification : Nat, mandated : BOOLEAN,
        adf : Adfs, pin2 : {"-", "template", "new"}, value : {"template", "new"}]
ASSUME ProfilesAssumption ==
  /\ MaxOps \in Nat /\ MaxLoads \in Nat
  /\ \A p \in Profiles :
       /\ p.pes \in Seq(PEs) /\ check_identification_unique(p.pes)
       /\ \A i \in 1..Len(p.pes) : p.pes[i].identification = 0 <=> ~HasHeader(p.pes[i])

(* renumber_identification                                                    *)
renumber_Skips(list) == [i \in 1..Len(list) |-> IF list[i].identification # 0 THEN list[i]
                                                 ELSE [list[i] EXCEPT !.identification = IF HasHeader(list[i]) THEN i - 1 ELSE 0]]
renumber_identification(list) ==
  [i \in 1..Len(list) |->
     [list[i] EXCEPT !.identification =
        IF HasHeader(list[i]) THEN Cardinality({j \in 1..i : HasHeader(list[j])}) ELSE 0]]

(* _rebuild_pes_by_naa: an instance starts at the PE of an NAA and ends before *)
(* the next.  A misspelt name leaves the old entries in the index.             *)
Stretch(list, i) ==
  {list[j].uid : j \in {j \in i..Len(list) : /\ list[j].type \notin petype_not_naa_related
                                           /\ \A k \in i + 1..j : list[k].type \notin NaaTypes}}

(* _apply_pinvalue: the first pinCodes of the instance that has the PIN        *)
PinOf(list, uids) ==
  {list[i].uid : i \in First({i \in Where(list, "pinCodes") : list[i].uid \in uids /\ list[i].pin2 # "-"})}

Instance(list, i) ==
  [mandated |-> list[i].mandated, pes |-> Stretch(list, i), pin |-> PinOf(list, Stretch(list, i))]
Instances(list, naa) == {Instance(list, i) : i \in Where(list, naa)}
_rebuild_pes_by_naa(index, list) == [naa \in NaaTypes |-> index[naa] \cup Instances(list, naa)]
NoIndex == [naa \in NaaTypes |-> {}]

(* insert_at_index (behind index i), of a new object                          *)
NewPE(type) == [PE(type, "-", "-") EXCEPT !.uid = Len(file.pes) + ops + 1]
inserted_Last(list, i, pe) == renumber_identification(Append(list, pe))
inserted(list, i, pe) == renumber_identification(InsertAt(list, i + 1, pe))
New(list) ==
  /\ pe_list' = list
  /\ pes_by_naa' = _rebuild_pes_by_naa(pes_by_naa, list)

----------------------------------------------------------------------------
(* One call of a session                                                      *)
Call(name, arg) == loaded /\ ops < MaxOps /\ ops' = ops + 1 /\ op' = [name |-> name, arg |-> arg] /\ UNCHANGED <<file, loaded, loads>>

Edit(name, arg) == Call(name, arg) /\ UNCHANGED applied

(* from_der, parse_der: new objects, and indexes built from nothing.  The     *)
(* files of an NAA cannot be added where no MF was loaded (AttributeError).   *)
WithFiles == UNION {pe_types[n] : n \in Removable}
Load ==
  /\ ~loaded /\ loads < MaxLoads
  /\ Types(file.pes) \cap WithFiles # {} => "mf" \in Types(file.pes)
  /\ loaded' = TRUE /\ loads' = loads + 1
  /\ LET list == [i \in 1..Len(file.pes) |-> [file.pes[i] EXCEPT !.uid = i]]
     IN pe_list' = list /\ pes_by_naa' = _rebuild_pes_by_naa(NoIndex, list)
  /\ svc' = file.svc /\ gfste' = file.gfste
  /\ op' = [name |-> "load", arg |-> "-"] /\ removed' = {} /\ applied' = {}
  /\ UNCHANGED <<file, ops>>

(* write_pes, to_der.  ProfileElementSD._pre_encode writes the keys the PE was *)
(* loaded with, so of a SD no value changes.                                   *)
write_pes ==
  /\ loaded /\ loaded' = FALSE
  /\ file' = [pes |-> [i \in 1..Len(pe_list) |-> [pe_list[i] EXCEPT !.uid = 0]], svc |-> svc, gfste |-> gfste]
  /\ op' = [name |-> "write", arg |-> "-"]
  /\ UNCHANGED <<pe_list, pes_by_naa, svc, gfste, removed, applied, ops, loads>>

(* saip-tool remove-pe                                                         *)
do_remove_pe ==
  \E pe \in Range(pe_list), byType \in BOOLEAN :
    /\ HasHeader(pe) \/ byType
    /\ Edit("remove-pe", pe.type)
    /\ New(At(pe_list, {i \in 1..Len(pe_list) :
                         IF byType THEN TypeName(pe_list[i]) # TypeName(pe)
                         ELSE pe_list[i].identification # pe.identification}))
    /\ removed' = removed \cup {"remove-pe"}
    /\ UNCHANGED <<svc, gfste>>

(* remove_naas_of_type                                                         *)
WithoutNaa_KeepsRfm(naa) == Keep(pe_list, Uids(pe_list) \ UNION {i.pes : i \in pes_by_naa[naa]})
WithoutNaa(naa) ==
  LET adfs == {pe_list[i].adf : i \in Where(pe_list, naa)}
      left == WithoutNaa_KeepsRfm(naa)
  IN At(left, {i \in 1..Len(left) : ~(left[i].type = "rfm" /\ left[i].adf \in adfs)})

remove_naas_of_type ==
  \E naa \in Removable :
    /\ Edit("remove-naa", naa)
    /\ "header" \in Types(pe_list)
    /\ svc' = svc \ {naa}
    /\ gfste' = gfste \ pe_types[naa]
    /\ New(WithoutNaa(naa))
    /\ removed' = removed \cup {"remove-naa"}

(* saip-tool add-app: only where there is exactly one security domain          *)
do_add_app ==
  \E i \in 1..Len(pe_list) :
    /\ Edit("add-app", "-")
    /\ Where(pe_list, "securityDomain") = {i}
    /\ New(inserted(pe_list, i, NewPE("application")))
    /\ UNCHANGED <<svc, gfste, removed>>

(* saip-tool remove-app: the first with the AID, by way of its identification  *)
do_remove_app ==
  \E app \in First(Where(pe_list, "application")) :
    /\ Edit("remove-app", "-")
    /\ New(At(pe_list, {i \in 1..Len(pe_list) : pe_list[i].identification # pe_list[app].identification}))
    /\ removed' = removed \cup {"remove-app"}
    /\ UNCHANGED <<svc, gfste>>

(* add_ssd: behind the first security domain                                   *)
add_ssd ==
  \E i \in First(Where(pe_list, "securityDomain")) :
    /\ Edit("add-ssd", "-")
    /\ New(inserted(pe_list, i, NewPE("securityDomain")))
    /\ UNCHANGED <<svc, gfste, removed>>

(* saip-tool edit-mand-srv-list                                                *)
do_edit_mand_srv_list ==
  \E s \in {"isim", "milenage", "gba-usim"}, add \in BOOLEAN :
    /\ Edit("edit-services", s) /\ "header" \in Types(pe_list)
    /\ svc' = IF add THEN svc \cup {s} ELSE svc \ {s}
    /\ UNCHANGED <<pe_list, pes_by_naa, gfste, removed>>

(* rebuild_mandatory_services: what depends on a feature that no PE shows, as   *)
(* gba-usim, is dropped                                                        *)
rebuild_mandatory_services ==
  /\ Edit("rebuild-services", "-") /\ "header" \in Types(pe_list) /\ "mf" \in Types(file.pes)
  /\ svc' = {naa \in Removable : \E inst \in pes_by_naa[naa] : inst.mandated}
            \cup {"milenage" : pe \in {pe \in Range(pe_list) : pe.type = "akaParameter" /\ pe.mandated}}
            \cup {"javacard" : pe \in {pe \in Range(pe_list) : pe.type = "application" /\ pe.mandated}}
  /\ UNCHANGED <<pe_list, pes_by_naa, gfste, removed>>

(* rebuild_mandatory_gfstelist                                                 *)
rebuild_mandatory_gfstelist ==
  /\ Edit("rebuild-gfste", "-") /\ "header" \in Types(pe_list)
  /\ gfste' = {pe.type : pe \in {pe \in Range(pe_list) : pe.mandated /\ pe.type \in WithFiles}}
  /\ UNCHANGED <<pe_list, pes_by_naa, svc, removed>>

----------------------------------------------------------------------------
(* Personalisation: ConfigurableParameter.apply_val                            *)
Set(uids, field) ==
  pe_list' = [i \in 1..Len(pe_list) |->
                IF pe_list[i].uid \notin uids THEN pe_list[i]
                ELSE IF field = "pin2" THEN [pe_list[i] EXCEPT !.pin2 = "new"] ELSE [pe_list[i] EXCEPT !.value = "new"]]
OfTypes(types) == {pe.uid : pe \in {pe \in Range(pe_list) : pe.type \in types}}

Apply(param) == Call("apply", param) /\ applied' = applied \cup {param} /\ UNCHANGED <<pes_by_naa, svc, gfste, removed>>

Iccid == Apply("ICCID") /\ {"header", "mf"} \subseteq Types(pe_list) /\ Set(OfTypes({"header", "mf"}), "value")

(* without an MF the header is changed before get_pe_for_type('mf') is None      *)
IccidRaises ==
  /\ "header" \in Types(pe_list) /\ "mf" \notin Types(pe_list)
  /\ Edit("apply-raises", "ICCID")
  /\ Set(OfTypes({"header"}), "value")
  /\ UNCHANGED <<pes_by_naa, svc, gfste, removed>>

Imsi == Apply("IMSI") /\ Set(OfTypes({"usim"}), "value")

(* AlgoConfig.apply_val: an akaMapping is passed over, and where all are so the *)
(* parameter has no place (ValueError)                                         *)
K == Apply("K") /\ OfTypes({"akaParameter"}) # {} /\ Set(OfTypes({"akaParameter"}), "value")

(* Pin2.apply_val: all instances of the index; the first without a PIN2 raises  *)
(* ValueError, with those visited before it changed                             *)
Pin2Instances_Usim == pes_by_naa["usim"]
Pin2Instances == pes_by_naa["usim"] \cup pes_by_naa["isim"]

Pin2 ==
  /\ \A inst \in Pin2Instances : inst.pin # {}
  /\ Apply("PIN2")
  /\ Set(UNION {inst.pin : inst \in Pin2Instances}, "pin2")

Pin2Raises ==
  /\ \E inst \in Pin2Instances : inst.pin = {}
  /\ Edit("apply-raises", "PIN2")
  /\ \E visited \in SUBSET {inst \in Pin2Instances : inst.pin # {}} :
       Set(UNION {inst.pin : inst \in visited}, "pin2")
  /\ UNCHANGED <<pes_by_naa, svc, gfste, removed>>

----------------------------------------------------------------------------
Init ==
  /\ file \in Profiles /\ loaded = FALSE
  /\ pe_list = <<>> /\ pes_by_naa = NoIndex /\ svc = {} /\ gfste = {}
  /\ op = [name |-> "none", arg |-> "-"] /\ removed = {} /\ applied = {}
  /\ ops = 0 /\ loads = 0

Next ==
  \/ Load \/ write_pes
  \/ do_remove_pe \/ remove_naas_of_type \/ do_add_app \/ do_remove_app \/ add_ssd
  \/ do_edit_mand_srv_list \/ rebuild_mandatory_services \/ rebuild_mandatory_gfstelist
  \/ Iccid \/ IccidRaises \/ Imsi \/ K \/ Pin2 \/ Pin2Raises

Spec == Init /\ [][Next]_vars

----------------------------------------------------------------------------
(* CheckBasicStructure.check                                                   *)
check_start_and_end(list) == /\ Len(list) >= 2
                             /\ list[1].type = "header" /\ list[2].type = "mf" /\ Last(list).type = "end"
check_number_of_occurrence(list) ==
  \A t \in {"header", "end"} \cup NaaTypes \cup UNION {pe_types[n] : n \in Removable} :
    \A i, j \in Where(list, t) : i = j
check_optional_ordering(list) ==
  \A n \in Removable : Opt(n) \in Types(list) => n \in Types(list)
(* of an akaMapping the check stops with a KeyError                            *)
check_mandatory_services(list, s) ==
  /\ s \cap Removable \subseteq Types(list)
  /\ "gba-usim" \in s => "usim" \in s
  /\ "milenage" \in s => "akaParameter" \in Types(list)
  /\ "akaMapping" \notin Types(list)
Checks(list, s) ==
  /\ check_start_and_end(list) /\ check_number_of_occurrence(list) /\ check_optional_ordering(list)
  /\ check_mandatory_services(list, s) /\ check_identification_unique(list)

----------------------------------------------------------------------------
(* The PEs in memory keep distinct identifications, by which remove-pe and    *)
(* remove-app find what they remove, over any edits: removals leave gaps and   *)
(* insertions number anew (renumber_identification, do_remove_pe).             *)
IdentificationUnique == check_identification_unique(pe_list)

(* every PE of the NAA stands in one of its instances                          *)
Ordered(naa) ==
  \A pe \in Range(pe_list) : pe.type \in pe_types[naa] => \E i \in Instances(pe_list, naa) : pe.uid \in i.pes

(* Removing an NAA from a list that is in order leaves none of its PEs, no     *)
(* RFM for its ADF and none of its services and templates, and takes nothing   *)
(* but its instances and their RFM, also if the index was built by earlier     *)
(* insertions (remove_naas_of_type, _rebuild_pes_by_naa).                      *)
RemovedWithoutTrace ==
  [][op'.name = "remove-naa" /\ ops' # ops /\ Ordered(op'.arg) =>
     LET naa == op'.arg
         rfm == {pe \in Range(pe_list) : pe.type = "rfm" /\ \E a \in Where(pe_list, naa) : pe.adf = pe_list[a].adf}
         own == (UNION {i.pes : i \in Instances(pe_list, naa)}) \cup {pe.uid : pe \in rfm}
     IN /\ Types(pe_list') \cap pe_types[naa] = {}
        /\ naa \notin svc' /\ gfste' \cap pe_types[naa] = {}
        /\ "remove-pe" \notin removed => pe_list' = Keep(pe_list, Uids(pe_list) \ own)]_vars

(* A profile that passes the basic checks passes them after every edit but the *)
(* removal of single PEs and the setting of services by hand, the removal of   *)
(* an NAA that is not in order (which the checks do not see), that other       *)
(* services depend on or whose file has PEs before the header, and a           *)
(* rebuilding of the services from an index with removed PEs                   *)
(* (CheckBasicStructure).                                                      *)
ChecksKept ==
  [][ops' # ops /\ Checks(pe_list, svc)
     /\ op'.name \notin {"remove-pe", "edit-services"}
     /\ (op'.name = "remove-naa" => /\ Ordered(op'.arg) /\ svc \cap {"milenage", "gba-usim"} = {}
                                    /\ 1 \in Where(file.pes, "header"))
     /\ (op'.name = "rebuild-services" => removed = {})
     => Checks(pe_list', svc')]_vars

(* What a session applied without an error is in the file it wrote, at every   *)
(* place that holds the parameter: the ICCID in header and MF, the IMSI in all *)
(* USIMs, the PIN2 in every instance, the key in every akaParameter that has   *)
(* one (no akaMapping), also when applications, SDs or NAAs were added or      *)
(* removed in between; not the PIN2 if single PEs were removed by hand         *)
(* (apply_val, to_der).                                                        *)
AppliedIsWritten ==
  op.name = "write" =>
    /\ "ICCID" \in applied => \A pe \in Range(file.pes) : pe.type \in {"header", "mf"} => pe.value = "new"
    /\ "IMSI" \in applied => \A pe \in Range(file.pes) : pe.type = "usim" => pe.value = "new"
    /\ "K" \in applied => \A pe \in Range(file.pes) : pe.type = "akaParameter" => pe.value = "new"
    /\ "PIN2" \in applied /\ "remove-pe" \notin removed => \A naa \in Removable : \A i \in Instances(pe_list, naa) :
                               \A j \in 1..Len(pe_list) : pe_list[j].uid \in i.pin => file.pes[j].pin2 = "new"
=============================================================================
