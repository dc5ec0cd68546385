------------------------------- MODULE Trace -------------------------------
(***************************************************************************)
(* pySim-trace: a capture of the TPDUs between a phone and a card is       *)
(* turned back into APDUs (TpduFilter), and every APDU moves a mirror of   *)
(* the card's logical channels and selected files, from which the tracer   *)
(* tells the file a command is about.  The phone and the card are external *)
(* and follow TS 102 221; the capture (GSMTAP over UDP, a pcap) may miss   *)
(* packets.  The tracer reads one packet after the other and influences    *)
(* nobody, so an exchange and its processing are one step here.            *)
(***************************************************************************)
EXTENDS Integers, Sequences, FiniteSets, Functions

CONSTANTS
  File, MF, App,      \* files of the card and of the profile; the MF; the ADFs
  EF,                 \* the EFs among the files
  Profile,            \* the files the tracer's card profile knows
  OnCard,             \* the files that are on the card
  Parent,             \* [File -> File], the MF is its own parent
  Fid,                \* [File -> STRING], "-" for an ADF
  USIM,               \* the ADF assumed for 7fff when none was selected
  Fci,                \* the applications that answer a SELECT with an FCI, not an FCP
  Paths,              \* paths the phone selects by (sequences of FIDs)
  Channel,            \* logical channels, 0 the basic one
  MaxCommands, MaxFaults   \* bounds: commands and resets; packets missed and answers not fetched

VARIABLES
  card,       \* the card: [open channels -> [file, adf]]
  pending,    \* the card: the answer a GET RESPONSE would fetch, or None
  last_cmd,   \* TpduFilter.last_cmd: a command of which the answer is to come
  lchan,      \* the tracer's RuntimeState.lchan: [channels -> [file, adf]]
  alive,      \* no exception has ended the tracer
  shown,      \* the APDU the tracer processed last
  ended,      \* history: the APDU that ended last, None if the capture misses a part
  due,        \* history: the command whose 61xx was captured and whose end was not
  mixed,      \* history: what ended last came where the end of such a command was missed
  sure,       \* history: per open channel, what the capture determines
  trusted,    \* history: no channel management was missed since the last captured reset
  commands, faults

vars == <<card, pending, last_cmd, lchan, alive, shown, ended, due, mixed, sure, trusted, commands, faults>>

None == [kind |-> "none"]
NoApp == "no application"
CurApp == "7fff"

ASSUME TraceAssumption ==
  /\ MF \in OnCard \cap Profile /\ App \subseteq File /\ EF \subseteq File \ App
  /\ OnCard \subseteq File /\ Profile \subseteq File /\ USIM \in App \cap Profile
  /\ Parent \in [File -> File] /\ Parent[MF] = MF /\ NoApp \notin File /\ 0 \in Channel
  /\ Fci \subseteq App /\ \A f \in File : Parent[f] \notin Fci   \* ISD-R, ECASD: no files

Both == {"place", "adf"}
Fresh == [file |-> MF, adf |-> NoApp]
IsDF(f) == f \notin EF
Cwd(f) == IF f \in EF THEN Parent[f] ELSE f
Ancestors == [f \in File |-> {f, Parent[f], Parent[Parent[f]], MF}]

(* The first byte of the FCP template and of the FCI template; a response    *)
(* without data has none.                                                    *)
FCP == 98
FCI == 111
NoByte == 0
Template(f) == IF f \in Fci THEN FCI ELSE FCP

Children(d, files) == {f \in files \ (App \cup {MF}) : Parent[f] = d}
Named(files, fid) == {f \in files : Fid[f] = fid}

(* TS 102 221 8.2: files under one DF have different FIDs, and a file has not *)
(* the FID of a DF above it; 3f00 and 7fff are reserved.                      *)
ASSUME FidAssumption ==
  /\ Fid \in [File -> STRING] /\ \A path \in Paths : path \in Seq(Range(path))
  /\ \A f \in File : Fid[f] # CurApp /\ (Fid[f] = Fid[MF] => f = MF)
  /\ \A f \in File : \A g, h \in Ancestors[f] \cup Children(Cwd(f), File) : Fid[g] = Fid[h] => g = h

----------------------------------------------------------------------------
(* What the phone sends.  kind names the handler; GETRESP is the T=0 GET     *)
(* RESPONSE; GP is a command of a set the tracer does not load; SFI and DATA *)
(* are those whose data the tracer decodes (READ, UPDATE of an EF by its SFI *)
(* or of the current one; ENVELOPE, FETCH ...).                              *)
Commands ==
  [kind : {"FID"}, c : DOMAIN card, arg : {<<Fid[f]>> : f \in OnCard \ App} \cup {<<CurApp>>}, to : {0}, sw : {"-"}, n : {0}]
  \cup [kind : {"AID"}, c : DOMAIN card, arg : {<<a>> : a \in App}, to : {0}, sw : {"-"}, n : {0}]
  \cup [kind : {"FROM_MF", "FROM_DF"}, c : DOMAIN card, arg : Paths, to : {0}, sw : {"-"}, n : {0}]
  \cup [kind : {"SFI"}, c : DOMAIN card, arg : {<<Fid[f]>> : f \in EF \cap OnCard}, to : {0}, sw : {"-"}, n : {0}]
  \cup [kind : {"STATUS", "PARENT", "GP", "DATA"}, c : {0}, arg : {<<>>}, to : {0}, sw : {"-"}, n : {0}]
  \cup [kind : {"OPEN"}, c : DOMAIN card, arg : {<<>>}, to : Channel, sw : {"-"}, n : {0}]
  \cup [kind : {"CLOSE"}, c : {0}, arg : {<<>>}, to : DOMAIN card \ {0}, sw : {"-"}, n : {0}]

Selects == {"FID", "AID", "FROM_MF", "FROM_DF", "SFI"}
Manages == {"OPEN", "CLOSE"}

(* The card: the files a FID selects, step by step along a path.             *)
CardSees(at, fid) ==
  IF fid = CurApp THEN {at.adf} \ {NoApp}
  ELSE LET d == Cwd(at.file)
           siblings == {f \in Children(Parent[d], OnCard) : IsDF(f)}
       IN Named({d, Parent[d], MF} \cup Children(d, OnCard) \cup siblings, fid)

CardWalks(at, path) ==    \* the places after each element; {} once one is not found
  LET go[i \in 0..Len(path)] ==
        IF i = 0 THEN {at}
        ELSE UNION {{[p EXCEPT !.file = f] : f \in CardSees(p, path[i])} : p \in go[i - 1]}
  IN go
CardWalk(at, path) == CardWalks(at, path)[Len(path)]

CardSelects(at, cmd) ==
  CASE cmd.kind = "FID" -> CardWalk(at, cmd.arg)
    [] cmd.kind = "AID" -> {[file |-> a, adf |-> a] : a \in {cmd.arg[1]} \cap OnCard}
    [] cmd.kind = "FROM_MF" -> CardWalk([at EXCEPT !.file = MF], cmd.arg)
    [] cmd.kind = "FROM_DF" -> CardWalk(at, cmd.arg)
    [] cmd.kind = "SFI" -> {[at EXCEPT !.file = f] : f \in Named(Children(Cwd(at.file), EF \cap OnCard), cmd.arg[1])}
    [] cmd.kind = "PARENT" -> {[at EXCEPT !.file = Parent[Cwd(at.file)]]}

Inherited(open, c) ==
  IF c = 0 THEN Fresh ELSE [file |-> Cwd(open[c].file), adf |-> open[c].adf]

(* The answers of the card: status, its state after, and the first byte of   *)
(* the response: the template of the file, the number of an opened channel;  *)
(* no other handler reads it.  "warned" is 6283: the file is selected, but   *)
(* deactivated.                                                              *)
Answers(cmd) ==
  CASE cmd.kind \in Selects \cup {"PARENT"} ->
         LET places == CardSelects(card[cmd.c], cmd)
         IN IF places = {} THEN {[sw |-> "refused", card |-> card, n |-> NoByte]}
            ELSE {[sw |-> sw, card |-> [card EXCEPT ![cmd.c] = p], n |-> Template(p.file)]
                  : p \in places, sw \in IF cmd.kind = "SFI" THEN {"ok"} ELSE {"ok", "warned"}}
    [] cmd.kind = "OPEN" ->
         LET free == {n \in Channel \ DOMAIN card : cmd.to \in {0, n}}
         IN IF free = {} THEN {[sw |-> "refused", card |-> card, n |-> NoByte]}
            ELSE {[sw |-> "ok", n |-> n,
                   card |-> [k \in DOMAIN card \cup {n} |-> IF k = n THEN Inherited(card, cmd.c) ELSE card[k]]]
                  : n \in free}
    [] cmd.kind = "CLOSE" -> {[sw |-> "ok", card |-> Restrict(card, DOMAIN card \ {cmd.to}), n |-> NoByte]}
    [] OTHER -> {[sw |-> "refused", card |-> card, n |-> NoByte],
                 [sw |-> "ok", card |-> card,
                  n |-> IF cmd.kind = "STATUS" THEN Template(Cwd(card[0].file)) ELSE NoByte]}

----------------------------------------------------------------------------
(* The tracer.  An apdu is a command with the status and the first data byte *)
(* of its response.                                                          *)

(* get_selectables(['FIDS','MF','PARENT','SELF']): no DFs beside the own one *)
get_selectables(f) == Ancestors[f] \cup Children(Cwd(f), Profile)

(* one element of a path; an unknown one is skipped, 7fff is taken also when *)
(* the card refused the command                                              *)
StepTo(at, fid, successful) ==
  IF fid = CurApp
  THEN LET a == IF at.adf = NoApp THEN USIM ELSE at.adf IN [file |-> a, adf |-> a]
  ELSE LET found == Named(get_selectables(at.file), fid)
       IN IF found # {} /\ successful THEN [at EXCEPT !.file = CHOOSE f \in found : TRUE] ELSE at

Walk(at, path, successful) ==
  LET go[i \in 0..Len(path)] == IF i = 0 THEN at ELSE StepTo(go[i - 1], path[i], successful)
  IN go[Len(path)]

(* UiccSelect.process_on_lchan; "raised" stands for the ValueError           *)
UiccSelect(at, apdu) ==
  LET ok == apdu.sw = "ok" IN
  CASE apdu.kind = "FROM_MF" -> Walk([at EXCEPT !.file = MF], apdu.arg, ok)
    [] apdu.kind = "FROM_DF" -> Walk(at, apdu.arg, ok)
    [] apdu.kind = "FID" -> IF apdu.arg[1] = CurApp THEN at ELSE StepTo(at, apdu.arg[1], ok)
    [] apdu.kind = "AID" -> IF apdu.arg[1] \in Profile THEN [file |-> apdu.arg[1], adf |-> apdu.arg[1]] ELSE at

(* RuntimeState.add_lchan through RuntimeLchan.add_lchan, called on c        *)
add_lchan_Fresh(c, n) == [k \in DOMAIN lchan \cup {n} |-> IF k = n THEN Fresh ELSE lchan[k]]
add_lchan(c, n) ==
  [k \in DOMAIN lchan \cup {n} |-> IF k = n THEN Inherited(lchan, c) ELSE lchan[k]]

(* RuntimeState.del_lchan and the channels left by RuntimeState.reset        *)
del_lchan_Nothing(n) == lchan
del_lchan(n) == Restrict(lchan, DOMAIN lchan \ {n})

reset_Keeps(open) == [open EXCEPT ![0] = Fresh]
reset(open) == [c \in DOMAIN open \cap {0} |-> Fresh]

(* What ends the tracer: main() catches nothing.                             *)
Raises(apdu) ==
  \/ apdu.kind = "GP"                                            \* parse_cmd_apdu: unknown CLA, INS
  \/ apdu.kind = "PARENT"                                        \* select mode not implemented
  \/ apdu.kind \in Selects \cup {"STATUS", "DATA"} /\ apdu.c \notin DOMAIN lchan  \* get_lchan_by_cla: None
  \/ apdu.kind = "STATUS" /\ apdu.n # Template(lchan[apdu.c].file)   \* another template, or no body
  \/ /\ apdu.kind \in Selects \ {"SFI"} /\ apdu.sw = "ok" /\ apdu.n # NoByte
     /\ apdu.n # Template(UiccSelect(lchan[apdu.c], apdu).file)      \* decode_select_response
  \/ /\ apdu.kind = "OPEN" /\ apdu.sw = "ok"
     /\ \/ apdu.c \notin DOMAIN lchan
        \/ (IF apdu.to = 0 THEN apdu.n ELSE apdu.to) \in DOMAIN lchan

(* ApduCommand.process of the decoded APDU                                   *)
Processed(apdu) ==
  CASE apdu.kind \in Selects \ {"SFI"} -> [lchan EXCEPT ![apdu.c] = UiccSelect(lchan[apdu.c], apdu)]
    [] apdu.kind = "OPEN" /\ apdu.sw = "ok" -> add_lchan(apdu.c, IF apdu.to = 0 THEN apdu.n ELSE apdu.to)
    [] apdu.kind = "CLOSE" /\ apdu.sw = "ok" -> del_lchan(apdu.to)
    [] OTHER -> lchan

(* the decoders of the data read or written take what is well-formed         *)
MayRaise(apdu) == apdu.kind \in {"SFI", "DATA"} /\ apdu.sw = "ok"

process(apdu) ==
  /\ shown' = apdu
  /\ alive' \in (IF Raises(apdu) THEN {FALSE} ELSE IF MayRaise(apdu) THEN BOOLEAN ELSE {TRUE})
  /\ lchan' = IF alive' THEN Processed(apdu) ELSE lchan

(* TpduFilter.input_tpdu                                                     *)
held_Any(tpdu) == tpdu
held(tpdu) == IF tpdu.kind # "GETRESP" THEN tpdu ELSE last_cmd    \* 61xx again is no new command

input_tpdu(tpdu) ==
  \/ /\ tpdu.sw = "more"
     /\ last_cmd' = held(tpdu)
     /\ UNCHANGED <<lchan, alive, shown>>
  \/ /\ tpdu.sw # "more"
     /\ last_cmd' = None
     /\ process([(IF last_cmd # None THEN last_cmd ELSE tpdu) EXCEPT !.sw = tpdu.sw, !.n = tpdu.n])

----------------------------------------------------------------------------
(* What a complete capture determines of the card (history only).            *)

(* a file the tracer can follow the card to: in the profile, and not a DF    *)
(* beside the current one, of which get_selectables knows nothing            *)
Known(at, fid) ==
  fid # CurApp /\ \A f \in CardSees(at, fid) : f \in Profile /\ (IsDF(f) => Parent[f] # Parent[Cwd(at.file)] \/ f = Cwd(at.file))

KnownPath(at, path) ==
  \A i \in 1..Len(path) :
    path[i] = CurApp \/ \A p \in CardWalks(at, path)[i - 1] : Known(p, path[i])

FollowedPath(cmd, at, known) ==
  LET inApp == CurApp \in Range(cmd.arg) IN
  IF ~KnownPath(at, cmd.arg) \/ (inApp /\ "adf" \notin known) THEN known \ {"place"}
  ELSE IF inApp \/ cmd.kind = "FROM_MF" THEN known \cup {"place"} ELSE known

(* sure[c] after the captured end of a select on c, at being the place before *)
Followed(apdu, at, known) ==
  IF apdu.sw = "warned"     \* the card moves; the mirror takes it for refused (Apdu.successful)
  THEN IF apdu.kind = "AID" THEN IF apdu.arg[1] \in Profile THEN Both ELSE {}
       ELSE IF CurApp \in Range(apdu.arg) THEN {} ELSE known \ {"place"}
  ELSE IF apdu.sw = "ok"
  THEN CASE apdu.kind = "FID" -> IF apdu.arg[1] = Fid[MF] THEN known \cup {"place"}
                                 ELSE IF Known(at, apdu.arg[1]) THEN known ELSE known \ {"place"}
         [] apdu.kind = "AID" -> IF apdu.arg[1] \in Profile THEN Both ELSE {}
         [] apdu.kind = "FROM_MF" -> FollowedPath(apdu, [at EXCEPT !.file = MF], known)
         [] apdu.kind = "FROM_DF" -> FollowedPath(apdu, at, known)
         [] apdu.kind = "SFI" -> known \ {"place"}
  ELSE CASE apdu.kind \in {"FID", "SFI"} -> known       \* the mirror stays, as the card
         [] apdu.kind = "AID" -> IF apdu.arg[1] \in Profile THEN {} ELSE known
         [] OTHER -> IF CurApp \in Range(apdu.arg) THEN {}
                     ELSE IF apdu.kind = "FROM_MF" THEN known \ {"place"} ELSE known

Determined(apdu, at, known) ==
  CASE apdu.kind \in Selects -> [known EXCEPT ![apdu.c] = Followed(apdu, at, @)]
    [] apdu.kind = "OPEN" /\ apdu.sw = "ok" ->
         [c \in DOMAIN known \cup {apdu.n} |->
            IF c # apdu.n THEN known[c] ELSE IF apdu.c = 0 THEN Both ELSE known[apdu.c]]
    [] OTHER -> known

(* the commands in lost were executed by the card and never shown            *)
Forget(lost, known) ==
  [c \in DOMAIN known |->
     IF \E cmd \in lost : cmd.kind \in Selects \cup {"PARENT"} /\ cmd.c = c THEN {} ELSE known[c]]

Knows(lost, known) ==
  /\ trusted' = (trusted /\ \A cmd \in lost : cmd.kind \notin Manages)
  /\ sure' = [c \in DOMAIN card' |-> IF c \in DOMAIN known THEN known[c] ELSE {}]

(* an answer was taken for that of another command                           *)
Confused == trusted' = FALSE /\ sure' = [c \in DOMAIN card' |-> {}]

----------------------------------------------------------------------------
(* The phone, the card and the capture (external).                           *)

(* A packet of the capture reaches ApduSource.read and Tracer.main.          *)
Packet(tpdu, seen) == IF seen THEN input_tpdu(tpdu) ELSE UNCHANGED <<last_cmd, lchan, alive, shown>>

(* The phone goes on without having fetched an answer; if its first part was *)
(* missed too, the command is never seen.                                    *)
Unfetched == IF pending # None THEN {pending.cmd} ELSE {}
Unseen == {cmd \in Unfetched : ~pending.seen}

Spend(n) == faults + n <= MaxFaults /\ faults' = faults + n
MayIssue == alive /\ commands < MaxCommands
Issue(seen) ==
  /\ commands' = commands + 1
  /\ Spend((IF seen THEN 0 ELSE 1) + Cardinality(Unfetched))

(* The first byte of a response that comes at once: a SELECT's data are       *)
(* fetched by GET RESPONSE; those of the commands that read nothing a handler *)
(* of an earlier command would are arbitrary, for that earlier command.       *)
FirstByte(cmd, ans) ==
  CASE cmd.kind \in Selects \ {"SFI"} -> {NoByte}
    [] cmd.kind \in {"SFI", "DATA", "GP"} /\ ans.sw = "ok" /\ last_cmd # None -> {FCP, FCI} \cup Channel
    [] OTHER -> {IF cmd.kind \in {"STATUS", "OPEN"} THEN ans.n ELSE NoByte}

(* the card answers at once                                                  *)
Command == MayIssue /\
  \E cmd \in Commands, seen \in BOOLEAN : \E ans \in Answers(cmd) : \E n \in FirstByte(cmd, ans) :
    LET apdu == [cmd EXCEPT !.sw = ans.sw, !.n = n] IN
    /\ Issue(seen)
    /\ card' = ans.card
    /\ pending' = None
    /\ Packet(apdu, seen)
    /\ due' = IF seen THEN None ELSE due
    /\ ended' = IF seen THEN apdu ELSE None
    /\ mixed' = (seen /\ due # None)
    /\ CASE seen /\ due # None -> Confused
         [] seen /\ due = None -> Knows(Unseen, Determined(apdu, card[cmd.c], Forget(Unseen, sure)))
         [] ~seen -> Knows(Unseen \cup {cmd}, Forget(Unseen \cup {cmd}, sure))

(* the card answers 61xx: the phone is to fetch the answer.  Only commands   *)
(* with response data; the repetition after 6Cxx passes the filter likewise. *)
CommandDeferred == MayIssue /\
  \E cmd \in Commands, seen \in BOOLEAN : \E ans \in Answers(cmd) :
    /\ cmd.kind \in {"FID", "AID", "FROM_MF", "FROM_DF", "STATUS", "OPEN"} /\ ans.sw = "ok"
    /\ Issue(seen)
    /\ card' = ans.card
    /\ pending' = [kind |-> "pending", cmd |-> cmd, n |-> ans.n, at |-> card[cmd.c], seen |-> seen]
    /\ Packet([cmd EXCEPT !.sw = "more"], seen)
    /\ due' = IF seen THEN cmd ELSE due
    /\ LET lost == Unseen \cup (IF seen THEN {due} \ {None} ELSE {}) IN Knows(lost, Forget(lost, sure))
    /\ UNCHANGED <<ended, mixed>>

(* GET RESPONSE with the end of the answer                                   *)
GetResponse ==
  \E seen \in BOOLEAN :
    LET tpdu == [kind |-> "GETRESP", c |-> pending.cmd.c, arg |-> <<>>, to |-> 0, sw |-> "ok", n |-> pending.n]
        apdu == [pending.cmd EXCEPT !.sw = "ok", !.n = pending.n]
    IN /\ alive /\ pending # None
       /\ Spend(IF seen THEN 0 ELSE 1)
       /\ pending' = None
       /\ UNCHANGED <<card, commands>>
       /\ Packet(tpdu, seen)
       /\ due' = IF seen THEN None ELSE due
       /\ ended' = CASE ~seen \/ (due # None /\ ~pending.seen) -> None
                     [] seen /\ due = None -> tpdu  \* 61xx was missed: the tracer knows only this much
                     [] OTHER -> apdu
       /\ mixed' = FALSE
       /\ CASE seen /\ pending.seen -> Knows({}, Determined(apdu, pending.at, sure))
            [] seen /\ ~pending.seen /\ due # None -> Confused
            [] OTHER -> Knows({pending.cmd}, Forget({pending.cmd}, sure))

(* GET RESPONSE with a part of a long answer, 61xx again                     *)
GetResponsePart ==
  /\ alive /\ pending # None
  /\ Packet([kind |-> "GETRESP", c |-> pending.cmd.c, arg |-> <<>>, to |-> 0, sw |-> "more", n |-> 0], TRUE)
  /\ UNCHANGED <<card, pending, ended, due, mixed, sure, trusted, commands, faults>>

(* CardReset: RuntimeState.reset; the filter is not told                     *)
Reset == MayIssue /\
  \E seen \in BOOLEAN :
    /\ Issue(seen)
    /\ card' = [c \in {0} |-> Fresh]
    /\ pending' = None
    /\ lchan' = IF seen THEN reset(lchan) ELSE lchan
    /\ trusted' = seen
    /\ sure' = [c \in {0} |-> Both]
    /\ ended' = None /\ mixed' = FALSE
    /\ UNCHANGED <<last_cmd, alive, shown, due>>

Init ==
  /\ card = [c \in {0} |-> Fresh] /\ pending = None
  /\ last_cmd = None /\ lchan = [c \in {0} |-> Fresh] /\ alive = TRUE /\ shown = None
  /\ ended = None /\ due = None /\ mixed = FALSE /\ sure = [c \in {0} |-> Both] /\ trusted = TRUE
  /\ commands = 0 /\ faults = 0

Next == Command \/ CommandDeferred \/ GetResponse \/ GetResponsePart \/ Reset

Spec == Init /\ [][Next]_vars

----------------------------------------------------------------------------
(* no answer is outstanding and the tracer can know the channels            *)
Settled == alive /\ trusted /\ pending = None /\ due = None

(* On every channel the mirror has the card's selected file and application  *)
(* as far as the capture determines them, however the answers were split     *)
(* into TPDUs; after packets were missed an absolute SELECT or a reset       *)
(* brings the mirror back.  The limits are in sure: a SELECT by AID is taken *)
(* for successful, a path from the MF rewinds even when refused, a DF beside *)
(* the current one is not found, a file read by SFI does not become current  *)
(* (UiccSelect.process_on_lchan, RuntimeState.reset, RuntimeLchan.add_lchan).*)
SelectedFollows ==
  Settled =>
    \A c \in DOMAIN card \cap DOMAIN lchan :
      /\ "place" \in sure[c] => lchan[c].file = card[c].file
      /\ "adf" \in sure[c] => lchan[c].adf = card[c].adf

(* The mirror has the channels the card has open, if no MANAGE CHANNEL was   *)
(* missed since the last reset that was captured (ManageChannel).            *)
ChannelsFollow == Settled => DOMAIN lchan = DOMAIN card

(* A command whose parts were all captured is shown once it ended, with its  *)
(* own response and not with another's, in particular after a gap; except    *)
(* the first that ends where the end of a held answer was missed, which      *)
(* TpduFilter takes for that answer (apdu/__init__.py:433-438).              *)
ShownAsSent == ended # None /\ ~mixed => shown = ended

(* What stops it: a command of an unknown class, an unsupported select mode, *)
(* data its decoder does not take, a refused STATUS, a SELECT or STATUS of   *)
(* which the capture does not determine the file; else a MANAGE CHANNEL was  *)
(* missed or an answer not fetched (Tracer.main catches no exception).       *)
StopsOnlyUnhandled ==
  [][alive /\ ~alive' => \/ ~trusted'
                        \/ ended'.kind \in {"GP", "PARENT", "SFI", "DATA"}
                        \/ (ended'.kind = "STATUS" /\ ended'.sw # "ok")
                        \/ (ended'.kind \in Selects \cup {"STATUS"} /\ "place" \notin sure'[ended'.c])]_vars
=============================================================================
