# TLA+ specifications of pySim and osmo-smdpp

This directory holds TLA+ models of this repository's programs, the TLC
configurations that check them on small instances, and machine-checked (TLAPS)
proofs about them.  The repository is Osmocom's pySim tree, extended with a
zero-knowledge mode (`--zk`) in the SM-DP+: `osmo-smdpp.py` delivers eSIM
profiles over the GSMA SGP.22 ES9+ interface, the `pySim` package is the library
below it and below the card tools.

Every definition stands for lines of the source; `PROJECT.json` ("map") names
them.  File names below are relative to the repository's root.

## 1. Inventory

| part | source | state it keeps | operations | what is hard |
|---|---|---|---|---|
| SM-DP+ server | `osmo-smdpp.py` | the session store `rss`, its certificates, the UPP files it reads | `initiateAuthentication`, `authenticateClient`, `getBoundProfilePackage`, `handleNotification`, `cancelSession` | requests of several LPAs interleave, are repeated, delayed or delivered to the wrong session; a handler may fail or be killed between two stores |
| session state and store | `pySim/esim/rsp.py` | one `RspSessionState` per transaction, in a shelve | item access, pickling | a read yields a copy; what is not stored back is lost |
| Merkle accumulator | `pySim/esim/rsp.py` | leaves, root | `add`, `generateProof`, `verifyProof` | proofs generated and verified by different code |
| ES9+ client (eUICC + LPA) | `contrib/es9p_client.py`, `pySim/esim/es9p.py` | one download | `do_download`, `do_notification` | the other end of every ES9+ race |
| JSON API | `pySim/esim/http_json_api.py`, `pySim/esim/es2p.py` | none | encode and decode requests and responses | errors in bodies of successful HTTP replies |
| BSP protection | `pySim/esim/bsp.py` | block number, MAC chaining value, keys | `encrypt_and_mac_one`, `mac_only_one`, `demac_and_decrypt`, `demac_only` | two ends that must step their counters and chains in the same order, across a change of keys |
| bound profile package | `pySim/esim/es8p.py` | the package under construction | `from_upp`, `from_ppp`, `encode`, `decode` | order of the protected parts, replacement session keys |
| certificates | `pySim/esim/x509_cert.py` | roots and intermediates | `verify_cert_chain` | walk of a chain that may be a loop or end nowhere |
| profile elements | `pySim/esim/saip/` | a sequence of profile elements, a file tree | add, remove, renumber, rebuild mandatory elements; personalisation; validation | invariants over a whole sequence |
| file system model | `pySim/filesystem.py` | a static tree of files | select by name, build paths | names and identifiers of several applications in one name space |
| runtime | `pySim/runtime.py` | per logical channel: selected file, application, FCP | `select`, `probe_file`, `status`, `reset` | what pySim believes is selected and what the card has selected |
| card commands | `pySim/commands.py`, `pySim/cards.py`, `pySim/euicc.py`, `pySim/ara_m.py` | none | multi-part read and update | partial failure of a split command |
| transport | `pySim/transport/` | proactive handler, SW interpretation | `send_apdu`, GET RESPONSE, FETCH | nested retries and proactive commands |
| GlobalPlatform | `pySim/global_platform/` | secure channel: keys, counter, chaining value | `INIT UPDATE`, `EXTERNAL AUTH`, wrap and unwrap | both ends' chaining values after an error |
| OTA, SMS | `pySim/ota.py`, `pySim/sms.py`, `pySim-smpp2sim.py` | counters, segments | encode, decode, deliver | segmentation, padding, response packets |
| CAT | `pySim/cat.py` | none | TLV definitions | - |
| APDU trace | `pySim/apdu/`, `pySim/apdu_source/`, `pySim-trace.py` | a shadow of the card's channels | decode and apply each APDU of a trace | a shadow state that must follow the card |
| card key providers | `pySim/card_key_provider.py` | provider list | look-up with decryption | first match wins |
| card profiles and file definitions | `pySim/ts_*.py`, `pySim/profile.py`, `pySim/gsm_r.py`, `pySim/sysmocom_sja2.py` | none | tables, coders | - |
| batch card programming | `pySim-prog.py`, `pySim/card_handler.py`, `pySim/legacy/cards.py` | the card number, the CSV file and HLR, the batch state file | `process_card`, `program` of each type of card, `save_batch` | a card is several writes, its record several files; failures, interruptions and resumption between any two |
| command line tools | `pySim-shell.py`, `pySim-read.py`, `contrib/` | arguments | scripts over the above | - |

What makes each part correct: the SM-DP+ must hand a profile only to an eUICC
that it has verified, bound for exactly what that eUICC signed, and never after
the session ended; the two ends of a protected channel (BSP, SCP02, SCP03) must
accept what the other produced, in order, and nothing else; the runtime's idea
of what is selected must be the card's; a split read or update must neither skip
nor repeat a byte; a sequence of profile elements must keep its identification
numbers, order and mandatory elements through every edit.


## 2. Plan

The modules, in the order of what matters most to the programs.

| | modules | what they model | abstract specification | proofs |
|---|---|---|---|---|
| 1 | `ProfileDelivery`, `SmDpp`, `SmDppDelivery` | the ES9+ handlers, the session store, the clients as their environment | `ProfileDelivery`, implemented by `SmDpp` | `SmDppProofs` |
| 2 | `BoundProfilePackage` | both ends of a bound profile package | its closed form (`SentAsPlanned`, `ReceiverAt`) | `BoundProfilePackageProofs` |
| 3 | `BspSegments` | how long plaintexts are cut into segments | a range of bytes covered once | `BoundProfilePackageProofs` |
| 4 | `MerkleAccumulator` | the accumulators of the `--zk` mode | - | `SmDppProofs` |
| 5 | `Runtime` | selection on logical channels against a card | the selected file is the card's | `RuntimeProofs` |
| 6 | `SecureChannel` | SCP02 and SCP03 between host and card: counters, chaining, wrap and unwrap, loss, re-establishing | each command executed once, as meant, in order | `SecureChannelProofs` |
| 7 | `Transport` | `send_apdu` and `send_apdu_checksw`: GET RESPONSE, wrong Le, FETCH and TERMINAL RESPONSE, late answers | one answer for one command | `TransportProofs` |
| 8 | `CardProgramming` | `pySim-prog.py` in batch mode | the records agree with the cards | `CardProgrammingProofs` |
| 9 | `Trace` | the mirror of a traced card in `apdu/` against the card and the phone | the mirror is where the card is | `TraceProofs` |
| 10 | `FileAccess` | reading and updating EFs: split commands, comparison before, verification after | the file with a prefix of the data | `RuntimeProofs` |
| 11 | `ProfileElements` | a `ProfileElementSequence` and the edits of `saip-tool.py` | what the basic checks demand | `ProfileElementsProofs` |

The other parts of section 1 keep no state over more than one call; section 7 says
why there is no module for them.

## 3. What is modelled

### 3.1 The SM-DP+ (`SmDpp`, `SmDppDelivery`, `ProfileDelivery`)

`SmDpp` has the members of `osmo-smdpp.py`'s server as variables:

| variable | code |
|---|---|
| `rss` | `RspSessionStore`: transactionId -> `RspSessionState` or None |
| `lastTid` | `uuid4().hex.upper()`: the next transaction is one never used |
| `fresh` | random draws: one-time keys, the nonce of an ECDSA signature |
| `upp` | the files of `upp_dir`; a content is named by its ICCID |
| `expired` | the clock, as far as `FIXED_EXPIRY` is concerned |
| `bodies`, `replies` | what eUICCs have signed, what the SM-DP+ has answered |

Klein runs a handler to its end on one thread, so a handler is one action:
`initiateAuthentication`, `authenticateClient` with its refusal,
`getBoundProfilePackage`, `handleNotification`, `cancelSession`. `rss` is a
shelve: reading it yields a copy, and what a handler assigns to the copy is lost
if it raises before it stores it back. So a refused `authenticateClient` leaves
one change, the certificate (`KeepCertificate`, the store at line 740), and a
refused request of the other handlers none at all, which is why those have no
action. The process may be killed between two stores (`CrashIn...`) and
restarted.

The environment is the eUICCs and LPAs. A signature is a term that names its
signer and what it covers. Messages are sets that only grow: any message may be
lost, delayed, repeated, overtaken, and with `Misrouting` be delivered under the
id of another session. `Card` says what an eUICC holds, also eUICCs that must be
refused: a foreign certificate issuer, a broken chain, a key that is not the
certificate's, with `--zk` a bundle made for another eUICC.

A client signs any `smdpSignature2` it is given (`es9p_client.py` does not look
whom it is for), and with `Misrouting` it is given that of any session
(`GivenTo`). So a refused client can have its certificate stored last and its
`euiccSignature2` accepted, and a package bound to its one-time key. Which package
it can open is another matter: `LoadBoundProfilePackage` derives the session keys
with the client's own EID, and `OnlyAdmissibleServed` judges the clients that do
open one.

`ProfileDelivery` is what an SM-DP+ promises without certificates, signatures or
files: a transaction is opened once, has one offer at a time, delivers only the
offer that stands, and nothing after it was closed. `SmDppDelivery` maps the
store to it: the offer of a transaction is the EID and metadata stored beside
`smdpSignature2`, and a session not in `rss` any more is closed. The certificate
that a request leaves in a session changes no offer; that this is so after every
request is what the mapping has to show.

### 3.2 The bound profile package (`BoundProfilePackage`)

`encode` protects the next command of a package with one of the two
`BspInstance`s the SM-DP+ has for it, the session's or that of the PPP;
`TakeSegment` and the actions for the ends of the parts are
`BoundProfilePackage.decode`, segment by segment. Keys, block number and MAC
chaining value of each instance are state. A ciphertext records key and block
number, a chaining value everything authenticated so far. Between the ends a
segment may be lost, repeated, exchanged with one of another session, or carry
another one's MAC; when one is not verified, `decode` raises and the instance is
not used again. `TakeSegment` takes a segment from the sequence of its own tag:
`decode` checks the tags of the sequences only (es8p.py:257-280), and leaves it to
the LPA, as the outer TLVs do, what is in which.

Simplifications: the 8 bytes of a MAC stand for the 16 of the chaining value (no
collisions); a segment stays in the sequence of its tag, for the outer TLV
sorts them; that the last segments of a package are missing is something the
protocol does not detect and `TakenInOrder` therefore does not claim.

### 3.3 Segments (`BspSegments`)

`encrypt_and_mac` and `mac_only` as loops over the remaining length, with the
numbers of the code (1020, 16, 8), for both operations. A segment that is only
authenticated keeps the limit; `encrypt_and_mac` pads a segment after it was cut, so
`SegmentSizeBounded` allows it the padding of one block, and the run
`segments_limit` shows that it needs it. The loop shares no state with 3.2 and runs
beside it in `MCBoundProfilePackage`.

### 3.4 The accumulator (`MerkleAccumulator`)

`add`, `remove`, `generateProof`, `verifyProof` and `_compute_root`. The loops over
the levels of the tree are functions of the number of the level (`Levels`), `Height`
is the level at which the loop ends. Digests are numbers, since `verifyProof`
compares them, and the run takes a pairing function for `hash_fn`: no collisions.

Leaves are not hashed (rsp.py:250), and members may be digests, as those of the
server are (osmo-smdpp.py:783-789): one of the run's elements is the digest of two
others. `verifyProof` knows neither the height of the tree nor the number of
members. So `NoFalseMember` claims what is true of it: a proof is of a node on the
level that its length names, and with a proof as long as the tree is high that is a
member; with a shorter one an inner node passes, and with an empty one the root.
`RootCommits` compares lists whose trees have one height: a lower tree may have the
inner nodes of a higher one as members, and the same root.

### 3.5 The runtime (`Runtime`)

`lchan` is what pySim believes of each channel (`selected_file`,
`selected_adf`, and which file `selected_file_fcp` describes), `tree` the files
it knows; `current` (the selected file of each channel) and `files` are the card. A file is its
path. One command of
pySim-shell is one action, and may send many SELECTs:

| definition | code |
|---|---|
| `select`, `selectPath`, `GoBack` | `RuntimeLchan.select`, with its way back after an exception |
| `select_file`, `EscapeApp`, `CardWalk`, `Reached` | `RuntimeLchan.select_file` |
| `probe_file`, `Probed` | `RuntimeLchan.probe_file`: adds an unknown file that the card has |
| `named`, `build_select_path_to` | `filesystem.py` |
| `do_open_channel`, `do_close_channel`, `do_switch_channel`, `do_reset`, `do_create_df` | the commands of pySim-shell and of `ts_102_222.py` |

The card (`InReach`, `Found`) follows the rules of ETSI TS 102 221 8.4.1 for what
a file identifier may refer to from the current directory: among others the
directories beside it. pySim does not know those and adds them below the current
one when they are probed, so one file of the card can have several paths in
`tree`. `refused` is the file whose SELECT the card refuses at present; it
changes between commands. The MF is never refused.

A way back begins at the file that the card has selected. Where pySim does not know
of that file (it was just created, or probed from an EF) it may fail at its first
SELECT, because the card refuses that or, from a DF created two levels below the MF,
does not find it: then the exception leaves the card there and pySim at the old file.
`astray` records it (`lost` is the same within a command), and the properties speak
of the time until then; the run explores nothing after it (`OnCourse`).

Left out: reading and writing, the commands a file brings with it, an exception
of the reader in the middle of a path, `delete_file`.

### 3.6 The transport (`Transport`)

`stack` are the calls of `send_apdu_checksw` in progress (`Fetch` calls it again
for the FETCH), `io` is the `_send_apdu` of `LinkBaseTpdu` below them, `line` what a
card has answered after the driver gave up. `Call` is the caller; `send_tpdu` one
TPDU with its answer and what `_send_apdu` makes of it (`AfterAnswer`);
`send_apdu_returns`, `Fetch`, `FetchReturns`, `Return` and `RaiseSwMatchError` are
the way back; `Timeout` is a driver that raises, after which the card may have
carried the TPDU out, and its answer may be on its way (`coming`). The card (`CardAnswers`)
answers at once or in parts, with a wrong length, with a warning, and may announce
a proactive command after every command or TERMINAL RESPONSE. The run uses the
driver of a modem, which flushes its line once, before it writes
(modem_atcmd.py:64). A late answer arrives at any time (`Arrives`): before the flush,
and it is gone, or after it, and it is read as the answer to the command written
then, for nothing in an answer names its command. `overtaken` records the latter for
the call in progress; what the properties say of a call they say unless that
happened during it. `calypso.py` does not flush, and with `Driver = "calypso"` both
invariants fail.

### 3.7 The secure channel (`SecureChannel`)

`scp` is the `SCP02` or `SCP03` object of each logical channel of pySim-shell,
`session` what the card keeps for the channel. `establish_scp`,
`do_release_scp`, `select_adf`, `reset` and `send_apdu` are the commands; a
`send_apdu` wraps, is carried out or suffers a fate (the command or its response
is lost, an old response comes back), and is unwrapped. `wrap_cmd_apdu` is
translated with its order of effects: the counter and the chaining value are
advanced before the lengths are checked, so an exception leaves them advanced. A
ciphertext records the counter that it was made under, a MAC everything chained
so far. The card accepts a command if its MAC is right for its own chain. In S16
mode SCP03 finds only after it has enciphered a command, and so counted it, that
there is no room for the MAC (scp.py:561-567); `miscounted` has the sessions in which
that happened, and `ExecutedAsMeant` is about the others. The run `channel` has
this mode, with a size for which it happens; `channel_s16` shows what comes of it.

### 3.8 Batch programming (`CardProgramming`)

`pc` goes through `process_card`: `get`, `card_detect`, `erase`, `parameters`,
`program`, `write_params_csv`, `write_params_hlr`, `save_batch`, then `done` or
`error`. Each type of card has the sequence of what its `program` method writes
(`SysmoSIMgr2_program`, ...), with the difference between an update whose status
word is checked, a command that is only sent, and a file that is written only if
the application was found. Any step may fail, the user may interrupt between two,
and the batch may be resumed with the number that was noted. A card that was in
the reader when the program ended is set aside (`left`). Batches with
`--batch-state` and a CSV file are modelled; since `init_batch` calls
`d.iteritems()`, which raises (pySim-prog.py:691), resuming is a new call with the
number from the file.

### 3.9 The trace (`Trace`)

`lchan` is the mirror (`RuntimeState.lchan`), `last_cmd` what `TpduFilter` holds,
`alive` whether the tracer still runs; `card` is the card with its channels and
`pending` the response that the phone has yet to fetch. The phone issues commands
(`Command`, `CommandDeferred`, `GetResponse`, `GetResponsePart`, `Reset`); each of
their packets may be missed by the capture. The tracer has no influence on the
others, so a packet is processed in the step that sends it (`input_tpdu`,
`process`). `sure` says what of the mirror a follower can still know after a loss,
or after a command that the tracer's file system does not describe; the
properties hold the mirror to that and to nothing more. A SELECT's data are fetched
by GET RESPONSE, as in T=0; what is answered at once may be 6283, a selected but
deactivated file, which the tracer takes for a failure (`warned`).

What ends the tracer is `Raises`, and besides `MayRaise`, the decoders of the data
read or written, about which the model decides nothing. `Raises` has the response to
a SELECT or STATUS that is not of the form the mirror's file expects: an FCI ('6f')
from the ISD-R, an FCP ('62') from any other (ts_102_221.py:115-119,
euicc.py:378-382), which is how a mirror that is elsewhere than the card shows. When
the end of a held answer was missed, `TpduFilter` takes the next answer for it
(apdu/__init__.py:433-438): the held command is shown with it, and the one it belongs
to is not shown. `mixed` marks that command, and `Confused` what it does to the mirror.
`FidAssumption` is the rule
of TS 102 221 8.2 for file identifiers: none twice under one DF, nor that of a DF
above; without it a card could select another file of the same name.

### 3.10 Profile elements (`ProfileElements`)

`pe_list` and `pes_by_naa` are the sequence and its index, `svc` and `gfste` the
mandatory lists of the header, `file` the profile on disk. `Load` and `write_pes`
are the ends of a call of `saip-tool.py`; between them each edit is one action with
the rebuilding of the index and the renumbering that the method does at its end.
`Apply` stands for the personalisation, with one parameter for each kind of place
that a parameter is written to: the header and an EF (`Iccid`), one PE of a kind
(`Imsi`), every PE of a kind (`K`), every instance of an NAA (`Pin2`). A PE with a
mappingParameter instead of an algoParameter (`akaMapping`) has no key:
personalization.py:591 passes it over, and the check of the services stops at it with
a KeyError (validation.py:111-112), so that a profile with one passes no check.
`Checks` is `CheckBasicStructure`. A PE is told from another by its `uid`, as an
object is in Python; a comprehension over the list keeps the PEs at some positions
(`At`, `Keep`). `ProfilesAssumption` says what a file that is loaded may be: PEs of
any types, those with a PE header numbered, each differently.

### 3.11 Reading and updating files (`FileAccess`)

One call at a time goes from `Ended` through the states of `at` back to `Ended`:
`Select`, the loop of commands (`ReadChunk`, `WriteChunk`), and what is decided at
its end (`ReadDone`: return, compare, verify; `WriteDone`). `content` is the card's
transparent EF (file 0) and records, `was` the same when the call began, by which
the properties judge what the call has done. `pos` and `got` are `chunk_offset` and
`total_data`. A call of `SimCardCommands` has the flags `verify`, `force_len` and
`leftpad`; one through a `RuntimeLchan` has none of the first two, and is refused by
`__check_writeable_size` when the FCP tells a size (`sized`). `capital` is data in
whose digits there is a capital letter, which can be where a byte has a letter
(`Lettered`): `Matches` compares with what was read as strings, and that is in small
letters (commands.py:361, 453), while verify compares both in small letters. The
card may refuse any
command, do it and lose the answer, or store another byte than it was given; a
command past the end of a file is refused without that being a fault. Left out:
`expand_hex` (plain digits, the only thing the shell lets through, stay as they are)
and the FCP (a file has the size its SELECT says). Nobody else writes to the card.

## 4. The runs

| run | instance | properties |
|---|---|---|
| `misrouted` (846k states) | two eUICCs, one with a broken certificate chain, two sessions, responses delivered under either id, replies given to and signed by either client | `OnlyAdmissibleServed`, `SessionCoherent`, `EndedForGood` |
| `repeats` (1.4M) | one eUICC and session, two matchingIds, one change of a file, one restart or crash, five draws: `authenticateClient` and `getBoundProfilePackage` each at least twice | `TypeOK`, `BppAsAgreed`, `OneTimeKeys`, `ImplementsDelivery` |
| `zk` (208k) | `--zk`, two eUICCs with the bundle made for one of them, expiry, one restart, fairness | `OnlyAdmissibleServed`, `CancelAfterRefusal` |
| `bpp` (78k) | three sessions: two whose PPPs have the same test keys, as the server makes them, and one whose PPP has the session's own keys, as with `--zk`; packages that begin alike, up to six segments. Beside them all lengths around none, one, two and three full segments, cut by either operation; and accumulators of up to four members, two proofs kept while members come and go | `TakenInOrder`, `InStep`, `SegmentsRight`, `NoFalseMember`, `RootCommits` |
| `segments_limit` | the same; violation | `SegmentSizeLimited` |
| `runtime` (210k) | three channels, the third opened from any other; known and unknown DFs and EFs, an application with and one without file system; up to two files probed, a DF created in a DF; any of five files refused. Beside it an EF of three bytes that takes two commands, and one record; data shorter, as long as and longer than either, in capital and small letters; every content, every combination of flags, one fault | `SelectedOnCard`, `NotTrapped`, `FailedGoesBack`, `ReadIsContent`, `UpdateKept`, `WritesOnlyWhatDiffers` |
| `transport` (1.15M) | two commands of every case, both protocols, with and without handler and strictness; responses of up to two parts fetched one by one, two proactive commands, one timeout, whose answer comes at any later time | `AnswerOfCommand`, `ExecutedOnce`, `ProactiveAnswered`, `CallsReturn` |
| `channel` (542k) | two channels, SCP02 and SCP03 in S16 mode, every level; commands of 0, 20, 230 and 240 bytes; two sessions, three commands, one loss | `ExecutedAsMeant`, `ResponseOfCommand`, `CardBehind`, `InStep` |
| `channel_s16` | the same; violation | `AlwaysAsMeant` |
| `cards` (484k) | three cards of three types (all updates checked; keys sent unchecked; files behind an AID), five command lines, two failures or interruptions | `GoodAsRecorded`, `GoodDistinct`, `HlrFollows`, `CardsPutAway` |
| `trace` (2.93M) | four commands on up to three channels, an application, the ISD-R, DFs and EFs known and unknown to the tracer, two packets missed | `SelectedFollows`, `ChannelsFollow`, `ShownAsSent`, `StopsOnlyUnhandled` |
| `elements` (344k) | three profiles: two USIMs with optional elements, USIM and ISIM, gaps in the numbering, an AKA parameter that refers to another; three edits, two loads | `IdentificationUnique`, `AppliedIsWritten`, `RemovedWithoutTrace`, `ChecksKept` |

`bpp` and `runtime` look at several models that share no state, one at a time: the
others are then in an initial state. The two violations are disagreements between the code and
what it says of itself; section 5 describes them.

Why these bounds are enough to be worth having: every property compares one thing
with another of its kind (two sessions, packages, commands, cards, channels), and
each run has two of what its properties compare, three where the third can be
harmed by what happened between the first two (`cards`, `trace`). The proofs of
section 6 then remove the bounds for all modules. In `FileAccess` a loop of two commands
has a first, a last and a shorter one, so that each edge of the loop is met. Four
elements make a tree of three levels with odd numbers of nodes on the lowest and the
middle one; an accumulator that has given two proofs is left alone, for its properties
are about two proofs. In `runtime` two probed files suffice for one to lie below
another, and three channels for one to be opened from another than the basic one; the
third one only while the card is as at the beginning and the basic channel at the MF
(`Few`), for what is inherited is the directory of the channel it is opened from. In
`transport` one answer may arrive during a later command, which needs two commands and
one timeout. In `channel` 230 bytes are padded to 240, which leaves no room for a MAC of
16 after the command was counted, and 240 to 256, which is refused before. In S8 mode,
the default, there is only the latter; the proofs are for both.

`channel` checks for deadlock: a channel can always be released or reset. The other
cfgs say `CHECK_DEADLOCK FALSE`: all bounded models stop when their bounds
are reached, the loop of `BspSegments` and the batch of `cards` end, and a tracer
that meets a command it cannot process ends.

Fairness.

- `CancelAfterRefusal` assumes weak fairness of `DeliverCancel` alone: an LPA that
  has a signed cancelSession repeats it until it is answered, and the server, a
  loop around one thread, answers what it gets. No other action is fair: clients
  may vanish and operators may do nothing.
- `CallsReturn` assumes weak fairness of the steps of `send_apdu_checksw` and of
  the exchange of a TPDU: a thread that is in these loops runs on, and a driver
  returns or raises. Neither the caller's next command nor a timeout is fair.
- `CardsPutAway` assumes weak fairness of the steps of `process_card`: the program
  runs on with a card in the reader. It is not assumed that another card is put in,
  nor that anything fails; `get` and `Interrupt` are not fair.

## 5. What the code does otherwise

Where the properties of section 4 stop short of what one might expect, this is why.
All of it follows from the lines named; the models have the behaviour, except where
it lies outside them.

The SM-DP+ and the package:

- A session is stored under an upper-case key and looked up under a lower-case one
  by `handleNotification` (osmo-smdpp.py:1005), so it stays.
- The accumulator of spent tokens belongs to one session (osmo-smdpp.py:217, 879;
  rsp.py:72): a token may be used again in the next.
- A cancelSession before any `authenticateClient` raises for want of a
  certificate, and the session stays. `main()` does not pass `--in-memory` on.
- `euiccSignature2` is verified with the certificate that was stored last, also by a
  request that was refused (osmo-smdpp.py:732-740, 933). A package may so be bound to
  the one-time key of another client than the one that was accepted, but under the
  accepted EID, from which the keys are derived as well (`OnlyAdmissibleServed`).
- `encrypt_and_mac` pads what it has cut (bsp.py:237, 257): a full segment of 1008 bytes
  becomes one of 1036, while bsp.py:22-23 quotes a maximum of 1020 (run
  `segments_limit`).
- Leaves are not hashed, and there is no separation between leaves and inner nodes
  (rsp.py:250); `verifyProof` takes a proof of any length. An inner node, or the root
  with an empty proof, is therefore accepted as an element if its digest is presented
  as one, and accumulators of different heights can have the same root (section 3.4).
- The root hashes pairs by position (rsp.py:243), a proof is verified by value
  (rsp.py:290): the proof of a member may be refused; `NoFalseMember` claims only
  the other direction.

The shell:

- After a DF was created two levels below the MF, the card stays in it: the file that
  was selected is not to be found from there, and `select_file` raises
  (ts_102_222.py:208-209). `probe_file` while an EF is selected moves the card and
  cannot add the file to an EF; when the SELECT of the EF's directory is then
  refused, the runtime believes the EF selected. So with a created file and a way back
  that is refused. `SelectedOnCard` speaks of the time until then (`astray`).
- If the only applications are without file system, there is no way out of them
  (runtime.py:395): `AppsAssured` excludes that.
- With T=0 a warning 62xx or 63xx is followed by GET RESPONSE, so that the 63Cx of
  VERIFY never reaches `_chv_process_sw` (commands.py:662). Data received before a
  6Cxx is dropped. A plain `send_apdu` leaves a 91xx unanswered. Without a proactive
  handler a 91xx raises AttributeError (transport/__init__.py:223).
- A modem that answers after the driver gave up and after the next command was written
  has its answer taken for that command's: the flush comes before the write
  (modem_atcmd.py:64-65). `AnswerOfCommand` excepts that call (`overtaken`).
- SCP02 with C-ENC and 240 to 247 bytes raises after the initial vector advanced
  (scp.py:341): the channel is lost. `max_cmd_len` ignores the padding
  (commands.py:81). In SCP03 with a MAC of 16 bytes (`--s16-mode`) the command is
  enciphered, and `block_nr` advanced, before the length is compared (scp.py:561-567):
  the card reads the next command under another counter and carries out something
  else (run `channel_s16`). With MACs of 8 bytes this does not happen (`ReadRightS8`).
  SCP03 sends a wrapped command of another channel to the basic one (scp.py:571), SCP02
  asserts there is none (330). With R-ENC an empty response raises IndexError. A status
  word that is an error is not authenticated, by design of the protocol.

Reading and updating:

- A read or an update of no bytes raises UnboundLocalError (commands.py:326, 389);
  the comparison before an update swallows it, a later refusal would be the same.
- Only a `RuntimeLchan` knows the size. The length of a record is not compared when
  the caller forces it, and a transparent EF is written up to the command that the
  card refuses. `RefusedWholly` is therefore about `sized` calls.
- With `conserve` a record that begins with forced data counts as equal
  (commands.py:449), and data in capital letters is written over with itself: strings
  are compared (commands.py:361, 453), what the user gives stays as it is (`is_hexstr`,
  filesystem.py:630, 924), what is read is in small letters. `WritesOnlyWhatDiffers`
  speaks of small letters.
- An offset of 32768 and more becomes a short file identifier (commands.py:318, 379);
  files here are shorter (`AddressableOffsets`).

Batch programming:

- `d.iteritems()` (pySim-prog.py:691) raises, a batch is not resumed by itself.
- Interrupted between the commit to the HLR and `num += 1` (pySim-prog.py:655),
  every later card fails on the IMSI that is there already. The CSV row of a card
  that failed stays, and the next card has the same IMSI: the last row counts.
- A dry run records cards that were never programmed. `--probe` in batch mode never
  puts the card away. A state file that cannot be written is left truncated.
- `read_aids` of SJA2 swallows exceptions (cards.py:132): the keys of the
  applications are then not written, and the card is recorded as good. The Ki of a
  Grcard is sent unchecked (legacy/cards.py:755). SJA2, Fairwaves and Wavemobile do
  not write the ICCID that is recorded. So `GoodAsRecorded` claims what the card
  has confirmed.

The trace:

- SELECT by AID is taken for successful without a look at the status word
  (apdu/ts_102_221.py:102), a refused path from the MF rewinds to the MF (60), 7FFF
  moves the mirror when refused (65). `last_cmd` survives a reset and a GET RESPONSE
  that never came or was missed: the next answer is shown as the old command's, and the
  command it belongs to is not shown (apdu/__init__.py:433-438); `ShownAsSent` excepts
  that one (`mixed`). 6283 is a failure to `Apdu.successful` (130-142), although the
  file is selected. The offset of
  READ BINARY is always 0 from the high byte, `(p1 & 0x7f) << 8 & p2` (142).
- The tracer ends with a traceback on an unknown command, on the select modes child
  and parent, on a refused STATUS, on a channel it has not seen opened and on one
  that is opened twice, on a response to SELECT or STATUS that has not the template of
  the mirror's file (an FCP '62' while it believes the ISD-R selected:
  ts_102_221.py:115-119, euicc.py:378-382), and on data that a decoder does not take
  (`Raises`, `MayRaise`). `StopsOnlyUnhandled` says that nothing else does.

Profile elements:

- `self.pres_by_naa` (saip/__init__.py:1641) is a misspelling of `pes_by_naa`: the
  index keeps instances that were removed, and a later
  `rebuild_mandatory_services` adds the service of a removed NAA again.
- `remove_naas_of_type` leaves the services gba-*, milenage and cave, after which the
  basic check fails; an `opt-usim` before the `usim` survives (the check demands no
  order, validation.py:43). The check of tuak256 is inverted (121).
- `SdKey` changes `decoded['keyList']`, which `_pre_encode` overwrites with the keys
  that were loaded: the personalised keys are lost (personalization.py:410).
- A profile with a mapped AKA parameter raises KeyError in the check of the services
  (validation.py:111-112), and the personalisation of the key passes it over (591).
- `Pin2` that raises leaves the earlier instances changed, `Iccid` without an MF the
  header. `write_pes` opens the output before it encodes. A file without an MF that
  has the files of an NAA cannot be loaded (671).

## 6. What is proved

TLAPS checks the following for all values of the constants.

`SmDppProofs`, from `SmDppAssumption` (sorts of the constants) and
`NoneAssumption` (None is no value of the sorts it completes):

- `Invariant`: `IInv` holds. The properties are not inductive by themselves.
  `OneTimeKeys` and the uniqueness in `BppAsAgreed` need that everything drawn
  so far is at most `fresh` (`DrawsNew`); `SessionCoherent` needs that an
  eUICC's response names its own session (`ResponsesOwn`), because a misrouted
  one is told by its challenge only; `OnlyAdmissibleServed` needs that
  `smdpSignature2` is in a session, and a package bound, only with an EID that may be
  served (`SessionsAdmissible`, `PackagesAdmissible`), because the certificate beside
  it, and the one-time key, may be anyone's;
  the last part of `BppAsAgreed` needs `MetadataCurrent`; the closing of
  transactions needs `SessionsOpened`.
- `TypeCorrect`, `SessionsCoherent`, `AdmissibleServed`, `PackagesAgreed`,
  `KeysOneTime` follow; `EndedStays` is the action property.
- `DeliveryImplemented`: `Spec => ImplementsDelivery`. The steps are sorted by
  what they do to offers (`Idle`, `Opening`, `Closing`, an offer, a delivery)
  and each sort maps to one action of `ProfileDelivery` or to a stutter.

Also there, of `MerkleAccumulator`, under the hypothesis `CollisionFree`: `hash_fn`
is injective on pairs of numbers, and nothing else. The pairing function of the run is
such a function; of a real hash it is the usual idealisation. Elements may be digests.

- `AccumulatorInvariant`: the members are distinct, the root is theirs, and a proof
  that was generated is the one of its element in the members it was made for
  (`AccumulatorIInv`). Equal roots of trees of one height are then equal lists level by
  level, from the top to the leaves: an odd last node paired with itself is told from
  two nodes because the members differ. `RootsCommit` follows.
- `NoFalseMembers`: what `verifyProof` computes is, as long as it equals the root,
  on each level a node of the tree (a digest has two parents at most, and the proof's
  sibling is one of them), down to the level at which the proof begins.

`BoundProfilePackageProofs`, from `BppAssumption`: keys are agreed per session,
nonempty metadata.

- `ClosedForm`: `IInv`. Each instance at the SM-DP+ is a function of how many
  segments it has protected (`At`, `Chain`), and each instance at an eUICC is
  one of those (`ReceiverAt`). The step of `TakeSegment` is the core: a MAC that
  verifies has the receiver's whole chain under it, chains of two instances
  differ in their keys or their length, so the segment is the next one of that
  package (`SegmentVerified`, `ChainsDiffer`).
- `TakenAsSent` and `StaysInStep` follow, also for a package made `from_upp`
  (`NoKeys`), which the instance of the run leaves out.

Also there, of `BspSegments`, from `SegmentsAssumption`: a segment has room for a byte.

- `CutInvariant`: the segments so far are contiguous and end where the remainder
  begins, and each fits the payload. `EveryByteOnce`, `LimitKept` and with them
  `SegmentsRightHolds` follow for both operations and limits from 256 bytes: the limit,
  and where a segment is encrypted the padding of one block above it.

`SecureChannelProofs`, from `SecureChannelAssumption` (`SMode` is 8 or 16) and
`NoScpAssumption`.

- `Invariant`: besides the types, each side's chaining value is the sequence of
  commands it has handled (`Chaining`), the card's a prefix of the host's as long as
  nothing was lost, and a command's number tells its session (`Numbered`,
  `Paired`). `NeverAhead`, `OwnResponse` and `BothInStep` follow; `ReadRight` needs
  `Counting`, that in a session that is not in `miscounted` the counter is the number
  of commands in the chain. It holds for both modes; that with MACs of 8 bytes no
  session is ever `miscounted`, and so every command is read as meant, is
  `ReadRightS8`.

`TransportProofs`, from `TransportAssumption` and for the drivers of pcscd and of a
modem.

- `Invariant`: first what each command of the card may answer (`CommandAnswered`,
  `GetResponseAnswered`, ...), then, for the request in progress, that what has been
  collected followed by what the card still has available is the response to it
  (`GetResponseOut`), that a command that is still to be sent has not been carried
  out (`CommandOut`), and that the calls in progress are at most two: the caller's,
  and the one that fetches (`Calling`).
- These hold while no answer to another command was read (`Undisturbed`); what holds
  whoever's answers are read is `Anyhow`: types, and that no command is carried out
  before it is sent. A new call ends the disturbance, for it begins with nothing of the
  old one but the card, so `Undisturbed` is proved of it from `Anyhow` alone.
- `OwnAnswer` and `AtMostOnce` follow, for calls during which no late answer came in
  behind the flush; `NoneOvertaken`: with the driver of pcscd, which hands over none,
  there is no other call.
- `PInv` adds what the status words say of proactive commands: after a
  9000 the card has nothing to announce unless one waits for its answer (`Settled`),
  a FETCH hands over the one that waits (`Fetched`), the TERMINAL RESPONSE on its way
  is the one to it (`ProactiveAnswers`), and the calls in progress keep this
  (`Handling`, `HandingOver`). The card changes only while a TPDU is out, so what a
  frame was told still holds when the caller gets it. `NoneLeftWaiting`, that is
  `ProactiveAnswered`, follows.
- `CallsBounded`: as long as a call lasts and reads its own answers, every step lowers a pair of natural numbers:
  the proactive commands that the card has, or may yet have, for it (`Pending`), and
  the steps to the next of them (`Ahead`), that is the TPDUs for the parts of a
  response, the repetition with the right length, and the FETCH with its TERMINAL
  RESPONSE. For this the card has at most `MaxProactive` commands and a GET RESPONSE
  asks for at least one byte (`NInv`). Responses are as long and as many as the
  constants say: none of the loops of `send_apdu_checksw` goes round for ever with a
  card that keeps its lengths.

`CardProgrammingProofs`, from `BatchAssumption` (the types of the command lines and
of the CSV file), `NoneAssumption` (none is no card) and `CsvAssumption`: with parameters from a CSV file, no two rows
have one IMSI, no two cards are found by the same identity, and cards are not erased
before they are looked up. The code checks none of this; where it does not hold, two
good cards do get the same IMSI.

- `Invariant`: an item that the program method updates is written, or its update is
  still to come (`Confirmed`); the row of the card at work is the last one
  (`Recorded`); and its IMSI is not that of any good card (`Apart`). The last has two
  reasons: generated IMSIs are numbers, and the number noted for resumption is never
  below that of a good card (`Numbered`); looked-up ones belong to a row, and a card
  keeps what it is found by, even half programmed (`LookedUp`).
- `GoodRecorded`, `GoodApart` and `HlrInCsv` follow, for all eleven programs.
- `CardLeaves`: the only card in the reader is the one at work (`InReader`), and every
  step takes it out or lowers what is left to do for it (`ToGo`: the calls of
  `process_card` that follow and the steps of the program method). It uses neither
  `CsvAssumption` nor the other invariants.

`RuntimeProofs`, about `Runtime` from `RuntimeAssumption` (the profile and the card are
trees of paths; no two files that one identifier may refer to have the same; an
identifier tells a directory from an EF), for any profile, card, names, channels,
refusals and number of probed files.

- A file of pySim's is a path, and `LeadsTo(T, f)` the file to which that path leads on
  the card `T`: at most one (`LeadsToOne`), of the same identifier and kind
  (`LeadsAlike`). The paths need not be those of the card, because pySim adds the
  directories beside the current one below it.
- `StepUp`, `StepDown` and `StepAnywhere` say what one SELECT does on such a path;
  `PathConnects`, that `build_select_path_to` makes only such steps, also where it is
  clipped at an application; `WalkLeads` and `WalkArrives`, that the card then follows,
  as far as it does not refuse.
- `RuntimeInvariant`: on each channel the path of the selected file leads to the
  selected file of the card, whose FCP is kept, and `selected_adf` names an application
  without file system exactly while one is selected (`AdfInv`); `tree` and `files` are
  trees that agree on the kinds (`Knows`) and never lose what they had (`TreeInv`,
  `CardInv`). `SelectedOnCard` alone does not say that the next SELECT finds anything.
- One lemma per command says that it keeps this: `SelectFileAgrees` from a state that
  agrees, `SelectFileReturns` from where the card was moved alone (a probe from an EF,
  CREATE FILE), unless the first SELECT fails there (`lost`), `ResetAgrees` from the MF;
  `SelectKeeps` and `SelectPathKeeps` put the ways back around them. Together: `OnTrack`,
  that is `astray \/ RuntimeInvariant`, in every reachable state.
- `SelectionsAgree` follows whatever is refused and wherever files are created;
  `NeverTrapped` and `FailuresGoBack` (an action property) if `AppsAssured`.

About `FileAccess`, from `FileAssumption` (a size that P1 and P2 can address, records
and commands of at least one byte, data made of bytes), for any number of faults.

- `Overlay` and its lemmas say what a command changes, byte by byte; `NextPiece`,
  that one more command makes one more piece of the data.
- `FileInvariant`: what has been read is the content so far (`ReadInv`); what has been
  written is a prefix of the data that ends with a command (`WriteInv`), and on any
  card nothing outside of them has changed (`OutsideInv`): with that, a verification
  that read the data back shows that all of the file is as it should be. A `sized`
  call that goes on fits (`SizedInv`), and after a comparison that found a difference
  there is one (`ConserveInv`).
- `ReadIsContentHolds`, `PrefixWrittenHolds`, `UpdatedExactlyHolds`,
  `WritesOnlyWhatDiffersHolds` (of data in small letters) and `RefusedWhollyHolds` follow, and `UpdateKeptHolds`,
  which is the three about updates together.

`TraceProofs`; the first three theorems without any assumption on the files, the others
from `TraceAssumption` and `FidAssumption`.

- `Invariant`: `TpduFilter` holds exactly the command whose 61xx was captured and
  whose end was not (`Held`); unless a MANAGE CHANNEL was missed, the mirror has the
  channels of the card but for the one of an OPEN whose answer is to come
  (`Mirrored`).
- `ShownRight` and `ChannelsMirrored` follow.
- `MirrorInvariant`: on every channel either the mirror agrees with the card on what
  is known, or a command is being carried out there and the mirror agrees with where
  the card was before it (`pending.at`), or the filter still holds a command of that
  channel (`Following`); and what is to be fetched is where that command selects
  (`ToFetch`). `SelectedFollows` alone says nothing while an answer is outstanding.
  The core is `SelectFollows`: from places that agree on what is known, the card and
  the mirror reach places that agree on what `Followed` says is known, along paths of
  any length (`PathFollows`). `SelectionFollowed` follows, and `StopsJustified` (an
  action property): where the capture determines the file, the mirror has the card's,
  and the template of the response is the one it expects.

`ProfileElementsProofs`, from `ProfilesAssumption`.

- `ElementsInvariant`: the PEs of the list and of the file are typed and numbered one
  after the other, no object is twice in the list, an object of the list that the
  index has in an instance is in that instance, and what was applied is in the list
  at every place of it (`ElementsIInv`). The properties need each other: that a
  removal by `uid` takes one PE needs the objects to be different, that `Pin2` reached
  every instance needs the index to cover them, and the index is only ever added to.
- `IdentificationsUnique`, `ParametersWritten`; `NaaRemovedWithoutTrace` and
  `BasicChecksKept` are action properties. The check of the basic structure counts
  and orders: what a removal leaves is a subsequence (`At`), of which the lemmas say
  where each PE has gone.

The proofs about levels, paths and lists of any length use induction in first-order
form: a set of numbers that has 0 and is closed under successors has all of them
(`SetInduction`, from the well-foundedness of `<`), and recursive functions on an
interval exist (`Recursion`). The induction theorems of the library have an operator
as a parameter and are not used.

Only model-checked: liveness (`CancelAfterRefusal`, `CallsReturn`, `CardsPutAway`).
Of `CallsReturn` and `CardsPutAway` the measures are proved (`CallsBounded`,
`CardLeaves`): no behaviour goes on for ever within a call, or with one card. That
there is a next step at all is a matter of fairness and of what is enabled, which the
prover cannot reason about; so is all of `CancelAfterRefusal`.

## 7. What is not modelled

- `otherSignedNotification`: it changes no state. `smdpAddress`, the syntax of
  requests and TLS: they decide whether a request is a request.
- The coding of messages, files and commands anywhere: ASN.1, TLV, hexadecimal
  digits, except where a property is about it (the case of the transactionId).
- Cryptographic strength: terms cannot be guessed or collide.
- Tables: the files of `ts_31_102.py`, `ts_51_011.py`, `ts_31_103.py` and their
  coders, the TLV classes of `cat.py`, the templates of `saip/templates.py`, the
  options of the command lines. They are most of the repository's lines and have no
  state; that is why the definitions here stand for a small share of all lines.
- The ES9+ client: one request after the other, with no state that outlives it;
  `SmDpp` has the messages it may send as its environment.
- OTA and SMS: coders of single messages. `pySim-smpp2sim.py` handles one PDU at a
  time over the modelled transport; its one global is the connection of the last
  request, and it never closes the channels that the card has opened.
- Certificates: `verify_cert_chain` walks up from a certificate; in `SmDpp` a chain
  verifies or does not. Card key providers: look-ups in files that do not change.
- JSON API and ES2+: coders of single messages. ARA-M, euicc.py, GlobalPlatform's
  INSTALL, PUT KEY and so on: single commands over the modelled transport and
  channel.
- Readers: connecting, waiting for a card, the bytes of T=0 in `serial.py`.
- BER-TLV EFs (`set_data`, `retrieve_data`): the loops over their parts are those of
  `FileAccess` without an offset.
- In the modelled parts, what section 3 names as left out.
