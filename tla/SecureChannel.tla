---------------------------- MODULE SecureChannel ----------------------------
(***************************************************************************)
(* pySim/global_platform/scp.py and the commands of                        *)
(* global_platform/__init__.py that establish, use and release a secure    *)
(* channel (SCP02, SCP03): the SCP object of each logical channel and the  *)
(* session the card has there.                                             *)
(*                                                                         *)
(* A MAC is the chaining value after it: the session (that is, its keys)   *)
(* and everything authenticated so far.  A ciphertext is known by its      *)
(* counter: deciphered with another one, it is something else.             *)
(***************************************************************************)
EXTENDS Integers, SequencesExt

CONSTANTS
    Channels,       \* logical channels, 0 is the basic one
    Protocols,      \* subset of {"SCP02", "SCP03"}
    SMode,          \* s_mode of SCP03: 8 or 16
    Levels,         \* the security levels asked for
    Sizes,          \* lengths of command data
    NoScp,          \* no SCP object, no session
    MaxSessions,    \* bound: INITIALIZE UPDATEs
    MaxCommands,    \* bound: commands sent after that
    MaxFaults       \* bound: commands and responses lost or exchanged

ASSUME SecureChannelAssumption ==
    /\ 0 \in Channels
    /\ Protocols \subseteq {"SCP02", "SCP03"}
    /\ SMode \in {8, 16}
    /\ Levels \subseteq SUBSET {"cmac", "cenc", "rmac", "renc"}
    /\ Sizes \subseteq 0 .. 255
    /\ {MaxSessions, MaxCommands, MaxFaults} \subseteq Nat

\* NoScp is no SCP object and no security level.
Scps == [protocol : {"SCP02", "SCP03"}, level : Levels, sid : Nat, chain : Seq(Nat), block_nr : Nat]
ASSUME NoScpAssumption == NoScp \notin Scps /\ NoScp \notin Levels

VARIABLES
    scp,        \* the SCP object of a logical channel's SimCardCommands
    session,    \* the card's session on that channel
    isSD,       \* whether a security domain is selected on the channel
    sids,       \* number of sessions the card has begun
    sent,       \* number of commands sent
    executed,   \* what the card has carried out: in which session, and what it read
    last,       \* the card's response to the command before this one
    told,       \* what the last caller was given
    disturbed,  \* sessions in which something was lost or went elsewhere
    miscounted, \* sessions with a command that was counted and not sent
    faults      \* number of faults

vars == <<scp, session, isSD, sids, sent, executed, last, told, disturbed, miscounted, faults>>

-----------------------------------------------------------------------------
(***************************************************************************)
(* The SCP object.                                                         *)
(***************************************************************************)
NewScp(protocol, level, sid) ==
    [protocol |-> protocol, level |-> level, sid |-> sid, chain |-> <<>>, block_nr |-> 0]

do_cmac(s) == "cmac" \in s.level
do_cenc(s) == "cenc" \in s.level
do_rmac(s) == "rmac" \in s.level
do_renc(s) == "renc" \in s.level

\* the length after pad80
pad80(n, bs) == ((n \div bs) + 1) * bs

\* What is sent: a command, on which channel, protected or not; with what MAC and
\* (if enciphered) under what counter.
Plain(cmd, ch) == [sm |-> FALSE, cmd |-> cmd, ch |-> ch]
Protected(s, cmd, ch) ==
    [sm |-> TRUE, cmd |-> cmd, ch |-> ch, sid |-> s.sid, mac |-> s.chain, ctr |-> s.block_nr]

\* Wrapping yields an APDU, or raises: in both cases with the object as it is then.
Wrapped(s, apdu) == [raised |-> FALSE, scp |-> s, apdu |-> apdu]
Raises(s) == [raised |-> TRUE, scp |-> s]

Chained(s, cmd) == [s EXCEPT !.chain = Append(@, cmd.id)]

\* SCP02 was made for the basic channel and insists on it.
wrap_scp02(s, cmd, ch) ==
    LET macked == Chained(s, cmd)
        lc == IF do_cenc(s) THEN pad80(cmd.size, 8) ELSE cmd.size
    IN  IF ~do_cmac(s)                        THEN Wrapped(s, Plain(cmd, ch))
        ELSE IF ch # 0 \/ cmd.size + 8 >= 256 THEN Raises(s)
        ELSE IF lc + 8 >= 256                 THEN Raises(macked)
        ELSE Wrapped(macked, Protected(macked, cmd, 0))

\* Variants a change of the code might bring: counting before the length is known to
\* fit, not counting a command without data, not keeping the chaining value.
wrap_scp03_CountsFirst(s, cmd, ch) ==
    LET padded == pad80(cmd.size, 16)
        lc == IF do_cenc(s) /\ cmd.size > 0 THEN padded ELSE cmd.size
        counted == IF do_cenc(s) THEN [s EXCEPT !.block_nr = @ + 1] ELSE s
        macked == Chained(counted, cmd)
    IN  IF ~do_cmac(s)             THEN Wrapped(s, Plain(cmd, ch))
        ELSE IF lc + SMode >= 256  THEN Raises(counted)
        ELSE Wrapped(macked, Protected(macked, cmd, 0))
wrap_scp03_CountsData(s, cmd, ch) ==
    LET lc == IF do_cenc(s) /\ cmd.size > 0 THEN pad80(cmd.size, 16) ELSE cmd.size
        counted == IF do_cenc(s) /\ cmd.size > 0 THEN [s EXCEPT !.block_nr = @ + 1] ELSE s
        macked == Chained(counted, cmd)
    IN  IF ~do_cmac(s)             THEN Wrapped(s, Plain(cmd, ch))
        ELSE IF lc + SMode >= 256  THEN Raises(s)
        ELSE Wrapped(macked, Protected(macked, cmd, 0))
wrap_scp03_NotChained(s, cmd, ch) ==
    LET counted == IF do_cenc(s) THEN [s EXCEPT !.block_nr = @ + 1] ELSE s
    IN  IF ~do_cmac(s)                            THEN Wrapped(s, Plain(cmd, ch))
        ELSE IF pad80(cmd.size, 16) + SMode >= 256 THEN Raises(s)
        ELSE Wrapped(counted, Protected(Chained(counted, cmd), cmd, 0))

\* SCP03 counts every command, enciphers those with data, and leaves the channel
\* number out of the class byte.
wrap_scp03(s, cmd, ch) ==
    LET padded == pad80(cmd.size, 16)
        lc == IF do_cenc(s) /\ cmd.size > 0 THEN padded ELSE cmd.size
        counted == IF do_cenc(s) THEN [s EXCEPT !.block_nr = @ + 1] ELSE s
        macked == Chained(counted, cmd)
    IN  IF ~do_cmac(s)             THEN Wrapped(s, Plain(cmd, ch))
        ELSE IF lc >= 256          THEN Raises(s)
        ELSE IF lc + SMode >= 256  THEN Raises(counted)
        ELSE Wrapped(macked, Protected(macked, cmd, 0))

wrap_cmd_apdu(s, cmd, ch) ==
    IF s.protocol = "SCP02" THEN wrap_scp02(s, cmd, ch) ELSE wrap_scp03(s, cmd, ch)

\* Without an SCP object the command is sent as it is.
WrappedOn(ch, cmd) ==
    IF scp[ch] = NoScp THEN Wrapped(NoScp, Plain(cmd, ch)) ELSE wrap_cmd_apdu(scp[ch], cmd, ch)

\* A variant that forgets to compare the R-MAC.
unwrap_rsp_apdu_NotCompared(s, rsp) == IF rsp.ok THEN "returned" ELSE "SwMatchError"

\* The caller is given the response, or an exception.  R-MAC is that of the last
\* command's chaining value; an empty response has no padding to be removed.
unwrap_rsp_apdu(s, rsp) ==
    CASE ~rsp.ok                           -> "SwMatchError"
      [] s.protocol = "SCP02" \/ ~do_rmac(s) -> "returned"
      [] rsp.mac # <<s.sid, s.chain>>      -> "ValueError"
      [] do_renc(s) /\ rsp.empty           -> "IndexError"
      [] OTHER                             -> "returned"

-----------------------------------------------------------------------------
(***************************************************************************)
(* The card (GlobalPlatform Card Specification 2.3, E.1 and Amendment D).  *)
(***************************************************************************)
Open(ch) == session[ch] # NoScp /\ session[ch].level # NoScp

\* The command is executed and answered, or it is refused, which ends a session
\* whose security level it does not have.
Executed(s, cmd, read) ==
    [session |-> s, executed |-> executed \union {[sid |-> s.sid, cmd |-> cmd.id, read |-> read]},
     rsp |-> [of |-> cmd.id, ok |-> TRUE, empty |-> cmd.empty, mac |-> <<s.sid, s.chain>>]]
Refused(cmd) ==
    [session |-> NoScp, executed |-> executed,
     rsp |-> [of |-> cmd.id, ok |-> FALSE, empty |-> TRUE, mac |-> <<>>]]

\* A MAC carries the chain on; the card counts as the host ought to.
Advanced(s, cmd) ==
    [Chained(s, cmd) EXCEPT !.block_nr = IF s.protocol = "SCP03" /\ do_cenc(s) THEN @ + 1 ELSE @]
Deciphered(s, apdu) ==
    IF do_cenc(s) /\ apdu.cmd.size > 0 /\ apdu.ctr # s.block_nr THEN NoScp ELSE apdu.cmd.id

CardAnswers(apdu) ==
    LET s == session[apdu.ch]
        next == Advanced(s, apdu.cmd)
    IN  IF ~Open(apdu.ch)                              THEN Refused(apdu.cmd)
        ELSE IF ~apdu.sm /\ do_cmac(s)                 THEN Refused(apdu.cmd)
        ELSE IF ~apdu.sm                               THEN Executed(s, apdu.cmd, apdu.cmd.id)
        ELSE IF <<apdu.sid, apdu.mac>> # <<s.sid, next.chain>> THEN Refused(apdu.cmd)
        ELSE Executed(next, apdu.cmd, Deciphered(next, apdu))

-----------------------------------------------------------------------------
Init ==
    /\ scp = [ch \in Channels |-> NoScp]
    /\ session = [ch \in Channels |-> NoScp]
    /\ isSD \in [Channels -> BOOLEAN]
    /\ sids = 0
    /\ sent = 0
    /\ executed = {}
    /\ last = NoScp
    /\ told = NoScp
    /\ disturbed = {}
    /\ miscounted = {}
    /\ faults = 0

\* What happens to a command on its way: nothing, or it is lost, or its response is,
\* or the response to the command before it comes instead.
Fates == {"delivered", "commandLost", "responseLost", "stale"}
Suffer(fate) ==
    /\ fate # "delivered" => faults < MaxFaults
    /\ faults' = IF fate = "delivered" THEN faults ELSE faults + 1

\* INITIALIZE UPDATE, which begins a session, and EXTERNAL AUTHENTICATE, which the
\* SCP object authenticates while it is not yet that of the channel.  It stays without
\* one if the keys are not the card's, if the level is not implemented, or if the card
\* does not confirm.
establish_scp(ch) ==
    /\ scp[ch] = NoScp
    /\ sids < MaxSessions
    /\ \E protocol \in Protocols, level \in Levels, fate \in Fates \ {"stale"}, keysMatch \in BOOLEAN :
        LET scp0 == NewScp(protocol, level, sids + 1)
            authenticates ==
                /\ keysMatch
                /\ protocol = "SCP02" => level \intersect {"rmac", "renc"} = {}
                /\ protocol = "SCP03" => do_cmac(scp0)
                /\ fate # "commandLost"
        IN  /\ Suffer(fate)
            /\ IF ~isSD[ch]
               THEN UNCHANGED <<scp, session, sids>>
               ELSE /\ sids' = sids + 1
                    /\ session' = [session EXCEPT ![ch] =
                           IF authenticates THEN scp0 ELSE [scp0 EXCEPT !.level = NoScp]]
                    /\ scp' = IF authenticates /\ fate = "delivered"
                              THEN [scp EXCEPT ![ch] = scp0] ELSE scp
    /\ UNCHANGED <<isSD, sent, executed, last, told, disturbed, miscounted>>

\* The sessions that no longer see what they should: that of the object, when the
\* command raised, was lost, or went to another channel, and that of this other channel.
Disturbs(ch, s, fate, raised) ==
    IF s # NoScp /\ (raised \/ fate # "delivered" \/ ch # 0)
    THEN {s.sid} \union (IF session[0] = NoScp THEN {} ELSE {session[0].sid})
    ELSE {}

\* The session of an object that enciphers, and so counts, data behind which there is then
\* no room for the MAC: with 16 bytes of MAC, data that is padded to 240.
MacDoesNotFit(s, cmd) ==
    /\ s.protocol = "SCP03" /\ do_cmac(s) /\ do_cenc(s)
    /\ cmd.size > 0
    /\ pad80(cmd.size, 16) < 256
    /\ pad80(cmd.size, 16) + SMode >= 256
Miscounts(s, cmd) == IF s # NoScp /\ MacDoesNotFit(s, cmd) THEN {s.sid} ELSE {}

\* A GlobalPlatform command (STORE DATA, LOAD, PUT KEY, INSTALL, DELETE ...).
send_apdu_checksw(ch, cmd, fate) ==
    LET s == scp[ch]
        w == WrappedOn(ch, cmd)
        lost == w.raised \/ fate = "commandLost"
        c == CardAnswers(w.apdu)
        rsp == IF fate = "stale" THEN last ELSE c.rsp
    IN  /\ w.raised => fate = "delivered"
        /\ fate = "stale" => last # NoScp
        /\ scp' = [scp EXCEPT ![ch] = w.scp]
        /\ IF lost THEN UNCHANGED <<session, executed, last>>
                   ELSE /\ session' = [session EXCEPT ![w.apdu.ch] = c.session]
                        /\ executed' = c.executed
                        /\ last' = c.rsp
        /\ told' = IF lost \/ fate = "responseLost"
                   THEN [cmd |-> cmd.id, of |-> cmd.id, how |-> "raised", checked |-> FALSE]
                   ELSE [cmd |-> cmd.id, of |-> rsp.of,
                         how |-> IF s # NoScp THEN unwrap_rsp_apdu(w.scp, rsp)
                                 ELSE IF rsp.ok THEN "returned" ELSE "SwMatchError",
                         checked |-> s # NoScp /\ s.protocol = "SCP03" /\ do_rmac(s)]
        /\ disturbed' = disturbed \union Disturbs(ch, s, fate, w.raised)
        /\ miscounted' = miscounted \union Miscounts(s, cmd)

send_apdu(ch) ==
    /\ sent < MaxCommands
    /\ sent' = sent + 1
    /\ \E size \in Sizes, empty \in BOOLEAN, fate \in Fates :
        /\ Suffer(fate)
        /\ send_apdu_checksw(ch, [id |-> sent + 1, size |-> size, empty |-> empty], fate)
    /\ UNCHANGED <<isSD, sids>>

\* SELECT of an application is no GlobalPlatform command and goes out unprotected.
\* It ends the card's session, which the SCP object does not learn.
select_adf(ch) ==
    /\ \E sd \in BOOLEAN : isSD' = [isSD EXCEPT ![ch] = sd]
    /\ session' = [session EXCEPT ![ch] = NoScp]
    /\ disturbed' = disturbed \union (IF session[ch] = NoScp THEN {} ELSE {session[ch].sid})
    /\ UNCHANGED <<scp, sids, sent, executed, last, told, miscounted, faults>>

\* Only pySim forgets the session.
do_release_scp(ch) ==
    /\ scp[ch] # NoScp
    /\ scp' = [scp EXCEPT ![ch] = NoScp]
    /\ UNCHANGED <<session, isSD, sids, sent, executed, last, told, disturbed, miscounted, faults>>

\* RuntimeState.reset, after which the MF is selected on the basic channel.
reset ==
    /\ scp' = [ch \in Channels |-> NoScp]
    /\ session' = [ch \in Channels |-> NoScp]
    /\ isSD' = [ch \in Channels |-> FALSE]
    /\ UNCHANGED <<sids, sent, executed, last, told, disturbed, miscounted, faults>>

Next ==
    \/ \E ch \in Channels : establish_scp(ch)
    \/ \E ch \in Channels : send_apdu(ch)
    \/ \E ch \in Channels : select_adf(ch)
    \/ \E ch \in Channels : do_release_scp(ch)
    \/ reset

Spec == Init /\ [][Next]_vars

-----------------------------------------------------------------------------
(***************************************************************************)
(* Properties.                                                             *)
(***************************************************************************)
\* Whatever the card carries out, it has read as the host meant it: the counter a
\* command is enciphered under (Scp03SessionKeys.block_nr) is the one the card has
\* reached when the MAC of that command verifies, also after commands that raised
\* because their data was too long, got lost, or went unanswered.  Excepted are the
\* sessions in which a command was enciphered before its MAC was found too long.
ExecutedAsMeant == \A e \in executed : e.sid \notin miscounted => e.read = e.cmd

\* The same of every session: SCP03 is "as specified in GlobalPlatform v2.3 Amendment D"
\* and the ICV "computed as described in 6.2.6" (docstrings of SCP03 and _get_icv), from
\* a counter of the commands sent.  In S16 it is not: _encrypt has counted when the MAC
\* does not fit.
AlwaysAsMeant == \A e \in executed : e.read = e.cmd

\* A caller who asked for R-MAC is never given another command's response, also if a
\* reader delivers an answer late.
ResponseOfCommand == told # NoScp /\ told.how = "returned" /\ told.checked => told.of = told.cmd

\* The card never gets ahead of the SCP object of a session: it has executed a
\* beginning of what was wrapped, each once and in order.
CardBehind ==
    \A ch \in Channels :
        scp[ch] # NoScp /\ Open(ch) /\ session[ch].sid = scp[ch].sid
            => IsPrefix(session[ch].chain, scp[ch].chain)

\* An SCP object is stored only once the card has confirmed it, and as long as nothing
\* disturbed its session, both ends agree on it.
InStep ==
    \A ch \in Channels :
        scp[ch] # NoScp /\ scp[ch].sid \notin disturbed => session[ch] = scp[ch]

=============================================================================
