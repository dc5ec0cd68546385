------------------------ MODULE SecureChannelProofs ------------------------
(* Proofs about SecureChannel, for every value of its constants.            *)
EXTENDS SecureChannel, SequenceTheorems, TLAPS

-----------------------------------------------------------------------------
(* The invariant. *)

\* Sessions that EXTERNAL AUTHENTICATE has not followed.
Begun == [protocol : {"SCP02", "SCP03"}, level : {NoScp}, sid : Nat, chain : Seq(Nat), block_nr : Nat]

ScpsOK == scp \in [Channels -> Scps \union {NoScp}]
SessionsOK == session \in [Channels -> Scps \union Begun \union {NoScp}]

TypeOK ==
  /\ ScpsOK
  /\ SessionsOK
  /\ sids \in Nat
  /\ sent \in Nat

\* The object is that of the session the card has on the channel, if any has its number.
SameScp(s, t) == t.level = s.level /\ t.protocol = s.protocol
Numbered ==
  /\ \A ch \in Channels : scp[ch] # NoScp => scp[ch].sid <= sids
  /\ \A ch \in Channels : session[ch] # NoScp => session[ch].sid <= sids
Paired ==
  \A ch, d \in Channels :
      scp[ch] # NoScp /\ Open(d) /\ session[d].sid = scp[ch].sid
          => d = ch /\ SameScp(scp[ch], session[d])

\* Both ends count the commands they have authenticated, if those are enciphered.
Counts(s) == s.block_nr = IF s.protocol = "SCP03" /\ do_cenc(s) THEN Len(s.chain) ELSE 0
Counting ==
  /\ \A ch \in Channels : scp[ch] # NoScp /\ scp[ch].sid \notin miscounted => Counts(scp[ch])
  /\ \A ch \in Channels : Open(ch) /\ session[ch].sid \notin miscounted => Counts(session[ch])

Sessions == TypeOK /\ Numbered /\ Paired

\* SCP03 objects always authenticate; only what authenticates has a chain; and the R-MAC of
\* a response is about the command it answers.
MacOf(l) ==
  l.ok => \E sid \in Nat, chain \in Seq(Nat) :
             l.mac = <<sid, chain>> /\ (chain = <<>> \/ chain[Len(chain)] = l.of)
Chaining ==
  /\ \A ch \in Channels : scp[ch] # NoScp => (scp[ch].protocol = "SCP03" => do_cmac(scp[ch]))
  /\ \A ch \in Channels : Open(ch) => (~do_cmac(session[ch]) => session[ch].chain = <<>>)
  /\ last # NoScp => MacOf(last)

IInv ==
  /\ Sessions /\ CardBehind /\ Chaining /\ ResponseOfCommand /\ InStep
  /\ Counting /\ ExecutedAsMeant

-----------------------------------------------------------------------------
(* What the SCP object makes of a command. *)

Commands == [id : Nat, size : 0 .. 255, empty : BOOLEAN]
Counted(s) == [s EXCEPT !.block_nr = @ + 1]

\* The object after a command whose MAC was computed.
LEMMA AdvancedOK ==
  ASSUME NEW s \in Scps, NEW cmd \in Commands
  PROVE  /\ Advanced(s, cmd) \in Scps
         /\ Advanced(s, cmd).sid = s.sid
         /\ SameScp(s, Advanced(s, cmd))
         /\ Advanced(s, cmd).chain = Append(s.chain, cmd.id)
         /\ Advanced(s, cmd).block_nr =
                IF s.protocol = "SCP03" /\ do_cenc(s) THEN s.block_nr + 1 ELSE s.block_nr
<1>1. cmd.id \in Nat /\ s.chain \in Seq(Nat)
  BY DEF Commands, Scps
<1>2. Append(s.chain, cmd.id) \in Seq(Nat)
  BY <1>1
<1>3. Chained(s, cmd) \in Scps
  BY <1>2 DEF Chained, Scps
<1>4. /\ Chained(s, cmd).protocol = s.protocol
      /\ Chained(s, cmd).level = s.level
      /\ Chained(s, cmd).sid = s.sid
      /\ Chained(s, cmd).chain = Append(s.chain, cmd.id)
      /\ Chained(s, cmd).block_nr = s.block_nr
  BY DEF Chained, Scps
<1> DEFINE c == Chained(s, cmd)
           n == IF s.protocol = "SCP03" /\ do_cenc(s) THEN c.block_nr + 1 ELSE c.block_nr
<1>5. Advanced(s, cmd) = [c EXCEPT !.block_nr = n]
  BY DEF Advanced
<1>6. n \in Nat
  BY <1>3 DEF Scps
<1>7. n = IF s.protocol = "SCP03" /\ do_cenc(s) THEN s.block_nr + 1 ELSE s.block_nr
  BY <1>4
<1> HIDE DEF n, c
<1>8. c \in Scps
  BY <1>3 DEF c
<1>9. /\ Advanced(s, cmd) \in Scps
      /\ Advanced(s, cmd).protocol = c.protocol
      /\ Advanced(s, cmd).level = c.level
      /\ Advanced(s, cmd).sid = c.sid
      /\ Advanced(s, cmd).chain = c.chain
      /\ Advanced(s, cmd).block_nr = n
  BY <1>5, <1>6, <1>8 DEF Scps
<1> QED BY <1>4, <1>7, <1>9 DEF SameScp, c

\* The five outcomes of wrapping a command.
LEMMA WrapCases ==
  ASSUME NEW s \in Scps, NEW cmd \in Commands, NEW ch \in Channels
  PROVE  LET w == wrap_cmd_apdu(s, cmd, ch)
             t == Advanced(s, cmd)
         IN  \/ ~do_cmac(s) /\ w = Wrapped(s, Plain(cmd, ch))
             \/ w = Raises(s)
             \/ s.protocol = "SCP02" /\ do_cmac(s) /\ w = Raises(Chained(s, cmd))
             \/ s.protocol = "SCP03" /\ do_cmac(s) /\ MacDoesNotFit(s, cmd) /\ w = Raises(Counted(s))
             \/ do_cmac(s) /\ w = Wrapped(t, Protected(t, cmd, 0))
<1> DEFINE t == Advanced(s, cmd)
<1>1. CASE s.protocol = "SCP02"
  <2>1. t = Chained(s, cmd)
    BY <1>1 DEF Advanced, Chained, Scps
  <2> QED BY <1>1, <2>1 DEF wrap_cmd_apdu, wrap_scp02
<1>2. CASE s.protocol = "SCP03"
  <2> DEFINE counted == IF do_cenc(s) THEN Counted(s) ELSE s
             lc == IF do_cenc(s) /\ cmd.size > 0 THEN pad80(cmd.size, 16) ELSE cmd.size
  <2>1. t = Chained(counted, cmd)
    BY <1>2 DEF Advanced, Chained, Counted, Scps, do_cenc
  <2>2. do_cmac(s) /\ lc < 256 /\ lc + SMode >= 256 => MacDoesNotFit(s, cmd) \/ counted = s
    <3>1. CASE do_cenc(s) /\ cmd.size > 0
      BY <1>2, <3>1 DEF MacDoesNotFit
    <3>2. CASE ~do_cenc(s)
      BY <3>2
    <3>3. CASE ~(cmd.size > 0)
      <4>1. lc = 0
        BY <3>3 DEF Commands
      <4> QED BY <4>1, SecureChannelAssumption
    <3> QED BY <3>1, <3>2, <3>3
  <2>3. \/ ~do_cmac(s) /\ wrap_cmd_apdu(s, cmd, ch) = Wrapped(s, Plain(cmd, ch))
        \/ do_cmac(s) /\ lc >= 256 /\ wrap_cmd_apdu(s, cmd, ch) = Raises(s)
        \/ do_cmac(s) /\ ~(lc >= 256) /\ lc + SMode >= 256 /\ wrap_cmd_apdu(s, cmd, ch) = Raises(counted)
        \/ do_cmac(s) /\ wrap_cmd_apdu(s, cmd, ch) = Wrapped(t, Protected(t, cmd, 0))
    BY <1>2, <2>1 DEF wrap_cmd_apdu, wrap_scp03, Counted
  <2>4. counted = s \/ counted = Counted(s)
    OBVIOUS
  <2>5. lc \in Nat
    BY DEF Commands, pad80
  <2> HIDE DEF lc, counted, t
  <2> QED BY <1>2, <2>2, <2>3, <2>4, <2>5 DEF t
<1> QED BY <1>1, <1>2 DEF Scps

-----------------------------------------------------------------------------
(* What the card makes of it. *)

\* The card takes a protected command: its session goes on as the object did.
Takes(s, cmd, apdu) ==
  /\ s # NoScp /\ s.level # NoScp
  /\ apdu.sm
  /\ apdu.sid = s.sid
  /\ apdu.mac = Advanced(s, cmd).chain

LEMMA CardCases ==
  ASSUME NEW apdu, NEW cmd, apdu.cmd = cmd
  PROVE  LET s == session[apdu.ch]
             next == Advanced(s, cmd)
             c == CardAnswers(apdu)
         IN  \/ c = Refused(cmd)
             \/ ~apdu.sm /\ Open(apdu.ch) /\ ~do_cmac(s) /\ c = Executed(s, cmd, cmd.id)
             \/ Takes(s, cmd, apdu) /\ c = Executed(next, cmd, Deciphered(next, apdu))
<1> DEFINE s == session[apdu.ch]
           next == Advanced(s, cmd)
<1>1. CardAnswers(apdu) =
        IF ~Open(apdu.ch)                              THEN Refused(cmd)
        ELSE IF ~apdu.sm /\ do_cmac(s)                 THEN Refused(cmd)
        ELSE IF ~apdu.sm                               THEN Executed(s, cmd, cmd.id)
        ELSE IF <<apdu.sid, apdu.mac>> # <<s.sid, next.chain>> THEN Refused(cmd)
        ELSE Executed(next, cmd, Deciphered(next, apdu))
  BY DEF CardAnswers
<1>2. Open(apdu.ch) <=> s # NoScp /\ s.level # NoScp
  BY DEF Open
<1> HIDE DEF s, next
<1>3. \/ CardAnswers(apdu) = Refused(cmd)
      \/ ~apdu.sm /\ Open(apdu.ch) /\ ~do_cmac(s) /\ CardAnswers(apdu) = Executed(s, cmd, cmd.id)
      \/ /\ Open(apdu.ch) /\ apdu.sm /\ apdu.sid = s.sid /\ apdu.mac = next.chain
         /\ CardAnswers(apdu) = Executed(next, cmd, Deciphered(next, apdu))
  BY <1>1
<1> QED BY <1>2, <1>3 DEF Takes, next, s

\* The fields of the card's two answers.
LEMMA Answers ==
  /\ \A cmd : /\ Refused(cmd).session = NoScp
              /\ Refused(cmd).executed = executed
              /\ Refused(cmd).rsp.ok = FALSE
  /\ \A s, cmd, read :
        /\ Executed(s, cmd, read).session = s
        /\ Executed(s, cmd, read).executed = executed \union {[sid |-> s.sid, cmd |-> cmd.id, read |-> read]}
        /\ Executed(s, cmd, read).rsp = [of |-> cmd.id, ok |-> TRUE, empty |-> cmd.empty, mac |-> <<s.sid, s.chain>>]
        /\ Executed(s, cmd, read).rsp.mac = <<s.sid, s.chain>>
        /\ Executed(s, cmd, read).rsp.of = cmd.id
BY DEF Refused, Executed

\* What becomes of the object of the channel that a command is sent on.
Becomes(s, cmd, t) ==
  \/ s = NoScp /\ t = NoScp
  \/ s \in Scps /\ t = s
  \/ s \in Scps /\ s.protocol = "SCP02" /\ do_cmac(s) /\ t = Chained(s, cmd)
  \/ s \in Scps /\ s.protocol = "SCP03" /\ do_cmac(s) /\ MacDoesNotFit(s, cmd) /\ t = Counted(s)
  \/ s \in Scps /\ do_cmac(s) /\ t = Advanced(s, cmd)

\* What is sent, if wrapping does not raise.
Sends(s, cmd, ch, t, apdu) ==
  \/ (s = NoScp \/ ~do_cmac(s)) /\ t = s /\ apdu = Plain(cmd, ch)
  \/ s \in Scps /\ do_cmac(s) /\ t = Advanced(s, cmd) /\ apdu = Protected(t, cmd, 0)

LEMMA WrappedCases ==
  ASSUME TypeOK, NEW cmd \in Commands, NEW ch \in Channels
  PROVE  LET w == WrappedOn(ch, cmd)
         IN  /\ w.raised \in BOOLEAN
             /\ Becomes(scp[ch], cmd, w.scp)
             /\ ~w.raised => Sends(scp[ch], cmd, ch, w.scp, w.apdu)
<1> DEFINE s == scp[ch]
           w == WrappedOn(ch, cmd)
           t == Advanced(s, cmd)
<1>0. s \in Scps \union {NoScp}
  BY DEF TypeOK, ScpsOK
<1>1. CASE s = NoScp
  <2>1. w = Wrapped(NoScp, Plain(cmd, ch))
    BY <1>1 DEF WrappedOn
  <2>2. w.raised = FALSE /\ w.scp = NoScp /\ w.apdu = Plain(cmd, ch)
    BY <2>1 DEF Wrapped
  <2> QED BY <1>1, <2>2 DEF Becomes, Sends
<1>2. CASE s # NoScp
  <2>1. s \in Scps
    BY <1>0, <1>2
  <2>2. w = wrap_cmd_apdu(s, cmd, ch)
    BY <1>2 DEF WrappedOn
  <2> HIDE DEF s, w, t
  <2>3. \/ ~do_cmac(s) /\ w = Wrapped(s, Plain(cmd, ch))
        \/ w = Raises(s)
        \/ s.protocol = "SCP02" /\ do_cmac(s) /\ w = Raises(Chained(s, cmd))
        \/ s.protocol = "SCP03" /\ do_cmac(s) /\ MacDoesNotFit(s, cmd) /\ w = Raises(Counted(s))
        \/ do_cmac(s) /\ w = Wrapped(t, Protected(t, cmd, 0))
    BY <2>1, <2>2, WrapCases DEF t
  <2>4. \A u : Raises(u).raised = TRUE /\ Raises(u).scp = u
    BY DEF Raises
  <2>5. \A u, a : Wrapped(u, a).raised = FALSE /\ Wrapped(u, a).scp = u /\ Wrapped(u, a).apdu = a
    BY DEF Wrapped
  <2>6. /\ w.raised \in BOOLEAN
        /\ Becomes(s, cmd, w.scp)
        /\ ~w.raised => Sends(s, cmd, ch, w.scp, w.apdu)
    <3>1. CASE ~do_cmac(s) /\ w = Wrapped(s, Plain(cmd, ch))
      BY <2>1, <2>5, <3>1 DEF Becomes, Sends
    <3>2. CASE w = Raises(s)
      BY <2>1, <2>4, <3>2 DEF Becomes, Raises
    <3>3. CASE s.protocol = "SCP02" /\ do_cmac(s) /\ w = Raises(Chained(s, cmd))
      BY <2>1, <2>4, <3>3 DEF Becomes, Raises
    <3>4. CASE s.protocol = "SCP03" /\ do_cmac(s) /\ MacDoesNotFit(s, cmd) /\ w = Raises(Counted(s))
      BY <2>1, <2>4, <3>4 DEF Becomes, Raises
    <3>5. CASE do_cmac(s) /\ w = Wrapped(t, Protected(t, cmd, 0))
      <4>1. w.raised = FALSE /\ w.scp = t /\ w.apdu = Protected(t, cmd, 0)
        BY <2>5, <3>5
      <4>2. t = Advanced(s, cmd)
        BY DEF t
      <4> QED BY <2>1, <3>5, <4>1, <4>2 DEF Becomes, Sends
    <3> QED BY <2>3, <3>1, <3>2, <3>3, <3>4, <3>5
  <2> QED BY <2>6 DEF s, w
<1> QED BY <1>1, <1>2

-----------------------------------------------------------------------------
(* A command that is sent, as a whole. *)

\* The card takes the command on this channel, as the object protected it.
Taken(ch, cmd) ==
  /\ ch = 0 /\ scp[ch] \in Scps /\ do_cmac(scp[ch])
  /\ scp' = [scp EXCEPT ![ch] = Advanced(scp[ch], cmd)]
  /\ Open(ch) /\ session[ch].sid = scp[ch].sid
  /\ Advanced(session[ch], cmd).chain = Advanced(scp[ch], cmd).chain
  /\ session' = [session EXCEPT ![ch] = Advanced(session[ch], cmd)]
  /\ executed' = executed \union
        {[sid |-> session[ch].sid, cmd |-> cmd.id,
          read |-> Deciphered(Advanced(session[ch], cmd), Protected(Advanced(scp[ch], cmd), cmd, 0))]}
  /\ last' = [of |-> cmd.id, ok |-> TRUE, empty |-> cmd.empty,
              mac |-> <<session[ch].sid, Advanced(session[ch], cmd).chain>>]

\* The card carries out a command that it need not verify.
Plainly(ch, cmd) ==
  /\ scp' = scp /\ session' = session
  /\ Open(ch) /\ ~do_cmac(session[ch])
  /\ executed' = executed \union {[sid |-> session[ch].sid, cmd |-> cmd.id, read |-> cmd.id]}
  /\ last' = [of |-> cmd.id, ok |-> TRUE, empty |-> cmd.empty,
              mac |-> <<session[ch].sid, session[ch].chain>>]

\* The card does not carry it out, or is not reached.
Fails(ch, cmd) ==
  /\ \E t : Becomes(scp[ch], cmd, t) /\ scp' = [scp EXCEPT ![ch] = t]
  /\ session' = session \/ \E d \in Channels : session' = [session EXCEPT ![d] = NoScp]
  /\ executed' = executed
  /\ last' = last \/ last'.ok = FALSE

LEMMA SendOutcome ==
  ASSUME TypeOK, Paired, NEW ch \in Channels, send_apdu(ch)
  PROVE  \E cmd \in Commands : /\ Taken(ch, cmd) \/ Plainly(ch, cmd) \/ Fails(ch, cmd)
                               /\ miscounted' = miscounted \union Miscounts(scp[ch], cmd)
<1>0. PICK size \in Sizes, empty \in BOOLEAN, fate \in Fates :
        send_apdu_checksw(ch, [id |-> sent + 1, size |-> size, empty |-> empty], fate)
  BY DEF send_apdu
<1> DEFINE cmd == [id |-> sent + 1, size |-> size, empty |-> empty]
           w == WrappedOn(ch, cmd)
           c == CardAnswers(w.apdu)
<1>1. /\ scp' = [scp EXCEPT ![ch] = w.scp]
      /\ IF w.raised \/ fate = "commandLost"
         THEN UNCHANGED <<session, executed, last>>
         ELSE /\ session' = [session EXCEPT ![w.apdu.ch] = c.session]
              /\ executed' = c.executed
              /\ last' = c.rsp
      /\ miscounted' = miscounted \union Miscounts(scp[ch], cmd)
  BY <1>0 DEF send_apdu_checksw
<1>2. cmd \in Commands
  BY SecureChannelAssumption DEF TypeOK, Commands
<1>3. /\ Becomes(scp[ch], cmd, w.scp)
      /\ ~w.raised => Sends(scp[ch], cmd, ch, w.scp, w.apdu)
  BY <1>2, WrappedCases
<1>4. scp' = [scp EXCEPT ![ch] = w.scp]
  BY <1>1
<1>m. miscounted' = miscounted \union Miscounts(scp[ch], cmd)
  BY <1>1
<1>5. CASE w.raised \/ fate = "commandLost"
  <2>1. UNCHANGED <<session, executed, last>>
    BY <1>1, <1>5
  <2> HIDE DEF w, cmd
  <2> QED BY <1>2, <1>3, <1>4, <1>m, <2>1 DEF Fails
<1>6. CASE ~(w.raised \/ fate = "commandLost")
  <2> DEFINE apdu == w.apdu
  <2>1. /\ session' = [session EXCEPT ![apdu.ch] = c.session]
        /\ executed' = c.executed
        /\ last' = c.rsp
    BY <1>1, <1>6
  <2>2. Sends(scp[ch], cmd, ch, w.scp, apdu)
    BY <1>3, <1>6
  <2>3. c = CardAnswers(apdu)
    OBVIOUS
  <2> HIDE DEF c, w, cmd, apdu
  <2>4. apdu.cmd = cmd
    BY <2>2 DEF Sends, Plain, Protected
  <2>5. apdu.ch \in Channels
    BY <2>2, SecureChannelAssumption DEF Sends, Plain, Protected
  <2> DEFINE s == session[apdu.ch]
             next == Advanced(s, cmd)
  <2>6. \/ c = Refused(cmd)
        \/ ~apdu.sm /\ Open(apdu.ch) /\ ~do_cmac(s) /\ c = Executed(s, cmd, cmd.id)
        \/ Takes(s, cmd, apdu) /\ c = Executed(next, cmd, Deciphered(next, apdu))
    BY <2>3, <2>4, CardCases
  <2>7. CASE c = Refused(cmd)
    <3>1. c.session = NoScp /\ c.executed = executed /\ c.rsp.ok = FALSE
      BY <2>7, Answers
    <3> QED BY <1>2, <1>3, <1>4, <1>m, <2>1, <2>5, <3>1 DEF Fails
  <2>8. CASE ~apdu.sm /\ Open(apdu.ch) /\ ~do_cmac(s) /\ c = Executed(s, cmd, cmd.id)
    <3>1. w.scp = scp[ch] /\ apdu = Plain(cmd, ch)
      BY <2>2, <2>8 DEF Sends, Protected
    <3>2. apdu.ch = ch
      BY <3>1 DEF Plain
    <3>3. /\ c.session = session[ch]
          /\ c.executed = executed \union {[sid |-> session[ch].sid, cmd |-> cmd.id, read |-> cmd.id]}
          /\ c.rsp = [of |-> cmd.id, ok |-> TRUE, empty |-> cmd.empty, mac |-> <<session[ch].sid, session[ch].chain>>]
      BY <2>8, <3>2, Answers DEF s
    <3>4. scp' = scp /\ session' = session
      BY <1>4, <2>1, <3>1, <3>2, <3>3 DEF TypeOK, ScpsOK, SessionsOK
    <3>5. Open(ch) /\ ~do_cmac(session[ch])
      BY <2>8, <3>2 DEF s
    <3> QED BY <1>2, <1>m, <2>1, <3>3, <3>4, <3>5 DEF Plainly
  <2>9. CASE Takes(s, cmd, apdu) /\ c = Executed(next, cmd, Deciphered(next, apdu))
    <3>1. scp[ch] \in Scps /\ do_cmac(scp[ch]) /\ w.scp = Advanced(scp[ch], cmd) /\ apdu = Protected(w.scp, cmd, 0)
      BY <2>2, <2>9 DEF Sends, Plain, Takes
    <3>2. apdu.ch = 0 /\ apdu.sid = w.scp.sid /\ apdu.mac = w.scp.chain
      BY <3>1 DEF Protected
    <3>3. w.scp.sid = scp[ch].sid
      BY <1>2, <3>1, AdvancedOK
    <3>4. Open(0) /\ session[0].sid = scp[ch].sid
      BY <2>9, <3>2, <3>3 DEF Takes, Open, s
    <3>5. scp[ch] # NoScp
      BY <3>1, NoScpAssumption
    <3>6. ch = 0
      BY <3>4, <3>5, SecureChannelAssumption DEF Paired
    <3>7. next.sid = session[0].sid
      <4>1. s \in Scps
        BY <2>9, <3>2, SecureChannelAssumption DEF Takes, s, TypeOK, SessionsOK, Begun
      <4> QED BY <1>2, <3>2, <4>1, AdvancedOK DEF s
    <3>8. /\ c.session = next
          /\ c.executed = executed \union {[sid |-> next.sid, cmd |-> cmd.id, read |-> Deciphered(next, apdu)]}
          /\ c.rsp = [of |-> cmd.id, ok |-> TRUE, empty |-> cmd.empty, mac |-> <<next.sid, next.chain>>]
      BY <2>9, Answers
    <3>9. next = Advanced(session[ch], cmd)
      BY <3>2, <3>6 DEF s
    <3>10. next.chain = Advanced(scp[ch], cmd).chain
      BY <2>9, <3>1, <3>2 DEF Takes
    <3> HIDE DEF next, s
    <3> QED BY <1>2, <1>4, <1>m, <2>1, <3>1, <3>2, <3>4, <3>6, <3>7, <3>8, <3>9, <3>10 DEF Taken
  <2> QED BY <2>6, <2>7, <2>8, <2>9
<1> QED BY <1>5, <1>6

-----------------------------------------------------------------------------
(* The sessions on both ends, through every action. *)

LEMMA ScpOrNone ==
  ASSUME TypeOK, NEW ch \in Channels
  PROVE  /\ scp[ch] # NoScp <=> scp[ch] \in Scps
         /\ Open(ch) <=> session[ch] \in Scps
<1>1. scp[ch] \in Scps \union {NoScp} /\ session[ch] \in Scps \union Begun \union {NoScp}
  BY DEF TypeOK, ScpsOK, SessionsOK
<1>2. \A s \in Scps : s # NoScp /\ s.level # NoScp
  BY NoScpAssumption DEF Scps
<1>3. \A s \in Begun : s.level = NoScp
  BY DEF Begun
<1> QED BY <1>1, <1>2, <1>3 DEF Open

\* What becomes of an object on a command keeps its session.
LEMMA BecomesOK ==
  ASSUME NEW s \in Scps, NEW cmd \in Commands, NEW t, Becomes(s, cmd, t)
  PROVE  /\ t \in Scps
         /\ t.sid = s.sid
         /\ SameScp(s, t)
         /\ t.chain = s.chain \/ t.chain = Append(s.chain, cmd.id)
         /\ ~MacDoesNotFit(s, cmd) /\ Counts(s) => Counts(t)
<1>1. CASE t = s
  BY <1>1 DEF SameScp
<1>2. CASE s.protocol = "SCP02" /\ do_cmac(s) /\ t = Chained(s, cmd)
  <2>1. t = Advanced(s, cmd)
    BY <1>2 DEF Advanced, Chained, Scps
  <2> QED BY <1>2, <2>1, AdvancedOK DEF Counts, SameScp
<1>3. CASE s.protocol = "SCP03" /\ MacDoesNotFit(s, cmd) /\ t = Counted(s)
  BY <1>3 DEF Counted, Scps, SameScp
<1>4. CASE t = Advanced(s, cmd)
  <2>1. s.chain \in Seq(Nat) /\ cmd.id \in Nat
    BY DEF Scps, Commands
  <2>2. Len(Append(s.chain, cmd.id)) = Len(s.chain) + 1
    BY <2>1
  <2>3. /\ t \in Scps /\ t.sid = s.sid /\ SameScp(s, t)
        /\ t.chain = Append(s.chain, cmd.id)
        /\ t.block_nr = IF s.protocol = "SCP03" /\ do_cenc(s) THEN s.block_nr + 1 ELSE s.block_nr
    BY <1>4, AdvancedOK
  <2>4. t.protocol = s.protocol /\ (do_cenc(t) <=> do_cenc(s))
    BY <2>3 DEF SameScp, do_cenc
  <2>5. Counts(s) => Counts(t)
    BY <2>2, <2>3, <2>4 DEF Counts
  <2> QED BY <2>3, <2>5
<1> QED BY <1>1, <1>2, <1>3, <1>4, NoScpAssumption DEF Becomes

\* An object or a session, before and after, is the same but for what it has counted.
GoesOn(s, t) == s \in Scps /\ t \in Scps /\ t.sid = s.sid /\ SameScp(s, t)

LEMMA SendGoesOn ==
  ASSUME TypeOK, Paired, NEW ch \in Channels, send_apdu(ch), NEW d \in Channels
  PROVE  /\ scp'[d] = NoScp \/ GoesOn(scp[d], scp'[d])
         /\ session'[d] = NoScp \/ session'[d] = session[d] \/ GoesOn(session[d], session'[d])
         /\ scp' = [scp EXCEPT ![ch] = scp'[ch]]
         /\ \E e \in Channels : session' = [session EXCEPT ![e] = session'[e]]
<1>1. PICK cmd \in Commands : Taken(ch, cmd) \/ Plainly(ch, cmd) \/ Fails(ch, cmd)
  BY SendOutcome
<1>2. scp \in [Channels -> Scps \union {NoScp}] /\ session \in [Channels -> Scps \union Begun \union {NoScp}]
  BY DEF TypeOK, ScpsOK, SessionsOK
<1>3. scp[d] \in Scps => GoesOn(scp[d], scp[d])
  BY DEF GoesOn, SameScp
<1>4. \A s \in Scps : GoesOn(s, Advanced(s, cmd))
  BY AdvancedOK DEF GoesOn
<1>5. CASE Taken(ch, cmd)
  <2>1. scp[ch] \in Scps /\ session[ch] \in Scps
    BY <1>5, ScpOrNone DEF Taken
  <2>2. scp' = [scp EXCEPT ![ch] = Advanced(scp[ch], cmd)] /\ session' = [session EXCEPT ![ch] = Advanced(session[ch], cmd)]
    BY <1>5 DEF Taken
  <2> QED BY <1>2, <1>3, <1>4, <2>1, <2>2
<1>6. CASE Plainly(ch, cmd)
  BY <1>2, <1>3, <1>6 DEF Plainly
<1>7. CASE Fails(ch, cmd)
  <2>1. PICK t : Becomes(scp[ch], cmd, t) /\ scp' = [scp EXCEPT ![ch] = t]
    BY <1>7 DEF Fails
  <2>2. t = NoScp \/ GoesOn(scp[ch], t)
    <3>1. CASE scp[ch] \in Scps
      BY <2>1, <3>1, BecomesOK DEF GoesOn
    <3>2. CASE scp[ch] \notin Scps
      BY <2>1, <3>2 DEF Becomes
    <3> QED BY <3>1, <3>2
  <2>3. scp'[d] = NoScp \/ GoesOn(scp[d], scp'[d])
    BY <1>2, <1>3, <2>1, <2>2
  <2>4. session'[d] = NoScp \/ session'[d] = session[d]
    BY <1>2, <1>7 DEF Fails
  <2>5. scp' = [scp EXCEPT ![ch] = scp'[ch]]
    BY <1>2, <2>1
  <2>6. \E e \in Channels : session' = [session EXCEPT ![e] = session'[e]]
    BY <1>2, <1>7 DEF Fails
  <2> QED BY <2>3, <2>4, <2>5, <2>6
<1> QED BY <1>1, <1>5, <1>6, <1>7

\* What establish_scp changes.
Establishes(ch, s) ==
  /\ s \in Scps /\ s.sid = sids + 1 /\ s.chain = <<>> /\ s.block_nr = 0
  /\ sids' = sids + 1
  /\ \/ session' = [session EXCEPT ![ch] = s] /\ (scp' = scp \/ scp' = [scp EXCEPT ![ch] = s])
     \/ session' = [session EXCEPT ![ch] = [s EXCEPT !.level = NoScp]] /\ scp' = scp
  /\ scp' = scp \/ (s.protocol = "SCP03" => do_cmac(s))

LEMMA EstablishOutcome ==
  ASSUME TypeOK, NEW ch \in Channels, establish_scp(ch)
  PROVE  \/ UNCHANGED <<scp, session, sids>>
         \/ \E s : Establishes(ch, s)
<1>1. PICK protocol \in Protocols, level \in Levels, fate \in Fates \ {"stale"}, keysMatch \in BOOLEAN :
        LET scp0 == NewScp(protocol, level, sids + 1)
            authenticates ==
                /\ keysMatch
                /\ protocol = "SCP02" => level \intersect {"rmac", "renc"} = {}
                /\ protocol = "SCP03" => do_cmac(scp0)
                /\ fate # "commandLost"
        IN  IF ~isSD[ch]
            THEN UNCHANGED <<scp, session, sids>>
            ELSE /\ sids' = sids + 1
                 /\ session' = [session EXCEPT ![ch] =
                        IF authenticates THEN scp0 ELSE [scp0 EXCEPT !.level = NoScp]]
                 /\ scp' = IF authenticates /\ fate = "delivered"
                           THEN [scp EXCEPT ![ch] = scp0] ELSE scp
  BY DEF establish_scp
<1> DEFINE s == NewScp(protocol, level, sids + 1)
<1>2. s \in Scps /\ s.sid = sids + 1 /\ s.chain = <<>> /\ s.block_nr = 0
  BY SecureChannelAssumption DEF NewScp, Scps, TypeOK
<1>3. CASE ~isSD[ch]
  BY <1>1, <1>3
<1>4. CASE isSD[ch]
  <2>1. \/ session' = [session EXCEPT ![ch] = s] /\ (scp' = scp \/ scp' = [scp EXCEPT ![ch] = s])
        \/ session' = [session EXCEPT ![ch] = [s EXCEPT !.level = NoScp]] /\ scp' = scp
    BY <1>1, <1>4
  <2>2. sids' = sids + 1
    BY <1>1, <1>4
  <2>3. scp' = scp \/ (s.protocol = "SCP03" => do_cmac(s))
    <3>1. s.protocol = protocol
      BY DEF NewScp
    <3> HIDE DEF s
    <3> QED BY <1>1, <1>4, <3>1 DEF s
  <2> HIDE DEF s
  <2> QED BY <1>2, <2>1, <2>2, <2>3 DEF Establishes
<1> QED BY <1>3, <1>4

\* Through a step in which objects and sessions only go on or end.
LEMMA SessionsGoOn ==
  ASSUME Sessions, sids' = sids, sent' \in Nat,
         scp' \in [Channels -> Scps \union {NoScp}],
         session' \in [Channels -> Scps \union Begun \union {NoScp}],
         \A d \in Channels : scp'[d] = NoScp \/ GoesOn(scp[d], scp'[d]),
         \A d \in Channels : session'[d] = NoScp \/ session'[d] = session[d] \/ GoesOn(session[d], session'[d])
  PROVE  Sessions'
<1>1. TypeOK'
  BY DEF Sessions, TypeOK, ScpsOK, SessionsOK
<1>2. \A d \in Channels : scp'[d] # NoScp =>
        /\ scp[d] # NoScp /\ scp'[d].sid = scp[d].sid /\ SameScp(scp[d], scp'[d])
  BY NoScpAssumption DEF GoesOn
<1>3. \A d \in Channels : session'[d] # NoScp =>
        /\ session[d] # NoScp /\ session'[d].sid = session[d].sid /\ SameScp(session[d], session'[d])
  BY NoScpAssumption DEF GoesOn, SameScp
<1>4. Numbered'
  BY <1>2, <1>3 DEF Sessions, Numbered
<1>5. Paired'
  <2> SUFFICES ASSUME NEW ch \in Channels, NEW d \in Channels,
                      scp'[ch] # NoScp, Open(d)', session'[d].sid = scp'[ch].sid
               PROVE  d = ch /\ SameScp(scp'[ch], session'[d])
    BY DEF Paired
  <2>1. scp[ch] # NoScp /\ scp'[ch].sid = scp[ch].sid /\ SameScp(scp[ch], scp'[ch])
    BY <1>2
  <2>2. session'[d] # NoScp /\ session'[d].level # NoScp
    BY DEF Open
  <2>3. session[d] # NoScp /\ session'[d].sid = session[d].sid /\ SameScp(session[d], session'[d])
    BY <1>3, <2>2
  <2>4. Open(d)
    BY <2>2, <2>3 DEF Open, SameScp
  <2>5. d = ch /\ SameScp(scp[ch], session[d])
    BY <2>1, <2>3, <2>4 DEF Sessions, Paired
  <2> QED BY <2>1, <2>3, <2>5 DEF SameScp
<1> QED BY <1>1, <1>4, <1>5 DEF Sessions

LEMMA SessionsEstablished ==
  ASSUME Sessions, NEW ch \in Channels, NEW s, Establishes(ch, s), sent' \in Nat
  PROVE  Sessions'
<1> DEFINE r == [s EXCEPT !.level = NoScp]
<1>1. s \in Scps /\ r \in Begun /\ s.sid = sids + 1 /\ r.sid = sids + 1 /\ r.level = NoScp
  BY DEF Establishes, Scps, Begun
<1>2. /\ scp \in [Channels -> Scps \union {NoScp}]
      /\ session \in [Channels -> Scps \union Begun \union {NoScp}]
      /\ sids \in Nat
  BY DEF Sessions, TypeOK, ScpsOK, SessionsOK
<1>3. /\ scp' = scp \/ scp' = [scp EXCEPT ![ch] = s]
      /\ \/ session' = [session EXCEPT ![ch] = s]
         \/ session' = [session EXCEPT ![ch] = r] /\ scp' = scp
      /\ sids' = sids + 1
  BY DEF Establishes
<1> HIDE DEF r
<1>4. TypeOK'
  BY <1>1, <1>2, <1>3 DEF TypeOK, ScpsOK, SessionsOK
<1>5. \A d \in Channels : scp'[d] = scp[d] \/ (d = ch /\ scp'[d] = s /\ session'[d] = s)
  BY <1>2, <1>3
<1>6. \A d \in Channels : session'[d] = session[d] \/ (d = ch /\ session'[d] \in {s, r})
  BY <1>2, <1>3
<1>7. session'[ch] \in {s, r}
  BY <1>2, <1>3
<1>8. \A d \in Channels : (scp[d] # NoScp => scp[d].sid <= sids /\ scp[d].sid \in Nat)
                        /\ (session[d] # NoScp => session[d].sid <= sids /\ session[d].sid \in Nat)
  BY <1>2 DEF Sessions, Numbered, Scps, Begun
<1>9. Numbered'
  BY <1>1, <1>2, <1>3, <1>5, <1>6, <1>8 DEF Numbered
<1>10. Paired'
  <2> SUFFICES ASSUME NEW c \in Channels, NEW d \in Channels,
                      scp'[c] # NoScp, Open(d)', session'[d].sid = scp'[c].sid
               PROVE  d = c /\ SameScp(scp'[c], session'[d])
    BY DEF Paired
  <2>1. session'[d] # NoScp /\ session'[d].level # NoScp
    BY DEF Open
  <2>2. CASE session'[d] \in {s, r}
    <3>1. session'[d] = s
      BY <1>1, <2>1, <2>2
    <3>2. scp'[c].sid = sids + 1
      BY <1>1, <3>1
    <3>3. scp'[c] # scp[c]
      BY <1>2, <1>8, <3>2
    <3>4. c = ch /\ scp'[c] = s
      BY <1>5, <3>3
    <3>5. d = ch
      BY <1>1, <1>2, <1>6, <1>8, <2>1, <3>1
    <3> QED BY <3>1, <3>4, <3>5 DEF SameScp
  <2>3. CASE session'[d] \notin {s, r}
    <3>1. session'[d] = session[d]
      BY <1>6, <2>3
    <3>2. Open(d) /\ session[d].sid <= sids /\ session[d].sid \in Nat
      BY <1>8, <2>1, <3>1 DEF Open
    <3>3. scp'[c] = scp[c]
      BY <1>1, <1>2, <1>5, <3>1, <3>2
    <3> QED BY <3>1, <3>2, <3>3 DEF Sessions, Paired
  <2> QED BY <2>2, <2>3
<1> QED BY <1>4, <1>9, <1>10 DEF Sessions

\* The other actions only end sessions, on either side.
Drops ==
  /\ scp' \in [Channels -> Scps \union {NoScp}]
  /\ session' \in [Channels -> Scps \union Begun \union {NoScp}]
  /\ \A d \in Channels : scp'[d] = scp[d] \/ scp'[d] = NoScp
  /\ \A d \in Channels : session'[d] = session[d] \/ session'[d] = NoScp
  /\ UNCHANGED <<sids, sent, executed, last, told, miscounted>>

LEMMA OthersDrop ==
  ASSUME TypeOK,
         \/ \E ch \in Channels : select_adf(ch) \/ do_release_scp(ch)
         \/ reset
         \/ UNCHANGED vars
  PROVE  Drops
<1>0. /\ scp \in [Channels -> Scps \union {NoScp}]
      /\ session \in [Channels -> Scps \union Begun \union {NoScp}]
  BY DEF TypeOK, ScpsOK, SessionsOK
<1>1. CASE \E ch \in Channels : select_adf(ch)
  BY <1>0, <1>1 DEF select_adf, Drops
<1>2. CASE \E ch \in Channels : do_release_scp(ch)
  BY <1>0, <1>2 DEF do_release_scp, Drops
<1>3. CASE reset
  BY <1>0, <1>3 DEF reset, Drops
<1>4. CASE UNCHANGED vars
  BY <1>0, <1>4 DEF vars, Drops
<1> QED BY <1>1, <1>2, <1>3, <1>4

LEMMA NextCases ==
  ASSUME TypeOK, [Next]_vars
  PROVE  \/ \E ch \in Channels : establish_scp(ch)
         \/ \E ch \in Channels : send_apdu(ch)
         \/ Drops
BY OthersDrop DEF Next

LEMMA SessionsInductive ==
  ASSUME Sessions, [Next]_vars
  PROVE  Sessions'
<1>0. TypeOK /\ Paired /\ sids \in Nat /\ sent \in Nat
  BY DEF Sessions, TypeOK
<1>t. /\ scp \in [Channels -> Scps \union {NoScp}]
      /\ session \in [Channels -> Scps \union Begun \union {NoScp}]
  BY <1>0 DEF TypeOK, ScpsOK, SessionsOK
<1>g. \A s \in Scps : GoesOn(s, s)
  BY DEF GoesOn, SameScp
<1>1. ASSUME NEW ch \in Channels, establish_scp(ch)
      PROVE  Sessions'
  <2>1. sent' = sent
    BY <1>1 DEF establish_scp
  <2>2. CASE UNCHANGED <<scp, session, sids>>
    <3>1. \A d \in Channels : scp'[d] = NoScp \/ GoesOn(scp[d], scp'[d])
      BY <1>t, <1>g, <2>2
    <3> QED BY <1>0, <1>t, <2>1, <2>2, <3>1, SessionsGoOn
  <2>3. CASE \E s : Establishes(ch, s)
    BY <1>0, <2>1, <2>3, SessionsEstablished
  <2> QED BY <1>0, <1>1, <2>2, <2>3, EstablishOutcome
<1>2. ASSUME NEW ch \in Channels, send_apdu(ch)
      PROVE  Sessions'
  <2>1. \A d \in Channels :
            /\ scp'[d] = NoScp \/ GoesOn(scp[d], scp'[d])
            /\ session'[d] = NoScp \/ session'[d] = session[d] \/ GoesOn(session[d], session'[d])
    BY <1>0, <1>2, SendGoesOn
  <2>2. /\ scp' = [scp EXCEPT ![ch] = scp'[ch]]
        /\ \E e \in Channels : session' = [session EXCEPT ![e] = session'[e]]
    BY <1>0, <1>2, SendGoesOn
  <2>3. scp'[ch] \in Scps \union {NoScp}
    BY <2>1 DEF GoesOn
  <2>4. scp' \in [Channels -> Scps \union {NoScp}]
    BY <1>t, <2>2, <2>3
  <2>5. \A e \in Channels : session'[e] \in Scps \union Begun \union {NoScp}
    BY <1>t, <2>1 DEF GoesOn
  <2>6. session' \in [Channels -> Scps \union Begun \union {NoScp}]
    BY <1>t, <2>2, <2>5
  <2>7. sids' = sids /\ sent' \in Nat
    BY <1>0, <1>2 DEF send_apdu
  <2> QED BY <2>1, <2>4, <2>6, <2>7, SessionsGoOn
<1>3. ASSUME Drops
      PROVE  Sessions'
  <2>1. \A d \in Channels : scp'[d] = NoScp \/ GoesOn(scp[d], scp'[d])
    BY <1>3, <1>t, <1>g DEF Drops
  <2>2. \A d \in Channels : session'[d] = NoScp \/ session'[d] = session[d] \/ GoesOn(session[d], session'[d])
    BY <1>3 DEF Drops
  <2> QED BY <1>0, <1>3, <2>1, <2>2, SessionsGoOn DEF Drops
<1> QED BY <1>0, <1>1, <1>2, <1>3, NextCases

-----------------------------------------------------------------------------
(* The counters, and what the card reads. *)

\* Both ends count what they have authenticated.
LEMMA AdvancedCounts ==
  ASSUME NEW s \in Scps, NEW cmd \in Commands, Counts(s)
  PROVE  Counts(Advanced(s, cmd))
<1> DEFINE t == Advanced(s, cmd)
<1>1. s.chain \in Seq(Nat) /\ cmd.id \in Nat
  BY DEF Scps, Commands
<1>2. Len(Append(s.chain, cmd.id)) = Len(s.chain) + 1
  BY <1>1
<1>3. /\ SameScp(s, t)
      /\ t.chain = Append(s.chain, cmd.id)
      /\ t.block_nr = IF s.protocol = "SCP03" /\ do_cenc(s) THEN s.block_nr + 1 ELSE s.block_nr
  BY AdvancedOK
<1> HIDE DEF t
<1>4. t.protocol = s.protocol /\ (do_cenc(t) <=> do_cenc(s))
  BY <1>3 DEF SameScp, do_cenc
<1>5. Counts(t)
  BY <1>2, <1>3, <1>4 DEF Counts
<1> QED BY <1>5 DEF t

LEMMA CountingInductive ==
  ASSUME Sessions, Counting, [Next]_vars
  PROVE  Counting'
<1>0. TypeOK /\ Paired
  BY DEF Sessions
<1>t. /\ scp \in [Channels -> Scps \union {NoScp}]
      /\ session \in [Channels -> Scps \union Begun \union {NoScp}]
  BY <1>0 DEF TypeOK, ScpsOK, SessionsOK
<1>r. Counting' <=>
        /\ \A d \in Channels : scp'[d] # NoScp /\ scp'[d].sid \notin miscounted' => Counts(scp'[d])
        /\ \A d \in Channels : session'[d] # NoScp /\ session'[d].level # NoScp
                                 /\ session'[d].sid \notin miscounted' => Counts(session'[d])
  BY DEF Counting, Open, Counts, do_cenc
<1>c. /\ \A d \in Channels : scp[d] # NoScp /\ scp[d].sid \notin miscounted => Counts(scp[d])
      /\ \A d \in Channels : session[d] # NoScp /\ session[d].level # NoScp
                               /\ session[d].sid \notin miscounted => Counts(session[d])
  BY DEF Counting, Open
<1>1. ASSUME NEW ch \in Channels, establish_scp(ch)
      PROVE  Counting'
  <2>0. miscounted' = miscounted
    BY <1>1 DEF establish_scp
  <2>1. CASE UNCHANGED <<scp, session, sids>>
    BY <1>c, <1>r, <2>0, <2>1
  <2>2. ASSUME NEW s, Establishes(ch, s)
        PROVE  Counting'
    <3> DEFINE b == [s EXCEPT !.level = NoScp]
    <3>1. s \in Scps /\ s.chain = <<>> /\ s.block_nr = 0
      BY <2>2 DEF Establishes
    <3>2. Counts(s) /\ b.level = NoScp
      BY <3>1 DEF Counts, Scps
    <3>3. /\ scp' = scp \/ scp' = [scp EXCEPT ![ch] = s]
          /\ session' = [session EXCEPT ![ch] = s] \/ session' = [session EXCEPT ![ch] = b]
      BY <2>2 DEF Establishes
    <3> HIDE DEF b
    <3> QED BY <1>c, <1>r, <1>t, <2>0, <3>2, <3>3
  <2> QED BY <1>0, <1>1, <2>1, <2>2, EstablishOutcome
<1>2. ASSUME NEW ch \in Channels, send_apdu(ch)
      PROVE  Counting'
  <2>1. PICK cmd \in Commands : /\ Taken(ch, cmd) \/ Plainly(ch, cmd) \/ Fails(ch, cmd)
                               /\ miscounted' = miscounted \union Miscounts(scp[ch], cmd)
    BY <1>0, <1>2, SendOutcome
  <2>m. miscounted \subseteq miscounted'
    BY <2>1
  <2>2. CASE Taken(ch, cmd)
    <3>1. scp[ch] \in Scps /\ session[ch] \in Scps
      BY <1>0, <2>2, ScpOrNone DEF Taken
    <3>3. \A s \in Scps : Counts(s) => Counts(Advanced(s, cmd))
      BY AdvancedCounts
    <3>4. session[ch].sid = scp[ch].sid /\ Open(ch) /\ scp[ch] # NoScp
      BY <2>2, <3>1, NoScpAssumption DEF Taken
    <3>5. scp[ch].sid \notin miscounted => Counts(scp[ch]) /\ Counts(session[ch])
      BY <1>c, <3>4 DEF Open
    <3>6. scp[ch].sid \notin miscounted => Counts(Advanced(scp[ch], cmd)) /\ Counts(Advanced(session[ch], cmd))
      BY <3>1, <3>3, <3>5
    <3>8. Advanced(scp[ch], cmd).sid = scp[ch].sid /\ Advanced(session[ch], cmd).sid = scp[ch].sid
      BY <3>1, <3>4, AdvancedOK
    <3>7. /\ scp' = [scp EXCEPT ![ch] = Advanced(scp[ch], cmd)]
          /\ session' = [session EXCEPT ![ch] = Advanced(session[ch], cmd)]
      BY <2>2 DEF Taken
    <3>9. \A d \in Channels : scp'[d] = scp[d] \/ (d = ch /\ scp'[d] = Advanced(scp[ch], cmd))
      BY <1>t, <3>7
    <3>10. \A d \in Channels : session'[d] = session[d] \/ (d = ch /\ session'[d] = Advanced(session[ch], cmd))
      BY <1>t, <3>7
    <3> QED BY <1>c, <1>r, <2>m, <3>6, <3>8, <3>9, <3>10
  <2>3. CASE Plainly(ch, cmd)
    BY <1>c, <1>r, <2>3, <2>m DEF Plainly
  <2>4. CASE Fails(ch, cmd)
    <3>1. PICK t : Becomes(scp[ch], cmd, t) /\ scp' = [scp EXCEPT ![ch] = t]
      BY <2>4 DEF Fails
    <3>2. t = NoScp \/ t.sid \in miscounted' \/ Counts(t)
      <4>1. CASE scp[ch] \in Scps
        <5>1. t.sid = scp[ch].sid /\ (~MacDoesNotFit(scp[ch], cmd) /\ Counts(scp[ch]) => Counts(t))
          BY <3>1, <4>1, BecomesOK
        <5>2. MacDoesNotFit(scp[ch], cmd) => scp[ch].sid \in miscounted'
          BY <2>1, <4>1, NoScpAssumption DEF Miscounts
        <5>3. scp[ch].sid \notin miscounted' => Counts(scp[ch])
          BY <1>c, <2>m, <4>1, NoScpAssumption
        <5> QED BY <5>1, <5>2, <5>3
      <4>2. CASE scp[ch] \notin Scps
        BY <3>1, <4>2 DEF Becomes
      <4> QED BY <4>1, <4>2
    <3>3. \A d \in Channels : session'[d] = session[d] \/ session'[d] = NoScp
      BY <1>t, <2>4 DEF Fails
    <3>4. \A d \in Channels : scp'[d] = scp[d] \/ scp'[d] = t
      BY <1>t, <3>1
    <3> QED BY <1>c, <1>r, <2>m, <3>2, <3>3, <3>4
  <2> QED BY <2>1, <2>2, <2>3, <2>4
<1>3. ASSUME Drops
      PROVE  Counting'
  BY <1>3, <1>c, <1>r DEF Drops
<1> QED BY <1>0, <1>1, <1>2, <1>3, NextCases

LEMMA ReadAsMeant ==
  ASSUME Sessions, Counting, ExecutedAsMeant, [Next]_vars
  PROVE  ExecutedAsMeant'
<1>0. TypeOK /\ Paired
  BY DEF Sessions
<1>1. ASSUME NEW ch \in Channels, establish_scp(ch)
      PROVE  ExecutedAsMeant'
  BY <1>1 DEF establish_scp, ExecutedAsMeant
<1>2. ASSUME NEW ch \in Channels, send_apdu(ch)
      PROVE  ExecutedAsMeant'
  <2>1. PICK cmd \in Commands : /\ Taken(ch, cmd) \/ Plainly(ch, cmd) \/ Fails(ch, cmd)
                               /\ miscounted' = miscounted \union Miscounts(scp[ch], cmd)
    BY <1>0, <1>2, SendOutcome
  <2>m. miscounted \subseteq miscounted'
    BY <2>1
  <2>2. CASE Taken(ch, cmd)
    <3> DEFINE t == Advanced(scp[ch], cmd)
               next == Advanced(session[ch], cmd)
    <3>1. scp[ch] \in Scps /\ session[ch] \in Scps
      BY <1>0, <2>2, ScpOrNone DEF Taken
    <3>2. SameScp(scp[ch], session[ch])
      BY <1>0, <2>2, <3>1, NoScpAssumption DEF Taken, Paired
    <3>3. /\ t \in Scps /\ next \in Scps
          /\ SameScp(scp[ch], t) /\ SameScp(session[ch], next)
      BY <3>1, AdvancedOK
    <3>4. t.chain = next.chain
      BY <2>2 DEF Taken
    <3>6. session[ch].sid \notin miscounted => Counts(scp[ch]) /\ Counts(session[ch])
      BY <2>2, <3>1, NoScpAssumption DEF Taken, Counting
    <3>7. session[ch].sid \notin miscounted => Counts(t) /\ Counts(next)
      BY <3>1, <3>6, AdvancedCounts
    <3>8. executed' = executed \union {[sid |-> session[ch].sid, cmd |-> cmd.id, read |-> Deciphered(next, Protected(t, cmd, 0))]}
      BY <2>2 DEF Taken
    <3> HIDE DEF t, next
    <3>9. session[ch].sid \notin miscounted => t.block_nr = next.block_nr
      BY <3>2, <3>3, <3>4, <3>7 DEF Counts, SameScp, do_cenc
    <3>10. Protected(t, cmd, 0).cmd = cmd /\ Protected(t, cmd, 0).ctr = t.block_nr
      BY DEF Protected
    <3>11. session[ch].sid \notin miscounted => Deciphered(next, Protected(t, cmd, 0)) = cmd.id
      BY <3>9, <3>10 DEF Deciphered
    <3> HIDE DEF ExecutedAsMeant
    <3>12. ASSUME NEW e \in executed', e.sid \notin miscounted'
           PROVE  e.read = e.cmd
      <4>1. CASE e \in executed
        BY <2>m, <3>12, <4>1 DEF ExecutedAsMeant
      <4>2. CASE e = [sid |-> session[ch].sid, cmd |-> cmd.id, read |-> Deciphered(next, Protected(t, cmd, 0))]
        BY <2>m, <3>11, <3>12, <4>2
      <4> QED BY <3>8, <4>1, <4>2
    <3> QED BY <3>12 DEF ExecutedAsMeant
  <2>3. CASE Plainly(ch, cmd)
    BY <2>3, <2>m DEF Plainly, ExecutedAsMeant
  <2>4. CASE Fails(ch, cmd)
    BY <2>4, <2>m DEF Fails, ExecutedAsMeant
  <2> QED BY <2>1, <2>2, <2>3, <2>4
<1>3. ASSUME Drops
      PROVE  ExecutedAsMeant'
  BY <1>3 DEF Drops, ExecutedAsMeant
<1> QED BY <1>0, <1>1, <1>2, <1>3, NextCases

-----------------------------------------------------------------------------
(* The chaining values. *)

LEMMA ChainPrefix ==
  ASSUME NEW q \in Seq(Nat), NEW r \in Seq(Nat), NEW x \in Nat
  PROVE  /\ IsPrefix(q, q)
         /\ IsPrefix(q, r) => IsPrefix(q, Append(r, x))
<1>1. IsPrefix(q, q)
  BY DEF IsPrefix
<1>2. ASSUME IsPrefix(q, r)
      PROVE  IsPrefix(q, Append(r, x))
  <2>1. Len(q) \in Nat /\ Len(r) \in Nat /\ Len(q) <= Len(r) /\ SubSeq(q, 1, Len(q)) = SubSeq(r, 1, Len(q))
    BY <1>2 DEF IsPrefix
  <2>2. Append(r, x) \in Seq(Nat) /\ Len(Append(r, x)) = Len(r) + 1
    BY AppendProperties
  <2>3. \A i \in 1 .. Len(r) : Append(r, x)[i] = r[i]
    BY AppendProperties
  <2>4. SubSeq(r, 1, Len(q)) = [i \in 1 .. Len(q) |-> r[i]]
    BY <2>1
  <2>5. SubSeq(Append(r, x), 1, Len(q)) = [i \in 1 .. Len(q) |-> Append(r, x)[i]]
    BY <2>1, <2>2
  <2>6. SubSeq(Append(r, x), 1, Len(q)) = SubSeq(r, 1, Len(q))
    BY <2>1, <2>3, <2>4, <2>5
  <2> QED BY <2>1, <2>2, <2>6 DEF IsPrefix
<1> QED BY <1>1, <1>2

LEMMA BehindInductive ==
  ASSUME Sessions, CardBehind, [Next]_vars
  PROVE  CardBehind'
<1>0. TypeOK /\ Paired /\ Numbered
  BY DEF Sessions
<1>t. /\ scp \in [Channels -> Scps \union {NoScp}]
      /\ session \in [Channels -> Scps \union Begun \union {NoScp}]
      /\ sids \in Nat
  BY <1>0 DEF TypeOK, ScpsOK, SessionsOK
<1> DEFINE Behind(s, u) ==
      s # NoScp /\ u # NoScp /\ u.level # NoScp /\ u.sid = s.sid => IsPrefix(u.chain, s.chain)
<1>r. CardBehind' <=> \A d \in Channels : Behind(scp'[d], session'[d])
  BY DEF CardBehind, Open
<1>c. \A d \in Channels : Behind(scp[d], session[d])
  BY DEF CardBehind, Open
<1>n. \A u : Behind(NoScp, u) /\ Behind(u, NoScp)
  OBVIOUS
<1>e. \A s, u : u.chain = s.chain /\ s.chain \in Seq(Nat) => Behind(s, u)
  BY 0 \in Nat, ChainPrefix
<1>1. ASSUME NEW ch \in Channels, establish_scp(ch)
      PROVE  CardBehind'
  <2>1. CASE UNCHANGED <<scp, session, sids>>
    <3> HIDE DEF Behind
    <3> QED BY <1>c, <1>r, <2>1
  <2>2. ASSUME NEW s, Establishes(ch, s)
        PROVE  CardBehind'
    <3> DEFINE b == [s EXCEPT !.level = NoScp]
    <3>1. s \in Scps /\ s.chain = <<>> /\ s.sid = sids + 1
      BY <2>2 DEF Establishes
    <3>2. b.level = NoScp
      BY <3>1 DEF Scps
    <3>3. Behind(s, s)
      BY <1>e, <3>1 DEF Scps
    <3>4. Behind(scp[ch], s)
      BY <1>0, <1>t, <3>1 DEF Numbered, Scps
    <3>5. \A u : Behind(u, b)
      BY <3>2
    <3>6. \/ session' = [session EXCEPT ![ch] = s] /\ (scp' = scp \/ scp' = [scp EXCEPT ![ch] = s])
          \/ session' = [session EXCEPT ![ch] = b] /\ scp' = scp
      BY <2>2 DEF Establishes
    <3> HIDE DEF b, Behind
    <3> QED BY <1>c, <1>r, <1>t, <3>3, <3>4, <3>5, <3>6
  <2> QED BY <1>0, <1>1, <2>1, <2>2, EstablishOutcome
<1>2. ASSUME NEW ch \in Channels, send_apdu(ch)
      PROVE  CardBehind'
  <2>1. PICK cmd \in Commands : Taken(ch, cmd) \/ Plainly(ch, cmd) \/ Fails(ch, cmd)
    BY <1>0, <1>2, SendOutcome
  <2>2. CASE Taken(ch, cmd)
    <3>1. /\ scp' = [scp EXCEPT ![ch] = Advanced(scp[ch], cmd)]
          /\ session' = [session EXCEPT ![ch] = Advanced(session[ch], cmd)]
          /\ Advanced(session[ch], cmd).chain = Advanced(scp[ch], cmd).chain
          /\ scp[ch] \in Scps
      BY <2>2 DEF Taken
    <3>2. Advanced(scp[ch], cmd) \in Scps
      BY <3>1, AdvancedOK
    <3>3. Behind(Advanced(scp[ch], cmd), Advanced(session[ch], cmd))
      BY <1>e, <3>1, <3>2 DEF Scps
    <3> HIDE DEF Behind
    <3> QED BY <1>c, <1>r, <1>t, <3>1, <3>3
  <2>3. CASE Plainly(ch, cmd)
    <3> HIDE DEF Behind
    <3> QED BY <1>c, <1>r, <2>3 DEF Plainly
  <2>4. CASE Fails(ch, cmd)
    <3>1. PICK t : Becomes(scp[ch], cmd, t) /\ scp' = [scp EXCEPT ![ch] = t]
      BY <2>4 DEF Fails
    <3>2. \A d \in Channels : session'[d] = session[d] \/ session'[d] = NoScp
      BY <1>t, <2>4 DEF Fails
    <3>3. Behind(t, session[ch])
      <4>1. CASE scp[ch] \in Scps
        <5>1. /\ t \in Scps /\ t.sid = scp[ch].sid
              /\ t.chain = scp[ch].chain \/ t.chain = Append(scp[ch].chain, cmd.id)
          BY <3>1, <4>1, BecomesOK
        <5>2. Behind(scp[ch], session[ch])
          BY <1>c
        <5>3. ASSUME session[ch] # NoScp, session[ch].level # NoScp, session[ch].sid = t.sid
              PROVE  IsPrefix(session[ch].chain, t.chain)
          <6>1. session[ch].chain \in Seq(Nat) /\ scp[ch].chain \in Seq(Nat) /\ cmd.id \in Nat
            BY <1>t, <4>1, <5>3 DEF Scps, Begun, Commands
          <6>2. IsPrefix(session[ch].chain, scp[ch].chain)
            BY <4>1, <5>1, <5>2, <5>3, NoScpAssumption
          <6> QED BY <5>1, <6>1, <6>2, ChainPrefix
        <5> QED BY <5>3
      <4>2. CASE scp[ch] \notin Scps
        BY <3>1, <4>2 DEF Becomes
      <4> QED BY <4>1, <4>2
    <3> HIDE DEF Behind
    <3> QED BY <1>c, <1>n, <1>r, <1>t, <3>1, <3>2, <3>3
  <2> QED BY <2>1, <2>2, <2>3, <2>4
<1>3. ASSUME Drops
      PROVE  CardBehind'
  <2> HIDE DEF Behind
  <2> QED BY <1>3, <1>c, <1>n, <1>r DEF Drops
<1> QED BY <1>0, <1>1, <1>2, <1>3, NextCases

-----------------------------------------------------------------------------
(* The responses. *)

LEMMA CardMac ==
  ASSUME TypeOK, Chaining, NEW cmd \in Commands, NEW apdu, apdu.cmd = cmd, apdu.ch \in Channels
  PROVE  MacOf(CardAnswers(apdu).rsp)
<1> DEFINE s == session[apdu.ch]
           next == Advanced(s, cmd)
           c == CardAnswers(apdu)
<1>1. \/ c = Refused(cmd)
      \/ ~apdu.sm /\ Open(apdu.ch) /\ ~do_cmac(s) /\ c = Executed(s, cmd, cmd.id)
      \/ Takes(s, cmd, apdu) /\ c = Executed(next, cmd, Deciphered(next, apdu))
  BY CardCases
<1>2. CASE c = Refused(cmd)
  BY <1>2, Answers DEF MacOf
<1>3. CASE Open(apdu.ch) /\ ~do_cmac(s) /\ c = Executed(s, cmd, cmd.id)
  <2>1. s \in Scps /\ s.chain = <<>>
    BY <1>3, ScpOrNone DEF Chaining
  <2>2. s.sid \in Nat /\ s.chain \in Seq(Nat)
    BY <2>1 DEF Scps
  <2>3. c.rsp.mac = <<s.sid, s.chain>>
    <3> HIDE DEF s, c
    <3> QED BY <1>3, Answers
  <2> HIDE DEF s, c
  <2> QED BY <2>1, <2>2, <2>3 DEF MacOf, c
<1>4. CASE Takes(s, cmd, apdu) /\ c = Executed(next, cmd, Deciphered(next, apdu))
  <2>1. s \in Scps
    BY <1>4, ScpOrNone DEF Takes, Open
  <2>2. next \in Scps /\ next.chain = Append(s.chain, cmd.id)
    BY <2>1, AdvancedOK
  <2>3. s.chain \in Seq(Nat) /\ cmd.id \in Nat /\ next.sid \in Nat /\ next.chain \in Seq(Nat)
    BY <2>1, <2>2 DEF Scps, Commands
  <2>4. next.chain[Len(next.chain)] = cmd.id
    BY <2>2, <2>3
  <2>5. c.rsp.mac = <<next.sid, next.chain>> /\ c.rsp.of = cmd.id
    <3> HIDE DEF s, c, next
    <3> QED BY <1>4, Answers
  <2> HIDE DEF s, c, next
  <2> QED BY <2>3, <2>4, <2>5 DEF MacOf, c
<1> QED BY <1>1, <1>2, <1>3, <1>4

\* What a caller is given who asked for R-MAC, and what the card answered last.
LEMMA SendTold ==
  ASSUME TypeOK, Chaining, NEW ch \in Channels, send_apdu(ch)
  PROVE  /\ last' = last \/ MacOf(last')
         /\ told'.how = "returned" /\ told'.checked => told'.of = told'.cmd
<1>0. PICK size \in Sizes, empty \in BOOLEAN, fate \in Fates :
        send_apdu_checksw(ch, [id |-> sent + 1, size |-> size, empty |-> empty], fate)
  BY DEF send_apdu
<1> DEFINE cmd == [id |-> sent + 1, size |-> size, empty |-> empty]
           s == scp[ch]
           w == WrappedOn(ch, cmd)
           lost == w.raised \/ fate = "commandLost"
           c == CardAnswers(w.apdu)
           rsp == IF fate = "stale" THEN last ELSE c.rsp
<1>1. /\ fate = "stale" => last # NoScp
      /\ lost => last' = last
      /\ ~lost => last' = c.rsp
      /\ told' = IF lost \/ fate = "responseLost"
                 THEN [cmd |-> cmd.id, of |-> cmd.id, how |-> "raised", checked |-> FALSE]
                 ELSE [cmd |-> cmd.id, of |-> rsp.of,
                       how |-> IF s # NoScp THEN unwrap_rsp_apdu(w.scp, rsp)
                               ELSE IF rsp.ok THEN "returned" ELSE "SwMatchError",
                       checked |-> s # NoScp /\ s.protocol = "SCP03" /\ do_rmac(s)]
  BY <1>0 DEF send_apdu_checksw
<1>2. cmd \in Commands
  BY SecureChannelAssumption DEF TypeOK, Commands
<1>3. ~w.raised => Sends(s, cmd, ch, w.scp, w.apdu)
  BY <1>2, WrappedCases
<1>4. ~w.raised => w.apdu.cmd = cmd /\ w.apdu.ch \in Channels
  <2> HIDE DEF w, cmd
  <2> QED BY <1>3, SecureChannelAssumption DEF Sends, Plain, Protected
<1>5. ~lost => MacOf(c.rsp)
  BY <1>2, <1>4, CardMac
<1>6. ASSUME told'.how = "returned", told'.checked
      PROVE  told'.of = told'.cmd
  <2>1. ~(lost \/ fate = "responseLost")
    BY <1>1, <1>6
  <2>2. /\ told'.cmd = cmd.id /\ told'.of = rsp.of
        /\ told'.how = IF s # NoScp THEN unwrap_rsp_apdu(w.scp, rsp)
                       ELSE IF rsp.ok THEN "returned" ELSE "SwMatchError"
        /\ told'.checked = (s # NoScp /\ s.protocol = "SCP03" /\ do_rmac(s))
    <3> HIDE DEF lost, cmd, s, w, c, rsp
    <3> QED BY <1>1, <2>1
  <2>3. s # NoScp /\ s.protocol = "SCP03" /\ do_rmac(s)
    BY <1>6, <2>2
  <2>4. unwrap_rsp_apdu(w.scp, rsp) = "returned"
    BY <1>6, <2>2, <2>3
  <2>5. s \in Scps /\ do_cmac(s)
    BY <2>3, ScpOrNone DEF Chaining
  <2>6. Sends(s, cmd, ch, w.scp, w.apdu)
    BY <1>3, <2>1
  <2>7. w.scp = Advanced(s, cmd)
    <3> HIDE DEF w, cmd, s
    <3> QED BY <2>3, <2>5, <2>6 DEF Sends
  <2> DEFINE t == Advanced(s, cmd)
  <2>8. t.protocol = "SCP03" /\ do_rmac(t) /\ t.chain = Append(s.chain, cmd.id)
    BY <1>2, <2>3, <2>5, AdvancedOK DEF SameScp, do_rmac
  <2>9. rsp.ok /\ rsp.mac = <<t.sid, t.chain>>
    <3> HIDE DEF t, rsp, w
    <3>1. unwrap_rsp_apdu(t, rsp) = "returned"
      BY <2>4, <2>7 DEF t
    <3> QED BY <2>8, <3>1 DEF unwrap_rsp_apdu
  <2>10. MacOf(rsp)
    BY <1>1, <1>5, <2>1 DEF Chaining
  <2>11. s.chain \in Seq(Nat) /\ cmd.id \in Nat
    BY <1>2, <2>5 DEF Scps, Commands
  <2>12. t.chain # <<>> /\ t.chain[Len(t.chain)] = cmd.id
    <3> HIDE DEF t, cmd, s
    <3> QED BY <2>8, <2>11
  <2>13. rsp.of = cmd.id
    <3> HIDE DEF t, rsp, cmd
    <3> QED BY <2>9, <2>10, <2>12 DEF MacOf
  <2> QED BY <2>2, <2>13
<1>7. last' = last \/ MacOf(last')
  <2> HIDE DEF c, lost
  <2> QED BY <1>1, <1>5
<1> QED BY <1>6, <1>7

LEMMA ChainingInductive ==
  ASSUME Sessions, Chaining, ResponseOfCommand, [Next]_vars
  PROVE  Chaining' /\ ResponseOfCommand'
<1>0. TypeOK /\ Paired
  BY DEF Sessions
<1>t. /\ scp \in [Channels -> Scps \union {NoScp}]
      /\ session \in [Channels -> Scps \union Begun \union {NoScp}]
  BY <1>0 DEF TypeOK, ScpsOK, SessionsOK
<1> DEFINE A(s) == s # NoScp => (s.protocol = "SCP03" => do_cmac(s))
           B(s) == s # NoScp /\ s.level # NoScp => (~do_cmac(s) => s.chain = <<>>)
<1>r. (\A d \in Channels : A(scp'[d]) /\ B(session'[d])) /\ (last' # NoScp => MacOf(last')) <=> Chaining'
  BY DEF Chaining, Open, MacOf, do_cmac
<1>c. (\A d \in Channels : A(scp[d]) /\ B(session[d])) /\ (last # NoScp => MacOf(last))
  BY DEF Chaining, Open
<1>n. A(NoScp) /\ B(NoScp)
  OBVIOUS
<1>1. ASSUME NEW ch \in Channels, establish_scp(ch)
      PROVE  Chaining' /\ ResponseOfCommand'
  <2>0. last' = last /\ told' = told
    BY <1>1 DEF establish_scp
  <2>1. CASE UNCHANGED <<scp, session, sids>>
    <3> HIDE DEF A, B
    <3> QED BY <1>c, <1>r, <2>0, <2>1 DEF ResponseOfCommand
  <2>2. ASSUME NEW s, Establishes(ch, s)
        PROVE  Chaining' /\ ResponseOfCommand'
    <3> DEFINE b == [s EXCEPT !.level = NoScp]
    <3>1. s \in Scps /\ s.chain = <<>>
      BY <2>2 DEF Establishes
    <3>2. B(s) /\ B(b)
      BY <3>1 DEF Scps
    <3>3. scp' = scp \/ (scp' = [scp EXCEPT ![ch] = s] /\ A(s))
      BY <2>2 DEF Establishes
    <3>4. session' = [session EXCEPT ![ch] = s] \/ session' = [session EXCEPT ![ch] = b]
      BY <2>2 DEF Establishes
    <3> HIDE DEF b, A, B
    <3>5. \A d \in Channels : A(scp'[d]) /\ B(session'[d])
      BY <1>c, <1>t, <3>2, <3>3, <3>4
    <3> QED BY <1>c, <1>r, <2>0, <3>5 DEF ResponseOfCommand
  <2> QED BY <1>0, <1>1, <2>1, <2>2, EstablishOutcome
<1>2. ASSUME NEW ch \in Channels, send_apdu(ch)
      PROVE  Chaining' /\ ResponseOfCommand'
  <2>1. PICK cmd \in Commands : Taken(ch, cmd) \/ Plainly(ch, cmd) \/ Fails(ch, cmd)
    BY <1>0, <1>2, SendOutcome
  <2>2. /\ last' = last \/ MacOf(last')
        /\ told'.how = "returned" /\ told'.checked => told'.of = told'.cmd
    BY <1>0, <1>2, SendTold
  <2>3. \A d \in Channels : scp'[d] = NoScp \/ GoesOn(scp[d], scp'[d])
    BY <1>0, <1>2, SendGoesOn
  <2>4. ASSUME NEW d \in Channels
        PROVE  A(scp'[d])
    <3>1. CASE scp'[d] = NoScp
      BY <3>1
    <3>2. CASE GoesOn(scp[d], scp'[d])
      BY <1>c, <3>2, NoScpAssumption DEF GoesOn, SameScp, do_cmac
    <3> QED BY <2>3, <3>1, <3>2
  <2>5. ASSUME NEW d \in Channels
        PROVE  B(session'[d])
    <3>1. CASE Taken(ch, cmd)
      <4>1. scp[ch] \in Scps /\ session[ch] \in Scps
        BY <1>0, <3>1, ScpOrNone DEF Taken
      <4>2. SameScp(scp[ch], session[ch])
        BY <1>0, <3>1, <4>1, NoScpAssumption DEF Taken, Paired
      <4>3. do_cmac(Advanced(session[ch], cmd))
        BY <3>1, <4>1, <4>2, AdvancedOK DEF Taken, SameScp, do_cmac
      <4>4. B(Advanced(session[ch], cmd))
        BY <4>3
      <4> HIDE DEF B
      <4> QED BY <1>c, <1>t, <3>1, <4>4 DEF Taken
    <3>2. CASE Plainly(ch, cmd) \/ Fails(ch, cmd)
      <4>1. session'[d] = session[d] \/ session'[d] = NoScp
        BY <1>t, <3>2 DEF Plainly, Fails
      <4> HIDE DEF B
      <4> QED BY <1>c, <1>n, <4>1
    <3> QED BY <2>1, <3>1, <3>2
  <2>6. Chaining'
    <3> HIDE DEF A, B
    <3> QED BY <1>c, <1>r, <2>2, <2>4, <2>5
  <2> QED BY <2>2, <2>6 DEF ResponseOfCommand
<1>3. ASSUME Drops
      PROVE  Chaining' /\ ResponseOfCommand'
  <2>1. last' = last /\ told' = told
    BY <1>3 DEF Drops
  <2> HIDE DEF A, B
  <2> QED BY <1>3, <1>c, <1>n, <1>r, <2>1 DEF Drops, ResponseOfCommand
<1> QED BY <1>0, <1>1, <1>2, <1>3, NextCases

-----------------------------------------------------------------------------
(* Both ends in step. *)

LEMMA SendInStep ==
  ASSUME TypeOK, Paired, InStep, NEW ch \in Channels, send_apdu(ch)
  PROVE  InStep'
<1>0. PICK size \in Sizes, empty \in BOOLEAN, fate \in Fates :
        send_apdu_checksw(ch, [id |-> sent + 1, size |-> size, empty |-> empty], fate)
  BY DEF send_apdu
<1> DEFINE cmd == [id |-> sent + 1, size |-> size, empty |-> empty]
           s == scp[ch]
           w == WrappedOn(ch, cmd)
           c == CardAnswers(w.apdu)
<1>1. /\ scp' = [scp EXCEPT ![ch] = w.scp]
      /\ (w.raised \/ fate = "commandLost") => session' = session
      /\ ~(w.raised \/ fate = "commandLost") => session' = [session EXCEPT ![w.apdu.ch] = c.session]
      /\ disturbed' = disturbed \union Disturbs(ch, s, fate, w.raised)
  BY <1>0 DEF send_apdu_checksw
<1>2. cmd \in Commands
  BY SecureChannelAssumption DEF TypeOK, Commands
<1>3. /\ Becomes(s, cmd, w.scp)
      /\ ~w.raised => Sends(s, cmd, ch, w.scp, w.apdu)
  BY <1>2, WrappedCases
<1>t. /\ scp \in [Channels -> Scps \union {NoScp}]
      /\ session \in [Channels -> Scps \union Begun \union {NoScp}]
  BY DEF TypeOK, ScpsOK, SessionsOK
<1>4. ~w.raised => w.apdu.ch = ch \/ (w.apdu.ch = 0 /\ s # NoScp)
  <2> HIDE DEF w, cmd, s
  <2> QED BY <1>3, NoScpAssumption DEF Sends, Plain, Protected
<1> SUFFICES ASSUME NEW d \in Channels, scp'[d] # NoScp, scp'[d].sid \notin disturbed'
             PROVE  session'[d] = scp'[d]
  BY DEF InStep
<1>5. CASE s = NoScp
  <2>1. w.scp = NoScp
    <3> HIDE DEF w, cmd, s
    <3> QED BY <1>3, <1>5, NoScpAssumption DEF Becomes
  <2>2. d # ch /\ scp'[d] = scp[d]
    BY <1>1, <1>t, <2>1
  <2>3. session'[d] = session[d]
    <3> HIDE DEF w, c
    <3> QED BY <1>1, <1>4, <1>5, <1>t, <2>2
  <2>4. scp[d].sid \notin disturbed
    BY <1>1, <2>2
  <2> QED BY <2>2, <2>3, <2>4 DEF InStep
<1>6. CASE s # NoScp
  <2>0. s \in Scps
    BY <1>6, <1>t
  <2>1. w.scp \in Scps /\ w.scp.sid = s.sid
    <3> HIDE DEF w, cmd, s
    <3> QED BY <1>2, <1>3, <2>0, BecomesOK
  <2>2. d # ch => scp'[d] = scp[d]
    BY <1>1, <1>t
  <2>3. scp'[ch] = w.scp
    BY <1>1, <1>t
  <2>4. d # ch /\ d # 0 => session'[d] = session[d]
    <3> HIDE DEF w, c
    <3> QED BY <1>1, <1>4, <1>t
  <2>5. d # ch => scp[d] # NoScp /\ scp[d].sid \notin disturbed /\ session[d] = scp[d]
    BY <1>1, <2>2 DEF InStep
  <2>6. CASE w.raised \/ fate # "delivered" \/ ch # 0
    <3>1. s.sid \in disturbed' /\ (session[0] # NoScp => session[0].sid \in disturbed')
      <4> HIDE DEF w, s
      <4> QED BY <1>1, <1>6, <2>6 DEF Disturbs
    <3>2. d # ch
      BY <2>1, <2>3, <3>1
    <3>3. d # 0
      BY <2>2, <2>5, <3>1, <3>2
    <3> QED BY <2>2, <2>4, <2>5, <3>2, <3>3
  <2>7. CASE ~w.raised /\ fate = "delivered" /\ ch = 0
    <3>1. CASE d # ch
      BY <2>2, <2>4, <2>5, <2>7, <3>1
    <3>2. CASE d = ch
      <4>1. s.sid \notin disturbed
        BY <1>1, <2>1, <2>3, <3>2
      <4>2. session[ch] = s
        BY <1>6, <4>1 DEF InStep
      <4>3. s.level # NoScp
        BY <2>0, NoScpAssumption DEF Scps
      <4>4. session'[ch] = c.session
        <5>1. w.apdu.ch = ch
          BY <1>4, <2>7
        <5> HIDE DEF w, c
        <5> QED BY <1>1, <1>t, <2>7, <5>1
      <4>5. w.apdu.ch = ch /\ session[w.apdu.ch] = s /\ Open(w.apdu.ch)
        BY <1>4, <1>6, <2>7, <4>2, <4>3 DEF Open
      <4>6. CASE do_cmac(s)
        <5>1. w.scp = Advanced(s, cmd) /\ w.apdu = Protected(w.scp, cmd, 0)
          <6> HIDE DEF w, cmd, s
          <6> QED BY <1>3, <1>6, <2>7, <4>6 DEF Sends
        <5>2. /\ w.apdu.cmd = cmd /\ w.apdu.sm = TRUE
              /\ w.apdu.sid = s.sid /\ w.apdu.mac = Advanced(s, cmd).chain
          <6> HIDE DEF w, cmd, s
          <6> QED BY <2>1, <5>1 DEF Protected
        <5>3. c = Executed(Advanced(s, cmd), cmd, Deciphered(Advanced(s, cmd), w.apdu))
          <6> HIDE DEF w, cmd, s
          <6> QED BY <4>5, <5>2 DEF CardAnswers, c
        <5>4. c.session = Advanced(s, cmd)
          <6> HIDE DEF w, cmd, s, c
          <6> QED BY <5>3, Answers
        <5> QED BY <2>3, <3>2, <4>4, <5>1, <5>4
      <4>7. CASE ~do_cmac(s)
        <5>1. w.scp = s /\ w.apdu = Plain(cmd, ch)
          <6> HIDE DEF w, cmd, s
          <6> QED BY <1>3, <1>6, <2>7, <4>7 DEF Sends
        <5>2. w.apdu.cmd = cmd /\ w.apdu.sm = FALSE
          <6> HIDE DEF w, cmd, s
          <6> QED BY <5>1 DEF Plain
        <5>3. c = Executed(s, cmd, cmd.id)
          <6> HIDE DEF w, cmd, s
          <6> QED BY <4>5, <4>7, <5>2 DEF CardAnswers, c
        <5>4. c.session = s
          <6> HIDE DEF w, cmd, s, c
          <6> QED BY <5>3, Answers
        <5> QED BY <2>3, <3>2, <4>4, <5>1, <5>4
      <4> QED BY <4>6, <4>7
    <3> QED BY <3>1, <3>2
  <2> QED BY <2>6, <2>7
<1> QED BY <1>5, <1>6

LEMMA InStepInductive ==
  ASSUME Sessions, InStep, [Next]_vars
  PROVE  InStep'
<1>0. TypeOK /\ Paired
  BY DEF Sessions
<1>t. /\ scp \in [Channels -> Scps \union {NoScp}]
      /\ session \in [Channels -> Scps \union Begun \union {NoScp}]
  BY <1>0 DEF TypeOK, ScpsOK, SessionsOK
<1>1. ASSUME NEW ch \in Channels, establish_scp(ch)
      PROVE  InStep'
  <2>0. disturbed' = disturbed /\ scp[ch] = NoScp
    BY <1>1 DEF establish_scp
  <2>1. CASE UNCHANGED <<scp, session, sids>>
    BY <2>0, <2>1 DEF InStep
  <2>2. ASSUME NEW s, Establishes(ch, s)
        PROVE  InStep'
    <3> DEFINE b == [s EXCEPT !.level = NoScp]
    <3>1. \/ session' = [session EXCEPT ![ch] = s] /\ (scp' = scp \/ scp' = [scp EXCEPT ![ch] = s])
          \/ session' = [session EXCEPT ![ch] = b] /\ scp' = scp
      BY <2>2 DEF Establishes
    <3> HIDE DEF b
    <3> QED BY <1>t, <2>0, <3>1 DEF InStep
  <2> QED BY <1>0, <1>1, <2>1, <2>2, EstablishOutcome
<1>2. ASSUME NEW ch \in Channels, send_apdu(ch)
      PROVE  InStep'
  BY <1>0, <1>2, SendInStep
<1>3. ASSUME NEW ch \in Channels, select_adf(ch)
      PROVE  InStep'
  <2>1. /\ scp' = scp /\ session' = [session EXCEPT ![ch] = NoScp]
        /\ disturbed' = disturbed \union (IF session[ch] = NoScp THEN {} ELSE {session[ch].sid})
    BY <1>3 DEF select_adf
  <2> QED BY <1>t, <2>1 DEF InStep
<1>4. ASSUME NEW ch \in Channels, do_release_scp(ch)
      PROVE  InStep'
  BY <1>t, <1>4 DEF do_release_scp, InStep
<1>5. CASE reset
  BY <1>5 DEF reset, InStep
<1>6. CASE UNCHANGED vars
  BY <1>6 DEF vars, InStep
<1> QED BY <1>1, <1>2, <1>3, <1>4, <1>5, <1>6 DEF Next

-----------------------------------------------------------------------------
(* The theorems. *)

LEMMA InitSessions == Init => IInv
<1> SUFFICES ASSUME Init PROVE IInv
  OBVIOUS
<1>1. Sessions
  BY DEF Init, Sessions, TypeOK, ScpsOK, SessionsOK, Numbered, Paired, Open
<1>2. CardBehind /\ Counting /\ Chaining /\ ExecutedAsMeant /\ ResponseOfCommand /\ InStep
  BY DEF Init, CardBehind, Counting, InStep, Chaining, ExecutedAsMeant, ResponseOfCommand, Open
<1> QED BY <1>1, <1>2 DEF IInv

\* Through every behaviour the objects and the card's sessions have their numbers, pair up
\* by them, count alike (where no command was counted and not sent), and the card is not ahead.
\* (global_platform/scp.py: SCP02, SCP03; do_establish_scp02, do_establish_scp03)
THEOREM Invariant == Spec => []IInv
<1>1. ASSUME IInv, [Next]_vars
      PROVE  IInv'
  <2>1. Sessions' /\ CardBehind' /\ Chaining' /\ ResponseOfCommand' /\ InStep'
    BY <1>1, SessionsInductive, BehindInductive, ChainingInductive, InStepInductive DEF IInv
  <2>2. Counting' /\ ExecutedAsMeant'
    BY <1>1, CountingInductive, ReadAsMeant DEF IInv
  <2> QED BY <2>1, <2>2 DEF IInv
<1> QED BY <1>1, InitSessions, PTL DEF Spec

\* In every session without a command that was enciphered and then found too long for its
\* MAC, the card reads every command it carries out as the host meant it, for any channels,
\* levels, lengths of data and MACs, and whatever is lost or raised.
\* (Scp03SessionKeys.block_nr is advanced for every command that is wrapped.)
THEOREM ReadRight == Spec => []ExecutedAsMeant
<1>1. IInv => ExecutedAsMeant
  BY DEF IInv
<1> QED BY <1>1, Invariant, PTL

\* A padded length that is not too long leaves room for a MAC of eight bytes.
LEMMA PadRoom ==
  ASSUME NEW n \in 0 .. 255, pad80(n, 16) < 256
  PROVE  pad80(n, 16) + 8 < 256
<1> QED BY DEF pad80

NoneMiscounted == miscounted = {}

\* With MACs of eight bytes there is no such session: the card reads every command as meant.
\* (SCP03._wrap_cmd_apdu: a padded length is a multiple of 16.)
THEOREM ReadRightS8 ==
  ASSUME SMode = 8
  PROVE  Spec => []AlwaysAsMeant
<1>1. Init => NoneMiscounted
  BY DEF Init, NoneMiscounted
<1>2. ASSUME IInv, NoneMiscounted, [Next]_vars
      PROVE  NoneMiscounted'
  <2>0. TypeOK /\ Paired
    BY <1>2 DEF IInv, Sessions
  <2>1. CASE \E ch \in Channels : establish_scp(ch)
    BY <1>2, <2>1 DEF establish_scp, NoneMiscounted
  <2>2. ASSUME NEW ch \in Channels, send_apdu(ch)
        PROVE  NoneMiscounted'
    <3>1. PICK cmd \in Commands : miscounted' = miscounted \union Miscounts(scp[ch], cmd)
      BY <2>0, <2>2, SendOutcome
    <3>2. ~MacDoesNotFit(scp[ch], cmd)
      <4>1. cmd.size \in 0 .. 255
        BY DEF Commands
      <4>2. pad80(cmd.size, 16) < 256 => pad80(cmd.size, 16) + 8 < 256
        BY <4>1, PadRoom
      <4>3. pad80(cmd.size, 16) \in Nat
        BY <4>1 DEF pad80
      <4> QED BY <4>2, <4>3 DEF MacDoesNotFit
    <3> QED BY <1>2, <3>1, <3>2 DEF Miscounts, NoneMiscounted
  <2>3. CASE Drops
    BY <1>2, <2>3 DEF Drops, NoneMiscounted
  <2> QED BY <1>2, <2>0, <2>1, <2>2, <2>3, NextCases
<1>3. IInv /\ NoneMiscounted => AlwaysAsMeant
  BY DEF IInv, ExecutedAsMeant, AlwaysAsMeant, NoneMiscounted
<1>4. Spec => []IInv
  BY Invariant
<1> QED BY <1>1, <1>2, <1>3, <1>4, PTL DEF Spec

\* The card has executed a beginning of what the object wrapped, with MACs of any length.
\* (SCP02 and SCP03 keep the MAC of every command as the next chaining value.)
THEOREM NeverAhead == Spec => []CardBehind
<1>1. IInv => CardBehind
  BY DEF IInv
<1> QED BY <1>1, Invariant, PTL

\* Who asked for R-MAC is given the response to his own command or an exception.
\* (SCP03._unwrap_rsp_apdu compares the R-MAC with that of the last chaining value.)
THEOREM OwnResponse == Spec => []ResponseOfCommand
<1>1. IInv => ResponseOfCommand
  BY DEF IInv
<1> QED BY <1>1, Invariant, PTL

\* As long as nothing disturbed a session, the object and the card agree on it.
\* (establish_scp stores the object once the card has confirmed it; both go on alike.)
THEOREM BothInStep == Spec => []InStep
<1>1. IInv => InStep
  BY DEF IInv
<1> QED BY <1>1, Invariant, PTL

=============================================================================
