----------------------------- MODULE TraceProofs -----------------------------
(***************************************************************************)
(* Proofs about Trace: what TpduFilter holds is the command whose answer   *)
(* is to come, and as long as no channel management was missed the mirror  *)
(* has the channels of the card, so that no channel stops the tracer.  On  *)
(* each of them it has the card's selected file as far as the capture      *)
(* determines it; the proof of this follows the card and the mirror along  *)
(* a path, by an induction in first-order form over recursive functions.   *)
(***************************************************************************)
EXTENDS Trace, SequenceTheorems, WellFoundedInduction, TLAPS

-----------------------------------------------------------------------------
(***************************************************************************)
(* Commands and what the card answers them.                                *)
(***************************************************************************)
Deferrable == {"FID", "AID", "FROM_MF", "FROM_DF", "STATUS", "OPEN"}
CommandKinds == Selects \union Manages \union {"STATUS", "PARENT", "GP", "DATA"}

IsTpdu(r) ==
    r = [kind |-> r.kind, c |-> r.c, arg |-> r.arg, to |-> r.to, sw |-> r.sw, n |-> r.n]

Ended(r, sw, n) == [r EXCEPT !.sw = sw, !.n = n]

LEMMA EndedFields ==
    ASSUME NEW r, IsTpdu(r), NEW sw, NEW n
    PROVE  /\ IsTpdu(Ended(r, sw, n))
           /\ Ended(r, sw, n).kind = r.kind /\ Ended(r, sw, n).c = r.c
           /\ Ended(r, sw, n).arg = r.arg /\ Ended(r, sw, n).to = r.to
           /\ Ended(r, sw, n).sw = sw /\ Ended(r, sw, n).n = n
           /\ Ended(r, sw, n) = [kind |-> r.kind, c |-> r.c, arg |-> r.arg, to |-> r.to,
                                 sw |-> sw, n |-> n]
           /\ r.sw = sw /\ r.n = n => Ended(r, sw, n) = r
<1>1. Ended(r, sw, n) = [kind |-> r.kind, c |-> r.c, arg |-> r.arg, to |-> r.to, sw |-> sw, n |-> n]
  <2>1. PICK k, c, a, t, s, m : r = [kind |-> k, c |-> c, arg |-> a, to |-> t, sw |-> s, n |-> m]
    BY DEF IsTpdu
  <2>2. /\ DOMAIN Ended(r, sw, n) = {"kind", "c", "arg", "to", "sw", "n"}
        /\ Ended(r, sw, n) = [x \in DOMAIN Ended(r, sw, n) |-> Ended(r, sw, n)[x]]
        /\ \A x \in {"kind", "c", "arg", "to"} : Ended(r, sw, n)[x] = r[x]
        /\ Ended(r, sw, n)["sw"] = sw /\ Ended(r, sw, n)["n"] = n
    BY <2>1 DEF Ended
  <2> QED BY <2>2
<1> QED BY <1>1 DEF IsTpdu

\* A command of which the tracer has seen that the answer is to come.
Begun(r) == [r EXCEPT !.sw = "more"]

LEMMA BegunFields ==
    ASSUME NEW r, IsTpdu(r), NEW sw, NEW n
    PROVE  /\ IsTpdu(Begun(r)) /\ Begun(r).kind = r.kind /\ Begun(r).sw = "more"
           /\ Ended(Begun(r), sw, n) = Ended(r, sw, n)
<1>1. Begun(r) = [kind |-> r.kind, c |-> r.c, arg |-> r.arg, to |-> r.to, sw |-> "more", n |-> r.n]
  BY DEF IsTpdu, Begun
<1>2. IsTpdu(Begun(r)) /\ Begun(r).kind = r.kind /\ Begun(r).sw = "more"
  BY <1>1 DEF IsTpdu
<1>3. Ended(Begun(r), sw, n) = [kind |-> r.kind, c |-> r.c, arg |-> r.arg, to |-> r.to,
                                sw |-> sw, n |-> n]
  BY <1>1, <1>2, EndedFields
<1> QED BY <1>2, <1>3, EndedFields

LEMMA CommandsAre ==
    ASSUME NEW cmd \in Commands
    PROVE  /\ IsTpdu(cmd) /\ cmd.kind \in CommandKinds /\ cmd.sw = "-"
           /\ cmd.kind \in Selects \union {"OPEN"} => cmd.c \in DOMAIN card
           /\ cmd.kind = "STATUS" => cmd.c = 0
           /\ cmd.kind = "CLOSE" => cmd.to \in DOMAIN card \ {0}
BY DEF Commands, IsTpdu, CommandKinds, Selects, Manages

\* Only MANAGE CHANNEL changes which channels are open.
LEMMA AnswersAre ==
    ASSUME NEW cmd \in Commands, NEW ans \in Answers(cmd)
    PROVE  /\ cmd.kind \notin Manages => DOMAIN ans.card = DOMAIN card
           /\ cmd.kind = "OPEN" =>
                 \/ ans.sw = "refused" /\ ans.card = card
                 \/ /\ ans.sw = "ok" /\ ans.n \notin DOMAIN card /\ cmd.to \in {0, ans.n}
                    /\ DOMAIN ans.card = DOMAIN card \union {ans.n}
           /\ cmd.kind = "CLOSE" => ans.sw = "ok" /\ DOMAIN ans.card = DOMAIN card \ {cmd.to}
           /\ ans.sw \in {"ok", "refused", "warned"}
<1>1. CASE cmd.kind \in Selects \union {"PARENT"}
  <2> DEFINE places == CardSelects(card[cmd.c], cmd)
             sws == IF cmd.kind = "SFI" THEN {"ok"} ELSE {"ok", "warned"}
  <2>1. Answers(cmd) = IF places = {} THEN {[sw |-> "refused", card |-> card, n |-> NoByte]}
                       ELSE {[sw |-> sw, card |-> [card EXCEPT ![cmd.c] = p], n |-> Template(p.file)]
                             : p \in places, sw \in sws}
    BY <1>1 DEF Answers, Selects
  <2>2. sws \subseteq {"ok", "warned"}   OBVIOUS
  <2> HIDE DEF places, sws
  <2>3. CASE ans = [sw |-> "refused", card |-> card, n |-> NoByte]
    BY <1>1, <2>3 DEF Selects, Manages
  <2>4. CASE \E p \in places, sw \in sws :
               ans = [sw |-> sw, card |-> [card EXCEPT ![cmd.c] = p], n |-> Template(p.file)]
    <3>1. PICK p \in places, sw \in sws :
            ans = [sw |-> sw, card |-> [card EXCEPT ![cmd.c] = p], n |-> Template(p.file)]
      BY <2>4
    <3>2. ans.sw = sw /\ ans.card = [card EXCEPT ![cmd.c] = p]   BY <3>1
    <3> QED BY <1>1, <2>2, <3>2 DEF Selects, Manages
  <2> QED BY <2>1, <2>3, <2>4
<1>2. CASE cmd.kind = "OPEN"
  <2> DEFINE free == {n \in Channel \ DOMAIN card : cmd.to \in {0, n}}
             opened(n) == [k \in DOMAIN card \cup {n} |-> IF k = n THEN Inherited(card, cmd.c) ELSE card[k]]
  <2>1. Answers(cmd) = IF free = {} THEN {[sw |-> "refused", card |-> card, n |-> NoByte]}
                       ELSE {[sw |-> "ok", n |-> n, card |-> opened(n)] : n \in free}
    BY <1>2 DEF Answers, Selects
  <2>2. \A n : DOMAIN opened(n) = DOMAIN card \union {n}
    OBVIOUS
  <2>3. \A n \in free : n \notin DOMAIN card /\ cmd.to \in {0, n}
    OBVIOUS
  <2> HIDE DEF free, opened
  <2>4. CASE ans = [sw |-> "refused", card |-> card, n |-> NoByte]
    BY <1>2, <2>4 DEF Manages
  <2>5. CASE \E n \in free : ans = [sw |-> "ok", n |-> n, card |-> opened(n)]
    <3>1. PICK n \in free : ans = [sw |-> "ok", n |-> n, card |-> opened(n)]
      BY <2>5
    <3>2. ans.sw = "ok" /\ ans.n = n /\ ans.card = opened(n)
      BY <3>1
    <3> QED BY <1>2, <2>2, <2>3, <3>2 DEF Manages
  <2> QED BY <2>1, <2>4, <2>5
<1>3. CASE cmd.kind = "CLOSE"
  <2>1. Answers(cmd) = {[sw |-> "ok", card |-> Restrict(card, DOMAIN card \ {cmd.to}), n |-> NoByte]}
    BY <1>3 DEF Answers, Selects
  <2> QED BY <1>3, <2>1 DEF Restrict, Manages
<1>4. CASE cmd.kind \notin Selects \union {"PARENT", "OPEN", "CLOSE"}
  <2>1. ans.card = card /\ ans.sw \in {"ok", "refused"}
    BY <1>4 DEF Answers, Selects
  <2> QED BY <1>4, <2>1 DEF Manages
<1> QED BY <1>1, <1>2, <1>3, <1>4

-----------------------------------------------------------------------------
(***************************************************************************)
(* The filter.                                                             *)
(***************************************************************************)
Held ==
    /\ \/ due = None /\ last_cmd = None
       \/ /\ due # None /\ IsTpdu(due) /\ due.kind \in Deferrable
          /\ last_cmd = Begun(due)
    /\ \/ pending = None
       \/ /\ pending # None /\ IsTpdu(pending.cmd) /\ pending.cmd.kind \in Deferrable
          /\ pending.seen \in BOOLEAN
          /\ pending.seen => due = pending.cmd

\* A tpdu that ends a command is processed as that command.
LEMMA InputEnds ==
    ASSUME NEW tpdu, IsTpdu(tpdu), tpdu.sw # "more", Held, input_tpdu(tpdu)
    PROVE  /\ last_cmd' = None
           /\ due = None => process(tpdu)
           /\ due # None => process(Ended(due, tpdu.sw, tpdu.n))
<1>1. last_cmd' = None
      /\ process(Ended(IF last_cmd # None THEN last_cmd ELSE tpdu, tpdu.sw, tpdu.n))
  BY DEF input_tpdu, Ended
<1>2. CASE due = None
  <2>1. Ended(tpdu, tpdu.sw, tpdu.n) = tpdu
    BY EndedFields
  <2> QED BY <1>1, <1>2, <2>1 DEF Held
<1>3. CASE due # None
  <2>1. last_cmd = Begun(due) /\ IsTpdu(due) /\ due.kind \in Deferrable
    BY <1>3 DEF Held
  <2>2. last_cmd # None
    BY <2>1, BegunFields DEF None, Deferrable
  <2>3. Ended(last_cmd, tpdu.sw, tpdu.n) = Ended(due, tpdu.sw, tpdu.n)
    BY <2>1, BegunFields
  <2> QED BY <1>1, <1>3, <2>2, <2>3
<1> QED BY <1>2, <1>3

LEMMA InputBegins ==
    ASSUME NEW tpdu, tpdu.sw = "more", input_tpdu(tpdu)
    PROVE  UNCHANGED <<lchan, alive, shown>> /\ last_cmd' = held(tpdu)
BY DEF input_tpdu

LEMMA NotNone ==
    ASSUME NEW r, r.kind # "none"
    PROVE  r # None
BY DEF None

-----------------------------------------------------------------------------
(***************************************************************************)
(* The channels.  An OPEN whose answer was not captured yet is one that    *)
(* the card has carried out and the tracer has not.                        *)
(***************************************************************************)
Outstanding ==
    \/ due # None /\ due.kind = "OPEN"
    \/ pending # None /\ pending.cmd.kind = "OPEN"

ToFollow ==
    /\ pending.cmd.c \in DOMAIN lchan
    /\ pending.cmd.kind = "OPEN" =>
          /\ pending.n \notin DOMAIN lchan /\ pending.cmd.to \in {0, pending.n}
          /\ DOMAIN card = DOMAIN lchan \union {pending.n}

Mirrored ==
    /\ 0 \in DOMAIN lchan /\ trusted \in BOOLEAN
    /\ alive /\ trusted =>
          /\ ~Outstanding => DOMAIN lchan = DOMAIN card
          /\ pending # None /\ pending.seen => ToFollow

IInv == Held /\ Mirrored /\ ShownAsSent

\* The template in the response is not that of the file the mirror would have.
Misled(apdu) ==
    \/ apdu.kind = "STATUS" /\ apdu.n # Template(lchan[apdu.c].file)
    \/ /\ apdu.kind \in Selects \ {"SFI"} /\ apdu.sw = "ok" /\ apdu.n # NoByte
       /\ apdu.n # Template(UiccSelect(lchan[apdu.c], apdu).file)

Stop ==
    alive /\ ~alive' => \/ ~trusted'
                        \/ ended'.kind \in {"GP", "PARENT", "SFI", "DATA"}
                        \/ (ended'.kind = "STATUS" /\ ended'.sw # "ok")
                        \/ Misled(ended')

\* What an APDU that is processed does to the mirror's channels.
Opened(apdu) == IF apdu.to = 0 THEN apdu.n ELSE apdu.to

LEMMA Processing ==
    ASSUME NEW apdu, process(apdu)
    PROVE  /\ shown' = apdu /\ alive' \in BOOLEAN /\ (alive' => ~Raises(apdu))
           /\ ~alive' => Raises(apdu) \/ MayRaise(apdu)
           /\ apdu.kind \notin Manages => DOMAIN lchan' = DOMAIN lchan
           /\ apdu.kind = "OPEN" /\ apdu.sw = "ok" /\ alive' =>
                 DOMAIN lchan' = DOMAIN lchan \union {Opened(apdu)}
           /\ apdu.kind = "CLOSE" /\ apdu.sw = "ok" =>
                 DOMAIN lchan' = DOMAIN lchan \ {apdu.to}
           /\ apdu.sw # "ok" => DOMAIN lchan' = DOMAIN lchan
           /\ apdu.kind # "CLOSE" => DOMAIN lchan \subseteq DOMAIN lchan'
<1>1. /\ shown' = apdu /\ alive' \in BOOLEAN /\ (alive' => ~Raises(apdu))
      /\ ~alive' => Raises(apdu) \/ MayRaise(apdu)
      /\ lchan' = IF alive' THEN Processed(apdu) ELSE lchan
  BY DEF process
<1>2. CASE apdu.kind \in Selects \ {"SFI"}
  <2>1. Processed(apdu) = [lchan EXCEPT ![apdu.c] = UiccSelect(lchan[apdu.c], apdu)]
    BY <1>2 DEF Processed, Selects
  <2>2. DOMAIN Processed(apdu) = DOMAIN lchan
    BY <2>1
  <2> QED BY <1>1, <1>2, <2>2 DEF Selects, Manages
<1>3. CASE apdu.kind = "OPEN" /\ apdu.sw = "ok"
  <2>1. Processed(apdu) = add_lchan(apdu.c, Opened(apdu))
    BY <1>3 DEF Processed, Selects, Opened
  <2>2. DOMAIN Processed(apdu) = DOMAIN lchan \union {Opened(apdu)}
    BY <2>1 DEF add_lchan
  <2> QED BY <1>1, <1>3, <2>2 DEF Manages
<1>4. CASE apdu.kind = "CLOSE" /\ apdu.sw = "ok"
  <2>1. Processed(apdu) = Restrict(lchan, DOMAIN lchan \ {apdu.to})
    BY <1>4 DEF Processed, Selects, del_lchan
  <2>2. ~Raises(apdu) /\ ~MayRaise(apdu)
    BY <1>4 DEF Raises, MayRaise, Selects
  <2> QED BY <1>1, <1>4, <2>1, <2>2 DEF Restrict, Manages
<1>5. CASE /\ apdu.kind \notin Selects \ {"SFI"}
           /\ ~(apdu.kind = "OPEN" /\ apdu.sw = "ok")
           /\ ~(apdu.kind = "CLOSE" /\ apdu.sw = "ok")
  <2>1. Processed(apdu) = lchan
    BY <1>5 DEF Processed
  <2> QED BY <1>1, <1>5, <2>1
<1> QED BY <1>2, <1>3, <1>4, <1>5

LEMMA Knowing ==
    ASSUME NEW lost, NEW known, Knows(lost, known)
    PROVE  trusted' = (trusted /\ \A cmd \in lost : cmd.kind \notin Manages)
BY DEF Knows

\* What a command that was not fetched leaves behind.
LEMMA Leaving ==
    ASSUME Held, Mirrored, alive, trusted, due = None \/ due.kind # "OPEN",
           \A cmd \in Unseen : cmd.kind \notin Manages
    PROVE  DOMAIN lchan = DOMAIN card
<1>1. ~Outstanding
  <2> SUFFICES ASSUME pending # None, pending.cmd.kind = "OPEN" PROVE FALSE
    BY DEF Outstanding
  <2>1. ~pending.seen
    BY DEF Held, None
  <2>2. pending.cmd \in Unseen
    BY <2>1 DEF Unseen, Unfetched
  <2> QED BY <2>2 DEF Manages
<1> QED BY <1>1 DEF Mirrored

-----------------------------------------------------------------------------
(***************************************************************************)
(* The steps.                                                              *)
(***************************************************************************)
\* A command that is answered at once, with its witnesses.
Commanded(cmd, seen, ans, n) ==
    LET apdu == [cmd EXCEPT !.sw = ans.sw, !.n = n] IN
    /\ Issue(seen)
    /\ card' = ans.card
    /\ pending' = None
    /\ Packet(apdu, seen)
    /\ due' = IF seen THEN None ELSE due
    /\ ended' = IF seen THEN apdu ELSE None
    /\ mixed' = (seen /\ due # None)
    /\ CASE seen /\ due # None -> Confused
         [] seen /\ due = None -> Knows(Unseen, Determined(apdu, card[cmd.c], Forget(Unseen, sure)))
         [] ~seen -> Knows(Unseen \cup {cmd}, Forget(Unseen \cup {cmd}, sure))

LEMMA CommandStep ==
    ASSUME IInv, Command
    PROVE  IInv' /\ Stop
<1>1. PICK cmd \in Commands, seen \in BOOLEAN :
         \E ans \in Answers(cmd) : \E n \in FirstByte(cmd, ans) : Commanded(cmd, seen, ans, n)
  BY DEF Command, Commanded
<1>2. PICK ans \in Answers(cmd) : \E n \in FirstByte(cmd, ans) : Commanded(cmd, seen, ans, n)
  BY <1>1
<1>0. PICK n \in FirstByte(cmd, ans) : Commanded(cmd, seen, ans, n)
  BY <1>2
<1> DEFINE apdu == Ended(cmd, ans.sw, n)
<1>3. /\ IsTpdu(apdu) /\ apdu.kind = cmd.kind /\ apdu.c = cmd.c /\ apdu.to = cmd.to
      /\ apdu.sw = ans.sw /\ apdu.n = n /\ apdu # None /\ cmd.kind \in CommandKinds
  <2>1. IsTpdu(cmd) /\ cmd.kind \in CommandKinds
    BY CommandsAre
  <2>2. cmd.kind # "none"
    BY <2>1 DEF CommandKinds, Selects, Manages
  <2> QED BY <2>1, <2>2, EndedFields, NotNone
<1>4. /\ card' = ans.card /\ pending' = None /\ due' = IF seen THEN None ELSE due
      /\ ended' = (IF seen THEN apdu ELSE None) /\ mixed' = (seen /\ due # None)
      /\ Packet(apdu, seen) /\ alive
      /\ seen /\ due # None => Confused
      /\ seen /\ due = None => trusted' = (trusted /\ \A l \in Unseen : l.kind \notin Manages)
      /\ ~seen => trusted' = (trusted /\ \A l \in Unseen \union {cmd} : l.kind \notin Manages)
  BY <1>0, Knowing DEF Commanded, Ended, Command, MayIssue
<1> HIDE DEF apdu
<1>5. CASE ~seen
  <2>1. UNCHANGED <<last_cmd, lchan, alive, shown, due>> /\ ended' = None /\ pending' = None
    BY <1>4, <1>5 DEF Packet
  <2>2. Held' /\ ShownAsSent'
    BY <2>1 DEF IInv, Held, ShownAsSent
  <2>3. trusted' => DOMAIN card' = DOMAIN card
    BY <1>4, <1>5, AnswersAre
  <2>4. ASSUME trusted', ~Outstanding' PROVE DOMAIN lchan' = DOMAIN card'
    <3>1. due = None \/ due.kind # "OPEN"
      BY <2>1, <2>4 DEF Outstanding
    <3>2. DOMAIN lchan = DOMAIN card
      BY <1>4, <1>5, <2>4, <3>1, Leaving DEF IInv
    <3> QED BY <2>1, <2>3, <2>4, <3>2
  <2>5. Mirrored'
    BY <1>4, <1>5, <2>1, <2>4 DEF IInv, Mirrored
  <2> QED BY <2>1, <2>2, <2>5 DEF IInv, Stop
<1>6. CASE seen /\ due # None
  <2>1. input_tpdu(apdu) /\ trusted' = FALSE /\ due' = None /\ mixed'
    BY <1>4, <1>6 DEF Packet, Confused
  <2>2. apdu.sw # "more"
    BY <1>3, AnswersAre
  <2>3. last_cmd' = None /\ process(Ended(due, apdu.sw, apdu.n))
    BY <1>3, <1>6, <2>1, <2>2, InputEnds DEF IInv
  <2>4. Ended(due, apdu.sw, apdu.n).kind # "CLOSE"
    BY <1>6, EndedFields DEF IInv, Held, Deferrable
  <2>5. 0 \in DOMAIN lchan'
    BY <2>3, <2>4, Processing DEF IInv, Mirrored
  <2> QED BY <1>4, <2>1, <2>3, <2>5 DEF IInv, Held, Mirrored, ShownAsSent, Stop
<1>7. CASE seen /\ due = None
  <2>1. input_tpdu(apdu) /\ due' = None /\ ended' = apdu
    BY <1>4, <1>7 DEF Packet
  <2>2. apdu.sw # "more"
    BY <1>3, AnswersAre
  <2>3. last_cmd' = None /\ process(apdu)
    BY <1>3, <1>7, <2>1, <2>2, InputEnds DEF IInv
  <2>4. Held' /\ ShownAsSent'
    BY <1>4, <2>1, <2>3, Processing DEF Held, ShownAsSent
  <2>5. trusted' => trusted /\ DOMAIN lchan = DOMAIN card
    BY <1>4, <1>7, Leaving DEF IInv
  <2>6. 0 \in DOMAIN lchan'
    <3>1. CASE cmd.kind # "CLOSE"
      BY <1>3, <2>3, <3>1, Processing DEF IInv, Mirrored
    <3>2. CASE cmd.kind = "CLOSE"
      <4>1. cmd.to # 0 /\ ans.sw = "ok"
        BY <3>2, CommandsAre, AnswersAre
      <4>2. DOMAIN lchan' = DOMAIN lchan \ {cmd.to}
        BY <1>3, <2>3, <3>2, <4>1, Processing
      <4> QED BY <4>1, <4>2 DEF IInv, Mirrored
    <3> QED BY <3>1, <3>2
  <2>7. n = IF cmd.kind \in {"STATUS", "OPEN"} THEN ans.n ELSE NoByte
    BY <1>7 DEF FirstByte, IInv, Held, Selects
  <2>8. ASSUME alive', trusted' PROVE DOMAIN lchan' = DOMAIN card'
    <3>1. CASE cmd.kind \notin Manages
      BY <1>3, <1>4, <2>3, <2>5, <2>8, <3>1, Processing, AnswersAre
    <3>2. CASE cmd.kind = "CLOSE"
      <4>1. ans.sw = "ok" /\ DOMAIN ans.card = DOMAIN card \ {cmd.to}
        BY <3>2, AnswersAre
      <4>2. DOMAIN lchan' = DOMAIN lchan \ {cmd.to}
        BY <1>3, <2>3, <3>2, <4>1, Processing
      <4> QED BY <1>4, <2>5, <2>8, <4>1, <4>2
    <3>3. CASE cmd.kind = "OPEN" /\ ans.sw = "ok"
      <4>1. Opened(apdu) = ans.n
        BY <1>3, <2>7, <3>3, AnswersAre DEF Opened
      <4>2. DOMAIN ans.card = DOMAIN card \union {ans.n}
        BY <3>3, AnswersAre
      <4>3. DOMAIN lchan' = DOMAIN lchan \union {ans.n}
        BY <1>3, <2>3, <2>8, <3>3, <4>1, Processing
      <4> QED BY <1>4, <2>5, <2>8, <4>2, <4>3
    <3>4. CASE cmd.kind = "OPEN" /\ ans.sw # "ok"
      BY <1>3, <1>4, <2>3, <2>5, <2>8, <3>4, Processing, AnswersAre
    <3> QED BY <3>1, <3>2, <3>3, <3>4 DEF Manages
  <2>9. Mirrored'
    <3>1. trusted' \in BOOLEAN
      BY <1>4, <1>7 DEF IInv, Mirrored
    <3> QED BY <1>4, <2>6, <2>8, <3>1 DEF Mirrored
  <2>10. Stop
    <3> SUFFICES ASSUME ~alive', trusted'
                 PROVE  \/ apdu.kind \in {"GP", "PARENT", "SFI", "DATA"}
                        \/ (apdu.kind = "STATUS" /\ apdu.sw # "ok") \/ Misled(apdu)
      BY <2>1 DEF Stop
    <3>1. Raises(apdu) \/ MayRaise(apdu)
      BY <2>3, Processing
    <3>2. CASE apdu.kind \in Selects \union {"STATUS", "DATA"} /\ apdu.c \notin DOMAIN lchan
      BY <1>3, <2>5, <3>2, CommandsAre DEF Selects, IInv, Mirrored
    <3>3. CASE apdu.kind = "OPEN" /\ apdu.sw = "ok"
      <4>1. Opened(apdu) = ans.n /\ ans.n \notin DOMAIN card /\ apdu.c \in DOMAIN card
        BY <1>3, <2>7, <3>3, AnswersAre, CommandsAre DEF Opened
      <4> QED BY <2>5, <3>1, <3>3, <4>1 DEF Raises, MayRaise, Opened, Selects
    <3> QED BY <3>1, <3>2, <3>3 DEF Raises, MayRaise, Misled
  <2> QED BY <2>4, <2>9, <2>10 DEF IInv
<1> QED BY <1>5, <1>6, <1>7

\* A command of which the answer is to be fetched, with its witnesses.
Deferred(cmd, seen, ans) ==
    /\ cmd.kind \in Deferrable /\ ans.sw = "ok"
    /\ Issue(seen)
    /\ card' = ans.card
    /\ pending' = [kind |-> "pending", cmd |-> cmd, n |-> ans.n, at |-> card[cmd.c], seen |-> seen]
    /\ Packet([cmd EXCEPT !.sw = "more"], seen)
    /\ due' = IF seen THEN cmd ELSE due
    /\ LET lost == Unseen \cup (IF seen THEN {due} \ {None} ELSE {}) IN Knows(lost, Forget(lost, sure))
    /\ UNCHANGED <<ended, mixed>>

LEMMA CommandDeferredStep ==
    ASSUME IInv, CommandDeferred
    PROVE  IInv' /\ Stop
<1>1. PICK cmd \in Commands, seen \in BOOLEAN : \E ans \in Answers(cmd) : Deferred(cmd, seen, ans)
  BY DEF CommandDeferred, Deferred, Deferrable
<1>2. PICK ans \in Answers(cmd) : Deferred(cmd, seen, ans)
  BY <1>1
<1>3. /\ IsTpdu(cmd) /\ cmd # None /\ cmd.kind # "GETRESP" /\ cmd.kind \in Deferrable
  <2>1. IsTpdu(cmd) /\ cmd.kind \in Deferrable
    BY <1>2, CommandsAre DEF Deferred
  <2>2. cmd.kind # "none" /\ cmd.kind # "GETRESP"
    BY <2>1 DEF Deferrable
  <2> QED BY <2>1, <2>2, NotNone
<1>4. /\ pending'.cmd = cmd /\ pending'.n = ans.n /\ pending'.seen = seen /\ pending' # None
      /\ due' = IF seen THEN cmd ELSE due
      /\ card' = ans.card /\ ended' = ended /\ mixed' = mixed /\ alive /\ ans.sw = "ok"
      /\ Packet(Begun(cmd), seen)
  <2>1. pending' = [kind |-> "pending", cmd |-> cmd, n |-> ans.n, at |-> card[cmd.c], seen |-> seen]
    BY <1>2 DEF Deferred
  <2>2. pending'.kind # "none"
    BY <2>1
  <2> QED BY <1>2, <2>1, <2>2, NotNone DEF Deferred, Begun, CommandDeferred, MayIssue
<1>5. /\ UNCHANGED <<lchan, alive, shown>>
      /\ last_cmd' = IF seen THEN Begun(cmd) ELSE last_cmd
  <2>1. Begun(cmd).sw = "more" /\ held(Begun(cmd)) = Begun(cmd)
    BY <1>3, BegunFields DEF held
  <2> QED BY <1>4, <2>1, InputBegins DEF Packet
<1>6. trusted' = (trusted /\ \A l \in Unseen \union (IF seen THEN {due} \ {None} ELSE {}) :
                                l.kind \notin Manages)
  BY <1>2, Knowing DEF Deferred
<1>7. Held'
  BY <1>3, <1>4, <1>5 DEF IInv, Held
<1>8. ShownAsSent'
  BY <1>4, <1>5 DEF IInv, ShownAsSent
<1>9. ASSUME trusted', due = None \/ due.kind # "OPEN" PROVE DOMAIN lchan = DOMAIN card
  BY <1>4, <1>6, <1>9, Leaving DEF IInv
<1>10. ASSUME trusted', ~Outstanding' PROVE DOMAIN lchan' = DOMAIN card'
  <2>1. cmd.kind \notin Manages
    BY <1>3, <1>4, <1>10 DEF Outstanding, Manages, Deferrable
  <2>2. due = None \/ due.kind # "OPEN"
    BY <1>4, <1>6, <1>10 DEF Outstanding, Manages
  <2>3. DOMAIN card' = DOMAIN card
    BY <1>4, <2>1, AnswersAre
  <2> QED BY <1>5, <1>9, <1>10, <2>2, <2>3
<1>11. ASSUME trusted', seen PROVE ToFollow'
  <2>1. due = None \/ due.kind # "OPEN"
    BY <1>6, <1>11 DEF Manages
  <2>2. DOMAIN lchan' = DOMAIN card
    BY <1>5, <1>9, <1>11, <2>1
  <2>3. cmd.c \in DOMAIN lchan'
    BY <1>3, <1>5, <2>2, CommandsAre DEF Deferrable, Selects, IInv, Mirrored
  <2> QED BY <1>4, <2>2, <2>3, AnswersAre DEF ToFollow
<1>12. Mirrored'
  <2>1. trusted' \in BOOLEAN
    BY <1>6 DEF IInv, Mirrored
  <2> QED BY <1>4, <1>5, <1>10, <1>11, <2>1 DEF IInv, Mirrored
<1> QED BY <1>4, <1>5, <1>7, <1>8, <1>12 DEF IInv, Stop

LEMMA GetResponseStep ==
    ASSUME IInv, GetResponse
    PROVE  IInv' /\ Stop
<1> DEFINE tpdu == [kind |-> "GETRESP", c |-> pending.cmd.c, arg |-> <<>>, to |-> 0, sw |-> "ok", n |-> pending.n]
           apdu == Ended(pending.cmd, "ok", pending.n)
<1>1. PICK seen \in BOOLEAN :
         /\ alive /\ pending # None /\ pending' = None /\ UNCHANGED card
         /\ Packet(tpdu, seen)
         /\ due' = IF seen THEN None ELSE due
         /\ ended' = CASE ~seen \/ (due # None /\ ~pending.seen) -> None
                       [] seen /\ due = None -> tpdu
                       [] OTHER -> apdu
         /\ CASE seen /\ pending.seen -> Knows({}, Determined(apdu, pending.at, sure))
              [] seen /\ ~pending.seen /\ due # None -> Confused
              [] OTHER -> Knows({pending.cmd}, Forget({pending.cmd}, sure))
  BY DEF GetResponse, Ended
<1>2. /\ IsTpdu(pending.cmd) /\ pending.cmd.kind \in Deferrable /\ pending.seen \in BOOLEAN
      /\ pending.seen => due = pending.cmd /\ due # None
  <2>1. IsTpdu(pending.cmd) /\ pending.cmd.kind \in Deferrable /\ pending.seen \in BOOLEAN
        /\ (pending.seen => due = pending.cmd)
    BY <1>1 DEF IInv, Held
  <2>2. pending.cmd.kind # "none"
    BY <2>1 DEF Deferrable
  <2> QED BY <2>1, <2>2, NotNone
<1>3. IsTpdu(tpdu) /\ tpdu.sw = "ok" /\ tpdu.n = pending.n /\ tpdu.kind = "GETRESP" /\ tpdu # None
  <2>1. tpdu.kind # "none"
    OBVIOUS
  <2> QED BY <2>1, NotNone DEF IsTpdu
<1>4. /\ IsTpdu(apdu) /\ apdu.kind = pending.cmd.kind /\ apdu.c = pending.cmd.c
      /\ apdu.to = pending.cmd.to /\ apdu.sw = "ok" /\ apdu.n = pending.n
  BY <1>2, EndedFields
<1> HIDE DEF tpdu, apdu
<1>5. CASE ~seen
  <2>1. UNCHANGED <<last_cmd, lchan, alive, shown, due, card>> /\ ended' = None /\ pending' = None
    BY <1>1, <1>5 DEF Packet
  <2>2. Held' /\ ShownAsSent'
    BY <2>1 DEF IInv, Held, ShownAsSent
  <2>3. trusted' = (trusted /\ pending.cmd.kind \notin Manages)
    BY <1>1, <1>5, Knowing
  <2>4. Mirrored'
    BY <2>1, <2>3 DEF IInv, Mirrored, Outstanding, Manages
  <2> QED BY <2>1, <2>2, <2>4 DEF IInv, Stop
<1>6. CASE seen /\ pending.seen
  <2>1. input_tpdu(tpdu) /\ due' = None /\ pending' = None /\ ended' = apdu /\ due = pending.cmd
    BY <1>1, <1>2, <1>6 DEF Packet
  <2>2. last_cmd' = None /\ process(apdu)
    BY <1>2, <1>3, <1>6, <2>1, InputEnds DEF IInv, apdu
  <2>3. Held' /\ ShownAsSent'
    BY <2>1, <2>2, Processing DEF Held, ShownAsSent
  <2>4. trusted' = trusted
    BY <1>1, <1>6, Knowing DEF IInv, Mirrored
  <2>5. 0 \in DOMAIN lchan'
    BY <1>2, <1>4, <2>2, Processing DEF IInv, Mirrored, Deferrable
  <2>6. ToFollow \/ ~trusted
    BY <1>1, <1>6 DEF IInv, Mirrored
  <2>7. ASSUME alive', trusted' PROVE DOMAIN lchan' = DOMAIN card'
    <3>1. CASE pending.cmd.kind = "OPEN"
      <4>1. Opened(apdu) = pending.n /\ DOMAIN card = DOMAIN lchan \union {pending.n}
        BY <1>4, <2>4, <2>6, <2>7, <3>1 DEF Opened, ToFollow
      <4> QED BY <1>1, <1>4, <2>2, <2>7, <3>1, <4>1, Processing
    <3>2. CASE pending.cmd.kind # "OPEN"
      <4>1. DOMAIN lchan = DOMAIN card
        BY <1>1, <2>1, <2>4, <2>7, <3>2 DEF IInv, Mirrored, Outstanding
      <4> QED BY <1>1, <1>2, <1>4, <2>2, <3>2, <4>1, Processing DEF Manages, Deferrable
    <3> QED BY <3>1, <3>2
  <2>8. Mirrored'
    BY <2>1, <2>4, <2>5, <2>7 DEF IInv, Mirrored
  <2>9. Stop
    <3> SUFFICES ASSUME ~alive', trusted' PROVE Misled(apdu)
      BY <2>1 DEF Stop
    <3>0. Raises(apdu) \/ MayRaise(apdu)
      BY <2>2, Processing
    <3>1. apdu.c \in DOMAIN lchan /\ (apdu.kind = "OPEN" => Opened(apdu) \notin DOMAIN lchan)
      BY <1>4, <2>4, <2>6 DEF ToFollow, Opened
    <3> QED BY <1>2, <1>4, <3>0, <3>1 DEF Raises, MayRaise, Misled, Opened, Deferrable
  <2> QED BY <2>3, <2>8, <2>9 DEF IInv, Stop
<1>7. CASE seen /\ ~pending.seen /\ due # None
  <2>1. input_tpdu(tpdu) /\ due' = None /\ pending' = None /\ ended' = None /\ trusted' = FALSE
    BY <1>1, <1>7 DEF Packet, Confused
  <2>2. last_cmd' = None /\ process(Ended(due, "ok", pending.n))
    BY <1>3, <1>7, <2>1, InputEnds DEF IInv
  <2>3. Ended(due, "ok", pending.n).kind # "CLOSE"
    BY <1>7, EndedFields DEF IInv, Held, Deferrable
  <2>4. 0 \in DOMAIN lchan'
    BY <2>2, <2>3, Processing DEF IInv, Mirrored
  <2> QED BY <2>1, <2>2, <2>4 DEF IInv, Held, Mirrored, ShownAsSent, Stop
<1>8. CASE seen /\ ~pending.seen /\ due = None
  <2>1. input_tpdu(tpdu) /\ due' = None /\ pending' = None /\ ended' = tpdu
    BY <1>1, <1>8 DEF Packet
  <2>2. last_cmd' = None /\ process(tpdu)
    BY <1>3, <1>8, <2>1, InputEnds DEF IInv
  <2>3. Held' /\ ShownAsSent'
    BY <2>1, <2>2, Processing DEF Held, ShownAsSent
  <2>4. trusted' = (trusted /\ pending.cmd.kind \notin Manages)
    BY <1>1, <1>8, Knowing
  <2>5. DOMAIN lchan' = DOMAIN lchan /\ 0 \in DOMAIN lchan'
    BY <1>3, <2>2, Processing DEF IInv, Mirrored, Manages
  <2>6. alive'
    <3>1. ~Raises(tpdu) /\ ~MayRaise(tpdu)
      BY <1>3 DEF Raises, MayRaise, Selects
    <3> QED BY <2>2, <3>1, Processing
  <2>7. Mirrored'
    BY <1>1, <1>8, <2>1, <2>4, <2>5 DEF IInv, Mirrored, Outstanding, Manages
  <2> QED BY <2>3, <2>6, <2>7 DEF IInv, Stop
<1> QED BY <1>2, <1>5, <1>6, <1>7, <1>8

LEMMA GetResponsePartStep ==
    ASSUME IInv, GetResponsePart
    PROVE  IInv' /\ Stop
<1> DEFINE tpdu == [kind |-> "GETRESP", c |-> pending.cmd.c, arg |-> <<>>, to |-> 0, sw |-> "more", n |-> 0]
<1>1. input_tpdu(tpdu) /\ UNCHANGED <<card, pending, ended, due, mixed, trusted>>
  BY DEF GetResponsePart, Packet
<1>2. tpdu.sw = "more" /\ held(tpdu) = last_cmd
  BY DEF held
<1> HIDE DEF tpdu
<1>3. UNCHANGED <<lchan, alive, shown, last_cmd>>
  BY <1>1, <1>2, InputBegins
<1> QED BY <1>1, <1>3 DEF IInv, Held, Mirrored, ShownAsSent, Outstanding, ToFollow, Stop

LEMMA ResetStep ==
    ASSUME IInv, Reset
    PROVE  IInv' /\ Stop
<1>1. PICK seen \in BOOLEAN :
         /\ card' = [c \in {0} |-> Fresh] /\ pending' = None
         /\ lchan' = (IF seen THEN reset(lchan) ELSE lchan) /\ trusted' = seen /\ ended' = None
         /\ UNCHANGED <<last_cmd, alive, shown, due>>
  BY DEF Reset
<1>2. Held' /\ ShownAsSent'
  BY <1>1 DEF IInv, Held, ShownAsSent
<1>3. seen => DOMAIN lchan' = {0}
  BY <1>1 DEF reset, IInv, Mirrored
<1>4. 0 \in DOMAIN lchan' /\ DOMAIN card' = {0}
  BY <1>1, <1>3 DEF IInv, Mirrored
<1>5. Mirrored'
  BY <1>1, <1>3, <1>4 DEF Mirrored
<1> QED BY <1>1, <1>2, <1>5 DEF IInv, Stop

-----------------------------------------------------------------------------
LEMMA InitIInv == Init => IInv
BY DEF Init, IInv, Held, Mirrored, ShownAsSent, Outstanding

LEMMA NextIInv == IInv /\ [Next]_vars => IInv' /\ (Stop \/ UNCHANGED vars)
<1> SUFFICES ASSUME IInv, [Next]_vars PROVE IInv' /\ (Stop \/ UNCHANGED vars)
  OBVIOUS
<1>1. CASE UNCHANGED vars
  BY <1>1 DEF vars, IInv, Held, Mirrored, ShownAsSent, Outstanding, ToFollow
<1>2. CASE Next
  BY <1>2, CommandStep, CommandDeferredStep, GetResponseStep, GetResponsePartStep, ResetStep DEF Next
<1> QED BY <1>1, <1>2

\* What the filter holds is the command whose answer is to come, and the mirror lacks
\* only the channel of an OPEN that it has not seen the answer of.
THEOREM Invariant == Spec => []IInv
<1>1. IInv /\ [Next]_vars => IInv'
  BY NextIInv
<1> QED BY <1>1, InitIInv, PTL DEF Spec

\* Every command whose parts were captured is shown with its own answer, however it was
\* split and whatever was missed before, except the first that ends where the end of a
\* held answer was missed (TpduFilter).
THEOREM ShownRight == Spec => []ShownAsSent
<1>1. IInv => ShownAsSent
  BY DEF IInv
<1> QED BY <1>1, Invariant, PTL

\* The mirror has the channels of the card (ManageChannel, RuntimeState.reset).
THEOREM ChannelsMirrored == Spec => []ChannelsFollow
<1>1. IInv => ChannelsFollow
  BY DEF IInv, Mirrored, ChannelsFollow, Settled, Outstanding
<1> QED BY <1>1, Invariant, PTL

-----------------------------------------------------------------------------
(* Induction over the naturals, in a first-order form                       *)

\* A set of numbers with 0 that is closed under successors has all of them.
LEMMA SetInduction ==
  ASSUME NEW S, 0 \in S, \A n \in Nat : n \in S => n + 1 \in S
  PROVE  Nat \subseteq S
<1> DEFINE T == Nat \ S
           R == {ss \in Nat \X Nat : ss[1] < ss[2]}
<1> SUFFICES ASSUME T # {} PROVE FALSE   OBVIOUS
<1>0. IsWellFoundedOn(R, Nat)   BY NatLessThanWellFounded DEF OpToRel
<1>a. T \subseteq Nat   OBVIOUS
<1> HIDE DEF R, T
<1>1. PICK x \in T : \A y \in T : ~ (<<y, x>> \in R)   BY <1>0, <1>a, WFMin
<1>2. x \in Nat /\ x # 0 /\ x \notin S   BY <1>a DEF T
<1>3. x - 1 \in Nat /\ x = (x - 1) + 1   BY <1>2
<1>4. x - 1 \in T   BY <1>2, <1>3 DEF T
<1>5. <<x - 1, x>> \in R   BY <1>2, <1>3 DEF R
<1> QED BY <1>1, <1>4, <1>5

\* The same up to a number N.
LEMMA UpTo ==
  ASSUME NEW N \in Nat, NEW S, 0 \in S, \A n \in 0 .. N - 1 : n \in S => n + 1 \in S
  PROVE  0 .. N \subseteq S
<1> DEFINE T == {n \in Nat : n > N \/ n \in S}
<1>1. 0 \in T   OBVIOUS
<1>2. \A n \in Nat : n \in T => n + 1 \in T   OBVIOUS
<1>3. Nat \subseteq T
  <2> HIDE DEF T
  <2> QED BY <1>1, <1>2, SetInduction
<1> QED BY <1>3

Steps(N, X) == [(1 .. N) \X X -> X]

Iterates(f, x0, step, N) == f[0] = x0 /\ \A k \in 1 .. N : f[k] = step[<<k, f[k - 1]>>]

\* A function defined by recursion on 0 .. N stays in a set that each of its
\* steps maps into itself.
LEMMA Recursion ==
  ASSUME NEW X, NEW x0 \in X, NEW N \in Nat, NEW step \in Steps(N, X)
  PROVE  \E f \in [0 .. N -> X] : Iterates(f, x0, step, N)
<1> step \in [(1 .. N) \X X -> X]   BY DEF Steps
<1> DEFINE Upto(f, n) == f[0] = x0 /\ \A k \in 1 .. n : f[k] = step[<<k, f[k - 1]>>]
           S == {n \in Nat : \E f \in [0 .. N -> X] : Upto(f, n)}
<1>1. 0 \in S
  <2>1. [k \in 0 .. N |-> x0] \in [0 .. N -> X] /\ Upto([k \in 0 .. N |-> x0], 0)   OBVIOUS
  <2> HIDE DEF Upto
  <2> QED BY <2>1
<1>2. ASSUME NEW n \in 0 .. N - 1, n \in S PROVE n + 1 \in S
  <2>1. PICK f \in [0 .. N -> X] : Upto(f, n)   BY <1>2
  <2>2. n \in 0 .. N /\ n + 1 \in 1 .. N /\ n + 1 \in 0 .. N /\ n + 1 # 0 /\ n + 1 - 1 = n
    OBVIOUS
  <2>3. step[<<n + 1, f[n]>>] \in X   BY <2>2
  <2> DEFINE g == [f EXCEPT ![n + 1] = step[<<n + 1, f[n]>>]]
  <2>4. g \in [0 .. N -> X]   BY <2>2, <2>3
  <2>5. g[n + 1] = step[<<n + 1, g[n + 1 - 1]>>]   BY <2>2
  <2>6. \A k \in 1 .. n : g[k] = f[k] /\ g[k - 1] = f[k - 1]   BY <2>2
  <2>7. \A k \in 1 .. n : f[k] = step[<<k, f[k - 1]>>]   BY <2>1
  <2>8. g[0] = x0   BY <2>1, <2>2
  <2>9. \A k \in 1 .. n + 1 : k \in 1 .. n \/ k = n + 1   OBVIOUS
  <2> HIDE DEF g
  <2>10. \A k \in 1 .. n + 1 : g[k] = step[<<k, g[k - 1]>>]
    <3> TAKE k \in 1 .. n + 1
    <3>1. CASE k \in 1 .. n   BY <2>6, <2>7, <3>1
    <3>2. CASE k = n + 1   BY <2>5, <3>2
    <3> QED BY <2>9, <3>1, <3>2
  <2>11. Upto(g, n + 1)   BY <2>8, <2>10
  <2> HIDE DEF Upto
  <2> QED BY <2>2, <2>4, <2>11
<1>3. 0 .. N \subseteq S
  <2> HIDE DEF S
  <2> QED BY <1>1, <1>2, UpTo
<1>4. N \in S
  <2> HIDE DEF S
  <2> QED BY <1>3
<1> QED BY <1>4 DEF Iterates
-----------------------------------------------------------------------------
(***************************************************************************)
(* Places and paths.                                                       *)
(***************************************************************************)
Places == [file : File, adf : File \cup {NoApp}]

\* The files of the card and of the profile.
LEMMA FilesAre ==
    /\ MF \in File /\ USIM \in File /\ App \subseteq File /\ EF \subseteq File
    /\ OnCard \subseteq File /\ Profile \subseteq File /\ Parent \in [File -> File]
    /\ NoApp \notin File /\ Fresh \in Places
BY TraceAssumption DEF Fresh, Places

\* A card selects files, and the ADF that is current.
LEMMA SeesFiles ==
    ASSUME NEW p \in Places, NEW fid, NEW f \in CardSees(p, fid)
    PROVE  /\ f \in File /\ [p EXCEPT !.file = f] \in Places
           /\ [p EXCEPT !.file = f].file = f /\ [p EXCEPT !.file = f].adf = p.adf
           /\ fid = CurApp => f = p.adf /\ p.adf # NoApp
<1>1. f \in File
  <2>1. CASE fid = CurApp   BY <2>1 DEF CardSees, Places
  <2>2. CASE fid # CurApp
    <3>1. p.file \in File /\ Cwd(p.file) \in File   BY FilesAre DEF Cwd, Places
    <3>2. Parent[Cwd(p.file)] \in File   BY <3>1, FilesAre
    <3> QED BY <2>2, <3>1, <3>2, FilesAre DEF CardSees, Named, Children
  <2> QED BY <2>1, <2>2
<1>2. fid = CurApp => f = p.adf /\ p.adf # NoApp   BY DEF CardSees
<1> QED BY <1>1, <1>2 DEF Places

CardStep(places, fid) ==
    UNION {{[p EXCEPT !.file = f] : f \in CardSees(p, fid)} : p \in places}

\* The places along a path, one element after the other.
LEMMA CardWalksAre ==
    ASSUME NEW at \in Places, NEW S, NEW path \in Seq(S)
    PROVE  /\ CardWalks(at, path) \in [0 .. Len(path) -> SUBSET Places]
           /\ CardWalks(at, path)[0] = {at}
           /\ \A k \in 1 .. Len(path) :
                CardWalks(at, path)[k] = CardStep(CardWalks(at, path)[k - 1], path[k])
<1> DEFINE N == Len(path)
           X == SUBSET Places
           IsGo(g) == g = [i \in 0 .. N |-> IF i = 0 THEN {at} ELSE CardStep(g[i - 1], path[i])]
           step == [ks \in (1 .. N) \X X |-> CardStep(ks[2], path[ks[1]])]
           go == CHOOSE g : IsGo(g)
<1>0. N \in Nat   BY LenProperties
<1>1. step \in Steps(N, X)
  <2>1. \A k \in 1 .. N, s \in X : CardStep(s, path[k]) \in X   BY SeesFiles DEF CardStep
  <2> HIDE DEF N, X
  <2> QED BY <2>1 DEF Steps
<1>2. PICK f \in [0 .. N -> X] : Iterates(f, {at}, step, N)
  <2>1. {at} \in X   OBVIOUS
  <2> HIDE DEF step, N, X
  <2> QED BY <1>0, <1>1, <2>1, Recursion
<1> HIDE DEF N, X
<1>3. IsGo(f)
  <2>1. f[0] = {at}   BY <1>2 DEF Iterates
  <2>2. ASSUME NEW k \in 1 .. N PROVE f[k] = CardStep(f[k - 1], path[k])
    <3>1. f[k] = step[<<k, f[k - 1]>>]
      <4> HIDE DEF step
      <4> QED BY <1>2 DEF Iterates
    <3>2. k - 1 \in 0 .. N   BY <1>0
    <3>3. <<k, f[k - 1]>> \in (1 .. N) \X X   BY <1>2, <3>2
    <3> QED BY <3>1, <3>3
  <2> HIDE DEF step
  <2>3. \A k \in 0 .. N : f[k] = IF k = 0 THEN {at} ELSE CardStep(f[k - 1], path[k])
    BY <1>0, <2>1, <2>2
  <2>4. f = [k \in 0 .. N |-> f[k]]   OBVIOUS
  <2> QED BY <2>3, <2>4
<1>4. IsGo(go)
  <2> HIDE DEF IsGo
  <2> QED BY <1>3
<1>5. CardWalks(at, path) = go   BY DEF CardWalks, CardStep, N
<1> HIDE DEF go
<1>6. /\ go[0] = {at}
      /\ \A k \in 1 .. N : go[k] = CardStep(go[k - 1], path[k])
  <2>1. go[0] = {at}   BY <1>0, <1>4
  <2>2. \A k \in 1 .. N : k \in 0 .. N /\ k # 0   BY <1>0
  <2> QED BY <1>4, <2>1, <2>2
<1> DEFINE P == {n \in 0 .. N : go[n] \in X}
<1>7. 0 .. N \subseteq P
  <2>1. 0 \in P   BY <1>0, <1>6 DEF X
  <2>2. ASSUME NEW n \in 0 .. N - 1, n \in P PROVE n + 1 \in P
    <3>1. n + 1 \in 1 .. N /\ n + 1 - 1 = n /\ n + 1 \in 0 .. N   BY <1>0
    <3>2. go[n + 1] = CardStep(go[n], path[n + 1]) /\ go[n] \in X   BY <1>6, <2>2, <3>1
    <3>3. go[n + 1] \in X   BY <3>2, SeesFiles DEF CardStep, X
    <3> QED BY <3>1, <3>3
  <2> HIDE DEF P
  <2> QED BY <1>0, <2>1, <2>2, UpTo
<1>8. go \in [0 .. N -> X]
  <2>1. go = [k \in 0 .. N |-> go[k]]   BY <1>4
  <2> QED BY <1>7, <2>1
<1> QED BY <1>5, <1>6, <1>8 DEF N, X

-----------------------------------------------------------------------------
(***************************************************************************)
(* The tracer on a path.                                                   *)
(***************************************************************************)
LEMMA StepsToPlace ==
    ASSUME NEW m \in Places, NEW fid, NEW ok
    PROVE  /\ StepTo(m, fid, ok) \in Places
           /\ fid # CurApp => StepTo(m, fid, ok).adf = m.adf
           /\ fid # CurApp /\ ok = FALSE => StepTo(m, fid, ok) = m
           /\ fid = CurApp /\ m.adf # NoApp =>
                StepTo(m, fid, ok).adf = m.adf /\ StepTo(m, fid, ok).file = m.adf
<1>1. CASE fid = CurApp
  <2>1. (IF m.adf = NoApp THEN USIM ELSE m.adf) \in File   BY FilesAre DEF Places
  <2> QED BY <1>1, <2>1 DEF StepTo, Places
<1>2. CASE fid # CurApp
  <2> DEFINE found == Named(get_selectables(m.file), fid)
             f == CHOOSE f \in found : TRUE
  <2>1. m.file \in File /\ Cwd(m.file) \in File /\ Parent[m.file] \in File /\ Parent[Parent[m.file]] \in File
    BY FilesAre DEF Cwd, Places
  <2>2. found \subseteq File
    BY <2>1, FilesAre DEF Named, get_selectables, Ancestors, Children
  <2>3. StepTo(m, fid, ok) = IF found # {} /\ ok THEN [m EXCEPT !.file = f] ELSE m
    BY <1>2 DEF StepTo
  <2> HIDE DEF found
  <2>4. found # {} => f \in File   BY <2>2
  <2> HIDE DEF f
  <2> QED BY <1>2, <2>3, <2>4 DEF Places
<1> QED BY <1>1, <1>2

\* The same of a command that succeeded and of one that was refused.
LEMMA StepsTo ==
    ASSUME NEW m \in Places, NEW fid
    PROVE  /\ StepTo(m, fid, TRUE) \in Places
           /\ fid # CurApp => StepTo(m, fid, TRUE).adf = m.adf /\ StepTo(m, fid, FALSE) = m
           /\ fid = CurApp /\ m.adf # NoApp =>
                StepTo(m, fid, TRUE).adf = m.adf /\ StepTo(m, fid, TRUE).file = m.adf
<1>1. \A ok : /\ StepTo(m, fid, ok) \in Places
              /\ fid # CurApp => StepTo(m, fid, ok).adf = m.adf
              /\ fid # CurApp /\ ok = FALSE => StepTo(m, fid, ok) = m
              /\ fid = CurApp /\ m.adf # NoApp =>
                   StepTo(m, fid, ok).adf = m.adf /\ StepTo(m, fid, ok).file = m.adf
  BY StepsToPlace
<1> DEFINE X(ok) == StepTo(m, fid, ok)
<1>2. \A ok : fid # CurApp /\ ok = FALSE => X(ok) = m   BY <1>1
<1> HIDE DEF X
<1>3. fid # CurApp => X(FALSE) = m   BY <1>2
<1> QED BY <1>1, <1>3 DEF X

\* The tracer finds a file that it can follow the card to.
LEMMA StepFollows ==
    ASSUME NEW m \in Places, NEW p \in Places, m.file = p.file, NEW fid, fid # CurApp,
           NEW f \in CardSees(p, fid), Known(p, fid)
    PROVE  StepTo(m, fid, TRUE).file = f
<1> DEFINE x == m.file
           d == Cwd(m.file)
           found == Named(get_selectables(m.file), fid)
<1>1. /\ f \in File /\ f \in Profile /\ Fid[f] = fid /\ (IsDF(f) => Parent[f] # Parent[d] \/ f = d)
      /\ \/ f \in {d, Parent[d], MF}
         \/ f \in Children(d, OnCard)
         \/ f \in Children(Parent[d], OnCard) /\ IsDF(f)
  <2>1. f \in File   BY SeesFiles
  <2> QED BY <2>1 DEF Known, CardSees, Named
<1>2. x \in File /\ d \in File   BY FilesAre DEF Cwd, Places
<1>3. f \in Ancestors[x] \cup Children(d, Profile)
  <2>1. Ancestors[x] = {x, Parent[x], Parent[Parent[x]], MF}   BY <1>2 DEF Ancestors
  <2>2. d \in Ancestors[x] /\ Parent[d] \in Ancestors[x]   BY <2>1 DEF Cwd
  <2>3. f \in Children(d, OnCard) => f \in Children(d, Profile)   BY <1>1 DEF Children
  <2>4. f \in Children(Parent[d], OnCard) /\ IsDF(f) => f = d   BY <1>1 DEF Children
  <2> HIDE DEF d, x
  <2> QED BY <1>1, <2>1, <2>2, <2>3, <2>4
<1>4. \A g \in found : g = f
  <2>1. \A g \in found : g \in Ancestors[x] \cup Children(d, File) /\ Fid[g] = fid
    BY FilesAre DEF Named, get_selectables, Children
  <2>2. f \in Ancestors[x] \cup Children(d, File)   BY <1>3, FilesAre DEF Children
  <2> HIDE DEF found
  <2> QED BY <1>1, <1>2, <2>1, <2>2, FidAssumption
<1>5. f \in found   BY <1>1, <1>3 DEF Named, get_selectables
<1>6. (CHOOSE g \in found : TRUE) = f
  <2> HIDE DEF found
  <2> QED BY <1>4, <1>5
<1>7. StepTo(m, fid, TRUE) = [m EXCEPT !.file = CHOOSE g \in found : TRUE]
  BY <1>5 DEF StepTo
<1> QED BY <1>6, <1>7 DEF Places

\* The mirror's places along a path.
Mirrors(g, m, path, ok) ==
    /\ g \in [0 .. Len(path) -> Places] /\ g[0] = m
    /\ \A k \in 1 .. Len(path) : g[k] = StepTo(g[k - 1], path[k], ok)
    /\ Walk(m, path, ok) = g[Len(path)]

\* Walk as a function of the elements done.
LEMMA WalkMirrors ==
    ASSUME NEW m \in Places, NEW S, NEW path \in Seq(S), NEW ok
    PROVE  \E g : Mirrors(g, m, path, ok)
<1> DEFINE N == Len(path)
           X == Places
           IsGo(g) == g = [i \in 0 .. N |-> IF i = 0 THEN m ELSE StepTo(g[i - 1], path[i], ok)]
           step == [ks \in (1 .. N) \X X |-> StepTo(ks[2], path[ks[1]], ok)]
           go == CHOOSE g : IsGo(g)
<1>0. N \in Nat   BY LenProperties
<1>1. step \in Steps(N, X)
  <2>1. \A k \in 1 .. N, s \in X : StepTo(s, path[k], ok) \in X   BY StepsToPlace
  <2> HIDE DEF N, X
  <2> QED BY <2>1 DEF Steps
<1>2. PICK f \in [0 .. N -> X] : Iterates(f, m, step, N)
  <2>1. m \in X   OBVIOUS
  <2> HIDE DEF step, N, X
  <2> QED BY <1>0, <1>1, <2>1, Recursion
<1> HIDE DEF N, X
<1>3. IsGo(f)
  <2>1. f[0] = m   BY <1>2 DEF Iterates
  <2>2. ASSUME NEW k \in 1 .. N PROVE f[k] = StepTo(f[k - 1], path[k], ok)
    <3>1. f[k] = step[<<k, f[k - 1]>>]
      <4> HIDE DEF step
      <4> QED BY <1>2 DEF Iterates
    <3>2. k - 1 \in 0 .. N   BY <1>0
    <3>3. <<k, f[k - 1]>> \in (1 .. N) \X X   BY <1>2, <3>2
    <3> QED BY <3>1, <3>3
  <2> HIDE DEF step
  <2>3. \A k \in 0 .. N : f[k] = IF k = 0 THEN m ELSE StepTo(f[k - 1], path[k], ok)
    BY <1>0, <2>1, <2>2
  <2>4. f = [k \in 0 .. N |-> f[k]]   OBVIOUS
  <2> QED BY <2>3, <2>4
<1>4. IsGo(go)
  <2> HIDE DEF IsGo
  <2> QED BY <1>3
<1>5. Walk(m, path, ok) = go[N]   BY DEF Walk, N
<1> HIDE DEF go
<1>6. go[0] = m /\ \A k \in 1 .. N : go[k] = StepTo(go[k - 1], path[k], ok)
  <2>1. go[0] = m   BY <1>0, <1>4
  <2>2. \A k \in 1 .. N : k \in 0 .. N /\ k # 0   BY <1>0
  <2> QED BY <1>4, <2>1, <2>2
<1> DEFINE P == {n \in 0 .. N : go[n] \in X}
<1>7. 0 .. N \subseteq P
  <2>1. 0 \in P   BY <1>0, <1>6 DEF X
  <2>2. ASSUME NEW n \in 0 .. N - 1, n \in P PROVE n + 1 \in P
    <3>1. n + 1 \in 1 .. N /\ n + 1 - 1 = n /\ n + 1 \in 0 .. N   BY <1>0
    <3>2. go[n + 1] = StepTo(go[n], path[n + 1], ok) /\ go[n] \in X   BY <1>6, <2>2, <3>1
    <3>3. go[n + 1] \in X   BY <3>2, StepsToPlace DEF X
    <3> QED BY <3>1, <3>3
  <2> HIDE DEF P
  <2> QED BY <1>0, <2>1, <2>2, UpTo
<1>8. go \in [0 .. N -> X]
  <2>1. go = [k \in 0 .. N |-> go[k]]   BY <1>4
  <2> QED BY <1>7, <2>1
<1>9. Mirrors(go, m, path, ok)   BY <1>5, <1>6, <1>8 DEF N, X, Mirrors
<1> QED BY <1>9

\* A refused path that does not go through 7fff leaves the mirror.
LEMMA RefusedPath ==
    ASSUME NEW m \in Places, NEW S, NEW path \in Seq(S), CurApp \notin Range(path)
    PROVE  Walk(m, path, FALSE) = m
<1>0. Len(path) \in Nat /\ DOMAIN path = 1 .. Len(path)   BY LenProperties
<1>1. PICK g : Mirrors(g, m, path, FALSE)   BY WalkMirrors
<1> DEFINE P == {n \in 0 .. Len(path) : g[n] = m}
<1>2. 0 \in P   BY <1>0, <1>1 DEF Mirrors
<1>3. ASSUME NEW n \in 0 .. Len(path) - 1, n \in P PROVE n + 1 \in P
  <2>1. n + 1 \in 1 .. Len(path) /\ n + 1 - 1 = n /\ n + 1 \in 0 .. Len(path)   BY <1>0
  <2>2. g[n + 1] = StepTo(m, path[n + 1], FALSE)   BY <1>1, <1>3, <2>1 DEF Mirrors
  <2>3. path[n + 1] # CurApp   BY <1>0, <2>1 DEF Range
  <2> QED BY <2>1, <2>2, <2>3, StepsTo
<1>4. 0 .. Len(path) \subseteq P
  <2> HIDE DEF P
  <2> QED BY <1>0, <1>2, <1>3, UpTo
<1> QED BY <1>0, <1>1, <1>4 DEF Mirrors

\* The card followed a path from at to p, and so did the mirror: its application
\* is the card's if it was, and its file if it was or the path goes through 7fff,
\* unless the path has files that the tracer cannot follow to.
PathFollowed(at, m, path, p) ==
    LET w == Walk(m, path, TRUE) IN
    /\ p \in Places /\ p.adf = at.adf /\ w \in Places
    /\ m.adf = at.adf => w.adf = at.adf
    /\ CurApp \notin Range(path) => w.adf = m.adf
    /\ KnownPath(at, path) =>
         /\ m.file = at.file /\ CurApp \notin Range(path) => w.file = p.file
         /\ m.adf = at.adf /\ (m.file = at.file \/ CurApp \in Range(path)) => w.file = p.file

\* The mirror follows the card along a path.
LEMMA PathFollows ==
    ASSUME NEW at \in Places, NEW m \in Places, NEW S, NEW path \in Seq(S),
           NEW p \in CardWalk(at, path)
    PROVE  PathFollowed(at, m, path, p)
<1> DEFINE N == Len(path)
           W == CardWalks(at, path)
<1>0. N \in Nat /\ DOMAIN path = 1 .. N   BY LenProperties
<1>1. /\ W \in [0 .. N -> SUBSET Places] /\ W[0] = {at}
      /\ \A k \in 1 .. N : W[k] = CardStep(W[k - 1], path[k])
      /\ p \in W[N]
  BY CardWalksAre DEF CardWalk
<1>2. PICK g : Mirrors(g, m, path, TRUE)   BY WalkMirrors
<1>3. /\ g \in [0 .. N -> Places] /\ g[0] = m /\ Walk(m, path, TRUE) = g[N]
      /\ \A k \in 1 .. N : g[k] = StepTo(g[k - 1], path[k], TRUE)
  BY <1>2 DEF Mirrors
<1> DEFINE ToApp(k) == \E j \in 1 .. k : path[j] = CurApp
<1> HIDE DEF N, W
<1>4. ASSUME NEW k \in 1 .. N, NEW q \in W[k]
      PROVE  \E r \in W[k - 1] : \E f \in CardSees(r, path[k]) :
               q.file = f /\ q.adf = r.adf /\ q \in Places /\ r \in Places
                 /\ (path[k] = CurApp => f = r.adf /\ r.adf # NoApp)
  <2>1. W[k] = CardStep(W[k - 1], path[k])   BY <1>1
  <2>2. k - 1 \in 0 .. N   BY <1>0
  <2>3. PICK r \in W[k - 1] : \E f \in CardSees(r, path[k]) : q = [r EXCEPT !.file = f]
    BY <2>1 DEF CardStep
  <2>4. r \in Places   BY <1>1, <2>2
  <2> QED BY <2>3, <2>4, SeesFiles
<1> DEFINE P == {n \in 0 .. N :
                   /\ \A q \in W[n] : q \in Places /\ q.adf = at.adf /\ (ToApp(n) => at.adf # NoApp)
                   /\ W[n] # {} /\ m.adf = at.adf => g[n].adf = at.adf
                   /\ ~ToApp(n) => g[n].adf = m.adf
                   /\ KnownPath(at, path) =>
                        /\ m.file = at.file /\ ~ToApp(n) => \A q \in W[n] : g[n].file = q.file
                        /\ m.adf = at.adf /\ (m.file = at.file \/ ToApp(n)) => \A q \in W[n] : g[n].file = q.file}
<1>5. 0 \in P
  <2>1. ~ToApp(0)   OBVIOUS
  <2> QED BY <1>0, <1>1, <1>3, <2>1
<1>6. ASSUME NEW n \in 0 .. N - 1, n \in P PROVE n + 1 \in P
  <2>1. n + 1 \in 1 .. N /\ n + 1 - 1 = n /\ n + 1 \in 0 .. N /\ n \in 0 .. N   BY <1>0
  <2>2. ToApp(n + 1) <=> ToApp(n) \/ path[n + 1] = CurApp
    <3>1. \A j : j \in 1 .. n + 1 <=> j \in 1 .. n \/ j = n + 1   BY <2>1
    <3> QED BY <3>1
  <2>3. g[n + 1] = StepTo(g[n], path[n + 1], TRUE) /\ g[n] \in Places
    <3> DEFINE k == n + 1
    <3>1. k \in 1 .. N /\ k - 1 = n   BY <2>1
    <3> HIDE DEF k
    <3>2. g[k] = StepTo(g[k - 1], path[k], TRUE)   BY <1>3, <3>1
    <3>3. g[n] \in Places   BY <1>3, <2>1
    <3> QED BY <3>1, <3>2, <3>3 DEF k
  <2>4. ASSUME NEW q \in W[n + 1]
        PROVE  \E r \in W[n] : \E f \in CardSees(r, path[n + 1]) :
               q.file = f /\ q.adf = r.adf /\ q \in Places /\ r \in Places
                 /\ (path[n + 1] = CurApp => f = r.adf /\ r.adf # NoApp)
    BY <1>4, <2>1
  <2>5. KnownPath(at, path) =>
          path[n + 1] = CurApp \/ \A r \in W[n] : Known(r, path[n + 1])
    BY <2>1 DEF KnownPath, W, N
  <2> DEFINE fid == path[n + 1]
  <2>6. /\ \A q \in W[n] : q \in Places /\ q.adf = at.adf /\ (ToApp(n) => at.adf # NoApp)
        /\ W[n] # {} /\ m.adf = at.adf => g[n].adf = at.adf
        /\ ~ToApp(n) => g[n].adf = m.adf
        /\ KnownPath(at, path) =>
             /\ m.file = at.file /\ ~ToApp(n) => \A q \in W[n] : g[n].file = q.file
             /\ m.adf = at.adf /\ (m.file = at.file \/ ToApp(n)) => \A q \in W[n] : g[n].file = q.file
    BY <1>6
  <2> HIDE DEF P, ToApp
  <2>7. ASSUME NEW q \in W[n + 1]
        PROVE  q \in Places /\ q.adf = at.adf /\ (ToApp(n + 1) => at.adf # NoApp)
    BY <2>2, <2>4, <2>6
  <2>8. ASSUME W[n + 1] # {}, m.adf = at.adf PROVE g[n + 1].adf = at.adf
    <3>1. PICK q \in W[n + 1] : TRUE   BY <2>8
    <3>2. W[n] # {} /\ g[n].adf = at.adf   BY <2>4, <2>6, <2>8, <3>1
    <3>3. fid = CurApp => at.adf # NoApp   BY <2>2, <2>7, <3>1
    <3>4. StepTo(g[n], fid, TRUE).adf = at.adf   BY <2>3, <3>2, <3>3, StepsTo
    <3> QED BY <2>3, <3>4
  <2>9. ASSUME ~ToApp(n + 1) PROVE g[n + 1].adf = m.adf
    <3>1. g[n].adf = m.adf /\ fid # CurApp   BY <2>2, <2>6, <2>9
    <3>2. StepTo(g[n], fid, TRUE).adf = m.adf   BY <2>3, <3>1, StepsTo
    <3> QED BY <2>3, <3>2
  <2>10. ASSUME KnownPath(at, path), m.file = at.file, ~ToApp(n + 1), NEW q \in W[n + 1]
         PROVE  g[n + 1].file = q.file
    <3>1. PICK r \in W[n] : \E f \in CardSees(r, fid) : q.file = f /\ r \in Places   BY <2>4
    <3>2. PICK f \in CardSees(r, fid) : q.file = f /\ r \in Places   BY <3>1
    <3>3. fid # CurApp /\ Known(r, fid)   BY <2>2, <2>5, <2>10
    <3>4. g[n].file = r.file   BY <2>2, <2>6, <2>10
    <3> QED BY <2>3, <3>2, <3>3, <3>4, StepFollows
  <2>11. ASSUME KnownPath(at, path), m.adf = at.adf, m.file = at.file \/ ToApp(n + 1), NEW q \in W[n + 1]
         PROVE  g[n + 1].file = q.file
    <3>1. PICK r \in W[n] : \E f \in CardSees(r, fid) :
            q.file = f /\ r \in Places /\ (fid = CurApp => f = r.adf /\ r.adf # NoApp)
      BY <2>4
    <3>2. PICK f \in CardSees(r, fid) :
            q.file = f /\ r \in Places /\ (fid = CurApp => f = r.adf /\ r.adf # NoApp)
      BY <3>1
    <3>3. CASE fid = CurApp
      <4>1. g[n].adf = at.adf /\ r.adf = at.adf /\ at.adf # NoApp   BY <2>6, <2>11, <3>2, <3>3
      <4>2. StepTo(g[n], fid, TRUE).file = g[n].adf   BY <2>3, <3>3, <4>1, StepsTo
      <4> QED BY <2>3, <3>2, <3>3, <4>1, <4>2
    <3>4. CASE fid # CurApp
      <4>1. g[n].file = r.file   BY <2>2, <2>6, <2>11, <3>4
      <4>2. Known(r, fid)   BY <2>5, <2>11, <3>4
      <4> QED BY <2>3, <3>2, <3>4, <4>1, <4>2, StepFollows
    <3> QED BY <3>3, <3>4
  <2> QED BY <2>1, <2>7, <2>8, <2>9, <2>10, <2>11 DEF P
<1>7. N \in P
  <2>1. 0 .. N \subseteq P
    <3> HIDE DEF P
    <3> QED BY <1>0, <1>5, <1>6, UpTo
  <2> QED BY <1>0, <2>1
<1>8. ToApp(N) <=> CurApp \in Range(path)   BY <1>0 DEF Range
<1> HIDE DEF ToApp
<1> QED BY <1>0, <1>1, <1>3, <1>7, <1>8 DEF PathFollowed

-----------------------------------------------------------------------------
(***************************************************************************)
(* Selections.  What is known of a place is what the mirror agrees on.     *)
(***************************************************************************)
Agrees(known, mirror, place) ==
    /\ "place" \in known => mirror.file = place.file
    /\ "adf" \in known => mirror.adf = place.adf

\* The arguments of the commands that select by FIDs.
HasArg(cmd) ==
    /\ cmd.kind \in {"FID", "FROM_MF", "FROM_DF"} => cmd.arg \in Seq(Range(cmd.arg))
    /\ cmd.kind = "FID" => Len(cmd.arg) = 1

\* The answers of a card that carried a SELECT out; 6283 is a success to the card alone.
Carried == {"ok", "warned"}

\* The place of the mirror after a SELECT, or a READ by SFI.
MirrorOf(m, apdu) == IF apdu.kind = "SFI" THEN m ELSE UiccSelect(m, apdu)

MirrorOn(m, apdu, ok) ==
    CASE apdu.kind = "FROM_MF" -> Walk([m EXCEPT !.file = MF], apdu.arg, ok)
      [] apdu.kind = "FROM_DF" -> Walk(m, apdu.arg, ok)
      [] apdu.kind = "FID" -> IF apdu.arg[1] = CurApp THEN m ELSE StepTo(m, apdu.arg[1], ok)
      [] apdu.kind = "AID" -> IF apdu.arg[1] \in Profile THEN [file |-> apdu.arg[1], adf |-> apdu.arg[1]] ELSE m

\* The mirror after a SELECT, by whether the card carried it out.
LEMMA MirrorIs ==
    ASSUME NEW m, NEW apdu, apdu.kind \in Selects \ {"SFI"}
    PROVE  /\ apdu.sw = "ok" => MirrorOf(m, apdu) = MirrorOn(m, apdu, TRUE)
           /\ apdu.sw # "ok" => MirrorOf(m, apdu) = MirrorOn(m, apdu, FALSE)
<1>1. MirrorOf(m, apdu) = MirrorOn(m, apdu, apdu.sw = "ok")
  BY DEF MirrorOf, MirrorOn, UiccSelect
<1> DEFINE X(ok) == MirrorOn(m, apdu, ok)
<1>2. MirrorOf(m, apdu) = X(apdu.sw = "ok")   BY <1>1
<1> HIDE DEF X
<1>3. apdu.sw = "ok" => X(apdu.sw = "ok") = X(TRUE)   OBVIOUS
<1>4. apdu.sw # "ok" => X(apdu.sw = "ok") = X(FALSE)   OBVIOUS
<1> QED BY <1>2, <1>3, <1>4 DEF X

\* A SELECT by FID is a path of one element.
LEMMA OneStep ==
    ASSUME NEW at \in Places, NEW arg, arg \in Seq(Range(arg)), Len(arg) = 1, NEW p \in CardWalk(at, arg)
    PROVE  /\ p \in Places /\ p.adf = at.adf
           /\ \E f \in CardSees(at, arg[1]) : p.file = f
<1>1. /\ CardWalks(at, arg)[0] = {at}
      /\ \A k \in 1 .. Len(arg) : CardWalks(at, arg)[k] = CardStep(CardWalks(at, arg)[k - 1], arg[k])
  <2>1. PICK S : S = Range(arg)   OBVIOUS
  <2>2. arg \in Seq(S)   BY <2>1
  <2> QED BY <2>2, CardWalksAre
<1>2. p \in CardStep({at}, arg[1])
  <2>1. CardWalk(at, arg) = CardWalks(at, arg)[1]   BY DEF CardWalk
  <2>2. 1 \in 1 .. Len(arg) /\ 1 - 1 = 0   OBVIOUS
  <2>3. CardWalks(at, arg)[1] = CardStep(CardWalks(at, arg)[0], arg[1])   BY <1>1, <2>2
  <2> QED BY <1>1, <2>1, <2>3
<1>3. PICK f \in CardSees(at, arg[1]) : p = [at EXCEPT !.file = f]   BY <1>2 DEF CardStep
<1> QED BY <1>3, SeesFiles

\* Only the MF has its FID.
LEMMA SeesMF ==
    ASSUME NEW at \in Places, NEW f \in CardSees(at, Fid[MF])
    PROVE  f = MF
<1>1. Fid[MF] # CurApp /\ f \in File   BY FidAssumption, FilesAre, SeesFiles
<1>2. Fid[f] = Fid[MF]   BY <1>1 DEF CardSees, Named
<1> QED BY <1>1, <1>2, FidAssumption

\* The tracer finds the MF from everywhere.
LEMMA FindsMF ==
    ASSUME NEW m \in Places
    PROVE  StepTo(m, Fid[MF], TRUE).file = MF
<1> DEFINE found == Named(get_selectables(m.file), Fid[MF])
<1>1. m.file \in File /\ Cwd(m.file) \in File   BY FilesAre DEF Cwd, Places
<1>2. get_selectables(m.file) \subseteq File
  BY <1>1, FilesAre DEF get_selectables, Ancestors, Children
<1>3. MF \in found   BY <1>1 DEF Named, get_selectables, Ancestors
<1>4. \A g \in found : g = MF   BY <1>2, FidAssumption DEF Named
<1>5. Fid[MF] # CurApp   BY FidAssumption, FilesAre
<1>6. StepTo(m, Fid[MF], TRUE) = [m EXCEPT !.file = CHOOSE g \in found : TRUE]
  BY <1>3, <1>5 DEF StepTo
<1>7. (CHOOSE g \in found : TRUE) = MF
  <2> HIDE DEF found
  <2> QED BY <1>3, <1>4
<1> QED BY <1>6, <1>7 DEF Places

\* Where the card has selected, what Followed knows of the place is right.
LEMMA FidFollows ==
    ASSUME NEW at \in Places, NEW m \in Places, NEW known \in SUBSET Both, Agrees(known, m, at),
           NEW apdu, apdu.kind = "FID", apdu.sw = "ok", HasArg(apdu),
           NEW p \in CardSelects(at, apdu)
    PROVE  p \in Places /\ MirrorOf(m, apdu) \in Places
           /\ Agrees(Followed(apdu, at, known), MirrorOf(m, apdu), p)
<1> DEFINE fid == apdu.arg[1]
           m2 == MirrorOf(m, apdu)
<1>1. p \in CardWalk(at, apdu.arg)   BY DEF CardSelects
<1>2. apdu.arg \in Seq(Range(apdu.arg)) /\ Len(apdu.arg) = 1   BY DEF HasArg
<1>3. p \in Places /\ p.adf = at.adf   BY <1>1, <1>2, OneStep
<1>4. PICK f \in CardSees(at, fid) : p.file = f   BY <1>1, <1>2, OneStep
<1>5. m2 = IF fid = CurApp THEN m ELSE StepTo(m, fid, TRUE)
  BY MirrorIs DEF MirrorOn, Selects
<1>6. Followed(apdu, at, known) = IF fid = Fid[MF] THEN known \cup {"place"}
                                  ELSE IF Known(at, fid) THEN known ELSE known \ {"place"}
  BY DEF Followed
<1> HIDE DEF m2
<1>7. m2 \in Places /\ m2.adf = m.adf   BY <1>5, StepsTo
<1>8. CASE fid = Fid[MF]
  <2>1. f = MF   BY <1>8, SeesMF
  <2>2. fid # CurApp   BY <1>8, FidAssumption, FilesAre
  <2>3. m2.file = MF   BY <1>5, <1>8, <2>2, FindsMF
  <2> QED BY <1>3, <1>4, <1>6, <1>7, <1>8, <2>1, <2>3 DEF Agrees, m2
<1>9. CASE fid # Fid[MF] /\ Known(at, fid)
  <2>1. fid # CurApp   BY <1>9 DEF Known
  <2>2. ASSUME m.file = at.file PROVE m2.file = f
    BY <1>5, <1>9, <2>1, <2>2, StepFollows
  <2> QED BY <1>3, <1>4, <1>6, <1>7, <1>9, <2>2 DEF Agrees, m2
<1>10. CASE fid # Fid[MF] /\ ~Known(at, fid)
  BY <1>3, <1>6, <1>7, <1>10 DEF Agrees, m2
<1> QED BY <1>8, <1>9, <1>10

\* The same of a path from the MF or from the current DF.
LEMMA PathSelected ==
    ASSUME NEW at \in Places, NEW m \in Places, NEW known \in SUBSET Both, Agrees(known, m, at),
           NEW apdu, apdu.kind \in {"FROM_MF", "FROM_DF"}, apdu.sw = "ok", HasArg(apdu),
           NEW p \in CardSelects(at, apdu)
    PROVE  p \in Places /\ MirrorOf(m, apdu) \in Places
           /\ Agrees(Followed(apdu, at, known), MirrorOf(m, apdu), p)
<1> DEFINE path == apdu.arg
           fromMF == apdu.kind = "FROM_MF"
           a == IF fromMF THEN [at EXCEPT !.file = MF] ELSE at
           n == IF fromMF THEN [m EXCEPT !.file = MF] ELSE m
           m2 == MirrorOf(m, apdu)
<1>1. p \in CardWalk(a, path)   BY DEF CardSelects
<1>2. path \in Seq(Range(path))   BY DEF HasArg
<1>3. m2 = Walk(n, path, TRUE)   BY MirrorIs DEF MirrorOn, Selects
<1>4. a \in Places /\ n \in Places /\ a.adf = at.adf /\ n.adf = m.adf
      /\ (fromMF => a.file = MF /\ n.file = MF) /\ (~fromMF => a.file = at.file /\ n.file = m.file)
  BY FilesAre DEF Places
<1>5. Followed(apdu, at, known) = FollowedPath(apdu, a, known)   BY DEF Followed
<1> HIDE DEF a, n, m2
<1>6. /\ p \in Places /\ p.adf = a.adf /\ m2 \in Places
      /\ n.adf = a.adf => m2.adf = a.adf
      /\ KnownPath(a, path) =>
           /\ n.file = a.file /\ CurApp \notin Range(path) => m2.file = p.file
           /\ n.adf = a.adf /\ (n.file = a.file \/ CurApp \in Range(path)) => m2.file = p.file
  <2>1. PathFollowed(a, n, path, p)
    <3>1. a \in Places /\ n \in Places   BY <1>4
    <3> DEFINE S == Range(path)
    <3>2. path \in Seq(S)   BY <1>2
    <3> HIDE DEF S, path
    <3> QED BY <1>1, <3>1, <3>2, PathFollows
  <2> QED BY <1>3, <2>1 DEF PathFollowed
<1>7. Agrees(FollowedPath(apdu, a, known), m2, p)
  <2>1. "adf" \in FollowedPath(apdu, a, known) => "adf" \in known   BY DEF FollowedPath
  <2>2. "place" \in FollowedPath(apdu, a, known) =>
          /\ KnownPath(a, path) /\ (CurApp \in Range(path) => "adf" \in known)
          /\ fromMF \/ CurApp \in Range(path) \/ "place" \in known
    BY DEF FollowedPath
  <2> QED BY <1>4, <1>6, <2>1, <2>2 DEF Agrees
<1> QED BY <1>5, <1>6, <1>7 DEF m2

\* The same of every SELECT, and of a READ by SFI.
LEMMA SelectFollows ==
    ASSUME NEW at \in Places, NEW m \in Places, NEW known \in SUBSET Both, Agrees(known, m, at),
           NEW apdu, apdu.kind \in Selects, apdu.sw = "ok", HasArg(apdu),
           NEW p \in CardSelects(at, apdu)
    PROVE  p \in Places /\ MirrorOf(m, apdu) \in Places
           /\ Agrees(Followed(apdu, at, known), MirrorOf(m, apdu), p)
<1>1. CASE apdu.kind = "FID"   BY <1>1, FidFollows
<1>2. CASE apdu.kind \in {"FROM_MF", "FROM_DF"}   BY <1>2, PathSelected
<1>3. CASE apdu.kind = "AID"
  <2> DEFINE a == apdu.arg[1]
  <2>1. a \in OnCard /\ p = [file |-> a, adf |-> a]   BY <1>3 DEF CardSelects
  <2>2. a \in File   BY <2>1, FilesAre
  <2>3. MirrorOf(m, apdu) = IF a \in Profile THEN [file |-> a, adf |-> a] ELSE m
    BY <1>3 DEF MirrorOf, UiccSelect
  <2>4. Followed(apdu, at, known) = IF a \in Profile THEN Both ELSE {}   BY <1>3 DEF Followed
  <2> HIDE DEF a
  <2> QED BY <2>1, <2>2, <2>3, <2>4 DEF Agrees, Places, Both
<1>4. CASE apdu.kind = "SFI"
  <2>1. PICK f \in EF : p = [at EXCEPT !.file = f]   BY <1>4 DEF CardSelects, Named, Children
  <2>2. p \in Places /\ p.adf = at.adf   BY <2>1, FilesAre DEF Places
  <2>3. Followed(apdu, at, known) = known \ {"place"}   BY <1>4 DEF Followed
  <2>4. MirrorOf(m, apdu) = m   BY <1>4 DEF MirrorOf
  <2> QED BY <2>2, <2>3, <2>4 DEF Agrees
<1> QED BY <1>1, <1>2, <1>3, <1>4 DEF Selects

\* Where the tracer takes a command for refused, the mirror moves only by AID and
\* along a path that goes through 7fff or begins at the MF.
LEMMA RefusedMirror ==
    ASSUME NEW m \in Places, NEW apdu, apdu.kind \in Selects, apdu.sw # "ok", HasArg(apdu)
    PROVE  /\ MirrorOf(m, apdu) \in Places
           /\ apdu.kind = "AID" =>
                MirrorOf(m, apdu) = IF apdu.arg[1] \in Profile THEN [file |-> apdu.arg[1], adf |-> apdu.arg[1]] ELSE m
           /\ apdu.kind \in {"SFI", "FID"} => MirrorOf(m, apdu) = m
           /\ apdu.kind \in {"FROM_MF", "FROM_DF"} /\ CurApp \notin Range(apdu.arg) =>
                MirrorOf(m, apdu).adf = m.adf /\ (apdu.kind = "FROM_DF" => MirrorOf(m, apdu) = m)
<1> DEFINE m2 == MirrorOf(m, apdu)
<1>1. CASE apdu.kind = "SFI"   BY <1>1 DEF MirrorOf
<1>2. CASE apdu.kind = "FID"
  <2>1. m2 = IF apdu.arg[1] = CurApp THEN m ELSE StepTo(m, apdu.arg[1], FALSE)
    BY <1>2, MirrorIs DEF MirrorOn, Selects
  <2>2. m2 = m   BY <2>1, StepsTo
  <2> QED BY <1>2, <2>2
<1>3. CASE apdu.kind = "AID"
  <2> DEFINE a == apdu.arg[1]
  <2>1. m2 = IF a \in Profile THEN [file |-> a, adf |-> a] ELSE m
    BY <1>3 DEF MirrorOf, UiccSelect
  <2> HIDE DEF a
  <2> QED BY <1>3, <2>1, FilesAre DEF Places, a
<1>4. CASE apdu.kind \in {"FROM_MF", "FROM_DF"}
  <2> DEFINE path == apdu.arg
             n == IF apdu.kind = "FROM_MF" THEN [m EXCEPT !.file = MF] ELSE m
  <2>1. m2 = Walk(n, path, FALSE)   BY <1>4, MirrorIs DEF MirrorOn, Selects
  <2>2. n \in Places /\ n.adf = m.adf /\ (apdu.kind # "FROM_MF" => n = m)   BY FilesAre DEF Places
  <2>3. path \in Seq(Range(path))   BY <1>4 DEF HasArg
  <2> HIDE DEF n
  <2>4. m2 \in Places
    <3>1. PICK g : Mirrors(g, n, path, FALSE)   BY <2>2, <2>3, WalkMirrors
    <3>2. Len(path) \in Nat   BY <2>3, LenProperties
    <3>3. Len(path) \in 0 .. Len(path)   BY <3>2
    <3> QED BY <2>1, <3>1, <3>3 DEF Mirrors
  <2>5. CurApp \notin Range(path) => m2 = n   BY <2>1, <2>2, <2>3, RefusedPath
  <2> QED BY <1>4, <2>2, <2>4, <2>5
<1> QED BY <1>1, <1>2, <1>3, <1>4 DEF Selects

\* Where the card has refused, it is where it was.
LEMMA RefusalFollows ==
    ASSUME NEW at \in Places, NEW m \in Places, NEW known \in SUBSET Both, Agrees(known, m, at),
           NEW apdu, apdu.kind \in Selects, apdu.sw \notin Carried, HasArg(apdu)
    PROVE  Agrees(Followed(apdu, at, known), MirrorOf(m, apdu), at)
<1>0. apdu.sw # "ok" /\ apdu.sw # "warned"   BY DEF Carried
<1>1. CASE apdu.kind \in {"SFI", "FID"}
  <2>1. Followed(apdu, at, known) = known   BY <1>0, <1>1 DEF Followed
  <2> QED BY <1>0, <1>1, <2>1, RefusedMirror
<1>2. CASE apdu.kind = "AID"
  <2> DEFINE a == apdu.arg[1]
  <2>1. Followed(apdu, at, known) = IF a \in Profile THEN {} ELSE known   BY <1>0, <1>2 DEF Followed
  <2>2. a \notin Profile => MirrorOf(m, apdu) = m   BY <1>0, <1>2, RefusedMirror
  <2> HIDE DEF a
  <2> QED BY <2>1, <2>2 DEF Agrees
<1>3. CASE apdu.kind \in {"FROM_MF", "FROM_DF"}
  <2>1. Followed(apdu, at, known) = IF CurApp \in Range(apdu.arg) THEN {}
                                    ELSE IF apdu.kind = "FROM_MF" THEN known \ {"place"} ELSE known
    BY <1>0, <1>3 DEF Followed
  <2>2. CurApp \notin Range(apdu.arg) =>
          MirrorOf(m, apdu).adf = m.adf /\ (apdu.kind = "FROM_DF" => MirrorOf(m, apdu) = m)
    BY <1>0, <1>3, RefusedMirror
  <2> QED BY <1>3, <2>1, <2>2 DEF Agrees
<1> QED BY <1>1, <1>2, <1>3 DEF Selects

\* A SELECT by FIDs leaves the card's application.
LEMMA KeepsApp ==
    ASSUME NEW at \in Places, NEW apdu, apdu.kind \in {"FID", "FROM_MF", "FROM_DF", "SFI"}, HasArg(apdu),
           NEW p \in CardSelects(at, apdu)
    PROVE  p.adf = at.adf
<1>1. CASE apdu.kind = "SFI"
  <2>1. PICK f \in EF : p = [at EXCEPT !.file = f]   BY <1>1 DEF CardSelects, Named, Children
  <2> QED BY <2>1, FilesAre DEF Places
<1>2. CASE apdu.kind = "FID"
  <2>1. p \in CardWalk(at, apdu.arg)   BY <1>2 DEF CardSelects
  <2>2. apdu.arg \in Seq(Range(apdu.arg)) /\ Len(apdu.arg) = 1   BY <1>2 DEF HasArg
  <2> QED BY <2>1, <2>2, OneStep
<1>3. CASE apdu.kind \in {"FROM_MF", "FROM_DF"}
  <2> DEFINE a == IF apdu.kind = "FROM_MF" THEN [at EXCEPT !.file = MF] ELSE at
             path == apdu.arg
             S == Range(path)
  <2>1. p \in CardWalk(a, path)   BY <1>3 DEF CardSelects
  <2>2. path \in Seq(S)   BY <1>3 DEF HasArg
  <2>3. a \in Places /\ a.adf = at.adf   BY FilesAre DEF Places
  <2> HIDE DEF a, path, S
  <2>4. PathFollowed(a, a, path, p)   BY <2>1, <2>2, <2>3, PathFollows
  <2> QED BY <2>3, <2>4 DEF PathFollowed
<1> QED BY <1>1, <1>2, <1>3

\* Where the card has selected a deactivated file, the tracer takes it for refused.
LEMMA WarningFollows ==
    ASSUME NEW at \in Places, NEW m \in Places, NEW known \in SUBSET Both, Agrees(known, m, at),
           NEW apdu, apdu.kind \in Selects, apdu.sw = "warned", HasArg(apdu),
           NEW p \in CardSelects(at, apdu)
    PROVE  Agrees(Followed(apdu, at, known), MirrorOf(m, apdu), p)
<1>1. CASE apdu.kind = "AID"
  <2> DEFINE a == apdu.arg[1]
  <2>1. Followed(apdu, at, known) = IF a \in Profile THEN Both ELSE {}   BY <1>1 DEF Followed
  <2>2. a \in Profile => MirrorOf(m, apdu) = [file |-> a, adf |-> a]   BY <1>1, RefusedMirror
  <2>3. p = [file |-> a, adf |-> a]   BY <1>1 DEF CardSelects
  <2> HIDE DEF a
  <2> QED BY <2>1, <2>2, <2>3 DEF Agrees
<1>2. CASE apdu.kind # "AID"
  <2>1. Followed(apdu, at, known) = IF CurApp \in Range(apdu.arg) THEN {} ELSE known \ {"place"}
    BY <1>2 DEF Followed
  <2>2. CurApp \notin Range(apdu.arg) => MirrorOf(m, apdu).adf = m.adf
    BY <1>2, RefusedMirror DEF Selects
  <2>3. p.adf = at.adf   BY <1>2, KeepsApp DEF Selects
  <2> QED BY <2>1, <2>2, <2>3 DEF Agrees
<1> QED BY <1>1, <1>2

\* What is known is about the file and the application.
LEMMA FollowedIs ==
    ASSUME NEW apdu, apdu.kind \in Selects, NEW at, NEW known \in SUBSET Both
    PROVE  Followed(apdu, at, known) \in SUBSET Both
BY DEF Followed, FollowedPath, Both, Selects

-----------------------------------------------------------------------------
(***************************************************************************)
(* What a command does to the selected files.                              *)
(***************************************************************************)
\* The commands of the phone have the arguments their kinds need.
LEMMA CommandsHaveArgs ==
    ASSUME NEW cmd \in Commands
    PROVE  HasArg(cmd)
<1>1. CASE cmd.kind = "FID"
  <2>1. PICK x : cmd.arg = <<x>>   BY <1>1 DEF Commands
  <2>2. Len(<<x>>) = 1 /\ <<x>> \in Seq(Range(<<x>>))
    <3>1. Len(<<x>>) = 1 /\ DOMAIN <<x>> = {1} /\ <<x>>[1] = x   OBVIOUS
    <3>2. x \in Range(<<x>>)   BY <3>1 DEF Range
    <3> QED BY <3>1, <3>2
  <2> QED BY <1>1, <2>1, <2>2 DEF HasArg
<1>2. CASE cmd.kind \in {"FROM_MF", "FROM_DF"}
  <2>1. cmd.arg \in Paths   BY <1>2 DEF Commands
  <2> QED BY <1>2, <2>1, FidAssumption DEF HasArg
<1> QED BY <1>1, <1>2 DEF HasArg

\* Where a command selects depends on its kind and its argument.
LEMMA SameSelection ==
    ASSUME NEW at, NEW r, NEW s, r.kind = s.kind, r.arg = s.arg, r.kind \in Selects
    PROVE  CardSelects(at, r) = CardSelects(at, s)
BY DEF CardSelects, Selects

\* A SELECT moves the card from place to place.
LEMMA SelectsPlaces ==
    ASSUME NEW at \in Places, NEW cmd, cmd.kind \in Selects \cup {"PARENT"}, HasArg(cmd),
           NEW p \in CardSelects(at, cmd)
    PROVE  p \in Places
<1>1. CASE cmd.kind \in Selects
  <2> DEFINE apdu == [kind |-> cmd.kind, arg |-> cmd.arg, sw |-> "ok"]
  <2>1. apdu.kind \in Selects /\ apdu.sw = "ok" /\ HasArg(apdu)   BY <1>1 DEF HasArg
  <2>2. CardSelects(at, cmd) = CardSelects(at, apdu)   BY <1>1, SameSelection
  <2>3. Agrees({}, at, at) /\ {} \in SUBSET Both   BY DEF Agrees
  <2> HIDE DEF apdu
  <2>4. p \in CardSelects(at, apdu)   BY <2>2
  <2> QED BY <2>1, <2>3, <2>4, SelectFollows
<1>2. CASE cmd.kind = "PARENT"
  <2>1. p = [at EXCEPT !.file = Parent[Cwd(at.file)]]   BY <1>2 DEF CardSelects
  <2>2. Cwd(at.file) \in File   BY FilesAre DEF Cwd, Places
  <2>3. Parent[Cwd(at.file)] \in File   BY <2>2, FilesAre
  <2> QED BY <2>1, <2>3 DEF Places
<1> QED BY <1>1, <1>2

\* Only a SELECT, a READ by SFI and an OPEN move the card, each on its channel.
Moves(cmd, ans) ==
    /\ \A k \in DOMAIN card \cap DOMAIN ans.card :
         k # cmd.c \/ cmd.kind \notin Selects \cup {"PARENT"} => ans.card[k] = card[k]
    /\ cmd.kind \in Selects \cup {"PARENT"} =>
         \/ ans.sw \in Carried /\ ans.card[cmd.c] \in CardSelects(card[cmd.c], cmd)
         \/ ans.sw \notin Carried /\ ans.card = card
    /\ cmd.kind \in Selects /\ ans.sw \in Carried => ans.n = Template(ans.card[cmd.c].file)
    /\ cmd.kind = "STATUS" /\ ans.sw = "ok" => ans.n = Template(Cwd(card[0].file))
    /\ cmd.kind = "OPEN" /\ ans.sw = "ok" => ans.card[ans.n] = Inherited(card, cmd.c)

\* The answers of the card move it so.
LEMMA AnswersMove ==
    ASSUME NEW cmd \in Commands, cmd.c \in DOMAIN card, NEW ans \in Answers(cmd)
    PROVE  Moves(cmd, ans)
<1>1. CASE cmd.kind \in Selects \union {"PARENT"}
  <2> DEFINE places == CardSelects(card[cmd.c], cmd)
             sws == IF cmd.kind = "SFI" THEN {"ok"} ELSE {"ok", "warned"}
  <2>1. Answers(cmd) = IF places = {} THEN {[sw |-> "refused", card |-> card, n |-> NoByte]}
                       ELSE {[sw |-> sw, card |-> [card EXCEPT ![cmd.c] = p], n |-> Template(p.file)]
                             : p \in places, sw \in sws}
    BY <1>1 DEF Answers, Selects
  <2>2. cmd.kind # "OPEN" /\ cmd.kind # "STATUS" /\ sws \subseteq Carried   BY <1>1 DEF Selects, Carried
  <2> HIDE DEF places, sws
  <2>3. CASE ans = [sw |-> "refused", card |-> card, n |-> NoByte]
    BY <1>1, <2>2, <2>3 DEF Moves, Carried
  <2>4. CASE \E p \in places, sw \in sws :
               ans = [sw |-> sw, card |-> [card EXCEPT ![cmd.c] = p], n |-> Template(p.file)]
    <3>1. PICK p \in places, sw \in sws :
            ans = [sw |-> sw, card |-> [card EXCEPT ![cmd.c] = p], n |-> Template(p.file)]
      BY <2>4
    <3>2. ans.sw = sw /\ ans.card = [card EXCEPT ![cmd.c] = p] /\ ans.n = Template(p.file)   BY <3>1
    <3>3. ans.card[cmd.c] = p   BY <3>2
    <3>4. ans.sw \in Carried /\ p \in CardSelects(card[cmd.c], cmd)   BY <2>2, <3>2 DEF places
    <3>5. \A k \in DOMAIN card \cap DOMAIN ans.card : k # cmd.c => ans.card[k] = card[k]   BY <3>2
    <3> QED BY <1>1, <2>2, <3>2, <3>3, <3>4, <3>5 DEF Moves
  <2> QED BY <2>1, <2>3, <2>4
<1>2. CASE cmd.kind = "OPEN"
  <2> DEFINE free == {n \in Channel \ DOMAIN card : cmd.to \in {0, n}}
             opened(n) == [k \in DOMAIN card \cup {n} |-> IF k = n THEN Inherited(card, cmd.c) ELSE card[k]]
  <2>1. Answers(cmd) = IF free = {} THEN {[sw |-> "refused", card |-> card, n |-> NoByte]}
                       ELSE {[sw |-> "ok", n |-> n, card |-> opened(n)] : n \in free}
    BY <1>2 DEF Answers, Selects
  <2>2. \A n \in free : opened(n)[n] = Inherited(card, cmd.c) /\ \A k \in DOMAIN card : opened(n)[k] = card[k]
    OBVIOUS
  <2>0. cmd.kind \notin Selects \cup {"PARENT", "STATUS"}   BY <1>2 DEF Selects
  <2> HIDE DEF free, opened
  <2>3. CASE ans = [sw |-> "refused", card |-> card, n |-> NoByte]
    BY <2>0, <2>3 DEF Moves
  <2>4. CASE \E n \in free : ans = [sw |-> "ok", n |-> n, card |-> opened(n)]
    <3>1. PICK n \in free : ans = [sw |-> "ok", n |-> n, card |-> opened(n)]   BY <2>4
    <3>2. ans.n = n /\ ans.card = opened(n)   BY <3>1
    <3> QED BY <2>0, <2>2, <3>2 DEF Moves
  <2> QED BY <2>1, <2>3, <2>4
<1>3. CASE cmd.kind = "CLOSE"
  <2>1. ans.card = Restrict(card, DOMAIN card \ {cmd.to})   BY <1>3 DEF Answers, Selects
  <2>2. \A k \in DOMAIN card \cap DOMAIN ans.card : ans.card[k] = card[k]   BY <2>1 DEF Restrict
  <2> QED BY <1>3, <2>2 DEF Moves, Selects
<1>4. CASE cmd.kind \notin Selects \union {"PARENT", "OPEN", "CLOSE"}
  <2>1. ans.card = card /\ (cmd.kind = "STATUS" /\ ans.sw = "ok" => ans.n = Template(Cwd(card[0].file)))
    BY <1>4 DEF Answers, Selects
  <2> QED BY <1>4, <2>1 DEF Moves
<1> QED BY <1>1, <1>2, <1>3, <1>4

\* The mirror's places after an APDU that did not stop the tracer.
LEMMA ProcessedPlaces ==
    ASSUME NEW apdu, process(apdu), alive'
    PROVE  /\ \A k \in DOMAIN lchan \cap DOMAIN lchan' :
                k # apdu.c \/ apdu.kind \notin Selects => lchan'[k] = lchan[k]
           /\ apdu.kind \in Selects =>
                apdu.c \in DOMAIN lchan /\ lchan'[apdu.c] = MirrorOf(lchan[apdu.c], apdu)
           /\ apdu.kind = "OPEN" /\ apdu.sw = "ok" =>
                /\ apdu.c \in DOMAIN lchan /\ Opened(apdu) \notin DOMAIN lchan
                /\ lchan'[Opened(apdu)] = Inherited(lchan, apdu.c)
           /\ apdu.kind # "PARENT"
<1>1. ~Raises(apdu) /\ lchan' = Processed(apdu)   BY DEF process
<1>2. CASE apdu.kind \in Selects \ {"SFI"}
  <2>1. lchan' = [lchan EXCEPT ![apdu.c] = UiccSelect(lchan[apdu.c], apdu)]
    BY <1>1, <1>2 DEF Processed, Selects
  <2>2. apdu.c \in DOMAIN lchan /\ apdu.kind # "PARENT" /\ apdu.kind # "OPEN"
    BY <1>1, <1>2 DEF Raises, Selects
  <2>3. MirrorOf(lchan[apdu.c], apdu) = UiccSelect(lchan[apdu.c], apdu)   BY <1>2 DEF MirrorOf
  <2> DEFINE place == UiccSelect(lchan[apdu.c], apdu)
  <2> HIDE DEF place
  <2>4. lchan' = [lchan EXCEPT ![apdu.c] = place]   BY <2>1 DEF place
  <2>5. lchan'[apdu.c] = place /\ \A k \in DOMAIN lchan : k # apdu.c => lchan'[k] = lchan[k]
    BY <2>2, <2>4
  <2>6. apdu.kind \in Selects   BY <1>2
  <2> QED BY <2>2, <2>3, <2>5, <2>6 DEF place
<1>3. CASE apdu.kind = "OPEN" /\ apdu.sw = "ok"
  <2>1. lchan' = add_lchan(apdu.c, Opened(apdu))   BY <1>1, <1>3 DEF Processed, Selects, Opened
  <2>2. apdu.c \in DOMAIN lchan /\ Opened(apdu) \notin DOMAIN lchan
    BY <1>1, <1>3 DEF Raises, Selects, Opened
  <2> HIDE DEF Opened
  <2> QED BY <1>3, <2>1, <2>2 DEF add_lchan, Selects
<1>4. CASE apdu.kind = "CLOSE" /\ apdu.sw = "ok"
  <2>1. lchan' = Restrict(lchan, DOMAIN lchan \ {apdu.to})
    BY <1>1, <1>4 DEF Processed, Selects, del_lchan
  <2> QED BY <1>4, <2>1 DEF Restrict, Selects
<1>5. CASE /\ apdu.kind \notin Selects \ {"SFI"}
           /\ ~(apdu.kind = "OPEN" /\ apdu.sw = "ok")
           /\ ~(apdu.kind = "CLOSE" /\ apdu.sw = "ok")
  <2>1. lchan' = lchan   BY <1>1, <1>5 DEF Processed
  <2>2. apdu.kind # "PARENT"   BY <1>1 DEF Raises
  <2>3. apdu.kind \in Selects => apdu.kind = "SFI" /\ apdu.c \in DOMAIN lchan
    BY <1>1, <1>5 DEF Raises
  <2> QED BY <1>5, <2>1, <2>2, <2>3 DEF MirrorOf
<1> QED BY <1>2, <1>3, <1>4, <1>5

-----------------------------------------------------------------------------
(***************************************************************************)
(* What the capture leaves known.                                          *)
(***************************************************************************)
LEMMA Forgetting ==
    ASSUME NEW lost, NEW known
    PROVE  /\ DOMAIN Forget(lost, known) = DOMAIN known
           /\ \A c \in DOMAIN known : Forget(lost, known)[c] \in {{}, known[c]}
           /\ \A cmd \in lost : cmd.kind \in Selects \cup {"PARENT"} /\ cmd.c \in DOMAIN known =>
                Forget(lost, known)[cmd.c] = {}
BY DEF Forget

\* What is known after a step was known of a channel that is still open.
LEMMA KnowsAfter ==
    ASSUME NEW lost, NEW known, Knows(lost, known)
    PROVE  /\ trusted' => trusted
           /\ DOMAIN sure' = DOMAIN card'
           /\ \A c \in DOMAIN card' : sure'[c] = IF c \in DOMAIN known THEN known[c] ELSE {}
BY DEF Knows

\* Nothing known is nothing to agree on.
LEMMA AgreesNothing ==
    ASSUME NEW m, NEW p
    PROVE  Agrees({}, m, p)
BY DEF Agrees

\* A channel opened from another one starts where that one is.
LEMMA InheritsPlace ==
    ASSUME NEW open, NEW c, c # 0 => open[c] \in Places
    PROVE  Inherited(open, c) \in Places
<1>1. CASE c = 0   BY <1>1, FilesAre DEF Inherited
<1>2. CASE c # 0
  <2>1. open[c].file \in File /\ open[c].adf \in File \cup {NoApp}   BY <1>2 DEF Places
  <2>2. Cwd(open[c].file) \in File   BY <2>1, FilesAre DEF Cwd
  <2> QED BY <1>2, <2>1, <2>2 DEF Inherited, Places
<1> QED BY <1>1, <1>2

\* A channel opened from one that agrees does agree, and one opened from the basic one is known.
LEMMA InheritedAgree ==
    ASSUME NEW mirror, NEW open, NEW c, NEW known, Agrees(known, mirror[c], open[c])
    PROVE  Agrees(IF c = 0 THEN Both ELSE known, Inherited(mirror, c), Inherited(open, c))
BY DEF Agrees, Inherited

-----------------------------------------------------------------------------
(***************************************************************************)
(* The invariant of the mirror.  A command that selects and of which the   *)
(* answer is to come has moved the card and not the mirror.                *)
(***************************************************************************)
Executing(c) == pending # None /\ pending.cmd.kind \in Selects /\ pending.cmd.c = c
Owing(c) == due # None /\ due.kind \in Selects /\ due.c = c

Placed ==
    /\ 0 \in DOMAIN card /\ \A c \in DOMAIN card : card[c] \in Places
    /\ DOMAIN sure = DOMAIN card /\ \A c \in DOMAIN sure : sure[c] \in SUBSET Both
    /\ pending # None => pending.at \in Places /\ pending.cmd.c \in DOMAIN card /\ HasArg(pending.cmd)
    /\ alive /\ trusted => \A c \in DOMAIN lchan : lchan[c] \in Places

Follows(c) ==
    \/ Executing(c) /\ (pending.seen => Agrees(sure[c], lchan[c], pending.at))
    \/ ~Executing(c) /\ (Owing(c) \/ Agrees(sure[c], lchan[c], card[c]))

ToFetch ==
    pending # None /\ pending.seen =>
      /\ pending.cmd.kind \in Selects => card[pending.cmd.c] \in CardSelects(pending.at, pending.cmd)
      /\ pending.cmd.kind \in Selects => pending.n = Template(card[pending.cmd.c].file)
      /\ pending.cmd.kind = "STATUS" => pending.n = Template(Cwd(card[pending.cmd.c].file))
      /\ pending.cmd.kind = "OPEN" => card[pending.n] = Inherited(card, pending.cmd.c)

Following ==
    alive /\ trusted => (\A c \in DOMAIN card \cap DOMAIN lchan : Follows(c)) /\ ToFetch

MirrorIInv == IInv /\ Placed /\ Following

\* What is not lost and not executed agrees, once what is lost is forgotten.
LEMMA AgreesUnlessLost ==
    ASSUME IInv, Placed, Following, alive, trusted, NEW c \in DOMAIN card \cap DOMAIN lchan,
           NEW lost, Unseen \subseteq lost
    PROVE  \/ Agrees(Forget(lost, sure)[c], lchan[c], card[c])
           \/ due # None /\ due \notin lost /\ Owing(c)
<1>1. Follows(c)   BY DEF Following
<1>2. /\ Forget(lost, sure)[c] \in {{}, sure[c]}
      /\ \A cmd \in lost : cmd.kind \in Selects /\ cmd.c = c => Forget(lost, sure)[c] = {}
  BY Forgetting DEF Placed
<1>3. Forget(lost, sure)[c] = {} => Agrees(Forget(lost, sure)[c], lchan[c], card[c])
  BY AgreesNothing
<1>4. CASE Executing(c)
  <2>1. CASE pending.seen
    <3>1. due = pending.cmd /\ due.kind \in Selects /\ due.c = c
      BY <1>4, <2>1 DEF IInv, Held, Executing
    <3>2. due # None   BY <3>1, NotNone DEF Selects
    <3>3. CASE due \in lost   BY <1>2, <1>3, <3>1, <3>3
    <3> QED BY <3>1, <3>2, <3>3 DEF Owing
  <2>2. CASE ~pending.seen
    <3>1. pending.cmd \in lost   BY <1>4, <2>2 DEF Unseen, Unfetched, Executing
    <3> QED BY <1>2, <1>3, <1>4, <3>1 DEF Executing
  <2> QED BY <2>1, <2>2
<1>5. CASE ~Executing(c)
  <2>1. Owing(c) \/ Agrees(sure[c], lchan[c], card[c])   BY <1>1, <1>5 DEF Follows
  <2>2. CASE Owing(c)
    <3>1. due # None /\ due.kind \in Selects /\ due.c = c   BY <2>2 DEF Owing
    <3> QED BY <1>2, <1>3, <2>2, <3>1
  <2>3. CASE Agrees(sure[c], lchan[c], card[c])   BY <1>2, <1>3, <2>3
  <2> QED BY <2>1, <2>2, <2>3
<1> QED BY <1>4, <1>5

\* Whatever a command selects, the mirror goes from place to place.
LEMMA MirrorPlaces ==
    ASSUME NEW m \in Places, NEW apdu, apdu.kind \in Selects, HasArg(apdu)
    PROVE  MirrorOf(m, apdu) \in Places
<1>1. CASE apdu.kind = "SFI"   BY <1>1 DEF MirrorOf
<1>2. CASE apdu.sw # "ok"
  BY <1>2, RefusedMirror
<1>3. CASE apdu.kind # "SFI" /\ apdu.sw = "ok"
  <2>1. MirrorOf(m, apdu) = MirrorOn(m, apdu, TRUE)   BY <1>3, MirrorIs
  <2>2. CASE apdu.kind = "FID"   BY <2>1, <2>2, StepsTo DEF MirrorOn
  <2>3. CASE apdu.kind = "AID"   BY <2>1, <2>3, FilesAre DEF MirrorOn, Places
  <2>4. CASE apdu.kind \in {"FROM_MF", "FROM_DF"}
    <3> DEFINE n == IF apdu.kind = "FROM_MF" THEN [m EXCEPT !.file = MF] ELSE m
               path == apdu.arg
    <3>1. MirrorOn(m, apdu, TRUE) = Walk(n, path, TRUE)   BY <2>4 DEF MirrorOn
    <3>2. n \in Places /\ path \in Seq(Range(path))   BY <2>4, FilesAre DEF Places, HasArg
    <3> HIDE DEF n
    <3>3. PICK g : Mirrors(g, n, path, TRUE)   BY <3>2, WalkMirrors
    <3>4. Len(path) \in 0 .. Len(path)   BY <3>2, LenProperties
    <3> QED BY <2>1, <3>1, <3>3, <3>4 DEF Mirrors
  <2> QED BY <1>3, <2>2, <2>3, <2>4 DEF Selects
<1> QED BY <1>1, <1>2, <1>3

\* Processing, of the channels alone.
LEMMA ChannelsAfter ==
    ASSUME NEW apdu, process(apdu), alive'
    PROVE  \A c \in DOMAIN lchan' \ DOMAIN lchan :
             apdu.kind = "OPEN" /\ apdu.sw = "ok" /\ c = Opened(apdu)
<1> SUFFICES ASSUME NEW c \in DOMAIN lchan' \ DOMAIN lchan
             PROVE  apdu.kind = "OPEN" /\ apdu.sw = "ok" /\ c = Opened(apdu)
  OBVIOUS
<1>1. apdu.kind \notin Manages => DOMAIN lchan' = DOMAIN lchan   BY Processing
<1>2. apdu.kind = "OPEN" /\ apdu.sw = "ok" => DOMAIN lchan' = DOMAIN lchan \union {Opened(apdu)}
  BY Processing
<1>3. apdu.kind = "CLOSE" /\ apdu.sw = "ok" => DOMAIN lchan' = DOMAIN lchan \ {apdu.to}
  BY Processing
<1>4. apdu.sw # "ok" => DOMAIN lchan' = DOMAIN lchan   BY Processing
<1> QED BY <1>1, <1>2, <1>3, <1>4 DEF Manages

\* The mirror has places on all its channels.
LEMMA LchanPlaces ==
    ASSUME Placed, alive, trusted, NEW apdu, HasArg(apdu), process(apdu), alive'
    PROVE  \A c \in DOMAIN lchan' : lchan'[c] \in Places
<1> SUFFICES ASSUME NEW c \in DOMAIN lchan' PROVE lchan'[c] \in Places
  OBVIOUS
<1>1. \A k \in DOMAIN lchan : lchan[k] \in Places   BY DEF Placed
<1>2. CASE apdu.kind \in Selects /\ c = apdu.c
  <2>1. apdu.c \in DOMAIN lchan /\ lchan'[apdu.c] = MirrorOf(lchan[apdu.c], apdu)
    BY <1>2, ProcessedPlaces
  <2> QED BY <1>1, <1>2, <2>1, MirrorPlaces
<1>3. CASE apdu.kind = "OPEN" /\ apdu.sw = "ok" /\ c \notin DOMAIN lchan
  <2>1. apdu.c \in DOMAIN lchan /\ lchan'[Opened(apdu)] = Inherited(lchan, apdu.c)
    BY <1>3, ProcessedPlaces
  <2>2. c = Opened(apdu)   BY <1>3, ChannelsAfter
  <2> QED BY <1>1, <2>1, <2>2, InheritsPlace
<1>4. CASE ~(apdu.kind \in Selects /\ c = apdu.c) /\ c \in DOMAIN lchan
  BY <1>1, <1>4, ProcessedPlaces
<1>5. ASSUME c \notin DOMAIN lchan PROVE apdu.kind = "OPEN" /\ apdu.sw = "ok"
  BY <1>5, ChannelsAfter
<1>6. apdu.kind \in Selects => apdu.c \in DOMAIN lchan   BY ProcessedPlaces
<1> QED BY <1>2, <1>3, <1>4, <1>5, <1>6

\* The card has places on all its channels, and the basic one is open.
LEMMA CardPlaces ==
    ASSUME Placed, NEW cmd \in Commands, NEW ans \in Answers(cmd)
    PROVE  /\ cmd.c \in DOMAIN card /\ 0 \in DOMAIN ans.card
           /\ \A c \in DOMAIN ans.card : ans.card[c] \in Places
           /\ cmd.kind # "CLOSE" => DOMAIN card \subseteq DOMAIN ans.card
           /\ Moves(cmd, ans)
<1>1. cmd.c \in DOMAIN card   BY DEF Placed, Commands
<1>2. Moves(cmd, ans)   BY <1>1, AnswersMove
<1>3. 0 \in DOMAIN ans.card /\ (cmd.kind # "CLOSE" => DOMAIN card \subseteq DOMAIN ans.card)
  BY CommandsAre, AnswersAre DEF Placed, Manages
<1>4. ASSUME NEW c \in DOMAIN ans.card PROVE ans.card[c] \in Places
  <2>1. \A k \in DOMAIN card : card[k] \in Places   BY DEF Placed
  <2>2. CASE cmd.kind \in Selects \cup {"PARENT"} /\ c = cmd.c
    <3>1. ans.card[c] = card[c] \/ ans.card[c] \in CardSelects(card[c], cmd)
      BY <1>2, <2>2 DEF Moves
    <3> QED BY <1>1, <2>1, <2>2, <3>1, SelectsPlaces, CommandsHaveArgs
  <2>3. CASE cmd.kind = "OPEN" /\ c \notin DOMAIN card
    <3>1. ans.sw = "ok" /\ c = ans.n   BY <2>3, AnswersAre
    <3>2. ans.card[c] = Inherited(card, cmd.c)   BY <1>2, <2>3, <3>1 DEF Moves
    <3> QED BY <1>1, <2>1, <3>2, InheritsPlace
  <2>4. CASE ~(cmd.kind \in Selects \cup {"PARENT"} /\ c = cmd.c) /\ c \in DOMAIN card
    BY <1>2, <2>1, <2>4 DEF Moves
  <2>5. c \in DOMAIN card \/ cmd.kind = "OPEN"   BY AnswersAre DEF Manages
  <2> QED BY <1>1, <2>2, <2>3, <2>4, <2>5
<1> QED BY <1>1, <1>2, <1>3, <1>4

-----------------------------------------------------------------------------
(***************************************************************************)
(* The captured end of a command: at is where the channel was before it,   *)
(* known is what was known then.                                           *)
(***************************************************************************)
OfChannels(apdu, known) ==
    /\ DOMAIN known = DOMAIN card /\ \A c \in DOMAIN card : known[c] \in SUBSET Both
    /\ apdu.c \in DOMAIN card

Ready(apdu, at, known) ==
    /\ OfChannels(apdu, known) /\ HasArg(apdu)
    /\ \A c \in DOMAIN card \cap DOMAIN lchan :
         ~(apdu.kind \in Selects /\ c = apdu.c) => Agrees(known[c], lchan[c], card[c])
    /\ apdu.kind \in Selects =>
         at \in Places /\ (apdu.c \in DOMAIN lchan => Agrees(known[apdu.c], lchan[apdu.c], at))

Arrived(apdu, at) ==
    /\ \A c \in DOMAIN card \cap DOMAIN card' :
         ~(apdu.kind \in Selects /\ c = apdu.c) => card'[c] = card[c]
    /\ apdu.kind \in Selects =>
         \/ apdu.sw \in Carried /\ card'[apdu.c] \in CardSelects(at, apdu)
         \/ apdu.sw \notin Carried /\ card'[apdu.c] = at
    /\ apdu.kind = "OPEN" /\ apdu.sw = "ok" =>
         Opened(apdu) = apdu.n /\ card'[apdu.n] = Inherited(card, apdu.c)
    /\ DOMAIN card' \subseteq DOMAIN card \cup {c \in {apdu.n} : apdu.kind = "OPEN" /\ apdu.sw = "ok"}

\* What is known once the end of a command was captured.
DeterminedAs(apdu, at, known, D) ==
    /\ apdu.kind = "OPEN" /\ apdu.sw = "ok" =>
         /\ D[apdu.n] = IF apdu.c = 0 THEN Both ELSE known[apdu.c]
         /\ DOMAIN D = DOMAIN known \cup {apdu.n}
    /\ ~(apdu.kind = "OPEN" /\ apdu.sw = "ok") => DOMAIN D = DOMAIN known
    /\ apdu.kind \in Selects => D[apdu.c] = Followed(apdu, at, known[apdu.c])
    /\ \A c \in DOMAIN known :
         \/ apdu.kind \in Selects /\ c = apdu.c
         \/ apdu.kind = "OPEN" /\ apdu.sw = "ok" /\ c = apdu.n
         \/ D[c] = known[c]
    /\ \A c \in DOMAIN D : D[c] \in SUBSET Both

\* Determined says so.
LEMMA DeterminedIs ==
    ASSUME NEW apdu, NEW at, NEW known, OfChannels(apdu, known)
    PROVE  DeterminedAs(apdu, at, known, Determined(apdu, at, known))
<1> DEFINE D == Determined(apdu, at, known)
<1>0. DOMAIN known = DOMAIN card /\ apdu.c \in DOMAIN known /\ \A c \in DOMAIN known : known[c] \in SUBSET Both
  BY DEF OfChannels
<1>1. CASE apdu.kind \in Selects
  <2> DEFINE F == Followed(apdu, at, known[apdu.c])
  <2>3. apdu.kind # "OPEN"   BY <1>1 DEF Selects
  <2>1. D = [known EXCEPT ![apdu.c] = F]   BY <1>1, <2>3 DEF Determined
  <2>2. F \in SUBSET Both   BY <1>0, <1>1, FollowedIs
  <2> HIDE DEF D, F
  <2>4. D[apdu.c] = F /\ DOMAIN D = DOMAIN known /\ \A c \in DOMAIN known : c # apdu.c => D[c] = known[c]
    BY <1>0, <2>1
  <2> QED BY <1>0, <1>1, <2>2, <2>3, <2>4 DEF D, F, DeterminedAs
<1>2. CASE apdu.kind = "OPEN" /\ apdu.sw = "ok"
  <2>1. D = [c \in DOMAIN known \cup {apdu.n} |->
               IF c # apdu.n THEN known[c] ELSE IF apdu.c = 0 THEN Both ELSE known[apdu.c]]
    BY <1>2 DEF Determined, Selects
  <2>2. apdu.kind \notin Selects   BY <1>2 DEF Selects
  <2>3. Both \in SUBSET Both   OBVIOUS
  <2> HIDE DEF D
  <2> QED BY <1>0, <1>2, <2>1, <2>2, <2>3 DEF D, DeterminedAs
<1>3. CASE apdu.kind \notin Selects /\ ~(apdu.kind = "OPEN" /\ apdu.sw = "ok")
  <2>1. D = known   BY <1>3 DEF Determined
  <2> QED BY <1>0, <1>3, <2>1 DEF DeterminedAs
<1> QED BY <1>1, <1>2, <1>3

\* After the captured end of a command the mirror agrees on what is known.
LEMMA EndFollows ==
    ASSUME NEW apdu, NEW at, NEW known, NEW lost, Ready(apdu, at, known), Arrived(apdu, at),
           Placed, alive, trusted, process(apdu), alive', Knows(lost, Determined(apdu, at, known)),
           NEW c \in DOMAIN card' \cap DOMAIN lchan'
    PROVE  Agrees(sure'[c], lchan'[c], card'[c])
<1> DEFINE D == Determined(apdu, at, known)
<1>1. sure'[c] = IF c \in DOMAIN D THEN D[c] ELSE {}   BY KnowsAfter
<1>5. DOMAIN known = DOMAIN card   BY DEF Ready, OfChannels
<1>6. DeterminedAs(apdu, at, known, D)   BY DeterminedIs DEF Ready
<1> HIDE DEF D
<1>2. CASE apdu.kind = "OPEN" /\ apdu.sw = "ok" /\ c = apdu.n
  <2>1. /\ apdu.c \in DOMAIN lchan /\ lchan'[c] = Inherited(lchan, apdu.c)
        /\ card'[c] = Inherited(card, apdu.c)
    BY <1>2, ProcessedPlaces DEF Arrived
  <2>2. apdu.kind \notin Selects /\ apdu.c \in DOMAIN card   BY <1>2 DEF Selects, Ready, OfChannels
  <2>3. Agrees(known[apdu.c], lchan[apdu.c], card[apdu.c])   BY <2>1, <2>2 DEF Ready
  <2>4. Agrees(IF apdu.c = 0 THEN Both ELSE known[apdu.c], Inherited(lchan, apdu.c), Inherited(card, apdu.c))
    BY <2>3, InheritedAgree
  <2>5. sure'[c] = IF apdu.c = 0 THEN Both ELSE known[apdu.c]   BY <1>1, <1>2, <1>6 DEF DeterminedAs
  <2> QED BY <2>1, <2>4, <2>5
<1>3. CASE apdu.kind \in Selects /\ c = apdu.c
  <2>1. apdu.c \in DOMAIN lchan /\ lchan'[c] = MirrorOf(lchan[c], apdu)   BY <1>3, ProcessedPlaces
  <2>2. /\ at \in Places /\ Agrees(known[c], lchan[c], at) /\ HasArg(apdu)
        /\ known[c] \in SUBSET Both /\ lchan[c] \in Places
    BY <1>3, <2>1 DEF Ready, OfChannels, Placed
  <2>3. c \in DOMAIN known /\ apdu.kind # "OPEN"   BY <1>3 DEF Ready, OfChannels, Selects
  <2>4. sure'[c] = Followed(apdu, at, known[c])   BY <1>1, <1>3, <1>6, <2>3 DEF DeterminedAs
  <2>5. \/ apdu.sw \in Carried /\ card'[c] \in CardSelects(at, apdu)
        \/ apdu.sw \notin Carried /\ card'[c] = at
    BY <1>3 DEF Arrived
  <2>6. CASE apdu.sw = "ok"   BY <1>3, <2>1, <2>2, <2>4, <2>5, <2>6, SelectFollows DEF Carried
  <2>7. CASE apdu.sw = "warned"   BY <1>3, <2>1, <2>2, <2>4, <2>5, <2>7, WarningFollows DEF Carried
  <2>8. CASE apdu.sw \notin Carried   BY <1>3, <2>1, <2>2, <2>4, <2>5, <2>8, RefusalFollows
  <2> QED BY <2>6, <2>7, <2>8 DEF Carried
<1>4. CASE /\ ~(apdu.kind = "OPEN" /\ apdu.sw = "ok" /\ c = apdu.n)
           /\ ~(apdu.kind \in Selects /\ c = apdu.c)
  <2>1. c \in DOMAIN card   BY <1>4 DEF Arrived
  <2>2. c \in DOMAIN lchan   BY <1>4, ChannelsAfter DEF Arrived
  <2>3. sure'[c] = known[c]   BY <1>1, <1>4, <1>5, <1>6, <2>1 DEF DeterminedAs
  <2>4. lchan'[c] = lchan[c] /\ card'[c] = card[c]   BY <1>4, <2>1, <2>2, ProcessedPlaces DEF Arrived
  <2> QED BY <1>4, <2>1, <2>2, <2>3, <2>4 DEF Ready
<1> QED BY <1>2, <1>3, <1>4

-----------------------------------------------------------------------------
(***************************************************************************)
(* The steps of the mirror.                                                *)
(***************************************************************************)
\* When nothing is pending, all channels not owing are to agree.
LEMMA NothingPending ==
    ASSUME pending' = None,
           alive' /\ trusted' => \A c \in DOMAIN card' \cap DOMAIN lchan' :
                                   Owing(c)' \/ Agrees(sure'[c], lchan'[c], card'[c])
    PROVE  Following'
BY DEF Following, Follows, ToFetch, Executing

\* The end of a command that is answered at once, of the card and of the mirror.
LEMMA AtOnceEnds ==
    ASSUME MirrorIInv, alive, trusted, due = None,
           NEW cmd \in Commands, NEW ans \in Answers(cmd), card' = ans.card, cmd.kind # "PARENT",
           NEW n, cmd.kind = "OPEN" => n = ans.n, NEW apdu, apdu = Ended(cmd, ans.sw, n)
    PROVE  /\ HasArg(apdu) /\ Ready(apdu, card[cmd.c], Forget(Unseen, sure))
           /\ Arrived(apdu, card[cmd.c])
<1> DEFINE known == Forget(Unseen, sure)
           at == card[cmd.c]
<1>1. /\ apdu.kind = cmd.kind /\ apdu.c = cmd.c /\ apdu.to = cmd.to /\ apdu.arg = cmd.arg
      /\ apdu.sw = ans.sw /\ apdu.n = n
  BY CommandsAre, EndedFields
<1>2. HasArg(apdu)   BY <1>1, CommandsHaveArgs DEF HasArg
<1>3. cmd.c \in DOMAIN card /\ Moves(cmd, ans)   BY CardPlaces DEF MirrorIInv
<1>4. \A c \in DOMAIN card \cap DOMAIN lchan : Agrees(known[c], lchan[c], card[c])
  BY AgreesUnlessLost DEF MirrorIInv
<1>5. DOMAIN known = DOMAIN card /\ \A c \in DOMAIN card : known[c] \in SUBSET Both
  BY Forgetting DEF MirrorIInv, Placed
<1>6. at \in Places   BY <1>3 DEF MirrorIInv, Placed
<1>7. Ready(apdu, at, known)
  <2> HIDE DEF known
  <2> QED BY <1>1, <1>2, <1>3, <1>4, <1>5, <1>6 DEF Ready, OfChannels
<1>8. Arrived(apdu, at)
  <2>1. \A c \in DOMAIN card \cap DOMAIN card' :
          ~(apdu.kind \in Selects /\ c = apdu.c) => card'[c] = card[c]
    BY <1>1, <1>3 DEF Moves
  <2>2. ASSUME apdu.kind \in Selects
        PROVE  \/ apdu.sw \in Carried /\ card'[apdu.c] \in CardSelects(at, apdu)
               \/ apdu.sw \notin Carried /\ card'[apdu.c] = at
    <3>1. CardSelects(at, apdu) = CardSelects(at, cmd)   BY <1>1, <2>2, SameSelection
    <3> QED BY <1>1, <1>3, <2>2, <3>1 DEF Moves
  <2>3. apdu.kind = "OPEN" /\ apdu.sw = "ok" =>
          Opened(apdu) = apdu.n /\ card'[apdu.n] = Inherited(card, apdu.c)
    BY <1>1, <1>3, AnswersAre DEF Moves, Opened
  <2>4. DOMAIN card' \subseteq DOMAIN card \cup {c \in {apdu.n} : apdu.kind = "OPEN" /\ apdu.sw = "ok"}
    BY <1>1, AnswersAre DEF Manages
  <2> QED BY <2>1, <2>2, <2>3, <2>4 DEF Arrived
<1> QED BY <1>2, <1>7, <1>8

\* The end of a command that was sent in one part.
LEMMA AtOnceFollows ==
    ASSUME MirrorIInv, alive, trusted, due = None,
           NEW cmd \in Commands, NEW ans \in Answers(cmd), card' = ans.card,
           NEW n, cmd.kind = "OPEN" => n = ans.n,
           NEW apdu, apdu = Ended(cmd, ans.sw, n), process(apdu), alive',
           Knows(Unseen, Determined(apdu, card[cmd.c], Forget(Unseen, sure)))
    PROVE  /\ \A c \in DOMAIN card' \cap DOMAIN lchan' : Agrees(sure'[c], lchan'[c], card'[c])
           /\ \A c \in DOMAIN lchan' : lchan'[c] \in Places
<1> DEFINE known == Forget(Unseen, sure)
           at == card[cmd.c]
<1>1. HasArg(apdu) /\ Ready(apdu, at, known) /\ Arrived(apdu, at)
  <2>1. apdu.kind = cmd.kind   BY CommandsAre, EndedFields
  <2>2. cmd.kind # "PARENT"   BY <2>1, ProcessedPlaces
  <2> QED BY <2>2, AtOnceEnds
<1>2. Placed   BY DEF MirrorIInv
<1> HIDE DEF known, at
<1>3. Knows(Unseen, Determined(apdu, at, known))   BY DEF known, at
<1>4. \A c \in DOMAIN card' \cap DOMAIN lchan' : Agrees(sure'[c], lchan'[c], card'[c])
  BY <1>1, <1>2, <1>3, EndFollows
<1>5. \A c \in DOMAIN lchan' : lchan'[c] \in Places   BY <1>1, <1>2, LchanPlaces
<1> QED BY <1>4, <1>5

\* What stays known when commands are lost.
LEMMA LostKnows ==
    ASSUME Placed, NEW lost, Knows(lost, Forget(lost, sure))
    PROVE  /\ DOMAIN sure' = DOMAIN card' /\ \A c \in DOMAIN sure' : sure'[c] \in SUBSET Both
           /\ \A c \in DOMAIN card \cap DOMAIN card' : sure'[c] = Forget(lost, sure)[c]
           /\ \A c \in DOMAIN card' \ DOMAIN card : sure'[c] = {}
<1> DEFINE F == Forget(lost, sure)
<1>1. DOMAIN F = DOMAIN card /\ \A c \in DOMAIN card : F[c] \in {{}, sure[c]}
  BY Forgetting DEF Placed
<1>2. \A c \in DOMAIN card : sure[c] \in SUBSET Both   BY DEF Placed
<1>3. DOMAIN sure' = DOMAIN card' /\ \A c \in DOMAIN card' : sure'[c] = IF c \in DOMAIN F THEN F[c] ELSE {}
  BY KnowsAfter
<1> HIDE DEF F
<1>4. \A c \in DOMAIN card : F[c] \in SUBSET Both   BY <1>1, <1>2
<1>5. \A c \in DOMAIN sure' : sure'[c] \in SUBSET Both   BY <1>1, <1>3, <1>4
<1> QED BY <1>1, <1>3, <1>5 DEF F

\* What is known after the captured end of a command is known of open channels.
LEMMA DeterminedKnows ==
    ASSUME NEW apdu, NEW at, NEW known, OfChannels(apdu, known), NEW lost,
           Knows(lost, Determined(apdu, at, known))
    PROVE  DOMAIN sure' = DOMAIN card' /\ \A c \in DOMAIN sure' : sure'[c] \in SUBSET Both
<1> DEFINE D == Determined(apdu, at, known)
<1>1. DOMAIN sure' = DOMAIN card' /\ \A c \in DOMAIN card' : sure'[c] = IF c \in DOMAIN D THEN D[c] ELSE {}
  BY KnowsAfter
<1>2. DeterminedAs(apdu, at, known, D)   BY DeterminedIs
<1> HIDE DEF D
<1>3. \A c \in DOMAIN D : D[c] \in SUBSET Both   BY <1>2 DEF DeterminedAs
<1> QED BY <1>1, <1>3

\* A command that is answered at once.
LEMMA CommandFollows ==
    ASSUME MirrorIInv, Command
    PROVE  Placed' /\ Following'
<1>1. PICK cmd \in Commands, seen \in BOOLEAN :
         \E ans \in Answers(cmd) : \E n \in FirstByte(cmd, ans) : Commanded(cmd, seen, ans, n)
  BY DEF Command, Commanded
<1>2. PICK ans \in Answers(cmd) : \E n \in FirstByte(cmd, ans) : Commanded(cmd, seen, ans, n)
  BY <1>1
<1>3. PICK n \in FirstByte(cmd, ans) : Commanded(cmd, seen, ans, n)
  BY <1>2
<1> DEFINE apdu == Ended(cmd, ans.sw, n)
<1>4. /\ alive /\ card' = ans.card /\ pending' = None /\ due' = (IF seen THEN None ELSE due)
      /\ seen => input_tpdu(apdu)
      /\ ~seen => UNCHANGED <<last_cmd, lchan, alive, shown>>
      /\ CASE seen /\ due # None -> Confused
           [] seen /\ due = None -> Knows(Unseen, Determined(apdu, card[cmd.c], Forget(Unseen, sure)))
           [] ~seen -> Knows(Unseen \cup {cmd}, Forget(Unseen \cup {cmd}, sure))
  BY <1>3 DEF Commanded, Ended, Command, MayIssue, Packet
<1>5. IsTpdu(cmd) /\ apdu.kind = cmd.kind /\ apdu.c = cmd.c /\ apdu.arg = cmd.arg /\ apdu.sw = ans.sw
      /\ IsTpdu(apdu)
  BY CommandsAre, EndedFields
<1> HIDE DEF apdu
<1>6. /\ cmd.c \in DOMAIN card /\ 0 \in DOMAIN card' /\ \A c \in DOMAIN card' : card'[c] \in Places
      /\ Moves(cmd, ans)
  BY <1>4, CardPlaces DEF MirrorIInv
<1>7. Placed /\ IInv   BY DEF MirrorIInv
<1>8. CASE seen /\ due # None
  <2>1. trusted' = FALSE /\ sure' = [c \in DOMAIN card' |-> {}]   BY <1>4, <1>8 DEF Confused
  <2>2. Placed'   BY <1>4, <1>6, <2>1 DEF Placed
  <2> QED BY <2>1, <2>2 DEF Following
<1>9. CASE seen /\ due = None
  <2> DEFINE known == Forget(Unseen, sure)
  <2>1. Knows(Unseen, Determined(apdu, card[cmd.c], known))   BY <1>4, <1>9
  <2>2. apdu.sw # "more"   BY <1>5, AnswersAre
  <2>3. process(apdu)   BY <1>4, <1>5, <1>7, <1>9, <2>2, InputEnds DEF IInv
  <2>4. OfChannels(apdu, known)   BY <1>5, <1>6, <1>7, Forgetting DEF OfChannels, Placed
  <2>5. trusted' => trusted   BY <2>1, KnowsAfter
  <2>6. cmd.kind = "OPEN" => n = ans.n   BY <1>7, <1>9 DEF FirstByte, IInv, Held, Selects
  <2>7. DOMAIN sure' = DOMAIN card' /\ \A c \in DOMAIN sure' : sure'[c] \in SUBSET Both
    <3> HIDE DEF known
    <3> QED BY <2>1, <2>4, DeterminedKnows
  <2>8. ASSUME alive', trusted'
        PROVE  /\ \A c \in DOMAIN card' \cap DOMAIN lchan' : Agrees(sure'[c], lchan'[c], card'[c])
               /\ \A c \in DOMAIN lchan' : lchan'[c] \in Places
    <3>1. apdu = Ended(cmd, ans.sw, n)   BY DEF apdu
    <3> QED BY <1>4, <1>9, <2>1, <2>3, <2>5, <2>6, <2>8, <3>1, AtOnceFollows
  <2>9. Placed'   BY <1>4, <1>6, <2>7, <2>8 DEF Placed
  <2> QED BY <1>4, <2>8, <2>9, NothingPending
<1>10. CASE ~seen
  <2> DEFINE lost == Unseen \cup {cmd}
  <2>1. Knows(lost, Forget(lost, sure)) /\ UNCHANGED <<lchan, alive, due>>   BY <1>4, <1>10
  <2>2. /\ trusted' => trusted
        /\ trusted' => cmd.kind \notin Manages
    <3>1. cmd \in lost   OBVIOUS
    <3> DEFINE F == Forget(lost, sure)
    <3>2. Knows(lost, F)   BY <2>1
    <3> HIDE DEF lost, F
    <3>3. trusted' => trusted   BY <3>2, KnowsAfter
    <3>4. trusted' = (trusted /\ \A l \in lost : l.kind \notin Manages)   BY <3>2, Knowing
    <3> QED BY <3>1, <3>3, <3>4
  <2>3. /\ DOMAIN sure' = DOMAIN card' /\ \A c \in DOMAIN sure' : sure'[c] \in SUBSET Both
        /\ \A c \in DOMAIN card \cap DOMAIN card' : sure'[c] = Forget(lost, sure)[c]
    <3> HIDE DEF lost
    <3> QED BY <1>7, <2>1, LostKnows
  <2>4. Placed'   BY <1>4, <1>6, <1>7, <2>1, <2>2, <2>3 DEF Placed
  <2>5. ASSUME alive', trusted', NEW c \in DOMAIN card' \cap DOMAIN lchan'
        PROVE  Owing(c)' \/ Agrees(sure'[c], lchan'[c], card'[c])
    <3>1. DOMAIN card' = DOMAIN card   BY <1>4, <2>2, <2>5, AnswersAre
    <3>2. Agrees(Forget(lost, sure)[c], lchan[c], card[c]) \/ Owing(c)
      <4> Unseen \subseteq lost   OBVIOUS
      <4> HIDE DEF lost
      <4> QED BY <1>4, <2>1, <2>2, <2>5, <3>1, AgreesUnlessLost DEF MirrorIInv
    <3>3. Owing(c)' <=> Owing(c)   BY <2>1 DEF Owing
    <3>4. CASE cmd.kind \in Selects \cup {"PARENT"} /\ c = cmd.c
      <4>1. Forget(lost, sure)[cmd.c] = {}   BY <1>6, <1>7, <3>4, Forgetting DEF Placed
      <4>2. sure'[c] = {}   BY <2>3, <2>5, <3>1, <3>4, <4>1
      <4> HIDE DEF lost
      <4> QED BY <4>2, AgreesNothing
    <3>5. CASE ~(cmd.kind \in Selects \cup {"PARENT"} /\ c = cmd.c)
      <4>1. card'[c] = card[c]   BY <1>4, <1>6, <2>5, <3>1, <3>5 DEF Moves
      <4>2. sure'[c] = Forget(lost, sure)[c] /\ lchan' = lchan   BY <2>1, <2>3, <2>5, <3>1
      <4> QED BY <3>2, <3>3, <4>1, <4>2
    <3> QED BY <3>4, <3>5
  <2> QED BY <1>4, <2>4, <2>5, NothingPending
<1> QED BY <1>8, <1>9, <1>10

\* A command whose answer is to be fetched: the mirror is to follow.
LEMMA DeferredFollows ==
    ASSUME MirrorIInv, CommandDeferred
    PROVE  Placed' /\ Following'
<1>1. PICK cmd \in Commands, seen \in BOOLEAN : \E ans \in Answers(cmd) : Deferred(cmd, seen, ans)
  BY DEF CommandDeferred, Deferred, Deferrable
<1>2. PICK ans \in Answers(cmd) : Deferred(cmd, seen, ans)
  BY <1>1
<1> DEFINE lost == Unseen \cup (IF seen THEN {due} \ {None} ELSE {})
<1>3. /\ alive /\ card' = ans.card /\ due' = (IF seen THEN cmd ELSE due) /\ ans.sw = "ok"
      /\ cmd.kind \in Deferrable /\ Knows(lost, Forget(lost, sure))
      /\ Packet([cmd EXCEPT !.sw = "more"], seen)
      /\ pending' = [kind |-> "pending", cmd |-> cmd, n |-> ans.n, at |-> card[cmd.c], seen |-> seen]
  BY <1>2 DEF Deferred, CommandDeferred, MayIssue
<1>4. UNCHANGED <<lchan, alive>>
  <2>1. IsTpdu(cmd)   BY CommandsAre
  <2>2. Packet(Begun(cmd), seen) /\ Begun(cmd).sw = "more"   BY <1>3, <2>1, BegunFields DEF Begun
  <2> QED BY <2>2, InputBegins DEF Packet
<1>5. /\ cmd.c \in DOMAIN card /\ 0 \in DOMAIN card' /\ \A c \in DOMAIN card' : card'[c] \in Places
      /\ Moves(cmd, ans) /\ DOMAIN card \subseteq DOMAIN card'
  BY <1>3, CardPlaces DEF MirrorIInv, Deferrable
<1>6. Placed /\ IInv   BY DEF MirrorIInv
<1>7. /\ pending' # None /\ pending'.cmd = cmd /\ pending'.at = card[cmd.c] /\ pending'.seen = seen
      /\ pending'.n = ans.n
  BY <1>3 DEF None
<1>8. Unseen \subseteq lost /\ (seen /\ due # None => due \in lost)   OBVIOUS
<1> HIDE DEF lost
<1>9. /\ trusted' => trusted
      /\ DOMAIN sure' = DOMAIN card' /\ \A c \in DOMAIN sure' : sure'[c] \in SUBSET Both
      /\ \A c \in DOMAIN card \cap DOMAIN card' : sure'[c] = Forget(lost, sure)[c]
      /\ \A c \in DOMAIN card' \ DOMAIN card : sure'[c] = {}
  <2> DEFINE F == Forget(lost, sure)
  <2>1. Knows(lost, F)   BY <1>3
  <2>2. trusted' => trusted
    <3> HIDE DEF F
    <3> QED BY <2>1, KnowsAfter
  <2> QED BY <1>6, <2>1, <2>2, LostKnows
<1>10. Placed'
  <2>1. cmd.c \in DOMAIN card'   BY <1>5
  <2>2. card[cmd.c] \in Places   BY <1>5, <1>6 DEF Placed
  <2> QED BY <1>4, <1>5, <1>6, <1>7, <1>9, <2>1, <2>2, CommandsHaveArgs DEF Placed
<1>11. ToFetch'
  <2>1. cmd.kind \in Selects =>
          card'[cmd.c] \in CardSelects(card[cmd.c], cmd) /\ ans.n = Template(card'[cmd.c].file)
    BY <1>3, <1>5 DEF Moves, Carried
  <2>3. cmd.kind = "STATUS" => ans.n = Template(Cwd(card'[cmd.c].file))
    <3>1. ASSUME cmd.kind = "STATUS" PROVE cmd.c = 0 /\ card'[0] = card[0]
      BY <1>3, <1>5, <1>6, <3>1, CommandsAre DEF Moves, Selects, Placed
    <3> QED BY <1>3, <1>5, <3>1 DEF Moves
  <2>2. cmd.kind = "OPEN" => card'[ans.n] = Inherited(card', cmd.c)
    <3>1. ASSUME cmd.kind = "OPEN" PROVE card'[ans.n] = Inherited(card, cmd.c) /\ card'[cmd.c] = card[cmd.c]
      BY <1>3, <1>5, <3>1 DEF Moves, Selects
    <3> QED BY <3>1 DEF Inherited
  <2> QED BY <1>7, <2>1, <2>2, <2>3 DEF ToFetch
<1>12. ASSUME alive', trusted', NEW c \in DOMAIN card' \cap DOMAIN lchan' PROVE Follows(c)'
  <2>1. Executing(c)' <=> cmd.kind \in Selects /\ cmd.c = c   BY <1>7 DEF Executing
  <2>2. CASE c \notin DOMAIN card
    <3>1. sure'[c] = {}   BY <1>9, <1>12, <2>2
    <3>2. ~Executing(c)'   BY <1>5, <2>1, <2>2
    <3> QED BY <3>1, <3>2, AgreesNothing DEF Follows
  <2>3. CASE c \in DOMAIN card
    <3>1. \/ Agrees(sure'[c], lchan'[c], card[c])
          \/ due # None /\ due \notin lost /\ Owing(c)
      <4>1. \/ Agrees(Forget(lost, sure)[c], lchan[c], card[c])
            \/ due # None /\ due \notin lost /\ Owing(c)
        BY <1>3, <1>4, <1>8, <1>9, <1>12, <2>3, AgreesUnlessLost DEF MirrorIInv
      <4> QED BY <1>4, <1>9, <1>12, <2>3, <4>1
    <3>2. CASE Executing(c)'
      <4>1. seen => Agrees(sure'[c], lchan'[c], card[c])   BY <1>8, <3>1
      <4> QED BY <1>7, <2>1, <3>2, <4>1 DEF Follows
    <3>3. CASE ~Executing(c)'
      <4>1. card'[c] = card[c]   BY <1>3, <1>5, <1>12, <2>1, <2>3, <3>3 DEF Moves, Deferrable
      <4>2. CASE Agrees(sure'[c], lchan'[c], card[c])   BY <3>3, <4>1, <4>2 DEF Follows
      <4>3. CASE due # None /\ due \notin lost /\ Owing(c)
        <5>1. ~seen   BY <1>8, <4>3
        <5>2. due' = due   BY <1>3, <5>1
        <5>3. Owing(c)'   BY <4>3, <5>2 DEF Owing
        <5> QED BY <3>3, <5>3 DEF Follows
      <4> QED BY <3>1, <4>2, <4>3
    <3> QED BY <3>2, <3>3
  <2> QED BY <2>2, <2>3
<1> QED BY <1>10, <1>11, <1>12 DEF Following

\* A part of a long answer moves nothing.
LEMMA GetResponsePartFollows ==
    ASSUME MirrorIInv, GetResponsePart
    PROVE  Placed' /\ Following'
<1> DEFINE tpdu == [kind |-> "GETRESP", c |-> pending.cmd.c, arg |-> <<>>, to |-> 0, sw |-> "more", n |-> 0]
<1>1. input_tpdu(tpdu) /\ UNCHANGED <<card, pending, due, sure, trusted>>
  BY DEF GetResponsePart, Packet
<1>2. tpdu.sw = "more"   OBVIOUS
<1> HIDE DEF tpdu
<1>3. UNCHANGED <<lchan, alive>>   BY <1>1, <1>2, InputBegins
<1> QED BY <1>1, <1>3 DEF MirrorIInv, Placed, Following, Follows, ToFetch, Executing, Owing

\* A reset that is captured brings the mirror back.
LEMMA ResetFollows ==
    ASSUME MirrorIInv, Reset
    PROVE  Placed' /\ Following'
<1>1. PICK seen \in BOOLEAN :
         /\ card' = [c \in {0} |-> Fresh] /\ pending' = None
         /\ lchan' = (IF seen THEN reset(lchan) ELSE lchan) /\ trusted' = seen
         /\ sure' = [c \in {0} |-> Both] /\ UNCHANGED alive
  BY DEF Reset
<1>2. Fresh \in Places   BY FilesAre
<1>3. seen => \A c \in DOMAIN lchan' : c = 0 /\ lchan'[c] = Fresh   BY <1>1 DEF reset
<1>4. Placed'   BY <1>1, <1>2, <1>3 DEF Placed
<1>5. ASSUME trusted', NEW c \in DOMAIN card' \cap DOMAIN lchan' PROVE Agrees(sure'[c], lchan'[c], card'[c])
  BY <1>1, <1>3, <1>5 DEF Agrees
<1> QED BY <1>1, <1>4, <1>5, NothingPending

\* The end of an answer that is fetched, of the card and of the mirror.
LEMMA FetchedEnds ==
    ASSUME MirrorIInv, alive, trusted, pending # None, pending.seen, UNCHANGED card,
           NEW apdu, apdu = Ended(pending.cmd, "ok", pending.n)
    PROVE  /\ Ready(apdu, pending.at, sure) /\ Arrived(apdu, pending.at)
           /\ apdu.c \in DOMAIN lchan /\ apdu.c \in DOMAIN card
           /\ apdu.kind \in Selects => apdu.n = Template(card[apdu.c].file)
           /\ apdu.kind = "STATUS" => apdu.n = Template(Cwd(card[apdu.c].file))
<1>1. /\ IsTpdu(pending.cmd) /\ due = pending.cmd
      /\ (\A k \in DOMAIN card \cap DOMAIN lchan : Follows(k)) /\ ToFetch /\ ToFollow
      /\ pending.at \in Places /\ pending.cmd.c \in DOMAIN card /\ HasArg(pending.cmd)
  BY DEF MirrorIInv, IInv, Held, Mirrored, Following, Placed
<1>2. /\ apdu.kind = pending.cmd.kind /\ apdu.c = pending.cmd.c
      /\ apdu.arg = pending.cmd.arg /\ apdu.to = pending.cmd.to /\ apdu.sw = "ok" /\ apdu.n = pending.n
  BY <1>1, EndedFields
<1>3. HasArg(apdu)   BY <1>1, <1>2 DEF HasArg
<1>4. OfChannels(apdu, sure)   BY <1>1, <1>2 DEF OfChannels, Placed, MirrorIInv
<1>5. Ready(apdu, pending.at, sure)
  <2>1. ASSUME NEW k \in DOMAIN card \cap DOMAIN lchan, ~(apdu.kind \in Selects /\ k = apdu.c)
        PROVE  Agrees(sure[k], lchan[k], card[k])
    <3>1. ~Executing(k) /\ ~Owing(k)   BY <1>1, <1>2, <2>1 DEF Executing, Owing
    <3> QED BY <1>1, <2>1, <3>1 DEF Follows
  <2>2. ASSUME apdu.kind \in Selects, apdu.c \in DOMAIN lchan
        PROVE  Agrees(sure[apdu.c], lchan[apdu.c], pending.at)
    <3>1. Executing(apdu.c)   BY <1>2, <2>2 DEF Executing
    <3> QED BY <1>1, <1>2, <2>2, <3>1 DEF Follows
  <2> QED BY <1>1, <1>3, <1>4, <2>1, <2>2 DEF Ready
<1>6. Arrived(apdu, pending.at)
  <2>1. ASSUME apdu.kind \in Selects
        PROVE  card'[apdu.c] \in CardSelects(pending.at, apdu)
    <3>1. CardSelects(pending.at, apdu) = CardSelects(pending.at, pending.cmd)
      BY <1>2, <2>1, SameSelection
    <3> QED BY <1>1, <1>2, <2>1, <3>1 DEF ToFetch
  <2>2. ASSUME apdu.kind = "OPEN"
        PROVE  Opened(apdu) = apdu.n /\ card'[apdu.n] = Inherited(card, apdu.c)
    <3>1. Opened(apdu) = apdu.n   BY <1>1, <1>2, <2>2 DEF ToFollow, Opened
    <3> QED BY <1>1, <1>2, <2>2, <3>1 DEF ToFetch
  <2> QED BY <1>2, <2>1, <2>2 DEF Arrived, Carried
<1>7. /\ apdu.c \in DOMAIN lchan /\ apdu.c \in DOMAIN card
      /\ apdu.kind \in Selects => apdu.n = Template(card[apdu.c].file)
      /\ apdu.kind = "STATUS" => apdu.n = Template(Cwd(card[apdu.c].file))
  BY <1>1, <1>2 DEF ToFollow, ToFetch
<1> QED BY <1>5, <1>6, <1>7

\* The end of an answer: the mirror follows.
LEMMA GetResponseFollows ==
    ASSUME MirrorIInv, GetResponse, IInv'
    PROVE  Placed' /\ Following'
<1> DEFINE tpdu == [kind |-> "GETRESP", c |-> pending.cmd.c, arg |-> <<>>, to |-> 0, sw |-> "ok", n |-> pending.n]
           apdu == Ended(pending.cmd, "ok", pending.n)
<1>1. PICK seen \in BOOLEAN :
         /\ alive /\ pending # None /\ pending' = None /\ UNCHANGED card
         /\ Packet(tpdu, seen)
         /\ due' = IF seen THEN None ELSE due
         /\ CASE seen /\ pending.seen -> Knows({}, Determined(apdu, pending.at, sure))
              [] seen /\ ~pending.seen /\ due # None -> Confused
              [] OTHER -> Knows({pending.cmd}, Forget({pending.cmd}, sure))
  BY DEF GetResponse, Ended
<1>2. /\ IsTpdu(pending.cmd) /\ pending.cmd.kind \in Deferrable /\ pending.seen \in BOOLEAN
      /\ pending.seen => due = pending.cmd /\ due # None
  <2>1. IsTpdu(pending.cmd) /\ pending.cmd.kind \in Deferrable /\ pending.seen \in BOOLEAN
        /\ (pending.seen => due = pending.cmd)
    BY <1>1 DEF MirrorIInv, IInv, Held
  <2>2. pending.cmd.kind # "none"
    BY <2>1 DEF Deferrable
  <2> QED BY <2>1, <2>2, NotNone
<1>3. IsTpdu(tpdu) /\ tpdu.sw = "ok" /\ tpdu.n = pending.n /\ tpdu.kind = "GETRESP"
  BY DEF IsTpdu
<1>4. /\ IsTpdu(apdu) /\ apdu.kind = pending.cmd.kind /\ apdu.c = pending.cmd.c
      /\ apdu.arg = pending.cmd.arg /\ apdu.to = pending.cmd.to /\ apdu.sw = "ok" /\ apdu.n = pending.n
  BY <1>2, EndedFields
<1> HIDE DEF tpdu, apdu
<1>5. /\ Placed /\ IInv /\ pending.at \in Places /\ pending.cmd.c \in DOMAIN card /\ HasArg(pending.cmd)
      /\ 0 \in DOMAIN card /\ \A c \in DOMAIN card : card[c] \in Places
  BY <1>1 DEF MirrorIInv, Placed
<1>6. CASE seen /\ pending.seen
  <2>1. Knows({}, Determined(apdu, pending.at, sure)) /\ input_tpdu(tpdu) /\ due' = None
    BY <1>1, <1>6 DEF Packet
  <2>2. process(Ended(due, tpdu.sw, tpdu.n))   BY <1>2, <1>3, <1>5, <1>6, <2>1, InputEnds DEF IInv
  <2>3. process(apdu)
    <3>1. Ended(due, tpdu.sw, tpdu.n) = apdu   BY <1>2, <1>3, <1>6 DEF apdu
    <3> QED BY <2>2, <3>1
  <2>4. OfChannels(apdu, sure)   BY <1>4, <1>5 DEF OfChannels, Placed
  <2>5. DOMAIN sure' = DOMAIN card' /\ \A c \in DOMAIN sure' : sure'[c] \in SUBSET Both
    BY <2>1, <2>4, DeterminedKnows
  <2>6. trusted' => trusted   BY <2>1, KnowsAfter
  <2>7. HasArg(apdu)   BY <1>4, <1>5 DEF HasArg
  <2>8. Placed'   BY <1>1, <1>5, <2>3, <2>5, <2>6, <2>7, LchanPlaces DEF Placed
  <2>9. ASSUME alive', trusted', NEW c \in DOMAIN card' \cap DOMAIN lchan'
        PROVE  Agrees(sure'[c], lchan'[c], card'[c])
    <3>1. Ready(apdu, pending.at, sure) /\ Arrived(apdu, pending.at)
      BY <1>1, <1>6, <2>6, <2>9, FetchedEnds DEF apdu
    <3> QED BY <1>1, <1>5, <2>1, <2>3, <2>6, <2>9, <3>1, EndFollows
  <2> QED BY <1>1, <2>8, <2>9, NothingPending
<1>7. CASE seen /\ ~pending.seen /\ due # None
  <2>1. trusted' = FALSE /\ sure' = [c \in DOMAIN card' |-> {}]   BY <1>1, <1>7 DEF Confused
  <2>2. Placed'   BY <1>1, <1>5, <2>1 DEF Placed
  <2> QED BY <2>1, <2>2 DEF Following
<1>8. CASE ~(seen /\ pending.seen) /\ ~(seen /\ ~pending.seen /\ due # None)
  <2> DEFINE lost == {pending.cmd}
  <2>1. Knows(lost, Forget(lost, sure))   BY <1>1, <1>8
  <2>2. /\ DOMAIN sure' = DOMAIN card' /\ \A c \in DOMAIN sure' : sure'[c] \in SUBSET Both
        /\ \A c \in DOMAIN card \cap DOMAIN card' : sure'[c] = Forget(lost, sure)[c]
        /\ trusted' => trusted
    <3> HIDE DEF lost
    <3>1. trusted' => trusted
      <4> DEFINE F == Forget(lost, sure)
      <4>1. Knows(lost, F)   BY <2>1
      <4> HIDE DEF F
      <4> QED BY <4>1, KnowsAfter
    <3> QED BY <1>5, <2>1, <3>1, LostKnows
  <2>3. lchan' = lchan
    <3>1. CASE ~seen   BY <1>1, <3>1 DEF Packet
    <3>2. CASE seen
      <4>1. due = None /\ input_tpdu(tpdu)   BY <1>1, <1>8, <3>2 DEF Packet
      <4>2. process(tpdu)   BY <1>3, <1>5, <4>1, InputEnds DEF IInv
      <4> QED BY <1>3, <4>2 DEF process, Processed, Selects
    <3> QED BY <3>1, <3>2
  <2>4. Placed'   BY <1>1, <1>5, <2>2, <2>3 DEF Placed
  <2>5. ASSUME alive', trusted', NEW c \in DOMAIN card' \cap DOMAIN lchan'
        PROVE  Owing(c)' \/ Agrees(sure'[c], lchan'[c], card'[c])
    <3>1. Unseen \subseteq lost   BY DEF Unseen, Unfetched
    <3>2. \/ Agrees(Forget(lost, sure)[c], lchan[c], card[c])
          \/ due # None /\ Owing(c)
      <4> HIDE DEF lost
      <4> QED BY <1>1, <1>5, <2>2, <2>3, <2>5, <3>1, AgreesUnlessLost DEF MirrorIInv
    <3>3. due # None => due' = due   BY <1>1, <1>2, <1>8
    <3>4. due # None /\ Owing(c) => Owing(c)'   BY <3>3 DEF Owing
    <3> QED BY <1>1, <2>2, <2>3, <2>5, <3>2, <3>4
  <2> QED BY <1>1, <2>4, <2>5, NothingPending
<1> QED BY <1>6, <1>7, <1>8

-----------------------------------------------------------------------------
\* The mirror starts with the card.
LEMMA InitMirrors == Init => MirrorIInv
<1> SUFFICES ASSUME Init PROVE MirrorIInv
  OBVIOUS
<1>1. IInv   BY InitIInv
<1>2. Placed   BY FilesAre DEF Init, Placed
<1>3. Following   BY DEF Init, Following, Follows, ToFetch, Executing, Agrees
<1> QED BY <1>1, <1>2, <1>3 DEF MirrorIInv

\* Every step keeps the mirror with the card.
LEMMA NextMirrors == MirrorIInv /\ [Next]_vars => MirrorIInv'
<1> SUFFICES ASSUME MirrorIInv, [Next]_vars PROVE MirrorIInv'
  OBVIOUS
<1>1. IInv'   BY NextIInv DEF MirrorIInv
<1>2. CASE UNCHANGED vars
  BY <1>1, <1>2 DEF vars, MirrorIInv, Placed, Following, Follows, ToFetch, Executing, Owing
<1>3. CASE Next
  <2>1. Placed' /\ Following'
    BY <1>1, <1>3, CommandFollows, DeferredFollows, GetResponseFollows, GetResponsePartFollows,
       ResetFollows DEF Next
  <2> QED BY <1>1, <2>1 DEF MirrorIInv
<1> QED BY <1>2, <1>3

\* The mirror differs from the card only by the commands of which it has not seen
\* the end, and by what the capture does not determine.
THEOREM MirrorInvariant == Spec => []MirrorIInv
BY InitMirrors, NextMirrors, PTL DEF Spec

\* On every channel the mirror has the card's selected file and application as far as
\* the capture determines them (UiccSelect.process_on_lchan, RuntimeState.reset,
\* RuntimeLchan.add_lchan).
THEOREM SelectionFollowed == Spec => []SelectedFollows
<1>1. MirrorIInv => SelectedFollows
  BY DEF MirrorIInv, Following, Follows, Executing, Owing, Agrees, SelectedFollows, Settled
<1> QED BY <1>1, MirrorInvariant, PTL

-----------------------------------------------------------------------------
(***************************************************************************)
(* What stops the tracer.  A template in a response is that of the file    *)
(* the card has selected; the mirror has the same file where the capture   *)
(* determines it.                                                          *)
(***************************************************************************)
\* STATUS describes the current DF, in the template that the file in it would have.
LEMMA SameTemplate ==
    ASSUME NEW f \in File
    PROVE  Template(Cwd(f)) = Template(f)
BY TraceAssumption DEF Template, Cwd

\* The decoder takes what the card answers, if the capture determines the file.
LEMMA NotMisled ==
    ASSUME NEW apdu, NEW at, NEW known, NEW lost, Ready(apdu, at, known), Arrived(apdu, at),
           Placed, alive, trusted, Knows(lost, Determined(apdu, at, known)),
           apdu.c \in DOMAIN lchan, apdu.c \in DOMAIN card', apdu.kind \in Selects \cup {"STATUS"},
           apdu.kind \in Selects /\ apdu.sw = "ok" => apdu.n \in {NoByte, Template(card'[apdu.c].file)},
           apdu.kind = "STATUS" => apdu.n = Template(Cwd(card[apdu.c].file)),
           "place" \in sure'[apdu.c]
    PROVE  ~Misled(apdu)
<1> DEFINE D == Determined(apdu, at, known)
           c == apdu.c
<1>1. c \in DOMAIN card /\ c \in DOMAIN known /\ known[c] \in SUBSET Both   BY DEF Ready, OfChannels
<1>2. sure'[c] = D[c]
  <2>1. DeterminedAs(apdu, at, known, D)   BY DeterminedIs DEF Ready
  <2>2. apdu.kind # "OPEN"   BY DEF Selects
  <2>3. c \in DOMAIN D   BY <1>1, <2>1, <2>2 DEF DeterminedAs
  <2>4. sure'[c] = IF c \in DOMAIN D THEN D[c] ELSE {}   BY KnowsAfter
  <2> QED BY <2>3, <2>4
<1>3. CASE apdu.kind = "STATUS"
  <2>1. D[c] = known[c]   BY <1>3 DEF Determined, Selects
  <2>2. Agrees(known[c], lchan[c], card[c])   BY <1>1, <1>3 DEF Ready, Selects
  <2>3. lchan[c].file = card[c].file   BY <1>2, <2>1, <2>2 DEF Agrees
  <2>4. card[c].file \in File   BY <1>1 DEF Placed, Places
  <2>5. Template(Cwd(card[c].file)) = Template(card[c].file)   BY <2>4, SameTemplate
  <2> QED BY <1>3, <2>3, <2>5 DEF Misled, Selects
<1>4. CASE apdu.kind \in Selects
  <2> SUFFICES ASSUME apdu.sw = "ok", apdu.kind # "SFI"
               PROVE  Template(card'[c].file) = Template(UiccSelect(lchan[c], apdu).file)
    BY <1>4 DEF Misled, Selects
  <2>1. at \in Places /\ Agrees(known[c], lchan[c], at) /\ HasArg(apdu) /\ lchan[c] \in Places
    BY <1>4 DEF Ready, Placed
  <2>2. card'[c] \in CardSelects(at, apdu)   BY <1>4 DEF Arrived, Carried
  <2>3. Agrees(Followed(apdu, at, known[c]), MirrorOf(lchan[c], apdu), card'[c])
    <3>1. PICK k, m, p : k = known[c] /\ m = lchan[c] /\ p = card'[c]   OBVIOUS
    <3> HIDE DEF c
    <3>2. Agrees(Followed(apdu, at, k), MirrorOf(m, apdu), p)
      BY <1>1, <1>4, <2>1, <2>2, <3>1, SelectFollows
    <3> QED BY <3>1, <3>2
  <2>4. D[c] = Followed(apdu, at, known[c])
    <3>1. DeterminedAs(apdu, at, known, D)   BY DeterminedIs DEF Ready
    <3> QED BY <1>4, <3>1 DEF DeterminedAs
  <2>5. MirrorOf(lchan[c], apdu).file = card'[c].file   BY <1>2, <2>3, <2>4 DEF Agrees
  <2> QED BY <2>5 DEF MirrorOf
<1> QED BY <1>3, <1>4

\* A command that is answered at once does not stop it so.
LEMMA CommandDecoded ==
    ASSUME MirrorIInv, Command, ~alive', trusted', Misled(ended'),
           ~(ended'.kind = "STATUS" /\ ended'.sw # "ok")
    PROVE  ended'.kind \in Selects \cup {"STATUS"} /\ "place" \notin sure'[ended'.c]
<1>1. PICK cmd \in Commands, seen \in BOOLEAN :
         \E ans \in Answers(cmd) : \E n \in FirstByte(cmd, ans) : Commanded(cmd, seen, ans, n)
  BY DEF Command, Commanded
<1>2. PICK ans \in Answers(cmd) : \E n \in FirstByte(cmd, ans) : Commanded(cmd, seen, ans, n)
  BY <1>1
<1>3. PICK n \in FirstByte(cmd, ans) : Commanded(cmd, seen, ans, n)
  BY <1>2
<1>4. PICK apdu : apdu = Ended(cmd, ans.sw, n)   OBVIOUS
<1>5. /\ alive /\ card' = ans.card /\ ended' = (IF seen THEN apdu ELSE None)
      /\ ~seen => UNCHANGED alive
      /\ CASE seen /\ due # None -> Confused
           [] seen /\ due = None -> Knows(Unseen, Determined(apdu, card[cmd.c], Forget(Unseen, sure)))
           [] ~seen -> Knows(Unseen \cup {cmd}, Forget(Unseen \cup {cmd}, sure))
  BY <1>3, <1>4 DEF Commanded, Ended, Command, MayIssue, Packet
<1>6. seen /\ due = None   BY <1>5 DEF Confused
<1>7. /\ apdu.kind = cmd.kind /\ apdu.c = cmd.c /\ apdu.sw = ans.sw /\ apdu.n = n /\ ended' = apdu
  BY <1>4, <1>5, <1>6, CommandsAre, EndedFields
<1>8. apdu.kind \in Selects \cup {"STATUS"}   BY <1>7 DEF Misled
<1>9. trusted /\ trusted' = (trusted /\ \A l \in Unseen : l.kind \notin Manages)
  <2> DEFINE D == Determined(apdu, card[cmd.c], Forget(Unseen, sure))
  <2>1. Knows(Unseen, D)   BY <1>5, <1>6
  <2> HIDE DEF D
  <2> QED BY <2>1, Knowing, KnowsAfter
<1>10. n = IF cmd.kind = "STATUS" THEN ans.n ELSE IF cmd.kind = "SFI" THEN n ELSE NoByte
  BY <1>7, <1>8 DEF FirstByte, Selects
<1>11. apdu.kind = "STATUS" /\ apdu.sw = "ok"   BY <1>7, <1>8, <1>10 DEF Misled
<1>12. cmd.c = 0 /\ 0 \in DOMAIN card /\ Moves(cmd, ans) /\ 0 \in DOMAIN card'
  BY <1>5, <1>7, <1>11, CommandsAre, CardPlaces DEF MirrorIInv, Placed
<1>13. DOMAIN lchan = DOMAIN card   BY <1>5, <1>6, <1>9, Leaving DEF MirrorIInv, IInv
<1>14. apdu.n = Template(Cwd(card[apdu.c].file))   BY <1>7, <1>10, <1>11, <1>12 DEF Moves
<1>15. Ready(apdu, card[cmd.c], Forget(Unseen, sure)) /\ Arrived(apdu, card[cmd.c])
  <2>1. cmd.kind # "PARENT" /\ cmd.kind # "OPEN"   BY <1>7, <1>11
  <2> QED BY <1>4, <1>5, <1>6, <1>9, <2>1, AtOnceEnds
<1>16. "place" \notin sure'[apdu.c]
  <2>1. Knows(Unseen, Determined(apdu, card[cmd.c], Forget(Unseen, sure)))   BY <1>5, <1>6
  <2>2. apdu.kind \notin Selects   BY <1>11 DEF Selects
  <2> QED BY <1>5, <1>7, <1>8, <1>9, <1>11, <1>12, <1>13, <1>14, <1>15, <2>1, <2>2, NotMisled DEF MirrorIInv
<1> QED BY <1>7, <1>8, <1>16

\* Nor does the end of an answer that is fetched.
LEMMA FetchedDecoded ==
    ASSUME MirrorIInv, GetResponse, ~alive', trusted', Misled(ended')
    PROVE  ended'.kind \in Selects \cup {"STATUS"} /\ "place" \notin sure'[ended'.c]
<1> DEFINE tpdu == [kind |-> "GETRESP", c |-> pending.cmd.c, arg |-> <<>>, to |-> 0, sw |-> "ok", n |-> pending.n]
<1>1. PICK apdu : apdu = Ended(pending.cmd, "ok", pending.n)   OBVIOUS
<1>2. PICK seen \in BOOLEAN :
         /\ alive /\ pending # None /\ UNCHANGED card
         /\ ended' = CASE ~seen \/ (due # None /\ ~pending.seen) -> None
                       [] seen /\ due = None -> tpdu
                       [] OTHER -> apdu
         /\ CASE seen /\ pending.seen -> Knows({}, Determined(apdu, pending.at, sure))
              [] seen /\ ~pending.seen /\ due # None -> Confused
              [] OTHER -> Knows({pending.cmd}, Forget({pending.cmd}, sure))
  BY <1>1 DEF GetResponse, Ended
<1>3. IsTpdu(pending.cmd) /\ pending.seen \in BOOLEAN /\ (pending.seen => due = pending.cmd /\ due # None)
  <2>1. IsTpdu(pending.cmd) /\ pending.seen \in BOOLEAN /\ (pending.seen => due = pending.cmd)
        /\ pending.cmd.kind # "none"
    BY <1>2 DEF MirrorIInv, IInv, Held, Deferrable
  <2> QED BY <2>1, NotNone
<1>4. ended'.kind \in Selects \cup {"STATUS"}   BY DEF Misled
<1>5. seen /\ pending.seen /\ ended' = apdu
  <2>1. tpdu.kind = "GETRESP" /\ None.kind = "none"   BY DEF None
  <2>2. ended' # tpdu /\ ended' # None   BY <1>4, <2>1 DEF Selects
  <2> HIDE DEF tpdu
  <2> QED BY <1>2, <1>3, <2>2 DEF Confused
<1>6. Knows({}, Determined(apdu, pending.at, sure))   BY <1>2, <1>5
<1>7. trusted
  <2> DEFINE D == Determined(apdu, pending.at, sure)
  <2>1. Knows({}, D)   BY <1>6
  <2> HIDE DEF D
  <2> QED BY <2>1, KnowsAfter
<1>8. /\ Ready(apdu, pending.at, sure) /\ Arrived(apdu, pending.at)
      /\ apdu.c \in DOMAIN lchan /\ apdu.c \in DOMAIN card'
      /\ apdu.kind \in Selects => apdu.n = Template(card'[apdu.c].file)
      /\ apdu.kind = "STATUS" => apdu.n = Template(Cwd(card[apdu.c].file))
  BY <1>1, <1>2, <1>5, <1>7, FetchedEnds
<1>9. "place" \notin sure'[apdu.c]
  BY <1>2, <1>4, <1>5, <1>6, <1>7, <1>8, NotMisled DEF MirrorIInv
<1> QED BY <1>4, <1>5, <1>9

\* Only the end of a command is processed.
LEMMA StaysAlive ==
    ASSUME IInv, CommandDeferred \/ GetResponsePart \/ Reset
    PROVE  alive' = alive
<1>1. CASE Reset   BY <1>1 DEF Reset
<1>2. CASE GetResponsePart
  <2> DEFINE tpdu == [kind |-> "GETRESP", c |-> pending.cmd.c, arg |-> <<>>, to |-> 0, sw |-> "more", n |-> 0]
  <2>1. input_tpdu(tpdu) /\ tpdu.sw = "more"   BY <1>2 DEF GetResponsePart, Packet
  <2> HIDE DEF tpdu
  <2> QED BY <2>1, InputBegins
<1>3. CASE CommandDeferred
  <2>1. PICK cmd \in Commands, seen \in BOOLEAN : \E ans \in Answers(cmd) : Deferred(cmd, seen, ans)
    BY <1>3 DEF CommandDeferred, Deferred, Deferrable
  <2>2. Packet(Begun(cmd), seen) /\ Begun(cmd).sw = "more"
    BY <2>1, CommandsAre, BegunFields DEF Deferred, Begun
  <2> QED BY <2>2, InputBegins DEF Packet
<1> QED BY <1>1, <1>2, <1>3

\* What stops the tracer is a command it does not handle, data a decoder does not take,
\* or a file the capture does not determine (Tracer.main catches no exception).
THEOREM StopsJustified == Spec => StopsOnlyUnhandled
<1>1. ASSUME MirrorIInv, [Next]_vars, alive, ~alive'
      PROVE  \/ ~trusted'
             \/ ended'.kind \in {"GP", "PARENT", "SFI", "DATA"}
             \/ (ended'.kind = "STATUS" /\ ended'.sw # "ok")
             \/ (ended'.kind \in Selects \cup {"STATUS"} /\ "place" \notin sure'[ended'.c])
  <2>1. Stop /\ Next   BY <1>1, NextIInv DEF MirrorIInv, vars
  <2>2. ~CommandDeferred /\ ~GetResponsePart /\ ~Reset
    BY <1>1, StaysAlive DEF MirrorIInv
  <2> QED BY <1>1, <2>1, <2>2, CommandDecoded, FetchedDecoded DEF Stop, Next
<1>2. MirrorIInv /\ [Next]_vars =>
        [alive /\ ~alive' => \/ ~trusted'
                             \/ ended'.kind \in {"GP", "PARENT", "SFI", "DATA"}
                             \/ (ended'.kind = "STATUS" /\ ended'.sw # "ok")
                             \/ (ended'.kind \in Selects \cup {"STATUS"} /\ "place" \notin sure'[ended'.c])]_vars
  BY <1>1
<1> QED BY <1>2, MirrorInvariant, PTL DEF Spec, StopsOnlyUnhandled

=============================================================================
