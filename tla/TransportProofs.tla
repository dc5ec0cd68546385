---------------------------- MODULE TransportProofs ----------------------------
(***************************************************************************)
(* Proofs about Transport, for the driver of pcscd and for one that        *)
(* flushes its line before it writes a command.  What is on its way then   *)
(* comes in behind the flush; the invariants are in two parts, one for the *)
(* calls during which this does not happen, one for all.                   *)
(***************************************************************************)
EXTENDS Transport, SequenceTheorems, TLAPS

(***************************************************************************)
(* The types.                                                              *)
(***************************************************************************)
Apdus == [ins : {"command", "get_response", "fetch", "terminal_response"}, id : Nat,
          case : Nat, size : Nat, le : Nat, want : {"9000", "9xxx", "none"}]
FirstBytes == {"90", "91", "61", "62", "6c", "6f"}
SWs   == [first : FirstBytes, n : Nat]
Parts == Nat \X Nat
Cards == [avail : Seq(Parts), queue : Seq(Nat), fetched : Nat, issued : Nat,
          executed : [1 .. MaxCalls -> Nat], answered : Seq(Nat)]
Requests == [at : {"send"}, apdu : Apdus, tpdu : Apdus, data : Seq(Parts), again : BOOLEAN]
Answered == [at : {"done"}, apdu : Apdus, data : Seq(Parts), sw : SWs]
Frames == [apdu : Apdus, at : {"command", "loop", "fetch", "response"}, data : Seq(Parts), sw : SWs, last : SWs, pcmd : Nat]
Answers == [card : Cards, data : Seq(Parts), sw : SWs]
LateAnswers == [data : Seq(Parts), sw : SWs]

Good(sw) == sw.first \in {"90", "91"}
Incremented(executed, id) == [executed EXCEPT ![id] = @ + 1]

-----------------------------------------------------------------------------
(***************************************************************************)
(* What the card may answer.                                               *)
(***************************************************************************)
LEMMA ResponseType ==
  ASSUME NEW apdu \in Apdus
  PROVE  Response(apdu) \in Seq(Parts) /\ Len(Response(apdu)) = apdu.size
<1>1. apdu.size \in Nat /\ apdu.id \in Nat
  BY DEF Apdus
<1>2. \A i \in 1 .. apdu.size : <<apdu.id, i>> \in Parts
  BY <1>1 DEF Parts
<1> QED
  BY <1>1, <1>2 DEF Response

LEMMA SWFields ==
  ASSUME NEW first \in FirstBytes, NEW n \in Nat
  PROVE  SW(first, n) \in SWs /\ SW(first, n).first = first /\ SW(first, n).n = n
BY DEF SW, SWs

LEMMA DoneType ==
  ASSUME NEW c
  PROVE  Done(c) \in SWs /\ Good(Done(c)) /\ Success \in SWs /\ Error \in SWs
         /\ Success.first = "90" /\ Error.first = "6f"
BY DEF Done, SWs, FirstBytes, SW, Success, Error, Good

LEMMA WithAvailable ==
  ASSUME NEW c \in Cards, NEW a \in Seq(Parts)
  PROVE  /\ [c EXCEPT !.avail = a] \in Cards
         /\ [c EXCEPT !.avail = a].executed = c.executed
         /\ [c EXCEPT !.avail = a].avail = a
         /\ [c EXCEPT !.avail = a].queue = c.queue
BY DEF Cards

LEMMA NotAvailable ==
  ASSUME NEW c \in Cards
  PROVE  /\ [c EXCEPT !.avail = <<>>] \in Cards
         /\ [c EXCEPT !.avail = <<>>].executed = c.executed
         /\ [c EXCEPT !.avail = <<>>].avail = <<>>
         /\ [c EXCEPT !.avail = <<>>].queue = c.queue
<1>1. <<>> \in Seq(Parts)
  OBVIOUS
<1> QED
  BY <1>1, WithAvailable

LEMMA WithQueue ==
  ASSUME NEW c \in Cards, NEW i \in Nat, NEW q \in Seq(Nat)
  PROVE  /\ [c EXCEPT !.issued = i, !.queue = q] \in Cards
         /\ [c EXCEPT !.issued = i, !.queue = q].executed = c.executed
         /\ [c EXCEPT !.issued = i, !.queue = q].avail = c.avail
BY DEF Cards

LEMMA AskingKeeps ==
  ASSUME NEW c \in Cards, NEW d \in Asking(c)
  PROVE  d \in Cards /\ d.executed = c.executed /\ d.avail = c.avail
<1>1. CASE d = c
  BY <1>1
<1>2. CASE d # c
  <2>1. d = [c EXCEPT !.issued = c.issued + 1, !.queue = Append(c.queue, c.issued + 1)]
    BY <1>2 DEF Asking
  <2>2. c.issued \in Nat /\ c.queue \in Seq(Nat)
    BY DEF Cards
  <2>3. c.issued + 1 \in Nat /\ Append(c.queue, c.issued + 1) \in Seq(Nat)
    BY <2>2
  <2> QED
    BY <2>1, <2>3, WithQueue
<1> QED
  BY <1>1, <1>2

LEMMA IncrementedType ==
  ASSUME NEW S, NEW f \in [S -> Nat], NEW id \in S
  PROVE  Incremented(f, id) \in [S -> Nat]
BY DEF Incremented

LEMMA CarriedOut ==
  ASSUME NEW c \in Cards, NEW id \in 1 .. MaxCalls
  PROVE  /\ Carried(c, id) \in Cards
         /\ Carried(c, id).executed = Incremented(c.executed, id)
         /\ Carried(c, id).avail = c.avail
<1> DEFINE e == Incremented(c.executed, id)
<1>1. c.executed \in [1 .. MaxCalls -> Nat]
  BY DEF Cards
<1>2. e \in [1 .. MaxCalls -> Nat]
  <2> DEFINE f == c.executed
  <2>1. f \in [1 .. MaxCalls -> Nat]
    BY <1>1
  <2> HIDE DEF f
  <2>2. Incremented(f, id) \in [1 .. MaxCalls -> Nat]
    BY <2>1, IncrementedType
  <2> QED
    BY <2>2 DEF f
<1>3. Carried(c, id) = [c EXCEPT !.executed = e]
  BY DEF Carried, Cards, Incremented
<1> HIDE DEF e
<1>4. [c EXCEPT !.executed = e] \in Cards
  BY <1>2 DEF Cards
<1>5. [c EXCEPT !.executed = e].executed = e /\ [c EXCEPT !.executed = e].avail = c.avail
  BY DEF Cards
<1> QED
  BY <1>3, <1>4, <1>5 DEF e

LEMMA AnswerFields ==
  ASSUME NEW c \in Cards, NEW data \in Seq(Parts), NEW sw \in SWs
  PROVE  /\ Answer(c, data, sw) \in Answers
         /\ Answer(c, data, sw).card = c
         /\ Answer(c, data, sw).data = data
         /\ Answer(c, data, sw).sw = sw
BY DEF Answer, Answers

LEMMA AnswerNothing ==
  ASSUME NEW c \in Cards, NEW sw \in SWs
  PROVE  /\ Answer(c, <<>>, sw) \in Answers
         /\ Answer(c, <<>>, sw).card = c
         /\ Answer(c, <<>>, sw).data = <<>>
         /\ Answer(c, <<>>, sw).sw = sw
BY DEF Answer, Answers

\* A command is repeated with the right length, or it is carried out: then it
\* fails, or its response is given, or it is there to be fetched.
LEMMA CommandAnswered ==
  ASSUME TransportAssumption,
         NEW c \in Cards, NEW tpdu \in Apdus, tpdu.id \in 1 .. MaxCalls,
         NEW protocol, NEW ans \in CommandAnswers(c, tpdu, protocol)
  PROVE  /\ ans \in Answers
         /\ \/ /\ ans.sw.first = "6c" /\ ans.card.executed = c.executed
            \/ /\ ans.card.executed = Incremented(c.executed, tpdu.id)
               /\ \/ ans.sw.first = "6f"
                  \/ /\ ans.sw.first \in {"61", "62"}
                     /\ ans.data = <<>> /\ ans.card.avail = Response(tpdu)
                  \/ /\ ans.sw.first \in {"90", "91", "62"}
                     /\ ans.data = Response(tpdu) /\ ans.card.avail = <<>>
<1> DEFINE c1 == [c EXCEPT !.avail = <<>>]
           done == Carried(c1, tpdu.id)
<1>1. c1 \in Cards /\ c1.executed = c.executed /\ c1.avail = <<>>
  BY NotAvailable
<1>2. done \in Cards /\ done.executed = Incremented(c.executed, tpdu.id) /\ done.avail = <<>>
  BY <1>1, CarriedOut
<1>3. <<>> \in Seq(Parts) /\ Response(tpdu) \in Seq(Parts)
  BY ResponseType
<1>4. tpdu.size \in Nat /\ MaxSize \in Nat /\ MaxPart \in Nat
  BY DEF Apdus, TransportAssumption
<1>5. \/ ans = Answer(c1, <<>>, SW("6c", tpdu.size))
      \/ ans = Answer(done, <<>>, Error)
      \/ \E d \in Asking(done) :
            \/ ans \in Announced(d, tpdu)
            \/ ans \in {Answer(d, Response(tpdu), Done(d)),
                        Answer(d, Response(tpdu), SW("62", MaxSize + 1))}
  BY DEF CommandAnswers
<1> HIDE DEF c1, done
<1>6. CASE ans = Answer(c1, <<>>, SW("6c", tpdu.size))
  <2>1. SW("6c", tpdu.size) \in SWs /\ SW("6c", tpdu.size).first = "6c"
    BY <1>4, SWFields DEF FirstBytes
  <2> QED
    BY <1>1, <1>6, <2>1, AnswerNothing
<1>7. CASE ans = Answer(done, <<>>, Error)
  BY <1>2, <1>7, DoneType, AnswerNothing
<1>8. ASSUME NEW d \in Asking(done), ans \in Announced(d, tpdu)
      PROVE  /\ ans \in Answers
             /\ ans.card.executed = done.executed
             /\ ans.sw.first \in {"61", "62"}
             /\ ans.data = <<>> /\ ans.card.avail = Response(tpdu)
  <2> DEFINE ready == [d EXCEPT !.avail = Response(tpdu)]
             n == IF tpdu.size < MaxPart THEN tpdu.size ELSE MaxPart
  <2>1. d \in Cards /\ d.executed = done.executed
    BY <1>2, AskingKeeps
  <2>2. ready \in Cards /\ ready.executed = done.executed /\ ready.avail = Response(tpdu)
    BY <1>3, <2>1 DEF Cards
  <2>3. n \in Nat /\ MaxSize + 1 \in Nat
    BY <1>4
  <2>4. ans = Answer(ready, <<>>, SW("61", n)) \/ ans = Answer(ready, <<>>, SW("62", MaxSize + 1))
    BY <1>8 DEF Announced
  <2> HIDE DEF ready, n
  <2>5. CASE ans = Answer(ready, <<>>, SW("61", n))
    <3>1. SW("61", n) \in SWs /\ SW("61", n).first = "61"
      BY <2>3, SWFields DEF FirstBytes
    <3> QED
      BY <2>2, <2>5, <3>1, AnswerNothing
  <2>6. CASE ans = Answer(ready, <<>>, SW("62", MaxSize + 1))
    <3>1. SW("62", MaxSize + 1) \in SWs /\ SW("62", MaxSize + 1).first = "62"
      BY <2>3, SWFields DEF FirstBytes
    <3> QED
      BY <2>2, <2>6, <3>1, AnswerNothing
  <2> QED
    BY <2>4, <2>5, <2>6
<1>9. ASSUME NEW d \in Asking(done),
             ans \in {Answer(d, Response(tpdu), Done(d)),
                      Answer(d, Response(tpdu), SW("62", MaxSize + 1))}
      PROVE  /\ ans \in Answers
             /\ ans.card.executed = done.executed
             /\ ans.sw.first \in {"90", "91", "62"}
             /\ ans.data = Response(tpdu) /\ ans.card.avail = <<>>
  <2>1. d \in Cards /\ d.executed = done.executed /\ d.avail = <<>>
    BY <1>2, AskingKeeps
  <2>2. SW("62", MaxSize + 1) \in SWs /\ SW("62", MaxSize + 1).first = "62"
    BY <1>4, SWFields DEF FirstBytes
  <2>3. Done(d) \in SWs /\ Done(d).first \in {"90", "91"}
    BY DoneType DEF Good
  <2>4. CASE ans = Answer(d, Response(tpdu), Done(d))
    BY <1>3, <2>1, <2>3, <2>4, AnswerFields
  <2>5. CASE ans = Answer(d, Response(tpdu), SW("62", MaxSize + 1))
    BY <1>3, <2>1, <2>2, <2>5, AnswerFields
  <2> QED
    BY <1>9, <2>4, <2>5
<1> QED
  BY <1>2, <1>5, <1>6, <1>7, <1>8, <1>9

LEMMA Cut ==
  ASSUME NEW S, NEW s \in Seq(S), NEW n \in 0 .. Len(s)
  PROVE  /\ SubSeq(s, 1, n) \in Seq(S) /\ Len(SubSeq(s, 1, n)) = n
         /\ SubSeq(s, n + 1, Len(s)) \in Seq(S) /\ Len(SubSeq(s, n + 1, Len(s))) = Len(s) - n
         /\ SubSeq(s, 1, n) \o SubSeq(s, n + 1, Len(s)) = s
<1> DEFINE a == SubSeq(s, 1, n)
           b == SubSeq(s, n + 1, Len(s))
<1>1. Len(s) \in Nat /\ \A i \in 1 .. Len(s) : s[i] \in S
  OBVIOUS
<1>2. a \in Seq(S) /\ Len(a) = n /\ \A i \in 1 .. n : a[i] = s[i]
  BY <1>1
<1>3. b \in Seq(S) /\ Len(b) = Len(s) - n /\ \A i \in 1 .. Len(s) - n : b[i] = s[n + i]
  BY <1>1
<1> HIDE DEF a, b
<1>4. /\ a \o b \in Seq(S) /\ Len(a \o b) = Len(a) + Len(b)
      /\ \A i \in 1 .. Len(a) + Len(b) : (a \o b)[i] = IF i <= Len(a) THEN a[i] ELSE b[i - Len(a)]
  BY <1>2, <1>3, ConcatProperties
<1>5. ASSUME NEW i \in 1 .. Len(s)
      PROVE  (a \o b)[i] = s[i]
  <2>0. i \in Nat /\ n \in Nat /\ n <= Len(s)
    BY <1>1
  <2>3. (a \o b)[i] = IF i <= n THEN a[i] ELSE b[i - n]
    BY <1>2, <1>3, <1>4, <2>0
  <2>1. CASE i <= n
    BY <1>2, <2>0, <2>3, <2>1
  <2>2. CASE i > n
    <3>1. i - n \in 1 .. Len(s) - n /\ n + (i - n) = i
      BY <1>1, <2>0, <2>2
    <3> QED
      BY <1>3, <2>0, <2>3, <2>2, <3>1
  <2>4. i <= n \/ i > n
    BY <2>0
  <2> QED
    BY <2>1, <2>2, <2>4
<1>6. a \o b = s
  <2>1. Len(a \o b) = Len(s)
    BY <1>1, <1>2, <1>3, <1>4
  <2>2. \A i \in 1 .. Len(a \o b) : (a \o b)[i] = s[i]
    BY <1>5, <2>1
  <2> QED
    BY <1>4, <2>1, <2>2, SeqEqual
<1> QED
  BY <1>2, <1>3, <1>6 DEF a, b

\* An answer to GET RESPONSE.
Part(c, n, ans) ==
  \/ c.avail = <<>> /\ ans.sw.first = "6f"
  \/ /\ n > Len(c.avail) /\ ans.sw = SW("6c", Len(c.avail))
     /\ ans.card.avail = c.avail /\ ans.data = <<>>
  \/ /\ c.avail # <<>> /\ n <= Len(c.avail) /\ ans.data = SubSeq(c.avail, 1, n)
     /\ ans.card.avail = SubSeq(c.avail, n + 1, Len(c.avail))
     /\ \/ ans.sw.first = "61" /\ ans.sw.n <= Len(ans.card.avail)
        \/ ans.sw.first \in {"90", "91"} /\ ans.card.avail = <<>>

\* GET RESPONSE is refused, asked for again with another length, or it takes the
\* next parts of the response.
LEMMA GetResponseAnswered ==
  ASSUME TransportAssumption,
         NEW c \in Cards, NEW n \in Nat, NEW ans \in GetResponseAnswers(c, n)
  PROVE  /\ ans \in Answers
         /\ ans.card.executed = c.executed
         /\ Part(c, n, ans)
<1>0. c.avail \in Seq(Parts) /\ Len(c.avail) \in Nat
  BY DEF Cards
<1>1. CASE c.avail = <<>>
  <2>1. ans = Answer(c, <<>>, Error)
    BY <1>1 DEF GetResponseAnswers
  <2> QED
    BY <1>1, <2>1, DoneType, AnswerNothing DEF Part
<1>2. CASE c.avail # <<>> /\ n > Len(c.avail)
  <2>1. ans = Answer(c, <<>>, SW("6c", Len(c.avail)))
    BY <1>2 DEF GetResponseAnswers
  <2>2. SW("6c", Len(c.avail)) \in SWs
    BY <1>0, SWFields DEF FirstBytes
  <2> QED
    BY <1>2, <2>1, <2>2, AnswerNothing DEF Part
<1>3. CASE c.avail # <<>> /\ n <= Len(c.avail)
  <2> DEFINE rest == SubSeq(c.avail, n + 1, Len(c.avail))
             given == SubSeq(c.avail, 1, n)
             left == [c EXCEPT !.avail = rest]
             m == IF Len(rest) < MaxPart THEN Len(rest) ELSE MaxPart
             sw == IF rest = <<>> THEN Done(left) ELSE SW("61", m)
  <2>1. ans = Answer(left, given, sw)
    BY <1>3, <1>0 DEF GetResponseAnswers, Given
  <2>2. given \in Seq(Parts) /\ rest \in Seq(Parts)
    BY <1>0, <1>3, Cut
  <2> HIDE DEF rest, given
  <2>3. left \in Cards /\ left.executed = c.executed /\ left.avail = rest
    BY <2>2, WithAvailable
  <2> HIDE DEF left
  <2>4. m \in Nat /\ m <= Len(rest)
    BY <2>2 DEF TransportAssumption
  <2> HIDE DEF m
  <2>5. SW("61", m) \in SWs /\ SW("61", m).first = "61" /\ SW("61", m).n = m
    BY <2>4, SWFields DEF FirstBytes
  <2>6. Done(left) \in SWs /\ Done(left).first \in {"90", "91"}
    BY DoneType DEF Good
  <2>7. /\ sw \in SWs
        /\ \/ sw.first = "61" /\ sw.n <= Len(rest)
           \/ sw.first \in {"90", "91"} /\ rest = <<>>
    BY <2>4, <2>5, <2>6
  <2> HIDE DEF sw
  <2>8. /\ ans \in Answers /\ ans.card = left /\ ans.data = given
        /\ ans.sw = sw
    BY <2>1, <2>2, <2>3, <2>7, AnswerFields
  <2> QED
    BY <1>3, <2>3, <2>7, <2>8 DEF rest, given, Part
<1> QED
  BY <1>0, <1>1, <1>2, <1>3

\* FETCH hands over one proactive command, or fails.
LEMMA FetchAnswered ==
  ASSUME NEW c \in Cards, NEW ans \in FetchAnswers(c)
  PROVE  /\ ans \in Answers
         /\ ans.card.executed = c.executed
         /\ \/ ans.sw.first = "6f"
            \/ ans.sw.first = "90" /\ \E pcmd \in Nat : ans.data = <<<<0, pcmd>>>>
<1> DEFINE c1 == [c EXCEPT !.avail = <<>>]
           data == <<<<0, Head(c1.queue)>>>>
           next == [c1 EXCEPT !.fetched = Head(c1.queue), !.queue = Tail(c1.queue)]
<1>1. c1 \in Cards /\ c1.executed = c.executed
  BY NotAvailable
<1>2. \/ ans = Answer(c1, <<>>, Error)
      \/ c1.queue # <<>> /\ ans = Answer(next, data, Success)
  BY DEF FetchAnswers
<1> HIDE DEF c1
<1>3. CASE ans = Answer(c1, <<>>, Error)
  BY <1>1, <1>3, DoneType, AnswerNothing
<1>4. CASE c1.queue # <<>> /\ ans = Answer(next, data, Success)
  <2>1. c1.queue \in Seq(Nat)
    BY <1>1 DEF Cards
  <2>2. Head(c1.queue) \in Nat /\ Tail(c1.queue) \in Seq(Nat)
    BY <1>4, <2>1
  <2>3. next \in Cards /\ next.executed = c1.executed
    BY <1>1, <2>2 DEF Cards
  <2>4. data \in Seq(Parts)
    BY <2>2 DEF Parts
  <2> HIDE DEF next, data
  <2>5. /\ ans \in Answers /\ ans.card = next /\ ans.data = data
        /\ ans.sw = Success
    BY <1>4, <2>3, <2>4, DoneType, AnswerFields
  <2> QED
    BY <1>1, <2>2, <2>3, <2>5, DoneType DEF data
<1> QED
  BY <1>2, <1>3, <1>4

\* So does a terminal response, which has no data.
LEMMA TerminalResponseAnswered ==
  ASSUME NEW c \in Cards, NEW pcmd \in Nat, NEW ans \in TerminalResponseAnswers(c, pcmd)
  PROVE  /\ ans \in Answers
         /\ ans.card.executed = c.executed
         /\ ans.sw.first \in {"90", "91", "6f"}
<1> DEFINE c1 == [c EXCEPT !.avail = <<>>]
           next == [c1 EXCEPT !.fetched = 0, !.answered = Append(c1.answered, pcmd)]
<1>1. c1 \in Cards /\ c1.executed = c.executed
  BY NotAvailable
<1>2. \/ ans = Answer(c1, <<>>, Error)
      \/ \E d \in Asking(next) : ans = Answer(d, <<>>, Done(d))
  BY DEF TerminalResponseAnswers
<1> HIDE DEF c1
<1>3. CASE ans = Answer(c1, <<>>, Error)
  BY <1>1, <1>3, DoneType, AnswerNothing
<1>4. ASSUME NEW d \in Asking(next), ans = Answer(d, <<>>, Done(d))
      PROVE  /\ ans \in Answers
             /\ ans.card.executed = c.executed
             /\ ans.sw.first \in {"90", "91", "6f"}
  <2>1. c1.answered \in Seq(Nat)
    BY <1>1 DEF Cards
  <2>2. Append(c1.answered, pcmd) \in Seq(Nat)
    BY <2>1
  <2>3. next \in Cards /\ next.executed = c1.executed
    BY <1>1, <2>2 DEF Cards
  <2> HIDE DEF next
  <2>4. d \in Cards /\ d.executed = next.executed
    BY <2>3, AskingKeeps
  <2>5. Done(d) \in SWs /\ Done(d).first \in {"90", "91"}
    BY DoneType DEF Good
  <2> QED
    BY <1>1, <1>4, <2>3, <2>4, <2>5, AnswerNothing
<1> QED
  BY <1>2, <1>3, <1>4

-----------------------------------------------------------------------------
(***************************************************************************)
(* The invariant.  A call that has not had its command's answer has one    *)
(* frame; then it is fetching a proactive command (two frames) or answers  *)
(* one.                                                                    *)
(***************************************************************************)
NoLateAnswer ==
  \/ Driver = "modem"
  \/ Driver = "pcsc" /\ line = <<>> /\ coming = <<>> /\ ~overtaken

TypeInv ==
  /\ link \in [protocol : {0, 1}, proactive_handler : BOOLEAN, apdu_strict : BOOLEAN]
  /\ card \in Cards
  /\ calls \in 0 .. MaxCalls
  /\ line \in Seq(LateAnswers) /\ coming \in Seq(LateAnswers) /\ overtaken \in BOOLEAN
  /\ NoLateAnswer
  /\ io.at \in {"idle", "send", "done"}
  /\ io.at = "idle" => io = Idle
  /\ io.at = "send" => io \in Requests
  /\ io.at = "done" => io \in Answered

\* What the card may issue is bounded.
Bounded(c) == c.issued <= MaxProactive

\* What holds whoever's answers are read: no command is carried out before it is
\* sent, the frames are commands that were.
Sent == {f \in Frames : f.apdu.id <= calls}
Anyhow ==
  /\ TypeInv
  /\ Bounded(card)
  /\ \A i \in 1 .. MaxCalls : i > calls => card.executed[i] = 0
  /\ stack \in Seq(Sent)
  /\ stack = <<>> => io = Idle
  /\ io.at = "send" /\ io.tpdu.ins = "command" => io.tpdu.id \in 1 .. calls
  /\ outcome.how = "returned" => outcome.call \in 0 .. calls

\* The last command was not carried out twice, and none that was not sent.
OnceIn(c) ==
  /\ \A i \in 1 .. MaxCalls : i > calls => c.executed[i] = 0
  /\ calls > 0 => c.executed[calls] <= 1
Executed == OnceIn(card)

\* What is on its way in the send_apdu in progress.
CommandOut ==
  /\ io.tpdu.id = io.apdu.id /\ io.tpdu.size = io.apdu.size
  /\ io.apdu.id = calls /\ calls > 0 /\ io.data = <<>> /\ card.executed[calls] = 0
GetResponseOut ==
  /\ io.apdu.id = calls /\ calls > 0
  /\ \/ card.avail = <<>>
     \/ /\ io.data \o card.avail = Response(io.apdu) /\ card.executed[calls] = 1
        /\ io.data # <<>> => io.tpdu.le <= Len(card.avail)
Sending ==
  io.at = "send" =>
    \/ io.apdu.ins = "command" /\ io.tpdu.ins = "command" /\ CommandOut
    \/ io.apdu.ins = "command" /\ io.tpdu.ins = "get_response" /\ GetResponseOut
    \/ io.apdu.ins \in {"fetch", "terminal_response"} /\ io.tpdu = io.apdu /\ io.data = <<>>

\* What has come back: of a command its whole response, of a FETCH one command.
Returned(apdu, data, sw) ==
  /\ apdu.ins = "command" /\ Good(sw) =>
        /\ apdu.id = calls /\ calls > 0 /\ card.executed[calls] = 1
        /\ data = Response(apdu)
  /\ apdu.ins = "fetch" =>
        \/ sw.first = "6f"
        \/ sw.first = "90" /\ \E pcmd \in Nat : data = <<<<0, pcmd>>>>
Received1 == io.at = "done" => Returned(io.apdu, io.data, io.sw)

\* The frames of send_apdu_checksw.
Waiting(ins) == io.at # "idle" /\ io.apdu.ins = ins
Bottom(f) ==
  /\ f \in Frames /\ f.apdu.ins = "command" /\ f.apdu.id = calls /\ calls > 0
  /\ f.at = "command" => Waiting("command") /\ io.apdu = f.apdu
  /\ f.at # "command" => Returned(f.apdu, f.data, f.sw)
  /\ f.at = "loop" => io = Idle /\ (f.last = f.sw \/ f.sw = Success)
  /\ f.at = "response" => Waiting("terminal_response")
  /\ f.at \in {"fetch", "response"} => f.sw = Success
Upper(g) ==
  /\ g \in Frames /\ g.apdu.ins = "fetch" /\ g.apdu.want = "9000"
  /\ g.at \in {"command", "loop"}
  /\ g.at = "command" => Waiting("fetch") /\ io.apdu = g.apdu
  /\ g.at = "loop" => io = Idle /\ g.last = g.sw /\ Returned(g.apdu, g.data, g.sw)

Calling ==
  \/ stack = <<>> /\ io = Idle
  \/ \E f \in Frames : stack = <<f>> /\ Bottom(f) /\ f.at # "fetch"
  \/ \E f, g \in Frames : stack = <<f, g>> /\ Bottom(f) /\ f.at = "fetch" /\ Upper(g)

\* What the caller has been given stays true.
Told == outcome.how = "returned" /\ outcome.call = calls => IsAnswer

IInv == TypeInv /\ Executed /\ Sending /\ Received1 /\ Calling /\ Told

LEMMA Initially ==
  ASSUME Driver \in {"modem", "pcsc"}, TransportAssumption, Init
  PROVE  IInv /\ Anyhow
<1>1. /\ card = NewCard /\ calls = 0 /\ io = Idle /\ stack = <<>> /\ line = <<>>
      /\ coming = <<>> /\ overtaken = FALSE /\ outcome = [how |-> "none"]
  BY DEF Init
<1>2. /\ NewCard \in Cards /\ \A i \in 1 .. MaxCalls : NewCard.executed[i] = 0
      /\ NewCard.issued = 0
  BY DEF NewCard, Cards
<1>3. TypeInv
  <2>1. <<>> \in Seq(LateAnswers) /\ FALSE \in BOOLEAN
    OBVIOUS
  <2>2. NoLateAnswer
    BY <1>1 DEF NoLateAnswer
  <2>3. calls \in 0 .. MaxCalls
    BY <1>1 DEF TransportAssumption
  <2>4. link \in [protocol : {0, 1}, proactive_handler : BOOLEAN, apdu_strict : BOOLEAN]
    BY DEF Init
  <2>5. io = Idle /\ io.at = "idle"
    BY <1>1 DEF Idle
  <2> QED
    BY <1>1, <1>2, <2>1, <2>2, <2>3, <2>4, <2>5 DEF TypeInv
<1>4. Executed
  BY <1>1, <1>2 DEF Executed, OnceIn
<1>5. Sending /\ Received1 /\ Calling
  BY <1>1 DEF Sending, Received1, Calling, Idle
<1>6. Told
  BY <1>1 DEF Told
<1>7. Anyhow
  BY <1>1, <1>2, <1>3, TransportAssumption DEF Anyhow, Bounded, Idle, TransportAssumption
<1> QED
  BY <1>3, <1>4, <1>5, <1>6, <1>7 DEF IInv

-----------------------------------------------------------------------------
(***************************************************************************)
(* Lemmas about the operators the steps are made of.                       *)
(***************************************************************************)
LEMMA FramesOfTuples ==
  /\ \A f : Last(<<f>>) = f /\ Front(<<f>>) = <<>> /\ Len(<<f>>) = 1
  /\ \A f, g : Last(<<f, g>>) = g /\ Front(<<f, g>>) = <<f>> /\ Len(<<f, g>>) = 2
  /\ \A f, g : Append(<<>>, f) = <<f>> /\ Append(<<f>>, g) = <<f, g>>
  /\ \A f, g : Head(<<f>>) = f /\ Head(<<f, g>>) = f
<1>1. \A f : Last(<<f>>) = f /\ Len(<<f>>) = 1
  BY DEF Last
<1>2. \A f, g : Last(<<f, g>>) = g /\ Len(<<f, g>>) = 2
  BY DEF Last
<1>3. \A f : Front(<<f>>) = <<>>
  BY DEF Front
<1>4. ASSUME NEW f, NEW g
      PROVE  Front(<<f, g>>) = <<f>>
  <2> DEFINE S == {f, g}
             s == <<f, g>>
             t == <<f>>
  <2>1. s \in Seq(S) /\ t \in Seq(S) /\ Len(s) = 2 /\ Len(t) = 1 /\ s[1] = f /\ t[1] = f
    OBVIOUS
  <2>2. Front(s) = SubSeq(s, 1, 1)
    BY DEF Front
  <2> HIDE DEF s, t
  <2>3. SubSeq(s, 1, 1) \in Seq(S) /\ Len(SubSeq(s, 1, 1)) = 1 /\ SubSeq(s, 1, 1)[1] = f
    BY <2>1
  <2>4. \A i \in 1 .. Len(SubSeq(s, 1, 1)) : SubSeq(s, 1, 1)[i] = t[i]
    BY <2>1, <2>3
  <2>5. SubSeq(s, 1, 1) = t
    BY <2>1, <2>3, <2>4, SeqEqual
  <2> QED
    BY <2>2, <2>5 DEF s, t
<1>5. ASSUME NEW f, NEW g
      PROVE  Append(<<>>, f) = <<f>> /\ Append(<<f>>, g) = <<f, g>>
  <2> DEFINE S == {f, g}
             e == <<>>
             s == <<f>>
             t == <<f, g>>
  <2>1. /\ e \in Seq(S) /\ s \in Seq(S) /\ t \in Seq(S) /\ f \in S /\ g \in S
        /\ Len(e) = 0 /\ Len(s) = 1 /\ Len(t) = 2
        /\ s[1] = f /\ t[1] = f /\ t[2] = g
    OBVIOUS
  <2> HIDE DEF S, e, s, t
  <2>2. Append(e, f) \in Seq(S) /\ Len(Append(e, f)) = 1 /\ Append(e, f)[1] = f
    BY <2>1
  <2>3. Append(s, g) \in Seq(S) /\ Len(Append(s, g)) = 2 /\ Append(s, g)[1] = f
        /\ Append(s, g)[2] = g
    <3>1. /\ Append(s, g) \in Seq(S) /\ Len(Append(s, g)) = Len(s) + 1
          /\ \A i \in 1 .. Len(s) : Append(s, g)[i] = s[i]
          /\ Append(s, g)[Len(s) + 1] = g
      <4>1. s \in Seq(S) /\ g \in S
        BY <2>1
      <4> QED
        BY <4>1, AppendProperties
    <3> QED
      BY <2>1, <3>1
  <2>4. \A i \in 1 .. Len(Append(e, f)) : Append(e, f)[i] = s[i]
    BY <2>1, <2>2
  <2>5. \A i \in 1 .. Len(Append(s, g)) : Append(s, g)[i] = t[i]
    BY <2>1, <2>3
  <2>6. Append(e, f) = s
    BY <2>1, <2>2, <2>4, SeqEqual
  <2>7. Append(s, g) = t
    BY <2>1, <2>3, <2>5, SeqEqual
  <2> QED
    BY <2>6, <2>7 DEF e, s, t
<1>6. \A f, g : Head(<<f>>) = f /\ Head(<<f, g>>) = f
  OBVIOUS
<1> QED
  BY <1>1, <1>2, <1>3, <1>4, <1>5, <1>6

LEMMA NewRequest ==
  ASSUME NEW apdu \in Apdus
  PROVE  /\ _send_apdu(apdu) \in Requests /\ _send_apdu(apdu).at = "send"
         /\ _send_apdu(apdu).apdu = apdu /\ _send_apdu(apdu).tpdu = apdu
         /\ _send_apdu(apdu).data = <<>>
BY DEF _send_apdu, Requests

LEMMA NewFrame ==
  ASSUME NEW apdu \in Apdus
  PROVE  /\ Frame(apdu) \in Frames /\ Frame(apdu).apdu = apdu /\ Frame(apdu).at = "command"
         /\ Frame(apdu).sw = Success /\ Frame(apdu).last = Success
BY DoneType DEF Frame, Frames

WithAnswer(f, data, sw) ==
  [f EXCEPT !.at = "loop", !.data = data, !.sw = sw, !.last = sw]

LEMMA FrameAnswered ==
  ASSUME NEW f \in Frames, NEW data \in Seq(Parts), NEW sw \in SWs
  PROVE  LET h == WithAnswer(f, data, sw) IN
         /\ h \in Frames
         /\ h.at = "loop" /\ h.apdu = f.apdu /\ h.data = data /\ h.sw = sw /\ h.last = sw
<1>1. WithAnswer(f, data, sw) \in Frames
  BY DEF WithAnswer, Frames
<1>2. LET h == WithAnswer(f, data, sw) IN
      h.at = "loop" /\ h.apdu = f.apdu /\ h.data = data /\ h.sw = sw /\ h.last = sw
  BY DEF WithAnswer, Frames
<1> QED
  BY <1>1, <1>2

LEMMA FrameResponded ==
  ASSUME NEW f \in Frames, NEW sw \in SWs
  PROVE  \E h \in Frames : /\ h = [f EXCEPT !.at = "loop", !.last = sw]
                           /\ h.at = "loop" /\ h.apdu = f.apdu /\ h.data = f.data /\ h.sw = f.sw
<1> DEFINE h == [f EXCEPT !.at = "loop", !.last = sw]
<1>1. h \in Frames
  BY DEF Frames
<1>2. h.at = "loop" /\ h.apdu = f.apdu /\ h.data = f.data /\ h.sw = f.sw
  BY DEF Frames
<1> QED
  BY <1>1, <1>2

LEMMA FrameFetching ==
  ASSUME NEW f \in Frames
  PROVE  \E h \in Frames : /\ h = [f EXCEPT !.sw = Success, !.at = "fetch"]
                           /\ h.at = "fetch" /\ h.apdu = f.apdu /\ h.data = f.data
                           /\ h.sw = Success
<1> DEFINE h == [f EXCEPT !.sw = Success, !.at = "fetch"]
<1>1. h \in Frames
  BY DoneType DEF Frames
<1>2. h.at = "fetch" /\ h.apdu = f.apdu /\ h.data = f.data /\ h.sw = Success
  BY DEF Frames
<1> QED
  BY <1>1, <1>2

LEMMA FrameAnswering ==
  ASSUME NEW f \in Frames, NEW pcmd \in Nat
  PROVE  \E h \in Frames : /\ h = [f EXCEPT !.at = "response", !.pcmd = pcmd]
                           /\ h.at = "response" /\ h.apdu = f.apdu /\ h.data = f.data
                           /\ h.sw = f.sw
<1> DEFINE h == [f EXCEPT !.at = "response", !.pcmd = pcmd]
<1>1. h \in Frames
  BY DEF Frames
<1>2. h.at = "response" /\ h.apdu = f.apdu /\ h.data = f.data /\ h.sw = f.sw
  BY DEF Frames
<1> QED
  BY <1>1, <1>2

LEMMA AnswerHandled ==
  ASSUME NEW req \in Requests, NEW data \in Seq(Parts), NEW sw \in SWs
  PROVE  LET r == AfterAnswer(req, data, sw) IN
         /\ r.apdu = req.apdu
         /\ \/ r.at = "done" /\ r \in Answered /\ r.data = data /\ r.sw = sw
            \/ /\ sw.first \in {"61", "62"}
               /\ r.at = "send" /\ r \in Requests /\ r.data = data
               /\ r.tpdu.ins = "get_response" /\ r.tpdu.le = sw.n
            \/ /\ sw.first = "6c"
               /\ r.at = "send" /\ r \in Requests /\ r.data = <<>>
               /\ r.tpdu = [req.tpdu EXCEPT !.le = sw.n]
<1> DEFINE finished == [at |-> "done", apdu |-> req.apdu, data |-> data, sw |-> sw]
           fetching == [req EXCEPT !.tpdu = GetResponse(req.apdu, sw.n), !.data = data]
           longer == [req.tpdu EXCEPT !.le = sw.n]
           again == [req EXCEPT !.tpdu = longer, !.data = <<>>, !.again = TRUE]
<1>1. req.apdu \in Apdus /\ req.tpdu \in Apdus /\ sw.n \in Nat /\ req.at = "send"
  BY DEF Requests, SWs
<1>2. finished \in Answered /\ finished.at = "done" /\ finished.apdu = req.apdu
      /\ finished.data = data /\ finished.sw = sw
  BY <1>1 DEF Answered
<1>3. GetResponse(req.apdu, sw.n) \in Apdus /\ GetResponse(req.apdu, sw.n).ins = "get_response"
      /\ GetResponse(req.apdu, sw.n).le = sw.n
  BY <1>1 DEF GetResponse, Apdus
<1>4. longer \in Apdus /\ <<>> \in Seq(Parts)
  BY <1>1 DEF Apdus
<1>5. fetching \in Requests /\ fetching.apdu = req.apdu /\ fetching.at = "send"
      /\ fetching.data = data /\ fetching.tpdu = GetResponse(req.apdu, sw.n)
  BY <1>1, <1>3 DEF Requests
<1>6. \/ AfterAnswer(req, data, sw) = finished
      \/ sw.first \in {"61", "62"} /\ AfterAnswer(req, data, sw) = fetching
      \/ sw.first = "6c" /\ AfterAnswer(req, data, sw) = again
  BY DEF AfterAnswer, MoreToFetch
<1> HIDE DEF longer
<1>7. again \in Requests /\ again.apdu = req.apdu /\ again.at = "send"
      /\ again.data = <<>> /\ again.tpdu = longer
  BY <1>1, <1>4 DEF Requests
<1> HIDE DEF finished, fetching, again
<1>8. CASE AfterAnswer(req, data, sw) = finished
  BY <1>2, <1>8
<1>9. CASE sw.first \in {"61", "62"} /\ AfterAnswer(req, data, sw) = fetching
  BY <1>3, <1>5, <1>9
<1>10. CASE sw.first = "6c" /\ AfterAnswer(req, data, sw) = again
  BY <1>7, <1>10 DEF longer
<1> QED
  BY <1>6, <1>8, <1>9, <1>10

\* A command that is carried out has not been carried out before.
LEMMA ExecutedKept ==
  ASSUME TransportAssumption, TypeInv, Executed, Told,
         NEW c \in Cards,
         \/ c.executed = card.executed
         \/ calls > 0 /\ card.executed[calls] = 0 /\ c.executed = Incremented(card.executed, calls)
  PROVE  /\ OnceIn(c)
         /\ outcome.how = "returned" /\ outcome.call = calls /\ Good(outcome.sw)
              => c.executed[outcome.call] = 1
<1>1. card.executed \in [1 .. MaxCalls -> Nat] /\ calls \in 0 .. MaxCalls /\ MaxCalls \in Nat
  BY DEF TypeInv, Cards, TransportAssumption
<1>2. outcome.how = "returned" /\ outcome.call = calls /\ Good(outcome.sw)
        => card.executed[outcome.call] = 1
  BY <1>1 DEF Told, IsAnswer, Good
<1>3. CASE c.executed = card.executed
  BY <1>2, <1>3 DEF Executed, OnceIn
<1>4. CASE calls > 0 /\ card.executed[calls] = 0 /\ c.executed = Incremented(card.executed, calls)
  <2>1. calls \in 1 .. MaxCalls
    BY <1>1, <1>4
  <2>2. c.executed[calls] = 1 /\ \A i \in 1 .. MaxCalls : i # calls => c.executed[i] = card.executed[i]
    BY <1>1, <1>4, <2>1 DEF Incremented
  <2>3. ASSUME NEW i \in 1 .. MaxCalls, i > calls
        PROVE  c.executed[i] = 0
    <3>1. i # calls
      BY <1>1, <2>3
    <3> QED
      BY <2>2, <2>3, <3>1 DEF Executed, OnceIn
  <2> QED
    BY <1>2, <1>4, <2>2, <2>3 DEF OnceIn
<1> QED
  BY <1>3, <1>4

\* An exception leaves nothing in progress.
LEMMA AfterException ==
  ASSUME IInv, NEW how, how # "returned", Raised(how), link' = link, calls' = calls,
         line' \in Seq(LateAnswers), coming' \in Seq(LateAnswers), overtaken' \in BOOLEAN,
         card' \in Cards, NoLateAnswer', OnceIn(card')
  PROVE  IInv'
<1>1. stack' = <<>> /\ io' = Idle /\ io'.at = "idle" /\ outcome'.how # "returned"
  BY DEF Raised, Idle, Result
<1>2. TypeInv'
  BY <1>1 DEF IInv, TypeInv
<1>3. Executed'
  BY DEF Executed, OnceIn
<1>4. Sending' /\ Received1' /\ Calling'
  BY <1>1 DEF Sending, Received1, Calling
<1>5. Told'
  BY <1>1 DEF Told
<1> QED
  BY <1>2, <1>3, <1>4, <1>5 DEF IInv

-----------------------------------------------------------------------------
(***************************************************************************)
(* The steps.                                                              *)
(***************************************************************************)

\* Whatever was sent, the card carries out only the command of the call in progress.
LEMMA CardStep ==
  ASSUME TransportAssumption, IInv, io.at = "send",
         NEW ans \in CardAnswers(card, io.tpdu, link.protocol)
  PROVE  /\ ans \in Answers
         /\ \/ ans.card.executed = card.executed
            \/ /\ calls > 0 /\ card.executed[calls] = 0
               /\ ans.card.executed = Incremented(card.executed, calls)
<1>1. io.tpdu \in Apdus /\ io.tpdu.id \in Nat /\ io.tpdu.le \in Nat /\ card \in Cards
  BY DEF IInv, TypeInv, Requests, Apdus
<1>2. \/ io.tpdu.ins = "command" /\ CommandOut
      \/ io.tpdu.ins = "get_response" \/ io.tpdu.ins = "fetch" \/ io.tpdu.ins = "terminal_response"
  BY DEF IInv, Sending
<1>3. CASE io.tpdu.ins = "command" /\ CommandOut
  <2>1. io.tpdu.id = calls /\ calls \in 1 .. MaxCalls /\ card.executed[calls] = 0
    BY <1>3 DEF CommandOut, IInv, TypeInv
  <2>2. ans \in CommandAnswers(card, io.tpdu, link.protocol)
    BY <1>3 DEF CardAnswers
  <2>3. ans \in Answers /\ (\/ ans.card.executed = card.executed
                            \/ ans.card.executed = Incremented(card.executed, io.tpdu.id))
    BY <1>1, <2>1, <2>2, CommandAnswered
  <2> QED
    BY <1>3, <2>1, <2>3
<1>4. CASE io.tpdu.ins = "get_response"
  <2>1. ans \in GetResponseAnswers(card, io.tpdu.le)
    BY <1>4 DEF CardAnswers
  <2> QED
    BY <1>1, <2>1, GetResponseAnswered
<1>5. CASE io.tpdu.ins = "fetch"
  <2>1. ans \in FetchAnswers(card)
    BY <1>5 DEF CardAnswers
  <2> QED
    BY <1>1, <2>1, FetchAnswered
<1>6. CASE io.tpdu.ins = "terminal_response"
  <2>1. ans \in TerminalResponseAnswers(card, io.tpdu.id)
    BY <1>6 DEF CardAnswers
  <2> QED
    BY <1>1, <2>1, TerminalResponseAnswered
<1> QED
  BY <1>2, <1>3, <1>4, <1>5, <1>6

\* The parts that GET RESPONSE takes, and those it leaves, are still the response.
LEMMA PartsInOrder ==
  ASSUME NEW d \in Seq(Parts), NEW a \in Seq(Parts), NEW n \in 0 .. Len(a)
  PROVE  (d \o SubSeq(a, 1, n)) \o SubSeq(a, n + 1, Len(a)) = d \o a
<1> DEFINE s == SubSeq(a, 1, n)
           t == SubSeq(a, n + 1, Len(a))
<1>1. s \in Seq(Parts) /\ t \in Seq(Parts) /\ s \o t = a
  BY Cut
<1> HIDE DEF s, t
<1>2. \A u, v \in Seq(Parts) : (d \o u) \o v = d \o (u \o v)
  BY ConcatAssociative
<1>3. (d \o s) \o t = d \o (s \o t)
  BY <1>1, <1>2
<1> QED
  BY <1>1, <1>3 DEF s, t

\* The request after an answer: of the same APDU, and with what it should carry.
LEMMA RequestStep ==
  ASSUME TransportAssumption, IInv, io.at = "send",
         NEW ans \in CardAnswers(card, io.tpdu, link.protocol),
         card' = ans.card, calls' = calls, io' = AfterAnswer(io, io.data \o ans.data, ans.sw)
  PROVE  /\ io'.apdu = io.apdu /\ io'.at \in {"send", "done"}
         /\ io'.at = "send" => io' \in Requests
         /\ io'.at = "done" => io' \in Answered
         /\ Sending' /\ Received1'
<1>1. io \in Requests /\ io.tpdu \in Apdus /\ io.apdu \in Apdus /\ io.data \in Seq(Parts)
      /\ io.tpdu.id \in Nat /\ io.tpdu.le \in Nat
  BY DEF IInv, TypeInv, Requests, Apdus
<1>2. ans \in Answers /\ ans.data \in Seq(Parts) /\ ans.sw \in SWs /\ ans.card \in Cards
  BY CardStep DEF Answers
<1> DEFINE data == io.data \o ans.data
<1>3. data \in Seq(Parts)
  BY <1>1, <1>2, ConcatProperties
<1> HIDE DEF data
<1>4. io' = AfterAnswer(io, data, ans.sw)
  BY DEF data
<1>5. /\ io'.apdu = io.apdu
      /\ \/ io'.at = "done" /\ io' \in Answered /\ io'.data = data /\ io'.sw = ans.sw
         \/ /\ ans.sw.first \in {"61", "62"}
            /\ io'.at = "send" /\ io' \in Requests /\ io'.data = data
            /\ io'.tpdu.ins = "get_response" /\ io'.tpdu.le = ans.sw.n
         \/ /\ ans.sw.first = "6c"
            /\ io'.at = "send" /\ io' \in Requests /\ io'.data = <<>>
            /\ io'.tpdu = [io.tpdu EXCEPT !.le = ans.sw.n]
  BY <1>1, <1>2, <1>3, <1>4, AnswerHandled
<1>6. [io.tpdu EXCEPT !.le = ans.sw.n].ins = io.tpdu.ins
      /\ [io.tpdu EXCEPT !.le = ans.sw.n].id = io.tpdu.id
      /\ [io.tpdu EXCEPT !.le = ans.sw.n].size = io.tpdu.size
      /\ [io.tpdu EXCEPT !.le = ans.sw.n].le = ans.sw.n
  BY <1>1 DEF Apdus
<1>7. Sending
  BY DEF IInv
<1>8. CASE io.apdu.ins = "command" /\ io.tpdu.ins = "command" /\ CommandOut
  <2>1. io.tpdu.id = calls /\ calls \in 1 .. MaxCalls /\ card.executed[calls] = 0
        /\ io.apdu.id = calls /\ calls > 0 /\ io.tpdu.size = io.apdu.size /\ io.data = <<>>
    BY <1>8 DEF CommandOut, IInv, TypeInv
  <2>2. data = ans.data
    BY <1>2, <2>1, ConcatEmptySeq DEF data
  <2>3. ans \in CommandAnswers(card, io.tpdu, link.protocol)
    BY <1>8 DEF CardAnswers
  <2>4. card \in Cards
    BY DEF IInv, TypeInv
  <2>5. \/ /\ ans.sw.first = "6c" /\ ans.card.executed = card.executed
        \/ /\ ans.card.executed = Incremented(card.executed, io.tpdu.id)
           /\ \/ ans.sw.first = "6f"
              \/ /\ ans.sw.first \in {"61", "62"}
                 /\ ans.data = <<>> /\ ans.card.avail = Response(io.tpdu)
              \/ /\ ans.sw.first \in {"90", "91", "62"}
                 /\ ans.data = Response(io.tpdu) /\ ans.card.avail = <<>>
    BY <1>1, <2>1, <2>3, <2>4, CommandAnswered
  <2>6. Response(io.tpdu) = Response(io.apdu) /\ Response(io.apdu) \in Seq(Parts)
    BY <1>1, <2>1, ResponseType DEF Response
  <2>7. card.executed \in [1 .. MaxCalls -> Nat]
    BY <2>4 DEF Cards
  <2>8. Incremented(card.executed, calls)[calls] = 1
    BY <2>1, <2>7 DEF Incremented
  <2>9. CASE ans.sw.first = "6c" /\ ans.card.executed = card.executed
    <3>1. CASE io'.at = "done"
      BY <1>5, <1>8, <2>9, <3>1 DEF Sending, Received1, Returned, Good
    <3>2. CASE io'.at = "send"
      <4>1. io'.data = <<>> /\ io'.tpdu = [io.tpdu EXCEPT !.le = ans.sw.n]
        BY <1>5, <2>9, <3>2
      <4>2. io'.tpdu.ins = "command" /\ CommandOut'
        BY <1>5, <1>6, <1>8, <2>1, <2>9, <4>1 DEF CommandOut
      <4> QED
        BY <1>5, <1>8, <2>9, <3>2, <4>2 DEF Sending, Received1
    <3> QED
      BY <1>5, <3>1, <3>2
  <2>10. CASE /\ ans.card.executed = Incremented(card.executed, calls)
              /\ ans.sw.first \in {"61", "62"}
              /\ ans.data = <<>> /\ ans.card.avail = Response(io.apdu)
    <3>1. CASE io'.at = "done"
      BY <1>5, <1>8, <2>10, <3>1 DEF Sending, Received1, Returned, Good
    <3>2. CASE io'.at = "send"
      <4>1. io'.data = <<>> /\ io'.tpdu.ins = "get_response"
        BY <1>5, <2>2, <2>10, <3>2
      <4>2. io'.data \o card'.avail = Response(io'.apdu)
        BY <1>5, <2>6, <2>10, <4>1, ConcatEmptySeq
      <4>3. GetResponseOut'
        BY <1>5, <2>1, <2>8, <2>10, <4>1, <4>2 DEF GetResponseOut
      <4> QED
        BY <1>5, <1>8, <3>2, <4>1, <4>3 DEF Sending, Received1
    <3> QED
      BY <1>5, <3>1, <3>2
  <2>11. CASE /\ ans.card.executed = Incremented(card.executed, calls)
              /\ ans.sw.first \in {"90", "91", "62"}
              /\ ans.data = Response(io.apdu) /\ ans.card.avail = <<>>
    <3>1. CASE io'.at = "done"
      <4>1. io'.apdu.id = calls' /\ calls' > 0 /\ card'.executed[calls'] = 1
            /\ io'.data = Response(io'.apdu)
        BY <1>5, <2>1, <2>2, <2>8, <2>11, <3>1
      <4> QED
        BY <1>5, <1>8, <3>1, <4>1 DEF Sending, Received1, Returned
    <3>2. CASE io'.at = "send"
      <4>1. io'.tpdu.ins = "get_response"
        BY <1>5, <2>11, <3>2
      <4>2. GetResponseOut'
        BY <1>5, <2>1, <2>11 DEF GetResponseOut
      <4> QED
        BY <1>5, <1>8, <3>2, <4>1, <4>2 DEF Sending, Received1
    <3> QED
      BY <1>5, <3>1, <3>2
  <2>12. CASE ans.sw.first = "6f"
    <3>1. io'.at = "done" /\ io'.sw = ans.sw
      BY <1>5, <2>12
    <3> QED
      BY <1>5, <1>8, <2>12, <3>1 DEF Sending, Received1, Returned, Good
  <2>13. Sending' /\ Received1'
    BY <2>1, <2>5, <2>6, <2>9, <2>10, <2>11, <2>12
  <2> QED
    BY <1>5, <2>13
<1>9. CASE io.apdu.ins = "command" /\ io.tpdu.ins = "get_response" /\ GetResponseOut
  <2> DEFINE n == io.tpdu.le
             avail == card.avail
  <2>1. io.apdu.id = calls /\ calls > 0
        /\ (\/ avail = <<>>
            \/ /\ io.data \o avail = Response(io.apdu) /\ card.executed[calls] = 1
               /\ io.data # <<>> => n <= Len(avail))
    BY <1>9 DEF GetResponseOut
  <2>2. card \in Cards /\ avail \in Seq(Parts) /\ n \in Nat /\ Len(avail) \in Nat
    BY <1>1 DEF IInv, TypeInv, Cards
  <2>3. ans \in GetResponseAnswers(card, n)
    BY <1>9 DEF CardAnswers
  <2>4. /\ ans.card.executed = card.executed
        /\ \/ avail = <<>> /\ ans.sw.first = "6f"
           \/ /\ n > Len(avail) /\ ans.sw = SW("6c", Len(avail))
              /\ ans.card.avail = avail /\ ans.data = <<>>
           \/ /\ avail # <<>> /\ n <= Len(avail) /\ ans.data = SubSeq(avail, 1, n)
              /\ ans.card.avail = SubSeq(avail, n + 1, Len(avail))
              /\ \/ ans.sw.first = "61" /\ ans.sw.n <= Len(ans.card.avail)
                 \/ ans.sw.first \in {"90", "91"} /\ ans.card.avail = <<>>
    <3>1. Part(card, io.tpdu.le, ans) /\ ans.card.executed = card.executed
      BY <2>2, <2>3, GetResponseAnswered
    <3> QED
      BY <3>1 DEF Part
  <2> HIDE DEF n, avail
  <2>5. CASE avail = <<>> /\ ans.sw.first = "6f"
    <3>1. io'.at = "done" /\ io'.sw = ans.sw
      BY <1>5, <2>5
    <3> QED
      BY <1>5, <1>9, <2>5, <3>1 DEF Sending, Received1, Returned, Good
  <2>6. CASE n > Len(avail) /\ ans.sw = SW("6c", Len(avail)) /\ ans.card.avail = avail
    <3>1. ans.sw.first = "6c" /\ ans.sw.n = Len(avail)
      BY <2>2, <2>6, SWFields DEF FirstBytes
    <3>2. CASE io'.at = "done"
      BY <1>5, <1>9, <3>1, <3>2 DEF Sending, Received1, Returned, Good
    <3>3. CASE io'.at = "send"
      <4>1. io'.data = <<>> /\ io'.tpdu.ins = "get_response"
        BY <1>5, <1>6, <1>9, <3>1, <3>3
      <4>2. \/ avail = <<>>
            \/ io.data = <<>> /\ io.data \o avail = Response(io.apdu) /\ card.executed[calls] = 1
        BY <2>1, <2>2, <2>6
      <4>3. GetResponseOut'
        BY <1>5, <2>1, <2>4, <2>6, <4>1, <4>2 DEF GetResponseOut, avail
      <4> QED
        BY <1>5, <1>9, <3>3, <4>1, <4>3 DEF Sending, Received1
    <3> QED
      BY <1>5, <3>2, <3>3
  <2>7. CASE /\ avail # <<>> /\ n <= Len(avail) /\ ans.data = SubSeq(avail, 1, n)
             /\ ans.card.avail = SubSeq(avail, n + 1, Len(avail))
             /\ \/ ans.sw.first = "61" /\ ans.sw.n <= Len(ans.card.avail)
                \/ ans.sw.first \in {"90", "91"} /\ ans.card.avail = <<>>
    <3>1. io.data \o avail = Response(io.apdu) /\ card.executed[calls] = 1
      BY <2>1, <2>7
    <3>2. n \in 0 .. Len(avail)
      BY <2>2, <2>7
    <3>3. data \o ans.card.avail = Response(io.apdu)
      <4>1. (io.data \o SubSeq(avail, 1, n)) \o SubSeq(avail, n + 1, Len(avail)) = io.data \o avail
        BY <1>1, <2>2, <3>2, PartsInOrder
      <4>2. data = io.data \o SubSeq(avail, 1, n)
        BY <2>7 DEF data
      <4> QED
        BY <2>7, <3>1, <4>1, <4>2
    <3>4. CASE ans.sw.first = "61" /\ ans.sw.n <= Len(ans.card.avail)
      <4>1. CASE io'.at = "done"
        BY <1>5, <1>9, <3>4, <4>1 DEF Sending, Received1, Returned, Good
      <4>2. CASE io'.at = "send"
        <5>1. io'.data = data /\ io'.tpdu.ins = "get_response" /\ io'.tpdu.le = ans.sw.n
          BY <1>5, <3>4, <4>2
        <5>2. GetResponseOut'
          BY <1>5, <2>1, <2>4, <3>1, <3>3, <3>4, <5>1 DEF GetResponseOut
        <5> QED
          BY <1>5, <1>9, <4>2, <5>1, <5>2 DEF Sending, Received1
      <4> QED
        BY <1>5, <4>1, <4>2
    <3>5. CASE ans.sw.first \in {"90", "91"} /\ ans.card.avail = <<>>
      <4>1. io'.at = "done" /\ io'.data = data
        BY <1>5, <3>5
      <4>2. data = Response(io.apdu)
        BY <1>3, <3>3, <3>5, ConcatEmptySeq
      <4> QED
        BY <1>5, <1>9, <2>1, <2>4, <3>1, <4>1, <4>2 DEF Sending, Received1, Returned
    <3> QED
      BY <2>7, <3>4, <3>5
  <2>8. Sending' /\ Received1'
    BY <2>4, <2>5, <2>6, <2>7
  <2> QED
    BY <1>5, <2>8
<1>10. CASE io.apdu.ins = "fetch" /\ io.tpdu = io.apdu /\ io.data = <<>>
  <2>1. ans \in FetchAnswers(card) /\ card \in Cards
    BY <1>10 DEF CardAnswers, IInv, TypeInv
  <2>2. \/ ans.sw.first = "6f"
        \/ ans.sw.first = "90" /\ \E pcmd \in Nat : ans.data = <<<<0, pcmd>>>>
    BY <2>1, FetchAnswered
  <2>3. io'.at = "done" /\ io'.sw = ans.sw /\ io'.data = data
    BY <1>5, <2>2
  <2>4. data = ans.data
    BY <1>2, <1>10, ConcatEmptySeq DEF data
  <2> QED
    BY <1>5, <1>10, <2>2, <2>3, <2>4 DEF Sending, Received1, Returned
<1>11. CASE io.apdu.ins = "terminal_response" /\ io.tpdu = io.apdu /\ io.data = <<>>
  <2>1. ans \in TerminalResponseAnswers(card, io.tpdu.id) /\ card \in Cards
    BY <1>11 DEF CardAnswers, IInv, TypeInv
  <2>2. ans.sw.first \in {"90", "91", "6f"}
    BY <1>1, <2>1, TerminalResponseAnswered
  <2>3. io'.at = "done"
    BY <1>5, <2>2
  <2> QED
    BY <1>5, <1>11, <2>3 DEF Sending, Received1, Returned
<1> QED
  BY <1>7, <1>8, <1>9, <1>10, <1>11 DEF Sending

\* Where nothing is on its way, the driver hands over the answer to what was sent.
LEMMA Line ==
  ASSUME NoLateAnswer, coming = <<>>, NEW x
  PROVE  LET arriving == LineBefore \o Append(coming, x)
         IN  Head(arriving) = x /\ Tail(arriving) = <<>>
<1>1. LineBefore = <<>>
  BY DEF NoLateAnswer, LineBefore
<1>2. Append(<<>>, x) = <<x>> /\ Head(<<x>>) = x /\ Tail(<<x>>) = <<>>
  BY FramesOfTuples
<1>3. <<>> \o <<x>> = <<x>>
  OBVIOUS
<1> QED
  BY <1>1, <1>2, <1>3

LEMMA SendStep ==
  ASSUME TransportAssumption, IInv, send_tpdu, ~overtaken'
  PROVE  IInv'
<1>1. /\ io.at = "send" /\ link' = link /\ stack' = stack /\ calls' = calls /\ outcome' = outcome
      /\ line' = <<>> /\ coming = <<>> /\ ~overtaken
  BY DEF send_tpdu
<1>2. PICK ans \in CardAnswers(card, io.tpdu, link.protocol) :
        LET arriving == LineBefore \o Append(coming, Received(ans))
            first == Head(arriving)
        IN  /\ card' = ans.card
            /\ coming' = Tail(arriving)
            /\ io' = AfterAnswer(io, io.data \o first.data, first.sw)
  BY DEF send_tpdu
<1>3. NoLateAnswer
  BY DEF IInv, TypeInv
<1>4. card' = ans.card /\ coming' = <<>> /\ io' = AfterAnswer(io, io.data \o ans.data, ans.sw)
  <2>1. Received(ans).data = ans.data /\ Received(ans).sw = ans.sw
    BY DEF Received
  <2>2. LET arriving == LineBefore \o Append(coming, Received(ans))
        IN  Head(arriving) = Received(ans) /\ Tail(arriving) = <<>>
    BY <1>1, <1>3, Line
  <2> QED
    BY <1>2, <2>1, <2>2
<1>5. /\ ans \in Answers
      /\ \/ ans.card.executed = card.executed
         \/ /\ calls > 0 /\ card.executed[calls] = 0
            /\ ans.card.executed = Incremented(card.executed, calls)
  BY <1>1, CardStep
<1>6. card' \in Cards
  BY <1>4, <1>5 DEF Answers
<1>7. /\ io'.apdu = io.apdu /\ io'.at \in {"send", "done"}
      /\ io'.at = "send" => io' \in Requests
      /\ io'.at = "done" => io' \in Answered
      /\ Sending' /\ Received1'
  BY <1>1, <1>4, RequestStep
<1>8. TypeInv'
  <2>1. NoLateAnswer'
    BY <1>1, <1>3, <1>4 DEF NoLateAnswer
  <2>2. line' \in Seq(LateAnswers) /\ coming' \in Seq(LateAnswers)
    BY <1>1, <1>4
  <2>3. overtaken' \in BOOLEAN
    BY Zenon DEF send_tpdu
  <2> QED
    BY <1>1, <1>6, <1>7, <2>1, <2>2, <2>3 DEF IInv, TypeInv
<1>9. /\ OnceIn(card')
      /\ outcome.how = "returned" /\ outcome.call = calls /\ Good(outcome.sw)
           => card'.executed[outcome.call] = 1
  BY <1>4, <1>5, <1>6, ExecutedKept DEF IInv
<1>10. Executed'
  BY <1>1, <1>9 DEF Executed, OnceIn
<1>11. Told'
  BY <1>1, <1>9 DEF IInv, Told, IsAnswer, Good
<1>12. io # Idle
  BY <1>1 DEF Idle
<1>13. ASSUME NEW f \in Frames, Bottom(f), f.at \in {"fetch", "response"}, io.apdu.ins # "command"
       PROVE  Bottom(f)'
  <2>1. Returned(f.apdu, f.data, f.sw)
    BY <1>13 DEF Bottom
  <2>2. card'.executed = card.executed
    <3>1. io.tpdu.ins \in {"fetch", "terminal_response"}
      BY <1>1, <1>13 DEF IInv, Sending
    <3>2. io.tpdu \in Apdus /\ io.tpdu.id \in Nat /\ card \in Cards
      BY <1>1 DEF IInv, TypeInv, Requests, Apdus
    <3>3. CASE io.tpdu.ins = "fetch"
      BY <1>4, <3>2, <3>3, FetchAnswered DEF CardAnswers
    <3>4. CASE io.tpdu.ins = "terminal_response"
      BY <1>4, <3>2, <3>4, TerminalResponseAnswered DEF CardAnswers
    <3> QED
      BY <3>1, <3>3, <3>4
  <2>3. Returned(f.apdu, f.data, f.sw)'
    BY <1>1, <2>1, <2>2 DEF Returned
  <2> QED
    BY <1>1, <1>7, <1>13, <2>3 DEF Bottom, Waiting
<1>14. ASSUME \E f \in Frames : stack = <<f>> /\ Bottom(f) /\ f.at # "fetch"
       PROVE  Calling'
  <2>1. PICK f \in Frames : stack = <<f>> /\ Bottom(f) /\ f.at # "fetch"
    BY <1>14
  <2>2. f.at \in {"command", "response"}
    BY <1>12, <2>1 DEF Frames, Bottom
  <2>3. CASE f.at = "command"
    BY <1>1, <1>7, <2>1, <2>3 DEF Calling, Bottom, Waiting
  <2>4. CASE f.at = "response"
    <3>1. io.apdu.ins # "command"
      BY <2>1, <2>4 DEF Bottom, Waiting
    <3>2. Bottom(f)'
      BY <1>13, <2>1, <2>4, <3>1
    <3> QED
      BY <1>1, <2>1, <3>2 DEF Calling
  <2> QED
    BY <2>2, <2>3, <2>4
<1>15. ASSUME \E f, g \in Frames : stack = <<f, g>> /\ Bottom(f) /\ f.at = "fetch" /\ Upper(g)
       PROVE  Calling'
  <2>1. PICK f \in Frames, g \in Frames :
           stack = <<f, g>> /\ Bottom(f) /\ f.at = "fetch" /\ Upper(g)
    BY <1>15
  <2>2. g.at = "command" /\ io.apdu.ins = "fetch" /\ io.apdu = g.apdu
    BY <1>12, <2>1 DEF Upper, Waiting
  <2>3. Upper(g)'
    BY <1>7, <2>1, <2>2 DEF Upper, Waiting
  <2>4. Bottom(f)'
    BY <1>13, <2>1, <2>2
  <2> QED
    BY <1>1, <2>1, <2>3, <2>4 DEF Calling
<1>16. Calling'
  BY <1>12, <1>14, <1>15 DEF IInv, Calling
<1> QED
  BY <1>7, <1>8, <1>10, <1>11, <1>16 DEF IInv

LEMMA TimeoutStep ==
  ASSUME TransportAssumption, IInv, Timeout
  PROVE  IInv'
<1>1. /\ io.at = "send" /\ Raised("ReaderError") /\ link' = link /\ calls' = calls
      /\ line' = LineBefore /\ overtaken' = overtaken
  BY DEF Timeout
<1>2. /\ NoLateAnswer /\ card \in Cards
      /\ line \in Seq(LateAnswers) /\ coming \in Seq(LateAnswers) /\ overtaken \in BOOLEAN
  BY DEF IInv, TypeInv
<1>3. line' \in Seq(LateAnswers) /\ (line = <<>> => line' = <<>>)
  BY <1>1, <1>2 DEF LineBefore
<1>4. CASE UNCHANGED <<card, coming>>
  <2>1. NoLateAnswer'
    BY <1>1, <1>2, <1>3, <1>4 DEF NoLateAnswer
  <2>2. OnceIn(card')
    BY <1>4 DEF IInv, Executed
  <2> QED
    BY <1>1, <1>2, <1>3, <1>4, <2>1, <2>2, AfterException
<1>5. ASSUME NEW ans \in CardAnswers(card, io.tpdu, link.protocol),
             card' = ans.card,
             coming' \in {coming, <<>>} \cup
                    IF Driver = "pcsc" THEN {} ELSE {Append(coming, Received(ans))}
      PROVE  IInv'
  <2>1. /\ ans \in Answers
        /\ \/ ans.card.executed = card.executed
           \/ /\ calls > 0 /\ card.executed[calls] = 0
              /\ ans.card.executed = Incremented(card.executed, calls)
    BY <1>1, CardStep
  <2>2. card' \in Cards /\ Received(ans) \in LateAnswers
    BY <1>5, <2>1 DEF Answers, Received, LateAnswers
  <2>3. OnceIn(card')
    BY <1>5, <2>1, <2>2, ExecutedKept DEF IInv
  <2>4. coming' \in Seq(LateAnswers)
    <3>1. coming' = coming \/ coming' = <<>> \/ coming' = Append(coming, Received(ans))
      BY <1>5
    <3>2. Append(coming, Received(ans)) \in Seq(LateAnswers) /\ <<>> \in Seq(LateAnswers)
      BY <1>2, <2>2
    <3> QED
      BY <1>2, <3>1, <3>2, Zenon
  <2>5. NoLateAnswer'
    BY <1>1, <1>2, <1>3, <1>5 DEF NoLateAnswer
  <2> QED
    BY <1>1, <1>2, <1>3, <2>2, <2>3, <2>4, <2>5, AfterException
<1> QED
  BY <1>4, <1>5 DEF Timeout

\* A call begins anew, whatever was read in the one before it.
LEMMA CallStep ==
  ASSUME TransportAssumption, Anyhow, Call
  PROVE  IInv'
<1>1. PICK case \in 1 .. 4, size \in 0 .. MaxSize, any \in BOOLEAN, want \in {"9000", "9xxx", "none"} :
        LET apdu == Command(calls + 1, case, size, IF any THEN 0 ELSE size, want)
        IN  stack' = <<Frame(apdu)>> /\ io' = _send_apdu(apdu)
  BY DEF Call
<1>2. /\ stack = <<>> /\ calls < MaxCalls /\ calls' = calls + 1
      /\ link' = link /\ line' = line /\ coming' = coming /\ overtaken' = FALSE
      /\ outcome' = outcome /\ card' = card
  BY DEF Call
<1> DEFINE apdu == Command(calls + 1, case, size, IF any THEN 0 ELSE size, want)
<1>3. /\ calls \in 0 .. MaxCalls /\ card \in Cards /\ NoLateAnswer
      /\ card.executed \in [1 .. MaxCalls -> Nat] /\ MaxCalls \in Nat
      /\ \A i \in 1 .. MaxCalls : i > calls => card.executed[i] = 0
  BY DEF Anyhow, TypeInv, Cards, TransportAssumption
<1>4. apdu \in Apdus /\ apdu.ins = "command" /\ apdu.id = calls + 1
  <2>1. size \in Nat /\ case \in Nat /\ calls + 1 \in Nat
    BY <1>3 DEF TransportAssumption
  <2> QED
    BY <2>1 DEF Command, Apdus
<1>5. stack' = <<Frame(apdu)>> /\ io' = _send_apdu(apdu)
  BY <1>1
<1> HIDE DEF apdu
<1>6. PICK f \in Frames : stack' = <<f>> /\ f.apdu = apdu /\ f.at = "command"
  BY <1>4, <1>5, NewFrame
<1>7. /\ io' \in Requests /\ io'.at = "send" /\ io'.apdu = apdu /\ io'.tpdu = apdu
      /\ io'.data = <<>>
  BY <1>4, <1>5, NewRequest
<1>8. TypeInv'
  <2>1. calls' \in 0 .. MaxCalls
    BY <1>2, <1>3
  <2>2. NoLateAnswer'
    BY <1>2, <1>3 DEF NoLateAnswer
  <2>3. /\ link \in [protocol : {0, 1}, proactive_handler : BOOLEAN, apdu_strict : BOOLEAN]
        /\ line \in Seq(LateAnswers) /\ coming \in Seq(LateAnswers)
    BY DEF Anyhow, TypeInv
  <2> QED
    BY <1>2, <1>3, <1>7, <2>1, <2>2, <2>3 DEF TypeInv
<1>a. calls + 1 \in 1 .. MaxCalls /\ card.executed[calls + 1] = 0
  <2>1. calls + 1 \in 1 .. MaxCalls /\ calls + 1 > calls
    BY <1>2, <1>3
  <2> QED
    BY <1>3, <2>1
<1>9. Executed'
  <2>1. ASSUME NEW i \in 1 .. MaxCalls, i > calls + 1
        PROVE  card.executed[i] = 0
    BY <1>3, <2>1
  <2> QED
    BY <1>2, <1>a, <2>1 DEF Executed, OnceIn
<1>10. Sending' /\ Received1'
  BY <1>2, <1>3, <1>4, <1>7, <1>a DEF Sending, CommandOut, Received1
<1>11. Calling'
  <2>1. Bottom(f)'
    BY <1>2, <1>3, <1>4, <1>6, <1>7 DEF Bottom, Waiting
  <2> QED
    BY <1>6, <2>1 DEF Calling
<1>12. Told'
  <2>1. outcome.how = "returned" => outcome.call \in 0 .. calls
    BY DEF Anyhow
  <2>2. outcome.call \in 0 .. calls => outcome.call # calls + 1
    BY <1>3
  <2> QED
    BY <1>2, <2>1, <2>2 DEF Told
<1> QED
  BY <1>8, <1>9, <1>10, <1>11, <1>12 DEF IInv

\* A step that changes only what the process has in progress.
LEMMA ProcessStep ==
  ASSUME IInv, link' = link, line' = line, calls' = calls, card' = card,
         coming' = coming, overtaken' = overtaken,
         \/ io' = Idle
         \/ \E apdu \in Apdus : /\ apdu.ins \in {"fetch", "terminal_response"}
                                /\ io' = _send_apdu(apdu),
         Told', Calling'
  PROVE  IInv'
<1>1. Executed'
  BY DEF IInv, Executed, OnceIn
<1>2. CASE io' = Idle
  <2>1. TypeInv' /\ Sending' /\ Received1'
    BY <1>2 DEF IInv, TypeInv, NoLateAnswer, Idle, Sending, Received1
  <2> QED
    BY <1>1, <2>1 DEF IInv
<1>3. CASE \E apdu \in Apdus : /\ apdu.ins \in {"fetch", "terminal_response"}
                               /\ io' = _send_apdu(apdu)
  <2>1. PICK apdu \in Apdus : apdu.ins \in {"fetch", "terminal_response"} /\ io' = _send_apdu(apdu)
    BY <1>3
  <2>2. /\ io' \in Requests /\ io'.at = "send" /\ io'.apdu = apdu /\ io'.tpdu = apdu
        /\ io'.data = <<>>
    BY <2>1, NewRequest
  <2>3. TypeInv' /\ Sending' /\ Received1'
    BY <2>1, <2>2 DEF IInv, TypeInv, NoLateAnswer, Sending, Received1
  <2> QED
    BY <1>1, <2>3 DEF IInv
<1> QED
  BY <1>2, <1>3

LEMMA RaisedStep ==
  ASSUME IInv, NEW how, how # "returned", Raised(how), link' = link, line' = line,
         coming' = coming, overtaken' = overtaken, calls' = calls, card' = card
  PROVE  IInv'
<1>1. card' \in Cards /\ NoLateAnswer' /\ OnceIn(card')
  BY DEF IInv, TypeInv, NoLateAnswer, Executed
<1>2. line' \in Seq(LateAnswers) /\ coming' \in Seq(LateAnswers) /\ overtaken' \in BOOLEAN
  BY DEF IInv, TypeInv
<1> QED
  BY <1>1, <1>2, AfterException

LEMMA SameOutcome ==
  ASSUME IInv, outcome' = outcome, card' = card, calls' = calls
  PROVE  Told'
BY DEF IInv, Told, IsAnswer

LEMMA AnswerStep ==
  ASSUME IInv, send_apdu_returns
  PROVE  IInv'
<1>1. /\ io.at = "done" /\ link' = link /\ line' = line /\ coming' = coming /\ overtaken' = overtaken
      /\ calls' = calls /\ card' = card
      /\ \/ Raised("ValueError")
         \/ /\ io' = Idle /\ outcome' = outcome
            /\ stack' = Replaced(IF Top.at = "command"
                                 THEN [Top EXCEPT !.at = "loop", !.data = io.data, !.sw = io.sw,
                                                  !.last = io.sw]
                                 ELSE [Top EXCEPT !.at = "loop", !.last = io.sw])
  BY DEF send_apdu_returns
<1>2. CASE Raised("ValueError")
  BY <1>1, <1>2, RaisedStep
<1>3. CASE /\ io' = Idle /\ outcome' = outcome
           /\ stack' = Replaced(IF Top.at = "command"
                                THEN [Top EXCEPT !.at = "loop", !.data = io.data, !.sw = io.sw,
                                                 !.last = io.sw]
                                ELSE [Top EXCEPT !.at = "loop", !.last = io.sw])
  <2>1. io # Idle /\ io \in Answered /\ Returned(io.apdu, io.data, io.sw)
    BY <1>1 DEF Idle, IInv, TypeInv, Received1
  <2>2. io.data \in Seq(Parts) /\ io.sw \in SWs
    BY <2>1 DEF Answered
  <2>3. \A apdu, data, sw : Returned(apdu, data, sw) <=> Returned(apdu, data, sw)'
    BY <1>1 DEF Returned
  <2>4. ASSUME NEW f \in Frames, stack = <<f>>, Bottom(f), f.at # "fetch"
        PROVE  Calling'
    <3>1. Top = f /\ Front(stack) = <<>>
      BY <2>4, FramesOfTuples DEF Top
    <3>2. CASE f.at = "command"
      <4>1. PICK h \in Frames :
              /\ h = WithAnswer(f, io.data, io.sw)
              /\ h.at = "loop" /\ h.apdu = f.apdu /\ h.data = io.data /\ h.sw = io.sw
              /\ h.last = io.sw
        BY <2>2, FrameAnswered
      <4>2. stack' = <<h>>
        BY <1>3, <3>1, <3>2, <4>1, FramesOfTuples DEF Replaced, WithAnswer
      <4>3. Bottom(h)'
        BY <1>1, <1>3, <2>1, <2>3, <2>4, <3>2, <4>1 DEF Bottom
      <4> QED
        BY <4>1, <4>2, <4>3 DEF Calling
    <3>3. CASE f.at = "response"
      <4>1. PICK h \in Frames :
              /\ h = [f EXCEPT !.at = "loop", !.last = io.sw]
              /\ h.at = "loop" /\ h.apdu = f.apdu /\ h.data = f.data /\ h.sw = f.sw
        BY <2>2, FrameResponded
      <4>2. stack' = <<h>>
        BY <1>3, <3>1, <3>3, <4>1, FramesOfTuples DEF Replaced
      <4>3. Bottom(h)'
        BY <1>1, <1>3, <2>3, <2>4, <3>3, <4>1 DEF Bottom
      <4> QED
        BY <4>1, <4>2, <4>3 DEF Calling
    <3>4. f.at \in {"command", "response"}
      BY <2>1, <2>4 DEF Bottom, Frames
    <3> QED
      BY <3>2, <3>3, <3>4
  <2>5. ASSUME NEW f \in Frames, NEW g \in Frames, stack = <<f, g>>, Bottom(f),
               f.at = "fetch", Upper(g)
        PROVE  Calling'
    <3>1. Top = g /\ Front(stack) = <<f>>
      BY <2>5, FramesOfTuples DEF Top
    <3>2. g.at = "command" /\ io.apdu = g.apdu
      BY <2>1, <2>5 DEF Upper
    <3>3. PICK h \in Frames :
            /\ h = WithAnswer(g, io.data, io.sw)
            /\ h.at = "loop" /\ h.apdu = g.apdu /\ h.data = io.data /\ h.sw = io.sw
            /\ h.last = io.sw
      BY <2>2, FrameAnswered
    <3>4. stack' = <<f, h>>
      BY <1>3, <3>1, <3>2, <3>3, FramesOfTuples DEF Replaced, WithAnswer
    <3>5. Upper(h)'
      BY <1>1, <1>3, <2>1, <2>3, <2>5, <3>2, <3>3 DEF Upper
    <3>6. Bottom(f)'
      BY <1>1, <2>3, <2>5 DEF Bottom
    <3> QED
      BY <2>5, <3>3, <3>4, <3>5, <3>6 DEF Calling
  <2>6. Calling'
    BY <2>1, <2>4, <2>5 DEF IInv, Calling
  <2> QED
    BY <1>1, <1>3, <2>6, ProcessStep, SameOutcome
<1> QED
  BY <1>1, <1>2, <1>3

\* A frame at the loop, and the one below it.
LEMMA AtLoopFrames ==
  ASSUME IInv, AtLoop
  PROVE  \/ \E f \in Frames : /\ stack = <<f>> /\ Top = f /\ Front(stack) = <<>>
                              /\ Bottom(f) /\ f.at = "loop"
         \/ \E f, g \in Frames : /\ stack = <<f, g>> /\ Top = g /\ Front(stack) = <<f>>
                                 /\ Bottom(f) /\ f.at = "fetch" /\ Upper(g) /\ g.at = "loop"
<1>1. \A f : stack = <<f>> => Top = f /\ Front(stack) = <<>>
  BY FramesOfTuples DEF Top
<1>2. \A f, g : stack = <<f, g>> => Top = g /\ Front(stack) = <<f>>
  BY FramesOfTuples DEF Top
<1> QED
  BY <1>1, <1>2 DEF IInv, Calling, AtLoop

LEMMA FetchStep ==
  ASSUME TransportAssumption, IInv, Fetch
  PROVE  IInv'
<1> DEFINE apdu == FetchCommand(Top.last.n)
<1>1. /\ AtLoop /\ Announces(Top)
      /\ stack' = Append(Replaced([Top EXCEPT !.sw = Success, !.at = "fetch"]), Frame(apdu))
      /\ io' = _send_apdu(apdu)
      /\ link' = link /\ line' = line /\ coming' = coming /\ overtaken' = overtaken
      /\ calls' = calls /\ outcome' = outcome /\ card' = card
  BY DEF Fetch
<1>2. \A a, data, sw : Returned(a, data, sw) <=> Returned(a, data, sw)'
  BY <1>1 DEF Returned
<1>3. ASSUME NEW f \in Frames, stack = <<f>>, Top = f, Front(stack) = <<>>, Bottom(f), f.at = "loop"
      PROVE  IInv'
  <2>1. f.last \in SWs /\ f.last.n \in Nat /\ f.last.first = "91"
    BY <1>1, <1>3 DEF Frames, SWs, Announces
  <2>2. apdu \in Apdus /\ apdu.ins = "fetch" /\ apdu.want = "9000"
    BY <1>3, <2>1 DEF FetchCommand, Apdus
  <2> HIDE DEF apdu
  <2>3. PICK h \in Frames : /\ h = [f EXCEPT !.sw = Success, !.at = "fetch"]
                            /\ h.at = "fetch" /\ h.apdu = f.apdu /\ h.data = f.data
                            /\ h.sw = Success
    BY FrameFetching
  <2>4. PICK g \in Frames : g = Frame(apdu) /\ g.apdu = apdu /\ g.at = "command"
    BY <2>2, NewFrame
  <2>5. stack' = <<h, g>>
    BY <1>1, <1>3, <2>3, <2>4, FramesOfTuples DEF Replaced
  <2>6. Returned(f.apdu, f.data, Success)
    <3>1. Good(f.sw) /\ Good(Success) /\ f.apdu.ins = "command"
      BY <1>3, <2>1, DoneType DEF Bottom, Good
    <3> QED
      BY <1>3, <3>1 DEF Bottom, Returned
  <2>7. io'.at = "send" /\ io'.apdu = apdu
    BY <1>1, <2>2, NewRequest
  <2>8. Bottom(h)'
    BY <1>1, <1>2, <1>3, <2>3, <2>6 DEF Bottom
  <2>9. Upper(g)'
    BY <2>2, <2>4, <2>7 DEF Upper, Waiting
  <2>10. Calling'
    BY <2>3, <2>4, <2>5, <2>8, <2>9 DEF Calling
  <2> QED
    BY <1>1, <2>2, <2>10, ProcessStep, SameOutcome
<1>4. ASSUME NEW f \in Frames, NEW g \in Frames, Top = g, Upper(g), g.at = "loop"
      PROVE  FALSE
  <2>1. g.last.first \in {"6f", "90"}
    BY <1>4 DEF Upper, Returned
  <2> QED
    BY <1>1, <1>4, <2>1 DEF Announces
<1> QED
  BY <1>1, <1>3, <1>4, AtLoopFrames

\* The proactive command of the FETCH is handled in the call below it.
Handles ==
  /\ Top.data # <<>>
  /\ stack' = Append(Front(Front(stack)),
                     [Last(Front(stack)) EXCEPT !.at = "response", !.pcmd = Head(Top.data)[2]])
  /\ io' = _send_apdu(TerminalResponse(Head(Top.data)[2]))

LEMMA FetchReturnsStep ==
  ASSUME IInv, FetchReturns
  PROVE  IInv'
<1>1. /\ AtLoop /\ Len(stack) > 1 /\ sw_match(Top.sw, Top.apdu.want)
      /\ link' = link /\ line' = line /\ coming' = coming /\ overtaken' = overtaken
      /\ calls' = calls /\ card' = card
      /\ \/ Handles /\ outcome' = outcome
         \/ Raised("exception")
  BY DEF FetchReturns, Handles
<1>2. CASE Raised("exception")
  BY <1>1, <1>2, RaisedStep
<1>3. CASE Handles /\ outcome' = outcome
  <2>1. ASSUME NEW f
        PROVE  stack # <<f>>
    <3> SUFFICES ASSUME stack = <<f>> PROVE FALSE
      OBVIOUS
    <3>1. Len(<<f>>) = 1
      BY FramesOfTuples
    <3>2. Len(<<f>>) > 1
      BY <1>1
    <3>3. 1 > 1
      BY <3>1, <3>2
    <3> QED
      BY <3>3
  <2>2. PICK f \in Frames, g \in Frames :
          /\ stack = <<f, g>> /\ Top = g /\ Front(stack) = <<f>>
          /\ Bottom(f) /\ f.at = "fetch" /\ Upper(g) /\ g.at = "loop"
    BY <1>1, <2>1, AtLoopFrames
  <2>3. PICK pcmd \in Nat : g.data = <<<<0, pcmd>>>>
    <3>1. g.apdu.want = "9000" /\ g.apdu.ins = "fetch" /\ Returned(g.apdu, g.data, g.sw)
      BY <2>2 DEF Upper
    <3>2. g.sw.first = "90"
      BY <1>1, <2>2, <3>1, DoneType DEF sw_match
    <3> QED
      BY <3>1, <3>2 DEF Returned
  <2>4. /\ Head(Top.data)[2] = pcmd /\ Last(Front(stack)) = f /\ Front(Front(stack)) = <<>>
    BY <2>2, <2>3, FramesOfTuples
  <2>5. PICK h \in Frames : /\ h = [f EXCEPT !.at = "response", !.pcmd = pcmd]
                            /\ h.at = "response" /\ h.apdu = f.apdu /\ h.data = f.data
                            /\ h.sw = f.sw
    BY FrameAnswering
  <2>6. stack' = <<h>>
    BY <1>3, <2>4, <2>5, FramesOfTuples DEF Handles
  <2>7. TerminalResponse(pcmd) \in Apdus /\ TerminalResponse(pcmd).ins = "terminal_response"
    BY DEF TerminalResponse, Apdus
  <2>8. io' = _send_apdu(TerminalResponse(pcmd))
    BY <1>3, <2>4 DEF Handles
  <2>9. io'.at = "send" /\ io'.apdu.ins = "terminal_response"
    BY <2>7, <2>8, NewRequest
  <2>10. Returned(f.apdu, f.data, f.sw)'
    BY <1>1, <2>2 DEF Bottom, Returned
  <2>11. f.sw = Success
    BY <2>2 DEF Bottom
  <2>12. Bottom(h)'
    BY <1>1, <2>2, <2>5, <2>9, <2>10, <2>11 DEF Bottom, Waiting
  <2>13. Calling'
    BY <2>5, <2>6, <2>12 DEF Calling
  <2> QED
    BY <1>1, <1>3, <2>7, <2>8, <2>13, ProcessStep, SameOutcome
<1> QED
  BY <1>1, <1>2, <1>3

LEMMA ReturnStep ==
  ASSUME IInv, Return
  PROVE  IInv'
<1>1. /\ AtLoop /\ Len(stack) = 1 /\ stack' = <<>> /\ io' = io
      /\ outcome' = Result("returned", Top.apdu, Top.data, Top.sw)
      /\ link' = link /\ line' = line /\ coming' = coming /\ overtaken' = overtaken
      /\ calls' = calls /\ card' = card
  BY DEF Return
<1>2. \A f, g : Len(<<f, g>>) = 2
  BY FramesOfTuples
<1>3. PICK f \in Frames : stack = <<f>> /\ Top = f /\ Bottom(f) /\ f.at = "loop"
  BY <1>1, <1>2, AtLoopFrames
<1>4. io' = Idle
  BY <1>1 DEF AtLoop
<1>5. /\ outcome'.how = "returned" /\ outcome'.call = f.apdu.id /\ outcome'.size = f.apdu.size
      /\ outcome'.data = f.data /\ outcome'.sw = f.sw
  BY <1>1, <1>3 DEF Result
<1>6. Good(f.sw) => /\ f.apdu.id = calls /\ calls > 0 /\ card.executed[calls] = 1
                    /\ f.data = Response(f.apdu)
  BY <1>3 DEF Bottom, Returned
<1>7. Told'
  <2>2. Response(f.apdu) = [i \in 1 .. f.apdu.size |-> <<f.apdu.id, i>>]
    BY DEF Response
  <2>3. CASE ~Good(f.sw)
    BY <1>5, <2>3 DEF Told, IsAnswer, Good
  <2>4. CASE Good(f.sw)
    <3>2. outcome'.data = [i \in 1 .. outcome'.size |-> <<outcome'.call, i>>]
      BY <1>5, <1>6, <2>2, <2>4
    <3>3. card'.executed[outcome'.call] = 1
      BY <1>1, <1>5, <1>6, <2>4
    <3> QED
      BY <3>2, <3>3 DEF Told, IsAnswer
  <2> QED
    BY <2>3, <2>4
<1>8. Calling'
  BY <1>1, <1>4 DEF Calling
<1> QED
  BY <1>1, <1>4, <1>7, <1>8, ProcessStep

\* A late answer on its way disturbs nothing but the line.
LEMMA ElsewhereStep ==
  ASSUME IInv, UNCHANGED <<link, stack, io, calls, outcome, card>>, TypeInv'
  PROVE  IInv'
<1>1. Executed'
  BY DEF IInv, Executed, OnceIn
<1>2. Sending'
  BY DEF IInv, Sending, CommandOut, GetResponseOut
<1>3. \A apdu, data, sw : Returned(apdu, data, sw) <=> Returned(apdu, data, sw)'
  BY DEF Returned
<1>4. Received1'
  BY <1>3 DEF IInv, Received1
<1>5. \A f : Bottom(f) <=> Bottom(f)'
  BY <1>3 DEF Bottom, Waiting
<1>6. \A g : Upper(g) <=> Upper(g)'
  BY <1>3 DEF Upper, Waiting
<1>7. Calling'
  BY <1>5, <1>6 DEF IInv, Calling
<1> QED
  BY <1>1, <1>2, <1>4, <1>7, SameOutcome DEF IInv

LEMMA ArrivesType ==
  ASSUME TypeInv, Arrives
  PROVE  TypeInv'
<1>1. /\ coming # <<>> /\ line' = Append(line, Head(coming)) /\ coming' = Tail(coming)
      /\ UNCHANGED <<link, io, overtaken, calls, card>>
  BY DEF Arrives
<1>2. line \in Seq(LateAnswers) /\ coming \in Seq(LateAnswers)
  BY DEF TypeInv
<1>3. line' \in Seq(LateAnswers) /\ coming' \in Seq(LateAnswers)
  <2>1. Head(coming) \in LateAnswers /\ Tail(coming) \in Seq(LateAnswers)
    BY <1>1, <1>2
  <2> QED
    BY <1>1, <1>2, <2>1
<1>4. NoLateAnswer'
  BY <1>1 DEF TypeInv, NoLateAnswer
<1> QED
  BY <1>1, <1>3, <1>4 DEF TypeInv

LEMMA Step ==
  ASSUME TransportAssumption, Anyhow, ~overtaken => IInv, [Next]_vars, ~overtaken'
  PROVE  IInv'
<1>1. CASE Call
  BY <1>1, CallStep
<1>2. CASE ~Call /\ IInv
  <2>1. CASE send_tpdu
    BY <1>2, <2>1, SendStep
  <2>2. CASE send_apdu_returns
    BY <1>2, <2>2, AnswerStep
  <2>3. CASE Fetch
    BY <1>2, <2>3, FetchStep
  <2>4. CASE FetchReturns
    BY <1>2, <2>4, FetchReturnsStep
  <2>5. CASE Return
    BY <1>2, <2>5, ReturnStep
  <2>6. CASE RaiseSwMatchError
    <3>1. /\ Raised("SwMatchError") /\ link' = link /\ line' = line /\ coming' = coming
          /\ overtaken' = overtaken /\ calls' = calls /\ card' = card
      BY <2>6 DEF RaiseSwMatchError
    <3> QED
      BY <1>2, <3>1, RaisedStep
  <2>7. CASE Timeout
    BY <1>2, <2>7, TimeoutStep
  <2>8. CASE Arrives
    <3>1. UNCHANGED <<link, stack, io, calls, outcome, card>>
      BY <2>8 DEF Arrives
    <3> QED
      BY <1>2, <2>8, <3>1, ArrivesType, ElsewhereStep DEF IInv
  <2>9. CASE UNCHANGED vars
    <3>1. UNCHANGED <<link, stack, io, calls, outcome, card, line, coming, overtaken>>
      BY <2>9 DEF vars
    <3>2. TypeInv'
      BY <1>2, <3>1 DEF IInv, TypeInv, NoLateAnswer
    <3> QED
      BY <1>2, <3>1, <3>2, ElsewhereStep
  <2> QED
    BY <1>2, <2>1, <2>2, <2>3, <2>4, <2>5, <2>6, <2>7, <2>8, <2>9 DEF Next
<1>3. ~Call => ~overtaken
  BY DEF Next, send_tpdu, send_apdu_returns, Fetch, FetchReturns, Return, RaiseSwMatchError,
         Timeout, Arrives, vars
<1> QED
  BY <1>1, <1>2, <1>3

-----------------------------------------------------------------------------
(***************************************************************************)
(* Proactive commands.  A status word 9000 leaves nothing to announce, the *)
(* command that a FETCH hands over is the one that waits for its TERMINAL  *)
(* RESPONSE, and that response is the one to it.                           *)
(***************************************************************************)
Settled(c, sw) == sw.first = "90" /\ c.fetched = 0 => c.queue = <<>>
Fetched(c, data, sw) == sw.first = "90" => data = <<<<0, c.fetched>>>>

LEMMA AnswerParts ==
  \A c, data, sw : /\ Answer(c, data, sw).card = c /\ Answer(c, data, sw).data = data
                   /\ Answer(c, data, sw).sw = sw
BY DEF Answer

LEMMA FirstByte == \A first, n : SW(first, n).first = first
BY DEF SW

LEMMA DoneSettled == \A c : Settled(c, Done(c))
BY DEF Settled, Done, SW, Success

LEMMA CommandSettled ==
  ASSUME NEW c, NEW tpdu, NEW protocol, NEW ans \in CommandAnswers(c, tpdu, protocol)
  PROVE  Settled(ans.card, ans.sw)
<1> DEFINE c1 == [c EXCEPT !.avail = <<>>]
           done == Carried(c1, tpdu.id)
<1>1. \/ ans = Answer(c1, <<>>, SW("6c", tpdu.size))
      \/ ans = Answer(done, <<>>, Error)
      \/ \E d \in Asking(done) :
            \/ ans \in Announced(d, tpdu)
            \/ ans = Answer(d, Response(tpdu), Done(d))
            \/ ans = Answer(d, Response(tpdu), SW("62", MaxSize + 1))
  BY DEF CommandAnswers
<1> HIDE DEF c1, done
<1>2. CASE ans = Answer(c1, <<>>, SW("6c", tpdu.size))
  <2>1. ans.sw.first = "6c"   BY <1>2, AnswerParts, FirstByte
  <2> QED   BY <2>1 DEF Settled
<1>3. CASE ans = Answer(done, <<>>, Error)
  <2>1. ans.sw = Error   BY <1>3, AnswerParts
  <2> QED   BY <2>1, DoneType DEF Settled
<1>4. ASSUME NEW d \in Asking(done), ans \in Announced(d, tpdu)
      PROVE  Settled(ans.card, ans.sw)
  <2>1. \E r, n : ans = Answer(r, <<>>, SW("61", n)) \/ ans = Answer(r, <<>>, SW("62", n))
    BY <1>4 DEF Announced
  <2>2. ans.sw.first \in {"61", "62"}   BY <2>1, AnswerParts, FirstByte
  <2> QED   BY <2>2 DEF Settled
<1>5. ASSUME NEW d, ans = Answer(d, Response(tpdu), Done(d))
      PROVE  Settled(ans.card, ans.sw)
  <2>1. ans.card = d /\ ans.sw = Done(d)   BY <1>5, AnswerParts
  <2> QED   BY <2>1, DoneSettled
<1>6. ASSUME NEW d, ans = Answer(d, Response(tpdu), SW("62", MaxSize + 1))
      PROVE  Settled(ans.card, ans.sw)
  <2>1. ans.sw.first = "62"   BY <1>6, AnswerParts, FirstByte
  <2> QED   BY <2>1 DEF Settled
<1> QED   BY <1>1, <1>2, <1>3, <1>4, <1>5, <1>6

LEMMA GetResponseSettled ==
  ASSUME NEW c, NEW n, NEW ans \in GetResponseAnswers(c, n)
  PROVE  Settled(ans.card, ans.sw)
<1>1. \/ ans = Answer(c, <<>>, Error)
      \/ ans = Answer(c, <<>>, SW("6c", Len(c.avail)))
      \/ \E left, data : ans = Answer(left, data, Done(left))
      \/ \E left, data, m : ans = Answer(left, data, SW("61", m))
  BY DEF GetResponseAnswers, Given
<1>2. CASE ans = Answer(c, <<>>, Error)
  <2>1. ans.sw = Error   BY <1>2, AnswerParts
  <2> QED   BY <2>1, DoneType DEF Settled
<1>3. CASE ans = Answer(c, <<>>, SW("6c", Len(c.avail)))
  <2>1. ans.sw.first = "6c"   BY <1>3, AnswerParts, FirstByte
  <2> QED   BY <2>1 DEF Settled
<1>4. ASSUME NEW left, NEW data, ans = Answer(left, data, Done(left))
      PROVE  Settled(ans.card, ans.sw)
  <2>1. ans.card = left /\ ans.sw = Done(left)   BY <1>4, AnswerParts
  <2> QED   BY <2>1, DoneSettled
<1>5. ASSUME NEW left, NEW data, NEW m, ans = Answer(left, data, SW("61", m))
      PROVE  Settled(ans.card, ans.sw)
  <2>1. ans.sw.first = "61"   BY <1>5, AnswerParts, FirstByte
  <2> QED   BY <2>1 DEF Settled
<1> QED   BY <1>1, <1>2, <1>3, <1>4, <1>5

LEMMA FetchHandsOver ==
  ASSUME NEW c \in Cards, NEW ans \in FetchAnswers(c)
  PROVE  Fetched(ans.card, ans.data, ans.sw)
<1> DEFINE c1 == [c EXCEPT !.avail = <<>>]
           next == [c1 EXCEPT !.fetched = Head(c1.queue), !.queue = Tail(c1.queue)]
<1>1. c1 \in Cards   BY NotAvailable
<1>2. \/ ans = Answer(c1, <<>>, Error)
      \/ ans = Answer(next, <<<<0, Head(c1.queue)>>>>, Success)
  BY DEF FetchAnswers
<1>3. next.fetched = Head(c1.queue)
  <2> HIDE DEF c1
  <2> QED   BY <1>1 DEF Cards
<1> HIDE DEF c1, next
<1>4. CASE ans = Answer(c1, <<>>, Error)
  <2>1. ans.sw = Error   BY <1>4, AnswerParts
  <2> QED   BY <2>1, DoneType DEF Fetched
<1>5. CASE ans = Answer(next, <<<<0, Head(c1.queue)>>>>, Success)
  <2>1. ans.card = next /\ ans.data = <<<<0, Head(c1.queue)>>>>   BY <1>5, AnswerParts
  <2> QED   BY <1>3, <2>1 DEF Fetched
<1> QED   BY <1>2, <1>4, <1>5

LEMMA ResponseSettled ==
  ASSUME NEW c \in Cards, NEW ans \in TerminalResponseAnswers(c, c.fetched)
  PROVE  Good(ans.sw) /\ ans.card.fetched = 0 /\ Settled(ans.card, ans.sw)
<1> DEFINE c1 == [c EXCEPT !.avail = <<>>]
           next == [c1 EXCEPT !.fetched = 0, !.answered = Append(c1.answered, c.fetched)]
<1>1. c1 \in Cards /\ c1.fetched = c.fetched
  BY NotAvailable DEF Cards
<1>2. \E d \in Asking(next) : ans = Answer(d, <<>>, Done(d))
  BY <1>1 DEF TerminalResponseAnswers
<1>3. next.fetched = 0
  <2> HIDE DEF c1
  <2> QED   BY <1>1 DEF Cards
<1>5. "fetched" \in DOMAIN next
  <2> HIDE DEF c1
  <2> QED   BY <1>1 DEF Cards
<1> HIDE DEF c1, next
<1>6. PICK d \in Asking(next) : ans = Answer(d, <<>>, Done(d))
  BY <1>2
<1>7. d.fetched = 0
  <2>1. d = next \/ d = [next EXCEPT !.issued = next.issued + 1, !.queue = Append(next.queue, next.issued + 1)]
    BY DEF Asking
  <2> QED   BY <1>3, <1>5, <2>1
<1>8. ans.card = d /\ ans.sw = Done(d)
  BY <1>6, AnswerParts
<1> QED   BY <1>7, <1>8, DoneType, DoneSettled


\* What the answers say of the proactive commands.
ProactiveAnswers ==
  /\ io.at = "done" =>
        /\ io.apdu.ins # "fetch" => Settled(card, io.sw)
        /\ io.apdu.ins = "fetch" => Fetched(card, io.data, io.sw)
        /\ io.apdu.ins = "terminal_response" => Good(io.sw) /\ card.fetched = 0
  /\ io.at = "send" /\ io.apdu.ins = "terminal_response" => io.apdu.id = card.fetched

\* ... and the calls that handle one.
Handling(f) ==
  /\ f.at = "command" => f.pcmd = 0
  /\ f.at = "loop" => /\ Settled(card, f.last)
                      /\ f.last = f.sw \/ Good(f.last)
                      /\ f.pcmd # 0 => card.fetched # f.pcmd
HandingOver(g) == g.at = "loop" => Fetched(card, g.data, g.sw)
ProactiveCalls ==
  /\ \A f : stack = <<f>> => Handling(f)
  /\ \A f, g : stack = <<f, g>> => HandingOver(g)

PInv == ProactiveAnswers /\ ProactiveCalls

\* Where stack is one tuple it is no other.
LEMMA StackIs ==
  /\ \A f : <<>> # <<f>>
  /\ \A f, g : <<>> # <<f, g>>
  /\ \A f, h : <<f>> = <<h>> => f = h
  /\ \A f, g, h : <<f, g>> # <<h>>
  /\ \A f, g, h, k : <<f, g>> = <<h, k>> => f = h /\ g = k
<1>1. \A f : Len(<<f>>) = 1   OBVIOUS
<1>2. \A f, g : Len(<<f, g>>) = 2   OBVIOUS
<1>3. Len(<<>>) = 0   OBVIOUS
<1>4. \A f, h : <<f>> = <<h>> => f = h   BY FramesOfTuples
<1>5. \A f, g, h, k : <<f, g>> = <<h, k>> => f = h /\ g = k   BY FramesOfTuples
<1>6. \A f : <<>> # <<f>>   BY <1>1, <1>3
<1>7. \A f, g : <<>> # <<f, g>>   BY <1>2, <1>3
<1>8. \A f, g, h : <<f, g>> # <<h>>   BY <1>1, <1>2
<1> QED BY <1>4, <1>5, <1>6, <1>7, <1>8

LEMMA NothingInProgress ==
  ASSUME stack' = <<>>, io' = Idle
  PROVE  PInv'
<1>1. ProactiveAnswers'   BY DEF ProactiveAnswers, Idle
<1>2. ProactiveCalls'   BY StackIs DEF ProactiveCalls
<1> QED BY <1>1, <1>2 DEF PInv

LEMMA OneCall ==
  ASSUME ProactiveAnswers', NEW f, stack' = <<f>>, Handling(f)'
  PROVE  PInv'
<1>1. ProactiveCalls'   BY StackIs DEF ProactiveCalls
<1> QED BY <1>1 DEF PInv

LEMMA TwoCalls ==
  ASSUME ProactiveAnswers', NEW f, NEW g, stack' = <<f, g>>, HandingOver(g)'
  PROVE  PInv'
<1>1. ProactiveCalls'   BY StackIs DEF ProactiveCalls
<1> QED BY <1>1 DEF PInv

LEMMA ProactiveSend ==
  ASSUME TransportAssumption, IInv, PInv, send_tpdu, ~overtaken'
  PROVE  PInv'
<1>1. io.at = "send" /\ stack' = stack
  BY DEF send_tpdu
<1>2. PICK ans \in CardAnswers(card, io.tpdu, link.protocol) :
        LET arriving == LineBefore \o Append(coming, Received(ans))
            first == Head(arriving)
        IN  /\ card' = ans.card
            /\ coming' = Tail(arriving)
            /\ io' = AfterAnswer(io, io.data \o first.data, first.sw)
  BY DEF send_tpdu
<1>3. card' = ans.card /\ io' = AfterAnswer(io, io.data \o ans.data, ans.sw)
  <2>1. Received(ans).data = ans.data /\ Received(ans).sw = ans.sw
    BY DEF Received
  <2>2. NoLateAnswer /\ coming = <<>>   BY DEF IInv, TypeInv, send_tpdu
  <2>3. Head(LineBefore \o Append(coming, Received(ans))) = Received(ans)
    BY <2>2, Line
  <2> QED   BY <1>2, <2>1, <2>3
<1>4. ans \in Answers /\ ans.data \in Seq(Parts) /\ ans.sw \in SWs
  BY <1>1, CardStep DEF Answers
<1>5. io \in Requests /\ io.tpdu \in Apdus /\ io.data \in Seq(Parts) /\ card \in Cards
  BY <1>1 DEF IInv, TypeInv, Requests
<1> DEFINE data == io.data \o ans.data
<1>6. data \in Seq(Parts)
  BY <1>4, <1>5, ConcatProperties
<1> HIDE DEF data
<1>a. io' = AfterAnswer(io, data, ans.sw)
  BY <1>3 DEF data
<1>b. /\ io'.apdu = io.apdu
      /\ \/ io'.at = "done" /\ io' \in Answered /\ io'.data = data /\ io'.sw = ans.sw
         \/ /\ ans.sw.first \in {"61", "62"}
            /\ io'.at = "send" /\ io' \in Requests /\ io'.data = data
            /\ io'.tpdu.ins = "get_response" /\ io'.tpdu.le = ans.sw.n
         \/ /\ ans.sw.first = "6c"
            /\ io'.at = "send" /\ io' \in Requests /\ io'.data = <<>>
            /\ io'.tpdu = [io.tpdu EXCEPT !.le = ans.sw.n]
  BY <1>4, <1>5, <1>6, <1>a, AnswerHandled
<1>7. /\ io'.apdu = io.apdu
      /\ \/ io'.at = "done" /\ io'.data = data /\ io'.sw = ans.sw
         \/ io'.at = "send" /\ ans.sw.first \in {"61", "62", "6c"}
  BY <1>b
<1>8. io' # Idle   BY <1>7 DEF Idle
<1>9. ProactiveAnswers'
  <2>1. CASE io.apdu.ins = "command" /\ io.tpdu.ins \in {"command", "get_response"}
    <3>1. Settled(ans.card, ans.sw)
      BY <2>1, CommandSettled, GetResponseSettled DEF CardAnswers
    <3> QED   BY <1>3, <1>7, <2>1, <3>1 DEF ProactiveAnswers
  <2>2. CASE io.apdu.ins = "fetch" /\ io.tpdu = io.apdu /\ io.data = <<>>
    <3>1. Fetched(ans.card, ans.data, ans.sw)
      BY <1>5, <2>2, FetchHandsOver DEF CardAnswers
    <3>2. data = ans.data
      BY <1>4, <2>2, ConcatEmptySeq DEF data
    <3> QED   BY <1>3, <1>7, <2>2, <3>1, <3>2 DEF ProactiveAnswers
  <2>3. CASE io.apdu.ins = "terminal_response" /\ io.tpdu = io.apdu
    <3>1. io.tpdu.id = card.fetched   BY <1>1, <2>3 DEF PInv, ProactiveAnswers
    <3>2. Good(ans.sw) /\ ans.card.fetched = 0 /\ Settled(ans.card, ans.sw)
      BY <1>5, <2>3, <3>1, ResponseSettled DEF CardAnswers
    <3>3. io'.at = "done"   BY <1>7, <3>2 DEF Good
    <3> QED   BY <1>3, <1>7, <2>3, <3>2, <3>3 DEF ProactiveAnswers
  <2> QED   BY <1>1, <2>1, <2>2, <2>3 DEF IInv, Sending
<1>10. io # Idle   BY <1>1 DEF Idle
<1>11. CASE stack = <<>>
  BY <1>10, <1>11, StackIs DEF IInv, Calling
<1>12. ASSUME NEW f \in Frames, stack = <<f>>, Bottom(f)
       PROVE  PInv'
  <2>1. f.at # "loop"   BY <1>10, <1>12 DEF Bottom
  <2>2. Handling(f)'   BY <1>12, <2>1 DEF PInv, ProactiveCalls, Handling
  <2> QED   BY <1>1, <1>9, <1>12, <2>2, OneCall
<1>13. ASSUME NEW f \in Frames, NEW g \in Frames, stack = <<f, g>>, Upper(g)
       PROVE  PInv'
  <2>1. g.at # "loop"   BY <1>10, <1>13 DEF Upper
  <2>2. HandingOver(g)'   BY <2>1 DEF HandingOver
  <2> QED   BY <1>1, <1>9, <1>13, <2>2, TwoCalls
<1> QED   BY <1>10, <1>12, <1>13 DEF IInv, Calling

LEMMA ProactiveCall ==
  ASSUME Call
  PROVE  PInv'
<1>1. PICK case \in 1 .. 4, size \in 0 .. MaxSize, any \in BOOLEAN, want \in {"9000", "9xxx", "none"} :
        LET apdu == Command(calls + 1, case, size, IF any THEN 0 ELSE size, want)
        IN  stack' = <<Frame(apdu)>> /\ io' = _send_apdu(apdu)
  BY DEF Call
<1> DEFINE apdu == Command(calls + 1, case, size, IF any THEN 0 ELSE size, want)
<1>2. apdu.ins = "command"   BY DEF Command
<1> HIDE DEF apdu
<1>3. stack' = <<Frame(apdu)>> /\ io' = _send_apdu(apdu)   BY <1>1 DEF apdu
<1>4. io'.at = "send" /\ io'.apdu = apdu   BY <1>3 DEF _send_apdu
<1>5. ProactiveAnswers'   BY <1>2, <1>4 DEF ProactiveAnswers
<1>6. PICK f : f = Frame(apdu)   OBVIOUS
<1>7. f.at = "command" /\ f.pcmd = 0   BY <1>6 DEF Frame
<1>8. Handling(f)'   BY <1>7 DEF Handling
<1> QED   BY <1>3, <1>5, <1>6, <1>8, OneCall

LEMMA ProactiveAnswer ==
  ASSUME IInv, PInv, send_apdu_returns
  PROVE  PInv'
<1>1. /\ io.at = "done" /\ card' = card
      /\ \/ Raised("ValueError")
         \/ /\ io' = Idle
            /\ stack' = Replaced(IF Top.at = "command"
                                 THEN [Top EXCEPT !.at = "loop", !.data = io.data, !.sw = io.sw,
                                                  !.last = io.sw]
                                 ELSE [Top EXCEPT !.at = "loop", !.last = io.sw])
  BY DEF send_apdu_returns
<1>2. CASE Raised("ValueError")
  BY <1>2, NothingInProgress DEF Raised
<1>3. CASE /\ io' = Idle
           /\ stack' = Replaced(IF Top.at = "command"
                                THEN [Top EXCEPT !.at = "loop", !.data = io.data, !.sw = io.sw,
                                                 !.last = io.sw]
                                ELSE [Top EXCEPT !.at = "loop", !.last = io.sw])
  <2>1. io # Idle   BY <1>1 DEF Idle
  <2>2. ProactiveAnswers'   BY <1>3 DEF ProactiveAnswers, Idle
  <2>3. ProactiveAnswers   BY DEF PInv
  <2>4. ASSUME NEW f \in Frames, stack = <<f>>, Bottom(f), f.at # "fetch"
        PROVE  PInv'
    <3>1. Top = f /\ Front(stack) = <<>>
      BY <2>4, FramesOfTuples DEF Top
    <3>2. CASE f.at = "command"
      <4>0. PICK h : h = [f EXCEPT !.at = "loop", !.data = io.data, !.sw = io.sw, !.last = io.sw]
        OBVIOUS
      <4>1. h.last = io.sw /\ h.sw = io.sw /\ h.at = "loop" /\ h.pcmd = f.pcmd
        BY <4>0 DEF Frames
      <4>2. f.pcmd = 0   BY <2>4, <3>2 DEF PInv, ProactiveCalls, Handling
      <4>3. stack' = <<h>>   BY <1>3, <3>1, <3>2, <4>0, FramesOfTuples DEF Replaced
      <4>4. Settled(card, io.sw)
        BY <1>1, <2>3, <2>4, <3>2 DEF Bottom, Waiting, ProactiveAnswers
      <4>5. Handling(h)'   BY <1>1, <4>1, <4>2, <4>4 DEF Handling, Settled
      <4> QED   BY <2>2, <4>3, <4>5, OneCall
    <3>3. CASE f.at = "response"
      <4>0. PICK h : h = [f EXCEPT !.at = "loop", !.last = io.sw]
        OBVIOUS
      <4>1. h.last = io.sw /\ h.at = "loop" /\ h.pcmd = f.pcmd
        BY <4>0 DEF Frames
      <4>3. stack' = <<h>>   BY <1>3, <3>1, <3>3, <4>0, FramesOfTuples DEF Replaced
      <4>4. Settled(card, io.sw) /\ Good(io.sw) /\ card.fetched = 0
        BY <1>1, <2>3, <2>4, <3>3 DEF Bottom, Waiting, ProactiveAnswers
      <4>5. Handling(h)'   BY <1>1, <4>1, <4>4 DEF Handling, Settled
      <4> QED   BY <2>2, <4>3, <4>5, OneCall
    <3>4. f.at \in {"command", "response"}
      BY <2>1, <2>4 DEF Bottom, Frames
    <3> QED   BY <3>2, <3>3, <3>4
  <2>5. ASSUME NEW f \in Frames, NEW g \in Frames, stack = <<f, g>>, Upper(g)
        PROVE  PInv'
    <3>1. Top = g /\ Front(stack) = <<f>>
      BY <2>5, FramesOfTuples DEF Top
    <3>2. g.at = "command" /\ io.apdu = g.apdu /\ io.apdu.ins = "fetch"
      BY <2>1, <2>5 DEF Upper
    <3>0. PICK h : h = [g EXCEPT !.at = "loop", !.data = io.data, !.sw = io.sw, !.last = io.sw]
      OBVIOUS
    <3>3. h.sw = io.sw /\ h.data = io.data   BY <3>0 DEF Frames
    <3>4. stack' = <<f, h>>   BY <1>3, <3>0, <3>1, <3>2, FramesOfTuples DEF Replaced
    <3>5. Fetched(card, io.data, io.sw)   BY <1>1, <2>3, <3>2 DEF ProactiveAnswers
    <3>6. HandingOver(h)'   BY <1>1, <3>3, <3>5 DEF HandingOver, Fetched
    <3> QED   BY <2>2, <3>4, <3>6, TwoCalls
  <2> QED   BY <2>1, <2>4, <2>5 DEF IInv, Calling
<1> QED   BY <1>1, <1>2, <1>3


LEMMA ProactiveFetch ==
  ASSUME IInv, Fetch
  PROVE  PInv'
<1> DEFINE apdu == FetchCommand(Top.last.n)
<1>1. /\ AtLoop /\ Announces(Top)
      /\ stack' = Append(Replaced([Top EXCEPT !.sw = Success, !.at = "fetch"]), Frame(apdu))
      /\ io' = _send_apdu(apdu)
  BY DEF Fetch
<1>2. apdu.ins = "fetch"   BY DEF FetchCommand
<1> HIDE DEF apdu
<1>3. io'.at = "send" /\ io'.apdu = apdu   BY <1>1 DEF _send_apdu
<1>4. ProactiveAnswers'   BY <1>2, <1>3 DEF ProactiveAnswers
<1>5. PICK g : g = Frame(apdu)   OBVIOUS
<1>6. PICK h : h = [Top EXCEPT !.sw = Success, !.at = "fetch"]   OBVIOUS
<1>7. HandingOver(g)'   BY <1>5 DEF HandingOver, Frame
<1>8. ASSUME Front(stack) = <<>>
      PROVE  PInv'
  <2>1. stack' = <<h, g>>   BY <1>1, <1>5, <1>6, <1>8, FramesOfTuples DEF Replaced
  <2> QED   BY <1>4, <1>7, <2>1, TwoCalls
<1>9. ASSUME NEW f \in Frames, NEW u \in Frames, Top = u, Upper(u), u.at = "loop"
      PROVE  FALSE
  <2>1. u.last.first \in {"6f", "90"}
    BY <1>9 DEF Upper, Returned
  <2> QED   BY <1>1, <1>9, <2>1 DEF Announces
<1> QED   BY <1>1, <1>8, <1>9, AtLoopFrames

LEMMA ProactiveResponse ==
  ASSUME IInv, PInv, FetchReturns
  PROVE  PInv'
<1>1. /\ AtLoop /\ Len(stack) > 1 /\ sw_match(Top.sw, Top.apdu.want) /\ card' = card
      /\ Handles \/ Raised("exception")
  BY DEF FetchReturns, Handles
<1>2. CASE Raised("exception")
  BY <1>2, NothingInProgress DEF Raised
<1>3. CASE Handles
  <2>1. ASSUME NEW f
        PROVE  stack # <<f>>
    <3> SUFFICES ASSUME stack = <<f>> PROVE FALSE
      OBVIOUS
    <3>1. Len(<<f>>) = 1   BY FramesOfTuples
    <3>2. Len(<<f>>) > 1   BY <1>1
    <3>3. 1 > 1   BY <3>1, <3>2
    <3> QED   BY <3>3
  <2>2. PICK f \in Frames, g \in Frames :
          /\ stack = <<f, g>> /\ Top = g /\ Front(stack) = <<f>>
          /\ Bottom(f) /\ f.at = "fetch" /\ Upper(g) /\ g.at = "loop"
    BY <1>1, <2>1, AtLoopFrames
  <2>3. g.data = <<<<0, card.fetched>>>>
    <3>1. g.sw.first = "90"
      BY <1>1, <2>2, DoneType DEF sw_match, Upper
    <3>2. HandingOver(g)   BY <2>2 DEF PInv, ProactiveCalls
    <3> QED   BY <2>2, <3>1, <3>2 DEF HandingOver, Fetched
  <2>4. Head(Top.data)[2] = card.fetched /\ Last(Front(stack)) = f /\ Front(Front(stack)) = <<>>
    BY <2>2, <2>3, FramesOfTuples
  <2>5. PICK h : h = [f EXCEPT !.at = "response", !.pcmd = card.fetched]
    OBVIOUS
  <2>6. h.at = "response"   BY <2>5 DEF Frames
  <2>7. stack' = <<h>>   BY <1>3, <2>4, <2>5, FramesOfTuples DEF Handles
  <2>8. Handling(h)'   BY <2>6 DEF Handling
  <2>9. /\ io'.at = "send" /\ io'.apdu.ins = "terminal_response"
        /\ io'.apdu.id = card.fetched
    BY <1>3, <2>4 DEF Handles, _send_apdu, TerminalResponse
  <2>10. ProactiveAnswers'   BY <1>1, <2>9 DEF ProactiveAnswers
  <2> QED   BY <2>7, <2>8, <2>10, OneCall
<1> QED   BY <1>1, <1>2, <1>3

LEMMA ProactiveStep ==
  ASSUME TransportAssumption, IInv, PInv, (Next /\ ~Call) \/ UNCHANGED vars, ~overtaken'
  PROVE  PInv'
<1>1. CASE Arrives
  BY <1>1 DEF Arrives, PInv, ProactiveAnswers, ProactiveCalls, Handling, HandingOver
<1>2. CASE send_tpdu   BY <1>2, ProactiveSend
<1>3. CASE send_apdu_returns   BY <1>3, ProactiveAnswer
<1>4. CASE Fetch   BY <1>4, ProactiveFetch
<1>5. CASE FetchReturns   BY <1>5, ProactiveResponse
<1>6. CASE Return   BY <1>6, NothingInProgress DEF Return, AtLoop
<1>7. CASE RaiseSwMatchError   BY <1>7, NothingInProgress DEF RaiseSwMatchError, Raised
<1>8. CASE Timeout   BY <1>8, NothingInProgress DEF Timeout, Raised
<1>9. CASE UNCHANGED vars
  BY <1>9 DEF vars, PInv, ProactiveAnswers, ProactiveCalls, Handling, HandingOver
<1> QED
  BY <1>1, <1>2, <1>3, <1>4, <1>5, <1>6, <1>7, <1>8, <1>9 DEF Next

\* A call that returns a success has its last status word from the card as it is.
LEMMA ReturnSettled ==
  ASSUME IInv, PInv, Return, Top.apdu.want = "9000"
  PROVE  /\ Top.pcmd # 0 => card.fetched # Top.pcmd
         /\ card.fetched = 0 => card.queue = <<>>
<1>1. AtLoop /\ Len(stack) = 1 /\ ~Announces(Top) /\ sw_match(Top.sw, "9000")
  BY DEF Return
<1>2. \A f, g : Len(<<f, g>>) = 2
  BY FramesOfTuples
<1>3. PICK f \in Frames : stack = <<f>> /\ Top = f /\ Bottom(f) /\ f.at = "loop"
  BY <1>1, <1>2, AtLoopFrames
<1>4. /\ Settled(card, f.last)
      /\ f.last = f.sw \/ Good(f.last)
      /\ f.pcmd # 0 => card.fetched # f.pcmd
  BY <1>3 DEF PInv, ProactiveCalls, Handling
<1>5. f.sw = Success   BY <1>1, <1>3 DEF sw_match
<1>6. f.last.first = "90"
  BY <1>1, <1>3, <1>4, <1>5, DoneType DEF Good, Announces
<1> QED   BY <1>3, <1>4, <1>6 DEF Settled

-----------------------------------------------------------------------------
(***************************************************************************)
(* A call comes to an end.  What it has yet to do is counted twice: the    *)
(* proactive commands that the card has for it, or may yet have, and the   *)
(* steps to the next of them.  The loop over 91xx lowers the first, those  *)
(* over GET RESPONSE and wrong lengths the second.                         *)
(***************************************************************************)
Pending(c) == (MaxProactive - c.issued) + Len(c.queue)

\* The steps of _send_apdu: one to go with the right length, or as many as there are
\* parts of the response.
SendAhead(req, c) ==
  IF req.again THEN 1
  ELSE IF req.tpdu.ins = "get_response" THEN 2 + Len(c.avail) ELSE 3 + req.apdu.size

\* The steps of send_apdu_checksw, in the call of the caller ...
CommandAhead == IF io.at = "send" THEN 5 + SendAhead(io, card) ELSE IF io.at = "done" THEN 5 ELSE 4
\* ... and in the call that it makes for a FETCH, which is refused or hands over a
\* proactive command: then there is a TERMINAL RESPONSE to come.
FetchAhead ==
  IF io.at = "send" THEN 3
  ELSE IF io.at = "done" THEN (IF io.sw.first = "6f" THEN 2 ELSE 11)
  ELSE (IF Top.sw.first = "6f" THEN 1 ELSE 10)
Ahead == IF Len(stack) = 1 THEN CommandAhead ELSE FetchAhead

\* A step of a call that does not end it.
Nearer ==
  \/ Pending(card)' < Pending(card)
  \/ Pending(card)' = Pending(card) /\ Ahead' < Ahead

\* GET RESPONSE asks for something.
Asks(req) == req.at = "send" /\ req.tpdu.ins = "get_response" /\ ~req.again => req.tpdu.le > 0
NInv == Bounded(card) /\ Asks(io)

\* A card is bounded, and has as much to ask for, as another one.
AsPending(d, c) == Bounded(d) /\ Pending(d) = Pending(c)

LEMMA Sums ==
  \A m, i, l \in Nat :
    i <= m => /\ (m - i) + l \in Nat
              /\ i < m => i + 1 <= m /\ (m - (i + 1)) + (l + 1) = (m - i) + l
OBVIOUS

LEMMA PendingType ==
  ASSUME TransportAssumption, NEW c \in Cards, Bounded(c)
  PROVE  Pending(c) \in Nat
<1>1. MaxProactive \in Nat /\ c.issued \in Nat /\ c.queue \in Seq(Nat) /\ Len(c.queue) \in Nat
  BY DEF TransportAssumption, Cards
<1>2. c.issued <= MaxProactive
  BY DEF Bounded
<1> QED
  BY <1>1, <1>2, Sums DEF Pending

\* What Pending looks at is all that counts.
LEMMA SamePending ==
  ASSUME NEW c, NEW d, Bounded(c), d.issued = c.issued, d.queue = c.queue
  PROVE  AsPending(d, c)
BY DEF AsPending, Bounded, Pending

LEMMA AvailPending ==
  ASSUME NEW c \in Cards, Bounded(c), NEW a
  PROVE  AsPending([c EXCEPT !.avail = a], c)
<1>1. [c EXCEPT !.avail = a].issued = c.issued /\ [c EXCEPT !.avail = a].queue = c.queue
  BY DEF Cards
<1> QED
  BY <1>1, SamePending

LEMMA CarriedPending ==
  ASSUME NEW c \in Cards, Bounded(c), NEW id
  PROVE  AsPending(Carried(c, id), c)
<1>1. Carried(c, id).issued = c.issued /\ Carried(c, id).queue = c.queue
  BY DEF Cards, Carried
<1> QED
  BY <1>1, SamePending

\* A proactive command that is issued is one that may not be issued any more.
LEMMA AskingPending ==
  ASSUME TransportAssumption, NEW c \in Cards, Bounded(c), NEW d \in Asking(c)
  PROVE  AsPending(d, c)
<1>1. CASE d = c
  BY <1>1 DEF AsPending
<1>2. CASE d # c
  <2>1. /\ c.issued < MaxProactive
        /\ d = [c EXCEPT !.issued = c.issued + 1, !.queue = Append(c.queue, c.issued + 1)]
    BY <1>2 DEF Asking
  <2>2. c.issued \in Nat /\ c.queue \in Seq(Nat) /\ MaxProactive \in Nat
    BY DEF Cards, TransportAssumption
  <2>3. d.issued = c.issued + 1 /\ d.queue = Append(c.queue, c.issued + 1)
    BY <2>1 DEF Cards
  <2>4. Len(Append(c.queue, c.issued + 1)) = Len(c.queue) + 1 /\ Len(c.queue) \in Nat
    BY <2>2
  <2>5. c.issued + 1 <= MaxProactive
        /\ (MaxProactive - (c.issued + 1)) + (Len(c.queue) + 1) = (MaxProactive - c.issued) + Len(c.queue)
    <3>1. c.issued <= MaxProactive   BY DEF Bounded
    <3>2. PICK m \in Nat, i \in Nat : m = MaxProactive /\ i = c.issued   BY <2>2
    <3>3. PICK l \in Nat : l = Len(c.queue)   BY <2>4
    <3>4. i <= m /\ i < m   BY <2>1, <3>1, <3>2
    <3>5. i + 1 <= m /\ (m - (i + 1)) + (l + 1) = (m - i) + l   BY <3>4, Sums
    <3> QED   BY <3>2, <3>3, <3>5
  <2> QED
    BY <2>3, <2>4, <2>5 DEF AsPending, Bounded, Pending
<1> QED
  BY <1>1, <1>2

\* A command may leave a response to fetch, which is not longer than announced.
LEMMA CommandPending ==
  ASSUME TransportAssumption, NEW c \in Cards, Bounded(c), NEW tpdu \in Apdus,
         tpdu.id \in 1 .. MaxCalls, NEW protocol, NEW ans \in CommandAnswers(c, tpdu, protocol)
  PROVE  /\ AsPending(ans.card, c)
         /\ ans.sw.first \in {"61", "62"} => ans.sw.n > 0 /\ Len(ans.card.avail) <= tpdu.size
<1> DEFINE c1 == [c EXCEPT !.avail = <<>>]
           done == Carried(c1, tpdu.id)
<1>1. c1 \in Cards /\ AsPending(c1, c)
  BY NotAvailable, AvailPending
<1>2. done \in Cards /\ AsPending(done, c)
  <2>1. Bounded(c1)   BY <1>1 DEF AsPending
  <2> HIDE DEF c1
  <2>2. AsPending(done, c1) /\ done \in Cards   BY <1>1, <2>1, CarriedPending, CarriedOut
  <2> HIDE DEF done
  <2> QED   BY <1>1, <2>2 DEF AsPending
<1>3. \/ ans = Answer(c1, <<>>, SW("6c", tpdu.size))
      \/ ans = Answer(done, <<>>, Error)
      \/ \E d \in Asking(done) :
            \/ ans \in Announced(d, tpdu) /\ tpdu.size > 0
            \/ ans = Answer(d, Response(tpdu), Done(d))
            \/ ans = Answer(d, Response(tpdu), SW("62", MaxSize + 1))
  BY DEF CommandAnswers
<1>4. ans.sw.first \in {"61", "62"} => Len(ans.card.avail) <= tpdu.size
  <2>1. tpdu.size \in Nat   BY DEF Apdus
  <2>2. ans.sw.first \in {"61", "62"} => ans.card.avail = Response(tpdu) \/ ans.card.avail = <<>>
    BY CommandAnswered
  <2> QED   BY <2>1, <2>2, ResponseType
<1> HIDE DEF c1, done
<1>5. CASE ans = Answer(c1, <<>>, SW("6c", tpdu.size))
  <2>1. ans.card = c1 /\ ans.sw.first = "6c"   BY <1>5, AnswerParts, FirstByte
  <2> QED   BY <1>1, <2>1
<1>6. CASE ans = Answer(done, <<>>, Error)
  <2>1. ans.card = done /\ ans.sw.first = "6f"   BY <1>6, AnswerParts, DoneType
  <2> QED   BY <1>2, <2>1
<1>7. ASSUME NEW d \in Asking(done)
      PROVE  d \in Cards /\ AsPending(d, c)
  <2>1. Bounded(done)   BY <1>2 DEF AsPending
  <2>2. AsPending(d, done) /\ d \in Cards   BY <1>2, <2>1, AskingPending, AskingKeeps
  <2> QED   BY <1>2, <2>2 DEF AsPending
<1>8. MaxSize \in Nat /\ MaxPart \in Nat \ {0} /\ tpdu.size \in Nat
  BY DEF TransportAssumption, Apdus
<1>9. \A first, n : SW(first, n).n = n
  BY DEF SW
<1>10. ASSUME NEW d \in Asking(done), ans \in Announced(d, tpdu), tpdu.size > 0
       PROVE  AsPending(ans.card, c) /\ ans.sw.n > 0
  <2> DEFINE ready == [d EXCEPT !.avail = Response(tpdu)]
             n == IF tpdu.size < MaxPart THEN tpdu.size ELSE MaxPart
  <2>1. d \in Cards /\ AsPending(d, c)   BY <1>7
  <2>2. Bounded(d)   BY <2>1 DEF AsPending
  <2>3. AsPending(ready, d)   BY <2>1, <2>2, AvailPending
  <2>4. n > 0 /\ MaxSize + 1 > 0   BY <1>8, <1>10
  <2>5. ans = Answer(ready, <<>>, SW("61", n)) \/ ans = Answer(ready, <<>>, SW("62", MaxSize + 1))
    BY <1>10 DEF Announced
  <2> HIDE DEF ready, n
  <2>6. ans.card = ready /\ ans.sw.n > 0   BY <1>9, <2>4, <2>5, AnswerParts
  <2> QED   BY <2>1, <2>3, <2>6 DEF AsPending
<1>11. ASSUME NEW d \in Asking(done), ans = Answer(d, Response(tpdu), Done(d))
       PROVE  AsPending(ans.card, c) /\ ans.sw.first \in {"90", "91"}
  <2>1. ans.card = d /\ ans.sw = Done(d)   BY <1>11, AnswerParts
  <2> QED   BY <1>7, <2>1, DoneType DEF Good
<1>12. ASSUME NEW d \in Asking(done), ans = Answer(d, Response(tpdu), SW("62", MaxSize + 1))
       PROVE  AsPending(ans.card, c) /\ ans.sw.n > 0
  <2>1. ans.card = d /\ ans.sw.n = MaxSize + 1   BY <1>9, <1>12, AnswerParts
  <2> QED   BY <1>7, <1>8, <2>1
<1> QED
  BY <1>3, <1>4, <1>5, <1>6, <1>10, <1>11, <1>12

\* GET RESPONSE that is told of more has left less.
LEMMA GetResponsePending ==
  ASSUME TransportAssumption, NEW c \in Cards, Bounded(c), NEW n \in Nat,
         NEW ans \in GetResponseAnswers(c, n)
  PROVE  /\ AsPending(ans.card, c)
         /\ ans.sw.first # "62"
         /\ ans.sw.first = "61" /\ n > 0 => ans.sw.n > 0 /\ Len(ans.card.avail) < Len(c.avail)
<1>0. c.avail \in Seq(Parts) /\ Len(c.avail) \in Nat
  BY DEF Cards
<1>1. CASE c.avail = <<>>
  <2>1. ans = Answer(c, <<>>, Error)   BY <1>1 DEF GetResponseAnswers
  <2>2. ans.card = c /\ ans.sw.first = "6f"   BY <2>1, AnswerParts, DoneType
  <2> QED   BY <2>2 DEF AsPending
<1>2. CASE c.avail # <<>> /\ n > Len(c.avail)
  <2>1. ans = Answer(c, <<>>, SW("6c", Len(c.avail)))   BY <1>2 DEF GetResponseAnswers
  <2>2. ans.card = c /\ ans.sw.first = "6c"   BY <2>1, AnswerParts, FirstByte
  <2> QED   BY <2>2 DEF AsPending
<1>3. CASE c.avail # <<>> /\ n <= Len(c.avail)
  <2> DEFINE rest == SubSeq(c.avail, n + 1, Len(c.avail))
             given == SubSeq(c.avail, 1, n)
             left == [c EXCEPT !.avail = rest]
             m == IF Len(rest) < MaxPart THEN Len(rest) ELSE MaxPart
             sw == IF rest = <<>> THEN Done(left) ELSE SW("61", m)
  <2>1. ans = Answer(left, given, sw)
    <3>1. ans = Given(c, c.avail, n)
      <4>1. ~ (n > Len(c.avail))   BY <1>0, <1>3
      <4> QED   BY <1>3, <4>1, Zenon DEF GetResponseAnswers
    <3> QED   BY <3>1, Zenon DEF Given
  <2>2. rest \in Seq(Parts) /\ Len(rest) = Len(c.avail) - n
    BY <1>0, <1>3, Cut
  <2> HIDE DEF rest, given
  <2>3. left.avail = rest /\ AsPending(left, c)
    BY <2>2, WithAvailable, AvailPending
  <2> HIDE DEF left
  <2>4. rest # <<>> => m > 0
    <3>1. Len(rest) \in Nat /\ MaxPart \in Nat \ {0}   BY <2>2 DEF TransportAssumption
    <3>2. rest # <<>> => Len(rest) # 0   BY <2>2, EmptySeq
    <3> QED   BY <3>1, <3>2
  <2> HIDE DEF m
  <2>5. SW("61", m).first = "61" /\ SW("61", m).n = m   BY DEF SW
  <2>6. Done(left).first \in {"90", "91"}   BY DoneType DEF Good
  <2>7. sw.first \in {"61", "90", "91"} /\ (sw.first = "61" => sw.n > 0)
    BY <2>4, <2>5, <2>6
  <2> HIDE DEF sw
  <2>8. ans.card = left /\ ans.sw = sw   BY <2>1, AnswerParts
  <2>9. n > 0 => Len(rest) < Len(c.avail)   BY <1>0, <2>2
  <2> QED   BY <2>3, <2>7, <2>8, <2>9
<1> QED
  BY <1>0, <1>1, <1>2, <1>3

\* FETCH is refused, or there is one proactive command less.
LEMMA FetchPending ==
  ASSUME TransportAssumption, NEW c \in Cards, Bounded(c), NEW ans \in FetchAnswers(c)
  PROVE  /\ Bounded(ans.card)
         /\ \/ Pending(ans.card) < Pending(c)
            \/ Pending(ans.card) = Pending(c) /\ ans.sw.first = "6f"
<1> DEFINE c1 == [c EXCEPT !.avail = <<>>]
           next == [c1 EXCEPT !.fetched = Head(c1.queue), !.queue = Tail(c1.queue)]
<1>1. c1 \in Cards /\ AsPending(c1, c)
  BY NotAvailable, AvailPending
<1>2. \/ ans = Answer(c1, <<>>, Error)
      \/ c1.queue # <<>> /\ ans = Answer(next, <<<<0, Head(c1.queue)>>>>, Success)
  BY DEF FetchAnswers
<1> HIDE DEF c1
<1>3. CASE ans = Answer(c1, <<>>, Error)
  <2>1. ans.card = c1 /\ ans.sw.first = "6f"   BY <1>3, AnswerParts, DoneType
  <2> QED   BY <1>1, <2>1 DEF AsPending
<1>4. CASE c1.queue # <<>> /\ ans = Answer(next, <<<<0, Head(c1.queue)>>>>, Success)
  <2>1. c1.queue \in Seq(Nat) /\ c1.issued \in Nat /\ MaxProactive \in Nat
    BY <1>1 DEF Cards, TransportAssumption
  <2>2. next.issued = c1.issued /\ next.queue = Tail(c1.queue)   BY <1>1 DEF Cards
  <2> HIDE DEF next
  <2>3. ans.card = next   BY <1>4, AnswerParts
  <2>4. Len(Tail(c1.queue)) = Len(c1.queue) - 1 /\ Len(c1.queue) \in Nat   BY <1>4, <2>1
  <2>5. Bounded(next) /\ Pending(next) < Pending(c1)
    <3>1. Bounded(c1)   BY <1>1 DEF AsPending
    <3> QED   BY <2>1, <2>2, <2>4, <3>1 DEF Bounded, Pending
  <2> QED   BY <1>1, <2>3, <2>5 DEF AsPending
<1> QED
  BY <1>2, <1>3, <1>4

LEMMA TerminalResponsePending ==
  ASSUME TransportAssumption, NEW c \in Cards, Bounded(c), NEW pcmd \in Nat,
         NEW ans \in TerminalResponseAnswers(c, pcmd)
  PROVE  AsPending(ans.card, c)
<1> DEFINE c1 == [c EXCEPT !.avail = <<>>]
           next == [c1 EXCEPT !.fetched = 0, !.answered = Append(c1.answered, pcmd)]
<1>1. c1 \in Cards /\ AsPending(c1, c)
  BY NotAvailable, AvailPending
<1>2. \/ ans = Answer(c1, <<>>, Error)
      \/ \E d \in Asking(next) : ans = Answer(d, <<>>, Done(d))
  BY DEF TerminalResponseAnswers
<1> HIDE DEF c1
<1>3. CASE ans = Answer(c1, <<>>, Error)
  BY <1>1, <1>3, AnswerParts
<1>4. ASSUME NEW d \in Asking(next), ans = Answer(d, <<>>, Done(d))
      PROVE  AsPending(ans.card, c)
  <2>1. Append(c1.answered, pcmd) \in Seq(Nat)   BY <1>1 DEF Cards
  <2>2. next \in Cards /\ next.issued = c1.issued /\ next.queue = c1.queue
    BY <1>1, <2>1 DEF Cards
  <2> HIDE DEF next
  <2>3. Bounded(c1)   BY <1>1 DEF AsPending
  <2>4. AsPending(next, c1)   BY <2>2, <2>3, SamePending
  <2>5. Bounded(next)   BY <2>4 DEF AsPending
  <2>6. AsPending(d, next)   BY <2>2, <2>5, AskingPending
  <2>7. ans.card = d   BY <1>4, AnswerParts
  <2> QED   BY <1>1, <2>4, <2>6, <2>7 DEF AsPending
<1> QED
  BY <1>2, <1>3, <1>4

\* What a request is after an answer, and what it has yet to do then.
LEMMA AnswerAhead ==
  ASSUME NEW req \in Requests, NEW data, NEW sw, NEW c \in Cards, NEW d \in Cards,
         sw.first \in {"61", "62"} /\ ~req.again =>
           /\ sw.n > 0
           /\ IF req.tpdu.ins = "get_response" THEN Len(d.avail) < Len(c.avail)
                                               ELSE Len(d.avail) <= req.apdu.size
  PROVE  LET r == AfterAnswer(req, data, sw) IN
         /\ r.at \in {"send", "done"} /\ r.apdu = req.apdu
         /\ r.at = "done" => r.sw = sw
         /\ r.at = "send" => /\ sw.first \in {"61", "62", "6c"}
                            /\ SendAhead(r, d) < SendAhead(req, c)
         /\ Asks(r)
<1> DEFINE finished == [at |-> "done", apdu |-> req.apdu, data |-> data, sw |-> sw]
           fetching == [req EXCEPT !.tpdu = GetResponse(req.apdu, sw.n), !.data = data]
           again == [req EXCEPT !.tpdu = [req.tpdu EXCEPT !.le = sw.n], !.data = <<>>, !.again = TRUE]
<1>1. \/ AfterAnswer(req, data, sw) = finished
      \/ ~req.again /\ sw.first \in {"61", "62"} /\ AfterAnswer(req, data, sw) = fetching
      \/ ~req.again /\ sw.first = "6c" /\ AfterAnswer(req, data, sw) = again
  BY DEF AfterAnswer, MoreToFetch
<1>2. /\ c.avail \in Seq(Parts) /\ d.avail \in Seq(Parts) /\ Len(c.avail) \in Nat /\ Len(d.avail) \in Nat
      /\ req.apdu \in Apdus /\ req.apdu.size \in Nat /\ req.at = "send"
  <2>1. c.avail \in Seq(Parts) /\ d.avail \in Seq(Parts)   BY DEF Cards
  <2>2. Len(c.avail) \in Nat /\ Len(d.avail) \in Nat   BY <2>1
  <2>3. req.apdu \in Apdus /\ req.at = "send"   BY DEF Requests
  <2>4. req.apdu.size \in Nat   BY <2>3 DEF Apdus
  <2> QED   BY <2>1, <2>2, <2>3, <2>4
<1>3. /\ fetching.at = "send" /\ fetching.apdu = req.apdu /\ fetching.again = req.again
      /\ fetching.tpdu.ins = "get_response" /\ fetching.tpdu.le = sw.n
  BY <1>2 DEF Requests, Apdus, GetResponse
<1>4. again.at = "send" /\ again.apdu = req.apdu /\ again.again
  BY <1>2 DEF Requests
<1>5. finished.at = "done" /\ finished.apdu = req.apdu /\ finished.sw = sw
  OBVIOUS
<1> HIDE DEF finished, fetching, again
<1>6. CASE AfterAnswer(req, data, sw) = finished
  BY <1>5, <1>6 DEF Asks
<1>7. CASE ~req.again /\ sw.first \in {"61", "62"} /\ AfterAnswer(req, data, sw) = fetching
  <2>1. SendAhead(fetching, d) = 2 + Len(d.avail)   BY <1>3, <1>7 DEF SendAhead
  <2>2. SendAhead(fetching, d) < SendAhead(req, c)   BY <1>2, <1>7, <2>1 DEF SendAhead
  <2>3. Asks(fetching)   BY <1>3, <1>7 DEF Asks
  <2> QED   BY <1>3, <1>7, <2>2, <2>3
<1>8. CASE ~req.again /\ sw.first = "6c" /\ AfterAnswer(req, data, sw) = again
  <2>1. SendAhead(again, d) = 1   BY <1>4 DEF SendAhead
  <2>2. SendAhead(again, d) < SendAhead(req, c)   BY <1>2, <1>8, <2>1 DEF SendAhead
  <2>3. Asks(again)   BY <1>4 DEF Asks
  <2> QED   BY <1>4, <1>8, <2>2, <2>3
<1> QED
  BY <1>1, <1>6, <1>7, <1>8

\* What the card's answer does to the two counts: a FETCH that is answered lowers the
\* first, any other answer the second.
LEMMA CardPending ==
  ASSUME TransportAssumption, IInv, NInv, io.at = "send",
         NEW ans \in CardAnswers(card, io.tpdu, link.protocol)
  PROVE  /\ Bounded(ans.card)
         /\ IF io.apdu.ins = "fetch"
            THEN \/ Pending(ans.card) < Pending(card)
                 \/ Pending(ans.card) = Pending(card) /\ ans.sw.first = "6f"
            ELSE Pending(ans.card) = Pending(card)
         /\ io.apdu.ins # "command" => ans.sw.first \in {"6f", "90", "91"}
         /\ ans.sw.first \in {"61", "62"} /\ ~io.again =>
              /\ ans.sw.n > 0
              /\ IF io.tpdu.ins = "get_response" THEN Len(ans.card.avail) < Len(card.avail)
                                                 ELSE Len(ans.card.avail) <= io.apdu.size
<1>1. /\ io \in Requests /\ io.tpdu \in Apdus /\ io.tpdu.id \in Nat /\ io.tpdu.le \in Nat
      /\ card \in Cards /\ Bounded(card)
  BY DEF IInv, TypeInv, Requests, Apdus, NInv
<1>2. CASE io.apdu.ins = "command" /\ io.tpdu.ins = "command" /\ CommandOut
  <2>1. io.tpdu.id \in 1 .. MaxCalls /\ io.tpdu.size = io.apdu.size
    BY <1>2 DEF CommandOut, IInv, TypeInv
  <2>2. ans \in CommandAnswers(card, io.tpdu, link.protocol)
    BY <1>2 DEF CardAnswers
  <2>3. /\ AsPending(ans.card, card)
        /\ ans.sw.first \in {"61", "62"} => ans.sw.n > 0 /\ Len(ans.card.avail) <= io.tpdu.size
    BY <1>1, <2>1, <2>2, CommandPending
  <2> QED
    BY <1>2, <2>1, <2>3 DEF AsPending
<1>3. CASE io.apdu.ins = "command" /\ io.tpdu.ins = "get_response"
  <2>1. ans \in GetResponseAnswers(card, io.tpdu.le)
    BY <1>3 DEF CardAnswers
  <2>2. /\ AsPending(ans.card, card)
        /\ ans.sw.first # "62"
        /\ ans.sw.first = "61" /\ io.tpdu.le > 0 => ans.sw.n > 0 /\ Len(ans.card.avail) < Len(card.avail)
    BY <1>1, <2>1, GetResponsePending
  <2>3. ~io.again => io.tpdu.le > 0
    BY <1>3 DEF NInv, Asks
  <2> QED
    BY <1>3, <2>2, <2>3 DEF AsPending
<1>4. CASE io.apdu.ins = "fetch" /\ io.tpdu = io.apdu
  <2>1. ans \in FetchAnswers(card)
    BY <1>4 DEF CardAnswers
  <2>2. ans.sw.first \in {"6f", "90"}
    BY <1>1, <2>1, FetchAnswered
  <2> QED
    BY <1>1, <1>4, <2>1, <2>2, FetchPending
<1>5. CASE io.apdu.ins = "terminal_response" /\ io.tpdu = io.apdu
  <2>1. ans \in TerminalResponseAnswers(card, io.tpdu.id)
    BY <1>5 DEF CardAnswers
  <2>2. ans.sw.first \in {"6f", "90", "91"}
    BY <1>1, <2>1, TerminalResponseAnswered
  <2>3. AsPending(ans.card, card)
    BY <1>1, <2>1, TerminalResponsePending
  <2> QED
    BY <1>5, <2>2, <2>3 DEF AsPending
<1> QED
  BY <1>2, <1>3, <1>4, <1>5 DEF IInv, Sending

LEMMA SendAheadType ==
  ASSUME NEW req \in Requests, NEW c \in Cards
  PROVE  SendAhead(req, c) \in Nat \ {0}
<1>1. c.avail \in Seq(Parts) /\ req.apdu \in Apdus   BY DEF Cards, Requests
<1>2. Len(c.avail) \in Nat /\ req.apdu.size \in Nat   BY <1>1 DEF Apdus
<1>3. 2 + Len(c.avail) \in Nat \ {0} /\ 3 + req.apdu.size \in Nat \ {0} /\ 1 \in Nat \ {0}
  BY <1>2
<1> QED   BY <1>3, Zenon DEF SendAhead

LEMMA AheadIs ==
  /\ \A f : stack = <<f>> => Ahead = CommandAhead
  /\ \A f, g : stack = <<f, g>> => Ahead = FetchAhead /\ Top = g
<1>0. \A f : Len(<<f>>) = 1
  BY FramesOfTuples
<1>1. \A f, g : Len(<<f, g>>) # 1
  BY FramesOfTuples
<1>2. \A f, g : stack = <<f, g>> => Len(stack) # 1
  BY <1>1, Zenon
<1>3. \A f, g : stack = <<f, g>> => Top = g
  BY FramesOfTuples DEF Top
<1> QED
  BY <1>0, <1>2, <1>3 DEF Ahead

LEMMA AheadIsThen ==
  /\ \A f : stack' = <<f>> => Ahead' = CommandAhead'
  /\ \A f, g : stack' = <<f, g>> => Ahead' = FetchAhead' /\ Top' = g
<1>0. \A f : Len(<<f>>) = 1
  BY FramesOfTuples
<1>1. \A f, g : Len(<<f, g>>) # 1
  BY FramesOfTuples
<1>2. \A f, g : stack' = <<f, g>> => Len(stack') # 1
  BY <1>1, Zenon
<1>3. \A f, g : stack' = <<f, g>> => Top' = g
  BY FramesOfTuples DEF Top
<1> QED
  BY <1>0, <1>2, <1>3 DEF Ahead

\* The stack has one frame, for the caller's command or a TERMINAL RESPONSE, or a second
\* one for a FETCH.
LEMMA CallsInProgress ==
  ASSUME IInv, stack # <<>>
  PROVE  \/ \E f \in Frames : /\ stack = <<f>> /\ Bottom(f) /\ f.at # "fetch"
                              /\ io.at # "idle" => io.apdu.ins # "fetch"
         \/ \E f, g \in Frames : /\ stack = <<f, g>> /\ Bottom(f) /\ f.at = "fetch" /\ Upper(g)
                                 /\ io.at # "idle" => io.apdu.ins = "fetch"
<1>1. ASSUME NEW f \in Frames, Bottom(f), f.at # "fetch", io.at # "idle"
      PROVE  io.apdu.ins # "fetch"
  <2>1. f.at \in {"command", "loop", "response"}   BY <1>1 DEF Frames
  <2>2. f.at # "loop"   BY <1>1 DEF Bottom, Idle
  <2> QED   BY <1>1, <2>1, <2>2 DEF Bottom, Waiting
<1>2. ASSUME NEW g \in Frames, Upper(g), io.at # "idle"
      PROVE  io.apdu.ins = "fetch"
  <2>1. g.at # "loop"   BY <1>2 DEF Upper, Idle
  <2> QED   BY <1>2, <2>1 DEF Upper, Waiting
<1>3. \/ \E f \in Frames : stack = <<f>> /\ Bottom(f) /\ f.at # "fetch"
      \/ \E f, g \in Frames : stack = <<f, g>> /\ Bottom(f) /\ f.at = "fetch" /\ Upper(g)
  BY DEF IInv, Calling
<1> QED
  BY <1>1, <1>2, <1>3

LEMMA NearerSend ==
  ASSUME TransportAssumption, IInv, NInv, send_tpdu, ~overtaken'
  PROVE  NInv' /\ (stack # <<>> => Nearer)
<1>1. io.at = "send" /\ stack' = stack
  BY DEF send_tpdu
<1>2. PICK ans \in CardAnswers(card, io.tpdu, link.protocol) :
        LET arriving == LineBefore \o Append(coming, Received(ans))
            first == Head(arriving)
        IN  /\ card' = ans.card
            /\ coming' = Tail(arriving)
            /\ io' = AfterAnswer(io, io.data \o first.data, first.sw)
  BY DEF send_tpdu
<1>3. card' = ans.card /\ io' = AfterAnswer(io, io.data \o ans.data, ans.sw)
  <2>1. Received(ans).data = ans.data /\ Received(ans).sw = ans.sw
    BY DEF Received
  <2>2. NoLateAnswer /\ coming = <<>>   BY DEF IInv, TypeInv, send_tpdu
  <2>3. Head(LineBefore \o Append(coming, Received(ans))) = Received(ans)
    BY <2>2, Line
  <2> QED   BY <1>2, <2>1, <2>3
<1>4. ans.card \in Cards /\ io \in Requests /\ card \in Cards
  BY <1>1, CardStep DEF Answers, IInv, TypeInv
<1>5. /\ Bounded(ans.card)
      /\ IF io.apdu.ins = "fetch"
         THEN \/ Pending(ans.card) < Pending(card)
              \/ Pending(ans.card) = Pending(card) /\ ans.sw.first = "6f"
         ELSE Pending(ans.card) = Pending(card)
      /\ io.apdu.ins # "command" => ans.sw.first \in {"6f", "90", "91"}
  BY <1>1, CardPending
<1>6. ans.sw.first \in {"61", "62"} /\ ~io.again =>
        /\ ans.sw.n > 0
        /\ IF io.tpdu.ins = "get_response" THEN Len(ans.card.avail) < Len(card.avail)
                                           ELSE Len(ans.card.avail) <= io.apdu.size
  BY <1>1, CardPending
<1>7. /\ io'.at \in {"send", "done"} /\ io'.apdu = io.apdu
      /\ io'.at = "done" => io'.sw = ans.sw
      /\ io'.at = "send" => /\ ans.sw.first \in {"61", "62", "6c"}
                            /\ SendAhead(io', card') < SendAhead(io, card)
      /\ Asks(io')
  <2>1. PICK data, r : data = io.data \o ans.data /\ r = AfterAnswer(io, data, ans.sw)
    OBVIOUS
  <2>2. PICK c, sw : c \in Cards /\ c = ans.card /\ sw = ans.sw
    BY <1>4
  <2>3. sw.first \in {"61", "62"} /\ ~io.again =>
           /\ sw.n > 0
           /\ IF io.tpdu.ins = "get_response" THEN Len(c.avail) < Len(card.avail)
                                              ELSE Len(c.avail) <= io.apdu.size
    BY <1>6, <2>2
  <2>4. c \in Cards
    BY <2>2
  <2>5. LET q == AfterAnswer(io, data, sw) IN
        /\ q.at \in {"send", "done"} /\ q.apdu = io.apdu
        /\ q.at = "done" => q.sw = sw
        /\ q.at = "send" => /\ sw.first \in {"61", "62", "6c"}
                            /\ SendAhead(q, c) < SendAhead(io, card)
        /\ Asks(q)
    BY <1>4, <2>3, <2>4, AnswerAhead, Zenon
  <2>6. /\ r.at \in {"send", "done"} /\ r.apdu = io.apdu
        /\ r.at = "done" => r.sw = ans.sw
        /\ r.at = "send" => /\ ans.sw.first \in {"61", "62", "6c"}
                            /\ SendAhead(r, ans.card) < SendAhead(io, card)
        /\ Asks(r)
    BY <2>1, <2>2, <2>5
  <2> QED
    BY <1>3, <2>1, <2>6
<1>8. NInv'
  BY <1>3, <1>5, <1>7 DEF NInv
<1>9. SendAhead(io, card) \in Nat \ {0} /\ (io'.at = "send" => SendAhead(io', card') \in Nat)
  <2>1. SendAhead(io, card) \in Nat \ {0}   BY <1>4, SendAheadType
  <2>2. IInv'   BY SendStep
  <2>3. io'.at = "send" => io' \in Requests   BY <2>2 DEF IInv, TypeInv
  <2>4. card' \in Cards   BY <1>3, <1>4
  <2>5. io'.at = "send" => SendAhead(io', card') \in Nat \ {0}   BY <2>3, <2>4, SendAheadType
  <2> QED   BY <2>1, <2>5
<1>10. ASSUME NEW f, stack = <<f>>, io.apdu.ins # "fetch"
       PROVE  Nearer
  <2>1. Ahead = 5 + SendAhead(io, card)
    BY <1>1, <1>10, AheadIs DEF CommandAhead
  <2>2. Ahead' = IF io'.at = "send" THEN 5 + SendAhead(io', card') ELSE 5
    BY <1>1, <1>7, <1>10, AheadIsThen DEF CommandAhead
  <2>3. Ahead' < Ahead
    BY <1>7, <1>9, <2>1, <2>2
  <2> QED   BY <1>3, <1>5, <1>10, <2>3 DEF Nearer
<1>11. ASSUME NEW f, NEW g, stack = <<f, g>>, io.apdu.ins = "fetch"
       PROVE  Nearer
  <2>1. Ahead = 3
    BY <1>1, <1>11, AheadIs DEF FetchAhead
  <2>2. ans.sw.first = "6f" => Ahead' = 2
    BY <1>1, <1>5, <1>7, <1>11, AheadIsThen DEF FetchAhead
  <2> QED   BY <1>3, <1>5, <1>11, <2>1, <2>2 DEF Nearer
<1> QED
  BY <1>1, <1>8, <1>10, <1>11, CallsInProgress

LEMMA NearerAnswer ==
  ASSUME IInv, NInv, send_apdu_returns
  PROVE  NInv' /\ (stack' # <<>> => Nearer)
<1>1. /\ io.at = "done" /\ card' = card
      /\ \/ Raised("ValueError")
         \/ /\ io' = Idle
            /\ stack' = Replaced(IF Top.at = "command"
                                 THEN [Top EXCEPT !.at = "loop", !.data = io.data, !.sw = io.sw,
                                                  !.last = io.sw]
                                 ELSE [Top EXCEPT !.at = "loop", !.last = io.sw])
  BY DEF send_apdu_returns
<1>2. io' = Idle /\ Idle.at = "idle" /\ NInv'
  <2>1. io' = Idle   BY <1>1 DEF Raised
  <2> QED   BY <1>1, <2>1 DEF NInv, Asks, Idle
<1>3. CASE Raised("ValueError")
  BY <1>2, <1>3 DEF Raised
<1>4. CASE stack' = Replaced(IF Top.at = "command"
                             THEN [Top EXCEPT !.at = "loop", !.data = io.data, !.sw = io.sw,
                                              !.last = io.sw]
                             ELSE [Top EXCEPT !.at = "loop", !.last = io.sw])
  <2>0. stack # <<>>
    <3>1. io # Idle   BY <1>1 DEF Idle
    <3> QED   BY <3>1, StackIs DEF IInv, Calling
  <2>1. ASSUME NEW f, stack = <<f>>
        PROVE  Nearer
    <3>1. Front(stack) = <<>>   BY <2>1, FramesOfTuples
    <3>2. \E h : stack' = <<h>>   BY <1>4, <3>1, FramesOfTuples DEF Replaced
    <3>3. Ahead = 5   BY <1>1, <2>1, AheadIs DEF CommandAhead
    <3>4. Ahead' = 4   BY <1>2, <3>2, AheadIsThen DEF CommandAhead
    <3> QED   BY <1>1, <3>3, <3>4 DEF Nearer
  <2>2. ASSUME NEW f \in Frames, NEW g \in Frames, stack = <<f, g>>, Upper(g)
        PROVE  Nearer
    <3>1. Front(stack) = <<f>> /\ Top = g   BY <2>2, FramesOfTuples DEF Top
    <3>2. g.at = "command"   BY <1>1, <2>2 DEF Upper, Idle
    <3>3. PICK h : h = [g EXCEPT !.at = "loop", !.data = io.data, !.sw = io.sw, !.last = io.sw]
      OBVIOUS
    <3>4. h.sw = io.sw   BY <3>3 DEF Frames
    <3>5. stack' = <<f, h>>   BY <1>4, <3>1, <3>2, <3>3, FramesOfTuples DEF Replaced
    <3>6. Ahead = IF io.sw.first = "6f" THEN 2 ELSE 11
      BY <1>1, <2>2, AheadIs DEF FetchAhead
    <3>7. Ahead' = IF io.sw.first = "6f" THEN 1 ELSE 10
      BY <1>2, <3>4, <3>5, AheadIsThen DEF FetchAhead
    <3> QED   BY <1>1, <3>6, <3>7 DEF Nearer
  <2> QED   BY <1>2, <2>0, <2>1, <2>2, CallsInProgress
<1> QED
  BY <1>1, <1>3, <1>4

LEMMA NearerFetch ==
  ASSUME IInv, NInv, Fetch
  PROVE  NInv' /\ Nearer
<1>1. /\ AtLoop /\ Announces(Top) /\ card' = card
      /\ stack' = Append(Replaced([Top EXCEPT !.sw = Success, !.at = "fetch"]),
                         Frame(FetchCommand(Top.last.n)))
      /\ io' = _send_apdu(FetchCommand(Top.last.n))
  BY DEF Fetch
<1>2. io'.at = "send" /\ io'.tpdu.ins = "fetch"
  BY <1>1 DEF _send_apdu, FetchCommand
<1>3. NInv'
  BY <1>1, <1>2 DEF NInv, Asks
<1>4. ASSUME NEW f, stack = <<f>>, Front(stack) = <<>>
      PROVE  Nearer
  <2>1. \E h, g : stack' = <<h, g>>   BY <1>1, <1>4, FramesOfTuples DEF Replaced
  <2>2. Ahead = 4   BY <1>1, <1>4, AheadIs DEF CommandAhead, AtLoop, Idle
  <2>3. Ahead' = 3   BY <1>2, <2>1, AheadIsThen DEF FetchAhead
  <2> QED   BY <1>1, <2>2, <2>3 DEF Nearer
<1>5. ASSUME NEW f \in Frames, NEW u \in Frames, Top = u, Upper(u), u.at = "loop"
      PROVE  FALSE
  <2>1. u.last.first \in {"6f", "90"}
    BY <1>5 DEF Upper, Returned
  <2> QED   BY <1>1, <1>5, <2>1 DEF Announces
<1> QED   BY <1>1, <1>3, <1>4, <1>5, AtLoopFrames

LEMMA NearerResponse ==
  ASSUME IInv, NInv, FetchReturns
  PROVE  NInv' /\ (stack' # <<>> => Nearer)
<1>1. /\ AtLoop /\ Len(stack) > 1 /\ sw_match(Top.sw, Top.apdu.want) /\ card' = card
      /\ Handles \/ Raised("exception")
  BY DEF FetchReturns, Handles
<1>2. CASE Raised("exception")
  BY <1>1, <1>2 DEF Raised, NInv, Asks, Idle
<1>3. CASE Handles
  <2>1. ASSUME NEW f
        PROVE  stack # <<f>>
    <3> SUFFICES ASSUME stack = <<f>> PROVE FALSE
      OBVIOUS
    <3>1. Len(<<f>>) = 1   BY FramesOfTuples
    <3>2. Len(<<f>>) > 1   BY <1>1
    <3>3. 1 > 1   BY <3>1, <3>2
    <3> QED   BY <3>3
  <2>2. PICK f \in Frames, g \in Frames :
          /\ stack = <<f, g>> /\ Top = g /\ Front(stack) = <<f>> /\ Upper(g)
    BY <1>1, <2>1, AtLoopFrames
  <2>3. \E h : stack' = <<h>>   BY <1>3, <2>2, FramesOfTuples DEF Handles
  <2>4. /\ io'.at = "send" /\ io'.tpdu.ins = "terminal_response" /\ io'.apdu.size = 0
        /\ ~io'.again
    BY <1>3 DEF Handles, _send_apdu, TerminalResponse
  <2>5. NInv'   BY <1>1, <2>4 DEF NInv, Asks
  <2>6. Top.sw.first = "90"   BY <1>1, <2>2, DoneType DEF sw_match, Upper
  <2>7. Ahead = 10
    BY <1>1, <2>2, <2>6, DoneType, AheadIs DEF FetchAhead, AtLoop, Idle
  <2>8. Ahead' = 8
    BY <2>3, <2>4, AheadIsThen DEF CommandAhead, SendAhead
  <2> QED   BY <1>1, <2>5, <2>7, <2>8 DEF Nearer
<1> QED   BY <1>1, <1>2, <1>3

\* The steps that begin a call, or end it with an exception.
LEMMA NotAsking ==
  ASSUME Bounded(card), card' = card, io' = Idle \/ io'.tpdu.ins = "command"
  PROVE  NInv'
BY DEF NInv, Asks, Idle

LEMMA NearerCall ==
  ASSUME Bounded(card), Call
  PROVE  NInv'
<1>1. PICK case \in 1 .. 4, size \in 0 .. MaxSize, any \in BOOLEAN, want \in {"9000", "9xxx", "none"} :
        LET apdu == Command(calls + 1, case, size, IF any THEN 0 ELSE size, want)
        IN  stack' = <<Frame(apdu)>> /\ io' = _send_apdu(apdu)
  BY DEF Call
<1>2. io'.tpdu.ins = "command"
  BY <1>1 DEF Command, _send_apdu
<1> QED
  BY <1>2, NotAsking DEF Call

LEMMA NearerTimeout ==
  ASSUME TransportAssumption, IInv, NInv, Timeout
  PROVE  NInv'
<1>1. io.at = "send" /\ io' = Idle
  BY DEF Timeout, Raised
<1>2. card' = card \/ \E ans \in CardAnswers(card, io.tpdu, link.protocol) : card' = ans.card
  BY DEF Timeout
<1>3. Bounded(card')
  BY <1>1, <1>2, CardPending DEF NInv
<1> QED
  BY <1>1, <1>3 DEF NInv, Asks, Idle

LEMMA NearerStep ==
  ASSUME TransportAssumption, IInv, NInv, (Next /\ ~Call) \/ UNCHANGED vars, ~overtaken'
  PROVE  NInv' /\ (Arrives \/ [stack # <<>> /\ stack' # <<>> => Nearer]_vars)
<1>1. CASE Arrives   BY <1>1 DEF Arrives, NInv
<1>2. CASE send_tpdu   BY <1>2, NearerSend
<1>3. CASE send_apdu_returns   BY <1>3, NearerAnswer
<1>4. CASE Fetch   BY <1>4, NearerFetch
<1>5. CASE FetchReturns   BY <1>5, NearerResponse
<1>6. CASE Return   BY <1>6, NotAsking DEF NInv, Return, AtLoop
<1>7. CASE RaiseSwMatchError   BY <1>7, NotAsking DEF NInv, RaiseSwMatchError, Raised
<1>8. CASE Timeout   BY <1>8, NearerTimeout DEF Timeout, Raised
<1>9. CASE UNCHANGED vars   BY <1>9 DEF vars, NInv
<1> QED
  BY <1>1, <1>2, <1>3, <1>4, <1>5, <1>6, <1>7, <1>8, <1>9 DEF Next

\* The two counts are natural numbers.
LEMMA Counts ==
  ASSUME TransportAssumption, IInv, NInv
  PROVE  Pending(card) \in Nat /\ Ahead \in Nat
<1>1. Pending(card) \in Nat
  BY PendingType DEF IInv, TypeInv, NInv
<1>2. io.at = "send" => SendAhead(io, card) \in Nat \ {0}
  BY SendAheadType DEF IInv, TypeInv
<1>3. CommandAhead \in Nat
  BY <1>2 DEF CommandAhead
<1>4. FetchAhead \in Nat
  BY DEF FetchAhead
<1> QED
  BY <1>1, <1>3, <1>4 DEF Ahead

-----------------------------------------------------------------------------
(***************************************************************************)
(* What holds whoever's answers are read.                                  *)
(***************************************************************************)
LEMMA AnyhowCard ==
  ASSUME TransportAssumption, Anyhow, io.at = "send",
         NEW ans \in CardAnswers(card, io.tpdu, link.protocol)
  PROVE  /\ ans \in Answers
         /\ Bounded(ans.card)
         /\ \A i \in 1 .. MaxCalls : i > calls => ans.card.executed[i] = 0
<1>1. /\ io.tpdu \in Apdus /\ io.tpdu.id \in Nat /\ io.tpdu.le \in Nat
      /\ io.tpdu.ins \in {"command", "get_response", "fetch", "terminal_response"}
      /\ card \in Cards /\ Bounded(card) /\ calls \in 0 .. MaxCalls /\ MaxCalls \in Nat
      /\ \A i \in 1 .. MaxCalls : i > calls => card.executed[i] = 0
  BY DEF Anyhow, TypeInv, Requests, Apdus, TransportAssumption
<1>2. CASE io.tpdu.ins = "command"
  <2>1. io.tpdu.id \in 1 .. calls /\ io.tpdu.id \in 1 .. MaxCalls
    BY <1>1, <1>2 DEF Anyhow
  <2>2. ans \in CommandAnswers(card, io.tpdu, link.protocol)
    BY <1>2 DEF CardAnswers
  <2>3. /\ ans \in Answers
        /\ \/ ans.card.executed = card.executed
           \/ ans.card.executed = Incremented(card.executed, io.tpdu.id)
    BY <1>1, <2>1, <2>2, CommandAnswered
  <2>4. Bounded(ans.card)
    BY <1>1, <2>1, <2>2, CommandPending DEF AsPending
  <2>5. ASSUME NEW i \in 1 .. MaxCalls, i > calls
        PROVE  ans.card.executed[i] = 0
    <3>1. card.executed \in [1 .. MaxCalls -> Nat] /\ i # io.tpdu.id
      BY <1>1, <2>1, <2>5 DEF Cards
    <3>2. Incremented(card.executed, io.tpdu.id)[i] = card.executed[i]
      BY <3>1 DEF Incremented
    <3> QED
      BY <1>1, <2>3, <2>5, <3>2
  <2> QED
    BY <2>3, <2>4, <2>5
<1>3. CASE io.tpdu.ins = "get_response"
  <2>1. ans \in GetResponseAnswers(card, io.tpdu.le)
    BY <1>3 DEF CardAnswers
  <2>2. ans \in Answers /\ ans.card.executed = card.executed
    BY <1>1, <2>1, GetResponseAnswered
  <2> QED
    BY <1>1, <2>1, <2>2, GetResponsePending DEF AsPending
<1>4. CASE io.tpdu.ins = "fetch"
  <2>1. ans \in FetchAnswers(card)
    BY <1>4 DEF CardAnswers
  <2>2. ans \in Answers /\ ans.card.executed = card.executed
    BY <1>1, <2>1, FetchAnswered
  <2> QED
    BY <1>1, <2>1, <2>2, FetchPending
<1>5. CASE io.tpdu.ins = "terminal_response"
  <2>1. ans \in TerminalResponseAnswers(card, io.tpdu.id)
    BY <1>5 DEF CardAnswers
  <2>2. ans \in Answers /\ ans.card.executed = card.executed
    BY <1>1, <2>1, TerminalResponseAnswered
  <2> QED
    BY <1>1, <2>1, <2>2, TerminalResponsePending DEF AsPending
<1> QED
  BY <1>1, <1>2, <1>3, <1>4, <1>5

LEMMA OfStack ==
  ASSUME NEW S, NEW s \in Seq(S), s # <<>>
  PROVE  /\ Last(s) \in S /\ Front(s) \in Seq(S)
         /\ \A f \in S : Append(Front(s), f) \in Seq(S) /\ Append(Front(s), f) # <<>>
<1>1. Len(s) \in Nat /\ Len(s) # 0
  BY EmptySeq
<1>2. Last(s) \in S
  BY <1>1 DEF Last
<1>3. Front(s) \in Seq(S)
  <2>1. Len(s) - 1 \in 0 .. Len(s)
    BY <1>1
  <2>2. PICK n \in 0 .. Len(s) : n = Len(s) - 1
    BY <2>1
  <2>3. SubSeq(s, 1, n) \in Seq(S)
    BY <2>2, Cut
  <2> QED
    BY <2>2, <2>3 DEF Front
<1>4. ASSUME NEW t \in Seq(S), NEW f \in S
      PROVE  Append(t, f) \in Seq(S) /\ Append(t, f) # <<>>
  <2>1. Append(t, f) \in Seq(S) /\ Len(Append(t, f)) = Len(t) + 1 /\ Len(t) \in Nat
    BY AppendProperties
  <2> QED
    BY <2>1
<1> QED
  BY <1>2, <1>3, <1>4

\* A step that changes only what the process has in progress.
LEMMA AnyhowProcess ==
  ASSUME Anyhow, UNCHANGED <<link, line, coming, overtaken, calls, card>>,
         stack' \in Seq(Sent),
         \/ io' = Idle
         \/ /\ stack' # <<>>
            /\ \E apdu \in Apdus : /\ apdu.ins \in {"fetch", "terminal_response"}
                                   /\ io' = _send_apdu(apdu),
         outcome' = outcome \/ outcome'.how # "returned" \/ outcome'.call \in 0 .. calls
  PROVE  Anyhow'
<1>1. Sent' = Sent
  BY DEF Sent
<1>2. /\ io'.at \in {"idle", "send"}
      /\ io'.at = "idle" => io' = Idle
      /\ io'.at = "send" => io' \in Requests /\ io'.tpdu.ins # "command"
      /\ stack' = <<>> => io' = Idle
  <2>1. CASE io' = Idle
    BY <2>1 DEF Idle
  <2>2. CASE /\ stack' # <<>>
             /\ \E apdu \in Apdus : /\ apdu.ins \in {"fetch", "terminal_response"}
                                    /\ io' = _send_apdu(apdu)
    <3>1. PICK apdu \in Apdus : apdu.ins \in {"fetch", "terminal_response"} /\ io' = _send_apdu(apdu)
      BY <2>2
    <3> QED
      BY <2>2, <3>1, NewRequest
  <2> QED
    BY <2>1, <2>2
<1>3. TypeInv'
  BY <1>2 DEF Anyhow, TypeInv, NoLateAnswer
<1> QED
  BY <1>1, <1>2, <1>3 DEF Anyhow, Bounded

LEMMA AnyhowRaised ==
  ASSUME Anyhow, UNCHANGED <<link, line, coming, overtaken, calls, card>>,
         NEW how, how # "returned", Raised(how)
  PROVE  Anyhow'
<1>1. stack' = <<>> /\ io' = Idle /\ outcome'.how # "returned"
  BY DEF Raised, Result
<1>2. stack' \in Seq(Sent)
  BY <1>1
<1> QED
  BY <1>1, <1>2, AnyhowProcess

LEMMA AnyhowSend ==
  ASSUME TransportAssumption, Anyhow, send_tpdu
  PROVE  Anyhow'
<1>1. /\ io.at = "send" /\ line' = <<>>
      /\ UNCHANGED <<link, stack, calls, outcome>>
  BY DEF send_tpdu
<1>2. PICK ans \in CardAnswers(card, io.tpdu, link.protocol) :
        LET arriving == LineBefore \o Append(coming, Received(ans))
            first == Head(arriving)
        IN  /\ card' = ans.card
            /\ coming' = Tail(arriving)
            /\ overtaken' = (overtaken \/ coming # <<>>)
            /\ io' = AfterAnswer(io, io.data \o first.data, first.sw)
  BY DEF send_tpdu
<1>3. /\ ans \in Answers /\ Bounded(ans.card)
      /\ \A i \in 1 .. MaxCalls : i > calls => ans.card.executed[i] = 0
  BY <1>1, AnyhowCard
<1>4. /\ io \in Requests /\ io.tpdu \in Apdus /\ io.data \in Seq(Parts)
      /\ line \in Seq(LateAnswers) /\ coming \in Seq(LateAnswers)
      /\ NoLateAnswer /\ card \in Cards
  BY <1>1 DEF Anyhow, TypeInv, Requests
<1> DEFINE x == Received(ans)
           before == LineBefore
           arriving == before \o Append(coming, x)
<1>5. x \in LateAnswers /\ ans.card \in Cards
  BY <1>3 DEF Answers, Received, LateAnswers
<1>6. before \in Seq(LateAnswers)
  BY <1>4 DEF LineBefore
<1>7. /\ card' = ans.card
      /\ coming' = Tail(arriving)
      /\ overtaken' = (overtaken \/ coming # <<>>)
      /\ io' = AfterAnswer(io, io.data \o Head(arriving).data, Head(arriving).sw)
  BY <1>2
<1>8. overtaken' \in BOOLEAN
  BY <1>7, Zenon
<1>9. NoLateAnswer'
  <2>1. CASE Driver = "modem"
    BY <2>1 DEF NoLateAnswer
  <2>2. CASE Driver # "modem"
    <3>1. coming = <<>> /\ ~overtaken /\ Driver = "pcsc"
      BY <1>4, <2>2 DEF NoLateAnswer
    <3>2. Tail(arriving) = <<>>
      BY <1>4, <3>1, Line
    <3> QED
      BY <1>1, <1>7, <3>1, <3>2 DEF NoLateAnswer
  <2> QED
    BY <2>1, <2>2
<1> HIDE DEF x, before
<1>10. Head(arriving) \in LateAnswers /\ Tail(arriving) \in Seq(LateAnswers)
  <2>1. Append(coming, x) \in Seq(LateAnswers) /\ Len(Append(coming, x)) = Len(coming) + 1
    BY <1>4, <1>5, AppendProperties
  <2>2. arriving \in Seq(LateAnswers) /\ Len(arriving) = Len(before) + Len(Append(coming, x))
    BY <1>6, <2>1, ConcatProperties
  <2>3. Len(coming) \in Nat /\ Len(before) \in Nat
    BY <1>4, <1>6
  <2> HIDE DEF arriving
  <2>4. arriving # <<>>
    BY <2>1, <2>2, <2>3
  <2> QED
    BY <2>2, <2>4
<1> HIDE DEF arriving
<1>11. PICK first \in LateAnswers : first = Head(arriving)
  BY <1>10
<1>12. first.data \in Seq(Parts) /\ first.sw \in SWs /\ io.data \o first.data \in Seq(Parts)
  <2>1. first.data \in Seq(Parts) /\ first.sw \in SWs
    BY DEF LateAnswers
  <2> QED
    BY <1>4, <2>1, ConcatProperties
<1>13. PICK data \in Seq(Parts) : io' = AfterAnswer(io, data, first.sw)
  BY <1>7, <1>11, <1>12
<1>14. /\ io'.at \in {"send", "done"}
       /\ io'.at = "done" => io' \in Answered
       /\ io'.at = "send" => /\ io' \in Requests
                             /\ \/ io'.tpdu.ins = "get_response"
                                \/ \E le : io'.tpdu = [io.tpdu EXCEPT !.le = le]
  <2>0. PICK sw \in SWs : sw = first.sw
    BY <1>12
  <2>1. PICK r : io' = r /\ r = AfterAnswer(io, data, sw)
    BY <1>13, <2>0
  <2>2. LET q == AfterAnswer(io, data, sw) IN
         /\ q.apdu = io.apdu
         /\ \/ q.at = "done" /\ q \in Answered /\ q.data = data /\ q.sw = sw
            \/ /\ sw.first \in {"61", "62"}
               /\ q.at = "send" /\ q \in Requests /\ q.data = data
               /\ q.tpdu.ins = "get_response" /\ q.tpdu.le = sw.n
            \/ /\ sw.first = "6c"
               /\ q.at = "send" /\ q \in Requests /\ q.data = <<>>
               /\ q.tpdu = [io.tpdu EXCEPT !.le = sw.n]
    <3>1. io \in Requests
      BY <1>4
    <3> QED
      BY <3>1, AnswerHandled, Zenon
  <2>3. /\ r.at \in {"send", "done"}
        /\ r.at = "done" => r \in Answered
        /\ r.at = "send" => /\ r \in Requests
                            /\ \/ r.tpdu.ins = "get_response"
                               \/ \E le : r.tpdu = [io.tpdu EXCEPT !.le = le]
    BY <2>1, <2>2
  <2> QED
    BY <2>1, <2>3
<1>15. ASSUME io'.at = "send", io'.tpdu.ins = "command"
       PROVE  io'.tpdu.id \in 1 .. calls
  <2>1. PICK le : io'.tpdu = [io.tpdu EXCEPT !.le = le]
    BY <1>14, <1>15
  <2>2. io'.tpdu.ins = io.tpdu.ins /\ io'.tpdu.id = io.tpdu.id
    BY <1>4, <2>1 DEF Apdus
  <2> QED
    BY <1>1, <1>15, <2>2 DEF Anyhow
<1>16. TypeInv'
  <2>1. line' \in Seq(LateAnswers) /\ coming' \in Seq(LateAnswers)
    BY <1>1, <1>7, <1>10
  <2>2. io'.at # "idle"
    BY <1>14
  <2> QED
    BY <1>1, <1>5, <1>7, <1>8, <1>9, <1>14, <2>1, <2>2 DEF Anyhow, TypeInv
<1>17. stack # <<>> /\ Sent' = Sent
  BY <1>1 DEF Anyhow, Idle, Sent
<1> QED
  BY <1>1, <1>3, <1>7, <1>15, <1>16, <1>17 DEF Anyhow

LEMMA AnyhowTimeout ==
  ASSUME TransportAssumption, Anyhow, Timeout
  PROVE  Anyhow'
<1>1. /\ io.at = "send" /\ stack' = <<>> /\ io' = Idle /\ outcome'.how # "returned"
      /\ link' = link /\ calls' = calls /\ line' = LineBefore /\ overtaken' = overtaken
  BY DEF Timeout, Raised, Result
<1>2. /\ NoLateAnswer /\ card \in Cards /\ Bounded(card)
      /\ line \in Seq(LateAnswers) /\ coming \in Seq(LateAnswers) /\ overtaken \in BOOLEAN
      /\ \A i \in 1 .. MaxCalls : i > calls => card.executed[i] = 0
  BY DEF Anyhow, TypeInv
<1>3. line' \in Seq(LateAnswers) /\ (line = <<>> => line' = <<>>)
  BY <1>1, <1>2 DEF LineBefore
<1>4. ASSUME card' \in Cards, Bounded(card'), coming' \in Seq(LateAnswers),
             Driver # "pcsc" \/ coming' \in {coming, <<>>},
             \A i \in 1 .. MaxCalls : i > calls => card'.executed[i] = 0
      PROVE  Anyhow'
  <2>1. NoLateAnswer'
    BY <1>1, <1>2, <1>3, <1>4 DEF NoLateAnswer
  <2>2. io'.at = "idle" /\ <<>> \in Seq(Sent') /\ Sent' = Sent
    BY <1>1 DEF Idle, Sent
  <2>3. TypeInv'
    BY <1>1, <1>2, <1>3, <1>4, <2>1, <2>2 DEF Anyhow, TypeInv
  <2> QED
    BY <1>1, <1>4, <2>2, <2>3 DEF Anyhow
<1>5. CASE UNCHANGED <<card, coming>>
  BY <1>2, <1>4, <1>5
<1>6. ASSUME NEW ans \in CardAnswers(card, io.tpdu, link.protocol),
             card' = ans.card,
             coming' \in {coming, <<>>} \cup
                    IF Driver = "pcsc" THEN {} ELSE {Append(coming, Received(ans))}
      PROVE  Anyhow'
  <2>1. /\ ans \in Answers /\ Bounded(ans.card)
        /\ \A i \in 1 .. MaxCalls : i > calls => ans.card.executed[i] = 0
    BY <1>1, AnyhowCard
  <2>2. card' \in Cards /\ Received(ans) \in LateAnswers
    BY <1>6, <2>1 DEF Answers, Received, LateAnswers
  <2>3. Append(coming, Received(ans)) \in Seq(LateAnswers) /\ <<>> \in Seq(LateAnswers)
    BY <1>2, <2>2
  <2>4. coming' = coming \/ coming' = <<>> \/ coming' = Append(coming, Received(ans))
    BY <1>6
  <2>5. coming' \in Seq(LateAnswers)
    BY <1>2, <2>3, <2>4, Zenon
  <2>6. Driver # "pcsc" \/ coming' \in {coming, <<>>}
    BY <1>6
  <2> QED
    BY <1>4, <1>6, <2>1, <2>2, <2>5, <2>6
<1> QED
  BY <1>5, <1>6 DEF Timeout

LEMMA AnyhowCall ==
  ASSUME TransportAssumption, Anyhow, Call
  PROVE  Anyhow'
<1>1. PICK case \in 1 .. 4, size \in 0 .. MaxSize, any \in BOOLEAN, want \in {"9000", "9xxx", "none"} :
        LET apdu == Command(calls + 1, case, size, IF any THEN 0 ELSE size, want)
        IN  stack' = <<Frame(apdu)>> /\ io' = _send_apdu(apdu)
  BY DEF Call
<1>2. /\ calls < MaxCalls /\ calls' = calls + 1 /\ outcome' = outcome /\ card' = card
  BY DEF Call
<1>3. calls \in 0 .. MaxCalls /\ MaxCalls \in Nat
  BY DEF Anyhow, TypeInv, TransportAssumption
<1> DEFINE apdu == Command(calls + 1, case, size, IF any THEN 0 ELSE size, want)
<1>4. apdu \in Apdus /\ apdu.ins = "command" /\ apdu.id = calls + 1
  <2>1. size \in Nat /\ case \in Nat /\ calls + 1 \in Nat
    BY <1>3 DEF TransportAssumption
  <2> QED
    BY <2>1 DEF Command, Apdus
<1>5. stack' = <<Frame(apdu)>> /\ io' = _send_apdu(apdu)
  BY <1>1
<1> HIDE DEF apdu
<1>6. PICK f \in Frames : stack' = <<f>> /\ f.apdu = apdu
  BY <1>4, <1>5, NewFrame
<1>7. /\ io' \in Requests /\ io'.at = "send" /\ io'.tpdu = apdu
  BY <1>4, <1>5, NewRequest
<1>8. TypeInv'
  BY CallStep DEF IInv
<1>9. stack' \in Seq(Sent)' /\ stack' # <<>>
  <2>1. f \in Sent'
    BY <1>2, <1>3, <1>4, <1>6 DEF Sent
  <2>2. <<f>> \in Seq(Sent') /\ <<f>> # <<>>
    BY <2>1
  <2> QED
    BY <1>6, <2>2
<1>10. io'.tpdu.id \in 1 .. calls'
  BY <1>2, <1>3, <1>4, <1>7
<1>11. Bounded(card')
  BY <1>2 DEF Anyhow
<1>12. \A i \in 1 .. MaxCalls : i > calls' => card'.executed[i] = 0
  BY <1>2, <1>3 DEF Anyhow
<1>13. outcome'.how = "returned" => outcome'.call \in 0 .. calls'
  <2>1. outcome.how = "returned" => outcome.call \in 0 .. calls
    BY DEF Anyhow
  <2>2. calls' = calls + 1 /\ calls \in Nat
    BY <1>2, <1>3
  <2> QED
    BY <1>2, <2>1, <2>2 DEF Anyhow
<1> QED
  BY <1>8, <1>9, <1>10, <1>11, <1>12, <1>13 DEF Anyhow

LEMMA AnyhowAnswer ==
  ASSUME Anyhow, send_apdu_returns
  PROVE  Anyhow'
<1>1. /\ io.at = "done" /\ UNCHANGED <<link, line, coming, overtaken, calls, card>>
      /\ \/ Raised("ValueError")
         \/ /\ io' = Idle /\ outcome' = outcome
            /\ stack' = Replaced(IF Top.at = "command"
                                 THEN WithAnswer(Top, io.data, io.sw)
                                 ELSE [Top EXCEPT !.at = "loop", !.last = io.sw])
  BY DEF send_apdu_returns, WithAnswer
<1>2. CASE Raised("ValueError")
  BY <1>1, <1>2, AnyhowRaised
<1>3. CASE /\ io' = Idle /\ outcome' = outcome
           /\ stack' = Replaced(IF Top.at = "command"
                                THEN WithAnswer(Top, io.data, io.sw)
                                ELSE [Top EXCEPT !.at = "loop", !.last = io.sw])
  <2>1. io \in Answered /\ stack \in Seq(Sent) /\ stack # <<>>
    BY <1>1 DEF Anyhow, TypeInv, Idle
  <2>2. io.data \in Seq(Parts) /\ io.sw \in SWs
    BY <2>1 DEF Answered
  <2>3. PICK f \in Sent : f = Top
    BY <2>1, OfStack DEF Top
  <2>4. f \in Frames /\ f.apdu.id <= calls
    BY DEF Sent
  <2>5. PICK h : stack' = Replaced(h) /\ h \in Frames /\ h.apdu = f.apdu
    <3>1. WithAnswer(f, io.data, io.sw) \in Frames /\ WithAnswer(f, io.data, io.sw).apdu = f.apdu
      BY <2>2, <2>4, FrameAnswered
    <3>2. \E h \in Frames : h = [f EXCEPT !.at = "loop", !.last = io.sw] /\ h.apdu = f.apdu
      BY <2>2, <2>4, FrameResponded
    <3> QED
      BY <1>3, <2>3, <3>1, <3>2
  <2>6. h \in Sent
    BY <2>4, <2>5 DEF Sent
  <2>7. stack' \in Seq(Sent)
    BY <2>1, <2>5, <2>6, OfStack DEF Replaced
  <2> QED
    BY <1>1, <1>3, <2>7, AnyhowProcess
<1> QED
  BY <1>1, <1>2, <1>3

LEMMA AnyhowFetch ==
  ASSUME Anyhow, Fetch
  PROVE  Anyhow'
<1> DEFINE apdu == FetchCommand(Top.last.n)
<1>1. /\ stack # <<>> /\ stack \in Seq(Sent)
      /\ stack' = Append(Replaced([Top EXCEPT !.sw = Success, !.at = "fetch"]), Frame(apdu))
      /\ io' = _send_apdu(apdu)
      /\ UNCHANGED <<link, line, coming, overtaken, calls, outcome, card>>
  BY DEF Fetch, AtLoop, Anyhow
<1>2. PICK f \in Sent : f = Top
  BY <1>1, OfStack DEF Top
<1>3. f \in Frames /\ f.apdu.id <= calls /\ f.last.n \in Nat
  BY DEF Sent, Frames, SWs
<1>4. apdu \in Apdus /\ apdu.ins = "fetch" /\ apdu.id = 0
  BY <1>2, <1>3 DEF FetchCommand, Apdus
<1> HIDE DEF apdu
<1>5. PICK h \in Frames : h = [f EXCEPT !.sw = Success, !.at = "fetch"] /\ h.apdu = f.apdu
  BY <1>3, FrameFetching
<1>6. PICK g \in Frames : g = Frame(apdu) /\ g.apdu = apdu
  BY <1>4, NewFrame
<1>7. h \in Sent /\ g \in Sent
  <2>1. calls \in Nat
    BY DEF Anyhow, TypeInv
  <2>2. h \in Sent
    BY <1>3, <1>5 DEF Sent
  <2>3. g.apdu.id <= calls
    BY <1>4, <1>6, <2>1
  <2>4. g \in Sent
    BY <2>3 DEF Sent
  <2> QED
    BY <2>2, <2>4
<1>8. stack' \in Seq(Sent) /\ stack' # <<>>
  <2>1. PICK t : t = Replaced(h)
    OBVIOUS
  <2>2. t \in Seq(Sent)
    BY <1>1, <1>7, <2>1, OfStack DEF Replaced
  <2>3. stack' = Append(t, g)
    BY <1>1, <1>2, <1>5, <1>6, <2>1
  <2>4. Append(t, g) \in Seq(Sent) /\ Len(Append(t, g)) = Len(t) + 1 /\ Len(t) \in Nat
    BY <1>7, <2>2, AppendProperties
  <2> QED
    BY <2>3, <2>4
<1> QED
  BY <1>1, <1>4, <1>8, AnyhowProcess

LEMMA AnyhowFetched ==
  ASSUME Anyhow, FetchReturns
  PROVE  Anyhow'
<1>1. /\ stack # <<>> /\ Len(stack) > 1 /\ stack \in Seq(Sent)
      /\ UNCHANGED <<link, line, coming, overtaken, calls, card>>
      /\ \/ Handles /\ outcome' = outcome
         \/ Raised("exception")
  BY DEF FetchReturns, Handles, AtLoop, Anyhow
<1>2. CASE Raised("exception")
  BY <1>1, <1>2, AnyhowRaised
<1>3. CASE Handles /\ outcome' = outcome
  <2>1. PICK g \in Sent : g = Top
    BY <1>1, OfStack DEF Top
  <2>2. PICK pcmd \in Nat : pcmd = Head(Top.data)[2]
    <3>1. g.data \in Seq(Parts) /\ g.data # <<>>
      BY <1>3, <2>1 DEF Handles, Sent, Frames
    <3>2. Head(g.data) \in Parts
      BY <3>1
    <3> QED
      BY <2>1, <3>2 DEF Parts
  <2>3. PICK s \in Seq(Sent) : s = Front(stack) /\ s # <<>>
    <3>1. Front(stack) \in Seq(Sent)
      BY <1>1, OfStack
    <3>2. Len(Front(stack)) = Len(stack) - 1
      <4>1. PICK n \in 0 .. Len(stack) : n = Len(stack) - 1
        BY <1>1
      <4>2. Len(SubSeq(stack, 1, n)) = n
        BY <1>1, Cut
      <4> QED
        BY <4>1, <4>2 DEF Front
    <3>3. Front(stack) # <<>>
      BY <1>1, <3>2
    <3> QED
      BY <3>1, <3>3
  <2>4. PICK f \in Sent : f = Last(s)
    BY <2>3, OfStack
  <2>5. f \in Frames /\ f.apdu.id <= calls
    BY DEF Sent
  <2>6. PICK h \in Frames : h = [f EXCEPT !.at = "response", !.pcmd = pcmd] /\ h.apdu = f.apdu
    BY <2>5, FrameAnswering
  <2>7. h \in Sent
    BY <2>5, <2>6 DEF Sent
  <2>8. stack' = Append(Front(s), h) /\ io' = _send_apdu(TerminalResponse(pcmd))
    BY <1>3, <2>2, <2>3, <2>4, <2>6 DEF Handles
  <2>9. stack' \in Seq(Sent) /\ stack' # <<>>
    BY <2>3, <2>7, <2>8, OfStack
  <2>10. TerminalResponse(pcmd) \in Apdus /\ TerminalResponse(pcmd).ins = "terminal_response"
    BY DEF TerminalResponse, Apdus
  <2> QED
    BY <1>1, <1>3, <2>8, <2>9, <2>10, AnyhowProcess
<1> QED
  BY <1>1, <1>2, <1>3

LEMMA AnyhowReturn ==
  ASSUME Anyhow, Return
  PROVE  Anyhow'
<1>1. /\ stack # <<>> /\ stack \in Seq(Sent) /\ stack' = <<>> /\ io' = Idle
      /\ outcome' = Result("returned", Top.apdu, Top.data, Top.sw)
      /\ UNCHANGED <<link, line, coming, overtaken, calls, card>>
  BY DEF Return, AtLoop, Anyhow
<1>2. PICK f \in Sent : f = Top
  BY <1>1, OfStack DEF Top
<1>3. f.apdu.id \in Nat /\ f.apdu.id <= calls /\ calls \in Nat
  BY DEF Sent, Frames, Apdus, Anyhow, TypeInv
<1>4. outcome'.call = f.apdu.id
  BY <1>1, <1>2 DEF Result
<1>5. outcome'.call \in 0 .. calls
  BY <1>3, <1>4
<1>6. stack' \in Seq(Sent)
  BY <1>1
<1> QED
  BY <1>1, <1>5, <1>6, AnyhowProcess

LEMMA AnyhowStep ==
  ASSUME TransportAssumption, Anyhow, [Next]_vars
  PROVE  Anyhow'
<1>1. CASE Call   BY <1>1, AnyhowCall
<1>2. CASE send_tpdu   BY <1>2, AnyhowSend
<1>3. CASE send_apdu_returns   BY <1>3, AnyhowAnswer
<1>4. CASE Fetch   BY <1>4, AnyhowFetch
<1>5. CASE FetchReturns   BY <1>5, AnyhowFetched
<1>6. CASE Return   BY <1>6, AnyhowReturn
<1>7. CASE RaiseSwMatchError
  <2>1. /\ UNCHANGED <<link, line, coming, overtaken, calls, card>>
        /\ Raised("SwMatchError")
    BY <1>7 DEF RaiseSwMatchError
  <2> QED   BY <2>1, AnyhowRaised
<1>8. CASE Timeout   BY <1>8, AnyhowTimeout
<1>9. CASE Arrives
  <2>1. TypeInv'   BY <1>9, ArrivesType DEF Anyhow
  <2>2. UNCHANGED <<stack, io, calls, outcome, card>>   BY <1>9 DEF Arrives
  <2> QED   BY <2>1, <2>2 DEF Anyhow, Bounded, Sent
<1>10. CASE UNCHANGED vars
  <2>1. UNCHANGED <<link, stack, io, line, coming, overtaken, calls, outcome, card>>
    BY <1>10 DEF vars
  <2>2. TypeInv'   BY <2>1 DEF Anyhow, TypeInv, NoLateAnswer
  <2> QED   BY <2>1, <2>2 DEF Anyhow, Bounded, Sent
<1> QED
  BY <1>1, <1>2, <1>3, <1>4, <1>5, <1>6, <1>7, <1>8, <1>9, <1>10 DEF Next

-----------------------------------------------------------------------------
(***************************************************************************)
(* The theorems.                                                           *)
(***************************************************************************)
Undisturbed == ~overtaken => IInv /\ PInv /\ NInv

LEMMA UndisturbedStep ==
  ASSUME TransportAssumption, Anyhow, Undisturbed, [Next]_vars
  PROVE  Undisturbed'
<1> SUFFICES ASSUME ~overtaken' PROVE (IInv /\ PInv /\ NInv)'
  BY DEF Undisturbed
<1>1. CASE Call
  <2>1. IInv'   BY <1>1, CallStep
  <2>2. PInv'   BY <1>1, ProactiveCall
  <2>3. NInv'   BY <1>1, NearerCall DEF Anyhow
  <2> QED   BY <2>1, <2>2, <2>3
<1>2. CASE ~Call
  <2>1. ~overtaken
    BY <1>2 DEF Next, send_tpdu, send_apdu_returns, Fetch, FetchReturns, Return,
                RaiseSwMatchError, Timeout, Arrives, vars
  <2>2. IInv /\ PInv /\ NInv   BY <2>1 DEF Undisturbed
  <2>3. IInv'   BY <2>2, Step
  <2>4. PInv'   BY <1>2, <2>2, ProactiveStep
  <2>5. NInv'   BY <1>2, <2>2, NearerStep
  <2> QED   BY <2>3, <2>4, <2>5
<1> QED
  BY <1>1, <1>2

\* What holds of the line, the card and the frames whoever's answers are read, and what
\* holds besides while no answer of another command was read: the frames, the request and
\* the card agree on the command of the call, on how much of its response was fetched, and
\* on the proactive command that waits for its TERMINAL RESPONSE.
THEOREM Invariant ==
  ASSUME Driver \in {"modem", "pcsc"}
  PROVE  Spec => [](Anyhow /\ Undisturbed)
<1>1. Init => Anyhow /\ Undisturbed
  <2> SUFFICES ASSUME Init PROVE Anyhow /\ Undisturbed   OBVIOUS
  <2>1. stack = <<>> /\ io = Idle /\ card = NewCard   BY DEF Init
  <2>2. ProactiveAnswers   BY <2>1 DEF ProactiveAnswers, Idle
  <2>3. ProactiveCalls   BY <2>1, StackIs DEF ProactiveCalls
  <2>4. NInv
    BY <2>1, TransportAssumption DEF NInv, Bounded, Asks, Idle, NewCard, TransportAssumption
  <2> QED
    BY <2>2, <2>3, <2>4, Initially, TransportAssumption DEF PInv, Undisturbed
<1>2. (Anyhow /\ Undisturbed) /\ [Next]_vars => (Anyhow /\ Undisturbed)'
  BY AnyhowStep, UndisturbedStep, TransportAssumption
<1> QED
  BY <1>1, <1>2, PTL DEF Spec

\* With the driver of pcscd no call reads the answer to another command, whatever times
\* out: its transmit gives the answer to what it was given, or none.
THEOREM NoneOvertaken ==
  ASSUME Driver = "pcsc"
  PROVE  Spec => [](~overtaken)
<1>1. Anyhow => ~overtaken
  BY DEF Anyhow, TypeInv, NoLateAnswer
<1>2. Spec => [](Anyhow /\ Undisturbed)
  BY Invariant
<1> QED
  BY <1>1, <1>2, PTL

\* A success that the caller is given is the whole response to its own command, and the
\* card has carried it out once, unless a late answer came in behind the flush during this
\* very call: for every number of commands, proactive commands, timeouts and parts, and
\* also after calls that were given another command's answer (send_apdu_checksw,
\* LinkBaseTpdu._send_apdu, ModemATCommandLink.send_at_cmd).
THEOREM OwnAnswer ==
  ASSUME Driver \in {"modem", "pcsc"}
  PROVE  Spec => []AnswerOfCommand
<1>1. Undisturbed => AnswerOfCommand
  BY DEF Undisturbed, IInv, Told, AnswerOfCommand
<1> QED
  BY <1>1, Invariant, PTL

\* No command is carried out twice, however its TPDU is repeated (LinkBaseTpdu._send_apdu),
\* unless the answer to another one was read during the call.
THEOREM AtMostOnce ==
  ASSUME Driver \in {"modem", "pcsc"}
  PROVE  Spec => []ExecutedOnce
<1>1. Undisturbed => ExecutedOnce
  BY DEF Undisturbed, IInv, Executed, OnceIn, ExecutedOnce
<1> QED
  BY <1>1, Invariant, PTL

\* A checked command that returns leaves no proactive command fetched but not answered,
\* and none that the card would announce next (send_apdu_checksw's loop over 91xx).
THEOREM NoneLeftWaiting ==
  ASSUME Driver \in {"modem", "pcsc"}
  PROVE  Spec => ProactiveAnswered
<1>1. Undisturbed =>
        [Return /\ Top.apdu.want = "9000" /\ ~overtaken
           => /\ Top.pcmd # 0 => card.fetched # Top.pcmd
              /\ card.fetched = 0 => card.queue = <<>>]_vars
  BY ReturnSettled DEF Undisturbed
<1> QED
  BY <1>1, Invariant, PTL DEF ProactiveAnswered

\* No call of send_apdu_checksw goes on for ever while it reads its own answers: every step
\* of it lowers the number of proactive commands there may yet be, or leaves that number
\* alone and lowers the number of steps to the next of them.  Both are natural numbers.
\* (The loops over 91xx, over GET RESPONSE and over wrong lengths, __init__.py:199, 310.)
THEOREM CallsBounded ==
  ASSUME Driver \in {"modem", "pcsc"}
  PROVE  Spec => /\ [](~overtaken => Pending(card) \in Nat /\ Ahead \in Nat)
                 /\ [][stack # <<>> /\ stack' # <<>> /\ ~overtaken' /\ ~Arrives => Nearer]_vars
<1>1. Undisturbed => (~overtaken => Pending(card) \in Nat /\ Ahead \in Nat)
  BY Counts, TransportAssumption DEF Undisturbed
<1>2. Anyhow /\ Undisturbed /\ [Next]_vars =>
        [stack # <<>> /\ stack' # <<>> /\ ~overtaken' /\ ~Arrives => Nearer]_vars
  <2> SUFFICES ASSUME Undisturbed, [Next]_vars, stack # <<>>, ~overtaken', ~Arrives,
                      stack' # <<>>, ~UNCHANGED vars
               PROVE  Nearer
    OBVIOUS
  <2>1. ~Call   BY DEF Call
  <2>2. ~overtaken
    BY <2>1 DEF Next, send_tpdu, send_apdu_returns, Fetch, FetchReturns, Return,
                RaiseSwMatchError, Timeout, Arrives, vars
  <2>3. IInv /\ NInv   BY <2>2 DEF Undisturbed
  <2> QED   BY <2>1, <2>3, NearerStep, TransportAssumption
<1> QED
  BY <1>1, <1>2, Invariant, PTL DEF Spec
=============================================================================
