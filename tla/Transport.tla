------------------------------ MODULE Transport ------------------------------
(***************************************************************************)
(* pySim/transport: one command of a caller on its way to the card and     *)
(* back.  send_apdu_checksw sends it, fetches the proactive commands that  *)
(* a status word 91xx announces and answers each, calling itself for the   *)
(* FETCH; below it LinkBaseTpdu turns an APDU into as many TPDUs as T=0    *)
(* needs; below that a driver exchanges one TPDU with the card, or times   *)
(* out and leaves an answer in the line.                                   *)
(*                                                                         *)
(* Data is a sequence of parts, a part names the call it answers (0: a     *)
(* FETCH) and counts; a status word is its first byte and what its second  *)
(* one counts.                                                             *)
(***************************************************************************)
EXTENDS Naturals, Sequences, FiniteSets, SequencesExt

CONSTANTS
    Driver,         \* which driver: "pcsc", "modem" or "calypso"
    MaxCalls,       \* bound: commands of the caller
    MaxProactive,   \* bound: proactive commands the card issues
    MaxFaults,      \* bound: timeouts of the driver
    MaxSize,        \* bound: parts of a response
    MaxPart         \* parts the card gives in one T=0 response

ASSUME TransportAssumption ==
    /\ Driver \in {"pcsc", "modem", "calypso"}
    /\ {MaxCalls, MaxProactive, MaxFaults, MaxSize} \subseteq Nat
    /\ MaxPart \in Nat \ {0}

VARIABLES
    link,       \* the LinkBase: protocol, proactive_handler (present or not), apdu_strict
    stack,      \* the calls of send_apdu_checksw in progress, the outermost first
    io,         \* the send_apdu in progress
    line,       \* what the driver could read, of answers that came too late
    coming,     \* late answers that are still on their way
    overtaken,  \* whether one of them was read as the answer to a TPDU of this call
    calls,      \* number of commands the caller has sent
    outcome,    \* what the caller was last given
    card,       \* the card
    faults      \* timeouts so far

vars == <<link, stack, io, line, coming, overtaken, calls, outcome, card, faults>>

-----------------------------------------------------------------------------
(***************************************************************************)
(* Status words, APDUs, TPDUs.                                             *)
(***************************************************************************)
SW(first, n) == [first |-> first, n |-> n]
Success == SW("90", 0)
Error   == SW("6f", 0)

\* A command of the caller; size is the length of the response the card has for
\* it, le what the caller asks for (0: whatever there is), want the pattern its
\* status word is checked against, "none" after a plain send_apdu.
Command(id, case, size, le, want) ==
    [ins |-> "command", id |-> id, case |-> case, size |-> size, le |-> le, want |-> want]
FetchCommand(n) ==
    [ins |-> "fetch", id |-> 0, case |-> 2, size |-> 1, le |-> n, want |-> "9000"]
TerminalResponse(pcmd) ==
    [ins |-> "terminal_response", id |-> pcmd, case |-> 3, size |-> 0, le |-> 0, want |-> "none"]
GetResponse(apdu, n) == [apdu EXCEPT !.ins = "get_response", !.le = n]

Response(apdu) == [i \in 1 .. apdu.size |-> <<apdu.id, i>>]

sw_match(sw, pattern) ==
    \/ pattern = "9000" /\ sw = Success
    \/ pattern = "9xxx" /\ sw.first \in {"90", "91"}

Idle == [at |-> "idle"]

-----------------------------------------------------------------------------
(***************************************************************************)
(* The card (ETSI TS 102 221 7.3.1, 7.4.2): avail is what GET RESPONSE may *)
(* fetch, queue the proactive commands not yet fetched, fetched the one    *)
(* that waits for its TERMINAL RESPONSE, executed how often each command   *)
(* was carried out, answered the proactive commands that were answered.    *)
(***************************************************************************)
NewCard == [avail |-> <<>>, queue |-> <<>>, fetched |-> 0, issued |-> 0,
            executed |-> [i \in 1 .. MaxCalls |-> 0], answered |-> <<>>]

\* "the command succeeded": announces a proactive command, unless one is being answered
Done(c) == IF c.queue # <<>> /\ c.fetched = 0 THEN SW("91", 1) ELSE Success

\* After a command or a terminal response the card may have one more thing to ask.
Asking(c) ==
    {c} \cup IF c.issued < MaxProactive
             THEN {[c EXCEPT !.issued = @ + 1, !.queue = Append(@, c.issued + 1)]} ELSE {}

Answer(c, data, sw) == [card |-> c, data |-> data, sw |-> sw]
Carried(c, id) == [c EXCEPT !.executed[id] = @ + 1]

\* the next parts of a response, and what the status word says about the rest
Given(c, avail, n) ==
    LET rest == SubSeq(avail, n + 1, Len(avail))
        left == [c EXCEPT !.avail = rest]
    IN  Answer(left, SubSeq(avail, 1, n),
               IF rest = <<>> THEN Done(left)
                              ELSE SW("61", IF Len(rest) < MaxPart THEN Len(rest) ELSE MaxPart))

\* A response of which the card announces what the first GET RESPONSE may fetch.
Announced(c, apdu) ==
    LET ready == [c EXCEPT !.avail = Response(apdu)]
    IN  {Answer(ready, <<>>, SW("61", IF apdu.size < MaxPart THEN apdu.size ELSE MaxPart)),
         Answer(ready, <<>>, SW("62", MaxSize + 1))}

CommandAnswers(c0, tpdu, protocol) ==
    LET c == [c0 EXCEPT !.avail = <<>>]
        all == Response(tpdu)
        short == tpdu.case = 2 /\ protocol = 0 /\ tpdu.le # tpdu.size
    IN  IF short /\ tpdu.size > 0 THEN {Answer(c, <<>>, SW("6c", tpdu.size))}
        ELSE {Answer(Carried(c, tpdu.id), <<>>, Error)}
             \cup UNION {IF protocol = 0 /\ tpdu.case \in {3, 4} /\ tpdu.size > 0
                         THEN Announced(d, tpdu)
                         ELSE {Answer(d, all, Done(d)), Answer(d, all, SW("62", MaxSize + 1))}
                         : d \in Asking(Carried(c, tpdu.id))}

GetResponseAnswers(c, n) ==
    {IF c.avail = <<>> THEN Answer(c, <<>>, Error)
     ELSE IF n > Len(c.avail) THEN Answer(c, <<>>, SW("6c", Len(c.avail)))
     ELSE Given(c, c.avail, n)}

FetchAnswers(c0) ==
    LET c == [c0 EXCEPT !.avail = <<>>]
    IN  IF c.queue = <<>> \/ c.fetched # 0 THEN {Answer(c, <<>>, Error)}
        ELSE {Answer([c EXCEPT !.fetched = Head(c.queue), !.queue = Tail(@)],
                     <<<<0, Head(c.queue)>>>>, Success), Answer(c, <<>>, Error)}

TerminalResponseAnswers(c0, pcmd) ==
    LET c == [c0 EXCEPT !.avail = <<>>]
    IN  IF c.fetched # pcmd THEN {Answer(c, <<>>, Error)}
        ELSE {Answer(d, <<>>, Done(d)) :
                d \in Asking([c EXCEPT !.fetched = 0, !.answered = Append(@, pcmd)])}

CardAnswers(c, tpdu, protocol) ==
    CASE tpdu.ins = "command"           -> CommandAnswers(c, tpdu, protocol)
      [] tpdu.ins = "get_response"      -> GetResponseAnswers(c, tpdu.le)
      [] tpdu.ins = "fetch"             -> FetchAnswers(c)
      [] tpdu.ins = "terminal_response" -> TerminalResponseAnswers(c, tpdu.id)

-----------------------------------------------------------------------------
(***************************************************************************)
(* The driver's send_tpdu and the lines below it.  The serial link of a    *)
(* modem is flushed before a command is written to it, which removes what  *)
(* has arrived; the socket of osmocon is not.  Either hands over first     *)
(* what comes first, and nothing in an answer tells whose it is.           *)
(***************************************************************************)
LineBefore_NotFlushed == line

LineBefore == IF Driver = "modem" THEN <<>> ELSE line

Received(ans) == [data |-> ans.data, sw |-> ans.sw]

\* A late answer reaches the driver.
Arrives ==
    /\ coming # <<>>
    /\ line' = Append(line, Head(coming))
    /\ coming' = Tail(coming)
    /\ UNCHANGED <<link, stack, io, overtaken, calls, outcome, card, faults>>

-----------------------------------------------------------------------------
(***************************************************************************)
(* LinkBaseTpdu._send_apdu: a TPDU to send, the one sent before it, the    *)
(* data so far.                                                            *)
(***************************************************************************)
_send_apdu(apdu) == [at |-> "send", apdu |-> apdu, tpdu |-> apdu, data |-> <<>>, again |-> FALSE]

\* After an answer: GET RESPONSE while the status word says that there is more,
\* then once more with the length the card asks for.
\* ("61" also stands for the 9fxx of a SIM, "62" for 63xx).
MoreToFetch_AnyError(sw) == sw.first \in {"61", "62", "6f"}
MoreToFetch(sw) == sw.first \in {"61", "62"}

AfterAnswer_FirstTpdu(req, data, sw) ==
    LET finished == [at |-> "done", apdu |-> req.apdu, data |-> data, sw |-> sw]
    IN  IF link.protocol = 1 \/ req.again THEN finished
        ELSE IF MoreToFetch(sw)
        THEN [req EXCEPT !.tpdu = GetResponse(req.apdu, sw.n), !.data = data]
        ELSE IF sw.first = "6c"
        THEN [req EXCEPT !.tpdu = [req.apdu EXCEPT !.le = sw.n], !.data = <<>>, !.again = TRUE]
        ELSE finished

AfterAnswer(req, data, sw) ==
    LET finished == [at |-> "done", apdu |-> req.apdu, data |-> data, sw |-> sw]
    IN  IF link.protocol = 1 \/ req.again THEN finished
        ELSE IF MoreToFetch(sw)
        THEN [req EXCEPT !.tpdu = GetResponse(req.apdu, sw.n), !.data = data]
        ELSE IF sw.first = "6c"
        THEN [req EXCEPT !.tpdu = [req.tpdu EXCEPT !.le = sw.n], !.data = <<>>, !.again = TRUE]
        ELSE finished

send_tpdu ==
    /\ io.at = "send"
    /\ \E ans \in CardAnswers(card, io.tpdu, link.protocol) :
          LET arriving == LineBefore \o Append(coming, Received(ans))
              first == Head(arriving)
          IN  /\ card' = ans.card
              /\ line' = <<>>
              /\ coming' = Tail(arriving)
              /\ overtaken' = (overtaken \/ coming # <<>>)
              /\ io' = AfterAnswer(io, io.data \o first.data, first.sw)
    /\ UNCHANGED <<link, stack, calls, outcome, faults>>

-----------------------------------------------------------------------------
(***************************************************************************)
(* send_apdu_checksw.  A frame of stack: the APDU, rv (data and sw) and    *)
(* last_sw, the proactive command it handles; at says what it waits for.   *)
(***************************************************************************)
Frame(apdu) == [apdu |-> apdu, at |-> "command", data |-> <<>>, sw |-> Success,
                last |-> Success, pcmd |-> 0]
Top == Last(stack)
Replaced(frame) == Append(Front(stack), frame)
Result(how, apdu, data, sw) == [how |-> how, call |-> apdu.id, want |-> apdu.want,
                                size |-> apdu.size, data |-> data, sw |-> sw]

\* An exception leaves all calls in progress: none of them catches any.
Raised(how) ==
    /\ stack' = <<>>
    /\ io' = Idle
    /\ outcome' = Result(how, Head(stack).apdu, <<>>, Error)

\* The caller's command.
Call ==
    \E case \in 1 .. 4, size \in 0 .. MaxSize, any \in BOOLEAN, want \in {"9000", "9xxx", "none"} :
        /\ stack = <<>>
        /\ calls < MaxCalls
        /\ case = 1 => size = 0
        /\ any => case = 2
        /\ LET apdu == Command(calls + 1, case, size, IF any THEN 0 ELSE size, want)
           IN  stack' = <<Frame(apdu)>> /\ io' = _send_apdu(apdu)
        /\ calls' = calls + 1
        /\ overtaken' = FALSE
        /\ UNCHANGED <<link, line, coming, outcome, card, faults>>

\* data that the APDU's case does not provide for
Unexpected == io.data # <<>> /\ io.apdu.case \in {1, 3}

send_apdu_returns_Satisfied ==
    /\ io.at = "done"
    /\ IF link.apdu_strict /\ Unexpected
       THEN Raised("ValueError")
       ELSE /\ io' = Idle
            /\ stack' = Replaced(IF Top.at = "command"
                                 THEN [Top EXCEPT !.at = "loop", !.data = io.data, !.sw = io.sw,
                                                  !.last = io.sw]
                                 ELSE [Top EXCEPT !.at = "loop", !.last = Success])
            /\ UNCHANGED outcome
    /\ UNCHANGED <<link, line, coming, overtaken, calls, card, faults>>

\* send_apdu has an answer; unexpected data is refused if the user wants it so.
send_apdu_returns ==
    /\ io.at = "done"
    /\ IF link.apdu_strict /\ Unexpected
       THEN Raised("ValueError")
       ELSE /\ io' = Idle
            /\ stack' = Replaced(IF Top.at = "command"
                                 THEN [Top EXCEPT !.at = "loop", !.data = io.data, !.sw = io.sw,
                                                  !.last = io.sw]
                                 ELSE [Top EXCEPT !.at = "loop", !.last = io.sw])
            /\ UNCHANGED outcome
    /\ UNCHANGED <<link, line, coming, overtaken, calls, card, faults>>

AtLoop == stack # <<>> /\ io = Idle /\ Top.at = "loop"
Announces(frame) == frame.apdu.want = "9000" /\ frame.last.first = "91"

\* The command was successful after all; what it announces is fetched by a call of
\* the same method.
Fetch ==
    /\ AtLoop
    /\ Announces(Top)
    /\ LET apdu == FetchCommand(Top.last.n)
       IN  /\ stack' = Append(Replaced([Top EXCEPT !.sw = Success, !.at = "fetch"]), Frame(apdu))
           /\ io' = _send_apdu(apdu)
    /\ UNCHANGED <<link, line, coming, overtaken, calls, outcome, card, faults>>

Return ==
    /\ AtLoop
    /\ Len(stack) = 1
    /\ ~Announces(Top)
    /\ Top.apdu.want = "none" \/ sw_match(Top.sw, Top.apdu.want)
    /\ outcome' = Result("returned", Top.apdu, Top.data, Top.sw)
    /\ stack' = <<>>
    /\ UNCHANGED <<link, io, line, coming, overtaken, calls, card, faults>>

RaiseSwMatchError ==
    /\ AtLoop
    /\ ~Announces(Top)
    /\ Top.apdu.want # "none" /\ ~sw_match(Top.sw, Top.apdu.want)
    /\ Raised("SwMatchError")
    /\ UNCHANGED <<link, line, coming, overtaken, calls, card, faults>>

\* The FETCH has returned: the handler sees the proactive command, and what it
\* (or prepare_response) makes of it goes back in a TERMINAL RESPONSE.
FetchReturns ==
    /\ AtLoop
    /\ Len(stack) > 1
    /\ ~Announces(Top)
    /\ sw_match(Top.sw, Top.apdu.want)
    /\ LET below == Last(Front(stack))
       IN  \/ /\ link.proactive_handler
              /\ Top.data # <<>> /\ Head(Top.data)[1] = 0
              /\ LET pcmd == Head(Top.data)[2]
                 IN  /\ stack' = Append(Front(Front(stack)),
                                        [below EXCEPT !.at = "response", !.pcmd = pcmd])
                     /\ io' = _send_apdu(TerminalResponse(pcmd))
              /\ UNCHANGED outcome
           \/ \* no proactive command, no handler, one that does not know the
              \* command, or a response that cannot be encoded
              Raised("exception")
    /\ UNCHANGED <<link, line, coming, overtaken, calls, card, faults>>

\* The driver gives up: the reader is gone, or the answer does not come in time,
\* or comes together with an earlier one.  The card may have received the TPDU,
\* and its answer may come later.
Timeout ==
    /\ io.at = "send"
    /\ faults < MaxFaults
    /\ faults' = faults + 1
    /\ Raised("ReaderError")
    /\ line' = LineBefore
    /\ \/ UNCHANGED <<card, coming>>
       \/ \E ans \in CardAnswers(card, io.tpdu, link.protocol) :
             /\ card' = ans.card
             /\ coming' \in {coming, <<>>} \cup
                    IF Driver = "pcsc" THEN {} ELSE {Append(coming, Received(ans))}
    /\ UNCHANGED <<link, overtaken, calls>>

Init ==
    /\ link \in [protocol : {0, 1}, proactive_handler : BOOLEAN, apdu_strict : BOOLEAN]
    /\ stack = <<>> /\ io = Idle
    /\ line = <<>> /\ coming = <<>> /\ overtaken = FALSE
    /\ calls = 0 /\ faults = 0
    /\ outcome = [how |-> "none"]
    /\ card = NewCard

Next == Call \/ send_tpdu \/ send_apdu_returns \/ Fetch \/ FetchReturns \/ Return
        \/ RaiseSwMatchError \/ Timeout \/ Arrives

\* The process runs on once a command was sent; whether and when there is another
\* command, and whether a driver gives up, is not its choice.
Spec == Init /\ [][Next]_vars
             /\ WF_vars(send_tpdu) /\ WF_vars(send_apdu_returns) /\ WF_vars(Fetch)
             /\ WF_vars(FetchReturns) /\ WF_vars(Return) /\ WF_vars(RaiseSwMatchError)

-----------------------------------------------------------------------------
(* What a caller is given as a success is the whole response to its own
   command, in order, and the card has carried that command out: whatever GET
   RESPONSE, wrong length, proactive command or timeout there was on the way
   (__init__.py:184-323). *)
IsAnswer ==
    outcome.how = "returned" /\ outcome.sw.first \in {"90", "91"}
        => /\ outcome.data = [i \in 1 .. outcome.size |-> <<outcome.call, i>>]
           /\ card.executed[outcome.call] = 1

(* With a modem this is so of every call during which no late answer came in
   behind the flush, also after calls for which it is not: what has arrived when
   a command is written is not read as its answer (modem_atcmd.py:64: "Clean
   input buffer from previous/unexpected data").  The buffer is clean, but what
   is on its way comes in behind the flush. *)
AnswerOfCommand == ~overtaken /\ outcome.how = "returned" /\ outcome.call = calls => IsAnswer

(* However often its TPDU is repeated, and whatever fails on the way, the card
   carries a command out at most once (__init__.py:310-321), unless an answer to
   another one was read. *)
ExecutedOnce == ~overtaken /\ calls > 0 => card.executed[calls] <= 1

(* A checked command that returns leaves no proactive command that it fetched
   without a TERMINAL RESPONSE, and none that the card would announce next
   (__init__.py:199-241), unless an answer to another one was read. *)
ProactiveAnswered ==
    [][Return /\ Top.apdu.want = "9000" /\ ~overtaken
        => /\ Top.pcmd # 0 => card.fetched # Top.pcmd
           /\ card.fetched = 0 => card.queue = <<>>]_vars

(* Every call of the caller comes back, with an answer or an exception: the loops
   over GET RESPONSE, wrong lengths and FETCH end (__init__.py:199, 310). *)
CallsReturn == (stack # <<>>) ~> (stack = <<>>)

=============================================================================
