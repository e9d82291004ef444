----------------------------- MODULE TextParser -----------------------------
(* The incremental parsers of the text protocol, TextServerProtocolParser of *)
(* server/protocol.go and TextClientProtocolParser of client/protocol.go, as *)
(* functions of a parser record. They are the same but for how a message     *)
(* starts. A byte is a one character string; an argument a sequence of them. *)
EXTENDS Integers, Sequences, SequencesExt

CR == "\r"
LF == "\n"
NONE == "none"

Digits == <<"0", "1", "2", "3", "4", "5", "6", "7", "8", "9">>
IsDigit(b) == \E i \in DOMAIN Digits : Digits[i] = b
DigitValue(b) == (CHOOSE i \in DOMAIN Digits : Digits[i] = b) - 1

IsNumber(ds) == ds # <<>> /\ \A i \in DOMAIN ds : IsDigit(ds[i])
Number(ds) ==
  LET value[i \in 0..Len(ds)] == IF i = 0 THEN 0 ELSE 10 * value[i - 1] + DigitValue(ds[i])
  IN value[Len(ds)]

Decimal(n) ==
  LET digits[m \in 0..n] ==
        IF m < 10 THEN <<Digits[m + 1]>> ELSE Append(digits[m \div 10], Digits[(m % 10) + 1])
  IN digits[n]

\* buf is what is left of the chunk that was read, last the byte before it.
NewParser ==
  [stage |-> 0, args_count |-> 0, args |-> <<>>, carg |-> <<>>, carg_index |-> 0, carg_len |-> 0,
   arg_type |-> 0, buf |-> <<>>, last |-> NONE, error |-> FALSE]

\* A chunk is read into an empty buffer.
Fed(p, chunk) == [p EXCEPT !.buf = chunk, !.last = NONE]

Failed(p) == [p EXCEPT !.error = TRUE]
Took(p) == [p EXCEPT !.buf = Tail(@), !.last = Head(p.buf)]
EndsWrong_AtStart(p) == p.last # CR

\* A line ends in CR LF; at the start of a chunk the CR is not looked for.
EndsWrong(p) == p.last \notin {CR, NONE}
-----------------------------------------------------------------------------
(* One turn of Parse's loop, by stage.                                       *)

\* The server's messages start with *.
ServerStart(p) ==
  IF Head(p.buf) = "*" THEN [Took(p) EXCEPT !.stage = 1] ELSE Failed(p)

ClientStart(p) ==
  CASE Head(p.buf) = "+" -> [Took(p) EXCEPT !.stage = 5, !.arg_type = 1, !.args_count = 0,
                                            !.args = Append(@, <<>>)]
    [] Head(p.buf) = "-" -> [Took(p) EXCEPT !.stage = 5, !.arg_type = 2, !.args_count = 0,
                                            !.args = Append(@, <<>>)]
    [] Head(p.buf) = "$" -> [Took(p) EXCEPT !.stage = 3, !.arg_type = 3]
    [] Head(p.buf) = "*" -> [Took(p) EXCEPT !.stage = 1, !.arg_type = 4]
    [] OTHER -> Failed(p)

\* A line with a number, in carg until the line ends: stages 1 and 3.
NumberLine(p, finished) ==
  CASE Head(p.buf) = LF ->
         IF EndsWrong(p) \/ ~IsNumber(p.carg) THEN Failed(p) ELSE finished
    [] Head(p.buf) = CR -> Took(p)
    [] OTHER -> [Took(p) EXCEPT !.carg = Append(@, Head(p.buf))]

ArgsCount(p) ==
  NumberLine(p, [Took(p) EXCEPT !.args_count = Number(p.carg), !.carg = <<>>, !.stage = 2])

ArgStart(p) == IF Head(p.buf) = "$" THEN [Took(p) EXCEPT !.stage = 3] ELSE Failed(p)

ArgLen(p) ==
  NumberLine(p, [Took(p) EXCEPT !.carg_len = Number(p.carg), !.carg = <<>>, !.stage = 4])

\* The bytes of an argument, which may come in several chunks. When the rest has
\* come carg_index is the length of the rest, not of the argument.
Missing(p) == p.carg_len - p.carg_index

WithBytes(p, n) ==
  [p EXCEPT !.args = IF p.carg_index = 0 THEN Append(p.args, SubSeq(p.buf, 1, n))
                     ELSE [p.args EXCEPT ![Len(p.args)] = @ \o SubSeq(p.buf, 1, n)],
            !.buf = SubSeq(@, n + 1, Len(@)),
            !.last = p.buf[n]]

ArgBytes_Restarted(p) ==
  IF Missing(p) <= 0 THEN p
  ELSE IF Len(p.buf) < Missing(p)
    THEN [WithBytes(p, Len(p.buf)) EXCEPT !.carg_index = Len(p.buf)]
    ELSE [WithBytes(p, Missing(p)) EXCEPT !.carg_index = Missing(p)]

ArgBytes(p) ==
  IF Missing(p) <= 0 THEN p
  ELSE IF Len(p.buf) < Missing(p)
    THEN [WithBytes(p, Len(p.buf)) EXCEPT !.carg_index = @ + Len(p.buf)]
    ELSE [WithBytes(p, Missing(p)) EXCEPT !.carg_index = Missing(p)]

MoreArgs_One(p) == Len(p.args) <= p.args_count

MoreArgs(p) == Len(p.args) < p.args_count

\* Whatever comes before the end of the line is skipped.
ArgEnd(p) ==
  LET ends == {i \in DOMAIN p.buf : p.buf[i] = LF}
      i == CHOOSE i \in ends : \A j \in ends : i <= j
      before == IF i = 1 THEN p.last ELSE p.buf[i - 1]
  IN IF ends = {} THEN [p EXCEPT !.buf = <<>>]
     ELSE IF EndsWrong([p EXCEPT !.last = before]) THEN Failed(p)
     ELSE [p EXCEPT !.buf = SubSeq(@, i + 1, Len(@)), !.last = LF, !.carg_index = 0, !.carg_len = 0,
                    !.stage = IF MoreArgs(p) THEN 2 ELSE 0]

Arg(p) == ArgEnd(ArgBytes(p))

Message(p) ==
  CASE Head(p.buf) = LF -> IF EndsWrong(p) THEN Failed(p) ELSE [Took(p) EXCEPT !.stage = 0]
    [] Head(p.buf) = CR -> Took(p)
    [] OTHER -> [Took(p) EXCEPT !.args = [p.args EXCEPT ![1] = Append(@, Head(p.buf))]]

Parsed(p, start) ==
  CASE p.stage = 0 -> start [] p.stage = 1 -> ArgsCount(p) [] p.stage = 2 -> ArgStart(p)
    [] p.stage = 3 -> ArgLen(p) [] p.stage = 4 -> Arg(p) [] OTHER -> Message(p)

\* The argument is complete, the end of its line is not there yet, and what is
\* missing by carg_index is not 0: more will be taken for the argument.
MisCounted(p) ==
  /\ p.stage = 4 /\ p.args # <<>> /\ p.carg_index > 0
  /\ Len(Last(p.args)) = p.carg_len /\ Missing(p) > 0

Cleared(p) == [p EXCEPT !.args = <<>>, !.args_count = 0]
-----------------------------------------------------------------------------
(* Build of the two parsers.                                                 *)

BuildArg(arg) == <<"$">> \o Decimal(Len(arg)) \o <<CR, LF>> \o arg \o <<CR, LF>>

BuildArgs(args) ==
  LET buf[i \in 0..Len(args)] ==
        IF i = 0 THEN <<"*">> \o Decimal(Len(args)) \o <<CR, LF>> ELSE buf[i - 1] \o BuildArg(args[i])
  IN buf[Len(args)]

BuildReply(success, message, results) ==
  IF ~success THEN <<"-">> \o message \o <<CR, LF>>
  ELSE IF results = <<>> THEN <<"+">> \o message \o <<CR, LF>>
  ELSE IF Len(results) = 1 THEN BuildArg(results[1])
  ELSE BuildArgs(results)
=============================================================================
