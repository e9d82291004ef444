---------------------------- MODULE TextSession ----------------------------
(* A session of the text protocol (TextServerProtocol of server/protocol.go) *)
(* and the client at its other end (TextClientProtocol of client/protocol.go): *)
(* a client builds a command, the server reads it in chunks of any size,     *)
(* parses it, runs its handler and writes a reply, which the client reads in *)
(* chunks. The handlers of LOCK and UNLOCK wait on lock_waiter for a result  *)
(* that the session's own goroutine or, when the lock was waiting, another   *)
(* one puts there. The database is LockDB, reduced to what it answers.       *)
EXTENDS TextParser, FiniteSets

CONSTANTS Bytes,     \* what arguments consist of
          Scripts,   \* the sequences of commands a client may send
          MaxLines,  \* bound: the most commands of a script
          MaxChunk   \* bound: the most bytes one read returns

\* Requests are numbered as their commands are.
Lines == 1..MaxLines

\* A command has arguments, and each of them bytes: the parser appends an argument
\* with its first bytes, and would leave an empty one out.
Command == Seq(Seq(Bytes) \ {<<>>}) \ {<<>>}

ASSUME TextConstants ==
  MaxLines \in Nat /\ MaxChunk \in Nat \ {0} /\ \A s \in Scripts : s \in Seq(Command) /\ Len(s) \in Lines

VARIABLES
  script,            \* the commands of the client, and how many were sent
  sent,
  toServer, toClient,\* the bytes on their way
  parser,            \* of the server
  reader,            \* the client's parser
  replies,           \* the replies the session has written
  results,           \* and what Read returned for them
  at,                \* where the session's goroutine is
  request,           \* the request id of the command in hand, 0 for none
  lock_request_id, lock_id, lock_waiter, db_id,
  lock,              \* what the database has of a request's lock
  owed,              \* the session's goroutine has still to give the result
  taken,             \* history: the requests and results handlers took
  miscounted,        \* history: an argument was counted wrongly, see MisCounted
  overtaken,         \* history: a lease ended before LOCK's result was given
  stale              \* history: a reply was parsed after what an earlier one left

stream == <<script, sent, toServer, toClient, replies, results, reader>>
answer == <<lock_request_id, lock_waiter>>
vars == <<stream, parser, at, request, answer, lock_id, db_id, lock, owed, taken, miscounted,
          overtaken, stale>>

LOCK == <<"L", "O", "C">>
UNLOCK == <<"U", "N", "L">>
SELECT == <<"S", "E", "L">>
ECHO == <<"E", "C", "H">>
PING == <<"P", "I">>
QUIT == <<"Q", "U">>
LOCK_ID == <<"L", "I", "D">>
OK == <<"O", "K">>
ERR == <<"E", "R">>
PONG == <<"P">>
UNKNOWN_DB == <<"9">>    \* stands for 255

TypeOK ==
  /\ script \in Scripts /\ sent \in 0..Len(script)
  /\ at \in {"read", "parse", "run", "wait", "end"}
  /\ request \in 0..Len(script) /\ lock_request_id \in 0..Len(script) /\ lock_id \in 0..Len(script)
  /\ Len(lock_waiter) <= 4
  /\ lock \in [Lines -> {"none", "waiting", "woken", "lapsed", "held", "gone"}]
  /\ ~parser.error /\ (stale \/ ~reader.error)
-----------------------------------------------------------------------------
(* The client.                                                               *)

Send ==
  /\ sent < Len(script) /\ Len(results) = sent
  /\ toServer' = BuildArgs(script[sent + 1]) /\ sent' = sent + 1
  /\ UNCHANGED <<script, toClient, replies, results, reader, parser, at, request, answer, lock_id,
                 db_id, lock, owed, taken, miscounted, overtaken, stale>>

Chunk(line, n) == n \in 1..MaxChunk /\ n <= Len(line)
Rest(line, n) == SubSeq(line, n + 1, Len(line))

ReadReply(n) ==
  /\ reader.buf = <<>> /\ Chunk(toClient, n)
  /\ reader' = Fed(reader, SubSeq(toClient, 1, n)) /\ toClient' = Rest(toClient, n)
  /\ UNCHANGED <<script, sent, toServer, replies, results, parser, at, request, answer, lock_id,
                 db_id, lock, owed, taken, miscounted, overtaken, stale>>

\* ArgsToLockComandResult wants pairs, and first the number of the result.
ResultError(args) == Len(args) < 2 \/ Len(args) % 2 # 0 \/ ~IsNumber(args[1])

\* What Read returns for a reply: an array is a result or an error, every other
\* reply is an error, and only that of - carries what was replied.
ResultOf(p) ==
  [error |-> p.arg_type # 4 \/ ResultError(p.args),
   args |-> CASE p.arg_type = 4 -> p.args [] p.arg_type = 2 -> <<p.args[1]>> [] OTHER -> <<>>]

\* One turn of Read's loop. Only an array is cleared from the parser: after any
\* other reply its arguments are still there when the next one starts.
ParseReply ==
  /\ reader.buf # <<>> /\ ~reader.error
  /\ LET p == Parsed(reader, ClientStart(reader))
     IN /\ results' = IF p.stage = 0 THEN Append(results, ResultOf(p)) ELSE results
        /\ reader' = IF p.stage = 0 /\ p.arg_type = 4 THEN Cleared(p) ELSE p
  /\ miscounted' = (miscounted \/ MisCounted(reader'))
  /\ stale' = (stale \/ (reader.stage = 0 /\ reader.args # <<>>))
  /\ UNCHANGED <<script, sent, toServer, toClient, replies, parser, at, request, answer, lock_id,
                 db_id, lock, owed, taken, overtaken>>
-----------------------------------------------------------------------------
(* Process: read when the buffer is used up, parse, run a complete command.  *)

ReadCommand(n) ==
  /\ at = "read" /\ Chunk(toServer, n)
  /\ parser' = Fed(parser, SubSeq(toServer, 1, n)) /\ toServer' = Rest(toServer, n)
  /\ at' = "parse"
  /\ UNCHANGED <<script, sent, toClient, replies, results, reader, request, answer, lock_id,
                 db_id, lock, owed, taken, miscounted, overtaken, stale>>

ParseCommand ==
  /\ at = "parse" /\ ~parser.error
  /\ parser' = Parsed(parser, ServerStart(parser))
  /\ at' = IF parser'.stage = 0 THEN "run" ELSE IF parser'.buf = <<>> THEN "read" ELSE "parse"
  /\ miscounted' = (miscounted \/ MisCounted(parser'))
  /\ UNCHANGED <<stream, request, answer, lock_id, db_id, lock, owed, taken, overtaken, stale>>

\* A handler writes its reply and is done with the command; after QUIT the
\* session reads no more.
Reply(bytes) ==
  /\ replies' = Append(replies, bytes)
  /\ toClient' = toClient \o bytes
  /\ parser' = Cleared(parser)
  /\ at' = IF parser.args[1] = QUIT THEN "end" ELSE IF parser.buf = <<>> THEN "read" ELSE "parse"
  /\ request' = 0
  /\ UNCHANGED <<script, sent, toServer, results, reader, miscounted, stale>>

Name == parser.args[1]
Done == Len(replies)

\* The reply of the handlers that do not wait, and of a name that has none.
OtherReply(args) ==
  CASE args[1] \in {ECHO, PING} /\ Len(args) = 2 -> BuildReply(TRUE, <<>>, Tail(args))
    [] args = <<PING>> -> BuildReply(TRUE, PONG, <<>>)
    [] args[1] = QUIT \/ (args[1] = SELECT /\ Len(args) >= 2) -> BuildReply(TRUE, OK, <<>>)
    [] OTHER -> BuildReply(FALSE, ERR, <<>>)

RunOther ==
  /\ at = "run" /\ Name \notin {LOCK, UNLOCK}
  /\ Reply(OtherReply(parser.args))
  /\ db_id' = IF Name = SELECT /\ Len(parser.args) >= 2 THEN parser.args[2] ELSE db_id
  /\ UNCHANGED <<answer, lock_id, lock, owed, taken, overtaken>>

\* ArgsToLockComand wants pairs, and 255 is no database.
Usable == Len(parser.args) % 2 = 0 /\ db_id # UNKNOWN_DB

\* LOCK and UNLOCK that do not get to a database. UNLOCK does not make one, and
\* before the session has used it nobody may have.
RunRefused ==
  /\ at = "run" /\ Name \in {LOCK, UNLOCK}
  /\ ~Usable \/ (Name = UNLOCK /\ taken = <<>>)
  /\ Reply(BuildReply(FALSE, ERR, <<>>))
  /\ UNCHANGED <<answer, lock_id, db_id, lock, owed, taken, overtaken>>
-----------------------------------------------------------------------------
(* ProcessLockResultCommand and ProcessLockResultCommandLocked.              *)

Given(r, result) ==
  /\ lock_waiter' = Append(lock_waiter, [request |-> r, result |-> result])
  /\ lock_request_id' = 0

Expected_Any(r) == TRUE

\* Another goroutine's result counts only for the request in hand.
Expected(r) == r = lock_request_id

GivenLocked(r, result) ==
  IF Expected(r) THEN Given(r, result) ELSE UNCHANGED answer

\* LOCK: the database grants, refuses or keeps it waiting.
RunLock ==
  /\ at = "run" /\ Name = LOCK /\ Usable
  /\ request' = Done + 1 /\ at' = "wait"
  /\ \/ lock' = [lock EXCEPT ![Done + 1] = "held"] /\ owed' = "0"
        /\ lock_request_id' = Done + 1 /\ UNCHANGED lock_waiter
     \/ /\ UNCHANGED <<lock, owed>>
        /\ Given(Done + 1, "1")
     \/ /\ lock' = [lock EXCEPT ![Done + 1] = "waiting"] /\ UNCHANGED owed
        /\ lock_request_id' = Done + 1 /\ UNCHANGED lock_waiter
  /\ UNCHANGED <<stream, parser, lock_id, db_id, taken, miscounted, overtaken, stale>>

\* The lock was granted before, under the manager's glock; the result follows.
GiveOwed ==
  /\ at = "wait" /\ owed # "none"
  /\ Given(request, owed) /\ owed' = "none"
  /\ UNCHANGED <<stream, parser, at, request, lock_id, db_id, lock, taken, miscounted, overtaken, stale>>

\* UNLOCK without LOCK_ID names the session's lock_id.
RunUnlock ==
  /\ at = "run" /\ Name = UNLOCK /\ Usable
  /\ request' = Done + 1 /\ at' = "wait"
  /\ LET held == lock_id # 0 /\ lock[lock_id] = "held"
     IN /\ lock' = IF held THEN [lock EXCEPT ![lock_id] = "gone"] ELSE lock
        /\ Given(Done + 1, IF held THEN "0" ELSE "1")
  /\ UNCHANGED <<stream, parser, lock_id, db_id, owed, taken, miscounted, overtaken, stale>>

\* Another session's UNLOCK wakes the waiting LOCK; its result follows, when the
\* lease may have lapsed.
WakeUp(r) ==
  /\ lock[r] = "waiting" /\ lock' = [lock EXCEPT ![r] = "woken"]
  /\ UNCHANGED <<stream, parser, at, request, answer, lock_id, db_id, owed, taken, miscounted, overtaken, stale>>

GiveWoken(r) ==
  /\ lock[r] \in {"woken", "lapsed"}
  /\ lock' = [lock EXCEPT ![r] = IF @ = "woken" THEN "held" ELSE "gone"]
  /\ GivenLocked(r, "0")
  /\ UNCHANGED <<stream, parser, at, request, lock_id, db_id, owed, taken, miscounted, overtaken, stale>>

DoTimeOut(r) ==
  /\ lock[r] = "waiting" /\ lock' = [lock EXCEPT ![r] = "gone"]
  /\ GivenLocked(r, "1")
  /\ UNCHANGED <<stream, parser, at, request, lock_id, db_id, owed, taken, miscounted, overtaken, stale>>

\* A lease may end at once, also before the result of the LOCK is given.
DoExpried(r) ==
  /\ lock[r] \in {"woken", "held"}
  /\ lock' = [lock EXCEPT ![r] = IF @ = "woken" THEN "lapsed" ELSE "gone"]
  /\ GivenLocked(r, "2")
  /\ overtaken' = (overtaken \/ (owed # "none" /\ request = r))
  /\ UNCHANGED <<stream, parser, at, request, lock_id, db_id, owed, taken, miscounted, stale>>

\* A LOCK that succeeds is the session's lock; an UNLOCK that succeeds leaves none.
LockIdAfter(result) ==
  IF result # "0" THEN lock_id ELSE IF Name = LOCK THEN request ELSE 0

\* ERROR_MSG
ErrorMsg(result) == IF result = "0" THEN OK ELSE ERR

\* The result goes into the reply with its message, as does LOCK_ID.
ResultArgs(got) == <<<<got.result>>, ErrorMsg(got.result), LOCK_ID, Decimal(got.request)>>

TakeResult ==
  /\ at = "wait" /\ lock_waiter # <<>> /\ owed = "none"
  /\ LET got == Head(lock_waiter)
     IN /\ taken' = Append(taken, [request |-> request, got |-> got])
        /\ lock_id' = LockIdAfter(got.result)
        /\ Reply(BuildReply(TRUE, <<>>, ResultArgs(got)))
  /\ lock_waiter' = Tail(lock_waiter)
  /\ UNCHANGED <<lock_request_id, db_id, lock, owed, overtaken>>
-----------------------------------------------------------------------------
Init ==
  /\ script \in Scripts /\ sent = 0 /\ toServer = <<>> /\ toClient = <<>>
  /\ parser = NewParser /\ reader = NewParser /\ replies = <<>> /\ results = <<>>
  /\ at = "read" /\ request = 0 /\ lock_request_id = 0 /\ lock_id = 0 /\ lock_waiter = <<>>
  /\ db_id = <<"0">> /\ lock = [r \in Lines |-> "none"] /\ owed = "none"
  /\ taken = <<>> /\ miscounted = FALSE /\ overtaken = FALSE /\ stale = FALSE

Session ==
  \/ (\E n \in 1..MaxChunk : ReadCommand(n)) \/ ParseCommand \/ RunOther \/ RunRefused \/ RunLock
  \/ RunUnlock \/ GiveOwed \/ TakeResult

Client == Send \/ (\E n \in 1..MaxChunk : ReadReply(n)) \/ ParseReply

Others == \E r \in Lines : WakeUp(r) \/ GiveWoken(r) \/ DoTimeOut(r) \/ DoExpried(r)

\* Bound: behaviours are followed until an argument is miscounted, a lease overtakes
\* a result or a reply is parsed after what is left of another.
Next == ~miscounted /\ ~overtaken /\ ~stale /\ (Session \/ Client \/ Others)

Spec == Init /\ [][Next]_vars

\* A waiting LOCK is granted or times out (LockDB).
FairSpec == Spec /\ WF_vars(Next)
-----------------------------------------------------------------------------
(* Properties.                                                               *)

\* However the bytes of a command are cut into reads, its handler runs with the
\* arguments the client gave it, commands run in the order they were sent, and
\* neither parser refuses what the other end has built.
CommandsAsSent ==
  /\ TypeOK
  /\ (at \in {"run", "wait"} /\ ~miscounted) => parser.args = script[Done + 1]

\* However a reply is cut into reads, the client gets what the session replied: the
\* result of LOCK and UNLOCK as it was written and never as an error, the message
\* of an error, and an error for the replies that Read has no result for.
RepliesAsWritten ==
  (~miscounted /\ ~stale) => \A i \in DOMAIN results :
    \/ ~results[i].error /\ replies[i] = BuildArgs(results[i].args)
    \/ /\ results[i].error /\ results[i].args # <<>>
       /\ replies[i] = BuildReply(FALSE, results[i].args[1], <<>>)
    \/ results[i].error /\ results[i].args = <<>> /\ Head(replies[i]) \in {"+", "$"}

\* A handler takes the result of its own command: not one of an earlier LOCK
\* whose lease has ended since, or that was given twice.
OwnResult ==
  ~overtaken => \A i \in DOMAIN taken : taken[i].got.request = taken[i].request

\* The lock the session got last is the one an UNLOCK without LOCK_ID gives back:
\* as long as it is held no refused, timed out or failed command in between makes
\* the session forget it.
UnlockFindsLock ==
  LET got == {i \in DOMAIN taken :
                /\ script[taken[i].request][1] = LOCK /\ taken[i].got.result = "0"
                /\ lock[taken[i].request] = "held"
                /\ \A j \in (i + 1)..Len(taken) : taken[j].got.result # "0"}
  IN \A i \in got : lock_id = taken[i].request

\* What a session knows of its locks is its own: the results and the lock.
SessionKeepsOwn == OwnResult /\ UnlockFindsLock

\* Every command gets its reply, a result or an error, whatever other goroutines do
\* with its lock.
CommandsReplied ==
  <>(Len(results) = Len(script) \/ miscounted \/ overtaken \/ stale)
=============================================================================
