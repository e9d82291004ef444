------------------------------- MODULE Codec -------------------------------
(* What becomes of a command and its result as bytes: a client writes        *)
(* commands of 64 bytes (client/protocol.go), the server reads them in parts *)
(* into rbuf, tells binary from text by the first read (server.go), parses   *)
(* LOCK and UNLOCK into pooled commands and writes results through one wbuf  *)
(* (server/protocol.go); a granted LOCK is recorded in the append only log   *)
(* and read back after a restart (server/aof.go). Buffers and pooled structs *)
(* keep what they held before. Two goroutines in wbuf are ServerSession's.   *)
EXTENDS Layout, SequencesExt

CONSTANTS
  Scripts,        \* the sequences of commands a client may send
  Answers,        \* results of LOCK and UNLOCK: Result, Lcount, Lrcount
  States,         \* of a database, for STATE
  Reads,          \* bound: how many bytes a read may return
  Moments,        \* bound: seconds until a lock is recorded, and until a restart
  Delays          \* bound: seconds until a record that was read is handled

IsLock(type) == type \in {COMMAND_LOCK, COMMAND_UNLOCK}

CommandLayout(type) ==
  CASE IsLock(type) -> LockCommand [] type = COMMAND_INIT -> InitCommand
    [] type = COMMAND_STATE -> StateCommand [] type = COMMAND_ADMIN -> AdminCommand
    [] type = COMMAND_PING -> PingCommand [] type = COMMAND_QUIT -> QuitCommand [] OTHER -> Command

\* The types a client reads results of, and how it reads them.
ResultTypes ==
  {COMMAND_LOCK, COMMAND_UNLOCK, COMMAND_INIT, COMMAND_STATE, COMMAND_ADMIN, COMMAND_PING, COMMAND_QUIT}

ResultLayout(type) ==
  CASE IsLock(type) -> LockResultCommand [] type = COMMAND_INIT -> InitResultCommand
    [] type = COMMAND_STATE -> StateResultCommand [] type = COMMAND_ADMIN -> AdminResultCommand
    [] type = COMMAND_PING -> PingResultCommand [] type = COMMAND_QUIT -> QuitResultCommand

Forever == 2147483647            \* 0x7fffffffffffffff in the code
StartTime == 100000              \* when the lock was granted

ASSUME CodecConstants ==
  /\ Reads \subseteq 1..64 /\ Reads # {}
  /\ \A s \in Scripts : /\ Len(s) \in Nat /\ DOMAIN s = 1..Len(s)
                        /\ \A i \in DOMAIN s : IsOf(CommandLayout(s[i].CommandType), s[i])
  /\ \A a \in Answers : Fits(a.Result, 1) /\ Fits(a.Lcount, 2) /\ Fits(a.Lrcount, 1)
  /\ \A s \in States : IsOf(Layout(StateFields, 64), s)
  /\ Moments \subseteq Nat /\ Delays \subseteq Nat

VARIABLES
  toServer, toClient,   \* bytes on their way
  client,               \* whether the client still reads
  at,                   \* where the session is
  rbuf, n,              \* its read buffer, and how much of it has come
  wbuf,
  pool,                 \* free LockCommands
  pending,              \* LOCK and UNLOCK the database has still to answer
  script,               \* the commands the client sends, and how many it has
  sent,
  parsed,               \* history: the commands the server parsed
  given, got,           \* history: results the server meant, and the client read
  lease, record         \* the first granted LOCK, and its record in the log

session == <<toServer, toClient, client, at, rbuf, n, wbuf, pool, pending, script, sent, parsed, given, got>>
vars == <<session, lease, record>>

Zeros == [i \in Positions |-> 0]
ZeroId == [i \in 1..16 |-> 0]
Message(buf) == [i \in 1..64 |-> buf[i - 1]]
None == [at |-> "none"]

TypeOK ==
  /\ toServer \in Seq(Byte) /\ toClient \in Seq(Byte) /\ Len(toClient) % 64 = 0
  /\ client \in {"open", "closed"} /\ at \in {"accept", "read", "parse", "text", "closed"}
  /\ rbuf \in [Positions -> Byte] /\ wbuf \in [Positions -> Byte] /\ n \in 0..64
  /\ sent \in 0..Len(script) /\ Len(parsed) <= sent /\ Len(got) <= Len(given)
  /\ lease.at \in {"none", "millisecond", "held", "over"}
  /\ record.at \in {"none", "queued", "written", "skipped", "passed", "loaded"}
-----------------------------------------------------------------------------
(* The client: Write encodes into a new buffer; Read takes 64 bytes, and a   *)
(* result it does not know is an error, for which the client's loop ends and *)
(* closes the connection.                                                    *)

IsBinary(buf) == buf[0] = MAGIC /\ buf[1] = VERSION

Known(buf) == IsBinary(buf) /\ buf[2] \in ResultTypes

Write ==
  /\ sent < Len(script) /\ at # "closed" /\ client = "open"
  /\ LET c == script[sent + 1]
     IN toServer' = toServer \o Message(Encoded(CommandLayout(c.CommandType), c, Zeros))
  /\ sent' = sent + 1
  /\ UNCHANGED <<script, toClient, client, at, rbuf, n, wbuf, pool, pending, parsed, given, got, lease, record>>

\* What is first on its way to the client.
ResultBuf == [i \in Positions |-> toClient[i + 1]]

ReadResult ==
  /\ client = "open" /\ Len(toClient) >= 64 /\ Known(ResultBuf)
  /\ got' = Append(got, Decoded(ResultLayout(ResultBuf[2]), ResultBuf))
  /\ toClient' = SubSeq(toClient, 65, Len(toClient))
  /\ UNCHANGED <<toServer, client, at, rbuf, n, wbuf, pool, pending, script, sent, parsed, given, lease, record>>

RefuseResult ==
  /\ client = "open" /\ Len(toClient) >= 64 /\ ~Known(ResultBuf)
  /\ client' = "closed"
  /\ UNCHANGED <<toServer, toClient, at, rbuf, n, wbuf, pool, pending, script, sent, parsed, given, got, lease, record>>
-----------------------------------------------------------------------------
(* CheckProtocol and Process: reading.                                       *)

\* A read returns what there is, at most what was asked for.
ReadSize(k, wanted) == IF k > wanted THEN wanted ELSE k

Received(buf, from, k) ==
  [i \in Positions |-> IF i \in from..(from + k - 1) THEN toServer[i - from + 1] ELSE buf[i]]

\* Only a first read of a whole command is a binary session. The text parser
\* refuses anything else at its first byte, unless that is an asterisk.
Asterisk == 42

CheckProtocol(r) ==
  /\ at = "accept" /\ r <= Len(toServer)
  /\ rbuf' = Received(Zeros, 0, r)
  /\ toServer' = SubSeq(toServer, r + 1, Len(toServer))
  /\ IF r = 64 /\ IsBinary(rbuf') THEN at' = "parse" /\ n' = 64
     ELSE at' = (IF rbuf'[0] = Asterisk THEN "text" ELSE "closed") /\ n' = 0
  /\ UNCHANGED <<toClient, client, wbuf, pool, pending, script, sent, parsed, given, got, lease, record>>

Wanted == 64 - n

Process(r) ==
  LET k == ReadSize(r, Wanted)
  IN /\ at = "read" /\ k <= Len(toServer)
     /\ rbuf' = Received(rbuf, n, k)
     /\ toServer' = SubSeq(toServer, k + 1, Len(toServer))
     /\ n' = n + k
     /\ at' = IF n' >= 64 THEN "parse" ELSE "read"
     /\ UNCHANGED <<toClient, client, wbuf, pool, pending, script, sent, parsed, given, got, lease, record>>
-----------------------------------------------------------------------------
(* ProcessParse, ProcessCommad and results.                                  *)

\* A result leaves through wbuf, which keeps what the encoder does not write.
Result(layout, result) ==
  /\ wbuf' = Encoded(layout, result, wbuf)
  /\ toClient' = toClient \o Message(wbuf')
  /\ given' = Append(given, result)

ResultOf(c, result) ==
  [Magic |-> MAGIC, Version |-> VERSION, CommandType |-> c.CommandType, RequestId |-> c.RequestId,
   Result |-> result]

LockResultOf(c, answer) ==
  And(ResultOf(c, answer.Result),
      [Flag |-> 0, DbId |-> c.DbId, LockId |-> c.LockId, LockKey |-> c.LockKey, Lcount |-> answer.Lcount,
       Count |-> c.Count, Lrcount |-> answer.Lrcount, Rcount |-> c.Rcount])

RESULT_UNKNOWN_MAGIC == 1
RESULT_UNKNOWN_VERSION == 2
RESULT_UNKNOWN_DB == 3
RESULT_UNKNOWN_COMMAND == 4
UnknownDB == [Result |-> RESULT_UNKNOWN_DB, Lcount |-> 0, Lrcount |-> 0]

NewLockCommand == [f \in DOMAIN LockCommand.fields |-> IF f \in Ids THEN ZeroId ELSE 0]

Pooled == IF pool = <<>> THEN NewLockCommand ELSE Last(pool)

\* LOCK and UNLOCK; UNLOCK of a database nobody has used is refused here.
ParseLock ==
  /\ at = "parse" /\ IsBinary(rbuf) /\ IsLock(rbuf[2])
  /\ LET c == DecodedOver(ParsedLockCommand, rbuf, Pooled)
     IN /\ parsed' = Append(parsed, c)
        /\ pool' = IF pool = <<>> THEN pool ELSE Front(pool)
        /\ \/ /\ c.DbId = 255 \/ c.CommandType = COMMAND_UNLOCK
              /\ Result(WrittenLockResult, LockResultOf(c, UnknownDB)) /\ UNCHANGED pending
           \/ /\ c.DbId # 255
              /\ pending' = Append(pending, c) /\ UNCHANGED <<wbuf, toClient, given>>
  /\ at' = "read" /\ n' = 0
  /\ UNCHANGED <<toServer, client, rbuf, script, sent, got, lease, record>>

Bit(flags, mask) == (flags \div mask) % 2
Unlimited(flags) == Bit(flags, 16384) = 1
Millisecond(flags) == Bit(flags, 1024) = 1

\* AddLock: the end of a lease. One of milliseconds has none yet.
ExpriedTime(c) ==
  IF ~Millisecond(c.ExpriedFlag) THEN StartTime + c.Expried + 1
  ELSE IF Unlimited(c.ExpriedFlag) THEN Forever ELSE 0

Lease(c) == [at |-> IF Millisecond(c.ExpriedFlag) THEN "millisecond" ELSE "held", command |-> c, end |-> ExpriedTime(c)]

\* The database answers when it likes. A LOCK with an Expried is then held and
\* keeps its command, any other command is free.
Answer(i, answer) ==
  LET c == pending[i]
      held == c.CommandType = COMMAND_LOCK /\ answer.Result = 0 /\ c.Expried > 0
  IN /\ Result(WrittenLockResult, LockResultOf(c, answer))
     /\ pool' = IF held THEN pool ELSE Append(pool, c)
     /\ pending' = RemoveAt(pending, i)
     /\ lease' = IF held /\ lease = None THEN Lease(c) ELSE lease
     /\ UNCHANGED <<toServer, client, at, rbuf, n, script, sent, parsed, got, record>>

\* The other commands, answered at once: after ADMIN the session speaks text,
\* after QUIT it ends.
ParseOther ==
  /\ at = "parse" /\ IsBinary(rbuf) /\ ~IsLock(rbuf[2])
  /\ LET type == rbuf[2]
         c == Decoded(CommandLayout(type), rbuf)
     IN /\ parsed' = Append(parsed, c)
        /\ CASE type = COMMAND_INIT ->
                  \E t \in {0, 1} : Result(InitResultCommand, And(ResultOf(c, 0), [InitType |-> t]))
             [] type = COMMAND_STATE ->
                  \E s \in States :
                    Result(StateResultCommand, And(And(ResultOf(c, 0), [Flag |-> 0, DbId |-> c.DbId]), s))
             [] OTHER ->
                  LET known == type \in {COMMAND_ADMIN, COMMAND_PING, COMMAND_QUIT}
                  IN Result(IF known THEN ResultLayout(type) ELSE ResultCommand,
                            ResultOf(c, IF known THEN 0 ELSE RESULT_UNKNOWN_COMMAND))
        /\ at' = CASE type = COMMAND_ADMIN -> "text" [] type = COMMAND_QUIT -> "closed" [] OTHER -> "read"
  /\ n' = 0
  /\ UNCHANGED <<toServer, client, rbuf, pool, pending, script, sent, got, lease, record>>

\* A header that is neither: the session says so and ends.
ParseUnknown ==
  /\ at = "parse" /\ ~IsBinary(rbuf)
  /\ LET c == Decoded(Command, rbuf)
     IN /\ parsed' = Append(parsed, c)
        /\ Result(ResultCommand,
                  ResultOf(c, IF c.Magic # MAGIC THEN RESULT_UNKNOWN_MAGIC ELSE RESULT_UNKNOWN_VERSION))
  /\ at' = "closed" /\ n' = 0
  /\ UNCHANGED <<toServer, client, rbuf, pool, pending, script, sent, got, lease, record>>
-----------------------------------------------------------------------------
(* The record of a granted LOCK. Bound: made when no command is under way.   *)

Reported(flags) == Bit(flags, 2048)        \* DoExpried logs the end as an error
uint16(x) == x % 65536

\* ExpriedFlag & 0x4800, and | 0x1200.
Kept(flags) == 16384 * Bit(flags, 16384) + 2048 * Bit(flags, 2048)
Loaded(flags) == flags + 4096 * (1 - Bit(flags, 4096)) + 512 * (1 - Bit(flags, 512))

\* Push: into a record of the pool, or a literal whose fields are in another
\* order than those of the struct when the pool is empty, as it is at first.
RecordOf_ElapsedAsLeft(c, expried, now, fromPool) ==
  [CommandType |-> COMMAND_LOCK, AofIndex |-> 0, AofId |-> 0, CommandTime |-> now,
   Flag |-> c.Flag, DbId |-> c.DbId, LockId |-> c.LockId, LockKey |-> c.LockKey, AofFlag |-> 0,
   StartTime |-> 0, ExpriedFlag |-> Kept(c.ExpriedFlag), ExpriedTime |-> c.Expried,
   Count |-> c.Count, Rcount |-> c.Rcount]

\* The record's StartTime is an unsigned difference in the pool, a signed one
\* in the literal.
RecordOf(c, expried, now, fromPool) ==
  LET commandTime == IF expried > now THEN now ELSE expried
      elapsed == commandTime - StartTime
      start == IF elapsed > 65535 \/ (fromPool /\ elapsed < 0) THEN 0 ELSE uint16(elapsed)
      flags == Kept(c.ExpriedFlag)
  IN [CommandType |-> COMMAND_LOCK, AofIndex |-> 0, AofId |-> 0, CommandTime |-> commandTime,
      Flag |-> c.Flag, DbId |-> c.DbId, LockId |-> c.LockId, LockKey |-> c.LockKey,
      AofFlag |-> IF fromPool THEN 0 ELSE flags,
      StartTime |-> IF fromPool THEN start ELSE 0,
      ExpriedFlag |-> IF fromPool THEN flags ELSE start,
      ExpriedTime |-> IF Unlimited(c.ExpriedFlag) THEN 0 ELSE uint16(expried - commandTime),
      Count |-> c.Count, Rcount |-> c.Rcount]

AtRest ==
  /\ client = "open" => sent = Len(script) /\ toClient = <<>>
  /\ toServer = <<>> /\ pending = <<>> /\ at \in {"read", "closed"} /\ n = 0

\* When the milliseconds below a second have passed the lease is over, or gets
\* its end, of whole seconds, as any other has.
CheckMillisecondExpried(second) ==
  /\ lease.at = "millisecond" /\ AtRest
  /\ LET seconds == lease.command.Expried \div 1000
     IN lease' = [lease EXCEPT !.at = IF seconds > 0 THEN "held" ELSE "over",
                               !.end = StartTime + second + seconds + 1]
  /\ UNCHANGED <<session, record>>

\* AddExpried records a lease when it is so many seconds old, AddMillisecondExpried
\* at once or not at all.
Push(seconds, fromPool) ==
  /\ lease.at = "held" \/ (lease.at = "millisecond" /\ seconds = 0)
  /\ record.at = "none" /\ AtRest
  /\ record' = [at |-> "queued", time |-> StartTime + seconds, pooled |-> fromPool, end |-> lease.end,
                lock |-> RecordOf(lease.command, lease.end, StartTime + seconds, fromPool)]
  /\ UNCHANGED <<session, lease>>

\* HandleLock and PushLock: Encode, UpdateAofIndexId, and the file.
HandleLock ==
  /\ record.at = "queued"
  /\ LET encoded == Encoded(AofLock, record.lock, Zeros)
     IN record' = [at |-> "written", time |-> record.time, pooled |-> record.pooled, end |-> record.end,
                   buf |-> Encoded(AofIndexId, [AofId |-> 1, AofIndex |-> 1], encoded)]
  /\ UNCHANGED <<session, lease>>

\* LoadAofFile leaves out what is over when the load begins; HandleLock makes the
\* rest a LOCK again, later, with what is left then. db.Lock keeps no lock for a
\* LOCK without Expried.
Load(seconds, delay) ==
  /\ record.at = "written"
  /\ LET lock == Decoded(AofLock, record.buf)
         now == record.time + seconds
         current == now + delay
         over == ~Unlimited(lock.ExpriedFlag) /\ lock.CommandTime + lock.ExpriedTime <= now
         command == [CommandType |-> lock.CommandType, Flag |-> lock.Flag, DbId |-> lock.DbId,
                     LockId |-> lock.LockId, LockKey |-> lock.LockKey, Timeout |-> 5, TimeoutFlag |-> 0,
                     ExpriedFlag |-> Loaded(lock.ExpriedFlag),
                     Expried |-> IF Unlimited(lock.ExpriedFlag) THEN 0
                                 ELSE uint16((lock.CommandTime + lock.ExpriedTime) - current),
                     Count |-> lock.Count, Rcount |-> lock.Rcount]
     IN record' = [at |-> IF over THEN "skipped" ELSE IF command.Expried = 0 THEN "passed" ELSE "loaded",
                   time |-> record.time, now |-> now, current |-> current,
                   pooled |-> record.pooled, end |-> record.end, command |-> command]
  /\ UNCHANGED <<session, lease>>
-----------------------------------------------------------------------------
Init ==
  /\ toServer = <<>> /\ toClient = <<>> /\ client = "open" /\ at = "accept" /\ rbuf = Zeros /\ n = 0
  /\ wbuf = [Zeros EXCEPT ![0] = MAGIC, ![1] = VERSION]
  /\ pool = <<>> /\ pending = <<>> /\ script \in Scripts /\ sent = 0 /\ parsed = <<>> /\ given = <<>> /\ got = <<>>
  /\ lease = None /\ record = None

Next ==
  \/ Write \/ ReadResult \/ RefuseResult
  \/ (\E r \in Reads : CheckProtocol(r) \/ Process(r))
  \/ ParseLock \/ ParseOther \/ ParseUnknown
  \/ (\E i \in DOMAIN pending, answer \in Answers : Answer(i, answer))
  \/ (\E s \in {0, 1} : CheckMillisecondExpried(s))
  \/ (\E s \in Moments, p \in BOOLEAN : Push(s, p)) \/ HandleLock
  \/ (\E s \in Moments, d \in Delays : Load(s, d))

Spec == Init /\ [][Next]_vars
-----------------------------------------------------------------------------
(* Properties.                                                               *)

\* The fields a command has on the wire; a pooled one keeps its first two bytes.
OnWire(c) == [f \in DOMAIN c \ {"Magic", "Version"} |-> c[f]]

\* However the bytes are cut into reads, and whatever rbuf and the pooled command
\* held before, the server has the commands the client sent, in their order.
\* (With the types: no read goes beyond a command, no result is longer or shorter
\* than 64 bytes.)
CommandsDecoded ==
  /\ TypeOK
  /\ \A i \in DOMAIN parsed :
       IF script[i].Magic = MAGIC /\ script[i].Version = VERSION
         THEN OnWire(parsed[i]) = OnWire(script[i])
         ELSE \A f \in DOMAIN Header : parsed[i][f] = script[i][f]

\* The result of a header the server refused is read as one of the command's
\* type, with zeros in the fields it has beyond.
ReadAsGiven(read, result) ==
  /\ DOMAIN result \subseteq DOMAIN read /\ \A f \in DOMAIN result : read[f] = result[f]
  /\ \A f \in DOMAIN read \ DOMAIN result :
       /\ result.Result \in {RESULT_UNKNOWN_MAGIC, RESULT_UNKNOWN_VERSION}
       /\ read[f] = IF f \in Ids THEN ZeroId ELSE 0

\* Whatever result wbuf held before, of the same or of another kind, the client
\* reads the results that were given, in their order and field by field, and gives
\* up only at the result of a command whose type it does not know.
ResultsDecoded ==
  /\ \A i \in DOMAIN got : ReadAsGiven(got[i], given[i])
  /\ client = "closed" => given[Len(got) + 1].CommandType \notin ResultTypes

\* The leases whose end a record can tell: known when the record is made, not
\* unlimited, and less than the 2^16 seconds of its two bytes away.
Recordable(c, end, time) == end # 0 /\ ~Unlimited(c.ExpriedFlag) /\ end - time < 65536

\* A lock read back from the log is the lock that was granted: it is left out if
\* its lease was over when the load began, not kept if it is over when the record
\* is handled, and otherwise held again with the seconds that are left. For records
\* made in the pool, and handled no later than the lease's end.
RecordRestored ==
  (record.at \in {"skipped", "passed", "loaded"} /\ record.pooled) =>
    LET c == lease.command
        d == record.command
    IN Recordable(c, record.end, record.time) =>
         /\ record.at = "skipped" <=> record.end <= record.now
         /\ record.now < record.end /\ record.current <= record.end =>
              /\ record.at = "loaded" <=> record.current < record.end
              /\ \A f \in {"CommandType", "Flag", "DbId", "LockId", "LockKey", "Count", "Rcount"} : d[f] = c[f]
              /\ ~Unlimited(d.ExpriedFlag) /\ Reported(d.ExpriedFlag) = Reported(c.ExpriedFlag)
              /\ record.current + d.Expried = record.end
=============================================================================
