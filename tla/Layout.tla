------------------------------- MODULE Layout -------------------------------
(* The 64 byte encodings of protocol/command.go, of the two places of        *)
(* server/protocol.go that encode and decode locks by hand, and of the       *)
(* records of server/aof.go. A layout says where each field of a struct is,  *)
(* and from which byte on Encode writes zeros.                               *)
EXTENDS Integers, Sequences

Byte == 0..255
Positions == 0..63
MAGIC == 86
VERSION == 1

COMMAND_INIT == 0
COMMAND_LOCK == 1
COMMAND_UNLOCK == 2
COMMAND_STATE == 3
COMMAND_ADMIN == 4
COMMAND_PING == 5
COMMAND_QUIT == 6

\* Fields of sixteen bytes that are copied; all others are little endian numbers.
Ids == {"RequestId", "ClientId", "LockId", "LockKey"}

\* A number shifted right by 0, 1, ... 8 bytes.
Shifts(n) ==
  LET n1 == n \div 256
      n2 == n1 \div 256
      n3 == n2 \div 256
      n4 == n3 \div 256
      n5 == n4 \div 256
      n6 == n5 \div 256
      n7 == n6 \div 256
  IN <<n, n1, n2, n3, n4, n5, n6, n7, n7 \div 256>>

LittleEndian(width, n) == [i \in 1..width |-> Shifts(n)[i] % 256]

\* A value of a field of so many bytes; numbers have at most eight.
Fits(n, width) == n \in Nat /\ Shifts(n)[width + 1] = 0

Number(width, bytes) ==
  LET b == [i \in 1..8 |-> IF i <= width THEN bytes[i] ELSE 0]
  IN b[1] + 256 * (b[2] + 256 * (b[3] + 256 * (b[4] + 256 * (b[5] + 256 * (b[6] + 256 * (b[7] + 256 * b[8]))))))

At(first, width) == [first |-> first, width |-> width]
Covers(place, i) == i \in place.first..(place.first + place.width - 1)
Layout(fields, blank) == [fields |-> fields, blank |-> blank]

Bytes(name, place, value) == IF name \in Ids THEN value ELSE LittleEndian(place.width, value)

\* The structs of a layout: every field is a value of the type Go gives it.
IsOf(layout, command) ==
  /\ DOMAIN command = DOMAIN layout.fields
  /\ \A f \in DOMAIN layout.fields :
       IF f \in Ids THEN command[f] \in [1..16 -> Byte] ELSE Fits(command[f], layout.fields[f].width)

\* What Encode leaves in a buffer: it writes its fields and its blank, no more.
EncodedByte(layout, command, buf, i) ==
  LET here == {f \in DOMAIN layout.fields : Covers(layout.fields[f], i)}
      f == CHOOSE f \in here : TRUE
      place == layout.fields[f]
  IN IF here # {} THEN Bytes(f, place, command[f])[i - place.first + 1]
     ELSE IF i >= layout.blank THEN 0 ELSE buf[i]

Encoded(layout, command, buf) == [i \in Positions |-> EncodedByte(layout, command, buf, i)]

Decoded(layout, buf) ==
  [f \in DOMAIN layout.fields |->
     LET place == layout.fields[f]
         bytes == [i \in 1..place.width |-> buf[place.first + i - 1]]
     IN IF f \in Ids THEN bytes ELSE Number(place.width, bytes)]

\* The fields that are in the buffer, over those of a command used before.
DecodedOver(layout, buf, command) ==
  [f \in DOMAIN command |-> IF f \in DOMAIN layout.fields THEN Decoded(layout, buf)[f] ELSE command[f]]

And(r, s) == [f \in DOMAIN r \cup DOMAIN s |-> IF f \in DOMAIN s THEN s[f] ELSE r[f]]
-----------------------------------------------------------------------------
(* protocol/command.go                                                       *)

Header == [Magic |-> At(0, 1), Version |-> At(1, 1), CommandType |-> At(2, 1), RequestId |-> At(3, 16)]
ResultHeader == And(Header, [Result |-> At(19, 1)])

Command == Layout(Header, 19)
ResultCommand == Layout(ResultHeader, 20)
InitCommand == Layout(And(Header, [ClientId |-> At(19, 16)]), 35)
InitResultCommand == Layout(And(ResultHeader, [InitType |-> At(20, 1)]), 21)

LockFields ==
  [Flag |-> At(19, 1), DbId |-> At(20, 1), LockId |-> At(21, 16), LockKey |-> At(37, 16),
   Timeout |-> At(53, 2), TimeoutFlag |-> At(55, 2), Expried |-> At(57, 2), ExpriedFlag |-> At(59, 2),
   Count |-> At(61, 2), Rcount |-> At(63, 1)]
LockCommand == Layout(And(Header, LockFields), 64)

LockResultFields ==
  [Result |-> At(19, 1), Flag |-> At(20, 1), DbId |-> At(21, 1), LockId |-> At(22, 16), LockKey |-> At(38, 16),
   Lcount |-> At(54, 2), Count |-> At(56, 2), Lrcount |-> At(58, 1), Rcount |-> At(59, 1)]
LockResultCommand == Layout(And(Header, LockResultFields), 60)

StateCommand == Layout(And(Header, [Flag |-> At(19, 1), DbId |-> At(20, 1)]), 21)
StateFields ==
  [DbState |-> At(21, 1), LockCount |-> At(23, 8), UnLockCount |-> At(31, 8), LockedCount |-> At(39, 4),
   WaitCount |-> At(43, 4), TimeoutedCount |-> At(47, 4), ExpriedCount |-> At(51, 4),
   UnlockErrorCount |-> At(55, 4), KeyCount |-> At(59, 4)]
StateResultCommand ==
  Layout(And(And(ResultHeader, [Flag |-> At(20, 1), DbId |-> At(22, 1)]), StateFields), 63)

AdminCommand == Layout(And(Header, [AdminType |-> At(19, 1)]), 20)
AdminResultCommand == Layout(ResultHeader, 20)
PingCommand == Layout(Header, 19)
PingResultCommand == Layout(ResultHeader, 20)
QuitCommand == Layout(Header, 19)
QuitResultCommand == Layout(ResultHeader, 20)
-----------------------------------------------------------------------------
(* server/protocol.go: ProcessParse decodes LOCK and UNLOCK into a pooled    *)
(* command, ProcessLockResultCommand encodes their results into wbuf, whose  *)
(* first two bytes it leaves as they are.                                    *)

ParsedFields_NoTimeoutFlag ==
  [CommandType |-> At(2, 1), RequestId |-> At(3, 16), Flag |-> At(19, 1), DbId |-> At(20, 1),
   LockId |-> At(21, 16), LockKey |-> At(37, 16), Timeout |-> At(53, 2), Expried |-> At(57, 2),
   ExpriedFlag |-> At(59, 2), Count |-> At(61, 2), Rcount |-> At(63, 1)]

ParsedFields ==
  [CommandType |-> At(2, 1), RequestId |-> At(3, 16), Flag |-> At(19, 1), DbId |-> At(20, 1),
   LockId |-> At(21, 16), LockKey |-> At(37, 16), Timeout |-> At(53, 2), TimeoutFlag |-> At(55, 2),
   Expried |-> At(57, 2), ExpriedFlag |-> At(59, 2), Count |-> At(61, 2), Rcount |-> At(63, 1)]
ParsedLockCommand == Layout(ParsedFields, 64)

WrittenFields_FlagKept ==
  [CommandType |-> At(2, 1), RequestId |-> At(3, 16), Result |-> At(19, 1), DbId |-> At(21, 1),
   LockId |-> At(22, 16), LockKey |-> At(38, 16), Lcount |-> At(54, 2), Count |-> At(56, 2),
   Lrcount |-> At(58, 1), Rcount |-> At(59, 1)]

WrittenFields ==
  [CommandType |-> At(2, 1), RequestId |-> At(3, 16), Result |-> At(19, 1), Flag |-> At(20, 1),
   DbId |-> At(21, 1), LockId |-> At(22, 16), LockKey |-> At(38, 16), Lcount |-> At(54, 2),
   Count |-> At(56, 2), Lrcount |-> At(58, 1), Rcount |-> At(59, 1)]
WrittenLockResult == Layout(WrittenFields, 60)
-----------------------------------------------------------------------------
(* server/aof.go: AofLock.Encode and Decode, and UpdateAofIndexId.           *)

AofLock ==
  Layout([CommandType |-> At(2, 1), AofId |-> At(3, 4), AofIndex |-> At(7, 4), CommandTime |-> At(11, 8),
          Flag |-> At(19, 1), DbId |-> At(20, 1), LockId |-> At(21, 16), LockKey |-> At(37, 16),
          StartTime |-> At(53, 2), AofFlag |-> At(55, 2), ExpriedTime |-> At(57, 2),
          ExpriedFlag |-> At(59, 2), Count |-> At(61, 2), Rcount |-> At(63, 1)], 64)
AofIndexId == Layout([AofId |-> At(3, 4), AofIndex |-> At(7, 4)], 64)
=============================================================================
