------------------------------ MODULE MC_Codec ------------------------------
(* Instances of Codec for TLC. Fields have values that tell them, their      *)
(* bytes and their order apart.                                              *)
EXTENDS Codec

Id(x) == [i \in 1..16 |-> x + i]

Head19(type, x) ==
  [Magic |-> MAGIC, Version |-> VERSION, CommandType |-> type, RequestId |-> Id(x)]

Lock(type, x, db, expried, flags) ==
  And(Head19(type, x),
      [Flag |-> 2, DbId |-> db, LockId |-> Id(x + 40), LockKey |-> Id(x + 80), Timeout |-> 770 + x,
       TimeoutFlag |-> 2048 * (x % 3), Expried |-> expried, ExpriedFlag |-> flags, Count |-> 259 + x,
       Rcount |-> 7 + x])

Hello == And(Head19(COMMAND_INIT, 100), [ClientId |-> Id(120)])

Commands ==
  {Lock(COMMAND_LOCK, 0, 0, 5, 2048 + 512), Lock(COMMAND_LOCK, 1, 4, 65535, 0),
   Lock(COMMAND_LOCK, 2, 4, 9, 16384), Lock(COMMAND_LOCK, 4, 4, 6500, 1024), Lock(COMMAND_LOCK, 4, 4, 0, 0),
   Lock(COMMAND_LOCK, 5, 4, 700, 1024 + 16384), Lock(COMMAND_UNLOCK, 1, 4, 65535, 0),
   Lock(COMMAND_LOCK, 1, 255, 5, 0), Hello,
   And(Head19(COMMAND_STATE, 101), [Flag |-> 1, DbId |-> 4]),
   And(Head19(COMMAND_ADMIN, 102), [AdminType |-> 3]),
   Head19(COMMAND_PING, 103), Head19(COMMAND_QUIT, 104), Head19(9, 105),
   [Head19(COMMAND_PING, 106) EXCEPT !.Magic = 42], [Head19(COMMAND_PING, 107) EXCEPT !.Version = 2],
   [Lock(COMMAND_LOCK, 3, 4, 5, 0) EXCEPT !.Version = 2]}

\* A client starts with INIT; the server does not ask it to.
MCScripts == {<<Hello, c, d>> : c, d \in Commands} \cup {<<c>> : c \in Commands}

MCAnswers == {[Result |-> 0, Lcount |-> 513, Lrcount |-> 3], [Result |-> 8, Lcount |-> 0, Lrcount |-> 0]}

Counters(x) ==
  [LockCount |-> 70000 + x, UnLockCount |-> 258 * x, LockedCount |-> 3 + x, WaitCount |-> 4 * x,
   TimeoutedCount |-> 5 * x, ExpriedCount |-> 100000 * x, UnlockErrorCount |-> 7 * x, KeyCount |-> 8 * x]

MCStates ==
  {And([DbState |-> 0], [f \in DOMAIN Counters(1) |-> 0]), And([DbState |-> 1], Counters(1))}
=============================================================================
