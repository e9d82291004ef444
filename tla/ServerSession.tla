--------------------------- MODULE ServerSession ---------------------------
(* The binary sessions of server/protocol.go with what they share in SLock: *)
(* the registered streams, the databases and SLock.glock. A session reads   *)
(* commands in its own goroutine; the result of a LOCK may be written by    *)
(* any goroutine (the timers, another session), under the session's glock.  *)
(* What a database does with a command is in LockDB: here a LOCK is pending *)
(* from when the database gets it until its result is written.              *)
EXTENDS Network

VARIABLES
  session,       \* where Handle of a connection is
  inited,
  command,       \* the LOCK a session waits to give to a new database
  glock,         \* a session's glock: NIL, "close" or the result being written
  wbuf,          \* the result in a session's write buffer
  streams,       \* SLock.streams of the one client id: a connection or NIL
  slock_glock,   \* "free", or "flush" while FLUSHDB or FLUSHALL holds it
  flushed,       \* the flush that was asked for: "none", "db" or "all"
  flushing,      \* the requests it has still to answer
  dbs,           \* SLock.dbs of the one database: 0, or the number of the LockDB
  made,          \* how many LockDBs were made
  pending,       \* the session of a LOCK the database has, or NIL
  garbled        \* history: results overwritten in wbuf before they were sent

server == <<session, inited, command, glock, wbuf, streams, slock_glock, flushed, flushing, dbs, made,
            pending, garbled>>

\* Bound: LockDBs made.
MaxMade == 2

ServerTypeOK ==
  /\ session \in [Connections -> {"reading", "newdb", "state", "closing", "closed"}]
  /\ inited \in [Connections -> BOOLEAN] /\ command \in [Connections -> Requests \cup {NIL}]
  /\ glock \in [Connections -> Requests \cup {NIL, "close"}]
  /\ wbuf \in [Connections -> Requests \cup {NIL}]
  /\ streams \in Connections \cup {NIL} /\ slock_glock \in {"free", "flush"}
  /\ flushing \subseteq Requests /\ flushed \in {"none", "db", "all"}
  /\ dbs \in 0..MaxMade /\ made \in 0..MaxMade
  /\ pending \in [Requests -> Connections \cup {NIL}]
  /\ garbled \subseteq Requests

\* The first connection is initialised.
ServerInit ==
  /\ session = [c \in Connections |-> "reading"]
  /\ inited = [c \in Connections |-> c = 1] /\ command = [c \in Connections |-> NIL]
  /\ glock = [c \in Connections |-> NIL] /\ wbuf = [c \in Connections |-> NIL]
  /\ streams = 1 /\ slock_glock = "free" /\ flushing = {} /\ flushed = "none"
  /\ dbs = 0 /\ made = 0
  /\ pending = [r \in Requests |-> NIL]
  /\ garbled = {}

SessionAt(c, from, to) == session[c] = from /\ session' = [session EXCEPT ![c] = to]

\* The commands the databases have for a session, or for any.
PendingOf(c) == {r \in Requests : pending[r] = c}
Pending == {r \in Requests : pending[r] # NIL}
-----------------------------------------------------------------------------
(* Process and ProcessParse.                                                *)

\* A session reads its next command. Connections are accepted as they come.
Reads(c, type) == session[c] = "reading" /\ toServer[c] # <<>> /\ Head(toServer[c])[1] = type

\* Init, and the registration under SLock.glock.
ProcessInit(c) ==
  /\ Reads(c, "INIT") /\ slock_glock = "free"
  /\ inited' = [inited EXCEPT ![c] = TRUE]
  /\ streams' = c
  /\ toServer' = Received(toServer, c)
  /\ toClient' = Sent(toClient, c, <<"INITED", IF streams = NIL THEN 0 ELSE 1>>)
  /\ UNCHANGED <<up, session, command, glock, wbuf, slock_glock, flushed, flushing, dbs, made, pending,
                 garbled>>

\* dbs is read without SLock.glock.
ProcessLock(c) ==
  /\ Reads(c, "LOCK")
  /\ \/ /\ dbs # 0
        /\ pending' = [pending EXCEPT ![Head(toServer[c])[2]] = c]
        /\ UNCHANGED <<session, command>>
     \/ /\ dbs = 0 /\ SessionAt(c, "reading", "newdb")
        /\ command' = [command EXCEPT ![c] = Head(toServer[c])[2]]
        /\ UNCHANGED pending
  /\ toServer' = Received(toServer, c)
  /\ UNCHANGED <<up, toClient, inited, glock, wbuf, streams, slock_glock, flushed, flushing,
                 dbs, made, garbled>>

Absent == dbs = 0

GetOrNewDB(c) ==
  /\ SessionAt(c, "newdb", "reading") /\ slock_glock = "free" /\ (Absent => made < MaxMade)
  /\ dbs' = IF Absent THEN made + 1 ELSE dbs
  /\ made' = IF Absent THEN made + 1 ELSE made
  /\ pending' = [pending EXCEPT ![command[c]] = c]
  /\ command' = [command EXCEPT ![c] = NIL]
  /\ UNCHANGED <<net, inited, glock, wbuf, streams, slock_glock, flushed, flushing,
                 garbled>>

Encoded(c, r) == [wbuf EXCEPT ![c] = r]

\* GetState writes its result with Write: no glock, but the same wbuf. What it
\* finds there unsent, or leaves there and somebody fills again, is garbled.
GetState(c) ==
  /\ Reads(c, "STATE")
  /\ SessionAt(c, "reading", "state")
  /\ wbuf' = Encoded(c, Head(toServer[c])[2])
  /\ garbled' = IF glock[c] \in Requests THEN garbled \cup {wbuf[c]} ELSE garbled
  /\ toServer' = Received(toServer, c)
  /\ UNCHANGED <<up, toClient, command, inited, glock, streams, slock_glock, flushed, flushing, dbs, made,
                 pending>>

WriteState(c) ==
  /\ SessionAt(c, "state", "reading")
  /\ toClient' = Sent(toClient, c, <<"RESULT", wbuf[c]>>)
  /\ UNCHANGED <<up, toServer, command, inited, glock, wbuf, streams, slock_glock, flushed, flushing,
                 dbs, made, pending, garbled>>
-----------------------------------------------------------------------------
(* ProcessLockResultCommand, in two steps: wbuf is filled and then sent. The *)
(* command is done with in either case.                                      *)

WbufFree_Unlocked(c) == glock[c] # "close"

WbufFree(c) == glock[c] = NIL

FillResult(r) ==
  LET c == pending[r]
  IN /\ c # NIL /\ session[c] # "closed" /\ WbufFree(c)
     /\ glock' = [glock EXCEPT ![c] = r]
     /\ wbuf' = Encoded(c, r)
     /\ garbled' = IF session[c] = "state" THEN garbled \cup {wbuf[c]} ELSE garbled
     /\ UNCHANGED <<net, session, command, inited, streams, slock_glock, flushed, flushing, dbs, made,
                    pending>>

\* The error of a write to a broken connection gives glock back too.
Released_OnSuccess(c) == IF up[c] = "up" THEN NIL ELSE glock[c]

Released(c) == NIL

SendResult(c) ==
  /\ glock[c] \in Requests
  /\ toClient' = Sent(toClient, c, <<"RESULT", wbuf[c]>>)
  /\ glock' = [glock EXCEPT ![c] = Released(c)]
  /\ pending' = [pending EXCEPT ![glock[c]] = NIL]
  /\ flushing' = flushing \ {glock[c]}
  /\ UNCHANGED <<up, toServer, session, command, inited, wbuf, streams, slock_glock, flushed, dbs, made,
                 garbled>>

\* A closed session passes the result to the session its client has now, if it
\* is still inited; Close makes that FALSE.
LoseResult(r) ==
  LET c == pending[r]
  IN /\ c # NIL /\ session[c] = "closed"
     /\ pending' = [pending EXCEPT ![r] = IF inited[c] THEN streams ELSE NIL]
     /\ flushing' = flushing \ {r}
     /\ UNCHANGED <<net, session, command, inited, glock, wbuf, streams, slock_glock, flushed, dbs, made,
                    garbled>>
-----------------------------------------------------------------------------
(* Close of a session whose connection is broken: its glock, then           *)
(* SLock.glock.                                                             *)

CloseBegins(c) ==
  /\ Ended(toServer, c) /\ glock[c] = NIL
  /\ SessionAt(c, "reading", "closing")
  /\ glock' = [glock EXCEPT ![c] = "close"]
  /\ UNCHANGED <<net, command, inited, wbuf, streams, slock_glock, flushed, flushing, dbs, made, pending,
                 garbled>>

\* Only its own registration is removed: the client may be registered again.
Deregistered_Kept(c) == streams

Deregistered(c) == IF inited[c] /\ streams = c THEN NIL ELSE streams

CloseEnds(c) ==
  /\ SessionAt(c, "closing", "closed") /\ slock_glock = "free"
  /\ inited' = [inited EXCEPT ![c] = FALSE]
  /\ streams' = Deregistered(c)
  /\ glock' = [glock EXCEPT ![c] = NIL]
  /\ UNCHANGED <<net, command, wbuf, slock_glock, flushed, flushing, dbs, made, pending, garbled>>
-----------------------------------------------------------------------------
(* FLUSHDB and FLUSHALL of server/admin.go: under SLock.glock the databases *)
(* are hidden, the waiters answered and the databases put back. FLUSHALL    *)
(* puts back what it finds in dbs, where it has hidden them all.            *)
(* SLock.Close holds the same lock and answers the same way. Bound: one     *)
(* flush.                                                                    *)

Flush(kind) ==
  /\ flushed = "none" /\ slock_glock = "free" /\ dbs # 0
  /\ slock_glock' = "flush" /\ flushed' = kind /\ flushing' = Pending
  /\ dbs' = 0
  /\ UNCHANGED <<net, session, command, inited, glock, wbuf, streams, made, pending, garbled>>

FlushEnds ==
  /\ slock_glock = "flush" /\ flushing = {}
  /\ slock_glock' = "free"
  /\ dbs' = IF flushed = "db" THEN made ELSE dbs
  /\ UNCHANGED <<net, session, command, inited, glock, wbuf, streams, flushed, flushing, made, pending,
                 garbled>>

SessionStep(c) ==
  \/ ProcessInit(c) \/ ProcessLock(c) \/ GetOrNewDB(c) \/ GetState(c)
  \/ WriteState(c) \/ CloseBegins(c) \/ CloseEnds(c)

ResultStep == (\E r \in Requests : FillResult(r) \/ LoseResult(r)) \/ \E c \in Connections : SendResult(c)
=============================================================================
