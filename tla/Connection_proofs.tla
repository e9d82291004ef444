-------------------------- MODULE Connection_proofs --------------------------
(* What is proved of Connection for any set of requests and any number of      *)
(* connections: a request's channel is sent at most one value, and SLock's     *)
(* registries lead to sessions that are open and to one database.              *)
EXTENDS Connection, TLAPS

\* A request that is still registered, or not made yet, was sent nothing: every
\* way of telling it also takes it out of Database.requests.
RegisteredUntold ==
  /\ \A r \in requests : waiter[r] = <<>> /\ caller[r] # "idle"
  /\ \A r \in Requests : caller[r] = "idle" => waiter[r] = <<>>

\* InitProtocol has a connection to initialise.
Dialled == opener = "init" => opening # NIL

\* A write buffer that is about to be sent has a result in it.
BufferFilled ==
  \A c \in Connections : glock[c] \in Requests \/ session[c] = "state" => wbuf[c] \in Requests

\* A database is hidden only while FLUSHDB holds SLock.glock, or for ever by
\* FLUSHALL.
HiddenByFlush ==
  /\ flushed = "none" => slock_glock = "free"
  /\ dbs # 0 \/ slock_glock = "flush" => made # 0
  /\ flushed # "all" /\ slock_glock = "free" /\ dbs = 0 => made = 0

\* OneDB and RegisteredIsOpen, with what keeps them.
SessionInv ==
  /\ TypeOK /\ RegisteredUntold /\ ToldOnce /\ Dialled
  /\ BufferFilled /\ RegisteredIsOpen /\ OneDB /\ HiddenByFlush
-----------------------------------------------------------------------------
(* What the network carries.                                                 *)

\* A write of a message keeps the messages of a connection of their type.
LEMMA SentTyped ==
  ASSUME NEW M, NEW line \in [Connections -> Seq(M)], NEW c \in Connections, NEW m \in M
  PROVE  Sent(line, c, m) \in [Connections -> Seq(M)]
BY DEF Sent

\* So does a read.
LEMMA ReceivedTyped ==
  ASSUME NEW M, NEW line \in [Connections -> Seq(M)], NEW c \in Connections, line[c] # <<>>
  PROVE  Received(line, c) \in [Connections -> Seq(M)]
BY DEF Received

\* What a read finds is a message.
LEMMA HeadTyped ==
  ASSUME NEW M, NEW line \in [Connections -> Seq(M)], NEW c \in Connections, line[c] # <<>>
  PROVE  Head(line[c]) \in M
OBVIOUS

\* A LOCK and a STATE carry a request.
LEMMA CommandHasRequest ==
  ASSUME NEW m \in ToServer, m[1] \in {"LOCK", "STATE"}
  PROVE  m[2] \in Requests
BY DEF ToServer

\* A prefix of what is under way is of its type.
LEMMA PrefixTyped ==
  ASSUME NEW M, NEW s \in Seq(M), NEW i \in 0..Len(s)
  PROVE  SubSeq(s, 1, i) \in Seq(M)
OBVIOUS
-----------------------------------------------------------------------------
(* The client.                                                               *)

\* Telling a set of requests that were told nothing leaves each with one value.
LEMMA ToldTyped ==
  ASSUME ClientTypeOK, NEW rs, NEW value \in {"nil", "result"}
  PROVE  /\ Told(rs, value) \in [Requests -> Seq({"nil", "result"})]
         /\ \A r \in Requests : r \notin rs => Told(rs, value)[r] = waiter[r]
         /\ \A r \in Requests : waiter[r] = <<>> => Len(Told(rs, value)[r]) <= 1
BY DEF ClientTypeOK, Told

ClientPart == ClientTypeOK /\ RegisteredUntold /\ ToldOnce /\ Dialled
ServerPart == ServerTypeOK /\ BufferFilled /\ RegisteredIsOpen /\ OneDB /\ HiddenByFlush

\* SessionInv is the network's types, what is kept by the client and what is kept
\* by the server; neither program writes the variables of the other.
LEMMA Parts == SessionInv <=> NetworkTypeOK /\ ClientPart /\ ServerPart
BY DEF SessionInv, TypeOK, ClientPart, ServerPart

\* The server's part mentions nothing else.
LEMMA ServerKept == ServerPart /\ UNCHANGED server => ServerPart'
BY DEF server, ServerPart, ServerTypeOK, BufferFilled, RegisteredIsOpen, OneDB, HiddenByFlush

\* Nor does the client's.
LEMMA ClientKept == ClientPart /\ UNCHANGED client => ClientPart'
BY DEF client, ClientPart, ClientTypeOK, RegisteredUntold, ToldOnce, Dialled

\* A caller registers a request that was told nothing.
LEMMA CallerKeeps ==
  ASSUME NetworkTypeOK, ClientPart, NEW r \in Requests, CallerStep(r)
  PROVE  NetworkTypeOK' /\ ClientPart'
<1>1. CASE Register(r) \/ WritePanics(r) \/ WriteFails(r) \/ TakeResult(r)
  <2>1. UNCHANGED <<net, protocol, is_stop, dbClosed, waiter, handle, opener, opening, closing, orphaned>>
    BY <1>1 DEF Register, WritePanics, WriteFails, TakeResult
  <2>2. /\ requests' \subseteq Requests /\ panicked' \in BOOLEAN
        /\ caller' \in [Requests -> {"idle", "write", "wait", "failed", "answered"}]
    BY <1>1 DEF ClientPart, ClientTypeOK, Register, WritePanics, WriteFails, TakeResult, CallerAt
  <2>3. NetworkTypeOK'
    BY <2>1 DEF NetworkTypeOK, net
  <2>4. ClientTypeOK'
    BY <2>1, <2>2 DEF ClientPart, ClientTypeOK
  <2>5. ToldOnce' /\ Dialled'
    BY <2>1 DEF ClientPart, ToldOnce, Dialled
  <2>6. RegisteredUntold'
    <3>1. requests' \subseteq requests \/ (requests' = requests \cup {r} /\ caller[r] = "idle")
      BY <1>1 DEF Register, WritePanics, WriteFails, TakeResult
    <3>2. \A q \in Requests : caller'[q] = "idle" => caller[q] = "idle"
      BY <1>1 DEF ClientPart, ClientTypeOK, Register, WritePanics, WriteFails, TakeResult, CallerAt
    <3>3. caller'[r] # "idle" \/ UNCHANGED <<caller, requests>>
      BY <1>1 DEF ClientPart, ClientTypeOK, Register, WritePanics, WriteFails, TakeResult, CallerAt
    <3>4. \A q \in Requests \ {r} : caller'[q] = caller[q]
      BY <1>1 DEF ClientPart, ClientTypeOK, Register, WritePanics, WriteFails, TakeResult, CallerAt
    <3>5. \A q \in requests' : waiter'[q] = <<>> /\ caller'[q] # "idle"
      BY <2>1, <2>2, <3>1, <3>3, <3>4 DEF ClientPart, RegisteredUntold
    <3> QED
      BY <2>1, <3>2, <3>5 DEF ClientPart, RegisteredUntold
  <2> QED
    BY <2>3, <2>4, <2>5, <2>6 DEF ClientPart
<1>2. CASE WriteCommand(r)
  <2>1. /\ UNCHANGED <<up, toClient, protocol, is_stop, dbClosed, requests, waiter, handle, opener,
                       opening, closing, panicked, orphaned>>
        /\ caller[r] = "write" /\ caller' = [caller EXCEPT ![r] = "wait"]
    BY <1>2 DEF WriteCommand, CallerAt
  <2>2. PICK kind \in {"LOCK", "STATE"} : toServer' = Sent(toServer, protocol, <<kind, r>>)
    BY <1>2 DEF WriteCommand, Kinds
  <2>3. protocol \in Connections
    BY <1>2 DEF WriteCommand, ClientPart, ClientTypeOK
  <2>4. <<kind, r>> \in ToServer
    BY DEF ToServer
  <2>5. NetworkTypeOK'
    BY <2>1, <2>2, <2>3, <2>4, SentTyped DEF NetworkTypeOK
  <2>6. ClientTypeOK'
    BY <2>1 DEF ClientPart, ClientTypeOK
  <2>7. RegisteredUntold' /\ ToldOnce' /\ Dialled'
    BY <2>1 DEF ClientPart, ClientTypeOK, RegisteredUntold, ToldOnce, Dialled
  <2> QED
    BY <2>5, <2>6, <2>7 DEF ClientPart
<1> QED
  BY <1>1, <1>2 DEF CallerStep

\* The goroutine that reads tells a request it takes out of requests.
LEMMA ReadKeeps ==
  ASSUME NetworkTypeOK, ClientPart, NEW c \in Connections, ReadStep(c)
  PROVE  NetworkTypeOK' /\ ClientPart'
<1>1. CASE HandleCommand(c)
  <2> DEFINE r == Head(toClient[c])[2]
  <2>1. UNCHANGED <<up, toServer, protocol, is_stop, dbClosed, caller, handle, opener, opening,
                    closing, panicked, orphaned>>
    BY <1>1 DEF HandleCommand
  <2>2. NetworkTypeOK'
    <3>1. toClient[c] # <<>> /\ toClient' = Received(toClient, c)
      BY <1>1 DEF HandleCommand
    <3> QED
      BY <2>1, <3>1, ReceivedTyped DEF NetworkTypeOK
  <2>3. CASE r \notin requests
    <3>1. UNCHANGED <<waiter, requests>>
      BY <1>1, <2>3 DEF HandleCommand
    <3> QED
      BY <2>1, <2>2, <3>1, ClientKept DEF client, ClientPart, ClientTypeOK, RegisteredUntold, ToldOnce, Dialled
  <2>4. CASE r \in requests
    <3>1. waiter' = Told({r}, "result") /\ requests' = requests \ {r}
      BY <1>1, <2>4 DEF HandleCommand, Forgotten
    <3> HIDE DEF r
    <3>2. /\ waiter' \in [Requests -> Seq({"nil", "result"})]
          /\ \A q \in Requests : q # r => waiter'[q] = waiter[q]
          /\ \A q \in Requests : waiter[q] = <<>> => Len(waiter'[q]) <= 1
      BY <3>1, ToldTyped DEF ClientPart
    <3>3. r \in Requests /\ waiter[r] = <<>> /\ caller[r] # "idle"
      BY <2>4 DEF ClientPart, ClientTypeOK, RegisteredUntold
    <3>4. ClientTypeOK'
      BY <2>1, <3>1, <3>2 DEF ClientPart, ClientTypeOK
    <3>5. RegisteredUntold' /\ ToldOnce' /\ Dialled'
      BY <2>1, <3>1, <3>2, <3>3 DEF ClientPart, ClientTypeOK, RegisteredUntold, ToldOnce, Dialled
    <3> QED
      BY <2>2, <3>4, <3>5 DEF ClientPart
  <2> QED
    BY <2>3, <2>4
<1>2. CASE HandleEnds(c)
  BY <1>2 DEF HandleEnds, NetworkTypeOK, ClientPart, ClientTypeOK, RegisteredUntold, ToldOnce, Dialled
<1> QED
  BY <1>1, <1>2 DEF ReadStep

\* A reconnection the server knows nothing of gives up every request it takes out.
LEMMA InitProtocolKeeps ==
  ASSUME NetworkTypeOK, ClientPart, InitProtocol
  PROVE  NetworkTypeOK' /\ ClientPart'
<1> DEFINE given == GivenUp(Head(toClient[opening])[2])
<1>1. /\ UNCHANGED <<up, toServer, is_stop, dbClosed, caller, closing, panicked>>
      /\ protocol' = opening /\ opener' = "none" /\ opening' = NIL
      /\ handle' = [handle EXCEPT ![opening] = "reading"]
      /\ toClient[opening] # <<>> /\ toClient' = Received(toClient, opening)
      /\ waiter' = Told(given, "nil") /\ requests' = requests \ given
      /\ orphaned' \subseteq orphaned \cup requests
  BY DEF InitProtocol
<1>2. given = {} \/ given = requests
  BY DEF GivenUp
<1>3. opening \in Connections
  BY DEF InitProtocol, ClientPart, ClientTypeOK, Dialled
<1> HIDE DEF given
<1>4. /\ waiter' \in [Requests -> Seq({"nil", "result"})]
      /\ \A q \in Requests : q \notin given => waiter'[q] = waiter[q]
      /\ \A q \in Requests : waiter[q] = <<>> => Len(waiter'[q]) <= 1
  BY <1>1, ToldTyped DEF ClientPart
<1>5. NetworkTypeOK'
  BY <1>1, <1>3, ReceivedTyped DEF NetworkTypeOK
<1>6. ClientTypeOK'
  BY <1>1, <1>4, <1>3 DEF ClientPart, ClientTypeOK
<1>7. RegisteredUntold' /\ ToldOnce' /\ Dialled'
  BY <1>1, <1>2, <1>4 DEF ClientPart, ClientTypeOK, RegisteredUntold, ToldOnce, Dialled
<1> QED
  BY <1>5, <1>6, <1>7 DEF ClientPart

\* Close tells every request that is left, and leaves none.
LEMMA CloseKeeps ==
  ASSUME NetworkTypeOK, ClientPart, Close
  PROVE  NetworkTypeOK' /\ ClientPart'
<1>1. /\ UNCHANGED <<toServer, toClient, caller, handle, opener, opening, closing, panicked, orphaned>>
      /\ waiter' = Told(requests, "nil") /\ requests' = {} /\ dbClosed' = TRUE
      /\ up' = IF protocol = NIL THEN up ELSE [up EXCEPT ![protocol] = "broken"]
      /\ protocol' = NIL /\ is_stop' = TRUE
  BY DEF Close
<1>2. /\ waiter' \in [Requests -> Seq({"nil", "result"})]
      /\ \A q \in Requests : q \notin requests => waiter'[q] = waiter[q]
      /\ \A q \in Requests : waiter[q] = <<>> => Len(waiter'[q]) <= 1
  BY <1>1, ToldTyped DEF ClientPart
<1>3. NetworkTypeOK'
  BY <1>1 DEF NetworkTypeOK, ClientPart, ClientTypeOK
<1>4. ClientTypeOK'
  BY <1>1, <1>2 DEF ClientPart, ClientTypeOK
<1>5. RegisteredUntold' /\ ToldOnce' /\ Dialled'
  BY <1>1, <1>2 DEF ClientPart, ClientTypeOK, RegisteredUntold, ToldOnce, Dialled
<1> QED
  BY <1>3, <1>4, <1>5 DEF ClientPart

\* Every step of the client keeps its part.
LEMMA ClientKeeps ==
  ASSUME NetworkTypeOK, ClientPart, ClientStep
  PROVE  NetworkTypeOK' /\ ClientPart'
<1>1. ASSUME NEW c \in Connections, Open(c) PROVE NetworkTypeOK' /\ ClientPart'
  <2>1. /\ UNCHANGED <<toClient, protocol, is_stop, dbClosed, requests, waiter, caller, handle,
                       closing, panicked, orphaned>>
        /\ up' = [up EXCEPT ![c] = "up"] /\ toServer' = [toServer EXCEPT ![c] = <<<<"INIT">>>>]
        /\ opener' = "init" /\ opening' = c
    BY <1>1 DEF Open
  <2>2. <<<<"INIT">>>> \in Seq(ToServer)
    BY DEF ToServer
  <2>3. NetworkTypeOK'
    BY <2>1, <2>2 DEF NetworkTypeOK
  <2> QED
    BY <2>1, <2>3, NetworkConstants DEF ClientPart, ClientTypeOK, RegisteredUntold, ToldOnce, Dialled
<1>2. CASE InitFails \/ GiveUp
  BY <1>2 DEF InitFails, GiveUp, net, NetworkTypeOK, ClientPart, ClientTypeOK, RegisteredUntold,
              ToldOnce, Dialled
<1>3. CASE InitProtocol
  BY <1>3, InitProtocolKeeps
<1> QED
  BY <1>1, <1>2, <1>3, CallerKeeps, ReadKeeps, CloseKeeps DEF ClientStep, ReopenStep
-----------------------------------------------------------------------------
(* The server.                                                               *)

\* The sessions and the databases that a step leaves alone stay right.
LEMMA SessionKeeps ==
  ASSUME NetworkTypeOK, ServerPart, NEW c \in Connections, SessionStep(c)
  PROVE  NetworkTypeOK' /\ ServerPart'
<1> USE DEF ServerPart
<1>1. CASE ProcessInit(c)
  <2>1. /\ UNCHANGED <<up, session, command, glock, wbuf, slock_glock, flushed, flushing, dbs, made,
                       pending, garbled>>
        /\ session[c] = "reading" /\ toServer[c] # <<>>
        /\ inited' = [inited EXCEPT ![c] = TRUE] /\ streams' = c
        /\ toServer' = Received(toServer, c)
    BY <1>1 DEF ProcessInit, Reads
  <2>2. PICK t \in {0, 1} : toClient' = Sent(toClient, c, <<"INITED", t>>)
    BY <1>1 DEF ProcessInit
  <2>3. <<"INITED", t>> \in ToClient
    BY DEF ToClient
  <2>4. NetworkTypeOK'
    BY <2>1, <2>2, <2>3, SentTyped, ReceivedTyped DEF NetworkTypeOK
  <2>5. ServerTypeOK' /\ RegisteredIsOpen'
    BY <2>1 DEF ServerTypeOK, RegisteredIsOpen
  <2>6. BufferFilled' /\ OneDB' /\ HiddenByFlush'
    BY <2>1 DEF BufferFilled, OneDB, HiddenByFlush
  <2> QED
    BY <2>4, <2>5, <2>6
<1>2. CASE ProcessLock(c)
  <2> DEFINE r == Head(toServer[c])[2]
  <2>1. /\ UNCHANGED <<up, toClient, inited, glock, wbuf, streams, slock_glock, flushed, flushing,
                       dbs, made, garbled>>
        /\ session[c] = "reading" /\ toServer[c] # <<>> /\ Head(toServer[c])[1] = "LOCK"
        /\ session' = session \/ session' = [session EXCEPT ![c] = "newdb"]
        /\ command' = command \/ command' = [command EXCEPT ![c] = r]
        /\ pending' = pending \/ pending' = [pending EXCEPT ![r] = c]
        /\ toServer' = Received(toServer, c)
    BY <1>2 DEF ProcessLock, Reads, SessionAt
  <2>2. Head(toServer[c]) \in ToServer
    BY <2>1, HeadTyped DEF NetworkTypeOK
  <2>3. r \in Requests
    BY <2>1, <2>2, CommandHasRequest
  <2> HIDE DEF r
  <2>4. NetworkTypeOK'
    BY <2>1, ReceivedTyped DEF NetworkTypeOK
  <2>5. ServerTypeOK'
    BY <2>1, <2>3 DEF ServerTypeOK
  <2>6. RegisteredIsOpen' /\ BufferFilled'
    BY <2>1 DEF ServerTypeOK, RegisteredIsOpen, BufferFilled
  <2>7. OneDB' /\ HiddenByFlush'
    BY <2>1 DEF OneDB, HiddenByFlush
  <2> QED
    BY <2>4, <2>5, <2>6, <2>7
<1>3. CASE GetOrNewDB(c)
  <2>1. /\ UNCHANGED <<net, inited, glock, wbuf, streams, slock_glock, flushed, flushing, garbled>>
        /\ session[c] = "newdb" /\ session' = [session EXCEPT ![c] = "reading"]
        /\ slock_glock = "free"
        /\ pending' = [pending EXCEPT ![command[c]] = c]
        /\ command' = [command EXCEPT ![c] = NIL]
    BY <1>3 DEF GetOrNewDB, SessionAt
  \* A session that finds the database missing makes it, and it is the first.
  <2>2. IF dbs = 0 THEN made < MaxMade /\ dbs' = made + 1 /\ made' = made + 1
                   ELSE UNCHANGED <<dbs, made>>
    BY <1>3 DEF GetOrNewDB, Absent
  <2>3. NetworkTypeOK'
    BY <2>1 DEF NetworkTypeOK, net
  <2>4. dbs' \in 0..MaxMade /\ made' \in 0..MaxMade
    BY <2>2 DEF ServerTypeOK, MaxMade
  <2>5. ServerTypeOK'
    BY <2>1, <2>4 DEF ServerTypeOK
  <2>6. RegisteredIsOpen' /\ BufferFilled'
    BY <2>1 DEF ServerTypeOK, RegisteredIsOpen, BufferFilled
  <2>7. OneDB' /\ HiddenByFlush'
    BY <2>1, <2>2 DEF OneDB, HiddenByFlush, ServerTypeOK, MaxMade
  <2> QED
    BY <2>3, <2>5, <2>6, <2>7
<1>4. CASE GetState(c)
  <2> DEFINE r == Head(toServer[c])[2]
  <2>1. /\ UNCHANGED <<up, toClient, command, inited, glock, streams, slock_glock, flushed, flushing,
                       dbs, made, pending>>
        /\ session[c] = "reading" /\ session' = [session EXCEPT ![c] = "state"]
        /\ toServer[c] # <<>> /\ Head(toServer[c])[1] = "STATE"
        /\ wbuf' = [wbuf EXCEPT ![c] = r]
        /\ garbled' = IF glock[c] \in Requests THEN garbled \cup {wbuf[c]} ELSE garbled
        /\ toServer' = Received(toServer, c)
    BY <1>4 DEF GetState, Reads, SessionAt, Encoded
  <2>2. Head(toServer[c]) \in ToServer
    BY <2>1, HeadTyped DEF NetworkTypeOK
  <2>3. r \in Requests
    BY <2>1, <2>2, CommandHasRequest
  <2> HIDE DEF r
  <2>4. NetworkTypeOK'
    BY <2>1, ReceivedTyped DEF NetworkTypeOK
  <2>5. ServerTypeOK'
    BY <2>1, <2>3 DEF ServerTypeOK, BufferFilled
  <2>6. RegisteredIsOpen' /\ BufferFilled'
    BY <2>1, <2>3 DEF ServerTypeOK, RegisteredIsOpen, BufferFilled
  <2>7. OneDB' /\ HiddenByFlush'
    BY <2>1 DEF OneDB, HiddenByFlush
  <2> QED
    BY <2>4, <2>5, <2>6, <2>7
<1>5. CASE WriteState(c)
  <2>1. /\ UNCHANGED <<up, toServer, command, inited, glock, wbuf, streams, slock_glock, flushed,
                       flushing, dbs, made, pending, garbled>>
        /\ session[c] = "state" /\ session' = [session EXCEPT ![c] = "reading"]
        /\ toClient' = Sent(toClient, c, <<"RESULT", wbuf[c]>>)
    BY <1>5 DEF WriteState, SessionAt
  <2>2. <<"RESULT", wbuf[c]>> \in ToClient
    BY <2>1 DEF ToClient, BufferFilled
  <2>3. NetworkTypeOK'
    BY <2>1, <2>2, SentTyped DEF NetworkTypeOK
  <2>4. ServerTypeOK' /\ RegisteredIsOpen' /\ BufferFilled'
    BY <2>1 DEF ServerTypeOK, RegisteredIsOpen, BufferFilled
  <2>5. OneDB' /\ HiddenByFlush'
    BY <2>1 DEF OneDB, HiddenByFlush
  <2> QED
    BY <2>3, <2>4, <2>5
<1>6. CASE CloseBegins(c)
  <2>1. /\ UNCHANGED <<net, command, inited, wbuf, streams, slock_glock, flushed, flushing, dbs, made,
                       pending, garbled>>
        /\ session[c] = "reading" /\ session' = [session EXCEPT ![c] = "closing"]
        /\ glock' = [glock EXCEPT ![c] = "close"]
    BY <1>6 DEF CloseBegins, SessionAt
  <2>2. NetworkTypeOK'
    BY <2>1 DEF NetworkTypeOK, net
  <2>3. ServerTypeOK' /\ RegisteredIsOpen' /\ BufferFilled'
    BY <2>1, NetworkConstants DEF ServerTypeOK, RegisteredIsOpen, BufferFilled
  <2>4. OneDB' /\ HiddenByFlush'
    BY <2>1 DEF OneDB, HiddenByFlush
  <2> QED
    BY <2>2, <2>3, <2>4
<1>7. CASE CloseEnds(c)
  <2>1. /\ UNCHANGED <<net, command, wbuf, slock_glock, flushed, flushing, dbs, made, pending, garbled>>
        /\ session[c] = "closing" /\ session' = [session EXCEPT ![c] = "closed"]
        /\ inited' = [inited EXCEPT ![c] = FALSE]
        /\ streams' = IF inited[c] /\ streams = c THEN NIL ELSE streams
        /\ glock' = [glock EXCEPT ![c] = NIL]
    BY <1>7 DEF CloseEnds, SessionAt, Deregistered
  <2>2. NetworkTypeOK'
    BY <2>1 DEF NetworkTypeOK, net
  <2>3. ServerTypeOK' /\ BufferFilled'
    BY <2>1, NetworkConstants DEF ServerTypeOK, BufferFilled
  \* The session that closes was not the registered one, or is not any more.
  <2>4. RegisteredIsOpen'
    <3>1. streams' # NIL => streams' = streams /\ streams # c
      BY <2>1 DEF ServerTypeOK, RegisteredIsOpen
    <3> QED
      BY <2>1, <3>1 DEF ServerTypeOK, RegisteredIsOpen
  <2>5. OneDB' /\ HiddenByFlush'
    BY <2>1 DEF OneDB, HiddenByFlush
  <2> QED
    BY <2>2, <2>3, <2>4, <2>5
<1> QED
  BY <1>1, <1>2, <1>3, <1>4, <1>5, <1>6, <1>7 DEF SessionStep

\* A result is filled in and sent, or lost with a session that is closed.
LEMMA ResultKeeps ==
  ASSUME NetworkTypeOK, ServerPart, ResultStep
  PROVE  NetworkTypeOK' /\ ServerPart'
<1> USE DEF ServerPart
<1>1. ASSUME NEW r \in Requests, FillResult(r) PROVE NetworkTypeOK' /\ ServerPart'
  <2> DEFINE c == pending[r]
  <2>1. c \in Connections
    BY <1>1 DEF FillResult, ServerTypeOK
  <2>2. /\ UNCHANGED <<net, session, command, inited, streams, slock_glock, flushed, flushing, dbs,
                       made, pending>>
        /\ glock' = [glock EXCEPT ![c] = r] /\ wbuf' = [wbuf EXCEPT ![c] = r]
        /\ garbled' = IF session[c] = "state" THEN garbled \cup {wbuf[c]} ELSE garbled
    BY <1>1 DEF FillResult, Encoded
  <2> HIDE DEF c
  <2>3. NetworkTypeOK'
    BY <2>2 DEF NetworkTypeOK, net
  <2>4. ServerTypeOK' /\ RegisteredIsOpen' /\ BufferFilled'
    BY <2>1, <2>2 DEF ServerTypeOK, RegisteredIsOpen, BufferFilled
  <2>5. OneDB' /\ HiddenByFlush'
    BY <2>2 DEF OneDB, HiddenByFlush
  <2> QED
    BY <2>3, <2>4, <2>5
<1>2. ASSUME NEW c \in Connections, SendResult(c) PROVE NetworkTypeOK' /\ ServerPart'
  <2>1. /\ UNCHANGED <<up, toServer, session, command, inited, wbuf, streams, slock_glock, flushed, dbs,
                       made, garbled>>
        /\ glock[c] \in Requests /\ glock' = [glock EXCEPT ![c] = NIL]
        /\ pending' = [pending EXCEPT ![glock[c]] = NIL]
        /\ flushing' = flushing \ {glock[c]}
        /\ toClient' = Sent(toClient, c, <<"RESULT", wbuf[c]>>)
    BY <1>2 DEF SendResult, Released
  <2>2. <<"RESULT", wbuf[c]>> \in ToClient
    BY <2>1 DEF ToClient, BufferFilled
  <2>3. NetworkTypeOK'
    BY <2>1, <2>2, SentTyped DEF NetworkTypeOK
  <2>4. ServerTypeOK' /\ RegisteredIsOpen' /\ BufferFilled'
    BY <2>1, NetworkConstants DEF ServerTypeOK, RegisteredIsOpen, BufferFilled
  <2>5. OneDB' /\ HiddenByFlush'
    BY <2>1 DEF OneDB, HiddenByFlush
  <2> QED
    BY <2>3, <2>4, <2>5
<1>3. ASSUME NEW r \in Requests, LoseResult(r) PROVE NetworkTypeOK' /\ ServerPart'
  <2>1. /\ UNCHANGED <<net, session, command, inited, glock, wbuf, streams, slock_glock, flushed, dbs,
                       made, garbled>>
        /\ flushing' = flushing \ {r}
        /\ pending' = [pending EXCEPT ![r] = IF inited[pending[r]] THEN streams ELSE NIL]
    BY <1>3 DEF LoseResult
  <2>2. NetworkTypeOK'
    BY <2>1 DEF NetworkTypeOK, net
  <2>3. ServerTypeOK'
    BY <2>1 DEF ServerTypeOK
  <2>4. RegisteredIsOpen' /\ BufferFilled' /\ OneDB' /\ HiddenByFlush'
    BY <2>1 DEF RegisteredIsOpen, BufferFilled, OneDB, HiddenByFlush
  <2> QED
    BY <2>2, <2>3, <2>4
<1> QED
  BY <1>1, <1>2, <1>3 DEF ResultStep

\* A flush hides the databases and FLUSHDB puts them back.
LEMMA FlushKeeps ==
  ASSUME NetworkTypeOK, ServerPart, (\E kind \in {"db", "all"} : Flush(kind)) \/ FlushEnds
  PROVE  NetworkTypeOK' /\ ServerPart'
<1> USE DEF ServerPart
<1>1. UNCHANGED <<net, session, command, inited, glock, wbuf, streams, made, pending, garbled>>
  BY DEF Flush, FlushEnds
<1>2. NetworkTypeOK'
  BY <1>1 DEF NetworkTypeOK, net
<1>3. /\ slock_glock' \in {"free", "flush"} /\ flushed' \in {"none", "db", "all"}
      /\ dbs' \in 0..MaxMade /\ flushing' \subseteq Requests
  BY DEF ServerTypeOK, Flush, FlushEnds, Pending, MaxMade
<1>4. ServerTypeOK'
  BY <1>1, <1>3 DEF ServerTypeOK
<1>5. RegisteredIsOpen' /\ BufferFilled'
  BY <1>1 DEF RegisteredIsOpen, BufferFilled
<1>6. OneDB' /\ HiddenByFlush'
  <2>1. CASE \E kind \in {"db", "all"} : Flush(kind)
    <3>1. /\ dbs # 0 /\ flushed = "none" /\ slock_glock' = "flush" /\ flushed' \in {"db", "all"}
          /\ dbs' = 0 /\ made' = made
      BY <2>1 DEF Flush
    <3> QED
      BY <3>1 DEF OneDB, HiddenByFlush
  <2>2. CASE FlushEnds
    <3>1. /\ slock_glock = "flush" /\ slock_glock' = "free" /\ flushed' = flushed /\ made' = made
          /\ dbs' = IF flushed = "db" THEN made ELSE dbs
      BY <2>2 DEF FlushEnds
    <3> QED
      BY <3>1 DEF OneDB, HiddenByFlush, ServerTypeOK
  <2> QED
    BY <2>1, <2>2
<1> QED
  BY <1>2, <1>5, <1>6, <1>4
-----------------------------------------------------------------------------
(* The theorems.                                                             *)

\* The client starts with one connection the server has initialised.
LEMMA SessionInit == Init => SessionInv
<1> SUFFICES ASSUME Init PROVE SessionInv
  OBVIOUS
<1>1. 1 \in Connections
  BY NetworkConstants DEF Connections
<1>2. NetworkTypeOK
  BY DEF Init, NetworkTypeOK
<1>3. ClientPart
  <2>1. ClientTypeOK
    <3>1. waiter \in [Requests -> Seq({"nil", "result"})]
      BY DEF Init, ClientInit
    <3>2. handle \in [Connections -> {"none", "reading", "done"}]
      BY DEF Init, ClientInit
    <3>3. caller \in [Requests -> {"idle", "write", "wait", "failed", "answered"}]
      BY DEF Init, ClientInit
    <3> QED
      BY <1>1, <3>1, <3>2, <3>3 DEF Init, ClientInit, ClientTypeOK
  <2>2. RegisteredUntold /\ ToldOnce /\ Dialled
    BY DEF Init, ClientInit, RegisteredUntold, ToldOnce, Dialled
  <2> QED
    BY <2>1, <2>2 DEF ClientPart
<1>4. ServerPart
  <2>1. ServerTypeOK
    <3>1. inited \in [Connections -> BOOLEAN]
      BY Zenon DEF Init, ServerInit
    <3> QED
      BY <1>1, <3>1 DEF Init, ServerInit, ServerTypeOK, MaxMade
  <2>2. BufferFilled /\ RegisteredIsOpen
    BY <1>1, NetworkConstants DEF Init, ServerInit, BufferFilled, RegisteredIsOpen
  <2>3. OneDB /\ HiddenByFlush
    BY DEF Init, ServerInit, OneDB, HiddenByFlush
  <2> QED
    BY <2>1, <2>2, <2>3 DEF ServerPart
<1> QED
  BY <1>2, <1>3, <1>4, Parts

\* Every step of the client, the server or the network keeps SessionInv.
LEMMA SessionStepKeeps == SessionInv /\ [Next]_vars => SessionInv'
<1> SUFFICES ASSUME SessionInv, [Next]_vars PROVE SessionInv'
  OBVIOUS
<1>1. NetworkTypeOK /\ ClientPart /\ ServerPart
  BY Parts
<1>2. (NetworkTypeOK /\ ClientPart /\ ServerPart)' => SessionInv'
  BY Parts DEF SessionInv, TypeOK, ClientPart, ServerPart
<1>3. CASE ClientStep
  BY <1>1, <1>2, <1>3, ClientKeeps, ServerKept DEF ClientStep
<1>4. CASE ServerStep
  BY <1>1, <1>2, <1>4, SessionKeeps, ResultKeeps, FlushKeeps, ClientKept DEF ServerStep
<1>5. CASE NetworkStep
  <2>1. PICK c \in Connections : Break(c)
    BY <1>5 DEF NetworkStep
  <2>2. up' \in [Connections -> {"unused", "up", "broken"}]
    BY <1>1, <2>1 DEF Break, NetworkTypeOK
  <2>3. toServer' \in [Connections -> Seq(ToServer)]
    BY <1>1, <2>1, PrefixTyped DEF Break, NetworkTypeOK
  <2>4. toClient' \in [Connections -> Seq(ToClient)]
    BY <1>1, <2>1, PrefixTyped DEF Break, NetworkTypeOK
  <2>5. NetworkTypeOK'
    BY <2>2, <2>3, <2>4 DEF NetworkTypeOK
  <2> QED
    BY <1>1, <1>2, <1>5, <2>5, ClientKept, ServerKept DEF NetworkStep
<1>6. CASE UNCHANGED vars
  <2>1. NetworkTypeOK' /\ UNCHANGED <<client, server>>
    BY <1>1, <1>6 DEF vars, net, NetworkTypeOK
  <2> QED
    BY <1>1, <1>2, <2>1, ClientKept, ServerKept
<1> QED
  BY <1>3, <1>4, <1>5, <1>6 DEF Next

\* The inductive invariant holds in every state.
LEMMA SessionInvariant == Spec => []SessionInv
BY SessionInit, SessionStepKeeps, PTL DEF Spec

\* No request's channel is ever sent a second value, whichever of the result, a
\* reconnection and Close comes first, so that its sender never blocks.
THEOREM RequestsToldOnce == Spec => []ToldOnce
<1>1. SessionInv => ToldOnce
  BY DEF SessionInv
<1> QED
  BY <1>1, SessionInvariant, PTL

\* SLock's registries are right in whatever order the sessions of a client begin
\* and close, and a database is made once unless FLUSHALL lost it.
THEOREM RegistriesRight == Spec => []RegistryInv
<1>1. SessionInv => RegistryInv
  BY DEF SessionInv, RegistryInv
<1> QED
  BY <1>1, SessionInvariant, PTL
=============================================================================
