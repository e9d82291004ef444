----------------------------- MODULE Connection -----------------------------
(* A client and the server over connections that may break: ClientConn and  *)
(* ServerSession composed over Network.                                     *)
EXTENDS ClientConn, ServerSession

vars == <<net, client, server>>

TypeOK == NetworkTypeOK /\ ClientTypeOK /\ ServerTypeOK

Init ==
  /\ up = [c \in Connections |-> IF c = 1 THEN "up" ELSE "unused"]
  /\ toServer = [c \in Connections |-> <<>>] /\ toClient = [c \in Connections |-> <<>>]
  /\ ClientInit /\ ServerInit

ClientStep ==
  /\ (\E r \in Requests : CallerStep(r)) \/ (\E c \in Connections : ReadStep(c))
     \/ ReopenStep \/ Close
  /\ UNCHANGED server

ServerStep ==
  /\ (\E c \in Connections : SessionStep(c)) \/ ResultStep
     \/ (\E kind \in {"db", "all"} : Flush(kind)) \/ FlushEnds
  /\ UNCHANGED client

NetworkStep == (\E c \in Connections : Break(c)) /\ UNCHANGED <<client, server>>

\* A panic ends the client, and what is followed here.
Next == ~panicked /\ (ClientStep \/ ServerStep \/ NetworkStep)

Spec == Init /\ [][Next]_vars

\* What the two programs do of themselves; nobody has to close the client, flush
\* a database or break a connection.
Progress ==
  /\ ~panicked
  /\ \/ /\ (\E r \in Requests : CallerStep(r)) \/ (\E c \in Connections : ReadStep(c))
           \/ ReopenStep \/ (closing /\ Close)
        /\ UNCHANGED server
     \/ /\ (\E c \in Connections : SessionStep(c)) \/ ResultStep \/ FlushEnds
        /\ UNCHANGED client

\* Goroutines that can go on do, and a database answers every command it has
\* (LockDB). With the bounds no step can be taken for ever, so that one weak
\* fairness says as much as one for every goroutine.
FairSpec == Spec /\ WF_vars(Progress)
-----------------------------------------------------------------------------
(* Properties.                                                              *)

\* A request's channel, which holds one value, is sent at most one: by the
\* result, by a reconnection that gives it up or by Close, never by two of them,
\* which would leave the goroutine that reads results waiting.
ToldOnce == \A r \in Requests : Len(waiter[r]) <= 1

\* The session SLock.streams leads to is initialised and not closed, whatever
\* order the sessions of a client are initialised and closed in.
RegisteredIsOpen ==
  streams # NIL => inited[streams] /\ session[streams] # "closed"

\* The database of an id is made once, by whichever sessions find it missing and
\* also while FLUSHDB has hidden it; only FLUSHALL, which forgets to put the
\* databases back, leads to another.
OneDB == flushed # "all" => made <= 1

\* SLock's registries: every session and every database is in them once, or not
\* any more, however sessions begin, close and race with a flush.
RegistryInv == TypeOK /\ RegisteredIsOpen /\ OneDB

\* A session that closes holds its own lock and waits for SLock's, a flush holds
\* SLock's and waits for the session's to answer one of its requests.
Embrace ==
  slock_glock = "flush" /\ \E c \in Connections : glock[c] = "close" /\ PendingOf(c) \cap flushing # {}

\* What nothing is promised for: the client is gone, or the server's two locks are
\* held in an embrace.
Excused == panicked \/ Embrace

\* Every command that is sent ends with its result or an error, over breaks,
\* reconnections, flushes and Close, unless it was kept over a reconnection (the
\* server's answer then finds its session closed) or its result was overwritten:
\* again and again nobody else waits. A request is sent once, so that none can wait
\* while others take turns.
RequestsEnd == []<>(Excused \/ \A r \in Requests \ (orphaned \cup garbled) : caller[r] # "wait")

\* A session whose connection is broken is closed, and stays so.
SessionsClose == []<>(Excused \/ \A c \in Connections : up[c] = "broken" => session[c] = "closed")
=============================================================================
