----------------------------- MODULE ClientConn -----------------------------
(* The client of client/slock.go and client/db.go: callers that send a      *)
(* command and wait for its result, the goroutine that reads results, and   *)
(* the reconnection. Client.glock is held throughout Reopen; what is done   *)
(* under Database.glock is one step. The database object exists already.    *)
EXTENDS Network

VARIABLES
  protocol,     \* Client.protocol: its connection, or NIL
  is_stop, dbClosed,
  requests,     \* Database.requests
  waiter,       \* what was sent to a request's channel, in order
  caller,       \* where SendLockCommand or SendStateCommand is, per request
  handle,       \* where Handle is, per connection
  opener,       \* where Reopen is: "none" when nobody holds Client.glock
  opening,      \* the connection Open has dialled
  closing,      \* Reopen has left a goroutine to call Close
  panicked,     \* a nil pointer ended the process
  orphaned      \* history: requests kept over a reconnection

client == <<protocol, is_stop, dbClosed, requests, waiter, caller, handle, opener, opening,
            closing, panicked, orphaned>>

ClientTypeOK ==
  /\ protocol \in Connections \cup {NIL} /\ opening \in Connections \cup {NIL}
  /\ is_stop \in BOOLEAN /\ dbClosed \in BOOLEAN /\ closing \in BOOLEAN /\ panicked \in BOOLEAN
  /\ requests \subseteq Requests /\ orphaned \subseteq Requests
  /\ waiter \in [Requests -> Seq({"nil", "result"})]
  /\ caller \in [Requests -> {"idle", "write", "wait", "failed", "answered"}]
  /\ handle \in [Connections -> {"none", "reading", "done"}]
  /\ opener \in {"none", "dial", "init"}

ClientInit ==
  /\ protocol = 1 /\ opening = NIL
  /\ is_stop = FALSE /\ dbClosed = FALSE /\ closing = FALSE /\ panicked = FALSE
  /\ requests = {} /\ orphaned = {}
  /\ waiter = [r \in Requests |-> <<>>]
  /\ caller = [r \in Requests |-> "idle"]
  /\ handle = [c \in Connections |-> IF c = 1 THEN "reading" ELSE "none"]
  /\ opener = "none"

\* A channel gets a value for every request of a set.
Told(rs, value) == [r \in Requests |-> IF r \in rs THEN Append(waiter[r], value) ELSE waiter[r]]

CallerAt(r, from, to) == caller[r] = from /\ caller' = [caller EXCEPT ![r] = to]
-----------------------------------------------------------------------------
(* SendLockCommand, SendUnLockCommand and SendStateCommand.                 *)

\* The check of client.protocol and the registration of the request. What may
\* come between the two may as well come before the write. A closed database has
\* no client, and reading client.protocol panics. Request ids are unique:
\* "request is used" does not happen.
Register(r) ==
  /\ caller[r] = "idle"
  /\ panicked' = dbClosed
  /\ \/ dbClosed /\ UNCHANGED <<caller, requests>>
     \/ ~dbClosed /\ protocol = NIL /\ CallerAt(r, "idle", "failed") /\ UNCHANGED requests
     \/ ~dbClosed /\ protocol # NIL /\ CallerAt(r, "idle", "write") /\ requests' = requests \cup {r}
  /\ UNCHANGED <<net, protocol, is_stop, dbClosed, waiter, handle, opener, opening, closing, orphaned>>

\* client.protocol is read a second time.
WritePanics(r) ==
  /\ caller[r] = "write" /\ (dbClosed \/ protocol = NIL)
  /\ panicked' = TRUE
  /\ UNCHANGED <<net, protocol, is_stop, dbClosed, requests, waiter, caller, handle, opener,
                 opening, closing, orphaned>>

Kinds(r) == IF r \in StateRequests THEN {"LOCK", "STATE"} ELSE {"LOCK"}

WriteCommand(r) ==
  /\ ~dbClosed /\ protocol # NIL
  /\ CallerAt(r, "write", "wait")
  /\ \E kind \in Kinds(r) : toServer' = Sent(toServer, protocol, <<kind, r>>)
  /\ UNCHANGED <<up, toClient, protocol, is_stop, dbClosed, requests, waiter, handle, opener,
                 opening, closing, panicked, orphaned>>

WriteFails(r) ==
  /\ ~dbClosed /\ protocol # NIL /\ up[protocol] = "broken"
  /\ CallerAt(r, "write", "failed")
  /\ requests' = requests \ {r}
  /\ UNCHANGED <<net, protocol, is_stop, dbClosed, waiter, handle, opener, opening, closing,
                 panicked, orphaned>>

TakeResult(r) ==
  /\ waiter[r] # <<>>
  /\ CallerAt(r, "wait", IF Head(waiter[r]) = "nil" THEN "failed" ELSE "answered")
  /\ UNCHANGED <<net, protocol, is_stop, dbClosed, requests, waiter, handle, opener, opening,
                 closing, panicked, orphaned>>
-----------------------------------------------------------------------------
(* Handle: the goroutine that reads.                                        *)

Forgotten_Not(r) == requests

\* HandleLockCommandResult and the two like it take the request out first.
Forgotten(r) == requests \ {r}

HandleCommand(c) ==
  /\ handle[c] = "reading" /\ ~is_stop /\ toClient[c] # <<>>
  /\ LET r == Head(toClient[c])[2]
     IN /\ waiter' = IF r \in requests THEN Told({r}, "result") ELSE waiter
        /\ requests' = IF r \in requests THEN Forgotten(r) ELSE requests
  /\ toClient' = Received(toClient, c)
  /\ UNCHANGED <<up, toServer, protocol, is_stop, dbClosed, caller, handle, opener, opening,
                 closing, panicked, orphaned>>

\* A read fails: the deferred function takes Client.glock, and keeps it when it
\* goes on to Reopen.
HandleEnds(c) ==
  /\ handle[c] = "reading" /\ (is_stop \/ Ended(toClient, c)) /\ opener = "none"
  /\ handle' = [handle EXCEPT ![c] = "done"]
  /\ protocol' = NIL
  /\ up' = [up EXCEPT ![c] = "broken"]
  /\ opener' = IF is_stop THEN "none" ELSE "dial"
  /\ UNCHANGED <<toServer, toClient, is_stop, dbClosed, requests, waiter, caller, opening,
                 closing, panicked, orphaned>>
-----------------------------------------------------------------------------
(* Reopen: Open and InitProtocol until they succeed.                        *)

\* Dialling may fail any number of times, which changes nothing.
Open(c) ==
  /\ opener = "dial" /\ up[c] = "unused" /\ \A d \in 1..(c - 1) : up[d] # "unused"
  /\ up' = [up EXCEPT ![c] = "up"]
  /\ toServer' = [toServer EXCEPT ![c] = <<<<"INIT">>>>]
  /\ opener' = "init" /\ opening' = c
  /\ UNCHANGED <<toClient, protocol, is_stop, dbClosed, requests, waiter, caller, handle,
                 closing, panicked, orphaned>>

\* The requests InitProtocol gives up: the server knew nothing of the client.
GivenUp(initType) == IF initType = 0 THEN requests ELSE {}

InitProtocol ==
  /\ opener = "init" /\ toClient[opening] # <<>>
  /\ LET initType == Head(toClient[opening])[2]
     IN /\ waiter' = Told(GivenUp(initType), "nil")
        /\ requests' = requests \ GivenUp(initType)
        /\ orphaned' = IF initType = 1 THEN orphaned \cup requests ELSE orphaned
  /\ toClient' = Received(toClient, opening)
  /\ protocol' = opening /\ opener' = "none" /\ opening' = NIL
  /\ handle' = [handle EXCEPT ![opening] = "reading"]
  /\ UNCHANGED <<up, toServer, is_stop, dbClosed, caller, closing, panicked>>

InitFails ==
  /\ opener = "init" /\ Ended(toClient, opening)
  /\ opener' = "dial" /\ opening' = NIL
  /\ UNCHANGED <<net, protocol, is_stop, dbClosed, requests, waiter, caller, handle, closing,
                 panicked, orphaned>>

\* After 64 attempts a goroutine is left to close the client. Here the attempts
\* end when the connections do.
GiveUp ==
  /\ opener = "dial" /\ \A c \in Connections : up[c] # "unused"
  /\ opener' = "none" /\ closing' = TRUE
  /\ UNCHANGED <<net, protocol, is_stop, dbClosed, requests, waiter, caller, handle, opening,
                 panicked, orphaned>>

\* Close, by the user or because Reopen gave up, waits for Client.glock, so for a
\* Reopen under way. Database.Close tells every request.
Close ==
  /\ ~is_stop /\ opener = "none"
  /\ waiter' = Told(requests, "nil")
  /\ requests' = {} /\ dbClosed' = TRUE
  /\ up' = IF protocol = NIL THEN up ELSE [up EXCEPT ![protocol] = "broken"]
  /\ protocol' = NIL /\ is_stop' = TRUE
  /\ UNCHANGED <<toServer, toClient, caller, handle, opener, opening, closing, panicked, orphaned>>

CallerStep(r) ==
  Register(r) \/ WritePanics(r) \/ WriteCommand(r) \/ WriteFails(r) \/ TakeResult(r)

ReadStep(c) == HandleCommand(c) \/ HandleEnds(c)

ReopenStep == (\E c \in Connections : Open(c)) \/ InitProtocol \/ InitFails \/ GiveUp
=============================================================================
