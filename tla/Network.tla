------------------------------ MODULE Network ------------------------------
(* The TCP connections between one client and the server: each carries      *)
(* messages in order both ways until it breaks. A break keeps any prefix of *)
(* what is under way; the reader gets that prefix and then an error.        *)
EXTENDS Integers, Sequences, FiniteSets

CONSTANTS Requests,      \* request ids of the client's commands
          StateRequests, \* the ones that may be STATE commands; LOCKs and UNLOCKs are alike here
          MaxConnections, NIL

Connections == 1..MaxConnections

ASSUME NetworkConstants ==
  MaxConnections \in Nat \ {0} /\ StateRequests \subseteq Requests
  /\ NIL \notin Requests \cup Connections /\ "close" \notin Requests

VARIABLES up, toServer, toClient

net == <<up, toServer, toClient>>

ToServer == {<<"INIT">>} \cup ({"LOCK", "STATE"} \X Requests)
ToClient == ({"INITED"} \X {0, 1}) \cup ({"RESULT"} \X Requests)

NetworkTypeOK ==
  /\ up \in [Connections -> {"unused", "up", "broken"}]
  /\ toServer \in [Connections -> Seq(ToServer)]
  /\ toClient \in [Connections -> Seq(ToClient)]

\* What a write leaves on its way: nothing once the connection is broken.
Sent(line, c, m) == IF up[c] = "up" THEN [line EXCEPT ![c] = Append(@, m)] ELSE line

Received(line, c) == [line EXCEPT ![c] = Tail(@)]

Ended(line, c) == up[c] = "broken" /\ line[c] = <<>>

Break(c) ==
  /\ up[c] = "up"
  /\ up' = [up EXCEPT ![c] = "broken"]
  /\ \E i \in 0..Len(toServer[c]) : toServer' = [toServer EXCEPT ![c] = SubSeq(@, 1, i)]
  /\ \E i \in 0..Len(toClient[c]) : toClient' = [toClient EXCEPT ![c] = SubSeq(@, 1, i)]
=============================================================================
