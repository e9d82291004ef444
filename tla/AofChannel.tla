----------------------------- MODULE AofChannel -----------------------------
(* The channels of the append only log (AofChannel and the counters of Aof   *)
(* in server/aof.go): one goroutine per channel runs Handle, LockDB pushes   *)
(* records, LoadAndInit loads them, SLock.Close and Aof.Close stop them. The *)
(* goroutines agree on when to flush, when loading is over and when all have *)
(* stopped by an atomic counter, two Go channels and two flags that are read *)
(* without a lock. Files, and the end of a process other than by Close, are  *)
(* in Aof; here a record is only buffered or not.                            *)
EXTENDS Integers, Sequences, FiniteSets

CONSTANTS
  Channels,               \* 1..n: manager_max_glocks of them
  QueueSize,              \* aof_queue_size
  MaxPushes, MaxLoads     \* bounds: records pushed, records in the files

ASSUME ChannelConstants ==
  /\ Channels = 1..Cardinality(Channels) /\ IsFiniteSet(Channels) /\ Channels # {}
  /\ QueueSize \in Nat \ {0} /\ MaxPushes \in Nat /\ MaxLoads \in Nat

VARIABLES
  channel,                \* the Go channel of each: "push", "load" or "nil"
  at,                     \* where the goroutine of each is in Handle
  aof_lock,               \* what it received
  closed,                 \* AofChannel.closed
  actived_channel_count, channel_count,
  is_stop,                \* Aof.is_stop
  boot,                   \* where LoadAndInit is
  closer, closing,        \* where SLock.Close is, and at which channel
  buffered,               \* records in the write buffer of aof_file
  pushes, loads

handlers == <<channel, at, aof_lock, closed>>
counters == <<actived_channel_count, channel_count>>
mains == <<is_stop, boot, closer, closing>>
bounds == <<pushes, loads>>
vars == <<handlers, counters, mains, buffered, bounds>>

Locations == {"start", "select", "handle", "unactive", "flush", "test", "receive",
              "received", "stop", "stopped"}

TypeOK ==
  /\ channel \in [Channels -> Seq({"push", "load", "nil"})]
  /\ \A c \in Channels : Len(channel[c]) <= QueueSize
  /\ at \in [Channels -> Locations]
  /\ aof_lock \in [Channels -> {"push", "load", "nil"}]
  /\ closed \in [Channels -> BOOLEAN]
  /\ actived_channel_count \in Nat /\ channel_count \in Nat
  /\ is_stop \in BOOLEAN
  /\ boot \in {"load", "waiter", "wait", "leader"}
  /\ closer \in {"up", "send", "mark", "aof", "wait", "down"} /\ closing \in Channels
  /\ buffered \in Nat /\ pushes \in 0..MaxPushes /\ loads \in 0..MaxLoads
-----------------------------------------------------------------------------
(* Sending. A Go channel that is full blocks the sender.                     *)

Send(c, message) ==
  /\ Len(channel[c]) < QueueSize
  /\ channel' = [channel EXCEPT ![c] = Append(@, message)]

\* LockDB persists a lock or a release. It does not look at closed, and is_stop
\* of the channel is set last: what it sends in between is never received.
Push(c) ==
  /\ boot = "leader" /\ at[c] # "stopped" /\ pushes < MaxPushes
  /\ Send(c, "push")
  /\ pushes' = pushes + 1
  /\ UNCHANGED <<at, aof_lock, closed, counters, mains, buffered, loads>>

Load(c) ==
  /\ boot = "load" /\ loads < MaxLoads
  /\ Send(c, "load")
  /\ loads' = loads + 1
  /\ UNCHANGED <<at, aof_lock, closed, counters, mains, buffered, pushes>>
-----------------------------------------------------------------------------
(* The goroutine of a channel.                                               *)

Goto(c, location) == at' = [at EXCEPT ![c] = location]

ChannelActive == actived_channel_count' = actived_channel_count + 1

Start(c) ==
  /\ at[c] = "start"
  /\ ChannelActive /\ Goto(c, "select")
  /\ UNCHANGED <<channel, aof_lock, closed, channel_count, mains, buffered, bounds>>

Receive(c) ==
  /\ channel[c] # <<>>
  /\ channel' = [channel EXCEPT ![c] = Tail(@)]
  /\ aof_lock' = [aof_lock EXCEPT ![c] = Head(channel[c])]

\* The first case of the select; a nil is dropped.
SelectReceive(c) ==
  /\ at[c] = "select"
  /\ Receive(c)
  /\ Goto(c, IF Head(channel[c]) = "nil" THEN "select" ELSE "handle")
  /\ UNCHANGED <<closed, counters, mains, buffered, bounds>>

\* Its default: ChannelUnActive counts down first.
SelectDefault(c) ==
  /\ at[c] = "select" /\ channel[c] = <<>>
  /\ actived_channel_count' = actived_channel_count - 1
  /\ Goto(c, "unactive")
  /\ UNCHANGED <<channel, aof_lock, closed, channel_count, mains, buffered, bounds>>

\* It reads the counter again, when others may have counted.
ReadCounter(c) ==
  /\ at[c] = "unactive"
  /\ Goto(c, IF actived_channel_count = 0 THEN "flush" ELSE "test")
  /\ UNCHANGED <<channel, aof_lock, closed, counters, mains, buffered, bounds>>

FlushAndSignal_KeepsBuffer(c) ==
  /\ at[c] = "flush"
  /\ boot' = IF boot = "wait" THEN "leader" ELSE boot
  /\ Goto(c, "test")
  /\ UNCHANGED <<channel, aof_lock, closed, counters, is_stop, closer, closing, buffered, bounds>>

FlushAndSignal_Silent(c) ==
  /\ at[c] = "flush"
  /\ buffered' = IF is_stop THEN buffered ELSE 0
  /\ Goto(c, "test")
  /\ UNCHANGED <<channel, aof_lock, closed, counters, mains, bounds>>

\* Under aof_file_glock: Flush, which does nothing after is_stop, and the
\* signal LoadAndInit may be waiting for.
FlushAndSignal(c) ==
  /\ at[c] = "flush"
  /\ buffered' = IF is_stop THEN buffered ELSE 0
  /\ boot' = IF boot = "wait" THEN "leader" ELSE boot
  /\ Goto(c, "test")
  /\ UNCHANGED <<channel, aof_lock, closed, counters, is_stop, closer, closing, bounds>>

TestClosed(c) ==
  /\ at[c] = "test"
  /\ Goto(c, IF closed[c] THEN "stop" ELSE "receive")
  /\ UNCHANGED <<channel, aof_lock, closed, counters, mains, buffered, bounds>>

\* The blocking receive.
BlockingReceive(c) ==
  /\ at[c] = "receive"
  /\ Receive(c)
  /\ Goto(c, "received")
  /\ UNCHANGED <<closed, counters, mains, buffered, bounds>>

AfterReceive_StillUnActive(c) ==
  /\ at[c] = "received"
  /\ Goto(c, IF aof_lock[c] = "nil" THEN IF closed[c] THEN "stop" ELSE "select" ELSE "handle")
  /\ UNCHANGED <<channel, aof_lock, closed, counters, mains, buffered, bounds>>

AfterReceive(c) ==
  /\ at[c] = "received"
  /\ IF aof_lock[c] = "nil" /\ closed[c]
       THEN Goto(c, "stop") /\ UNCHANGED actived_channel_count
       ELSE /\ Goto(c, IF aof_lock[c] = "nil" THEN "select" ELSE "handle")
            /\ ChannelActive
  /\ UNCHANGED <<channel, aof_lock, closed, channel_count, mains, buffered, bounds>>

\* A pushed record goes to the buffer of aof_file; a loaded one goes to LockDB,
\* with flags that keep it from being pushed again.
HandleLock(c) ==
  /\ at[c] = "handle"
  /\ buffered' = IF aof_lock[c] = "push" THEN buffered + 1 ELSE buffered
  /\ Goto(c, "select")
  /\ UNCHANGED <<channel, aof_lock, closed, counters, mains, bounds>>

\* Under Aof.glock, which CloseAofChannel keeps between its two steps.
Marking == closer = "mark"

ChannelStop_Unsignalled(c) ==
  /\ at[c] = "stop" /\ ~Marking
  /\ Goto(c, "stopped")
  /\ channel_count' = channel_count - 1
  /\ UNCHANGED <<channel, aof_lock, closed, actived_channel_count, mains, buffered, bounds>>

ChannelStop(c) ==
  /\ at[c] = "stop" /\ ~Marking
  /\ Goto(c, "stopped")
  /\ channel_count' = channel_count - 1
  /\ closer' = IF channel_count = 1 /\ closer = "wait" THEN "down" ELSE closer
  /\ UNCHANGED <<channel, aof_lock, closed, actived_channel_count,
                 is_stop, boot, closing, buffered, bounds>>

Handle(c) ==
  \/ Start(c) \/ SelectReceive(c) \/ SelectDefault(c) \/ ReadCounter(c)
  \/ FlushAndSignal(c) \/ TestClosed(c) \/ BlockingReceive(c) \/ AfterReceive(c)
  \/ HandleLock(c) \/ ChannelStop(c)
-----------------------------------------------------------------------------
(* LoadAndInit after the last Load, and SLock.Close.                         *)

BootCheck ==
  /\ boot = "load"
  /\ boot' = IF actived_channel_count > 0 THEN "waiter" ELSE "leader"
  /\ UNCHANGED <<handlers, counters, is_stop, closer, closing, buffered, bounds>>

BootWaiter ==
  /\ boot = "waiter" /\ boot' = "wait"
  /\ UNCHANGED <<handlers, counters, is_stop, closer, closing, buffered, bounds>>

Boot == BootCheck \/ BootWaiter

\* LockDB.Close closes its channels one by one: a nil, then closed.
CloseBegin ==
  /\ boot = "leader" /\ closer = "up" /\ closer' = "send"
  /\ UNCHANGED <<handlers, counters, is_stop, boot, closing, buffered, bounds>>

CloseSend ==
  /\ closer = "send" /\ closer' = "mark"
  /\ Send(closing, "nil")
  /\ UNCHANGED <<at, aof_lock, closed, counters, is_stop, boot, closing, buffered, bounds>>

CloseMark ==
  /\ closer = "mark"
  /\ closed' = [closed EXCEPT ![closing] = TRUE]
  /\ IF closing + 1 \in Channels
       THEN closer' = "send" /\ closing' = closing + 1
       ELSE closer' = "aof" /\ UNCHANGED closing
  /\ UNCHANGED <<channel, at, aof_lock, counters, is_stop, boot, buffered, bounds>>

\* Aof.Close: is_stop first, then it waits for the channels, then the file is
\* closed with what is in its buffer.
AofClose ==
  /\ closer = "aof"
  /\ is_stop' = TRUE
  /\ closer' = IF channel_count > 0 THEN "wait" ELSE "down"
  /\ UNCHANGED <<handlers, counters, boot, closing, buffered, bounds>>

Close == CloseSend \/ CloseMark \/ AofClose
-----------------------------------------------------------------------------
Init ==
  /\ channel = [c \in Channels |-> <<>>]
  /\ at = [c \in Channels |-> "start"]
  /\ aof_lock = [c \in Channels |-> "nil"]
  /\ closed = [c \in Channels |-> FALSE]
  /\ actived_channel_count = 0 /\ channel_count = Cardinality(Channels)
  /\ is_stop = FALSE /\ boot = "load" /\ closer = "up" /\ closing = 1
  /\ buffered = 0 /\ pushes = 0 /\ loads = 0

Next ==
  \/ \E c \in Channels : Push(c) \/ Load(c) \/ Handle(c)
  \/ Boot
  \/ CloseBegin
  \/ Close

Spec == Init /\ [][Next]_vars

\* The Go scheduler runs every goroutine that can run. Nothing makes a client
\* push or an operator shut down.
Fairness == (\A c \in Channels : WF_vars(Handle(c))) /\ WF_vars(Boot) /\ WF_vars(Close)

FairSpec == Spec /\ Fairness
-----------------------------------------------------------------------------
(* Properties.                                                               *)

\* The goroutine waits for the next record, and there is none.
Waits(c) == at[c] \in {"receive", "stopped"} /\ channel[c] = <<>>

\* When no goroutine has anything left to do, the last of them to go idle has
\* flushed: however their counting interleaves, no record stays in the buffer.
\* After is_stop Flush is switched off and the buffer is lost at Close.
FlushedWhenIdle ==
  (~is_stop /\ \A c \in Channels : Waits(c)) => buffered = 0

\* actived_channel_count counts the goroutines between ChannelActive and
\* ChannelUnActive, so it cannot wrap below 0, after which no flush would come.
\* (With the types: the Go channels hold no more than aof_queue_size.)
ActiveCounted ==
  TypeOK /\ actived_channel_count = Cardinality({c \in Channels : at[c] \in {"select", "handle"}})

\* LoadAndInit comes out of its wait if a goroutine was still at work when it
\* made the waiter. (If the last one had just gone idle, the signal was already
\* given and LoadAndInit waits for ever.)
BootEnds ==
  (boot = "wait" /\ \E c \in Channels : at[c] # "test" /\ ~Waits(c)) ~> (boot = "leader")

\* Aof.Close comes out of its wait for the channels, unless one of them had
\* taken the nil and seen closed unset, just before it was set: that one waits
\* in its receive and never stops.
ShutdownEnds ==
  (closer = "wait" /\ \A c \in Channels : ~(at[c] = "receive" /\ channel[c] = <<>>))
    ~> (closer = "down")
=============================================================================
