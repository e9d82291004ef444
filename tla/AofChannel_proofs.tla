-------------------------- MODULE AofChannel_proofs --------------------------
(* What is proved of AofChannel for any number of channels, any size of their  *)
(* Go channels and any number of records: actived_channel_count counts the     *)
(* goroutines at work, and the last of them to go idle flushes.                *)
EXTENDS AofChannel, FiniteSetTheorems, TLAPS

Active == {c \in Channels : at[c] \in {"select", "handle"}}
Running == {c \in Channels : at[c] # "stopped"}

\* Where a goroutine is that has yet to flush, or to see that another will.
FlushAhead == {"select", "handle", "unactive", "flush"}

\* channel_count counts the goroutines that have not stopped; AofChannel keeps
\* it in Nat only for that reason.
RunningCounted == channel_count = Cardinality(Running)

\* While a record is in the buffer some goroutine still has its flush ahead.
\* (FlushedWhenIdle is not inductive: it says nothing of the goroutines on
\* their way to the receive.)
FlushComes == buffered > 0 /\ ~is_stop => \E c \in Channels : at[c] \in FlushAhead

ChannelInv == ActiveCounted /\ RunningCounted /\ FlushComes
-----------------------------------------------------------------------------
(* Counting a set of goroutines.                                             *)

\* A set of channels, however it is picked out, is finite and has a size.
LEMMA ChannelsFinite ==
  \A S : S \subseteq Channels => IsFiniteSet(S) /\ Cardinality(S) \in Nat
BY ChannelConstants, FS_Subset, FS_CardinalityType

\* One goroutine that joins a set is counted once.
LEMMA Joins ==
  ASSUME NEW S, S \subseteq Channels, NEW c \in Channels, c \notin S
  PROVE  Cardinality(S \cup {c}) = Cardinality(S) + 1
BY ChannelsFinite, FS_AddElement

\* One goroutine that leaves a set is discounted once, and the size was not 0.
LEMMA Leaves ==
  ASSUME NEW S, S \subseteq Channels, NEW c \in S
  PROVE  /\ Cardinality(S \ {c}) = Cardinality(S) - 1
         /\ Cardinality(S) > 0
<1>1. IsFiniteSet(S) /\ Cardinality(S) \in Nat /\ Cardinality(S \ {c}) \in Nat
  BY ChannelsFinite
<1>2. Cardinality(S \ {c}) = Cardinality(S) - 1
  BY <1>1, FS_RemoveElement
<1> QED
  BY <1>1, <1>2

\* When the counter is not 0 some goroutine is at work.
LEMMA SomeActive ==
  ASSUME Cardinality(Active) # 0
  PROVE  \E c \in Channels : at[c] \in {"select", "handle"}
<1>1. Active # {}
  BY FS_EmptySet
<1> QED
  BY <1>1 DEF Active

\* Where one goroutine goes decides the two sets: the others stay.
LEMMA Moves ==
  ASSUME TypeOK, NEW c \in Channels, NEW location \in Locations, Goto(c, location)
  PROVE  /\ at' \in [Channels -> Locations]
         /\ at'[c] = location
         /\ \A d \in Channels \ {c} : at'[d] = at[d]
         /\ Active' = IF location \in {"select", "handle"} THEN Active \cup {c} ELSE Active \ {c}
         /\ Running' = IF location # "stopped" THEN Running \cup {c} ELSE Running \ {c}
BY DEF TypeOK, Goto, Active, Running

\* A goroutine that goes on without joining or leaving the active ones changes
\* no count.
LEMMA MovesUncounted ==
  ASSUME ActiveCounted, RunningCounted, NEW c \in Channels, NEW location \in Locations,
         Goto(c, location), at[c] # "stopped", location # "stopped",
         at[c] \in {"select", "handle"} <=> location \in {"select", "handle"},
         UNCHANGED counters
  PROVE  /\ actived_channel_count' = Cardinality(Active') /\ actived_channel_count' \in Nat
         /\ RunningCounted' /\ channel_count' \in Nat
<1>1. TypeOK /\ actived_channel_count = Cardinality(Active)
  BY DEF ActiveCounted, Active
<1>2. Active' = Active /\ Running' = Running
  BY <1>1, Moves DEF Active, Running
<1> QED
  BY <1>1, <1>2 DEF RunningCounted, counters, TypeOK
-----------------------------------------------------------------------------
(* Sending and receiving.                                                    *)

Messages == {"push", "load", "nil"}

\* A sender never fills a Go channel beyond its size.
LEMMA Sends ==
  ASSUME TypeOK, NEW c \in Channels, NEW message \in Messages, Send(c, message)
  PROVE  /\ channel' \in [Channels -> Seq(Messages)]
         /\ \A d \in Channels : Len(channel'[d]) <= QueueSize
<1>1. channel \in [Channels -> Seq(Messages)] /\ \A d \in Channels : Len(channel[d]) <= QueueSize
  BY DEF TypeOK, Messages
<1>2. /\ Append(channel[c], message) \in Seq(Messages)
      /\ Len(Append(channel[c], message)) = Len(channel[c]) + 1
  BY <1>1
<1>3. Len(channel[c]) \in Nat /\ Len(channel[c]) < QueueSize /\ QueueSize \in Nat
  BY <1>1, ChannelConstants DEF Send
<1>4. channel' = [channel EXCEPT ![c] = Append(channel[c], message)]
  BY DEF Send
<1> HIDE DEF Messages
<1> QED
  BY <1>1, <1>2, <1>3, <1>4

\* A receiver gets the head and leaves the rest.
LEMMA Receives ==
  ASSUME TypeOK, NEW c \in Channels, Receive(c)
  PROVE  /\ channel' \in [Channels -> Seq(Messages)]
         /\ \A d \in Channels : Len(channel'[d]) <= QueueSize
         /\ aof_lock' \in [Channels -> Messages]
<1>1. /\ channel \in [Channels -> Seq(Messages)] /\ \A d \in Channels : Len(channel[d]) <= QueueSize
      /\ aof_lock \in [Channels -> Messages]
  BY DEF TypeOK, Messages
<1>2. /\ Tail(channel[c]) \in Seq(Messages) /\ Head(channel[c]) \in Messages
      /\ Len(Tail(channel[c])) = Len(channel[c]) - 1
      /\ Len(channel[c]) \in Nat
  BY <1>1 DEF Receive
<1>3. /\ channel' = [channel EXCEPT ![c] = Tail(channel[c])]
      /\ aof_lock' = [aof_lock EXCEPT ![c] = Head(channel[c])]
  BY DEF Receive
<1>4. QueueSize \in Nat
  BY ChannelConstants
<1> HIDE DEF Messages
<1> QED
  BY <1>1, <1>2, <1>3, <1>4
-----------------------------------------------------------------------------
(* Every step keeps ChannelInv.                                              *)

\* The steps that move no goroutine: they send, mark or change where the mains
\* are. What is buffered stays, and is_stop is at most set.
LEMMA OtherSteps ==
  ASSUME ChannelInv,
         (\E c \in Channels : Push(c) \/ Load(c)) \/ Boot \/ CloseBegin \/ Close
  PROVE  ChannelInv'
<1> USE DEF ChannelInv
<1>1. TypeOK /\ actived_channel_count = Cardinality(Active)
  BY DEF ActiveCounted, Active
<1>2. /\ UNCHANGED <<at, counters, buffered>>
      /\ is_stop => is_stop'
  BY DEF Push, Load, Boot, BootCheck, BootWaiter, CloseBegin, Close, CloseSend, CloseMark,
         AofClose, mains, handlers, counters
<1>3. Active' = Active /\ Running' = Running
  BY <1>2 DEF Active, Running
<1>4. RunningCounted' /\ FlushComes'
  BY <1>2, <1>3 DEF RunningCounted, FlushComes, counters
<1>5. TypeOK'
  <2>1. CASE \E c \in Channels : Push(c) \/ Load(c)
    <3>1. PICK c \in Channels : Push(c) \/ Load(c)
      BY <2>1
    <3>2. Send(c, "push") \/ Send(c, "load")
      BY <3>1 DEF Push, Load
    <3>3. /\ channel' \in [Channels -> Seq(Messages)]
          /\ \A d \in Channels : Len(channel'[d]) <= QueueSize
      BY <1>1, <3>2, Sends DEF Messages
    <3>4. pushes' \in 0..MaxPushes /\ loads' \in 0..MaxLoads
      BY <1>1, <3>1, ChannelConstants DEF TypeOK, Push, Load
    <3>5. UNCHANGED <<at, aof_lock, closed, counters, mains, buffered>>
      BY <3>1 DEF Push, Load
    <3> QED
      BY <1>1, <3>3, <3>4, <3>5 DEF TypeOK, mains, counters, Messages
  <2>2. CASE Boot \/ CloseBegin
    BY <1>1, <2>2 DEF TypeOK, Boot, BootCheck, BootWaiter, CloseBegin, handlers, counters, bounds
  <2>3. CASE CloseSend
    <3>1. closing \in Channels /\ Send(closing, "nil")
      BY <1>1, <2>3 DEF TypeOK, CloseSend
    <3>2. /\ channel' \in [Channels -> Seq(Messages)]
          /\ \A d \in Channels : Len(channel'[d]) <= QueueSize
      BY <1>1, <3>1, Sends DEF Messages
    <3> QED
      BY <1>1, <2>3, <3>2 DEF TypeOK, CloseSend, counters, bounds, Messages
  <2>4. CASE CloseMark
    BY <1>1, <2>4 DEF TypeOK, CloseMark, counters, bounds
  <2>5. CASE AofClose
    BY <1>1, <2>5 DEF TypeOK, AofClose, handlers, counters, bounds
  <2> QED
    BY <2>1, <2>2, <2>3, <2>4, <2>5 DEF Close
<1> QED
  BY <1>1, <1>2, <1>3, <1>4, <1>5 DEF ActiveCounted, Active, counters

\* Handle's steps that neither count nor flush.
LEMMA QuietSteps ==
  ASSUME ChannelInv, NEW c \in Channels,
         SelectReceive(c) \/ ReadCounter(c) \/ TestClosed(c) \/ BlockingReceive(c) \/ HandleLock(c)
  PROVE  ChannelInv'
<1>1. /\ TypeOK /\ ActiveCounted /\ RunningCounted /\ FlushComes
      /\ actived_channel_count = Cardinality(Active)
  BY DEF ChannelInv, ActiveCounted, Active
<1>2. PICK location \in Locations :
        /\ Goto(c, location) /\ at[c] # "stopped" /\ location # "stopped"
        /\ at[c] \in {"select", "handle"} <=> location \in {"select", "handle"}
  BY DEF SelectReceive, ReadCounter, TestClosed, BlockingReceive, HandleLock, Locations
<1>3. UNCHANGED <<closed, counters, mains, bounds>>
  BY DEF SelectReceive, ReadCounter, TestClosed, BlockingReceive, HandleLock
<1>4. /\ actived_channel_count' = Cardinality(Active') /\ actived_channel_count' \in Nat
      /\ RunningCounted' /\ channel_count' \in Nat
  BY <1>1, <1>2, <1>3, MovesUncounted
<1>5. /\ channel' \in [Channels -> Seq(Messages)]
      /\ \A d \in Channels : Len(channel'[d]) <= QueueSize
      /\ aof_lock' \in [Channels -> Messages]
  <2>1. CASE Receive(c)
    BY <1>1, <2>1, Receives
  <2>2. CASE UNCHANGED <<channel, aof_lock>>
    BY <1>1, <2>2 DEF TypeOK, Messages
  <2> QED
    BY <2>1, <2>2 DEF SelectReceive, ReadCounter, TestClosed, BlockingReceive, HandleLock
<1>6. buffered' \in Nat
  BY <1>1 DEF TypeOK, SelectReceive, ReadCounter, TestClosed, BlockingReceive, HandleLock
<1>7. TypeOK'
  BY <1>1, <1>2, <1>3, <1>4, <1>5, <1>6, Moves DEF TypeOK, mains, bounds, Messages
<1>8. FlushComes'
  <2>1. at'[c] \in FlushAhead => FlushComes'
    BY DEF FlushComes
  <2>2. \A d \in Channels \ {c} : at'[d] = at[d]
    BY <1>1, <1>2, Moves
  <2>3. CASE SelectReceive(c) \/ HandleLock(c)
    BY <1>1, <2>1, <2>3, Moves DEF SelectReceive, HandleLock, FlushAhead, Locations
  <2>4. CASE TestClosed(c) \/ BlockingReceive(c)
    BY <1>1, <1>3, <2>2, <2>4 DEF TestClosed, BlockingReceive, FlushAhead, FlushComes, mains
  \* The one that matters: it goes on to flush, or the counter it read tells
  \* that another goroutine is at work.
  <2>5. CASE ReadCounter(c)
    <3>1. CASE actived_channel_count = 0
      BY <1>1, <2>1, <2>5, <3>1, Moves DEF ReadCounter, FlushAhead, Locations
    <3>2. CASE actived_channel_count # 0
      <4>1. PICK d \in Channels : at[d] \in {"select", "handle"}
        BY <1>1, <3>2, SomeActive
      <4>2. d # c
        BY <2>5, <4>1 DEF ReadCounter
      <4> QED
        BY <2>2, <4>1, <4>2 DEF FlushComes, FlushAhead
    <3> QED
      BY <3>1, <3>2
  <2> QED
    BY <2>3, <2>4, <2>5
<1> QED
  BY <1>4, <1>7, <1>8 DEF ChannelInv, ActiveCounted, Active

\* ChannelActive counts a goroutine that was not active.
LEMMA ActiveSteps ==
  ASSUME ChannelInv, NEW c \in Channels, Start(c) \/ AfterReceive(c)
  PROVE  ChannelInv'
<1>1. /\ TypeOK /\ ActiveCounted /\ RunningCounted /\ FlushComes
      /\ actived_channel_count = Cardinality(Active)
  BY DEF ChannelInv, ActiveCounted, Active
<1>2. UNCHANGED <<channel, aof_lock, closed, channel_count, mains, buffered, bounds>>
  BY DEF Start, AfterReceive
<1>3. at[c] \in {"start", "received"} /\ c \notin Active /\ c \in Running
  BY DEF Start, AfterReceive, Active, Running
<1>4. PICK location \in {"select", "handle", "stop"} :
        /\ Goto(c, location)
        /\ actived_channel_count' = IF location = "stop" THEN actived_channel_count
                                    ELSE actived_channel_count + 1
  BY DEF Start, AfterReceive, ChannelActive
<1>5. location \in Locations /\ location # "stopped"
  BY DEF Locations
<1>6. /\ at' \in [Channels -> Locations] /\ \A d \in Channels \ {c} : at'[d] = at[d]
      /\ Active' = IF location \in {"select", "handle"} THEN Active \cup {c} ELSE Active
      /\ Running' = Running
  BY <1>1, <1>3, <1>4, <1>5, Moves
<1>7. actived_channel_count' = Cardinality(Active') /\ actived_channel_count' \in Nat
  <2>1. Active \subseteq Channels
    BY DEF Active
  <2>2. Cardinality(Active \cup {c}) = Cardinality(Active) + 1
    BY <1>3, <2>1, Joins
  <2>3. actived_channel_count \in Nat
    BY <1>1 DEF TypeOK
  <2> QED
    BY <1>1, <1>4, <1>6, <2>2, <2>3
<1>8. RunningCounted'
  BY <1>1, <1>2, <1>6 DEF RunningCounted
<1>9. FlushComes'
  BY <1>1, <1>2, <1>3, <1>6 DEF FlushComes, FlushAhead, mains
<1>10. TypeOK'
  BY <1>1, <1>2, <1>6, <1>7 DEF TypeOK, mains, bounds
<1> QED
  BY <1>7, <1>8, <1>9, <1>10 DEF ChannelInv, ActiveCounted, Active

\* ChannelUnActive discounts an active one, so that the counter does not wrap;
\* it has its flush, or the look at the counter, ahead.
LEMMA UnActiveStep ==
  ASSUME ChannelInv, NEW c \in Channels, SelectDefault(c)
  PROVE  ChannelInv'
<1>1. /\ TypeOK /\ ActiveCounted /\ RunningCounted /\ FlushComes
      /\ actived_channel_count = Cardinality(Active)
  BY DEF ChannelInv, ActiveCounted, Active
<1>2. /\ UNCHANGED <<channel, aof_lock, closed, channel_count, mains, buffered, bounds>>
      /\ actived_channel_count' = actived_channel_count - 1
      /\ Goto(c, "unactive")
  BY DEF SelectDefault
<1>3. c \in Active /\ c \in Running /\ Active \subseteq Channels
  BY DEF SelectDefault, Active, Running
<1>4. at' \in [Channels -> Locations] /\ at'[c] = "unactive"
      /\ Active' = Active \ {c} /\ Running' = Running
  BY <1>1, <1>2, <1>3, Moves DEF Locations
<1>5. actived_channel_count' = Cardinality(Active') /\ actived_channel_count' \in Nat
  <2>1. Cardinality(Active \ {c}) = Cardinality(Active) - 1 /\ Cardinality(Active) > 0
    BY <1>3, Leaves
  <2>2. actived_channel_count \in Nat
    BY <1>1 DEF TypeOK
  <2> QED
    BY <1>1, <1>2, <1>4, <2>1, <2>2
<1>6. RunningCounted' /\ FlushComes'
  BY <1>1, <1>2, <1>4 DEF RunningCounted, FlushComes, FlushAhead
<1>7. TypeOK'
  BY <1>1, <1>2, <1>4, <1>5 DEF TypeOK, mains, bounds
<1> QED
  BY <1>5, <1>6, <1>7 DEF ChannelInv, ActiveCounted, Active

\* After a flush nothing is buffered, and after is_stop nothing is promised.
LEMMA FlushStep ==
  ASSUME ChannelInv, NEW c \in Channels, FlushAndSignal(c)
  PROVE  ChannelInv'
<1>1. TypeOK /\ ActiveCounted /\ RunningCounted
  BY DEF ChannelInv, ActiveCounted
<1>2. /\ actived_channel_count' = Cardinality(Active') /\ actived_channel_count' \in Nat
      /\ RunningCounted' /\ channel_count' \in Nat
  BY <1>1, MovesUncounted DEF FlushAndSignal, Locations
<1>3. FlushComes'
  BY DEF FlushAndSignal, FlushComes
<1>4. at' \in [Channels -> Locations]
  BY <1>1, Moves DEF FlushAndSignal, Locations
<1>5. TypeOK'
  BY <1>1, <1>2, <1>4 DEF TypeOK, FlushAndSignal, bounds, counters
<1> QED
  BY <1>2, <1>3, <1>5 DEF ChannelInv, ActiveCounted, Active

\* ChannelStop discounts a goroutine that ran.
LEMMA StopStep ==
  ASSUME ChannelInv, NEW c \in Channels, ChannelStop(c)
  PROVE  ChannelInv'
<1>1. /\ TypeOK /\ ActiveCounted /\ RunningCounted /\ FlushComes
      /\ actived_channel_count = Cardinality(Active)
  BY DEF ChannelInv, ActiveCounted, Active
<1>2. /\ UNCHANGED <<channel, aof_lock, closed, actived_channel_count, is_stop, boot, closing, buffered, bounds>>
      /\ channel_count' = channel_count - 1 /\ at[c] = "stop"
      /\ closer' \in {"down", closer}
      /\ Goto(c, "stopped")
  BY DEF ChannelStop
<1>3. c \notin Active /\ c \in Running /\ Running \subseteq Channels
  BY <1>2 DEF Active, Running
<1>4. /\ at' \in [Channels -> Locations] /\ \A d \in Channels \ {c} : at'[d] = at[d]
      /\ Active' = Active /\ Running' = Running \ {c}
  BY <1>1, <1>2, <1>3, Moves DEF Locations
<1>5. RunningCounted' /\ channel_count' \in Nat
  <2>1. Cardinality(Running \ {c}) = Cardinality(Running) - 1 /\ Cardinality(Running) > 0
    BY <1>3, Leaves
  <2>2. channel_count \in Nat
    BY <1>1 DEF TypeOK
  <2> QED
    BY <1>1, <1>2, <1>4, <2>1, <2>2 DEF RunningCounted
<1>6. FlushComes'
  BY <1>1, <1>2, <1>4 DEF FlushComes, FlushAhead
<1>7. TypeOK'
  BY <1>1, <1>2, <1>4, <1>5 DEF TypeOK, bounds
<1>8. actived_channel_count' = Cardinality(Active')
  BY <1>1, <1>2, <1>4
<1> QED
  BY <1>5, <1>6, <1>7, <1>8 DEF ChannelInv, ActiveCounted, Active
-----------------------------------------------------------------------------
(* The theorems.                                                             *)

\* All the counts are right before any goroutine runs.
LEMMA ChannelInit == Init => ChannelInv
<1> SUFFICES ASSUME Init PROVE ChannelInv
  OBVIOUS
<1>1. Active = {} /\ Running = Channels
  BY DEF Init, Active, Running
<1>2. Cardinality(Active) = 0 /\ Cardinality(Channels) \in Nat
  BY <1>1, FS_EmptySet, ChannelsFinite
<1>3. 1 \in Channels
  <2>1. Cardinality(Channels) # 0
    BY ChannelConstants, FS_EmptySet
  <2> QED
    BY <1>2, <2>1, ChannelConstants
<1>4. channel \in [Channels -> Seq(Messages)] /\ \A c \in Channels : Len(channel[c]) <= QueueSize
  BY ChannelConstants DEF Init
<1>5. /\ at \in [Channels -> Locations] /\ aof_lock \in [Channels -> Messages]
      /\ closed \in [Channels -> BOOLEAN]
  BY DEF Init, Locations, Messages
<1>6. pushes \in 0..MaxPushes /\ loads \in 0..MaxLoads /\ channel_count \in Nat
  BY <1>2, ChannelConstants DEF Init
<1>7. TypeOK
  BY <1>3, <1>4, <1>5, <1>6 DEF Init, TypeOK, Messages
<1> QED
  BY <1>1, <1>2, <1>7 DEF Init, ChannelInv, ActiveCounted, Active, RunningCounted, FlushComes

\* Every step, of a goroutine, a session, the boot or the shutdown, keeps them.
LEMMA ChannelStep == ChannelInv /\ [Next]_vars => ChannelInv'
<1> SUFFICES ASSUME ChannelInv, [Next]_vars PROVE ChannelInv'
  OBVIOUS
<1>1. CASE UNCHANGED vars
  BY <1>1 DEF vars, handlers, counters, mains, bounds, ChannelInv, ActiveCounted, TypeOK,
              RunningCounted, Running, FlushComes
<1>2. ASSUME NEW c \in Channels, Handle(c) PROVE ChannelInv'
  BY <1>2, QuietSteps, ActiveSteps, UnActiveStep, FlushStep, StopStep DEF Handle
<1>3. CASE (\E c \in Channels : Push(c) \/ Load(c)) \/ Boot \/ CloseBegin \/ Close
  BY <1>3, OtherSteps
<1> QED
  BY <1>1, <1>2, <1>3 DEF Next

\* The inductive invariant holds in every state.
LEMMA ChannelInvariant == Spec => []ChannelInv
BY ChannelInit, ChannelStep, PTL DEF Spec

\* actived_channel_count is at all times the number of goroutines between
\* ChannelActive and ChannelUnActive, which therefore never take it below 0, and
\* no Go channel holds more than aof_queue_size.
THEOREM ActiveChannelsCounted == Spec => []ActiveCounted
<1>1. ChannelInv => ActiveCounted
  BY DEF ChannelInv
<1> QED
  BY <1>1, ChannelInvariant, PTL

\* Whatever the interleaving of ChannelActive, ChannelUnActive and the second
\* look at the counter, when every goroutine waits the buffer has been flushed.
THEOREM IdleIsFlushed == Spec => []FlushedWhenIdle
<1>1. ChannelInv => FlushedWhenIdle
  BY DEF ChannelInv, ActiveCounted, TypeOK, FlushComes, FlushAhead, FlushedWhenIdle, Waits
<1> QED
  BY <1>1, ChannelInvariant, PTL
=============================================================================
