----------------------------- MODULE LockQueue -----------------------------
(* LockQueue of server/queue.go (LockCommandQueue is the same code for       *)
(* commands): nodes of doubling size, read at (head_node_index,              *)
(* head_queue_index) and written at (tail_node_index, tail_queue_index), with *)
(* the ways db.go, lock.go and protocol.go use one:                          *)
(*   fifo   locks and wait_locks of a manager (Push, Head, Pop, Resize)      *)
(*   pool   free_locks, free_commands (Push, PopRight)                       *)
(*   wheel  timeout_locks, expried_locks, do_timeout_locks (Push, Pop,       *)
(*          Rellac)                                                          *)
(*   milli  millisecond queues (Push, the Iter loops, Reset)                 *)
(*   long   LongWaitLockQueue (Push, holes, restructuring, Reset)            *)
(* head_queue, tail_queue and their sizes are always those of the head and   *)
(* the tail node and are not kept; node_queue_sizes[n] is Len(queues[n]).    *)
EXTENDS Naturals, Integers, Sequences, FiniteSets

CONSTANTS
  Locks, NIL,
  Uses,                   \* the uses to consider
  base_node_size,         \* nodes that Reset keeps
  InitNodeSize,           \* length of queues when it is made
  base_queue_size,        \* size of the first node
  QUEUE_MAX_MALLOC_SIZE,
  ResizeAt,               \* 8 for locks, 6 for wait_locks
  MaxNodes,               \* bound: nodes of a queue
  MaxNodeIndex            \* bound: node_index of a long queue

Nodes == 0..(MaxNodes - 1)

ASSUME QueueConstants ==
  /\ NIL \notin Locks
  /\ Uses \subseteq {"fifo", "pool", "wheel", "milli", "long"}
  /\ base_node_size \in Nat \ {0} /\ base_queue_size \in Nat \ {0}
  /\ InitNodeSize \in Nat \ {0} /\ base_node_size <= InitNodeSize
  /\ QUEUE_MAX_MALLOC_SIZE \in Nat \ {0}
  /\ ResizeAt \in Nat /\ ResizeAt > base_node_size
  /\ MaxNodes \in Nat /\ InitNodeSize <= MaxNodes /\ MaxNodeIndex \in Nat

\* Resize computes the size of a node in an int32.
MaxInt32 == 2147483647

ASSUME SizesFit == \A n \in Nodes : base_queue_size * 2^n \in 1..MaxInt32

VARIABLES
  queues,                 \* a node is the sequence of its slots, <<>> for nil
  head_node_index, head_queue_index, tail_node_index, tail_queue_index,
  node_index, node_size, queue_size,
  long_wait_index,        \* of each lock: its slot in a long queue, or NIL
  free_count,             \* LongWaitLockQueue.free_count
  draining,               \* a timer empties the queue under the mutex
  result,                 \* what the last call handed out
  panicked,               \* an index was out of range
  use

head == <<head_node_index, head_queue_index>>
tail == <<tail_node_index, tail_queue_index>>
longs == <<long_wait_index, free_count>>
vars == <<queues, head, tail, node_index, node_size, queue_size, longs,
          draining, result, panicked, use>>

Node(n) == [k \in 1..n |-> NIL]

\* NewLockQueue.
Init ==
  /\ queues = [n \in Nodes |-> IF n = 0 THEN Node(base_queue_size) ELSE <<>>]
  /\ head_node_index = 0 /\ head_queue_index = 0
  /\ tail_node_index = 0 /\ tail_queue_index = 0
  /\ node_index = 0 /\ node_size = InitNodeSize /\ queue_size = base_queue_size
  /\ long_wait_index = [l \in Locks |-> NIL] /\ free_count = 0
  /\ draining = FALSE /\ result = NIL /\ panicked = FALSE
  /\ use \in Uses

-----------------------------------------------------------------------------
\* Slots as <<node, index>>, both counted from 0.
Slots == {s \in Nodes \X (0..(base_queue_size + QUEUE_MAX_MALLOC_SIZE)) : s[2] < Len(queues[s[1]])}
At(s) == queues[s[1]][s[2] + 1]
Before(s, t) == s[1] < t[1] \/ (s[1] = t[1] /\ s[2] < t[2])
Window == {s \in Slots : ~Before(s, head) /\ Before(s, tail)}
Live == {s \in Window : At(s) # NIL}

\* The slots of S in order, and what they hold.
Rank(s, S) == Cardinality({t \in S : Before(t, s)})
InOrder(S) == [i \in 1..Cardinality(S) |-> At(CHOOSE s \in S : Rank(s, S) = i - 1)]

\* The test of Pop, PopRight and Head.
Empty == tail_queue_index <= head_queue_index /\ tail_node_index <= head_node_index

\* Slip: the index may reach the size of the node.
After_Late(s) == IF s[2] + 1 > Len(queues[s[1]]) THEN <<s[1] + 1, 0>> ELSE <<s[1], s[2] + 1>>

\* Where an index goes next, and where it comes from.
After(s) == IF s[2] + 1 >= Len(queues[s[1]]) THEN <<s[1] + 1, 0>> ELSE <<s[1], s[2] + 1>>
Preceding(s) ==
  IF s[2] - 1 < 0 THEN <<s[1] - 1, Len(queues[s[1] - 1]) - 1>> ELSE <<s[1], s[2] - 1>>

SetHead(s) == head_node_index' = s[1] /\ head_queue_index' = s[2]
SetTail(s) == tail_node_index' = s[1] /\ tail_queue_index' = s[2]

Vacated(s) == [queues EXCEPT ![s[1]][s[2] + 1] = NIL]

Smaller(m, n) == IF m < n THEN m ELSE n
Doubled == Smaller(queue_size * 2, QUEUE_MAX_MALLOC_SIZE)

-----------------------------------------------------------------------------
\* Slip: a node left from an earlier, longer queue is not used again.
NeedsNode_Always(n) == n # tail_node_index

\* Push, db.go's AddTimeOut and AddExpried noting the slot of a long wait.
NeedsNode(n) == n # tail_node_index /\ (n >= node_size \/ queues[n] = <<>>)

Push(l) ==
  LET t == After(tail)
  IN  /\ \A s \in Live : At(s) # l
      /\ ~draining /\ t[1] < MaxNodes
      /\ use = "long" /\ NeedsNode(t[1]) => node_index < MaxNodeIndex
      /\ SetTail(t)
      /\ queues' = [n \in Nodes |->
                      IF n = tail_node_index
                      THEN [queues[n] EXCEPT ![tail_queue_index + 1] = l]
                      ELSE IF n = t[1] /\ NeedsNode(n) THEN Node(Doubled) ELSE queues[n]]
      /\ queue_size' = IF NeedsNode(t[1]) THEN Doubled ELSE queue_size
      /\ node_index' = IF NeedsNode(t[1]) THEN node_index + 1 ELSE node_index
      /\ node_size' = IF t[1] >= node_size THEN node_size + 1 ELSE node_size
      /\ long_wait_index' = IF use = "long" THEN [long_wait_index EXCEPT ![l] = tail]
                                            ELSE long_wait_index
      /\ UNCHANGED <<head, free_count, draining, result, panicked, use>>

HeadIs == IF Empty THEN NIL ELSE At(head)

Pop ==
  /\ use # "pool"
  /\ result' = HeadIs
  /\ IF Empty THEN UNCHANGED <<queues, head, draining, long_wait_index>>
     ELSE /\ queues' = Vacated(head)
          /\ SetHead(After(head))
          /\ draining' = (use \in {"long", "milli"})
          /\ long_wait_index' = [l \in Locks |-> IF l = At(head) THEN NIL ELSE long_wait_index[l]]
  /\ UNCHANGED <<tail, node_index, node_size, queue_size, free_count, panicked, use>>

PopRight ==
  /\ use = "pool"
  /\ IF Empty THEN result' = NIL /\ UNCHANGED <<queues, tail>>
     ELSE /\ result' = At(Preceding(tail))
          /\ queues' = Vacated(Preceding(tail))
          /\ SetTail(Preceding(tail))
  /\ UNCHANGED <<head, node_index, node_size, queue_size, longs, draining, panicked, use>>

\* Head, which RemoveLock and GetWaitLock look at before they pop.
Peek ==
  /\ use = "fifo"
  /\ result' = HeadIs
  /\ UNCHANGED <<queues, head, tail, node_index, node_size, queue_size, longs,
                 draining, panicked, use>>

-----------------------------------------------------------------------------
\* Nodes from m up to node_index are given back; the last one left says how
\* large the next one will be.
Truncate(qs, m) ==
  LET last == IF node_index >= m THEN m - 1 ELSE node_index
  IN  /\ queues' = [n \in Nodes |-> IF n > last /\ n <= node_index THEN <<>> ELSE qs[n]]
      /\ node_index' = last
      /\ queue_size' = Len(qs[last])

Rewind == SetHead(<<0, 0>>) /\ SetTail(<<0, 0>>)

\* Reset of a queue whose locks are gone: managers, long and millisecond queues
\* when they go back to their pools, wheel slots after a flush.
ResetQueue(qs) ==
  IF node_index >= node_size /\ node_index >= base_node_size
  THEN panicked' = TRUE /\ UNCHANGED <<queues, head, tail, node_index, queue_size>>
  ELSE Truncate(qs, base_node_size) /\ Rewind /\ UNCHANGED panicked

Reset ==
  /\ use # "pool" /\ Empty
  /\ ResetQueue(queues)
  /\ draining' = FALSE /\ free_count' = 0
  /\ UNCHANGED <<node_size, long_wait_index, result, use>>

\* Rellac after a wheel slot was emptied: half of the spare nodes go.
Kept ==
  LET half == tail_node_index + (node_index - tail_node_index) \div 2
  IN  IF half < base_node_size THEN base_node_size ELSE half

Rellac ==
  /\ use = "wheel" /\ Empty
  /\ IF node_index > tail_node_index
     THEN Truncate(queues, Kept)
     ELSE UNCHANGED <<queues, node_index, queue_size>>
  /\ Rewind
  /\ UNCHANGED <<node_size, longs, draining, result, panicked, use>>

\* Resize: the nodes from the head to the tail move down to base_node_size.
MoveIndex == head_node_index - base_node_size

Resize ==
  /\ use = "fifo" /\ head_node_index >= ResizeAt
  /\ queues' = [n \in Nodes |->
                  IF n < base_node_size THEN queues[n]
                  ELSE IF n + MoveIndex <= tail_node_index THEN queues[n + MoveIndex]
                  ELSE IF n <= tail_node_index THEN <<>> ELSE queues[n]]
  /\ node_index' = base_node_size + tail_node_index - head_node_index
  /\ queue_size' = base_queue_size * 2^tail_node_index
  /\ head_node_index' = base_node_size
  /\ tail_node_index' = tail_node_index - MoveIndex
  /\ UNCHANGED <<head_queue_index, tail_queue_index, node_size, longs, draining,
                 result, panicked, use>>

\* CheckMillisecondTimeOut and CheckMillisecondExpried: node i of IterNodes is
\* looked at with IterNodeQueues(i), every slot is emptied, the queue is reset.
IterNodeQueues(i) ==
  {s \in Slots : s[1] = i /\ (i = head_node_index => s[2] >= head_queue_index)
                          /\ (i = tail_node_index => s[2] < tail_queue_index)}

Iter ==
  LET taken == UNION {IterNodeQueues(i) : i \in 0..(tail_node_index - head_node_index)}
  IN  /\ use = "milli" /\ ~draining
      /\ result' = InOrder(taken)
      /\ ResetQueue([n \in Nodes |-> [k \in DOMAIN queues[n] |->
                       IF <<n, k - 1>> \in taken THEN NIL ELSE queues[n][k]]])
      /\ UNCHANGED <<node_size, longs, draining, use>>

-----------------------------------------------------------------------------
\* RemoveLongTimeOut, RemoveLongExpried: the lock leaves a hole behind.
RemoveLong(l) ==
  /\ use = "long" /\ ~draining /\ long_wait_index[l] # NIL
  /\ queues' = Vacated(long_wait_index[l])
  /\ long_wait_index' = [long_wait_index EXCEPT ![l] = NIL]
  /\ free_count' = free_count + 1
  /\ UNCHANGED <<head, tail, node_index, node_size, queue_size, draining, result,
                 panicked, use>>

\* Slip: the loop over the tail node is missing.
Scanned_WithoutTail == {s \in Slots : s[1] < tail_node_index /\ At(s) # NIL}

\* RestructuringLongTimeOutQueue: the locks of slot 0 up to the tail are pushed
\* again from slot 0 on, so the i-th lock gets the i-th slot. Nodes behind the
\* one after the new tail are given back; node_index is not touched.
Scanned == {s \in Slots : Before(s, tail) /\ At(s) # NIL}
Target(i) == CHOOSE s \in Slots : Rank(s, Slots) = i

\* Slip: the locks move, the index they are removed by does not.
NewIndex_Stale(l) == long_wait_index[l]

NewIndex(l) ==
  IF \E s \in Scanned : At(s) = l
  THEN Target(Rank(CHOOSE s \in Scanned : At(s) = l, Scanned))
  ELSE long_wait_index[l]

Compacted ==
  [n \in Nodes |-> [k \in DOMAIN queues[n] |->
     IF Rank(<<n, k - 1>>, Slots) < Cardinality(Scanned)
     THEN At(CHOOSE s \in Scanned : Rank(s, Scanned) = Rank(<<n, k - 1>>, Slots))
     ELSE IF Before(<<n, k - 1>>, tail) THEN NIL ELSE queues[n][k]]]

Restructuring ==
  LET t == Target(Cardinality(Scanned))
      last == Smaller(tail_node_index, t[1] + 1)
      compact == [n \in Nodes |-> IF n > last /\ n <= tail_node_index THEN <<>>
                                                                     ELSE Compacted[n]]
  IN  /\ use = "long" /\ ~draining /\ Window # {}
      /\ free_count * 3 >= Cardinality(Window)
      /\ IF Scanned = {} THEN ResetQueue(compact)
         ELSE /\ queues' = compact
              /\ SetHead(<<0, 0>>) /\ SetTail(t)
              /\ queue_size' = Smaller(base_queue_size * 2^last, QUEUE_MAX_MALLOC_SIZE)
              /\ UNCHANGED <<node_index, panicked>>
      /\ long_wait_index' = [l \in Locks |-> NewIndex(l)]
      /\ free_count' = 0
      /\ UNCHANGED <<node_size, draining, result, use>>

-----------------------------------------------------------------------------
Next ==
  /\ ~panicked
  /\ \/ \E l \in Locks : Push(l) \/ RemoveLong(l)
     \/ Pop \/ PopRight \/ Peek \/ Reset \/ Rellac \/ Resize \/ Iter \/ Restructuring

Spec == Init /\ [][Next]_vars

-----------------------------------------------------------------------------
TypeOK ==
  /\ queues \in [Nodes -> Seq(Locks \cup {NIL})]
  /\ head_node_index \in Nat /\ head_queue_index \in Nat
  /\ tail_node_index \in Nat /\ tail_queue_index \in Nat
  /\ node_index \in Nat /\ node_size \in Nat /\ queue_size \in Nat /\ free_count \in Nat
  /\ long_wait_index \in [Locks -> {NIL} \cup (Nodes \X Nat)]
  /\ draining \in BOOLEAN /\ panicked \in BOOLEAN /\ use \in Uses

\* Every index that is used without a test is in range: the head is not behind
\* the tail, both are slots of nodes that exist, and Reset stays within queues.
InRange ==
  /\ ~panicked
  /\ head \in Slots /\ tail \in Slots /\ ~Before(tail, head)

\* node_index is the last node there is, as queue_test.go says after every
\* operation: Reset and Rellac give nodes back from there.
NodeIndexed == \A n \in Nodes : queues[n] # <<>> <=> n <= node_index

\* What keeps indexes in range: nodes and their counters agree, the queue that
\* Resize moves has no node behind its tail, and a new node is never of size 0.
QueueInv ==
  /\ TypeOK /\ InRange /\ NodeIndexed
  /\ node_index \in Nodes /\ node_index < node_size /\ tail_node_index <= node_index
  /\ queue_size > 0
  /\ \A n \in Nodes : Len(queues[n]) <= base_queue_size + QUEUE_MAX_MALLOC_SIZE
  /\ use = "fifo" => node_index <= tail_node_index \/ node_index < base_node_size

\* The queues that are not restructured.
ShortQueueInv == use # "long" => QueueInv

\* A slot that is not between head and tail holds nothing: what was handed out
\* is not kept, and restructuring, which starts at slot 0, finds no lock twice.
SlotsClean == \A s \in Slots \ Window : At(s) = NIL

\* RemoveLongTimeOut empties the slot long_wait_index names without looking at
\* it: it is the lock's own, also after the queue was restructured, and the
\* holes are counted. (With SlotsClean, of every queue.)
LongIndexed ==
  /\ SlotsClean
  /\ use = "long" =>
    /\ \A l \in Locks : long_wait_index[l] # NIL =>
         long_wait_index[l] \in Window /\ At(long_wait_index[l]) = l
    /\ \A s \in Live : long_wait_index[At(s)] = s
    /\ ~draining => free_count = Cardinality(Window \ Live)

\* The locks from head to tail, holes included, in order.
Contents == InOrder(Window)
Promise == INSTANCE Deque WITH items <- Contents

\* Whatever nodes are added, moved, emptied and given back, callers see a
\* sequence: Push appends, Pop and PopRight hand out its ends, a removal leaves
\* a hole, restructuring closes the holes and changes no order, and the
\* millisecond timers see every lock once.
ImplementsDeque == Promise!Spec
=============================================================================
