-------------------------- MODULE LockQueue_proofs --------------------------
(* The index arithmetic of LockQueue, for every size of nodes and of queues: *)
(* first the short queues (every use but the long queues) and their          *)
(* refinement of Deque, then the long queues, then the emptied slots.        *)
EXTENDS LockQueue, FiniteSetTheorems, TLAPS

Entries == Locks \cup {NIL}

\* QueueInv without sets of slots: nodes, counters and the two ends.
Shape ==
  /\ queues \in [Nodes -> Seq(Entries)]
  /\ \A n \in Nodes : Len(queues[n]) <= base_queue_size + QUEUE_MAX_MALLOC_SIZE
  /\ \A n \in Nodes : queues[n] # <<>> <=> n <= node_index
  /\ node_index \in Nodes /\ node_size \in Nat /\ node_index < node_size
  /\ queue_size \in Nat /\ queue_size > 0

Ends ==
  /\ head_node_index \in Nat /\ tail_node_index \in Nat /\ tail_node_index <= node_index
  /\ head_queue_index \in Nat /\ head_queue_index < Len(queues[head_node_index])
  /\ tail_queue_index \in Nat /\ tail_queue_index < Len(queues[tail_node_index])
  /\ \/ head_node_index < tail_node_index
     \/ head_node_index = tail_node_index /\ head_queue_index <= tail_queue_index
  /\ use = "fifo" => node_index <= tail_node_index \/ node_index < base_node_size

\* The fields of a long queue keep their types.
Rest ==
  /\ free_count \in Nat /\ long_wait_index \in [Locks -> {NIL} \cup (Nodes \X Nat)]
  /\ draining \in BOOLEAN /\ panicked = FALSE /\ use \in Uses

\* A slot is an index of a node.
LEMMA SlotIs ==
  ASSUME Shape, NEW n \in Nat, NEW k \in Nat
  PROVE  <<n, k>> \in Slots <=> n \in Nodes /\ k < Len(queues[n])
<1>1. \A m \in Nodes : Len(queues[m]) \in Nat
  BY DEF Shape
<1>. QED
  BY <1>1, QueueConstants DEF Shape, Slots, Nodes

\* The same after a step.
LEMMA SlotIsNext ==
  ASSUME Shape', NEW n \in Nat, NEW k \in Nat
  PROVE  <<n, k>> \in Slots' <=> n \in Nodes /\ k < Len(queues'[n])
<1>1. \A m \in Nodes : Len(queues'[m]) \in Nat
  BY DEF Shape
<1>. QED
  BY <1>1, QueueConstants DEF Shape, Slots, Nodes

\* The invariant as the three parts the proofs work on.
LEMMA InvGives ==
  ASSUME QueueInv PROVE Shape /\ Ends /\ Rest
<1>1. Shape
  BY DEF QueueInv, TypeOK, NodeIndexed, Shape, Entries
<1>2. /\ head_node_index \in Nat /\ head_queue_index \in Nat
      /\ tail_node_index \in Nat /\ tail_queue_index \in Nat
  BY DEF QueueInv, TypeOK
<1>3. head_node_index \in Nodes /\ head_queue_index < Len(queues[head_node_index])
  BY <1>1, <1>2, SlotIs DEF QueueInv, InRange, head
<1>4. tail_node_index \in Nodes /\ tail_queue_index < Len(queues[tail_node_index])
  BY <1>1, <1>2, SlotIs DEF QueueInv, InRange, tail
<1>5. Ends
  BY <1>2, <1>3, <1>4 DEF QueueInv, InRange, Ends, Before, head, tail
<1>6. Rest
  BY DEF QueueInv, InRange, TypeOK, Rest
<1>. QED
  BY <1>1, <1>5, <1>6

\* The three parts are enough for the invariant after a step.
LEMMA InvFollows ==
  ASSUME Shape', Ends', Rest' PROVE QueueInv'
<1>1. head_node_index' \in Nodes /\ tail_node_index' \in Nodes
  BY QueueConstants DEF Shape, Ends, Nodes
<1>2. head' \in Slots' /\ tail' \in Slots'
  BY <1>1, SlotIsNext DEF Ends, head, tail
<1>3. InRange'
  <2>1. ~Before(tail, head)'
    BY DEF Ends, Before, head, tail
  <2>. QED
    BY <1>2, <2>1 DEF InRange, Rest
<1>4. TypeOK'
  <2>1. node_index' \in Nat /\ queues' \in [Nodes -> Seq(Locks \cup {NIL})]
    BY QueueConstants DEF Shape, Nodes, Entries
  <2>. QED
    BY <2>1 DEF TypeOK, Shape, Ends, Rest
<1>. QED
  BY <1>3, <1>4 DEF QueueInv, NodeIndexed, Shape, Ends

-----------------------------------------------------------------------------

\* A new node is a sequence of empty slots.
LEMMA NodeFacts ==
  ASSUME NEW n \in Nat
  PROVE  Node(n) \in Seq(Entries) /\ Len(Node(n)) = n
BY DEF Node, Entries

\* A node is never made empty or too large.
LEMMA DoubledFits ==
  ASSUME Shape PROVE Doubled \in Nat /\ Doubled > 0 /\ Doubled <= QUEUE_MAX_MALLOC_SIZE
BY QueueConstants DEF Shape, Doubled, Smaller

\* A new queue satisfies the invariant.
LEMMA InitInv == Init => QueueInv
<1>. SUFFICES ASSUME Init PROVE QueueInv
  OBVIOUS
<1>1. 0 \in Nodes
  BY QueueConstants DEF Nodes
<1>2. Node(base_queue_size) \in Seq(Entries) /\ Len(Node(base_queue_size)) = base_queue_size
  BY NodeFacts, QueueConstants
<1>3. Shape
  <2>1. queues \in [Nodes -> Seq(Entries)]
    BY <1>2 DEF Init
  <2>2. \A n \in Nodes : queues[n] # <<>> <=> n <= node_index
    BY <1>1, <1>2, QueueConstants DEF Init, Nodes
  <2>. QED
    BY <1>1, <1>2, <2>1, <2>2, QueueConstants DEF Init, Shape
<1>4. head \in Slots /\ tail \in Slots
  <2>1. Len(queues[0]) = base_queue_size
    BY <1>1, <1>2 DEF Init
  <2>2. <<0, 0>> \in Slots
    BY <1>1, <1>3, <2>1, SlotIs, QueueConstants
  <2>. QED
    BY <2>2 DEF Init, head, tail
<1>5. InRange
  BY <1>4 DEF Init, InRange, Before, head, tail
<1>6. TypeOK
  <2>1. queues \in [Nodes -> Seq(Locks \cup {NIL})]
    BY <1>3 DEF Shape, Entries
  <2>2. draining \in BOOLEAN /\ panicked \in BOOLEAN
    BY Zenon DEF Init
  <2>3. long_wait_index \in [Locks -> {NIL} \cup (Nodes \X Nat)]
    BY DEF Init
  <2>. QED
    BY <2>1, <2>2, <2>3, QueueConstants DEF Init, TypeOK
<1>. QED
  BY <1>3, <1>5, <1>6, QueueConstants DEF Init, QueueInv, Shape, NodeIndexed

\* The next slot of a slot, in its node or at the start of the next one.
LEMMA AfterIs ==
  ASSUME Shape, NEW n \in Nodes, NEW k \in Nat, k < Len(queues[n])
  PROVE  \/ After(<<n, k>>) = <<n, k + 1>> /\ k + 1 < Len(queues[n])
         \/ After(<<n, k>>) = <<n + 1, 0>> /\ k + 1 = Len(queues[n])
<1>1. Len(queues[n]) \in Nat
  BY DEF Shape
<1>. QED
  BY <1>1 DEF After

\* Emptying a slot changes no length.
LEMMA VacatedIs ==
  ASSUME Shape, NEW n \in Nodes, NEW k \in Nat, k < Len(queues[n])
  PROVE  /\ Vacated(<<n, k>>) \in [Nodes -> Seq(Entries)]
         /\ \A m \in Nodes : Len(Vacated(<<n, k>>)[m]) = Len(queues[m])
<1>1. queues[n] \in Seq(Entries)
  BY DEF Shape
<1>2. [queues[n] EXCEPT ![k + 1] = NIL] \in Seq(Entries)
  BY <1>1 DEF Entries
<1>3. Len([queues[n] EXCEPT ![k + 1] = NIL]) = Len(queues[n])
  BY <1>1
<1>4. Vacated(<<n, k>>) = [queues EXCEPT ![n] = [queues[n] EXCEPT ![k + 1] = NIL]]
  BY DEF Vacated, Shape
<1>. QED
  BY <1>2, <1>3, <1>4 DEF Shape

\* Nodes that keep their lengths keep their shape.
LEMMA ShapeKept ==
  ASSUME Shape, queues' \in [Nodes -> Seq(Entries)],
         \A n \in Nodes : Len(queues'[n]) = Len(queues[n]),
         UNCHANGED <<node_index, node_size, queue_size>>
  PROVE  Shape'
<1>1. \A n \in Nodes : queues'[n] # <<>> <=> queues[n] # <<>>
  BY DEF Shape
<1>. QED
  BY <1>1 DEF Shape

-----------------------------------------------------------------------------

\* Push, with the node it may make, keeps the invariant.
LEMMA PushInv ==
  ASSUME QueueInv, NEW l \in Locks, Push(l) PROVE QueueInv'
<1>. USE QueueConstants
<1>. DEFINE T == tail_node_index
            K == tail_queue_index
            filled == [queues[T] EXCEPT ![K + 1] = l]
<1>1. Shape /\ Ends /\ Rest
  BY InvGives
<1>2. /\ T \in Nodes /\ T \in Nat /\ K \in Nat /\ K < Len(queues[T])
      /\ node_index \in Nat /\ T <= node_index
  BY <1>1 DEF Shape, Ends, Nodes
<1>3. queues[T] \in Seq(Entries) /\ Len(queues[T]) \in Nat
  BY <1>1, <1>2 DEF Shape
<1>4. filled \in Seq(Entries) /\ Len(filled) = Len(queues[T])
  <2>0. l \in Entries
    BY DEF Entries
  <2>1. filled \in Seq(Entries)
    BY <1>2, <1>3, <2>0
  <2>2. Len(filled) = Len(queues[T])
    BY <1>3
  <2>. QED
    BY <2>1, <2>2
<1>5. Rest'
  <2>1. tail \in Nodes \X Nat
    BY <1>2 DEF tail
  <2>2. long_wait_index' \in [Locks -> {NIL} \cup (Nodes \X Nat)]
    BY <1>1, <2>1 DEF Push, Rest
  <2>. QED
    BY <1>1, <2>2 DEF Push, Rest
<1>6. /\ queues' = [n \in Nodes |-> queues'[n]]
      /\ \A n \in Nodes : queues'[n] =
           IF n = T THEN filled
           ELSE IF n = After(tail)[1] /\ NeedsNode(n) THEN Node(Doubled) ELSE queues[n]
      /\ queue_size' = IF NeedsNode(After(tail)[1]) THEN Doubled ELSE queue_size
      /\ node_index' = IF NeedsNode(After(tail)[1]) THEN node_index + 1 ELSE node_index
      /\ node_size' = IF After(tail)[1] >= node_size THEN node_size + 1 ELSE node_size
  <2>1. queues' = [n \in Nodes |-> queues'[n]]
    BY DEF Push
  <2>2. \A n \in Nodes : queues'[n] =
           IF n = T THEN filled
           ELSE IF n = After(tail)[1] /\ NeedsNode(n) THEN Node(Doubled) ELSE queues[n]
    BY DEF Push
  <2>3. /\ queue_size' = IF NeedsNode(After(tail)[1]) THEN Doubled ELSE queue_size
        /\ node_index' = IF NeedsNode(After(tail)[1]) THEN node_index + 1 ELSE node_index
        /\ node_size' = IF After(tail)[1] >= node_size THEN node_size + 1 ELSE node_size
    BY DEF Push
  <2>. QED
    BY <2>1, <2>2, <2>3
<1>7. CASE After(tail) = <<T, K + 1>> /\ K + 1 < Len(queues[T])
  <2>1. tail_node_index' = T /\ tail_queue_index' = K + 1
    BY <1>7 DEF Push, SetTail
  <2>2. ~NeedsNode(T)
    BY DEF NeedsNode
  <2>3. /\ \A n \in Nodes : queues'[n] = IF n = T THEN filled ELSE queues[n]
        /\ UNCHANGED <<node_index, node_size, queue_size>>
    <3>1. ~(T >= node_size)
      BY <1>1, <1>2 DEF Shape
    <3>2. \A n \in Nodes : (n = After(tail)[1] /\ NeedsNode(n)) = FALSE
      BY <1>7, <2>2
    <3>. QED
      BY <1>6, <1>7, <2>2, <3>1, <3>2
  <2>4. queues' \in [Nodes -> Seq(Entries)] /\ \A n \in Nodes : Len(queues'[n]) = Len(queues[n])
    BY <1>1, <1>4, <1>6, <2>3 DEF Shape
  <2>5. Shape'
    BY <1>1, <2>3, <2>4, ShapeKept
  <2>6. UNCHANGED <<head_node_index, head_queue_index, use>>
    BY DEF Push, head
  <2>7. head_node_index \in Nodes
    BY <1>1, <1>2 DEF Ends, Nodes
  <2>8. Ends'
    BY <1>1, <1>2, <1>7, <2>1, <2>3, <2>4, <2>6, <2>7 DEF Ends
  <2>. QED
    BY <1>5, <2>5, <2>8, InvFollows
<1>8. CASE After(tail) = <<T + 1, 0>> /\ K + 1 = Len(queues[T])
  <2>1. tail_node_index' = T + 1 /\ tail_queue_index' = 0 /\ T + 1 \in Nodes
    BY <1>2, <1>8 DEF Push, SetTail, Nodes
  <2>2. UNCHANGED <<head_node_index, head_queue_index, use>>
    BY DEF Push, head
  <2>3. head_node_index \in Nodes
    BY <1>1, <1>2 DEF Ends, Nodes
  <2>4. NeedsNode(T + 1) <=> T = node_index
    <3>1. queues[T + 1] = <<>> <=> ~(T + 1 <= node_index)
      BY <1>1, <2>1 DEF Shape
    <3>2. T + 1 >= node_size => ~(T + 1 <= node_index)
      BY <1>1, <1>2 DEF Shape
    <3>. QED
      BY <1>2, <3>1, <3>2 DEF NeedsNode
  <2>5. CASE T # node_index
    <3>1. ~(T + 1 >= node_size)
      BY <1>1, <1>2, <2>5 DEF Shape
    <3>2. /\ \A n \in Nodes : queues'[n] = IF n = T THEN filled ELSE queues[n]
          /\ UNCHANGED <<node_index, node_size, queue_size>>
      <4>1. \A n \in Nodes : (n = After(tail)[1] /\ NeedsNode(n)) = FALSE
        BY <1>8, <2>4, <2>5
      <4>. QED
        BY <1>6, <1>8, <2>4, <2>5, <3>1, <4>1
    <3>3. queues' \in [Nodes -> Seq(Entries)] /\ \A n \in Nodes : Len(queues'[n]) = Len(queues[n])
      BY <1>1, <1>4, <1>6, <3>2 DEF Shape
    <3>4. Shape'
      BY <1>1, <3>2, <3>3, ShapeKept
    <3>5. Len(queues'[T + 1]) > 0
      <4>1. queues[T + 1] # <<>> /\ queues[T + 1] \in Seq(Entries)
        BY <1>1, <1>2, <2>1, <2>5 DEF Shape
      <4>. QED
        BY <2>1, <3>3, <4>1
    <3>6. Ends'
      BY <1>1, <1>2, <2>1, <2>2, <2>3, <2>5, <3>2, <3>3, <3>5 DEF Ends
    <3>. QED
      BY <1>5, <3>4, <3>6, InvFollows
  <2>6. CASE T = node_index
    <3>1. Doubled \in Nat /\ Doubled > 0 /\ Doubled <= QUEUE_MAX_MALLOC_SIZE
      BY <1>1, DoubledFits
    <3>2. Node(Doubled) \in Seq(Entries) /\ Len(Node(Doubled)) = Doubled
      BY <3>1, NodeFacts
    <3>3. /\ \A n \in Nodes : queues'[n] = IF n = T THEN filled
                                        ELSE IF n = T + 1 THEN Node(Doubled) ELSE queues[n]
          /\ node_index' = node_index + 1 /\ queue_size' = Doubled
          /\ node_size' = IF T + 1 >= node_size THEN node_size + 1 ELSE node_size
      <4>1. \A n \in Nodes : (n = After(tail)[1] /\ NeedsNode(n)) <=> n = T + 1
        BY <1>8, <2>1, <2>4, <2>6
      <4>. QED
        BY <1>6, <1>8, <2>4, <2>6, <4>1
    <3>4. /\ queues' \in [Nodes -> Seq(Entries)]
          /\ queues'[T] = filled /\ queues'[T + 1] = Node(Doubled)
          /\ \A n \in Nodes : n # T /\ n # T + 1 => queues'[n] = queues[n]
      <4>1. queues'[T] = filled /\ queues'[T + 1] = Node(Doubled)
        BY <1>2, <2>1, <3>3
      <4>2. \A n \in Nodes : n # T /\ n # T + 1 => queues'[n] = queues[n]
        BY <3>3
      <4>3. \A n \in Nodes : queues'[n] \in Seq(Entries)
        BY <1>1, <1>4, <3>2, <4>1, <4>2 DEF Shape
      <4>. QED
        BY <1>6, <4>1, <4>2, <4>3
    <3>5. \A n \in Nodes : queues'[n] # <<>> <=> n <= node_index'
      <4>1. filled # <<>> /\ Node(Doubled) # <<>>
        BY <1>2, <1>3, <1>4, <3>1, <3>2
      <4>2. ASSUME NEW n \in Nodes, n # T, n # T + 1
            PROVE  queues'[n] # <<>> <=> n <= node_index'
        <5>1. queues'[n] = queues[n] /\ (queues[n] # <<>> <=> n <= node_index) /\ n \in Nat
          BY <1>1, <3>4, <4>2 DEF Shape, Nodes
        <5>. QED
          BY <1>2, <2>6, <3>3, <4>2, <5>1
      <4>. QED
        BY <1>2, <2>1, <2>6, <3>3, <3>4, <4>1, <4>2
    <3>6. \A n \in Nodes : Len(queues'[n]) <= base_queue_size + QUEUE_MAX_MALLOC_SIZE
      <4>1. Len(filled) <= base_queue_size + QUEUE_MAX_MALLOC_SIZE
        BY <1>1, <1>2, <1>4 DEF Shape
      <4>2. Len(Node(Doubled)) <= base_queue_size + QUEUE_MAX_MALLOC_SIZE
        BY <3>1, <3>2
      <4>3. \A n \in Nodes : Len(queues[n]) <= base_queue_size + QUEUE_MAX_MALLOC_SIZE
        BY <1>1 DEF Shape
      <4>. QED
        BY <3>4, <4>1, <4>2, <4>3
    <3>7. Shape'
      <4>1. node_index' \in Nodes
        BY <2>1, <2>6, <3>3
      <4>2. node_size' \in Nat /\ node_index' < node_size'
        BY <1>1, <1>2, <2>6, <3>3 DEF Shape
      <4>. QED
        BY <3>1, <3>3, <3>4, <3>5, <3>6, <4>1, <4>2 DEF Shape
    <3>8. Len(queues'[head_node_index]) = Len(queues[head_node_index])
      BY <1>1, <1>2, <1>4, <2>3, <2>6, <3>4 DEF Ends
    <3>9. Ends'
      BY <1>1, <1>2, <2>1, <2>2, <2>3, <2>6, <3>1, <3>2, <3>3, <3>4, <3>8 DEF Ends
    <3>. QED
      BY <1>5, <3>7, <3>9, InvFollows
  <2>. QED
    BY <2>5, <2>6
<1>. QED
  BY <1>1, <1>2, <1>7, <1>8, AfterIs DEF tail

\* Pop from the head keeps the invariant.
LEMMA PopInv ==
  ASSUME QueueInv, Pop PROVE QueueInv'
<1>. USE QueueConstants
<1>. DEFINE H == head_node_index
            K == head_queue_index
<1>1. Shape /\ Ends /\ Rest
  BY InvGives
<1>2. /\ H \in Nodes /\ H \in Nat /\ K \in Nat /\ K < Len(queues[H])
      /\ node_index \in Nat /\ tail_node_index \in Nodes /\ H <= node_index
  BY <1>1 DEF Shape, Ends, Nodes
<1>3. UNCHANGED <<tail_node_index, tail_queue_index, node_index, node_size, queue_size, use, panicked, free_count>>
  BY DEF Pop, tail
<1>4. CASE Empty
  BY <1>1, <1>3, <1>4, InvFollows DEF Pop, head, Shape, Ends, Rest
<1>5. CASE ~Empty
  <2>1. queues' = Vacated(<<H, K>>)
    BY <1>5 DEF Pop, head
  <2>2. queues' \in [Nodes -> Seq(Entries)] /\ \A n \in Nodes : Len(queues'[n]) = Len(queues[n])
    BY <1>1, <1>2, <2>1, VacatedIs
  <2>3. Shape'
    BY <1>1, <1>3, <2>2, ShapeKept
  <2>4. Rest'
    <3>1. draining' \in BOOLEAN
      BY <1>5 DEF Pop
    <3>2. long_wait_index' \in [Locks -> {NIL} \cup (Nodes \X Nat)]
      BY <1>1, <1>5 DEF Pop, Rest
    <3>. QED
      BY <1>1, <1>3, <3>1, <3>2 DEF Rest
  <2>5. H < tail_node_index \/ (H = tail_node_index /\ K < tail_queue_index)
    BY <1>1, <1>2, <1>5 DEF Empty, Ends
  <2>6. CASE After(head) = <<H, K + 1>> /\ K + 1 < Len(queues[H])
    <3>1. head_node_index' = H /\ head_queue_index' = K + 1
      BY <1>5, <2>6 DEF Pop, SetHead
    <3>2. Ends'
      BY <1>1, <1>2, <1>3, <2>2, <2>5, <2>6, <3>1 DEF Ends
    <3>. QED
      BY <2>3, <2>4, <3>2, InvFollows
  <2>7. CASE After(head) = <<H + 1, 0>> /\ K + 1 = Len(queues[H])
    <3>1. head_node_index' = H + 1 /\ head_queue_index' = 0
      BY <1>5, <2>7 DEF Pop, SetHead
    <3>2. H < tail_node_index
      BY <1>1, <1>2, <2>5, <2>7 DEF Ends
    <3>3. H + 1 \in Nodes /\ queues[H + 1] # <<>> /\ queues[H + 1] \in Seq(Entries)
      BY <1>1, <1>2, <3>2 DEF Shape, Ends, Nodes
    <3>4. Len(queues'[H + 1]) > 0
      BY <2>2, <3>3
    <3>5. Ends'
      BY <1>1, <1>2, <1>3, <2>2, <3>1, <3>2, <3>4 DEF Ends
    <3>. QED
      BY <2>3, <2>4, <3>5, InvFollows
  <2>. QED
    BY <1>1, <1>2, <2>6, <2>7, AfterIs DEF head
<1>. QED
  BY <1>4, <1>5

\* PopRight, which may step back into the node before, keeps the invariant.
LEMMA PopRightInv ==
  ASSUME QueueInv, PopRight PROVE QueueInv'
<1>. USE QueueConstants
<1>. DEFINE T == tail_node_index
            K == tail_queue_index
<1>1. Shape /\ Ends /\ Rest
  BY InvGives
<1>2. /\ T \in Nodes /\ T \in Nat /\ K \in Nat /\ K < Len(queues[T])
      /\ head_node_index \in Nat /\ head_queue_index \in Nat
      /\ node_index \in Nat /\ head_node_index \in Nodes /\ T <= node_index
  BY <1>1 DEF Shape, Ends, Nodes
<1>3. UNCHANGED <<head_node_index, head_queue_index, node_index, node_size, queue_size,
                  use, panicked, free_count, long_wait_index, draining>>
  BY DEF PopRight, head, longs
<1>4. Rest'
  BY <1>1, <1>3 DEF Rest
<1>5. CASE Empty
  BY <1>1, <1>3, <1>4, <1>5, InvFollows DEF PopRight, tail, Shape, Ends
<1>6. CASE ~Empty
  <2>1. head_node_index < T \/ (head_node_index = T /\ head_queue_index < K)
    BY <1>1, <1>2, <1>6 DEF Empty, Ends
  <2>2. use # "fifo"
    BY DEF PopRight
  <2>3. CASE K = 0
    <3>1. head_node_index < T /\ T - 1 \in Nodes /\ T - 1 \in Nat
      BY <1>2, <2>1, <2>3 DEF Nodes
    <3>2. queues[T - 1] \in Seq(Entries) /\ queues[T - 1] # <<>>
      BY <1>1, <1>2, <3>1 DEF Shape
    <3>3. Len(queues[T - 1]) - 1 \in Nat /\ Len(queues[T - 1]) - 1 < Len(queues[T - 1])
      BY <3>2
    <3>4. Preceding(tail) = <<T - 1, Len(queues[T - 1]) - 1>>
      BY <2>3 DEF Preceding, tail
    <3>5. /\ queues' = Vacated(<<T - 1, Len(queues[T - 1]) - 1>>)
          /\ tail_node_index' = T - 1 /\ tail_queue_index' = Len(queues[T - 1]) - 1
      BY <1>6, <3>4 DEF PopRight, SetTail
    <3>6. queues' \in [Nodes -> Seq(Entries)] /\ \A n \in Nodes : Len(queues'[n]) = Len(queues[n])
      BY <1>1, <3>1, <3>3, <3>5, VacatedIs
    <3>7. Shape'
      BY <1>1, <1>3, <3>6, ShapeKept
    <3>8. head_queue_index <= Len(queues[head_node_index]) - 1
      BY <1>1, <1>2 DEF Ends, Shape
    <3>9. head_queue_index' < Len(queues'[head_node_index']) /\ tail_queue_index' < Len(queues'[tail_node_index'])
      <4>1. Len(queues'[T - 1]) = Len(queues[T - 1])
        BY <3>1, <3>6
      <4>2. Len(queues'[head_node_index]) = Len(queues[head_node_index])
        BY <1>2, <3>6
      <4>. QED
        BY <1>1, <1>3, <3>3, <3>5, <4>1, <4>2 DEF Ends
    <3>10. \/ head_node_index' < tail_node_index'
           \/ head_node_index' = tail_node_index' /\ head_queue_index' <= tail_queue_index'
      BY <1>2, <1>3, <3>1, <3>5, <3>8
    <3>11. Ends'
      BY <1>2, <1>3, <2>2, <3>1, <3>3, <3>5, <3>9, <3>10 DEF Ends
    <3>. QED
      BY <1>4, <3>7, <3>11, InvFollows
  <2>4. CASE K # 0
    <3>1. K - 1 \in Nat /\ K - 1 < Len(queues[T])
      BY <1>1, <1>2, <2>4 DEF Shape
    <3>2. Preceding(tail) = <<T, K - 1>>
      BY <1>2, <2>4 DEF Preceding, tail
    <3>3. queues' = Vacated(<<T, K - 1>>) /\ tail_node_index' = T /\ tail_queue_index' = K - 1
      BY <1>6, <3>2 DEF PopRight, SetTail
    <3>4. queues' \in [Nodes -> Seq(Entries)] /\ \A n \in Nodes : Len(queues'[n]) = Len(queues[n])
      BY <1>1, <1>2, <3>1, <3>3, VacatedIs
    <3>5. Shape'
      BY <1>1, <1>3, <3>4, ShapeKept
    <3>6. head_queue_index' < Len(queues'[head_node_index']) /\ tail_queue_index' < Len(queues'[tail_node_index'])
      <4>1. Len(queues'[T]) = Len(queues[T])
        BY <1>2, <3>4
      <4>2. Len(queues'[head_node_index]) = Len(queues[head_node_index])
        BY <1>2, <3>4
      <4>. QED
        BY <1>1, <1>3, <3>1, <3>3, <4>1, <4>2 DEF Ends
    <3>7. \/ head_node_index' < tail_node_index'
          \/ head_node_index' = tail_node_index' /\ head_queue_index' <= tail_queue_index'
      BY <1>2, <1>3, <2>1, <3>3
    <3>8. Ends'
      BY <1>2, <1>3, <2>2, <3>1, <3>3, <3>6, <3>7 DEF Ends
    <3>. QED
      BY <1>4, <3>5, <3>8, InvFollows
  <2>. QED
    BY <2>3, <2>4
<1>. QED
  BY <1>5, <1>6

-----------------------------------------------------------------------------
\* Giving nodes back keeps the shape, and at least one node.
LEMMA TruncateShape ==
  ASSUME Shape, NEW qs \in [Nodes -> Seq(Entries)],
         \A n \in Nodes : Len(qs[n]) = Len(queues[n]),
         NEW m \in Nat \ {0}, Truncate(qs, m), UNCHANGED node_size
  PROVE  Shape' /\ node_index' < m /\ node_index' <= node_index
<1>. USE QueueConstants
<1>. DEFINE last == IF node_index >= m THEN m - 1 ELSE node_index
<1>1. node_index \in Nat /\ node_index < MaxNodes
  BY DEF Shape, Nodes
<1>2. last \in Nodes /\ last \in Nat /\ last < m /\ last <= node_index
  BY <1>1 DEF Nodes
<1>3. /\ queues' = [n \in Nodes |-> IF n > last /\ n <= node_index THEN <<>> ELSE qs[n]]
      /\ node_index' = last /\ queue_size' = Len(qs[last])
  BY DEF Truncate
<1>. HIDE DEF last
<1>4. \A n \in Nodes : qs[n] # <<>> <=> n <= node_index
  BY DEF Shape
<1>5. queues' \in [Nodes -> Seq(Entries)]
  BY <1>3
<1>6. \A n \in Nodes : queues'[n] # <<>> <=> n <= node_index'
  BY <1>1, <1>2, <1>3, <1>4 DEF Nodes
<1>7. \A n \in Nodes : Len(queues'[n]) <= base_queue_size + QUEUE_MAX_MALLOC_SIZE
  <2>1. ASSUME NEW n \in Nodes PROVE Len(queues'[n]) = 0 \/ Len(queues'[n]) = Len(queues[n])
    BY <1>3
  <2>. QED
    BY <2>1 DEF Shape
<1>8. queue_size' \in Nat /\ queue_size' > 0
  <2>1. qs[last] # <<>> /\ qs[last] \in Seq(Entries)
    BY <1>2, <1>4
  <2>. QED
    BY <1>3, <2>1
<1>. QED
  BY <1>2, <1>3, <1>5, <1>6, <1>7, <1>8 DEF Shape

\* A queue starts again at its first slot.
LEMMA RewindEnds ==
  ASSUME Shape', Rewind, use' = "fifo" => node_index' < base_node_size
  PROVE  Ends'
<1>. USE QueueConstants
<1>1. 0 \in Nodes /\ node_index' \in Nat
  BY DEF Shape, Nodes
<1>2. queues'[0] # <<>> /\ queues'[0] \in Seq(Entries)
  BY <1>1 DEF Shape
<1>3. Len(queues'[0]) > 0
  BY <1>2
<1>. QED
  BY <1>1, <1>3 DEF Rewind, SetHead, SetTail, Ends

\* Reset finds node_index within queues and leaves a queue in order.
LEMMA ResetInv ==
  ASSUME QueueInv, NEW qs \in [Nodes -> Seq(Entries)],
         \A n \in Nodes : Len(qs[n]) = Len(queues[n]),
         ResetQueue(qs), UNCHANGED <<node_size, long_wait_index, use>>,
         free_count' \in Nat, draining' \in BOOLEAN
  PROVE  QueueInv'
<1>1. Shape /\ Ends /\ Rest
  BY InvGives
<1>2. Truncate(qs, base_node_size) /\ Rewind /\ UNCHANGED panicked
  <2>1. ~(node_index >= node_size)
    BY <1>1, QueueConstants DEF Shape, Nodes
  <2>. QED
    BY <2>1 DEF ResetQueue
<1>3. Shape' /\ node_index' < base_node_size
  BY <1>1, <1>2, TruncateShape, QueueConstants
<1>4. Ends'
  BY <1>2, <1>3, RewindEnds
<1>5. Rest'
  BY <1>1, <1>2 DEF Rest
<1>. QED
  BY <1>3, <1>4, <1>5, InvFollows

\* Rellac, which rewinds an empty queue, keeps the invariant.
LEMMA RellacInv ==
  ASSUME QueueInv, Rellac PROVE QueueInv'
<1>1. Shape /\ Ends /\ Rest
  BY InvGives
<1>2. UNCHANGED <<node_size, free_count, long_wait_index, draining, panicked, use>> /\ use = "wheel"
  BY DEF Rellac, longs
<1>3. Shape'
  <2>1. CASE node_index > tail_node_index
    <3>1. Kept \in Nat \ {0}
      BY <1>1, <2>1, QueueConstants DEF Shape, Ends, Kept, Nodes
    <3>2. Truncate(queues, Kept)
      BY <2>1 DEF Rellac
    <3>. HIDE DEF Kept
    <3>. QED
      BY <1>1, <1>2, <3>1, <3>2, TruncateShape DEF Shape
  <2>2. CASE ~(node_index > tail_node_index)
    BY <1>1, <1>2, <2>2 DEF Rellac, Shape
  <2>. QED
    BY <2>1, <2>2
<1>4. Ends'
  BY <1>2, <1>3, RewindEnds DEF Rellac
<1>5. Rest'
  BY <1>1, <1>2 DEF Rest
<1>. QED
  BY <1>3, <1>4, <1>5, InvFollows

\* Resize, which moves all nodes down, keeps the invariant.
LEMMA ResizeInv ==
  ASSUME QueueInv, Resize PROVE QueueInv'
<1>. USE QueueConstants
<1>. DEFINE H == head_node_index
            T == tail_node_index
            B == base_node_size
<1>1. Shape /\ Ends /\ Rest
  BY InvGives
<1>2. /\ H \in Nat /\ T \in Nat /\ B \in Nat /\ node_index \in Nat /\ node_index < MaxNodes
      /\ B < H /\ H <= T /\ node_index = T /\ MaxNodes \in Nat /\ B > 0
  BY <1>1 DEF Shape, Ends, Resize, Nodes
<1>3. /\ head_node_index' = B /\ tail_node_index' = B + T - H
      /\ node_index' = B + T - H
      /\ UNCHANGED <<head_queue_index, tail_queue_index, node_size, free_count,
                     long_wait_index, draining, panicked, use>>
  BY <1>2 DEF Resize, MoveIndex, longs
<1>4. \A n \in Nodes : queues'[n] = IF n < B THEN queues[n]
                                     ELSE IF n <= B + T - H THEN queues[n + (H - B)]
                                     ELSE <<>>
  <2>1. SUFFICES ASSUME NEW n \in Nodes
                 PROVE  queues'[n] = IF n < B THEN queues[n]
                                     ELSE IF n <= B + T - H THEN queues[n + (H - B)]
                                     ELSE <<>>
    OBVIOUS
  <2>2. n \in Nat
    BY DEF Nodes
  <2>3. queues'[n] = IF n < B THEN queues[n]
                     ELSE IF n + (H - B) <= T THEN queues[n + (H - B)]
                     ELSE IF n <= T THEN <<>> ELSE queues[n]
    BY DEF Resize, MoveIndex
  <2>4. n + (H - B) <= T <=> n <= B + T - H
    BY <1>2, <2>2
  <2>5. n > T => queues[n] = <<>>
    BY <1>1, <1>2, <2>2 DEF Shape
  <2>. QED
    BY <1>2, <2>2, <2>3, <2>4, <2>5
<1>5. \A n \in Nodes : n >= B /\ n <= B + T - H => n + (H - B) \in Nodes /\ n + (H - B) <= node_index
  BY <1>2 DEF Nodes
<1>6. queues' \in [Nodes -> Seq(Entries)]
  <2>1. ASSUME NEW n \in Nodes PROVE queues'[n] \in Seq(Entries)
    <3>1. n \in Nat /\ <<>> \in Seq(Entries)
      BY DEF Nodes
    <3>2. \A m \in Nodes : queues[m] \in Seq(Entries)
      BY <1>1 DEF Shape
    <3>3. CASE n < B
      BY <1>4, <3>2, <3>3
    <3>4. CASE n >= B /\ n <= B + T - H
      BY <1>2, <1>4, <1>5, <3>1, <3>2, <3>4
    <3>5. CASE n > B + T - H
      <4>1. ~(n < B) /\ ~(n <= B + T - H)
        BY <1>2, <3>1, <3>5
      <4>2. queues'[n] = <<>>
        BY <1>4, <4>1
      <4>. QED
        BY <3>1, <4>2
    <3>. QED
      BY <1>2, <3>1, <3>3, <3>4, <3>5
  <2>2. queues' = [n \in Nodes |-> queues'[n]]
    BY DEF Resize
  <2>. QED
    BY <2>1, <2>2
<1>7. \A n \in Nodes : queues'[n] # <<>> <=> n <= node_index'
  <2>1. SUFFICES ASSUME NEW n \in Nodes PROVE queues'[n] # <<>> <=> n <= node_index'
    OBVIOUS
  <2>2. n \in Nat
    BY DEF Nodes
  <2>3. CASE n < B
    BY <1>1, <1>2, <1>3, <1>4, <2>2, <2>3 DEF Shape
  <2>4. CASE n >= B /\ n <= B + T - H
    BY <1>1, <1>2, <1>3, <1>4, <1>5, <2>2, <2>4 DEF Shape
  <2>5. CASE n > B + T - H
    BY <1>2, <1>3, <1>4, <2>2, <2>5
  <2>. QED
    BY <1>2, <2>2, <2>3, <2>4, <2>5
<1>8. \A n \in Nodes : Len(queues'[n]) <= base_queue_size + QUEUE_MAX_MALLOC_SIZE
  <2>1. SUFFICES ASSUME NEW n \in Nodes
                 PROVE  Len(queues'[n]) <= base_queue_size + QUEUE_MAX_MALLOC_SIZE
    OBVIOUS
  <2>2. n \in Nat
    BY DEF Nodes
  <2>3. CASE n < B
    BY <1>1, <1>4, <2>3 DEF Shape
  <2>4. CASE n >= B /\ n <= B + T - H
    BY <1>1, <1>2, <1>4, <1>5, <2>2, <2>4 DEF Shape
  <2>5. CASE n > B + T - H
    BY <1>2, <1>4, <2>2, <2>5
  <2>. QED
    BY <1>2, <2>2, <2>3, <2>4, <2>5
<1>9. queue_size' \in Nat /\ queue_size' > 0
  <2>1. T \in Nodes
    BY <1>2 DEF Nodes
  <2>2. base_queue_size * 2^T \in 1..MaxInt32
    BY <2>1, SizesFit
  <2>3. base_queue_size * 2^T \in Nat /\ base_queue_size * 2^T > 0
    BY <2>2
  <2>. QED
    BY <2>3 DEF Resize
<1>10. Shape'
  BY <1>1, <1>2, <1>3, <1>6, <1>7, <1>8, <1>9 DEF Shape, Nodes
<1>11. Ends'
  <2>1. B \in Nodes /\ B + T - H \in Nodes
    BY <1>2 DEF Nodes
  <2>2. queues'[B] = queues[H] /\ queues'[B + T - H] = queues[T]
    BY <1>2, <1>4, <2>1
  <2>. QED
    BY <1>1, <1>2, <1>3, <2>2 DEF Ends
<1>12. Rest'
  BY <1>1, <1>3 DEF Rest
<1>. QED
  BY <1>10, <1>11, <1>12, InvFollows

-----------------------------------------------------------------------------

\* Every step of a queue that is not a long queue keeps the invariant.
LEMMA QueueStep ==
  ASSUME QueueInv, use # "long", [Next]_vars PROVE QueueInv'
<1>. USE QueueConstants
<1>1. Shape /\ Ends /\ Rest
  BY InvGives
<1>2. use # "long"
  OBVIOUS
<1>3. queues \in [Nodes -> Seq(Entries)]
  BY <1>1 DEF Shape
<1>4. ASSUME NEW l \in Locks, Push(l) PROVE QueueInv'
  BY <1>4, PushInv
<1>5. CASE Pop
  BY <1>5, PopInv
<1>6. CASE PopRight
  BY <1>6, PopRightInv
<1>7. CASE Peek
  BY <1>1, <1>7, InvFollows DEF Peek, head, tail, longs, Shape, Ends, Rest
<1>8. CASE Reset
  <2>1. draining' \in BOOLEAN
    BY <1>8, Zenon DEF Reset
  <2>. QED
    BY <1>3, <1>8, <2>1, ResetInv DEF Reset
<1>9. CASE Rellac
  BY <1>9, RellacInv
<1>10. CASE Resize
  BY <1>10, ResizeInv
<1>11. CASE Iter
  <2>1. PICK taken : ResetQueue([n \in Nodes |-> [k \in DOMAIN queues[n] |->
                       IF <<n, k - 1>> \in taken THEN NIL ELSE queues[n][k]]])
    BY <1>11 DEF Iter
  <2>. DEFINE qs == [n \in Nodes |-> [k \in DOMAIN queues[n] |->
                       IF <<n, k - 1>> \in taken THEN NIL ELSE queues[n][k]]]
  <2>2. ASSUME NEW n \in Nodes PROVE qs[n] \in Seq(Entries) /\ Len(qs[n]) = Len(queues[n])
    <3>1. queues[n] \in Seq(Entries)
      BY <1>3
    <3>2. DOMAIN queues[n] = 1..Len(queues[n]) /\ Len(queues[n]) \in Nat
      BY <3>1
    <3>3. \A k \in 1..Len(queues[n]) : queues[n][k] \in Entries
      BY <3>1
    <3>4. qs[n] = [k \in 1..Len(queues[n]) |->
                     IF <<n, k - 1>> \in taken THEN NIL ELSE queues[n][k]]
      BY <3>2
    <3>5. NIL \in Entries
      BY DEF Entries
    <3>. HIDE DEF qs
    <3>. QED
      BY <3>2, <3>3, <3>4, <3>5
  <2>3. qs \in [Nodes -> Seq(Entries)]
    BY <2>2
  <2>. HIDE DEF qs
  <2>4. ResetQueue(qs)
    BY <2>1 DEF qs
  <2>5. UNCHANGED <<node_size, long_wait_index, use, free_count, draining>>
    BY <1>11 DEF Iter, longs
  <2>6. free_count' \in Nat /\ draining' \in BOOLEAN
    BY <1>1, <2>5 DEF Rest
  <2>. QED
    BY <2>2, <2>3, <2>4, <2>5, <2>6, ResetInv
<1>12. CASE UNCHANGED vars
  BY <1>1, <1>12, InvFollows DEF vars, head, tail, longs, Shape, Ends, Rest
<1>. QED
  BY <1>2, <1>4, <1>5, <1>6, <1>7, <1>8, <1>9, <1>10, <1>11, <1>12
     DEF Next, RemoveLong, Restructuring

\* A queue is put to one use when it is made and keeps it.
LEMMA UseKept ==
  ASSUME [Next]_vars PROVE use' = use
<1>1. ASSUME NEW l \in Locks, Push(l) \/ RemoveLong(l) PROVE use' = use
  BY <1>1 DEF Push, RemoveLong
<1>. QED
  BY <1>1 DEF Next, vars, Pop, PopRight, Peek, Reset, Rellac, Resize, Iter, Restructuring

\* Whatever sequence of Push, Pop, PopRight, Head, Resize, Rellac, Reset and the
\* Iter loops a holder, wait, wheel, millisecond queue or a pool goes through, and
\* whatever the sizes of its nodes: head and tail stay slots of nodes that exist,
\* in this order, no index is out of range, node_index is the last node there is
\* and the next node is never of size 0.
THEOREM ShortQueuesSound == Spec => []ShortQueueInv
<1>1. Init => ShortQueueInv
  BY InitInv DEF ShortQueueInv
<1>2. ShortQueueInv /\ [Next]_vars => ShortQueueInv'
  BY QueueStep, UseKept DEF ShortQueueInv
<1>. QED
  BY <1>1, <1>2, PTL DEF Spec

\* A queue that is not a long one.
LEMMA ShortUse ==
  ASSUME "long" \notin Uses PROVE Spec => []QueueInv
<1>1. Init => QueueInv
  BY InitInv
<1>2. QueueInv /\ [Next]_vars => QueueInv'
  BY QueueStep DEF QueueInv, TypeOK
<1>. QED
  BY <1>1, <1>2, PTL DEF Spec

\* In a program with no long queue, no index is ever out of range.
THEOREM IndexesInRange ==
  ASSUME "long" \notin Uses PROVE Spec => []InRange
<1>1. QueueInv => InRange
  BY DEF QueueInv
<1>. QED
  BY <1>1, ShortUse, PTL

\* In the same uses node_index is the last node there is, after every operation.
THEOREM NodesIndexed ==
  ASSUME "long" \notin Uses PROVE Spec => []NodeIndexed
<1>1. QueueInv => NodeIndexed
  BY DEF QueueInv
<1>. QED
  BY <1>1, ShortUse, PTL

-----------------------------------------------------------------------------
Pairs == Nat \X Nat

\* The slot of rank i in S.
Nth(S, i) == CHOOSE s \in S : Rank(s, S) = i

\* Before is a strict total order.
LEMMA BeforeOrder ==
  ASSUME NEW s \in Pairs, NEW t \in Pairs, NEW u \in Pairs
  PROVE  /\ ~Before(s, s)
         /\ Before(s, t) /\ Before(t, u) => Before(s, u)
         /\ s # t => Before(s, t) \/ Before(t, s)
         /\ ~(Before(s, t) /\ Before(t, s))
BY DEF Pairs, Before

\* A rank is below the size of the set, and grows with the slot.
LEMMA RankRange ==
  ASSUME NEW S \in SUBSET Pairs, IsFiniteSet(S), NEW s \in S
  PROVE  Rank(s, S) \in 0..(Cardinality(S) - 1)
<1>. DEFINE A == {t \in S : Before(t, s)}
<1>1. A \subseteq S /\ s \notin A
  BY BeforeOrder
<1>2. A \in SUBSET (S \ {s})
  BY <1>1
<1>3. IsFiniteSet(S \ {s}) /\ Cardinality(S \ {s}) = Cardinality(S) - 1
  BY FS_RemoveElement
<1>4. IsFiniteSet(A) /\ Cardinality(A) <= Cardinality(S) - 1
  BY <1>2, <1>3, FS_Subset
<1>5. Cardinality(A) \in Nat /\ Cardinality(S) \in Nat
  BY <1>4, FS_CardinalityType
<1>6. Rank(s, S) = Cardinality(A)
  BY DEF Rank
<1>. HIDE DEF A
<1>. QED
  BY <1>4, <1>5, <1>6

\* A later pair of a finite set has a greater rank.
LEMMA RankGrows ==
  ASSUME NEW S \in SUBSET Pairs, IsFiniteSet(S), NEW s \in S, NEW t \in S, Before(s, t)
  PROVE  Rank(s, S) < Rank(t, S)
<1>. DEFINE A == {u \in S : Before(u, s)}
            B == {u \in S : Before(u, t)}
<1>1. s \notin A /\ A \cup {s} \subseteq B /\ A \in SUBSET S /\ B \in SUBSET S
  BY BeforeOrder
<1>2. IsFiniteSet(A) /\ IsFiniteSet(B)
  BY <1>1, FS_Subset
<1>3. Cardinality(A \cup {s}) = Cardinality(A) + 1
  BY <1>1, <1>2, FS_AddElement
<1>4. Cardinality(A \cup {s}) <= Cardinality(B)
  BY <1>1, <1>2, FS_Subset
<1>5. Cardinality(A) \in Nat /\ Cardinality(B) \in Nat
  BY <1>2, FS_CardinalityType
<1>6. Rank(s, S) = Cardinality(A) /\ Rank(t, S) = Cardinality(B)
  BY DEF Rank
<1>. HIDE DEF A, B
<1>. QED
  BY <1>3, <1>4, <1>5, <1>6

\* There is exactly one slot of each rank.
LEMMA RankOnto ==
  ASSUME NEW S \in SUBSET Pairs, IsFiniteSet(S), NEW i \in 0..(Cardinality(S) - 1)
  PROVE  \E s \in S : Rank(s, S) = i
<1>. DEFINE N == Cardinality(S)
            T == (0..(N - 1)) \ {i}
            f == [s \in S |-> Rank(s, S)]
<1>. SUFFICES ASSUME \A s \in S : Rank(s, S) # i PROVE FALSE
  OBVIOUS
<1>1. N \in Nat
  BY FS_CardinalityType
<1>2. IsFiniteSet(0..(N - 1)) /\ Cardinality(0..(N - 1)) = N
  BY <1>1, FS_Interval
<1>3. IsFiniteSet(T) /\ Cardinality(T) = N - 1
  BY <1>2, FS_RemoveElement, ZenonT(60)
<1>4. f \in [S -> T]
  BY RankRange
<1>5. Cardinality(T) < Cardinality(S)
  BY <1>1, <1>3
<1>. HIDE DEF T, f
<1>6. PICK s \in S, t \in S : s # t /\ f[s] = f[t]
  BY <1>3, <1>4, <1>5, FS_PigeonHole
<1>7. Rank(s, S) = Rank(t, S)
  BY <1>6 DEF f
<1>8. Before(s, t) \/ Before(t, s)
  BY <1>6, BeforeOrder
<1>9. Rank(s, S) \in Nat /\ Rank(t, S) \in Nat
  BY RankRange, <1>1
<1>. QED
  BY <1>7, <1>8, <1>9, RankGrows

\* Nth and Rank are inverse to each other.
LEMMA NthIs ==
  ASSUME NEW S \in SUBSET Pairs, IsFiniteSet(S)
  PROVE  /\ \A i \in 0..(Cardinality(S) - 1) : Nth(S, i) \in S /\ Rank(Nth(S, i), S) = i
         /\ \A s \in S : Nth(S, Rank(s, S)) = s
<1>1. ASSUME NEW i \in 0..(Cardinality(S) - 1) PROVE Nth(S, i) \in S /\ Rank(Nth(S, i), S) = i
  <2>1. \E s \in S : Rank(s, S) = i
    BY RankOnto
  <2>. QED
    BY <2>1 DEF Nth
<1>2. ASSUME NEW s \in S PROVE Nth(S, Rank(s, S)) = s
  <2>. DEFINE t == Nth(S, Rank(s, S))
  <2>1. Rank(s, S) \in 0..(Cardinality(S) - 1)
    BY RankRange
  <2>2. t \in S /\ Rank(t, S) = Rank(s, S)
    BY <1>1, <2>1
  <2>3. Cardinality(S) \in Nat
    BY FS_CardinalityType
  <2>. HIDE DEF t
  <2>4. t # s => Before(s, t) \/ Before(t, s)
    BY <2>2, BeforeOrder
  <2>5. t = s
    BY <2>1, <2>2, <2>3, <2>4, RankGrows
  <2>. QED
    BY <2>5 DEF t
<1>. QED
  BY <1>1, <1>2

\* A slot behind all others comes last.
LEMMA OrderLast ==
  ASSUME NEW S \in SUBSET Pairs, IsFiniteSet(S), NEW t \in Pairs, \A s \in S : Before(s, t)
  PROVE  /\ IsFiniteSet(S \cup {t}) /\ Cardinality(S \cup {t}) = Cardinality(S) + 1
         /\ \A i \in 0..(Cardinality(S) - 1) : Nth(S \cup {t}, i) = Nth(S, i)
         /\ Nth(S \cup {t}, Cardinality(S)) = t
<1>. DEFINE U == S \cup {t}
<1>1. t \notin S
  BY BeforeOrder
<1>2. IsFiniteSet(U) /\ Cardinality(U) = Cardinality(S) + 1 /\ U \in SUBSET Pairs
  BY <1>1, FS_AddElement
<1>3. ASSUME NEW s \in S PROVE Rank(s, U) = Rank(s, S)
  <2>1. {u \in U : Before(u, s)} = {u \in S : Before(u, s)}
    BY BeforeOrder
  <2>. QED
    BY <2>1 DEF Rank
<1>4. Rank(t, U) = Cardinality(S)
  <2>1. {u \in U : Before(u, t)} = S
    BY BeforeOrder
  <2>. QED
    BY <2>1 DEF Rank
<1>. HIDE DEF U
<1>5. \A s \in U : Nth(U, Rank(s, U)) = s
  BY <1>2, NthIs
<1>6. S \subseteq U /\ t \in U
  BY DEF U
<1>7. ASSUME NEW i \in 0..(Cardinality(S) - 1) PROVE Nth(U, i) = Nth(S, i)
  <2>1. Nth(S, i) \in S /\ Rank(Nth(S, i), S) = i
    BY NthIs
  <2>. QED
    BY <1>3, <1>5, <1>6, <2>1
<1>8. Nth(U, Cardinality(S)) = t
  BY <1>4, <1>5, <1>6
<1>. QED
  BY <1>2, <1>7, <1>8 DEF U

\* A slot before all others comes first.
LEMMA OrderFirst ==
  ASSUME NEW S \in SUBSET Pairs, IsFiniteSet(S), NEW t \in Pairs, \A s \in S : Before(t, s)
  PROVE  /\ IsFiniteSet(S \cup {t}) /\ Cardinality(S \cup {t}) = Cardinality(S) + 1
         /\ \A i \in 0..(Cardinality(S) - 1) : Nth(S \cup {t}, i + 1) = Nth(S, i)
         /\ Nth(S \cup {t}, 0) = t
<1>. DEFINE U == S \cup {t}
<1>1. t \notin S
  BY BeforeOrder
<1>2. IsFiniteSet(U) /\ Cardinality(U) = Cardinality(S) + 1 /\ U \in SUBSET Pairs
  BY <1>1, FS_AddElement
<1>3. ASSUME NEW s \in S PROVE Rank(s, U) = Rank(s, S) + 1
  <2>. DEFINE A == {u \in S : Before(u, s)}
  <2>1. {u \in U : Before(u, s)} = A \cup {t} /\ t \notin A /\ A \in SUBSET S
    BY <1>1
  <2>2. IsFiniteSet(A)
    BY <2>1, FS_Subset
  <2>3. Cardinality(A \cup {t}) = Cardinality(A) + 1
    BY <2>1, <2>2, FS_AddElement
  <2>. QED
    BY <2>1, <2>3 DEF Rank
<1>4. Rank(t, U) = 0
  <2>1. {u \in U : Before(u, t)} = {}
    BY BeforeOrder
  <2>. QED
    BY <2>1, FS_EmptySet DEF Rank
<1>. HIDE DEF U
<1>5. \A s \in U : Nth(U, Rank(s, U)) = s
  BY <1>2, NthIs
<1>6. S \subseteq U /\ t \in U
  BY DEF U
<1>7. ASSUME NEW i \in 0..(Cardinality(S) - 1) PROVE Nth(U, i + 1) = Nth(S, i)
  <2>1. Nth(S, i) \in S /\ Rank(Nth(S, i), S) = i
    BY NthIs
  <2>. QED
    BY <1>3, <1>5, <1>6, <2>1
<1>8. Nth(U, 0) = t
  BY <1>4, <1>5, <1>6
<1>. QED
  BY <1>2, <1>7, <1>8 DEF U

\* Slots that are moved and keep their order keep their ranks.
LEMMA OrderMoved ==
  ASSUME NEW S \in SUBSET Pairs, IsFiniteSet(S), NEW U \in SUBSET Pairs, NEW f \in Bijection(S, U),
         \A s, t \in S : Before(s, t) <=> Before(f[s], f[t])
  PROVE  /\ IsFiniteSet(U) /\ Cardinality(U) = Cardinality(S)
         /\ \A i \in 0..(Cardinality(S) - 1) : Nth(U, i) = f[Nth(S, i)]
<1>1. IsFiniteSet(U) /\ Cardinality(U) = Cardinality(S)
  BY FS_Bijection DEF ExistsBijection
<1>2. /\ f \in [S -> U] /\ \A s, t \in S : f[s] = f[t] => s = t
      /\ \A u \in U : \E s \in S : f[s] = u
  BY DEF Bijection, Injection, Surjection, IsInjective
<1>3. ASSUME NEW s \in S PROVE Rank(f[s], U) = Rank(s, S)
  <2>. DEFINE A == {t \in S : Before(t, s)}
              B == {t \in U : Before(t, f[s])}
              h == [t \in A |-> f[t]]
  <2>1. IsFiniteSet(A)
    BY FS_Subset
  <2>2. h \in Bijection(A, B)
    <3>1. h \in [A -> B]
      BY <1>2
    <3>2. \A t, u \in A : h[t] = h[u] => t = u
      BY <1>2
    <3>3. \A b \in B : \E t \in A : h[t] = b
      BY <1>2
    <3>. QED
      BY <3>1, <3>2, <3>3 DEF Bijection, Injection, Surjection, IsInjective
  <2>. HIDE DEF A, B, h
  <2>3. Cardinality(B) = Cardinality(A)
    BY <2>1, <2>2, FS_Bijection DEF ExistsBijection
  <2>. QED
    BY <2>3 DEF Rank, A, B
<1>4. ASSUME NEW i \in 0..(Cardinality(S) - 1) PROVE Nth(U, i) = f[Nth(S, i)]
  <2>1. Nth(S, i) \in S /\ Rank(Nth(S, i), S) = i
    BY NthIs
  <2>2. f[Nth(S, i)] \in U /\ Rank(f[Nth(S, i)], U) = i
    BY <1>2, <1>3, <2>1
  <2>3. \A u \in U : Nth(U, Rank(u, U)) = u
    BY <1>1, NthIs
  <2>. QED
    BY <2>2, <2>3
<1>. QED
  BY <1>1, <1>4

-----------------------------------------------------------------------------
\* What a function v gives for the slots of S, in their order.
Listed(S, v) == [i \in 1..Cardinality(S) |-> v[Nth(S, i - 1)]]

\* A list of values of one type is a sequence of that type.
LEMMA ListedType ==
  ASSUME NEW S \in SUBSET Pairs, IsFiniteSet(S), NEW X, NEW v, \A s \in S : v[s] \in X
  PROVE  Listed(S, v) \in Seq(X) /\ Len(Listed(S, v)) = Cardinality(S)
<1>1. Cardinality(S) \in Nat
  BY FS_CardinalityType
<1>2. ASSUME NEW i \in 1..Cardinality(S) PROVE v[Nth(S, i - 1)] \in X
  <2>1. i - 1 \in 0..(Cardinality(S) - 1)
    BY <1>1
  <2>2. Nth(S, i - 1) \in S
    BY <2>1, NthIs
  <2>. QED
    BY <2>2
<1>3. Listed(S, v) \in [1..Cardinality(S) -> X]
  BY <1>2 DEF Listed
<1>. QED
  BY <1>1, <1>3

\* Slot t comes behind, or before, those of S, and w agrees with v on them.
AddedLast(S, t, U, X, v, w) ==
  /\ S \in SUBSET Pairs /\ IsFiniteSet(S) /\ t \in Pairs /\ U = S \cup {t}
  /\ \A s \in S : Before(s, t)
  /\ (\A s \in U : w[s] \in X) /\ (\A s \in S : w[s] = v[s])

AddedFirst(S, t, U, X, v, w) ==
  /\ S \in SUBSET Pairs /\ IsFiniteSet(S) /\ t \in Pairs /\ U = S \cup {t}
  /\ \A s \in S : Before(t, s)
  /\ (\A s \in U : w[s] \in X) /\ (\A s \in S : w[s] = v[s])

\* A slot behind the others comes last.
LEMMA ListedLast ==
  ASSUME NEW S, NEW t, NEW U, NEW X, NEW v, NEW w, AddedLast(S, t, U, X, v, w)
  PROVE  /\ Listed(U, w) \in Seq(X) /\ Listed(S, v) \in Seq(X)
         /\ Len(Listed(U, w)) = Len(Listed(S, v)) + 1
         /\ Listed(U, w)[Len(Listed(S, v)) + 1] = w[t]
         /\ \A i \in 1..Len(Listed(S, v)) : Listed(U, w)[i] = Listed(S, v)[i]
<1>. DEFINE N == Cardinality(S)
<1>0. /\ S \in SUBSET Pairs /\ IsFiniteSet(S) /\ t \in Pairs /\ U = S \cup {t}
      /\ \A s \in S : Before(s, t)
      /\ (\A s \in U : w[s] \in X) /\ (\A s \in S : w[s] = v[s])
  BY DEF AddedLast
<1>1. N \in Nat
  BY <1>0, FS_CardinalityType
<1>2. /\ IsFiniteSet(U) /\ Cardinality(U) = N + 1 /\ U \in SUBSET Pairs
      /\ \A i \in 0..(N - 1) : Nth(U, i) = Nth(S, i)
      /\ Nth(U, N) = t
  BY <1>0, OrderLast
<1>3. \A i \in 0..(N - 1) : Nth(S, i) \in S
  BY <1>0, NthIs
<1>4. Listed(S, v) \in Seq(X) /\ Len(Listed(S, v)) = N
  BY <1>0, ListedType
<1>5. Listed(U, w) \in Seq(X) /\ Len(Listed(U, w)) = N + 1
  BY <1>0, <1>2, ListedType
<1>. HIDE DEF N
<1>6. \A i \in 1..(N + 1) : Listed(U, w)[i] = w[Nth(U, i - 1)]
  BY <1>2 DEF Listed
<1>7. \A i \in 1..N : Listed(S, v)[i] = v[Nth(S, i - 1)]
  BY DEF Listed, N
<1>8. Listed(U, w)[N + 1] = w[t]
  BY <1>1, <1>2, <1>6
<1>9. ASSUME NEW i \in 1..N PROVE Listed(U, w)[i] = Listed(S, v)[i]
  <2>1. i \in 1..(N + 1) /\ i - 1 \in 0..(N - 1)
    BY <1>1
  <2>. QED
    BY <1>0, <1>2, <1>3, <1>6, <1>7, <2>1
<1>. QED
  BY <1>4, <1>5, <1>8, <1>9

\* A slot before the others is the head.
LEMMA ListedFirst ==
  ASSUME NEW S, NEW t, NEW U, NEW X, NEW v, NEW w, AddedFirst(S, t, U, X, v, w)
  PROVE  /\ Listed(U, w) \in Seq(X) /\ Listed(S, v) \in Seq(X)
         /\ Len(Listed(U, w)) = Len(Listed(S, v)) + 1
         /\ Listed(U, w)[1] = w[t]
         /\ \A i \in 1..Len(Listed(S, v)) : Listed(U, w)[i + 1] = Listed(S, v)[i]
<1>. DEFINE N == Cardinality(S)
            all == Listed(U, w)
<1>0. /\ S \in SUBSET Pairs /\ IsFiniteSet(S) /\ t \in Pairs /\ U = S \cup {t}
      /\ \A s \in S : Before(t, s)
      /\ (\A s \in U : w[s] \in X) /\ (\A s \in S : w[s] = v[s])
  BY DEF AddedFirst
<1>1. N \in Nat
  BY <1>0, FS_CardinalityType
<1>2. /\ IsFiniteSet(U) /\ Cardinality(U) = N + 1 /\ U \in SUBSET Pairs
      /\ \A i \in 0..(N - 1) : Nth(U, i + 1) = Nth(S, i)
      /\ Nth(U, 0) = t
  BY <1>0, OrderFirst
<1>3. \A i \in 0..(N - 1) : Nth(S, i) \in S
  BY <1>0, NthIs
<1>4. Listed(S, v) \in Seq(X) /\ Len(Listed(S, v)) = N
  BY <1>0, ListedType
<1>5. all \in Seq(X) /\ Len(all) = N + 1
  BY <1>0, <1>2, ListedType
<1>6. \A i \in 1..(N + 1) : all[i] = w[Nth(U, i - 1)]
  BY <1>2 DEF Listed
<1>7. \A i \in 1..N : Listed(S, v)[i] = v[Nth(S, i - 1)]
  BY DEF Listed
<1>. HIDE DEF N, all
<1>8. all[1] = w[t]
  BY <1>1, <1>2, <1>6
<1>9. ASSUME NEW i \in 1..N PROVE all[i + 1] = Listed(S, v)[i]
  <2>1. i + 1 \in 1..(N + 1) /\ (i + 1) - 1 = (i - 1) + 1 /\ i - 1 \in 0..(N - 1)
    BY <1>1
  <2>2. all[i + 1] = w[Nth(U, (i - 1) + 1)]
    BY <1>6, <2>1
  <2>3. Nth(U, (i - 1) + 1) = Nth(S, i - 1)
    BY <1>2, <2>1
  <2>. QED
    BY <1>0, <1>3, <1>7, <2>1, <2>2, <2>3
<1>. QED
  BY <1>4, <1>5, <1>8, <1>9 DEF all

\* A set with one more pair at its end lists one more value at its end.
LEMMA ListedAppend ==
  ASSUME NEW S, NEW t, NEW U, NEW X, NEW v, NEW w, AddedLast(S, t, U, X, v, w)
  PROVE  /\ Listed(S, v) \in Seq(X) /\ w[t] \in X
         /\ Listed(U, w) = Append(Listed(S, v), w[t])
<1>. DEFINE a == Listed(S, v)
            b == Listed(U, w)
<1>1. /\ S \in SUBSET Pairs /\ IsFiniteSet(S) /\ t \in Pairs /\ U = S \cup {t}
      /\ \A s \in S : Before(s, t)
      /\ (\A s \in U : w[s] \in X) /\ (\A s \in S : w[s] = v[s])
  BY DEF AddedLast
<1>2. /\ b \in Seq(X) /\ a \in Seq(X) /\ Len(b) = Len(a) + 1 /\ b[Len(a) + 1] = w[t]
      /\ \A i \in 1..Len(a) : b[i] = a[i]
  BY ListedLast
<1>3. w[t] \in X
  BY <1>1
<1>. HIDE DEF a, b
<1>4. b = Append(a, w[t])
  BY <1>2, <1>3
<1>. QED
  BY <1>2, <1>3, <1>4 DEF a, b

\* A set without its first pair lists the tail.
LEMMA ListedTail ==
  ASSUME NEW S, NEW t, NEW U, NEW X, NEW v, NEW w, AddedFirst(S, t, U, X, v, w)
  PROVE  /\ Listed(U, w) \in Seq(X) /\ Listed(U, w) # <<>>
         /\ Head(Listed(U, w)) = w[t] /\ Listed(S, v) = Tail(Listed(U, w))
<1>. DEFINE a == Listed(S, v)
            b == Listed(U, w)
<1>1. /\ S \in SUBSET Pairs /\ IsFiniteSet(S) /\ t \in Pairs /\ U = S \cup {t}
      /\ \A s \in S : Before(t, s)
      /\ (\A s \in U : w[s] \in X) /\ (\A s \in S : w[s] = v[s])
  BY DEF AddedFirst
<1>2. /\ b \in Seq(X) /\ a \in Seq(X) /\ Len(b) = Len(a) + 1 /\ b[1] = w[t]
      /\ \A i \in 1..Len(a) : b[i + 1] = a[i]
  BY ListedFirst
<1>. HIDE DEF a, b
<1>3. b # <<>> /\ Head(b) = w[t] /\ a = Tail(b)
  BY <1>2
<1>. QED
  BY <1>2, <1>3 DEF a, b

\* Slots that are moved with what they hold.
Moved(S, U, f, v, w) ==
  /\ S \in SUBSET Pairs /\ IsFiniteSet(S) /\ U \in SUBSET Pairs /\ f \in Bijection(S, U)
  /\ \A s, t \in S : Before(s, t) <=> Before(f[s], f[t])
  /\ \A s \in S : w[f[s]] = v[s]

\* Moving the pairs without changing their order leaves the list as it was.
LEMMA ListedMoved ==
  ASSUME NEW S, NEW U, NEW f, NEW v, NEW w, Moved(S, U, f, v, w)
  PROVE  Listed(U, w) = Listed(S, v)
<1>0. /\ S \in SUBSET Pairs /\ IsFiniteSet(S) /\ U \in SUBSET Pairs /\ f \in Bijection(S, U)
      /\ \A s, t \in S : Before(s, t) <=> Before(f[s], f[t])
      /\ \A s \in S : w[f[s]] = v[s]
  BY DEF Moved
<1>1. /\ Cardinality(U) = Cardinality(S)
      /\ \A i \in 0..(Cardinality(S) - 1) : Nth(U, i) = f[Nth(S, i)]
  BY <1>0, OrderMoved
<1>2. Cardinality(S) \in Nat
  BY <1>0, FS_CardinalityType
<1>3. ASSUME NEW i \in 1..Cardinality(S) PROVE w[Nth(U, i - 1)] = v[Nth(S, i - 1)]
  <2>1. i - 1 \in 0..(Cardinality(S) - 1)
    BY <1>2
  <2>. QED
    BY <1>0, <1>1, <2>1, NthIs
<1>. QED
  BY <1>1, <1>3 DEF Listed

-----------------------------------------------------------------------------
\* Where the window is.
Between(n, k) ==
  /\ head_node_index < n \/ (head_node_index = n /\ head_queue_index <= k)
  /\ n < tail_node_index \/ (n = tail_node_index /\ k < tail_queue_index)

\* The slots between head and tail, by node and index.
LEMMA WindowIs ==
  Shape /\ Ends =>
    \A n, k \in Nat : <<n, k>> \in Window <=> n \in Nodes /\ k < Len(queues[n]) /\ Between(n, k)
<1>. SUFFICES ASSUME Shape, Ends, NEW n \in Nat, NEW k \in Nat
              PROVE  <<n, k>> \in Window <=> n \in Nodes /\ k < Len(queues[n]) /\ Between(n, k)
  OBVIOUS
<1>1. <<n, k>> \in Slots <=> n \in Nodes /\ k < Len(queues[n])
  BY SlotIs
<1>2. ~Before(<<n, k>>, head) /\ Before(<<n, k>>, tail) <=> Between(n, k)
  BY DEF Before, head, tail, Between, Ends
<1>. QED
  BY <1>1, <1>2 DEF Window

\* The same after a step.
LEMMA WindowIsNext ==
  (Shape /\ Ends =>
    \A n, k \in Nat : <<n, k>> \in Window <=> n \in Nodes /\ k < Len(queues[n]) /\ Between(n, k))'
BY WindowIs, PTL

\* The window is a finite set of pairs.
LEMMA WindowFinite ==
  Window \in SUBSET Pairs /\ IsFiniteSet(Window)
<1>. DEFINE B == base_queue_size + QUEUE_MAX_MALLOC_SIZE
<1>1. Nodes \subseteq Nat /\ B \in Nat /\ MaxNodes - 1 \in Int
  BY QueueConstants DEF Nodes
<1>2. IsFiniteSet(Nodes) /\ IsFiniteSet(0..B)
  BY <1>1, FS_Interval DEF Nodes
<1>3. IsFiniteSet(Nodes \X (0..B))
  BY <1>2, FS_Product
<1>4. Window \in SUBSET (Nodes \X (0..B))
  BY DEF Window, Slots
<1>5. IsFiniteSet(Window)
  BY <1>3, <1>4, FS_Subset
<1>6. 0..B \subseteq Nat
  BY <1>1
<1>7. ASSUME NEW s \in Window PROVE s \in Pairs
  <2>. HIDE DEF B
  <2>1. s \in Nodes \X (0..B)
    BY <1>4
  <2>. QED
    BY <1>1, <1>6, <2>1 DEF Pairs
<1>. QED
  BY <1>5, <1>7

\* The window is a finite set of pairs after a step.
LEMMA WindowFiniteNext ==
  (Window \in SUBSET Pairs /\ IsFiniteSet(Window))'
BY WindowFinite, PTL

-----------------------------------------------------------------------------
\* The invariant before and after a step.
LEMMA InvParts == QueueInv => Shape /\ Ends /\ Rest
BY InvGives

\* The parts of the invariant after a step.
LEMMA InvPartsNext == (QueueInv => Shape /\ Ends /\ Rest)'
BY InvParts, PTL

\* Sets of pairs with the same pairs are the same.
LEMMA SamePairs ==
  ASSUME NEW A \in SUBSET Pairs, NEW B \in SUBSET Pairs,
         \A n, k \in Nat : <<n, k>> \in A <=> <<n, k>> \in B
  PROVE  A = B
<1>1. ASSUME NEW s \in Pairs PROVE s \in A <=> s \in B
  <2>1. PICK n \in Nat, k \in Nat : s = <<n, k>>
    BY DEF Pairs
  <2>. QED
    BY <2>1
<1>. QED
  BY <1>1

\* What the windows of short and of long queues rest on.
Frame ==
  /\ queues \in [Nodes -> Seq(Entries)]
  /\ \A n \in Nodes : Len(queues[n]) <= base_queue_size + QUEUE_MAX_MALLOC_SIZE
  /\ head_node_index \in Nodes /\ head_queue_index \in Nat
  /\ tail_node_index \in Nodes /\ tail_queue_index \in Nat
  /\ head_queue_index < Len(queues[head_node_index])
  /\ tail_queue_index < Len(queues[tail_node_index])
  /\ \/ head_node_index < tail_node_index
     \/ head_node_index = tail_node_index /\ head_queue_index <= tail_queue_index

\* Short queues have it.
LEMMA ShortFrame == QueueInv => Frame
<1>. SUFFICES ASSUME QueueInv PROVE Frame
  OBVIOUS
<1>1. Shape /\ Ends
  BY InvGives
<1>2. node_index \in Nat /\ node_index <= MaxNodes - 1
  BY <1>1, QueueConstants DEF Shape, Nodes
<1>3. head_node_index \in Nodes /\ tail_node_index \in Nodes
  BY <1>1, <1>2, QueueConstants DEF Ends, Nodes
<1>. QED
  BY <1>1, <1>3 DEF Frame, Shape, Ends

\* The same after a step.
LEMMA ShortFrameNext == (QueueInv => Frame)'
BY ShortFrame, PTL

\* Slots are a finite set of pairs, the indexes of the nodes; the window is the
\* part from head to tail.
LEMMA SlotsFinite == Slots \in SUBSET Pairs /\ IsFiniteSet(Slots)
<1>. DEFINE B == base_queue_size + QUEUE_MAX_MALLOC_SIZE
<1>1. Nodes \subseteq Nat /\ B \in Nat /\ MaxNodes - 1 \in Int
  BY QueueConstants DEF Nodes
<1>2. IsFiniteSet(Nodes) /\ IsFiniteSet(0..B)
  BY <1>1, FS_Interval DEF Nodes
<1>3. IsFiniteSet(Nodes \X (0..B))
  BY <1>2, FS_Product
<1>4. Slots \in SUBSET (Nodes \X (0..B))
  BY DEF Slots
<1>5. IsFiniteSet(Slots)
  BY <1>3, <1>4, FS_Subset
<1>6. 0..B \subseteq Nat
  BY <1>1
<1>7. ASSUME NEW s \in Slots PROVE s \in Pairs
  <2>. HIDE DEF B
  <2>1. s \in Nodes \X (0..B)
    BY <1>4
  <2>. QED
    BY <1>1, <1>6, <2>1 DEF Pairs
<1>. QED
  BY <1>5, <1>7

\* The same after a step.
LEMMA SlotsFiniteNext == (Slots \in SUBSET Pairs /\ IsFiniteSet(Slots))'
BY SlotsFinite, PTL

\* The slots of a framed queue, by node and index.
LEMMA FrameSlots ==
  Frame => \A n, k \in Nat : <<n, k>> \in Slots <=> n \in Nodes /\ k < Len(queues[n])
<1>. SUFFICES ASSUME Frame, NEW n \in Nat, NEW k \in Nat
              PROVE  <<n, k>> \in Slots <=> n \in Nodes /\ k < Len(queues[n])
  OBVIOUS
<1>1. \A m \in Nodes : Len(queues[m]) \in Nat
  BY DEF Frame
<1>. QED
  BY <1>1, QueueConstants, SMTT(30) DEF Frame, Slots, Nodes

\* The same after a step.
LEMMA FrameSlotsNext ==
  (Frame => \A n, k \in Nat : <<n, k>> \in Slots <=> n \in Nodes /\ k < Len(queues[n]))'
BY FrameSlots, PTL

\* The window of a framed queue, by node and index.
LEMMA FrameWindow ==
  Frame => \A n, k \in Nat : <<n, k>> \in Window <=> <<n, k>> \in Slots /\ Between(n, k)
<1>. SUFFICES ASSUME Frame, NEW n \in Nat, NEW k \in Nat
              PROVE  <<n, k>> \in Window <=> <<n, k>> \in Slots /\ Between(n, k)
  OBVIOUS
<1>1. /\ head_node_index \in Nat /\ head_queue_index \in Nat
      /\ tail_node_index \in Nat /\ tail_queue_index \in Nat
  BY QueueConstants DEF Frame, Nodes
<1>2. ~Before(<<n, k>>, head) /\ Before(<<n, k>>, tail) <=> Between(n, k)
  BY <1>1 DEF Before, head, tail, Between
<1>. QED
  BY <1>2 DEF Window

\* The same after a step.
LEMMA FrameWindowNext ==
  (Frame => \A n, k \in Nat : <<n, k>> \in Window <=> <<n, k>> \in Slots /\ Between(n, k))'
BY FrameWindow, PTL

\* Emptying a slot.
LEMMA VacatedSlots ==
  ASSUME Frame, NEW s \in Slots, queues' = Vacated(s)
  PROVE  /\ queues' \in [Nodes -> Seq(Entries)]
         /\ \A n \in Nodes : Len(queues'[n]) = Len(queues[n])
         /\ Slots' = Slots /\ At(s)' = NIL
         /\ \A u \in Slots : u # s => At(u)' = At(u)
<1>1. PICK n \in Nat, k \in Nat : s = <<n, k>>
  BY SlotsFinite DEF Pairs
<1>2. n \in Nodes /\ k < Len(queues[n]) /\ queues[n] \in Seq(Entries) /\ k + 1 \in 1..Len(queues[n])
  <2>1. n \in Nodes /\ k < Len(queues[n])
    BY <1>1, FrameSlots
  <2>2. queues[n] \in Seq(Entries)
    BY <2>1 DEF Frame
  <2>. QED
    BY <2>1, <2>2
<1>3. queues' = [queues EXCEPT ![n] = [queues[n] EXCEPT ![k + 1] = NIL]]
  BY <1>1, <1>2 DEF Vacated, Frame
<1>4. /\ [queues[n] EXCEPT ![k + 1] = NIL] \in Seq(Entries)
      /\ Len([queues[n] EXCEPT ![k + 1] = NIL]) = Len(queues[n])
      /\ [queues[n] EXCEPT ![k + 1] = NIL][k + 1] = NIL
      /\ \A j \in 1..Len(queues[n]) : j # k + 1 => [queues[n] EXCEPT ![k + 1] = NIL][j] = queues[n][j]
  BY <1>2 DEF Entries
<1>5. /\ queues' \in [Nodes -> Seq(Entries)]
      /\ \A m \in Nodes : Len(queues'[m]) = Len(queues[m])
  BY <1>2, <1>3, <1>4 DEF Frame
<1>6. Slots' = Slots
  BY <1>5 DEF Slots
<1>7. At(s)' = NIL
  BY <1>1, <1>2, <1>3, <1>4 DEF At, Frame
<1>8. ASSUME NEW u \in Slots, u # s PROVE At(u)' = At(u)
  <2>1. PICK m \in Nat, j \in Nat : u = <<m, j>>
    BY SlotsFinite DEF Pairs
  <2>2. m \in Nodes /\ j < Len(queues[m]) /\ Len(queues[m]) \in Nat
    BY <2>1, FrameSlots DEF Frame
  <2>3. CASE m # n
    BY <1>3, <2>1, <2>2, <2>3 DEF At, Frame
  <2>4. CASE m = n
    <3>1. j # k
      BY <1>1, <1>8, <2>1, <2>4
    <3>2. j + 1 # k + 1 /\ j + 1 \in 1..Len(queues[n])
      BY <2>2, <2>4, <3>1
    <3>3. queues'[n] = [queues[n] EXCEPT ![k + 1] = NIL]
      BY <1>2, <1>3 DEF Frame
    <3>4. queues'[n][j + 1] = queues[n][j + 1]
      BY <1>4, <3>2, <3>3
    <3>. QED
      BY <2>1, <2>4, <3>4 DEF At
  <2>. QED
    BY <2>3, <2>4
<1>. QED
  BY <1>5, <1>6, <1>7, <1>8

\* The window is a part of the slots, the live slots are a part of the window.
LEMMA WindowSlots == Window \subseteq Slots /\ Live \subseteq Window
BY DEF Window, Live

\* The same after a step.
LEMMA WindowSlotsNext == (Window \subseteq Slots /\ Live \subseteq Window)'
BY WindowSlots, PTL

\* Where the index goes next.
LEMMA FrameAfter ==
  ASSUME Frame, NEW n \in Nodes, NEW k \in Nat, k < Len(queues[n])
  PROVE  \/ After(<<n, k>>) = <<n, k + 1>> /\ k + 1 < Len(queues[n])
         \/ After(<<n, k>>) = <<n + 1, 0>> /\ k + 1 = Len(queues[n])
<1>1. Len(queues[n]) \in Nat
  BY DEF Frame
<1>. QED
  BY <1>1 DEF After

\* The slots a Push touches: the one at the tail, and those of a new node.
LEMMA PushSlots ==
  ASSUME Frame, Frame', NEW l \in Locks, Push(l)
  PROVE  \E t \in Pairs :
           /\ t = tail /\ t \notin Window /\ Window' = Window \cup {t} /\ At(t)' = l
           /\ \A s \in Window : Before(s, t) /\ At(s)' = At(s)
           /\ \A s \in Slots' : s # t => At(s)' = NIL \/ (s \in Slots /\ At(s)' = At(s))
<1>. USE QueueConstants
<1>1. PICK T \in Nat, K \in Nat : T = tail_node_index /\ K = tail_queue_index
  BY DEF Frame, Nodes
<1>2. /\ T \in Nodes /\ K < Len(queues[T]) /\ queues[T] \in Seq(Entries)
      /\ tail = <<T, K>>
  BY <1>1 DEF Frame, tail
<1>3. /\ UNCHANGED <<head_node_index, head_queue_index>>
      /\ \/ tail_node_index' = T /\ tail_queue_index' = K + 1 /\ K + 1 < Len(queues[T])
         \/ tail_node_index' = T + 1 /\ tail_queue_index' = 0 /\ K + 1 = Len(queues[T])
  BY <1>2, FrameAfter DEF Push, SetTail, head
<1>4. PICK N : /\ N = tail_node_index'
               /\ \A n \in Nodes : queues'[n] = IF n = T THEN [queues[n] EXCEPT ![K + 1] = l]
                                                ELSE IF n = N /\ NeedsNode(n) THEN Node(Doubled)
                                                ELSE queues[n]
  BY <1>1 DEF Push, SetTail
<1>5. /\ queues'[T] = [queues[T] EXCEPT ![K + 1] = l] /\ Len(queues'[T]) = Len(queues[T])
      /\ queues'[T][K + 1] = l
      /\ \A j \in Nat : j < Len(queues[T]) /\ j # K => queues'[T][j + 1] = queues[T][j + 1]
  <2>1. queues'[T] = [queues[T] EXCEPT ![K + 1] = l]
    BY <1>2, <1>4
  <2>. QED
    BY <1>2, <2>1
<1>6. ASSUME NEW n \in Nodes, n # T
      PROVE  queues'[n] = queues[n] \/ (n = N /\ queues'[n] = Node(Doubled))
  BY <1>4, <1>6
<1>7. ASSUME NEW n \in Nodes, n < T PROVE queues'[n] = queues[n]
  BY <1>1, <1>3, <1>4, <1>6, <1>7 DEF Nodes
<1>8. /\ head_node_index \in Nat /\ head_queue_index \in Nat
      /\ head_node_index < T \/ (head_node_index = T /\ head_queue_index <= K)
  BY <1>1 DEF Frame, Nodes
<1>9. ASSUME NEW n \in Nat, NEW k \in Nat
      PROVE  <<n, k>> \in Window' <=> <<n, k>> \in Window \/ (n = T /\ k = K)
  <2>1. <<n, k>> \in Window <=> n \in Nodes /\ k < Len(queues[n]) /\ Between(n, k)
    BY FrameWindow, FrameSlots
  <2>2. <<n, k>> \in Window' <=> n \in Nodes /\ k < Len(queues'[n]) /\ Between(n, k)'
    BY FrameWindowNext, FrameSlotsNext
  <2>3. Between(n, k)' => n <= T
    BY <1>3 DEF Between
  <2>4. n \in Nodes /\ n <= T => (k < Len(queues'[n]) <=> k < Len(queues[n]))
    BY <1>5, <1>7
  <2>5. ASSUME n <= T, n \in Nodes, k < Len(queues[n])
        PROVE  Between(n, k)' <=> Between(n, k) \/ (n = T /\ k = K)
    <3>1. PICK L \in Nat : L = Len(queues[T])
      BY <1>2
    <3>2. n = T => k < L
      BY <2>5, <3>1
    <3>. QED
      BY <1>1, <1>3, <1>8, <2>5, <3>1, <3>2 DEF Between
  <2>6. Between(n, k) => n <= T
    BY <1>1 DEF Between
  <2>. QED
    BY <1>2, <2>1, <2>2, <2>3, <2>4, <2>5, <2>6
<1>10. Window' = Window \cup {<<T, K>>}
  <2>1. PICK B : B = Window \cup {<<T, K>>}
    OBVIOUS
  <2>2. PICK A : A = Window'
    OBVIOUS
  <2>3. A \in SUBSET Pairs /\ B \in SUBSET Pairs
    BY <2>1, <2>2, WindowFinite, WindowFiniteNext DEF Pairs
  <2>4. \A n, k \in Nat : <<n, k>> \in A <=> <<n, k>> \in B
    BY <1>9, <2>1, <2>2
  <2>5. A = B
    BY ONLY <2>3, <2>4, SamePairs
  <2>. QED
    BY <2>1, <2>2, <2>5
<1>11. <<T, K>> \in Pairs /\ <<T, K>> \notin Window
  BY <1>2 DEF Pairs, Window, Before
<1>12. ASSUME NEW s \in Window PROVE Before(s, <<T, K>>) /\ At(s)' = At(s)
  <2>1. PICK n \in Nat, k \in Nat : s = <<n, k>>
    BY WindowFinite DEF Pairs
  <2>2. n \in Nodes /\ k < Len(queues[n]) /\ (n < T \/ (n = T /\ k < K))
    BY <1>1, <2>1, FrameWindow, FrameSlots DEF Between
  <2>3. queues'[n][k + 1] = queues[n][k + 1]
    BY <1>5, <1>7, <2>2
  <2>. QED
    BY <2>1, <2>2, <2>3 DEF At, Before
<1>13. At(<<T, K>>)' = l
  BY <1>5 DEF At
<1>14. ASSUME NEW s \in Slots', s # <<T, K>>
       PROVE  At(s)' = NIL \/ (s \in Slots /\ At(s)' = At(s))
  <2>1. PICK n \in Nat, k \in Nat : s = <<n, k>>
    BY SlotsFiniteNext DEF Pairs
  <2>2. n \in Nodes /\ k < Len(queues'[n])
    BY <2>1, FrameSlotsNext
  <2>3. CASE n = T
    <3>1. k # K /\ k < Len(queues[n])
      BY <1>5, <1>14, <2>1, <2>2, <2>3
    <3>2. queues'[n][k + 1] = queues[n][k + 1]
      BY <1>5, <2>3, <3>1
    <3>. QED
      BY <2>1, <2>2, <3>1, <3>2, FrameSlots DEF At
  <2>4. CASE n # T /\ queues'[n] = queues[n]
    BY <2>1, <2>2, <2>4, FrameSlots DEF At
  <2>5. CASE n # T /\ queues'[n] = Node(Doubled)
    <3>1. queues'[n] \in Seq(Entries)
      BY <2>2 DEF Frame
    <3>2. k + 1 \in 1..Len(queues'[n]) /\ DOMAIN queues'[n] = 1..Len(queues'[n])
      BY <2>2, <3>1
    <3>3. queues'[n][k + 1] = NIL
      BY <2>5, <3>2 DEF Node
    <3>. QED
      BY <2>1, <3>3 DEF At
  <2>. QED
    BY <1>6, <2>2, <2>3, <2>4, <2>5
<1>. QED
  BY <1>2, <1>10, <1>11, <1>12, <1>13, <1>14

\* Pop empties the slot at the head.
LEMMA PopSlots ==
  ASSUME Frame, Frame', Pop, ~Empty
  PROVE  \E h \in Pairs :
           /\ h = head /\ h \in Window /\ Window = Window' \cup {h} /\ h \notin Window'
           /\ Slots' = Slots /\ At(h)' = NIL
           /\ \A s \in Window' : Before(h, s)
           /\ \A s \in Slots : s # h => At(s)' = At(s)
<1>. USE QueueConstants
<1>1. PICK H \in Nat, K \in Nat : H = head_node_index /\ K = head_queue_index
  BY DEF Frame, Nodes
<1>2. H \in Nodes /\ K < Len(queues[H]) /\ queues[H] \in Seq(Entries) /\ head = <<H, K>>
  BY <1>1 DEF Frame, head
<1>3. /\ UNCHANGED <<tail_node_index, tail_queue_index>>
      /\ \/ head_node_index' = H /\ head_queue_index' = K + 1 /\ K + 1 < Len(queues[H])
         \/ head_node_index' = H + 1 /\ head_queue_index' = 0 /\ K + 1 = Len(queues[H])
  BY <1>2, FrameAfter DEF Pop, SetHead, tail
<1>4. <<H, K>> \in Slots /\ queues' = Vacated(<<H, K>>)
  BY <1>2, FrameSlots DEF Pop
<1>5. /\ Slots' = Slots /\ At(<<H, K>>)' = NIL
      /\ \A s \in Slots : s # <<H, K>> => At(s)' = At(s)
  BY <1>4, VacatedSlots
<1>6. /\ tail_node_index \in Nat /\ tail_queue_index \in Nat
      /\ H < tail_node_index \/ (H = tail_node_index /\ K < tail_queue_index)
  BY <1>1 DEF Empty, Frame, Nodes
<1>7. ASSUME NEW n \in Nat, NEW k \in Nat
      PROVE  <<n, k>> \in Window <=> <<n, k>> \in Window' \/ (n = H /\ k = K)
  <2>1. <<n, k>> \in Window <=> <<n, k>> \in Slots /\ Between(n, k)
    BY FrameWindow
  <2>2. <<n, k>> \in Window' <=> <<n, k>> \in Slots /\ Between(n, k)'
    BY <1>5, FrameWindowNext
  <2>3. ASSUME <<n, k>> \in Slots
        PROVE  Between(n, k) <=> Between(n, k)' \/ (n = H /\ k = K)
    <3>1. PICK L \in Nat : L = Len(queues[H])
      BY <1>2
    <3>2. n = H => k < L
      BY <2>3, <3>1, FrameSlots
    <3>. QED
      BY <1>1, <1>3, <1>6, <3>1, <3>2 DEF Between
  <2>. QED
    BY <1>4, <2>1, <2>2, <2>3
<1>8. Window = Window' \cup {<<H, K>>}
  <2>1. PICK B : B = Window' \cup {<<H, K>>}
    OBVIOUS
  <2>2. Window \in SUBSET Pairs /\ B \in SUBSET Pairs
    BY <2>1, WindowFinite, WindowFiniteNext DEF Pairs
  <2>3. \A n, k \in Nat : <<n, k>> \in Window <=> <<n, k>> \in B
    BY <1>7, <2>1
  <2>4. Window = B
    BY ONLY <2>2, <2>3, SamePairs
  <2>. QED
    BY <2>1, <2>4
<1>9. ASSUME NEW s \in Window' PROVE Before(<<H, K>>, s)
  <2>1. PICK n \in Nat, k \in Nat : s = <<n, k>>
    BY WindowFiniteNext DEF Pairs
  <2>2. Between(n, k)'
    BY <2>1, FrameWindowNext
  <2>3. n > H \/ (n = H /\ k > K)
    BY <1>3, <2>2 DEF Between
  <2>. QED
    BY <2>1, <2>3 DEF Before
<1>10. <<H, K>> \in Pairs /\ <<H, K>> \notin Window'
  BY <1>9 DEF Pairs, Before
<1>. QED
  BY <1>2, <1>5, <1>8, <1>9, <1>10

\* PopRight empties the slot before the tail.
LEMMA PopRightSlots ==
  ASSUME QueueInv, PopRight, ~Empty
  PROVE  \E u \in Pairs :
           /\ u = Preceding(tail) /\ u \in Window /\ Window = Window' \cup {u} /\ u \notin Window'
           /\ Slots' = Slots /\ At(u)' = NIL
           /\ \A s \in Window' : Before(s, u)
           /\ \A s \in Slots : s # u => At(s)' = At(s)
<1>. USE QueueConstants
<1>1. QueueInv' /\ Shape /\ Ends /\ Shape' /\ Ends' /\ Frame /\ Frame'
  BY PopRightInv, InvParts, InvPartsNext, ShortFrame, ShortFrameNext
<1>2. node_index \in Nat /\ node_index <= MaxNodes - 1
  BY <1>1 DEF Shape, Nodes
<1>3. \/ head_node_index < tail_node_index
      \/ head_node_index = tail_node_index /\ head_queue_index < tail_queue_index
  BY <1>1 DEF Empty, Ends
<1>4. PICK P \in Nat, J \in Nat :
        /\ P \in Nodes /\ J < Len(queues[P]) /\ Preceding(tail) = <<P, J>>
        /\ \/ tail_node_index = P /\ tail_queue_index = J + 1
           \/ tail_node_index = P + 1 /\ tail_queue_index = 0 /\ J + 1 = Len(queues[P])
  <2>. DEFINE T == tail_node_index
              K == tail_queue_index
  <2>1. CASE K = 0
    <3>1. T - 1 \in Nat /\ T - 1 \in Nodes /\ T - 1 <= node_index
      BY <1>1, <1>2, <1>3, <2>1 DEF Ends, Nodes
    <3>2. queues[T - 1] \in Seq(Entries) /\ queues[T - 1] # <<>>
      BY <1>1, <3>1 DEF Shape
    <3>3. Len(queues[T - 1]) - 1 \in Nat
      BY <3>2
    <3>4. Preceding(tail) = <<T - 1, Len(queues[T - 1]) - 1>>
      BY <2>1 DEF Preceding, tail
    <3>5. PICK p \in Nat, j \in Nat : p = T - 1 /\ j = Len(queues[T - 1]) - 1
      BY <3>1, <3>3
    <3>6. /\ p \in Nodes /\ j < Len(queues[p]) /\ Preceding(tail) = <<p, j>>
          /\ T = p + 1 /\ K = 0 /\ j + 1 = Len(queues[p])
      BY <1>1, <2>1, <3>1, <3>2, <3>4, <3>5 DEF Ends
    <3>. QED
      BY <3>6
  <2>2. CASE K # 0
    <3>1. T \in Nat /\ T \in Nodes /\ K \in Nat /\ K - 1 \in Nat
      BY <1>1, <1>2, <2>2 DEF Ends, Nodes
    <3>2. K - 1 < Len(queues[T])
      <4>1. K < Len(queues[T]) /\ queues[T] \in Seq(Entries)
        BY <1>1, <3>1 DEF Ends, Shape
      <4>. QED
        BY <3>1, <4>1
    <3>3. Preceding(tail) = <<T, K - 1>>
      BY <3>1 DEF Preceding, tail
    <3>. QED
      BY <3>1, <3>2, <3>3
  <2>. QED
    BY <2>1, <2>2
<1>5. /\ UNCHANGED <<head_node_index, head_queue_index>>
      /\ tail_node_index' = P /\ tail_queue_index' = J /\ queues' = Vacated(<<P, J>>)
  BY <1>4 DEF PopRight, SetTail, head
<1>6. /\ <<P, J>> \in Slots /\ Slots' = Slots /\ At(<<P, J>>)' = NIL
      /\ \A n \in Nodes : Len(queues'[n]) = Len(queues[n])
      /\ \A s \in Slots : s # <<P, J>> => At(s)' = At(s)
  <2>1. <<P, J>> \in Slots
    BY <1>1, <1>4, FrameSlots
  <2>. QED
    BY <1>1, <1>5, <2>1, VacatedSlots
<1>7. ASSUME NEW n \in Nat, NEW k \in Nat
      PROVE  <<n, k>> \in Window <=> <<n, k>> \in Window' \/ (n = P /\ k = J)
  <2>1. <<n, k>> \in Window <=> n \in Nodes /\ k < Len(queues[n]) /\ Between(n, k)
    BY <1>1, WindowIs
  <2>2. <<n, k>> \in Window' <=> n \in Nodes /\ k < Len(queues'[n]) /\ Between(n, k)'
    BY <1>1, WindowIsNext
  <2>3. ASSUME n \in Nodes, k < Len(queues[n])
        PROVE  Between(n, k) <=> Between(n, k)' \/ (n = P /\ k = J)
    <3>1. PICK L \in Nat : L = Len(queues[P])
      BY <1>1, <1>4 DEF Shape
    <3>2. n = P => k < L
      BY <2>3, <3>1
    <3>3. head_node_index \in Nat /\ head_queue_index \in Nat
      BY <1>1 DEF Ends
    <3>4. head_node_index = P => head_queue_index < L
      BY <1>1, <3>1 DEF Ends
    <3>. QED
      BY <1>3, <1>4, <1>5, <3>1, <3>2, <3>3, <3>4 DEF Between
  <2>. QED
    BY <1>4, <1>6, <2>1, <2>2, <2>3
<1>8. Window = Window' \cup {<<P, J>>}
  <2>1. PICK B : B = Window' \cup {<<P, J>>}
    OBVIOUS
  <2>2. Window \in SUBSET Pairs /\ B \in SUBSET Pairs
    BY <2>1, WindowFinite, WindowFiniteNext DEF Pairs
  <2>3. \A n, k \in Nat : <<n, k>> \in Window <=> <<n, k>> \in B
    BY <1>7, <2>1
  <2>4. Window = B
    BY ONLY <2>2, <2>3, SamePairs
  <2>. QED
    BY <2>1, <2>4
<1>9. ASSUME NEW s \in Window' PROVE Before(s, <<P, J>>)
  BY <1>5 DEF Window, tail
<1>10. <<P, J>> \in Pairs /\ <<P, J>> \notin Window'
  BY <1>9 DEF Pairs, Before
<1>. QED
  BY <1>4, <1>6, <1>8, <1>9, <1>10

-----------------------------------------------------------------------------
\* What the window holds.
Values == [s \in Window |-> At(s)]

\* What a caller sees is the list of the values from head to tail.
LEMMA ContentsListed == Contents = Listed(Window, Values)
<1>1. Cardinality(Window) \in Nat
  BY WindowFinite, FS_CardinalityType
<1>2. ASSUME NEW i \in 1..Cardinality(Window)
      PROVE  At(CHOOSE s \in Window : Rank(s, Window) = i - 1) = Values[Nth(Window, i - 1)]
  <2>1. i - 1 \in 0..(Cardinality(Window) - 1)
    BY <1>1
  <2>2. Nth(Window, i - 1) \in Window
    BY <2>1, NthIs, WindowFinite
  <2>. QED
    BY <2>2 DEF Values, Nth
<1>. QED
  BY <1>2 DEF Contents, InOrder, Listed

\* The same after a step.
LEMMA ContentsListedNext == (Contents = Listed(Window, Values))'
BY ContentsListed, PTL

\* The values from head to tail are locks or holes.
LEMMA ValuesType == Shape /\ Ends => Values \in [Window -> Entries]
<1>. SUFFICES ASSUME Shape, Ends, NEW s \in Window PROVE At(s) \in Entries
  BY DEF Values
<1>1. PICK n \in Nat, k \in Nat : s = <<n, k>>
  BY WindowFinite DEF Pairs
<1>2. n \in Nodes /\ k < Len(queues[n])
  BY <1>1, WindowIs
<1>3. queues[n] \in Seq(Entries) /\ k + 1 \in 1..Len(queues[n])
  BY <1>2 DEF Shape
<1>. QED
  BY <1>1, <1>3 DEF At

\* The same after a step.
LEMMA ValuesTypeNext == (Shape /\ Ends => Values \in [Window -> Entries])'
BY ValuesType, PTL

\* The contents grow at the end.
LEMMA GrownContents ==
  ASSUME QueueInv, QueueInv', NEW n \in Nat, NEW k \in Nat,
         Window' = Window \cup {<<n, k>>}, \A s \in Window : Before(s, <<n, k>>),
         \A s \in Window : At(s)' = At(s)
  PROVE  Contents' = Append(Contents, At(<<n, k>>)')
<1>. DEFINE t == <<n, k>>
<1>1. Window \in SUBSET Pairs /\ IsFiniteSet(Window) /\ t \in Pairs
  BY WindowFinite DEF Pairs
<1>2. \A s \in Window' : Values'[s] \in Entries
  BY InvParts, InvPartsNext, ValuesType, ValuesTypeNext
<1>3. Values'[t] = At(t)' /\ \A s \in Window : Values'[s] = Values[s]
  BY DEF Values, At
<1>4. Contents = Listed(Window, Values) /\ Contents' = Listed(Window', Values')
  BY ContentsListed, ContentsListedNext
<1>5. \A s \in Window : Before(s, t)
  OBVIOUS
<1>6. AddedLast(Window, t, Window', Entries, Values, Values')
  BY <1>1, <1>2, <1>3, <1>5 DEF AddedLast
<1>7. Listed(Window', Values') = Append(Listed(Window, Values), Values'[t])
  BY ONLY <1>6, ListedAppend
<1>. QED
  BY <1>3, <1>4, <1>7

\* Push appends.
LEMMA PushContents ==
  ASSUME QueueInv, NEW l \in Locks, Push(l) PROVE Contents' = Append(Contents, l)
<1>1. QueueInv' /\ Frame /\ Frame'
  BY PushInv, ShortFrame, ShortFrameNext
<1>2. PICK t \in Pairs :
        /\ t = tail /\ t \notin Window /\ Window' = Window \cup {t} /\ At(t)' = l
        /\ \A s \in Window : Before(s, t) /\ At(s)' = At(s)
  BY <1>1, PushSlots
<1>3. PICK n \in Nat, k \in Nat : t = <<n, k>>
  BY DEF Pairs
<1>. QED
  BY <1>1, <1>2, <1>3, GrownContents

-----------------------------------------------------------------------------
\* Taking the last element away again.
LEMMA UndoAppend ==
  ASSUME NEW X, NEW s \in Seq(X), NEW e \in X, NEW u, u = Append(s, e)
  PROVE  u # <<>> /\ u[Len(u)] = e /\ SubSeq(u, 1, Len(u) - 1) = s
<1>1. u \in Seq(X) /\ Len(u) = Len(s) + 1 /\ u[Len(s) + 1] = e /\ \A i \in 1..Len(s) : u[i] = s[i]
  OBVIOUS
<1>2. Len(s) \in Nat /\ Len(u) - 1 = Len(s)
  BY <1>1
<1>3. SubSeq(u, 1, Len(s)) = s
  BY <1>1, <1>2
<1>. QED
  BY <1>1, <1>2, <1>3

\* Nothing lies between ends that have met.
LEMMA EmptyContents ==
  Shape /\ Ends /\ head_node_index = tail_node_index /\ head_queue_index = tail_queue_index
    => Contents = <<>>
<1>. SUFFICES ASSUME Shape, Ends, head_node_index = tail_node_index,
                     head_queue_index = tail_queue_index
              PROVE  Contents = <<>>
  OBVIOUS
<1>1. ASSUME NEW s \in Window PROVE FALSE
  <2>1. PICK n \in Nat, k \in Nat : s = <<n, k>>
    BY WindowFinite DEF Pairs
  <2>2. Between(n, k)
    BY <2>1, WindowIs
  <2>. QED
    BY <2>2 DEF Between, Ends
<1>2. Window = {}
  BY <1>1
<1>3. Cardinality(Window) = 0
  BY <1>2, FS_EmptySet
<1>. QED
  BY <1>3 DEF Contents, InOrder

\* A queue whose ends meet after a step is empty for its callers.
LEMMA EmptyContentsNext ==
  (Shape /\ Ends /\ head_node_index = tail_node_index /\ head_queue_index = tail_queue_index
    => Contents = <<>>)'
BY EmptyContents, PTL

\* The test of Pop, PopRight and Head.
LEMMA EmptyIs ==
  ASSUME QueueInv
  PROVE  /\ Empty => head_node_index = tail_node_index /\ head_queue_index = tail_queue_index
         /\ Empty => Contents = <<>>
<1>1. Shape /\ Ends
  BY InvParts
<1>2. Empty => head_node_index = tail_node_index /\ head_queue_index = tail_queue_index
  BY <1>1 DEF Empty, Ends
<1>. QED
  BY <1>1, <1>2, EmptyContents

\* Pop hands out the first lock.
LEMMA PopContents ==
  ASSUME QueueInv, Pop, ~Empty
  PROVE  Contents # <<>> /\ result' = Head(Contents) /\ Contents' = Tail(Contents)
<1>1. QueueInv' /\ Frame /\ Frame' /\ Shape /\ Ends
  BY PopInv, ShortFrame, ShortFrameNext, InvParts
<1>2. PICK h \in Pairs :
        /\ h = head /\ h \in Window /\ Window = Window' \cup {h} /\ h \notin Window'
        /\ \A s \in Window' : Before(h, s)
        /\ \A s \in Slots : s # h => At(s)' = At(s)
  BY <1>1, PopSlots
<1>3. AddedFirst(Window', h, Window, Entries, Values', Values)
  <2>1. Window' \in SUBSET Pairs /\ IsFiniteSet(Window')
    BY WindowFiniteNext
  <2>2. \A s \in Window : Values[s] \in Entries
    BY <1>1, ValuesType
  <2>3. \A s \in Window' : Values[s] = Values'[s]
    BY <1>2, WindowSlots DEF Values
  <2>. QED
    BY <1>2, <2>1, <2>2, <2>3 DEF AddedFirst
<1>4. /\ Listed(Window, Values) # <<>>
      /\ Head(Listed(Window, Values)) = Values[h]
      /\ Listed(Window', Values') = Tail(Listed(Window, Values))
  BY ONLY <1>3, ListedTail
<1>5. Values[h] = At(head) /\ result' = At(head)
  BY <1>2 DEF Values, Pop, HeadIs
<1>. QED
  BY <1>4, <1>5, ContentsListed, ContentsListedNext

\* PopRight hands out the last one.
LEMMA PopRightContents ==
  ASSUME QueueInv, PopRight, ~Empty
  PROVE  /\ Contents # <<>> /\ result' = Contents[Len(Contents)]
         /\ Contents' = SubSeq(Contents, 1, Len(Contents) - 1)
<1>1. Shape /\ Ends
  BY InvParts
<1>2. PICK u \in Pairs :
        /\ u = Preceding(tail) /\ u \in Window /\ Window = Window' \cup {u} /\ u \notin Window'
        /\ \A s \in Window' : Before(s, u)
        /\ \A s \in Slots : s # u => At(s)' = At(s)
  BY PopRightSlots
<1>3. AddedLast(Window', u, Window, Entries, Values', Values)
  <2>1. Window' \in SUBSET Pairs /\ IsFiniteSet(Window')
    BY WindowFiniteNext
  <2>2. \A s \in Window : Values[s] \in Entries
    BY <1>1, ValuesType
  <2>3. \A s \in Window' : Values[s] = Values'[s]
    BY <1>2, WindowSlots DEF Values
  <2>. QED
    BY <1>2, <2>1, <2>2, <2>3 DEF AddedLast
<1>4. /\ Contents' \in Seq(Entries) /\ Values[u] \in Entries
      /\ Contents = Append(Contents', Values[u])
  <2>1. /\ Listed(Window', Values') \in Seq(Entries) /\ Values[u] \in Entries
        /\ Listed(Window, Values) = Append(Listed(Window', Values'), Values[u])
    BY ONLY <1>3, ListedAppend
  <2>. QED
    BY <2>1, ContentsListed, ContentsListedNext
<1>5. /\ Contents # <<>> /\ Contents[Len(Contents)] = Values[u]
      /\ SubSeq(Contents, 1, Len(Contents) - 1) = Contents'
  BY ONLY <1>4, UndoAppend
<1>6. Values[u] = At(u) /\ result' = At(u)
  BY <1>2 DEF Values, PopRight
<1>. QED
  BY <1>5, <1>6

\* Head looks at the first lock.
LEMMA PeekContents ==
  ASSUME QueueInv, ~Empty PROVE Contents # <<>> /\ HeadIs = Head(Contents)
<1>. USE QueueConstants
<1>1. Shape /\ Ends
  BY InvParts
<1>2. PICK H \in Nat, K \in Nat : H = head_node_index /\ K = head_queue_index
  BY <1>1 DEF Ends
<1>3. H < tail_node_index \/ (H = tail_node_index /\ K < tail_queue_index)
  BY <1>1, <1>2 DEF Empty, Ends
<1>4. <<H, K>> \in Window
  <2>1. node_index \in Nat /\ node_index <= MaxNodes - 1
    BY <1>1 DEF Shape, Nodes
  <2>2. H \in Nodes /\ K < Len(queues[H])
    BY <1>1, <1>2, <2>1 DEF Ends, Nodes
  <2>3. Between(H, K)
    BY <1>2, <1>3 DEF Between
  <2>. QED
    BY <1>1, <2>2, <2>3, WindowIs
<1>5. PICK S : S = Window \ {<<H, K>>}
  OBVIOUS
<1>6. ASSUME NEW s \in S PROVE Before(<<H, K>>, s)
  <2>1. s \in Pairs /\ s # <<H, K>>
    BY <1>5, WindowFinite
  <2>2. ~Before(s, <<H, K>>)
    BY <1>2, <1>5 DEF Window, head
  <2>. QED
    BY <2>1, <2>2, BeforeOrder DEF Pairs
<1>7. S \in SUBSET Pairs /\ IsFiniteSet(S) /\ Window = S \cup {<<H, K>>} /\ <<H, K>> \in Pairs
  BY <1>4, <1>5, WindowFinite, FS_Subset DEF Pairs
<1>8. \A s \in Window : Values[s] \in Entries
  BY <1>1, ValuesType
<1>9. AddedFirst(S, <<H, K>>, Window, Entries, Values, Values)
  BY <1>6, <1>7, <1>8 DEF AddedFirst
<1>10. Listed(Window, Values) # <<>> /\ Head(Listed(Window, Values)) = Values[<<H, K>>]
  BY ONLY <1>9, ListedTail
<1>11. Values[<<H, K>>] = HeadIs
  BY <1>2, <1>4 DEF Values, HeadIs, head
<1>. QED
  BY <1>10, <1>11, ContentsListed

-----------------------------------------------------------------------------
\* Resize moves the window down, node by node.
LEMMA ResizeMoves ==
  ASSUME QueueInv, Resize
  PROVE  \E M, H, T \in Nat :
           /\ H = head_node_index /\ T = tail_node_index
           /\ base_node_size < H /\ M = H - base_node_size
           /\ \A n \in Nat : base_node_size <= n /\ n + M <= T =>
                n \in Nodes /\ n + M \in Nodes /\ queues'[n] = queues[n + M]
           /\ \A n \in Nodes : n < base_node_size => queues'[n] = queues[n]
           /\ \A n \in Nodes : base_node_size <= n /\ n + M > T =>
                queues'[n] = <<>> \/ (n > T /\ queues'[n] = queues[n])
           /\ \A n, k \in Nat : <<n, k>> \in Window' <=> <<n + M, k>> \in Window
           /\ \A n, k \in Nat : <<n, k>> \in Window =>
                n - M \in Nat /\ base_node_size <= n - M /\ n <= T
<1>. USE QueueConstants
<1>1. QueueInv' /\ Shape /\ Ends /\ Shape' /\ Ends'
  BY ResizeInv, InvParts, InvPartsNext
<1>2. PICK H \in Nat, T \in Nat, B \in Nat :
        H = head_node_index /\ T = tail_node_index /\ B = base_node_size
  BY <1>1 DEF Ends
<1>3. /\ node_index \in Nat /\ node_index <= MaxNodes - 1
      /\ B < H /\ H <= T /\ T <= node_index /\ B > 0
  BY <1>1, <1>2 DEF Shape, Ends, Resize, Nodes
<1>4. PICK M \in Nat : M = H - B /\ M = MoveIndex
  BY <1>2, <1>3 DEF MoveIndex
<1>5. /\ head_node_index' = H - M /\ tail_node_index' = T - M
      /\ UNCHANGED <<head_queue_index, tail_queue_index>>
      /\ head_queue_index \in Nat /\ tail_queue_index \in Nat
  BY <1>1, <1>2, <1>3, <1>4 DEF Resize, Ends
<1>6. ASSUME NEW n \in Nat, B <= n, n + M <= T
      PROVE  /\ n \in Nodes /\ n + M \in Nodes /\ n + M \in Nat
             /\ queues'[n] = queues[n + M]
  <2>1. n \in Nodes /\ n + M \in Nodes
    BY <1>3, <1>4, <1>6 DEF Nodes
  <2>2. queues'[n] = IF n < B THEN queues[n]
                     ELSE IF n + M <= T THEN queues[n + M]
                     ELSE IF n <= T THEN <<>> ELSE queues[n]
    BY <1>2, <1>4, <2>1 DEF Resize
  <2>. QED
    BY <1>6, <2>1, <2>2
<1>7. ASSUME NEW n \in Nat, NEW k \in Nat
      PROVE  <<n, k>> \in Window' <=> <<n + M, k>> \in Window
  <2>1. <<n + M, k>> \in Window <=> n + M \in Nodes /\ k < Len(queues[n + M]) /\ Between(n + M, k)
    BY <1>1, WindowIs
  <2>2. <<n, k>> \in Window' <=> n \in Nodes /\ k < Len(queues'[n]) /\ Between(n, k)'
    BY <1>1, WindowIsNext
  <2>3. Between(n, k)' <=> Between(n + M, k)
    BY <1>2, <1>3, <1>4, <1>5 DEF Between
  <2>4. Between(n + M, k) => B <= n /\ n + M <= T
    BY <1>2, <1>4 DEF Between
  <2>. QED
    BY <1>6, <2>1, <2>2, <2>3, <2>4
<1>8. ASSUME NEW n \in Nat, NEW k \in Nat, <<n, k>> \in Window
      PROVE  n - M \in Nat /\ B <= n - M /\ n <= T
  <2>1. Between(n, k)
    BY <1>1, <1>8, WindowIs
  <2>. QED
    BY <1>2, <1>3, <1>4, <2>1 DEF Between
<1>9. ASSUME NEW n \in Nodes, n < B PROVE queues'[n] = queues[n]
  BY <1>2, <1>9 DEF Resize
<1>10. ASSUME NEW n \in Nodes, B <= n, n + M > T
       PROVE  queues'[n] = <<>> \/ (n > T /\ queues'[n] = queues[n])
  <2>1. n \in Nat /\ ~(n < B) /\ ~(n + M <= T) /\ (n <= T \/ n > T)
    BY <1>2, <1>4, <1>10 DEF Nodes
  <2>2. queues'[n] = IF n < B THEN queues[n]
                     ELSE IF n + M <= T THEN queues[n + M]
                     ELSE IF n <= T THEN <<>> ELSE queues[n]
    BY <1>2, <1>4 DEF Resize
  <2>. QED
    BY <2>1, <2>2
<1>. QED
  BY <1>2, <1>3, <1>4, <1>6, <1>7, <1>8, <1>9, <1>10

\* Resize moves the nodes and changes nothing a caller sees.
LEMMA ResizeContents ==
  ASSUME QueueInv, Resize PROVE Contents' = Contents
<1>1. PICK M, H, T \in Nat :
        /\ \A n \in Nat : base_node_size <= n /\ n + M <= T =>
             n \in Nodes /\ n + M \in Nodes /\ queues'[n] = queues[n + M]
        /\ \A n, k \in Nat : <<n, k>> \in Window' <=> <<n + M, k>> \in Window
        /\ \A n, k \in Nat : <<n, k>> \in Window =>
             n - M \in Nat /\ base_node_size <= n - M /\ n <= T
  BY ResizeMoves
<1>9. PICK f : f = [s \in Window |-> <<s[1] - M, s[2]>>]
  OBVIOUS
<1>10. ASSUME NEW s \in Window
       PROVE  /\ s[1] \in Nat /\ s[2] \in Nat /\ s[1] - M \in Nat /\ s = <<s[1], s[2]>>
              /\ f[s] = <<s[1] - M, s[2]>> /\ f[s] \in Window'
              /\ Values'[f[s]] = Values[s]
  <2>1. PICK n \in Nat, k \in Nat : s = <<n, k>>
    BY WindowFinite DEF Pairs
  <2>2. n - M \in Nat /\ f[s] = <<n - M, k>>
    BY <1>1, <1>9, <2>1
  <2>3. PICK m \in Nat : m = n - M
    BY <2>2
  <2>4. m + M = n
    BY <2>3
  <2>5. <<m, k>> \in Window'
    BY <1>1, <2>1, <2>4
  <2>6. base_node_size <= m /\ m + M <= T
    BY <1>1, <2>1, <2>3, <2>4
  <2>7. queues'[m] = queues[n]
    BY <1>1, <2>4, <2>6
  <2>8. At(<<m, k>>)' = At(<<n, k>>)
    BY <2>7 DEF At
  <2>9. Values'[<<m, k>>] = At(<<m, k>>)' /\ Values[s] = At(s)
    BY <2>5 DEF Values
  <2>. QED
    BY <2>1, <2>2, <2>3, <2>5, <2>8, <2>9
<1>11. f \in Bijection(Window, Window')
  <2>1. f \in [Window -> Window']
    BY <1>9, <1>10
  <2>2. ASSUME NEW s \in Window, NEW t \in Window, f[s] = f[t] PROVE s = t
    <3>1. s[1] - M = t[1] - M /\ s[2] = t[2]
      BY <1>10, <2>2
    <3>2. s[1] = t[1]
      BY <1>10, <3>1
    <3>. QED
      BY <1>10, <3>1, <3>2
  <2>3. ASSUME NEW u \in Window' PROVE \E s \in Window : f[s] = u
    <3>1. PICK n \in Nat, k \in Nat : u = <<n, k>>
      BY WindowFiniteNext DEF Pairs
    <3>2. <<n + M, k>> \in Window
      BY <1>1, <3>1
    <3>3. f[<<n + M, k>>] = <<(n + M) - M, k>>
      BY <1>9, <3>2
    <3>. QED
      BY <3>1, <3>2, <3>3
  <2>. QED
    BY <2>1, <2>2, <2>3 DEF Bijection, Injection, Surjection, IsInjective
<1>12. \A s, t \in Window : Before(s, t) <=> Before(f[s], f[t])
  <2>. SUFFICES ASSUME NEW s \in Window, NEW t \in Window PROVE Before(s, t) <=> Before(f[s], f[t])
    OBVIOUS
  <2>1. f[s][1] = s[1] - M /\ f[s][2] = s[2] /\ f[t][1] = t[1] - M /\ f[t][2] = t[2]
    BY <1>10
  <2>2. s[1] \in Nat /\ t[1] \in Nat /\ s[2] \in Nat /\ t[2] \in Nat
    BY <1>10
  <2>. QED
    BY <2>1, <2>2 DEF Before
<1>13. Moved(Window, Window', f, Values, Values')
  <2>1. Window \in SUBSET Pairs /\ IsFiniteSet(Window) /\ Window' \in SUBSET Pairs
    BY WindowFinite, WindowFiniteNext
  <2>2. \A s \in Window : Values'[f[s]] = Values[s]
    BY <1>10
  <2>. QED
    BY <1>11, <1>12, <2>1, <2>2 DEF Moved
<1>14. Listed(Window', Values') = Listed(Window, Values)
  BY ONLY <1>13, ListedMoved
<1>. QED
  BY <1>14, ContentsListed, ContentsListedNext

\* A queue that starts again at its first slot is empty.
LEMMA RewoundContents ==
  ASSUME QueueInv', Rewind PROVE Contents' = <<>>
<1>1. Shape' /\ Ends'
  BY InvPartsNext
<1>2. head_node_index' = tail_node_index' /\ head_queue_index' = tail_queue_index'
  BY DEF Rewind, SetHead, SetTail
<1>. QED
  BY <1>1, <1>2, EmptyContentsNext

\* Reset does not panic.
LEMMA ResetRewinds ==
  ASSUME QueueInv, NEW qs, ResetQueue(qs) PROVE Rewind
<1>1. ~(node_index >= node_size)
  BY InvParts, QueueConstants DEF Shape, Nodes
<1>. QED
  BY <1>1 DEF ResetQueue

\* What stays in its place is seen as before.
LEMMA SameContents ==
  ASSUME UNCHANGED <<queues, head_node_index, head_queue_index, tail_node_index, tail_queue_index>>
  PROVE  Contents' = Contents
<1>1. Slots' = Slots /\ head' = head /\ tail' = tail
  BY DEF Slots, head, tail
<1>2. Window' = Window
  BY <1>1 DEF Window
<1>3. Values' = Values
  BY <1>2 DEF Values, At
<1>. QED
  BY <1>2, <1>3, ContentsListed, ContentsListedNext

-----------------------------------------------------------------------------
\* The loops of the millisecond timers count nodes from 0 (IterNodes) and take the
\* slots of node i from the node of that number (IterNodeQueues): that is the whole
\* queue because nothing was popped from it, its head is in the first node.
MilliHead == use = "milli" /\ draining = FALSE => head_node_index = 0

\* The Iter loop of the millisecond timers takes the slots from head to tail and no other.
LEMMA TakenIsWindow ==
  ASSUME QueueInv, head_node_index = 0
  PROVE  UNION {IterNodeQueues(i) : i \in 0..(tail_node_index - head_node_index)} = Window
<1>1. Shape /\ Ends
  BY InvParts
<1>2. PICK T \in Nat, K \in Nat, J \in Nat :
        T = tail_node_index /\ K = tail_queue_index /\ J = head_queue_index
  BY <1>1 DEF Ends
<1>3. PICK A : A = UNION {IterNodeQueues(i) : i \in 0..(tail_node_index - head_node_index)}
  OBVIOUS
<1>4. ASSUME NEW s PROVE s \in A <=> \E i \in 0..T : s \in IterNodeQueues(i)
  BY <1>2, <1>3
<1>5. ASSUME NEW s \in Slots PROVE s \in A <=> s \in Window
  <2>1. s[1] \in Nat /\ s[2] \in Nat
    BY QueueConstants DEF Slots, Nodes
  <2>2. s \in A <=> s[1] <= T /\ (s[1] = 0 => s[2] >= J) /\ (s[1] = T => s[2] < K)
    BY <1>2, <1>4, <2>1 DEF IterNodeQueues
  <2>3. s \in Window <=> ~(s[1] < 0 \/ (s[1] = 0 /\ s[2] < J)) /\ (s[1] < T \/ (s[1] = T /\ s[2] < K))
    BY <1>2 DEF Window, Before, head, tail
  <2>. QED
    BY <2>1, <2>2, <2>3
<1>6. A \subseteq Slots /\ Window \subseteq Slots
  BY <1>4 DEF IterNodeQueues, Window
<1>7. A = Window
  BY <1>5, <1>6
<1>. QED
  BY <1>3, <1>7

\* A millisecond queue that is not being drained has its head in the first node.
LEMMA MilliHeadStep ==
  ASSUME QueueInv, MilliHead, use # "long", [Next]_vars PROVE MilliHead'
<1>1. ASSUME Rewind PROVE head_node_index' = 0
  BY <1>1 DEF Rewind, SetHead
<1>2. ASSUME NEW l \in Locks, Push(l) PROVE MilliHead'
  BY <1>2 DEF Push, MilliHead, head
<1>3. CASE Pop
  <2>1. CASE Empty
    BY <1>3, <2>1 DEF Pop, MilliHead, head
  <2>2. CASE ~Empty
    <3>1. draining' = (use \in {"long", "milli"}) /\ use' = use
      BY <1>3, <2>2 DEF Pop
    <3>2. use = "milli" => draining' # FALSE
      BY <3>1
    <3>. QED
      BY <3>1, <3>2 DEF MilliHead
  <2>. QED
    BY <2>1, <2>2
<1>4. CASE PopRight
  BY <1>4 DEF PopRight, MilliHead
<1>5. CASE Peek
  BY <1>5 DEF Peek, MilliHead
<1>6. CASE Reset
  BY <1>1, <1>6, ResetRewinds DEF Reset, MilliHead
<1>7. CASE Rellac
  BY <1>7 DEF Rellac, MilliHead
<1>8. CASE Resize
  BY <1>8 DEF Resize, MilliHead
<1>9. CASE Iter
  <2>1. PICK qs : ResetQueue(qs)
    BY <1>9 DEF Iter
  <2>. QED
    BY <1>1, <2>1, ResetRewinds DEF MilliHead
<1>10. CASE UNCHANGED vars
  BY <1>10 DEF vars, head, MilliHead
<1>. QED
  BY <1>2, <1>3, <1>4, <1>5, <1>6, <1>7, <1>8, <1>9, <1>10
     DEF Next, RemoveLong, Restructuring

\* Every step of a short queue is one of the sequence it stands for, or none.
LEMMA DequeStep ==
  ASSUME QueueInv, MilliHead, use # "long", [Next]_vars
  PROVE  [Promise!Next]_<<Contents, result>>
<1>0. QueueInv'
  BY QueueStep
<1>1. ASSUME NEW l \in Locks, Push(l) PROVE Promise!Next
  <2>1. Contents' = Append(Contents, l) /\ UNCHANGED result
    BY <1>1, PushContents DEF Push
  <2>. QED
    BY <2>1 DEF Promise!Next, Promise!Push
<1>2. CASE Pop
  <2>1. CASE Empty
    <3>1. Contents = <<>> /\ result' = NIL
      BY <1>2, <2>1, EmptyIs DEF Pop, HeadIs
    <3>2. Contents' = Contents
      BY <1>2, <2>1, SameContents DEF Pop, head, tail
    <3>. QED
      BY <3>1, <3>2 DEF Promise!Next, Promise!NothingThere
  <2>2. CASE ~Empty
    BY <1>2, <2>2, PopContents DEF Promise!Next, Promise!Pop
  <2>. QED
    BY <2>1, <2>2
<1>3. CASE PopRight
  <2>1. CASE Empty
    <3>1. Contents = <<>> /\ result' = NIL
      BY <1>3, <2>1, EmptyIs DEF PopRight
    <3>2. Contents' = Contents
      BY <1>3, <2>1, SameContents DEF PopRight, head, tail
    <3>. QED
      BY <3>1, <3>2 DEF Promise!Next, Promise!NothingThere
  <2>2. CASE ~Empty
    BY <1>3, <2>2, PopRightContents DEF Promise!Next, Promise!PopRight
  <2>. QED
    BY <2>1, <2>2
<1>4. CASE Peek
  <2>1. Contents' = Contents /\ result' = HeadIs
    BY <1>4, SameContents DEF Peek, head, tail
  <2>2. CASE Empty
    <3>1. Contents = <<>> /\ HeadIs = NIL
      BY <2>2, EmptyIs DEF HeadIs
    <3>. QED
      BY <2>1, <3>1 DEF Promise!Next, Promise!NothingThere
  <2>3. CASE ~Empty
    BY <2>1, <2>3, PeekContents DEF Promise!Next, Promise!Peek
  <2>. QED
    BY <2>2, <2>3
<1>5. CASE Reset
  <2>1. Contents' = <<>> /\ UNCHANGED result
    BY <1>0, <1>5, ResetRewinds, RewoundContents DEF Reset
  <2>2. Contents = <<>>
    BY <1>5, EmptyIs DEF Reset
  <2>. QED
    BY <2>1, <2>2
<1>6. CASE Rellac
  <2>1. Contents' = <<>> /\ UNCHANGED result
    BY <1>0, <1>6, RewoundContents DEF Rellac
  <2>2. Contents = <<>>
    BY <1>6, EmptyIs DEF Rellac
  <2>. QED
    BY <2>1, <2>2
<1>7. CASE Resize
  <2>1. Contents' = Contents /\ UNCHANGED result
    BY <1>7, ResizeContents DEF Resize
  <2>. QED
    BY <2>1
<1>8. CASE Iter
  <2>1. PICK qs : ResetQueue(qs)
    BY <1>8 DEF Iter
  <2>2. Contents' = <<>>
    BY <1>0, <2>1, ResetRewinds, RewoundContents
  <2>3. head_node_index = 0
    BY <1>8 DEF Iter, MilliHead
  <2>4. result' = InOrder(UNION {IterNodeQueues(i) : i \in 0..(tail_node_index - head_node_index)})
    BY <1>8 DEF Iter
  <2>5. result' = InOrder(Window)
    BY <2>3, <2>4, TakenIsWindow
  <2>6. result' = Contents
    BY <2>5 DEF Contents
  <2>. QED
    BY <2>2, <2>6 DEF Promise!Next, Promise!TakeAll
<1>9. CASE UNCHANGED vars
  <2>1. Contents' = Contents /\ UNCHANGED result
    BY <1>9, SameContents DEF vars, head, tail
  <2>. QED
    BY <2>1
<1>. QED
  BY <1>1, <1>2, <1>3, <1>4, <1>5, <1>6, <1>7, <1>8, <1>9 DEF Next, RemoveLong, Restructuring

\* Holder, wait, wheel, millisecond and pool queues implement Deque: whatever
\* Push, Pop, PopRight, Rellac, Resize, Reset and Iter do to nodes and indexes,
\* a caller sees a sequence that grows and shrinks at its ends and gets what is
\* there. MilliHead is needed for the Iter loop of db.go, which takes the nodes
\* from index 0 on.
THEOREM ShortQueuesAreDeques ==
  ASSUME "long" \notin Uses PROVE Spec => ImplementsDeque
<1>1. Init => QueueInv /\ MilliHead
  BY InitInv DEF Init, MilliHead
<1>2. QueueInv => use # "long"
  BY DEF QueueInv, TypeOK
<1>3. QueueInv /\ MilliHead /\ [Next]_vars => (QueueInv /\ MilliHead)'
  BY <1>2, QueueStep, MilliHeadStep
<1>4. Init => Promise!Init
  <2>1. Init => Contents = <<>>
    BY InitInv, InvParts, EmptyContents DEF Init
  <2>. QED
    BY <2>1 DEF Init, Promise!Init
<1>5. QueueInv /\ MilliHead /\ [Next]_vars => [Promise!Next]_<<Contents, result>>
  BY <1>2, DequeStep
<1>. QED
  BY <1>1, <1>3, <1>4, <1>5, PTL DEF Spec, ImplementsDeque, Promise!Spec

-----------------------------------------------------------------------------
\* The nodes of a long queue. node_index may be too large (MC_drift.cfg), never too
\* small, and the first two nodes are not given back.
Grown ==
  /\ node_index \in Nat /\ node_size \in Nat /\ queue_size \in Nat \ {0}
  /\ \A n \in Nodes : n <= tail_node_index => queues[n] # <<>>
  /\ \A n \in Nodes : queues[n] # <<>> => n <= node_index
  /\ node_index >= 1 => 1 \in Nodes /\ queues[1] # <<>>

LongTypes ==
  /\ long_wait_index \in [Locks -> {NIL} \cup (Nodes \X Nat)] /\ free_count \in Nat
  /\ draining \in BOOLEAN /\ panicked = FALSE /\ use = "long"

LongInv == Frame /\ Grown /\ LongTypes /\ LongIndexed

\* A new node leaves the nodes in order.
LEMMA PushGrown ==
  ASSUME Frame, Grown, NEW l \in Locks, Push(l) PROVE Frame' /\ Grown'
<1>. USE QueueConstants
<1>1. PICK T \in Nat, K \in Nat : T = tail_node_index /\ K = tail_queue_index
  BY DEF Frame, Nodes
<1>2. /\ T \in Nodes /\ K < Len(queues[T]) /\ queues[T] \in Seq(Entries)
      /\ tail = <<T, K>>
  BY <1>1 DEF Frame, tail
<1>3. PICK N \in Nat : N = After(tail)[1] /\ N < MaxNodes
  BY <1>2, FrameAfter DEF Push
<1>4. /\ UNCHANGED <<head_node_index, head_queue_index>>
      /\ tail_node_index' = N
      /\ \/ N = T /\ tail_queue_index' = K + 1 /\ K + 1 < Len(queues[T])
         \/ N = T + 1 /\ tail_queue_index' = 0 /\ K + 1 = Len(queues[T])
  BY <1>2, <1>3, FrameAfter DEF Push, SetTail, head
<1>5. N \in Nodes
  BY <1>3 DEF Nodes
<1>6. Doubled \in Nat /\ Doubled > 0 /\ Doubled <= QUEUE_MAX_MALLOC_SIZE
  BY DEF Grown, Doubled, Smaller
<1>7. Node(Doubled) \in Seq(Entries) /\ Len(Node(Doubled)) = Doubled /\ Node(Doubled) # <<>>
  <2>1. Node(Doubled) \in Seq(Entries) /\ Len(Node(Doubled)) = Doubled
    BY <1>6, NodeFacts
  <2>. QED
    BY <1>6, <2>1
<1>8. [queues[T] EXCEPT ![K + 1] = l] \in Seq(Entries) /\ Len([queues[T] EXCEPT ![K + 1] = l]) = Len(queues[T])
  BY <1>2 DEF Entries
<1>9. queues' = [n \in Nodes |-> IF n = T THEN [queues[n] EXCEPT ![K + 1] = l]
                                 ELSE IF n = N /\ NeedsNode(n) THEN Node(Doubled) ELSE queues[n]]
  BY <1>1, <1>3 DEF Push
<1>10. /\ queue_size' = IF NeedsNode(N) THEN Doubled ELSE queue_size
       /\ node_index' = IF NeedsNode(N) THEN node_index + 1 ELSE node_index
       /\ node_size' = IF N >= node_size THEN node_size + 1 ELSE node_size
  BY <1>3 DEF Push
<1>11. ASSUME NEW n \in Nodes
       PROVE  /\ queues'[n] \in Seq(Entries)
              /\ Len(queues'[n]) <= base_queue_size + QUEUE_MAX_MALLOC_SIZE
              /\ n # N => Len(queues'[n]) = Len(queues[n])
              /\ n = N /\ NeedsNode(N) => queues'[n] = Node(Doubled)
              /\ ~NeedsNode(N) => Len(queues'[n]) = Len(queues[n])
  <2>0. ~NeedsNode(T)
    BY <1>1 DEF NeedsNode
  <2>1. CASE n = T
    BY <1>2, <1>8, <1>9, <2>0, <2>1 DEF Frame
  <2>2. CASE n # T /\ n = N /\ NeedsNode(N)
    BY <1>6, <1>7, <1>9, <2>2
  <2>3. CASE n # T /\ ~(n = N /\ NeedsNode(N))
    <3>1. queues'[n] = queues[n]
      BY <1>9, <2>3
    <3>. QED
      BY <2>3, <3>1 DEF Frame
  <2>. QED
    BY <2>1, <2>2, <2>3
<1>12. queues' \in [Nodes -> Seq(Entries)]
  BY <1>9, <1>11
<1>13. ASSUME NEW n \in Nodes, n # N \/ ~NeedsNode(N) PROVE queues'[n] # <<>> <=> queues[n] # <<>>
  <2>1. Len(queues'[n]) = Len(queues[n]) /\ queues'[n] \in Seq(Entries) /\ queues[n] \in Seq(Entries)
    BY <1>11, <1>13 DEF Frame
  <2>. QED
    BY <2>1
<1>14. queues'[N] # <<>>
  <2>1. CASE NeedsNode(N)
    BY <1>5, <1>7, <1>11, <2>1
  <2>2. CASE ~NeedsNode(N)
    <3>1. queues[N] # <<>>
      BY <1>1, <1>2, <2>2 DEF NeedsNode, Grown
    <3>. QED
      BY <1>5, <1>13, <2>2, <3>1
  <2>. QED
    BY <2>1, <2>2
<1>15. tail_queue_index' \in Nat /\ tail_queue_index' < Len(queues'[N])
  <2>1. CASE N = T
    <3>1. Len(queues'[T]) = Len(queues[T])
      BY <1>2, <1>8, <1>9
    <3>. QED
      BY <1>4, <2>1, <3>1
  <2>2. CASE N = T + 1
    <3>1. queues'[N] \in Seq(Entries)
      BY <1>5, <1>12
    <3>2. Len(queues'[N]) > 0
      BY <1>14, <3>1
    <3>. QED
      BY <1>4, <2>2, <3>2
  <2>. QED
    BY <1>4, <2>1, <2>2
<1>16. Frame'
  <2>1. /\ head_node_index \in Nat /\ head_queue_index \in Nat /\ head_node_index \in Nodes
        /\ head_node_index < T \/ (head_node_index = T /\ head_queue_index <= K)
    BY <1>1 DEF Frame, Nodes
  <2>2. \/ head_node_index' < tail_node_index'
        \/ head_node_index' = tail_node_index' /\ head_queue_index' <= tail_queue_index'
    BY <1>4, <2>1
  <2>3. head_queue_index < Len(queues'[head_node_index])
    <3>1. head_node_index # N \/ N = T
      BY <1>4, <2>1
    <3>2. Len(queues'[T]) = Len(queues[T])
      BY <1>2, <1>8, <1>9
    <3>3. Len(queues'[head_node_index]) = Len(queues[head_node_index])
      BY <1>11, <2>1, <3>1, <3>2
    <3>. QED
      BY <3>3 DEF Frame
  <2>. QED
    BY <1>4, <1>5, <1>11, <1>12, <1>15, <2>1, <2>2, <2>3 DEF Frame
<1>17. NeedsNode(N) => N = T + 1 /\ N <= node_index + 1
  <2>1. T <= node_index
    BY <1>1, <1>2 DEF Grown
  <2>. QED
    BY <1>1, <1>4, <2>1 DEF NeedsNode, Grown
<1>18. Grown'
  <2>1. node_index' \in Nat /\ node_size' \in Nat /\ queue_size' \in Nat \ {0}
    BY <1>6, <1>10 DEF Grown
  <2>2. ASSUME NEW n \in Nodes, n <= N PROVE queues'[n] # <<>>
    <3>1. n \in Nat
      BY DEF Nodes
    <3>2. n # N => n <= T
      BY <1>4, <2>2, <3>1
    <3>. QED
      BY <1>1, <1>13, <1>14, <3>2 DEF Grown
  <2>3. ASSUME NEW n \in Nodes, queues'[n] # <<>> PROVE n <= node_index'
    <3>1. n \in Nat /\ node_index \in Nat
      BY DEF Nodes, Grown
    <3>2. CASE n = N /\ NeedsNode(N)
      BY <1>10, <1>17, <3>1, <3>2
    <3>3. CASE n # N \/ ~NeedsNode(N)
      <4>1. n <= node_index
        BY <1>13, <2>3, <3>3 DEF Grown
      <4>. QED
        BY <1>10, <3>1, <4>1
    <3>. QED
      BY <3>2, <3>3
  <2>4. ASSUME node_index' >= 1 PROVE 1 \in Nodes /\ queues'[1] # <<>>
    <3>1. CASE node_index >= 1
      BY <1>13, <1>14, <3>1 DEF Grown
    <3>2. CASE node_index = 0
      <4>1. NeedsNode(N)
        BY <1>10, <2>4, <3>2
      <4>2. N = 1
        BY <1>17, <3>2, <4>1
      <4>. QED
        BY <1>5, <1>14, <4>2
    <3>. QED
      BY <3>1, <3>2 DEF Grown
  <2>. QED
    BY <1>4, <2>1, <2>2, <2>3, <2>4 DEF Grown
<1>. QED
  BY <1>16, <1>18

\* Nodes that keep their lengths.
LEMMA SameGrown ==
  ASSUME Frame, Grown, queues' \in [Nodes -> Seq(Entries)],
         \A n \in Nodes : Len(queues'[n]) = Len(queues[n]),
         UNCHANGED <<node_index, node_size, queue_size, tail_node_index>>
  PROVE  Grown'
<1>1. \A n \in Nodes : queues'[n] # <<>> <=> queues[n] # <<>>
  BY DEF Frame
<1>. QED
  BY <1>1 DEF Grown

\* Pop keeps what a long queue relies on.
LEMMA PopGrown ==
  ASSUME Frame, Grown, Pop PROVE Frame' /\ Grown'
<1>. USE QueueConstants
<1>1. UNCHANGED <<tail_node_index, tail_queue_index, node_index, node_size, queue_size>>
  BY DEF Pop, tail
<1>2. CASE Empty
  <2>1. UNCHANGED <<queues, head_node_index, head_queue_index>>
    BY <1>2 DEF Pop, head
  <2>. QED
    BY <1>1, <2>1 DEF Frame, Grown
<1>3. CASE ~Empty
  <2>1. PICK H \in Nat, K \in Nat : H = head_node_index /\ K = head_queue_index
    BY DEF Frame, Nodes
  <2>2. H \in Nodes /\ K < Len(queues[H]) /\ queues[H] \in Seq(Entries) /\ head = <<H, K>>
    BY <2>1 DEF Frame, head
  <2>3. \/ head_node_index' = H /\ head_queue_index' = K + 1 /\ K + 1 < Len(queues[H])
        \/ head_node_index' = H + 1 /\ head_queue_index' = 0 /\ K + 1 = Len(queues[H])
    BY <1>3, <2>2, FrameAfter DEF Pop, SetHead
  <2>4. <<H, K>> \in Slots /\ queues' = Vacated(<<H, K>>)
    BY <1>3, <2>2, FrameSlots DEF Pop
  <2>5. queues' \in [Nodes -> Seq(Entries)] /\ \A n \in Nodes : Len(queues'[n]) = Len(queues[n])
    BY <2>4, VacatedSlots
  <2>6. /\ tail_node_index \in Nat /\ tail_queue_index \in Nat /\ tail_node_index \in Nodes
        /\ H < tail_node_index \/ (H = tail_node_index /\ K < tail_queue_index)
        /\ tail_queue_index < Len(queues[tail_node_index])
    BY <1>3, <2>1 DEF Empty, Frame, Nodes
  <2>7. CASE head_node_index' = H /\ head_queue_index' = K + 1 /\ K + 1 < Len(queues[H])
    BY <1>1, <2>2, <2>5, <2>6, <2>7, SameGrown, SMTT(30) DEF Frame
  <2>8. CASE head_node_index' = H + 1 /\ head_queue_index' = 0 /\ K + 1 = Len(queues[H])
    <3>1. H < tail_node_index
      BY <2>2, <2>6, <2>8
    <3>2. H + 1 \in Nodes /\ H + 1 <= tail_node_index
      BY <2>2, <2>6, <3>1 DEF Nodes
    <3>3. queues[H + 1] # <<>> /\ queues[H + 1] \in Seq(Entries)
      BY <3>2 DEF Grown, Frame
    <3>4. Len(queues'[H + 1]) > 0
      BY <2>5, <3>2, <3>3
    <3>5. \/ H + 1 < tail_node_index
          \/ H + 1 = tail_node_index /\ 0 <= tail_queue_index
      BY <2>6, <3>2
    <3>. QED
      BY <1>1, <2>5, <2>6, <2>8, <3>2, <3>4, <3>5, SameGrown DEF Frame
  <2>. QED
    BY <2>3, <2>7, <2>8
<1>. QED
  BY <1>2, <1>3

\* Giving nodes back from the third one on.
LEMMA ResetGrown ==
  ASSUME Frame, Grown, base_node_size <= 2, NEW qs \in [Nodes -> Seq(Entries)],
         \A n \in Nodes : Len(qs[n]) <= base_queue_size + QUEUE_MAX_MALLOC_SIZE,
         \A n \in Nodes : qs[n] # <<>> => queues[n] # <<>>,
         qs[0] # <<>>, node_index >= 1 => qs[1] # <<>>,
         Truncate(qs, base_node_size), Rewind, UNCHANGED node_size
  PROVE  Frame' /\ Grown'
<1>. USE QueueConstants
<1>1. PICK last \in Nat :
        /\ last = IF node_index >= base_node_size THEN base_node_size - 1 ELSE node_index
        /\ last <= 1 /\ last <= node_index
  BY DEF Grown
<1>2. /\ queues' = [n \in Nodes |-> IF n > last /\ n <= node_index THEN <<>> ELSE qs[n]]
      /\ node_index' = last /\ queue_size' = Len(qs[last])
  BY <1>1 DEF Truncate
<1>3. 0 \in Nodes /\ last \in Nodes /\ (last = 1 => node_index >= 1 /\ 1 \in Nodes)
  BY <1>1 DEF Nodes, Grown
<1>4. qs[last] # <<>> /\ qs[last] \in Seq(Entries)
  BY <1>1, <1>3
<1>5. queue_size' \in Nat \ {0}
  <2>1. Len(qs[last]) \in Nat /\ Len(qs[last]) # 0
    BY <1>4
  <2>. QED
    BY <1>2, <2>1
<1>6. queues' \in [Nodes -> Seq(Entries)]
  BY <1>2
<1>7. \A n \in Nodes : Len(queues'[n]) <= base_queue_size + QUEUE_MAX_MALLOC_SIZE
  <2>1. ASSUME NEW n \in Nodes PROVE Len(queues'[n]) = 0 \/ queues'[n] = qs[n]
    BY <1>2
  <2>. QED
    BY <2>1
<1>8. \A n \in Nodes : n <= last => queues'[n] = qs[n]
  BY <1>1, <1>2 DEF Nodes
<1>9. queues'[0] # <<>> /\ queues'[0] \in Seq(Entries)
  BY <1>1, <1>3, <1>6, <1>8
<1>10. Len(queues'[0]) > 0
  BY <1>9
<1>11. /\ head_node_index' = 0 /\ head_queue_index' = 0 /\ tail_node_index' = 0
       /\ tail_queue_index' = 0
  BY DEF Rewind, SetHead, SetTail
<1>12. Frame'
  BY <1>3, <1>6, <1>7, <1>10, <1>11 DEF Frame
<1>13. \A n \in Nodes : queues'[n] # <<>> => n <= last
  <2>. SUFFICES ASSUME NEW n \in Nodes, queues'[n] # <<>> PROVE n <= last
    OBVIOUS
  <2>1. ~(n > last /\ n <= node_index) /\ qs[n] # <<>>
    BY <1>2
  <2>2. n <= node_index
    BY <2>1 DEF Grown
  <2>. QED
    BY <1>1, <2>1, <2>2 DEF Nodes
<1>14. last >= 1 => 1 \in Nodes /\ queues'[1] # <<>>
  BY <1>1, <1>3, <1>4, <1>8
<1>15. \A n \in Nodes : n <= 0 => queues'[n] # <<>>
  BY <1>9 DEF Nodes
<1>. QED
  BY <1>2, <1>5, <1>11, <1>12, <1>13, <1>14, <1>15 DEF Grown

-----------------------------------------------------------------------------
\* A slot that is written or read holds a lock or nothing.
LEMMA EntryAt == Frame => \A s \in Slots : At(s) \in Entries
<1>. SUFFICES ASSUME Frame, NEW s \in Slots PROVE At(s) \in Entries
  OBVIOUS
<1>1. PICK n \in Nat, k \in Nat : s = <<n, k>>
  BY SlotsFinite DEF Pairs
<1>2. n \in Nodes /\ k < Len(queues[n])
  BY <1>1, FrameSlots
<1>3. queues[n] \in Seq(Entries) /\ k + 1 \in 1..Len(queues[n])
  BY <1>2 DEF Frame
<1>. QED
  BY <1>1, <1>3 DEF At

\* A lock is pushed once, and its index is the slot it went to.
LEMMA PushIndexed ==
  ASSUME LongInv, Frame', NEW l \in Locks, Push(l) PROVE LongIndexed'
<1>. USE QueueConstants
<1>1. PICK t \in Pairs :
        /\ t = tail /\ t \notin Window /\ Window' = Window \cup {t} /\ At(t)' = l
        /\ \A s \in Window : Before(s, t) /\ At(s)' = At(s)
        /\ \A s \in Slots' : s # t => At(s)' = NIL \/ (s \in Slots /\ At(s)' = At(s))
  BY PushSlots DEF LongInv
<1>2. l # NIL /\ use' = use /\ use = "long" /\ draining' = draining /\ free_count' = free_count
  BY DEF Push, LongInv, LongTypes
<1>3. /\ long_wait_index \in [Locks -> {NIL} \cup (Nodes \X Nat)]
      /\ long_wait_index' = [long_wait_index EXCEPT ![l] = t]
  BY <1>1 DEF Push, LongInv, LongTypes
<1>4. Live' = Live \cup {t}
  BY <1>1, <1>2 DEF Live
<1>5. Window' \ Live' = Window \ Live
  BY <1>1, <1>4
<1>6. SlotsClean'
  <2>1. ASSUME NEW s \in Slots', s \notin Window' PROVE At(s)' = NIL
    <3>1. s # t /\ s \notin Window
      BY <1>1, <2>1
    <3>. QED
      BY <1>1, <2>1, <3>1 DEF LongInv, LongIndexed, SlotsClean
  <2>. QED
    BY <2>1 DEF SlotsClean
<1>7. ASSUME NEW m \in Locks, long_wait_index'[m] # NIL
      PROVE  long_wait_index'[m] \in Window' /\ queues'[long_wait_index'[m][1]][long_wait_index'[m][2] + 1] = m
  <2>1. CASE m = l
    BY <1>1, <1>3, <2>1 DEF At
  <2>2. CASE m # l
    <3>1. PICK s : s = long_wait_index[m] /\ s = long_wait_index'[m]
      BY <1>3, <2>2
    <3>2. s \in Window /\ At(s) = m
      BY <1>2, <1>7, <3>1 DEF LongInv, LongIndexed
    <3>3. s \in Window' /\ At(s)' = m
      BY <1>1, <3>2
    <3>. QED
      BY <3>1, <3>3 DEF At
  <2>. QED
    BY <2>1, <2>2
<1>8. ASSUME NEW s \in Live' PROVE long_wait_index'[At(s)'] = s
  <2>1. CASE s = t
    BY <1>1, <1>3, <2>1
  <2>2. CASE s # t
    <3>1. s \in Live /\ At(s)' = At(s) /\ At(s) \in Locks
      BY <1>1, <1>4, <2>2, EntryAt DEF LongInv, Live, Window, Entries
    <3>2. At(s) # l
      BY <3>1 DEF Push
    <3>3. long_wait_index[At(s)] = s
      BY <1>2, <3>1 DEF LongInv, LongIndexed
    <3>. QED
      BY <1>3, <3>1, <3>2, <3>3
  <2>. QED
    BY <2>1, <2>2
<1>9. ~draining' => free_count' = Cardinality(Window' \ Live')
  BY <1>2, <1>5 DEF LongInv, LongIndexed
<1>. QED
  BY <1>6, <1>7, <1>8, <1>9 DEF LongIndexed, At

\* Pop takes the lock at the head out of the index, and no other.
LEMMA PopIndexed ==
  ASSUME LongInv, Frame', Pop PROVE LongIndexed'
<1>. USE QueueConstants
<1>1. use = "long" /\ use' = use /\ free_count' = free_count
  BY DEF Pop, LongInv, LongTypes
<1>2. CASE Empty
  <2>1. UNCHANGED <<queues, head_node_index, head_queue_index, tail_node_index,
                    tail_queue_index, draining, long_wait_index>>
    BY <1>2 DEF Pop, head, tail
  <2>. QED
    BY <1>1, <2>1 DEF LongInv, LongIndexed, SlotsClean, Live, Window, Slots, At, head, tail
<1>3. CASE ~Empty
  <2>1. PICK h \in Pairs :
          /\ h = head /\ h \in Window /\ Window = Window' \cup {h} /\ h \notin Window'
          /\ Slots' = Slots /\ At(h)' = NIL
          /\ \A s \in Slots : s # h => At(s)' = At(s)
    BY <1>3, PopSlots DEF LongInv
  <2>2. PICK x : x = At(h) /\ x = At(head)
    BY <2>1
  <2>3. /\ long_wait_index \in [Locks -> {NIL} \cup (Nodes \X Nat)]
        /\ long_wait_index' = [l \in Locks |-> IF l = x THEN NIL ELSE long_wait_index[l]]
    BY <1>3, <2>2 DEF Pop, LongInv, LongTypes
  <2>4. draining' = (use \in {"long", "milli"})
    BY <1>3 DEF Pop
  <2>5. draining'
    BY <1>1, <2>4
  <2>6. SlotsClean'
    <3>1. ASSUME NEW s \in Slots', s \notin Window' PROVE At(s)' = NIL
      BY <2>1, <3>1 DEF LongInv, LongIndexed, SlotsClean
    <3>. QED
      BY <3>1 DEF SlotsClean
  <2>7. Window' \subseteq Window /\ Window \subseteq Slots
    BY <2>1, WindowSlots
  <2>8. ASSUME NEW m \in Locks, long_wait_index'[m] # NIL
        PROVE  long_wait_index'[m] \in Window' /\ queues'[long_wait_index'[m][1]][long_wait_index'[m][2] + 1] = m
    <3>1. PICK s : s = long_wait_index[m] /\ s = long_wait_index'[m] /\ m # x
      BY <2>3, <2>8
    <3>2. s \in Window /\ At(s) = m
      BY <1>1, <2>8, <3>1 DEF LongInv, LongIndexed
    <3>3. s \in Window' /\ At(s)' = m
      BY <2>1, <2>2, <2>7, <3>1, <3>2
    <3>. QED
      BY <3>1, <3>3 DEF At
  <2>9. ASSUME NEW s \in Live' PROVE long_wait_index'[At(s)'] = s
    <3>1. s \in Window' /\ At(s)' # NIL
      BY <2>9 DEF Live
    <3>2. s # h /\ s \in Live /\ At(s)' = At(s) /\ At(s) \in Locks
      BY <2>1, <2>7, <3>1, EntryAt DEF LongInv, Live, Entries
    <3>3. long_wait_index[At(s)] = s
      BY <1>1, <3>2 DEF LongInv, LongIndexed
    <3>4. At(s) # x
      <4>1. x # NIL => long_wait_index[x] = h
        BY <1>1, <2>1, <2>2 DEF LongInv, LongIndexed, Live
      <4>. QED
        BY <3>1, <3>2, <3>3, <4>1
    <3>. QED
      BY <2>3, <3>2, <3>3, <3>4
  <2>. QED
    BY <2>5, <2>6, <2>8, <2>9 DEF LongIndexed, At
<1>. QED
  BY <1>2, <1>3

\* A removal empties the lock's own slot and counts the hole.
LEMMA RemoveLongInv ==
  ASSUME LongInv, NEW l \in Locks, RemoveLong(l) PROVE LongInv'
<1>. USE QueueConstants
<1>1. /\ use = "long" /\ use' = use /\ ~draining /\ draining' = draining
      /\ free_count' = free_count + 1 /\ free_count \in Nat
      /\ panicked = FALSE /\ panicked' = panicked
      /\ UNCHANGED <<head_node_index, head_queue_index, tail_node_index, tail_queue_index,
                     node_index, node_size, queue_size>>
  BY DEF RemoveLong, LongInv, LongTypes, head, tail
<1>2. PICK h : h = long_wait_index[l]
  OBVIOUS
<1>3. h \in Window /\ At(h) = l /\ h \in Slots /\ h \in Live /\ l # NIL
  BY <1>1, <1>2 DEF RemoveLong, LongInv, LongIndexed, Live, Window
<1>4. /\ long_wait_index \in [Locks -> {NIL} \cup (Nodes \X Nat)]
      /\ long_wait_index' = [long_wait_index EXCEPT ![l] = NIL]
      /\ queues' = Vacated(h)
  BY <1>2 DEF RemoveLong, LongInv, LongTypes
<1>5. /\ queues' \in [Nodes -> Seq(Entries)]
      /\ \A n \in Nodes : Len(queues'[n]) = Len(queues[n])
      /\ Slots' = Slots /\ At(h)' = NIL
      /\ \A u \in Slots : u # h => At(u)' = At(u)
  BY <1>3, <1>4, VacatedSlots DEF LongInv
<1>6. Frame' /\ Grown'
  <2>1. Frame'
    BY <1>1, <1>5 DEF LongInv, Frame
  <2>. QED
    BY <1>1, <1>5, <2>1, SameGrown DEF LongInv
<1>7. LongTypes'
  BY <1>1, <1>4 DEF LongInv, LongTypes
<1>8. Window' = Window
  BY <1>1, <1>5 DEF Window, head, tail
<1>9. Live' = Live \ {h}
  BY <1>5, <1>8, WindowSlots DEF Live
<1>10. SlotsClean'
  BY <1>3, <1>5, <1>8 DEF LongInv, LongIndexed, SlotsClean
<1>11. ASSUME NEW m \in Locks, long_wait_index'[m] # NIL
       PROVE  long_wait_index'[m] \in Window' /\ queues'[long_wait_index'[m][1]][long_wait_index'[m][2] + 1] = m
  <2>1. PICK s : s = long_wait_index[m] /\ s = long_wait_index'[m] /\ m # l
    BY <1>4, <1>11
  <2>2. s \in Window /\ At(s) = m
    BY <1>1, <1>11, <2>1 DEF LongInv, LongIndexed
  <2>3. s \in Window' /\ At(s)' = m
    BY <1>3, <1>5, <1>8, <2>1, <2>2, WindowSlots
  <2>. QED
    BY <2>1, <2>3 DEF At
<1>12. ASSUME NEW s \in Live' PROVE long_wait_index'[At(s)'] = s
  <2>1. s \in Live /\ s # h /\ At(s)' = At(s) /\ At(s) \in Locks
    BY <1>5, <1>9, WindowSlots, EntryAt DEF LongInv, Live, Entries
  <2>2. long_wait_index[At(s)] = s
    BY <1>1, <2>1 DEF LongInv, LongIndexed
  <2>3. At(s) # l
    BY <1>2, <2>1, <2>2
  <2>. QED
    BY <1>4, <2>1, <2>2, <2>3
<1>13. free_count' = Cardinality(Window' \ Live')
  <2>1. PICK A : A = Window \ Live
    OBVIOUS
  <2>2. IsFiniteSet(A)
    BY <2>1, WindowFinite, FS_Subset
  <2>3. Window' \ Live' = A \cup {h} /\ h \notin A
    BY <1>3, <1>8, <1>9, <2>1
  <2>4. Cardinality(A \cup {h}) = Cardinality(A) + 1
    BY <2>2, <2>3, FS_AddElement
  <2>5. free_count = Cardinality(A)
    BY <1>1, <2>1 DEF LongInv, LongIndexed
  <2>. QED
    BY <1>1, <2>3, <2>4, <2>5
<1>14. LongIndexed'
  BY <1>10, <1>11, <1>12, <1>13 DEF LongIndexed, At
<1>. QED
  BY <1>6, <1>7, <1>14 DEF LongInv

\* A queue that starts again, with nothing in it and nothing that refers to it.
LEMMA RewoundIndexed ==
  ASSUME Frame', Rewind, \A s \in Slots' : At(s)' = NIL,
         \A l \in Locks : long_wait_index'[l] = NIL, free_count' = 0
  PROVE  LongIndexed'
<1>1. /\ head_node_index' = 0 /\ head_queue_index' = 0
      /\ tail_node_index' = 0 /\ tail_queue_index' = 0
  BY DEF Rewind, SetHead, SetTail
<1>2. ASSUME NEW s \in Window' PROVE FALSE
  <2>1. PICK n \in Nat, k \in Nat : s = <<n, k>>
    BY WindowFiniteNext DEF Pairs
  <2>2. Between(n, k)'
    BY <2>1, FrameWindowNext
  <2>. QED
    BY <1>1, <2>2 DEF Between
<1>3. Window' = {} /\ Live' = {}
  BY <1>2, WindowSlotsNext
<1>4. Cardinality(Window' \ Live') = 0
  BY <1>3, FS_EmptySet
<1>. QED
  BY <1>3, <1>4 DEF LongIndexed, SlotsClean

\* When nothing is live no lock has an index.
LEMMA NoIndex ==
  ASSUME LongInv, Live = {}, NEW l \in Locks PROVE long_wait_index[l] = NIL
<1>1. use = "long" /\ l # NIL
  BY QueueConstants DEF LongInv, LongTypes
<1>. QED
  BY <1>1 DEF LongInv, LongIndexed, Live

\* Reset of a long queue keeps its invariant, unless its index leaves the array.
LEMMA ResetLong ==
  ASSUME LongInv, base_node_size <= 2, Reset PROVE panicked' = TRUE \/ LongInv'
<1>. USE QueueConstants
<1>1. /\ UNCHANGED <<node_size, long_wait_index, use>>
      /\ draining' = FALSE /\ free_count' = 0
  BY DEF Reset
<1>2. CASE node_index >= node_size /\ node_index >= base_node_size
  BY <1>2 DEF Reset, ResetQueue
<1>3. CASE ~(node_index >= node_size /\ node_index >= base_node_size)
  <2>1. Truncate(queues, base_node_size) /\ Rewind /\ UNCHANGED panicked
    BY <1>3 DEF Reset, ResetQueue
  <2>2. Frame /\ Grown /\ LongTypes /\ LongIndexed
    BY DEF LongInv
  <2>3. 0 \in Nodes /\ 0 <= tail_node_index
    BY <2>2 DEF Nodes, Frame
  <2>4. Frame' /\ Grown'
    <3>1. /\ queues \in [Nodes -> Seq(Entries)] /\ queues[0] # <<>>
          /\ node_index >= 1 => queues[1] # <<>>
          /\ \A n \in Nodes : Len(queues[n]) <= base_queue_size + QUEUE_MAX_MALLOC_SIZE
      BY <2>2, <2>3 DEF Frame, Grown
    <3>. QED
      BY <1>1, <2>1, <2>2, <3>1, ResetGrown
  <2>5. LongTypes'
    <3>1. draining' \in BOOLEAN
      BY <1>1, Zenon
    <3>. QED
      BY <1>1, <2>1, <2>2, <3>1 DEF LongTypes
  <2>6. ASSUME NEW s \in Window PROVE FALSE
    <3>1. PICK n \in Nat, k \in Nat : s = <<n, k>>
      BY WindowFinite DEF Pairs
    <3>2. Between(n, k)
      BY <2>2, <3>1, FrameWindow
    <3>3. /\ head_node_index \in Nat /\ head_queue_index \in Nat
          /\ tail_node_index \in Nat /\ tail_queue_index \in Nat
      BY <2>2 DEF Frame, Nodes
    <3>. QED
      BY <3>2, <3>3 DEF Between, Reset, Empty
  <2>7. Window = {} /\ Live = {}
    BY <2>6, WindowSlots
  <2>8. ASSUME NEW s \in Slots' PROVE At(s)' = NIL
    <3>1. PICK n \in Nat, k \in Nat : s = <<n, k>>
      BY SlotsFiniteNext DEF Pairs
    <3>2. n \in Nodes /\ k < Len(queues'[n])
      BY <2>4, <3>1, FrameSlotsNext
    <3>3. queues'[n] = <<>> \/ queues'[n] = queues[n]
      BY <2>1, <3>2 DEF Truncate
    <3>4. queues'[n] = queues[n]
      BY <3>2, <3>3
    <3>5. s \in Slots /\ At(s)' = At(s)
      BY <2>2, <3>1, <3>2, <3>4, FrameSlots DEF At
    <3>. QED
      BY <2>2, <2>7, <3>5 DEF LongIndexed, SlotsClean
  <2>9. \A l \in Locks : long_wait_index'[l] = NIL
    BY <1>1, <2>7, NoIndex
  <2>10. LongIndexed'
    BY <1>1, <2>1, <2>4, <2>8, <2>9, RewoundIndexed
  <2>. QED
    BY <2>4, <2>5, <2>10 DEF LongInv
<1>. QED
  BY <1>2, <1>3

-----------------------------------------------------------------------------
\* Ranks order the slots.
LEMMA RankOrders ==
  ASSUME NEW S \in SUBSET Pairs, IsFiniteSet(S), NEW s \in S, NEW t \in S
  PROVE  Before(s, t) <=> Rank(s, S) < Rank(t, S)
<1>1. Cardinality(S) \in Nat
  BY FS_CardinalityType
<1>2. Rank(s, S) \in Nat /\ Rank(t, S) \in Nat
  BY <1>1, RankRange
<1>3. Before(s, t) => Rank(s, S) < Rank(t, S)
  BY RankGrows
<1>4. Before(t, s) => Rank(t, S) < Rank(s, S)
  BY RankGrows
<1>5. s # t => Before(s, t) \/ Before(t, s)
  BY BeforeOrder
<1>. QED
  BY <1>2, <1>3, <1>4, <1>5

\* The locks that are scanned are the live ones, they fit before the tail, and the
\* new tail is not behind the old one.
LEMMA ScannedIs ==
  ASSUME LongInv
  PROVE  /\ Scanned = Live /\ Scanned \in SUBSET Pairs /\ IsFiniteSet(Scanned)
         /\ Cardinality(Scanned) \in 0..(Cardinality(Slots) - 1)
         /\ Target(Cardinality(Scanned)) \in Slots
         /\ Rank(Target(Cardinality(Scanned)), Slots) = Cardinality(Scanned)
         /\ Target(Cardinality(Scanned))[1] <= tail_node_index
<1>. USE QueueConstants
<1>1. Frame /\ SlotsClean
  BY DEF LongInv, LongIndexed
<1>2. Scanned = Live
  BY <1>1 DEF Scanned, Live, Window, SlotsClean
<1>3. Scanned \in SUBSET Slots
  BY DEF Scanned
<1>4. Scanned \in SUBSET Pairs /\ IsFiniteSet(Scanned)
  BY <1>3, SlotsFinite, FS_Subset
<1>5. PICK u \in Slots : u = tail
  <2>1. tail_node_index \in Nat /\ tail_node_index \in Nodes /\ tail_queue_index \in Nat
    BY <1>1 DEF Frame, Nodes
  <2>. QED
    BY <1>1, <2>1, FrameSlots DEF Frame, tail
<1>6. PICK D : D = {s \in Slots : Before(s, u)}
  OBVIOUS
<1>7. Scanned \in SUBSET D /\ IsFiniteSet(D)
  BY <1>5, <1>6, SlotsFinite, FS_Subset DEF Scanned
<1>8. Cardinality(Scanned) <= Cardinality(D)
  BY <1>7, FS_Subset
<1>9. Rank(u, Slots) = Cardinality(D)
  BY <1>6 DEF Rank
<1>10. Rank(u, Slots) \in 0..(Cardinality(Slots) - 1)
  BY SlotsFinite, RankRange
<1>11. PICK C \in Nat : C = Cardinality(Scanned)
  BY <1>4, FS_CardinalityType
<1>12. Cardinality(Slots) \in Nat
  BY SlotsFinite, FS_CardinalityType
<1>13. C \in 0..(Cardinality(Slots) - 1) /\ C <= Rank(u, Slots)
  BY <1>8, <1>9, <1>10, <1>11, <1>12
<1>14. Nth(Slots, C) \in Slots /\ Rank(Nth(Slots, C), Slots) = C
  BY <1>13, SlotsFinite, NthIs
<1>15. Target(C) = Nth(Slots, C)
  BY DEF Target, Nth
<1>16. PICK t \in Slots : t = Target(C) /\ Rank(t, Slots) = C
  BY <1>14, <1>15
<1>17. ~Before(u, t)
  <2>1. Before(u, t) <=> Rank(u, Slots) < Rank(t, Slots)
    BY SlotsFinite, RankOrders
  <2>. QED
    BY <1>10, <1>12, <1>13, <1>16, <2>1
<1>18. t[1] <= u[1]
  BY <1>17, SlotsFinite DEF Before, Pairs
<1>. QED
  BY <1>2, <1>4, <1>5, <1>11, <1>13, <1>16, <1>18 DEF tail

\* The i-th lock is written to the i-th slot, behind them the queue is empty.
LEMMA CompactedIs ==
  ASSUME LongInv
  PROVE  /\ Compacted \in [Nodes -> Seq(Entries)]
         /\ \A n \in Nodes : Len(Compacted[n]) = Len(queues[n])
         /\ \A s \in Slots : Compacted[s[1]][s[2] + 1] =
                               IF Rank(s, Slots) < Cardinality(Scanned)
                               THEN At(Nth(Scanned, Rank(s, Slots))) ELSE NIL
<1>. USE QueueConstants
<1>1. Frame /\ SlotsClean
  BY DEF LongInv, LongIndexed
<1>2. Scanned \in SUBSET Pairs /\ IsFiniteSet(Scanned) /\ Scanned \in SUBSET Slots
  BY ScannedIs DEF Scanned
<1>3. PICK C \in Nat : C = Cardinality(Scanned)
  BY <1>2, FS_CardinalityType
<1>4. ASSUME NEW n \in Nodes, NEW j \in Nat, j < Len(queues[n])
      PROVE  /\ <<n, j>> \in Slots /\ j + 1 \in DOMAIN queues[n]
             /\ Compacted[n][j + 1] = IF Rank(<<n, j>>, Slots) < C
                                      THEN At(Nth(Scanned, Rank(<<n, j>>, Slots))) ELSE NIL
             /\ Compacted[n][j + 1] \in Entries
  <2>1. n \in Nat /\ queues[n] \in Seq(Entries)
    BY <1>1 DEF Nodes, Frame
  <2>2. PICK k : k = j + 1 /\ k \in DOMAIN queues[n] /\ k - 1 = j
    BY <1>4, <2>1
  <2>3. PICK s \in Slots : s = <<n, j>> /\ s = <<n, k - 1>>
    BY <1>1, <1>4, <2>1, <2>2, FrameSlots
  <2>4. queues[n][k] = At(s)
    BY <2>2, <2>3 DEF At
  <2>5. Compacted[n][k] = IF Rank(s, Slots) < C THEN At(Nth(Scanned, Rank(s, Slots)))
                          ELSE IF Before(s, tail) THEN NIL ELSE At(s)
    BY <1>3, <2>2, <2>3, <2>4 DEF Compacted, Nth
  <2>6. ~Before(s, tail) => At(s) = NIL
    BY <1>1 DEF SlotsClean, Window
  <2>7. Rank(s, Slots) < C => At(Nth(Scanned, Rank(s, Slots))) \in Entries
    <3>. SUFFICES ASSUME Rank(s, Slots) < C PROVE At(Nth(Scanned, Rank(s, Slots))) \in Entries
      OBVIOUS
    <3>1. Rank(s, Slots) \in Nat
      BY SlotsFinite, RankRange, FS_CardinalityType
    <3>2. Rank(s, Slots) \in 0..(Cardinality(Scanned) - 1)
      BY <1>3, <3>1
    <3>3. Nth(Scanned, Rank(s, Slots)) \in Scanned
      BY <1>2, <3>2, NthIs
    <3>. QED
      BY <1>1, <1>2, <3>3, EntryAt
  <2>8. NIL \in Entries
    BY DEF Entries
  <2>. QED
    BY <2>2, <2>3, <2>5, <2>6, <2>7, <2>8
<1>5. ASSUME NEW n \in Nodes
      PROVE  Compacted[n] \in Seq(Entries) /\ Len(Compacted[n]) = Len(queues[n])
  <2>1. queues[n] \in Seq(Entries)
    BY <1>1 DEF Frame
  <2>2. PICK L \in Nat : L = Len(queues[n]) /\ DOMAIN queues[n] = 1..L
    BY <2>1
  <2>3. PICK f : f = Compacted[n]
    OBVIOUS
  <2>4. f = [k \in 1..L |-> f[k]]
    BY <2>2, <2>3 DEF Compacted
  <2>5. ASSUME NEW k \in 1..L PROVE f[k] \in Entries
    <3>1. k - 1 \in Nat /\ k - 1 < Len(queues[n]) /\ (k - 1) + 1 = k
      BY <2>2
    <3>2. Compacted[n][(k - 1) + 1] \in Entries
      BY <1>4, <3>1
    <3>. QED
      BY <2>3, <3>1, <3>2
  <2>6. f \in [1..L -> Entries]
    BY <2>4, <2>5
  <2>7. f \in Seq(Entries) /\ Len(f) = L
    BY <2>6
  <2>. QED
    BY <2>2, <2>3, <2>7
<1>6. Compacted \in [Nodes -> Seq(Entries)]
  <2>1. Compacted = [n \in Nodes |-> Compacted[n]]
    BY DEF Compacted
  <2>. QED
    BY <1>5, <2>1
<1>7. ASSUME NEW s \in Slots
      PROVE  Compacted[s[1]][s[2] + 1] = IF Rank(s, Slots) < C
                                         THEN At(Nth(Scanned, Rank(s, Slots))) ELSE NIL
  <2>1. PICK n \in Nat, j \in Nat : s = <<n, j>>
    BY SlotsFinite DEF Pairs
  <2>2. n \in Nodes /\ j < Len(queues[n])
    BY <1>1, <2>1, FrameSlots
  <2>. QED
    BY <1>4, <2>1, <2>2
<1>. QED
  BY <1>3, <1>5, <1>6, <1>7

\* The nodes behind the one after the new tail are given back.
Compacting(t, last, qs) ==
  /\ t = Target(Cardinality(Scanned))
  /\ last = Smaller(tail_node_index, t[1] + 1)
  /\ qs = [n \in Nodes |-> IF n > last /\ n <= tail_node_index THEN <<>> ELSE Compacted[n]]

\* What a restructuring does to the slots: those before the first free one are filled in order, the rest emptied.
LEMMA CompactingIs ==
  ASSUME LongInv, NEW t, NEW last, NEW qs, Compacting(t, last, qs)
  PROVE  /\ t \in Slots /\ t[1] \in Nat /\ t[2] \in Nat /\ last \in Nodes
         /\ t[1] <= last /\ last <= tail_node_index
         /\ qs \in [Nodes -> Seq(Entries)]
         /\ \A n \in Nodes : Len(qs[n]) <= base_queue_size + QUEUE_MAX_MALLOC_SIZE
         /\ \A n \in Nodes : qs[n] # <<>> => Len(qs[n]) = Len(queues[n]) /\ queues[n] # <<>>
         /\ \A n \in Nodes : n <= last => Len(qs[n]) = Len(queues[n]) /\ qs[n] # <<>>
         /\ node_index >= 1 => 1 \in Nodes /\ qs[1] # <<>>
         /\ \A s \in Slots : qs[s[1]] # <<>> =>
              qs[s[1]][s[2] + 1] = IF Before(s, t) THEN At(Nth(Scanned, Rank(s, Slots))) ELSE NIL
<1>. USE QueueConstants
<1>1. Frame /\ Grown
  BY DEF LongInv
<1>2. /\ t \in Slots /\ Rank(t, Slots) = Cardinality(Scanned) /\ t[1] <= tail_node_index
  BY ScannedIs DEF Compacting
<1>3. t[1] \in Nat /\ t[2] \in Nat
  BY <1>2, SlotsFinite DEF Pairs
<1>4. tail_node_index \in Nat /\ tail_node_index <= MaxNodes - 1
  BY <1>1 DEF Frame, Nodes
<1>5. /\ last \in Nodes /\ last \in Nat /\ t[1] <= last /\ last <= tail_node_index
      /\ tail_node_index >= 1 => last >= 1
  BY <1>2, <1>3, <1>4 DEF Compacting, Smaller, Nodes
<1>6. /\ Compacted \in [Nodes -> Seq(Entries)]
      /\ \A n \in Nodes : Len(Compacted[n]) = Len(queues[n])
  BY CompactedIs
<1>7. \A n \in Nodes : \/ n > last /\ n <= tail_node_index /\ qs[n] = <<>>
                       \/ ~(n > last /\ n <= tail_node_index) /\ qs[n] = Compacted[n]
  BY DEF Compacting
<1>8. qs \in [Nodes -> Seq(Entries)]
  <2>0. <<>> \in Seq(Entries)
    OBVIOUS
  <2>1. ASSUME NEW n \in Nodes PROVE qs[n] \in Seq(Entries)
    <3>1. Compacted[n] \in Seq(Entries)
      BY <1>6
    <3>2. qs[n] = <<>> \/ qs[n] = Compacted[n]
      BY <1>7
    <3>. QED
      BY <2>0, <3>1, <3>2
  <2>2. qs = [n \in Nodes |-> qs[n]]
    BY DEF Compacting
  <2>. QED
    BY <2>1, <2>2
<1>9. \A n \in Nodes : Compacted[n] # <<>> <=> queues[n] # <<>>
  BY <1>1, <1>6 DEF Frame
<1>10. \A n \in Nodes : Len(qs[n]) <= base_queue_size + QUEUE_MAX_MALLOC_SIZE
  <2>1. \A n \in Nodes : Len(qs[n]) = 0 \/ Len(qs[n]) = Len(queues[n])
    BY <1>6, <1>7
  <2>. QED
    BY <1>1, <2>1 DEF Frame
<1>11. \A n \in Nodes : qs[n] # <<>> => Len(qs[n]) = Len(queues[n]) /\ queues[n] # <<>>
  BY <1>6, <1>7, <1>9
<1>12. ASSUME NEW n \in Nodes, n <= last PROVE Len(qs[n]) = Len(queues[n]) /\ qs[n] # <<>>
  <2>1. n \in Nat
    BY DEF Nodes
  <2>2. qs[n] = Compacted[n]
    BY <1>5, <1>7, <1>12, <2>1
  <2>3. queues[n] # <<>>
    BY <1>1, <1>4, <1>5, <1>12, <2>1 DEF Grown
  <2>. QED
    BY <1>6, <1>9, <2>2, <2>3
<1>13. node_index >= 1 => 1 \in Nodes /\ qs[1] # <<>>
  <2>1. ASSUME node_index >= 1 PROVE 1 \in Nodes /\ qs[1] # <<>>
    <3>1. 1 \in Nodes /\ queues[1] # <<>>
      BY <1>1, <2>1 DEF Grown
    <3>2. ~(1 > last /\ 1 <= tail_node_index)
      BY <1>4, <1>5
    <3>. QED
      BY <1>7, <1>9, <3>1, <3>2
  <2>. QED
    BY <2>1
<1>14. ASSUME NEW s \in Slots, qs[s[1]] # <<>>
       PROVE  qs[s[1]][s[2] + 1] = IF Before(s, t) THEN At(Nth(Scanned, Rank(s, Slots))) ELSE NIL
  <2>1. s[1] \in Nodes
    BY DEF Slots
  <2>2. qs[s[1]] = Compacted[s[1]]
    BY <1>7, <1>14, <2>1
  <2>3. Before(s, t) <=> Rank(s, Slots) < Rank(t, Slots)
    BY <1>2, SlotsFinite, RankOrders
  <2>4. Compacted[s[1]][s[2] + 1] = IF Rank(s, Slots) < Cardinality(Scanned)
                                    THEN At(Nth(Scanned, Rank(s, Slots))) ELSE NIL
    BY CompactedIs
  <2>. QED
    BY <1>2, <2>2, <2>3, <2>4
<1>. QED
  BY <1>2, <1>3, <1>5, <1>8, <1>10, <1>11, <1>12, <1>13, <1>14

\* The new index of a lock is the slot its rank among the live ones gives.
LEMMA NewIndexIs ==
  ASSUME LongInv
  PROVE  /\ \A s \in Scanned : At(s) \in Locks /\ NewIndex(At(s)) = Nth(Slots, Rank(s, Scanned))
         /\ \A l \in Locks : NewIndex(l) = NIL \/ \E s \in Scanned : At(s) = l
<1>. USE QueueConstants
<1>1. use = "long" /\ Frame
  BY DEF LongInv, LongTypes
<1>2. Scanned = Live
  BY ScannedIs
<1>3. ASSUME NEW s \in Scanned PROVE At(s) \in Locks /\ NewIndex(At(s)) = Nth(Slots, Rank(s, Scanned))
  <2>1. At(s) \in Locks
    BY <1>1, EntryAt DEF Scanned, Entries
  <2>2. PICK l \in Locks : l = At(s)
    BY <2>1
  <2>3. ASSUME NEW u \in Scanned, At(u) = l PROVE u = s
    BY <1>1, <1>2, <2>2, <2>3 DEF LongInv, LongIndexed
  <2>4. (CHOOSE u \in Scanned : At(u) = l) = s
    BY <2>2, <2>3
  <2>5. NewIndex(l) = Target(Rank(s, Scanned))
    BY <2>2, <2>4 DEF NewIndex
  <2>6. Target(Rank(s, Scanned)) = Nth(Slots, Rank(s, Scanned))
    BY DEF Target, Nth
  <2>. QED
    BY <2>2, <2>5, <2>6
<1>4. ASSUME NEW l \in Locks, ~\E s \in Scanned : At(s) = l PROVE NewIndex(l) = NIL
  <2>1. NewIndex(l) = long_wait_index[l]
    BY <1>4 DEF NewIndex
  <2>2. l # NIL
    OBVIOUS
  <2>3. long_wait_index[l] # NIL => long_wait_index[l] \in Live /\ At(long_wait_index[l]) = l
    BY <1>1, <2>2 DEF LongInv, LongIndexed, Live
  <2>. QED
    BY <1>2, <1>4, <2>1, <2>3
<1>. QED
  BY <1>3, <1>4

\* Restructuring: every lock keeps its place in the order, its index names its new
\* slot, there is no hole left.
LEMMA RestructuringLong ==
  ASSUME LongInv, base_node_size <= 2, Restructuring PROVE panicked' = TRUE \/ LongInv'
<1>. USE QueueConstants
<1>1. /\ UNCHANGED <<node_size, draining, use>> /\ free_count' = 0
      /\ long_wait_index' = [l \in Locks |-> NewIndex(l)]
  BY DEF Restructuring
<1>2. PICK t, last, qs :
        /\ Compacting(t, last, qs)
        /\ IF Scanned = {} THEN ResetQueue(qs)
           ELSE /\ queues' = qs /\ SetHead(<<0, 0>>) /\ SetTail(t)
                /\ queue_size' = Smaller(base_queue_size * 2^last, QUEUE_MAX_MALLOC_SIZE)
                /\ UNCHANGED <<node_index, panicked>>
  BY DEF Restructuring, Compacting
<1>3. /\ t \in Slots /\ t[1] \in Nat /\ t[2] \in Nat /\ last \in Nodes
      /\ t[1] <= last /\ last <= tail_node_index
      /\ qs \in [Nodes -> Seq(Entries)]
      /\ \A n \in Nodes : Len(qs[n]) <= base_queue_size + QUEUE_MAX_MALLOC_SIZE
      /\ \A n \in Nodes : qs[n] # <<>> => Len(qs[n]) = Len(queues[n]) /\ queues[n] # <<>>
      /\ \A n \in Nodes : n <= last => Len(qs[n]) = Len(queues[n]) /\ qs[n] # <<>>
      /\ node_index >= 1 => 1 \in Nodes /\ qs[1] # <<>>
  BY <1>2, CompactingIs
<1>4. \A s \in Slots : qs[s[1]] # <<>> =>
        qs[s[1]][s[2] + 1] = IF Before(s, t) THEN At(Nth(Scanned, Rank(s, Slots))) ELSE NIL
  BY <1>2, CompactingIs
<1>5. Frame /\ Grown /\ LongTypes /\ LongIndexed
  BY DEF LongInv
<1>6. /\ Scanned = Live /\ Scanned \in SUBSET Pairs /\ IsFiniteSet(Scanned)
      /\ t = Target(Cardinality(Scanned)) /\ Rank(t, Slots) = Cardinality(Scanned)
  BY <1>2, ScannedIs DEF Compacting
<1>7. CASE Scanned = {}
  <2>1. ResetQueue(qs)
    BY <1>2, <1>7
  <2>2. CASE panicked' = TRUE
    BY <2>2
  <2>3. CASE panicked' # TRUE
    <3>1. Truncate(qs, base_node_size) /\ Rewind /\ UNCHANGED panicked
      BY <2>1, <2>3 DEF ResetQueue
    <3>2. 0 \in Nodes /\ 0 <= last
      BY <1>3 DEF Nodes
    <3>3. Frame' /\ Grown'
      BY <1>1, <1>3, <1>5, <3>1, <3>2, ResetGrown
    <3>4. \A l \in Locks : NewIndex(l) = NIL
      BY <1>7, NewIndexIs
    <3>5. \A l \in Locks : long_wait_index'[l] = NIL
      BY <1>1, <3>4
    <3>6. LongTypes'
      BY <1>1, <1>5, <3>1, <3>4 DEF LongTypes
    <3>7. ASSUME NEW s \in Slots PROVE ~Before(s, t)
      <4>1. Rank(t, Slots) = 0
        BY <1>6, <1>7, FS_EmptySet
      <4>2. Rank(s, Slots) \in Nat
        BY SlotsFinite, RankRange, FS_CardinalityType
      <4>3. Before(s, t) <=> Rank(s, Slots) < Rank(t, Slots)
        BY <1>3, SlotsFinite, RankOrders
      <4>. QED
        BY <4>1, <4>2, <4>3
    <3>8. ASSUME NEW s \in Slots' PROVE At(s)' = NIL
      <4>1. PICK n \in Nat, k \in Nat : s = <<n, k>>
        BY SlotsFiniteNext DEF Pairs
      <4>2. n \in Nodes /\ k < Len(queues'[n])
        BY <3>3, <4>1, FrameSlotsNext
      <4>3. queues'[n] = <<>> \/ queues'[n] = qs[n]
        BY <3>1, <4>2 DEF Truncate
      <4>4. queues'[n] = qs[n] /\ qs[n] # <<>>
        BY <4>2, <4>3
      <4>5. s \in Slots
        BY <1>3, <1>5, <4>1, <4>2, <4>4, FrameSlots
      <4>6. qs[s[1]][s[2] + 1] = NIL
        BY <1>4, <3>7, <4>1, <4>4, <4>5
      <4>. QED
        BY <4>1, <4>4, <4>6 DEF At
    <3>9. LongIndexed'
      BY <1>1, <3>1, <3>3, <3>5, <3>8, RewoundIndexed
    <3>. QED
      BY <3>3, <3>6, <3>9 DEF LongInv
  <2>. QED
    BY <2>2, <2>3
<1>8. CASE Scanned # {}
  <2>1. /\ queues' = qs /\ head_node_index' = 0 /\ head_queue_index' = 0
        /\ tail_node_index' = t[1] /\ tail_queue_index' = t[2]
        /\ queue_size' = Smaller(base_queue_size * 2^last, QUEUE_MAX_MALLOC_SIZE)
        /\ UNCHANGED <<node_index, panicked>>
    BY <1>2, <1>8 DEF SetHead, SetTail
  <2>2. t = <<t[1], t[2]>>
    BY <1>3, SlotsFinite DEF Pairs
  <2>3. t[1] \in Nodes /\ t[2] < Len(queues[t[1]])
    BY <1>3, <1>5, <2>2, FrameSlots
  <2>4. 0 \in Nodes /\ last \in Nat /\ Len(qs[0]) > 0
    <3>1. 0 \in Nodes /\ last \in Nat
      BY <1>3 DEF Nodes
    <3>2. qs[0] # <<>> /\ qs[0] \in Seq(Entries)
      BY <1>3, <3>1
    <3>. QED
      BY <3>1, <3>2
  <2>5. Frame'
    <3>1. t[2] < Len(qs[t[1]])
      BY <1>3, <2>3
    <3>2. 0 < t[1] \/ (0 = t[1] /\ 0 <= t[2])
      BY <1>3
    <3>. QED
      BY <1>3, <2>1, <2>3, <2>4, <3>1, <3>2 DEF Frame
  <2>6. Grown'
    <3>1. queue_size' \in Nat \ {0}
      <4>1. base_queue_size * 2^last \in 1..MaxInt32
        BY <1>3, SizesFit
      <4>2. PICK z : z = base_queue_size * 2^last
        OBVIOUS
      <4>3. z \in Nat \ {0}
        BY <4>1, <4>2
      <4>4. queue_size' = Smaller(z, QUEUE_MAX_MALLOC_SIZE)
        BY <2>1, <4>2
      <4>. QED
        BY <4>3, <4>4 DEF Smaller
    <3>2. ASSUME NEW n \in Nodes, n <= t[1] PROVE qs[n] # <<>>
      BY <1>3, <2>4, <3>2, SMTT(30) DEF Nodes
    <3>3. ASSUME NEW n \in Nodes, qs[n] # <<>> PROVE n <= node_index
      BY <1>3, <1>5, <3>3 DEF Grown
    <3>. QED
      BY <1>1, <1>3, <1>5, <2>1, <3>1, <3>2, <3>3 DEF Grown
  <2>7. LongTypes'
    <3>1. ASSUME NEW l \in Locks PROVE NewIndex(l) \in {NIL} \cup (Nodes \X Nat)
      <4>1. CASE NewIndex(l) = NIL
        BY <4>1
      <4>2. CASE \E s \in Scanned : At(s) = l
        <5>1. PICK s \in Scanned : At(s) = l
          BY <4>2
        <5>2. Rank(s, Scanned) \in 0..(Cardinality(Scanned) - 1)
          BY <1>6, RankRange
        <5>3. Rank(s, Scanned) \in 0..(Cardinality(Slots) - 1)
          <6>1. Cardinality(Scanned) \in 0..(Cardinality(Slots) - 1)
            BY ScannedIs
          <6>2. Cardinality(Slots) \in Nat
            BY SlotsFinite, FS_CardinalityType
          <6>. QED
            BY <5>2, <6>1, <6>2
        <5>4. Nth(Slots, Rank(s, Scanned)) \in Slots
          BY <5>3, SlotsFinite, NthIs
        <5>5. Slots \subseteq Nodes \X Nat
          BY DEF Slots
        <5>. QED
          BY <5>1, <5>4, <5>5, NewIndexIs
      <4>. QED
        BY <4>1, <4>2, NewIndexIs
    <3>2. long_wait_index' \in [Locks -> {NIL} \cup (Nodes \X Nat)]
      BY <1>1, <3>1
    <3>. QED
      BY <1>1, <1>5, <2>1, <3>2 DEF LongTypes
  <2>8. ASSUME NEW s \in Slots' PROVE s \in Slots /\ qs[s[1]] # <<>>
    <3>1. PICK n \in Nat, k \in Nat : s = <<n, k>>
      BY SlotsFiniteNext DEF Pairs
    <3>2. n \in Nodes /\ k < Len(qs[n])
      BY <2>1, <2>5, <3>1, FrameSlotsNext
    <3>3. qs[n] # <<>>
      BY <3>2
    <3>4. k < Len(queues[n])
      BY <1>3, <3>2, <3>3
    <3>. QED
      BY <1>5, <3>1, <3>2, <3>3, <3>4, FrameSlots
  <2>9. ASSUME NEW s \in Slots, Before(s, t) PROVE s \in Slots'
    <3>1. PICK n \in Nat, k \in Nat : s = <<n, k>>
      BY SlotsFinite DEF Pairs
    <3>2. n \in Nodes /\ k < Len(queues[n])
      BY <1>5, <3>1, FrameSlots
    <3>3. n <= last
      BY <1>3, <2>4, <2>9, <3>1 DEF Before
    <3>4. k < Len(qs[n])
      BY <1>3, <3>2, <3>3
    <3>. QED
      BY <2>1, <2>5, <3>1, <3>2, <3>4, FrameSlotsNext
  <2>10. ASSUME NEW s \in Slots'
         PROVE  At(s)' = IF Before(s, t) THEN At(Nth(Scanned, Rank(s, Slots))) ELSE NIL
    BY <1>4, <2>1, <2>8 DEF At
  <2>11. ASSUME NEW s PROVE s \in Window' <=> s \in Slots /\ Before(s, t)
    <3>1. head' = <<0, 0>> /\ tail' = t
      BY <2>1, <2>2 DEF head, tail
    <3>2. s \in Window' <=> s \in Slots' /\ ~Before(s, <<0, 0>>) /\ Before(s, t)
      BY <3>1 DEF Window, Before
    <3>3. s \in Slots' => ~Before(s, <<0, 0>>)
      BY SlotsFiniteNext DEF Before, Pairs
    <3>. QED
      BY <2>8, <2>9, <3>2, <3>3
  <2>12. ASSUME NEW u \in Window'
         PROVE  /\ u \in Slots /\ Rank(u, Slots) \in 0..(Cardinality(Scanned) - 1)
                /\ Nth(Scanned, Rank(u, Slots)) \in Scanned
                /\ Rank(Nth(Scanned, Rank(u, Slots)), Scanned) = Rank(u, Slots)
                /\ At(u)' = At(Nth(Scanned, Rank(u, Slots)))
    <3>1. u \in Slots /\ Before(u, t) /\ u \in Slots'
      BY <2>9, <2>11
    <3>2. Before(u, t) <=> Rank(u, Slots) < Rank(t, Slots)
      BY <1>3, <3>1, SlotsFinite, RankOrders
    <3>3. Rank(u, Slots) \in Nat
      BY <3>1, SlotsFinite, RankRange, FS_CardinalityType
    <3>4. Cardinality(Scanned) \in Nat
      BY <1>6, FS_CardinalityType
    <3>5. Rank(u, Slots) \in 0..(Cardinality(Scanned) - 1)
      BY <1>6, <3>1, <3>2, <3>3, <3>4
    <3>6. /\ Nth(Scanned, Rank(u, Slots)) \in Scanned
          /\ Rank(Nth(Scanned, Rank(u, Slots)), Scanned) = Rank(u, Slots)
      BY <1>6, <3>5, NthIs
    <3>. QED
      BY <2>10, <3>1, <3>5, <3>6
  <2>13. SlotsClean'
    BY <2>8, <2>10, <2>11 DEF SlotsClean
  <2>14. ASSUME NEW u \in Window' PROVE At(u)' \in Locks /\ long_wait_index'[At(u)'] = u
    <3>1. PICK s \in Scanned : s = Nth(Scanned, Rank(u, Slots))
      BY <2>12
    <3>2. Rank(s, Scanned) = Rank(u, Slots) /\ At(u)' = At(s) /\ u \in Slots
      BY <2>12, <3>1
    <3>3. At(s) \in Locks /\ NewIndex(At(s)) = Nth(Slots, Rank(s, Scanned))
      BY NewIndexIs
    <3>4. Nth(Slots, Rank(u, Slots)) = u
      BY <3>2, SlotsFinite, NthIs
    <3>. QED
      BY <1>1, <3>2, <3>3, <3>4
  <2>15. Live' = Window'
    BY <2>14 DEF Live
  <2>16. Cardinality(Window' \ Live') = 0
    <3>1. Window' \ Live' = {}
      BY <2>15
    <3>. QED
      BY <3>1, FS_EmptySet
  <2>17. ASSUME NEW l \in Locks, long_wait_index'[l] # NIL
         PROVE  long_wait_index'[l] \in Window' /\ queues'[long_wait_index'[l][1]][long_wait_index'[l][2] + 1] = l
    <3>1. PICK s \in Scanned : At(s) = l
      BY <1>1, <2>17, NewIndexIs
    <3>2. Rank(s, Scanned) \in 0..(Cardinality(Scanned) - 1)
      BY <1>6, RankRange
    <3>3. PICK r \in Nat : r = Rank(s, Scanned) /\ r < Cardinality(Scanned) /\ r \in 0..(Cardinality(Slots) - 1)
      <4>1. Cardinality(Scanned) \in 0..(Cardinality(Slots) - 1)
        BY ScannedIs
      <4>2. Cardinality(Slots) \in Nat
        BY SlotsFinite, FS_CardinalityType
      <4>. QED
        BY <3>2, <4>1, <4>2
    <3>4. PICK u \in Slots : u = Nth(Slots, r) /\ Rank(u, Slots) = r
      BY <3>3, SlotsFinite, NthIs
    <3>5. long_wait_index'[l] = u
      BY <1>1, <3>1, <3>3, <3>4, NewIndexIs
    <3>6. u \in Window'
      <4>1. Before(u, t) <=> Rank(u, Slots) < Rank(t, Slots)
        BY <1>3, SlotsFinite, RankOrders
      <4>. QED
        BY <1>6, <2>11, <3>3, <3>4, <4>1
    <3>7. Nth(Scanned, r) = s
      BY <1>6, <3>3, NthIs
    <3>8. At(u)' = l
      BY <2>12, <3>1, <3>4, <3>6, <3>7
    <3>. QED
      BY <3>5, <3>6, <3>8 DEF At
  <2>18. LongIndexed'
    <3>1. \A s \in Live' : long_wait_index'[At(s)'] = s
      BY <2>14, <2>15
    <3>. QED
      BY <1>1, <2>13, <2>16, <2>17, <3>1 DEF LongIndexed, At
  <2>. QED
    BY <2>5, <2>6, <2>7, <2>18 DEF LongInv
<1>. QED
  BY <1>7, <1>8

\* Until an index leaves the array, in a step of a long queue.
LEMMA LongStep ==
  ASSUME base_node_size <= 2, LongInv, [Next]_vars PROVE panicked' = TRUE \/ LongInv'
<1>0. Frame /\ Grown /\ LongTypes /\ LongIndexed /\ use = "long"
  BY DEF LongInv, LongTypes
<1>1. ASSUME NEW l \in Locks, Push(l) PROVE LongInv'
  <2>1. Frame' /\ Grown'
    BY <1>0, <1>1, PushGrown
  <2>2. LongIndexed'
    BY <1>1, <2>1, PushIndexed
  <2>3. LongTypes'
    <3>1. tail \in Nodes \X Nat
      BY <1>0 DEF Frame, tail
    <3>2. /\ long_wait_index' = [long_wait_index EXCEPT ![l] = tail]
          /\ UNCHANGED <<free_count, draining, panicked, use>>
      BY <1>0, <1>1 DEF Push
    <3>. QED
      BY <1>0, <3>1, <3>2 DEF LongTypes
  <2>. QED
    BY <2>1, <2>2, <2>3 DEF LongInv
<1>2. ASSUME NEW l \in Locks, RemoveLong(l) PROVE LongInv'
  BY <1>2, RemoveLongInv
<1>3. CASE Pop
  <2>1. Frame' /\ Grown'
    BY <1>0, <1>3, PopGrown
  <2>2. LongIndexed'
    BY <1>3, <2>1, PopIndexed
  <2>3. LongTypes'
    <3>1. draining' \in BOOLEAN
      BY <1>0, <1>3 DEF Pop, LongTypes
    <3>2. long_wait_index' \in [Locks -> {NIL} \cup (Nodes \X Nat)]
      BY <1>0, <1>3 DEF Pop, LongTypes
    <3>. QED
      BY <1>0, <1>3, <3>1, <3>2 DEF LongTypes, Pop
  <2>. QED
    BY <2>1, <2>2, <2>3 DEF LongInv
<1>4. CASE Reset
  BY <1>4, ResetLong
<1>5. CASE Restructuring
  BY <1>5, RestructuringLong
<1>6. CASE UNCHANGED vars
  BY <1>6 DEF vars, head, tail, longs, LongInv, Frame, Grown, LongTypes, LongIndexed, SlotsClean,
              Live, Window, Slots, At
<1>. QED
  BY <1>0, <1>1, <1>2, <1>3, <1>4, <1>5, <1>6
     DEF Next, PopRight, Peek, Rellac, Resize, Iter

\* A new long queue satisfies its invariant.
LEMMA LongInit == Init /\ use = "long" => LongInv
<1>. SUFFICES ASSUME Init, use = "long" PROVE LongInv
  OBVIOUS
<1>. USE QueueConstants
<1>1. QueueInv
  BY InitInv
<1>2. Frame /\ Shape /\ Ends /\ Rest
  BY <1>1, ShortFrame, InvGives
<1>3. Grown
  <2>1. node_index = 0 /\ tail_node_index = 0
    BY DEF Init
  <2>. QED
    BY <1>2, <2>1 DEF Shape, Grown, Nodes
<1>4. LongTypes
  BY <1>2 DEF Rest, LongTypes
<1>5. LongIndexed
  <2>1. ASSUME NEW s \in Window PROVE FALSE
    <3>1. PICK n \in Nat, k \in Nat : s = <<n, k>>
      BY WindowFinite DEF Pairs
    <3>2. Between(n, k)
      BY <1>2, <3>1, FrameWindow
    <3>. QED
      BY <3>2 DEF Between, Init
  <2>2. Window = {} /\ Live = {}
    BY <2>1, WindowSlots
  <2>3. Cardinality(Window \ Live) = 0
    BY <2>2, FS_EmptySet
  <2>4. ASSUME NEW s \in Slots PROVE At(s) = NIL
    <3>1. PICK n \in Nat, k \in Nat : s = <<n, k>>
      BY SlotsFinite DEF Pairs
    <3>2. n \in Nodes /\ k < Len(queues[n])
      BY <1>2, <3>1, FrameSlots
    <3>3. queues[n] = Node(base_queue_size)
      <4>1. queues[n] = Node(base_queue_size) \/ queues[n] = <<>>
        BY <3>2 DEF Init
      <4>. QED
        BY <3>2, <4>1
    <3>4. k + 1 \in 1..base_queue_size
      <4>1. Len(Node(base_queue_size)) = base_queue_size
        BY NodeFacts
      <4>. QED
        BY <3>2, <3>3, <4>1
    <3>. QED
      BY <3>1, <3>3, <3>4 DEF At, Node
  <2>. QED
    BY <2>2, <2>3, <2>4 DEF LongIndexed, SlotsClean, Init
<1>. QED
  BY <1>2, <1>3, <1>4, <1>5 DEF LongInv

\* In a long queue every waiting lock is in the slot its long_wait_index names,
\* through pushes, removals, restructuring, draining and resets, so that
\* RemoveLong empties the right one; and head and tail stay slots. It holds until
\* Reset indexes `queues` out of range, which the code does at last (panicked).
\* db.go makes these queues with two base nodes; with more, a Reset after a
\* restructuring could double a queue_size of 0.
THEOREM LongWaitsIndexed ==
  ASSUME base_node_size <= 2
  PROVE  Spec => [](use = "long" /\ ~panicked => LongIndexed /\ InRange)
<1>. DEFINE J == use = "long" => panicked = TRUE \/ LongInv
<1>1. Init => J
  BY LongInit
<1>2. J /\ [Next]_vars => J'
  <2>. SUFFICES ASSUME J, [Next]_vars, use' = "long" PROVE panicked' = TRUE \/ LongInv'
    OBVIOUS
  <2>1. use = "long"
    BY UseKept
  <2>2. CASE panicked = TRUE
    BY <2>2 DEF Next, vars
  <2>3. CASE LongInv
    BY <2>3, LongStep
  <2>. QED
    BY <2>1, <2>2, <2>3
<1>3. J => (use = "long" /\ ~panicked => LongIndexed /\ InRange)
  <2>. SUFFICES ASSUME LongInv PROVE LongIndexed /\ InRange
    OBVIOUS
  <2>1. Frame /\ panicked = FALSE
    BY DEF LongInv, LongTypes
  <2>2. /\ head_node_index \in Nat /\ tail_node_index \in Nat
        /\ head_queue_index \in Nat /\ tail_queue_index \in Nat
    BY <2>1, QueueConstants DEF Frame, Nodes
  <2>3. head \in Slots /\ tail \in Slots
    BY <2>1, <2>2, FrameSlots DEF Frame, head, tail
  <2>4. ~Before(tail, head)
    BY <2>1, <2>2 DEF Before, Frame, head, tail
  <2>. QED
    BY <2>1, <2>3, <2>4 DEF LongInv, InRange
<1>. QED
  BY <1>1, <1>2, <1>3, PTL DEF Spec

-----------------------------------------------------------------------------
\* Short queues keep nothing they handed out, action by action.
LEMMA CleanPush ==
  ASSUME QueueInv, SlotsClean, NEW l \in Locks, Push(l) PROVE SlotsClean'
<1>1. Frame /\ Frame'
  BY PushInv, ShortFrame, ShortFrameNext
<1>2. PICK t \in Pairs :
        /\ Window' = Window \cup {t}
        /\ \A s \in Slots' : s # t => At(s)' = NIL \/ (s \in Slots /\ At(s)' = At(s))
  BY <1>1, PushSlots
<1>. QED
  BY <1>2 DEF SlotsClean

\* Pop and PopRight: the slot that leaves the window is emptied.
LEMMA CleanPops ==
  ASSUME QueueInv, SlotsClean, Pop \/ PopRight PROVE SlotsClean'
<1>1. CASE Empty
  <2>1. UNCHANGED <<queues, head_node_index, head_queue_index, tail_node_index, tail_queue_index>>
    BY <1>1 DEF Pop, PopRight, head, tail
  <2>. QED
    BY <2>1 DEF SlotsClean, Window, Slots, At, head, tail
<1>2. CASE ~Empty
  <2>1. PICK h \in Pairs :
          /\ Window = Window' \cup {h} /\ Slots' = Slots /\ At(h)' = NIL
          /\ \A s \in Slots : s # h => At(s)' = At(s)
    <3>1. CASE Pop
      <4>1. Frame /\ Frame'
        BY <3>1, PopInv, ShortFrame, ShortFrameNext
      <4>. QED
        BY <1>2, <3>1, <4>1, PopSlots
    <3>2. CASE PopRight
      BY <1>2, <3>2, PopRightSlots
    <3>. QED
      BY <3>1, <3>2
  <2>2. ASSUME NEW s \in Slots', s \notin Window' PROVE At(s)' = NIL
    BY <2>1, <2>2 DEF SlotsClean
  <2>. QED
    BY <2>2 DEF SlotsClean
<1>. QED
  BY <1>1, <1>2

\* Nodes that are given back or keep slots that are all empty.
LEMMA CleanReset ==
  ASSUME QueueInv, QueueInv', NEW qs,
         \A n \in Nodes : queues'[n] = <<>> \/ queues'[n] = qs[n],
         \A n \in Nodes, k \in Nat : k < Len(qs[n]) => qs[n][k + 1] = NIL
  PROVE  SlotsClean'
<1>1. Frame'
  BY ShortFrameNext
<1>2. ASSUME NEW s \in Slots' PROVE At(s)' = NIL
  <2>1. PICK n \in Nat, k \in Nat : s = <<n, k>>
    BY SlotsFiniteNext DEF Pairs
  <2>2. n \in Nodes /\ k < Len(queues'[n])
    BY <1>1, <2>1, FrameSlotsNext
  <2>3. queues'[n] = qs[n]
    BY <2>2
  <2>. QED
    BY <2>1, <2>2, <2>3 DEF At
<1>. QED
  BY <1>2 DEF SlotsClean

\* An empty queue has empty slots only.
LEMMA EmptySlots ==
  ASSUME QueueInv, SlotsClean, Empty, NEW n \in Nodes, NEW k \in Nat, k < Len(queues[n])
  PROVE  queues[n][k + 1] = NIL
<1>1. Frame /\ Ends /\ n \in Nat
  BY ShortFrame, InvParts, QueueConstants DEF Nodes
<1>2. <<n, k>> \in Slots
  BY <1>1, FrameSlots
<1>3. ~Between(n, k)
  BY <1>1, EmptyIs DEF Between, Ends
<1>4. <<n, k>> \notin Window
  BY <1>1, <1>3, FrameWindow
<1>. QED
  BY <1>2, <1>4 DEF SlotsClean, At

\* Resize moves empty slots along with full ones.
LEMMA CleanResize ==
  ASSUME QueueInv, SlotsClean, Resize PROVE SlotsClean'
<1>. USE QueueConstants
<1>1. PICK M, H, T \in Nat :
        /\ H = head_node_index /\ T = tail_node_index
        /\ base_node_size < H /\ M = H - base_node_size
        /\ \A n \in Nat : base_node_size <= n /\ n + M <= T =>
             n \in Nodes /\ n + M \in Nodes /\ queues'[n] = queues[n + M]
        /\ \A n \in Nodes : n < base_node_size => queues'[n] = queues[n]
        /\ \A n \in Nodes : base_node_size <= n /\ n + M > T =>
             queues'[n] = <<>> \/ (n > T /\ queues'[n] = queues[n])
        /\ \A n, k \in Nat : <<n, k>> \in Window' <=> <<n + M, k>> \in Window
  BY ResizeMoves
<1>2. Frame /\ Frame'
  BY ResizeInv, ShortFrame, ShortFrameNext
<1>3. ASSUME NEW s \in Slots', s \notin Window' PROVE At(s)' = NIL
  <2>1. PICK n \in Nat, k \in Nat : s = <<n, k>>
    BY SlotsFiniteNext DEF Pairs
  <2>2. n \in Nodes /\ k < Len(queues'[n])
    BY <1>2, <2>1, FrameSlotsNext
  <2>3. PICK m \in Nat : m \in Nodes /\ queues'[n] = queues[m] /\ <<m, k>> \notin Window
    <3>1. CASE n < base_node_size
      <4>1. ~Between(n, k)
        BY <1>1, <3>1 DEF Between
      <4>2. queues'[n] = queues[n]
        BY <1>1, <2>2, <3>1
      <4>3. <<n, k>> \notin Window
        BY <1>2, <2>1, <4>1, FrameWindow
      <4>. QED
        BY <2>2, <4>2, <4>3
    <3>2. CASE base_node_size <= n /\ n + M <= T
      <4>1. PICK m \in Nat : m = n + M
        BY <2>1
      <4>2. m \in Nodes /\ queues'[n] = queues[m]
        BY <1>1, <3>2, <4>1
      <4>3. <<n, k>> \notin Window'
        BY <1>3, <2>1
      <4>4. <<n, k>> \in Window' <=> <<n + M, k>> \in Window
        BY <1>1
      <4>5. <<m, k>> \notin Window
        BY <4>1, <4>3, <4>4
      <4>. QED
        BY <4>2, <4>5
    <3>3. CASE base_node_size <= n /\ n + M > T
      <4>1. n > T /\ queues'[n] = queues[n]
        BY <1>1, <2>2, <3>3
      <4>2. ~Between(n, k)
        BY <1>1, <4>1 DEF Between
      <4>. QED
        BY <1>2, <2>2, <4>1, <4>2, FrameWindow
    <3>4. \/ n < base_node_size
          \/ base_node_size <= n /\ n + M <= T
          \/ base_node_size <= n /\ n + M > T
      OBVIOUS
    <3>. QED
      BY <3>1, <3>2, <3>3, <3>4
  <2>4. <<m, k>> \in Slots
    BY <1>2, <2>2, <2>3, FrameSlots
  <2>5. At(<<m, k>>) = NIL
    BY <2>3, <2>4 DEF SlotsClean
  <2>. QED
    BY <2>1, <2>3, <2>5 DEF At
<1>. QED
  BY <1>3 DEF SlotsClean

\* The millisecond timers empty every slot they take, and take them all.
LEMMA CleanIter ==
  ASSUME QueueInv, QueueInv', MilliHead, SlotsClean, Iter PROVE SlotsClean'
<1>. USE QueueConstants
<1>1. Frame
  BY ShortFrame
<1>2. head_node_index = 0
  BY DEF Iter, MilliHead
<1>3. PICK taken, qs :
        /\ taken = UNION {IterNodeQueues(i) : i \in 0..(tail_node_index - head_node_index)}
        /\ qs = [n \in Nodes |-> [k \in DOMAIN queues[n] |->
                   IF <<n, k - 1>> \in taken THEN NIL ELSE queues[n][k]]]
        /\ ResetQueue(qs)
  BY DEF Iter
<1>4. taken = Window
  BY <1>2, <1>3, TakenIsWindow
<1>5. Truncate(qs, base_node_size)
  <2>1. ~(node_index >= node_size)
    BY InvParts DEF Shape, Nodes
  <2>. QED
    BY <1>3, <2>1 DEF ResetQueue
<1>6. ASSUME NEW n \in Nodes, NEW k \in Nat, k < Len(qs[n]) PROVE qs[n][k + 1] = NIL
  <2>1. n \in Nat /\ queues[n] \in Seq(Entries)
    BY <1>1 DEF Nodes, Frame
  <2>2. PICK L \in Nat : L = Len(queues[n]) /\ DOMAIN queues[n] = 1..L
    BY <2>1
  <2>3. qs[n] = [j \in 1..L |-> IF <<n, j - 1>> \in Window THEN NIL ELSE queues[n][j]]
    BY <1>3, <1>4, <2>2
  <2>4. Len(qs[n]) = L
    BY <2>3
  <2>5. PICK j \in 1..L : j = k + 1 /\ j - 1 = k
    BY <1>6, <2>2, <2>4
  <2>6. <<n, k>> \in Slots
    BY <1>1, <1>6, <2>1, <2>2, <2>4, FrameSlots
  <2>7. <<n, k>> \notin Window => queues[n][j] = NIL
    <3>1. <<n, k>> \notin Window => At(<<n, k>>) = NIL
      BY <2>6 DEF SlotsClean
    <3>. QED
      BY <2>5, <3>1 DEF At
  <2>. QED
    BY <2>3, <2>5, <2>7
<1>7. \A n \in Nodes : queues'[n] = <<>> \/ queues'[n] = qs[n]
  BY <1>5 DEF Truncate
<1>. QED
  BY <1>6, <1>7, CleanReset

\* Every step of a queue that is not a long queue leaves the slots it hands out empty.
LEMMA CleanStep ==
  ASSUME QueueInv, MilliHead, SlotsClean, use # "long", [Next]_vars PROVE SlotsClean'
<1>0. QueueInv'
  BY QueueStep
<1>1. ASSUME NEW l \in Locks, Push(l) PROVE SlotsClean'
  BY <1>1, CleanPush
<1>2. CASE Pop \/ PopRight
  BY <1>2, CleanPops
<1>3. CASE Peek \/ UNCHANGED vars
  <2>1. UNCHANGED <<queues, head_node_index, head_queue_index, tail_node_index, tail_queue_index>>
    BY <1>3 DEF Peek, vars, head, tail
  <2>. QED
    BY <2>1 DEF SlotsClean, Window, Slots, At, head, tail
<1>4. CASE Reset \/ Rellac
  <2>1. \A n \in Nodes : queues'[n] = <<>> \/ queues'[n] = queues[n]
    <3>1. CASE Reset
      <4>1. ~(node_index >= node_size)
        BY InvParts, QueueConstants DEF Shape, Nodes
      <4>. QED
        BY <3>1, <4>1 DEF Reset, ResetQueue, Truncate
    <3>2. CASE Rellac
      BY <3>2 DEF Rellac, Truncate
    <3>. QED
      BY <1>4, <3>1, <3>2
  <2>2. Empty
    BY <1>4 DEF Reset, Rellac
  <2>3. \A n \in Nodes, k \in Nat : k < Len(queues[n]) => queues[n][k + 1] = NIL
    BY <2>2, EmptySlots
  <2>. QED
    BY <1>0, <2>1, <2>3, CleanReset
<1>5. CASE Resize
  BY <1>5, CleanResize
<1>6. CASE Iter
  BY <1>0, <1>6, CleanIter
<1>. QED
  BY <1>1, <1>2, <1>3, <1>4, <1>5, <1>6 DEF Next, RemoveLong, Restructuring

\* A new queue has one node, which is empty.
LEMMA CleanInit == Init => SlotsClean
<1>. SUFFICES ASSUME Init PROVE SlotsClean
  OBVIOUS
<1>1. Frame
  BY InitInv, ShortFrame
<1>2. ASSUME NEW s \in Slots PROVE At(s) = NIL
  <2>1. PICK n \in Nat, k \in Nat : s = <<n, k>>
    BY SlotsFinite DEF Pairs
  <2>2. n \in Nodes /\ k < Len(queues[n])
    BY <1>1, <2>1, FrameSlots
  <2>3. queues[n] = Node(base_queue_size)
    <3>1. queues[n] = Node(base_queue_size) \/ queues[n] = <<>>
      BY <2>2 DEF Init
    <3>. QED
      BY <2>2, <3>1
  <2>4. k + 1 \in 1..base_queue_size
    <3>1. Len(Node(base_queue_size)) = base_queue_size
      BY NodeFacts, QueueConstants
    <3>. QED
      BY <2>2, <2>3, <3>1, QueueConstants
  <2>. QED
    BY <2>1, <2>3, <2>4 DEF At, Node
<1>. QED
  BY <1>2 DEF SlotsClean

\* Outside the window from head to tail every slot of a short queue is nil: Pop,
\* PopRight and the millisecond loop clear what they hand out and Resize and
\* Reset bring nothing back, so a recycled object is never found again.
THEOREM HandedOutNotKept ==
  Spec => [](use # "long" => SlotsClean)
<1>. DEFINE J == use # "long" => QueueInv /\ MilliHead /\ SlotsClean
<1>1. Init => J
  BY InitInv, CleanInit DEF Init, MilliHead
<1>2. J /\ [Next]_vars => J'
  BY UseKept, QueueStep, MilliHeadStep, CleanStep
<1>. QED
  BY <1>1, <1>2, PTL DEF Spec
=============================================================================
