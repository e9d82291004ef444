------------------------------- MODULE Deque -------------------------------
(* What a LockQueue promises its callers: a sequence of locks with holes,    *)
(* where a lock was taken out of the middle.                                 *)
EXTENDS Naturals, Sequences

CONSTANTS Locks, NIL

VARIABLES items, result   \* result: what the last operation handed out

Init == items = <<>> /\ result = NIL

Push(l) == items' = Append(items, l) /\ UNCHANGED result

Pop == items # <<>> /\ result' = Head(items) /\ items' = Tail(items)

PopRight ==
  /\ items # <<>>
  /\ result' = items[Len(items)]
  /\ items' = SubSeq(items, 1, Len(items) - 1)

Peek == items # <<>> /\ result' = Head(items) /\ UNCHANGED items

NothingThere == items = <<>> /\ result' = NIL /\ UNCHANGED items

Remove(i) == items' = [items EXCEPT ![i] = NIL] /\ UNCHANGED result

Compact == items' = SelectSeq(items, LAMBDA l : l # NIL) /\ UNCHANGED result

TakeAll == result' = items /\ items' = <<>>

Next ==
  \/ \E l \in Locks : Push(l)
  \/ Pop \/ PopRight \/ Peek \/ NothingThere \/ Compact \/ TakeAll
  \/ \E i \in 1..Len(items) : Remove(i)

Spec == Init /\ [][Next]_<<items, result>>
=============================================================================
