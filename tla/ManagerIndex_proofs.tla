------------------------ MODULE ManagerIndex_proofs ------------------------
(* The index of lock managers, for any number of keys, managers and          *)
(* goroutines, until one of the races named in ManagerIndex is lost.         *)
EXTENDS ManagerIndex, FiniteSetTheorems, TLAPS

FreeManagers == {free_lock_managers[i] : i \in DOMAIN free_lock_managers}

Linked(m) == fast_manager = m \/ \E k \in Keys : locks[k] = m

\* The index leads from key k to manager m.
Leads(k, m) == (fast_manager = m /\ lock_key[m] = k) \/ locks[k] = m

\* Goroutines that have linked a manager and not yet counted it, and managers
\* that are linked or unlinked and still counted.
Uncounted == {g \in Goroutines : at[g] \in {"mapped", "count"}}
Counted ==
  {m \in Managers : Linked(m) \/ \E g \in Goroutines : at[g] = "discount" /\ manager[g] = m}

Inside == {"locked", "remove", "clear", "delete", "discount", "recycle"}
Claiming == {"take", "publish"}
Holding == {"publish", "discount", "recycle"}

\* The lock of the slot: one goroutine is filling it, or it is filled, or the
\* manager in it is being cleared.
SlotInv ==
  /\ \A g \in Goroutines : at[g] \in Claiming =>
       /\ fast_lock = 1 /\ fast_manager = NIL /\ locks[Key(g)] = NIL
       /\ \A h \in Goroutines : at[h] \in Claiming => g = h
  /\ \A g \in Goroutines : at[g] = "clear" => fast_lock = 0 /\ fast_manager = manager[g]
  /\ fast_lock = 0 /\ fast_manager # NIL => \E g \in Goroutines : at[g] = "clear"

\* One manager per key, and the manager knows it once it is counted.
SlotKey ==
  fast_manager # NIL =>
    /\ lock_key[fast_manager] \in Keys /\ locks[lock_key[fast_manager]] = NIL
    /\ fast_key_value[fast_manager]

MapKey(k) ==
  /\ fast_manager # locks[k] /\ \A j \in Keys : locks[j] = locks[k] => j = k
  /\ \/ lock_key[locks[k]] = k /\ fast_key_value[locks[k]]
     \/ \E g \in Goroutines : at[g] = "mapped" /\ manager[g] = locks[k]

LinkedMark(m) == IF Linked(m) THEN ~freed[m] ELSE ~fast_key_value[m]

KeyInv ==
  /\ SlotKey
  /\ \A k \in Keys : locks[k] # NIL => MapKey(k)
  /\ \A m \in Managers : LinkedMark(m)
  /\ \A m \in Managers : held[m] # NIL => Leads(held[m], m)

\* A manager's glock is held by the goroutine that is inside.
GlockInv ==
  \A g \in Goroutines : at[g] \in Inside => manager[g] \in Managers /\ glock[manager[g]] = g

\* What a goroutine knows of the manager it has.
FoundAt(g) ==
  /\ manager[g] \in Managers
  /\ Leads(Key(g), manager[g]) \/ (freed[manager[g]] /\ ~Linked(manager[g]))

MappedAt(g) ==
  /\ manager[g] \in Managers /\ locks[Key(g)] = manager[g] /\ ~fast_key_value[manager[g]]
  /\ \A h \in Goroutines : at[h] = "mapped" /\ manager[h] = manager[g] => h = g

DeleteAt(g) ==
  /\ locks[Key(g)] = manager[g] /\ lock_key[manager[g]] = Key(g)
  /\ held[manager[g]] = NIL /\ fast_key_value[manager[g]]

InsideAt(g) ==
  /\ at[g] = "locked" /\ (command[g].op = "lock" \/ held[manager[g]] # NIL) =>
       Leads(Key(g), manager[g])
  /\ at[g] = "remove" => Leads(Key(g), manager[g]) /\ held[manager[g]] = NIL
  /\ at[g] = "clear" => held[manager[g]] = NIL
  /\ at[g] = "delete" => DeleteAt(g)
  /\ at[g] \in {"discount", "recycle"} => freed[manager[g]]

FoundInv ==
  \A g \in Goroutines :
    /\ at[g] \in {"count", "glock"} => FoundAt(g)
    /\ at[g] = "mapped" => MappedAt(g)
    /\ InsideAt(g)

\* A manager is free once, in the index, or with one goroutine.
FreeOnce ==
  \A i, j \in DOMAIN free_lock_managers : free_lock_managers[i] = free_lock_managers[j] => i = j

HoldingAt(g) ==
  /\ manager[g] \in Managers /\ ~Linked(manager[g]) /\ manager[g] \notin FreeManagers
  /\ \A h \in Goroutines : at[h] \in Holding /\ manager[h] = manager[g] => h = g

PublishAt(g) ==
  \A h \in Goroutines : at[h] \in {"mapped", "count", "glock"} => manager[g] # manager[h]

FreeInv ==
  /\ FreeOnce
  /\ \A m \in FreeManagers : ~Linked(m)
  /\ \A g \in Goroutines : at[g] \in Holding => HoldingAt(g)
  /\ \A g \in Goroutines : at[g] = "publish" => PublishAt(g)

\* The slot's count, and why it does not go below what TypeOK says.
CountInv ==
  /\ fast_count + Cardinality(Uncounted) = Cardinality(Counted)
  /\ Uncounted = Goroutines => \E m \in Managers : Linked(m)

Safe == SlotInv /\ KeyInv /\ GlockInv /\ FoundInv /\ FreeInv /\ CountInv

IndexInv == TypeOK /\ (~raced => Safe)

\* One goroutine at a time has the glock of a manager.
LEMMA OneInside ==
  ASSUME GlockInv, NEW g \in Goroutines, NEW h \in Goroutines,
         at[g] \in Inside, at[h] \in Inside, manager[g] = manager[h]
  PROVE  g = h
BY DEF GlockInv

\* Taking the first free manager.
LEMMA TakenFirst ==
  ASSUME TypeOK, FreeOnce, free_lock_managers # <<>>,
         free_lock_managers' = Tail(free_lock_managers)
  PROVE  /\ Head(free_lock_managers) \in Managers
         /\ Head(free_lock_managers) \in FreeManagers
         /\ FreeManagers' = FreeManagers \ {Head(free_lock_managers)}
         /\ FreeOnce'
<1>. DEFINE f == free_lock_managers
<1>1. f \in Seq(Managers) /\ Len(f) \in Nat /\ Len(f) > 0
  BY DEF TypeOK
<1>2. DOMAIN f = 1..Len(f) /\ Head(f) = f[1]
  BY <1>1
<1>3. /\ f' \in Seq(Managers) /\ Len(f') = Len(f) - 1 /\ DOMAIN f' = 1..(Len(f) - 1)
      /\ \A i \in 1..(Len(f) - 1) : f'[i] = f[i + 1]
  BY <1>1
<1>4. FreeOnce'
  BY <1>1, <1>2, <1>3 DEF FreeOnce
<1>5. FreeManagers' \subseteq FreeManagers \ {Head(f)}
  BY <1>1, <1>2, <1>3 DEF FreeOnce, FreeManagers
<1>6. FreeManagers \ {Head(f)} \subseteq FreeManagers'
  <2>. SUFFICES ASSUME NEW i \in 1..Len(f), f[i] # f[1] PROVE f[i] \in FreeManagers'
    BY <1>2 DEF FreeManagers
  <2>1. i - 1 \in 1..(Len(f) - 1) /\ (i - 1) + 1 = i
    BY <1>1
  <2>2. f'[i - 1] = f[i]
    BY <1>3, <2>1
  <2>. QED
    BY <1>3, <2>1, <2>2 DEF FreeManagers
<1>7. Head(f) \in Managers /\ Head(f) \in FreeManagers
  <2>1. 1 \in DOMAIN f
    BY <1>1, <1>2
  <2>. QED
    BY <1>1, <1>2, <2>1 DEF FreeManagers
<1>. QED
  BY <1>4, <1>5, <1>6, <1>7

\* Giving a manager back.
LEMMA Recycled ==
  ASSUME TypeOK, FreeOnce, NEW m \in Managers, m \notin FreeManagers,
         free_lock_managers' = Append(free_lock_managers, m)
  PROVE  FreeManagers' = FreeManagers \cup {m} /\ FreeOnce'
<1>. DEFINE f == free_lock_managers
<1>1. f \in Seq(Managers) /\ Len(f) \in Nat /\ DOMAIN f = 1..Len(f)
  BY DEF TypeOK
<1>2. /\ f' \in Seq(Managers) /\ Len(f') = Len(f) + 1 /\ DOMAIN f' = 1..(Len(f) + 1)
      /\ f'[Len(f) + 1] = m /\ \A i \in 1..Len(f) : f'[i] = f[i]
  BY <1>1
<1>3. \A i \in 1..Len(f) : f[i] # m
  BY <1>1 DEF FreeManagers
<1>4. FreeOnce'
  BY <1>1, <1>2, <1>3 DEF FreeOnce
<1>5. \A i \in DOMAIN f' : i \in DOMAIN f \/ i = Len(f) + 1
  BY <1>1, <1>2
<1>6. DOMAIN f \subseteq DOMAIN f' /\ Len(f) + 1 \in DOMAIN f'
  BY <1>1, <1>2
<1>7. FreeManagers' \subseteq FreeManagers \cup {m}
  BY <1>1, <1>2, <1>5 DEF FreeManagers
<1>8. FreeManagers \cup {m} \subseteq FreeManagers'
  BY <1>1, <1>2, <1>6 DEF FreeManagers
<1>. QED
  BY <1>4, <1>7, <1>8

\* The sets that are counted are finite.
LEMMA CountsFinite ==
  /\ IsFiniteSet(Uncounted) /\ Cardinality(Uncounted) \in Nat
  /\ IsFiniteSet(Counted) /\ Cardinality(Counted) \in Nat
<1>1. Uncounted \subseteq Goroutines /\ Counted \subseteq Managers
  BY DEF Uncounted, Counted
<1>2. IsFiniteSet(Uncounted) /\ IsFiniteSet(Counted)
  BY <1>1, FS_Subset, IndexConstants
<1>. QED
  BY <1>2, FS_CardinalityType

\* A manager is linked by a goroutine that has still to count it.
LEMMA LinkedUncounted ==
  ASSUME CountInv, NEW g \in Goroutines, NEW m \in Managers, fast_count \in Int,
         Uncounted' = Uncounted \cup {g}, g \notin Uncounted,
         Counted' = Counted \cup {m}, m \notin Counted,
         fast_count' = fast_count, Linked(m)'
  PROVE  CountInv'
<1>1. Cardinality(Uncounted') = Cardinality(Uncounted) + 1
  BY CountsFinite, FS_AddElement
<1>2. Cardinality(Counted') = Cardinality(Counted) + 1
  BY CountsFinite, FS_AddElement
<1>. QED
  BY <1>1, <1>2, CountsFinite DEF CountInv

\* A manager that leaves the index stays counted until the counter is decremented.
LEMMA UnlinkedCounted ==
  ASSUME CountInv, NEW g \in Goroutines, g \notin Uncounted',
         Uncounted' = Uncounted, Counted' = Counted, fast_count' = fast_count
  PROVE  CountInv'
BY DEF CountInv

-----------------------------------------------------------------------------
\* A command is taken up.
LEMMA BeginSafe ==
  ASSUME TypeOK, Safe, NEW g \in Goroutines, Begin(g) PROVE Safe'
<1>. USE IndexConstants DEF Safe, TypeOK, Begin, Goto, Gets, Key, slot, managers
<1>1. SlotInv'
  BY DEF SlotInv, Claiming
<1>2. KeyInv'
  <2>1. SlotKey'
    BY DEF KeyInv, SlotKey
  <2>2. ASSUME NEW k \in Keys, locks'[k] # NIL PROVE MapKey(k)'
    BY <2>2 DEF KeyInv, MapKey
  <2>3. ASSUME NEW m \in Managers PROVE LinkedMark(m)'
    BY <2>3 DEF KeyInv, LinkedMark, Linked
  <2>4. ASSUME NEW m \in Managers, held'[m] # NIL PROVE Leads(held[m], m)'
    BY <2>4 DEF KeyInv, Leads
  <2>. QED
    BY <2>1, <2>2, <2>3, <2>4 DEF KeyInv
<1>3. GlockInv'
  BY DEF GlockInv, Inside
<1>4. FoundInv'
  <2>1. ASSUME NEW h \in Goroutines, at'[h] \in {"count", "glock"} PROVE FoundAt(h)'
    BY <2>1 DEF FoundInv, FoundAt, Linked, Leads
  <2>2. ASSUME NEW h \in Goroutines, at'[h] = "mapped" PROVE MappedAt(h)'
    BY <2>2 DEF FoundInv, MappedAt
  <2>3. ASSUME NEW h \in Goroutines PROVE InsideAt(h)'
    BY <2>3 DEF FoundInv, InsideAt, DeleteAt, Leads
  <2>. QED
    BY <2>1, <2>2, <2>3 DEF FoundInv
<1>5. FreeInv'
  <2>1. FreeOnce'
    BY DEF FreeInv, FreeOnce
  <2>2. ASSUME NEW m \in FreeManagers' PROVE ~Linked(m)'
    <3>1. FreeManagers' = FreeManagers
      BY DEF FreeManagers
    <3>. QED
      BY <2>2, <3>1 DEF FreeInv, Linked
  <2>3. ASSUME NEW h \in Goroutines, at'[h] \in Holding PROVE HoldingAt(h)'
    <3>1. FreeManagers' = FreeManagers
      BY DEF FreeManagers
    <3>. QED
      BY <2>3, <3>1 DEF FreeInv, HoldingAt, Linked, Holding
  <2>4. ASSUME NEW h \in Goroutines, at'[h] = "publish" PROVE PublishAt(h)'
    BY <2>4 DEF FreeInv, PublishAt
  <2>. QED
    BY <2>1, <2>2, <2>3, <2>4 DEF FreeInv
<1>6. CountInv'
  <2>1. Uncounted' = Uncounted /\ Counted' = Counted
    BY DEF Linked, Uncounted, Counted
  <2>. QED
    BY <2>1 DEF CountInv, Linked
<1>. QED
  BY <1>1, <1>2, <1>3, <1>4, <1>5, <1>6 DEF Safe

\* The count is looked at, nothing is changed.
LEMMA LoadCountSafe ==
  ASSUME TypeOK, Safe, NEW g \in Goroutines, LoadCount(g) PROVE Safe'
<1>. USE IndexConstants DEF Safe, TypeOK, LoadCount, Goto, Gets, Key, slot, managers
<1>1. SlotInv'
  BY DEF SlotInv, Claiming
<1>2. KeyInv'
  <2>1. SlotKey'
    BY DEF KeyInv, SlotKey
  <2>2. ASSUME NEW k \in Keys, locks'[k] # NIL PROVE MapKey(k)'
    BY <2>2 DEF KeyInv, MapKey
  <2>3. ASSUME NEW m \in Managers PROVE LinkedMark(m)'
    BY <2>3 DEF KeyInv, LinkedMark, Linked
  <2>4. ASSUME NEW m \in Managers, held'[m] # NIL PROVE Leads(held[m], m)'
    BY <2>4 DEF KeyInv, Leads
  <2>. QED
    BY <2>1, <2>2, <2>3, <2>4 DEF KeyInv
<1>3. GlockInv'
  BY DEF GlockInv, Inside
<1>4. FoundInv'
  <2>1. ASSUME NEW h \in Goroutines, at'[h] \in {"count", "glock"} PROVE FoundAt(h)'
    BY <2>1 DEF FoundInv, FoundAt, Linked, Leads
  <2>2. ASSUME NEW h \in Goroutines, at'[h] = "mapped" PROVE MappedAt(h)'
    BY <2>2 DEF FoundInv, MappedAt
  <2>3. ASSUME NEW h \in Goroutines PROVE InsideAt(h)'
    BY <2>3 DEF FoundInv, InsideAt, DeleteAt, Leads
  <2>. QED
    BY <2>1, <2>2, <2>3 DEF FoundInv
<1>5. FreeInv'
  <2>1. FreeOnce'
    BY DEF FreeInv, FreeOnce
  <2>2. ASSUME NEW m \in FreeManagers' PROVE ~Linked(m)'
    <3>1. FreeManagers' = FreeManagers
      BY DEF FreeManagers
    <3>. QED
      BY <2>2, <3>1 DEF FreeInv, Linked
  <2>3. ASSUME NEW h \in Goroutines, at'[h] \in Holding PROVE HoldingAt(h)'
    <3>1. FreeManagers' = FreeManagers
      BY DEF FreeManagers
    <3>. QED
      BY <2>3, <3>1 DEF FreeInv, HoldingAt, Linked, Holding
  <2>4. ASSUME NEW h \in Goroutines, at'[h] = "publish" PROVE PublishAt(h)'
    BY <2>4 DEF FreeInv, PublishAt
  <2>. QED
    BY <2>1, <2>2, <2>3, <2>4 DEF FreeInv
<1>6. CountInv'
  <2>1. Uncounted' = Uncounted /\ Counted' = Counted
    BY DEF Linked, Uncounted, Counted
  <2>. QED
    BY <2>1 DEF CountInv, Linked
<1>. QED
  BY <1>1, <1>2, <1>3, <1>4, <1>5, <1>6 DEF Safe

\* The slot is claimed when it is empty and nobody has still to clear it.
LEMMA ClaimSafe ==
  ASSUME TypeOK, Safe, NEW g \in Goroutines, Claim(g), ~raced' PROVE Safe'
<1>. USE IndexConstants DEF Safe, TypeOK, Claim, Goto, Gets, Key, slot, managers, ClaimFree, ClaimedAndMapped, ClaimedBeforeCleared
<1>1. SlotInv'
  <2>1. CASE fast_lock = 0
    <3>1. \A h \in Goroutines : at[h] \notin Claiming
      BY <2>1 DEF SlotInv
    <3>2. \A h \in Goroutines : at[h] = "clear" => manager[h] = fast_manager /\ h # g
      BY DEF SlotInv
    <3>3. \A h \in Goroutines : at[h] # "clear"
      BY <2>1, <3>2
    <3>4. fast_manager = NIL /\ locks[Key(g)] = NIL
      BY <2>1, <3>3 DEF SlotInv
    <3>. QED
      BY <2>1, <3>1, <3>3, <3>4 DEF SlotInv, Claiming
  <2>2. CASE fast_lock # 0
    BY <2>2 DEF SlotInv, Claiming
  <2>. QED
    BY <2>1, <2>2
<1>2. KeyInv'
  <2>1. SlotKey'
    BY DEF KeyInv, SlotKey
  <2>2. ASSUME NEW k \in Keys, locks'[k] # NIL PROVE MapKey(k)'
    BY <2>2 DEF KeyInv, MapKey
  <2>3. ASSUME NEW m \in Managers PROVE LinkedMark(m)'
    BY <2>3 DEF KeyInv, LinkedMark, Linked
  <2>4. ASSUME NEW m \in Managers, held'[m] # NIL PROVE Leads(held[m], m)'
    BY <2>4 DEF KeyInv, Leads
  <2>. QED
    BY <2>1, <2>2, <2>3, <2>4 DEF KeyInv
<1>3. GlockInv'
  BY DEF GlockInv, Inside
<1>4. FoundInv'
  <2>1. ASSUME NEW h \in Goroutines, at'[h] \in {"count", "glock"} PROVE FoundAt(h)'
    BY <2>1 DEF FoundInv, FoundAt, Linked, Leads
  <2>2. ASSUME NEW h \in Goroutines, at'[h] = "mapped" PROVE MappedAt(h)'
    BY <2>2 DEF FoundInv, MappedAt
  <2>3. ASSUME NEW h \in Goroutines PROVE InsideAt(h)'
    BY <2>3 DEF FoundInv, InsideAt, DeleteAt, Leads
  <2>. QED
    BY <2>1, <2>2, <2>3 DEF FoundInv
<1>5. FreeInv'
  <2>1. FreeOnce'
    BY DEF FreeInv, FreeOnce
  <2>2. ASSUME NEW m \in FreeManagers' PROVE ~Linked(m)'
    <3>1. FreeManagers' = FreeManagers
      BY DEF FreeManagers
    <3>. QED
      BY <2>2, <3>1 DEF FreeInv, Linked
  <2>3. ASSUME NEW h \in Goroutines, at'[h] \in Holding PROVE HoldingAt(h)'
    <3>1. FreeManagers' = FreeManagers
      BY DEF FreeManagers
    <3>. QED
      BY <2>3, <3>1 DEF FreeInv, HoldingAt, Linked, Holding
  <2>4. ASSUME NEW h \in Goroutines, at'[h] = "publish" PROVE PublishAt(h)'
    BY <2>4 DEF FreeInv, PublishAt
  <2>. QED
    BY <2>1, <2>2, <2>3, <2>4 DEF FreeInv
<1>6. CountInv'
  <2>1. Uncounted' = Uncounted /\ Counted' = Counted
    BY DEF Linked, Uncounted, Counted
  <2>. QED
    BY <2>1 DEF CountInv, Linked
<1>. QED
  BY <1>1, <1>2, <1>3, <1>4, <1>5, <1>6 DEF Safe

\* The manager in the slot is looked at.
LEMMA MatchSafe ==
  ASSUME TypeOK, Safe, NEW g \in Goroutines, Match(g) PROVE Safe'
<1>. USE IndexConstants DEF Safe, TypeOK, Match, Goto, Gets, Key, slot, managers
<1>1. SlotInv'
  BY DEF SlotInv, Claiming
<1>2. KeyInv'
  <2>1. SlotKey'
    BY DEF KeyInv, SlotKey
  <2>2. ASSUME NEW k \in Keys, locks'[k] # NIL PROVE MapKey(k)'
    BY <2>2 DEF KeyInv, MapKey
  <2>3. ASSUME NEW m \in Managers PROVE LinkedMark(m)'
    BY <2>3 DEF KeyInv, LinkedMark, Linked
  <2>4. ASSUME NEW m \in Managers, held'[m] # NIL PROVE Leads(held[m], m)'
    BY <2>4 DEF KeyInv, Leads
  <2>. QED
    BY <2>1, <2>2, <2>3, <2>4 DEF KeyInv
<1>3. GlockInv'
  BY DEF GlockInv, Inside
<1>4. FoundInv'
  <2>1. ASSUME NEW h \in Goroutines, at'[h] \in {"count", "glock"} PROVE FoundAt(h)'
    BY <2>1 DEF FoundInv, FoundAt, Linked, Leads
  <2>2. ASSUME NEW h \in Goroutines, at'[h] = "mapped" PROVE MappedAt(h)'
    BY <2>2 DEF FoundInv, MappedAt
  <2>3. ASSUME NEW h \in Goroutines PROVE InsideAt(h)'
    BY <2>3 DEF FoundInv, InsideAt, DeleteAt, Leads
  <2>. QED
    BY <2>1, <2>2, <2>3 DEF FoundInv
<1>5. FreeInv'
  <2>1. FreeOnce'
    BY DEF FreeInv, FreeOnce
  <2>2. ASSUME NEW m \in FreeManagers' PROVE ~Linked(m)'
    <3>1. FreeManagers' = FreeManagers
      BY DEF FreeManagers
    <3>. QED
      BY <2>2, <3>1 DEF FreeInv, Linked
  <2>3. ASSUME NEW h \in Goroutines, at'[h] \in Holding PROVE HoldingAt(h)'
    <3>1. FreeManagers' = FreeManagers
      BY DEF FreeManagers
    <3>. QED
      BY <2>3, <3>1 DEF FreeInv, HoldingAt, Linked, Holding
  <2>4. ASSUME NEW h \in Goroutines, at'[h] = "publish" PROVE PublishAt(h)'
    BY <2>4 DEF FreeInv, PublishAt
  <2>. QED
    BY <2>1, <2>2, <2>3, <2>4 DEF FreeInv
<1>6. CountInv'
  <2>1. Uncounted' = Uncounted /\ Counted' = Counted
    BY DEF Linked, Uncounted, Counted
  <2>. QED
    BY <2>1 DEF CountInv, Linked
<1>. QED
  BY <1>1, <1>2, <1>3, <1>4, <1>5, <1>6 DEF Safe

\* The manager in the slot, when it still is the one of the key.
LEMMA ReturnSafe ==
  ASSUME TypeOK, Safe, NEW g \in Goroutines, Return(g), ~raced' PROVE Safe'
<1>. USE IndexConstants DEF Safe, TypeOK, Return, Goto, Gets, Key, slot, managers, ReadTwice
<1>1. SlotInv'
  BY DEF SlotInv, Claiming
<1>2. KeyInv'
  <2>1. SlotKey'
    BY DEF KeyInv, SlotKey
  <2>2. ASSUME NEW k \in Keys, locks'[k] # NIL PROVE MapKey(k)'
    BY <2>2 DEF KeyInv, MapKey
  <2>3. ASSUME NEW m \in Managers PROVE LinkedMark(m)'
    BY <2>3 DEF KeyInv, LinkedMark, Linked
  <2>4. ASSUME NEW m \in Managers, held'[m] # NIL PROVE Leads(held[m], m)'
    BY <2>4 DEF KeyInv, Leads
  <2>. QED
    BY <2>1, <2>2, <2>3, <2>4 DEF KeyInv
<1>3. GlockInv'
  BY DEF GlockInv, Inside
<1>4. FoundInv'
  <2>1. ASSUME NEW h \in Goroutines, at'[h] \in {"count", "glock"} PROVE FoundAt(h)'
    BY <2>1 DEF FoundInv, FoundAt, Linked, Leads
  <2>2. ASSUME NEW h \in Goroutines, at'[h] = "mapped" PROVE MappedAt(h)'
    BY <2>2 DEF FoundInv, MappedAt
  <2>3. ASSUME NEW h \in Goroutines PROVE InsideAt(h)'
    BY <2>3 DEF FoundInv, InsideAt, DeleteAt, Leads
  <2>. QED
    BY <2>1, <2>2, <2>3 DEF FoundInv
<1>5. FreeInv'
  <2>1. FreeOnce'
    BY DEF FreeInv, FreeOnce
  <2>2. ASSUME NEW m \in FreeManagers' PROVE ~Linked(m)'
    <3>1. FreeManagers' = FreeManagers
      BY DEF FreeManagers
    <3>. QED
      BY <2>2, <3>1 DEF FreeInv, Linked
  <2>3. ASSUME NEW h \in Goroutines, at'[h] \in Holding PROVE HoldingAt(h)'
    <3>1. FreeManagers' = FreeManagers
      BY DEF FreeManagers
    <3>. QED
      BY <2>3, <3>1 DEF FreeInv, HoldingAt, Linked, Holding
  <2>4. ASSUME NEW h \in Goroutines, at'[h] = "publish" PROVE PublishAt(h)'
    <3>1. h # g /\ at[h] = "publish" /\ manager'[h] = manager[h]
      BY <2>4
    <3>2. manager[h] # fast_manager
      BY <3>1 DEF FreeInv, HoldingAt, Holding, Linked
    <3>. QED
      BY <3>1, <3>2 DEF FreeInv, PublishAt
  <2>. QED
    BY <2>1, <2>2, <2>3, <2>4 DEF FreeInv
<1>6. CountInv'
  <2>1. Uncounted' = Uncounted /\ Counted' = Counted
    BY DEF Linked, Uncounted, Counted
  <2>. QED
    BY <2>1 DEF CountInv, Linked
<1>. QED
  BY <1>1, <1>2, <1>3, <1>4, <1>5, <1>6 DEF Safe

\* A manager is taken for the slot.
LEMMA TakeSafe ==
  ASSUME TypeOK, Safe, NEW g \in Goroutines, Take(g), ~raced' PROVE Safe'
<1>. USE IndexConstants DEF Safe, TypeOK, Take, Goto, Gets, Key, slot, managers, TakeManager, TakenWhileFound
<1>0. /\ Head(free_lock_managers) \in Managers
      /\ Head(free_lock_managers) \in FreeManagers
      /\ FreeManagers' = FreeManagers \ {Head(free_lock_managers)}
      /\ FreeOnce'
  BY TakenFirst DEF FreeInv
<1>1. SlotInv'
  BY DEF SlotInv, Claiming
<1>2. KeyInv'
  <2>1. SlotKey'
    BY DEF KeyInv, SlotKey
  <2>2. ASSUME NEW k \in Keys, locks'[k] # NIL PROVE MapKey(k)'
    BY <2>2 DEF KeyInv, MapKey
  <2>3. ASSUME NEW m \in Managers PROVE LinkedMark(m)'
    BY <2>3 DEF KeyInv, LinkedMark, Linked
  <2>4. ASSUME NEW m \in Managers, held'[m] # NIL PROVE Leads(held[m], m)'
    BY <2>4 DEF KeyInv, Leads
  <2>. QED
    BY <2>1, <2>2, <2>3, <2>4 DEF KeyInv
<1>3. GlockInv'
  BY DEF GlockInv, Inside
<1>4. FoundInv'
  <2>1. ASSUME NEW h \in Goroutines, at'[h] \in {"count", "glock"} PROVE FoundAt(h)'
    BY <2>1 DEF FoundInv, FoundAt, Linked, Leads
  <2>2. ASSUME NEW h \in Goroutines, at'[h] = "mapped" PROVE MappedAt(h)'
    BY <2>2 DEF FoundInv, MappedAt
  <2>3. ASSUME NEW h \in Goroutines PROVE InsideAt(h)'
    BY <2>3 DEF FoundInv, InsideAt, DeleteAt, Leads
  <2>. QED
    BY <2>1, <2>2, <2>3 DEF FoundInv
<1>5. FreeInv'
  <2>1. FreeOnce'
    BY <1>0
  <2>2. ASSUME NEW m \in FreeManagers' PROVE ~Linked(m)'
    BY <1>0, <2>2 DEF FreeInv, Linked
  <2>3. ASSUME NEW h \in Goroutines, at'[h] \in Holding PROVE HoldingAt(h)'
    BY <1>0, <2>3 DEF FreeInv, HoldingAt, Linked, Holding
  <2>4. ASSUME NEW h \in Goroutines, at'[h] = "publish" PROVE PublishAt(h)'
    BY <2>4 DEF FreeInv, PublishAt
  <2>. QED
    BY <2>1, <2>2, <2>3, <2>4 DEF FreeInv
<1>6. CountInv'
  <2>1. Uncounted' = Uncounted /\ Counted' = Counted
    BY DEF Linked, Uncounted, Counted
  <2>. QED
    BY <2>1 DEF CountInv, Linked
<1>. QED
  BY <1>1, <1>2, <1>3, <1>4, <1>5, <1>6 DEF Safe

\* The manager gets its key and is put into the slot.
LEMMA PublishSafe ==
  ASSUME TypeOK, Safe, NEW g \in Goroutines, Publish(g) PROVE Safe'
<1>. USE IndexConstants DEF Safe
<1>. DEFINE m == manager[g]
<1>1. /\ m \in Managers /\ at[g] = "publish" /\ Key(g) \in Keys
      /\ fast_lock = 1 /\ fast_manager = NIL /\ locks[Key(g)] = NIL
      /\ ~Linked(m) /\ m \notin FreeManagers
  BY DEF Publish, TypeOK, SlotInv, FreeInv, HoldingAt, Claiming, Holding, Key, Commands
<1>2. /\ \A h \in Goroutines \ {g} : at[h] \notin Claiming /\ at[h] # "clear"
      /\ \A h \in Goroutines \ {g} : at[h] \in Holding => manager[h] # m
      /\ \A h \in Goroutines : at[h] \in {"mapped", "count", "glock"} => manager[h] # m
  BY <1>1 DEF SlotInv, FreeInv, HoldingAt, PublishAt, Claiming, Holding
<1>3. /\ fast_manager' = m /\ UNCHANGED <<fast_lock, fast_count, locks, free_lock_managers>>
      /\ UNCHANGED <<held, glock, command, manager>>
      /\ at'[g] = "count" /\ \A h \in Goroutines \ {g} : at'[h] = at[h]
      /\ lock_key'[m] = Key(g) /\ freed'[m] = FALSE /\ fast_key_value'[m] = TRUE
      /\ \A n \in Managers \ {m} : /\ lock_key'[n] = lock_key[n] /\ freed'[n] = freed[n]
                                    /\ fast_key_value'[n] = fast_key_value[n]
  BY <1>1 DEF Publish, TypeOK, Goto
<1>4. \A n \in Managers : Linked(n)' <=> n = m \/ Linked(n)
  BY <1>1, <1>3 DEF Linked
<1>5. \A n \in Managers : \A k : Leads(k, n) => Leads(k, n)'
  BY <1>1, <1>3 DEF Leads
<1>6. \A k \in Keys : locks[k] # NIL => locks[k] \in Managers /\ locks[k] # m
  BY <1>1 DEF TypeOK, Linked
<1>7. SlotInv'
  BY <1>1, <1>2, <1>3 DEF SlotInv, Claiming
<1>8. KeyInv'
  <2>1. SlotKey'
    BY <1>1, <1>3 DEF SlotKey
  <2>2. ASSUME NEW k \in Keys, locks'[k] # NIL PROVE MapKey(k)'
    BY <1>1, <1>3, <1>6, <2>2 DEF KeyInv, MapKey
  <2>3. ASSUME NEW n \in Managers PROVE LinkedMark(n)'
    BY <1>3, <1>4 DEF KeyInv, LinkedMark
  <2>4. ASSUME NEW n \in Managers, held'[n] # NIL PROVE Leads(held[n], n)'
    BY <1>3, <1>5, <2>4 DEF KeyInv, Leads
  <2>. QED
    BY <2>1, <2>2, <2>3, <2>4 DEF KeyInv
<1>9. GlockInv'
  BY <1>1, <1>3 DEF GlockInv, Inside
<1>10. FoundInv'
  <2>0. ASSUME NEW h \in Goroutines PROVE Key(h)' = Key(h)
    BY <1>3 DEF Key
  <2>1. ASSUME NEW h \in Goroutines, at'[h] \in {"count", "glock"} PROVE FoundAt(h)'
    <3>1. CASE h = g
      BY <1>1, <1>3, <3>1, <2>0 DEF FoundAt, Leads
    <3>2. CASE h # g
      <4>1. FoundAt(h) /\ manager[h] # m
        BY <1>2, <1>3, <2>1, <3>2 DEF FoundInv
      <4>. QED
        BY <1>3, <1>4, <1>5, <2>0, <4>1 DEF FoundAt, Leads
    <3>. QED
      BY <3>1, <3>2
  <2>2. ASSUME NEW h \in Goroutines, at'[h] = "mapped" PROVE MappedAt(h)'
    BY <1>2, <1>3, <2>0, <2>2 DEF FoundInv, MappedAt
  <2>3. ASSUME NEW h \in Goroutines PROVE InsideAt(h)'
    <3>1. CASE h = g \/ at[h] \notin Inside
      BY <1>1, <1>3, <3>1 DEF InsideAt, Inside
    <3>2. CASE h # g /\ at[h] \in Inside /\ manager[h] # m
      <4>1. manager[h] \in Managers
        BY <3>2 DEF GlockInv
      <4>. QED
        BY <1>3, <1>5, <2>0, <3>2, <4>1 DEF FoundInv, InsideAt, DeleteAt, Leads
    <3>3. CASE h # g /\ at[h] \in Inside /\ manager[h] = m
      <4>1. Key(h) \in Keys
        BY DEF TypeOK, Key, Commands
      <4>2. ~Leads(Key(h), m) /\ locks[Key(h)] # m
        BY <1>1, <4>1 DEF Leads, Linked
      <4>3. at[h] = "locked" /\ command[h].op # "lock" /\ held[m] = NIL
        BY <1>2, <3>3, <4>2 DEF FoundInv, InsideAt, DeleteAt, Inside, Holding
      <4>. QED
        BY <1>3, <3>3, <4>3 DEF InsideAt
    <3>. QED
      BY <3>1, <3>2, <3>3
  <2>. QED
    BY <2>1, <2>2, <2>3 DEF FoundInv
<1>11. FreeInv'
  <2>1. FreeOnce' /\ FreeManagers' = FreeManagers
    BY <1>3 DEF FreeInv, FreeOnce, FreeManagers
  <2>2. FreeManagers \subseteq Managers
    BY DEF FreeManagers, TypeOK
  <2>3. ASSUME NEW n \in FreeManagers' PROVE ~Linked(n)'
    BY <1>1, <1>4, <2>1, <2>2 DEF FreeInv
  <2>4. ASSUME NEW h \in Goroutines, at'[h] \in Holding PROVE HoldingAt(h)'
    <3>1. h # g /\ HoldingAt(h) /\ manager[h] # m
      BY <1>2, <1>3, <2>4 DEF FreeInv, Holding
    <3>. QED
      BY <1>3, <1>4, <2>1, <3>1 DEF HoldingAt, Holding
  <2>5. ASSUME NEW h \in Goroutines, at'[h] = "publish" PROVE PublishAt(h)'
    BY <1>2, <1>3, <2>5 DEF Claiming
  <2>. QED
    BY <2>1, <2>3, <2>4, <2>5 DEF FreeInv
<1>12. CountInv'
  <2>1. Uncounted' = Uncounted \cup {g} /\ g \notin Uncounted
    BY <1>1, <1>3 DEF Uncounted
  <2>2. Counted' = Counted \cup {m} /\ m \notin Counted
    <3>1. \A h \in Goroutines : at'[h] = "discount" <=> at[h] = "discount"
      BY <1>1, <1>3
    <3>2. \A h \in Goroutines : at[h] = "discount" => manager[h] # m
      BY <1>1, <1>2 DEF Holding
    <3>. QED
      BY <1>1, <1>3, <1>4, <3>1, <3>2 DEF Counted
  <2>3. fast_count \in Int
    BY FS_CardinalityType DEF TypeOK
  <2>. QED
    BY <1>1, <1>3, <1>4, <2>1, <2>2, <2>3, LinkedUncounted
<1>. QED
  BY <1>7, <1>8, <1>9, <1>10, <1>11, <1>12

\* A manager is counted, also when it has left the index meanwhile.
LEMMA CountSafe ==
  ASSUME TypeOK, Safe, NEW g \in Goroutines, Count(g) PROVE Safe'
<1>. USE IndexConstants DEF Safe, TypeOK, Count, Goto, Gets, Key, slot, managers
<1>1. SlotInv'
  BY DEF SlotInv, Claiming
<1>2. KeyInv'
  <2>1. SlotKey'
    BY DEF KeyInv, SlotKey
  <2>2. ASSUME NEW k \in Keys, locks'[k] # NIL PROVE MapKey(k)'
    BY <2>2 DEF KeyInv, MapKey
  <2>3. ASSUME NEW m \in Managers PROVE LinkedMark(m)'
    BY <2>3 DEF KeyInv, LinkedMark, Linked
  <2>4. ASSUME NEW m \in Managers, held'[m] # NIL PROVE Leads(held[m], m)'
    BY <2>4 DEF KeyInv, Leads
  <2>. QED
    BY <2>1, <2>2, <2>3, <2>4 DEF KeyInv
<1>3. GlockInv'
  BY DEF GlockInv, Inside
<1>4. FoundInv'
  <2>1. ASSUME NEW h \in Goroutines, at'[h] \in {"count", "glock"} PROVE FoundAt(h)'
    BY <2>1 DEF FoundInv, FoundAt, Linked, Leads
  <2>2. ASSUME NEW h \in Goroutines, at'[h] = "mapped" PROVE MappedAt(h)'
    BY <2>2 DEF FoundInv, MappedAt
  <2>3. ASSUME NEW h \in Goroutines PROVE InsideAt(h)'
    BY <2>3 DEF FoundInv, InsideAt, DeleteAt, Leads
  <2>. QED
    BY <2>1, <2>2, <2>3 DEF FoundInv
<1>5. FreeInv'
  <2>1. FreeOnce'
    BY DEF FreeInv, FreeOnce
  <2>2. ASSUME NEW m \in FreeManagers' PROVE ~Linked(m)'
    <3>1. FreeManagers' = FreeManagers
      BY DEF FreeManagers
    <3>. QED
      BY <2>2, <3>1 DEF FreeInv, Linked
  <2>3. ASSUME NEW h \in Goroutines, at'[h] \in Holding PROVE HoldingAt(h)'
    <3>1. FreeManagers' = FreeManagers
      BY DEF FreeManagers
    <3>. QED
      BY <2>3, <3>1 DEF FreeInv, HoldingAt, Linked, Holding
  <2>4. ASSUME NEW h \in Goroutines, at'[h] = "publish" PROVE PublishAt(h)'
    BY <2>4 DEF FreeInv, PublishAt
  <2>. QED
    BY <2>1, <2>2, <2>3, <2>4 DEF FreeInv
<1>6. CountInv'
  <2>1. Uncounted' = Uncounted \ {g} /\ g \in Uncounted /\ Counted' = Counted
    BY DEF Linked, Uncounted, Counted
  <2>2. Cardinality(Uncounted') = Cardinality(Uncounted) - 1
    BY <2>1, CountsFinite, FS_RemoveElement
  <2>3. fast_count' = fast_count + 1 /\ fast_count \in Int
    BY FS_CardinalityType
  <2>4. Uncounted' # Goroutines
    BY <2>1
  <2>. QED
    BY <2>1, <2>2, <2>3, <2>4, CountsFinite DEF CountInv
<1>. QED
  BY <1>1, <1>2, <1>3, <1>4, <1>5, <1>6 DEF Safe

\* The key has a manager in the map, or it has none and an UNLOCK ends here.
LEMMA MapFoundSafe ==
  ASSUME TypeOK, Safe, NEW g \in Goroutines, Map(g), ~raced',
         locks[Key(g)] # NIL \/ command[g].op = "unlock"
  PROVE  Safe'
<1>. USE IndexConstants DEF Safe
<1>1. at[g] = "map" /\ Key(g) \in Keys
  BY DEF Map, TypeOK, Key, Commands
<1>2. /\ UNCHANGED <<fast_lock, fast_manager, fast_count, locks, free_lock_managers>>
      /\ UNCHANGED <<freed, lock_key, fast_key_value, held, glock, command>>
      /\ \A h \in Goroutines \ {g} : at'[h] = at[h] /\ manager'[h] = manager[h]
  BY DEF Map, TypeOK, Goto, Gets, slot
<1>3. \/ at'[g] = "idle"
      \/ at'[g] = "glock" /\ locks[Key(g)] # NIL /\ manager'[g] = locks[Key(g)]
  BY DEF Map, TypeOK, Goto, Gets
<1>4. /\ \A n : Linked(n)' <=> Linked(n)
      /\ \A n, k : Leads(k, n)' <=> Leads(k, n)
      /\ \A h \in Goroutines : Key(h)' = Key(h)
      /\ FreeManagers' = FreeManagers
  BY <1>2 DEF Linked, Leads, Key, FreeManagers
<1>5. SlotInv'
  BY <1>1, <1>2, <1>3, <1>4 DEF SlotInv, Claiming
<1>6. KeyInv'
  <2>1. SlotKey'
    BY <1>2 DEF KeyInv, SlotKey
  <2>2. ASSUME NEW k \in Keys, locks'[k] # NIL PROVE MapKey(k)'
    BY <1>1, <1>2, <2>2 DEF KeyInv, MapKey
  <2>3. ASSUME NEW n \in Managers PROVE LinkedMark(n)'
    BY <1>2, <1>4 DEF KeyInv, LinkedMark
  <2>4. ASSUME NEW n \in Managers, held'[n] # NIL PROVE Leads(held[n], n)'
    BY <1>2, <1>4, <2>4 DEF KeyInv, Leads
  <2>. QED
    BY <2>1, <2>2, <2>3, <2>4 DEF KeyInv
<1>7. GlockInv'
  BY <1>1, <1>2, <1>3 DEF GlockInv, Inside
<1>8. FoundInv'
  <2>1. ASSUME NEW h \in Goroutines, at'[h] \in {"count", "glock"} PROVE FoundAt(h)'
    <3>1. CASE h = g
      BY <1>1, <1>2, <1>3, <1>4, <2>1, <3>1 DEF FoundAt, Leads, TypeOK
    <3>2. CASE h # g
      BY <1>2, <1>4, <2>1, <3>2 DEF FoundInv, FoundAt, Linked, Leads
    <3>. QED
      BY <3>1, <3>2
  <2>2. ASSUME NEW h \in Goroutines, at'[h] = "mapped" PROVE MappedAt(h)'
    BY <1>2, <1>3, <1>4, <2>2 DEF FoundInv, MappedAt
  <2>3. ASSUME NEW h \in Goroutines PROVE InsideAt(h)'
    <3>1. CASE h = g
      BY <1>3, <3>1 DEF InsideAt
    <3>2. CASE h # g
      BY <1>2, <1>4, <3>2 DEF FoundInv, InsideAt, DeleteAt, Leads
    <3>. QED
      BY <3>1, <3>2
  <2>. QED
    BY <2>1, <2>2, <2>3 DEF FoundInv
<1>9. FreeInv'
  <2>1. FreeOnce'
    BY <1>2 DEF FreeInv, FreeOnce
  <2>2. ASSUME NEW n \in FreeManagers' PROVE ~Linked(n)'
    BY <1>4, <2>2 DEF FreeInv
  <2>3. ASSUME NEW h \in Goroutines, at'[h] \in Holding PROVE HoldingAt(h)'
    BY <1>2, <1>3, <1>4, <2>3 DEF FreeInv, HoldingAt, Holding, Linked
  <2>4. ASSUME NEW h \in Goroutines, at'[h] = "publish" PROVE PublishAt(h)'
    <3>1. h # g /\ at[h] = "publish" /\ manager'[h] = manager[h]
      BY <1>2, <1>3, <2>4
    <3>2. manager[h] # locks[Key(g)]
      BY <1>1, <3>1 DEF FreeInv, HoldingAt, Holding, Linked
    <3>. QED
      BY <1>2, <1>3, <3>1, <3>2 DEF FreeInv, PublishAt
  <2>. QED
    BY <2>1, <2>2, <2>3, <2>4 DEF FreeInv
<1>10. CountInv'
  <2>1. Uncounted' = Uncounted
    BY <1>1, <1>2, <1>3 DEF Uncounted
  <2>2. Counted' = Counted
    BY <1>1, <1>2, <1>3, <1>4 DEF Counted
  <2>. QED
    BY <1>2, <1>4, <2>1, <2>2 DEF CountInv
<1>. QED
  BY <1>5, <1>6, <1>7, <1>8, <1>9, <1>10

\* The key gets a manager in the map.
LEMMA MapNewSafe ==
  ASSUME TypeOK, Safe, NEW g \in Goroutines, Map(g), ~raced',
         locks[Key(g)] = NIL, command[g].op # "unlock"
  PROVE  Safe'
<1>. USE IndexConstants DEF Safe
<1>. DEFINE m == Head(free_lock_managers)
            key == Key(g)
<1>1. at[g] = "map" /\ key \in Keys /\ locks[key] = NIL
  BY DEF Map, TypeOK, Key, Commands
<1>2. /\ m \in Managers /\ m \in FreeManagers /\ FreeManagers' = FreeManagers \ {m}
      /\ FreeOnce'
  BY TakenFirst DEF FreeInv, Map, TakeManager
<1>3. /\ UNCHANGED <<fast_lock, fast_manager, fast_count>>
      /\ UNCHANGED <<lock_key, fast_key_value, held, glock, command>>
      /\ at'[g] = "mapped" /\ manager'[g] = m
      /\ \A h \in Goroutines \ {g} : at'[h] = at[h] /\ manager'[h] = manager[h]
      /\ freed'[m] = FALSE /\ \A n \in Managers \ {m} : freed'[n] = freed[n]
      /\ locks'[key] = m /\ \A k \in Keys \ {key} : locks'[k] = locks[k]
  BY <1>1, <1>2 DEF Map, TypeOK, Goto, Gets, slot, TakeManager
<1>4. /\ \A h \in Goroutines \ {g} : at[h] \in {"mapped", "count", "glock"} => manager[h] # m
      /\ \A h \in Goroutines \ {g} : at[h] \in Claiming => Key(h) # key
      /\ fast_manager # NIL => lock_key[fast_manager] # key
  BY <1>1 DEF Map, TakeManager, TakenWhileFound, MappedAndClaimed, Claiming
<1>5. /\ ~Linked(m) /\ fast_manager # m /\ (\A k \in Keys : locks[k] # m) /\ ~fast_key_value[m]
      /\ \A h \in Goroutines : at[h] \in Holding => manager[h] # m
  BY <1>2 DEF FreeInv, HoldingAt, Linked, KeyInv, LinkedMark
<1>6. \A n \in Managers : Linked(n)' <=> n = m \/ Linked(n)
  BY <1>1, <1>2, <1>3, <1>5 DEF Linked
<1>7. \A n \in Managers, k \in Keys : Leads(k, n) => Leads(k, n)'
  BY <1>1, <1>2, <1>3 DEF Leads
<1>8. \A h \in Goroutines : Key(h)' = Key(h) /\ Key(h) \in Keys
  BY <1>3 DEF Key, TypeOK, Commands
<1>9. SlotInv'
  <2>1. ASSUME NEW h \in Goroutines \ {g}, at[h] \in Claiming PROVE locks'[Key(h)] = locks[Key(h)]
    BY <1>3, <1>4, <1>8, <2>1
  <2>. QED
    BY <1>1, <1>3, <1>8, <2>1 DEF SlotInv, Claiming
<1>10. KeyInv'
  <2>1. SlotKey'
    <3>1. fast_manager # NIL => lock_key[fast_manager] \in Keys \ {key}
      BY <1>4 DEF KeyInv, SlotKey
    <3>. QED
      BY <1>3, <3>1 DEF KeyInv, SlotKey
  <2>2. ASSUME NEW k \in Keys, locks'[k] # NIL PROVE MapKey(k)'
    <3>1. CASE k = key
      BY <1>1, <1>3, <1>5, <3>1 DEF MapKey
    <3>2. CASE k # key
      <4>1. locks'[k] = locks[k] /\ MapKey(k) /\ locks[k] # m
        BY <1>3, <1>5, <2>2, <3>2 DEF KeyInv
      <4>2. \A j \in Keys : locks'[j] = locks'[k] => j = k
        BY <1>3, <4>1 DEF MapKey
      <4>3. \A h \in Goroutines : at[h] = "mapped" => at'[h] = "mapped" /\ manager'[h] = manager[h]
        BY <1>1, <1>3
      <4>. QED
        BY <1>3, <4>1, <4>2, <4>3 DEF MapKey
    <3>. QED
      BY <3>1, <3>2
  <2>3. ASSUME NEW n \in Managers PROVE LinkedMark(n)'
    BY <1>3, <1>6 DEF KeyInv, LinkedMark
  <2>4. ASSUME NEW n \in Managers, held'[n] # NIL PROVE Leads(held[n], n)'
    <3>1. held'[n] = held[n] /\ held[n] \in Keys /\ Leads(held[n], n)
      BY <1>3, <2>4 DEF KeyInv, TypeOK
    <3>. QED
      BY <1>7, <3>1 DEF Leads
  <2>. QED
    BY <2>1, <2>2, <2>3, <2>4 DEF KeyInv
<1>11. GlockInv'
  BY <1>1, <1>3 DEF GlockInv, Inside
<1>12. FoundInv'
  <2>1. ASSUME NEW h \in Goroutines, at'[h] \in {"count", "glock"} PROVE FoundAt(h)'
    <3>1. h # g /\ at[h] \in {"count", "glock"} /\ manager'[h] = manager[h]
      BY <1>3, <2>1
    <3>2. FoundAt(h) /\ manager[h] # m
      BY <1>4, <3>1 DEF FoundInv
    <3>3. /\ freed'[manager[h]] = freed[manager[h]]
          /\ Linked(manager[h])' <=> Linked(manager[h])
      BY <1>3, <1>6, <3>1, <3>2 DEF FoundAt, Linked
    <3>4. Leads(Key(h), manager[h]) => Leads(Key(h), manager[h])'
      BY <1>7, <1>8, <3>1, <3>2 DEF FoundAt, Leads
    <3>. QED
      BY <3>1, <3>2, <3>3, <3>4 DEF FoundAt
  <2>2. ASSUME NEW h \in Goroutines, at'[h] = "mapped" PROVE MappedAt(h)'
    <3>1. CASE h = g
      BY <1>2, <1>3, <1>4, <1>5, <1>8, <3>1 DEF MappedAt
    <3>2. CASE h # g
      <4>1. at[h] = "mapped" /\ MappedAt(h) /\ manager[h] # m
        BY <1>3, <1>4, <2>2, <3>2 DEF FoundInv
      <4>2. locks'[Key(h)] = locks[Key(h)]
        BY <1>1, <1>3, <1>8, <4>1 DEF MappedAt
      <4>. QED
        BY <1>3, <1>8, <3>2, <4>1, <4>2 DEF MappedAt
    <3>. QED
      BY <3>1, <3>2
  <2>3. ASSUME NEW h \in Goroutines PROVE InsideAt(h)'
    <3>1. CASE h = g \/ at[h] \notin Inside
      BY <1>1, <1>3, <3>1 DEF InsideAt, Inside
    <3>2. CASE h # g /\ at[h] \in Inside
      <4>1. /\ manager[h] \in Managers /\ manager'[h] = manager[h] /\ at'[h] = at[h]
            /\ InsideAt(h)
        BY <1>3, <3>2 DEF GlockInv, FoundInv
      <4>2. Leads(Key(h), manager[h]) => Leads(Key(h), manager[h])'
        BY <1>7, <1>8, <4>1 DEF Leads
      <4>3. DeleteAt(h) => DeleteAt(h)'
        BY <1>1, <1>3, <1>8, <4>1 DEF DeleteAt
      <4>4. at[h] \in {"discount", "recycle"} => manager[h] # m
        BY <1>5 DEF Holding
      <4>. QED
        BY <1>3, <4>1, <4>2, <4>3, <4>4 DEF InsideAt
    <3>. QED
      BY <3>1, <3>2
  <2>. QED
    BY <2>1, <2>2, <2>3 DEF FoundInv
<1>13. FreeInv'
  <2>1. FreeManagers \subseteq Managers
    BY DEF FreeManagers, TypeOK
  <2>2. ASSUME NEW n \in FreeManagers' PROVE ~Linked(n)'
    BY <1>2, <1>6, <2>1, <2>2 DEF FreeInv
  <2>3. ASSUME NEW h \in Goroutines, at'[h] \in Holding PROVE HoldingAt(h)'
    <3>1. h # g /\ at'[h] = at[h] /\ HoldingAt(h) /\ manager[h] # m /\ manager'[h] = manager[h]
      BY <1>3, <1>5, <2>3 DEF FreeInv, Holding
    <3>2. ~Linked(manager[h])'
      BY <1>6, <3>1 DEF HoldingAt, Linked
    <3>. QED
      BY <1>2, <1>3, <3>1, <3>2 DEF HoldingAt, Holding
  <2>4. ASSUME NEW h \in Goroutines, at'[h] = "publish" PROVE PublishAt(h)'
    <3>1. h # g /\ at[h] = "publish" /\ manager[h] # m
      BY <1>3, <1>5, <2>4 DEF Holding
    <3>. QED
      BY <1>3, <3>1 DEF FreeInv, PublishAt
  <2>. QED
    BY <1>2, <2>2, <2>3, <2>4 DEF FreeInv
<1>14. CountInv'
  <2>1. Uncounted' = Uncounted \cup {g} /\ g \notin Uncounted
    BY <1>1, <1>3 DEF Uncounted
  <2>2. Counted' = Counted \cup {m} /\ m \notin Counted
    <3>1. \A h \in Goroutines : at'[h] = "discount" <=> at[h] = "discount"
      BY <1>1, <1>3
    <3>2. \A h \in Goroutines : at[h] = "discount" => manager[h] # m /\ manager'[h] = manager[h]
      BY <1>1, <1>3, <1>5 DEF Holding
    <3>. QED
      BY <1>2, <1>5, <1>6, <3>1, <3>2 DEF Counted
  <2>3. fast_count \in Int
    BY FS_CardinalityType DEF TypeOK
  <2>4. PICK n \in Managers : n = m
    BY <1>2
  <2>5. Linked(n)'
    BY <1>6, <2>4
  <2>6. Counted' = Counted \cup {n} /\ n \notin Counted
    BY <2>2, <2>4
  <2>7. fast_count' = fast_count
    BY <1>3
  <2>. HIDE DEF m
  <2>. QED
    BY <2>1, <2>3, <2>5, <2>6, <2>7, LinkedUncounted
<1>. QED
  BY <1>2, <1>9, <1>10, <1>11, <1>12, <1>13, <1>14

\* The map, in both cases.
LEMMA MapSafe ==
  ASSUME TypeOK, Safe, NEW g \in Goroutines, Map(g), ~raced' PROVE Safe'
BY MapFoundSafe, MapNewSafe

\* A manager of the map gets its key.
LEMMA MappedSafe ==
  ASSUME TypeOK, Safe, NEW g \in Goroutines, Mapped(g) PROVE Safe'
<1>. USE IndexConstants DEF Safe
<1>. DEFINE m == manager[g]
<1>1. /\ m \in Managers /\ at[g] = "mapped" /\ Key(g) \in Keys
      /\ locks[Key(g)] = m /\ ~fast_key_value[m]
      /\ \A h \in Goroutines \ {g} : at[h] = "mapped" => manager[h] # m
  BY DEF Mapped, TypeOK, FoundInv, MappedAt, Key, Commands
<1>2. fast_manager # m /\ \A k \in Keys : locks[k] = m => k = Key(g)
  BY <1>1 DEF KeyInv, MapKey
<1>3. /\ UNCHANGED <<fast_lock, fast_manager, fast_count, locks, free_lock_managers>>
      /\ UNCHANGED <<freed, held, glock, command, manager>>
      /\ at'[g] = "count" /\ \A h \in Goroutines \ {g} : at'[h] = at[h]
      /\ lock_key'[m] = Key(g) /\ fast_key_value'[m] = TRUE
      /\ \A n \in Managers \ {m} :
           lock_key'[n] = lock_key[n] /\ fast_key_value'[n] = fast_key_value[n]
  BY <1>1 DEF Mapped, TypeOK, Goto, slot
<1>4. \A n : Linked(n)' <=> Linked(n)
  BY <1>3 DEF Linked
<1>5. \A n \in Managers : \A k : Leads(k, n)' <=> Leads(k, n)
  BY <1>2, <1>3 DEF Leads
<1>6. Linked(m)
  BY <1>1 DEF Linked
<1>7. SlotInv'
  BY <1>1, <1>3 DEF SlotInv, Claiming, Key
<1>8. KeyInv'
  <2>1. SlotKey'
    <3>1. fast_manager # NIL => fast_manager \in Managers \ {m}
      BY <1>2 DEF TypeOK
    <3>. QED
      BY <1>3, <3>1 DEF KeyInv, SlotKey
  <2>2. ASSUME NEW k \in Keys, locks'[k] # NIL PROVE MapKey(k)'
    <3>1. locks[k] \in Managers /\ MapKey(k)
      BY <1>3, <2>2 DEF TypeOK, KeyInv
    <3>2. CASE locks[k] = m
      BY <1>2, <1>3, <3>1, <3>2 DEF MapKey
    <3>3. CASE locks[k] # m
      <4>1. \A h \in Goroutines : at[h] = "mapped" /\ manager[h] = locks[k] => at'[h] = "mapped"
        BY <1>3, <3>3
      <4>. QED
        BY <1>3, <3>1, <3>3, <4>1 DEF MapKey
    <3>. QED
      BY <3>2, <3>3
  <2>3. ASSUME NEW n \in Managers PROVE LinkedMark(n)'
    BY <1>3, <1>4, <1>6 DEF KeyInv, LinkedMark
  <2>4. ASSUME NEW n \in Managers, held'[n] # NIL PROVE Leads(held[n], n)'
    BY <1>3, <1>5, <2>4 DEF KeyInv, Leads
  <2>. QED
    BY <2>1, <2>2, <2>3, <2>4 DEF KeyInv
<1>9. GlockInv'
  BY <1>1, <1>3 DEF GlockInv, Inside
<1>10. FoundInv'
  <2>0. ASSUME NEW h \in Goroutines PROVE Key(h)' = Key(h)
    BY <1>3 DEF Key
  <2>1. ASSUME NEW h \in Goroutines, at'[h] \in {"count", "glock"} PROVE FoundAt(h)'
    <3>1. FoundAt(h)
      BY <1>1, <1>3, <2>1 DEF FoundInv, FoundAt, Leads
    <3>. QED
      BY <1>3, <1>4, <1>5, <2>0, <3>1 DEF FoundAt, Leads
  <2>2. ASSUME NEW h \in Goroutines, at'[h] = "mapped" PROVE MappedAt(h)'
    BY <1>1, <1>3, <2>0, <2>2 DEF FoundInv, MappedAt
  <2>3. ASSUME NEW h \in Goroutines PROVE InsideAt(h)'
    <3>1. CASE h = g \/ at[h] \notin Inside
      BY <1>1, <1>3, <3>1 DEF InsideAt, Inside
    <3>2. CASE h # g /\ at[h] \in Inside
      <4>1. manager[h] \in Managers
        BY <3>2 DEF GlockInv
      <4>2. at[h] = "delete" => manager[h] # m
        BY <1>1, <3>2 DEF FoundInv, InsideAt, DeleteAt
      <4>. QED
        BY <1>3, <1>5, <2>0, <3>2, <4>1, <4>2 DEF FoundInv, InsideAt, DeleteAt, Leads
    <3>. QED
      BY <3>1, <3>2
  <2>. QED
    BY <2>1, <2>2, <2>3 DEF FoundInv
<1>11. FreeInv'
  <2>1. FreeOnce' /\ FreeManagers' = FreeManagers
    BY <1>3 DEF FreeInv, FreeOnce, FreeManagers
  <2>2. ASSUME NEW n \in FreeManagers' PROVE ~Linked(n)'
    BY <1>4, <2>1 DEF FreeInv
  <2>3. ASSUME NEW h \in Goroutines, at'[h] \in Holding PROVE HoldingAt(h)'
    BY <1>1, <1>3, <1>4, <2>1, <2>3 DEF FreeInv, HoldingAt, Holding
  <2>4. ASSUME NEW h \in Goroutines, at'[h] = "publish" PROVE PublishAt(h)'
    BY <1>1, <1>3, <2>4 DEF FreeInv, PublishAt
  <2>. QED
    BY <2>1, <2>2, <2>3, <2>4 DEF FreeInv
<1>12. CountInv'
  <2>1. Uncounted' = Uncounted
    BY <1>1, <1>3 DEF Uncounted
  <2>2. Counted' = Counted
    <3>1. \A h \in Goroutines : at'[h] = "discount" <=> at[h] = "discount"
      BY <1>1, <1>3
    <3>. QED
      BY <1>3, <1>4, <3>1 DEF Counted
  <2>. QED
    BY <1>3, <1>4, <2>1, <2>2 DEF CountInv
<1>. QED
  BY <1>7, <1>8, <1>9, <1>10, <1>11, <1>12

\* A LOCK goes inside only while the index leads to its manager.
LEMMA EnterSafe ==
  ASSUME TypeOK, Safe, NEW g \in Goroutines, Enter(g) PROVE Safe'
<1>. USE IndexConstants DEF Safe, TypeOK, Enter, Goto, Gets, Key, slot, managers, Removed
<1>1. SlotInv'
  BY DEF SlotInv, Claiming
<1>2. KeyInv'
  <2>1. SlotKey'
    BY DEF KeyInv, SlotKey
  <2>2. ASSUME NEW k \in Keys, locks'[k] # NIL PROVE MapKey(k)'
    BY <2>2 DEF KeyInv, MapKey
  <2>3. ASSUME NEW m \in Managers PROVE LinkedMark(m)'
    BY <2>3 DEF KeyInv, LinkedMark, Linked
  <2>4. ASSUME NEW m \in Managers, held'[m] # NIL PROVE Leads(held[m], m)'
    BY <2>4 DEF KeyInv, Leads
  <2>. QED
    BY <2>1, <2>2, <2>3, <2>4 DEF KeyInv
<1>3. GlockInv'
  <2>1. manager[g] \in Managers
    BY DEF FoundInv, FoundAt
  <2>2. \A h \in Goroutines : at[h] \in Inside => manager[h] # manager[g]
    BY DEF GlockInv
  <2>. QED
    BY <2>1, <2>2 DEF GlockInv, Inside
<1>4. FoundInv'
  <2>1. ASSUME NEW h \in Goroutines, at'[h] \in {"count", "glock"} PROVE FoundAt(h)'
    BY <2>1 DEF FoundInv, FoundAt, Linked, Leads
  <2>2. ASSUME NEW h \in Goroutines, at'[h] = "mapped" PROVE MappedAt(h)'
    BY <2>2 DEF FoundInv, MappedAt
  <2>3. ASSUME NEW h \in Goroutines PROVE InsideAt(h)'
    <3>1. CASE h = g /\ at'[g] = "locked"
      <4>1. Leads(Key(g), manager[g]) \/ (freed[manager[g]] /\ ~Linked(manager[g]))
        BY DEF FoundInv, FoundAt
      <4>2. manager[g] \in Managers
        BY DEF FoundInv, FoundAt
      <4>3. held[manager[g]] # NIL => ~freed[manager[g]]
        BY <4>2 DEF KeyInv, LinkedMark, Leads, Linked
      <4>4. command[g].op = "lock" => ~freed[manager[g]]
        BY <3>1
      <4>. QED
        BY <3>1, <4>1, <4>3, <4>4 DEF InsideAt, Leads
    <3>2. CASE h = g /\ at'[g] = "load"
      BY <3>2 DEF InsideAt
    <3>3. CASE h # g
      BY <3>3 DEF FoundInv, InsideAt, DeleteAt, Leads
    <3>. QED
      BY <3>1, <3>2, <3>3
  <2>. QED
    BY <2>1, <2>2, <2>3 DEF FoundInv
<1>5. FreeInv'
  <2>1. FreeOnce'
    BY DEF FreeInv, FreeOnce
  <2>2. ASSUME NEW m \in FreeManagers' PROVE ~Linked(m)'
    <3>1. FreeManagers' = FreeManagers
      BY DEF FreeManagers
    <3>. QED
      BY <2>2, <3>1 DEF FreeInv, Linked
  <2>3. ASSUME NEW h \in Goroutines, at'[h] \in Holding PROVE HoldingAt(h)'
    <3>1. FreeManagers' = FreeManagers
      BY DEF FreeManagers
    <3>. QED
      BY <2>3, <3>1 DEF FreeInv, HoldingAt, Linked, Holding
  <2>4. ASSUME NEW h \in Goroutines, at'[h] = "publish" PROVE PublishAt(h)'
    BY <2>4 DEF FreeInv, PublishAt
  <2>. QED
    BY <2>1, <2>2, <2>3, <2>4 DEF FreeInv
<1>6. CountInv'
  <2>1. Uncounted' = Uncounted /\ Counted' = Counted
    BY DEF Linked, Uncounted, Counted
  <2>. QED
    BY <2>1 DEF CountInv, Linked
<1>. QED
  BY <1>1, <1>2, <1>3, <1>4, <1>5, <1>6 DEF Safe

\* A grant or a refusal, by the one goroutine inside.
LEMMA DoLockSafe ==
  ASSUME TypeOK, Safe, NEW g \in Goroutines, DoLock(g) PROVE Safe'
<1>. USE IndexConstants DEF Safe, TypeOK, DoLock, Goto, Gets, Key, slot, managers, Leave
<1>0. /\ manager[g] \in Managers /\ Leads(Key(g), manager[g])
      /\ \A h \in Goroutines : at[h] \in Inside /\ manager[h] = manager[g] => h = g
  BY OneInside DEF GlockInv, Inside, FoundInv, InsideAt
<1>1. SlotInv'
  BY DEF SlotInv, Claiming
<1>2. KeyInv'
  <2>1. SlotKey'
    BY DEF KeyInv, SlotKey
  <2>2. ASSUME NEW k \in Keys, locks'[k] # NIL PROVE MapKey(k)'
    BY <2>2 DEF KeyInv, MapKey
  <2>3. ASSUME NEW m \in Managers PROVE LinkedMark(m)'
    BY <2>3 DEF KeyInv, LinkedMark, Linked
  <2>4. ASSUME NEW m \in Managers, held'[m] # NIL PROVE Leads(held[m], m)'
    BY <1>0, <2>4 DEF KeyInv, Leads
  <2>. QED
    BY <2>1, <2>2, <2>3, <2>4 DEF KeyInv
<1>3. GlockInv'
  BY DEF GlockInv, Inside
<1>4. FoundInv'
  <2>1. ASSUME NEW h \in Goroutines, at'[h] \in {"count", "glock"} PROVE FoundAt(h)'
    BY <2>1 DEF FoundInv, FoundAt, Linked, Leads
  <2>2. ASSUME NEW h \in Goroutines, at'[h] = "mapped" PROVE MappedAt(h)'
    BY <2>2 DEF FoundInv, MappedAt
  <2>3. ASSUME NEW h \in Goroutines PROVE InsideAt(h)'
    <3>1. CASE h = g
      BY <1>0, <3>1 DEF InsideAt, Leads
    <3>2. CASE h # g /\ at[h] \in Inside
      <4>1. manager[h] # manager[g] /\ manager[h] \in Managers
        BY <1>0, <3>2 DEF GlockInv
      <4>2. held'[manager[h]] = held[manager[h]]
        BY <4>1, <1>0
      <4>3. at'[h] = at[h]
        BY <3>2
      <4>. QED
        BY <4>2, <4>3 DEF FoundInv, InsideAt, DeleteAt, Leads
    <3>3. CASE h # g /\ at[h] \notin Inside
      BY <3>3 DEF InsideAt, Inside
    <3>. QED
      BY <3>1, <3>2, <3>3
  <2>. QED
    BY <2>1, <2>2, <2>3 DEF FoundInv
<1>5. FreeInv'
  <2>1. FreeOnce'
    BY DEF FreeInv, FreeOnce
  <2>2. ASSUME NEW m \in FreeManagers' PROVE ~Linked(m)'
    <3>1. FreeManagers' = FreeManagers
      BY DEF FreeManagers
    <3>. QED
      BY <2>2, <3>1 DEF FreeInv, Linked
  <2>3. ASSUME NEW h \in Goroutines, at'[h] \in Holding PROVE HoldingAt(h)'
    <3>1. FreeManagers' = FreeManagers
      BY DEF FreeManagers
    <3>. QED
      BY <2>3, <3>1 DEF FreeInv, HoldingAt, Linked, Holding
  <2>4. ASSUME NEW h \in Goroutines, at'[h] = "publish" PROVE PublishAt(h)'
    BY <2>4 DEF FreeInv, PublishAt
  <2>. QED
    BY <2>1, <2>2, <2>3, <2>4 DEF FreeInv
<1>6. CountInv'
  <2>1. Uncounted' = Uncounted /\ Counted' = Counted
    BY DEF Linked, Uncounted, Counted
  <2>. QED
    BY <2>1 DEF CountInv, Linked
<1>. QED
  BY <1>1, <1>2, <1>3, <1>4, <1>5, <1>6 DEF Safe

\* A release, by the one goroutine inside.
LEMMA DoUnLockSafe ==
  ASSUME TypeOK, Safe, NEW g \in Goroutines, DoUnLock(g) PROVE Safe'
<1>. USE IndexConstants DEF Safe, TypeOK, DoUnLock, Goto, Gets, Key, slot, managers, Leave
<1>0. /\ manager[g] \in Managers /\ (held[manager[g]] # NIL => Leads(Key(g), manager[g]))
      /\ \A h \in Goroutines : at[h] \in Inside /\ manager[h] = manager[g] => h = g
  BY OneInside DEF GlockInv, Inside, FoundInv, InsideAt
<1>1. SlotInv'
  BY DEF SlotInv, Claiming
<1>2. KeyInv'
  <2>1. SlotKey'
    BY DEF KeyInv, SlotKey
  <2>2. ASSUME NEW k \in Keys, locks'[k] # NIL PROVE MapKey(k)'
    BY <2>2 DEF KeyInv, MapKey
  <2>3. ASSUME NEW m \in Managers PROVE LinkedMark(m)'
    BY <2>3 DEF KeyInv, LinkedMark, Linked
  <2>4. ASSUME NEW m \in Managers, held'[m] # NIL PROVE Leads(held[m], m)'
    BY <2>4 DEF KeyInv, Leads
  <2>. QED
    BY <2>1, <2>2, <2>3, <2>4 DEF KeyInv
<1>3. GlockInv'
  BY DEF GlockInv, Inside
<1>4. FoundInv'
  <2>1. ASSUME NEW h \in Goroutines, at'[h] \in {"count", "glock"} PROVE FoundAt(h)'
    BY <2>1 DEF FoundInv, FoundAt, Linked, Leads
  <2>2. ASSUME NEW h \in Goroutines, at'[h] = "mapped" PROVE MappedAt(h)'
    BY <2>2 DEF FoundInv, MappedAt
  <2>3. ASSUME NEW h \in Goroutines PROVE InsideAt(h)'
    <3>1. CASE h = g
      BY <1>0, <3>1 DEF InsideAt, Leads
    <3>2. CASE h # g /\ at[h] \in Inside
      <4>1. manager[h] # manager[g] /\ manager[h] \in Managers
        BY <1>0, <3>2 DEF GlockInv
      <4>2. held'[manager[h]] = held[manager[h]]
        BY <4>1, <1>0
      <4>3. at'[h] = at[h]
        BY <3>2
      <4>. QED
        BY <4>2, <4>3 DEF FoundInv, InsideAt, DeleteAt, Leads
    <3>3. CASE h # g /\ at[h] \notin Inside
      BY <3>3 DEF InsideAt, Inside
    <3>. QED
      BY <3>1, <3>2, <3>3
  <2>. QED
    BY <2>1, <2>2, <2>3 DEF FoundInv
<1>5. FreeInv'
  <2>1. FreeOnce'
    BY DEF FreeInv, FreeOnce
  <2>2. ASSUME NEW m \in FreeManagers' PROVE ~Linked(m)'
    <3>1. FreeManagers' = FreeManagers
      BY DEF FreeManagers
    <3>. QED
      BY <2>2, <3>1 DEF FreeInv, Linked
  <2>3. ASSUME NEW h \in Goroutines, at'[h] \in Holding PROVE HoldingAt(h)'
    <3>1. FreeManagers' = FreeManagers
      BY DEF FreeManagers
    <3>. QED
      BY <2>3, <3>1 DEF FreeInv, HoldingAt, Linked, Holding
  <2>4. ASSUME NEW h \in Goroutines, at'[h] = "publish" PROVE PublishAt(h)'
    BY <2>4 DEF FreeInv, PublishAt
  <2>. QED
    BY <2>1, <2>2, <2>3, <2>4 DEF FreeInv
<1>6. CountInv'
  <2>1. Uncounted' = Uncounted /\ Counted' = Counted
    BY DEF Linked, Uncounted, Counted
  <2>. QED
    BY <2>1 DEF CountInv, Linked
<1>. QED
  BY <1>1, <1>2, <1>3, <1>4, <1>5, <1>6 DEF Safe

\* Where RemoveLockManager goes, by where the manager is.
LEMMA RemoveSafe ==
  ASSUME TypeOK, Safe, NEW g \in Goroutines, Remove(g) PROVE Safe'
<1>. USE IndexConstants DEF Safe, TypeOK, Remove, Goto, Gets, Key, slot, managers, Leave
<1>1. SlotInv'
  <2>1. manager[g] \in Managers
    BY DEF GlockInv, Inside
  <2>2. CASE fast_manager = manager[g] /\ fast_lock = 1 /\ at'[g] = "clear"
    <3>1. \A h \in Goroutines : at[h] \notin Claiming /\ at[h] # "clear"
      BY <2>1, <2>2 DEF SlotInv
    <3>. QED
      BY <2>2, <3>1 DEF SlotInv, Claiming
  <2>3. CASE fast_lock' = fast_lock /\ at'[g] # "clear"
    BY <2>3 DEF SlotInv, Claiming
  <2>. QED
    BY <2>2, <2>3
<1>2. KeyInv'
  <2>1. SlotKey'
    BY DEF KeyInv, SlotKey
  <2>2. ASSUME NEW k \in Keys, locks'[k] # NIL PROVE MapKey(k)'
    BY <2>2 DEF KeyInv, MapKey
  <2>3. ASSUME NEW m \in Managers PROVE LinkedMark(m)'
    BY <2>3 DEF KeyInv, LinkedMark, Linked
  <2>4. ASSUME NEW m \in Managers, held'[m] # NIL PROVE Leads(held[m], m)'
    BY <2>4 DEF KeyInv, Leads
  <2>. QED
    BY <2>1, <2>2, <2>3, <2>4 DEF KeyInv
<1>3. GlockInv'
  BY DEF GlockInv, Inside
<1>4. FoundInv'
  <2>1. ASSUME NEW h \in Goroutines, at'[h] \in {"count", "glock"} PROVE FoundAt(h)'
    BY <2>1 DEF FoundInv, FoundAt, Linked, Leads
  <2>2. ASSUME NEW h \in Goroutines, at'[h] = "mapped" PROVE MappedAt(h)'
    BY <2>2 DEF FoundInv, MappedAt
  <2>3. ASSUME NEW h \in Goroutines PROVE InsideAt(h)'
    <3>1. CASE h = g /\ at'[g] = "delete"
      <4>1. locks[Key(g)] = manager[g] /\ held[manager[g]] = NIL /\ fast_key_value[manager[g]]
        BY <3>1 DEF FoundInv, InsideAt, Leads
      <4>2. manager[g] \in Managers /\ Key(g) \in Keys
        BY DEF GlockInv, Inside, Commands
      <4>3. \A i \in Goroutines : at[i] = "mapped" => manager[i] # manager[g]
        BY <4>1, <4>2 DEF FoundInv, MappedAt
      <4>4. lock_key[manager[g]] = Key(g)
        BY <4>1, <4>2, <4>3 DEF KeyInv, MapKey
      <4>. QED
        BY <3>1, <4>1, <4>4 DEF InsideAt, DeleteAt
    <3>2. CASE h = g /\ at'[g] # "delete"
      BY <3>2 DEF FoundInv, InsideAt, Leads
    <3>3. CASE h # g
      BY <3>3 DEF FoundInv, InsideAt, DeleteAt, Leads
    <3>. QED
      BY <3>1, <3>2, <3>3
  <2>. QED
    BY <2>1, <2>2, <2>3 DEF FoundInv
<1>5. FreeInv'
  <2>1. FreeOnce'
    BY DEF FreeInv, FreeOnce
  <2>2. ASSUME NEW m \in FreeManagers' PROVE ~Linked(m)'
    <3>1. FreeManagers' = FreeManagers
      BY DEF FreeManagers
    <3>. QED
      BY <2>2, <3>1 DEF FreeInv, Linked
  <2>3. ASSUME NEW h \in Goroutines, at'[h] \in Holding PROVE HoldingAt(h)'
    <3>1. FreeManagers' = FreeManagers
      BY DEF FreeManagers
    <3>. QED
      BY <2>3, <3>1 DEF FreeInv, HoldingAt, Linked, Holding
  <2>4. ASSUME NEW h \in Goroutines, at'[h] = "publish" PROVE PublishAt(h)'
    BY <2>4 DEF FreeInv, PublishAt
  <2>. QED
    BY <2>1, <2>2, <2>3, <2>4 DEF FreeInv
<1>6. CountInv'
  <2>1. Uncounted' = Uncounted /\ Counted' = Counted
    BY DEF Linked, Uncounted, Counted
  <2>. QED
    BY <2>1 DEF CountInv, Linked
<1>. QED
  BY <1>1, <1>2, <1>3, <1>4, <1>5, <1>6 DEF Safe

\* RemoveLockManager takes manager m out of the slot or out of the map.
LEMMA UnlinkSafe ==
  ASSUME TypeOK, Safe, NEW g \in Goroutines, NEW m \in Managers, m = manager[g],
         at[g] \in {"clear", "delete"}, held[m] = NIL, fast_key_value[m], Linked(m),
         at'[g] = "discount", \A h \in Goroutines \ {g} : at'[h] = at[h],
         freed'[m] = TRUE, fast_key_value'[m] = FALSE,
         \A n \in Managers \ {m} :
           freed'[n] = freed[n] /\ fast_key_value'[n] = fast_key_value[n],
         UNCHANGED <<fast_count, free_lock_managers, lock_key, held, glock, command, manager>>,
         \A n \in Managers : Linked(n)' <=> n # m /\ Linked(n),
         \A n \in Managers, k \in Keys : Leads(k, n)' <=> n # m /\ Leads(k, n),
         \A h \in Goroutines : locks[Key(h)] \in Managers \ {m} => locks'[Key(h)] = locks[Key(h)]
  PROVE  /\ GlockInv' /\ FoundInv' /\ FreeInv' /\ CountInv'
         /\ \A n \in Managers : LinkedMark(n)'
         /\ \A n \in Managers : held'[n] # NIL => Leads(held[n], n)'
<1>. USE IndexConstants DEF Safe
<1>0. ASSUME NEW h \in Goroutines PROVE Key(h)' = Key(h) /\ Key(h) \in Keys
  BY DEF Key, TypeOK, Commands
<1>1. \A h \in Goroutines \ {g} : at[h] \in Inside => manager[h] \in Managers \ {m}
  BY OneInside DEF Inside, GlockInv
<1>2. \A h \in Goroutines : at[h] = "mapped" => manager[h] \in Managers \ {m}
  BY DEF FoundInv, MappedAt
<1>3. \A h \in Goroutines : at[h] \in Holding => manager[h] # m
  BY DEF FreeInv, HoldingAt
<1>4. GlockInv'
  BY DEF GlockInv, Inside
<1>5. FoundInv'
  <2>1. ASSUME NEW h \in Goroutines, at'[h] \in {"count", "glock"} PROVE FoundAt(h)'
    <3>1. FoundAt(h)
      BY <2>1 DEF FoundInv
    <3>2. CASE manager[h] = m
      BY <3>1, <3>2 DEF FoundAt
    <3>3. CASE manager[h] # m
      <4>1. manager[h] \in Managers /\ freed'[manager[h]] = freed[manager[h]]
        BY <3>1, <3>3 DEF FoundAt
      <4>2. Leads(Key(h), manager[h])' <=> Leads(Key(h), manager[h])
        BY <1>0, <3>3, <4>1 DEF Leads
      <4>3. Linked(manager[h])' <=> Linked(manager[h])
        BY <3>3, <4>1 DEF Linked
      <4>. QED
        BY <3>1, <4>1, <4>2, <4>3 DEF FoundAt
    <3>. QED
      BY <3>2, <3>3
  <2>2. ASSUME NEW h \in Goroutines, at'[h] = "mapped" PROVE MappedAt(h)'
    <3>1. at[h] = "mapped" /\ MappedAt(h) /\ manager[h] \in Managers \ {m}
      BY <1>2, <2>2 DEF FoundInv
    <3>2. locks'[Key(h)] = locks[Key(h)]
      BY <3>1 DEF MappedAt
    <3>. QED
      BY <1>0, <3>1, <3>2 DEF MappedAt
  <2>3. ASSUME NEW h \in Goroutines PROVE InsideAt(h)'
    <3>1. CASE h = g \/ at[h] \notin Inside
      BY <3>1 DEF InsideAt, Inside
    <3>2. CASE h # g /\ at[h] \in Inside
      <4>1. /\ manager[h] \in Managers \ {m} /\ manager'[h] = manager[h] /\ at'[h] = at[h]
            /\ InsideAt(h)
        BY <1>1, <3>2 DEF FoundInv
      <4>2. Leads(Key(h), manager[h])' <=> Leads(Key(h), manager[h])
        BY <1>0, <4>1 DEF Leads
      <4>3. DeleteAt(h) => DeleteAt(h)'
        BY <1>0, <4>1 DEF DeleteAt
      <4>. QED
        BY <4>1, <4>2, <4>3 DEF InsideAt
    <3>. QED
      BY <3>1, <3>2
  <2>. QED
    BY <2>1, <2>2, <2>3 DEF FoundInv
<1>6. FreeInv'
  <2>1. FreeOnce' /\ FreeManagers' = FreeManagers /\ FreeManagers \subseteq Managers
    BY DEF FreeInv, FreeOnce, FreeManagers, TypeOK
  <2>2. ASSUME NEW n \in FreeManagers' PROVE ~Linked(n)'
    BY <2>1, <2>2 DEF FreeInv
  <2>3. ASSUME NEW h \in Goroutines, at'[h] \in Holding PROVE HoldingAt(h)'
    <3>1. m \notin FreeManagers /\ ~Linked(m)'
      BY DEF FreeInv
    <3>2. CASE h = g
      BY <1>3, <2>1, <3>1, <3>2 DEF HoldingAt, Holding, Linked
    <3>3. CASE h # g
      <4>1. at'[h] = at[h] /\ HoldingAt(h) /\ manager[h] # m /\ manager'[h] = manager[h]
        BY <1>3, <2>3, <3>3 DEF FreeInv
      <4>2. ~Linked(manager[h])'
        BY <4>1 DEF HoldingAt, Linked
      <4>. QED
        BY <2>1, <4>1, <4>2 DEF HoldingAt
    <3>. QED
      BY <3>2, <3>3
  <2>4. ASSUME NEW h \in Goroutines, at'[h] = "publish" PROVE PublishAt(h)'
    BY <2>4 DEF FreeInv, PublishAt
  <2>. QED
    BY <2>1, <2>2, <2>3, <2>4 DEF FreeInv
<1>7. CountInv'
  <2>1. Uncounted' = Uncounted /\ g \notin Uncounted'
    BY DEF Uncounted
  <2>2. Counted' = Counted
    <3>1. m \in Counted /\ m \in Counted'
      BY DEF Counted
    <3>2. ASSUME NEW n \in Managers, n # m PROVE n \in Counted' <=> n \in Counted
      BY <3>2 DEF Counted
    <3>. QED
      BY <3>1, <3>2 DEF Counted
  <2>. QED
    BY <2>1, <2>2, UnlinkedCounted
<1>8. \A n \in Managers : LinkedMark(n)'
  BY DEF KeyInv, LinkedMark
<1>9. ASSUME NEW n \in Managers, held'[n] # NIL PROVE Leads(held[n], n)'
  <2>1. n # m /\ held'[n] = held[n] /\ held[n] \in Keys /\ Leads(held[n], n)
    BY <1>9 DEF KeyInv, TypeOK
  <2>. QED
    BY <2>1 DEF Leads
<1>. QED
  BY <1>4, <1>5, <1>6, <1>7, <1>8, <1>9

\* The manager leaves the slot.
LEMMA ClearSafe ==
  ASSUME TypeOK, Safe, NEW g \in Goroutines, Clear(g) PROVE Safe'
<1>. USE IndexConstants DEF Safe
<1>. DEFINE m == manager[g]
<1>1. /\ m \in Managers /\ at[g] = "clear" /\ held[m] = NIL
      /\ fast_manager = m /\ fast_lock = 0 /\ fast_key_value[m] /\ Linked(m)
  BY DEF Clear, GlockInv, Inside, FoundInv, InsideAt, SlotInv, KeyInv, SlotKey, Linked
<1>2. /\ fast_manager' = NIL
      /\ UNCHANGED <<fast_lock, fast_count, locks, free_lock_managers>>
      /\ UNCHANGED <<lock_key, held, glock, command, manager>>
      /\ at'[g] = "discount" /\ \A h \in Goroutines \ {g} : at'[h] = at[h]
      /\ freed'[m] = TRUE /\ fast_key_value'[m] = FALSE
      /\ \A n \in Managers \ {m} :
           freed'[n] = freed[n] /\ fast_key_value'[n] = fast_key_value[n]
  BY <1>1 DEF Clear, TypeOK, Goto
<1>3. \A k \in Keys : locks[k] # m
  BY <1>1 DEF KeyInv, MapKey
<1>4. \A n \in Managers : Linked(n)' <=> n # m /\ Linked(n)
  BY <1>1, <1>2, <1>3 DEF Linked
<1>5. \A n \in Managers, k \in Keys : Leads(k, n)' <=> n # m /\ Leads(k, n)
  BY <1>1, <1>2, <1>3 DEF Leads
<1>6. /\ GlockInv' /\ FoundInv' /\ FreeInv' /\ CountInv'
      /\ \A n \in Managers : LinkedMark(n)'
      /\ \A n \in Managers : held'[n] # NIL => Leads(held[n], n)'
  BY <1>1, <1>2, <1>4, <1>5, UnlinkSafe
<1>7. SlotInv'
  <2>1. \A h \in Goroutines \ {g} : at[h] # "clear" /\ at[h] \notin Claiming
    BY <1>1, OneInside DEF SlotInv, Inside
  <2>. QED
    BY <1>2, <2>1 DEF SlotInv, Claiming
<1>8. KeyInv'
  <2>1. SlotKey'
    BY <1>2 DEF SlotKey
  <2>2. ASSUME NEW k \in Keys, locks'[k] # NIL PROVE MapKey(k)'
    <3>1. locks[k] \in Managers \ {m} /\ MapKey(k) /\ UNCHANGED locks
      BY <1>2, <1>3, <2>2 DEF TypeOK, KeyInv
    <3>2. \A h \in Goroutines : at[h] = "mapped" => at'[h] = "mapped"
      BY <1>1, <1>2
    <3>. QED
      BY <1>2, <3>1, <3>2 DEF MapKey
  <2>. QED
    BY <1>6, <2>1, <2>2 DEF KeyInv
<1>. QED
  BY <1>6, <1>7, <1>8

\* The manager leaves the map; the tests before it are always passed.
LEMMA DeleteSafe ==
  ASSUME TypeOK, Safe, NEW g \in Goroutines, Delete(g) PROVE Safe'
<1>. USE IndexConstants DEF Safe
<1>. DEFINE m == manager[g]
            key == Key(g)
<1>1. /\ m \in Managers /\ at[g] = "delete" /\ held[m] = NIL /\ key \in Keys
      /\ locks[key] = m /\ lock_key[m] = key /\ fast_key_value[m] /\ Linked(m)
  BY DEF Delete, GlockInv, Inside, FoundInv, InsideAt, DeleteAt, TypeOK, Key, Commands, Linked
<1>2. ~freed[m] /\ locks[lock_key[m]] # NIL
  BY <1>1 DEF KeyInv, LinkedMark
<1>3. /\ UNCHANGED <<fast_lock, fast_manager, fast_count, free_lock_managers>>
      /\ UNCHANGED <<lock_key, held, glock, command, manager>>
      /\ at'[g] = "discount" /\ \A h \in Goroutines \ {g} : at'[h] = at[h]
      /\ freed'[m] = TRUE /\ fast_key_value'[m] = FALSE
      /\ \A n \in Managers \ {m} :
           freed'[n] = freed[n] /\ fast_key_value'[n] = fast_key_value[n]
      /\ locks'[key] = NIL /\ \A k \in Keys \ {key} : locks'[k] = locks[k]
  BY <1>1, <1>2 DEF Delete, TypeOK, Goto, slot
<1>4. fast_manager # m /\ \A k \in Keys \ {key} : locks[k] # m
  BY <1>1 DEF KeyInv, MapKey
<1>5. \A n \in Managers : Linked(n)' <=> n # m /\ Linked(n)
  BY <1>1, <1>3, <1>4 DEF Linked
<1>6. \A n \in Managers, k \in Keys : Leads(k, n)' <=> n # m /\ Leads(k, n)
  BY <1>1, <1>3, <1>4 DEF Leads
<1>7. /\ GlockInv' /\ FoundInv' /\ FreeInv' /\ CountInv'
      /\ \A n \in Managers : LinkedMark(n)'
      /\ \A n \in Managers : held'[n] # NIL => Leads(held[n], n)'
  <2>1. ASSUME NEW h \in Goroutines, locks[Key(h)] \in Managers \ {m}
        PROVE  locks'[Key(h)] = locks[Key(h)]
    BY <1>1, <1>3, <2>1 DEF TypeOK, Key, Commands
  <2>. QED
    BY <1>1, <1>3, <1>5, <1>6, <2>1, UnlinkSafe
<1>8. SlotInv'
  <2>1. ASSUME NEW h \in Goroutines, locks[Key(h)] = NIL PROVE locks'[Key(h)'] = NIL
    BY <1>1, <1>3, <2>1 DEF TypeOK, Key, Commands
  <2>. QED
    BY <1>1, <1>3, <2>1 DEF SlotInv, Claiming
<1>9. KeyInv'
  <2>1. SlotKey'
    BY <1>1, <1>3, <1>4 DEF KeyInv, SlotKey, TypeOK
  <2>2. ASSUME NEW k \in Keys, locks'[k] # NIL PROVE MapKey(k)'
    <3>1. locks[k] \in Managers \ {m} /\ MapKey(k) /\ k # key /\ locks'[k] = locks[k]
      BY <1>3, <1>4, <2>2 DEF TypeOK, KeyInv
    <3>2. \A h \in Goroutines : at[h] = "mapped" => at'[h] = "mapped"
      BY <1>1, <1>3
    <3>. QED
      BY <1>3, <3>1, <3>2 DEF MapKey
  <2>. QED
    BY <1>7, <2>1, <2>2 DEF KeyInv
<1>. QED
  BY <1>7, <1>8, <1>9

\* A manager that has left the index is not counted any more.
LEMMA DiscountSafe ==
  ASSUME TypeOK, Safe, NEW g \in Goroutines, Discount(g) PROVE Safe'
<1>. USE IndexConstants DEF Safe, TypeOK, Discount, Goto, Gets, Key, slot, managers
<1>1. SlotInv'
  BY DEF SlotInv, Claiming
<1>2. KeyInv'
  <2>1. SlotKey'
    BY DEF KeyInv, SlotKey
  <2>2. ASSUME NEW k \in Keys, locks'[k] # NIL PROVE MapKey(k)'
    BY <2>2 DEF KeyInv, MapKey
  <2>3. ASSUME NEW m \in Managers PROVE LinkedMark(m)'
    BY <2>3 DEF KeyInv, LinkedMark, Linked
  <2>4. ASSUME NEW m \in Managers, held'[m] # NIL PROVE Leads(held[m], m)'
    BY <2>4 DEF KeyInv, Leads
  <2>. QED
    BY <2>1, <2>2, <2>3, <2>4 DEF KeyInv
<1>3. GlockInv'
  BY DEF GlockInv, Inside
<1>4. FoundInv'
  <2>1. ASSUME NEW h \in Goroutines, at'[h] \in {"count", "glock"} PROVE FoundAt(h)'
    BY <2>1 DEF FoundInv, FoundAt, Linked, Leads
  <2>2. ASSUME NEW h \in Goroutines, at'[h] = "mapped" PROVE MappedAt(h)'
    BY <2>2 DEF FoundInv, MappedAt
  <2>3. ASSUME NEW h \in Goroutines PROVE InsideAt(h)'
    BY <2>3 DEF FoundInv, InsideAt, DeleteAt, Leads
  <2>. QED
    BY <2>1, <2>2, <2>3 DEF FoundInv
<1>5. FreeInv'
  <2>1. FreeOnce'
    BY DEF FreeInv, FreeOnce
  <2>2. ASSUME NEW m \in FreeManagers' PROVE ~Linked(m)'
    <3>1. FreeManagers' = FreeManagers
      BY DEF FreeManagers
    <3>. QED
      BY <2>2, <3>1 DEF FreeInv, Linked
  <2>3. ASSUME NEW h \in Goroutines, at'[h] \in Holding PROVE HoldingAt(h)'
    <3>1. FreeManagers' = FreeManagers
      BY DEF FreeManagers
    <3>. QED
      BY <2>3, <3>1 DEF FreeInv, HoldingAt, Linked, Holding
  <2>4. ASSUME NEW h \in Goroutines, at'[h] = "publish" PROVE PublishAt(h)'
    BY <2>4 DEF FreeInv, PublishAt
  <2>. QED
    BY <2>1, <2>2, <2>3, <2>4 DEF FreeInv
<1>6. CountInv'
  <2>1. Uncounted' = Uncounted /\ Counted' = Counted \ {manager[g]}
    <3>1. ~Linked(manager[g]) /\ UNCHANGED <<fast_manager, locks, manager>>
      BY DEF FreeInv, HoldingAt, Holding
    <3>2. \A h \in Goroutines : at[h] = "discount" /\ manager[h] = manager[g] => h = g
      BY OneInside DEF Inside
    <3>. QED
      BY <3>1, <3>2 DEF Linked, Uncounted, Counted
  <2>2. manager[g] \in Counted
    BY DEF GlockInv, Inside, Counted
  <2>3. Cardinality(Counted') = Cardinality(Counted) - 1
    BY <2>1, <2>2, CountsFinite, FS_RemoveElement
  <2>4. fast_count' = fast_count - 1 /\ fast_count \in Int
    BY FS_CardinalityType
  <2>5. Uncounted # Goroutines
    BY DEF Uncounted
  <2>. QED
    BY <2>1, <2>3, <2>4, <2>5, CountsFinite DEF CountInv
<1>. QED
  BY <1>1, <1>2, <1>3, <1>4, <1>5, <1>6 DEF Safe

\* A manager that has left the index is free.
LEMMA RecycleSafe ==
  ASSUME TypeOK, Safe, NEW g \in Goroutines, Recycle(g) PROVE Safe'
<1>. USE IndexConstants DEF Safe, TypeOK, Recycle, Goto, Gets, Key, slot, managers, Leave
<1>0. /\ manager[g] \in Managers /\ manager[g] \notin FreeManagers /\ ~Linked(manager[g])
      /\ FreeManagers' = FreeManagers \cup {manager[g]} /\ FreeOnce'
  <2>1. manager[g] \in Managers /\ manager[g] \notin FreeManagers /\ ~Linked(manager[g])
    BY DEF FreeInv, HoldingAt, Holding
  <2>. QED
    BY <2>1, Recycled DEF FreeInv
<1>1. SlotInv'
  BY DEF SlotInv, Claiming
<1>2. KeyInv'
  <2>1. SlotKey'
    BY DEF KeyInv, SlotKey
  <2>2. ASSUME NEW k \in Keys, locks'[k] # NIL PROVE MapKey(k)'
    BY <2>2 DEF KeyInv, MapKey
  <2>3. ASSUME NEW m \in Managers PROVE LinkedMark(m)'
    BY <2>3 DEF KeyInv, LinkedMark, Linked
  <2>4. ASSUME NEW m \in Managers, held'[m] # NIL PROVE Leads(held[m], m)'
    BY <2>4 DEF KeyInv, Leads
  <2>. QED
    BY <2>1, <2>2, <2>3, <2>4 DEF KeyInv
<1>3. GlockInv'
  BY DEF GlockInv, Inside
<1>4. FoundInv'
  <2>1. ASSUME NEW h \in Goroutines, at'[h] \in {"count", "glock"} PROVE FoundAt(h)'
    BY <2>1 DEF FoundInv, FoundAt, Linked, Leads
  <2>2. ASSUME NEW h \in Goroutines, at'[h] = "mapped" PROVE MappedAt(h)'
    BY <2>2 DEF FoundInv, MappedAt
  <2>3. ASSUME NEW h \in Goroutines PROVE InsideAt(h)'
    BY <2>3 DEF FoundInv, InsideAt, DeleteAt, Leads
  <2>. QED
    BY <2>1, <2>2, <2>3 DEF FoundInv
<1>5. FreeInv'
  <2>1. FreeOnce'
    BY <1>0
  <2>2. ASSUME NEW m \in FreeManagers' PROVE ~Linked(m)'
    BY <1>0, <2>2 DEF FreeInv, Linked
  <2>3. ASSUME NEW h \in Goroutines, at'[h] \in Holding PROVE HoldingAt(h)'
    BY <1>0, <2>3 DEF FreeInv, HoldingAt, Linked, Holding
  <2>4. ASSUME NEW h \in Goroutines, at'[h] = "publish" PROVE PublishAt(h)'
    BY <2>4 DEF FreeInv, PublishAt
  <2>. QED
    BY <2>1, <2>2, <2>3, <2>4 DEF FreeInv
<1>6. CountInv'
  <2>1. Uncounted' = Uncounted /\ Counted' = Counted
    BY DEF Linked, Uncounted, Counted
  <2>. QED
    BY <2>1 DEF CountInv, Linked
<1>. QED
  BY <1>1, <1>2, <1>3, <1>4, <1>5, <1>6 DEF Safe

-----------------------------------------------------------------------------
\* The count is in the range TypeOK gives it.
LEMMA CountRange ==
  CountInv /\ fast_count \in Int
    => fast_count \in 1 - Cardinality(Goroutines)..Cardinality(Managers)
<1>. SUFFICES ASSUME CountInv, fast_count \in Int
              PROVE  fast_count \in 1 - Cardinality(Goroutines)..Cardinality(Managers)
  OBVIOUS
<1>. DEFINE U == Cardinality(Uncounted)
            C == Cardinality(Counted)
            G == Cardinality(Goroutines)
            M == Cardinality(Managers)
<1>1. U \in Nat /\ C \in Nat /\ IsFiniteSet(Uncounted) /\ IsFiniteSet(Counted)
  BY CountsFinite
<1>2. G \in Nat /\ M \in Nat
  BY FS_CardinalityType, IndexConstants
<1>3. Uncounted \subseteq Goroutines /\ Counted \subseteq Managers
  BY DEF Uncounted, Counted
<1>4. C <= M /\ U <= G
  BY <1>3, FS_Subset, IndexConstants
<1>5. CASE Uncounted = Goroutines
  <2>1. Counted # {}
    BY <1>5 DEF CountInv, Counted
  <2>2. C # 0
    BY <1>1, <2>1, FS_EmptySet
  <2>. HIDE DEF C
  <2>. QED
    BY <1>1, <1>2, <1>4, <1>5, <2>2 DEF CountInv, C
<1>6. CASE Uncounted # Goroutines
  <2>1. U # G
    BY <1>3, <1>6, FS_Subset, IndexConstants
  <2>. QED
    BY <1>1, <1>2, <1>4, <2>1 DEF CountInv
<1>. QED
  BY <1>5, <1>6

\* The same after a step.
LEMMA CountRangeNext ==
  (CountInv /\ fast_count \in Int
    => fast_count \in 1 - Cardinality(Goroutines)..Cardinality(Managers))'
BY CountRange, PTL

\* Every step keeps the types, given where it leaves the count.
LEMMA TypeStep ==
  ASSUME TypeOK, Safe, ~raced, NEW g \in Goroutines, Step(g),
         fast_count' \in 1 - Cardinality(Goroutines)..Cardinality(Managers)
  PROVE  TypeOK'
<1>. USE IndexConstants DEF TypeOK, Goto, Gets, slot, managers
<1>0. Key(g) \in Keys
  BY DEF Key, Commands
<1>1. CASE Begin(g)
  BY <1>1 DEF Begin, Locations
<1>2. CASE LoadCount(g)
  BY <1>2 DEF LoadCount, Locations
<1>3. CASE Claim(g)
  <2>1. raced' \in BOOLEAN
    BY <1>3 DEF Claim
  <2>. QED
    BY <1>3, <2>1 DEF Claim, Locations
<1>4. CASE Match(g)
  BY <1>4 DEF Match, Locations
<1>5. CASE Return(g)
  <2>1. raced' \in BOOLEAN
    BY <1>5 DEF Return
  <2>. QED
    BY <1>5, <2>1 DEF Return, Locations
<1>6. CASE Take(g)
  <2>1. raced' \in BOOLEAN
    BY <1>6 DEF Take, TakeManager
  <2>2. Head(free_lock_managers) \in Managers /\ free_lock_managers' \in Seq(Managers)
    BY <1>6 DEF Take, TakeManager
  <2>. QED
    BY <1>6, <2>1, <2>2 DEF Take, TakeManager, Locations
<1>7. CASE Publish(g)
  <2>1. manager[g] \in Managers
    BY <1>7 DEF Safe, Publish, FreeInv, HoldingAt, Holding
  <2>. QED
    BY <1>0, <1>7, <2>1 DEF Publish, Locations
<1>8. CASE Count(g)
  BY <1>8 DEF Count, Locations
<1>9. CASE Map(g)
  <2>1. CASE locks[Key(g)] # NIL \/ command[g].op = "unlock"
    BY <1>0, <1>9, <2>1 DEF Map, Locations
  <2>2. CASE locks[Key(g)] = NIL /\ command[g].op # "unlock"
    <3>1. raced' \in BOOLEAN
      BY <1>9, <2>2 DEF Map, TakeManager
    <3>2. /\ free_lock_managers # <<>> /\ free_lock_managers' = Tail(free_lock_managers)
          /\ manager' = [manager EXCEPT ![g] = Head(free_lock_managers)]
          /\ freed' = [freed EXCEPT ![Head(free_lock_managers)] = FALSE]
          /\ locks' = [locks EXCEPT ![Key(g)] = Head(free_lock_managers)]
          /\ at' = [at EXCEPT ![g] = "mapped"]
          /\ UNCHANGED <<slot, lock_key, fast_key_value, held, glock, command>>
      BY <1>9, <2>2 DEF Map, TakeManager
    <3>3. Head(free_lock_managers) \in Managers /\ free_lock_managers' \in Seq(Managers)
      BY <3>2
    <3>. QED
      BY <1>0, <3>1, <3>2, <3>3 DEF Locations
  <2>. QED
    BY <2>1, <2>2
<1>10. CASE Mapped(g)
  BY <1>0, <1>10 DEF Mapped, Locations
<1>11. CASE Enter(g)
  BY <1>11 DEF Enter, Locations
<1>12. CASE DoLock(g)
  <2>1. UNCHANGED <<slot, locks, free_lock_managers, lock_key, freed, fast_key_value, command>>
    BY <1>12 DEF DoLock
  <2>2. UNCHANGED <<manager, raced>> /\ held' \in [Managers -> Keys \cup {NIL}]
    BY <1>0, <1>12 DEF DoLock
  <2>3. glock' \in [Managers -> Goroutines \cup {NIL}] /\ at' \in [Goroutines -> Locations]
    BY <1>12 DEF DoLock, Leave, Locations
  <2>. QED
    BY <2>1, <2>2, <2>3
<1>13. CASE DoUnLock(g)
  BY <1>13 DEF DoUnLock, Leave, Locations
<1>14. CASE Remove(g)
  BY <1>14 DEF Remove, Leave, Locations
<1>15. CASE Clear(g)
  BY <1>15 DEF Clear, Locations
<1>16. CASE Delete(g)
  BY <1>16 DEF Delete, Leave, Locations
<1>17. CASE Discount(g)
  BY <1>17 DEF Discount, Locations
<1>18. CASE Recycle(g)
  <2>1. manager[g] \in Managers
    BY <1>18 DEF Safe, Recycle, GlockInv, Inside
  <2>. QED
    BY <1>18, <2>1 DEF Recycle, Leave, Locations
<1>. QED
  BY <1>1, <1>2, <1>3, <1>4, <1>5, <1>6, <1>7, <1>8, <1>9, <1>10, <1>11, <1>12, <1>13,
     <1>14, <1>15, <1>16, <1>17, <1>18 DEF Step

\* Only Count and Discount change the count, and they lose no race.
LEMMA CountMoves ==
  ASSUME TypeOK, ~raced, NEW g \in Goroutines, Step(g)
  PROVE  fast_count' \in Int /\ (fast_count' = fast_count \/ ~raced')
<1>1. fast_count \in Int
  BY FS_CardinalityType, IndexConstants DEF TypeOK
<1>2. Count(g) \/ Discount(g) => fast_count' \in Int /\ ~raced'
  BY <1>1 DEF Count, Discount
<1>3. Step(g) /\ ~Count(g) /\ ~Discount(g) => fast_count' = fast_count
  BY DEF Step, slot, Begin, LoadCount, Claim, Match, Return, Take, Publish, Map, Mapped,
         Enter, DoLock, DoUnLock, Remove, Clear, Delete, Recycle
<1>. QED
  BY <1>1, <1>2, <1>3

\* An index with no manager in it.
LEMMA InitIndexInv == Init => IndexInv
<1>. SUFFICES ASSUME Init PROVE IndexInv
  OBVIOUS
<1>. USE IndexConstants
<1>1. Cardinality(Managers) \in Nat /\ Cardinality(Goroutines) \in Nat
  BY FS_CardinalityType
<1>2. Cardinality(Goroutines) # 0
  BY FS_EmptySet
<1>3. \A g \in Goroutines : at[g] = "idle"
  BY DEF Init
<1>4. \A m : ~Linked(m) \/ m = NIL
  BY DEF Init, Linked
<1>5. TypeOK
  <2>1. fast_count \in 1 - Cardinality(Goroutines)..Cardinality(Managers)
    BY <1>1, <1>2 DEF Init
  <2>2. free_lock_managers \in Seq(Managers)
    BY <1>1 DEF Init
  <2>3. command \in [Goroutines -> Commands]
    <3>1. PICK k \in Keys : TRUE
      OBVIOUS
    <3>2. [op |-> "lock", key |-> k] \in Commands
      BY DEF Commands
    <3>. QED
      BY <3>2 DEF Init
  <2>4. at \in [Goroutines -> Locations]
    BY DEF Init, Locations
  <2>5. /\ freed \in [Managers -> BOOLEAN] /\ fast_key_value \in [Managers -> BOOLEAN]
        /\ raced \in BOOLEAN
    BY Zenon DEF Init
  <2>. QED
    BY <2>1, <2>2, <2>3, <2>4, <2>5 DEF TypeOK, Init
<1>6. SlotInv
  BY <1>3 DEF Init, SlotInv, Claiming
<1>7. KeyInv
  <2>1. \A m \in Managers : LinkedMark(m)
    <3>1. \A m \in Managers : ~fast_key_value[m] /\ ~Linked(m)
      BY <1>4 DEF Init
    <3>. QED
      BY <3>1 DEF LinkedMark
  <2>. QED
    BY <2>1 DEF Init, KeyInv, SlotKey
<1>8. GlockInv
  BY <1>3 DEF GlockInv, Inside
<1>9. FoundInv
  BY <1>3 DEF FoundInv, InsideAt
<1>10. FreeInv
  <2>1. FreeOnce
    BY DEF Init, FreeOnce
  <2>2. FreeManagers \subseteq Managers
    BY <1>5 DEF TypeOK, FreeManagers
  <2>. QED
    BY <1>3, <1>4, <2>1, <2>2 DEF FreeInv, Holding
<1>11. CountInv
  <2>1. Uncounted = {} /\ Counted = {}
    BY <1>3, <1>4 DEF Uncounted, Counted
  <2>2. Cardinality(Uncounted) = 0 /\ Cardinality(Counted) = 0
    BY <2>1, FS_EmptySet
  <2>3. fast_count = 0
    BY DEF Init
  <2>. QED
    BY <2>1, <2>2, <2>3 DEF CountInv
<1>. QED
  BY <1>5, <1>6, <1>7, <1>8, <1>9, <1>10, <1>11 DEF IndexInv, Safe

\* Every step of every goroutine.
LEMMA StepIndexInv ==
  ASSUME IndexInv, [Next]_vars PROVE IndexInv'
<1>1. CASE UNCHANGED vars
  <2>. USE <1>1 DEF vars, slot, managers
  <2>1. /\ \A m : Linked(m)' <=> Linked(m)
        /\ \A k, m : Leads(k, m)' <=> Leads(k, m)
        /\ \A g : Key(g)' = Key(g)
        /\ FreeManagers' = FreeManagers /\ Uncounted' = Uncounted /\ Counted' = Counted
    BY DEF Linked, Leads, Key, FreeManagers, Uncounted, Counted
  <2>2. TypeOK' <=> TypeOK
    BY DEF TypeOK
  <2>3. SlotInv' <=> SlotInv
    BY DEF SlotInv, Key
  <2>4. KeyInv' <=> KeyInv
    BY DEF KeyInv, SlotKey, MapKey, LinkedMark, Linked, Leads
  <2>5. GlockInv' <=> GlockInv
    BY DEF GlockInv
  <2>6. FoundInv' <=> FoundInv
    BY DEF FoundInv, FoundAt, MappedAt, InsideAt, DeleteAt, Linked, Leads, Key
  <2>7. FreeInv' <=> FreeInv
    <3>1. FreeOnce' <=> FreeOnce
      BY DEF FreeOnce
    <3>2. ASSUME NEW g PROVE HoldingAt(g)' <=> HoldingAt(g)
      BY <2>1 DEF HoldingAt, Linked
    <3>3. ASSUME NEW g PROVE PublishAt(g)' <=> PublishAt(g)
      BY DEF PublishAt
    <3>. QED
      BY <2>1, <3>1, <3>2, <3>3 DEF FreeInv
  <2>8. CountInv' <=> CountInv
    BY <2>1 DEF CountInv
  <2>. QED
    BY <2>2, <2>3, <2>4, <2>5, <2>6, <2>7, <2>8 DEF IndexInv, Safe
<1>2. ASSUME NEW g \in Goroutines, ~raced, Step(g) PROVE IndexInv'
  <2>1. TypeOK /\ Safe
    BY <1>2 DEF IndexInv
  <2>2. ASSUME ~raced' PROVE Safe'
    BY <1>2, <2>1, <2>2, BeginSafe, LoadCountSafe, ClaimSafe, MatchSafe, ReturnSafe, TakeSafe,
       PublishSafe, CountSafe, MapSafe, MappedSafe, EnterSafe, DoLockSafe, DoUnLockSafe,
       RemoveSafe, ClearSafe, DeleteSafe, DiscountSafe, RecycleSafe DEF Step
  <2>3. fast_count' \in Int /\ (fast_count' = fast_count \/ ~raced')
    BY <1>2, <2>1, CountMoves
  <2>4. fast_count' \in 1 - Cardinality(Goroutines)..Cardinality(Managers)
    <3>1. ASSUME ~raced' PROVE fast_count' \in 1 - Cardinality(Goroutines)..Cardinality(Managers)
      <4>1. CountInv' /\ fast_count' \in Int
        BY <2>2, <2>3, <3>1 DEF Safe
      <4>. QED
        BY <4>1, CountRangeNext
    <3>. QED
      BY <2>1, <2>3, <3>1 DEF TypeOK
  <2>5. TypeOK'
    BY <1>2, <2>1, <2>4, TypeStep
  <2>. QED
    BY <2>2, <2>5 DEF IndexInv
<1>. QED
  BY <1>1, <1>2 DEF Next

\* The invariant of the index.
LEMMA IndexSafe == Spec => []IndexInv
<1>1. IndexInv /\ [Next]_vars => IndexInv'
  BY StepIndexInv
<1>. QED
  BY <1>1, InitIndexInv, PTL DEF Spec

-----------------------------------------------------------------------------
\* Whatever goroutines of however many sessions do at the same time, and until one
\* of the named races is lost: GetOrNewLockManager never gives a key that is held
\* another manager, and a LOCK is never granted on a manager of another key.
THEOREM KeysHeldOnce == Spec => []KeyHeldOnce
<1>1. ASSUME IndexInv PROVE KeyHeldOnce
  <2>. SUFFICES ASSUME ~raced, NEW m \in Managers, held[m] # NIL
                PROVE  /\ \/ held[m] = lock_key[m]
                          \/ \E g \in Goroutines : at[g] = "mapped" /\ manager[g] = m
                       /\ \A n \in Managers \ {m} : held[n] # held[m]
    BY DEF KeyHeldOnce
  <2>1. TypeOK /\ KeyInv
    BY <1>1 DEF IndexInv, Safe
  <2>2. \A n \in Managers : held[n] # NIL => Leads(held[n], n) /\ held[n] \in Keys
    BY <2>1 DEF KeyInv, TypeOK
  <2>3. held[m] = lock_key[m] \/ \E g \in Goroutines : at[g] = "mapped" /\ manager[g] = m
    <3>1. CASE fast_manager = m /\ lock_key[m] = held[m]
      BY <3>1
    <3>2. CASE locks[held[m]] = m
      <4>1. MapKey(held[m])
        BY <2>1, <2>2, <3>2, IndexConstants DEF KeyInv
      <4>. QED
        BY <3>2, <4>1 DEF MapKey
    <3>. QED
      BY <2>2, <3>1, <3>2 DEF Leads
  <2>4. ASSUME NEW n \in Managers \ {m}, held[n] = held[m] PROVE FALSE
    <3>1. Leads(held[m], m) /\ Leads(held[m], n) /\ held[m] \in Keys
      BY <2>2, <2>4
    <3>. QED
      BY <2>1, <3>1, IndexConstants DEF KeyInv, SlotKey, Leads
  <2>. QED
    BY <2>3, <2>4
<1>. QED
  BY <1>1, IndexSafe, PTL

\* Until a race is lost, an UNLOCK finds the manager of a held key: the slot or the
\* map leads to it, and the count that GetLockManager looks at first is not zero
\* once every manager in the index is counted.
THEOREM HoldersFound == Spec => []HolderFound
<1>1. ASSUME IndexInv PROVE HolderFound
  <2>. SUFFICES ASSUME ~raced, NEW m \in Managers, held[m] # NIL
                PROVE  /\ fast_manager = m \/ locks[held[m]] = m
                       /\ \/ fast_count # 0
                          \/ \E g \in Goroutines : at[g] \in {"mapped", "count"}
    BY DEF HolderFound
  <2>1. TypeOK /\ KeyInv /\ CountInv
    BY <1>1 DEF IndexInv, Safe
  <2>2. Leads(held[m], m) /\ held[m] \in Keys
    BY <2>1 DEF KeyInv, TypeOK
  <2>3. fast_manager = m \/ locks[held[m]] = m
    BY <2>2 DEF Leads
  <2>4. ASSUME \A g \in Goroutines : at[g] \notin {"mapped", "count"} PROVE fast_count # 0
    <3>1. Uncounted = {} /\ Counted # {}
      BY <2>2, <2>3, <2>4 DEF Uncounted, Counted, Linked
    <3>2. Cardinality(Uncounted) = 0 /\ Cardinality(Counted) # 0
      BY <3>1, CountsFinite, FS_EmptySet
    <3>3. fast_count \in Int
      BY <2>1, FS_CardinalityType, IndexConstants DEF TypeOK
    <3>. QED
      BY <2>1, <3>2, <3>3, CountsFinite DEF CountInv
  <2>. QED
    BY <2>3, <2>4
<1>. QED
  BY <1>1, IndexSafe, PTL

\* Until a race is lost, the managers are accounted for: none is free twice or free
\* while the index leads to it, and whenever no goroutine is on its way the slot's
\* count is the number of managers in the slot and in the map.
THEOREM ManagersAccounted == Spec => []ManagersCounted
<1>1. ASSUME IndexInv PROVE ManagersCounted
  <2>1. TypeOK
    BY <1>1 DEF IndexInv
  <2>2. ManagerFreeOnce
    <3>. SUFFICES ASSUME ~raced, NEW i \in DOMAIN free_lock_managers
                  PROVE  /\ \A j \in DOMAIN free_lock_managers \ {i} :
                              free_lock_managers[i] # free_lock_managers[j]
                         /\ free_lock_managers[i] # fast_manager
                         /\ \A k \in Keys : free_lock_managers[i] # locks[k]
      BY DEF ManagerFreeOnce
    <3>1. FreeInv
      BY <1>1 DEF IndexInv, Safe
    <3>2. free_lock_managers[i] \in FreeManagers
      BY DEF FreeManagers
    <3>. QED
      BY <3>1, <3>2 DEF FreeInv, FreeOnce, Linked
  <2>3. SlotCounted
    <3>. SUFFICES ASSUME ~raced, \A g \in Goroutines : at[g] = "idle"
                  PROVE  fast_count = Cardinality({m \in Managers :
                             m = fast_manager \/ \E k \in Keys : locks[k] = m})
      BY DEF SlotCounted
    <3>1. CountInv
      BY <1>1 DEF IndexInv, Safe
    <3>2. Uncounted = {}
      BY DEF Uncounted
    <3>3. Counted = {m \in Managers : m = fast_manager \/ \E k \in Keys : locks[k] = m}
      BY DEF Counted, Linked
    <3>4. Cardinality(Uncounted) = 0
      BY <3>2, FS_EmptySet
    <3>5. fast_count \in Int
      BY <2>1, FS_CardinalityType, IndexConstants DEF TypeOK
    <3>6. fast_count = Cardinality(Counted)
      BY <3>1, <3>4, <3>5, CountsFinite DEF CountInv
    <3>. QED
      BY <3>3, <3>6
  <2>. QED
    BY <2>1, <2>2, <2>3 DEF ManagersCounted
<1>. QED
  BY <1>1, IndexSafe, PTL
=============================================================================
