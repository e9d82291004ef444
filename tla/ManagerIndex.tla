---------------------------- MODULE ManagerIndex ----------------------------
(* How LockDB finds the LockManager of a key (GetOrNewLockManager,           *)
(* GetLockManager and RemoveLockManager of server/db.go): one slot of        *)
(* fast_locks with the keys that hash to it, the map locks for the keys that *)
(* find the slot taken, and the free managers. Goroutines of sessions run    *)
(* Lock and UnLock; every access to a shared word that takes no lock is a    *)
(* step of its own. What Lock and UnLock do with a manager is in LockDB;     *)
(* here a manager is held or not. free_lock_managers is taken as a queue:    *)
(* its two counters are not modelled.                                        *)
EXTENDS Integers, Sequences, FiniteSets

CONSTANTS Keys, Managers, Goroutines, NIL

ASSUME IndexConstants ==
  /\ NIL \notin Keys \cup Managers \cup Goroutines /\ Keys # {} /\ Goroutines # {}
  /\ IsFiniteSet(Managers) /\ IsFiniteSet(Goroutines)

VARIABLES
  \* FastKeyValue
  fast_lock, fast_manager, fast_count,
  locks,                  \* the map, under LockDB.glock in single steps
  free_lock_managers,
  \* LockManager
  lock_key, freed, fast_key_value, glock,
  held,                   \* the key a manager's lock was granted for, or NIL
  \* a goroutine: where it is, its command, the manager it has
  at, command, manager,
  raced                   \* history: a known race has happened, see Races

slot == <<fast_lock, fast_manager, fast_count>>
managers == <<lock_key, freed, fast_key_value, held>>
vars == <<slot, locks, free_lock_managers, managers, glock, at, command, manager, raced>>

Commands == [op : {"lock", "unlock"}, key : Keys]

Locations == {"idle", "load", "claim", "match", "return", "take", "publish", "count", "map",
              "mapped", "glock", "locked", "remove", "clear", "delete", "discount", "recycle"}

\* The count wraps below zero only while a manager is removed before the
\* goroutine that made it has counted it.
TypeOK ==
  /\ fast_lock \in 0..1 /\ fast_manager \in Managers \cup {NIL}
  /\ fast_count \in 1 - Cardinality(Goroutines)..Cardinality(Managers)
  /\ locks \in [Keys -> Managers \cup {NIL}]
  /\ free_lock_managers \in Seq(Managers)
  /\ lock_key \in [Managers -> Keys \cup {NIL}] /\ freed \in [Managers -> BOOLEAN]
  /\ fast_key_value \in [Managers -> BOOLEAN]
  /\ glock \in [Managers -> Goroutines \cup {NIL}] /\ held \in [Managers -> Keys \cup {NIL}]
  /\ at \in [Goroutines -> Locations] /\ command \in [Goroutines -> Commands]
  /\ manager \in [Goroutines -> Managers \cup {NIL}]
  /\ raced \in BOOLEAN

Goto(g, location) == at' = [at EXCEPT ![g] = location]
Gets(g, m) == manager' = [manager EXCEPT ![g] = m]
Key(g) == command[g].key
-----------------------------------------------------------------------------
(* The races of this code. A step that loses one sets raced.                 *)

\* A key gets a second manager: one goroutine saw the slot taken and goes to the
\* map, another saw it empty and claims it. Neither looks where the other is.
ClaimedAndMapped(g) == locks[Key(g)] # NIL

MappedAndClaimed(g) ==
  \/ \E h \in Goroutines \ {g} : at[h] \in {"take", "publish"} /\ Key(h) = Key(g)
  \/ fast_manager # NIL /\ lock_key[fast_manager] = Key(g)

\* The slot is claimed while RemoveLockManager, which gives the lock of the
\* slot back first, has still to clear it: it will clear the new manager.
ClaimedBeforeCleared(g) ==
  \E h \in Goroutines \ {g} : at[h] = "clear" /\ manager[h] = fast_manager

\* A free manager is given to a key while another goroutine, which found it
\* under its last key, has yet to take its glock: Lock compares only freed.
TakenWhileFound(g, m) ==
  \E h \in Goroutines \ {g} : manager[h] = m /\ at[h] \in {"mapped", "count", "glock"}

\* fast_value.manager is tested and then read again, when it may be nil or the
\* manager of another key.
ReadTwice(g) == fast_manager = NIL \/ (fast_manager # NIL /\ lock_key[fast_manager] # Key(g))
-----------------------------------------------------------------------------
(* GetOrNewLockManager and GetLockManager.                                   *)

Begin(g) ==
  /\ at[g] = "idle"
  /\ \E c \in Commands : command' = [command EXCEPT ![g] = c]
  /\ Goto(g, "load") /\ Gets(g, NIL)
  /\ UNCHANGED <<slot, locks, free_lock_managers, managers, glock, raced>>

LoadCount(g) ==
  /\ at[g] = "load"
  /\ Goto(g, IF fast_count # 0 THEN "match"
             ELSE IF command[g].op = "lock" THEN "claim" ELSE "idle")
  /\ UNCHANGED <<slot, locks, free_lock_managers, managers, glock, command, manager, raced>>

\* An empty slot is claimed by its lock; a goroutine that loses spins until the
\* winner has counted.
ClaimFree_Unlocked(g) == fast_count = 0

ClaimFree(g) == fast_lock = 0

Claim(g) ==
  /\ at[g] = "claim"
  /\ \/ /\ ClaimFree(g)
        /\ fast_lock' = 1 /\ Goto(g, "take")
        /\ raced' = (raced \/ ClaimedAndMapped(g) \/ ClaimedBeforeCleared(g))
     \/ /\ ~ClaimFree(g) /\ fast_count # 0
        /\ Goto(g, "match") /\ UNCHANGED <<fast_lock, raced>>
  /\ UNCHANGED <<fast_manager, fast_count, locks, free_lock_managers, managers, glock, command, manager>>

Match(g) ==
  /\ at[g] = "match"
  /\ Goto(g, IF fast_manager # NIL /\ lock_key[fast_manager] = Key(g) THEN "return" ELSE "map")
  /\ UNCHANGED <<slot, locks, free_lock_managers, managers, glock, command, manager, raced>>

Return(g) ==
  /\ at[g] = "return"
  /\ Gets(g, fast_manager) /\ Goto(g, "glock")
  /\ raced' = (raced \/ ReadTwice(g))
  /\ UNCHANGED <<slot, locks, free_lock_managers, managers, glock, command>>

\* InitNewLockManager makes managers when there is none: there always is one.
TakeManager(g) ==
  LET m == Head(free_lock_managers)
  IN /\ free_lock_managers # <<>>
     /\ free_lock_managers' = Tail(free_lock_managers)
     /\ Gets(g, m)
     /\ raced' = (raced \/ TakenWhileFound(g, m) \/ (at[g] = "map" /\ MappedAndClaimed(g)))

Take(g) ==
  /\ at[g] = "take"
  /\ TakeManager(g) /\ Goto(g, "publish")
  /\ UNCHANGED <<slot, locks, managers, glock, command>>

Publish(g) ==
  /\ at[g] = "publish"
  /\ freed' = [freed EXCEPT ![manager[g]] = FALSE]
  /\ lock_key' = [lock_key EXCEPT ![manager[g]] = Key(g)]
  /\ fast_key_value' = [fast_key_value EXCEPT ![manager[g]] = TRUE]
  /\ fast_manager' = manager[g]
  /\ Goto(g, "count")
  /\ UNCHANGED <<fast_lock, fast_count, locks, free_lock_managers, held, glock, command, manager, raced>>

Count(g) ==
  /\ at[g] = "count"
  /\ fast_count' = fast_count + 1
  /\ Goto(g, "glock")
  /\ UNCHANGED <<fast_lock, fast_manager, locks, free_lock_managers, managers, glock, command, manager, raced>>

\* Under LockDB.glock.
Map(g) ==
  /\ at[g] = "map"
  /\ IF locks[Key(g)] # NIL
       THEN /\ Gets(g, locks[Key(g)]) /\ Goto(g, "glock")
            /\ UNCHANGED <<locks, free_lock_managers, freed, raced>>
     ELSE IF command[g].op = "unlock"
       THEN /\ Goto(g, "idle")
            /\ UNCHANGED <<manager, locks, free_lock_managers, freed, raced>>
     ELSE /\ TakeManager(g)
          /\ freed' = [freed EXCEPT ![Head(free_lock_managers)] = FALSE]
          /\ locks' = [locks EXCEPT ![Key(g)] = Head(free_lock_managers)]
          /\ Goto(g, "mapped")
  /\ UNCHANGED <<slot, lock_key, fast_key_value, held, glock, command>>

Mapped(g) ==
  /\ at[g] = "mapped"
  /\ lock_key' = [lock_key EXCEPT ![manager[g]] = Key(g)]
  /\ fast_key_value' = [fast_key_value EXCEPT ![manager[g]] = TRUE]
  /\ Goto(g, "count")
  /\ UNCHANGED <<slot, locks, free_lock_managers, freed, held, glock, command, manager, raced>>
-----------------------------------------------------------------------------
(* Lock and UnLock on the manager that was found.                            *)

\* Lock starts again when the manager was removed meanwhile; UnLock answers
\* that nothing is locked.
Removed_Unchecked(g) == FALSE

Removed(g) == command[g].op = "lock" /\ freed[manager[g]]

Enter(g) ==
  /\ at[g] = "glock" /\ glock[manager[g]] = NIL
  /\ IF Removed(g)
       THEN Goto(g, "load") /\ UNCHANGED glock
       ELSE Goto(g, "locked") /\ glock' = [glock EXCEPT ![manager[g]] = g]
  /\ UNCHANGED <<slot, locks, free_lock_managers, managers, command, manager, raced>>

Leave(g) == glock' = [glock EXCEPT ![manager[g]] = NIL] /\ Goto(g, "idle")

\* The key is free and is granted; or it is refused; or it is granted without a
\* lease, which leaves nothing behind and the manager is removed.
DoLock(g) ==
  LET m == manager[g]
  IN /\ at[g] = "locked" /\ command[g].op = "lock"
     /\ \/ /\ held[m] = NIL /\ held' = [held EXCEPT ![m] = Key(g)]
           /\ Leave(g)
        \/ held[m] # NIL /\ Leave(g) /\ UNCHANGED held
        \/ held[m] = NIL /\ Goto(g, "remove") /\ UNCHANGED <<held, glock>>
     /\ UNCHANGED <<slot, locks, free_lock_managers, lock_key, freed, fast_key_value, command, manager, raced>>

DoUnLock(g) ==
  LET m == manager[g]
  IN /\ at[g] = "locked" /\ command[g].op = "unlock"
     /\ \/ held[m] = NIL /\ Leave(g) /\ UNCHANGED held
        \/ /\ held[m] # NIL /\ held' = [held EXCEPT ![m] = NIL]
           /\ Goto(g, "remove") /\ UNCHANGED glock
     /\ UNCHANGED <<slot, locks, free_lock_managers, lock_key, freed, fast_key_value, command, manager, raced>>
-----------------------------------------------------------------------------
(* RemoveLockManager, with the glock of the manager.                         *)

\* fast_key_value is set by the goroutine that made the manager, and until then
\* nobody else removes it.
Remove(g) ==
  LET m == manager[g]
  IN /\ at[g] = "remove"
     /\ \/ /\ ~fast_key_value[m] \/ (fast_manager = m /\ fast_lock = 0)
           /\ Leave(g) /\ UNCHANGED fast_lock
        \/ /\ fast_key_value[m] /\ fast_manager = m /\ fast_lock = 1
           /\ fast_lock' = 0 /\ Goto(g, "clear") /\ UNCHANGED glock
        \/ /\ fast_key_value[m] /\ fast_manager # m
           /\ Goto(g, "delete") /\ UNCHANGED <<fast_lock, glock>>
     /\ UNCHANGED <<fast_manager, fast_count, locks, free_lock_managers, managers, command, manager, raced>>

Clear_StillLinked(g) ==
  /\ at[g] = "clear"
  /\ freed' = [freed EXCEPT ![manager[g]] = TRUE]
  /\ fast_key_value' = [fast_key_value EXCEPT ![manager[g]] = FALSE]
  /\ Goto(g, "discount")
  /\ UNCHANGED <<slot, locks, free_lock_managers, lock_key, held, glock, command, manager, raced>>

Clear(g) ==
  /\ at[g] = "clear"
  /\ freed' = [freed EXCEPT ![manager[g]] = TRUE]
  /\ fast_key_value' = [fast_key_value EXCEPT ![manager[g]] = FALSE]
  /\ fast_manager' = NIL /\ Goto(g, "discount")
  /\ UNCHANGED <<fast_lock, fast_count, locks, free_lock_managers, lock_key, held, glock, command, manager, raced>>

\* Under LockDB.glock, and what follows it up to the counter.
Delete(g) ==
  LET m == manager[g]
  IN /\ at[g] = "delete"
     /\ IF freed[m] \/ locks[lock_key[m]] = NIL
          THEN Leave(g) /\ UNCHANGED <<locks, freed, fast_key_value>>
          ELSE /\ locks' = [locks EXCEPT ![lock_key[m]] = NIL]
               /\ freed' = [freed EXCEPT ![m] = TRUE]
               /\ fast_key_value' = [fast_key_value EXCEPT ![m] = FALSE]
               /\ Goto(g, "discount") /\ UNCHANGED glock
     /\ UNCHANGED <<slot, free_lock_managers, lock_key, held, command, manager, raced>>

Discount(g) ==
  /\ at[g] = "discount"
  /\ fast_count' = fast_count - 1
  /\ Goto(g, "recycle")
  /\ UNCHANGED <<fast_lock, fast_manager, locks, free_lock_managers, managers, glock, command, manager, raced>>

Recycle(g) ==
  /\ at[g] = "recycle"
  /\ free_lock_managers' = Append(free_lock_managers, manager[g])
  /\ Leave(g)
  /\ UNCHANGED <<slot, locks, managers, command, manager, raced>>
-----------------------------------------------------------------------------
Init ==
  /\ fast_lock = 0 /\ fast_manager = NIL /\ fast_count = 0
  /\ locks = [k \in Keys |-> NIL]
  /\ free_lock_managers \in {s \in [1..Cardinality(Managers) -> Managers] :
                               \A i, j \in DOMAIN s : s[i] = s[j] => i = j}
  /\ lock_key = [m \in Managers |-> NIL] /\ freed = [m \in Managers |-> FALSE]
  /\ fast_key_value = [m \in Managers |-> FALSE]
  /\ glock = [m \in Managers |-> NIL] /\ held = [m \in Managers |-> NIL]
  /\ at = [g \in Goroutines |-> "idle"]
  /\ command \in {[g \in Goroutines |-> c] : c \in {CHOOSE c \in Commands : TRUE}}
  /\ manager = [g \in Goroutines |-> NIL]
  /\ raced = FALSE

Step(g) ==
  \/ Begin(g) \/ LoadCount(g) \/ Claim(g) \/ Match(g) \/ Return(g) \/ Take(g) \/ Publish(g)
  \/ Count(g) \/ Map(g) \/ Mapped(g) \/ Enter(g) \/ DoLock(g) \/ DoUnLock(g)
  \/ Remove(g) \/ Clear(g) \/ Delete(g) \/ Discount(g) \/ Recycle(g)

\* Bound: behaviours are followed until one of the races is lost.
Next == ~raced /\ \E g \in Goroutines : Step(g)

Spec == Init /\ [][Next]_vars
-----------------------------------------------------------------------------
(* Properties, of behaviours that lose none of the races.                    *)

\* A key is held by one manager at a time, the one whose lock_key it is: a LOCK
\* is never granted while another manager has granted the same key, and never
\* on a manager that has gone over to another key.
KeyHeldOnce ==
  ~raced => \A m \in Managers : held[m] # NIL =>
    /\ held[m] = lock_key[m] \/ \E g \in Goroutines : at[g] = "mapped" /\ manager[g] = m
    /\ \A n \in Managers \ {m} : held[n] # held[m]

\* UNLOCK finds a held key: its manager is in the slot or in the map, and the
\* slot's count, which alone sends GetLockManager on to either, is not zero
\* once the goroutine that made the manager has counted it.
HolderFound ==
  ~raced => \A m \in Managers : held[m] # NIL =>
    /\ fast_manager = m \/ locks[held[m]] = m
    /\ fast_count # 0 \/ \E g \in Goroutines : at[g] \in {"mapped", "count"}

\* A manager is free once, or in use: never handed out twice, never free while
\* the slot or the map leads to it.
ManagerFreeOnce ==
  ~raced => \A i \in DOMAIN free_lock_managers :
    /\ \A j \in DOMAIN free_lock_managers \ {i} : free_lock_managers[i] # free_lock_managers[j]
    /\ free_lock_managers[i] # fast_manager
    /\ \A k \in Keys : free_lock_managers[i] # locks[k]

\* With no goroutine in between, the slot's count is the number of managers in
\* it and in the map: it neither sticks above zero, which would send every later
\* key to the map, nor wraps below.
SlotCounted ==
  (~raced /\ \A g \in Goroutines : at[g] = "idle") =>
    fast_count = Cardinality({m \in Managers : m = fast_manager \/ \E k \in Keys : locks[k] = m})

\* The managers are accounted for: TakeManager and RemoveLockManager neither lose
\* nor double one, and the slot's count tells how many are in use.
ManagersCounted == TypeOK /\ ManagerFreeOnce /\ SlotCounted
=============================================================================
