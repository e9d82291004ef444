--------------------------- MODULE LockDB_proofs ---------------------------
(* Theorems about LockDB for every value of its constants: its types, why  *)
(* its references and locks are counted right, and what it promises the    *)
(* requests and the holders of a key.                                      *)
EXTENDS LockDB, FiniteSetTheorems, SequenceTheorems, TLAPS

-----------------------------------------------------------------------------
(* Facts about the operators of LockDB                                     *)

\* What is left of a queue after k entries were popped: the rest of it, in
\* order, and the popped entries are its elements.
LEMMA PopFacts ==
  ASSUME NEW S, NEW q \in Seq(S), NEW k \in 0..Len(q)
  PROVE  /\ SubSeq(q, k + 1, Len(q)) \in Seq(S)
         /\ Len(SubSeq(q, k + 1, Len(q))) = Len(q) - k
         /\ \A i \in 1..(Len(q) - k) : SubSeq(q, k + 1, Len(q))[i] = q[k + i]
         /\ Popped(q, k) \subseteq S
<1>. DEFINE r == SubSeq(q, k + 1, Len(q))
<1>1. k + 1 \in 1..(Len(q) + 1) /\ Len(q) \in ((k + 1) - 1)..Len(q)
  OBVIOUS
<1>2. r \in Seq(S) /\ Len(r) = Len(q) - (k + 1) + 1
  BY <1>1, SubSeqProperties, Len(q) \in Nat
<1>3. \A i \in 1..(Len(q) - (k + 1) + 1) : r[i] = q[(k + 1) + i - 1]
  BY <1>1, SubSeqProperties
<1>4. Popped(q, k) \subseteq S
  BY DEF Popped
<1>. QED
  BY <1>2, <1>3, <1>4

\* Every set of Lock objects is finite and has a cardinality.
LEMMA LockSets ==
  ASSUME NEW Z \in SUBSET Locks
  PROVE  IsFiniteSet(Z) /\ Cardinality(Z) \in Nat
BY FS_Subset, FS_CardinalityType, ConstantsAssumption

\* GetLockedLock returns a Lock object or nil.
LEMMA HolderType ==
  ASSUME TypeOK, NEW id \in LockIds
  PROVE  GetLockedLock(id) \in Locks \cup {NIL}
BY DEF TypeOK, TypePointers, GetLockedLock

-----------------------------------------------------------------------------
(* Type correctness                                                        *)

\* Adding and removing a holder.
LEMMA HelperTypes ==
  ASSUME TypeOK, NEW l \in Locks
  PROVE  /\ \A c \in LockInputs : AddLock(l, c) =>
              /\ current_lock' \in Locks \cup {NIL} /\ locks' \in Seq(Locks)
              /\ lock_maps' \in [LockIds -> Locks \cup {NIL}]
              /\ lock_locked' \in [Locks -> 0..MaxReentry]
         /\ \A n \in 0..Len(locks) : RemoveLock(l, n) =>
              /\ current_lock' \in Locks \cup {NIL}
              /\ LocksAfterRemove(l, n) \in Seq(Locks)
              /\ lock_maps' \in [LockIds -> Locks \cup {NIL}]
              /\ lock_locked' \in [Locks -> 0..MaxReentry]
<1>. USE ConstantsAssumption
<1>1. ASSUME NEW c \in LockInputs, AddLock(l, c)
      PROVE  /\ current_lock' \in Locks \cup {NIL} /\ locks' \in Seq(Locks)
             /\ lock_maps' \in [LockIds -> Locks \cup {NIL}]
             /\ lock_locked' \in [Locks -> 0..MaxReentry]
  <2>1. Append(locks, l) \in Seq(Locks)
    BY AppendProperties DEF TypeOK, TypePointers
  <2>2. lock_locked' \in [Locks -> 0..MaxReentry]
    BY <1>1 DEF AddLock, TypeOK, TypeCounters
  <2>. QED
    BY <1>1, <2>1, <2>2 DEF AddLock, TypeOK, TypePointers
<1>2. ASSUME NEW n \in 0..Len(locks), RemoveLock(l, n)
      PROVE  /\ current_lock' \in Locks \cup {NIL}
             /\ LocksAfterRemove(l, n) \in Seq(Locks)
             /\ lock_maps' \in [LockIds -> Locks \cup {NIL}]
             /\ lock_locked' \in [Locks -> 0..MaxReentry]
  <2>1. LocksAfterRemove(l, n) \in Seq(Locks)
    <3>1. CASE n = Len(locks)
      BY <3>1 DEF LocksAfterRemove
    <3>2. CASE n # Len(locks)
      <4>1. n \in 0..Len(locks) /\ n + 1 \in 0..Len(locks)
        BY <3>2 DEF TypeOK, TypePointers
      <4>2. /\ SubSeq(locks, n + 1, Len(locks)) \in Seq(Locks)
            /\ SubSeq(locks, (n + 1) + 1, Len(locks)) \in Seq(Locks)
        BY <4>1, PopFacts DEF TypeOK, TypePointers
      <4>3. (n + 1) + 1 = n + 2
        OBVIOUS
      <4>. QED
        BY <3>2, <4>2, <4>3 DEF LocksAfterRemove
    <3>. QED
      BY <3>1, <3>2
  <2>2. lock_locked' \in [Locks -> 0..MaxReentry]
    BY <1>2 DEF RemoveLock, TypeOK, TypeCounters
  <2>3. current_lock' \in Locks \cup {NIL}
    BY <1>2 DEF RemoveLock, Promoted, TypeOK, TypePointers
  <2>4. lock_maps' \in [LockIds -> Locks \cup {NIL}]
    BY <1>2 DEF RemoveLock, TypeOK, TypePointers
  <2>. QED
    BY <2>1, <2>2, <2>3, <2>4
<1>. QED
  BY <1>1, <1>2

\* Recycling an object and the manager.
LEMMA PoolTypes ==
  ASSUME TypeOK
  PROVE  /\ \A Z, again \in SUBSET Locks : FreeLock(Z, again) =>
              /\ command' \in [Locks -> LockInputs \cup {NIL}] /\ lock_flag' \in [Locks -> Flags]
              /\ free_locks' \in [Locks -> Int] /\ ref_count' \in Int
         /\ \A gone \in BOOLEAN : \A q, w \in Seq(Locks) :
              RemoveLockManager(gone, q, w) =>
                /\ freed' \in BOOLEAN
                /\ locks' \in Seq(Locks) /\ wait_locks' \in Seq(Locks)
<1>. USE ConstantsAssumption
<1>1. ASSUME NEW Z \in SUBSET Locks, NEW again \in SUBSET Locks, FreeLock(Z, again)
      PROVE  /\ command' \in [Locks -> LockInputs \cup {NIL}] /\ lock_flag' \in [Locks -> Flags]
             /\ free_locks' \in [Locks -> Int] /\ ref_count' \in Int
  <2>1. command' \in [Locks -> LockInputs \cup {NIL}] /\ lock_flag' \in [Locks -> Flags]
    BY <1>1 DEF FreeLock, TypeOK, TypePointers, TypeFlags, Flags
  <2>2. Cardinality(Z) \in Nat /\ Cardinality(again) \in Nat
    BY LockSets
  <2>. QED
    BY <1>1, <2>1, <2>2 DEF FreeLock, TypeOK, TypeCounters
<1>2. ASSUME NEW gone \in BOOLEAN, NEW q \in Seq(Locks), NEW w \in Seq(Locks),
             RemoveLockManager(gone, q, w)
      PROVE  /\ freed' \in BOOLEAN
             /\ locks' \in Seq(Locks) /\ wait_locks' \in Seq(Locks)
  <2>1. freed' \in BOOLEAN
    BY <1>2 DEF RemoveLockManager, TypeOK, TypeFlags
  <2>. QED
    BY <1>2, <2>1 DEF RemoveLockManager
<1>. QED
  BY <1>1, <1>2

\* The outcomes of `Lock` that take no new object keep TypeOK.
LEMMA HolderRequestTypes ==
  ASSUME TypeOK, NEW c \in LockInputs,
         \/ LockShow(c) \/ LockUpdate(c) \/ LockReenter(c) \/ LockReenterNoLease(c)
         \/ LockRefuse(c) \/ LockPass(c)
  PROVE  TypeOK'
<1>. c.id \in LockIds /\ c.rcount \in Nat /\ c.count \in Nat
  BY ConstantsAssumption DEF LockCommand
<1>. USE ConstantsAssumption
<1>h. Holder(c) \in Locks \cup {NIL}
  BY HolderType DEF Holder, TypeOK, TypePointers
<1>w. locks \in Seq(Locks) /\ wait_locks \in Seq(Locks)
  BY DEF TypeOK, TypePointers
<1>1. CASE LockShow(c)
  <2>1. TypePointers'
    BY <1>1 DEF LockShow, TypeOK, TypePointers, TimerPlaces, vars, manager_vars,
       timer_vars, pool_vars, aof_vars, wake_vars
  <2>2. TypeCounters'
    BY <1>1 DEF LockShow, TypeOK, TypeCounters, vars, manager_vars, timer_vars,
       pool_vars, aof_vars, wake_vars
  <2>3. TypeFlags'
    BY <1>1 DEF LockShow, TypeOK, TypeFlags, vars, manager_vars, timer_vars,
       pool_vars, aof_vars, wake_vars
  <2>. QED
    BY <2>1, <2>2, <2>3 DEF TypeOK
<1>2. CASE LockUpdate(c)
  <2>1. TypePointers'
    BY <1>2, <1>h DEF LockUpdate, Renew, TypeOK, TypePointers, TimerPlaces,
       vars, manager_vars, timer_vars, pool_vars, aof_vars, wake_vars
  <2>2. TypeCounters'
    BY <1>2 DEF LockUpdate, Renew, TypeOK, TypeCounters, vars, manager_vars,
       timer_vars, pool_vars, aof_vars, wake_vars
  <2>3. TypeFlags'
    BY <1>2, <1>h DEF LockUpdate, Renew, TypeOK, TypeFlags, vars, manager_vars,
       timer_vars, pool_vars, aof_vars, wake_vars
  <2>. QED
    BY <2>1, <2>2, <2>3 DEF TypeOK
<1>3. CASE LockReenter(c)
  <2>1. TypePointers'
    BY <1>3, <1>h DEF LockReenter, Renew, TypeOK, TypePointers, TimerPlaces,
       vars, manager_vars, timer_vars, pool_vars, aof_vars, wake_vars
  <2>2. TypeCounters'
    BY <1>3, <1>h DEF LockReenter, CanReenter, Renew, TypeOK, TypeCounters,
       vars, manager_vars, timer_vars, pool_vars, aof_vars, wake_vars
  <2>3. TypeFlags'
    BY <1>3, <1>h DEF LockReenter, Renew, TypeOK, TypeFlags, vars, manager_vars,
       timer_vars, pool_vars, aof_vars, wake_vars
  <2>. QED
    BY <2>1, <2>2, <2>3 DEF TypeOK
<1>4. CASE LockReenterNoLease(c)
  <2>1. TypePointers'
    BY <1>4, <1>h DEF LockReenterNoLease, TypeOK, TypePointers, TimerPlaces,
       vars, manager_vars, timer_vars, pool_vars, aof_vars, wake_vars
  <2>2. TypeCounters'
    BY <1>4 DEF LockReenterNoLease, TypeOK, TypeCounters, vars, manager_vars,
       timer_vars, pool_vars, aof_vars, wake_vars
  <2>3. TypeFlags'
    BY <1>4 DEF LockReenterNoLease, TypeOK, TypeFlags, vars, manager_vars,
       timer_vars, pool_vars, aof_vars, wake_vars
  <2>. QED
    BY <2>1, <2>2, <2>3 DEF TypeOK
<1>5. CASE LockRefuse(c)
  <2>1. TypePointers'
    BY <1>5 DEF LockRefuse, TypeOK, TypePointers, TimerPlaces, vars,
       manager_vars, timer_vars, pool_vars, aof_vars, wake_vars
  <2>2. TypeCounters'
    BY <1>5 DEF LockRefuse, TypeOK, TypeCounters, vars, manager_vars,
       timer_vars, pool_vars, aof_vars, wake_vars
  <2>3. TypeFlags'
    BY <1>5 DEF LockRefuse, TypeOK, TypeFlags, vars, manager_vars, timer_vars,
       pool_vars, aof_vars, wake_vars
  <2>. QED
    BY <2>1, <2>2, <2>3 DEF TypeOK
<1>6. CASE LockPass(c)
  <2>1. TypePointers'
    BY <1>6, <1>w DEF LockPass, RemoveLockManager, TypeOK,
       TypePointers, TimerPlaces, vars, manager_vars, timer_vars, pool_vars,
       aof_vars, wake_vars
  <2>2. TypeCounters'
    BY <1>6 DEF LockPass, TypeOK, TypeCounters, vars, manager_vars, timer_vars,
       pool_vars, aof_vars, wake_vars
  <2>3. TypeFlags'
    BY <1>6 DEF LockPass, RemoveLockManager, TypeOK, TypeFlags, vars,
       manager_vars, timer_vars, pool_vars, aof_vars, wake_vars
  <2>. QED
    BY <2>1, <2>2, <2>3 DEF TypeOK
<1>. QED
  BY <1>1, <1>2, <1>3, <1>4, <1>5, <1>6

\* The outcomes of `Lock` that take an object from the pool keep TypeOK.
LEMMA NewRequestTypes ==
  ASSUME TypeOK, NEW c \in LockInputs, NEW l \in Locks,
         LockGrant(c, l) \/ LockWait(c, l)
  PROVE  TypeOK'
<1>w. wait_locks \in Seq(Locks)
  BY DEF TypeOK, TypePointers
<1>f. lock_flag' \in [Locks -> Flags]
  <2>1. c.flag \in Flags
    BY ConstantsAssumption DEF LockCommand
  <2>2. lock_flag' = [lock_flag EXCEPT ![l] = c.flag]
    BY DEF LockGrant, LockWait, GetOrNewLock
  <2>. QED
    BY <2>1, <2>2 DEF TypeOK, TypeFlags
<1>1. CASE LockGrant(c, l)
  <2>1. TypePointers'
    BY <1>1, HelperTypes DEF LockGrant, GetOrNewLock, TypeOK, TypePointers,
       TimerPlaces, vars, manager_vars, timer_vars, pool_vars, aof_vars,
       wake_vars
  <2>2. TypeCounters'
    BY <1>1, HelperTypes DEF LockGrant, GetOrNewLock, TypeOK, TypeCounters,
       vars, manager_vars, timer_vars, pool_vars, aof_vars, wake_vars
  <2>3. TypeFlags'
    BY <1>1, <1>f DEF LockGrant, GetOrNewLock, PersistGranted, TypeOK, TypeFlags,
       vars, manager_vars, timer_vars, pool_vars, aof_vars, wake_vars
  <2>. QED
    BY <2>1, <2>2, <2>3 DEF TypeOK
<1>2. CASE LockWait(c, l)
  <2>1. TypePointers'
    BY <1>2, AppendProperties, <1>w DEF LockWait, GetOrNewLock, TypeOK,
       TypePointers, TimerPlaces, vars, manager_vars, timer_vars, pool_vars,
       aof_vars, wake_vars
  <2>2. TypeCounters'
    BY <1>2 DEF LockWait, GetOrNewLock, TypeOK, TypeCounters, vars,
       manager_vars, timer_vars, pool_vars, aof_vars, wake_vars
  <2>3. TypeFlags'
    BY <1>2, <1>f DEF LockWait, GetOrNewLock, TypeOK, TypeFlags, vars, manager_vars,
       timer_vars, pool_vars, aof_vars, wake_vars
  <2>. QED
    BY <2>1, <2>2, <2>3 DEF TypeOK
<1>. QED
  BY <1>1, <1>2

\* The set of objects a scan frees, and the queue it leaves.
LEMMA ScanTypes ==
  ASSUME TypeOK, NEW l \in Locks
  PROVE  /\ \A n \in 0..Len(locks) : Popped(locks, n) \in SUBSET Locks
         /\ \A n \in 0..Len(wait_locks) :
              /\ Popped(wait_locks, n) \in SUBSET Locks
              /\ SubSeq(wait_locks, n + 1, Len(wait_locks)) \in Seq(Locks)
BY PopFacts DEF TypeOK, TypePointers

\* The outcomes of `UnLock` that free no object keep TypeOK.
LEMMA UnLockOneTypes ==
  ASSUME TypeOK, NEW u \in UnlockInputs, UnLockError(u) \/ UnLockOne(u)
  PROVE  TypeOK'
<1>. u.id \in LockIds
  BY ConstantsAssumption DEF UnlockCommand
<1>. USE ConstantsAssumption
<1>t. UnlockTarget(u) \in Locks \cup {NIL}
  BY HolderType DEF UnlockTarget, TypeOK, TypePointers
<1>1. CASE UnLockError(u)
  <2>1. TypePointers'
    BY <1>1 DEF UnLockError, TypeOK, TypePointers, TimerPlaces, vars,
       manager_vars, timer_vars, pool_vars, aof_vars, wake_vars
  <2>2. TypeCounters'
    BY <1>1 DEF UnLockError, TypeOK, TypeCounters, vars, manager_vars,
       timer_vars, pool_vars, aof_vars, wake_vars
  <2>3. TypeFlags'
    BY <1>1 DEF UnLockError, TypeOK, TypeFlags, vars, manager_vars, timer_vars,
       pool_vars, aof_vars, wake_vars
  <2>. QED
    BY <2>1, <2>2, <2>3 DEF TypeOK
<1>2. CASE UnLockOne(u)
  <2>1. TypePointers'
    BY <1>2 DEF UnLockOne, TypeOK, TypePointers, TimerPlaces, vars,
       manager_vars, timer_vars, pool_vars, aof_vars, wake_vars
  <2>2. TypeCounters'
    BY <1>2, <1>t DEF UnLockOne, OneOfMany, TypeOK, TypeCounters, vars,
       manager_vars, timer_vars, pool_vars, aof_vars, wake_vars
  <2>3. TypeFlags'
    BY <1>2 DEF UnLockOne, TypeOK, TypeFlags, vars, manager_vars, timer_vars,
       pool_vars, aof_vars, wake_vars
  <2>. QED
    BY <2>1, <2>2, <2>3 DEF TypeOK
<1>. QED
  BY <1>1, <1>2

\* `UnLock` of the last reference of a holder keeps TypeOK.
LEMMA UnLockTypes ==
  ASSUME TypeOK, NEW u \in UnlockInputs, NEW l \in Locks, NEW n \in 0..Len(locks),
         UnLock(u, l, n)
  PROVE  TypeOK'
<1>. USE ConstantsAssumption
<1>w. locks \in Seq(Locks) /\ wait_locks \in Seq(Locks)
  BY DEF TypeOK, TypePointers
<1>. DEFINE long == exp[l] = "long"
            refs == ReleaseRefs(l, n)
            Z == {m \in (Popped(locks, n) \cup (IF long THEN {l} ELSE {})) :
                    lock_ref[m] = refs[m]}
            twice == long /\ l \in Popped(locks, n) /\ l \in Z
            again == IF twice THEN {l} ELSE {}
            gone == long /\ l \in Z /\ ref_count' = 0
<1>1. Z \in SUBSET Locks /\ again \in SUBSET Locks /\ gone \in BOOLEAN
  BY ScanTypes
<1>2. RemoveLock(l, n) /\ FreeLock(Z, again)
      /\ RemoveLockManager(gone, LocksAfterRemove(l, n), wait_locks)
  BY DEF UnLock
<1>. HIDE DEF Z, again, gone
<1>3. /\ current_lock' \in Locks \cup {NIL}
      /\ lock_maps' \in [LockIds -> Locks \cup {NIL}]
      /\ lock_locked' \in [Locks -> 0..MaxReentry]
      /\ LocksAfterRemove(l, n) \in Seq(Locks)
  BY <1>2, HelperTypes
<1>4. /\ command' \in [Locks -> LockInputs \cup {NIL}] /\ lock_flag' \in [Locks -> Flags]
      /\ free_locks' \in [Locks -> Int] /\ ref_count' \in Int
  BY <1>1, <1>2, PoolTypes
<1>5. /\ freed' \in BOOLEAN
      /\ locks' \in Seq(Locks) /\ wait_locks' \in Seq(Locks)
  BY <1>1, <1>2, <1>3, <1>w, PoolTypes
<1>6. TypePointers'
  BY <1>3, <1>4, <1>5 DEF UnLock, TypeOK, TypePointers, TimerPlaces
<1>7. TypeCounters'
  <2>1. lock_ref' \in [Locks -> Int]
    BY DEF UnLock, ReleaseRefs, TypeOK, TypeCounters
  <2>2. locked' \in Int
    BY DEF UnLock, ReleasedLocks, TypeOK, TypeCounters
  <2>3. wake_check' \in Nat /\ wake_loop' \in Nat
    BY DEF UnLock, TypeOK, TypeCounters
  <2>. QED
    BY <1>3, <1>4, <2>1, <2>2, <2>3 DEF TypeCounters
<1>8. TypeFlags'
  <2>1. panicked' \in BOOLEAN
    BY DEF UnLock
  <2>2. is_aof' \in [Locks -> BOOLEAN] /\ expried' \in [Locks -> BOOLEAN]
    BY DEF UnLock, PersistReleased, TypeOK, TypeFlags
  <2>. QED
    BY <1>4, <1>5, <2>1, <2>2 DEF UnLock, TypeOK, TypeFlags
<1>. QED
  BY <1>6, <1>7, <1>8 DEF TypeOK

\* The last reference of a timer entry.
LEMMA DropTypes ==
  ASSUME TypeOK, NEW l \in Locks, DropTimerRef(l)
  PROVE  /\ command' \in [Locks -> LockInputs \cup {NIL}] /\ lock_flag' \in [Locks -> Flags]
         /\ free_locks' \in [Locks -> Int] /\ ref_count' \in Int
         /\ lock_ref' \in [Locks -> Int] /\ freed' \in BOOLEAN
         /\ locks' \in Seq(Locks) /\ wait_locks' \in Seq(Locks)
<1>. DEFINE Z == IF lock_ref[l] = 1 THEN {l} ELSE {}
            gone == lock_ref[l] = 1 /\ ref_count' = 0
<1>1. Z \in SUBSET Locks /\ {} \in SUBSET Locks /\ gone \in BOOLEAN
  OBVIOUS
<1>2. FreeLock(Z, {}) /\ RemoveLockManager(gone, locks, wait_locks)
  BY DEF DropTimerRef
<1>. HIDE DEF Z, gone
<1>3. lock_ref' \in [Locks -> Int]
  BY DEF DropTimerRef, TypeOK, TypeCounters
<1>4. locks \in Seq(Locks) /\ wait_locks \in Seq(Locks)
  BY DEF TypeOK, TypePointers
<1>. QED
  BY <1>1, <1>2, <1>3, <1>4, PoolTypes

\* The steps that only move or drop a timer entry keep TypeOK.
LEMMA CheckTypes ==
  ASSUME TypeOK, NEW l \in Locks,
         \/ CheckTimeOutDead(l) \/ CheckTimeOutKeep(l) \/ CheckTimeOutDue(l)
         \/ DoTimeOutLate(l)
         \/ CheckExpriedDead(l) \/ CheckExpriedKeep(l) \/ CheckExpriedDue(l)
         \/ DoExpriedLate(l)
  PROVE  TypeOK'
<1>1. CASE CheckTimeOutDead(l)
  <2>1. TypePointers'
    BY <1>1, DropTypes DEF CheckTimeOutDead, TypeOK, TypePointers, TimerPlaces,
       vars, manager_vars, timer_vars, pool_vars, aof_vars, wake_vars
  <2>2. TypeCounters'
    BY <1>1, DropTypes DEF CheckTimeOutDead, TypeOK, TypeCounters, vars,
       manager_vars, timer_vars, pool_vars, aof_vars, wake_vars
  <2>3. TypeFlags'
    BY <1>1, DropTypes DEF CheckTimeOutDead, TypeOK, TypeFlags, vars,
       manager_vars, timer_vars, pool_vars, aof_vars, wake_vars
  <2>. QED
    BY <2>1, <2>2, <2>3 DEF TypeOK
<1>2. CASE CheckTimeOutKeep(l)
  <2>1. TypePointers'
    BY <1>2 DEF CheckTimeOutKeep, TypeOK, TypePointers, TimerPlaces, vars,
       manager_vars, timer_vars, pool_vars, aof_vars, wake_vars
  <2>2. TypeCounters'
    BY <1>2 DEF CheckTimeOutKeep, TypeOK, TypeCounters, vars, manager_vars,
       timer_vars, pool_vars, aof_vars, wake_vars
  <2>3. TypeFlags'
    BY <1>2 DEF CheckTimeOutKeep, TypeOK, TypeFlags, vars, manager_vars,
       timer_vars, pool_vars, aof_vars, wake_vars
  <2>. QED
    BY <2>1, <2>2, <2>3 DEF TypeOK
<1>3. CASE CheckTimeOutDue(l)
  <2>1. TypePointers'
    BY <1>3 DEF CheckTimeOutDue, TypeOK, TypePointers, TimerPlaces, vars,
       manager_vars, timer_vars, pool_vars, aof_vars, wake_vars
  <2>2. TypeCounters'
    BY <1>3 DEF CheckTimeOutDue, TypeOK, TypeCounters, vars, manager_vars,
       timer_vars, pool_vars, aof_vars, wake_vars
  <2>3. TypeFlags'
    BY <1>3 DEF CheckTimeOutDue, TypeOK, TypeFlags, vars, manager_vars,
       timer_vars, pool_vars, aof_vars, wake_vars
  <2>. QED
    BY <2>1, <2>2, <2>3 DEF TypeOK
<1>4. CASE DoTimeOutLate(l)
  <2>1. TypePointers'
    BY <1>4, DropTypes DEF DoTimeOutLate, TypeOK, TypePointers, TimerPlaces,
       vars, manager_vars, timer_vars, pool_vars, aof_vars, wake_vars
  <2>2. TypeCounters'
    BY <1>4, DropTypes DEF DoTimeOutLate, TypeOK, TypeCounters, vars,
       manager_vars, timer_vars, pool_vars, aof_vars, wake_vars
  <2>3. TypeFlags'
    BY <1>4, DropTypes DEF DoTimeOutLate, TypeOK, TypeFlags, vars, manager_vars,
       timer_vars, pool_vars, aof_vars, wake_vars
  <2>. QED
    BY <2>1, <2>2, <2>3 DEF TypeOK
<1>5. CASE CheckExpriedDead(l)
  <2>1. TypePointers'
    BY <1>5, DropTypes DEF CheckExpriedDead, TypeOK, TypePointers, TimerPlaces,
       vars, manager_vars, timer_vars, pool_vars, aof_vars, wake_vars
  <2>2. TypeCounters'
    BY <1>5, DropTypes DEF CheckExpriedDead, TypeOK, TypeCounters, vars,
       manager_vars, timer_vars, pool_vars, aof_vars, wake_vars
  <2>3. TypeFlags'
    BY <1>5, DropTypes DEF CheckExpriedDead, TypeOK, TypeFlags, vars,
       manager_vars, timer_vars, pool_vars, aof_vars, wake_vars
  <2>. QED
    BY <2>1, <2>2, <2>3 DEF TypeOK
<1>6. CASE CheckExpriedKeep(l)
  <2>1. TypePointers'
    BY <1>6 DEF CheckExpriedKeep, TypeOK, TypePointers, TimerPlaces, vars,
       manager_vars, timer_vars, pool_vars, aof_vars, wake_vars
  <2>2. TypeCounters'
    BY <1>6 DEF CheckExpriedKeep, TypeOK, TypeCounters, vars, manager_vars,
       timer_vars, pool_vars, aof_vars, wake_vars
  <2>3. TypeFlags'
    BY <1>6 DEF CheckExpriedKeep, TypeOK, TypeFlags, vars, manager_vars,
       timer_vars, pool_vars, aof_vars, wake_vars
  <2>. QED
    BY <2>1, <2>2, <2>3 DEF TypeOK
<1>7. CASE CheckExpriedDue(l)
  <2>1. TypePointers'
    BY <1>7 DEF CheckExpriedDue, TypeOK, TypePointers, TimerPlaces, vars,
       manager_vars, timer_vars, pool_vars, aof_vars, wake_vars
  <2>2. TypeCounters'
    BY <1>7 DEF CheckExpriedDue, TypeOK, TypeCounters, vars, manager_vars,
       timer_vars, pool_vars, aof_vars, wake_vars
  <2>3. TypeFlags'
    BY <1>7 DEF CheckExpriedDue, TypeOK, TypeFlags, vars, manager_vars,
       timer_vars, pool_vars, aof_vars, wake_vars
  <2>. QED
    BY <2>1, <2>2, <2>3 DEF TypeOK
<1>8. CASE DoExpriedLate(l)
  <2>1. TypePointers'
    BY <1>8, DropTypes DEF DoExpriedLate, TypeOK, TypePointers, TimerPlaces,
       vars, manager_vars, timer_vars, pool_vars, aof_vars, wake_vars
  <2>2. TypeCounters'
    BY <1>8, DropTypes DEF DoExpriedLate, TypeOK, TypeCounters, vars,
       manager_vars, timer_vars, pool_vars, aof_vars, wake_vars
  <2>3. TypeFlags'
    BY <1>8, DropTypes DEF DoExpriedLate, TypeOK, TypeFlags, vars, manager_vars,
       timer_vars, pool_vars, aof_vars, wake_vars
  <2>. QED
    BY <2>1, <2>2, <2>3 DEF TypeOK
<1>. QED
  BY <1>1, <1>2, <1>3, <1>4, <1>5, <1>6, <1>7, <1>8

\* `DoTimeOut` of a waiting request keeps TypeOK.
LEMMA DoTimeOutTypes ==
  ASSUME TypeOK, NEW l \in Locks, NEW n \in 0..Len(wait_locks), DoTimeOut(l, n)
  PROVE  TypeOK'
<1>. USE ConstantsAssumption
<1>w. locks \in Seq(Locks) /\ wait_locks \in Seq(Locks)
  BY DEF TypeOK, TypePointers
<1>. DEFINE refs == [m \in Locks |-> (IF m \in Popped(wait_locks, n) THEN 1 ELSE 0)
                                + (IF m = l THEN 1 ELSE 0)]
            Z == {m \in Popped(wait_locks, n) \cup {l} : lock_ref[m] = refs[m]}
            gone == l \in Z /\ ref_count' = 0
<1>1. Z \in SUBSET Locks /\ {} \in SUBSET Locks /\ gone \in BOOLEAN
  BY ScanTypes
<1>2. /\ FreeLock(Z, {})
      /\ RemoveLockManager(gone, locks, SubSeq(wait_locks, n + 1, Len(wait_locks)))
      /\ lock_ref' = [m \in Locks |-> lock_ref[m] - refs[m]]
  BY DEF DoTimeOut
<1>. HIDE DEF Z, gone
<1>3. /\ command' \in [Locks -> LockInputs \cup {NIL}] /\ lock_flag' \in [Locks -> Flags]
      /\ free_locks' \in [Locks -> Int] /\ ref_count' \in Int
  BY <1>1, <1>2, PoolTypes
<1>4. SubSeq(wait_locks, n + 1, Len(wait_locks)) \in Seq(Locks)
  BY ScanTypes
<1>5. /\ freed' \in BOOLEAN
      /\ locks' \in Seq(Locks) /\ wait_locks' \in Seq(Locks)
  BY <1>1, <1>2, <1>4, <1>w, PoolTypes
<1>6. lock_ref' \in [Locks -> Int]
  BY <1>2 DEF TypeOK, TypeCounters
<1>7. TypePointers'
  BY <1>3, <1>5 DEF DoTimeOut, TypeOK, TypePointers, TimerPlaces
<1>8. TypeCounters'
  BY <1>3, <1>6 DEF DoTimeOut, TypeOK, TypeCounters, wake_vars
<1>9. TypeFlags'
  BY <1>3, <1>5 DEF DoTimeOut, StillWaited, TypeOK, TypeFlags, aof_vars
<1>. QED
  BY <1>7, <1>8, <1>9 DEF TypeOK

\* `DoExpried` of a lease keeps TypeOK.
LEMMA DoExpriedTypes ==
  ASSUME TypeOK, NEW l \in Locks, NEW n \in 0..Len(locks), DoExpried(l, n)
  PROVE  TypeOK'
<1>. USE ConstantsAssumption
<1>w. locks \in Seq(Locks) /\ wait_locks \in Seq(Locks)
  BY DEF TypeOK, TypePointers
<1>. DEFINE refs == [m \in Locks |-> (IF m \in Popped(locks, n) THEN 1 ELSE 0)
                                + (IF m = l /\ current_lock = l THEN 1 ELSE 0)
                                + (IF m = l THEN 1 ELSE 0)]
            Z == {m \in Popped(locks, n) \cup {l} : lock_ref[m] = refs[m]}
            gone == l \in Z /\ ref_count' = 0
<1>1. Z \in SUBSET Locks /\ {} \in SUBSET Locks /\ gone \in BOOLEAN
  BY ScanTypes
<1>2. /\ RemoveLock(l, n) /\ FreeLock(Z, {})
      /\ RemoveLockManager(gone, LocksAfterRemove(l, n), wait_locks)
      /\ lock_ref' = [m \in Locks |-> lock_ref[m] - refs[m]]
  BY DEF DoExpried
<1>. HIDE DEF Z, gone
<1>3. /\ command' \in [Locks -> LockInputs \cup {NIL}] /\ lock_flag' \in [Locks -> Flags]
      /\ free_locks' \in [Locks -> Int] /\ ref_count' \in Int
  BY <1>1, <1>2, PoolTypes
<1>4. /\ current_lock' \in Locks \cup {NIL}
      /\ lock_maps' \in [LockIds -> Locks \cup {NIL}]
      /\ lock_locked' \in [Locks -> 0..MaxReentry]
      /\ LocksAfterRemove(l, n) \in Seq(Locks)
  BY <1>2, HelperTypes
<1>5. /\ freed' \in BOOLEAN
      /\ locks' \in Seq(Locks) /\ wait_locks' \in Seq(Locks)
  BY <1>1, <1>2, <1>4, <1>w, PoolTypes
<1>6. lock_ref' \in [Locks -> Int]
  BY <1>2 DEF TypeOK, TypeCounters
<1>7. TypePointers'
  BY <1>3, <1>4, <1>5 DEF DoExpried, TypeOK, TypePointers, TimerPlaces
<1>8. TypeCounters'
  <2>1. locked' \in Int
    BY DEF DoExpried, TypeOK, TypeCounters
  <2>2. wake_check' \in Nat /\ wake_loop' \in Nat
    BY DEF DoExpried, TypeOK, TypeCounters
  <2>. QED
    BY <1>3, <1>4, <1>6, <2>1, <2>2 DEF TypeCounters
<1>9. TypeFlags'
  BY <1>3, <1>5 DEF DoExpried, PersistReleased, TypeOK, TypeFlags
<1>. QED
  BY <1>7, <1>8, <1>9 DEF TypeOK

\* The queue scan of WakeUpWaitLocks.
LEMMA WakePopTypes ==
  ASSUME TypeOK, NEW n \in 0..Len(wait_locks), WakePop(n)
  PROVE  /\ command' \in [Locks -> LockInputs \cup {NIL}] /\ lock_flag' \in [Locks -> Flags]
         /\ free_locks' \in [Locks -> Int] /\ ref_count' \in Int
         /\ UnrefPopped(n) \in [Locks -> Int]
         /\ SubSeq(wait_locks, n + 1, Len(wait_locks)) \in Seq(Locks)
         /\ <<>> \in Seq(Locks)
         /\ wake_loop - 1 \in Nat
<1>. DEFINE Z == {m \in Popped(wait_locks, n) : lock_ref[m] = 1}
<1>1. FreeLock(Z, {}) /\ Z \in SUBSET Locks /\ {} \in SUBSET Locks
  BY PopFacts DEF WakePop, TypeOK, TypePointers
<1>. HIDE DEF Z
<1>2. /\ command' \in [Locks -> LockInputs \cup {NIL}] /\ lock_flag' \in [Locks -> Flags]
      /\ free_locks' \in [Locks -> Int] /\ ref_count' \in Int
  BY <1>1, PoolTypes
<1>3. UnrefPopped(n) \in [Locks -> Int]
  BY DEF UnrefPopped, TypeOK, TypeCounters
<1>4. wake_loop - 1 \in Nat
  BY DEF WakePop, TypeOK, TypeCounters
<1>. QED
  BY <1>2, <1>3, <1>4, PopFacts DEF TypeOK, TypePointers

\* The goroutines in `WakeUpWaitLocks` keep TypeOK.
LEMMA WakeTypes ==
  ASSUME TypeOK, NEW n \in 0..Len(wait_locks),
         \/ WakeCheck \/ WakeDone(n) \/ WakeBlocked(n)
         \/ \E w \in Locks : WakeGrant(n, w)
  PROVE  TypeOK'
<1>w. locks \in Seq(Locks) /\ wait_locks \in Seq(Locks)
  BY DEF TypeOK, TypePointers
<1>1. CASE WakeCheck
  <2>1. TypePointers'
    BY <1>1 DEF WakeCheck, TypeOK, TypePointers, TimerPlaces, manager_vars,
       timer_vars, pool_vars
  <2>2. TypeCounters'
    BY <1>1 DEF WakeCheck, TypeOK, TypeCounters, manager_vars, pool_vars
  <2>3. TypeFlags'
    BY <1>1 DEF WakeCheck, TypeOK, TypeFlags, manager_vars, timer_vars, pool_vars, aof_vars
  <2>. QED
    BY <2>1, <2>2, <2>3 DEF TypeOK
<1>2. CASE WakeDone(n)
  <2>. DEFINE gone == waited /\ ref_count' = 0
  <2>1. RemoveLockManager(gone, locks, <<>>) /\ gone \in BOOLEAN /\ WakePop(n)
    BY <1>2 DEF WakeDone, TypeOK, TypeFlags
  <2>. HIDE DEF gone
  <2>2. freed' \in BOOLEAN /\ locks' \in Seq(Locks) /\ wait_locks' \in Seq(Locks)
    BY <2>1, <1>w, WakePopTypes, PoolTypes
  <2>3. TypePointers'
    BY <1>2, <2>1, <2>2, WakePopTypes DEF WakeDone, TypeOK, TypePointers, timer_vars
  <2>4. TypeCounters'
    BY <1>2, <2>1, WakePopTypes DEF WakeDone, TypeOK, TypeCounters
  <2>5. TypeFlags'
    BY <1>2, <2>2, WakePopTypes DEF WakeDone, TypeOK, TypeFlags, timer_vars, aof_vars
  <2>. QED
    BY <2>3, <2>4, <2>5 DEF TypeOK
<1>3. CASE WakeBlocked(n)
  <2>1. WakePop(n)
    BY <1>3 DEF WakeBlocked
  <2>2. TypePointers'
    BY <1>3, <2>1, WakePopTypes DEF WakeBlocked, TypeOK, TypePointers, timer_vars
  <2>3. TypeCounters'
    BY <1>3, <2>1, WakePopTypes DEF WakeBlocked, TypeOK, TypeCounters
  <2>4. TypeFlags'
    BY <1>3, WakePopTypes DEF WakeBlocked, TypeOK, TypeFlags, timer_vars, aof_vars
  <2>. QED
    BY <2>2, <2>3, <2>4 DEF TypeOK
<1>4. ASSUME NEW w \in Locks, WakeGrant(n, w) PROVE TypeOK'
  <2>1. WakePop(n) /\ DoLock(command[w])
    BY <1>4 DEF WakeGrant
  <2>2. /\ tmo' \in [Locks -> TimerPlaces]
        /\ reply' \in [Locks -> {"none", "SUCCED", "TIMEOUT", "EXPRIED"}]
    BY <1>4 DEF WakeGrant, TypeOK, TypePointers, TimerPlaces
  <2>3. exp' \in [Locks -> TimerPlaces]
    BY <1>4 DEF WakeGrant, TypeOK, TypePointers, TimerPlaces
  <2>4. /\ current_lock' \in Locks \cup {NIL} /\ locks' \in Seq(Locks)
        /\ lock_maps' \in [LockIds -> Locks \cup {NIL}]
        /\ lock_locked' \in [Locks -> 0..MaxReentry]
    <3>1. CASE AddLock(w, command[w])
      <4>1. Append(locks, w) \in Seq(Locks)
        BY AppendProperties, <1>w
      <4>2. lock_locked' \in [Locks -> 0..MaxReentry]
        BY <3>1, ConstantsAssumption DEF AddLock, TypeOK, TypeCounters
      <4>. QED
        BY <3>1, <4>1, <4>2 DEF AddLock, TypeOK, TypePointers
    <3>2. CASE UNCHANGED <<current_lock, locks, lock_maps, lock_locked>>
      BY <3>2 DEF TypeOK, TypePointers, TypeCounters
    <3>. QED
      BY <1>4, <3>1, <3>2 DEF WakeGrant
  <2>5. TypePointers'
    BY <1>4, <2>1, <2>2, <2>3, <2>4, WakePopTypes DEF WakeGrant, TypeOK, TypePointers
  <2>6. lock_ref' \in [Locks -> Int] /\ locked' \in Int
    <3>. DEFINE f == UnrefPopped(n)
    <3>1. f \in [Locks -> Int]
      BY <2>1, WakePopTypes
    <3>. HIDE DEF f
    <3>2. /\ \/ \E k \in {0, 1} : lock_ref' = [f EXCEPT ![w] = @ + 2 - k]
             \/ \E k \in {0, 1} : lock_ref' = [f EXCEPT ![w] = @ - k]
          /\ locked' = locked + 1 \/ locked' = locked
      BY <1>4 DEF WakeGrant, f
    <3>. QED
      BY <3>1, <3>2, SMTT(30) DEF TypeOK, TypeCounters
  <2>7. TypeCounters'
    BY <1>4, <2>1, <2>4, <2>6, WakePopTypes DEF WakeGrant, TypeOK, TypeCounters,
       wake_vars
  <2>8. TypeFlags'
    <3>1. lock_flag' \in [Locks -> Flags]
      BY <1>4, WakePopTypes DEF WakeGrant
    <3>. QED
      BY <1>4, <3>1, ZenonT(60) DEF WakeGrant, PersistGranted, TypeOK, TypeFlags, aof_vars
  <2>. QED
    BY <2>5, <2>7, <2>8 DEF TypeOK
<1>. QED
  BY <1>1, <1>2, <1>3, <1>4

\* A reply built after `glock.Unlock()` keeps TypeOK.
LEMMA ReadTypes ==
  ASSUME TypeOK, NEW r \in Locks \cup {NIL}, ReadReply(r)
  PROVE  TypeOK'
<1>1. TypePointers'
  BY DEF ReadReply, TypeOK, TypePointers, manager_vars, timer_vars, pool_vars
<1>2. TypeCounters'
  BY DEF ReadReply, TypeOK, TypeCounters, manager_vars, pool_vars, wake_vars
<1>3. TypeFlags'
  BY DEF ReadReply, TypeOK, TypeFlags, manager_vars, timer_vars, pool_vars, aof_vars
<1>. QED
  BY <1>1, <1>2, <1>3 DEF TypeOK

\* Every step keeps TypeOK.
LEMMA TypeStep == TypeOK /\ [Next]_vars => TypeOK'
<1>. SUFFICES ASSUME TypeOK, [Next]_vars PROVE TypeOK'
  OBVIOUS
<1>1. CASE ClientStep
  BY <1>1, HolderRequestTypes, NewRequestTypes, UnLockOneTypes, UnLockTypes,
     ReadTypes DEF ClientStep
<1>2. CASE TimerStep
  BY <1>2, CheckTypes, DoTimeOutTypes, DoExpriedTypes DEF TimerStep
<1>3. CASE WakeStep
  <2>1. 0 \in 0..Len(wait_locks)
    BY DEF TypeOK, TypePointers
  <2>. QED
    BY <1>3, <2>1, WakeTypes DEF WakeStep
<1>4. CASE UNCHANGED vars
  <2>1. TypePointers'
    BY <1>4 DEF vars, manager_vars, timer_vars, pool_vars, TypeOK, TypePointers
  <2>2. TypeCounters'
    BY <1>4 DEF vars, manager_vars, pool_vars, wake_vars, TypeOK, TypeCounters
  <2>3. TypeFlags'
    BY <1>4 DEF vars, manager_vars, timer_vars, pool_vars, aof_vars, TypeOK, TypeFlags
  <2>. QED
    BY <2>1, <2>2, <2>3 DEF TypeOK
<1>. QED
  BY <1>1, <1>2, <1>3, <1>4 DEF Next

\* A new lock manager has well typed fields.
LEMMA TypeInit == Init => TypeOK
<1>. SUFFICES ASSUME Init PROVE TypeOK
  OBVIOUS
<1>1. TypePointers
  BY DEF Init, TypePointers, TimerPlaces
<1>2. TypeCounters
  BY ConstantsAssumption DEF Init, TypeCounters
<1>3. TypeFlags
  BY DEF Init, TypeFlags, Flags
<1>. QED
  BY <1>1, <1>2, <1>3 DEF TypeOK

\* Whatever the clients send and however the goroutines interleave, every field
\* keeps its type; in particular Lock.locked never leaves its 8 bits, because
\* LockDB.Lock tests it before it counts up.
THEOREM TypeCorrect == Spec => []TypeOK
BY TypeInit, TypeStep, PTL DEF Spec
-----------------------------------------------------------------------------
(* Queues without repetition                                               *)

\* The elements of a sequence are the values at its indexes.
LEMMA RangeIndex ==
  ASSUME NEW S, NEW q \in Seq(S)
  PROVE  /\ Range(q) \subseteq S
         /\ \A x : x \in Range(q) <=> \E i \in 1..Len(q) : q[i] = x
         /\ Range(q) = {} => q = <<>>
         /\ Range(<<>>) = {} /\ Injective(<<>>)
<1>1. q \in [1..Len(q) -> S] /\ DOMAIN q = 1..Len(q) /\ Len(q) \in Nat
  BY LenProperties
<1>2. Range(q) = {q[i] : i \in 1..Len(q)}
  BY <1>1 DEF Range
<1>3. Range(q) = {} => q = <<>>
  <2>1. Range(q) = {} => Len(q) = 0
    <3>. SUFFICES ASSUME Len(q) # 0 PROVE q[1] \in Range(q)
      OBVIOUS
    <3>. QED
      BY <1>1, <1>2
  <2>. QED
    BY <2>1, EmptySeq
<1>4. Range(<<>>) = {} /\ Injective(<<>>)
  BY DEF Range, Injective
<1>. QED
  BY <1>1, <1>2, <1>3, <1>4

\* Popping k entries removes exactly them.
LEMMA PopDistinct ==
  ASSUME NEW S, NEW q \in Seq(S), Injective(q), NEW k \in 0..Len(q)
  PROVE  LET r == SubSeq(q, k + 1, Len(q))
         IN  /\ r \in Seq(S) /\ Injective(r)
             /\ Range(r) = Range(q) \ Popped(q, k)
             /\ Popped(q, k) \subseteq Range(q)
             /\ k < Len(q) => q[k + 1] \in Range(r)
             /\ k = Len(q) => r = <<>> /\ Popped(q, k) = Range(q)
<1>. DEFINE r == SubSeq(q, k + 1, Len(q))
<1>1. /\ r \in Seq(S) /\ Len(r) = Len(q) - k /\ Len(q) \in Nat
      /\ \A i \in 1..(Len(q) - k) : r[i] = q[k + i]
  BY PopFacts
<1>. HIDE DEF r
<1>2. Injective(r)
  BY <1>1 DEF Injective
<1>3. /\ \A x : x \in Range(r) <=> \E i \in 1..Len(r) : r[i] = x
      /\ \A x : x \in Range(q) <=> \E i \in 1..Len(q) : q[i] = x
  BY <1>1, RangeIndex
<1>4. \A x : x \in Popped(q, k) <=> \E i \in 1..k : q[i] = x
  BY DEF Popped
<1>5. Popped(q, k) \subseteq Range(q)
  BY <1>3, <1>4
<1>6. ASSUME NEW x \in Range(r) PROVE x \in Range(q) \ Popped(q, k)
  <2>1. PICK i \in 1..Len(r) : r[i] = x
    BY <1>3
  <2>2. k + i \in 1..Len(q) /\ q[k + i] = x
    BY <1>1, <2>1
  <2>3. \A j \in 1..k : q[j] # x
    BY <1>1, <2>2 DEF Injective
  <2>. QED
    BY <1>3, <1>4, <2>2, <2>3
<1>7. ASSUME NEW x \in Range(q) \ Popped(q, k) PROVE x \in Range(r)
  <2>1. PICK i \in 1..Len(q) : q[i] = x
    BY <1>3
  <2>2. i > k
    BY <1>4, <2>1
  <2>3. i - k \in 1..Len(r) /\ r[i - k] = x
    BY <1>1, <2>1, <2>2
  <2>. QED
    BY <1>3, <2>3
<1>8. k < Len(q) => q[k + 1] \in Range(r)
  <2>. SUFFICES ASSUME k < Len(q) PROVE q[k + 1] \in Range(r)
    OBVIOUS
  <2>1. 1 \in 1..Len(r) /\ r[1] = q[k + 1]
    BY <1>1
  <2>. QED
    BY <1>3, <2>1
<1>9. k = Len(q) => r = <<>> /\ Popped(q, k) = Range(q)
  BY <1>1, <1>3, <1>4, EmptySeq
<1>. QED
  BY <1>1, <1>2, <1>5, <1>6, <1>7, <1>8, <1>9 DEF r

\* Appending something new keeps a sequence free of repetition.
LEMMA AppendDistinct ==
  ASSUME NEW S, NEW q \in Seq(S), Injective(q), NEW x \in S, x \notin Range(q)
  PROVE  /\ Append(q, x) \in Seq(S) /\ Injective(Append(q, x))
         /\ Range(Append(q, x)) = Range(q) \cup {x}
<1>. DEFINE r == Append(q, x)
<1>1. /\ r \in Seq(S) /\ Len(r) = Len(q) + 1 /\ Len(q) \in Nat
      /\ \A i \in 1..Len(q) : r[i] = q[i]
      /\ r[Len(q) + 1] = x
  BY AppendProperties
<1>. HIDE DEF r
<1>2. /\ \A y : y \in Range(r) <=> \E i \in 1..Len(r) : r[i] = y
      /\ \A y : y \in Range(q) <=> \E i \in 1..Len(q) : q[i] = y
  BY <1>1, RangeIndex
<1>3. \A i \in 1..Len(r) : i \in 1..Len(q) \/ i = Len(q) + 1
  BY <1>1
<1>4. \A i \in 1..Len(q) : i \in 1..Len(r) /\ q[i] # x
  BY <1>1, <1>2
<1>5. Len(q) + 1 \in 1..Len(r)
  BY <1>1
<1>6. Injective(r)
  BY <1>1, <1>3, <1>4 DEF Injective
<1>7. \A y : y \in Range(r) <=> y \in Range(q) \/ y = x
  BY <1>1, <1>2, <1>3, <1>4, <1>5
<1>. QED
  BY <1>1, <1>6, <1>7 DEF r

-----------------------------------------------------------------------------
(* The number of locks                                                     *)

\* One holder's locks change from f[l] to v.
LEMMA HoldsUpdate ==
  ASSUME NEW f \in [Locks -> 0..MaxReentry], NEW l \in Locks,
         NEW v \in 0..MaxReentry
  PROVE  /\ Cardinality(HoldsOf(f)) \in Nat
         /\ Cardinality(HoldsOf([f EXCEPT ![l] = v])) \in Nat
         /\ Cardinality(HoldsOf([f EXCEPT ![l] = v])) =
              Cardinality(HoldsOf(f)) - f[l] + v
<1>. USE ConstantsAssumption
<1>. DEFINE others == {h \in (Locks \ {l}) \X (1..MaxReentry) : h[2] <= f[h[1]]}
            own(k) == {l} \X (1..k)
<1>1. IsFiniteSet(1..MaxReentry) /\ IsFiniteSet(Locks \ {l})
  <2>1. (Locks \ {l}) \in SUBSET Locks
    OBVIOUS
  <2>2. IsFiniteSet(Locks \ {l})
    BY <2>1, LockSets
  <2>. QED
    BY <2>2, FS_Interval
<1>2. IsFiniteSet((Locks \ {l}) \X (1..MaxReentry))
  BY <1>1, FS_Product
<1>3. IsFiniteSet(others)
  <2>1. others \in SUBSET ((Locks \ {l}) \X (1..MaxReentry))
    OBVIOUS
  <2>. QED
    BY <2>1, <1>2, FS_Subset
<1>4. \A k \in 0..MaxReentry : IsFiniteSet(own(k)) /\ Cardinality(own(k)) = k
  <2>. SUFFICES ASSUME NEW k \in 0..MaxReentry
                PROVE  IsFiniteSet(own(k)) /\ Cardinality(own(k)) = k
    OBVIOUS
  <2>1. IsFiniteSet(1..k) /\ Cardinality(1..k) = IF 1 > k THEN 0 ELSE k - 1 + 1
    BY 1 \in Int, k \in Int, FS_Interval
  <2>2. IsFiniteSet({l}) /\ Cardinality({l}) = 1
    BY FS_Singleton
  <2>3. /\ IsFiniteSet(own(k))
        /\ Cardinality(own(k)) = Cardinality({l}) * Cardinality(1..k)
    BY <2>1, <2>2, FS_Product
  <2>4. Cardinality(1..k) = k
    BY <2>1
  <2>. QED
    BY <2>2, <2>3, <2>4
<1>5. \A g \in [Locks -> 0..MaxReentry] :
        (\A m \in Locks \ {l} : g[m] = f[m]) => HoldsOf(g) = others \cup own(g[l])
  <2>. SUFFICES ASSUME NEW g \in [Locks -> 0..MaxReentry],
                       \A m \in Locks \ {l} : g[m] = f[m]
                PROVE  HoldsOf(g) = others \cup own(g[l])
    OBVIOUS
  <2>1. ASSUME NEW h \in HoldsOf(g) PROVE h \in others \cup own(g[l])
    BY <2>1 DEF HoldsOf
  <2>2. ASSUME NEW h \in others PROVE h \in HoldsOf(g)
    BY <2>2 DEF HoldsOf
  <2>3. ASSUME NEW h \in own(g[l]) PROVE h \in HoldsOf(g)
    BY <2>3 DEF HoldsOf
  <2>. QED
    BY <2>1, <2>2, <2>3
<1>6. \A k \in 0..MaxReentry : others \cap own(k) = {}
  OBVIOUS
<1>. HIDE DEF others, own
<1>7. \A k \in 0..MaxReentry :
        Cardinality(others \cup own(k)) = Cardinality(others) + k
  <2>. SUFFICES ASSUME NEW k \in 0..MaxReentry
                PROVE  Cardinality(others \cup own(k)) = Cardinality(others) + k
    OBVIOUS
  <2>1. Cardinality(others \cup own(k)) =
          Cardinality(others) + Cardinality(own(k)) - Cardinality(others \cap own(k))
    BY <1>3, <1>4, FS_Union
  <2>2. Cardinality(others \cap own(k)) = 0
    BY <1>6, FS_EmptySet
  <2>3. Cardinality(own(k)) = k /\ Cardinality(others) \in Nat
    BY <1>3, <1>4, FS_CardinalityType
  <2>. QED
    BY <2>1, <2>2, <2>3
<1>8. Cardinality(others) \in Nat
  BY <1>3, FS_CardinalityType
<1>. DEFINE g == [f EXCEPT ![l] = v]
<1>9. g \in [Locks -> 0..MaxReentry] /\ g[l] = v /\ \A m \in Locks \ {l} : g[m] = f[m]
  OBVIOUS
<1>. HIDE DEF g
<1>10. HoldsOf(f) = others \cup own(f[l]) /\ HoldsOf(g) = others \cup own(v)
  BY <1>5, <1>9
<1>11. /\ Cardinality(HoldsOf(f)) = Cardinality(others) + f[l]
       /\ Cardinality(HoldsOf(g)) = Cardinality(others) + v
  BY <1>7, <1>10
<1>. QED
  BY <1>8, <1>11 DEF g

\* No lock at all.
LEMMA NoHolds ==
  ASSUME NEW f \in [Locks -> 0..MaxReentry], Cardinality(HoldsOf(f)) = 0
  PROVE  \A l \in Locks : f[l] = 0
<1>. SUFFICES ASSUME NEW l \in Locks, f[l] # 0 PROVE FALSE
  OBVIOUS
<1>1. 0 \in 0..MaxReentry
  BY ConstantsAssumption
<1>2. /\ Cardinality(HoldsOf([f EXCEPT ![l] = 0])) \in Nat
      /\ Cardinality(HoldsOf([f EXCEPT ![l] = 0])) =
           Cardinality(HoldsOf(f)) - f[l] + 0
  BY <1>1, HoldsUpdate
<1>3. f[l] \in Nat \ {0}
  BY ConstantsAssumption
<1>. QED
  BY <1>2, <1>3

\* No holder, no lock.
LEMMA HoldsNone ==
  ASSUME NEW f \in [Locks -> 0..MaxReentry], \A l \in Locks : f[l] = 0
  PROVE  Cardinality(HoldsOf(f)) = 0
<1>1. HoldsOf(f) = {}
  BY DEF HoldsOf
<1>. QED
  BY <1>1, FS_EmptySet

-----------------------------------------------------------------------------
(* References                                                              *)

\* The references of m: the containers W and H, and the timers t and e.
RefSum(m, W, H, t, e) ==
  Indicator(m \in W) + Indicator(t[m] # "none")
  + Indicator(m \in H) + Indicator(e[m] # "none")

\* Every count in r is the number of references, and decides what is pooled.
Counted(r, c, f, W, H, t, e) ==
  \A m \in Locks :
    /\ r[m] = RefSum(m, W, H, t, e)
    /\ f[m] = Indicator(r[m] = 0)
    /\ c[m] = NIL <=> r[m] = 0

\* RefsCounted as an operator of the containers it counts.
LEMMA CountedIsRefsCounted ==
  /\ RefsCounted <=>
       Counted(lock_ref, command, free_locks, Waits, Held, tmo, exp)
  /\ RefsCounted' <=>
       Counted(lock_ref', command', free_locks', Waits', Held', tmo', exp')
BY DEF RefsCounted, Counted, RefSum

\* References are natural numbers, and an object without one is nowhere.
LEMMA RefSumFacts ==
  ASSUME NEW m, NEW W, NEW H, NEW t, NEW e
  PROVE  /\ RefSum(m, W, H, t, e) \in Nat
         /\ RefSum(m, W, H, t, e) = 0 <=>
              m \notin W /\ m \notin H /\ t[m] = "none" /\ e[m] = "none"
BY DEF RefSum, Indicator

\* Objects in use are exactly those not in the pool.
LEMMA EmptyManager ==
  ASSUME TypeOK, RefsCounted, ObjectsCounted, ref_count = 0
  PROVE  Waits = {} /\ Held = {} /\ locks = <<>> /\ wait_locks = <<>>
<1>. DEFINE U == {l \in Locks : free_locks[l] = 0}
<1>1. U \in SUBSET Locks /\ Cardinality(U) = 0
  BY DEF ObjectsCounted
<1>2. U = {}
  BY <1>1, LockSets, FS_EmptySet
<1>3. ASSUME NEW m \in Locks PROVE lock_ref[m] = 0
  <2>1. free_locks[m] # 0 /\ free_locks[m] = Indicator(lock_ref[m] = 0)
    BY <1>2 DEF RefsCounted
  <2>. QED
    BY <2>1 DEF Indicator
<1>4. ASSUME NEW m \in Locks PROVE m \notin Waits /\ m \notin Held
  BY <1>3, CountedIsRefsCounted, RefSumFacts DEF Counted
<1>5. Waits \subseteq Locks /\ Held \subseteq Locks /\ Range(locks) \subseteq Held
  BY RangeIndex DEF Waits, Held, TypeOK, TypePointers
<1>6. Waits = {} /\ Held = {} /\ Range(locks) = {}
  BY <1>4, <1>5
<1>. QED
  BY <1>6, RangeIndex DEF Waits, TypeOK, TypePointers

\* References refs are given back, and the objects Z that have no other one are
\* freed; W, H, t and e are the new containers.
Releases(refs, Z, W, H, t, e) ==
  /\ Z \in SUBSET Locks /\ FreeLock(Z, {})
  /\ refs \in [Locks -> Int]
  /\ \A m \in Locks : lock_ref'[m] = lock_ref[m] - refs[m]
  /\ \A m \in Locks : refs[m] + RefSum(m, W, H, t, e) = RefSum(m, Waits, Held, tmo, exp)
  /\ \A m \in Locks : m \in Z <=> lock_ref[m] = refs[m] /\ lock_ref[m] # 0
  /\ \A m \in Locks : lock_ref[m] = 0 => refs[m] = 0

\* The new containers are counted again.
LEMMA ReleaseCounted ==
  ASSUME TypeOK, RefsCounted, ObjectsCounted,
         NEW refs, NEW Z, NEW W, NEW H, NEW t, NEW e, Releases(refs, Z, W, H, t, e)
  PROVE  /\ Counted(lock_ref', command', free_locks', W, H, t, e)
         /\ ObjectsCounted'
         /\ ref_count' = 0 => \A m \in Locks : m \notin W /\ m \notin H
         /\ \A m \in Locks : m \in W \/ m \in H => command'[m] = command[m]
<1>0. /\ Z \in SUBSET Locks /\ FreeLock(Z, {})
      /\ refs \in [Locks -> Int]
      /\ \A m \in Locks : lock_ref'[m] = lock_ref[m] - refs[m]
      /\ \A m \in Locks : refs[m] + RefSum(m, W, H, t, e) = RefSum(m, Waits, Held, tmo, exp)
      /\ \A m \in Locks : m \in Z <=> lock_ref[m] = refs[m] /\ lock_ref[m] # 0
      /\ \A m \in Locks : lock_ref[m] = 0 => refs[m] = 0
  BY DEF Releases
<1>. USE <1>0
<1>. USE ConstantsAssumption
<1>1. ASSUME NEW m \in Locks
      PROVE  /\ lock_ref[m] = RefSum(m, Waits, Held, tmo, exp)
             /\ lock_ref[m] \in Nat /\ refs[m] \in Int
             /\ lock_ref'[m] = RefSum(m, W, H, t, e)
             /\ lock_ref'[m] \in Nat
             /\ m \in Z <=> lock_ref'[m] = 0 /\ lock_ref[m] # 0
  <2>1. lock_ref[m] = RefSum(m, Waits, Held, tmo, exp)
    BY CountedIsRefsCounted DEF Counted
  <2>2. RefSum(m, Waits, Held, tmo, exp) \in Nat /\ RefSum(m, W, H, t, e) \in Nat
    BY RefSumFacts
  <2>3. refs[m] \in Int
    OBVIOUS
  <2>4. /\ lock_ref'[m] = lock_ref[m] - refs[m]
        /\ refs[m] + RefSum(m, W, H, t, e) = RefSum(m, Waits, Held, tmo, exp)
        /\ m \in Z <=> lock_ref[m] = refs[m] /\ lock_ref[m] # 0
    OBVIOUS
  <2>. HIDE DEF RefSum
  <2>. QED
    BY <2>1, <2>2, <2>3, <2>4
<1>2. ASSUME NEW m \in Locks
      PROVE  /\ free_locks[m] = Indicator(lock_ref[m] = 0)
             /\ command[m] = NIL <=> lock_ref[m] = 0
             /\ free_locks'[m] = free_locks[m] + Indicator(m \in Z)
             /\ command'[m] = IF m \in Z THEN NIL ELSE command[m]
  BY DEF RefsCounted, FreeLock, Indicator, TypeOK, TypeCounters
<1>3. ASSUME NEW m \in Locks
      PROVE  /\ free_locks'[m] = Indicator(lock_ref'[m] = 0)
             /\ command'[m] = NIL <=> lock_ref'[m] = 0
  <2>1. lock_ref[m] = 0 => lock_ref'[m] = 0
    BY <1>1
  <2>2. command'[m] = NIL <=> lock_ref'[m] = 0
    BY <1>1, <1>2, <2>1
  <2>. QED
    BY <1>1, <1>2, <2>1, <2>2 DEF Indicator
<1>4. Counted(lock_ref', command', free_locks', W, H, t, e)
  BY <1>1, <1>3 DEF Counted
<1>5. ObjectsCounted'
  <2>. DEFINE U == {m \in Locks : free_locks[m] = 0}
              V == {m \in Locks : free_locks'[m] = 0}
  <2>1. ASSUME NEW m \in Locks PROVE m \in V <=> m \in U /\ m \notin Z
    BY <1>1, <1>2, <1>3 DEF Indicator
  <2>2. ASSUME NEW m \in Z PROVE m \in U
    BY <1>1, <1>2 DEF Indicator
  <2>3. V = U \ Z /\ U \cap Z = Z /\ U \in SUBSET Locks
    BY <2>1, <2>2
  <2>4. Cardinality(V) = Cardinality(U) - Cardinality(Z)
    <3>. HIDE DEF U, V
    <3>1. Cardinality(U \ Z) = Cardinality(U) - Cardinality(U \cap Z)
      BY <2>3, LockSets, FS_Difference
    <3>. QED
      BY <2>3, <3>1
  <2>5. ref_count = Cardinality(U) /\ Cardinality({}) = 0
    BY FS_EmptySet DEF ObjectsCounted
  <2>6. Cardinality(U) \in Nat /\ Cardinality(Z) \in Nat
    BY <2>3, LockSets
  <2>7. ref_count' = ref_count - Cardinality(Z) - Cardinality({})
    BY DEF FreeLock
  <2>. HIDE DEF U, V
  <2>8. ref_count' = Cardinality(V)
    BY <2>4, <2>5, <2>6, <2>7
  <2>. QED
    BY <2>8 DEF ObjectsCounted, V
<1>6. ASSUME ref_count' = 0, NEW m \in Locks PROVE m \notin W /\ m \notin H
  <2>. DEFINE V == {k \in Locks : free_locks'[k] = 0}
  <2>1. V \in SUBSET Locks /\ Cardinality(V) = 0
    BY <1>5, <1>6 DEF ObjectsCounted
  <2>2. V = {}
    BY <2>1, LockSets, FS_EmptySet
  <2>3. lock_ref'[m] = 0
    BY <1>3, <2>2 DEF Indicator
  <2>. QED
    BY <1>1, <2>3, RefSumFacts
<1>7. ASSUME NEW m \in Locks, m \in W \/ m \in H PROVE command'[m] = command[m]
  <2>1. lock_ref'[m] # 0
    BY <1>1, <1>7, RefSumFacts
  <2>. QED
    BY <1>1, <1>2, <2>1
<1>. QED
  BY <1>4, <1>5, <1>6, <1>7

\* An object from the pool is in no container, and no holder.
LEMMA PooledFacts ==
  ASSUME TypeOK, SafetyInv, NEW l \in Locks, NEW c \in LockInputs, GetOrNewLock(l, c)
  PROVE  /\ lock_ref[l] = 0 /\ l \notin Waits /\ l \notin Held
         /\ tmo[l] = "none" /\ exp[l] = "none" /\ lock_locked[l] = 0
<1>1. lock_ref[l] = 0
  BY DEF SafetyInv, RefsCounted, GetOrNewLock, Indicator
<1>2. l \notin Waits /\ l \notin Held /\ tmo[l] = "none" /\ exp[l] = "none"
  BY <1>1, CountedIsRefsCounted, RefSumFacts DEF SafetyInv, Counted
<1>3. ~Holding(l)
  BY <1>2 DEF SafetyInv, HoldersHeld
<1>. QED
  BY <1>1, <1>2, <1>3 DEF Holding, TypeOK, TypeCounters

\* An object of the pool enters two of the containers W, H, t and e.
Acquires(l, c, W, H, t, e) ==
  /\ GetOrNewLock(l, c)
  /\ lock_ref[l] = 0 /\ lock_ref' = [lock_ref EXCEPT ![l] = @ + 2]
  /\ \A m \in Locks \ {l} : RefSum(m, W, H, t, e) = RefSum(m, Waits, Held, tmo, exp)
  /\ RefSum(l, W, H, t, e) = 2

\* An object that gains references is counted again afterwards.
LEMMA AcquireCounted ==
  ASSUME TypeOK, RefsCounted, ObjectsCounted, NEW l \in Locks, NEW c \in LockInputs,
         NEW W, NEW H, NEW t, NEW e, Acquires(l, c, W, H, t, e)
  PROVE  /\ Counted(lock_ref', command', free_locks', W, H, t, e)
         /\ ObjectsCounted'
<1>0. /\ GetOrNewLock(l, c)
      /\ lock_ref[l] = 0 /\ lock_ref' = [lock_ref EXCEPT ![l] = @ + 2]
      /\ \A m \in Locks \ {l} : RefSum(m, W, H, t, e) = RefSum(m, Waits, Held, tmo, exp)
      /\ RefSum(l, W, H, t, e) = 2
  BY DEF Acquires
<1>. USE <1>0
<1>. USE ConstantsAssumption
<1>1. ASSUME NEW m \in Locks
      PROVE  /\ lock_ref[m] = RefSum(m, Waits, Held, tmo, exp) /\ lock_ref[m] \in Int
             /\ free_locks[m] = Indicator(lock_ref[m] = 0)
             /\ command[m] = NIL <=> lock_ref[m] = 0
  BY CountedIsRefsCounted DEF Counted, TypeOK, TypeCounters
<1>2. ASSUME NEW m \in Locks
      PROVE  /\ lock_ref'[m] = IF m = l THEN 2 ELSE lock_ref[m]
             /\ free_locks'[m] = IF m = l THEN 0 ELSE free_locks[m]
             /\ command'[m] = IF m = l THEN c ELSE command[m]
  <2>1. free_locks[l] = 1
    BY <1>1 DEF Indicator
  <2>. QED
    BY <2>1 DEF GetOrNewLock, TypeOK, TypeCounters, TypePointers
<1>3. Counted(lock_ref', command', free_locks', W, H, t, e)
  <2>. SUFFICES ASSUME NEW m \in Locks
                PROVE  /\ lock_ref'[m] = RefSum(m, W, H, t, e)
                       /\ free_locks'[m] = Indicator(lock_ref'[m] = 0)
                       /\ command'[m] = NIL <=> lock_ref'[m] = 0
    BY DEF Counted
  <2>1. CASE m = l
    BY <1>2, <2>1 DEF Indicator
  <2>2. CASE m # l
    BY <1>1, <1>2, <2>2
  <2>. QED
    BY <2>1, <2>2
<1>4. ObjectsCounted'
  <2>. DEFINE U == {m \in Locks : free_locks[m] = 0}
              V == {m \in Locks : free_locks'[m] = 0}
  <2>1. ASSUME NEW m \in Locks PROVE m \in V <=> m \in U \/ m = l
    BY <1>2
  <2>2. V = U \cup {l} /\ l \notin U /\ U \in SUBSET Locks
    BY <1>1, <2>1 DEF Indicator
  <2>3. IsFiniteSet(U) /\ Cardinality(U) \in Nat
    BY <2>2, LockSets
  <2>. HIDE DEF U, V
  <2>4. Cardinality(V) = Cardinality(U) + 1
    BY <2>2, <2>3, FS_AddElement
  <2>5. ref_count' = ref_count + 1 /\ ref_count = Cardinality(U)
    BY DEF GetOrNewLock, ObjectsCounted, U
  <2>6. ref_count' = Cardinality(V)
    BY <2>4, <2>5
  <2>. QED
    BY <2>6 DEF ObjectsCounted, V
<1>. QED
  BY <1>3, <1>4

-----------------------------------------------------------------------------
(* Steps that move no object                                               *)

\* A step that changes neither the queues nor who holds.
LEMMA QuietSafe ==
  ASSUME TypeOK, SafetyInv,
         UNCHANGED <<current_lock, locks, wait_locks, lock_maps, timeouted,
                     free_locks, lock_ref, ref_count>>,
         locked' = Cardinality(Holds'),
         \A m \in Locks : Holding(m)' <=> Holding(m),
         \A m \in Locks : expried'[m] <=> expried[m],
         \A m \in Locks : command'[m] = NIL <=> command[m] = NIL,
         \A i \in LockIds : lock_maps[i] # NIL => command'[lock_maps[i]].id = i,
         \A m \in Locks : /\ tmo'[m] = "none" <=> tmo[m] = "none"
                          /\ exp'[m] = "none" <=> exp[m] = "none"
                          /\ exp'[m] # "long"
  PROVE  SafetyInv'
<1>1. Waits' = Waits /\ Held' = Held /\ \A m \in Locks : Waiting(m)' <=> Waiting(m)
  BY DEF Waits, Held, Waiting
<1>2. RefsCounted'
  <2>. SUFFICES ASSUME NEW m \in Locks
                PROVE  /\ lock_ref[m] = Indicator(m \in Waits) + Indicator(tmo'[m] # "none")
                             + Indicator(m \in Held) + Indicator(exp'[m] # "none")
                       /\ free_locks[m] = Indicator(lock_ref[m] = 0)
                       /\ command'[m] = NIL <=> lock_ref[m] = 0
    BY <1>1 DEF RefsCounted
  <2>1. /\ Indicator(tmo'[m] # "none") = Indicator(tmo[m] # "none")
        /\ Indicator(exp'[m] # "none") = Indicator(exp[m] # "none")
    BY DEF Indicator
  <2>. QED
    BY <2>1 DEF SafetyInv, RefsCounted
<1>3. ObjectsCounted' /\ QueuesDistinct' /\ NoLongLease'
  BY DEF SafetyInv, ObjectsCounted, QueuesDistinct, NoLongLease
<1>4. WaitersIdle'
  BY <1>1 DEF SafetyInv, WaitersIdle
<1>5. HoldersHeld'
  <2>1. \A m \in Locks : Holding(m)' => m \in Held'
    BY <1>1 DEF SafetyInv, HoldersHeld
  <2>2. \A m \in Locks : Holding(m)' <=> exp'[m] # "none" /\ ~expried'[m]
    BY DEF SafetyInv, HoldersHeld
  <2>3. /\ current_lock' # NIL => Holding(current_lock)'
        /\ current_lock' = NIL => \A m \in Locks : ~Holding(m)'
    <3>1. current_lock' = current_lock
      OBVIOUS
    <3>2. current_lock # NIL => current_lock \in Locks /\ Holding(current_lock)
      BY DEF SafetyInv, HoldersHeld, TypeOK, TypePointers
    <3>3. current_lock # NIL => lock_locked'[current_lock] > 0
      BY <3>2 DEF Holding
    <3>4. current_lock = NIL => \A m \in Locks : ~Holding(m)'
      BY DEF SafetyInv, HoldersHeld
    <3>. QED
      BY <3>1, <3>3, <3>4 DEF Holding
  <2>. QED
    BY <2>1, <2>2, <2>3 DEF HoldersHeld
<1>6. MapsToHolders'
  <2>. SUFFICES ASSUME NEW i \in LockIds, lock_maps[i] # NIL
                PROVE  /\ lock_locked'[lock_maps[i]] > 0
                       /\ lock_maps[i] # current_lock
                       /\ command'[lock_maps[i]].id = i
    BY DEF MapsToHolders, Holding
  <2>1. lock_maps[i] \in Locks
    BY DEF TypeOK, TypePointers
  <2>. QED
    BY <2>1 DEF SafetyInv, MapsToHolders, Holding
<1>. QED
  BY <1>2, <1>3, <1>4, <1>5, <1>6 DEF SafetyInv

\* A manager that nobody refers to has empty queues already.
LEMMA ResetIsEmpty ==
  ASSUME TypeOK, RefsCounted, ObjectsCounted,
         RemoveLockManager(ref_count = 0, locks, wait_locks)
  PROVE  UNCHANGED <<locks, wait_locks>>
BY EmptyManager DEF RemoveLockManager

\* Requests and checks that only read, or move an entry between timer queues.
LEMMA ReadSafe ==
  ASSUME TypeOK, SafetyInv, LongLeases = FALSE
  PROVE  /\ \A c \in LockInputs :
              LockShow(c) \/ LockReenterNoLease(c) \/ LockRefuse(c) \/ LockPass(c)
                => SafetyInv'
         /\ \A u \in UnlockInputs : UnLockError(u) => SafetyInv'
         /\ \A r : ReadReply(r) => SafetyInv'
         /\ \A l \in Locks : CheckTimeOutKeep(l) \/ CheckTimeOutDue(l)
                             \/ CheckExpriedKeep(l) \/ CheckExpriedDue(l) => SafetyInv'
         /\ WakeCheck => SafetyInv'
         /\ UNCHANGED vars => SafetyInv'
<1>. DEFINE Still == UNCHANGED <<current_lock, locks, wait_locks, lock_maps, timeouted,
                                 free_locks, lock_ref, ref_count, locked, lock_locked,
                                 expried, command>>
<1>1. ASSUME Still,
             \A m \in Locks : /\ tmo'[m] = "none" <=> tmo[m] = "none"
                              /\ exp'[m] = "none" <=> exp[m] = "none"
                              /\ exp'[m] # "long"
      PROVE  SafetyInv'
  <2>1. locked' = Cardinality(Holds')
    BY <1>1 DEF SafetyInv, Holds
  <2>2. \A m \in Locks : Holding(m)' <=> Holding(m)
    BY <1>1 DEF Holding
  <2>3. \A i \in LockIds : lock_maps[i] # NIL => command'[lock_maps[i]].id = i
    BY <1>1 DEF SafetyInv, MapsToHolders
  <2>. QED
    BY <1>1, <2>1, <2>2, <2>3, QuietSafe
<1>2. \A m \in Locks : exp[m] # "long"
  BY DEF SafetyInv, NoLongLease
<1>3. ASSUME Still, UNCHANGED <<tmo, exp>> PROVE SafetyInv'
  BY <1>1, <1>2, <1>3
<1>4. ASSUME NEW c \in LockInputs,
             LockShow(c) \/ LockReenterNoLease(c) \/ LockRefuse(c) \/ LockPass(c)
      PROVE  SafetyInv'
  <2>1. CASE LockPass(c)
    <3>1. UNCHANGED <<locks, wait_locks>>
      BY <2>1, ResetIsEmpty DEF SafetyInv, LockPass
    <3>. QED
      BY <1>3, <2>1, <3>1 DEF LockPass, timer_vars, pool_vars
  <2>2. CASE LockShow(c) \/ LockReenterNoLease(c) \/ LockRefuse(c)
    BY <1>3, <2>2 DEF LockShow, LockReenterNoLease, LockRefuse, vars, manager_vars,
                      timer_vars, pool_vars
  <2>. QED
    BY <1>4, <2>1, <2>2
<1>5. ASSUME NEW u \in UnlockInputs, UnLockError(u) PROVE SafetyInv'
  BY <1>3, <1>5 DEF UnLockError, vars, manager_vars, timer_vars, pool_vars
<1>6. ASSUME NEW r, ReadReply(r) PROVE SafetyInv'
  BY <1>3, <1>6 DEF ReadReply, manager_vars, timer_vars, pool_vars
<1>7. ASSUME NEW l \in Locks, CheckTimeOutKeep(l) \/ CheckTimeOutDue(l) PROVE SafetyInv'
  <2>1. Still /\ UNCHANGED exp
    BY <1>7 DEF CheckTimeOutKeep, CheckTimeOutDue, manager_vars, pool_vars
  <2>2. \A m \in Locks : tmo'[m] = "none" <=> tmo[m] = "none"
    BY <1>7 DEF CheckTimeOutKeep, CheckTimeOutDue, TypeOK, TypePointers
  <2>. QED
    BY <1>1, <1>2, <2>1, <2>2
<1>8. ASSUME NEW l \in Locks, CheckExpriedKeep(l) \/ CheckExpriedDue(l) PROVE SafetyInv'
  <2>1. Still /\ UNCHANGED tmo
    BY <1>8 DEF CheckExpriedKeep, CheckExpriedDue, manager_vars, pool_vars
  <2>2. \A m \in Locks : (exp'[m] = "none" <=> exp[m] = "none") /\ exp'[m] # "long"
    BY <1>2, <1>8 DEF CheckExpriedKeep, CheckExpriedDue, TypeOK, TypePointers
  <2>. QED
    BY <1>1, <2>1, <2>2
<1>9. ASSUME WakeCheck PROVE SafetyInv'
  BY <1>3, <1>9 DEF WakeCheck, manager_vars, timer_vars, pool_vars
<1>10. ASSUME UNCHANGED vars PROVE SafetyInv'
  BY <1>3, <1>10 DEF vars, manager_vars, timer_vars, pool_vars
<1>. QED
  BY <1>4, <1>5, <1>6, <1>7, <1>8, <1>9, <1>10

-----------------------------------------------------------------------------
(* Requests of a holder                                                    *)

\* The Lock found for a LockId holds the key, and lock_maps leads to no other
\* LockId's Lock.
LEMMA FoundHolds ==
  ASSUME TypeOK, SafetyInv, NEW id \in LockIds, NEW l \in Locks, l = GetLockedLock(id)
  PROVE  /\ Holding(l)
         /\ \A i \in LockIds : lock_maps[i] = l => i = id
<1>1. CASE l = current_lock
  <2>1. Holding(l)
    BY <1>1, ConstantsAssumption DEF SafetyInv, HoldersHeld
  <2>2. \A i \in LockIds : lock_maps[i] # l
    BY <1>1, ConstantsAssumption DEF SafetyInv, MapsToHolders
  <2>. QED
    BY <2>1, <2>2
<1>2. CASE l = lock_maps[id]
  <2>1. l # NIL
    BY ConstantsAssumption
  <2>. QED
    BY <1>2, <2>1 DEF SafetyInv, MapsToHolders
<1>. QED
  BY <1>1, <1>2 DEF GetLockedLock

\* One lock more or less of a holder that keeps at least one.
LEMMA RecountSafe ==
  ASSUME TypeOK, SafetyInv, NEW l \in Locks, Holding(l), NEW v \in 1..MaxReentry,
         lock_locked' = [lock_locked EXCEPT ![l] = v],
         locked' = locked - lock_locked[l] + v
  PROVE  /\ locked' = Cardinality(Holds')
         /\ \A m \in Locks : Holding(m)' <=> Holding(m)
<1>1. lock_locked \in [Locks -> 0..MaxReentry] /\ v \in 0..MaxReentry
  BY DEF TypeOK, TypeCounters
<1>2. Cardinality(HoldsOf(lock_locked')) = Cardinality(Holds) - lock_locked[l] + v
  BY <1>1, HoldsUpdate DEF Holds
<1>3. locked' = Cardinality(Holds')
  BY <1>2 DEF SafetyInv, Holds
<1>4. \A m \in Locks : Holding(m)' <=> Holding(m)
  BY <1>1 DEF Holding
<1>. QED
  BY <1>3, <1>4

\* Renewing a lease keeps the holder's timer entry where it is.
LEMMA RenewFacts ==
  ASSUME TypeOK, SafetyInv, NEW c \in LockInputs, NEW l \in Locks,
         l = GetLockedLock(c.id), Renew(l, c)
  PROVE  /\ UNCHANGED <<timeouted, free_locks, lock_ref, tmo, exp>>
         /\ \A m \in Locks : expried'[m] <=> expried[m]
         /\ \A m \in Locks : command'[m] = NIL <=> command[m] = NIL
         /\ \A i \in LockIds : lock_maps[i] # NIL => command'[lock_maps[i]].id = i
<1>. USE ConstantsAssumption
<1>1. exp[l] # "long"
  BY DEF SafetyInv, NoLongLease
<1>2. UNCHANGED <<timeouted, free_locks, lock_ref, tmo, exp>>
  BY <1>1 DEF Renew, TypeOK, TypePointers
<1>3. \A m \in Locks : expried'[m] <=> expried[m]
  BY <1>1 DEF Renew, TypeOK, TypeFlags
<1>4. c.id \in LockIds
  BY DEF LockCommand
<1>5. Holding(l) /\ \A i \in LockIds : lock_maps[i] = l => i = c.id
  BY <1>4, FoundHolds
<1>6. command' = [command EXCEPT ![l] = c] /\ command \in [Locks -> LockInputs \cup {NIL}]
  BY DEF Renew, TypeOK, TypePointers
<1>7. lock_ref[l] # 0
  <2>1. l \in Held
    BY <1>5 DEF SafetyInv, HoldersHeld
  <2>. QED
    BY <2>1, CountedIsRefsCounted, RefSumFacts DEF SafetyInv, Counted
<1>8. command[l] # NIL
  BY <1>7 DEF SafetyInv, RefsCounted
<1>9. ASSUME NEW m \in Locks PROVE command'[m] = NIL <=> command[m] = NIL
  BY <1>6, <1>8
<1>10. ASSUME NEW i \in LockIds, lock_maps[i] # NIL
       PROVE  command'[lock_maps[i]].id = i
  <2>1. lock_maps[i] \in Locks /\ command[lock_maps[i]].id = i
    BY <1>10 DEF SafetyInv, MapsToHolders, TypeOK, TypePointers
  <2>. QED
    BY <1>5, <1>6, <2>1
<1>. QED
  BY <1>2, <1>3, <1>9, <1>10

\* Renewals, reentries and releases of one level keep SafetyInv.
LEMMA HolderSafe ==
  ASSUME TypeOK, SafetyInv
  PROVE  /\ \A c \in LockInputs : LockUpdate(c) \/ LockReenter(c) => SafetyInv'
         /\ \A u \in UnlockInputs : UnLockOne(u) => SafetyInv'
<1>. USE ConstantsAssumption
<1>0. \A m \in Locks : exp[m] # "long"
  BY DEF SafetyInv, NoLongLease
<1>1. ASSUME NEW c \in LockInputs, LockUpdate(c) PROVE SafetyInv'
  <2>1. c.id \in LockIds /\ c.flag = "update" /\ Holder(c) # NIL
    BY <1>1 DEF LockUpdate, LockCommand
  <2>2. PICK l \in Locks : l = Holder(c) /\ l = GetLockedLock(c.id)
    BY <2>1, HolderType DEF Holder
  <2>3. Renew(l, c)
    BY <1>1, <2>2 DEF LockUpdate
  <2>4. UNCHANGED <<current_lock, locks, lock_maps, wait_locks, ref_count, locked, lock_locked>>
    BY <1>1 DEF LockUpdate, manager_vars
  <2>5. /\ locked' = Cardinality(Holds')
        /\ \A m \in Locks : Holding(m)' <=> Holding(m)
    BY <2>4 DEF SafetyInv, Holds, Holding
  <2>. QED
    BY <1>0, <2>2, <2>3, <2>4, <2>5, RenewFacts, QuietSafe
<1>2. ASSUME NEW c \in LockInputs, LockReenter(c) PROVE SafetyInv'
  <2>1. c.id \in LockIds /\ c.flag = "none" /\ Holder(c) # NIL
    BY <1>2 DEF LockReenter, LockCommand
  <2>2. PICK l \in Locks : l = Holder(c) /\ l = GetLockedLock(c.id)
    BY <2>1, HolderType DEF Holder
  <2>3. Renew(l, c) /\ Holding(l)
    BY <1>2, <2>1, <2>2, FoundHolds DEF LockReenter
  <2>4. UNCHANGED <<current_lock, locks, lock_maps, wait_locks, ref_count>>
    BY <1>2 DEF LockReenter
  <2>5. /\ locked' = Cardinality(Holds')
        /\ \A m \in Locks : Holding(m)' <=> Holding(m)
    <3>1. lock_locked[l] \in 0..MaxReentry /\ locked \in Int
      BY DEF TypeOK, TypeCounters
    <3>2. lock_locked[l] + 1 \in 1..MaxReentry
      BY <1>2, <2>2, <3>1 DEF LockReenter, CanReenter
    <3>3. /\ lock_locked' = [lock_locked EXCEPT ![l] = lock_locked[l] + 1]
          /\ locked' = locked - lock_locked[l] + (lock_locked[l] + 1)
      BY <1>2, <2>2, <3>1 DEF LockReenter
    <3>. QED
      BY <2>3, <3>2, <3>3, RecountSafe
  <2>. QED
    BY <1>0, <2>2, <2>3, <2>4, <2>5, RenewFacts, QuietSafe
<1>3. ASSUME NEW u \in UnlockInputs, UnLockOne(u) PROVE SafetyInv'
  <2>1. u.id \in LockIds /\ UnlockTarget(u) # NIL
    BY <1>3 DEF UnLockOne, UnlockCommand
  <2>2. PICK l \in Locks : l = UnlockTarget(u)
    BY <2>1, HolderType DEF UnlockTarget, TypeOK, TypePointers
  <2>3. lock_locked[l] > 1 /\ lock_locked[l] \in 0..MaxReentry /\ locked \in Int
    BY <1>3, <2>2 DEF UnLockOne, OneOfMany, TypeOK, TypeCounters
  <2>4. /\ UNCHANGED <<current_lock, locks, lock_maps, wait_locks, ref_count, timeouted,
                       expried, tmo, exp, command, lock_ref, free_locks>>
        /\ lock_locked' = [lock_locked EXCEPT ![l] = lock_locked[l] - 1]
        /\ locked' = locked - lock_locked[l] + (lock_locked[l] - 1)
    BY <1>3, <2>2, <2>3 DEF UnLockOne, timer_vars, pool_vars
  <2>5. /\ locked' = Cardinality(Holds')
        /\ \A m \in Locks : Holding(m)' <=> Holding(m)
    <3>1. Holding(l) /\ lock_locked[l] - 1 \in 1..MaxReentry
      BY <2>3 DEF Holding
    <3>. QED
      BY <2>4, <3>1, RecountSafe
  <2>6. \A i \in LockIds : lock_maps[i] # NIL => command'[lock_maps[i]].id = i
    BY <2>4 DEF SafetyInv, MapsToHolders
  <2>. QED
    BY <1>0, <2>4, <2>5, <2>6, QuietSafe
<1>. QED
  BY <1>1, <1>2, <1>3

-----------------------------------------------------------------------------
(* A timer entry is dropped                                                *)

\* The entry of l leaves the timeout queues (t) or the expiry queues (e).
LEMMA DropCounted ==
  ASSUME TypeOK, SafetyInv, NEW l \in Locks, DropTimerRef(l), NEW t, NEW e,
         \A m \in Locks \ {l} : t[m] = tmo[m] /\ e[m] = exp[m],
         \/ tmo[l] # "none" /\ t[l] = "none" /\ e[l] = exp[l]
         \/ exp[l] # "none" /\ e[l] = "none" /\ t[l] = tmo[l]
  PROVE  /\ Counted(lock_ref', command', free_locks', Waits, Held, t, e)
         /\ ObjectsCounted' /\ UNCHANGED <<locks, wait_locks>>
         /\ \A m \in Locks : m \in Held => command'[m] = command[m]
<1>. DEFINE refs == [m \in Locks |-> IF m = l THEN 1 ELSE 0]
            Z == IF lock_ref[l] = 1 THEN {l} ELSE {}
<1>1. /\ Z \in SUBSET Locks /\ FreeLock(Z, {}) /\ refs \in [Locks -> Int]
      /\ \A m \in Locks : lock_ref'[m] = lock_ref[m] - refs[m]
  BY DEF DropTimerRef, TypeOK, TypeCounters
<1>2. ASSUME NEW m \in Locks
      PROVE  refs[m] + RefSum(m, Waits, Held, t, e) = RefSum(m, Waits, Held, tmo, exp)
  <2>1. CASE m = l
    BY <2>1 DEF RefSum, Indicator
  <2>2. CASE m # l
    BY <2>2 DEF RefSum, Indicator
  <2>. QED
    BY <2>1, <2>2
<1>3. lock_ref[l] # 0
  BY CountedIsRefsCounted, RefSumFacts DEF SafetyInv, Counted
<1>4. \A m \in Locks : m \in Z <=> lock_ref[m] = refs[m] /\ lock_ref[m] # 0
  BY <1>3
<1>5. \A m \in Locks : lock_ref[m] = 0 => refs[m] = 0
  BY <1>3
<1>6. RemoveLockManager(lock_ref[l] = 1 /\ ref_count' = 0, locks, wait_locks)
  BY DEF DropTimerRef
<1>. HIDE DEF refs, Z
<1>7. /\ Counted(lock_ref', command', free_locks', Waits, Held, t, e)
      /\ ObjectsCounted'
      /\ ref_count' = 0 => \A m \in Locks : m \notin Waits /\ m \notin Held
      /\ \A m \in Locks : m \in Waits \/ m \in Held => command'[m] = command[m]
  <2>1. Releases(refs, Z, Waits, Held, t, e)
    BY <1>1, <1>2, <1>4, <1>5 DEF Releases
  <2>. QED
    BY <2>1, ReleaseCounted DEF SafetyInv
<1>8. ref_count' = 0 => locks = <<>> /\ wait_locks = <<>>
  <2>1. Waits \subseteq Locks /\ Range(locks) \subseteq Held /\ Held \subseteq Locks
    BY RangeIndex DEF Waits, Held, TypeOK, TypePointers
  <2>2. ref_count' = 0 => Range(wait_locks) = {} /\ Range(locks) = {}
    BY <1>7, <2>1 DEF Waits
  <2>. QED
    BY <2>2, RangeIndex DEF TypeOK, TypePointers
<1>9. UNCHANGED <<locks, wait_locks>>
  BY <1>6, <1>8 DEF RemoveLockManager
<1>. QED
  BY <1>7, <1>9

\* Dropping a dead or late timer entry keeps SafetyInv.
LEMMA DropSafe ==
  ASSUME TypeOK, SafetyInv, NEW l \in Locks,
         CheckTimeOutDead(l) \/ DoTimeOutLate(l) \/ CheckExpriedDead(l) \/ DoExpriedLate(l)
  PROVE  SafetyInv'
<1>1. /\ UNCHANGED <<current_lock, lock_maps, locked, timeouted, expried, lock_locked>>
      /\ DropTimerRef(l)
  BY DEF CheckTimeOutDead, DoTimeOutLate, CheckExpriedDead, DoExpriedLate
<1>2. /\ \A m \in Locks \ {l} : tmo'[m] = tmo[m] /\ exp'[m] = exp[m]
      /\ \/ tmo[l] # "none" /\ tmo'[l] = "none" /\ exp'[l] = exp[l]
         \/ exp[l] # "none" /\ exp'[l] = "none" /\ tmo'[l] = tmo[l] /\ expried[l]
  BY DEF CheckTimeOutDead, DoTimeOutLate, CheckExpriedDead, DoExpriedLate,
         TypeOK, TypePointers
<1>3. /\ Counted(lock_ref', command', free_locks', Waits, Held, tmo', exp')
      /\ ObjectsCounted' /\ UNCHANGED <<locks, wait_locks>>
      /\ \A m \in Locks : m \in Held => command'[m] = command[m]
  BY <1>1, <1>2, DropCounted
<1>4. /\ Waits' = Waits /\ Held' = Held
      /\ \A m \in Locks : (Waiting(m)' <=> Waiting(m)) /\ (Holding(m)' <=> Holding(m))
  BY <1>1, <1>3 DEF Waits, Held, Waiting, Holding
<1>5. RefsCounted'
  BY <1>3, <1>4, CountedIsRefsCounted
<1>6. QueuesDistinct' /\ NoLongLease' /\ WaitersIdle'
  <2>1. QueuesDistinct'
    BY <1>1, <1>3 DEF SafetyInv, QueuesDistinct
  <2>2. ASSUME NEW m \in Locks PROVE exp'[m] # "long" /\ (exp[m] = "none" => exp'[m] = "none")
    BY <1>2 DEF SafetyInv, NoLongLease
  <2>3. NoLongLease'
    BY <2>2 DEF NoLongLease
  <2>4. WaitersIdle'
    BY <1>4, <2>2 DEF SafetyInv, WaitersIdle
  <2>. QED
    BY <2>1, <2>3, <2>4
<1>7. HoldersHeld'
  <2>1. ASSUME NEW m \in Locks
        PROVE  exp'[m] # "none" /\ ~expried[m] <=> exp[m] # "none" /\ ~expried[m]
    BY <1>2
  <2>2. \A m \in Locks : Holding(m)' <=> exp'[m] # "none" /\ ~expried'[m]
    BY <1>1, <1>4, <2>1 DEF SafetyInv, HoldersHeld
  <2>3. \A m \in Locks : Holding(m)' => m \in Held'
    BY <1>4 DEF SafetyInv, HoldersHeld
  <2>4. /\ current_lock' # NIL => Holding(current_lock)'
        /\ current_lock' = NIL => \A m \in Locks : ~Holding(m)'
    BY <1>1 DEF SafetyInv, HoldersHeld, Holding
  <2>. QED
    BY <2>2, <2>3, <2>4 DEF HoldersHeld
<1>8. MapsToHolders'
  <2>. SUFFICES ASSUME NEW i \in LockIds, lock_maps[i] # NIL
                PROVE  /\ lock_locked[lock_maps[i]] > 0
                       /\ lock_maps[i] # current_lock
                       /\ command'[lock_maps[i]].id = i
    BY <1>1 DEF MapsToHolders, Holding
  <2>1. lock_maps[i] \in Locks /\ Holding(lock_maps[i])
    BY DEF SafetyInv, MapsToHolders, TypeOK, TypePointers
  <2>2. lock_maps[i] \in Held
    BY <2>1 DEF SafetyInv, HoldersHeld
  <2>. QED
    BY <1>3, <2>1, <2>2 DEF SafetyInv, MapsToHolders, Holding
<1>9. locked' = Cardinality(Holds')
  BY <1>1 DEF SafetyInv, Holds
<1>. QED
  BY <1>3, <1>5, <1>6, <1>7, <1>8, <1>9 DEF SafetyInv

-----------------------------------------------------------------------------
(* A holder leaves                                                         *)

\* The holders and the queue RemoveLock leaves.
HeldAfterRemove(l, n) ==
  {m \in Locks : m = Promoted(l, n) \/ m \in Range(LocksAfterRemove(l, n))}

\* RemoveLock takes the popped entries and l as current_lock out, promotes a
\* holder, and leaves no current_lock only when nobody else holds.
LEMMA RemoveFacts ==
  ASSUME TypeOK, SafetyInv, NEW l \in Locks, Holding(l), NEW n \in 0..Len(locks),
         RemoveLock(l, n)
  PROVE  /\ LocksAfterRemove(l, n) \in Seq(Locks) /\ Injective(LocksAfterRemove(l, n))
         /\ current_lock' \notin Range(LocksAfterRemove(l, n))
         /\ current_lock' = Promoted(l, n)
         /\ Popped(locks, n) \subseteq Range(locks)
         /\ \A m \in Locks : m \in HeldAfterRemove(l, n) <=>
              m \in Held /\ m \notin Popped(locks, n) /\ ~(m = l /\ current_lock = l)
         /\ \A m \in Popped(locks, n) : lock_locked[m] = 0 \/ m = l
         /\ current_lock' # NIL =>
              current_lock' \in Locks /\ Holding(current_lock') /\ current_lock' # l
         /\ current_lock' = NIL => \A m \in Locks : Holding(m) => m = l
<1>. USE ConstantsAssumption
<1>1. /\ locks \in Seq(Locks) /\ Injective(locks) /\ current_lock \notin Range(locks)
      /\ Len(locks) \in Nat
  BY DEF SafetyInv, QueuesDistinct, TypeOK, TypePointers
<1>2. /\ \A i \in 1..n : lock_locked[locks[i]] = 0 \/ locks[i] = l
      /\ n < Len(locks) => locks[n + 1] \in Locks /\ lock_locked[locks[n + 1]] # 0
                           /\ locks[n + 1] # l
  <2>1. DeadPrefix(locks, n, {m \in Locks : lock_locked[m] = 0} \cup {l})
    BY DEF RemoveLock
  <2>. QED
    BY <1>1, <2>1 DEF DeadPrefix
<1>3. \A m \in Popped(locks, n) : lock_locked[m] = 0 \/ m = l
  BY <1>2 DEF Popped
<1>4. current_lock' = Promoted(l, n)
  BY DEF RemoveLock
<1>5. \A x : x \in Held <=> x \in Locks /\ (x = current_lock \/ x \in Range(locks))
  BY DEF Held
<1>6. /\ Range(locks) \subseteq Locks
      /\ \A m \in Locks : Holding(m) => m = current_lock \/ m \in Range(locks)
  BY <1>1, RangeIndex DEF SafetyInv, HoldersHeld, Held
<1>7. CASE current_lock # l
  <2>. DEFINE r == SubSeq(locks, n + 1, Len(locks))
  <2>1. /\ r \in Seq(Locks) /\ Injective(r) /\ Range(r) = Range(locks) \ Popped(locks, n)
        /\ Popped(locks, n) \subseteq Range(locks) /\ (n = Len(locks) => r = <<>>)
    BY <1>1, PopDistinct
  <2>2. LocksAfterRemove(l, n) = r
    BY <1>7, <2>1 DEF LocksAfterRemove
  <2>. HIDE DEF r
  <2>3. Promoted(l, n) = current_lock
    BY <1>7 DEF Promoted
  <2>4. \A m \in Locks : m \in HeldAfterRemove(l, n) <=>
          m \in Held /\ m \notin Popped(locks, n) /\ ~(m = l /\ current_lock = l)
    BY <1>1, <1>5, <1>7, <2>1, <2>2, <2>3 DEF HeldAfterRemove
  <2>5. current_lock # NIL => current_lock \in Locks /\ Holding(current_lock)
    BY DEF SafetyInv, HoldersHeld, TypeOK, TypePointers
  <2>6. current_lock = NIL => \A m \in Locks : ~Holding(m)
    BY DEF SafetyInv, HoldersHeld
  <2>. QED
    BY <1>1, <1>3, <1>4, <1>7, <2>1, <2>2, <2>3, <2>4, <2>5, <2>6
<1>8. CASE current_lock = l /\ n < Len(locks)
  <2>. DEFINE r == SubSeq(locks, (n + 1) + 1, Len(locks))
  <2>1. n + 1 \in 0..Len(locks)
    BY <1>1, <1>8
  <2>2. /\ r \in Seq(Locks) /\ Injective(r)
        /\ Range(r) = Range(locks) \ Popped(locks, n + 1)
        /\ Popped(locks, n + 1) \subseteq Range(locks)
    BY <1>1, <2>1, PopDistinct
  <2>3. (n + 1) + 1 = n + 2
    BY <1>1
  <2>4. LocksAfterRemove(l, n) = r
    BY <1>1, <1>8, <2>3 DEF LocksAfterRemove
  <2>. HIDE DEF r
  <2>5. Promoted(l, n) = locks[n + 1]
    BY <1>8 DEF Promoted
  <2>6. \A x : x \in Popped(locks, n + 1) <=> x \in Popped(locks, n) \/ x = locks[n + 1]
    <3>1. \A i : i \in 1..(n + 1) <=> i \in 1..n \/ i = n + 1
      BY <1>1
    <3>. QED
      BY <3>1 DEF Popped
  <2>7. locks[n + 1] \notin Popped(locks, n)
    <3>1. n + 1 \in 1..Len(locks) /\ \A i \in 1..n : i \in 1..Len(locks) /\ i # n + 1
      BY <1>1, <1>8
    <3>2. \A i \in 1..n : locks[i] # locks[n + 1]
      BY <1>1, <3>1 DEF Injective
    <3>. QED
      BY <3>2 DEF Popped
  <2>8. \A m \in Locks : m \in HeldAfterRemove(l, n) <=>
          m \in Held /\ m \notin Popped(locks, n) /\ ~(m = l /\ current_lock = l)
    BY <1>1, <1>2, <1>5, <1>8, <2>2, <2>4, <2>5, <2>6, <2>7 DEF HeldAfterRemove
  <2>9. Holding(locks[n + 1])
    BY <1>2, <1>8 DEF Holding, TypeOK, TypeCounters
  <2>. QED
    BY <1>2, <1>3, <1>4, <1>8, <2>2, <2>4, <2>5, <2>6, <2>8, <2>9
<1>9. CASE current_lock = l /\ n = Len(locks)
  <2>1. Popped(locks, n) = Range(locks)
    BY <1>1, <1>9, PopDistinct
  <2>2. LocksAfterRemove(l, n) = <<>> /\ Promoted(l, n) = NIL
    BY <1>1, <1>9 DEF LocksAfterRemove, Promoted
  <2>3. Range(<<>>) = {} /\ Injective(<<>>) /\ <<>> \in Seq(Locks)
    BY <1>1, RangeIndex
  <2>4. \A m \in Locks : m \in HeldAfterRemove(l, n) <=>
          m \in Held /\ m \notin Popped(locks, n) /\ ~(m = l /\ current_lock = l)
    BY <1>5, <1>9, <2>1, <2>2, <2>3 DEF HeldAfterRemove
  <2>5. \A m \in Locks : Holding(m) => m = l
    BY <1>3, <1>6, <1>9, <2>1 DEF Holding
  <2>. QED
    BY <1>3, <1>4, <2>1, <2>2, <2>3, <2>4, <2>5
<1>. QED
  BY <1>1, <1>7, <1>8, <1>9

\* What lock_maps leads to after RemoveLock.
LEMMA RemoveMaps ==
  ASSUME TypeOK, SafetyInv, NEW l \in Locks, Holding(l), NEW n \in 0..Len(locks),
         RemoveLock(l, n), NEW i \in LockIds, lock_maps'[i] # NIL
  PROVE  /\ lock_maps'[i] = lock_maps[i] /\ lock_maps[i] \in Locks
         /\ Holding(lock_maps[i]) /\ lock_maps[i] # l /\ lock_maps[i] # current_lock'
         /\ command[lock_maps[i]].id = i
<1>. USE ConstantsAssumption
<1>. DEFINE x == IF current_lock # l THEN l ELSE Promoted(l, n)
<1>1. lock_maps' = IF x = NIL THEN lock_maps ELSE [lock_maps EXCEPT ![command[x].id] = NIL]
  BY DEF RemoveLock
<1>2. lock_maps'[i] = lock_maps[i] /\ (x # NIL => i # command[x].id)
  BY <1>1 DEF TypeOK, TypePointers
<1>3. /\ lock_maps[i] # NIL /\ lock_maps[i] \in Locks /\ Holding(lock_maps[i])
      /\ lock_maps[i] # current_lock /\ command[lock_maps[i]].id = i
  BY <1>2 DEF SafetyInv, MapsToHolders, TypeOK, TypePointers
<1>4. lock_maps[i] # x
  BY <1>2, <1>3
<1>5. current_lock' = Promoted(l, n)
  BY DEF RemoveLock
<1>6. CASE current_lock # l
  BY <1>2, <1>3, <1>4, <1>5, <1>6 DEF Promoted
<1>7. CASE current_lock = l
  BY <1>2, <1>3, <1>4, <1>5, <1>7
<1>. QED
  BY <1>6, <1>7

\* What remains to be shown of a step that removes a holder: its references.
LEMMA LeaveSafe ==
  ASSUME TypeOK, SafetyInv, NEW l \in Locks, Holding(l), NEW n \in 0..Len(locks),
         RemoveLock(l, n), locks' = LocksAfterRemove(l, n),
         UNCHANGED <<wait_locks, timeouted, tmo>>,
         expried' = [expried EXCEPT ![l] = TRUE],
         \A m \in Locks : exp'[m] = exp[m] \/ (m = l /\ exp'[m] = "none"),
         locked' = locked - lock_locked[l],
         Counted(lock_ref', command', free_locks', Waits, HeldAfterRemove(l, n), tmo, exp'),
         ObjectsCounted',
         \A m \in Locks : m \in HeldAfterRemove(l, n) => command'[m] = command[m]
  PROVE  SafetyInv'
<1>. USE ConstantsAssumption
<1>1. Waits' = Waits /\ Held' = HeldAfterRemove(l, n)
  BY RemoveFacts DEF Waits, Held, HeldAfterRemove
<1>2. Held' \subseteq Held
  BY <1>1, RemoveFacts DEF HeldAfterRemove
<1>3. /\ lock_locked' = [lock_locked EXCEPT ![l] = 0]
      /\ lock_locked \in [Locks -> 0..MaxReentry]
  BY DEF RemoveLock, TypeOK, TypeCounters
<1>4. ASSUME NEW m \in Locks PROVE Holding(m)' <=> Holding(m) /\ m # l
  BY <1>3 DEF Holding
<1>5. RefsCounted'
  BY <1>1, CountedIsRefsCounted
<1>6. QueuesDistinct'
  BY RemoveFacts DEF SafetyInv, QueuesDistinct
<1>7. NoLongLease'
  BY DEF SafetyInv, NoLongLease
<1>8. WaitersIdle'
  <2>1. \A m \in Locks : Waiting(m)' <=> Waiting(m)
    BY <1>1 DEF Waiting
  <2>2. \A m \in Locks : exp[m] = "none" => exp'[m] = "none"
    OBVIOUS
  <2>. QED
    BY <1>2, <1>4, <2>1, <2>2 DEF SafetyInv, WaitersIdle
<1>9. HoldersHeld'
  <2>1. ASSUME NEW m \in Locks, Holding(m)' PROVE m \in Held'
    <3>1. Holding(m) /\ m # l /\ m \in Held
      BY <1>4, <2>1 DEF SafetyInv, HoldersHeld
    <3>2. lock_locked[m] # 0
      BY <3>1, <1>3 DEF Holding
    <3>3. m \notin Popped(locks, n)
      BY <3>1, <3>2, RemoveFacts
    <3>. QED
      BY <1>1, <3>1, <3>3, RemoveFacts
  <2>2. ASSUME NEW m \in Locks
        PROVE  Holding(m)' <=> exp'[m] # "none" /\ ~expried'[m]
    <3>1. expried'[m] <=> expried[m] \/ m = l
      BY DEF TypeOK, TypeFlags
    <3>2. Holding(m) <=> exp[m] # "none" /\ ~expried[m]
      BY DEF SafetyInv, HoldersHeld
    <3>3. m # l => exp'[m] = exp[m]
      OBVIOUS
    <3>. QED
      BY <1>4, <3>1, <3>2, <3>3
  <2>3. current_lock' # NIL => Holding(current_lock)'
    <3>1. current_lock' # NIL => /\ current_lock' \in Locks /\ Holding(current_lock')
                                 /\ current_lock' # l
      BY RemoveFacts
    <3>2. current_lock' # NIL => lock_locked'[current_lock'] > 0
      BY <1>3, <3>1 DEF Holding
    <3>. QED
      BY <3>2 DEF Holding
  <2>4. current_lock' = NIL => \A m \in Locks : ~Holding(m)'
    BY <1>4, RemoveFacts
  <2>. QED
    BY <2>1, <2>2, <2>3, <2>4 DEF HoldersHeld
<1>10. MapsToHolders'
  <2>. SUFFICES ASSUME NEW i \in LockIds, lock_maps'[i] # NIL
                PROVE  /\ lock_locked'[lock_maps'[i]] > 0
                       /\ lock_maps'[i] # current_lock'
                       /\ command'[lock_maps'[i]].id = i
    BY DEF MapsToHolders, Holding
  <2>1. PICK x \in Locks : /\ lock_maps'[i] = x /\ Holding(x) /\ x # l
                           /\ x # current_lock' /\ command[x].id = i
    BY RemoveMaps
  <2>2. lock_locked'[x] > 0
    BY <1>3, <2>1 DEF Holding
  <2>3. x \in HeldAfterRemove(l, n)
    <3>1. Holding(x)'
      BY <1>4, <2>1
    <3>. QED
      BY <1>1, <1>9, <2>1, <3>1 DEF HoldersHeld
  <2>. QED
    BY <2>1, <2>2, <2>3
<1>11. locked' = Cardinality(Holds')
  <2>1. 0 \in 0..MaxReentry /\ lock_locked[l] \in Int /\ locked \in Int
    BY <1>3 DEF TypeOK, TypeCounters
  <2>2. Cardinality(HoldsOf(lock_locked')) = Cardinality(HoldsOf(lock_locked)) - lock_locked[l] + 0
    BY <1>3, <2>1, HoldsUpdate
  <2>. QED
    BY <2>1, <2>2 DEF SafetyInv, Holds
<1>. QED
  BY <1>5, <1>6, <1>7, <1>8, <1>9, <1>10, <1>11 DEF SafetyInv

\* `UnLock` of the last reference of a holder keeps SafetyInv.
LEMMA UnLockSafe ==
  ASSUME TypeOK, SafetyInv, NEW u \in UnlockInputs, NEW l \in Locks,
         NEW n \in 0..Len(locks), UnLock(u, l, n)
  PROVE  SafetyInv'
<1>. USE ConstantsAssumption
<1>. DEFINE refs == ReleaseRefs(l, n)
            Z == {m \in Popped(locks, n) : lock_ref[m] = refs[m]}
            H == HeldAfterRemove(l, n)
<1>1. exp[l] # "long" /\ u.id \in LockIds /\ l = UnlockTarget(u)
  BY DEF SafetyInv, NoLongLease, UnlockCommand, UnLock
<1>2. Holding(l)
  <2>1. CASE l = GetLockedLock(u.id)
    BY <1>1, <2>1, FoundHolds
  <2>2. CASE l = current_lock
    BY <2>2 DEF SafetyInv, HoldersHeld
  <2>. QED
    BY <1>1, <2>1, <2>2 DEF UnlockTarget
<1>3. (Popped(locks, n) \cup (IF exp[l] = "long" THEN {l} ELSE {})) = Popped(locks, n)
  BY <1>1
<1>4. /\ RemoveLock(l, n) /\ expried' = [expried EXCEPT ![l] = TRUE] /\ exp' = exp
      /\ lock_ref' = [m \in Locks |-> lock_ref[m] - refs[m]]
      /\ locked' = locked - ReleasedLocks(l)
      /\ UNCHANGED <<timeouted, tmo>>
  BY <1>1 DEF UnLock
<1>5. FreeLock(Z, {})
  BY <1>1, <1>3 DEF UnLock
<1>6. locks' = LocksAfterRemove(l, n) /\ wait_locks' = wait_locks
  BY <1>1 DEF UnLock, RemoveLockManager
<1>7. locked' = locked - lock_locked[l]
  BY <1>2, <1>4 DEF ReleasedLocks, Holding, TypeOK, TypeCounters
<1>8. /\ Popped(locks, n) \subseteq Held /\ Popped(locks, n) \subseteq Locks
      /\ current_lock \notin Popped(locks, n)
      /\ \A m \in Locks : m \in H <=>
           m \in Held /\ m \notin Popped(locks, n) /\ ~(m = l /\ current_lock = l)
      /\ current_lock = l => l \in Held
  <2>1. Range(locks) \subseteq Locks
    BY RangeIndex DEF TypeOK, TypePointers
  <2>. QED
    BY <1>2, <1>4, <2>1, RemoveFacts DEF Held, SafetyInv, QueuesDistinct
<1>9. ASSUME NEW m \in Locks
      PROVE  /\ refs[m] = Indicator(m \in Popped(locks, n))
                          + Indicator(m = l /\ current_lock = l)
             /\ refs[m] \in Int
  BY <1>1 DEF ReleaseRefs, Indicator
<1>10. refs \in [Locks -> Int]
  BY <1>9 DEF ReleaseRefs
<1>. HIDE DEF refs, H
<1>11. ASSUME NEW m \in Locks
       PROVE  refs[m] + RefSum(m, Waits, H, tmo, exp) = RefSum(m, Waits, Held, tmo, exp)
  BY <1>8, <1>9 DEF RefSum, Indicator
<1>12. lock_ref[l] >= 2 \/ current_lock # l
  <2>1. exp[l] # "none"
    BY <1>2 DEF SafetyInv, HoldersHeld
  <2>2. lock_ref[l] = RefSum(l, Waits, Held, tmo, exp)
    BY CountedIsRefsCounted DEF SafetyInv, Counted
  <2>. QED
    BY <1>8, <2>1, <2>2 DEF RefSum, Indicator
<1>13. ASSUME NEW m \in Locks
       PROVE  /\ m \in Z <=> lock_ref[m] = refs[m] /\ lock_ref[m] # 0
              /\ lock_ref[m] = 0 => refs[m] = 0
  <2>1. lock_ref[m] = 0 => m \notin Held
    BY CountedIsRefsCounted, RefSumFacts DEF SafetyInv, Counted
  <2>2. lock_ref[m] = 0 => refs[m] = 0
    BY <1>8, <1>9, <2>1 DEF Indicator
  <2>3. m \notin Popped(locks, n) /\ refs[m] # 0 => m = l /\ current_lock = l /\ refs[m] = 1
    BY <1>9 DEF Indicator
  <2>4. m \in Popped(locks, n) => lock_ref[m] # 0
    BY <1>8, <2>1
  <2>. QED
    BY <1>12, <2>2, <2>3, <2>4
<1>14. Z \in SUBSET Locks /\ \A m \in Locks : lock_ref'[m] = lock_ref[m] - refs[m]
  BY <1>4, <1>8
<1>. HIDE DEF Z
<1>15. Releases(refs, Z, Waits, H, tmo, exp)
  BY <1>5, <1>10, <1>11, <1>13, <1>14 DEF Releases
<1>16. /\ Counted(lock_ref', command', free_locks', Waits, H, tmo, exp)
       /\ ObjectsCounted'
       /\ \A m \in Locks : m \in Waits \/ m \in H => command'[m] = command[m]
  BY <1>15, ReleaseCounted DEF SafetyInv
<1>. QED
  BY <1>2, <1>4, <1>6, <1>7, <1>16, LeaveSafe DEF H

\* `DoExpried` keeps SafetyInv.
LEMMA DoExpriedSafe ==
  ASSUME TypeOK, SafetyInv, NEW l \in Locks, NEW n \in 0..Len(locks), DoExpried(l, n)
  PROVE  SafetyInv'
<1>. USE ConstantsAssumption
<1>. DEFINE refs == [m \in Locks |-> (IF m \in Popped(locks, n) THEN 1 ELSE 0)
                             + (IF m = l /\ current_lock = l THEN 1 ELSE 0)
                             + (IF m = l THEN 1 ELSE 0)]
            Z == {m \in Popped(locks, n) \cup {l} : lock_ref[m] = refs[m]}
            H == HeldAfterRemove(l, n)
<1>1. /\ exp[l] = "doing" /\ ~expried[l]
      /\ RemoveLock(l, n) /\ expried' = [expried EXCEPT ![l] = TRUE]
      /\ exp' = [exp EXCEPT ![l] = "none"]
      /\ lock_ref' = [m \in Locks |-> lock_ref[m] - refs[m]]
      /\ locked' = locked - lock_locked[l] /\ FreeLock(Z, {})
      /\ RemoveLockManager(l \in Z /\ ref_count' = 0, LocksAfterRemove(l, n), wait_locks)
      /\ UNCHANGED <<timeouted, tmo>>
  BY DEF DoExpried
<1>2. Holding(l)
  BY <1>1 DEF SafetyInv, HoldersHeld
<1>3. \A m \in Locks : exp'[m] = IF m = l THEN "none" ELSE exp[m]
  BY <1>1 DEF TypeOK, TypePointers
<1>4. /\ Popped(locks, n) \subseteq Held /\ Popped(locks, n) \subseteq Locks
      /\ current_lock \notin Popped(locks, n)
      /\ \A m \in Locks : m \in H <=>
           m \in Held /\ m \notin Popped(locks, n) /\ ~(m = l /\ current_lock = l)
      /\ current_lock = l => l \in Held
  <2>1. Range(locks) \subseteq Locks
    BY RangeIndex DEF TypeOK, TypePointers
  <2>. QED
    BY <1>1, <1>2, <2>1, RemoveFacts DEF Held, SafetyInv, QueuesDistinct
<1>5. ASSUME NEW m \in Locks
      PROVE  /\ refs[m] = Indicator(m \in Popped(locks, n))
                          + Indicator(m = l /\ current_lock = l) + Indicator(m = l)
             /\ refs[m] \in Int
  BY DEF Indicator
<1>6. refs \in [Locks -> Int]
  OBVIOUS
<1>7. ASSUME NEW m \in Locks PROVE lock_ref'[m] = lock_ref[m] - refs[m]
  BY <1>1
<1>. HIDE DEF refs, H
<1>8. ASSUME NEW m \in Locks
      PROVE  refs[m] + RefSum(m, Waits, H, tmo, exp') = RefSum(m, Waits, Held, tmo, exp)
  <2>1. CASE m = l
    BY <1>1, <1>3, <1>4, <1>5, <2>1 DEF RefSum, Indicator
  <2>2. CASE m # l
    BY <1>3, <1>4, <1>5, <2>2 DEF RefSum, Indicator
  <2>. QED
    BY <2>1, <2>2
<1>9. ASSUME NEW m \in Locks
      PROVE  /\ m \in Z <=> lock_ref[m] = refs[m] /\ lock_ref[m] # 0
             /\ lock_ref[m] = 0 => refs[m] = 0
  <2>1. lock_ref[m] = 0 => m \notin Held /\ m # l
    BY <1>1, CountedIsRefsCounted, RefSumFacts DEF SafetyInv, Counted
  <2>2. refs[m] # 0 => m \in Popped(locks, n) \cup {l}
    BY <1>5 DEF Indicator
  <2>3. m \in Popped(locks, n) \cup {l} => lock_ref[m] # 0
    BY <1>4, <2>1
  <2>. QED
    BY <2>2, <2>3
<1>10. Releases(refs, Z, Waits, H, tmo, exp')
  <2>1. Z \in SUBSET Locks
    BY <1>4
  <2>. QED
    BY <1>1, <1>6, <1>7, <1>8, <1>9, <2>1 DEF Releases
<1>11. /\ Counted(lock_ref', command', free_locks', Waits, H, tmo, exp')
       /\ ObjectsCounted'
       /\ ref_count' = 0 => \A m \in Locks : m \notin Waits /\ m \notin H
       /\ \A m \in Locks : m \in Waits \/ m \in H => command'[m] = command[m]
  <2>. HIDE DEF Z
  <2>. QED
    BY <1>10, ReleaseCounted DEF SafetyInv
<1>12. ref_count' = 0 => LocksAfterRemove(l, n) = <<>> /\ wait_locks = <<>>
  <2>1. LocksAfterRemove(l, n) \in Seq(Locks) /\ wait_locks \in Seq(Locks)
    BY <1>1, <1>2, RemoveFacts DEF TypeOK, TypePointers
  <2>2. /\ Range(LocksAfterRemove(l, n)) \subseteq Locks /\ Range(wait_locks) \subseteq Locks
        /\ Range(LocksAfterRemove(l, n)) = {} => LocksAfterRemove(l, n) = <<>>
        /\ Range(wait_locks) = {} => wait_locks = <<>>
    BY <2>1, RangeIndex
  <2>3. ref_count' = 0 => Range(LocksAfterRemove(l, n)) = {} /\ Range(wait_locks) = {}
    BY <1>11, <2>2 DEF H, HeldAfterRemove, Waits
  <2>. QED
    BY <2>2, <2>3
<1>13. locks' = LocksAfterRemove(l, n) /\ wait_locks' = wait_locks
  BY <1>1, <1>12 DEF RemoveLockManager
<1>. QED
  BY <1>1, <1>2, <1>3, <1>11, <1>13, LeaveSafe DEF H

-----------------------------------------------------------------------------
(* A holder enters                                                         *)

\* What remains to be shown of a step that adds a holder: its references.
LEMMA EnterSafe ==
  ASSUME TypeOK, SafetyInv, NEW l \in Locks, NEW c \in LockInputs, AddLock(l, c),
         lock_locked[l] = 0, l \notin Held,
         Injective(wait_locks'),
         \A m \in Locks : Waiting(m)' => Waiting(m) /\ m # l,
         locked' = locked + 1,
         expried' = [expried EXCEPT ![l] = FALSE],
         exp' = [exp EXCEPT ![l] = "short"],
         Counted(lock_ref', command', free_locks', Waits', Held \cup {l}, tmo', exp'),
         ObjectsCounted',
         \A m \in Locks : m \in Held => command'[m] = command[m],
         command'[l] = c
  PROVE  SafetyInv'
<1>. USE ConstantsAssumption
<1>1. /\ locks \in Seq(Locks) /\ Injective(locks) /\ current_lock \notin Range(locks)
      /\ current_lock \in Locks \cup {NIL} /\ l # current_lock /\ l \notin Range(locks)
  BY DEF SafetyInv, QueuesDistinct, TypeOK, TypePointers, Held
<1>2. /\ lock_locked' = [lock_locked EXCEPT ![l] = 1]
      /\ lock_locked \in [Locks -> 0..MaxReentry] /\ 1 \in 0..MaxReentry
  BY DEF AddLock, TypeOK, TypeCounters
<1>3. ASSUME NEW m \in Locks PROVE Holding(m)' <=> Holding(m) \/ m = l
  BY <1>2 DEF Holding
<1>4. ASSUME NEW m \in Locks
      PROVE  /\ exp'[m] = IF m = l THEN "short" ELSE exp[m]
             /\ expried'[m] <=> expried[m] /\ m # l
  <2>1. exp'[m] = IF m = l THEN "short" ELSE exp[m]
    BY DEF TypeOK, TypePointers
  <2>2. expried'[m] <=> expried[m] /\ m # l
    BY DEF TypeOK, TypeFlags
  <2>. QED
    BY <2>1, <2>2
<1>5. Held' = Held \cup {l} /\ QueuesDistinct'
  <2>1. CASE current_lock = NIL
    <3>1. current_lock' = l /\ locks' = locks
      BY <2>1 DEF AddLock
    <3>. QED
      BY <1>1, <2>1, <3>1 DEF Held, QueuesDistinct
  <2>2. CASE current_lock # NIL
    <3>1. current_lock' = current_lock /\ locks' = Append(locks, l)
      BY <2>2 DEF AddLock
    <3>2. Injective(locks') /\ Range(locks') = Range(locks) \cup {l}
      BY <1>1, <3>1, AppendDistinct
    <3>. QED
      BY <1>1, <3>1, <3>2 DEF Held, QueuesDistinct
  <2>. QED
    BY <2>1, <2>2
<1>6. RefsCounted'
  BY <1>5, CountedIsRefsCounted
<1>7. NoLongLease'
  BY <1>4 DEF SafetyInv, NoLongLease
<1>8. WaitersIdle'
  <2>. SUFFICES ASSUME NEW m \in Locks, Waiting(m)'
                PROVE  ~Holding(m)' /\ exp'[m] = "none" /\ m \notin Held'
    BY DEF WaitersIdle
  <2>1. Waiting(m) /\ m # l
    OBVIOUS
  <2>. QED
    BY <1>3, <1>4, <1>5, <2>1 DEF SafetyInv, WaitersIdle
<1>9. HoldersHeld'
  <2>1. ASSUME NEW m \in Locks, Holding(m)' PROVE m \in Held'
    BY <1>3, <1>5, <2>1 DEF SafetyInv, HoldersHeld
  <2>2. ASSUME NEW m \in Locks
        PROVE  Holding(m)' <=> exp'[m] # "none" /\ ~expried'[m]
    <3>1. Holding(m) <=> exp[m] # "none" /\ ~expried[m]
      BY DEF SafetyInv, HoldersHeld
    <3>. QED
      BY <1>3, <1>4, <3>1
  <2>3. current_lock' # NIL /\ lock_locked'[current_lock'] > 0
    <3>1. CASE current_lock = NIL
      <4>1. current_lock' = l
        BY <3>1 DEF AddLock
      <4>. QED
        BY <1>2, <4>1
    <3>2. CASE current_lock # NIL
      <4>1. current_lock' = current_lock /\ current_lock \in Locks /\ Holding(current_lock)
        BY <1>1, <3>2 DEF AddLock, SafetyInv, HoldersHeld
      <4>. QED
        BY <1>1, <1>2, <3>2, <4>1 DEF Holding
    <3>. QED
      BY <3>1, <3>2
  <2>. QED
    BY <2>1, <2>2, <2>3 DEF HoldersHeld, Holding
<1>10. MapsToHolders'
  <2>. SUFFICES ASSUME NEW i \in LockIds, lock_maps'[i] # NIL
                PROVE  /\ lock_locked'[lock_maps'[i]] > 0
                       /\ lock_maps'[i] # current_lock'
                       /\ command'[lock_maps'[i]].id = i
    BY DEF MapsToHolders, Holding
  <2>1. CASE current_lock = NIL
    <3>1. lock_maps' = lock_maps
      BY <2>1 DEF AddLock
    <3>2. lock_maps[i] \in Locks /\ Holding(lock_maps[i])
      BY <3>1 DEF SafetyInv, MapsToHolders, TypeOK, TypePointers
    <3>. QED
      BY <2>1, <3>2 DEF SafetyInv, HoldersHeld
  <2>2. CASE current_lock # NIL
    <3>1. current_lock' = current_lock /\ lock_maps' = [lock_maps EXCEPT ![c.id] = l]
      BY <2>2 DEF AddLock
    <3>2. CASE lock_maps'[i] = l
      <4>1. i = c.id
        <5>1. i # c.id => lock_maps[i] = l
          BY <3>1, <3>2 DEF TypeOK, TypePointers
        <5>2. lock_maps[i] # l
          <6>1. lock_maps[i] = l => Holding(l)
            BY DEF SafetyInv, MapsToHolders
          <6>. QED
            BY <1>2, <6>1 DEF Holding
        <5>. QED
          BY <5>1, <5>2
      <4>. QED
        BY <1>1, <1>2, <3>1, <3>2, <4>1
    <3>3. CASE lock_maps'[i] # l
      <4>1. PICK x \in Locks : x = lock_maps[i] /\ x = lock_maps'[i] /\ x # l
        BY <3>1, <3>3 DEF TypeOK, TypePointers
      <4>2. Holding(x) /\ x # current_lock /\ command[x].id = i
        BY <4>1 DEF SafetyInv, MapsToHolders
      <4>3. x \in Held
        BY <4>2 DEF SafetyInv, HoldersHeld
      <4>4. lock_locked'[x] > 0
        BY <1>2, <4>1, <4>2 DEF Holding
      <4>. QED
        BY <3>1, <4>1, <4>2, <4>3, <4>4
    <3>. QED
      BY <3>2, <3>3
  <2>. QED
    BY <2>1, <2>2
<1>11. locked' = Cardinality(Holds')
  <2>1. locked = Cardinality(HoldsOf(lock_locked)) /\ locked \in Int
    BY DEF SafetyInv, Holds, TypeOK, TypeCounters
  <2>2. PICK f \in [Locks -> 0..MaxReentry], v \in 0..MaxReentry :
          f = lock_locked /\ v = 1 /\ lock_locked' = [f EXCEPT ![l] = v]
    BY <1>2
  <2>3. /\ Cardinality(HoldsOf(f)) \in Nat
        /\ Cardinality(HoldsOf([f EXCEPT ![l] = v])) = Cardinality(HoldsOf(f)) - f[l] + v
    <3>. HIDE ConstantsAssumption
    <3>. QED
      BY HoldsUpdate
  <2>4. Holds' = HoldsOf([f EXCEPT ![l] = v])
    BY <2>2 DEF Holds
  <2>. QED
    BY <2>1, <2>2, <2>3, <2>4
<1>. QED
  BY <1>5, <1>6, <1>7, <1>8, <1>9, <1>10, <1>11 DEF SafetyInv

\* A `Lock` that is granted at once keeps SafetyInv.
LEMMA LockGrantSafe ==
  ASSUME TypeOK, SafetyInv, NEW c \in LockInputs, NEW l \in Locks, LockGrant(c, l)
  PROVE  SafetyInv'
<1>1. /\ GetOrNewLock(l, c) /\ AddLock(l, c) /\ locked' = locked + 1
      /\ expried' = [expried EXCEPT ![l] = FALSE] /\ exp' = [exp EXCEPT ![l] = "short"]
      /\ lock_ref' = [lock_ref EXCEPT ![l] = @ + 2]
      /\ UNCHANGED <<wait_locks, timeouted, tmo>>
  BY DEF LockGrant
<1>2. /\ lock_ref[l] = 0 /\ l \notin Waits /\ l \notin Held
      /\ tmo[l] = "none" /\ exp[l] = "none" /\ lock_locked[l] = 0
  BY <1>1, PooledFacts
<1>3. \A m \in Locks : exp'[m] = IF m = l THEN "short" ELSE exp[m]
  BY <1>1 DEF TypeOK, TypePointers
<1>4. /\ \A m \in Locks \ {l} : RefSum(m, Waits, Held \cup {l}, tmo, exp') =
                                  RefSum(m, Waits, Held, tmo, exp)
      /\ RefSum(l, Waits, Held \cup {l}, tmo, exp') = 2
  BY <1>2, <1>3 DEF RefSum, Indicator
<1>5. /\ Counted(lock_ref', command', free_locks', Waits, Held \cup {l}, tmo, exp')
      /\ ObjectsCounted'
  <2>1. Acquires(l, c, Waits, Held \cup {l}, tmo, exp')
    BY <1>1, <1>2, <1>4 DEF Acquires
  <2>. QED
    BY <2>1, AcquireCounted DEF SafetyInv
<1>6. /\ \A m \in Locks : m \in Held => command'[m] = command[m]
      /\ command'[l] = c
  BY <1>1, <1>2 DEF GetOrNewLock, TypeOK, TypePointers
<1>7. /\ Waits' = Waits /\ tmo' = tmo /\ Injective(wait_locks')
      /\ \A m \in Locks : Waiting(m)' => Waiting(m) /\ m # l
  BY <1>1, <1>2 DEF Waits, Waiting, SafetyInv, QueuesDistinct
<1>. QED
  BY <1>1, <1>2, <1>5, <1>6, <1>7, EnterSafe

-----------------------------------------------------------------------------
(* Requests enter and leave the wait queue                                 *)

\* What remains to be shown of a step that leaves the holders alone: its
\* references, and that no holder waits.
LEMMA QueueSafe ==
  ASSUME TypeOK, SafetyInv,
         UNCHANGED <<current_lock, locks, lock_maps, locked, expried, exp, lock_locked>>,
         Injective(wait_locks'),
         \A m \in Locks : Waiting(m)' =>
           Waiting(m) \/ (~Holding(m) /\ exp[m] = "none" /\ m \notin Held),
         Counted(lock_ref', command', free_locks', Waits', Held, tmo', exp),
         ObjectsCounted',
         \A m \in Locks : m \in Held => command'[m] = command[m]
  PROVE  SafetyInv'
<1>1. Held' = Held /\ \A m \in Locks : Holding(m)' <=> Holding(m)
  BY DEF Held, Holding
<1>2. RefsCounted'
  BY <1>1, CountedIsRefsCounted
<1>3. QueuesDistinct' /\ NoLongLease'
  BY DEF SafetyInv, QueuesDistinct, NoLongLease
<1>4. WaitersIdle'
  BY <1>1 DEF SafetyInv, WaitersIdle
<1>5. HoldersHeld'
  <2>1. \A m \in Locks : Holding(m)' => m \in Held'
    BY <1>1 DEF SafetyInv, HoldersHeld
  <2>2. \A m \in Locks : Holding(m)' <=> exp'[m] # "none" /\ ~expried'[m]
    BY <1>1 DEF SafetyInv, HoldersHeld
  <2>3. /\ current_lock' # NIL => Holding(current_lock)'
        /\ current_lock' = NIL => \A m \in Locks : ~Holding(m)'
    BY DEF SafetyInv, HoldersHeld, Holding
  <2>. QED
    BY <2>1, <2>2, <2>3 DEF HoldersHeld
<1>6. MapsToHolders'
  <2>. SUFFICES ASSUME NEW i \in LockIds, lock_maps[i] # NIL
                PROVE  /\ lock_locked[lock_maps[i]] > 0
                       /\ lock_maps[i] # current_lock
                       /\ command'[lock_maps[i]].id = i
    BY DEF MapsToHolders, Holding
  <2>1. lock_maps[i] \in Locks /\ Holding(lock_maps[i])
    BY DEF SafetyInv, MapsToHolders, TypeOK, TypePointers
  <2>2. lock_maps[i] \in Held
    BY <2>1 DEF SafetyInv, HoldersHeld
  <2>. QED
    BY <2>1, <2>2 DEF SafetyInv, MapsToHolders, Holding
<1>7. locked' = Cardinality(Holds')
  BY DEF SafetyInv, Holds
<1>. QED
  BY <1>2, <1>3, <1>4, <1>5, <1>6, <1>7 DEF SafetyInv

\* A `Lock` that must wait keeps SafetyInv.
LEMMA LockWaitSafe ==
  ASSUME TypeOK, SafetyInv, NEW c \in LockInputs, NEW l \in Locks, LockWait(c, l)
  PROVE  SafetyInv'
<1>1. /\ GetOrNewLock(l, c) /\ wait_locks' = Append(wait_locks, l)
      /\ timeouted' = [timeouted EXCEPT ![l] = FALSE] /\ tmo' = [tmo EXCEPT ![l] = "short"]
      /\ lock_ref' = [lock_ref EXCEPT ![l] = @ + 2]
      /\ UNCHANGED <<current_lock, locks, lock_maps, locked, expried, exp, lock_locked>>
  BY DEF LockWait
<1>2. /\ lock_ref[l] = 0 /\ l \notin Waits /\ l \notin Held
      /\ tmo[l] = "none" /\ exp[l] = "none" /\ lock_locked[l] = 0
  BY <1>1, PooledFacts
<1>3. \A m \in Locks : tmo'[m] = IF m = l THEN "short" ELSE tmo[m]
  BY <1>1 DEF TypeOK, TypePointers
<1>4. Injective(wait_locks') /\ Waits' = Waits \cup {l}
  BY <1>1, <1>2, AppendDistinct DEF Waits, SafetyInv, QueuesDistinct, TypeOK, TypePointers
<1>5. /\ \A m \in Locks \ {l} : RefSum(m, Waits', Held, tmo', exp) =
                                  RefSum(m, Waits, Held, tmo, exp)
      /\ RefSum(l, Waits', Held, tmo', exp) = 2
  BY <1>2, <1>3, <1>4 DEF RefSum, Indicator
<1>6. Acquires(l, c, Waits', Held, tmo', exp)
  BY <1>1, <1>2, <1>5 DEF Acquires
<1>7. /\ Counted(lock_ref', command', free_locks', Waits', Held, tmo', exp)
      /\ ObjectsCounted'
  BY <1>6, AcquireCounted DEF SafetyInv
<1>8. \A m \in Locks : m \in Held => command'[m] = command[m]
  BY <1>1, <1>2 DEF GetOrNewLock, TypeOK, TypePointers
<1>9. ASSUME NEW m \in Locks, Waiting(m)'
      PROVE  Waiting(m) \/ (~Holding(m) /\ exp[m] = "none" /\ m \notin Held)
  <2>1. m # l => timeouted'[m] = timeouted[m]
    BY <1>1 DEF TypeOK, TypeFlags
  <2>2. m # l => Waiting(m)
    BY <1>4, <1>9, <2>1 DEF Waiting
  <2>. QED
    BY <1>2, <2>2 DEF Holding
<1>. QED
  BY <1>1, <1>4, <1>7, <1>8, <1>9, QueueSafe

\* The scan of the wait queue: what is popped, and what is left.
LEMMA ScanFacts ==
  ASSUME TypeOK, SafetyInv, NEW n \in 0..Len(wait_locks),
         NEW q, q = SubSeq(wait_locks, n + 1, Len(wait_locks)),
         NEW P, P = Popped(wait_locks, n)
  PROVE  /\ q \in Seq(Locks) /\ Injective(q) /\ Range(q) = Waits \ P
         /\ P \subseteq Waits /\ Waits \subseteq Locks
         /\ n < Len(wait_locks) => wait_locks[n + 1] \in Range(q)
         /\ n = Len(wait_locks) => q = <<>> /\ P = Waits
<1>1. wait_locks \in Seq(Locks) /\ Injective(wait_locks)
  BY DEF SafetyInv, QueuesDistinct, TypeOK, TypePointers
<1>2. Waits \subseteq Locks
  BY <1>1, RangeIndex DEF Waits
<1>. QED
  BY <1>1, <1>2, PopDistinct DEF Waits

\* `DoTimeOut` keeps SafetyInv.
LEMMA DoTimeOutSafe ==
  ASSUME TypeOK, SafetyInv, NEW l \in Locks, NEW n \in 0..Len(wait_locks), DoTimeOut(l, n)
  PROVE  SafetyInv'
<1>1. PICK P, q : P = Popped(wait_locks, n) /\ q = SubSeq(wait_locks, n + 1, Len(wait_locks))
  OBVIOUS
<1>. DEFINE refs == [m \in Locks |-> (IF m \in P THEN 1 ELSE 0) + (IF m = l THEN 1 ELSE 0)]
            Z == {m \in P \cup {l} : lock_ref[m] = refs[m]}
<1>2. /\ tmo[l] = "doing" /\ timeouted' = [timeouted EXCEPT ![l] = TRUE]
      /\ tmo' = [tmo EXCEPT ![l] = "none"]
      /\ lock_ref' = [m \in Locks |-> lock_ref[m] - refs[m]]
      /\ FreeLock(Z, {})
      /\ RemoveLockManager(l \in Z /\ ref_count' = 0, locks, q)
      /\ UNCHANGED <<current_lock, lock_maps, locked, expried, exp, lock_locked>>
  BY <1>1 DEF DoTimeOut
<1>3. /\ q \in Seq(Locks) /\ Injective(q) /\ Range(q) = Waits \ P
      /\ P \subseteq Waits /\ Waits \subseteq Locks
  BY <1>1, ScanFacts, ZenonT(60)
<1>4. \A m \in Locks : tmo'[m] = IF m = l THEN "none" ELSE tmo[m]
  BY <1>2 DEF TypeOK, TypePointers
<1>5. ASSUME NEW m \in Locks
      PROVE  refs[m] = Indicator(m \in P) + Indicator(m = l) /\ refs[m] \in Int
  BY DEF Indicator
<1>6. /\ refs \in [Locks -> Int] /\ Z \in SUBSET Locks
      /\ \A m \in Locks : lock_ref'[m] = lock_ref[m] - refs[m]
  BY <1>2, <1>3
<1>. HIDE DEF refs
<1>7. ASSUME NEW m \in Locks
      PROVE  refs[m] + RefSum(m, Waits \ P, Held, tmo', exp) = RefSum(m, Waits, Held, tmo, exp)
  <2>1. CASE m = l
    BY <1>2, <1>3, <1>4, <1>5, <2>1 DEF RefSum, Indicator
  <2>2. CASE m # l
    BY <1>3, <1>4, <1>5, <2>2 DEF RefSum, Indicator
  <2>. QED
    BY <2>1, <2>2
<1>8. ASSUME NEW m \in Locks
      PROVE  /\ m \in Z <=> lock_ref[m] = refs[m] /\ lock_ref[m] # 0
             /\ lock_ref[m] = 0 => refs[m] = 0
  <2>1. lock_ref[m] = 0 => m \notin Waits /\ m # l
    BY <1>2, CountedIsRefsCounted, RefSumFacts DEF SafetyInv, Counted
  <2>2. refs[m] # 0 => m \in P \cup {l}
    BY <1>5 DEF Indicator
  <2>3. m \in P \cup {l} => lock_ref[m] # 0
    BY <1>3, <2>1
  <2>. QED
    BY <2>2, <2>3
<1>9. Releases(refs, Z, Waits \ P, Held, tmo', exp)
  BY <1>2, <1>6, <1>7, <1>8 DEF Releases
<1>. HIDE DEF Z
<1>10. /\ Counted(lock_ref', command', free_locks', Waits \ P, Held, tmo', exp)
       /\ ObjectsCounted'
       /\ ref_count' = 0 => \A m \in Locks : m \notin Waits \ P /\ m \notin Held
       /\ \A m \in Locks : m \in Waits \ P \/ m \in Held => command'[m] = command[m]
  BY <1>9, ReleaseCounted DEF SafetyInv
<1>11. ref_count' = 0 => locks = <<>> /\ q = <<>>
  <2>1. /\ Range(locks) \subseteq Held /\ Held \subseteq Locks
        /\ Range(locks) = {} => locks = <<>>
    BY RangeIndex DEF Held, TypeOK, TypePointers
  <2>2. ref_count' = 0 => Range(q) = {} /\ Range(locks) = {}
    BY <1>3, <1>10, <2>1
  <2>. QED
    BY <1>3, <2>1, <2>2, RangeIndex
<1>12. locks' = locks /\ wait_locks' = q /\ Waits' = Waits \ P
  BY <1>2, <1>3, <1>11 DEF RemoveLockManager, Waits
<1>13. ASSUME NEW m \in Locks, Waiting(m)' PROVE Waiting(m)
  <2>1. ~timeouted'[m] => ~timeouted[m]
    BY <1>2 DEF TypeOK, TypeFlags
  <2>. QED
    BY <1>12, <1>13, <2>1 DEF Waiting
<1>. QED
  BY <1>2, <1>3, <1>10, <1>12, <1>13, QueueSafe

\* A goroutine that wakes up nobody only pops dead entries.
LEMMA WakeIdleSafe ==
  ASSUME TypeOK, SafetyInv, NEW n \in 0..Len(wait_locks), WakeDone(n) \/ WakeBlocked(n)
  PROVE  SafetyInv'
<1>1. PICK P, q : P = Popped(wait_locks, n) /\ q = SubSeq(wait_locks, n + 1, Len(wait_locks))
  OBVIOUS
<1>. DEFINE refs == [m \in Locks |-> IF m \in P THEN 1 ELSE 0]
            Z == {m \in P : lock_ref[m] = 1}
<1>2. /\ FreeLock(Z, {})
      /\ UNCHANGED <<current_lock, lock_maps, locked, expried, exp, timeouted, tmo,
                     lock_locked>>
  BY <1>1 DEF WakeDone, WakeBlocked, WakePop, timer_vars
<1>3. lock_ref' = [m \in Locks |-> IF m \in P THEN lock_ref[m] - 1 ELSE lock_ref[m]]
  BY <1>1 DEF WakeDone, WakeBlocked, UnrefPopped
<1>4. /\ q \in Seq(Locks) /\ Injective(q) /\ Range(q) = Waits \ P
      /\ P \subseteq Waits /\ Waits \subseteq Locks
      /\ n = Len(wait_locks) => q = <<>>
  BY <1>1, ScanFacts, ZenonT(60)
<1>5. /\ refs \in [Locks -> Int] /\ Z \in SUBSET Locks
      /\ \A m \in Locks : lock_ref'[m] = lock_ref[m] - refs[m]
      /\ \A m \in Locks : refs[m] = Indicator(m \in P)
  BY <1>3, <1>4 DEF Indicator, TypeOK, TypeCounters
<1>6. ASSUME NEW m \in Locks
      PROVE  refs[m] + RefSum(m, Waits \ P, Held, tmo, exp) = RefSum(m, Waits, Held, tmo, exp)
  BY <1>4, <1>5 DEF RefSum, Indicator
<1>7. ASSUME NEW m \in Locks
      PROVE  /\ m \in Z <=> lock_ref[m] = refs[m] /\ lock_ref[m] # 0
             /\ lock_ref[m] = 0 => refs[m] = 0
  <2>1. lock_ref[m] = 0 => m \notin Waits
    BY CountedIsRefsCounted, RefSumFacts DEF SafetyInv, Counted
  <2>. QED
    BY <1>4, <2>1
<1>. HIDE DEF refs, Z
<1>8. Releases(refs, Z, Waits \ P, Held, tmo, exp)
  BY <1>2, <1>5, <1>6, <1>7 DEF Releases
<1>9. /\ Counted(lock_ref', command', free_locks', Waits \ P, Held, tmo, exp)
      /\ ObjectsCounted'
      /\ ref_count' = 0 => \A m \in Locks : m \notin Waits \ P /\ m \notin Held
      /\ \A m \in Locks : m \in Waits \ P \/ m \in Held => command'[m] = command[m]
  BY <1>8, ReleaseCounted DEF SafetyInv
<1>10. ref_count' = 0 => locks = <<>>
  <2>1. /\ Range(locks) \subseteq Held /\ Held \subseteq Locks
        /\ Range(locks) = {} => locks = <<>>
    BY RangeIndex DEF Held, TypeOK, TypePointers
  <2>. QED
    BY <1>9, <2>1
<1>11. locks' = locks /\ wait_locks' = q
  <2>1. CASE WakeDone(n)
    <3>1. q = <<>> /\ RemoveLockManager(waited /\ ref_count' = 0, locks, <<>>)
      BY <1>4, <2>1 DEF WakeDone
    <3>. QED
      BY <1>10, <3>1 DEF RemoveLockManager
  <2>2. CASE WakeBlocked(n)
    BY <1>1, <2>2 DEF WakeBlocked
  <2>. QED
    BY <2>1, <2>2
<1>12. /\ Waits' = Waits \ P /\ tmo' = tmo /\ Injective(wait_locks')
       /\ \A m \in Locks : Waiting(m)' => Waiting(m)
  BY <1>2, <1>4, <1>11 DEF Waits, Waiting
<1>. QED
  BY <1>2, <1>9, <1>11, <1>12, QueueSafe

\* The first waiting request is granted.
LEMMA WakeGrantSafe ==
  ASSUME TypeOK, SafetyInv, NEW n \in 0..Len(wait_locks), NEW w \in Locks, WakeGrant(n, w)
  PROVE  SafetyInv'
<1>. USE ConstantsAssumption
<1>1. PICK P, q : P = Popped(wait_locks, n) /\ q = SubSeq(wait_locks, n + 1, Len(wait_locks))
  OBVIOUS
<1>. DEFINE Z == {m \in P : lock_ref[m] = 1}
            long == IF tmo[w] = "long" THEN 1 ELSE 0
            c == command[w]
            refs(k) == [m \in Locks |-> (IF m \in P THEN 1 ELSE 0) + (IF m = w THEN k ELSE 0)]
            Fits(k, H, e) ==
              /\ k \in Int /\ k <= long
              /\ \A m \in Locks : lock_ref'[m] = lock_ref[m] - refs(k)[m]
              /\ \A m \in Locks : refs(k)[m] + RefSum(m, Waits \ P, H, tmo', e) =
                                    RefSum(m, Waits, Held, tmo, exp)
<1>2. /\ FreeLock(Z, {}) /\ wait_locks' = q
      /\ n < Len(wait_locks) /\ w = wait_locks[n + 1]
      /\ timeouted' = [timeouted EXCEPT ![w] = TRUE]
      /\ tmo' = IF tmo[w] = "long" THEN [tmo EXCEPT ![w] = "none"] ELSE tmo
      /\ ~timeouted[w]
  BY <1>1 DEF WakeGrant, WakePop, DeadPrefix
<1>3. /\ q \in Seq(Locks) /\ Injective(q) /\ Range(q) = Waits \ P
      /\ P \subseteq Waits /\ Waits \subseteq Locks /\ w \in Waits \ P
  BY <1>1, <1>2, ScanFacts
<1>4. Waiting(w)
  BY <1>2, <1>3 DEF Waiting
<1>5. /\ lock_locked[w] = 0 /\ exp[w] = "none" /\ w \notin Held
  <2>1. ~Holding(w) /\ exp[w] = "none" /\ w \notin Held
    BY <1>4 DEF SafetyInv, WaitersIdle
  <2>. QED
    BY <2>1 DEF Holding, TypeOK, TypeCounters
<1>6. \A m \in Locks : lock_ref[m] = RefSum(m, Waits, Held, tmo, exp)
  BY CountedIsRefsCounted DEF SafetyInv, Counted
<1>7. /\ \A m \in Locks : lock_ref[m] = 0 => m \notin Waits
      /\ lock_ref[w] > long /\ lock_ref[w] # 0
  <2>1. \A m \in Locks : lock_ref[m] = 0 => m \notin Waits
    BY <1>6, RefSumFacts
  <2>2. lock_ref[w] > long
    BY <1>3, <1>5, <1>6 DEF RefSum, Indicator
  <2>3. long \in {0, 1} /\ lock_ref[w] \in Int
    BY DEF TypeOK, TypeCounters
  <2>. QED
    BY <2>1, <2>2, <2>3
<1>8. c \in LockInputs
  BY <1>7 DEF SafetyInv, RefsCounted, TypeOK, TypePointers
<1>9. \A m \in Locks : tmo'[m] = IF m = w /\ tmo[w] = "long" THEN "none" ELSE tmo[m]
  BY <1>2 DEF TypeOK, TypePointers
<1>10. /\ Waits' = Waits \ P /\ Injective(wait_locks')
       /\ \A m \in Locks : Waiting(m)' => Waiting(m) /\ m # w
  <2>1. \A m \in Locks : ~timeouted'[m] => ~timeouted[m] /\ m # w
    BY <1>2 DEF TypeOK, TypeFlags
  <2>2. Waits' = Waits \ P /\ Injective(wait_locks')
    BY <1>2, <1>3 DEF Waits
  <2>. QED
    BY <2>1, <2>2 DEF Waiting
<1>11. ASSUME NEW k, NEW H, NEW e, Fits(k, H, e)
       PROVE  /\ Counted(lock_ref', command', free_locks', Waits \ P, H, tmo', e)
              /\ ObjectsCounted'
              /\ \A m \in Locks : m \in Waits \ P \/ m \in H => command'[m] = command[m]
  <2>1. refs(k) \in [Locks -> Int] /\ Z \in SUBSET Locks
    BY <1>3, <1>11
  <2>2. ASSUME NEW m \in Locks
        PROVE  /\ m \in Z <=> lock_ref[m] = refs(k)[m] /\ lock_ref[m] # 0
               /\ lock_ref[m] = 0 => refs(k)[m] = 0
    <3>1. CASE m = w
      <4>1. refs(k)[m] = k /\ m \notin P
        BY <1>3, <1>11, <3>1
      <4>2. long \in Int /\ lock_ref[w] \in Int
        BY DEF TypeOK, TypeCounters
      <4>. HIDE DEF long, refs
      <4>. QED
        BY <1>7, <1>11, <3>1, <4>1, <4>2
    <3>2. CASE m # w
      <4>1. refs(k)[m] = IF m \in P THEN 1 ELSE 0
        BY <3>2
      <4>. HIDE DEF refs
      <4>. QED
        BY <1>3, <1>7, <4>1
    <3>. QED
      BY <3>1, <3>2
  <2>. HIDE DEF refs, Z
  <2>3. Releases(refs(k), Z, Waits \ P, H, tmo', e)
    BY <1>2, <1>11, <2>1, <2>2 DEF Releases
  <2>. QED
    BY <2>3, ReleaseCounted DEF SafetyInv
<1>12. CASE c.lease
  <2>1. /\ AddLock(w, c) /\ locked' = locked + 1
        /\ expried' = [expried EXCEPT ![w] = FALSE] /\ exp' = [exp EXCEPT ![w] = "short"]
        /\ lock_ref' = [UnrefPopped(n) EXCEPT ![w] = @ + 2 - long]
    BY <1>12 DEF WakeGrant
  <2>2. \A m \in Locks : exp'[m] = IF m = w THEN "short" ELSE exp[m]
    BY <2>1 DEF TypeOK, TypePointers
  <2>3. \A m \in Locks : lock_ref'[m] = lock_ref[m] - refs(long - 2)[m]
    BY <1>1, <1>3, <2>1 DEF UnrefPopped, TypeOK, TypeCounters
  <2>4. ASSUME NEW m \in Locks
        PROVE  refs(long - 2)[m] + RefSum(m, Waits \ P, Held \cup {w}, tmo', exp') =
                 RefSum(m, Waits, Held, tmo, exp)
    <3>1. CASE m = w
      BY <1>3, <1>5, <1>9, <2>2, <3>1 DEF RefSum, Indicator
    <3>2. CASE m # w
      BY <1>3, <1>9, <2>2, <3>2 DEF RefSum, Indicator
    <3>. QED
      BY <3>1, <3>2
  <2>5. /\ Counted(lock_ref', command', free_locks', Waits \ P, Held \cup {w}, tmo', exp')
        /\ ObjectsCounted'
        /\ \A m \in Locks : m \in Waits \ P \/ m \in Held \cup {w} => command'[m] = command[m]
    <3>1. Fits(long - 2, Held \cup {w}, exp')
      <4>1. long - 2 \in Int /\ long - 2 <= long
        OBVIOUS
      <4>. HIDE DEF refs, long
      <4>. QED
        BY <2>3, <2>4, <4>1
    <3>. HIDE DEF Fits, long
    <3>. QED
      BY <1>11, <3>1
  <2>. HIDE DEF c
  <2>. QED
    BY <1>5, <1>8, <1>10, <2>1, <2>5, EnterSafe DEF c
<1>13. CASE ~c.lease
  <2>1. /\ lock_ref' = [UnrefPopped(n) EXCEPT ![w] = @ - long]
        /\ UNCHANGED <<current_lock, locks, lock_maps, locked, expried, exp, lock_locked>>
    BY <1>13 DEF WakeGrant
  <2>2. \A m \in Locks : lock_ref'[m] = lock_ref[m] - refs(long)[m]
    BY <1>1, <1>3, <2>1, SMTT(30) DEF UnrefPopped, TypeOK, TypeCounters
  <2>3. ASSUME NEW m \in Locks
        PROVE  refs(long)[m] + RefSum(m, Waits \ P, Held, tmo', exp) =
                 RefSum(m, Waits, Held, tmo, exp)
    <3>1. CASE m = w
      BY <1>3, <1>9, <3>1 DEF RefSum, Indicator
    <3>2. CASE m # w
      BY <1>3, <1>9, <3>2 DEF RefSum, Indicator
    <3>. QED
      BY <3>1, <3>2
  <2>4. /\ Counted(lock_ref', command', free_locks', Waits \ P, Held, tmo', exp)
        /\ ObjectsCounted'
        /\ \A m \in Locks : m \in Waits \ P \/ m \in Held => command'[m] = command[m]
    <3>1. Fits(long, Held, exp)
      <4>1. long \in Int /\ long <= long
        OBVIOUS
      <4>. HIDE DEF refs, long
      <4>. QED
        BY <2>2, <2>3, <4>1
    <3>. HIDE DEF Fits, long
    <3>. QED
      BY <1>11, <3>1
  <2>. QED
    BY <1>10, <2>1, <2>4, QueueSafe
<1>. QED
  BY <1>12, <1>13

-----------------------------------------------------------------------------
(* The invariant                                                           *)

\* A new lock manager has nothing to count.
LEMMA SafetyInit == Init => SafetyInv
<1>. SUFFICES ASSUME Init PROVE SafetyInv
  OBVIOUS
<1>. USE ConstantsAssumption
<1>1. Range(<<>>) = {} /\ Injective(<<>>)
  BY DEF Range, Injective
<1>2. Waits = {} /\ Held = {} /\ \A l \in Locks : ~Holding(l) /\ ~Waiting(l)
  BY <1>1 DEF Init, Waits, Held, Holding, Waiting
<1>3. RefsCounted
  BY <1>2 DEF Init, RefsCounted, Indicator
<1>4. ObjectsCounted
  <2>1. {l \in Locks : free_locks[l] = 0} = {}
    BY DEF Init
  <2>. QED
    BY <2>1, FS_EmptySet DEF Init, ObjectsCounted
<1>5. QueuesDistinct /\ NoLongLease /\ WaitersIdle
  BY <1>1, <1>2 DEF Init, QueuesDistinct, NoLongLease, WaitersIdle
<1>6. HoldersHeld /\ MapsToHolders
  BY <1>2 DEF Init, HoldersHeld, MapsToHolders
<1>7. locked = Cardinality(Holds)
  <2>1. lock_locked \in [Locks -> 0..MaxReentry] /\ \A l \in Locks : lock_locked[l] = 0
    BY DEF Init
  <2>. QED
    BY <2>1, HoldsNone DEF Init, Holds
<1>. QED
  BY <1>3, <1>4, <1>5, <1>6, <1>7 DEF SafetyInv

\* SafetyInv is inductive together with TypeOK when no lease is long.
LEMMA SafetyStep ==
  ASSUME LongLeases = FALSE
  PROVE  TypeOK /\ SafetyInv /\ [Next]_vars => SafetyInv'
<1>. SUFFICES ASSUME TypeOK, SafetyInv, [Next]_vars PROVE SafetyInv'
  OBVIOUS
<1>1. CASE ClientStep
  BY <1>1, ReadSafe, HolderSafe, LockGrantSafe, LockWaitSafe, UnLockSafe DEF ClientStep
<1>2. CASE TimerStep
  BY <1>2, ReadSafe, DropSafe, DoTimeOutSafe, DoExpriedSafe DEF TimerStep
<1>3. CASE WakeStep
  BY <1>3, ReadSafe, WakeIdleSafe, WakeGrantSafe DEF WakeStep
<1>4. CASE UNCHANGED vars
  BY <1>4, ReadSafe
<1>. QED
  BY <1>1, <1>2, <1>3, <1>4 DEF Next

\* While no lease is long enough for the long queue, every object is referred to
\* as often as its counter says, whatever the clients, the timers and the waking
\* goroutines do to it, so none is freed twice, early or never.
THEOREM ReferencesCounted ==
  ASSUME LongLeases = FALSE
  PROVE  Spec => []RefsCounted
<1>1. TypeOK /\ SafetyInv /\ [Next]_vars => SafetyInv'
  BY SafetyStep
<1>2. SafetyInv => RefsCounted
  BY DEF SafetyInv
<1>. QED
  BY <1>1, <1>2, SafetyInit, TypeCorrect, PTL DEF Spec

\* ... and LockManager.locked is the number of locks of all holders: DoLock never
\* compares a limit with a wrong count, nor dereferences a nil current_lock.
THEOREM LocksCounted ==
  ASSUME LongLeases = FALSE
  PROVE  Spec => []LockedCounted
<1>1. TypeOK /\ SafetyInv /\ [Next]_vars => SafetyInv'
  BY SafetyStep
<1>2. TypeOK /\ SafetyInv => LockedCounted
  <2>. SUFFICES ASSUME TypeOK, SafetyInv PROVE LockedCounted
    OBVIOUS
  <2>1. locked = Cardinality(Holds)
    BY DEF SafetyInv
  <2>2. current_lock # NIL => Holding(current_lock)
    BY DEF SafetyInv, HoldersHeld
  <2>3. ASSUME current_lock = NIL PROVE locked = 0
    <3>1. \A l \in Locks : ~Holding(l)
      BY <2>3 DEF SafetyInv, HoldersHeld
    <3>2. lock_locked \in [Locks -> 0..MaxReentry] /\ \A l \in Locks : lock_locked[l] = 0
      BY <3>1 DEF Holding, TypeOK, TypeCounters
    <3>. QED
      BY <2>1, <3>2, HoldsNone DEF Holds
  <2>. QED
    BY <2>1, <2>2, <2>3 DEF LockedCounted
<1>. QED
  BY <1>1, <1>2, SafetyInit, TypeCorrect, PTL DEF Spec

-----------------------------------------------------------------------------
(* What LockDB promises the requests and the holders of a key, for every     *)
(* value of the constants: each request is answered once and in order, none  *)
(* is left behind when an object goes back to the pool or the manager is     *)
(* removed, and none waits for a key that is free; a writer is alone, UNLOCK *)
(* finds the holder it is for, and the append only file has exactly the      *)
(* persisted holders.                                                        *)

\* waited, which WakeUpWaitLocks tests without glock, tells whether the queue
\* has entries.
WaitedQueue == waited <=> wait_locks # <<>>

\* The manager is freed exactly when none of its objects is in use.
RemovedUnused == freed <=> ref_count = 0

\* The requests without an answer are the ones that wait.
UnansweredWait == \A l \in Locks : reply[l] = "none" <=> Waiting(l)

\* A holder was told so, and nothing else since.
HoldersGranted == \A l \in Locks : Holding(l) => reply[l] = "SUCCED"

\* An entry of the timeout timers is of a request in the queue, or was answered.
TimersWait == \A l \in Locks : tmo[l] # "none" /\ ~timeouted[l] => l \in Waits

\* Only a holder is marked as persisted.
MarkedHold == \A l \in Locks : is_aof[l] => Holding(l)

AnswerInv ==
  /\ WaitedQueue /\ RemovedUnused /\ UnansweredWait /\ HoldersGranted
  /\ TimersWait /\ MarkedHold
-----------------------------------------------------------------------------
(* A manager without references                                             *)

\* With no object in use nothing is in a queue or a timer.
LEMMA Unreferenced ==
  TypeOK /\ SafetyInv /\ ref_count = 0 =>
    /\ wait_locks = <<>>
    /\ \A m \in Locks : /\ lock_ref[m] = 0 /\ m \notin Waits /\ m \notin Held
                        /\ tmo[m] = "none" /\ exp[m] = "none"
<1>. SUFFICES ASSUME TypeOK, SafetyInv, ref_count = 0
              PROVE  /\ wait_locks = <<>>
                     /\ \A m \in Locks : /\ lock_ref[m] = 0 /\ m \notin Waits /\ m \notin Held
                                         /\ tmo[m] = "none" /\ exp[m] = "none"
  OBVIOUS
<1>1. wait_locks = <<>>
  BY EmptyManager DEF SafetyInv
<1>2. ASSUME NEW m \in Locks PROVE lock_ref[m] = 0
  <2>. DEFINE U == {l \in Locks : free_locks[l] = 0}
  <2>1. U \in SUBSET Locks /\ Cardinality(U) = 0
    BY DEF SafetyInv, ObjectsCounted
  <2>2. U = {}
    BY <2>1, LockSets, FS_EmptySet
  <2>3. free_locks[m] # 0 /\ free_locks[m] = Indicator(lock_ref[m] = 0)
    BY <2>2 DEF SafetyInv, RefsCounted
  <2>. QED
    BY <2>3 DEF Indicator
<1>3. ASSUME NEW m \in Locks
      PROVE  m \notin Waits /\ m \notin Held /\ tmo[m] = "none" /\ exp[m] = "none"
  BY <1>2, CountedIsRefsCounted, RefSumFacts DEF SafetyInv, Counted
<1>. QED
  BY <1>1, <1>2, <1>3

\* The same of the state a step leads to.
LEMMA UnreferencedNext ==
  (TypeOK /\ SafetyInv /\ ref_count = 0)' =>
    (/\ wait_locks = <<>>
     /\ \A m \in Locks : /\ lock_ref[m] = 0 /\ m \notin Waits /\ m \notin Held
                         /\ tmo[m] = "none" /\ exp[m] = "none")'
BY Unreferenced, PTL

\* An object some container has keeps the manager in use.
LEMMA InUse ==
  ASSUME TypeOK, SafetyInv, NEW m \in Locks,
         m \in Waits \/ m \in Held \/ tmo[m] # "none" \/ exp[m] # "none"
  PROVE  ref_count # 0
BY Unreferenced

\* A queue with entries has elements, and they are Lock objects.
LEMMA QueueElements ==
  ASSUME TypeOK
  PROVE  /\ Waits \subseteq Locks
         /\ wait_locks # <<>> <=> \E m \in Locks : m \in Waits
         /\ \A i \in 1..Len(wait_locks) : wait_locks[i] \in Waits
         /\ wait_locks # <<>> <=> Len(wait_locks) > 0
<1>1. wait_locks \in Seq(Locks) /\ Len(wait_locks) \in Nat
  BY DEF TypeOK, TypePointers
<1>2. /\ Range(wait_locks) \subseteq Locks
      /\ \A x : x \in Range(wait_locks) <=> \E i \in 1..Len(wait_locks) : wait_locks[i] = x
      /\ Range(wait_locks) = {} => wait_locks = <<>>
      /\ Range(<<>>) = {}
  BY <1>1, RangeIndex
<1>3. wait_locks # <<>> <=> Len(wait_locks) > 0
  BY <1>1, EmptySeq
<1>. QED
  BY <1>2, <1>3 DEF Waits
-----------------------------------------------------------------------------
(* Steps that answer nobody                                                 *)

\* A step that leaves the queue, the answers and the holders as they are.
LEMMA QuietAnswers ==
  ASSUME TypeOK, AnswerInv,
         UNCHANGED <<wait_locks, timeouted, reply, waited, ref_count>>,
         freed' <=> freed,
         \A m \in Locks : Holding(m)' <=> Holding(m),
         \A m \in Locks : tmo'[m] = "none" <=> tmo[m] = "none",
         \A m \in Locks : is_aof'[m] => is_aof[m] \/ Holding(m)
  PROVE  AnswerInv'
<1>1. Waits' = Waits /\ \A m \in Locks : Waiting(m)' <=> Waiting(m)
  BY DEF Waits, Waiting
<1>2. WaitedQueue' /\ RemovedUnused'
  BY DEF AnswerInv, WaitedQueue, RemovedUnused
<1>3. UnansweredWait' /\ HoldersGranted' /\ TimersWait' /\ MarkedHold'
  BY <1>1 DEF AnswerInv, UnansweredWait, HoldersGranted, TimersWait, MarkedHold
<1>. QED
  BY <1>2, <1>3 DEF AnswerInv

\* A request of a holder, or one that is passed or refused.
LEMMA RequestAnswers ==
  ASSUME TypeOK, SafetyInv, AnswerInv, NEW c \in LockInputs,
         LockShow(c) \/ LockUpdate(c) \/ LockReenter(c) \/ LockReenterNoLease(c)
         \/ LockRefuse(c) \/ LockPass(c)
  PROVE  AnswerInv'
<1>1. CASE LockShow(c) \/ LockReenterNoLease(c) \/ LockRefuse(c)
  <2>1. UNCHANGED <<wait_locks, timeouted, reply, waited, ref_count, freed, lock_locked, tmo, is_aof>>
    BY <1>1 DEF LockShow, LockReenterNoLease, LockRefuse, vars, manager_vars, timer_vars, aof_vars
  <2>. QED
    BY <2>1, QuietAnswers DEF Holding
<1>2. CASE LockUpdate(c) \/ LockReenter(c)
  <2>1. c.id \in LockIds /\ c.flag # "show" /\ Holder(c) # NIL
    BY <1>2, ConstantsAssumption DEF LockUpdate, LockReenter, LockCommand
  <2>2. PICK l \in Locks : l = Holder(c) /\ l = GetLockedLock(c.id)
    BY <2>1, HolderType DEF Holder
  <2>3. Renew(l, c) /\ Holding(l)
    BY <1>2, <2>1, <2>2, FoundHolds DEF LockUpdate, LockReenter
  <2>4. UNCHANGED <<wait_locks, reply, waited, ref_count, freed>>
    BY <1>2 DEF LockUpdate, LockReenter, manager_vars
  <2>5. UNCHANGED <<timeouted, tmo>> /\ \A m \in Locks \ {l} : is_aof'[m] = is_aof[m]
    BY <2>3 DEF Renew, TypeOK, TypeFlags
  <2>6. \A m \in Locks : Holding(m)' <=> Holding(m)
    <3>1. \A m \in Locks : lock_locked'[m] = lock_locked[m] \/ (m = l /\ lock_locked'[m] = lock_locked[m] + 1)
      BY <1>2, <2>2 DEF LockUpdate, LockReenter, TypeOK, TypeCounters
    <3>2. \A m \in Locks : lock_locked[m] \in Nat
      BY DEF TypeOK, TypeCounters
    <3>. QED
      BY <2>3, <3>1, <3>2 DEF Holding
  <2>. QED
    BY <2>3, <2>4, <2>5, <2>6, QuietAnswers
<1>3. CASE LockPass(c)
  <2>1. UNCHANGED <<timeouted, reply, waited, ref_count, lock_locked, tmo, is_aof>>
    BY <1>3 DEF LockPass, timer_vars, aof_vars
  <2>2. UNCHANGED wait_locks
    BY <1>3, ResetIsEmpty DEF LockPass, SafetyInv
  <2>3. freed' <=> freed
    BY <1>3 DEF LockPass, RemoveLockManager, AnswerInv, RemovedUnused
  <2>. QED
    BY <2>1, <2>2, <2>3, QuietAnswers DEF Holding
<1>. QED
  BY <1>1, <1>2, <1>3

\* One of several locks is released, a reply is built, a timer looks at an entry
\* that stays, a waking goroutine tests waited, or nothing happens.
LEMMA OtherAnswers ==
  ASSUME TypeOK, SafetyInv, AnswerInv,
         \/ \E u \in UnlockInputs : UnLockError(u) \/ UnLockOne(u)
         \/ \E r : ReadReply(r)
         \/ \E l \in Locks : CheckTimeOutKeep(l) \/ CheckTimeOutDue(l)
                             \/ CheckExpriedKeep(l) \/ CheckExpriedDue(l)
         \/ WakeCheck \/ UNCHANGED vars
  PROVE  AnswerInv'
<1>1. CASE \/ \E u \in UnlockInputs : UnLockError(u)
           \/ \E r : ReadReply(r)
           \/ \E l \in Locks : CheckExpriedDue(l)
           \/ WakeCheck \/ UNCHANGED vars
  <2>1. UNCHANGED <<wait_locks, timeouted, reply, waited, ref_count, freed, lock_locked, tmo, is_aof>>
    BY <1>1 DEF UnLockError, ReadReply, CheckExpriedDue, WakeCheck, vars, manager_vars,
                timer_vars, aof_vars
  <2>. QED
    BY <2>1, QuietAnswers DEF Holding
<1>2. ASSUME NEW u \in UnlockInputs, UnLockOne(u) PROVE AnswerInv'
  <2>1. PICK l \in Locks : l = UnlockTarget(u)
    BY <1>2, HolderType, ConstantsAssumption
       DEF UnLockOne, UnlockCommand, UnlockTarget, TypeOK, TypePointers
  <2>2. /\ lock_locked' = [lock_locked EXCEPT ![l] = @ - 1] /\ lock_locked[l] > 1
        /\ UNCHANGED <<wait_locks, timeouted, reply, waited, ref_count, freed, tmo, is_aof>>
    BY <1>2, <2>1 DEF UnLockOne, OneOfMany, timer_vars, aof_vars
  <2>3. \A m \in Locks : Holding(m)' <=> Holding(m)
    BY <2>2 DEF Holding, TypeOK, TypeCounters
  <2>. QED
    BY <2>2, <2>3, QuietAnswers
<1>3. ASSUME NEW l \in Locks, CheckTimeOutKeep(l) \/ CheckTimeOutDue(l) PROVE AnswerInv'
  <2>1. UNCHANGED <<wait_locks, timeouted, reply, waited, ref_count, freed, lock_locked, is_aof>>
    BY <1>3 DEF CheckTimeOutKeep, CheckTimeOutDue, manager_vars, aof_vars
  <2>2. \A m \in Locks : tmo'[m] = "none" <=> tmo[m] = "none"
    BY <1>3 DEF CheckTimeOutKeep, CheckTimeOutDue, TypeOK, TypePointers
  <2>. QED
    BY <2>1, <2>2, QuietAnswers DEF Holding
<1>4. ASSUME NEW l \in Locks, CheckExpriedKeep(l) PROVE AnswerInv'
  <2>1. UNCHANGED <<wait_locks, timeouted, reply, waited, ref_count, freed, lock_locked, tmo>>
    BY <1>4 DEF CheckExpriedKeep, manager_vars
  \* A lease that runs has a holder.
  <2>2. Holding(l)
    BY <1>4 DEF CheckExpriedKeep, SafetyInv, HoldersHeld
  <2>3. \A m \in Locks : is_aof'[m] => is_aof[m] \/ Holding(m)
    BY <1>4, <2>2 DEF CheckExpriedKeep, aof_vars, TypeOK, TypeFlags
  <2>. QED
    BY <2>1, <2>3, QuietAnswers DEF Holding
<1>. QED
  BY <1>1, <1>2, <1>3, <1>4

\* A timer drops the entry of an answered request or of an ended lease.
LEMMA DropAnswers ==
  ASSUME TypeOK, TypeOK', SafetyInv, SafetyInv', AnswerInv, NEW l \in Locks,
         CheckTimeOutDead(l) \/ DoTimeOutLate(l) \/ CheckExpriedDead(l) \/ DoExpriedLate(l)
  PROVE  AnswerInv'
<1>1. /\ DropTimerRef(l)
      /\ UNCHANGED <<waited, timeouted, lock_locked, reply, is_aof>>
      /\ \A m \in Locks : tmo'[m] # "none" => tmo[m] # "none"
      /\ tmo[l] # "none" \/ exp[l] # "none"
  BY DEF CheckTimeOutDead, DoTimeOutLate, CheckExpriedDead, DoExpriedLate, aof_vars,
         TypeOK, TypePointers
<1>2. /\ lock_ref' = [lock_ref EXCEPT ![l] = @ - 1]
      /\ RemoveLockManager(lock_ref[l] = 1 /\ ref_count' = 0, locks, wait_locks)
  BY <1>1 DEF DropTimerRef
<1>3. ref_count # 0 /\ ~freed
  BY <1>1, InUse DEF AnswerInv, RemovedUnused
<1>4. freed' <=> ref_count' = 0
  <2>1. ref_count' = 0 => lock_ref'[l] = 0
    BY UnreferencedNext
  <2>2. lock_ref'[l] = lock_ref[l] - 1 /\ lock_ref[l] \in Int
    BY <1>2 DEF TypeOK, TypeCounters
  <2>3. ref_count' = 0 => lock_ref[l] = 1
    BY <2>1, <2>2
  <2>. QED
    BY <1>2, <1>3, <2>3 DEF RemoveLockManager
\* A manager that is removed had an empty queue before.
<1>5. UNCHANGED wait_locks
  <2>1. CASE ref_count' # 0
    BY <1>2, <2>1 DEF RemoveLockManager
  <2>2. CASE ref_count' = 0
    <3>1. wait_locks' = <<>> /\ \A m \in Locks : lock_ref'[m] = 0
      BY <2>2, UnreferencedNext
    <3>2. lock_ref[l] = 1 /\ \A m \in Locks \ {l} : lock_ref[m] = 0
      BY <1>2, <3>1 DEF TypeOK, TypeCounters
    <3>3. \A m \in Locks : lock_ref[m] = RefSum(m, Waits, Held, tmo, exp)
      BY CountedIsRefsCounted DEF SafetyInv, Counted
    <3>4. \A m \in Locks \ {l} : m \notin Waits
      BY <3>2, <3>3, RefSumFacts
    <3>5. l \notin Waits
      BY <1>1, <3>2, <3>3 DEF RefSum, Indicator
    <3>. QED
      BY <3>1, <3>4, <3>5, QueueElements
  <2>. QED
    BY <2>1, <2>2
<1>6. Waits' = Waits /\ \A m \in Locks : Waiting(m)' <=> Waiting(m)
  BY <1>1, <1>5 DEF Waits, Waiting
<1>7. WaitedQueue' /\ RemovedUnused'
  BY <1>1, <1>4, <1>5 DEF AnswerInv, WaitedQueue, RemovedUnused
<1>8. UnansweredWait' /\ HoldersGranted' /\ TimersWait' /\ MarkedHold'
  BY <1>1, <1>6 DEF AnswerInv, UnansweredWait, HoldersGranted, TimersWait, MarkedHold, Holding
<1>. QED
  BY <1>7, <1>8 DEF AnswerInv
-----------------------------------------------------------------------------
(* Holders leave                                                            *)

\* A holder unlocks: its lease stays in the wheel, so the manager stays in use.
LEMMA UnLockAnswers ==
  ASSUME TypeOK, TypeOK', SafetyInv, SafetyInv', AnswerInv, NEW u \in UnlockInputs,
         NEW l \in Locks, NEW n \in 0..Len(locks), UnLock(u, l, n)
  PROVE  AnswerInv' /\ UNCHANGED wait_locks /\ Holding(l)
<1>1. exp[l] # "long" /\ u.id \in LockIds /\ l = UnlockTarget(u)
  BY ConstantsAssumption DEF SafetyInv, NoLongLease, UnlockCommand, UnLock
<1>2. Holding(l)
  <2>1. CASE l = GetLockedLock(u.id)
    BY <1>1, <2>1, FoundHolds
  <2>2. CASE l = current_lock
    BY <2>2, ConstantsAssumption DEF SafetyInv, HoldersHeld
  <2>. QED
    BY <1>1, <2>1, <2>2, ConstantsAssumption DEF UnlockTarget
<1>3. /\ UNCHANGED <<wait_locks, timeouted, tmo, waited, reply, exp>>
      /\ freed' = freed
      /\ lock_locked' = [lock_locked EXCEPT ![l] = 0]
      /\ is_aof' = [is_aof EXCEPT ![l] = FALSE]
  BY <1>1 DEF UnLock, RemoveLockManager, RemoveLock, PersistReleased, TypeOK, TypeFlags
<1>4. ref_count # 0 /\ ref_count' # 0
  <2>1. exp[l] # "none"
    BY <1>2 DEF SafetyInv, HoldersHeld
  <2>2. ref_count # 0
    BY <2>1, InUse
  <2>3. ref_count' = 0 => exp'[l] = "none"
    BY UnreferencedNext
  <2>. QED
    BY <1>3, <2>1, <2>2, <2>3
<1>5. Waits' = Waits /\ \A m \in Locks : Waiting(m)' <=> Waiting(m)
  BY <1>3 DEF Waits, Waiting
<1>6. \A m \in Locks : Holding(m)' <=> Holding(m) /\ m # l
  BY <1>3 DEF Holding, TypeOK, TypeCounters
<1>7. WaitedQueue' /\ RemovedUnused'
  BY <1>3, <1>4 DEF AnswerInv, WaitedQueue, RemovedUnused
<1>8. UnansweredWait' /\ HoldersGranted' /\ TimersWait'
  BY <1>3, <1>5, <1>6 DEF AnswerInv, UnansweredWait, HoldersGranted, TimersWait
<1>9. MarkedHold'
  BY <1>3, <1>6 DEF AnswerInv, MarkedHold, TypeOK, TypeFlags
<1>. QED
  BY <1>2, <1>3, <1>7, <1>8, <1>9 DEF AnswerInv

\* A lease ends: the holder is told, and the manager is removed with its last
\* object only, when nobody waits.
LEMMA DoExpriedAnswers ==
  ASSUME TypeOK, TypeOK', SafetyInv, SafetyInv', AnswerInv,
         NEW l \in Locks, NEW n \in 0..Len(locks), DoExpried(l, n)
  PROVE  AnswerInv' /\ UNCHANGED wait_locks /\ Holding(l)
<1>. DEFINE refs == [m \in Locks |-> (IF m \in Popped(locks, n) THEN 1 ELSE 0)
                             + (IF m = l /\ current_lock = l THEN 1 ELSE 0)
                             + (IF m = l THEN 1 ELSE 0)]
            Z == {m \in Popped(locks, n) \cup {l} : lock_ref[m] = refs[m]}
<1>1. /\ exp[l] = "doing" /\ ~expried[l]
      /\ lock_ref' = [m \in Locks |-> lock_ref[m] - refs[m]]
      /\ RemoveLockManager(l \in Z /\ ref_count' = 0, LocksAfterRemove(l, n), wait_locks)
      /\ UNCHANGED <<timeouted, tmo, waited>>
      /\ reply' = [reply EXCEPT ![l] = "EXPRIED"]
      /\ lock_locked' = [lock_locked EXCEPT ![l] = 0]
      /\ is_aof' = [is_aof EXCEPT ![l] = FALSE]
      /\ RemoveLock(l, n)
  BY DEF DoExpried, RemoveLock, PersistReleased
<1>2. Holding(l) /\ ref_count # 0 /\ ~freed
  <2>1. Holding(l)
    BY <1>1 DEF SafetyInv, HoldersHeld
  <2>2. ref_count # 0
    BY <1>1, InUse
  <2>. QED
    BY <2>1, <2>2 DEF AnswerInv, RemovedUnused
<1>3. \A m \in Locks : lock_ref'[m] = lock_ref[m] - refs[m] /\ refs[m] \in Int /\ lock_ref[m] \in Int
  BY <1>1 DEF TypeOK, TypeCounters
<1>4. ref_count' = 0 => l \in Z
  <2>1. ref_count' = 0 => lock_ref'[l] = 0
    BY UnreferencedNext
  <2>2. lock_ref'[l] = 0 => lock_ref[l] = refs[l]
    <3>. HIDE DEF refs
    <3>. QED
      BY <1>3
  <2>. QED
    BY <2>1, <2>2
<1>5. freed' <=> ref_count' = 0
  BY <1>1, <1>2, <1>4 DEF RemoveLockManager
<1>6. UNCHANGED wait_locks
  <2>1. CASE ref_count' # 0
    BY <1>1, <2>1 DEF RemoveLockManager
  <2>2. CASE ref_count' = 0
    <3>1. wait_locks' = <<>> /\ \A m \in Locks : lock_ref'[m] = 0
      BY <2>2, UnreferencedNext
    <3>2. ASSUME NEW m \in Locks PROVE m \notin Waits
      <4>1. Popped(locks, n) \subseteq Held
        <5>1. Range(locks) \subseteq Locks
          BY RangeIndex DEF TypeOK, TypePointers
        <5>. QED
          BY <1>1, <1>2, <5>1, RemoveFacts DEF Held
      <4>2. current_lock \notin Popped(locks, n)
        BY <1>1, <1>2, RemoveFacts DEF SafetyInv, QueuesDistinct
      <4>3. refs[m] <= Indicator(m \in Held) + Indicator(exp[m] # "none")
        <5>1. CASE m = l
          <6>1. l \in Held
            BY <1>2 DEF SafetyInv, HoldersHeld
          <6>. QED
            BY <1>1, <4>1, <4>2, <5>1, <6>1 DEF Indicator
        <5>2. CASE m # l
          BY <4>1, <5>2 DEF Indicator
        <5>. QED
          BY <5>1, <5>2
      <4>4. lock_ref[m] = RefSum(m, Waits, Held, tmo, exp)
        BY CountedIsRefsCounted DEF SafetyInv, Counted
      <4>5. lock_ref[m] = refs[m]
        <5>. HIDE DEF refs
        <5>. QED
          BY <1>3, <3>1
      <4>. HIDE DEF refs
      <4>. QED
        BY <4>3, <4>4, <4>5, <1>3 DEF RefSum, Indicator
    <3>. QED
      BY <3>1, <3>2, QueueElements
  <2>. QED
    BY <2>1, <2>2
<1>7. Waits' = Waits /\ \A m \in Locks : Waiting(m)' <=> Waiting(m)
  BY <1>1, <1>6 DEF Waits, Waiting
<1>8. \A m \in Locks : Holding(m)' <=> Holding(m) /\ m # l
  BY <1>1 DEF Holding, TypeOK, TypeCounters
<1>9. WaitedQueue' /\ RemovedUnused'
  BY <1>1, <1>5, <1>6 DEF AnswerInv, WaitedQueue, RemovedUnused
<1>10. \A m \in Locks : reply'[m] = IF m = l THEN "EXPRIED" ELSE reply[m]
  BY <1>1 DEF TypeOK, TypePointers
<1>11. UnansweredWait'
  <2>1. ~Waiting(l)
    BY <1>2 DEF SafetyInv, WaitersIdle
  <2>. QED
    BY <1>7, <1>10, <2>1 DEF AnswerInv, UnansweredWait
<1>12. HoldersGranted' /\ TimersWait'
  BY <1>1, <1>7, <1>8, <1>10 DEF AnswerInv, HoldersGranted, TimersWait
<1>13. MarkedHold'
  BY <1>1, <1>8 DEF AnswerInv, MarkedHold, TypeOK, TypeFlags
<1>. QED
  BY <1>2, <1>6, <1>9, <1>11, <1>12, <1>13 DEF AnswerInv
-----------------------------------------------------------------------------
(* Requests are granted or begin to wait                                    *)

\* A request granted at once finds nobody waiting.
LEMMA LockGrantAnswers ==
  ASSUME TypeOK, TypeOK', SafetyInv, SafetyInv', AnswerInv,
         NEW c \in LockInputs, NEW l \in Locks, LockGrant(c, l)
  PROVE  AnswerInv' /\ wait_locks = <<>>
<1>1. /\ GetOrNewLock(l, c) /\ ~waited
      /\ UNCHANGED <<wait_locks, waited, timeouted, tmo>>
      /\ lock_locked' = [lock_locked EXCEPT ![l] = 1]
      /\ reply' = [reply EXCEPT ![l] = "SUCCED"]
      /\ exp' = [exp EXCEPT ![l] = "short"]
      /\ freed' = FALSE
      /\ is_aof' = [is_aof EXCEPT ![l] = @ \/ c.aof \in {"now", "loaded"}]
  BY DEF LockGrant, Barred, AddLock, PersistGranted, GetOrNewLock
<1>2. wait_locks = <<>>
  BY <1>1 DEF AnswerInv, WaitedQueue
<1>3. l \notin Waits
  BY <1>1, PooledFacts
<1>4. ref_count' # 0
  <2>1. exp'[l] # "none"
    BY <1>1 DEF TypeOK, TypePointers
  <2>. QED
    BY <2>1, UnreferencedNext
<1>5. Waits' = Waits /\ \A m \in Locks : Waiting(m)' <=> Waiting(m)
  BY <1>1 DEF Waits, Waiting
<1>6. \A m \in Locks : Holding(m)' <=> Holding(m) \/ m = l
  BY <1>1 DEF Holding, TypeOK, TypeCounters
<1>7. \A m \in Locks : reply'[m] = IF m = l THEN "SUCCED" ELSE reply[m]
  BY <1>1 DEF TypeOK, TypePointers
<1>8. WaitedQueue' /\ RemovedUnused'
  BY <1>1, <1>4 DEF AnswerInv, WaitedQueue, RemovedUnused
<1>9. UnansweredWait' /\ HoldersGranted' /\ TimersWait'
  BY <1>1, <1>3, <1>5, <1>6, <1>7
     DEF AnswerInv, UnansweredWait, HoldersGranted, TimersWait, Waiting
<1>10. MarkedHold'
  BY <1>1, <1>6 DEF AnswerInv, MarkedHold, TypeOK, TypeFlags
<1>. QED
  BY <1>2, <1>8, <1>9, <1>10 DEF AnswerInv

\* A request that waits is not answered yet.
LEMMA LockWaitAnswers ==
  ASSUME TypeOK, TypeOK', SafetyInv, SafetyInv', AnswerInv,
         NEW c \in LockInputs, NEW l \in Locks, LockWait(c, l)
  PROVE  AnswerInv'
<1>1. /\ GetOrNewLock(l, c) /\ wait_locks' = Append(wait_locks, l) /\ waited' = TRUE
      /\ timeouted' = [timeouted EXCEPT ![l] = FALSE]
      /\ tmo' = [tmo EXCEPT ![l] = "short"]
      /\ reply' = [reply EXCEPT ![l] = "none"]
      /\ freed' = FALSE
      /\ UNCHANGED <<lock_locked, is_aof>>
  BY DEF LockWait, GetOrNewLock, aof_vars
<1>2. /\ l \notin Waits /\ ~Holding(l)
  BY <1>1, PooledFacts DEF Holding
<1>3. Waits' = Waits \cup {l}
  BY <1>1, <1>2, AppendDistinct DEF Waits, SafetyInv, QueuesDistinct, TypeOK, TypePointers
<1>4. wait_locks' # <<>>
  <2>1. wait_locks' = <<>> => Waits' = {}
    BY RangeIndex DEF Waits, TypeOK, TypePointers
  <2>. QED
    BY <1>3, <2>1
<1>5. ref_count' # 0
  BY <1>4, UnreferencedNext
<1>6. \A m \in Locks : timeouted'[m] = IF m = l THEN FALSE ELSE timeouted[m]
  BY <1>1 DEF TypeOK, TypeFlags
<1>7. \A m \in Locks : Waiting(m)' <=> Waiting(m) \/ m = l
  BY <1>2, <1>3, <1>6 DEF Waiting
<1>8. \A m \in Locks : /\ reply'[m] = IF m = l THEN "none" ELSE reply[m]
                       /\ tmo'[m] = IF m = l THEN "short" ELSE tmo[m]
  BY <1>1 DEF TypeOK, TypePointers
<1>9. \A m \in Locks : Holding(m)' <=> Holding(m)
  BY <1>1 DEF Holding
<1>10. WaitedQueue' /\ RemovedUnused'
  BY <1>1, <1>4, <1>5 DEF WaitedQueue, RemovedUnused
<1>11. UnansweredWait' /\ HoldersGranted'
  BY <1>2, <1>7, <1>8, <1>9 DEF AnswerInv, UnansweredWait, HoldersGranted
<1>12. TimersWait' /\ MarkedHold'
  BY <1>1, <1>3, <1>6, <1>8, <1>9 DEF AnswerInv, TimersWait, MarkedHold
<1>. QED
  BY <1>10, <1>11, <1>12 DEF AnswerInv
-----------------------------------------------------------------------------
(* Requests leave the queue                                                 *)

\* The entries the scan pops are those of answered requests, or of D.
LEMMA PoppedDead ==
  ASSUME TypeOK, SafetyInv, NEW n \in 0..Len(wait_locks), NEW D,
         DeadPrefix(wait_locks, n, {m \in Locks : timeouted[m]} \cup D)
  PROVE  /\ \A m \in Popped(wait_locks, n) : timeouted[m] \/ m \in D
         /\ n < Len(wait_locks) => /\ wait_locks[n + 1] \in Locks
                                   /\ ~timeouted[wait_locks[n + 1]]
         /\ SubSeq(wait_locks, n + 1, Len(wait_locks)) # <<>> <=> n < Len(wait_locks)
<1>1. wait_locks \in Seq(Locks) /\ Len(wait_locks) \in Nat
  BY DEF TypeOK, TypePointers
<1>2. \A m \in Popped(wait_locks, n) : timeouted[m] \/ m \in D
  BY DEF DeadPrefix, Popped
<1>3. n < Len(wait_locks) => /\ wait_locks[n + 1] \in Locks
                             /\ ~timeouted[wait_locks[n + 1]]
  BY <1>1 DEF DeadPrefix
<1>. DEFINE q == SubSeq(wait_locks, n + 1, Len(wait_locks))
<1>4. q \in Seq(Locks) /\ Len(q) = Len(wait_locks) - n
  BY <1>1, PopFacts
<1>5. q # <<>> <=> Len(q) # 0
  <2>. HIDE DEF q
  <2>. QED
    BY <1>4, EmptySeq
<1>. QED
  BY <1>1, <1>2, <1>3, <1>4, <1>5

\* A request times out: it is told, and waited is cleared with the last entry.
LEMMA DoTimeOutAnswers ==
  ASSUME TypeOK, TypeOK', SafetyInv, SafetyInv', AnswerInv,
         NEW l \in Locks, NEW n \in 0..Len(wait_locks), DoTimeOut(l, n)
  PROVE  AnswerInv' /\ Waiting(l)
         /\ wait_locks' = SubSeq(wait_locks, n + 1, Len(wait_locks))
<1>1. PICK P, q : P = Popped(wait_locks, n) /\ q = SubSeq(wait_locks, n + 1, Len(wait_locks))
  OBVIOUS
<1>. DEFINE refs == [m \in Locks |-> (IF m \in P THEN 1 ELSE 0) + (IF m = l THEN 1 ELSE 0)]
            Z == {m \in P \cup {l} : lock_ref[m] = refs[m]}
<1>2. /\ tmo[l] = "doing" /\ ~timeouted[l]
      /\ timeouted' = [timeouted EXCEPT ![l] = TRUE]
      /\ DeadPrefix(wait_locks, n, {m \in Locks : timeouted[m]} \cup {l})
      /\ waited' = (waited /\ n < Len(wait_locks))
      /\ tmo' = [tmo EXCEPT ![l] = "none"]
      /\ lock_ref' = [m \in Locks |-> lock_ref[m] - refs[m]]
      /\ RemoveLockManager(l \in Z /\ ref_count' = 0, locks, q)
      /\ reply' = [reply EXCEPT ![l] = "TIMEOUT"]
      /\ UNCHANGED <<lock_locked, is_aof>>
  BY <1>1 DEF DoTimeOut, StillWaited, AnsweredMeanwhile, aof_vars
<1>3. /\ q \in Seq(Locks) /\ Range(q) = Waits \ P
      /\ P \subseteq Waits /\ Waits \subseteq Locks
  BY <1>1, ScanFacts, ZenonT(60)
<1>4. /\ \A m \in P : timeouted[m] \/ m = l
      /\ q # <<>> <=> n < Len(wait_locks)
  <2>1. /\ \A m \in Popped(wait_locks, n) : timeouted[m] \/ m \in {l}
        /\ SubSeq(wait_locks, n + 1, Len(wait_locks)) # <<>> <=> n < Len(wait_locks)
    BY <1>2, PoppedDead
  <2>. QED
    BY <1>1, <2>1
<1>5. Waiting(l) /\ ref_count # 0 /\ ~freed /\ waited
  <2>1. l \in Waits
    BY <1>2 DEF AnswerInv, TimersWait
  <2>2. ref_count # 0
    BY <1>2, InUse
  <2>3. waited
    BY <2>1, QueueElements DEF AnswerInv, WaitedQueue
  <2>. QED
    BY <1>2, <2>1, <2>2, <2>3 DEF AnswerInv, RemovedUnused, Waiting
<1>6. \A m \in Locks : /\ lock_ref'[m] = lock_ref[m] - refs[m]
                       /\ refs[m] \in Int /\ lock_ref[m] \in Int
                       /\ refs[m] = Indicator(m \in P) + Indicator(m = l)
  BY <1>2 DEF TypeOK, TypeCounters, Indicator
<1>7. ref_count' = 0 => l \in Z
  <2>1. ref_count' = 0 => lock_ref'[l] = 0
    BY UnreferencedNext
  <2>2. lock_ref'[l] = 0 => lock_ref[l] = refs[l]
    <3>. HIDE DEF refs
    <3>. QED
      BY <1>6
  <2>. QED
    BY <2>1, <2>2
<1>8. freed' <=> ref_count' = 0
  BY <1>2, <1>5, <1>7 DEF RemoveLockManager
<1>9. wait_locks' = q
  <2>1. CASE ref_count' # 0
    BY <1>2, <2>1 DEF RemoveLockManager
  <2>2. CASE ref_count' = 0
    <3>1. wait_locks' = <<>> /\ \A m \in Locks : lock_ref'[m] = 0
      BY <2>2, UnreferencedNext
    <3>2. ASSUME NEW m \in Locks PROVE m \notin Waits \ P
      <4>1. lock_ref[m] = RefSum(m, Waits, Held, tmo, exp)
        BY CountedIsRefsCounted DEF SafetyInv, Counted
      <4>2. lock_ref[m] = refs[m]
        <5>. HIDE DEF refs
        <5>. QED
          BY <1>6, <3>1
      <4>3. refs[m] = Indicator(m \in P) + Indicator(m = l)
        BY <1>6
      <4>. HIDE DEF refs
      <4>. QED
        BY <1>2, <4>1, <4>2, <4>3 DEF RefSum, Indicator
    <3>3. Range(q) = {}
      BY <1>3, <3>2
    <3>. QED
      BY <1>3, <3>1, <3>3, RangeIndex
  <2>. QED
    BY <2>1, <2>2
<1>10. Waits' = Waits \ P
  BY <1>3, <1>9 DEF Waits
<1>11. \A m \in Locks : /\ reply'[m] = IF m = l THEN "TIMEOUT" ELSE reply[m]
                        /\ tmo'[m] = IF m = l THEN "none" ELSE tmo[m]
                        /\ timeouted'[m] = IF m = l THEN TRUE ELSE timeouted[m]
  BY <1>2 DEF TypeOK, TypePointers, TypeFlags
<1>12. \A m \in Locks : Waiting(m)' <=> Waiting(m) /\ m # l
  BY <1>4, <1>10, <1>11 DEF Waiting
<1>13. \A m \in Locks : Holding(m)' <=> Holding(m)
  BY <1>2 DEF Holding
<1>14. WaitedQueue' /\ RemovedUnused'
  BY <1>2, <1>4, <1>5, <1>8, <1>9 DEF WaitedQueue, RemovedUnused
<1>15. UnansweredWait'
  BY <1>11, <1>12 DEF AnswerInv, UnansweredWait
<1>16. HoldersGranted'
  <2>1. ~Holding(l)
    BY <1>5 DEF SafetyInv, WaitersIdle
  <2>. QED
    BY <1>11, <1>13, <2>1 DEF AnswerInv, HoldersGranted
<1>17. TimersWait' /\ MarkedHold'
  BY <1>2, <1>4, <1>10, <1>11, <1>13 DEF AnswerInv, TimersWait, MarkedHold
<1>. QED
  BY <1>1, <1>5, <1>9, <1>14, <1>15, <1>16, <1>17 DEF AnswerInv

\* A waking goroutine that grants nothing: it leaves no entry and clears waited,
\* or leaves the entry of a request that waits.
LEMMA WakeIdleAnswers ==
  ASSUME TypeOK, TypeOK', SafetyInv, SafetyInv', AnswerInv,
         NEW n \in 0..Len(wait_locks), WakeDone(n) \/ WakeBlocked(n)
  PROVE  AnswerInv' /\ wait_locks' = SubSeq(wait_locks, n + 1, Len(wait_locks))
<1>1. PICK P, q : P = Popped(wait_locks, n) /\ q = SubSeq(wait_locks, n + 1, Len(wait_locks))
  OBVIOUS
<1>2. /\ DeadPrefix(wait_locks, n, {m \in Locks : timeouted[m]} \cup {})
      /\ UNCHANGED <<timeouted, tmo, lock_locked, reply, is_aof>>
      /\ lock_ref' = UnrefPopped(n)
      /\ FreeLock({m \in P : lock_ref[m] = 1}, {})
  BY <1>1 DEF WakeDone, WakeBlocked, WakePop, timer_vars, aof_vars
<1>3. /\ q \in Seq(Locks) /\ Range(q) = Waits \ P
      /\ P \subseteq Waits /\ Waits \subseteq Locks
      /\ n = Len(wait_locks) => q = <<>>
  BY <1>1, ScanFacts, ZenonT(60)
<1>4. /\ \A m \in P : timeouted[m]
      /\ q # <<>> <=> n < Len(wait_locks)
  <2>1. /\ \A m \in Popped(wait_locks, n) : timeouted[m] \/ m \in {}
        /\ SubSeq(wait_locks, n + 1, Len(wait_locks)) # <<>> <=> n < Len(wait_locks)
    BY <1>2, PoppedDead
  <2>. QED
    BY <1>1, <2>1
<1>5. wait_locks' = q
  BY <1>1, <1>3 DEF WakeDone, WakeBlocked, RemoveLockManager
<1>6. Waits' = Waits \ P /\ \A m \in Locks : Waiting(m)' <=> Waiting(m)
  BY <1>2, <1>3, <1>4, <1>5 DEF Waits, Waiting
<1>7. \A m \in Locks : Holding(m)' <=> Holding(m)
  BY <1>2 DEF Holding
<1>8. WaitedQueue' /\ RemovedUnused'
  <2>1. CASE WakeDone(n)
    <3>1. waited' = FALSE /\ q = <<>> /\ freed' = (freed \/ (waited /\ ref_count' = 0))
      BY <1>3, <2>1 DEF WakeDone, RemoveLockManager
    \* Without waited the queue was empty, and nothing is popped.
    <3>2. ~waited => ref_count' = ref_count
      <4>. DEFINE Z == {m \in P : lock_ref[m] = 1}
      <4>1. ~waited => Waits = {}
        BY QueueElements DEF AnswerInv, WaitedQueue
      <4>2. ~waited => Z = {}
        BY <1>3, <4>1
      <4>3. ref_count' = ref_count - Cardinality(Z) - Cardinality({})
        BY <1>2 DEF FreeLock
      <4>. HIDE DEF Z
      <4>4. Cardinality({}) = 0 /\ ref_count \in Int
        BY FS_EmptySet DEF TypeOK, TypeCounters
      <4>5. ~waited => Cardinality(Z) = 0
        BY <4>2, <4>4
      <4>. QED
        BY <4>3, <4>4, <4>5
    <3>3. waited => ~freed
      BY Unreferenced DEF AnswerInv, WaitedQueue, RemovedUnused
    <3>. QED
      BY <1>5, <3>1, <3>2, <3>3 DEF AnswerInv, WaitedQueue, RemovedUnused
  <2>2. CASE WakeBlocked(n)
    <3>1. n < Len(wait_locks) /\ UNCHANGED <<waited, freed>>
      BY <2>2 DEF WakeBlocked
    <3>2. q # <<>> /\ waited
      BY <1>3, <1>4, <3>1, QueueElements DEF AnswerInv, WaitedQueue
    <3>3. ref_count' # 0
      BY <1>5, <3>2, UnreferencedNext
    <3>4. ref_count # 0
      BY <3>2, Unreferenced DEF AnswerInv, WaitedQueue
    <3>. QED
      BY <1>5, <3>1, <3>2, <3>3, <3>4 DEF AnswerInv, WaitedQueue, RemovedUnused
  <2>. QED
    BY <2>1, <2>2
<1>9. UnansweredWait' /\ HoldersGranted' /\ MarkedHold'
  BY <1>2, <1>6, <1>7 DEF AnswerInv, UnansweredWait, HoldersGranted, MarkedHold
<1>10. TimersWait'
  BY <1>2, <1>4, <1>6 DEF AnswerInv, TimersWait
<1>. QED
  BY <1>1, <1>5, <1>8, <1>9, <1>10 DEF AnswerInv

\* The first request that waits is granted and told; its entry stays.
LEMMA WakeGrantAnswers ==
  ASSUME TypeOK, TypeOK', SafetyInv, SafetyInv', AnswerInv,
         NEW n \in 0..Len(wait_locks), NEW w \in Locks, WakeGrant(n, w)
  PROVE  AnswerInv' /\ Waiting(w)
<1>1. PICK P, q : P = Popped(wait_locks, n) /\ q = SubSeq(wait_locks, n + 1, Len(wait_locks))
  OBVIOUS
<1>2. /\ DeadPrefix(wait_locks, n, {m \in Locks : timeouted[m]} \cup {})
      /\ n < Len(wait_locks) /\ w = wait_locks[n + 1]
      /\ wait_locks' = q
      /\ timeouted' = [timeouted EXCEPT ![w] = TRUE]
      /\ tmo' = IF tmo[w] = "long" THEN [tmo EXCEPT ![w] = "none"] ELSE tmo
      /\ reply' = [reply EXCEPT ![w] = "SUCCED"]
      /\ UNCHANGED <<waited, freed>>
  BY <1>1 DEF WakeGrant, WakePop
<1>3. /\ q \in Seq(Locks) /\ Range(q) = Waits \ P
      /\ P \subseteq Waits /\ Waits \subseteq Locks /\ w \in Waits \ P
  BY <1>1, <1>2, ScanFacts, ZenonT(60)
<1>4. /\ \A m \in P : timeouted[m]
      /\ q # <<>> /\ ~timeouted[w]
  <2>0. DeadPrefix(wait_locks, n, {m \in Locks : timeouted[m]} \cup {})
    BY <1>2
  <2>1. /\ \A m \in Popped(wait_locks, n) : timeouted[m] \/ m \in {}
        /\ SubSeq(wait_locks, n + 1, Len(wait_locks)) # <<>> <=> n < Len(wait_locks)
    BY <2>0, PoppedDead
  <2>2. ~timeouted[wait_locks[n + 1]]
    BY <1>2, PoppedDead
  <2>. QED
    BY <1>1, <1>2, <2>1, <2>2
<1>5. Waiting(w) /\ ref_count # 0 /\ ref_count' # 0 /\ ~freed /\ waited
  <2>1. Waiting(w)
    BY <1>3, <1>4 DEF Waiting
  <2>2. ref_count # 0
    BY <1>3, InUse
  <2>3. ref_count' # 0
    BY <1>2, <1>4, UnreferencedNext
  <2>4. waited
    BY <1>3, QueueElements DEF AnswerInv, WaitedQueue
  <2>. QED
    BY <2>1, <2>2, <2>3, <2>4 DEF AnswerInv, RemovedUnused
<1>6. \A m \in Locks : /\ reply'[m] = IF m = w THEN "SUCCED" ELSE reply[m]
                       /\ tmo'[m] # "none" => tmo[m] # "none"
                       /\ timeouted'[m] = IF m = w THEN TRUE ELSE timeouted[m]
  BY <1>2 DEF TypeOK, TypePointers, TypeFlags
<1>7. Waits' = Waits \ P /\ \A m \in Locks : Waiting(m)' <=> Waiting(m) /\ m # w
  BY <1>2, <1>3, <1>4, <1>6 DEF Waits, Waiting
<1>8. /\ \A m \in Locks : Holding(m)' => Holding(m) \/ m = w
      /\ \A m \in Locks : m # w => (Holding(m)' <=> Holding(m))
      /\ command[w].lease => Holding(w)'
      /\ ~command[w].lease => UNCHANGED <<lock_locked, is_aof>>
  <2>1. CASE command[w].lease
    <3>1. lock_locked' = [lock_locked EXCEPT ![w] = 1]
      BY <2>1 DEF WakeGrant, AddLock
    <3>. QED
      BY <2>1, <3>1 DEF Holding, TypeOK, TypeCounters
  <2>2. CASE ~command[w].lease
    <3>1. UNCHANGED <<lock_locked, is_aof>>
      BY <2>2 DEF WakeGrant, aof_vars
    <3>. QED
      BY <2>2, <3>1 DEF Holding
  <2>. QED
    BY <2>1, <2>2
<1>9. \A m \in Locks : m # w => is_aof'[m] = is_aof[m]
  <2>1. \/ is_aof' = [is_aof EXCEPT ![w] = @ \/ command[w].aof \in {"now", "loaded"}]
        \/ is_aof' = is_aof
    BY DEF WakeGrant, PersistGranted, aof_vars
  <2>. QED
    BY <2>1 DEF TypeOK, TypeFlags
<1>10. WaitedQueue' /\ RemovedUnused'
  BY <1>2, <1>4, <1>5 DEF WaitedQueue, RemovedUnused
<1>11. UnansweredWait' /\ HoldersGranted'
  BY <1>6, <1>7, <1>8 DEF AnswerInv, UnansweredWait, HoldersGranted
<1>12. TimersWait'
  BY <1>4, <1>6, <1>7 DEF AnswerInv, TimersWait
<1>13. MarkedHold'
  <2>1. ~Holding(w)
    BY <1>5 DEF SafetyInv, WaitersIdle
  <2>2. ~is_aof[w]
    BY <2>1 DEF AnswerInv, MarkedHold
  <2>. QED
    BY <1>8, <1>9, <2>2 DEF AnswerInv, MarkedHold
<1>. QED
  BY <1>5, <1>10, <1>11, <1>12, <1>13 DEF AnswerInv
-----------------------------------------------------------------------------
(* The invariant, and what it says of answers                               *)

\* A new manager has no request.
LEMMA AnswerInit == Init => AnswerInv
<1>. SUFFICES ASSUME Init PROVE AnswerInv
  OBVIOUS
<1>1. Waits = {} /\ \A l \in Locks : ~Holding(l) /\ ~Waiting(l)
  <2>1. Range(<<>>) = {}
    BY DEF Range
  <2>. QED
    BY <2>1 DEF Init, Waits, Holding, Waiting
<1>. QED
  BY <1>1 DEF Init, AnswerInv, WaitedQueue, RemovedUnused, UnansweredWait, HoldersGranted,
              TimersWait, MarkedHold

\* Every step keeps the answers right.
LEMMA AnswerStep ==
  TypeOK /\ TypeOK' /\ SafetyInv /\ SafetyInv' /\ AnswerInv /\ [Next]_vars => AnswerInv'
<1>. SUFFICES ASSUME TypeOK, TypeOK', SafetyInv, SafetyInv', AnswerInv, [Next]_vars
              PROVE  AnswerInv'
  OBVIOUS
<1>1. CASE ClientStep
  BY <1>1, RequestAnswers, OtherAnswers, LockGrantAnswers, LockWaitAnswers, UnLockAnswers
     DEF ClientStep
<1>2. CASE TimerStep
  BY <1>2, OtherAnswers, DropAnswers, DoTimeOutAnswers, DoExpriedAnswers DEF TimerStep
<1>3. CASE WakeStep
  BY <1>3, OtherAnswers, WakeIdleAnswers, WakeGrantAnswers DEF WakeStep
<1>4. CASE UNCHANGED vars
  BY <1>4, OtherAnswers
<1>. QED
  BY <1>1, <1>2, <1>3, <1>4 DEF Next

\* The steps that change an answer, and how.
LEMMA ReplyChanges ==
  ASSUME TypeOK, TypeOK', SafetyInv, SafetyInv', AnswerInv, [Next]_vars,
         NEW l \in Locks, reply'[l] # reply[l]
  PROVE  \/ \E c \in LockInputs : LockGrant(c, l) /\ reply'[l] = "SUCCED"
         \/ \E c \in LockInputs : LockWait(c, l) /\ reply'[l] = "none"
         \/ /\ \E n \in 0..Len(wait_locks) : DoTimeOut(l, n)
            /\ Waiting(l) /\ reply'[l] = "TIMEOUT"
         \/ /\ \E n \in 0..Len(locks) : DoExpried(l, n)
            /\ Holding(l) /\ reply'[l] = "EXPRIED"
         \/ /\ \E n \in 0..Len(wait_locks) : WakeGrant(n, l)
            /\ Waiting(l) /\ reply'[l] = "SUCCED"
<1>1. CASE ClientStep
  <2>1. ~\E c \in LockInputs : \/ LockShow(c) \/ LockUpdate(c) \/ LockReenter(c)
                               \/ LockReenterNoLease(c) \/ LockRefuse(c) \/ LockPass(c)
    BY DEF LockShow, LockUpdate, LockReenter, LockReenterNoLease, LockRefuse, LockPass, vars
  <2>2. ~\E u \in UnlockInputs : \/ UnLockError(u) \/ UnLockOne(u)
                                 \/ \E k \in Locks : \E n \in 0..Len(locks) : UnLock(u, k, n)
    <3>1. \A u, k, n : UnLock(u, k, n) => UNCHANGED reply
      BY DEF UnLock
    <3>2. \A u : UnLockError(u) \/ UnLockOne(u) => UNCHANGED reply
      BY DEF UnLockError, UnLockOne, vars
    <3>. QED
      BY <3>1, <3>2
  <2>3. ~\E r \in Locks \cup {NIL} : ReadReply(r)
    BY DEF ReadReply, vars
  <2>4. PICK c \in LockInputs, k \in Locks : LockGrant(c, k) \/ LockWait(c, k)
    BY <1>1, <2>1, <2>2, <2>3 DEF ClientStep
  <2>5. /\ LockGrant(c, k) => reply' = [reply EXCEPT ![k] = "SUCCED"]
        /\ LockWait(c, k) => reply' = [reply EXCEPT ![k] = "none"]
    BY DEF LockGrant, LockWait
  <2>6. k = l
    BY <2>4, <2>5 DEF TypeOK, TypePointers
  <2>. QED
    BY <2>4, <2>5, <2>6 DEF TypeOK, TypePointers
<1>2. CASE TimerStep
  <2>1. PICK k \in Locks : \/ \E n \in 0..Len(wait_locks) : DoTimeOut(k, n)
                           \/ \E n \in 0..Len(locks) : DoExpried(k, n)
    <3>1. ~\E k \in Locks : \/ CheckTimeOutDead(k) \/ CheckTimeOutKeep(k)
                            \/ CheckTimeOutDue(k) \/ DoTimeOutLate(k)
      BY DEF CheckTimeOutDead, CheckTimeOutKeep, CheckTimeOutDue, DoTimeOutLate
    <3>2. ~\E k \in Locks : \/ CheckExpriedDead(k) \/ CheckExpriedKeep(k)
                            \/ CheckExpriedDue(k) \/ DoExpriedLate(k)
      BY DEF CheckExpriedDead, CheckExpriedKeep, CheckExpriedDue, DoExpriedLate
    <3>. QED
      BY <1>2, <3>1, <3>2 DEF TimerStep
  <2>2. ASSUME NEW n \in 0..Len(wait_locks), DoTimeOut(k, n)
        PROVE  k = l /\ Waiting(l) /\ reply'[l] = "TIMEOUT"
    <3>1. reply' = [reply EXCEPT ![k] = "TIMEOUT"]
      BY <2>2 DEF DoTimeOut
    <3>2. k = l /\ reply'[l] = "TIMEOUT"
      BY <3>1 DEF TypeOK, TypePointers
    <3>. QED
      BY <2>2, <3>2, DoTimeOutAnswers
  <2>3. ASSUME NEW n \in 0..Len(locks), DoExpried(k, n)
        PROVE  k = l /\ Holding(l) /\ reply'[l] = "EXPRIED"
    <3>1. reply' = [reply EXCEPT ![k] = "EXPRIED"]
      BY <2>3 DEF DoExpried
    <3>2. k = l /\ reply'[l] = "EXPRIED"
      BY <3>1 DEF TypeOK, TypePointers
    <3>. QED
      BY <2>3, <3>2, DoExpriedAnswers
  <2>. QED
    BY <2>1, <2>2, <2>3
<1>3. CASE WakeStep
  <2>1. ~WakeCheck /\ ~\E n \in 0..Len(wait_locks) : WakeDone(n) \/ WakeBlocked(n)
    BY DEF WakeCheck, WakeDone, WakeBlocked
  <2>2. PICK n \in 0..Len(wait_locks), w \in Locks : WakeGrant(n, w)
    BY <1>3, <2>1 DEF WakeStep
  <2>3. reply' = [reply EXCEPT ![w] = "SUCCED"]
    BY <2>2 DEF WakeGrant
  <2>4. w = l /\ reply'[l] = "SUCCED"
    BY <2>3 DEF TypeOK, TypePointers
  <2>. QED
    BY <2>2, <2>4, WakeGrantAnswers
<1>4. ~UNCHANGED vars
  BY DEF vars
<1>. QED
  BY <1>1, <1>2, <1>3, <1>4 DEF Next

\* While no lease is long enough for the long queue, the whole bookkeeping of
\* LockManager stays consistent under every interleaving of clients, timers and
\* waking goroutines.
THEOREM BookkeepingSafe ==
  ASSUME LongLeases = FALSE
  PROVE  Spec => []SafetyInv
<1>1. TypeOK /\ SafetyInv /\ [Next]_vars => SafetyInv'
  BY SafetyStep
<1>. QED
  BY <1>1, SafetyInit, TypeCorrect, PTL DEF Spec

\* ... so are its answers.
LEMMA AnswersSafe ==
  ASSUME LongLeases = FALSE
  PROVE  Spec => []AnswerInv
<1>1. Spec => []SafetyInv
  BY BookkeepingSafe
<1>. QED
  BY <1>1, TypeCorrect, AnswerInit, AnswerStep, PTL DEF Spec

\* GetOrNewLock hands out objects that nobody holds a lock with, that are not
\* marked as persisted and whose last request was answered.
THEOREM PooledObjectsClean ==
  ASSUME LongLeases = FALSE
  PROVE  Spec => []PoolClean
<1>1. TypeOK /\ SafetyInv /\ AnswerInv => PoolClean
  <2>. SUFFICES ASSUME TypeOK, SafetyInv, AnswerInv, NEW l \in Locks, free_locks[l] > 0
                PROVE  lock_locked[l] = 0 /\ ~is_aof[l] /\ reply[l] # "none"
    BY DEF PoolClean
  <2>1. lock_ref[l] = 0
    BY DEF SafetyInv, RefsCounted, Indicator
  <2>2. l \notin Waits /\ exp[l] = "none"
    BY <2>1, CountedIsRefsCounted, RefSumFacts DEF SafetyInv, Counted
  <2>3. ~Holding(l) /\ ~Waiting(l)
    BY <2>2 DEF SafetyInv, HoldersHeld, Waiting
  <2>4. lock_locked[l] = 0
    BY <2>3 DEF Holding, TypeOK, TypeCounters
  <2>. QED
    BY <2>3, <2>4 DEF AnswerInv, MarkedHold, UnansweredWait
<1>2. Spec => []SafetyInv /\ []AnswerInv
  BY BookkeepingSafe, AnswersSafe
<1>. QED
  BY <1>1, <1>2, TypeCorrect, PTL

\* A manager is removed from the index exactly when its last object is freed, and
\* it then has no holder, no waiter and no entry of lock_maps to hand on.
THEOREM RemovedManagersClean ==
  ASSUME LongLeases = FALSE
  PROVE  Spec => []ManagerRemovedClean
<1>1. TypeOK /\ SafetyInv /\ AnswerInv => ManagerRemovedClean
  <2>. SUFFICES ASSUME TypeOK, SafetyInv, AnswerInv PROVE ManagerRemovedClean
    OBVIOUS
  <2>1. ObjectsCounted /\ (freed <=> ref_count = 0)
    BY DEF SafetyInv, AnswerInv, RemovedUnused
  <2>2. ASSUME freed
        PROVE  /\ current_lock = NIL /\ locked = 0 /\ ~waited
               /\ \A i \in LockIds : lock_maps[i] = NIL
    <3>1. wait_locks = <<>> /\ \A m \in Locks : exp[m] = "none"
      BY <2>1, <2>2, Unreferenced
    <3>2. \A m \in Locks : ~Holding(m)
      BY <3>1 DEF SafetyInv, HoldersHeld
    <3>3. current_lock = NIL
      BY <3>2 DEF SafetyInv, HoldersHeld, TypeOK, TypePointers
    <3>4. \A i \in LockIds : lock_maps[i] = NIL
      BY <3>2 DEF SafetyInv, MapsToHolders, TypeOK, TypePointers
    <3>5. locked = 0
      <4>1. lock_locked \in [Locks -> 0..MaxReentry] /\ \A m \in Locks : lock_locked[m] = 0
        BY <3>2 DEF Holding, TypeOK, TypeCounters
      <4>. QED
        BY <4>1, HoldsNone DEF SafetyInv, Holds
    <3>6. ~waited
      BY <3>1 DEF AnswerInv, WaitedQueue
    <3>. QED
      BY <3>3, <3>4, <3>5, <3>6
  <2>. QED
    BY <2>1, <2>2 DEF ManagerRemovedClean
<1>2. Spec => []SafetyInv /\ []AnswerInv
  BY BookkeepingSafe, AnswersSafe
<1>. QED
  BY <1>1, <1>2, TypeCorrect, PTL

\* Every request gets one answer, whoever gets to it first, a waking goroutine or
\* the timer; EXPRIED follows a grant only.
THEOREM RequestsAnsweredOnce ==
  ASSUME LongLeases = FALSE
  PROVE  Spec => AnsweredOnce
<1>1. ASSUME TypeOK, TypeOK', SafetyInv, SafetyInv', AnswerInv, [Next]_vars
      PROVE  [\A l \in Locks : reply'[l] # reply[l] /\ free_locks[l] = 0 =>
                \/ reply[l] = "none" /\ Waiting(l) /\ reply'[l] # "EXPRIED"
                \/ reply[l] = "SUCCED" /\ Holding(l) /\ reply'[l] = "EXPRIED"]_vars
  <2>. SUFFICES ASSUME NEW l \in Locks, reply'[l] # reply[l], free_locks[l] = 0
                PROVE  \/ reply[l] = "none" /\ Waiting(l) /\ reply'[l] # "EXPRIED"
                       \/ reply[l] = "SUCCED" /\ Holding(l) /\ reply'[l] = "EXPRIED"
    OBVIOUS
  <2>1. ~\E c \in LockInputs : LockGrant(c, l) \/ LockWait(c, l)
    BY DEF LockGrant, LockWait, GetOrNewLock
  <2>2. \/ Waiting(l) /\ reply'[l] \in {"TIMEOUT", "SUCCED"}
        \/ Holding(l) /\ reply'[l] = "EXPRIED"
    BY <1>1, <2>1, ReplyChanges
  <2>3. (Waiting(l) => reply[l] = "none") /\ (Holding(l) => reply[l] = "SUCCED")
    BY <1>1 DEF AnswerInv, UnansweredWait, HoldersGranted
  <2>. QED
    BY <2>2, <2>3
<1>2. Spec => []SafetyInv /\ []AnswerInv
  BY BookkeepingSafe, AnswersSafe
<1>. QED
  BY <1>1, <1>2, TypeCorrect, PTL DEF Spec, AnsweredOnce

\* No request is granted past one that began to wait earlier and still waits.
THEOREM GrantsKeepOrder ==
  ASSUME LongLeases = FALSE
  PROVE  Spec => GrantsInOrder
<1>1. ASSUME TypeOK, TypeOK', SafetyInv, SafetyInv', AnswerInv, [Next]_vars
      PROVE  [\A l \in Locks : reply[l] # "SUCCED" /\ reply'[l] = "SUCCED" =>
                \A i \in 1..Len(wait_locks) :
                  \/ timeouted[wait_locks[i]]
                  \/ wait_locks[i] = l
                  \/ \E j \in 1..(i - 1) : wait_locks[j] = l]_vars
  <2>. SUFFICES ASSUME NEW l \in Locks, reply[l] # "SUCCED", reply'[l] = "SUCCED",
                       NEW i \in 1..Len(wait_locks)
                PROVE  \/ timeouted[wait_locks[i]]
                       \/ wait_locks[i] = l
                       \/ \E j \in 1..(i - 1) : wait_locks[j] = l
    OBVIOUS
  <2>0. Len(wait_locks) \in Nat
    BY <1>1 DEF TypeOK, TypePointers
  <2>1. \/ \E c \in LockInputs : LockGrant(c, l)
        \/ \E n \in 0..Len(wait_locks) : WakeGrant(n, l)
    BY <1>1, ReplyChanges
  <2>2. ASSUME NEW c \in LockInputs, LockGrant(c, l) PROVE FALSE
    <3>1. wait_locks = <<>>
      BY <1>1, <2>2, LockGrantAnswers
    <3>. QED
      BY <3>1
  <2>3. ASSUME NEW n \in 0..Len(wait_locks), WakeGrant(n, l)
        PROVE  \/ timeouted[wait_locks[i]]
               \/ wait_locks[i] = l
               \/ \E j \in 1..(i - 1) : wait_locks[j] = l
    <3>1. /\ DeadPrefix(wait_locks, n, {m \in Locks : timeouted[m]})
          /\ l = wait_locks[n + 1]
      BY <2>3 DEF WakeGrant, WakePop
    <3>2. \A k \in 1..n : timeouted[wait_locks[k]]
      BY <3>1 DEF DeadPrefix
    <3>3. i \in 1..n \/ i = n + 1 \/ n + 1 \in 1..(i - 1)
      BY <2>0
    <3>. QED
      BY <3>1, <3>2, <3>3
  <2>. QED
    BY <2>1, <2>2, <2>3
<1>2. Spec => []SafetyInv /\ []AnswerInv
  BY BookkeepingSafe, AnswersSafe
<1>. QED
  BY <1>1, <1>2, TypeCorrect, PTL DEF Spec, GrantsInOrder
-----------------------------------------------------------------------------
(* Wake-ups                                                                 *)

\* The key admits one more request, when every request comes with Count = k.
Admits(k) == locked # 0 => locked # MaxLocked /\ locked <= k

\* Requests wait for a key that is full, unless a goroutine is in
\* WakeUpWaitLocks.
FullOrWaking(k) == wait_locks # <<>> /\ wake_check + wake_loop = 0 => ~Admits(k)

\* DoLock then does not depend on the request.
LEMMA DoLockAdmits ==
  ASSUME TypeOK, SafetyInv, NEW k, \A d \in LockInputs : d.count = k, NEW c \in LockInputs
  PROVE  DoLock(c) <=> Admits(k)
<1>1. locked # 0 => current_lock \in Locks /\ Holding(current_lock)
  <2>1. ASSUME current_lock = NIL PROVE locked = 0
    <3>1. lock_locked \in [Locks -> 0..MaxReentry] /\ \A l \in Locks : lock_locked[l] = 0
      BY <2>1 DEF SafetyInv, HoldersHeld, Holding, TypeOK, TypeCounters
    <3>. QED
      BY <3>1, HoldsNone DEF SafetyInv, Holds
  <2>. QED
    BY <2>1 DEF SafetyInv, HoldersHeld, TypeOK, TypePointers
<1>2. locked # 0 => command[current_lock] \in LockInputs
  <2>. SUFFICES ASSUME locked # 0 PROVE command[current_lock] \in LockInputs
    OBVIOUS
  <2>1. current_lock \in Locks /\ exp[current_lock] # "none"
    BY <1>1 DEF SafetyInv, HoldersHeld
  <2>2. lock_ref[current_lock] # 0
    BY <2>1, CountedIsRefsCounted, RefSumFacts DEF SafetyInv, Counted
  <2>. QED
    BY <2>1, <2>2 DEF SafetyInv, RefsCounted, TypeOK, TypePointers
<1>. QED
  BY <1>2 DEF DoLock, Admits

\* The request of an entry of the queue.
LEMMA WaiterHasCommand ==
  ASSUME TypeOK, SafetyInv, NEW i \in 1..Len(wait_locks)
  PROVE  wait_locks[i] \in Locks /\ command[wait_locks[i]] \in LockInputs
<1>1. wait_locks[i] \in Waits /\ wait_locks[i] \in Locks
  BY QueueElements
<1>2. lock_ref[wait_locks[i]] # 0
  BY <1>1, CountedIsRefsCounted, RefSumFacts DEF SafetyInv, Counted
<1>. QED
  BY <1>1, <1>2 DEF SafetyInv, RefsCounted, TypeOK, TypePointers

\* A step that adds no request, takes no lock off the key and leaves the waking
\* goroutines alone.
LEMMA QuietWaking ==
  ASSUME NEW k, FullOrWaking(k), UNCHANGED <<locked, wake_check, wake_loop>>,
         wait_locks' # <<>> => wait_locks # <<>>
  PROVE  FullOrWaking(k)'
BY DEF FullOrWaking, Admits

\* Requests.
LEMMA ClientWaking ==
  ASSUME TypeOK, TypeOK', SafetyInv, SafetyInv', AnswerInv,
         NEW k \in 0..MaxLocked, \A c \in LockInputs : c.count = k,
         FullOrWaking(k), ClientStep
  PROVE  FullOrWaking(k)'
<1>. USE ConstantsAssumption
<1>0. locked \in Nat /\ wake_check \in Nat /\ wake_loop \in Nat
  <2>1. 0 \in 0..MaxReentry /\ lock_locked \in [Locks -> 0..MaxReentry]
    BY DEF TypeOK, TypeCounters
  <2>2. CASE Locks = {}
    <3>1. \A l \in Locks : lock_locked[l] = 0
      BY <2>2
    <3>2. locked = 0
      BY <2>1, <3>1, HoldsNone DEF SafetyInv, Holds
    <3>. QED
      BY <3>2 DEF TypeOK, TypeCounters
  <2>3. CASE Locks # {}
    BY <2>1, <2>3, HoldsUpdate DEF SafetyInv, Holds, TypeOK, TypeCounters
  <2>. QED
    BY <2>2, <2>3
<1>1. ASSUME NEW c \in LockInputs,
             LockShow(c) \/ LockUpdate(c) \/ LockReenterNoLease(c) \/ LockRefuse(c) \/ LockPass(c)
      PROVE  FullOrWaking(k)'
  <2>1. UNCHANGED <<locked, wake_check, wake_loop>>
    BY <1>1 DEF LockShow, LockUpdate, LockReenterNoLease, LockRefuse, LockPass, vars,
                manager_vars, wake_vars
  <2>2. wait_locks' = wait_locks \/ wait_locks' = <<>>
    BY <1>1 DEF LockShow, LockUpdate, LockReenterNoLease, LockRefuse, LockPass, vars,
                manager_vars, RemoveLockManager
  <2>. QED
    BY <2>1, <2>2, QuietWaking
<1>2. ASSUME NEW c \in LockInputs, LockReenter(c) PROVE FullOrWaking(k)'
  <2>1. locked' = locked + 1 /\ UNCHANGED <<wait_locks, wake_check, wake_loop>>
    BY <1>2 DEF LockReenter, wake_vars
  <2>2. Admits(k)' => Admits(k)
    BY <1>0, <2>1 DEF Admits
  <2>. QED
    BY <2>1, <2>2 DEF FullOrWaking
<1>3. ASSUME NEW c \in LockInputs, NEW l \in Locks, LockGrant(c, l) PROVE FullOrWaking(k)'
  <2>1. wait_locks = <<>> /\ wait_locks' = wait_locks
    BY <1>3, LockGrantAnswers DEF LockGrant
  <2>. QED
    BY <2>1 DEF FullOrWaking
<1>4. ASSUME NEW c \in LockInputs, NEW l \in Locks, LockWait(c, l) PROVE FullOrWaking(k)'
  <2>1. UNCHANGED <<locked, wake_check, wake_loop>> /\ (waited \/ ~DoLock(c))
    BY <1>4 DEF LockWait, Barred, wake_vars
  <2>2. wake_check + wake_loop = 0 => ~Admits(k)
    BY <2>1, DoLockAdmits DEF AnswerInv, WaitedQueue, FullOrWaking
  <2>. QED
    BY <2>1, <2>2 DEF FullOrWaking, Admits
<1>5. ASSUME NEW u \in UnlockInputs, UnLockError(u) PROVE FullOrWaking(k)'
  BY <1>5, QuietWaking DEF UnLockError, vars, manager_vars, wake_vars
<1>6. ASSUME NEW u \in UnlockInputs,
             UnLockOne(u) \/ \E l \in Locks : \E n \in 0..Len(locks) : UnLock(u, l, n)
      PROVE  FullOrWaking(k)'
  <2>1. wake_check' = wake_check + 1 /\ wake_loop' = wake_loop
    BY <1>6 DEF UnLockOne, UnLock
  <2>. QED
    BY <1>0, <2>1 DEF FullOrWaking
<1>7. ASSUME NEW r, ReadReply(r) PROVE FullOrWaking(k)'
  BY <1>7, QuietWaking DEF ReadReply, manager_vars, wake_vars
<1>. QED
  BY <1>1, <1>2, <1>3, <1>4, <1>5, <1>6, <1>7 DEF ClientStep

\* Timers, and the waking goroutines: the last one leaves an empty queue or a full
\* key behind.
LEMMA OtherWaking ==
  ASSUME TypeOK, TypeOK', SafetyInv, SafetyInv', AnswerInv,
         NEW k \in 0..MaxLocked, \A c \in LockInputs : c.count = k,
         FullOrWaking(k), TimerStep \/ WakeStep
  PROVE  FullOrWaking(k)'
<1>0. wake_check \in Nat /\ wake_loop \in Nat
  BY DEF TypeOK, TypeCounters
<1>1. ASSUME NEW l \in Locks,
             \/ CheckTimeOutKeep(l) \/ CheckTimeOutDue(l)
             \/ CheckExpriedKeep(l) \/ CheckExpriedDue(l)
      PROVE  FullOrWaking(k)'
  BY <1>1, QuietWaking DEF CheckTimeOutKeep, CheckTimeOutDue, CheckExpriedKeep,
                           CheckExpriedDue, manager_vars, wake_vars
<1>2. ASSUME NEW l \in Locks,
             \/ CheckTimeOutDead(l) \/ DoTimeOutLate(l)
             \/ CheckExpriedDead(l) \/ DoExpriedLate(l)
      PROVE  FullOrWaking(k)'
  <2>1. UNCHANGED <<locked, wake_check, wake_loop>> /\ DropTimerRef(l)
    BY <1>2 DEF CheckTimeOutDead, DoTimeOutLate, CheckExpriedDead, DoExpriedLate, wake_vars
  <2>2. wait_locks' = wait_locks \/ wait_locks' = <<>>
    BY <2>1 DEF DropTimerRef, RemoveLockManager
  <2>. QED
    BY <2>1, <2>2, QuietWaking
<1>3. ASSUME NEW l \in Locks, NEW n \in 0..Len(wait_locks), DoTimeOut(l, n)
      PROVE  FullOrWaking(k)'
  <2>1. UNCHANGED <<locked, wake_check, wake_loop>>
    BY <1>3 DEF DoTimeOut, wake_vars
  <2>2. wait_locks # <<>>
    BY <1>3, DoTimeOutAnswers, QueueElements DEF Waiting
  <2>. QED
    BY <2>1, <2>2, QuietWaking
<1>4. ASSUME NEW l \in Locks, NEW n \in 0..Len(locks), DoExpried(l, n) PROVE FullOrWaking(k)'
  <2>1. wake_check' = wake_check + 1 /\ wake_loop' = wake_loop
    BY <1>4 DEF DoExpried
  <2>. QED
    BY <1>0, <2>1 DEF FullOrWaking
<1>5. ASSUME WakeCheck PROVE FullOrWaking(k)'
  <2>1. /\ wake_check > 0 /\ UNCHANGED <<wait_locks, waited>>
        /\ wake_check' = wake_check - 1
        /\ wake_loop' = IF waited THEN wake_loop + 1 ELSE wake_loop
    BY <1>5 DEF WakeCheck, manager_vars
  <2>2. wait_locks' # <<>> => wake_check' + wake_loop' # 0
    BY <1>0, <2>1 DEF AnswerInv, WaitedQueue
  <2>. QED
    BY <2>2 DEF FullOrWaking
<1>6. ASSUME NEW n \in 0..Len(wait_locks), WakeDone(n) PROVE FullOrWaking(k)'
  <2>1. wait_locks' = <<>>
    BY <1>6 DEF WakeDone, RemoveLockManager
  <2>. QED
    BY <2>1 DEF FullOrWaking
<1>7. ASSUME NEW n \in 0..Len(wait_locks), WakeBlocked(n) PROVE FullOrWaking(k)'
  <2>1. n + 1 \in 1..Len(wait_locks) /\ ~DoLock(command[wait_locks[n + 1]]) /\ locked' = locked
    BY <1>7, QueueElements DEF WakeBlocked, TypeOK, TypePointers
  <2>2. ~Admits(k)
    BY <2>1, WaiterHasCommand, DoLockAdmits
  <2>. QED
    BY <2>1, <2>2 DEF FullOrWaking, Admits
<1>8. ASSUME NEW n \in 0..Len(wait_locks), NEW w \in Locks, WakeGrant(n, w)
      PROVE  FullOrWaking(k)'
  <2>1. wake_loop > 0 /\ UNCHANGED <<wake_check, wake_loop>>
    BY <1>8 DEF WakeGrant, WakePop, wake_vars
  <2>. QED
    BY <1>0, <2>1 DEF FullOrWaking
<1>. QED
  BY <1>1, <1>2, <1>3, <1>4, <1>5, <1>6, <1>7, <1>8 DEF TimerStep, WakeStep

\* When all requests for a key come with the same Count (a Lock, a Semaphore; not
\* a RWLock), no release is lost: as long as the first request that waits would be
\* admitted, a goroutine is on its way to admit it, although each of them tests
\* waited without glock and gives up at the first request it cannot admit.
THEOREM WakeUpsNotLost ==
  ASSUME LongLeases = FALSE, NEW k \in 0..MaxLocked, \A c \in LockInputs : c.count = k
  PROVE  Spec => []NoLostWakeUp
<1>1. Init => FullOrWaking(k)
  BY DEF Init, FullOrWaking
<1>2. TypeOK /\ TypeOK' /\ SafetyInv /\ SafetyInv' /\ AnswerInv /\ FullOrWaking(k) /\ [Next]_vars
        => FullOrWaking(k)'
  <2>1. UNCHANGED vars /\ FullOrWaking(k) => FullOrWaking(k)'
    BY DEF vars, manager_vars, wake_vars, FullOrWaking, Admits
  <2>. QED
    BY <2>1, ClientWaking, OtherWaking DEF Next
<1>3. TypeOK /\ SafetyInv /\ FullOrWaking(k) => NoLostWakeUp
  <2>. SUFFICES ASSUME TypeOK, SafetyInv, FullOrWaking(k), Admissible
                PROVE  wake_check + wake_loop > 0
    BY DEF NoLostWakeUp
  <2>1. PICK i \in 1..Len(wait_locks) : DoLock(command[wait_locks[i]])
    BY DEF Admissible
  <2>2. Admits(k)
    BY <2>1, WaiterHasCommand, DoLockAdmits
  <2>3. wait_locks # <<>>
    BY <2>1
  <2>4. wake_check + wake_loop # 0
    BY <2>2, <2>3 DEF FullOrWaking
  <2>. QED
    BY <2>4 DEF TypeOK, TypeCounters
<1>4. Spec => []SafetyInv /\ []AnswerInv
  BY BookkeepingSafe, AnswersSafe
<1>. QED
  BY <1>1, <1>2, <1>3, <1>4, TypeCorrect, PTL DEF Spec
-----------------------------------------------------------------------------
(* The holders.                                                              *)

\* Clients agree on the Count of a LockId, as the objects of the client do: a
\* Lock sends 0 and a RWLock's readers and writers use LockIds of their own.
CountPerId == \A c, d \in LockInputs : c.id = d.id => c.count = d.count

\* m goes on holding the key with the Count it had, or holds it no longer.
Keeps(m) ==
  Holding(m)' => Holding(m) /\ (command'[m] = NIL \/ command'[m].count = command[m].count)

\* A holder's object is in use.
LEMMA HolderHasCommand ==
  ASSUME TypeOK, SafetyInv, NEW l \in Locks, Holding(l)
  PROVE  command[l] \in LockInputs
<1>1. l \in Held
  BY DEF SafetyInv, HoldersHeld
<1>2. lock_ref[l] # 0
  BY <1>1, CountedIsRefsCounted, RefSumFacts DEF SafetyInv, Counted
<1>. QED
  BY <1>2 DEF SafetyInv, RefsCounted, TypeOK, TypePointers

\* The command of a holder is one that a client sent.
LEMMA NewHolderHasCommand ==
  ASSUME TypeOK', SafetyInv', NEW l \in Locks, Holding(l)'
  PROVE  command'[l] \in LockInputs
<1>1. l \in Held'
  BY DEF SafetyInv, HoldersHeld
<1>2. lock_ref'[l] # 0
  BY <1>1, CountedIsRefsCounted, RefSumFacts DEF SafetyInv, Counted
<1>. QED
  BY <1>2 DEF SafetyInv, RefsCounted, TypeOK, TypePointers

\* A step after which every holder was one before, with the same Count, adds no writer.
LEMMA SameHolders ==
  ASSUME TypeOK', SafetyInv', WriterAlone, \A m \in Locks : Keeps(m)
  PROVE  WriterAlone'
<1>. SUFFICES ASSUME NEW l \in Locks, NEW m \in Locks, Holding(l)', Holding(m)',
                     command'[l].count = 0
              PROVE  l = m
  BY DEF WriterAlone
<1>1. command'[l] \in LockInputs
  BY NewHolderHasCommand
<1>2. command'[l] # NIL
  BY <1>1, ConstantsAssumption
<1>. QED
  BY <1>2 DEF Keeps, WriterAlone

\* DoLock admits l: nobody held the key, or neither l nor a holder is a writer.
LEMMA NewHolder ==
  ASSUME TypeOK, TypeOK', SafetyInv, SafetyInv', WriterAlone,
         NEW l \in Locks, NEW c \in LockInputs, DoLock(c), command'[l] = c,
         \A m \in Locks \ {l} : Keeps(m)
  PROVE  WriterAlone'
<1>. USE ConstantsAssumption
<1>1. CASE locked = 0
  <2>1. lock_locked \in [Locks -> 0..MaxReentry] /\ Cardinality(HoldsOf(lock_locked)) = 0
    BY <1>1 DEF SafetyInv, Holds, TypeOK, TypeCounters
  <2>2. \A m \in Locks : ~Holding(m)
    BY <2>1, NoHolds DEF Holding
  <2>. QED
    BY <2>2 DEF Keeps, WriterAlone
<1>2. CASE locked # 0
  <2>1. locked <= command[current_lock].count /\ locked <= c.count
    BY <1>2 DEF DoLock
  <2>2. locked \in Nat
    <3>1. lock_locked \in [Locks -> 0..MaxReentry] /\ l \in Locks /\ 0 \in 0..MaxReentry
      BY DEF TypeOK, TypeCounters
    <3>. QED
      BY <3>1, HoldsUpdate DEF SafetyInv, Holds
  <2>3. c.count # 0
    BY <1>2, <2>1, <2>2 DEF LockCommand
  <2>4. ASSUME NEW m \in Locks, Holding(m) PROVE command[m].count # 0
    <3>1. current_lock \in Locks /\ Holding(current_lock)
      BY <2>4 DEF SafetyInv, HoldersHeld, TypeOK, TypePointers
    <3>2. command[current_lock].count # 0
      BY <1>2, <2>1, <2>2, <3>1, HolderHasCommand DEF LockCommand
    <3>. QED
      BY <2>4, <3>1, <3>2 DEF WriterAlone
  <2>5. ASSUME NEW m \in Locks, Holding(m)' PROVE command'[m].count # 0
    <3>1. CASE m = l
      BY <2>3, <3>1
    <3>2. CASE m # l
      <4>1. command'[m] \in LockInputs
        BY <2>5, NewHolderHasCommand
      <4>2. command'[m] # NIL
        BY <4>1
      <4>. QED
        BY <2>4, <2>5, <3>2, <4>2 DEF Keeps
    <3>. QED
      BY <3>1, <3>2
  <2>. QED
    BY <2>5 DEF WriterAlone
<1>. QED
  BY <1>1, <1>2

\* Objects of Z are freed and the others keep their command.
LEMMA FreeKeeps ==
  ASSUME TypeOK, NEW Z, FreeLock(Z, {}) , NEW m \in Locks,
         lock_locked'[m] = lock_locked[m] \/ lock_locked'[m] = 0
  PROVE  Keeps(m)
BY DEF FreeLock, Keeps, Holding, TypeOK, TypePointers

\* The holder a request is about has the request's LockId, hence its Count.
LEMMA RenewKeeps ==
  ASSUME TypeOK, SafetyInv, CountPerId, NEW c \in LockInputs,
         NEW l \in Locks, l = GetLockedLock(c.id), Renew(l, c), NEW m \in Locks,
         Holding(m)' => Holding(m)
  PROVE  Keeps(m)
<1>1. c.id \in LockIds /\ Holding(l)
  BY ConstantsAssumption, FoundHolds DEF LockCommand
<1>2. command[l] \in LockInputs /\ command[l].id = c.id
  BY <1>1, HolderHasCommand, ConstantsAssumption
     DEF GetLockedLock, SafetyInv, MapsToHolders
<1>3. command[l].count = c.count
  BY <1>2 DEF CountPerId
<1>. QED
  BY <1>3 DEF Renew, Keeps, TypeOK, TypePointers

\* WriterAlone is inductive together with the reference counts.
LEMMA WriterStep ==
  ASSUME LongLeases = FALSE, CountPerId
  PROVE  TypeOK /\ SafetyInv /\ WriterAlone /\ [Next]_vars => WriterAlone'
<1>. SUFFICES ASSUME TypeOK, SafetyInv, WriterAlone, [Next]_vars PROVE WriterAlone'
  OBVIOUS
<1>. USE ConstantsAssumption
<1>0. TypeOK' /\ SafetyInv'
  BY TypeStep, SafetyStep
<1>1. ASSUME UNCHANGED <<command, lock_locked>> PROVE WriterAlone'
  BY <1>1 DEF WriterAlone, Holding
<1>2. ASSUME NEW Z, FreeLock(Z, {}), UNCHANGED lock_locked PROVE WriterAlone'
  BY <1>0, <1>2, FreeKeeps, SameHolders
<1>3. ASSUME NEW c \in LockInputs, LockUpdate(c) \/ LockReenter(c) PROVE WriterAlone'
  <2>1. c.id \in LockIds /\ c.flag # "show" /\ Holder(c) # NIL
    BY <1>3 DEF LockUpdate, LockReenter, LockCommand
  <2>2. PICK l \in Locks : l = Holder(c) /\ l = GetLockedLock(c.id)
    BY <2>1, HolderType DEF Holder
  <2>3. Renew(l, c) /\ Holding(l)
    BY <1>3, <2>1, <2>2, FoundHolds DEF LockUpdate, LockReenter
  <2>4. \A m \in Locks \ {l} : lock_locked'[m] = lock_locked[m]
    BY <1>3, <2>2 DEF LockUpdate, LockReenter, TypeOK, TypeCounters
  <2>5. \A m \in Locks : Holding(m)' => Holding(m)
    BY <2>3, <2>4 DEF Holding
  <2>. QED
    BY <1>0, <2>2, <2>3, <2>5, RenewKeeps, SameHolders
<1>4. ASSUME NEW c \in LockInputs, NEW l \in Locks, LockGrant(c, l) PROVE WriterAlone'
  <2>1. /\ GetOrNewLock(l, c) /\ AddLock(l, c) /\ DoLock(c)
    BY <1>4 DEF LockGrant, Barred
  <2>2. /\ command' = [command EXCEPT ![l] = c]
        /\ lock_locked' = [lock_locked EXCEPT ![l] = 1]
    BY <2>1 DEF GetOrNewLock, AddLock
  <2>3. command'[l] = c /\ \A m \in Locks \ {l} : Keeps(m)
    BY <2>2 DEF Keeps, Holding, TypeOK, TypePointers, TypeCounters
  <2>. QED
    BY <1>0, <2>1, <2>3, NewHolder
<1>5. ASSUME NEW c \in LockInputs, NEW l \in Locks, LockWait(c, l) PROVE WriterAlone'
  <2>1. GetOrNewLock(l, c) /\ UNCHANGED lock_locked
    BY <1>5 DEF LockWait
  <2>2. lock_locked[l] = 0
    BY <2>1, PooledFacts
  <2>3. \A m \in Locks : Keeps(m)
    BY <2>1, <2>2 DEF Keeps, Holding, GetOrNewLock, TypeOK, TypePointers
  <2>. QED
    BY <1>0, <2>3, SameHolders
<1>6. ASSUME NEW u \in UnlockInputs, UnLockOne(u) PROVE WriterAlone'
  <2>1. PICK l \in Locks : l = UnlockTarget(u)
    BY <1>6, HolderType DEF UnLockOne, UnlockCommand, UnlockTarget, TypeOK, TypePointers
  <2>2. /\ lock_locked' = [lock_locked EXCEPT ![l] = @ - 1] /\ UNCHANGED command
        /\ lock_locked[l] > 1
    BY <1>6, <2>1 DEF UnLockOne, OneOfMany, pool_vars
  <2>3. \A m \in Locks : Keeps(m)
    BY <2>2 DEF Keeps, Holding, TypeOK, TypeCounters
  <2>. QED
    BY <1>0, <2>3, SameHolders
<1>7. ASSUME NEW l \in Locks, NEW n \in 0..Len(locks), RemoveLock(l, n), NEW Z, FreeLock(Z, {})
      PROVE  WriterAlone'
  <2>1. \A m \in Locks : lock_locked'[m] = lock_locked[m] \/ lock_locked'[m] = 0
    BY <1>7 DEF RemoveLock, TypeOK, TypeCounters
  <2>. QED
    BY <1>0, <1>7, <2>1, FreeKeeps, SameHolders
<1>8. ASSUME NEW u \in UnlockInputs, NEW l \in Locks, NEW n \in 0..Len(locks), UnLock(u, l, n)
      PROVE  WriterAlone'
  <2>1. exp[l] # "long"
    BY DEF SafetyInv, NoLongLease
  <2>2. RemoveLock(l, n) /\ \E Z : FreeLock(Z, {})
    BY <1>8, <2>1 DEF UnLock
  <2>. QED
    BY <1>7, <2>2
<1>9. ASSUME NEW l \in Locks, NEW n \in 0..Len(locks), DoExpried(l, n) PROVE WriterAlone'
  <2>1. RemoveLock(l, n) /\ \E Z : FreeLock(Z, {})
    BY <1>9 DEF DoExpried
  <2>. QED
    BY <1>7, <2>1
<1>10. ASSUME NEW n \in 0..Len(wait_locks), NEW w \in Locks, WakeGrant(n, w)
       PROVE  WriterAlone'
  <2>1. PICK Z : FreeLock(Z, {})
    BY <1>10 DEF WakeGrant, WakePop
  <2>2. CASE ~command[w].lease
    BY <1>2, <1>10, <2>1, <2>2 DEF WakeGrant
  <2>3. CASE command[w].lease
    <3>1. AddLock(w, command[w]) /\ DoLock(command[w])
      BY <1>10, <2>3 DEF WakeGrant
    <3>2. lock_locked' = [lock_locked EXCEPT ![w] = 1]
      BY <3>1 DEF AddLock
    <3>3. \A m \in Locks \ {w} : Keeps(m)
      BY <2>1, <3>2, FreeKeeps DEF TypeOK, TypeCounters
    <3>4. Holding(w)'
      BY <3>2 DEF Holding, TypeOK, TypeCounters
    <3>5. command'[w] \in LockInputs
      BY <1>0, <3>4, NewHolderHasCommand
    <3>6. command'[w] = command[w] /\ command[w] \in LockInputs
      BY <2>1, <3>5 DEF FreeLock, TypeOK, TypePointers
    <3>. QED
      BY <1>0, <3>1, <3>3, <3>6, NewHolder
  <2>. QED
    BY <2>2, <2>3
<1>11. CASE ClientStep
  <2>1. ASSUME NEW c \in LockInputs, LockShow(c) \/ LockReenterNoLease(c) \/ LockRefuse(c)
                                     \/ LockPass(c)
        PROVE  WriterAlone'
    BY <1>1, <2>1 DEF LockShow, LockReenterNoLease, LockRefuse, LockPass, vars, pool_vars
  <2>2. ASSUME NEW u \in UnlockInputs, UnLockError(u) PROVE WriterAlone'
    BY <1>1, <2>2 DEF UnLockError, vars, pool_vars
  <2>3. ASSUME NEW r, ReadReply(r) PROVE WriterAlone'
    BY <1>1, <2>3 DEF ReadReply, pool_vars
  <2>. QED
    BY <1>3, <1>4, <1>5, <1>6, <1>8, <1>11, <2>1, <2>2, <2>3 DEF ClientStep
<1>12. CASE TimerStep
  <2>1. ASSUME NEW l \in Locks, CheckTimeOutDead(l) \/ DoTimeOutLate(l)
                                \/ CheckExpriedDead(l) \/ DoExpriedLate(l)
        PROVE  WriterAlone'
    <3>1. UNCHANGED lock_locked /\ \E Z : FreeLock(Z, {})
      BY <2>1 DEF CheckTimeOutDead, DoTimeOutLate, CheckExpriedDead, DoExpriedLate,
                  DropTimerRef
    <3>. QED
      BY <1>2, <3>1
  <2>2. ASSUME NEW l \in Locks, CheckTimeOutKeep(l) \/ CheckTimeOutDue(l)
                                \/ CheckExpriedKeep(l) \/ CheckExpriedDue(l)
        PROVE  WriterAlone'
    BY <1>1, <2>2 DEF CheckTimeOutKeep, CheckTimeOutDue, CheckExpriedKeep,
                      CheckExpriedDue, pool_vars
  <2>3. ASSUME NEW l \in Locks, NEW n \in 0..Len(wait_locks), DoTimeOut(l, n)
        PROVE  WriterAlone'
    <3>1. UNCHANGED lock_locked /\ \E Z : FreeLock(Z, {})
      BY <2>3 DEF DoTimeOut
    <3>. QED
      BY <1>2, <3>1
  <2>. QED
    BY <1>9, <1>12, <2>1, <2>2, <2>3 DEF TimerStep
<1>13. CASE WakeStep
  <2>1. ASSUME WakeCheck PROVE WriterAlone'
    BY <1>1, <2>1 DEF WakeCheck, pool_vars
  <2>2. ASSUME NEW n \in 0..Len(wait_locks), WakeDone(n) \/ WakeBlocked(n) PROVE WriterAlone'
    <3>1. UNCHANGED lock_locked /\ \E Z : FreeLock(Z, {})
      BY <2>2 DEF WakeDone, WakeBlocked, WakePop
    <3>. QED
      BY <1>2, <3>1
  <2>. QED
    BY <1>10, <1>13, <2>1, <2>2 DEF WakeStep
<1>14. CASE UNCHANGED vars
  BY <1>1, <1>14 DEF vars, pool_vars
<1>. QED
  BY <1>11, <1>12, <1>13, <1>14 DEF Next

\* A holder with Count = 0 is the only holder, however requests, releases,
\* timeouts, expiries and wake-ups interleave: DoLock looks at the current
\* holder's Count and at the request's, and that is enough.
THEOREM WritersAlone ==
  ASSUME LongLeases = FALSE, CountPerId
  PROVE  Spec => []WriterAlone
<1>1. TypeOK /\ SafetyInv /\ [Next]_vars => SafetyInv'
  BY SafetyStep
<1>2. TypeOK /\ SafetyInv /\ WriterAlone /\ [Next]_vars => WriterAlone'
  BY WriterStep
<1>3. Init => WriterAlone
  BY DEF Init, WriterAlone, Holding
<1>. QED
  BY <1>1, <1>2, <1>3, SafetyInit, TypeCorrect, PTL DEF Spec
-----------------------------------------------------------------------------
(* LockIds                                                                  *)

Active(l) == Holding(l) \/ Waiting(l)

\* No two requests that hold or wait have the same LockId.
IdsDistinct ==
  \A l, m \in Locks : Active(l) /\ Active(m) /\ command[l].id = command[m].id => l = m

\* A holder that is not current_lock is the entry of its LockId in lock_maps.
HolderMapped ==
  \A l \in Locks : Holding(l) => l = current_lock \/ lock_maps[command[l].id] = l

IdInv == IdsDistinct /\ HolderMapped

\* An object that is not freed keeps its LockId.
IdKept(m) == command'[m] = NIL \/ command'[m].id = command[m].id

\* The object of a request that holds or waits is in use.
LEMMA ActiveHasCommand ==
  TypeOK /\ SafetyInv => \A m \in Locks : Active(m) => command[m] \in LockInputs /\ command[m] # NIL
<1>. SUFFICES ASSUME TypeOK, SafetyInv, NEW m \in Locks, Active(m)
              PROVE  command[m] \in LockInputs /\ command[m] # NIL
  OBVIOUS
<1>1. m \in Held \/ m \in Waits
  BY DEF Active, Waiting, SafetyInv, HoldersHeld
<1>2. lock_ref[m] # 0
  BY <1>1, CountedIsRefsCounted, RefSumFacts DEF SafetyInv, Counted
<1>. QED
  BY <1>2, ConstantsAssumption DEF SafetyInv, RefsCounted, TypeOK, TypePointers

\* The same of the state a step leads to.
LEMMA NewActiveHasCommand ==
  (TypeOK /\ SafetyInv)' =>
    (\A m \in Locks : Active(m) => command[m] \in LockInputs /\ command[m] # NIL)'
BY ActiveHasCommand, PTL

\* The requests that hold or wait are among those that did, with their LockIds.
LEMMA KeepDistinct ==
  ASSUME TypeOK', SafetyInv', IdsDistinct,
         \A m \in Locks : Active(m)' => Active(m) /\ IdKept(m)
  PROVE  IdsDistinct'
<1>1. \A m \in Locks : Active(m)' => Active(m) /\ command'[m].id = command[m].id
  BY NewActiveHasCommand DEF IdKept
<1>. QED
  BY <1>1 DEF IdsDistinct

\* A step that leaves the holders as they are.
LEMMA QuietIds ==
  ASSUME TypeOK', SafetyInv', IdInv,
         UNCHANGED <<current_lock, lock_maps>>,
         \A m \in Locks : Holding(m)' <=> Holding(m),
         \A m \in Locks : Waiting(m)' => Waiting(m),
         \A m \in Locks : IdKept(m)
  PROVE  IdInv'
<1>1. IdsDistinct'
  BY KeepDistinct DEF IdInv, Active
<1>2. \A m \in Locks : Holding(m) => command'[m].id = command[m].id
  BY NewActiveHasCommand DEF Active, IdKept
<1>3. HolderMapped'
  BY <1>2 DEF IdInv, HolderMapped
<1>. QED
  BY <1>1, <1>3 DEF IdInv

\* A step that does not touch commands or only frees objects.
LEMMA FreeKeepsIds ==
  ASSUME TypeOK, UNCHANGED command \/ \E Z : FreeLock(Z, {}), NEW m \in Locks
  PROVE  IdKept(m)
BY DEF IdKept, FreeLock, TypeOK, TypePointers

\* l leaves: its entry of lock_maps goes, and nobody else's.
LEMMA LeaveIds ==
  ASSUME TypeOK, TypeOK', SafetyInv, SafetyInv', IdInv,
         NEW l \in Locks, Holding(l), NEW n \in 0..Len(locks),
         RemoveLock(l, n),
         \A m \in Locks : Waiting(m)' <=> Waiting(m),
         \A m \in Locks : IdKept(m)
  PROVE  IdInv'
<1>. USE ConstantsAssumption
<1>1. \A m \in Locks : Holding(m)' <=> Holding(m) /\ m # l
  BY DEF RemoveLock, Holding, TypeOK, TypeCounters
<1>2. IdsDistinct'
  BY <1>1, KeepDistinct DEF IdInv, Active
<1>3. \A m \in Locks : Holding(m) /\ m # l => command'[m].id = command[m].id
  BY <1>1, NewActiveHasCommand DEF Active, IdKept
<1>4. \A m \in Locks : Holding(m) => /\ command[m].id \in LockIds
                                     /\ \A k \in Locks : Holding(k) /\ k # m => command[k].id # command[m].id
  <2>1. \A m \in Locks : Holding(m) => command[m] \in LockInputs
    BY ActiveHasCommand DEF Active
  <2>. QED
    BY <2>1 DEF LockCommand, IdInv, IdsDistinct, Active
<1>5. HolderMapped'
  <2>. SUFFICES ASSUME NEW m \in Locks, Holding(m), m # l, m # current_lock'
                PROVE  lock_maps'[command[m].id] = m
    BY <1>1, <1>3 DEF HolderMapped
  <2>. DEFINE x == IF current_lock # l THEN l ELSE Promoted(l, n)
  <2>1. /\ lock_maps' = IF x = NIL THEN lock_maps ELSE [lock_maps EXCEPT ![command[x].id] = NIL]
        /\ current_lock' = Promoted(l, n)
    BY DEF RemoveLock
  <2>2. m # current_lock
    <3>1. current_lock # l => current_lock' = current_lock
      BY <2>1 DEF Promoted
    <3>. QED
      BY <3>1
  <2>3. lock_maps[command[m].id] = m
    BY <2>2 DEF IdInv, HolderMapped
  <2>4. x # NIL => x \in Locks /\ Holding(x) /\ x # m
    <3>1. CASE current_lock # l
      BY <3>1
    <3>2. CASE current_lock = l
      BY <2>1, <3>2, RemoveFacts
    <3>. QED
      BY <3>1, <3>2
  <2>5. x # NIL => command[x].id # command[m].id
    BY <1>4, <2>4
  <2>. HIDE DEF x
  <2>. QED
    BY <1>4, <2>1, <2>3, <2>5 DEF TypeOK, TypePointers
<1>. QED
  BY <1>2, <1>5 DEF IdInv

\* l enters with a LockId nobody holds or waits with.
LEMMA EnterIds ==
  ASSUME TypeOK, TypeOK', SafetyInv, SafetyInv', IdInv,
         NEW l \in Locks, NEW c \in LockInputs, ~Holding(l),
         AddLock(l, c), command'[l] = c,
         \A m \in Locks \ {l} : (Waiting(m)' => Waiting(m)) /\ IdKept(m),
         \A m \in Locks \ {l} : Active(m) => command[m].id # c.id
  PROVE  IdInv'
<1>. USE ConstantsAssumption
<1>1. \A m \in Locks : Holding(m)' <=> Holding(m) \/ m = l
  BY DEF AddLock, Holding, TypeOK, TypeCounters
<1>2. \A m \in Locks \ {l} : Active(m)' => Active(m) /\ command'[m].id = command[m].id
  BY <1>1, NewActiveHasCommand DEF Active, IdKept
<1>3. IdsDistinct'
  BY <1>2 DEF IdInv, IdsDistinct
<1>4. \A m \in Locks \ {l} : Holding(m) => /\ command'[m].id = command[m].id
                                           /\ command[m].id # c.id
  BY <1>1, <1>2 DEF Active
<1>5. HolderMapped'
  <2>. SUFFICES ASSUME NEW m \in Locks, Holding(m)', m # current_lock'
                PROVE  lock_maps'[command'[m].id] = m
    BY DEF HolderMapped
  <2>0. c.id \in LockIds
    BY DEF LockCommand
  <2>1. CASE current_lock = NIL
    BY <1>1, <2>1 DEF AddLock, SafetyInv, HoldersHeld
  <2>2. CASE current_lock # NIL
    <3>1. lock_maps' = [lock_maps EXCEPT ![c.id] = l] /\ current_lock' = current_lock
      BY <2>2 DEF AddLock
    <3>2. CASE m = l
      BY <2>0, <3>1, <3>2 DEF TypeOK, TypePointers
    <3>3. CASE m # l
      <4>1. lock_maps[command[m].id] = m /\ command'[m].id = command[m].id
            /\ command[m].id # c.id
        BY <1>1, <1>4, <3>1, <3>3 DEF IdInv, HolderMapped
      <4>2. command[m] \in LockInputs
        BY <1>1, <3>3, ActiveHasCommand DEF Active
      <4>. QED
        BY <3>1, <4>1, <4>2 DEF TypeOK, TypePointers, LockCommand
    <3>. QED
      BY <3>2, <3>3
  <2>. QED
    BY <2>1, <2>2
<1>. QED
  BY <1>3, <1>5 DEF IdInv

\* A request that finds no holder has a LockId nobody holds the key with.
LEMMA FreshId ==
  ASSUME TypeOK, SafetyInv, IdInv, NEW c \in LockInputs, Holder(c) = NIL,
         NEW m \in Locks, Holding(m)
  PROVE  command[m].id # c.id
<1>. USE ConstantsAssumption
<1>1. current_lock # NIL
  BY DEF SafetyInv, HoldersHeld
<1>2. locked # 0
  <2>1. lock_locked \in [Locks -> 0..MaxReentry] /\ lock_locked[m] # 0
    BY DEF Holding, TypeOK, TypeCounters
  <2>. QED
    BY <2>1, NoHolds DEF SafetyInv, Holds
<1>3. command[current_lock].id # c.id /\ lock_maps[c.id] = NIL
  BY <1>1, <1>2 DEF Holder, GetLockedLock
<1>. QED
  BY <1>3 DEF IdInv, HolderMapped

\* Requests of clients.
LEMMA ClientIds ==
  ASSUME DistinctWaits = TRUE, TypeOK, TypeOK', SafetyInv, SafetyInv', AnswerInv, IdInv,
         ClientStep
  PROVE  IdInv'
<1>. USE ConstantsAssumption
<1>1. ASSUME NEW c \in LockInputs,
             LockShow(c) \/ LockReenterNoLease(c) \/ LockRefuse(c) \/ LockPass(c)
      PROVE  IdInv'
  <2>1. UNCHANGED <<current_lock, lock_maps, lock_locked, timeouted, command>>
    BY <1>1 DEF LockShow, LockReenterNoLease, LockRefuse, LockPass, vars, manager_vars,
                aof_vars, timer_vars, pool_vars
  <2>2. UNCHANGED wait_locks
    BY <1>1, ResetIsEmpty DEF LockShow, LockReenterNoLease, LockRefuse, LockPass, vars,
                              manager_vars, SafetyInv
  <2>3. \A m \in Locks : IdKept(m) /\ (Waiting(m)' <=> Waiting(m)) /\ (Holding(m)' <=> Holding(m))
    BY <2>1, <2>2 DEF IdKept, Waiting, Waits, Holding
  <2>. QED
    BY <2>1, <2>3, QuietIds
<1>2. ASSUME NEW c \in LockInputs, LockUpdate(c) \/ LockReenter(c) PROVE IdInv'
  <2>1. c.id \in LockIds /\ c.flag # "show" /\ Holder(c) # NIL
    BY <1>2 DEF LockUpdate, LockReenter, LockCommand
  <2>2. PICK l \in Locks : l = Holder(c) /\ l = GetLockedLock(c.id)
    BY <2>1, HolderType DEF Holder
  <2>3. Renew(l, c) /\ Holding(l)
    BY <1>2, <2>1, <2>2, FoundHolds DEF LockUpdate, LockReenter
  <2>4. command[l].id = c.id
    BY <2>1, <2>2 DEF GetLockedLock, SafetyInv, MapsToHolders
  <2>6. command' = [command EXCEPT ![l] = c] /\ UNCHANGED timeouted
    BY <2>3 DEF Renew
  <2>8. UNCHANGED <<current_lock, lock_maps, wait_locks>>
    BY <1>2 DEF LockUpdate, LockReenter, manager_vars
  <2>9. \A m \in Locks : Holding(m)' <=> Holding(m)
    <3>1. \A m \in Locks : lock_locked'[m] = lock_locked[m] \/ (m = l /\ lock_locked'[m] = lock_locked[m] + 1)
      BY <1>2, <2>2 DEF LockUpdate, LockReenter, TypeOK, TypeCounters
    <3>. QED
      BY <2>3, <3>1 DEF Holding, TypeOK, TypeCounters
  <2>10. \A m \in Locks : IdKept(m) /\ (Waiting(m)' <=> Waiting(m))
    BY <2>4, <2>6, <2>8 DEF IdKept, Waiting, Waits, TypeOK, TypePointers
  <2>. QED
    BY <2>8, <2>9, <2>10, QuietIds
<1>3. ASSUME NEW c \in LockInputs, NEW l \in Locks, LockGrant(c, l) PROVE IdInv'
  <2>1. /\ GetOrNewLock(l, c) /\ AddLock(l, c) /\ Holder(c) = NIL
        /\ UNCHANGED <<wait_locks, timeouted>>
    BY <1>3 DEF LockGrant
  <2>2. ~Holding(l)
    BY <2>1, PooledFacts DEF Holding
  <2>3. command' = [command EXCEPT ![l] = c]
    BY <2>1 DEF GetOrNewLock
  <2>4. command'[l] = c /\ \A m \in Locks \ {l} : (Waiting(m)' => Waiting(m)) /\ IdKept(m)
    BY <2>1, <2>3 DEF Waiting, Waits, IdKept, TypeOK, TypePointers
  <2>5. \A m \in Locks : ~Waiting(m)
    <3>1. wait_locks = <<>>
      BY <1>3, LockGrantAnswers
    <3>. QED
      BY <3>1, QueueElements DEF Waiting
  <2>6. \A m \in Locks \ {l} : Active(m) => command[m].id # c.id
    BY <2>1, <2>5, FreshId DEF Active
  <2>. QED
    BY <2>1, <2>2, <2>4, <2>6, EnterIds
<1>4. ASSUME NEW c \in LockInputs, NEW l \in Locks, LockWait(c, l) PROVE IdInv'
  <2>1. /\ GetOrNewLock(l, c) /\ Holder(c) = NIL
        /\ wait_locks' = Append(wait_locks, l)
        /\ timeouted' = [timeouted EXCEPT ![l] = FALSE]
        /\ UNCHANGED <<current_lock, lock_maps, lock_locked>>
    BY <1>4 DEF LockWait, aof_vars
  <2>2. \A m \in Waits : timeouted[m] \/ command[m].id # c.id
    BY <1>4 DEF LockWait, Waits
  <2>3. l \notin Waits /\ ~Holding(l)
    BY <2>1, PooledFacts DEF Holding
  <2>4. Waits' = Waits \cup {l}
    BY <2>1, <2>3, AppendDistinct DEF Waits, SafetyInv, QueuesDistinct, TypeOK, TypePointers
  <2>5. /\ command'[l] = c
        /\ \A m \in Locks \ {l} : /\ command'[m] = command[m]
                                  /\ Waiting(m)' <=> Waiting(m)
    BY <2>1, <2>4 DEF GetOrNewLock, Waiting, TypeOK, TypePointers, TypeFlags
  <2>6. \A m \in Locks : Holding(m)' <=> Holding(m)
    BY <2>1 DEF Holding
  <2>7. \A m \in Locks \ {l} : Active(m) => command[m].id # c.id
    BY <2>1, <2>2, FreshId DEF Active, Waiting
  <2>8. IdsDistinct'
    <3>1. \A m \in Locks \ {l} : Active(m)' => Active(m)
      BY <2>5, <2>6 DEF Active
    <3>. QED
      BY <2>5, <2>7, <3>1 DEF IdInv, IdsDistinct
  <2>9. HolderMapped'
    BY <2>1, <2>3, <2>5, <2>6 DEF IdInv, HolderMapped
  <2>. QED
    BY <2>8, <2>9 DEF IdInv
<1>5. ASSUME NEW u \in UnlockInputs, UnLockError(u) PROVE IdInv'
  <2>1. UNCHANGED <<current_lock, lock_maps, lock_locked, timeouted, command,
                    wait_locks>>
    BY <1>5 DEF UnLockError, vars, manager_vars, aof_vars, timer_vars, pool_vars
  <2>2. \A m \in Locks : IdKept(m) /\ (Waiting(m)' <=> Waiting(m)) /\ (Holding(m)' <=> Holding(m))
    BY <2>1 DEF IdKept, Waiting, Waits, Holding
  <2>. QED
    BY <2>1, <2>2, QuietIds
<1>6. ASSUME NEW u \in UnlockInputs, UnLockOne(u) PROVE IdInv'
  <2>1. PICK l \in Locks : l = UnlockTarget(u)
    BY <1>6, HolderType DEF UnLockOne, UnlockCommand, UnlockTarget, TypeOK, TypePointers
  <2>2. /\ lock_locked' = [lock_locked EXCEPT ![l] = @ - 1] /\ lock_locked[l] > 1
        /\ UNCHANGED <<current_lock, lock_maps, timeouted, command, wait_locks>>
    BY <1>6, <2>1 DEF UnLockOne, OneOfMany, pool_vars, timer_vars, aof_vars
  <2>3. \A m \in Locks : Holding(m)' <=> Holding(m)
    BY <2>2 DEF Holding, TypeOK, TypeCounters
  <2>4. \A m \in Locks : IdKept(m) /\ (Waiting(m)' <=> Waiting(m))
    BY <2>2 DEF IdKept, Waiting, Waits
  <2>. QED
    BY <2>2, <2>3, <2>4, QuietIds
<1>7. ASSUME NEW u \in UnlockInputs, NEW l \in Locks, NEW n \in 0..Len(locks), UnLock(u, l, n)
      PROVE  IdInv'
  <2>1. Holding(l) /\ UNCHANGED <<wait_locks, timeouted>>
    BY <1>7, UnLockAnswers DEF UnLock
  <2>2. exp[l] # "long"
    BY DEF SafetyInv, NoLongLease
  <2>3. RemoveLock(l, n) /\ \E Z : FreeLock(Z, {})
    BY <1>7, <2>2 DEF UnLock
  <2>4. \A m \in Locks : IdKept(m) /\ (Waiting(m)' <=> Waiting(m))
    BY <2>1, <2>3, FreeKeepsIds DEF Waiting, Waits
  <2>. QED
    BY <2>1, <2>3, <2>4, LeaveIds
<1>8. ASSUME NEW r, ReadReply(r) PROVE IdInv'
  <2>1. UNCHANGED <<current_lock, lock_maps, lock_locked, timeouted, command,
                    wait_locks>>
    BY <1>8 DEF ReadReply, manager_vars, aof_vars, timer_vars, pool_vars
  <2>2. \A m \in Locks : IdKept(m) /\ (Waiting(m)' <=> Waiting(m)) /\ (Holding(m)' <=> Holding(m))
    BY <2>1 DEF IdKept, Waiting, Waits, Holding
  <2>. QED
    BY <2>1, <2>2, QuietIds
<1>. QED
  BY <1>1, <1>2, <1>3, <1>4, <1>5, <1>6, <1>7, <1>8 DEF ClientStep

\* Timers.
LEMMA TimerIds ==
  ASSUME TypeOK, TypeOK', SafetyInv, SafetyInv', AnswerInv, IdInv, TimerStep, LongLeases = FALSE
  PROVE  IdInv'
<1>. USE ConstantsAssumption
<1>1. ASSUME NEW l \in Locks, CheckTimeOutKeep(l) \/ CheckTimeOutDue(l)
                              \/ CheckExpriedKeep(l) \/ CheckExpriedDue(l)
      PROVE  IdInv'
  <2>1. UNCHANGED <<current_lock, lock_maps, lock_locked, timeouted, command,
                    wait_locks>>
    BY <1>1 DEF CheckTimeOutKeep, CheckTimeOutDue, CheckExpriedKeep, CheckExpriedDue,
                manager_vars, pool_vars
  <2>2. \A m \in Locks : IdKept(m) /\ (Waiting(m)' <=> Waiting(m)) /\ (Holding(m)' <=> Holding(m))
    BY <2>1 DEF IdKept, Waiting, Waits, Holding
  <2>. QED
    BY <2>1, <2>2, QuietIds
<1>2. ASSUME NEW l \in Locks, CheckTimeOutDead(l) \/ DoTimeOutLate(l)
                              \/ CheckExpriedDead(l) \/ DoExpriedLate(l)
      PROVE  IdInv'
  <2>1. /\ DropTimerRef(l)
        /\ UNCHANGED <<current_lock, lock_maps, lock_locked, timeouted>>
    BY <1>2 DEF CheckTimeOutDead, DoTimeOutLate, CheckExpriedDead, DoExpriedLate, aof_vars
  <2>2. /\ \E Z : FreeLock(Z, {})
        /\ wait_locks' = wait_locks \/ wait_locks' = <<>>
    BY <2>1 DEF DropTimerRef, RemoveLockManager
  <2>3. Waits' \subseteq Waits
    <3>1. Range(<<>>) = {}
      BY DEF Range
    <3>. QED
      BY <2>2, <3>1 DEF Waits
  <2>4. \A m \in Locks : IdKept(m) /\ (Waiting(m)' => Waiting(m)) /\ (Holding(m)' <=> Holding(m))
    BY <2>1, <2>2, <2>3, FreeKeepsIds DEF Waiting, Holding
  <2>. QED
    BY <2>1, <2>4, QuietIds
<1>4. ASSUME NEW l \in Locks, NEW n \in 0..Len(wait_locks), DoTimeOut(l, n) PROVE IdInv'
  <2>1. /\ UNCHANGED <<current_lock, lock_maps, lock_locked>>
        /\ timeouted' = [timeouted EXCEPT ![l] = TRUE] /\ \E Z : FreeLock(Z, {})
    BY <1>4 DEF DoTimeOut, aof_vars
  <2>2. Waits' \subseteq Waits
    <3>1. wait_locks' = SubSeq(wait_locks, n + 1, Len(wait_locks))
      BY <1>4, DoTimeOutAnswers
    <3>2. Range(wait_locks') = Waits \ Popped(wait_locks, n)
      BY <3>1, ScanFacts
    <3>. QED
      BY <3>2 DEF Waits
  <2>3. \A m \in Locks : ~timeouted'[m] => ~timeouted[m]
    BY <2>1 DEF TypeOK, TypeFlags
  <2>4. \A m \in Locks : IdKept(m) /\ (Waiting(m)' => Waiting(m)) /\ (Holding(m)' <=> Holding(m))
    BY <2>1, <2>2, <2>3, FreeKeepsIds DEF Waiting, Holding
  <2>. QED
    BY <2>1, <2>4, QuietIds
<1>5. ASSUME NEW l \in Locks, NEW n \in 0..Len(locks), DoExpried(l, n) PROVE IdInv'
  <2>1. Holding(l) /\ UNCHANGED <<wait_locks, timeouted>>
    BY <1>5, DoExpriedAnswers DEF DoExpried
  <2>2. RemoveLock(l, n) /\ \E Z : FreeLock(Z, {})
    BY <1>5 DEF DoExpried
  <2>3. \A m \in Locks : IdKept(m) /\ (Waiting(m)' <=> Waiting(m))
    BY <2>1, <2>2, FreeKeepsIds DEF Waiting, Waits
  <2>. QED
    BY <2>1, <2>2, <2>3, LeaveIds
<1>. QED
  BY <1>1, <1>2, <1>4, <1>5 DEF TimerStep

\* Waking goroutines.
LEMMA WakeIds ==
  ASSUME TypeOK, TypeOK', SafetyInv, SafetyInv', AnswerInv, IdInv, WakeStep
  PROVE  IdInv'
<1>. USE ConstantsAssumption
<1>1. ASSUME WakeCheck PROVE IdInv'
  <2>1. UNCHANGED <<current_lock, lock_maps, lock_locked, timeouted, command,
                    wait_locks>>
    BY <1>1 DEF WakeCheck, manager_vars, aof_vars, timer_vars, pool_vars
  <2>2. \A m \in Locks : IdKept(m) /\ (Waiting(m)' <=> Waiting(m)) /\ (Holding(m)' <=> Holding(m))
    BY <2>1 DEF IdKept, Waiting, Waits, Holding
  <2>. QED
    BY <2>1, <2>2, QuietIds
<1>2. ASSUME NEW n \in 0..Len(wait_locks), WakeDone(n) \/ WakeBlocked(n) PROVE IdInv'
  <2>1. /\ UNCHANGED <<current_lock, lock_maps, lock_locked, timeouted>>
        /\ \E Z : FreeLock(Z, {})
    BY <1>2 DEF WakeDone, WakeBlocked, WakePop, aof_vars, timer_vars
  <2>2. Waits' \subseteq Waits
    <3>1. wait_locks' = SubSeq(wait_locks, n + 1, Len(wait_locks))
      BY <1>2, WakeIdleAnswers
    <3>2. Range(wait_locks') = Waits \ Popped(wait_locks, n)
      BY <3>1, ScanFacts
    <3>. QED
      BY <3>2 DEF Waits
  <2>3. \A m \in Locks : IdKept(m) /\ (Waiting(m)' => Waiting(m)) /\ (Holding(m)' <=> Holding(m))
    BY <2>1, <2>2, FreeKeepsIds DEF Waiting, Holding
  <2>. QED
    BY <2>1, <2>3, QuietIds
<1>3. ASSUME NEW n \in 0..Len(wait_locks), NEW w \in Locks, WakeGrant(n, w) PROVE IdInv'
  <2>1. /\ timeouted' = [timeouted EXCEPT ![w] = TRUE] /\ \E Z : FreeLock(Z, {})
        /\ wait_locks' = SubSeq(wait_locks, n + 1, Len(wait_locks))
    BY <1>3 DEF WakeGrant, WakePop
  <2>2. Waits' \subseteq Waits
    <3>1. Range(wait_locks') = Waits \ Popped(wait_locks, n)
      BY <2>1, ScanFacts
    <3>. QED
      BY <3>1 DEF Waits
  <2>3. \A m \in Locks : ~timeouted'[m] => ~timeouted[m]
    BY <2>1 DEF TypeOK, TypeFlags
  <2>4. \A m \in Locks : IdKept(m) /\ (Waiting(m)' => Waiting(m))
    BY <2>1, <2>2, <2>3, FreeKeepsIds DEF Waiting
  <2>5. Waiting(w) /\ ~Holding(w)
    <3>1. Waiting(w)
      BY <1>3, WakeGrantAnswers
    <3>. QED
      BY <3>1 DEF SafetyInv, WaitersIdle
  <2>6. CASE ~command[w].lease
    <3>1. UNCHANGED <<current_lock, lock_maps, lock_locked>>
      BY <1>3, <2>6 DEF WakeGrant, aof_vars
    <3>2. \A m \in Locks : Holding(m)' <=> Holding(m)
      BY <3>1 DEF Holding
    <3>. QED
      BY <2>4, <3>1, <3>2, QuietIds
  <2>7. CASE command[w].lease
    <3>1. AddLock(w, command[w])
      BY <1>3, <2>7 DEF WakeGrant
    <3>2. Holding(w)'
      BY <3>1 DEF AddLock, Holding, TypeOK, TypeCounters
    <3>3. command'[w] # NIL
      BY <3>2, NewActiveHasCommand DEF Active
    <3>4. command'[w] = command[w] /\ command[w] \in LockInputs
      BY <2>1, <3>3 DEF FreeLock, TypeOK, TypePointers
    <3>5. \A m \in Locks \ {w} : Active(m) => command[m].id # command[w].id
      BY <2>5 DEF IdInv, IdsDistinct, Active
    <3>. QED
      BY <2>4, <2>5, <3>1, <3>4, <3>5, EnterIds
  <2>. QED
    BY <2>6, <2>7
<1>. QED
  BY <1>1, <1>2, <1>3 DEF WakeStep

\* The two hold together.
LEMMA IdsSafe ==
  ASSUME LongLeases = FALSE, DistinctWaits = TRUE
  PROVE  Spec => []IdInv
<1>1. Init => IdInv
  <2>. SUFFICES ASSUME Init PROVE IdInv
    OBVIOUS
  <2>1. \A l \in Locks : ~Holding(l) /\ ~Waiting(l)
    <3>1. Range(<<>>) = {}
      BY DEF Range
    <3>. QED
      BY <3>1 DEF Init, Holding, Waiting, Waits
  <2>. QED
    BY <2>1 DEF IdInv, IdsDistinct, HolderMapped, Active
<1>2. TypeOK /\ TypeOK' /\ SafetyInv /\ SafetyInv' /\ AnswerInv /\ IdInv /\ [Next]_vars => IdInv'
  <2>. SUFFICES ASSUME TypeOK, TypeOK', SafetyInv, SafetyInv', AnswerInv, IdInv, [Next]_vars
                PROVE  IdInv'
    OBVIOUS
  <2>1. CASE UNCHANGED vars
    <3>1. UNCHANGED <<current_lock, lock_maps, lock_locked, timeouted, command,
                      wait_locks>>
      BY <2>1 DEF vars, manager_vars, aof_vars, timer_vars, pool_vars
    <3>2. \A m \in Locks : IdKept(m) /\ (Waiting(m)' <=> Waiting(m)) /\ (Holding(m)' <=> Holding(m))
      BY <3>1 DEF IdKept, Waiting, Waits, Holding
    <3>. QED
      BY <3>1, <3>2, QuietIds
  <2>. QED
    BY <2>1, ClientIds, TimerIds, WakeIds DEF Next
<1>3. Spec => []SafetyInv /\ []AnswerInv
  BY BookkeepingSafe, AnswersSafe
<1>. QED
  BY <1>1, <1>2, <1>3, TypeCorrect, PTL DEF Spec

\* While clients never queue a second request with a LockId that waits already,
\* the owner of a lock can always unlock it: GetLockedLock leads from its LockId
\* to a lock held with that LockId, through every promotion of current_lock and
\* every expiry of another holder.
THEOREM HoldersReachable ==
  ASSUME LongLeases = FALSE, DistinctWaits = TRUE
  PROVE  Spec => []HolderReachable
<1>1. TypeOK /\ SafetyInv /\ IdInv => HolderReachable
  <2>. SUFFICES ASSUME TypeOK, SafetyInv, IdInv, NEW l \in Locks, Holding(l),
                       NEW m, m = GetLockedLock(command[l].id)
                PROVE  m # NIL /\ Holding(m) /\ command[m].id = command[l].id
    BY DEF HolderReachable
  <2>1. current_lock # NIL /\ Holding(current_lock)
    BY DEF SafetyInv, HoldersHeld
  <2>2. (m = current_lock /\ command[m].id = command[l].id) \/ m = l
    BY DEF GetLockedLock, IdInv, HolderMapped
  <2>. QED
    BY <2>1, <2>2, ConstantsAssumption
<1>2. Spec => []SafetyInv /\ []IdInv
  BY BookkeepingSafe, IdsSafe
<1>. QED
  BY <1>1, <1>2, TypeCorrect, PTL
-----------------------------------------------------------------------------
(* The append only file                                                     *)

\* A command that a holder can have: of a lease, or of a renewal.
Lasting(c) == c.lease \/ c.flag = "update"

\* Nobody reenters, no lease is asked for with Flag 0x01, the positive Counts
\* are one number, and no command is one of the AOF's replay.
PlainLeases ==
  /\ \A c \in LockInputs : Lasting(c) => c.rcount = 0 /\ c.flag # "show" /\ c.aof # "loaded"
  /\ \A c, d \in LockInputs :
       Lasting(c) /\ Lasting(d) /\ c.count # 0 /\ d.count # 0 => c.count = d.count
  /\ \A u \in UnlockInputs : ~u.loaded

\* A holder has one lock and a command it can have; no lease has Flag 0x01.
PlainHolders ==
  \A m \in Locks :
    /\ lock_locked[m] <= 1
    /\ Holding(m) => Lasting(command[m])
    /\ lock_flag[m] = "show" => ~Holding(m) /\ (command[m] # NIL => ~command[m].lease)

\* The holders fit the Count of each of them.
HoldersFit ==
  /\ locked <= MaxLocked
  /\ \A m \in Locks : Holding(m) => locked <= command[m].count + 1

\* The replay has refused nothing and holds the key once for each LockId with a
\* persisted holder, with that holder's Count.
ReplayFollows ==
  /\ ~aof_refused
  /\ aof_locked \in [LockIds -> {0, 1}] /\ aof_count \in [LockIds -> Nat]
  /\ \A m \in Locks : is_aof[m] => /\ aof_locked[command[m].id] = 1
                                   /\ aof_count[command[m].id] = command[m].count
  /\ \A i \in LockIds : aof_locked[i] = 1 => \E m \in Locks : is_aof[m] /\ command[m].id = i

RecordInv == PlainHolders /\ HoldersFit /\ ReplayFollows

\* What the other invariants say of a step.
StepInvs ==
  /\ TypeOK /\ SafetyInv /\ AnswerInv /\ IdInv /\ WriterAlone
  /\ TypeOK' /\ SafetyInv' /\ AnswerInv'

\* m's object is left alone, freed, or taken for a request that does not hold.
Undisturbed(m) ==
  \/ command'[m] = command[m] /\ lock_flag'[m] = lock_flag[m]
  \/ command'[m] = NIL /\ lock_flag'[m] = "none"
  \/ ~Holding(m)' /\ command'[m] \in LockInputs /\ lock_flag'[m] = command'[m].flag

\* No lock is taken: whoever holds did so with the same command.
LEMMA PlainKept ==
  ASSUME PlainLeases, StepInvs, PlainHolders, NEW m \in Locks, Undisturbed(m),
         lock_locked'[m] <= lock_locked[m]
  PROVE  /\ Holding(m)' => Holding(m) /\ command'[m] = command[m]
         /\ lock_locked'[m] <= 1
         /\ Holding(m)' => Lasting(command'[m])
         /\ lock_flag'[m] = "show" => ~Holding(m)' /\ (command'[m] # NIL => ~command'[m].lease)
<1>. USE ConstantsAssumption
<1>1. lock_locked[m] \in Int /\ lock_locked'[m] \in Int
  BY DEF StepInvs, TypeOK, TypeCounters
<1>2. Holding(m)' => Holding(m) /\ command'[m] \in LockInputs
  BY <1>1, NewHolderHasCommand DEF Holding, StepInvs
<1>3. lock_locked'[m] <= 1
  BY <1>1 DEF PlainHolders
<1>4. CASE command'[m] = command[m] /\ lock_flag'[m] = lock_flag[m]
  BY <1>2, <1>3, <1>4 DEF PlainHolders
<1>5. CASE command'[m] = NIL /\ lock_flag'[m] = "none"
  BY <1>2, <1>3, <1>5
<1>6. CASE ~Holding(m)' /\ command'[m] \in LockInputs /\ lock_flag'[m] = command'[m].flag
  BY <1>3, <1>6 DEF PlainLeases, Lasting
<1>. QED
  BY <1>4, <1>5, <1>6 DEF Undisturbed

\* Whoever is marked holds, with a command of a client.
LEMMA MarkedFacts ==
  ASSUME StepInvs
  PROVE  /\ \A m \in Locks : Holding(m) => command[m] \in LockInputs /\ command[m].id \in LockIds
                                           /\ command[m].count \in Nat
         /\ \A m \in Locks : is_aof[m] => Holding(m)
         /\ \A m \in Locks : is_aof'[m] => Holding(m)'
         /\ \A l, m \in Locks : Holding(l) /\ Holding(m) /\ command[l].id = command[m].id => l = m
         /\ locked \in Nat /\ locked' \in Int
<1>1. \A m \in Locks : Holding(m) => command[m] \in LockInputs
  BY HolderHasCommand DEF StepInvs
<1>2. \A m \in Locks : Holding(m) => command[m].id \in LockIds /\ command[m].count \in Nat
  BY <1>1, ConstantsAssumption DEF LockCommand
<1>3. /\ \A m \in Locks : is_aof[m] => Holding(m)
      /\ \A m \in Locks : is_aof'[m] => Holding(m)'
  BY DEF StepInvs, AnswerInv, MarkedHold
<1>4. \A l, m \in Locks : Holding(l) /\ Holding(m) /\ command[l].id = command[m].id => l = m
  BY DEF StepInvs, IdInv, IdsDistinct, Active
<1>5. locked' \in Int
  BY DEF StepInvs, TypeOK, TypeCounters
<1>6. locked \in Nat
  <2>1. lock_locked \in [Locks -> 0..MaxReentry] /\ 0 \in 0..MaxReentry
    BY ConstantsAssumption DEF StepInvs, TypeOK, TypeCounters
  <2>2. CASE Locks = {}
    <3>1. \A m \in Locks : lock_locked[m] = 0
      BY <2>2
    <3>. QED
      BY <2>1, <3>1, HoldsNone DEF StepInvs, SafetyInv, Holds
  <2>3. CASE Locks # {}
    <3>1. PICK m \in Locks : TRUE
      BY <2>3
    <3>. QED
      BY <2>1, <3>1, HoldsUpdate DEF StepInvs, SafetyInv, Holds
  <2>. QED
    BY <2>2, <2>3
<1>. QED
  BY <1>1, <1>2, <1>3, <1>4, <1>5, <1>6

\* A step that takes, releases and persists nothing.
LEMMA QuietRecords ==
  ASSUME PlainLeases, StepInvs, RecordInv, UNCHANGED <<locked, lock_locked, aof_vars>>,
         \A m \in Locks : Undisturbed(m)
  PROVE  RecordInv'
<1>1. \A m \in Locks : lock_locked'[m] <= lock_locked[m]
  BY DEF StepInvs, TypeOK, TypeCounters
<1>2. \A m \in Locks : Holding(m)' => Holding(m) /\ command'[m] = command[m]
  BY <1>1, PlainKept DEF RecordInv
<1>3. PlainHolders'
  BY <1>1, PlainKept DEF RecordInv, PlainHolders
<1>4. HoldersFit'
  BY <1>2 DEF RecordInv, HoldersFit
<1>5. /\ UNCHANGED <<is_aof, aof_locked, aof_count, aof_refused>>
      /\ \A m \in Locks : is_aof[m] => command'[m] = command[m]
  BY <1>2, MarkedFacts DEF aof_vars, replay_vars
<1>6. ReplayFollows'
  BY <1>5 DEF RecordInv, ReplayFollows
<1>. QED
  BY <1>3, <1>4, <1>6 DEF RecordInv

\* l releases its lock.
LEMMA LeaveRecords ==
  ASSUME PlainLeases, StepInvs, RecordInv, NEW l \in Locks, Holding(l),
         NEW n \in 0..Len(locks), RemoveLock(l, n), PersistReleased(l, FALSE),
         locked' = locked - 1, \A m \in Locks : Undisturbed(m)
  PROVE  RecordInv'
<1>0. lock_locked' = [lock_locked EXCEPT ![l] = 0]
  BY DEF RemoveLock
<1>1. \A m \in Locks : lock_locked'[m] <= lock_locked[m]
  BY <1>0 DEF StepInvs, TypeOK, TypeCounters
<1>2. \A m \in Locks : Holding(m)' => Holding(m) /\ command'[m] = command[m]
  BY <1>1, PlainKept DEF RecordInv
<1>3. PlainHolders'
  BY <1>1, PlainKept DEF RecordInv, PlainHolders
<1>4. HoldersFit'
  BY <1>2, MarkedFacts, ConstantsAssumption DEF RecordInv, HoldersFit
<1>5. is_aof' = [is_aof EXCEPT ![l] = FALSE] /\ is_aof \in [Locks -> BOOLEAN]
  BY DEF PersistReleased, StepInvs, TypeOK, TypeFlags
<1>6. \A m \in Locks : is_aof'[m] => is_aof[m] /\ m # l /\ command'[m] = command[m]
  BY <1>2, <1>5, MarkedFacts
<1>7. \A m \in Locks : is_aof[m] /\ m # l =>
        is_aof'[m] /\ command'[m] = command[m] /\ command[m].id # command[l].id
  BY <1>5, <1>6, MarkedFacts
<1>8. CASE ~is_aof[l]
  <2>1. UNCHANGED <<aof_locked, aof_count, aof_refused>>
    BY <1>8 DEF PersistReleased, replay_vars
  <2>2. \A m \in Locks : is_aof[m] => is_aof'[m] /\ command'[m] = command[m]
    BY <1>7, <1>8
  <2>3. ReplayFollows'
    BY <1>6, <2>1, <2>2 DEF RecordInv, ReplayFollows
  <2>. QED
    BY <1>3, <1>4, <2>3 DEF RecordInv
<1>9. CASE is_aof[l]
  <2>. DEFINE i == command[l].id
  <2>1. i \in LockIds /\ aof_locked[i] = 1
    BY <1>9, MarkedFacts DEF RecordInv, ReplayFollows
  <2>2. PushUnLockAof(command[l])
    BY <1>9 DEF PersistReleased
  <2>3. /\ aof_locked' = [aof_locked EXCEPT ![i] = 0]
        /\ aof_count' = [aof_count EXCEPT ![i] = 0]
        /\ ~aof_refused'
    <3>1. ~(aof_locked[i] > 1 /\ command[l].rcount # 0) /\ aof_locked[i] # 0
      BY <2>1
    <3>2. /\ aof_locked' = [aof_locked EXCEPT ![i] = 0]
          /\ aof_count' = [aof_count EXCEPT ![i] = 0]
          /\ aof_refused' <=> aof_refused
      BY <2>2, <3>1 DEF PushUnLockAof
    <3>. QED
      BY <3>2 DEF RecordInv, ReplayFollows
  <2>4. \A m \in Locks : is_aof'[m] => is_aof[m] /\ command'[m] = command[m]
                                       /\ command[m].id # i /\ command[m].id \in LockIds
    BY <1>6, <1>7, MarkedFacts
  <2>. HIDE DEF i
  <2>5. aof_locked' \in [LockIds -> {0, 1}] /\ aof_count' \in [LockIds -> Nat]
    BY <2>3 DEF RecordInv, ReplayFollows
  <2>6. \A m \in Locks : is_aof'[m] => /\ aof_locked'[command'[m].id] = 1
                                       /\ aof_count'[command'[m].id] = command'[m].count
    BY <2>3, <2>4 DEF RecordInv, ReplayFollows
  <2>7. ASSUME NEW j \in LockIds, aof_locked'[j] = 1
        PROVE  \E m \in Locks : is_aof'[m] /\ command'[m].id = j
    <3>1. j # i /\ aof_locked[j] = 1
      BY <2>1, <2>3, <2>7 DEF RecordInv, ReplayFollows
    <3>2. PICK m \in Locks : is_aof[m] /\ command[m].id = j
      BY <3>1 DEF RecordInv, ReplayFollows
    <3>. QED
      BY <1>7, <3>1, <3>2 DEF i
  <2>8. ReplayFollows'
    BY <2>3, <2>5, <2>6, <2>7 DEF ReplayFollows
  <2>. QED
    BY <1>3, <1>4, <2>8 DEF RecordInv
<1>. QED
  BY <1>8, <1>9

\* The replay's holders are at most the ones that hold beside l.
LEMMA ReplayCounted ==
  ASSUME StepInvs, RecordInv, NEW l \in Locks, ~is_aof[l]
  PROVE  /\ Cardinality(ReplayHolds) \in Nat
         /\ Cardinality(ReplayHolds) <= locked - lock_locked[l]
<1>. USE ConstantsAssumption
<1>. DEFINE g == [lock_locked EXCEPT ![l] = 0]
            P == {h \in HoldsOf(g) : is_aof[h[1]]}
            Id(h) == <<command[h[1]].id, 1>>
            I == {Id(h) : h \in P}
<1>1. lock_locked \in [Locks -> 0..MaxReentry] /\ 0 \in 0..MaxReentry
  BY DEF StepInvs, TypeOK, TypeCounters
<1>2. Cardinality(HoldsOf(g)) = locked - lock_locked[l]
  <2>1. locked = Cardinality(HoldsOf(lock_locked))
    BY DEF StepInvs, SafetyInv, Holds
  <2>2. Cardinality(HoldsOf(g)) = Cardinality(HoldsOf(lock_locked)) - lock_locked[l] + 0
    BY <1>1, HoldsUpdate
  <2>3. locked \in Int /\ lock_locked[l] \in Int
    BY DEF StepInvs, TypeOK, TypeCounters
  <2>. QED
    BY <2>1, <2>2, <2>3
<1>3. IsFiniteSet(HoldsOf(g))
  <2>1. IsFiniteSet(Locks \X (1..MaxReentry))
    <3>1. IsFiniteSet(1..MaxReentry)
      BY 1 \in Int, MaxReentry \in Int, FS_Interval
    <3>. QED
      BY <3>1, FS_Product
  <2>2. HoldsOf(g) \in SUBSET (Locks \X (1..MaxReentry))
    BY DEF HoldsOf
  <2>. QED
    BY <2>1, <2>2, FS_Subset
<1>4. IsFiniteSet(P) /\ Cardinality(P) <= Cardinality(HoldsOf(g))
  <2>1. P \in SUBSET HoldsOf(g)
    OBVIOUS
  <2>. QED
    BY <1>3, <2>1, FS_Subset
<1>5. IsFiniteSet(I) /\ Cardinality(I) <= Cardinality(P)
  <2>. DEFINE f == [h \in P |-> Id(h)]
  <2>1. f \in Surjection(P, I)
    BY DEF Surjection
  <2>. HIDE DEF P, I, f
  <2>. QED
    BY <1>4, <2>1, FS_Surjection
<1>6. ReplayHolds \in SUBSET I
  <2>. SUFFICES ASSUME NEW h \in ReplayHolds PROVE h \in I
    OBVIOUS
  <2>1. /\ h[1] \in LockIds /\ h[2] \in 1..MaxReentry /\ h[2] <= aof_locked[h[1]]
        /\ h = <<h[1], h[2]>>
    BY DEF ReplayHolds
  <2>2. aof_locked[h[1]] = 1 /\ h[2] = 1
    BY <2>1 DEF RecordInv, ReplayFollows
  <2>3. PICK m \in Locks : is_aof[m] /\ command[m].id = h[1]
    BY <2>1, <2>2 DEF RecordInv, ReplayFollows
  <2>4. Holding(m) /\ m # l
    BY <2>3, MarkedFacts
  <2>5. g[m] >= 1 /\ 1 \in 1..MaxReentry
    BY <1>1, <2>4 DEF Holding
  <2>6. <<m, 1>> \in P
    BY <2>3, <2>5 DEF HoldsOf
  <2>. QED
    BY <2>1, <2>2, <2>3, <2>6
<1>7. IsFiniteSet(ReplayHolds) /\ Cardinality(ReplayHolds) <= Cardinality(I)
  BY <1>5, <1>6, FS_Subset
<1>8. /\ Cardinality(ReplayHolds) \in Nat /\ Cardinality(I) \in Nat
      /\ Cardinality(P) \in Nat /\ Cardinality(HoldsOf(g)) \in Nat
  BY <1>3, <1>4, <1>5, <1>7, FS_CardinalityType
<1>. HIDE DEF P, I, g
<1>. QED
  BY <1>2, <1>4, <1>5, <1>7, <1>8

\* The replay of a LOCK by l, which is not persisted yet, is admitted: the holders
\* beside l fit c and each other.
LEMMA ReplayGrants ==
  ASSUME StepInvs, RecordInv, NEW l \in Locks, ~is_aof[l], NEW c \in LockInputs,
         NEW k \in Nat, k = locked - lock_locked[l], k < MaxLocked, k # 0 => k <= c.count,
         k # 0 => \A m \in Locks \ {l} : Holding(m) => k <= command[m].count,
         \A m \in Locks \ {l} : Holding(m) => command[m].id # c.id,
         NEW flag \in Flags, flag # "show", PushLockAof(c, flag)
  PROVE  /\ aof_locked' = [aof_locked EXCEPT ![c.id] = 1]
         /\ aof_count' = [aof_count EXCEPT ![c.id] = c.count]
         /\ ~aof_refused'
<1>. USE ConstantsAssumption
<1>. DEFINE n == Cardinality(ReplayHolds)
<1>1. n \in Nat /\ n <= k
  BY ReplayCounted
<1>2. c.id \in LockIds /\ c.count \in Nat
  BY DEF LockCommand
<1>3. aof_locked[c.id] = 0
  <2>1. ASSUME aof_locked[c.id] = 1 PROVE FALSE
    <3>1. PICK m \in Locks : is_aof[m] /\ command[m].id = c.id
      BY <1>2, <2>1 DEF RecordInv, ReplayFollows
    <3>. QED
      BY <3>1, MarkedFacts
  <2>. QED
    BY <1>2, <2>1 DEF RecordInv, ReplayFollows
<1>4. ASSUME n # 0, NEW i \in LockIds, aof_locked[i] > 0 PROVE n <= aof_count[i]
  <2>1. aof_locked[i] = 1
    BY <1>4 DEF RecordInv, ReplayFollows
  <2>2. PICK m \in Locks : is_aof[m] /\ command[m].id = i
    BY <2>1 DEF RecordInv, ReplayFollows
  <2>3. Holding(m) /\ m # l /\ aof_count[i] = command[m].count /\ command[m].count \in Nat
    BY <2>2, MarkedFacts DEF RecordInv, ReplayFollows
  <2>. QED
    BY <1>1, <1>4, <2>3
<1>5. ReplayAdmits(c)
  BY <1>1, <1>2, <1>4 DEF ReplayAdmits
<1>. DEFINE taken == (flag = "show" => ReplayHolds = {}) /\ ReplayAdmits(c)
<1>7. taken
  BY <1>5
<1>8. /\ aof_locked' = [aof_locked EXCEPT ![c.id] = IF taken THEN 0 + 1 ELSE 0]
      /\ aof_count' = [aof_count EXCEPT ![c.id] = IF taken THEN c.count ELSE @]
      /\ aof_refused' <=> aof_refused \/ ~taken
  BY <1>3 DEF PushLockAof
<1>. HIDE DEF taken
<1>. QED
  BY <1>7, <1>8 DEF RecordInv, ReplayFollows

\* l is now persisted, with LockId and Count of c; the others stay as they are.
LEMMA FollowsGrant ==
  ASSUME RecordInv, NEW l \in Locks, NEW c \in LockInputs, command'[l] = c,
         is_aof' = [is_aof EXCEPT ![l] = TRUE], is_aof \in [Locks -> BOOLEAN],
         aof_locked' = [aof_locked EXCEPT ![c.id] = 1],
         aof_count' = [aof_count EXCEPT ![c.id] = c.count], ~aof_refused',
         \A m \in Locks \ {l} : is_aof[m] => /\ command'[m] = command[m]
                                             /\ command[m].id # c.id /\ command[m].id \in LockIds,
         ~is_aof[l]
  PROVE  ReplayFollows'
<1>1. c.id \in LockIds /\ c.count \in Nat
  BY ConstantsAssumption DEF LockCommand
<1>2. aof_locked' \in [LockIds -> {0, 1}] /\ aof_count' \in [LockIds -> Nat]
  BY <1>1 DEF RecordInv, ReplayFollows
<1>3. ASSUME NEW m \in Locks, is_aof'[m]
      PROVE  aof_locked'[command'[m].id] = 1 /\ aof_count'[command'[m].id] = command'[m].count
  <2>1. CASE m = l
    BY <1>1, <2>1 DEF RecordInv, ReplayFollows
  <2>2. CASE m # l
    <3>1. is_aof[m]
      BY <1>3, <2>2
    <3>2. command'[m] = command[m] /\ command[m].id # c.id /\ command[m].id \in LockIds
      BY <2>2, <3>1
    <3>3. /\ aof_locked[command[m].id] = 1
          /\ aof_count[command[m].id] = command[m].count
      BY <3>1 DEF RecordInv, ReplayFollows
    <3>. QED
      BY <3>2, <3>3 DEF RecordInv, ReplayFollows
  <2>. QED
    BY <2>1, <2>2
<1>4. ASSUME NEW i \in LockIds, aof_locked'[i] = 1
      PROVE  \E m \in Locks : is_aof'[m] /\ command'[m].id = i
  <2>1. CASE i = c.id
    BY <2>1
  <2>2. CASE i # c.id
    <3>1. aof_locked[i] = 1
      BY <1>4, <2>2 DEF RecordInv, ReplayFollows
    <3>2. PICK m \in Locks : is_aof[m] /\ command[m].id = i
      BY <3>1 DEF RecordInv, ReplayFollows
    <3>. QED
      BY <3>2
  <2>. QED
    BY <2>1, <2>2
<1>. QED
  BY <1>2, <1>3, <1>4 DEF ReplayFollows

\* A request that DoLock admits fits the holders, and they fit it.
LEMMA EnterFits ==
  ASSUME PlainLeases, StepInvs, RecordInv, NEW l \in Locks, NEW c \in LockInputs, c.lease,
         ~Holding(l), DoLock(c), NEW m \in Locks, Holding(m)
  PROVE  locked # 0 /\ locked <= command[m].count
<1>. USE ConstantsAssumption
<1>1. locked # 0
  <2>1. lock_locked \in [Locks -> 0..MaxReentry] /\ lock_locked[m] # 0
    BY DEF Holding, StepInvs, TypeOK, TypeCounters
  <2>. QED
    BY <2>1, NoHolds DEF StepInvs, SafetyInv, Holds
<1>2. locked <= c.count /\ locked <= command[current_lock].count
  BY <1>1 DEF DoLock
<1>3. current_lock \in Locks /\ Holding(current_lock)
  BY DEF StepInvs, SafetyInv, HoldersHeld, TypeOK, TypePointers
<1>4. locked \in Nat /\ c.count \in Nat /\ command[m] \in LockInputs /\ command[m].count \in Nat
      /\ command[current_lock].count \in Nat
  BY <1>3, MarkedFacts DEF LockCommand
<1>5. c.count # 0 /\ command[m].count # 0
  BY <1>1, <1>2, <1>3, <1>4 DEF StepInvs, WriterAlone
<1>6. Lasting(c) /\ Lasting(command[m])
  BY DEF Lasting, RecordInv, PlainHolders
<1>7. command[m].count = c.count
  BY <1>4, <1>5, <1>6 DEF PlainLeases
<1>. QED
  BY <1>1, <1>2, <1>7

\* l is granted.
LEMMA EnterRecords ==
  ASSUME PlainLeases, StepInvs, RecordInv, NEW l \in Locks, NEW c \in LockInputs, c.lease,
         ~Holding(l), DoLock(c), AddLock(l, c), PersistGranted(l, c), locked' = locked + 1,
         command'[l] = c, lock_flag'[l] # "show",
         \A m \in Locks \ {l} : Undisturbed(m),
         \A m \in Locks \ {l} : Holding(m) => command[m].id # c.id
  PROVE  RecordInv'
<1>. USE ConstantsAssumption
<1>1. /\ lock_locked' = [lock_locked EXCEPT ![l] = 1]
      /\ lock_locked \in [Locks -> 0..MaxReentry] /\ lock_locked[l] = 0
  BY DEF AddLock, Holding, StepInvs, TypeOK, TypeCounters
<1>2. \A m \in Locks \ {l} : lock_locked'[m] <= lock_locked[m]
  BY <1>1
<1>3. \A m \in Locks \ {l} : Holding(m)' => Holding(m) /\ command'[m] = command[m]
  BY <1>2, PlainKept DEF RecordInv
<1>4. Lasting(c) /\ c.flag # "show" /\ c.aof # "loaded"
  BY DEF PlainLeases, Lasting
<1>5. PlainHolders'
  <2>1. \A m \in Locks \ {l} :
          /\ lock_locked'[m] <= 1
          /\ Holding(m)' => Lasting(command'[m])
          /\ lock_flag'[m] = "show" => ~Holding(m)' /\ (command'[m] # NIL => ~command'[m].lease)
    BY <1>2, PlainKept DEF RecordInv
  <2>2. lock_locked'[l] <= 1 /\ Lasting(command'[l])
    BY <1>1, <1>4
  <2>. QED
    BY <2>1, <2>2 DEF PlainHolders
<1>6. locked \in Nat /\ c.count \in Nat
  BY MarkedFacts DEF LockCommand
<1>7. locked # 0 => locked # MaxLocked /\ locked <= c.count
  BY DEF DoLock
<1>8. HoldersFit'
  <2>1. locked' <= MaxLocked
    BY <1>6, <1>7 DEF RecordInv, HoldersFit
  <2>2. ASSUME NEW m \in Locks, Holding(m)' PROVE locked' <= command'[m].count + 1
    <3>1. CASE m = l
      BY <1>6, <1>7, <3>1
    <3>2. CASE m # l
      <4>1. locked <= command[m].count /\ command[m].count \in Nat /\ command'[m] = command[m]
        BY <1>3, <2>2, <3>2, EnterFits, MarkedFacts
      <4>. QED
        BY <1>6, <4>1
    <3>. QED
      BY <3>1, <3>2
  <2>. QED
    BY <2>1, <2>2 DEF HoldersFit
<1>9. is_aof \in [Locks -> BOOLEAN] /\ ~is_aof[l]
  BY MarkedFacts DEF StepInvs, TypeOK, TypeFlags
<1>10. \A m \in Locks \ {l} : is_aof[m] =>
         /\ command'[m] = command[m] /\ command[m].id # c.id /\ command[m].id \in LockIds
  <2>1. \A m \in Locks \ {l} : Holding(m) => Holding(m)'
    BY <1>1 DEF Holding
  <2>. QED
    BY <1>3, <2>1, MarkedFacts
<1>11. CASE c.aof = "now"
  <2>1. is_aof' = [is_aof EXCEPT ![l] = TRUE] /\ PushLockAof(c, c.flag)
    BY <1>11 DEF PersistGranted
  <2>2. /\ aof_locked' = [aof_locked EXCEPT ![c.id] = 1]
        /\ aof_count' = [aof_count EXCEPT ![c.id] = c.count]
        /\ ~aof_refused'
    <3>1. locked = locked - lock_locked[l] /\ locked < MaxLocked
      BY <1>1, <1>6, <1>7 DEF RecordInv, HoldersFit
    <3>2. c.flag \in Flags
      BY DEF LockCommand
    <3>3. \A m \in Locks \ {l} : Holding(m) => locked <= command[m].count
      BY EnterFits
    <3>. QED
      BY <1>4, <1>6, <1>7, <1>9, <2>1, <3>1, <3>2, <3>3, ReplayGrants
  <2>3. ReplayFollows'
    BY <1>9, <1>10, <2>1, <2>2, FollowsGrant
  <2>. QED
    BY <1>5, <1>8, <2>3 DEF RecordInv
<1>12. CASE c.aof # "now"
  <2>1. UNCHANGED <<is_aof, aof_locked, aof_count, aof_refused>>
    BY <1>4, <1>9, <1>12 DEF PersistGranted, replay_vars
  <2>2. \A m \in Locks : is_aof[m] => command'[m] = command[m]
    BY <1>9, <1>10
  <2>3. ReplayFollows'
    BY <2>1, <2>2 DEF RecordInv, ReplayFollows
  <2>. QED
    BY <1>5, <1>8, <2>3 DEF RecordInv
<1>. QED
  BY <1>11, <1>12

\* The holder l renews its lease: the record of a persisted lock is refused by the
\* replay, or sets the Count the LockId has anyway.
LEMMA RenewRecords ==
  ASSUME PlainLeases, CountPerId, LongLeases = FALSE, StepInvs, RecordInv,
         NEW c \in LockInputs, Lasting(c), NEW l \in Locks, l = GetLockedLock(c.id),
         Renew(l, c), UNCHANGED <<locked, lock_locked>>
  PROVE  RecordInv'
<1>. USE ConstantsAssumption
<1>1. Holding(l) /\ command[l].id = c.id /\ c.id \in LockIds
  <2>1. c.id \in LockIds
    BY DEF LockCommand
  <2>2. Holding(l)
    BY <2>1, FoundHolds DEF StepInvs
  <2>3. command[l].id = c.id
    BY <2>1 DEF GetLockedLock, StepInvs, SafetyInv, MapsToHolders
  <2>. QED
    BY <2>1, <2>2, <2>3
<1>2. command[l] \in LockInputs /\ command[l].count = c.count
  <2>1. command[l] \in LockInputs
    BY <1>1, MarkedFacts
  <2>. QED
    BY <1>1, <2>1 DEF CountPerId
<1>3. /\ command' = [command EXCEPT ![l] = c] /\ UNCHANGED lock_flag
      /\ command \in [Locks -> LockInputs \cup {NIL}]
      /\ is_aof \in [Locks -> BOOLEAN]
  BY DEF Renew, StepInvs, TypeOK, TypePointers, TypeFlags
<1>4. command'[l] = c /\ \A m \in Locks \ {l} : command'[m] = command[m]
  BY <1>3
<1>5. \A m \in Locks : Holding(m)' <=> Holding(m)
  BY DEF Holding
<1>6. PlainHolders'
  <2>1. lock_flag[l] # "show"
    BY <1>1 DEF RecordInv, PlainHolders
  <2>. QED
    BY <1>3, <1>4, <1>5, <2>1 DEF RecordInv, PlainHolders
<1>7. HoldersFit'
  BY <1>2, <1>4, <1>5 DEF RecordInv, HoldersFit
<1>8. exp[l] # "long"
  BY DEF StepInvs, SafetyInv, NoLongLease
<1>9. /\ is_aof' = [is_aof EXCEPT ![l] = is_aof[l]]
      /\ is_aof[l] => PushLockAof(c, lock_flag[l])
      /\ ~is_aof[l] => UNCHANGED replay_vars
  <2>1. CASE is_aof[l]
    BY <1>3, <1>8, <2>1, Zenon DEF Renew
  <2>2. CASE ~is_aof[l]
    BY <1>3, <1>8, <2>2, Zenon DEF Renew
  <2>. QED
    BY <2>1, <2>2
<1>10. is_aof' = is_aof
  BY <1>3, <1>9
<1>11. UNCHANGED <<aof_locked, aof_count, aof_refused>>
  <2>1. CASE ~is_aof[l]
    BY <1>9, <2>1 DEF replay_vars
  <2>2. CASE is_aof[l]
    <3>1. aof_locked[c.id] = 1 /\ aof_count[c.id] = c.count
      BY <1>1, <1>2, <2>2 DEF RecordInv, ReplayFollows
    <3>2. c.rcount = 0 /\ lock_flag[l] # "show"
      BY <1>1 DEF PlainLeases, RecordInv, PlainHolders
    <3>3. PushLockAof(c, lock_flag[l])
      BY <1>9, <2>2
    <3>4. ~(aof_locked[c.id] < MaxReentry /\ aof_locked[c.id] <= c.rcount)
      BY <3>1, <3>2
    <3>5. /\ aof_locked' = [aof_locked EXCEPT ![c.id] = aof_locked[c.id]]
          /\ aof_count' = [aof_count EXCEPT ![c.id] = aof_count[c.id]]
          /\ aof_refused' <=> aof_refused
      <4>. DEFINE n == aof_locked[c.id]
                  again == lock_flag[l] = "update" \/ (n < MaxReentry /\ n <= c.rcount)
      <4>1. n # 0 /\ ~(again /\ (n = 0 \/ lock_flag[l] # "update"))
        BY <3>1, <3>4
      <4>2. /\ aof_locked' = [aof_locked EXCEPT ![c.id] = n]
            /\ aof_count' = [aof_count EXCEPT ![c.id] = IF again THEN c.count ELSE aof_count[c.id]]
            /\ aof_refused' = (aof_refused \/ FALSE)
        BY <3>2, <3>3, <4>1, Zenon DEF PushLockAof
      <4>. QED
        BY <3>1, <4>2
    <3>6. aof_locked' = aof_locked /\ aof_count' = aof_count
      BY <3>5 DEF RecordInv, ReplayFollows
    <3>. QED
      BY <3>3, <3>5, <3>6
  <2>. QED
    BY <2>1, <2>2
<1>12. ReplayFollows'
  BY <1>1, <1>2, <1>4, <1>10, <1>11 DEF RecordInv, ReplayFollows
<1>. QED
  BY <1>6, <1>7, <1>12 DEF RecordInv

\* A lease older than aof_time is persisted.
LEMMA KeepRecords ==
  ASSUME PlainLeases, LongLeases = FALSE, StepInvs, RecordInv, NEW l \in Locks,
         CheckExpriedKeep(l)
  PROVE  RecordInv'
<1>. USE ConstantsAssumption
<1>1. UNCHANGED <<locked, lock_locked, command, lock_flag>>
  BY DEF CheckExpriedKeep, manager_vars, pool_vars
<1>2. /\ ~is_aof[l] /\ is_aof' = [is_aof EXCEPT ![l] = TRUE]
      /\ PushLockAof(command[l], lock_flag[l])
  BY DEF CheckExpriedKeep
<1>3. Holding(l)
  BY DEF CheckExpriedKeep, StepInvs, SafetyInv, HoldersHeld
<1>4. PlainHolders' /\ HoldersFit'
  BY <1>1 DEF RecordInv, PlainHolders, HoldersFit, Holding
<1>5. command[l] \in LockInputs /\ command'[l] = command[l] /\ lock_locked[l] = 1
  BY <1>1, <1>3, MarkedFacts DEF RecordInv, PlainHolders, Holding, StepInvs, TypeOK, TypeCounters
<1>6. lock_flag[l] \in Flags /\ lock_flag[l] # "show" /\ is_aof \in [Locks -> BOOLEAN]
  BY <1>3 DEF RecordInv, PlainHolders, StepInvs, TypeOK, TypeFlags
<1>7. locked \in Nat /\ locked # 0
  <2>1. lock_locked \in [Locks -> 0..MaxReentry] /\ lock_locked[l] # 0
    BY <1>5 DEF StepInvs, TypeOK, TypeCounters
  <2>. QED
    BY <2>1, NoHolds, MarkedFacts DEF StepInvs, SafetyInv, Holds
<1>. DEFINE k == locked - 1
<1>8. k \in Nat /\ k = locked - lock_locked[l] /\ k < MaxLocked
  BY <1>5, <1>7 DEF RecordInv, HoldersFit
<1>9. \A m \in Locks : Holding(m) => k <= command[m].count
  BY <1>7, MarkedFacts DEF RecordInv, HoldersFit
<1>10. \A m \in Locks \ {l} : Holding(m) => command[m].id # command[l].id /\ command[m].id \in LockIds
  BY <1>3, MarkedFacts
<1>. HIDE DEF k
<1>11. /\ aof_locked' = [aof_locked EXCEPT ![command[l].id] = 1]
       /\ aof_count' = [aof_count EXCEPT ![command[l].id] = command[l].count]
       /\ ~aof_refused'
  BY <1>2, <1>3, <1>5, <1>6, <1>8, <1>9, <1>10, ReplayGrants
<1>12. ReplayFollows'
  BY <1>1, <1>2, <1>5, <1>6, <1>10, <1>11, MarkedFacts, FollowsGrant
<1>. QED
  BY <1>4, <1>12 DEF RecordInv

\* Freeing objects disturbs nobody.
LEMMA FreeDisturbsNone ==
  ASSUME StepInvs, UNCHANGED <<command, lock_flag>> \/ \E Z : FreeLock(Z, {}), NEW m \in Locks
  PROVE  Undisturbed(m)
BY DEF FreeLock, Undisturbed, StepInvs, TypeOK, TypePointers, TypeFlags

\* Requests of clients.
LEMMA ClientRecords ==
  ASSUME LongLeases = FALSE, CountPerId, PlainLeases, StepInvs, RecordInv, ClientStep
  PROVE  RecordInv'
<1>. USE ConstantsAssumption
<1>1. ASSUME UNCHANGED <<locked, lock_locked, aof_vars, command, lock_flag>> PROVE RecordInv'
  BY <1>1, FreeDisturbsNone, QuietRecords
<1>2. ASSUME NEW c \in LockInputs, LockShow(c) \/ LockReenterNoLease(c) \/ LockRefuse(c)
                                   \/ LockPass(c)
      PROVE  RecordInv'
  BY <1>1, <1>2 DEF LockShow, LockReenterNoLease, LockRefuse, LockPass, vars, pool_vars,
                    manager_vars
<1>3. ASSUME NEW c \in LockInputs, LockUpdate(c) PROVE RecordInv'
  <2>1. c.id \in LockIds /\ c.flag = "update" /\ Holder(c) # NIL
    BY <1>3 DEF LockUpdate, LockCommand
  <2>2. PICK l \in Locks : l = Holder(c) /\ l = GetLockedLock(c.id)
    BY <2>1, HolderType DEF Holder, StepInvs
  <2>3. Renew(l, c) /\ UNCHANGED <<locked, lock_locked>> /\ Lasting(c)
    BY <1>3, <2>1, <2>2 DEF LockUpdate, manager_vars, Lasting
  <2>. QED
    BY <2>2, <2>3, RenewRecords
<1>4. ASSUME NEW c \in LockInputs, LockReenter(c) PROVE FALSE
  <2>1. /\ c.id \in LockIds /\ c.flag = "none" /\ Holder(c) # NIL /\ c.lease
        /\ lock_locked[Holder(c)] <= c.rcount
    BY <1>4 DEF LockReenter, LockCommand, CanReenter
  <2>2. PICK l \in Locks : l = Holder(c) /\ l = GetLockedLock(c.id)
    BY <2>1, HolderType DEF Holder, StepInvs
  <2>3. Holding(l) /\ c.rcount = 0
    BY <2>1, <2>2, FoundHolds DEF StepInvs, PlainLeases, Lasting
  <2>4. lock_locked[l] \in Int
    BY DEF StepInvs, TypeOK, TypeCounters
  <2>. QED
    BY <2>1, <2>2, <2>3, <2>4 DEF Holding
<1>5. ASSUME NEW c \in LockInputs, NEW l \in Locks, LockGrant(c, l) PROVE RecordInv'
  <2>1. /\ GetOrNewLock(l, c) /\ AddLock(l, c) /\ DoLock(c) /\ c.lease
        /\ PersistGranted(l, c) /\ locked' = locked + 1 /\ Holder(c) = NIL
    BY <1>5 DEF LockGrant, Barred
  <2>2. /\ command' = [command EXCEPT ![l] = c]
        /\ lock_flag' = [lock_flag EXCEPT ![l] = c.flag]
    BY <2>1 DEF GetOrNewLock
  <2>3. command'[l] = c /\ lock_flag'[l] = c.flag /\ \A m \in Locks \ {l} : Undisturbed(m)
    BY <2>2 DEF Undisturbed, StepInvs, TypeOK, TypePointers, TypeFlags
  <2>4. ~Holding(l)
    BY <2>1, PooledFacts DEF StepInvs, Holding
  <2>5. \A m \in Locks \ {l} : Holding(m) => command[m].id # c.id
    BY <2>1, FreshId DEF StepInvs
  <2>6. c.flag # "show"
    BY <2>1 DEF PlainLeases, Lasting
  <2>. QED
    BY <2>1, <2>3, <2>4, <2>5, <2>6, EnterRecords
<1>6. ASSUME NEW c \in LockInputs, NEW l \in Locks, LockWait(c, l) PROVE RecordInv'
  <2>1. GetOrNewLock(l, c) /\ UNCHANGED <<locked, lock_locked, aof_vars>>
    BY <1>6 DEF LockWait
  <2>2. lock_locked[l] = 0
    BY <2>1, PooledFacts DEF StepInvs
  <2>3. \A m \in Locks : Undisturbed(m)
    BY <2>1, <2>2 DEF Undisturbed, Holding, GetOrNewLock, StepInvs, TypeOK, TypePointers, TypeFlags
  <2>. QED
    BY <2>1, <2>3, QuietRecords
<1>7. ASSUME NEW u \in UnlockInputs, UnLockOne(u) PROVE FALSE
  <2>1. PICK l \in Locks : l = UnlockTarget(u)
    BY <1>7, HolderType DEF UnLockOne, UnlockCommand, UnlockTarget, StepInvs, TypeOK, TypePointers
  <2>2. lock_locked[l] > 1
    BY <1>7, <2>1 DEF UnLockOne, OneOfMany
  <2>3. lock_locked[l] <= 1 /\ lock_locked[l] \in Int
    BY DEF RecordInv, PlainHolders, StepInvs, TypeOK, TypeCounters
  <2>. QED
    BY <2>2, <2>3
<1>8. ASSUME NEW u \in UnlockInputs, NEW l \in Locks, NEW n \in 0..Len(locks), UnLock(u, l, n)
      PROVE  RecordInv'
  <2>1. Holding(l)
    BY <1>8, UnLockAnswers DEF StepInvs
  <2>2. exp[l] # "long"
    BY DEF StepInvs, SafetyInv, NoLongLease
  <2>3. /\ RemoveLock(l, n) /\ \E Z : FreeLock(Z, {})
        /\ locked' = locked - ReleasedLocks(l) /\ PersistReleased(l, u.loaded)
    BY <1>8, <2>2 DEF UnLock
  <2>4. u.loaded = FALSE /\ ReleasedLocks(l) = 1
    <3>1. u.loaded \in BOOLEAN /\ ~u.loaded
      BY DEF UnlockCommand, PlainLeases
    <3>2. lock_locked[l] <= 1 /\ lock_locked[l] \in Int
      BY DEF RecordInv, PlainHolders, StepInvs, TypeOK, TypeCounters
    <3>. QED
      BY <3>1, <3>2 DEF ReleasedLocks
  <2>5. \A m \in Locks : Undisturbed(m)
    BY <2>3, FreeDisturbsNone
  <2>. QED
    BY <2>1, <2>3, <2>4, <2>5, LeaveRecords
<1>9. ASSUME NEW u \in UnlockInputs, UnLockError(u) PROVE RecordInv'
  BY <1>1, <1>9 DEF UnLockError, vars, manager_vars, pool_vars
<1>10. ASSUME NEW r, ReadReply(r) PROVE RecordInv'
  BY <1>1, <1>10 DEF ReadReply, manager_vars, pool_vars
<1>. QED
  BY <1>2, <1>3, <1>4, <1>5, <1>6, <1>7, <1>8, <1>9, <1>10 DEF ClientStep

\* Timers.
LEMMA TimerRecords ==
  ASSUME LongLeases = FALSE, PlainLeases, StepInvs, RecordInv, TimerStep
  PROVE  RecordInv'
<1>. USE ConstantsAssumption
<1>1. ASSUME NEW l \in Locks, CheckTimeOutKeep(l) \/ CheckTimeOutDue(l) \/ CheckExpriedDue(l)
      PROVE  RecordInv'
  <2>1. UNCHANGED <<locked, lock_locked, aof_vars, command, lock_flag>>
    BY <1>1 DEF CheckTimeOutKeep, CheckTimeOutDue, CheckExpriedDue, manager_vars, pool_vars
  <2>. QED
    BY <2>1, FreeDisturbsNone, QuietRecords
<1>2. ASSUME NEW l \in Locks, CheckTimeOutDead(l) \/ DoTimeOutLate(l)
                              \/ CheckExpriedDead(l) \/ DoExpriedLate(l)
      PROVE  RecordInv'
  <2>1. UNCHANGED <<locked, lock_locked, aof_vars>> /\ \E Z : FreeLock(Z, {})
    BY <1>2 DEF CheckTimeOutDead, DoTimeOutLate, CheckExpriedDead, DoExpriedLate, DropTimerRef
  <2>. QED
    BY <2>1, FreeDisturbsNone, QuietRecords
<1>3. ASSUME NEW l \in Locks, NEW n \in 0..Len(wait_locks), DoTimeOut(l, n) PROVE RecordInv'
  <2>1. UNCHANGED <<locked, lock_locked, aof_vars>> /\ \E Z : FreeLock(Z, {})
    BY <1>3 DEF DoTimeOut
  <2>. QED
    BY <2>1, FreeDisturbsNone, QuietRecords
<1>4. ASSUME NEW l \in Locks, NEW n \in 0..Len(locks), DoExpried(l, n) PROVE RecordInv'
  <2>1. Holding(l)
    BY <1>4, DoExpriedAnswers DEF StepInvs
  <2>2. /\ RemoveLock(l, n) /\ \E Z : FreeLock(Z, {})
        /\ locked' = locked - lock_locked[l] /\ PersistReleased(l, FALSE)
    BY <1>4 DEF DoExpried
  <2>3. lock_locked[l] = 1
    BY <2>1 DEF RecordInv, PlainHolders, Holding, StepInvs, TypeOK, TypeCounters
  <2>4. \A m \in Locks : Undisturbed(m)
    BY <2>2, FreeDisturbsNone
  <2>. QED
    BY <2>1, <2>2, <2>3, <2>4, LeaveRecords
<1>. QED
  BY <1>1, <1>2, <1>3, <1>4, KeepRecords DEF TimerStep

\* Waking goroutines.
LEMMA WakeRecords ==
  ASSUME PlainLeases, StepInvs, RecordInv, WakeStep
  PROVE  RecordInv'
<1>. USE ConstantsAssumption
<1>1. ASSUME WakeCheck PROVE RecordInv'
  <2>1. UNCHANGED <<locked, lock_locked, aof_vars, command, lock_flag>>
    BY <1>1 DEF WakeCheck, manager_vars, pool_vars
  <2>. QED
    BY <2>1, FreeDisturbsNone, QuietRecords
<1>2. ASSUME NEW n \in 0..Len(wait_locks), WakeDone(n) \/ WakeBlocked(n) PROVE RecordInv'
  <2>1. UNCHANGED <<locked, lock_locked, aof_vars>> /\ \E Z : FreeLock(Z, {})
    BY <1>2 DEF WakeDone, WakeBlocked, WakePop
  <2>. QED
    BY <2>1, FreeDisturbsNone, QuietRecords
<1>3. ASSUME NEW n \in 0..Len(wait_locks), NEW w \in Locks, WakeGrant(n, w) PROVE RecordInv'
  <2>1. PICK Z : FreeLock(Z, {})
    BY <1>3 DEF WakeGrant, WakePop
  <2>2. \A m \in Locks : Undisturbed(m)
    BY <2>1, FreeDisturbsNone
  <2>3. CASE ~command[w].lease
    <3>1. UNCHANGED <<locked, lock_locked, aof_vars>>
      BY <1>3, <2>3 DEF WakeGrant
    <3>. QED
      BY <2>2, <3>1, QuietRecords
  <2>4. CASE command[w].lease
    <3>1. /\ AddLock(w, command[w]) /\ DoLock(command[w]) /\ PersistGranted(w, command[w])
          /\ locked' = locked + 1
      BY <1>3, <2>4 DEF WakeGrant
    <3>2. Waiting(w) /\ ~Holding(w)
      <4>1. Waiting(w)
        BY <1>3, WakeGrantAnswers DEF StepInvs
      <4>. QED
        BY <4>1 DEF StepInvs, SafetyInv, WaitersIdle
    <3>3. command[w] \in LockInputs
      BY <3>2, ActiveHasCommand DEF Active, StepInvs
    <3>4. Holding(w)'
      BY <3>1 DEF AddLock, Holding, StepInvs, TypeOK, TypeCounters
    <3>5. command'[w] # NIL
      BY <3>4, NewHolderHasCommand DEF StepInvs
    <3>6. command'[w] = command[w] /\ lock_flag'[w] = lock_flag[w]
      BY <2>1, <3>5 DEF FreeLock, StepInvs, TypeOK, TypePointers, TypeFlags
    <3>7. lock_flag'[w] # "show"
      BY <2>4, <3>3, <3>6 DEF RecordInv, PlainHolders
    <3>8. \A m \in Locks \ {w} : Holding(m) => command[m].id # command[w].id
      BY <3>2 DEF StepInvs, IdInv, IdsDistinct, Active
    <3>. QED
      BY <2>2, <2>4, <3>1, <3>2, <3>3, <3>6, <3>7, <3>8, EnterRecords
  <2>. QED
    BY <2>3, <2>4
<1>. QED
  BY <1>1, <1>2, <1>3 DEF WakeStep

\* The replay's locks of a LockId are those of its persisted holder.
LEMMA RecordsMatch ==
  ASSUME StepInvs, RecordInv
  PROVE  AofMatchesHolders
<1>. USE ConstantsAssumption
<1>. SUFFICES ASSUME NEW i \in LockIds
              PROVE  aof_locked[i] =
                       Cardinality({h \in Holds : is_aof[h[1]] /\ command[h[1]].id = i})
  BY DEF AofMatchesHolders, RecordInv, ReplayFollows
<1>. DEFINE H == {h \in Holds : is_aof[h[1]] /\ command[h[1]].id = i}
<1>1. \A h \in H : /\ h[1] \in Locks /\ is_aof[h[1]] /\ command[h[1]].id = i
                   /\ h = <<h[1], 1>>
  <2>. SUFFICES ASSUME NEW h \in H PROVE h[1] \in Locks /\ h = <<h[1], 1>>
    OBVIOUS
  <2>1. h[1] \in Locks /\ h[2] \in 1..MaxReentry /\ h[2] <= lock_locked[h[1]] /\ h = <<h[1], h[2]>>
    BY DEF Holds, HoldsOf
  <2>2. lock_locked[h[1]] <= 1 /\ lock_locked[h[1]] \in Int
    BY <2>1 DEF RecordInv, PlainHolders, StepInvs, TypeOK, TypeCounters
  <2>. QED
    BY <2>1, <2>2
<1>2. CASE aof_locked[i] = 0
  <2>1. H = {}
    <3>. SUFFICES ASSUME NEW h \in H PROVE FALSE
      OBVIOUS
    <3>. QED
      BY <1>1, <1>2 DEF RecordInv, ReplayFollows
  <2>. QED
    BY <1>2, <2>1, FS_EmptySet
<1>3. CASE aof_locked[i] = 1
  <2>1. PICK m \in Locks : is_aof[m] /\ command[m].id = i
    BY <1>3 DEF RecordInv, ReplayFollows
  <2>2. Holding(m) /\ lock_locked[m] \in Int
    BY <2>1, MarkedFacts DEF StepInvs, TypeOK, TypeCounters
  <2>3. <<m, 1>> \in H
    <3>1. 1 \in 1..MaxReentry /\ 1 <= lock_locked[m]
      BY <2>2 DEF Holding
    <3>. QED
      BY <2>1, <3>1 DEF Holds, HoldsOf
  <2>4. \A h \in H : h[1] = m
    <3>. SUFFICES ASSUME NEW h \in H PROVE h[1] = m
      OBVIOUS
    <3>1. h[1] \in Locks /\ Holding(h[1]) /\ command[h[1]].id = i
      BY <1>1, MarkedFacts
    <3>. QED
      BY <2>1, <2>2, <3>1, MarkedFacts
  <2>5. H = {<<m, 1>>}
    <3>1. \A h \in H : h = <<m, 1>>
      BY <1>1, <2>4
    <3>. HIDE DEF H
    <3>. QED
      BY <2>3, <3>1
  <2>. QED
    BY <1>3, <2>5, FS_Singleton
<1>. QED
  BY <1>2, <1>3 DEF RecordInv, ReplayFollows

\* While no client reenters or queues two requests with one LockId, a replay of the
\* records pushed to the append only file refuses none of them and comes to exactly
\* the persisted holders: although locks are persisted at once or only when they
\* are older than aof_time, in another order than they were granted in, although
\* each renewal pushes a further LOCK, and whoever releases first.
THEOREM RecordsMatchHolders ==
  ASSUME LongLeases = FALSE, DistinctWaits = TRUE, CountPerId, PlainLeases
  PROVE  Spec => []AofMatchesHolders
<1>1. Init => RecordInv
  <2>. SUFFICES ASSUME Init PROVE RecordInv
    OBVIOUS
  <2>1. \A m \in Locks : lock_locked[m] = 0 /\ lock_flag[m] = "none" /\ ~is_aof[m]
    BY DEF Init
  <2>2. /\ aof_locked = [i \in LockIds |-> 0] /\ aof_count = [i \in LockIds |-> 0]
        /\ ~aof_refused /\ locked = 0
    BY DEF Init
  <2>3. PlainHolders /\ HoldersFit /\ ReplayFollows
    BY <2>1, <2>2, ConstantsAssumption DEF PlainHolders, HoldersFit, ReplayFollows, Holding
  <2>. QED
    BY <2>3 DEF RecordInv
<1>2. StepInvs /\ RecordInv /\ [Next]_vars => RecordInv'
  <2>. SUFFICES ASSUME StepInvs, RecordInv, [Next]_vars PROVE RecordInv'
    OBVIOUS
  <2>1. CASE UNCHANGED vars
    <3>1. UNCHANGED <<locked, lock_locked, aof_vars, command, lock_flag>>
      BY <2>1 DEF vars, manager_vars, pool_vars
    <3>. QED
      BY <3>1, FreeDisturbsNone, QuietRecords
  <2>. QED
    BY <2>1, ClientRecords, TimerRecords, WakeRecords DEF Next
<1>3. StepInvs <=> /\ TypeOK /\ SafetyInv /\ AnswerInv /\ IdInv /\ WriterAlone
                   /\ TypeOK' /\ SafetyInv' /\ AnswerInv'
  BY DEF StepInvs
<1>4. StepInvs /\ RecordInv => AofMatchesHolders
  BY RecordsMatch
<1>5. Spec => []SafetyInv /\ []AnswerInv /\ []IdInv /\ []WriterAlone
  BY BookkeepingSafe, AnswersSafe, IdsSafe, WritersAlone
<1>. QED
  BY <1>1, <1>2, <1>3, <1>4, <1>5, TypeCorrect, PTL DEF Spec
=============================================================================
