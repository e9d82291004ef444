------------------------------- MODULE LockDB -------------------------------
(***************************************************************************)
(* The lock manager of one key of the slock server: LockManager and Lock   *)
(* (server/lock.go) under the operations of LockDB (server/db.go).         *)
(*                                                                         *)
(* Every critical section of the manager's mutex glock is one action; what *)
(* the code does after glock.Unlock() with a pointer it read before is an  *)
(* action of its own.  Lock objects are pooled and reference counted by    *)
(* hand, so a Lock is an element of Locks with its fields as functions.    *)
(* Time is abstracted: a timer entry may become due, be queued again, or   *)
(* move to the long queues whenever its goroutine looks at it.             *)
(***************************************************************************)
EXTENDS Integers, Sequences, FiniteSets, Functions

CONSTANTS Locks,         \* the Lock objects of the pool free_locks
          LockIds,       \* the LockId values clients use
          LockInputs,    \* the LOCK commands clients may send
          UnlockInputs,  \* the UNLOCK commands clients may send
          MaxLocked,     \* 0xffff, the limit of LockManager.locked in DoLock
          MaxReentry,    \* 0xff, the limit of Lock.locked
          MaxWakers,     \* bound: goroutines inside WakeUpWaitLocks at once
          DistinctWaits, \* clients never queue two requests with one LockId
          LongTimeouts,  \* requests may wait long enough for the long queues
          LongLeases,    \* leases may last long enough for the long queues
          NIL

\* Flag 0x01 of a LOCK is "show", 0x02 is "update".
Flags == {"none", "show", "update"}

\* A LOCK command as far as the lock manager looks at it: wait is Timeout > 0,
\* lease is Expried > 0, aof is when the lock is persisted (ExpriedFlag bits
\* 0x0100, 0x0200 and the configured aof_time), "loaded" a command of the AOF's
\* replay (bits 0x1200).
LockCommand == [id : LockIds, wait : BOOLEAN, lease : BOOLEAN,
                count : Nat, rcount : Nat,
                aof : {"now", "later", "never", "loaded"},
                flag : Flags]

\* An UNLOCK command: first is Flag 0x01, loaded is ExpriedFlag bit 0x1000.
UnlockCommand == [id : LockIds, rcount : Nat, first : BOOLEAN, loaded : BOOLEAN]

ASSUME ConstantsAssumption ==
  /\ IsFiniteSet(Locks) /\ NIL \notin Locks
  /\ LockInputs \subseteq LockCommand /\ NIL \notin LockInputs
  /\ UnlockInputs \subseteq UnlockCommand
  /\ MaxLocked \in Nat \ {0} /\ MaxReentry \in Nat \ {0} /\ MaxWakers \in Nat
  /\ DistinctWaits \in BOOLEAN /\ LongTimeouts \in BOOLEAN /\ LongLeases \in BOOLEAN

VARIABLES
  \* LockManager
  current_lock, locks, lock_maps, wait_locks, waited, locked, ref_count, freed,
  \* Lock; tmo and exp are the timer container an object is in: the wheel or
  \* the millisecond queue ("short"), the long queue ("long", which is
  \* long_wait_index > 0), or the list a timer goroutine has collected ("doing")
  command, lock_flag, lock_ref, lock_locked, timeouted, expried, is_aof, tmo, exp,
  free_locks,            \* how often each object is in the pool
  reply,                 \* the last result sent for an object's request
  \* goroutines between two critical sections
  wake_check, wake_loop, \* in WakeUpWaitLocks: before its test, in its loop
  reading,               \* replies that read the manager or a Lock unlocked
  panicked,              \* a nil pointer was dereferenced
  \* what a replay of the records pushed so far comes to
  aof_locked,            \* Lock.locked of the LockIds it holds the key with
  aof_count,             \* their Count
  aof_refused            \* it met a LOCK it did not admit or an UNLOCK of nobody

manager_vars == <<current_lock, locks, lock_maps, wait_locks, waited, locked,
                  ref_count, freed>>
timer_vars == <<timeouted, expried, tmo, exp>>
pool_vars == <<command, lock_flag, lock_ref, free_locks>>
replay_vars == <<aof_locked, aof_count, aof_refused>>
aof_vars == <<is_aof, replay_vars>>
wake_vars == <<wake_check, wake_loop>>
vars == <<manager_vars, timer_vars, pool_vars, aof_vars, wake_vars,
          lock_locked, reply, reading, panicked>>

TimerPlaces == {"none", "short", "long", "doing"}

Init ==
  /\ current_lock = NIL /\ locks = <<>> /\ wait_locks = <<>>
  /\ lock_maps = [i \in LockIds |-> NIL]
  /\ waited = FALSE /\ locked = 0 /\ ref_count = 0 /\ freed = TRUE
  /\ command = [l \in Locks |-> NIL]
  /\ lock_flag = [l \in Locks |-> "none"]
  /\ lock_ref = [l \in Locks |-> 0]
  /\ lock_locked = [l \in Locks |-> 0]
  /\ timeouted = [l \in Locks |-> FALSE]
  /\ expried = [l \in Locks |-> FALSE]
  /\ is_aof = [l \in Locks |-> FALSE]
  /\ tmo = [l \in Locks |-> "none"]
  /\ exp = [l \in Locks |-> "none"]
  /\ free_locks = [l \in Locks |-> 1]
  /\ reply = [l \in Locks |-> "TIMEOUT"]
  /\ wake_check = 0 /\ wake_loop = 0
  /\ reading = {} /\ panicked = FALSE
  /\ aof_locked = [i \in LockIds |-> 0]
  /\ aof_count = [i \in LockIds |-> 0]
  /\ aof_refused = FALSE

-----------------------------------------------------------------------------
(* Helpers of lock.go                                                      *)

\* The Lock a LockId holds the key with, or NIL; current_lock is dereferenced.
GetLockedLock(id) ==
  IF command[current_lock].id = id THEN current_lock ELSE lock_maps[id]

\* Slip: the limit of the current holder is not looked at.
DoLock_RequestOnly(c) == locked # 0 => locked # MaxLocked /\ locked <= c.count

\* DoLock: whether the key can be locked once more, for command c.
DoLock(c) ==
  locked # 0 =>
    /\ locked # MaxLocked
    /\ locked <= command[current_lock].count
    /\ locked <= c.count

\* The n leading entries of a queue are the ones its scan pops as dead.
DeadPrefix(q, n, dead) ==
  /\ n \in 0..Len(q)
  /\ \A i \in 1..n : q[i] \in dead
  /\ n < Len(q) => q[n + 1] \notin dead

Popped(q, n) == {q[i] : i \in 1..n}

\* FreeLock for every object of Z, and a second time for those of again.
FreeLock(Z, again) ==
  /\ command' = [l \in Locks |-> IF l \in Z THEN NIL ELSE command[l]]
  /\ lock_flag' = [l \in Locks |-> IF l \in Z THEN "none" ELSE lock_flag[l]]
  /\ free_locks' = [l \in Locks |-> free_locks[l] + (IF l \in Z THEN 1 ELSE 0)
                                                  + (IF l \in again THEN 1 ELSE 0)]
  /\ ref_count' = ref_count - Cardinality(Z) - Cardinality(again)

\* Slip: the manager is never removed.
RemoveLockManager_Never(gone, new_locks, new_wait_locks) ==
  /\ UNCHANGED freed
  /\ locks' = new_locks /\ wait_locks' = new_wait_locks

\* RemoveLockManager resets both queues of a manager nobody refers to.
RemoveLockManager(gone, new_locks, new_wait_locks) ==
  /\ freed' = (freed \/ gone)
  /\ locks' = IF gone THEN <<>> ELSE new_locks
  /\ wait_locks' = IF gone THEN <<>> ELSE new_wait_locks

\* The timer entry of l is dropped: ref_count--, and at zero the object and
\* then the manager are recycled.
DropTimerRef(l) ==
  LET last == lock_ref[l] = 1
  IN  /\ lock_ref' = [lock_ref EXCEPT ![l] = @ - 1]
      /\ FreeLock(IF last THEN {l} ELSE {}, {})
      /\ RemoveLockManager(last /\ ref_count' = 0, locks, wait_locks)

\* GetOrNewLock: an object of the pool is initialised for command c.
GetOrNewLock(l, c) ==
  /\ free_locks[l] > 0
  /\ free_locks' = [free_locks EXCEPT ![l] = @ - 1]
  /\ command' = [command EXCEPT ![l] = c]
  /\ lock_flag' = [lock_flag EXCEPT ![l] = c.flag]
  /\ ref_count' = ref_count + 1
  /\ freed' = FALSE

ReplayHolds == {h \in LockIds \X (1..MaxReentry) : h[2] <= aof_locked[h[1]]}

\* DoLock of the replay.  It asks the replay's current_lock; which one that is
\* is not followed here, so every holder has to agree.
ReplayAdmits(c) ==
  LET n == Cardinality(ReplayHolds)
  IN  n # 0 => /\ n # MaxLocked /\ n <= c.count
               /\ \A i \in LockIds : aof_locked[i] > 0 => n <= aof_count[i]

\* PushLockAof: a LOCK with the object's command c and Flag.  Its replay locks the
\* key for a new LockId; for one that holds it already it is a renewal (Flag 0x02),
\* a reentry, or refused with LOCKED_ERROR.  Flag 0x01 on a held key only asks.
PushLockAof(c, flag) ==
  LET n == aof_locked[c.id]
      again == flag = "update" \/ (n < MaxReentry /\ n <= c.rcount)
      taken == /\ flag = "show" => ReplayHolds = {}
               /\ IF n = 0 THEN ReplayAdmits(c) ELSE again
      more == taken /\ (n = 0 \/ flag # "update")
  IN  /\ aof_locked' = [aof_locked EXCEPT ![c.id] = IF more THEN n + 1 ELSE n]
      /\ aof_count' = [aof_count EXCEPT ![c.id] = IF taken THEN c.count ELSE @]
      /\ aof_refused' = (aof_refused \/ (n = 0 /\ ~taken))

\* PushUnLockAof: an UNLOCK with the object's command c.  Its replay takes one
\* lock back when the LockId has several and Rcount # 0, else all of them.
PushUnLockAof(c) ==
  LET n == aof_locked[c.id]
      one == n > 1 /\ c.rcount # 0
  IN  /\ aof_locked' = [aof_locked EXCEPT ![c.id] = IF one THEN n - 1 ELSE 0]
      /\ aof_count' = [aof_count EXCEPT ![c.id] = IF one THEN @ ELSE 0]
      /\ aof_refused' = (aof_refused \/ n = 0)

\* AddExpried with expried_checked_count = 1, the wheel, or the millisecond
\* queue: a lock to be persisted at once is pushed to the AOF channel.  A lock
\* loaded from the AOF is marked by AddLock and pushes nothing.
PersistGranted(l, c) ==
  /\ is_aof' = [is_aof EXCEPT ![l] = @ \/ c.aof \in {"now", "loaded"}]
  /\ IF c.aof = "now" THEN PushLockAof(c, c.flag) ELSE UNCHANGED replay_vars

\* Slip: a lock that is not current_lock is not entered in lock_maps.
AddLock_Unmapped(l, c) ==
  /\ lock_locked' = [lock_locked EXCEPT ![l] = 1]
  /\ current_lock' = IF current_lock = NIL THEN l ELSE current_lock
  /\ locks' = IF current_lock = NIL THEN locks ELSE Append(locks, l)
  /\ UNCHANGED lock_maps

\* AddLock: l becomes current_lock or is queued behind it.
AddLock(l, c) ==
  /\ lock_locked' = [lock_locked EXCEPT ![l] = 1]
  /\ IF current_lock = NIL
     THEN current_lock' = l /\ UNCHANGED <<locks, lock_maps>>
     ELSE /\ locks' = Append(locks, l)
          /\ lock_maps' = [lock_maps EXCEPT ![c.id] = l]
          /\ UNCHANGED current_lock

\* Slip: no other holder takes the place of current_lock.
Promoted_None(l, n) == IF current_lock # l THEN current_lock ELSE NIL

\* RemoveLock: l stops holding; n entries of locks are popped as dead, and the
\* next one is promoted when l was current_lock.
Promoted(l, n) ==
  IF current_lock # l THEN current_lock
  ELSE IF n < Len(locks) THEN locks[n + 1] ELSE NIL

LocksAfterRemove(l, n) ==
  IF n = Len(locks) THEN <<>>
  ELSE SubSeq(locks, (IF current_lock = l THEN n + 2 ELSE n + 1), Len(locks))

RemoveLock(l, n) ==
  /\ DeadPrefix(locks, n, {m \in Locks : lock_locked[m] = 0} \cup {l})
  /\ lock_locked' = [lock_locked EXCEPT ![l] = 0]
  /\ current_lock' = Promoted(l, n)
  /\ lock_maps' = LET m == IF current_lock # l THEN l ELSE Promoted(l, n)
                  IN  IF m = NIL THEN lock_maps
                      ELSE [lock_maps EXCEPT ![command[m].id] = NIL]

\* Slip: the record is pushed but is_aof stays set.
PersistReleased_StillMarked(l, loaded) ==
  /\ UNCHANGED is_aof
  /\ IF is_aof[l] /\ ~loaded THEN PushUnLockAof(command[l]) ELSE UNCHANGED replay_vars

\* Slip: no record is pushed.
PersistReleased_NoRecord(l, loaded) ==
  is_aof' = [is_aof EXCEPT ![l] = FALSE] /\ UNCHANGED replay_vars

\* A lock marked is_aof is released: an UNLOCK is pushed, unless the release is
\* itself one of the AOF's replay.
PersistReleased(l, loaded) ==
  /\ is_aof' = [is_aof EXCEPT ![l] = FALSE]
  /\ IF is_aof[l] /\ ~loaded THEN PushUnLockAof(command[l]) ELSE UNCHANGED replay_vars

-----------------------------------------------------------------------------
(* LockDB.Lock                                                             *)

\* The key is held and the request is about a holder: the manager's first one
\* (Flag 0x01) or the one with the request's LockId.
Holder(c) == IF locked = 0 THEN NIL
             ELSE IF c.flag = "show" THEN current_lock ELSE GetLockedLock(c.id)

\* UpdateLockedLock: the holder's command takes the new values but for its Flag,
\* and a persisted lock is pushed once more.  A lock in the long queue is taken
\* out and added again, to the wheel or (ExpriedFlag bit 0x2000 keeps the check
\* count) to the long queue; elsewhere its entry stays.
Renew(l, c) ==
  LET again == exp[l] = "long"
  IN  /\ command' = [command EXCEPT ![l] = c]
      /\ \E place \in IF again THEN {"short", "long"} ELSE {exp[l]} :
           LET push == is_aof[l] \/ (again /\ place = "short" /\ c.aof = "now")
           IN  /\ exp' = [exp EXCEPT ![l] = place]
               /\ is_aof' = [is_aof EXCEPT ![l] = push]
               /\ IF push THEN PushLockAof(c, lock_flag[l]) ELSE UNCHANGED replay_vars
      /\ expried' = [expried EXCEPT ![l] = @ /\ ~again]
      /\ UNCHANGED <<lock_flag, lock_ref, free_locks, timeouted, tmo>>

\* Flag 0x01 on a held key: the reply is built after glock is released.
LockShow(c) ==
  /\ c.flag = "show" /\ Holder(c) # NIL
  /\ reading' = reading \cup {NIL}
  /\ UNCHANGED <<manager_vars, timer_vars, pool_vars, aof_vars, wake_vars,
                 lock_locked, reply, panicked>>

\* Flag 0x02: the holder's lease is renewed, the reply is built unlocked.
LockUpdate(c) ==
  /\ c.flag = "update" /\ Holder(c) # NIL
  /\ Renew(Holder(c), c)
  /\ reading' = reading \cup {Holder(c)}
  /\ UNCHANGED <<manager_vars, wake_vars, lock_locked, reply, panicked>>

\* Slip: the 8 bit counter of the holder's locks is not guarded.
CanReenter_Unlimited(l, c) == lock_locked[l] <= c.rcount

CanReenter(l, c) == lock_locked[l] < MaxReentry /\ lock_locked[l] <= c.rcount

\* The holder locks once more and renews its lease.
LockReenter(c) ==
  /\ c.flag = "none" /\ Holder(c) # NIL
  /\ CanReenter(Holder(c), c) /\ c.lease
  /\ locked' = locked + 1
  /\ lock_locked' = [lock_locked EXCEPT ![Holder(c)] = @ + 1]
  /\ Renew(Holder(c), c)
  /\ UNCHANGED <<current_lock, locks, lock_maps, wait_locks, waited, ref_count,
                 freed, wake_vars, reply, reading, panicked>>

\* ... with Expried = 0 it changes nothing, and the reply is built unlocked.
LockReenterNoLease(c) ==
  /\ c.flag = "none" /\ Holder(c) # NIL
  /\ CanReenter(Holder(c), c) /\ ~c.lease
  /\ reading' = reading \cup {Holder(c)}
  /\ UNCHANGED <<manager_vars, timer_vars, pool_vars, aof_vars, wake_vars,
                 lock_locked, reply, panicked>>

\* ... or is refused with LOCKED_ERROR.
LockRefuse(c) ==
  /\ c.flag = "none" /\ Holder(c) # NIL
  /\ ~CanReenter(Holder(c), c)
  /\ UNCHANGED vars

\* Slip: a request does not queue behind waiting ones.
Barred_Barging(c) == ~DoLock(c)

Barred(c) == waited \/ ~DoLock(c)

\* The request is granted at once; its object gets the holder's and the expiry
\* timer's reference.
LockGrant(c, l) ==
  /\ Holder(c) = NIL /\ ~Barred(c) /\ c.lease
  /\ GetOrNewLock(l, c)
  /\ AddLock(l, c)
  /\ locked' = locked + 1
  /\ expried' = [expried EXCEPT ![l] = FALSE]
  /\ exp' = [exp EXCEPT ![l] = "short"]
  /\ PersistGranted(l, c)
  /\ lock_ref' = [lock_ref EXCEPT ![l] = @ + 2]
  /\ reply' = [reply EXCEPT ![l] = "SUCCED"]
  /\ UNCHANGED <<wait_locks, waited, timeouted, tmo, wake_vars, reading, panicked>>

\* The request waits; its object gets the queue's and the timeout timer's
\* reference.
LockWait(c, l) ==
  /\ Holder(c) = NIL /\ Barred(c) /\ c.wait
  /\ DistinctWaits => \A m \in Range(wait_locks) :
                         timeouted[m] \/ command[m].id # c.id
  /\ GetOrNewLock(l, c)
  /\ wait_locks' = Append(wait_locks, l)
  /\ waited' = TRUE
  /\ timeouted' = [timeouted EXCEPT ![l] = FALSE]
  /\ tmo' = [tmo EXCEPT ![l] = "short"]
  /\ lock_ref' = [lock_ref EXCEPT ![l] = @ + 2]
  /\ reply' = [reply EXCEPT ![l] = "none"]
  /\ UNCHANGED <<current_lock, locks, lock_maps, locked, expried, exp, aof_vars,
                 wake_vars, lock_locked, reading, panicked>>

\* A request with nothing to keep is answered at once, SUCCED (admitted, no
\* lease) or TIMEOUT (barred, no wait): its object goes back to the pool, and
\* with no other reference the manager does too.
LockPass(c) ==
  /\ Holder(c) = NIL
  /\ IF Barred(c) THEN ~c.wait ELSE ~c.lease
  /\ RemoveLockManager(ref_count = 0, locks, wait_locks)
  /\ UNCHANGED <<current_lock, lock_maps, waited, locked, ref_count, timer_vars,
                 pool_vars, aof_vars, wake_vars, lock_locked, reply, reading,
                 panicked>>

\* The unlocked part of a reply: current_lock (Flag 0x01) or the holder's
\* command is dereferenced.
ReadReply(r) ==
  /\ r \in reading
  /\ reading' = reading \ {r}
  /\ panicked' = IF r = NIL THEN current_lock = NIL ELSE command[r] = NIL
  /\ UNCHANGED <<manager_vars, timer_vars, pool_vars, aof_vars, wake_vars,
                 lock_locked, reply>>

-----------------------------------------------------------------------------
(* LockDB.UnLock                                                           *)

\* The lock an UNLOCK is for: the holder with its LockId or, with Flag 0x01,
\* the manager's first one.
UnlockTarget(u) ==
  IF locked = 0 THEN NIL
  ELSE IF GetLockedLock(u.id) = NIL /\ u.first THEN current_lock
  ELSE GetLockedLock(u.id)

\* Flag 0x01 replaces the request's Rcount by the holder's.
UnlockRcount(u) ==
  IF GetLockedLock(u.id) = NIL THEN command[current_lock].rcount ELSE u.rcount

\* One of several locks of a reentrant holder is released.
OneOfMany(u, l) == lock_locked[l] > 1 /\ UnlockRcount(u) # 0

\* UNLOCK_ERROR or UNOWN_ERROR.
UnLockError(u) == UnlockTarget(u) = NIL /\ UNCHANGED vars

UnLockOne(u) ==
  /\ UnlockTarget(u) # NIL /\ OneOfMany(u, UnlockTarget(u))
  /\ wake_check + wake_loop < MaxWakers
  /\ locked' = locked - 1
  /\ lock_locked' = [lock_locked EXCEPT ![UnlockTarget(u)] = @ - 1]
  /\ wake_check' = wake_check + 1
  /\ UNCHANGED <<current_lock, locks, lock_maps, wait_locks, waited, ref_count,
                 freed, timer_vars, pool_vars, aof_vars, wake_loop, reply,
                 reading, panicked>>

\* Slip: the long queue's reference is not given back.
ReleaseRefs_KeepsLong(l, n) ==
  [m \in Locks |-> (IF m \in Popped(locks, n) THEN 1 ELSE 0)
                 + (IF m = l /\ current_lock = l THEN 1 ELSE 0)]

\* References a release takes from every object: the popped entries of locks,
\* current_lock, and the long queue's entry of l.
ReleaseRefs(l, n) ==
  [m \in Locks |-> (IF m \in Popped(locks, n) THEN 1 ELSE 0)
                 + (IF m = l /\ current_lock = l THEN 1 ELSE 0)
                 + (IF m = l /\ exp[l] = "long" THEN 1 ELSE 0)]

\* Slip: a release takes one lock off the key whatever the holder had.
ReleasedLocks_One(l) == 1

\* The locks a full release takes off the key.
ReleasedLocks(l) == IF lock_locked[l] > 1 THEN lock_locked[l] ELSE 1

\* A lock in the wheel keeps its timer's reference; one in the long queue is
\* taken out and freed here.
UnLock(u, l, n) ==
  LET long == exp[l] = "long"
      refs == ReleaseRefs(l, n)
      Z == {m \in (Popped(locks, n) \cup (IF long THEN {l} ELSE {})) :
              lock_ref[m] = refs[m]}
      twice == long /\ l \in Popped(locks, n) /\ l \in Z
  IN  /\ l = UnlockTarget(u) /\ l # NIL /\ ~OneOfMany(u, l)
      /\ wake_check + wake_loop < MaxWakers
      /\ RemoveLock(l, n)
      /\ expried' = [expried EXCEPT ![l] = TRUE]
      /\ exp' = IF long THEN [exp EXCEPT ![l] = "none"] ELSE exp
      /\ lock_ref' = [m \in Locks |-> lock_ref[m] - refs[m]]
      \* RemoveLock has freed l already: its command is nil when the AOF record
      \* is built, and without a record l is freed a second time
      /\ panicked' = (twice /\ is_aof[l] /\ ~u.loaded)
      /\ FreeLock(Z, IF twice THEN {l} ELSE {})
      /\ PersistReleased(l, u.loaded)
      /\ locked' = locked - ReleasedLocks(l)
      /\ RemoveLockManager(long /\ l \in Z /\ ref_count' = 0,
                           LocksAfterRemove(l, n), wait_locks)
      /\ wake_check' = wake_check + 1
      /\ UNCHANGED <<waited, timeouted, tmo, wake_loop, reply, reading>>

-----------------------------------------------------------------------------
(* Timers: CheckTimeTimeOut, CheckMillisecondTimeOut, FlushTimeOut and      *)
(* DoTimeOut, and the same four for the lease's expiry                      *)

\* A popped entry of a request that no longer waits only held a reference.
CheckTimeOutDead(l) ==
  /\ tmo[l] \in {"short", "long"} /\ timeouted[l]
  /\ tmo' = [tmo EXCEPT ![l] = "none"]
  /\ DropTimerRef(l)
  /\ UNCHANGED <<current_lock, lock_maps, waited, locked, timeouted, expried, exp,
                 aof_vars, wake_vars, lock_locked, reply, reading, panicked>>

\* After TIMEOUT_QUEUE_MAX_WAIT checks a waiting request moves to a long queue.
CheckTimeOutKeep(l) ==
  /\ LongTimeouts /\ tmo[l] = "short" /\ ~timeouted[l]
  /\ tmo' = [tmo EXCEPT ![l] = "long"]
  /\ UNCHANGED <<manager_vars, timeouted, expried, exp, pool_vars, aof_vars,
                 wake_vars, lock_locked, reply, reading, panicked>>

\* Slip: the long queues are not looked at.
CheckTimeOutDue_WheelOnly(l) ==
  /\ tmo[l] = "short" /\ ~timeouted[l]
  /\ tmo' = [tmo EXCEPT ![l] = "doing"]
  /\ UNCHANGED <<manager_vars, timeouted, expried, exp, pool_vars, aof_vars,
                 wake_vars, lock_locked, reply, reading, panicked>>

\* A request whose time is over is collected; glock is released before
\* DoTimeOut takes it again.
CheckTimeOutDue(l) ==
  /\ tmo[l] \in {"short", "long"} /\ ~timeouted[l]
  /\ tmo' = [tmo EXCEPT ![l] = "doing"]
  /\ UNCHANGED <<manager_vars, timeouted, expried, exp, pool_vars, aof_vars,
                 wake_vars, lock_locked, reply, reading, panicked>>

\* Slip: DoTimeOut does not look again after it has taken glock.
AnsweredMeanwhile_Unchecked(l) == FALSE

\* The request was granted after its timer was collected.
AnsweredMeanwhile(l) == timeouted[l]

\* DoTimeOut of a request that was granted meanwhile.
DoTimeOutLate(l) ==
  /\ tmo[l] = "doing" /\ AnsweredMeanwhile(l)
  /\ tmo' = [tmo EXCEPT ![l] = "none"]
  /\ DropTimerRef(l)
  /\ UNCHANGED <<current_lock, lock_maps, waited, locked, timeouted, expried, exp,
                 aof_vars, wake_vars, lock_locked, reply, reading, panicked>>

\* Slip: waited is cleared although requests are left.
StillWaited_Never(n) == FALSE

StillWaited(n) == waited /\ n < Len(wait_locks)

\* DoTimeOut: the request is answered TIMEOUT; GetWaitLock pops the n dead
\* heads of the queue, and an empty queue clears waited.
DoTimeOut(l, n) ==
  LET refs == [m \in Locks |-> (IF m \in Popped(wait_locks, n) THEN 1 ELSE 0)
                             + (IF m = l THEN 1 ELSE 0)]
      Z == {m \in Popped(wait_locks, n) \cup {l} : lock_ref[m] = refs[m]}
  IN  /\ tmo[l] = "doing" /\ ~AnsweredMeanwhile(l)
      /\ timeouted' = [timeouted EXCEPT ![l] = TRUE]
      /\ DeadPrefix(wait_locks, n, {m \in Locks : timeouted[m]} \cup {l})
      /\ waited' = StillWaited(n)
      /\ tmo' = [tmo EXCEPT ![l] = "none"]
      /\ lock_ref' = [m \in Locks |-> lock_ref[m] - refs[m]]
      /\ FreeLock(Z, {})
      /\ RemoveLockManager(l \in Z /\ ref_count' = 0, locks,
                           SubSeq(wait_locks, n + 1, Len(wait_locks)))
      /\ reply' = [reply EXCEPT ![l] = "TIMEOUT"]
      /\ UNCHANGED <<current_lock, lock_maps, locked, expried, exp, aof_vars,
                     wake_vars, lock_locked, reading, panicked>>

CheckExpriedDead(l) ==
  /\ exp[l] \in {"short", "long"} /\ expried[l]
  /\ exp' = [exp EXCEPT ![l] = "none"]
  /\ DropTimerRef(l)
  /\ UNCHANGED <<current_lock, lock_maps, waited, locked, timeouted, expried, tmo,
                 aof_vars, wake_vars, lock_locked, reply, reading, panicked>>

\* A lease that goes on is added again: to the wheel, where it is persisted
\* once it is older than aof_time, or after EXPRIED_QUEUE_MAX_WAIT checks to a
\* long queue.
CheckExpriedKeep(l) ==
  /\ exp[l] = "short" /\ ~expried[l]
  /\ \/ /\ LongLeases
        /\ exp' = [exp EXCEPT ![l] = "long"]
        /\ UNCHANGED aof_vars
     \/ /\ ~is_aof[l] /\ command[l].aof \in {"now", "later"}
        /\ is_aof' = [is_aof EXCEPT ![l] = TRUE]
        /\ PushLockAof(command[l], lock_flag[l])
        /\ UNCHANGED exp
  /\ UNCHANGED <<manager_vars, timeouted, expried, tmo, pool_vars, wake_vars,
                 lock_locked, reply, reading, panicked>>

\* Slip: the long queues are not looked at.
CheckExpriedDue_WheelOnly(l) ==
  /\ exp[l] = "short" /\ ~expried[l]
  /\ exp' = [exp EXCEPT ![l] = "doing"]
  /\ UNCHANGED <<manager_vars, timeouted, expried, tmo, pool_vars, aof_vars,
                 wake_vars, lock_locked, reply, reading, panicked>>

CheckExpriedDue(l) ==
  /\ exp[l] \in {"short", "long"} /\ ~expried[l]
  /\ exp' = [exp EXCEPT ![l] = "doing"]
  /\ UNCHANGED <<manager_vars, timeouted, expried, tmo, pool_vars, aof_vars,
                 wake_vars, lock_locked, reply, reading, panicked>>

\* DoExpried of a lock that was unlocked meanwhile.
DoExpriedLate(l) ==
  /\ exp[l] = "doing" /\ expried[l]
  /\ exp' = [exp EXCEPT ![l] = "none"]
  /\ DropTimerRef(l)
  /\ UNCHANGED <<current_lock, lock_maps, waited, locked, timeouted, expried, tmo,
                 aof_vars, wake_vars, lock_locked, reply, reading, panicked>>

\* DoExpried: every lock of the holder is released and it is told EXPRIED; the
\* goroutine goes on to wake up waiting requests.
DoExpried(l, n) ==
  LET refs == [m \in Locks |-> (IF m \in Popped(locks, n) THEN 1 ELSE 0)
                             + (IF m = l /\ current_lock = l THEN 1 ELSE 0)
                             + (IF m = l THEN 1 ELSE 0)]
      Z == {m \in Popped(locks, n) \cup {l} : lock_ref[m] = refs[m]}
  IN  /\ exp[l] = "doing" /\ ~expried[l]
      /\ wake_check + wake_loop < MaxWakers
      /\ expried' = [expried EXCEPT ![l] = TRUE]
      /\ locked' = locked - lock_locked[l]
      /\ RemoveLock(l, n)
      /\ PersistReleased(l, FALSE)
      /\ exp' = [exp EXCEPT ![l] = "none"]
      /\ lock_ref' = [m \in Locks |-> lock_ref[m] - refs[m]]
      /\ FreeLock(Z, {})
      /\ RemoveLockManager(l \in Z /\ ref_count' = 0, LocksAfterRemove(l, n),
                           wait_locks)
      /\ reply' = [reply EXCEPT ![l] = "EXPRIED"]
      /\ wake_check' = wake_check + 1
      /\ UNCHANGED <<waited, timeouted, tmo, wake_loop, reading, panicked>>

-----------------------------------------------------------------------------
(* WakeUpWaitLocks, after a release                                         *)

\* waited is tested without glock.
WakeCheck ==
  /\ wake_check > 0
  /\ wake_check' = wake_check - 1
  /\ wake_loop' = IF waited THEN wake_loop + 1 ELSE wake_loop
  /\ UNCHANGED <<manager_vars, timer_vars, pool_vars, aof_vars, lock_locked, reply,
                 reading, panicked>>

\* GetWaitLock inside the loop: the dead heads are popped and freed.
WakePop(n) ==
  LET P == Popped(wait_locks, n)
  IN  /\ wake_loop > 0
      /\ DeadPrefix(wait_locks, n, {m \in Locks : timeouted[m]})
      /\ FreeLock({m \in P : lock_ref[m] = 1}, {})

UnrefPopped(n) ==
  [m \in Locks |-> IF m \in Popped(wait_locks, n) THEN lock_ref[m] - 1
                                                  ELSE lock_ref[m]]

\* No request is left: waited is cleared, an unused manager is removed.
WakeDone(n) ==
  /\ WakePop(n) /\ n = Len(wait_locks)
  /\ lock_ref' = UnrefPopped(n)
  /\ waited' = FALSE
  /\ RemoveLockManager(waited /\ ref_count' = 0, locks, <<>>)
  /\ wake_loop' = wake_loop - 1
  /\ UNCHANGED <<current_lock, lock_maps, locked, timer_vars, aof_vars, wake_check,
                 lock_locked, reply, reading, panicked>>

\* The first request cannot be admitted: the goroutine gives up.
WakeBlocked(n) ==
  /\ WakePop(n) /\ n < Len(wait_locks)
  /\ ~DoLock(command[wait_locks[n + 1]])
  /\ lock_ref' = UnrefPopped(n)
  /\ wait_locks' = SubSeq(wait_locks, n + 1, Len(wait_locks))
  /\ wake_loop' = wake_loop - 1
  /\ UNCHANGED <<current_lock, locks, lock_maps, waited, locked, freed, timer_vars,
                 aof_vars, wake_check, lock_locked, reply, reading, panicked>>

\* WakeUpWaitLock: the first request w is admitted and answered; its entry
\* stays in the queue, and the loop goes on.
WakeGrant(n, w) ==
  LET long == IF tmo[w] = "long" THEN 1 ELSE 0
      c == command[w]
  IN  /\ WakePop(n) /\ n < Len(wait_locks) /\ w = wait_locks[n + 1]
      /\ DoLock(c)
      /\ wait_locks' = SubSeq(wait_locks, n + 1, Len(wait_locks))
      /\ timeouted' = [timeouted EXCEPT ![w] = TRUE]
      /\ tmo' = IF tmo[w] = "long" THEN [tmo EXCEPT ![w] = "none"] ELSE tmo
      /\ reply' = [reply EXCEPT ![w] = "SUCCED"]
      /\ \/ /\ c.lease
            /\ AddLock(w, c)
            /\ locked' = locked + 1
            /\ expried' = [expried EXCEPT ![w] = FALSE]
            /\ exp' = [exp EXCEPT ![w] = "short"]
            /\ PersistGranted(w, c)
            /\ lock_ref' = [UnrefPopped(n) EXCEPT ![w] = @ + 2 - long]
         \/ /\ ~c.lease
            /\ lock_ref' = [UnrefPopped(n) EXCEPT ![w] = @ - long]
            /\ UNCHANGED <<current_lock, locks, lock_maps, locked, expried, exp,
                           aof_vars, lock_locked>>
      /\ UNCHANGED <<waited, freed, wake_vars, reading, panicked>>

-----------------------------------------------------------------------------
ClientStep ==
  \/ \E c \in LockInputs :
       \/ LockShow(c) \/ LockUpdate(c) \/ LockReenter(c) \/ LockReenterNoLease(c)
       \/ LockRefuse(c) \/ LockPass(c)
       \/ \E l \in Locks : LockGrant(c, l) \/ LockWait(c, l)
  \/ \E u \in UnlockInputs :
       \/ UnLockError(u) \/ UnLockOne(u)
       \/ \E l \in Locks : \E n \in 0..Len(locks) : UnLock(u, l, n)
  \/ \E r \in Locks \cup {NIL} : ReadReply(r)

TimerStep ==
  \E l \in Locks :
    \/ CheckTimeOutDead(l) \/ CheckTimeOutKeep(l) \/ CheckTimeOutDue(l)
    \/ DoTimeOutLate(l)
    \/ \E n \in 0..Len(wait_locks) : DoTimeOut(l, n)
    \/ CheckExpriedDead(l) \/ CheckExpriedKeep(l) \/ CheckExpriedDue(l)
    \/ DoExpriedLate(l)
    \/ \E n \in 0..Len(locks) : DoExpried(l, n)

WakeStep ==
  \/ WakeCheck
  \/ \E n \in 0..Len(wait_locks) :
       \/ WakeDone(n) \/ WakeBlocked(n)
       \/ \E w \in Locks : WakeGrant(n, w)

Next == ~panicked /\ (ClientStep \/ TimerStep \/ WakeStep)

Spec == Init /\ [][Next]_vars

\* A goroutine inside WakeUpWaitLocks keeps running.
WakeFairness == WF_vars(~panicked /\ WakeStep)

\* The timer goroutines run every second, and Timeout and Expried are finite:
\* an entry is due at last.
WaitFairness ==
  \A l \in Locks :
    /\ WF_vars(~panicked /\ CheckTimeOutDue(l))
    /\ WF_vars(~panicked /\ \E n \in 0..Len(wait_locks) : DoTimeOut(l, n))

\* MaxWakers may close DoExpried again and again, the code has no such bound;
\* hence its strong fairness.
LeaseFairness ==
  \A l \in Locks :
    /\ WF_vars(~panicked /\ CheckExpriedDue(l))
    /\ SF_vars(~panicked /\ \E n \in 0..Len(locks) : DoExpried(l, n))

WakeSpec == Spec /\ WakeFairness

-----------------------------------------------------------------------------
(* Properties                                                              *)

TypePointers ==
  /\ current_lock \in Locks \cup {NIL}
  /\ locks \in Seq(Locks) /\ wait_locks \in Seq(Locks)
  /\ lock_maps \in [LockIds -> Locks \cup {NIL}]
  /\ command \in [Locks -> LockInputs \cup {NIL}]
  /\ tmo \in [Locks -> TimerPlaces] /\ exp \in [Locks -> TimerPlaces]
  /\ reply \in [Locks -> {"none", "SUCCED", "TIMEOUT", "EXPRIED"}]
  /\ reading \subseteq Locks \cup {NIL}

TypeCounters ==
  /\ locked \in Int /\ ref_count \in Int
  /\ lock_ref \in [Locks -> Int] /\ free_locks \in [Locks -> Int]
  /\ lock_locked \in [Locks -> 0..MaxReentry]
  /\ wake_check \in Nat /\ wake_loop \in Nat

TypeFlags ==
  /\ waited \in BOOLEAN /\ freed \in BOOLEAN /\ panicked \in BOOLEAN
  /\ timeouted \in [Locks -> BOOLEAN] /\ expried \in [Locks -> BOOLEAN]
  /\ is_aof \in [Locks -> BOOLEAN] /\ lock_flag \in [Locks -> Flags]

\* Every variable has its type.  Lock.locked stays inside its 8 bits; the other
\* counters are integers here, the invariants below show they never wrap, and
\* AofMatchesHolders bounds the replay's variables.
TypeOK == TypePointers /\ TypeCounters /\ TypeFlags

Holding(l) == lock_locked[l] > 0
HoldsOf(f) == {h \in Locks \X (1..MaxReentry) : h[2] <= f[h[1]]}
Holds == HoldsOf(lock_locked)
Held == {l \in Locks : l = current_lock \/ l \in Range(locks)}
Waits == Range(wait_locks)
Waiting(l) == l \in Waits /\ ~timeouted[l]
Indicator(b) == IF b THEN 1 ELSE 0

\* The references counted by hand are exactly the containers an object is in,
\* so an object is back in the pool, once, exactly when nothing refers to it.
RefsCounted ==
  \A l \in Locks :
    /\ lock_ref[l] = Indicator(l \in Waits) + Indicator(tmo[l] # "none")
                     + Indicator(l \in Held) + Indicator(exp[l] # "none")
    /\ free_locks[l] = Indicator(lock_ref[l] = 0)
    /\ command[l] = NIL <=> lock_ref[l] = 0

\* An object in the pool carries nothing into its next use: GetOrNewLock resets
\* neither locked nor is_aof, and a request must not be dropped unanswered.
PoolClean ==
  \A l \in Locks : free_locks[l] > 0 =>
    lock_locked[l] = 0 /\ ~is_aof[l] /\ reply[l] # "none"

ObjectsCounted == ref_count = Cardinality({l \in Locks : free_locks[l] = 0})

\* A manager is removed exactly when its last object is freed, and then nothing
\* holds or waits: RemoveLockManager resets only the two queues.
ManagerRemovedClean ==
  /\ ObjectsCounted
  /\ freed <=> ref_count = 0
  /\ freed => /\ current_lock = NIL /\ locked = 0 /\ ~waited
              /\ \A i \in LockIds : lock_maps[i] = NIL

\* LockManager.locked is the number of locks of all holders, and a held key has
\* a current_lock that holds: DoLock and GetLockedLock dereference it.
LockedCounted ==
  /\ locked = Cardinality(Holds)
  /\ locked > 0 => current_lock # NIL
  /\ current_lock # NIL => Holding(current_lock)

Injective(q) == \A i, j \in 1..Len(q) : q[i] = q[j] => i = j

QueuesDistinct ==
  Injective(locks) /\ Injective(wait_locks) /\ current_lock \notin Range(locks)

NoLongLease == \A l \in Locks : exp[l] # "long"

WaitersIdle ==
  \A l \in Locks : Waiting(l) => ~Holding(l) /\ exp[l] = "none" /\ l \notin Held

HoldersHeld ==
  /\ \A l \in Locks : Holding(l) => l \in Held
  /\ \A l \in Locks : Holding(l) <=> exp[l] # "none" /\ ~expried[l]
  /\ current_lock # NIL => Holding(current_lock)
  /\ current_lock = NIL => \A l \in Locks : ~Holding(l)

MapsToHolders ==
  \A i \in LockIds : lock_maps[i] # NIL =>
    /\ Holding(lock_maps[i]) /\ lock_maps[i] # current_lock
    /\ command[lock_maps[i]].id = i

\* What keeps references and locks counted while no lease is long enough for the
\* long queue: an object is in each queue once and never holds while it waits, a
\* holder has a running lease, and lock_maps leads to holders only.
SafetyInv ==
  /\ RefsCounted /\ ObjectsCounted /\ QueuesDistinct /\ NoLongLease
  /\ WaitersIdle /\ HoldersHeld /\ MapsToHolders /\ locked = Cardinality(Holds)

\* A holder with Count = 0 (a Lock, the writer of a RWLock) is the only holder.
WriterAlone ==
  \A l, m \in Locks : Holding(l) /\ Holding(m) /\ command[l].count = 0 => l = m

\* UNLOCK with a holder's LockId finds a holder with that LockId.
HolderReachable ==
  \A l \in Locks : Holding(l) =>
    LET m == GetLockedLock(command[l].id)
    IN  m # NIL /\ Holding(m) /\ command[m].id = command[l].id

\* A replay of the records pushed to the AOF admits every one of them and leaves
\* each LockId with exactly the locks its persisted holder has.
AofMatchesHolders ==
  /\ ~aof_refused
  /\ \A i \in LockIds :
       aof_locked[i] = Cardinality({h \in Holds : is_aof[h[1]] /\ command[h[1]].id = i})

\* The first request still waiting would be admitted by DoLock.
Admissible ==
  \E i \in 1..Len(wait_locks) :
    /\ ~timeouted[wait_locks[i]]
    /\ \A j \in 1..(i - 1) : timeouted[wait_locks[j]]
    /\ DoLock(command[wait_locks[i]])

\* Nobody waits for a key that would admit the first waiting request, unless a
\* goroutine is about to wake it up.
NoLostWakeUp ==
  Admissible => wake_check + wake_loop > 0

\* Requests are granted in the order they began to wait, and none is granted
\* past a waiting one.
GrantsInOrder ==
  [][\A l \in Locks : reply[l] # "SUCCED" /\ reply'[l] = "SUCCED" =>
       \A i \in 1..Len(wait_locks) :
         \/ timeouted[wait_locks[i]]
         \/ wait_locks[i] = l
         \/ \E j \in 1..(i - 1) : wait_locks[j] = l]_vars

\* A request is answered once, SUCCED or TIMEOUT; EXPRIED follows a SUCCED only,
\* and only while the lock was held.
AnsweredOnce ==
  [][\A l \in Locks : reply'[l] # reply[l] /\ free_locks[l] = 0 =>
       \/ reply[l] = "none" /\ Waiting(l) /\ reply'[l] # "EXPRIED"
       \/ reply[l] = "SUCCED" /\ Holding(l) /\ reply'[l] = "EXPRIED"]_vars

\* A key that would admit its first waiting request is not left to the timers:
\* the goroutines that wake up suffice.
AdmissibleIsGranted == Admissible ~> ~Admissible

\* Every waiting request is answered, by the timeout timers at the latest, although
\* the holder renews its lease for ever and the expiry timers may stand still.
WaitsEnd == WaitFairness => \A l \in Locks : Waiting(l) ~> ~Waiting(l)

\* Every lease that its holder cannot renew (Rcount = 0) ends, without any UNLOCK,
\* whatever the timeout timers do.
LeasesEnd ==
  LeaseFairness =>
    \A l \in Locks : (Holding(l) /\ command[l].rcount = 0) ~> ~(Holding(l) /\ command[l].rcount = 0)

\* No goroutine dereferences a nil pointer.
NoPanic == ~panicked
=============================================================================
