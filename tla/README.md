# A TLA+ development of slock

slock is a lock server: clients send LOCK and UNLOCK commands for a key over a
binary or a text protocol; a command carries a LockId, how long it may wait
(Timeout), how long the lock may be held (Expried), how many locks the key may
have (Count) and how often its LockId may hold it (Rcount). Locks, RWLocks,
semaphores and events are client side conventions over these fields.

## 1. Inventory

| part | state | operations | interacts with | what is hard |
|---|---|---|---|---|
| lock manager of a key (`server/lock.go`, `server/db.go`) | `current_lock`, the queue `locks` and map `lock_maps` of further holders, `wait_locks`, `waited`, `locked`, `ref_count`; the fields of each pooled `Lock` | `Lock`, `UnLock`, `DoTimeOut`, `DoExpried`, `WakeUpWaitLocks` and the helpers of lock.go | called by sessions, timers and AOF loading; pushes AOF records; replies through a protocol | hand counted references, lazily removed queue entries, work after `glock.Unlock()`, one mutex for many keys |
| index of managers (`db.go`) | `fast_locks`, map `locks`, ring `free_lock_managers` | `GetOrNewLockManager`, `GetLockManager`, `RemoveLockManager` | hands managers to `Lock` and `UnLock` | atomics without a common lock, reuse of a manager for another key |
| timers (`db.go`) | wheels `timeout_locks`, `expried_locks`, long queues, millisecond queues, the clock | `Check*`, `Add*`, `Remove*`, `Restructuring*`, `Flush*` | collect locks under a shard's mutex, call `DoTimeOut` and `DoExpried` without it | a timer racing the event it guards; slots missed by a late tick |
| LockQueue (`queue.go`) | node arrays, four indexes | push, pop, both ends, resize | everything above | index arithmetic |
| AOF (`aof.go`) | channels, files, counters | push, load, rewrite, reset | the manager pushes, loading calls `Lock` and `UnLock` | crash between two file operations, order across channels |
| sessions (`protocol.go`, `stream.go`, `server.go`, `slock.go`) | per session command pools, the stream list, the database table | read, dispatch, reply, close | call the manager; replies from timer goroutines | a reply after a close, pooled commands |
| administration (`admin.go`) | none of its own | FLUSHDB, FLUSHALL, SHUTDOWN, INFO, SHOW | timers, AOF | stopping while requests run |
| wire encoding (`protocol/`) | none | encode, decode | both ends | field layout |
| client (`client/`) | `requests`, connection, primitives | send, receive, reconnect; Lock, RLock, RWLock, Semaphore, Event | the server | a lost connection between request and answer |

The properties that make the parts correct: a writer is alone and no permit is
given twice; a holder can be released; every request gets exactly one answer;
waits and leases end; nobody waits for a free key; grants keep their order; a
pooled object is never in use twice; what the AOF says is what is held, also
after a crash; a key always finds its own manager; a queue is a sequence; a
client's waiter is always told.

## 2. Modules and plan

| module | models | composed with |
|---|---|---|
| LockDB | the lock manager of one key with its timers | proved about in LockDB_proofs |
| LockQueue | the queue under it | implements Deque; LockQueue_proofs |
| ManagerIndex | how a key finds its manager | an abstract manager, held or not; ManagerIndex_proofs |
| AofChannel | the goroutines that feed the log | files reduced to a count of buffered records; AofChannel_proofs |
| Aof | the log's files, rewrite, crash and load | channels reduced to Push and Flush in any order; Aof_proofs |
| Network | TCP connections that break | |
| ClientConn, ServerSession | the two ends of a binary session | composed over Network in Connection; Connection_proofs |
| TextParser | the two text parsers, a pure state machine over bytes | |
| TextSession | a text session and its client | TextParser, an abstract database; TextSession_proofs |
| Layout | commands, results and records as byte layouts, pure operators | |
| Codec | what becomes of them through buffers, pools and the log | Layout; Codec_proofs |

Left of the plan: the timer wheel with an explicit clock, `Close` and `is_stop`
of a database, the client primitives over an abstract lock service, and the
counters of the ring of free managers. Every safety property that a passing run
checks has its theorem (section 6), ImplementsDeque for short queues only.

## 3. LockDB: the lock manager of one key

Each action is one critical section of `glock`; where the code uses a pointer
after `glock.Unlock()`, what follows is a second action.

| code | model |
|---|---|
| fields of `LockManager` | variables of the same names |
| fields of `Lock` | functions on `Locks`: `command`, `lock_ref` (ref_count), `lock_locked` (locked), `timeouted`, `expried`, `is_aof` |
| the queue a timer entry is in | `tmo[l]`, `exp[l]`: `"short"` wheel or millisecond queue, `"long"` a long queue (`long_wait_index > 0`), `"doing"` collected for `DoTimeOut` or `DoExpried` |
| the pool `free_locks` | how often each object is in it, so that a double free is a state |
| the last answer to a request | `reply[l]` |
| goroutines in `WakeUpWaitLocks` | `wake_check` before the unlocked test of `waited`, `wake_loop` between two critical sections of the loop |
| replies built after `glock.Unlock()` | `reading`: the holder to be read, or `NIL` for `current_lock` |
| a nil dereference | `panicked`; no step follows |
| `command.Flag` of an object | `lock_flag[l]`: a renewal replaces the command but for its Flag |
| the records pushed to the AOF | what a replay of them comes to: `aof_locked[i]`, how often LockId i holds the key, `aof_count[i]`, its Count, and `aof_refused`, that it met a LOCK it did not admit or an UNLOCK of nobody |

`Lock` is split by its outcomes (LockShow, LockUpdate, LockReenter,
LockReenterNoLease, LockRefuse, LockGrant, LockWait, LockPass), `UnLock` into
UnLockError, UnLockOne and UnLock; `RemoveLock` and `GetWaitLock` pop the n dead
heads of a queue, where DeadPrefix fixes n.

What is abstracted, and why it loses nothing here:

- **Time.** An entry is due, kept or moved to a long queue whenever its goroutine
  looks at it. Every real schedule is one of these; the liveness runs assume that
  an entry is due at last.
- **Batches.** A timer goroutine handles many entries under one mutex; here each
  entry is a step, which only adds interleavings. FLUSHDB is a burst of the same
  steps.
- **One key.** The mutex is shared by the keys of a shard; other keys only delay.
  The manager a freed key gets is the same object again, the worst case for
  stale fields.
- **Data.** LockIds, Count and Rcount come from small sets; wait and lease are
  `Timeout > 0` and `Expried > 0`; the AOF flags are reduced to when a lock is
  persisted. A command's other fields only appear in replies; in particular
  db.go:1401 passes TimeoutFlag and Timeout in the wrong order, which this model
  does not see.
- **The log.** The history variables apply DoLock, the renewal and reentry of `Lock`
  and the two ways of `UnLock` to each record as it is pushed: every renewal or reentry
  of a persisted lock pushes a LOCK more (lock.go:167), a partial unlock nothing,
  the release one UNLOCK with the command's Rcount, of which a replay takes one lock
  or all. Leases do not end in between.
- **Statistics and logging** are left out.

Not modelled: `Close`/`is_stop`, the failing AOF push of a closed channel. The
restructuring of long queues moves no entry in this abstraction; it is an action
of LockQueue.

### LockQueue: the queue under everything

LockDB uses its queues as sequences. LockQueue models them as they are: `queues`
is an array of nodes of growing size (`<<>>` is a nil node, a node's slots are a
sequence), with the two ends, `node_index`, `node_size` and `queue_size` of the
code. `head_queue`, `tail_queue` and their sizes are assigned together with
`head_node_index` and `tail_node_index` everywhere and always are the node's, so
they are not kept; `node_queue_sizes[n]` is the length of node n.

A queue has one `use` for life, which decides the operations that are called on
it: holders and waiters (Push, Peek for `Head`, Pop, Resize, Reset), pools (Push,
PopRight), wheel slots (Push, Pop, Rellac, Reset), millisecond queues (Push, Iter,
Pop and Reset when flushed) and long queues, where db.go works on the fields
itself: RemoveLong empties the slot `long_wait_index` names, Restructuring closes
the holes. A timer that drains a long or a millisecond queue does so under the
mutex (`draining`). Reset and Rellac are called on empty queues: for a manager
that is RefsCounted of LockDB.

Restructuring pushes the locks it scans again from slot 0 on; since it pushes no
more than it has passed, the i-th lock ends in the i-th slot, which is how it is
written here. Slots are ordered pairs, `Rank` counts the slots before one.

Deque says what callers rely on: a sequence with holes and the last thing handed
out. `ImplementsDeque` maps it to the slots from head to tail. PushLeft, Tail,
Shrink and the Restructuring of queue.go are called by tests only and left out.
`MaxNodes` bounds a queue's growth.

### ManagerIndex: from a key to its manager

One slot of `fast_locks` with the keys that hash to it, the map `locks` for keys
that find the slot taken, and the free managers. Goroutines run `Lock` or `UnLock`;
what the code does under `LockDB.glock` or a manager's `glock` is a step, and so is
every access without: the load of `count`, the claim of the slot, the test and
the second read of `manager`, the parts of RemoveLockManager.

The fast path takes no lock in common with RemoveLockManager, and the code loses
races that the model names and remembers in `raced`:

- ClaimedAndMapped, MappedAndClaimed: of two goroutines one saw the slot empty,
  the other taken, and the key gets a manager in the slot and one in the map;
- ClaimedBeforeCleared: RemoveLockManager gives the slot's lock back before it
  clears `manager`, and clears the manager of whoever claimed it meanwhile;
- TakenWhileFound: a manager found under one key is removed and given to another
  before its `glock` is taken; `Lock` looks at `freed` only, which is false again;
- ReadTwice: `fast_value.manager` is tested and read again, when it may be nil.

The properties hold for behaviours that lose none of them. Each of the named races
is a step of the model and fires in the run; what is shown is that they are all:
every other interleaving is harmless. When the ring of free managers is full the
code drops a removed manager, which is not modelled.

### AofChannel and Aof: the log

AofChannel follows the goroutine of a channel statement by statement through
`Handle`, ChannelActive, ChannelUnActive and ChannelStop, with LoadAndInit and
SLock.Close as the two that wait for them. Two waits can last for ever, and the
liveness properties say so in their premise: LoadAndInit makes its waiter after it
has read the counter (aof.go:575), and CloseAofChannel sends its nil before it
sets `closed` (aof.go:715). LoadAndInit may also return before every loaded record
was applied, and since Aof.Close sets `is_stop` first, what is still buffered then
is lost (aof.go:686).

Aof keeps the data directory as a function from names to contents. PushLock,
Flush, rotation (in two steps, since the file exists before it has a header),
RewriteAofFiles (find, load, each removal, rename), REWRITEAOF, the end of the
process between any two of them and LoadAndInit are actions. `written` is the
log as it should be. The files do not hold it at moments named in `Exposed`:

- between the removal of the old files and the rename of the new one
  (aof.go:1006-1014);
- when two append files sort out of order: sort.Strings puts append.aof.10 before
  append.aof.9 (aof.go:613);
- when a file that is not the last has no header yet, which ends the loading of all
  that follow (aof.go:625).

A process that ends at such a moment, a rewrite that reads such a list, a
rewrite.aof.tmp left longer by an earlier crash (it is not truncated) and a
REWRITEAOF during a rotation (it takes no lock) set `damaged`; the properties are
about everything else. A record torn by the crash is not modelled: ReadLock
returns its head with stale bytes behind it.

### ClientConn, ServerSession and Connection

A client with its `requests` and their channels, the goroutine that reads results,
Reopen under `Client.glock` and Close; sessions of the server that read, register
at INIT, give LOCKs to a database, and write results under the session's `glock` in
two steps (fill `wbuf`, send); STATE, which fills the same `wbuf` without the lock;
FLUSHDB and FLUSHALL under `SLock.glock`. A break of a connection keeps any prefix of
what was under way in each direction. LOCK and UNLOCK are alike here; what a
database does with them is LockDB, which answers each once. The server is the
leader: `slock.state` is set before the first connection is accepted.

Behaviours the properties except: a request kept over a reconnection with InitType 1
(`orphaned`: the answer finds its session closed and not inited, so nobody passes it
on), a result overwritten in `wbuf` (`garbled`), a nil `client.protocol` between
the check and the write (`panicked`, client/db.go:97), and `Embrace`, the two locks
of the server taken in opposite orders (protocol.go:255 and the flush of admin.go).
FLUSHALL hides the databases and then puts back what it finds in the table, so
nothing: the next LOCK makes a second LockDB (admin.go:131).

### TextParser and TextSession

TextParser is the parser of both ends as a step function over its fields (`stage`,
`carg`, `carg_index`, `carg_len`), on bytes that are model characters. TextSession feeds it
chunks of any size up to MaxChunk and runs handlers. The client builds a command with
`Build` of its parser and reads replies with TextClientProtocol.Read: an array is a
result, or an error when it is none of LOCK and UNLOCK; `-`, `+` and `$` replies are
errors, only the first with its message. Read clears the parser's arguments after an
array alone (client/protocol.go:420-430), so the next reply is parsed over what an error
has left, and an array comes out an argument short (`stale`). Nothing in the repository
makes a TextClientProtocol; it is modelled as the client this protocol has. An argument that is cut
where the next read ends before its newline is counted wrongly (protocol.go:970 and
client/protocol.go:244, `miscounted`), and an expiry may be given to the session
before the result of its own LOCK (db.go:1467 is after glock was released, `overtaken`):
behaviours end there, and where a reply is parsed over a stale one.

### Layout and Codec

A layout says at which bytes a field is, for each side that writes or reads it:
Encode and Decode of command.go, the assignments of ProcessParse, the bytes
ProcessLockResultCommand writes, and AofLock. `Encoded` writes over a buffer and
`DecodedOver` over a struct, so that what an encoder leaves out shows as a stale byte.
Codec moves commands of every kind through them. The client sends a whole command
at a time; the first read of a connection decides between binary and text, and one
shorter than a command is taken for text (server.go:121), whose parser goes on only
when it begins with an asterisk. The client's Read refuses a result whose magic, version
or type it does not know, and its loop then closes the connection: the answer to a
command of an unknown type has that type, so the server's RESULT_UNKNOWN_COMMAND never
reaches the caller.

The record of a granted LOCK goes through Push, HandleLock, the file and Load with
the code's 16 bit times. RecordRestored is about records built in pooled objects, of
leases with an end that two bytes can tell. What the model shows of the others:

- An unlimited lease (ExpriedFlag 0x4000) is recorded with ExpriedTime 0 and never left
  out of a load, but becomes a LOCK with Expried 0, for which `Lock` keeps nothing
  (db.go:1456): it is not held after a restart. Without 0x0400 it is not unlimited at
  all: AddLock gives it the end of any other lease (lock.go:37-41), and its record
  is loaded even after that.
- A millisecond lease (0x0400) has no end until the milliseconds below a second have
  passed (db.go:660). Recorded before, as one persisted at once is, it has the end 0 and
  is left out of every load.
- LoadAofFile compares with the time at which the load began, HandleLock subtracts the
  time at which the record's turn comes. A lease that ends in between is loaded
  with a negative difference of 16 bits, which is up to 65535 seconds.

A channel's pool is empty at first, and then the literal of aof.go:365 puts the
flags and the start time into each other's fields: the flags of such a record are
lost on load, and an unlimited lease is left out.

## 4. Runs

Each module is instantiated by the MC module of its name, the connection by
MC_Connection. In LockDB `MaxLocked` and `MaxReentry` stand
for 0xffff and 0xff, small enough to be reached; `MaxWakers` bounds goroutines in
`WakeUpWaitLocks`: two suffice for two of them to interleave in the loop. Two or
three Lock objects are a holder, a waiter and one more that is being recycled or
that a timer still refers to. `DistinctWaits` says that clients do not queue two
requests with one LockId, as the client library's generated ids guarantee for all
primitives but events; `MC_twins.cfg` drops it.

| run | instance | shows |
|---|---|---|
| exclusive | 3 objects, ids a and b, reentry, partial unlock, a replayed command, a wait without a lease, all queues | TypeOK, RefsCounted, PoolClean, ManagerRemovedClean, LockedCounted, NoLostWakeUp, AnsweredOnce |
| shared | writer and two readers, persisted and not, Flag 0x01 unlock | SafetyInv (which contains RefsCounted and implies LockedCounted), WriterAlone, HolderReachable, GrantsInOrder |
| renewal | 3 objects, ids a and b with two permits, leases persisted at once or later, renewal, reentry without a lease, show | AofMatchesHolders |
| live | 2 objects, one client reenters and renews, long waits and leases, fair wake-ups | AdmissibleIsGranted; WaitsEnd given fair timeout timers; LeasesEnd given fair expiry timers |
| queues | LockQueue in its five uses, 3 locks, nodes of 1 and 2 slots, 2 of 6 nodes kept by Reset | ImplementsDeque, InRange, ShortQueueInv, LongIndexed (with SlotsClean) |
| index | 2 goroutines, 2 keys of one slot, 3 managers | KeyHeldOnce, HolderFound, ManagersCounted |
| aof | 2 leases, files of 2 records, indexes 8 to 11, 2 ends of the process | LoadReturnsWritten, OpenFileNotRewritten, AppendsToFreshFile |
| channels | 2 channels of 2 records, 2 pushed, 1 loaded, shutdown | FlushedWhenIdle, ActiveCounted, BootEnds, ShutdownEnds |
| session | 2 requests, one may be STATE, 2 connections, 1 flush | ToldOnce, RegistryInv, RequestsEnd, SessionsClose |
| text | 9 scripts of up to 3 commands, arguments of 1 to 10 bytes, reads of up to 6 bytes | CommandsAsSent, RepliesAsWritten, SessionKeepsOwn, CommandsReplied |
| codec | scripts of 1 and 3 out of 17 commands, reads of 24, 40 and 64 bytes, leases of seconds, milliseconds and without limit, records made and read 0 to 70000 s later and handled up to 4 s after | CommandsDecoded, ResultsDecoded, RecordRestored |

Nodes of one and two slots make every operation cross a node within a few steps,
and the first node differs in size from the others, which is where an index taken
from the wrong node would show. Six nodes let a queue outgrow its first array
(`InitNodeSize` 5), move down (`ResizeAt` 3) and give back half of its spare nodes. `MaxNodeIndex` ends a
long queue's growth just before the index that `MC_drift.cfg` is about leaves the array.

Two goroutines and two keys are what each race of the index needs; three managers
leave one free while both are in use, so that a manager can come back under
another key. File indexes from 8 on let the tenth file appear, where the order of
names changes, after two rotations; two records to a file make a rotation one
push away, and two restarts let a second one find what the first left. Two
connections are one reconnection; `MaxConnections` also stands for the 64 attempts
after which Reopen gives up. In `text` a read of 6 bytes holds the shortest
argument with its length, so that cuts fall in and between all parts; in each script
at most one reply follows one that is no array, since that one is `stale`. Codec's fields have values that differ in every byte; `Delays` has
records whose turn comes before, at and after the end of a lease.

`renewal` turns the deadlock check off because its show requests can end the process
in a panic (`MC_show.cfg`); `index`, `aof`, `channels`, `session`, `text` and `codec` because
their bounds on managers, indexes, records, connections and scripts are used up, and
`session` also because a panic or an embrace ends it. In every other run some step is
always possible.

The run `long_lease` shows where the code departs from what the repository says
of it, and five more configurations end in a counterexample of the same kind:

| configuration | violated | what happens |
|---|---|---|
| long_lease (`MC_long_lease.cfg`) | NoPanic | `UnLock` of a holder that is not `current_lock` and is in the long expiry queue frees the object in `RemoveLock` and then builds its AOF record from it (db.go:1624-1628) |
| `MC_show.cfg` (MC_LockDB) | NoPanic | `Lock` with Flag 0x01 reads `current_lock` after releasing `glock` (db.go:1373-1376); an unlock in between makes it nil |
| `MC_rwlock_wait.cfg` (MC_LockDB) | NoLostWakeUp | a waiting writer times out, `DoTimeOut` wakes nobody, and readers that would be admitted wait on |
| `MC_twins.cfg` (MC_LockDB) | HolderReachable | two holders with one LockId share an entry of `lock_maps` |
| `MC_replay.cfg` (MC_LockDB) | AofMatchesHolders | LOCK and a reentry of a persisted lease push two LOCKs, its release one UNLOCK; Rcount is not 0, so a replay takes one lock back and the key stays held |
| `MC_drift.cfg` (MC_LockQueue) | NodeIndexed | the restructuring in db.go gives nodes back without counting `node_index` down; it grows with every refill, and `Reset` at last indexes `queues` out of range |

NoLostWakeUp holds in `exclusive` and fails in `MC_rwlock_wait.cfg`: with equal Counts
the head of the queue is admissible exactly when everybody behind it is, with a
writer at the head it is not. For the same reason `shared` does not check it.

DoLock asks only `current_lock` and the request for their Count, not the other
holders: clients that ask for one key with different Counts are limited by the
first holder. No property says otherwise; WriterAlone is the part of COUNT that
holds for all of them.

## 5. Fairness

LockDB: `WakeFairness` is weak fairness of the wake-up loop: a goroutine that is in it
is runnable and holds no lock between its steps. `WaitFairness` is weak fairness of
collecting a timeout entry and of `DoTimeOut`, `LeaseFairness` the same for the
expiry: `UpdateCurrentTime` ticks every second, Timeout and Expried are at most
0xffff seconds. `DoExpried` needs strong fairness only because `MaxWakers` may
close it again and again; the code has no such bound. Only the first is part of
the specification of `live`; the others are premises of WaitsEnd and LeasesEnd, so
that each is shown without the other's timers. A lease that is renewed for ever is
never due, so LeasesEnd is about leases their holders cannot renew.

AofChannel: weak fairness of each channel's goroutine, of LoadAndInit and of
the steps of a Close that has begun; nobody has to push, load or shut down.
Connection: weak fairness of what the two programs do of themselves (`Progress`);
no fairness of breaks, flushes or the user's Close. Since the bounds make every
behaviour finite, one weak fairness for all says the same as one for each.
TextSession: weak fairness of Next for the same reason, with a database that
answers or times out every wait, which is WaitsEnd. No fairness is assumed of
LockDB's clients.

## 6. Proofs

The theorems hold for every value of the constants that meets the modules'
assumptions (finite sets of objects, goroutines, keys and channels, `NIL` and
message names distinct from their members, positive limits, Boolean switches)
and the premises a theorem states. The premises are about the code:

- `LongLeases = FALSE` in all of LockDB but TypeCorrect: no lease is long enough
  for the long expiry queue. With long leases the reference counts are wrong,
  which is what the run `long_lease` shows.
- `DistinctWaits = TRUE` in HoldersReachable and RecordsMatchHolders: no client
  queues two requests with one LockId (`MC_twins.cfg` shows what happens then).
- One Count, within the limit, for all requests of a key in WakeUpsNotLost: a Lock or a
  Semaphore, not a RWLock (`MC_rwlock_wait.cfg`).
- One Count for each LockId in WritersAlone and RecordsMatchHolders (`CountPerId`).
- `PlainLeases` in RecordsMatchHolders: who asks for a lease or an update does not
  reenter (Rcount 0), asks without Flag 0x01 and is no replay, and the positive
  Counts are one number, as for a Lock, a Semaphore or a RWLock. `MC_replay.cfg`
  shows what reentry does to the log. The inputs of `shared` and of `renewal` meet both
  premises.
- `base_node_size <= 2` in LongWaitsIndexed, as db.go:1108 and 1228 make every long
  queue: with more base nodes a Reset after a restructuring could find
  `queue_size` doubled from 0.

| theorem | module | the inductive invariant it rests on |
|---|---|---|
| TypeCorrect | LockDB_proofs | TypeOK itself |
| BookkeepingSafe, ReferencesCounted, LocksCounted | LockDB_proofs | SafetyInv |
| PooledObjectsClean, RemovedManagersClean, RequestsAnsweredOnce, GrantsKeepOrder | LockDB_proofs | AnswerInv |
| WakeUpsNotLost | LockDB_proofs | FullOrWaking |
| WritersAlone | LockDB_proofs | WriterAlone with SafetyInv |
| HoldersReachable | LockDB_proofs | IdInv |
| RecordsMatchHolders | LockDB_proofs | RecordInv |
| ShortQueuesSound, IndexesInRange, NodesIndexed | LockQueue_proofs | QueueInv |
| ShortQueuesAreDeques (a refinement) | LockQueue_proofs | QueueInv, MilliHead |
| HandedOutNotKept | LockQueue_proofs | QueueInv, SlotsClean |
| LongWaitsIndexed | LockQueue_proofs | LongInv |
| KeysHeldOnce, HoldersFound, ManagersAccounted | ManagerIndex_proofs | IndexInv |
| ActiveChannelsCounted, IdleIsFlushed | AofChannel_proofs | ChannelInv |
| RestartReadsTheLog, RewriteSparesOpenFile, FreshFile | Aof_proofs | AofInv |
| RequestsToldOnce, RegistriesRight | Connection_proofs | SessionInv |
| CommandsAreDecoded, ResultsAreDecoded, RecordsAreRestored | Codec_proofs | CodecInv |
| EveryCommandAsSent, EveryReplyAsWritten | TextSession_proofs | Streams of SessionInv |
| EverySessionKeepsOwn | TextSession_proofs | SessionInv |

### LockDB

TypeOK is inductive: the one conjunct that says more than a type, `lock_locked[l]
<= MaxReentry`, is kept by the test of CanReenter, and no counter is typed as a
natural number, which would need the reference counts. The argument has one lemma
per group of actions and, in it, one step for pointers, one for counters and one
for flags; PopFacts, LockSets, HelperTypes and PoolTypes carry the facts about
queues, sets and helpers.

RefsCounted and LockedCounted are not inductive. A step that takes an object out
of a queue changes its count by one only if the object was in the queue once, so
QueuesDistinct is needed; a grant adds a holder and a lease to an object that
waits, so WaitersIdle must say it had neither; `RemoveLock` pops the entries of
`locks` whose lock count is zero, and only HoldersHeld says that what is left
holds the key and that what is promoted has a running lease; `UnLock` finds its
object through `lock_maps`, so MapsToHolders is needed. Their conjunction is
`SafetyInv`, which the run `shared` checks and SafetyInit and SafetyStep prove
inductive together with TypeOK.

The proof separates counting from control. `Releases(S)` and `Acquires(S)` say
which of its four references an object loses or gains in a step, and
ReleaseCounted and AcquireCounted show once that `lock_ref`, the pool and
`ref_count` follow; HoldsUpdate does the same for the sum of all locks. Each
action then has one lemma (QuietSafe for the steps that move only a timer entry,
HolderSafe for renewals and reentries, DropSafe, LeaveSafe for `UnLock` and
`DoExpried`, EnterSafe and QueueSafe for `Lock`, DoTimeOutSafe, WakeIdleSafe and
WakeGrantSafe), with one step per conjunct of SafetyInv.

The second half of LockDB_proofs is about what requests are told. `AnswerInv` says that `waited` is the
queue's emptiness, that a manager is freed exactly when `ref_count` is 0, that a
request without an answer waits and a holder was told SUCCED, that a timer entry
not yet timed out is of a request in the queue, and that only holders are marked
as persisted. Given SafetyInv it is inductive, and PoolClean, ManagerRemovedClean
and the two action properties follow: a removed manager has nothing in any
queue because every reference is counted, and a request whose answer changes is
either waiting and unanswered or holding and told of its expiry.

NoLostWakeUp is about requests that could be granted while nobody is on the way. What
is inductive is that whenever somebody waits, the key is full or a goroutine is
in `WakeUpWaitLocks` (`FullOrWaking`). It survives the unlocked test of `waited`
because WaitedQueue makes the test exact at the moment it is made, and a loop that
gives up because the head must wait found the key full; a request that times
out leaves the others as full as they were, which is where one Count is needed.

WriterAlone: a new holder is admitted by DoLock against `locked` and against the
Count of `current_lock`: a writer only when `locked` is 0, and by LocksCounted that
means nobody holds the key; anybody else only when `current_lock` is no writer, and
the induction hypothesis says that a writer would be `current_lock`, being alone.
A promotion changes no Count; a renewal replaces the holder's command, and one
that turned a reader into a writer would leave it among readers, hence CountPerId.

`IdInv` says that the LockIds of what holds or waits are distinct and that
`lock_maps` has an entry for every holder but `current_lock`. A grant adds a LockId
nobody holds (else it were a reentry or a renewal), and a promotion takes the entry of
`lock_maps` with it.

`RecordInv` is about the log. A replay holds the key once for each persisted holder,
with that holder's Count (`ReplayFollows`), so for no more than hold it (ReplayCounted).
The hard step is a lock that is persisted late: the replay meets it after locks that
were granted later, and must still admit it. That needs that the holders fit the
Count of each of them (`HoldersFit`), which a grant keeps because a writer is alone
(WriterAlone) and all others have one Count: whatever order the log has them in,
each is admitted. A renewal's record finds its LockId holding and, with Rcount 0, is
refused as LOCKED_ERROR unless the object was made by an update, when it
renews: either way the replay holds what it held, with the lease of the first
record in the former case. An UNLOCK finds exactly one lock to take back.

### LockQueue

InRange alone is not inductive: that Pop may step into the next node rests on
every node up to the tail being there (NodeIndexed and `tail_node_index <=
node_index`), that Push makes a node exactly when it must on `node_index <
node_size`, that a new node has a slot at all on `queue_size > 0`, and that Resize
leaves no node behind the new tail on a holder or wait queue having none behind
its old one. These are the conjuncts of `QueueInv`. The proof works on `Shape`
(nodes and counters), `Ends` (head and tail) and `Rest`, with one lemma per
operation. `SizesFit` assumes that base_queue_size times a power of two for every
node within MaxNodes is positive and fits an int32, which is how Resize computes a
size; it holds in the code while a queue of 4 slots has fewer than 30 nodes.

The refinement of Deque lists the slots from head to tail in order. Its proof
first shows that `Rank` numbers the slots of a window without gaps and `Nth` is
its inverse, then that a step which moves an end by one slot adds or takes the
item at that end of the list (`Listed`), and that Resize, which moves whole nodes
down, keeps every rank. MilliHead says that a millisecond queue that is
not being drained has its head in the first node, from which the loop of its timer
counts. SlotsClean is that slots outside the window are
empty, so that Resize and Reset bring nothing back.

A long queue is punched full of holes and `node_index` drifts, so NodeIndexed
and QueueInv are false of it. `LongInv` keeps what is still true: a frame of nodes
that exist from the first to `node_size`, head and tail in it, every lock's
`long_wait_index` the slot it is in and every other slot empty, `free_count` the
holes. It holds until Reset indexes `queues` out of range (`panicked`), where the
drift of `MC_drift.cfg` leads.

### ManagerIndex

`IndexInv` has one part for the slot's lock (who fills it, who clears it), one for
keys (at most one of slot and map leads to a manager, and the manager knows its
key), one for each manager's `glock`, one for what a goroutine knows at each of its
statements, one for the free queue, and one for the counts. ManagersCounted is its
last part with no goroutine between a link and its count. Each named race sets
`raced`, and the invariant is claimed until then: the proof is the argument that
the five are all the races there are.

### Aof

LoadReturnsWritten compares a list of files with a history, and a step changes one
file. `Log` therefore reads a directory as numbered parts put end to end:
`Loaded` gives rewrite.aof as part 0 and append.aof.n as part n, `Rewritten` gives
rewrite.aof.tmp as part 0 and nothing for the files being replaced. `LogInv`
says that the first is the written log, but for expired leases, until the first
file is removed, and the second from the moment rewrite.aof.tmp is complete; the
removal of a file leaves the second as it is, and the rename turns it into
the first. The other parts of `AofInv` are what the steps need: no file is newer than the open
one but the one a rotation has just made (so a record goes to the end of the log, and
a restart's index is free), a file without a header is empty (so a list that is
not cut short is read completely), and RewriteAofFiles works on the oldest files
(so their records may be put in front of all others). All of it is claimed until
`damaged`. That a restart reads `Loaded` needs the list to be in order of
numbers; SortedEnumerates shows that sort.Strings loses and doubles no name, and
the rest is ~OutOfOrder. The theorems hold for indexes up to 98, as AofConstants
says: NameKey orders names of two digits.

Loading and expiring are recursive functions over lists. Their induction is
done once, without operator parameters: Upto, for a set of numbers that has 0 and with each
number the next, from the least number outside it; Lists, the same for a set of lists
closed under Append; Recursion, that a function defined by recursion up
to N exists. UnexpiredConcat, UnexpiredTwice, LogAppends, LogSplits and LoadIsLog
rest on these.

### AofChannel and Connection

ActiveCounted is an invariant by itself once `channel_count` counts the channels
that have not stopped. FlushedWhenIdle says nothing of goroutines on their way
to the receive; what is inductive is that a record in the buffer has a goroutine
with its flush still ahead (`FlushComes`): the last one to leave sees the counter
at 0, and one that sees more leaves the flush to another that is still active.

A waiter is told once because whoever tells it first takes the request out of
`requests` under the lock (`RegisteredUntold`); the rest of `SessionInv` is what
makes the registries lead to open sessions through the two steps of every
session's end and through FLUSHDB's hidden databases.

### Codec

A layout is sound (`WellLaid`) when no two of its fields share a byte and each is as wide as what
it holds. For such a layout EncodedAt says what each byte of a written buffer
is, whatever was in it before, and DecodedEncoded that reading gives back every
field both sides have; the arithmetic is that of a number and its bytes, base 256.
Every layout of the code is shown to be sound.

`CodecInv` has four parts. `InInv`: what is on its way to the server, with what is
already in `rbuf`, is a row of whole commands, each the encoding of the next one
sent, so that a read of 64 bytes starts at the first byte of a command however
the reads before were cut; that is why it says nothing once a short first read
was taken for text. `OutInv`: the same for results, of which every encoder writes
all 64 bytes over what an earlier one left in `wbuf` (that of LOCK and UNLOCK all but
the magic and version, which are the same in every result); and what makes the client close
is the result of a command whose type is not in its switch, since the server puts
its own magic and version into every result.
`PoolInv`: a pooled command is a command of some earlier request, so that each field
must be written before it is used. `LeaseInv`: a record on its way holds the
fields of its lease and its times, the start time within 16 bits of the command's;
LeftOver shows that what Load computes from these 16 bit times is what is left of
the lease whenever they are wide enough for the record (`Recordable`), and that
a lease is skipped exactly when it is over as the load begins.

CodecConstants asks only that scripts are what their types allow and that `Moments`
and `Delays` are numbers of seconds.

### TextSession

What the parsers do for every message is an induction over its bytes. It is made by
the invariant itself: no theorem runs a parser over a message, but each turn of the
parser's loop moves it from one place of the message to a later one.

- The message. `Number` and `Decimal` are inverse to each other (DecimalNumeral).
  CountedBuilt says of a message that `Build` makes where its count, and the length
  line and the bytes of each argument, are, and SingleBuilt the same of a reply of one
  string.
- The place. `Onward(p, w, M, q)`: q bytes of the message M are behind the parser p,
  the next ones are what is left in its `buf`, and the rest is w, which has not been
  read. A read (`Fed`) of any size keeps q; that is all there is to say of how the
  bytes are cut.
- The stage. `Stages(p, m, q)` ties each value of `stage` to the places where it may
  occur and to what the parser has by then: the digits read so far in `carg`, the
  arguments already complete, the first `carg_index` bytes of the one it is in.
  StagesStep shows by stage that a turn of the loop leads to a later place of the same
  message, or to its end with all arguments, or to a cut argument that is miscounted.
- The stream. Until something is miscounted, all commands sent have their reply
  (`Quiet`), or the last one is on its way (`Coming`), with its handler (`InHand`) or
  answered (`Answered`), and what Read returned for every reply is what was built
  (`AllMeant`). `Streams` is inductive by itself, and its client's half is claimed
  until a reply is parsed over the arguments of another (`stale`).
- The result. OwnResult is not inductive: `Turn` adds that while a handler waits
  exactly one of three parties has its result, the session itself that has yet to give
  it (`owed`), `lock_waiter`, or another goroutine for which `lock_request_id` still
  names the request, and `OnlyOne` that no other request of the session waits. Both
  hold until an expiry overtakes the result of its LOCK.

`miscounted`, `overtaken` and `stale` end a behaviour (Next), so the theorems speak of every
step up to and including the one that sets them. TextConstants asks that scripts are
not empty and no longer than MaxLines, and that commands have arguments and these at
least one byte: the parser appends an argument with its first bytes and leaves an
empty one out.

### What is only model-checked

- Liveness (AdmissibleIsGranted, WaitsEnd, LeasesEnd, BootEnds, ShutdownEnds,
  RequestsEnd, SessionsClose, CommandsReplied), which is out of the prover's reach.
- ImplementsDeque for long queues: Deque's Compact is a SelectSeq, which the
  prover's backends know nothing of.

## 7. Not modelled

- **Time.** The slot arithmetic of the timer wheels and the clock; so neither what a
  renewal with the millisecond flag does to `expried_time` (lock.go:148) nor a renewal
  that comes after its lease was collected (db.go:1289) is judged.
- **Close and is_stop of a database**, and pushes that fail on a closed channel.
- **The ring of free managers** as two counters; ManagerIndex takes it as a queue.
- **MemWaiterServerProtocol**, through which loading drops results.
- **The client primitives.** They choose the fields of LOCK and UNLOCK and keep no
  protocol of their own; LockDB gets such commands as inputs. (RWLock.Unlock sends
  LOCK for a writer, rwlock.go:66, which no model here sees.)
- **INFO, SHOW, CONFIG, CLIENT**, configuration, logging and statistics: formatting of
  state and options.
- **Failing system calls**, and code that is called by tests only or by nobody.
