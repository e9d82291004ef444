----------------------------- MODULE MC_LockDB -----------------------------
(* Instances of LockDB for TLC.                                            *)
EXTENDS LockDB, TLC

Request(id, count, rcount, aof) ==
  [id |-> id, wait |-> TRUE, lease |-> TRUE, count |-> count, rcount |-> rcount,
   aof |-> aof, flag |-> "none"]

Release(id, rcount) ==
  [id |-> id, rcount |-> rcount, first |-> FALSE, loaded |-> FALSE]

\* An exclusive lock: a client that reenters and does not wait, a request that waits
\* its turn without a lease, and the replay of the AOF.
ExclusiveLocks ==
  {[Request("a", 0, 2, "never") EXCEPT !.wait = FALSE], Request("b", 0, 0, "loaded"),
   [Request("a", 0, 0, "never") EXCEPT !.lease = FALSE]}

ExclusiveUnlocks ==
  {Release("a", 0), Release("a", 1), [Release("b", 0) EXCEPT !.loaded = TRUE]}

\* A RWLock: a writer and readers, none of them reentrant.
ReadWriteLocks ==
  {Request("w", 0, 0, "never"), Request("r", 2, 0, "now"), Request("s", 2, 0, "never")}

ReadWriteUnlocks == {Release(i, 0) : i \in {"w", "r", "s"}}
                    \cup {[Release("w", 0) EXCEPT !.first = TRUE]}

\* An exclusive lock.
OnePermit == {Request(i, 0, 0, "never") : i \in LockIds}
AllUnlocks == {Release(i, 0) : i \in LockIds}

\* Two permits for leases persisted at once or later that their holders renew
\* (Flag 0x02); requests that ask for the holder (Flag 0x01) or for a reentry
\* without a lease.
HolderLocks ==
  {Request("a", 1, 0, "later"), Request("b", 1, 0, "now"),
   [Request("a", 1, 0, "now") EXCEPT !.flag = "update"],
   [Request("b", 1, 0, "later") EXCEPT !.flag = "update"],
   [Request("b", 1, 2, "now") EXCEPT !.lease = FALSE, !.wait = FALSE],
   [Request("b", 1, 0, "never") EXCEPT !.flag = "show", !.lease = FALSE, !.wait = FALSE]}
HolderUnlocks == {Release("a", 0), [Release("b", 1) EXCEPT !.first = TRUE]}

\* An exclusive lock of which one client reenters.
RenewingLocks == {Request("a", 0, 1, "never"), Request("b", 0, 0, "never")}
RenewingUnlocks == {Release("a", 1), Release("b", 0)}

\* One client of an exclusive lock that also asks who holds it.
ShowLocks == OnePermit \cup {[r EXCEPT !.flag = "show"] : r \in OnePermit}

\* One client that reenters a persisted lock.
ReentrantLocks == {Request("a", 0, 1, "now")}
ReentrantUnlocks == {Release("a", 1)}

\* Two permits for persisted leases.
PersistedLocks == {Request(i, 1, 0, "now") : i \in LockIds}

Symmetry == Permutations(Locks)
=============================================================================
