-------------------------------- MODULE Aof --------------------------------
(* The files of the append only log (Aof and AofFile of server/aof.go): the  *)
(* file being appended to and its write buffer, rotation, the rewriting of   *)
(* closed files into rewrite.aof, the end of the process at any moment, and  *)
(* LoadAndInit. The channels that feed PushLock and Flush are AofChannel.    *)
(* A record is abstracted to the lease it locks or unlocks; whether it is    *)
(* read back depends on the lease having expired. Failing system calls,      *)
(* which the code retries or logs, are not modelled.                         *)
EXTENDS Integers, Sequences, FiniteSets, SequencesExt

CONSTANTS
  Leases,
  RewriteSize,            \* aof_file_rewrite_size, in records
  BufferSize,             \* aof_file_buffer_size, in records
  FirstIndex,             \* the index reached by rotations before the run
  MaxIndex,               \* bound: aof_file_index
  MaxRestarts             \* bound: ends of the process

ASSUME AofConstants ==
  /\ RewriteSize \in Nat \ {0} /\ BufferSize \in Nat \ {0}
  /\ FirstIndex \in Nat \ {0} /\ MaxIndex \in FirstIndex..98
  /\ MaxRestarts \in Nat

VARIABLES
  files,                  \* the data directory: name -> what a reader finds
  aof_file,               \* the open file: name, offset, records in its wbuf
  aof_file_index,
  opening,                \* who is inside RewriteAofFile, and the file it created
  waiting,                \* goroutines started for RewriteAofFiles
  rewrite,                \* the one past the is_rewriting test
  lease,                  \* of each lease: what LockDB has done with it
  expired,                \* leases whose time is over
  running, restarts,
  written,                \* history: every record that has left the buffer
  damaged                 \* history: a known hazard has hit the log, see Exposed

disk == <<files, aof_file, aof_file_index, opening>>
rewriter == <<waiting, rewrite>>
db == <<lease, expired>>
process == <<running, restarts>>
vars == <<disk, rewriter, db, process, written, damaged>>

Record == [op : {"lock", "unlock"}, lease : Leases]

\* File names: append.aof.<n> is n.
RewriteFile == 0
TmpFile == -1
Appends == 1..(MaxIndex + 1)
Names == {TmpFile, RewriteFile} \cup Appends
NoFile == [name |-> TmpFile, off |-> 0, buf |-> <<>>]
Rotators == {"push", "admin"}
Idle == [at |-> "idle", names |-> <<>>]

File == [header : BOOLEAN, recs : Seq(Record)]
Empty == [header |-> FALSE, recs |-> <<>>]

TypeOK ==
  /\ DOMAIN files \subseteq Names /\ files \in [DOMAIN files -> File]
  /\ aof_file \in [name : Names, off : Nat, buf : Seq(Record)]
  /\ aof_file_index \in Nat
  /\ opening \in [Rotators -> {0} \cup Appends]
  /\ waiting \in Nat
  /\ rewrite \in [at : {"idle", "load", "clear", "cleared"}, names : Seq(Names)]
  /\ lease \in [Leases -> {"new", "held", "gone"}] /\ expired \subseteq Leases
  /\ running \in BOOLEAN /\ restarts \in 0..MaxRestarts
  /\ written \in Seq(Record) /\ damaged \in BOOLEAN
-----------------------------------------------------------------------------
(* Files.                                                                    *)

Open(fs, f) ==
  IF f \in DOMAIN fs THEN fs ELSE [g \in DOMAIN fs \cup {f} |-> IF g = f THEN Empty ELSE fs[g]]

RemoveFile(fs, f) == [g \in DOMAIN fs \ {f} |-> fs[g]]

\* Open does not truncate: what was beyond the records written now stays.
Overwrite(recs, off, new) ==
  SubSeq(recs, 1, off) \o new \o SubSeq(recs, off + Len(new) + 1, Len(recs))

\* A write through the handle of a file; a removed file takes it along.
WriteAt(fs, f, off, new) ==
  IF f \in DOMAIN fs /\ off <= Len(fs[f].recs)
    THEN [fs EXCEPT ![f].recs = Overwrite(@, off, new)]
    ELSE fs

WriteHeader(fs, f) == IF f \in DOMAIN fs THEN [fs EXCEPT ![f].header = TRUE] ELSE fs

\* sort.Strings compares names: append.aof.10 comes before append.aof.2.
NameKey(n) == IF n < 10 THEN 100 * n ELSE 10 * n + 1

SortedByName(found) ==
  LET Rank(n) == Cardinality({m \in found : NameKey(m) <= NameKey(n)})
  IN [k \in 1..Cardinality(found) |-> CHOOSE n \in found : Rank(n) = k]

FindAofFiles(fs) == SortedByName(DOMAIN fs \cap Appends)

WithRewriteFile_Last(fs, appends) ==
  appends \o (IF RewriteFile \in DOMAIN fs THEN <<RewriteFile>> ELSE <<>>)

WithRewriteFile(fs, appends) ==
  (IF RewriteFile \in DOMAIN fs THEN <<RewriteFile>> ELSE <<>>) \o appends

AllAofFiles(fs) == WithRewriteFile(fs, FindAofFiles(fs))

FindRewriteAofFiles_All ==
  WithRewriteFile(files, SortedByName({n \in DOMAIN files \cap Appends : n <= aof_file_index}))

FindRewriteAofFiles ==
  WithRewriteFile(files, SortedByName({n \in DOMAIN files \cap Appends : n < aof_file_index}))

\* Loading skips the records whose leases have expired.
Unexpired(recs, over) ==
  LET kept[k \in 0..Len(recs)] ==
        IF k = 0 THEN <<>>
        ELSE IF recs[k].lease \in over THEN kept[k - 1] ELSE Append(kept[k - 1], recs[k])
  IN kept[Len(recs)]

Live(recs) == Unexpired(recs, expired)

\* An empty file ends the loading: ReadHeader returns io.EOF.
Readable(fs, names) ==
  {k \in DOMAIN names : \A j \in 1..k : fs[names[j]].header}

LoadAofFiles(fs, names) ==
  LET recs[k \in 0..Len(names)] ==
        IF k = 0 THEN <<>>
        ELSE recs[k - 1] \o (IF k \in Readable(fs, names) THEN Live(fs[names[k]].recs) ELSE <<>>)
  IN recs[Len(names)]

\* Replaying the records one after the other through LockDB.
HeldAfter(recs) ==
  {l \in Leases : \E k \in DOMAIN recs :
     /\ recs[k] = [op |-> "lock", lease |-> l]
     /\ \A j \in (k + 1)..Len(recs) : recs[j] # [op |-> "unlock", lease |-> l]}
-----------------------------------------------------------------------------
(* The hazards of this code: moments when the files do not hold the log.     *)

\* ClearRewriteAofFiles removes the old files before it renames the new one.
BetweenRemoveAndRename == rewrite.at = "cleared"

OutOfOrder(names) ==
  \E j, k \in DOMAIN names : j < k /\ names[j] > names[k] /\ names[k] # RewriteFile

StopsShort(fs, names) ==
  \E k \in DOMAIN names : ~fs[names[k]].header /\ k < Len(names)

Exposed ==
  \/ BetweenRemoveAndRename
  \/ OutOfOrder(AllAofFiles(files))
  \/ StopsShort(files, AllAofFiles(files))
-----------------------------------------------------------------------------
(* Appending.                                                                *)

\* Under aof_file_glock, which the rotation of a PushLock keeps.
HasFile == running /\ opening["push"] = 0 /\ aof_file # NoFile

\* What a PushLock of r writes out: everything when the file has reached its
\* size and is closed, the old records when the buffer was full.
Rotates(r) == aof_file.off + Len(aof_file.buf) + 1 >= RewriteSize

WrittenBy(r) ==
  IF Rotates(r) THEN Append(aof_file.buf, r)
  ELSE IF Len(aof_file.buf) = BufferSize THEN aof_file.buf ELSE <<>>

PushLock(r) ==
  /\ HasFile /\ aof_file_index < MaxIndex
  /\ LET out == WrittenBy(r)
         buf == SubSeq(Append(aof_file.buf, r), Len(out) + 1, Len(aof_file.buf) + 1)
         fs == WriteAt(files, aof_file.name, aof_file.off, out)
     IN /\ written' = written \o out
        /\ IF Rotates(r)
             THEN /\ files' = Open(fs, aof_file_index + 1)
                  /\ opening' = [opening EXCEPT !["push"] = aof_file_index + 1]
                  /\ aof_file' = NoFile
             ELSE /\ files' = fs
                  /\ aof_file' = [aof_file EXCEPT !.off = @ + Len(out), !.buf = buf]
                  /\ UNCHANGED opening
  /\ UNCHANGED <<aof_file_index, rewriter, process, damaged>>

Push(l) ==
  \/ /\ lease[l] = "new" /\ l \notin expired
     /\ PushLock([op |-> "lock", lease |-> l])
     /\ lease' = [lease EXCEPT ![l] = "held"] /\ UNCHANGED expired
  \/ /\ lease[l] = "held"
     /\ PushLock([op |-> "unlock", lease |-> l])
     /\ lease' = [lease EXCEPT ![l] = "gone"] /\ UNCHANGED expired

Flush ==
  /\ HasFile /\ aof_file.buf # <<>>
  /\ files' = WriteAt(files, aof_file.name, aof_file.off, aof_file.buf)
  /\ written' = written \o aof_file.buf
  /\ aof_file' = [aof_file EXCEPT !.off = @ + Len(aof_file.buf), !.buf = <<>>]
  /\ UNCHANGED <<aof_file_index, opening, rewriter, db, process, damaged>>

\* REWRITEAOF and BGREWRITEAOF call RewriteAofFile without aof_file_glock. When
\* a PushLock is rotating, both open the same file and count the index twice.
AdminRewriteAof ==
  /\ running /\ opening["admin"] = 0 /\ aof_file_index < MaxIndex
  /\ files' = Open(WriteAt(files, aof_file.name, aof_file.off, aof_file.buf), aof_file_index + 1)
  /\ written' = written \o aof_file.buf
  /\ aof_file' = NoFile
  /\ opening' = [opening EXCEPT !["admin"] = aof_file_index + 1]
  /\ damaged' = (damaged \/ opening["push"] # 0)
  /\ UNCHANGED <<aof_file_index, rewriter, db, process>>

\* The rest of RewriteAofFile: the header, the new aof_file, and the goroutine.
OpenAofFile(who) ==
  /\ running /\ opening[who] # 0
  /\ files' = WriteHeader(files, opening[who])
  /\ aof_file' = [name |-> opening[who], off |-> 0, buf |-> <<>>]
  /\ aof_file_index' = aof_file_index + 1
  /\ opening' = [opening EXCEPT ![who] = 0]
  /\ waiting' = waiting + 1
  /\ UNCHANGED <<rewrite, db, process, written, damaged>>
-----------------------------------------------------------------------------
(* RewriteAofFiles.                                                          *)

RewriteAofFiles ==
  /\ running /\ waiting > 0
  /\ waiting' = waiting - 1
  /\ IF rewrite.at # "idle" \/ FindRewriteAofFiles = <<>>
       THEN UNCHANGED <<files, rewrite>>
       ELSE /\ rewrite' = [at |-> "load", names |-> FindRewriteAofFiles]
            /\ files' = WriteHeader(Open(files, TmpFile), TmpFile)
  /\ UNCHANGED <<aof_file, aof_file_index, opening, db, process, written, damaged>>

LoadRewriteAofFiles ==
  /\ running /\ rewrite.at = "load"
  /\ LET recs == LoadAofFiles(files, rewrite.names)
     IN /\ files' = WriteAt(files, TmpFile, 0, recs)
        /\ damaged' = (\/ damaged
                       \/ OutOfOrder(rewrite.names) \/ StopsShort(files, rewrite.names)
                       \/ Len(files[TmpFile].recs) > Len(recs))
  /\ rewrite' = [rewrite EXCEPT !.at = "clear"]
  /\ UNCHANGED <<aof_file, aof_file_index, opening, waiting, db, process, written>>

\* ClearRewriteAofFiles, one system call at a time.
ClearRewriteAofFiles ==
  /\ running /\ rewrite.at \in {"clear", "cleared"} /\ rewrite.names # <<>>
  /\ files' = RemoveFile(files, Head(rewrite.names))
  /\ rewrite' = [at |-> "cleared", names |-> Tail(rewrite.names)]
  /\ UNCHANGED <<aof_file, aof_file_index, opening, waiting, db, process, written, damaged>>

RenameRewriteFile ==
  /\ running /\ rewrite.at = "cleared" /\ rewrite.names = <<>>
  /\ files' = RemoveFile([f \in DOMAIN files \cup {RewriteFile} |->
                        IF f = RewriteFile THEN files[TmpFile] ELSE files[f]], TmpFile)
  /\ rewrite' = Idle
  /\ UNCHANGED <<aof_file, aof_file_index, opening, waiting, db, process, written, damaged>>
-----------------------------------------------------------------------------
(* The end of the process and LoadAndInit.                                   *)

\* A crash, or Aof.Close, which closes the file without flushing its buffer.
\* A PushLock or a Flush that finds aof_file nil in the middle of a REWRITEAOF
\* panics and is this step too.
Stop ==
  /\ running /\ restarts < MaxRestarts
  /\ running' = FALSE /\ restarts' = restarts + 1
  /\ aof_file' = NoFile /\ opening' = [who \in Rotators |-> 0]
  /\ waiting' = 0 /\ rewrite' = Idle
  /\ damaged' = (damaged \/ Exposed)
  /\ UNCHANGED <<files, aof_file_index, db, written>>

\* The file after the last of the sorted list.
NextIndex_Reused(appends) == IF appends = <<>> THEN 1 ELSE Last(appends)

NextIndex(appends) == IF appends = <<>> THEN 1 ELSE Last(appends) + 1

LoadAndInit ==
  /\ ~running
  /\ LET appends == FindAofFiles(files)
         index == NextIndex(appends)
         held == HeldAfter(LoadAofFiles(files, AllAofFiles(files)))
     IN /\ index <= MaxIndex
        /\ files' = WriteHeader(Open(files, index), index)
        /\ aof_file' = [name |-> index, off |-> 0, buf |-> <<>>]
        /\ aof_file_index' = index
        /\ waiting' = IF appends = <<>> THEN 0 ELSE 1
        /\ lease' = [l \in Leases |-> IF l \in held THEN "held"
                                      ELSE IF lease[l] = "new" THEN "new" ELSE "gone"]
  /\ running' = TRUE
  /\ UNCHANGED <<opening, rewrite, expired, restarts, written, damaged>>

Expire(l) ==
  /\ l \notin expired /\ lease[l] # "new"
  /\ expired' = expired \cup {l}
  /\ UNCHANGED <<disk, rewriter, lease, process, written, damaged>>
-----------------------------------------------------------------------------
Init ==
  /\ files = [f \in {FirstIndex} |-> [header |-> TRUE, recs |-> <<>>]]
  /\ aof_file = [name |-> FirstIndex, off |-> 0, buf |-> <<>>]
  /\ aof_file_index = FirstIndex
  /\ opening = [who \in Rotators |-> 0]
  /\ waiting = 0 /\ rewrite = Idle
  /\ lease = [l \in Leases |-> "new"] /\ expired = {}
  /\ running = TRUE /\ restarts = 0
  /\ written = <<>> /\ damaged = FALSE

Step ==
  \/ \E l \in Leases : Push(l) \/ Expire(l)
  \/ Flush
  \/ AdminRewriteAof
  \/ \E who \in Rotators : OpenAofFile(who)
  \/ RewriteAofFiles
  \/ LoadRewriteAofFiles
  \/ ClearRewriteAofFiles
  \/ RenameRewriteFile
  \/ Stop
  \/ LoadAndInit

\* Bound: a log is followed until it is damaged.
Next == ~damaged /\ Step

Spec == Init /\ [][Next]_vars
-----------------------------------------------------------------------------
(* Properties.                                                               *)

\* Unless one of the named hazards is or was at work, a restart at this moment
\* would read back exactly the records that have left the buffer and whose
\* leases have not expired, in the order they were pushed: rotation, the
\* rewriting goroutine, earlier restarts and the index a restart chooses lose,
\* double and reorder none of them.
LoadReturnsWritten ==
  (~damaged /\ ~Exposed) =>
    LoadAofFiles(files, AllAofFiles(files)) = Live(written)

\* RewriteAofFiles never reads and removes the file that is being appended to,
\* or that a rotation is about to append to: what it misses would be lost.
OpenFileNotRewritten ==
  (~damaged /\ rewrite.at # "idle") =>
    /\ aof_file # NoFile => aof_file.name \notin ToSet(rewrite.names)
    /\ \A who \in Rotators : opening[who] \notin ToSet(rewrite.names) \ {RewriteFile}

\* A restart never appends to a file that already has records: Open does not
\* truncate, so they would be overwritten, and come back when the write is short.
\* (With the types.)
AppendsToFreshFile ==
  /\ TypeOK
  /\ (~damaged /\ aof_file # NoFile /\ aof_file.name \in DOMAIN files) =>
       aof_file.off = Len(files[aof_file.name].recs)
=============================================================================
