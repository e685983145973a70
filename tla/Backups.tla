------------------------------- MODULE Backups -------------------------------
(***************************************************************************)
(* The rotated files of the file adapter, adapters/outputs/file/           *)
(* rotation.go: the writer names and renames, while the compressor         *)
(* goroutine compresses one file after the other and removes the excess,   *)
(* all in one directory.                                                   *)
(***************************************************************************)
EXTENDS Integers, Sequences, FiniteSets

CONSTANTS Retentions,    \* [compress, age, count]: compress, maxAge and maxBackups
          MaxRotations,  \* bound: rotations
          MaxDirTime,    \* bound: the clock
          MaxFailures    \* bound: compressions that fail

ASSUME BackupsAssumption ==
    /\ MaxRotations \in Nat /\ MaxDirTime \in Nat /\ MaxFailures \in Nat
    /\ Retentions \subseteq [compress : BOOLEAN, age : Int, count : Int]

VARIABLES retention,
          dir,        \* the files beside the log: name -> [mtime, holds], holds a rotation or 0
          dirTime,    \* time.Now, in milliseconds
          opened,     \* when the log file was opened
          queue,      \* compressor.files
          comp,       \* the compressor: where it is, its file, the files it removes
          rotations, failures,
          dropped,    \* history: rotations whose files retention removed
          sinceList     \* history: rotations since the last listing, or -1 before the first

backupVars == <<retention, dir, dirTime, opened, queue, comp, rotations, failures, dropped, sinceList>>

\* path.lock begins like a backup, and is one to retention.
LockName == [ms |-> -1, n |-> 0, gz |-> FALSE]
Gz(f) == [ms |-> f.ms, n |-> f.n, gz |-> TRUE]
Removed(d, names) == [f \in DOMAIN d \ names |-> d[f]]
With1(d, f, file) == [x \in DOMAIN d \union {f} |-> IF x = f THEN file ELSE d[x]]
Idle == [at |-> "idle", file |-> LockName, excess |-> {}]

BackupsInit ==
    /\ retention \in Retentions
    /\ \E lock \in BOOLEAN : dir = IF lock THEN [f \in {LockName} |-> [mtime |-> 0, holds |-> 0]] ELSE <<>>
    /\ dirTime = 0 /\ opened = 0
    /\ queue = <<>> /\ comp = Idle
    /\ rotations = 0 /\ failures = 0 /\ dropped = {} /\ sinceList = -1

\* Mutant: a name is free unless there is a file that was not compressed.
BackupNamePlain(d, now) ==
    LET name(i) == [ms |-> now, n |-> i, gz |-> FALSE]
        free == {i \in 0 .. MaxRotations : name(i) \notin DOMAIN d}
    IN  name(CHOOSE i \in free : \A j \in free : i <= j)

\* backupName: the millisecond, and a counter while the name or its .gz exists.
BackupName(d, now) ==
    LET name(i) == [ms |-> now, n |-> i, gz |-> FALSE]
        free == {i \in 0 .. MaxRotations : name(i) \notin DOMAIN d /\ Gz(name(i)) \notin DOMAIN d}
    IN  name(CHOOSE i \in free : \A j \in free : i <= j)

\* swapFile and compressor.Add; a renamed file keeps the time of its last write.
RotateFile ==
    LET backup == BackupName(dir, dirTime)
    IN  /\ rotations < MaxRotations
        /\ rotations' = rotations + 1
        /\ \E written \in opened .. dirTime :
              dir' = With1(dir, backup, [mtime |-> written, holds |-> rotations + 1])
        /\ opened' = dirTime
        /\ queue' = Append(queue, backup)
        /\ sinceList' = IF sinceList < 0 THEN sinceList ELSE sinceList + 1
        /\ UNCHANGED <<retention, dirTime, comp, failures, dropped>>

\* The next file: none to compress when compression is off or retention took it.
TakeBackup ==
    /\ comp.at = "idle" /\ queue # <<>>
    /\ queue' = Tail(queue)
    /\ comp' = [comp EXCEPT !.file = Head(queue),
                            !.at = IF retention.compress /\ Head(queue) \in DOMAIN dir THEN "create" ELSE "list"]
    /\ UNCHANGED <<retention, dir, dirTime, opened, rotations, failures, dropped, sinceList>>

\* compressFile: the destination is created, or emptied ...
CreateGz ==
    /\ comp.at = "create"
    /\ dir' = With1(dir, Gz(comp.file), [mtime |-> dirTime, holds |-> 0])
    /\ comp' = [comp EXCEPT !.at = "copy"]
    /\ UNCHANGED <<retention, dirTime, opened, queue, rotations, failures, dropped, sinceList>>

\* ... and filled, and only then is the source removed;
CopyGz ==
    /\ comp.at = "copy"
    /\ dir' = With1(dir, Gz(comp.file), [mtime |-> dirTime, holds |-> dir[comp.file].holds])
    /\ comp' = [comp EXCEPT !.at = "remove"]
    /\ UNCHANGED <<retention, dirTime, opened, queue, rotations, failures, dropped, sinceList>>

RemoveSource ==
    /\ comp.at = "remove"
    /\ dir' = Removed(dir, {comp.file})
    /\ comp' = [comp EXCEPT !.at = "list"]
    /\ UNCHANGED <<retention, dirTime, opened, queue, rotations, failures, dropped, sinceList>>

\* a compression that fails leaves both, the destination as far as it got.
CompressFails ==
    /\ comp.at \in {"create", "copy"} /\ failures < MaxFailures
    /\ failures' = failures + 1
    /\ comp' = [comp EXCEPT !.at = "list"]
    /\ UNCHANGED <<retention, dir, dirTime, opened, queue, rotations, dropped, sinceList>>

Held(names) == {dir[f].holds : f \in names} \ {0}

\* cleanupOldBackups: the files that are too old go, and of the others the ones
\* least recently written; among equal times any, since the sort is not stable.
ListBackups ==
    LET old == {f \in DOMAIN dir : retention.age > 0 /\ dir[f].mtime < dirTime - retention.age}
        rest == DOMAIN dir \ old
        over == IF retention.count > 0 THEN Cardinality(rest) - retention.count ELSE 0
    IN  /\ comp.at = "list"
        /\ \E excess \in SUBSET rest :
              /\ Cardinality(excess) = (IF over > 0 THEN over ELSE 0)
              /\ \A f \in excess, g \in rest \ excess : dir[f].mtime <= dir[g].mtime
              /\ comp' = [comp EXCEPT !.at = "trim", !.excess = excess]
        /\ dir' = Removed(dir, old)
        /\ dropped' = dropped \union Held(old)
        /\ sinceList' = 0
        /\ UNCHANGED <<retention, dirTime, opened, queue, rotations, failures>>

RemoveExcess ==
    /\ comp.at = "trim"
    /\ dir' = Removed(dir, comp.excess)
    /\ dropped' = dropped \union Held(comp.excess)
    /\ comp' = Idle
    /\ UNCHANGED <<retention, dirTime, opened, queue, rotations, failures, sinceList>>

DirTimePasses ==
    /\ dirTime < MaxDirTime
    /\ dirTime' = dirTime + 1
    /\ UNCHANGED <<retention, dir, opened, queue, comp, rotations, failures, dropped, sinceList>>

BackupsNext ==
    \/ RotateFile \/ TakeBackup \/ CreateGz \/ CopyGz \/ RemoveSource \/ CompressFails
    \/ ListBackups \/ RemoveExcess \/ DirTimePasses

-----------------------------------------------------------------------------
\* At every moment of a compression, of a removal and of the rotations meanwhile,
\* also of several in one millisecond, what was rotated is in some file, complete,
\* unless retention removed it; and when the compressor rests, the backups are at
\* most maxBackups and those rotated since it listed them (rotation.go backupName,
\* rotateAsync, cleanupOldBackups).
BackupsKept ==
    /\ \A r \in 1 .. rotations : r \in dropped \/ \E f \in DOMAIN dir : dir[f].holds = r
    /\ (comp.at = "idle" /\ sinceList >= 0 /\ retention.count > 0)
          => Cardinality(DOMAIN dir) <= retention.count + sinceList
=============================================================================
