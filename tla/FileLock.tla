------------------------------ MODULE FileLock ------------------------------
(***************************************************************************)
(* adapters/outputs/file/file_lock.go: processes that share a log file     *)
(* lock <path>.lock with flock, and write their pid into it.  One that     *)
(* finds it locked removes it if the pid is of a dead process.  A removed  *)
(* file lives on for those who have it open, locks included.               *)
(***************************************************************************)
EXTENDS Integers, FiniteSets

CONSTANTS Processes,  \* processes, which are their pids
          MaxFiles,   \* bound: lock files ever created
          MaxTries    \* bound: TryLock calls

ASSUME FileLockAssumption == MaxFiles \in Nat \ {0} /\ MaxTries \in Nat
ASSUME ProcessesAssumption == "" \notin Processes

VARIABLES lockPath, \* the file <path>.lock names, 0 if none
          pidIn,    \* per file: the pid in it, or "" while it is empty
          locked,   \* per file: the process that has it flocked, or ""
          proc,     \* per process: where it is, and the file it has open
          files, tries,
          robbed    \* history: the file was removed while another live process had it open

lockVars == <<lockPath, pidIn, locked, proc, files, tries, robbed>>

Nobody == ""

LockInit ==
    /\ lockPath = 0
    /\ pidIn = [i \in 1 .. MaxFiles |-> Nobody]
    /\ locked = [i \in 1 .. MaxFiles |-> Nobody]
    /\ proc = [p \in Processes |-> [at |-> "idle", file |-> 0]]
    /\ files = 0 /\ tries = 0
    /\ robbed = FALSE

At(p, at) == proc' = [proc EXCEPT ![p].at = at]

\* TryLock opens the file, or creates it.
OpenLockFile(p) ==
    /\ proc[p].at = "idle" /\ tries < MaxTries
    /\ tries' = tries + 1
    /\ IF lockPath # 0 THEN UNCHANGED <<lockPath, files>>
       ELSE files < MaxFiles /\ files' = files + 1 /\ lockPath' = files + 1
    /\ proc' = [proc EXCEPT ![p] = [at |-> "flock", file |-> lockPath']]
    /\ UNCHANGED <<pidIn, locked, robbed>>

\* Mutant: an error of flock is ignored.
FlockIgnored(p) ==
    /\ proc[p].at = "flock"
    /\ locked' = [locked EXCEPT ![proc[p].file] = p]
    /\ At(p, "truncate")
    /\ UNCHANGED <<lockPath, pidIn, files, tries, robbed>>

\* flock, without waiting: ErrLockHeld if another has the file.
Flock(p) ==
    /\ proc[p].at = "flock"
    /\ IF locked[proc[p].file] = Nobody
       THEN locked' = [locked EXCEPT ![proc[p].file] = p] /\ At(p, "truncate")
       ELSE proc' = [proc EXCEPT ![p] = [at |-> "stale", file |-> 0]] /\ UNCHANGED locked
    /\ UNCHANGED <<lockPath, pidIn, files, tries, robbed>>

\* writePID truncates the file ...
Truncate(p) ==
    /\ proc[p].at = "truncate"
    /\ pidIn' = [pidIn EXCEPT ![proc[p].file] = Nobody]
    /\ At(p, "pid")
    /\ UNCHANGED <<lockPath, locked, files, tries, robbed>>

\* ... and writes; if it cannot, the lock is given back and TryLock fails.
WritePID(p) ==
    /\ proc[p].at = "pid"
    /\ \/ /\ pidIn' = [pidIn EXCEPT ![proc[p].file] = p]
          /\ At(p, "holds")
          /\ UNCHANGED locked
       \/ /\ locked' = [locked EXCEPT ![proc[p].file] = Nobody]
          /\ proc' = [proc EXCEPT ![p] = [at |-> "idle", file |-> 0]]
          /\ UNCHANGED pidIn
    /\ UNCHANGED <<lockPath, files, tries, robbed>>

\* isLockStale: no file is not stale; an empty one is (pid 0 is nobody), and one
\* whose process is dead.  Otherwise Lock sleeps and tries again, or times out.
IsLockStale(p) ==
    LET pid == pidIn[lockPath]
    IN  /\ proc[p].at = "stale"
        /\ At(p, IF lockPath # 0 /\ (pid = Nobody \/ proc[pid].at = "dead") THEN "break" ELSE "idle")
        /\ UNCHANGED <<lockPath, pidIn, locked, files, tries, robbed>>

\* The file the path names now is removed, whoever has it.
Unlink(p) ==
    /\ lockPath' = 0
    /\ robbed' = (robbed \/ (lockPath # 0 /\ \E q \in Processes \ {p} : proc[q].file = lockPath))

BreakStaleLock(p) ==
    /\ proc[p].at = "break"
    /\ Unlink(p)
    /\ At(p, "idle")
    /\ UNCHANGED <<pidIn, locked, files, tries>>

\* Unlock: the flock is given back, the file closed ...
UnlockFlock(p) ==
    /\ proc[p].at = "holds"
    /\ locked' = [locked EXCEPT ![proc[p].file] = Nobody]
    /\ proc' = [proc EXCEPT ![p] = [at |-> "remove", file |-> 0]]
    /\ UNCHANGED <<lockPath, pidIn, files, tries, robbed>>

\* ... and removed.
UnlockRemove(p) ==
    /\ proc[p].at = "remove"
    /\ Unlink(p)
    /\ At(p, "idle")
    /\ UNCHANGED <<pidIn, locked, files, tries>>

\* A process dies: the system gives its flock back; its pid stays in the file.
Dies(p) ==
    /\ proc[p].at # "dead"
    /\ proc' = [proc EXCEPT ![p] = [at |-> "dead", file |-> 0]]
    /\ locked' = [i \in DOMAIN locked |-> IF locked[i] = p THEN Nobody ELSE locked[i]]
    /\ UNCHANGED <<lockPath, pidIn, files, tries, robbed>>

LockNext ==
    \E p \in Processes :
       \/ OpenLockFile(p) \/ Flock(p) \/ Truncate(p) \/ WritePID(p) \/ IsLockStale(p)
       \/ BreakStaleLock(p) \/ UnlockFlock(p) \/ UnlockRemove(p) \/ Dies(p)

-----------------------------------------------------------------------------
\* Two processes hold the lock of one log file only if somebody removed the lock
\* file while another live process had it open; every holder has its own file
\* locked, with its pid in it, whoever broke locks or died before; and a process
\* that died keeps nothing locked (adapters/outputs/file/file_lock.go TryLock,
\* Lock, Unlock).
FileLockExclusive ==
    LET holders == {p \in Processes : proc[p].at = "holds"}
    IN  /\ ~robbed => Cardinality(holders) <= 1
        /\ \A p \in holders : locked[proc[p].file] = p /\ pidIn[proc[p].file] = p
        /\ \A i \in DOMAIN locked : locked[i] # Nobody => proc[locked[i]].at \in {"truncate", "pid", "holds"}
=============================================================================
