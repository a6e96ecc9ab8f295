-------------------------------- MODULE EnvLock --------------------------------
(***************************************************************************)
(* Env::LockFile and UnlockFile on the one LOCK file of a database, by     *)
(* threads of several processes, step by step.  The kernel's part is what  *)
(* fcntl(F_SETLK) does: a lock belongs to a process, and closing ANY       *)
(* descriptor of the file gives it up.                                     *)
(***************************************************************************)
EXTENDS Integers, FiniteSets

CONSTANTS
  Procs, LockThreads,
  Platforms       \* of "posix", "boost", "win"

VARIABLES
  platform,
  locked_files_,  \* processes whose PosixLockTable has the file
  klock,          \* the process that has the kernel's lock, 0 if none
  at,             \* where a thread <<p, t>> is
  torn            \* processes that lost the lock to a close of another thread

loVars == <<platform, locked_files_, klock, at, torn>>

Who == Procs \X LockThreads

loInit ==
  /\ platform \in Platforms
  /\ locked_files_ = {} /\ klock = 0 /\ torn = {}
  /\ at = [w \in Who |-> "idle"]

Holders   == {w \in Who : at[w] = "holding"}
Goes(w, from, to) == at[w] = from /\ at' = [at EXCEPT ![w] = to]

\* close(fd): the process loses the lock, even one another thread relies on.
CloseFd(w) ==
  /\ klock' = IF klock = w[1] THEN 0 ELSE klock
  /\ torn' = torn \cup {v[1] : v \in {u \in Holders \ {w} : u[1] = w[1] /\ klock = w[1]}}

Open(w) ==
  /\ platform = "posix" /\ Goes(w, "idle", "open")
  /\ UNCHANGED <<platform, locked_files_, klock, torn>>

\* The table is not consulted.
Insert_Any(w) ==
  /\ Goes(w, "open", "inserted")
  /\ locked_files_' = locked_files_ \cup {w[1]}
  /\ UNCHANGED <<platform, klock, torn>>

Insert(w) ==
  /\ at[w] = "open"
  /\ IF w[1] \in locked_files_ THEN Goes(w, "open", "close") /\ UNCHANGED locked_files_
     ELSE Goes(w, "open", "inserted") /\ locked_files_' = locked_files_ \cup {w[1]}
  /\ UNCHANGED <<platform, klock, torn>>

\* "already held by process"
CloseRefused(w) == Goes(w, "close", "idle") /\ CloseFd(w) /\ UNCHANGED <<platform, locked_files_>>

LockOrUnlock(w) ==
  /\ at[w] = "inserted"
  /\ IF klock \in {0, w[1]}
     THEN Goes(w, "inserted", "holding") /\ klock' = w[1] /\ torn' = torn \ {w[1]}
     ELSE Goes(w, "inserted", "closefail") /\ UNCHANGED <<klock, torn>>
  /\ UNCHANGED <<platform, locked_files_>>

CloseFailed(w) == Goes(w, "closefail", "remove") /\ CloseFd(w) /\ UNCHANGED <<platform, locked_files_>>

Remove(w) ==
  /\ \/ Goes(w, "remove", "idle")
     \/ Goes(w, "unlocked", "closelast")
  /\ locked_files_' = locked_files_ \ {w[1]}
  /\ UNCHANGED <<platform, klock, torn>>

UnlockFile(w) ==
  /\ platform = "posix" /\ Goes(w, "holding", "unlocked")
  /\ klock' = IF klock = w[1] THEN 0 ELSE klock
  /\ UNCHANGED <<platform, locked_files_, torn>>

CloseUnlocked(w) == Goes(w, "closelast", "idle") /\ CloseFd(w) /\ UNCHANGED <<platform, locked_files_>>

\* boost::interprocess::file_lock waits for the lock, which is the process's.
BoostLockFile(w) ==
  /\ platform = "boost" /\ klock \in {0, w[1]}
  /\ Goes(w, "idle", "holding") /\ klock' = w[1]
  /\ UNCHANGED <<platform, locked_files_, torn>>

BoostUnlockFile(w) ==
  /\ platform = "boost" /\ Goes(w, "holding", "idle") /\ CloseFd(w)
  /\ UNCHANGED <<platform, locked_files_>>

\* LockFileEx without LOCKFILE_EXCLUSIVE_LOCK, and not at all if LOCK is empty.
WinLockFile(w) ==
  /\ platform = "win" /\ Goes(w, "idle", "holding")
  /\ UNCHANGED <<platform, locked_files_, klock, torn>>

WinUnlockFile(w) ==
  /\ platform = "win" /\ Goes(w, "holding", "idle")
  /\ UNCHANGED <<platform, locked_files_, klock, torn>>

Exit(p) ==
  /\ \E w \in Who : w[1] = p /\ at[w] # "idle"
  /\ at' = [w \in Who |-> IF w[1] = p THEN "idle" ELSE at[w]]
  /\ klock' = IF klock = p THEN 0 ELSE klock
  /\ locked_files_' = locked_files_ \ {p} /\ torn' = torn \ {p}
  /\ UNCHANGED platform

loNext ==
  \/ \E w \in Who :
       \/ Open(w) \/ Insert(w) \/ CloseRefused(w) \/ LockOrUnlock(w) \/ CloseFailed(w)
       \/ Remove(w) \/ UnlockFile(w) \/ CloseUnlocked(w)
       \/ BoostLockFile(w) \/ BoostUnlockFile(w)
       \/ WinLockFile(w) \/ WinUnlockFile(w)
  \/ \E p \in Procs : Exit(p)

loSpec == loInit /\ [][loNext]_loVars

(***************************************************************************)
(* "Used to prevent concurrent access to the same db by multiple           *)
(* processes" (env.h, LockFile): nobody else has the file locked.          *)
(***************************************************************************)
LockExclusive == Cardinality(Holders) <= 1

(***************************************************************************)
(* What PosixEnv does guarantee: never two threads of one process, and two *)
(* processes only if one of them closed another descriptor of the file     *)
(* while it had the lock (LockFile's refusal and UnlockFile's last close,  *)
(* PosixLockTable).                                                        *)
(***************************************************************************)
LockHeldOnce ==
  platform = "posix" =>
    \A v, w \in Holders : v # w => v[1] # w[1] /\ {v[1], w[1]} \cap torn # {}
================================================================================
