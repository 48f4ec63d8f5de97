----------------------------- MODULE ProjectLock -----------------------------
(***************************************************************************)
(* What LockManager promises of one key: a mutex whose holder may die, and *)
(* whose TTL may run out under a holder that still works.  ManualCheck and *)
(* SheetsRun implement it, one for lock:project:{id}:manual and the other  *)
(* for lock:project:{id}:sheets.                                           *)
(***************************************************************************)
EXTENDS Naturals, FiniteSets

CONSTANTS Runs,  \* who may take the lock; a run stands for its random token
          NoLock \* the key is absent: no member of Runs

VARIABLES
    lock,    \* the value of the key
    working, \* runs between their acquire and the end of their release
    lapsed   \* runs whose TTL ran out while they worked

lockVars == <<lock, working, lapsed>>

LockInit == lock = NoLock /\ working = {} /\ lapsed = {}

\* SET NX PX.
Acquire(r) ==
    /\ lock = NoLock /\ r \notin working
    /\ lock' = r /\ working' = working \cup {r}
    /\ UNCHANGED lapsed

\* The Lua script deletes no token but the run's own.
Release(r) ==
    /\ r \in working
    /\ lock' = IF lock = r THEN NoLock ELSE lock
    /\ working' = working \ {r}
    /\ UNCHANGED lapsed

\* Its process dies, or Redis does not answer the release.
Abandon(r) ==
    /\ r \in working
    /\ working' = working \ {r}
    /\ UNCHANGED <<lock, lapsed>>

\* Nobody heartbeats the key any more.
Expire ==
    /\ lock \in Runs \ working
    /\ lock' = NoLock
    /\ UNCHANGED <<working, lapsed>>

\* The heartbeats of a run at work failed for a whole TTL.
Lapse ==
    /\ lock \in working
    /\ lapsed' = lapsed \cup {lock}
    /\ lock' = NoLock
    /\ UNCHANGED working

LockNext ==
    \/ \E r \in Runs : Acquire(r) \/ Release(r) \/ Abandon(r)
    \/ Expire \/ Lapse

LockSpec == LockInit /\ [][LockNext]_lockVars

------------------------------------------------------------------------------

\* No two runs that take themselves for the holder work at once, but for those whose
\* TTL ran out under them: lock-manager.ts:7-8, "only one bulk check runs per project".
Mutex == \A r, s \in working \ lapsed : r = s
=============================================================================
