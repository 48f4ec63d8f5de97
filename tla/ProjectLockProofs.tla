-------------------------- MODULE ProjectLockProofs --------------------------
(* The mutex is one.                                                       *)
EXTENDS ProjectLock, TLAPS

\* Who works without a lapse holds the key.
Held == \A r \in working \ lapsed : r \in Runs /\ lock = r

\* Held is inductive.  Acquire finds the key absent, so nobody works but the lapsed;
\* Release and Expire free a key that no one else works under.
LEMMA HeldInductive ==
  ASSUME NoLock \notin Runs, Held, [LockNext]_lockVars
  PROVE  Held'
<1>1. ASSUME NEW r \in Runs, Acquire(r) PROVE Held'
  BY <1>1 DEF Held, Acquire
<1>2. ASSUME NEW r \in Runs, Release(r) PROVE Held'
  BY <1>2 DEF Held, Release
<1>3. ASSUME NEW r \in Runs, Abandon(r) PROVE Held'
  BY <1>3 DEF Held, Abandon
<1>4. CASE Expire
  BY <1>4 DEF Held, Expire
<1>5. CASE Lapse
  BY <1>5 DEF Held, Lapse
<1>6. CASE UNCHANGED lockVars
  BY <1>6 DEF Held, lockVars
<1> QED
  BY <1>1, <1>2, <1>3, <1>4, <1>5, <1>6 DEF LockNext

\* The promise of lock-manager.ts, for any number of runs, deaths and lapses.
THEOREM LockExcludes ==
  ASSUME NoLock \notin Runs
  PROVE  LockSpec => []Mutex
<1>1. LockInit => Held
  BY DEF LockInit, Held
<1>2. Held => Mutex
  BY DEF Held, Mutex
<1> QED
  BY <1>1, <1>2, HeldInductive, PTL DEF LockSpec
=============================================================================
