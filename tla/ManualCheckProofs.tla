-------------------------- MODULE ManualCheckProofs --------------------------
(***************************************************************************)
(* What holds of ManualCheck for every set of links, requests and runs.    *)
(***************************************************************************)
EXTENDS ManualCheck, TLAPS

USE ProcessesAssumption, TokensAssumption, MaxStartsAssumption

\* A job not delivered yet has no start; one that waits has a delivery left.
StartsOK ==
    \A j \in Jobs : /\ job[j] \in {"idle", "unlocked", "ready"} => starts[j] = 0
                    /\ job[j] = "waiting" => starts[j] < MaxStarts

TypeInv == TypeOK /\ StartsOK

LEMMA InitType == Init => TypeInv
<1> SUFFICES ASSUME Init PROVE TypeInv
  OBVIOUS
<1>1. TypeOK
  <2>1. status \in [Links -> RowStatus]
    BY DEF Init, RowStatus
  <2>2. task \in [Owners -> [Links -> TaskState]]
    BY DEF Init, TaskState
  <2>3. job \in [Jobs -> JobState] /\ pc \in [Runs -> RunState]
    BY DEF Init, JobState, RunState
  <2>4. starts \in [Jobs -> 0..MaxStarts]
    BY DEF Init
  <2>5. linkIds \in [Requests -> SUBSET Links] /\ todo \in [Runs -> SUBSET Links]
    BY DEF Init
  <2>6. cooling \in [Links -> BOOLEAN]
    BY DEF Init
  <2>7. project \in BOOLEAN /\ flag \in BOOLEAN /\ crashes \in Nat /\ faults \in Nat
    BY DEF Init
  <2>8. threw \subseteq Runs /\ lapsed \subseteq Runs /\ lock \in Runs \cup {NoLock}
    BY DEF Init
  <2>9. target \in [Rechecks -> Links]
    BY DEF Init
  <2>10. QED
    BY <2>1, <2>2, <2>3, <2>4, <2>5, <2>6, <2>7, <2>8, <2>9 DEF TypeOK
<1>2. StartsOK
  BY DEF Init, StartsOK
<1>3. QED
  BY <1>1, <1>2 DEF TypeInv

LEMMA UserType == TypeInv /\ UserStep => TypeInv'
<1> SUFFICES ASSUME TypeInv, UserStep PROVE TypeInv'
  OBVIOUS
<1> USE DEF TypeInv, TypeOK, StartsOK, apiVars, runVars, oddVars, RowStatus
<1>1. CASE CreateManualLinks
  BY <1>1 DEF CreateManualLinks
<1>2. CASE \E l \in Links : DeleteOne(l)
  BY <1>2 DEF DeleteOne
<1>3. CASE DeleteAllManual
  BY <1>3 DEF DeleteAllManual, DropRows
<1>4. CASE DeleteProject
  BY <1>4 DEF DeleteProject, DropRows
<1>5. QED
  BY <1>1, <1>2, <1>3, <1>4 DEF UserStep

LEMMA RequestType == TypeInv /\ RequestStep => TypeInv'
<1> SUFFICES ASSUME TypeInv, RequestStep PROVE TypeInv'
  OBVIOUS
<1> USE DEF TypeInv, TypeOK, StartsOK, apiVars, runVars, oddVars, JobState, Jobs
<1>1. ASSUME NEW q \in Requests, StartManualCheck(q) PROVE TypeInv'
  BY <1>1 DEF StartManualCheck
<1>2. ASSUME NEW q \in Requests, SnapshotLinks(q) PROVE TypeInv'
  BY <1>2 DEF SnapshotLinks
<1>3. ASSUME NEW c \in Rechecks, RecheckOne(c) PROVE TypeInv'
  BY <1>3 DEF RecheckOne
<1>4. ASSUME NEW c \in Rechecks, TakeCooldown(c) PROVE TypeInv'
  BY ZenonT(40), <1>4 DEF TakeCooldown
<1>5. ASSUME NEW j \in Jobs, Enqueue(j) PROVE TypeInv'
  BY <1>5 DEF Enqueue
<1>6. ASSUME NEW j \in Jobs, RequestFails(j) PROVE TypeInv'
  BY <1>6 DEF RequestFails, Fault
<1>7. QED
  BY <1>1, <1>2, <1>3, <1>4, <1>5, <1>6 DEF RequestStep

LEMMA DeliverType == ASSUME TypeInv, NEW j \in Jobs, Deliver(j) PROVE TypeInv'
<1> USE DEF TypeInv, TypeOK, StartsOK, apiVars, runVars, oddVars, JobState, Jobs
<1>1. ASSUME j \in Requests, DeliverManualCheck(j) PROVE TypeInv'
  <2>1. starts[j] + 1 \in 1..MaxStarts
    BY <1>1 DEF DeliverManualCheck
  <2>2. <<j, starts[j] + 1>> \in Runs
    BY <1>1, <2>1 DEF Runs
  <2>3. pc' \in [Runs -> RunState]
    BY <1>1, <2>2 DEF DeliverManualCheck, RunState
  <2>4. QED
    BY <1>1, <2>1, <2>3 DEF DeliverManualCheck
<1>2. ASSUME j \in Rechecks, DeliverSingleLink(j) PROVE TypeInv'
  <2>1. task' \in [Owners -> [Links -> TaskState]]
    BY <1>2 DEF DeliverSingleLink, Owners, TaskState
  <2>2. starts[j] + 1 \in 0..MaxStarts
    BY <1>2 DEF DeliverSingleLink
  <2>3. QED
    BY <1>2, <2>1, <2>2 DEF DeliverSingleLink
<1>3. CASE Redeliver(j)
  BY <1>3 DEF Redeliver, CanRetry
<1>4. QED
  BY <1>1, <1>2, <1>3 DEF Deliver

LEMMA HandleType == ASSUME TypeInv, NEW r \in Runs, HandleStep(r) PROVE TypeInv'
<1> USE DEF TypeInv, TypeOK, StartsOK, apiVars, runVars, oddVars, MoveTo, RunState
<1>0. r[1] \in Requests /\ r[1] \in Jobs
  BY DEF Runs, Jobs
<1>1. CASE AcquireLock(r)
  <2>1. pc' \in [Runs -> RunState] /\ todo' \in [Runs -> SUBSET Links]
    <3>1. pc' = [pc EXCEPT ![r] = "raise"] \/ pc' = [pc EXCEPT ![r] = "ended"]
      BY <1>1 DEF AcquireLock, SkipJob
    <3>2. pc' \in [Runs -> RunState]
      BY <3>1
    <3>3. todo' \in [Runs -> SUBSET Links]
      BY <1>0, <1>1 DEF AcquireLock, SkipJob
    <3>4. QED
      BY <3>2, <3>3
  <2>2. job' \in [Jobs -> JobState] /\ lock' \in Runs \cup {NoLock}
    BY <1>0, <1>1 DEF AcquireLock, SkipJob, JobState
  <2>3. StartsOK'
    BY <1>0, <1>1 DEF AcquireLock, SkipJob
  <2>4. QED
    BY <1>1, <2>1, <2>2, <2>3 DEF AcquireLock
<1>2. CASE RaiseFlag(r)
  BY <1>2 DEF RaiseFlag, Throw
<1>3. CASE MarkQueued(r)
  BY <1>3 DEF MarkQueued, RowStatus
<1>4. CASE StartChunk(r)
  <2>1. r \in Owners
    BY DEF Owners
  <2>2. task' \in [Owners -> [Links -> TaskState]]
    BY <1>4, <2>1 DEF StartChunk, TaskState
  <2>3. QED
    BY <1>4, <2>2 DEF StartChunk
<1>5. CASE ChunkResolves(r)
  BY <1>5 DEF ChunkResolves, AfterChunk
<1>6. CASE ChunkRejects(r)
  BY <1>6 DEF ChunkRejects, Throw
<1>7. CASE PublishDone(r)
  BY <1>7 DEF PublishDone, AfterDone
<1>8. CASE LowerFlag(r)
  <2>1. flag' \in BOOLEAN
    BY <1>8 DEF LowerFlag
  <2>2. faults' \in Nat
    BY <1>8 DEF LowerFlag, Fault
  <2>3. StartsOK' /\ pc' \in [Runs -> RunState]
    BY <1>8 DEF LowerFlag
  <2>4. QED
    BY <1>8, <2>1, <2>2, <2>3 DEF LowerFlag
<1>9. CASE Unlock(r)
  <2>1. job' \in [Jobs -> JobState] /\ lock' \in Runs \cup {NoLock}
    BY <1>0, <1>9 DEF Unlock, ReleaseLock, JobState
  <2>2. StartsOK' /\ faults' \in Nat
    BY <1>0, <1>9 DEF Unlock, Fault
  <2>3. pc' \in [Runs -> RunState]
    BY <1>9 DEF Unlock
  <2>4. QED
    BY <1>9, <2>1, <2>2, <2>3 DEF Unlock
<1>10. QED
  BY <1>1, <1>2, <1>3, <1>4, <1>5, <1>6, <1>7, <1>8, <1>9 DEF HandleStep

\* What EndTask does to the two variables it sets.
LEMMA EndTaskType ==
  ASSUME TypeInv, NEW o \in Owners, NEW l \in Links, NEW result \in {"idle", "threw"},
         EndTask(o, l, result), starts' = starts
  PROVE  /\ task' \in [Owners -> [Links -> TaskState]]
         /\ job' \in [Jobs -> JobState]
         /\ StartsOK'
<1> USE DEF TypeInv, TypeOK
<1>1. task' \in [Owners -> [Links -> TaskState]]
  BY DEF EndTask, TaskState
<1>2. job' \in [Jobs -> JobState]
  BY DEF EndTask, JobState
<1>3. StartsOK'
  BY DEF EndTask, StartsOK, Jobs
<1>4. QED
  BY <1>1, <1>2, <1>3

LEMMA TaskType ==
  ASSUME TypeInv, NEW o \in Owners, NEW l \in Links, TaskStep(o, l)
  PROVE  TypeInv'
<1> USE DEF TypeInv, TypeOK, apiVars, runVars, oddVars
<1>1. CASE FindLink(o, l)
  <2>1. CASE Exists(l)
    <3>1. task' = [task EXCEPT ![o][l] = "mark"] /\ job' = job
      BY <1>1, <2>1 DEF FindLink
    <3>2. task' \in [Owners -> [Links -> TaskState]]
      BY <3>1 DEF TaskState
    <3>3. QED
      BY <1>1, <3>1, <3>2 DEF FindLink, StartsOK
  <2>2. CASE ~Exists(l)
    BY <1>1, <2>2, EndTaskType DEF FindLink
  <2>3. QED
    BY <2>1, <2>2
<1>2. CASE MarkChecking(o, l)
  <2>1. CASE Exists(l)
    <3>1. task' \in [Owners -> [Links -> TaskState]]
      BY <1>2, <2>1 DEF MarkChecking, TaskState
    <3>2. QED
      BY <1>2, <2>1, <3>1 DEF MarkChecking, StartsOK, RowStatus
  <2>2. CASE ~Exists(l)
    BY <1>2, <2>2, EndTaskType DEF MarkChecking
  <2>3. QED
    BY <2>1, <2>2
<1>3. CASE SaveResult(o, l)
  <2>1. CASE Exists(l)
    <3>1. status' \in [Links -> RowStatus]
      BY <1>3, <2>1 DEF SaveResult, ResultStatus, RowStatus
    <3>2. QED
      BY <1>3, <2>1, <3>1, EndTaskType DEF SaveResult
  <2>2. CASE ~Exists(l)
    BY <1>3, <2>2, EndTaskType DEF SaveResult
  <2>3. QED
    BY <2>1, <2>2
<1>4. QED
  BY <1>1, <1>2, <1>3 DEF TaskStep

LEMMA FaultType == ASSUME TypeInv, FaultStep PROVE TypeInv'
<1> USE DEF TypeInv, TypeOK, apiVars, runVars, oddVars
<1>1. ASSUME NEW r \in Runs, AcquireFails(r) PROVE TypeInv'
  <2>1. r[1] \in Jobs
    BY DEF Runs, Jobs
  <2>2. QED
    BY <1>1, <2>1 DEF AcquireFails, Fault, MoveTo, RunState, JobState, StartsOK
<1>2. ASSUME NEW r \in Runs, BodyFails(r) PROVE TypeInv'
  BY <1>2 DEF BodyFails, Fault, Throw, MoveTo, RunState, StartsOK
<1>3. ASSUME NEW o \in Owners, NEW l \in Links, TaskFails(o, l) PROVE TypeInv'
  BY <1>3, EndTaskType DEF TaskFails, Fault
<1>4. ASSUME NEW procs \in SUBSET Owners, Crash(procs) PROVE TypeInv'
  <2>1. pc' \in [Runs -> RunState]
    BY <1>4 DEF Crash, RunState
  <2>2. task' \in [Owners -> [Links -> TaskState]]
    <3>1. ASSUME NEW o \in Owners, NEW l \in Links
          PROVE (IF o \in procs /\ task[o][l] \in InFlight THEN "lost" ELSE task[o][l])
                    \in TaskState
      BY DEF TaskState
    <3>2. QED
      BY <1>4, <3>1 DEF Crash
  <2>3. QED
    BY <1>4, <2>1, <2>2 DEF Crash, StartsOK
<1>5. CASE LapseLock
  BY <1>5 DEF LapseLock, StartsOK
<1>6. QED
  BY <1>1, <1>2, <1>3, <1>4, <1>5 DEF FaultStep

LEMMA NextType == TypeInv /\ [Next]_vars => TypeInv'
<1> SUFFICES ASSUME TypeInv, [Next]_vars PROVE TypeInv'
  OBVIOUS
<1>1. ASSUME NEW l \in Links, CooldownEnds(l) PROVE TypeInv'
  BY <1>1 DEF CooldownEnds, TypeInv, TypeOK, StartsOK, runVars, oddVars
<1>2. CASE ExpireLock
  BY <1>2 DEF ExpireLock, TypeInv, TypeOK, StartsOK, apiVars, runVars, oddVars
<1>3. CASE UNCHANGED vars
  BY <1>3 DEF vars, TypeInv, TypeOK, StartsOK
<1>4. QED
  BY <1>1, <1>2, <1>3, UserType, RequestType, DeliverType, HandleType, TaskType, FaultType
     DEF Next

\* Type correctness: in every reachable state each variable stays in its type, and no
\* job is delivered more often than BullMQ's stall limit allows.
THEOREM TypeCorrect == Spec => []TypeOK
<1>1. Spec => []TypeInv
  BY InitType, NextType, PTL DEF Spec
<1>2. TypeInv => TypeOK
  BY DEF TypeInv
<1>3. QED
  BY <1>1, <1>2, PTL

------------------------------------------------------------------------------
(* The project lock and the flag it stands for.  LockHeld is inductive; a  *)
(* run's finally block then cannot lower the flag under another run.       *)

LockInv == TypeInv /\ LockHeld /\ FlagCoversRun

\* The steps that leave the lock, the runs, the flag and lapses alone (the project may go).
LEMMA LockUntouched ==
  ASSUME LockInv, TypeInv', UNCHANGED <<flag, lock, pc, lapsed>>, project' => project
  PROVE  LockInv'
  BY DEF LockInv, LockHeld, FlagCoversRun

\* Two unlapsed runs in their bodies are the same run.
LEMMA OneHolder ==
  ASSUME LockInv, NEW r1 \in Runs, NEW r2 \in Runs, pc[r1] \in Body, pc[r2] \in Body,
         r1 \notin lapsed, r2 \notin lapsed
  PROVE  r1 = r2
  BY DEF LockInv, LockHeld

LEMMA LockHandle == ASSUME LockInv, TypeInv', NEW r \in Runs, HandleStep(r) PROVE LockInv'
<1> USE DEF LockInv, LockHeld, TypeInv, TypeOK, apiVars, runVars, oddVars, MoveTo
<1>1. CASE AcquireLock(r)
  <2>1. CASE lock = NoLock
    BY <1>1, <2>1 DEF AcquireLock, Body, Busy, FlagCoversRun
  <2>2. CASE lock # NoLock
    BY <1>1, <2>2 DEF AcquireLock, SkipJob, Body, Busy, FlagCoversRun
  <2>3. QED
    BY <2>1, <2>2
<1>2. CASE RaiseFlag(r)
  <2>1. /\ lock' = lock /\ project' = project /\ lapsed' = lapsed
        /\ \A x \in Runs : x # r => pc'[x] = pc[x]
        /\ pc[r] = "raise" /\ pc'[r] \in {"queue", "lower"}
    BY <1>2 DEF RaiseFlag, Throw
  <2>2. LockHeld'
    BY <2>1 DEF Body, Busy
  <2>3. project => flag'
    BY <1>2 DEF RaiseFlag
  <2>4. FlagCoversRun'
    BY <2>1, <2>3 DEF FlagCoversRun
  <2>5. QED
    BY <2>2, <2>4
<1>3. CASE MarkQueued(r)
  BY <1>3 DEF MarkQueued, Body, Busy, FlagCoversRun
<1>4. CASE StartChunk(r)
  BY <1>4 DEF StartChunk, Body, Busy, FlagCoversRun
<1>5. CASE ChunkResolves(r)
  BY <1>5 DEF ChunkResolves, AfterChunk, Body, Busy, FlagCoversRun
<1>6. CASE ChunkRejects(r)
  BY <1>6 DEF ChunkRejects, Throw, Body, Busy, FlagCoversRun
<1>7. CASE PublishDone(r)
  BY <1>7 DEF PublishDone, AfterDone, Body, Busy, FlagCoversRun
<1>8. CASE LowerFlag(r)
  <2>1. LockHeld'
    BY <1>8 DEF LowerFlag, Body, Busy
  <2>2. ASSUME project', lapsed' = {}, NEW x \in Runs, pc'[x] \in {"queue", "chunk", "await"}
        PROVE  FALSE
    <3>1. x # r /\ pc[x] \in Body /\ pc[r] \in Body
      BY <1>8, <2>2 DEF LowerFlag, Body, Busy
    <3>2. QED
      BY <1>8, <2>2, <3>1 DEF LowerFlag
  <2>3. QED
    BY <2>1, <2>2 DEF FlagCoversRun
<1>9. CASE Unlock(r)
  <2>1. LockHeld'
    BY <1>9 DEF Unlock, ReleaseLock, Body, Busy
  <2>2. FlagCoversRun'
    BY <1>9 DEF Unlock, FlagCoversRun
  <2>3. QED
    BY <2>1, <2>2
<1>10. QED
  BY <1>1, <1>2, <1>3, <1>4, <1>5, <1>6, <1>7, <1>8, <1>9 DEF HandleStep

LEMMA LockNext == LockInv /\ [Next]_vars => LockInv'
<1> SUFFICES ASSUME LockInv, [Next]_vars PROVE LockInv'
  OBVIOUS
<1>0. TypeInv /\ TypeInv'
  BY NextType DEF LockInv
<1>1. CASE UserStep
  <2>1. UNCHANGED <<flag, lock, pc, lapsed>> /\ (project' => project)
    BY <1>1 DEF UserStep, CreateManualLinks, DeleteOne, DeleteAllManual, DeleteProject,
                apiVars, runVars, oddVars
  <2>2. QED
    BY <1>0, <2>1, LockUntouched
<1>2. CASE RequestStep
  <2>1. UNCHANGED <<flag, lock, pc, lapsed, project>>
    BY <1>2 DEF RequestStep, StartManualCheck, SnapshotLinks, RecheckOne, TakeCooldown,
                Enqueue, RequestFails, apiVars, runVars, oddVars
  <2>2. QED
    BY <1>0, <2>1, LockUntouched
<1>3. ASSUME NEW l \in Links, CooldownEnds(l) PROVE LockInv'
  BY <1>0, <1>3, LockUntouched DEF CooldownEnds, runVars, oddVars
<1>4. ASSUME NEW j \in Jobs, Deliver(j) PROVE LockInv'
  <2>1. ASSUME j \in Requests, DeliverManualCheck(j) PROVE LockInv'
    BY <1>0, <2>1 DEF DeliverManualCheck, LockInv, LockHeld, FlagCoversRun, TypeInv, TypeOK,
                      Body, Busy, apiVars, oddVars
  <2>2. CASE DeliverSingleLink(j) \/ Redeliver(j)
    BY <1>0, <2>2, LockUntouched DEF DeliverSingleLink, Redeliver, apiVars, runVars, oddVars
  <2>3. QED
    BY <1>4, <2>1, <2>2 DEF Deliver
<1>5. ASSUME NEW r \in Runs, HandleStep(r) PROVE LockInv'
  BY <1>0, <1>5, LockHandle
<1>6. ASSUME NEW o \in Owners, NEW l \in Links, TaskStep(o, l) PROVE LockInv'
  BY <1>0, <1>6, LockUntouched
     DEF TaskStep, FindLink, MarkChecking, SaveResult, apiVars, runVars, oddVars
<1>7. CASE ExpireLock
  BY <1>0, <1>7 DEF ExpireLock, LockInv, LockHeld, FlagCoversRun, apiVars, runVars, oddVars
<1>8. CASE FaultStep
  <2> USE DEF LockInv, LockHeld, FlagCoversRun, TypeInv, TypeOK, apiVars, runVars, oddVars
  <2>1. ASSUME NEW r \in Runs, AcquireFails(r) \/ BodyFails(r) PROVE LockInv'
    BY <1>0, <2>1 DEF AcquireFails, BodyFails, Throw, MoveTo, Body, Busy
  <2>2. ASSUME NEW o \in Owners, NEW l \in Links, TaskFails(o, l) PROVE LockInv'
    BY <1>0, <2>2, LockUntouched DEF TaskFails
  <2>3. ASSUME NEW procs \in SUBSET Owners, Crash(procs) PROVE LockInv'
    BY <1>0, <2>3 DEF Crash, Body, Busy
  <2>4. CASE LapseLock
    BY <1>0, <2>4 DEF LapseLock
  <2>5. QED
    BY <1>8, <2>1, <2>2, <2>3, <2>4 DEF FaultStep
<1>9. CASE UNCHANGED vars
  BY <1>0, <1>9, LockUntouched DEF vars
<1>10. QED
  BY <1>1, <1>2, <1>3, <1>4, <1>5, <1>6, <1>7, <1>8, <1>9 DEF Next

LEMMA LockAlways == Spec => []LockInv
<1>1. Init => LockInv
  BY InitType DEF Init, LockInv, LockHeld, FlagCoversRun, Body, Busy
<1>2. QED
  BY <1>1, LockNext, PTL DEF Spec

\* Mutual exclusion: whatever crashes, stalls, faults and lapses happen, a run inside its
\* try and finally blocks holds the project's lock unless it lapsed under it.
THEOREM LockIsHeld == Spec => []LockHeld
<1>1. LockInv => LockHeld
  BY DEF LockInv
<1>2. QED
  BY <1>1, LockAlways, PTL

\* While a run works the project's manualChecking flag stays up: no other run lowers it.
THEOREM FlagStaysUp == Spec => []FlagCoversRun
<1>1. LockInv => FlagCoversRun
  BY DEF LockInv
<1>2. QED
  BY <1>1, LockAlways, PTL

------------------------------------------------------------------------------
(* The refinement: what the processors do to the lock, the mutex may do.   *)

\* An attempt that BullMQ has not delivered yet has not run.
FreshRuns == \A r \in Runs : r[2] > starts[r[1]] => pc[r] = "none"

\* Only a delivery starts a run, the next attempt's of its job.
LEMMA FreshNext == TypeInv /\ FreshRuns /\ [Next]_vars => FreshRuns'
<1> SUFFICES ASSUME TypeInv, FreshRuns, [Next]_vars PROVE FreshRuns'
  OBVIOUS
<1> DEFINE NoneStarts == starts' = starts /\ \A r \in Runs : pc[r] = "none" => pc'[r] = "none"
<1>0. NoneStarts => FreshRuns'
  BY DEF FreshRuns
<1>1. ASSUME \/ UserStep \/ RequestStep \/ ExpireLock \/ UNCHANGED vars
             \/ \E l \in Links : CooldownEnds(l)
             \/ \E o \in Owners, l \in Links : TaskStep(o, l)
      PROVE  NoneStarts
  BY <1>1 DEF UserStep, CreateManualLinks, DeleteOne, DeleteAllManual, DeleteProject,
              RequestStep, StartManualCheck, SnapshotLinks, RecheckOne, TakeCooldown,
              Enqueue, RequestFails, CooldownEnds, TaskStep, FindLink, MarkChecking,
              SaveResult, ExpireLock, vars, runVars
<1>2. ASSUME NEW r \in Runs, HandleStep(r) PROVE NoneStarts
  BY <1>2 DEF HandleStep, AcquireLock, SkipJob, RaiseFlag, MarkQueued, StartChunk,
              ChunkResolves, ChunkRejects, PublishDone, LowerFlag, Unlock, Throw, MoveTo,
              TypeInv, TypeOK
<1>3. ASSUME FaultStep PROVE NoneStarts
  <2>1. ASSUME NEW r \in Runs, AcquireFails(r) \/ BodyFails(r) PROVE NoneStarts
    BY <2>1 DEF AcquireFails, BodyFails, Throw, MoveTo, TypeInv, TypeOK
  <2>2. ASSUME NEW o \in Owners, NEW l \in Links, TaskFails(o, l) PROVE NoneStarts
    BY <2>2 DEF TaskFails, runVars
  <2>3. ASSUME NEW procs \in SUBSET Owners, Crash(procs) PROVE NoneStarts
    BY <2>3 DEF Crash, Busy
  <2>4. ASSUME LapseLock PROVE NoneStarts
    BY <2>4 DEF LapseLock, runVars
  <2> HIDE DEF NoneStarts
  <2> QED
    BY <1>3, <2>1, <2>2, <2>3, <2>4 DEF FaultStep
<1>4. ASSUME NEW j \in Jobs, Deliver(j) PROVE FreshRuns'
  <2>1. CASE DeliverManualCheck(j)
    <3>1. \A r \in Runs : r[2] \in Nat /\ r[1] \in Jobs /\ r = <<r[1], r[2]>>
      BY DEF Runs, Jobs
    <3>2. starts[j] \in Nat /\ starts'[j] = starts[j] + 1
      BY <2>1 DEF DeliverManualCheck, TypeInv, TypeOK
    <3>3. \A i \in Jobs : i # j => starts'[i] = starts[i]
      BY <2>1 DEF DeliverManualCheck, TypeInv, TypeOK
    <3>4. \A r \in Runs : r # <<j, starts[j] + 1>> => pc'[r] = pc[r]
      BY <2>1 DEF DeliverManualCheck, TypeInv, TypeOK
    <3>5. ASSUME NEW r \in Runs, r[2] > starts'[r[1]] PROVE pc'[r] = "none"
      <4>1. r # <<j, starts[j] + 1>>
        BY <3>2, <3>5
      <4>2. r[2] > starts[r[1]]
        BY <3>1, <3>2, <3>3, <3>5
      <4> QED
        BY <3>4, <4>1, <4>2 DEF FreshRuns
    <3> QED
      BY <3>5 DEF FreshRuns
  <2>2. CASE DeliverSingleLink(j) /\ j \in Rechecks
    <3>1. \A r \in Runs : r[1] # j /\ pc'[r] = pc[r] /\ starts'[r[1]] = starts[r[1]]
      BY <2>2 DEF DeliverSingleLink, runVars, Runs, TypeInv, TypeOK, Jobs
    <3> QED
      BY <3>1 DEF FreshRuns
  <2>3. CASE Redeliver(j)
    BY <1>0, <2>3 DEF Redeliver, runVars
  <2> QED
    BY <1>4, <2>1, <2>2, <2>3 DEF Deliver
<1> HIDE DEF NoneStarts
<1> QED
  BY <1>0, <1>1, <1>2, <1>3, <1>4 DEF Next

\* Steps inside a body, and those of other parts, stutter.
LEMMA LockStutters ==
  ASSUME UNCHANGED <<lock, lapsed>>, \A r \in Runs : pc'[r] \in Body <=> pc[r] \in Body
  PROVE  UNCHANGED Lock!lockVars
  BY DEF Lock!lockVars, Working

LEMMA HandleRefines ==
  ASSUME TypeInv, NEW r \in Runs, HandleStep(r)
  PROVE  [Lock!LockNext]_Lock!lockVars
<1> USE DEF TypeInv, TypeOK, MoveTo, oddVars
<1>1. CASE AcquireLock(r)
  <2>1. CASE lock = NoLock
    <3>1. r \notin Working /\ Working' = Working \cup {r}
      BY <1>1, <2>1 DEF AcquireLock, Working, Body, Busy
    <3>2. Lock!Acquire(r)
      BY <1>1, <2>1, <3>1 DEF AcquireLock, Lock!Acquire
    <3> QED
      BY <3>2 DEF Lock!LockNext
  <2>2. CASE lock # NoLock
    BY <1>1, <2>2, LockStutters DEF AcquireLock, SkipJob, Body, Busy
  <2> QED
    BY <2>1, <2>2
<1>2. CASE \/ RaiseFlag(r) \/ MarkQueued(r) \/ StartChunk(r) \/ ChunkResolves(r)
           \/ ChunkRejects(r) \/ PublishDone(r)
  BY <1>2, LockStutters
     DEF RaiseFlag, MarkQueued, StartChunk, ChunkResolves, ChunkRejects, PublishDone,
         AfterChunk, AfterDone, Throw, Body, Busy
<1>3. CASE LowerFlag(r)
  BY <1>3, LockStutters DEF LowerFlag, Body, Busy
<1>4. CASE Unlock(r)
  <2>1. r \in Working /\ Working' = Working \ {r} /\ lapsed' = lapsed
    BY <1>4 DEF Unlock, Working, Body, Busy
  <2>2. Lock!Release(r) \/ Lock!Abandon(r)
    BY <1>4, <2>1 DEF Unlock, ReleaseLock, Lock!Release, Lock!Abandon
  <2> QED
    BY <2>2 DEF Lock!LockNext
<1> QED
  BY <1>1, <1>2, <1>3, <1>4 DEF HandleStep

\* A process hosts one busy run at most, so a crash is one run's.
LEMMA CrashRefines ==
  ASSUME TypeInv, NEW procs \in SUBSET Owners, Crash(procs)
  PROVE  [Lock!LockNext]_Lock!lockVars
<1> USE DEF TypeInv, TypeOK, Crash
<1>1. CASE \E r \in procs \cap Runs : pc[r] \in Body
  <2>1. PICK r \in procs \cap Runs : pc[r] \in Body
    BY <1>1
  <2>2. \A x \in Runs : x # r => (pc'[x] \in Body <=> pc[x] \in Body)
    BY <2>1 DEF Hosted, Body, Busy
  <2>3. pc'[r] \notin Body
    BY <2>1 DEF Body, Busy
  <2>4. r \in Working /\ Working' = Working \ {r}
    BY <2>1, <2>2, <2>3 DEF Working
  <2>5. Lock!Abandon(r)
    BY <2>4 DEF Lock!Abandon
  <2> QED
    BY <2>5 DEF Lock!LockNext
<1>2. CASE ~ \E r \in procs \cap Runs : pc[r] \in Body
  BY <1>2, LockStutters DEF Body, Busy
<1> QED
  BY <1>1, <1>2

LEMMA StepRefines ==
  TypeInv /\ FreshRuns /\ [Next]_vars => [Lock!LockNext]_Lock!lockVars
<1> SUFFICES ASSUME TypeInv, FreshRuns, [Next]_vars PROVE [Lock!LockNext]_Lock!lockVars
  OBVIOUS
<1>1. ASSUME \/ UserStep \/ RequestStep
             \/ \E l \in Links : CooldownEnds(l)
             \/ \E o \in Owners, l \in Links : TaskStep(o, l) \/ TaskFails(o, l)
      PROVE  [Lock!LockNext]_Lock!lockVars
  <2>1. UNCHANGED <<lock, lapsed, pc>>
    BY <1>1 DEF UserStep, CreateManualLinks, DeleteOne, DeleteAllManual, DeleteProject,
                RequestStep, StartManualCheck, SnapshotLinks, RecheckOne, TakeCooldown,
                Enqueue, RequestFails, CooldownEnds, TaskStep, FindLink, MarkChecking,
                SaveResult, TaskFails, apiVars, runVars, oddVars
  <2> QED
    BY <2>1, LockStutters
<1>2. ASSUME NEW j \in Jobs, Deliver(j) PROVE [Lock!LockNext]_Lock!lockVars
  <2>1. /\ UNCHANGED <<lock, lapsed>>
        /\ \A r \in Runs : pc'[r] = pc[r] \/ (pc[r] = "none" /\ pc'[r] = "acquire")
    <3>1. CASE DeliverManualCheck(j)
      <4> DEFINE r0 == <<j, starts[j] + 1>>
      <4>1. r0 \in Runs => pc[r0] = "none"
        <5>1. r0 \in Runs => r0[2] > starts[r0[1]]
          BY DEF TypeInv, TypeOK
        <5> QED
          BY <5>1 DEF FreshRuns
      <4> QED
        BY <3>1, <4>1 DEF DeliverManualCheck, TypeInv, TypeOK, oddVars
    <3>2. CASE DeliverSingleLink(j) \/ Redeliver(j)
      BY <3>2 DEF DeliverSingleLink, Redeliver, runVars, oddVars
    <3> QED
      BY <1>2, <3>1, <3>2 DEF Deliver
  <2> QED
    BY <2>1, LockStutters DEF Body, Busy
<1>3. ASSUME NEW r \in Runs, HandleStep(r) PROVE [Lock!LockNext]_Lock!lockVars
  BY <1>3, HandleRefines
<1>4. CASE ExpireLock
  <2>1. lock \in Runs /\ lock \notin Working /\ Working' = Working
    BY <1>4 DEF ExpireLock, Working, TypeInv, TypeOK, runVars
  <2>2. Lock!Expire
    BY <1>4, <2>1 DEF ExpireLock, Lock!Expire, oddVars
  <2> QED
    BY <2>2 DEF Lock!LockNext
<1>5. CASE FaultStep
  <2>1. ASSUME NEW r \in Runs, AcquireFails(r) \/ BodyFails(r)
        PROVE  [Lock!LockNext]_Lock!lockVars
    BY <2>1, LockStutters
       DEF AcquireFails, BodyFails, Throw, MoveTo, Body, Busy, TypeInv, TypeOK
  <2>2. CASE LapseLock
    <3>1. lock \in Working /\ Working' = Working
      BY <2>2 DEF LapseLock, Working, Body, Busy, TypeInv, TypeOK, runVars
    <3>2. Lock!Lapse
      BY <2>2, <3>1 DEF LapseLock, Lock!Lapse
    <3> QED
      BY <3>2 DEF Lock!LockNext
  <2> QED
    BY <1>1, <1>5, <2>1, <2>2, CrashRefines DEF FaultStep
<1>6. CASE UNCHANGED vars
  BY <1>6, LockStutters DEF vars
<1> QED
  BY <1>1, <1>2, <1>3, <1>4, <1>5, <1>6 DEF Next

\* ManualCheck implements the mutex of lock-manager.ts, step by step, for any number of
\* requests, replicas, deliveries, crashes, faults and lapses.
THEOREM ImplementsLease == Spec => LockIsLease
<1>1. Init => Lock!LockInit
  BY DEF Init, Lock!LockInit, Working, Body, Busy
<1>2. Init => TypeInv /\ FreshRuns
  BY InitType DEF Init, FreshRuns
<1>3. Spec => [](TypeInv /\ FreshRuns)
  BY <1>2, NextType, FreshNext, PTL DEF Spec
<1> QED
  BY <1>1, <1>3, StepRefines, PTL DEF Spec, LockIsLease, Lock!LockSpec
------------------------------------------------------------------------------
(* The rows of a batch.  What the properties leave open is filled in by    *)
(* where the links of a run are: still ahead of it, or settled.            *)

\* A snapshot is taken once, of rows that exist; a call past its findUnique saw its row.
Born ==
    /\ \A q \in Requests : job[q] \in {"idle", "unlocked"} => linkIds[q] = {}
    /\ \A q \in Requests : \A l \in linkIds[q] : status[l] # "UNBORN"
    /\ \A o \in Owners, l \in Links : task[o][l] \in {"mark", "crawl"} => status[l] # "UNBORN"

\* A run has calls in flight only while it awaits a chunk or after a throw.
ChunkByChunk ==
    \A r \in Runs :
        /\ pc[r] \in {"none", "acquire", "raise", "queue", "chunk"} =>
              \A l \in Links : task[r][l] = "idle"
        /\ pc[r] \in {"lower", "unlock"} /\ r \notin threw => \A l \in Links : task[r][l] = "idle"
        /\ pc[r] = "await" => \A l \in Links : task[r][l] # "lost"
        /\ pc[r] \in {"raise", "queue"} => todo[r] = linkIds[r[1]]

Begun == InFlight \cup {"lost", "threw"}

Ahead(r, l) == pc[r] \in {"chunk", "await"} /\ (l \in todo[r] \/ task[r][l] # "idle")

Settled(r, l) == \/ status[l] \in {"DONE", "ERROR", "DELETED"}
                 \/ \E o \in Owners \ {r} : task[o][l] \in Begun

\* Run r has marked its batch and nothing cut it short.
Uncut(r) == pc[r] \in {"chunk", "await", "lower", "unlock"} /\ r \notin threw /\ lapsed = {}

Accounted == \A r \in Runs : Uncut(r) => \A l \in linkIds[r[1]] : Ahead(r, l) \/ Settled(r, l)

RowsOK == Born /\ ChunkByChunk /\ QueuedOwned /\ CheckingOwned /\ Accounted
RowsInv == LockInv /\ FreshRuns /\ RowsOK

\* What processOne does in one step to its call's state and its row.
CallEffect(o, l) ==
    \/ status[l]' = status[l] /\ task[o][l]' = "mark" /\ Exists(l) /\ faults' = faults
    \/ status[l]' = status[l] /\ task[o][l]' = "idle" /\ ~Exists(l) /\ faults' = faults
    \/ status[l]' = "CHECKING" /\ task[o][l]' = "crawl" /\ Exists(l) /\ faults' = faults
    \/ /\ status[l]' = status[l] /\ task[o][l]' = "threw" /\ ~Exists(l) /\ faults' = faults
       /\ task[o][l] \in {"mark", "crawl"}
    \/ status[l]' \in {"DONE", "ERROR"} /\ task[o][l]' = "idle" /\ Exists(l) /\ faults' = faults
    \/ status[l]' = status[l] /\ task[o][l]' = "threw" /\ faults' = faults + 1

CallFrame(o, l) ==
    /\ UNCHANGED <<flag, lock, starts, apiVars, runVars, crashes, lapsed>>
    /\ \A q \in Requests : job'[q] = job[q]
    /\ task[o][l] \in InFlight
    /\ \A p \in Owners, k \in Links : p # o \/ k # l => task'[p][k] = task[p][k]
    /\ \A k \in Links \ {l} : status'[k] = status[k]
    /\ CallEffect(o, l)

LEMMA TaskSet ==
  ASSUME TypeInv, NEW o \in Owners, NEW l \in Links, NEW v, task' = [task EXCEPT ![o][l] = v]
  PROVE  /\ task'[o][l] = v
         /\ \A p \in Owners, k \in Links : p # o \/ k # l => task'[p][k] = task[p][k]
  BY DEF TypeInv, TypeOK

LEMMA EndTaskFrame ==
  ASSUME TypeInv, NEW o \in Owners, NEW l \in Links, NEW v, EndTask(o, l, v)
  PROVE  /\ task'[o][l] = v
         /\ \A p \in Owners, k \in Links : p # o \/ k # l => task'[p][k] = task[p][k]
         /\ \A q \in Requests : job'[q] = job[q]
<1>1. \A q \in Requests : job'[q] = job[q]
  BY DEF EndTask, TypeInv, TypeOK, Jobs
<1>2. task' = [task EXCEPT ![o][l] = v]
  BY DEF EndTask
<1>3. /\ task'[o][l] = v
      /\ \A p \in Owners, k \in Links : p # o \/ k # l => task'[p][k] = task[p][k]
  BY <1>2 DEF TypeInv, TypeOK
<1> QED
  BY <1>1, <1>3

LEMMA CallSteps ==
  ASSUME TypeInv, NEW o \in Owners, NEW l \in Links, TaskStep(o, l) \/ TaskFails(o, l)
  PROVE  CallFrame(o, l)
<1> USE DEF CallFrame, CallEffect
<1>1. CASE FindLink(o, l)
  <2>1. CASE Exists(l)
    BY <1>1, <2>1, TaskSet DEF FindLink, oddVars, InFlight
  <2>2. CASE ~Exists(l)
    BY <1>1, <2>2, EndTaskFrame DEF FindLink, oddVars, InFlight
  <2> QED
    BY <2>1, <2>2
<1>2. CASE MarkChecking(o, l)
  <2>1. CASE Exists(l)
    BY <1>2, <2>1, TaskSet DEF MarkChecking, oddVars, InFlight, TypeInv, TypeOK
  <2>2. CASE ~Exists(l)
    BY <1>2, <2>2, EndTaskFrame DEF MarkChecking, oddVars, InFlight
  <2> QED
    BY <2>1, <2>2
<1>3. CASE SaveResult(o, l)
  <2>1. CASE Exists(l)
    BY <1>3, <2>1, EndTaskFrame DEF SaveResult, ResultStatus, oddVars, InFlight, TypeInv, TypeOK
  <2>2. CASE ~Exists(l)
    BY <1>3, <2>2, EndTaskFrame DEF SaveResult, oddVars, InFlight
  <2> QED
    BY <2>1, <2>2
<1>4. CASE TaskFails(o, l)
  BY <1>4, EndTaskFrame DEF TaskFails, Fault, InFlight
<1> QED
  BY <1>1, <1>2, <1>3, <1>4 DEF TaskStep

\* What users do to the rows.
UserFrame ==
    /\ UNCHANGED <<flag, lock, job, starts, task, linkIds, runVars, oddVars>>
    /\ \A l \in Links : \/ status'[l] = status[l]
                        \/ status[l] = "UNBORN" /\ status'[l] = "PENDING"
                        \/ Exists(l) /\ status'[l] = "DELETED"

LEMMA UserSteps == ASSUME TypeInv, UserStep PROVE UserFrame
<1> USE DEF UserFrame, apiVars, TypeInv, TypeOK
<1>1. CASE CreateManualLinks
  BY <1>1 DEF CreateManualLinks
<1>2. CASE \E l \in Links : DeleteOne(l)
  BY <1>2 DEF DeleteOne
<1>3. CASE DeleteAllManual
  BY <1>3 DEF DeleteAllManual, DropRows
<1>4. CASE DeleteProject
  BY <1>4 DEF DeleteProject, DropRows
<1> QED
  BY <1>1, <1>2, <1>3, <1>4 DEF UserStep

\* Requests, and what else leaves rows and runs alone: only an unlocked request of a job
\* not delivered yet may set its snapshot, to rows that exist.
QuietFrame ==
    /\ UNCHANGED <<status, task, runVars>>
    /\ lapsed' = {} => lapsed = {}
    /\ faults' \in Nat /\ faults' >= faults
    /\ \A j \in Jobs : starts'[j] = starts[j]
    /\ \A q \in Requests : job'[q] \in {"idle", "unlocked"} =>
          job[q] \in {"idle", "unlocked"} /\ linkIds'[q] = linkIds[q]
    /\ \A q \in Requests : linkIds'[q] # linkIds[q] =>
          job[q] = "unlocked" /\ \A l \in linkIds'[q] : status[l] # "UNBORN"

LEMMA RequestSteps == ASSUME TypeInv, RequestStep PROVE QuietFrame
<1> USE DEF QuietFrame, apiVars, runVars, oddVars, TypeInv, TypeOK, Jobs
<1>1. ASSUME NEW q \in Requests, StartManualCheck(q) PROVE QuietFrame
  BY <1>1 DEF StartManualCheck
<1>2. ASSUME NEW q \in Requests, SnapshotLinks(q) PROVE QuietFrame
  BY <1>2 DEF SnapshotLinks
<1>3. ASSUME NEW c \in Rechecks, RecheckOne(c) PROVE QuietFrame
  BY <1>3 DEF RecheckOne
<1>4. ASSUME NEW c \in Rechecks, TakeCooldown(c) PROVE QuietFrame
  BY <1>4 DEF TakeCooldown
<1>5. ASSUME NEW j \in Jobs, Enqueue(j) PROVE QuietFrame
  BY <1>5 DEF Enqueue
<1>6. ASSUME NEW j \in Jobs, RequestFails(j) PROVE QuietFrame
  BY <1>6 DEF RequestFails, Fault
<1> QED
  BY <1>1, <1>2, <1>3, <1>4, <1>5, <1>6 DEF RequestStep

LEMMA OtherSteps ==
  ASSUME TypeInv,
         \/ \E l \in Links : CooldownEnds(l)
         \/ \E j \in Jobs : Redeliver(j)
         \/ ExpireLock \/ LapseLock \/ UNCHANGED vars
  PROVE  QuietFrame
<1> USE DEF QuietFrame, apiVars, runVars, oddVars, TypeInv, TypeOK, Jobs
<1>1. CASE \E l \in Links : CooldownEnds(l)
  BY <1>1 DEF CooldownEnds
<1>2. CASE \E j \in Jobs : Redeliver(j)
  BY <1>2 DEF Redeliver
<1>3. CASE ExpireLock \/ LapseLock
  BY <1>3 DEF ExpireLock, LapseLock
<1>4. CASE UNCHANGED vars
  BY <1>4 DEF vars
<1> QED
  BY <1>1, <1>2, <1>3, <1>4

LEMMA RowsAfterUser == ASSUME RowsInv, UserFrame PROVE RowsOK'
<1> USE DEF UserFrame, runVars, oddVars, RowsInv, RowsOK
<1>0. \A r \in Runs : r[1] \in Requests /\ linkIds[r[1]] \subseteq Links
  BY DEF Runs, LockInv, TypeInv, TypeOK
<1>1. Born' /\ ChunkByChunk' /\ CheckingOwned'
  <2>1. \A l \in Links : status[l] # "UNBORN" => status'[l] # "UNBORN"
    OBVIOUS
  <2>2. \A q \in Requests : linkIds[q] \subseteq Links
    BY DEF LockInv, TypeInv, TypeOK
  <2>3. Born'
    BY <2>1, <2>2 DEF Born
  <2>4. ChunkByChunk'
    BY DEF ChunkByChunk
  <2>5. CheckingOwned'
    BY DEF CheckingOwned
  <2> QED
    BY <2>3, <2>4, <2>5
<1>2. QueuedOwned'
  BY DEF QueuedOwned, WillMark, CutShort
<1>3. Accounted'
  <2>1. ASSUME NEW r \in Runs, NEW l \in linkIds[r[1]], Ahead(r, l) \/ Settled(r, l)
        PROVE  Ahead(r, l)' \/ Settled(r, l)'
    <3>1. l \in Links /\ status[l] # "UNBORN"
      BY <1>0 DEF Born
    <3>2. status'[l] = status[l] \/ status'[l] = "DELETED"
      BY <3>1
    <3> QED
      BY <2>1, <3>2 DEF Ahead, Settled
  <2> QED
    BY <2>1 DEF Accounted, Uncut
<1> QED
  BY <1>1, <1>2, <1>3

\* A run whose snapshot is taken now has not begun.
LEMMA RowsAfterQuiet == ASSUME RowsInv, QuietFrame PROVE RowsOK'
<1> USE DEF QuietFrame, runVars, RowsInv, RowsOK
<1>1. ASSUME NEW r \in Runs, pc[r] # "none" PROVE linkIds'[r[1]] = linkIds[r[1]]
  <2>1. r[1] \in Requests /\ r[1] \in Jobs /\ r[2] \in Nat /\ r[2] > 0
    BY DEF Runs, Jobs
  <2>2. job[r[1]] = "unlocked" => r[2] > starts[r[1]]
    BY <2>1 DEF LockInv, TypeInv, StartsOK
  <2> QED
    BY <1>1, <2>1, <2>2 DEF FreshRuns
<1>2. Born' /\ CheckingOwned'
  BY DEF Born, CheckingOwned
<1>3. ChunkByChunk'
  BY <1>1 DEF ChunkByChunk
<1>4. QueuedOwned'
  <2>1. ASSUME NEW l \in Links, status[l] = "QUEUED"
        PROVE  \E r \in Runs : l \in linkIds'[r[1]] /\ (WillMark(r, l)' \/ CutShort(r)')
    <3>1. PICK r \in Runs : l \in linkIds[r[1]] /\ (WillMark(r, l) \/ CutShort(r))
      BY <2>1 DEF QueuedOwned
    <3>2. linkIds[r[1]] \subseteq linkIds'[r[1]]
      BY DEF Born, Runs
    <3> QED
      BY <3>1, <3>2 DEF WillMark, CutShort
  <2> QED
    BY <2>1 DEF QueuedOwned
<1>5. Accounted'
  BY <1>1 DEF Accounted, Uncut, Ahead, Settled
<1> QED
  BY <1>2, <1>3, <1>4, <1>5

LEMMA RowsAfterCall ==
  ASSUME RowsInv, NEW o \in Owners, NEW l \in Links, CallFrame(o, l)
  PROVE  RowsOK'
<1> USE DEF CallFrame, RowsInv, RowsOK, apiVars, runVars
<1>1. Born'
  <2>1. \A q \in Requests : linkIds[q] \subseteq Links
    BY DEF LockInv, TypeInv, TypeOK
  <2>2. \A k \in Links : status[k] # "UNBORN" => status'[k] # "UNBORN"
    BY DEF CallEffect
  <2>3. ASSUME NEW p \in Owners, NEW k \in Links, task'[p][k] \in {"mark", "crawl"}
        PROVE  status'[k] # "UNBORN"
    <3>1. CASE p = o /\ k = l
      BY <2>3, <3>1 DEF CallEffect, Exists
    <3>2. CASE p # o \/ k # l
      BY <2>2, <2>3, <3>2 DEF Born
    <3> QED
      BY <3>1, <3>2
  <2> QED
    BY <2>1, <2>2, <2>3 DEF Born
<1>2. ChunkByChunk'
  <2>1. ASSUME NEW r \in Runs, pc[r] \in {"none", "acquire", "raise", "queue", "chunk"}
        PROVE  \A k \in Links : task'[r][k] = "idle"
    BY <2>1 DEF ChunkByChunk, Owners, InFlight
  <2>2. ASSUME NEW r \in Runs, pc[r] = "await", NEW k \in Links
        PROVE  task'[r][k] # "lost"
    BY <2>2 DEF ChunkByChunk, Owners, CallEffect
  <2>3. ASSUME NEW r \in Runs, pc[r] \in {"lower", "unlock"}, r \notin threw, NEW k \in Links
        PROVE  task'[r][k] = "idle"
    BY <2>3 DEF ChunkByChunk, Owners, InFlight
  <2> QED
    BY <2>1, <2>2, <2>3 DEF ChunkByChunk
<1>3. QueuedOwned'
  <2>1. ASSUME NEW k \in Links, status'[k] = "QUEUED"
        PROVE  \E r \in Runs : k \in linkIds'[r[1]] /\ (WillMark(r, k)' \/ CutShort(r)')
    <3>1. status[k] = "QUEUED"
      BY <2>1 DEF CallEffect
    <3>2. PICK r \in Runs : k \in linkIds[r[1]] /\ (WillMark(r, k) \/ CutShort(r))
      BY <3>1 DEF QueuedOwned
    <3>3. r \in Owners
      BY DEF Owners
    <3>4. CASE WillMark(r, k)
      BY <2>1, <3>1, <3>2, <3>3, <3>4 DEF WillMark, CutShort, CallEffect, Exists
    <3>5. CASE CutShort(r)
      BY <3>2, <3>3, <3>5 DEF CutShort, InFlight
    <3> QED
      BY <3>2, <3>4, <3>5
  <2> QED
    BY <2>1 DEF QueuedOwned
<1>4. CheckingOwned'
  BY DEF CheckingOwned, CallEffect, Exists, InFlight
<1>5. Accounted'
  <2>1. ASSUME NEW r \in Runs, Uncut(r), NEW k \in linkIds[r[1]], k \in Links
        PROVE  Ahead(r, k)' \/ Settled(r, k)'
    <3>1. Ahead(r, k) \/ Settled(r, k)
      BY <2>1 DEF Accounted
    <3>2. status[k] # "UNBORN"
      BY DEF Born, Runs
    <3>3. r \in Owners
      BY DEF Owners
    <3>4. CASE k # l
      BY <2>1, <3>1, <3>3, <3>4 DEF Ahead, Settled
    <3>5. CASE k = l /\ r = o
      <4>1. pc[r] = "await"
        BY <2>1, <3>5 DEF Uncut, ChunkByChunk, InFlight
      <4>2. task'[r][k] = "idle" => status'[k] \in {"DONE", "ERROR", "DELETED"}
        BY <3>2, <3>5 DEF CallEffect, Exists
      <4> QED
        BY <4>1, <4>2 DEF Ahead, Settled
    <3>6. CASE k = l /\ r # o
      <4>1. CASE Ahead(r, k)
        BY <3>3, <3>6, <4>1 DEF Ahead
      <4>2. \/ task'[o][k] \in Begun
            \/ status'[k] \in {"DONE", "ERROR", "DELETED"}
        BY <3>2, <3>6 DEF CallEffect, Exists, Begun, InFlight
      <4> QED
        BY <3>6, <4>2 DEF Settled
    <3> QED
      BY <3>4, <3>5, <3>6
  <2>2. \A r \in Runs : linkIds[r[1]] \subseteq Links /\ (Uncut(r)' => Uncut(r))
    BY DEF LockInv, TypeInv, TypeOK, Runs, Uncut
  <2> QED
    BY <2>1, <2>2 DEF Accounted
<1> QED
  BY <1>1, <1>2, <1>3, <1>4, <1>5

\* A delivery begins what has not begun: a fresh run, or a call of a recheck.
LEMMA RowsAfterDeliver ==
  ASSUME RowsInv, NEW j \in Jobs, Deliver(j)
  PROVE  RowsOK'
<1> USE DEF RowsInv, RowsOK
<1>1. ASSUME j \in Requests, DeliverManualCheck(j) PROVE RowsOK'
  <2> DEFINE new == <<j, starts[j] + 1>>
  <2>1. /\ new \in Runs /\ pc[new] = "none"
        /\ pc'[new] = "acquire" /\ \A r \in Runs : r # new => pc'[r] = pc[r]
    <3>1. starts[j] \in Nat /\ starts[j] + 1 \in 1..MaxStarts
      BY <1>1 DEF DeliverManualCheck, LockInv, TypeInv, TypeOK, StartsOK
    <3>2. new \in Runs /\ new[2] > starts[new[1]]
      BY <1>1, <3>1 DEF Runs
    <3> QED
      BY <1>1, <3>2 DEF DeliverManualCheck, FreshRuns, LockInv, TypeInv, TypeOK
  <2>2. /\ UNCHANGED <<status, linkIds, todo, threw, task, lapsed>>
        /\ \A q \in Requests : job'[q] \in {"idle", "unlocked"} => job[q] = job'[q]
    BY <1>1 DEF DeliverManualCheck, apiVars, oddVars, LockInv, TypeInv, TypeOK, Jobs
  <2> HIDE DEF new
  <2>3. Born' /\ CheckingOwned'
    BY <2>2 DEF Born, CheckingOwned
  <2>4. ChunkByChunk'
    BY <2>1, <2>2 DEF ChunkByChunk
  <2>5. QueuedOwned'
    <3>1. \A r \in Runs, l \in Links : /\ WillMark(r, l) => WillMark(r, l)'
                                       /\ CutShort(r) => CutShort(r)'
      BY <2>1, <2>2 DEF WillMark, CutShort
    <3> QED
      BY <2>2, <3>1 DEF QueuedOwned
  <2>6. Accounted'
    BY <2>1, <2>2 DEF Accounted, Uncut, Ahead, Settled
  <2> QED
    BY <2>3, <2>4, <2>5, <2>6
<1>2. ASSUME j \in Rechecks, DeliverSingleLink(j) PROVE RowsOK'
  <2>1. /\ UNCHANGED <<status, linkIds, pc, todo, threw, lapsed>>
        /\ \A q \in Requests : job'[q] = job[q]
    BY <1>2 DEF DeliverSingleLink, apiVars, runVars, oddVars, LockInv, TypeInv, TypeOK, Jobs
  <2>2. task'[j][target[j]] = "find" /\ target[j] \in Links /\ j \in Owners
    BY <1>2 DEF DeliverSingleLink, LockInv, TypeInv, TypeOK, Owners
  <2>3. \A o \in Owners, l \in Links : o # j \/ l # target[j] => task'[o][l] = task[o][l]
    BY <1>2 DEF DeliverSingleLink, LockInv, TypeInv, TypeOK
  <2>4. \A r \in Runs : r \in Owners /\ r # j
    BY <1>2 DEF Owners
  <2>5. \A r \in Runs, l \in Links : task'[r][l] = task[r][l]
    BY <2>3, <2>4
  <2>6. Born'
    BY <2>1, <2>2, <2>3 DEF Born
  <2>7. ChunkByChunk'
    BY <2>1, <2>5 DEF ChunkByChunk
  <2>8. CheckingOwned'
    BY <2>1, <2>2, <2>3 DEF CheckingOwned, InFlight
  <2>9. QueuedOwned'
    BY <2>1, <2>5 DEF QueuedOwned, WillMark, CutShort
  <2>10. Accounted'
    <3>1. ASSUME NEW r \in Runs, NEW l \in Links, Ahead(r, l) \/ Settled(r, l)
          PROVE  Ahead(r, l)' \/ Settled(r, l)'
      <4>1. Ahead(r, l) => Ahead(r, l)'
        BY <2>1, <2>5 DEF Ahead
      <4>2. \A o \in Owners : task[o][l] \in Begun => task'[o][l] \in Begun
        BY <2>2, <2>3 DEF Begun, InFlight
      <4> QED
        BY <2>1, <3>1, <4>1, <4>2 DEF Settled
    <3>2. \A r \in Runs : linkIds[r[1]] \subseteq Links
      BY DEF Runs, LockInv, TypeInv, TypeOK
    <3> QED
      BY <2>1, <3>1, <3>2 DEF Accounted, Uncut
  <2> QED
    BY <2>6, <2>7, <2>8, <2>9, <2>10
<1>3. CASE Redeliver(j)
  <2>1. QuietFrame
    BY <1>3, OtherSteps DEF LockInv
  <2> QED
    BY <2>1, RowsAfterQuiet
<1> QED
  BY <1>1, <1>2, <1>3 DEF Deliver

\* A death cuts the busy runs of its process short, and loses the calls in it.
LEMMA RowsAfterCrash ==
  ASSUME RowsInv, NEW procs \in SUBSET Owners, Crash(procs)
  PROVE  RowsOK'
<1> USE DEF RowsInv, RowsOK
<1>1. /\ UNCHANGED <<status, linkIds, job, todo, threw, lapsed>>
      /\ \A r \in Runs : /\ r \in procs /\ pc[r] \in Busy => pc'[r] = "crashed"
                         /\ ~ (r \in procs /\ pc[r] \in Busy) => pc'[r] = pc[r]
  BY DEF Crash, apiVars
<1>2. \A o \in Owners, l \in Links :
          task'[o][l] = IF o \in procs /\ task[o][l] \in InFlight THEN "lost" ELSE task[o][l]
  BY DEF Crash
<1>3. Born'
  BY <1>1, <1>2 DEF Born
<1>4. CheckingOwned'
  BY <1>1, <1>2 DEF CheckingOwned
<1>5. ChunkByChunk'
  <2>1. ASSUME NEW r \in Runs, pc'[r] # "crashed"
        PROVE  /\ pc'[r] = pc[r] /\ r \in Owners
               /\ pc[r] \in Busy => \A l \in Links : task'[r][l] = task[r][l]
               /\ \A l \in Links : task[r][l] = "idle" => task'[r][l] = "idle"
    BY <1>1, <1>2, <2>1 DEF Owners, InFlight
  <2> QED
    BY <1>1, <2>1 DEF ChunkByChunk, Busy
<1>6. QueuedOwned'
  <2>1. ASSUME NEW r \in Runs, NEW l \in Links, WillMark(r, l) \/ CutShort(r)
        PROVE  WillMark(r, l)' \/ CutShort(r)'
    <3>1. r \in Owners
      BY DEF Owners
    <3>2. CASE r \in procs /\ pc[r] \in Busy
      BY <1>1, <3>2 DEF CutShort
    <3>3. CASE ~ (r \in procs /\ pc[r] \in Busy) /\ WillMark(r, l)
      BY <1>1, <1>2, <3>1, <3>3 DEF WillMark, Busy
    <3>4. CASE ~ (r \in procs /\ pc[r] \in Busy) /\ CutShort(r)
      BY <1>1, <1>2, <3>1, <3>4 DEF CutShort, InFlight
    <3> QED
      BY <2>1, <3>2, <3>3, <3>4
  <2> QED
    BY <1>1, <2>1 DEF QueuedOwned
<1>7. Accounted'
  <2>1. ASSUME NEW r \in Runs, Uncut(r)', NEW l \in linkIds[r[1]], l \in Links
        PROVE  Ahead(r, l)' \/ Settled(r, l)'
    <3>1. pc'[r] = pc[r] /\ r \notin procs /\ r \in Owners /\ Uncut(r)
      BY <1>1, <2>1 DEF Uncut, Busy, Owners
    <3>2. Ahead(r, l) \/ Settled(r, l)
      BY <3>1 DEF Accounted
    <3>3. \A o \in Owners : task[o][l] \in Begun => task'[o][l] \in Begun
      BY <1>2, <2>1 DEF Begun
    <3> QED
      BY <1>1, <1>2, <2>1, <3>1, <3>2, <3>3 DEF Ahead, Settled
  <2>2. \A r \in Runs : linkIds[r[1]] \subseteq Links
    BY DEF Runs, LockInv, TypeInv, TypeOK
  <2> QED
    BY <1>1, <2>1, <2>2 DEF Accounted
<1> QED
  BY <1>3, <1>4, <1>5, <1>6, <1>7

\* The steps of handle() that touch no row and start no call.
MoveFrame(r) ==
    /\ UNCHANGED <<status, task, linkIds, lapsed>>
    /\ faults' \in Nat /\ faults' >= faults
    /\ \A q \in Requests : job'[q] \in {"idle", "unlocked"} => job[q] = job'[q]
    /\ \A x \in Runs \ {r} : pc'[x] = pc[x] /\ todo'[x] = todo[x] /\ (x \in threw' <=> x \in threw)
    /\ r \in threw => r \in threw'
    /\ \/ pc[r] = "acquire" /\ pc'[r] = "ended"
       \/ pc[r] = "acquire" /\ pc'[r] = "raise" /\ todo'[r] = linkIds[r[1]]
       \/ pc[r] = "raise" /\ pc'[r] = "queue" /\ todo'[r] = todo[r]
       \/ pc[r] \in Body /\ pc'[r] = "lower" /\ r \in threw'
       \/ /\ pc[r] = "await" /\ pc'[r] = "chunk" /\ todo'[r] = todo[r]
          /\ \A l \in Links : task[r][l] = "idle"
       \/ pc[r] = "chunk" /\ pc'[r] = "lower" /\ todo[r] = {}
       \/ pc[r] = "lower" /\ pc'[r] = "unlock"
       \/ pc[r] = "unlock" /\ pc'[r] = "ended"

LEMMA RowsAfterMove ==
  ASSUME RowsInv, NEW r \in Runs, MoveFrame(r)
  PROVE  RowsOK'
<1> USE DEF RowsInv, RowsOK
<1>1. Born' /\ CheckingOwned'
  BY DEF MoveFrame, Born, CheckingOwned
<1>2. ChunkByChunk'
  BY DEF MoveFrame, ChunkByChunk
<1>3. QueuedOwned'
  <2>1. ASSUME NEW x \in Runs, NEW l \in Links, WillMark(x, l) \/ CutShort(x)
        PROVE  WillMark(x, l)' \/ CutShort(x)'
    <3>1. CASE x # r
      BY <2>1, <3>1 DEF MoveFrame, WillMark, CutShort
    <3>2. CASE x = r /\ CutShort(r)
      BY <3>2 DEF MoveFrame, CutShort, Body, Busy
    <3>3. CASE x = r /\ WillMark(r, l)
      BY <3>3 DEF MoveFrame, WillMark, CutShort, ChunkByChunk
    <3> QED
      BY <2>1, <3>1, <3>2, <3>3
  <2> QED
    BY <2>1 DEF MoveFrame, QueuedOwned
<1>4. Accounted'
  <2>1. ASSUME NEW x \in Runs, Uncut(x)', NEW l \in linkIds[x[1]], l \in Links
        PROVE  Ahead(x, l)' \/ Settled(x, l)'
    <3>1. Uncut(x) /\ (Settled(x, l) => Settled(x, l)')
      BY <2>1 DEF MoveFrame, Uncut, Settled
    <3>2. Ahead(x, l) \/ Settled(x, l)
      BY <3>1 DEF Accounted
    <3>3. CASE x # r
      BY <3>1, <3>2, <3>3 DEF MoveFrame, Ahead
    <3>4. CASE x = r
      BY <2>1, <3>1, <3>2, <3>4 DEF MoveFrame, Ahead, Uncut, ChunkByChunk
    <3> QED
      BY <3>3, <3>4
  <2>2. \A x \in Runs : linkIds[x[1]] \subseteq Links
    BY DEF Runs, LockInv, TypeInv, TypeOK
  <2> QED
    BY <2>1, <2>2 DEF MoveFrame, Accounted
<1> QED
  BY <1>1, <1>2, <1>3, <1>4

LEMMA MoveSteps ==
  ASSUME RowsInv, NEW r \in Runs,
         \/ AcquireLock(r) \/ RaiseFlag(r) \/ ChunkResolves(r) \/ ChunkRejects(r)
         \/ PublishDone(r) \/ LowerFlag(r) \/ Unlock(r) \/ AcquireFails(r) \/ BodyFails(r)
  PROVE  MoveFrame(r)
<1> USE DEF RowsInv, LockInv, TypeInv, TypeOK, MoveTo, apiVars, oddVars, Body, Busy
<1>0. r[1] \in Requests /\ r[1] \in Jobs
  BY DEF Runs, Jobs
<1>1. CASE AcquireLock(r)
  <2>1. CASE lock = NoLock
    <3>1. /\ UNCHANGED <<status, task, linkIds, lapsed, faults, job, threw>>
          /\ pc[r] = "acquire" /\ pc'[r] = "raise" /\ todo'[r] = linkIds[r[1]]
      BY <1>1, <2>1 DEF AcquireLock
    <3>2. \A x \in Runs \ {r} : pc'[x] = pc[x] /\ todo'[x] = todo[x]
      BY <1>1, <2>1 DEF AcquireLock
    <3> QED
      BY <3>1, <3>2 DEF MoveFrame
  <2>2. CASE lock # NoLock
    <3>1. /\ UNCHANGED <<status, task, linkIds, lapsed, faults, todo, threw>>
          /\ pc[r] = "acquire" /\ pc'[r] = "ended"
          /\ \A x \in Runs \ {r} : pc'[x] = pc[x]
      BY <1>1, <2>2 DEF AcquireLock, SkipJob
    <3>2. \A q \in Requests : job'[q] \in {"idle", "unlocked"} => job[q] = job'[q]
      BY <1>0, <1>1, <2>2 DEF AcquireLock, SkipJob, Jobs
    <3> QED
      BY <3>1, <3>2 DEF MoveFrame
  <2> QED
    BY <2>1, <2>2
<1>2. CASE RaiseFlag(r)
  BY <1>2 DEF RaiseFlag, Throw, MoveFrame
<1>3. CASE ChunkResolves(r)
  BY <1>3 DEF ChunkResolves, AllReturned, AfterChunk, MoveFrame
<1>4. CASE ChunkRejects(r)
  BY <1>4 DEF ChunkRejects, Throw, MoveFrame
<1>5. CASE PublishDone(r)
  BY <1>5 DEF PublishDone, AfterDone, MoveFrame
<1>6. CASE LowerFlag(r)
  BY <1>6 DEF LowerFlag, Fault, MoveFrame
<1>7. CASE Unlock(r)
  BY <1>0, <1>7 DEF Unlock, Fault, MoveFrame
<1>8. CASE AcquireFails(r)
  BY <1>0, <1>8 DEF AcquireFails, Fault, MoveFrame
<1>9. CASE BodyFails(r)
  BY <1>9 DEF BodyFails, Throw, Fault, MoveFrame
<1> QED
  BY <1>1, <1>2, <1>3, <1>4, <1>5, <1>6, <1>7, <1>8, <1>9

\* The whole batch becomes QUEUED, and is still ahead.  No other run has rows of its
\* own to account for then: the lock keeps it out of its body.
LEMMA RowsAfterQueued ==
  ASSUME RowsInv, NEW r \in Runs, MarkQueued(r)
  PROVE  RowsOK'
<1> USE DEF RowsInv, RowsOK
<1>1. /\ UNCHANGED <<task, linkIds, lapsed, job, todo, threw>>
      /\ pc[r] = "queue" /\ pc'[r] = "chunk" /\ todo[r] = linkIds[r[1]]
      /\ \A x \in Runs \ {r} : pc'[x] = pc[x]
  BY DEF MarkQueued, MoveTo, apiVars, oddVars, LockInv, TypeInv, TypeOK, ChunkByChunk
<1>2. \A l \in Links : \/ l \in linkIds[r[1]] /\ Exists(l) /\ status'[l] = "QUEUED"
                       \/ status'[l] = status[l]
  BY DEF MarkQueued
<1>3. Born'
  <2>1. \A q \in Requests : linkIds[q] \subseteq Links
    BY DEF LockInv, TypeInv, TypeOK
  <2>2. \A l \in Links : status[l] # "UNBORN" => status'[l] # "UNBORN"
    BY <1>2
  <2> QED
    BY <1>1, <2>1, <2>2 DEF Born
<1>4. ChunkByChunk'
  BY <1>1 DEF ChunkByChunk
<1>5. CheckingOwned'
  BY <1>1, <1>2 DEF CheckingOwned
<1>6. QueuedOwned'
  <2>1. \A x \in Runs, l \in Links :
            WillMark(x, l) \/ CutShort(x) => WillMark(x, l)' \/ CutShort(x)'
    BY <1>1 DEF WillMark, CutShort
  <2>2. \A l \in Links : l \in linkIds[r[1]] => WillMark(r, l)'
    BY <1>1 DEF WillMark
  <2> QED
    BY <1>1, <1>2, <2>1, <2>2 DEF QueuedOwned
<1>7. Accounted'
  <2>1. ASSUME NEW x \in Runs, Uncut(x)', x # r PROVE FALSE
    BY <1>1, <2>1, OneHolder DEF Uncut, Body, Busy
  <2> QED
    BY <1>1, <2>1 DEF Accounted, Ahead
<1> QED
  BY <1>3, <1>4, <1>5, <1>6, <1>7

LEMMA RowsAfterChunk ==
  ASSUME RowsInv, NEW r \in Runs, StartChunk(r)
  PROVE  RowsOK'
<1> USE DEF RowsInv, RowsOK
<1>1. PICK slice \in SUBSET todo[r] :
          /\ task' = [task EXCEPT ![r] = [l \in Links |-> IF l \in slice THEN "find" ELSE @[l]]]
          /\ todo' = [todo EXCEPT ![r] = @ \ slice]
  BY DEF StartChunk
<1>2. /\ UNCHANGED <<status, linkIds, lapsed, job, threw>>
      /\ pc[r] = "chunk" /\ pc'[r] = "await" /\ r \in Owners
      /\ \A x \in Runs \ {r} : pc'[x] = pc[x] /\ todo'[x] = todo[x]
      /\ todo'[r] = todo[r] \ slice
      /\ \A l \in Links : task[r][l] = "idle"
  BY <1>1 DEF StartChunk, MoveTo, apiVars, oddVars, LockInv, TypeInv, TypeOK, ChunkByChunk,
              Owners
<1>3. /\ \A o \in Owners \ {r}, l \in Links : task'[o][l] = task[o][l]
      /\ \A l \in Links : task'[r][l] = IF l \in slice THEN "find" ELSE "idle"
  BY <1>1, <1>2 DEF LockInv, TypeInv, TypeOK
<1>4. Born' /\ CheckingOwned'
  BY <1>2, <1>3 DEF Born, CheckingOwned, InFlight
<1>5. ChunkByChunk'
  BY <1>2, <1>3 DEF ChunkByChunk, Owners
<1>6. QueuedOwned'
  <2>1. ASSUME NEW x \in Runs, NEW l \in Links, WillMark(x, l) \/ CutShort(x)
        PROVE  WillMark(x, l)' \/ CutShort(x)'
    <3>1. CASE x # r
      BY <1>2, <1>3, <2>1, <3>1 DEF WillMark, CutShort, Owners
    <3>2. CASE x = r
      BY <1>2, <1>3, <2>1, <3>2 DEF WillMark, CutShort
    <3> QED
      BY <3>1, <3>2
  <2> QED
    BY <1>2, <2>1 DEF QueuedOwned
<1>7. Accounted'
  <2>1. ASSUME NEW x \in Runs, NEW l \in Links, Uncut(x), Ahead(x, l) \/ Settled(x, l)
        PROVE  Ahead(x, l)' \/ Settled(x, l)'
    <3>1. Settled(x, l) => Settled(x, l)'
      BY <1>2, <1>3 DEF Settled, Begun, InFlight
    <3>2. CASE x # r
      BY <1>2, <1>3, <2>1, <3>1, <3>2 DEF Ahead, Owners
    <3>3. CASE x = r
      BY <1>2, <1>3, <2>1, <3>1, <3>3 DEF Ahead
    <3> QED
      BY <3>2, <3>3
  <2>2. \A x \in Runs : linkIds[x[1]] \subseteq Links /\ (Uncut(x)' => Uncut(x))
    BY <1>2 DEF Runs, LockInv, TypeInv, TypeOK, Uncut
  <2> QED
    BY <1>2, <2>1, <2>2 DEF Accounted
<1> QED
  BY <1>4, <1>5, <1>6, <1>7

LEMMA RowsNext == RowsInv /\ [Next]_vars => RowsInv'
<1> SUFFICES ASSUME RowsInv, [Next]_vars PROVE RowsInv'
  OBVIOUS
<1>0. TypeInv /\ LockInv' /\ FreshRuns'
  BY LockNext, FreshNext DEF RowsInv, LockInv
<1>1. CASE UserStep
  BY <1>0, <1>1, UserSteps, RowsAfterUser DEF RowsInv
<1>2. CASE RequestStep
  BY <1>0, <1>2, RequestSteps, RowsAfterQuiet DEF RowsInv
<1>3. CASE (\E l \in Links : CooldownEnds(l)) \/ ExpireLock \/ LapseLock \/ UNCHANGED vars
  BY <1>0, <1>3, OtherSteps, RowsAfterQuiet DEF RowsInv
<1>4. ASSUME NEW j \in Jobs, Deliver(j) PROVE RowsInv'
  BY <1>0, <1>4, RowsAfterDeliver DEF RowsInv
<1>5. ASSUME NEW r \in Runs, HandleStep(r) \/ AcquireFails(r) \/ BodyFails(r) PROVE RowsInv'
  BY <1>0, <1>5, MoveSteps, RowsAfterMove, RowsAfterQueued, RowsAfterChunk
     DEF HandleStep, RowsInv
<1>6. ASSUME NEW o \in Owners, NEW l \in Links, TaskStep(o, l) \/ TaskFails(o, l) PROVE RowsInv'
  BY <1>0, <1>6, CallSteps, RowsAfterCall DEF RowsInv
<1>7. ASSUME NEW procs \in SUBSET Owners, Crash(procs) PROVE RowsInv'
  BY <1>0, <1>7, RowsAfterCrash DEF RowsInv
<1> QED
  BY <1>1, <1>2, <1>3, <1>4, <1>5, <1>6, <1>7 DEF Next, FaultStep

LEMMA RowsInitially == Init => RowsInv
<1> SUFFICES ASSUME Init PROVE RowsInv
  OBVIOUS
<1>1. LockInv /\ FreshRuns
  BY InitType DEF Init, LockInv, LockHeld, FlagCoversRun, Body, Busy, FreshRuns
<1>2. \A o \in Owners, l \in Links : task[o][l] = "idle"
  BY DEF Init
<1>3. Born /\ ChunkByChunk
  BY <1>2 DEF Init, Born, ChunkByChunk, Owners
<1>4. QueuedOwned /\ CheckingOwned /\ Accounted
  BY DEF Init, QueuedOwned, CheckingOwned, Accounted, Uncut
<1> QED
  BY <1>1, <1>3, <1>4 DEF RowsInv, RowsOK

\* Where the rows of a batch stand, whatever is deleted, rechecked, redelivered or cut
\* short around them: a QUEUED row is still ahead of a run or was left by one cut short,
\* a CHECKING row has a call on it, and what a done event counts is final.
THEOREM RowsAreOwned == Spec => []RowsOwned
<1>1. Init => RowsInv
  BY RowsInitially
<1>2. RowsInv => RowsOwned
  <2> SUFFICES ASSUME RowsInv PROVE DoneIsFinal
    BY DEF RowsInv, RowsOK, RowsOwned
  <2>1. ASSUME NEW r \in Runs, pc[r] \in {"lower", "unlock"}, r \notin threw, lapsed = {},
               NEW l \in linkIds[r[1]]
        PROVE  Settled(r, l)
    BY <2>1 DEF RowsInv, RowsOK, Accounted, Uncut, Ahead
  <2> QED
    BY <2>1 DEF DoneIsFinal, Settled, Begun
<1> QED
  BY <1>1, <1>2, RowsNext, PTL DEF Spec

\* No new throw, and what is deleted stays so.
LEMMA ThrowsKept ==
  ASSUME TypeInv, ThrowsOnlyOnDeleted, faults' \in Nat, faults' >= faults,
         \A l \in Links : status[l] = "DELETED" => status'[l] = "DELETED",
         \A o \in Owners, l \in Links : task'[o][l] = "threw" => task[o][l] = "threw"
  PROVE  ThrowsOnlyOnDeleted'
<1>1. faults' = 0 => faults = 0
  BY DEF TypeInv, TypeOK
<1> QED
  BY <1>1 DEF ThrowsOnlyOnDeleted

LEMMA ThrowsNext == RowsInv /\ ThrowsOnlyOnDeleted /\ [Next]_vars => ThrowsOnlyOnDeleted'
<1> SUFFICES ASSUME RowsInv, ThrowsOnlyOnDeleted, [Next]_vars PROVE ThrowsOnlyOnDeleted'
  OBVIOUS
<1>0. TypeInv /\ LockInv /\ faults \in Nat
  BY DEF RowsInv, LockInv, TypeInv, TypeOK
<1>1. ASSUME QuietFrame PROVE ThrowsOnlyOnDeleted'
  BY <1>0, <1>1, ThrowsKept DEF QuietFrame
<1>2. CASE UserStep
  <2>1. UserFrame
    BY <1>0, <1>2, UserSteps
  <2> QED
    BY <1>0, <2>1, ThrowsKept DEF UserFrame, Exists, oddVars
<1>3. CASE RequestStep
  BY <1>0, <1>1, <1>3, RequestSteps
<1>4. CASE (\E l \in Links : CooldownEnds(l)) \/ ExpireLock \/ LapseLock \/ UNCHANGED vars
  BY <1>0, <1>1, <1>4, OtherSteps
<1>5. ASSUME NEW j \in Jobs, Deliver(j) PROVE ThrowsOnlyOnDeleted'
  <2>1. CASE DeliverManualCheck(j) \/ (j \in Rechecks /\ DeliverSingleLink(j))
    <3>1. UNCHANGED <<status, faults>>
      BY <2>1 DEF DeliverManualCheck, DeliverSingleLink, oddVars
    <3>2. \A o \in Owners, l \in Links : task'[o][l] \in {task[o][l], "find"}
      BY <1>0, <2>1 DEF DeliverManualCheck, DeliverSingleLink, TypeInv, TypeOK
    <3> QED
      BY <1>0, <3>1, <3>2, ThrowsKept
  <2>2. CASE Redeliver(j)
    BY <1>0, <1>1, <2>2, OtherSteps
  <2> QED
    BY <1>5, <2>1, <2>2 DEF Deliver
<1>6. ASSUME NEW r \in Runs, HandleStep(r) \/ AcquireFails(r) \/ BodyFails(r)
      PROVE  ThrowsOnlyOnDeleted'
  <2>1. CASE MarkQueued(r)
    BY <1>0, <2>1, ThrowsKept DEF MarkQueued, Exists, oddVars
  <2>2. CASE StartChunk(r)
    <3>1. UNCHANGED <<status, faults>>
      BY <2>2 DEF StartChunk, oddVars
    <3>2. \A o \in Owners, l \in Links : task'[o][l] \in {task[o][l], "find"}
      BY <1>0, <2>2 DEF StartChunk, TypeInv, TypeOK
    <3> QED
      BY <1>0, <3>1, <3>2, ThrowsKept
  <2>3. CASE ~MarkQueued(r) /\ ~StartChunk(r)
    <3>1. MoveFrame(r)
      BY <1>6, <2>3, MoveSteps DEF HandleStep
    <3> QED
      BY <1>0, <3>1, ThrowsKept DEF MoveFrame
  <2> QED
    BY <2>1, <2>2, <2>3
<1>7. ASSUME NEW o \in Owners, NEW l \in Links, TaskStep(o, l) \/ TaskFails(o, l)
      PROVE  ThrowsOnlyOnDeleted'
  <2>1. CallFrame(o, l)
    BY <1>0, <1>7, CallSteps
  <2>2. status[l] = "DELETED" => status'[l] = "DELETED"
    BY <2>1 DEF CallFrame, CallEffect, Exists
  <2>3. faults' = 0 /\ task'[o][l] = "threw" => status'[l] = "DELETED"
    BY <1>0, <2>1 DEF CallFrame, CallEffect, Exists, RowsInv, RowsOK, Born
  <2>4. faults' = 0 => faults = 0
    BY <1>0, <2>1 DEF CallFrame, CallEffect
  <2> QED
    BY <2>1, <2>2, <2>3, <2>4 DEF CallFrame, ThrowsOnlyOnDeleted
<1>8. ASSUME NEW procs \in SUBSET Owners, Crash(procs) PROVE ThrowsOnlyOnDeleted'
  BY <1>0, <1>8, ThrowsKept DEF Crash
<1> QED
  BY <1>2, <1>3, <1>4, <1>5, <1>6, <1>7, <1>8 DEF Next, FaultStep

\* While no call to the database or to Redis fails, processOne throws on rows deleted
\* under it and on no others.
THEOREM ThrowsAreDeletions == Spec => []ThrowsOnlyOnDeleted
<1>1. Init => RowsInv /\ ThrowsOnlyOnDeleted
  BY RowsInitially DEF Init, ThrowsOnlyOnDeleted
<1> QED
  BY <1>1, RowsNext, ThrowsNext, PTL DEF Spec
=============================================================================
