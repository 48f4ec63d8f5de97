----------------------------- MODULE ManualCheck -----------------------------
(***************************************************************************)
(* Manual checks of the links of one project: the API handlers that start  *)
(* them, the two BullMQ queues, and the worker replicas that run           *)
(* ManualCheckProcessor.handle and SingleLinkProcessor.processOne on the   *)
(* Link rows they share.                                                   *)
(*                                                                         *)
(* One action is what runs between two awaits.  A Redis publish changes no *)
(* state of this module and ProgressPublisher swallows its errors, so it   *)
(* belongs to the action before it (the stream is ProjectStream's matter). *)
(*                                                                         *)
(* A request and the job it enqueues are one process: a member of Requests *)
(* is a POST check-manual, a member of Rechecks a POST recheck.  A run is  *)
(* one invocation of handle(): the pair of a job and its attempt number,   *)
(* which also stands for the random token of the lock the run takes.       *)
(***************************************************************************)
EXTENDS Naturals, FiniteSets

CONSTANTS Links,       \* identifiers of Link rows, never reused
          Requests,    \* POST /projects/:id/check-manual requests
          Rechecks,    \* POST /links/:id/recheck requests
          Replicas,    \* number of worker processes
          NoLock,      \* "the lock's key is absent"
          ChunkSize,   \* INTERNAL_CONCURRENCY
          MaxStarts,   \* deliveries of one job: 1 + BullMQ's maxStalledCount
          Deletions,   \* links users may delete; if they are all, the project too
          Mishaps,     \* kinds of trouble: a worker's "crash", the "fault" of a database
                       \* or Redis call, the "lapse" of a lock under a live holder
          MaxMishaps   \* bound on how many of them happen

ASSUME LinksAssumption == IsFiniteSet(Links)
ASSUME ChunkSizeAssumption == ChunkSize \in Nat \ {0} /\ Replicas \in Nat \ {0}
ASSUME MaxStartsAssumption == MaxStarts \in Nat \ {0}
ASSUME BoundsAssumption ==
    Deletions \subseteq Links /\ Mishaps \subseteq {"crash", "fault", "lapse"} /\ MaxMishaps \in Nat
ASSUME ProcessesAssumption == Requests \cap Rechecks = {} /\ Links # {}

Jobs == Requests \cup Rechecks
Runs == Requests \X (1..MaxStarts)
Owners == Runs \cup Rechecks

ASSUME TokensAssumption == NoLock \notin Runs /\ Runs \cap Rechecks = {}

RowStatus == {"UNBORN", "PENDING", "QUEUED", "CHECKING", "DONE", "ERROR", "DELETED"}
JobState == {"idle", "unlocked", "ready", "refused",
             "waiting", "active", "completed", "failed"}
RunState == {"none", "acquire", "raise", "queue", "chunk", "await", "lower",
             "unlock", "ended", "crashed"}
TaskState == {"idle", "find", "mark", "crawl", "threw", "lost"}

VARIABLES
    project,   \* does the Project row exist?
    flag,      \* Project.manualChecking
    status,    \* status[l]: Link.status, or UNBORN before and DELETED after the row's life
    cooling,   \* cooling[l]: was lastCooldownAt set less than the cooldown ago?
    target,    \* target[c]: the link recheck request c names
    lock,      \* value of lock:project:{id}:manual in Redis
    job,       \* job[j]: progress of request j, then state of its job
    linkIds,   \* linkIds[q]: the snapshot job q carries
    starts,    \* starts[j]: how often job j was delivered to a worker
    pc,        \* pc[r]: where handle() of run r stands
    todo,      \* todo[r]: links of run r no chunk has started
    threw,     \* runs whose try block threw
    task,      \* task[o][l]: where processOne(l) called by o stands
    crashes, faults,  \* how many of each happened so far
    lapsed     \* runs whose lock expired while they were alive (history)

apiVars == <<project, cooling, target, linkIds>>
runVars == <<pc, todo, threw>>
oddVars == <<crashes, faults, lapsed>>
vars == <<project, flag, status, cooling, target, lock, job, linkIds, starts, pc,
          todo, threw, task, crashes, faults, lapsed>>

Exists(l) == status[l] \notin {"UNBORN", "DELETED"}
InFlight == {"find", "mark", "crawl"}
Busy == {"acquire", "raise", "queue", "chunk", "await", "lower", "unlock"}
Body == Busy \ {"acquire"}
Mishap(kind) == kind \in Mishaps /\ crashes + faults + Cardinality(lapsed) < MaxMishaps
Fault == Mishap("fault") /\ faults' = faults + 1

Init ==
    /\ project = TRUE
    /\ flag = FALSE
    /\ status \in [Links -> {"UNBORN", "PENDING"}]
    /\ cooling = [l \in Links |-> FALSE]
    /\ target \in [Rechecks -> Links]
    /\ lock = NoLock
    /\ job = [j \in Jobs |-> "idle"]
    /\ linkIds = [q \in Requests |-> {}]
    /\ starts = [j \in Jobs |-> 0]
    /\ pc = [r \in Runs |-> "none"]
    /\ todo = [r \in Runs |-> {}]
    /\ threw = {}
    /\ task = [o \in Owners |-> [l \in Links |-> "idle"]]
    /\ crashes = 0 /\ faults = 0
    /\ lapsed = {}

------------------------------------------------------------------------------
(* The user's other requests on the rows.                                  *)

\* LinksService.createManualLinks: all items or none, so any non-empty batch.
CreateManualLinks ==
    /\ project
    /\ \E batch \in (SUBSET {l \in Links : status[l] = "UNBORN"}) \ {{}} :
          status' = [l \in Links |-> IF l \in batch THEN "PENDING" ELSE status[l]]
    /\ UNCHANGED <<flag, lock, job, starts, task, apiVars, runVars, oddVars>>

\* LinksService.deleteOne: the server looks at neither the flag nor the lock.
DeleteOne(l) ==
    /\ l \in Deletions /\ Exists(l)
    /\ status' = [status EXCEPT ![l] = "DELETED"]
    /\ UNCHANGED <<flag, lock, job, starts, task, apiVars, runVars, oddVars>>

\* Every existing row goes: deleteAllManual, and the cascade of a project's deletion.
DropRows == status' = [l \in Links |-> IF Exists(l) THEN "DELETED" ELSE status[l]]

DeleteAllManual ==
    /\ Deletions = Links /\ project
    /\ DropRows
    /\ UNCHANGED <<flag, lock, job, starts, task, apiVars, runVars, oddVars>>

DeleteProject ==
    /\ Deletions = Links /\ project
    /\ project' = FALSE
    /\ DropRows
    /\ UNCHANGED <<flag, lock, job, starts, task, cooling, target, linkIds,
                   runVars, oddVars>>

------------------------------------------------------------------------------
(* POST check-manual: LinksService.startManualCheck.                       *)

StartManualCheck(q) ==
    /\ job[q] = "idle"
    /\ job' = [job EXCEPT ![q] = IF project /\ lock = NoLock THEN "unlocked" ELSE "refused"]
    /\ UNCHANGED <<flag, status, lock, starts, task, apiVars, runVars, oddVars>>

SnapshotLinks(q) ==
    /\ job[q] = "unlocked"
    /\ linkIds' = [linkIds EXCEPT ![q] = {l \in Links : status[l] \in {"PENDING", "ERROR"}}]
    /\ job' = [job EXCEPT ![q] = IF linkIds'[q] = {} THEN "refused" ELSE "ready"]
    /\ UNCHANGED <<project, flag, status, cooling, target, lock, starts, task,
                   runVars, oddVars>>

(* POST recheck: LinksService.recheckOne on a manual link.                 *)

\* Nothing later relies on what findUnique read, so it goes with the lock's reading.
RecheckOne(c) ==
    /\ job[c] = "idle"
    /\ job' = [job EXCEPT ![c] = IF Exists(target[c]) /\ lock = NoLock THEN "unlocked"
                                                                      ELSE "refused"]
    /\ UNCHANGED <<flag, status, lock, starts, task, apiVars, runVars, oddVars>>

\* The conditional updateMany: a compare-and-set on lastCooldownAt.
TakeCooldown(c) ==
    LET l == target[c] IN
    /\ job[c] = "unlocked"
    /\ IF Exists(l) /\ ~cooling[l]
       THEN /\ cooling' = [cooling EXCEPT ![l] = TRUE]
            /\ job' = [job EXCEPT ![c] = "ready"]
       ELSE /\ job' = [job EXCEPT ![c] = "refused"]
            /\ UNCHANGED cooling
    /\ UNCHANGED <<project, flag, status, target, lock, linkIds, starts, task,
                   runVars, oddVars>>

CooldownEnds(l) ==
    /\ cooling[l]
    /\ cooling' = [cooling EXCEPT ![l] = FALSE]
    /\ UNCHANGED <<project, flag, status, target, lock, job, linkIds, starts, task,
                   runVars, oddVars>>

\* queue.add, the last step of both handlers.
Enqueue(j) ==
    /\ job[j] = "ready"
    /\ job' = [job EXCEPT ![j] = "waiting"]
    /\ UNCHANGED <<flag, status, lock, starts, task, apiVars, runVars, oddVars>>

\* A database or Redis call of a handler rejects: 500, what it did so far stays.
RequestFails(j) ==
    /\ job[j] \in {"unlocked", "ready"}
    /\ Fault
    /\ job' = [job EXCEPT ![j] = "refused"]
    /\ UNCHANGED <<flag, status, lock, starts, task, apiVars, runVars, crashes, lapsed>>

------------------------------------------------------------------------------
(* Delivery of jobs (BullMQ, external).                                    *)

\* queue.module.ts starts the manual-check worker of each replica with concurrency 1.
DeliverManualCheck(q) ==
    LET r == <<q, starts[q] + 1>> IN
    /\ job[q] = "waiting"
    /\ Cardinality({x \in Runs : pc[x] \in Busy}) < Replicas
    /\ job' = [job EXCEPT ![q] = "active"]
    /\ starts' = [starts EXCEPT ![q] = @ + 1]
    /\ pc' = [pc EXCEPT ![r] = "acquire"]
    /\ UNCHANGED <<flag, status, lock, task, todo, threw, apiVars, oddVars>>

DeliverSingleLink(c) ==
    /\ job[c] = "waiting"
    /\ job' = [job EXCEPT ![c] = "active"]
    /\ starts' = [starts EXCEPT ![c] = @ + 1]
    /\ task' = [task EXCEPT ![c][target[c]] = "find"]
    /\ UNCHANGED <<flag, status, lock, apiVars, runVars, oddVars>>

\* May BullMQ deliver the job again?
CanRetry(j) == starts[j] < MaxStarts

\* A job whose worker died loses its BullMQ lock: back to waiting, or failed for good.
Redeliver(j) ==
    /\ job[j] = "active"
    /\ IF j \in Requests THEN pc[<<j, starts[j]>>] = "crashed"
                         ELSE task[j][target[j]] = "lost"
    /\ job' = [job EXCEPT ![j] = IF CanRetry(j) THEN "waiting" ELSE "failed"]
    /\ UNCHANGED <<flag, status, lock, starts, task, apiVars, runVars, oddVars>>

------------------------------------------------------------------------------
(* ManualCheckProcessor.handle.                                            *)

MoveTo(r, where) == pc' = [pc EXCEPT ![r] = where]

\* The project is locked: the job is skipped, and completes.
SkipJob_inTry(r) == MoveTo(r, "lower") /\ UNCHANGED job
SkipJob_hangs(r) == MoveTo(r, "ended") /\ UNCHANGED job
SkipJob(r) == MoveTo(r, "ended") /\ job' = [job EXCEPT ![r[1]] = "completed"]

\* LockManager.acquire: SET NX PX.  It answers null when the key exists.
AcquireLock(r) ==
    /\ pc[r] = "acquire"
    /\ IF lock = NoLock
       THEN /\ lock' = r
            /\ MoveTo(r, "raise")
            /\ todo' = [todo EXCEPT ![r] = linkIds[r[1]]]
            /\ UNCHANGED job
       ELSE SkipJob(r) /\ UNCHANGED <<lock, todo>>
    /\ UNCHANGED <<flag, status, starts, task, threw, apiVars, oddVars>>

\* The SET itself rejects: thrown before the try, so the job just fails.
AcquireFails(r) ==
    /\ pc[r] = "acquire"
    /\ Fault
    /\ MoveTo(r, "ended")
    /\ job' = [job EXCEPT ![r[1]] = "failed"]
    /\ UNCHANGED <<flag, status, lock, starts, task, todo, threw, apiVars, crashes, lapsed>>

\* A bug: the flag is lowered at the end of the try block only.
Throw_noFinally(r) == MoveTo(r, "unlock") /\ threw' = threw \cup {r}

\* An error of the try block goes to the finally block, as its normal end does.
Throw(r) == MoveTo(r, "lower") /\ threw' = threw \cup {r}

RaiseFlag(r) ==
    /\ pc[r] = "raise"
    /\ IF project THEN flag' = TRUE /\ MoveTo(r, "queue") /\ UNCHANGED threw
                  ELSE Throw(r) /\ UNCHANGED flag
    /\ UNCHANGED <<status, lock, job, starts, task, todo, apiVars, oddVars>>

\* markManyStatus(linkIds, 'QUEUED'): one updateMany, silent on missing rows.
MarkQueued(r) ==
    /\ pc[r] = "queue"
    /\ status' = [l \in Links |-> IF l \in linkIds[r[1]] /\ Exists(l) THEN "QUEUED"
                                                                     ELSE status[l]]
    /\ MoveTo(r, "chunk")
    /\ UNCHANGED <<flag, lock, job, starts, task, todo, threw, apiVars, oddVars>>

\* The next chunk: min(ChunkSize, what is left); findMany gives no order.
IsChunk(r, slice) ==
    /\ slice \subseteq todo[r] /\ slice # {}
    /\ Cardinality(slice) <= ChunkSize
    /\ slice = todo[r] \/ Cardinality(slice) = ChunkSize

StartChunk(r) ==
    /\ pc[r] = "chunk"
    /\ \E slice \in SUBSET todo[r] :
          /\ IsChunk(r, slice)
          /\ task' = [task EXCEPT ![r] = [l \in Links |-> IF l \in slice THEN "find" ELSE @[l]]]
          /\ todo' = [todo EXCEPT ![r] = @ \ slice]
    /\ MoveTo(r, "await")
    /\ UNCHANGED <<flag, status, lock, job, starts, threw, apiVars, oddVars>>

\* The for loop goes on until no link is left.
AfterChunk_onlyOne == "lower"
AfterChunk == "chunk"

\* Has every call of the chunk returned?
AllReturned_noAwait(r) == \A l \in Links : task[r][l] # "threw"
AllReturned(r) == \A l \in Links : task[r][l] = "idle"

\* Promise.all resolves; counts, progress event and job.updateProgress follow.
ChunkResolves(r) ==
    /\ pc[r] = "await"
    /\ AllReturned(r)
    /\ MoveTo(r, AfterChunk)
    /\ UNCHANGED <<flag, status, lock, job, starts, task, todo, threw, apiVars, oddVars>>

\* Promise.all rejects at the first throw and abandons the calls still in flight.
ChunkRejects(r) ==
    /\ pc[r] = "await"
    /\ \E l \in Links : task[r][l] = "threw"
    /\ Throw(r)
    /\ UNCHANGED <<flag, status, lock, job, starts, task, todo, apiVars, oddVars>>

\* No chunk is left: the final counts and the done event.
AfterDone == "lower"

PublishDone(r) ==
    /\ pc[r] = "chunk" /\ todo[r] = {}
    /\ MoveTo(r, AfterDone)
    /\ UNCHANGED <<flag, status, lock, job, starts, task, todo, threw, apiVars, oddVars>>

\* An awaited database or queue call of the try block rejects.
BodyFails(r) ==
    /\ pc[r] \in {"raise", "queue", "chunk"}
    /\ Fault
    /\ Throw(r)
    /\ UNCHANGED <<flag, status, lock, job, starts, task, todo, apiVars, crashes, lapsed>>

\* finally: setProjectManualChecking(false); its error is caught and logged.
LowerFlag(r) ==
    /\ pc[r] = "lower"
    /\ \/ flag' = (flag /\ ~project) /\ UNCHANGED faults
       \/ Fault /\ UNCHANGED flag
    /\ MoveTo(r, "unlock")
    /\ UNCHANGED <<status, lock, job, starts, task, todo, threw, apiVars, crashes, lapsed>>

\* RELEASE_LUA deletes the key only if it still holds this run's token.
ReleaseLock_anyToken(r) == lock' = NoLock
ReleaseLock(r) == lock' = IF lock = r THEN NoLock ELSE lock

\* finally: lock.release(), whose error is caught; then the job completes or fails.
Unlock(r) ==
    /\ pc[r] = "unlock"
    /\ \/ ReleaseLock(r) /\ UNCHANGED faults
       \/ Fault /\ UNCHANGED lock
    /\ MoveTo(r, "ended")
    /\ job' = [job EXCEPT ![r[1]] = IF r \in threw THEN "failed" ELSE "completed"]
    /\ UNCHANGED <<flag, status, starts, task, todo, threw, apiVars, crashes, lapsed>>

------------------------------------------------------------------------------
(* SingleLinkProcessor.processOne(l), called by a run or by a recheck job. *)

\* The call returns (idle again) or throws.  A recheck job ends with its only call;
\* a run's job is ended by Unlock.
EndTask(o, l, result) ==
    /\ task' = [task EXCEPT ![o][l] = result]
    /\ job' = IF o \in Rechecks
              THEN [job EXCEPT ![o] = IF result = "idle" THEN "completed" ELSE "failed"]
              ELSE job

FindLink(o, l) ==
    /\ task[o][l] = "find"
    /\ IF Exists(l) THEN task' = [task EXCEPT ![o][l] = "mark"] /\ UNCHANGED job
                    ELSE EndTask(o, l, "idle")
    /\ UNCHANGED <<flag, status, lock, starts, apiVars, runVars, oddVars>>

\* update() of a row deleted since it was read throws.
MarkChecking(o, l) ==
    /\ task[o][l] = "mark"
    /\ IF Exists(l)
       THEN /\ status' = [status EXCEPT ![l] = "CHECKING"]
            /\ task' = [task EXCEPT ![o][l] = "crawl"]
            /\ UNCHANGED job
       ELSE EndTask(o, l, "threw") /\ UNCHANGED status
    /\ UNCHANGED <<flag, lock, starts, apiVars, runVars, oddVars>>

\* LinkStatus of a result: ok or not.
ResultStatus_timeout == {"DONE", "ERROR", "TIMEOUT"}
ResultStatus == {"DONE", "ERROR"}

SaveResult_ifChecking(o, l) ==
    /\ task[o][l] = "crawl"
    /\ IF status[l] = "CHECKING"
       THEN (\E s \in ResultStatus : status' = [status EXCEPT ![l] = s]) /\ EndTask(o, l, "idle")
       ELSE EndTask(o, l, "threw") /\ UNCHANGED status
    /\ UNCHANGED <<flag, lock, starts, apiVars, runVars, oddVars>>

\* crawlAndAnalyze never throws: it answers ok or not, and saveResult follows.
SaveResult(o, l) ==
    /\ task[o][l] = "crawl"
    /\ IF Exists(l)
       THEN /\ \E s \in ResultStatus : status' = [status EXCEPT ![l] = s]
            /\ EndTask(o, l, "idle")
       ELSE EndTask(o, l, "threw") /\ UNCHANGED status
    /\ UNCHANGED <<flag, lock, starts, apiVars, runVars, oddVars>>

TaskFails(o, l) ==
    /\ task[o][l] \in InFlight
    /\ Fault
    /\ EndTask(o, l, "threw")
    /\ UNCHANGED <<flag, status, lock, starts, apiVars, runVars, crashes, lapsed>>

------------------------------------------------------------------------------
(* Crashes and the lock's TTL.                                             *)

\* A worker process dies with every call in it and is restarted.  It hosted at most
\* one busy run, and any of the rechecks and of the calls that outlived their run.
Hosted(procs) ==
    /\ procs # {}
    /\ \A o \in procs : (o \in Runs /\ pc[o] \in Busy) \/ \E l \in Links : task[o][l] \in InFlight
    /\ \A r1, r2 \in procs \cap Runs : pc[r1] \in Busy /\ pc[r2] \in Busy => r1 = r2

Crash(procs) ==
    /\ Mishap("crash")
    /\ Hosted(procs)
    /\ crashes' = crashes + 1
    /\ pc' = [r \in Runs |-> IF r \in procs /\ pc[r] \in Busy THEN "crashed" ELSE pc[r]]
    /\ task' = [o \in Owners |-> [l \in Links |->
                  IF o \in procs /\ task[o][l] \in InFlight THEN "lost" ELSE task[o][l]]]
    /\ UNCHANGED <<flag, status, lock, job, starts, todo, threw, apiVars, faults, lapsed>>

\* The TTL runs out on a key nobody heartbeats any more.
ExpireLock ==
    /\ lock # NoLock /\ pc[lock] \notin Body
    /\ lock' = NoLock
    /\ UNCHANGED <<flag, status, job, starts, task, apiVars, runVars, oddVars>>

\* The TTL runs out under a live run whose heartbeats failed for all of it.
LapseLock ==
    /\ lock # NoLock /\ pc[lock] \in Body
    /\ Mishap("lapse")
    /\ lapsed' = lapsed \cup {lock}
    /\ lock' = NoLock
    /\ UNCHANGED <<flag, status, job, starts, task, apiVars, runVars, crashes, faults>>

------------------------------------------------------------------------------
UserStep ==
    \/ CreateManualLinks
    \/ \E l \in Links : DeleteOne(l)
    \/ DeleteAllManual
    \/ DeleteProject

RequestStep ==
    \/ \E q \in Requests : StartManualCheck(q) \/ SnapshotLinks(q)
    \/ \E c \in Rechecks : RecheckOne(c) \/ TakeCooldown(c)
    \/ \E j \in Jobs : Enqueue(j) \/ RequestFails(j)

Deliver(j) ==
    \/ j \in Requests /\ DeliverManualCheck(j)
    \/ j \in Rechecks /\ DeliverSingleLink(j)
    \/ Redeliver(j)

HandleStep(r) ==
    \/ AcquireLock(r) \/ RaiseFlag(r) \/ MarkQueued(r)
    \/ StartChunk(r) \/ ChunkResolves(r) \/ ChunkRejects(r)
    \/ PublishDone(r) \/ LowerFlag(r) \/ Unlock(r)

TaskStep(o, l) == FindLink(o, l) \/ MarkChecking(o, l) \/ SaveResult(o, l)

FaultStep ==
    \/ \E r \in Runs : AcquireFails(r) \/ BodyFails(r)
    \/ \E o \in Owners, l \in Links : TaskFails(o, l)
    \/ \E procs \in SUBSET Owners : Crash(procs)
    \/ LapseLock

Next ==
    \/ UserStep
    \/ RequestStep
    \/ \E l \in Links : CooldownEnds(l)
    \/ \E j \in Jobs : Deliver(j)
    \/ \E r \in Runs : HandleStep(r)
    \/ \E o \in Owners, l \in Links : TaskStep(o, l)
    \/ ExpireLock
    \/ FaultStep

Spec == Init /\ [][Next]_vars

\* The worker event loops, BullMQ's delivery and Redis's expiry keep going; users,
\* requests, crashes and faults owe nothing.
Fairness ==
    /\ \A j \in Jobs : WF_vars(Deliver(j))
    /\ \A r \in Runs : WF_vars(HandleStep(r))
    /\ \A o \in Owners, l \in Links : WF_vars(TaskStep(o, l))
    /\ WF_vars(ExpireLock)

FairSpec == Spec /\ Fairness
------------------------------------------------------------------------------
(* Properties.                                                             *)

\* Every variable stays in its type: the states are those the program's records allow.
TypeOK ==
    /\ project \in BOOLEAN /\ flag \in BOOLEAN
    /\ status \in [Links -> RowStatus]
    /\ cooling \in [Links -> BOOLEAN]
    /\ target \in [Rechecks -> Links]
    /\ lock \in Runs \cup {NoLock}
    /\ job \in [Jobs -> JobState]
    /\ linkIds \in [Requests -> SUBSET Links]
    /\ starts \in [Jobs -> 0..MaxStarts]
    /\ pc \in [Runs -> RunState]
    /\ todo \in [Runs -> SUBSET Links]
    /\ threw \subseteq Runs
    /\ task \in [Owners -> [Links -> TaskState]]
    /\ crashes \in Nat /\ faults \in Nat
    /\ lapsed \subseteq Runs

\* A run between its acquire and its release holds the project lock, unless the lock
\* lapsed under it.  So no two such runs overlap, whatever the crashes, redeliveries
\* and failed releases before them: the promise of lock-manager.ts:5-9.
LockHeld == \A r \in Runs : pc[r] \in Body /\ r \notin lapsed => lock = r

\* While a run is between raising and lowering Project.manualChecking the flag is up,
\* so the UI keeps its buttons disabled: no other run's finally block lowers it under
\* this one (handle lowers the flag before it releases the lock).
FlagCoversRun ==
    project /\ lapsed = {} =>
        \A r \in Runs : pc[r] \in {"queue", "chunk", "await"} => flag

\* Run r still has processOne(l) ahead of it.
WillMark(r, l) == /\ pc[r] \in {"chunk", "await"}
                  /\ l \in todo[r] \/ task[r][l] \in {"find", "mark"}

\* Run r was cut short, by its process's death or by a throw.
CutShort(r) == pc[r] = "crashed" \/ r \in threw \/ \E l \in Links : task[r][l] = "threw"

\* A QUEUED row belongs to a run that will still take it up, or to one that was cut
\* short: on every other path handle() leaves no row of its batch QUEUED.
QueuedOwned ==
    \A l \in Links : status[l] = "QUEUED" =>
        \E r \in Runs : l \in linkIds[r[1]] /\ (WillMark(r, l) \/ CutShort(r))

\* A CHECKING row has a processOne call in flight on it, or one that died or threw.
CheckingOwned ==
    \A l \in Links : status[l] = "CHECKING" =>
        \E o \in Owners : task[o][l] \in InFlight \cup {"lost", "threw"}

\* When a run has published its done event, each link of its batch has a result or is
\* gone, unless another caller has begun to check it again: the counts of the event
\* are final (manual-check.processor.ts:98-105).
DoneIsFinal ==
    \A r \in Runs : pc[r] \in {"lower", "unlock"} /\ r \notin threw /\ lapsed = {} =>
        \A l \in linkIds[r[1]] :
            \/ status[l] \in {"DONE", "ERROR", "DELETED"}
            \/ \E o \in Owners \ {r} : task[o][l] \in InFlight \cup {"lost", "threw"}

\* The three together, which say where the rows of a batch stand, whatever is deleted,
\* rechecked or cut short around them (manual-check.processor.ts:71-105).
RowsOwned == QueuedOwned /\ CheckingOwned /\ DoneIsFinal

\* processOne throws for one reason besides a failing database: the row was deleted
\* between two of its statements (single-link.processor.ts:43 and 57).
ThrowsOnlyOnDeleted ==
    faults = 0 => \A o \in Owners, l \in Links : task[o][l] = "threw" => status[l] = "DELETED"

\* Every job BullMQ accepted ends, whatever worker dies under it: a redelivered job
\* finds the dead run's lock, is skipped, and completes; or it runs out of deliveries.
JobsEnd == \A j \in Jobs : job[j] = "waiting" ~> job[j] \in {"completed", "failed"}

\* A link marked QUEUED leaves that status, whatever is deleted and rechecked meanwhile,
\* as long as no run is cut short: by a crash, by an error of the database, or by the
\* deletion of a row that one of its calls is working on.
QueuedSettles ==
    \A l \in Links : status[l] = "QUEUED" ~> \/ status[l] # "QUEUED"
                                             \/ crashes > 0 \/ threw # {}

\* The Project.manualChecking a run raised comes down again, unless a worker died, the
\* project is gone or the very write that lowers it failed: also a run that throws, because
\* a row was deleted under one of its calls or the database failed, goes through the
\* finally block of handle (manual-check.processor.ts:106-118).
FlagFalls ==
    \A r \in Runs :
        flag /\ pc[r] \in {"queue", "chunk", "await", "lower"} ~>
            ~flag \/ ~project \/ crashes > 0 \/ (faults > 0 /\ pc[r] = "unlock")

\* The runs that have acquired the lock and not yet answered its release.
Working == {r \in Runs : pc[r] \in Body}

Lock == INSTANCE ProjectLock WITH working <- Working

\* Every step of the handlers, runs, calls, deaths and expiries is a step of the mutex
\* of lock-manager.ts or does not touch it: only a run at work frees its own token, and
\* only the TTL frees another's.
LockIsLease == Lock!LockSpec

\* README.md:63: "Project-level Redis lock prevents overlapping checks".
NoOverlappingChecks ==
    \A l \in Links, o1, o2 \in Owners :
        task[o1][l] \in InFlight /\ task[o2][l] \in InFlight => o1 = o2

\* schema.prisma:70: a QUEUED link is "sitting in BullMQ", in a job not yet over.
QueuedIsInBullMQ ==
    \A l \in Links : status[l] = "QUEUED" =>
        \E q \in Requests : l \in linkIds[q] /\ job[q] \in {"waiting", "active"}

\* schema.prisma:47: Project.manualChecking is the "DB-side mirror of Redis lock": it
\* comes down some time after the lock is gone.
FlagMirrorsLock == flag /\ lock = NoLock ~> ~flag \/ lock # NoLock \/ ~project
=============================================================================
