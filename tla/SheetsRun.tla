------------------------------ MODULE SheetsRun ------------------------------
(***************************************************************************)
(* The sheets tasks of one project: the jobs that start them (run now and  *)
(* the cron scheduler), SheetsTaskService.run on worker replicas, the Link *)
(* rows it replaces and checks, and the result columns it writes back,     *)
(* with users who delete links and tasks and recheck links meanwhile.      *)
(*                                                                         *)
(* One action is what runs between two awaits; an event published on Redis *)
(* belongs to the action before it.  A run is one delivery of a job.  A    *)
(* link is named by the run that created it and the sheet row it was read  *)
(* from; rows of one createMany are fetched in the order they were read,   *)
(* which rests on ids that the database client generates in order.         *)
(***************************************************************************)
EXTENDS Naturals, FiniteSets

CONSTANTS Tasks,       \* SheetsTask rows
          Jobs,        \* jobs of queue sheets-run
          Rechecks,    \* POST /links/:id/recheck requests on sheets links
          RowNums,     \* sheet rows from dataStartRow on
          Replicas,    \* number of worker processes
          NoLock,      \* "the lock's key is absent"
          ChunkSize,   \* INTERNAL_CONCURRENCY
          MaxStarts,   \* deliveries of one job: 1 + BullMQ's maxStalledCount
          Incidents,   \* kinds of what may happen to a run
          MaxIncidents \* bound on how many of them happen

Runs == Jobs \X (1..MaxStarts)
Links == Runs \X RowNums
Owners == Runs \cup Rechecks

ASSUME SheetsSetsAssumption ==
    /\ RowNums \subseteq Nat \ {0} /\ IsFiniteSet(RowNums)
    /\ NoLock \notin Runs /\ Runs \cap Rechecks = {}
ASSUME SheetsBoundsAssumption ==
    /\ Replicas \in Nat \ {0} /\ ChunkSize \in Nat \ {0} /\ MaxStarts \in Nat \ {0}
    /\ MaxIncidents \in Nat
    /\ Incidents \subseteq {"crash", "fault", "lapse", "delete", "recheck"}

\* What normalizeRow makes of a row: an unfilled cell, a malformed one, or neither.
RowKind == {"unfilled", "invalid", "valid"}
TaskStatus == {"IDLE", "RUNNING", "COMPLETED", "FAILED", "GONE"}
\* "checked" is DONE or ERROR: nothing below depends on which.
LinkState == {"absent", "PENDING", "CHECKING", "checked"}
JobState == {"new", "ready", "refused", "waiting", "active", "completed", "failed"}
RunState == {"none", "find", "acquire", "running", "raise", "read", "replace", "refetch",
             "map", "chunk", "await", "collect", "write", "finish", "fail", "lower",
             "unlock", "ended", "crashed"}
CallState == {"idle", "find", "mark", "crawl", "threw", "lost"}

VARIABLES
    taskOf,    \* taskOf[j]: the task job j names
    status,    \* status[t]: SheetsTask.status; isChecking is written with it
    flag,      \* Project.sheetsChecking
    lock,      \* value of lock:project:{id}:sheets
    job,       \* job[j]: progress of its request, then its state in BullMQ
    starts,    \* starts[j]: how often it was delivered
    out,       \* out[t][n]: the result in its cells, a set of at most one
    link,      \* link[l]: Link.status, or absent
    pc,        \* pc[r]: where run r stands
    rows,      \* rows[r]: the rows it read
    rowOf,     \* rowOf[r][l]: the row its map has for link l, or 0
    todo,      \* todo[r]: links left to mark invalid, then links no chunk has started
    final,     \* final[r]: the links and statuses it collected to write back
    call,      \* call[o][l]: where processOne(l) called by o stands
    incidents, \* how many of them there were
    lapsed,    \* runs whose lock expired while they were alive (history)
    shifted,   \* runs that lost a link between replacing and re-fetching (history)
    threw,     \* runs that threw, against the promise of run() (history)
    unrecorded \* runs that failed and could not write so (history)

dbVars == <<status, flag, link>>
bookVars == <<rows, rowOf, todo, final>>
oddVars == <<incidents, lapsed, shifted, threw, unrecorded>>
vars == <<taskOf, status, flag, lock, job, starts, out, link, pc, rows, rowOf,
          todo, final, call, incidents, lapsed, shifted, threw, unrecorded>>

Task(r) == taskOf[r[1]]
Exists(l) == link[l] # "absent"
LinksOf(t) == {l \in Links : Exists(l) /\ Task(l[1]) = t}
Busy == RunState \ {"none", "ended", "crashed"}
Body == Busy \ {"find", "acquire"}
Try == Body \ {"fail", "lower", "unlock"}
InFlight == {"find", "mark", "crawl"}

Incident(kind) == kind \in Incidents /\ incidents < MaxIncidents /\ incidents' = incidents + 1

\* The locals of a run that has read nothing.
NoRows == [n \in RowNums |-> "unfilled"]
NoPlaces == [l \in Links |-> 0]

Init ==
    /\ taskOf \in [Jobs -> Tasks]
    /\ status = [t \in Tasks |-> "IDLE"]
    /\ flag = FALSE
    /\ lock = NoLock
    /\ job = [j \in Jobs |-> "new"]
    /\ starts = [j \in Jobs |-> 0]
    /\ out = [t \in Tasks |-> [n \in RowNums |-> {}]]
    /\ link = [l \in Links |-> "absent"]
    /\ pc = [r \in Runs |-> "none"]
    /\ rows = [r \in Runs |-> NoRows]
    /\ rowOf = [r \in Runs |-> NoPlaces]
    /\ todo = [r \in Runs |-> {}]
    /\ final = [r \in Runs |-> {}]
    /\ call = [o \in Owners |-> [l \in Links |-> "idle"]]
    /\ incidents = 0 /\ lapsed = {} /\ shifted = {} /\ threw = {}
    /\ unrecorded = {}

------------------------------------------------------------------------------
(* Jobs: SheetsTasksService.runNow, the job scheduler, and BullMQ.         *)

\* runNow finds its task and refuses while the sheets lock is taken; add comes later.
RunNow(j) ==
    /\ job[j] = "new"
    /\ job' = [job EXCEPT ![j] = IF status[taskOf[j]] # "GONE" /\ lock = NoLock
                                 THEN "ready" ELSE "refused"]
    /\ UNCHANGED <<lock, starts, out, pc, call, dbVars, taskOf, bookVars, oddVars>>

AddJob(j) ==
    /\ job[j] = "ready"
    /\ job' = [job EXCEPT ![j] = "waiting"]
    /\ UNCHANGED <<lock, starts, out, pc, call, dbVars, taskOf, bookVars, oddVars>>

\* The cron of a task fires; nobody looks at the lock, or whether the task is there.
CronFires(j) ==
    /\ job[j] = "new"
    /\ job' = [job EXCEPT ![j] = "waiting"]
    /\ UNCHANGED <<lock, starts, out, pc, call, dbVars, taskOf, bookVars, oddVars>>

Deliver(j) ==
    LET r == <<j, starts[j] + 1>> IN
    /\ job[j] = "waiting"
    /\ Cardinality({x \in Runs : pc[x] \in Busy}) < Replicas
    /\ job' = [job EXCEPT ![j] = "active"]
    /\ starts' = [starts EXCEPT ![j] = @ + 1]
    /\ pc' = [pc EXCEPT ![r] = "find"]
    /\ UNCHANGED <<lock, out, call, dbVars, taskOf, bookVars, oddVars>>

\* A job whose worker died is delivered again, or has failed for good.
Redeliver(j) ==
    /\ job[j] = "active" /\ pc[<<j, starts[j]>>] = "crashed"
    /\ job' = [job EXCEPT ![j] = IF starts[j] < MaxStarts THEN "waiting" ELSE "failed"]
    /\ UNCHANGED <<lock, starts, out, pc, call, dbVars, taskOf, bookVars, oddVars>>

------------------------------------------------------------------------------
(* SheetsTaskService.run, up to the re-fetch of the rows it created.       *)

MoveTo(r, where) == pc' = [pc EXCEPT ![r] = where]
EndJob(r, how) == MoveTo(r, "ended") /\ job' = [job EXCEPT ![r[1]] = how]

FindTask(r) ==
    /\ pc[r] = "find"
    /\ \/ status[Task(r)] # "GONE" /\ MoveTo(r, "acquire") /\ UNCHANGED job
       \/ status[Task(r)] = "GONE" /\ EndJob(r, "completed")
    /\ UNCHANGED <<lock, starts, out, call, dbVars, taskOf, bookVars, oddVars>>

AcquireLock_unguarded(r) ==
    /\ pc[r] = "acquire"
    /\ lock' = r /\ MoveTo(r, "running")
    /\ UNCHANGED <<job, starts, out, call, dbVars, taskOf, bookVars, oddVars>>

\* A locked project: the job is skipped, and completes.
AcquireLock(r) ==
    /\ pc[r] = "acquire"
    /\ \/ lock = NoLock /\ lock' = r /\ MoveTo(r, "running") /\ UNCHANGED job
       \/ lock # NoLock /\ EndJob(r, "completed") /\ UNCHANGED lock
    /\ UNCHANGED <<starts, out, call, dbVars, taskOf, bookVars, oddVars>>

\* Both awaits before the try: the job fails.
StartFails(r) ==
    /\ pc[r] \in {"find", "acquire"}
    /\ Incident("fault")
    /\ EndJob(r, "failed")
    /\ threw' = threw \cup {r}
    /\ UNCHANGED <<lock, starts, out, call, dbVars, taskOf, bookVars, lapsed, shifted,
                   unrecorded>>

\* setSheetsTaskStatus(RUNNING): update throws when the task is gone.
SetRunning(r) ==
    LET t == Task(r) IN
    /\ pc[r] = "running"
    /\ \/ status[t] # "GONE" /\ status' = [status EXCEPT ![t] = "RUNNING"] /\ MoveTo(r, "raise")
       \/ status[t] = "GONE" /\ MoveTo(r, "fail") /\ UNCHANGED status
    /\ UNCHANGED <<flag, link, lock, job, starts, out, call, taskOf, bookVars, oddVars>>

RaiseFlag(r) ==
    /\ pc[r] = "raise"
    /\ flag' = TRUE
    /\ MoveTo(r, "read")
    /\ UNCHANGED <<status, link, lock, job, starts, out, call, taskOf, bookVars, oddVars>>

\* resolveSheetTitle (no such sheet is an error, as in BodyFails) and readDonorRows: the
\* sheet is its users', and holds anything.
ReadRows(r) ==
    /\ pc[r] = "read"
    /\ \E read \in [RowNums -> RowKind] : rows' = [rows EXCEPT ![r] = read]
    /\ MoveTo(r, "replace")
    /\ UNCHANGED <<lock, job, starts, out, call, rowOf, todo, final, dbVars, taskOf, oddVars>>

\* Rows with both cells filled.
ValidRows(r) == {n \in RowNums : rows[r][n] # "unfilled"}

\* One transaction: delete the task's links, create the new ones.
ReplaceLinks(r) ==
    /\ pc[r] = "replace"
    /\ IF status[Task(r)] = "GONE" /\ ValidRows(r) # {}
       THEN MoveTo(r, "fail") /\ UNCHANGED link
       ELSE /\ link' = [l \in Links |->
                          IF l[1] = r /\ l[2] \in ValidRows(r) THEN "PENDING"
                          ELSE IF l \in LinksOf(Task(r)) THEN "absent" ELSE link[l]]
            /\ MoveTo(r, "refetch")
    /\ UNCHANGED <<status, flag, lock, job, starts, out, call, taskOf, bookVars, oddVars>>

\* The place of a link among the fetched ones, and of a row among those it read.
Place(l, fetched) == Cardinality({m \in fetched : m[2] <= l[2]})
RowPlace(n, r) == Cardinality({m \in ValidRows(r) : m <= n})

RowAt_unfiltered(l, fetched, r) ==
    CHOOSE n \in RowNums : Cardinality({m \in RowNums : m <= n}) = Place(l, fetched)

RowAt_offByOne(l, fetched, r) ==
    IF Place(l, fetched) > Cardinality(ValidRows(r)) THEN 0
    ELSE 1 + CHOOSE n \in ValidRows(r) : RowPlace(n, r) = Place(l, fetched)

\* The i-th fetched link is taken for the i-th row, if there are that many (else 0).
RowAt(l, fetched, r) ==
    IF Place(l, fetched) > Cardinality(ValidRows(r)) THEN 0
    ELSE CHOOSE n \in ValidRows(r) : RowPlace(n, r) = Place(l, fetched)

RefetchLinks(r) ==
    LET fetched == LinksOf(Task(r)) IN
    /\ pc[r] = "refetch"
    /\ rowOf' = [rowOf EXCEPT ![r] =
                   [l \in Links |-> IF l \in fetched THEN RowAt(l, fetched, r) ELSE 0]]
    /\ todo' = [todo EXCEPT ![r] = fetched]
    /\ MoveTo(r, "map")
    /\ UNCHANGED <<lock, job, starts, out, call, rows, final, dbVars, taskOf, oddVars>>

------------------------------------------------------------------------------
(* From the links of a run to their results.                               *)

NeedsSave(r, l) == rowOf[r][l] = 0 \/ rows[r][rowOf[r][l]] = "invalid"
Unsaved(r) == {l \in todo[r] : NeedsSave(r, l)}

\* The loop over the fetched links saves an ERROR for each malformed row.  saveResult
\* throws if the link is gone, and validRows[i] is undefined past the end.
SaveInvalid(r) ==
    /\ pc[r] = "map"
    /\ \E l \in Unsaved(r) :
          /\ \A m \in Unsaved(r) : l[2] <= m[2]
          /\ IF rowOf[r][l] # 0 /\ Exists(l)
             THEN /\ link' = [link EXCEPT ![l] = "checked"]
                  /\ todo' = [todo EXCEPT ![r] = @ \ {l}]
                  /\ UNCHANGED pc
             ELSE MoveTo(r, "fail") /\ UNCHANGED <<link, todo>>
    /\ UNCHANGED <<status, flag, lock, job, starts, out, call, rows, rowOf, final,
                   taskOf, oddVars>>

StartProcessing(r) ==
    /\ pc[r] = "map" /\ Unsaved(r) = {}
    /\ MoveTo(r, "chunk")
    /\ UNCHANGED <<lock, job, starts, out, call, dbVars, taskOf, bookVars, oddVars>>

\* The next chunk, in the order of the rows.
StartChunk(r) ==
    LET slice == {l \in todo[r] : Place(l, todo[r]) <= ChunkSize} IN
    /\ pc[r] = "chunk" /\ todo[r] # {}
    /\ call' = [call EXCEPT ![r] = [l \in Links |-> IF l \in slice THEN "find" ELSE @[l]]]
    /\ todo' = [todo EXCEPT ![r] = @ \ slice]
    /\ MoveTo(r, "await")
    /\ UNCHANGED <<lock, job, starts, out, rows, rowOf, final, dbVars, taskOf, oddVars>>

AllReturned(r) == \A l \in Links : call[r][l] = "idle"

ChunkResolves(r) ==
    /\ pc[r] = "await" /\ AllReturned(r)
    /\ MoveTo(r, "chunk")
    /\ UNCHANGED <<lock, job, starts, out, call, dbVars, taskOf, bookVars, oddVars>>

\* One processOne threw: the run fails, the other calls of the chunk go on.
ChunkRejects(r) ==
    /\ pc[r] = "await" /\ \E l \in Links : call[r][l] = "threw"
    /\ MoveTo(r, "fail")
    /\ UNCHANGED <<lock, job, starts, out, call, dbVars, taskOf, bookVars, oddVars>>

\* All chunks are done: fetch the links once more, for their statuses.
CollectResults_persisted(r) ==
    /\ pc[r] = "chunk" /\ todo[r] = {}
    /\ final' = [final EXCEPT ![r] = {<<l, "PENDING">> : l \in LinksOf(Task(r))}]
    /\ MoveTo(r, "write")
    /\ UNCHANGED <<lock, job, starts, out, call, rows, rowOf, todo, dbVars, taskOf, oddVars>>

CollectResults(r) ==
    /\ pc[r] = "chunk" /\ todo[r] = {}
    /\ final' = [final EXCEPT ![r] = {<<l, link[l]>> : l \in LinksOf(Task(r))}]
    /\ MoveTo(r, "write")
    /\ UNCHANGED <<lock, job, starts, out, call, rows, rowOf, todo, dbVars, taskOf, oddVars>>

\* writeResultsBack: one block from the first mapped row to the last, blank between.
Mapped(r) == {e \in final[r] : rowOf[r][e[1]] > 0}
Written(r) == {rowOf[r][e[1]] : e \in Mapped(r)}
InBlock_exclusive(r, n) == \E a, b \in Written(r) : a <= n /\ n < b
InBlock(r, n) == \E a, b \in Written(r) : a <= n /\ n <= b
ResultsAt(r, n) == {e \in Mapped(r) : rowOf[r][e[1]] = n}

WriteResultsBack(r) ==
    /\ pc[r] = "write"
    /\ out' = [out EXCEPT ![Task(r)] =
                 [n \in RowNums |-> IF InBlock(r, n) THEN ResultsAt(r, n) ELSE @[n]]]
    /\ MoveTo(r, "finish")
    /\ UNCHANGED <<lock, job, starts, call, dbVars, taskOf, bookVars, oddVars>>

\* COMPLETED, then findSheetsTaskById, whose error still ends in the catch block.
SetCompleted(r) ==
    LET t == Task(r) IN
    /\ pc[r] = "finish"
    /\ \/ status[t] = "GONE" /\ MoveTo(r, "fail") /\ UNCHANGED <<status, incidents>>
       \/ /\ status[t] # "GONE" /\ status' = [status EXCEPT ![t] = "COMPLETED"]
          /\ \/ MoveTo(r, "lower") /\ UNCHANGED incidents
             \/ MoveTo(r, "fail") /\ Incident("fault")
    /\ UNCHANGED <<flag, link, lock, job, starts, out, call, taskOf, bookVars,
                   lapsed, shifted, threw, unrecorded>>

------------------------------------------------------------------------------
(* catch and finally.                                                      *)

\* An awaited call of the try block rejects: database, Google or Redis.
BodyFails(r) ==
    /\ pc[r] \in Try \ {"await"}
    /\ Incident("fault")
    /\ MoveTo(r, "fail")
    /\ UNCHANGED <<lock, job, starts, out, call, dbVars, taskOf, bookVars,
                   lapsed, shifted, threw, unrecorded>>

SetFailed_silent(r) ==
    /\ pc[r] = "fail"
    /\ MoveTo(r, "lower")
    /\ UNCHANGED <<dbVars, lock, job, starts, out, call, taskOf, bookVars, oddVars>>

\* setSheetsTaskStatus(FAILED), whose error is swallowed; then findSheetsTaskById, whose
\* error leaves run() through the finally block.
SetFailed(r) ==
    LET t == Task(r) IN
    /\ pc[r] = "fail"
    /\ MoveTo(r, "lower")
    /\ \E failing \in SUBSET {"write", "read"} :
          /\ IF failing = {} THEN UNCHANGED incidents ELSE Incident("fault")
          /\ status' = IF "write" \in failing \/ status[t] = "GONE" THEN status
                       ELSE [status EXCEPT ![t] = "FAILED"]
          /\ unrecorded' = IF "write" \in failing THEN unrecorded \cup {r} ELSE unrecorded
          /\ threw' = IF "read" \in failing THEN threw \cup {r} ELSE threw
    /\ UNCHANGED <<flag, link, lock, job, starts, out, call, taskOf, bookVars,
                   lapsed, shifted>>

LowerFlag(r) ==
    /\ pc[r] = "lower"
    /\ \/ flag' = FALSE /\ UNCHANGED incidents
       \/ Incident("fault") /\ UNCHANGED flag
    /\ MoveTo(r, "unlock")
    /\ UNCHANGED <<status, link, lock, job, starts, out, call, taskOf, bookVars,
                   lapsed, shifted, threw, unrecorded>>

\* The locals of runs that return or die are gone.
Forget(gone) ==
    /\ rows' = [r \in Runs |-> IF r \in gone THEN NoRows ELSE rows[r]]
    /\ rowOf' = [r \in Runs |-> IF r \in gone THEN NoPlaces ELSE rowOf[r]]
    /\ todo' = [r \in Runs |-> IF r \in gone THEN {} ELSE todo[r]]
    /\ final' = [r \in Runs |-> IF r \in gone THEN {} ELSE final[r]]

\* The release deletes the key only if it still holds this run's token.
ReleaseLock_anyToken(r) == lock' = NoLock
ReleaseLock(r) == lock' = IF lock = r THEN NoLock ELSE lock

Unlock(r) ==
    /\ pc[r] = "unlock"
    /\ \/ ReleaseLock(r) /\ UNCHANGED incidents
       \/ Incident("fault") /\ UNCHANGED lock
    /\ EndJob(r, IF r \in threw THEN "failed" ELSE "completed")
    /\ Forget({r})
    /\ UNCHANGED <<starts, out, call, dbVars, taskOf, lapsed, shifted, threw, unrecorded>>

------------------------------------------------------------------------------
(* SingleLinkProcessor.processOne(l), called by a run or by a recheck.     *)

Return(o, l, result) == call' = [call EXCEPT ![o][l] = result]

FindLink_noReturn(o, l) ==
    /\ call[o][l] = "find" /\ Exists(l)
    /\ Return(o, l, "mark")
    /\ UNCHANGED <<lock, job, starts, out, pc, dbVars, taskOf, bookVars, oddVars>>

FindLink(o, l) ==
    /\ call[o][l] = "find"
    /\ Return(o, l, IF Exists(l) THEN "mark" ELSE "idle")
    /\ UNCHANGED <<lock, job, starts, out, pc, dbVars, taskOf, bookVars, oddVars>>

MarkChecking(o, l) ==
    /\ call[o][l] = "mark"
    /\ \/ Exists(l) /\ link' = [link EXCEPT ![l] = "CHECKING"] /\ Return(o, l, "crawl")
       \/ ~Exists(l) /\ Return(o, l, "threw") /\ UNCHANGED link
    /\ UNCHANGED <<status, flag, lock, job, starts, out, pc, taskOf, bookVars, oddVars>>

SaveResult(o, l) ==
    /\ call[o][l] = "crawl"
    /\ \/ Exists(l) /\ link' = [link EXCEPT ![l] = "checked"] /\ Return(o, l, "idle")
       \/ ~Exists(l) /\ Return(o, l, "threw") /\ UNCHANGED link
    /\ UNCHANGED <<status, flag, lock, job, starts, out, pc, taskOf, bookVars, oddVars>>

CallFails(o, l) ==
    /\ call[o][l] \in InFlight
    /\ Incident("fault")
    /\ Return(o, l, "threw")
    /\ UNCHANGED <<lock, job, starts, out, pc, dbVars, taskOf, bookVars,
                   lapsed, shifted, threw, unrecorded>>

\* recheckOne looks at no lock when the link is of a sheet; its job calls processOne.
\* (Its request, cooldown and queue are those of ManualCheck.)
Recheck(c, l) ==
    /\ \A m \in Links : call[c][m] = "idle"
    /\ Exists(l)
    /\ Incident("recheck")
    /\ Return(c, l, "find")
    /\ UNCHANGED <<lock, job, starts, out, pc, dbVars, taskOf, bookVars,
                   lapsed, shifted, threw, unrecorded>>

------------------------------------------------------------------------------
(* Users and accidents.                                                    *)

\* Runs whose re-fetch will miss link l.
Missing(l) == {r \in Runs : pc[r] = "refetch" /\ Task(r) = Task(l[1])}

\* LinksService.deleteOne does not look at the lock.
DeleteOne(l) ==
    /\ Exists(l)
    /\ Incident("delete")
    /\ link' = [link EXCEPT ![l] = "absent"]
    /\ shifted' = shifted \cup Missing(l)
    /\ UNCHANGED <<status, flag, lock, job, starts, out, pc, call, taskOf, bookVars,
                   lapsed, threw, unrecorded>>

\* SheetsTasksService.remove: the row goes, its links with it.
RemoveTask(t) ==
    /\ status[t] # "GONE"
    /\ Incident("delete")
    /\ status' = [status EXCEPT ![t] = "GONE"]
    /\ link' = [l \in Links |-> IF l \in LinksOf(t) THEN "absent" ELSE link[l]]
    /\ UNCHANGED <<flag, lock, job, starts, out, pc, call, taskOf, bookVars,
                   lapsed, shifted, threw, unrecorded>>

\* A worker process dies with its run, if it has one, and any rechecks it hosts.
Crash(procs) ==
    /\ Incident("crash")
    /\ procs # {}
    /\ \A r, x \in procs \cap Runs : pc[r] \in Busy /\ pc[x] \in Busy => r = x
    /\ \A o \in procs : (o \in Runs /\ pc[o] \in Busy) \/ \E l \in Links : call[o][l] \in InFlight
    /\ pc' = [r \in Runs |-> IF r \in procs /\ pc[r] \in Busy THEN "crashed" ELSE pc[r]]
    /\ call' = [o \in Owners |-> [l \in Links |->
                  IF o \in procs /\ call[o][l] \in InFlight THEN "lost" ELSE call[o][l]]]
    /\ Forget(procs)
    /\ UNCHANGED <<lock, job, starts, out, dbVars, taskOf, lapsed, shifted, threw, unrecorded>>

ExpireLock ==
    /\ lock # NoLock /\ pc[lock] \notin Body
    /\ lock' = NoLock
    /\ UNCHANGED <<job, starts, out, pc, call, dbVars, taskOf, bookVars, oddVars>>

\* The TTL runs out under a live run whose heartbeats failed for all of it.
LapseLock ==
    /\ lock # NoLock /\ pc[lock] \in Body
    /\ Incident("lapse")
    /\ lapsed' = lapsed \cup {lock}
    /\ lock' = NoLock
    /\ UNCHANGED <<job, starts, out, pc, call, dbVars, taskOf, bookVars, shifted, threw, unrecorded>>
------------------------------------------------------------------------------
JobStep(j) == Deliver(j) \/ Redeliver(j)

RunStep(r) ==
    \/ FindTask(r) \/ AcquireLock(r) \/ SetRunning(r) \/ RaiseFlag(r)
    \/ ReadRows(r) \/ ReplaceLinks(r) \/ RefetchLinks(r)
    \/ SaveInvalid(r) \/ StartProcessing(r) \/ StartChunk(r)
    \/ ChunkResolves(r) \/ ChunkRejects(r)
    \/ CollectResults(r) \/ WriteResultsBack(r) \/ SetCompleted(r)
    \/ SetFailed(r) \/ LowerFlag(r) \/ Unlock(r)

CallStep(o, l) == FindLink(o, l) \/ MarkChecking(o, l) \/ SaveResult(o, l)

UserStep ==
    \/ \E j \in Jobs : RunNow(j) \/ AddJob(j) \/ CronFires(j)
    \/ \E c \in Rechecks, l \in Links : Recheck(c, l)
    \/ \E l \in Links : DeleteOne(l)
    \/ \E t \in Tasks : RemoveTask(t)

FaultStep ==
    \/ \E r \in Runs : StartFails(r) \/ BodyFails(r)
    \/ \E o \in Owners, l \in Links : CallFails(o, l)
    \/ \E procs \in SUBSET Owners : Crash(procs)
    \/ LapseLock

Next ==
    \/ UserStep
    \/ \E j \in Jobs : JobStep(j)
    \/ \E r \in Runs : RunStep(r)
    \/ \E o \in Owners, l \in Links : CallStep(o, l)
    \/ ExpireLock
    \/ FaultStep

Spec == Init /\ [][Next]_vars

\* As in ManualCheck: workers, BullMQ and Redis's expiry keep going.
Fairness ==
    /\ \A j \in Jobs : WF_vars(JobStep(j))
    /\ \A r \in Runs : WF_vars(RunStep(r))
    /\ \A o \in Owners, l \in Links : WF_vars(CallStep(o, l))
    /\ WF_vars(ExpireLock)

FairSpec == Spec /\ Fairness
------------------------------------------------------------------------------
(* Properties.                                                             *)

TypeOK ==
    /\ taskOf \in [Jobs -> Tasks] /\ status \in [Tasks -> TaskStatus]
    /\ flag \in BOOLEAN /\ lock \in Runs \cup {NoLock}
    /\ job \in [Jobs -> JobState] /\ starts \in [Jobs -> 0..MaxStarts]
    /\ out \in [Tasks -> [RowNums -> SUBSET (Links \X LinkState)]]
    /\ link \in [Links -> LinkState] /\ pc \in [Runs -> RunState]
    /\ rows \in [Runs -> [RowNums -> RowKind]]
    /\ rowOf \in [Runs -> [Links -> RowNums \cup {0}]]
    /\ todo \in [Runs -> SUBSET Links] /\ final \in [Runs -> SUBSET (Links \X LinkState)]
    /\ call \in [Owners -> [Links -> CallState]]
    /\ incidents \in 0..MaxIncidents
    /\ {lapsed, shifted, threw, unrecorded} \subseteq SUBSET Runs

\* A run inside the locked part of run() owns the project's sheets lock, unless the lock
\* expired under it (sheets-task.service.ts:96-103): no second run works beside it.
LockHeld == \A r \in Runs : pc[r] \in Body /\ r \notin lapsed => lock = r

\* The runs that have acquired the lock and not yet answered its release.
Working == {r \in Runs : pc[r] \in Body}

Lock == INSTANCE ProjectLock WITH working <- Working

\* Every step is a step of the mutex of lock-manager.ts or does not touch it: no run that
\* waited, was skipped, failed or died frees or takes the key in another's place.
LockIsLease == Lock!LockSpec

\* From the moment a run has announced itself, sheetsChecking stays up and its task
\* stays RUNNING until it ends: no other run of the project lowers either under it.
RunIsShown ==
    lapsed = {} =>
        \A r \in Runs :
            /\ pc[r] \in Try \ {"running"} => status[Task(r)] \in {"RUNNING", "GONE"}
            /\ pc[r] \in Try \ {"running", "raise"} => flag

\* A task shows RUNNING only while a run of it works, or for a run that died or could
\* not write that it failed (:243-252): no way through catch and finally forgets it.
RunningOwned ==
    \A t \in Tasks :
        status[t] = "RUNNING" =>
            \E r \in Runs : /\ Task(r) = t
                            /\ pc[r] \in Body \cup {"crashed"} \/ r \in unrecorded

\* A result stands beside the row whose link it is of, except for runs that lost a link
\* before they fetched the links again (:172-179).
BesideItsRow ==
    lapsed = {} =>
        \A t \in Tasks, n \in RowNums : \A e \in out[t][n] :
            e[1][2] = n \/ e[1][1] \in shifted

\* The comment at :172-173 without that exception: the database order mirrors validRows.
OrderMirrorsRows ==
    lapsed = {} => \A t \in Tasks, n \in RowNums : \A e \in out[t][n] : e[1][2] = n

\* When a run comes to write COMPLETED, every row that still has a link shows the result
\* of this run's check of it (:231-233), however rows are deleted and rechecked meanwhile.
EveryRowAnswered ==
    lapsed = {} =>
        \A r \in Runs :
            pc[r] = "finish" /\ r \notin shifted =>
                \A n \in RowNums :
                    Exists(<<r, n>>) => {e[1] : e \in out[Task(r)][n]} = {<<r, n>>}

\* The statuses collected for the write back are final, never those of rows before they
\* were processed (:228-231); only a recheck can have one of them open at that moment.
CollectsFinalStatuses ==
    [][\A r \in Runs :
          pc[r] = "chunk" /\ pc'[r] = "write" /\ lapsed = {} =>
              \A e \in final'[r] :
                  e[2] # "checked" =>
                      \E c \in Rechecks : call[c][e[1]] \in {"crawl", "threw", "lost"}]_vars

\* A job that BullMQ has is over some day, whatever fails (:89-260).
JobsEnd ==
    \A j \in Jobs : job[j] \in {"waiting", "active"} ~> job[j] \in {"completed", "failed"}

\* A task that shows RUNNING settles, unless a run of it died or could not say that it failed.
TaskSettles ==
    \A t \in Tasks :
        status[t] = "RUNNING" ~>
            \/ status[t] # "RUNNING"
            \/ \E r \in Runs : Task(r) = t /\ (pc[r] = "crashed" \/ r \in unrecorded)
==============================================================================
