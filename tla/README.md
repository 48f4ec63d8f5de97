# Link Checker: specifications, model checks and proofs

Link Checker takes lists of *donor* pages and checks whether each still carries
a link to an *acceptor* site.  This directory holds TLA+ models of the program,
written from its source, the TLC configurations that check them and the
theorems TLAPS proves about them.

    tlc -workers 2 -config ManualCheck_safety.cfg MCManualCheck
    tlapm ManualCheckProofs.tla

`PROJECT.json` lists the runs, the source lines each definition stands for, the
hazards of the code, and for every property a *mutant*: a plausible bug in one
definition under which TLC finds the property violated.

## 1. The system

A Next.js client talks to a NestJS API; the API writes PostgreSQL through Prisma
and adds jobs to BullMQ queues on Redis; worker replicas take the jobs, crawl
through Firecrawl, write the rows, and publish events on a Redis channel that
the API forwards to browsers over SSE.

| Part | State it keeps | Operations | Talks to |
|---|---|---|---|
| Links API (`links.service.ts`) | `Link` rows, `lastCooldownAt` | create, delete, check-manual, recheck | reads the project lock, adds to `manual-check` and `single-link` |
| Projects API | `Project` rows | create, rename, delete (cascade) | rows of every run |
| Sheets tasks API | `SheetsTask` rows, BullMQ schedulers | create, update, remove, run now | lock, `sheets-run` queue |
| Manual-check processor | `Project.manualChecking`, the lock's token, the heartbeat | `handle` | lock, rows, single-link processor, publisher |
| Single-link processor | `Link.status` and result columns | `processOne` | crawler, publisher |
| Sheets run service | `SheetsTask.status`, `isChecking`, sheet rows | `run` | lock, rows, Google Sheets, single-link processor |
| LockManager | `lock:project:{id}:{kind}` in Redis | acquire, heartbeat, release | |
| Crawler service | none | `crawlAndAnalyze` | limiter, semaphore, breaker, provider, parser |
| Circuit breaker | state, failures in a row, time of opening; one per process | `exec` | |
| Semaphore | sorted set of leases in Redis | acquire, release | |
| Rate limiter | token bucket per host in Redis | `consume` | |
| Firecrawl provider | cached client | `scrape` | Firecrawl |
| Publisher, SSE endpoint | throttle map; subscriptions | publish, subscribe | Redis pub/sub |
| Browser cache | query cache, progress | `applyEvent`, refetch | SSE, API |
| Links dialog (`AddLinksDialog.tsx`) | its fields, files being read, the request | type, choose a file, add | Links API |
| Sheets tab and dialog (`SheetsTab.tsx`, `SheetsTaskDialog.tsx`) | list of tasks, form, requests | create, edit, delete, run | Sheets tasks API |
| Statistics, columns, URLs, parser, CSV, table, cells | none | pure functions of a page or a row | |

What is hard here:

* *interleaving*: runs, rechecks and user deletions share rows, and only bulk
  runs take the lock; calls of one process overlap inside the breaker;
* *failure*: a worker may die anywhere, BullMQ then delivers the job again; any
  database or Redis call may reject; `Promise.all` abandons calls in flight;
* *time*: the lock and the leases expire, cooldowns end, the bucket refills;
* *stale reads*: the lock is read in the API and relied on in the worker, rows
  are read and written in separate statements, a browser refetches what events
  patch meanwhile;
* *two stores*: a cron is in a PostgreSQL row and in a Redis scheduler, written
  one after the other by requests that may overlap or fail between the two;
* *many copies of a rule*: what a row is worth is derived again in the table, the
  export, the sheet and the statistics.

What makes each part correct: at most one bulk run of a project at a time, and a
flag that covers it; rows that never stay QUEUED or CHECKING without someone who
caused it; a done event whose counts are final; jobs that end and locks that are
freed (manual checks).  No more leases in use than the limit, every lease
returned, no host over its rate, a breaker whose state and counter agree, no
bot-trap page taken for a result (crawler).  Every result written beside the row
it was read from, a task that leaves RUNNING, a scheduler for exactly the tasks
with a cron (sheets).  A browser that ends up showing what the database holds
(page).  One verdict for a page wherever it is shown (results).

## 2. Modules

| Module | Models | State |
|---|---|---|
| `ManualCheck` | one project's manual checks: Links API, both queues, both processors, the lock | rows, flag, lock, jobs, the program counter of every run and of every `processOne` call |
| `MCManualCheck` | constants and symmetry for TLC | |
| `ManualCheckProofs` | theorems on `ManualCheck` | |
| `CircuitBreaker` | `circuit-breaker.ts` | `state`, `consecutiveFailures`, `openedAt` of each process |
| `RedisSemaphore` | `semaphore.ts` | `slots`: pairs of token and score |
| `DomainRateLimiter` | `domain-rate-limiter.ts` | `tokens`, `ts` of each host |
| `Crawler` | `crawler.service.ts` and `firecrawl.ts`; composes the three above | the clock and the program counter of every call |
| `MCCrawler` | constants and symmetry for TLC | |
| `CrawlerProofs` | theorems on `Crawler` | |
| `SheetsRun` | the sheets tasks of a project: `run`, its jobs, the rows it replaces, the results it writes back | task status, flag, lock, jobs, rows, result cells, the locals and program counter of every run, every `processOne` call |
| `MCSheetsRun` | symmetry for TLC | |
| `SheetsRunProofs` | theorems on `SheetsRun` | |
| `ProjectLock` | what `lock-manager.ts` promises of one key: the abstract specification that `ManualCheck` and `SheetsRun` implement | the key, who works, who lapsed |
| `ProjectLockProofs` | its mutual exclusion | |
| `SheetsSchedule` | `sheets-tasks.service.ts` but for `runNow`, with the tab and the dialog of several browsers | row, scheduler, cached lists, dialogs, requests |
| `MCSheetsSchedule` | symmetry for TLC | |
| `SheetsScheduleProofs` | theorems on `SheetsSchedule` | |
| `ProjectPage` | one browser on a project's page: `page.tsx`, `LinksTable.tsx`, `useProjectStream.ts`, `sse.ts`, the SSE endpoint and publisher, and of API and worker what a page can see | rows, flag, jobs, run, checks; stream; both caches and their refetches; requests |
| `MCProjectPage` | outcomes for TLC | |
| `ProjectPageProofs` | theorems on `ProjectPage` | |
| `Lists` | JavaScript's `filter`, for `AddLinks` and `ProjectPage` | |
| `ListsProofs` | what `filter` returns; induction over a set of numbers | |
| `AddLinks` | `AddLinksDialog.tsx`, `parse-csv.ts` and the validation and `createManualLinks` of the API | fields, files being read, request, batches created |
| `LinkResult` | from a page over `parser.ts` and `saveResult` to every place that shows a row | the columns of the rows |
| `ResultSheet` | the columns of a task and the cells its runs read and write | task, cells, run |
| `MCResults` | constants for the three above, checked side by side: they share no variable | |
| `ResultsProofs` | theorems on the three | |

### ManualCheck

An action is what the code does between two awaits.  A request and the job it
enqueues are one process: `job[j]` goes from `idle` over the handler's steps to
BullMQ's states.  A *run* is one invocation of `handle`, the pair of a job and
its attempt number, which stands for the lock's random token as well: tokens are
never reused.  `pc[r]` names the await the run stands at:

| `pc` | in `manual-check.processor.ts` | action |
|---|---|---|
| `acquire` | `locks.acquire`, 54-58 | `AcquireLock` (or the job is skipped), `AcquireFails` |
| `raise`, `queue` | flag and `markManyStatus`, 63-71 | `RaiseFlag`, `MarkQueued` |
| `chunk` | head of the loop, 79-80 | `StartChunk`, `PublishDone` |
| `await` | `Promise.all`, 81 | `ChunkResolves`, `ChunkRejects` |
| `lower`, `unlock` | finally, 106-119 | `LowerFlag`, `Unlock` |

`task[o][l]` is where `processOne(l)` called by run or recheck `o` stands: its
three database calls are three actions, and the crawl lies between the last two.
Users create and delete rows at any moment.  A worker may die with everything in
it (`Crash`), any call may reject (`RequestFails`, `AcquireFails`, `BodyFails`,
`TaskFails`, and branches of `LowerFlag` and `Unlock`), and the lock's TTL may
run out under a live run whose heartbeats fail (`LapseLock`).  The three kinds
of mishap are bounded together by `MaxMishaps`.

Publishing changes no state here and never throws, so it belongs to the action
before it.

### Crawler

A call is one `crawlAndAnalyze`.  It waits in the limiter, then for a slot, then
goes through the breaker, makes up to two requests (`basic`, then `stealth` after
a throw or `retry` after a bot-trap page) and releases the slot.  Time counts in
ticks of the fastest replica's clock.  Tokens of the bucket are counted in units,
so that the Lua script's fractions are whole numbers.  The `Date.now()` a script
carries is up to `MaxLag` ticks behind that clock when Redis runs it, whether its
replica's clock is slow or the script was long on its way, so that scripts may
carry older times than those before them.  `consume` and `acquire` may reject
(`LimiterFails`, `SlotFails`), the script having run or not: what it took stays
taken, and a lease whose grant was lost is left to its TTL (`leaked`), like that
of a failed release (logged in the code) or of a dead process.

### SheetsRun

Jobs, runs and calls of `processOne` are as in ManualCheck.  A link is named by
the run that created it and the sheet row it was read from, so a model state
still knows what the program only infers by position.  `pc[r]` follows
`sheets-task.service.ts`:

| `pc` | lines | action |
|---|---|---|
| `find`, `acquire` | 89-103 | `FindTask`, `AcquireLock`, `StartFails` |
| `running`, `raise`, `read` | 108-131 | `SetRunning`, `RaiseFlag`, `ReadRows` |
| `replace`, `refetch`, `map` | 133-203 | `ReplaceLinks`, `RefetchLinks`, `SaveInvalid` |
| `chunk`, `await` | 205-225 | `StartChunk`, `ChunkResolves`, `ChunkRejects` |
| `chunk` done, `write`, `finish` | 227-242 | `CollectResults`, `WriteResultsBack`, `SetCompleted` |
| `fail`, `lower`, `unlock` | 243-259 | `SetFailed`, `LowerFlag`, `Unlock` |

`ReadRows` may find any sheet: each row is unfilled (one of its two cells is
empty, so it makes no link), malformed or valid.  `rowOf[r]` is the map from link
to row that the code builds by position, `final[r]` what it fetched for the
write-back, `out[t][n]` the result cells of a row.  DONE and ERROR are one
status, `checked`.  In `SetFailed` the FAILED write, the read after it, both or
neither may fail.  A missing tab, an error of Google or of the database is a
`BodyFails`.  Deletions of links and tasks, rechecks, crashes, faults and lapses
count together against `MaxIncidents`.  The replacement is one step, as the
transaction makes it for a run that holds the lock; PATCH and the deletion of the
project are left out.

`lapsed`, `shifted`, `threw` and `unrecorded` are history; `threw` also tells how
the job ends.

### ProjectLock

`Acquire`, `Release`, and three ways to lose the lock: `Abandon` (the holder's
process dies, or the release gets no answer), `Expire` (the TTL of a key nobody
heartbeats), `Lapse` (the TTL under a holder whose heartbeats failed).  Both
implementations map `working` to the runs whose `pc` is in the body, between a
successful acquire and the end of the release; `lock` and `lapsed` have the same
names.  `Lock == INSTANCE ProjectLock WITH working <- Working`, and `LockIsLease`
is its specification as a property of theirs.

### SheetsSchedule

A dialog is open or not, edits a task or creates one, and shows a cron.  A save
goes `sent`, `written` (the row, not yet the scheduler), `ok`; a delete `sent`,
`found`, `unscheduled`, `ok`; each stage is one of the code's awaits.  `Body`
is `form.scheduleCron || undefined`: Off sends no cron, and `UpdateRow` leaves the
row's alone.  A fetch of the list reads the rows (`ListTasks`) and lands later;
an invalidation drops it and asks again.  Requests fail at any stage
(`FailSave`, `FailRemove`, `FailFetch`), and `RemoveSchedule` may lose an error
that the code swallows.  That the button of a running task is disabled is left
out, which only adds behaviours.

### ProjectPage

`db` is the table in the order of creation, and `createdAt[i]` what the API sorts
by: all links of one `createMany` (`Create`, any number of them) have the same.
`Orders` are the orders in which `links.service.ts:65` may then read the table, the
links of a batch in any order, another at each read.  `linksFetch` is the request
that runs for the infinite query: `all` for a refetch of every loaded page, one
after the other, `next` for the page after them, which starts from the pages cached
then.  A page is two queries that are answered apart, `ReadItems` (offset and limit
of one of the orders) and `ReadTotal`.  What TanStack Query does on an invalidation
(drop what is under way, but for the first load; ask again) is `RefetchLinks` and
`RefetchProject`.  `stream` is the EventSource with the events between Redis and the
handler; `Publish` without a subscription loses the event.  `Deliver` is
`applyEvent`.  The worker's actions are those of `ManualCheck` a page can see; the
order of a write and its event is the code's (`RunClears`, then `RunTells`).
`link_updated` carries a row's status, while `indexable` stands for the columns it
does not carry.  `settled` says that every write so far was followed by a refetch
that nothing has dropped, failed or outrun.

### AddLinks, LinkResult, ResultSheet

`AddLinks`: URLs and acceptors are the classes the browser's and the API's
validations tell apart (`long` is one of more than 2048 characters).  A file is
read while the user goes on, and fills the form whenever it ends.

`LinkResult`: a page is what the verdict depends on: status, robots directives
(own head, nested head, header), the host of the final URL and that of `<base>`,
the canonical URL and the anchors by where they lead and their `rel`.  The
canonical link is an element the parser's selectors match (`Elements`), so it may
be an occurrence, and a relative one may lead to another host than the page's.  A
row is `markManyStatus`, `markStatus`, `saveResult` and, for a malformed row of a
sheet, `saveInvalid`, in any order a worker may call them; everything else is an
operator on a row or a set of rows, one for each function or block of JSX.
`topProblemDonors` is a set of lists, since the order of the rows decides which
of two hosts with as many problems is cut off; a malformed URL has no host.

What `filter` keeps is given as a set (`Kept`), a recursive function over the list.

`ResultSheet`: a column letter is a sequence of numbers, and `colLetterToIndex` the
recursive function its loop is.  `A1Range` is read by
Google (`ColumnNumber`), `Block` is placed by `colLetterToIndex`; users fill both
or one of a row's cells, and save the task with other columns and rows while a run
is under way.  A row becomes a link when both its cells are filled (`LinkRows`); the
block goes from the first such row to the last and blanks the others among them;
a run without any writes nothing, not even the heading.

### History variables

`trial`, `granted`, `earned`, `back`, `setBack`, `leaked`, `trapped` and (in
ManualCheck) `lapsed` record history for the properties; no guard of the program's
steps reads them, but for `lapsed` in the common bound on mishaps.  So do `chosen`,
`dirty`, `unseen` (SheetsSchedule), `unheard`, `settled` (ProjectPage), `unsure` and
the `entry` fields (AddLinks), `served` (LinkResult) and `again` (ResultSheet).

## 3. Runs

| Run | Question | Bounds |
|---|---|---|
| `manual_safety` | do the lock, the flag, the rows and the done event stay right through every interleaving of two bulk requests, deletions and two mishaps of any kind, and is the lock the mutex? | 2 links, 2 requests, 2 replicas, chunks of 1, 2 deliveries, 2 mishaps |
| `manual_liveness` | do jobs end, do QUEUED rows settle, does the flag fall, also when a run throws? | 2 links of which 1 may be deleted, 1 bulk request, 1 recheck, 1 crash or fault |
| `crawl` | do breaker, leases, rate and contract hold while four calls compete and timestamps come late? | 4 calls, 1 host, limit 1, TTL 1, bucket of 1, threshold 2, lag 1, clock to 1, 1 crash, failing Redis calls |
| `sheets_safety` | do lock, flag and task status say truly which run works, for two tasks or one? | 2 tasks, 2 jobs, 2 rows, 2 deliveries, 1 incident of any kind |
| `sheets_results` | is every result final and beside its row, and do job and task settle? | 1 task, 1 job, any sheet of 3 rows, chunks of 2, 2 incidents |
| `schedule` | do row, scheduler and lists agree whatever overlaps, fails or is repeated? | 1 task, 2 browsers, 2 presets and Off, 4 requests, 1 failure |
| `results` | is what comes in created once, and is it shown alike everywhere? | 3 links with 56 pages, 2 and a malformed URL, 1 host in the list of the worst; 2 entries, 2 batches of up to 2; columns about Z, 3 rows, 3 acts of users |
| `page` | does a page at rest show the database, with pages read by offset and batches in any order, and do its buttons come back? | up to 2 links when it opens and 2 in all, in batches of any size, a job that waits for 1, pages of 1, 3 pages, 1 event under way, 1 request of the user, 1 incident |
| `crawl_trap`, `sheets_rows`, `schedule_off`, `page_recheck` | is what a comment says true? (no: section 6) | as small as the counterexample needs |

Why the bounds are enough.  Two bulk requests give every pair of runs that can meet
at the lock; with two deliveries a job's second run meets both its dead
predecessor's lock and the other job.  Two links in chunks of one make a batch with
a part not started, a part in flight and a part done.  Two mishaps let one happen
during the recovery from another.  Rechecks are in the liveness run; a third link or
request only repeats these roles, and the theorems of section 5 hold for any number
of them.

Of four calls one holds the slot, another waits for it, and the others arrive before
or after; the breaker needs two failures to open and a third call to probe.  One
tick of the clock is as long as the TTL, the cooldown, a refill and a wait, so each
is met before and after its end; a late timestamp is as old as the clock.  With a
bucket of one token a stale script sets it back, the tick is refilled twice, and it
takes a fourth call to see more than the burst, the refill and the lag: `PlainRate`
fails within these bounds, `RateBound` holds.  The calls share a process because
the breaker lives there, while leases and buckets do not see which process a call
is of; it may die with all of them.

Three sheet rows in chunks of two give a block with a gap in it, a full and a
partial chunk, and a malformed row before, between or after valid ones; two
incidents are, say, a deletion in the re-fetch window and a fault later.  Two
jobs of one or two tasks meet at the lock in every order; one run alone suffices
for what it writes, because `LockHeld` keeps others out and the properties about
results are claimed while no lock has lapsed.

One task suffices for `schedule`, because no request reads or writes another's
row or scheduler; two browsers make every pair of requests overlap, and four
requests are, say, a save with a preset, one with another, a delete that meets
the second, and a refresh.  A page of one row makes every second link a page of
its own, so a deletion shifts an offset, a refetch has two pages to read, and two
links of one batch may change places between them; a third page is where an
offset past the end is asked for.  A job of one link waits when the page opens, so
that a run and a request of the user meet; a run of two is what the user starts.
One event under way holds the worker back until it is read, which only delays
what would queue up in order.  In `results` each of the 56 pages follows
each other on one row, with a failed check before, between or after; they cross
host, base, canonical link and anchors, and each mark of a page.  The second row
gives the statistics two buckets and two hosts of which one is cut off, the third
has no host.  The columns Z and AA are where
the numbering grows a digit, and a block from W ends in AB.

`CHECK_DEADLOCK FALSE` everywhere: requests are finite and calls end, so each
model really stops.

Symmetry: links, requests, rechecks, calls, jobs, tasks, browsers and presets are
interchangeable where a run says so; the runs that check liveness use none.

### What the properties say

`LockHeld`, `FlagCoversRun`: mutual exclusion of bulk runs, and the UI's flag up
through the work, under crashes, redelivery and late releases. `RowsOwned`: a row
that is QUEUED (`QueuedOwned`) or CHECKING (`CheckingOwned`) has someone who will
move it on or who was cut short, nothing else strands a row; and at the done event
each link of the batch has its result (`DoneIsFinal`). `ThrowsOnlyOnDeleted`: the
one reason for `processOne` to throw on a healthy database
(`single-link.processor.ts:34` says that it never throws).  `LockIsLease`: every
step of a run, a death or an expiry is a step of the mutex or leaves the lock alone,
so that only the holder's own token or the TTL ever frees it.  `JobsEnd`,
`QueuedSettles`, `FlagFalls`: the liveness side.  In `manual_liveness` runs do
throw, over a deleted row or a failing database, and `FlagFalls` excepts only a
death, the deletion of the project and a failure of the very write that lowers the
flag. `ClosedBelowThreshold`: circuit and counter agree in any order of answers.
`HoldersBounded`: no more unexpired leases in use than the limit. `SlotReturned`: an
answered call keeps no slot, unless Redis kept it from giving the slot back or from
knowing that it had one.  `RateBound`: between any two grants a host gets at most
the burst, the refill of that time and of the lag, and the refill of what stale
scripts set its bucket back by meanwhile; without stale scripts the last is nothing,
and this is the rate of the comment, which `PlainRate` states and the code does not
keep (section 6).  `ContractOrder`: whoever scrapes has its token and its lease,
unless the lease expired.

SheetsRun: `RunIsShown` and `RunningOwned` relate the task's status and the flag
to the runs that work, in both directions.  `BesideItsRow`: rows that are
unfilled, malformed, or deleted after the re-fetch never shift a result.
`EveryRowAnswered`: no row of the block is forgotten or shown with the result of
an earlier run.  `CollectsFinalStatuses`: the write-back never shows a row that
is still being checked, unless a recheck is at it.  `TaskSettles`: a task leaves
RUNNING but for a death or a failure that could not be recorded.

SheetsSchedule: `InSync`, the two stores of a cron agree once no request is open
and none was cut in half; what the dialog saved as a preset is what runs.
`ListFresh`: a browser that waits for nothing is behind others' changes only.

ProjectPage: `ExactWhenSettled`, at rest every loaded row is one of the table, field
by field, and has the `createdAt` of the row in its place; there are as many as in
the table when there is no next page, and the flag is the real one.  Which links of
a batch they are, and whether one is there twice and another not, is up to the order
in which PostgreSQL reads rows that are equal in `createdAt`; the property says that
nothing beyond that is.  `NoRowTwice`: deletions and additions between the loading
of pages never put a newer link above an older one or show a link twice, unless it
came in a batch with others (for those it is false).  `ButtonsComeBack`: what a run
disables is enabled again, but for an event that was lost or a flag that could not
be cleared.

AddLinks: `NothingTwice`, `ValidIsAccepted`.  LinkResult: `VerdictIsPage`, from the
page to the badge over everything the row went through before; `ViewsAgree`, the
table, its filters, the details, the export and the sheet tell one story;
`StatsAgree`, the statistics of each scope count what the filters show, and the list
of problem hosts is that of the worst, cut at its limit.
ResultSheet: `SheetIntact`, a run leaves the columns it reads alone and its results
stand beside the rows that have a link and beside none of those between them that
are half filled or empty, with columns that do not overlap.

## 4. Fairness

`FairSpec` of ManualCheck and SheetsRun: weak fairness for BullMQ's delivery of each
job, each run, each `processOne` call and Redis's expiry.  Node's event loop runs
every continuation that is ready, BullMQ retries delivery for ever, Redis expires
keys by itself, and a crawl's requests end (the stealth ones after 60 s at most, the
others when the service gives up), if not always within a lease's TTL.  Users,
requests, crashes and faults owe nothing.  In ProjectPage `FairSpec` is weak
fairness of `System`, everything that goes on by itself once begun: requests that
were sent are answered, EventSource connects and delivers, the worker works on.
Neither the user nor a fault nor the loading of further pages (which needs somebody
to scroll) is fair.  The other modules check safety only.  Strong fairness is not
needed: no step of a run or call is disabled by others once enabled, except by its
own death.

## 5. Proofs

TLAPS proves every invariant and every action or refinement property that the
runs check, for all values of the constants: any number of links, jobs, replicas,
calls, tasks, browsers, rows, entries, pages and mishaps.  What it takes for
granted are the named assumptions of the modules (counts are numbers, process
identifiers differ, lists of constants have their types).

The prover has no induction over data (the library's theorems take an operator
as a parameter).  `ListsProofs` gets it for a *set* of numbers instead, from the
fact that < is well founded on Nat: `LeastNumber`, `NumbersByInduction`,
`IntervalByInduction`, and from them that a recursive function over an interval
exists (`RecursionExists`).  Whatever the models compute by recursion is proved
over that: JavaScript's `filter` (`Kept`, in `Lists`: `KeptFunction`, `KeptInOrder`),
the loop of `colLetterToIndex` (`IndexLoop`), the pages of a list put together
(`FlatFunction`, for `FlattenSeq` of the community modules) and their sums over a
function (`BucketsCounted`, for `FoldFunctionOnSet`).

### ManualCheck and ProjectLock (`ManualCheckProofs`, `ProjectLockProofs`)

* `TypeCorrect`: `TypeOK`.  Alone it is not inductive, for a delivery must leave
  `starts[j]` within `MaxStarts`; `StartsOK` adds that a waiting job has a
  delivery left.
* `LockIsHeld`: `LockHeld`.  The strengthening `OneHolder` says that a run in its
  body either holds the lock or lapsed; an acquire finds the lock free, so no
  other run is in its body without having lapsed; a release frees only its own
  token; an expiry needs a holder that is not in its body.
* `FlagStaysUp`: `FlagCoversRun`, from `LockHeld`: the only step that lowers the
  flag is that of a run in its body, so of the one that holds the lock.
* `RowsAreOwned`: `RowsOwned`.  The invariant is `RowsOK`: nothing is queued or
  called for a row that was never created (`Born`); a run's calls are idle until its
  first chunk and after its last, and its batch is whole until it is queued
  (`ChunkByChunk`); each row QUEUED or CHECKING has its run or its call
  (`QueuedOwned`, `CheckingOwned`); every link of the batch is ahead of the run or
  has its result (`Accounted`), which gives `DoneIsFinal` at the last chunk.
* `ThrowsAreDeletions`: `ThrowsOnlyOnDeleted`, from the same invariant.
* `LockExcludes`: `ProjectLock!Mutex`.  Inductive with `Held`: a run that works
  and has not lapsed is the value of the key.
* `ImplementsLease`: the specification implies `LockIsLease`.  Each action is
  mapped to one of the mutex or to a stutter (`HandleRefines`, `CrashRefines`,
  `StepRefines`), under the type invariant and `FreshRuns`: a run of a job that
  has not been delivered so often stands at `idle`, so that a delivery never
  starts one that works.

### Crawler (`CrawlerProofs`)

* `CallsTyped`: `TypeOK`, inductive; the bucket's arithmetic keeps it between empty
  and full.
* `CircuitFollowsCounter`: `ClosedBelowThreshold`, inductive with the breaker's
  types; one lemma for each way a call touches the breaker.
* `LeasesAreExclusive`: `HoldersBounded`.  `LeaseInv` says that the sorted set is
  finite and within the limit, and that a lease whose TTL is not over is in it
  with the score its holder remembers (`LeaseKept`): a prune drops what is older
  than the TTL by a clock that is never ahead of the true one.  Live holders then
  inject into the sorted set.
* `SlotsComeBack`: `SlotReturned`, with `NoEarlySlot` (nobody has an entry before
  asking for one, so a release of a call's own token leaves none behind).
* `ContractIsKept`: `ContractOrder`, from `LeaseInv` and `TokenFirst`: whoever is
  past the limiter was granted its token before.
* `RateIsBounded`: `RateBound`, for every lag.  A bucket has a time of its own, its
  stored timestamp and all it was ever set back by (`BucketTime`): a script moves it
  by exactly what it refills.  In that time it is an ordinary token bucket:
  `BucketInv` says that since any moment what was spent and what is left are at most
  the burst and the refill, and `StretchInv` what follows between any two moments.
  `GrantInv` places each grant in it: its timestamp, at most the lag behind the
  clock, and the set-backs before it.

### SheetsRun (`SheetsRunProofs`)

* `RunsTyped`: `TypeOK`.  `SheetsLockIsHeld`: `LockHeld`, by `LockInv`.
  `SheetsImplementLease`: `LockIsLease`, step by step as in ManualCheck.
* `RunsAreShown`, `RunningHasOwner`: `RunIsShown` and `RunningOwned`, by
  `ShownInv`.  `ShownEffect` says what a step does to status and flag by where it
  stands; the lock keeps a second run from undoing the first one's.  `RunningInv`
  names the owner through `fail`, where the run has left its body already.
* `ResultsBesideRows`, `RowsAreAnswered`, `StatusesAreFinal`: `BesideItsRow`,
  `EveryRowAnswered` and `CollectsFinalStatuses`, by `ResultsInv`.  For a run that
  is alone it follows a link from the row it was read from to the cells: it
  works on no link but its own and its task has no other (`OwnWork`, `Placing`), the
  map by position is the right one unless a link went missing (`Refetching`,
  `Mapping`), every link is still to be done or has been, or a recheck has it
  (`Accounted`), what was collected covers all that remain (`Collected`), and their
  rows show these results alone (`Answered`).  `CallsInv` says that
  no chunk's calls outlive it.

### SheetsSchedule (`SheetsScheduleProofs`)

* `SchedulesTyped`: `TypeOK`, with `Stages`: a save that reached the row names a
  task.
* `ScheduleFollowsRow`: `InSync`.  `SyncInv` says where row and scheduler may
  differ, namely between the two writes of one request (`Synced`), and that
  what was written first is still there when it writes next (`Saving`, `Removing`),
  as a request that overlaps no other is alone on its task (`OneAtATime`,
  `Alone`).
* `ListsAreFresh`: `ListFresh`, by `ListInv`: a write is followed from the row
  to the answer, to the fetch asked for and to the list (`Knows`).

### AddLinks, LinkResult, ResultSheet (`ResultsProofs`)

* `EntriesAreCreatedOnce`, `ValidRowsAreTaken`: `NothingTwice`, `ValidIsAccepted`,
  by `EntryInv`: an entry is in one tab or in one file being read (`InOnePlace`),
  and one that is in a batch is in neither, unless its answer is in doubt
  (`Spent`).  The lists the dialog builds are typed through what `Kept` returns.
* `ColumnsTyped`, `VerdictsArePages`, `ViewsAgreeOnRows`: `TypeOK`, `VerdictIsPage`,
  `ViewsAgree`, by `LinkInv`: a row with a page has all its columns from that page
  (`Shows`), whatever its status does meanwhile.  `ViewsOfRow` is proved for every
  row there can be.
* `StatisticsCountRows`: `StatsAgree`.  A sum over buckets is the number of rows
  whose bucket is among them (`BucketsCounted`, by induction over the buckets the
  fold has still to take), so each equation becomes one of sets of rows, decided row
  by row (`BucketsOfRow`).  For the list of hosts each of the lists the cut allows
  is one of the worst (`WorstListed`).  `DoneInv`, that a row which is DONE has a
  page, is needed for the canonical group: without it a match could be unknown
  there.
* `RunsLeaveSheetIntact`: `SheetIntact`, by `SheetInv`: while no user acts, a run
  has the rows of which both cells are filled (`RunFollows`), and so has the next
  one (`AgainFollows`); what a block holds is in its place beside them and blank
  between them (`Placed`).
* `ColumnsCountAlike`: the loop of `columns.ts` gives each column the number that
  Google gives it.

### ProjectPage (`ProjectPageProofs`)

* `PagesTyped`: `TypeOK`.
* `RowsAreShownOnce`: `NoRowTwice`.  One link is `Older` than another when its
  `createdAt` is less, or the same and shared.  The table and the loaded pages are
  in that order (`Ordered`, `Rising`), and the rows of the table behind as many
  pages as are loaded are newer than every loaded one (`Ahead`), in whatever order
  the batches were read: deletions move rows towards the front and additions come
  at the end, so a page read next begins after those read before.  The same holds
  of a page of which only the items or only the total was read (`Held`).
* `SettledIsExact`: `ExactWhenSettled`.  `StreamInv`: the last event about a link
  on its way tells its status, unless a check of it will write again, and a last
  `lock_changed` TRUE on its way is still true, unless the run has lowered the flag
  and will say so.  `RowsSettled` and `FlagSettled`: when every write has been
  followed by a refetch, the cache (or the refetch that will replace it, or the
  one of its two queries that was answered) holds as many rows as the table has
  there, each one of the table and of the right `createdAt` (`FollowsItems`), but
  for the statuses that such events will put right.  `PagesTogether` puts full pages
  end to end.  With no event, request or check left nothing is excepted.

### What is left to TLC

The liveness properties (`JobsEnd` of both modules, `QueuedSettles`, `FlagFalls`,
`TaskSettles`, `ButtonsComeBack`): they need fairness and ENABLED, which the prover
does not reason about.  So are the runs that expect a violation.

## 6. Where code and documentation differ

Four runs show it:

* `firecrawl.ts:15-18`: a bot-trap page from the stealth request that follows a
  throw is passed on and stored as "link not found" (`crawl_trap`).
* `sheets-task.service.ts:172-173` "The DB ordering matches createMany insertion
  order which mirrors `validRows`": a link deleted between the replacement and the
  re-fetch shifts all later results by one row (`sheets_rows`).
* `SheetsTaskDialog.tsx:27` "Empty string = no schedule": Off is sent as an absent
  field, the API takes it for one that was not touched, and the task goes on
  running by its old cron (`schedule_off`).
* `useProjectStream.ts:27-28` "no full refetch": the event that ends a recheck
  carries no `donorIndexable`, so a link that was found on a good page is shown as
  a problem until something fetches the list (`page_recheck`).

Six more configurations reproduce a divergence by hand, each with one property:

* `ManualCheck_overlap.cfg`: `README.md:63` "Project-level Redis lock prevents
  overlapping checks": a recheck reads the lock before it is queued and never again.
* `Crawler_stale.cfg`: `domain-rate-limiter.ts:5` "no more than N requests per second
  to a given donor host": a script that arrives late, or from a slower clock, stores
  its older timestamp over the newer one, and the interval between them is refilled
  twice; by how much the host gets more is `RateBound`.
* `Crawler_halfopen.cfg`: `circuit-breaker.ts:8` "one trial call in flight": every
  call before the trial's answer is let through.
* `ManualCheck_queued.cfg`: `schema.prisma:70` QUEUED is "sitting in BullMQ": when a
  row is deleted under `processOne`, the run fails and the rest of its batch stays
  QUEUED with no job; check-manual selects PENDING and ERROR only.
* `ManualCheck_mirror.cfg`: `schema.prisma:47` the flag is a "mirror of Redis lock":
  after a worker's death the lock expires and the flag stays.
* `Crawler_cap.cfg`: `README.md:61` the concurrency cap: a scrape longer than its
  lease's TTL goes on after its slot was given away; no code calls the lease's
  heartbeat.

Met on the way, and promised otherwise nowhere: two overlapping requests about one
sheets task can leave row and scheduler apart until the next save (`SheetsSchedule`,
excepted by `dirty`); the answer of a save closes whichever dialog is open; a CSV
file that is read slowly fills the form after a later one, or after the form was
reset (`ParseEnds`); result columns may be set over the columns a task reads
(`Apart`); after a failed check the table shows the follow badge of an earlier one
beside "not found" (`ViewsAgree` compares after successes only); a delete answered
after a refetch lowers the total once too often, which may hide the next page until
the next refetch (`settled`); the list of links is paged by `createdAt` alone
(`links.service.ts:65`, while `link.repository.ts:171` breaks ties by id), so a link
of a batch may be on two pages and another on none (`InBatch`).

## 7. Plan

Every safety property of the runs is a theorem.  What is left, in this order:

1. The half-open window of the breaker: how many calls get through it is bounded by
   the leases, which would be a theorem about the composition in `Crawler`.
2. The semaphore against an abstract pool of leases, as `ProjectLock` is for the two
   locks.
3. The window of `NoRowTwice` for the links of one batch: how many of them a page can
   miss when nothing is written meanwhile.

## 8. Not modelled

* HTML, URLs, CSV quoting and sheet addresses as text: pure, in one call, covered by
  unit tests; a page, a URL, a file is one of a few kinds here.
* Sessions, login, ownership checks: one stateless check for each request, with
  the session store in a library.  Health checks, configuration, the error filter
  and the deployment scripts keep no state of the program.
* The progress bar: `progress` events are throttled, their three counts are separate
  statements and may disagree, and nothing reads them but the bar, which the
  done event corrects.  The events of sheets tasks patch their list the same way.
* Refetches of the project page when the network comes back or the page is mounted
  again (TanStack Query's defaults; those on focus are turned off,
  `providers.tsx:13`): they only add reads, and `ProjectPage` has one page that
  stays mounted.  Search and sorting of the table: pure.
* Fastify's limit of 1 MiB for a request's body (`main.ts` sets none), which a batch
  of long URLs may pass: `AddLinks` has small requests.
* Percentiles and averages of durations, the cooldown's seconds, error texts.
* The sidebar, the list of projects, theme and login pages: one request each.
* A script that ioredis sends again because its reply was lost, and that so runs
  twice for one call; clocks that are set back by more than `MaxLag`.  PATCH of a task while `SheetsRun` processes
  its links (the columns it changes are in `ResultSheet`, its schedule in
  `SheetsSchedule`).
* The read-only handlers change nothing.
