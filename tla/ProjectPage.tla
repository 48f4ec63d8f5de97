----------------------------- MODULE ProjectPage -----------------------------
(***************************************************************************)
(* One browser on the page of a project: the cached list of links, loaded  *)
(* page after page, and the cached project with its manualChecking flag;   *)
(* the stream of events that patches both; the requests that refetch them; *)
(* the user's buttons; the API and the worker behind it.                   *)
(*                                                                         *)
(* The worker's side is what a page can see of ManualCheck: every write of *)
(* a link or of the flag, and the event published after it.  An event and  *)
(* its write are one action: publishing never throws, and what can happen  *)
(* between the two is not seen by the page.  Progress events are left out: *)
(* they move a bar and touch neither cache.                                *)
(***************************************************************************)
EXTENDS SequencesExt, Lists

CONSTANTS PageSize,    \* PAGE_SIZE
          FirstLinks,  \* at most so many links when the page opens
          FirstJob,    \* if they are at most so many, a job with them may wait then
          None,        \* a query without data
          Outcomes,    \* what a check may write
          MaxLinks,    \* bound on the links ever created
          MaxInFlight, \* bound on the events on their way
          MaxPages,    \* bound on the pages of the list that are asked for
          MaxActs,     \* bound on the requests of the user
          MaxIncidents \* bound on drops, failed requests and lost writes

ASSUME PageAssumption ==
    /\ PageSize \in Nat \ {0}
    /\ MaxLinks \in Nat /\ FirstLinks \in 0..MaxLinks /\ FirstJob \in Nat
    /\ MaxPages \in Nat \ {0} /\ MaxInFlight \in Nat \ {0}
    /\ Outcomes \subseteq [status : {"DONE", "ERROR"}, indexable : BOOLEAN]
    /\ MaxActs \in Nat /\ MaxIncidents \in Nat
    /\ None \notin BOOLEAN

VARIABLES
    db,        \* the links, in the order they were created in
    born,      \* how many were ever created
    createdAt, \* createdAt[i]: that of link i, the same for all of its batch
    flag,      \* Project.manualChecking
    queue,     \* the link ids of each bulk job that waits
    run,       \* the bulk run that holds the lock: its step and its links
    checks,    \* the checks of links that run or wait
    stream,    \* the EventSource and the events on their way
    pages,     \* the query links: the pages that are loaded
    project,   \* the query project: manualChecking, or None
    linksFetch, projectFetch, \* the requests that refresh them
    requests,  \* the mutations that are pending
    acts, incidents, \* how many there were
    unheard,   \* the last lock_changed was lost, or came before there was data (history)
    settled    \* every write so far is followed by a refetch nobody disturbed (history)

serverVars == <<db, born, createdAt, flag>>
workVars == <<queue, run, checks>>
pageVars == <<pages, project, linksFetch, projectFetch>>
bounds == <<acts, incidents>>
history == <<unheard, settled>>
vars == <<db, born, createdAt, flag, queue, run, checks, stream, pages, project, linksFetch,
          projectFetch, requests, acts, incidents, unheard, settled>>

Statuses == {"PENDING", "QUEUED", "CHECKING", "DONE", "ERROR"}
Ids == 1..MaxLinks

\* What a row has that an event carries (status) and that it does not (indexable).
Row == [id : Ids, status : Statuses, indexable : BOOLEAN]
Others(i) == {r \in Row : r.id # i}
NewRow(i) == [id |-> i, status |-> "PENDING", indexable |-> FALSE]

Exists(i) == \E k \in DOMAIN db : db[k].id = i
Marked(ids, s) ==
    [k \in DOMAIN db |-> IF db[k].id \in ids THEN [db[k] EXCEPT !.status = s] ELSE db[k]]
Saved(i, o) ==
    [k \in DOMAIN db |->
        IF db[k].id = i THEN [db[k] EXCEPT !.status = o.status, !.indexable = o.indexable]
        ELSE db[k]]

NoRun == [pc |-> "idle", links |-> {}]
\* A fetch of the list: the pages it has, and what is read of the next one.
Fetch(kind, got, upto) ==
    [kind |-> kind, got |-> got, upto |-> upto, read |-> {}, items |-> <<>>, total |-> 0]
NotFetching == Fetch("none", <<>>, 0)
NotAsking == [at |-> "none", value |-> FALSE]

Init ==
    /\ born \in 0..FirstLinks
    /\ db = [k \in 1..born |-> NewRow(k)]
    /\ createdAt \in [Ids -> 0..MaxLinks]
    /\ \A i \in Ids : IF i <= born THEN createdAt[i] \in 1..i ELSE createdAt[i] = 0
    /\ \A i, j \in 1..born : i <= j => createdAt[i] <= createdAt[j]
    /\ flag = FALSE
    /\ queue \in {<<>>} \cup {<<1..n>> : n \in {born} \cap 1..FirstJob}
    /\ run = NoRun /\ checks = {}
    /\ stream = [state |-> "connecting", queue |-> <<>>]
    /\ pages = <<>> /\ project = None
    /\ linksFetch = Fetch("all", <<>>, 1)
    /\ projectFetch = [at |-> "asked", value |-> FALSE]
    /\ requests = {}
    /\ acts = 0 /\ incidents = 0
    /\ unheard = FALSE /\ settled = TRUE

------------------------------------------------------------------------------
(* The two queries.                                                        *)

Loaded(ps) == FlattenSeq([k \in DOMAIN ps |-> ps[k].items])
Shown == Loaded(pages)
ShownIds == {Shown[k].id : k \in DOMAIN Shown}

\* getNextPageParam: fewer rows are loaded than the last page counted.
HasNext(ps) == ps # <<>> /\ Len(Loaded(ps)) < Last(ps).total

\* An offset and a limit.
PageOf(links, p) ==
    SubSeq(links, (p - 1) * PageSize + 1, Min({p * PageSize, Len(links)}))

\* A bug: the page that was loaded last.
NextParam_same(ps) == Max({1, Len(ps)})

\* The number of the page after these.
NextParam(ps) == Len(ps) + 1

\* The orders in which LinksService.list may read the links: by createdAt, and those of
\* one batch, which have the same, in any order, another at each read.
Orders ==
    {[k \in DOMAIN db |-> db[p[k]]] :
        p \in {q \in [DOMAIN db -> DOMAIN db] :
                 /\ \A k, l \in DOMAIN db : k # l => q[k] # q[l]
                 /\ \A k \in DOMAIN db : createdAt[db[q[k]].id] = createdAt[db[k].id]}}

\* A bug: a fetch under way is taken for the one that is asked for.
RefetchLinks_joined(ps) ==
    IF linksFetch.kind # "none" THEN linksFetch
    ELSE Fetch("all", <<>>, Max({1, Len(ps)}))

\* invalidateQueries(['links', id]): every loaded page again, from the first.  A fetch
\* under way is dropped, but for the one that has yet to bring the first data.
RefetchLinks(ps) ==
    IF linksFetch.kind # "none" /\ ps = <<>> THEN linksFetch
    ELSE Fetch("all", <<>>, Max({1, Len(ps)}))

\* A bug: as above.
RefetchProject_joined ==
    IF projectFetch.at # "none" THEN projectFetch ELSE [at |-> "asked", value |-> FALSE]

\* invalidateQueries(['project', id]), likewise.
RefetchProject ==
    IF projectFetch.at # "none" /\ project = None THEN projectFetch
    ELSE [at |-> "asked", value |-> FALSE]

\* Both are asked for again now, whatever was under way.
Anew == /\ linksFetch.kind # "none" => pages # <<>>
        /\ projectFetch.at # "none" => project # None

MorePages(f) == Len(f.got) < f.upto /\ (f.got = <<>> \/ HasNext(f.got))

\* LinksService.list: findMany and count are two queries, each in its own time; the page
\* is there when both have answered.
Answered(f) ==
    IF f.read = {"items", "total"}
    THEN Fetch(f.kind, Append(f.got, [items |-> f.items, total |-> f.total]), f.upto)
    ELSE f

ReadItems(order) ==
    /\ linksFetch.kind # "none" /\ MorePages(linksFetch) /\ "items" \notin linksFetch.read
    /\ linksFetch' =
          Answered([linksFetch EXCEPT !.items = PageOf(order, NextParam(linksFetch.got)),
                                      !.read = @ \cup {"items"}])
    /\ UNCHANGED <<serverVars, workVars, stream, pages, project, projectFetch, requests,
                   bounds, history>>

ReadTotal ==
    /\ linksFetch.kind # "none" /\ MorePages(linksFetch) /\ "total" \notin linksFetch.read
    /\ linksFetch' = Answered([linksFetch EXCEPT !.total = Len(db), !.read = @ \cup {"total"}])
    /\ UNCHANGED <<serverVars, workVars, stream, pages, project, projectFetch, requests,
                   bounds, history>>

\* The last answer replaces what is cached.
LandLinks ==
    /\ linksFetch.kind # "none" /\ ~MorePages(linksFetch)
    /\ pages' = linksFetch.got
    /\ linksFetch' = NotFetching
    /\ UNCHANGED <<serverVars, workVars, stream, project, projectFetch, requests, bounds,
                   history>>

ReadProject ==
    /\ projectFetch.at = "asked"
    /\ projectFetch' = [at |-> "read", value |-> flag]
    /\ UNCHANGED <<serverVars, workVars, stream, pages, project, linksFetch, requests,
                   bounds, history>>

LandProject ==
    /\ projectFetch.at = "read"
    /\ project' = projectFetch.value
    /\ projectFetch' = NotAsking
    /\ UNCHANGED <<serverVars, workVars, stream, pages, linksFetch, requests, bounds,
                   history>>

\* A request for one of them fails; retry is false.
FetchFails ==
    /\ incidents < MaxIncidents
    /\ \/ linksFetch.kind # "none" /\ linksFetch' = NotFetching /\ UNCHANGED projectFetch
       \/ projectFetch.at # "none" /\ projectFetch' = NotAsking /\ UNCHANGED linksFetch
    /\ settled' = FALSE
    /\ incidents' = incidents + 1
    /\ UNCHANGED <<serverVars, workVars, stream, pages, project, requests, acts, unheard>>

\* LinksTable's effect at the end of the rows: fetchNextPage continues from the pages of
\* this moment and drops a refetch that is under way.
FetchNext ==
    /\ HasNext(pages) /\ Shown # <<>> /\ linksFetch.kind # "next"
    /\ Len(pages) < MaxPages
    /\ linksFetch' = Fetch("next", pages, Len(pages) + 1)
    /\ settled' = (settled /\ linksFetch.kind = "none")
    /\ UNCHANGED <<serverVars, workVars, stream, pages, project, projectFetch, requests,
                   bounds, unheard>>

------------------------------------------------------------------------------
(* The stream.                                                             *)

LinkUpdated(i, s) == [type |-> "link_updated", id |-> i, status |-> s]
LockChanged(on) == [type |-> "lock_changed", on |-> on]

\* Redis pub/sub has no replay: without a subscription the event is gone.
Publish(e) ==
    IF stream.state = "open"
    THEN /\ Len(stream.queue) < MaxInFlight
         /\ stream' = [stream EXCEPT !.queue = Append(@, e)]
         /\ UNCHANGED unheard
    ELSE /\ unheard' = (unheard \/ e.type = "lock_changed")
         /\ UNCHANGED stream

\* The API has subscribed.
Connect ==
    /\ stream.state = "connecting"
    /\ stream' = [stream EXCEPT !.state = "open"]
    /\ UNCHANGED <<serverVars, workVars, pageVars, requests, bounds, history>>

\* The connection breaks: EventSource connects again, except after an HTTP error.
Drop(next) ==
    /\ stream.state = "open" /\ incidents < MaxIncidents
    /\ stream' = [state |-> next, queue |-> <<>>]
    /\ unheard' = (unheard \/ \E k \in DOMAIN stream.queue :
                                 stream.queue[k].type = "lock_changed")
    /\ settled' = (settled /\ stream.queue = <<>>)
    /\ incidents' = incidents + 1
    /\ UNCHANGED <<serverVars, workVars, pageVars, requests, acts>>

\* The event's fields replace those of the row, on whichever page it is.
Patched(ps, e) ==
    [p \in DOMAIN ps |->
        [ps[p] EXCEPT !.items =
            [k \in DOMAIN @ |-> IF @[k].id = e.id THEN [@[k] EXCEPT !.status = e.status]
                                ELSE @[k]]]]

\* applyEvent: link_updated.  A next page that lands later brings back the pages it
\* started from, without the patch.
ApplyLinkUpdated(e) ==
    /\ e.type = "link_updated"
    /\ pages' = Patched(pages, e)
    /\ settled' = (settled /\ linksFetch.kind # "next")
    /\ UNCHANGED <<project, linksFetch, projectFetch, unheard>>

\* applyEvent: lock_changed.  Without data there is nothing to patch: the event is lost.
ApplyLockChanged(e) ==
    /\ e.type = "lock_changed"
    /\ project' = IF project = None THEN None ELSE e.on
    /\ unheard' = ~Anew
    /\ IF e.on THEN UNCHANGED <<linksFetch, projectFetch, settled>>
       ELSE /\ linksFetch' = RefetchLinks(pages)
            /\ projectFetch' = RefetchProject
            /\ settled' = Anew
    /\ UNCHANGED pages

Deliver ==
    /\ stream.queue # <<>>
    /\ stream' = [stream EXCEPT !.queue = Tail(@)]
    /\ LET e == Head(stream.queue) IN ApplyLinkUpdated(e) \/ ApplyLockChanged(e)
    /\ UNCHANGED <<serverVars, workVars, requests, bounds>>

------------------------------------------------------------------------------
(* The buttons.                                                            *)

Ask(kind, i) ==
    /\ acts < MaxActs /\ acts' = acts + 1
    /\ requests' = requests \cup {[kind |-> kind, id |-> i, at |-> "sent"]}
    /\ UNCHANGED <<serverVars, workVars, stream, pageVars, incidents, history>>

ClickDeleteAll == project = FALSE /\ Shown # <<>> /\ Ask("deleteAll", 0)
ClickDelete(i) == project = FALSE /\ i \in ShownIds /\ Ask("delete", i)

\* The dialog, once open, does not look at the flag; its button waits for the answer.
SubmitLinks ==
    /\ project # None /\ \A r \in requests : r.kind # "add"
    /\ Ask("add", 0)

Eligible == {db[k].id : k \in {j \in DOMAIN db : db[j].status \in {"PENDING", "ERROR"}}}
Locked == run.pc # "idle"

\* The button and startManualCheck, which refuses while the lock is held, or without a
\* link to check.  Its answer does not change the page.
ClickStart ==
    /\ project = FALSE /\ Shown # <<>> /\ acts < MaxActs
    /\ ~Locked /\ Eligible # {}
    /\ queue' = Append(queue, Eligible)
    /\ acts' = acts + 1
    /\ UNCHANGED <<serverVars, run, checks, stream, pageVars, requests, incidents, history>>

\* The button and recheckOne, likewise.
ClickRecheck(i) ==
    /\ project = FALSE /\ i \in ShownIds /\ acts < MaxActs
    /\ ~Locked /\ Exists(i)
    /\ checks' = checks \cup {[id |-> i, by |-> "job", at |-> "waiting"]}
    /\ acts' = acts + 1
    /\ UNCHANGED <<serverVars, queue, run, stream, pageVars, requests, incidents, history>>

\* createMany: a batch of rows with one createdAt.
Create(n) ==
    /\ born' = born + n
    /\ db' = db \o [k \in 1..n |-> NewRow(born + k)]
    /\ createdAt' = [i \in Ids |-> IF i \in (born + 1)..(born + n) THEN born + 1 ELSE createdAt[i]]

\* deleteOne, deleteAllManual, createManualLinks.
ServeWrite(r) ==
    /\ r.at = "sent"
    /\ \/ r.kind = "delete" /\ db' = Kept(db, Others(r.id)) /\ UNCHANGED <<born, createdAt>>
       \/ r.kind = "deleteAll" /\ db' = <<>> /\ UNCHANGED <<born, createdAt>>
       \/ r.kind = "add" /\ \E n \in 1..(MaxLinks - born) : Create(n)
    /\ requests' = (requests \ {r}) \cup {[r EXCEPT !.at = "done"]}
    /\ settled' = FALSE
    /\ UNCHANGED <<flag, workVars, stream, pageVars, bounds, unheard>>

\* A bug: the count of a page may fall below none.
Without_negative(ps, i) ==
    [p \in DOMAIN ps |->
        [items |-> Kept(ps[p].items, Others(i)), total |-> ps[p].total - 1]]

\* The row leaves its page and every page counts one less.
Without(ps, i) ==
    [p \in DOMAIN ps |->
        [items |-> Kept(ps[p].items, Others(i)),
         total |-> IF ps[p].total = 0 THEN 0 ELSE ps[p].total - 1]]

\* onSuccess of remove: no refetch of the list, and the count it lowers may already be
\* that of a refetch.
DeleteAnswered(r) ==
    /\ r.kind = "delete" /\ r.at = "done"
    /\ pages' = Without(pages, r.id)
    /\ projectFetch' = RefetchProject
    /\ settled' = FALSE
    /\ requests' = requests \ {r}
    /\ UNCHANGED <<serverVars, workVars, stream, project, linksFetch, bounds, unheard>>

\* onSuccess of deleteAll and of the dialog.
WriteAnswered(r) ==
    /\ r.kind \in {"deleteAll", "add"} /\ r.at = "done"
    /\ linksFetch' = RefetchLinks(pages)
    /\ projectFetch' = RefetchProject
    /\ settled' = Anew
    /\ requests' = requests \ {r}
    /\ UNCHANGED <<serverVars, workVars, stream, pages, project, bounds, unheard>>

\* The answer does not arrive.
AnswerLost(r) ==
    /\ incidents < MaxIncidents /\ incidents' = incidents + 1
    /\ requests' = requests \ {r}
    /\ UNCHANGED <<serverVars, workVars, stream, pageVars, acts, history>>

------------------------------------------------------------------------------
(* The worker.                                                             *)

\* handle takes a job and the lock: the flag and its event.
RunLocks ==
    /\ queue # <<>> /\ ~Locked
    /\ run' = [pc |-> "locked", links |-> Head(queue)]
    /\ queue' = Tail(queue)
    /\ flag' = TRUE /\ Publish(LockChanged(TRUE))
    /\ settled' = FALSE
    /\ UNCHANGED <<db, born, createdAt, checks, pageVars, requests, bounds>>

\* Already locked: the job is skipped.
RunSkips ==
    /\ queue # <<>> /\ Locked
    /\ queue' = Tail(queue)
    /\ UNCHANGED <<serverVars, run, checks, stream, pageVars, requests, bounds, history>>

\* markManyStatus, without an event.
RunMarks ==
    /\ run.pc = "locked"
    /\ run' = [run EXCEPT !.pc = "checking"]
    /\ db' = Marked(run.links, "QUEUED")
    /\ checks' = checks \cup {[id |-> i, by |-> "run", at |-> "waiting"] : i \in run.links}
    /\ settled' = FALSE
    /\ UNCHANGED <<born, createdAt, flag, queue, stream, pageVars, requests, bounds, unheard>>

\* processOne up to the crawl; a link that is gone is skipped.
CheckBegins(c) ==
    /\ c.at = "waiting"
    /\ IF Exists(c.id)
       THEN /\ checks' = (checks \ {c}) \cup {[c EXCEPT !.at = "crawling"]}
            /\ db' = Marked({c.id}, "CHECKING")
            /\ Publish(LinkUpdated(c.id, "CHECKING"))
            /\ settled' = FALSE
       ELSE checks' = checks \ {c} /\ UNCHANGED <<db, stream, history>>
    /\ UNCHANGED <<born, createdAt, flag, queue, run, pageVars, requests, bounds>>

\* processOne after the crawl.
CheckEnds(c, o) ==
    /\ c.at = "crawling" /\ Exists(c.id)
    /\ checks' = checks \ {c}
    /\ db' = Saved(c.id, o)
    /\ Publish(LinkUpdated(c.id, o.status))
    /\ settled' = FALSE
    /\ UNCHANGED <<born, createdAt, flag, queue, run, pageVars, requests, bounds>>

\* saveResult throws when the link was deleted; its run goes to finally, and the other
\* checks of the chunk go on without it.
CheckThrows(c) ==
    /\ c.at = "crawling" /\ ~Exists(c.id)
    /\ checks' = checks \ {c}
    /\ run' = IF c.by = "run" /\ run.pc = "checking" THEN [run EXCEPT !.pc = "ending"]
              ELSE run
    /\ UNCHANGED <<serverVars, queue, stream, pageVars, requests, bounds, history>>

\* finally: the flag, unless that write fails.
RunClears(written) ==
    /\ \/ run.pc = "ending"
       \/ run.pc = "checking" /\ \A c \in checks : c.by # "run"
    /\ run' = [run EXCEPT !.pc = "cleared"]
    /\ IF written THEN flag' = FALSE /\ UNCHANGED incidents
       ELSE incidents < MaxIncidents /\ incidents' = incidents + 1 /\ UNCHANGED flag
    /\ settled' = FALSE
    /\ UNCHANGED <<db, born, createdAt, queue, checks, stream, pageVars, requests, acts, unheard>>

\* finally: the event, and the lock.
RunTells ==
    /\ run.pc = "cleared"
    /\ run' = NoRun
    /\ Publish(LockChanged(FALSE))
    /\ settled' = (settled /\ stream.state = "open")
    /\ UNCHANGED <<serverVars, queue, checks, pageVars, requests, bounds>>

------------------------------------------------------------------------------

User ==
    \/ ClickStart \/ ClickDeleteAll \/ SubmitLinks
    \/ \E i \in ShownIds : ClickRecheck(i) \/ ClickDelete(i)

Faults ==
    \/ FetchFails \/ RunClears(FALSE)
    \/ \E next \in {"connecting", "dead"} : Drop(next)
    \/ \E r \in requests : AnswerLost(r)

\* What goes on by itself once it has begun.
System ==
    \/ (\E order \in Orders : ReadItems(order)) \/ ReadTotal
    \/ LandLinks \/ ReadProject \/ LandProject
    \/ Connect \/ Deliver
    \/ \E r \in requests : ServeWrite(r) \/ DeleteAnswered(r) \/ WriteAnswered(r)
    \/ RunLocks \/ RunSkips \/ RunMarks \/ RunClears(TRUE) \/ RunTells
    \/ \E c \in checks : \/ CheckBegins(c) \/ CheckThrows(c)
                         \/ \E o \in Outcomes : CheckEnds(c, o)

Next == System \/ FetchNext \/ User \/ Faults

Spec == Init /\ [][Next]_vars
FairSpec == Spec /\ WF_vars(System)

------------------------------------------------------------------------------

Events == [type : {"link_updated"}, id : Ids, status : Statuses]
          \cup [type : {"lock_changed"}, on : BOOLEAN]
PagesOK(ps) ==
    \A p \in DOMAIN ps :
        ps[p].total \in 0..MaxLinks /\ \A k \in DOMAIN ps[p].items : ps[p].items[k] \in Row

\* The type invariant: among others, no page ever counts fewer links than none, which a
\* delete answered after a refetch already counted it would do.
TypeOK ==
    /\ \A k \in DOMAIN db : db[k] \in Row
    /\ born \in 0..MaxLinks /\ flag \in BOOLEAN /\ createdAt \in [Ids -> 0..MaxLinks]
    /\ \A k \in DOMAIN queue : queue[k] \subseteq Ids
    /\ run.pc \in {"idle", "locked", "checking", "ending", "cleared"}
    /\ run.links \subseteq Ids
    /\ checks \subseteq [id : Ids, by : {"run", "job"}, at : {"waiting", "crawling"}]
    /\ stream.state \in {"connecting", "open", "dead"}
    /\ \A k \in DOMAIN stream.queue : stream.queue[k] \in Events
    /\ PagesOK(pages) /\ PagesOK(linksFetch.got)
    /\ linksFetch.total \in 0..MaxLinks
    /\ \A k \in DOMAIN linksFetch.items : linksFetch.items[k] \in Row
    /\ Len(pages) <= MaxPages
    /\ project \in BOOLEAN \cup {None}
    /\ projectFetch.at \in {"none", "asked", "read"} /\ projectFetch.value \in BOOLEAN
    /\ \A r \in requests : r.id \in Ids \cup {0} /\ r.at \in {"sent", "done"}
    /\ acts \in 0..MaxActs /\ incidents \in 0..MaxIncidents
    /\ unheard \in BOOLEAN /\ settled \in BOOLEAN

\* Nothing is under way any more.
Quiet ==
    /\ requests = {} /\ checks = {} /\ queue = <<>> /\ ~Locked
    /\ stream.queue = <<>> /\ linksFetch.kind = "none" /\ projectFetch.at = "none"

\* Once everything has come to rest, a page whose last refetch came after the last write
\* and was neither dropped nor failed shows the database: each row is the link's own with
\* every field, in the order of createdAt from the first link on, as many rows as there
\* are links when there is no next page, and the buttons follow the real flag.  Which
\* links of a batch these are, and whether one is there twice, is left to the order the
\* database reads a batch in at each page (links.service.ts:65).
ExactWhenSettled ==
    Quiet /\ settled =>
        /\ Range(Shown) \subseteq Range(db)
        /\ \A k \in DOMAIN Shown :
              k \in DOMAIN db /\ createdAt[Shown[k].id] = createdAt[db[k].id]
        /\ HasNext(pages) \/ Len(Shown) = Len(db)
        /\ project = flag

\* Link i came in a batch with others.
InBatch(i) == \E j \in 1..born : j # i /\ createdAt[j] = createdAt[i]

\* However links are added and deleted while pages are loaded one by one, older links are
\* shown above newer ones, and no link is on the screen twice (rows are keyed by id)
\* unless it came in a batch, whose order may differ from page to page.
NoRowTwice ==
    \A j, k \in DOMAIN Shown :
        j < k => /\ createdAt[Shown[j].id] <= createdAt[Shown[k].id]
                 /\ Shown[j].id = Shown[k].id => InBatch(Shown[j].id)

\* The buttons a running check disables come back, unless the event that says so was
\* lost, or came before the page had any data, or the worker could not clear the flag.
ButtonsComeBack == project = TRUE ~> (project = FALSE \/ unheard \/ flag)

\* The status a row is shown with.
RowStatus(r) ==
    CASE r.status = "DONE" /\ r.indexable -> "GREEN"
      [] r.status = "DONE" /\ ~r.indexable -> "PROBLEM"
      [] r.status = "ERROR" -> "ERROR"
      [] OTHER -> "PENDING"

\* Events need no refetch beside them: when the event that ends a check is applied and
\* nothing else is under way, the row is shown with the status the database gives it.
PatchesSuffice ==
    [][\A i \in ShownIds :
          /\ Deliver /\ stream.queue = <<LinkUpdated(i, "DONE")>> /\ Exists(i)
          /\ checks = {} /\ ~Locked /\ linksFetch.kind = "none"
          => LET of(rows) == RowStatus(CHOOSE r \in Range(rows) : r.id = i)
             IN of(Shown') = of(db)]_vars

=============================================================================
