---------------------------- MODULE SheetsSchedule ----------------------------
(***************************************************************************)
(* The schedules of sheets tasks: the dialog and the list in the browsers  *)
(* (SheetsTaskDialog, SheetsTab), the requests they send, and the two      *)
(* places the API writes them to one after the other, the SheetsTask row   *)
(* and BullMQ's job scheduler (SheetsTasksService).                        *)
(*                                                                         *)
(* One action is what runs between two awaits; findOwnedTask and the       *)
(* update of a PATCH are one, because each of them fails when the row is   *)
(* gone and the first does nothing else.  What a scheduler starts is the   *)
(* subject of SheetsRun, which also shows that the job of a task that is   *)
(* gone does nothing.                                                      *)
(***************************************************************************)
EXTENDS Naturals, FiniteSets

CONSTANTS Tasks,       \* SheetsTask rows
          Browsers,    \* pages that show the Sheets tab of the project
          Presets,     \* CRON_PRESETS but the first
          Off,         \* the first preset: no schedule
          Absent,      \* a body without scheduleCron
          NoRow, Gone, \* a row that does not exist yet, and one that was deleted
          NoTask,      \* the dialog connects a new sheet
          MaxActs,     \* bound on the requests users send and the lists they ask for
          MaxIncidents \* bound on the requests that fail

Crons == Presets \cup {Off}

ASSUME ScheduleAssumption ==
    /\ Off \notin Presets /\ Absent \notin Crons
    /\ NoRow \notin Crons /\ Gone \notin Crons /\ NoRow # Gone
    /\ NoTask \notin Tasks
    /\ MaxActs \in Nat /\ MaxIncidents \in Nat

VARIABLES
    row,       \* row[t]: SheetsTask.scheduleCron, or NoRow, or Gone
    sched,     \* sched[t]: the pattern of job scheduler sheets-task-{t}
    list,      \* list[b][t]: the cron of t in the cached query sheets-tasks
    fetch,     \* fetch[b]: the request that refreshes it
    dialog,    \* dialog[b]: the open dialog, the task it edits and the cron it shows
    save,      \* save[b]: the POST or PATCH of b's dialog
    remove,    \* remove[b]: b's DELETE
    acts, incidents, \* how many there were
    chosen,    \* chosen[t]: what the dialog last saved showed (history)
    dirty,     \* tasks with requests that overlapped or failed half way (history)
    unseen     \* unseen[b]: tasks that changed without b's doing since its read (history)

apiVars == <<row, sched>>
pageVars == <<list, fetch, dialog>>
bounds == <<acts, incidents>>
history == <<chosen, dirty, unseen>>
vars == <<row, sched, list, fetch, dialog, save, remove, acts, incidents,
          chosen, dirty, unseen>>

Idle == [at |-> "idle", task |-> NoTask, cron |-> Absent, alone |-> TRUE]
Closed == [open |-> FALSE, task |-> NoTask, cron |-> Off]
NotFetching == [at |-> "idle", got |-> [t \in Tasks |-> NoRow]]

Exists(t) == row[t] \in Crons
Open(b, t) == \/ save[b].at # "idle" /\ save[b].task = t
              \/ remove[b].at # "idle" /\ remove[b].task = t
Settled(t) == t \notin dirty /\ \A b \in Browsers : ~Open(b, t)

\* A bug: the query does not leave out what was deleted.
Listed_withDeleted == row

\* The rows the API lists: the tasks that exist.
Listed == [t \in Tasks |-> IF Exists(t) THEN row[t] ELSE NoRow]

Init ==
    /\ row = [t \in Tasks |-> NoRow]
    /\ sched = [t \in Tasks |-> Off]
    /\ list = [b \in Browsers |-> Listed]
    /\ fetch = [b \in Browsers |-> NotFetching]
    /\ dialog = [b \in Browsers |-> Closed]
    /\ save = [b \in Browsers |-> Idle]
    /\ remove = [b \in Browsers |-> Idle]
    /\ acts = 0 /\ incidents = 0
    /\ chosen = [t \in Tasks |-> Absent]
    /\ dirty = {}
    /\ unseen = [b \in Browsers |-> {}]

------------------------------------------------------------------------------
(* SheetsTab and SheetsTaskDialog.                                         *)

\* openCreate, with the form empty.
OpenCreate(b) ==
    /\ ~dialog[b].open /\ acts < MaxActs
    /\ dialog' = [dialog EXCEPT ![b] = [Closed EXCEPT !.open = TRUE]]
    /\ UNCHANGED <<apiVars, list, fetch, save, remove, bounds, history>>

\* openEdit keeps the row of the list as it is now; the form starts from it.
OpenEdit(b, t) ==
    /\ ~dialog[b].open /\ list[b][t] # NoRow /\ acts < MaxActs
    /\ dialog' = [dialog EXCEPT ![b] = [open |-> TRUE, task |-> t, cron |-> list[b][t]]]
    /\ UNCHANGED <<apiVars, list, fetch, save, remove, bounds, history>>

\* The select of the schedule.
Choose(b, c) ==
    /\ dialog[b].open /\ dialog[b].cron # c
    /\ dialog' = [dialog EXCEPT ![b].cron = c]
    /\ UNCHANGED <<apiVars, list, fetch, save, remove, bounds, history>>

\* onClose; a save that is under way goes on.
Cancel(b) ==
    /\ dialog[b].open
    /\ dialog' = [dialog EXCEPT ![b] = Closed]
    /\ UNCHANGED <<apiVars, list, fetch, save, remove, bounds, history>>

\* scheduleCron: form.scheduleCron || undefined
Body(c) == IF c = Off THEN Absent ELSE c

\* Requests about one task at the same time: each is marked, and so is the task.
Overlaps(t) == \E b \in Browsers : Open(b, t)
Beside(reqs, t) ==
    [b \in Browsers |-> IF reqs[b].at # "idle" /\ reqs[b].task = t
                        THEN [reqs[b] EXCEPT !.alone = FALSE] ELSE reqs[b]]
Sent(t, c) == [at |-> "sent", task |-> t, cron |-> c, alone |-> ~Overlaps(t)]
MarkOverlap(t) == dirty' = IF Overlaps(t) THEN dirty \cup {t} ELSE dirty

\* submit.mutate: the button is disabled while a save is pending.
Send(b) ==
    /\ dialog[b].open /\ save[b].at = "idle" /\ acts < MaxActs
    /\ LET t == dialog[b].task
       IN /\ save' = [Beside(save, t) EXCEPT ![b] = Sent(t, Body(dialog[b].cron))]
          /\ remove' = Beside(remove, t)
          /\ MarkOverlap(t)
    /\ acts' = acts + 1
    /\ UNCHANGED <<apiVars, pageVars, incidents, chosen, unseen>>

\* remove.mutate after a confirmation; a browser has one DELETE at a time.
ClickDelete(b, t) ==
    /\ list[b][t] # NoRow /\ remove[b].at = "idle" /\ acts < MaxActs
    /\ remove' = [Beside(remove, t) EXCEPT ![b] = Sent(t, Absent)]
    /\ save' = Beside(save, t)
    /\ MarkOverlap(t)
    /\ acts' = acts + 1
    /\ UNCHANGED <<apiVars, pageVars, incidents, chosen, unseen>>

\* A bug: a fetch under way is taken for the one that is asked for.
Invalidated_joined(b) ==
    IF fetch[b].at = "idle" THEN [fetch EXCEPT ![b] = [NotFetching EXCEPT !.at = "asked"]]
                            ELSE fetch

\* invalidateQueries: a fetch under way is cancelled, another starts.
Invalidated(b) == [fetch EXCEPT ![b] = [NotFetching EXCEPT !.at = "asked"]]

\* A success closes the dialog that is open, whichever it is.
SaveAnswered(b) ==
    /\ save[b].at = "ok"
    /\ LET t == save[b].task
           c == save[b].cron
       IN /\ chosen' = [chosen EXCEPT ![t] = IF c = Absent THEN Off ELSE c]
          /\ dirty' = IF save[b].alone /\ c # Absent THEN dirty \ {t} ELSE dirty
    /\ save' = [save EXCEPT ![b] = Idle]
    /\ dialog' = [dialog EXCEPT ![b] = Closed]
    /\ fetch' = Invalidated(b)
    /\ UNCHANGED <<apiVars, list, remove, bounds, unseen>>

RemoveAnswered(b) ==
    /\ remove[b].at = "ok"
    /\ remove' = [remove EXCEPT ![b] = Idle]
    /\ fetch' = Invalidated(b)
    /\ UNCHANGED <<apiVars, list, dialog, save, bounds, history>>

\* The tab is shown again, or a run was started from it.
Refresh(b) ==
    /\ fetch[b].at = "idle" /\ acts < MaxActs
    /\ fetch' = Invalidated(b)
    /\ acts' = acts + 1
    /\ UNCHANGED <<apiVars, list, dialog, save, remove, incidents, history>>

FetchLands(b) ==
    /\ fetch[b].at = "served"
    /\ list' = [list EXCEPT ![b] = fetch[b].got]
    /\ fetch' = [fetch EXCEPT ![b] = NotFetching]
    /\ UNCHANGED <<apiVars, dialog, save, remove, bounds, history>>

------------------------------------------------------------------------------
(* SheetsTasksService.  An error that it answers is one step with what the *)
(* browser makes of it: onError shows a message and fetches nothing.       *)

Refused(b, t) == unseen' = [unseen EXCEPT ![b] = @ \cup {t}]

\* What a row write of b's request does to what the other browsers know.
Unknown(b, t) ==
    unseen' = [o \in Browsers |-> IF o = b THEN unseen[o] ELSE unseen[o] \cup {t}]

ListTasks(b) ==
    /\ fetch[b].at = "asked"
    /\ fetch' = [fetch EXCEPT ![b] = [at |-> "served", got |-> Listed]]
    /\ unseen' = [unseen EXCEPT ![b] = {}]
    /\ UNCHANGED <<apiVars, list, dialog, save, remove, bounds, chosen, dirty>>

\* A bug: create leaves the schedule to the next update.
CreateRow_unscheduled(b, t) ==
    /\ save[b].at = "sent" /\ save[b].task = NoTask /\ row[t] = NoRow
    /\ LET c == save[b].cron
       IN row' = [row EXCEPT ![t] = IF c = Absent THEN Off ELSE c]
    /\ save' = [save EXCEPT ![b].task = t, ![b].at = "ok"]
    /\ Unknown(b, t)
    /\ UNCHANGED <<sched, pageVars, remove, bounds, chosen, dirty>>

\* create writes the row; it registers a schedule only if the body has one.
CreateRow(b, t) ==
    /\ save[b].at = "sent" /\ save[b].task = NoTask /\ row[t] = NoRow
    /\ LET c == save[b].cron
       IN /\ row' = [row EXCEPT ![t] = IF c = Absent THEN Off ELSE c]
          /\ save' = [save EXCEPT ![b].task = t,
                                  ![b].at = IF c = Absent THEN "ok" ELSE "written"]
    /\ Unknown(b, t)
    /\ UNCHANGED <<sched, pageVars, remove, bounds, chosen, dirty>>

\* update: findOwnedTask and prisma.update fail when the row is gone.
UpdateRow(b) ==
    /\ save[b].at = "sent" /\ save[b].task # NoTask
    /\ LET t == save[b].task
           c == save[b].cron
       IN IF ~Exists(t)
          THEN /\ save' = [save EXCEPT ![b] = Idle]
               /\ Refused(b, t)
               /\ UNCHANGED row
          ELSE /\ row' = IF c = Absent THEN row ELSE [row EXCEPT ![t] = c]
               /\ save' = [save EXCEPT ![b].at = IF c = Absent THEN "ok" ELSE "written"]
               /\ Unknown(b, t)
    /\ UNCHANGED <<sched, pageVars, remove, bounds, chosen, dirty>>

\* upsertSchedule, which does not look at the row again; removeSchedule for ''.
WriteSchedule(b) ==
    /\ save[b].at = "written"
    /\ sched' = [sched EXCEPT ![save[b].task] = save[b].cron]
    /\ save' = [save EXCEPT ![b].at = "ok"]
    /\ UNCHANGED <<row, pageVars, remove, bounds, history>>

RemoveFinds(b) ==
    /\ remove[b].at = "sent"
    /\ IF Exists(remove[b].task)
       THEN /\ remove' = [remove EXCEPT ![b].at = "found"]
            /\ UNCHANGED unseen
       ELSE /\ remove' = [remove EXCEPT ![b] = Idle]
            /\ Refused(b, remove[b].task)
    /\ UNCHANGED <<apiVars, pageVars, save, bounds, chosen, dirty>>

\* removeSchedule swallows an error of Redis: it counts as an incident.
RemoveSchedule(b) ==
    /\ remove[b].at = "found"
    /\ LET t == remove[b].task
       IN \/ /\ sched' = [sched EXCEPT ![t] = Off]
             /\ UNCHANGED <<incidents, dirty>>
          \/ /\ incidents < MaxIncidents /\ incidents' = incidents + 1
             /\ dirty' = dirty \cup {t}
             /\ UNCHANGED sched
    /\ remove' = [remove EXCEPT ![b].at = "unscheduled"]
    /\ UNCHANGED <<row, pageVars, save, acts, chosen, unseen>>

RemoveRow(b) ==
    /\ remove[b].at = "unscheduled"
    /\ LET t == remove[b].task
       IN IF ~Exists(t)
          THEN /\ remove' = [remove EXCEPT ![b] = Idle]
               /\ Refused(b, t)
               /\ UNCHANGED row
          ELSE /\ row' = [row EXCEPT ![t] = Gone]
               /\ remove' = [remove EXCEPT ![b].at = "ok"]
               /\ Unknown(b, t)
    /\ UNCHANGED <<sched, pageVars, save, bounds, chosen, dirty>>

------------------------------------------------------------------------------
(* Failures: an error of PostgreSQL or Redis, a restart of the API, or an  *)
(* answer that is lost.  The browser sees an error in each case.           *)

FailSave(b) ==
    /\ save[b].at # "idle"
    /\ incidents < MaxIncidents /\ incidents' = incidents + 1
    /\ save' = [save EXCEPT ![b] = Idle]
    /\ Refused(b, save[b].task)
    /\ dirty' = IF save[b].at = "sent" THEN dirty ELSE dirty \cup {save[b].task}
    /\ UNCHANGED <<apiVars, pageVars, remove, acts, chosen>>

FailRemove(b) ==
    /\ remove[b].at # "idle"
    /\ incidents < MaxIncidents /\ incidents' = incidents + 1
    /\ remove' = [remove EXCEPT ![b] = Idle]
    /\ Refused(b, remove[b].task)
    /\ dirty' = IF remove[b].at = "unscheduled" THEN dirty \cup {remove[b].task} ELSE dirty
    /\ UNCHANGED <<apiVars, pageVars, save, acts, chosen>>

\* retry: false; the list stays as it was.
FailFetch(b) ==
    /\ fetch[b].at # "idle"
    /\ incidents < MaxIncidents /\ incidents' = incidents + 1
    /\ fetch' = [fetch EXCEPT ![b] = NotFetching]
    /\ unseen' = [unseen EXCEPT ![b] = Tasks]
    /\ UNCHANGED <<apiVars, list, dialog, save, remove, acts, chosen, dirty>>

------------------------------------------------------------------------------
Next ==
    \E b \in Browsers :
        \/ OpenCreate(b) \/ Cancel(b) \/ Send(b) \/ Refresh(b)
        \/ \E t \in Tasks : OpenEdit(b, t) \/ ClickDelete(b, t) \/ CreateRow(b, t)
        \/ \E c \in Crons : Choose(b, c)
        \/ SaveAnswered(b) \/ RemoveAnswered(b)
        \/ ListTasks(b) \/ FetchLands(b)
        \/ UpdateRow(b) \/ WriteSchedule(b)
        \/ RemoveFinds(b) \/ RemoveSchedule(b) \/ RemoveRow(b)
        \/ FailSave(b) \/ FailRemove(b) \/ FailFetch(b)

Spec == Init /\ [][Next]_vars

------------------------------------------------------------------------------
(* Properties.                                                             *)

Requests(stages) == [at : stages, task : Tasks \cup {NoTask}, cron : Crons \cup {Absent},
                     alone : BOOLEAN]

\* The types of the rows, the schedulers, the cached lists, the dialogs and the requests.
TypeOK ==
    /\ row \in [Tasks -> Crons \cup {NoRow, Gone}]
    /\ sched \in [Tasks -> Crons]
    /\ list \in [Browsers -> [Tasks -> Crons \cup {NoRow}]]
    /\ fetch \in [Browsers -> [at : {"idle", "asked", "served"},
                               got : [Tasks -> Crons \cup {NoRow}]]]
    /\ dialog \in [Browsers -> [open : BOOLEAN, task : Tasks \cup {NoTask}, cron : Crons]]
    /\ save \in [Browsers -> Requests({"idle", "sent", "written", "ok"})]
    /\ remove \in [Browsers -> Requests({"idle", "sent", "found", "unscheduled", "ok"})]
    /\ acts \in 0..MaxActs /\ incidents \in 0..MaxIncidents
    /\ chosen \in [Tasks -> Crons \cup {Absent}]
    /\ dirty \subseteq Tasks \cup {NoTask}
    /\ unseen \in [Browsers -> SUBSET (Tasks \cup {NoTask})]

\* The API is the only writer of the schedulers and reconciles nothing at boot
\* (sheets-tasks.service.ts:32-34), so what create, update and remove leave behind must
\* agree by itself: the scheduler of a task has the cron of its row, and a task that was
\* deleted or never existed has none.  Two requests about one task that overlap, and a
\* request that failed between its two writes, are the exceptions; the next save with a
\* schedule that nothing disturbs puts them right.  So a preset the user saved, and was
\* told is saved, is the one that runs, whatever was saved before it.
InSync ==
    \A t \in Tasks : Settled(t) =>
        /\ sched[t] = IF Exists(t) THEN row[t] ELSE Off
        /\ Exists(t) /\ chosen[t] \in Presets => sched[t] = chosen[t]

\* SheetsTaskDialog.tsx:27 says "Empty string = no schedule (manual run only)", and
\* sheets-tasks.service.ts:29 "On delete (or scheduleCron removal), the scheduler is
\* removed": a task whose dialog was saved with Off is not scheduled.
OffMeansOff ==
    \A t \in Tasks : Settled(t) /\ Exists(t) /\ chosen[t] = Off => sched[t] = Off

Quiet(b) == fetch[b].at = "idle" /\ save[b].at = "idle" /\ remove[b].at = "idle"

\* A browser that waits for nothing lists the tasks as they are, but for those that
\* somebody else changed, and those that its own failed requests did, since the API read
\* what it shows: its own success always leads to a read that is younger than the write.
ListFresh ==
    \A b \in Browsers : Quiet(b) =>
        \A t \in Tasks \ unseen[b] : list[b][t] = Listed[t]
=============================================================================
