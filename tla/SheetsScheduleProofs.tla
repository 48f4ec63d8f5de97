------------------------ MODULE SheetsScheduleProofs ------------------------
(***************************************************************************)
(* What holds of SheetsSchedule for every set of tasks, browsers, presets. *)
(***************************************************************************)
EXTENDS SheetsSchedule, TLAPS

USE ScheduleAssumption

SaveStage == {"idle", "sent", "written", "ok"}
RemoveStage == {"idle", "sent", "found", "unscheduled", "ok"}

\* A request that got as far as a row names a task; a second write has a cron.
Stages ==
    \A b \in Browsers :
        /\ save[b].at \in {"written", "ok"} => save[b].task \in Tasks
        /\ save[b].at = "written" => save[b].cron \in Crons
        /\ remove[b].at # "idle" => remove[b].task \in Tasks

TypeInv == TypeOK /\ Stages

LEMMA ListedType ==
    ASSUME TypeOK
    PROVE  /\ Listed \in [Tasks -> Crons \cup {NoRow}]
           /\ \A t \in Tasks : Listed[t] = IF Exists(t) THEN row[t] ELSE NoRow
  BY DEF TypeOK, Listed, Exists

\* Beside touches nothing but the marks of the requests about t.
LEMMA BesideKeeps ==
    ASSUME NEW S, NEW reqs \in [Browsers -> Requests(S)], NEW t
    PROVE  /\ Beside(reqs, t) \in [Browsers -> Requests(S)]
           /\ \A b \in Browsers :
                /\ Beside(reqs, t)[b].at = reqs[b].at
                /\ Beside(reqs, t)[b].task = reqs[b].task
                /\ Beside(reqs, t)[b].cron = reqs[b].cron
                /\ Beside(reqs, t)[b].alone =
                     (reqs[b].alone /\ ~(reqs[b].at # "idle" /\ reqs[b].task = t))
<1>1. ASSUME NEW b \in Browsers
      PROVE  /\ Beside(reqs, t)[b] \in Requests(S)
             /\ Beside(reqs, t)[b].at = reqs[b].at
             /\ Beside(reqs, t)[b].task = reqs[b].task
             /\ Beside(reqs, t)[b].cron = reqs[b].cron
             /\ Beside(reqs, t)[b].alone =
                     (reqs[b].alone /\ ~(reqs[b].at # "idle" /\ reqs[b].task = t))
  <2>1. reqs[b] \in Requests(S)
    OBVIOUS
  <2>2. CASE reqs[b].at # "idle" /\ reqs[b].task = t
    <3>1. Beside(reqs, t)[b] = [reqs[b] EXCEPT !.alone = FALSE]
      BY <2>2 DEF Beside
    <3>2. QED
      BY <2>1, <2>2, <3>1 DEF Requests
  <2>3. CASE ~(reqs[b].at # "idle" /\ reqs[b].task = t)
    <3>1. Beside(reqs, t)[b] = reqs[b]
      BY <2>3 DEF Beside
    <3>2. QED
      BY <2>1, <2>3, <3>1 DEF Requests
  <2>4. QED
    BY <2>2, <2>3
<1>2. Beside(reqs, t) \in [Browsers -> Requests(S)]
  BY <1>1 DEF Beside
<1>3. QED
  BY <1>1, <1>2

LEMMA IdleType ==
    /\ Idle \in Requests(SaveStage) /\ Idle \in Requests(RemoveStage)
    /\ Idle.at = "idle" /\ Idle.task = NoTask
  BY DEF Idle, Requests, SaveStage, RemoveStage

LEMMA InitType == Init => TypeInv
<1> SUFFICES ASSUME Init PROVE TypeInv
  OBVIOUS
<1>1. Listed \in [Tasks -> Crons \cup {NoRow}]
  BY DEF Init, Listed, Exists
<1>2. save \in [Browsers -> Requests(SaveStage)] /\ remove \in [Browsers -> Requests(RemoveStage)]
  BY IdleType DEF Init
<1>3. dialog \in [Browsers -> [open : BOOLEAN, task : Tasks \cup {NoTask}, cron : Crons]]
  BY DEF Init, Closed, Crons
<1>4. fetch \in [Browsers -> [at : {"idle", "asked", "served"}, got : [Tasks -> Crons \cup {NoRow}]]]
  BY DEF Init, NotFetching
<1>5. list \in [Browsers -> [Tasks -> Crons \cup {NoRow}]]
  BY <1>1 DEF Init
<1>6. TypeOK
  BY <1>2, <1>3, <1>4, <1>5 DEF Init, TypeOK, Crons, SaveStage, RemoveStage
<1>7. Stages
  BY IdleType DEF Init, Stages
<1>8. QED
  BY <1>6, <1>7 DEF TypeInv

LEMMA FetchType ==
    ASSUME TypeOK, NEW b \in Browsers
    PROVE  Invalidated(b) \in [Browsers -> [at : {"idle", "asked", "served"},
                                            got : [Tasks -> Crons \cup {NoRow}]]]
  BY DEF TypeOK, Invalidated, NotFetching

LEMMA UnseenType ==
    ASSUME TypeOK, NEW b \in Browsers, NEW t \in Tasks \cup {NoTask},
           Refused(b, t) \/ Unknown(b, t)
    PROVE  unseen' \in [Browsers -> SUBSET (Tasks \cup {NoTask})]
<1>1. CASE Refused(b, t)
  BY <1>1 DEF Refused, TypeOK
<1>2. CASE Unknown(b, t)
  <2>1. ASSUME NEW o \in Browsers
        PROVE  unseen[o] \cup {t} \subseteq Tasks \cup {NoTask}
    BY DEF TypeOK
  <2>2. QED
    BY <1>2, <2>1 DEF Unknown, TypeOK
<1>3. QED
  BY <1>1, <1>2

\* The steps that touch no request.
ViewStep(b) ==
    \/ OpenCreate(b) \/ Cancel(b) \/ Refresh(b)
    \/ \E t \in Tasks : OpenEdit(b, t)
    \/ \E c \in Crons : Choose(b, c)
    \/ ListTasks(b) \/ FetchLands(b) \/ FailFetch(b)

\* The steps of the requests.
SaveStep(b) ==
    \/ Send(b) \/ SaveAnswered(b) \/ \E t \in Tasks : CreateRow(b, t)
    \/ UpdateRow(b) \/ WriteSchedule(b) \/ FailSave(b)

RemoveStep(b) ==
    \/ \E t \in Tasks : ClickDelete(b, t)
    \/ RemoveAnswered(b) \/ RemoveFinds(b) \/ RemoveSchedule(b) \/ RemoveRow(b)
    \/ FailRemove(b)

LEMMA NextSteps == Next => \E b \in Browsers : ViewStep(b) \/ SaveStep(b) \/ RemoveStep(b)
  BY DEF Next, ViewStep, SaveStep, RemoveStep

LEMMA ViewType ==
    ASSUME TypeInv, NEW b \in Browsers, ViewStep(b)
    PROVE  TypeInv'
<1> USE DEF TypeInv
<1>1. UNCHANGED <<apiVars, save, remove, chosen>>
  BY DEF ViewStep, OpenCreate, Cancel, Refresh, OpenEdit, Choose, ListTasks, FetchLands,
         FailFetch, history, bounds
<1>2. Stages'
  BY <1>1 DEF Stages
<1> USE DEF TypeOK, apiVars, bounds, history
<1>3. CASE OpenCreate(b)
  BY <1>2, <1>3 DEF OpenCreate, Closed, Crons
<1>4. CASE Cancel(b)
  BY <1>2, <1>4 DEF Cancel, Closed, Crons
<1>5. CASE Refresh(b)
  BY <1>2, <1>5, FetchType DEF Refresh
<1>6. CASE \E t \in Tasks : OpenEdit(b, t)
  <2>1. PICK t \in Tasks : OpenEdit(b, t)
    BY <1>6
  <2>2. list[b][t] \in Crons
    BY <2>1 DEF OpenEdit
  <2>3. QED
    BY <1>2, <2>1, <2>2 DEF OpenEdit
<1>7. CASE \E c \in Crons : Choose(b, c)
  <2>1. PICK c \in Crons : Choose(b, c)
    BY <1>7
  <2>2. dialog' \in [Browsers -> [open : BOOLEAN, task : Tasks \cup {NoTask}, cron : Crons]]
    <3>1. /\ dialog \in [Browsers -> [open : BOOLEAN, task : Tasks \cup {NoTask}, cron : Crons]]
          /\ dialog' = [dialog EXCEPT ![b].cron = c]
      BY <2>1 DEF Choose
    <3> HIDE DEF TypeOK, TypeInv
    <3>2. QED
      BY <3>1
  <2>3. QED
    BY <1>2, <2>1, <2>2 DEF Choose
<1>8. CASE ListTasks(b)
  BY <1>2, <1>8, ListedType DEF ListTasks
<1>9. CASE FetchLands(b)
  BY <1>2, <1>9 DEF FetchLands, NotFetching
<1>10. CASE FailFetch(b)
  BY <1>2, <1>10 DEF FailFetch, NotFetching
<1>11. QED
  BY <1>3, <1>4, <1>5, <1>6, <1>7, <1>8, <1>9, <1>10 DEF ViewStep
\* A request under way is one of its kind; the API only moves its stage.
LEMMA RequestFields ==
    ASSUME TypeInv, NEW b \in Browsers
    PROVE  /\ save[b] \in Requests(SaveStage) /\ remove[b] \in Requests(RemoveStage)
           /\ save[b].at \in SaveStage /\ remove[b].at \in RemoveStage
           /\ save[b].task \in Tasks \cup {NoTask} /\ save[b].cron \in Crons \cup {Absent}
           /\ remove[b].task \in Tasks \cup {NoTask}
           /\ save[b].alone \in BOOLEAN /\ remove[b].alone \in BOOLEAN
           /\ save[b].at \in {"written", "ok"} => save[b].task \in Tasks
           /\ save[b].at = "written" => save[b].cron \in Crons
           /\ remove[b].at # "idle" => remove[b].task \in Tasks
  BY DEF TypeInv, TypeOK, Stages, Requests, SaveStage, RemoveStage

LEMMA SaveType ==
    ASSUME TypeInv, NEW b \in Browsers, SaveStep(b)
    PROVE  TypeInv'
<1> USE DEF TypeInv
<1> DEFINE S == SaveStage
<1>0. /\ save \in [Browsers -> Requests(SaveStage)] /\ remove \in [Browsers -> Requests(RemoveStage)]
      /\ dialog[b].task \in Tasks \cup {NoTask} /\ dialog[b].cron \in Crons
  BY DEF TypeOK, SaveStage, RemoveStage
<1> USE DEF apiVars, pageVars, bounds, history
<1>1. CASE Send(b)
  <2> DEFINE t == dialog[b].task
             new == Sent(t, Body(dialog[b].cron))
  <2>1. new \in Requests(SaveStage) /\ new.at = "sent"
    BY <1>0 DEF Sent, Body, Requests, SaveStage, Overlaps
  <2>2. save' = [Beside(save, t) EXCEPT ![b] = new] /\ remove' = Beside(remove, t)
    BY <1>1 DEF Send
  <2>3. save' \in [Browsers -> Requests(SaveStage)] /\ remove' \in [Browsers -> Requests(RemoveStage)]
    BY <1>0, <2>1, <2>2, BesideKeeps
  <2>4. dirty' \subseteq Tasks \cup {NoTask}
    BY <1>0, <1>1 DEF Send, MarkOverlap, TypeOK
  <2>5. acts' \in 0..MaxActs
    BY <1>1 DEF Send, TypeOK
  <2>6. TypeOK'
    BY <1>1, <2>3, <2>4, <2>5 DEF Send, TypeOK, SaveStage, RemoveStage
  <2>7. ASSUME NEW o \in Browsers
        PROVE  /\ save'[o].at \in {"written", "ok"} => save'[o].task \in Tasks
               /\ save'[o].at = "written" => save'[o].cron \in Crons
               /\ remove'[o].at # "idle" => remove'[o].task \in Tasks
    <3>1. /\ Beside(save, t)[o].at = save[o].at /\ Beside(save, t)[o].task = save[o].task
          /\ Beside(save, t)[o].cron = save[o].cron /\ Beside(remove, t)[o].at = remove[o].at
          /\ Beside(remove, t)[o].task = remove[o].task
          /\ Beside(save, t) \in [Browsers -> Requests(SaveStage)]
      BY <1>0, BesideKeeps
    <3>2. QED
      BY <2>1, <2>2, <3>1, RequestFields
  <2>8. QED
    BY <2>6, <2>7 DEF Stages
<1>2. CASE SaveAnswered(b)
  <2>1. save[b].task \in Tasks /\ save[b].cron \in Crons \cup {Absent}
    BY <1>2, RequestFields DEF SaveAnswered
  <2>2. chosen' \in [Tasks -> Crons \cup {Absent}]
    BY <1>2, <2>1 DEF SaveAnswered, TypeOK, Crons
  <2>3. save' \in [Browsers -> Requests(SaveStage)]
    BY <1>0, <1>2, IdleType DEF SaveAnswered
  <2>4. dialog' \in [Browsers -> [open : BOOLEAN, task : Tasks \cup {NoTask}, cron : Crons]]
    BY <1>2 DEF SaveAnswered, TypeOK, Closed, Crons
  <2>5. TypeOK'
    BY <1>2, <2>2, <2>3, <2>4, FetchType DEF SaveAnswered, TypeOK, SaveStage, RemoveStage
  <2>6. Stages'
    BY <1>0, <1>2, IdleType DEF SaveAnswered, Stages
  <2>7. QED
    BY <2>5, <2>6
<1>3. CASE \E t \in Tasks : CreateRow(b, t)
  <2>1. PICK t \in Tasks : CreateRow(b, t)
    BY <1>3
  <2>2. save[b] \in Requests(SaveStage) /\ save[b].cron \in Crons \cup {Absent}
    BY RequestFields
  <2>3. row' \in [Tasks -> Crons \cup {NoRow, Gone}]
    BY <2>1, <2>2 DEF CreateRow, TypeOK, Crons
  <2>4. /\ save' \in [Browsers -> Requests(SaveStage)]
        /\ \A o \in Browsers \ {b} : save'[o] = save[o]
        /\ save'[b].task = t /\ save'[b].cron = save[b].cron
        /\ save'[b].at = IF save[b].cron = Absent THEN "ok" ELSE "written"
    BY <1>0, <2>1 DEF CreateRow, Requests, SaveStage
  <2>5. unseen' \in [Browsers -> SUBSET (Tasks \cup {NoTask})]
    BY <2>1 DEF CreateRow, Unknown, TypeOK
  <2>6. TypeOK'
    BY <2>1, <2>3, <2>4, <2>5 DEF CreateRow, TypeOK, SaveStage
  <2>7. Stages'
    BY <2>1, <2>2, <2>4 DEF CreateRow, Stages
  <2>8. QED
    BY <2>6, <2>7
<1>4. CASE UpdateRow(b)
  <2> DEFINE t == save[b].task
             c == save[b].cron
  <2>1. t \in Tasks /\ c \in Crons \cup {Absent}
    BY <1>4, RequestFields DEF UpdateRow
  <2>2. row' \in [Tasks -> Crons \cup {NoRow, Gone}]
    BY <1>4, <2>1 DEF UpdateRow, TypeOK
  <2>3. unseen' \in [Browsers -> SUBSET (Tasks \cup {NoTask})]
    BY <1>4, <2>1, UnseenType DEF UpdateRow
  <2>4. /\ save' \in [Browsers -> Requests(SaveStage)]
        /\ \A o \in Browsers \ {b} : save'[o] = save[o]
        /\ \/ save'[b] = Idle
           \/ /\ save'[b].task = t /\ save'[b].cron = c
              /\ save'[b].at = IF c = Absent THEN "ok" ELSE "written"
    <3>1. CASE Exists(t)
      <4>1. save' = [save EXCEPT ![b].at = IF c = Absent THEN "ok" ELSE "written"]
        BY <1>4, <3>1 DEF UpdateRow
      <4>2. QED
        BY <1>0, <4>1 DEF Requests, SaveStage
    <3>2. CASE ~Exists(t)
      BY <1>0, <1>4, <3>2, IdleType DEF UpdateRow
    <3>3. QED
      BY <3>1, <3>2
  <2>5. TypeOK'
    BY <1>4, <2>2, <2>3, <2>4 DEF UpdateRow, TypeOK, SaveStage
  <2>6. Stages'
    BY <1>4, <2>1, <2>4, IdleType DEF UpdateRow, Stages
  <2>7. QED
    BY <2>5, <2>6
<1>5. CASE WriteSchedule(b)
  <2>1. save[b].task \in Tasks /\ save[b].cron \in Crons
    BY <1>5, RequestFields DEF WriteSchedule
  <2>2. /\ save' \in [Browsers -> Requests(SaveStage)]
        /\ \A o \in Browsers \ {b} : save'[o] = save[o]
        /\ save'[b].task = save[b].task /\ save'[b].at = "ok"
    BY <1>0, <1>5 DEF WriteSchedule, Requests, SaveStage
  <2>3. TypeOK'
    BY <1>5, <2>1, <2>2 DEF WriteSchedule, TypeOK, SaveStage
  <2>4. Stages'
    BY <1>5, <2>1, <2>2 DEF WriteSchedule, Stages
  <2>5. QED
    BY <2>3, <2>4
<1>6. CASE FailSave(b)
  <2>1. save[b].task \in Tasks \cup {NoTask}
    BY RequestFields
  <2>2. save' \in [Browsers -> Requests(SaveStage)] /\ save' = [save EXCEPT ![b] = Idle]
    BY <1>0, <1>6, IdleType DEF FailSave
  <2>3. /\ dirty' \subseteq Tasks \cup {NoTask}
        /\ unseen' \in [Browsers -> SUBSET (Tasks \cup {NoTask})]
        /\ incidents' \in 0..MaxIncidents
    BY <1>6, <2>1 DEF FailSave, Refused, TypeOK
  <2>4. TypeOK'
    BY <1>6, <2>2, <2>3 DEF FailSave, TypeOK, SaveStage
  <2>5. Stages'
    BY <1>0, <1>6, <2>2, IdleType DEF FailSave, Stages
  <2>6. QED
    BY <2>4, <2>5
<1>7. QED
  BY <1>1, <1>2, <1>3, <1>4, <1>5, <1>6 DEF SaveStep

LEMMA RemoveType ==
    ASSUME TypeInv, NEW b \in Browsers, RemoveStep(b)
    PROVE  TypeInv'
<1> USE DEF TypeInv
<1>0. /\ save \in [Browsers -> Requests(SaveStage)] /\ remove \in [Browsers -> Requests(RemoveStage)]
      /\ remove[b].task \in Tasks \cup {NoTask}
      /\ remove[b].at # "idle" => remove[b].task \in Tasks
  BY RequestFields DEF TypeOK, SaveStage, RemoveStage
<1> USE DEF apiVars, pageVars, bounds, history
<1>1. CASE \E t \in Tasks : ClickDelete(b, t)
  <2>0. PICK t \in Tasks : ClickDelete(b, t)
    BY <1>1
  <2> DEFINE new == Sent(t, Absent)
  <2>1. new \in Requests(RemoveStage) /\ new.task = t
    BY <1>0 DEF Sent, Requests, RemoveStage, Overlaps
  <2>2. save' = Beside(save, t) /\ remove' = [Beside(remove, t) EXCEPT ![b] = new]
    BY <2>0 DEF ClickDelete
  <2>3. save' \in [Browsers -> Requests(SaveStage)] /\ remove' \in [Browsers -> Requests(RemoveStage)]
    BY <1>0, <2>1, <2>2, BesideKeeps
  <2>4. dirty' \subseteq Tasks \cup {NoTask}
    BY <1>0, <2>0 DEF ClickDelete, MarkOverlap, TypeOK
  <2>5. acts' \in 0..MaxActs
    BY <2>0 DEF ClickDelete, TypeOK
  <2>6. TypeOK'
    BY <2>0, <2>3, <2>4, <2>5 DEF ClickDelete, TypeOK, SaveStage, RemoveStage
  <2>7. ASSUME NEW o \in Browsers
        PROVE  /\ save'[o].at \in {"written", "ok"} => save'[o].task \in Tasks
               /\ save'[o].at = "written" => save'[o].cron \in Crons
               /\ remove'[o].at # "idle" => remove'[o].task \in Tasks
    <3>1. /\ Beside(save, t)[o].at = save[o].at /\ Beside(save, t)[o].task = save[o].task
          /\ Beside(save, t)[o].cron = save[o].cron /\ Beside(remove, t)[o].at = remove[o].at
          /\ Beside(remove, t)[o].task = remove[o].task
          /\ Beside(remove, t) \in [Browsers -> Requests(RemoveStage)]
      BY <1>0, BesideKeeps
    <3>2. QED
      BY <2>1, <2>2, <3>1, RequestFields
  <2>8. QED
    BY <2>6, <2>7 DEF Stages
<1>2. CASE RemoveAnswered(b)
  <2>1. remove' \in [Browsers -> Requests(RemoveStage)] /\ remove' = [remove EXCEPT ![b] = Idle]
    BY <1>0, <1>2, IdleType DEF RemoveAnswered
  <2>2. TypeOK'
    BY <1>2, <2>1, FetchType DEF RemoveAnswered, TypeOK, RemoveStage
  <2>3. Stages'
    BY <1>0, <1>2, <2>1, IdleType DEF RemoveAnswered, Stages
  <2>4. QED
    BY <2>2, <2>3
<1>3. CASE RemoveFinds(b)
  <2>1. /\ remove' \in [Browsers -> Requests(RemoveStage)]
        /\ \A o \in Browsers \ {b} : remove'[o] = remove[o]
        /\ remove'[b] = Idle \/ remove'[b].task = remove[b].task
    <3>1. CASE Exists(remove[b].task)
      <4>1. remove' = [remove EXCEPT ![b].at = "found"]
        BY <1>3, <3>1 DEF RemoveFinds
      <4>2. QED
        BY <1>0, <4>1 DEF Requests, RemoveStage
    <3>2. CASE ~Exists(remove[b].task)
      BY <1>0, <1>3, <3>2, IdleType DEF RemoveFinds
    <3>3. QED
      BY <3>1, <3>2
  <2>2. unseen' \in [Browsers -> SUBSET (Tasks \cup {NoTask})]
    BY SMTT(30), <1>0, <1>3 DEF RemoveFinds, Refused, TypeOK
  <2>3. TypeOK'
    BY <1>3, <2>1, <2>2 DEF RemoveFinds, TypeOK, RemoveStage
  <2>4. Stages'
    BY <1>0, <1>3, <2>1, IdleType DEF RemoveFinds, Stages
  <2>5. QED
    BY <2>3, <2>4
<1>4. CASE RemoveSchedule(b)
  <2>1. /\ remove' \in [Browsers -> Requests(RemoveStage)]
        /\ \A o \in Browsers \ {b} : remove'[o] = remove[o]
        /\ remove'[b].task = remove[b].task /\ remove[b].task \in Tasks
    BY <1>0, <1>4 DEF RemoveSchedule, Requests, RemoveStage
  <2>2. /\ sched' \in [Tasks -> Crons] /\ incidents' \in 0..MaxIncidents
        /\ dirty' \subseteq Tasks \cup {NoTask}
    BY <1>4, <2>1 DEF RemoveSchedule, TypeOK, Crons
  <2>3. TypeOK'
    BY <1>4, <2>1, <2>2 DEF RemoveSchedule, TypeOK, RemoveStage
  <2>4. Stages'
    BY <1>4, <2>1 DEF RemoveSchedule, Stages
  <2>5. QED
    BY <2>3, <2>4
<1>5. CASE RemoveRow(b)
  <2>1. /\ remove' \in [Browsers -> Requests(RemoveStage)]
        /\ \A o \in Browsers \ {b} : remove'[o] = remove[o]
        /\ remove'[b] = Idle \/ remove'[b].task = remove[b].task
    <3>1. CASE Exists(remove[b].task)
      <4>1. remove' = [remove EXCEPT ![b].at = "ok"]
        BY <1>5, <3>1 DEF RemoveRow
      <4>2. QED
        BY <1>0, <4>1 DEF Requests, RemoveStage
    <3>2. CASE ~Exists(remove[b].task)
      BY <1>0, <1>5, <3>2, IdleType DEF RemoveRow
    <3>3. QED
      BY <3>1, <3>2
  <2>2. unseen' \in [Browsers -> SUBSET (Tasks \cup {NoTask})]
    <3>1. remove[b].task \in Tasks
      BY <1>0, <1>5 DEF RemoveRow
    <3>2. Refused(b, remove[b].task) \/ Unknown(b, remove[b].task)
      BY <1>5 DEF RemoveRow
    <3>3. QED
      BY <3>1, <3>2, UnseenType
  <2>3. row' \in [Tasks -> Crons \cup {NoRow, Gone}]
    BY <1>0, <1>5 DEF RemoveRow, TypeOK
  <2>4. TypeOK'
    BY <1>5, <2>1, <2>2, <2>3 DEF RemoveRow, TypeOK, RemoveStage
  <2>5. Stages'
    BY <1>0, <1>5, <2>1, IdleType DEF RemoveRow, Stages
  <2>6. QED
    BY <2>4, <2>5
<1>6. CASE FailRemove(b)
  <2>1. remove' \in [Browsers -> Requests(RemoveStage)] /\ remove' = [remove EXCEPT ![b] = Idle]
    BY <1>0, <1>6, IdleType DEF FailRemove
  <2>2. /\ dirty' \subseteq Tasks \cup {NoTask}
        /\ unseen' \in [Browsers -> SUBSET (Tasks \cup {NoTask})]
        /\ incidents' \in 0..MaxIncidents
    BY <1>0, <1>6 DEF FailRemove, Refused, TypeOK
  <2>3. TypeOK'
    BY <1>6, <2>1, <2>2 DEF FailRemove, TypeOK, RemoveStage
  <2>4. Stages'
    BY <1>0, <1>6, <2>1, IdleType DEF FailRemove, Stages
  <2>5. QED
    BY <2>3, <2>4
<1>7. QED
  BY <1>1, <1>2, <1>3, <1>4, <1>5, <1>6 DEF RemoveStep

LEMMA StepType == TypeInv /\ [Next]_vars => TypeInv'
<1> SUFFICES ASSUME TypeInv, [Next]_vars PROVE TypeInv'
  OBVIOUS
<1>1. CASE Next
  BY <1>1, NextSteps, ViewType, SaveType, RemoveType
<1>2. CASE UNCHANGED vars
  <2>1. TypeOK'
    BY <1>2 DEF vars, TypeInv, TypeOK
  <2>2. Stages'
    BY <1>2 DEF vars, TypeInv, Stages
  <2>3. QED
    BY <2>1, <2>2 DEF TypeInv
<1>3. QED
  BY <1>1, <1>2

\* The rows, the schedulers, the cached lists, the dialogs and the requests keep their
\* types.  A save that reached the row names a task that has one and, before its second
\* write, a schedule to write, and a DELETE always names a task (Stages): without them the
\* writes of create, update and remove could go to no task at all.
THEOREM SchedulesTyped == Spec => []TypeOK
<1>1. Init => TypeInv
  BY InitType
<1>2. TypeInv /\ [Next]_vars => TypeInv'
  BY StepType
<1>3. TypeInv => TypeOK
  BY DEF TypeInv
<1>4. QED
  BY <1>1, <1>2, <1>3, PTL DEF Spec
------------------------------------------------------------------------------
(* The row and the scheduler of a task agree when nothing is open on it.   *)

SaveOn(b, t) == save[b].at # "idle" /\ save[b].task = t
RemoveOn(b, t) == remove[b].at # "idle" /\ remove[b].task = t

\* What is known of a task that has no row yet: nothing anywhere.
Fresh ==
    \A t \in Tasks : row[t] = NoRow =>
        /\ sched[t] = Off /\ chosen[t] = Absent /\ t \notin dirty
        /\ \A b \in Browsers :
             /\ list[b][t] = NoRow /\ fetch[b].got[t] = NoRow
             /\ dialog[b].task # t /\ save[b].task # t /\ remove[b].task # t

\* A task that is not marked has one request at most.
OneAtATime ==
    \A t \in Tasks : t \notin dirty =>
        \A b, o \in Browsers :
            /\ SaveOn(b, t) /\ SaveOn(o, t) => b = o
            /\ RemoveOn(b, t) /\ RemoveOn(o, t) => b = o
            /\ ~(SaveOn(b, t) /\ RemoveOn(o, t))

\* A save that is not marked is the only request about its task, marked or not.
Alone ==
    \A b, o \in Browsers : save[b].at # "idle" /\ save[b].alone =>
        /\ SaveOn(o, save[b].task) => o = b
        /\ ~RemoveOn(o, save[b].task)

Undisturbed(b) == save[b].alone \/ save[b].task \notin dirty

\* What such a save wrote is still there.
Saving ==
    \A b \in Browsers :
        save[b].at \in {"written", "ok"} /\ Undisturbed(b) /\ save[b].cron # Absent =>
            /\ row[save[b].task] = save[b].cron
            /\ save[b].at = "ok" => sched[save[b].task] = save[b].cron

Removing ==
    \A b \in Browsers :
        remove[b].at = "unscheduled" /\ remove[b].task \notin dirty => sched[remove[b].task] = Off

Base(t) ==
    /\ sched[t] = IF Exists(t) THEN row[t] ELSE Off
    /\ Exists(t) /\ chosen[t] \in Presets => sched[t] = chosen[t]

\* Between the two writes of a request is the only place where they may differ.
Midway(b, t) ==
    \/ SaveOn(b, t) /\ save[b].at \in {"written", "ok"} /\ save[b].cron # Absent
    \/ RemoveOn(b, t) /\ remove[b].at = "unscheduled"
Synced == \A t \in Tasks : t \notin dirty => Base(t) \/ \E b \in Browsers : Midway(b, t)

SyncInv ==
    TypeInv /\ Fresh /\ OneAtATime /\ Alone /\ Saving /\ Removing /\ Synced

LEMMA InitSync == Init => SyncInv
<1> SUFFICES ASSUME Init PROVE SyncInv
  OBVIOUS
<1>1. TypeInv
  BY InitType
<1>2. \A b \in Browsers : save[b].at = "idle" /\ remove[b].at = "idle"
                          /\ save[b].task = NoTask /\ remove[b].task = NoTask
  BY IdleType DEF Init
<1>3. Fresh
  <2>1. \A t \in Tasks : Listed[t] = NoRow
    BY DEF Init, Listed, Exists
  <2>2. \A b \in Browsers, t \in Tasks : list[b][t] = NoRow /\ fetch[b].got[t] = NoRow
    BY <2>1 DEF Init, NotFetching
  <2>3. \A b \in Browsers : dialog[b].task = NoTask
    BY DEF Init, Closed
  <2>4. QED
    BY <1>2, <2>2, <2>3 DEF Init, Fresh
<1>4. OneAtATime /\ Alone /\ Saving /\ Removing
  BY <1>2 DEF OneAtATime, Alone, Saving, Removing, SaveOn, RemoveOn
<1>5. Synced
  BY DEF Init, Synced, Base, Exists, Crons
<1>6. QED
  BY <1>1, <1>3, <1>4, <1>5 DEF SyncInv

\* Steps that leave the rows and the requests alone disturb only what the pages show.
LEMMA RequestFrame ==
    ASSUME SyncInv, UNCHANGED <<apiVars, save, remove, chosen, dirty>>
    PROVE  OneAtATime' /\ Alone' /\ Saving' /\ Removing' /\ Synced'
<1>1. OneAtATime' /\ Alone'
  BY DEF SyncInv, OneAtATime, Alone, SaveOn, RemoveOn
<1>2. Saving' /\ Removing'
  BY DEF SyncInv, Saving, Removing, Undisturbed, apiVars
<1>3. Synced'
  BY DEF SyncInv, Synced, Base, Midway, Exists, SaveOn, RemoveOn, apiVars
<1>4. QED
  BY <1>1, <1>2, <1>3

LEMMA ViewSync ==
    ASSUME SyncInv, NEW b \in Browsers, ViewStep(b)
    PROVE  SyncInv'
<1>1. UNCHANGED <<apiVars, save, remove, chosen, dirty>>
  BY DEF ViewStep, OpenCreate, Cancel, Refresh, OpenEdit, Choose, ListTasks, FetchLands,
         FailFetch, history, bounds, apiVars
<1>2. TypeInv'
  BY ViewType DEF SyncInv
<1>3. ASSUME NEW t \in Tasks, row[t] = NoRow, NEW o \in Browsers
      PROVE  list'[o][t] = NoRow /\ fetch'[o].got[t] = NoRow /\ dialog'[o].task # t
  <2>1. list[o][t] = NoRow /\ fetch[o].got[t] = NoRow /\ dialog[o].task # t
    BY <1>3 DEF SyncInv, Fresh
  <2>2. TypeOK
    BY DEF SyncInv, TypeInv
  <2> USE DEF history, bounds, apiVars
  <2>3. CASE OpenCreate(b) \/ Cancel(b)
    <3>1. /\ UNCHANGED <<list, fetch>>
          /\ \E x \in BOOLEAN : dialog' = [dialog EXCEPT ![b] = [Closed EXCEPT !.open = x]]
      BY <2>3 DEF OpenCreate, Cancel, Closed
    <3>2. dialog'[o].task = dialog[o].task \/ dialog'[o].task = NoTask
      BY <2>2, <3>1 DEF TypeOK, Closed
    <3>3. QED
      BY <2>1, <3>1, <3>2
  <2>4. CASE Refresh(b) \/ FailFetch(b)
    <3>1. /\ UNCHANGED <<list, dialog>>
          /\ \E x : fetch' = [fetch EXCEPT ![b] = [NotFetching EXCEPT !.at = x]]
      <4>1. NotFetching = [NotFetching EXCEPT !.at = "idle"]
        BY DEF NotFetching
      <4>2. QED
        BY <2>4, <4>1 DEF Refresh, FailFetch, Invalidated
    <3>2. fetch'[o].got[t] = NoRow
      BY <2>1, <2>2, <3>1 DEF TypeOK, NotFetching
    <3>3. QED
      BY <2>1, <3>1, <3>2
  <2>5. CASE \E x \in Tasks : OpenEdit(b, x)
    <3>1. PICK x \in Tasks : OpenEdit(b, x)
      BY <2>5
    <3>2. x # t
      BY <3>1, <1>3 DEF OpenEdit, SyncInv, Fresh
    <3>3. QED
      BY <2>1, <2>2, <3>1, <3>2 DEF OpenEdit, TypeOK
  <2>6. CASE \E c \in Crons : Choose(b, c)
    <3>1. PICK c \in Crons : Choose(b, c)
      BY <2>6
    <3>2. dialog'[o].task = dialog[o].task
      BY <3>1, <2>2 DEF Choose, TypeOK
    <3>3. QED
      BY <2>1, <3>1, <3>2 DEF Choose
  <2>7. CASE ListTasks(b)
    <3>1. Listed[t] = NoRow
      BY <1>3, ListedType, <2>2 DEF Exists
    <3>2. QED
      BY <2>1, <2>2, <2>7, <3>1 DEF ListTasks, TypeOK
  <2>8. CASE FetchLands(b)
    <3>1. fetch[b].got[t] = NoRow
      BY <1>3 DEF SyncInv, Fresh
    <3>2. QED
      BY <2>1, <2>2, <2>8, <3>1 DEF FetchLands, NotFetching, TypeOK
  <2>9. QED
    BY <2>3, <2>4, <2>5, <2>6, <2>7, <2>8 DEF ViewStep
<1>4. Fresh'
  BY <1>1, <1>3 DEF SyncInv, Fresh, apiVars
<1>5. QED
  BY <1>1, <1>2, <1>4, RequestFrame DEF SyncInv

\* A request that is sent marks the others about its task, and the task.
LEMMA SentSync ==
    ASSUME SyncInv, NEW b \in Browsers, NEW t \in Tasks \cup {NoTask},
           UNCHANGED <<apiVars, chosen, list, fetch, dialog>>, MarkOverlap(t), TypeInv',
           t \in Tasks => row[t] # NoRow,
           \/ /\ save[b].at = "idle"
              /\ \E c : save' = [Beside(save, t) EXCEPT ![b] = Sent(t, c)]
              /\ remove' = Beside(remove, t)
           \/ /\ remove[b].at = "idle"
              /\ \E c : remove' = [Beside(remove, t) EXCEPT ![b] = Sent(t, c)]
              /\ save' = Beside(save, t)
    PROVE  SyncInv'
<1>0. /\ save \in [Browsers -> Requests(SaveStage)]
      /\ remove \in [Browsers -> Requests(RemoveStage)]
  BY DEF SyncInv, TypeInv, TypeOK, SaveStage, RemoveStage
<1>1. ASSUME NEW o \in Browsers
      PROVE  \/ /\ save'[o].at = save[o].at /\ save'[o].task = save[o].task
                /\ save'[o].cron = save[o].cron
                /\ save'[o].alone = (save[o].alone /\ ~SaveOn(o, t))
             \/ /\ o = b /\ save[b].at = "idle" /\ save'[o].at = "sent" /\ save'[o].task = t
                /\ save'[o].alone = ~Overlaps(t)
                /\ \A x \in Browsers : remove'[x].at = remove[x].at
                                       /\ remove'[x].task = remove[x].task
  BY <1>0, BesideKeeps DEF Sent, SaveOn
<1>2. ASSUME NEW o \in Browsers
      PROVE  \/ remove'[o].at = remove[o].at /\ remove'[o].task = remove[o].task
             \/ /\ o = b /\ remove[b].at = "idle" /\ remove'[o].at = "sent"
                /\ remove'[o].task = t
                /\ \A x \in Browsers : save'[x].at = save[x].at /\ save'[x].task = save[x].task
  BY <1>0, BesideKeeps DEF Sent
<1>3. /\ dirty \subseteq dirty' /\ dirty' \subseteq dirty \cup {t}
      /\ Overlaps(t) => t \in dirty'
  BY DEF MarkOverlap
<1>4. Overlaps(t) <=> \E o \in Browsers : SaveOn(o, t) \/ RemoveOn(o, t)
  BY DEF Overlaps, Open, SaveOn, RemoveOn
<1>5. Fresh'
  <2>1. ASSUME NEW x \in Tasks, row[x] = NoRow
        PROVE  /\ x \notin dirty'
               /\ \A o \in Browsers : save'[o].task # x /\ remove'[o].task # x
    BY <1>1, <1>2, <1>3, <2>1 DEF SyncInv, Fresh
  <2>2. QED
    BY <2>1 DEF SyncInv, Fresh, apiVars
<1>6. OneAtATime'
  <2>1. SUFFICES ASSUME NEW x \in Tasks, x \notin dirty', NEW o \in Browsers, NEW p \in Browsers
        PROVE  /\ SaveOn(o, x)' /\ SaveOn(p, x)' => o = p
               /\ RemoveOn(o, x)' /\ RemoveOn(p, x)' => o = p
               /\ ~(SaveOn(o, x)' /\ RemoveOn(p, x)')
    BY DEF OneAtATime
  <2>2. /\ SaveOn(o, x) /\ SaveOn(p, x) => o = p
        /\ RemoveOn(o, x) /\ RemoveOn(p, x) => o = p
        /\ ~(SaveOn(o, x) /\ RemoveOn(p, x))
    BY <1>3, <2>1 DEF SyncInv, OneAtATime
  <2>3. CASE x # t
    BY <1>1, <1>2, <2>2, <2>3 DEF SaveOn, RemoveOn
  <2>4. CASE x = t
    <3>1. \A y \in Browsers : ~SaveOn(y, t) /\ ~RemoveOn(y, t)
      BY <1>3, <1>4, <2>1, <2>4
    <3>2. QED
      BY <1>1, <1>2, <2>4, <3>1 DEF SaveOn, RemoveOn
  <2>5. QED
    BY <2>3, <2>4
<1>7. Alone'
  <2>1. SUFFICES ASSUME NEW o \in Browsers, NEW p \in Browsers, save'[o].at # "idle",
                        save'[o].alone
        PROVE  (/\ SaveOn(p, save[o].task) => p = o
                /\ ~RemoveOn(p, save[o].task))'
    BY DEF Alone
  <2>2. CASE /\ save'[o].at = save[o].at /\ save'[o].task = save[o].task
             /\ save'[o].alone = (save[o].alone /\ ~SaveOn(o, t))
    <3>1. save[o].alone /\ save[o].task # t
      BY <2>1, <2>2 DEF SaveOn
    <3>2. /\ SaveOn(p, save[o].task) => p = o
          /\ ~RemoveOn(p, save[o].task)
      BY <2>1, <2>2, <3>1 DEF SyncInv, Alone
    <3>3. QED
      BY <1>1, <1>2, <2>2, <3>1, <3>2 DEF SaveOn, RemoveOn
  <2>3. CASE /\ o = b /\ save[b].at = "idle" /\ save'[o].task = t /\ save'[o].alone = ~Overlaps(t)
             /\ \A x \in Browsers : remove'[x].at = remove[x].at /\ remove'[x].task = remove[x].task
    <3>1. \A y \in Browsers : ~SaveOn(y, t) /\ ~RemoveOn(y, t)
      BY <1>4, <2>1, <2>3
    <3>2. QED
      BY <1>1, <2>3, <3>1 DEF SaveOn, RemoveOn
  <2>4. QED
    BY <1>1, <2>2, <2>3
<1>8. Saving'
  <2>1. SUFFICES ASSUME NEW o \in Browsers, save'[o].at \in {"written", "ok"}, Undisturbed(o)',
                        save'[o].cron # Absent
        PROVE  /\ row[save'[o].task] = save'[o].cron
               /\ save'[o].at = "ok" => sched[save'[o].task] = save'[o].cron
    BY DEF Saving, apiVars
  <2>2. /\ save'[o].at = save[o].at /\ save'[o].task = save[o].task
        /\ save'[o].cron = save[o].cron /\ save'[o].alone = (save[o].alone /\ ~SaveOn(o, t))
    BY <1>1, <2>1
  <2>3. Undisturbed(o)
    BY <1>3, <2>1, <2>2 DEF Undisturbed
  <2>4. QED
    BY <2>1, <2>2, <2>3 DEF SyncInv, Saving
<1>9. Removing'
  BY <1>2, <1>3 DEF SyncInv, Removing, apiVars
<1>10. Synced'
  <2>1. SUFFICES ASSUME NEW x \in Tasks, x \notin dirty'
        PROVE  Base(x)' \/ \E o \in Browsers : Midway(o, x)'
    BY DEF Synced
  <2>2. Base(x)' <=> Base(x)
    BY DEF Base, Exists, apiVars
  <2>3. \A o \in Browsers : Midway(o, x) => Midway(o, x)'
    <3>1. SUFFICES ASSUME NEW o \in Browsers, Midway(o, x) PROVE Midway(o, x)'
      OBVIOUS
    <3>2. CASE SaveOn(o, x) /\ save[o].at \in {"written", "ok"} /\ save[o].cron # Absent
      BY <1>1, <3>2 DEF Midway, SaveOn
    <3>3. CASE RemoveOn(o, x) /\ remove[o].at = "unscheduled"
      BY <1>2, <3>3 DEF Midway, RemoveOn
    <3>4. QED
      BY <3>1, <3>2, <3>3 DEF Midway
  <2>4. QED
    BY <1>3, <2>1, <2>2, <2>3 DEF SyncInv, Synced
<1>11. QED
  BY <1>5, <1>6, <1>7, <1>8, <1>9, <1>10 DEF SyncInv
\* No request that was not there: who was alone on a task still is.
LEMMA FewerRequests ==
    ASSUME SyncInv, dirty \subseteq dirty',
           \A o \in Browsers : save'[o].at # "idle" =>
               /\ save[o].at # "idle" /\ save'[o].task = save[o].task
               /\ save'[o].alone => save[o].alone,
           \A o \in Browsers : remove'[o].at # "idle" =>
               remove[o].at # "idle" /\ remove'[o].task = remove[o].task
    PROVE  OneAtATime' /\ Alone'
<1>1. OneAtATime'
  BY DEF SyncInv, OneAtATime, SaveOn, RemoveOn
<1>2. Alone'
  BY DEF SyncInv, Alone, SaveOn, RemoveOn
<1>3. QED
  BY <1>1, <1>2

\* What b's request does about t is nobody else's, unless t is marked.
LEMMA NobodyElse ==
    ASSUME SyncInv, NEW b \in Browsers, NEW t \in Tasks,
           SaveOn(b, t) \/ RemoveOn(b, t), NEW o \in Browsers
    PROVE  /\ SaveOn(b, t) /\ SaveOn(o, t) /\ (save[o].alone \/ t \notin dirty) => o = b
           /\ RemoveOn(b, t) /\ RemoveOn(o, t) /\ t \notin dirty => o = b
           /\ SaveOn(b, t) /\ RemoveOn(o, t) => t \in dirty
           /\ RemoveOn(b, t) /\ SaveOn(o, t) => t \in dirty /\ ~save[o].alone
<1>1. SaveOn(o, t) => save[o].task = t /\ save[o].at # "idle"
  BY DEF SaveOn
<1>2. /\ SaveOn(b, t) /\ SaveOn(o, t) /\ save[o].alone => o = b
      /\ RemoveOn(b, t) /\ SaveOn(o, t) => ~save[o].alone
  BY <1>1 DEF SyncInv, Alone
<1>3. t \notin dirty => /\ SaveOn(b, t) /\ SaveOn(o, t) => o = b
                        /\ RemoveOn(b, t) /\ RemoveOn(o, t) => o = b
                        /\ ~(SaveOn(b, t) /\ RemoveOn(o, t))
                        /\ ~(RemoveOn(b, t) /\ SaveOn(o, t))
  BY DEF SyncInv, OneAtATime
<1>4. QED
  BY <1>2, <1>3

LEMMA UpdateSync ==
    ASSUME SyncInv, NEW b \in Browsers, UpdateRow(b), TypeInv'
    PROVE  SyncInv'
<1> DEFINE t == save[b].task
           c == save[b].cron
<1> USE DEF apiVars, pageVars, bounds, history
<1>0. /\ t \in Tasks /\ c \in Crons \cup {Absent} /\ SaveOn(b, t) /\ save[b].at = "sent"
      /\ row \in [Tasks -> Crons \cup {NoRow, Gone}]
      /\ UNCHANGED <<sched, list, fetch, dialog, remove, chosen, dirty>>
  BY RequestFields DEF UpdateRow, SyncInv, TypeInv, TypeOK, SaveOn
<1>1. /\ \A o \in Browsers \ {b} : save'[o] = save[o]
      /\ \/ save'[b] = Idle /\ row' = row
         \/ /\ save'[b].task = t /\ save'[b].cron = c /\ save'[b].alone = save[b].alone
            /\ Exists(t)
            /\ \/ c = Absent /\ save'[b].at = "ok" /\ row' = row
               \/ c \in Crons /\ save'[b].at = "written" /\ row' = [row EXCEPT ![t] = c]
  <2>1. save \in [Browsers -> Requests(SaveStage)]
    BY DEF SyncInv, TypeInv, TypeOK, SaveStage
  <2>2. CASE Exists(t)
    <3>1. save' = [save EXCEPT ![b].at = IF c = Absent THEN "ok" ELSE "written"]
      BY <2>2 DEF UpdateRow
    <3>2. row' = IF c = Absent THEN row ELSE [row EXCEPT ![t] = c]
      BY <2>2 DEF UpdateRow
    <3>3. QED
      BY <1>0, <2>1, <2>2, <3>1, <3>2 DEF Requests
  <2>3. CASE ~Exists(t)
    BY <2>1, <2>3 DEF UpdateRow
  <2>4. QED
    BY <2>2, <2>3
<1>2. \A x \in Tasks : x # t => row'[x] = row[x]
  BY <1>0, <1>1
<1>3. OneAtATime' /\ Alone'
  BY <1>0, <1>1, FewerRequests, IdleType DEF SaveOn
<1>4. Fresh'
  <2>1. \A x \in Tasks : row'[x] = NoRow => row[x] = NoRow
    BY <1>0, <1>1
  <2>2. \A o \in Browsers, x \in Tasks : save[o].task # x => save'[o].task # x
    BY <1>1, IdleType
  <2>3. QED
    BY <1>0, <2>1, <2>2 DEF SyncInv, Fresh
<1>5. Saving'
  <2>1. SUFFICES ASSUME NEW o \in Browsers, save'[o].at \in {"written", "ok"}, Undisturbed(o)',
                        save'[o].cron # Absent
        PROVE  /\ row'[save'[o].task] = save'[o].cron
               /\ save'[o].at = "ok" => sched[save'[o].task] = save'[o].cron
    BY <1>0 DEF Saving
  <2>2. CASE o = b
    BY <1>0, <1>1, <2>1, <2>2, IdleType
  <2>3. CASE o # b
    <3>1. save'[o] = save[o] /\ Undisturbed(o) /\ save[o].task \in Tasks
      BY <1>0, <1>1, <2>1, <2>3, RequestFields DEF Undisturbed, SyncInv
    <3>2. save[o].task # t
      BY <1>0, <2>1, <2>3, <3>1, NobodyElse DEF SaveOn, Undisturbed
    <3>3. QED
      BY <1>2, <2>1, <3>1, <3>2 DEF SyncInv, Saving
  <2>4. QED
    BY <2>2, <2>3
<1>6. Removing'
  BY <1>0 DEF SyncInv, Removing
<1>7. Synced'
  <2>1. SUFFICES ASSUME NEW x \in Tasks, x \notin dirty
        PROVE  Base(x)' \/ \E o \in Browsers : Midway(o, x)'
    BY <1>0 DEF Synced
  <2>2. \A o \in Browsers : Midway(o, x) => Midway(o, x)'
    BY <1>0, <1>1 DEF Midway, SaveOn, RemoveOn
  <2>3. CASE x = t /\ row' # row
    <3>1. Midway(b, x)'
      BY <1>0, <1>1, <2>3 DEF Midway, SaveOn
    <3>2. QED
      BY <3>1
  <2>4. CASE x # t \/ row' = row
    <3>1. row'[x] = row[x]
      BY <1>2, <2>4
    <3>2. Base(x) => Base(x)'
      BY <1>0, <3>1 DEF Base, Exists
    <3>3. QED
      BY <2>1, <2>2, <3>2 DEF SyncInv, Synced
  <2>5. QED
    BY <2>3, <2>4
<1>8. QED
  BY <1>3, <1>4, <1>5, <1>6, <1>7 DEF SyncInv

LEMMA CreateSync ==
    ASSUME SyncInv, NEW b \in Browsers, NEW t \in Tasks, CreateRow(b, t), TypeInv'
    PROVE  SyncInv'
<1> DEFINE c == save[b].cron
<1> USE DEF apiVars, pageVars, bounds, history
<1>0. /\ c \in Crons \cup {Absent} /\ save[b].at = "sent" /\ save[b].task = NoTask
      /\ row \in [Tasks -> Crons \cup {NoRow, Gone}] /\ row[t] = NoRow
      /\ UNCHANGED <<sched, list, fetch, dialog, remove, chosen, dirty>>
  BY RequestFields DEF CreateRow, SyncInv, TypeInv, TypeOK
<1>1. /\ \A o \in Browsers \ {b} : save'[o] = save[o]
      /\ save'[b].task = t /\ save'[b].cron = c /\ save'[b].alone = save[b].alone
      /\ save'[b].at = IF c = Absent THEN "ok" ELSE "written"
      /\ row' = [row EXCEPT ![t] = IF c = Absent THEN Off ELSE c]
  <2>1. save \in [Browsers -> Requests(SaveStage)]
    BY DEF SyncInv, TypeInv, TypeOK, SaveStage
  <2>2. QED
    BY <1>0, <2>1 DEF CreateRow, Requests
<1>2. /\ sched[t] = Off /\ chosen[t] = Absent /\ t \notin dirty
      /\ \A o \in Browsers : ~SaveOn(o, t) /\ ~RemoveOn(o, t)
  BY <1>0 DEF SyncInv, Fresh, SaveOn, RemoveOn
<1>3. OneAtATime'
  <2>1. SUFFICES ASSUME NEW x \in Tasks, x \notin dirty, NEW o \in Browsers, NEW p \in Browsers
        PROVE  (/\ SaveOn(o, x) /\ SaveOn(p, x) => o = p
                /\ RemoveOn(o, x) /\ RemoveOn(p, x) => o = p
                /\ ~(SaveOn(o, x) /\ RemoveOn(p, x)))'
    BY <1>0 DEF OneAtATime
  <2>2. /\ SaveOn(o, x) /\ SaveOn(p, x) => o = p
        /\ RemoveOn(o, x) /\ RemoveOn(p, x) => o = p
        /\ ~(SaveOn(o, x) /\ RemoveOn(p, x))
    BY <2>1 DEF SyncInv, OneAtATime
  <2>3. CASE x = t
    BY <1>0, <1>1, <1>2, <2>3 DEF SaveOn, RemoveOn
  <2>4. CASE x # t
    BY <1>0, <1>1, <2>2, <2>4 DEF SaveOn, RemoveOn
  <2>5. QED
    BY <2>3, <2>4
<1>4. Alone'
  <2>1. SUFFICES ASSUME NEW o \in Browsers, NEW p \in Browsers, save'[o].at # "idle",
                        save'[o].alone
        PROVE  (/\ SaveOn(p, save[o].task) => p = o
                /\ ~RemoveOn(p, save[o].task))'
    BY DEF Alone
  <2>2. CASE o = b
    BY <1>0, <1>1, <1>2, <2>2 DEF SaveOn, RemoveOn
  <2>3. CASE o # b
    <3>1. /\ SaveOn(p, save[o].task) => p = o
          /\ ~RemoveOn(p, save[o].task)
      BY <1>1, <2>1, <2>3 DEF SyncInv, Alone
    <3>2. save[o].task # t
      BY <1>1, <1>2, <2>1, <2>3 DEF SaveOn
    <3>3. QED
      BY <1>0, <1>1, <2>3, <3>1, <3>2 DEF SaveOn, RemoveOn
  <2>4. QED
    BY <2>2, <2>3
<1>5. Fresh'
  <2>1. \A x \in Tasks : row'[x] = NoRow => row[x] = NoRow /\ x # t
    BY <1>0, <1>1, ScheduleAssumption DEF Crons
  <2>2. \A o \in Browsers, x \in Tasks : save[o].task # x /\ x # t => save'[o].task # x
    BY <1>1
  <2>3. QED
    BY <1>0, <2>1, <2>2 DEF SyncInv, Fresh
<1>6. Saving'
  <2>1. SUFFICES ASSUME NEW o \in Browsers, save'[o].at \in {"written", "ok"}, Undisturbed(o)',
                        save'[o].cron # Absent
        PROVE  /\ row'[save'[o].task] = save'[o].cron
               /\ save'[o].at = "ok" => sched[save'[o].task] = save'[o].cron
    BY <1>0 DEF Saving
  <2>2. CASE o = b
    BY <1>0, <1>1, <2>1, <2>2
  <2>3. CASE o # b
    <3>1. save'[o] = save[o] /\ Undisturbed(o) /\ save[o].task \in Tasks
      BY <1>0, <1>1, <2>1, <2>3, RequestFields DEF Undisturbed, SyncInv
    <3>2. save[o].task # t
      BY <1>2, <2>1, <3>1 DEF SaveOn
    <3>3. QED
      BY <1>0, <1>1, <2>1, <3>1, <3>2 DEF SyncInv, Saving
  <2>4. QED
    BY <2>2, <2>3
<1>7. Removing'
  BY <1>0 DEF SyncInv, Removing
<1>8. Synced'
  <2>1. SUFFICES ASSUME NEW x \in Tasks, x \notin dirty
        PROVE  Base(x)' \/ \E o \in Browsers : Midway(o, x)'
    BY <1>0 DEF Synced
  <2>2. \A o \in Browsers : Midway(o, x) => Midway(o, x)'
    BY <1>0, <1>1 DEF Midway, SaveOn, RemoveOn
  <2>3. CASE x = t /\ c = Absent
    <3>1. row'[t] = Off /\ sched'[t] = Off /\ chosen'[t] = Absent
      BY <1>0, <1>1, <1>2, <2>3
    <3>2. QED
      BY <2>3, <3>1, ScheduleAssumption DEF Base, Exists, Crons
  <2>4. CASE x = t /\ c # Absent
    BY <1>1, <2>4 DEF Midway, SaveOn
  <2>5. CASE x # t
    <3>1. row'[x] = row[x]
      BY <1>0, <1>1, <2>5
    <3>2. Base(x) => Base(x)'
      BY <1>0, <3>1 DEF Base, Exists
    <3>3. QED
      BY <2>1, <2>2, <3>2 DEF SyncInv, Synced
  <2>6. QED
    BY <2>3, <2>4, <2>5
<1>9. QED
  BY <1>3, <1>4, <1>5, <1>6, <1>7, <1>8 DEF SyncInv

LEMMA WriteSync ==
    ASSUME SyncInv, NEW b \in Browsers, WriteSchedule(b), TypeInv'
    PROVE  SyncInv'
<1> DEFINE t == save[b].task
           c == save[b].cron
<1> USE DEF apiVars, pageVars, bounds, history
<1>0. /\ t \in Tasks /\ c \in Crons /\ SaveOn(b, t) /\ save[b].at = "written"
      /\ sched \in [Tasks -> Crons] /\ sched' = [sched EXCEPT ![t] = c]
      /\ UNCHANGED <<row, list, fetch, dialog, remove, chosen, dirty>>
  BY RequestFields DEF WriteSchedule, SyncInv, TypeInv, TypeOK, SaveOn
<1>1. /\ \A o \in Browsers \ {b} : save'[o] = save[o]
      /\ save'[b].task = t /\ save'[b].cron = c /\ save'[b].alone = save[b].alone
      /\ save'[b].at = "ok"
  <2>1. save \in [Browsers -> Requests(SaveStage)]
    BY DEF SyncInv, TypeInv, TypeOK, SaveStage
  <2>2. QED
    BY <2>1 DEF WriteSchedule, Requests
<1>2. OneAtATime' /\ Alone'
  BY <1>0, <1>1, FewerRequests DEF SaveOn
<1>3. row[t] # NoRow
  BY <1>0 DEF SyncInv, Fresh
<1>4. Fresh'
  <2>1. \A o \in Browsers, x \in Tasks : save[o].task # x => save'[o].task # x
    BY <1>1
  <2>2. QED
    BY <1>0, <1>3, <2>1 DEF SyncInv, Fresh
<1>5. Saving'
  <2>1. SUFFICES ASSUME NEW o \in Browsers, save'[o].at \in {"written", "ok"}, Undisturbed(o)',
                        save'[o].cron # Absent
        PROVE  /\ row[save'[o].task] = save'[o].cron
               /\ save'[o].at = "ok" => sched'[save'[o].task] = save'[o].cron
    BY <1>0 DEF Saving
  <2>2. CASE o = b
    <3>1. Undisturbed(b)
      BY <1>0, <1>1, <2>1, <2>2 DEF Undisturbed
    <3>2. row[t] = c
      BY <1>0, <3>1, ScheduleAssumption DEF SyncInv, Saving
    <3>3. QED
      BY <1>0, <1>1, <2>2, <3>2
  <2>3. CASE o # b
    <3>1. save'[o] = save[o] /\ Undisturbed(o) /\ save[o].task \in Tasks
      BY <1>0, <1>1, <2>1, <2>3, RequestFields DEF Undisturbed, SyncInv
    <3>2. save[o].task # t
      BY <1>0, <2>1, <2>3, <3>1, NobodyElse DEF SaveOn, Undisturbed
    <3>3. QED
      BY <1>0, <2>1, <3>1, <3>2 DEF SyncInv, Saving
  <2>4. QED
    BY <2>2, <2>3
<1>6. Removing'
  <2>1. SUFFICES ASSUME NEW o \in Browsers, remove[o].at = "unscheduled", remove[o].task \notin dirty
        PROVE  sched'[remove[o].task] = Off
    BY <1>0 DEF Removing
  <2>2. RemoveOn(o, remove[o].task) /\ remove[o].task \in Tasks
    BY <2>1, RequestFields DEF RemoveOn, SyncInv
  <2>3. remove[o].task # t
    BY <1>0, <2>1, <2>2, NobodyElse
  <2>4. QED
    BY <1>0, <2>1, <2>2, <2>3 DEF SyncInv, Removing
<1>7. Synced'
  <2>1. SUFFICES ASSUME NEW x \in Tasks, x \notin dirty
        PROVE  Base(x)' \/ \E o \in Browsers : Midway(o, x)'
    BY <1>0 DEF Synced
  <2>2. \A o \in Browsers : Midway(o, x) => Midway(o, x)'
    BY <1>0, <1>1 DEF Midway, SaveOn, RemoveOn
  <2>3. CASE x = t
    BY <1>0, <1>1, <2>3, ScheduleAssumption DEF Midway, SaveOn
  <2>4. CASE x # t
    <3>1. Base(x) => Base(x)'
      BY <1>0, <2>4 DEF Base, Exists
    <3>2. QED
      BY <2>1, <2>2, <3>1 DEF SyncInv, Synced
  <2>5. QED
    BY <2>3, <2>4
<1>8. QED
  BY <1>2, <1>4, <1>5, <1>6, <1>7 DEF SyncInv
LEMMA SavedSync ==
    ASSUME SyncInv, NEW b \in Browsers, SaveAnswered(b), TypeInv'
    PROVE  SyncInv'
<1> DEFINE c == save[b].cron
<1> USE DEF apiVars, pageVars, bounds, history
<1>0. PICK t \in Tasks : t = save[b].task
  BY RequestFields DEF SaveAnswered, SyncInv
<1>1. /\ c \in Crons \cup {Absent} /\ SaveOn(b, t) /\ save[b].at = "ok"
      /\ UNCHANGED <<row, sched, list, remove>>
      /\ chosen' = [chosen EXCEPT ![t] = IF c = Absent THEN Off ELSE c]
      /\ chosen \in [Tasks -> Crons \cup {Absent}]
      /\ dirty' = IF save[b].alone /\ c # Absent THEN dirty \ {t} ELSE dirty
  BY <1>0, RequestFields DEF SaveAnswered, SyncInv, TypeInv, TypeOK, SaveOn
<1>2. /\ \A o \in Browsers \ {b} : save'[o] = save[o]
      /\ save'[b].at = "idle" /\ save'[b].task = NoTask
  BY IdleType DEF SaveAnswered, SyncInv, TypeInv, TypeOK
<1>3. row[t] # NoRow
  BY <1>0 DEF SyncInv, Fresh
<1>4. save[b].alone => \A o \in Browsers : (SaveOn(o, t) => o = b) /\ ~RemoveOn(o, t)
  BY <1>0, <1>1 DEF SyncInv, Alone
<1>5. OneAtATime'
  <2>1. SUFFICES ASSUME NEW x \in Tasks, x \notin dirty', NEW o \in Browsers, NEW p \in Browsers
        PROVE  (/\ SaveOn(o, x) /\ SaveOn(p, x) => o = p
                /\ RemoveOn(o, x) /\ RemoveOn(p, x) => o = p
                /\ ~(SaveOn(o, x) /\ RemoveOn(p, x)))'
    BY DEF OneAtATime
  <2>2. /\ SaveOn(o, x)' => SaveOn(o, x) /\ o # b
        /\ SaveOn(p, x)' => SaveOn(p, x) /\ p # b
        /\ RemoveOn(o, x)' <=> RemoveOn(o, x)
        /\ RemoveOn(p, x)' <=> RemoveOn(p, x)
    BY <1>1, <1>2 DEF SaveOn, RemoveOn
  <2>3. CASE x = t /\ save[b].alone
    BY <1>4, <2>2, <2>3
  <2>4. CASE x \notin dirty
    <3>1. /\ SaveOn(o, x) /\ SaveOn(p, x) => o = p
          /\ RemoveOn(o, x) /\ RemoveOn(p, x) => o = p
          /\ ~(SaveOn(o, x) /\ RemoveOn(p, x))
      BY <2>4 DEF SyncInv, OneAtATime
    <3>2. QED
      BY <2>2, <3>1
  <2>5. QED
    BY <1>1, <2>1, <2>3, <2>4
<1>6. Alone'
  BY <1>1, <1>2 DEF SyncInv, Alone, SaveOn, RemoveOn
<1>7. Fresh'
  <2>1. ASSUME NEW o \in Browsers, NEW x \in Tasks, row[x] = NoRow
        PROVE  /\ save'[o].task # x /\ remove'[o].task # x /\ list'[o][x] = NoRow
               /\ dialog'[o].task # x /\ fetch'[o].got[x] = NoRow
    <3>1. /\ save[o].task # x /\ remove[o].task # x /\ list[o][x] = NoRow
          /\ dialog[o].task # x /\ fetch[o].got[x] = NoRow
      BY <2>1 DEF SyncInv, Fresh
    <3>2. dialog' = [dialog EXCEPT ![b] = Closed] /\ dialog'[o].task # x
      BY <3>1 DEF SaveAnswered, Closed, SyncInv, TypeInv, TypeOK
    <3>3. fetch' = Invalidated(b) /\ fetch'[o].got[x] = NoRow
      BY <3>1 DEF SaveAnswered, Invalidated, NotFetching, SyncInv, TypeInv, TypeOK
    <3>4. QED
      BY <1>1, <1>2, <3>1, <3>2, <3>3
  <2>2. ASSUME NEW x \in Tasks, row[x] = NoRow
        PROVE  sched'[x] = Off /\ chosen'[x] = Absent /\ x \notin dirty'
    <3>1. sched[x] = Off /\ chosen[x] = Absent /\ x \notin dirty /\ x # t
      BY <1>3, <2>2 DEF SyncInv, Fresh
    <3>2. QED
      BY <1>1, <3>1
  <2>3. QED
    BY <1>1, <2>1, <2>2 DEF Fresh
<1>8. Saving'
  <2>1. SUFFICES ASSUME NEW o \in Browsers, save'[o].at \in {"written", "ok"}, Undisturbed(o)',
                        save'[o].cron # Absent
        PROVE  /\ row[save'[o].task] = save'[o].cron
               /\ save'[o].at = "ok" => sched[save'[o].task] = save'[o].cron
    BY <1>1 DEF Saving
  <2>2. o # b /\ save'[o] = save[o]
    BY <1>2, <2>1
  <2>3. Undisturbed(o)
    <3>1. CASE save[b].alone
      <4>1. save[o].task # t
        BY <1>4, <2>1, <2>2, <3>1 DEF SaveOn
      <4>2. QED
        BY <1>1, <2>1, <2>2, <4>1 DEF Undisturbed
    <3>2. CASE ~save[b].alone
      BY <1>1, <2>1, <2>2, <3>2 DEF Undisturbed
    <3>3. QED
      BY <3>1, <3>2
  <2>4. QED
    BY <2>1, <2>2, <2>3 DEF SyncInv, Saving
<1>9. Removing'
  <2>1. SUFFICES ASSUME NEW o \in Browsers, remove[o].at = "unscheduled", remove[o].task \notin dirty'
        PROVE  sched[remove[o].task] = Off
    BY <1>1 DEF Removing
  <2>2. remove[o].task \notin dirty
    BY <1>1, <1>4, <2>1 DEF RemoveOn
  <2>3. QED
    BY <2>1, <2>2 DEF SyncInv, Removing
<1>10. Synced'
  <2>1. SUFFICES ASSUME NEW x \in Tasks, x \notin dirty'
        PROVE  Base(x)' \/ \E o \in Browsers : Midway(o, x)'
    BY DEF Synced
  <2>2. \A o \in Browsers : o # b /\ Midway(o, x) => Midway(o, x)'
    BY <1>1, <1>2 DEF Midway, SaveOn, RemoveOn
  <2>3. CASE x # t
    <3>1. x \notin dirty
      BY <1>1, <2>1, <2>3
    <3>2. Base(x) => Base(x)'
      BY <1>1, <2>3 DEF Base, Exists
    <3>3. Midway(b, x) => Midway(b, x)'
      BY <1>1, <2>3 DEF Midway, SaveOn, RemoveOn
    <3>4. QED
      BY <2>2, <3>1, <3>2, <3>3 DEF SyncInv, Synced
  <2>4. CASE x = t /\ c # Absent
    <3>1. Undisturbed(b)
      BY <1>0, <1>1, <2>1, <2>4 DEF Undisturbed
    <3>2. row[t] = c /\ sched[t] = c
      BY <1>0, <1>1, <2>4, <3>1 DEF SyncInv, Saving
    <3>3. chosen'[t] = c /\ c \in Crons
      BY <1>1, <2>4
    <3>4. QED
      BY <1>1, <2>4, <3>2, <3>3 DEF Base, Exists
  <2>5. CASE x = t /\ c = Absent
    <3>1. t \notin dirty
      BY <1>1, <2>1, <2>5
    <3>2. ASSUME NEW o \in Browsers, Midway(o, t) PROVE FALSE
      <4>1. CASE o = b
        BY <1>0, <1>1, <2>5, <3>1, <3>2, <4>1 DEF Midway, SyncInv, OneAtATime
      <4>2. CASE o # b
        BY <1>1, <3>1, <3>2, <4>2 DEF Midway, SyncInv, OneAtATime
      <4>3. QED
        BY <4>1, <4>2
    <3>3. Base(t)
      BY <3>1, <3>2 DEF SyncInv, Synced
    <3>4. chosen'[t] = Off
      BY <1>1, <2>5
    <3>5. QED
      BY <1>1, <2>5, <3>3, <3>4, ScheduleAssumption DEF Base, Exists
  <2>6. QED
    BY <1>1, <2>3, <2>4, <2>5
<1>11. QED
  BY <1>5, <1>6, <1>7, <1>8, <1>9, <1>10 DEF SyncInv

LEMMA FailSaveSync ==
    ASSUME SyncInv, NEW b \in Browsers, FailSave(b), TypeInv'
    PROVE  SyncInv'
<1> USE DEF apiVars, pageVars, bounds, history
<1>0. /\ save[b].at # "idle"
      /\ UNCHANGED <<row, sched, list, fetch, dialog, remove, chosen>>
      /\ dirty' = IF save[b].at = "sent" THEN dirty ELSE dirty \cup {save[b].task}
  BY DEF FailSave
<1>1. /\ \A o \in Browsers \ {b} : save'[o] = save[o]
      /\ save'[b].at = "idle" /\ save'[b].task = NoTask
  BY IdleType DEF FailSave, SyncInv, TypeInv, TypeOK
<1>2. OneAtATime' /\ Alone'
  BY <1>0, <1>1, FewerRequests
<1>3. Fresh'
  <2>1. \A o \in Browsers, x \in Tasks : save[o].task # x => save'[o].task # x
    BY <1>1
  <2>2. QED
    BY <1>0, <2>1 DEF SyncInv, Fresh
<1>4. Saving'
  BY <1>0, <1>1 DEF SyncInv, Saving, Undisturbed
<1>5. Removing'
  BY <1>0 DEF SyncInv, Removing
<1>6. Synced'
  <2>1. SUFFICES ASSUME NEW x \in Tasks, x \notin dirty'
        PROVE  Base(x)' \/ \E o \in Browsers : Midway(o, x)'
    BY DEF Synced
  <2>2. \A o \in Browsers : Midway(o, x) => Midway(o, x)'
    BY <1>0, <1>1, <2>1 DEF Midway, SaveOn, RemoveOn
  <2>3. Base(x) => Base(x)'
    BY <1>0 DEF Base, Exists
  <2>4. QED
    BY <1>0, <2>1, <2>2, <2>3 DEF SyncInv, Synced
<1>7. QED
  BY <1>2, <1>3, <1>4, <1>5, <1>6 DEF SyncInv

\* The steps of a DELETE that change neither row nor scheduler.
LEMMA QuietRemoveSync ==
    ASSUME SyncInv, NEW b \in Browsers, TypeInv',
           RemoveAnswered(b) \/ RemoveFinds(b) \/ FailRemove(b)
    PROVE  SyncInv'
<1> USE DEF apiVars, pageVars, bounds, history
<1>0. /\ UNCHANGED <<row, sched, list, dialog, save, chosen>>
      /\ dirty' = IF remove[b].at = "unscheduled" THEN dirty \cup {remove[b].task} ELSE dirty
      /\ remove[b].at # "idle"
  BY DEF RemoveAnswered, RemoveFinds, FailRemove
<1>1. /\ \A o \in Browsers \ {b} : remove'[o] = remove[o]
      /\ \/ remove'[b].at = "idle" /\ remove'[b].task = NoTask
         \/ remove'[b].at = "found" /\ remove'[b].task = remove[b].task
  <2>1. remove \in [Browsers -> Requests(RemoveStage)]
    BY DEF SyncInv, TypeInv, TypeOK, RemoveStage
  <2>2. remove' = [remove EXCEPT ![b] = Idle] \/ remove' = [remove EXCEPT ![b].at = "found"]
    BY DEF RemoveAnswered, RemoveFinds, FailRemove
  <2>3. QED
    BY <2>1, <2>2, IdleType DEF Requests
<1>2. OneAtATime' /\ Alone'
  BY <1>0, <1>1, FewerRequests
<1>3. Fresh'
  <2>1. \A o \in Browsers, x \in Tasks : remove[o].task # x => remove'[o].task # x
    BY <1>1
  <2>2. \A o \in Browsers, x \in Tasks : fetch[o].got[x] = NoRow => fetch'[o].got[x] = NoRow
    <3>1. fetch' = fetch \/ fetch' = Invalidated(b)
      BY DEF RemoveAnswered, RemoveFinds, FailRemove
    <3>2. fetch \in [Browsers -> [at : {"idle", "asked", "served"},
                                 got : [Tasks -> Crons \cup {NoRow}]]]
      BY DEF SyncInv, TypeInv, TypeOK
    <3>3. \A o \in Browsers : fetch'[o] = fetch[o] \/ fetch'[o].got = [x \in Tasks |-> NoRow]
      BY <3>1, <3>2 DEF Invalidated, NotFetching
    <3>4. QED
      BY <3>3
  <2>3. QED
    BY <1>0, <2>1, <2>2 DEF SyncInv, Fresh
<1>4. Saving'
  BY <1>0 DEF SyncInv, Saving, Undisturbed
<1>5. Removing'
  BY <1>0, <1>1 DEF SyncInv, Removing
<1>6. Synced'
  <2>1. SUFFICES ASSUME NEW x \in Tasks, x \notin dirty'
        PROVE  Base(x)' \/ \E o \in Browsers : Midway(o, x)'
    BY DEF Synced
  <2>2. \A o \in Browsers : Midway(o, x) => Midway(o, x)'
    BY <1>0, <1>1, <2>1 DEF Midway, SaveOn, RemoveOn
  <2>3. Base(x) => Base(x)'
    BY <1>0 DEF Base, Exists
  <2>4. QED
    BY <1>0, <2>1, <2>2, <2>3 DEF SyncInv, Synced
<1>7. QED
  BY <1>2, <1>3, <1>4, <1>5, <1>6 DEF SyncInv

LEMMA UnscheduleSync ==
    ASSUME SyncInv, NEW b \in Browsers, RemoveSchedule(b), TypeInv'
    PROVE  SyncInv'
<1> USE DEF apiVars, pageVars, bounds, history
<1>0. PICK t \in Tasks : t = remove[b].task
  BY RequestFields DEF RemoveSchedule, SyncInv
<1>1. /\ remove[b].at = "found" /\ RemoveOn(b, t)
      /\ UNCHANGED <<row, list, fetch, dialog, save, chosen>>
      /\ \/ sched' = [sched EXCEPT ![t] = Off] /\ dirty' = dirty
         \/ sched' = sched /\ dirty' = dirty \cup {t}
      /\ sched \in [Tasks -> Crons]
  BY <1>0 DEF RemoveSchedule, RemoveOn, SyncInv, TypeInv, TypeOK
<1>2. /\ \A o \in Browsers \ {b} : remove'[o] = remove[o]
      /\ remove'[b].at = "unscheduled" /\ remove'[b].task = t
  BY <1>0 DEF RemoveSchedule, SyncInv, TypeInv, TypeOK, Requests
<1>3. OneAtATime' /\ Alone'
  BY <1>0, <1>1, <1>2, FewerRequests
<1>4. row[t] # NoRow
  BY <1>0 DEF SyncInv, Fresh
<1>5. Fresh'
  <2>1. \A o \in Browsers, x \in Tasks : remove[o].task # x => remove'[o].task # x
    BY <1>0, <1>2
  <2>2. QED
    BY <1>1, <1>4, <2>1 DEF SyncInv, Fresh
<1>6. Saving'
  <2>1. SUFFICES ASSUME NEW o \in Browsers, save[o].at \in {"written", "ok"}, Undisturbed(o)',
                        save[o].cron # Absent
        PROVE  /\ row[save[o].task] = save[o].cron
               /\ save[o].at = "ok" => sched'[save[o].task] = save[o].cron
    BY <1>1 DEF Saving
  <2>2. Undisturbed(o)
    BY <1>1, <2>1 DEF Undisturbed
  <2>3. save[o].task # t \/ sched' = sched
    <3>1. save[o].task = t /\ sched' # sched => SaveOn(o, t) /\ (save[o].alone \/ t \notin dirty)
      BY <2>1, <2>2 DEF SaveOn, Undisturbed
    <3>2. QED
      BY <1>1, <3>1, NobodyElse
  <2>4. QED
    BY <1>1, <2>1, <2>2, <2>3, RequestFields DEF SyncInv, Saving
<1>7. Removing'
  <2>1. SUFFICES ASSUME NEW o \in Browsers, remove'[o].at = "unscheduled",
                        remove'[o].task \notin dirty'
        PROVE  sched'[remove'[o].task] = Off
    BY DEF Removing
  <2>2. CASE o = b
    BY <1>1, <1>2, <2>1, <2>2
  <2>3. CASE o # b
    <3>1. remove'[o] = remove[o] /\ remove[o].task \in Tasks /\ remove[o].task \notin dirty
      BY <1>1, <1>2, <2>1, <2>3, RequestFields DEF SyncInv
    <3>2. sched[remove[o].task] = Off
      BY <2>1, <3>1 DEF SyncInv, Removing
    <3>3. QED
      BY <1>1, <3>1, <3>2
  <2>4. QED
    BY <2>2, <2>3
<1>8. Synced'
  <2>1. SUFFICES ASSUME NEW x \in Tasks, x \notin dirty'
        PROVE  Base(x)' \/ \E o \in Browsers : Midway(o, x)'
    BY DEF Synced
  <2>2. \A o \in Browsers : Midway(o, x) => Midway(o, x)'
    BY <1>1, <1>2 DEF Midway, SaveOn, RemoveOn
  <2>3. CASE x = t
    BY <1>2, <2>3 DEF Midway, RemoveOn
  <2>4. CASE x # t
    <3>1. Base(x) => Base(x)'
      BY <1>1, <2>4 DEF Base, Exists
    <3>2. QED
      BY <1>1, <2>1, <2>2, <3>1 DEF SyncInv, Synced
  <2>5. QED
    BY <2>3, <2>4
<1>9. QED
  BY <1>3, <1>5, <1>6, <1>7, <1>8 DEF SyncInv

LEMMA DropSync ==
    ASSUME SyncInv, NEW b \in Browsers, RemoveRow(b), TypeInv'
    PROVE  SyncInv'
<1> USE DEF apiVars, pageVars, bounds, history
<1>0. PICK t \in Tasks : t = remove[b].task
  BY RequestFields DEF RemoveRow, SyncInv
<1>1. /\ remove[b].at = "unscheduled" /\ RemoveOn(b, t)
      /\ UNCHANGED <<sched, list, fetch, dialog, save, chosen, dirty>>
      /\ row \in [Tasks -> Crons \cup {NoRow, Gone}]
  BY <1>0 DEF RemoveRow, RemoveOn, SyncInv, TypeInv, TypeOK
<1>2. /\ \A o \in Browsers \ {b} : remove'[o] = remove[o]
      /\ \/ /\ remove'[b].at = "idle" /\ remove'[b].task = NoTask
            /\ row' = row /\ ~Exists(t)
         \/ /\ remove'[b].at = "ok" /\ remove'[b].task = t
            /\ row' = [row EXCEPT ![t] = Gone]
  <2>1. remove \in [Browsers -> Requests(RemoveStage)]
    BY DEF SyncInv, TypeInv, TypeOK, RemoveStage
  <2>2. CASE Exists(t)
    <3>1. remove' = [remove EXCEPT ![b].at = "ok"] /\ row' = [row EXCEPT ![t] = Gone]
      BY <1>0, <2>2 DEF RemoveRow
    <3>2. QED
      BY <1>0, <2>1, <3>1 DEF Requests
  <2>3. CASE ~Exists(t)
    BY <1>0, <2>1, <2>3, IdleType DEF RemoveRow
  <2>4. QED
    BY <2>2, <2>3
<1>3. OneAtATime' /\ Alone'
  BY <1>0, <1>1, <1>2, FewerRequests
<1>4. row[t] # NoRow /\ ~Exists(t)'
  <2>1. row[t] # NoRow
    BY <1>0 DEF SyncInv, Fresh
  <2>2. row'[t] \notin Crons
    BY <1>1, <1>2, ScheduleAssumption DEF Exists
  <2>3. QED
    BY <2>1, <2>2 DEF Exists
<1>5. Fresh'
  <2>1. \A o \in Browsers, x \in Tasks : remove[o].task # x => remove'[o].task # x
    BY <1>0, <1>2
  <2>2. \A x \in Tasks : row'[x] = NoRow => row[x] = NoRow
    BY <1>1, <1>2, ScheduleAssumption
  <2>3. QED
    BY <1>1, <2>1, <2>2 DEF SyncInv, Fresh
<1>6. Saving'
  <2>1. SUFFICES ASSUME NEW o \in Browsers, save[o].at \in {"written", "ok"}, Undisturbed(o),
                        save[o].cron # Absent
        PROVE  /\ row'[save[o].task] = save[o].cron
               /\ save[o].at = "ok" => sched[save[o].task] = save[o].cron
    BY <1>1 DEF Saving, Undisturbed
  <2>2. save[o].task # t
    <3>1. save[o].task = t => SaveOn(o, t) /\ (save[o].alone \/ t \notin dirty)
      BY <2>1 DEF SaveOn, Undisturbed
    <3>2. QED
      BY <1>1, <3>1, NobodyElse
  <2>3. row'[save[o].task] = row[save[o].task]
    <3>1. save[o].task \in Tasks
      BY <2>1, RequestFields DEF SyncInv
    <3>2. QED
      BY <1>1, <1>2, <2>2, <3>1
  <2>4. QED
    BY <2>1, <2>3 DEF SyncInv, Saving
<1>7. Removing'
  BY <1>1, <1>2 DEF SyncInv, Removing
<1>8. Synced'
  <2>1. SUFFICES ASSUME NEW x \in Tasks, x \notin dirty
        PROVE  Base(x)' \/ \E o \in Browsers : Midway(o, x)'
    BY <1>1 DEF Synced
  <2>2. CASE x = t
    <3>1. sched[t] = Off
      BY <1>0, <1>1, <2>1, <2>2 DEF SyncInv, Removing
    <3>2. QED
      BY <1>1, <1>4, <2>2, <3>1 DEF Base
  <2>3. CASE x # t
    <3>1. \A o \in Browsers : Midway(o, x) => Midway(o, x)'
      BY <1>0, <1>1, <1>2, <2>3 DEF Midway, SaveOn, RemoveOn
    <3>2. row'[x] = row[x]
      BY <1>1, <1>2, <2>3
    <3>3. Base(x) => Base(x)'
      BY <1>1, <3>2 DEF Base, Exists
    <3>4. QED
      BY <2>1, <3>1, <3>3 DEF SyncInv, Synced
  <2>4. QED
    BY <2>2, <2>3
<1>9. QED
  BY <1>3, <1>5, <1>6, <1>7, <1>8 DEF SyncInv

LEMMA SendsSync ==
    ASSUME SyncInv, NEW b \in Browsers, Send(b) \/ \E t \in Tasks : ClickDelete(b, t), TypeInv'
    PROVE  SyncInv'
<1> USE DEF apiVars, pageVars, bounds, history
<1>1. CASE Send(b)
  <2> DEFINE t == dialog[b].task
  <2>1. t \in Tasks \cup {NoTask}
    BY DEF SyncInv, TypeInv, TypeOK
  <2>2. t \in Tasks => row[t] # NoRow
    BY DEF SyncInv, Fresh
  <2>3. /\ save[b].at = "idle" /\ MarkOverlap(t) /\ remove' = Beside(remove, t)
        /\ \E c : save' = [Beside(save, t) EXCEPT ![b] = Sent(t, c)]
        /\ UNCHANGED <<apiVars, chosen, list, fetch, dialog>>
    BY <1>1 DEF Send
  <2>4. QED
    BY <2>1, <2>2, <2>3, SentSync
<1>2. CASE \E t \in Tasks : ClickDelete(b, t)
  <2>1. PICK t \in Tasks : ClickDelete(b, t)
    BY <1>2
  <2>2. row[t] # NoRow
    BY <2>1 DEF ClickDelete, SyncInv, Fresh
  <2>3. /\ remove[b].at = "idle" /\ MarkOverlap(t) /\ save' = Beside(save, t)
        /\ \E c : remove' = [Beside(remove, t) EXCEPT ![b] = Sent(t, c)]
        /\ UNCHANGED <<apiVars, chosen, list, fetch, dialog>>
    BY <2>1 DEF ClickDelete
  <2>4. QED
    BY <2>2, <2>3, SentSync
<1>3. QED
  BY <1>1, <1>2

LEMMA StepSync == SyncInv /\ [Next]_vars => SyncInv'
<1> SUFFICES ASSUME SyncInv, [Next]_vars PROVE SyncInv'
  OBVIOUS
<1>0. TypeInv'
  BY StepType DEF SyncInv
<1>1. ASSUME NEW b \in Browsers, SaveStep(b) PROVE SyncInv'
  BY <1>0, <1>1, SendsSync, SavedSync, CreateSync, UpdateSync, WriteSync, FailSaveSync DEF SaveStep
<1>2. ASSUME NEW b \in Browsers, RemoveStep(b) PROVE SyncInv'
  BY <1>0, <1>2, SendsSync, QuietRemoveSync, UnscheduleSync, DropSync DEF RemoveStep
<1>3. CASE UNCHANGED vars
  <2>1. Fresh'
    BY <1>3 DEF vars, SyncInv, Fresh
  <2>2. UNCHANGED <<apiVars, save, remove, chosen, dirty>>
    BY <1>3 DEF vars, apiVars
  <2>3. QED
    BY <1>0, <2>1, <2>2, RequestFrame DEF SyncInv
<1>4. QED
  BY <1>1, <1>2, <1>3, NextSteps, ViewSync

\* The scheduler of a task that nothing is open on, and no overlap or half-done request has
\* marked, has the cron of its row: none if it is deleted or never existed, and the preset
\* of the last save that was answered if that was one.  Nothing in the API reconciles the
\* two places, so each of create, update and remove has to leave them equal.  The
\* inductive invariant says where they may differ, between the two writes of one request
\* (Synced), and that what such a request wrote first is still there when it writes next
\* (Saving, Removing), because it is alone on its task (OneAtATime, Alone).
THEOREM ScheduleFollowsRow == Spec => []InSync
<1>1. Init => SyncInv
  BY InitSync
<1>2. SyncInv /\ [Next]_vars => SyncInv'
  BY StepSync
<1>3. SyncInv => InSync
  BY DEF SyncInv, Synced, InSync, Settled, Open, Midway, Base, SaveOn, RemoveOn
<1>4. QED
  BY <1>1, <1>2, <1>3, PTL DEF Spec
------------------------------------------------------------------------------
(* A browser that waits for nothing shows what it can know.                *)

\* Its own write that is not answered yet, a read to come, or one that saw the row as it is.
Knows(b, t) ==
    \/ save[b].at \in {"written", "ok"} /\ save[b].task = t
    \/ remove[b].at = "ok" /\ remove[b].task = t
    \/ fetch[b].at = "asked"
    \/ fetch[b].at = "served" /\ fetch[b].got[t] = Listed[t]
    \/ fetch[b].at = "idle" /\ list[b][t] = Listed[t]
Known == \A b \in Browsers : \A t \in Tasks \ unseen[b] : Knows(b, t)

ListInv == TypeInv /\ Known

LEMMA InitKnown == Init => ListInv
<1> SUFFICES ASSUME Init PROVE ListInv
  OBVIOUS
<1>1. \A b \in Browsers, t \in Tasks : fetch[b].at = "idle" /\ list[b][t] = Listed[t]
  BY DEF Init, NotFetching
<1>2. Known
  BY <1>1 DEF Known, Knows
<1>3. QED
  BY <1>2, InitType DEF ListInv

\* What b's step leaves to prove: it forgets no write of b that is not answered, and what
\* it changes in a row, the others are marked for.
LEMMA KnowsFrame ==
    ASSUME ListInv, NEW o \in Browsers, NEW t \in Tasks, t \notin unseen[o],
           row'[t] = row[t], row' \in [Tasks -> Crons \cup {NoRow, Gone}],
           fetch'[o] = fetch[o], list'[o] = list[o],
           save[o].at \in {"written", "ok"} /\ save[o].task = t =>
               save'[o].at \in {"written", "ok"} /\ save'[o].task = t,
           remove[o].at = "ok" /\ remove[o].task = t => remove'[o] = remove[o]
    PROVE  Knows(o, t)'
<1>1. Listed'[t] = Listed[t]
  BY DEF Listed, Exists
<1>2. Knows(o, t)
  BY DEF ListInv, Known
<1>3. QED
  BY <1>1, <1>2 DEF Knows

LEMMA ViewKnown ==
    ASSUME ListInv, NEW b \in Browsers, ViewStep(b)
    PROVE  Known'
<1> USE DEF apiVars, pageVars, bounds, history
<1>0. UNCHANGED <<row, save, remove>>
  BY DEF ViewStep, OpenCreate, Cancel, Refresh, OpenEdit, Choose, ListTasks, FetchLands, FailFetch
<1>1. TypeOK /\ row \in [Tasks -> Crons \cup {NoRow, Gone}]
  BY DEF ListInv, TypeInv, TypeOK
<1>2. SUFFICES ASSUME NEW o \in Browsers, NEW t \in Tasks, t \notin unseen'[o]
      PROVE  Knows(o, t)'
  BY DEF Known
<1>3. Listed'[t] = Listed[t]
  BY <1>0 DEF Listed, Exists
<1>4. CASE OpenCreate(b) \/ Cancel(b) \/ (\E x \in Tasks : OpenEdit(b, x))
           \/ \E c \in Crons : Choose(b, c)
  <2>1. UNCHANGED <<list, fetch, unseen>>
    BY <1>4 DEF OpenCreate, Cancel, OpenEdit, Choose
  <2>2. QED
    BY <1>0, <1>1, <1>2, <2>1, KnowsFrame
<1>5. CASE Refresh(b)
  <2>1. CASE o = b
    BY <1>1, <1>5, <2>1 DEF Refresh, Invalidated, Knows, TypeOK
  <2>2. CASE o # b
    BY <1>0, <1>1, <1>2, <1>5, <2>2, KnowsFrame DEF Refresh, Invalidated, TypeOK
  <2>3. QED
    BY <2>1, <2>2
<1>6. CASE ListTasks(b)
  <2>1. CASE o = b
    BY <1>1, <1>3, <1>6, <2>1 DEF ListTasks, Knows, TypeOK
  <2>2. CASE o # b
    BY <1>0, <1>1, <1>2, <1>6, <2>2, KnowsFrame DEF ListTasks, TypeOK
  <2>3. QED
    BY <2>1, <2>2
<1>7. CASE FetchLands(b)
  <2>0. UNCHANGED unseen
    BY <1>7 DEF FetchLands
  <2>1. CASE o = b
    <3>1. Knows(o, t) /\ fetch[o].at = "served"
      BY <1>2, <1>7, <2>0, <2>1 DEF ListInv, Known, FetchLands
    <3>2. list'[o] = fetch[o].got /\ fetch'[o].at = "idle"
      BY <1>1, <1>7, <2>1 DEF FetchLands, NotFetching, TypeOK
    <3>3. QED
      BY <1>0, <1>3, <3>1, <3>2 DEF Knows
  <2>2. CASE o # b
    BY <1>0, <1>1, <1>2, <1>7, <2>0, <2>2, KnowsFrame DEF FetchLands, TypeOK
  <2>3. QED
    BY <2>1, <2>2
<1>8. CASE FailFetch(b)
  <2>1. o # b
    BY <1>1, <1>2, <1>8 DEF FailFetch, TypeOK
  <2>2. QED
    BY <1>0, <1>1, <1>2, <1>8, <2>1, KnowsFrame DEF FailFetch, TypeOK
<1>9. QED
  BY <1>4, <1>5, <1>6, <1>7, <1>8 DEF ViewStep

\* Steps of a request that write no row.
LEMMA RequestKnown ==
    ASSUME ListInv, NEW b \in Browsers,
           \/ Send(b) \/ SaveAnswered(b) \/ WriteSchedule(b) \/ FailSave(b)
           \/ (\E t \in Tasks : ClickDelete(b, t))
           \/ RemoveAnswered(b) \/ RemoveFinds(b) \/ RemoveSchedule(b) \/ FailRemove(b)
    PROVE  Known'
<1> USE DEF apiVars, pageVars, bounds, history
<1>0. /\ save \in [Browsers -> Requests(SaveStage)]
      /\ remove \in [Browsers -> Requests(RemoveStage)]
      /\ row \in [Tasks -> Crons \cup {NoRow, Gone}]
      /\ unseen \in [Browsers -> SUBSET (Tasks \cup {NoTask})]
      /\ fetch \in [Browsers -> [at : {"idle", "asked", "served"}, got : [Tasks -> Crons \cup {NoRow}]]]
  BY DEF ListInv, TypeInv, TypeOK, SaveStage, RemoveStage
<1>1. UNCHANGED <<row, list>>
  BY DEF Send, SaveAnswered, WriteSchedule, FailSave, ClickDelete, RemoveAnswered,
         RemoveFinds, RemoveSchedule, FailRemove
<1>2. SUFFICES ASSUME NEW o \in Browsers, NEW t \in Tasks, t \notin unseen'[o]
      PROVE  Knows(o, t)'
  BY DEF Known
<1>3. CASE Send(b) \/ \E x \in Tasks : ClickDelete(b, x)
  <2>1. UNCHANGED <<fetch, unseen>>
    BY <1>3 DEF Send, ClickDelete
  <2>2. Knows(o, t)
    BY <1>2, <2>1 DEF ListInv, Known
  <2>3. /\ save[o].at \in {"written", "ok"} =>
             save'[o].at = save[o].at /\ save'[o].task = save[o].task
        /\ remove[o].at = "ok" =>
             remove'[o].at = remove[o].at /\ remove'[o].task = remove[o].task
    <3>1. CASE Send(b)
      <4>1. \A x : /\ Beside(save, x) \in [Browsers -> Requests(SaveStage)]
                   /\ Beside(save, x)[o].at = save[o].at /\ Beside(save, x)[o].task = save[o].task
                   /\ Beside(remove, x)[o].at = remove[o].at
                   /\ Beside(remove, x)[o].task = remove[o].task
        BY SMTT(30), <1>0, BesideKeeps
      <4>2. QED
        BY <3>1, <4>1 DEF Send
    <3>2. CASE \E x \in Tasks : ClickDelete(b, x)
      <4>1. \A x : /\ Beside(remove, x) \in [Browsers -> Requests(RemoveStage)]
                   /\ Beside(save, x)[o].at = save[o].at /\ Beside(save, x)[o].task = save[o].task
                   /\ Beside(remove, x)[o].at = remove[o].at
                   /\ Beside(remove, x)[o].task = remove[o].task
        BY <1>0, BesideKeeps
      <4>2. QED
        BY <3>2, <4>1 DEF ClickDelete
    <3>3. QED
      BY <1>3, <3>1, <3>2
  <2>4. Listed'[t] = Listed[t]
    BY <1>1 DEF Listed, Exists
  <2>5. QED
    BY <1>1, <2>1, <2>2, <2>3, <2>4 DEF Knows
<1>4. CASE SaveAnswered(b) \/ RemoveAnswered(b)
  <2>1. UNCHANGED unseen /\ fetch' = Invalidated(b)
    BY <1>4 DEF SaveAnswered, RemoveAnswered
  <2>2. CASE o = b
    BY <1>0, <2>1, <2>2 DEF Knows, Invalidated
  <2>3. CASE o # b
    <3>1. fetch'[o] = fetch[o] /\ save'[o] = save[o] /\ remove'[o] = remove[o]
      BY <1>0, <1>4, <2>1, <2>3 DEF Invalidated, SaveAnswered, RemoveAnswered
    <3>2. QED
      BY <1>0, <1>1, <1>2, <2>1, <3>1, KnowsFrame
  <2>4. QED
    BY <2>2, <2>3
<1>5. CASE WriteSchedule(b)
  BY <1>0, <1>1, <1>2, <1>5, KnowsFrame DEF WriteSchedule, Requests
<1>6. CASE FailSave(b)
  <2>1. /\ UNCHANGED <<fetch, remove>> /\ save' = [save EXCEPT ![b] = Idle]
        /\ t \notin unseen[o] /\ (o = b => t # save[b].task)
    BY <1>0, <1>2, <1>6 DEF FailSave, Refused
  <2>2. QED
    BY <1>0, <1>1, <2>1, KnowsFrame
<1>7. CASE RemoveFinds(b)
  <2>1. /\ UNCHANGED <<fetch, save>> /\ t \notin unseen[o] /\ remove[b].at = "sent"
        /\ \A x \in Browsers \ {b} : remove'[x] = remove[x]
    BY <1>0, <1>2, <1>7 DEF RemoveFinds, Refused
  <2>2. QED
    BY <1>0, <1>1, <2>1, KnowsFrame
<1>8. CASE RemoveSchedule(b)
  BY <1>0, <1>1, <1>2, <1>8, KnowsFrame DEF RemoveSchedule
<1>9. CASE FailRemove(b)
  <2>1. /\ UNCHANGED <<fetch, save>> /\ remove' = [remove EXCEPT ![b] = Idle]
        /\ t \notin unseen[o] /\ (o = b => t # remove[b].task)
    BY <1>0, <1>2, <1>9 DEF FailRemove, Refused
  <2>2. QED
    BY <1>0, <1>1, <2>1, KnowsFrame
<1>10. QED
  BY <1>3, <1>4, <1>5, <1>6, <1>7, <1>8, <1>9

\* Steps that write a row.
LEMMA WriteKnown ==
    ASSUME ListInv, NEW b \in Browsers, TypeInv',
           (\E t \in Tasks : CreateRow(b, t)) \/ UpdateRow(b) \/ RemoveRow(b)
    PROVE  Known'
<1> USE DEF apiVars, pageVars, bounds, history
<1>0. /\ save \in [Browsers -> Requests(SaveStage)]
      /\ remove \in [Browsers -> Requests(RemoveStage)]
      /\ row \in [Tasks -> Crons \cup {NoRow, Gone}] /\ row' \in [Tasks -> Crons \cup {NoRow, Gone}]
      /\ unseen \in [Browsers -> SUBSET (Tasks \cup {NoTask})]
  BY DEF ListInv, TypeInv, TypeOK, SaveStage, RemoveStage
<1>1. UNCHANGED <<list, fetch>>
  BY DEF CreateRow, UpdateRow, RemoveRow
<1>2. SUFFICES ASSUME NEW o \in Browsers, NEW t \in Tasks, t \notin unseen'[o]
      PROVE  Knows(o, t)'
  BY DEF Known
<1>3. CASE \E x \in Tasks : CreateRow(b, x)
  <2>1. PICK x \in Tasks : CreateRow(b, x)
    BY <1>3
  <2>2. /\ \A y \in Browsers \ {b} : save'[y] = save[y]
        /\ save'[b].task = x /\ save'[b].at \in {"written", "ok"} /\ save[b].at = "sent"
        /\ remove' = remove /\ \A y \in Tasks \ {x} : row'[y] = row[y]
    <3>1. save' = [save EXCEPT ![b].task = x,
                               ![b].at = IF save[b].cron = Absent THEN "ok" ELSE "written"]
      BY <2>1 DEF CreateRow
    <3>2. row' = [row EXCEPT ![x] = IF save[b].cron = Absent THEN Off ELSE save[b].cron]
      BY <2>1 DEF CreateRow
    <3>3. save[b].at = "sent" /\ remove' = remove
      BY <2>1 DEF CreateRow
    <3>4. /\ \A y \in Browsers \ {b} : save'[y] = save[y]
          /\ save'[b].task = x /\ save'[b].at \in {"written", "ok"}
      BY <1>0, <3>1 DEF Requests
    <3>5. QED
      BY <1>0, <3>2, <3>3, <3>4
  <2>3. t \notin unseen[o] /\ (o # b => t # x)
    BY <1>0, <1>2, <2>1 DEF CreateRow, Unknown
  <2>4. CASE t = x
    BY <2>2, <2>3, <2>4 DEF Knows
  <2>5. CASE t # x
    BY <1>0, <1>1, <2>2, <2>3, <2>5, KnowsFrame
  <2>6. QED
    BY <2>4, <2>5
<1>4. CASE UpdateRow(b)
  <2> DEFINE x == save[b].task
  <2>1. CASE Exists(x)
    <3>1. save' = [save EXCEPT ![b].at = IF save[b].cron = Absent THEN "ok" ELSE "written"]
      BY <1>4, <2>1 DEF UpdateRow
    <3>2. Unknown(b, x) /\ save[b].at = "sent" /\ remove' = remove
      BY <1>4, <2>1 DEF UpdateRow
    <3>3. \A y \in Tasks \ {x} : row'[y] = row[y]
      BY <1>0, <1>4, <2>1 DEF UpdateRow
    <3>4. t \notin unseen[o] /\ (o # b => t # x)
      BY <1>0, <1>2, <3>2 DEF Unknown
    <3>5. /\ \A y \in Browsers \ {b} : save'[y] = save[y]
          /\ save'[b].task = x /\ save'[b].at \in {"written", "ok"}
      BY <1>0, <3>1 DEF Requests
    <3>6. CASE t = x
      BY <3>4, <3>5, <3>6 DEF Knows
    <3>7. CASE t # x
      BY <1>0, <1>1, <3>2, <3>3, <3>4, <3>5, <3>7, KnowsFrame
    <3>8. QED
      BY <3>6, <3>7
  <2>2. CASE ~Exists(x)
    <3>1. /\ UNCHANGED <<row, remove>> /\ save[b].at = "sent"
          /\ \A y \in Browsers \ {b} : save'[y] = save[y]
          /\ t \notin unseen[o]
      BY <1>0, <1>2, <1>4, <2>2 DEF UpdateRow, Refused
    <3>2. QED
      BY <1>0, <1>1, <3>1, KnowsFrame
  <2>3. QED
    BY <2>1, <2>2
<1>5. CASE RemoveRow(b)
  <2> DEFINE x == remove[b].task
  <2>1. CASE Exists(x)
    <3>1. remove' = [remove EXCEPT ![b].at = "ok"] /\ row' = [row EXCEPT ![x] = Gone]
      BY <1>5, <2>1 DEF RemoveRow
    <3>2. Unknown(b, x) /\ remove[b].at = "unscheduled" /\ save' = save
      BY <1>5, <2>1 DEF RemoveRow
    <3>3. t \notin unseen[o] /\ (o # b => t # x)
      BY <1>0, <1>2, <3>2 DEF Unknown
    <3>4. /\ \A y \in Browsers \ {b} : remove'[y] = remove[y]
          /\ remove'[b].task = x /\ remove'[b].at = "ok"
      BY <1>0, <3>1 DEF Requests
    <3>5. CASE t = x
      BY <3>3, <3>4, <3>5 DEF Knows
    <3>6. CASE t # x
      BY <1>0, <1>1, <3>1, <3>2, <3>3, <3>4, <3>6, KnowsFrame
    <3>7. QED
      BY <3>5, <3>6
  <2>2. CASE ~Exists(x)
    <3>1. /\ UNCHANGED <<row, save>> /\ remove[b].at = "unscheduled"
          /\ \A y \in Browsers \ {b} : remove'[y] = remove[y]
          /\ t \notin unseen[o]
      BY <1>0, <1>2, <1>5, <2>2 DEF RemoveRow, Refused
    <3>2. QED
      BY <1>0, <1>1, <3>1, KnowsFrame
  <2>3. QED
    BY <2>1, <2>2
<1>6. QED
  BY <1>3, <1>4, <1>5

LEMMA StepKnown == ListInv /\ [Next]_vars => ListInv'
<1> SUFFICES ASSUME ListInv, [Next]_vars PROVE ListInv'
  OBVIOUS
<1>0. TypeInv'
  BY StepType DEF ListInv
<1>1. ASSUME NEW b \in Browsers, SaveStep(b) \/ RemoveStep(b) PROVE Known'
  BY <1>0, <1>1, RequestKnown, WriteKnown DEF SaveStep, RemoveStep
<1>2. CASE UNCHANGED vars
  <2>1. /\ row' = row /\ list' = list /\ fetch' = fetch /\ save' = save
        /\ remove' = remove /\ unseen' = unseen
    BY <1>2 DEF vars
  <2>2. ASSUME NEW o \in Browsers, NEW t \in Tasks, t \notin unseen[o]
        PROVE  Knows(o, t)'
    <3>1. Listed'[t] = Listed[t]
      BY <2>1 DEF Listed, Exists
    <3>2. Knows(o, t)
      BY <2>2 DEF ListInv, Known
    <3>3. QED
      BY <2>1, <3>1, <3>2 DEF Knows
  <2>3. QED
    BY <1>0, <2>1, <2>2 DEF ListInv, Known
<1>3. QED
  BY <1>0, <1>1, <1>2, NextSteps, ViewKnown DEF ListInv

\* A browser that waits for no answer lists every task as its row is, but for those that
\* somebody else changed, or its own failed requests did, since the API read its list.  An
\* answer that arrives while a fetch is under way cancels it, so no list that lands is
\* older than a write its browser was told of; the inductive invariant follows the write
\* from the row to the answer, to the fetch that is asked for and to the list (Knows).
THEOREM ListsAreFresh == Spec => []ListFresh
<1>1. Init => ListInv
  BY InitKnown
<1>2. ListInv /\ [Next]_vars => ListInv'
  BY StepKnown
<1>3. ListInv => ListFresh
  BY DEF ListInv, Known, Knows, ListFresh, Quiet
<1>4. QED
  BY <1>1, <1>2, <1>3, PTL DEF Spec

=============================================================================
