---------------------------- MODULE SheetsRunProofs ----------------------------
(***************************************************************************)
(* What holds of SheetsRun for any tasks, jobs, rechecks, rows, replicas   *)
(* and incidents.                                                          *)
(***************************************************************************)
EXTENDS SheetsRun, FiniteSetTheorems, TLAPS

USE SheetsSetsAssumption, SheetsBoundsAssumption

------------------------------------------------------------------------------
(* Places: how run() pairs the links it fetched with the rows it read.     *)

UpTo(n, S) == {m \in S : m <= n}

\* The place of a number in a finite set grows with it, from 1 to the set's size.
LEMMA RankGrows ==
  ASSUME NEW S \in SUBSET Nat, IsFiniteSet(S), NEW n \in S
  PROVE  /\ Cardinality(UpTo(n, S)) \in 1..Cardinality(S)
         /\ \A m \in S : m < n => Cardinality(UpTo(m, S)) < Cardinality(UpTo(n, S))
<1>1. /\ Cardinality(S) \in Nat
      /\ \A k \in S : /\ UpTo(k, S) \in SUBSET S /\ IsFiniteSet(UpTo(k, S))
                      /\ Cardinality(UpTo(k, S)) \in Nat
                      /\ Cardinality(UpTo(k, S)) <= Cardinality(S)
  <2>1. ASSUME NEW k \in S
        PROVE  /\ UpTo(k, S) \in SUBSET S /\ IsFiniteSet(UpTo(k, S))
               /\ Cardinality(UpTo(k, S)) \in Nat
               /\ Cardinality(UpTo(k, S)) <= Cardinality(S)
    <3>1. UpTo(k, S) \in SUBSET S
      BY DEF UpTo
    <3>2. IsFiniteSet(UpTo(k, S)) /\ Cardinality(UpTo(k, S)) <= Cardinality(S)
      BY <3>1, FS_Subset
    <3> QED
      BY <3>1, <3>2, FS_CardinalityType
  <2> QED
    BY <2>1, FS_CardinalityType
<1>2. Cardinality(UpTo(n, S)) # 0
  <2>1. n \in UpTo(n, S)
    BY DEF UpTo
  <2>2. IsFiniteSet(UpTo(n, S)) /\ UpTo(n, S) # {}
    BY <1>1, <2>1
  <2> QED
    BY <2>2, FS_EmptySet
<1>3. ASSUME NEW m \in S, m < n
      PROVE  Cardinality(UpTo(m, S)) < Cardinality(UpTo(n, S))
  <2>0. m \in Nat /\ n \in Nat /\ \A k \in S : k \in Nat
    OBVIOUS
  <2>1. UpTo(m, S) \in SUBSET UpTo(n, S) /\ n \in UpTo(n, S) /\ n \notin UpTo(m, S)
    <3>1. n <= n /\ ~ (n <= m) /\ \A k \in S : k <= m => k <= n
      BY <1>3, <2>0
    <3> QED
      BY <3>1 DEF UpTo
  <2>2. /\ Cardinality(UpTo(m, S)) <= Cardinality(UpTo(n, S))
        /\ Cardinality(UpTo(n, S)) = Cardinality(UpTo(m, S)) => UpTo(n, S) = UpTo(m, S)
    <3>1. IsFiniteSet(UpTo(n, S))
      BY <1>1
    <3> QED
      BY <2>1, <3>1, FS_Subset
  <2>3. Cardinality(UpTo(m, S)) \in Nat /\ Cardinality(UpTo(n, S)) \in Nat
    BY <1>1
  <2> QED
    BY <2>1, <2>2, <2>3
<1> QED
  BY <1>1, <1>2, <1>3

\* Two numbers of a set have two places.
LEMMA RankOnce ==
  ASSUME NEW S \in SUBSET Nat, IsFiniteSet(S), NEW m \in S, NEW n \in S,
         Cardinality(UpTo(m, S)) = Cardinality(UpTo(n, S))
  PROVE  m = n
<1>1. /\ Cardinality(UpTo(m, S)) \in Nat /\ Cardinality(UpTo(n, S)) \in Nat
      /\ m < n => Cardinality(UpTo(m, S)) < Cardinality(UpTo(n, S))
      /\ n < m => Cardinality(UpTo(n, S)) < Cardinality(UpTo(m, S))
  <2>1. Cardinality(S) \in Nat
    BY FS_CardinalityType
  <2> QED
    BY <2>1, RankGrows
<1>2. m \in Nat /\ n \in Nat
  OBVIOUS
<1> QED
  BY <1>1, <1>2

\* Every place up to the size is somebody's.
LEMMA RankTaken ==
  ASSUME NEW S \in SUBSET Nat, IsFiniteSet(S), NEW k \in 1..Cardinality(S)
  PROVE  \E n \in S : Cardinality(UpTo(n, S)) = k
<1> DEFINE size == Cardinality(S)
           rank == [n \in S |-> Cardinality(UpTo(n, S))]
<1>1. size \in Nat /\ IsFiniteSet(1..size) /\ Cardinality(1..size) = size
  <2>1. size \in Nat
    BY FS_CardinalityType
  <2>2. IsFiniteSet(1..size) /\ Cardinality(1..size) = IF 1 > size THEN 0 ELSE size - 1 + 1
    BY <2>1, FS_Interval
  <2> QED
    BY <2>1, <2>2
<1>2. rank \in [S -> 1..size]
  BY RankGrows
<1>3. \A m, n \in S : rank[m] = rank[n] => m = n
  BY RankOnce
<1>4. rank \in Injection(S, 1..size)
  BY <1>2, <1>3 DEF Injection, IsInjective
<1>5. rank \in Surjection(S, 1..size)
  BY <1>1, <1>4, FS_Injection
<1> QED
  BY <1>5 DEF Surjection

RowsAmong(L) == {l[2] : l \in L}

\* Links of one run are as many as their rows, and a link's place is its row's.
LEMMA PlaceIsRank ==
  ASSUME NEW g, NEW L \in SUBSET ({g} \X RowNums)
  PROVE  /\ RowsAmong(L) \in SUBSET Nat /\ IsFiniteSet(RowsAmong(L)) /\ IsFiniteSet(L)
         /\ \A l \in L : l[2] \in RowsAmong(L) /\ l = <<g, l[2]>>
         /\ \A l \in L : Place(l, L) = Cardinality(UpTo(l[2], RowsAmong(L)))
         /\ Cardinality(L) = Cardinality(RowsAmong(L))
<1>1. RowsAmong(L) \in SUBSET RowNums /\ RowsAmong(L) \in SUBSET Nat
  BY DEF RowsAmong
<1>2. IsFiniteSet(RowsAmong(L))
  BY <1>1, FS_Subset
<1>3. \A l \in L : l[2] \in RowsAmong(L) /\ l = <<g, l[2]>>
  BY DEF RowsAmong
<1>4. ASSUME NEW M \in SUBSET L
      PROVE  IsFiniteSet(M) /\ Cardinality(M) = Cardinality(RowsAmong(M))
  <2> DEFINE row == [l \in M |-> l[2]]
  <2>1. row \in Injection(M, RowsAmong(M))
    <3>1. row \in [M -> RowsAmong(M)]
      BY DEF RowsAmong
    <3>2. \A l, m \in M : row[l] = row[m] => l = m
      BY <1>3
    <3> QED
      BY <3>1, <3>2 DEF Injection, IsInjective
  <2>2. row \in Surjection(M, RowsAmong(M))
    BY DEF RowsAmong, Surjection
  <2>3. RowsAmong(M) \in SUBSET RowsAmong(L)
    BY DEF RowsAmong
  <2>4. IsFiniteSet(RowsAmong(M))
    BY <1>2, <2>3, FS_Subset
  <2> HIDE DEF row
  <2> QED
    BY <2>1, <2>2, <2>4, FS_Injection
<1>5. ASSUME NEW l \in L
      PROVE  Place(l, L) = Cardinality(UpTo(l[2], RowsAmong(L)))
  <2> DEFINE M == {m \in L : m[2] <= l[2]}
  <2>1. RowsAmong(M) = UpTo(l[2], RowsAmong(L))
    BY DEF RowsAmong, UpTo
  <2>2. M \in SUBSET L
    OBVIOUS
  <2>3. Cardinality(M) = Cardinality(RowsAmong(M))
    BY <1>4, <2>2
  <2> QED
    BY <2>1, <2>3 DEF Place
<1> QED
  BY <1>1, <1>2, <1>3, <1>4, <1>5

\* What a run takes for a link's row: one of the rows it read, or none.
LEMMA RowAtType ==
  ASSUME NEW r \in Runs, NEW g, NEW L \in SUBSET ({g} \X RowNums), NEW l \in L
  PROVE  RowAt(l, L, r) \in RowNums \cup {0}
<1>1. ValidRows(r) \in SUBSET RowNums /\ ValidRows(r) \in SUBSET Nat
  BY DEF ValidRows
<1>2. IsFiniteSet(ValidRows(r)) /\ Cardinality(ValidRows(r)) \in Nat
  BY <1>1, FS_Subset, FS_CardinalityType
<1>3. Place(l, L) \in Nat /\ Place(l, L) >= 1
  <2>1. /\ IsFiniteSet(RowsAmong(L)) /\ RowsAmong(L) \in SUBSET Nat /\ l[2] \in RowsAmong(L)
        /\ Place(l, L) = Cardinality(UpTo(l[2], RowsAmong(L)))
    BY PlaceIsRank
  <2>2. Cardinality(UpTo(l[2], RowsAmong(L))) \in 1..Cardinality(RowsAmong(L))
    BY <2>1, RankGrows
  <2> QED
    BY <2>1, <2>2
<1>4. CASE Place(l, L) <= Cardinality(ValidRows(r))
  <2>1. \E n \in ValidRows(r) : Cardinality(UpTo(n, ValidRows(r))) = Place(l, L)
    BY <1>1, <1>2, <1>3, <1>4, RankTaken
  <2>2. \E n \in ValidRows(r) : RowPlace(n, r) = Place(l, L)
    BY <2>1 DEF RowPlace, UpTo
  <2> QED
    BY <1>1, <1>2, <1>3, <1>4, <2>2 DEF RowAt
<1>5. CASE Place(l, L) > Cardinality(ValidRows(r))
  BY <1>5 DEF RowAt
<1> QED
  BY <1>2, <1>3, <1>4, <1>5

\* When the links are one to a row, each gets its own row.
LEMMA RowAtOwn ==
  ASSUME NEW r \in Runs, NEW g, NEW n \in ValidRows(r)
  PROVE  RowAt(<<g, n>>, {g} \X ValidRows(r), r) = n
<1> DEFINE V == ValidRows(r)
           L == {g} \X V
           l == <<g, n>>
<1>1. V \in SUBSET RowNums /\ V \in SUBSET Nat /\ L \in SUBSET ({g} \X RowNums) /\ l \in L
  BY DEF ValidRows
<1>2. IsFiniteSet(V)
  BY <1>1, FS_Subset
<1>3. RowsAmong(L) = V /\ l[2] = n
  <2>1. \A m \in V : <<g, m>> \in L /\ <<g, m>>[2] = m
    OBVIOUS
  <2>2. \A k \in L : k[2] \in V
    OBVIOUS
  <2> HIDE DEF V, L
  <2> QED
    BY <2>1, <2>2 DEF RowsAmong
<1>4. Place(l, L) = Cardinality(UpTo(n, V))
  <2> HIDE DEF V, L, l
  <2> QED
    BY <1>1, <1>3, PlaceIsRank
<1>5. Place(l, L) \in Nat /\ Place(l, L) <= Cardinality(V) /\ Cardinality(V) \in Nat
  <2>1. Cardinality(V) \in Nat
    BY <1>2, FS_CardinalityType
  <2>2. Cardinality(UpTo(n, V)) \in 1..Cardinality(V)
    BY <1>1, <1>2, RankGrows
  <2> QED
    BY <1>4, <2>1, <2>2
<1>6. \A m \in V : RowPlace(m, r) = Cardinality(UpTo(m, V))
  BY DEF RowPlace, UpTo
<1>7. \A m \in V : RowPlace(m, r) = Place(l, L) => m = n
  BY <1>1, <1>2, <1>4, <1>6, RankOnce
<1>8. RowPlace(n, r) = Place(l, L)
  BY <1>4, <1>6
<1> HIDE DEF V, L, l
<1>9. RowAt(l, L, r) = n
  <2>1. ~ (Place(l, L) > Cardinality(ValidRows(r)))
    BY <1>5 DEF V
  <2>2. n = CHOOSE m \in ValidRows(r) : RowPlace(m, r) = Place(l, L)
    BY <1>7, <1>8 DEF V
  <2> QED
    BY <2>1, <2>2 DEF RowAt
<1> QED
  BY <1>9 DEF V, L, l
------------------------------------------------------------------------------
(* Types.  They rest on the links of a task being those of one run at any  *)
(* time: else the places of a re-fetch would mean nothing.                 *)

\* A job not delivered yet has no start; one that waits has a delivery left.
StartsOK ==
    \A j \in Jobs : /\ job[j] \in {"new", "ready"} => starts[j] = 0
                    /\ job[j] = "waiting" => starts[j] < MaxStarts

OneGeneration ==
    \A l, m \in Links : Exists(l) /\ Exists(m) /\ Task(l[1]) = Task(m[1]) => l[1] = m[1]

TypeInv == TypeOK /\ StartsOK /\ OneGeneration

LEMMA InitType == Init => TypeInv
<1> SUFFICES ASSUME Init PROVE TypeInv
  OBVIOUS
<1>1. /\ status \in [Tasks -> TaskStatus] /\ job \in [Jobs -> JobState]
      /\ starts \in [Jobs -> 0..MaxStarts] /\ pc \in [Runs -> RunState]
      /\ link \in [Links -> LinkState] /\ call \in [Owners -> [Links -> CallState]]
  BY DEF Init, TaskStatus, JobState, RunState, LinkState, CallState
<1>2. /\ out \in [Tasks -> [RowNums -> SUBSET (Links \X LinkState)]]
      /\ rows \in [Runs -> [RowNums -> RowKind]]
      /\ rowOf \in [Runs -> [Links -> RowNums \cup {0}]]
      /\ todo \in [Runs -> SUBSET Links] /\ final \in [Runs -> SUBSET (Links \X LinkState)]
  BY DEF Init, NoRows, NoPlaces, RowKind
<1>3. incidents \in 0..MaxIncidents /\ {lapsed, shifted, threw, unrecorded} \subseteq SUBSET Runs
  BY DEF Init
<1>4. taskOf \in [Jobs -> Tasks] /\ flag \in BOOLEAN /\ lock \in Runs \cup {NoLock}
  BY DEF Init
<1>5. StartsOK /\ OneGeneration
  BY DEF Init, StartsOK, OneGeneration, Exists
<1> QED
  BY <1>1, <1>2, <1>3, <1>4, <1>5 DEF TypeInv, TypeOK

\* An incident is counted, up to its bound.
LEMMA IncidentType ==
  ASSUME TypeOK, NEW kind, Incident(kind)
  PROVE  incidents' \in 0..MaxIncidents
  BY DEF TypeOK, Incident

\* Links only disappear, or change their status.
LinksStay == /\ link' \in [Links -> LinkState] /\ taskOf' = taskOf
             /\ \A l \in Links : Exists(l)' => Exists(l)

LEMMA GenerationKept ==
  ASSUME OneGeneration, LinksStay
  PROVE  OneGeneration'
  BY DEF OneGeneration, LinksStay, Task

LEMMA GenerationSame ==
  ASSUME OneGeneration, UNCHANGED <<link, taskOf>>
  PROVE  OneGeneration'
  BY DEF OneGeneration, Exists, Task

LEMMA RunTypes ==
  ASSUME TypeOK, NEW r \in Runs
  PROVE  r[1] \in Jobs /\ Task(r) \in Tasks /\ r \in Owners
  BY DEF TypeOK, Runs, Task, Owners

LEMMA UserType == ASSUME TypeInv, UserStep PROVE TypeInv'
<1> USE DEF TypeInv, dbVars, bookVars, oddVars
<1>1. ASSUME NEW j \in Jobs, RunNow(j) \/ AddJob(j) \/ CronFires(j) PROVE TypeInv'
  <2>1. PICK v \in {"ready", "refused", "waiting"} : job' = [job EXCEPT ![j] = v]
    BY <1>1 DEF RunNow, AddJob, CronFires
  <2>2. starts' = starts /\ starts[j] = 0 /\ 0 < MaxStarts
    BY <1>1 DEF RunNow, AddJob, CronFires, StartsOK
  <2>3. job' \in [Jobs -> JobState] /\ StartsOK'
    BY <2>1, <2>2 DEF TypeOK, StartsOK, JobState
  <2> QED
    BY <1>1, <2>3, GenerationSame DEF RunNow, AddJob, CronFires, TypeOK
<1>2. ASSUME NEW c \in Rechecks, NEW l \in Links, Recheck(c, l) PROVE TypeInv'
  <2>1. call' \in [Owners -> [Links -> CallState]]
    BY <1>2 DEF Recheck, Return, TypeOK, Owners, CallState
  <2>2. incidents' \in 0..MaxIncidents
    BY <1>2, IncidentType DEF Recheck
  <2> QED
    BY <1>2, <2>1, <2>2, GenerationSame DEF Recheck, TypeOK, StartsOK
<1>3. ASSUME NEW l \in Links, DeleteOne(l) PROVE TypeInv'
  <2>1. LinksStay
    BY <1>3 DEF DeleteOne, LinksStay, TypeOK, LinkState, Exists
  <2>2. shifted' \in SUBSET Runs /\ incidents' \in 0..MaxIncidents
    BY <1>3, IncidentType DEF DeleteOne, Missing, TypeOK
  <2> QED
    BY <1>3, <2>1, <2>2, GenerationKept DEF DeleteOne, TypeOK, StartsOK, LinksStay
<1>4. ASSUME NEW t \in Tasks, RemoveTask(t) PROVE TypeInv'
  <2>1. LinksStay
    BY <1>4 DEF RemoveTask, LinksStay, TypeOK, LinkState, Exists
  <2>2. status' \in [Tasks -> TaskStatus] /\ incidents' \in 0..MaxIncidents
    BY <1>4, IncidentType DEF RemoveTask, TypeOK, TaskStatus
  <2> QED
    BY <1>4, <2>1, <2>2, GenerationKept DEF RemoveTask, TypeOK, StartsOK, LinksStay
<1> QED
  BY <1>1, <1>2, <1>3, <1>4 DEF UserStep

LEMMA JobType == ASSUME TypeInv, NEW j \in Jobs, JobStep(j) PROVE TypeInv'
<1> USE DEF TypeInv, dbVars, bookVars, oddVars
<1>1. CASE Deliver(j)
  <2>1. starts[j] + 1 \in 1..MaxStarts /\ starts[j] + 1 \in 0..MaxStarts
    BY <1>1 DEF Deliver, TypeOK, StartsOK
  <2>2. <<j, starts[j] + 1>> \in Runs
    BY <2>1 DEF Runs
  <2>3. pc' \in [Runs -> RunState] /\ job' \in [Jobs -> JobState]
    BY <1>1, <2>2 DEF Deliver, TypeOK, RunState, JobState
  <2>4. starts' \in [Jobs -> 0..MaxStarts] /\ StartsOK'
    BY <1>1, <2>1 DEF Deliver, TypeOK, StartsOK
  <2> QED
    BY <1>1, <2>3, <2>4, GenerationSame DEF Deliver, TypeOK
<1>2. CASE Redeliver(j)
  <2>1. job' \in [Jobs -> JobState] /\ StartsOK'
    BY <1>2 DEF Redeliver, TypeOK, StartsOK, JobState
  <2> QED
    BY <1>2, <2>1, GenerationSame DEF Redeliver, TypeOK
<1> QED
  BY <1>1, <1>2 DEF JobStep

LEMMA CallType ==
  ASSUME TypeInv, NEW o \in Owners, NEW l \in Links, CallStep(o, l) \/ CallFails(o, l)
  PROVE  TypeInv'
<1> USE DEF TypeInv, dbVars, bookVars, oddVars
<1>1. call' \in [Owners -> [Links -> CallState]]
  <2>1. \E v \in CallState : Return(o, l, v)
    BY DEF CallStep, FindLink, MarkChecking, SaveResult, CallFails, CallState
  <2> QED
    BY <2>1 DEF Return, TypeOK
<1>2. LinksStay
  BY DEF CallStep, FindLink, MarkChecking, SaveResult, CallFails, TypeOK, LinksStay, Exists,
         LinkState
<1>3. incidents' \in 0..MaxIncidents
  BY IncidentType DEF CallStep, FindLink, MarkChecking, SaveResult, CallFails, TypeOK
<1>4. /\ UNCHANGED <<taskOf, status, flag, lock, job, starts, out, pc, rows, rowOf, todo, final>>
      /\ UNCHANGED <<lapsed, shifted, threw, unrecorded>>
  BY DEF CallStep, FindLink, MarkChecking, SaveResult, CallFails
<1> QED
  BY <1>1, <1>2, <1>3, <1>4, GenerationKept DEF TypeOK, StartsOK, LinksStay

LEMMA ForgetType ==
  ASSUME TypeOK, NEW gone, Forget(gone)
  PROVE  /\ rows' \in [Runs -> [RowNums -> RowKind]]
         /\ rowOf' \in [Runs -> [Links -> RowNums \cup {0}]]
         /\ todo' \in [Runs -> SUBSET Links] /\ final' \in [Runs -> SUBSET (Links \X LinkState)]
  BY DEF Forget, TypeOK, NoRows, NoPlaces, RowKind

\* The steps of run() that move it on without touching links, rows or the books.
LEMMA MoveType ==
  ASSUME TypeInv, NEW r \in Runs,
         \/ FindTask(r) \/ AcquireLock(r) \/ StartFails(r) \/ SetRunning(r) \/ RaiseFlag(r)
         \/ StartProcessing(r) \/ ChunkResolves(r) \/ ChunkRejects(r) \/ SetCompleted(r)
         \/ BodyFails(r) \/ SetFailed(r) \/ LowerFlag(r)
  PROVE  TypeInv'
<1> USE DEF TypeInv, dbVars, bookVars, oddVars
<1>0. r[1] \in Jobs /\ Task(r) \in Tasks
  BY RunTypes
<1>1. pc' \in [Runs -> RunState]
  BY ZenonT(40) DEF FindTask, AcquireLock, StartFails, SetRunning, RaiseFlag, StartProcessing,
         ChunkResolves, ChunkRejects, SetCompleted, BodyFails, SetFailed, LowerFlag,
         EndJob, MoveTo, TypeOK, RunState
<1>2. job' = job \/ \E how \in {"completed", "failed"} : job' = [job EXCEPT ![r[1]] = how]
  BY DEF FindTask, AcquireLock, StartFails, SetRunning, RaiseFlag, StartProcessing,
         ChunkResolves, ChunkRejects, SetCompleted, BodyFails, SetFailed, LowerFlag, EndJob
<1>3. UNCHANGED <<taskOf, starts, out, link, rows, rowOf, todo, final, call, lapsed, shifted>>
  BY DEF FindTask, AcquireLock, StartFails, SetRunning, RaiseFlag, StartProcessing,
         ChunkResolves, ChunkRejects, SetCompleted, BodyFails, SetFailed, LowerFlag
<1>4. job' \in [Jobs -> JobState] /\ StartsOK'
  BY <1>0, <1>2, <1>3 DEF TypeOK, StartsOK, JobState
<1>5. status' = status \/ \E s \in TaskStatus : status' = [status EXCEPT ![Task(r)] = s]
  <2>1. CASE SetFailed(r)
    BY <2>1, <1>0 DEF SetFailed, TypeOK, TaskStatus
  <2>2. CASE SetRunning(r) \/ SetCompleted(r)
    BY <2>2 DEF SetRunning, SetCompleted, TaskStatus
  <2>3. CASE ~SetFailed(r) /\ ~SetRunning(r) /\ ~SetCompleted(r)
    BY <2>3 DEF FindTask, AcquireLock, StartFails, RaiseFlag, StartProcessing,
                ChunkResolves, ChunkRejects, BodyFails, LowerFlag
  <2> QED
    BY <2>1, <2>2, <2>3
<1>6. status' \in [Tasks -> TaskStatus]
  BY <1>0, <1>5 DEF TypeOK
<1>7. flag' \in BOOLEAN /\ lock' \in Runs \cup {NoLock}
  BY DEF FindTask, AcquireLock, StartFails, SetRunning, RaiseFlag, StartProcessing,
         ChunkResolves, ChunkRejects, SetCompleted, BodyFails, SetFailed, LowerFlag, TypeOK
<1>8. incidents' = incidents \/ Incident("fault")
  BY DEF FindTask, AcquireLock, StartFails, SetRunning, RaiseFlag, StartProcessing,
         ChunkResolves, ChunkRejects, SetCompleted, BodyFails, SetFailed, LowerFlag
<1>9. incidents' \in 0..MaxIncidents
  BY <1>8, IncidentType DEF TypeOK
<1>10. threw' \in SUBSET Runs /\ unrecorded' \in SUBSET Runs
  BY DEF FindTask, AcquireLock, StartFails, SetRunning, RaiseFlag, StartProcessing,
         ChunkResolves, ChunkRejects, SetCompleted, BodyFails, SetFailed, LowerFlag, TypeOK
<1>11. OneGeneration'
  BY <1>3, GenerationSame
<1> QED
  BY <1>1, <1>3, <1>4, <1>6, <1>7, <1>9, <1>10, <1>11 DEF TypeOK

\* The steps that fill the books of run r, replace its links or end it.
LEMMA BookType ==
  ASSUME TypeInv, NEW r \in Runs,
         \/ ReadRows(r) \/ ReplaceLinks(r) \/ RefetchLinks(r) \/ SaveInvalid(r)
         \/ StartChunk(r) \/ CollectResults(r) \/ WriteResultsBack(r) \/ Unlock(r)
  PROVE  TypeInv'
<1> USE DEF TypeInv, dbVars, bookVars, oddVars, MoveTo
<1>0. r[1] \in Jobs /\ Task(r) \in Tasks /\ r \in Owners
  BY RunTypes
<1>1. CASE ReadRows(r)
  <2>1. pc' \in [Runs -> RunState] /\ rows' \in [Runs -> [RowNums -> RowKind]]
    BY <1>1 DEF ReadRows, TypeOK, RunState
  <2> QED
    BY <1>1, <2>1, GenerationSame DEF ReadRows, TypeOK, StartsOK
<1>2. CASE ReplaceLinks(r)
  <2>1. pc' \in [Runs -> RunState] /\ link' \in [Links -> LinkState]
    <3>1. pc' \in [Runs -> RunState]
      BY SMTT(30), <1>2 DEF ReplaceLinks, TypeOK, RunState
    <3>2. \/ link' = link
          \/ link' = [l \in Links |-> IF l[1] = r /\ l[2] \in ValidRows(r) THEN "PENDING"
                                     ELSE IF l \in LinksOf(Task(r)) THEN "absent" ELSE link[l]]
      BY <1>2 DEF ReplaceLinks
    <3>3. link' \in [Links -> LinkState]
      BY <3>2 DEF TypeOK, LinkState
    <3> QED
      BY <3>1, <3>3
  <2>2. OneGeneration'
    <3>1. CASE link' = link
      BY <1>2, <3>1, GenerationSame DEF ReplaceLinks
    <3>2. CASE link' # link
      <4>1. \A l \in Links :
               link'[l] = IF l[1] = r /\ l[2] \in ValidRows(r) THEN "PENDING"
                          ELSE IF l \in LinksOf(Task(r)) THEN "absent" ELSE link[l]
        BY <1>2, <3>2 DEF ReplaceLinks
      <4>2. taskOf' = taskOf
        BY <1>2 DEF ReplaceLinks
      <4>3. \A l \in Links : Exists(l)' => l[1] = r \/ (Exists(l) /\ Task(l[1]) # Task(r))
        BY <4>1 DEF Exists, LinksOf
      <4> QED
        BY <4>2, <4>3 DEF OneGeneration, Task
    <3> QED
      BY <3>1, <3>2
  <2> QED
    BY <1>2, <2>1, <2>2 DEF ReplaceLinks, TypeOK, StartsOK
<1>3. CASE RefetchLinks(r)
  <2> DEFINE fetched == LinksOf(Task(r))
  <2>1. fetched \subseteq Links
    BY DEF LinksOf
  <2>2. ASSUME NEW l \in fetched PROVE RowAt(l, fetched, r) \in RowNums \cup {0}
    <3>1. ASSUME NEW m \in fetched PROVE m \in {l[1]} \X RowNums
      <4>1. m[1] = l[1]
        BY DEF LinksOf, OneGeneration
      <4> QED
        BY <4>1 DEF LinksOf, Links
    <3>2. fetched \in SUBSET ({l[1]} \X RowNums)
      BY <3>1
    <3> QED
      BY <3>2, RowAtType
  <2>3. rowOf' \in [Runs -> [Links -> RowNums \cup {0}]] /\ todo' \in [Runs -> SUBSET Links]
    BY <1>3, <2>1, <2>2 DEF RefetchLinks, TypeOK
  <2>4. pc' \in [Runs -> RunState]
    BY <1>3 DEF RefetchLinks, TypeOK, RunState
  <2> QED
    BY <1>3, <2>3, <2>4, GenerationSame DEF RefetchLinks, TypeOK, StartsOK
<1>4. CASE SaveInvalid(r)
  <2>1. PICK l \in Unsaved(r) :
           IF rowOf[r][l] # 0 /\ Exists(l)
           THEN /\ link' = [link EXCEPT ![l] = "checked"]
                /\ todo' = [todo EXCEPT ![r] = @ \ {l}]
                /\ UNCHANGED pc
           ELSE MoveTo(r, "fail") /\ UNCHANGED <<link, todo>>
    BY <1>4 DEF SaveInvalid
  <2>2. pc' \in [Runs -> RunState] /\ todo' \in [Runs -> SUBSET Links]
    <3>1. CASE rowOf[r][l] # 0 /\ Exists(l)
      <4>1. pc' = pc /\ todo' = [todo EXCEPT ![r] = todo[r] \ {l}]
        BY <2>1, <3>1
      <4>2. todo[r] \ {l} \in SUBSET Links
        BY DEF TypeOK
      <4> QED
        BY <4>1, <4>2 DEF TypeOK
    <3>2. CASE ~ (rowOf[r][l] # 0 /\ Exists(l))
      BY <2>1, <3>2 DEF TypeOK, RunState
    <3> QED
      BY <3>1, <3>2
  <2>3. taskOf' = taskOf
    BY <1>4 DEF SaveInvalid
  <2>4. LinksStay
    BY <2>1, <2>3 DEF TypeOK, LinksStay, LinkState, Exists
  <2> QED
    BY <1>4, <2>2, <2>4, GenerationKept DEF SaveInvalid, TypeOK, StartsOK, LinksStay
<1>5. CASE StartChunk(r)
  <2>1. call' \in [Owners -> [Links -> CallState]]
    BY <1>0, <1>5 DEF StartChunk, TypeOK, CallState
  <2>2. pc' \in [Runs -> RunState] /\ todo' \in [Runs -> SUBSET Links]
    BY <1>5 DEF StartChunk, TypeOK, RunState
  <2> QED
    BY <1>5, <2>1, <2>2, GenerationSame DEF StartChunk, TypeOK, StartsOK
<1>6. CASE CollectResults(r)
  <2>1. final' \in [Runs -> SUBSET (Links \X LinkState)]
    BY <1>6 DEF CollectResults, LinksOf, TypeOK
  <2>2. pc' \in [Runs -> RunState]
    BY <1>6 DEF CollectResults, TypeOK, RunState
  <2> QED
    BY <1>6, <2>1, <2>2, GenerationSame DEF CollectResults, TypeOK, StartsOK
<1>7. CASE WriteResultsBack(r)
  <2>1. \A n \in RowNums : ResultsAt(r, n) \in SUBSET (Links \X LinkState)
    BY DEF ResultsAt, Mapped, TypeOK
  <2>2. out' \in [Tasks -> [RowNums -> SUBSET (Links \X LinkState)]]
    BY <1>0, <1>7, <2>1 DEF WriteResultsBack, TypeOK
  <2>3. pc' \in [Runs -> RunState]
    BY <1>7 DEF WriteResultsBack, TypeOK, RunState
  <2> QED
    BY <1>7, <2>2, <2>3, GenerationSame DEF WriteResultsBack, TypeOK, StartsOK
<1>8. CASE Unlock(r)
  <2>1. pc' \in [Runs -> RunState] /\ job' \in [Jobs -> JobState] /\ StartsOK'
    BY <1>0, <1>8 DEF Unlock, EndJob, TypeOK, RunState, JobState, StartsOK
  <2>2. incidents' \in 0..MaxIncidents /\ lock' \in Runs \cup {NoLock}
    BY <1>8, IncidentType DEF Unlock, ReleaseLock, TypeOK
  <2>3. Forget({r})
    BY <1>8 DEF Unlock
  <2> QED
    BY <1>8, <2>1, <2>2, <2>3, ForgetType, GenerationSame DEF Unlock, TypeOK
<1> QED
  BY <1>1, <1>2, <1>3, <1>4, <1>5, <1>6, <1>7, <1>8

LEMMA NextType == TypeInv /\ [Next]_vars => TypeInv'
<1> SUFFICES ASSUME TypeInv, [Next]_vars PROVE TypeInv'
  OBVIOUS
<1>1. ASSUME NEW r \in Runs, RunStep(r) \/ StartFails(r) \/ BodyFails(r) PROVE TypeInv'
  BY <1>1, MoveType, BookType DEF RunStep
<1>2. ASSUME NEW procs \in SUBSET Owners, Crash(procs) PROVE TypeInv'
  <2>1. pc' \in [Runs -> RunState]
    BY <1>2 DEF Crash, TypeInv, TypeOK, RunState
  <2>2. call' \in [Owners -> [Links -> CallState]]
    BY <1>2 DEF Crash, TypeInv, TypeOK, CallState
  <2>3. Forget(procs) /\ incidents' \in 0..MaxIncidents
    BY <1>2, IncidentType DEF Crash, TypeInv
  <2> QED
    BY <1>2, <2>1, <2>2, <2>3, ForgetType, GenerationSame
       DEF Crash, TypeInv, TypeOK, StartsOK, dbVars
<1>3. CASE ExpireLock \/ LapseLock
  <2>1. incidents' \in 0..MaxIncidents
    BY <1>3, IncidentType DEF ExpireLock, LapseLock, TypeInv, TypeOK, oddVars
  <2> QED
    BY <1>3, <2>1, GenerationSame
       DEF ExpireLock, LapseLock, TypeInv, TypeOK, StartsOK, dbVars, bookVars, oddVars
<1>4. CASE UNCHANGED vars
  BY <1>4, GenerationSame DEF vars, TypeInv, TypeOK, StartsOK
<1> QED
  BY <1>1, <1>2, <1>3, <1>4, UserType, JobType, CallType DEF Next, FaultStep

\* Every variable stays in its type; among others the row that run() takes for a link is
\* always one of the rows it read.
THEOREM RunsTyped == Spec => []TypeOK
<1>1. TypeInv => TypeOK
  BY DEF TypeInv
<1> QED
  BY <1>1, InitType, NextType, PTL DEF Spec
------------------------------------------------------------------------------
(* The lock.  Who acquires it, who gives it up and who only moves on.      *)

\* An attempt that BullMQ has not delivered yet has not run.
FreshRuns == \A r \in Runs : r[2] > starts[r[1]] => pc[r] = "none"

RunMove(r) == RunStep(r) \/ StartFails(r) \/ BodyFails(r)

Takes(r) == pc[r] = "acquire" /\ pc'[r] = "running" /\ lock = NoLock /\ lock' = r
StaysOut(r) == pc[r] \notin Body \cup {"none"} /\ pc'[r] \in {"acquire", "ended"} /\ lock' = lock
MovesOn(r) == pc[r] \in Body /\ pc'[r] \in Body /\ lock' = lock
GivesUp(r) == pc[r] = "unlock" /\ pc'[r] = "ended"
              /\ (lock' = lock \/ lock' = IF lock = r THEN NoLock ELSE lock)

\* What a step of a run leaves alone, and what it does to its lock.
LockFrame(r) ==
    /\ UNCHANGED <<taskOf, starts, lapsed, shifted>>
    /\ \A x \in Runs : x # r => pc'[x] = pc[x]
    /\ Takes(r) \/ StaysOut(r) \/ MovesOn(r) \/ GivesUp(r)

LEMMA RunMoves == ASSUME TypeInv, NEW r \in Runs, RunMove(r) PROVE LockFrame(r)
<1> USE DEF LockFrame, MoveTo, EndJob, TypeInv, TypeOK, bookVars, oddVars, dbVars
<1>1. CASE AcquireLock(r)
  <2>1. CASE lock = NoLock
    BY <1>1, <2>1 DEF AcquireLock, Takes
  <2>2. CASE lock # NoLock
    BY <1>1, <2>2 DEF AcquireLock, StaysOut, Body, Busy
  <2> QED
    BY <2>1, <2>2
<1>2. CASE FindTask(r) \/ StartFails(r)
  BY <1>2 DEF FindTask, StartFails, StaysOut, Body, Busy
<1>3. CASE SetRunning(r) \/ RaiseFlag(r) \/ ReadRows(r) \/ ReplaceLinks(r) \/ RefetchLinks(r)
  BY <1>3 DEF SetRunning, RaiseFlag, ReadRows, ReplaceLinks, RefetchLinks, MovesOn, Body, Busy,
              RunState
<1>4. CASE SaveInvalid(r)
  <2>1. pc[r] = "map" /\ (pc' = pc \/ pc' = [pc EXCEPT ![r] = "fail"])
    BY <1>4 DEF SaveInvalid
  <2> QED
    BY <1>4, <2>1 DEF SaveInvalid, MovesOn, Body, Busy, RunState
<1>5. CASE StartProcessing(r) \/ StartChunk(r) \/ ChunkResolves(r) \/ ChunkRejects(r)
           \/ CollectResults(r)
  BY <1>5 DEF StartProcessing, StartChunk, ChunkResolves, ChunkRejects, CollectResults,
              MovesOn, Body, Busy, RunState
<1>6. CASE WriteResultsBack(r) \/ SetCompleted(r) \/ SetFailed(r) \/ LowerFlag(r)
  BY <1>6 DEF WriteResultsBack, SetCompleted, SetFailed, LowerFlag, MovesOn, Body, Busy, RunState
<1>7. CASE Unlock(r)
  BY <1>7 DEF Unlock, ReleaseLock, GivesUp
<1>8. CASE BodyFails(r)
  BY <1>8 DEF BodyFails, MovesOn, Try, Body, Busy, RunState
<1> QED
  BY <1>1, <1>2, <1>3, <1>4, <1>5, <1>6, <1>7, <1>8 DEF RunMove, RunStep

\* What leaves the runs, their lock and the deliveries alone.
AwayFrame == UNCHANGED <<taskOf, starts, pc, lock, lapsed>>

LEMMA AwayMoves ==
  ASSUME \/ UserStep \/ UNCHANGED vars
         \/ \E j \in Jobs : Redeliver(j)
         \/ \E o \in Owners, l \in Links : CallStep(o, l) \/ CallFails(o, l)
  PROVE  AwayFrame
  BY DEF UserStep, RunNow, AddJob, CronFires, Recheck, DeleteOne, RemoveTask, Redeliver,
         CallStep, FindLink, MarkChecking, SaveResult, CallFails, vars, oddVars, AwayFrame

\* A delivery starts a run that had not started.
LEMMA DeliverMoves ==
  ASSUME TypeInv, FreshRuns, NEW j \in Jobs, Deliver(j)
  PROVE  /\ UNCHANGED <<taskOf, lock, lapsed>>
         /\ <<j, starts[j] + 1>> \in Runs /\ pc[<<j, starts[j] + 1>>] = "none"
         /\ pc' = [pc EXCEPT ![<<j, starts[j] + 1>>] = "find"]
         /\ starts' = [starts EXCEPT ![j] = @ + 1]
<1>1. starts[j] + 1 \in 1..MaxStarts /\ starts[j] + 1 > starts[j]
  BY DEF Deliver, TypeInv, TypeOK, StartsOK
<1>2. <<j, starts[j] + 1>> \in Runs
  BY <1>1 DEF Runs
<1>3. pc[<<j, starts[j] + 1>>] = "none"
  BY <1>1, <1>2 DEF FreshRuns
<1> QED
  BY <1>2, <1>3 DEF Deliver, oddVars

LEMMA CrashMoves ==
  ASSUME NEW procs \in SUBSET Owners, Crash(procs)
  PROVE  /\ UNCHANGED <<taskOf, starts, lock, lapsed, shifted>>
         /\ \A r \in Runs : pc'[r] = pc[r] \/ (r \in procs /\ pc[r] \in Busy /\ pc'[r] = "crashed")
         /\ \A r \in Runs : r \in procs => pc'[r] \notin Busy
  BY DEF Crash, Busy

LEMMA FreshNext == TypeInv /\ FreshRuns /\ [Next]_vars => FreshRuns'
<1> SUFFICES ASSUME TypeInv, FreshRuns, [Next]_vars PROVE FreshRuns'
  OBVIOUS
<1> DEFINE NoneStarts == starts' = starts /\ \A r \in Runs : pc[r] = "none" => pc'[r] = "none"
<1>0. NoneStarts => FreshRuns'
  BY DEF FreshRuns
<1>1. ASSUME NEW r \in Runs, RunMove(r) PROVE NoneStarts
  BY <1>1, RunMoves DEF LockFrame, Takes, StaysOut, MovesOn, GivesUp, Body, Busy
<1>2. ASSUME NEW procs \in SUBSET Owners, Crash(procs) PROVE NoneStarts
  BY <1>2, CrashMoves DEF Busy
<1>3. ASSUME AwayFrame \/ ExpireLock \/ LapseLock PROVE NoneStarts
  BY <1>3 DEF AwayFrame, ExpireLock, LapseLock
<1>4. ASSUME NEW j \in Jobs, Deliver(j) PROVE FreshRuns'
  <2>1. \A r \in Runs : r[2] \in Nat /\ r[1] \in Jobs /\ r = <<r[1], r[2]>>
    BY DEF Runs
  <2>2. /\ starts[j] \in Nat /\ starts'[j] = starts[j] + 1
        /\ \A i \in Jobs : i # j => starts'[i] = starts[i]
        /\ \A r \in Runs : r # <<j, starts[j] + 1>> => pc'[r] = pc[r]
    <3>1. starts \in [Jobs -> 0..MaxStarts] /\ pc \in [Runs -> RunState]
      BY DEF TypeInv, TypeOK
    <3>2. /\ pc' = [pc EXCEPT ![<<j, starts[j] + 1>>] = "find"]
          /\ starts' = [starts EXCEPT ![j] = starts[j] + 1]
      BY <1>4, DeliverMoves
    <3> HIDE DEF NoneStarts
    <3> QED
      BY <3>1, <3>2
  <2>3. ASSUME NEW r \in Runs, r[2] > starts'[r[1]] PROVE pc'[r] = "none"
    <3>1. r # <<j, starts[j] + 1>> /\ r[2] > starts[r[1]]
      BY <2>1, <2>2, <2>3
    <3> QED
      BY <2>2, <3>1 DEF FreshRuns
  <2> QED
    BY <2>3 DEF FreshRuns
<1> HIDE DEF NoneStarts
<1> QED
  BY <1>0, <1>1, <1>2, <1>3, <1>4, AwayMoves DEF Next, FaultStep, JobStep, RunMove

LockInv == TypeInv /\ FreshRuns /\ LockHeld

LEMMA LockNext == LockInv /\ [Next]_vars => LockInv'
<1> SUFFICES ASSUME LockInv, [Next]_vars PROVE LockInv'
  OBVIOUS
<1> USE DEF LockInv, LockHeld
<1>1. ASSUME NEW r \in Runs, RunMove(r) PROVE LockHeld'
  <2>1. LockFrame(r)
    BY <1>1, RunMoves
  <2> QED
    BY <2>1 DEF LockFrame, Takes, StaysOut, MovesOn, GivesUp, Body, Busy
<1>2. ASSUME NEW procs \in SUBSET Owners, Crash(procs) PROVE LockHeld'
  BY <1>2, CrashMoves DEF Body, Busy
<1>3. ASSUME AwayFrame PROVE LockHeld'
  BY <1>3 DEF AwayFrame
<1>4. ASSUME NEW j \in Jobs, Deliver(j) PROVE LockHeld'
  <2>1. \A r \in Runs : pc'[r] \in Body => pc[r] \in Body
    BY <1>4, DeliverMoves DEF Body, Busy, TypeInv, TypeOK
  <2>2. UNCHANGED <<lock, lapsed>>
    BY <1>4, DeliverMoves
  <2> QED
    BY <2>1, <2>2
<1>5. ASSUME ExpireLock PROVE LockHeld'
  BY <1>5 DEF ExpireLock, dbVars, bookVars, oddVars
<1>6. ASSUME LapseLock PROVE LockHeld'
  BY <1>6 DEF LapseLock, dbVars, bookVars
<1> QED
  BY <1>1, <1>2, <1>3, <1>4, <1>5, <1>6, NextType, FreshNext, AwayMoves
     DEF Next, FaultStep, JobStep, RunMove

LEMMA LockInitially == Init => LockInv
  BY InitType DEF Init, LockInv, LockHeld, FreshRuns, Body, Busy

\* A run that raised the flag, replaced links or writes back holds the sheets lock of the
\* project unless it expired under it, so no two of them work at once.
THEOREM SheetsLockIsHeld == Spec => []LockHeld
<1>1. LockInv => LockHeld
  BY DEF LockInv
<1> QED
  BY <1>1, LockInitially, LockNext, PTL DEF Spec

------------------------------------------------------------------------------
(* The refinement: what run() does to its lock, the mutex may do.          *)

LEMMA LockStutters ==
  ASSUME UNCHANGED <<lock, lapsed>>, \A r \in Runs : pc'[r] \in Body <=> pc[r] \in Body
  PROVE  UNCHANGED Lock!lockVars
  BY DEF Lock!lockVars, Working

LEMMA RunRefines ==
  ASSUME TypeInv, NEW r \in Runs, RunMove(r)
  PROVE  [Lock!LockNext]_Lock!lockVars
<1>1. LockFrame(r)
  BY RunMoves
<1>2. CASE Takes(r)
  <2>1. r \notin Working /\ Working' = Working \cup {r}
    BY <1>1, <1>2 DEF LockFrame, Takes, Working, Body, Busy, RunState
  <2>2. Lock!Acquire(r)
    BY <1>1, <1>2, <2>1 DEF LockFrame, Takes, Lock!Acquire
  <2> QED
    BY <2>2 DEF Lock!LockNext
<1>3. CASE StaysOut(r) \/ MovesOn(r)
  BY <1>1, <1>3, LockStutters DEF LockFrame, StaysOut, MovesOn, Body, Busy
<1>4. CASE GivesUp(r)
  <2>1. r \in Working /\ Working' = Working \ {r}
    BY <1>1, <1>4 DEF LockFrame, GivesUp, Working, Body, Busy, RunState
  <2>2. Lock!Release(r) \/ Lock!Abandon(r)
    BY <1>1, <1>4, <2>1 DEF LockFrame, GivesUp, Lock!Release, Lock!Abandon
  <2> QED
    BY <2>2 DEF Lock!LockNext
<1> QED
  BY <1>1, <1>2, <1>3, <1>4 DEF LockFrame

\* A worker hosts one run at a time, so a crash is one run's.
LEMMA CrashRefines ==
  ASSUME TypeInv, NEW procs \in SUBSET Owners, Crash(procs)
  PROVE  [Lock!LockNext]_Lock!lockVars
<1>1. CASE \E r \in procs \cap Runs : pc[r] \in Body
  <2>1. PICK r \in procs \cap Runs : pc[r] \in Body
    BY <1>1
  <2>2. \A x \in Runs : x # r => (pc'[x] \in Body <=> pc[x] \in Body)
    BY <2>1 DEF Crash, Body, Busy
  <2>3. r \in Working /\ Working' = Working \ {r}
    BY <2>1, <2>2, CrashMoves DEF Working, Body
  <2>4. Lock!Abandon(r)
    BY <2>3, CrashMoves DEF Lock!Abandon
  <2> QED
    BY <2>4 DEF Lock!LockNext
<1>2. CASE ~ \E r \in procs \cap Runs : pc[r] \in Body
  <2>1. \A r \in Runs : pc'[r] \in Body <=> pc[r] \in Body
    BY <1>2, CrashMoves DEF Body, Busy
  <2> QED
    BY <2>1, CrashMoves, LockStutters
<1> QED
  BY <1>1, <1>2

LEMMA StepRefines == LockInv /\ [Next]_vars => [Lock!LockNext]_Lock!lockVars
<1> SUFFICES ASSUME LockInv, [Next]_vars PROVE [Lock!LockNext]_Lock!lockVars
  OBVIOUS
<1> USE DEF LockInv
<1>1. ASSUME AwayFrame PROVE [Lock!LockNext]_Lock!lockVars
  BY <1>1, LockStutters DEF AwayFrame
<1>2. ASSUME NEW j \in Jobs, Deliver(j) PROVE [Lock!LockNext]_Lock!lockVars
  <2>1. \A r \in Runs : pc'[r] = pc[r] \/ (pc[r] = "none" /\ pc'[r] = "find")
    BY <1>2, DeliverMoves DEF TypeInv, TypeOK
  <2> QED
    BY <1>2, <2>1, DeliverMoves, LockStutters DEF Body, Busy
<1>3. ASSUME ExpireLock PROVE [Lock!LockNext]_Lock!lockVars
  <2>1. lock \in Runs \ Working /\ Working' = Working
    BY <1>3 DEF ExpireLock, Working, TypeInv, TypeOK
  <2>2. Lock!Expire
    BY <1>3, <2>1 DEF ExpireLock, Lock!Expire, oddVars
  <2> QED
    BY <2>2 DEF Lock!LockNext
<1>4. ASSUME LapseLock PROVE [Lock!LockNext]_Lock!lockVars
  <2>1. lock \in Working /\ Working' = Working
    BY <1>4 DEF LapseLock, Working, TypeInv, TypeOK
  <2>2. Lock!Lapse
    BY <1>4, <2>1 DEF LapseLock, Lock!Lapse
  <2> QED
    BY <2>2 DEF Lock!LockNext
<1> QED
  BY <1>1, <1>2, <1>3, <1>4, RunRefines, CrashRefines, AwayMoves
     DEF Next, FaultStep, JobStep, RunMove

\* Runs of sheets tasks implement the mutex of lock-manager.ts, step by step, for any
\* number of tasks, jobs, replicas and deliveries, and whatever crashes, fails or lapses.
THEOREM SheetsImplementLease == Spec => LockIsLease
<1>1. Init => Lock!LockInit
  BY DEF Init, Lock!LockInit, Working, Body, Busy
<1>2. Spec => []LockInv
  BY LockInitially, LockNext, PTL DEF Spec
<1> QED
  BY <1>1, <1>2, StepRefines, PTL DEF Spec, LockIsLease, Lock!LockSpec

------------------------------------------------------------------------------
(* The status of a task and the flag of the project: what others see.      *)

\* A task shows RUNNING for a run that is still in its try block or in front of writing
\* FAILED, that died, or that could not write so.
RunningInv ==
    \A t \in Tasks :
        status[t] = "RUNNING" =>
            \E r \in Runs : /\ Task(r) = t
                            /\ pc[r] \in Try \cup {"fail", "crashed"} \/ r \in unrecorded

ShownInv == LockInv /\ RunIsShown /\ RunningInv

Announced == Try \ {"running"}
Flagged == Try \ {"running", "raise"}

\* What a step of run r does to its task's status and the flag, by where it stands.
ShownEffect(r) ==
    LET s == status[Task(r)]
        s1 == status'[Task(r)] IN
    \/ /\ pc[r] \in {"find", "acquire"} /\ pc'[r] \in {"acquire", "running", "ended"}
       /\ s1 = s /\ flag' = flag
    \/ pc[r] = "running" /\ pc'[r] = "raise" /\ s1 = "RUNNING" /\ flag' = flag
    \/ pc[r] = "raise" /\ pc'[r] = "read" /\ s1 = s /\ flag' = TRUE
    \/ pc[r] \in Flagged /\ pc'[r] \in Flagged /\ s1 = s /\ flag' = flag
    \/ pc[r] \in Try /\ pc'[r] = "fail" /\ s1 \in {s, "COMPLETED"} /\ flag' = flag
    \/ pc[r] = "finish" /\ pc'[r] = "lower" /\ s1 = "COMPLETED" /\ flag' = flag
    \/ /\ pc[r] = "fail" /\ pc'[r] = "lower" /\ flag' = flag
       /\ s1 \in {"GONE", "FAILED"} \/ (s1 = s /\ r \in unrecorded')
    \/ pc[r] = "lower" /\ pc'[r] = "unlock" /\ s1 = s
    \/ pc[r] = "unlock" /\ pc'[r] = "ended" /\ s1 = s /\ flag' = flag

ShownFrame(r) ==
    /\ \A t \in Tasks : t # Task(r) => status'[t] = status[t]
    /\ unrecorded \subseteq unrecorded'
    /\ ShownEffect(r)

LEMMA BodyStates ==
  /\ Flagged \subseteq Announced /\ Announced \subseteq Try /\ Try \subseteq Body
  /\ {"running", "raise", "fail", "lower", "unlock", "finish"} \subseteq Body
  /\ {"none", "find", "acquire", "ended", "crashed"} \cap Body = {}
  /\ {"running", "raise", "read", "finish"} \subseteq Try
  /\ {"fail", "lower", "unlock"} \cap Try = {}
  /\ "raise" \in Announced /\ "read" \in Flagged /\ "running" \notin Announced
  /\ "raise" \notin Flagged /\ Announced \subseteq Flagged \cup {"raise"}
  BY DEF Flagged, Announced, Try, Body, Busy, RunState

LEMMA ShownMoves == ASSUME TypeInv, NEW r \in Runs, RunMove(r) PROVE ShownFrame(r)
<1> USE DEF ShownFrame, ShownEffect, MoveTo, EndJob, bookVars, oddVars, dbVars
<1>0. /\ Task(r) \in Tasks /\ pc \in [Runs -> RunState] /\ status \in [Tasks -> TaskStatus]
      /\ unrecorded \in SUBSET Runs
  BY RunTypes DEF TypeInv, TypeOK
<1>1. CASE AcquireLock(r) \/ FindTask(r) \/ StartFails(r)
  BY <1>0, <1>1 DEF AcquireLock, FindTask, StartFails, Body, Busy
<1>2. CASE SetRunning(r)
  BY <1>0, <1>2 DEF SetRunning, Try, Body, Busy, RunState
<1>3. CASE RaiseFlag(r)
  BY <1>0, <1>3 DEF RaiseFlag
<1>4. CASE ReadRows(r) \/ ReplaceLinks(r) \/ RefetchLinks(r)
  BY <1>0, <1>4 DEF ReadRows, ReplaceLinks, RefetchLinks, Flagged, Try, Body, Busy, RunState
<1>5. CASE SaveInvalid(r)
  <2>1. pc[r] = "map" /\ (pc' = pc \/ pc' = [pc EXCEPT ![r] = "fail"])
    BY <1>5 DEF SaveInvalid
  <2> QED
    BY <1>0, <1>5, <2>1 DEF SaveInvalid, Flagged, Try, Body, Busy, RunState
<1>6. CASE StartProcessing(r) \/ StartChunk(r) \/ ChunkResolves(r) \/ ChunkRejects(r)
           \/ CollectResults(r) \/ WriteResultsBack(r)
  BY <1>0, <1>6 DEF StartProcessing, StartChunk, ChunkResolves, ChunkRejects, CollectResults,
              WriteResultsBack, Flagged, Try, Body, Busy, RunState
<1>7. CASE SetCompleted(r)
  BY <1>0, <1>7 DEF SetCompleted, Try, Body, Busy, RunState
<1>8. CASE SetFailed(r)
  BY <1>0, <1>8 DEF SetFailed
<1>9. CASE LowerFlag(r)
  BY <1>0, <1>9 DEF LowerFlag
<1>10. CASE Unlock(r)
  BY <1>0, <1>10 DEF Unlock
<1>11. CASE BodyFails(r)
  BY <1>0, <1>11 DEF BodyFails
<1> QED
  BY <1>1, <1>2, <1>3, <1>4, <1>5, <1>6, <1>7, <1>8, <1>9, <1>10, <1>11 DEF RunMove, RunStep

\* Everybody else may only take a task away.
ShownAway ==
    /\ UNCHANGED <<taskOf, flag, unrecorded>>
    /\ \A t \in Tasks : status'[t] \in {status[t], "GONE"}

LEMMA ShownElsewhere ==
  ASSUME TypeInv,
         \/ UserStep \/ UNCHANGED vars \/ ExpireLock \/ LapseLock
         \/ \E j \in Jobs : JobStep(j)
         \/ \E o \in Owners, l \in Links : CallStep(o, l) \/ CallFails(o, l)
         \/ \E procs \in SUBSET Owners : Crash(procs)
  PROVE  ShownAway
  BY DEF UserStep, RunNow, AddJob, CronFires, Recheck, DeleteOne, RemoveTask, Deliver, Redeliver,
         CallStep, FindLink, MarkChecking, SaveResult, CallFails, Crash, ExpireLock, LapseLock,
         JobStep, vars, oddVars, dbVars, ShownAway, TypeInv, TypeOK

\* Elsewhere a run that shows goes on, or dies.
LEMMA RunsElsewhere ==
  ASSUME LockInv,
         \/ AwayFrame \/ ExpireLock \/ LapseLock
         \/ \E j \in Jobs : Deliver(j)
         \/ \E procs \in SUBSET Owners : Crash(procs)
  PROVE  /\ lapsed' = {} => lapsed = {}
         /\ \A r \in Runs : /\ pc'[r] \in Body => pc[r] = pc'[r]
                            /\ pc[r] \in Body \cup {"crashed"} => pc'[r] \in {pc[r], "crashed"}
<1> USE DEF LockInv
<1>1. CASE AwayFrame \/ ExpireLock \/ LapseLock
  BY <1>1 DEF AwayFrame, ExpireLock, LapseLock, oddVars
<1>2. ASSUME NEW j \in Jobs, Deliver(j)
      PROVE  /\ lapsed' = lapsed
             /\ \A r \in Runs : pc'[r] = pc[r] \/ (pc[r] = "none" /\ pc'[r] = "find")
  BY <1>2, DeliverMoves DEF TypeInv, TypeOK
<1>3. ASSUME NEW procs \in SUBSET Owners, Crash(procs)
      PROVE  /\ lapsed' = lapsed
             /\ \A r \in Runs : pc'[r] = pc[r] \/ pc'[r] = "crashed"
  BY <1>3, CrashMoves
<1> QED
  BY <1>1, <1>2, <1>3 DEF Body, Busy

LEMMA ShownNext == ShownInv /\ [Next]_vars => ShownInv'
<1> SUFFICES ASSUME ShownInv, [Next]_vars PROVE ShownInv'
  OBVIOUS
<1>0. LockInv /\ LockInv' /\ TypeInv
  BY LockNext DEF ShownInv, LockInv
<1>1. ASSUME NEW r \in Runs, RunMove(r) PROVE RunIsShown' /\ RunningInv'
  <2>1. LockFrame(r) /\ ShownFrame(r)
    BY <1>0, <1>1, RunMoves, ShownMoves
  <2>2. /\ taskOf' = taskOf /\ lapsed' = lapsed
        /\ \A x \in Runs : x # r => pc'[x] = pc[x]
    BY <2>1 DEF LockFrame
  <2>3. ASSUME lapsed = {}, NEW x \in Runs, pc'[x] \in Announced
        PROVE  /\ status'[Task(x)] \in {"RUNNING", "GONE"}
               /\ pc'[x] \in Flagged => flag'
    <3>1. CASE x = r
      <4>1. /\ pc[r] \in Announced => status[Task(r)] \in {"RUNNING", "GONE"}
            /\ pc[r] \in Flagged => flag
        BY <2>3 DEF ShownInv, RunIsShown, Announced, Flagged
      <4>2. pc'[r] \in Announced
        BY <2>3, <3>1
      <4>3. \/ pc[r] = "running" /\ pc'[r] = "raise" /\ status'[Task(r)] = "RUNNING"
            \/ pc[r] = "raise" /\ pc'[r] = "read" /\ status'[Task(r)] = status[Task(r)] /\ flag'
            \/ pc[r] \in Flagged /\ status'[Task(r)] = status[Task(r)] /\ flag' = flag
        BY <2>1, <4>2, BodyStates DEF ShownFrame, ShownEffect
      <4> QED
        BY <3>1, <4>1, <4>3, BodyStates
    <3>2. CASE x # r
      <4>1. pc[x] \in Announced /\ pc[x] \in Body /\ pc[x] = pc'[x]
        BY <2>2, <2>3, <3>2, BodyStates
      <4>2. pc[r] \notin Body
        BY <1>0, <2>3, <3>2, <4>1 DEF LockInv, LockHeld
      <4>3. status'[Task(r)] = status[Task(r)] /\ flag' = flag
        BY <2>1, <4>2, BodyStates DEF ShownFrame, ShownEffect
      <4>4. status'[Task(x)] = status[Task(x)]
        <5>1. Task(x) \in Tasks
          BY <1>0, RunTypes DEF TypeInv
        <5> QED
          BY <2>1, <4>3, <5>1 DEF ShownFrame
      <4> QED
        BY <2>3, <4>1, <4>3, <4>4 DEF ShownInv, RunIsShown, Announced, Flagged
    <3> QED
      BY <3>1, <3>2
  <2>4. RunIsShown'
    BY <2>2, <2>3 DEF RunIsShown, Announced, Flagged, Task
  <2>5. ASSUME NEW t \in Tasks, status'[t] = "RUNNING"
        PROVE  \E x \in Runs : /\ Task(x) = t
                               /\ pc'[x] \in Try \cup {"fail", "crashed"} \/ x \in unrecorded'
    <3>1. CASE t # Task(r)
      <4>1. status[t] = "RUNNING"
        BY <2>1, <2>5, <3>1 DEF ShownFrame
      <4>2. PICK x \in Runs : /\ Task(x) = t
                              /\ pc[x] \in Try \cup {"fail", "crashed"} \/ x \in unrecorded
        BY <4>1 DEF ShownInv, RunningInv
      <4> QED
        BY <2>1, <2>2, <3>1, <4>2 DEF ShownFrame
    <3>2. CASE t = Task(r) /\ pc'[r] \in Try \cup {"fail"}
      BY <3>2
    <3>3. CASE t = Task(r) /\ pc'[r] \notin Try \cup {"fail"}
      <4>1. r \in unrecorded' \/ (status[t] = "RUNNING" /\ pc[r] \notin Try \cup {"fail", "crashed"})
        BY <2>1, <2>5, <3>3, BodyStates DEF ShownFrame, ShownEffect
      <4>2. CASE status[t] = "RUNNING" /\ pc[r] \notin Try \cup {"fail", "crashed"}
        <5>1. PICK x \in Runs : /\ Task(x) = t
                                /\ pc[x] \in Try \cup {"fail", "crashed"} \/ x \in unrecorded
          BY <4>2 DEF ShownInv, RunningInv
        <5> QED
          BY <2>1, <2>2, <4>2, <5>1 DEF ShownFrame
      <4> QED
        BY <3>3, <4>1, <4>2
    <3> QED
      BY <3>1, <3>2, <3>3
  <2>6. RunningInv'
    BY <2>2, <2>5 DEF RunningInv, Task
  <2> QED
    BY <2>4, <2>6
<1>2. ASSUME ShownAway,
             \/ AwayFrame \/ ExpireLock \/ LapseLock
             \/ \E j \in Jobs : Deliver(j)
             \/ \E procs \in SUBSET Owners : Crash(procs)
      PROVE  RunIsShown' /\ RunningInv'
  <2>1. /\ lapsed' = {} => lapsed = {}
        /\ \A r \in Runs : /\ pc'[r] \in Body => pc[r] = pc'[r]
                           /\ pc[r] \in Body \cup {"crashed"} => pc'[r] \in {pc[r], "crashed"}
    BY <1>0, <1>2, RunsElsewhere
  <2>2. \A r \in Runs : Task(r) \in Tasks /\ Task(r)' = Task(r)
    <3>1. \A r \in Runs : Task(r) \in Tasks
      BY <1>0, RunTypes DEF TypeInv
    <3> QED
      BY <1>2, <3>1 DEF ShownAway, Task
  <2>3. RunIsShown'
    BY <1>2, <2>1, <2>2 DEF ShownAway, ShownInv, RunIsShown, Try
  <2>4. RunningInv'
    <3>1. ASSUME NEW t \in Tasks, status'[t] = "RUNNING"
          PROVE  \E x \in Runs : /\ Task(x) = t
                                 /\ pc'[x] \in Try \cup {"fail", "crashed"} \/ x \in unrecorded'
      <4>1. status[t] = "RUNNING"
        BY <1>2, <3>1 DEF ShownAway
      <4>2. PICK x \in Runs : /\ Task(x) = t
                              /\ pc[x] \in Try \cup {"fail", "crashed"} \/ x \in unrecorded
        BY <4>1 DEF ShownInv, RunningInv
      <4>3. pc[x] \in Try \cup {"fail", "crashed"} => pc[x] \in Body \cup {"crashed"}
        BY DEF Try, Body, Busy, RunState
      <4> QED
        BY <1>2, <2>1, <4>2, <4>3 DEF ShownAway
    <3> QED
      BY <2>2, <3>1 DEF RunningInv
  <2> QED
    BY <2>3, <2>4
<1>3. ShownInv' <=> RunIsShown' /\ RunningInv'
  BY <1>0 DEF ShownInv
<1> QED
  BY <1>0, <1>1, <1>2, <1>3, ShownElsewhere, AwayMoves DEF Next, FaultStep, JobStep, RunMove

LEMMA ShownAlways == Spec => []ShownInv
<1>1. Init => ShownInv
  BY LockInitially DEF Init, ShownInv, RunIsShown, RunningInv, Try, Body, Busy
<1> QED
  BY <1>1, ShownNext, PTL DEF Spec

\* While a run works on a task the task shows RUNNING and the project shows that it is
\* being checked, whatever other runs of the project start, fail or end meanwhile.
THEOREM RunsAreShown == Spec => []RunIsShown
<1>1. ShownInv => RunIsShown
  BY DEF ShownInv
<1> QED
  BY <1>1, ShownAlways, PTL

\* No task shows RUNNING with nobody at work on it, except for a run that died or whose
\* write of FAILED failed: catch and finally forget no other.
THEOREM RunningHasOwner == Spec => []RunningOwned
<1>1. ShownInv => RunningOwned
  BY BodyStates DEF ShownInv, RunningInv, RunningOwned
<1> QED
  BY <1>1, ShownAlways, PTL

------------------------------------------------------------------------------
(* Calls of processOne.                                                    *)

\* What processOne does in one step to its call and to its link.
CallEffect(o, l) ==
    \/ link'[l] = link[l] /\ call[o][l] = "find" /\ call'[o][l] = "mark"
    \/ link'[l] = link[l] /\ ~Exists(l) /\ call'[o][l] = "idle"
    \/ link'[l] = link[l] /\ call'[o][l] = "threw"
    \/ link'[l] = "CHECKING" /\ Exists(l) /\ call'[o][l] = "crawl"
    \/ link'[l] = "checked" /\ Exists(l) /\ call'[o][l] = "idle"

CallFrame(o, l) ==
    /\ UNCHANGED <<taskOf, starts, lock, out, pc, bookVars, lapsed, shifted>>
    /\ call[o][l] \in InFlight
    /\ \A p \in Owners, k \in Links : p # o \/ k # l => call'[p][k] = call[p][k]
    /\ \A k \in Links : k # l => link'[k] = link[k]
    /\ CallEffect(o, l)

LEMMA CallMoves ==
  ASSUME TypeInv, NEW o \in Owners, NEW l \in Links, CallStep(o, l) \/ CallFails(o, l)
  PROVE  CallFrame(o, l)
<1>0. link \in [Links -> LinkState] /\ call \in [Owners -> [Links -> CallState]]
  BY DEF TypeInv, TypeOK
<1>1. ASSUME NEW v, Return(o, l, v)
      PROVE  /\ call'[o][l] = v
             /\ \A p \in Owners, k \in Links : p # o \/ k # l => call'[p][k] = call[p][k]
  BY <1>0, <1>1 DEF Return
<1> USE DEF CallFrame, CallEffect, InFlight, dbVars, bookVars, oddVars
<1>2. CASE FindLink(o, l)
  <2>1. CASE Exists(l)
    BY <1>1, <1>2, <2>1 DEF FindLink
  <2>2. CASE ~Exists(l)
    BY <1>1, <1>2, <2>2 DEF FindLink
  <2> QED
    BY <2>1, <2>2
<1>3. CASE MarkChecking(o, l)
  BY <1>0, <1>1, <1>3 DEF MarkChecking
<1>4. CASE SaveResult(o, l)
  BY <1>0, <1>1, <1>4 DEF SaveResult
<1>5. CASE CallFails(o, l)
  BY <1>1, <1>5 DEF CallFails
<1> QED
  BY <1>2, <1>3, <1>4, <1>5 DEF CallStep

\* A run has calls in flight only while it awaits a chunk or after it failed.
NoCalls == {"none", "find", "acquire", "running", "raise", "read", "replace", "refetch",
            "map", "chunk", "write", "finish"}

ChunkByChunk ==
    \A r \in Runs :
        /\ pc[r] \in NoCalls => \A l \in Links : call[r][l] = "idle"
        /\ pc[r] = "await" => \A l \in Links : call[r][l] # "lost"

CallsInv == LockInv /\ ChunkByChunk

\* What a step of run r leaves alone of other runs' calls and books, and of its calls.
BookFrame(r) ==
    /\ \A x \in Runs : x # r => /\ rows'[x] = rows[x] /\ rowOf'[x] = rowOf[x]
                                /\ todo'[x] = todo[x] /\ final'[x] = final[x]
    /\ \A o \in Owners : o # r => call'[o] = call[o]
    /\ \/ call' = call
       \/ /\ pc[r] = "chunk" /\ pc'[r] = "await"
          /\ \A l \in Links : call'[r][l] \in {call[r][l], "find"}

LEMMA BookMoves == ASSUME TypeInv, NEW r \in Runs, RunMove(r) PROVE BookFrame(r)
<1> USE DEF BookFrame, bookVars
<1>0. /\ r \in Owners /\ call \in [Owners -> [Links -> CallState]]
      /\ rows \in [Runs -> [RowNums -> RowKind]] /\ todo \in [Runs -> SUBSET Links]
      /\ rowOf \in [Runs -> [Links -> RowNums \cup {0}]]
      /\ final \in [Runs -> SUBSET (Links \X LinkState)] /\ pc \in [Runs -> RunState]
  BY RunTypes DEF TypeInv, TypeOK
<1>1. CASE \/ FindTask(r) \/ AcquireLock(r) \/ StartFails(r) \/ SetRunning(r) \/ RaiseFlag(r)
           \/ StartProcessing(r) \/ ChunkResolves(r) \/ ChunkRejects(r) \/ SetCompleted(r)
           \/ BodyFails(r) \/ SetFailed(r) \/ LowerFlag(r) \/ ReplaceLinks(r)
           \/ WriteResultsBack(r)
  BY <1>1 DEF FindTask, AcquireLock, StartFails, SetRunning, RaiseFlag, StartProcessing,
              ChunkResolves, ChunkRejects, SetCompleted, BodyFails, SetFailed, LowerFlag,
              ReplaceLinks, WriteResultsBack
<1>2. CASE ReadRows(r)
  BY <1>0, <1>2 DEF ReadRows
<1>3. CASE RefetchLinks(r)
  BY <1>0, <1>3 DEF RefetchLinks
<1>4. CASE SaveInvalid(r)
  <2>1. UNCHANGED <<rows, rowOf, final, call>>
    BY <1>4 DEF SaveInvalid
  <2>2. \A x \in Runs : x # r => todo'[x] = todo[x]
    BY <1>0, <1>4 DEF SaveInvalid
  <2> QED
    BY <2>1, <2>2
<1>5. CASE StartChunk(r)
  BY <1>0, <1>5 DEF StartChunk, MoveTo
<1>6. CASE CollectResults(r)
  BY <1>0, <1>6 DEF CollectResults
<1>7. CASE Unlock(r)
  BY <1>0, <1>7 DEF Unlock, Forget
<1> QED
  BY <1>1, <1>2, <1>3, <1>4, <1>5, <1>6, <1>7 DEF RunMove, RunStep

\* A run comes back from a chunk only when all calls have returned.
LEMMA AwaitMoves ==
  ASSUME TypeInv, NEW r \in Runs, RunMove(r)
  PROVE  /\ pc'[r] \in NoCalls => pc[r] \in NoCalls \/ (pc[r] = "await" /\ AllReturned(r))
         /\ pc'[r] = "await" => pc[r] = "chunk"
<1>1. CASE ChunkResolves(r)
  BY <1>1 DEF ChunkResolves, MoveTo, TypeInv, TypeOK
<1>2. CASE ~ChunkResolves(r)
  BY <1>2, BodyStates
     DEF RunMove, RunStep, FindTask, AcquireLock, StartFails, SetRunning, RaiseFlag,
         StartProcessing, ChunkRejects, SetCompleted, BodyFails, SetFailed,
         LowerFlag, ReplaceLinks, WriteResultsBack, ReadRows, RefetchLinks, SaveInvalid,
         StartChunk, CollectResults, Unlock, EndJob, MoveTo, NoCalls, TypeInv, TypeOK
<1> QED
  BY <1>1, <1>2

LEMMA CallsNext == CallsInv /\ [Next]_vars => CallsInv'
<1> SUFFICES ASSUME CallsInv, [Next]_vars PROVE CallsInv'
  OBVIOUS
<1>0. LockInv /\ LockInv' /\ TypeInv /\ \A r \in Runs : r \in Owners
  BY LockNext DEF CallsInv, LockInv, Owners
<1> USE DEF CallsInv, ChunkByChunk
<1>1. ASSUME NEW r \in Runs, RunMove(r) PROVE ChunkByChunk'
  <2>1. LockFrame(r) /\ BookFrame(r)
    BY <1>0, <1>1, RunMoves, BookMoves
  <2>2. ASSUME NEW x \in Runs, x # r
        PROVE  pc'[x] = pc[x] /\ call'[x] = call[x]
    BY <1>0, <2>1, <2>2 DEF LockFrame, BookFrame
  <2>3. /\ pc'[r] \in NoCalls => \A l \in Links : call'[r][l] = "idle"
        /\ pc'[r] = "await" => \A l \in Links : call'[r][l] # "lost"
    BY <1>0, <1>1, <2>1, AwaitMoves DEF BookFrame, AllReturned, NoCalls
  <2> QED
    BY <2>2, <2>3
<1>2. ASSUME NEW o \in Owners, NEW l \in Links, CallStep(o, l) \/ CallFails(o, l)
      PROVE  ChunkByChunk'
  <2>1. CallFrame(o, l)
    BY <1>0, <1>2, CallMoves
  <2>2. call'[o][l] # "lost" /\ call[o][l] # "idle"
    BY <2>1 DEF CallFrame, CallEffect, InFlight
  <2> QED
    BY <1>0, <2>1, <2>2 DEF CallFrame
<1>3. ASSUME NEW j \in Jobs, Deliver(j) PROVE ChunkByChunk'
  <2>1. /\ \A r \in Runs : pc'[r] = pc[r] \/ (pc[r] = "none" /\ pc'[r] = "find")
    BY ZenonT(40), <1>0, <1>3, DeliverMoves DEF TypeInv, TypeOK, LockInv
  <2>2. call' = call
    BY <1>3 DEF Deliver
  <2> QED
    BY <2>1, <2>2 DEF NoCalls
<1>4. ASSUME NEW procs \in SUBSET Owners, Crash(procs) PROVE ChunkByChunk'
  <2>1. \A r \in Runs, l \in Links :
           call'[r][l] = IF r \in procs /\ call[r][l] \in InFlight THEN "lost" ELSE call[r][l]
    BY <1>0, <1>4 DEF Crash
  <2>2. \A r \in Runs : /\ pc'[r] = pc[r] \/ pc'[r] = "crashed"
                        /\ r \in procs => pc'[r] \notin Busy
    BY <1>4, CrashMoves
  <2> QED
    BY <2>1, <2>2 DEF NoCalls, InFlight, Busy, RunState
<1>5. ASSUME NEW c \in Rechecks, NEW l \in Links, Recheck(c, l) PROVE ChunkByChunk'
  <2>1. pc' = pc /\ \A r \in Runs : call'[r] = call[r]
    BY <1>0, <1>5 DEF Recheck, Return, TypeInv, TypeOK, Owners
  <2> QED
    BY <2>1
<1>6. CASE \/ \E j \in Jobs : RunNow(j) \/ AddJob(j) \/ CronFires(j) \/ Redeliver(j)
           \/ \E l \in Links : DeleteOne(l)
           \/ \E t \in Tasks : RemoveTask(t)
           \/ ExpireLock \/ LapseLock \/ UNCHANGED vars
  <2>1. UNCHANGED <<pc, call>>
    BY <1>6 DEF RunNow, AddJob, CronFires, Redeliver, DeleteOne, RemoveTask, ExpireLock,
                LapseLock, vars
  <2> QED
    BY <1>0, <2>1
<1>7. CallsInv' <=> ChunkByChunk'
  BY <1>0
<1> QED
  BY <1>1, <1>2, <1>3, <1>4, <1>5, <1>6, <1>7 DEF Next, FaultStep, JobStep, UserStep, RunMove
------------------------------------------------------------------------------
(* Results.  While no lock lapses, the links of a task belong to the run   *)
(* that works on it, and each of them is on its way to its row.            *)

PlaceStates == {"refetch", "map", "chunk", "await", "write", "finish"}

Own(r) == {r} \X RowNums

\* The links a run re-fetches are those it created, all of them unless it lost one.
Refetching(r) ==
    pc[r] = "refetch" =>
        /\ LinksOf(Task(r)) \subseteq {r} \X ValidRows(r)
        /\ r \in shifted \/ LinksOf(Task(r)) = {r} \X ValidRows(r) \/ LinksOf(Task(r)) = {}

\* A run takes no link for another row's, unless it lost one before it fetched them.
Mapping(r) ==
    \A l \in Links : rowOf[r][l] # 0 => l[1] = r /\ (rowOf[r][l] = l[2] \/ r \in shifted)

\* A run works on no link but its own.
OwnWork(r) ==
    /\ todo[r] \subseteq Own(r)
    /\ \A l \in Links : call[r][l] # "idle" => l[1] = r

\* No other run's links appear in its task, and it has a row for each that is there.
Placing(r) ==
    pc[r] \in PlaceStates \ {"refetch"} =>
        /\ LinksOf(Task(r)) \subseteq Own(r)
        /\ r \in shifted \/ \A l \in LinksOf(Task(r)) : rowOf[r][l] = l[2]

\* A link is ahead of its run, in one of its calls, or checked; or a recheck has it.
Dealt(r, l) ==
    \/ l \in todo[r] \/ call[r][l] # "idle" \/ link[l] = "checked"
    \/ \E c \in Rechecks : call[c][l] \in {"crawl", "threw", "lost"}

Accounted(r) == pc[r] \in {"map", "chunk", "await"} => \A l \in LinksOf(Task(r)) : Dealt(r, l)

\* What is written back covers every link that is still there.
Collected(r) ==
    pc[r] \in {"write", "finish"} =>
        \A l \in LinksOf(Task(r)) : \E s \in LinkState : <<l, s>> \in final[r]

Answered(r) ==
    pc[r] = "finish" /\ r \notin shifted =>
        \A n \in RowNums : Exists(<<r, n>>) => {e[1] : e \in out[Task(r)][n]} = {<<r, n>>}

Placed(r) == /\ Refetching(r) /\ Mapping(r) /\ OwnWork(r) /\ Placing(r)
             /\ Accounted(r) /\ Collected(r) /\ Answered(r)

ResultsInv == CallsInv /\ BesideItsRow /\ (lapsed = {} => \A r \in Runs : Placed(r))

LEMMA ResultsInitially == Init => ResultsInv
<1> SUFFICES ASSUME Init PROVE ResultsInv
  OBVIOUS
<1>1. ChunkByChunk /\ BesideItsRow
  BY DEF Init, ChunkByChunk, NoCalls, BesideItsRow, Owners
<1>2. ASSUME NEW r \in Runs PROVE Placed(r)
  <2>1. Mapping(r) /\ OwnWork(r)
    BY DEF Init, Mapping, OwnWork, NoPlaces, Owners
  <2>2. pc[r] \notin PlaceStates
    BY DEF Init, PlaceStates
  <2> QED
    BY <2>1, <2>2
       DEF Placed, Refetching, Placing, Accounted, Collected, Answered, PlaceStates
<1> QED
  BY <1>1, <1>2, LockInitially DEF ResultsInv, CallsInv

\* A step that does not touch a run's locals, and only removes links or deals with them.
Kept(x) ==
    /\ taskOf' = taskOf /\ shifted \subseteq shifted'
    /\ pc'[x] = pc[x] /\ rows'[x] = rows[x] /\ rowOf'[x] = rowOf[x]
    /\ todo'[x] = todo[x] /\ final'[x] = final[x] /\ out'[Task(x)] = out[Task(x)]
    /\ \A l \in Links : link'[l] # "absent" => link[l] # "absent"
    /\ \A l \in Links : call'[x][l] # "idle" => call[x][l] # "idle"
    /\ pc[x] = "refetch" => \/ x \in shifted'
                            \/ LinksOf(Task(x))' = LinksOf(Task(x))
                            \/ LinksOf(Task(x))' = {}
    /\ pc[x] \in {"map", "chunk", "await"} =>
          \A l \in LinksOf(Task(x)) : l[1] = x /\ Dealt(x, l) /\ link'[l] # "absent" => Dealt(x, l)'

LEMMA PlacedKept == ASSUME TypeInv, NEW x \in Runs, Placed(x), Kept(x) PROVE Placed(x)'
<1> USE DEF Kept, Placed
<1>0. /\ Task(x)' = Task(x) /\ ValidRows(x)' = ValidRows(x)
      /\ \A l \in Links : Exists(l)' => Exists(l)
      /\ LinksOf(Task(x))' \subseteq LinksOf(Task(x))
  BY DEF Task, ValidRows, Exists, LinksOf
<1>1. Refetching(x)'
  BY <1>0 DEF Refetching
<1>2. Mapping(x)' /\ OwnWork(x)'
  BY DEF Mapping, OwnWork, Own
<1>3. Placing(x)'
  BY <1>0 DEF Placing, Own
<1>4. Collected(x)'
  BY <1>0 DEF Collected
<1>5. Answered(x)'
  <2>1. \A n \in RowNums : <<x, n>> \in Links
    BY DEF Links
  <2> QED
    BY <1>0, <2>1 DEF Answered
<1>6. Accounted(x)'
  <2>1. ASSUME pc[x] \in {"map", "chunk", "await"}, NEW l \in LinksOf(Task(x))'
        PROVE  Dealt(x, l)'
    <3>1. l \in LinksOf(Task(x)) /\ link'[l] # "absent"
      BY <1>0, <2>1 DEF LinksOf, Exists
    <3>2. l[1] = x
      BY <2>1, <3>1 DEF Placing, PlaceStates, Own
    <3>3. Dealt(x, l)
      BY <2>1, <3>1 DEF Accounted
    <3> QED
      BY <2>1, <3>1, <3>2, <3>3
  <2> QED
    BY <2>1 DEF Accounted
<1> QED
  BY <1>1, <1>2, <1>3, <1>4, <1>5, <1>6

\* Where no places are in use, only the map and the work of a run count.
LEMMA PlacedIdle ==
  ASSUME NEW x \in Runs, pc'[x] \notin PlaceStates, Mapping(x)', OwnWork(x)'
  PROVE  Placed(x)'
  BY DEF Placed, Refetching, Placing, Accounted, Collected, Answered, PlaceStates

\* The steps of users keep every run's places.
LEMMA PlacedUser ==
  ASSUME TypeInv, NEW x \in Runs, Placed(x),
         (\E l \in Links : DeleteOne(l)) \/ (\E t \in Tasks : RemoveTask(t))
  PROVE  Placed(x)'
<1> DEFINE Same == /\ UNCHANGED <<taskOf, pc, rows, rowOf, todo, final, out, call>>
                   /\ shifted \subseteq shifted'
                   /\ \A l \in Links : link'[l] = link[l] \/ link'[l] = "absent"
<1>1. Same
  BY DEF DeleteOne, RemoveTask, TypeInv, TypeOK, bookVars
<1>2. pc[x] = "refetch" => \/ x \in shifted'
                           \/ LinksOf(Task(x))' = LinksOf(Task(x))
                           \/ LinksOf(Task(x))' = {}
  <2>1. ASSUME NEW l \in Links, DeleteOne(l), pc[x] = "refetch"
        PROVE  x \in shifted' \/ LinksOf(Task(x))' = LinksOf(Task(x))
    <3>1. CASE Task(l[1]) = Task(x)
      BY <2>1, <3>1 DEF DeleteOne, Missing
    <3>2. CASE Task(l[1]) # Task(x)
      <4>1. \A k \in Links : k # l => link'[k] = link[k]
        BY <2>1 DEF DeleteOne, TypeInv, TypeOK
      <4> QED
        BY <1>1, <3>2, <4>1 DEF LinksOf, Exists, Task
    <3> QED
      BY <3>1, <3>2
  <2>2. ASSUME NEW t \in Tasks, RemoveTask(t)
        PROVE  LinksOf(Task(x))' = LinksOf(Task(x)) \/ LinksOf(Task(x))' = {}
    <3>1. \A k \in Links : link'[k] = IF k \in LinksOf(t) THEN "absent" ELSE link[k]
      BY <2>2 DEF RemoveTask
    <3>2. CASE t = Task(x)
      BY <1>1, <3>1, <3>2 DEF LinksOf, Exists, Task
    <3>3. CASE t # Task(x)
      BY <1>1, <3>1, <3>3 DEF LinksOf, Exists, Task
    <3> QED
      BY <3>2, <3>3
  <2> QED
    BY <2>1, <2>2
<1>3. \A l \in Links : Dealt(x, l) /\ link'[l] # "absent" => Dealt(x, l)'
  BY <1>1 DEF Dealt
<1>4. Kept(x)
  BY <1>1, <1>2, <1>3 DEF Kept, LinksOf
<1> QED
  BY <1>4, PlacedKept

\* A call on a link of the run is the run's own or a recheck's.
LEMMA PlacedCall ==
  ASSUME TypeInv, \A y \in Runs : Placed(y), NEW x \in Runs,
         NEW o \in Owners, NEW l \in Links, CallFrame(o, l)
  PROVE  Placed(x)'
<1>0. x \in Owners /\ (o \in Runs \/ o \in Rechecks) /\ \A c \in Rechecks : c \in Owners
  BY DEF Owners
<1>1. /\ UNCHANGED <<taskOf, pc, rows, rowOf, todo, final, out, shifted>>
      /\ \A k \in Links : link'[k] = "absent" <=> link[k] = "absent"
      /\ \A k \in Links : call'[x][k] # "idle" => call[x][k] # "idle"
  BY <1>0 DEF CallFrame, CallEffect, Exists, InFlight, bookVars
<1>2. ASSUME NEW k \in Links, k[1] = x, Dealt(x, k), link'[k] # "absent"
      PROVE  Dealt(x, k)'
  <2>1. CASE k # l
    BY <1>0, <1>1, <1>2, <2>1 DEF CallFrame, Dealt
  <2>2. CASE k = l /\ o \in Runs
    <3>1. o = x
      BY <1>2, <2>2 DEF CallFrame, InFlight, Placed, OwnWork
    <3> QED
      BY <1>1, <1>2, <2>2, <3>1 DEF CallFrame, CallEffect, Dealt, Exists
  <2>3. CASE k = l /\ o \in Rechecks
    <3>1. call'[x][l] = call[x][l] /\ \A c \in Rechecks : c # o => call'[c][l] = call[c][l]
      BY <1>0, <2>3 DEF CallFrame
    <3> QED
      BY <1>0, <1>1, <1>2, <2>3, <3>1 DEF CallFrame, CallEffect, Dealt, Exists
  <2> QED
    BY <1>0, <2>1, <2>2, <2>3
<1>3. LinksOf(Task(x))' = LinksOf(Task(x))
  BY <1>1 DEF LinksOf, Exists, Task
<1>4. Kept(x)
  BY <1>1, <1>2, <1>3 DEF Kept, LinksOf
<1> QED
  BY <1>4, PlacedKept

\* Everybody else leaves links and books alone, except for what dies with a worker.
LEMMA PlacedOther ==
  ASSUME CallsInv, NEW x \in Runs, Placed(x),
         \/ \E j \in Jobs : RunNow(j) \/ AddJob(j) \/ CronFires(j) \/ JobStep(j)
         \/ \E c \in Rechecks, l \in Links : Recheck(c, l)
         \/ \E procs \in SUBSET Owners : Crash(procs)
         \/ ExpireLock \/ LapseLock \/ UNCHANGED vars
  PROVE  Placed(x)'
<1> USE DEF CallsInv, LockInv
<1>0. x \in Owners /\ \A c \in Rechecks : c \in Owners
  BY DEF Owners
<1> DEFINE Rest == UNCHANGED <<taskOf, link, out, shifted>>
<1>1. ASSUME \/ \E j \in Jobs : RunNow(j) \/ AddJob(j) \/ CronFires(j) \/ Redeliver(j)
             \/ ExpireLock \/ LapseLock \/ UNCHANGED vars
      PROVE  Placed(x)'
  <2>1. Rest /\ UNCHANGED <<pc, rows, rowOf, todo, final, call>>
    BY <1>1 DEF RunNow, AddJob, CronFires, Redeliver, ExpireLock, LapseLock, vars, dbVars,
                bookVars, oddVars
  <2>2. Kept(x)
    BY <2>1 DEF Kept, LinksOf, Exists, Task, Dealt
  <2> QED
    BY <2>2, PlacedKept
<1>2. ASSUME NEW j \in Jobs, Deliver(j) PROVE Placed(x)'
  <2>1. Rest /\ UNCHANGED <<rows, rowOf, todo, final, call>>
    BY <1>2 DEF Deliver, dbVars, bookVars, oddVars
  <2>2. pc'[x] = pc[x] \/ pc'[x] = "find"
    BY <1>2, DeliverMoves DEF TypeInv, TypeOK
  <2>3. CASE pc'[x] = pc[x]
    <3>1. Kept(x)
      BY <2>1, <2>3 DEF Kept, LinksOf, Exists, Task, Dealt
    <3> QED
      BY <3>1, PlacedKept
  <2>4. CASE pc'[x] = "find"
    <3>1. Mapping(x)' /\ OwnWork(x)' /\ pc'[x] \notin PlaceStates
      BY <2>1, <2>4 DEF Placed, Mapping, OwnWork, Own, PlaceStates
    <3> QED
      BY <3>1, PlacedIdle
  <2> QED
    BY <2>2, <2>3, <2>4
<1>3. ASSUME NEW c \in Rechecks, NEW k \in Links, Recheck(c, k) PROVE Placed(x)'
  <2>1. Rest /\ UNCHANGED <<pc, rows, rowOf, todo, final>>
    BY <1>3 DEF Recheck, dbVars, bookVars
  <2>2. /\ call'[x] = call[x] /\ \A m \in Links : call[c][m] = "idle"
        /\ \A p \in Rechecks : p # c => call'[p] = call[p]
    BY <1>0, <1>3 DEF Recheck, Return, TypeInv, TypeOK
  <2>3. \A l \in Links : Dealt(x, l) => Dealt(x, l)'
    BY <2>1, <2>2 DEF Dealt
  <2>4. Kept(x)
    BY <2>1, <2>2, <2>3 DEF Kept, LinksOf, Exists, Task
  <2> QED
    BY <2>4, PlacedKept
<1>4. ASSUME NEW procs \in SUBSET Owners, Crash(procs) PROVE Placed(x)'
  <2>1. /\ Rest
        /\ \A o \in Owners, l \in Links :
              call'[o][l] = IF o \in procs /\ call[o][l] \in InFlight THEN "lost" ELSE call[o][l]
    BY <1>4 DEF Crash, dbVars
  <2>2. \A l \in Links : call'[x][l] # "idle" <=> call[x][l] # "idle"
    BY <1>0, <2>1 DEF InFlight
  <2>3. CASE x \notin procs
    <3>1. /\ rows'[x] = rows[x] /\ rowOf'[x] = rowOf[x] /\ todo'[x] = todo[x]
          /\ final'[x] = final[x] /\ pc'[x] = pc[x]
      BY <1>4, <2>3, CrashMoves DEF Crash, Forget
    <3>2. \A l \in Links : Dealt(x, l) => Dealt(x, l)'
      BY <1>0, <2>1, <3>1 DEF Dealt, InFlight
    <3>3. Kept(x)
      BY <2>1, <2>2, <3>1, <3>2 DEF Kept, LinksOf, Exists, Task
    <3> QED
      BY <3>3, PlacedKept
  <2>4. CASE x \in procs
    <3>1. rowOf'[x] = NoPlaces /\ todo'[x] = {} /\ pc'[x] \notin PlaceStates
      BY <1>4, <2>4, CrashMoves DEF Crash, Forget, PlaceStates, Busy, RunState
    <3>2. Mapping(x)' /\ OwnWork(x)'
      BY <2>2, <3>1 DEF Mapping, OwnWork, NoPlaces, Placed
    <3> QED
      BY <3>1, <3>2, PlacedIdle
  <2> QED
    BY <2>3, <2>4
<1> QED
  BY <1>1, <1>2, <1>3, <1>4 DEF JobStep
\* A step of a run that stands outside the places afterwards leaves links and results
\* alone, unless it writes nothing but its own locals.
LEMMA OutsidePlaces ==
  ASSUME TypeInv, NEW r \in Runs, RunMove(r), pc'[r] \notin PlaceStates
  PROVE  /\ UNCHANGED <<taskOf, link, out, call, shifted>>
         /\ rowOf'[r] = rowOf[r] \/ rowOf'[r] = NoPlaces
         /\ todo'[r] = todo[r] \/ todo'[r] = {}
<1> USE DEF MoveTo, EndJob, dbVars, bookVars, oddVars
<1>0. pc \in [Runs -> RunState]
  BY DEF TypeInv, TypeOK
<1>1. CASE \/ FindTask(r) \/ AcquireLock(r) \/ StartFails(r) \/ SetRunning(r) \/ RaiseFlag(r)
           \/ ReadRows(r) \/ ChunkRejects(r) \/ SetCompleted(r) \/ BodyFails(r)
           \/ SetFailed(r) \/ LowerFlag(r)
  BY <1>1 DEF FindTask, AcquireLock, StartFails, SetRunning, RaiseFlag, ReadRows, ChunkRejects,
              SetCompleted, BodyFails, SetFailed, LowerFlag
<1>2. CASE ReplaceLinks(r)
  BY <1>0, <1>2 DEF ReplaceLinks, PlaceStates
<1>3. CASE RefetchLinks(r) \/ StartProcessing(r) \/ StartChunk(r) \/ ChunkResolves(r)
           \/ CollectResults(r) \/ WriteResultsBack(r)
  BY <1>0, <1>3 DEF RefetchLinks, StartProcessing, StartChunk, ChunkResolves, CollectResults,
                    WriteResultsBack, PlaceStates
<1>4. CASE SaveInvalid(r)
  <2>1. PICK l \in Unsaved(r) :
           IF rowOf[r][l] # 0 /\ Exists(l)
           THEN /\ link' = [link EXCEPT ![l] = "checked"]
                /\ todo' = [todo EXCEPT ![r] = @ \ {l}]
                /\ UNCHANGED pc
           ELSE MoveTo(r, "fail") /\ UNCHANGED <<link, todo>>
    BY <1>4 DEF SaveInvalid
  <2>2. pc[r] = "map" /\ UNCHANGED <<taskOf, out, call, shifted, rowOf>>
    BY <1>4 DEF SaveInvalid
  <2> QED
    BY <2>1, <2>2 DEF PlaceStates
<1>5. CASE Unlock(r)
  BY <1>5 DEF Unlock, Forget
<1> QED
  BY <1>1, <1>2, <1>3, <1>4, <1>5 DEF RunMove, RunStep

\* A run that does not hold the lock touches neither links nor results.
LEMMA WithoutLock ==
  ASSUME TypeInv, NEW r \in Runs, RunMove(r), pc[r] \notin Body
  PROVE  UNCHANGED <<link, out, call, rows, rowOf, todo, final>>
<1> USE DEF dbVars, bookVars, oddVars
<1>1. CASE FindTask(r) \/ AcquireLock(r) \/ StartFails(r)
  BY <1>1 DEF FindTask, AcquireLock, StartFails
<1>2. CASE ~(FindTask(r) \/ AcquireLock(r) \/ StartFails(r))
  <2>1. pc[r] \in {"running", "raise", "fail", "lower", "unlock", "read", "replace", "refetch",
                   "map", "chunk", "await", "write", "finish"} \cup (Try \ {"await"})
    BY <1>2 DEF RunMove, RunStep, SetRunning, RaiseFlag, StartProcessing, ChunkRejects,
                ChunkResolves, SetCompleted, BodyFails, SetFailed, LowerFlag, ReplaceLinks,
                WriteResultsBack, ReadRows, RefetchLinks, SaveInvalid, StartChunk,
                CollectResults, Unlock
  <2> QED
    BY <2>1 DEF Try, Body, Busy, RunState
<1> QED
  BY <1>1, <1>2

LEMMA PlacedReplace ==
  ASSUME TypeInv, NEW r \in Runs, Placed(r), ReplaceLinks(r), pc'[r] = "refetch"
  PROVE  Placed(r)'
<1> USE DEF bookVars, oddVars
<1>1. UNCHANGED <<taskOf, rows, rowOf, todo, final, call, shifted>>
  BY DEF ReplaceLinks
<1>2. \A l \in Links :
         link'[l] = IF l[1] = r /\ l[2] \in ValidRows(r) THEN "PENDING"
                    ELSE IF l \in LinksOf(Task(r)) THEN "absent" ELSE link[l]
  BY DEF ReplaceLinks, MoveTo, TypeInv, TypeOK
<1>3. Task(r)' = Task(r) /\ ValidRows(r)' = ValidRows(r)
  BY <1>1 DEF Task, ValidRows
<1>4. ASSUME NEW l \in Links, link'[l] # "absent", taskOf[l[1][1]] = Task(r)
      PROVE  l \in {r} \X ValidRows(r)
  <2>1. l[1] = r /\ l[2] \in ValidRows(r)
    BY <1>2, <1>4 DEF LinksOf, Exists, Task
  <2> QED
    BY <2>1 DEF Links
<1>5. ASSUME NEW l \in {r} \X ValidRows(r)
      PROVE  l \in Links /\ link'[l] # "absent" /\ taskOf[l[1][1]] = Task(r)
  <2>1. l \in Links /\ l[1] = r /\ l[2] \in ValidRows(r)
    BY DEF Links, ValidRows
  <2> QED
    BY <1>2, <2>1 DEF Task
<1>6. LinksOf(Task(r))' = {r} \X ValidRows(r)
  BY <1>1, <1>3, <1>4, <1>5 DEF LinksOf, Exists, Task
<1>7. Refetching(r)' /\ Mapping(r)' /\ OwnWork(r)'
  BY <1>1, <1>3, <1>6 DEF Refetching, Placed, Mapping, OwnWork, Own
<1> QED
  BY <1>7 DEF Placed, Placing, Accounted, Collected, Answered, PlaceStates

LEMMA PlacedRefetch ==
  ASSUME CallsInv, NEW r \in Runs, Placed(r), RefetchLinks(r)
  PROVE  Placed(r)'
<1> DEFINE L == LinksOf(Task(r))
<1> USE DEF CallsInv, LockInv, dbVars, oddVars
<1>1. /\ UNCHANGED <<taskOf, rows, final, call, shifted, link>>
      /\ pc[r] = "refetch" /\ pc'[r] = "map" /\ todo'[r] = L
      /\ \A l \in Links : rowOf'[r][l] = IF l \in L THEN RowAt(l, L, r) ELSE 0
  BY DEF RefetchLinks, MoveTo, TypeInv, TypeOK
<1>2. LinksOf(Task(r))' = L /\ Task(r)' = Task(r) /\ L \subseteq Links
  BY <1>1 DEF LinksOf, Exists, Task
<1>3. /\ L \subseteq {r} \X ValidRows(r)
      /\ r \in shifted \/ L = {r} \X ValidRows(r) \/ L = {}
  BY <1>1 DEF Placed, Refetching
<1>4. L \subseteq Own(r)
  BY <1>3 DEF Own, ValidRows
<1>5. ASSUME NEW l \in L, r \notin shifted PROVE RowAt(l, L, r) = l[2]
  <2>1. L = {r} \X ValidRows(r)
    BY <1>3, <1>5
  <2>2. l[2] \in ValidRows(r) /\ l = <<r, l[2]>>
    BY <2>1
  <2>3. RowAt(<<r, l[2]>>, {r} \X ValidRows(r), r) = l[2]
    BY <2>2, RowAtOwn
  <2> QED
    BY <2>1, <2>2, <2>3
<1>6. \A l \in L : l[1] = r
  BY <1>4 DEF Own
<1>7. Mapping(r)'
  BY <1>1, <1>5, <1>6 DEF Mapping
<1>8. OwnWork(r)' /\ Placing(r)' /\ Accounted(r)'
  BY <1>1, <1>2, <1>4, <1>5 DEF Placed, OwnWork, Own, Placing, Accounted, Dealt
<1> QED
  BY <1>1, <1>7, <1>8 DEF Placed, Refetching, Collected, Answered

\* The link of a malformed row is saved at once.
LEMMA PlacedSave ==
  ASSUME TypeInv, NEW r \in Runs, Placed(r), SaveInvalid(r), pc'[r] = "map"
  PROVE  Placed(r)'
<1> USE DEF MoveTo, dbVars, bookVars, oddVars
<1>1. PICK l \in Unsaved(r) :
         IF rowOf[r][l] # 0 /\ Exists(l)
         THEN /\ link' = [link EXCEPT ![l] = "checked"]
              /\ todo' = [todo EXCEPT ![r] = @ \ {l}]
              /\ UNCHANGED pc
         ELSE MoveTo(r, "fail") /\ UNCHANGED <<link, todo>>
  BY DEF SaveInvalid
<1>2. /\ UNCHANGED <<taskOf, rows, rowOf, final, call, shifted>> /\ pc[r] = "map"
      /\ l \in Links /\ Exists(l)
      /\ \A k \in Links : link'[k] = IF k = l THEN "checked" ELSE link[k]
      /\ todo'[r] = todo[r] \ {l}
  <2>1. UNCHANGED <<taskOf, rows, rowOf, final, call, shifted>> /\ pc[r] = "map"
    BY DEF SaveInvalid
  <2>2. l \in Links /\ rowOf[r][l] # 0 /\ Exists(l)
    BY <1>1 DEF Unsaved, TypeInv, TypeOK
  <2> QED
    BY <1>1, <2>1, <2>2 DEF TypeInv, TypeOK
<1>3. LinksOf(Task(r))' = LinksOf(Task(r)) /\ LinksOf(Task(r)) \subseteq Links
  BY <1>2 DEF LinksOf, Exists, Task
<1>4. \A k \in LinksOf(Task(r)) : Dealt(r, k) => Dealt(r, k)'
  BY <1>2, <1>3 DEF Dealt
<1>5. Mapping(r)' /\ OwnWork(r)'
  BY <1>2 DEF Placed, Mapping, OwnWork, Own
<1>6. Placing(r)' /\ Accounted(r)'
  BY <1>2, <1>3, <1>4 DEF Placed, Placing, PlaceStates, Own, Accounted
<1> QED
  BY <1>5, <1>6 DEF Placed, Refetching, Collected, Answered

\* A run that starts or ends a chunk has each link in its list or in a call.
LEMMA PlacedChunk ==
  ASSUME TypeInv, ChunkByChunk, NEW r \in Runs, Placed(r),
         StartProcessing(r) \/ StartChunk(r) \/ ChunkResolves(r)
  PROVE  Placed(r)'
<1> USE DEF MoveTo, dbVars, bookVars, oddVars
<1>0. r \in Owners
  BY DEF Owners
<1>1. /\ UNCHANGED <<taskOf, rows, rowOf, final, link, shifted>>
      /\ pc[r] \in {"map", "chunk", "await"} /\ pc'[r] \in {"chunk", "await"}
      /\ \A o \in Owners : o # r => call'[o] = call[o]
  BY <1>0 DEF StartProcessing, StartChunk, ChunkResolves, TypeInv, TypeOK
<1>2. /\ todo'[r] \subseteq todo[r]
      /\ \A l \in Links : l \in todo[r] => l \in todo'[r] \/ call'[r][l] # "idle"
      /\ \A l \in Links : call[r][l] # "idle" => call'[r][l] # "idle"
      /\ \A l \in Links : call'[r][l] # "idle" => call[r][l] # "idle" \/ l \in todo[r]
  <2>1. CASE StartChunk(r)
    <3> DEFINE slice == {l \in todo[r] : Place(l, todo[r]) <= ChunkSize}
    <3>1. /\ todo'[r] = todo[r] \ slice
          /\ \A l \in Links : call'[r][l] = IF l \in slice THEN "find" ELSE call[r][l]
      BY <1>0, <2>1 DEF StartChunk, TypeInv, TypeOK
    <3>2. slice \subseteq todo[r]
      OBVIOUS
    <3> HIDE DEF slice
    <3> QED
      BY <3>1, <3>2
  <2>2. CASE StartProcessing(r) \/ ChunkResolves(r)
    BY <2>2 DEF StartProcessing, ChunkResolves
  <2> QED
    BY <2>1, <2>2
<1>3. LinksOf(Task(r))' = LinksOf(Task(r)) /\ LinksOf(Task(r)) \subseteq Links
  BY <1>1 DEF LinksOf, Exists, Task
<1>4. \A c \in Rechecks : c \in Owners /\ c # r
  BY DEF Owners
<1>5. \A k \in LinksOf(Task(r)) : Dealt(r, k) => Dealt(r, k)'
  BY <1>1, <1>2, <1>3, <1>4 DEF Dealt
<1>6. Mapping(r)'
  BY <1>1 DEF Placed, Mapping
<1>7. OwnWork(r)'
  <2>1. \A l \in todo[r] : l[1] = r
    BY DEF Placed, OwnWork, Own
  <2> QED
    BY <1>2, <2>1 DEF Placed, OwnWork, Own
<1>8. Placing(r)' /\ Accounted(r)'
  BY <1>1, <1>3, <1>5 DEF Placed, Placing, PlaceStates, Own, Accounted
<1> QED
  BY <1>1, <1>6, <1>7, <1>8 DEF Placed, Refetching, Collected, Answered

LEMMA PlacedCollect ==
  ASSUME TypeInv, NEW r \in Runs, Placed(r), CollectResults(r)
  PROVE  Placed(r)'
<1> USE DEF MoveTo, dbVars, bookVars, oddVars
<1>1. /\ UNCHANGED <<taskOf, rows, rowOf, todo, call, link, shifted>>
      /\ pc[r] = "chunk" /\ pc'[r] = "write"
      /\ final'[r] = {<<l, link[l]>> : l \in LinksOf(Task(r))}
  BY DEF CollectResults, TypeInv, TypeOK
<1>2. LinksOf(Task(r))' = LinksOf(Task(r)) /\ LinksOf(Task(r)) \subseteq Links
  BY <1>1 DEF LinksOf, Exists, Task
<1>3. \A l \in Links : link[l] \in LinkState
  BY DEF TypeInv, TypeOK
<1>4. Collected(r)'
  BY <1>1, <1>2, <1>3 DEF Collected
<1>5. Mapping(r)' /\ OwnWork(r)' /\ Placing(r)'
  BY <1>1, <1>2 DEF Placed, Mapping, OwnWork, Placing, PlaceStates, Own
<1> QED
  BY <1>1, <1>4, <1>5 DEF Placed, Refetching, Accounted, Answered

\* What the write back puts beside a row is the result of this run's link of that row.
LEMMA PlacedWrite ==
  ASSUME TypeInv, NEW r \in Runs, Placed(r), WriteResultsBack(r)
  PROVE  /\ Placed(r)'
         /\ \A t \in Tasks, n \in RowNums : \A e \in out'[t][n] :
               e \in out[t][n] \/ e[1][2] = n \/ e[1][1] \in shifted
<1> USE DEF MoveTo, dbVars, bookVars, oddVars
<1>0. Task(r) \in Tasks /\ \A n \in RowNums : n \in Nat /\ n > 0 /\ n <= n
  BY RunTypes DEF TypeInv
<1>1. /\ UNCHANGED <<taskOf, rows, rowOf, todo, final, call, link, shifted>>
      /\ pc[r] = "write" /\ pc'[r] = "finish"
      /\ \A t \in Tasks : t # Task(r) => out'[t] = out[t]
      /\ \A n \in RowNums : out'[Task(r)][n] = IF InBlock(r, n) THEN ResultsAt(r, n)
                                               ELSE out[Task(r)][n]
  BY <1>0 DEF WriteResultsBack, TypeInv, TypeOK
<1>2. ASSUME NEW n \in RowNums, NEW e \in ResultsAt(r, n)
      PROVE  e[1] \in Links /\ e[1][1] = r /\ (e[1][2] = n \/ r \in shifted)
  <2>1. e \in Links \X LinkState /\ rowOf[r][e[1]] = n
    BY <1>2 DEF ResultsAt, Mapped, TypeInv, TypeOK
  <2>2. e[1] \in Links /\ rowOf[r][e[1]] # 0
    BY <1>0, <2>1
  <2> QED
    BY <2>1, <2>2 DEF Placed, Mapping
<1>3. ASSUME NEW t \in Tasks, NEW n \in RowNums, NEW e \in out'[t][n]
      PROVE  e \in out[t][n] \/ e[1][2] = n \/ e[1][1] \in shifted
  <2>1. e \in out[t][n] \/ e \in ResultsAt(r, n)
    BY <1>1, <1>3
  <2> QED
    BY <1>2, <2>1
<1>4. LinksOf(Task(r))' = LinksOf(Task(r)) /\ Task(r)' = Task(r)
  BY <1>1 DEF LinksOf, Exists, Task
<1>5. ASSUME r \notin shifted, NEW n \in RowNums, Exists(<<r, n>>)
      PROVE  {e[1] : e \in out'[Task(r)][n]} = {<<r, n>>}
  <2>1. <<r, n>> \in LinksOf(Task(r))
    BY <1>5 DEF LinksOf, Links, Task
  <2>2. PICK s \in LinkState : <<<<r, n>>, s>> \in final[r]
    BY <1>1, <2>1 DEF Placed, Collected
  <2>3. rowOf[r][<<r, n>>] = n
    BY <1>1, <1>5, <2>1 DEF Placed, Placing, PlaceStates
  <2>4. <<<<r, n>>, s>> \in Mapped(r) /\ n \in Written(r)
    BY <1>0, <2>2, <2>3 DEF Mapped, Written
  <2>5. InBlock(r, n) /\ <<<<r, n>>, s>> \in ResultsAt(r, n)
    BY <1>0, <2>3, <2>4 DEF InBlock, ResultsAt
  <2>6. \A e \in ResultsAt(r, n) : e[1] = <<r, n>>
    BY <1>2, <1>5 DEF Links
  <2>7. out'[Task(r)][n] = ResultsAt(r, n)
    BY <1>1, <2>5
  <2> QED
    BY <2>5, <2>6, <2>7
<1>6. Answered(r)'
  BY <1>1, <1>4, <1>5 DEF Answered, Exists
<1>7. Mapping(r)' /\ OwnWork(r)' /\ Placing(r)' /\ Collected(r)'
  BY <1>1, <1>4 DEF Placed, Mapping, OwnWork, Placing, Collected, PlaceStates, Own
<1>8. Placed(r)'
  BY <1>1, <1>6, <1>7 DEF Placed, Refetching, Accounted
<1> QED
  BY <1>3, <1>8
LEMMA PlacesMove ==
  ASSUME TypeInv, NEW r \in Runs, RunMove(r), pc'[r] \in PlaceStates
  PROVE  \/ ReplaceLinks(r) /\ pc'[r] = "refetch"
         \/ SaveInvalid(r) /\ pc'[r] = "map"
         \/ RefetchLinks(r) \/ StartProcessing(r) \/ StartChunk(r) \/ ChunkResolves(r)
         \/ CollectResults(r) \/ WriteResultsBack(r)
<1>0. pc \in [Runs -> RunState]
  BY DEF TypeInv, TypeOK
<1>1. CASE \/ FindTask(r) \/ AcquireLock(r) \/ StartFails(r) \/ SetRunning(r) \/ RaiseFlag(r)
           \/ ReadRows(r) \/ ChunkRejects(r) \/ SetCompleted(r) \/ BodyFails(r)
           \/ SetFailed(r) \/ LowerFlag(r) \/ Unlock(r)
  BY <1>0, <1>1 DEF FindTask, AcquireLock, StartFails, SetRunning, RaiseFlag, ReadRows,
              ChunkRejects, SetCompleted, BodyFails, SetFailed, LowerFlag, Unlock, EndJob,
              MoveTo, PlaceStates
<1>2. CASE ReplaceLinks(r)
  BY <1>0, <1>2 DEF ReplaceLinks, MoveTo, PlaceStates
<1>3. CASE SaveInvalid(r)
  <2>1. pc[r] = "map" /\ (pc' = pc \/ pc' = [pc EXCEPT ![r] = "fail"])
    BY <1>3 DEF SaveInvalid, MoveTo
  <2> QED
    BY <1>0, <1>3, <2>1 DEF PlaceStates
<1> QED
  BY <1>1, <1>2, <1>3 DEF RunMove, RunStep

\* The run itself keeps its places.
LEMMA PlacedRun ==
  ASSUME CallsInv, NEW r \in Runs, Placed(r), RunMove(r)
  PROVE  Placed(r)'
<1>0. TypeInv /\ ChunkByChunk
  BY DEF CallsInv, LockInv
<1>1. CASE pc'[r] \in PlaceStates
  BY <1>0, <1>1, PlacesMove, PlacedReplace, PlacedRefetch, PlacedSave, PlacedChunk,
     PlacedCollect, PlacedWrite
<1>2. CASE pc'[r] \notin PlaceStates
  <2>1. /\ shifted' = shifted /\ call' = call
        /\ rowOf'[r] = rowOf[r] \/ rowOf'[r] = NoPlaces
        /\ todo'[r] = todo[r] \/ todo'[r] = {}
    BY <1>0, <1>2, OutsidePlaces
  <2>2. Mapping(r)' /\ OwnWork(r)'
    BY <2>1 DEF Placed, Mapping, OwnWork, Own, NoPlaces
  <2> QED
    BY <1>2, <2>2, PlacedIdle
<1> QED
  BY <1>1, <1>2

\* Another run holds the lock, or has no places to keep.
LEMMA PlacedBeside ==
  ASSUME CallsInv, lapsed = {}, NEW r \in Runs, RunMove(r), NEW x \in Runs, x # r, Placed(x)
  PROVE  Placed(x)'
<1>0. TypeInv /\ LockHeld /\ x \in Owners
  BY DEF CallsInv, LockInv, Owners
<1>1. LockFrame(r) /\ BookFrame(r)
  BY <1>0, RunMoves, BookMoves
<1>2. /\ taskOf' = taskOf /\ shifted' = shifted /\ pc'[x] = pc[x]
      /\ rows'[x] = rows[x] /\ rowOf'[x] = rowOf[x]
      /\ todo'[x] = todo[x] /\ final'[x] = final[x] /\ call'[x] = call[x]
  BY <1>0, <1>1 DEF LockFrame, BookFrame
<1>3. CASE pc[x] \in Body
  <2>1. pc[r] \notin Body
    BY <1>0, <1>3 DEF LockHeld
  <2>2. UNCHANGED <<link, out, call>>
    BY <1>0, <2>1, WithoutLock
  <2>3. Kept(x)
    BY <1>2, <2>2 DEF Kept, LinksOf, Exists, Task, Dealt
  <2> QED
    BY <1>0, <2>3, PlacedKept
<1>4. CASE pc[x] \notin Body
  <2>1. pc'[x] \notin PlaceStates
    BY <1>2, <1>4 DEF PlaceStates, Body, Busy, RunState
  <2>2. Mapping(x)' /\ OwnWork(x)'
    BY <1>2 DEF Placed, Mapping, OwnWork, Own
  <2> QED
    BY <2>1, <2>2, PlacedIdle
<1> QED
  BY <1>3, <1>4

LEMMA ResultsNext == ResultsInv /\ [Next]_vars => ResultsInv'
<1> SUFFICES ASSUME ResultsInv, [Next]_vars PROVE ResultsInv'
  OBVIOUS
<1>0. CallsInv /\ CallsInv' /\ TypeInv /\ BesideItsRow
  BY CallsNext DEF ResultsInv, CallsInv, LockInv
<1> DEFINE AllPlaced == lapsed = {} => \A x \in Runs : Placed(x)
           OutSame == out' = out /\ shifted \subseteq shifted'
<1>1. AllPlaced
  BY DEF ResultsInv
<1>2. ASSUME OutSame, lapsed' = {} => lapsed = {}
      PROVE  BesideItsRow'
  BY <1>0, <1>2 DEF BesideItsRow
<1>3. ASSUME NEW r \in Runs, RunMove(r) PROVE BesideItsRow' /\ AllPlaced'
  <2>1. lapsed' = lapsed /\ shifted' = shifted
    BY <1>0, <1>3, RunMoves DEF LockFrame
  <2>2. ASSUME lapsed = {}, NEW x \in Runs PROVE Placed(x)'
    <3>1. CASE x = r
      BY <1>0, <1>1, <1>3, <2>2, <3>1, PlacedRun
    <3>2. CASE x # r
      BY <1>0, <1>1, <1>3, <2>2, <3>2, PlacedBeside
    <3> QED
      BY <3>1, <3>2
  <2>3. CASE WriteResultsBack(r)
    <3>1. ASSUME lapsed = {}, NEW t \in Tasks, NEW n \in RowNums, NEW e \in out'[t][n]
          PROVE  e[1][2] = n \/ e[1][1] \in shifted
      <4>1. e \in out[t][n] \/ e[1][2] = n \/ e[1][1] \in shifted
        BY <1>0, <1>1, <2>3, <3>1, PlacedWrite
      <4> QED
        BY <1>0, <3>1, <4>1 DEF BesideItsRow
    <3> QED
      BY <2>1, <2>2, <3>1 DEF BesideItsRow
  <2>4. CASE ~WriteResultsBack(r)
    <3>1. out' = out
      BY <1>3, <2>4 DEF RunMove, RunStep, FindTask, AcquireLock, StartFails, SetRunning,
            RaiseFlag, StartProcessing, ChunkRejects, ChunkResolves, SetCompleted, BodyFails,
            SetFailed, LowerFlag, ReplaceLinks, ReadRows, RefetchLinks, SaveInvalid,
            StartChunk, CollectResults, Unlock
    <3> QED
      BY <1>2, <2>1, <2>2, <3>1
  <2> QED
    BY <2>3, <2>4
<1>4. ASSUME NEW o \in Owners, NEW l \in Links, CallStep(o, l) \/ CallFails(o, l)
      PROVE  BesideItsRow' /\ AllPlaced'
  <2>1. CallFrame(o, l)
    BY <1>0, <1>4, CallMoves
  <2>2. OutSame /\ lapsed' = lapsed
    BY <2>1 DEF CallFrame
  <2>3. ASSUME lapsed = {}, NEW x \in Runs PROVE Placed(x)'
    BY <1>0, <1>1, <2>1, <2>3, PlacedCall
  <2> QED
    BY <1>2, <2>2, <2>3
<1>5. ASSUME (\E l \in Links : DeleteOne(l)) \/ (\E t \in Tasks : RemoveTask(t))
      PROVE  BesideItsRow' /\ AllPlaced'
  <2>1. OutSame /\ lapsed' = lapsed
    BY <1>5 DEF DeleteOne, RemoveTask
  <2>2. ASSUME lapsed = {}, NEW x \in Runs PROVE Placed(x)'
    BY <1>0, <1>1, <1>5, <2>2, PlacedUser
  <2> QED
    BY <1>2, <2>1, <2>2
<1>6. ASSUME \/ \E j \in Jobs : RunNow(j) \/ AddJob(j) \/ CronFires(j) \/ JobStep(j)
             \/ \E c \in Rechecks, l \in Links : Recheck(c, l)
             \/ \E procs \in SUBSET Owners : Crash(procs)
             \/ ExpireLock \/ LapseLock \/ UNCHANGED vars
      PROVE  BesideItsRow' /\ AllPlaced'
  <2>1. OutSame /\ (lapsed' = {} => lapsed = {})
    BY <1>6 DEF RunNow, AddJob, CronFires, JobStep, Deliver, Redeliver, Recheck, Crash,
                ExpireLock, LapseLock, vars, oddVars
  <2>2. ASSUME lapsed = {}, NEW x \in Runs PROVE Placed(x)'
    BY <1>0, <1>1, <1>6, <2>2, PlacedOther
  <2> QED
    BY <1>2, <2>1, <2>2
<1>7. ResultsInv' <=> BesideItsRow' /\ AllPlaced'
  BY <1>0 DEF ResultsInv
<1> HIDE DEF AllPlaced, OutSame
<1> QED
  BY <1>3, <1>4, <1>5, <1>6, <1>7 DEF Next, FaultStep, UserStep, RunMove

LEMMA ResultsAlways == Spec => []ResultsInv
  BY ResultsInitially, ResultsNext, PTL DEF Spec

\* A result stands beside the sheet row its link was read from, whatever is deleted,
\* rechecked, redelivered or lost, unless its run lost a link before the re-fetch.
THEOREM ResultsBesideRows == Spec => []BesideItsRow
<1>1. ResultsInv => BesideItsRow
  BY DEF ResultsInv
<1> QED
  BY <1>1, ResultsAlways, PTL

\* A run that is about to report COMPLETED has answered every row that still has a link,
\* with the result of its own check of that link and nothing else.
THEOREM RowsAreAnswered == Spec => []EveryRowAnswered
<1>1. ResultsInv => EveryRowAnswered
  BY DEF ResultsInv, Placed, Answered, EveryRowAnswered
<1> QED
  BY <1>1, ResultsAlways, PTL

\* The statuses that a run writes back are those of checked links, except where a recheck
\* has the link: no chunk is left behind.
THEOREM StatusesAreFinal == Spec => CollectsFinalStatuses
<1>1. ASSUME ResultsInv, [Next]_vars, NEW r \in Runs, pc[r] = "chunk", pc'[r] = "write",
             lapsed = {}, NEW e \in final'[r], e[2] # "checked"
      PROVE  \E c \in Rechecks : call[c][e[1]] \in {"crawl", "threw", "lost"}
  <2>0. CallsInv /\ TypeInv /\ LockInv
    BY <1>1 DEF ResultsInv, CallsInv, LockInv
  <2>1. CollectResults(r)
    <3>1. RunMove(r)
      <4>1. ASSUME NEW x \in Runs, RunMove(x) PROVE x = r
        BY <1>1, <2>0, <4>1, RunMoves DEF LockFrame
      <4>2. ASSUME \/ AwayFrame \/ ExpireLock \/ LapseLock
                   \/ \E j \in Jobs : Deliver(j)
                   \/ \E procs \in SUBSET Owners : Crash(procs)
            PROVE  FALSE
        <5>1. "write" \in Body
          BY DEF Body, Busy, RunState
        <5>2. pc'[r] \in Body => pc[r] = pc'[r]
          BY <2>0, <4>2, RunsElsewhere
        <5> QED
          BY <1>1, <5>1, <5>2
      <4> QED
        BY <1>1, <4>1, <4>2, AwayMoves DEF Next, FaultStep, JobStep, RunMove
    <3>2. pc'[r] \in PlaceStates
      BY <1>1 DEF PlaceStates
    <3> QED
      BY <1>1, <2>0, <3>1, <3>2, PlacesMove
         DEF RefetchLinks, StartProcessing, StartChunk, ChunkResolves, WriteResultsBack,
             MoveTo, TypeInv, TypeOK
  <2>2. /\ todo[r] = {} /\ \E l \in LinksOf(Task(r)) : e = <<l, link[l]>>
    BY <1>1, <2>0, <2>1 DEF CollectResults, TypeInv, TypeOK
  <2>3. PICK l \in LinksOf(Task(r)) : e = <<l, link[l]>>
    BY <2>2
  <2>4. l \in Links /\ call[r][l] = "idle"
    BY <1>1, <2>0, <2>3 DEF LinksOf, CallsInv, ChunkByChunk, NoCalls
  <2>5. Dealt(r, l)
    BY <1>1, <2>3 DEF ResultsInv, Placed, Accounted
  <2> QED
    BY <1>1, <2>2, <2>3, <2>4, <2>5 DEF Dealt
<1>2. ResultsInv /\ [Next]_vars =>
        [\A r \in Runs :
          pc[r] = "chunk" /\ pc'[r] = "write" /\ lapsed = {} =>
              \A e \in final'[r] :
                  e[2] # "checked" =>
                      \E c \in Rechecks : call[c][e[1]] \in {"crawl", "threw", "lost"}]_vars
  BY <1>1
<1> QED
  BY <1>2, ResultsAlways, PTL DEF Spec, CollectsFinalStatuses
=============================================================================
