---------------------------- MODULE DeltaPollProofs ----------------------------
(***************************************************************************)
(* The delta cursor never stands for a run within the limit of its poll    *)
(* whose jobs are missing, unless a fetch of them was swallowed, for any   *)
(* number of runs, polls, handlers, processes and faults, any limits, and  *)
(* whichever events are subscribed to.                                     *)
(***************************************************************************)
EXTENDS DeltaPoll, FiniteSetTheorems, TLAPS

\* The runs whose jobs a poll fetches, of the list it holds.
Own(p) == Window(list[p], Reach(p))

Working(p) == at[p] \in {"jobs", "writing"}

\* A job is stored, and its start if it had started at stage s.
StoredAt(r, s) == job[r] # NoRow /\ (s >= InProgress => job[r].started_at)

\* Tasks and open transactions are those of a poll that is at its jobs, and what a task has
\* brought is no older than the list.
TasksInOrder(p) ==
  /\ todo[p] # {} => Working(p)
  /\ \A r \in Runs : got[p][r] # 0 => r \in todo[p] /\ got[p][r] >= list[p][r]

ListIsPast(p) == \A r \in Runs : list[p][r] <= world[r]

\* A poll that is at its jobs loses none of its window.
NoneForgotten(p) ==
  Working(p) =>
    \A r \in Own(p) : \/ r \in skipped \/ r \in todo[p]
                      \/ draft[p][r] # 0 /\ draft[p][r] >= list[p][r]

\* A poll that is about to store its list has stored the jobs.
ReadyToStore(p) ==
  at[p] = "storing" =>
    \A r \in Own(p) : r \in skipped \/ StoredAt(r, list[p][r])

RunsFirst(p) == \A r \in Runs : r \in todo[p] \/ draft[p][r] # 0 => run[r] # NoRow

PollerInv(p) == TasksInOrder(p) /\ ListIsPast(p) /\ NoneForgotten(p) /\ ReadyToStore(p) /\ RunsFirst(p)

PollInv == TypeOK /\ (\A p \in Pollers : PollerInv(p)) /\ CursorCoversJobs /\ JobsHaveRuns

\* No row disappears, and no start is lost.
RowsGrow ==
  \A r \in Runs :
    /\ run[r] # NoRow => (run'[r] # NoRow /\ (run[r].started_at => run'[r].started_at))
    /\ job[r] # NoRow => (job'[r] # NoRow /\ (job[r].started_at => job'[r].started_at))

USE DEF Queued, InProgress, Completed, Stages, Places

-----------------------------------------------------------------------------
(* Windows. *)

\* What a poll fetches the jobs of is listed, and among the runs it has written.
LEMMA WindowsNested ==
  ASSUME NEW p \in Pollers, NEW l \in Etags
  PROVE  /\ Window(l, Reach(p)) \subseteq Window(l, Limit[p])
         /\ Window(l, Limit[p]) \subseteq Runs
         /\ \A r \in Window(l, Limit[p]) : l[r] # 0
<1>1. Window(l, Limit[p]) \subseteq Named(l) /\ Named(l) \subseteq Runs
  BY DEF Window, Named
<1>2. Window(l, 0) = {}
  <2>1. ASSUME NEW r \in Named(l) PROVE Cardinality({s \in Named(l) : s > r}) \in Nat
    <3>1. IsFiniteSet({s \in Named(l) : s > r})
      BY RunAssumption, FS_Subset, {s \in Named(l) : s > r} \subseteq Runs DEF Named
    <3> QED BY <3>1, FS_CardinalityType
  <2> QED BY <2>1 DEF Window
<1>3. Window(l, Reach(p)) \subseteq Window(l, Limit[p])
  BY <1>2 DEF Reach
<1> QED BY <1>1, <1>3 DEF Named

\* A poll keeps its window while it keeps its list.
LEMMA OwnKeeps ==
  ASSUME TypeOK, NEW p \in Pollers
  PROVE  /\ list'[p] = list[p] => Own(p)' = Own(p)
         /\ Own(p) \subseteq Runs
BY WindowsNested DEF Own, TypeOK

LEMMA ReachIsNumber ==
  ASSUME NEW p \in Pollers
  PROVE  Reach(p) \in Nat
BY PollAssumption DEF Reach

-----------------------------------------------------------------------------
(* The upserts. *)

LEMMA UpsertRunGrows ==
  ASSUME NEW row \in RunRows \cup {NoRow}, NEW s \in Stages
  PROVE  /\ UpsertRun(row, s) \in RunRows /\ UpsertRun(row, s) # NoRow
         /\ row # NoRow => (row.started_at => UpsertRun(row, s).started_at)
<1>1. ToRun(s) \in RunRows
  BY DEF ToRun, RunRows
<1>2. UpsertRun(row, s) \in RunRows
  BY <1>1 DEF UpsertRun, RunRows, ToRun
<1>3. row # NoRow => (row.started_at => UpsertRun(row, s).started_at)
  BY DEF UpsertRun, RunRows, ToRun
<1> QED BY <1>2, <1>3, RowAssumption

LEMMA StubGrows ==
  ASSUME NEW row \in RunRows \cup {NoRow}, NEW s \in Stages
  PROVE  /\ EnsureRunStub(row, s) \in RunRows /\ EnsureRunStub(row, s) # NoRow
         /\ row # NoRow => EnsureRunStub(row, s) = row
<1>1. ToStubRun(s) \in RunRows
  BY DEF ToStubRun, RunRows
<1> QED BY <1>1, RowAssumption DEF EnsureRunStub

LEMMA UpsertJobGrows ==
  ASSUME NEW row \in JobRows \cup {NoRow}, NEW s \in Stages
  PROVE  /\ UpsertJob(row, s) \in JobRows /\ UpsertJob(row, s) # NoRow
         /\ row # NoRow => (row.started_at => UpsertJob(row, s).started_at)
         /\ s >= InProgress => UpsertJob(row, s).started_at
<1>1. ToJob(s) \in JobRows /\ ToJob(s).started_at = (s >= InProgress)
  BY DEF ToJob, JobRows
<1>2. CASE row = NoRow
  BY <1>1, <1>2, RowAssumption DEF UpsertJob
<1>3. CASE row # NoRow
  <2>1. row \in JobRows
    BY <1>3
  <2>2. UpsertJob(row, s) =
          [status |-> s, started_at |-> row.started_at \/ ToJob(s).started_at,
           completed_at |-> ToJob(s).completed_at,
           step |-> IF row.step = "unlisted" THEN ToJob(s).step ELSE row.step]
    BY <1>3 DEF UpsertJob
  <2>3. /\ row.started_at \in BOOLEAN /\ row.step \in {"unlisted", "waiting", "started"}
        /\ ToJob(s).completed_at \in BOOLEAN /\ ToJob(s).step \in {"unlisted", "waiting", "started"}
        /\ ToJob(s).started_at \in BOOLEAN
    BY <1>1, <2>1 DEF JobRows
  <2>4. UpsertJob(row, s) \in JobRows
    BY <2>2, <2>3 DEF JobRows
  <2>5. UpsertJob(row, s).started_at = (row.started_at \/ ToJob(s).started_at)
    BY <2>2
  <2> QED BY <1>1, <2>3, <2>4, <2>5, RowAssumption
<1> QED BY <1>2, <1>3

\* What moves rows: the runs of a list, the jobs of a transaction, an event.
LEMMA WriteRunsRows ==
  ASSUME TypeOK, NEW p \in Pollers, WriteRuns(p)
  PROVE  /\ run' \in [Runs -> RunRows \cup {NoRow}] /\ RowsGrow
         /\ \A r \in Window(list[p], Limit[p]) : run'[r] # NoRow
<1>1. \A r \in Window(list[p], Limit[p]) : r \in Runs /\ list[p][r] \in Stages
  BY WindowsNested DEF TypeOK, Etags
<1>2. \A r \in Runs : run[r] \in RunRows \cup {NoRow}
  BY DEF TypeOK
<1>3. /\ run' = [r \in Runs |-> IF r \in Window(list[p], Limit[p]) THEN UpsertRun(run[r], list[p][r])
                                                             ELSE run[r]]
      /\ job' = job
  BY DEF WriteRuns
<1> QED BY <1>1, <1>2, <1>3, UpsertRunGrows DEF RowsGrow

LEMMA CommitJobsRows ==
  ASSUME TypeOK, NEW p \in Pollers, CommitJobs(p)
  PROVE  /\ job' \in [Runs -> JobRows \cup {NoRow}] /\ RowsGrow
         /\ \A r \in Runs : draft[p][r] # 0 =>
              job'[r] # NoRow /\ (draft[p][r] >= InProgress => job'[r].started_at)
<1>1. \A r \in Runs : draft[p][r] # 0 => draft[p][r] \in Stages
  BY DEF TypeOK, Etags
<1>2. \A r \in Runs : job[r] \in JobRows \cup {NoRow}
  BY DEF TypeOK
<1>3. /\ job' = [r \in Runs |-> IF draft[p][r] = 0 THEN job[r] ELSE UpsertJob(job[r], draft[p][r])]
      /\ run' = run
  BY DEF CommitJobs
<1> QED BY <1>1, <1>2, <1>3, UpsertJobGrows DEF RowsGrow

LEMMA RunEventRows ==
  ASSUME TypeOK, NEW h \in Handlers, NEW e \in events, HandleRunEvent(h, e)
  PROVE  run' \in [Runs -> RunRows \cup {NoRow}] /\ RowsGrow
<1>1. e.run \in Runs /\ e.stage \in Stages
  BY DEF TypeOK, Events
<1>2. run[e.run] \in RunRows \cup {NoRow} /\ run \in [Runs -> RunRows \cup {NoRow}]
  BY <1>1 DEF TypeOK
<1>3. run' = [run EXCEPT ![e.run] = UpsertRun(run[e.run], e.stage)] /\ job' = job
  BY DEF HandleRunEvent
<1> QED BY <1>1, <1>2, <1>3, UpsertRunGrows DEF RowsGrow

LEMMA JobEventRows ==
  ASSUME TypeOK, NEW h \in Handlers, NEW e \in events, HandleJobEvent(h, e)
  PROVE  /\ run' \in [Runs -> RunRows \cup {NoRow}] /\ job' \in [Runs -> JobRows \cup {NoRow}]
         /\ RowsGrow
         /\ \A r \in Runs : job'[r] # NoRow => job[r] # NoRow \/ run'[r] # NoRow
<1>1. e.run \in Runs /\ e.stage \in Stages
  BY DEF TypeOK, Events
<1>2. /\ run[e.run] \in RunRows \cup {NoRow} /\ run \in [Runs -> RunRows \cup {NoRow}]
      /\ job[e.run] \in JobRows \cup {NoRow} /\ job \in [Runs -> JobRows \cup {NoRow}]
  BY <1>1 DEF TypeOK
<1>3. CASE UNCHANGED <<run, job>>
  BY <1>2, <1>3 DEF RowsGrow
<1>4. CASE /\ run' = [run EXCEPT ![e.run] = EnsureRunStub(run[e.run], e.stage)]
           /\ job' = [job EXCEPT ![e.run] = UpsertJob(job[e.run], e.stage)]
  BY <1>1, <1>2, <1>4, StubGrows, UpsertJobGrows DEF RowsGrow
<1> QED BY <1>3, <1>4 DEF HandleJobEvent

LEMMA StepsGrow == TypeOK /\ Next => RowsGrow
<1> SUFFICES ASSUME TypeOK, Next PROVE RowsGrow
  OBVIOUS
<1>1. \/ UNCHANGED <<run, job>>
      \/ \E p \in Pollers : WriteRuns(p) \/ CommitJobs(p)
      \/ \E h \in Handlers, e \in events : HandleRunEvent(h, e) \/ HandleJobEvent(h, e)
  BY DEF Next, PollStep, HandlerStep, Advance, ReadCursor, FetchRuns, FetchJobs, SkipJobs, WriteJobs,
    StoreEtag, LeavePoll, Deadlocked, MeetRepoLock, Crash, rows
<1>2. CASE UNCHANGED <<run, job>>
  BY <1>2 DEF RowsGrow
<1> QED BY <1>1, <1>2, WriteRunsRows, CommitJobsRows, RunEventRows, JobEventRows

-----------------------------------------------------------------------------
\* The stages are numbers.
LEMMA StagesAreNumbers ==
  ASSUME TypeOK
  PROVE  /\ \A r \in Runs : world[r] \in 0 .. 3
         /\ \A p \in Pollers, r \in Runs :
              list[p][r] \in 0 .. 3 /\ got[p][r] \in 0 .. 3 /\ draft[p][r] \in 0 .. 3
<1>1. world \in [Runs -> 0 .. 3]
  BY DEF TypeOK, Etags
<1>2. list \in [Pollers -> [Runs -> 0 .. 3]] /\ got \in [Pollers -> [Runs -> 0 .. 3]]
      /\ draft \in [Pollers -> [Runs -> 0 .. 3]]
  BY DEF TypeOK, Etags
<1> QED BY <1>1, <1>2

LEMMA PollInitially == Init => PollInv
<1> SUFFICES ASSUME Init PROVE PollInv
  OBVIOUS
<1>1. TypeOK
  BY BoundAssumption DEF Init, TypeOK, Etags, Nothing
<1>2. \A p \in Pollers : PollerInv(p)
  BY DEF Init, PollerInv, TasksInOrder, ListIsPast, NoneForgotten, ReadyToStore, RunsFirst, Own, Nothing, Working
<1> QED BY <1>1, <1>2 DEF Init, PollInv, CursorCoversJobs, JobsHaveRuns, Covered

\* What is true of a poll stays true while others write.
LEMMA PollerKeeps ==
  ASSUME TypeOK, TypeOK', RowsGrow, NEW p \in Pollers, PollerInv(p),
         at'[p] = at[p], list'[p] = list[p], todo'[p] = todo[p], got'[p] = got[p], draft'[p] = draft[p],
         skipped \subseteq skipped',
         \A r \in Runs : world[r] <= world'[r]
  PROVE  PollerInv(p)'
<1>1. TasksInOrder(p)' /\ NoneForgotten(p)' /\ RunsFirst(p)'
  BY OwnKeeps DEF PollerInv, TasksInOrder, NoneForgotten, RunsFirst, Working, RowsGrow
<1>2. ListIsPast(p)'
  <2>1. \A r \in Runs : list[p][r] <= world[r] /\ list[p][r] \in 0 .. 3 /\ world[r] \in 0 .. 3
    BY StagesAreNumbers DEF PollerInv, ListIsPast
  <2>2. world' \in [Runs -> 0 .. 3]
    BY DEF TypeOK, Etags
  <2>3. \A r \in Runs : world'[r] \in 0 .. 3
    BY <2>2
  <2> QED BY <2>1, <2>3 DEF ListIsPast
<1>3. ReadyToStore(p)'
  BY OwnKeeps DEF PollerInv, ReadyToStore, StoredAt, RowsGrow
<1> QED BY <1>1, <1>2, <1>3 DEF PollerInv

\* The cursor covers the jobs as long as it stays itself.
LEMMA CursorKeeps ==
  ASSUME TypeOK, CursorCoversJobs, RowsGrow, etag' = etag, reach' = reach, skipped \subseteq skipped'
  PROVE  CursorCoversJobs'
<1>1. Covered' = Covered /\ Covered \subseteq Runs
  BY DEF Covered, Window, Named
<1> QED BY <1>1 DEF CursorCoversJobs, JobsStored, RowsGrow

\* A step of others: rows and GitHub go on, the polls and the cursor do not.
LEMMA OthersKeep ==
  ASSUME PollInv, TypeOK', RowsGrow, UNCHANGED <<etag, reach, at, list, todo, got, draft>>,
         skipped \subseteq skipped',
         \A r \in Runs : world[r] <= world'[r],
         \A r \in Runs : job'[r] # NoRow => job[r] # NoRow \/ run'[r] # NoRow
  PROVE  PollInv'
<1>1. \A p \in Pollers : PollerInv(p)'
  BY PollerKeeps DEF PollInv
<1>2. CursorCoversJobs'
  BY CursorKeeps DEF PollInv
<1>3. JobsHaveRuns'
  BY DEF PollInv, JobsHaveRuns, RowsGrow
<1> QED BY <1>1, <1>2, <1>3 DEF PollInv

\* A step of one poll that leaves the cursor: what is to be shown is of that poll alone.
LEMMA OnePollMoves ==
  ASSUME PollInv, TypeOK', RowsGrow, NEW p \in Pollers,
         \A q \in Pollers \ {p} : /\ at'[q] = at[q] /\ list'[q] = list[q] /\ todo'[q] = todo[q]
                                   /\ got'[q] = got[q] /\ draft'[q] = draft[q],
         world' = world, etag' = etag, reach' = reach, skipped \subseteq skipped',
         PollerInv(p)', JobsHaveRuns'
  PROVE  PollInv'
<1>1. \A r \in Runs : world[r] <= world'[r]
  BY StagesAreNumbers DEF PollInv
<1>2. \A q \in Pollers \ {p} : PollerInv(q)'
  BY <1>1, PollerKeeps DEF PollInv
<1>3. CursorCoversJobs'
  BY CursorKeeps DEF PollInv
<1> QED BY <1>2, <1>3 DEF PollInv

LEMMA AdvanceKeeps ==
  ASSUME PollInv, NEW r \in Runs, Advance(r)
  PROVE  PollInv'
<1>1. TypeOK
  BY DEF PollInv
<1>2. world[r] \in 0 .. 2 /\ world' = [world EXCEPT ![r] = world[r] + 1]
      /\ UNCHANGED <<rows, polls, waits, reach, skipped, faults>>
  BY <1>1, BoundAssumption DEF Advance, TypeOK, Etags
<1>3. world' \in Etags /\ world'[r] \in Stages /\ \A s \in Runs : world[s] <= world'[s]
  BY <1>1, <1>2 DEF TypeOK, Etags
<1>4. events' \subseteq Events
  <2>1. PICK kinds \in SUBSET Subscribed : events' = events \cup [kind : kinds, run : {r}, stage : {world'[r]}]
    BY DEF Advance
  <2>2. [kind : kinds, run : {r}, stage : {world'[r]}] \subseteq Events
    BY <1>3 DEF Events
  <2> QED BY <1>1, <2>1, <2>2 DEF TypeOK
<1>5. TypeOK'
  BY <1>1, <1>2, <1>3, <1>4 DEF TypeOK, rows, polls
<1>6. RowsGrow /\ UNCHANGED <<etag, reach, at, list, todo, got, draft>> /\ job' = job
  BY <1>2 DEF RowsGrow, rows, polls
<1> QED BY <1>2, <1>3, <1>5, <1>6, OthersKeep

LEMMA HandlersKeep ==
  ASSUME PollInv, NEW h \in Handlers, NEW e \in events, HandleRunEvent(h, e) \/ HandleJobEvent(h, e)
  PROVE  PollInv'
<1>1. TypeOK
  BY DEF PollInv
<1>2. /\ run' \in [Runs -> RunRows \cup {NoRow}] /\ job' \in [Runs -> JobRows \cup {NoRow}]
      /\ RowsGrow
      /\ \A r \in Runs : job'[r] # NoRow => job[r] # NoRow \/ run'[r] # NoRow
  <2>1. CASE HandleRunEvent(h, e)
    <3>1. job' = job
      BY <2>1 DEF HandleRunEvent
    <3> QED BY <1>1, <2>1, <3>1, RunEventRows DEF TypeOK
  <2>2. CASE HandleJobEvent(h, e)
    BY <1>1, <2>2, JobEventRows
  <2> QED BY <2>1, <2>2
<1>3. UNCHANGED <<world, etag, polls, reach, skipped>>
  BY DEF HandleRunEvent, HandleJobEvent
<1>4. events' \subseteq Events /\ faults' \in 0 .. MaxFaults
  BY <1>1, BoundAssumption DEF HandleRunEvent, HandleJobEvent, Handled, Fault, TypeOK
<1>5. waits' \in [Actors -> Writes \cup {RepoRow, NoWrite}]
  <2>1. e.run \in Runs /\ e.stage \in Stages /\ h \in Actors
    BY <1>1 DEF TypeOK, Events, Actors
  <2>2. [run |-> e.run, stage |-> e.stage] \in Writes
    BY <2>1 DEF Writes
  <2>3. \/ waits' = [waits EXCEPT ![h] = NoWrite]
        \/ waits' = [waits EXCEPT ![h] = [run |-> e.run, stage |-> e.stage]]
    BY DEF HandleRunEvent, HandleJobEvent
  <2> QED BY <1>1, <2>1, <2>2, <2>3 DEF TypeOK
<1>6. TypeOK'
  BY <1>1, <1>2, <1>3, <1>4, <1>5 DEF TypeOK, polls
<1>7. \A r \in Runs : world[r] <= world'[r]
  BY <1>1, <1>3, StagesAreNumbers
<1> QED BY <1>2, <1>3, <1>6, <1>7, OthersKeep DEF polls

LEMMA MeetLockKeeps ==
  ASSUME PollInv, NEW a \in Actors, MeetRepoLock(a)
  PROVE  PollInv'
<1>1. TypeOK
  BY DEF PollInv
<1>2. UNCHANGED <<github, rows, polls, reach, skipped, faults>> /\ waits' = [waits EXCEPT ![a] = RepoRow]
  BY DEF MeetRepoLock
<1>3. TypeOK'
  BY <1>1, <1>2 DEF TypeOK, github, rows, polls
<1>4. RowsGrow /\ (\A r \in Runs : world[r] <= world'[r]) /\ UNCHANGED <<job, etag, reach, at, list, todo, got, draft>>
  BY <1>1, <1>2, StagesAreNumbers DEF RowsGrow, github, rows, polls
<1> QED BY <1>2, <1>3, <1>4, OthersKeep

-----------------------------------------------------------------------------
(* The polls. *)

LEMMA ReadCursorKeeps ==
  ASSUME PollInv, NEW p \in Pollers, ReadCursor(p)
  PROVE  PollInv'
<1>1. TypeOK /\ PollerInv(p) /\ p \in Actors
  BY DEF PollInv, Actors
<1>2. /\ at[p] = "idle" /\ at' = [at EXCEPT ![p] = "listing"]
      /\ cursor' = [cursor EXCEPT ![p] = etag] /\ waits' = [waits EXCEPT ![p] = NoWrite]
      /\ UNCHANGED <<world, events, run, job, etag, list, todo, got, draft, reach, skipped, faults>>
  BY DEF ReadCursor, github, rows
<1>3. TypeOK'
  BY <1>1, <1>2 DEF TypeOK
<1>4. PollerInv(p)'
  BY <1>1, <1>2 DEF PollerInv, TasksInOrder, ListIsPast, NoneForgotten, ReadyToStore, RunsFirst, Working, TypeOK
<1>5. RowsGrow /\ JobsHaveRuns' /\ \A q \in Pollers \ {p} : at'[q] = at[q]
  BY <1>1, <1>2 DEF RowsGrow, PollInv, JobsHaveRuns, TypeOK
<1> QED BY <1>2, <1>3, <1>4, <1>5, OnePollMoves

LEMMA FetchRunsKeeps ==
  ASSUME PollInv, NEW p \in Pollers, FetchRuns(p)
  PROVE  PollInv'
<1>1. TypeOK /\ PollerInv(p)
  BY DEF PollInv
<1>2. /\ at[p] = "listing" /\ cursor' = [cursor EXCEPT ![p] = NoEtag]
      /\ \/ at' = [at EXCEPT ![p] = "idle"] /\ UNCHANGED list
         \/ /\ \E place \in {"paging", "collected"} : at' = [at EXCEPT ![p] = place]
            /\ list' = [list EXCEPT ![p] = world]
      /\ UNCHANGED <<world, events, run, job, etag, todo, got, draft, waits, reach, skipped, faults>>
  BY DEF FetchRuns, github, rows
<1>3. TypeOK'
  BY <1>1, <1>2 DEF TypeOK
<1>4. todo[p] = {} /\ \A r \in Runs : got[p][r] = 0
  BY <1>1, <1>2 DEF PollerInv, TasksInOrder, Working
<1>5. at'[p] \in {"idle", "paging", "collected"} /\ (list'[p] = list[p] \/ list'[p] = world)
      /\ \A q \in Pollers \ {p} : at'[q] = at[q] /\ list'[q] = list[q]
  BY <1>1, <1>2 DEF TypeOK
<1>6. ListIsPast(p)'
  BY <1>1, <1>2, <1>5, StagesAreNumbers DEF PollerInv, ListIsPast
<1>7. PollerInv(p)'
  BY <1>1, <1>2, <1>4, <1>5, <1>6 DEF PollerInv, TasksInOrder, NoneForgotten, ReadyToStore, RunsFirst, Working
<1>8. RowsGrow /\ JobsHaveRuns'
  BY <1>2 DEF RowsGrow, PollInv, JobsHaveRuns
<1> QED BY <1>2, <1>3, <1>5, <1>7, <1>8, OnePollMoves

LEMMA WriteRunsKeeps ==
  ASSUME PollInv, NEW p \in Pollers, WriteRuns(p)
  PROVE  PollInv'
<1>1. TypeOK /\ PollerInv(p)
  BY DEF PollInv
<1>2. /\ at[p] \in {"paging", "collected"} /\ todo' = [todo EXCEPT ![p] = Own(p)]
      /\ \E place \in {"jobs", "writing"} : at' = [at EXCEPT ![p] = place]
      /\ UNCHANGED <<world, events, job, etag, cursor, list, got, draft, waits, reach, skipped, faults>>
  BY DEF WriteRuns, github, Own
<1>3. /\ run' \in [Runs -> RunRows \cup {NoRow}] /\ RowsGrow
      /\ \A r \in Window(list[p], Limit[p]) : run'[r] # NoRow
  BY <1>1, WriteRunsRows
<1>4. /\ Own(p) \subseteq Window(list[p], Limit[p]) /\ Own(p) \subseteq Runs /\ Own(p)' = Own(p)
      /\ \A r \in Own(p) : run'[r] # NoRow
  BY <1>1, <1>2, <1>3, WindowsNested DEF TypeOK, Own
<1>5. /\ at'[p] \in {"jobs", "writing"} /\ todo'[p] = Own(p)
      /\ \A q \in Pollers \ {p} : at'[q] = at[q] /\ todo'[q] = todo[q]
  BY <1>1, <1>2 DEF TypeOK
<1>6. \A r \in Runs : draft[p][r] = 0 /\ got[p][r] = 0
  BY <1>1, <1>2 DEF TypeOK, Nothing, PollerInv, TasksInOrder, Working
<1>7. TypeOK'
  BY <1>1, <1>2, <1>3, <1>4 DEF TypeOK
<1>8. PollerInv(p)'
  BY <1>1, <1>2, <1>4, <1>5, <1>6 DEF PollerInv, TasksInOrder, ListIsPast, NoneForgotten, ReadyToStore, RunsFirst, Working
<1>9. JobsHaveRuns'
  BY <1>2, <1>3 DEF PollInv, JobsHaveRuns, RowsGrow
<1> QED BY <1>2, <1>3, <1>5, <1>7, <1>8, <1>9, OnePollMoves

LEMMA FetchJobsKeeps ==
  ASSUME PollInv, NEW p \in Pollers, NEW r \in Runs, FetchJobs(p, r)
  PROVE  PollInv'
<1>1. TypeOK /\ PollerInv(p)
  BY DEF PollInv
<1>2. /\ at[p] = "jobs" /\ r \in todo[p] /\ got' = [got EXCEPT ![p][r] = world[r]]
      /\ UNCHANGED <<world, events, run, job, etag, at, cursor, list, todo, draft, waits, reach, skipped, faults>>
  BY DEF FetchJobs, github, rows
<1>3. /\ got' \in [Pollers -> Etags] /\ got'[p][r] = world[r]
      /\ (\A s \in Runs \ {r} : got'[p][s] = got[p][s])
      /\ \A q \in Pollers \ {p} : got'[q] = got[q]
  BY <1>1, <1>2 DEF TypeOK, Etags
<1>4. TypeOK'
  BY <1>1, <1>2, <1>3 DEF TypeOK
<1>5. PollerInv(p)'
  <2>1. TasksInOrder(p)'
    BY <1>1, <1>2, <1>3 DEF PollerInv, TasksInOrder, ListIsPast, Working
  <2> QED BY <1>1, <1>2, <2>1, OwnKeeps DEF PollerInv, ListIsPast, NoneForgotten, ReadyToStore, RunsFirst, Working, StoredAt
<1>6. RowsGrow /\ JobsHaveRuns'
  BY <1>2 DEF RowsGrow, PollInv, JobsHaveRuns
<1> QED BY <1>2, <1>3, <1>4, <1>5, <1>6, OnePollMoves

LEMMA SkipJobsKeeps ==
  ASSUME PollInv, NEW p \in Pollers, NEW r \in Runs, SkipJobs(p, r)
  PROVE  PollInv'
<1>1. TypeOK /\ PollerInv(p)
  BY DEF PollInv
<1>2. /\ at[p] = "jobs" /\ r \in todo[p] /\ got[p][r] = 0
      /\ skipped' = skipped \cup {r} /\ todo' = [todo EXCEPT ![p] = @ \ {r}]
      /\ at' = [at EXCEPT ![p] = AfterTask(p, r)] /\ AfterTask(p, r) \in {"jobs", "writing"}
      /\ faults' \in 0 .. MaxFaults
      /\ UNCHANGED <<world, events, run, job, etag, cursor, list, got, draft, waits, reach>>
  BY <1>1, BoundAssumption DEF SkipJobs, AfterTask, Fault, TypeOK, github, rows
<1>3. TypeOK'
  BY <1>1, <1>2 DEF TypeOK
<1>4. /\ at'[p] \in {"jobs", "writing"} /\ todo'[p] = todo[p] \ {r}
      /\ \A q \in Pollers \ {p} : at'[q] = at[q] /\ todo'[q] = todo[q]
  BY <1>1, <1>2 DEF TypeOK
<1>5. PollerInv(p)'
  BY <1>1, <1>2, <1>4, OwnKeeps DEF PollerInv, TasksInOrder, ListIsPast, NoneForgotten, ReadyToStore, RunsFirst, Working
<1>6. RowsGrow /\ JobsHaveRuns'
  BY <1>2 DEF RowsGrow, PollInv, JobsHaveRuns
<1> QED BY <1>2, <1>3, <1>4, <1>5, <1>6, OnePollMoves

LEMMA WriteJobsKeeps ==
  ASSUME PollInv, NEW p \in Pollers, NEW r \in Runs, WriteJobs(p, r)
  PROVE  PollInv'
<1>1. TypeOK /\ PollerInv(p) /\ p \in Actors
  BY DEF PollInv, Actors
<1>2. /\ r \in todo[p] /\ got[p][r] # 0 /\ got[p][r] \in 0 .. 3 /\ Working(p) /\ got[p][r] >= list[p][r]
      /\ UNCHANGED <<world, events, run, job, etag, cursor, list, reach, skipped, faults>>
  BY <1>1, StagesAreNumbers DEF WriteJobs, PollerInv, TasksInOrder, github, rows
<1>3. RowsGrow /\ JobsHaveRuns'
  BY <1>2 DEF RowsGrow, PollInv, JobsHaveRuns
<1>4. CASE waits' = [waits EXCEPT ![p] = [run |-> r, stage |-> got[p][r]]] /\ UNCHANGED <<at, todo, got, draft>>
  <2>1. [run |-> r, stage |-> got[p][r]] \in Writes
    BY <1>2 DEF Writes
  <2>2. TypeOK'
    BY <1>1, <1>2, <1>4, <2>1 DEF TypeOK
  <2>3. PollerInv(p)'
    BY <1>1, <1>2, <1>4, OwnKeeps DEF PollerInv, TasksInOrder, ListIsPast, NoneForgotten, ReadyToStore, RunsFirst, Working, StoredAt
  <2> QED BY <1>2, <1>3, <1>4, <2>2, <2>3, OnePollMoves
<1>5. CASE /\ waits' = [waits EXCEPT ![p] = NoWrite]
           /\ draft' = [draft EXCEPT ![p][r] = got[p][r]]
           /\ got' = [got EXCEPT ![p][r] = 0]
           /\ todo' = [todo EXCEPT ![p] = @ \ {r}]
           /\ at' = [at EXCEPT ![p] = AfterTask(p, r)]
  <2>1. /\ draft' \in [Pollers -> Etags] /\ draft'[p][r] = got[p][r]
        /\ (\A s \in Runs \ {r} : draft'[p][s] = draft[p][s])
        /\ \A q \in Pollers \ {p} : draft'[q] = draft[q]
    BY <1>1, <1>2, <1>5 DEF TypeOK, Etags
  <2>2. /\ got' \in [Pollers -> Etags] /\ got'[p][r] = 0
        /\ (\A s \in Runs \ {r} : got'[p][s] = got[p][s])
        /\ \A q \in Pollers \ {p} : got'[q] = got[q]
    BY <1>1, <1>5 DEF TypeOK, Etags
  <2>3. /\ at'[p] \in {"jobs", "writing"} /\ todo'[p] = todo[p] \ {r}
        /\ \A q \in Pollers \ {p} : at'[q] = at[q] /\ todo'[q] = todo[q]
    BY <1>1, <1>5 DEF TypeOK, AfterTask
  <2>4. at' \in [Pollers -> Places]
        /\ todo' \in [Pollers -> SUBSET Runs] /\ waits' \in [Actors -> Writes \cup {RepoRow, NoWrite}]
    BY <1>1, <1>5 DEF TypeOK, AfterTask
  <2>5. \A q \in Pollers : draft'[q] # Nothing => at'[q] \in {"jobs", "writing"}
    BY <1>1, <2>1, <2>3 DEF TypeOK
  <2>6. TypeOK'
    BY <1>1, <1>2, <2>1, <2>2, <2>4, <2>5 DEF TypeOK, Nothing
  <2>7. TasksInOrder(p)' /\ ListIsPast(p)' /\ ReadyToStore(p)'
    BY <1>1, <1>2, <2>2, <2>3 DEF PollerInv, TasksInOrder, ListIsPast, ReadyToStore, Working
  <2>8. NoneForgotten(p)' /\ RunsFirst(p)'
    BY <1>1, <1>2, <2>1, <2>3, OwnKeeps DEF PollerInv, NoneForgotten, RunsFirst, Working
  <2> QED BY <1>2, <1>3, <2>1, <2>2, <2>3, <2>6, <2>7, <2>8, OnePollMoves DEF PollerInv
<1> QED BY <1>4, <1>5 DEF WriteJobs

LEMMA CommitJobsKeeps ==
  ASSUME PollInv, NEW p \in Pollers, CommitJobs(p)
  PROVE  PollInv'
<1>1. TypeOK /\ PollerInv(p)
  BY DEF PollInv
<1>2. /\ at[p] \in {"jobs", "writing"} /\ todo[p] = {} /\ at' = [at EXCEPT ![p] = "storing"]
      /\ draft' = [draft EXCEPT ![p] = Nothing]
      /\ UNCHANGED <<world, events, run, etag, cursor, list, todo, got, waits, reach, skipped, faults>>
  BY DEF CommitJobs, github
<1>3. /\ job' \in [Runs -> JobRows \cup {NoRow}] /\ RowsGrow
      /\ \A r \in Runs : draft[p][r] # 0 =>
           job'[r] # NoRow /\ (draft[p][r] >= InProgress => job'[r].started_at)
  BY <1>1, CommitJobsRows
<1>4. /\ at'[p] = "storing" /\ draft'[p] = Nothing
      /\ \A q \in Pollers \ {p} : at'[q] = at[q] /\ draft'[q] = draft[q]
  BY <1>1, <1>2 DEF TypeOK
<1>5. TypeOK'
  <2>1. Nothing \in Etags
    BY DEF Nothing, Etags
  <2>2. \A q \in Pollers : draft'[q] # Nothing => at'[q] \in {"jobs", "writing"}
    BY <1>1, <1>4 DEF TypeOK
  <2> QED BY <1>1, <1>2, <1>3, <2>1, <2>2 DEF TypeOK, Nothing
<1>6. ReadyToStore(p)'
  <2>1. ASSUME NEW r \in Own(p), r \notin skipped PROVE StoredAt(r, list[p][r])'
    <3>1. r \in Runs /\ draft[p][r] # 0 /\ draft[p][r] >= list[p][r]
      BY <1>1, <1>2, <2>1, OwnKeeps DEF PollerInv, NoneForgotten, Working
    <3>2. draft[p][r] \in 0 .. 3 /\ list[p][r] \in 0 .. 3 /\ list' = list
      BY <1>1, <1>2, <3>1, StagesAreNumbers
    <3> QED BY <1>3, <3>1, <3>2 DEF StoredAt
  <2> QED BY <1>1, <1>2, <2>1, OwnKeeps DEF ReadyToStore
<1>7. PollerInv(p)'
  BY <1>1, <1>2, <1>4, <1>6 DEF PollerInv, TasksInOrder, ListIsPast, NoneForgotten, RunsFirst, Working, Nothing
<1>8. JobsHaveRuns'
  BY <1>1, <1>2, <1>3 DEF PollInv, PollerInv, RunsFirst, JobsHaveRuns, CommitJobs
<1> QED BY <1>2, <1>3, <1>4, <1>5, <1>7, <1>8, OnePollMoves

LEMMA StoreEtagKeeps ==
  ASSUME PollInv, NEW p \in Pollers, StoreEtag(p)
  PROVE  PollInv'
<1>1. TypeOK /\ PollerInv(p) /\ p \in Actors
  BY DEF PollInv, Actors
<1>2. /\ at[p] = "storing" /\ etag' = list[p] /\ reach' = Reach(p) /\ at' = [at EXCEPT ![p] = "idle"]
      /\ list' = [list EXCEPT ![p] = Nothing] /\ waits' = [waits EXCEPT ![p] = NoWrite]
      /\ UNCHANGED <<world, events, run, job, cursor, todo, got, draft, skipped, faults>>
  BY DEF StoreEtag, github
<1>3. draft[p] = Nothing /\ list[p] \in Etags
  BY <1>1, <1>2 DEF TypeOK
<1>4. TypeOK'
  BY <1>1, <1>2, <1>3, ReachIsNumber DEF TypeOK, Nothing, Etags
<1>5. /\ at'[p] = "idle" /\ list'[p] = Nothing
      /\ \A q \in Pollers \ {p} : at'[q] = at[q] /\ list'[q] = list[q]
  BY <1>1, <1>2 DEF TypeOK
<1>6. RowsGrow /\ JobsHaveRuns' /\ \A r \in Runs : world[r] <= world'[r]
  BY <1>1, <1>2, StagesAreNumbers DEF RowsGrow, PollInv, JobsHaveRuns
<1>7. CursorCoversJobs'
  <2>1. Covered' \subseteq Own(p)
    BY <1>2 DEF Covered, Own
  <2>2. \A r \in Own(p) : r \in skipped \/ StoredAt(r, list[p][r])
    BY <1>1, <1>2 DEF PollerInv, ReadyToStore
  <2> QED BY <1>2, <2>1, <2>2 DEF StoredAt, CursorCoversJobs, JobsStored
<1>8. PollerInv(p)'
  <2>1. \A r \in Runs : list'[p][r] = 0 /\ got'[p][r] = 0 /\ todo'[p] = {} /\ world'[r] \in 0 .. 3
    BY <1>1, <1>2, <1>5, StagesAreNumbers DEF PollerInv, TasksInOrder, Working, Nothing
  <2> QED BY <1>1, <1>2, <1>5, <2>1 DEF PollerInv, TasksInOrder, ListIsPast, NoneForgotten, ReadyToStore,
        RunsFirst, Working
<1>9. \A q \in Pollers \ {p} : PollerInv(q)'
  BY <1>1, <1>2, <1>4, <1>5, <1>6, PollerKeeps DEF PollInv
<1> QED BY <1>4, <1>6, <1>7, <1>8, <1>9 DEF PollInv

\* Polls are given up, by whatever: nothing they had not committed is left of them.
LEMMA ResetKeeps ==
  ASSUME PollInv, NEW ps \in SUBSET Pollers, Reset(ps), UNCHANGED <<github, rows, reach, skipped>>,
         waits' \in [Actors -> Writes \cup {RepoRow, NoWrite}], faults' \in 0 .. MaxFaults
  PROVE  PollInv'
<1>1. TypeOK
  BY DEF PollInv
<1>2. /\ at' \in [Pollers -> Places]
      /\ cursor' \in [Pollers -> Etags \cup {NoEtag}] /\ list' \in [Pollers -> Etags]
      /\ todo' \in [Pollers -> SUBSET Runs] /\ got' \in [Pollers -> Etags] /\ draft' \in [Pollers -> Etags]
  <2>1. Nothing \in Etags
    BY DEF Nothing, Etags
  <2> QED BY <1>1, <2>1 DEF TypeOK, Reset
<1>3. \A p \in ps : at'[p] = "idle" /\ list'[p] = Nothing /\ todo'[p] = {} /\ got'[p] = Nothing /\ draft'[p] = Nothing
  BY DEF Reset
<1>4. \A p \in Pollers \ ps : at'[p] = at[p] /\ list'[p] = list[p] /\ todo'[p] = todo[p] /\ got'[p] = got[p]
                              /\ draft'[p] = draft[p]
  BY DEF Reset
<1>5. \A p \in Pollers : draft'[p] # Nothing => at'[p] \in {"jobs", "writing"}
  BY <1>1, <1>3, <1>4 DEF TypeOK
<1>6. TypeOK'
  BY <1>1, <1>2, <1>5 DEF TypeOK, github, rows, Nothing
<1>7. RowsGrow /\ JobsHaveRuns' /\ \A r \in Runs : world[r] <= world'[r]
  BY <1>1, StagesAreNumbers DEF RowsGrow, PollInv, JobsHaveRuns, github, rows
<1>8. ASSUME NEW p \in ps PROVE PollerInv(p)'
  <2>1. \A r \in Runs : world'[r] \in 0 .. 3
    BY <1>1, StagesAreNumbers DEF github
  <2> QED BY <1>3, <2>1 DEF PollerInv, TasksInOrder, ListIsPast, NoneForgotten, ReadyToStore, RunsFirst,
        Working, Nothing
<1>9. \A p \in Pollers \ ps : PollerInv(p)'
  BY <1>1, <1>4, <1>6, <1>7, PollerKeeps DEF PollInv
<1>10. CursorCoversJobs'
  BY <1>1, <1>7, CursorKeeps DEF PollInv, rows
<1> QED BY <1>6, <1>7, <1>8, <1>9, <1>10 DEF PollInv

LEMMA LeavingKeeps ==
  ASSUME PollInv, NEW p \in Pollers, LeavePoll(p) \/ Deadlocked(p)
  PROVE  PollInv'
<1>1. Reset({p}) /\ UNCHANGED <<github, rows, reach, skipped, faults>>
  BY DEF LeavePoll, Deadlocked
<1>2. waits' \in [Actors -> Writes \cup {RepoRow, NoWrite}] /\ faults' \in 0 .. MaxFaults
  BY DEF LeavePoll, Deadlocked, PollInv, TypeOK
<1> QED BY <1>1, <1>2, ResetKeeps

LEMMA CrashKeeps ==
  ASSUME PollInv, NEW a \in Actors, Crash(a)
  PROVE  PollInv'
<1> DEFINE gone == {b \in Actors : proc[b] = proc[a]}
<1>1. Reset(gone \cap Pollers) /\ UNCHANGED <<github, rows, reach, skipped>>
  BY DEF Crash
<1>2. waits' \in [Actors -> Writes \cup {RepoRow, NoWrite}]
  BY DEF Crash, PollInv, TypeOK
<1>3. faults' \in 0 .. MaxFaults
  BY BoundAssumption DEF Crash, Fault, PollInv, TypeOK
<1> QED BY <1>1, <1>2, <1>3, ResetKeeps

\* Every step preserves the invariant.
LEMMA PollInductive == PollInv /\ [Next]_vars => PollInv'
<1> SUFFICES ASSUME PollInv, [Next]_vars PROVE PollInv'
  OBVIOUS
<1>1. CASE \E r \in Runs : Advance(r)
  BY <1>1, AdvanceKeeps
<1>2. CASE \E p \in Pollers : ReadCursor(p)
  BY <1>2, ReadCursorKeeps
<1>3. CASE \E p \in Pollers : PollStep(p)
  BY <1>3, FetchRunsKeeps, WriteRunsKeeps, FetchJobsKeeps, WriteJobsKeeps, CommitJobsKeeps, StoreEtagKeeps
  DEF PollStep
<1>4. CASE \E p \in Pollers : LeavePoll(p) \/ Deadlocked(p)
  BY <1>4, LeavingKeeps
<1>5. CASE \E p \in Pollers, r \in Runs : SkipJobs(p, r)
  BY <1>5, SkipJobsKeeps
<1>6. CASE \E h \in Handlers : HandlerStep(h)
  BY <1>6, HandlersKeep DEF HandlerStep
<1>7. CASE \E a \in Actors : MeetRepoLock(a)
  BY <1>7, MeetLockKeeps
<1>8. CASE \E a \in Actors : Crash(a)
  BY <1>8, CrashKeeps
<1>9. CASE UNCHANGED vars
  <2>1. UNCHANGED <<world, events, run, job, etag, at, cursor, list, todo, got, draft, waits, reach, skipped, faults>>
    BY <1>9 DEF vars, github, rows, polls
  <2>2. TypeOK'
    BY <2>1 DEF PollInv, TypeOK, Nothing
  <2>3. RowsGrow /\ \A r \in Runs : world[r] <= world'[r]
    BY <2>1, StagesAreNumbers DEF PollInv, RowsGrow
  <2> QED BY <2>1, <2>2, <2>3, OthersKeep
<1> QED BY <1>1, <1>2, <1>3, <1>4, <1>5, <1>6, <1>7, <1>8, <1>9 DEF Next

-----------------------------------------------------------------------------
LEMMA PollInvHolds == Spec => []PollInv
BY PollInitially, PollInductive, PTL DEF Spec

\* The types; and no transaction is open but that of a poll that is at its jobs.
THEOREM PollsTypeCorrect == Spec => []TypeOK
<1>1. PollInv => TypeOK
  BY DEF PollInv
<1> QED BY PollInvHolds, <1>1, PTL

\* Of the runs within the limit of the poll that stored the cursor none has its jobs missing or behind
\* it, but those a swallowed fetch lost: ingest_repo cuts what it collected to limit, and stores
\* new_etag last, after the jobs of that window are committed.
THEOREM CursorIsCovered == Spec => []CursorCoversJobs
<1>1. PollInv => CursorCoversJobs
  BY DEF PollInv
<1> QED BY PollInvHolds, <1>1, PTL

\* A job is never written before its run, whichever of polls and events comes first:
\* ingest_repo commits the runs of the window first, and job events make a stub.
THEOREM JobsFollowRuns == Spec => []JobsHaveRuns
<1>1. PollInv => JobsHaveRuns
  BY DEF PollInv
<1> QED BY PollInvHolds, <1>1, PTL

\* No later payload, not even an older one, takes back a row or a start that is known:
\* COALESCE in the conflict clauses of upsert_run and upsert_job.
THEOREM StartsAreKept == Spec => StartsKept
<1>1. PollInv /\ [Next]_vars =>
        [\A r \in Runs : /\ run[r] # NoRow => (run'[r] # NoRow /\ (run[r].started_at => run'[r].started_at))
                         /\ job[r] # NoRow => (job'[r] # NoRow /\ (job[r].started_at => job'[r].started_at))]_vars
  <2> SUFFICES ASSUME PollInv, Next PROVE RowsGrow
    BY DEF RowsGrow
  <2> QED BY StepsGrow DEF PollInv
<1> QED BY PollInvHolds, <1>1, PTL DEF Spec, StartsKept
=============================================================================
