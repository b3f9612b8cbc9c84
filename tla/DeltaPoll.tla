------------------------------ MODULE DeltaPoll -------------------------------
(***************************************************************************)
(* One repo's runs on their way from GitHub to the tables: ingest_repo,    *)
(* the delta poll, with its cursor runs_etag, beside the handlers of       *)
(* webhook events, which write the same rows.                              *)
(*                                                                         *)
(* An actor is a claim loop of the worker while it polls the repo or       *)
(* handles its events; proc[a] is the process it is a coroutine of.  A     *)
(* poll writes the job rows of its window in one transaction that stays    *)
(* open while it awaits the provider, so its rows stay locked meanwhile.   *)
(* psycopg is synchronous: an actor that meets a locked row blocks its     *)
(* whole thread, the coroutines of its process with it.                    *)
(*                                                                         *)
(* A run is the number GitHub gives it, and the first page holds them all, *)
(* newest first: Runs has at most the 100 a page has room for.             *)
(***************************************************************************)
EXTENDS RunStore, FiniteSets

CONSTANTS
  Runs,
  Pollers,
  Handlers,
  Limit,       \* the limit each poll asks for
  WithJobs,    \* the polls that fetch jobs: all but those of ingest --no-jobs
  proc,        \* the process an actor belongs to
  NoEtag,
  RepoRow,     \* what an actor waits to write that waits for the row of the repo
  NoWrite,     \* what an actor waits to write that waits for no lock
  Subscribed,  \* the kinds of events the installation delivers
  LastStage,   \* bound on how far each run goes
  MaxEvents,   \* bound on the events that are waiting to be handled
  MaxFaults    \* bound on swallowed fetches, deaths and double deliveries

Actors == Pollers \cup Handlers

ASSUME RunAssumption == Runs \subseteq Nat /\ IsFiniteSet(Runs)
ASSUME PollAssumption == Limit \in [Pollers -> Nat \ {0}] /\ WithJobs \subseteq Pollers
ASSUME ActorAssumption == Pollers \cap Handlers = {}
ASSUME KindAssumption == Subscribed \subseteq {"workflow_run", "workflow_job"}
ASSUME BoundAssumption == MaxFaults \in Nat /\ MaxEvents \in Nat /\ LastStage \in [Runs -> Stages]

VARIABLES
  \* GitHub
  world,    \* the stage of each run, 0 before it exists
  events,   \* what was delivered to the receiver, and is not handled yet
  \* the database
  run, job, \* the committed rows
  etag,     \* repo.runs_etag
  \* the actors
  at,       \* where a poll is in ingest_repo
  cursor,   \* etag, as the poll read it
  list,     \* new_etag: the first page of runs, as the provider returned it
  todo,     \* the runs whose tasks the poll has not consumed yet
  got,      \* what each finished task brought, 0 while it is under way
  draft,    \* the stages of the job rows its open transaction has written, 0 for none
  waits,    \* the write an actor is blocked in
  reach,    \* history: how many runs the poll that stored etag fetched the jobs of
  skipped,  \* history: the runs a fetch_jobs of which raised and was swallowed
  faults

github == <<world, events>>
rows   == <<run, job, etag>>
polls  == <<at, cursor, list, todo, got, draft>>
vars   == <<github, rows, polls, waits, reach, skipped, faults>>

\* An ETag stands for the list it came with.
Etags   == [Runs -> 0 .. Completed]
Nothing == [r \in Runs |-> 0]

Named(l) == {r \in Runs : l[r] # 0}

\* collected[:n] of the list l: its n newest runs.
Window(l, n) == {r \in Named(l) : Cardinality({s \in Named(l) : s > r}) < n}

\* The window of jobs a poll goes through.
Reach(p) == IF p \in WithJobs THEN Limit[p] ELSE 0

Writes  == [run : Runs, stage : Stages]
Places  == {"idle", "listing", "paging", "collected", "jobs", "writing", "storing"}
Events  == [kind : Subscribed, run : Runs, stage : Stages]

\* The types; and no transaction is open but that of a poll that writes jobs.
TypeOK ==
  /\ world \in Etags
  /\ events \subseteq Events
  /\ run \in [Runs -> RunRows \cup {NoRow}]
  /\ job \in [Runs -> JobRows \cup {NoRow}]
  /\ etag \in Etags \cup {NoEtag}
  /\ at \in [Pollers -> Places]
  /\ cursor \in [Pollers -> Etags \cup {NoEtag}]
  /\ list \in [Pollers -> Etags]
  /\ todo \in [Pollers -> SUBSET Runs]
  /\ got \in [Pollers -> Etags]
  /\ draft \in [Pollers -> Etags]
  /\ \A p \in Pollers : draft[p] # Nothing => at[p] \in {"jobs", "writing"}
  /\ waits \in [Actors -> Writes \cup {RepoRow, NoWrite}]
  /\ reach \in Nat
  /\ skipped \subseteq Runs
  /\ faults \in 0 .. MaxFaults

Init ==
  /\ world = Nothing
  /\ events = {}
  /\ run = [r \in Runs |-> NoRow]
  /\ job = [r \in Runs |-> NoRow]
  /\ etag = NoEtag
  /\ at = [p \in Pollers |-> "idle"]
  /\ cursor = [p \in Pollers |-> NoEtag]
  /\ list = [p \in Pollers |-> Nothing]
  /\ todo = [p \in Pollers |-> {}]
  /\ got = [p \in Pollers |-> Nothing]
  /\ draft = [p \in Pollers |-> Nothing]
  /\ waits = [a \in Actors |-> NoWrite]
  /\ reach = 0
  /\ skipped = {}
  /\ faults = 0

-----------------------------------------------------------------------------
(* GitHub. *)

\* A run is created or goes on, and GitHub delivers some of the events that tell of it.
Advance(r) ==
  /\ world[r] < LastStage[r]
  /\ \A s \in Runs : s < r => world[s] # 0
  /\ world' = [world EXCEPT ![r] = @ + 1]
  /\ \E kinds \in SUBSET Subscribed :
       /\ events' = events \cup [kind : kinds, run : {r}, stage : {world'[r]}]
       /\ Cardinality(events') <= MaxEvents
  /\ UNCHANGED <<rows, polls, waits, reach, skipped, faults>>

-----------------------------------------------------------------------------
(* Threads and row locks. *)

\* A poll that is between two awaits: it has all the runs it asked for, or has consumed a task
\* and another is already finished or there is none left.
Running(p) == at[p] \in {"collected", "writing", "storing"}

\* An actor runs when no coroutine of its process is blocked, itself included, and no other
\* is between two awaits.
Runnable(a) ==
  \A b \in Actors : proc[b] = proc[a] =>
    /\ waits[b] = NoWrite
    /\ b # a /\ b \in Pollers => ~Running(b)

\* A job row that an open transaction of another actor has written.
LockedBy(r, p) == draft[p][r] # 0
Locked(r, a) == \E p \in Pollers \ {a} : LockedBy(r, p)

\* A handler that waits for a job's row has written the row of the repo before.
RepoLocked == \E h \in Handlers : waits[h] \in Writes

\* An actor is about to write the row of the repo: a poll its facts or its cursor, a handler its
\* facts.
AtRepo(a) == IF a \in Pollers THEN at[a] \in {"idle", "storing"} ELSE events # {}

MeetRepoLock(a) ==
  /\ Runnable(a)
  /\ AtRepo(a)
  /\ RepoLocked
  /\ waits' = [waits EXCEPT ![a] = RepoRow]
  /\ UNCHANGED <<github, rows, polls, reach, skipped, faults>>

\* It writes the row, having waited or not.
WritesRepo(a) ==
  /\ Runnable(a) \/ waits[a] = RepoRow
  /\ ~RepoLocked

Fault == faults < MaxFaults /\ faults' = faults + 1

-----------------------------------------------------------------------------
(* ingest_repo. *)

\* get_repo has answered: upsert_repo, its commit, and read the cursor.
ReadCursor(p) ==
  /\ WritesRepo(p)
  /\ at[p] = "idle"
  /\ at' = [at EXCEPT ![p] = "listing"]
  /\ cursor' = [cursor EXCEPT ![p] = etag]
  /\ waits' = [waits EXCEPT ![p] = NoWrite]
  /\ UNCHANGED <<github, rows, list, todo, got, draft, reach, skipped, faults>>

\* fetch_runs of the first page: 304, and the poll is over, or the list as it is now; the next
\* page is asked for only by a poll whose limit the first does not fill.
FetchRuns(p) ==
  /\ Runnable(p)
  /\ at[p] = "listing"
  /\ \/ /\ cursor[p] = world
        /\ at' = [at EXCEPT ![p] = "idle"]
        /\ UNCHANGED list
     \/ /\ cursor[p] # world
        /\ at' = [at EXCEPT ![p] = IF Named(world) # {} /\ Cardinality(Named(world)) < Limit[p]
                                   THEN "paging" ELSE "collected"]
        /\ list' = [list EXCEPT ![p] = world]
  /\ cursor' = [cursor EXCEPT ![p] = NoEtag]
  /\ UNCHANGED <<github, rows, todo, got, draft, waits, reach, skipped, faults>>

\* Mutant of WriteRuns: the cursor is stored as soon as the runs are.
WriteRunsAndCursor(p) ==
  /\ Runnable(p)
  /\ at[p] \in {"paging", "collected"}
  /\ run' = [r \in Runs |-> IF r \in Window(list[p], Limit[p]) THEN UpsertRun(run[r], list[p][r]) ELSE run[r]]
  /\ todo' = [todo EXCEPT ![p] = Window(list[p], Reach(p))]
  /\ at' = [at EXCEPT ![p] = IF todo'[p] = {} THEN "writing" ELSE "jobs"]
  /\ etag' = list[p]
  /\ reach' = Reach(p)
  /\ UNCHANGED <<github, job, cursor, list, got, draft, waits, skipped, faults>>

\* Mutant of WriteRuns: an empty page does not end the listing, which asks for the one after it.
WriteRunsOfFullPage(p) ==
  /\ Runnable(p)
  /\ at[p] = "collected"
  /\ run' = [r \in Runs |-> IF r \in Window(list[p], Limit[p]) THEN UpsertRun(run[r], list[p][r]) ELSE run[r]]
  /\ todo' = [todo EXCEPT ![p] = Window(list[p], Reach(p))]
  /\ at' = [at EXCEPT ![p] = IF todo'[p] = {} THEN "writing" ELSE "jobs"]
  /\ UNCHANGED <<github, job, etag, cursor, list, got, draft, waits, reach, skipped, faults>>

\* The limit is reached, or the page after it was empty: cut what was collected to the limit,
\* upsert and commit it, and start the tasks.
WriteRuns(p) ==
  /\ Runnable(p)
  /\ at[p] \in {"paging", "collected"}
  /\ run' = [r \in Runs |-> IF r \in Window(list[p], Limit[p]) THEN UpsertRun(run[r], list[p][r]) ELSE run[r]]
  /\ todo' = [todo EXCEPT ![p] = Window(list[p], Reach(p))]
  /\ at' = [at EXCEPT ![p] = IF todo'[p] = {} THEN "writing" ELSE "jobs"]
  /\ UNCHANGED <<github, job, etag, cursor, list, got, draft, waits, reach, skipped, faults>>

\* A task of _jobs_for: fetch_jobs answers.
FetchJobs(p, r) ==
  /\ Runnable(p)
  /\ at[p] = "jobs"
  /\ r \in todo[p]
  /\ got[p][r] = 0
  /\ got' = [got EXCEPT ![p][r] = world[r]]
  /\ UNCHANGED <<github, rows, at, cursor, list, todo, draft, waits, reach, skipped, faults>>

\* With the task of r consumed, the poll awaits the next one only if none is finished.
AfterTask(p, r) ==
  IF todo[p] # {r} /\ \A s \in todo[p] \ {r} : got[p][s] = 0 THEN "jobs" ELSE "writing"

\* A task of _jobs_for: fetch_jobs raises, and the exception is swallowed; no jobs.
SkipJobs(p, r) ==
  /\ Runnable(p)
  /\ at[p] = "jobs"
  /\ r \in todo[p]
  /\ got[p][r] = 0
  /\ Fault
  /\ skipped' = skipped \cup {r}
  /\ todo' = [todo EXCEPT ![p] = @ \ {r}]
  /\ at' = [at EXCEPT ![p] = AfterTask(p, r)]
  /\ UNCHANGED <<github, rows, cursor, list, got, draft, waits, reach>>

\* as_completed hands over a finished task: upsert_job, or wait for whoever holds the row.
WriteJobs(p, r) ==
  /\ r \in todo[p]
  /\ got[p][r] # 0
  /\ \/ Runnable(p)
     \/ waits[p] \in Writes /\ waits[p].run = r
  /\ \/ /\ Locked(r, p)
        /\ waits[p] = NoWrite
        /\ waits' = [waits EXCEPT ![p] = [run |-> r, stage |-> got[p][r]]]
        /\ UNCHANGED <<at, todo, got, draft>>
     \/ /\ ~Locked(r, p)
        /\ waits' = [waits EXCEPT ![p] = NoWrite]
        /\ draft' = [draft EXCEPT ![p][r] = got[p][r]]
        /\ got' = [got EXCEPT ![p][r] = 0]
        /\ todo' = [todo EXCEPT ![p] = @ \ {r}]
        /\ at' = [at EXCEPT ![p] = AfterTask(p, r)]
  /\ UNCHANGED <<github, rows, cursor, list, reach, skipped, faults>>

\* Every task consumed: the jobs and steps are committed.
CommitJobs(p) ==
  /\ Runnable(p)
  /\ at[p] \in {"jobs", "writing"}
  /\ todo[p] = {}
  /\ job' = [r \in Runs |-> IF draft[p][r] = 0 THEN job[r] ELSE UpsertJob(job[r], draft[p][r])]
  /\ draft' = [draft EXCEPT ![p] = Nothing]
  /\ at' = [at EXCEPT ![p] = "storing"]
  /\ UNCHANGED <<github, run, etag, cursor, list, todo, got, waits, reach, skipped, faults>>

\* _store_etag: the ETag of the whole page, whatever the window was cut to.
StoreEtag(p) ==
  /\ WritesRepo(p)
  /\ at[p] = "storing"
  /\ etag' = list[p]
  /\ reach' = Reach(p)
  /\ at' = [at EXCEPT ![p] = "idle"]
  /\ list' = [list EXCEPT ![p] = Nothing]
  /\ waits' = [waits EXCEPT ![p] = NoWrite]
  /\ UNCHANGED <<github, run, job, cursor, todo, got, draft, skipped, faults>>

\* Mutant of Reset: a connection stays open, and its transaction with it.
ResetWithoutRollback(ps) ==
  /\ at' = [p \in Pollers |-> IF p \in ps THEN "idle" ELSE at[p]]
  /\ cursor' = [p \in Pollers |-> IF p \in ps THEN NoEtag ELSE cursor[p]]
  /\ list' = [p \in Pollers |-> IF p \in ps THEN Nothing ELSE list[p]]
  /\ todo' = [p \in Pollers |-> IF p \in ps THEN {} ELSE todo[p]]
  /\ got' = [p \in Pollers |-> IF p \in ps THEN Nothing ELSE got[p]]
  /\ UNCHANGED draft

\* The polls in ps are gone, their open transactions rolled back.
Reset(ps) ==
  /\ at' = [p \in Pollers |-> IF p \in ps THEN "idle" ELSE at[p]]
  /\ cursor' = [p \in Pollers |-> IF p \in ps THEN NoEtag ELSE cursor[p]]
  /\ list' = [p \in Pollers |-> IF p \in ps THEN Nothing ELSE list[p]]
  /\ todo' = [p \in Pollers |-> IF p \in ps THEN {} ELSE todo[p]]
  /\ got' = [p \in Pollers |-> IF p \in ps THEN Nothing ELSE got[p]]
  /\ draft' = [p \in Pollers |-> IF p \in ps THEN Nothing ELSE draft[p]]

\* At an await: RateLimited, an error of get_repo or fetch_runs, or JOB_TIMEOUT.
LeavePoll(p) ==
  /\ Runnable(p)
  /\ at[p] \in {"listing", "paging"} \/ (at[p] = "jobs" /\ todo[p] # {})
  /\ Reset({p})
  /\ UNCHANGED <<github, rows, waits, reach, skipped, faults>>

\* Postgres ends a cycle of waiting transactions by failing one of them.
Deadlocked(p) ==
  /\ waits[p] \in Writes
  /\ \E q \in Pollers \ {p} : /\ LockedBy(waits[p].run, q)
                              /\ waits[q] \in Writes
                              /\ LockedBy(waits[q].run, p)
  /\ Reset({p})
  /\ waits' = [waits EXCEPT ![p] = NoWrite]
  /\ UNCHANGED <<github, rows, reach, skipped, faults>>

\* A process dies.
Crash(a) ==
  LET gone == {b \in Actors : proc[b] = proc[a]}
  IN  /\ Fault
      /\ Reset(gone \cap Pollers)
      /\ waits' = [b \in Actors |-> IF b \in gone THEN NoWrite ELSE waits[b]]
      /\ UNCHANGED <<github, rows, reach, skipped>>

-----------------------------------------------------------------------------
(* _handle_webhook_event. *)

\* The event's transaction is committed and its row completed; or the worker dies in
\* between, and the event will be handled again.
Handled(e) ==
  \/ events' = events \ {e} /\ UNCHANGED faults
  \/ Fault /\ UNCHANGED events

\* upsert_repo and upsert_run, in one transaction.
HandleRunEvent(h, e) ==
  /\ WritesRepo(h)
  /\ e \in events
  /\ e.kind = "workflow_run"
  /\ run' = [run EXCEPT ![e.run] = UpsertRun(@, e.stage)]
  /\ waits' = [waits EXCEPT ![h] = NoWrite]
  /\ Handled(e)
  /\ UNCHANGED <<world, job, etag, polls, reach, skipped>>

\* upsert_repo, the stub and the job, in one transaction; it blocks where a poll holds the
\* job's row.
HandleJobEvent(h, e) ==
  /\ e \in events
  /\ e.kind = "workflow_job"
  /\ WritesRepo(h) \/ waits[h] = [run |-> e.run, stage |-> e.stage]
  /\ \/ /\ Locked(e.run, h)
        /\ waits[h] \notin Writes
        /\ waits' = [waits EXCEPT ![h] = [run |-> e.run, stage |-> e.stage]]
        /\ UNCHANGED <<events, run, job, faults>>
     \/ /\ ~Locked(e.run, h)
        /\ waits' = [waits EXCEPT ![h] = NoWrite]
        /\ run' = [run EXCEPT ![e.run] = EnsureRunStub(@, e.stage)]
        /\ job' = [job EXCEPT ![e.run] = UpsertJob(@, e.stage)]
        /\ Handled(e)
  /\ UNCHANGED <<world, etag, polls, reach, skipped>>

-----------------------------------------------------------------------------
\* What a poll does next of its own accord.
PollStep(p) ==
  \/ FetchRuns(p)
  \/ WriteRuns(p)
  \/ \E r \in Runs : FetchJobs(p, r) \/ WriteJobs(p, r)
  \/ CommitJobs(p)
  \/ StoreEtag(p)

HandlerStep(h) == \E e \in events : HandleRunEvent(h, e) \/ HandleJobEvent(h, e)

Next ==
  \/ \E r \in Runs : Advance(r)
  \/ \E p \in Pollers : ReadCursor(p) \/ PollStep(p) \/ LeavePoll(p) \/ Deadlocked(p)
  \/ \E p \in Pollers, r \in Runs : SkipJobs(p, r)
  \/ \E h \in Handlers : HandlerStep(h)
  \/ \E a \in Actors : MeetRepoLock(a) \/ Crash(a)

Spec == Init /\ [][Next]_vars

\* An event loop runs its coroutines and every request ends; Postgres grants a row lock in the
\* order it was asked for, and looks for cycles.
FairSpec ==
  /\ Spec
  /\ \A p \in Pollers :
       /\ WF_vars(PollStep(p))
       /\ SF_vars(waits[p] # NoWrite /\ (ReadCursor(p) \/ PollStep(p)))
       /\ WF_vars(Deadlocked(p))
  /\ \A h \in Handlers :
       /\ WF_vars(HandlerStep(h))
       /\ SF_vars(waits[h] # NoWrite /\ HandlerStep(h))

-----------------------------------------------------------------------------
(* Properties. *)

\* The runs the poll that stored the cursor fetched the jobs of.
Covered == IF etag = NoEtag THEN {} ELSE Window(etag, reach)

JobsStored(r) == job[r] # NoRow /\ (etag[r] >= InProgress => job[r].started_at)

\* A poll that finds the cursor unchanged returns at once, so what its poll promised must be
\* there: the jobs of each run within its limit, at least as far on as the list, except where a
\* fetch raised; whatever other polls and handlers write and wherever a poll is cut off. Of a
\* run beyond the limit it promises nothing: the ETag is of the page of 100, and a later poll
\* with a greater limit is answered 304 all the same.
CursorCoversJobs == \A r \in Covered : r \in skipped \/ JobsStored(r)

\* What the comment above the call of _store_etag says: every run of the window has its jobs.
CursorCoversEveryRun == \A r \in Covered : JobsStored(r)

\* No insert of a job can fail its foreign key, whichever of poll and events comes first.
JobsHaveRuns == \A r \in Runs : job[r] # NoRow => run[r] # NoRow

\* A start, once known, survives every later payload, even an older one.
StartsKept ==
  [][\A r \in Runs : /\ run[r] # NoRow => (run'[r] # NoRow /\ (run[r].started_at => run'[r].started_at))
                     /\ job[r] # NoRow => (job'[r] # NoRow /\ (job[r].started_at => job'[r].started_at))]_vars

\* Every actor that is busy or blocked is free again, some time.
SlotComesBack ==
  /\ \A p \in Pollers : at[p] # "idle" ~> at[p] = "idle"
  /\ \A a \in Actors : waits[a] # NoWrite ~> waits[a] = NoWrite
=============================================================================
