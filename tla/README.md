# Cadence in TLA+

Cadence ingests the history of GitHub Actions runs into PostgreSQL, by polling and by
webhooks, and audits it for CI time that could be saved. The modules in this directory
specify the parts of it whose correctness depends on order (who may touch which row when, what
survives a crash, what has to happen some time) and the rules whose verdicts depend on what was
known when they were asked. TLC checks them on small instances; TLAPS proves every safety property
that the passing runs check, for every instance.

    tlc -workers 2 -config MCIngestPolls.cfg MCIngest      # one run
    tlapm IngestSystemProofs.tla                           # the proofs

Paths in this file are relative to the repository root.

## The system

| Component | State | Operations | Talks to |
|---|---|---|---|
| Webhook receiver, `src/cadence/webhook.py` | `webhook_delivery` | `_record_delivery`, in a thread per request | inserts into the queue, in the same transaction |
| Job queue, `src/cadence/queue.py` | `ingest_job` | `enqueue`, `claim_next`, `complete`, `fail`, `pending_or_processing_count` | the table is the only channel between receiver, command line and workers |
| Worker, `src/cadence/worker.py` | what each claim loop holds | claim, dispatch under a watchdog, settle; chain the next poll | queue, ingest, log store, provider |
| Ingest, `src/cadence/ingest.py` | `repo.runs_etag`, `run`, `job`, `step` | `ingest_repo` (delta poll), upserts that event handlers share | provider; called by the worker and by `cadence ingest` |
| GitHub provider, `src/cadence/providers/` | none (HTTP client) | requests, parsing, `normalize_event` | GitHub |
| Log store, `logstore.py` | files named by content, `log_chunk` | `put`, `store_job_log` | provider, worker |
| Commit store, `commitstore.py` | `repo_commit`, `run.tree_sha` | `unfetched_shas`, `store_commits`, `backfill_tree_shas` | provider |
| Config store, `configstore.py` | `workflow_blob`, `workflow_snapshot` | `store_snapshot`, loads | audit |
| Audit, `audit.py`, `detectors/` | none | `build_context`, `run_audit` | reads runs and configuration, writes findings |
| Findings, `findings.py` | `finding`, `evidence` | `persist_findings`, `resolve_missing` | audit |
| Suppression, `suppress.py` | the same rows | `apply`, `suppress_one`, `unsuppress_one` | audit, user |
| Analysis, `dag.py`, `simulate.py`, `cost.py`, `calibration.py` | none | pure functions of jobs and timings | detectors, reports |
| Fixers, `fixers/` | none | text edits of workflow files | preview |
| Preview source, `source.py`, `preview.py` | cached snapshots on disk | `save`, `load` | fixers |
| Reports, command line, settings | none | rendering, arguments | everything |

Several processes share the database: workers (`deploy/cadence-worker.service` starts one with
four loops; a user may start more, some with `--until-empty`), the receiver, audits, the user's
commands. Inside a worker the loops are coroutines of one thread and psycopg is synchronous, so
a loop gives up the thread only where it awaits the provider or sleeps.

What makes this hard: claims that expire while their handler runs; a worker that dies between
two of its transactions; deliveries repeated, lost, reordered; a poll whose transaction stays
open while it awaits; reads that are stale when they are written back; a chain of polls that
hangs on a single insert; files that several processes write under one name; rules asked again
with more or less knowledge, and fixes merged on what they said. `PROJECT.json` lists each hazard with its line and the properties
that would show it going wrong.

What makes each component correct: a claim is exclusive while its holder acts on it; no event
is lost or recorded twice; an event is applied or given up after a fixed number of failures;
each repo is polled again and again; a draining worker leaves only when nothing is left; the
delta cursor never passes over a run whose details are missing; later payloads do not erase
what earlier ones brought; a user's decision about a finding stays; what a store can be asked
for is whole and belongs to whom it is filed under, and a backfill comes nearer to its end with
each pass; a verdict stands up to more knowledge, agrees with what happened, and is not repeated
once its fix is merged.

## Modules

**The ingest path.** `IngestQueue` has the table and one operator per statement of `queue.py`.
`Worker` has the claim loops: `pc` is the place of a loop in `run_worker`, and each action ends
at a commit or an await (`ClaimNext`; `CountRemaining`; `HandleEvent`; `PollEnds`, `TimeOut` and
`Cancel`, the ways out of a poll; `ChainPeek`, `ChainInsert` and `ChainFails`, the finally block;
`Settle`; `Crash`). `Scheduled` lets a loop move only when no other of its
process is between two awaits. `WebhookReceiver` has the threads of the receiver, with the wait of
an INSERT for an uncommitted one of the same key. `IngestSystem` composes the three, counts
faults, and states the properties. `EventLedger` is the abstract specification: a delivery is
accepted, applied any number of times, and closed for good once it is applied or has failed
`MAX_ATTEMPTS + 1` times; `IngestSystem` implements it under the mapping `accepted <- received`,
`open <-` the deliveries whose row is pending or processing, `applied <- processed`,
`failures <-` the attempts on the row.

Time is relative: `due` counts the ticks to `run_at`, `age` those since `updated_at`, `elapsed`
those since a loop's claim. `Tick` cannot pass the point at which `wait_for` ends a handler, so
the model assumes what the watchdog is for: no thread is blocked for longer than `GRACE` after
its timer. Where that fails, nothing below holds; `wedge` (see below) is a way for it to fail.

**The delta poll.** `RunStore` has the upserts as functions of the old row and the stage (queued,
in progress, completed) at which GitHub took the payload. `DeltaPoll` has `ingest_repo` from
reading the cursor to storing it, one action per await or commit, with the row locks of its open
transaction (`draft`), beside the handlers of `workflow_run` and `workflow_job` events. `proc[a]`
is the process of an actor: an actor that waits for a lock stops all of its process. Each poll has a
`Limit`, as `corpus seed`, `ingest` and the payload of a job give it: it goes on to a second page
only if the first does not fill it (`FetchRuns`), writes the newest runs up to it, and of those that
it writes fetches the jobs, or of none, for `ingest --no-jobs` (`WriteRuns`, `Window`, `Reach`). The ETag it
stores is that of the page all the same. A handler
that waits for a job's row has already written the row of the repo, so whoever writes that row
meanwhile, a poll its facts or its cursor, a handler its facts, waits as well (`MeetRepoLock`). `skipped` and
`reach` are history: the runs a fetch failed for, and the limit of the poll that stored the cursor.

**Findings.** `Findings` has audits and the user at the granularity of statements: the SELECT and
the write of each draft, the locks a transaction holds to its commit, `resolve_missing`, the two
halves of `apply`, and the user's two commands. An audit that can read `.cadenceignore` applies all
the repository's rules (`MatchRules`); one whose request for it fails, which `_fetch_ignore_file` swallows,
applies those of inline comments alone and ends as usual (`MatchInline`). `unread` is history: what such audits left open
since one could read the file. The rules themselves do not change.

**The stores.** `Files` is a directory: names lead to files, a process goes on writing the file it
has opened whatever becomes of its name, `rename` puts one file in the place of another. On it
stand `LogStore` (`put`, `store_job_log`, `fetch_log` jobs that race, fail and die) and
`PreviewCache` (`capture_source`, `save`, `--snapshot`). `CommitStore` has the passes of `cadence commits backfill`: what
is read before the fetches and written after them, while runs arrive. `ConfigStore` has
`store_snapshot` statement by statement, in one READ COMMITTED transaction for all files that an audit
read, under overlapping audits: the SELECT for other contents and the INSERT of each path, the wait for another
store's row, the commit or the rollback, and the two times each row bears, which are those of the begin. `ActionLookup` has
`resolve_actions` over `_get` and its retries, request by request. These components share no
state. `MCStores` puts them side by side: a behaviour is that of one *scene*, chosen at the
start, and the others stay as they are. The invariants are then checked on each.

**The rules.** The functions a detector or fixer is made of are operators; around them, the modules
have the steps by which what they are asked about comes to be.

- `JobNames`: which config job an observed job is (`job_for_runtime_name`, `index_step_rows`), with
  files edited between a run and the audit.
- `CacheRule`: `cache_state` with nothing, some or all of the actions and of `package.json` read; the
  detector's findings and the fixer's offer from it, made at one time and merged at another.
- `CancelRule`: what superseded runs wasted (`find_superseded_runs`) against what cancelling would
  have saved, with queues, runs under way and re-runs, each seen by its finished jobs alone, as
  `build_context` reads them; the fixer's insertion into the lines of a file, CR and LF included.
- `CriticalPath`: the span that matrix legs collapse to, `toposort` and the longest path job by
  job, and again without an edge that `serialization.py` calls false.
- `IgnoreRules`: `.cadenceignore` and inline comments, which an audit and the fix preview read.
- `HistoryRules`: which matrix leg never failed alone, from tables into which attempts of runs come late,
  twice and out of order.

`MCRules` composes them by scenes like `MCStores`.

The other `MC*` modules give the constants values; the modules named `...Proofs` hold the
proofs. Definitions called a mutant in their comment are not part of the model: each is a
plausible bug, put in place of the definition below it to see that a property notices.

## Runs

| Run | Instance | Shows |
|---|---|---|
| `events` | two deliveries, two receiver threads, two worker processes, two faults | no delivery is dropped, doubled, closed early or reopened (`ReceivedIsQueuedOnce`, `EventAppliedOrExhausted`, and the refinement `KeepsLedger`) |
| `polls` | one repo, a normal and a draining process, one fault | `LeaseExclusive`, `PollChainAlive`, `FanOutBounded`, `DrainsBeforeExit` |
| `live` | one loop, one repo, one delivery, one fault | `EventsSettle`, `PollsRecur` |
| `delta_poll` | two polls, of limits 1 and 2, and a handler, each a process, two runs, of one and two stages, one fault | `CursorCoversJobs`, `JobsHaveRuns`, `StartsKept` |
| `delta_poll_live` | two polls of two runs and a handler of both kinds of events, each a process | `SlotComesBack` with locks taken in opposite orders |
| `findings` | two audits, two findings of two detectors, one matched by an inline comment and one by `.cadenceignore`, one fault | `EvidenceOfOneAudit`, `SuppressedIsExplained`, `RulesHold`, `SuppressionIsRespected` |
| `stores`, scene `logs` | two writers, three jobs, two of them with the same log and one expired, one fault | an object is whole from the moment it has its name and a row of `log_chunk` is right (`LogsReadable`); one download unless fetchers race or fail (`FetchedOnce`) |
| `stores`, scene `previews` | two previewers, two workflow files, one failure | an interrupted `save` leaves the snapshot that was there (`SnapshotReadable`) |
| `stores`, scene `commits` | two passes at a time, four runs of three commits, the newest lost | trees are never lost or mixed up (`TreesStay`), come to every run (`TreesFilled`), and each pass adds a commit (`PassesAdvance`) |
| `stores`, scene `config` | two auditors, two paths, two edits, three stores | `LatestIsLastRead`, `HistoryIsWhatWasSeen` |
| `stores`, scene `lookup` | composites in a diamond, a cycle and a missing one | within its budget the lookup finds all it should (`IndexComplete`), and calls nothing missing for a failed request (`MissingIsMissing`) |
| `rules`, scene `names` | a workflow file of up to three jobs of nine shapes | step times are filed under the job they are of, or none (`StepsOfOwnJob`) |
| `rules`, scene `cache` | up to four steps of eleven shapes | findings stand up to more reading (`FindingsStandUp`); a merged fix ends the matter (`FixesStick`) |
| `rules`, scenes `runs`, `text` | three runs on two refs, one run again; files of six layouts | waste is no more than cancelling would have saved, and in the end just that (`WasteIsSaved`); the inserted block (`FixesStick`) |
| `rules`, scene `path` | four jobs, every acyclic graph in the order of names, and those with an edge back | `LongestPath`, `SpansAddUp` |
| `rules`, scene `ignore` | five findings, four targets | what the repository names is not proposed and is suppressed (`PolicyIsHonoured`) |
| `rules`, scene `history` | two workflows of two legs, one with a gate, two runs of up to two attempts | a leg that was once the only failure is not called redundant (`NeverAlone`) |
| `cursor_skips` | one poll, one run, one swallowed fetch | violated: `CursorCoversEveryRun` |
| `wedge` | one poll and one handler in one process, two runs | violated: `SlotComesBack` |
| `suppression_lost` | one audit, one finding | violated: `SuppressionSurvives` |
| `gate_hides_catch` | the scene `history` | violated: `OthersCaughtIt` |

Every run but the live and the violated ones also checks the type invariant of its modules
(`polls` leaves it to `events`, which is an instance of the same specification). Four runs end
in a counterexample, because the code does something else than a comment or docstring of it
says; `PROJECT.json` quotes each under "findings".

- `cursor_skips`: one failed `fetch_jobs` is swallowed and the ETag stored all the same.
- `wedge`: a poll has written run 1's job and awaits run 2's; the handler of an event of
  run 1 waits for that row, on the thread the poll needs. No timer can fire.
- `suppression_lost`: SELECT by the audit, suppression by the user, UPDATE by the audit.
- `gate_hides_catch`: a leg fails, alone of its matrix, and the gate that needs all legs fails with
  it; the rule counts two failures, and calls the leg redundant.

Some properties hold only with a condition the code's comments do not mention, and say so:
`FetchedOnce` excepts logs that two workers fetched at a time or one failed at, `SnapshotReadable`
previews of one commit that save together (their temporary has the same name), `TreesFilled` runs
that came after their commit, `PassesAdvance` a repository with `--limit` commits that cannot be
fetched. Five others need more words:

- `CursorCoversJobs` is about the runs within the limit of the poll that stored the cursor
  (`ingest.py:272`). The page has 100 and its ETag is stored whatever the limit: after a
  `corpus seed` of 40, an `ingest --limit 100` is answered 304 and writes none of the other 60, until the page
  changes. After `ingest --no-jobs` the same is true of all jobs.
- `RulesHold` excepts what is left open because `.cadenceignore` could not be fetched (`cli.py:534`), until an
  audit can read it.
- `HistoryIsWhatWasSeen` has an exact count of changes and the order of the contents only for paths that no two
  open stores held at once: two that store the first two contents of a path each look for others before
  the other has committed, and both count no change (`configstore.py:70-88`). Which contents there are is right
  even then, and never are more counted than changed.
- `LatestIsLastRead` excepts a path whose newest content was stored once more by a transaction that had begun
  earlier: `last_seen` then goes back (`configstore.py:84`), and an older row can be the latest.
- `WasteIsSaved` bounds the waste of a run only if the older runs of its ref show their first job. The rule takes
  a run's start and end from its finished jobs, over or not (`detectors/cancellation.py:171`): an older run
  of which only a later job is finished passes for one that started late, and the newer one is charged with
  the overlap, though cancelling would have saved nothing. It excepts re-runs, whose carried jobs show an older start and whose
  new ones a later, and runs that start out of order.

Three more were found by failed attempts to prove the property without them, and without the condition
TLC finds a counterexample:

- `job_for_runtime_name` declines a tie of stripped names, but goes on to the only job whose name is an
  expression and takes that (`workflow.py:182`; the docstring speaks of ties at 151-154).
  `StepsOfOwnJob` excepts it.
- It splits `<caller> / <inner>` at the first slash, and takes the first job that has the caller's name
  stripped or not (`workflow.py:174`). `StepsOfOwnJob` asks that names can be told apart (`Distinct`).
- In a file that mixes CR LF and LF, lines are counted in one way and split in the other, so the
  concurrency block can land inside another top-level key, and `_verify` looks only at jobs and triggers
  (`fixers/concurrency.py:106` and 260-288). `FixesStick` says where the block stands only if line
  endings are of one kind.

### Bounds

`Jobs` bounds the rows there are at once: one per delivery, and for polls more than any
reachable state needs (TLC finds at most 4 of the 7, and `FanOutBounded` allows 6 there). A
poll's row that is over is forgotten and its id used again, which is sound since no loop holds
it (`LeaseExclusive`). `MAX_ATTEMPTS` is 1, so each row is tried at most twice besides crashes, which
is enough to tell the first, a middle and the last failure apart from one another and from one too many. Lease,
timeout and poll interval are one or two ticks, in the order of the real ones (timeout below
lease, `POLL_INTERVAL` above zero). In `live`, a tick is fifteen minutes: `JOB_TIMEOUT` is over
within the tick. `HORIZON` merges rows that are overdue by more. `MaxFaults` bounds crashes,
shutdowns, failing statements and aborted requests together; one or two are enough for a fault
during the recovery from another where that matters (`events`). The view `View` identifies states that differ in
the ids of rows. `LastStage` bounds how far a run goes; two stages of one run are enough for an old payload
after a newer one, and two runs for a page that one poll's limit cuts and the other's does not. `MaxEvents`
bounds the events that wait at a time: one is enough to cross each write of a poll, and may be handled late,
twice, or never come. (`delta_poll` has 2,282,419 states, and `delta_poll_live` 58,212; the latter has no faults, as an actor must
come free without one.) In `findings` (591,169 states) any set of findings may be present at each audit, and
the fault, a detector that raises, an audit cut short or a failed request for the rules, may come at any of them.

In `stores` (1,159,778 states), two writers are enough for each race (a third repeats what the
second does), and four inodes for an object, its temporaries and a file without a name.
`MaxAsks` lets each log be asked for again once it is there. `Limit` is two with one lost commit,
the newest, so that a pass has a lost commit before it, and one it can get. `MaxPasses`, `MaxCuts`, `MaxEdits` and
`MaxAudits` let a file return to earlier content under two audits that overlap (574,555 of the states): two edits
and three stores are the least for a store that comes late to put a time back. `MAX_LOOKUPS` is
reached when failed lookups are repeated, with uses left in the queue; `MaxTrouble` is enough to
exhaust the `Tries` of one request.

In `rules`, the shapes of jobs and steps are those the rules tell apart, and the states of the
scenes are 5,815 (`names`), 93,114 (`cache`), 774,405 (`runs`, up to a renaming of the two refs), 386 (`text`), 107,811 (`path`),
34,320 (`ignore`) and 223,257 (`history`). A tie needs two jobs, and to break it wrongly a third; files
are judged one by one. Three runs allow a run that is superseded
by one, by two, and not at all; `MAX_PLAUSIBLE`, the length beyond which a run is left out, is two of three units of time. `MaxReruns` is one: a second one adds a run whose start and end are not
its own, of which nothing is claimed. `MaxShown`, too: at a time one run under way has a job finished, and can
pass for one that started late. Four jobs are
enough for a diamond and a path around one. `MinRuns` and `MinFailures` are two instead of the
code's thresholds: the number of runs is then the least that meets them. `MaxLedger` is that number.

### Fairness

`live` assumes weak fairness of a handler's, a finally block's and a settlement's steps (an
event loop runs what can run, `wait_for` fires), of the clock, and strong fairness of the claim of each
payload: `ORDER BY run_at` puts a due row before every row that is scheduled later, so it is not
passed over again and again, but other rows can keep the loops busy meanwhile. systemd starts a
worker that died again (`Restart=always`; at most `MaxFaults` deaths, so its limit of five starts
in ten minutes is not reached). Nothing is assumed of the receiver or of GitHub.
`delta_poll_live` assumes weak fairness of each poll and handler, strong fairness of a
step that waited for a lock, since PostgreSQL grants locks in the order they were asked for, and its
deadlock detection. That is also all that `wedge` assumes, and there it is not enough. The other runs
assume no fairness, and state no liveness.

## Proofs

Each theorem holds for all values of the constants that meet the assumptions named in the
module that declares them; TLC evaluates those on every run. All invariants and action properties of
the passing runs are proved, and the refinement. Few of them are
inductive alone: each proof has a strengthening, one lemma or step per action that says the
action keeps it, and a theorem that follows by PTL. TLC agreed to every strengthening on the
instances of the runs before it was proved.

| Module | Theorems for | Inductive invariant |
|---|---|---|
| `IngestSystemProofs` | `TypeOK`, `LeaseExclusive`, `PollChainAlive`, `ReceivedIsQueuedOnce`, `EventAppliedOrExhausted` | `IInv` |
| `IngestPromiseProofs` | `KeepsLedger` (the refinement), `DrainsBeforeExit`; `FanOutBounded` | `IInv`; with `FanInv` |
| `DeltaPollProofs` | `TypeOK`, `CursorCoversJobs`, `JobsHaveRuns`, `StartsKept` | `PollInv` |
| `FindingsProofs` | `TypeOK`, `EvidenceOfOneAudit`, `SuppressedIsExplained`, `RulesHold`, `SuppressionIsRespected` | `FindInv` |
| `StoreProofs` | `LogsReadable`, and that rows of `log_chunk` never change; `FetchedOnce` | `LogInv`; `OnceInv` |
| | `SnapshotReadable` | `PreviewInv` |
| | `TreesStay`, `TreesFilled`; `PassesAdvance` | `CommitInv`; `PassInv` |
| | `LatestIsLastRead`, `HistoryIsWhatWasSeen` | `ConfigInv` |
| | `MissingIsMissing`; `IndexComplete` | `LookupShape`; `BreadthFirst` |
| | `TypeOK` of all stores | `SceneInv` and the above |
| `PathProofs` | `SpansAddUp`; `LongestPath` | `Given`; `Timed` and `Replayed` |
| `RuleProofs` | `FindingsStandUp`, and half of `FixesStick` (`CacheFixSticks`) | `OffersKept` |
| | `WasteIsSaved`; the other half (`CancelFixSticks`) | `HistorySound` and `BurntIsOverlap`; `Mended` |
| | `PolicyIsHonoured`; `NeverAlone`; `StepsOfOwnJob` | `PolicyApplied`; `AttemptsKept`; `JobThere` |
| | `TypeOK` of all rules, `FixesStick` | the above |

`NumberLemmas` has what several of them need of largest and smallest numbers.

**The ingest path.** Any number of loops, processes, rows, repos, deliveries and faults;
`JOB_TIMEOUT + GRACE <= LEASE`; the other intervals anything within `MaxDelay`. `IInv` is the
conjunction of `TypeOK`, `ReceivedIsQueuedOnce`, `EventAppliedOrExhausted` and

- `WorkInv`: a busy loop holds a row that is in processing, whose lease is no older than the
  handler has run (`HoldsItsRow`), and that no other loop holds (`HoldsItAlone`). This is
  where `JOB_TIMEOUT + GRACE <= LEASE` enters: a held row is never expired, so `Claim`
  cannot pick it. It also says that the attempts remembered at the claim are still those of
  the row, that each place of `run_worker` belongs to the kind of row it works on (`KindsApart`), and what rows of
  no use look like (`RowShape`).
- `Chained`: a repo that has no chain failure has a live row other than the one a loop is
  about to settle, once that loop is past its finally block.
- `ThreadsKnow`: what each receiver thread knows of the delivery it serves.

`FanInv` counts, with `FiniteAssumption`: rows that nobody works on and that are in processing
come of faults (`StrandBound`), one loop of a process at a time is between its look at the queue and
its insert, as no await is there (`OneInserts`), and so the live rows of a repo with the inserts to
come are within `Cardinality(Loops) * (faults + 1) + Cardinality(Procs)` (`FanBound`).

**The delta poll.** Any number of pollers, handlers, processes and faults, any limits, and any finite set of runs. `PollInv` says of each poller
that its tasks and its open transaction are those of the place it is at (`TasksInOrder`), that while
it is at its jobs each run within its limit is still to do, in the transaction, or known as skipped
(`NoneForgotten`), and that before it stores the cursor the jobs are committed (`ReadyToStore`),
with the runs always before them (`RunsFirst`). `CursorCoversJobs` and `JobsHaveRuns` are part
of it, and inductive only with these.

**Findings.** Any number of audits, findings and detectors. `FindInv` says where an
audit has anything looked up or matched (`AuditsInOrder`), that while an audit holds the lock of a
finding the evidence it deleted is all there is and a suppression it wrote keeps its reason
(`LocksHold`), that committed evidence is of one audit (`EvidenceRight`), and that a finding a rule
matches is suppressed, left open by an audit that could not read the rule, or an audit is under way that will
suppress it (`SilenceComes`). Rules are any, and any of them inline.

**Logs, previews, commits.** `LogInv`: no file has two names (`OneName`), a temporary leads to the file its writer
has open, with what it wrote (`OwnTemp`), every object is whole (`ObjectsWhole`), and it is there
before its row (`ObjectsFirst`). `OnceInv`: a log that nobody raced for was fetched at most once,
and if it was, its row is there or its one fetcher is still at it. `CommitInv`: every tree in hand is that of its
commit (`CommitShape`), and while no pass is between its two transactions no run is left to fill
(`Filled`). `PassInv`: a pass under way has a missing commit in hand or on its list that can be had,
or has stored one, unless there is none or `Limit` of those it knew of are lost (`Useful`);
`UnfetchedHelps` shows that the newest missing commits always give it one. `PreviewInv`: while no two
saves overlap, the temporary is the writer's own file and not the snapshot's. The types of these
modules need counts of their own: a job's rows in the queue and the fetchers at it are together no more than were
asked for (`LogCounted`).

**Configuration.** Any paths, contents, edits and overlapping audits, statement by statement. `ConfigInv` says what an
open store has read and still has to write (`StoresOpen`), that no two stores have one time (`StoreTimes`), that
rows stand for contents that were stored, with times at which they were (`RowsAreStored`), and that the newest
store's row is the one last touched (`NewestIsLast`). What a store has written of a path is what the INSERT
makes of the committed row, which nobody else can have changed meanwhile, as that row is locked (`DraftsAreOwn`). A path is counted as
changed only by a store that adds a row beside others, so even the counts of stores that miss each other stay below the
number of rows (`ChangesAreNew`); and where no two stores overlap, what SELECT found is still so at the
INSERT and at the commit, so the count is exact and the order of `first_seen` that of the stores (`OneByOne`).

**The lookup of actions.** Any graph of composites, cycles included, any budget and any failures.
`IndexComplete` rests on the order of the queue: it has uses of at most two depths, the smaller first
(`ByDepth`); everything of the head's depth was met or waits at that depth, and what the composites read
so far use was met or waits (`InFront`, `Closed`), as long as no request was given up. With a queue that is
last in, first out, a use may be met first at a greater depth than it has, and what it uses is then left out.

**The cache rule and its fixer.** Any jobs, steps, composites and `package.json`. A step that is cold, or not
cached, is so still when more is read (`StepStands`), through two levels of composites (`State0Stands`), and steps are
cold together only if each is (`CombinedIs`); so a job that was reported is cold (`FindingStands`). `OffersKept`: a diff on offer was made for a job that was reported, and nobody has edited the
job since one was merged.

**Wasted runs.** Any number of runs, refs, jobs of a run and re-runs. `burnt` counts, tick by tick, what cancelling would have
saved; `BurntIsOverlap` says that at every moment it is, of each run that is not run again, the time from the first start among the
runs that overtook it to when it was last seen running. `HistorySound` says what finished jobs can tell of a
run: nothing from before its start, and all of one that is over (`SpanSound`). Where older runs show their first job
and runs start in order, whatever the rule takes for a successor did overtake the run, not before that start
(`FollowersOvertake`), and the last end it sees is no later than the run's; so the waste is no more than what burnt. Once all is
over, whoever overtook is found too (`OvertakersFollow`), and the two are equal. That runs start in order can become false
and not true again (`InOrderBefore`), which is what makes the implication inductive.

**The concurrency block.** Any text. `Mended`: a text with a merged block differs from one that was there by
three lines. The proof follows the lines through the insertion (`WithBlockIs`): with line endings of one kind the
block is put where `_plan_insertion` chose, and it passed over nothing but comments
(`BlockStandsAboveJobs`).

**Critical path.** Any finite graph and any legs. `Timed`: the order is one in which needs come first, and a job
in it starts when the last of what it needs ends. Hence every chain ends no later than its last
job (`ChainsEndInTime`), and for each job there is a chain that ends when it does (`TimesAreChains`);
so the greatest end is the cost of the longest chain. For what `toposort` leaves over, every job
needs another that is left over: walks among them can be made as long as one likes, so one
repeats a job (`LeftOverInCycle`). `Replayed`: a graph with an edge less has no chain the first had not.

**Policy, legs, names.** `PolicyApplied`: what a target read by the last audit matches is suppressed. `AttemptsKept`: the
attempt a run's row shows is the latest that was recorded of it, whatever stubs came late. `JobThere`: while a file
is as the run had it, the observed job is in it under that key, with a name that GitHub makes of it; and
what GitHub adds to a name is undone by what `job_for_runtime_name` strips, of names written
out (`LiteralUndone`) and of templates (`TemplateUndone`), so that it leads to the job or to none (`ResolvesToOwn`).

The constants are assumed to be what their names say: objects and temporaries have names, "no commit" is no tree,
runs, writers and the jobs of a graph are finitely many, "gate" is no leg, a leg does not end before it starts, targets and parts are words.

**Induction.** The library's induction theorems take an operator and cannot be used with the provers
at hand. Where a proof is by induction over data (the reachable uses by depth, the cost of a
chain, a walk of any length) it takes the least number for which the claim fails
(`LeastNumber`) and finds a lesser one, and a recursive function is first shown to exist, level by level
(`ReachExists`, `SumsExist`). The modules declare no RECURSIVE operator.

Model-checked only: liveness (`EventsSettle`, `PollsRecur`, `SlotComesBack`), since fairness and
ENABLED are out of the prover's reach, and the four runs that end in a counterexample.


## What is not modelled

- `cost.py` (arithmetic on rate cards), `calibration.py` and `evalsweep.py` (statistics over floats):
  no state and no order of events.
- The detectors of failures, triggers, billing, the long tail and cache keys that never hit:
  statistics or patterns of one pass. The projections in `simulate.py` from samples.
- Reports, the rendering of diffs (`fixers/edit.py`), the corpus list, models, settings, argument
  handling.
- Migrations; of the database connection, only what transactions and the lack of a lock
  timeout mean for those who use it.
- `max_idle_iterations`, which only tests use; webhook requests that are refused before the
  database; HTTP paging behind a repo's first 100 runs.
- YAML: `JobNames` and `CacheRule` begin with what the parser yields.
- A database error in a claim or a settlement, which ends the process like `Crash`. `worker.py` does not count a crash as an attempt, so
  a job that kills its worker is tried for ever; the model does the same, and bounds crashes by
  `MaxFaults`.
- The contents of rows beyond what the properties tell apart.

Four hazards in `PROJECT.json` have no property, with the reason: `queue.py:51` (rows ahead in `ORDER BY run_at`, which
the fairness of `live` assumes away), `ingest.py:197` (the
columns that only a backfill brings), `audit.py:439` (a detector that raised, or audits without drafts, whose
effect on old findings no line of the code claims to be otherwise) and `serialization.py:158` (artifacts
that pass through an ancestor).
