------------------------------ MODULE LogStore -------------------------------
(***************************************************************************)
(* Job logs: the command `cadence logs` queues fetch_log rows, workers     *)
(* handle them with store_job_log, and LocalLogStore.put writes each       *)
(* content once, under its digest.  Each writer is one life of a worker    *)
(* process.  A handler that raises, or dies, leaves its row to be claimed  *)
(* again; the claims themselves are those of IngestQueue.                  *)
(***************************************************************************)
EXTENDS Files, FiniteSets

CONSTANTS
  LogJobs,
  Gone,          \* the log of a job that GitHub has none of, or has no more
  remote,        \* the log of each job at GitHub, or Gone
  NoChunk, NoLogJob,
  MaxAsks,       \* bound on the calls of `cadence logs`
  MaxLogFaults   \* bound on exceptions and crashes

\* Names: an object by its digest, a temporary by its writer alone (process id and uuid).
Object(c) == <<"object", c>>

\* Mutant of Temp: one temporary for each content.
SharedTemp(f, c) == <<"temp", c, CHOOSE g \in Writers : TRUE>>
Temp(f, c) == <<"temp", c, f>>

ASSUME LogAssumption ==
  /\ remote \in [LogJobs -> Contents \cup {Gone}]
  /\ Gone \notin Contents /\ NoChunk \notin Contents /\ NoLogJob \notin LogJobs
  /\ \A c \in Contents : Object(c) \in Names /\ \A f \in Writers : Temp(f, c) \in Names
  /\ IsFiniteSet(Writers) /\ MaxAsks \in Nat /\ MaxLogFaults \in Nat

VARIABLES
  queued,   \* how many rows ask for the log of a job
  chunk,    \* the table log_chunk: the content a job's row names
  at,       \* where each fetcher is in store_job_log
  job,      \* the job it is at
  fetched,  \* history: how often the log of a job was downloaded
  raced,    \* history: the jobs two fetchers were at together, or one failed at
  asks, faults

fetchers == <<at, job>>
logHistory == <<fetched, raced, asks, faults>>
logVars == <<fileVars, queued, chunk, fetchers, logHistory>>

\* The types, and a fetcher has a file open only while it writes it.
LogTypeOK ==
  /\ FilesTypeOK
  /\ queued \in [LogJobs -> 0 .. MaxAsks]
  /\ chunk \in [LogJobs -> Contents \cup {NoChunk}]
  /\ at \in [Writers -> {"idle", "fetching", "putting", "opened", "written", "inserting", "dead"}]
  /\ job \in [Writers -> LogJobs \cup {NoLogJob}]
  /\ fetched \in [LogJobs -> Nat]
  /\ raced \subseteq LogJobs
  /\ asks \in 0 .. MaxAsks /\ faults \in 0 .. MaxLogFaults
  /\ \A f \in Writers : (handle[f] # NoFile) <=> at[f] \in {"opened", "written"}

LogInit ==
  /\ FilesInit
  /\ queued = [j \in LogJobs |-> 0]
  /\ chunk = [j \in LogJobs |-> NoChunk]
  /\ at = [f \in Writers |-> "idle"]
  /\ job = [f \in Writers |-> NoLogJob]
  /\ fetched = [j \in LogJobs |-> 0]
  /\ raced = {} /\ asks = 0 /\ faults = 0

-----------------------------------------------------------------------------
\* cadence logs: a row for each of some jobs (the newest, the failed ones) without a chunk.
AskForLogs ==
  /\ asks < MaxAsks
  /\ asks' = asks + 1
  /\ \E js \in SUBSET {j \in LogJobs : chunk[j] = NoChunk} :
       queued' = [j \in LogJobs |-> IF j \in js THEN queued[j] + 1 ELSE queued[j]]
  /\ UNCHANGED <<fileVars, chunk, fetchers, fetched, raced, faults>>

Finish(f) ==
  /\ at' = [at EXCEPT ![f] = "idle"]
  /\ job' = [job EXCEPT ![f] = NoLogJob]

\* Mutants of BeginLog: the table is not asked first; the row stays claimable.
BeginUnasked(f, j) ==
  /\ at[f] = "idle" /\ queued[j] > 0
  /\ queued' = [queued EXCEPT ![j] = @ - 1]
  /\ raced' = IF \E g \in Writers : job[g] = j THEN raced \cup {j} ELSE raced
  /\ at' = [at EXCEPT ![f] = "fetching"] /\ job' = [job EXCEPT ![f] = j]
  /\ UNCHANGED <<fileVars, chunk, fetched, asks, faults>>

BeginKept(f, j) ==
  /\ at[f] = "idle" /\ queued[j] > 0
  /\ raced' = IF \E g \in Writers : job[g] = j THEN raced \cup {j} ELSE raced
  /\ IF chunk[j] # NoChunk
       THEN UNCHANGED fetchers
       ELSE at' = [at EXCEPT ![f] = "fetching"] /\ job' = [job EXCEPT ![f] = j]
  /\ UNCHANGED <<fileVars, queued, chunk, fetched, asks, faults>>

\* The row is claimed and log_chunk is asked: "cached", and the row is done, or the download.
BeginLog(f, j) ==
  /\ at[f] = "idle" /\ queued[j] > 0
  /\ queued' = [queued EXCEPT ![j] = @ - 1]
  /\ raced' = IF \E g \in Writers : job[g] = j THEN raced \cup {j} ELSE raced
  /\ IF chunk[j] # NoChunk
       THEN UNCHANGED fetchers
       ELSE at' = [at EXCEPT ![f] = "fetching"] /\ job' = [job EXCEPT ![f] = j]
  /\ UNCHANGED <<fileVars, chunk, fetched, asks, faults>>

\* fetch_logs returns None for 404 and 410: "expired", and nothing is recorded.
FetchExpired(f) ==
  /\ at[f] = "fetching" /\ remote[job[f]] = Gone
  /\ Finish(f)
  /\ UNCHANGED <<fileVars, queued, chunk, logHistory>>

FetchData(f) ==
  /\ at[f] = "fetching" /\ remote[job[f]] # Gone
  /\ fetched' = [fetched EXCEPT ![job[f]] = @ + 1]
  /\ at' = [at EXCEPT ![f] = "putting"]
  /\ UNCHANGED <<fileVars, queued, chunk, job, raced, asks, faults>>

\* put: an object that is there is not written again; else a temporary of this writer's own.
AlreadyStored(f) ==
  /\ at[f] = "putting" /\ Exists(Object(remote[job[f]]))
  /\ at' = [at EXCEPT ![f] = "inserting"]
  /\ UNCHANGED <<fileVars, queued, chunk, job, logHistory>>

OpenTemp(f) ==
  /\ at[f] = "putting" /\ ~Exists(Object(remote[job[f]]))
  /\ OpenFile(f, Temp(f, remote[job[f]]))
  /\ at' = [at EXCEPT ![f] = "opened"]
  /\ UNCHANGED <<queued, chunk, job, logHistory>>

WriteTemp(f) ==
  /\ at[f] = "opened"
  /\ WriteFile(f, remote[job[f]])
  /\ at' = [at EXCEPT ![f] = "written"]
  /\ UNCHANGED <<queued, chunk, job, logHistory>>

Publish(f) ==
  /\ at[f] = "written"
  /\ Rename(f, Temp(f, remote[job[f]]), Object(remote[job[f]]))
  /\ at' = [at EXCEPT ![f] = "inserting"]
  /\ UNCHANGED <<queued, chunk, job, logHistory>>

\* INSERT ... ON CONFLICT (job_id) DO NOTHING, and the commit of the handler.
InsertChunk(f) ==
  /\ at[f] = "inserting"
  /\ chunk' = [chunk EXCEPT ![job[f]] = IF @ = NoChunk THEN remote[job[f]] ELSE @]
  /\ Finish(f)
  /\ UNCHANGED <<fileVars, queued, logHistory>>

\* The row is failed, and pending again.
GiveBack(f) ==
  /\ at[f] \notin {"idle", "dead"} /\ faults < MaxLogFaults
  /\ faults' = faults + 1
  /\ queued' = [queued EXCEPT ![job[f]] = @ + 1]
  /\ raced' = raced \cup {job[f]}
  /\ Finish(f)
  /\ UNCHANGED <<chunk, fetched, asks>>

\* Anything that raises, in the download, the write, the rename or the insert: the finally
\* block of put unlinks what is left of the temporary.
Raises(f) ==
  /\ GiveBack(f)
  /\ IF at[f] \in {"opened", "written"}
       THEN Unlink(f, Temp(f, remote[job[f]])) ELSE UNCHANGED fileVars

\* The process dies, its temporary stays, and the lease on the row runs out.  What systemd
\* starts instead is another writer.
Dies(f) ==
  /\ at[f] \notin {"idle", "dead"} /\ faults < MaxLogFaults
  /\ faults' = faults + 1
  /\ queued' = [queued EXCEPT ![job[f]] = @ + 1]
  /\ raced' = raced \cup {job[f]}
  /\ at' = [at EXCEPT ![f] = "dead"] /\ job' = [job EXCEPT ![f] = NoLogJob]
  /\ Close(f)
  /\ UNCHANGED <<chunk, fetched, asks>>

LogNext ==
  \/ AskForLogs
  \/ \E f \in Writers :
       \/ \E j \in LogJobs : BeginLog(f, j)
       \/ FetchExpired(f) \/ FetchData(f)
       \/ AlreadyStored(f) \/ OpenTemp(f) \/ WriteTemp(f) \/ Publish(f)
       \/ InsertChunk(f)
       \/ Raises(f) \/ Dies(f)

LogSpec == LogInit /\ [][LogNext]_logVars

-----------------------------------------------------------------------------
(* Properties. *)

\* An object is whole from the moment its name exists, and is what its name says, whichever
\* writers of the same log race or die (the comment on tmp in put); and a row of log_chunk is
\* committed when its object is there, is the log of its job, and keeps it.
LogsReadable ==
  /\ \A c \in Contents : Exists(Object(c)) => Holds(Object(c), c)
  /\ \A j \in LogJobs : chunk[j] # NoChunk => chunk[j] = remote[j] /\ Exists(Object(chunk[j]))

\* However often it is asked for, a log is downloaded once, as long as no two fetchers are at
\* it together and none fails (the docstring of store_job_log promises it without these two).
FetchedOnce == \A j \in LogJobs \ raced : fetched[j] <= 1
=============================================================================
