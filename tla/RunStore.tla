------------------------------- MODULE RunStore -------------------------------
(***************************************************************************)
(* The rows of the tables run, job and step, and the upserts of ingest.py  *)
(* as functions from the old row and a payload to the new row.             *)
(*                                                                         *)
(* A run has one job here, with one step that is listed before it starts,  *)
(* and both go through the same stages.  A payload is the stage at which   *)
(* GitHub took it: from it follows which of its columns are null.          *)
(***************************************************************************)
EXTENDS Naturals

CONSTANT NoRow

Queued     == 1
InProgress == 2
Completed  == 3
Stages     == {Queued, InProgress, Completed}

\* The columns that the properties tell apart.  Of a timestamp, whether it is there; of
\* workflow_path and event, which come and go together, one; of a status, its stage, 0 when null.
RunRows == [status : 0 .. Completed, started_at : BOOLEAN, workflow_path : BOOLEAN]
JobRows == [status : Stages, started_at : BOOLEAN, completed_at : BOOLEAN,
            step : {"unlisted", "waiting", "started"}]

ASSUME RowAssumption == NoRow \notin RunRows \cup JobRows

\* _to_run and _to_job, what a payload taken at stage s says.
ToRun(s) == [status |-> s, started_at |-> s >= InProgress, workflow_path |-> TRUE]
ToJob(s) ==
  [status |-> s, started_at |-> s >= InProgress, completed_at |-> s = Completed,
   step |-> CASE s = Queued -> "unlisted" [] s = InProgress -> "waiting" [] OTHER -> "started"]

\* _to_stub_run: of the run, a job's payload knows neither status nor path.
ToStubRun(s) == [status |-> 0, started_at |-> s >= InProgress, workflow_path |-> FALSE]

\* Mutant of UpsertRun: a start that is already known can be lost again.
UpsertRunBlindly(row, s) ==
  IF row = NoRow
    THEN ToRun(s)
    ELSE [row EXCEPT !.status = s, !.started_at = ToRun(s).started_at]

\* upsert_run: ON CONFLICT, the status of the payload, and a start once known stays known.
UpsertRun(row, s) ==
  IF row = NoRow
    THEN ToRun(s)
    ELSE [row EXCEPT !.status = s, !.started_at = @ \/ ToRun(s).started_at]

\* Mutant of EnsureRunStub: the row is taken to be there.
EnsureNothing(row, s) == row

\* ensure_run_stub: ON CONFLICT DO NOTHING.
EnsureRunStub(row, s) == IF row = NoRow THEN ToStubRun(s) ELSE row

\* upsert_job and its steps: the step's conflict clause leaves started_at as it was inserted.
UpsertJob(row, s) ==
  IF row = NoRow
    THEN ToJob(s)
    ELSE [status |-> s,
          started_at |-> row.started_at \/ ToJob(s).started_at,
          completed_at |-> ToJob(s).completed_at,
          step |-> IF row.step = "unlisted" THEN ToJob(s).step ELSE row.step]
=============================================================================
