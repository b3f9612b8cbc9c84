----------------------------- MODULE HistoryRules -----------------------------
(***************************************************************************)
(* The rule that reads who failed with whom: matrix legs that never failed *)
(* alone.  Runs, and second attempts of them, happen at GitHub; records of *)
(* them and of their jobs arrive late, in any order and more than once;    *)
(* the rule sees the tables.  A workflow may have a gate, a job that needs *)
(* all legs and fails when one of them does.                               *)
(***************************************************************************)
EXTENDS Naturals, Sequences, FiniteSets, SequencesExt, FiniteSetsExt

CONSTANTS
  Flows,         \* the workflows
  Gated,         \* those with a gate
  Legs,          \* the legs of the matrix each has
  MinRuns,       \* MIN_RUNS
  MinFailures,   \* MIN_WORKFLOW_FAILURES
  MaxLedger      \* bound on the runs, all of them within the window of an audit

ASSUME HistoryAssumption ==
  /\ Gated \subseteq Flows /\ "gate" \notin Legs
  /\ MinRuns \in Nat /\ MinFailures \in Nat /\ MaxLedger \in Nat

VARIABLES
  ledger,   \* what happened: the workflow of each run, and the legs that failed in each attempt
  rows      \* what is stored of each: run_attempt, whether workflow_path is, the attempts whose jobs are,
            \* and (history) those whose run was

historyVars == <<ledger, rows>>

HistoryTypeOK ==
  /\ Len(ledger) <= MaxLedger /\ DOMAIN rows = DOMAIN ledger
  /\ \A n \in DOMAIN ledger :
       /\ ledger[n].flow \in Flows /\ ledger[n].failed \in Seq(SUBSET Legs)
       /\ rows[n].attempt \in 0 .. Len(ledger[n].failed) /\ rows[n].path \in BOOLEAN
       /\ rows[n].jobs \cup rows[n].told \subseteq DOMAIN ledger[n].failed

HistoryInit == ledger = <<>> /\ rows = <<>>

-----------------------------------------------------------------------------
\* The jobs that failed in an attempt.
Failed(n, a) ==
  LET legs == ledger[n].failed[a]
  IN  legs \cup (IF ledger[n].flow \in Gated /\ legs # {} THEN {"gate"} ELSE {})

\* Mutant of Seen: the jobs of every attempt.
SeenOfAll(n) == UNION {Failed(n, a) : a \in rows[n].jobs}

\* What build_context takes for the failed jobs of a run: those of its latest attempt.
Seen(n) == UNION {Failed(n, a) : a \in rows[n].jobs \cap {rows[n].attempt}}

\* The runs of a workflow the rule sees.
OwnRuns(w) == {n \in DOMAIN rows : ledger[n].flow = w /\ rows[n].path /\ rows[n].attempt \in rows[n].jobs}

\* NonDiscriminatingMatrixLegDetector: enough runs and failing runs, and never the only failure.
LegsReported(w) ==
  {leg \in Legs :
     /\ Cardinality(OwnRuns(w)) >= MinRuns
     /\ Cardinality({n \in OwnRuns(w) : Seen(n) # {}}) >= MinFailures
     /\ \A n \in OwnRuns(w) : Seen(n) # {leg}}

-----------------------------------------------------------------------------
\* A run that is over, at GitHub.
RunEnds(w, failed) ==
  /\ Len(ledger) < MaxLedger
  /\ ledger' = Append(ledger, [flow |-> w, failed |-> <<failed>>])
  /\ rows' = Append(rows, [attempt |-> 0, path |-> FALSE, jobs |-> {}, told |-> {}])

\* "Re-run failed jobs": the others are carried over into the second attempt.
RunsAgain(n, failed) ==
  /\ Len(ledger[n].failed) = 1 /\ failed \subseteq ledger[n].failed[1] /\ ledger[n].failed[1] # {}
  /\ ledger' = [ledger EXCEPT ![n].failed = Append(@, failed)]
  /\ UNCHANGED rows

\* upsert_run, by a poll or an event: the attempt never goes back, and a stub keeps its path.
StoreRun(n, a) ==
  /\ a \in DOMAIN ledger[n].failed
  /\ rows' = [rows EXCEPT ![n].attempt = Max({@, a}), ![n].path = @ \/ rows[n].attempt = 0,
                          ![n].told = @ \cup {a}]
  /\ UNCHANGED ledger

\* The jobs of an attempt, after ensure_run_stub.
StoreJobs(n, a) ==
  /\ a \in DOMAIN ledger[n].failed
  /\ rows' = [rows EXCEPT ![n].attempt = IF @ = 0 THEN a ELSE @, ![n].jobs = @ \cup {a}]
  /\ UNCHANGED ledger

HistoryNext ==
  \/ \E w \in Flows, failed \in SUBSET Legs : RunEnds(w, failed)
  \/ \E n \in DOMAIN ledger :
       \/ \E failed \in SUBSET Legs : RunsAgain(n, failed)
       \/ \E a \in DOMAIN ledger[n].failed : StoreRun(n, a) \/ StoreJobs(n, a)

HistorySpec == HistoryInit /\ [][HistoryNext]_historyVars

-----------------------------------------------------------------------------
(* Properties. *)

\* The last attempt of a run is stored.
Recorded(n) == LET a == Len(ledger[n].failed) IN a \in rows[n].told /\ a \in rows[n].jobs

\* A leg the rule would remove was never the only failure of a run as it ended, however late,
\* repeated and out of order its attempts were recorded (the comment in build_context that a run
\* must describe one execution).
NeverAlone ==
  \A w \in Flows : \A leg \in LegsReported(w) : \A n \in OwnRuns(w) :
    Recorded(n) => Failed(n, Len(ledger[n].failed)) # {leg}

\* When a leg the rule would remove failed, another leg failed with it: the docstring of
\* matrix.py, "the others would have caught it too".
OthersCaughtIt ==
  \A w \in Flows : \A leg \in LegsReported(w) : \A n \in OwnRuns(w) :
    leg \in Seen(n) => \E other \in Legs \ {leg} : other \in Seen(n)
=============================================================================
