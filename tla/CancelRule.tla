------------------------------ MODULE CancelRule ------------------------------
(***************************************************************************)
(* Superseded runs: what the detector says a workflow wastes without       *)
(* cancel-in-progress, against what cancelling would have saved, and the   *)
(* fixer that inserts the block into the file's text.                      *)
(*                                                                         *)
(* Runs of one workflow are numbered as they are created.  They wait for a *)
(* runner, run, and may be run again in part: the jobs that succeeded keep *)
(* their times.  The audit knows a run by its finished jobs alone, over or *)
(* not: it seems to last from the first start of them to their last end.   *)
(* A file is its lines and how each of them ends.                          *)
(***************************************************************************)
EXTENDS Naturals, Sequences, FiniteSets, SequencesExt, FiniteSetsExt, Functions

CONSTANTS
  Refs,          \* branches
  MaxRuns,       \* bound on the runs
  MaxTime,       \* bound on the clock
  MaxReruns,     \* bound on the runs that are run again
  MaxShown,      \* bound on the runs under way of which a job is finished
  MAX_PLAUSIBLE, \* MAX_PLAUSIBLE_RUN_SECONDS
  Layouts,       \* workflow texts: sequences of line kinds
  Ends           \* line endings: "lf", "crlf" or both

\* The kinds of lines: below, with the fixer.
LineKinds == {"key", "on", "jobs", "concurrency", "child", "deploy", "comment"}

ASSUME CancelAssumption ==
  /\ MaxRuns \in Nat /\ MaxTime \in Nat /\ MaxReruns \in Nat /\ MaxShown \in Nat /\ MAX_PLAUSIBLE \in Nat
  /\ \A layout \in Layouts : layout \in Seq(LineKinds)

VARIABLES
  history,   \* the runs: ref, state, start, end, again (a re-run began); and of the jobs that are
             \* finished: shown (there is one), from (the first start), to (the last end)
  now,       \* the clock
  burnt,     \* per run: the seconds cancelling would have saved
  text,      \* the workflow file: its lines, of kind and end
  mended     \* the text before the last fix that was merged, at most one

cancelVars == <<history, now, burnt, text, mended>>

RunIds == 1 .. Len(history)

CancelTypeOK ==
  /\ Len(history) <= MaxRuns /\ now \in 0 .. MaxTime
  /\ \A i \in RunIds : history[i].ref \in Refs /\ burnt[i] <= now
  /\ Cardinality(mended) <= 1

Texts == UNION {{[n \in DOMAIN f |-> [kind |-> f[n], end |-> e[n]]] : e \in [DOMAIN f -> Ends]} : f \in Layouts}

CancelInit ==
  /\ history = <<>> /\ now = 0 /\ burnt = <<>>
  /\ text \in Texts
  /\ mended = {}

-----------------------------------------------------------------------------
(* The detector. *)

\* A run whose span is no single execution is left out, and so is one without a finished job.
Usable == {i \in RunIds : history[i].shown /\ history[i].to - history[i].from <= MAX_PLAUSIBLE}

\* find_superseded_runs sorts by start; of two that start together the newer is listed first.
Follows(j, i) ==
  /\ history[j].ref = history[i].ref
  /\ history[j].from > history[i].from \/ (history[j].from = history[i].from /\ j < i)

\* Mutant of Successors: the runs of every ref.
SuccessorsAnyRef(i) == {j \in Usable : history[j].from > history[i].from}
Successors(i) == {j \in Usable : Follows(j, i)}

\* The overlap with the first run that starts later, if it starts before this one is over: as
\* far as the finished jobs of both show.
Wasted(i) ==
  IF Successors(i) = {} THEN 0
  ELSE LET next == Min({history[j].from : j \in Successors(i)})
       IN  IF next < history[i].to THEN history[i].to - next ELSE 0

-----------------------------------------------------------------------------
(* ConcurrencyFixer.  A line is "key" (another top-level key), "on", "jobs", "concurrency", an    *)
(* indented "child" of the key above it, a "deploy", which is a child too, or a "comment" at the  *)
(* margin.                                                                                        *)

Kinds(t) == [n \in DOMAIN t |-> t[n].kind]

\* The key each line belongs to: what a parser makes of the text.
Owner(t, n) ==
  LET keys == {m \in 1 .. n : t[m].kind \notin {"child", "deploy", "comment"}}
  IN  IF t[n].kind = "comment" \/ keys = {} THEN "none" ELSE t[Max(keys)].kind
Children(t, key) == Cardinality({n \in DOMAIN t : t[n].kind \in {"child", "deploy"} /\ Owner(t, n) = key})

\* _deploy_reason: a line by which the workflow releases, publishes, deploys, may write, or is
\* called by others.
DeployReason(t) == "deploy" \in ToSet(Kinds(t))

\* The line above `jobs:` and the comments directly on it.
InsertLine(t) ==
  LET jobs == Min({n \in DOMAIN t : t[n].kind = "jobs"})
  IN  Max({0} \cup {n \in 1 .. jobs - 1 : t[n].kind # "comment"})

\* Lines are counted by splitlines, but the text is cut at one newline, CRLF if there is any: in
\* a text with both, `at` of its pieces end elsewhere.
InsertPos(t, at) ==
  LET crlf == {n \in DOMAIN t : t[n].end = "crlf"}
  IN  CASE crlf = {} -> at
        [] crlf # {} /\ at <= Cardinality(crlf) ->
             Max({0} \cup {n \in crlf : Cardinality({m \in crlf : m <= n}) <= at})
        [] OTHER -> Len(t)

\* The block ends its lines as the text is cut.
Block(t) ==
  LET end == IF \E n \in DOMAIN t : t[n].end = "crlf" THEN "crlf" ELSE "lf"
  IN  [n \in 1 .. 3 |-> [kind |-> IF n = 1 THEN "concurrency" ELSE "child", end |-> end]]
WithBlock(t) ==
  LET p == InsertPos(t, InsertLine(t)) IN SubSeq(t, 1, p) \o Block(t) \o SubSeq(t, p + 1, Len(t))

\* Mutant of Verified: only the jobs.
VerifiedJobs(t, after) ==
  Children(after, "concurrency") >= 2 /\ Children(after, "jobs") = Children(t, "jobs")

\* _verify: jobs and triggers are what they were.  (That the detector is satisfied follows: the
\* block is whole.)
Verified(t, after) ==
  /\ Children(after, "concurrency") >= 2
  /\ \A key \in {"jobs", "on"} : Children(after, key) = Children(t, key)

CancelFixes(t) ==
  IF \/ "concurrency" \in ToSet(Kinds(t)) \/ DeployReason(t)
     \/ Cardinality({n \in DOMAIN t : t[n].kind = "jobs"}) # 1 THEN {}
  ELSE {a \in {WithBlock(t)} : Verified(t, a)}

-----------------------------------------------------------------------------
Keep == UNCHANGED <<text, mended>>

CreateRun(ref) ==
  /\ Len(history) < MaxRuns
  /\ history' = Append(history, [ref |-> ref, state |-> "queued", start |-> 0, end |-> 0, again |-> FALSE,
                                  shown |-> FALSE, from |-> 0, to |-> 0])
  /\ burnt' = Append(burnt, 0)
  /\ Keep /\ UNCHANGED now

StartRun(i) ==
  /\ history[i].state = "queued"
  /\ history' = [history EXCEPT ![i].state = "running", ![i].start = now]
  /\ Keep /\ UNCHANGED <<now, burnt>>

\* A job of run r that started at s ends now.
WithJob(r, s) ==
  [r EXCEPT !.shown = TRUE, !.to = now, !.from = IF r.shown /\ r.from < s THEN r.from ELSE s]

\* Those of a re-run start after the end of the run before.
JobStarts(r) == (IF r.again THEN r.end ELSE r.start) .. now

FinishJob(i) ==
  /\ history[i].state = "running"
  /\ Cardinality({j \in RunIds \ {i} : history[j].state = "running" /\ history[j].shown}) < MaxShown
  /\ \E s \in JobStarts(history[i]) : history' = [history EXCEPT ![i] = WithJob(@, s)]
  /\ Keep /\ UNCHANGED <<now, burnt>>

\* The last job ends, and the first of the run has ended.
FinishRun(i) ==
  /\ history[i].state = "running"
  /\ \E s \in JobStarts(history[i]) :
       /\ history[i].again \/ s = history[i].start
       /\ history' = [history EXCEPT ![i] = [WithJob(@, s) EXCEPT !.state = "done", !.end = now]]
  /\ Keep /\ UNCHANGED <<now, burnt>>

\* "Re-run failed jobs": the jobs that passed, if any did, are carried over with their times.
Rerun(i) ==
  /\ history[i].state = "done" /\ ~history[i].again
  /\ Cardinality({j \in RunIds : history[j].again}) < MaxReruns
  /\ \E carried \in BOOLEAN :
       LET r == [history[i] EXCEPT !.state = "running", !.again = TRUE]
       IN  history' = [history EXCEPT ![i] =
             IF carried THEN r ELSE [r EXCEPT !.shown = FALSE, !.from = 0, !.to = 0]]
  /\ Keep /\ UNCHANGED <<now, burnt>>

\* A second passes.  Cancelling saves it of a run that a newer one has overtaken; a re-run is
\* asked for on purpose.
Second ==
  /\ now < MaxTime
  /\ now' = now + 1
  /\ burnt' = [i \in RunIds |->
       IF /\ history[i].state = "running" /\ ~history[i].again
          /\ \E j \in RunIds : j > i /\ history[j].ref = history[i].ref /\ history[j].state # "queued"
       THEN burnt[i] + 1 ELSE burnt[i]]
  /\ Keep /\ UNCHANGED history

MergeBlock ==
  /\ text' \in CancelFixes(text)
  /\ mended' = {text}
  /\ UNCHANGED <<history, now, burnt>>

RewriteFile ==
  /\ mended # {} /\ mended' = {}
  /\ text' \in Texts
  /\ UNCHANGED <<history, now, burnt>>

RunNext ==
  \/ \E ref \in Refs : CreateRun(ref)
  \/ \E i \in RunIds : StartRun(i) \/ FinishJob(i) \/ FinishRun(i) \/ Rerun(i)
  \/ Second

TextNext == MergeBlock \/ RewriteFile

CancelSpec == CancelInit /\ [][RunNext \/ TextNext]_cancelVars

-----------------------------------------------------------------------------
(* Properties. *)

\* Runs of a ref start in the order they were created, no two in the same second.
StartedInOrder ==
  \A i, j \in RunIds :
    i < j /\ history[i].ref = history[j].ref /\ history[j].state # "queued" =>
      history[i].state # "queued" /\ history[i].start < history[j].start

\* The older runs of the ref that are counted show their first job.
OlderShown(i) ==
  \A j \in Usable : j < i /\ history[j].ref = history[i].ref => history[j].from = history[j].start

\* The waste the detector reports is what cancelling would have saved: no more of any run that is
\* not run again, and all of it once every run is over (find_superseded_runs: "the wasted span is
\* precisely the overlap"), as long as runs start in order.  And as long as older runs show their
\* first job: one whose later jobs are all that is finished or was run again passes for one that
\* starts with them, and so for one that superseded a newer run.
WasteIsSaved ==
  StartedInOrder =>
    /\ \A i \in Usable : ~history[i].again /\ OlderShown(i) => Wasted(i) <= burnt[i]
    /\ Usable = RunIds /\ (\A i \in RunIds : history[i].state = "done" /\ ~history[i].again) =>
         \A i \in RunIds : Wasted(i) = burnt[i]

\* A merged block cancels, is not proposed again, takes no line from the jobs and the triggers,
\* went to no deployment, and stands right above `jobs:` and its comments unless the file mixes
\* its line endings.
CancelFixSticks ==
  \A before \in mended :
    /\ CancelFixes(text) = {} /\ ~DeployReason(text)
    /\ \A key \in {"on", "jobs"} : Children(text, key) = Children(before, key)
    /\ (\E e \in Ends : \A n \in DOMAIN before : before[n].end = e) =>
         LET at == Min({n \in DOMAIN text : text[n].kind = "concurrency"})
         IN  \E n \in at .. Len(text) :
               /\ text[n].kind = "jobs"
               /\ \A m \in at + 3 .. n - 1 : text[m].kind = "comment"
==============================================================================
