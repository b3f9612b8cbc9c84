------------------------------- MODULE JobNames -------------------------------
(***************************************************************************)
(* Which job of a workflow file an observed job is.  GitHub records a      *)
(* display name; job_for_runtime_name finds the config job behind it.  The *)
(* step series ask the run's own workflow (index_step_rows).               *)
(*                                                                         *)
(* A name is a sequence of words.  "(v)" and "(w)" stand for parentheses   *)
(* at its end, "expr" for an expression and "(expr)" for one in            *)
(* parentheses, "/" for what GitHub puts between a caller and a job it     *)
(* calls.                                                                  *)
(***************************************************************************)
EXTENDS Naturals, Sequences, FiniteSets, SequencesExt, FiniteSetsExt

CONSTANTS
  WorkflowFiles,        \* the workflow files, numbers: the order load_context has them in
  ConfigJobs,   \* the jobs a file may declare: records of key, name, matrix, calls
  MaxJobs       \* bound on the jobs of a file

ASSUME NamesAssumption ==
  /\ WorkflowFiles \subseteq Nat /\ MaxJobs \in Nat
  /\ \A j \in ConfigJobs : j.key \in STRING /\ j.name \in Seq(STRING) /\ j.matrix \in BOOLEAN /\ j.calls \in BOOLEAN

VARIABLES
  jobsOf,     \* the jobs of each file, in order
  observed,   \* at most one job of a run: its file, its key there, and the name recorded
  edited      \* history: the files changed since the run

nameVars == <<jobsOf, observed, edited>>

NamesTypeOK ==
  /\ jobsOf \in [WorkflowFiles -> Seq(ConfigJobs)]
  /\ \A f \in WorkflowFiles : Len(jobsOf[f]) <= MaxJobs
  /\ Cardinality(observed) <= 1 /\ \A o \in observed : o.file \in WorkflowFiles
  /\ edited \subseteq WorkflowFiles

NamesInit ==
  /\ jobsOf = [f \in WorkflowFiles |-> <<>>]
  /\ observed = {}
  /\ edited = {}

-----------------------------------------------------------------------------
(* The names of a config job. *)

\* What is left of a template without its expressions.
Static(name) ==
  LET kept[n \in 0 .. Len(name)] ==
        IF n = 0 THEN <<>>
        ELSE IF name[n] = "expr" THEN kept[n - 1]
        ELSE Append(kept[n - 1], IF name[n] = "(expr)" THEN "()" ELSE name[n])
  IN  kept[Len(name)]

DynamicName(j) == j.name # <<>> /\ Static(j.name) = <<>>

\* runtime_names: the key, also when a name hides it.
RuntimeNames(j) == {<<j.key>>} \cup ({Static(j.name)} \ {<<>>})

\* The mirror of name_base: parentheses at the end are dropped.
Stripped(name) ==
  IF Len(name) > 1 /\ Last(name) \in {"(v)", "(w)", "()"} THEN Front(name) ELSE name

StrippedNames(j) == {Stripped(n) : n \in RuntimeNames(j)}

\* The names GitHub may record for a job: the expressions have values, a matrix whose values the
\* name does not show is appended, a called workflow's job comes after its caller.
Display(j, v) ==
  IF j.name = <<>> THEN <<j.key>>
  ELSE [n \in DOMAIN j.name |-> CASE j.name[n] = "expr" -> v
                                  [] j.name[n] = "(expr)" -> "(v)"
                                  [] OTHER -> j.name[n]]
ShowsMatrix(j) == \E n \in DOMAIN j.name : j.name[n] \in {"expr", "(expr)"}
RecordedNames(j) ==
  {Display(j, v) \o (IF j.matrix /\ ~ShowsMatrix(j) THEN <<"(v)">> ELSE <<>>)
                 \o (IF j.calls THEN <<"/", "inner">> ELSE <<>>) : v \in {"v"}}

-----------------------------------------------------------------------------
(* job_for_runtime_name; jobs are the jobs of a file. *)

Exact(jobs, n) == {i \in DOMAIN jobs : n \in RuntimeNames(jobs[i])}
ByBase(jobs, n) == {i \in DOMAIN jobs : Stripped(n) \in StrippedNames(jobs[i])}
CallerOf(n) == SubSeq(n, 1, Min({k \in DOMAIN n : n[k] = "/"}) - 1)
Callers(jobs, n) ==
  {i \in DOMAIN jobs : (\E k \in DOMAIN n : n[k] = "/")
                         /\ CallerOf(n) \in RuntimeNames(jobs[i]) \cup StrippedNames(jobs[i])}
Dynamic(jobs) == {i \in DOMAIN jobs : DynamicName(jobs[i])}

\* Mutant of JobFor: parentheses are always a matrix suffix.
JobForBase(jobs, n) ==
  CASE ByBase(jobs, n) # {} -> Min(ByBase(jobs, n))
    [] OTHER -> IF Callers(jobs, n) # {} THEN Min(Callers(jobs, n)) ELSE 0

\* The exact name; the stripped one, if no two jobs share it; the caller; and by elimination the
\* only job whose name is nothing but an expression.  0 is None.
JobFor(jobs, n) ==
  CASE Exact(jobs, n) # {} -> Min(Exact(jobs, n))
    [] Exact(jobs, n) = {} /\ Cardinality(ByBase(jobs, n)) = 1 -> Min(ByBase(jobs, n))
    [] OTHER -> IF Callers(jobs, n) # {} THEN Min(Callers(jobs, n))
                ELSE IF Cardinality(Dynamic(jobs)) = 1 THEN Min(Dynamic(jobs)) ELSE 0

KeyFor(f, n) == IF JobFor(jobsOf[f], n) = 0 THEN "none" ELSE jobsOf[f][JobFor(jobsOf[f], n)].key

\* index_step_rows: the job of the row's own workflow.
StepKey(o) == KeyFor(o.file, o.name)

-----------------------------------------------------------------------------
\* A maintainer adds a job to a file, or takes one out.
DeclareJob(f, j) ==
  /\ Len(jobsOf[f]) < MaxJobs
  /\ \A n \in DOMAIN jobsOf[f] : jobsOf[f][n].key # j.key
  /\ jobsOf' = [jobsOf EXCEPT ![f] = Append(@, j)]
  /\ edited' = IF observed = {} THEN edited ELSE edited \cup {f}
  /\ UNCHANGED observed

RemoveJob(f, n) ==
  /\ n \in DOMAIN jobsOf[f]
  /\ jobsOf' = [jobsOf EXCEPT ![f] = RemoveAt(@, n)]
  /\ edited' = IF observed = {} THEN edited ELSE edited \cup {f}
  /\ UNCHANGED observed

\* A run of a workflow: one of its jobs is recorded.
ObserveJob(f, n) ==
  /\ observed = {}
  /\ n \in DOMAIN jobsOf[f]
  /\ \E name \in RecordedNames(jobsOf[f][n]) :
       observed' = {[file |-> f, key |-> jobsOf[f][n].key, name |-> name]}
  /\ UNCHANGED <<jobsOf, edited>>

NamesNext ==
  \E f \in WorkflowFiles :
    \/ \E j \in ConfigJobs : DeclareJob(f, j)
    \/ \E n \in 1 .. MaxJobs : RemoveJob(f, n) \/ ObserveJob(f, n)

NamesSpec == NamesInit /\ [][NamesNext]_nameVars

-----------------------------------------------------------------------------
(* Properties. *)

\* A name from which the record can be undone: no slash of its own, an expression is all of it
\* or its last word, a matrix that it does not show comes behind no parentheses, and a caller has
\* none.  Where this fails job_for_runtime_name does guess.
Readable(j) ==
  /\ "/" \notin ToSet(j.name) \cup {j.key}
  /\ ShowsMatrix(j) =>
       \/ DynamicName(j)
       \/ /\ Len(j.name) > 1 /\ Last(j.name) = "(expr)" /\ ~j.calls
          /\ \A n \in 1 .. Len(j.name) - 1 : j.name[n] \notin {"expr", "(expr)"}
  /\ j.matrix /\ ~ShowsMatrix(j) => Stripped(j.name) = j.name /\ ~j.calls

\* And no job may be recorded as another: not under its name, and a job that is no literal, or
\* a caller, not under what another's name becomes without its parentheses.
Distinct(jobs) ==
  /\ \A n \in DOMAIN jobs : Readable(jobs[n])
  /\ \A m, n \in DOMAIN jobs : m # n => \A r \in RecordedNames(jobs[m]) :
       /\ r \notin RuntimeNames(jobs[n]) \cup RecordedNames(jobs[n])
       /\ DynamicName(jobs[m]) \/ jobs[m].calls => Stripped(r) \notin StrippedNames(jobs[n])
       /\ jobs[m].calls => CallerOf(r) \notin RuntimeNames(jobs[n]) \cup StrippedNames(jobs[n])

\* Several jobs claim the stripped name.
Tied(jobs, n) == Exact(jobs, n) = {} /\ Cardinality(ByBase(jobs, n)) > 1

\* The durations of a step are those of the job they are filed under: with the file the run
\* had, and names that can be told apart, its own workflow's job or none at all (but for a tie
\* that elimination breaks), and its own for certain where no two stripped names meet (the
\* docstring of index_step_rows).
StepsOfOwnJob ==
  \A o \in observed :
    LET jobs == jobsOf[o.file]
    IN  o.file \notin edited /\ Distinct(jobs) =>
          /\ StepKey(o) \in {o.key, "none"} \/ (Tied(jobs, o.name) /\ Cardinality(Dynamic(jobs)) = 1)
          /\ (\A m, n \in DOMAIN jobs : m # n => StrippedNames(jobs[m]) \cap StrippedNames(jobs[n]) = {})
               => StepKey(o) = o.key \/ Cardinality(Dynamic(jobs)) > 1
=============================================================================
