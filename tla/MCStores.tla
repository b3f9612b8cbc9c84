------------------------------ MODULE MCStores -------------------------------
(***************************************************************************)
(* Five components that share no state, each on a small instance.  A       *)
(* behaviour is of the one that scene names, so that TLC does not          *)
(* interleave what cannot meet.                                            *)
(***************************************************************************)
EXTENDS LogStore, PreviewCache, CommitStore, ConfigStore, ActionLookup

CONSTANT Scenes

VARIABLE scene

MCContents == SUBSET Workflows
MCNames ==
  {Target, Temporary} \cup {Object(c) : c \in MCContents} \cup {Temp(f, c) : f \in Writers, c \in MCContents}
\* Two jobs with the same log, one whose log has expired.
MCRemote == [j \in LogJobs |-> IF j = 3 THEN Gone ELSE {}]

\* Four runs of three commits; the newest is lost.
MCHead == <<"c1", "c2", "c1", "c3">>
MCTree == [c \in {"c1", "c2", "c3"} |-> IF c = "c1" THEN "t1" ELSE "t2"]

\* a uses b, b uses c and d, c uses a, d and one that is not there: a diamond and a cycle.
MCNested ==
  [u \in {"a", "b", "c"} |-> CASE u = "a" -> <<"checkout", "b">>
                               [] u = "b" -> <<"c", "d">>
                               [] u = "c" -> <<"a", "d", "gone">>]
MCRoots == <<"a", "docker", "c">>

stores == <<logVars, previewVars, commitVars, configVars, lookupVars, scene>>

Init ==
  /\ scene \in Scenes
  /\ LogInit /\ PreviewInit /\ CommitInit /\ ConfigInit /\ LookupInit
  /\ scene # "config" => \A p \in Paths : file[p] = Absent

LogStep     == scene = "logs" /\ LogNext
               /\ UNCHANGED <<step, scope, source, overlap, last, failures, commitVars, configVars, lookupVars, scene>>
PreviewStep == scene = "previews" /\ PreviewNext
               /\ UNCHANGED <<queued, chunk, fetchers, logHistory, commitVars, configVars, lookupVars, scene>>
CommitStep  == scene = "commits" /\ CommitNext /\ UNCHANGED <<logVars, step, scope, source, overlap, last, failures, configVars, lookupVars, scene>>
ConfigStep  == scene = "config" /\ ConfigNext /\ UNCHANGED <<logVars, step, scope, source, overlap, last, failures, commitVars, lookupVars, scene>>
LookupStep  == scene = "lookup" /\ LookupNext /\ UNCHANGED <<logVars, step, scope, source, overlap, last, failures, commitVars, configVars, scene>>

Next == LogStep \/ PreviewStep \/ CommitStep \/ ConfigStep \/ LookupStep

Spec == Init /\ [][Next]_stores

\* The types of all five.
TypeOK ==
  /\ scene = "logs" => LogTypeOK
  /\ scene = "previews" => PreviewTypeOK
  /\ CommitTypeOK /\ ConfigTypeOK /\ LookupTypeOK
=============================================================================
