------------------------------- MODULE MCRules -------------------------------
(***************************************************************************)
(* The rules that judge a workflow, each on a small instance.  They share  *)
(* no state: a behaviour is of the one that scene names.                   *)
(***************************************************************************)
EXTENDS JobNames, CacheRule, CancelRule, CriticalPath, IgnoreRules, HistoryRules, TLC

CONSTANTS
  Scenes,
  main, dev    \* the refs

VARIABLE scene

MCRefs == {main, dev}
RefSymmetry == Permutations(MCRefs)

\* Two jobs that differ in what their parentheses say, one with a matrix, one whose name is an
\* expression, one that shows its matrix, and two callers, one with a name.
MCJob(key, name, matrix, calls) == [key |-> key, name |-> name, matrix |-> matrix, calls |-> calls]
MCConfigJobs ==
  {MCJob("a", <<>>, FALSE, FALSE), MCJob("a", <<"A", "(v)">>, FALSE, FALSE),
   MCJob("b", <<"A", "(w)">>, FALSE, FALSE), MCJob("b", <<>>, TRUE, FALSE),
   MCJob("c", <<"expr">>, FALSE, FALSE), MCJob("c", <<"A">>, FALSE, FALSE),
   MCJob("d", <<"A", "(expr)">>, TRUE, FALSE), MCJob("e", <<>>, FALSE, TRUE),
   MCJob("f", <<"A">>, FALSE, TRUE)}

MCStep(uses, major, input) == [uses |-> uses, major |-> major, input |-> input]
MCJobSteps ==
  {MCStep("checkout", 4, "absent"), MCStep("checkout", 4, "other"), MCStep("node", 4, "absent"),
   MCStep("node", 5, "absent"), MCStep("python", 5, "absent"), MCStep("go", 0, "absent"),
   MCStep("uv", 5, "absent"), MCStep("cache", 4, "absent"), MCStep("npm", 0, "absent"),
   MCStep("pip", 0, "absent"), MCStep("wrap", 1, "absent")}
\* A composite that checks out, sets node up and runs another composite.
MCManifest ==
  [u \in {"wrap", "deep", "node", "python"} |->
     CASE u = "wrap" -> <<MCStep("checkout", 4, "absent"), MCStep("node", 5, "absent"), MCStep("deep", 1, "absent")>>
       [] u = "deep" -> <<MCStep("ruby", 1, "absent")>>
       [] OTHER      -> <<>>]

MCLayouts ==
  {<<"key", "on", "child", "jobs", "child", "child">>, <<"on", "child", "comment", "jobs", "child">>,
   <<"jobs", "child", "comment", "on", "child">>, <<"key", "jobs", "child", "on", "child">>,
   <<"on", "child", "comment", "concurrency", "child", "jobs", "child">>,
   <<"on", "deploy", "comment", "jobs", "child">>}

\* Every graph in which later jobs need earlier ones, and those with one edge back.
MCGraphs == SUBSET ({e \in Nodes \X Nodes : e[1] > e[2]} \cup {<<1, 4>>})
MCLeg(c, s, e) == [created |-> c, started |-> s, completed |-> e]
\* A job that was not observed, one leg, and two of which one was carried over from an earlier
\* attempt.
MCLegSets == {<<>>, <<MCLeg(0, 1, 3)>>, <<MCLeg(0, 3, 4), MCLeg(5, 0, 1)>>}
\* The last job downloads what two of the others upload: some of its edges are true, and some false.
MCArtifacts == {[uploads |-> {1, 2}, downloads |-> {4}]}

MCKey(kind, parts) == [kind |-> kind, parts |-> parts]
MCKeys ==
  {MCKey("no_dependency_cache", <<"no_dependency_cache", "ci", "lint">>),
   MCKey("no_dependency_cache", <<"no_dependency_cache", "ci", "test">>),
   MCKey("false_needs_edge", <<"false_needs_edge", "ci", "test", "lint">>),
   MCKey("false_needs_edge", <<"false_needs_edge", "ci", "lint", "setup">>),
   MCKey("non_discriminating_matrix_leg", <<"non_discriminating_leg", "ci", "lint">>)}
MCTargets ==
  <<<<"no_dependency_cache", "ci">>, <<"false_needs_edge", "ci", "lint">>,
    <<"no_dependency_cache", "ci", "test">>, <<"non_discriminating_matrix_leg">>>>

rules == <<nameVars, cacheVars, cancelVars, pathVars, ignoreVars, historyVars, scene>>

Init ==
  /\ scene \in Scenes
  /\ NamesInit /\ IgnoreInit /\ HistoryInit
  /\ CacheInit  /\ (scene # "cache" => rootIsNpm /\ ~job.guarded)
  /\ CancelInit /\ (scene # "text" => text = CHOOSE t \in Texts : TRUE)
  /\ PathInit   /\ (scene # "path" => needs = {} /\ legs = [n \in Nodes |-> <<>>] /\ flow = CHOOSE f \in Artifacts : TRUE)

NamesStep   == scene = "names" /\ NamesNext
               /\ UNCHANGED <<cacheVars, cancelVars, pathVars, ignoreVars, historyVars, scene>>
CacheStep   == scene = "cache" /\ CacheNext
               /\ UNCHANGED <<nameVars, cancelVars, pathVars, ignoreVars, historyVars, scene>>
RunStep     == scene = "runs" /\ RunNext
               /\ UNCHANGED <<nameVars, cacheVars, pathVars, ignoreVars, historyVars, scene>>
TextStep    == scene = "text" /\ TextNext
               /\ UNCHANGED <<nameVars, cacheVars, pathVars, ignoreVars, historyVars, scene>>
PathStep    == scene = "path" /\ PathNext
               /\ UNCHANGED <<nameVars, cacheVars, cancelVars, ignoreVars, historyVars, scene>>
IgnoreStep  == scene = "ignore" /\ IgnoreNext
               /\ UNCHANGED <<nameVars, cacheVars, cancelVars, pathVars, historyVars, scene>>
HistoryStep == scene = "history" /\ HistoryNext
               /\ UNCHANGED <<nameVars, cacheVars, cancelVars, pathVars, ignoreVars, scene>>

Next == NamesStep \/ CacheStep \/ RunStep \/ TextStep \/ PathStep \/ IgnoreStep \/ HistoryStep

Spec == Init /\ [][Next]_rules

\* The types of all.
TypeOK ==
  /\ NamesTypeOK /\ CacheTypeOK /\ CancelTypeOK /\ PathTypeOK /\ IgnoreTypeOK /\ HistoryTypeOK

\* What either fixer did, once merged, is the last word on its job or its file (a fix proposed again
\* after it merged is "the exact behaviour the anti-spam rules exist to prevent":
\* fixers/concurrency.py).
FixesStick == CacheFixSticks /\ CancelFixSticks
=============================================================================
