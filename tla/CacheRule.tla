------------------------------ MODULE CacheRule ------------------------------
(***************************************************************************)
(* Is a job's install cached?  Detector and fixer ask cache_state, with    *)
(* what the audit has read of other repositories' actions and of the root  *)
(* package.json: nothing, some or all of it.  A maintainer edits the job,  *)
(* previews a fix and merges it; a diff applies to the file it was made    *)
(* for only, so an edit undoes the offer.                                  *)
(*                                                                         *)
(* A step is what the rule tells apart: what it uses, the major version of *)
(* that, 0 if the ref does not tell, and its cache input:                  *)
(*   "true"   on, "false" off (setup-node: package-manager-cache),         *)
(*   "auto"   (setup-uv), "absent", and "other", an expression; for a      *)
(*            checkout "other" is another path or repository.              *)
(***************************************************************************)
EXTENDS Naturals, Sequences, FiniteSets, SequencesExt, FiniteSetsExt

CONSTANTS
  JobSteps,    \* the steps a job may have
  manifest,    \* [actions that can be read -> the steps of a composite]
  Runners,     \* where a job may run: of "hosted", "self-hosted", "custom"
  MaxSteps     \* bound on the steps of a job

Caches   == {"cache", "rust-cache"}                 \* actions/cache and _CACHE_EQUIVALENT
Setups   == {"node", "python", "go", "ruby", "uv"}
Commands == {"run", "npm", "pip"}                   \* "npm" and "pip" are isolated installs
Actions  == DOMAIN manifest

ASSUME CacheAssumption ==
  /\ JobSteps \subseteq [uses : STRING, major : Nat, input : {"true", "false", "auto", "absent", "other"}]
  /\ MaxSteps \in Nat

VARIABLES
  job,        \* the steps of the job, where it runs, and whether it is guarded: it deploys or the like
  rootIsNpm,  \* whether the root package.json names npm
  proposal,   \* the diffs on offer: the job before and after, at most one
  merged      \* the diffs merged since the last edit, at most one

cacheVars == <<job, rootIsNpm, proposal, merged>>

CacheTypeOK ==
  /\ job.runner \in Runners /\ Len(job.steps) <= MaxSteps
  /\ Cardinality(proposal) <= 1 /\ Cardinality(merged) <= 1
  /\ \A d \in proposal \cup merged : Len(d.before.steps) = Len(d.after.steps)

CacheInit ==
  /\ job \in [steps : {<<>>}, runner : Runners, guarded : BOOLEAN]
  /\ rootIsNpm \in BOOLEAN
  /\ proposal = {} /\ merged = {}

-----------------------------------------------------------------------------
(* cache_state. *)

NoStep == [uses |-> "none", major |-> 0, input |-> "absent"]

\* What an audit may have read: some actions, perhaps the package.json.
Knowledge == [actions : SUBSET Actions, package : {"unread", IF rootIsNpm THEN "npm" ELSE "other"}]
EverythingRead == [actions |-> Actions, package |-> IF rootIsNpm THEN "npm" ELSE "other"]

BooleanState(s, default) ==
  CASE s.input = "absent" -> default
    [] s.input = "true"   -> "cached"
    [] s.input = "false"  -> "disabled"
    [] OTHER              -> "unknown"

GoState(s) ==
  IF s.major \in 1 .. 2 THEN "uncached"
  ELSE BooleanState(s, CASE s.major = 0 -> "unknown" [] s.major >= 4 -> "cached" [] OTHER -> "uncached")

\* `auto`, the default from v5 on, caches on GitHub's own runners.
UvState(s, runner) ==
  CASE s.input \notin {"absent", "auto"}                  -> BooleanState(s, "unknown")
    [] s.input = "absent" /\ s.major \in 1 .. 4           -> "uncached"
    [] \/ s.input = "auto" /\ s.major < 5
       \/ s.input = "absent" /\ s.major = 0               -> "unknown"
    [] s.input \in {"absent", "auto"} /\ s.major >= 5 ->
         CASE runner = "self-hosted" -> "uncached" [] runner = "hosted" -> "cached" [] OTHER -> "unknown"

\* setup-node caches unasked from v5 on, if the package.json it finds names npm; what cannot be
\* known counts as a cache.
NodeState(s, checkout, k) ==
  CASE s.input \in {"true", "other"} -> "cached"
    [] s.input = "false"             -> "disabled"
    [] s.input \in {"absent", "auto"} ->
         IF /\ s.major \notin 1 .. 4 /\ checkout.uses # "none"
            /\ checkout.input = "other" \/ k.package # "other"
         THEN "cached" ELSE "uncached"

\* One step of _steps_state; inner is the state of the steps of an action that is looked up.
StepState(s, checkout, k, runner, inner) ==
  CASE s.uses \in Caches -> "cached"
    [] s.uses = "ruby"   -> BooleanState(s, "uncached")
    [] s.uses = "go"     -> GoState(s)
    [] s.uses = "uv"     -> UvState(s, runner)
    [] s.uses = "python" -> IF s.input \in {"absent", "false"} THEN "uncached" ELSE "cached"
    [] s.uses = "node"   -> NodeState(s, checkout, k)
    [] s.uses \in Commands \cup {"checkout"} -> "uncached"
    [] OTHER             -> inner

\* Mutant of Combined: what could not be read counts for nothing.
CombinedUnread(states) ==
  CASE "cached" \in states -> "cached" [] "disabled" \in states -> "disabled" [] OTHER -> "uncached"

\* One cache is enough; else what was switched off on purpose comes before what could not be read.
Combined(states) ==
  CASE "cached" \in states   -> "cached"
    [] "cached" \notin states /\ "disabled" \in states -> "disabled"
    [] states \cap {"cached", "disabled"} = {} /\ "unknown" \in states -> "unknown"
    [] OTHER -> "uncached"

CheckoutBefore(steps, n, outer) ==
  LET earlier == {m \in 1 .. n - 1 : steps[m].uses = "checkout"}
  IN  IF earlier = {} THEN outer ELSE steps[Max(earlier)]

\* _steps_state at depth 2, 1 and 0: nothing is read through a third level.
State2(steps, checkout, k, r) ==
  Combined({StepState(steps[n], CheckoutBefore(steps, n, checkout), k, r, "unknown") : n \in DOMAIN steps})
State1(steps, checkout, k, r) ==
  Combined({LET s == steps[n]  c == CheckoutBefore(steps, n, checkout)
            IN  StepState(s, c, k, r, IF s.uses \in k.actions THEN State2(manifest[s.uses], c, k, r) ELSE "unknown") :
              n \in DOMAIN steps})
State0(steps, checkout, k, r) ==
  Combined({LET s == steps[n]  c == CheckoutBefore(steps, n, checkout)
            IN  StepState(s, c, k, r, IF s.uses \in k.actions THEN State1(manifest[s.uses], c, k, r) ELSE "unknown") :
              n \in DOMAIN steps})

\* install_step: the first, 0 if there is none.
InstallStep(steps) ==
  LET installs == {n \in DOMAIN steps : steps[n].uses \in {"npm", "pip"}}
  IN  IF installs = {} THEN 0 ELSE Min(installs)

\* A cache after the install counts too, an action there that cannot be read does not.
CacheState(j, k) ==
  LET i      == InstallStep(j.steps)
      before == State0(SubSeq(j.steps, 1, i - 1), NoStep, k, j.runner)
      after  == State0(SubSeq(j.steps, i + 1, Len(j.steps)), CheckoutBefore(j.steps, i, NoStep), k, j.runner)
  IN  IF "cached" \in {before, after} THEN "cached" ELSE before

\* A job the rule reports, durations permitting.
Reported(j, k) == InstallStep(j.steps) # 0 /\ CacheState(j, k) = "uncached"

-----------------------------------------------------------------------------
(* CacheFixer. *)

\* _unsafe_context: a job that deploys, may write or sets a cache policy of its own, or a runner
\* that keeps what was downloaded.
UnsafeContext(j) == j.guarded \/ j.runner = "self-hosted"

\* _dependencies: the setup action of the install's ecosystem (or it declines, for lack of a lock
\* file or a plain command).
SetupFor(install) == IF install.uses = "npm" THEN "node" ELSE "python"

\* _checkout_context: one plain checkout before the setup step n, and nothing but setups beside it
\* before the install i.
CheckoutContext(steps, n, i) ==
  LET checkouts == {m \in 1 .. i - 1 : steps[m].uses = "checkout"}
  IN  /\ Cardinality(checkouts) = 1 /\ Max(checkouts) < n
      /\ \A m \in checkouts : steps[m].input = "absent"
      /\ \A m \in (1 .. i - 1) \ checkouts : steps[m].uses \in {"node", "python"}

\* The setup step the fix goes to: the only one of its kind, its action read, no input declared.
Fixable(j, k) ==
  LET i      == InstallStep(j.steps)
      action == SetupFor(j.steps[i])
      setups == {n \in 1 .. i - 1 : j.steps[n].uses = action}
  IN  {n \in setups :
         /\ ~UnsafeContext(j)
         /\ Cardinality(setups) = 1 /\ action \in k.actions /\ j.steps[n].input = "absent"
         /\ CheckoutContext(j.steps, n, i)}

\* Mutant of WithInput: a second setup step, beside the one that is there.
WithStep(j, n) == [j EXCEPT !.steps = InsertAt(@, n, [@[n] EXCEPT !.input = "true"])]
\* _insertion.
WithInput(j, n) == [j EXCEPT !.steps[n].input = "true"]

\* Mutant of Fixes: it does not ask whether the job is cached.
FixesAnyState(j, k) == IF InstallStep(j.steps) = 0 THEN {} ELSE {WithInput(j, n) : n \in Fixable(j, k)}

\* _verify: the detector's own predicate.
FixVerified(f, k) == CacheState(f, k) = "cached"

\* preview: the jobs it would make of j, none or one.
Fixes(j, k) ==
  IF ~Reported(j, k) THEN {}
  ELSE {f \in {WithInput(j, n) : n \in Fixable(j, k)} : FixVerified(f, k)}

-----------------------------------------------------------------------------
InsertStep(n, s) ==
  /\ Len(job.steps) < MaxSteps
  /\ n \in 1 .. Len(job.steps) + 1
  /\ job' = [job EXCEPT !.steps = InsertAt(@, n, s)]
  /\ proposal' = {} /\ merged' = {}
  /\ UNCHANGED rootIsNpm

DropStep(n) ==
  /\ n \in DOMAIN job.steps
  /\ job' = [job EXCEPT !.steps = RemoveAt(@, n)]
  /\ proposal' = {} /\ merged' = {}
  /\ UNCHANGED rootIsNpm

PreviewFix(k) ==
  /\ \E f \in Fixes(job, k) : proposal' = {[before |-> job, after |-> f]}
  /\ UNCHANGED <<job, rootIsNpm, merged>>

MergeFix ==
  /\ \E d \in proposal : job = d.before /\ job' = d.after
  /\ merged' = proposal /\ proposal' = {}
  /\ UNCHANGED rootIsNpm

CacheNext ==
  \/ \E n \in 1 .. MaxSteps :
       DropStep(n) \/ \E s \in JobSteps : InsertStep(n, s)
  \/ \E k \in Knowledge : PreviewFix(k)
  \/ MergeFix

CacheSpec == CacheInit /\ [][CacheNext]_cacheVars

-----------------------------------------------------------------------------
(* Properties. *)

\* Nothing in an action after the install has been left unread.
ReadAfterInstall(j, k) ==
  k.actions = Actions \/ \A n \in InstallStep(j.steps) + 1 .. Len(j.steps) : j.steps[n].uses \notin Actions \ Setups

\* A finding stands up to more reading: what is called cold with part of the actions read is not
\* found cached, or switched off on purpose, once all are (CAVEATS 64; the docstring of
\* cache_state excepts what comes after the install).
FindingsStandUp ==
  \A k \in Knowledge :
    Reported(job, k) /\ ReadAfterInstall(job, k) => CacheState(job, EverythingRead) = "uncached"

\* A merged fix is the last word on its job: it went to an unguarded job without a cache, and no
\* audit, whatever it has read, reports the job again before somebody edits it.
CacheFixSticks ==
  \A d \in merged : \A k \in Knowledge :
    /\ CacheState(job, k) = "cached" /\ ~job.guarded
    /\ CacheState(d.before, EverythingRead) # "cached" \/ ~ReadAfterInstall(d.before, [k EXCEPT !.actions = {}])
=============================================================================
