------------------------------ MODULE RuleProofs ------------------------------
(***************************************************************************)
(* What the rules that judge a workflow promise, for any workflow, any     *)
(* jobs and any history of runs: what is reported stands up, what is fixed *)
(* stays fixed, what is called wasted would have been saved, what a        *)
(* maintainer declares is honoured, a leg that caught something alone is   *)
(* kept, and the durations of a step are those of its own job.             *)
(***************************************************************************)
EXTENDS MCRules, PathProofs

-----------------------------------------------------------------------------
(* CacheRule: what is called cold stays so. *)

\* Neither a cache nor anything that speaks against reporting.
Cold(state) == state \notin {"cached", "disabled", "unknown"}

LEMMA CombinedIs ==
  ASSUME NEW states
  PROVE  /\ Combined(states) = "cached" <=> "cached" \in states
         /\ Combined(states) = "uncached" <=> \A state \in states : Cold(state)
         /\ Combined(states) \in {"cached", "disabled", "unknown", "uncached"}
<1>1. "cached" \in states => Combined(states) = "cached"
  BY Zenon DEF Combined
<1>2. "cached" \notin states /\ "disabled" \in states => Combined(states) = "disabled"
  BY DEF Combined
<1>3. states \cap {"cached", "disabled"} = {} /\ "unknown" \in states => Combined(states) = "unknown"
  BY DEF Combined
<1>4. states \cap {"cached", "disabled", "unknown"} = {} => Combined(states) = "uncached"
  BY DEF Combined
<1> QED BY <1>1, <1>2, <1>3, <1>4 DEF Cold

\* One step, when more has been read: of the package.json, or of the action it uses.
LEMMA StepStands ==
  ASSUME NEW k \in Knowledge, NEW s, NEW checkout, NEW r, NEW a, NEW b
  PROVE  /\ (Cold(a) => Cold(b)) /\ Cold(StepState(s, checkout, k, r, a)) => Cold(StepState(s, checkout, EverythingRead, r, b))
         /\ (a # "cached" => b # "cached") /\ StepState(s, checkout, k, r, a) # "cached" => StepState(s, checkout, EverythingRead, r, b) # "cached"
<1>1. k.package = "other" => EverythingRead.package = "other"
  BY DEF Knowledge, EverythingRead
<1>2. NodeState(s, checkout, EverythingRead) = NodeState(s, checkout, k) \/ NodeState(s, checkout, k) = "cached"
  <2> DEFINE unread(q) == checkout.input = "other" \/ q.package # "other"
             able == s.major \notin 1 .. 4 /\ checkout.uses # "none"
  <2>1. ASSUME NEW q
        PROVE  NodeState(s, checkout, q) = CASE s.input \in {"true", "other"} -> "cached"
                                              [] s.input = "false" -> "disabled"
                                              [] s.input \in {"absent", "auto"} ->
                                                   IF able /\ unread(q) THEN "cached" ELSE "uncached"
    BY Zenon DEF NodeState
  <2>2. unread(EverythingRead) => unread(k)
    BY <1>1
  <2> HIDE DEF able, unread
  <2> QED BY <2>1, <2>2
<1>3. CASE s.uses \in Caches
  BY <1>3 DEF StepState, Cold, Caches
<1>4. CASE s.uses = "node"
  <2>1. s.uses \notin Caches
    BY <1>4 DEF Caches
  <2> QED BY <1>2, <1>4, <2>1 DEF StepState, Cold
<1>5. CASE s.uses \in {"ruby", "go", "uv", "python"} \cup Commands \cup {"checkout"}
  <2>1. s.uses \notin Caches /\ s.uses # "node"
    BY <1>5 DEF Caches, Commands
  <2>2. StepState(s, checkout, k, r, a) = StepState(s, checkout, EverythingRead, r, b)
    BY <1>5, <2>1 DEF StepState
  <2> QED BY <2>2
<1>6. CASE s.uses \notin Caches \cup Setups \cup Commands \cup {"checkout"}
  <2>1. StepState(s, checkout, k, r, a) = a /\ StepState(s, checkout, EverythingRead, r, b) = b
    BY <1>6 DEF StepState, Setups
  <2> QED BY <2>1
<1> QED BY <1>3, <1>4, <1>5, <1>6 DEF Setups

\* The steps of an action, at each depth.
LEMMA State2Stands ==
  ASSUME NEW k \in Knowledge, NEW steps, NEW c, NEW r
  PROVE  /\ Cold(State2(steps, c, k, r)) => Cold(State2(steps, c, EverythingRead, r))
         /\ State2(steps, c, k, r) # "cached" => State2(steps, c, EverythingRead, r) # "cached"
<1> DEFINE at(n, q) == StepState(steps[n], CheckoutBefore(steps, n, c), q, r, "unknown")
<1>1. ASSUME NEW n
      PROVE  /\ Cold(at(n, k)) => Cold(at(n, EverythingRead))
             /\ at(n, k) # "cached" => at(n, EverythingRead) # "cached"
  BY StepStands
<1>2. /\ State2(steps, c, k, r) = Combined({at(n, k) : n \in DOMAIN steps})
      /\ State2(steps, c, EverythingRead, r) = Combined({at(n, EverythingRead) : n \in DOMAIN steps})
  BY DEF State2
<1> HIDE DEF at
<1>3. State2(steps, c, k, r) # "cached" => State2(steps, c, EverythingRead, r) # "cached"
  BY <1>1, <1>2, CombinedIs
<1>4. Cold(State2(steps, c, k, r)) => Cold(State2(steps, c, EverythingRead, r))
  <2>1. Cold(State2(steps, c, k, r)) => State2(steps, c, k, r) = "uncached"
    BY <1>2, CombinedIs DEF Cold
  <2>2. State2(steps, c, k, r) = "uncached" => State2(steps, c, EverythingRead, r) = "uncached"
    BY <1>1, <1>2, CombinedIs
  <2> QED BY <2>1, <2>2 DEF Cold
<1> QED BY <1>3, <1>4

LEMMA State1Stands ==
  ASSUME NEW k \in Knowledge, NEW steps, NEW c, NEW r
  PROVE  /\ Cold(State1(steps, c, k, r)) => Cold(State1(steps, c, EverythingRead, r))
         /\ k.actions = Actions /\ State1(steps, c, k, r) # "cached" => State1(steps, c, EverythingRead, r) # "cached"
<1> DEFINE co(n) == CheckoutBefore(steps, n, c)
           in(n, q) == IF steps[n].uses \in q.actions THEN State2(manifest[steps[n].uses], co(n), q, r) ELSE "unknown"
           at(n, q) == StepState(steps[n], co(n), q, r, in(n, q))
<1>0. k.actions \subseteq Actions /\ EverythingRead.actions = Actions
  BY DEF Knowledge, EverythingRead
<1>1. ASSUME NEW n
      PROVE  /\ Cold(at(n, k)) => Cold(at(n, EverythingRead))
             /\ k.actions = Actions /\ at(n, k) # "cached" => at(n, EverythingRead) # "cached"
  <2> HIDE DEF co
  <2>1. Cold(in(n, k)) => Cold(in(n, EverythingRead))
    BY <1>0, State2Stands DEF Cold
  <2>2. k.actions = Actions /\ in(n, k) # "cached" => in(n, EverythingRead) # "cached"
    BY <1>0, State2Stands
  <2> HIDE DEF in
  <2> QED BY <2>1, <2>2, StepStands
<1>2. /\ State1(steps, c, k, r) = Combined({at(n, k) : n \in DOMAIN steps})
      /\ State1(steps, c, EverythingRead, r) = Combined({at(n, EverythingRead) : n \in DOMAIN steps})
  BY DEF State1
<1> HIDE DEF at
<1>3. k.actions = Actions /\ State1(steps, c, k, r) # "cached" => State1(steps, c, EverythingRead, r) # "cached"
  BY <1>1, <1>2, CombinedIs
<1>4. Cold(State1(steps, c, k, r)) => Cold(State1(steps, c, EverythingRead, r))
  <2>1. Cold(State1(steps, c, k, r)) => State1(steps, c, k, r) = "uncached"
    BY <1>2, CombinedIs DEF Cold
  <2>2. State1(steps, c, k, r) = "uncached" => State1(steps, c, EverythingRead, r) = "uncached"
    BY <1>1, <1>2, CombinedIs
  <2> QED BY <2>1, <2>2 DEF Cold
<1> QED BY <1>3, <1>4

\* A setup step is judged by itself, though its action be read.
LEMMA SetupStandsAlone ==
  ASSUME NEW s, s.uses \in Setups, NEW checkout, NEW q, NEW r, NEW a, NEW b
  PROVE  StepState(s, checkout, q, r, a) = StepState(s, checkout, q, r, b)
BY DEF StepState, Setups, Caches, Commands

LEMMA State0Stands ==
  ASSUME NEW k \in Knowledge, NEW steps, NEW c, NEW r
  PROVE  /\ Cold(State0(steps, c, k, r)) => Cold(State0(steps, c, EverythingRead, r))
         /\ /\ k.actions = Actions \/ \A n \in DOMAIN steps : steps[n].uses \notin Actions \ Setups
            /\ State0(steps, c, k, r) # "cached"
            => State0(steps, c, EverythingRead, r) # "cached"
<1> DEFINE co(n) == CheckoutBefore(steps, n, c)
           in(n, q) == IF steps[n].uses \in q.actions THEN State1(manifest[steps[n].uses], co(n), q, r) ELSE "unknown"
           at(n, q) == StepState(steps[n], co(n), q, r, in(n, q))
           read == k.actions = Actions \/ \A n \in DOMAIN steps : steps[n].uses \notin Actions \ Setups
<1>0. k.actions \subseteq Actions /\ EverythingRead.actions = Actions
  BY DEF Knowledge, EverythingRead
<1>1. ASSUME NEW n \in DOMAIN steps
      PROVE  /\ Cold(at(n, k)) => Cold(at(n, EverythingRead))
             /\ read /\ at(n, k) # "cached" => at(n, EverythingRead) # "cached"
  <2> HIDE DEF co
  <2>1. Cold(in(n, k)) => Cold(in(n, EverythingRead))
    BY <1>0, State1Stands DEF Cold
  <2>2. k.actions = Actions /\ in(n, k) # "cached" => in(n, EverythingRead) # "cached"
    BY <1>0, State1Stands
  <2>3. steps[n].uses \notin Actions /\ in(n, k) # "cached" => in(n, EverythingRead) # "cached"
    BY <1>0
  <2> HIDE DEF in
  <2>4. Cold(at(n, k)) => Cold(at(n, EverythingRead))
    BY <2>1, StepStands
  <2>5. CASE k.actions = Actions \/ steps[n].uses \notin Actions
    BY <2>2, <2>3, <2>4, <2>5, StepStands
  <2>6. CASE steps[n].uses \in Setups
    <3>1. at(n, EverythingRead) = StepState(steps[n], co(n), EverythingRead, r, in(n, k))
      BY <2>6, SetupStandsAlone
    <3> QED BY <2>4, <3>1, StepStands
  <2> QED BY <2>4, <2>5, <2>6
<1>2. /\ State0(steps, c, k, r) = Combined({at(n, k) : n \in DOMAIN steps})
      /\ State0(steps, c, EverythingRead, r) = Combined({at(n, EverythingRead) : n \in DOMAIN steps})
  BY DEF State0
<1> HIDE DEF at
<1>3. read /\ State0(steps, c, k, r) # "cached" => State0(steps, c, EverythingRead, r) # "cached"
  BY <1>1, <1>2, CombinedIs
<1>4. Cold(State0(steps, c, k, r)) => Cold(State0(steps, c, EverythingRead, r))
  <2>1. Cold(State0(steps, c, k, r)) => State0(steps, c, k, r) = "uncached"
    BY <1>2, CombinedIs DEF Cold
  <2>2. State0(steps, c, k, r) = "uncached" => State0(steps, c, EverythingRead, r) = "uncached"
    BY <1>1, <1>2, CombinedIs
  <2> QED BY <2>1, <2>2 DEF Cold
<1> QED BY <1>3, <1>4

-----------------------------------------------------------------------------
\* What a job is made of.
Step == [uses : STRING, major : Nat, input : {"true", "false", "auto", "absent", "other"}]
Job == [steps : Seq(Step), runner : Runners, guarded : BOOLEAN]

LEMMA InstallIs ==
  ASSUME NEW j \in Job
  PROVE  /\ InstallStep(j.steps) \in 0 .. Len(j.steps)
         /\ InstallStep(j.steps) # 0 => j.steps[InstallStep(j.steps)].uses \in {"npm", "pip"}
<1> DEFINE installs == {n \in DOMAIN j.steps : j.steps[n].uses \in {"npm", "pip"}}
<1>1. j.steps \in Seq(Step) /\ Len(j.steps) \in Nat /\ DOMAIN j.steps = 1 .. Len(j.steps)
  BY DEF Job
<1>2. CASE installs = {}
  BY <1>1, <1>2 DEF InstallStep
<1>3. CASE installs # {}
  <2>1. installs \subseteq 1 .. Len(j.steps)
    BY <1>1
  <2>2. IsFiniteSet(1 .. Len(j.steps))
    BY <1>1, CountTo
  <2>3. Min(installs) \in installs
    <3> HIDE DEF installs
    <3>1. IsFiniteSet(installs) /\ installs \in SUBSET Int
      <4>1. IsFiniteSet(installs)
        BY <2>1, <2>2, FS_Subset
      <4> QED BY <2>1, <4>1
    <3> QED BY <1>3, <3>1, MinIsSmallest
  <2>4. InstallStep(j.steps) = Min(installs)
    BY <1>3 DEF InstallStep
  <2> QED BY <1>1, <2>3, <2>4
<1> QED BY <1>2, <1>3

\* What is called cold is cold, whatever else is read of what comes ahead of the install.
LEMMA FindingStands ==
  ASSUME NEW j \in Job, NEW k \in Knowledge, Reported(j, k), ReadAfterInstall(j, k)
  PROVE  CacheState(j, EverythingRead) = "uncached"
<1> DEFINE i == InstallStep(j.steps)
           pre == SubSeq(j.steps, 1, i - 1)
           post == SubSeq(j.steps, i + 1, Len(j.steps))
           outer == CheckoutBefore(j.steps, i, NoStep)
           ahead(q) == State0(pre, NoStep, q, j.runner)
           after(q) == State0(post, outer, q, j.runner)
<1>1. \A q : CacheState(j, q) = IF "cached" \in {ahead(q), after(q)} THEN "cached" ELSE ahead(q)
  BY DEF CacheState
<1>2. i \in 1 .. Len(j.steps)
  BY InstallIs DEF Reported
<1>3. k.actions = Actions \/ \A n \in DOMAIN post : post[n].uses \notin Actions \ Setups
  <2>1. j.steps \in Seq(Step) /\ Len(j.steps) \in Nat
    BY DEF Job
  <2> HIDE DEF i
  <2>2. DOMAIN post = 1 .. Len(j.steps) - i /\ \A n \in 1 .. Len(j.steps) - i : post[n] = j.steps[i + n]
    BY <1>2, <2>1
  <2>3. \A n \in 1 .. Len(j.steps) - i : i + n \in i + 1 .. Len(j.steps)
    BY <1>2, <2>1
  <2>4. k.actions = Actions \/ \A n \in i + 1 .. Len(j.steps) : j.steps[n].uses \notin Actions \ Setups
    BY DEF ReadAfterInstall, i
  <2> QED BY <2>2, <2>3, <2>4
<1> HIDE DEF pre, post, outer
<1>4. ahead(k) = "uncached" /\ after(k) # "cached"
  BY <1>1 DEF Reported
<1>5. ahead(EverythingRead) = "uncached"
  <2>1. Cold(ahead(EverythingRead))
    BY <1>4, State0Stands DEF Cold
  <2>2. ahead(EverythingRead) \in {"cached", "disabled", "unknown", "uncached"}
    BY CombinedIs DEF State0
  <2> QED BY <2>1, <2>2 DEF Cold
<1>6. after(EverythingRead) # "cached"
  BY <1>3, <1>4, State0Stands
<1> QED BY <1>1, <1>5, <1>6

-----------------------------------------------------------------------------
\* A setup step that is told to cache does, whatever has been read.
LEMMA InputCaches ==
  ASSUME NEW s, s.uses \in {"node", "python"}, s.input = "true", NEW checkout, NEW q, NEW r, NEW a
  PROVE  StepState(s, checkout, q, r, a) = "cached"
<1>1. NodeState(s, checkout, q) = "cached"
  BY DEF NodeState
<1>2. s.uses \notin Caches /\ s.uses \notin {"ruby", "go", "uv"} /\ s.uses \notin Commands \cup {"checkout"}
  BY DEF Caches, Commands
<1>3. s.input \notin {"absent", "false"}
  OBVIOUS
<1> QED BY <1>1, <1>2, <1>3 DEF StepState

\* What a fix makes of a job.
LEMMA FixedIs ==
  ASSUME NEW j \in Job, NEW k \in Knowledge, InstallStep(j.steps) # 0, NEW n \in Fixable(j, k)
  PROVE  /\ WithInput(j, n) \in Job /\ Len(WithInput(j, n).steps) = Len(j.steps)
         /\ ~WithInput(j, n).guarded
         /\ \A q \in Knowledge : CacheState(WithInput(j, n), q) = "cached"
<1> DEFINE i == InstallStep(j.steps)
           f == WithInput(j, n)
           step == [j.steps[n] EXCEPT !.input = "true"]
           pre == SubSeq(f.steps, 1, i - 1)
<1>1. j.steps \in Seq(Step) /\ Len(j.steps) \in Nat /\ DOMAIN j.steps = 1 .. Len(j.steps)
  BY DEF Job
<1>2. i \in 1 .. Len(j.steps)
  BY InstallIs
<1>3. n \in 1 .. i - 1 /\ j.steps[n].uses \in {"node", "python"} /\ ~j.guarded
  BY DEF Fixable, SetupFor, UnsafeContext
<1>4. n \in 1 .. Len(j.steps) /\ j.steps[n] \in Step
  BY <1>1, <1>2, <1>3
<1>5. step \in Step /\ step.uses = j.steps[n].uses /\ step.input = "true"
  BY <1>4 DEF Step
<1>6. f = [j EXCEPT !.steps = [j.steps EXCEPT ![n] = step]]
  BY DEF WithInput
<1> HIDE DEF f, step, i
<1>7. f.steps = [j.steps EXCEPT ![n] = step] /\ f.runner = j.runner /\ f.guarded = j.guarded /\ f \in Job
  <2>1. [j.steps EXCEPT ![n] = step] \in Seq(Step)
    BY <1>1, <1>4, <1>5
  <2> QED BY <1>6, <2>1 DEF Job
<1>8. /\ Len(f.steps) = Len(j.steps) /\ DOMAIN f.steps = 1 .. Len(j.steps) /\ f.steps \in Seq(Step)
      /\ f.steps[n] = step /\ \A m \in 1 .. Len(j.steps) : f.steps[m].uses = j.steps[m].uses
  <2>1. f.steps \in Seq(Step)
    BY <1>7 DEF Job
  <2> QED BY <1>1, <1>4, <1>5, <1>7, <2>1
<1>9. InstallStep(f.steps) = i
  <2>1. {m \in DOMAIN f.steps : f.steps[m].uses \in {"npm", "pip"}} = {m \in DOMAIN j.steps : j.steps[m].uses \in {"npm", "pip"}}
    BY <1>1, <1>8
  <2> QED BY <2>1 DEF InstallStep, i
<1>10. n \in DOMAIN pre /\ pre[n] = step
  <2>1. DOMAIN pre = 1 .. i - 1 /\ \A m \in 1 .. i - 1 : pre[m] = f.steps[m]
    BY <1>1, <1>2, <1>8
  <2> QED BY <1>3, <1>8, <2>1
<1>11. ASSUME NEW q \in Knowledge PROVE CacheState(f, q) = "cached"
  <2> HIDE DEF pre
  <2> DEFINE at(m) == StepState(pre[m], CheckoutBefore(pre, m, NoStep), q, f.runner,
                IF pre[m].uses \in q.actions THEN State1(manifest[pre[m].uses], CheckoutBefore(pre, m, NoStep), q, f.runner) ELSE "unknown")
  <2>1. at(n) = "cached"
    BY <1>3, <1>5, <1>10, InputCaches
  <2>2. State0(pre, NoStep, q, f.runner) = Combined({at(m) : m \in DOMAIN pre})
    BY DEF State0
  <2> HIDE DEF at
  <2>3. State0(pre, NoStep, q, f.runner) = "cached"
    BY <1>10, <2>1, <2>2, CombinedIs
  <2> QED BY <1>9, <2>3 DEF CacheState, pre
<1> QED BY <1>3, <1>7, <1>8, <1>11 DEF f

\* A diff on offer: it was made for a job that was reported.
Offer(d) ==
  /\ d.before \in Job /\ Len(d.before.steps) <= MaxSteps
  /\ \E k \in Knowledge :
       /\ Reported(d.before, k)
       /\ \E n \in Fixable(d.before, k) : d = [before |-> d.before, after |-> WithInput(d.before, n)]

LEMMA OfferIs ==
  ASSUME NEW d, Offer(d)
  PROVE  /\ d.after \in Job /\ Len(d.after.steps) = Len(d.before.steps) /\ Len(d.before.steps) <= MaxSteps
         /\ ~d.after.guarded
         /\ \A q \in Knowledge : CacheState(d.after, q) = "cached"
         /\ \A q \in Knowledge : ReadAfterInstall(d.before, [q EXCEPT !.actions = {}]) =>
              CacheState(d.before, EverythingRead) # "cached"
<1>1. PICK k \in Knowledge : /\ Reported(d.before, k)
                             /\ \E n \in Fixable(d.before, k) : d = [before |-> d.before, after |-> WithInput(d.before, n)]
  BY DEF Offer
<1>2. PICK n \in Fixable(d.before, k) : d = [before |-> d.before, after |-> WithInput(d.before, n)]
  BY <1>1
<1>3. d.after = WithInput(d.before, n)
  BY <1>2
<1>4. d.before \in Job /\ Len(d.before.steps) <= MaxSteps
  BY DEF Offer
<1>5. ASSUME NEW q \in Knowledge, ReadAfterInstall(d.before, [q EXCEPT !.actions = {}])
      PROVE  CacheState(d.before, EverythingRead) # "cached"
  <2>1. [q EXCEPT !.actions = {}].actions = {} /\ k.actions \subseteq Actions
    BY DEF Knowledge
  <2>2. ReadAfterInstall(d.before, k)
    BY <1>5, <2>1 DEF ReadAfterInstall
  <2> QED BY <1>1, <1>4, <2>2, FindingStands
<1> QED BY <1>1, <1>3, <1>4, <1>5, FixedIs DEF Reported

\* Editing a list keeps what it is a list of.
LEMMA InsertedIs ==
  ASSUME NEW S, NEW q \in Seq(S), NEW n \in 1 .. Len(q) + 1, NEW e \in S
  PROVE  InsertAt(q, n, e) \in Seq(S) /\ Len(InsertAt(q, n, e)) = Len(q) + 1
<1>1. PICK x : x = SubSeq(q, 1, n - 1)
  OBVIOUS
<1>2. PICK y : y = SubSeq(q, n, Len(q))
  OBVIOUS
<1>3. x \in Seq(S) /\ Len(x) = n - 1 /\ y \in Seq(S) /\ Len(y) = Len(q) - n + 1
  BY <1>1, <1>2
<1>4. x \o <<e>> \in Seq(S) /\ Len(x \o <<e>>) = n
  BY <1>3
<1>5. PICK z : z = x \o <<e>>
  OBVIOUS
<1>6. z \o y \in Seq(S) /\ Len(z \o y) = n + (Len(q) - n + 1)
  <2>1. z \in Seq(S) /\ y \in Seq(S) /\ Len(z) = n
    BY <1>3, <1>4, <1>5
  <2>2. z \o y \in Seq(S) /\ Len(z \o y) = Len(z) + Len(y)
    BY <2>1, ConcatIs
  <2> QED BY <1>3, <2>1, <2>2
<1>7. InsertAt(q, n, e) = z \o y
  BY <1>1, <1>2, <1>5 DEF InsertAt
<1> QED BY <1>6, <1>7

LEMMA RemovedIs ==
  ASSUME NEW S, NEW q \in Seq(S), NEW n \in 1 .. Len(q)
  PROVE  RemoveAt(q, n) \in Seq(S) /\ Len(RemoveAt(q, n)) = Len(q) - 1
<1>1. PICK x : x = SubSeq(q, 1, n - 1)
  OBVIOUS
<1>2. PICK y : y = SubSeq(q, n + 1, Len(q))
  OBVIOUS
<1>3. x \in Seq(S) /\ Len(x) = n - 1 /\ y \in Seq(S) /\ Len(y) = Len(q) - n
  BY <1>1, <1>2
<1>4. x \o y \in Seq(S) /\ Len(x \o y) = n - 1 + (Len(q) - n)
  <2>1. x \o y \in Seq(S) /\ Len(x \o y) = Len(x) + Len(y)
    BY <1>3, ConcatIs
  <2> QED BY <1>3, <2>1
<1>5. RemoveAt(q, n) = x \o y
  BY <1>1, <1>2 DEF RemoveAt
<1> QED BY <1>4, <1>5

\* The job, the diff on offer, and the one merged if nothing was edited since.
OffersKept ==
  /\ job \in Job /\ Len(job.steps) <= MaxSteps
  /\ \A d \in proposal : proposal = {d} /\ Offer(d)
  /\ \A d \in merged : merged = {d} /\ Offer(d) /\ job = d.after

LEMMA OffersInv == CacheSpec => []OffersKept
<1>1. CacheInit => OffersKept
  <2> SUFFICES ASSUME CacheInit PROVE OffersKept
    OBVIOUS
  <2>1. job \in Job /\ job.steps = <<>>
    <3>1. job \in [steps : {<<>>}, runner : Runners, guarded : BOOLEAN]
      BY DEF CacheInit
    <3>2. <<>> \in Seq(Step)
      OBVIOUS
    <3> HIDE DEF Step
    <3> QED BY <3>1, <3>2 DEF Job
  <2>2. Len(job.steps) <= MaxSteps
    BY <2>1, CacheAssumption
  <2> QED BY <2>1, <2>2 DEF CacheInit, OffersKept
<1>2. OffersKept /\ [CacheNext]_cacheVars => OffersKept'
  <2> SUFFICES ASSUME OffersKept, [CacheNext]_cacheVars PROVE OffersKept'
    OBVIOUS
  <2>0. rootIsNpm' = rootIsNpm /\ \A d : Offer(d)' <=> Offer(d)
    <3>1. rootIsNpm' = rootIsNpm
      BY DEF CacheNext, InsertStep, DropStep, PreviewFix, MergeFix, cacheVars
    <3> QED BY <3>1 DEF Offer, Knowledge
  <2>j. job.steps \in Seq(Step) /\ Len(job.steps) \in Nat
    BY DEF OffersKept, Job
  <2>1. ASSUME NEW n \in 1 .. MaxSteps, NEW s \in JobSteps, InsertStep(n, s) PROVE OffersKept'
    <3>1. s \in Step
      BY CacheAssumption DEF Step
    <3>2. n \in 1 .. Len(job.steps) + 1 /\ Len(job.steps) < MaxSteps
      BY <2>1 DEF InsertStep
    <3>3. InsertAt(job.steps, n, s) \in Seq(Step) /\ Len(InsertAt(job.steps, n, s)) = Len(job.steps) + 1
      BY <2>j, <3>1, <3>2, InsertedIs
    <3>4. job' = [job EXCEPT !.steps = InsertAt(job.steps, n, s)] /\ proposal' = {} /\ merged' = {}
      BY <2>1 DEF InsertStep
    <3>5. job' \in Job /\ job'.steps = InsertAt(job.steps, n, s)
      BY <3>3, <3>4 DEF OffersKept, Job
    <3>6. Len(job'.steps) <= MaxSteps
      BY <2>j, <3>2, <3>3, <3>5, CacheAssumption
    <3> QED BY <3>4, <3>5, <3>6 DEF OffersKept
  <2>2. ASSUME NEW n \in 1 .. MaxSteps, DropStep(n) PROVE OffersKept'
    <3>1. n \in 1 .. Len(job.steps)
      BY <2>j, <2>2 DEF DropStep
    <3>2. RemoveAt(job.steps, n) \in Seq(Step) /\ Len(RemoveAt(job.steps, n)) = Len(job.steps) - 1
      BY <2>j, <3>1, RemovedIs
    <3>3. job' = [job EXCEPT !.steps = RemoveAt(job.steps, n)] /\ proposal' = {} /\ merged' = {}
      BY <2>2 DEF DropStep
    <3>4. job' \in Job /\ job'.steps = RemoveAt(job.steps, n)
      BY <3>2, <3>3 DEF OffersKept, Job
    <3>5. Len(job'.steps) <= MaxSteps
      BY <2>j, <3>2, <3>4, CacheAssumption DEF OffersKept
    <3> QED BY <3>3, <3>4, <3>5 DEF OffersKept
  <2>3. ASSUME NEW k \in Knowledge, PreviewFix(k) PROVE OffersKept'
    <3>1. PICK f \in Fixes(job, k) : proposal' = {[before |-> job, after |-> f]}
      BY <2>3 DEF PreviewFix
    <3>2. Reported(job, k) /\ \E n \in Fixable(job, k) : f = WithInput(job, n)
      BY <3>1 DEF Fixes
    <3> DEFINE d == [before |-> job, after |-> f]
    <3>3. PICK c : c = d
      OBVIOUS
    <3>4. Offer(c)
      BY <3>2, <3>3 DEF Offer, OffersKept
    <3>5. proposal' = {c} /\ Offer(c)'
      BY <2>0, <3>1, <3>3, <3>4
    <3>6. job' = job /\ merged' = merged
      BY <2>3 DEF PreviewFix
    <3>7. \A e \in proposal' : proposal' = {e} /\ Offer(e)'
      BY <3>5
    <3>8. \A e \in merged' : merged' = {e} /\ Offer(e)' /\ job' = e.after
      BY <2>0, <3>6 DEF OffersKept
    <3> QED BY <3>6, <3>7, <3>8 DEF OffersKept
  <2>4. CASE MergeFix
    <3>1. PICK d \in proposal : job = d.before /\ job' = d.after
      BY <2>4 DEF MergeFix
    <3>2. proposal = {d} /\ Offer(d)
      BY DEF OffersKept
    <3>3. job' \in Job /\ Len(job'.steps) <= MaxSteps
      BY <3>1, <3>2, OfferIs
    <3>4. merged' = {d} /\ proposal' = {}
      BY <2>4, <3>2 DEF MergeFix
    <3>5. Offer(d)'
      BY <2>0, <3>2
    <3>6. \A e \in merged' : merged' = {e} /\ Offer(e)' /\ job' = e.after
      BY <3>1, <3>4, <3>5
    <3> QED BY <3>3, <3>4, <3>6 DEF OffersKept
  <2>5. CASE UNCHANGED cacheVars
    BY <2>0, <2>5 DEF OffersKept, cacheVars
  <2> QED BY <2>1, <2>2, <2>3, <2>4, <2>5 DEF CacheNext
<1> QED BY <1>1, <1>2, PTL DEF CacheSpec

\* The component's type invariant.
LEMMA CacheTypeOKInv == CacheSpec => []CacheTypeOK
<1>1. OffersKept => CacheTypeOK
  <2> SUFFICES ASSUME OffersKept PROVE CacheTypeOK
    OBVIOUS
  <2>1. job.runner \in Runners /\ Len(job.steps) <= MaxSteps
    BY DEF OffersKept, Job
  <2>2. ASSUME NEW S, \A d \in S : S = {d} PROVE Cardinality(S) <= 1
    <3>1. CASE S = {}
      BY <3>1, FS_EmptySet
    <3>2. CASE S # {}
      <4>1. PICK d \in S : S = {d}
        BY <2>2, <3>2
      <4>2. Cardinality({d}) = 1
        BY FS_Singleton
      <4> QED BY <4>1, <4>2
    <3> QED BY <3>1, <3>2
  <2>3. Cardinality(proposal) <= 1 /\ Cardinality(merged) <= 1
    BY <2>2 DEF OffersKept
  <2>4. \A d \in proposal \cup merged : Len(d.before.steps) = Len(d.after.steps)
    BY OfferIs DEF OffersKept
  <2> QED BY <2>1, <2>3, <2>4 DEF CacheTypeOK
<1> QED BY <1>1, OffersInv, PTL

\* A job that is called cold with part of the actions read is cold with all of them read, whatever the
\* steps, unless one after the install was left unread (cache_state, _steps_state).
THEOREM FindingsStandUpHolds == CacheSpec => []FindingsStandUp
<1>1. OffersKept => FindingsStandUp
  BY FindingStands DEF OffersKept, FindingsStandUp
<1> QED BY <1>1, OffersInv, PTL

\* A merged cache fix went to an unguarded job without a cache, and leaves one that no audit reports
\* again, whatever it has read (CacheFixer.preview, fixers/cache.py's _verify).
THEOREM CacheFixSticksHolds == CacheSpec => []CacheFixSticks
<1>1. OffersKept => CacheFixSticks
  BY OfferIs DEF OffersKept, CacheFixSticks
<1> QED BY <1>1, OffersInv, PTL

-----------------------------------------------------------------------------
(* CancelRule: what cancelling saves of a run is, at every moment, how long the first of the runs *)
(* that overtook it has been under way beside it.                                                 *)

Run == [ref : Refs, state : {"queued", "running", "done"}, start : Nat, end : Nat, again : BOOLEAN,
        shown : BOOLEAN, from : Nat, to : Nat]

\* What the finished jobs of a run tell: nothing of one that waits, nothing from before its start or
\* after the present, and all of one that is over and was not run again.
SpanSound(r, t) ==
  /\ r.start <= t /\ r.end <= t /\ r.from <= t /\ r.to <= t
  /\ r.state = "queued" => ~r.shown /\ ~r.again
  /\ r.shown => r.start <= r.from
  /\ r.state # "queued" => r.start <= t
  /\ r.state = "done" => r.start <= r.end
  /\ r.again => r.start <= r.end
  /\ r.state = "done" /\ ~r.again => r.shown /\ r.from = r.start /\ r.to = r.end

HistorySound ==
  /\ history \in Seq(Run) /\ burnt \in Seq(Nat) /\ Len(burnt) = Len(history) /\ now \in Nat
  /\ \A i \in RunIds : SpanSound(history[i], now)

LEMMA HistorySoundIs ==
  HistorySound =>
    /\ Len(history) \in Nat /\ now \in Nat /\ DOMAIN history = RunIds
    /\ \A i \in RunIds : /\ i \in Nat /\ history[i] \in Run /\ burnt[i] \in Nat
                         /\ history[i].start \in Nat /\ history[i].end \in Nat
                         /\ history[i].from \in Nat /\ history[i].to \in Nat
                         /\ history[i].start <= now /\ history[i].end <= now
                         /\ history[i].state \in {"queued", "running", "done"}
                         /\ SpanSound(history[i], now)
<1> SUFFICES ASSUME HistorySound PROVE
      /\ Len(history) \in Nat /\ now \in Nat /\ DOMAIN history = RunIds
      /\ \A i \in RunIds : /\ i \in Nat /\ history[i] \in Run /\ burnt[i] \in Nat
                           /\ history[i].start \in Nat /\ history[i].end \in Nat
                           /\ history[i].from \in Nat /\ history[i].to \in Nat
                           /\ history[i].start <= now /\ history[i].end <= now
                           /\ history[i].state \in {"queued", "running", "done"}
                           /\ SpanSound(history[i], now)
  OBVIOUS
<1>1. Len(history) \in Nat /\ now \in Nat /\ DOMAIN history = RunIds
      /\ \A i \in RunIds : i \in Nat /\ history[i] \in Run /\ burnt[i] \in Nat
  BY DEF HistorySound, RunIds
<1>2. \A x \in Run : /\ x.start \in Nat /\ x.end \in Nat /\ x.from \in Nat /\ x.to \in Nat
                     /\ x.state \in {"queued", "running", "done"}
  BY DEF Run
<1>3. \A i \in RunIds : SpanSound(history[i], now) /\ history[i].start <= now /\ history[i].end <= now
  BY DEF HistorySound, SpanSound
<1> QED BY <1>1, <1>2, <1>3

\* A step on one run.
LEMMA OneRun ==
  ASSUME HistorySound, NEW i \in RunIds, NEW r \in Run, history' = [history EXCEPT ![i] = r]
  PROVE  /\ history' \in Seq(Run) /\ Len(history') = Len(history) /\ RunIds' = RunIds
         /\ \A j \in RunIds : history'[j] = IF j = i THEN r ELSE history[j]
BY DEF HistorySound, RunIds

\* What each step makes of its run.
LEMMA StartRunIs ==
  ASSUME HistorySound, NEW i \in RunIds, StartRun(i)
  PROVE  \E r \in Run : /\ history' = [history EXCEPT ![i] = r] /\ UNCHANGED <<now, burnt>>
                        /\ history[i].state = "queued" /\ r.state = "running" /\ r.start = now
                        /\ r.ref = history[i].ref /\ r.again = history[i].again
                        /\ SpanSound(r, now)
<1> DEFINE q == [history[i] EXCEPT !.state = "running", !.start = now]
<1>1. history[i] \in Run /\ now \in Nat /\ SpanSound(history[i], now) /\ history[i].state = "queued"
  BY HistorySoundIs DEF StartRun
<1>2. /\ q \in Run /\ q.state = "running" /\ q.start = now /\ q.ref = history[i].ref /\ q.again = history[i].again
      /\ q.shown = history[i].shown /\ q.from = history[i].from /\ q.to = history[i].to /\ q.end = history[i].end
  BY <1>1 DEF Run
<1>3. SpanSound(q, now)
  <2> HIDE DEF q
  <2> QED BY <1>1, <1>2 DEF SpanSound
<1>4. history' = [history EXCEPT ![i] = q]
  BY DEF StartRun
<1>5. UNCHANGED <<now, burnt>>
  BY DEF StartRun
<1> HIDE DEF q
<1> QED BY <1>1, <1>2, <1>3, <1>4, <1>5

LEMMA WithJobIs ==
  ASSUME NEW h \in Run, now \in Nat, NEW s \in Nat
  PROVE  /\ WithJob(h, s) \in Run /\ WithJob(h, s).state = h.state /\ WithJob(h, s).start = h.start
         /\ WithJob(h, s).end = h.end /\ WithJob(h, s).ref = h.ref /\ WithJob(h, s).again = h.again
         /\ WithJob(h, s).shown = TRUE /\ WithJob(h, s).to = now
         /\ WithJob(h, s).from = IF h.shown /\ h.from < s THEN h.from ELSE s
BY DEF WithJob, Run

LEMMA FinishJobIs ==
  ASSUME HistorySound, NEW i \in RunIds, FinishJob(i)
  PROVE  \E r \in Run : /\ history' = [history EXCEPT ![i] = r] /\ UNCHANGED <<now, burnt>>
                        /\ history[i].state = "running" /\ r.state = "running" /\ r.start = history[i].start
                        /\ r.ref = history[i].ref /\ r.again = history[i].again
                        /\ SpanSound(r, now)
<1>1. history[i] \in Run /\ now \in Nat /\ SpanSound(history[i], now) /\ history[i].state = "running"
      /\ history[i].start \in Nat /\ history[i].end \in Nat /\ history[i].from \in Nat
  BY HistorySoundIs DEF FinishJob
<1>2. PICK s \in JobStarts(history[i]) : history' = [history EXCEPT ![i] = WithJob(history[i], s)]
  BY DEF FinishJob
<1>3. s \in Nat /\ s <= now /\ history[i].start <= s
  BY <1>1 DEF JobStarts, SpanSound
<1> DEFINE r == WithJob(history[i], s)
<1>4. /\ r \in Run /\ r.state = "running" /\ r.start = history[i].start /\ r.end = history[i].end /\ r.ref = history[i].ref
      /\ r.again = history[i].again /\ r.shown = TRUE /\ r.to = now
      /\ r.from = IF history[i].shown /\ history[i].from < s THEN history[i].from ELSE s
  BY <1>1, <1>3, WithJobIs
<1>5. SpanSound(r, now)
  <2> HIDE DEF r
  <2> QED BY <1>1, <1>3, <1>4 DEF SpanSound
<1>6. UNCHANGED <<now, burnt>>
  BY DEF FinishJob
<1> QED BY <1>1, <1>2, <1>4, <1>5, <1>6

LEMMA FinishRunIs ==
  ASSUME HistorySound, NEW i \in RunIds, FinishRun(i)
  PROVE  \E r \in Run : /\ history' = [history EXCEPT ![i] = r] /\ UNCHANGED <<now, burnt>>
                        /\ history[i].state = "running" /\ r.state = "done" /\ r.start = history[i].start /\ r.end = now
                        /\ r.ref = history[i].ref /\ r.again = history[i].again
                        /\ SpanSound(r, now)
<1>1. history[i] \in Run /\ now \in Nat /\ SpanSound(history[i], now) /\ history[i].state = "running"
      /\ history[i].start \in Nat /\ history[i].end \in Nat /\ history[i].from \in Nat
  BY HistorySoundIs DEF FinishRun
<1>2. PICK s \in JobStarts(history[i]) :
        /\ history[i].again \/ s = history[i].start
        /\ history' = [history EXCEPT ![i] = [WithJob(history[i], s) EXCEPT !.state = "done", !.end = now]]
  BY DEF FinishRun
<1>3. s \in Nat /\ s <= now /\ history[i].start <= s
  BY <1>1 DEF JobStarts, SpanSound
<1> DEFINE w == WithJob(history[i], s)
           r == [w EXCEPT !.state = "done", !.end = now]
<1>4. /\ w \in Run /\ w.start = history[i].start /\ w.ref = history[i].ref
      /\ w.again = history[i].again /\ w.shown = TRUE /\ w.to = now
      /\ w.from = IF history[i].shown /\ history[i].from < s THEN history[i].from ELSE s
  BY <1>1, <1>3, WithJobIs
<1>5. /\ r \in Run /\ r.state = "done" /\ r.end = now /\ r.start = w.start /\ r.ref = w.ref
      /\ r.again = w.again /\ r.shown = w.shown /\ r.to = w.to /\ r.from = w.from
  <2> HIDE DEF w
  <2> QED BY <1>1, <1>4 DEF Run
<1>6. SpanSound(r, now)
  <2> HIDE DEF r, w
  <2> QED BY <1>1, <1>2, <1>3, <1>4, <1>5 DEF SpanSound
<1>7. UNCHANGED <<now, burnt>>
  BY DEF FinishRun
<1> QED BY <1>1, <1>2, <1>4, <1>5, <1>6, <1>7

LEMMA RerunIs ==
  ASSUME HistorySound, NEW i \in RunIds, Rerun(i)
  PROVE  \E r \in Run : /\ history' = [history EXCEPT ![i] = r] /\ UNCHANGED <<now, burnt>>
                        /\ history[i].state = "done" /\ r.state = "running" /\ r.start = history[i].start
                        /\ r.ref = history[i].ref /\ r.again
                        /\ SpanSound(r, now)
<1>1. history[i] \in Run /\ now \in Nat /\ SpanSound(history[i], now) /\ history[i].state = "done"
  BY HistorySoundIs DEF Rerun
<1> DEFINE q == [history[i] EXCEPT !.state = "running", !.again = TRUE]
           z == [q EXCEPT !.shown = FALSE, !.from = 0, !.to = 0]
<1>2. \E carried \in BOOLEAN : history' = [history EXCEPT ![i] = IF carried THEN q ELSE z]
  BY DEF Rerun
<1>3. /\ q \in Run /\ q.state = "running" /\ q.start = history[i].start /\ q.ref = history[i].ref /\ q.again = TRUE
      /\ q.shown = history[i].shown /\ q.from = history[i].from /\ q.to = history[i].to /\ q.end = history[i].end
  BY <1>1 DEF Run
<1>4. /\ z \in Run /\ z.state = "running" /\ z.start = history[i].start /\ z.ref = history[i].ref /\ z.again = TRUE
      /\ z.shown = FALSE /\ z.from = 0 /\ z.to = 0 /\ z.end = history[i].end
  <2> HIDE DEF q
  <2>1. q \in Run /\ q.state = "running" /\ q.start = history[i].start /\ q.ref = history[i].ref /\ q.again = TRUE /\ q.end = history[i].end
    BY <1>3
  <2> QED BY <2>1 DEF Run
<1>5. SpanSound(q, now) /\ SpanSound(z, now)
  <2> HIDE DEF q, z
  <2> QED BY <1>1, <1>3, <1>4 DEF SpanSound
<1>6. UNCHANGED <<now, burnt>>
  BY DEF Rerun
<1> HIDE DEF q, z
<1> QED BY <1>1, <1>2, <1>3, <1>4, <1>5, <1>6

LEMMA HistorySoundInit == CancelInit => HistorySound
BY DEF CancelInit, HistorySound, RunIds

LEMMA HistorySoundNext == HistorySound /\ [RunNext \/ TextNext]_cancelVars => HistorySound'
<1> SUFFICES ASSUME HistorySound, [RunNext \/ TextNext]_cancelVars PROVE HistorySound'
  OBVIOUS
<1>0. /\ Len(history) \in Nat /\ now \in Nat /\ DOMAIN history = RunIds
      /\ \A i \in RunIds : i \in Nat /\ history[i] \in Run /\ burnt[i] \in Nat /\ SpanSound(history[i], now)
  BY HistorySoundIs
<1>1. ASSUME NEW ref \in Refs, CreateRun(ref) PROVE HistorySound'
  <2> DEFINE r == [ref |-> ref, state |-> "queued", start |-> 0, end |-> 0, again |-> FALSE,
                   shown |-> FALSE, from |-> 0, to |-> 0]
  <2>1. r \in Run /\ SpanSound(r, now)
    BY <1>0 DEF Run, SpanSound
  <2>2. history' = Append(history, r) /\ burnt' = Append(burnt, 0) /\ now' = now
    BY <1>1 DEF CreateRun
  <2> HIDE DEF r
  <2>3. /\ history' \in Seq(Run) /\ Len(history') = Len(history) + 1 /\ burnt' \in Seq(Nat) /\ Len(burnt') = Len(history')
        /\ \A i \in 1 .. Len(history) : history'[i] = history[i]
        /\ history'[Len(history) + 1] = r
    BY <2>1, <2>2 DEF HistorySound
  <2>4. \A i \in RunIds' : i \in RunIds \/ i = Len(history) + 1
    BY <1>0, <2>3 DEF RunIds
  <2>5. \A i \in RunIds' : SpanSound(history'[i], now)
    BY <1>0, <2>1, <2>3, <2>4 DEF RunIds
  <2> QED BY <1>0, <2>2, <2>3, <2>5 DEF HistorySound
<1>2. ASSUME NEW i \in RunIds, NEW r \in Run, history' = [history EXCEPT ![i] = r],
             SpanSound(r, now), UNCHANGED <<now, burnt>>
      PROVE  HistorySound'
  <2>1. /\ history' \in Seq(Run) /\ Len(history') = Len(history) /\ RunIds' = RunIds
        /\ \A j \in RunIds : history'[j] = IF j = i THEN r ELSE history[j]
    BY <1>2, OneRun
  <2>2. \A j \in RunIds : SpanSound(history'[j], now)
    BY <1>0, <1>2, <2>1
  <2> QED BY <1>0, <1>2, <2>1, <2>2 DEF HistorySound
<1>3. ASSUME NEW i \in RunIds, StartRun(i) \/ FinishJob(i) \/ FinishRun(i) \/ Rerun(i) PROVE HistorySound'
  <2>1. \E r \in Run : history' = [history EXCEPT ![i] = r] /\ SpanSound(r, now) /\ UNCHANGED <<now, burnt>>
    <3>1. CASE StartRun(i)
      BY <3>1, StartRunIs
    <3>2. CASE FinishJob(i)
      BY <3>2, FinishJobIs
    <3>3. CASE FinishRun(i)
      BY <3>3, FinishRunIs
    <3>4. CASE Rerun(i)
      BY <3>4, RerunIs
    <3> QED BY <1>3, <3>1, <3>2, <3>3, <3>4
  <2> QED BY <1>2, <2>1
<1>4. CASE Second
  <2> DEFINE more(i) == IF /\ history[i].state = "running" /\ ~history[i].again
                           /\ \E j \in RunIds : j > i /\ history[j].ref = history[i].ref /\ history[j].state # "queued"
                        THEN burnt[i] + 1 ELSE burnt[i]
  <2>1. burnt' = [i \in 1 .. Len(history) |-> more(i)] /\ now' = now + 1 /\ history' = history
    BY <1>4 DEF Second, RunIds
  <2>2. \A i \in 1 .. Len(history) : more(i) \in Nat
    BY <1>0 DEF RunIds
  <2> HIDE DEF more
  <2>3. burnt' \in Seq(Nat) /\ Len(burnt') = Len(history)
    BY <1>0, <2>1, <2>2
  <2>4. \A x \in Run : SpanSound(x, now) => SpanSound(x, now + 1)
    BY <1>0 DEF SpanSound, Run
  <2>5. \A i \in RunIds' : SpanSound(history'[i], now')
    BY <1>0, <2>1, <2>4 DEF RunIds
  <2> QED BY <1>0, <2>1, <2>3, <2>5 DEF HistorySound
<1>5. CASE TextNext \/ UNCHANGED cancelVars
  BY <1>5 DEF TextNext, MergeBlock, RewriteFile, cancelVars, HistorySound, RunIds
<1> QED BY <1>1, <1>3, <1>4, <1>5 DEF RunNext

-----------------------------------------------------------------------------
\* Run j has overtaken run i; and when run i was last seen running.
Overtook(j, i) == j > i /\ history[j].ref = history[i].ref /\ history[j].state # "queued"
Until(i) == IF history[i].state = "running" THEN now ELSE history[i].end

Burning(i) ==
  /\ history[i].state = "queued" => burnt[i] = 0
  /\ history[i].state # "queued" =>
       /\ \A j \in RunIds : Overtook(j, i) => Until(i) <= burnt[i] + history[j].start
       /\ burnt[i] = 0 \/ \E j \in RunIds : Overtook(j, i) /\ burnt[i] + history[j].start = Until(i)

BurntIsOverlap == StartedInOrder => \A i \in RunIds : ~history[i].again => Burning(i)

\* Only their starts tell the order of runs, and how long a run has been overtaken.
LEMMA SameStarts ==
  ASSUME HistorySound, NEW i \in RunIds, FinishJob(i) \/ FinishRun(i) \/ Rerun(i)
  PROVE  /\ RunIds' = RunIds /\ UNCHANGED <<now, burnt>>
         /\ \A j \in RunIds : /\ history'[j].start = history[j].start /\ history'[j].ref = history[j].ref
                              /\ history'[j].state = "queued" <=> history[j].state = "queued"
                              /\ history'[j].again \/ (~history[j].again /\ Until(j)' = Until(j))
<1>1. PICK r \in Run :
        /\ history' = [history EXCEPT ![i] = r] /\ UNCHANGED <<now, burnt>>
        /\ history[i].state # "queued" /\ r.state # "queued" /\ r.start = history[i].start /\ r.ref = history[i].ref
        /\ \/ r.again
           \/ r.again = history[i].again /\ history[i].state = "running" /\ r.state = "running"
           \/ r.again = history[i].again /\ history[i].state = "running" /\ r.state = "done" /\ r.end = now
  <2>1. CASE FinishJob(i)
    BY <2>1, FinishJobIs
  <2>2. CASE FinishRun(i)
    BY <2>2, FinishRunIs
  <2>3. CASE Rerun(i)
    BY <2>3, RerunIs
  <2> QED BY <2>1, <2>2, <2>3
<1>2. RunIds' = RunIds /\ \A j \in RunIds : history'[j] = IF j = i THEN r ELSE history[j]
  BY <1>1, OneRun
<1>3. \A j \in RunIds : history'[j].again \/ (~history[j].again /\ Until(j)' = Until(j))
  <2> TAKE j \in RunIds
  <2>1. CASE j = i
    BY <1>1, <1>2, <2>1 DEF Until
  <2>2. CASE j # i
    BY <1>1, <1>2, <2>2 DEF Until
  <2> QED BY <2>1, <2>2
<1> QED BY <1>1, <1>2, <1>3

\* Runs that are out of order now do not come into order.
LEMMA InOrderBefore == HistorySound /\ [RunNext \/ TextNext]_cancelVars /\ StartedInOrder' => StartedInOrder
<1> SUFFICES ASSUME HistorySound, [RunNext \/ TextNext]_cancelVars, StartedInOrder' PROVE StartedInOrder
  OBVIOUS
<1>0. /\ Len(history) \in Nat /\ now \in Nat /\ DOMAIN history = RunIds
      /\ \A i \in RunIds : /\ i \in Nat /\ history[i] \in Run /\ burnt[i] \in Nat
                           /\ history[i].start \in Nat /\ history[i].start <= now
  BY HistorySoundIs
<1>1. ASSUME NEW ref \in Refs, CreateRun(ref) PROVE StartedInOrder
  <2>1. \A i \in RunIds : i \in RunIds' /\ history'[i] = history[i]
    BY <1>0, <1>1 DEF CreateRun, HistorySound, RunIds
  <2> QED BY <2>1 DEF StartedInOrder
<1>2. ASSUME NEW i \in RunIds, StartRun(i) PROVE StartedInOrder
  <2>1. PICK r \in Run : /\ history' = [history EXCEPT ![i] = r] /\ history[i].state = "queued"
                         /\ r.start = now /\ r.ref = history[i].ref
    BY <1>2, StartRunIs
  <2>2. RunIds' = RunIds /\ \A j \in RunIds : history'[j] = IF j = i THEN r ELSE history[j]
    BY <2>1, OneRun
  <2>3. ASSUME NEW m \in RunIds, NEW n \in RunIds, m < n, history[m].ref = history[n].ref, history[n].state # "queued"
        PROVE  history[m].state # "queued" /\ history[m].start < history[n].start
    <3>1. n # i
      BY <2>1, <2>3
    <3>2. history'[n] = history[n] /\ history'[m].ref = history[m].ref
      BY <2>1, <2>2, <3>1
    <3>3. history'[m].state # "queued" /\ history'[m].start < history'[n].start
      BY <2>2, <2>3, <3>2 DEF StartedInOrder
    <3>4. m # i
      <4> SUFFICES ASSUME m = i PROVE FALSE
        OBVIOUS
      <4>1. now < history[n].start
        BY <2>1, <2>2, <3>2, <3>3
      <4> QED BY <1>0, <4>1
    <3> QED BY <2>2, <3>2, <3>3, <3>4
  <2> QED BY <2>3 DEF StartedInOrder
<1>3. ASSUME NEW i \in RunIds, FinishJob(i) \/ FinishRun(i) \/ Rerun(i) PROVE StartedInOrder
  <2>1. RunIds' = RunIds
        /\ \A j \in RunIds : /\ history'[j].start = history[j].start /\ history'[j].ref = history[j].ref
                             /\ history'[j].state = "queued" <=> history[j].state = "queued"
    BY <1>3, SameStarts
  <2> QED BY <2>1 DEF StartedInOrder
<1>4. CASE Second \/ TextNext \/ UNCHANGED cancelVars
  <2>1. history' = history
    BY <1>4 DEF Second, Keep, TextNext, MergeBlock, RewriteFile, cancelVars
  <2> QED BY <2>1 DEF StartedInOrder, RunIds
<1> QED BY <1>1, <1>2, <1>3, <1>4 DEF RunNext

LEMMA BurntNext == HistorySound /\ BurntIsOverlap /\ [RunNext \/ TextNext]_cancelVars => BurntIsOverlap'
<1> SUFFICES ASSUME HistorySound, BurntIsOverlap, [RunNext \/ TextNext]_cancelVars, StartedInOrder'
             PROVE  \A i \in RunIds' : ~history'[i].again => Burning(i)'
  BY DEF BurntIsOverlap
<1>p. StartedInOrder /\ \A i \in RunIds : ~history[i].again => Burning(i)
  BY InOrderBefore DEF BurntIsOverlap
<1>0. /\ Len(history) \in Nat /\ now \in Nat /\ DOMAIN history = RunIds
      /\ \A i \in RunIds : /\ i \in Nat /\ history[i] \in Run /\ burnt[i] \in Nat
                           /\ history[i].start \in Nat /\ history[i].end \in Nat
                           /\ history[i].start <= now /\ history[i].end <= now
                           /\ history[i].state \in {"queued", "running", "done"}
  BY HistorySoundIs
<1>1. ASSUME NEW ref \in Refs, CreateRun(ref) PROVE \A i \in RunIds' : ~history'[i].again => Burning(i)'
  <2> DEFINE r == [ref |-> ref, state |-> "queued", start |-> 0, end |-> 0, again |-> FALSE,
                   shown |-> FALSE, from |-> 0, to |-> 0]
  <2>1. history' = Append(history, r) /\ burnt' = Append(burnt, 0) /\ now' = now /\ r.state = "queued"
    BY <1>1 DEF CreateRun
  <2> HIDE DEF r
  <2>2. /\ RunIds' = RunIds \cup {Len(history) + 1} /\ Len(history) + 1 \notin RunIds
        /\ \A i \in RunIds : history'[i] = history[i] /\ burnt'[i] = burnt[i]
        /\ history'[Len(history) + 1] = r /\ burnt'[Len(history) + 1] = 0
    BY <1>0, <2>1 DEF RunIds, HistorySound
  <2>3. ASSUME NEW i \in RunIds, ~history[i].again PROVE Burning(i)'
    <3>1. Until(i)' = Until(i) /\ \A j \in RunIds' : Overtook(j, i)' <=> (j \in RunIds /\ Overtook(j, i))
      BY <2>1, <2>2, <2>3 DEF Until, Overtook
    <3> QED BY <1>p, <2>2, <2>3, <3>1 DEF Burning
  <2> QED BY <2>1, <2>2, <2>3 DEF Burning
<1>2. ASSUME NEW i \in RunIds, StartRun(i) PROVE \A n \in RunIds' : ~history'[n].again => Burning(n)'
  <2>1. PICK r \in Run :
          /\ history' = [history EXCEPT ![i] = r] /\ UNCHANGED <<now, burnt>> /\ history[i].state = "queued"
          /\ r.state = "running" /\ r.start = now /\ r.ref = history[i].ref /\ r.again = history[i].again
    BY <1>2, StartRunIs
  <2>2. history[i].state = "queued" /\ UNCHANGED <<now, burnt>> /\ ~history[i].again
    BY <2>1, HistorySoundIs DEF SpanSound
  <2>3. RunIds' = RunIds /\ \A j \in RunIds : history'[j] = IF j = i THEN r ELSE history[j]
    BY <2>1, OneRun
  <2>4. ASSUME NEW n \in RunIds, n # i, ~history[n].again, history[n].state # "queued" PROVE Burning(n)'
    <3>1. history'[n] = history[n] /\ Until(n)' = Until(n) /\ Until(n) <= now /\ burnt'[n] = burnt[n]
      BY <1>0, <2>2, <2>3, <2>4 DEF Until
    <3>2. \A j \in RunIds : j # i => (Overtook(j, n)' <=> Overtook(j, n)) /\ history'[j] = history[j]
      BY <2>3, <3>1 DEF Overtook
    <3>3. ~Overtook(i, n)
      BY <2>2 DEF Overtook
    <3>4. \A j \in RunIds : Overtook(j, n)' => Until(n)' <= burnt'[n] + history'[j].start
      <4> SUFFICES ASSUME NEW j \in RunIds, Overtook(j, n)' PROVE Until(n) <= burnt[n] + history'[j].start
        BY <3>1
      <4>1. CASE j = i
        <5>1. history'[j].start = now
          BY <2>1, <2>3, <4>1
        <5> QED BY <1>0, <3>1, <5>1 DEF Until
      <4>2. CASE j # i
        BY <1>p, <2>4, <3>2, <4>2 DEF Burning
      <4> QED BY <4>1, <4>2
    <3>5. burnt'[n] = 0 \/ \E j \in RunIds : Overtook(j, n)' /\ burnt'[n] + history'[j].start = Until(n)'
      BY <1>p, <2>4, <3>1, <3>2, <3>3 DEF Burning
    <3> QED BY <2>3, <2>4, <3>1, <3>4, <3>5 DEF Burning
  <2>5. ASSUME NEW n \in RunIds, n # i, ~history[n].again, history[n].state = "queued" PROVE Burning(n)'
    BY <1>p, <2>2, <2>3, <2>5 DEF Burning
  <2>6. Burning(i)'
    <3>1. \A j \in RunIds : ~Overtook(j, i)'
      <4> SUFFICES ASSUME NEW j \in RunIds, Overtook(j, i)' PROVE FALSE
        OBVIOUS
      <4>1. j > i /\ history'[j].ref = history[i].ref /\ j # i /\ history'[j] = history[j] /\ history[j].state # "queued"
        BY <1>0, <2>1, <2>3 DEF Overtook
      <4>2. i < j /\ history[i].ref = history[j].ref /\ history[j].state # "queued"
        BY <1>0, <4>1
      <4> QED BY <1>p, <2>2, <4>2 DEF StartedInOrder
    <3>2. burnt'[i] = 0 /\ history'[i].state = "running"
      BY <1>p, <2>1, <2>2, <2>3 DEF Burning
    <3> QED BY <2>3, <3>1, <3>2 DEF Burning
  <2> QED BY <2>3, <2>4, <2>5, <2>6
<1>3. ASSUME NEW i \in RunIds, FinishJob(i) \/ FinishRun(i) \/ Rerun(i)
      PROVE  \A n \in RunIds' : ~history'[n].again => Burning(n)'
  <2>1. /\ RunIds' = RunIds /\ UNCHANGED <<now, burnt>>
        /\ \A j \in RunIds : /\ history'[j].start = history[j].start /\ history'[j].ref = history[j].ref
                             /\ history'[j].state = "queued" <=> history[j].state = "queued"
                             /\ history'[j].again \/ (~history[j].again /\ Until(j)' = Until(j))
    BY <1>3, SameStarts
  <2>2. \A j, n \in RunIds : Overtook(j, n)' <=> Overtook(j, n)
    BY <2>1 DEF Overtook
  <2> QED BY <1>p, <2>1, <2>2 DEF Burning
<1>4. CASE Second
  <2>1. /\ history' = history /\ now' = now + 1 /\ RunIds' = RunIds
        /\ \A i \in RunIds : burnt'[i] =
             IF /\ history[i].state = "running" /\ ~history[i].again
                /\ \E j \in RunIds : j > i /\ history[j].ref = history[i].ref /\ history[j].state # "queued"
             THEN burnt[i] + 1 ELSE burnt[i]
    BY <1>4 DEF Second, RunIds
  <2>2. \A i, j \in RunIds : Overtook(j, i)' <=> Overtook(j, i)
    BY <2>1 DEF Overtook
  <2> SUFFICES ASSUME NEW i \in RunIds, ~history[i].again PROVE Burning(i)'
    BY <2>1
  <2>3. CASE history[i].state # "running"
    <3>1. burnt'[i] = burnt[i] /\ Until(i)' = Until(i)
      BY <2>1, <2>3 DEF Until
    <3> QED BY <1>p, <2>1, <2>2, <3>1 DEF Burning
  <2>4. CASE history[i].state = "running" /\ \A j \in RunIds : ~Overtook(j, i)
    <3>1. burnt'[i] = burnt[i] /\ burnt[i] = 0
      BY <1>p, <2>1, <2>4 DEF Overtook, Burning
    <3> QED BY <2>1, <2>2, <2>4, <3>1 DEF Burning
  <2>5. CASE history[i].state = "running" /\ \E j \in RunIds : Overtook(j, i)
    <3>1. ~history[i].again /\ Until(i) = now /\ Until(i)' = now + 1 /\ burnt'[i] = burnt[i] + 1
      <4> QED BY <2>1, <2>5 DEF Overtook, Until
    <3>2. \A j \in RunIds : Overtook(j, i) => now <= burnt[i] + history[j].start
      BY <1>p, <2>5, <3>1 DEF Burning
    <3>3. \A j \in RunIds : Overtook(j, i)' => Until(i)' <= burnt'[i] + history'[j].start
      <4> SUFFICES ASSUME NEW j \in RunIds, Overtook(j, i) PROVE now + 1 <= (burnt[i] + 1) + history[j].start
        BY <2>1, <2>2, <3>1
      <4> QED BY <1>0, <3>2
    <3>4. \E j \in RunIds : Overtook(j, i)' /\ burnt'[i] + history'[j].start = Until(i)'
      <4>1. PICK j \in RunIds : Overtook(j, i) /\ burnt[i] + history[j].start = now
        <5>1. CASE burnt[i] = 0
          <6>1. PICK j \in RunIds : Overtook(j, i)
            BY <2>5
          <6>2. now <= burnt[i] + history[j].start /\ history[j].start <= now
            BY <1>0, <3>2, <6>1
          <6>3. burnt[i] + history[j].start = now
            BY <1>0, <5>1, <6>2
          <6> QED BY <6>1, <6>3
        <5>2. CASE burnt[i] # 0
          BY <1>p, <2>5, <3>1, <5>2 DEF Burning
        <5> QED BY <5>1, <5>2
      <4>2. (burnt[i] + 1) + history[j].start = now + 1
        BY <1>0, <4>1
      <4> QED BY <2>1, <2>2, <3>1, <4>1, <4>2
    <3> QED BY <2>1, <2>5, <3>3, <3>4 DEF Burning
  <2> QED BY <2>3, <2>4, <2>5
<1>5. CASE TextNext \/ UNCHANGED cancelVars
  <2>1. UNCHANGED <<history, now, burnt>>
    BY <1>5 DEF TextNext, MergeBlock, RewriteFile, cancelVars
  <2>2. RunIds' = RunIds /\ \A i \in RunIds : (Burning(i)' <=> Burning(i)) /\ history'[i] = history[i]
    BY <2>1 DEF RunIds, Burning, Overtook, Until
  <2> QED BY <1>p, <2>2
<1> QED BY <1>1, <1>2, <1>3, <1>4, <1>5 DEF RunNext

LEMMA BurntInv == CancelSpec => [](HistorySound /\ BurntIsOverlap)
<1>1. CancelInit => BurntIsOverlap
  BY DEF CancelInit, BurntIsOverlap, RunIds
<1> QED BY <1>1, HistorySoundInit, HistorySoundNext, BurntNext, PTL DEF CancelSpec

-----------------------------------------------------------------------------
\* A run that older ones do not pass for a later one is followed by those that overtook it, which show
\* no job from before their start.
LEMMA FollowersOvertake ==
  ASSUME HistorySound, StartedInOrder, NEW i \in Usable, OlderShown(i), NEW j \in Successors(i)
  PROVE  Overtook(j, i) /\ history[j].start <= history[j].from
<1>1. /\ i \in RunIds /\ j \in RunIds /\ j \in Usable /\ i \in Nat /\ j \in Nat
      /\ history[i].shown /\ history[j].shown /\ history[j].ref = history[i].ref /\ Follows(j, i)
  BY HistorySoundIs DEF Successors, Usable, Follows
<1>2. /\ history[i].state # "queued" /\ history[j].state # "queued"
      /\ history[i].start <= history[i].from /\ history[j].start <= history[j].from
      /\ history[i].start \in Nat /\ history[j].start \in Nat /\ history[i].from \in Nat /\ history[j].from \in Nat
  BY <1>1, HistorySoundIs DEF SpanSound
<1>3. j # i
  BY <1>1, <1>2 DEF Follows
<1>4. ~ j < i
  <2> SUFFICES ASSUME j < i PROVE FALSE
    OBVIOUS
  <2>1. history[j].from = history[j].start
    BY <1>1 DEF OlderShown
  <2>2. history[j].start < history[i].start
    BY <1>1, <1>2 DEF StartedInOrder
  <2> QED BY <1>1, <1>2, <2>1, <2>2 DEF Follows
<1> QED BY <1>1, <1>2, <1>3, <1>4 DEF Overtook

\* When every run is over, those that overtook a run follow it.
LEMMA OvertakersFollow ==
  ASSUME HistorySound, StartedInOrder, Usable = RunIds,
         \A n \in RunIds : history[n].state = "done" /\ ~history[n].again,
         NEW i \in RunIds, NEW j \in RunIds, Overtook(j, i)
  PROVE  j \in Successors(i)
<1>1. /\ i < j /\ history[i].ref = history[j].ref /\ history[j].state # "queued"
      /\ history[i].from = history[i].start /\ history[j].from = history[j].start
      /\ history[i].start \in Nat /\ history[j].start \in Nat /\ i \in Nat /\ j \in Nat
  BY HistorySoundIs DEF SpanSound, Overtook
<1>2. history[i].start < history[j].start
  BY <1>1 DEF StartedInOrder
<1> QED BY <1>1, <1>2 DEF Successors, Follows

\* What the detector says of a run is the overlap with the first of those that follow it.
LEMMA WastedIs ==
  ASSUME HistorySound, NEW i \in Usable
  PROVE  \/ Successors(i) = {} /\ Wasted(i) = 0
         \/ \E j \in Successors(i) :
              /\ Wasted(i) = IF history[j].from < history[i].to THEN history[i].to - history[j].from ELSE 0
              /\ \A n \in Successors(i) : history[j].from <= history[n].from
<1>1. CASE Successors(i) = {}
  BY <1>1 DEF Wasted
<1>2. CASE Successors(i) # {}
  <2> DEFINE S == {history[j].from : j \in Successors(i)}
  <2>1. Successors(i) \subseteq RunIds
    BY DEF Successors, Usable
  <2>2. S \in SUBSET Int /\ S # {}
    BY <1>2, <2>1, HistorySoundIs
  <2>3. IsFiniteSet(S)
    <3>1. IsFiniteSet(RunIds)
      <4>1. Len(history) \in Int /\ 1 \in Int
        BY HistorySoundIs
      <4>2. IsFiniteSet(1 .. Len(history))
        BY <4>1, FS_Interval
      <4> QED BY <4>2 DEF RunIds
    <3>2. IsFiniteSet(Successors(i))
      BY <2>1, <3>1, FS_Subset
    <3> DEFINE f == [j \in Successors(i) |-> history[j].from]
    <3>3. f \in Surjection(Successors(i), S)
      BY DEF Surjection
    <3> HIDE DEF f, S
    <3> QED BY <3>2, <3>3, FS_Surjection
  <2>4. Min(S) \in S /\ \A x \in S : Min(S) <= x
    <3> HIDE DEF S
    <3> QED BY <2>2, <2>3, MinIsSmallest
  <2>5. PICK j \in Successors(i) : Min(S) = history[j].from
    BY <2>4
  <2>6. Wasted(i) = IF history[j].from < history[i].to THEN history[i].to - history[j].from ELSE 0
    BY <1>2, <2>5 DEF Wasted
  <2>7. \A n \in Successors(i) : history[j].from <= history[n].from
    BY <2>4, <2>5
  <2> QED BY <2>6, <2>7
<1> QED BY <1>1, <1>2

\* The waste of a superseded run is no more than cancelling would have saved of it, and all of it once the
\* runs are over, for any number of runs that start in order; as long as those that are older show
\* their first job (find_superseded_runs, NoRunCancellationDetector.run).
THEOREM WasteIsSavedHolds == CancelSpec => []WasteIsSaved
<1>1. HistorySound /\ BurntIsOverlap => WasteIsSaved
  <2> SUFFICES ASSUME HistorySound, BurntIsOverlap, StartedInOrder PROVE WasteIsSaved
    BY DEF WasteIsSaved
  <2>0. \A i \in RunIds : /\ burnt[i] \in Nat /\ history[i].start \in Nat /\ history[i].from \in Nat /\ history[i].to \in Nat
                          /\ history[i].end \in Nat /\ now \in Nat /\ SpanSound(history[i], now)
                          /\ history[i].state \in {"queued", "running", "done"}
                          /\ ~history[i].again => Burning(i)
    BY HistorySoundIs DEF BurntIsOverlap
  <2>1. ASSUME NEW i \in Usable, ~history[i].again, OlderShown(i) PROVE Wasted(i) <= burnt[i]
    <3>1. i \in RunIds /\ history[i].state # "queued" /\ Burning(i) /\ Successors(i) \subseteq RunIds
      BY <2>0, <2>1 DEF Usable, SpanSound, Successors
    <3>2. history[i].to <= Until(i) /\ Until(i) \in Nat
      BY <2>0, <2>1, <3>1 DEF Until, SpanSound
    <3>3. \A j \in Successors(i) : history[i].to <= burnt[i] + history[j].from
      <4> TAKE j \in Successors(i)
      <4>1. Overtook(j, i) /\ history[j].start <= history[j].from
        BY <2>1, FollowersOvertake
      <4>2. Until(i) <= burnt[i] + history[j].start
        BY <3>1, <4>1 DEF Burning
      <4>3. burnt[i] \in Nat /\ history[j].start \in Nat /\ history[j].from \in Nat /\ history[i].to \in Nat
        BY <2>0, <3>1
      <4> QED BY <3>2, <4>1, <4>2, <4>3
    <3>4. CASE Successors(i) = {}
      BY <2>0, <3>1, <3>4 DEF Wasted
    <3>5. CASE Successors(i) # {}
      <4>1. PICK j \in Successors(i) :
              Wasted(i) = IF history[j].from < history[i].to THEN history[i].to - history[j].from ELSE 0
        BY <3>5, WastedIs
      <4>2. burnt[i] \in Nat /\ history[j].from \in Nat /\ history[i].to \in Nat /\ history[i].to <= burnt[i] + history[j].from
        BY <2>0, <3>1, <3>3
      <4> QED BY <4>1, <4>2
    <3> QED BY <3>4, <3>5
  <2>2. ASSUME Usable = RunIds, \A i \in RunIds : history[i].state = "done" /\ ~history[i].again, NEW i \in RunIds
        PROVE  Wasted(i) = burnt[i]
    <3>1. /\ i \in Usable /\ Burning(i) /\ history[i].state # "queued" /\ Until(i) = history[i].to
          /\ Successors(i) \subseteq RunIds
          /\ \A j \in RunIds : history[j].from = history[j].start
      BY <2>0, <2>2 DEF Until, SpanSound, Successors
    <3>2. OlderShown(i)
      BY <2>2, <3>1 DEF OlderShown
    <3>3. Wasted(i) <= burnt[i]
      BY <2>1, <2>2, <3>1, <3>2
    <3>4. CASE burnt[i] = 0
      <4>1. Wasted(i) \in Nat
        <5>1. CASE Successors(i) = {}
          BY <5>1 DEF Wasted
        <5>2. CASE Successors(i) # {}
          <6>1. PICK j \in Successors(i) :
                  Wasted(i) = IF history[j].from < history[i].to THEN history[i].to - history[j].from ELSE 0
            BY <3>1, <5>2, WastedIs
          <6>2. history[j].from \in Nat /\ history[i].to \in Nat
            BY <2>0, <3>1
          <6> QED BY <6>1, <6>2
        <5> QED BY <5>1, <5>2
      <4> QED BY <3>3, <3>4, <4>1
    <3>5. CASE burnt[i] # 0
      <4>1. PICK k \in RunIds : Overtook(k, i) /\ burnt[i] + history[k].start = history[i].to
        BY <3>1, <3>5 DEF Burning
      <4>2. k \in Successors(i)
        BY <2>2, <4>1, OvertakersFollow
      <4>3. PICK j \in Successors(i) :
              /\ Wasted(i) = IF history[j].from < history[i].to THEN history[i].to - history[j].from ELSE 0
              /\ \A n \in Successors(i) : history[j].from <= history[n].from
        BY <3>1, <4>2, WastedIs
      <4>4. history[j].from <= history[k].start
        BY <3>1, <4>2, <4>3
      <4>5. /\ burnt[i] \in Nat /\ history[k].start \in Nat /\ history[j].from \in Nat /\ history[i].to \in Nat
        BY <2>0, <3>1
      <4>6. burnt[i] <= Wasted(i)
        BY <3>5, <4>1, <4>3, <4>4, <4>5
      <4>7. Wasted(i) \in Nat
        BY <4>3, <4>5
      <4> QED BY <3>3, <4>5, <4>6, <4>7
    <3> QED BY <3>4, <3>5
  <2> QED BY <2>1, <2>2 DEF WasteIsSaved
<1> QED BY <1>1, BurntInv, PTL

-----------------------------------------------------------------------------
(* The text of a workflow, and the block inserted into it. *)

Line == [kind : LineKinds, end : Ends]

LEMMA TextsAreLines ==
  ASSUME NEW t \in Texts
  PROVE  t \in Seq(Line) /\ Len(t) \in Nat /\ DOMAIN t = 1 .. Len(t)
<1>1. PICK f \in Layouts : \E e \in [DOMAIN f -> Ends] : t = [n \in DOMAIN f |-> [kind |-> f[n], end |-> e[n]]]
  BY DEF Texts
<1>2. PICK e \in [DOMAIN f -> Ends] : t = [n \in DOMAIN f |-> [kind |-> f[n], end |-> e[n]]]
  BY <1>1
<1>3. f \in Seq(LineKinds)
  BY CancelAssumption
<1>4. Len(f) \in Nat /\ DOMAIN f = 1 .. Len(f) /\ \A n \in 1 .. Len(f) : f[n] \in LineKinds
  BY <1>3
<1>5. \A n \in 1 .. Len(f) : [kind |-> f[n], end |-> e[n]] \in Line
  BY <1>4 DEF Line
<1>6. t = [n \in 1 .. Len(f) |-> [kind |-> f[n], end |-> e[n]]]
  BY <1>2, <1>4
<1> QED BY <1>4, <1>5, <1>6

\* A text the fixer takes up: one `jobs:`, no block and no deployment.
Fixable1(t) ==
  /\ t \in Texts
  /\ "concurrency" \notin ToSet(Kinds(t)) /\ ~DeployReason(t)
  /\ Cardinality({n \in DOMAIN t : t[n].kind = "jobs"}) = 1

JobsLine(t) == Min({n \in DOMAIN t : t[n].kind = "jobs"})

LEMMA InsertLineIs ==
  ASSUME NEW t, Fixable1(t)
  PROVE  /\ JobsLine(t) \in 1 .. Len(t) /\ t[JobsLine(t)].kind = "jobs"
         /\ InsertLine(t) \in 0 .. JobsLine(t) - 1
         /\ \A n \in InsertLine(t) + 1 .. JobsLine(t) - 1 : t[n].kind = "comment"
<1> DEFINE J == {n \in DOMAIN t : t[n].kind = "jobs"}
           j == JobsLine(t)
           C == {n \in 1 .. j - 1 : t[n].kind # "comment"}
<1>1. Len(t) \in Nat /\ DOMAIN t = 1 .. Len(t)
  BY TextsAreLines DEF Fixable1
<1>2. IsFiniteSet(1 .. Len(t))
  BY <1>1, FS_Interval
<1>3. IsFiniteSet(J) /\ J \in SUBSET Int
  BY <1>1, <1>2, FS_Subset
<1>4. J # {}
  BY FS_EmptySet DEF Fixable1
<1>5. j \in J
  <2>1. Min(J) \in J
    <3> HIDE DEF J
    <3> QED BY <1>3, <1>4, MinIsSmallest
  <2> QED BY <2>1 DEF JobsLine
<1>6. j \in 1 .. Len(t) /\ t[j].kind = "jobs"
  BY <1>1, <1>5
<1> HIDE DEF j, J
<1>7. C \in SUBSET (1 .. j - 1) /\ j - 1 \in Nat
  BY <1>6
<1>8. /\ Max({0} \cup C) \in 0 .. j - 1 /\ \A x \in C : x <= Max({0} \cup C)
  <2> HIDE DEF C
  <2> QED BY <1>7, MaxPosition
<1>9. InsertLine(t) = Max({0} \cup C)
  BY DEF InsertLine, j, JobsLine
<1>10. InsertLine(t) \in 0 .. j - 1 /\ \A n \in InsertLine(t) + 1 .. j - 1 : n \notin C
  <2> HIDE DEF C
  <2>1. InsertLine(t) \in 0 .. j - 1 /\ \A x \in C : x <= InsertLine(t)
    BY <1>8, <1>9
  <2>2. \A n \in InsertLine(t) + 1 .. j - 1 : ~(n <= InsertLine(t))
    BY <1>7, <2>1
  <2> QED BY <2>1, <2>2
<1>11. \A n \in InsertLine(t) + 1 .. j - 1 : t[n].kind = "comment"
  <2> TAKE n \in InsertLine(t) + 1 .. j - 1
  <2>1. n \in 1 .. j - 1 /\ n \notin C
    BY <1>10, <1>6
  <2> QED BY <2>1
<1> QED BY <1>6, <1>10, <1>11 DEF j

\* The block goes in somewhere, and at its place if the endings are of one kind.
LEMMA InsertPosIs ==
  ASSUME NEW t, Fixable1(t), NEW at \in 0 .. Len(t)
  PROVE  /\ InsertPos(t, at) \in 0 .. Len(t)
         /\ (\E e \in Ends : \A n \in DOMAIN t : t[n].end = e) => InsertPos(t, at) = at
<1> DEFINE R == {n \in DOMAIN t : t[n].end = "crlf"}
           P == {n \in R : Cardinality({m \in R : m <= n}) <= at}
<1>1. Len(t) \in Nat /\ DOMAIN t = 1 .. Len(t) /\ at \in Nat
  BY TextsAreLines DEF Fixable1
<1>2. Cardinality(1 .. Len(t)) = Len(t)
  <2> HIDE DEF R, P
  <2> QED BY <1>1, CountTo
<1>3. R \subseteq 1 .. Len(t)
  BY <1>1
<1>4. P \in SUBSET (1 .. Len(t))
  <2> HIDE DEF R
  <2> QED BY <1>3
<1>5. PICK M : M = Max({0} \cup P) /\ M \in 0 .. Len(t) /\ (\A x \in P : x <= M) /\ (M = 0 \/ M \in P)
  <2> HIDE DEF P
  <2> QED BY <1>1, <1>4, MaxPosition
<1>6. InsertPos(t, at) = CASE R = {} -> at [] R # {} /\ at <= Cardinality(R) -> M [] OTHER -> Len(t)
  <2>1. InsertPos(t, at) = CASE R = {} -> at [] R # {} /\ at <= Cardinality(R) -> Max({0} \cup P) [] OTHER -> Len(t)
    BY Zenon DEF InsertPos
  <2> QED BY <1>5, <2>1
<1> HIDE DEF R, P
<1>7. InsertPos(t, at) \in 0 .. Len(t)
  <2>1. M \in 0 .. Len(t)
    BY <1>5
  <2>2. Len(t) \in 0 .. Len(t)
    BY <1>1
  <2>3. CASE R = {}
    BY <1>6, <2>3
  <2>4. CASE R # {} /\ at <= Cardinality(R)
    BY <1>6, <2>1, <2>4
  <2>5. CASE R # {} /\ ~(at <= Cardinality(R))
    BY <1>6, <2>2, <2>5
  <2> QED BY <2>3, <2>4, <2>5
<1>8. ASSUME NEW e \in Ends, \A n \in DOMAIN t : t[n].end = e PROVE InsertPos(t, at) = at
  <2>1. CASE e # "crlf"
    <3>1. R = {}
      BY <1>8, <2>1 DEF R
    <3> QED BY <1>6, <3>1
  <2>2. CASE e = "crlf"
    <3>1. R = 1 .. Len(t)
      BY <1>1, <1>8, <2>2 DEF R
    <3>2. \A n \in 1 .. Len(t) : Cardinality({m \in R : m <= n}) = n
      <4> TAKE n \in 1 .. Len(t)
      <4>1. {m \in R : m <= n} = 1 .. n
        BY <1>1, <3>1
      <4>2. Cardinality(1 .. n) = n
        BY CountTo
      <4> QED BY <4>1, <4>2
    <3>3. P = {n \in 1 .. Len(t) : n <= at}
      BY <3>1, <3>2 DEF P
    <3>4. P = 1 .. at
      BY <1>1, <3>3
    <3>5. M = at
      <4>1. at # 0 => at \in P
        BY <1>1, <3>4
      <4>2. \A x \in P : x <= at
        BY <1>1, <3>4
      <4>3. M <= at
        BY <1>1, <1>4, <1>5, <4>2
      <4>4. at <= M
        <5>1. CASE at = 0
          BY <1>5, <5>1
        <5>2. CASE at # 0
          <6>1. at \in P
            BY <4>1, <5>2
          <6> QED BY <1>5, <6>1
        <5> QED BY <5>1, <5>2
      <4> QED BY <1>1, <1>5, <4>3, <4>4
    <3>6. CASE Len(t) = 0
      <4>1. R = {} 
        BY <3>1, <3>6
      <4> QED BY <1>6, <4>1
    <3>7. CASE Len(t) # 0
      <4>1. R # {} /\ at <= Cardinality(R)
        BY <1>1, <1>2, <3>1, <3>7
      <4> QED BY <1>6, <3>5, <4>1
    <3> QED BY <3>6, <3>7
  <2> QED BY <2>1, <2>2
<1> QED BY <1>7, <1>8

\* Line by line, what the block does.
LEMMA WithBlockIs ==
  ASSUME NEW t, Fixable1(t)
  PROVE  LET p == InsertPos(t, InsertLine(t))
             u == WithBlock(t)
         IN  /\ p \in 0 .. Len(t) /\ Len(u) = Len(t) + 3 /\ DOMAIN u = 1 .. Len(t) + 3
             /\ \A n \in 1 .. p : u[n] = t[n]
             /\ u[p + 1].kind = "concurrency" /\ u[p + 2].kind = "child" /\ u[p + 3].kind = "child"
             /\ \A n \in p + 1 .. Len(t) : u[n + 3] = t[n]
<1> DEFINE p == InsertPos(t, InsertLine(t))
           u == WithBlock(t)
           b == Block(t)
           end == IF \E n \in DOMAIN t : t[n].end = "crlf" THEN "crlf" ELSE "lf"
           Parts == {t[n] : n \in 1 .. Len(t)} \cup {b[n] : n \in 1 .. 3}
<1>1. t \in Seq(Line) /\ Len(t) \in Nat /\ DOMAIN t = 1 .. Len(t)
  BY TextsAreLines DEF Fixable1
<1>2. InsertLine(t) \in 0 .. Len(t)
  BY <1>1, InsertLineIs
<1>3. p \in 0 .. Len(t)
  BY <1>2, InsertPosIs
<1>4. b = [n \in 1 .. 3 |-> [kind |-> IF n = 1 THEN "concurrency" ELSE "child", end |-> end]]
  BY DEF Block
<1>5. b[1].kind = "concurrency" /\ b[2].kind = "child" /\ b[3].kind = "child" /\ b \in Seq(Parts) /\ Len(b) = 3
  <2> HIDE DEF end
  <2>1. b[1].kind = "concurrency" /\ b[2].kind = "child" /\ b[3].kind = "child"
    BY <1>4
  <2>2. b \in Seq(Parts) /\ Len(b) = 3
    BY <1>4
  <2> QED BY <2>1, <2>2
<1>6. t \in Seq(Parts)
  BY <1>1
<1>7. u = SubSeq(t, 1, p) \o b \o SubSeq(t, p + 1, Len(t))
  BY DEF WithBlock
<1> HIDE DEF p, u, b, Parts
<1>8. /\ SubSeq(t, 1, p) \in Seq(Parts) /\ Len(SubSeq(t, 1, p)) = p /\ \A n \in 1 .. p : SubSeq(t, 1, p)[n] = t[n]
      /\ SubSeq(t, p + 1, Len(t)) \in Seq(Parts) /\ Len(SubSeq(t, p + 1, Len(t))) = Len(t) - p
      /\ \A n \in 1 .. Len(t) - p : SubSeq(t, p + 1, Len(t))[n] = t[n + p]
  <2>1. p \in 0 .. Len(t)
    BY <1>1, <1>3
  <2> QED BY <1>6, <2>1, CutIs
<1> DEFINE x == SubSeq(t, 1, p)
           z == SubSeq(t, p + 1, Len(t))
<1> HIDE DEF x, z
<1>10. u = (x \o b) \o z /\ x \in Seq(Parts) /\ z \in Seq(Parts) /\ Len(x) = p /\ Len(z) = Len(t) - p
       /\ (\A n \in 1 .. p : x[n] = t[n]) /\ \A n \in 1 .. Len(t) - p : z[n] = t[n + p]
  BY <1>7, <1>8 DEF x, z
<1>11. /\ x \o b \in Seq(Parts) /\ Len(x \o b) = p + 3 /\ (\A n \in 1 .. p : (x \o b)[n] = t[n])
       /\ (x \o b)[p + 1] = b[1] /\ (x \o b)[p + 2] = b[2] /\ (x \o b)[p + 3] = b[3]
  <2>1. /\ Len(x \o b) = Len(x) + Len(b) /\ x \o b \in Seq(Parts)
        /\ (\A n \in 1 .. Len(x) : (x \o b)[n] = x[n]) /\ \A n \in 1 .. Len(b) : (x \o b)[Len(x) + n] = b[n]
    <3>1. x \in Seq(Parts) /\ b \in Seq(Parts)
      BY <1>5, <1>10
    <3> QED BY <3>1, ConcatIs
  <2>2. 1 \in 1 .. Len(b) /\ 2 \in 1 .. Len(b) /\ 3 \in 1 .. Len(b)
    BY <1>5
  <2> QED BY <1>5, <1>10, <2>1, <2>2
<1> DEFINE y == x \o b
<1> HIDE DEF y
<1>12. u = y \o z /\ y \in Seq(Parts) /\ Len(y) = p + 3 /\ (\A n \in 1 .. p : y[n] = t[n])
       /\ y[p + 1] = b[1] /\ y[p + 2] = b[2] /\ y[p + 3] = b[3]
  BY <1>10, <1>11 DEF y
<1>13. /\ u \in Seq(Parts) /\ Len(u) = Len(t) + 3
       /\ \A n \in 1 .. p + 3 : u[n] = y[n]
       /\ \A n \in 1 .. Len(t) - p : u[p + 3 + n] = z[n]
  <2>1. /\ Len(y \o z) = Len(y) + Len(z) /\ y \o z \in Seq(Parts)
        /\ (\A n \in 1 .. Len(y) : (y \o z)[n] = y[n]) /\ \A n \in 1 .. Len(z) : (y \o z)[Len(y) + n] = z[n]
    <3>1. y \in Seq(Parts) /\ z \in Seq(Parts)
      BY <1>10, <1>12
    <3> QED BY <3>1, ConcatIs
  <2>2. Len(t) \in Nat /\ p \in Nat
    BY <1>1, <1>3
  <2>3. u = y \o z /\ Len(y) = p + 3 /\ Len(z) = Len(t) - p
    BY <1>10, <1>12
  <2>4. u \in Seq(Parts) /\ Len(u) = (p + 3) + (Len(t) - p)
    BY <2>1, <2>3
  <2>5. Len(u) = Len(t) + 3
    BY <2>2, <2>4
  <2>6. \A n \in 1 .. p + 3 : u[n] = y[n]
    BY <2>1, <2>3
  <2>7. \A n \in 1 .. Len(t) - p : u[p + 3 + n] = z[n]
    BY <2>1, <2>3
  <2> QED BY <2>4, <2>5, <2>6, <2>7
<1>14. DOMAIN u = 1 .. Len(t) + 3
  BY <1>13
<1>15. \A n \in 1 .. p : u[n] = t[n]
  BY <1>3, <1>12, <1>13
<1>16. u[p + 1] = b[1] /\ u[p + 2] = b[2] /\ u[p + 3] = b[3]
  BY <1>3, <1>12, <1>13
<1>17. ASSUME NEW n \in p + 1 .. Len(t) PROVE u[n + 3] = t[n]
  <2>1. n - p \in 1 .. Len(t) - p /\ p + 3 + (n - p) = n + 3 /\ (n - p) + p = n
    BY <1>1, <1>3
  <2>2. u[p + 3 + (n - p)] = t[(n - p) + p]
    BY <1>10, <1>13, <2>1
  <2> QED BY <2>1, <2>2
<1> QED BY <1>3, <1>5, <1>13, <1>14, <1>15, <1>16, <1>17 DEF p, u

LEMMA KindThere ==
  ASSUME NEW t, NEW kind
  PROVE  kind \in ToSet(Kinds(t)) <=> \E n \in DOMAIN t : t[n].kind = kind
BY DEF Kinds, ToSet

\* Where the block stands: right above `jobs:` and its comments.
AboveJobs(u) ==
  LET at == Min({n \in DOMAIN u : u[n].kind = "concurrency"})
  IN  \E n \in at .. Len(u) : u[n].kind = "jobs" /\ \A m \in at + 3 .. n - 1 : u[m].kind = "comment"

LEMMA BlockStandsAboveJobs ==
  ASSUME NEW t, Fixable1(t), NEW e \in Ends, \A n \in DOMAIN t : t[n].end = e
  PROVE  AboveJobs(WithBlock(t))
<1> DEFINE u == WithBlock(t)
           p == InsertLine(t)
           j == JobsLine(t)
           At == {n \in DOMAIN u : u[n].kind = "concurrency"}
<1>1. Len(t) \in Nat /\ DOMAIN t = 1 .. Len(t)
  BY TextsAreLines DEF Fixable1
<1>2. /\ j \in 1 .. Len(t) /\ t[j].kind = "jobs" /\ p \in 0 .. j - 1
      /\ \A n \in p + 1 .. j - 1 : t[n].kind = "comment"
  BY InsertLineIs
<1>3. p \in 0 .. Len(t)
  BY <1>1, <1>2
<1>4. InsertPos(t, p) = p
  BY <1>3, InsertPosIs
<1>5. /\ Len(u) = Len(t) + 3 /\ DOMAIN u = 1 .. Len(t) + 3
      /\ \A n \in 1 .. p : u[n] = t[n]
      /\ u[p + 1].kind = "concurrency"
      /\ \A n \in p + 1 .. Len(t) : u[n + 3] = t[n]
  BY <1>4, WithBlockIs
<1>6. \A n \in 1 .. Len(t) : t[n].kind # "concurrency"
  BY <1>1, KindThere DEF Fixable1
<1> HIDE DEF u, p, j
<1>7. p + 1 \in At /\ \A n \in At : p + 1 <= n
  <2>1. p + 1 \in At
    BY <1>1, <1>3, <1>5
  <2>2. \A n \in At : p + 1 <= n
    <3> SUFFICES ASSUME NEW n \in At, n < p + 1 PROVE FALSE
      BY <1>3, <1>5
    <3>1. n \in 1 .. p
      BY <1>3, <1>5
    <3>2. n \in 1 .. Len(t)
      BY <1>1, <1>3, <3>1
    <3> QED BY <1>5, <1>6, <3>1, <3>2
  <2> QED BY <2>1, <2>2
<1>8. At \in SUBSET Int /\ IsFiniteSet(At) /\ At # {}
  <2>1. Len(t) + 3 \in Nat
    BY <1>1
  <2>2. IsFiniteSet(1 .. Len(t) + 3)
    BY <2>1, CountTo
  <2>3. At \subseteq 1 .. Len(t) + 3
    BY <1>5
  <2>4. IsFiniteSet(At)
    <3> HIDE DEF At
    <3> QED BY <2>2, <2>3, FS_Subset
  <2> QED BY <1>7, <2>3, <2>4
<1>9. Min(At) = p + 1
  <2> HIDE DEF At
  <2>1. Min(At) \in At /\ \A x \in At : Min(At) <= x
    BY <1>8, MinIsSmallest
  <2>2. Min(At) \in Int /\ p + 1 \in Int /\ p + 1 <= Min(At) /\ Min(At) <= p + 1
    BY <1>3, <1>7, <1>8, <2>1
  <2> QED BY <2>2
<1>10. j + 3 \in p + 1 .. Len(u) /\ u[j + 3].kind = "jobs"
  <2>1. j \in p + 1 .. Len(t)
    BY <1>1, <1>2
  <2> QED BY <1>1, <1>2, <1>3, <1>5, <2>1
<1>11. ASSUME NEW m \in (p + 1) + 3 .. (j + 3) - 1 PROVE u[m].kind = "comment"
  <2>1. m - 3 \in p + 1 .. j - 1 /\ m - 3 \in p + 1 .. Len(t) /\ (m - 3) + 3 = m
    BY <1>1, <1>2, <1>3
  <2> QED BY <1>2, <1>5, <2>1
<1>12. \E n \in p + 1 .. Len(u) : u[n].kind = "jobs" /\ \A m \in (p + 1) + 3 .. n - 1 : u[m].kind = "comment"
  BY <1>10, <1>11
<1> QED BY <1>9, <1>12 DEF AboveJobs, u

LEMMA FixesStickOnce ==
  ASSUME NEW t \in Texts, NEW u \in CancelFixes(t)
  PROVE  /\ CancelFixes(u) = {} /\ ~DeployReason(u)
         /\ \A key \in {"on", "jobs"} : Children(u, key) = Children(t, key)
         /\ (\E e \in Ends : \A n \in DOMAIN t : t[n].end = e) => AboveJobs(u)
<1>1. Fixable1(t) /\ u = WithBlock(t) /\ Verified(t, u)
  BY DEF CancelFixes, Fixable1
<1> DEFINE p == InsertPos(t, InsertLine(t))
<1>2. Len(t) \in Nat /\ DOMAIN t = 1 .. Len(t)
  BY TextsAreLines
<1>3. /\ p \in 0 .. Len(t) /\ DOMAIN u = 1 .. Len(t) + 3
      /\ \A n \in 1 .. p : u[n] = t[n]
      /\ u[p + 1].kind = "concurrency" /\ u[p + 2].kind = "child" /\ u[p + 3].kind = "child"
      /\ \A n \in p + 1 .. Len(t) : u[n + 3] = t[n]
  BY <1>1, WithBlockIs
<1> HIDE DEF p
<1>4. "concurrency" \in ToSet(Kinds(u))
  <2>1. p + 1 \in DOMAIN u
    BY <1>2, <1>3
  <2> QED BY <1>3, <2>1, KindThere
<1>5. ~DeployReason(u)
  <2> SUFFICES ASSUME NEW n \in DOMAIN u, u[n].kind = "deploy" PROVE FALSE
    BY KindThere DEF DeployReason
  <2>1. \A m \in 1 .. Len(t) : t[m].kind # "deploy"
    BY <1>1, <1>2, KindThere DEF Fixable1, DeployReason
  <2>2. n \in 1 .. p \/ n = p + 1 \/ n = p + 2 \/ n = p + 3 \/ n - 3 \in p + 1 .. Len(t)
    BY <1>2, <1>3
  <2>3. CASE n \in 1 .. p
    <3>1. n \in 1 .. Len(t)
      BY <1>2, <1>3, <2>3
    <3> QED BY <1>3, <2>1, <2>3, <3>1
  <2>4. CASE n \in {p + 1, p + 2, p + 3}
    BY <1>3, <2>4
  <2>5. CASE n - 3 \in p + 1 .. Len(t)
    <3>1. n - 3 \in 1 .. Len(t) /\ (n - 3) + 3 = n
      BY <1>2, <1>3, <2>5
    <3> QED BY <1>3, <2>1, <2>5, <3>1
  <2> QED BY <2>2, <2>3, <2>4, <2>5
<1>6. CancelFixes(u) = {}
  BY <1>4 DEF CancelFixes
<1>7. \A key \in {"on", "jobs"} : Children(u, key) = Children(t, key)
  BY <1>1 DEF Verified
<1> QED BY <1>1, <1>5, <1>6, <1>7, BlockStandsAboveJobs

\* The text is one there is, or one with the block of its fix.
Mended ==
  \/ mended = {} /\ text \in Texts
  \/ \E t \in Texts : mended = {t} /\ text \in CancelFixes(t)

LEMMA MendedInv == CancelSpec => []Mended
<1>1. CancelInit => Mended
  BY DEF CancelInit, Mended
<1>2. Mended /\ [RunNext \/ TextNext]_cancelVars => Mended'
  <2> SUFFICES ASSUME Mended, [RunNext \/ TextNext]_cancelVars PROVE Mended'
    OBVIOUS
  <2>1. CASE MergeBlock
    <3>1. CASE text \in Texts /\ mended = {}
      BY <2>1, <3>1 DEF MergeBlock, Mended
    <3>2. ASSUME NEW t \in Texts, text \in CancelFixes(t) PROVE FALSE
      <4>1. CancelFixes(text) = {}
        BY <3>2, FixesStickOnce
      <4> QED BY <2>1, <4>1 DEF MergeBlock
    <3> QED BY <3>1, <3>2 DEF Mended
  <2>2. CASE RewriteFile
    BY <2>2 DEF RewriteFile, Mended
  <2>3. CASE RunNext \/ UNCHANGED cancelVars
    <3>1. text' = text /\ mended' = mended
      BY <2>3 DEF RunNext, CreateRun, StartRun, FinishJob, FinishRun, Rerun, Second, Keep, cancelVars
    <3> QED BY <3>1 DEF Mended, Texts, CancelFixes
  <2> QED BY <2>1, <2>2, <2>3 DEF TextNext
<1> QED BY <1>1, <1>2, PTL DEF CancelSpec

\* A merged concurrency block is there to stay, takes nothing from jobs and triggers, and stands above
\* `jobs:` where line endings are of one kind, in every text (_plan_insertion, _verify).
THEOREM CancelFixSticksHolds == CancelSpec => []CancelFixSticks
<1>1. ASSUME Mended PROVE CancelFixSticks
  <2>1. CASE mended = {}
    BY <2>1 DEF CancelFixSticks
  <2>2. ASSUME NEW t \in Texts, mended = {t}, text \in CancelFixes(t) PROVE CancelFixSticks
    <3>1. /\ CancelFixes(text) = {} /\ ~DeployReason(text)
          /\ \A key \in {"on", "jobs"} : Children(text, key) = Children(t, key)
      BY <2>2, FixesStickOnce
    <3>2. (\E e \in Ends : \A n \in DOMAIN t : t[n].end = e) => AboveJobs(text)
      BY <2>2, FixesStickOnce
    <3> QED BY <2>2, <3>1, <3>2 DEF CancelFixSticks, AboveJobs
  <2> QED BY <1>1, <2>1, <2>2 DEF Mended
<1> QED BY <1>1, MendedInv, PTL

-----------------------------------------------------------------------------
(* IgnoreRules: an audit leaves nothing that matches unsuppressed. *)

\* What names a finding matches it.
LEMMA NamesMatch ==
  ASSUME NEW n \in DOMAIN Targets, NEW k \in Keys, Names(Targets[n], k)
  PROVE  Matches(Targets[n], k)
<1> DEFINE t == Targets[n]
<1>1. t \in Seq(STRING) /\ Len(t) \in 1 .. 3 /\ k.parts \in Seq(STRING)
  BY IgnoreAssumption
<1>2. t[1] = k.kind /\ \A m \in 2 .. Len(t) : t[m] = "" \/ (m <= Len(k.parts) /\ t[m] = k.parts[m])
  BY DEF Names
<1>3. \A m \in 2 .. 3 : PartOf(t, m) = "" \/ PartOf(t, m) \in ToSet(k.parts)
  <2> TAKE m \in 2 .. 3
  <2>1. CASE m <= Len(t)
    <3>1. m \in 2 .. Len(t) /\ PartOf(t, m) = t[m]
      BY <1>1, <2>1 DEF PartOf
    <3>2. ASSUME m <= Len(k.parts), t[m] = k.parts[m] PROVE t[m] \in ToSet(k.parts)
      BY <1>1, <3>2 DEF ToSet
    <3> QED BY <1>2, <3>1, <3>2
  <2>2. CASE ~(m <= Len(t))
    BY <2>2 DEF PartOf
  <2> QED BY <2>1, <2>2
<1> HIDE DEF t
<1>4. Matches(t, k)
  <2>1. 2 \in 2 .. 3 /\ 3 \in 2 .. 3
    OBVIOUS
  <2>2. (PartOf(t, 2) = "" \/ PartOf(t, 2) \in ToSet(k.parts)) /\ (PartOf(t, 3) = "" \/ PartOf(t, 3) \in ToSet(k.parts))
    BY <1>3, <2>1
  <2> QED BY <1>2, <2>2 DEF Matches
<1> QED BY <1>4 DEF t

PolicyApplied ==
  /\ declared \subseteq DOMAIN Targets /\ current \subseteq DOMAIN Targets
  /\ \A k \in Keys : \A n \in current : Matches(Targets[n], k) => k \in DOMAIN silenced

LEMMA PolicyAppliedInv == IgnoreSpec => []PolicyApplied
<1>1. IgnoreInit => PolicyApplied
  BY DEF IgnoreInit, PolicyApplied
<1>2. PolicyApplied /\ [IgnoreNext]_ignoreVars => PolicyApplied'
  <2> SUFFICES ASSUME PolicyApplied, [IgnoreNext]_ignoreVars PROVE PolicyApplied'
    OBVIOUS
  <2>1. ASSUME NEW n \in DOMAIN Targets, Declare(n) \/ Withdraw(n) PROVE PolicyApplied'
    BY <2>1 DEF Declare, Withdraw, PolicyApplied
  <2>2. CASE AuditPolicy
    <3>1. current' = declared /\ UNCHANGED declared
      BY <2>2 DEF AuditPolicy
    <3>2. DOMAIN silenced' = {k \in Keys \ DOMAIN silenced : {n \in declared : Matches(Targets[n], k)} # {}} \cup DOMAIN silenced
      BY <2>2 DEF AuditPolicy
    <3>3. \A k \in Keys : \A n \in declared : Matches(Targets[n], k) => k \in DOMAIN silenced'
      BY <3>2
    <3> QED BY <3>1, <3>3 DEF PolicyApplied, Matches, PartOf
  <2>3. ASSUME NEW k \in Keys, SuppressFinding(k) PROVE PolicyApplied'
    <3>1. DOMAIN silenced' = DOMAIN silenced \cup {k}
      BY <2>3 DEF SuppressFinding
    <3> QED BY <2>3, <3>1 DEF SuppressFinding, PolicyApplied
  <2>4. ASSUME NEW k \in Keys, Unsuppress(k) PROVE PolicyApplied'
    BY <2>4 DEF Unsuppress, PolicyApplied
  <2>5. CASE UNCHANGED ignoreVars
    BY <2>5 DEF ignoreVars, PolicyApplied
  <2> QED BY <2>1, <2>2, <2>3, <2>4, <2>5 DEF IgnoreNext
<1> QED BY <1>1, <1>2, PTL DEF IgnoreSpec

\* What the repository names is not proposed, and is suppressed from the audit that read it on, in any
\* order of audits, previews and changes of mind (suppress.apply, CacheFixer.preview).
THEOREM PolicyIsHonouredHolds == IgnoreSpec => []PolicyIsHonoured
<1>1. PolicyApplied => PolicyIsHonoured
  BY NamesMatch DEF PolicyApplied, PolicyIsHonoured, Declined
<1> QED BY <1>1, PolicyAppliedInv, PTL

-----------------------------------------------------------------------------
(* HistoryRules: an attempt whose run was recorded is never later than the one that counts. *)

Ended == [flow : Flows, failed : Seq(SUBSET Legs)]
Stored == [attempt : Nat, path : BOOLEAN, jobs : SUBSET Nat, told : SUBSET Nat]

AttemptsKept ==
  /\ ledger \in Seq(Ended) /\ rows \in Seq(Stored)
  /\ Len(rows) = Len(ledger) /\ Len(ledger) <= MaxLedger
  /\ \A n \in 1 .. Len(ledger) :
       /\ rows[n].attempt <= Len(ledger[n].failed)
       /\ rows[n].jobs \cup rows[n].told \subseteq 1 .. Len(ledger[n].failed)
       /\ \A a \in rows[n].told : a <= rows[n].attempt

LEMMA LaterAttempt ==
  ASSUME NEW m \in Nat, NEW a \in Nat
  PROVE  Max({m, a}) \in {m, a} /\ Max({m, a}) >= m /\ Max({m, a}) >= a
<1>1. IsFiniteSet({a})
  BY FS_Singleton
<1>2. {m, a} = {m} \cup {a} /\ {a} \in SUBSET Int
  OBVIOUS
<1>3. Max({m} \cup {a}) >= m /\ a <= Max({m} \cup {a}) /\ (Max({m} \cup {a}) = m \/ Max({m} \cup {a}) \in {a}) /\ Max({m} \cup {a}) \in Int
  BY <1>1, <1>2, MaxWith
<1> QED BY <1>2, <1>3

LEMMA AttemptsKeptInv == HistorySpec => []AttemptsKept
<1>1. HistoryInit => AttemptsKept
  BY HistoryAssumption DEF HistoryInit, AttemptsKept
<1>2. AttemptsKept /\ [HistoryNext]_historyVars => AttemptsKept'
  <2> SUFFICES ASSUME AttemptsKept, [HistoryNext]_historyVars PROVE AttemptsKept'
    OBVIOUS
  <2>0. /\ ledger \in Seq(Ended) /\ rows \in Seq(Stored) /\ MaxLedger \in Nat
        /\ Len(rows) = Len(ledger) /\ Len(ledger) \in Nat /\ DOMAIN ledger = 1 .. Len(ledger)
        /\ \A n \in 1 .. Len(ledger) : ledger[n] \in Ended /\ rows[n] \in Stored /\ DOMAIN ledger[n].failed = 1 .. Len(ledger[n].failed)
    <3>1. ledger \in Seq(Ended) /\ rows \in Seq(Stored) /\ MaxLedger \in Nat /\ Len(rows) = Len(ledger)
      BY HistoryAssumption DEF AttemptsKept
    <3>2. Len(ledger) \in Nat /\ DOMAIN ledger = 1 .. Len(ledger)
          /\ \A n \in 1 .. Len(ledger) : ledger[n] \in Ended /\ rows[n] \in Stored
      BY <3>1
    <3>3. \A run \in Ended : run.failed \in Seq(SUBSET Legs)
      BY DEF Ended
    <3>4. \A run \in Ended : DOMAIN run.failed = 1 .. Len(run.failed)
      BY <3>3
    <3> QED BY <3>1, <3>2, <3>4
  <2>1. ASSUME NEW w \in Flows, NEW failed \in SUBSET Legs, RunEnds(w, failed) PROVE AttemptsKept'
    <3> DEFINE run == [flow |-> w, failed |-> <<failed>>]
               row == [attempt |-> 0, path |-> FALSE, jobs |-> {}, told |-> {}]
    <3>1. run \in Ended /\ row \in Stored /\ Len(run.failed) = 1
      BY DEF Ended, Stored
    <3>2. row.attempt = 0 /\ row.jobs = {} /\ row.told = {}
      OBVIOUS
    <3>3. ledger' = Append(ledger, run) /\ rows' = Append(rows, row) /\ Len(ledger) < MaxLedger
      BY <2>1 DEF RunEnds
    <3> HIDE DEF run, row
    <3>4. /\ ledger' \in Seq(Ended) /\ rows' \in Seq(Stored)
          /\ Len(ledger') = Len(ledger) + 1 /\ Len(rows') = Len(ledger') /\ Len(ledger') <= MaxLedger
          /\ \A n \in 1 .. Len(ledger) : ledger'[n] = ledger[n] /\ rows'[n] = rows[n]
          /\ ledger'[Len(ledger) + 1] = run /\ rows'[Len(ledger) + 1] = row
      BY <2>0, <3>1, <3>3
    <3>5. ASSUME NEW n \in 1 .. Len(ledger')
          PROVE  /\ rows'[n].attempt <= Len(ledger'[n].failed)
                 /\ rows'[n].jobs \cup rows'[n].told \subseteq 1 .. Len(ledger'[n].failed)
                 /\ \A a \in rows'[n].told : a <= rows'[n].attempt
      <4>1. CASE n \in 1 .. Len(ledger)
        BY <3>4, <4>1 DEF AttemptsKept
      <4>2. CASE n = Len(ledger) + 1
        BY <3>1, <3>2, <3>4, <4>2
      <4> QED BY <2>0, <3>4, <4>1, <4>2
    <3> QED BY <3>4, <3>5 DEF AttemptsKept
  <2>2. ASSUME NEW n \in DOMAIN ledger, NEW failed \in SUBSET Legs, RunsAgain(n, failed) PROVE AttemptsKept'
    <3> DEFINE run == [ledger[n] EXCEPT !.failed = Append(@, failed)]
    <3>1. run \in Ended /\ Len(run.failed) = Len(ledger[n].failed) + 1 /\ Len(ledger[n].failed) \in Nat
      <4>1. ledger[n] \in Ended
        BY <2>0
      <4>2. ledger[n].failed \in Seq(SUBSET Legs)
        BY <4>1 DEF Ended
      <4>3. Append(ledger[n].failed, failed) \in Seq(SUBSET Legs) /\ Len(ledger[n].failed) \in Nat
            /\ Len(Append(ledger[n].failed, failed)) = Len(ledger[n].failed) + 1
        BY <4>2
      <4>4. run.failed = Append(ledger[n].failed, failed) /\ run \in Ended
        BY <4>1, <4>3 DEF Ended
      <4> QED BY <4>3, <4>4
    <3>2. ledger' = [ledger EXCEPT ![n] = run] /\ rows' = rows
      BY <2>0, <2>2 DEF RunsAgain
    <3> HIDE DEF run
    <3>3. ledger' \in Seq(Ended) /\ Len(ledger') = Len(ledger)
          /\ \A m \in 1 .. Len(ledger) : ledger'[m] = IF m = n THEN run ELSE ledger[m]
      BY <2>0, <3>1, <3>2
    <3>4. ASSUME NEW m \in 1 .. Len(ledger')
          PROVE  /\ rows[m].attempt <= Len(ledger'[m].failed)
                 /\ rows[m].jobs \cup rows[m].told \subseteq 1 .. Len(ledger'[m].failed)
                 /\ \A a \in rows[m].told : a <= rows[m].attempt
      <4>0. /\ rows[m].attempt <= Len(ledger[m].failed) /\ rows[m].attempt \in Nat
            /\ rows[m].jobs \cup rows[m].told \subseteq 1 .. Len(ledger[m].failed)
            /\ \A a \in rows[m].told : a <= rows[m].attempt
        BY <2>0, <3>3 DEF AttemptsKept, Stored
      <4>1. CASE m = n
        <5>1. Len(ledger'[m].failed) = Len(ledger[m].failed) + 1
          BY <3>1, <3>3, <4>1
        <5> QED BY <3>1, <4>0, <4>1, <5>1
      <4>2. CASE m # n
        BY <3>3, <4>0, <4>2
      <4> QED BY <4>1, <4>2
    <3> QED BY <2>0, <3>2, <3>3, <3>4 DEF AttemptsKept
  <2>3. ASSUME NEW n \in DOMAIN ledger, NEW row \in Stored, UNCHANGED ledger, rows' = [rows EXCEPT ![n] = row],
               row.attempt <= Len(ledger[n].failed),
               row.jobs \cup row.told \subseteq 1 .. Len(ledger[n].failed),
               \A a \in row.told : a <= row.attempt
        PROVE  AttemptsKept'
    <3>1. rows' \in Seq(Stored) /\ Len(rows') = Len(rows) /\ \A m \in 1 .. Len(ledger) : rows'[m] = IF m = n THEN row ELSE rows[m]
      BY <2>0, <2>3
    <3>2. ASSUME NEW m \in 1 .. Len(ledger)
          PROVE  /\ rows'[m].attempt <= Len(ledger[m].failed)
                 /\ rows'[m].jobs \cup rows'[m].told \subseteq 1 .. Len(ledger[m].failed)
                 /\ \A a \in rows'[m].told : a <= rows'[m].attempt
      <4>1. CASE m = n
        BY <2>3, <3>1, <4>1
      <4>2. CASE m # n
        BY <3>1, <4>2 DEF AttemptsKept
      <4> QED BY <4>1, <4>2
    <3> QED BY <2>0, <2>3, <3>1, <3>2 DEF AttemptsKept
  <2>4. ASSUME NEW n \in DOMAIN ledger, NEW a \in DOMAIN ledger[n].failed, StoreRun(n, a) PROVE AttemptsKept'
    <3> DEFINE row == [rows[n] EXCEPT !.attempt = Max({@, a}), !.path = @ \/ rows[n].attempt = 0, !.told = @ \cup {a}]
    <3>0. /\ rows[n] \in Stored /\ rows[n].attempt \in Nat /\ a \in 1 .. Len(ledger[n].failed)
          /\ rows[n].attempt <= Len(ledger[n].failed) /\ Len(ledger[n].failed) \in Nat
          /\ rows[n].jobs \cup rows[n].told \subseteq 1 .. Len(ledger[n].failed)
          /\ \A b \in rows[n].told : b \in Nat /\ b <= rows[n].attempt
      BY <2>0 DEF AttemptsKept, Stored, Ended
    <3>1. Max({rows[n].attempt, a}) \in {rows[n].attempt, a} /\ Max({rows[n].attempt, a}) >= rows[n].attempt
          /\ Max({rows[n].attempt, a}) >= a
      BY <3>0, LaterAttempt
    <3>2. row \in Stored
      <4>1. (rows[n].path \/ rows[n].attempt = 0) \in BOOLEAN
        BY Zenon
      <4>2. Max({rows[n].attempt, a}) \in Nat /\ rows[n].told \cup {a} \in SUBSET Nat
        BY <3>0, <3>1 DEF Stored
      <4> HIDE <4>1
      <4> QED BY <3>0, <4>1, <4>2 DEF Stored
    <3>3. row.attempt = Max({rows[n].attempt, a}) /\ row.jobs = rows[n].jobs /\ row.told = rows[n].told \cup {a}
      BY <3>0 DEF Stored
    <3>4. rows' = [rows EXCEPT ![n] = row] /\ UNCHANGED ledger
      BY <2>0, <2>4 DEF StoreRun
    <3> HIDE DEF row
    <3>5. row.attempt <= Len(ledger[n].failed) /\ row.jobs \cup row.told \subseteq 1 .. Len(ledger[n].failed)
      BY <3>0, <3>1, <3>3
    <3>6. \A b \in row.told : b <= row.attempt
      BY <3>0, <3>1, <3>3
    <3> QED BY <2>3, <3>2, <3>4, <3>5, <3>6
  <2>5. ASSUME NEW n \in DOMAIN ledger, NEW a \in DOMAIN ledger[n].failed, StoreJobs(n, a) PROVE AttemptsKept'
    <3> DEFINE m == IF rows[n].attempt = 0 THEN a ELSE rows[n].attempt
               row == [rows[n] EXCEPT !.attempt = m, !.jobs = @ \cup {a}]
    <3>0. /\ rows[n] \in Stored /\ rows[n].attempt \in Nat /\ a \in 1 .. Len(ledger[n].failed)
          /\ rows[n].attempt <= Len(ledger[n].failed) /\ Len(ledger[n].failed) \in Nat
          /\ rows[n].jobs \cup rows[n].told \subseteq 1 .. Len(ledger[n].failed)
          /\ \A b \in rows[n].told : b \in 1 .. Len(ledger[n].failed) /\ b <= rows[n].attempt
      <4>1. /\ rows[n] \in Stored /\ n \in 1 .. Len(ledger) /\ ledger[n].failed \in Seq(SUBSET Legs)
            /\ a \in 1 .. Len(ledger[n].failed)
        BY <2>0 DEF Ended
      <4>2. /\ rows[n].attempt <= Len(ledger[n].failed)
            /\ rows[n].jobs \cup rows[n].told \subseteq 1 .. Len(ledger[n].failed)
            /\ \A b \in rows[n].told : b <= rows[n].attempt
        BY <4>1 DEF AttemptsKept
      <4> QED BY <4>1, <4>2 DEF Stored
    <3>2. row \in Stored /\ row.attempt = m /\ row.jobs = rows[n].jobs \cup {a} /\ row.told = rows[n].told
      <4>1. m \in Nat /\ rows[n].jobs \cup {a} \in SUBSET Nat
        BY <3>0 DEF Stored
      <4> HIDE DEF m
      <4> QED BY <3>0, <4>1 DEF Stored
    <3>3. m = (IF rows[n].attempt = 0 THEN a ELSE rows[n].attempt)
      OBVIOUS
    <3>4. rows' = [rows EXCEPT ![n] = row] /\ UNCHANGED ledger
      BY <2>0, <2>5 DEF StoreJobs
    <3> HIDE DEF row, m
    <3>5. row.attempt <= Len(ledger[n].failed) /\ row.jobs \cup row.told \subseteq 1 .. Len(ledger[n].failed)
      BY <3>0, <3>2, <3>3
    <3>6. \A b \in row.told : b <= row.attempt
      BY <3>0, <3>2, <3>3
    <3> QED BY <2>3, <3>2, <3>4, <3>5, <3>6
  <2>6. CASE UNCHANGED historyVars
    BY <2>6 DEF historyVars, AttemptsKept
  <2> QED BY <2>1, <2>2, <2>4, <2>5, <2>6 DEF HistoryNext
<1> QED BY <1>1, <1>2, PTL DEF HistorySpec

\* A leg that is called redundant was never the only failure of a run as it ended, in whatever order and
\* however often attempts are recorded (build_context, ensure_run_stub).
THEOREM NeverAloneHolds == HistorySpec => []NeverAlone
<1>1. AttemptsKept => NeverAlone
  <2> SUFFICES ASSUME AttemptsKept, NEW w \in Flows, NEW leg \in LegsReported(w), NEW n \in OwnRuns(w), Recorded(n)
               PROVE  Failed(n, Len(ledger[n].failed)) # {leg}
    BY DEF NeverAlone
  <2>1. n \in 1 .. Len(ledger) /\ rows[n].attempt \in rows[n].jobs
    BY DEF OwnRuns, AttemptsKept
  <2>2. rows[n].attempt = Len(ledger[n].failed)
    <3>1. /\ rows[n].attempt <= Len(ledger[n].failed) /\ Len(ledger[n].failed) \in rows[n].told
          /\ \A a \in rows[n].told : a <= rows[n].attempt
      BY <2>1 DEF AttemptsKept, Recorded
    <3>2. rows[n].attempt \in Nat /\ Len(ledger[n].failed) \in Nat
      BY <2>1 DEF AttemptsKept, Ended, Stored
    <3> QED BY <3>1, <3>2
  <2>3. rows[n].jobs \cap {rows[n].attempt} = {rows[n].attempt}
    BY <2>1
  <2>4. Seen(n) = Failed(n, rows[n].attempt)
    BY <2>3, Zenon DEF Seen
  <2>5. Seen(n) # {leg}
    BY DEF LegsReported
  <2> QED BY <2>2, <2>4, <2>5
<1> QED BY <1>1, AttemptsKeptInv, PTL

-----------------------------------------------------------------------------
(* JobNames: a name that can be read is undone into its own job. *)

\* The words of names.  (The provers do not know that a literal is in STRING.)
Words == STRING \cup {"v", "(v)", "(w)", "()", "/", "inner"}

LEMMA NamesAreWords ==
  ASSUME NEW j \in ConfigJobs
  PROVE  j.name \in Seq(Words) /\ j.key \in Words
<1>1. j.name \in Seq(STRING) /\ j.key \in STRING
  BY NamesAssumption
<1>2. j.name \in Seq(Words)
  BY <1>1 DEF Words
<1> QED BY <1>1, <1>2 DEF Words

\* What a word of a template is in its static part.
Word(w) == IF w = "(expr)" THEN "()" ELSE w

\* Of a template without bare expressions every word is left.
LEMMA StaticIs ==
  ASSUME NEW name \in Seq(Words), \A n \in 1 .. Len(name) : name[n] # "expr"
  PROVE  Static(name) = [k \in 1 .. Len(name) |-> Word(name[k])]
<1> DEFINE words(n) == [k \in 1 .. n |-> Word(name[k])]
           Adds(g) == [n \in 0 .. Len(name) |->
                         IF n = 0 THEN <<>>
                         ELSE IF name[n] = "expr" THEN g[n - 1]
                         ELSE Append(g[n - 1], IF name[n] = "(expr)" THEN "()" ELSE name[n])]
           h == [n \in 0 .. Len(name) |-> words(n)]
<1>1. Len(name) \in Nat /\ \A n \in 1 .. Len(name) : name[n] \in Words /\ Word(name[n]) \in Words
  <2>1. Len(name) \in Nat /\ \A n \in 1 .. Len(name) : name[n] \in Words
    OBVIOUS
  <2>2. \A w \in Words : Word(w) \in Words
    BY DEF Word, Words
  <2> QED BY <2>1, <2>2
<1>2. \A n \in 0 .. Len(name) : words(n) \in Seq(Words) /\ Len(words(n)) = n
  BY <1>1
<1>3. \A n \in 1 .. Len(name) : words(n) = Append(words(n - 1), Word(name[n]))
  <2> TAKE n \in 1 .. Len(name)
  <2>1. words(n - 1) \in Seq(Words) /\ Len(words(n - 1)) = n - 1 /\ Word(name[n]) \in Words /\ n - 1 \in Nat
    BY <1>1, <1>2
  <2> DEFINE longer == Append(words(n - 1), Word(name[n]))
  <2>2. longer \in Seq(Words) /\ Len(longer) = n /\ (\A k \in 1 .. n - 1 : longer[k] = words(n - 1)[k])
        /\ longer[n] = Word(name[n])
    <3> HIDE DEF words
    <3> QED BY <2>1
  <2>3. \A k \in 1 .. n : longer[k] = Word(name[k])
    <3> HIDE DEF longer
    <3> QED BY <2>2
  <2>4. longer = [k \in 1 .. n |-> longer[k]]
    <3> HIDE DEF longer
    <3> QED BY <2>2
  <2> HIDE DEF longer
  <2>5. [k \in 1 .. n |-> longer[k]] = [k \in 1 .. n |-> Word(name[k])]
    BY <2>3
  <2> QED BY <2>4, <2>5 DEF longer
<1>4. words(0) = <<>>
  OBVIOUS
<1>5. h = Adds(h)
  <2>1. \A n \in 0 .. Len(name) :
          words(n) = IF n = 0 THEN <<>>
                     ELSE IF name[n] = "expr" THEN h[n - 1]
                     ELSE Append(h[n - 1], IF name[n] = "(expr)" THEN "()" ELSE name[n])
    <3> TAKE n \in 0 .. Len(name)
    <3> HIDE DEF words
    <3>1. CASE n = 0
      BY <1>4, <3>1
    <3>2. CASE n # 0
      <4>1. n \in 1 .. Len(name) /\ n - 1 \in 0 .. Len(name)
        BY <1>1, <3>2
      <4>2. h[n - 1] = words(n - 1)
        BY <4>1
      <4> QED BY <1>3, <3>2, <4>1, <4>2 DEF Word
    <3> QED BY <3>1, <3>2
  <2> HIDE DEF words
  <2> QED BY <2>1
<1> HIDE DEF h
<1>6. PICK g : g = Adds(g) /\ Static(name) = g[Len(name)]
  BY <1>5, Zenon DEF Static
<1>7. \A n \in 0 .. Len(name) :
        g[n] = IF n = 0 THEN <<>>
               ELSE IF name[n] = "expr" THEN g[n - 1]
               ELSE Append(g[n - 1], IF name[n] = "(expr)" THEN "()" ELSE name[n])
  BY <1>6, Zenon
<1> DEFINE U == {n \in 0 .. Len(name) : g[n] # words(n)}
<1>8. U = {}
  <2> SUFFICES ASSUME U # {} PROVE FALSE
    OBVIOUS
  <2>1. PICK m \in U : \A x \in U : m <= x
    <3>1. U \in SUBSET Nat
      BY <1>1
    <3> HIDE DEF U
    <3> QED BY <3>1, LeastNumber
  <2> HIDE DEF words
  <2>2. m # 0
    BY <1>4, <1>7, <2>1
  <2>3. m \in 1 .. Len(name) /\ m - 1 \in 0 .. Len(name) /\ m - 1 < m
    BY <1>1, <2>1, <2>2
  <2>4. g[m - 1] = words(m - 1)
    BY <1>1, <2>1, <2>3
  <2>5. g[m] = Append(words(m - 1), Word(name[m]))
    BY <1>7, <2>2, <2>3, <2>4 DEF Word
  <2> QED BY <1>3, <2>1, <2>3, <2>5
<1>9. g[Len(name)] = words(Len(name))
  <2> HIDE DEF words
  <2> QED BY <1>1, <1>8
<1> QED BY <1>6, <1>9

\* Where a name has no expression it is its own static part.
LEMMA LiteralIsStatic ==
  ASSUME NEW name \in Seq(Words), \A n \in 1 .. Len(name) : name[n] \notin {"expr", "(expr)"}
  PROVE  Static(name) = name
<1>1. Static(name) = [k \in 1 .. Len(name) |-> Word(name[k])]
  BY StaticIs
<1>2. [k \in 1 .. Len(name) |-> Word(name[k])] = [k \in 1 .. Len(name) |-> name[k]]
  BY DEF Word
<1> QED BY <1>1, <1>2

\* A word put behind a name, and taken off again.
LEMMA LastWord ==
  ASSUME NEW d \in Seq(Words), d # <<>>, NEW w \in {"(v)", "(w)", "()"}
  PROVE  d \o <<w>> \in Seq(Words) /\ Stripped(d \o <<w>>) = d
<1> DEFINE r == d \o <<w>>
<1>1. Len(d) \in Nat /\ Len(d) > 0
  OBVIOUS
<1>2. r \in Seq(Words) /\ Len(r) = Len(d) + 1 /\ r[Len(d) + 1] = w /\ \A n \in 1 .. Len(d) : r[n] = d[n]
  <2> DEFINE b == <<w>>
  <2>1. b \in Seq(Words) /\ Len(b) = 1 /\ b[1] = w
    BY DEF Words
  <2> HIDE DEF b
  <2>2. d \o b \in Seq(Words) /\ Len(d \o b) = Len(d) + 1 /\ (d \o b)[Len(d) + 1] = w
        /\ \A n \in 1 .. Len(d) : (d \o b)[n] = d[n]
    BY <2>1, ConcatIs
  <2> QED BY <2>2 DEF b
<1> HIDE DEF r
<1>3. SubSeq(r, 1, Len(r) - 1) = d
  <2>1. Len(r) - 1 = Len(d) /\ Len(d) \in 0 .. Len(r)
    BY <1>1, <1>2
  <2>2. /\ SubSeq(r, 1, Len(d)) \in Seq(Words) /\ Len(SubSeq(r, 1, Len(d))) = Len(d)
        /\ \A n \in 1 .. Len(d) : SubSeq(r, 1, Len(d))[n] = r[n]
    BY <1>2, <2>1, CutIs
  <2> DEFINE s == SubSeq(r, 1, Len(d))
  <2> HIDE DEF s
  <2>3. s \in Seq(Words) /\ Len(s) = Len(d) /\ \A n \in 1 .. Len(d) : s[n] = d[n]
    BY <1>2, <2>2 DEF s
  <2>4. s = d
    BY <2>3
  <2> QED BY <2>1, <2>4 DEF s
<1>4. Len(r) > 1 /\ Last(r) = w
  BY <1>1, <1>2 DEF Last
<1>5. Stripped(r) = d
  BY <1>3, <1>4 DEF Stripped, Front
<1> QED BY <1>2, <1>5 DEF r

\* What comes before a slash is the caller.
LEMMA BeforeSlash ==
  ASSUME NEW d \in Seq(Words), "/" \notin ToSet(d)
  PROVE  LET r == d \o <<"/", "inner">> IN (\E k \in DOMAIN r : r[k] = "/") /\ CallerOf(r) = d
<1> DEFINE r == d \o <<"/", "inner">>
           S == {k \in DOMAIN r : r[k] = "/"}
<1>1. Len(d) \in Nat /\ \A n \in 1 .. Len(d) : d[n] # "/"
  BY DEF ToSet
<1>2. /\ r \in Seq(Words) /\ Len(r) = Len(d) + 2 /\ DOMAIN r = 1 .. Len(d) + 2
      /\ r[Len(d) + 1] = "/" /\ r[Len(d) + 2] = "inner" /\ \A n \in 1 .. Len(d) : r[n] = d[n]
  <2> DEFINE b == <<"/", "inner">>
  <2>1. b \in Seq(Words) /\ Len(b) = 2 /\ b[1] = "/" /\ b[2] = "inner"
    BY DEF Words
  <2> HIDE DEF b
  <2>2. d \o b \in Seq(Words) /\ Len(d \o b) = Len(d) + 2 /\ (d \o b)[Len(d) + 1] = "/" /\ (d \o b)[Len(d) + 2] = "inner"
        /\ \A n \in 1 .. Len(d) : (d \o b)[n] = d[n]
    <3>1. /\ d \o b \in Seq(Words) /\ Len(d \o b) = Len(d) + Len(b)
          /\ (\A n \in 1 .. Len(d) : (d \o b)[n] = d[n]) /\ \A n \in 1 .. Len(b) : (d \o b)[Len(d) + n] = b[n]
      <4>1. b \in Seq(Words)
        BY <2>1
      <4> QED BY <4>1, ConcatIs
    <3>2. 1 \in 1 .. Len(b) /\ 2 \in 1 .. Len(b)
      BY <2>1
    <3>3. (d \o b)[Len(d) + 1] = b[1] /\ (d \o b)[Len(d) + 2] = b[2]
      BY <3>1, <3>2
    <3> QED BY <2>1, <3>1, <3>3
  <2>3. DOMAIN (d \o b) = 1 .. Len(d) + 2
    BY <2>2
  <2> QED BY <2>2, <2>3 DEF b
<1> HIDE DEF r
<1>3. S = {Len(d) + 1}
  <2>1. Len(d) + 1 \in S
    BY <1>1, <1>2
  <2>2. ASSUME NEW k \in S PROVE k = Len(d) + 1
    <3>1. k \in 1 .. Len(d) \/ k = Len(d) + 1 \/ k = Len(d) + 2
      BY <1>1, <1>2
    <3> QED BY <1>1, <1>2, <3>1
  <2> HIDE DEF S
  <2> QED BY <2>1, <2>2
<1>4. Min(S) = Len(d) + 1
  <2> HIDE DEF S
  <2> QED BY <1>1, <1>3 DEF Min
<1>5. CallerOf(r) = SubSeq(r, 1, Len(d))
  <2>1. CallerOf(r) = SubSeq(r, 1, Min(S) - 1)
    BY DEF CallerOf
  <2> HIDE DEF S
  <2> QED BY <1>1, <1>4, <2>1
<1>6. SubSeq(r, 1, Len(d)) = d
  <2>1. Len(d) \in 0 .. Len(r)
    BY <1>1, <1>2
  <2> DEFINE s == SubSeq(r, 1, Len(d))
  <2>2. s \in Seq(Words) /\ Len(s) = Len(d) /\ \A n \in 1 .. Len(d) : s[n] = r[n]
    BY <1>2, <2>1, CutIs
  <2> HIDE DEF s
  <2>3. \A n \in 1 .. Len(d) : s[n] = d[n]
    BY <1>2, <2>2
  <2>4. s = d
    BY <2>2, <2>3
  <2> QED BY <2>4 DEF s
<1>7. \E k \in DOMAIN r : r[k] = "/"
  BY <1>3
<1> QED BY <1>5, <1>6, <1>7 DEF r

\* A name without expressions is recorded as it is, with what is put behind it.
LEMMA LiteralUndone ==
  ASSUME NEW j \in ConfigJobs, Readable(j), ~ShowsMatrix(j), NEW r \in RecordedNames(j)
  PROVE  \/ r \in RuntimeNames(j)
         \/ Stripped(r) \in StrippedNames(j)
         \/ j.calls /\ (\E k \in DOMAIN r : r[k] = "/") /\ CallerOf(r) \in RuntimeNames(j)
<1> DEFINE d == IF j.name = <<>> THEN <<j.key>> ELSE j.name
<1>1. /\ j.name \in Seq(Words) /\ j.key \in Words /\ DOMAIN j.name = 1 .. Len(j.name)
      /\ \A n \in 1 .. Len(j.name) : j.name[n] \notin {"expr", "(expr)"}
  BY NamesAreWords DEF ShowsMatrix
<1>2. d \in Seq(Words) /\ d # <<>> /\ "/" \notin ToSet(d)
  <2>1. CASE j.name = <<>>
    <3> DEFINE b == <<j.key>>
    <3>1. b \in Seq(Words) /\ b # <<>> /\ DOMAIN b = 1 .. 1 /\ b[1] = j.key
      BY <1>1
    <3>2. "/" # j.key
      BY DEF Readable
    <3>3. \A n \in DOMAIN b : b[n] # "/"
      <4> HIDE DEF b
      <4> QED BY <3>1, <3>2
    <3> HIDE DEF b
    <3>4. "/" \notin ToSet(b)
      BY <3>3 DEF ToSet
    <3> QED BY <2>1, <3>1, <3>4 DEF b
  <2>2. CASE j.name # <<>>
    BY <1>1, <2>2 DEF Readable
  <2> QED BY <2>1, <2>2
<1>3. d \in RuntimeNames(j)
  <2>1. CASE j.name = <<>>
    BY <2>1 DEF RuntimeNames
  <2>2. CASE j.name # <<>>
    <3>1. Static(j.name) = j.name
      BY <1>1, LiteralIsStatic
    <3> QED BY <2>2, <3>1 DEF RuntimeNames
  <2> QED BY <2>1, <2>2
<1>4. \A v : Display(j, v) = d
  <2> TAKE v
  <2>1. CASE j.name = <<>>
    BY <2>1 DEF Display
  <2>2. CASE j.name # <<>>
    <3>1. \A n \in DOMAIN j.name : (CASE j.name[n] = "expr" -> v [] j.name[n] = "(expr)" -> "(v)" [] OTHER -> j.name[n]) = j.name[n]
      BY <1>1
    <3>2. Display(j, v) = [n \in DOMAIN j.name |-> j.name[n]]
      BY <2>2, <3>1 DEF Display
    <3> QED BY <1>1, <2>2, <3>2
  <2> QED BY <2>1, <2>2
<1> HIDE DEF d
<1>5. r = d \o (IF j.matrix THEN <<"(v)">> ELSE <<>>) \o (IF j.calls THEN <<"/", "inner">> ELSE <<>>)
  BY <1>4 DEF RecordedNames
<1>6. CASE j.calls
  <2>1. ~j.matrix
    BY <1>6 DEF Readable
  <2>2. d \o <<>> = d
    BY <1>2
  <2>3. r = d \o <<"/", "inner">>
    BY <1>5, <1>6, <2>1, <2>2
  <2>4. (\E k \in DOMAIN r : r[k] = "/") /\ CallerOf(r) = d
    BY <1>2, <2>3, BeforeSlash
  <2> QED BY <1>3, <1>6, <2>4
<1>7. CASE ~j.calls /\ j.matrix
  <2>1. d \o <<"(v)">> \in Seq(Words) /\ Stripped(d \o <<"(v)">>) = d
    BY <1>2, LastWord
  <2>2. r = d \o <<"(v)">>
    BY <1>5, <1>7, <2>1
  <2>3. Stripped(d) = d
    <3>1. CASE j.name = <<>>
      <4>1. Len(d) = 1
        BY <3>1 DEF d
      <4> QED BY <4>1 DEF Stripped
    <3>2. CASE j.name # <<>>
      BY <1>7, <3>2 DEF Readable, d
    <3> QED BY <3>1, <3>2
  <2> QED BY <1>3, <2>1, <2>2, <2>3 DEF StrippedNames
<1>8. CASE ~j.calls /\ ~j.matrix
  <2>1. d \o <<>> = d
    BY <1>2
  <2>2. r = d
    BY <1>5, <1>8, <2>1
  <2> QED BY <1>3, <2>2
<1> QED BY <1>6, <1>7, <1>8

\* A name whose last word is an expression in parentheses is recorded with a value in its place.
LEMMA TemplateUndone ==
  ASSUME NEW j \in ConfigJobs, Readable(j), ShowsMatrix(j), ~DynamicName(j), NEW r \in RecordedNames(j)
  PROVE  Stripped(r) \in StrippedNames(j)
<1> DEFINE l == Len(j.name)
           d == SubSeq(j.name, 1, l - 1)
<1>1. j.name \in Seq(Words) /\ DOMAIN j.name = 1 .. l /\ l \in Nat
  BY NamesAreWords
<1>2. l > 1 /\ j.name[l] = "(expr)" /\ ~j.calls /\ \A n \in 1 .. l - 1 : j.name[n] \notin {"expr", "(expr)"}
  BY DEF Readable, Last
<1>3. d \in Seq(Words) /\ Len(d) = l - 1 /\ d # <<>> /\ \A n \in 1 .. l - 1 : d[n] = j.name[n]
  <2>1. l - 1 \in 0 .. Len(j.name) /\ l - 1 > 0
    BY <1>1, <1>2
  <2>2. d \in Seq(Words) /\ Len(d) = l - 1 /\ \A n \in 1 .. l - 1 : d[n] = j.name[n]
    <3> HIDE DEF l
    <3> QED BY <1>1, <2>1, CutIs DEF l
  <2>3. d # <<>>
    <3> HIDE DEF d, l
    <3> QED BY <2>1, <2>2
  <2> QED BY <2>2, <2>3
<1> HIDE DEF d, l
<1>4. ASSUME NEW w, NEW x \in Seq(Words), Len(x) = l, x[l] = w, \A n \in 1 .. l - 1 : x[n] = j.name[n], w \in {"(v)", "(w)", "()"}
      PROVE  Stripped(x) = d
  <2>1. w \in Words /\ d \o <<w>> \in Seq(Words) /\ Stripped(d \o <<w>>) = d
    BY <1>3, <1>4, LastWord DEF Words
  <2>2. Len(d \o <<w>>) = l /\ (\A n \in 1 .. l - 1 : (d \o <<w>>)[n] = d[n]) /\ (d \o <<w>>)[l] = w
    <3> DEFINE b == <<w>>
    <3>1. b \in Seq(Words) /\ Len(b) = 1 /\ b[1] = w
      BY <2>1
    <3> HIDE DEF b
    <3>2. /\ Len(d \o b) = Len(d) + Len(b)
          /\ (\A n \in 1 .. Len(d) : (d \o b)[n] = d[n]) /\ \A n \in 1 .. Len(b) : (d \o b)[Len(d) + n] = b[n]
      <4>1. b \in Seq(Words) /\ d \in Seq(Words)
        BY <1>3, <3>1
      <4> QED BY <4>1, ConcatIs
    <3>3. 1 \in 1 .. Len(b) /\ Len(d) + 1 = l /\ Len(d) = l - 1
      BY <1>1, <1>3, <3>1
    <3>4. (d \o b)[Len(d) + 1] = b[1]
      BY <3>2, <3>3
    <3>5. \A n \in 1 .. l - 1 : (d \o b)[n] = d[n]
      BY <3>2, <3>3
    <3>6. Len(d \o b) = l
      BY <3>1, <3>2, <3>3
    <3> QED BY <3>1, <3>3, <3>4, <3>5, <3>6 DEF b
  <2>3. x = d \o <<w>>
    <3> DEFINE y == d \o <<w>>
    <3> HIDE DEF y
    <3>1. y \in Seq(Words) /\ Len(y) = l /\ (\A n \in 1 .. l - 1 : y[n] = d[n]) /\ y[l] = w
      BY <2>1, <2>2 DEF y
    <3>2. \A n \in 1 .. l : x[n] = y[n]
      <4> TAKE n \in 1 .. l
      <4>1. CASE n = l
        BY <1>4, <3>1, <4>1
      <4>2. CASE n # l
        <5>1. n \in 1 .. l - 1
          BY <1>1, <4>2
        <5> QED BY <1>3, <1>4, <3>1, <5>1
      <4> QED BY <4>1, <4>2
    <3>3. x = y
      BY <1>4, <3>1, <3>2
    <3> QED BY <3>3 DEF y
  <2> QED BY <2>1, <2>3
<1>5. Stripped(Static(j.name)) = d /\ Static(j.name) # <<>>
  <2>1. \A n \in 1 .. Len(j.name) : j.name[n] # "expr"
    <3> TAKE n \in 1 .. Len(j.name)
    <3>1. n = l \/ n \in 1 .. l - 1
      BY <1>1 DEF l
    <3> QED BY <1>2, <3>1
  <2> DEFINE x == [k \in 1 .. l |-> Word(j.name[k])]
  <2>2. Static(j.name) = x
    BY <1>1, <2>1, StaticIs DEF l
  <2>3. \A k \in 1 .. l : Word(j.name[k]) \in Words
    BY <1>1 DEF Word, Words
  <2>4. x \in Seq(Words) /\ Len(x) = l
    BY <1>1, <2>3
  <2>5. x[l] = "()" /\ \A n \in 1 .. l - 1 : x[n] = j.name[n]
    BY <1>1, <1>2 DEF Word
  <2> HIDE DEF x
  <2>6. x # <<>>
    BY <1>2, <2>4
  <2> QED BY <1>4, <2>2, <2>4, <2>5, <2>6
<1>6. Stripped(r) = d
  <2> DEFINE x == [n \in 1 .. l |-> CASE j.name[n] = "expr" -> "v" [] j.name[n] = "(expr)" -> "(v)" [] OTHER -> j.name[n]]
  <2>1. r = (x \o <<>>) \o <<>>
    <3>1. Display(j, "v") = x
      <4>1. j.name # <<>>
        BY <1>2 DEF l
      <4> QED BY <1>1, <4>1 DEF Display
    <3> HIDE DEF x
    <3>2. r = Display(j, "v") \o (IF j.matrix /\ ~ShowsMatrix(j) THEN <<"(v)">> ELSE <<>>)
                              \o (IF j.calls THEN <<"/", "inner">> ELSE <<>>)
      BY DEF RecordedNames
    <3> QED BY <1>2, <3>1, <3>2
  <2>2. \A n \in 1 .. l - 1 : x[n] = j.name[n]
    BY <1>1, <1>2
  <2>3. x[l] = "(v)"
    BY <1>1, <1>2
  <2>4. \A n \in 1 .. l : x[n] \in Words
    <3> TAKE n \in 1 .. l
    <3>1. n = l \/ n \in 1 .. l - 1
      BY <1>1
    <3>2. \A m \in 1 .. l - 1 : j.name[m] \in Words
      BY <1>1
    <3> HIDE DEF x
    <3> QED BY <2>2, <2>3, <3>1, <3>2 DEF Words
  <2>5. x \in Seq(Words) /\ Len(x) = l
    BY <1>1, <2>4
  <2> HIDE DEF x
  <2>6. r = x
    BY <2>1, <2>5
  <2> QED BY <1>4, <2>2, <2>3, <2>5, <2>6
<1> QED BY <1>5, <1>6 DEF StrippedNames, RuntimeNames

\* Only what a caller's job is recorded as has a slash.
LEMMA SlashMeansCaller ==
  ASSUME NEW j \in ConfigJobs, Readable(j), ~j.calls, NEW r \in RecordedNames(j), NEW k \in DOMAIN r
  PROVE  r[k] # "/"
<1> DEFINE d == Display(j, "v")
<1>1. j.name \in Seq(Words) /\ j.key \in Words /\ DOMAIN j.name = 1 .. Len(j.name) /\ Len(j.name) \in Nat
  BY NamesAreWords
<1>2. j.key # "/" /\ \A n \in 1 .. Len(j.name) : j.name[n] # "/"
  BY <1>1 DEF Readable, ToSet
<1>3. d \in Seq(Words) /\ \A n \in 1 .. Len(d) : d[n] # "/"
  <2>1. CASE j.name = <<>>
    <3> DEFINE b == <<j.key>>
    <3>1. b \in Seq(Words) /\ Len(b) = 1 /\ b[1] = j.key
      BY <1>1
    <3> HIDE DEF b
    <3>2. \A n \in 1 .. Len(b) : b[n] # "/"
      BY <1>2, <3>1
    <3>3. d = b
      BY <2>1 DEF Display, b
    <3> QED BY <3>1, <3>2, <3>3
  <2>2. CASE j.name # <<>>
    <3> DEFINE x == [n \in 1 .. Len(j.name) |-> CASE j.name[n] = "expr" -> "v" [] j.name[n] = "(expr)" -> "(v)" [] OTHER -> j.name[n]]
    <3>1. d = x
      BY <1>1, <2>2 DEF Display
    <3>2. \A n \in 1 .. Len(j.name) : x[n] \in Words /\ x[n] # "/"
      <4> TAKE n \in 1 .. Len(j.name)
      <4>1. x[n] \in {"v", "(v)", j.name[n]}
        OBVIOUS
      <4>2. j.name[n] \in Words /\ j.name[n] # "/"
        BY <1>1, <1>2
      <4> HIDE DEF x
      <4> QED BY <4>1, <4>2 DEF Words
    <3>3. x \in Seq(Words) /\ Len(x) = Len(j.name)
      <4>1. DOMAIN x = 1 .. Len(j.name) /\ x = [n \in 1 .. Len(j.name) |-> x[n]]
        OBVIOUS
      <4> HIDE DEF x
      <4> QED BY <1>1, <3>2, <4>1
    <3> HIDE DEF x
    <3> QED BY <3>1, <3>2, <3>3
  <2> QED BY <2>1, <2>2
<1> HIDE DEF d
<1>4. r = (d \o (IF j.matrix /\ ~ShowsMatrix(j) THEN <<"(v)">> ELSE <<>>)) \o <<>>
  BY DEF RecordedNames, d
<1> DEFINE b == <<"(v)">>
<1>5. b \in Seq(Words) /\ Len(b) = 1 /\ b[1] = "(v)"
  BY DEF Words
<1>6. d \o <<>> = d /\ r \in {d \o <<>>, (d \o b) \o <<>>}
  BY <1>3, <1>4
<1> HIDE DEF b
<1>7. /\ d \o b \in Seq(Words) /\ Len(d \o b) = Len(d) + Len(b)
      /\ (\A n \in 1 .. Len(d) : (d \o b)[n] = d[n]) /\ \A n \in 1 .. Len(b) : (d \o b)[Len(d) + n] = b[n]
  <2>1. b \in Seq(Words) /\ d \in Seq(Words)
    BY <1>3, <1>5
  <2> QED BY <2>1, ConcatIs
<1> DEFINE y == d \o b
<1> HIDE DEF y
<1>8. y \in Seq(Words) /\ Len(y) = Len(d) + 1 /\ (\A n \in 1 .. Len(d) : y[n] = d[n]) /\ y[Len(d) + 1] = "(v)"
  <2>1. 1 \in 1 .. Len(b)
    BY <1>5
  <2>2. (d \o b)[Len(d) + 1] = b[1]
    BY <1>7, <2>1
  <2> QED BY <1>5, <1>7, <2>2 DEF y
<1>9. \A n \in DOMAIN y : y[n] # "/"
  <2> TAKE n \in DOMAIN y
  <2>1. n \in 1 .. Len(d) \/ n = Len(d) + 1
    BY <1>3, <1>8
  <2> QED BY <1>3, <1>8, <2>1
<1>10. r = d \/ r = y
  <2>1. y \o <<>> = y
    BY <1>8
  <2> QED BY <1>6, <2>1 DEF y
<1> QED BY <1>3, <1>9, <1>10

LEMMA OnlyOne ==
  ASSUME NEW m \in Nat, NEW S, S = {m}
  PROVE  Min(S) = m /\ Cardinality(S) = 1
<1>1. Min({m}) = m
  BY DEF Min
<1>2. Cardinality({m}) = 1
  BY FS_Singleton
<1> QED BY <1>1, <1>2

LEMMA SingleIs ==
  ASSUME NEW S, Cardinality(S) = 1, NEW m \in S, IsFiniteSet(S)
  PROVE  S = {m}
<1>1. PICK x : S = {x}
  BY FS_Singleton
<1> QED BY <1>1

\* What a name of the m-th job resolves to: that job or none, but for ties.
LEMMA ResolvesToOwn ==
  ASSUME NEW jobs \in Seq(ConfigJobs), Distinct(jobs), NEW m \in DOMAIN jobs, NEW r \in RecordedNames(jobs[m])
  PROVE  /\ JobFor(jobs, r) \in {m, 0} \/ (Tied(jobs, r) /\ Cardinality(Dynamic(jobs)) = 1)
         /\ (\A i, n \in DOMAIN jobs : i # n => StrippedNames(jobs[i]) \cap StrippedNames(jobs[n]) = {})
              => JobFor(jobs, r) = m \/ Cardinality(Dynamic(jobs)) > 1
<1> DEFINE D == DOMAIN jobs
           j == jobs[m]
           E == Exact(jobs, r)
           B == ByBase(jobs, r)
           C == Callers(jobs, r)
           Y == Dynamic(jobs)
           apart == \A i, n \in D : i # n => StrippedNames(jobs[i]) \cap StrippedNames(jobs[n]) = {}
<1>1. D = 1 .. Len(jobs) /\ Len(jobs) \in Nat /\ m \in Nat /\ m # 0 /\ \A n \in D : jobs[n] \in ConfigJobs
  OBVIOUS
<1>2. IsFiniteSet(D) /\ E \subseteq D /\ B \subseteq D /\ C \subseteq D /\ Y \subseteq D
  <2>1. IsFiniteSet(1 .. Len(jobs))
    BY <1>1, FS_Interval
  <2> QED BY <1>1, <2>1 DEF Exact, ByBase, Callers, Dynamic
<1>3. IsFiniteSet(B) /\ IsFiniteSet(Y) /\ Cardinality(B) \in Nat /\ Cardinality(Y) \in Nat
  <2> HIDE DEF D, B, Y
  <2>1. IsFiniteSet(B) /\ IsFiniteSet(Y)
    BY <1>2, FS_Subset
  <2> QED BY <2>1, FS_CardinalityType
<1>4. \A n \in D : n # m => r \notin RuntimeNames(jobs[n])
  BY DEF Distinct
<1>5. DynamicName(j) \/ j.calls => \A n \in D : n # m => Stripped(r) \notin StrippedNames(jobs[n])
  BY DEF Distinct
<1>6. j.calls => \A n \in D : n # m => CallerOf(r) \notin RuntimeNames(jobs[n]) \cup StrippedNames(jobs[n])
  BY DEF Distinct
<1>7. Readable(j) /\ j \in ConfigJobs
  BY <1>1 DEF Distinct
<1>8. (\E k \in DOMAIN r : r[k] = "/") => j.calls
  BY <1>7, SlashMeansCaller
<1>9. DynamicName(j) \/ m \in E \/ m \in B \/ (j.calls /\ m \in C)
  <2>1. CASE ShowsMatrix(j) /\ ~DynamicName(j)
    <3>1. Stripped(r) \in StrippedNames(j)
      BY <1>7, <2>1, TemplateUndone
    <3> QED BY <3>1 DEF ByBase
  <2>2. CASE ~ShowsMatrix(j)
    <3>1. \/ r \in RuntimeNames(j)
          \/ Stripped(r) \in StrippedNames(j)
          \/ j.calls /\ (\E k \in DOMAIN r : r[k] = "/") /\ CallerOf(r) \in RuntimeNames(j)
      BY <1>7, <2>2, LiteralUndone
    <3> QED BY <3>1 DEF Exact, ByBase, Callers
  <2> QED BY <2>1, <2>2
<1>10. E \subseteq {m}
  BY <1>4 DEF Exact
<1>11. C \subseteq {m}
  BY <1>6, <1>8 DEF Callers
<1>12. (DynamicName(j) \/ j.calls) => B \subseteq {m}
  BY <1>5 DEF ByBase
<1>13. apart => \A n \in B : m \in B => n = m
  BY DEF ByBase
<1>14. m \in Y <=> DynamicName(j)
  BY DEF Dynamic
<1>15. JobFor(jobs, r) = CASE E # {} -> Min(E)
                           [] E = {} /\ Cardinality(B) = 1 -> Min(B)
                           [] OTHER -> IF C # {} THEN Min(C)
                                       ELSE IF Cardinality(Y) = 1 THEN Min(Y) ELSE 0
  BY DEF JobFor
<1>16. Tied(jobs, r) <=> E = {} /\ Cardinality(B) > 1
  BY DEF Tied
<1> HIDE DEF D, j, E, B, C, Y
<1>17. CASE E # {}
  <2>1. E = {m}
    BY <1>10, <1>17
  <2>2. Min(E) = m
    BY <1>1, <2>1, OnlyOne
  <2>3. JobFor(jobs, r) = m
    BY <1>15, <1>17, <2>2
  <2> QED BY <2>3
<1>18. CASE E = {} /\ Cardinality(B) = 1
  <2>1. m \in B
    <3>1. PICK x : B = {x}
      BY <1>3, <1>18, FS_Singleton
    <3>2. DynamicName(j) \/ j.calls => x = m
      BY <1>12, <3>1
    <3> QED BY <1>9, <1>18, <3>1, <3>2
  <2>2. B = {m}
    BY <1>3, <1>18, <2>1, SingleIs
  <2>3. Min(B) = m
    BY <1>1, <2>2, OnlyOne
  <2>4. JobFor(jobs, r) = m
    BY <1>15, <1>18, <2>3
  <2> QED BY <2>4
<1>19. CASE E = {} /\ Cardinality(B) # 1 /\ C # {}
  <2>1. C = {m}
    BY <1>11, <1>19
  <2>2. Min(C) = m
    BY <1>1, <2>1, OnlyOne
  <2>3. JobFor(jobs, r) = m
    BY <1>15, <1>19, <2>2
  <2> QED BY <2>3
<1>20. CASE E = {} /\ Cardinality(B) # 1 /\ C = {}
  <2>1. JobFor(jobs, r) = IF Cardinality(Y) = 1 THEN Min(Y) ELSE 0
    BY <1>15, <1>20
  <2>2. CASE DynamicName(j)
    <3>1. m \in Y /\ Cardinality(Y) # 0
      <4>1. m \in Y
        BY <1>14, <2>2
      <4> QED BY <1>3, <4>1, FS_EmptySet
    <3>2. CASE Cardinality(Y) = 1
      <4>1. Y = {m}
        BY <1>3, <3>1, <3>2, SingleIs
      <4>2. Min(Y) = m
        BY <1>1, <4>1, OnlyOne
      <4> QED BY <2>1, <3>2, <4>2
    <3>3. CASE Cardinality(Y) # 1
      <4>1. Cardinality(Y) > 1
        BY <1>3, <3>1, <3>3
      <4> QED BY <2>1, <3>3, <4>1 DEF Y
    <3> QED BY <3>2, <3>3
  <2>3. CASE ~DynamicName(j)
    <3>1. m \in B
      BY <1>9, <1>20, <2>3
    <3>2. Cardinality(B) > 1
      <4>1. Cardinality(B) # 0
        BY <1>3, <3>1, FS_EmptySet
      <4> QED BY <1>3, <1>20, <4>1
    <3>3. ~apart
      <4> SUFFICES ASSUME apart PROVE FALSE
        OBVIOUS
      <4>1. B = {m}
        BY <1>13, <3>1
      <4>2. Cardinality(B) = 1
        BY <1>1, <4>1, OnlyOne
      <4> QED BY <1>20, <4>2
    <3>4. JobFor(jobs, r) = 0 \/ (Tied(jobs, r) /\ Cardinality(Y) = 1)
      BY <1>16, <1>20, <2>1, <3>2
    <3> QED BY <3>3, <3>4 DEF D, Y
  <2> QED BY <2>2, <2>3
<1> QED BY <1>17, <1>18, <1>19, <1>20

\* As long as the file is as the run had it, the job is there that was observed.
JobThere ==
  /\ jobsOf \in [WorkflowFiles -> Seq(ConfigJobs)]
  /\ \A o \in observed :
       /\ o.file \in WorkflowFiles
       /\ o.file \notin edited =>
            \E n \in DOMAIN jobsOf[o.file] : jobsOf[o.file][n].key = o.key /\ o.name \in RecordedNames(jobsOf[o.file][n])

LEMMA JobThereInv == NamesSpec => []JobThere
<1>1. NamesInit => JobThere
  BY DEF NamesInit, JobThere
<1>2. JobThere /\ [NamesNext]_nameVars => JobThere'
  <2> SUFFICES ASSUME JobThere, [NamesNext]_nameVars PROVE JobThere'
    OBVIOUS
  <2>1. ASSUME NEW f \in WorkflowFiles, NEW j \in ConfigJobs, DeclareJob(f, j) PROVE JobThere'
    <3>1. Append(jobsOf[f], j) \in Seq(ConfigJobs)
      BY DEF JobThere
    <3>2. jobsOf' \in [WorkflowFiles -> Seq(ConfigJobs)]
      BY <2>1, <3>1 DEF DeclareJob, JobThere
    <3>3. \A o \in observed : o.file \notin edited' => o.file \notin edited /\ jobsOf'[o.file] = jobsOf[o.file]
      BY <2>1 DEF DeclareJob, JobThere
    <3>4. observed' = observed
      BY <2>1 DEF DeclareJob
    <3> QED BY <3>2, <3>3, <3>4 DEF JobThere
  <2>2. ASSUME NEW f \in WorkflowFiles, NEW n \in 1 .. MaxJobs, RemoveJob(f, n) PROVE JobThere'
    <3>1. RemoveAt(jobsOf[f], n) \in Seq(ConfigJobs)
      <4>1. jobsOf[f] \in Seq(ConfigJobs) /\ n \in 1 .. Len(jobsOf[f])
        BY <2>2 DEF JobThere, RemoveJob
      <4>2. n - 1 \in 0 .. Len(jobsOf[f]) /\ n \in 0 .. Len(jobsOf[f])
        BY <4>1
      <4>3. SubSeq(jobsOf[f], 1, n - 1) \in Seq(ConfigJobs) /\ SubSeq(jobsOf[f], n + 1, Len(jobsOf[f])) \in Seq(ConfigJobs)
        BY <4>1, <4>2, CutIs
      <4> QED BY <4>3, ConcatIs DEF RemoveAt
    <3>2. jobsOf' \in [WorkflowFiles -> Seq(ConfigJobs)]
      BY <2>2, <3>1 DEF RemoveJob, JobThere
    <3>3. \A o \in observed : o.file \notin edited' => o.file \notin edited /\ jobsOf'[o.file] = jobsOf[o.file]
      BY <2>2 DEF RemoveJob, JobThere
    <3>4. observed' = observed
      BY <2>2 DEF RemoveJob
    <3> QED BY <3>2, <3>3, <3>4 DEF JobThere
  <2>3. ASSUME NEW f \in WorkflowFiles, NEW n \in 1 .. MaxJobs, ObserveJob(f, n) PROVE JobThere'
    <3>1. jobsOf' = jobsOf /\ edited' = edited /\ n \in DOMAIN jobsOf[f]
      BY <2>3 DEF ObserveJob
    <3>2. PICK name \in RecordedNames(jobsOf[f][n]) :
            observed' = {[file |-> f, key |-> jobsOf[f][n].key, name |-> name]}
      BY <2>3 DEF ObserveJob
    <3>3. \A o \in observed' : o.file = f /\ o.key = jobsOf[f][n].key /\ o.name = name
      BY <3>2
    <3> QED BY <3>1, <3>3 DEF JobThere
  <2>4. CASE UNCHANGED nameVars
    BY <2>4 DEF nameVars, JobThere
  <2> QED BY <2>1, <2>2, <2>3, <2>4 DEF NamesNext
<1> QED BY <1>1, <1>2, PTL DEF NamesSpec

\* The display name GitHub gives a job leads back to the job or to none, for any files and any names that
\* can be told apart, but for a tie that elimination breaks (job_for_runtime_name, index_step_rows).
THEOREM StepsOfOwnJobHolds == NamesSpec => []StepsOfOwnJob
<1>1. JobThere => StepsOfOwnJob
  <2> SUFFICES ASSUME JobThere, NEW o \in observed, o.file \notin edited, Distinct(jobsOf[o.file])
               PROVE  /\ StepKey(o) \in {o.key, "none"}
                           \/ (Tied(jobsOf[o.file], o.name) /\ Cardinality(Dynamic(jobsOf[o.file])) = 1)
                      /\ (\A m, n \in DOMAIN jobsOf[o.file] :
                            m # n => StrippedNames(jobsOf[o.file][m]) \cap StrippedNames(jobsOf[o.file][n]) = {})
                         => StepKey(o) = o.key \/ Cardinality(Dynamic(jobsOf[o.file])) > 1
    BY Zenon DEF StepsOfOwnJob
  <2>1. PICK jobs : jobs = jobsOf[o.file]
    OBVIOUS
  <2>2. jobs \in Seq(ConfigJobs)
    BY <2>1 DEF JobThere
  <2>3. PICK m \in DOMAIN jobs : jobs[m].key = o.key /\ o.name \in RecordedNames(jobs[m])
    BY <2>1 DEF JobThere
  <2>4. /\ JobFor(jobs, o.name) \in {m, 0} \/ (Tied(jobs, o.name) /\ Cardinality(Dynamic(jobs)) = 1)
        /\ (\A i, n \in DOMAIN jobs : i # n => StrippedNames(jobs[i]) \cap StrippedNames(jobs[n]) = {})
             => JobFor(jobs, o.name) = m \/ Cardinality(Dynamic(jobs)) > 1
    BY <2>1, <2>2, <2>3, ResolvesToOwn
  <2>5. StepKey(o) = IF JobFor(jobs, o.name) = 0 THEN "none" ELSE jobs[JobFor(jobs, o.name)].key
    BY <2>1 DEF StepKey, KeyFor
  <2>6. m # 0
    BY <2>2
  <2>7. (JobFor(jobs, o.name) = m => StepKey(o) = o.key) /\ (JobFor(jobs, o.name) = 0 => StepKey(o) = "none")
    BY <2>3, <2>5, <2>6
  <2> QED BY <2>1, <2>4, <2>7
<1> QED BY <1>1, JobThereInv, PTL

-----------------------------------------------------------------------------
(* The types of all. *)

LEMMA NamesTypeOKInv == NamesSpec => []NamesTypeOK
<1>1. NamesInit => NamesTypeOK
  <2> SUFFICES ASSUME NamesInit PROVE NamesTypeOK
    OBVIOUS
  <2>1. Cardinality(observed) = 0
    BY FS_EmptySet DEF NamesInit
  <2>2. \A f \in WorkflowFiles : jobsOf[f] \in Seq(ConfigJobs) /\ Len(jobsOf[f]) = 0
    BY DEF NamesInit
  <2> QED BY <2>1, <2>2, NamesAssumption DEF NamesInit, NamesTypeOK
<1>2. NamesTypeOK /\ [NamesNext]_nameVars => NamesTypeOK'
  <2> SUFFICES ASSUME NamesTypeOK, [NamesNext]_nameVars PROVE NamesTypeOK'
    OBVIOUS
  <2>1. ASSUME NEW f \in WorkflowFiles, NEW j \in ConfigJobs, DeclareJob(f, j) PROVE NamesTypeOK'
    <3>1. jobsOf[f] \in Seq(ConfigJobs) /\ Len(jobsOf[f]) < MaxJobs /\ MaxJobs \in Nat
      BY <2>1, NamesAssumption DEF DeclareJob, NamesTypeOK
    <3>2. Append(jobsOf[f], j) \in Seq(ConfigJobs) /\ Len(Append(jobsOf[f], j)) <= MaxJobs
      BY <3>1
    <3> QED BY <2>1, <3>2 DEF DeclareJob, NamesTypeOK
  <2>2. ASSUME NEW f \in WorkflowFiles, NEW n \in 1 .. MaxJobs, RemoveJob(f, n) PROVE NamesTypeOK'
    <3> DEFINE s == jobsOf[f]
    <3>1. s \in Seq(ConfigJobs) /\ n \in 1 .. Len(s) /\ Len(s) <= MaxJobs /\ Len(s) \in Nat /\ MaxJobs \in Nat
      BY <2>2, NamesAssumption DEF RemoveJob, NamesTypeOK
    <3> HIDE DEF s
    <3>2. n - 1 \in 0 .. Len(s) /\ n \in 0 .. Len(s)
      BY <3>1
    <3>3. /\ SubSeq(s, 1, n - 1) \in Seq(ConfigJobs) /\ Len(SubSeq(s, 1, n - 1)) = n - 1
          /\ SubSeq(s, n + 1, Len(s)) \in Seq(ConfigJobs) /\ Len(SubSeq(s, n + 1, Len(s))) = Len(s) - n
      BY <3>1, <3>2, CutIs
    <3>4. RemoveAt(s, n) \in Seq(ConfigJobs) /\ Len(RemoveAt(s, n)) = (n - 1) + (Len(s) - n)
      <4> DEFINE a == SubSeq(s, 1, n - 1)
                 b == SubSeq(s, n + 1, Len(s))
      <4> HIDE DEF a, b
      <4>1. a \in Seq(ConfigJobs) /\ b \in Seq(ConfigJobs) /\ Len(a) = n - 1 /\ Len(b) = Len(s) - n
        BY <3>3 DEF a, b
      <4>2. a \o b \in Seq(ConfigJobs) /\ Len(a \o b) = Len(a) + Len(b)
        BY <4>1
      <4>3. RemoveAt(s, n) = a \o b
        BY DEF RemoveAt, a, b
      <4> QED BY <4>1, <4>2, <4>3
    <3>5. RemoveAt(s, n) \in Seq(ConfigJobs) /\ Len(RemoveAt(s, n)) <= MaxJobs
      BY <3>1, <3>4
    <3> QED BY <2>2, <3>5 DEF RemoveJob, NamesTypeOK, s
  <2>3. ASSUME NEW f \in WorkflowFiles, NEW n \in 1 .. MaxJobs, ObserveJob(f, n) PROVE NamesTypeOK'
    <3>1. PICK name \in RecordedNames(jobsOf[f][n]) :
            observed' = {[file |-> f, key |-> jobsOf[f][n].key, name |-> name]}
      BY <2>3 DEF ObserveJob
    <3>2. Cardinality(observed') = 1
      BY <3>1, FS_Singleton
    <3>3. \A o \in observed' : o.file = f
      BY <3>1
    <3> QED BY <2>3, <3>2, <3>3 DEF ObserveJob, NamesTypeOK
  <2>4. CASE UNCHANGED nameVars
    BY <2>4 DEF nameVars, NamesTypeOK
  <2> QED BY <2>1, <2>2, <2>3, <2>4 DEF NamesNext
<1> QED BY <1>1, <1>2, PTL DEF NamesSpec

LEMMA CancelTypeOKInv == CancelSpec => []CancelTypeOK
<1> DEFINE Bounds ==
      /\ Len(history) <= MaxRuns /\ now <= MaxTime
      /\ \A i \in RunIds : burnt[i] <= now
<1>1. HistorySound /\ Mended /\ Bounds => CancelTypeOK
  <2> SUFFICES ASSUME HistorySound, Mended, Bounds PROVE CancelTypeOK
    OBVIOUS
  <2>1. Cardinality(mended) <= 1
    <3>1. mended = {} \/ \E t : mended = {t}
      BY DEF Mended
    <3>2. CASE mended = {}
      <4>1. Cardinality(mended) = 0
        BY <3>2, FS_EmptySet
      <4> QED BY <4>1
    <3>3. CASE \E t : mended = {t}
      <4>1. Cardinality(mended) = 1
        BY <3>3, FS_Singleton
      <4> QED BY <4>1
    <3> QED BY <3>1, <3>2, <3>3
  <2>2. \A i \in RunIds : history[i].ref \in Refs
    <3>1. \A i \in RunIds : history[i] \in Run
      BY DEF HistorySound, RunIds
    <3> QED BY <3>1 DEF Run
  <2>3. now \in 0 .. MaxTime
    BY CancelAssumption DEF HistorySound
  <2> QED BY <2>1, <2>2, <2>3 DEF CancelTypeOK
<1>2. CancelInit => Bounds
  BY CancelAssumption DEF CancelInit, RunIds
<1>3. HistorySound /\ Bounds /\ [RunNext \/ TextNext]_cancelVars => Bounds'
  <2> SUFFICES ASSUME HistorySound, Bounds, [RunNext \/ TextNext]_cancelVars PROVE Bounds'
    OBVIOUS
  <2>0. /\ history \in Seq(Run) /\ RunIds = 1 .. Len(history) /\ burnt \in Seq(Nat) /\ Len(burnt) = Len(history)
        /\ now \in Nat /\ MaxTime \in Nat /\ MaxRuns \in Nat /\ Len(history) \in Nat
    BY CancelAssumption DEF HistorySound, RunIds
  <2>1. ASSUME NEW ref \in Refs, CreateRun(ref) PROVE Bounds'
    <3>1. now' = now /\ burnt' = Append(burnt, 0) /\ Len(history) < MaxRuns
      BY <2>1 DEF CreateRun
    <3>2. Len(history') = Len(history) + 1 /\ RunIds' = 1 .. Len(history) + 1
      BY <2>0, <2>1 DEF CreateRun, RunIds
    <3>3. ASSUME NEW i \in RunIds' PROVE burnt'[i] <= now
      <4>1. CASE i = Len(history) + 1
        BY <2>0, <3>1, <4>1
      <4>2. CASE i # Len(history) + 1
        <5>1. i \in RunIds
          BY <2>0, <3>2, <4>2
        <5>2. burnt'[i] = burnt[i]
          BY <2>0, <3>1, <5>1
        <5> QED BY <5>1, <5>2
      <4> QED BY <4>1, <4>2
    <3> QED BY <2>0, <3>1, <3>2, <3>3
  <2>2. ASSUME NEW i \in RunIds, StartRun(i) \/ FinishJob(i) \/ FinishRun(i) \/ Rerun(i) PROVE Bounds'
    <3>1. \E r \in Run : history' = [history EXCEPT ![i] = r] /\ UNCHANGED <<now, burnt>>
      <4>1. CASE StartRun(i)
        BY <4>1, StartRunIs
      <4>2. CASE FinishJob(i)
        BY <4>2, FinishJobIs
      <4>3. CASE FinishRun(i)
        BY <4>3, FinishRunIs
      <4>4. CASE Rerun(i)
        BY <4>4, RerunIs
      <4> QED BY <2>2, <4>1, <4>2, <4>3, <4>4
    <3>2. now' = now /\ burnt' = burnt /\ Len(history') = Len(history) /\ RunIds' = RunIds
      BY <3>1, OneRun
    <3> QED BY <3>2
  <2>3. CASE Second
    <3>1. now' = now + 1 /\ now < MaxTime /\ history' = history /\ RunIds' = RunIds
      BY <2>3 DEF Second, RunIds
    <3>2. \A i \in RunIds : burnt'[i] \in {burnt[i], burnt[i] + 1}
      BY <2>3 DEF Second
    <3>3. \A i \in RunIds : burnt[i] \in Nat
      BY <2>0
    <3>4. \A i \in RunIds : burnt'[i] <= now + 1
      BY <2>0, <3>2, <3>3
    <3> QED BY <2>0, <3>1, <3>4
  <2>4. CASE TextNext \/ UNCHANGED cancelVars
    <3>1. now' = now /\ burnt' = burnt /\ history' = history
      BY <2>4 DEF TextNext, MergeBlock, RewriteFile, cancelVars
    <3> QED BY <3>1 DEF RunIds
  <2> QED BY <2>1, <2>2, <2>3, <2>4 DEF RunNext
<1>4. CancelSpec => []HistorySound
  BY BurntInv, PTL
<1> HIDE DEF Bounds
<1> QED BY <1>1, <1>2, <1>3, <1>4, MendedInv, PTL DEF CancelSpec

LEMMA IgnoreTypeOKInv == IgnoreSpec => []IgnoreTypeOK
<1>1. IgnoreInit => IgnoreTypeOK
  BY DEF IgnoreInit, IgnoreTypeOK
<1>2. IgnoreTypeOK /\ [IgnoreNext]_ignoreVars => IgnoreTypeOK'
  <2> SUFFICES ASSUME IgnoreTypeOK, [IgnoreNext]_ignoreVars PROVE IgnoreTypeOK'
    OBVIOUS
  <2>1. ASSUME NEW n \in DOMAIN Targets, Declare(n) \/ Withdraw(n) PROVE IgnoreTypeOK'
    BY <2>1 DEF Declare, Withdraw, IgnoreTypeOK
  <2>2. CASE AuditPolicy
    <3> DEFINE hits(k) == {n \in declared : Matches(Targets[n], k)}
               new == {k \in Keys \ DOMAIN silenced : hits(k) # {}}
    <3>1. /\ silenced' = [k \in new \cup DOMAIN silenced |-> IF k \in new THEN Targets[Min(hits(k))] ELSE silenced[k]]
          /\ current' = declared /\ declared' = declared
      BY <2>2 DEF AuditPolicy
    <3>2. \A k \in new : Min(hits(k)) \in DOMAIN Targets
      <4> TAKE k \in new
      <4>1. hits(k) \subseteq DOMAIN Targets /\ hits(k) \in SUBSET Nat /\ hits(k) # {}
        BY IgnoreAssumption DEF IgnoreTypeOK
      <4> HIDE DEF hits, new
      <4>2. \E m \in hits(k) : \A x \in hits(k) : m <= x
        BY <4>1, LeastNumber
      <4>3. Min(hits(k)) \in hits(k)
        BY <4>2 DEF Min
      <4> QED BY <4>1, <4>3
    <3>3. \A k \in new : Targets[Min(hits(k))] \in Range(Targets)
      <4> HIDE DEF hits, new
      <4> QED BY <3>2 DEF Range
    <3> HIDE DEF hits
    <3>4. DOMAIN silenced' = new \cup DOMAIN silenced /\ new \subseteq Keys
      BY <3>1
    <3>5. \A k \in DOMAIN silenced' : silenced'[k] \in Range(Targets) \cup {<<"cli">>}
      <4> HIDE DEF new
      <4> QED BY <3>1, <3>3, <3>4 DEF IgnoreTypeOK
    <3> QED BY <3>1, <3>4, <3>5 DEF IgnoreTypeOK
  <2>3. ASSUME NEW k \in Keys, SuppressFinding(k) PROVE IgnoreTypeOK'
    BY <2>3 DEF SuppressFinding, IgnoreTypeOK
  <2>4. ASSUME NEW k \in Keys, Unsuppress(k) PROVE IgnoreTypeOK'
    BY <2>4 DEF Unsuppress, IgnoreTypeOK
  <2>5. CASE UNCHANGED ignoreVars
    BY <2>5 DEF ignoreVars, IgnoreTypeOK
  <2> QED BY <2>1, <2>2, <2>3, <2>4, <2>5 DEF IgnoreNext
<1> QED BY <1>1, <1>2, PTL DEF IgnoreSpec

LEMMA HistoryTypeOKInv == HistorySpec => []HistoryTypeOK
<1>1. AttemptsKept => HistoryTypeOK
  <2> SUFFICES ASSUME AttemptsKept PROVE HistoryTypeOK
    OBVIOUS
  <2>1. DOMAIN ledger = 1 .. Len(ledger) /\ DOMAIN rows = 1 .. Len(ledger)
    BY DEF AttemptsKept
  <2>2. ASSUME NEW n \in DOMAIN ledger
        PROVE  /\ ledger[n].flow \in Flows /\ ledger[n].failed \in Seq(SUBSET Legs)
               /\ rows[n].attempt \in 0 .. Len(ledger[n].failed) /\ rows[n].path \in BOOLEAN
               /\ rows[n].jobs \cup rows[n].told \subseteq DOMAIN ledger[n].failed
    <3>1. ledger[n] \in Ended /\ rows[n] \in Stored /\ n \in 1 .. Len(ledger)
      BY <2>1 DEF AttemptsKept
    <3>2. /\ ledger[n].flow \in Flows /\ ledger[n].failed \in Seq(SUBSET Legs)
          /\ rows[n].attempt \in Nat /\ rows[n].path \in BOOLEAN
      BY <3>1 DEF Ended, Stored
    <3>3. rows[n].attempt <= Len(ledger[n].failed) /\ rows[n].jobs \cup rows[n].told \subseteq 1 .. Len(ledger[n].failed)
      BY <3>1 DEF AttemptsKept
    <3> QED BY <3>2, <3>3
  <2> QED BY <2>1, <2>2 DEF HistoryTypeOK, AttemptsKept
<1> QED BY <1>1, AttemptsKeptInv, PTL

-----------------------------------------------------------------------------
(* The rules as scenes of one specification. *)

\* Each step is one of a component, and leaves the others be.
LEMMA EachOnItsOwn ==
  Spec => NamesSpec /\ CacheSpec /\ CancelSpec /\ PathSpec /\ IgnoreSpec /\ HistorySpec
<1>1. Init => NamesInit /\ CacheInit /\ CancelInit /\ PathInit /\ IgnoreInit /\ HistoryInit
  BY DEF Init
<1>2. [Next]_rules => [NamesNext]_nameVars
  BY DEF Next, rules, NamesStep, CacheStep, RunStep, TextStep, PathStep, IgnoreStep, HistoryStep
<1>3. [Next]_rules => [CacheNext]_cacheVars
  BY DEF Next, rules, NamesStep, CacheStep, RunStep, TextStep, PathStep, IgnoreStep, HistoryStep
<1>4. [Next]_rules => [RunNext \/ TextNext]_cancelVars
  BY DEF Next, rules, NamesStep, CacheStep, RunStep, TextStep, PathStep, IgnoreStep, HistoryStep
<1>5. [Next]_rules => [PathNext]_pathVars
  BY DEF Next, rules, NamesStep, CacheStep, RunStep, TextStep, PathStep, IgnoreStep, HistoryStep
<1>6. [Next]_rules => [IgnoreNext]_ignoreVars
  BY DEF Next, rules, NamesStep, CacheStep, RunStep, TextStep, PathStep, IgnoreStep, HistoryStep
<1>7. [Next]_rules => [HistoryNext]_historyVars
  BY DEF Next, rules, NamesStep, CacheStep, RunStep, TextStep, PathStep, IgnoreStep, HistoryStep
<1> QED BY <1>1, <1>2, <1>3, <1>4, <1>5, <1>6, <1>7, PTL
  DEF Spec, NamesSpec, CacheSpec, CancelSpec, PathSpec, IgnoreSpec, HistorySpec

\* The state of each rule is of the types TypeOK gives: a step of one scene touches no other.
THEOREM TypesOfRules == Spec => []TypeOK
<1>1. NamesTypeOK /\ CacheTypeOK /\ CancelTypeOK /\ PathTypeOK /\ IgnoreTypeOK /\ HistoryTypeOK => TypeOK
  BY DEF TypeOK
<1> QED BY <1>1, EachOnItsOwn, NamesTypeOKInv, CacheTypeOKInv, CancelTypeOKInv, PathTypeOKInv, IgnoreTypeOKInv,
           HistoryTypeOKInv, PTL

\* A fix that was merged is not proposed again and does no harm, for both fixers, as the run checks it.
THEOREM FixesStickHolds == Spec => []FixesStick
<1>1. CacheFixSticks /\ CancelFixSticks => FixesStick
  BY DEF FixesStick
<1> QED BY <1>1, EachOnItsOwn, CacheFixSticksHolds, CancelFixSticksHolds, PTL
===============================================================================
