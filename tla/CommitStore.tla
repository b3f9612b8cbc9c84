----------------------------- MODULE CommitStore ------------------------------
(***************************************************************************)
(* repo_commit and run.tree_sha: passes of `cadence commits backfill`,     *)
(* while runs arrive and other passes run.  A pass reads which commits are *)
(* missing, fetches them one after the other, and only then writes them,   *)
(* in one transaction, and the tree shas of the runs, in another.          *)
(***************************************************************************)
EXTENDS Naturals, FiniteSets, FiniteSetsExt

CONSTANTS
  Runs,        \* numbers, in the order of run.created_at
  head,        \* run.head_sha
  treeOf,      \* the tree of each commit, at GitHub
  Lost,        \* the commits GitHub answers 404 for
  Backfillers,
  Limit,       \* --limit
  NoTree, NoCommit,
  MaxPasses, MaxCuts   \* bounds on passes, and on those cut short

Shas == {head[r] : r \in Runs}

ASSUME CommitAssumption ==
  /\ Runs \subseteq Nat /\ IsFiniteSet(Runs)
  /\ DOMAIN head = Runs
  /\ NoTree \notin {treeOf[c] : c \in Shas}
  /\ NoCommit # NoTree /\ NoCommit \notin {treeOf[c] : c \in Shas}
  /\ Lost \subseteq Shas
  /\ Limit \in Nat \ {0} /\ MaxPasses \in Nat /\ MaxCuts \in Nat

VARIABLES
  runs,      \* the runs that are stored
  runTree,   \* run.tree_sha
  commits,   \* repo_commit
  place,     \* where each pass is
  todo,      \* the commits it has still to fetch
  records,   \* those it has fetched and not written yet
  known,     \* history: the commits stored, and the runs there, when it began
  late,      \* history: the runs that came after their commit
  passes, cuts

commitVars == <<runs, runTree, commits, place, todo, records, known, late, passes, cuts>>

\* What is stored of a commit is its tree; its paths come and go with it.
Trees == {treeOf[c] : c \in Shas} \cup {NoTree}
Stored == {c \in Shas : commits[c] # NoCommit}
NothingKnown == [stored |-> {}, runs |-> {}]

CommitTypeOK ==
  /\ runs \subseteq Runs
  /\ runTree \in [Runs -> Trees]
  /\ commits \in [Shas -> Trees \cup {NoCommit}]
  /\ place \in [Backfillers -> {"idle", "fetching", "filling"}]
  /\ todo \in [Backfillers -> SUBSET Shas]
  /\ \A b \in Backfillers : DOMAIN records[b] \subseteq Shas
       /\ \A c \in DOMAIN records[b] : records[b][c] \in Trees
  /\ late \subseteq runs
  /\ passes \in 0 .. MaxPasses /\ cuts \in 0 .. MaxCuts

NoRecords == [c \in {} |-> NoCommit]

CommitInit ==
  /\ runs = {}
  /\ runTree = [r \in Runs |-> NoTree]
  /\ commits = [c \in Shas |-> NoCommit]
  /\ place = [b \in Backfillers |-> "idle"]
  /\ todo = [b \in Backfillers |-> {}]
  /\ records = [b \in Backfillers |-> NoRecords]
  /\ known = [b \in Backfillers |-> NothingKnown]
  /\ late = {}
  /\ passes = 0 /\ cuts = 0

-----------------------------------------------------------------------------
\* The newest of some runs that has the commit: DISTINCT ON (head_sha) ... created_at DESC.
NewestOf(c, rs) == Max({r \in rs : head[r] = c})
Newest(c) == NewestOf(c, runs)

\* The first Limit of some commits, by their newest runs.
FirstOf(cs) == {c \in cs : Cardinality({d \in cs : Newest(d) > Newest(c)}) < Limit}

\* Mutant of Unfetched: the limit counts the commits that are there as well.
UnfetchedOfNewest == FirstOf({head[r] : r \in runs}) \ Stored

\* unfetched_shas.
Unfetched == FirstOf({head[r] : r \in runs} \ Stored)

\* ingest stores a run, without a tree sha.
RunArrives(r) ==
  /\ r \notin runs
  /\ runs' = runs \cup {r}
  /\ late' = IF head[r] \in Stored THEN late \cup {r} ELSE late
  /\ UNCHANGED <<runTree, commits, place, todo, records, known, passes, cuts>>

\* commits_backfill reads what is missing; with nothing missing it is over at once.
BeginPass(b) ==
  /\ place[b] = "idle" /\ passes < MaxPasses
  /\ passes' = passes + 1
  /\ Unfetched # {}
  /\ place' = [place EXCEPT ![b] = "fetching"]
  /\ todo' = [todo EXCEPT ![b] = Unfetched]
  /\ known' = [known EXCEPT ![b] = [stored |-> Stored, runs |-> runs]]
  /\ UNCHANGED <<runs, runTree, commits, records, late, cuts>>

\* fetch_commit, newest first: a record, which may lack its tree, or None for 404 and 410.
FetchCommit(b, c) ==
  /\ place[b] = "fetching"
  /\ c \in todo[b]
  /\ \A d \in todo[b] : NewestOf(d, known[b].runs) <= NewestOf(c, known[b].runs)
  /\ todo' = [todo EXCEPT ![b] = @ \ {c}]
  /\ IF c \in Lost
       THEN UNCHANGED records
       ELSE \E t \in {treeOf[c], NoTree} :
              records' = [records EXCEPT ![b] =
                [d \in DOMAIN @ \cup {c} |-> IF d = c THEN t ELSE @[d]]]
  /\ UNCHANGED <<runs, runTree, commits, place, known, late, passes, cuts>>

\* Mutant of Coalesce: what comes later counts.
LastTree(new, old) == new

Coalesce(new, old) == IF new # NoTree THEN new ELSE old

\* The upsert: a known tree stays.
Merged(new, old) == IF old = NoCommit THEN new ELSE Coalesce(new, old)

\* store_commits, in one transaction, when all are fetched.
StoreCommits(b) ==
  /\ place[b] = "fetching" /\ todo[b] = {}
  /\ commits' = [c \in Shas |-> IF c \in DOMAIN records[b]
                                  THEN Merged(records[b][c], commits[c]) ELSE commits[c]]
  /\ records' = [records EXCEPT ![b] = NoRecords]
  /\ place' = [place EXCEPT ![b] = "filling"]
  /\ UNCHANGED <<runs, runTree, todo, known, late, passes, cuts>>

\* Mutant of Fillable: one run of a commit.
FillableNewest == {r \in runs : runTree[r] = NoTree /\ head[r] \in Stored
                                /\ commits[head[r]] # NoTree /\ r = Newest(head[r])}

\* backfill_tree_shas, in a transaction of its own: every run without a tree whose commit has one.
Fillable == {r \in runs : runTree[r] = NoTree /\ head[r] \in Stored /\ commits[head[r]] # NoTree}

EndPass(b) ==
  /\ place' = [place EXCEPT ![b] = "idle"]
  /\ todo' = [todo EXCEPT ![b] = {}]
  /\ records' = [records EXCEPT ![b] = NoRecords]
  /\ known' = [known EXCEPT ![b] = NothingKnown]

FillTrees(b) ==
  /\ place[b] = "filling"
  /\ runTree' = [r \in Runs |-> IF r \in Fillable THEN commits[head[r]] ELSE runTree[r]]
  /\ late' = late \ Fillable
  /\ EndPass(b)
  /\ UNCHANGED <<runs, commits, passes, cuts>>

\* A rate limit, an error that outlasts its retries, Ctrl-C: what was fetched is lost, and the
\* trees are not filled.
PassCut(b) ==
  /\ place[b] # "idle" /\ cuts < MaxCuts
  /\ cuts' = cuts + 1
  /\ EndPass(b)
  /\ UNCHANGED <<runs, runTree, commits, late, passes>>

CommitNext ==
  \/ \E r \in Runs : RunArrives(r)
  \/ \E b \in Backfillers :
       \/ BeginPass(b) \/ (\E c \in Shas : FetchCommit(b, c))
       \/ StoreCommits(b) \/ FillTrees(b) \/ PassCut(b)

CommitSpec == CommitInit /\ [][CommitNext]_commitVars

-----------------------------------------------------------------------------
(* Properties. *)

\* A tree sha that is known stays, in repo_commit and in run, and is that of the run's own
\* commit, though passes overlap and later payloads are thinner (the docstring of store_commits).
TreesStay ==
  [][/\ \A c \in Stored : commits[c] # NoTree => commits'[c] = commits[c]
     /\ \A r \in runs : runTree[r] # NoTree => runTree'[r] = runTree[r] /\ runTree[r] = treeOf[head[r]]]_commitVars

\* When all passes are over and none was cut short, a run whose commit has a tree has it too,
\* unless it came after its commit: then it waits for a pass that has something to fetch.
TreesFilled ==
  (cuts = 0 /\ \A b \in Backfillers : place[b] = "idle")
    => \A r \in runs \ late : (head[r] \in Stored /\ commits[head[r]] # NoTree) => runTree[r] # NoTree

\* A pass that comes to its end has stored a commit that was missing, as long as fewer than
\* Limit of those it knew of are lost: with as many it would ask for the same ones for ever.
PassesAdvance ==
  [][\A b \in Backfillers :
       (place[b] = "filling" /\ place'[b] = "idle" /\ cuts' = cuts)
         => LET seen == {head[r] : r \in known[b].runs}
            IN  \/ Stored \ known[b].stored # {}
                \/ Cardinality(seen \cap Lost) >= Limit
                \/ seen \ (known[b].stored \cup Lost) = {}]_commitVars
=============================================================================
