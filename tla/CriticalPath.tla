----------------------------- MODULE CriticalPath -----------------------------
(***************************************************************************)
(* How long a run takes, by its needs: graph and the times of its jobs:    *)
(* the spans that matrix legs collapse to, the sort and the longest path   *)
(* in one pass, and the same again without an edge the detector calls      *)
(* false.                                                                  *)
(***************************************************************************)
EXTENDS Integers, Sequences, FiniteSets, SequencesExt, FiniteSetsExt, Functions

CONSTANTS
  Nodes,        \* jobs of a workflow, numbers: their order by name
  Graphs,       \* the needs: graphs, sets of pairs <<job, dep>>
  LegSets,      \* what is observed of a job: sequences of legs created, started, completed
  Artifacts         \* the jobs that upload and download artifacts: records of two sets

ASSUME PathAssumption ==
  /\ Nodes \subseteq Nat /\ IsFiniteSet(Nodes)
  /\ \A g \in Graphs : g \subseteq Nodes \X Nodes
  /\ \A l \in LegSets :
       /\ l \in Seq([created : Int, started : Int, completed : Int])
       /\ \A n \in DOMAIN l : l[n].started <= l[n].completed

VARIABLES
  needs,    \* the graph the pass is over
  legs,     \* [Nodes -> the legs observed of each]
  flow,     \* who uploads, who downloads
  order,    \* toposort's order so far
  finish,   \* [what is in order -> when it is over]
  before    \* the graph and the total before an edge was taken out, at most one

pathVars == <<needs, legs, flow, order, finish, before>>

Over == Range(order)
Ready == {n \in Nodes \ Over : \A d \in Nodes : <<n, d>> \in needs => d \in Over}
PathDone == Ready = {}

PathTypeOK ==
  /\ needs \subseteq Nodes \X Nodes /\ Over \subseteq Nodes
  /\ DOMAIN finish = Over /\ \A n \in Over : finish[n] >= 0
  /\ Cardinality(before) <= 1

-----------------------------------------------------------------------------
(* aggregate_spans: one timing for the legs of a job. *)

\* Mutant of Span: the contradiction is looked for in the span, not in each leg.
SpanAggregate(l) ==
  LET started == Min({l[n].started : n \in DOMAIN l})
      wait    == started - Min({l[n].created : n \in DOMAIN l})
  IN  [queue   |-> Max({0, wait}),
       exec    |-> Max({l[n].completed : n \in DOMAIN l}) - started,
       unknown |-> wait < 0]

Span(l) ==
  LET started == Min({l[n].started : n \in DOMAIN l})
      wait    == started - Min({l[n].created : n \in DOMAIN l})
  IN  [queue   |-> Max({0, wait}),
       exec    |-> Max({l[n].completed : n \in DOMAIN l}) - started,
       unknown |-> \E n \in DOMAIN l : l[n].started < l[n].created]

\* A job that was not observed passes the time through.
Cost(n) == IF legs[n] = <<>> THEN 0 ELSE Span(legs[n]).queue + Span(legs[n]).exec

-----------------------------------------------------------------------------
(* independence_verdict, by the artifacts; references, outputs, services and environments make    *)
(* the verdict no in the same way.                                                               *)
Independent(job, dep) == ~(dep \in flow.uploads /\ job \in flow.downloads)

-----------------------------------------------------------------------------
PathInit ==
  /\ needs \in Graphs
  /\ legs \in [Nodes -> LegSets]
  /\ flow \in Artifacts
  /\ order = <<>> /\ finish = <<>>
  /\ before = {}

\* Mutant of StartOf: the first dependency, not the slowest.
StartOfFirst(n) ==
  LET deps == {d \in Nodes : <<n, d>> \in needs} IN IF deps = {} THEN 0 ELSE finish[Min(deps)]

\* A job starts when the slowest of what it needs is over.
StartOf(n) == Max({0} \cup {finish[d] : d \in {m \in Nodes : <<n, m>> \in needs}})

\* toposort takes the first of the jobs that are ready, critical_path times it.
TakeNode ==
  /\ Ready # {}
  /\ LET n == Min(Ready)
     IN  /\ order' = Append(order, n)
         /\ finish' = [m \in Over \cup {n} |-> IF m = n THEN StartOf(n) + Cost(n) ELSE finish[m]]
  /\ UNCHANGED <<needs, legs, flow, before>>

Total == Max({0} \cup {finish[n] : n \in Over})

\* replay_without_edge.
StripEdge(job, dep) ==
  /\ PathDone /\ before = {} /\ Over = Nodes
  /\ <<job, dep>> \in needs /\ Independent(job, dep)
  /\ before' = {[needs |-> needs, total |-> Total, job |-> job]}
  /\ needs' = needs \ {<<job, dep>>}
  /\ order' = <<>> /\ finish' = <<>>
  /\ UNCHANGED <<legs, flow>>

PathNext == TakeNode \/ \E job, dep \in Nodes : StripEdge(job, dep)

PathSpec == PathInit /\ [][PathNext]_pathVars

-----------------------------------------------------------------------------
(* Properties. *)

\* Chains of a graph: each job needs the one before it.  One more than there are jobs closes the
\* longest cycle.
Chains(g) == {c \in SeqOf(Nodes, Cardinality(Nodes) + 1) : \A n \in 2 .. Len(c) : <<c[n], c[n - 1]>> \in g}
ChainCost(c) ==
  LET upTo[n \in 0 .. Len(c)] == IF n = 0 THEN 0 ELSE upTo[n - 1] + Cost(c[n]) IN upTo[Len(c)]

\* toposort gives up on cycles and on nothing else, and the total is that of the longest chain:
\* no less than the slowest job (theoretical_floor), and no more once an edge is gone.
LongestPath ==
  PathDone =>
    LET chains == Chains(needs)
    IN  IF Over = Nodes
        THEN /\ \A c \in chains : Len(c) > 1 => Head(c) # Last(c)
             /\ Total = Max({0} \cup {ChainCost(c) : c \in chains})
             /\ \A n \in Nodes : Total >= Cost(n)
             /\ \A b \in before : Total <= b.total
        ELSE \E c \in chains : Len(c) > 1 /\ Head(c) = Last(c)

\* Queue and execution add up to the span of the job, from its first creation to its last end,
\* unless the queue is marked unknown; and unknown is every leg that started before it existed.
SpansAddUp ==
  \A n \in Nodes :
    LET l == legs[n]
    IN  l # <<>> =>
          \/ Span(l).unknown
          \/ /\ Cost(n) = Max({l[m].completed : m \in DOMAIN l}) - Min({l[m].created : m \in DOMAIN l})
             /\ \A m \in DOMAIN l : l[m].created <= l[m].started
=============================================================================
