------------------------------ MODULE PathProofs ------------------------------
(***************************************************************************)
(* The times of jobs: the legs of a job add up to its span, and what       *)
(* critical_path returns is the length of the longest path, for any jobs,  *)
(* any finite graph and any legs.                                          *)
(*                                                                         *)
(* While the walk goes on, Timed holds of the jobs it has taken: each ends *)
(* when the longest chain up to it does (TimesAreChains), and no chain of  *)
(* them ends later (ChainsEndInTime).  Jobs left over when none is ready   *)
(* lie on a cycle or behind one: each needs another of them, so there are  *)
(* walks of every length among them, longer than there are jobs            *)
(* (LeftOverInCycle).                                                      *)
(***************************************************************************)
EXTENDS CriticalPath, NumberLemmas

Leg == [created : Int, started : Int, completed : Int]

\* What a job's legs collapse to.
LEMMA SpanIs ==
  ASSUME NEW l \in LegSets, l # <<>>
  PROVE  /\ Span(l).queue \in Nat /\ Span(l).exec \in Nat
         /\ \/ Span(l).unknown
            \/ /\ Span(l).queue + Span(l).exec = Max({l[m].completed : m \in DOMAIN l}) - Min({l[m].created : m \in DOMAIN l})
               /\ \A m \in DOMAIN l : l[m].created <= l[m].started
<1> DEFINE D == DOMAIN l
           S == {l[n].started : n \in D}
           C == {l[n].created : n \in D}
           E == {l[n].completed : n \in D}
           fs == [n \in D |-> l[n].started]
           fc == [n \in D |-> l[n].created]
           fe == [n \in D |-> l[n].completed]
<1>1. /\ D = 1 .. Len(l) /\ Len(l) \in Nat /\ Len(l) # 0
      /\ \A n \in D : l[n] \in Leg /\ l[n].started <= l[n].completed
  <2>1. l \in Seq(Leg) /\ \A n \in DOMAIN l : l[n].started <= l[n].completed
    BY PathAssumption DEF Leg
  <2> QED BY <2>1
<1>2. IsFiniteSet(D) /\ D # {}
  <2>1. IsFiniteSet(1 .. Len(l)) /\ 1 \in 1 .. Len(l)
    BY <1>1, CountTo
  <2> QED BY <1>1, <2>1
<1>3. \A n \in D : /\ l[n].started \in Int /\ l[n].created \in Int /\ l[n].completed \in Int
                   /\ l[n].started <= l[n].completed
  BY <1>1 DEF Leg
<1>4. fs \in [D -> Int] /\ fc \in [D -> Int] /\ fe \in [D -> Int]
  BY <1>3
<1>5. S = {fs[n] : n \in D} /\ C = {fc[n] : n \in D} /\ E = {fe[n] : n \in D}
  OBVIOUS
<1>6. PICK a \in D, b \in D, c \in D : Min(S) = l[a].started /\ Min(C) = l[b].created /\ Max(E) = l[c].completed
  <2> HIDE DEF D, S, C, E
  <2>1. \E n \in D : Min(S) = fs[n]
    <3> HIDE DEF fs
    <3> QED BY <1>2, <1>4, <1>5, ValuesFinite
  <2>2. \E n \in D : Min(C) = fc[n]
    <3> HIDE DEF fc
    <3> QED BY <1>2, <1>4, <1>5, ValuesFinite
  <2>3. \E n \in D : Max(E) = fe[n]
    <3> HIDE DEF fe
    <3> QED BY <1>2, <1>4, <1>5, ValuesFinite
  <2> QED BY <2>1, <2>2, <2>3
<1>7. \A n \in D : Min(S) <= l[n].started /\ Min(C) <= l[n].created /\ l[n].completed <= Max(E)
  <2> HIDE DEF D, S, C, E
  <2>1. \A n \in D : Min(S) <= fs[n]
    <3> HIDE DEF fs
    <3> QED BY <1>2, <1>4, <1>5, ValuesFinite
  <2>2. \A n \in D : Min(C) <= fc[n]
    <3> HIDE DEF fc
    <3> QED BY <1>2, <1>4, <1>5, ValuesFinite
  <2>3. \A n \in D : fe[n] <= Max(E)
    <3> HIDE DEF fe
    <3> QED BY <1>2, <1>4, <1>5, ValuesFinite
  <2> QED BY <2>1, <2>2, <2>3
<1> DEFINE wait == Min(S) - Min(C)
<1>8. /\ Span(l).queue = Max({0, wait}) /\ Span(l).exec = Max(E) - Min(S)
      /\ Span(l).unknown <=> \E n \in D : l[n].started < l[n].created
  BY DEF Span
<1> HIDE DEF D, S, C, E
<1>9. /\ Min(S) \in Int /\ Min(C) \in Int /\ Max(E) \in Int /\ wait \in Int
  BY <1>3, <1>6
<1>10. Max(E) - Min(S) \in Nat
  BY <1>3, <1>6, <1>7, <1>9
<1>11. Max({0, wait}) \in Nat /\ (wait >= 0 => Max({0, wait}) = wait)
  <2> HIDE DEF wait
  <2>1. {0, wait} \in SUBSET Int /\ {0, wait} # {}
    BY <1>9
  <2>2. IsFiniteSet({0, wait})
    <3>1. IsFiniteSet({wait}) 
      BY FS_Singleton
    <3>2. IsFiniteSet({wait} \cup {0}) /\ {wait} \cup {0} = {0, wait}
      BY <3>1, FS_AddElement
    <3> QED BY <3>2
  <2>3. Max({0, wait}) \in {0, wait} /\ \A x \in {0, wait} : x <= Max({0, wait})
    BY <2>1, <2>2, MaxIsLargest
  <2> QED BY <1>9, <2>3
<1>12. ASSUME ~ \E n \in D : l[n].started < l[n].created
       PROVE  /\ wait >= 0 /\ \A m \in D : l[m].created <= l[m].started
              /\ wait + (Max(E) - Min(S)) = Max(E) - Min(C)
  <2>1. \A m \in D : l[m].created <= l[m].started
    BY <1>3, <1>12
  <2>2. Min(C) <= l[a].created /\ l[a].created <= l[a].started
    BY <1>7, <2>1
  <2> QED BY <1>3, <1>6, <1>9, <2>1, <2>2
<1> QED BY <1>8, <1>10, <1>11, <1>12 DEF D, C, E

-----------------------------------------------------------------------------
\* What the pass is over.
Given ==
  /\ needs \subseteq Nodes \X Nodes
  /\ legs \in [Nodes -> LegSets]

LEMMA GivenInv == PathSpec => []Given
<1>1. PathInit => Given
  BY PathAssumption DEF PathInit, Given
<1>2. Given /\ [PathNext]_pathVars => Given'
  BY DEF Given, PathNext, TakeNode, StripEdge, pathVars
<1> QED BY <1>1, <1>2, PTL DEF PathSpec

LEMMA CostIs ==
  ASSUME Given, NEW n \in Nodes
  PROVE  Cost(n) \in Nat
<1>1. legs[n] \in LegSets
  BY DEF Given
<1>2. CASE legs[n] = <<>>
  BY <1>2 DEF Cost
<1>3. CASE legs[n] # <<>>
  <2>1. Span(legs[n]).queue \in Nat /\ Span(legs[n]).exec \in Nat
    BY <1>1, <1>3, SpanIs
  <2>2. Cost(n) = Span(legs[n]).queue + Span(legs[n]).exec
    BY <1>3 DEF Cost
  <2> QED BY <2>1, <2>2
<1> QED BY <1>2, <1>3

\* Queue and execution of a job add up to the span from the first creation of its legs to the last
\* end, or the queue is marked unknown, whatever the legs (aggregate_spans).
THEOREM SpansAddUpHolds == PathSpec => []SpansAddUp
<1>1. Given => SpansAddUp
  <2> SUFFICES ASSUME Given, NEW n \in Nodes, legs[n] # <<>>
               PROVE  \/ Span(legs[n]).unknown
                      \/ /\ Cost(n) = Max({legs[n][m].completed : m \in DOMAIN legs[n]}) - Min({legs[n][m].created : m \in DOMAIN legs[n]})
                         /\ \A m \in DOMAIN legs[n] : legs[n][m].created <= legs[n][m].started
    BY DEF SpansAddUp
  <2>1. legs[n] \in LegSets /\ Cost(n) = Span(legs[n]).queue + Span(legs[n]).exec
    BY DEF Given, Cost
  <2> QED BY <2>1, SpanIs
<1> QED BY <1>1, GivenInv, PTL
-----------------------------------------------------------------------------
(* The cost of a chain, job by job. *)

Sums(g, c) ==
  /\ g \in [0 .. Len(c) -> Nat] /\ g[0] = 0
  /\ \A n \in 1 .. Len(c) : g[n] = g[n - 1] + Cost(c[n])

LEMMA SumsExist ==
  ASSUME Given, NEW c \in Seq(Nodes)
  PROVE  \E g : Sums(g, c) /\ ChainCost(c) = g[Len(c)]
<1> DEFINE There(m) == \E g : g = [n \in 0 .. m |-> IF n = 0 THEN 0 ELSE g[n - 1] + Cost(c[n])]
           T == {m \in Nat : ~There(m)}
<1>0. Len(c) \in Nat /\ \A n \in 1 .. Len(c) : c[n] \in Nodes /\ Cost(c[n]) \in Nat
  BY CostIs
<1>1. There(Len(c))
  <2> SUFFICES ASSUME T # {} PROVE FALSE
    BY <1>0
  <2>1. PICK m \in T : \A x \in T : m <= x
    <3>1. T \in SUBSET Nat
      OBVIOUS
    <3> HIDE DEF T
    <3> QED BY <3>1, LeastNumber
  <2>2. CASE m = 0
    <3> DEFINE h == [n \in 0 .. 0 |-> 0]
    <3>1. h = [n \in 0 .. m |-> IF n = 0 THEN 0 ELSE h[n - 1] + Cost(c[n])]
      BY <2>2
    <3> QED BY <3>1
  <2>3. CASE m # 0
    <3>1. There(m - 1)
      <4> HIDE DEF There
      <4> QED BY <2>1, <2>3
    <3>2. PICK g : g = [n \in 0 .. m - 1 |-> IF n = 0 THEN 0 ELSE g[n - 1] + Cost(c[n])]
      BY <3>1
    <3> DEFINE h == [n \in 0 .. m |-> IF n = m THEN g[m - 1] + Cost(c[m]) ELSE g[n]]
    <3>3. \A n \in 0 .. m : h[n] = IF n = 0 THEN 0 ELSE h[n - 1] + Cost(c[n])
      <4> TAKE n \in 0 .. m
      <4>1. CASE n = m
        BY <2>3, <4>1
      <4>2. CASE n # m
        <5>1. n \in 0 .. m - 1 /\ h[n] = g[n] /\ (n # 0 => h[n - 1] = g[n - 1])
          BY <4>2
        <5>2. g[n] = IF n = 0 THEN 0 ELSE g[n - 1] + Cost(c[n])
          <6> HIDE DEF T, h, There
          <6> QED BY <3>2, <5>1, Zenon
        <5> QED BY <5>1, <5>2
      <4> QED BY <4>1, <4>2
    <3>4. h = [n \in 0 .. m |-> IF n = 0 THEN 0 ELSE h[n - 1] + Cost(c[n])]
      BY <3>3
    <3> QED BY <3>4
  <2> QED BY <2>2, <2>3
<1>2. PICK g : /\ g = [n \in 0 .. Len(c) |-> IF n = 0 THEN 0 ELSE g[n - 1] + Cost(c[n])]
               /\ ChainCost(c) = g[Len(c)]
  BY <1>1, Zenon DEF ChainCost
<1>3. g[0] = 0 /\ \A n \in 1 .. Len(c) : g[n] = g[n - 1] + Cost(c[n])
  <2>1. \A n \in 0 .. Len(c) : g[n] = IF n = 0 THEN 0 ELSE g[n - 1] + Cost(c[n])
    BY <1>2, Zenon
  <2> QED BY <1>0, <2>1
<1> DEFINE U == {n \in 0 .. Len(c) : g[n] \notin Nat}
<1>4. U = {}
  <2> SUFFICES ASSUME U # {} PROVE FALSE
    OBVIOUS
  <2>1. PICK m \in U : \A x \in U : m <= x
    <3>1. U \in SUBSET Nat
      BY <1>0
    <3> HIDE DEF U
    <3> QED BY <3>1, LeastNumber
  <2>2. m # 0 /\ m \in 1 .. Len(c)
    BY <1>0, <1>3
  <2>3. m - 1 \in 0 .. Len(c) /\ m - 1 \notin U
    BY <1>0, <2>1, <2>2
  <2>4. g[m - 1] \in Nat /\ g[m] = g[m - 1] + Cost(c[m]) /\ Cost(c[m]) \in Nat
    BY <1>0, <1>3, <2>2, <2>3
  <2> QED BY <2>4
<1>5. DOMAIN g = 0 .. Len(c) /\ g = [n \in DOMAIN g |-> g[n]]
  <2> DEFINE rhs == [n \in 0 .. Len(c) |-> IF n = 0 THEN 0 ELSE g[n - 1] + Cost(c[n])]
  <2>1. DOMAIN rhs = 0 .. Len(c) /\ rhs = [n \in DOMAIN rhs |-> rhs[n]]
    OBVIOUS
  <2>2. g = rhs
    BY <1>2
  <2> HIDE DEF rhs
  <2> QED BY <2>1, <2>2
<1>6. g \in [0 .. Len(c) -> Nat]
  BY <1>4, <1>5
<1> QED BY <1>2, <1>3, <1>6 DEF Sums

\* Two lists that begin alike cost the same as far.
LEMMA SumsAgree ==
  ASSUME NEW c \in Seq(Nodes), NEW d \in Seq(Nodes), Len(c) <= Len(d), \A n \in 1 .. Len(c) : c[n] = d[n],
         NEW g, NEW h, Sums(g, c), Sums(h, d)
  PROVE  \A m \in 0 .. Len(c) : g[m] = h[m]
<1> DEFINE T == {m \in 0 .. Len(c) : g[m] # h[m]}
<1> SUFFICES ASSUME T # {} PROVE FALSE
  OBVIOUS
<1>0. Len(c) \in Nat /\ Len(d) \in Nat
  OBVIOUS
<1>1. PICK m \in T : \A x \in T : m <= x
  <2>1. T \in SUBSET Nat
    BY <1>0
  <2> HIDE DEF T
  <2> QED BY <2>1, LeastNumber
<1>2. m \in 1 .. Len(c) /\ m \in 1 .. Len(d)
  BY <1>0 DEF Sums
<1>3. m - 1 \in 0 .. Len(c) /\ g[m - 1] = h[m - 1]
  BY <1>0, <1>1, <1>2
<1> QED BY <1>2, <1>3 DEF Sums

LEMMA ChainOne ==
  ASSUME Given, NEW n \in Nodes
  PROVE  ChainCost(<<n>>) = Cost(n)
<1>1. <<n>> \in Seq(Nodes) /\ Len(<<n>>) = 1 /\ <<n>>[1] = n
  OBVIOUS
<1>2. PICK g : Sums(g, <<n>>) /\ ChainCost(<<n>>) = g[1]
  BY <1>1, SumsExist
<1>3. g[0] = 0 /\ g[1] = g[0] + Cost(n)
  BY <1>1, <1>2 DEF Sums
<1> QED BY <1>2, <1>3, CostIs

LEMMA ChainLonger ==
  ASSUME Given, NEW c \in Seq(Nodes), NEW n \in Nodes
  PROVE  ChainCost(Append(c, n)) = ChainCost(c) + Cost(n)
<1>1. PICK d : d = Append(c, n)
  OBVIOUS
<1>2. /\ d \in Seq(Nodes) /\ Len(c) \in Nat /\ Len(d) = Len(c) + 1 /\ d[Len(c) + 1] = n
      /\ \A m \in 1 .. Len(c) : c[m] = d[m]
  BY <1>1
<1>3. PICK g : Sums(g, c) /\ ChainCost(c) = g[Len(c)]
  BY SumsExist
<1>4. PICK h : Sums(h, d) /\ ChainCost(d) = h[Len(d)]
  BY <1>2, SumsExist
<1>5. Len(c) \in 0 .. Len(c) /\ g[Len(c)] = h[Len(c)]
  BY <1>2, <1>3, <1>4, SumsAgree
<1>6. h[Len(d)] = h[Len(d) - 1] + Cost(d[Len(d)])
  BY <1>2, <1>4 DEF Sums
<1> QED BY <1>1, <1>2, <1>3, <1>4, <1>5, <1>6
-----------------------------------------------------------------------------
(* The pass: what is in order comes behind what it needs, and is timed by that. *)

Deps(n) == {m \in Nodes : <<n, m>> \in needs}

Timed ==
  /\ order \in Seq(Nodes)
  /\ \A i, j \in 1 .. Len(order) : order[i] = order[j] => i = j
  /\ \A i \in 1 .. Len(order) : \A d \in Nodes :
       <<order[i], d>> \in needs => \E j \in 1 .. i - 1 : order[j] = d
  /\ finish \in [Over -> Nat]
  /\ \A n \in Over : finish[n] = StartOf(n) + Cost(n)

LEMMA OverIs ==
  ASSUME order \in Seq(Nodes)
  PROVE  /\ Over = {order[i] : i \in 1 .. Len(order)} /\ Over \subseteq Nodes
         /\ Len(order) \in Nat
BY DEF Over, Range

LEMMA StartIs ==
  ASSUME NEW n, Deps(n) \subseteq Over, finish \in [Over -> Nat]
  PROVE  /\ StartOf(n) \in Nat
         /\ \A d \in Deps(n) : finish[d] <= StartOf(n)
         /\ StartOf(n) = 0 \/ \E d \in Deps(n) : StartOf(n) = finish[d]
<1> DEFINE S == {finish[d] : d \in Deps(n)}
<1>1. StartOf(n) = Max({0} \cup S)
  BY DEF StartOf, Deps
<1>2. IsFiniteSet(Deps(n))
  <2>1. Deps(n) \subseteq Nodes
    BY DEF Deps
  <2> QED BY <2>1, PathAssumption, FS_Subset
<1>3. IsFiniteSet(S) /\ S \in SUBSET Nat
  BY <1>2, ImageFinite
<1>4. /\ Max({0} \cup S) \in Int /\ Max({0} \cup S) >= 0
      /\ \A x \in S : x <= Max({0} \cup S)
      /\ Max({0} \cup S) = 0 \/ Max({0} \cup S) \in S
  <2> HIDE DEF S
  <2>1. S \in SUBSET Int /\ 0 \in Int
    BY <1>3
  <2> QED BY <1>3, <2>1, MaxWith
<1>5. PICK M : M = StartOf(n) /\ M = Max({0} \cup S)
  BY <1>1
<1>6. /\ M \in Int /\ M >= 0 /\ (M = 0 \/ M \in S)
      /\ \A x \in S : x <= M
  <2> HIDE DEF S
  <2> QED BY <1>4, <1>5
<1>7. M \in Nat
  BY <1>6
<1>8. \A d \in Deps(n) : finish[d] <= M
  BY <1>6
<1>9. M = 0 \/ \E d \in Deps(n) : M = finish[d]
  BY <1>6
<1> HIDE DEF S
<1> QED BY <1>5, <1>7, <1>8, <1>9

LEMMA FinishIs ==
  ASSUME Given, Timed, NEW n \in Over
  PROVE  /\ Deps(n) \subseteq Over /\ n \in Nodes /\ Cost(n) \in Nat /\ StartOf(n) \in Nat
         /\ finish[n] = StartOf(n) + Cost(n) /\ finish[n] \in Nat
         /\ \A d \in Deps(n) : finish[d] <= StartOf(n)
         /\ StartOf(n) = 0 \/ \E d \in Deps(n) : StartOf(n) = finish[d]
<1>1. PICK i \in 1 .. Len(order) : order[i] = n
  BY OverIs DEF Timed
<1>2. Deps(n) \subseteq Over
  BY <1>1, OverIs DEF Timed, Deps
<1>3. n \in Nodes
  BY OverIs DEF Timed
<1> QED BY <1>2, <1>3, CostIs, StartIs DEF Timed

\* No chain is longer than what its last job is timed at.
LEMMA ChainsEndInTime ==
  ASSUME Given, Timed, NEW c \in Seq(Nodes), Len(c) # 0, \A n \in 1 .. Len(c) : c[n] \in Over,
         \A n \in 2 .. Len(c) : <<c[n], c[n - 1]>> \in needs
  PROVE  ChainCost(c) <= finish[c[Len(c)]]
<1>1. PICK g : Sums(g, c) /\ ChainCost(c) = g[Len(c)]
  BY SumsExist
<1> DEFINE T == {m \in 1 .. Len(c) : ~(g[m] <= finish[c[m]])}
<1>2. Len(c) \in Nat /\ Len(c) \in 1 .. Len(c)
  OBVIOUS
<1>3. T = {}
  <2> SUFFICES ASSUME T # {} PROVE FALSE
    OBVIOUS
  <2>1. PICK m \in T : \A x \in T : m <= x
    <3>1. T \in SUBSET Nat
      BY <1>2
    <3> HIDE DEF T
    <3> QED BY <3>1, LeastNumber
  <2>2. m \in 1 .. Len(c) /\ c[m] \in Over /\ ~(g[m] <= finish[c[m]])
    OBVIOUS
  <2>3. g[m] = g[m - 1] + Cost(c[m]) /\ g[0] = 0
    BY <1>1, <2>2 DEF Sums
  <2>4. finish[c[m]] = StartOf(c[m]) + Cost(c[m]) /\ StartOf(c[m]) \in Nat /\ Cost(c[m]) \in Nat
    BY <2>2, FinishIs
  <2>5. CASE m = 1
    BY <2>2, <2>3, <2>4, <2>5
  <2>6. CASE m # 1
    <3>1. m - 1 \in 1 .. Len(c) /\ m - 1 \notin T /\ m \in 2 .. Len(c)
      BY <1>2, <2>1, <2>2, <2>6
    <3>2. g[m - 1] <= finish[c[m - 1]]
      BY <3>1
    <3>3. c[m - 1] \in Nodes /\ <<c[m], c[m - 1]>> \in needs
      BY <3>1
    <3>4. finish[c[m - 1]] <= StartOf(c[m])
      BY <2>2, <3>3, FinishIs DEF Deps
    <3>5. g[m - 1] \in Nat /\ finish[c[m - 1]] \in Nat
      <4>1. m - 1 \in 0 .. Len(c)
        BY <3>1
      <4> QED BY <1>1, <3>1, <4>1, FinishIs DEF Sums
    <3> QED BY <2>2, <2>3, <2>4, <3>2, <3>4, <3>5
  <2> QED BY <2>5, <2>6
<1> QED BY <1>1, <1>2, <1>3

\* And some chain is as long.
Longest(i, c) ==
  /\ c \in Seq(Nodes) /\ Len(c) \in 1 .. i /\ c[Len(c)] = order[i]
  /\ \A n \in 2 .. Len(c) : <<c[n], c[n - 1]>> \in needs
  /\ ChainCost(c) = finish[order[i]]

LEMMA TimesAreChains ==
  ASSUME Given, Timed, NEW i \in 1 .. Len(order)
  PROVE  \E c : Longest(i, c)
<1> DEFINE T == {k \in 1 .. Len(order) : ~ \E c : Longest(k, c)}
<1> SUFFICES ASSUME T # {} PROVE FALSE
  OBVIOUS
<1>1. PICK k \in T : \A x \in T : k <= x
  <2>1. T \in SUBSET Nat
    BY OverIs DEF Timed
  <2> HIDE DEF T
  <2> QED BY <2>1, LeastNumber
<1>2. k \in 1 .. Len(order) /\ ~ \E c : Longest(k, c)
  OBVIOUS
<1>3. order[k] \in Over /\ order[k] \in Nodes
  BY <1>2, OverIs DEF Timed
<1>4. /\ finish[order[k]] = StartOf(order[k]) + Cost(order[k]) /\ Cost(order[k]) \in Nat
      /\ StartOf(order[k]) = 0 \/ \E d \in Deps(order[k]) : StartOf(order[k]) = finish[d]
  BY <1>3, FinishIs
<1>5. CASE StartOf(order[k]) = 0
  <2>1. finish[order[k]] = Cost(order[k])
    BY <1>4, <1>5
  <2>2. PICK c : c = <<order[k]>>
    OBVIOUS
  <2>3. c \in Seq(Nodes) /\ Len(c) = 1 /\ c[1] = order[k] /\ ChainCost(c) = finish[order[k]]
    BY <1>3, <2>1, <2>2, ChainOne
  <2>4. Longest(k, c)
    BY <1>2, <2>3 DEF Longest
  <2> QED BY <1>2, <2>4
<1>6. ASSUME NEW d \in Deps(order[k]), StartOf(order[k]) = finish[d] PROVE FALSE
  <2>1. PICK j \in 1 .. k - 1 : order[j] = d
    BY <1>2 DEF Timed, Deps
  <2>2. j \in 1 .. Len(order) /\ j < k
    BY <1>2, <2>1, OverIs DEF Timed
  <2>3. PICK c : Longest(j, c)
    BY <1>1, <2>2
  <2>4. PICK e : e = Append(c, order[k])
    OBVIOUS
  <2>5. c \in Seq(Nodes) /\ Len(c) \in 1 .. j /\ c[Len(c)] = d
    BY <2>1, <2>3 DEF Longest
  <2>6. /\ e \in Seq(Nodes) /\ Len(e) = Len(c) + 1 /\ e[Len(e)] = order[k]
        /\ \A n \in 1 .. Len(c) : e[n] = c[n]
    BY <1>3, <2>4, <2>5
  <2>7. ChainCost(e) = finish[order[k]]
    <3>1. ChainCost(e) = ChainCost(c) + Cost(order[k])
      BY <1>3, <2>4, <2>5, ChainLonger
    <3> QED BY <1>4, <1>6, <2>1, <2>3, <3>1 DEF Longest
  <2>8. \A n \in 2 .. Len(e) : <<e[n], e[n - 1]>> \in needs
    <3> TAKE n \in 2 .. Len(e)
    <3>1. CASE n = Len(e)
      <4>1. e[n] = order[k] /\ e[n - 1] = d
        BY <2>5, <2>6, <3>1
      <4> QED BY <1>6, <4>1 DEF Deps
    <3>2. CASE n # Len(e)
      <4>1. n \in 2 .. Len(c) /\ n \in 1 .. Len(c) /\ n - 1 \in 1 .. Len(c)
        BY <2>5, <2>6, <3>2
      <4> QED BY <2>3, <2>6, <4>1 DEF Longest
    <3> QED BY <3>1, <3>2
  <2>9. Len(e) \in 1 .. k
    BY <1>2, <2>2, <2>5, <2>6
  <2>10. Longest(k, e)
    BY <2>6, <2>7, <2>8, <2>9 DEF Longest
  <2> QED BY <1>2, <2>10
<1> QED BY <1>4, <1>5, <1>6
-----------------------------------------------------------------------------
LEMMA TimedStart == PathInit => Timed
<1> SUFFICES ASSUME PathInit PROVE Timed
  OBVIOUS
<1>1. order = <<>> /\ finish = <<>>
  BY DEF PathInit
<1>2. order \in Seq(Nodes) /\ Len(order) = 0 /\ DOMAIN finish = {}
  BY <1>1
<1>3. Over = {}
  BY <1>2, OverIs
<1>4. finish \in [Over -> Nat]
  BY <1>1, <1>3
<1> QED BY <1>2, <1>3, <1>4 DEF Timed

LEMMA TimedTake ==
  ASSUME Given, Timed, TakeNode
  PROVE  Timed'
<1> DEFINE n == Min(Ready)
<1>1. Ready \subseteq Nodes /\ Ready # {}
  BY DEF Ready, TakeNode
<1>2. n \in Ready
  <2>1. IsFiniteSet(Ready) /\ Ready \in SUBSET Int
    <3>1. IsFiniteSet(Ready)
      BY <1>1, PathAssumption, FS_Subset
    <3> QED BY <1>1, <3>1, PathAssumption
  <2> QED BY <1>1, <2>1, MinIsSmallest
<1>3. PICK k : k = n
  OBVIOUS
<1> HIDE DEF n
<1>4. k \in Nodes /\ k \notin Over /\ Deps(k) \subseteq Over
  BY <1>2, <1>3 DEF Ready, Deps
<1>5. /\ order' = Append(order, k)
      /\ finish' = [m \in Over \cup {k} |-> IF m = k THEN StartOf(k) + Cost(k) ELSE finish[m]]
      /\ needs' = needs /\ legs' = legs
  BY <1>3 DEF TakeNode, n
<1>6. /\ order \in Seq(Nodes) /\ Len(order) \in Nat /\ order' \in Seq(Nodes) /\ Len(order') = Len(order) + 1
      /\ order'[Len(order) + 1] = k /\ \A i \in 1 .. Len(order) : order'[i] = order[i]
  BY <1>4, <1>5, OverIs DEF Timed
<1>7. Over' = Over \cup {k}
  <2>1. Over = {order[i] : i \in 1 .. Len(order)}
    BY <1>6, OverIs
  <2>2. Over' = {order'[i] : i \in 1 .. Len(order')}
    BY <1>6 DEF Over, Range
  <2>3. 1 .. Len(order') = (1 .. Len(order)) \cup {Len(order) + 1}
    BY <1>6
  <2> QED BY <1>6, <2>1, <2>2, <2>3
<1>8. \A m : Deps(m)' = Deps(m) /\ Cost(m)' = Cost(m)
  BY <1>5 DEF Deps, Cost
<1>9. StartOf(k) \in Nat /\ Cost(k) \in Nat
  BY <1>4, StartIs, CostIs DEF Timed
<1>10. finish' \in [Over' -> Nat] /\ finish'[k] = StartOf(k) + Cost(k) /\ \A m \in Over : finish'[m] = finish[m]
  <2>1. \A m \in Over : m # k /\ finish[m] \in Nat
    BY <1>4 DEF Timed
  <2> QED BY <1>5, <1>7, <1>9, <2>1
<1>11. ASSUME NEW m, Deps(m) \subseteq Over PROVE StartOf(m)' = StartOf(m)
  <2>1. {finish'[d] : d \in Deps(m)} = {finish[d] : d \in Deps(m)}
    BY <1>10, <1>11
  <2>2. StartOf(m) = Max({0} \cup {finish[d] : d \in Deps(m)})
    BY DEF StartOf, Deps
  <2>3. StartOf(m)' = Max({0} \cup {finish'[d] : d \in Deps(m)})
    BY <1>5 DEF StartOf, Deps
  <2> QED BY <2>1, <2>2, <2>3
<1>12. \A m \in Over' : finish'[m] = StartOf(m)' + Cost(m)'
  <2> TAKE m \in Over'
  <2>1. CASE m = k
    BY <1>4, <1>8, <1>10, <1>11, <2>1
  <2>2. CASE m \in Over
    <3>1. Deps(m) \subseteq Over /\ finish[m] = StartOf(m) + Cost(m)
      BY <2>2, FinishIs
    <3> QED BY <1>8, <1>10, <1>11, <2>2, <3>1
  <2> QED BY <1>7, <2>1, <2>2
<1>13. \A i, j \in 1 .. Len(order') : order'[i] = order'[j] => i = j
  <2>1. \A i \in 1 .. Len(order) : order[i] # k
    BY <1>4, <1>6, OverIs
  <2> QED BY <1>6, <2>1 DEF Timed
<1>14. \A i \in 1 .. Len(order') : \A d \in Deps(order'[i]) : \E j \in 1 .. i - 1 : order'[j] = d
  <2> TAKE i \in 1 .. Len(order')
  <2> TAKE d \in Deps(order'[i])
  <2>1. CASE i = Len(order) + 1
    <3>1. d \in Over
      BY <1>4, <1>6, <2>1
    <3>2. PICK j \in 1 .. Len(order) : order[j] = d
      BY <1>6, <3>1, OverIs
    <3> QED BY <1>6, <2>1, <3>2
  <2>2. CASE i # Len(order) + 1
    <3>1. i \in 1 .. Len(order) /\ order'[i] = order[i]
      BY <1>6, <2>2
    <3>2. PICK j \in 1 .. i - 1 : order[j] = d
      BY <3>1 DEF Timed, Deps
    <3> QED BY <1>6, <3>1, <3>2
  <2> QED BY <2>1, <2>2
<1>15. \A i \in 1 .. Len(order') : \A d \in Nodes :
         <<order'[i], d>> \in needs' => \E j \in 1 .. i - 1 : order'[j] = d
  BY <1>5, <1>14 DEF Deps
<1> QED BY <1>6, <1>10, <1>12, <1>13, <1>15 DEF Timed

LEMMA TimedInv == PathSpec => [](Given /\ Timed)
<1>1. PathInit => Given
  BY PathAssumption DEF PathInit, Given
<1>2. Given /\ Timed /\ [PathNext]_pathVars => (Given /\ Timed)'
  <2> SUFFICES ASSUME Given, Timed, [PathNext]_pathVars PROVE Given' /\ Timed'
    OBVIOUS
  <2>1. Given'
    BY DEF Given, PathNext, TakeNode, StripEdge, pathVars
  <2>2. ASSUME NEW job \in Nodes, NEW dep \in Nodes, StripEdge(job, dep) PROVE Timed'
    <3>1. order' = <<>> /\ finish' = <<>>
      BY <2>2 DEF StripEdge
    <3>2. order' \in Seq(Nodes) /\ Len(order') = 0
      BY <3>1
    <3>3. Over' = {}
      BY <3>1 DEF Over, Range
    <3>4. finish' \in [Over' -> Nat]
      BY <3>1, <3>3
    <3> QED BY <3>2, <3>3, <3>4 DEF Timed
  <2>3. CASE UNCHANGED pathVars
    <3>1. order' = order /\ finish' = finish /\ needs' = needs /\ legs' = legs
      BY <2>3 DEF pathVars
    <3>2. Over' = Over /\ \A n : StartOf(n)' = StartOf(n) /\ Cost(n)' = Cost(n)
      BY <3>1 DEF Over, StartOf, Cost
    <3>3. finish' \in [Over' -> Nat]
      BY <3>1, <3>2 DEF Timed
    <3>4. \A n \in Over' : finish'[n] = StartOf(n)' + Cost(n)'
      BY <3>1, <3>2 DEF Timed
    <3>5. /\ order' \in Seq(Nodes)
          /\ \A i, j \in 1 .. Len(order') : order'[i] = order'[j] => i = j
          /\ \A i \in 1 .. Len(order') : \A d \in Nodes :
               <<order'[i], d>> \in needs' => \E j \in 1 .. i - 1 : order'[j] = d
      BY <3>1 DEF Timed
    <3> QED BY <2>1, <3>3, <3>4, <3>5 DEF Timed
  <2> QED BY <2>1, <2>2, <2>3, TimedTake DEF PathNext
<1> QED BY <1>1, <1>2, TimedStart, PTL DEF PathSpec
-----------------------------------------------------------------------------
(* What toposort makes of a cycle, and what it makes of a graph without one. *)

LEMMA ChainIs ==
  ASSUME NEW g, NEW c
  PROVE  /\ c \in Chains(g) => /\ c \in Seq(Nodes) /\ Len(c) \in Nat /\ Len(c) <= Cardinality(Nodes) + 1
                               /\ \A n \in 2 .. Len(c) : <<c[n], c[n - 1]>> \in g
         /\ /\ c \in Seq(Nodes) /\ Len(c) <= Cardinality(Nodes) + 1
            /\ \A n \in 2 .. Len(c) : <<c[n], c[n - 1]>> \in g
            => c \in Chains(g)
<1>1. Cardinality(Nodes) \in Nat
  BY PathAssumption, FS_CardinalityType
<1>2. ASSUME c \in Chains(g)
      PROVE  /\ c \in Seq(Nodes) /\ Len(c) \in Nat /\ Len(c) <= Cardinality(Nodes) + 1
             /\ \A n \in 2 .. Len(c) : <<c[n], c[n - 1]>> \in g
  <2>1. PICK m \in 0 .. Cardinality(Nodes) + 1 : c \in [1 .. m -> Nodes]
    BY <1>2 DEF Chains, SeqOf
  <2>2. m \in Nat
    BY <1>1, <2>1
  <2>3. c \in Seq(Nodes) /\ Len(c) = m
    BY <2>1, <2>2
  <2> QED BY <1>1, <1>2, <2>1, <2>2, <2>3 DEF Chains
<1>3. ASSUME c \in Seq(Nodes), Len(c) <= Cardinality(Nodes) + 1,
             \A n \in 2 .. Len(c) : <<c[n], c[n - 1]>> \in g
      PROVE  c \in Chains(g)
  <2>1. Len(c) \in 0 .. Cardinality(Nodes) + 1 /\ c \in [1 .. Len(c) -> Nodes]
    BY <1>1, <1>3
  <2>2. c \in SeqOf(Nodes, Cardinality(Nodes) + 1)
    BY <2>1 DEF SeqOf
  <2> QED BY <1>3, <2>2 DEF Chains
<1> QED BY <1>2, <1>3

\* Every job of a chain that is in order stands behind the first.
LEMMA ChainsRise ==
  ASSUME Given, Timed, Over = Nodes, NEW c \in Chains(needs), Len(c) > 1
  PROVE  c[1] # c[Len(c)]
<1>1. /\ c \in Seq(Nodes) /\ Len(c) \in Nat /\ \A n \in 1 .. Len(c) : c[n] \in Nodes
      /\ \A n \in 2 .. Len(c) : <<c[n], c[n - 1]>> \in needs
  <2>1. /\ c \in Seq(Nodes) /\ Len(c) \in Nat /\ \A n \in 2 .. Len(c) : <<c[n], c[n - 1]>> \in needs
    BY ChainIs
  <2> QED BY <2>1
<1> DEFINE Rises(m) == \E i, j \in 1 .. Len(order) : i < j /\ order[i] = c[1] /\ order[j] = c[m]
           T == {m \in 2 .. Len(c) : ~Rises(m)}
<1>2. \A n \in 1 .. Len(c) : \E k \in 1 .. Len(order) : order[k] = c[n]
  BY <1>1, OverIs DEF Timed
<1>3. T = {}
  <2> SUFFICES ASSUME T # {} PROVE FALSE
    OBVIOUS
  <2>1. PICK m \in T : \A x \in T : m <= x
    <3>1. T \in SUBSET Nat
      BY <1>1
    <3> HIDE DEF T
    <3> QED BY <3>1, LeastNumber
  <2>2. m \in 2 .. Len(c) /\ m \in 1 .. Len(c) /\ m - 1 \in 1 .. Len(c) /\ ~Rises(m)
    BY <1>1
  <2>3. PICK k \in 1 .. Len(order) : order[k] = c[m]
    BY <1>2, <2>2
  <2>4. c[m - 1] \in Nodes /\ <<order[k], c[m - 1]>> \in needs
    BY <1>1, <2>2, <2>3
  <2>5. PICK j \in 1 .. k - 1 : order[j] = c[m - 1]
    BY <2>3, <2>4 DEF Timed
  <2>6. j \in 1 .. Len(order) /\ j < k
    BY <2>3, <2>5, OverIs DEF Timed
  <2>7. CASE m = 2
    BY <2>2, <2>3, <2>5, <2>6, <2>7
  <2>8. CASE m # 2
    <3>1. m - 1 \in 2 .. Len(c) /\ m - 1 \notin T
      BY <1>1, <2>1, <2>2, <2>8
    <3>2. PICK i \in 1 .. Len(order), h \in 1 .. Len(order) : i < h /\ order[i] = c[1] /\ order[h] = c[m - 1]
      BY <3>1
    <3>3. h = j
      BY <2>5, <2>6, <3>2 DEF Timed
    <3>4. i < k
      BY <2>3, <2>6, <3>2, <3>3, OverIs DEF Timed
    <3> QED BY <2>2, <2>3, <3>2, <3>4
  <2> QED BY <2>7, <2>8
<1>4. Rises(Len(c))
  <2>1. Len(c) \in 2 .. Len(c)
    BY <1>1
  <2> QED BY <1>3, <2>1
<1>5. PICK i \in 1 .. Len(order), j \in 1 .. Len(order) : i < j /\ order[i] = c[1] /\ order[j] = c[Len(c)]
  BY <1>4
<1>6. i # j
  BY <1>5, OverIs DEF Timed
<1> QED BY <1>5, <1>6 DEF Timed

\* The jobs left over each wait for one of them, so some wait for themselves.
LEMMA LeftOverInCycle ==
  ASSUME Given, Timed, PathDone, Over # Nodes
  PROVE  \E c \in Chains(needs) : Len(c) > 1 /\ c[1] = c[Len(c)]
<1> DEFINE S == Nodes \ Over
           K == Cardinality(Nodes) + 1
           Walk(k, w) == w \in [1 .. k -> S] /\ \A n \in 2 .. k : <<w[n], w[n - 1]>> \in needs
           T == {k \in Nat : k # 0 /\ ~ \E w : Walk(k, w)}
<1>1. S # {} /\ S \subseteq Nodes
  BY OverIs DEF Timed
<1>2. \A n \in S : \E d \in S : <<n, d>> \in needs
  BY DEF PathDone, Ready
<1>3. Cardinality(Nodes) \in Nat
  BY PathAssumption, FS_CardinalityType
<1>4. T = {}
  <2> SUFFICES ASSUME T # {} PROVE FALSE
    OBVIOUS
  <2>1. PICK k \in T : \A x \in T : k <= x
    <3>1. T \in SUBSET Nat
      OBVIOUS
    <3> HIDE DEF T
    <3> QED BY <3>1, LeastNumber
  <2>2. k \in Nat /\ k # 0 /\ ~ \E w : Walk(k, w)
    <3> HIDE DEF Walk
    <3> QED OBVIOUS
  <2>3. CASE k = 1
    <3>1. PICK n \in S : TRUE
      BY <1>1
    <3>2. [m \in 1 .. 1 |-> n] \in [1 .. k -> S]
      BY <2>3
    <3>3. Walk(k, [m \in 1 .. 1 |-> n])
      BY <2>3, <3>2
    <3> HIDE DEF Walk
    <3> QED BY <2>2, <3>3
  <2>4. CASE k # 1
    <3>1. \E w : Walk(k - 1, w)
      <4>1. k - 1 \in Nat /\ k - 1 # 0 /\ ~(k <= k - 1)
        BY <2>2, <2>4
      <4> HIDE DEF Walk
      <4> QED BY <2>1, <4>1
    <3>2. PICK w : Walk(k - 1, w)
      BY <3>1
    <3>3. 1 \in 1 .. k - 1 /\ w[1] \in S
      BY <2>2, <2>4, <3>2
    <3>4. PICK d \in S : <<w[1], d>> \in needs
      BY <1>2, <3>3
    <3> DEFINE v == [m \in 1 .. k |-> IF m = 1 THEN d ELSE w[m - 1]]
    <3>5. ASSUME NEW m \in 1 .. k, m # 1 PROVE m - 1 \in 1 .. k - 1 /\ w[m - 1] \in S
      BY <2>2, <3>2, <3>5
    <3>6. v \in [1 .. k -> S]
      BY <3>4, <3>5
    <3>7. ASSUME NEW m \in 2 .. k PROVE <<v[m], v[m - 1]>> \in needs
      <4>1. m \in 1 .. k /\ m - 1 \in 1 .. k /\ v[m] = w[m - 1]
        BY <2>2
      <4>2. CASE m = 2
        BY <3>4, <4>1, <4>2
      <4>3. CASE m # 2
        <5>1. m - 1 \in 2 .. k - 1 /\ v[m - 1] = w[(m - 1) - 1]
          BY <2>2, <4>1, <4>3
        <5> QED BY <3>2, <4>1, <5>1
      <4> QED BY <4>2, <4>3
    <3>8. Walk(k, v)
      BY <3>6, <3>7
    <3> HIDE DEF Walk, v
    <3> QED BY <2>2, <3>8
  <2> QED BY <2>3, <2>4
<1>5. PICK w : Walk(K, w)
  <2>1. K \in Nat /\ K # 0 /\ K \notin T
    BY <1>3, <1>4
  <2> HIDE DEF Walk
  <2> QED BY <2>1
<1>6. w \in [1 .. K -> Nodes] /\ \A n \in 2 .. K : <<w[n], w[n - 1]>> \in needs
  BY <1>1, <1>5
<1> HIDE DEF Walk, T, S
<1>7. PICK a \in 1 .. K, b \in 1 .. K : a < b /\ w[a] = w[b]
  <2>1. IsFiniteSet(1 .. K) /\ Cardinality(1 .. K) = K
    BY <1>3, CountTo
  <2>2. Cardinality(Nodes) < Cardinality(1 .. K)
    BY <1>3, <2>1
  <2>3. PICK x \in 1 .. K, y \in 1 .. K : x # y /\ w[x] = w[y]
    BY <1>6, <2>1, <2>2, PathAssumption, FS_PigeonHole
  <2>4. x < y \/ y < x
    BY <1>3, <2>3
  <2> QED BY <2>3, <2>4
<1> DEFINE L == b - a + 1
           c == [n \in 1 .. L |-> w[a + n - 1]]
<1>8. L \in Nat /\ L > 1 /\ L <= K
  BY <1>3, <1>7
<1>9. \A n \in 1 .. L : a + n - 1 \in 1 .. K
  BY <1>3, <1>7
<1>10. c \in [1 .. L -> Nodes]
  BY <1>6, <1>9
<1>11. c \in Seq(Nodes) /\ Len(c) = L
  BY <1>8, <1>10
<1>12. \A n \in 2 .. L : <<c[n], c[n - 1]>> \in needs
  <2> TAKE n \in 2 .. L
  <2>1. /\ n \in 1 .. L /\ n - 1 \in 1 .. L /\ a + n - 1 \in 2 .. K /\ a + (n - 1) - 1 = (a + n - 1) - 1
    BY <1>3, <1>7, <1>8
  <2>2. c[n] = w[a + n - 1] /\ c[n - 1] = w[(a + n - 1) - 1]
    BY <2>1
  <2> QED BY <1>6, <2>1, <2>2
<1>13. c[1] = w[a] /\ c[L] = w[b]
  <2>1. 1 \in 1 .. L /\ L \in 1 .. L /\ a + 1 - 1 = a /\ a + L - 1 = b
    BY <1>3, <1>7, <1>8
  <2> QED BY <2>1
<1> HIDE DEF c, L
<1>14. c \in Chains(needs)
  BY <1>8, <1>11, <1>12, ChainIs
<1> QED BY <1>7, <1>8, <1>11, <1>13, <1>14
-----------------------------------------------------------------------------
(* The total. *)

LEMMA TotalIs ==
  ASSUME Given, Timed
  PROVE  /\ Total \in Nat /\ \A n \in Over : finish[n] <= Total
         /\ Total = 0 \/ \E n \in Over : Total = finish[n]
<1> DEFINE S == {finish[n] : n \in Over}
<1>1. IsFiniteSet(Over)
  BY OverIs, PathAssumption, FS_Subset DEF Timed
<1>2. IsFiniteSet(S)
  BY <1>1, ImageFinite
<1>3. S \in SUBSET Nat
  BY DEF Timed
<1>4. PICK M : M = Total /\ M = Max({0} \cup S)
  BY DEF Total
<1>5. M \in Int /\ M >= 0 /\ (M = 0 \/ M \in S) /\ \A x \in S : x <= M
  <2> HIDE DEF S
  <2>1. S \in SUBSET Int /\ 0 \in Int
    BY <1>3
  <2> QED BY <1>2, <1>4, <2>1, MaxWith
<1>6. M \in Nat
  BY <1>5
<1>7. \A n \in Over : finish[n] <= M
  BY <1>5
<1>8. M = 0 \/ \E n \in Over : M = finish[n]
  BY <1>5
<1> HIDE DEF S
<1> QED BY <1>4, <1>6, <1>7, <1>8

LEMMA OrderFits ==
  ASSUME Timed
  PROVE  Len(order) <= Cardinality(Nodes)
<1> SUFFICES ASSUME ~(Len(order) <= Cardinality(Nodes)) PROVE FALSE
  OBVIOUS
<1>1. Cardinality(Nodes) \in Nat /\ Len(order) \in Nat
  BY PathAssumption, FS_CardinalityType, OverIs DEF Timed
<1>2. IsFiniteSet(1 .. Len(order)) /\ Cardinality(1 .. Len(order)) = Len(order)
  BY <1>1, CountTo
<1>3. Cardinality(Nodes) < Cardinality(1 .. Len(order)) /\ order \in [1 .. Len(order) -> Nodes]
  BY <1>1, <1>2 DEF Timed
<1>4. \E x, y \in 1 .. Len(order) : x # y /\ order[x] = order[y]
  BY <1>2, <1>3, PathAssumption, FS_PigeonHole
<1> QED BY <1>4 DEF Timed

LEMMA ChainsWithinTotal ==
  ASSUME Given, Timed, Over = Nodes, NEW c \in Chains(needs)
  PROVE  ChainCost(c) \in Nat /\ ChainCost(c) <= Total
<1>1. c \in Seq(Nodes) /\ Len(c) \in Nat /\ \A n \in 2 .. Len(c) : <<c[n], c[n - 1]>> \in needs
  BY ChainIs
<1>2. PICK g : Sums(g, c) /\ ChainCost(c) = g[Len(c)]
  BY <1>1, SumsExist
<1>3. ChainCost(c) \in Nat /\ g[0] = 0
  BY <1>1, <1>2 DEF Sums
<1>4. CASE Len(c) = 0
  BY <1>2, <1>3, <1>4, TotalIs
<1>5. CASE Len(c) # 0
  <2>1. Len(c) \in 1 .. Len(c) /\ \A n \in 1 .. Len(c) : c[n] \in Over
    BY <1>1, <1>5
  <2>2. ChainCost(c) <= finish[c[Len(c)]]
    BY <1>1, <1>5, <2>1, ChainsEndInTime
  <2>3. finish[c[Len(c)]] <= Total /\ finish[c[Len(c)]] \in Nat /\ Total \in Nat
    BY <2>1, TotalIs DEF Timed
  <2> QED BY <1>3, <2>2, <2>3
<1> QED BY <1>4, <1>5

LEMMA TotalIsOfChain ==
  ASSUME Given, Timed
  PROVE  Total = 0 \/ \E c \in Chains(needs) : ChainCost(c) = Total
<1> SUFFICES ASSUME NEW n \in Over, Total = finish[n]
             PROVE  \E c \in Chains(needs) : ChainCost(c) = Total
  BY TotalIs
<1>1. PICK i \in 1 .. Len(order) : order[i] = n
  BY OverIs DEF Timed
<1>2. PICK c : Longest(i, c)
  BY <1>1, TimesAreChains
<1>3. Len(c) <= Cardinality(Nodes) + 1
  <2>1. Len(order) <= Cardinality(Nodes) /\ Cardinality(Nodes) \in Nat
    BY OrderFits, PathAssumption, FS_CardinalityType
  <2>2. Len(c) \in 1 .. i /\ i \in 1 .. Len(order) /\ Len(order) \in Nat
    BY <1>1, <1>2, OverIs DEF Longest, Timed
  <2> QED BY <2>1, <2>2
<1>4. c \in Chains(needs)
  BY <1>2, <1>3, ChainIs DEF Longest
<1> QED BY <1>1, <1>2, <1>4 DEF Longest

\* What the replay keeps of the graph before: no chain of it is longer than its total.
Replayed ==
  \A b \in before :
    /\ before = {b} /\ b.total \in Nat
    /\ \A c \in Chains(needs) : ChainCost(c) <= b.total

LEMMA ReplayedInv == PathSpec => [](Given /\ Timed /\ Replayed)
<1>1. PathInit => Replayed
  BY DEF PathInit, Replayed
<1>2. Given /\ Timed /\ Replayed /\ [PathNext]_pathVars => Replayed'
  <2> SUFFICES ASSUME Given, Timed, Replayed, [PathNext]_pathVars PROVE Replayed'
    OBVIOUS
  <2>0. legs' = legs /\ \A c : ChainCost(c)' = ChainCost(c)
    <3>1. legs' = legs
      BY DEF PathNext, TakeNode, StripEdge, pathVars
    <3> QED BY <3>1 DEF ChainCost, Cost
  <2>1. CASE TakeNode \/ UNCHANGED pathVars
    <3>1. needs' = needs /\ before' = before
      BY <2>1 DEF TakeNode, pathVars
    <3> QED BY <2>0, <3>1 DEF Replayed
  <2>2. ASSUME NEW job \in Nodes, NEW dep \in Nodes, StripEdge(job, dep) PROVE Replayed'
    <3>1. PICK t : t = Total
      OBVIOUS
    <3>2. PICK b : b = [needs |-> needs, total |-> t, job |-> job]
      OBVIOUS
    <3>3. before' = {b} /\ b.total = t /\ needs' \subseteq needs /\ Over = Nodes
      BY <2>2, <3>1, <3>2 DEF StripEdge
    <3>4. t \in Nat
      BY <3>1, TotalIs
    <3>5. ASSUME NEW c \in Chains(needs') PROVE ChainCost(c)' <= t
      <4>1. c \in Chains(needs)
        <5>1. /\ c \in Seq(Nodes) /\ Len(c) <= Cardinality(Nodes) + 1
              /\ \A n \in 2 .. Len(c) : <<c[n], c[n - 1]>> \in needs'
          BY <3>5, ChainIs
        <5>2. \A n \in 2 .. Len(c) : <<c[n], c[n - 1]>> \in needs
          BY <3>3, <5>1
        <5> QED BY <5>1, <5>2, ChainIs
      <4>2. ChainCost(c) <= t
        BY <3>1, <3>3, <4>1, ChainsWithinTotal
      <4> QED BY <2>0, <4>2
    <3> QED BY <3>3, <3>4, <3>5 DEF Replayed, Chains
  <2> QED BY <2>1, <2>2 DEF PathNext
<1> QED BY <1>1, <1>2, TimedInv, PTL DEF PathSpec

\* The component's type invariant.
LEMMA PathTypeOKInv == PathSpec => []PathTypeOK
<1>1. Given /\ Timed /\ Replayed => PathTypeOK
  <2> SUFFICES ASSUME Given, Timed, Replayed PROVE PathTypeOK
    OBVIOUS
  <2>1. Cardinality(before) <= 1
    <3>1. CASE before = {}
      BY <3>1, FS_EmptySet
    <3>2. CASE before # {}
      <4>1. PICK b \in before : before = {b}
        BY <3>2 DEF Replayed
      <4>2. Cardinality({b}) = 1
        BY FS_Singleton
      <4> QED BY <4>1, <4>2
    <3> QED BY <3>1, <3>2
  <2> QED BY <2>1, OverIs DEF Given, Timed, PathTypeOK
<1> QED BY <1>1, ReplayedInv, PTL

\* critical_path returns the cost of the longest chain of any finite graph of needs: no less than the
\* slowest job and no more without an edge; what toposort leaves over lies on or behind a cycle.
THEOREM LongestPathHolds == PathSpec => []LongestPath
<1>1. Given /\ Timed /\ Replayed => LongestPath
  <2> SUFFICES ASSUME Given, Timed, Replayed, PathDone PROVE LongestPath
    BY DEF LongestPath
  <2>1. CASE Over = Nodes
    <3>1. \A c \in Chains(needs) : Len(c) > 1 => Head(c) # Last(c)
      <4> SUFFICES ASSUME NEW c \in Chains(needs), Len(c) > 1 PROVE Head(c) # Last(c)
        OBVIOUS
      <4>1. c[1] # c[Len(c)]
        BY <2>1, ChainsRise
      <4>2. Head(c) = c[1] /\ Last(c) = c[Len(c)]
        BY ChainIs DEF Last
      <4> QED BY <4>1, <4>2
    <3> DEFINE V == {0} \cup {ChainCost(c) : c \in Chains(needs)}
    <3>2. /\ Total \in V /\ Total \in Nat
          /\ \A x \in V : x \in Nat /\ x <= Total
      <4>1. PICK M : M = Total
        OBVIOUS
      <4>2. M \in Nat /\ (M = 0 \/ \E c \in Chains(needs) : ChainCost(c) = M)
        BY <4>1, TotalIs, TotalIsOfChain
      <4>3. \A c \in Chains(needs) : ChainCost(c) \in Nat /\ ChainCost(c) <= M
        BY <2>1, <4>1, ChainsWithinTotal
      <4>4. M \in V
        BY <4>2
      <4>5. \A x \in V : x \in Nat /\ x <= M
        BY <4>2, <4>3
      <4> QED BY <4>1, <4>2, <4>4, <4>5
    <3>3. Total = Max(V)
      <4> HIDE DEF V
      <4>1. \A y \in V : Total >= y
        BY <3>2
      <4>2. PICK M : M = Max(V)
        OBVIOUS
      <4>3. M \in V /\ \A y \in V : M >= y
        BY <3>2, <4>1, <4>2 DEF Max
      <4> QED BY <3>2, <4>2, <4>3
    <3>4. \A n \in Nodes : Total >= Cost(n)
      <4> TAKE n \in Nodes
      <4>1. finish[n] = StartOf(n) + Cost(n) /\ Cost(n) \in Nat /\ StartOf(n) \in Nat /\ finish[n] <= Total
        BY <2>1, FinishIs, TotalIs
      <4>2. Total \in Nat
        BY TotalIs
      <4> QED BY <4>1, <4>2
    <3>5. \A b \in before : Total <= b.total
      <4> TAKE b \in before
      <4>1. b.total \in Nat /\ \A c \in Chains(needs) : ChainCost(c) <= b.total
        BY DEF Replayed
      <4>2. CASE Total = 0
        BY <4>1, <4>2
      <4>3. ASSUME NEW c \in Chains(needs), ChainCost(c) = Total PROVE Total <= b.total
        BY <4>1, <4>3
      <4> QED BY <4>2, <4>3, TotalIsOfChain
    <3> QED BY <2>1, <3>1, <3>3, <3>4, <3>5 DEF LongestPath
  <2>2. CASE Over # Nodes
    <3>1. PICK c \in Chains(needs) : Len(c) > 1 /\ c[1] = c[Len(c)]
      BY <2>2, LeftOverInCycle
    <3>2. Head(c) = c[1] /\ Last(c) = c[Len(c)]
      BY ChainIs DEF Last
    <3> QED BY <2>2, <3>1, <3>2 DEF LongestPath
  <2> QED BY <2>1, <2>2
<1> QED BY <1>1, ReplayedInv, PTL
=============================================================================
