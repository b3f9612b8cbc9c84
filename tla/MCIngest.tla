------------------------------- MODULE MCIngest ------------------------------
(* IngestSystem on a small instance. *)
EXTENDS IngestSystem, TLC

CONSTANTS l1, l2, l3, p1, p2

\* The deployed worker: the loops share one process.
Together == [l \in Loops |-> p1]
\* Two loops share the process p1, the third is alone in p2.
Apart == [l \in Loops |-> IF l = l3 THEN p2 ELSE p1]

FirstIds == CHOOSE f \in [Repos -> 1 .. Cardinality(Repos)] : \A r, s \in Repos : f[r] = f[s] => r = s

Symmetry == Permutations(Threads)

\* Ids only name rows: two states are the same when they hold the same rows, each as often and
\* each held by the same loops.
Row(j) == <<status[j], payload[j], attempts[j], due[j], age[j], {l \in Loops : held[l] = j}>>
RowBag ==
  [x \in {Row(j) : j \in Jobs} |-> Cardinality({j \in Jobs : Row(j) = x})]

View == <<RowBag, pc, snap, outcome, elapsed, processed, unchained, receiverVars, faults>>
==============================================================================
