---------------------------- MODULE MCDeltaPoll -----------------------------
(* DeltaPoll on a small instance. *)
EXTENDS DeltaPoll, TLC

CONSTANTS p1, p2

\* Every actor is the only coroutine of its process: worker_concurrency is 1 in each.
Apart == [a \in Actors |-> a]
\* The default deployment: one process runs every claim loop.
Together == [a \in Actors |-> "worker"]

\* The repo was seeded with a limit its runs exceed, and ingested with one they do not.
Seeded == p1 :> 1 @@ p2 :> 2
\* One limit for every poll that is not reached.
Ample == [p \in Pollers |-> Cardinality(Runs) + 1]

\* How far runs go: the second starts, the first is only queued; or all alike.
SecondStarts == [r \in Runs |-> IF r = 2 THEN InProgress ELSE Queued]
AllStay     == [r \in Runs |-> Queued]
AllStart    == [r \in Runs |-> InProgress]
AllEnd      == [r \in Runs |-> Completed]
=============================================================================
