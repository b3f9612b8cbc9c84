----------------------------- MODULE IngestQueue -----------------------------
(***************************************************************************)
(* The table ingest_job (db/migrations/002_queue.sql) and the statements   *)
(* of queue.py that read and write it.  Each operator is one statement:    *)
(* the transactions that contain them are in the modules that extend this  *)
(* one (Worker, WebhookReceiver).                                          *)
(*                                                                         *)
(* Time is relative.  due[j] is the number of ticks until run_at (negative *)
(* when overdue, down to -HORIZON), age[j] the number of ticks since       *)
(* updated_at, kept for the rows whose age is compared, those in           *)
(* processing, and up to LEASE + 1, the first age that counts as expired.  *)
(***************************************************************************)
EXTENDS Integers, FiniteSets

CONSTANTS
  Jobs,          \* the ids ingest_job.id can take (a bound: the ids of forgotten rows recur)
  Repos,         \* payloads of poll_repo rows
  Deliveries,    \* payloads of webhook_event rows, by their delivery id
  Seed,          \* the row each repo's first poll is seeded in
  NoPayload,     \* the payload of an id that has no row
  LEASE,         \* queue.LEASE
  MAX_ATTEMPTS,  \* worker.MAX_ATTEMPTS
  MaxDelay,      \* bound on how far ahead run_at is ever set
  HORIZON        \* bound: rows overdue by more than this are not told apart

ASSUME PayloadAssumption ==
  /\ Repos \cap Deliveries = {}
  /\ NoPayload \notin Repos \cup Deliveries
ASSUME SeedAssumption ==
  /\ Seed \in [Repos -> Jobs]
  /\ \A r, s \in Repos : Seed[r] = Seed[s] => r = s
ASSUME NumberAssumption ==
  /\ LEASE \in Nat
  /\ MAX_ATTEMPTS \in Nat
  /\ MaxDelay \in Nat
  /\ HORIZON \in Nat

VARIABLES
  status,    \* "none" is an id no row has
  payload,
  attempts,
  due,
  age

tableVars == <<status, payload, attempts, due, age>>

Payloads == Repos \cup Deliveries
Statuses == {"none", "pending", "processing", "done", "failed"}
Live     == {"pending", "processing"}
Terminal == {"done", "failed"}

TableTypeOK ==
  /\ status \in [Jobs -> Statuses]
  /\ payload \in [Jobs -> Payloads \cup {NoPayload}]
  /\ attempts \in [Jobs -> 0 .. MAX_ATTEMPTS + 1]
  /\ due \in [Jobs -> (-HORIZON) .. MaxDelay]
  /\ age \in [Jobs -> 0 .. LEASE + 1]

\* `cadence corpus seed`: one pending poll per tracked repo, due now.
Seeded(j) == \E r \in Repos : Seed[r] = j
TableInit ==
  /\ status = [j \in Jobs |-> IF Seeded(j) THEN "pending" ELSE "none"]
  /\ payload = [j \in Jobs |-> IF Seeded(j) THEN CHOOSE r \in Repos : Seed[r] = j
                                            ELSE NoPayload]
  /\ attempts = [j \in Jobs |-> 0]
  /\ due = [j \in Jobs |-> 0]
  /\ age = [j \in Jobs |-> 0]

-----------------------------------------------------------------------------
\* Live rows of one payload.
LiveRows(x) == {j \in Jobs : payload[j] = x /\ status[j] \in Live}

\* Mutant of Expired: updated_at <= now() - LEASE.
ExpiredAtLease(j) == status[j] = "processing" /\ age[j] >= LEASE

\* A lease is expired when updated_at < now() - LEASE, strictly.
Expired(j) == status[j] = "processing" /\ age[j] > LEASE

\* Mutant of Claimable: a claim is for ever.
ClaimableOnce == {j \in Jobs : status[j] = "pending" /\ due[j] <= 0}

\* The rows claim_next's subquery selects from, and the one ORDER BY run_at picks.
Claimable == {j \in Jobs : (status[j] = "pending" /\ due[j] <= 0) \/ Expired(j)}

Oldest(j) == \A k \in Claimable : due[j] <= due[k]

\* Mutant of Outstanding: work in flight is not counted.
OutstandingDue == {j \in Jobs : status[j] = "pending" /\ due[j] <= 0}

\* pending_or_processing_count: due rows and live leases, not the scheduled ones.
Outstanding == {j \in Jobs : \/ status[j] = "pending" /\ due[j] <= 0
                             \/ status[j] = "processing" /\ ~Expired(j)}

\* A new row's id is one that no row has.
Free == {j \in Jobs : status[j] = "none"}
NextId == CHOOSE j \in Free : TRUE

\* enqueue: INSERT a pending row, run_at = now() + delay, under the next id.
Enqueue(j, x, delay) ==
  /\ status' = [status EXCEPT ![j] = "pending"]
  /\ payload' = [payload EXCEPT ![j] = x]
  /\ attempts' = [attempts EXCEPT ![j] = 0]
  /\ due' = [due EXCEPT ![j] = delay]
  /\ age' = [age EXCEPT ![j] = 0]

\* claim_next: one UPDATE ... FOR UPDATE SKIP LOCKED; attempts is not touched.
Claim(j) ==
  /\ j \in Claimable
  /\ Oldest(j)
  /\ status' = [status EXCEPT ![j] = "processing"]
  /\ age' = [age EXCEPT ![j] = 0]
  /\ UNCHANGED <<payload, attempts, due>>

\* A row ends with status s after n attempts.  Nothing reads the row of a poll that is over,
\* nor the run_at of any row that is over: the one is forgotten, the other stands at 0.
End(j, s, n) ==
  LET forgotten == payload[j] \in Repos
  IN  /\ status' = [status EXCEPT ![j] = IF forgotten THEN "none" ELSE s]
      /\ payload' = [payload EXCEPT ![j] = IF forgotten THEN NoPayload ELSE @]
      /\ attempts' = [attempts EXCEPT ![j] = IF forgotten THEN 0 ELSE n]
      /\ due' = [due EXCEPT ![j] = 0]
      /\ age' = [age EXCEPT ![j] = 0]

\* complete: by id alone, whatever the row's status and whoever claimed it.
Complete(j) == End(j, "done", attempts[j])

\* fail(retry_in = delay): back to pending, one more attempt on the row.
Retry(j, delay) ==
  /\ status' = [status EXCEPT ![j] = "pending"]
  /\ attempts' = [attempts EXCEPT ![j] = @ + 1]
  /\ due' = [due EXCEPT ![j] = delay]
  /\ age' = [age EXCEPT ![j] = 0]
  /\ UNCHANGED payload

\* fail(retry_in = None).
FailForGood(j) == End(j, "failed", attempts[j] + 1)

\* now() advances by one tick for every live row.
TableTick ==
  /\ due' = [j \in Jobs |-> IF status[j] \in Live /\ due[j] > -HORIZON
                              THEN due[j] - 1 ELSE due[j]]
  /\ age' = [j \in Jobs |-> IF status[j] = "processing" /\ age[j] <= LEASE
                              THEN age[j] + 1 ELSE age[j]]
  /\ UNCHANGED <<status, payload, attempts>>
=============================================================================
