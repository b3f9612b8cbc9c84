------------------------------- MODULE Worker --------------------------------
(***************************************************************************)
(* run_worker of worker.py: claim loops, each a coroutine of a process     *)
(* (proc[l]), that share the table ingest_job.  The coroutines of a        *)
(* process run on one thread and change places only at an await.  The      *)
(* only awaits are the sleep of an idle loop and, inside a handler, the    *)
(* calls to the provider; everything else, however many transactions it    *)
(* commits, runs without another coroutine of that process in between.     *)
(* Other processes, crashes and the clock may intervene between any two    *)
(* commits.                                                                *)
(***************************************************************************)
EXTENDS IngestQueue

CONSTANTS
  Loops,
  Procs,
  proc,           \* the process a loop belongs to
  Drainers,       \* the processes started with --until-empty
  NoJob,          \* what a loop holds that holds no job
  JOB_TIMEOUT,    \* worker.JOB_TIMEOUT
  GRACE,          \* the longest a handler that ended needs to commit its outcome
  POLL_INTERVAL,  \* worker.POLL_INTERVAL
  RetryDelays     \* the values of retry_in: one minute, or what a rate limit asks for

ASSUME WorkerAssumption ==
  /\ proc \in [Loops -> Procs]
  /\ Drainers \subseteq Procs
  /\ NoJob \notin Jobs
ASSUME DelayAssumption ==
  /\ POLL_INTERVAL \in 0 .. MaxDelay
  /\ RetryDelays \subseteq 0 .. MaxDelay
\* test_worker_watchdog.py: a job times out, and is released, before its lease expires.
ASSUME TimeoutAssumption ==
  /\ JOB_TIMEOUT \in Nat
  /\ GRACE \in Nat
  /\ JOB_TIMEOUT + GRACE <= LEASE

VARIABLES
  pc,        \* where each loop is
  held,      \* the id of the row a loop claimed: job["id"]
  snap,      \* the attempts that claim returned: job["attempts"]
  outcome,   \* how the handler ended
  elapsed,   \* ticks since the claim, as asyncio's own clock counts them
  processed, \* the deliveries whose webhook_delivery.processed_at is set
  unchained  \* history: the repos for which a _schedule_next_poll has raised

workerVars == <<pc, held, snap, outcome, elapsed, processed, unchained>>

Busy == {"handling", "chaining", "inserting", "settling"}
Places == Busy \cup {"idle", "counting", "exited"}

\* "retry" stands for RateLimited, TimeoutError and any other Exception, which differ in the
\* delay alone; "terminal" for AccessDenied, NotFound and Expired; "cancelled" for a handler
\* that a shutdown cancels, whose row the loop never touches again.
Outcomes == {"none", "ok", "terminal", "retry", "cancelled"}

WorkerTypeOK ==
  /\ pc \in [Loops -> Places]
  /\ held \in [Loops -> Jobs \cup {NoJob}]
  /\ snap \in [Loops -> 0 .. MAX_ATTEMPTS + 1]
  /\ outcome \in [Loops -> Outcomes]
  /\ elapsed \in [Loops -> 0 .. JOB_TIMEOUT + GRACE]
  /\ processed \subseteq Deliveries
  /\ unchained \subseteq Repos

WorkerInit ==
  /\ pc = [l \in Loops |-> "idle"]
  /\ held = [l \in Loops |-> NoJob]
  /\ snap = [l \in Loops |-> 0]
  /\ outcome = [l \in Loops |-> "none"]
  /\ elapsed = [l \in Loops |-> 0]
  /\ processed = {}
  /\ unchained = {}

-----------------------------------------------------------------------------
\* The loop whose thread cannot be taken by a sibling: it is between two awaits.  The
\* webhook handler awaits nothing, so it keeps the thread from its claim to its end.
OnThread(l) ==
  \/ pc[l] \in {"counting", "chaining", "inserting", "settling"}
  \/ pc[l] = "handling" /\ payload[held[l]] \in Deliveries

Scheduled(l) == \A m \in Loops : (proc[m] = proc[l] /\ OnThread(m)) => m = l

Moves(l, from, to) ==
  /\ pc[l] = from
  /\ Scheduled(l)
  /\ pc' = [pc EXCEPT ![l] = to]

\* The first transaction of the loop body, when it finds a row.
ClaimRow(l, j) ==
  /\ Moves(l, "idle", "handling")
  /\ Claim(j)
  /\ held' = [held EXCEPT ![l] = j]
  /\ snap' = [snap EXCEPT ![l] = attempts[j]]
  /\ elapsed' = [elapsed EXCEPT ![l] = 0]
  /\ outcome' = [outcome EXCEPT ![l] = "none"]
  /\ UNCHANGED <<processed, unchained>>

ClaimNext(l) == \E j \in Jobs : ClaimRow(l, j)

\* The first transaction when it finds none, in a loop that must decide whether to leave.
ClaimNone(l) ==
  /\ proc[l] \in Drainers
  /\ Claimable = {}
  /\ Moves(l, "idle", "counting")
  /\ UNCHANGED <<tableVars, held, snap, outcome, elapsed, processed, unchained>>

\* A second transaction counts what is left: nothing, and the loop returns.
CountRemaining(l) ==
  /\ Moves(l, "counting", IF Outstanding = {} THEN "exited" ELSE "idle")
  /\ UNCHANGED <<tableVars, held, snap, outcome, elapsed, processed, unchained>>

\* _handle_webhook_event: one transaction that applies the event and sets processed_at, or
\* an exception that rolls it back.
HandleEvent(l) ==
  /\ Moves(l, "handling", "settling")
  /\ payload[held[l]] \in Deliveries
  /\ \/ /\ processed' = processed \cup {payload[held[l]]}
        /\ outcome' = [outcome EXCEPT ![l] = "ok"]
     \/ /\ outcome' = [outcome EXCEPT ![l] = "retry"]
        /\ UNCHANGED processed
  /\ UNCHANGED <<tableVars, held, snap, elapsed, unchained>>

\* The try block of _handle_poll_repo ends at one of its awaits with outcome o, and its
\* finally begins.
LeavePoll(l, o) ==
  /\ Moves(l, "handling", "chaining")
  /\ payload[held[l]] \in Repos
  /\ outcome' = [outcome EXCEPT ![l] = o]
  /\ UNCHANGED <<tableVars, held, snap, elapsed, processed, unchained>>

PollEnds(l) == \E o \in {"ok", "terminal", "retry"} : LeavePoll(l, o)

\* wait_for cancels the handler JOB_TIMEOUT after the claim.
TimeOut(l) == elapsed[l] >= JOB_TIMEOUT /\ LeavePoll(l, "retry")

\* Mutants of ChainPeek: the next poll is chained on success only; it is chained whether or not
\* one is pending.
ChainOnSuccess(l) ==
  /\ Moves(l, "chaining", IF outcome[l] = "ok" THEN "inserting" ELSE "settling")
  /\ UNCHANGED <<tableVars, held, snap, outcome, elapsed, processed, unchained>>

ChainAlways(l) ==
  /\ Moves(l, "chaining", "inserting")
  /\ UNCHANGED <<tableVars, held, snap, outcome, elapsed, processed, unchained>>

\* _schedule_next_poll, its SELECT: is a poll of this repo pending already?
ChainPeek(l) ==
  /\ Moves(l, "chaining",
           IF \E j \in Jobs : status[j] = "pending" /\ payload[j] = payload[held[l]]
             THEN "settling" ELSE "inserting")
  /\ UNCHANGED <<tableVars, held, snap, outcome, elapsed, processed, unchained>>

\* _schedule_next_poll, its INSERT and COMMIT.
ChainInsert(l) ==
  /\ Moves(l, "inserting", "settling")
  /\ Free # {}
  /\ Enqueue(NextId, payload[held[l]], POLL_INTERVAL)
  /\ UNCHANGED <<held, snap, outcome, elapsed, processed, unchained>>

\* _schedule_next_poll raises (no connection, a statement error): what it raises takes the
\* place of the handler's own outcome, even of a cancellation, and lands in the loop's
\* except Exception.
ChainFails(l) ==
  /\ \/ Moves(l, "chaining", "settling")
     \/ Moves(l, "inserting", "settling")
  /\ outcome' = [outcome EXCEPT ![l] = "retry"]
  /\ unchained' = unchained \cup {payload[held[l]]}
  /\ UNCHANGED <<tableVars, held, snap, elapsed, processed>>

\* Mutants of SettleRow: failures are retried without end; the budget is one attempt short.
SettleUnbounded(l) ==
  LET j == held[l]
  IN  \/ outcome[l] = "ok" /\ Complete(j)
      \/ outcome[l] = "terminal" /\ FailForGood(j)
      \/ outcome[l] = "retry" /\ \E d \in RetryDelays : Retry(j, d)
      \/ outcome[l] = "cancelled" /\ UNCHANGED tableVars

SettleShort(l) ==
  LET j == held[l]
  IN  \/ outcome[l] = "ok" /\ Complete(j)
      \/ outcome[l] = "terminal" /\ FailForGood(j)
      \/ outcome[l] = "retry" /\ snap[l] + 1 < MAX_ATTEMPTS /\ \E d \in RetryDelays : Retry(j, d)
      \/ outcome[l] = "retry" /\ snap[l] + 1 >= MAX_ATTEMPTS /\ FailForGood(j)
      \/ outcome[l] = "cancelled" /\ UNCHANGED tableVars

\* The except and else branches of the loop body: the transaction that ends the job.
SettleRow(l) ==
  LET j == held[l]
  IN  \/ outcome[l] = "ok" /\ Complete(j)
      \/ outcome[l] = "terminal" /\ FailForGood(j)
      \/ outcome[l] = "retry" /\ snap[l] < MAX_ATTEMPTS /\ \E d \in RetryDelays : Retry(j, d)
      \/ outcome[l] = "retry" /\ snap[l] >= MAX_ATTEMPTS /\ FailForGood(j)
      \/ outcome[l] = "cancelled" /\ UNCHANGED tableVars

\* A loop with no job in hand remembers nothing of the last one.
Forget(ls) ==
  /\ held' = [l \in Loops |-> IF l \in ls THEN NoJob ELSE held[l]]
  /\ snap' = [l \in Loops |-> IF l \in ls THEN 0 ELSE snap[l]]
  /\ outcome' = [l \in Loops |-> IF l \in ls THEN "none" ELSE outcome[l]]
  /\ elapsed' = [l \in Loops |-> IF l \in ls THEN 0 ELSE elapsed[l]]

Settle(l) ==
  /\ Moves(l, "settling", "idle")
  /\ SettleRow(l)
  /\ Forget({l})
  /\ UNCHANGED <<processed, unchained>>

\* SIGINT, or an exception that ends another loop: asyncio.run cancels the handler, whose
\* finally still runs.
Cancel(l) == LeavePoll(l, "cancelled")

\* SIGKILL, OOM, power: every loop of the process is gone, its rows stay in processing.
\* systemd starts the process again.
Crash(p) ==
  /\ pc' = [l \in Loops |-> IF proc[l] = p THEN "idle" ELSE pc[l]]
  /\ Forget({l \in Loops : proc[l] = p})
  /\ UNCHANGED <<tableVars, processed, unchained>>

\* How long a loop may still be in its place: wait_for ends a handler at JOB_TIMEOUT, and
\* the transactions after it take GRACE at most.
Limit(l) == IF pc[l] = "handling" THEN JOB_TIMEOUT ELSE JOB_TIMEOUT + GRACE

Tick ==
  /\ \A l \in Loops : pc[l] \in Busy => elapsed[l] < Limit(l)
  /\ TableTick
  /\ elapsed' = [l \in Loops |-> IF pc[l] \in Busy THEN elapsed[l] + 1 ELSE elapsed[l]]
  /\ UNCHANGED <<pc, held, snap, outcome, processed, unchained>>

LoopStep(l) ==
  \/ ClaimNext(l)
  \/ ClaimNone(l)
  \/ CountRemaining(l)
  \/ HandleEvent(l)
  \/ PollEnds(l)
  \/ TimeOut(l)
  \/ ChainPeek(l)
  \/ ChainInsert(l)
  \/ Settle(l)
=============================================================================
