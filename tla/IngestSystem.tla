---------------------------- MODULE IngestSystem -----------------------------
(***************************************************************************)
(* The ingest path as it is deployed: GitHub delivers to the receiver, the *)
(* receiver and the poll chain fill ingest_job, the claim loops of one or  *)
(* more worker processes drain it.                                         *)
(***************************************************************************)
EXTENDS Worker, WebhookReceiver

CONSTANT MaxFaults   \* bound on crashes, shutdowns, failed statements and aborted requests

ASSUME FaultAssumption == MaxFaults \in Nat
ASSUME FiniteAssumption == IsFiniteSet(Jobs) /\ IsFiniteSet(Loops) /\ IsFiniteSet(Procs) /\ Procs # {}

VARIABLE faults

vars == <<tableVars, workerVars, receiverVars, faults>>

TypeOK ==
  /\ TableTypeOK
  /\ WorkerTypeOK
  /\ ReceiverTypeOK
  /\ faults \in 0 .. MaxFaults

\* Every tracked repo has been seeded with one poll.
Init ==
  /\ TableInit
  /\ WorkerInit
  /\ ReceiverInit
  /\ faults = 0

Fault(A) == faults < MaxFaults /\ faults' = faults + 1 /\ A

WorkerNext ==
  \/ \E l \in Loops : LoopStep(l) /\ UNCHANGED faults
  \/ \E l \in Loops : Fault(Cancel(l))
  \/ \E l \in Loops : Fault(ChainFails(l))
  \/ \E p \in Procs : Fault(Crash(p))
  \/ Tick /\ UNCHANGED faults

ReceiverNext ==
  \/ \E t \in Threads, d \in Deliveries : Request(t, d) /\ UNCHANGED faults
  \/ \E t \in Threads : ReceiverStep(t) /\ UNCHANGED faults
  \/ \E t \in Threads : Fault(Abandon(t))

Next ==
  \/ WorkerNext /\ UNCHANGED receiverVars
  \/ ReceiverNext /\ UNCHANGED workerVars

Spec == Init /\ [][Next]_vars

-----------------------------------------------------------------------------
(* Safety. *)

\* A claim is exclusive for as long as its loop acts on it: no other loop, of this process or
\* another, holds the row, and nobody has moved it out of processing.  It rests on the claim's
\* single statement, on the strict comparison with the lease, and on the timeout that ends a
\* handler before its lease does (worker.py: "this worker releases the row before anyone else
\* may take it").
LeaseExclusive ==
  \A l \in Loops : pc[l] \in Busy =>
    /\ status[held[l]] = "processing"
    /\ \A m \in Loops : (pc[m] \in Busy /\ held[m] = held[l]) => m = l

\* Continuous ingest: every tracked repo always has a poll that is waiting or running,
\* whatever the provider answers, and whatever times out, is shut down or crashes; only a
\* _schedule_next_poll that raises can end the chain.  It rests on the finally block that
\* commits the next poll before the outcome of this one (worker.py, _handle_poll_repo).
PollChainAlive == \A r \in Repos \ unchained : LiveRows(r) # {}

\* Zero drops, zero duplicates: a delivery is recorded exactly if its work is queued, in one
\* row however often and however concurrently GitHub sends it, and a 200 is sent for
\* recorded deliveries alone (webhook.py, _record_delivery).
ReceivedIsQueuedOnce ==
  /\ acked \subseteq received
  /\ \A d \in Deliveries : d \in received <=> \E j \in Jobs : payload[j] = d
  /\ \A i, j \in Jobs : (payload[i] = payload[j] /\ payload[i] \in Deliveries) => i = j

\* No event is lost once it is queued: a row that is done had its event applied by a committed
\* transaction, and a row that was given up failed MAX_ATTEMPTS + 1 times, crashes not
\* counted (worker.py, the loop's except branches and _handle_webhook_event).
EventAppliedOrExhausted ==
  \A j \in Jobs : payload[j] \in Deliveries =>
    /\ status[j] = "done" => payload[j] \in processed
    /\ status[j] = "failed" => attempts[j] = MAX_ATTEMPTS + 1

\* A repo's polls do not multiply without bound: the guard of _schedule_next_poll lets one
\* process at a time add one more than there are loops to run them, whatever is retried,
\* and a crash leaves behind one row for each loop it ends.
FanOutBounded ==
  \A r \in Repos :
    Cardinality(LiveRows(r)) <= Cardinality(Loops) * (faults + 1) + Cardinality(Procs)

\* A --until-empty loop returns only when nothing is due and no loop of any process is in
\* the middle of a job (queue.py, pending_or_processing_count).
DrainsBeforeExit ==
  [][\A l \in Loops : (pc[l] # "exited" /\ pc'[l] = "exited")
        => /\ \A j \in Jobs : status[j] = "pending" => due[j] > 0
           /\ \A m \in Loops : pc[m] \notin Busy]_vars

\* The table, the workers and the receiver together keep the promises of EventLedger: the
\* row of a delivery is its entry in the ledger, open while it is pending or processing.
EventRow == [d \in Deliveries |-> CHOOSE j \in Jobs : payload[j] = d]
OpenEvents == {d \in received : status[EventRow[d]] \in Live}
EventFailures == [d \in Deliveries |-> IF d \in received THEN attempts[EventRow[d]] ELSE 0]

Ledger == INSTANCE EventLedger WITH
  accepted <- received,
  open <- OpenEvents,
  applied <- processed,
  failures <- EventFailures

\* No delivery is forgotten, closed early, closed twice or reopened, and none is worked on
\* after it was closed, whatever crashes, retries and redeliveries happen (queue.py's
\* complete and fail ask neither for an owner nor for a status).
KeepsLedger == Ledger!LedgerSpec

-----------------------------------------------------------------------------
(* Liveness. *)

\* asyncio resumes every coroutine that can run, wait_for's timer fires, systemd restarts a
\* worker that died, and ORDER BY run_at puts a due row before every row scheduled after it,
\* so that no row is passed over for ever.
Fairness ==
  /\ WF_vars(Tick /\ UNCHANGED <<receiverVars, faults>>)
  /\ \A x \in Payloads :
       SF_vars(\E l \in Loops, j \in Jobs :
                 payload[j] = x /\ ClaimRow(l, j) /\ UNCHANGED <<receiverVars, faults>>)
  /\ \A l \in Loops :
       WF_vars(/\ HandleEvent(l) \/ TimeOut(l) \/ ChainPeek(l) \/ ChainInsert(l) \/ Settle(l)
               /\ UNCHANGED <<receiverVars, faults>>)

FairSpec == Spec /\ Fairness

\* Every delivery that is recorded is dealt with in the end: its row does not stay pending or
\* stranded in processing, though workers time out and die (queue.py, LEASE: "without expiry
\* that row is stranded forever").
EventsSettle ==
  \A d \in Deliveries :
    d \in received ~> \E j \in Jobs : payload[j] = d /\ status[j] \in Terminal

\* Every tracked repo is polled again and again, unless a _schedule_next_poll of it raised
\* (worker.py: "this is what turns a single backfill into continuous ingest").
PollsRecur ==
  \A r \in Repos :
    []<>(r \in unchained \/ \E l \in Loops : pc[l] = "handling" /\ payload[held[l]] = r)
=============================================================================
