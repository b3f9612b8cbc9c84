------------------------- MODULE IngestPromiseProofs --------------------------
(***************************************************************************)
(* What the ingest system promises: that it implements EventLedger, every  *)
(* step of the queue, the workers and the receiver a step of the ledger or *)
(* none; that a --until-empty loop exits with nothing left to do; and that *)
(* the polls of a repo do not multiply, for any number of loops, processes,*)
(* rows and faults.                                                        *)
(***************************************************************************)
EXTENDS IngestSystemProofs, FiniteSetTheorems

USE DEF Busy, Live, Terminal, Payloads

\* A recorded delivery has one row, EventRow.
LEMMA RowOfIsTheRow ==
  ASSUME ReceivedIsQueuedOnce, NEW d \in received, d \in Deliveries
  PROVE  EventRow[d] \in Jobs /\ payload[EventRow[d]] = d /\ \A j \in Jobs : payload[j] = d => j = EventRow[d]
<1>1. \E j \in Jobs : payload[j] = d
  BY DEF ReceivedIsQueuedOnce
<1>2. EventRow[d] \in Jobs /\ payload[EventRow[d]] = d
  BY <1>1 DEF EventRow
<1> QED BY <1>2 DEF ReceivedIsQueuedOnce

\* The same in the next state.
LEMMA RowOfIsTheRowAfter ==
  ASSUME ReceivedIsQueuedOnce', NEW d \in received', d \in Deliveries
  PROVE  EventRow'[d] \in Jobs /\ payload'[EventRow'[d]] = d /\ \A j \in Jobs : payload'[j] = d => j = EventRow'[d]
<1>1. \E j \in Jobs : payload'[j] = d
  BY DEF ReceivedIsQueuedOnce
<1>2. EventRow'[d] \in Jobs /\ payload'[EventRow'[d]] = d
  BY <1>1 DEF EventRow
<1> QED BY <1>2 DEF ReceivedIsQueuedOnce

\* A delivery keeps its row: what the step says of a row it says of EventRow.
LEMMA RowOfStays ==
  ASSUME ReceivedIsQueuedOnce, ReceivedIsQueuedOnce', received \subseteq Deliveries,
         NEW d \in received, d \in received',
         \A j \in Jobs : payload[j] = d => payload'[j] = d
  PROVE  EventRow'[d] = EventRow[d]
BY RowOfIsTheRow, RowOfIsTheRowAfter

\* A step that changes neither the receiver's tables nor a delivery's row.
LEMMA LedgerStutters ==
  ASSUME IInv, IInv', UNCHANGED <<received, processed>>,
         \A j \in Jobs : payload[j] \in Deliveries =>
           /\ payload'[j] = payload[j]
           /\ attempts'[j] = attempts[j]
           /\ status[j] \in Live <=> status'[j] \in Live
  PROVE  UNCHANGED Ledger!ledgerVars
<1>1. received \subseteq Deliveries /\ ReceivedIsQueuedOnce /\ ReceivedIsQueuedOnce'
  BY DEF IInv, TypeOK, ReceiverTypeOK
<1>2. \A d \in received :
        /\ EventRow'[d] = EventRow[d]
        /\ attempts'[EventRow[d]] = attempts[EventRow[d]]
        /\ status[EventRow[d]] \in Live <=> status'[EventRow[d]] \in Live
  BY <1>1, RowOfIsTheRow, RowOfStays
<1>3. received' = received /\ processed' = processed
  OBVIOUS
<1>4. OpenEvents' = OpenEvents
  <2>1. \A d \in received : status'[EventRow'[d]] \in Live <=> status[EventRow[d]] \in Live
    BY <1>2
  <2> HIDE DEF Live
  <2> QED BY <1>3, <2>1 DEF OpenEvents
<1>5. EventFailures' = EventFailures
  <2>1. \A d \in received : attempts'[EventRow'[d]] = attempts[EventRow[d]]
    BY <1>2
  <2> QED BY <1>3, <2>1 DEF EventFailures
<1> QED BY <1>3, <1>4, <1>5 DEF Ledger!ledgerVars

LEMMA LedgerInitially == Init => Ledger!LedgerInit
BY DEF Init, ReceiverInit, WorkerInit, Ledger!LedgerInit, OpenEvents, EventFailures

LEMMA CommitAccepts ==
  ASSUME IInv, IInv', NEW t \in Threads, CommitDelivery(t), UNCHANGED workerVars
  PROVE  Ledger!LedgerNext
<1> DEFINE d == serving[t]
<1>1. d \in Deliveries /\ d \notin received /\ received' = received \cup {d}
  BY DEF IInv, ThreadsKnow, CommitDelivery
<1>2. received \subseteq Deliveries /\ ReceivedIsQueuedOnce /\ ReceivedIsQueuedOnce'
  BY DEF IInv, TypeOK, ReceiverTypeOK
<1>3. Enqueue(NextId, d, 0) /\ NextId \in Jobs /\ status[NextId] = "none"
  BY NextIdIsFree DEF CommitDelivery, Free
<1>4. payload[NextId] = NoPayload /\ TableTypeOK
  BY <1>3 DEF IInv, WorkInv, RowShape, TypeOK
<1> HIDE DEF d
<1>5. /\ status'[NextId] = "pending" /\ payload'[NextId] = d /\ attempts'[NextId] = 0
      /\ \A j \in Jobs : j # NextId => status'[j] = status[j] /\ payload'[j] = payload[j]
                                         /\ attempts'[j] = attempts[j]
  BY <1>3, <1>4 DEF Enqueue, TableTypeOK
<1>6. \A e \in received :
        /\ EventRow'[e] = EventRow[e]
        /\ attempts'[EventRow[e]] = attempts[EventRow[e]]
        /\ status'[EventRow[e]] = status[EventRow[e]]
  BY <1>1, <1>2, <1>4, <1>5, PayloadAssumption, RowOfIsTheRow, RowOfStays
<1>7. EventRow'[d] = NextId
  BY <1>1, <1>2, <1>3, <1>5, RowOfIsTheRowAfter
<1>8. OpenEvents' = OpenEvents \cup {d}
  BY <1>1, <1>5, <1>6, <1>7 DEF OpenEvents
<1>9. EventFailures' = EventFailures
  BY <1>1, <1>5, <1>6, <1>7 DEF EventFailures
<1>10. Ledger!Accept(d)
  BY <1>1, <1>8, <1>9 DEF Ledger!Accept, workerVars
<1> QED BY <1>1, <1>10 DEF Ledger!LedgerNext

LEMMA HandleApplies ==
  ASSUME IInv, IInv', NEW l \in Loops, HandleEvent(l), UNCHANGED receiverVars
  PROVE  Ledger!LedgerNext \/ UNCHANGED Ledger!ledgerVars
<1> DEFINE d == payload[held[l]]
<1>1. d \in Deliveries /\ held[l] \in Jobs /\ status[held[l]] = "processing"
  BY DEF HandleEvent, Moves, IInv, WorkInv, HoldsItsRow
<1>2. UNCHANGED <<tableVars, received>>
  BY DEF HandleEvent, receiverVars
<1>3. OpenEvents' = OpenEvents /\ EventFailures' = EventFailures
  BY <1>2 DEF OpenEvents, EventFailures, EventRow, tableVars
<1>4. CASE processed' = processed
  BY <1>2, <1>3, <1>4 DEF Ledger!ledgerVars
<1>5. CASE processed' = processed \cup {d}
  <2>1. ReceivedIsQueuedOnce /\ d \in received
    BY <1>1 DEF IInv, ReceivedIsQueuedOnce
  <2>2. held[l] = EventRow[d]
    BY <1>1, <2>1, RowOfIsTheRow
  <2>3. d \in OpenEvents
    BY <1>1, <2>1, <2>2 DEF OpenEvents
  <2>4. Ledger!Apply(d)
    BY <1>2, <1>3, <1>5, <2>3 DEF Ledger!Apply
  <2> QED BY <1>1, <2>4 DEF Ledger!LedgerNext
<1> QED BY <1>4, <1>5 DEF HandleEvent

\* The end of a poll is nothing to the ledger, that of an event closes it or counts a failure.
LEMMA SettleCloses ==
  ASSUME IInv, IInv', NEW l \in Loops, Settle(l), UNCHANGED receiverVars
  PROVE  Ledger!LedgerNext \/ UNCHANGED Ledger!ledgerVars
<1> DEFINE j == held[l]
           d == payload[j]
<1>1. /\ j \in Jobs /\ status[j] = "processing" /\ snap[l] = attempts[j] /\ SettleRow(l)
      /\ UNCHANGED <<received, processed>>
  BY DEF IInv, WorkInv, HoldsItsRow, Settle, Moves, receiverVars
<1>2. d \in Payloads /\ attempts[j] \in 0 .. MAX_ATTEMPTS /\ TableTypeOK
  BY <1>1, PayloadAssumption DEF IInv, TypeOK, TableTypeOK, WorkInv, RowShape
<1>3. /\ \A i \in Jobs : i # j => status'[i] = status[i] /\ payload'[i] = payload[i]
                                  /\ attempts'[i] = attempts[i]
      /\ d \in Repos => payload'[j] \notin Deliveries
  BY SettleRowKeeps, PayloadAssumption DEF Settle, Moves
<1>4. CASE d \in Repos
  BY <1>1, <1>3, <1>4, LedgerStutters, PayloadAssumption
<1>5. CASE d \in Deliveries
  <2>1. received \subseteq Deliveries /\ ReceivedIsQueuedOnce /\ ReceivedIsQueuedOnce'
    BY DEF IInv, TypeOK, ReceiverTypeOK
  <2>2. d \in received /\ EventRow[d] = j /\ d \in OpenEvents /\ EventFailures[d] = attempts[j]
    BY <1>1, <1>5, <2>1, RowOfIsTheRow DEF ReceivedIsQueuedOnce, OpenEvents, EventFailures
  <2>3. payload'[j] = d
    BY <1>5, SettleRowKeeps DEF Settle, Moves
  <2>4. \A e \in received :
          /\ EventRow'[e] = EventRow[e]
          /\ e # d => /\ attempts'[EventRow[e]] = attempts[EventRow[e]]
                      /\ status'[EventRow[e]] = status[EventRow[e]]
    BY <1>1, <1>3, <2>1, <2>3, RowOfIsTheRow, RowOfStays
  <2>5. status'[j] \in Live => OpenEvents' = OpenEvents
    BY <1>1, <2>2, <2>4 DEF OpenEvents
  <2>6. status'[j] \notin Live => OpenEvents' = OpenEvents \ {d}
    BY <1>1, <2>2, <2>4 DEF OpenEvents
  <2>7. EventFailures' = [EventFailures EXCEPT ![d] = attempts'[j]]
    BY <1>1, <1>5, <2>2, <2>4 DEF EventFailures
  <2>8. outcome[l] \in {"ok", "retry"} /\ (outcome[l] = "ok" => d \in processed)
    BY <1>5 DEF Settle, Moves, IInv, WorkInv, KindsApart
  <2>9. CASE outcome[l] = "ok" /\ Complete(j)
    <3>1. status'[j] = "done" /\ attempts'[j] = attempts[j]
      BY <1>1, <1>2, <1>5, <2>9, PayloadAssumption DEF Complete, End, TableTypeOK
    <3>2. EventFailures' = EventFailures
      BY <2>2, <2>7, <3>1 DEF EventFailures
    <3>3. Ledger!Close(d)
      BY <1>1, <2>2, <2>6, <2>8, <2>9, <3>1, <3>2 DEF Ledger!Close
    <3> QED BY <1>5, <3>3 DEF Ledger!LedgerNext
  <2>10. CASE outcome[l] = "retry" /\ snap[l] < MAX_ATTEMPTS /\ \E w \in RetryDelays : Retry(j, w)
    <3>1. status'[j] = "pending" /\ attempts'[j] = attempts[j] + 1
      BY <1>1, <1>2, <2>10 DEF Retry, TableTypeOK
    <3>2. Ledger!FailOnce(d)
      BY <1>1, <2>2, <2>5, <2>7, <2>10, <3>1 DEF Ledger!FailOnce
    <3> QED BY <1>5, <3>2 DEF Ledger!LedgerNext
  <2>11. CASE outcome[l] = "retry" /\ snap[l] >= MAX_ATTEMPTS /\ FailForGood(j)
    <3>1. status'[j] = "failed" /\ attempts'[j] = attempts[j] + 1
      BY <1>1, <1>2, <1>5, <2>11, PayloadAssumption DEF FailForGood, End, TableTypeOK
    <3>2. ~(attempts[j] < MAX_ATTEMPTS)
      BY <1>1, <1>2, <2>11, NumberAssumption
    <3>3. Ledger!FailOnce(d)
      BY <1>1, <2>2, <2>6, <2>7, <3>1, <3>2 DEF Ledger!FailOnce
    <3> QED BY <1>5, <3>3 DEF Ledger!LedgerNext
  <2> QED BY <1>1, <2>8, <2>9, <2>10, <2>11 DEF SettleRow
<1> QED BY <1>2, <1>4, <1>5

LEMMA LedgerStep ==
  ASSUME IInv, IInv', [Next]_vars
  PROVE  Ledger!LedgerNext \/ UNCHANGED Ledger!ledgerVars
<1>1. CASE WorkerNext /\ UNCHANGED receiverVars
  <2>1. CASE \E l \in Loops : LoopStep(l)
    <3>1. PICK l \in Loops : LoopStep(l)
      BY <2>1
    <3>2. CASE ClaimNext(l)
      <4>1. PICK j \in Jobs : ClaimRow(l, j)
        BY <3>2 DEF ClaimNext
      <4>2. /\ status[j] \in Live /\ status' = [status EXCEPT ![j] = "processing"]
            /\ UNCHANGED <<payload, attempts, processed>>
        BY <4>1 DEF ClaimRow, Claim, Claimable, Expired
      <4>3. status \in [Jobs -> Statuses]
        BY DEF IInv, TypeOK, TableTypeOK
      <4> QED BY <1>1, <4>2, <4>3, LedgerStutters DEF receiverVars
    <3>3. CASE \/ ClaimNone(l) \/ CountRemaining(l) \/ PollEnds(l) \/ TimeOut(l) \/ ChainPeek(l)
      <4>1. UNCHANGED <<status, payload, attempts, processed>>
        BY <3>3 DEF ClaimNone, CountRemaining, PollEnds, TimeOut, LeavePoll, ChainPeek, tableVars
      <4> QED BY <1>1, <4>1, LedgerStutters DEF receiverVars
    <3>4. CASE ChainInsert(l)
      <4>1. /\ NextId \in Jobs /\ status[NextId] = "none"
            /\ Enqueue(NextId, payload[held[l]], POLL_INTERVAL) /\ UNCHANGED processed
        BY <3>4, NextIdIsFree DEF ChainInsert, Free
      <4>2. payload[NextId] = NoPayload
        BY <4>1 DEF IInv, WorkInv, RowShape
      <4>3. \A j \in Jobs : payload[j] \in Deliveries => j # NextId
        BY <4>2, PayloadAssumption
      <4>4. TableTypeOK
        BY DEF IInv, TypeOK
      <4>5. \A j \in Jobs : j # NextId =>
              status'[j] = status[j] /\ payload'[j] = payload[j] /\ attempts'[j] = attempts[j]
        BY <4>1, <4>4 DEF Enqueue, TableTypeOK
      <4> QED BY <1>1, <4>1, <4>3, <4>5, LedgerStutters DEF receiverVars
    <3> QED BY <1>1, <3>1, <3>2, <3>3, <3>4, HandleApplies, SettleCloses DEF LoopStep
  <2>2. CASE \/ \E l \in Loops : Cancel(l) \/ ChainFails(l)
             \/ \E p \in Procs : Crash(p)
             \/ Tick
    <3>1. UNCHANGED <<payload, attempts, status, processed>>
      BY <2>2 DEF Cancel, LeavePoll, ChainFails, Crash, Tick, TableTick, tableVars
    <3> QED BY <1>1, <3>1, LedgerStutters DEF receiverVars
  <2> QED BY <1>1, <2>1, <2>2 DEF WorkerNext, Fault
<1>2. CASE ReceiverNext /\ UNCHANGED workerVars
  <2>1. CASE \E t \in Threads : CommitDelivery(t)
    BY <1>2, <2>1, CommitAccepts
  <2>2. CASE \E t \in Threads : \/ \E d \in Deliveries : Request(t, d)
                               \/ InsertDelivery(t) \/ AnswerKnown(t) \/ Abandon(t)
    <3>1. UNCHANGED <<payload, attempts, status, received>>
      BY <2>2 DEF Request, InsertDelivery, AnswerKnown, Abandon, tableVars
    <3> QED BY <1>2, <3>1, LedgerStutters DEF workerVars
  <2> QED BY <1>2, <2>1, <2>2 DEF ReceiverNext, ReceiverStep, Fault
<1>3. CASE UNCHANGED vars
  BY <1>3, LedgerStutters DEF vars, tableVars, workerVars, receiverVars
<1> QED BY <1>1, <1>2, <1>3 DEF Next

\* The ingest path implements the ledger: no delivery is forgotten, closed before its time or
\* reopened (webhook.py, worker.py, queue.py's complete and fail).
THEOREM IngestImplementsLedger == Spec => KeepsLedger
<1>1. Init => Ledger!LedgerInit
  BY LedgerInitially
<1>2. IInv /\ IInv' /\ [Next]_vars => [Ledger!LedgerNext]_Ledger!ledgerVars
  BY LedgerStep
<1> QED BY <1>1, <1>2, Invariance, PTL DEF Spec, KeepsLedger, Ledger!LedgerSpec

-----------------------------------------------------------------------------
\* What a count of zero says: no row is due, and no loop is busy, for the lease of a busy
\* loop's row is live.
LEMMA NothingOutstanding ==
  ASSUME IInv, Outstanding = {}
  PROVE  /\ \A j \in Jobs : status[j] = "pending" => due[j] > 0
         /\ \A m \in Loops : pc[m] \notin Busy
<1>1. ASSUME NEW j \in Jobs, status[j] = "pending" PROVE due[j] > 0
  <2>1. due[j] \in Int
    BY NumberAssumption DEF IInv, TypeOK, TableTypeOK
  <2> QED BY <1>1, <2>1 DEF Outstanding
<1>2. ASSUME NEW m \in Loops, pc[m] \in Busy PROVE FALSE
  <2>1. /\ held[m] \in Jobs /\ status[held[m]] = "processing" /\ age[held[m]] = elapsed[m]
        /\ elapsed[m] \in Nat /\ elapsed[m] <= LEASE
    BY <1>2, LimitWithinLease, TimeoutAssumption
    DEF IInv, WorkInv, HoldsItsRow, TypeOK, WorkerTypeOK
  <2> QED BY <2>1, NumberAssumption DEF Outstanding, Expired
<1> QED BY <1>1, <1>2

LEMMA OnlyCountingExits ==
  ASSUME IInv, [Next]_vars, NEW l \in Loops, pc[l] # "exited", pc'[l] = "exited"
  PROVE  CountRemaining(l) /\ Outstanding = {}
<1>1. pc \in [Loops -> Places]
  BY DEF IInv, TypeOK, WorkerTypeOK
<1>2. PICK m \in Loops : LoopStep(m)
  BY <1>1 DEF Next, WorkerNext, ReceiverNext, Fault, Cancel, LeavePoll, Moves, ChainFails, Crash, Tick,
     vars, workerVars
<1>3. ASSUME NEW from, NEW to, Moves(m, from, to)
      PROVE  m = l /\ to = "exited"
  BY <1>1, <1>3 DEF Moves
<1>4. CountRemaining(m)
  BY <1>2, <1>3 DEF LoopStep, ClaimNext, ClaimRow, ClaimNone, HandleEvent, PollEnds, TimeOut, LeavePoll,
     ChainPeek, ChainInsert, Settle
<1> QED BY <1>3, <1>4 DEF CountRemaining

\* A --until-empty loop leaves only when the backlog is drained and nobody is at work on it
\* (queue.py, pending_or_processing_count).
THEOREM DrainedBeforeExit == Spec => DrainsBeforeExit
<1>1. IInv /\ [Next]_vars =>
        [\A l \in Loops : (pc[l] # "exited" /\ pc'[l] = "exited")
          => /\ \A j \in Jobs : status[j] = "pending" => due[j] > 0
             /\ \A m \in Loops : pc[m] \notin Busy]_vars
  BY OnlyCountingExits, NothingOutstanding
<1> QED BY <1>1, Invariance, PTL DEF Spec, DrainsBeforeExit

-----------------------------------------------------------------------------
(* The polls of a repo. *)

USE DEF Busy, Live

\* The rows in processing that nobody is at work on any more.
Stranded == {j \in Jobs : status[j] = "processing" /\ \A l \in Loops : pc[l] \in Busy => held[l] # j}

\* The loops that will leave their row as it is.
Cancelled == {l \in Loops : pc[l] \in Busy /\ outcome[l] = "cancelled"}

\* The loops that are about to insert a poll of the repo.
Inserting(r) == {l \in Loops : pc[l] = "inserting" /\ payload[held[l]] = r}

\* Each fault strands at most the rows of all loops.
StrandBound == Cardinality(Stranded) + Cardinality(Cancelled) <= Cardinality(Loops) * faults

OneInserts == \A l, m \in Loops : pc[l] = "inserting" /\ pc[m] = "inserting" /\ proc[l] = proc[m] => l = m

FanBound(r) ==
  Cardinality(LiveRows(r)) + Cardinality(Inserting(r))
    <= Cardinality(Loops) * (faults + 1) + Cardinality(Procs)

FanInv == StrandBound /\ OneInserts /\ \A r \in Repos : FanBound(r)

(* Cardinalities. *)

LEMMA Numbers ==
  ASSUME NEW n \in Nat
  PROVE  /\ Cardinality(Loops) \in Nat /\ Cardinality(Procs) \in Nat /\ Cardinality(Procs) > 0
         /\ Cardinality(Loops) * n \in Nat
         /\ Cardinality(Loops) * (n + 1) = Cardinality(Loops) * n + Cardinality(Loops)
         /\ Cardinality(Loops) * (n + 1) \in Nat
         /\ Cardinality(Loops) * (n + 1 + 1) = Cardinality(Loops) * (n + 1) + Cardinality(Loops)
<1>1. Cardinality(Loops) \in Nat /\ Cardinality(Procs) \in Nat
  BY FiniteAssumption, FS_CardinalityType
<1>2. Cardinality(Procs) # 0
  BY FiniteAssumption, FS_EmptySet
<1>3. \A k, m \in Nat : k * m \in Nat /\ k * (m + 1) = k * m + k /\ m + 1 \in Nat
  OBVIOUS
<1> QED BY <1>1, <1>2, <1>3

\* A subset, and what one more element adds.
LEMMA Grows ==
  ASSUME NEW S, IsFiniteSet(S), NEW T, NEW x, T \subseteq S \cup {x}
  PROVE  /\ IsFiniteSet(T) /\ Cardinality(T) \in Nat /\ Cardinality(S) \in Nat
         /\ Cardinality(T) <= Cardinality(S) + 1
         /\ T \subseteq S => Cardinality(T) <= Cardinality(S)
         /\ x \in S /\ T \subseteq S \ {x} => Cardinality(T) <= Cardinality(S) - 1
<1>1. IsFiniteSet(S \cup {x}) /\ Cardinality(S \cup {x}) <= Cardinality(S) + 1 /\ Cardinality(S) \in Nat
      /\ Cardinality(S \cup {x}) \in Nat
  BY FS_AddElement, FS_CardinalityType
<1>2. IsFiniteSet(T) /\ Cardinality(T) <= Cardinality(S \cup {x}) /\ Cardinality(T) \in Nat
  BY <1>1, FS_Subset, FS_CardinalityType
<1>3. T \subseteq S => Cardinality(T) <= Cardinality(S)
  BY FS_Subset
<1>4. x \in S /\ T \subseteq S \ {x} => Cardinality(T) <= Cardinality(S) - 1
  <2>1. IsFiniteSet(S \ {x}) /\ (x \in S => Cardinality(S \ {x}) = Cardinality(S) - 1)
    BY FS_RemoveElement
  <2>2. T \subseteq S \ {x} => Cardinality(T) <= Cardinality(S \ {x})
    BY <2>1, FS_Subset
  <2> QED BY <2>1, <2>2
<1> QED BY <1>1, <1>2, <1>3, <1>4

LEMMA SetsAreFinite ==
  /\ IsFiniteSet(Stranded) /\ IsFiniteSet(Stranded') /\ IsFiniteSet(Cancelled) /\ IsFiniteSet(Cancelled')
  /\ \A r : /\ IsFiniteSet(LiveRows(r)) /\ IsFiniteSet(LiveRows(r)')
            /\ IsFiniteSet(Inserting(r)) /\ IsFiniteSet(Inserting(r)')
<1>1. \A S \in SUBSET Jobs : IsFiniteSet(S)
  BY FiniteAssumption, FS_Subset
<1>2. \A S \in SUBSET Loops : IsFiniteSet(S)
  BY FiniteAssumption, FS_Subset
<1>3. Stranded \subseteq Jobs /\ Stranded' \subseteq Jobs /\ Cancelled \subseteq Loops /\ Cancelled' \subseteq Loops
  BY DEF Stranded, Cancelled
<1>4. \A r : LiveRows(r) \subseteq Jobs /\ LiveRows(r)' \subseteq Jobs
  BY DEF LiveRows
<1>5. \A r : Inserting(r) \subseteq Loops /\ Inserting(r)' \subseteq Loops
  BY DEF Inserting
<1> QED BY <1>1, <1>2, <1>3, <1>4, <1>5

\* Rows that busy loops hold are at most as many as the loops.
LEMMA HeldAreFew ==
  ASSUME NEW ls \in SUBSET Loops
  PROVE  /\ IsFiniteSet({held[l] : l \in ls})
         /\ Cardinality({held[l] : l \in ls}) <= Cardinality(Loops)
<1>1. IsFiniteSet(ls) /\ Cardinality(ls) <= Cardinality(Loops) /\ Cardinality(ls) \in Nat
      /\ Cardinality(Loops) \in Nat
  BY FiniteAssumption, FS_Subset, FS_CardinalityType
<1> DEFINE T == {held[l] : l \in ls}
           h == [l \in ls |-> held[l]]
<1>2. h \in Surjection(ls, T)
  BY DEF Surjection
<1>3. IsFiniteSet(T) /\ Cardinality(T) <= Cardinality(ls)
  <2> HIDE DEF h, T
  <2> QED BY <1>1, <1>2, FS_Surjection
<1>4. Cardinality(T) \in Nat
  BY <1>3, FS_CardinalityType
<1> QED BY <1>1, <1>3, <1>4

-----------------------------------------------------------------------------
(* The steps. *)

LEMMA FanInitially == Init => FanInv
<1> SUFFICES ASSUME Init PROVE FanInv
  OBVIOUS
<1>1. faults = 0 /\ Stranded = {} /\ Cancelled = {} /\ \A r : Inserting(r) = {}
  BY DEF Init, TableInit, WorkerInit, Stranded, Cancelled, Inserting
<1>2. /\ Cardinality({}) = 0 /\ Cardinality(Loops) \in Nat /\ Cardinality(Loops) * 0 = 0
      /\ Cardinality(Procs) \in Nat /\ Cardinality(Procs) > 0
      /\ Cardinality(Loops) * (0 + 1) = Cardinality(Loops)
  <2>1. Cardinality({}) = 0
    BY FS_EmptySet
  <2>2. \A k \in Nat : k * 0 = 0 /\ k * (0 + 1) = k
    OBVIOUS
  <2> QED BY <2>1, <2>2, Numbers
<1>3. OneInserts
  BY DEF Init, WorkerInit, OneInserts
<1>4. ASSUME NEW r \in Repos PROVE FanBound(r)
  <2>1. LiveRows(r) \subseteq {} \cup {Seed[r]}
    <3>1. ASSUME NEW j \in LiveRows(r) PROVE j = Seed[r]
      <4>1. Seeded(j) /\ r = CHOOSE q \in Repos : Seed[q] = j
        BY <3>1, PayloadAssumption DEF LiveRows, Init, TableInit
      <4> QED BY <4>1 DEF Seeded
    <3> QED BY <3>1
  <2>2. Cardinality(LiveRows(r)) \in Nat /\ Cardinality(LiveRows(r)) <= 1
    <3>1. IsFiniteSet({})
      BY FS_EmptySet
    <3>2. Cardinality(LiveRows(r)) \in Nat /\ Cardinality(LiveRows(r)) <= Cardinality({}) + 1
      BY <2>1, <3>1, Grows
    <3> QED BY <1>2, <3>2
  <2> QED BY <1>1, <1>2, <2>2 DEF FanBound
<1> QED BY <1>1, <1>2, <1>3, <1>4 DEF FanInv, StrandBound

\* A step that adds nothing: no row is stranded, no loop cancelled, no poll inserted or about to be.
LEMMA FanShrinks ==
  ASSUME FanInv, faults \in Nat, faults' = faults \/ faults' = faults + 1,
         Stranded' \subseteq Stranded, Cancelled' \subseteq Cancelled,
         \A l \in Loops : pc'[l] = "inserting" => pc[l] = "inserting",
         \A r \in Repos : LiveRows(r)' \subseteq LiveRows(r) /\ Inserting(r)' \subseteq Inserting(r)
  PROVE  FanInv'
<1>1. /\ Cardinality(Loops) * faults \in Nat /\ Cardinality(Loops) \in Nat /\ Cardinality(Procs) \in Nat
      /\ Cardinality(Loops) * (faults + 1) = Cardinality(Loops) * faults + Cardinality(Loops)
      /\ Cardinality(Loops) * (faults + 1) \in Nat
      /\ Cardinality(Loops) * (faults + 1 + 1) = Cardinality(Loops) * (faults + 1) + Cardinality(Loops)
  BY Numbers
<1>2. /\ Cardinality(Stranded) \in Nat /\ Cardinality(Stranded') \in Nat /\ Cardinality(Stranded') <= Cardinality(Stranded)
      /\ Cardinality(Cancelled) \in Nat /\ Cardinality(Cancelled') \in Nat
      /\ Cardinality(Cancelled') <= Cardinality(Cancelled)
  BY SetsAreFinite, FS_Subset, FS_CardinalityType
<1>3. StrandBound'
  BY <1>1, <1>2 DEF FanInv, StrandBound
<1>4. OneInserts'
  BY DEF FanInv, OneInserts
<1>5. ASSUME NEW r \in Repos PROVE FanBound(r)'
  <2>1. /\ Cardinality(LiveRows(r)) \in Nat /\ Cardinality(LiveRows(r)') \in Nat
        /\ Cardinality(LiveRows(r)') <= Cardinality(LiveRows(r))
        /\ Cardinality(Inserting(r)) \in Nat /\ Cardinality(Inserting(r)') \in Nat
        /\ Cardinality(Inserting(r)') <= Cardinality(Inserting(r))
    BY SetsAreFinite, FS_Subset, FS_CardinalityType
  <2> QED BY <1>1, <2>1 DEF FanInv, FanBound
<1> QED BY <1>3, <1>4, <1>5 DEF FanInv

\* A fault that cancels a loop, or ends those of a process.
LEMMA FanFaults ==
  ASSUME FanInv, IInv, faults \in Nat, faults' = faults + 1,
         (\E l \in Loops : Cancel(l)) \/ (\E p \in Procs : Crash(p))
  PROVE  FanInv'
<1>0. TypeOK /\ HoldsItsRow
  BY DEF IInv, WorkInv
<1>1. /\ Cardinality(Loops) * faults \in Nat /\ Cardinality(Loops) \in Nat /\ Cardinality(Procs) \in Nat
      /\ Cardinality(Loops) * (faults + 1) = Cardinality(Loops) * faults + Cardinality(Loops)
      /\ Cardinality(Loops) * (faults + 1 + 1) = Cardinality(Loops) * (faults + 1) + Cardinality(Loops)
  BY Numbers
<1>2. /\ Cardinality(Stranded) \in Nat /\ Cardinality(Stranded') \in Nat
      /\ Cardinality(Cancelled) \in Nat /\ Cardinality(Cancelled') \in Nat
  BY SetsAreFinite, FS_CardinalityType
<1>3. /\ UNCHANGED tableVars
      /\ \A l \in Loops : pc'[l] = "inserting" => pc[l] = "inserting" /\ held'[l] = held[l]
  BY <1>0 DEF Cancel, LeavePoll, Moves, Crash, Forget, TypeOK, WorkerTypeOK
<1>4. OneInserts' /\ \A r \in Repos : FanBound(r)'
  <2>1. OneInserts'
    BY <1>3 DEF FanInv, OneInserts
  <2>2. ASSUME NEW r \in Repos PROVE FanBound(r)'
    <3>1. LiveRows(r)' = LiveRows(r) /\ Inserting(r)' \subseteq Inserting(r)
      BY <1>3 DEF LiveRows, Inserting, tableVars
    <3>2. /\ Cardinality(LiveRows(r)) \in Nat /\ Cardinality(Inserting(r)) \in Nat
          /\ Cardinality(Inserting(r)') \in Nat /\ Cardinality(Inserting(r)') <= Cardinality(Inserting(r))
      BY <3>1, SetsAreFinite, FS_Subset, FS_CardinalityType
    <3> QED BY <1>1, <3>1, <3>2 DEF FanInv, FanBound
  <2> QED BY <2>1, <2>2
<1>5. Cardinality(Stranded') + Cardinality(Cancelled')
        <= Cardinality(Stranded) + Cardinality(Cancelled) + Cardinality(Loops)
  <2>1. CASE \E l \in Loops : Cancel(l)
    <3>1. PICK l \in Loops : Cancel(l)
      BY <2>1
    <3>2. Stranded' = Stranded /\ Cancelled' \subseteq Cancelled \cup {l}
      BY <1>0, <3>1 DEF Cancel, LeavePoll, Moves, Stranded, Cancelled, TypeOK, WorkerTypeOK, tableVars
    <3>3. Cardinality(Cancelled') <= Cardinality(Cancelled) + 1
      BY <3>2, SetsAreFinite, Grows
    <3>4. Cardinality(Loops) # 0
      BY FiniteAssumption, FS_EmptySet
    <3> QED BY <1>1, <1>2, <3>2, <3>3, <3>4
  <2>2. CASE \E p \in Procs : Crash(p)
    <3>1. PICK p \in Procs : Crash(p)
      BY <2>2
    <3> DEFINE ls == {l \in Loops : proc[l] = p}
               hs == {held[l] : l \in ls}
    <3>2. Stranded' \subseteq Stranded \cup hs /\ Cancelled' \subseteq Cancelled
      BY <1>0, <3>1 DEF Crash, Forget, Stranded, Cancelled, tableVars, TypeOK, WorkerTypeOK
    <3>3. IsFiniteSet(hs) /\ Cardinality(hs) <= Cardinality(Loops) /\ Cardinality(hs) \in Nat
      BY HeldAreFew, FS_CardinalityType
    <3>4. Cardinality(Stranded') <= Cardinality(Stranded) + Cardinality(hs)
      <4> HIDE DEF hs
      <4>1. /\ IsFiniteSet(Stranded \cup hs)
            /\ Cardinality(Stranded \cup hs) <= Cardinality(Stranded) + Cardinality(hs)
            /\ Cardinality(Stranded \cup hs) \in Nat
        <5>1. IsFiniteSet(Stranded) /\ IsFiniteSet(hs)
          BY <3>3, SetsAreFinite
        <5>2. /\ IsFiniteSet(Stranded \cup hs)
              /\ Cardinality(Stranded \cup hs) = Cardinality(Stranded) + Cardinality(hs) - Cardinality(Stranded \cap hs)
          BY <5>1, FS_Union
        <5>3. Cardinality(Stranded \cap hs) \in Nat /\ Cardinality(Stranded \cup hs) \in Nat
          BY <5>1, <5>2, FS_Intersection, FS_CardinalityType
        <5> QED BY <1>2, <3>3, <5>2, <5>3
      <4> QED BY <1>2, <3>2, <3>3, <4>1, FS_Subset
    <3>5. Cardinality(Cancelled') <= Cardinality(Cancelled)
      BY <3>2, SetsAreFinite, FS_Subset
    <3> HIDE DEF hs
    <3> QED BY <1>1, <1>2, <3>3, <3>4, <3>5
  <2> QED BY <2>1, <2>2
<1>6. StrandBound'
  BY <1>1, <1>2, <1>5 DEF FanInv, StrandBound
<1> QED BY <1>4, <1>6 DEF FanInv

\* A loop that ends its work: its row is over or pending again, or was cancelled and is stranded.
LEMMA FanSettles ==
  ASSUME FanInv, IInv, NEW l \in Loops, Settle(l), UNCHANGED faults
  PROVE  FanInv'
<1>0. TypeOK /\ HoldsItsRow /\ HoldsItAlone
  BY DEF IInv, WorkInv
<1>1. /\ pc[l] = "settling" /\ pc' = [pc EXCEPT ![l] = "idle"] /\ Forget({l})
      /\ held[l] \in Jobs /\ status[held[l]] = "processing"
  BY <1>0 DEF Settle, Moves, HoldsItsRow
<1>2. \A m \in Loops \ {l} : pc'[m] = pc[m] /\ held'[m] = held[m] /\ outcome'[m] = outcome[m]
  BY <1>0, <1>1 DEF Forget, TypeOK, WorkerTypeOK
<1>3. \A j \in Jobs \ {held[l]} : status'[j] = status[j] /\ payload'[j] = payload[j]
  BY <1>0, <1>1 DEF Settle, SettleRow, Complete, FailForGood, Retry, End, tableVars, TypeOK, TableTypeOK
<1>4. \/ status'[held[l]] # "processing"
      \/ outcome[l] = "cancelled" /\ status' = status
  BY <1>0, <1>1, <1>3 DEF Settle, SettleRow, Complete, FailForGood, Retry, End, tableVars, TypeOK, TableTypeOK
<1>5. \A r \in Repos : payload'[held[l]] = r => payload[held[l]] = r
  BY <1>0, <1>1, PayloadAssumption DEF Settle, SettleRow, Complete, FailForGood, Retry, End, tableVars, TypeOK, TableTypeOK
<1>6. \A m \in Loops : pc'[m] = "inserting" => pc[m] = "inserting" /\ held'[m] = held[m] /\ held[m] # held[l]
  BY <1>0, <1>1, <1>2 DEF HoldsItAlone
<1>7. \A r \in Repos : LiveRows(r)' \subseteq LiveRows(r) /\ Inserting(r)' \subseteq Inserting(r)
  <2> SUFFICES ASSUME NEW r \in Repos PROVE LiveRows(r)' \subseteq LiveRows(r) /\ Inserting(r)' \subseteq Inserting(r)
    OBVIOUS
  <2>1. LiveRows(r)' \subseteq LiveRows(r)
    BY <1>1, <1>3, <1>5 DEF LiveRows
  <2>2. Inserting(r)' \subseteq Inserting(r)
    BY <1>0, <1>3, <1>6 DEF Inserting, HoldsItsRow
  <2> QED BY <2>1, <2>2
<1>8. CASE status'[held[l]] # "processing"
  <2>1. Stranded' \subseteq Stranded
    BY <1>1, <1>2, <1>3, <1>8 DEF Stranded
  <2>2. Cancelled' \subseteq Cancelled
    BY <1>1, <1>2, <1>0 DEF Cancelled, TypeOK, WorkerTypeOK
  <2> QED BY <1>0, <1>6, <1>7, <2>1, <2>2, FanShrinks, FaultAssumption DEF TypeOK
<1>9. CASE outcome[l] = "cancelled" /\ status' = status
  <2>1. Stranded' \subseteq Stranded \cup {held[l]}
    BY <1>1, <1>2, <1>9 DEF Stranded
  <2>2. l \in Cancelled /\ Cancelled' \subseteq Cancelled \ {l}
    BY <1>1, <1>2, <1>9, <1>0 DEF Cancelled, TypeOK, WorkerTypeOK
  <2>3. /\ Cardinality(Stranded') <= Cardinality(Stranded) + 1
        /\ Cardinality(Stranded') \in Nat /\ Cardinality(Stranded) \in Nat
    BY <2>1, SetsAreFinite, Grows
  <2>4. /\ Cardinality(Cancelled') <= Cardinality(Cancelled) - 1
        /\ Cardinality(Cancelled') \in Nat /\ Cardinality(Cancelled) \in Nat
    <3>1. Cancelled' \subseteq Cancelled \cup {l}
      BY <2>2
    <3> QED BY <2>2, <3>1, SetsAreFinite, Grows
  <2>5. StrandBound'
    <3>1. Cardinality(Loops) * faults \in Nat
      BY <1>0, Numbers, FaultAssumption DEF TypeOK
    <3> QED BY <2>3, <2>4, <3>1 DEF FanInv, StrandBound
  <2>6. OneInserts'
    BY <1>6 DEF FanInv, OneInserts
  <2>7. ASSUME NEW r \in Repos PROVE FanBound(r)'
    <3>1. /\ Cardinality(LiveRows(r)) \in Nat /\ Cardinality(LiveRows(r)') \in Nat
          /\ Cardinality(LiveRows(r)') <= Cardinality(LiveRows(r))
          /\ Cardinality(Inserting(r)) \in Nat /\ Cardinality(Inserting(r)') \in Nat
          /\ Cardinality(Inserting(r)') <= Cardinality(Inserting(r))
      BY <1>7, SetsAreFinite, FS_Subset, FS_CardinalityType
    <3>2. Cardinality(Loops) * (faults + 1) \in Nat /\ Cardinality(Procs) \in Nat
      BY <1>0, Numbers, FaultAssumption DEF TypeOK
    <3> QED BY <3>1, <3>2 DEF FanInv, FanBound
  <2> QED BY <2>5, <2>6, <2>7 DEF FanInv
<1> QED BY <1>4, <1>8, <1>9

\* A loop that found no pending poll of its repo: the live ones are in processing, so held or
\* stranded, and one loop of each process at most is about to insert another.
LEMMA FanPeeks ==
  ASSUME FanInv, IInv, NEW l \in Loops, ChainPeek(l), UNCHANGED faults
  PROVE  FanInv'
<1>0. TypeOK /\ HoldsItsRow /\ faults \in Nat
  BY FaultAssumption DEF IInv, WorkInv, TypeOK
<1>1. /\ pc[l] = "chaining" /\ UNCHANGED tableVars /\ UNCHANGED <<held, outcome>>
      /\ \A m \in Loops \ {l} : pc'[m] = pc[m]
      /\ pc'[l] \in {"settling", "inserting"}
      /\ Scheduled(l)
  BY <1>0 DEF ChainPeek, Moves, TypeOK, WorkerTypeOK
<1>2. Stranded' = Stranded /\ Cancelled' = Cancelled
  BY <1>1 DEF Stranded, Cancelled, tableVars
<1>3. \A r \in Repos : LiveRows(r)' = LiveRows(r)
  BY <1>1 DEF LiveRows, tableVars
<1>4. CASE pc'[l] = "settling"
  <2>1. \A r \in Repos : Inserting(r)' \subseteq Inserting(r)
    BY <1>1, <1>4 DEF Inserting, tableVars
  <2> QED BY <1>0, <1>1, <1>2, <1>3, <1>4, <2>1, FanShrinks
<1>5. CASE pc'[l] = "inserting"
  <2>1. \A j \in Jobs : ~(status[j] = "pending" /\ payload[j] = payload[held[l]])
    BY <1>0, <1>1, <1>5 DEF ChainPeek, Moves, TypeOK, WorkerTypeOK
  <2>2. StrandBound'
    BY <1>2 DEF FanInv, StrandBound
  <2>3. OneInserts'
    <3>1. \A m \in Loops \ {l} : pc[m] = "inserting" => proc[m] # proc[l]
      BY <1>1 DEF Scheduled, OnThread
    <3> QED BY <1>1, <3>1 DEF FanInv, OneInserts
  <2>4. ASSUME NEW r \in Repos, r # payload[held[l]] PROVE FanBound(r)'
    <3>1. Inserting(r)' = Inserting(r)
      BY <1>1, <2>4 DEF Inserting, tableVars
    <3> QED BY <1>3, <3>1 DEF FanInv, FanBound
  <2>5. ASSUME NEW r \in Repos, r = payload[held[l]] PROVE FanBound(r)'
    <3> DEFINE hs == {held[m] : m \in Loops}
    <3>1. LiveRows(r) \subseteq Stranded \cup hs
      BY <2>1, <2>5 DEF LiveRows, Stranded
    <3>2. IsFiniteSet(hs) /\ Cardinality(hs) <= Cardinality(Loops) /\ Cardinality(hs) \in Nat
      BY HeldAreFew, FS_CardinalityType
    <3> HIDE DEF hs
    <3>3. IsFiniteSet(Stranded) /\ Cardinality(Stranded) \in Nat
      BY SetsAreFinite, FS_CardinalityType
    <3>4. /\ IsFiniteSet(Stranded \cup hs)
          /\ Cardinality(Stranded \cup hs) = Cardinality(Stranded) + Cardinality(hs) - Cardinality(Stranded \cap hs)
      BY <3>2, <3>3, FS_Union
    <3>5. Cardinality(Stranded \cap hs) \in Nat
      BY <3>3, FS_Intersection, FS_CardinalityType
    <3>6. Cardinality(LiveRows(r)) <= Cardinality(Stranded \cup hs) /\ Cardinality(LiveRows(r)) \in Nat
      BY <3>1, <3>4, FS_Subset, FS_CardinalityType
    <3>7. Cardinality(Inserting(r)') <= Cardinality(Procs) /\ Cardinality(Inserting(r)') \in Nat
      <4> DEFINE is == {m \in Loops : pc'[m] = "inserting" /\ payload'[held'[m]] = r}
                 p == [m \in is |-> proc[m]]
      <4>1. p \in Injection(is, Procs)
        <5>1. \A m, n \in is : proc[m] = proc[n] => m = n
          BY <2>3 DEF OneInserts
        <5>2. \A m \in is : proc[m] \in Procs
          BY WorkerAssumption
        <5> QED BY <5>1, <5>2 DEF Injection, IsInjective
      <4>2. Cardinality(is) <= Cardinality(Procs) /\ IsFiniteSet(is)
        <5> HIDE DEF is, p
        <5> QED BY <4>1, FiniteAssumption, FS_Injection
      <4> QED BY <4>2, FS_CardinalityType DEF Inserting
    <3>8. /\ Cardinality(Cancelled) \in Nat /\ Cardinality(Loops) * faults \in Nat
          /\ Cardinality(Loops) \in Nat /\ Cardinality(Procs) \in Nat
          /\ Cardinality(Loops) * (faults + 1) = Cardinality(Loops) * faults + Cardinality(Loops)
      BY <1>0, Numbers, SetsAreFinite, FS_CardinalityType
    <3>9. Cardinality(Stranded) <= Cardinality(Loops) * faults
      BY <3>3, <3>8 DEF FanInv, StrandBound
    <3> QED BY <1>1, <1>3, <3>2, <3>3, <3>4, <3>5, <3>6, <3>7, <3>8, <3>9 DEF FanBound
  <2> QED BY <2>2, <2>3, <2>4, <2>5 DEF FanInv
<1> QED BY <1>1, <1>4, <1>5

\* A row is added, pending, under an id that no row had: for a delivery, or for the repo of a loop
\* that stops being about to insert.
LEMMA FanInserts ==
  ASSUME FanInv, IInv, NEW l \in Loops, ChainInsert(l), UNCHANGED faults
  PROVE  FanInv'
<1> DEFINE q == payload[held[l]]
<1>0. TypeOK /\ HoldsItsRow /\ RowShape /\ faults \in Nat
  BY FaultAssumption DEF IInv, WorkInv, TypeOK
<1>1. /\ pc[l] = "inserting" /\ pc' = [pc EXCEPT ![l] = "settling"] /\ UNCHANGED <<held, outcome>>
      /\ NextId \in Jobs /\ status[NextId] = "none"
      /\ status' = [status EXCEPT ![NextId] = "pending"] /\ payload' = [payload EXCEPT ![NextId] = q]
  BY NextIdIsFree DEF ChainInsert, Moves, Enqueue, Free
<1>2. \A m \in Loops : pc[m] \in Busy => held[m] \in Jobs /\ held[m] # NextId
  BY <1>0, <1>1 DEF HoldsItsRow
<1>3. Stranded' \subseteq Stranded /\ Cancelled' \subseteq Cancelled
  BY <1>0, <1>1 DEF Stranded, Cancelled, TypeOK, TableTypeOK, WorkerTypeOK
<1>4. \A m \in Loops : pc'[m] = "inserting" => m # l /\ pc[m] = "inserting" /\ payload'[held'[m]] = payload[held[m]]
  BY <1>0, <1>1, <1>2 DEF TypeOK, TableTypeOK, WorkerTypeOK
<1> HIDE DEF q
<1>5. StrandBound'
  <2>1. /\ Cardinality(Stranded) \in Nat /\ Cardinality(Stranded') \in Nat
        /\ Cardinality(Stranded') <= Cardinality(Stranded)
        /\ Cardinality(Cancelled) \in Nat /\ Cardinality(Cancelled') \in Nat
        /\ Cardinality(Cancelled') <= Cardinality(Cancelled)
    BY <1>3, SetsAreFinite, FS_Subset, FS_CardinalityType
  <2>2. Cardinality(Loops) * faults \in Nat
    BY <1>0, Numbers
  <2> QED BY <2>1, <2>2 DEF FanInv, StrandBound
<1>6. OneInserts'
  BY <1>4 DEF FanInv, OneInserts
<1>7. ASSUME NEW r \in Repos PROVE FanBound(r)'
  <2>1. LiveRows(r)' \subseteq LiveRows(r) \cup {NextId} /\ (r # q => LiveRows(r)' \subseteq LiveRows(r))
    BY <1>0, <1>1 DEF LiveRows, TypeOK, TableTypeOK
  <2>2. Inserting(r)' \subseteq Inserting(r) \ {l} /\ (r = q => l \in Inserting(r))
    BY <1>1, <1>4 DEF Inserting, q
  <2>3. /\ Cardinality(LiveRows(r)) \in Nat /\ Cardinality(LiveRows(r)') \in Nat
        /\ Cardinality(LiveRows(r)') <= Cardinality(LiveRows(r)) + 1
        /\ r # q => Cardinality(LiveRows(r)') <= Cardinality(LiveRows(r))
    BY <2>1, SetsAreFinite, Grows
  <2>4. /\ Cardinality(Inserting(r)) \in Nat /\ Cardinality(Inserting(r)') \in Nat
        /\ Cardinality(Inserting(r)') <= Cardinality(Inserting(r))
        /\ r = q => Cardinality(Inserting(r)') <= Cardinality(Inserting(r)) - 1
    <3>1. Inserting(r)' \subseteq Inserting(r) \cup {l} /\ Inserting(r)' \subseteq Inserting(r)
      BY <2>2
    <3> QED BY <2>2, <3>1, SetsAreFinite, Grows
  <2>5. Cardinality(Loops) * (faults + 1) \in Nat /\ Cardinality(Procs) \in Nat
    BY <1>0, Numbers
  <2> QED BY <2>3, <2>4, <2>5 DEF FanInv, FanBound
<1> QED BY <1>5, <1>6, <1>7 DEF FanInv

\* The steps of a loop that neither settle nor chain: a claim, the end of a handler, a look for work.
LEMMA FanMoves ==
  ASSUME FanInv, IInv, NEW l \in Loops,
         \/ ClaimNext(l) \/ ClaimNone(l) \/ CountRemaining(l) \/ HandleEvent(l)
         \/ PollEnds(l) \/ TimeOut(l) \/ ChainFails(l),
         faults' = faults \/ faults' = faults + 1
  PROVE  FanInv'
<1>0. TypeOK /\ HoldsItsRow /\ faults \in Nat
  BY FaultAssumption DEF IInv, WorkInv, TypeOK
<1>1. CASE ClaimNext(l)
  <2>1. PICK j \in Jobs : ClaimRow(l, j)
    BY <1>1 DEF ClaimNext
  <2>2. /\ pc[l] = "idle" /\ pc' = [pc EXCEPT ![l] = "handling"] /\ held' = [held EXCEPT ![l] = j]
        /\ outcome' = [outcome EXCEPT ![l] = "none"] /\ payload' = payload
        /\ status' = [status EXCEPT ![j] = "processing"] /\ status[j] \in Live
    BY <2>1 DEF ClaimRow, Moves, Claim, Claimable, Expired
  <2>3. Stranded' \subseteq Stranded /\ Cancelled' \subseteq Cancelled
    BY <1>0, <2>2 DEF Stranded, Cancelled, TypeOK, TableTypeOK, WorkerTypeOK
  <2>4. \A r \in Repos : LiveRows(r)' \subseteq LiveRows(r) /\ Inserting(r)' \subseteq Inserting(r)
    BY <1>0, <2>2 DEF LiveRows, Inserting, TypeOK, TableTypeOK, WorkerTypeOK
  <2>5. \A m \in Loops : pc'[m] = "inserting" => pc[m] = "inserting"
    BY <1>0, <2>2 DEF TypeOK, WorkerTypeOK
  <2> QED BY <1>0, <2>3, <2>4, <2>5, FanShrinks
<1>2. CASE ~ClaimNext(l)
  <2>1. /\ UNCHANGED <<tableVars, held>>
        /\ \A m \in Loops \ {l} : pc'[m] = pc[m] /\ outcome'[m] = outcome[m]
        /\ pc'[l] \in Busy <=> pc[l] \in Busy
        /\ pc'[l] # "inserting"
        /\ outcome'[l] # "cancelled" \/ outcome'[l] = outcome[l]
    BY <1>0, <1>2 DEF ClaimNone, CountRemaining, HandleEvent, PollEnds, TimeOut, LeavePoll, ChainFails,
      Moves, TypeOK, WorkerTypeOK
  <2>2. Stranded' \subseteq Stranded /\ Cancelled' \subseteq Cancelled
    BY <2>1 DEF Stranded, Cancelled, tableVars
  <2>3. \A r \in Repos : LiveRows(r)' \subseteq LiveRows(r) /\ Inserting(r)' \subseteq Inserting(r)
    BY <2>1 DEF LiveRows, Inserting, tableVars
  <2>4. \A m \in Loops : pc'[m] = "inserting" => pc[m] = "inserting"
    BY <2>1
  <2> QED BY <1>0, <2>2, <2>3, <2>4, FanShrinks
<1> QED BY <1>1, <1>2

\* The clock, and the receiver, whose rows are no polls.
LEMMA FanElsewhere ==
  ASSUME FanInv, IInv, faults' = faults \/ faults' = faults + 1,
         \/ Tick
         \/ UNCHANGED <<pc, held, outcome>> /\ UNCHANGED tableVars
         \/ UNCHANGED <<pc, held, outcome>> /\ \E t \in Threads : CommitDelivery(t)
  PROVE  FanInv'
<1>0. TypeOK /\ HoldsItsRow /\ RowShape /\ ThreadsKnow /\ faults \in Nat
  BY FaultAssumption DEF IInv, WorkInv, TypeOK
<1>1. CASE UNCHANGED <<status, payload, pc, held, outcome>>
  BY <1>0, <1>1, FanShrinks DEF Stranded, Cancelled, LiveRows, Inserting
<1>2. CASE UNCHANGED <<pc, held, outcome>> /\ \E t \in Threads : CommitDelivery(t)
  <2>1. PICK t \in Threads : CommitDelivery(t)
    BY <1>2
  <2>2. /\ NextId \in Jobs /\ status[NextId] = "none" /\ serving[t] \in Deliveries
        /\ status' = [status EXCEPT ![NextId] = "pending"]
        /\ payload' = [payload EXCEPT ![NextId] = serving[t]]
    BY <1>0, <2>1, NextIdIsFree DEF CommitDelivery, Enqueue, Free, ThreadsKnow
  <2>3. Stranded' \subseteq Stranded /\ Cancelled' \subseteq Cancelled
    BY <1>0, <1>2, <2>2 DEF Stranded, Cancelled, TypeOK, TableTypeOK
  <2>4. \A r \in Repos : LiveRows(r)' \subseteq LiveRows(r)
    BY <1>0, <2>2, PayloadAssumption DEF LiveRows, TypeOK, TableTypeOK
  <2>5. \A r \in Repos : Inserting(r)' \subseteq Inserting(r)
    BY <1>0, <1>2, <2>2, PayloadAssumption DEF Inserting, HoldsItsRow, TypeOK, TableTypeOK
  <2> QED BY <1>0, <1>2, <2>3, <2>4, <2>5, FanShrinks
<1> QED BY <1>1, <1>2 DEF Tick, TableTick, tableVars

LEMMA FanInductive == FanInv /\ IInv /\ [Next]_vars => FanInv'
<1> SUFFICES ASSUME FanInv, IInv, [Next]_vars PROVE FanInv'
  OBVIOUS
<1>0. faults \in Nat
  BY FaultAssumption DEF IInv, TypeOK
<1>1. CASE WorkerNext
  <2>1. CASE \E l \in Loops : LoopStep(l) /\ UNCHANGED faults
    BY <2>1, FanMoves, FanPeeks, FanInserts, FanSettles DEF LoopStep
  <2>2. CASE \E l \in Loops : Fault(Cancel(l))
    BY <1>0, <2>2, FanFaults DEF Fault
  <2>3. CASE \E l \in Loops : Fault(ChainFails(l))
    BY <2>3, FanMoves DEF Fault
  <2>4. CASE \E p \in Procs : Fault(Crash(p))
    BY <1>0, <2>4, FanFaults DEF Fault
  <2>5. CASE Tick /\ UNCHANGED faults
    BY <2>5, FanElsewhere
  <2> QED BY <1>1, <2>1, <2>2, <2>3, <2>4, <2>5 DEF WorkerNext
<1>2. CASE ReceiverNext /\ UNCHANGED workerVars
  <2>1. UNCHANGED <<pc, held, outcome>>
    BY <1>2 DEF workerVars
  <2>2. /\ faults' = faults \/ faults' = faults + 1
        /\ UNCHANGED tableVars \/ \E t \in Threads : CommitDelivery(t)
    BY <1>2 DEF ReceiverNext, ReceiverStep, Request, InsertDelivery, AnswerKnown, Abandon, Fault
  <2> QED BY <2>1, <2>2, FanElsewhere
<1>3. CASE UNCHANGED vars
  BY <1>3, FanElsewhere DEF vars, workerVars
<1> QED BY <1>1, <1>2, <1>3 DEF Next

-----------------------------------------------------------------------------
\* The polls of a repo that wait or run are never more than the loops that can be at work on
\* them, those a fault left behind, and one insert on its way in each process: nothing
\* multiplies them (worker.py, the guard of _schedule_next_poll).
THEOREM FanOutIsBounded == Spec => []FanOutBounded
<1>1. FanInv /\ IInv => FanOutBounded
  <2> SUFFICES ASSUME FanInv, IInv, NEW r \in Repos
               PROVE  Cardinality(LiveRows(r)) <= Cardinality(Loops) * (faults + 1) + Cardinality(Procs)
    BY DEF FanOutBounded
  <2>1. Cardinality(LiveRows(r)) \in Nat /\ Cardinality(Inserting(r)) \in Nat
    BY SetsAreFinite, FS_CardinalityType
  <2>2. Cardinality(Loops) * (faults + 1) \in Nat /\ Cardinality(Procs) \in Nat
    BY Numbers, FaultAssumption DEF IInv, TypeOK
  <2> QED BY <2>1, <2>2 DEF FanInv, FanBound
<1> QED BY Invariance, FanInitially, FanInductive, <1>1, PTL DEF Spec
===============================================================================
