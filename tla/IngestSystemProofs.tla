-------------------------- MODULE IngestSystemProofs --------------------------
(***************************************************************************)
(* Theorems of IngestSystem, for any number of rows, repos, deliveries,    *)
(* loops, processes and threads.                                           *)
(***************************************************************************)
EXTENDS IngestSystem, TLAPS

(* The inductive invariant. *)

\* A busy loop and its row agree: the lease of the row is exactly as old as the claim, so
\* that the timeout, which counts from the claim, bounds the age of the lease.
HoldsItsRow ==
  \A l \in Loops : pc[l] \in Busy =>
    /\ held[l] \in Jobs
    /\ status[held[l]] = "processing"
    /\ age[held[l]] = elapsed[l]
    /\ snap[l] = attempts[held[l]]

HoldsItAlone ==
  \A l, m \in Loops : (pc[l] \in Busy /\ pc[m] \in Busy /\ held[l] = held[m]) => l = m

\* Only polls are chained, and a webhook event ends applied or to be retried.
KindsApart ==
  \A l \in Loops :
    /\ pc[l] \in {"chaining", "inserting"} => payload[held[l]] \in Repos
    /\ (pc[l] = "settling" /\ payload[held[l]] \in Deliveries) =>
         /\ outcome[l] \in {"ok", "retry"}
         /\ outcome[l] = "ok" => payload[held[l]] \in processed

\* A row is there exactly if it has a payload, and it is given up at the bound on attempts.
RowShape ==
  \A j \in Jobs :
    /\ status[j] = "none" <=> payload[j] = NoPayload
    /\ status[j] \in Live => attempts[j] <= MAX_ATTEMPTS

\* A row that no loop is about to end: it stays, or its end is preceded by another's insert.
Sustains(k) ==
  \/ status[k] = "pending"
  \/ status[k] = "processing" /\ \A l \in Loops : held[l] = k => pc[l] # "settling"

Chained == \A r \in Repos \ unchained : \E k \in Jobs : payload[k] = r /\ Sustains(k)

\* A thread past its INSERT knows whether the delivery is recorded, and is alone with it.
ThreadsKnow ==
  \A t \in Threads :
    /\ stage[t] # "free" => serving[t] \in Deliveries
    /\ stage[t] = "known" => serving[t] \in received
    /\ stage[t] = "recorded" => serving[t] \notin received
    /\ \A u \in Threads :
         (stage[t] = "recorded" /\ stage[u] = "recorded" /\ serving[t] = serving[u]) => t = u

WorkInv == HoldsItsRow /\ HoldsItAlone /\ KindsApart /\ RowShape
IInv == TypeOK /\ WorkInv /\ Chained /\ ThreadsKnow /\ ReceivedIsQueuedOnce /\ EventAppliedOrExhausted

(* Facts about the constants and about single states. *)

USE DEF Busy, Live, Terminal, Payloads

LEMMA LimitWithinLease ==
  ASSUME NEW l \in Loops, WorkerTypeOK, pc[l] \in Busy
  PROVE  elapsed[l] <= LEASE
BY TimeoutAssumption, NumberAssumption DEF WorkerTypeOK

\* No loop acts on a row that may be claimed.
LEMMA ClaimableIsFree ==
  ASSUME TypeOK, HoldsItsRow, NEW j \in Claimable, NEW l \in Loops, pc[l] \in Busy
  PROVE  held[l] # j
<1>1. elapsed[l] \in Nat /\ elapsed[l] <= LEASE
  BY LimitWithinLease, TimeoutAssumption DEF TypeOK, WorkerTypeOK
<1>2. status[held[l]] = "processing" /\ age[held[l]] = elapsed[l]
  BY DEF HoldsItsRow
<1> QED BY <1>1, <1>2, NumberAssumption DEF Claimable, Expired

LEMMA NextIdIsFree == Free # {} => NextId \in Free
BY DEF NextId

-----------------------------------------------------------------------------
(* The invariant holds initially. *)

LEMMA InitTyped == Init => TypeOK
<1> SUFFICES ASSUME Init PROVE TypeOK
  OBVIOUS
<1> USE DEF Init, TableInit, WorkerInit, ReceiverInit
<1>1. TableTypeOK
  <2>1. payload \in [Jobs -> Payloads \cup {NoPayload}]
    <3> SUFFICES ASSUME NEW j \in Jobs
                 PROVE  payload[j] \in Payloads \cup {NoPayload}
      OBVIOUS
    <3>1. CASE Seeded(j)
      <4>1. (CHOOSE r \in Repos : Seed[r] = j) \in Repos
        BY <3>1 DEF Seeded
      <4> QED BY <3>1, <4>1
    <3>2. CASE ~Seeded(j)
      BY <3>2
    <3> QED BY <3>1, <3>2
  <2>2. /\ status \in [Jobs -> Statuses]
        /\ attempts \in [Jobs -> 0 .. MAX_ATTEMPTS + 1]
        /\ due \in [Jobs -> (-HORIZON) .. MaxDelay]
        /\ age \in [Jobs -> 0 .. LEASE + 1]
    BY NumberAssumption DEF Statuses
  <2> QED BY <2>1, <2>2 DEF TableTypeOK
<1>2. WorkerTypeOK
  BY NumberAssumption, TimeoutAssumption DEF WorkerTypeOK, Places, Outcomes
<1>3. ReceiverTypeOK /\ faults \in 0 .. MaxFaults
  BY FaultAssumption DEF ReceiverTypeOK, Stages
<1> QED BY <1>1, <1>2, <1>3 DEF TypeOK

LEMMA InitInv == Init => IInv
<1> SUFFICES ASSUME Init PROVE IInv
  OBVIOUS
<1> USE DEF Init, TableInit, WorkerInit, ReceiverInit
<1>1. TypeOK
  BY InitTyped
<1>2. \A j \in Jobs : IF Seeded(j) THEN payload[j] \in Repos /\ Seed[payload[j]] = j
                                   ELSE payload[j] = NoPayload
  BY DEF Seeded
<1>3. WorkInv
  BY <1>2, PayloadAssumption, NumberAssumption
  DEF WorkInv, HoldsItsRow, HoldsItAlone, KindsApart, RowShape
<1>4. Chained
  <2> SUFFICES ASSUME NEW r \in Repos
               PROVE  \E k \in Jobs : payload[k] = r /\ Sustains(k)
    BY DEF Chained
  <2>1. Seed[r] \in Jobs /\ Seeded(Seed[r])
    BY SeedAssumption DEF Seeded
  <2>2. payload[Seed[r]] = r
    BY <1>2, <2>1, SeedAssumption
  <2> QED BY <2>1, <2>2 DEF Sustains
<1>5. ThreadsKnow /\ ReceivedIsQueuedOnce /\ EventAppliedOrExhausted
  BY <1>2, PayloadAssumption DEF ThreadsKnow, ReceivedIsQueuedOnce, EventAppliedOrExhausted
<1> QED BY <1>1, <1>3, <1>4, <1>5 DEF IInv

-----------------------------------------------------------------------------
(* Each action keeps it. *)

LEMMA ClaimRowKeeps ==
  ASSUME IInv, NEW l \in Loops, NEW j \in Jobs, ClaimRow(l, j), UNCHANGED receiverVars, faults' \in 0 .. MaxFaults
  PROVE  IInv'
<1> USE DEF IInv, WorkInv, ClaimRow, Claim, Moves, receiverVars
<1>1. /\ j \in Claimable
      /\ status[j] \in Live
      /\ \A m \in Loops : pc[m] \in Busy => held[m] # j
      /\ pc[l] = "idle"
  BY ClaimableIsFree DEF Claimable, Expired
<1>2. TypeOK'
  BY <1>1, NumberAssumption, TimeoutAssumption
  DEF TypeOK, TableTypeOK, WorkerTypeOK, ReceiverTypeOK, Statuses, Places, Outcomes
<1>3. HoldsItsRow'
  <2> SUFFICES ASSUME NEW m \in Loops, pc'[m] \in Busy
               PROVE  /\ held'[m] \in Jobs
                      /\ status'[held'[m]] = "processing"
                      /\ age'[held'[m]] = elapsed'[m]
                      /\ snap'[m] = attempts'[held'[m]]
    BY DEF HoldsItsRow
  <2>1. CASE m = l
    BY <2>1, <1>1 DEF TypeOK, TableTypeOK, WorkerTypeOK
  <2>2. CASE m # l
    BY <2>2, <1>1 DEF TypeOK, TableTypeOK, WorkerTypeOK, HoldsItsRow
  <2> QED BY <2>1, <2>2
<1>4. HoldsItAlone'
  BY <1>1 DEF TypeOK, WorkerTypeOK, HoldsItAlone
<1>5. KindsApart'
  BY <1>1 DEF TypeOK, TableTypeOK, WorkerTypeOK, KindsApart
<1>6. RowShape'
  BY <1>1 DEF TypeOK, TableTypeOK, RowShape
<1>7. Chained'
  <2> SUFFICES ASSUME NEW r \in Repos \ unchained
               PROVE  (\E k \in Jobs : payload[k] = r /\ Sustains(k))'
    BY DEF Chained
  <2>1. PICK k \in Jobs : payload[k] = r /\ Sustains(k)
    BY DEF Chained
  <2>2. CASE k = j
    BY <2>1, <2>2, <1>1 DEF Sustains, TypeOK, TableTypeOK, WorkerTypeOK
  <2>3. CASE k # j
    BY <2>1, <2>3, <1>1 DEF Sustains, TypeOK, TableTypeOK, WorkerTypeOK
  <2> QED BY <2>2, <2>3
<1>8. ThreadsKnow'
  BY DEF ThreadsKnow
<1>9. ReceivedIsQueuedOnce'
  BY DEF ReceivedIsQueuedOnce
<1>10. EventAppliedOrExhausted'
  BY <1>1 DEF EventAppliedOrExhausted, TypeOK, TableTypeOK
<1> QED BY <1>2, <1>3, <1>4, <1>5, <1>6, <1>7, <1>8, <1>9, <1>10

\* A loop that moves on without touching the table: what is left to show of each such action
\* is what it knows of the kind of its row, and that it settles no poll unreplaced.
LEMMA MoveKeeps ==
  ASSUME IInv, NEW l \in Loops, NEW to \in Places, NEW o \in Outcomes,
         pc' = [pc EXCEPT ![l] = to],
         pc[l] \in Busy <=> to \in Busy,
         outcome' = [outcome EXCEPT ![l] = o],
         processed \subseteq processed', processed' \subseteq Deliveries,
         unchained \subseteq unchained', unchained' \subseteq Repos,
         UNCHANGED <<tableVars, held, snap, elapsed, receiverVars>>, faults' \in 0 .. MaxFaults,
         to \in {"chaining", "inserting"} => payload[held[l]] \in Repos,
         to = "settling" =>
           \/ payload[held[l]] \in Deliveries
           \/ payload[held[l]] \in unchained'
           \/ \E k \in Jobs : status[k] = "pending" /\ payload[k] = payload[held[l]],
         (to = "settling" /\ payload[held[l]] \in Deliveries) =>
           o \in {"ok", "retry"} /\ (o = "ok" => payload[held[l]] \in processed')
  PROVE  IInv'
<1> USE DEF IInv, WorkInv, tableVars, receiverVars
<1>1. pc \in [Loops -> Places] /\ outcome \in [Loops -> Outcomes]
  BY DEF TypeOK, WorkerTypeOK
<1>2. TypeOK'
  BY DEF TypeOK, TableTypeOK, WorkerTypeOK, ReceiverTypeOK
<1>3. HoldsItsRow' /\ HoldsItAlone'
  BY <1>1 DEF HoldsItsRow, HoldsItAlone
<1>4. KindsApart'
  BY <1>1 DEF KindsApart
<1>5. RowShape'
  BY DEF RowShape
<1>6. Chained'
  <2> SUFFICES ASSUME NEW r \in Repos \ unchained'
               PROVE  \E k \in Jobs : payload[k] = r /\ Sustains(k)'
    BY DEF Chained
  <2>1. PICK k \in Jobs : payload[k] = r /\ Sustains(k)
    BY DEF Chained
  <2>2. CASE to = "settling" /\ held[l] = k
    <3>1. PICK i \in Jobs : status[i] = "pending" /\ payload[i] = r
      BY <2>1, <2>2, PayloadAssumption
    <3> QED BY <3>1 DEF Sustains
  <2>3. CASE ~(to = "settling" /\ held[l] = k)
    BY <1>1, <2>1, <2>3 DEF Sustains
  <2> QED BY <2>2, <2>3
<1>7. ThreadsKnow'
  BY DEF ThreadsKnow
<1>8. ReceivedIsQueuedOnce'
  BY DEF ReceivedIsQueuedOnce
<1>9. EventAppliedOrExhausted'
  BY DEF EventAppliedOrExhausted
<1> QED BY <1>2, <1>3, <1>4, <1>5, <1>6, <1>7, <1>8, <1>9

LEMMA ClaimNoneKeeps ==
  ASSUME IInv, NEW l \in Loops, ClaimNone(l), UNCHANGED receiverVars, faults' \in 0 .. MaxFaults
  PROVE  IInv'
<1>1. outcome' = [outcome EXCEPT ![l] = outcome[l]] /\ outcome[l] \in Outcomes
  BY DEF IInv, TypeOK, WorkerTypeOK, ClaimNone
<1>2. processed \subseteq Deliveries /\ unchained \subseteq Repos
  BY DEF IInv, TypeOK, WorkerTypeOK
<1> QED BY <1>1, <1>2, MoveKeeps DEF ClaimNone, Moves, Places

LEMMA CountRemainingKeeps ==
  ASSUME IInv, NEW l \in Loops, CountRemaining(l), UNCHANGED receiverVars, faults' \in 0 .. MaxFaults
  PROVE  IInv'
<1> DEFINE to == IF Outstanding = {} THEN "exited" ELSE "idle"
<1>1. outcome' = [outcome EXCEPT ![l] = outcome[l]] /\ outcome[l] \in Outcomes
  BY DEF IInv, TypeOK, WorkerTypeOK, CountRemaining
<1>2. processed \subseteq Deliveries /\ unchained \subseteq Repos
  BY DEF IInv, TypeOK, WorkerTypeOK
<1>3. to \in Places \ Busy /\ to # "settling"
  BY DEF Places
<1>4. pc[l] = "counting" /\ pc' = [pc EXCEPT ![l] = to]
  BY DEF CountRemaining, Moves
<1> HIDE DEF to
<1> QED BY <1>1, <1>2, <1>3, <1>4, MoveKeeps DEF CountRemaining

LEMMA HandleEventKeeps ==
  ASSUME IInv, NEW l \in Loops, HandleEvent(l), UNCHANGED receiverVars, faults' \in 0 .. MaxFaults
  PROVE  IInv'
<1>1. processed \subseteq Deliveries /\ unchained \subseteq Repos
  BY DEF IInv, TypeOK, WorkerTypeOK
<1>2. PICK o \in {"ok", "retry"} :
        /\ outcome' = [outcome EXCEPT ![l] = o]
        /\ o = "ok" => processed' = processed \cup {payload[held[l]]}
        /\ o = "retry" => processed' = processed
  <2>1. CASE outcome' = [outcome EXCEPT ![l] = "ok"] /\ processed' = processed \cup {payload[held[l]]}
    BY <2>1
  <2>2. CASE outcome' = [outcome EXCEPT ![l] = "retry"] /\ UNCHANGED processed
    BY <2>2
  <2> QED BY <2>1, <2>2 DEF HandleEvent
<1> QED BY <1>1, <1>2, MoveKeeps DEF HandleEvent, Moves, Places, Outcomes

LEMMA LeavePollKeeps ==
  ASSUME IInv, NEW l \in Loops, NEW o \in Outcomes, LeavePoll(l, o), UNCHANGED receiverVars, faults' \in 0 .. MaxFaults
  PROVE  IInv'
<1>1. processed \subseteq Deliveries /\ unchained \subseteq Repos
  BY DEF IInv, TypeOK, WorkerTypeOK
<1> QED BY <1>1, MoveKeeps, PayloadAssumption DEF LeavePoll, Moves, Places

LEMMA ChainPeekKeeps ==
  ASSUME IInv, NEW l \in Loops, ChainPeek(l), UNCHANGED receiverVars, faults' \in 0 .. MaxFaults
  PROVE  IInv'
<1> DEFINE seen == \E j \in Jobs : status[j] = "pending" /\ payload[j] = payload[held[l]]
           to == IF seen THEN "settling" ELSE "inserting"
<1>1. outcome' = [outcome EXCEPT ![l] = outcome[l]] /\ outcome[l] \in Outcomes
  BY DEF IInv, TypeOK, WorkerTypeOK, ChainPeek
<1>2. processed \subseteq Deliveries /\ unchained \subseteq Repos
  BY DEF IInv, TypeOK, WorkerTypeOK
<1>3. pc[l] = "chaining" /\ pc' = [pc EXCEPT ![l] = to]
  BY DEF ChainPeek, Moves
<1>4. payload[held[l]] \in Repos
  BY <1>3 DEF IInv, WorkInv, KindsApart
<1>5. to \in Places \cap Busy /\ (to = "settling" => seen)
  BY DEF Places
<1> HIDE DEF to
<1> QED BY <1>1, <1>2, <1>3, <1>4, <1>5, MoveKeeps, PayloadAssumption DEF ChainPeek

LEMMA ChainFailsKeeps ==
  ASSUME IInv, NEW l \in Loops, ChainFails(l), UNCHANGED receiverVars, faults' \in 0 .. MaxFaults
  PROVE  IInv'
<1>1. processed \subseteq Deliveries /\ unchained \subseteq Repos
  BY DEF IInv, TypeOK, WorkerTypeOK
<1>2. payload[held[l]] \in Repos
  BY DEF IInv, WorkInv, KindsApart, ChainFails, Moves
<1> QED BY <1>1, <1>2, MoveKeeps, PayloadAssumption DEF ChainFails, Moves, Places, Outcomes

\* A new row disturbs no other: what it can break is the one-row-per-delivery rule alone.
LEMMA EnqueueKeeps ==
  ASSUME IInv, NEW x \in Payloads, NEW delay \in 0 .. MaxDelay,
         Free # {}, Enqueue(NextId, x, delay)
  PROVE  /\ TableTypeOK'
         /\ RowShape'
         /\ \A j \in Jobs : j # NextId =>
              /\ status'[j] = status[j] /\ payload'[j] = payload[j]
              /\ attempts'[j] = attempts[j] /\ age'[j] = age[j]
         /\ NextId \in Jobs /\ status[NextId] = "none"
         /\ status'[NextId] = "pending" /\ payload'[NextId] = x
<1>1. NextId \in Jobs /\ status[NextId] = "none"
  BY NextIdIsFree DEF Free
<1>2. TableTypeOK'
  BY <1>1, NumberAssumption DEF IInv, TypeOK, TableTypeOK, Enqueue, Statuses
<1>3. \A j \in Jobs : j # NextId =>
        /\ status'[j] = status[j] /\ payload'[j] = payload[j]
        /\ attempts'[j] = attempts[j] /\ age'[j] = age[j]
  BY <1>1 DEF IInv, TypeOK, TableTypeOK, Enqueue
<1>4. status'[NextId] = "pending" /\ payload'[NextId] = x /\ attempts'[NextId] = 0
  BY <1>1 DEF IInv, TypeOK, TableTypeOK, Enqueue
<1>5. RowShape'
  BY <1>3, <1>4, PayloadAssumption, NumberAssumption DEF IInv, WorkInv, RowShape
<1> QED BY <1>1, <1>2, <1>3, <1>4, <1>5

LEMMA ChainInsertKeeps ==
  ASSUME IInv, NEW l \in Loops, ChainInsert(l), UNCHANGED receiverVars, faults' \in 0 .. MaxFaults
  PROVE  IInv'
<1> DEFINE r == payload[held[l]]
<1>a. pc[l] = "inserting" /\ pc' = [pc EXCEPT ![l] = "settling"]
  BY DEF ChainInsert, Moves
<1>b. pc \in [Loops -> Places]
  BY DEF IInv, TypeOK, WorkerTypeOK
<1>1. r \in Repos
  BY <1>a DEF IInv, WorkInv, KindsApart
<1>2. Enqueue(NextId, r, POLL_INTERVAL) /\ Free # {}
  BY DEF ChainInsert
<1>3. /\ TableTypeOK'
      /\ RowShape'
      /\ \A j \in Jobs : j # NextId =>
           /\ status'[j] = status[j] /\ payload'[j] = payload[j]
           /\ attempts'[j] = attempts[j] /\ age'[j] = age[j]
      /\ NextId \in Jobs /\ status[NextId] = "none"
      /\ status'[NextId] = "pending" /\ payload'[NextId] = r
  <2> HIDE DEF r
  <2> QED BY <1>1, <1>2, EnqueueKeeps, DelayAssumption
<1> USE DEF IInv, WorkInv, receiverVars
<1>4. TypeOK'
  BY <1>3, <1>a DEF TypeOK, WorkerTypeOK, ReceiverTypeOK, Places, ChainInsert
<1>5. HoldsItsRow'
  BY <1>3, <1>a, <1>b DEF HoldsItsRow, ChainInsert
<1>6. HoldsItAlone'
  BY <1>a, <1>b DEF HoldsItAlone, ChainInsert
<1>7. KindsApart'
  <2>1. \A m \in Loops : pc[m] \in Busy => payload'[held[m]] = payload[held[m]]
    BY <1>3 DEF HoldsItsRow
  <2> QED BY <2>1, <1>1, <1>a, <1>b, PayloadAssumption DEF KindsApart, ChainInsert
<1>8. Chained'
  <2> SUFFICES ASSUME NEW s \in Repos \ unchained
               PROVE  \E k \in Jobs : payload'[k] = s /\ Sustains(k)'
    BY DEF Chained, ChainInsert
  <2>1. CASE s = r
    BY <2>1, <1>3 DEF Sustains
  <2>2. CASE s # r
    <3>1. PICK k \in Jobs : payload[k] = s /\ Sustains(k)
      BY DEF Chained
    <3>2. held[l] # k
      BY <3>1, <2>2
    <3> QED BY <3>1, <3>2, <1>3, <1>a, <1>b DEF Sustains, ChainInsert
  <2> QED BY <2>1, <2>2
<1>9. ThreadsKnow'
  BY DEF ThreadsKnow
<1>10. ReceivedIsQueuedOnce'
  <2>1. \A j \in Jobs, d \in Deliveries : payload'[j] = d <=> payload[j] = d
    BY <1>1, <1>3, PayloadAssumption DEF RowShape
  <2>2. received' = received /\ acked' = acked
    OBVIOUS
  <2>3. \A d \in Deliveries : d \in received' <=> \E j \in Jobs : payload'[j] = d
    BY <2>1, <2>2 DEF ReceivedIsQueuedOnce
  <2>4. \A i, j \in Jobs : (payload'[i] = payload'[j] /\ payload'[i] \in Deliveries) => i = j
    BY <2>1 DEF ReceivedIsQueuedOnce
  <2> QED BY <2>2, <2>3, <2>4 DEF ReceivedIsQueuedOnce
<1>11. EventAppliedOrExhausted'
  <2> SUFFICES ASSUME NEW j \in Jobs, payload'[j] \in Deliveries
               PROVE  /\ status'[j] = "done" => payload'[j] \in processed'
                      /\ status'[j] = "failed" => attempts'[j] = MAX_ATTEMPTS + 1
    BY DEF EventAppliedOrExhausted
  <2>1. status[j] # "none"
    BY <1>1, <1>3, PayloadAssumption DEF RowShape
  <2>2. processed' = processed
    BY DEF ChainInsert
  <2> QED BY <2>1, <2>2, <1>3 DEF EventAppliedOrExhausted
<1> QED BY <1>3, <1>4, <1>5, <1>6, <1>7, <1>8, <1>9, <1>10, <1>11

\* What the end of a job does to the table: one row changes, and if it is a delivery's it is
\* pending again, or done with its event applied, or failed with its attempts used up.
LEMMA SettleRowKeeps ==
  ASSUME IInv, NEW l \in Loops, pc[l] = "settling", SettleRow(l)
  PROVE  /\ TableTypeOK'
         /\ RowShape'
         /\ \A i \in Jobs : i # held[l] =>
              /\ status'[i] = status[i] /\ payload'[i] = payload[i]
              /\ attempts'[i] = attempts[i] /\ age'[i] = age[i]
         /\ payload[held[l]] \in Deliveries =>
              /\ payload'[held[l]] = payload[held[l]]
              /\ status'[held[l]] = "done" => payload[held[l]] \in processed
              /\ status'[held[l]] = "failed" => attempts'[held[l]] = MAX_ATTEMPTS + 1
         /\ payload[held[l]] \in Repos => payload'[held[l]] \in {payload[held[l]], NoPayload}
<1> DEFINE j == held[l]
<1>1. j \in Jobs /\ status[j] = "processing" /\ snap[l] = attempts[j]
  BY DEF IInv, WorkInv, HoldsItsRow
<1>2. attempts[j] \in 0 .. MAX_ATTEMPTS /\ payload[j] \in Payloads
  BY <1>1 DEF IInv, WorkInv, RowShape, TypeOK, TableTypeOK
<1>3. payload[j] \in Deliveries =>
        outcome[l] \in {"ok", "retry"} /\ (outcome[l] = "ok" => payload[j] \in processed)
  BY DEF IInv, WorkInv, KindsApart
<1>4. TableTypeOK /\ RowShape
  BY DEF IInv, WorkInv, TypeOK
<1>5. \A s \in {"done", "failed"}, n \in 0 .. MAX_ATTEMPTS + 1 : End(j, s, n) =>
        /\ TableTypeOK'
        /\ RowShape'
        /\ \A i \in Jobs : i # j =>
             /\ status'[i] = status[i] /\ payload'[i] = payload[i]
             /\ attempts'[i] = attempts[i] /\ age'[i] = age[i]
        /\ payload[j] \in Deliveries =>
             payload'[j] = payload[j] /\ status'[j] = s /\ attempts'[j] = n
        /\ payload[j] \in Repos => payload'[j] = NoPayload
  <2> SUFFICES ASSUME NEW s \in {"done", "failed"}, NEW n \in 0 .. MAX_ATTEMPTS + 1, End(j, s, n)
               PROVE  /\ TableTypeOK'
                      /\ RowShape'
                      /\ \A i \in Jobs : i # j =>
                           /\ status'[i] = status[i] /\ payload'[i] = payload[i]
                           /\ attempts'[i] = attempts[i] /\ age'[i] = age[i]
                      /\ payload[j] \in Deliveries =>
                           payload'[j] = payload[j] /\ status'[j] = s /\ attempts'[j] = n
                      /\ payload[j] \in Repos => payload'[j] = NoPayload
    OBVIOUS
  <2> HIDE DEF j
  <2>1. CASE payload[j] \in Repos
    BY <2>1, <1>1, <1>2, <1>4, PayloadAssumption, NumberAssumption
    DEF End, TableTypeOK, Statuses, RowShape
  <2>2. CASE payload[j] \notin Repos
    BY <2>2, <1>1, <1>2, <1>4, PayloadAssumption, NumberAssumption
    DEF End, TableTypeOK, Statuses, RowShape
  <2> QED BY <2>1, <2>2
<1>6. CASE outcome[l] = "ok" /\ Complete(j)
  BY <1>6, <1>2, <1>3, <1>5, NumberAssumption DEF Complete
<1>7. CASE outcome[l] = "terminal" /\ FailForGood(j)
  BY <1>7, <1>2, <1>3, <1>5, NumberAssumption DEF FailForGood
<1>8. CASE outcome[l] = "retry" /\ snap[l] >= MAX_ATTEMPTS /\ FailForGood(j)
  BY <1>8, <1>1, <1>2, <1>3, <1>5, NumberAssumption DEF FailForGood
<1>9. CASE outcome[l] = "retry" /\ snap[l] < MAX_ATTEMPTS /\ \E d \in RetryDelays : Retry(j, d)
  <2>1. PICK d \in RetryDelays : Retry(j, d)
    BY <1>9
  <2>2. d \in (-HORIZON) .. MaxDelay
    BY DelayAssumption, NumberAssumption
  <2>3. attempts[j] + 1 \in 0 .. MAX_ATTEMPTS
    BY <1>9, <1>1, <1>2, NumberAssumption
  <2> HIDE DEF j
  <2>4. TableTypeOK'
    BY <2>1, <2>2, <2>3, <1>1, <1>4, NumberAssumption DEF Retry, TableTypeOK, Statuses
  <2>5. /\ \A i \in Jobs : i # j => status'[i] = status[i] /\ attempts'[i] = attempts[i]
                                   /\ age'[i] = age[i]
        /\ status'[j] = "pending" /\ attempts'[j] \in 0 .. MAX_ATTEMPTS
        /\ payload' = payload
    BY <2>1, <2>3, <1>1, <1>4 DEF Retry, TableTypeOK
  <2>6. RowShape'
    BY <2>5, <1>1, <1>2, <1>4, PayloadAssumption, NumberAssumption DEF RowShape
  <2> QED BY <2>4, <2>5, <2>6 DEF j
<1>10. CASE UNCHANGED tableVars
  BY <1>10, <1>1, <1>4 DEF tableVars, TableTypeOK, RowShape
<1> QED BY <1>6, <1>7, <1>8, <1>9, <1>10 DEF SettleRow

LEMMA SettleKeeps ==
  ASSUME IInv, NEW l \in Loops, Settle(l), UNCHANGED receiverVars, faults' \in 0 .. MaxFaults
  PROVE  IInv'
<1>1. pc[l] = "settling" /\ pc' = [pc EXCEPT ![l] = "idle"] /\ SettleRow(l)
  BY DEF Settle, Moves
<1>2. pc \in [Loops -> Places] /\ held[l] \in Jobs
  BY <1>1 DEF IInv, TypeOK, WorkerTypeOK, WorkInv, HoldsItsRow
<1>3. /\ TableTypeOK'
      /\ RowShape'
      /\ \A i \in Jobs : i # held[l] =>
           /\ status'[i] = status[i] /\ payload'[i] = payload[i]
           /\ attempts'[i] = attempts[i] /\ age'[i] = age[i]
      /\ payload[held[l]] \in Deliveries =>
           /\ payload'[held[l]] = payload[held[l]]
           /\ status'[held[l]] = "done" => payload[held[l]] \in processed
           /\ status'[held[l]] = "failed" => attempts'[held[l]] = MAX_ATTEMPTS + 1
      /\ payload[held[l]] \in Repos => payload'[held[l]] \in {payload[held[l]], NoPayload}
  BY <1>1, SettleRowKeeps
<1>4. /\ held' = [m \in Loops |-> IF m = l THEN NoJob ELSE held[m]]
      /\ snap' = [m \in Loops |-> IF m = l THEN 0 ELSE snap[m]]
      /\ outcome' = [m \in Loops |-> IF m = l THEN "none" ELSE outcome[m]]
      /\ elapsed' = [m \in Loops |-> IF m = l THEN 0 ELSE elapsed[m]]
      /\ processed' = processed /\ unchained' = unchained
  BY DEF Settle, Forget
<1>5. payload[held[l]] \in Payloads
  BY <1>1, <1>2, PayloadAssumption
  DEF IInv, TypeOK, TableTypeOK, WorkInv, RowShape, HoldsItsRow
<1>6. \A j \in Jobs, d \in Deliveries : payload'[j] = d <=> payload[j] = d
  BY <1>2, <1>3, <1>5, PayloadAssumption
<1> USE DEF IInv, WorkInv, receiverVars
<1>7. TypeOK'
  BY <1>1, <1>2, <1>3, <1>4, NumberAssumption, TimeoutAssumption
  DEF TypeOK, WorkerTypeOK, ReceiverTypeOK, Places, Outcomes
<1>8. HoldsItsRow'
  <2> SUFFICES ASSUME NEW m \in Loops, pc'[m] \in Busy
               PROVE  /\ held'[m] \in Jobs
                      /\ status'[held'[m]] = "processing"
                      /\ age'[held'[m]] = elapsed'[m]
                      /\ snap'[m] = attempts'[held'[m]]
    BY DEF HoldsItsRow
  <2>1. m # l /\ pc[m] \in Busy
    BY <1>1, <1>2
  <2>2. held[m] # held[l]
    BY <2>1, <1>1 DEF HoldsItAlone
  <2> QED BY <2>1, <2>2, <1>3, <1>4 DEF HoldsItsRow
<1>9. HoldsItAlone'
  BY <1>1, <1>2, <1>4 DEF HoldsItAlone
<1>10. KindsApart'
  <2> SUFFICES ASSUME NEW m \in Loops, pc'[m] \in Busy
               PROVE  /\ m # l /\ pc[m] = pc'[m] /\ held'[m] = held[m]
                      /\ outcome'[m] = outcome[m] /\ payload'[held[m]] = payload[held[m]]
    BY <1>4 DEF KindsApart
  <2>1. m # l /\ pc[m] \in Busy /\ pc[m] = pc'[m]
    BY <1>1, <1>2
  <2>2. held[m] # held[l] /\ held[m] \in Jobs
    BY <2>1, <1>1 DEF HoldsItAlone, HoldsItsRow
  <2> QED BY <2>1, <2>2, <1>3, <1>4
<1>11. Chained'
  <2> SUFFICES ASSUME NEW r \in Repos \ unchained
               PROVE  \E k \in Jobs : payload'[k] = r /\ Sustains(k)'
    BY <1>4 DEF Chained
  <2>1. PICK k \in Jobs : payload[k] = r /\ Sustains(k)
    BY DEF Chained
  <2>2. k # held[l]
    BY <2>1, <1>1, <1>2 DEF Sustains, HoldsItsRow
  <2>3. payload'[k] = payload[k] /\ status'[k] = status[k]
    BY <2>2, <1>3
  <2> QED BY <2>1, <2>2, <2>3, <1>1, <1>2, <1>4, WorkerAssumption DEF Sustains
<1>12. ThreadsKnow'
  BY DEF ThreadsKnow
<1>13. ReceivedIsQueuedOnce'
  <2>1. received' = received /\ acked' = acked
    BY DEF Settle
  <2>2. \A d \in Deliveries : d \in received' <=> \E j \in Jobs : payload'[j] = d
    BY <1>6, <2>1 DEF ReceivedIsQueuedOnce
  <2>3. \A i, j \in Jobs : (payload'[i] = payload'[j] /\ payload'[i] \in Deliveries) => i = j
    BY <1>6 DEF ReceivedIsQueuedOnce
  <2> QED BY <2>1, <2>2, <2>3 DEF ReceivedIsQueuedOnce
<1>14. EventAppliedOrExhausted'
  BY <1>3, <1>4, <1>6 DEF EventAppliedOrExhausted
<1> QED BY <1>3, <1>7, <1>8, <1>9, <1>10, <1>11, <1>12, <1>13, <1>14

LEMMA CrashKeeps ==
  ASSUME IInv, NEW p \in Procs, Crash(p), UNCHANGED receiverVars, faults' \in 0 .. MaxFaults
  PROVE  IInv'
<1> USE DEF IInv, WorkInv, tableVars, receiverVars
<1>1. /\ pc' = [l \in Loops |-> IF proc[l] = p THEN "idle" ELSE pc[l]]
      /\ UNCHANGED <<tableVars, processed, unchained>>
  BY DEF Crash
<1>2. \A l \in Loops : proc[l] = p =>
        pc'[l] = "idle" /\ held'[l] = NoJob
  BY <1>1 DEF Crash, Forget
<1>3. \A l \in Loops : proc[l] # p =>
        /\ pc'[l] = pc[l] /\ held'[l] = held[l] /\ snap'[l] = snap[l]
        /\ outcome'[l] = outcome[l] /\ elapsed'[l] = elapsed[l]
  BY <1>1 DEF Crash, Forget
<1>4. TypeOK'
  BY NumberAssumption, TimeoutAssumption
  DEF TypeOK, TableTypeOK, WorkerTypeOK, ReceiverTypeOK, Places, Outcomes, Crash, Forget
<1>5. HoldsItsRow'
  BY <1>1, <1>2, <1>3 DEF HoldsItsRow
<1>6. HoldsItAlone'
  BY <1>2, <1>3 DEF HoldsItAlone
<1>7. KindsApart'
  BY <1>1, <1>2, <1>3 DEF KindsApart
<1>8. RowShape' /\ ThreadsKnow' /\ ReceivedIsQueuedOnce' /\ EventAppliedOrExhausted'
  BY <1>1 DEF RowShape, ThreadsKnow, ReceivedIsQueuedOnce, EventAppliedOrExhausted
<1>9. \A k \in Jobs : Sustains(k) => Sustains(k)'
  BY <1>1, <1>2, <1>3 DEF Sustains
<1>10. Chained'
  BY <1>1, <1>9 DEF Chained
<1> QED BY <1>4, <1>5, <1>6, <1>7, <1>8, <1>10

LEMMA TickKeeps ==
  ASSUME IInv, Tick, UNCHANGED receiverVars, faults' \in 0 .. MaxFaults
  PROVE  IInv'
<1> USE DEF IInv, WorkInv, receiverVars
<1>1. UNCHANGED <<pc, held, snap, outcome, processed, unchained, status, payload, attempts>>
  BY DEF Tick, TableTick
<1>2. \A l \in Loops : pc[l] \in Busy =>
        elapsed[l] \in Nat /\ elapsed[l] < JOB_TIMEOUT + GRACE /\ elapsed'[l] = elapsed[l] + 1
  BY TimeoutAssumption DEF Tick, Limit, TypeOK, WorkerTypeOK
<1>3. TypeOK'
  <2>1. TableTypeOK'
    BY NumberAssumption DEF Tick, TableTick, TypeOK, TableTypeOK
  <2>2. elapsed' \in [Loops -> 0 .. JOB_TIMEOUT + GRACE]
    BY <1>2, TimeoutAssumption DEF Tick, TypeOK, WorkerTypeOK
  <2> QED BY <1>1, <2>1, <2>2 DEF TypeOK, WorkerTypeOK, ReceiverTypeOK
<1>4. HoldsItsRow'
  <2> SUFFICES ASSUME NEW l \in Loops, pc[l] \in Busy
               PROVE  age'[held[l]] = elapsed'[l]
    BY <1>1 DEF HoldsItsRow
  <2>1. held[l] \in Jobs /\ status[held[l]] = "processing" /\ age[held[l]] = elapsed[l]
    BY DEF HoldsItsRow
  <2>2. age[held[l]] \in Nat /\ age[held[l]] < LEASE
    BY <1>2, <2>1, TimeoutAssumption, NumberAssumption
  <2>3. age'[held[l]] = age[held[l]] + 1
    BY <2>1, <2>2, NumberAssumption DEF Tick, TableTick
  <2>4. elapsed'[l] = elapsed[l] + 1
    BY <1>2
  <2> QED BY <2>1, <2>3, <2>4
<1>5. HoldsItAlone' /\ KindsApart' /\ RowShape'
  BY <1>1 DEF HoldsItAlone, KindsApart, RowShape
<1>6. Chained'
  BY <1>1 DEF Chained, Sustains
<1>7. ThreadsKnow' /\ ReceivedIsQueuedOnce' /\ EventAppliedOrExhausted'
  BY <1>1 DEF ThreadsKnow, ReceivedIsQueuedOnce, EventAppliedOrExhausted
<1> QED BY <1>3, <1>4, <1>5, <1>6, <1>7

\* The parts of the invariant that speak of the worker's variables and the table alone.
LEMMA ReceiverOnlyKeeps ==
  ASSUME IInv, UNCHANGED <<tableVars, workerVars>>, faults' \in 0 .. MaxFaults,
         ReceiverTypeOK', ThreadsKnow', UNCHANGED received, acked' \subseteq received
  PROVE  IInv'
<1> USE DEF IInv, WorkInv, tableVars, workerVars
<1>1. TypeOK' /\ WorkInv' /\ Chained'
  BY DEF TypeOK, TableTypeOK, WorkerTypeOK, HoldsItsRow, HoldsItAlone, KindsApart, RowShape,
         Chained, Sustains
<1>2. ReceivedIsQueuedOnce' /\ EventAppliedOrExhausted'
  BY DEF ReceivedIsQueuedOnce, EventAppliedOrExhausted
<1> QED BY <1>1, <1>2

LEMMA ReceiverMovesKeep ==
  ASSUME IInv, NEW t \in Threads, UNCHANGED workerVars, faults' \in 0 .. MaxFaults,
         \/ \E d \in Deliveries : Request(t, d)
         \/ InsertDelivery(t)
         \/ AnswerKnown(t)
         \/ Abandon(t)
  PROVE  IInv'
<1> USE DEF IInv
<1>1. /\ received \subseteq Deliveries /\ acked \subseteq received
      /\ stage \in [Threads -> Stages]
      /\ serving \in [Threads -> Deliveries \cup {NoDelivery}]
  BY DEF TypeOK, ReceiverTypeOK, ReceivedIsQueuedOnce
<1>2. CASE \E d \in Deliveries : Request(t, d)
  <2>1. PICK d \in Deliveries : Request(t, d)
    BY <1>2
  <2>2. ReceiverTypeOK' /\ ThreadsKnow'
    BY <1>1, <2>1 DEF Request, ReceiverTypeOK, ThreadsKnow, Stages
  <2> QED BY <1>1, <2>1, <2>2, ReceiverOnlyKeeps DEF Request
<1>3. CASE InsertDelivery(t)
  <2>1. ReceiverTypeOK' /\ ThreadsKnow'
    BY <1>1, <1>3 DEF InsertDelivery, ReceiverTypeOK, ThreadsKnow, Stages, TypeOK
  <2> QED BY <1>1, <1>3, <2>1, ReceiverOnlyKeeps DEF InsertDelivery
<1>4. CASE AnswerKnown(t)
  <2>1. serving[t] \in received
    BY <1>4 DEF AnswerKnown, ThreadsKnow
  <2>2. ReceiverTypeOK' /\ ThreadsKnow'
    BY <1>1, <1>4, <2>1 DEF AnswerKnown, ReceiverTypeOK, ThreadsKnow, Stages
  <2> QED BY <1>1, <1>4, <2>1, <2>2, ReceiverOnlyKeeps DEF AnswerKnown
<1>5. CASE Abandon(t)
  <2>1. ReceiverTypeOK' /\ ThreadsKnow'
    BY <1>1, <1>5 DEF Abandon, ReceiverTypeOK, ThreadsKnow, Stages
  <2> QED BY <1>1, <1>5, <2>1, ReceiverOnlyKeeps DEF Abandon
<1> QED BY <1>2, <1>3, <1>4, <1>5

LEMMA CommitDeliveryKeeps ==
  ASSUME IInv, NEW t \in Threads, CommitDelivery(t), UNCHANGED workerVars, faults' \in 0 .. MaxFaults
  PROVE  IInv'
<1> DEFINE d == serving[t]
<1>1. stage[t] = "recorded" /\ d \in Deliveries /\ d \notin received
  BY DEF IInv, ThreadsKnow, CommitDelivery
<1>2. Enqueue(NextId, d, 0) /\ Free # {}
  BY DEF CommitDelivery
<1>3. /\ TableTypeOK'
      /\ RowShape'
      /\ \A j \in Jobs : j # NextId =>
           /\ status'[j] = status[j] /\ payload'[j] = payload[j]
           /\ attempts'[j] = attempts[j] /\ age'[j] = age[j]
      /\ NextId \in Jobs /\ status[NextId] = "none"
      /\ status'[NextId] = "pending" /\ payload'[NextId] = d
  <2> HIDE DEF d
  <2> QED BY <1>1, <1>2, EnqueueKeeps, NumberAssumption
<1>4. /\ received' = received \cup {d}
      /\ acked \subseteq acked' /\ acked' \subseteq acked \cup {d}
      /\ stage' = [stage EXCEPT ![t] = "free"]
      /\ serving' = [serving EXCEPT ![t] = NoDelivery]
  BY DEF CommitDelivery
<1> USE DEF IInv, WorkInv, workerVars
<1>5. TypeOK'
  BY <1>1, <1>3, <1>4 DEF TypeOK, WorkerTypeOK, ReceiverTypeOK, Stages
<1>6. \A l \in Loops : pc[l] \in Busy =>
        /\ held[l] # NextId
        /\ status'[held[l]] = status[held[l]] /\ payload'[held[l]] = payload[held[l]]
        /\ attempts'[held[l]] = attempts[held[l]] /\ age'[held[l]] = age[held[l]]
  BY <1>3 DEF HoldsItsRow
<1>7. HoldsItsRow' /\ HoldsItAlone' /\ KindsApart'
  BY <1>6 DEF HoldsItsRow, HoldsItAlone, KindsApart
<1>8. Chained'
  <2> SUFFICES ASSUME NEW r \in Repos \ unchained
               PROVE  \E k \in Jobs : payload'[k] = r /\ Sustains(k)'
    BY DEF Chained
  <2>1. PICK k \in Jobs : payload[k] = r /\ Sustains(k)
    BY DEF Chained
  <2>2. k # NextId
    BY <1>3, <2>1 DEF Sustains
  <2> QED BY <1>3, <2>1, <2>2 DEF Sustains
<1>9. ThreadsKnow'
  BY <1>1, <1>4 DEF ThreadsKnow, TypeOK, ReceiverTypeOK
<1>10. ReceivedIsQueuedOnce'
  <2>1. payload[NextId] = NoPayload
    BY <1>3 DEF RowShape
  <2>2. \A j \in Jobs, e \in Deliveries :
          payload'[j] = e <=> (payload[j] = e \/ (j = NextId /\ e = d))
    BY <1>3, <2>1, PayloadAssumption
  <2>3. \A j \in Jobs : payload[j] # d
    BY <1>1 DEF ReceivedIsQueuedOnce
  <2>4. acked' \subseteq received'
    BY <1>4 DEF ReceivedIsQueuedOnce
  <2>5. \A e \in Deliveries : e \in received' <=> \E j \in Jobs : payload'[j] = e
    BY <1>3, <1>4, <2>2 DEF ReceivedIsQueuedOnce
  <2>6. \A i, j \in Jobs : (payload'[i] = payload'[j] /\ payload'[i] \in Deliveries) => i = j
    BY <2>2, <2>3 DEF ReceivedIsQueuedOnce
  <2> QED BY <2>4, <2>5, <2>6 DEF ReceivedIsQueuedOnce
<1>11. EventAppliedOrExhausted'
  BY <1>3 DEF EventAppliedOrExhausted
<1> QED BY <1>3, <1>5, <1>7, <1>8, <1>9, <1>10, <1>11

-----------------------------------------------------------------------------
(* The theorems. *)

LEMMA InvPreserved == IInv /\ [Next]_vars => IInv'
<1> SUFFICES ASSUME IInv, [Next]_vars PROVE IInv'
  OBVIOUS
<1>1. faults \in 0 .. MaxFaults
  BY DEF IInv, TypeOK
<1>2. \A A \in BOOLEAN : Fault(A) => A /\ faults' \in 0 .. MaxFaults
  BY <1>1, FaultAssumption DEF Fault
<1>3. CASE WorkerNext /\ UNCHANGED receiverVars
  <2>1. CASE \E l \in Loops : LoopStep(l) /\ UNCHANGED faults
    <3>1. PICK l \in Loops : LoopStep(l) /\ faults' = faults
      BY <2>1
    <3>2. CASE ClaimNext(l)
      BY <1>1, <1>3, <3>1, <3>2, ClaimRowKeeps DEF ClaimNext
    <3>3. CASE PollEnds(l) \/ TimeOut(l)
      <4>1. PICK o \in Outcomes : LeavePoll(l, o)
        BY <3>3 DEF PollEnds, TimeOut, Outcomes
      <4> QED BY <1>1, <1>3, <3>1, <4>1, LeavePollKeeps
    <3> QED BY <1>1, <1>3, <3>1, <3>2, <3>3, ClaimNoneKeeps, CountRemainingKeeps, HandleEventKeeps,
               ChainPeekKeeps, ChainInsertKeeps, SettleKeeps DEF LoopStep
  <2>2. CASE \E l \in Loops : Fault(Cancel(l))
    BY <1>1, <1>3, <2>2, FaultAssumption, LeavePollKeeps DEF Fault, Cancel, Outcomes
  <2>3. CASE \E l \in Loops : Fault(ChainFails(l))
    BY <1>1, <1>3, <2>3, FaultAssumption, ChainFailsKeeps DEF Fault
  <2>4. CASE \E p \in Procs : Fault(Crash(p))
    BY <1>1, <1>3, <2>4, FaultAssumption, CrashKeeps DEF Fault
  <2>5. CASE Tick /\ UNCHANGED faults
    BY <1>1, <1>3, <2>5, TickKeeps
  <2> QED BY <1>3, <2>1, <2>2, <2>3, <2>4, <2>5 DEF WorkerNext
<1>4. CASE ReceiverNext /\ UNCHANGED workerVars
  <2>1. CASE \E t \in Threads, d \in Deliveries : Request(t, d) /\ UNCHANGED faults
    BY <1>1, <1>4, <2>1, ReceiverMovesKeep
  <2>2. CASE \E t \in Threads : ReceiverStep(t) /\ UNCHANGED faults
    BY <1>1, <1>4, <2>2, ReceiverMovesKeep, CommitDeliveryKeeps DEF ReceiverStep
  <2>3. CASE \E t \in Threads : Fault(Abandon(t))
    BY <1>1, <1>4, <2>3, FaultAssumption, ReceiverMovesKeep DEF Fault
  <2> QED BY <1>4, <2>1, <2>2, <2>3 DEF ReceiverNext
<1>5. CASE UNCHANGED vars
  BY <1>5 DEF vars, tableVars, workerVars, receiverVars, IInv, TypeOK, TableTypeOK, WorkerTypeOK,
     ReceiverTypeOK, WorkInv, HoldsItsRow, HoldsItAlone, KindsApart, RowShape, Chained, Sustains,
     ThreadsKnow, ReceivedIsQueuedOnce, EventAppliedOrExhausted
<1> QED BY <1>3, <1>4, <1>5 DEF Next

LEMMA Invariance == Spec => []IInv
BY InitInv, InvPreserved, PTL DEF Spec

\* Every variable keeps its type: in particular no row's attempts pass MAX_ATTEMPTS + 1
\* (worker.py, the comparisons of job["attempts"] with MAX_ATTEMPTS).
THEOREM TypeCorrect == Spec => []TypeOK
<1>1. IInv => TypeOK
  BY DEF IInv
<1> QED BY <1>1, Invariance, PTL

\* A claimed row is its loop's alone until that loop lets go of it (queue.py, claim_next;
\* worker.py, JOB_TIMEOUT).
THEOREM LeaseIsExclusive == Spec => []LeaseExclusive
<1>1. IInv => LeaseExclusive
  BY DEF IInv, WorkInv, HoldsItsRow, HoldsItAlone, LeaseExclusive
<1> QED BY <1>1, Invariance, PTL

\* The poll of a repo is never lost, while no _schedule_next_poll of it raises (worker.py,
\* _handle_poll_repo).
THEOREM PollChainNeverBreaks == Spec => []PollChainAlive
<1>1. IInv => PollChainAlive
  BY DEF IInv, Chained, Sustains, PollChainAlive, LiveRows
<1> QED BY <1>1, Invariance, PTL

\* A delivery is recorded exactly if its work is queued, once (webhook.py, _record_delivery).
THEOREM DeliveriesQueuedOnce == Spec => []ReceivedIsQueuedOnce
<1>1. IInv => ReceivedIsQueuedOnce
  BY DEF IInv
<1> QED BY <1>1, Invariance, PTL

\* An event's row is done only with the event applied, and failed only with every attempt
\* spent (worker.py, the except branches of the loop).
THEOREM EventsAppliedOrExhausted == Spec => []EventAppliedOrExhausted
<1>1. IInv => EventAppliedOrExhausted
  BY DEF IInv
<1> QED BY <1>1, Invariance, PTL

=============================================================================
