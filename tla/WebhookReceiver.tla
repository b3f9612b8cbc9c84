--------------------------- MODULE WebhookReceiver ---------------------------
(***************************************************************************)
(* webhook.py: the receiver of GitHub's deliveries.  Each request is       *)
(* served by a thread (asyncio.to_thread) that runs _record_delivery, one  *)
(* transaction on the tables webhook_delivery and ingest_job.  What the    *)
(* transaction wrote is seen by others when it commits; until then its     *)
(* uncommitted row makes an INSERT of the same delivery_id wait.           *)
(*                                                                         *)
(* Requests the handler refuses before it reaches the database (no secret, *)
(* bad signature, no headers, a body that is not JSON) change nothing and  *)
(* are left out.                                                           *)
(***************************************************************************)
EXTENDS IngestQueue

CONSTANTS
  Threads,
  NoDelivery   \* what an unoccupied thread serves

ASSUME ThreadAssumption == NoDelivery \notin Deliveries

VARIABLES
  received,    \* the rows of webhook_delivery
  stage,       \* where each thread is in _record_delivery
  serving,     \* the delivery_id of its request
  acked        \* the deliveries a 200 was sent for

receiverVars == <<received, stage, serving, acked>>

Stages == {"free", "inserting", "recorded", "known"}

ReceiverTypeOK ==
  /\ received \subseteq Deliveries
  /\ stage \in [Threads -> Stages]
  /\ serving \in [Threads -> Deliveries \cup {NoDelivery}]
  /\ acked \subseteq Deliveries

ReceiverInit ==
  /\ received = {}
  /\ stage = [t \in Threads |-> "free"]
  /\ serving = [t \in Threads |-> NoDelivery]
  /\ acked = {}

-----------------------------------------------------------------------------
\* GitHub sends, or sends again, delivery d.  It may do so at any time: after a timeout of
\* its own, on a request of the user, before the first copy is through.
Request(t, d) ==
  /\ stage[t] = "free"
  /\ stage' = [stage EXCEPT ![t] = "inserting"]
  /\ serving' = [serving EXCEPT ![t] = d]
  /\ UNCHANGED <<tableVars, received, acked>>

\* Mutant of InsertDelivery: a look before the insert, instead of the conflict clause.
InsertUnlessSeen(t) ==
  /\ stage[t] = "inserting"
  /\ stage' = [stage EXCEPT ![t] = IF serving[t] \in received THEN "known" ELSE "recorded"]
  /\ UNCHANGED <<tableVars, received, serving, acked>>

\* INSERT INTO webhook_delivery ... ON CONFLICT DO NOTHING.  It waits for a transaction
\* that inserted the same id and has not ended.
InsertDelivery(t) ==
  /\ stage[t] = "inserting"
  /\ \A u \in Threads : serving[u] = serving[t] => stage[u] # "recorded"
  /\ stage' = [stage EXCEPT ![t] = IF serving[t] \in received THEN "known" ELSE "recorded"]
  /\ UNCHANGED <<tableVars, received, serving, acked>>

\* enqueue, in the same transaction, and its COMMIT, which makes both rows visible; then
\* the handler answers 200.
CommitDelivery(t) ==
  /\ stage[t] = "recorded"
  /\ received' = received \cup {serving[t]}
  /\ Free # {}
  /\ Enqueue(NextId, serving[t], 0)
  /\ \/ acked' = acked \cup {serving[t]}
     \/ UNCHANGED acked    \* the connection, or the process, is lost before the answer
  /\ stage' = [stage EXCEPT ![t] = "free"]
  /\ serving' = [serving EXCEPT ![t] = NoDelivery]

\* The delivery was known: commit nothing, answer 200.
AnswerKnown(t) ==
  /\ stage[t] = "known"
  /\ acked' = acked \cup {serving[t]}
  /\ stage' = [stage EXCEPT ![t] = "free"]
  /\ serving' = [serving EXCEPT ![t] = NoDelivery]
  /\ UNCHANGED <<tableVars, received>>

\* The receiver dies, or the statement raises: the transaction is rolled back.
Abandon(t) ==
  /\ stage[t] # "free"
  /\ stage' = [stage EXCEPT ![t] = "free"]
  /\ serving' = [serving EXCEPT ![t] = NoDelivery]
  /\ UNCHANGED <<tableVars, received, acked>>

ReceiverStep(t) ==
  InsertDelivery(t) \/ CommitDelivery(t) \/ AnswerKnown(t)
=============================================================================
