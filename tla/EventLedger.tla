----------------------------- MODULE EventLedger -----------------------------
(***************************************************************************)
(* What the ingest path promises for a webhook delivery, with no queue, no *)
(* workers, no leases and no clock: an accepted delivery stays open until  *)
(* its event has been applied or it has failed MAX_ATTEMPTS + 1 times, and *)
(* is then closed for good.  Applying twice is allowed: the writes of the  *)
(* handler are upserts.                                                    *)
(***************************************************************************)
EXTENDS Naturals

CONSTANTS Deliveries, MAX_ATTEMPTS

VARIABLES
  accepted,   \* the deliveries GitHub need not send again
  open,       \* those still to be dealt with
  applied,    \* those whose event reached the tables
  failures    \* how often the work of each has failed

ledgerVars == <<accepted, open, applied, failures>>

LedgerInit ==
  /\ accepted = {}
  /\ open = {}
  /\ applied = {}
  /\ failures = [d \in Deliveries |-> 0]

Accept(d) ==
  /\ d \notin accepted
  /\ accepted' = accepted \cup {d}
  /\ open' = open \cup {d}
  /\ UNCHANGED <<applied, failures>>

Apply(d) ==
  /\ d \in open
  /\ applied' = applied \cup {d}
  /\ UNCHANGED <<accepted, open, failures>>

Close(d) ==
  /\ d \in open \cap applied
  /\ open' = open \ {d}
  /\ UNCHANGED <<accepted, applied, failures>>

\* A failure leaves the delivery open, except the one after MAX_ATTEMPTS others.
FailOnce(d) ==
  /\ d \in open
  /\ failures' = [failures EXCEPT ![d] = @ + 1]
  /\ open' = IF failures[d] < MAX_ATTEMPTS THEN open ELSE open \ {d}
  /\ UNCHANGED <<accepted, applied>>

LedgerNext == \E d \in Deliveries : Accept(d) \/ Apply(d) \/ Close(d) \/ FailOnce(d)

LedgerSpec == LedgerInit /\ [][LedgerNext]_ledgerVars
=============================================================================
