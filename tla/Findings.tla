------------------------------- MODULE Findings -------------------------------
(***************************************************************************)
(* The tables finding and evidence of one repo: audits (run_audit and the  *)
(* suppression rules cli.py applies after it) and the user's suppress add  *)
(* and suppress remove, any of them at the same time.                      *)
(*                                                                         *)
(* persist_findings is one transaction that looks each draft up and then   *)
(* writes it; READ COMMITTED, so between the two others may commit, and    *)
(* what it has written stays locked until its own commit.  Nothing writes  *)
(* the status 'acknowledged', so it is left out.                           *)
(***************************************************************************)
EXTENDS Naturals, FiniteSets

CONSTANTS
  Keys,        \* dedupe keys
  Detectors,
  detector,    \* the detector whose findings a key names
  Audits,
  Silenced,    \* the keys that a rule of .cadenceignore or an inline comment matches
  Inline,      \* those an inline comment in a workflow file matches
  NoRow,       \* the status of a finding that is not there
  MaxFaults    \* bound on failing detectors, audits cut short and failed reads of the rules

Statuses == {"new", "resolved", "suppressed", "regressed"}

ASSUME DetectorAssumption ==
  detector \in [Keys -> Detectors] /\ IsFiniteSet(Detectors)
ASSUME RuleAssumption == Inline \subseteq Silenced /\ Silenced \subseteq Keys
ASSUME StatusAssumption == NoRow \notin Statuses
ASSUME BoundAssumption == MaxFaults \in Nat

VARIABLES
  \* the database, committed
  status,
  reason,     \* is there a record of why and whence it is suppressed?
  evidence,   \* the audits the rows of evidence come from
  \* each audit
  at,
  drafts,     \* the keys the others found
  todo,       \* those it has not looked up yet
  looked,     \* the draft between its SELECT and its write, and the status read, or nothing
  wrote,      \* its transaction's uncommitted writes: the new status
  deleted,    \* the evidence its transaction has deleted
  matched,    \* the findings apply has read that it is to suppress
  \* history
  lifted,     \* the findings the user has taken a suppression back of
  unread,     \* the findings left open by audits that could not read .cadenceignore, since the
              \* last that could
  aborted,    \* an audit has not come to its end
  faults

tables  == <<status, reason, evidence>>
audits  == <<at, drafts, todo, looked, wrote, deleted, matched>>
history == <<lifted, unread, aborted, faults>>
vars    == <<tables, audits, history>>

\* The types; an audit writes in its transaction alone, and no two write the same finding.
TypeOK ==
  /\ status \in [Keys -> Statuses \cup {NoRow}]
  /\ reason \in [Keys -> BOOLEAN]
  /\ evidence \in [Keys -> SUBSET Audits]
  /\ at \in [Audits -> {"idle", "persisting", "resolving", "silencing"}]
  /\ drafts \in [Audits -> SUBSET Keys]
  /\ todo \in [Audits -> SUBSET Keys]
  /\ looked \in [Audits -> SUBSET [key : Keys, status : Statuses \cup {NoRow}]]
  /\ wrote \in [Audits -> [Keys -> Statuses \cup {NoRow}]]
  /\ deleted \in [Audits -> [Keys -> SUBSET Audits]]
  /\ matched \in [Audits -> SUBSET Keys]
  /\ lifted \subseteq Keys
  /\ unread \subseteq Silenced \ Inline
  /\ aborted \in BOOLEAN
  /\ faults \in 0 .. MaxFaults
  /\ \A a, b \in Audits, k \in Keys :
       wrote[a][k] # NoRow => at[a] = "persisting" /\ (wrote[b][k] # NoRow => a = b)

Unwritten == [k \in Keys |-> NoRow]
Undeleted == [k \in Keys |-> {}]

Init ==
  /\ status = [k \in Keys |-> NoRow]
  /\ reason = [k \in Keys |-> FALSE]
  /\ evidence = [k \in Keys |-> {}]
  /\ at = [a \in Audits |-> "idle"]
  /\ drafts = [a \in Audits |-> {}]
  /\ todo = [a \in Audits |-> {}]
  /\ looked = [a \in Audits |-> {}]
  /\ wrote = [a \in Audits |-> Unwritten]
  /\ deleted = [a \in Audits |-> Undeleted]
  /\ matched = [a \in Audits |-> {}]
  /\ lifted = {}
  /\ unread = {}
  /\ aborted = FALSE
  /\ faults = 0

-----------------------------------------------------------------------------
\* Mutant of Free: nobody waits for anybody.
FreeToAll(k, a) == TRUE

\* A finding another audit has written and not committed makes who writes it wait.
Free(k, a) == \A b \in Audits \ {a} : wrote[b][k] = NoRow

\* Audit a is over, or cut short and rolled back.
Leave(a) ==
  /\ at' = [at EXCEPT ![a] = "idle"]
  /\ drafts' = [drafts EXCEPT ![a] = {}]
  /\ todo' = [todo EXCEPT ![a] = {}]
  /\ looked' = [looked EXCEPT ![a] = {}]
  /\ wrote' = [wrote EXCEPT ![a] = Unwritten]
  /\ deleted' = [deleted EXCEPT ![a] = Undeleted]
  /\ matched' = [matched EXCEPT ![a] = {}]

-----------------------------------------------------------------------------
(* run_audit and persist_findings. *)

\* The detectors run on the repository as it is now: any set of findings may be present.  One
\* that raises is left out.  With no drafts there is neither persisting nor resolving.
RunDetectors(a) ==
  /\ at[a] = "idle"
  /\ \E present \in SUBSET Keys, broken \in SUBSET Detectors :
       LET found == {k \in present : detector[k] \notin broken}
       IN  /\ faults + Cardinality(broken) <= MaxFaults
           /\ faults' = faults + Cardinality(broken)
           /\ drafts' = [drafts EXCEPT ![a] = found]
           /\ todo' = [todo EXCEPT ![a] = found]
           /\ at' = [at EXCEPT ![a] = IF found = {} THEN "silencing" ELSE "persisting"]
  /\ UNCHANGED <<tables, looked, wrote, deleted, matched, lifted, unread, aborted>>

\* SELECT id, status: what is committed.
LookUp(a, k) ==
  /\ at[a] = "persisting"
  /\ looked[a] = {}
  /\ k \in todo[a]
  /\ looked' = [looked EXCEPT ![a] = {[key |-> k, status |-> status[k]]}]
  /\ todo' = [todo EXCEPT ![a] = @ \ {k}]
  /\ UNCHANGED <<tables, at, drafts, wrote, deleted, matched, history>>

\* The status written: of a finding not seen before, of one that was resolved, of any other.
NewStatus(s) ==
  CASE s = NoRow      -> "new"
    [] s = "resolved" -> "regressed"
    [] OTHER          -> s

\* Mutant of Rejected: there is no such constraint.
RejectedOnInsert(l) == l.status = NoRow /\ status[l.key] # NoRow

\* The INSERT finds the key taken since the look-up; the UPDATE writes back a suppression
\* whose record the user has removed since, against the constraint of 006_suppression.sql.
Rejected(l) ==
  \/ l.status = NoRow /\ status[l.key] # NoRow
  \/ l.status = "suppressed" /\ ~reason[l.key]

\* Mutant of WriteDraft: the old evidence is not deleted.
WriteDraftBeside(a, l) ==
  /\ l \in looked[a]
  /\ Free(l.key, a)
  /\ ~Rejected(l)
  /\ wrote' = [wrote EXCEPT ![a][l.key] = NewStatus(l.status)]
  /\ looked' = [looked EXCEPT ![a] = {}]
  /\ UNCHANGED <<tables, at, drafts, todo, deleted, matched, history>>

\* INSERT or UPDATE, then DELETE FROM evidence, then the new evidence.
WriteDraft(a, l) ==
  /\ l \in looked[a]
  /\ Free(l.key, a)
  /\ ~Rejected(l)
  /\ wrote' = [wrote EXCEPT ![a][l.key] = NewStatus(l.status)]
  /\ deleted' = [deleted EXCEPT ![a][l.key] = evidence[l.key]]
  /\ looked' = [looked EXCEPT ![a] = {}]
  /\ UNCHANGED <<tables, at, drafts, todo, matched, history>>

\* An exception, and the audit ends with its transaction rolled back.
WriteRaises(a, l) ==
  /\ l \in looked[a]
  /\ Free(l.key, a)
  /\ Rejected(l)
  /\ Leave(a)
  /\ aborted' = TRUE
  /\ UNCHANGED <<tables, lifted, unread, faults>>

\* The commit of persist_findings.
CommitDrafts(a) ==
  /\ at[a] = "persisting"
  /\ todo[a] = {} /\ looked[a] = {}
  /\ LET written == {k \in Keys : wrote[a][k] # NoRow}
     IN  /\ status' = [k \in Keys |-> IF k \in written THEN wrote[a][k] ELSE status[k]]
         /\ evidence' = [k \in Keys |-> IF k \in written
                                          THEN (evidence[k] \ deleted[a][k]) \cup {a}
                                          ELSE evidence[k]]
  /\ wrote' = [wrote EXCEPT ![a] = Unwritten]
  /\ deleted' = [deleted EXCEPT ![a] = Undeleted]
  /\ at' = [at EXCEPT ![a] = "resolving"]
  /\ UNCHANGED <<reason, drafts, todo, looked, matched, history>>

\* Mutant of Missing: whatever is not resolved is.
MissingOrSuppressed(a) ==
  {k \in Keys \ drafts[a] : status[k] \in {"new", "regressed", "suppressed"}}

\* The findings that no longer reproduce; a suppressed one is left alone.
Missing(a) == {k \in Keys \ drafts[a] : status[k] \in {"new", "regressed"}}

\* resolve_missing: one statement, committed at once.
ResolveMissing(a) ==
  /\ at[a] = "resolving"
  /\ \A k \in Missing(a) : Free(k, a)
  /\ status' = [k \in Keys |-> IF k \in Missing(a) THEN "resolved" ELSE status[k]]
  /\ at' = [at EXCEPT ![a] = "silencing"]
  /\ drafts' = [drafts EXCEPT ![a] = {}]
  /\ UNCHANGED <<reason, evidence, todo, looked, wrote, deleted, matched, history>>

-----------------------------------------------------------------------------
(* suppress.py. *)

\* Mutant of ToSilence: only new findings are silenced.
NewToSilence(rules) == {k \in rules : status[k] = "new"}

\* The findings that a rule matches and that are not suppressed.
ToSilence(rules) == {k \in rules : status[k] \notin {NoRow, "suppressed"}}

\* apply, its SELECT, if there are rules.
Match(a, rules) ==
  /\ at[a] = "silencing"
  /\ matched[a] = {}
  /\ matched' = [matched EXCEPT ![a] = ToSilence(rules)]
  /\ at' = [at EXCEPT ![a] = IF ToSilence(rules) = {} THEN "idle" ELSE "silencing"]
  /\ UNCHANGED <<tables, drafts, todo, looked, wrote, deleted, lifted, aborted>>

\* .cadenceignore is read, and the comments of the workflow files with it.
MatchRules(a) ==
  /\ Match(a, Silenced)
  /\ unread' = {}
  /\ UNCHANGED faults

\* The request for .cadenceignore fails, which is taken for its absence: the audit goes on with
\* the comments alone.
MatchInline(a) ==
  /\ faults < MaxFaults
  /\ faults' = faults + 1
  /\ Match(a, Inline)
  /\ unread' = unread \cup (ToSilence(Silenced) \ Inline)

\* apply, its UPDATEs and COMMIT.
ApplyRules(a) ==
  /\ matched[a] # {}
  /\ \A k \in matched[a] : Free(k, a)
  /\ status' = [k \in Keys |-> IF k \in matched[a] THEN "suppressed" ELSE status[k]]
  /\ reason' = [k \in Keys |-> k \in matched[a] \/ reason[k]]
  /\ Leave(a)
  /\ UNCHANGED <<evidence, history>>

\* suppress_one, of a finding in any status.
Suppress(k) ==
  /\ status[k] # NoRow
  /\ \A a \in Audits : wrote[a][k] = NoRow
  /\ status' = [status EXCEPT ![k] = "suppressed"]
  /\ reason' = [reason EXCEPT ![k] = TRUE]
  /\ UNCHANGED <<evidence, audits, history>>

\* unsuppress_one.
Unsuppress(k) ==
  /\ status[k] = "suppressed"
  /\ \A a \in Audits : wrote[a][k] = NoRow
  /\ status' = [status EXCEPT ![k] = "new"]
  /\ reason' = [reason EXCEPT ![k] = FALSE]
  /\ lifted' = lifted \cup {k}
  /\ UNCHANGED <<evidence, audits, unread, aborted, faults>>

\* Two audits each write what the other has written: Postgres makes one of them fail.
Awaits(a, b) == \E l \in looked[a] : wrote[b][l.key] # NoRow
Deadlocked(a) ==
  /\ \E b \in Audits \ {a} : Awaits(a, b) /\ Awaits(b, a)
  /\ Leave(a)
  /\ aborted' = TRUE
  /\ UNCHANGED <<tables, lifted, unread, faults>>

\* Ctrl-C, a lost connection, a .cadenceignore that does not parse.
CutShort(a) ==
  /\ at[a] # "idle"
  /\ faults < MaxFaults
  /\ faults' = faults + 1
  /\ Leave(a)
  /\ aborted' = TRUE
  /\ UNCHANGED <<tables, lifted, unread>>

-----------------------------------------------------------------------------
AuditStep(a) ==
  \/ RunDetectors(a)
  \/ \E k \in Keys : LookUp(a, k)
  \/ \E l \in looked[a] : WriteDraft(a, l) \/ WriteRaises(a, l)
  \/ CommitDrafts(a)
  \/ ResolveMissing(a)
  \/ MatchRules(a)
  \/ MatchInline(a)
  \/ ApplyRules(a)

Next ==
  \/ \E a \in Audits : AuditStep(a) \/ Deadlocked(a) \/ CutShort(a)
  \/ \E k \in Keys : Suppress(k) \/ Unsuppress(k)

Spec == Init /\ [][Next]_vars

-----------------------------------------------------------------------------
(* Properties. *)

\* A finding's evidence is what the last audit that wrote the finding found: never none
\* (the trigger finding_requires_evidence), and never the ranges of two audits that ran at
\* the same time.  It rests on the order of UPDATE, DELETE and INSERT in one transaction.
EvidenceOfOneAudit ==
  \A k \in Keys : Cardinality(evidence[k]) = IF status[k] = NoRow THEN 0 ELSE 1

\* Whatever crosses an audit, a suppressed finding says why (006_suppression.sql).
SuppressedIsExplained == \A k \in Keys : status[k] = "suppressed" => reason[k]

\* A suppressed finding ceases to be when the user says so, and otherwise only by an audit that
\* had looked it up before: no detector that stops firing and no rule reopens it.
SuppressionIsRespected ==
  [][\A k \in Keys : (status[k] = "suppressed" /\ status'[k] # "suppressed")
        => Unsuppress(k) \/ \E a \in Audits : wrote[a][k] \notin {NoRow, "suppressed"}]_vars

\* The docstring of findings.py: a user's suppressed decision survives re-audits.  The record of
\* one, which only the user removes, goes with the status.
SuppressionSurvives == \A k \in Keys : reason[k] => status[k] = "suppressed"

\* When audits have come to their end, every finding that a rule of the repository matches is
\* suppressed, unless the user took that back, or no audit could read .cadenceignore since one
\* that could not has left it open: however audits overlap, each one's stale writes are followed
\* by its own look for findings to silence, and an audit that reads the rules makes up for all
\* that did not.  What an inline comment matches needs no such exception.
RulesHold ==
  (~aborted /\ \A a \in Audits : at[a] = "idle")
    => \A k \in Silenced \ lifted : k \in unread \/ status[k] \in {NoRow, "suppressed"}
=============================================================================
