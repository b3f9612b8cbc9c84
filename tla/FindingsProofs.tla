---------------------------- MODULE FindingsProofs ----------------------------
(***************************************************************************)
(* What concurrent audits and users leave of findings: evidence of one     *)
(* audit, a reason for each suppression, and the rules of the repository   *)
(* applied in the end, for any number of findings, audits and faults.      *)
(***************************************************************************)
EXTENDS Findings, FiniteSetTheorems, TLAPS

\* What an audit has looked up belongs to its transaction, what it has matched to its rules.
AuditsInOrder ==
  \A a \in Audits :
    /\ looked[a] # {} => at[a] = "persisting"
    /\ matched[a] # {} => at[a] = "silencing"

\* While an audit holds the lock of a finding, the evidence it has deleted is all there is, and
\* the reason of a suppression it has written stays.
LocksHold ==
  \A a \in Audits, k \in Keys :
    wrote[a][k] # NoRow => /\ deleted[a][k] = evidence[k]
                           /\ wrote[a][k] = "suppressed" => reason[k]

MatchedExist == \A a \in Audits : \A k \in matched[a] : status[k] # NoRow

EvidenceRight ==
  \A k \in Keys : IF status[k] = NoRow THEN evidence[k] = {} ELSE \E b \in Audits : evidence[k] = {b}

\* Audit a has still to look for finding k among those to silence, or has found it there.
WillSilence(a, k) ==
  \/ at[a] \in {"persisting", "resolving"}
  \/ at[a] = "silencing" /\ (matched[a] = {} \/ k \in matched[a])

SilenceComes ==
  ~aborted => \A k \in Silenced \ lifted :
                k \in unread \/ status[k] \in {NoRow, "suppressed"} \/ \E a \in Audits : WillSilence(a, k)

FindInv ==
  TypeOK /\ AuditsInOrder /\ LocksHold /\ MatchedExist /\ EvidenceRight /\ SuppressedIsExplained /\ SilenceComes

\* No two audits have written the same finding.
OneWriter ==
  \A b, c \in Audits, k \in Keys :
    wrote[b][k] # NoRow => at[b] = "persisting" /\ (wrote[c][k] # NoRow => b = c)

LEMMA TypesSayOneWriter == TypeOK => OneWriter
BY DEF TypeOK, OneWriter

LEMMA FindInitially == Init => FindInv
<1> SUFFICES ASSUME Init PROVE FindInv
  OBVIOUS
<1>1. TypeOK
  <2>1. OneWriter
    BY DEF Init, OneWriter, Unwritten
  <2>2. Unwritten \in [Keys -> Statuses \cup {NoRow}] /\ Undeleted \in [Keys -> SUBSET Audits]
    BY DEF Unwritten, Undeleted
  <2>3. /\ wrote \in [Audits -> [Keys -> Statuses \cup {NoRow}]]
        /\ deleted \in [Audits -> [Keys -> SUBSET Audits]]
    BY <2>2 DEF Init
  <2>4. looked \in [Audits -> SUBSET [key : Keys, status : Statuses \cup {NoRow}]]
    BY DEF Init
  <2>5. /\ drafts \in [Audits -> SUBSET Keys] /\ todo \in [Audits -> SUBSET Keys]
        /\ matched \in [Audits -> SUBSET Keys]
        /\ at \in [Audits -> {"idle", "persisting", "resolving", "silencing"}]
    BY DEF Init
  <2>6. /\ status \in [Keys -> Statuses \cup {NoRow}] /\ reason \in [Keys -> BOOLEAN]
        /\ evidence \in [Keys -> SUBSET Audits]
        /\ lifted \subseteq Keys /\ unread \subseteq Silenced \ Inline
    BY DEF Init
  <2>7. aborted \in BOOLEAN
    BY DEF Init
  <2>8. faults \in 0 .. MaxFaults
    <3>1. faults = 0
      BY DEF Init
    <3> QED BY <3>1, BoundAssumption
  <2> QED BY <2>1, <2>3, <2>4, <2>5, <2>6, <2>7, <2>8 DEF TypeOK, OneWriter
<1>2. AuditsInOrder /\ MatchedExist /\ EvidenceRight
  BY DEF Init, AuditsInOrder, MatchedExist, EvidenceRight
<1>3. LocksHold
  BY DEF Init, LocksHold, Unwritten
<1>4. SuppressedIsExplained
  BY StatusAssumption DEF Init, SuppressedIsExplained, Statuses
<1>5. SilenceComes
  BY RuleAssumption DEF Init, SilenceComes
<1> QED BY <1>1, <1>2, <1>3, <1>4, <1>5 DEF FindInv

-----------------------------------------------------------------------------
LEMMA DetectorsKeep ==
  ASSUME FindInv, NEW a \in Audits, RunDetectors(a)
  PROVE  FindInv'
<1>1. TypeOK /\ AuditsInOrder
  BY DEF FindInv
<1>2. PICK present \in SUBSET Keys, broken \in SUBSET Detectors :
        LET found == {k \in present : detector[k] \notin broken}
        IN  /\ faults + Cardinality(broken) <= MaxFaults
            /\ faults' = faults + Cardinality(broken)
            /\ drafts' = [drafts EXCEPT ![a] = found]
            /\ todo' = [todo EXCEPT ![a] = found]
            /\ at' = [at EXCEPT ![a] = IF found = {} THEN "silencing" ELSE "persisting"]
  BY DEF RunDetectors
<1>3. /\ at[a] = "idle"
      /\ UNCHANGED <<status, reason, evidence, looked, wrote, deleted, matched, lifted, unread, aborted>>
  BY DEF RunDetectors, tables
<1>4. IsFiniteSet(broken)
  BY DetectorAssumption, FS_Subset
<1>5. faults' \in 0 .. MaxFaults
  BY <1>1, <1>2, <1>4, FS_CardinalityType, BoundAssumption DEF TypeOK
<1>6. at'[a] \in {"silencing", "persisting"} /\ \A b \in Audits \ {a} : at'[b] = at[b]
  BY <1>1, <1>2 DEF TypeOK
<1>7. at' \in [Audits -> {"idle", "persisting", "resolving", "silencing"}]
      /\ drafts' \in [Audits -> SUBSET Keys] /\ todo' \in [Audits -> SUBSET Keys]
  BY <1>1, <1>2 DEF TypeOK
<1>8. looked[a] = {} /\ matched[a] = {} /\ \A k \in Keys : wrote[a][k] = NoRow
  BY <1>1, <1>3 DEF AuditsInOrder, TypeOK
<1>9. OneWriter'
  BY <1>1, <1>3, <1>6, <1>8, TypesSayOneWriter DEF OneWriter
<1>10. TypeOK'
  BY <1>1, <1>3, <1>5, <1>7, <1>9 DEF TypeOK, OneWriter
<1>11. AuditsInOrder'
  BY <1>1, <1>3, <1>6, <1>8 DEF AuditsInOrder
<1>12. LocksHold' /\ MatchedExist' /\ EvidenceRight' /\ SuppressedIsExplained'
  BY <1>3 DEF FindInv, LocksHold, MatchedExist, EvidenceRight, SuppressedIsExplained
<1>13. SilenceComes'
  BY <1>3, <1>6 DEF FindInv, SilenceComes, WillSilence
<1> QED BY <1>10, <1>11, <1>12, <1>13 DEF FindInv

LEMMA LookUpKeeps ==
  ASSUME FindInv, NEW a \in Audits, NEW k \in Keys, LookUp(a, k)
  PROVE  FindInv'
<1>1. TypeOK /\ AuditsInOrder
  BY DEF FindInv
<1>2. /\ at[a] = "persisting"
      /\ looked' = [looked EXCEPT ![a] = {[key |-> k, status |-> status[k]]}]
      /\ todo' = [todo EXCEPT ![a] = @ \ {k}]
      /\ UNCHANGED <<status, reason, evidence, at, drafts, wrote, deleted, matched, lifted, unread, aborted, faults>>
  BY DEF LookUp, tables, history
<1>3. [key |-> k, status |-> status[k]] \in [key : Keys, status : Statuses \cup {NoRow}]
  BY <1>1 DEF TypeOK
<1>4. looked' \in [Audits -> SUBSET [key : Keys, status : Statuses \cup {NoRow}]]
      /\ todo' \in [Audits -> SUBSET Keys]
  BY <1>1, <1>2, <1>3 DEF TypeOK
<1>5. TypeOK'
  BY <1>1, <1>2, <1>4 DEF TypeOK
<1>6. AuditsInOrder'
  BY <1>1, <1>2 DEF AuditsInOrder, TypeOK
<1>7. LocksHold' /\ MatchedExist' /\ EvidenceRight' /\ SuppressedIsExplained' /\ SilenceComes'
  BY <1>2 DEF FindInv, LocksHold, MatchedExist, EvidenceRight, SuppressedIsExplained, SilenceComes, WillSilence
<1> QED BY <1>5, <1>6, <1>7 DEF FindInv

LEMMA WriteDraftKeeps ==
  ASSUME FindInv, NEW a \in Audits, NEW l \in looked[a], WriteDraft(a, l)
  PROVE  FindInv'
<1> DEFINE k == l.key
           s == NewStatus(l.status)
<1>1. TypeOK /\ AuditsInOrder /\ LocksHold
  BY DEF FindInv
<1>2. k \in Keys /\ l.status \in Statuses \cup {NoRow} /\ at[a] = "persisting"
  BY <1>1 DEF TypeOK, AuditsInOrder
<1>3. s \in Statuses /\ s # NoRow /\ (s = "suppressed" => reason[k])
  BY <1>2, StatusAssumption DEF WriteDraft, Rejected, NewStatus, Statuses
<1>4. /\ wrote' = [wrote EXCEPT ![a][k] = s]
      /\ deleted' = [deleted EXCEPT ![a][k] = evidence[k]]
      /\ looked' = [looked EXCEPT ![a] = {}]
      /\ UNCHANGED <<status, reason, evidence, at, drafts, todo, matched, lifted, unread, aborted, faults>>
  BY DEF WriteDraft, tables, history
<1>5. \A b \in Audits \ {a} : wrote[b][k] = NoRow
  BY DEF WriteDraft, Free
<1> HIDE DEF s, k
<1>6. /\ wrote' \in [Audits -> [Keys -> Statuses \cup {NoRow}]] /\ wrote'[a][k] = s
      /\ (\A j \in Keys \ {k} : wrote'[a][j] = wrote[a][j])
      /\ \A b \in Audits \ {a} : wrote'[b] = wrote[b]
  BY <1>1, <1>2, <1>3, <1>4 DEF TypeOK
<1>7. /\ deleted' \in [Audits -> [Keys -> SUBSET Audits]] /\ deleted'[a][k] = evidence[k]
      /\ (\A j \in Keys \ {k} : deleted'[a][j] = deleted[a][j])
      /\ \A b \in Audits \ {a} : deleted'[b] = deleted[b]
  BY <1>1, <1>2, <1>4 DEF TypeOK
<1>8. looked' \in [Audits -> SUBSET [key : Keys, status : Statuses \cup {NoRow}]]
  BY <1>1, <1>4 DEF TypeOK
<1>9. OneWriter'
  BY <1>1, <1>2, <1>4, <1>5, <1>6, TypesSayOneWriter DEF OneWriter
<1>10. TypeOK'
  BY <1>1, <1>4, <1>6, <1>7, <1>8, <1>9 DEF TypeOK, OneWriter
<1>11. AuditsInOrder'
  BY <1>1, <1>4 DEF AuditsInOrder, TypeOK
<1>12. LocksHold'
  BY <1>1, <1>3, <1>4, <1>6, <1>7 DEF LocksHold
<1>13. MatchedExist' /\ EvidenceRight' /\ SuppressedIsExplained' /\ SilenceComes'
  BY <1>4 DEF FindInv, MatchedExist, EvidenceRight, SuppressedIsExplained, SilenceComes, WillSilence
<1> QED BY <1>10, <1>11, <1>12, <1>13 DEF FindInv

\* What Leave makes of an audit.
LEMMA Leaving ==
  ASSUME FindInv, NEW a \in Audits, Leave(a)
  PROVE  /\ at' \in [Audits -> {"idle", "persisting", "resolving", "silencing"}]
         /\ drafts' \in [Audits -> SUBSET Keys] /\ todo' \in [Audits -> SUBSET Keys]
         /\ looked' \in [Audits -> SUBSET [key : Keys, status : Statuses \cup {NoRow}]]
         /\ wrote' \in [Audits -> [Keys -> Statuses \cup {NoRow}]]
         /\ deleted' \in [Audits -> [Keys -> SUBSET Audits]]
         /\ matched' \in [Audits -> SUBSET Keys]
         /\ at'[a] = "idle" /\ looked'[a] = {} /\ matched'[a] = {}
         /\ (\A k \in Keys : wrote'[a][k] = NoRow)
         /\ \A b \in Audits \ {a} : /\ at'[b] = at[b] /\ looked'[b] = looked[b] /\ matched'[b] = matched[b]
                                    /\ wrote'[b] = wrote[b] /\ deleted'[b] = deleted[b]
         /\ AuditsInOrder'
         /\ OneWriter'
<1>1. TypeOK /\ AuditsInOrder
  BY DEF FindInv
<1>2. Unwritten \in [Keys -> Statuses \cup {NoRow}] /\ Undeleted \in [Keys -> SUBSET Audits]
  BY DEF Unwritten, Undeleted
<1>3. /\ at' \in [Audits -> {"idle", "persisting", "resolving", "silencing"}]
      /\ drafts' \in [Audits -> SUBSET Keys] /\ todo' \in [Audits -> SUBSET Keys]
      /\ looked' \in [Audits -> SUBSET [key : Keys, status : Statuses \cup {NoRow}]]
      /\ wrote' \in [Audits -> [Keys -> Statuses \cup {NoRow}]]
      /\ deleted' \in [Audits -> [Keys -> SUBSET Audits]]
      /\ matched' \in [Audits -> SUBSET Keys]
  BY <1>1, <1>2 DEF Leave, TypeOK
<1>4. at'[a] = "idle" /\ looked'[a] = {} /\ matched'[a] = {} /\ \A k \in Keys : wrote'[a][k] = NoRow
  BY <1>1 DEF Leave, TypeOK, Unwritten
<1>5. \A b \in Audits \ {a} : /\ at'[b] = at[b] /\ looked'[b] = looked[b] /\ matched'[b] = matched[b]
                              /\ wrote'[b] = wrote[b] /\ deleted'[b] = deleted[b]
  BY <1>1 DEF Leave, TypeOK
<1>6. AuditsInOrder'
  BY <1>1, <1>4, <1>5 DEF AuditsInOrder
<1>7. OneWriter'
  BY <1>1, <1>4, <1>5, TypesSayOneWriter DEF OneWriter
<1> QED BY <1>3, <1>4, <1>5, <1>6, <1>7

\* An audit that is cut off leaves the tables as they were.
LEMMA AbortKeeps ==
  ASSUME FindInv, NEW a \in Audits, Leave(a), aborted' = TRUE,
         UNCHANGED <<tables, lifted, unread>>, faults' \in 0 .. MaxFaults
  PROVE  FindInv'
<1>1. UNCHANGED <<status, reason, evidence, lifted, unread>>
  BY DEF tables
<1>2. TypeOK /\ LocksHold /\ MatchedExist
  BY DEF FindInv
<1>3. TypeOK'
  BY <1>1, <1>2, Leaving DEF TypeOK, OneWriter
<1>4. LocksHold' /\ MatchedExist'
  <2>1. /\ matched'[a] = {} /\ (\A k \in Keys : wrote'[a][k] = NoRow)
        /\ \A b \in Audits \ {a} : matched'[b] = matched[b] /\ wrote'[b] = wrote[b] /\ deleted'[b] = deleted[b]
    BY Leaving
  <2> QED BY <1>1, <1>2, <2>1 DEF LocksHold, MatchedExist
<1>5. EvidenceRight' /\ SuppressedIsExplained' /\ SilenceComes'
  BY <1>1 DEF FindInv, EvidenceRight, SuppressedIsExplained, SilenceComes
<1> QED BY <1>3, <1>4, <1>5, Leaving DEF FindInv

LEMMA CommitKeeps ==
  ASSUME FindInv, NEW a \in Audits, CommitDrafts(a)
  PROVE  FindInv'
<1>1. TypeOK /\ AuditsInOrder /\ LocksHold /\ MatchedExist /\ EvidenceRight /\ SuppressedIsExplained /\ SilenceComes
  BY DEF FindInv
<1>2. /\ at[a] = "persisting" /\ looked[a] = {}
      /\ wrote' = [wrote EXCEPT ![a] = Unwritten]
      /\ deleted' = [deleted EXCEPT ![a] = Undeleted]
      /\ at' = [at EXCEPT ![a] = "resolving"]
      /\ UNCHANGED <<reason, drafts, todo, looked, matched, lifted, unread, aborted, faults>>
  BY DEF CommitDrafts, history
<1>3. /\ status' = [k \in Keys |-> IF wrote[a][k] # NoRow THEN wrote[a][k] ELSE status[k]]
      /\ evidence' = [k \in Keys |-> IF wrote[a][k] # NoRow
                                       THEN (evidence[k] \ deleted[a][k]) \cup {a} ELSE evidence[k]]
  BY DEF CommitDrafts
<1>4. \A k \in Keys : IF wrote[a][k] # NoRow
                        THEN status'[k] = wrote[a][k] /\ evidence'[k] = {a}
                        ELSE status'[k] = status[k] /\ evidence'[k] = evidence[k]
  BY <1>1, <1>3 DEF LocksHold
<1>5. Unwritten \in [Keys -> Statuses \cup {NoRow}] /\ Undeleted \in [Keys -> SUBSET Audits]
  BY DEF Unwritten, Undeleted
<1>6. /\ at'[a] = "resolving" /\ (\A k \in Keys : wrote'[a][k] = NoRow)
      /\ \A b \in Audits \ {a} : at'[b] = at[b] /\ wrote'[b] = wrote[b] /\ deleted'[b] = deleted[b]
  BY <1>1, <1>2 DEF TypeOK, Unwritten
<1>7. TypeOK'
  <2>1. OneWriter'
    BY <1>1, <1>6, TypesSayOneWriter DEF OneWriter
  <2>2. status' \in [Keys -> Statuses \cup {NoRow}] /\ evidence' \in [Keys -> SUBSET Audits]
    BY <1>1, <1>3, <1>4 DEF TypeOK
  <2>3. /\ at' \in [Audits -> {"idle", "persisting", "resolving", "silencing"}]
        /\ wrote' \in [Audits -> [Keys -> Statuses \cup {NoRow}]]
        /\ deleted' \in [Audits -> [Keys -> SUBSET Audits]]
    BY <1>1, <1>2, <1>5 DEF TypeOK
  <2> QED BY <1>1, <1>2, <2>1, <2>2, <2>3 DEF TypeOK, OneWriter
<1>8. AuditsInOrder'
  BY <1>1, <1>2, <1>6 DEF AuditsInOrder
<1>9. LocksHold'
  <2>1. ASSUME NEW b \in Audits, NEW k \in Keys, wrote'[b][k] # NoRow
        PROVE  deleted'[b][k] = evidence'[k] /\ (wrote'[b][k] = "suppressed" => reason'[k])
    <3>1. b # a /\ wrote[b][k] # NoRow /\ wrote[a][k] = NoRow
      BY <1>1, <1>6, <2>1, TypesSayOneWriter DEF OneWriter
    <3> QED BY <1>1, <1>2, <1>4, <1>6, <2>1, <3>1 DEF LocksHold
  <2> QED BY <2>1 DEF LocksHold
<1>10. MatchedExist' /\ EvidenceRight'
  <2>1. \A b \in Audits : matched[b] \subseteq Keys
    BY <1>1 DEF TypeOK
  <2> QED BY <1>1, <1>2, <1>4, <2>1 DEF MatchedExist, EvidenceRight
<1>11. SuppressedIsExplained'
  BY <1>1, <1>2, <1>4 DEF SuppressedIsExplained, LocksHold
<1>12. SilenceComes'
  BY <1>6 DEF SilenceComes, WillSilence
<1> QED BY <1>7, <1>8, <1>9, <1>10, <1>11, <1>12 DEF FindInv

LEMMA ResolveKeeps ==
  ASSUME FindInv, NEW a \in Audits, ResolveMissing(a)
  PROVE  FindInv'
<1>1. TypeOK /\ AuditsInOrder /\ LocksHold /\ MatchedExist /\ EvidenceRight /\ SuppressedIsExplained /\ SilenceComes
  BY DEF FindInv
<1>2. /\ at[a] = "resolving" /\ at' = [at EXCEPT ![a] = "silencing"]
      /\ status' = [k \in Keys |-> IF k \in Missing(a) THEN "resolved" ELSE status[k]]
      /\ drafts' = [drafts EXCEPT ![a] = {}]
      /\ UNCHANGED <<reason, evidence, todo, looked, wrote, deleted, matched, lifted, unread, aborted, faults>>
  BY DEF ResolveMissing, history
<1>3. matched[a] = {} /\ looked[a] = {} /\ \A k \in Keys : wrote[a][k] = NoRow
  BY <1>1, <1>2, TypesSayOneWriter DEF AuditsInOrder, OneWriter
<1>4. at'[a] = "silencing" /\ \A b \in Audits \ {a} : at'[b] = at[b]
  BY <1>1, <1>2 DEF TypeOK
<1>5. /\ at' \in [Audits -> {"idle", "persisting", "resolving", "silencing"}]
      /\ drafts' \in [Audits -> SUBSET Keys] /\ status' \in [Keys -> Statuses \cup {NoRow}]
  BY <1>1, <1>2 DEF TypeOK, Statuses
<1>6. OneWriter'
  BY <1>1, <1>2, <1>3, <1>4, TypesSayOneWriter DEF OneWriter
<1>7. TypeOK'
  BY <1>1, <1>2, <1>5, <1>6 DEF TypeOK, OneWriter
<1>8. \A k \in Keys :
        \/ status'[k] = status[k]
        \/ status[k] \notin {NoRow, "suppressed"} /\ status'[k] = "resolved"
  <2>1. NoRow \notin {"new", "regressed"}
    BY StatusAssumption DEF Statuses
  <2>2. ASSUME NEW k \in Keys, k \in Missing(a)
        PROVE  status[k] \notin {NoRow, "suppressed"} /\ status'[k] = "resolved"
    BY <1>2, <2>1, <2>2 DEF Missing
  <2>3. ASSUME NEW k \in Keys, k \notin Missing(a) PROVE status'[k] = status[k]
    BY <1>2, <2>3
  <2> QED BY <2>2, <2>3
<1>9. NoRow # "resolved"
  BY StatusAssumption DEF Statuses
<1>10. AuditsInOrder' /\ LocksHold'
  BY <1>1, <1>2, <1>3, <1>4 DEF AuditsInOrder, LocksHold
<1>11. MatchedExist' /\ EvidenceRight' /\ SuppressedIsExplained'
  <2>1. \A b \in Audits : matched[b] \subseteq Keys
    BY <1>1 DEF TypeOK
  <2> QED BY <1>1, <1>2, <1>8, <1>9, <2>1 DEF MatchedExist, EvidenceRight, SuppressedIsExplained
<1>12. SilenceComes'
  BY <1>2, <1>3, <1>4 DEF SilenceComes, WillSilence
<1> QED BY <1>7, <1>10, <1>11, <1>12 DEF FindInv

LEMMA MatchKeeps ==
  ASSUME FindInv, NEW a \in Audits, MatchRules(a) \/ MatchInline(a)
  PROVE  FindInv'
<1>1. TypeOK /\ AuditsInOrder /\ LocksHold /\ MatchedExist /\ SilenceComes
  BY DEF FindInv
<1>2. PICK rules \in {Silenced, Inline} :
        /\ Match(a, rules)
        /\ \/ rules = Silenced /\ unread' = {}
           \/ rules = Inline /\ unread' = unread \cup (ToSilence(Silenced) \ Inline)
  BY DEF MatchRules, MatchInline
<1> DEFINE hushed == ToSilence(rules)
<1>3. /\ at[a] = "silencing" /\ matched[a] = {}
      /\ matched' = [matched EXCEPT ![a] = hushed]
      /\ at' = [at EXCEPT ![a] = IF hushed = {} THEN "idle" ELSE "silencing"]
      /\ UNCHANGED <<status, reason, evidence, drafts, todo, looked, wrote, deleted, lifted, aborted>>
  BY <1>2 DEF Match, tables
<1>4. faults' \in 0 .. MaxFaults /\ unread' \subseteq Silenced \ Inline
  <2>1. faults' \in 0 .. MaxFaults
    BY <1>1, BoundAssumption DEF MatchRules, MatchInline, TypeOK
  <2> QED BY <1>1, <1>2, <2>1 DEF TypeOK, ToSilence
<1>5. /\ hushed \subseteq Keys /\ \A k \in hushed : status[k] # NoRow
      /\ \A k \in Silenced : status[k] \notin {NoRow, "suppressed"} => k \in hushed \/ k \in unread'
  BY <1>2, RuleAssumption DEF ToSilence
<1> HIDE DEF hushed
<1>6. looked[a] = {} /\ \A k \in Keys : wrote[a][k] = NoRow
  BY <1>1, <1>3, TypesSayOneWriter DEF AuditsInOrder, OneWriter
<1>7. /\ at'[a] = (IF hushed = {} THEN "idle" ELSE "silencing") /\ matched'[a] = hushed
      /\ \A b \in Audits \ {a} : at'[b] = at[b] /\ matched'[b] = matched[b]
  BY <1>1, <1>3 DEF TypeOK
<1>8. /\ at' \in [Audits -> {"idle", "persisting", "resolving", "silencing"}]
      /\ matched' \in [Audits -> SUBSET Keys]
  BY <1>1, <1>3, <1>5 DEF TypeOK
<1>9. OneWriter'
  BY <1>1, <1>3, <1>6, <1>7, TypesSayOneWriter DEF OneWriter
<1>10. TypeOK'
  BY <1>1, <1>3, <1>4, <1>8, <1>9 DEF TypeOK, OneWriter
<1>11. AuditsInOrder' /\ LocksHold' /\ MatchedExist'
  BY <1>1, <1>3, <1>5, <1>6, <1>7 DEF AuditsInOrder, LocksHold, MatchedExist
<1>12. EvidenceRight' /\ SuppressedIsExplained'
  BY <1>3 DEF FindInv, EvidenceRight, SuppressedIsExplained
<1>13. SilenceComes'
  <2>1. ASSUME NEW k \in Silenced \ lifted, status[k] \notin {NoRow, "suppressed"}, k \notin unread'
        PROVE  WillSilence(a, k)'
    BY <1>5, <1>7, <2>1 DEF WillSilence
  <2> QED BY <1>3, <2>1 DEF SilenceComes
<1> QED BY <1>10, <1>11, <1>12, <1>13 DEF FindInv

LEMMA ApplyKeeps ==
  ASSUME FindInv, NEW a \in Audits, ApplyRules(a)
  PROVE  FindInv'
<1>1. TypeOK /\ AuditsInOrder /\ LocksHold /\ MatchedExist /\ EvidenceRight /\ SuppressedIsExplained /\ SilenceComes
  BY DEF FindInv
<1>2. /\ matched[a] # {} /\ matched[a] \subseteq Keys
      /\ status' = [k \in Keys |-> IF k \in matched[a] THEN "suppressed" ELSE status[k]]
      /\ reason' = [k \in Keys |-> k \in matched[a] \/ reason[k]]
      /\ UNCHANGED <<evidence, lifted, unread, aborted, faults>>
  BY <1>1 DEF ApplyRules, history, TypeOK
<1>3. Leave(a)
  BY DEF ApplyRules
<1>4. status' \in [Keys -> Statuses \cup {NoRow}] /\ reason' \in [Keys -> BOOLEAN]
  BY <1>1, <1>2 DEF TypeOK, Statuses
<1>5. TypeOK'
  BY <1>1, <1>2, <1>3, <1>4, Leaving DEF TypeOK, OneWriter
<1>6. /\ matched'[a] = {} /\ (\A k \in Keys : wrote'[a][k] = NoRow)
      /\ \A b \in Audits \ {a} : /\ at'[b] = at[b] /\ matched'[b] = matched[b]
                                 /\ wrote'[b] = wrote[b] /\ deleted'[b] = deleted[b]
  BY <1>3, Leaving
<1>7. LocksHold'
  <2>1. \A k \in Keys : reason[k] => reason'[k]
    BY <1>2
  <2>2. evidence' = evidence
    BY <1>2
  <2> QED BY <1>1, <1>6, <2>1, <2>2 DEF LocksHold
<1>8. NoRow # "suppressed"
  BY StatusAssumption DEF Statuses
<1>9. MatchedExist' /\ EvidenceRight' /\ SuppressedIsExplained'
  <2>1. \A b \in Audits : matched[b] \subseteq Keys
    BY <1>1 DEF TypeOK
  <2>2. \A k \in Keys : status'[k] = NoRow <=> status[k] = NoRow
    BY <1>1, <1>2, <1>8 DEF MatchedExist
  <2> QED BY <1>1, <1>2, <1>6, <2>1, <2>2 DEF MatchedExist, EvidenceRight, SuppressedIsExplained
<1>10. SilenceComes'
  <2>1. ASSUME ~aborted, NEW k \in Silenced \ lifted, k \notin unread, status'[k] \notin {NoRow, "suppressed"}
        PROVE  \E b \in Audits : WillSilence(b, k)'
    <3>1. k \in Keys /\ k \notin matched[a] /\ status[k] = status'[k]
      BY <1>2, <2>1, RuleAssumption
    <3>2. PICK b \in Audits : WillSilence(b, k)
      BY <1>1, <2>1, <3>1 DEF SilenceComes
    <3>3. b # a
      BY <1>1, <1>2, <3>1, <3>2 DEF WillSilence, AuditsInOrder
    <3>4. WillSilence(b, k)'
      BY <1>6, <3>2, <3>3 DEF WillSilence
    <3> QED BY <3>4
  <2> QED BY <1>2, <2>1 DEF SilenceComes
<1> QED BY <1>3, <1>5, <1>7, <1>9, <1>10, Leaving DEF FindInv

\* The user's commands, on a finding that no audit has written.
LEMMA UserKeeps ==
  ASSUME FindInv, NEW k \in Keys, Suppress(k) \/ Unsuppress(k)
  PROVE  FindInv'
<1>1. TypeOK /\ AuditsInOrder /\ LocksHold /\ MatchedExist /\ EvidenceRight /\ SuppressedIsExplained /\ SilenceComes
  BY DEF FindInv
<1>2. /\ status[k] # NoRow /\ \A a \in Audits : wrote[a][k] = NoRow
      /\ UNCHANGED <<evidence, at, drafts, todo, looked, wrote, deleted, matched, unread, aborted, faults>>
  BY StatusAssumption DEF Suppress, Unsuppress, audits, history, Statuses
<1>3. \/ /\ status' = [status EXCEPT ![k] = "suppressed"] /\ reason' = [reason EXCEPT ![k] = TRUE]
         /\ lifted' = lifted
      \/ /\ status' = [status EXCEPT ![k] = "new"] /\ reason' = [reason EXCEPT ![k] = FALSE]
         /\ lifted' = lifted \cup {k}
  BY DEF Suppress, Unsuppress, history
<1>4. status' \in [Keys -> Statuses \cup {NoRow}] /\ reason' \in [Keys -> BOOLEAN] /\ lifted' \subseteq Keys
  BY <1>1, <1>3 DEF TypeOK, Statuses
<1>5. TypeOK'
  BY <1>1, <1>2, <1>4 DEF TypeOK
<1>6. \/ status'[k] = "suppressed" /\ reason'[k] = TRUE
      \/ status'[k] = "new" /\ k \in lifted'
  BY <1>1, <1>3 DEF TypeOK
<1>7. lifted \subseteq lifted' /\ \A j \in Keys \ {k} : status'[j] = status[j] /\ reason'[j] = reason[j]
  BY <1>1, <1>3 DEF TypeOK
<1>8. "new" # "suppressed" /\ NoRow \notin {"new", "suppressed"}
  BY StatusAssumption DEF Statuses
<1>9. AuditsInOrder' /\ LocksHold'
  BY <1>1, <1>2, <1>7 DEF AuditsInOrder, LocksHold
<1>10. MatchedExist' /\ EvidenceRight' /\ SuppressedIsExplained'
  <2>1. \A b \in Audits : matched[b] \subseteq Keys
    BY <1>1 DEF TypeOK
  <2> QED BY <1>1, <1>2, <1>6, <1>7, <1>8, <2>1 DEF MatchedExist, EvidenceRight, SuppressedIsExplained
<1>11. SilenceComes'
  <2>1. ASSUME ~aborted, NEW j \in Silenced \ lifted', j \notin unread, status'[j] \notin {NoRow, "suppressed"}
        PROVE  \E b \in Audits : WillSilence(b, j)'
    <3>1. j \in Keys /\ j # k /\ j \in Silenced \ lifted /\ status[j] = status'[j]
      BY <1>6, <1>7, <2>1, RuleAssumption
    <3> QED BY <1>1, <1>2, <2>1, <3>1 DEF SilenceComes, WillSilence
  <2> QED BY <1>2, <2>1 DEF SilenceComes
<1> QED BY <1>5, <1>9, <1>10, <1>11 DEF FindInv

\* Every step preserves the invariant.
LEMMA FindInductive == FindInv /\ [Next]_vars => FindInv'
<1> SUFFICES ASSUME FindInv, [Next]_vars PROVE FindInv'
  OBVIOUS
<1>1. ASSUME NEW a \in Audits, AuditStep(a) PROVE FindInv'
  <2>1. CASE \E l \in looked[a] : WriteRaises(a, l)
    <3>1. Leave(a) /\ aborted' = TRUE /\ UNCHANGED <<tables, lifted, unread>> /\ faults' \in 0 .. MaxFaults
      BY <2>1 DEF WriteRaises, FindInv, TypeOK
    <3> QED BY <3>1, AbortKeeps
  <2> QED BY <1>1, <2>1, DetectorsKeep, LookUpKeeps, WriteDraftKeeps, CommitKeeps, ResolveKeeps, MatchKeeps,
        ApplyKeeps DEF AuditStep
<1>2. ASSUME NEW a \in Audits, Deadlocked(a) \/ CutShort(a) PROVE FindInv'
  <2>1. Leave(a) /\ aborted' = TRUE /\ UNCHANGED <<tables, lifted, unread>> /\ faults' \in 0 .. MaxFaults
    BY <1>2, BoundAssumption DEF Deadlocked, CutShort, FindInv, TypeOK
  <2> QED BY <2>1, AbortKeeps
<1>3. CASE UNCHANGED vars
  <2>1. UNCHANGED <<status, reason, evidence, at, drafts, todo, looked, wrote, deleted, matched, lifted, unread, aborted, faults>>
    BY <1>3 DEF vars, tables, audits, history
  <2>2. TypeOK' /\ AuditsInOrder' /\ LocksHold' /\ MatchedExist'
    BY <2>1 DEF FindInv, TypeOK, AuditsInOrder, LocksHold, MatchedExist
  <2>3. EvidenceRight' /\ SuppressedIsExplained' /\ SilenceComes'
    BY <2>1 DEF FindInv, EvidenceRight, SuppressedIsExplained, SilenceComes, WillSilence
  <2> QED BY <2>2, <2>3 DEF FindInv
<1> QED BY <1>1, <1>2, <1>3, UserKeeps DEF Next

-----------------------------------------------------------------------------
LEMMA FindInvHolds == Spec => []FindInv
BY FindInitially, FindInductive, PTL DEF Spec

\* The types; and no two audits hold uncommitted writes of the same finding.
THEOREM FindingsTypeCorrect == Spec => []TypeOK
<1>1. FindInv => TypeOK
  BY DEF FindInv
<1> QED BY FindInvHolds, <1>1, PTL

\* A finding has the evidence of the audit that wrote it last and of no other: persist_findings
\* writes the row of finding first, and so holds its lock when it replaces the evidence.
THEOREM EvidenceIsOfOneAudit == Spec => []EvidenceOfOneAudit
<1>1. FindInv => EvidenceOfOneAudit
  BY FS_EmptySet, FS_Singleton DEF FindInv, EvidenceRight, EvidenceOfOneAudit
<1> QED BY FindInvHolds, <1>1, PTL

\* A suppressed finding has the record of why, which a stale write of an audit cannot break.
THEOREM SuppressionsHaveReasons == Spec => []SuppressedIsExplained
<1>1. FindInv => SuppressedIsExplained
  BY DEF FindInv
<1> QED BY FindInvHolds, <1>1, PTL

\* Once the audits are over and none was cut short, what a rule of the repository matches is
\* suppressed, but where the user has taken that back or an audit that could not read
\* .cadenceignore has left it open and none has read it since: each audit looks for what its
\* rules match after its writes.
THEOREM RulesHoldInTheEnd == Spec => []RulesHold
<1>1. FindInv => RulesHold
  BY DEF FindInv, SilenceComes, WillSilence, RulesHold
<1> QED BY FindInvHolds, <1>1, PTL

\* A suppression goes by the user's command or by the write of an audit that had looked the
\* finding up before, never by resolve_missing or by the rules.
THEOREM SuppressionsAreRespected == Spec => SuppressionIsRespected
<1>1. FindInv /\ [Next]_vars =>
        [\A k \in Keys : (status[k] = "suppressed" /\ status'[k] # "suppressed")
            => Unsuppress(k) \/ \E a \in Audits : wrote[a][k] \notin {NoRow, "suppressed"}]_vars
  <2> SUFFICES ASSUME FindInv, Next, NEW k \in Keys, status[k] = "suppressed", status'[k] # "suppressed"
               PROVE  Unsuppress(k) \/ \E a \in Audits : wrote[a][k] \notin {NoRow, "suppressed"}
    OBVIOUS
  <2>1. \/ status' = status
        \/ \E a \in Audits : CommitDrafts(a) \/ ResolveMissing(a) \/ ApplyRules(a)
        \/ \E j \in Keys : Suppress(j) \/ Unsuppress(j)
    BY DEF Next, AuditStep, RunDetectors, LookUp, WriteDraft, WriteRaises, MatchRules, MatchInline, Match, Deadlocked, CutShort, tables
  <2>2. CASE \E a \in Audits : CommitDrafts(a)
    <3>1. PICK a \in Audits : CommitDrafts(a)
      BY <2>2
    <3>2. status'[k] = IF wrote[a][k] # NoRow THEN wrote[a][k] ELSE status[k]
      BY <3>1 DEF CommitDrafts
    <3> QED BY <3>2
  <2>3. CASE \E a \in Audits : ResolveMissing(a) \/ ApplyRules(a)
    BY <2>3 DEF ResolveMissing, Missing, ApplyRules
  <2>4. CASE \E j \in Keys : Suppress(j) \/ Unsuppress(j)
    BY <2>4 DEF Suppress, Unsuppress, FindInv, TypeOK
  <2> QED BY <2>1, <2>2, <2>3, <2>4
<1> QED BY FindInvHolds, <1>1, PTL DEF Spec, SuppressionIsRespected
=============================================================================
