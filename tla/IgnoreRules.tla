----------------------------- MODULE IgnoreRules -----------------------------
(***************************************************************************)
(* What the repository says it does not want to hear: the targets of its   *)
(* .cadenceignore and of its inline comments, the rows an audit suppresses *)
(* for them, and the fix preview, which asks both.                         *)
(*                                                                         *)
(* A target is <<rule>>, <<rule, path>> or <<rule, path, job>>, with       *)
(* "" for a part that is left empty; an inline comment is a <<rule, path>> *)
(* of the file it stands in.  A finding is its kind and the parts of its   *)
(* dedupe key.                                                             *)
(***************************************************************************)
EXTENDS Naturals, Sequences, FiniteSets, SequencesExt, FiniteSetsExt

CONSTANTS
  Keys,      \* findings: records of kind and parts
  Targets    \* what a maintainer may declare, in the order of the file

ASSUME IgnoreAssumption ==
  /\ DOMAIN Targets \subseteq Nat /\ \A k \in Keys : k.parts \in Seq(STRING)
  /\ \A n \in DOMAIN Targets : Targets[n] \in Seq(STRING) /\ Len(Targets[n]) \in 1 .. 3 /\ Targets[n][1] # ""

VARIABLES
  declared,   \* the targets in the repository, by number
  silenced,   \* [findings that are suppressed -> the target, or <<"cli">>]
  current     \* the targets the last audit read

ignoreVars == <<declared, silenced, current>>

IgnoreTypeOK ==
  /\ declared \subseteq DOMAIN Targets /\ current \subseteq DOMAIN Targets
  /\ DOMAIN silenced \subseteq Keys
  /\ \A k \in DOMAIN silenced : silenced[k] \in Range(Targets) \cup {<<"cli">>}

IgnoreInit == declared = {} /\ silenced = <<>> /\ current = {}

-----------------------------------------------------------------------------
PartOf(t, n) == IF n <= Len(t) THEN t[n] ELSE ""

\* Mutant of Matches: a path is compared where the job is.
MatchesShifted(t, key) ==
  /\ t[1] = key.kind
  /\ PartOf(t, 2) = "" \/ (Len(key.parts) > 2 /\ PartOf(t, 2) = key.parts[3])

\* Rule.matches: the kind, and the path and the job anywhere among the parts of the key; without a
\* path the job is not asked.
Matches(t, key) ==
  /\ t[1] = key.kind
  /\ \/ PartOf(t, 2) = ""
     \/ PartOf(t, 2) \in ToSet(key.parts) /\ PartOf(t, 3) \in ToSet(key.parts) \cup {""}

\* Rule.scope.
ScopeOf(t) ==
  CASE t = <<"cli">> \/ PartOf(t, 3) # ""     -> "finding"
    [] PartOf(t, 3) = "" /\ PartOf(t, 2) # "" -> "rule_path"
    [] OTHER                                  -> "rule_repo"

\* _matches_suppression: a stored row and another finding.
RowMatches(row, key) ==
  /\ row.kind = key.kind
  /\ CASE ScopeOf(silenced[row]) = "rule_repo" -> TRUE
       [] ScopeOf(silenced[row]) = "rule_path" -> SubSeq(row.parts, 1, 2) = SubSeq(key.parts, 1, 2)
       [] OTHER -> row = key

\* The preview declines what a row silences, and what the fixer's own reading of the policy does.
\* (It proposes fixes of one kind of finding; of the others the same rows and rules are asked.)
Declined(key) ==
  (\E row \in DOMAIN silenced : RowMatches(row, key)) \/ (\E n \in declared : Matches(Targets[n], key))

-----------------------------------------------------------------------------
Declare(n) ==
  /\ n \notin declared /\ declared' = declared \cup {n}
  /\ UNCHANGED <<silenced, current>>

Withdraw(n) ==
  /\ n \in declared /\ declared' = declared \ {n}
  /\ UNCHANGED <<silenced, current>>

\* collect and apply: each finding takes the first target that matches, if it is not suppressed
\* already; nothing is taken back.
AuditPolicy ==
  /\ LET hits(k) == {n \in declared : Matches(Targets[n], k)}
         new     == {k \in Keys \ DOMAIN silenced : hits(k) # {}}
     IN  silenced' = [k \in new \cup DOMAIN silenced |-> IF k \in new THEN Targets[Min(hits(k))] ELSE silenced[k]]
  /\ current' = declared
  /\ UNCHANGED declared

SuppressFinding(k) ==
  /\ silenced' = [j \in DOMAIN silenced \cup {k} |-> IF j = k THEN <<"cli">> ELSE silenced[j]]
  /\ UNCHANGED <<declared, current>>

Unsuppress(k) ==
  /\ k \in DOMAIN silenced
  /\ silenced' = [j \in DOMAIN silenced \ {k} |-> silenced[j]]
  /\ current' = {}
  /\ UNCHANGED declared

IgnoreNext ==
  \/ \E n \in DOMAIN Targets : Declare(n) \/ Withdraw(n)
  \/ AuditPolicy
  \/ \E k \in Keys : SuppressFinding(k) \/ Unsuppress(k)

IgnoreSpec == IgnoreInit /\ [][IgnoreNext]_ignoreVars

-----------------------------------------------------------------------------
(* Properties. *)

\* The parts that were given, in their places.
Names(t, key) ==
  /\ t[1] = key.kind
  /\ \A n \in 2 .. Len(t) : t[n] = "" \/ (n <= Len(key.parts) /\ t[n] = key.parts[n])

\* What the repository names is not proposed, at once, and is suppressed from the audit that read
\* it on, whatever is declared or withdrawn beside it (suppress.py: a maintainer who declined is
\* not asked again).
PolicyIsHonoured ==
  \A k \in Keys :
    /\ \A n \in declared : Names(Targets[n], k) => Declined(k)
    /\ \A n \in current : Names(Targets[n], k) => k \in DOMAIN silenced

=============================================================================
