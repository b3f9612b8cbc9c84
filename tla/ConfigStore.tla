----------------------------- MODULE ConfigStore ------------------------------
(***************************************************************************)
(* workflow_snapshot: what store_snapshot records of the workflow files    *)
(* that an audit has read, while people edit them and other audits store.  *)
(* A store is one READ COMMITTED transaction of many statements: what it   *)
(* writes is a draft until it commits, a row that another open store has   *)
(* written is waited for, and the time of all of it is that of its begin.  *)
(* No two stores begin in the same microsecond.  A row of workflow_blob is *)
(* only ever added, and lasts: stores may wait for each other there too,   *)
(* which is a pause, or a deadlock that rolls one back.                    *)
(***************************************************************************)
EXTENDS Naturals, FiniteSets

CONSTANTS
  Paths,      \* by their place in the sorted order
  Texts,      \* the contents a workflow file may have
  Absent,     \* that of a file that is not there
  Auditors,
  MaxEdits, MaxAudits

ASSUME ConfigAssumption ==
  Paths \subseteq Nat /\ Absent \notin Texts /\ MaxEdits \in Nat /\ MaxAudits \in Nat

VARIABLES
  file,       \* the files of the default branch
  snapshot,   \* the committed rows of workflow_snapshot, by path and content
  clock,      \* counts the stores that began: the time of one
  read,       \* the files each audit has read
  began,      \* the time of each audit's open store, 0 when it has none
  pending,    \* the paths that are left to it
  had,        \* the path between SELECT and INSERT, and had_other
  draft,      \* the row it has written of each path
  changed,    \* the paths it counts as changed
  changes,    \* history: how often committed stores counted each path as changed
  stored,     \* history: what committed stores had read of each path, and their times
  backwards,  \* history: the paths whose newest row was last touched by an older store
  overlapped, \* history: the paths that two open stores held at once
  edits

configVars ==
  <<file, snapshot, clock, read, began, pending, had, draft, changed, changes, stored, backwards, overlapped, edits>>

storeVars == <<snapshot, changes, stored, backwards>>

None == [first |-> 0, last |-> 0]
Row == [first : Nat, last : Nat]
NoFiles == [p \in Paths |-> Absent]
NoDraft == [p \in Paths |-> None]

ConfigTypeOK ==
  /\ file \in [Paths -> Texts \cup {Absent}]
  /\ snapshot \in [Paths -> [Texts -> Row]]
  /\ clock \in 0 .. MaxAudits
  /\ read \in [Auditors -> [Paths -> Texts \cup {Absent}]]
  /\ began \in [Auditors -> 0 .. MaxAudits]
  /\ pending \in [Auditors -> SUBSET Paths]
  /\ had \in [Auditors -> SUBSET [path : Paths, other : BOOLEAN]]
  /\ draft \in [Auditors -> [Paths -> Row]]
  /\ changed \in [Auditors -> SUBSET Paths]
  /\ changes \in [Paths -> Nat]
  /\ stored \in [Paths -> SUBSET [time : Nat, text : Texts]]
  /\ backwards \subseteq Paths /\ overlapped \subseteq Paths
  /\ edits \in 0 .. MaxEdits

ConfigInit ==
  /\ file \in [Paths -> Texts \cup {Absent}]
  /\ snapshot = [p \in Paths |-> [t \in Texts |-> None]] /\ clock = 0
  /\ read = [a \in Auditors |-> NoFiles] /\ began = [a \in Auditors |-> 0]
  /\ pending = [a \in Auditors |-> {}] /\ had = [a \in Auditors |-> {}]
  /\ draft = [a \in Auditors |-> NoDraft] /\ changed = [a \in Auditors |-> {}]
  /\ changes = [p \in Paths |-> 0] /\ stored = [p \in Paths |-> {}]
  /\ backwards = {} /\ overlapped = {} /\ edits = 0

Present(f) == {p \in Paths : f[p] # Absent}

-----------------------------------------------------------------------------
EditFile(p, t) ==
  /\ edits < MaxEdits /\ t # file[p]
  /\ edits' = edits + 1
  /\ file' = [file EXCEPT ![p] = t]
  /\ UNCHANGED <<storeVars, clock, read, began, pending, had, draft, changed, overlapped>>

\* fetch_workflow_files.  Without any there is no audit.
ReadFiles(a) ==
  /\ read[a] = NoFiles /\ Present(file) # {}
  /\ read' = [read EXCEPT ![a] = file]
  /\ UNCHANGED <<file, storeVars, clock, began, pending, had, draft, changed, overlapped, edits>>

\* The first statement: now() is the time of it for all that follow.
BeginStore(a) ==
  /\ read[a] # NoFiles /\ began[a] = 0 /\ clock < MaxAudits
  /\ clock' = clock + 1
  /\ began' = [began EXCEPT ![a] = clock']
  /\ pending' = [pending EXCEPT ![a] = Present(read[a])]
  /\ overlapped' = overlapped \cup
       {p \in Present(read[a]) : \E b \in Auditors : began[b] # 0 /\ read[b][p] # Absent}
  /\ UNCHANGED <<file, storeVars, read, had, draft, changed, edits>>

\* SELECT 1 ... content_sha <> ...: committed rows alone, as its own are of other paths.
SelectOther(a, p) ==
  /\ had[a] = {} /\ p \in pending[a] /\ \A q \in pending[a] : p <= q
  /\ pending' = [pending EXCEPT ![a] = @ \ {p}]
  /\ had' = [had EXCEPT ![a] =
       {[path |-> p, other |-> \E t \in Texts \ {read[a][p]} : snapshot[p][t] # None]}]
  /\ UNCHANGED <<file, storeVars, clock, read, began, draft, changed, overlapped, edits>>

\* Mutants of Upserted: a row found again keeps its last_seen; or is as if new.
UpsertedOnce(r, now) == IF r = None THEN [first |-> now, last |-> now] ELSE r
UpsertedAfresh(r, now) == [first |-> now, last |-> now]

\* INSERT ... ON CONFLICT (repo_id, path, content_sha) DO UPDATE SET last_seen = now().
Upserted(r, now) == IF r = None THEN [first |-> now, last |-> now] ELSE [r EXCEPT !.last = now]

\* RETURNING xmax = 0: no row was there.  Another open store's row of the same key is waited for.
StorePath(a, h) ==
  LET p == h.path
      t == read[a][p]
  IN  /\ h \in had[a]
      /\ \A b \in Auditors \ {a} : ~ (read[b][p] = t /\ draft[b][p] # None)
      /\ had' = [had EXCEPT ![a] = {}]
      /\ draft' = [draft EXCEPT ![a][p] = Upserted(snapshot[p][t], began[a])]
      /\ changed' = [changed EXCEPT ![a] = IF h.other /\ snapshot[p][t] = None THEN @ \cup {p} ELSE @]
      /\ UNCHANGED <<file, storeVars, clock, read, began, pending, overlapped, edits>>

\* A store that began later has been committed, or has one with what was read last.
Late(p, now) == \E s \in stored[p] : now < s.time
LastRead(p, t) == \E s \in stored[p] : s.text = t /\ \A r \in stored[p] : r.time <= s.time

EndStore(a) ==
  /\ read' = [read EXCEPT ![a] = NoFiles] /\ began' = [began EXCEPT ![a] = 0]
  /\ pending' = [pending EXCEPT ![a] = {}] /\ had' = [had EXCEPT ![a] = {}]
  /\ draft' = [draft EXCEPT ![a] = NoDraft] /\ changed' = [changed EXCEPT ![a] = {}]
  /\ UNCHANGED <<file, clock, overlapped, edits>>

\* Every file that was read, none of those that are gone.
CommitStore(a) ==
  /\ began[a] # 0 /\ pending[a] = {} /\ had[a] = {}
  /\ snapshot' = [p \in Paths |-> [t \in Texts |-> IF t = read[a][p] THEN draft[a][p] ELSE snapshot[p][t]]]
  /\ changes' = [p \in Paths |-> IF p \in changed[a] THEN changes[p] + 1 ELSE changes[p]]
  /\ stored' = [p \in Paths |->
       IF read[a][p] = Absent THEN stored[p]
       ELSE stored[p] \cup {[time |-> began[a], text |-> read[a][p]]}]
  /\ backwards' = {p \in Paths :
       IF read[a][p] = Absent THEN p \in backwards
       ELSE Late(p, began[a]) /\ (p \in backwards \/ LastRead(p, read[a][p]))}
  /\ EndStore(a)

\* A failed statement, a deadlock or a crash: rolled back, and no audit comes of it.
AbortStore(a) ==
  /\ began[a] # 0
  /\ EndStore(a) /\ UNCHANGED storeVars

ConfigNext ==
  \/ \E p \in Paths, t \in Texts \cup {Absent} : EditFile(p, t)
  \/ \E a \in Auditors :
       \/ ReadFiles(a) \/ BeginStore(a) \/ CommitStore(a) \/ AbortStore(a)
       \/ \E p \in Paths : SelectOther(a, p)
       \/ \E h \in had[a] : StorePath(a, h)

ConfigSpec == ConfigInit /\ [][ConfigNext]_configVars

-----------------------------------------------------------------------------
\* history, for one path: the rows, by first_seen.
Versions(p) == {t \in Texts : snapshot[p][t] # None}

\* load_latest, for one path: the row last seen.
Latest(p) == CHOOSE t \in Versions(p) : \A u \in Versions(p) : snapshot[p][u].last <= snapshot[p][t].last

(* Properties. *)

\* load_latest gives of each path what the newest store had read there, also of a file that went
\* back to an earlier content, and of one that is gone what it was; unless a store that began
\* earlier came after it with the same content and put its last_seen back to its own begin.
LatestIsLastRead ==
  \A p \in Paths : stored[p] # {} /\ p \notin backwards => LastRead(p, Latest(p))

\* history has the contents that committed stores met of a path, all of them and no other, and
\* more of them than stores counted changes of it.  Unless two stores of the path were open at
\* once, they stand in the order in which they were first met, and every content but the first
\* was counted: two that overlap miss each other's rows, and both count none.
HistoryIsWhatWasSeen ==
  \A p \in Paths :
    /\ Versions(p) = {s.text : s \in stored[p]}
    /\ Versions(p) # {} => changes[p] < Cardinality(Versions(p))
    /\ p \notin overlapped =>
         /\ Versions(p) # {} => changes[p] = Cardinality(Versions(p)) - 1
         /\ \A r, s \in stored[p] :
              snapshot[p][r.text].first < snapshot[p][s.text].first
                => \E q \in stored[p] : q.text = r.text /\ q.time < s.time
=============================================================================
