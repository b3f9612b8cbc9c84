---------------------------- MODULE PreviewCache ------------------------------
(***************************************************************************)
(* The snapshots of `cadence fix preview`: capture_source reads a          *)
(* repository at one commit, PreviewSource.save writes what it got to a    *)
(* file named for the commit, and --snapshot loads it later.  Each         *)
(* previewer is a process; all are about the same commit.                  *)
(***************************************************************************)
EXTENDS Files

CONSTANTS
  Workflows,    \* the workflow files of the commit
  MaxFailures   \* bound on files that cannot be read and processes that die

\* The file of the commit, and the temporary next to it, the same for all.
Target == <<"snapshot">>
Temporary == <<"snapshot.tmp">>

ASSUME PreviewAssumption ==
  Contents = SUBSET Workflows /\ {Target, Temporary} \subseteq Names /\ MaxFailures \in Nat

VARIABLES
  step,      \* where each previewer is
  scope,     \* the workflows it captures: all, or the one of --workflow
  source,    \* those it has read so far
  overlap,   \* history: two previewers have been at save together
  last,      \* history: what the last save that returned wrote
  failures

previewVars == <<fileVars, step, scope, source, overlap, last, failures>>

Saving == {"saving", "writing", "replacing"}

PreviewTypeOK ==
  /\ FilesTypeOK
  /\ step \in [Writers -> Saving \cup {"idle", "capturing"}]
  /\ scope \in [Writers -> SUBSET Workflows]
  /\ source \in [Writers -> SUBSET Workflows]
  /\ overlap \in BOOLEAN
  /\ last \in Contents \cup {Torn}
  /\ failures \in 0 .. MaxFailures

PreviewInit ==
  /\ FilesInit
  /\ step = [w \in Writers |-> "idle"]
  /\ scope = [w \in Writers |-> {}]
  /\ source = [w \in Writers |-> {}]
  /\ overlap = FALSE /\ last = Torn /\ failures = 0

-----------------------------------------------------------------------------
EndPreview(w) ==
  /\ step' = [step EXCEPT ![w] = "idle"]
  /\ scope' = [scope EXCEPT ![w] = {}]
  /\ source' = [source EXCEPT ![w] = {}]

\* fetch_file_inventory pins the ref to a commit and lists its tree, or SourceUnavailable ends
\* the preview; --workflow must be in the list.
StartPreview(w) ==
  /\ step[w] = "idle"
  /\ \E s \in {Workflows} \cup {{p} : p \in Workflows} : scope' = [scope EXCEPT ![w] = s]
  /\ step' = [step EXCEPT ![w] = "capturing"]
  /\ UNCHANGED <<fileVars, source, overlap, last, failures>>

\* One workflow file, read at the pinned commit.
CaptureFile(w, p) ==
  /\ step[w] = "capturing" /\ p \in scope[w] \ source[w]
  /\ source' = [source EXCEPT ![w] = @ \cup {p}]
  /\ UNCHANGED <<fileVars, step, scope, overlap, last, failures>>

\* A workflow file or .cadenceignore that cannot be read: SourceUnavailable, and nothing saved.
CaptureFails(w) ==
  /\ step[w] = "capturing" /\ failures < MaxFailures
  /\ failures' = failures + 1
  /\ EndPreview(w)
  /\ UNCHANGED <<fileVars, overlap, last>>

\* Every file of the scope has been read; the manifests of actions are best effort.
CaptureDone(w) ==
  /\ step[w] = "capturing" /\ source[w] = scope[w]
  /\ step' = [step EXCEPT ![w] = "saving"]
  /\ overlap' = (overlap \/ \E v \in Writers : step[v] \in Saving)
  /\ UNCHANGED <<fileVars, scope, source, last, failures>>

\* Mutant of OpenSnapshot: no temporary.
OpenInPlace(w) ==
  /\ step[w] = "saving"
  /\ OpenFile(w, Target)
  /\ step' = [step EXCEPT ![w] = "writing"]
  /\ UNCHANGED <<scope, source, overlap, last, failures>>

OpenSnapshot(w) ==
  /\ step[w] = "saving"
  /\ OpenFile(w, Temporary)
  /\ step' = [step EXCEPT ![w] = "writing"]
  /\ UNCHANGED <<scope, source, overlap, last, failures>>

WriteSnapshot(w) ==
  /\ step[w] = "writing"
  /\ WriteFile(w, source[w])
  /\ step' = [step EXCEPT ![w] = "replacing"]
  /\ UNCHANGED <<scope, source, overlap, last, failures>>

ReplaceSnapshot(w) ==
  /\ step[w] = "replacing"
  /\ Rename(w, Temporary, Target)
  /\ last' = source[w]
  /\ EndPreview(w)
  /\ UNCHANGED <<overlap, failures>>

\* FileNotFoundError: another previewer has renamed the temporary.
ReplaceFails(w) ==
  /\ step[w] = "replacing" /\ ~Exists(Temporary)
  /\ Close(w)
  /\ EndPreview(w)
  /\ UNCHANGED <<overlap, last, failures>>

\* Ctrl-C, a full disk: save has no finally, so the temporary stays.
PreviewDies(w) ==
  /\ step[w] \in Saving /\ failures < MaxFailures
  /\ failures' = failures + 1
  /\ Close(w)
  /\ EndPreview(w)
  /\ UNCHANGED <<overlap, last>>

PreviewNext ==
  \E w \in Writers :
    \/ StartPreview(w) \/ (\E p \in Workflows : CaptureFile(w, p)) \/ CaptureFails(w)
    \/ CaptureDone(w) \/ OpenSnapshot(w) \/ WriteSnapshot(w) \/ ReplaceSnapshot(w)
    \/ ReplaceFails(w) \/ PreviewDies(w)

PreviewSpec == PreviewInit /\ [][PreviewNext]_previewVars

-----------------------------------------------------------------------------
(* Properties. *)

\* The comment in save: an interrupted write leaves the previous snapshot readable.  Whatever
\* save is cut off where, the file of the commit is what the last save that returned wrote, as
\* long as no two previews of the commit save together: then one's temporary is the other's.
SnapshotReadable ==
  ~overlap => IF Exists(Target) THEN last # Torn /\ Holds(Target, last) ELSE last = Torn
=============================================================================
