-------------------------------- MODULE Files --------------------------------
(***************************************************************************)
(* One directory as the processes that write files into it see it.  A name *)
(* leads to a file, and a process that has opened a file goes on writing   *)
(* that file whatever becomes of its name.                                 *)
(***************************************************************************)
EXTENDS Naturals

CONSTANTS
  Names,
  Inodes,    \* the files there can be at a time
  Contents,
  Writers,
  NoFile,
  Torn       \* what a file holds that is opened and not yet written

ASSUME FileAssumption == NoFile \notin Inodes /\ Torn \notin Contents

VARIABLES
  dir,     \* the file a name leads to
  data,    \* what each file holds
  handle   \* the file each writer has open, or opened last

fileVars == <<dir, data, handle>>

FilesTypeOK ==
  /\ dir \in [Names -> Inodes \cup {NoFile}]
  /\ data \in [Inodes -> Contents \cup {Torn}]
  /\ handle \in [Writers -> Inodes \cup {NoFile}]

FilesInit ==
  /\ dir = [n \in Names |-> NoFile]
  /\ data = [i \in Inodes |-> Torn]
  /\ handle = [w \in Writers |-> NoFile]

Exists(n) == dir[n] # NoFile
Holds(n, c) == Exists(n) /\ data[dir[n]] = c

\* The files nobody can reach.
Unused == {i \in Inodes : (\A n \in Names : dir[n] # i) /\ (\A w \in Writers : handle[w] # i)}

\* open(n, "w"): an existing file is truncated, and is the same file to whoever has it open.
OpenFile(w, n) ==
  /\ Exists(n) \/ Unused # {}
  /\ LET i == IF Exists(n) THEN dir[n] ELSE CHOOSE i \in Unused : TRUE
     IN  /\ dir' = [dir EXCEPT ![n] = i]
         /\ data' = [data EXCEPT ![i] = Torn]
         /\ handle' = [handle EXCEPT ![w] = i]

\* write and close.
WriteFile(w, c) ==
  /\ data' = [data EXCEPT ![handle[w]] = c]
  /\ UNCHANGED <<dir, handle>>

\* replace(old, new), which is atomic, by a writer that has closed its file.
Rename(w, old, new) ==
  /\ Exists(old)
  /\ dir' = [dir EXCEPT ![new] = dir[old], ![old] = NoFile]
  /\ handle' = [handle EXCEPT ![w] = NoFile]
  /\ UNCHANGED data

\* unlink(n, missing_ok=True), and its writer is done.
Unlink(w, n) ==
  /\ dir' = [dir EXCEPT ![n] = NoFile]
  /\ handle' = [handle EXCEPT ![w] = NoFile]
  /\ UNCHANGED data

\* The writer's process is gone; its files stay.
Close(w) ==
  /\ handle' = [handle EXCEPT ![w] = NoFile]
  /\ UNCHANGED <<dir, data>>
=============================================================================
