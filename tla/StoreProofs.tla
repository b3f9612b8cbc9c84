----------------------------- MODULE StoreProofs ------------------------------
(***************************************************************************)
(* What is stored: logs are whole and those of their jobs, an interrupted  *)
(* preview leaves what was there, backfill writes the right trees and all  *)
(* of them, workflow snapshots are those that were seen, and the actions   *)
(* index holds all it promises; for any number of jobs, files, runs,       *)
(* commits, actions, concurrent passes, exceptions and crashes.            *)
(***************************************************************************)
EXTENDS MCStores, NumberLemmas

-----------------------------------------------------------------------------
(* LogStore: stored logs. *)

Writing == {"opened", "written"}

\* The types the argument needs.
LogShape ==
  /\ FilesTypeOK
  /\ chunk \in [LogJobs -> Contents \cup {NoChunk}]
  /\ at \in [Writers -> {"idle", "fetching", "putting", "opened", "written", "inserting", "dead"}]
  /\ job \in [Writers -> LogJobs \cup {NoLogJob}]

\* No file has two names.
OneName == \A m, n \in Names : Exists(m) /\ dir[m] = dir[n] => m = n

\* A fetcher that is past the download knows its job, whose log there is.
KnowsItsJob ==
  \A f \in Writers :
    /\ at[f] = "fetching" => job[f] \in LogJobs
    /\ at[f] \in {"putting", "opened", "written", "inserting"}
         => job[f] \in LogJobs /\ remote[job[f]] \in Contents

\* A temporary leads to the file its writer has open, and to what the writer wrote.
OwnTemp ==
  \A f \in Writers :
    /\ at[f] \in Writing => handle[f] # NoFile /\ dir[Temp(f, remote[job[f]])] = handle[f]
    /\ at[f] = "written" => data[handle[f]] = remote[job[f]]

ObjectsWhole == \A c \in Contents : Exists(Object(c)) => Holds(Object(c), c)

ObjectsFirst == \A f \in Writers : at[f] = "inserting" => Exists(Object(remote[job[f]]))

ChunksRight ==
  \A j \in LogJobs : chunk[j] # NoChunk => chunk[j] = remote[j] /\ Exists(Object(chunk[j]))

LogInv ==
  LogShape /\ OneName /\ KnowsItsJob /\ OwnTemp /\ ObjectsWhole /\ ObjectsFirst /\ ChunksRight

\* Which names there are, and that no two of them are equal.
LEMMA NamesDiffer ==
  ASSUME NEW c \in Contents, NEW d \in Contents, NEW f \in Writers, NEW g \in Writers
  PROVE  /\ Object(c) \in Names /\ Temp(f, c) \in Names
         /\ Object(c) # Temp(f, d)
         /\ Object(c) = Object(d) => c = d
         /\ Temp(f, c) = Temp(g, d) => f = g /\ c = d
<1>1. Object(c) \in Names /\ Temp(f, c) \in Names
  BY LogAssumption
<1>2. Object(c)[1] = "object" /\ Object(c)[2] = c /\ Object(d)[2] = d
  BY DEF Object
<1>3. Temp(f, d)[1] = "temp" /\ Temp(f, c)[2] = c /\ Temp(f, c)[3] = f /\ Temp(g, d)[2] = d /\ Temp(g, d)[3] = g
  BY DEF Temp
<1>4. "object" # "temp"
  OBVIOUS
<1> QED BY <1>1, <1>2, <1>3, <1>4

LEMMA LogInitially == LogInit => LogInv
<1> SUFFICES ASSUME LogInit PROVE LogInv
  OBVIOUS
<1>1. LogShape
  BY DEF LogInit, FilesInit, LogShape, FilesTypeOK
<1>2. \A n \in Names : ~Exists(n)
  BY DEF LogInit, FilesInit, Exists
<1>3. ObjectsWhole
  BY <1>2, LogAssumption DEF ObjectsWhole
<1> QED BY <1>1, <1>2, <1>3 DEF LogInit, LogInv, OneName, KnowsItsJob, OwnTemp, ObjectsFirst, ChunksRight, Writing

\* A step that moves no file and adds no chunk keeps what is said of files and chunks.
LEMMA QuietSteps ==
  ASSUME LogInv, LogShape', KnowsItsJob', UNCHANGED <<fileVars, chunk>>,
         \A f \in Writers : at'[f] \in Writing => at'[f] = at[f] /\ job'[f] = job[f],
         \A f \in Writers : at'[f] = "inserting" => Exists(Object(remote[job'[f]]))
  PROVE  LogInv'
<1>1. OneName' /\ ObjectsWhole' /\ ChunksRight'
  BY DEF LogInv, OneName, ObjectsWhole, ChunksRight, Exists, Holds, fileVars
<1>2. OwnTemp'
  BY DEF LogInv, OwnTemp, Writing, fileVars
<1>3. ObjectsFirst'
  BY DEF ObjectsFirst, Exists, fileVars
<1> QED BY <1>1, <1>2, <1>3 DEF LogInv

\* What a fetcher that has no file open does before and after.
LEMMA QuietStepsKeep ==
  ASSUME LogInv, NEW f \in Writers, NEW j \in LogJobs,
         AskForLogs \/ BeginLog(f, j) \/ FetchExpired(f) \/ FetchData(f) \/ AlreadyStored(f)
  PROVE  LogInv'
<1>1. LogShape /\ KnowsItsJob /\ ObjectsFirst
  BY DEF LogInv
<1>2. UNCHANGED <<fileVars, chunk>>
  BY DEF AskForLogs, BeginLog, FetchExpired, FetchData, AlreadyStored
<1>3. LogShape'
  BY <1>1, <1>2 DEF LogShape, FilesTypeOK, fileVars, fetchers, Finish,
    AskForLogs, BeginLog, FetchExpired, FetchData, AlreadyStored
<1>4. KnowsItsJob'
  BY <1>1, LogAssumption DEF KnowsItsJob, LogShape, fetchers, Finish,
    AskForLogs, BeginLog, FetchExpired, FetchData, AlreadyStored
<1>5. \A g \in Writers : at'[g] \in Writing => at'[g] = at[g] /\ job'[g] = job[g]
  BY <1>1 DEF Writing, LogShape, fetchers, Finish,
    AskForLogs, BeginLog, FetchExpired, FetchData, AlreadyStored
<1>6. \A g \in Writers : at'[g] = "inserting" => Exists(Object(remote[job'[g]]))
  BY <1>1 DEF ObjectsFirst, LogShape, fetchers, Finish,
    AskForLogs, BeginLog, FetchExpired, FetchData, AlreadyStored
<1> QED BY <1>2, <1>3, <1>4, <1>5, <1>6, QuietSteps

LEMMA InsertKeeps ==
  ASSUME LogInv, NEW f \in Writers, InsertChunk(f)
  PROVE  LogInv'
<1>1. LogShape /\ KnowsItsJob /\ ObjectsFirst /\ ChunksRight
  BY DEF LogInv
<1>2. job[f] \in LogJobs /\ remote[job[f]] \in Contents /\ Exists(Object(remote[job[f]]))
  BY <1>1 DEF InsertChunk, KnowsItsJob, ObjectsFirst
<1>3. LogShape' /\ KnowsItsJob'
  BY <1>1, <1>2 DEF InsertChunk, Finish, LogShape, FilesTypeOK, fileVars, KnowsItsJob
<1>4. OneName' /\ ObjectsWhole'
  BY DEF LogInv, InsertChunk, OneName, ObjectsWhole, Exists, Holds, fileVars
<1>5. OwnTemp' /\ ObjectsFirst'
  BY <1>1 DEF LogInv, LogShape, InsertChunk, Finish, OwnTemp, ObjectsFirst, Writing, Exists, fileVars
<1>6. ChunksRight'
  BY <1>1, <1>2, LogAssumption DEF LogShape, InsertChunk, ChunksRight, Exists, fileVars
<1> QED BY <1>3, <1>4, <1>5, <1>6 DEF LogInv

\* The temporary of f and what it leads to.
LEMMA OpenKeeps ==
  ASSUME LogInv, NEW f \in Writers, OpenTemp(f)
  PROVE  LogInv'
<1> DEFINE t == Temp(f, remote[job[f]])
           i == handle'[f]
<1>1. LogShape /\ KnowsItsJob /\ OneName /\ OwnTemp /\ ObjectsWhole /\ ObjectsFirst /\ ChunksRight
  BY DEF LogInv
<1>2. job[f] \in LogJobs /\ remote[job[f]] \in Contents /\ t \in Names
  BY <1>1, NamesDiffer DEF OpenTemp, KnowsItsJob
<1>3. /\ i \in Inodes /\ i # NoFile
      /\ dir' = [dir EXCEPT ![t] = i]
      /\ data' = [data EXCEPT ![i] = Torn]
      /\ handle' = [handle EXCEPT ![f] = i]
      /\ \A n \in Names : dir[n] = i => n = t
      /\ \A g \in Writers \ {f} : at[g] \in Writing => handle[g] # i
  <2>1. CASE Exists(t)
    <3>1. i = dir[t] /\ i \in Inodes /\ i # NoFile /\ dir' = [dir EXCEPT ![t] = i]
          /\ data' = [data EXCEPT ![i] = Torn] /\ handle' = [handle EXCEPT ![f] = i]
      BY <1>1, <1>2, <2>1, FileAssumption DEF OpenTemp, OpenFile, LogShape, FilesTypeOK, Exists
    <3>2. \A n \in Names : dir[n] = i => n = t
      BY <1>1, <1>2, <2>1, <3>1 DEF OneName
    <3>3. ASSUME NEW g \in Writers \ {f}, at[g] \in Writing PROVE handle[g] # i
      <4>1. remote[job[g]] \in Contents /\ dir[Temp(g, remote[job[g]])] = handle[g]
        BY <1>1, <3>3 DEF KnowsItsJob, OwnTemp, Writing
      <4>2. Temp(g, remote[job[g]]) \in Names /\ Temp(g, remote[job[g]]) # t
        BY <1>2, <4>1, NamesDiffer
      <4> QED BY <3>2, <4>1, <4>2
    <3> QED BY <3>1, <3>2, <3>3
  <2>2. CASE ~Exists(t)
    <3>1. \E k \in Unused : TRUE
      BY <1>2, <2>2 DEF OpenTemp, OpenFile
    <3>2. i \in Unused /\ dir' = [dir EXCEPT ![t] = i]
          /\ data' = [data EXCEPT ![i] = Torn] /\ handle' = [handle EXCEPT ![f] = i]
      BY <1>1, <2>2, <3>1 DEF OpenTemp, OpenFile, LogShape, FilesTypeOK
    <3> QED BY <3>2, FileAssumption DEF Unused
  <2> QED BY <2>1, <2>2
<1>4. at' = [at EXCEPT ![f] = "opened"] /\ UNCHANGED <<chunk, job>> /\ at[f] = "putting"
  BY DEF OpenTemp
<1> HIDE DEF i, t
<1>5. LogShape'
  BY <1>1, <1>3, <1>4 DEF LogShape, FilesTypeOK
<1>6. KnowsItsJob'
  BY <1>1, <1>2, <1>4 DEF KnowsItsJob, LogShape
<1>7. OneName'
  BY <1>1, <1>2, <1>3 DEF OneName, Exists, LogShape, FilesTypeOK
<1>8. \A c \in Contents : Object(c) \in Names /\ dir'[Object(c)] = dir[Object(c)] /\ dir[Object(c)] # i
  BY <1>1, <1>2, <1>3, NamesDiffer DEF LogShape, FilesTypeOK, t
<1>9. ObjectsWhole'
  BY <1>1, <1>3, <1>8 DEF ObjectsWhole, Exists, Holds, LogShape, FilesTypeOK
<1>10. OwnTemp'
  <2>1. ASSUME NEW g \in Writers \ {f}, at'[g] \in Writing
        PROVE  /\ handle'[g] # NoFile /\ dir'[Temp(g, remote[job'[g]])] = handle'[g]
               /\ at'[g] = "written" => data'[handle'[g]] = remote[job'[g]]
    <3>1. at[g] = at'[g] /\ job'[g] = job[g] /\ handle'[g] = handle[g]
      BY <1>1, <1>3, <1>4 DEF LogShape, FilesTypeOK
    <3>2. remote[job[g]] \in Contents /\ dir[Temp(g, remote[job[g]])] = handle[g] /\ handle[g] # NoFile
      BY <1>1, <2>1, <3>1 DEF KnowsItsJob, OwnTemp, Writing
    <3>3. Temp(g, remote[job[g]]) \in Names /\ Temp(g, remote[job[g]]) # t
      BY <1>2, <3>2, NamesDiffer DEF t
    <3>4. dir'[Temp(g, remote[job[g]])] = handle[g]
      BY <1>1, <1>3, <3>2, <3>3 DEF LogShape, FilesTypeOK
    <3>5. handle[g] \in Inodes /\ handle[g] # i
      BY <1>1, <1>3, <2>1, <3>1, <3>2 DEF LogShape, FilesTypeOK
    <3>6. data'[handle[g]] = data[handle[g]]
      BY <1>1, <1>3, <3>5 DEF LogShape, FilesTypeOK
    <3> QED BY <1>1, <2>1, <3>1, <3>2, <3>4, <3>6 DEF OwnTemp
  <2>2. handle'[f] # NoFile /\ dir'[Temp(f, remote[job'[f]])] = handle'[f] /\ at'[f] = "opened"
    BY <1>1, <1>2, <1>3, <1>4 DEF LogShape, FilesTypeOK, t, i
  <2> QED BY <2>1, <2>2 DEF OwnTemp, Writing
<1>11. ObjectsFirst'
  BY <1>1, <1>4, <1>8 DEF ObjectsFirst, KnowsItsJob, Exists, LogShape
<1>12. ChunksRight'
  BY <1>1, <1>4, <1>8, LogAssumption DEF ChunksRight, Exists, LogShape
<1> QED BY <1>5, <1>6, <1>7, <1>9, <1>10, <1>11, <1>12 DEF LogInv

LEMMA WriteKeeps ==
  ASSUME LogInv, NEW f \in Writers, WriteTemp(f)
  PROVE  LogInv'
<1>1. LogShape /\ KnowsItsJob /\ OneName /\ OwnTemp /\ ObjectsWhole /\ ObjectsFirst /\ ChunksRight
  BY DEF LogInv
<1>2. /\ job[f] \in LogJobs /\ remote[job[f]] \in Contents /\ handle[f] \in Inodes
      /\ handle[f] # NoFile /\ dir[Temp(f, remote[job[f]])] = handle[f]
  BY <1>1 DEF WriteTemp, KnowsItsJob, OwnTemp, Writing, LogShape, FilesTypeOK
<1>3. /\ at[f] = "opened" /\ at' = [at EXCEPT ![f] = "written"]
      /\ data' = [data EXCEPT ![handle[f]] = remote[job[f]]]
      /\ UNCHANGED <<dir, handle, chunk, job>>
  BY DEF WriteTemp, WriteFile
<1>4. LogShape' /\ KnowsItsJob' /\ OneName' /\ ObjectsFirst' /\ ChunksRight'
  BY <1>1, <1>2, <1>3 DEF LogShape, FilesTypeOK, KnowsItsJob, OneName, ObjectsFirst, ChunksRight, Exists
<1>5. ASSUME NEW c \in Contents, Exists(Object(c)) PROVE dir[Object(c)] \in Inodes /\ dir[Object(c)] # handle[f]
  <2>1. /\ Object(c) \in Names /\ Temp(f, remote[job[f]]) \in Names
        /\ Object(c) # Temp(f, remote[job[f]])
    BY <1>2, NamesDiffer
  <2> QED BY <1>1, <1>2, <1>5, <2>1 DEF OneName, Exists, LogShape, FilesTypeOK
<1>6. ObjectsWhole'
  BY <1>1, <1>3, <1>5 DEF ObjectsWhole, Exists, Holds, LogShape, FilesTypeOK
<1>7. ASSUME NEW g \in Writers \ {f}, at[g] \in Writing PROVE handle[g] \in Inodes /\ handle[g] # handle[f]
  <2>1. remote[job[g]] \in Contents /\ dir[Temp(g, remote[job[g]])] = handle[g] /\ handle[g] # NoFile
    BY <1>1, <1>7 DEF KnowsItsJob, OwnTemp, Writing
  <2>2. /\ Temp(g, remote[job[g]]) \in Names /\ Temp(f, remote[job[f]]) \in Names
        /\ Temp(g, remote[job[g]]) # Temp(f, remote[job[f]])
    BY <1>2, <2>1, NamesDiffer
  <2> QED BY <1>1, <1>2, <2>1, <2>2 DEF OneName, Exists, LogShape, FilesTypeOK
<1>8. OwnTemp'
  BY <1>1, <1>2, <1>3, <1>7 DEF OwnTemp, Writing, LogShape, FilesTypeOK
<1> QED BY <1>4, <1>6, <1>8 DEF LogInv

\* A writer that is done with its temporary, whichever way: the temporary is gone, and its file
\* is nowhere or is the object it was written for.
LEMMA TempGone ==
  ASSUME LogInv, LogShape', KnowsItsJob', NEW f \in Writers, at[f] \in Writing, at'[f] \notin Writing,
         \A g \in Writers \ {f} : at'[g] = at[g] /\ job'[g] = job[g] /\ handle'[g] = handle[g],
         UNCHANGED <<data, chunk>>,
         \/ /\ dir' = [dir EXCEPT ![Temp(f, remote[job[f]])] = NoFile]
            /\ at'[f] # "inserting"
         \/ /\ at[f] = "written" /\ job'[f] = job[f]
            /\ dir' = [dir EXCEPT ![Object(remote[job[f]])] = handle[f],
                                  ![Temp(f, remote[job[f]])] = NoFile]
  PROVE  LogInv'
<1> DEFINE t == Temp(f, remote[job[f]])
           o == Object(remote[job[f]])
<1>1. LogShape /\ KnowsItsJob /\ OneName /\ OwnTemp /\ ObjectsWhole /\ ObjectsFirst /\ ChunksRight
  BY DEF LogInv
<1>2. /\ job[f] \in LogJobs /\ remote[job[f]] \in Contents /\ handle[f] \in Inodes
      /\ dir[t] = handle[f] /\ handle[f] # NoFile
  BY <1>1 DEF KnowsItsJob, OwnTemp, Writing, LogShape, FilesTypeOK
<1>3. t \in Names /\ o \in Names /\ o # t
  BY <1>2, NamesDiffer
<1>4. \A c \in Contents : Object(c) \in Names /\ Object(c) # t /\ (Object(c) = o => c = remote[job[f]])
  BY <1>2, NamesDiffer
<1>5. ASSUME NEW g \in Writers \ {f}, at'[g] \in Writing
      PROVE  /\ remote[job[g]] \in Contents /\ Temp(g, remote[job[g]]) \in Names
             /\ Temp(g, remote[job[g]]) \notin {t, o}
  <2>1. remote[job[g]] \in Contents
    BY <1>1, <1>5 DEF KnowsItsJob, Writing
  <2> QED BY <1>2, <2>1, NamesDiffer
<1>6. \/ dir' = [dir EXCEPT ![t] = NoFile] /\ at'[f] # "inserting"
      \/ at[f] = "written" /\ job'[f] = job[f] /\ dir' = [dir EXCEPT ![o] = handle[f], ![t] = NoFile]
  OBVIOUS
<1>7. /\ \A n \in Names \ {t, o} : dir'[n] = dir[n]
      /\ dir'[t] = NoFile
      /\ dir'[o] = dir[o] \/ (at[f] = "written" /\ dir'[o] = handle[f])
      /\ at'[f] = "inserting" => job'[f] = job[f] /\ dir'[o] = handle[f]
  BY <1>1, <1>3, <1>6 DEF LogShape, FilesTypeOK
<1> HIDE DEF t, o
<1>8. OneName'
  BY <1>1, <1>2, <1>3, <1>7 DEF OneName, Exists
<1>9. \A c \in Contents : Exists(Object(c)) => Exists(Object(c))'
  BY <1>2, <1>4, <1>7 DEF Exists
<1>10. ObjectsWhole'
  <2>1. ASSUME NEW c \in Contents, Exists(Object(c))' PROVE Holds(Object(c), c)'
    <3>1. CASE Object(c) # o
      BY <1>1, <1>4, <1>7, <2>1, <3>1 DEF ObjectsWhole, Exists, Holds
    <3>2. CASE Object(c) = o /\ dir'[o] = dir[o]
      BY <1>1, <1>4, <1>7, <2>1, <3>2 DEF ObjectsWhole, Exists, Holds
    <3>3. CASE Object(c) = o /\ dir'[o] # dir[o]
      BY <1>1, <1>2, <1>4, <1>7, <2>1, <3>3 DEF OwnTemp, Exists, Holds
    <3> QED BY <3>1, <3>2, <3>3
  <2> QED BY <2>1 DEF ObjectsWhole
<1>11. OwnTemp'
  BY <1>1, <1>5, <1>7 DEF OwnTemp, Writing, LogShape
<1>12. ObjectsFirst'
  <2>1. ASSUME NEW g \in Writers \ {f}, at'[g] = "inserting" PROVE dir'[Object(remote[job'[g]])] # NoFile
    BY <1>1, <1>9, <2>1 DEF ObjectsFirst, KnowsItsJob, Exists
  <2>2. at'[f] = "inserting" => dir'[Object(remote[job'[f]])] # NoFile
    BY <1>2, <1>7 DEF o
  <2> QED BY <2>1, <2>2 DEF ObjectsFirst, Exists
<1>13. ChunksRight'
  BY <1>1, <1>9, LogAssumption DEF ChunksRight, LogShape
<1> QED BY <1>8, <1>10, <1>11, <1>12, <1>13 DEF LogInv

LEMMA PublishKeeps ==
  ASSUME LogInv, NEW f \in Writers, Publish(f)
  PROVE  LogInv'
<1>1. LogShape /\ KnowsItsJob /\ OwnTemp
  BY DEF LogInv
<1>2. /\ at[f] = "written" /\ at' = [at EXCEPT ![f] = "inserting"]
      /\ handle' = [handle EXCEPT ![f] = NoFile]
      /\ UNCHANGED <<data, chunk, job>>
      /\ dir[Temp(f, remote[job[f]])] = handle[f] /\ handle[f] # NoFile
      /\ job[f] \in LogJobs /\ remote[job[f]] \in Contents
  BY <1>1 DEF Publish, Rename, OwnTemp, Writing, KnowsItsJob
<1>3. dir' = [dir EXCEPT ![Object(remote[job[f]])] = handle[f], ![Temp(f, remote[job[f]])] = NoFile]
  BY <1>2 DEF Publish, Rename
<1>4. KnowsItsJob'
  BY <1>1, <1>2 DEF KnowsItsJob, LogShape
<1>5. LogShape'
  BY <1>1, <1>2, <1>3 DEF LogShape, FilesTypeOK
<1>6. /\ at[f] \in Writing /\ at'[f] \notin Writing /\ job'[f] = job[f]
      /\ \A g \in Writers \ {f} : at'[g] = at[g] /\ job'[g] = job[g] /\ handle'[g] = handle[g]
  BY <1>1, <1>2 DEF Writing, LogShape, FilesTypeOK
<1> QED BY <1>2, <1>3, <1>4, <1>5, <1>6, TempGone

\* A fetcher gives its row back, with no file open any more.
LEMMA FailureKeeps ==
  ASSUME LogInv, NEW f \in Writers, Raises(f) \/ Dies(f)
  PROVE  LogInv'
<1>1. LogShape /\ KnowsItsJob /\ OneName /\ OwnTemp /\ ObjectsWhole /\ ObjectsFirst /\ ChunksRight
  BY DEF LogInv
<1>2. UNCHANGED chunk /\ at'[f] \in {"idle", "dead"} /\ job'[f] = NoLogJob
      /\ (\A g \in Writers \ {f} : at'[g] = at[g] /\ job'[g] = job[g])
      /\ at' \in [Writers -> {"idle", "fetching", "putting", "opened", "written", "inserting", "dead"}]
      /\ job' \in [Writers -> LogJobs \cup {NoLogJob}]
  BY <1>1 DEF Raises, Dies, GiveBack, Finish, LogShape
<1>3. KnowsItsJob'
  BY <1>1, <1>2 DEF KnowsItsJob
<1>4. CASE Raises(f) /\ at[f] \in Writing
  <2>1. /\ dir' = [dir EXCEPT ![Temp(f, remote[job[f]])] = NoFile]
        /\ handle' = [handle EXCEPT ![f] = NoFile] /\ UNCHANGED data
    BY <1>4 DEF Raises, Unlink, Writing
  <2>2. LogShape'
    BY <1>1, <1>2, <2>1 DEF LogShape, FilesTypeOK
  <2>3. \A g \in Writers \ {f} : at'[g] = at[g] /\ job'[g] = job[g] /\ handle'[g] = handle[g]
    BY <1>1, <1>2, <2>1 DEF LogShape, FilesTypeOK
  <2>4. at'[f] \notin Writing /\ at'[f] # "inserting"
    BY <1>2 DEF Writing
  <2> QED BY <1>2, <1>3, <1>4, <2>1, <2>2, <2>3, <2>4, TempGone
<1>5. CASE ~(Raises(f) /\ at[f] \in Writing)
  <2>1. UNCHANGED <<dir, data>> /\ (handle' = handle \/ handle' = [handle EXCEPT ![f] = NoFile])
    BY <1>5 DEF Raises, Dies, Close, Writing, fileVars
  <2>2. LogShape'
    BY <1>1, <1>2, <2>1 DEF LogShape, FilesTypeOK
  <2>3. OneName' /\ ObjectsWhole' /\ ChunksRight'
    BY <1>1, <1>2, <2>1 DEF OneName, ObjectsWhole, ChunksRight, Exists, Holds
  <2>4. \A g \in Writers \ {f} : handle'[g] = handle[g]
    BY <1>1, <2>1 DEF LogShape, FilesTypeOK
  <2>5. OwnTemp'
    BY <1>1, <1>2, <2>1, <2>4 DEF OwnTemp, Writing
  <2>6. ObjectsFirst'
    BY <1>1, <1>2, <2>1 DEF ObjectsFirst, Exists
  <2> QED BY <1>3, <2>2, <2>3, <2>5, <2>6 DEF LogInv
<1> QED BY <1>4, <1>5

\* Every step preserves the invariant.
LEMMA LogInductive == LogInv /\ [LogNext]_logVars => LogInv'
<1> SUFFICES ASSUME LogInv, [LogNext]_logVars PROVE LogInv'
  OBVIOUS
<1>1. CASE AskForLogs
  <2>1. LogShape' /\ KnowsItsJob' /\ UNCHANGED <<fileVars, chunk, at, job>>
    BY <1>1 DEF AskForLogs, LogInv, LogShape, FilesTypeOK, KnowsItsJob, fileVars, fetchers
  <2>2. \A f \in Writers : at'[f] = "inserting" => Exists(Object(remote[job'[f]]))
    BY <2>1 DEF LogInv, ObjectsFirst
  <2> QED BY <2>1, <2>2, QuietSteps
<1>2. CASE \E f \in Writers, j \in LogJobs : BeginLog(f, j)
  BY <1>2, QuietStepsKeep
<1>3. CASE \E f \in Writers : FetchExpired(f) \/ FetchData(f) \/ AlreadyStored(f)
  <2>1. PICK f \in Writers : FetchExpired(f) \/ FetchData(f) \/ AlreadyStored(f)
    BY <1>3
  <2>2. job[f] \in LogJobs
    BY <2>1 DEF LogInv, KnowsItsJob, FetchExpired, FetchData, AlreadyStored
  <2> QED BY <2>1, <2>2, QuietStepsKeep
<1>4. CASE \E f \in Writers : OpenTemp(f)
  BY <1>4, OpenKeeps
<1>5. CASE \E f \in Writers : WriteTemp(f)
  BY <1>5, WriteKeeps
<1>6. CASE \E f \in Writers : Publish(f)
  BY <1>6, PublishKeeps
<1>7. CASE \E f \in Writers : InsertChunk(f)
  BY <1>7, InsertKeeps
<1>8. CASE \E f \in Writers : Raises(f) \/ Dies(f)
  BY <1>8, FailureKeeps
<1>9. CASE UNCHANGED logVars
  BY <1>9 DEF logVars, fileVars, fetchers, LogInv, LogShape, FilesTypeOK, OneName, KnowsItsJob, OwnTemp,
    ObjectsWhole, ObjectsFirst, ChunksRight, Exists, Holds
<1> QED
  <2> USE DEF LogNext
  <2> QED BY <1>1, <1>2, <1>3, <1>4, <1>5, <1>6, <1>7, <1>8, <1>9

-----------------------------------------------------------------------------
\* An object is whole from the moment its name exists, and a row of log_chunk names the object
\* of its job's log, which is there (LocalLogStore.put, store_job_log).
THEOREM LogsStayReadable == LogSpec => []LogsReadable
<1>1. LogInv => LogsReadable
  BY DEF LogInv, ObjectsWhole, ChunksRight, LogsReadable
<1> QED BY LogInitially, LogInductive, <1>1, PTL DEF LogSpec

\* A job's log is recorded once and for good: ON CONFLICT (job_id) DO NOTHING.
THEOREM ChunksStay == LogSpec => [][\A j \in LogJobs : chunk[j] # NoChunk => chunk'[j] = chunk[j]]_logVars
<1>1. LogInv /\ [LogNext]_logVars => [\A j \in LogJobs : chunk[j] # NoChunk => chunk'[j] = chunk[j]]_logVars
  <2> SUFFICES ASSUME LogInv, LogNext, NEW j \in LogJobs, chunk[j] # NoChunk PROVE chunk'[j] = chunk[j]
    OBVIOUS
  <2>1. CASE \E f \in Writers : InsertChunk(f)
    BY <2>1 DEF InsertChunk, LogInv, LogShape
  <2>2. CASE chunk' = chunk
    BY <2>2
  <2>3. chunk' = chunk \/ \E f \in Writers : InsertChunk(f)
    BY DEF LogNext, AskForLogs, BeginLog, FetchExpired, FetchData, AlreadyStored, OpenTemp, WriteTemp,
      Publish, Raises, Dies, GiveBack
  <2> QED BY <2>1, <2>2, <2>3
<1> QED BY LogInitially, LogInductive, <1>1, PTL DEF LogSpec

-----------------------------------------------------------------------------
(* One download, while nobody is in the way. *)

\* A job that no two fetchers were at together has one fetcher at most, and none once its log
\* is recorded; until then its download is that fetcher's, who has not begun it while fetching.
OnceOf(j) ==
  /\ \A f, g \in Writers : job[f] = j /\ job[g] = j => f = g
  /\ chunk[j] # NoChunk => \A f \in Writers : job[f] # j
  /\ \A f \in Writers : job[f] = j /\ at[f] = "fetching" => fetched[j] = 0
  /\ fetched[j] <= 1
  /\ fetched[j] > 0 => chunk[j] # NoChunk \/ \E f \in Writers : job[f] = j

OnceInv ==
  /\ fetched \in [LogJobs -> Nat]
  /\ raced \subseteq LogJobs
  /\ \A f \in Writers : at[f] = "idle" => job[f] = NoLogJob
  /\ \A j \in LogJobs \ raced : OnceOf(j)

LEMMA OnceInitially == LogInit => OnceInv
  BY LogAssumption DEF LogInit, OnceInv, OnceOf

\* A step that leaves the jobs of fetchers and what is recorded of them alone.
LEMMA OnceQuiet ==
  ASSUME OnceInv, UNCHANGED <<job, chunk, fetched>>, raced \subseteq raced', raced' \subseteq LogJobs,
         \A f \in Writers : at'[f] \in {"idle", "fetching"} => at[f] = at'[f]
  PROVE  OnceInv'
  BY DEF OnceInv, OnceOf

\* A fetcher takes up a job: it is the only one, or the job is raced.
LEMMA OnceBegin ==
  ASSUME LogInv, OnceInv, NEW f \in Writers, NEW j \in LogJobs, BeginLog(f, j)
  PROVE  OnceInv'
<1>1. LogShape
  BY DEF LogInv
<1>2. CASE chunk[j] # NoChunk
  BY <1>2, OnceQuiet DEF BeginLog, fetchers, OnceInv
<1>3. CASE chunk[j] = NoChunk
  <2>1. /\ at' = [at EXCEPT ![f] = "fetching"] /\ job' = [job EXCEPT ![f] = j]
        /\ raced' = IF \E g \in Writers : job[g] = j THEN raced \cup {j} ELSE raced
        /\ UNCHANGED <<chunk, fetched>> /\ at[f] = "idle"
    BY <1>3 DEF BeginLog
  <2>2. ASSUME NEW k \in LogJobs \ raced' PROVE OnceOf(k)'
    <3>1. OnceOf(k) /\ (k = j => \A g \in Writers : job[g] # j)
      BY <2>1, <2>2 DEF OnceInv
    <3>2. CASE k = j
      BY <1>1, <1>3, <2>1, <3>1, <3>2 DEF OnceOf, LogShape, OnceInv
    <3>3. CASE k # j
      <4>1. job[f] # k
        BY <2>1, LogAssumption DEF OnceInv
      <4> QED BY <1>1, <2>1, <2>2, <3>1, <3>3, <4>1 DEF OnceOf, LogShape
    <3> QED BY <3>2, <3>3
  <2> QED BY <1>1, <2>1, <2>2 DEF OnceInv, LogShape
<1> QED BY <1>2, <1>3

\* A fetcher is done with its job: it found no log, or it recorded what it downloaded, or its
\* failure makes the job raced.
LEMMA OnceEnd ==
  ASSUME LogInv, OnceInv, NEW f \in Writers,
         FetchExpired(f) \/ InsertChunk(f) \/ Raises(f) \/ Dies(f)
  PROVE  OnceInv'
<1>1. LogShape /\ job[f] \in LogJobs \cup {NoLogJob}
  BY DEF LogInv, LogShape
<1>2. /\ at'[f] \in {"idle", "dead"} /\ job' = [job EXCEPT ![f] = NoLogJob] /\ fetched' = fetched
      /\ \A g \in Writers \ {f} : at'[g] = at[g]
  BY <1>1 DEF FetchExpired, InsertChunk, Raises, Dies, GiveBack, Finish, LogShape, logHistory
<1>3. \A g \in Writers : job'[g] # NoLogJob => g # f /\ job'[g] = job[g]
  BY <1>1, <1>2 DEF LogShape
<1>4. CASE FetchExpired(f)
  <2>1. at[f] = "fetching" /\ UNCHANGED <<chunk, raced>> /\ job[f] \in LogJobs
    BY <1>4 DEF FetchExpired, logHistory, LogInv, KnowsItsJob
  <2>2. ASSUME NEW k \in LogJobs \ raced PROVE OnceOf(k)'
    <3>1. OnceOf(k)
      BY DEF OnceInv
    <3> QED BY <1>1, <1>2, <1>3, <2>1, <3>1, LogAssumption DEF OnceOf, LogShape
  <2> QED BY <1>1, <1>2, <2>1, <2>2 DEF OnceInv, LogShape
<1>5. CASE InsertChunk(f)
  <2>1. /\ job[f] \in LogJobs /\ raced' = raced /\ at[f] = "inserting"
        /\ chunk' = [chunk EXCEPT ![job[f]] = IF @ = NoChunk THEN remote[job[f]] ELSE @]
        /\ chunk'[job[f]] # NoChunk
    BY <1>1, <1>5, LogAssumption DEF InsertChunk, logHistory, LogInv, KnowsItsJob, LogShape
  <2>2. ASSUME NEW k \in LogJobs \ raced PROVE OnceOf(k)'
    <3>1. OnceOf(k)
      BY DEF OnceInv
    <3>2. CASE k = job[f]
      BY <1>1, <1>2, <1>3, <2>1, <3>1, <3>2, LogAssumption DEF OnceOf, LogShape
    <3>3. CASE k # job[f]
      BY <1>1, <1>2, <1>3, <2>1, <3>1, <3>3, LogAssumption DEF OnceOf, LogShape
    <3> QED BY <3>2, <3>3
  <2> QED BY <1>1, <1>2, <2>1, <2>2 DEF OnceInv, LogShape
<1>6. CASE Raises(f) \/ Dies(f)
  <2>1. /\ at[f] \notin {"idle", "dead"} /\ job[f] \in LogJobs
        /\ raced' = raced \cup {job[f]} /\ chunk' = chunk
    BY <1>1, <1>6 DEF Raises, Dies, GiveBack, LogInv, KnowsItsJob, LogShape
  <2>2. ASSUME NEW k \in LogJobs \ raced' PROVE OnceOf(k)'
    <3>1. OnceOf(k) /\ k # job[f]
      BY <2>1, <2>2 DEF OnceInv
    <3> QED BY <1>1, <1>2, <1>3, <2>1, <3>1, LogAssumption DEF OnceOf, LogShape
  <2> QED BY <1>1, <1>2, <2>1, <2>2 DEF OnceInv, LogShape
<1> QED BY <1>4, <1>5, <1>6

LEMMA OnceFetch ==
  ASSUME LogInv, OnceInv, NEW f \in Writers, FetchData(f)
  PROVE  OnceInv'
<1>1. LogShape /\ job[f] \in LogJobs /\ at[f] = "fetching"
  BY DEF FetchData, LogInv, KnowsItsJob
<1>2. /\ fetched' = [fetched EXCEPT ![job[f]] = @ + 1] /\ at' = [at EXCEPT ![f] = "putting"]
      /\ UNCHANGED <<job, chunk, raced>>
  BY DEF FetchData
<1>3. ASSUME NEW k \in LogJobs \ raced PROVE OnceOf(k)'
  <2>1. OnceOf(k) /\ fetched[k] \in Nat
    BY DEF OnceInv
  <2>2. CASE k = job[f]
    BY <1>1, <1>2, <2>1, <2>2 DEF OnceOf, LogShape, OnceInv
  <2>3. CASE k # job[f]
    BY <1>1, <1>2, <2>1, <2>3 DEF OnceOf, LogShape, OnceInv
  <2> QED BY <2>2, <2>3
<1> QED BY <1>1, <1>2, <1>3 DEF OnceInv, LogShape

LEMMA OnceInductive == LogInv /\ OnceInv /\ [LogNext]_logVars => OnceInv'
<1> SUFFICES ASSUME LogInv, OnceInv, [LogNext]_logVars PROVE OnceInv'
  OBVIOUS
<1>0. LogShape
  BY DEF LogInv
<1>1. CASE AskForLogs \/ UNCHANGED logVars
  BY <1>1, OnceQuiet DEF AskForLogs, logVars, fetchers, logHistory, OnceInv
<1>2. CASE \E f \in Writers, j \in LogJobs : BeginLog(f, j)
  BY <1>2, OnceBegin
<1>3. CASE \E f \in Writers : FetchData(f)
  BY <1>3, OnceFetch
<1>4. CASE \E f \in Writers : FetchExpired(f) \/ InsertChunk(f) \/ Raises(f) \/ Dies(f)
  BY <1>4, OnceEnd
<1>5. CASE \E f \in Writers : AlreadyStored(f) \/ OpenTemp(f) \/ WriteTemp(f) \/ Publish(f)
  BY <1>0, <1>5, OnceQuiet DEF AlreadyStored, OpenTemp, WriteTemp, Publish, logHistory, OnceInv, LogShape
<1> QED BY <1>1, <1>2, <1>3, <1>4, <1>5 DEF LogNext

\* A log is downloaded once, however often it is asked for, unless two fetchers were at it
\* together or one failed at it (store_job_log asks log_chunk before it fetches).
THEOREM LogsFetchedOnce == LogSpec => []FetchedOnce
<1>1. OnceInv => FetchedOnce
  BY DEF OnceInv, OnceOf, FetchedOnce
<1> QED BY LogInitially, LogInductive, OnceInitially, OnceInductive, <1>1, PTL DEF LogSpec

-----------------------------------------------------------------------------
(* PreviewCache: the snapshot of a preview. *)

USE DEF Saving

\* The types the argument needs.
PreviewShape ==
  /\ FilesTypeOK
  /\ step \in [Writers -> Saving \cup {"idle", "capturing"}]
  /\ source \in [Writers -> SUBSET Workflows]
  /\ overlap \in BOOLEAN

\* One previewer saves at a time.
SavesAlone == \A v, w \in Writers : step[v] \in Saving /\ step[w] \in Saving => v = w

\* The temporary is another file than the snapshot, and is the one its writer has open, with
\* what the writer wrote.
OwnTemporary ==
  /\ Exists(Temporary) => dir[Temporary] # dir[Target]
  /\ \A w \in Writers : step[w] \in {"writing", "replacing"} => Exists(Temporary) /\ handle[w] = dir[Temporary]
  /\ \A w \in Writers : step[w] = "replacing" => data[handle[w]] = source[w]

TargetWhole == IF Exists(Target) THEN last # Torn /\ Holds(Target, last) ELSE last = Torn

PreviewInv == PreviewShape /\ (~overlap => SavesAlone /\ OwnTemporary /\ TargetWhole)

LEMMA TwoNames == Target \in Names /\ Temporary \in Names /\ Target # Temporary
<1>1. Target[1] = "snapshot" /\ Temporary[1] = "snapshot.tmp" /\ "snapshot" # "snapshot.tmp"
  BY DEF Target, Temporary
<1> QED BY <1>1, PreviewAssumption

LEMMA PreviewInitially == PreviewInit => PreviewInv
<1> SUFFICES ASSUME PreviewInit PROVE PreviewInv
  OBVIOUS
<1>1. ~Exists(Target) /\ ~Exists(Temporary)
  BY TwoNames DEF PreviewInit, FilesInit, Exists
<1> QED BY <1>1 DEF PreviewInit, FilesInit, FilesTypeOK, PreviewInv, PreviewShape, SavesAlone, OwnTemporary, TargetWhole

\* A step that moves no file, and after which nobody saves who did not, or one who is alone.
LEMMA PreviewQuiet ==
  ASSUME PreviewInv, PreviewShape', UNCHANGED <<dir, data, last>>, ~overlap' => ~overlap /\ SavesAlone',
         \A w \in Writers : step'[w] \in {"writing", "replacing"}
           => step'[w] = step[w] /\ source'[w] = source[w] /\ handle'[w] = handle[w]
  PROVE  PreviewInv'
  BY DEF PreviewInv, OwnTemporary, TargetWhole, Exists, Holds

\* Steps before a save, and those that end a preview without one.
LEMMA PreviewQuietSteps ==
  ASSUME PreviewInv, NEW w \in Writers,
         \/ StartPreview(w) \/ (\E p \in Workflows : CaptureFile(w, p)) \/ CaptureFails(w)
         \/ CaptureDone(w) \/ ReplaceFails(w) \/ PreviewDies(w)
  PROVE  PreviewInv'
<1>1. PreviewShape
  BY DEF PreviewInv
<1>2. UNCHANGED <<dir, data, last>> /\ (handle' = handle \/ handle' = [handle EXCEPT ![w] = NoFile])
  BY DEF StartPreview, CaptureFile, CaptureFails, CaptureDone, ReplaceFails, PreviewDies, Close, fileVars
<1>3. /\ \A v \in Writers \ {w} : step'[v] = step[v] /\ source'[v] = source[v]
      /\ step'[w] \in {"idle", "capturing", "saving"}
      /\ step'[w] = "saving" =>
           overlap' = (overlap \/ \E v \in Writers : step[v] \in Saving)
      /\ step'[w] # "saving" => overlap' = overlap
  BY <1>1 DEF StartPreview, CaptureFile, CaptureFails, CaptureDone, ReplaceFails, PreviewDies, EndPreview, PreviewShape
<1>4. PreviewShape'
  <2>1. step' \in [Writers -> Saving \cup {"idle", "capturing"}]
    BY <1>1 DEF StartPreview, CaptureFile, CaptureFails, CaptureDone, ReplaceFails, PreviewDies, EndPreview, PreviewShape
  <2>2. source' \in [Writers -> SUBSET Workflows]
    BY <1>1 DEF StartPreview, CaptureFile, CaptureFails, CaptureDone, ReplaceFails, PreviewDies, EndPreview, PreviewShape
  <2>3. overlap' \in BOOLEAN
    BY <1>1, <1>3 DEF PreviewShape
  <2>4. FilesTypeOK'
    BY <1>1, <1>2 DEF PreviewShape, FilesTypeOK
  <2> QED BY <2>1, <2>2, <2>3, <2>4 DEF PreviewShape
<1>5. ASSUME ~overlap' PROVE ~overlap /\ SavesAlone'
  <2>1. ~overlap /\ SavesAlone
    BY <1>1, <1>3, <1>4, <1>5 DEF PreviewInv, PreviewShape
  <2>2. step'[w] = "saving" => \A v \in Writers : step[v] \notin Saving
    BY <1>3, <1>5
  <2> QED BY <1>3, <2>1, <2>2 DEF SavesAlone
<1>6. \A v \in Writers : step'[v] \in {"writing", "replacing"}
        => v # w /\ step'[v] = step[v] /\ source'[v] = source[v] /\ handle'[v] = handle[v]
  BY <1>1, <1>2, <1>3 DEF PreviewShape, FilesTypeOK
<1> QED BY <1>2, <1>4, <1>5, <1>6, PreviewQuiet

\* open: the temporary is truncated, or is a new file, never the snapshot's.
LEMMA OpenSnapshotKeeps ==
  ASSUME PreviewInv, NEW w \in Writers, OpenSnapshot(w)
  PROVE  PreviewInv'
<1> DEFINE i == IF Exists(Temporary) THEN dir[Temporary] ELSE CHOOSE k \in Unused : TRUE
<1>1. PreviewShape /\ Target \in Names /\ Temporary \in Names /\ Target # Temporary
  BY TwoNames DEF PreviewInv
<1>2. /\ step[w] = "saving" /\ step' = [step EXCEPT ![w] = "writing"]
      /\ dir' = [dir EXCEPT ![Temporary] = i] /\ data' = [data EXCEPT ![i] = Torn]
      /\ handle' = [handle EXCEPT ![w] = i] /\ UNCHANGED <<source, overlap, last>>
      /\ Exists(Temporary) \/ Unused # {}
  BY DEF OpenSnapshot, OpenFile
<1>3. i \in Inodes /\ i # NoFile
  BY <1>1, <1>2, FileAssumption DEF PreviewShape, FilesTypeOK, Exists, Unused
<1>4. ~overlap => i # dir[Target]
  <2>1. CASE Exists(Temporary)
    BY <2>1 DEF PreviewInv, OwnTemporary
  <2>2. CASE ~Exists(Temporary)
    <3>1. i \in Unused
      BY <1>2, <2>2
    <3> QED BY <1>1, <3>1 DEF Unused
  <2> QED BY <2>1, <2>2
<1> HIDE DEF i
<1>5. PreviewShape'
  BY <1>1, <1>2, <1>3 DEF PreviewShape, FilesTypeOK
<1>6. ASSUME ~overlap' PROVE SavesAlone' /\ OwnTemporary' /\ TargetWhole'
  <2>1. SavesAlone /\ OwnTemporary /\ TargetWhole /\ i # dir[Target]
    BY <1>2, <1>4, <1>6 DEF PreviewInv
  <2>2. SavesAlone'
    BY <1>1, <1>2, <2>1 DEF SavesAlone, PreviewShape
  <2>3. \A v \in Writers : step'[v] \in {"writing", "replacing"} => v = w
    BY <1>1, <1>2, <2>1 DEF SavesAlone, PreviewShape
  <2>4. dir'[Temporary] = i /\ dir'[Target] = dir[Target] /\ handle'[w] = i /\ step'[w] = "writing"
    BY <1>1, <1>2 DEF PreviewShape, FilesTypeOK
  <2>5. OwnTemporary'
    BY <1>3, <2>1, <2>3, <2>4 DEF OwnTemporary, Exists
  <2>6. Exists(Target) => dir[Target] \in Inodes /\ data'[dir[Target]] = data[dir[Target]]
    BY <1>1, <1>2, <2>1 DEF PreviewShape, FilesTypeOK, Exists
  <2>7. TargetWhole'
    BY <1>2, <2>1, <2>4, <2>6 DEF TargetWhole, Exists, Holds
  <2> QED BY <2>2, <2>5, <2>7
<1> QED BY <1>5, <1>6 DEF PreviewInv

LEMMA WriteSnapshotKeeps ==
  ASSUME PreviewInv, NEW w \in Writers, WriteSnapshot(w)
  PROVE  PreviewInv'
<1>1. PreviewShape /\ Target \in Names /\ Temporary \in Names
  BY TwoNames DEF PreviewInv
<1>2. /\ step[w] = "writing" /\ step' = [step EXCEPT ![w] = "replacing"]
      /\ data' = [data EXCEPT ![handle[w]] = source[w]] /\ UNCHANGED <<dir, handle, source, overlap, last>>
  BY DEF WriteSnapshot, WriteFile
<1>3. PreviewShape'
  <2>1. source[w] \in Contents
    BY <1>1, PreviewAssumption DEF PreviewShape
  <2> QED BY <1>1, <1>2, <2>1 DEF PreviewShape, FilesTypeOK
<1>4. ASSUME ~overlap' PROVE SavesAlone' /\ OwnTemporary' /\ TargetWhole'
  <2>1. SavesAlone /\ OwnTemporary /\ TargetWhole
    BY <1>2, <1>4 DEF PreviewInv
  <2>2. /\ handle[w] = dir[Temporary] /\ handle[w] # NoFile /\ handle[w] # dir[Target]
        /\ handle[w] \in Inodes
    BY <1>1, <1>2, <2>1 DEF OwnTemporary, Exists, PreviewShape, FilesTypeOK
  <2>3. SavesAlone'
    BY <1>1, <1>2, <2>1 DEF SavesAlone, PreviewShape
  <2>4. \A v \in Writers : step'[v] \in {"writing", "replacing"} => v = w
    BY <1>1, <1>2, <2>1 DEF SavesAlone, PreviewShape
  <2>5. OwnTemporary'
    BY <1>1, <1>2, <2>1, <2>2, <2>4 DEF OwnTemporary, Exists, PreviewShape, FilesTypeOK
  <2>6. TargetWhole'
    BY <1>1, <1>2, <2>1, <2>2 DEF TargetWhole, Exists, Holds, PreviewShape, FilesTypeOK
  <2> QED BY <2>3, <2>5, <2>6
<1> QED BY <1>3, <1>4 DEF PreviewInv

LEMMA ReplaceKeeps ==
  ASSUME PreviewInv, NEW w \in Writers, ReplaceSnapshot(w)
  PROVE  PreviewInv'
<1>1. PreviewShape /\ Target \in Names /\ Temporary \in Names /\ Target # Temporary
  BY TwoNames DEF PreviewInv
<1>2. /\ step[w] = "replacing" /\ step' = [step EXCEPT ![w] = "idle"]
      /\ source' = [source EXCEPT ![w] = {}] /\ handle' = [handle EXCEPT ![w] = NoFile]
      /\ dir' = [dir EXCEPT ![Target] = dir[Temporary], ![Temporary] = NoFile]
      /\ last' = source[w] /\ Exists(Temporary) /\ UNCHANGED <<data, overlap>>
  BY DEF ReplaceSnapshot, Rename, EndPreview
<1>3. PreviewShape'
  BY <1>1, <1>2 DEF PreviewShape, FilesTypeOK
<1>4. dir'[Target] = dir[Temporary] /\ dir'[Temporary] = NoFile
  BY <1>1, <1>2 DEF PreviewShape, FilesTypeOK
<1>5. ASSUME ~overlap' PROVE SavesAlone' /\ OwnTemporary' /\ TargetWhole'
  <2>1. SavesAlone /\ OwnTemporary /\ TargetWhole
    BY <1>2, <1>5 DEF PreviewInv
  <2>2. \A v \in Writers : step'[v] \notin Saving
    BY <1>1, <1>2, <2>1 DEF SavesAlone, PreviewShape
  <2>3. SavesAlone' /\ OwnTemporary'
    BY <1>4, <2>2 DEF SavesAlone, OwnTemporary, Exists
  <2>4. source[w] # Torn
    BY <1>1, PreviewAssumption, FileAssumption DEF PreviewShape
  <2>5. TargetWhole'
    BY <1>2, <1>4, <2>1, <2>4 DEF OwnTemporary, TargetWhole, Exists, Holds
  <2> QED BY <2>3, <2>5
<1> QED BY <1>3, <1>5 DEF PreviewInv

LEMMA PreviewInductive == PreviewInv /\ [PreviewNext]_previewVars => PreviewInv'
<1> SUFFICES ASSUME PreviewInv, [PreviewNext]_previewVars PROVE PreviewInv'
  OBVIOUS
<1>1. CASE PreviewNext
  BY <1>1, PreviewQuietSteps, OpenSnapshotKeeps, WriteSnapshotKeeps, ReplaceKeeps DEF PreviewNext
<1>2. CASE UNCHANGED previewVars
  BY <1>2, PreviewQuiet DEF previewVars, fileVars, PreviewInv, PreviewShape, FilesTypeOK, SavesAlone
<1> QED BY <1>1, <1>2

\* An interrupted write leaves the previous snapshot readable: as long as no two previews of the
\* commit save together, its file is what the last save that returned wrote (PreviewSource.save).
THEOREM SnapshotStaysReadable == PreviewSpec => []SnapshotReadable
<1>1. PreviewInv => SnapshotReadable
  BY DEF PreviewInv, TargetWhole, SnapshotReadable
<1> QED BY PreviewInitially, PreviewInductive, <1>1, PTL DEF PreviewSpec

-----------------------------------------------------------------------------
(* CommitStore: the trees of commits. *)

\* The types the argument needs: what is stored of a commit is its own tree, or that it has none.
CommitsOwn == \A c \in Shas : commits[c] \in {NoCommit, NoTree, treeOf[c]}
RecordsOwn ==
  \A b \in Backfillers : \A c \in DOMAIN records[b] : c \in Shas /\ records[b][c] \in {NoTree, treeOf[c]}
RunsOwn == \A r \in Runs : runTree[r] \in {NoTree, treeOf[head[r]]}

CommitShape ==
  /\ runs \subseteq Runs
  /\ DOMAIN runTree = Runs
  /\ commits = [c \in Shas |-> commits[c]]
  /\ runTree = [r \in Runs |-> runTree[r]]
  /\ place \in [Backfillers -> {"idle", "fetching", "filling"}]
  /\ records = [b \in Backfillers |-> records[b]]
  /\ CommitsOwn /\ RecordsOwn /\ RunsOwn

\* While no pass is between its two transactions, nothing is left to fill.
Filled ==
  (cuts = 0 /\ \A b \in Backfillers : place[b] # "filling")
    => \A r \in runs \ late : (head[r] \in Stored /\ commits[head[r]] # NoTree) => runTree[r] # NoTree

CommitInv == CommitShape /\ cuts \in Nat /\ Filled

\* The head of a run is a commit, and a tree is not the absence of one.
LEMMA HeadsAreCommits == \A r \in Runs : head[r] \in Shas /\ treeOf[head[r]] # NoTree
BY CommitAssumption DEF Shas

LEMMA CommitInitially == CommitInit => CommitInv
<1> SUFFICES ASSUME CommitInit PROVE CommitInv
  OBVIOUS
<1>1. RecordsOwn
  BY DEF CommitInit, RecordsOwn, NoRecords
<1> QED BY <1>1 DEF CommitInit, CommitInv, CommitShape, CommitsOwn, RunsOwn, Filled

\* An answer of GitHub is the tree of the commit, or that there is none.
LEMMA FetchKeeps ==
  ASSUME CommitInv, NEW b \in Backfillers, NEW c \in Shas, FetchCommit(b, c)
  PROVE  CommitInv'
<1>1. UNCHANGED <<runs, runTree, commits, place, late, cuts>>
  BY DEF FetchCommit
<1>2. CommitShape /\ RecordsOwn /\ cuts \in Nat /\ Filled
  BY DEF CommitInv, CommitShape
<1>3. CASE UNCHANGED records
  BY <1>1, <1>2, <1>3 DEF CommitInv, CommitShape, CommitsOwn, RecordsOwn, RunsOwn, Filled, Stored
<1>4. CASE \E t \in {treeOf[c], NoTree} :
             records' = [records EXCEPT ![b] = [d \in DOMAIN @ \cup {c} |-> IF d = c THEN t ELSE @[d]]]
  <2>1. PICK t \in {treeOf[c], NoTree} :
          records' = [records EXCEPT ![b] =
                        [d \in DOMAIN records[b] \cup {c} |-> IF d = c THEN t ELSE records[b][d]]]
    BY <1>4
  <2>2. records'[b] = [d \in DOMAIN records[b] \cup {c} |-> IF d = c THEN t ELSE records[b][d]]
        /\ (\A e \in Backfillers \ {b} : records'[e] = records[e])
        /\ records' = [e \in Backfillers |-> records'[e]]
    BY <1>2, <2>1 DEF CommitShape
  <2>3. RecordsOwn'
    BY <1>2, <2>2 DEF RecordsOwn
  <2> QED BY <1>1, <1>2, <2>2, <2>3 DEF CommitInv, CommitShape, CommitsOwn, RunsOwn, Filled, Stored
<1> QED BY <1>3, <1>4 DEF FetchCommit

\* store_commits: what is written of a commit is its tree, and a known tree stays.
LEMMA StoreWrites ==
  ASSUME CommitInv, NEW b \in Backfillers, StoreCommits(b), NEW c \in Shas
  PROVE  /\ commits'[c] \in {NoCommit, NoTree, treeOf[c]}
         /\ commits[c] \notin {NoCommit, NoTree} => commits'[c] = commits[c]
<1>1. CASE c \in DOMAIN records[b]
  <2>1. commits'[c] = Merged(records[b][c], commits[c])
    BY <1>1 DEF StoreCommits
  <2>2. records[b][c] \in {NoTree, treeOf[c]} /\ commits[c] \in {NoCommit, NoTree, treeOf[c]}
    BY <1>1 DEF CommitInv, CommitShape, RecordsOwn, CommitsOwn
  <2> QED BY <2>1, <2>2 DEF Merged, Coalesce
<1>2. CASE c \notin DOMAIN records[b]
  BY <1>2 DEF StoreCommits, CommitInv, CommitShape, CommitsOwn
<1> QED BY <1>1, <1>2

LEMMA StoreKeeps ==
  ASSUME CommitInv, NEW b \in Backfillers, StoreCommits(b)
  PROVE  CommitInv'
<1>1. /\ place' = [place EXCEPT ![b] = "filling"] /\ place'[b] = "filling"
      /\ records' = [records EXCEPT ![b] = NoRecords]
      /\ UNCHANGED <<runs, runTree, late, cuts>>
  BY DEF StoreCommits, CommitInv, CommitShape
<1>2. CommitsOwn'
  BY StoreWrites DEF CommitsOwn
<1>3. RecordsOwn'
  <2>1. records'[b] = NoRecords /\ \A e \in Backfillers \ {b} : records'[e] = records[e]
    BY <1>1 DEF CommitInv, CommitShape
  <2> QED BY <2>1 DEF CommitInv, CommitShape, RecordsOwn, NoRecords
<1>4. commits' = [c \in Shas |-> commits'[c]]
  BY DEF StoreCommits
<1>5. CommitShape'
  BY <1>1, <1>2, <1>3, <1>4 DEF CommitInv, CommitShape, RunsOwn
<1>6. Filled'
  BY <1>1 DEF Filled
<1> QED BY <1>1, <1>5, <1>6 DEF CommitInv

\* backfill_tree_shas fills whatever can be filled.
LEMMA FillKeeps ==
  ASSUME CommitInv, NEW b \in Backfillers, FillTrees(b)
  PROVE  CommitInv'
<1>1. /\ runTree' = [r \in Runs |-> IF r \in Fillable THEN commits[head[r]] ELSE runTree[r]]
      /\ late' = late \ Fillable /\ UNCHANGED <<runs, commits, cuts>>
      /\ place' = [place EXCEPT ![b] = "idle"] /\ records' = [records EXCEPT ![b] = NoRecords]
  BY DEF FillTrees, EndPass
<1>2. CommitShape /\ cuts \in Nat
  BY DEF CommitInv
<1>3. RecordsOwn'
  <2>1. records'[b] = NoRecords /\ \A e \in Backfillers \ {b} : records'[e] = records[e]
    BY <1>1, <1>2 DEF CommitShape
  <2> QED BY <1>2, <2>1 DEF CommitShape, RecordsOwn, NoRecords
<1>4. \A r \in Fillable : r \in Runs /\ head[r] \in Shas /\ commits[head[r]] = treeOf[head[r]] /\ treeOf[head[r]] # NoTree
  BY <1>2, HeadsAreCommits DEF Fillable, Stored, CommitShape, CommitsOwn
<1>5. RunsOwn'
  BY <1>1, <1>2, <1>4 DEF CommitShape, RunsOwn
<1>6. CommitShape'
  BY <1>1, <1>2, <1>3, <1>5 DEF CommitShape, CommitsOwn
<1>7. Filled'
  <2>1. ASSUME NEW r \in runs' \ late', head[r] \in Stored', commits'[head[r]] # NoTree
        PROVE  runTree'[r] # NoTree
    <3>1. r \in Runs /\ head[r] \in Stored /\ commits[head[r]] # NoTree
      BY <1>1, <1>2, <2>1 DEF CommitShape, Stored
    <3>2. r \in Fillable => runTree'[r] # NoTree
      BY <1>1, <1>4
    <3>3. r \notin Fillable => runTree[r] # NoTree /\ runTree'[r] = runTree[r]
      BY <1>1, <2>1, <3>1 DEF Fillable
    <3> QED BY <3>2, <3>3
  <2> QED BY <2>1 DEF Filled
<1> QED BY <1>1, <1>2, <1>6, <1>7 DEF CommitInv

LEMMA CutKeeps ==
  ASSUME CommitInv, NEW b \in Backfillers, PassCut(b)
  PROVE  CommitInv'
<1>1. /\ UNCHANGED <<runs, runTree, commits>> /\ cuts' = cuts + 1
      /\ place' = [place EXCEPT ![b] = "idle"] /\ records' = [records EXCEPT ![b] = NoRecords]
  BY DEF PassCut, EndPass
<1>2. records'[b] = NoRecords /\ \A e \in Backfillers \ {b} : records'[e] = records[e]
  BY <1>1 DEF CommitInv, CommitShape
<1>3. CommitShape'
  BY <1>1, <1>2 DEF CommitInv, CommitShape, CommitsOwn, RunsOwn, RecordsOwn, NoRecords
<1>4. cuts' \in Nat /\ cuts' # 0
  BY <1>1 DEF CommitInv
<1> QED BY <1>3, <1>4 DEF CommitInv, Filled

\* Every step preserves the invariant.
LEMMA CommitInductive == CommitInv /\ [CommitNext]_commitVars => CommitInv'
<1> SUFFICES ASSUME CommitInv, [CommitNext]_commitVars PROVE CommitInv'
  OBVIOUS
<1>1. CASE \E r \in Runs : RunArrives(r)
  <2>1. PICK r \in Runs : RunArrives(r)
    BY <1>1
  <2>2. UNCHANGED <<runTree, commits, records, place, cuts>> /\ runs' = runs \cup {r}
        /\ late \subseteq late' /\ (head[r] \in Stored => r \in late')
    BY <2>1 DEF RunArrives
  <2> QED BY <2>2 DEF CommitInv, CommitShape, CommitsOwn, RecordsOwn, RunsOwn, Filled, Stored
<1>2. CASE \E b \in Backfillers : BeginPass(b)
  <2>1. PICK b \in Backfillers : BeginPass(b)
    BY <1>2
  <2>2. UNCHANGED <<runs, runTree, commits, records, late, cuts>>
        /\ place[b] = "idle" /\ place' = [place EXCEPT ![b] = "fetching"]
    BY <2>1 DEF BeginPass
  <2>3. CommitShape' /\ cuts' \in Nat
    BY <2>2 DEF CommitInv, CommitShape, CommitsOwn, RecordsOwn, RunsOwn
  <2>4. (\A e \in Backfillers : place'[e] # "filling") => \A e \in Backfillers : place[e] # "filling"
    BY <2>2 DEF CommitInv, CommitShape
  <2> QED BY <2>2, <2>3, <2>4 DEF CommitInv, Filled, Stored
<1>3. CASE \E b \in Backfillers, c \in Shas : FetchCommit(b, c)
  BY <1>3, FetchKeeps
<1>4. CASE \E b \in Backfillers : StoreCommits(b)
  BY <1>4, StoreKeeps
<1>5. CASE \E b \in Backfillers : FillTrees(b)
  BY <1>5, FillKeeps
<1>6. CASE \E b \in Backfillers : PassCut(b)
  BY <1>6, CutKeeps
<1>7. CASE UNCHANGED commitVars
  BY <1>7 DEF commitVars, CommitInv, CommitShape, CommitsOwn, RecordsOwn, RunsOwn, Filled, Stored
<1> QED BY <1>1, <1>2, <1>3, <1>4, <1>5, <1>6, <1>7 DEF CommitNext

-----------------------------------------------------------------------------
\* A known tree stays, in repo_commit and in run, and is that of the run's own commit, however
\* passes overlap and whatever thinner payloads come later (store_commits, backfill_tree_shas).
THEOREM TreesAreKept == CommitSpec => TreesStay
<1>1. CommitInv /\ [CommitNext]_commitVars =>
        [/\ \A c \in Stored : commits[c] # NoTree => commits'[c] = commits[c]
         /\ \A r \in runs : runTree[r] # NoTree => runTree'[r] = runTree[r] /\ runTree[r] = treeOf[head[r]]]_commitVars
  <2> SUFFICES ASSUME CommitInv, CommitNext
               PROVE  /\ \A c \in Stored : commits[c] # NoTree => commits'[c] = commits[c]
                      /\ \A r \in runs : runTree[r] # NoTree =>
                           runTree'[r] = runTree[r] /\ runTree[r] = treeOf[head[r]]
    OBVIOUS
  <2>1. ASSUME NEW c \in Stored, commits[c] # NoTree PROVE commits'[c] = commits[c]
    <3>1. commits' = commits \/ \E b \in Backfillers : StoreCommits(b)
      BY DEF CommitNext, RunArrives, BeginPass, FetchCommit, FillTrees, PassCut
    <3> QED BY <2>1, <3>1, StoreWrites DEF Stored
  <2>2. ASSUME NEW r \in runs, runTree[r] # NoTree
        PROVE  runTree'[r] = runTree[r] /\ runTree[r] = treeOf[head[r]]
    <3>1. runTree' = runTree \/ \E b \in Backfillers : FillTrees(b)
      BY DEF CommitNext, RunArrives, BeginPass, FetchCommit, StoreCommits, PassCut
    <3>2. r \in Runs /\ r \notin Fillable /\ runTree[r] = treeOf[head[r]]
      BY <2>2 DEF CommitInv, CommitShape, RunsOwn, Fillable
    <3> QED BY <3>1, <3>2 DEF FillTrees
  <2> QED BY <2>1, <2>2
<1> QED BY CommitInitially, CommitInductive, <1>1, PTL DEF CommitSpec, TreesStay

\* When every pass is over and none was cut short, a run has the tree of its commit if that is
\* known, unless it came after it.
THEOREM TreesComeToRuns == CommitSpec => []TreesFilled
<1>1. CommitInv => TreesFilled
  BY DEF CommitInv, Filled, TreesFilled
<1> QED BY CommitInitially, CommitInductive, <1>1, PTL DEF CommitSpec

-----------------------------------------------------------------------------
(* Passes advance. *)
LEMMA ShasAreFinite == IsFiniteSet(Shas) /\ IsFiniteSet(Runs)
<1> DEFINE h == [r \in Runs |-> head[r]]
<1>1. h \in Surjection(Runs, Shas)
  BY DEF Surjection, Shas
<1> HIDE DEF h
<1> QED BY <1>1, CommitAssumption, FS_Surjection

\* The newest run of a commit is one of its runs.
LEMMA NewestIsRun ==
  ASSUME NEW rs \in SUBSET Runs, NEW c \in {head[r] : r \in rs}
  PROVE  NewestOf(c, rs) \in Nat
<1> DEFINE S == {r \in rs : head[r] = c}
<1>1. S \in SUBSET Nat /\ S # {} /\ S \in SUBSET Runs
  BY CommitAssumption
<1>2. IsFiniteSet(S)
  <2> HIDE DEF S
  <2> QED BY <1>1, ShasAreFinite, FS_Subset
<1>3. \E m \in S : \A x \in S : m >= x
  <2> HIDE DEF S
  <2> QED BY <1>1, <1>2, LargestThere
<1>4. Max(S) \in S
  BY <1>3 DEF Max
<1> QED BY <1>1, <1>4 DEF NewestOf

\* Of some commits one is the newest.
LEMMA NewestThere ==
  ASSUME NEW rs \in SUBSET Runs, NEW cs \in SUBSET {head[r] : r \in rs}, cs # {}
  PROVE  \E c \in cs : \A d \in cs : NewestOf(c, rs) >= NewestOf(d, rs)
<1> DEFINE f == [c \in cs |-> NewestOf(c, rs)]
           S == {NewestOf(c, rs) : c \in cs}
<1>1. cs \in SUBSET Shas
  BY DEF Shas
<1>2. IsFiniteSet(cs)
  BY <1>1, ShasAreFinite, FS_Subset
<1>3. f \in Surjection(cs, S)
  BY DEF Surjection
<1>4. IsFiniteSet(S)
  <2> HIDE DEF f, S
  <2> QED BY <1>2, <1>3, FS_Surjection
<1>5. S \in SUBSET Nat /\ S # {}
  BY NewestIsRun
<1>6. \E m \in S : \A x \in S : m >= x
  <2> HIDE DEF S
  <2> QED BY <1>4, <1>5, LargestThere
<1> QED BY <1>6

\* What a pass asks for has a commit that is not lost, if any is missing, unless Limit are.
LEMMA UnfetchedHelps ==
  ASSUME runs \in SUBSET Runs
  PROVE  LET heads == {head[r] : r \in runs} IN
         \/ Cardinality(heads \cap Lost) >= Limit
         \/ heads \ (Stored \cup Lost) = {}
         \/ \E c \in Unfetched : c \in heads \ (Stored \cup Lost)
<1> DEFINE heads == {head[r] : r \in runs}
           missing == heads \ Stored
           good == missing \ Lost
<1> SUFFICES ASSUME good # {}, \A c \in Unfetched : c \notin good
             PROVE  Cardinality(heads \cap Lost) >= Limit
  OBVIOUS
<1>1. PICK c \in good : \A d \in good : Newest(c) >= Newest(d)
  BY NewestThere DEF Newest
<1> DEFINE newer == {d \in missing : Newest(d) > Newest(c)}
<1>2. \A d \in missing : Newest(d) \in Nat
  BY NewestIsRun DEF Newest
<1>3. ~(Cardinality(newer) < Limit)
  BY <1>1 DEF Unfetched, FirstOf
<1>4. newer \subseteq heads \cap Lost
  BY <1>1, <1>2
<1>5. IsFiniteSet(heads \cap Lost) /\ Cardinality(heads \cap Lost) \in Nat
  BY CommitAssumption, ShasAreFinite, FS_Subset, FS_Intersection, FS_CardinalityType
<1>6. Cardinality(newer) \in Nat /\ Cardinality(newer) <= Cardinality(heads \cap Lost)
  <2> HIDE DEF newer, heads
  <2> QED BY <1>4, <1>5, FS_Subset, FS_CardinalityType
<1> QED BY <1>3, <1>5, <1>6, CommitAssumption

SeenBy(b) == {head[r] : r \in known[b].runs}
MissedBy(b) == SeenBy(b) \ (known[b].stored \cup Lost)
Excused(b) == Cardinality(SeenBy(b) \cap Lost) >= Limit \/ MissedBy(b) = {}

\* A pass has a commit in hand that was missing and is not lost, and stores it.
Useful(b) ==
  /\ place[b] = "fetching" =>
       Excused(b) \/ \E c \in MissedBy(b) : c \in todo[b] \/ c \in DOMAIN records[b]
  /\ place[b] = "filling" => Excused(b) \/ Stored \ known[b].stored # {}

PassInv ==
  /\ todo = [b \in Backfillers |-> todo[b]]
  /\ known = [b \in Backfillers |-> known[b]]
  /\ \A b \in Backfillers : Useful(b)

LEMMA PassInitially == CommitInit => PassInv
  BY DEF CommitInit, PassInv, Useful

\* What other steps leave alone.
LEMMA UsefulStays ==
  ASSUME NEW b \in Backfillers, Useful(b), place'[b] = place[b], todo'[b] = todo[b],
         records'[b] = records[b], known'[b] = known[b], Stored \subseteq Stored'
  PROVE  Useful(b)'
  BY DEF Useful, Excused, MissedBy, SeenBy

\* A step of one pass.
LEMMA PassStep ==
  ASSUME CommitInv, PassInv, NEW b \in Backfillers,
         \/ BeginPass(b) \/ (\E c \in Shas : FetchCommit(b, c))
         \/ StoreCommits(b) \/ FillTrees(b) \/ PassCut(b)
  PROVE  PassInv'
<1>1. CommitShape /\ RecordsOwn /\ Useful(b)
  BY DEF CommitInv, CommitShape, PassInv
<1>2. /\ todo' = [e \in Backfillers |-> todo'[e]] /\ known' = [e \in Backfillers |-> known'[e]]
      /\ \A e \in Backfillers \ {b} :
           place'[e] = place[e] /\ todo'[e] = todo[e] /\ records'[e] = records[e] /\ known'[e] = known[e]
  BY <1>1 DEF BeginPass, FetchCommit, StoreCommits, FillTrees, PassCut, EndPass, CommitShape, PassInv
<1>3. Stored \subseteq Stored'
  <2>1. CASE StoreCommits(b)
    <3>1. ASSUME NEW c \in Shas, commits[c] # NoCommit PROVE commits'[c] # NoCommit
      <4>1. CASE c \in DOMAIN records[b]
        <5>1. records[b][c] \in {NoTree, treeOf[c]} /\ treeOf[c] # NoCommit /\ NoTree # NoCommit
          BY <1>1, <4>1, CommitAssumption DEF RecordsOwn
        <5>2. commits'[c] = Merged(records[b][c], commits[c])
          BY <2>1, <4>1 DEF StoreCommits
        <5> QED BY <3>1, <5>1, <5>2 DEF Merged, Coalesce
      <4>2. CASE c \notin DOMAIN records[b]
        BY <2>1, <3>1, <4>2 DEF StoreCommits
      <4> QED BY <4>1, <4>2
    <3> QED BY <3>1 DEF Stored
  <2>2. CASE ~StoreCommits(b)
    BY <2>2 DEF Stored, BeginPass, FetchCommit, FillTrees, PassCut
  <2> QED BY <2>1, <2>2
<1>4. Useful(b)'
  <2>1. CASE BeginPass(b)
    <3>1. /\ place'[b] = "fetching" /\ todo'[b] = Unfetched
          /\ known'[b] = [stored |-> Stored, runs |-> runs]
      BY <1>1, <2>1 DEF BeginPass, CommitShape, PassInv
    <3>2. LET heads == {head[r] : r \in runs} IN
          \/ Cardinality(heads \cap Lost) >= Limit
          \/ heads \ (Stored \cup Lost) = {}
          \/ \E c \in Unfetched : c \in heads \ (Stored \cup Lost)
      BY <1>1, UnfetchedHelps DEF CommitShape
    <3>3. known'[b].runs = runs /\ known'[b].stored = Stored
      BY <3>1
    <3> HIDE DEF Unfetched
    <3> QED BY <3>1, <3>2, <3>3 DEF Useful, Excused, MissedBy, SeenBy
  <2>2. CASE \E c \in Shas : FetchCommit(b, c)
    <3>1. PICK c \in Shas : FetchCommit(b, c)
      BY <2>2
    <3>2. /\ place[b] = "fetching" /\ place'[b] = "fetching" /\ known'[b] = known[b]
          /\ todo'[b] = todo[b] \ {c}
      BY <3>1 DEF FetchCommit, PassInv
    <3>3. c \notin Lost => c \in DOMAIN records'[b]
      BY <1>1, <3>1 DEF FetchCommit, CommitShape
    <3>4. DOMAIN records[b] \subseteq DOMAIN records'[b]
      BY <1>1, <3>1 DEF FetchCommit, CommitShape
    <3> QED BY <1>1, <3>2, <3>3, <3>4 DEF Useful, Excused, MissedBy, SeenBy
  <2>3. CASE StoreCommits(b)
    <3>1. /\ place[b] = "fetching" /\ place'[b] = "filling" /\ known'[b] = known[b] /\ todo[b] = {}
      BY <1>1, <2>3 DEF StoreCommits, CommitShape, PassInv
    <3>2. ASSUME NEW c \in DOMAIN records[b] PROVE c \in Stored'
      <4>1. c \in Shas /\ records[b][c] \in {NoTree, treeOf[c]} /\ treeOf[c] # NoCommit /\ NoTree # NoCommit
        BY <1>1, CommitAssumption DEF RecordsOwn
      <4>2. commits'[c] = Merged(records[b][c], commits[c])
        BY <2>3, <4>1 DEF StoreCommits
      <4> QED BY <4>1, <4>2 DEF Merged, Coalesce, Stored
    <3>3. Excused(b) \/ \E c \in MissedBy(b) : c \in Stored'
      BY <1>1, <3>1, <3>2 DEF Useful
    <3> QED BY <3>1, <3>3 DEF Useful, Excused, MissedBy, SeenBy
  <2>4. CASE FillTrees(b) \/ PassCut(b)
    <3>1. place'[b] = "idle"
      BY <1>1, <2>4 DEF FillTrees, PassCut, EndPass, CommitShape
    <3> QED BY <3>1 DEF Useful
  <2> QED BY <2>1, <2>2, <2>3, <2>4
<1>5. \A e \in Backfillers \ {b} : Useful(e)'
  BY <1>2, <1>3, UsefulStays DEF PassInv
<1> QED BY <1>2, <1>4, <1>5 DEF PassInv

LEMMA PassInductive == CommitInv /\ PassInv /\ [CommitNext]_commitVars => PassInv'
<1> SUFFICES ASSUME CommitInv, PassInv, [CommitNext]_commitVars PROVE PassInv'
  OBVIOUS
<1>1. CASE UNCHANGED <<place, todo, records, known, commits>>
  BY <1>1, UsefulStays DEF PassInv, Stored
<1>2. CASE \E b \in Backfillers :
             \/ BeginPass(b) \/ (\E c \in Shas : FetchCommit(b, c))
             \/ StoreCommits(b) \/ FillTrees(b) \/ PassCut(b)
  BY <1>2, PassStep
<1> QED BY <1>1, <1>2 DEF CommitNext, RunArrives, commitVars

\* A pass that comes to its end has stored a commit that was missing, unless Limit of the commits it
\* knew of are lost or none was missing: with fewer lost, repeated passes come to an end
\* (unfetched_shas, newest first; the loop of commits_backfill).
THEOREM PassesDoAdvance == CommitSpec => PassesAdvance
<1>1. CommitInv /\ PassInv /\ [CommitNext]_commitVars =>
        [\A b \in Backfillers :
           (place[b] = "filling" /\ place'[b] = "idle" /\ cuts' = cuts)
             => LET heads == {head[r] : r \in known[b].runs}
                IN  \/ Stored \ known[b].stored # {}
                    \/ Cardinality(heads \cap Lost) >= Limit
                    \/ heads \ (known[b].stored \cup Lost) = {}]_commitVars
  BY DEF PassInv, Useful, Excused, MissedBy, SeenBy
<1> QED BY CommitInitially, CommitInductive, PassInitially, PassInductive, <1>1, PTL DEF CommitSpec, PassesAdvance

-----------------------------------------------------------------------------
(* ConfigStore: the history of a path, as committed stores and those that are open make it. *)

\* Auditor a has a store open that holds path p.
HoldsPath(a, p) == began[a] # 0 /\ read[a][p] # Absent

OtherRow(a, p) == \E u \in Texts \ {read[a][p]} : snapshot[p][u] # None

\* What is between statements belongs to an open store, and its paths are those that were read.
StoresOpen ==
  \A a \in Auditors :
    /\ began[a] = 0 => pending[a] = {} /\ had[a] = {} /\ draft[a] = NoDraft
    /\ began[a] # 0 => read[a] # NoFiles
    /\ pending[a] \subseteq Present(read[a])
    /\ \A h \in had[a] :
         /\ had[a] = {h} /\ h.path \notin pending[a] /\ read[a][h.path] # Absent
         /\ h.other => OtherRow(a, h.path)

\* No two stores have one time, and none a later one than the clock.
StoreTimes ==
  /\ \A a \in Auditors : began[a] <= clock
  /\ \A a, b \in Auditors : began[a] # 0 /\ began[a] = began[b] => a = b
  /\ \A p \in Paths : \A s \in stored[p] :
       /\ 0 < s.time /\ s.time <= clock
       /\ \A a \in Auditors : s.time # began[a]
       /\ \A r \in stored[p] : r.time = s.time => r = s

\* A row stands for stores of that content, and there is one for each of them.
RowsAreStored ==
  \A p \in Paths :
    /\ \A t \in Texts : snapshot[p][t] # None =>
         /\ [time |-> snapshot[p][t].first, text |-> t] \in stored[p]
         /\ [time |-> snapshot[p][t].last, text |-> t] \in stored[p]
    /\ \A s \in stored[p] : snapshot[p][s.text] # None

NewestIsLast ==
  \A p \in Paths : p \notin backwards =>
    \A s \in stored[p] : (\A r \in stored[p] : r.time <= s.time) => snapshot[p][s.text].last = s.time

\* What an open store has written: one draft of each path that is done, alone with its row.
DraftsAreOwn ==
  \A a \in Auditors, p \in Paths :
    /\ draft[a][p] # None => HoldsPath(a, p)
    /\ HoldsPath(a, p) => \/ draft[a][p] # None
                          \/ p \in pending[a]
                          \/ \E h \in had[a] : h.path = p
    /\ draft[a][p] # None =>
         /\ draft[a][p] = Upserted(snapshot[p][read[a][p]], began[a])
         /\ \A b \in Auditors : draft[b][p] # None /\ read[a][p] = read[b][p] => a = b

\* A path that is counted gets another row besides those that it has, and fewer are counted.
ChangesAreNew ==
  /\ \A a \in Auditors : \A p \in changed[a] :
       /\ draft[a][p] # None
       /\ snapshot[p][read[a][p]] = None /\ OtherRow(a, p)
  /\ \A p \in Paths :
       /\ IsFiniteSet(Versions(p))
       /\ IF Versions(p) = {} THEN changes[p] = 0 ELSE changes[p] < Cardinality(Versions(p))

\* Without overlap one store after the other holds a path, and nothing happens to it meanwhile.
OneByOne ==
  \A p \in Paths : p \notin overlapped =>
    /\ \A a, b \in Auditors : HoldsPath(a, p) /\ HoldsPath(b, p) => a = b
    /\ \A s \in stored[p] :
         /\ snapshot[p][s.text].first <= s.time
         /\ \A a \in Auditors : HoldsPath(a, p) => s.time < began[a]
    /\ \A a \in Auditors :
         /\ \A h \in had[a] : h.path = p => h.other = OtherRow(a, p)
         /\ draft[a][p] # None /\ snapshot[p][read[a][p]] = None /\ OtherRow(a, p) => p \in changed[a]
    /\ Versions(p) # {} => changes[p] = Cardinality(Versions(p)) - 1

ConfigInv ==
  /\ ConfigTypeOK /\ StoresOpen /\ StoreTimes /\ RowsAreStored
  /\ NewestIsLast /\ DraftsAreOwn /\ ChangesAreNew /\ OneByOne

LEMMA ConfigInitially == ConfigInit => ConfigInv
<1> SUFFICES ASSUME ConfigInit PROVE ConfigInv
  OBVIOUS
<1>1. MaxAudits \in Nat /\ MaxEdits \in Nat
  BY ConfigAssumption
<1>2. None \in Row /\ 0 \in 0 .. MaxAudits /\ 0 \in 0 .. MaxEdits
  BY <1>1 DEF None, Row
<1>3. NoFiles \in [Paths -> Texts \cup {Absent}] /\ NoDraft \in [Paths -> Row]
  BY <1>2 DEF NoFiles, NoDraft
<1>4. ConfigTypeOK
  BY <1>2, <1>3 DEF ConfigInit, ConfigTypeOK
<1>5. StoresOpen
  BY DEF ConfigInit, StoresOpen
<1>6. StoreTimes /\ RowsAreStored /\ NewestIsLast
  BY DEF ConfigInit, StoreTimes, RowsAreStored, NewestIsLast
<1>7. \A a \in Auditors, p \in Paths : ~ HoldsPath(a, p) /\ draft[a][p] = None
  BY DEF ConfigInit, HoldsPath, NoDraft
<1>8. DraftsAreOwn
  BY <1>7 DEF DraftsAreOwn
<1>9. \A p \in Paths : Versions(p) = {} /\ IsFiniteSet(Versions(p)) /\ changes[p] = 0
  BY FS_EmptySet DEF ConfigInit, Versions
<1>10. ChangesAreNew
  BY <1>9 DEF ConfigInit, ChangesAreNew
<1>11. OneByOne
  BY <1>7, <1>9 DEF ConfigInit, OneByOne
<1> QED BY <1>4, <1>5, <1>6, <1>8, <1>10, <1>11 DEF ConfigInv

\* What is read of a path is a text, or nothing.
LEMMA ReadIs ==
  ASSUME ConfigTypeOK, NEW a \in Auditors, NEW p \in Paths
  PROVE  read[a][p] # Absent => read[a][p] \in Texts
BY DEF ConfigTypeOK

LEMMA ReadFilesKeeps ==
  ASSUME ConfigInv, NEW a \in Auditors, ReadFiles(a)
  PROVE  ConfigInv'
<1>1. /\ ConfigTypeOK /\ StoresOpen /\ StoreTimes /\ RowsAreStored
      /\ NewestIsLast /\ DraftsAreOwn /\ ChangesAreNew /\ OneByOne
  BY DEF ConfigInv
<1>2. /\ UNCHANGED <<file, storeVars, clock, began, pending, had, draft, changed, overlapped, edits>>
      /\ UNCHANGED <<snapshot, changes, stored, backwards>>
      /\ read' = [read EXCEPT ![a] = file] /\ read[a] = NoFiles
  BY DEF ReadFiles, storeVars
<1>3. ConfigTypeOK'
  BY <1>1, <1>2 DEF ConfigTypeOK
<1>4. began[a] = 0 /\ pending[a] = {} /\ had[a] = {} /\ draft[a] = NoDraft
  BY <1>1, <1>2 DEF StoresOpen
<1>5. \A b \in Auditors \ {a} : read'[b] = read[b]
  BY <1>1, <1>2 DEF ConfigTypeOK
<1>6. \A p \in Paths : ~ HoldsPath(a, p) /\ ~ HoldsPath(a, p)' /\ draft[a][p] = None
  BY <1>2, <1>4 DEF HoldsPath, NoDraft
<1>7. \A b \in Auditors \ {a}, p \in Paths :
        HoldsPath(b, p)' = HoldsPath(b, p) /\ OtherRow(b, p)' = OtherRow(b, p)
  BY <1>2, <1>5 DEF HoldsPath, OtherRow
<1>8. \A p \in Paths : Versions(p)' = Versions(p)
  BY <1>2 DEF Versions
<1>9. StoresOpen'
  <2>1. ASSUME NEW b \in Auditors, NEW h \in had'[b]
        PROVE  had'[b] = {h} /\ h.path \notin pending'[b] /\ read'[b][h.path] # Absent /\ (h.other => OtherRow(b, h.path)')
    <3>1. b # a /\ h \in had[b] /\ h.path \in Paths
      BY <1>1, <1>2, <1>4, <2>1 DEF ConfigTypeOK
    <3> QED BY <1>1, <1>2, <1>5, <1>7, <3>1 DEF StoresOpen
  <2>2. ASSUME NEW b \in Auditors
        PROVE  /\ began'[b] = 0 => pending'[b] = {} /\ had'[b] = {} /\ draft'[b] = NoDraft
               /\ began'[b] # 0 => read'[b] # NoFiles
               /\ pending'[b] \subseteq Present(read'[b])
    BY <1>1, <1>2, <1>4, <1>5 DEF StoresOpen, Present
  <2> QED BY <2>1, <2>2 DEF StoresOpen, Present, NoDraft, NoFiles
<1>10. StoreTimes' /\ RowsAreStored' /\ NewestIsLast'
  BY <1>1, <1>2 DEF StoreTimes, RowsAreStored, NewestIsLast
<1>11. DraftsAreOwn'
  BY <1>1, <1>2, <1>5, <1>6, <1>7 DEF DraftsAreOwn
<1>12. ChangesAreNew'
  <2>1. ASSUME NEW b \in Auditors, NEW p \in changed'[b]
        PROVE  draft'[b][p] # None /\ snapshot'[p][read'[b][p]] = None /\ OtherRow(b, p)'
    <3>1. p \in Paths /\ p \in changed[b] /\ draft[b][p] # None
      BY <1>1, <1>2, <2>1 DEF ChangesAreNew, ConfigTypeOK
    <3> QED BY <1>1, <1>2, <1>5, <1>6, <1>7, <3>1 DEF ChangesAreNew
  <2>2. \A p \in Paths : /\ IsFiniteSet(Versions(p)')
                         /\ IF Versions(p)' = {} THEN changes'[p] = 0 ELSE changes'[p] < Cardinality(Versions(p)')
    BY <1>1, <1>2, <1>8 DEF ChangesAreNew
  <2> QED BY <2>1, <2>2 DEF ChangesAreNew
<1>13. OneByOne'
  <2> SUFFICES ASSUME NEW p \in Paths, p \notin overlapped
               PROVE  /\ \A b, c \in Auditors : HoldsPath(b, p)' /\ HoldsPath(c, p)' => b = c
                      /\ \A s \in stored[p] :
                           /\ snapshot[p][s.text].first <= s.time
                           /\ \A b \in Auditors : HoldsPath(b, p)' => s.time < began[b]
                      /\ \A b \in Auditors :
                           /\ \A h \in had[b] : h.path = p => h.other = OtherRow(b, p)'
                           /\ draft[b][p] # None /\ snapshot[p][read'[b][p]] = None /\ OtherRow(b, p)' => p \in changed[b]
                      /\ Versions(p) # {} => changes[p] = Cardinality(Versions(p)) - 1
    BY <1>2, <1>8 DEF OneByOne
  <2> QED BY <1>1, <1>4, <1>5, <1>6, <1>7 DEF OneByOne
<1> QED BY <1>3, <1>9, <1>10, <1>11, <1>12, <1>13 DEF ConfigInv

\* What is edited in the repository is no part of it.
LEMMA StaysOtherwise ==
  ASSUME ConfigInv,
         UNCHANGED <<snapshot, changes, stored, backwards, clock, read, began, pending, had, draft, changed, overlapped>>
  PROVE  /\ StoresOpen' /\ StoreTimes' /\ RowsAreStored' /\ NewestIsLast'
         /\ DraftsAreOwn' /\ ChangesAreNew' /\ OneByOne'
<1>1. StoresOpen'
  BY DEF ConfigInv, StoresOpen, OtherRow, Present, NoFiles, NoDraft
<1>2. StoreTimes' /\ RowsAreStored' /\ NewestIsLast' /\ DraftsAreOwn'
  BY DEF ConfigInv, StoreTimes, RowsAreStored, NewestIsLast, DraftsAreOwn, HoldsPath
<1>3. /\ \A a \in Auditors, q \in Paths : OtherRow(a, q)' = OtherRow(a, q) /\ HoldsPath(a, q)' = HoldsPath(a, q)
      /\ \A q \in Paths : Versions(q)' = Versions(q)
  BY DEF HoldsPath, OtherRow, Versions
<1>4. ChangesAreNew'
  <2>1. ASSUME NEW a \in Auditors, NEW q \in changed'[a]
        PROVE  draft'[a][q] # None /\ snapshot'[q][read'[a][q]] = None /\ OtherRow(a, q)'
    <3>1. q \in Paths /\ q \in changed[a]
      BY <2>1 DEF ConfigInv, ConfigTypeOK
    <3> QED BY <1>3, <3>1 DEF ConfigInv, ChangesAreNew
  <2>2. \A q \in Paths : /\ IsFiniteSet(Versions(q)')
                         /\ IF Versions(q)' = {} THEN changes'[q] = 0 ELSE changes'[q] < Cardinality(Versions(q)')
    BY <1>3 DEF ConfigInv, ChangesAreNew
  <2> QED BY <2>1, <2>2 DEF ChangesAreNew
<1>5. OneByOne'
  BY <1>3 DEF ConfigInv, OneByOne
<1> QED BY <1>1, <1>2, <1>4, <1>5

LEMMA EditFileKeeps ==
  ASSUME ConfigInv, NEW p \in Paths, NEW t \in Texts \cup {Absent}, EditFile(p, t)
  PROVE  ConfigInv'
<1>1. /\ UNCHANGED <<snapshot, changes, stored, backwards, clock, read, began, pending, had, draft, changed, overlapped>>
      /\ file' = [file EXCEPT ![p] = t] /\ edits < MaxEdits /\ edits' = edits + 1
  BY DEF EditFile, storeVars
<1>2. ConfigTypeOK'
  BY <1>1, ConfigAssumption DEF ConfigInv, ConfigTypeOK
<1> QED BY <1>1, <1>2, StaysOtherwise DEF ConfigInv

LEMMA BeginStoreKeeps ==
  ASSUME ConfigInv, NEW a \in Auditors, BeginStore(a)
  PROVE  ConfigInv'
<1>1. /\ ConfigTypeOK /\ StoresOpen /\ StoreTimes /\ RowsAreStored
      /\ NewestIsLast /\ DraftsAreOwn /\ ChangesAreNew /\ OneByOne
  BY DEF ConfigInv
<1>2. /\ UNCHANGED <<file, snapshot, changes, stored, backwards, read, had, draft, changed, edits>>
      /\ read[a] # NoFiles /\ began[a] = 0 /\ clock < MaxAudits /\ clock' = clock + 1
      /\ began' = [began EXCEPT ![a] = clock'] /\ pending' = [pending EXCEPT ![a] = Present(read[a])]
      /\ overlapped' = overlapped \cup
           {p \in Present(read[a]) : \E b \in Auditors : began[b] # 0 /\ read[b][p] # Absent}
  BY DEF BeginStore, storeVars
<1>3. /\ clock \in Nat /\ MaxAudits \in Nat /\ clock' \in 1 .. MaxAudits
      /\ Present(read[a]) \subseteq Paths /\ \A b \in Auditors : began[b] \in Nat
  BY <1>1, <1>2, ConfigAssumption DEF ConfigTypeOK, Present
<1>4. /\ began'[a] = clock' /\ pending'[a] = Present(read[a])
      /\ \A b \in Auditors \ {a} : began'[b] = began[b] /\ pending'[b] = pending[b]
  BY <1>1, <1>2 DEF ConfigTypeOK
<1>5. ConfigTypeOK'
  BY <1>1, <1>2, <1>3 DEF ConfigTypeOK
<1>6. had[a] = {} /\ \A p \in Paths : draft[a][p] = None
  BY <1>1, <1>2 DEF StoresOpen, NoDraft
<1>7. /\ \A b \in Auditors, p \in Paths : OtherRow(b, p)' = OtherRow(b, p)
      /\ \A b \in Auditors \ {a}, p \in Paths : HoldsPath(b, p)' = HoldsPath(b, p)
      /\ \A p \in Paths : HoldsPath(a, p)' <=> p \in Present(read[a])
      /\ \A p \in Paths : Versions(p)' = Versions(p)
  BY <1>2, <1>3, <1>4 DEF HoldsPath, OtherRow, Versions, Present
<1>8. StoresOpen'
  <2>1. ASSUME NEW b \in Auditors, NEW h \in had'[b]
        PROVE  had'[b] = {h} /\ h.path \notin pending'[b] /\ read'[b][h.path] # Absent /\ (h.other => OtherRow(b, h.path)')
    <3>1. b # a /\ h \in had[b] /\ h.path \in Paths
      BY <1>1, <1>2, <1>6, <2>1 DEF ConfigTypeOK
    <3> QED BY <1>1, <1>2, <1>4, <1>7, <3>1 DEF StoresOpen
  <2>2. ASSUME NEW b \in Auditors
        PROVE  /\ began'[b] = 0 => pending'[b] = {} /\ had'[b] = {} /\ draft'[b] = NoDraft
               /\ began'[b] # 0 => read'[b] # NoFiles
               /\ pending'[b] \subseteq Present(read'[b])
    BY <1>1, <1>2, <1>3, <1>4 DEF StoresOpen
  <2> QED BY <2>1, <2>2 DEF StoresOpen, Present, NoDraft, NoFiles
<1>9. StoreTimes'
  <2>1. \A b \in Auditors : began'[b] <= clock'
    BY <1>1, <1>2, <1>3, <1>4 DEF StoreTimes
  <2>2. \A b, c \in Auditors : began'[b] # 0 /\ began'[b] = began'[c] => b = c
    BY <1>1, <1>2, <1>3, <1>4 DEF StoreTimes
  <2>3. \A p \in Paths : \A s \in stored[p] : s.time \in Nat
    BY <1>1 DEF ConfigTypeOK
  <2>4. ASSUME NEW p \in Paths, NEW s \in stored[p]
        PROVE  /\ 0 < s.time /\ s.time <= clock' /\ \A b \in Auditors : s.time # began'[b]
               /\ \A r \in stored[p] : r.time = s.time => r = s
    BY <1>1, <1>2, <1>3, <1>4, <2>3 DEF StoreTimes
  <2> QED BY <1>2, <2>1, <2>2, <2>4 DEF StoreTimes
<1>10. RowsAreStored' /\ NewestIsLast'
  BY <1>1, <1>2 DEF RowsAreStored, NewestIsLast
<1>11. DraftsAreOwn'
  <2>1. ASSUME NEW b \in Auditors, NEW p \in Paths
        PROVE  /\ draft[b][p] # None => HoldsPath(b, p)'
               /\ HoldsPath(b, p)' => draft[b][p] # None \/ p \in pending'[b] \/ \E h \in had[b] : h.path = p
    BY <1>1, <1>4, <1>6, <1>7 DEF DraftsAreOwn
  <2>2. ASSUME NEW b \in Auditors, NEW p \in Paths, draft[b][p] # None
        PROVE  /\ draft[b][p] = Upserted(snapshot[p][read[b][p]], began'[b])
               /\ \A c \in Auditors : draft[c][p] # None /\ read[b][p] = read[c][p] => b = c
    <3>1. b # a
      BY <1>6, <2>2
    <3> QED BY <1>1, <1>4, <2>2, <3>1 DEF DraftsAreOwn
  <2> QED BY <1>2, <2>1, <2>2 DEF DraftsAreOwn
<1>12. ChangesAreNew'
  <2>1. ASSUME NEW b \in Auditors, NEW p \in changed'[b]
        PROVE  draft'[b][p] # None /\ snapshot'[p][read'[b][p]] = None /\ OtherRow(b, p)'
    <3>1. p \in Paths /\ p \in changed[b]
      BY <1>1, <1>2, <2>1 DEF ConfigTypeOK
    <3> QED BY <1>1, <1>2, <1>7, <3>1 DEF ChangesAreNew
  <2>2. \A p \in Paths : /\ IsFiniteSet(Versions(p)')
                         /\ IF Versions(p)' = {} THEN changes'[p] = 0 ELSE changes'[p] < Cardinality(Versions(p)')
    BY <1>1, <1>2, <1>7 DEF ChangesAreNew
  <2> QED BY <2>1, <2>2 DEF ChangesAreNew
<1>13. OneByOne'
  <2> SUFFICES ASSUME NEW p \in Paths, p \notin overlapped'
               PROVE  /\ \A b, c \in Auditors : HoldsPath(b, p)' /\ HoldsPath(c, p)' => b = c
                      /\ \A s \in stored[p] :
                           /\ snapshot[p][s.text].first <= s.time
                           /\ \A b \in Auditors : HoldsPath(b, p)' => s.time < began'[b]
                      /\ \A b \in Auditors :
                           /\ \A h \in had[b] : h.path = p => h.other = OtherRow(b, p)'
                           /\ draft[b][p] # None /\ snapshot[p][read[b][p]] = None /\ OtherRow(b, p)' => p \in changed[b]
                      /\ Versions(p) # {} => changes[p] = Cardinality(Versions(p)) - 1
    BY <1>2, <1>7 DEF OneByOne
  <2>1. p \notin overlapped /\ (p \in Present(read[a]) => \A b \in Auditors : ~ HoldsPath(b, p))
    BY <1>2 DEF HoldsPath
  <2>2. \A s \in stored[p] : s.time \in Nat /\ s.time <= clock
    BY <1>1 DEF ConfigTypeOK, StoreTimes
  <2>3. \A s \in stored[p], b \in Auditors : HoldsPath(b, p)' => s.time < began'[b]
    BY <1>1, <1>2, <1>3, <1>4, <1>7, <2>1, <2>2 DEF OneByOne
  <2>4. \A b, c \in Auditors : HoldsPath(b, p)' /\ HoldsPath(c, p)' => b = c
    BY <1>1, <1>7, <2>1 DEF OneByOne
  <2> QED BY <1>1, <1>7, <2>1, <2>3, <2>4 DEF OneByOne
<1> QED BY <1>5, <1>8, <1>9, <1>10, <1>11, <1>12, <1>13 DEF ConfigInv

LEMMA SelectOtherKeeps ==
  ASSUME ConfigInv, NEW a \in Auditors, NEW p \in Paths, SelectOther(a, p)
  PROVE  ConfigInv'
<1>1. /\ ConfigTypeOK /\ StoresOpen /\ StoreTimes /\ RowsAreStored
      /\ NewestIsLast /\ DraftsAreOwn /\ ChangesAreNew /\ OneByOne
  BY DEF ConfigInv
<1> DEFINE asked == [path |-> p, other |-> OtherRow(a, p)]
<1>2. /\ UNCHANGED <<file, snapshot, changes, stored, backwards, clock, read, began, draft, changed, overlapped, edits>>
      /\ had[a] = {} /\ p \in pending[a]
      /\ pending' = [pending EXCEPT ![a] = pending[a] \ {p}] /\ had' = [had EXCEPT ![a] = {asked}]
  BY DEF SelectOther, storeVars, OtherRow
<1>3. asked.path = p /\ (asked.other <=> OtherRow(a, p)) /\ OtherRow(a, p) \in BOOLEAN
  BY DEF OtherRow
<1>4. asked \in [path : Paths, other : BOOLEAN]
  BY <1>3
<1> HIDE DEF asked
<1>5. /\ had'[a] = {asked} /\ pending'[a] = pending[a] \ {p}
      /\ \A b \in Auditors \ {a} : had'[b] = had[b] /\ pending'[b] = pending[b]
  BY <1>1, <1>2 DEF ConfigTypeOK
<1>6. ConfigTypeOK'
  <2>1. had' \in [Auditors -> SUBSET [path : Paths, other : BOOLEAN]]
    BY <1>1, <1>2, <1>4 DEF ConfigTypeOK
  <2>2. pending' \in [Auditors -> SUBSET Paths]
    BY <1>1, <1>2 DEF ConfigTypeOK
  <2> QED BY <1>1, <1>2, <2>1, <2>2 DEF ConfigTypeOK
<1>7. /\ \A b \in Auditors, q \in Paths : OtherRow(b, q)' = OtherRow(b, q) /\ HoldsPath(b, q)' = HoldsPath(b, q)
      /\ \A q \in Paths : Versions(q)' = Versions(q)
  BY <1>2 DEF HoldsPath, OtherRow, Versions
<1>8. began[a] # 0 /\ read[a][p] # Absent
  BY <1>1, <1>2 DEF StoresOpen, Present
<1>9. StoresOpen'
  <2>1. ASSUME NEW b \in Auditors, NEW h \in had'[b]
        PROVE  had'[b] = {h} /\ h.path \notin pending'[b] /\ read[b][h.path] # Absent /\ (h.other => OtherRow(b, h.path)')
    <3>1. CASE b = a
      <4>1. h = asked
        BY <1>5, <2>1, <3>1
      <4> QED BY <1>3, <1>5, <1>7, <1>8, <3>1, <4>1
    <3>2. CASE b # a
      <4>1. h \in had[b] /\ h.path \in Paths
        BY <1>1, <1>5, <2>1, <3>2 DEF ConfigTypeOK
      <4> QED BY <1>1, <1>5, <1>7, <3>2, <4>1 DEF StoresOpen
    <3> QED BY <3>1, <3>2
  <2>2. ASSUME NEW b \in Auditors
        PROVE  /\ began[b] = 0 => pending'[b] = {} /\ had'[b] = {} /\ draft[b] = NoDraft
               /\ began[b] # 0 => read[b] # NoFiles
               /\ pending'[b] \subseteq Present(read[b])
    BY <1>1, <1>5, <1>8 DEF StoresOpen
  <2> QED BY <1>2, <2>1, <2>2 DEF StoresOpen, Present, NoDraft, NoFiles
<1>10. StoreTimes' /\ RowsAreStored' /\ NewestIsLast'
  BY <1>1, <1>2 DEF StoreTimes, RowsAreStored, NewestIsLast
<1>11. DraftsAreOwn'
  <2>1. ASSUME NEW b \in Auditors, NEW q \in Paths, HoldsPath(b, q)
        PROVE  draft[b][q] # None \/ q \in pending'[b] \/ \E h \in had'[b] : h.path = q
    <3>1. draft[b][q] # None \/ q \in pending[b] \/ \E h \in had[b] : h.path = q
      BY <1>1, <2>1 DEF DraftsAreOwn
    <3> QED BY <1>2, <1>3, <1>5, <3>1
  <2> QED BY <1>1, <1>2, <1>7, <2>1 DEF DraftsAreOwn
<1>12. ChangesAreNew'
  BY <1>1, <1>2 DEF ChangesAreNew, OtherRow, Versions
<1>13. OneByOne'
  <2> SUFFICES ASSUME NEW q \in Paths, q \notin overlapped
               PROVE  /\ \A b, c \in Auditors : HoldsPath(b, q)' /\ HoldsPath(c, q)' => b = c
                      /\ \A s \in stored[q] :
                           /\ snapshot[q][s.text].first <= s.time
                           /\ \A b \in Auditors : HoldsPath(b, q)' => s.time < began[b]
                      /\ \A b \in Auditors :
                           /\ \A h \in had'[b] : h.path = q => h.other = OtherRow(b, q)'
                           /\ draft[b][q] # None /\ snapshot[q][read[b][q]] = None /\ OtherRow(b, q)' => q \in changed[b]
                      /\ Versions(q) # {} => changes[q] = Cardinality(Versions(q)) - 1
    BY <1>2, <1>7 DEF OneByOne
  <2>1. ASSUME NEW b \in Auditors, NEW h \in had'[b], h.path = q PROVE h.other = OtherRow(b, q)'
    <3>1. CASE b = a
      <4>1. h = asked /\ q = p
        BY <1>3, <1>5, <2>1, <3>1
      <4>2. asked.other = OtherRow(a, p)
        BY DEF asked
      <4> QED BY <1>7, <3>1, <4>1, <4>2
    <3>2. CASE b # a
      BY <1>1, <1>5, <1>7, <2>1, <3>2 DEF OneByOne
    <3> QED BY <3>1, <3>2
  <2> QED BY <1>1, <1>7, <2>1 DEF OneByOne
<1> QED BY <1>6, <1>9, <1>10, <1>11, <1>12, <1>13 DEF ConfigInv

LEMMA StorePathKeeps ==
  ASSUME ConfigInv, NEW a \in Auditors, NEW g \in had[a], StorePath(a, g)
  PROVE  ConfigInv'
<1>1. /\ ConfigTypeOK /\ StoresOpen /\ StoreTimes /\ RowsAreStored
      /\ NewestIsLast /\ DraftsAreOwn /\ ChangesAreNew /\ OneByOne
  BY DEF ConfigInv
<1> DEFINE p == g.path
           t == read[a][p]
           row == Upserted(snapshot[p][t], began[a])
           more == IF g.other /\ snapshot[p][t] = None THEN changed[a] \cup {p} ELSE changed[a]
<1>2. /\ UNCHANGED <<file, snapshot, changes, stored, backwards, clock, read, began, pending, overlapped, edits>>
      /\ \A b \in Auditors \ {a} : ~ (read[b][p] = t /\ draft[b][p] # None)
      /\ had' = [had EXCEPT ![a] = {}] /\ draft' = [draft EXCEPT ![a][p] = row]
      /\ changed' = [changed EXCEPT ![a] = more]
  BY DEF StorePath, storeVars
<1>3. p \in Paths /\ t \in Texts /\ t # Absent /\ had[a] = {g} /\ began[a] # 0 /\ began[a] \in Nat
      /\ (g.other => OtherRow(a, p)) /\ g.other \in BOOLEAN /\ p \notin pending[a]
  <2>1. g \in [path : Paths, other : BOOLEAN]
    BY <1>1 DEF ConfigTypeOK
  <2>2. g.path \in Paths /\ g.other \in BOOLEAN
    BY <2>1
  <2>3. had[a] = {g} /\ p \notin pending[a] /\ t # Absent /\ (g.other => OtherRow(a, p))
    BY <1>1 DEF StoresOpen
  <2>4. t \in Texts
    BY <1>1, <2>2, <2>3, ReadIs
  <2>5. began[a] # 0 /\ began[a] \in Nat
    BY <1>1, <2>3, ConfigAssumption DEF StoresOpen, ConfigTypeOK
  <2> QED BY <2>2, <2>3, <2>4, <2>5
<1>4. row \in Row /\ row # None /\ row.last = began[a]
  <2>1. snapshot[p][t] \in Row
    BY <1>1, <1>3 DEF ConfigTypeOK
  <2> QED BY <1>3, <2>1 DEF Upserted, Row, None
<1>5. /\ had'[a] = {} /\ draft'[a][p] = row /\ changed'[a] = more
      /\ \A q \in Paths \ {p} : draft'[a][q] = draft[a][q]
      /\ \A b \in Auditors \ {a} : had'[b] = had[b] /\ draft'[b] = draft[b] /\ changed'[b] = changed[b]
  BY <1>1, <1>2, <1>3 DEF ConfigTypeOK
<1>6. more \subseteq Paths /\ (p \in more <=> p \in changed[a] \/ (g.other /\ snapshot[p][t] = None))
      /\ \A q \in Paths \ {p} : q \in more <=> q \in changed[a]
  BY <1>1, <1>3 DEF ConfigTypeOK
<1>7. ConfigTypeOK'
  <2>1. draft' \in [Auditors -> [Paths -> Row]]
    BY <1>1, <1>2, <1>3, <1>4 DEF ConfigTypeOK
  <2>2. changed' \in [Auditors -> SUBSET Paths] /\ had' \in [Auditors -> SUBSET [path : Paths, other : BOOLEAN]]
    BY <1>1, <1>2, <1>6 DEF ConfigTypeOK
  <2> QED BY <1>1, <1>2, <2>1, <2>2 DEF ConfigTypeOK
<1>8. /\ \A b \in Auditors, q \in Paths : OtherRow(b, q)' = OtherRow(b, q) /\ HoldsPath(b, q)' = HoldsPath(b, q)
      /\ \A q \in Paths : Versions(q)' = Versions(q)
  BY <1>2 DEF HoldsPath, OtherRow, Versions
<1>9. HoldsPath(a, p)
  BY <1>3 DEF HoldsPath
<1> HIDE DEF more, row
<1>10. StoresOpen'
  <2>1. ASSUME NEW b \in Auditors, NEW h \in had'[b]
        PROVE  had'[b] = {h} /\ h.path \notin pending[b] /\ read[b][h.path] # Absent /\ (h.other => OtherRow(b, h.path)')
    <3>1. b # a /\ h \in had[b] /\ h.path \in Paths
      BY <1>1, <1>5, <2>1 DEF ConfigTypeOK
    <3> QED BY <1>1, <1>5, <1>8, <3>1 DEF StoresOpen
  <2>2. ASSUME NEW b \in Auditors
        PROVE  /\ began[b] = 0 => pending[b] = {} /\ had'[b] = {} /\ draft'[b] = NoDraft
               /\ began[b] # 0 => read[b] # NoFiles
               /\ pending[b] \subseteq Present(read[b])
    BY <1>1, <1>3, <1>5 DEF StoresOpen
  <2> QED BY <1>2, <2>1, <2>2 DEF StoresOpen, Present, NoDraft, NoFiles
<1>11. StoreTimes' /\ RowsAreStored' /\ NewestIsLast'
  BY <1>1, <1>2 DEF StoreTimes, RowsAreStored, NewestIsLast
<1>12. \A b \in Auditors, q \in Paths : ~ (b = a /\ q = p) => draft'[b][q] = draft[b][q]
  BY <1>5
<1>13. DraftsAreOwn'
  <2>1. ASSUME NEW b \in Auditors, NEW q \in Paths
        PROVE  /\ draft'[b][q] # None => HoldsPath(b, q)
               /\ HoldsPath(b, q) => draft'[b][q] # None \/ q \in pending[b] \/ \E h \in had'[b] : h.path = q
    <3>1. CASE b = a /\ q = p
      BY <1>4, <1>5, <1>9, <3>1
    <3>2. CASE b = a /\ q # p
      <4>1. \A h \in had[a] : h.path # q
        BY <1>3, <3>2
      <4> QED BY <1>1, <1>12, <3>2, <4>1 DEF DraftsAreOwn
    <3>3. CASE b # a
      BY <1>1, <1>5, <1>12, <3>3 DEF DraftsAreOwn
    <3> QED BY <3>1, <3>2, <3>3
  <2>2. ASSUME NEW b \in Auditors, NEW q \in Paths, draft'[b][q] # None
        PROVE  draft'[b][q] = Upserted(snapshot[q][read[b][q]], began[b])
    <3>1. CASE b = a /\ q = p
      BY <1>5, <3>1 DEF row
    <3>2. CASE ~ (b = a /\ q = p)
      BY <1>1, <1>12, <2>2, <3>2 DEF DraftsAreOwn
    <3> QED BY <3>1, <3>2
  <2>3. ASSUME NEW b \in Auditors, NEW c \in Auditors, NEW q \in Paths,
               draft'[b][q] # None, draft'[c][q] # None, read[b][q] = read[c][q]
        PROVE  b = c
    <3>1. CASE q = p
      <4>1. \A d \in Auditors \ {a} : draft'[d][p] # None => read[d][p] # t
        BY <1>2, <1>12
      <4>2. CASE b = a \/ c = a
        BY <2>3, <3>1, <4>1, <4>2
      <4>3. CASE b # a /\ c # a
        BY <1>1, <1>12, <2>3, <4>3 DEF DraftsAreOwn
      <4> QED BY <4>2, <4>3
    <3>2. CASE q # p
      BY <1>1, <1>12, <2>3, <3>2 DEF DraftsAreOwn
    <3> QED BY <3>1, <3>2
  <2> QED BY <1>2, <1>8, <2>1, <2>2, <2>3 DEF DraftsAreOwn
<1>14. ChangesAreNew'
  <2>1. ASSUME NEW b \in Auditors, NEW q \in changed'[b]
        PROVE  draft'[b][q] # None /\ snapshot'[q][read'[b][q]] = None /\ OtherRow(b, q)'
    <3>1. q \in Paths
      BY <1>7, <2>1 DEF ConfigTypeOK
    <3>2. CASE b = a /\ q = p
      <4>1. snapshot[p][t] = None /\ OtherRow(a, p)
        BY <1>1, <1>3, <1>5, <1>6, <2>1, <3>2 DEF ChangesAreNew
      <4> QED BY <1>2, <1>4, <1>5, <1>8, <3>1, <3>2, <4>1
    <3>3. CASE ~ (b = a /\ q = p)
      <4>1. q \in changed[b]
        BY <1>5, <1>6, <2>1, <3>1, <3>3
      <4> QED BY <1>1, <1>2, <1>8, <1>12, <3>1, <3>3, <4>1 DEF ChangesAreNew
    <3> QED BY <3>2, <3>3
  <2>2. \A q \in Paths : /\ IsFiniteSet(Versions(q)')
                         /\ IF Versions(q)' = {} THEN changes'[q] = 0 ELSE changes'[q] < Cardinality(Versions(q)')
    BY <1>1, <1>2, <1>8 DEF ChangesAreNew
  <2> QED BY <2>1, <2>2 DEF ChangesAreNew
<1>15. OneByOne'
  <2> SUFFICES ASSUME NEW q \in Paths, q \notin overlapped
               PROVE  /\ \A b, c \in Auditors : HoldsPath(b, q)' /\ HoldsPath(c, q)' => b = c
                      /\ \A s \in stored[q] :
                           /\ snapshot[q][s.text].first <= s.time
                           /\ \A b \in Auditors : HoldsPath(b, q)' => s.time < began[b]
                      /\ \A b \in Auditors :
                           /\ \A h \in had'[b] : h.path = q => h.other = OtherRow(b, q)'
                           /\ draft'[b][q] # None /\ snapshot[q][read[b][q]] = None /\ OtherRow(b, q)' => q \in changed'[b]
                      /\ Versions(q) # {} => changes[q] = Cardinality(Versions(q)) - 1
    BY <1>2, <1>8 DEF OneByOne
  <2>1. \A b \in Auditors : \A h \in had'[b] : h.path = q => h.other = OtherRow(b, q)'
    BY <1>1, <1>5, <1>8 DEF OneByOne
  <2>2. ASSUME NEW b \in Auditors, draft'[b][q] # None, snapshot[q][read[b][q]] = None, OtherRow(b, q)
        PROVE  q \in changed'[b]
    <3>1. CASE b = a /\ q = p
      <4>1. g.other = OtherRow(a, p)
        BY <1>1, <3>1 DEF OneByOne
      <4> QED BY <1>5, <1>6, <2>2, <3>1, <4>1
    <3>2. CASE ~ (b = a /\ q = p)
      <4>1. q \in changed[b]
        BY <1>1, <1>12, <2>2, <3>2 DEF OneByOne
      <4> QED BY <1>5, <1>6, <4>1
    <3> QED BY <3>1, <3>2
  <2> QED BY <1>1, <1>8, <2>1, <2>2 DEF OneByOne
<1> QED BY <1>7, <1>10, <1>11, <1>13, <1>14, <1>15 DEF ConfigInv

\* After the end of a store nothing of it is left but what was committed.
LEMMA EndFacts ==
  ASSUME ConfigTypeOK, NEW a \in Auditors, EndStore(a)
  PROVE  /\ read'[a] = NoFiles /\ began'[a] = 0 /\ pending'[a] = {} /\ had'[a] = {}
         /\ draft'[a] = NoDraft /\ changed'[a] = {}
         /\ \A p \in Paths : draft'[a][p] = None /\ ~ HoldsPath(a, p)'
         /\ \A b \in Auditors \ {a} :
              /\ read'[b] = read[b] /\ began'[b] = began[b] /\ pending'[b] = pending[b]
              /\ had'[b] = had[b] /\ draft'[b] = draft[b] /\ changed'[b] = changed[b]
              /\ \A p \in Paths : HoldsPath(b, p)' = HoldsPath(b, p)
         /\ read' \in [Auditors -> [Paths -> Texts \cup {Absent}]]
         /\ began' \in [Auditors -> 0 .. MaxAudits]
         /\ pending' \in [Auditors -> SUBSET Paths]
         /\ had' \in [Auditors -> SUBSET [path : Paths, other : BOOLEAN]]
         /\ draft' \in [Auditors -> [Paths -> Row]]
         /\ changed' \in [Auditors -> SUBSET Paths]
         /\ file' \in [Paths -> Texts \cup {Absent}] /\ clock' \in 0 .. MaxAudits
         /\ overlapped' \subseteq Paths /\ edits' \in 0 .. MaxEdits
<1>0. MaxAudits \in Nat
  BY ConfigAssumption
<1>1. /\ read'[a] = NoFiles /\ began'[a] = 0 /\ pending'[a] = {} /\ had'[a] = {}
      /\ draft'[a] = NoDraft /\ changed'[a] = {}
      /\ \A b \in Auditors \ {a} :
           /\ read'[b] = read[b] /\ began'[b] = began[b] /\ pending'[b] = pending[b]
           /\ had'[b] = had[b] /\ draft'[b] = draft[b] /\ changed'[b] = changed[b]
  BY DEF EndStore, ConfigTypeOK
<1>2. \A p \in Paths : draft'[a][p] = None /\ ~ HoldsPath(a, p)'
  BY <1>1 DEF NoDraft, HoldsPath
<1>3. \A b \in Auditors \ {a}, p \in Paths : HoldsPath(b, p)' = HoldsPath(b, p)
  BY <1>1 DEF HoldsPath
<1>4. NoFiles \in [Paths -> Texts \cup {Absent}] /\ NoDraft \in [Paths -> Row] /\ 0 \in 0 .. MaxAudits
  BY <1>0 DEF NoFiles, NoDraft, None, Row
<1>5. /\ read' \in [Auditors -> [Paths -> Texts \cup {Absent}]]
      /\ began' \in [Auditors -> 0 .. MaxAudits]
      /\ pending' \in [Auditors -> SUBSET Paths]
      /\ had' \in [Auditors -> SUBSET [path : Paths, other : BOOLEAN]]
      /\ draft' \in [Auditors -> [Paths -> Row]]
      /\ changed' \in [Auditors -> SUBSET Paths]
  BY <1>4 DEF EndStore, ConfigTypeOK
<1>6. file' \in [Paths -> Texts \cup {Absent}] /\ clock' \in 0 .. MaxAudits /\ overlapped' \subseteq Paths /\ edits' \in 0 .. MaxEdits
  BY DEF EndStore, ConfigTypeOK
<1> QED BY <1>1, <1>2, <1>3, <1>5, <1>6

LEMMA AbortStoreKeeps ==
  ASSUME ConfigInv, NEW a \in Auditors, AbortStore(a)
  PROVE  ConfigInv'
<1>1. /\ ConfigTypeOK /\ StoresOpen /\ StoreTimes /\ RowsAreStored
      /\ NewestIsLast /\ DraftsAreOwn /\ ChangesAreNew /\ OneByOne
  BY DEF ConfigInv
<1>2. EndStore(a) /\ UNCHANGED <<snapshot, changes, stored, backwards, clock, overlapped>>
  BY DEF AbortStore, EndStore, storeVars
<1>3. ConfigTypeOK'
  BY <1>1, <1>2, EndFacts DEF ConfigTypeOK
<1>4. /\ read'[a] = NoFiles /\ began'[a] = 0 /\ pending'[a] = {} /\ had'[a] = {} /\ draft'[a] = NoDraft /\ changed'[a] = {}
      /\ \A p \in Paths : draft'[a][p] = None /\ ~ HoldsPath(a, p)'
      /\ \A b \in Auditors \ {a} :
           /\ read'[b] = read[b] /\ began'[b] = began[b] /\ pending'[b] = pending[b]
           /\ had'[b] = had[b] /\ draft'[b] = draft[b] /\ changed'[b] = changed[b]
           /\ \A p \in Paths : HoldsPath(b, p)' = HoldsPath(b, p)
  BY <1>1, <1>2, EndFacts
<1>5. /\ \A b \in Auditors \ {a}, p \in Paths : OtherRow(b, p)' = OtherRow(b, p)
      /\ \A p \in Paths : Versions(p)' = Versions(p)
  BY <1>2, <1>4 DEF OtherRow, Versions
<1>6. StoresOpen'
  <2>1. ASSUME NEW b \in Auditors, NEW h \in had'[b]
        PROVE  had'[b] = {h} /\ h.path \notin pending'[b] /\ read'[b][h.path] # Absent /\ (h.other => OtherRow(b, h.path)')
    <3>1. b # a /\ h \in had[b] /\ h.path \in Paths
      BY <1>1, <1>4, <2>1 DEF ConfigTypeOK
    <3> QED BY <1>1, <1>4, <1>5, <3>1 DEF StoresOpen
  <2>2. ASSUME NEW b \in Auditors
        PROVE  /\ began'[b] = 0 => pending'[b] = {} /\ had'[b] = {} /\ draft'[b] = NoDraft
               /\ began'[b] # 0 => read'[b] # NoFiles
               /\ pending'[b] \subseteq Present(read'[b])
    BY <1>1, <1>4 DEF StoresOpen
  <2> QED BY <2>1, <2>2 DEF StoresOpen, Present, NoDraft, NoFiles
<1>7. StoreTimes'
  <2>1. \A b \in Auditors : began[b] \in Nat /\ clock \in Nat
    BY <1>1, ConfigAssumption DEF ConfigTypeOK
  <2>2. \A b \in Auditors : began'[b] <= clock
    BY <1>1, <1>4, <2>1 DEF StoreTimes
  <2>3. \A b, c \in Auditors : began'[b] # 0 /\ began'[b] = began'[c] => b = c
    BY <1>1, <1>4 DEF StoreTimes
  <2>4. ASSUME NEW p \in Paths, NEW s \in stored[p] PROVE \A b \in Auditors : s.time # began'[b]
    BY <1>1, <1>4 DEF StoreTimes
  <2> QED BY <1>1, <1>2, <2>2, <2>3, <2>4 DEF StoreTimes
<1>8. RowsAreStored' /\ NewestIsLast'
  BY <1>1, <1>2 DEF RowsAreStored, NewestIsLast
<1>9. DraftsAreOwn'
  BY <1>1, <1>2, <1>4 DEF DraftsAreOwn
<1>10. ChangesAreNew'
  <2>1. ASSUME NEW b \in Auditors, NEW p \in changed'[b]
        PROVE  draft'[b][p] # None /\ snapshot'[p][read'[b][p]] = None /\ OtherRow(b, p)'
    <3>1. p \in Paths /\ p \in changed[b] /\ b # a
      BY <1>1, <1>4, <2>1 DEF ConfigTypeOK
    <3> QED BY <1>1, <1>2, <1>4, <1>5, <3>1 DEF ChangesAreNew
  <2>2. \A p \in Paths : /\ IsFiniteSet(Versions(p)')
                         /\ IF Versions(p)' = {} THEN changes'[p] = 0 ELSE changes'[p] < Cardinality(Versions(p)')
    BY <1>1, <1>2, <1>5 DEF ChangesAreNew
  <2> QED BY <2>1, <2>2 DEF ChangesAreNew
<1>11. OneByOne'
  <2> SUFFICES ASSUME NEW p \in Paths, p \notin overlapped
               PROVE  /\ \A b, c \in Auditors : HoldsPath(b, p)' /\ HoldsPath(c, p)' => b = c
                      /\ \A s \in stored[p] :
                           /\ snapshot[p][s.text].first <= s.time
                           /\ \A b \in Auditors : HoldsPath(b, p)' => s.time < began'[b]
                      /\ \A b \in Auditors :
                           /\ \A h \in had'[b] : h.path = p => h.other = OtherRow(b, p)'
                           /\ draft'[b][p] # None /\ snapshot[p][read'[b][p]] = None /\ OtherRow(b, p)' => p \in changed'[b]
                      /\ Versions(p) # {} => changes[p] = Cardinality(Versions(p)) - 1
    BY <1>2, <1>5 DEF OneByOne
  <2> QED BY <1>1, <1>4, <1>5 DEF OneByOne
<1> QED BY <1>3, <1>6, <1>7, <1>8, <1>9, <1>10, <1>11 DEF ConfigInv

\* A commit puts the draft in the place of its row, and what was read with what was stored.
LEMMA CommitFacts ==
  ASSUME ConfigInv, NEW a \in Auditors, CommitStore(a), NEW p \in Paths
  PROVE  /\ read[a][p] = Absent => /\ snapshot'[p] = snapshot[p] /\ stored'[p] = stored[p] /\ changes'[p] = changes[p]
                                   /\ (p \in backwards' <=> p \in backwards) /\ p \notin changed[a]
         /\ read[a][p] # Absent =>
              /\ HoldsPath(a, p) /\ read[a][p] \in Texts
              /\ \A t \in Texts : snapshot'[p][t] = IF t = read[a][p] THEN Upserted(snapshot[p][t], began[a]) ELSE snapshot[p][t]
              /\ draft[a][p] # None /\ draft[a][p] = Upserted(snapshot[p][read[a][p]], began[a])
              /\ stored'[p] = stored[p] \cup {[time |-> began[a], text |-> read[a][p]]}
              /\ changes'[p] = IF p \in changed[a] THEN changes[p] + 1 ELSE changes[p]
              /\ p \in backwards' <=> Late(p, began[a]) /\ (p \in backwards \/ LastRead(p, read[a][p]))
<1>1. ConfigTypeOK /\ StoresOpen /\ DraftsAreOwn /\ ChangesAreNew
  BY DEF ConfigInv
<1>2. /\ began[a] # 0 /\ pending[a] = {} /\ had[a] = {}
      /\ snapshot' = [q \in Paths |-> [t \in Texts |-> IF t = read[a][q] THEN draft[a][q] ELSE snapshot[q][t]]]
      /\ changes' = [q \in Paths |-> IF q \in changed[a] THEN changes[q] + 1 ELSE changes[q]]
      /\ stored' = [q \in Paths |->
           IF read[a][q] = Absent THEN stored[q]
           ELSE stored[q] \cup {[time |-> began[a], text |-> read[a][q]]}]
      /\ backwards' = {q \in Paths :
           IF read[a][q] = Absent THEN q \in backwards
           ELSE Late(q, began[a]) /\ (q \in backwards \/ LastRead(q, read[a][q]))}
  BY DEF CommitStore
<1>3. ASSUME read[a][p] = Absent
      PROVE  /\ snapshot'[p] = snapshot[p] /\ stored'[p] = stored[p] /\ changes'[p] = changes[p]
             /\ (p \in backwards' <=> p \in backwards) /\ p \notin changed[a]
  <2>1. snapshot[p] \in [Texts -> Row] /\ snapshot'[p] = [t \in Texts |-> IF t = Absent THEN draft[a][p] ELSE snapshot[p][t]]
    BY <1>1, <1>2, <1>3 DEF ConfigTypeOK
  <2>2. snapshot'[p] = snapshot[p]
    BY <2>1, ConfigAssumption
  <2>3. p \notin changed[a]
    BY <1>1, <1>3 DEF ChangesAreNew, DraftsAreOwn, HoldsPath
  <2> QED BY <1>2, <1>3, <2>2, <2>3
<1>4. ASSUME read[a][p] # Absent
      PROVE  /\ HoldsPath(a, p) /\ read[a][p] \in Texts
             /\ draft[a][p] # None /\ draft[a][p] = Upserted(snapshot[p][read[a][p]], began[a])
  <2>1. HoldsPath(a, p) /\ read[a][p] \in Texts
    BY <1>1, <1>2, <1>4, ReadIs DEF HoldsPath
  <2>2. draft[a][p] # None
    BY <1>1, <1>2, <2>1 DEF DraftsAreOwn
  <2> QED BY <1>1, <2>1, <2>2 DEF DraftsAreOwn
<1>5. ASSUME read[a][p] # Absent
      PROVE  /\ \A t \in Texts : snapshot'[p][t] = IF t = read[a][p] THEN Upserted(snapshot[p][t], began[a]) ELSE snapshot[p][t]
             /\ stored'[p] = stored[p] \cup {[time |-> began[a], text |-> read[a][p]]}
             /\ changes'[p] = IF p \in changed[a] THEN changes[p] + 1 ELSE changes[p]
             /\ p \in backwards' <=> Late(p, began[a]) /\ (p \in backwards \/ LastRead(p, read[a][p]))
  BY <1>2, <1>4, <1>5
<1> QED BY <1>3, <1>4, <1>5

LEMMA UpsertedIs ==
  ASSUME NEW r \in Row, NEW now \in Nat
  PROVE  /\ Upserted(r, now) \in Row /\ Upserted(r, now).last = now
         /\ Upserted(r, now).first = IF r = None THEN now ELSE r.first
         /\ now # 0 => Upserted(r, now) # None
BY DEF Upserted, Row, None

LEMMA CommitStoreKeeps ==
  ASSUME ConfigInv, NEW a \in Auditors, CommitStore(a)
  PROVE  ConfigInv'
<1>1. /\ ConfigTypeOK /\ StoresOpen /\ StoreTimes /\ RowsAreStored
      /\ NewestIsLast /\ DraftsAreOwn /\ ChangesAreNew /\ OneByOne
  BY DEF ConfigInv
<1>2. EndStore(a) /\ began[a] # 0 /\ UNCHANGED <<clock, overlapped>>
  BY DEF CommitStore, EndStore
<1>3. /\ read'[a] = NoFiles /\ began'[a] = 0 /\ pending'[a] = {} /\ had'[a] = {} /\ draft'[a] = NoDraft /\ changed'[a] = {}
      /\ \A p \in Paths : draft'[a][p] = None /\ ~ HoldsPath(a, p)'
      /\ \A b \in Auditors \ {a} :
           /\ read'[b] = read[b] /\ began'[b] = began[b] /\ pending'[b] = pending[b]
           /\ had'[b] = had[b] /\ draft'[b] = draft[b] /\ changed'[b] = changed[b]
           /\ \A p \in Paths : HoldsPath(b, p)' = HoldsPath(b, p)
  BY <1>1, <1>2, EndFacts
<1>4. MaxAudits \in Nat /\ clock \in Nat /\ began[a] <= clock /\ \A b \in Auditors : began[b] \in Nat
  BY <1>1, ConfigAssumption DEF ConfigTypeOK, StoreTimes
<1>5. \A p \in Paths, t \in Texts : snapshot[p][t] \in Row
  BY <1>1 DEF ConfigTypeOK
<1>6. ASSUME NEW p \in Paths, NEW s \in stored[p] PROVE s.time \in Nat /\ s.text \in Texts /\ s = [time |-> s.time, text |-> s.text]
  <2>1. s \in [time : Nat, text : Texts]
    BY <1>1, <1>6 DEF ConfigTypeOK
  <2> QED BY <2>1
\* The types.
<1>7. ConfigTypeOK'
  <2>1. snapshot' \in [Paths -> [Texts -> Row]]
    BY <1>1 DEF CommitStore, ConfigTypeOK
  <2>2. \A p \in Paths : changes'[p] \in Nat /\ stored'[p] \subseteq [time : Nat, text : Texts]
    <3> TAKE p \in Paths
    <3>1. changes[p] \in Nat /\ stored[p] \subseteq [time : Nat, text : Texts]
      BY <1>1 DEF ConfigTypeOK
    <3>2. read[a][p] # Absent => [time |-> began[a], text |-> read[a][p]] \in [time : Nat, text : Texts]
      BY <1>4, CommitFacts
    <3> QED BY <3>1, <3>2, CommitFacts
  <2>3. changes' = [p \in Paths |-> changes'[p]] /\ stored' = [p \in Paths |-> stored'[p]] /\ backwards' \subseteq Paths
    BY DEF CommitStore
  <2>4. changes' \in [Paths -> Nat] /\ stored' \in [Paths -> SUBSET [time : Nat, text : Texts]]
    BY <2>2, <2>3
  <2> QED BY <1>1, <1>2, <2>1, <2>3, <2>4, EndFacts DEF ConfigTypeOK
\* Rows stay, and a row of a path that the store does not hold is what it was.
<1>8. \A p \in Paths, t \in Texts : snapshot[p][t] # None => snapshot'[p][t] # None
  <2> TAKE p \in Paths, t \in Texts
  <2>1. snapshot'[p][t] = snapshot[p][t] \/ snapshot'[p][t] = Upserted(snapshot[p][t], began[a])
    BY CommitFacts
  <2>2. Upserted(snapshot[p][t], began[a]) # None
    BY <1>2, <1>4, <1>5, UpsertedIs
  <2> QED BY <2>1, <2>2
<1>9. \A b \in Auditors \ {a}, p \in Paths : OtherRow(b, p) => OtherRow(b, p)'
  BY <1>3, <1>8 DEF OtherRow
<1>10. StoresOpen'
  <2>1. ASSUME NEW b \in Auditors, NEW h \in had'[b]
        PROVE  had'[b] = {h} /\ h.path \notin pending'[b] /\ read'[b][h.path] # Absent /\ (h.other => OtherRow(b, h.path)')
    <3>1. b # a /\ h \in had[b] /\ h.path \in Paths
      BY <1>1, <1>3, <2>1 DEF ConfigTypeOK
    <3> QED BY <1>1, <1>3, <1>9, <3>1 DEF StoresOpen
  <2>2. ASSUME NEW b \in Auditors
        PROVE  /\ began'[b] = 0 => pending'[b] = {} /\ had'[b] = {} /\ draft'[b] = NoDraft
               /\ began'[b] # 0 => read'[b] # NoFiles
               /\ pending'[b] \subseteq Present(read'[b])
    BY <1>1, <1>3 DEF StoresOpen
  <2> QED BY <2>1, <2>2 DEF StoresOpen, Present, NoDraft, NoFiles
<1>11. \A p \in Paths : \A s \in stored'[p] :
         s \in stored[p] \/ (read[a][p] # Absent /\ s.time = began[a] /\ s.text = read[a][p])
  BY CommitFacts
<1>12. StoreTimes'
  <2>1. \A b \in Auditors : began'[b] <= clock
    BY <1>1, <1>3, <1>4 DEF StoreTimes
  <2>2. \A b, c \in Auditors : began'[b] # 0 /\ began'[b] = began'[c] => b = c
    BY <1>1, <1>3 DEF StoreTimes
  <2>3. ASSUME NEW p \in Paths, NEW s \in stored'[p]
        PROVE  0 < s.time /\ s.time <= clock /\ \A b \in Auditors : s.time # began'[b]
    <3>1. CASE s \in stored[p]
      BY <1>1, <1>3, <3>1 DEF StoreTimes
    <3>2. CASE s.time = began[a]
      BY <1>1, <1>2, <1>3, <1>4, <3>2 DEF StoreTimes
    <3> QED BY <1>11, <2>3, <3>1, <3>2
  <2>4. ASSUME NEW p \in Paths, NEW s \in stored'[p], NEW r \in stored'[p], r.time = s.time PROVE r = s
    <3>1. \A q \in stored[p] : q.time # began[a]
      BY <1>1 DEF StoreTimes
    <3>2. read[a][p] # Absent => stored'[p] = stored[p] \cup {[time |-> began[a], text |-> read[a][p]]}
      BY CommitFacts
    <3>3. CASE s \in stored[p] /\ r \in stored[p]
      BY <1>1, <2>4, <3>3 DEF StoreTimes
    <3>4. CASE ~ (s \in stored[p] /\ r \in stored[p])
      <4>1. read[a][p] # Absent
        BY <1>11, <2>4, <3>4
      <4> DEFINE new == [time |-> began[a], text |-> read[a][p]]
      <4>2. new.time = began[a] /\ (s \in stored[p] \/ s = new) /\ (r \in stored[p] \/ r = new)
        BY <2>4, <3>2, <4>1
      <4> QED BY <2>4, <3>1, <3>4, <4>2
    <3> QED BY <3>3, <3>4
  <2> QED BY <1>2, <2>1, <2>2, <2>3, <2>4 DEF StoreTimes
<1>13. RowsAreStored'
  <2> SUFFICES ASSUME NEW p \in Paths
               PROVE  /\ \A t \in Texts : snapshot'[p][t] # None =>
                           /\ [time |-> snapshot'[p][t].first, text |-> t] \in stored'[p]
                           /\ [time |-> snapshot'[p][t].last, text |-> t] \in stored'[p]
                      /\ \A s \in stored'[p] : snapshot'[p][s.text] # None
    BY DEF RowsAreStored
  <2>1. stored[p] \subseteq stored'[p]
    BY CommitFacts
  <2>2. ASSUME NEW t \in Texts, snapshot'[p][t] # None
        PROVE  /\ [time |-> snapshot'[p][t].first, text |-> t] \in stored'[p]
               /\ [time |-> snapshot'[p][t].last, text |-> t] \in stored'[p]
    <3>1. CASE snapshot'[p][t] = snapshot[p][t]
      BY <1>1, <2>1, <2>2, <3>1 DEF RowsAreStored
    <3>2. CASE snapshot'[p][t] # snapshot[p][t]
      <4>1. /\ t = read[a][p] /\ snapshot'[p][t] = Upserted(snapshot[p][t], began[a])
            /\ [time |-> began[a], text |-> t] \in stored'[p]
        BY <3>2, CommitFacts
      <4>2. /\ Upserted(snapshot[p][t], began[a]).last = began[a]
            /\ Upserted(snapshot[p][t], began[a]).first = IF snapshot[p][t] = None THEN began[a] ELSE snapshot[p][t].first
        BY <1>4, <1>5, UpsertedIs
      <4>3. snapshot[p][t] # None => [time |-> snapshot[p][t].first, text |-> t] \in stored'[p]
        BY <1>1, <2>1 DEF RowsAreStored
      <4> QED BY <4>1, <4>2, <4>3
    <3> QED BY <3>1, <3>2
  <2>3. ASSUME NEW s \in stored'[p] PROVE snapshot'[p][s.text] # None
    <3>1. CASE s \in stored[p]
      BY <1>1, <1>6, <1>8, <3>1 DEF RowsAreStored
    <3>2. CASE s \notin stored[p]
      <4>1. read[a][p] # Absent /\ s.text = read[a][p]
        BY <1>11, <2>3, <3>2
      <4>2. s.text \in Texts /\ snapshot'[p][s.text] = Upserted(snapshot[p][s.text], began[a])
        BY <4>1, CommitFacts
      <4>3. began[a] \in Nat /\ began[a] # 0 /\ snapshot[p][s.text] \in Row
        BY <1>2, <1>4, <1>5, <4>2
      <4> QED BY <4>2, <4>3, UpsertedIs
    <3> QED BY <3>1, <3>2
  <2> QED BY <2>2, <2>3
<1>14. NewestIsLast'
  <2> SUFFICES ASSUME NEW p \in Paths, p \notin backwards', NEW s \in stored'[p], \A r \in stored'[p] : r.time <= s.time
               PROVE  snapshot'[p][s.text].last = s.time
    BY DEF NewestIsLast
  <2>1. CASE read[a][p] = Absent
    BY <1>1, <2>1, CommitFacts DEF NewestIsLast
  <2>2. CASE read[a][p] # Absent
    <3> DEFINE new == [time |-> began[a], text |-> read[a][p]]
    <3>1. new.time = began[a] /\ new.text = read[a][p] /\ stored'[p] = stored[p] \cup {new}
      BY <2>2, CommitFacts
    <3>2. \A r \in stored[p] : r.time \in Nat /\ r.time # began[a] /\ r.text \in Texts
      BY <1>1, <1>6 DEF StoreTimes
    <3>3. CASE s = new
      <4>1. read[a][p] \in Texts /\ snapshot'[p][read[a][p]] = Upserted(snapshot[p][read[a][p]], began[a])
        BY <2>2, CommitFacts
      <4>2. began[a] \in Nat /\ snapshot[p][read[a][p]] \in Row
        BY <1>4, <1>5, <4>1
      <4>3. Upserted(snapshot[p][read[a][p]], began[a]).last = began[a]
        BY <4>2, UpsertedIs
      <4> QED BY <3>1, <3>3, <4>1, <4>3
    <3>4. CASE s # new
      <4>0. s \in stored[p] /\ new \in stored'[p] /\ \A r \in stored[p] : r.time <= s.time
        BY <3>1, <3>4
      <4>1. s \in stored[p] /\ began[a] < s.time /\ \A r \in stored[p] : r.time <= s.time
        <5>1. began[a] <= s.time /\ s.time \in Nat /\ s.time # began[a]
          BY <3>1, <3>2, <4>0
        <5> QED BY <1>4, <4>0, <5>1
      <4>2. Late(p, began[a])
        BY <4>1 DEF Late
      <4>3. p \notin backwards /\ ~ LastRead(p, read[a][p])
        BY <2>2, <4>2, CommitFacts
      <4>4. s.text # read[a][p]
        BY <4>1, <4>3 DEF LastRead
      <4>5. snapshot'[p][s.text] = snapshot[p][s.text]
        BY <2>2, <3>2, <4>1, <4>4, CommitFacts
      <4> QED BY <1>1, <4>1, <4>3, <4>5 DEF NewestIsLast
    <3> QED BY <3>3, <3>4
  <2> QED BY <2>1, <2>2
\* The row of another open store's draft is not this one's: they would have waited.
<1>15. ASSUME NEW b \in Auditors \ {a}, NEW p \in Paths, draft[b][p] # None
       PROVE  read[b][p] \in Texts /\ snapshot'[p][read[b][p]] = snapshot[p][read[b][p]]
  <2>1. HoldsPath(b, p) /\ read[b][p] \in Texts
    BY <1>1, <1>15, ReadIs DEF DraftsAreOwn, HoldsPath
  <2>2. CASE read[a][p] = Absent
    BY <2>1, <2>2, CommitFacts
  <2>3. CASE read[a][p] # Absent
    <3>1. draft[a][p] # None
      BY <2>3, CommitFacts
    <3>2. read[a][p] # read[b][p]
      BY <1>1, <1>15, <3>1 DEF DraftsAreOwn
    <3> QED BY <2>1, <2>3, <3>2, CommitFacts
  <2> QED BY <2>2, <2>3
<1>16. DraftsAreOwn'
  <2>1. ASSUME NEW b \in Auditors, NEW p \in Paths
        PROVE  /\ draft'[b][p] # None => HoldsPath(b, p)'
               /\ HoldsPath(b, p)' => draft'[b][p] # None \/ p \in pending'[b] \/ \E h \in had'[b] : h.path = p
    BY <1>1, <1>3 DEF DraftsAreOwn
  <2>2. ASSUME NEW b \in Auditors, NEW p \in Paths, draft'[b][p] # None
        PROVE  draft'[b][p] = Upserted(snapshot'[p][read'[b][p]], began'[b])
    <3>1. b # a /\ draft[b][p] # None
      BY <1>3, <2>2
    <3> QED BY <1>1, <1>3, <1>15, <3>1 DEF DraftsAreOwn
  <2>3. ASSUME NEW b \in Auditors, NEW c \in Auditors, NEW p \in Paths,
               draft'[b][p] # None, draft'[c][p] # None, read'[b][p] = read'[c][p]
        PROVE  b = c
    BY <1>1, <1>3, <2>3 DEF DraftsAreOwn
  <2> QED BY <2>1, <2>2, <2>3 DEF DraftsAreOwn
\* The contents that have a row: the one that was read besides those that there were.
<1>17. ASSUME NEW p \in Paths
       PROVE  /\ read[a][p] = Absent => Versions(p)' = Versions(p)
              /\ read[a][p] # Absent => Versions(p)' = Versions(p) \cup {read[a][p]}
  <2>1. CASE read[a][p] = Absent
    BY <2>1, CommitFacts DEF Versions
  <2>2. CASE read[a][p] # Absent
    <3>1. snapshot'[p][read[a][p]] # None /\ read[a][p] \in Texts
      BY <1>2, <1>4, <1>5, <2>2, CommitFacts, UpsertedIs
    <3>2. \A t \in Texts \ {read[a][p]} : snapshot'[p][t] = snapshot[p][t]
      BY <2>2, CommitFacts
    <3> QED BY <2>2, <3>1, <3>2 DEF Versions
  <2> QED BY <2>1, <2>2
<1>18. ASSUME NEW p \in Paths
       PROVE  /\ changes[p] \in Nat /\ IsFiniteSet(Versions(p)) /\ Cardinality(Versions(p)) \in Nat
              /\ Versions(p) = {} <=> Cardinality(Versions(p)) = 0
              /\ read[a][p] # Absent => /\ IsFiniteSet(Versions(p)')
                                        /\ Versions(p)' # {}
                                        /\ Cardinality(Versions(p)') = IF read[a][p] \in Versions(p) THEN Cardinality(Versions(p))
                                                                       ELSE Cardinality(Versions(p)) + 1
              /\ p \in changed[a] => Versions(p) # {} /\ read[a][p] \notin Versions(p)
  <2>1. changes[p] \in Nat /\ IsFiniteSet(Versions(p))
    BY <1>1 DEF ConfigTypeOK, ChangesAreNew
  <2>2. Cardinality(Versions(p)) \in Nat /\ (Versions(p) = {} <=> Cardinality(Versions(p)) = 0)
    BY <2>1, FS_CardinalityType, FS_EmptySet
  <2>3. ASSUME NEW t PROVE /\ IsFiniteSet(Versions(p) \cup {t})
                           /\ Cardinality(Versions(p) \cup {t}) = IF t \in Versions(p) THEN Cardinality(Versions(p)) ELSE Cardinality(Versions(p)) + 1
    BY <2>1, FS_AddElement
  <2>4. p \in changed[a] => Versions(p) # {} /\ read[a][p] \notin Versions(p)
    BY <1>1 DEF ChangesAreNew, OtherRow, Versions
  <2> QED BY <1>17, <2>1, <2>2, <2>3, <2>4
<1>19. ChangesAreNew'
  <2>1. ASSUME NEW b \in Auditors, NEW p \in changed'[b]
        PROVE  draft'[b][p] # None /\ snapshot'[p][read'[b][p]] = None /\ OtherRow(b, p)'
    <3>1. p \in Paths /\ p \in changed[b] /\ b # a
      BY <1>1, <1>3, <2>1 DEF ConfigTypeOK
    <3>2. draft[b][p] # None /\ snapshot[p][read[b][p]] = None /\ OtherRow(b, p)
      BY <1>1, <3>1 DEF ChangesAreNew
    <3> QED BY <1>3, <1>9, <1>15, <3>1, <3>2
  <2>2. ASSUME NEW p \in Paths
        PROVE  /\ IsFiniteSet(Versions(p)')
               /\ IF Versions(p)' = {} THEN changes'[p] = 0 ELSE changes'[p] < Cardinality(Versions(p)')
    <3>1. IF Versions(p) = {} THEN changes[p] = 0 ELSE changes[p] < Cardinality(Versions(p))
      BY <1>1 DEF ChangesAreNew
    <3>2. CASE read[a][p] = Absent
      BY <1>17, <1>18, <3>1, <3>2, CommitFacts
    <3>3. CASE read[a][p] # Absent
      <4>1. changes'[p] = IF p \in changed[a] THEN changes[p] + 1 ELSE changes[p]
        BY <3>3, CommitFacts
      <4> QED BY <1>18, <3>1, <3>3, <4>1
    <3> QED BY <3>2, <3>3
  <2> QED BY <2>1, <2>2 DEF ChangesAreNew
<1>20. OneByOne'
  <2> SUFFICES ASSUME NEW p \in Paths, p \notin overlapped
               PROVE  /\ \A b, c \in Auditors : HoldsPath(b, p)' /\ HoldsPath(c, p)' => b = c
                      /\ \A s \in stored'[p] :
                           /\ snapshot'[p][s.text].first <= s.time
                           /\ \A b \in Auditors : HoldsPath(b, p)' => s.time < began'[b]
                      /\ \A b \in Auditors :
                           /\ \A h \in had'[b] : h.path = p => h.other = OtherRow(b, p)'
                           /\ draft'[b][p] # None /\ snapshot'[p][read'[b][p]] = None /\ OtherRow(b, p)' => p \in changed'[b]
                      /\ Versions(p)' # {} => changes'[p] = Cardinality(Versions(p)') - 1
    BY <1>2 DEF OneByOne
  <2>1. \A b, c \in Auditors : HoldsPath(b, p)' /\ HoldsPath(c, p)' => b = c
    BY <1>1, <1>3 DEF OneByOne
  <2>2. CASE read[a][p] = Absent
    <3>1. snapshot'[p] = snapshot[p] /\ stored'[p] = stored[p] /\ changes'[p] = changes[p] /\ Versions(p)' = Versions(p)
      BY <1>17, <2>2, CommitFacts
    <3>2. \A b \in Auditors \ {a} : OtherRow(b, p)' = OtherRow(b, p)
      BY <1>3, <3>1 DEF OtherRow
    <3> QED BY <1>1, <1>3, <2>1, <3>1, <3>2 DEF OneByOne
  <2>3. CASE read[a][p] # Absent
    \* No other store holds the path.
    <3>1. \A b \in Auditors : ~ HoldsPath(b, p)'
      BY <1>1, <1>3, <2>3, CommitFacts DEF OneByOne
    <3>2. \A b \in Auditors : draft'[b][p] = None /\ \A h \in had'[b] : h.path # p
      <4> TAKE b \in Auditors
      <4>1. CASE b = a
        BY <1>3, <4>1
      <4>2. CASE b # a
        <5>1. ~ HoldsPath(b, p)
          BY <1>3, <3>1, <4>2
        <5>2. draft[b][p] = None
          BY <1>1, <5>1 DEF DraftsAreOwn
        <5>3. \A h \in had[b] : h.path # p
          BY <1>1, <5>1 DEF StoresOpen, HoldsPath
        <5> QED BY <1>3, <4>2, <5>2, <5>3
      <4> QED BY <4>1, <4>2
    <3>3. \A s \in stored[p] : s.time < began[a]
      BY <1>1, <2>3, CommitFacts DEF OneByOne
    <3>4. ASSUME NEW s \in stored'[p] PROVE snapshot'[p][s.text].first <= s.time
      <4>1. CASE s \in stored[p]
        <5>1. snapshot[p][s.text].first <= s.time /\ snapshot[p][s.text] # None /\ s.text \in Texts
          BY <1>1, <1>6, <4>1 DEF OneByOne, RowsAreStored
        <5>2. snapshot'[p][s.text] = snapshot[p][s.text] \/ snapshot'[p][s.text] = Upserted(snapshot[p][s.text], began[a])
          BY <2>3, <5>1, CommitFacts
        <5>3. began[a] \in Nat /\ snapshot[p][s.text] \in Row
          BY <1>4, <1>5, <5>1
        <5>4. Upserted(snapshot[p][s.text], began[a]).first = snapshot[p][s.text].first
          BY <5>1, <5>3, UpsertedIs
        <5> QED BY <5>1, <5>2, <5>4
      <4>2. CASE s \notin stored[p]
        <5>1. s.time = began[a] /\ s.text = read[a][p] /\ s.text \in Texts
          BY <1>11, <2>3, <3>4, <4>2, CommitFacts
        <5>2. snapshot'[p][s.text].first = IF snapshot[p][s.text] = None THEN began[a] ELSE snapshot[p][s.text].first
          <6>1. snapshot'[p][s.text] = Upserted(snapshot[p][s.text], began[a])
            BY <2>3, <5>1, CommitFacts
          <6>2. began[a] \in Nat /\ snapshot[p][s.text] \in Row
            BY <1>4, <1>5, <5>1
          <6>3. Upserted(snapshot[p][s.text], began[a]).first
                  = IF snapshot[p][s.text] = None THEN began[a] ELSE snapshot[p][s.text].first
            BY <6>2, UpsertedIs
          <6> QED BY <6>1, <6>3
        <5>3. ASSUME snapshot[p][s.text] # None PROVE snapshot[p][s.text].first < began[a]
          <6>1. [time |-> snapshot[p][s.text].first, text |-> s.text] \in stored[p]
            BY <1>1, <5>1, <5>3 DEF RowsAreStored
          <6> QED BY <3>3, <6>1
        <5>4. snapshot[p][s.text].first \in Nat
          BY <1>5, <5>1 DEF Row
        <5> QED BY <1>4, <5>1, <5>2, <5>3, <5>4
      <4> QED BY <4>1, <4>2
    <3>5. changes'[p] = Cardinality(Versions(p)') - 1
      <4>1. changes'[p] = IF p \in changed[a] THEN changes[p] + 1 ELSE changes[p]
        BY <2>3, CommitFacts
      <4>2. IF Versions(p) = {} THEN changes[p] = 0 ELSE changes[p] = Cardinality(Versions(p)) - 1
        BY <1>1 DEF OneByOne, ChangesAreNew
      <4>3. Versions(p) # {} /\ read[a][p] \notin Versions(p) => p \in changed[a]
        <5>1. draft[a][p] # None /\ read[a][p] \in Texts
          BY <2>3, CommitFacts
        <5> QED BY <1>1, <5>1 DEF OneByOne, OtherRow, Versions
      <4> QED BY <1>18, <2>3, <4>1, <4>2, <4>3
    <3> QED BY <2>1, <3>1, <3>2, <3>4, <3>5
  <2> QED BY <2>2, <2>3
<1> QED BY <1>7, <1>10, <1>12, <1>13, <1>14, <1>16, <1>19, <1>20 DEF ConfigInv

LEMMA ConfigInvHolds == ConfigSpec => []ConfigInv
<1>1. ConfigInv /\ [ConfigNext]_configVars => ConfigInv'
  <2> SUFFICES ASSUME ConfigInv, [ConfigNext]_configVars PROVE ConfigInv'
    OBVIOUS
  <2>1. CASE UNCHANGED configVars
    <3>1. ConfigTypeOK'
      BY <2>1 DEF configVars, ConfigInv, ConfigTypeOK
    <3> QED BY <2>1, <3>1, StaysOtherwise DEF configVars, ConfigInv
  <2>2. ASSUME NEW a \in Auditors, NEW h \in had[a], StorePath(a, h) PROVE ConfigInv'
    BY <2>2, StorePathKeeps
  <2> QED BY <2>1, <2>2, EditFileKeeps, ReadFilesKeeps, BeginStoreKeeps, CommitStoreKeeps, AbortStoreKeeps, SelectOtherKeeps DEF ConfigNext
<1> QED BY <1>1, ConfigInitially, PTL DEF ConfigSpec

-----------------------------------------------------------------------------
\* load_latest gives of each path the content that the newest store had read there, unless an older one
\* of the same content came after it (store_snapshot, load_latest).
THEOREM LatestIsLastReadHolds == ConfigSpec => []LatestIsLastRead
<1>1. ConfigInv => LatestIsLastRead
  <2> SUFFICES ASSUME ConfigInv, NEW p \in Paths, stored[p] # {}, p \notin backwards PROVE LastRead(p, Latest(p))
    BY DEF LatestIsLastRead
  <2>1. /\ clock \in Nat /\ \A s \in stored[p] : s.time \in 1 .. clock /\ s.text \in Texts
        /\ \A r, s \in stored[p] : r.time = s.time => r = s
    <3>1. ConfigTypeOK /\ StoreTimes /\ MaxAudits \in Nat
      BY ConfigAssumption DEF ConfigInv
    <3>2. stored[p] \subseteq [time : Nat, text : Texts] /\ clock \in Nat
      BY <3>1 DEF ConfigTypeOK
    <3>3. \A s \in stored[p] : s.time \in Nat /\ s.text \in Texts
      BY <3>2
    <3> QED BY <3>1, <3>2, <3>3 DEF StoreTimes
  <2>2. RowsAreStored /\ NewestIsLast
    BY DEF ConfigInv
  <2> DEFINE times == {s.time : s \in stored[p]}
  <2>3. times \subseteq 1 .. clock /\ times # {} /\ times \in SUBSET Int
    BY <2>1
  <2>4. IsFiniteSet(times)
    BY <2>1, <2>3, CountTo, FS_Subset
  <2> HIDE DEF times
  <2>5. PICK m \in times : \A x \in times : m >= x
    BY <2>3, <2>4, LargestThere
  <2>6. PICK s \in stored[p] : \A r \in stored[p] : r.time <= s.time
    BY <2>1, <2>5 DEF times
  <2>7. snapshot[p][s.text].last = s.time /\ s.text \in Versions(p)
    BY <2>1, <2>2, <2>6 DEF NewestIsLast, RowsAreStored, Versions
  <2>8. \A u \in Versions(p) : [time |-> snapshot[p][u].last, text |-> u] \in stored[p]
    BY <2>2 DEF RowsAreStored, Versions
  <2>9. \A u \in Versions(p) : snapshot[p][u].last <= s.time
    BY <2>6, <2>8
  <2>10. Latest(p) \in Versions(p) /\ \A u \in Versions(p) : snapshot[p][u].last <= snapshot[p][Latest(p)].last
    BY <2>7, <2>9 DEF Latest
  <2>11. snapshot[p][Latest(p)].last = s.time
    <3> DEFINE n == snapshot[p][Latest(p)].last
               r == [time |-> n, text |-> Latest(p)]
    <3>1. r \in stored[p] /\ r.time = n
      BY <2>8, <2>10
    <3>2. n \in Nat /\ s.time \in Nat
      BY <2>1, <3>1
    <3>3. n <= s.time /\ s.time <= n
      BY <2>7, <2>9, <2>10
    <3> QED BY <3>2, <3>3
  <2>12. Latest(p) = s.text
    <3> DEFINE r == [time |-> snapshot[p][Latest(p)].last, text |-> Latest(p)]
    <3>1. r \in stored[p] /\ r.time = s.time /\ r.text = Latest(p)
      BY <2>8, <2>10, <2>11
    <3> QED BY <2>1, <3>1
  <2> QED BY <2>6, <2>12 DEF LastRead
<1> QED BY <1>1, ConfigInvHolds, PTL

\* history has the contents that committed stores met of a path, and more of them than stores counted
\* changes; in the order in which they were first met, and all but the first counted, unless two
\* stores of the path were open at once (store_snapshot, history).
THEOREM HistoryIsWhatWasSeenHolds == ConfigSpec => []HistoryIsWhatWasSeen
<1>1. ConfigInv => HistoryIsWhatWasSeen
  <2> SUFFICES ASSUME ConfigInv, NEW p \in Paths
               PROVE  /\ Versions(p) = {s.text : s \in stored[p]}
                      /\ Versions(p) # {} => changes[p] < Cardinality(Versions(p))
                      /\ p \notin overlapped =>
                           /\ Versions(p) # {} => changes[p] = Cardinality(Versions(p)) - 1
                           /\ \A r, s \in stored[p] :
                                snapshot[p][r.text].first < snapshot[p][s.text].first
                                  => \E q \in stored[p] : q.text = r.text /\ q.time < s.time
    BY DEF HistoryIsWhatWasSeen
  <2>1. RowsAreStored /\ ChangesAreNew /\ OneByOne /\ ConfigTypeOK
    BY DEF ConfigInv
  <2>2. \A s \in stored[p] : s.text \in Texts /\ s.time \in Nat
    BY <2>1 DEF ConfigTypeOK
  <2>3. Versions(p) = {s.text : s \in stored[p]}
    <3>1. \A u \in Versions(p) : [time |-> snapshot[p][u].last, text |-> u] \in stored[p]
      BY <2>1 DEF RowsAreStored, Versions
    <3>2. \A u \in Versions(p) : u \in {s.text : s \in stored[p]}
      <4> TAKE u \in Versions(p)
      <4> DEFINE s == [time |-> snapshot[p][u].last, text |-> u]
      <4>1. s \in stored[p] /\ s.text = u
        BY <3>1
      <4> QED BY <4>1
    <3>3. \A s \in stored[p] : s.text \in Versions(p)
      BY <2>1, <2>2 DEF RowsAreStored, Versions
    <3> QED BY <3>2, <3>3
  <2>4. ASSUME p \notin overlapped, NEW r \in stored[p], NEW s \in stored[p],
               snapshot[p][r.text].first < snapshot[p][s.text].first
        PROVE  \E q \in stored[p] : q.text = r.text /\ q.time < s.time
    <3>1. [time |-> snapshot[p][r.text].first, text |-> r.text] \in stored[p]
      BY <2>1, <2>2 DEF RowsAreStored
    <3>2. snapshot[p][s.text].first <= s.time
      BY <2>1, <2>4 DEF OneByOne
    <3>3. snapshot[p][r.text] \in Row /\ snapshot[p][s.text] \in Row
      BY <2>1, <2>2 DEF ConfigTypeOK
    <3>4. snapshot[p][r.text].first < s.time
      BY <2>2, <2>4, <3>2, <3>3 DEF Row
    <3> DEFINE q == [time |-> snapshot[p][r.text].first, text |-> r.text]
    <3>5. q \in stored[p] /\ q.text = r.text /\ q.time < s.time
      BY <3>1, <3>4
    <3> QED BY <3>5
  <2> QED BY <2>1, <2>3, <2>4 DEF ChangesAreNew, OneByOne
<1> QED BY <1>1, ConfigInvHolds, PTL

-----------------------------------------------------------------------------
(* ActionLookup: the index of actions. *)

(* Reach, unrolled: tlapm knows a recursive function as a CHOOSE, so that there is one is to be *)
(* shown.                                                                                       *)

Onward(S) == S \cup UNION {ToSet(nested[u]) : u \in (S \cap Composites) \ Known}

LEMMA ReachExists ==
  ASSUME NEW n \in Nat
  PROVE  \E g : g = [d \in 0 .. n |-> IF d = 0 THEN ToSet(roots) ELSE Onward(g[d - 1])]
<1> DEFINE There(m) == \E g : g = [d \in 0 .. m |-> IF d = 0 THEN ToSet(roots) ELSE Onward(g[d - 1])]
           T == {m \in Nat : ~There(m)}
<1> SUFFICES ASSUME T # {} PROVE FALSE
  OBVIOUS
<1>1. PICK m \in T : \A x \in T : m <= x
  <2>1. T \in SUBSET Nat
    OBVIOUS
  <2> HIDE DEF T
  <2> QED BY <2>1, LeastNumber
<1>2. CASE m = 0
  <2> DEFINE h == [d \in 0 .. 0 |-> ToSet(roots)]
  <2>1. h = [d \in 0 .. m |-> IF d = 0 THEN ToSet(roots) ELSE Onward(h[d - 1])]
    BY <1>2
  <2> QED BY <2>1
<1>3. CASE m # 0
  <2>1. There(m - 1)
    <3> HIDE DEF There
    <3> QED BY <1>1, <1>3
  <2>2. PICK g : g = [d \in 0 .. m - 1 |-> IF d = 0 THEN ToSet(roots) ELSE Onward(g[d - 1])]
    BY <2>1
  <2> DEFINE h == [d \in 0 .. m |-> IF d = m THEN Onward(g[m - 1]) ELSE g[d]]
  <2>3. \A d \in 0 .. m : h[d] = IF d = 0 THEN ToSet(roots) ELSE Onward(h[d - 1])
    <3> TAKE d \in 0 .. m
    <3>1. CASE d = m
      BY <1>3, <3>1
    <3>2. CASE d # m
      <4>1. d \in 0 .. m - 1 /\ h[d] = g[d] /\ (d # 0 => h[d - 1] = g[d - 1])
        BY <3>2
      <4>2. g[d] = IF d = 0 THEN ToSet(roots) ELSE Onward(g[d - 1])
        <5> HIDE DEF T, h, There
        <5> QED BY <2>2, <4>1, Zenon
      <4> QED BY <4>1, <4>2
    <3> QED BY <3>1, <3>2
  <2>4. h = [d \in 0 .. m |-> IF d = 0 THEN ToSet(roots) ELSE Onward(h[d - 1])]
    BY <2>3
  <2> QED BY <2>4
<1> QED BY <1>2, <1>3

LEMMA ReachIs ==
  \A d \in 0 .. MAX_DEPTH - 1 : Reach[d] = IF d = 0 THEN ToSet(roots) ELSE Onward(Reach[d - 1])
<1>1. MAX_DEPTH - 1 \in Nat
  BY LookupAssumption
<1>2. \E g : g = [d \in 0 .. MAX_DEPTH - 1 |-> IF d = 0 THEN ToSet(roots) ELSE Onward(g[d - 1])]
  BY <1>1, ReachExists
<1>3. Reach = [d \in 0 .. MAX_DEPTH - 1 |-> IF d = 0 THEN ToSet(roots) ELSE Onward(Reach[d - 1])]
  BY <1>2, Zenon DEF Reach, Onward
<1> QED BY <1>3, Zenon

LEMMA RootsReached == Reach[0] = ToSet(roots)
<1>1. 0 \in 0 .. MAX_DEPTH - 1
  BY LookupAssumption
<1> QED BY <1>1, ReachIs

LEMMA ReachNext ==
  ASSUME NEW d \in Nat, d + 1 < MAX_DEPTH
  PROVE  Reach[d + 1] = Onward(Reach[d])
<1>1. d + 1 \in 0 .. MAX_DEPTH - 1 /\ d + 1 # 0 /\ (d + 1) - 1 = d
  BY LookupAssumption
<1>2. Reach[d + 1] = Onward(Reach[(d + 1) - 1])
  BY <1>1, ReachIs
<1> QED BY <1>1, <1>2

-----------------------------------------------------------------------------
(* Type correctness, and what a request under way says of the head of the queue. *)

Waiting == Seq(Uses \X (0 .. MAX_DEPTH - 1))

Asked == try # NoRequest => try.name # "none" /\ queue # <<>> /\ ~Skipped

LookupShape == LookupTypeOK /\ queue \in Waiting /\ Asked

LEMMA KidsWait ==
  ASSUME NEW u \in Uses, NEW d \in Nat, queue \in Waiting, queue # <<>>
  PROVE  \E kids \in Waiting :
           /\ Behind(u, d) = Tail(queue) \o kids
           /\ \A n \in 1 .. Len(kids) : kids[n][2] = d + 1
           /\ u \in Composites /\ d + 1 < MAX_DEPTH
                => \A v \in ToSet(nested[u]) : \E n \in 1 .. Len(kids) : kids[n] = <<v, d + 1>>
<1>1. CASE u \in Composites /\ d + 1 < MAX_DEPTH
  <2> DEFINE kids == [n \in 1 .. Len(nested[u]) |-> <<nested[u][n], d + 1>>]
  <2>1. nested[u] \in Seq(Uses) /\ d + 1 \in 0 .. MAX_DEPTH - 1
    BY <1>1, LookupAssumption
  <2>2. \A n \in 1 .. Len(nested[u]) : kids[n] = <<nested[u][n], d + 1>> /\ kids[n] \in Uses \X (0 .. MAX_DEPTH - 1)
    BY <2>1
  <2>3. kids \in Waiting /\ Len(kids) = Len(nested[u])
    BY <2>1, <2>2 DEF Waiting
  <2>4. ASSUME NEW v \in ToSet(nested[u]) PROVE \E n \in 1 .. Len(kids) : kids[n] = <<v, d + 1>>
    <3>1. PICK n \in 1 .. Len(nested[u]) : nested[u][n] = v
      BY <2>1 DEF ToSet
    <3> QED BY <3>1, <2>2, <2>3
  <2>5. \A n \in 1 .. Len(kids) : kids[n][2] = d + 1
    BY <2>2, <2>3
  <2>6. Behind(u, d) = Tail(queue) \o kids
    BY <1>1 DEF Behind
  <2> HIDE DEF kids
  <2> QED BY <2>3, <2>4, <2>5, <2>6
<1>2. CASE ~(u \in Composites /\ d + 1 < MAX_DEPTH)
  <2>1. <<>> \in Waiting /\ Behind(u, d) = Tail(queue) \o <<>> /\ Len(<<>>) = 0
    BY <1>2 DEF Behind, Waiting
  <2> QED BY <1>2, <2>1
<1> QED BY <1>1, <1>2

LEMMA HeadWaits ==
  ASSUME queue \in Waiting, queue # <<>>
  PROVE  Use \in Uses /\ Depth \in 0 .. MAX_DEPTH - 1 /\ Tail(queue) \in Waiting /\ 1 \in 1 .. Len(queue)
BY DEF Use, Depth, Waiting

LEMMA LookupShapeInit == LookupInit => LookupShape
<1> SUFFICES ASSUME LookupInit PROVE LookupShape
  OBVIOUS
<1>1. roots \in Seq(Uses) /\ 0 \in 0 .. MAX_DEPTH - 1 /\ 0 \in 0 .. Tries - 1 /\ 0 \in 0 .. MAX_LOOKUPS /\ 0 \in 0 .. MaxTrouble
  BY LookupAssumption
<1>2. queue = [n \in 1 .. Len(roots) |-> <<roots[n], 0>>]
  BY DEF LookupInit
<1>3. \A n \in 1 .. Len(roots) : <<roots[n], 0>> \in Uses \X (0 .. MAX_DEPTH - 1)
  BY <1>1
<1>4. queue \in Waiting
  BY <1>1, <1>2, <1>3 DEF Waiting
<1>5. \A n \in 1 .. Len(queue) : queue[n] \in Uses \X (0 .. MAX_DEPTH - 1)
  BY <1>4 DEF Waiting
<1>6. try = NoRequest /\ lookups = 0 /\ trouble = 0 /\ refused = {} /\ index = [u \in {} |-> "missing"]
  BY DEF LookupInit
<1>7. LookupTypeOK
  BY <1>1, <1>5, <1>6 DEF LookupTypeOK, NoRequest
<1> QED BY <1>4, <1>6, <1>7 DEF LookupShape, Asked

LEMMA LookupShapeNext == LookupShape /\ [LookupNext]_lookupVars => LookupShape'
<1> SUFFICES ASSUME LookupShape, [LookupNext]_lookupVars PROVE LookupShape'
  OBVIOUS
<1>0. LookupTypeOK /\ queue \in Waiting /\ Asked /\ {MAX_LOOKUPS, MAX_DEPTH, Tries} \subseteq Nat \ {0} /\ MaxTrouble \in Nat
  BY LookupAssumption DEF LookupShape
<1>q. queue' \in Waiting => \A n \in 1 .. Len(queue') : queue'[n] \in Uses \X (0 .. MAX_DEPTH - 1)
  BY DEF Waiting
<1>1. CASE SkipUse
  <2>1. queue' \in Waiting /\ try' = NoRequest
    BY <1>0, <1>1, HeadWaits DEF SkipUse
  <2> QED BY <1>0, <1>1, <1>q, <2>1 DEF SkipUse, LookupShape, LookupTypeOK, Asked
<1>2. CASE BeginLookup
  <2>1. Asked' /\ queue' \in Waiting
    BY <1>0, <1>2 DEF BeginLookup, Asked, Skipped, Use
  <2>2. try' \in [name : {"none", "action.yml", "action.yaml"}, failures : 0 .. Tries - 1]
    BY <1>0, <1>2 DEF BeginLookup
  <2>3. lookups' \in 0 .. MAX_LOOKUPS
    BY <1>0, <1>2 DEF BeginLookup, LookupTypeOK
  <2> QED BY <1>0, <1>2, <1>q, <2>1, <2>2, <2>3 DEF BeginLookup, LookupShape, LookupTypeOK
<1>3. CASE ReadManifest
  <2>1. queue # <<>> /\ try' = NoRequest
    BY <1>0, <1>3 DEF ReadManifest, Asked
  <2>2. Use \in Uses /\ Depth \in Nat /\ Tail(queue) \in Waiting
    BY <1>0, <2>1, HeadWaits
  <2>3. PICK kids \in Waiting : Behind(Use, Depth) = Tail(queue) \o kids
    BY <1>0, <2>1, <2>2, KidsWait
  <2>4. queue' \in Waiting
    BY <1>3, <2>2, <2>3 DEF ReadManifest, Waiting
  <2>5. DOMAIN index' \subseteq Uses /\ \A u \in DOMAIN index' : index'[u] \in {"composite", "leaf", "missing"}
    BY <1>0, <1>3, <2>2 DEF ReadManifest, LookupTypeOK
  <2>6. try' \in [name : {"none", "action.yml", "action.yaml"}, failures : 0 .. Tries - 1]
    BY <1>0, <2>1 DEF NoRequest
  <2> QED BY <1>0, <1>3, <1>q, <2>1, <2>4, <2>5, <2>6 DEF ReadManifest, LookupShape, LookupTypeOK, Asked
<1>4. CASE NextName
  <2>1. try # NoRequest
    BY <1>4 DEF NextName, NoRequest
  <2>2. try' \in [name : {"none", "action.yml", "action.yaml"}, failures : 0 .. Tries - 1] /\ try'.name # "none"
    BY <1>0, <1>4 DEF NextName
  <2> QED BY <1>0, <1>4, <1>q, <2>1, <2>2 DEF NextName, LookupShape, LookupTypeOK, Asked, Skipped, Use
<1>5. CASE RecordMissing
  <2>1. try # NoRequest
    BY <1>5 DEF RecordMissing, NoRequest
  <2>2. queue # <<>> /\ try' = NoRequest
    BY <1>0, <1>5, <2>1 DEF RecordMissing, Asked
  <2>3. Use \in Uses /\ queue' \in Waiting
    BY <1>0, <1>5, <2>2, HeadWaits DEF RecordMissing
  <2>4. DOMAIN index' \subseteq Uses /\ \A u \in DOMAIN index' : index'[u] \in {"composite", "leaf", "missing"}
    BY <1>0, <1>5, <2>3 DEF RecordMissing, LookupTypeOK
  <2>5. try' \in [name : {"none", "action.yml", "action.yaml"}, failures : 0 .. Tries - 1]
    BY <1>0, <2>2 DEF NoRequest
  <2> QED BY <1>0, <1>5, <1>q, <2>2, <2>3, <2>4, <2>5 DEF RecordMissing, LookupShape, LookupTypeOK, Asked
<1>6. ASSUME NEW cause \in Causes, RequestFails(cause) PROVE LookupShape'
  <2>1. try.failures + 1 \in 0 .. Tries - 1 /\ trouble' \in 0 .. MaxTrouble
    BY <1>0, <1>6 DEF RequestFails, GivesUp, LookupTypeOK
  <2>2. try' \in [name : {"none", "action.yml", "action.yaml"}, failures : 0 .. Tries - 1] /\ try'.name = try.name
    BY <1>0, <1>6, <2>1 DEF RequestFails, LookupTypeOK
  <2> QED BY <1>0, <1>6, <1>q, <2>1, <2>2 DEF RequestFails, LookupShape, LookupTypeOK, Asked, Skipped, Use
<1>7. ASSUME NEW cause \in Causes, LookupFails(cause) PROVE LookupShape'
  <2>1. queue # <<>> /\ try' = NoRequest
    BY <1>0, <1>7 DEF LookupFails, Asked
  <2>2. Use \in Uses /\ queue' \in Waiting
    BY <1>0, <1>7, <2>1, HeadWaits DEF LookupFails
  <2>3. try' \in [name : {"none", "action.yml", "action.yaml"}, failures : 0 .. Tries - 1]
    BY <1>0, <2>1 DEF NoRequest
  <2>4. trouble' \in 0 .. MaxTrouble /\ refused' \subseteq Uses
    BY <1>0, <1>7, <2>2 DEF LookupFails, LookupTypeOK
  <2> QED BY <1>0, <1>7, <1>q, <2>1, <2>2, <2>3, <2>4 DEF LookupFails, LookupShape, LookupTypeOK, Asked
<1>8. CASE UNCHANGED lookupVars
  BY <1>0, <1>8 DEF lookupVars, LookupShape, LookupTypeOK, Asked, Skipped, Use
<1> QED BY <1>1, <1>2, <1>3, <1>4, <1>5, <1>6, <1>7, <1>8 DEF LookupNext

LEMMA LookupShapeInv == LookupSpec => []LookupShape
BY LookupShapeInit, LookupShapeNext, PTL DEF LookupSpec

-----------------------------------------------------------------------------
(* Only what is nowhere at GitHub is recorded as missing. *)

\* No answer or failure of a request makes an action that exists count as missing: _fetch_manifest lets
\* an exception leave, and None means that neither name is there.
THEOREM MissingIsMissingHolds == LookupSpec => []MissingIsMissing
<1>1. LookupInit => MissingIsMissing
  BY DEF LookupInit, MissingIsMissing
<1>2. LookupShape /\ MissingIsMissing /\ [LookupNext]_lookupVars => MissingIsMissing'
  <2> SUFFICES ASSUME MissingIsMissing, [LookupNext]_lookupVars PROVE MissingIsMissing'
    OBVIOUS
  <2>1. CASE ReadManifest
    BY <2>1 DEF ReadManifest, MissingIsMissing
  <2>2. CASE RecordMissing
    BY <2>2 DEF RecordMissing, MissingIsMissing
  <2>3. CASE UNCHANGED index
    BY <2>3 DEF MissingIsMissing
  <2> QED BY <2>1, <2>2, <2>3
       DEF LookupNext, SkipUse, BeginLookup, NextName, RequestFails, LookupFails, lookupVars
<1> QED BY <1>1, <1>2, LookupShapeInv, PTL DEF LookupSpec

-----------------------------------------------------------------------------
(* Breadth first: the invariant behind IndexComplete. *)

Met(u) == u \in Known \cup Unparsed \cup DOMAIN index
QueuedAt(u, d) == \E n \in 1 .. Len(queue) : queue[n] = <<u, d>>
Queued(u) == \E d \in 0 .. MAX_DEPTH - 1 : QueuedAt(u, d)

\* The queue holds uses of at most two depths, the smaller first.
ByDepth ==
  queue # <<>> =>
    /\ \A n \in 1 .. Len(queue) : queue[n][2] \in {Depth, Depth + 1}
    /\ \A m, n \in 1 .. Len(queue) : m <= n => queue[m][2] <= queue[n][2]

\* What the workflows use, and what the composites read so far use, is met or waits.
RootsCovered == \A u \in ToSet(roots) : Met(u) \/ Queued(u)
Closed == \A u \in DOMAIN index \cap Composites : \A v \in ToSet(nested[u]) : Met(v) \/ Queued(v)

InFront ==
  /\ \A u \in Reach[Depth] : Met(u) \/ QueuedAt(u, Depth)
  /\ Depth + 1 < MAX_DEPTH => Closed

Finished == Closed \/ \A u \in Reach[MAX_DEPTH - 1] : Met(u)

BreadthFirst ==
  refused = {} => ByDepth /\ RootsCovered /\ (queue # <<>> => InFront) /\ (queue = <<>> => Finished)

LEMMA BreadthFirstInit == LookupInit => BreadthFirst
<1> SUFFICES ASSUME LookupInit PROVE BreadthFirst
  OBVIOUS
<1>1. queue = [n \in 1 .. Len(roots) |-> <<roots[n], 0>>] /\ index = [u \in {} |-> "missing"] /\ queue \in Waiting
  BY LookupShapeInit DEF LookupInit, LookupShape
<1>2. roots \in Seq(Uses) /\ Len(queue) = Len(roots) /\ \A n \in 1 .. Len(queue) : queue[n] = <<roots[n], 0>>
  BY <1>1, LookupAssumption
<1>3. \A u \in ToSet(roots) : QueuedAt(u, 0)
  BY <1>2 DEF ToSet, QueuedAt
<1>4. 0 \in 0 .. MAX_DEPTH - 1
  BY LookupAssumption
<1>5. RootsCovered /\ Closed
  BY <1>1, <1>3, <1>4 DEF RootsCovered, Queued, Closed
<1>6. queue # <<>> => Depth = 0
  BY <1>1, <1>2 DEF Depth, Waiting
<1>7. ByDepth
  BY <1>2, <1>6 DEF ByDepth
<1>8. queue # <<>> => InFront
  BY <1>3, <1>5, <1>6, RootsReached DEF InFront
<1> QED BY <1>5, <1>7, <1>8 DEF BreadthFirst, Finished

\* A step that takes the head of the queue, and puts what it uses, if it is a composite that was
\* read, at the end.
Pops(kids) ==
  /\ queue' = Tail(queue) \o kids
  /\ \A n \in 1 .. Len(kids) : kids[n][2] = Depth + 1
  /\ Use \in Known \cup Unparsed \cup DOMAIN index'
  /\ DOMAIN index \subseteq DOMAIN index'
  /\ Depth + 1 < MAX_DEPTH =>
       \A u \in (DOMAIN index' \ DOMAIN index) \cap Composites : \A v \in ToSet(nested[u]) :
         \E n \in 1 .. Len(kids) : kids[n] = <<v, Depth + 1>>

LEMMA PopsKeep ==
  ASSUME LookupShape, LookupShape', BreadthFirst, refused = {}, queue # <<>>, NEW kids \in Waiting, Pops(kids)
  PROVE  BreadthFirst'
<1>0. queue \in Waiting /\ queue' \in Waiting /\ ByDepth /\ RootsCovered /\ InFront
  BY DEF LookupShape, BreadthFirst
<1>1. Use \in Uses /\ Depth \in 0 .. MAX_DEPTH - 1 /\ Tail(queue) \in Waiting /\ 1 \in 1 .. Len(queue) /\ MAX_DEPTH \in Nat
  BY <1>0, HeadWaits, LookupAssumption
<1>h. PICK h \in Uses, d \in Nat : h = Use /\ d = Depth /\ d \in 0 .. MAX_DEPTH - 1
  BY <1>1
<1>2. /\ Len(queue') = Len(queue) - 1 + Len(kids)
      /\ \A n \in 1 .. Len(queue') :
           queue'[n] = IF n <= Len(queue) - 1 THEN queue[n + 1] ELSE kids[n - (Len(queue) - 1)]
      /\ Len(queue) \in Nat /\ Len(kids) \in Nat
  BY <1>0, <1>1, <1>h DEF Pops, Waiting
<1>3. queue[1] = <<h, d>>
  BY <1>0, <1>1, <1>h DEF Use, Depth, Waiting
<1>4. \A u \in Uses, e \in Nat : QueuedAt(u, e) => QueuedAt(u, e)' \/ (u = h /\ e = d)
  <2> SUFFICES ASSUME NEW u \in Uses, NEW e \in Nat, QueuedAt(u, e), ~(u = h /\ e = d) PROVE QueuedAt(u, e)'
    OBVIOUS
  <2>0. PICK n \in 1 .. Len(queue) : queue[n] = <<u, e>> /\ n # 1
    BY <1>3 DEF QueuedAt
  <2>1. n - 1 \in 1 .. Len(queue') /\ queue'[n - 1] = queue[n]
    BY <1>2, <2>0
  <2> QED BY <2>0, <2>1 DEF QueuedAt
<1>5. \A n \in 1 .. Len(kids) : \E m \in 1 .. Len(queue') : queue'[m] = kids[n]
  <2> TAKE n \in 1 .. Len(kids)
  <2>1. n + (Len(queue) - 1) \in 1 .. Len(queue') /\ queue'[n + (Len(queue) - 1)] = kids[n]
    BY <1>2
  <2> QED BY <2>1
<1>6. \A u \in Uses : Met(u) => Met(u)'
  BY <1>h DEF Met, Pops
<1>7. Met(h)'
  BY <1>h DEF Met, Pops
<1>8. \A u \in Uses : Met(u) \/ Queued(u) => Met(u)' \/ Queued(u)'
  BY <1>4, <1>6, <1>7 DEF Queued
<1>9. RootsCovered'
  <2>1. ToSet(roots) \subseteq Uses
    BY LookupAssumption DEF ToSet
  <2> QED BY <1>0, <1>8, <2>1 DEF RootsCovered
<1>10. d + 1 < MAX_DEPTH => Closed'
  <2> SUFFICES ASSUME d + 1 < MAX_DEPTH, NEW u \in DOMAIN index' \cap Composites, NEW v \in ToSet(nested[u])
               PROVE  Met(v)' \/ Queued(v)'
    BY DEF Closed
  <2>1. v \in Uses
    BY LookupAssumption DEF ToSet
  <2>2. CASE u \in DOMAIN index
    BY <1>h, <1>0, <1>8, <2>1, <2>2 DEF InFront, Closed
  <2>3. CASE u \notin DOMAIN index
    <3>1. PICK n \in 1 .. Len(kids) : kids[n] = <<v, d + 1>>
      BY <1>h, <2>3 DEF Pops
    <3>2. QueuedAt(v, d + 1)' /\ d + 1 \in 0 .. MAX_DEPTH - 1
      BY <1>1, <1>h, <1>5, <3>1 DEF QueuedAt
    <3> QED BY <3>2 DEF Queued
  <2> QED BY <2>2, <2>3
<1>11. /\ \A n \in 1 .. Len(queue') : queue'[n][2] \in {d, d + 1}
       /\ \A m, n \in 1 .. Len(queue') : m <= n => queue'[m][2] <= queue'[n][2]
  <2>1. \A n \in 1 .. Len(queue) : queue[n][2] \in {d, d + 1}
    BY <1>h, <1>0 DEF ByDepth
  <2>2. \A n \in 1 .. Len(kids) : kids[n][2] = d + 1
    BY <1>h DEF Pops
  <2>3. \A n \in 1 .. Len(queue') : queue'[n][2] \in {d, d + 1}
    <3> TAKE n \in 1 .. Len(queue')
    <3>1. CASE n <= Len(queue) - 1
      BY <1>2, <2>1, <3>1
    <3>2. CASE ~(n <= Len(queue) - 1)
      <4>1. n - (Len(queue) - 1) \in 1 .. Len(kids) /\ queue'[n] = kids[n - (Len(queue) - 1)]
        BY <1>2, <3>2
      <4> QED BY <2>2, <4>1
    <3> QED BY <3>1, <3>2
  <2>4. \A m, n \in 1 .. Len(queue') : m <= n => queue'[m][2] <= queue'[n][2]
    <3> TAKE m, n \in 1 .. Len(queue')
    <3> HAVE m <= n
    <3>1. CASE n <= Len(queue) - 1
      <4>1. m + 1 \in 1 .. Len(queue) /\ n + 1 \in 1 .. Len(queue) /\ queue'[m] = queue[m + 1] /\ queue'[n] = queue[n + 1]
        BY <1>2, <3>1
      <4> QED BY <1>h, <1>0, <4>1 DEF ByDepth
    <3>2. CASE ~(n <= Len(queue) - 1)
      <4>1. queue'[n][2] = d + 1 /\ queue'[m][2] \in {d, d + 1}
        <5>1. n - (Len(queue) - 1) \in 1 .. Len(kids) /\ queue'[n] = kids[n - (Len(queue) - 1)]
          BY <1>2, <3>2
        <5> QED BY <2>2, <2>3, <5>1
      <4>2. \A x \in {d, d + 1} : x <= d + 1
        BY <1>h
      <4> QED BY <4>1, <4>2
    <3> QED BY <3>1, <3>2
  <2> QED BY <2>3, <2>4
<1>12. CASE queue' = <<>>
  <2>1. \A u \in Uses : ~Queued(u)'
    BY <1>12 DEF Queued, QueuedAt
  <2>2. ByDepth'
    BY <1>h, <1>12 DEF ByDepth
  <2>3. Finished'
    <3>1. CASE d + 1 < MAX_DEPTH
      BY <1>10, <3>1 DEF Finished
    <3>2. CASE ~(d + 1 < MAX_DEPTH)
      <4>1. d = MAX_DEPTH - 1
        BY <1>1, <1>h, <3>2
      <4>2. ASSUME NEW u \in Reach[d] PROVE Met(u)'
        <5>1. CASE Met(u)
          BY <1>h, <5>1 DEF Met, Pops
        <5>2. CASE QueuedAt(u, d)
          <6>1. u \in Uses
            BY <1>0, <5>2 DEF QueuedAt, Waiting
          <6>2. ~QueuedAt(u, d)'
            BY <1>12 DEF QueuedAt
          <6> QED BY <1>1, <1>h, <1>4, <1>7, <5>2, <6>1, <6>2
        <5> QED BY <1>h, <1>0, <5>1, <5>2 DEF InFront
      <4> QED BY <4>1, <4>2 DEF Finished
    <3> QED BY <3>1, <3>2
  <2> QED BY <1>9, <1>12, <2>2, <2>3 DEF BreadthFirst
<1>13. CASE queue' # <<>>
  <2>1. 1 \in 1 .. Len(queue') /\ Depth' = queue'[1][2]
    BY <1>h, <1>0, <1>13 DEF Depth, Waiting
  <2>2. Depth' \in {d, d + 1} /\ Depth' \in 0 .. MAX_DEPTH - 1
    <3>1. queue'[1] \in Uses \X (0 .. MAX_DEPTH - 1)
      BY <1>0, <2>1 DEF Waiting
    <3> QED BY <1>11, <2>1, <3>1
  <2>3. CASE Depth' = d
    <3>1. ByDepth'
      BY <1>h, <1>11, <2>3 DEF ByDepth
    <3>2. ASSUME NEW u \in Reach[d] PROVE Met(u)' \/ QueuedAt(u, d)'
      <4>1. CASE Met(u)
        BY <1>h, <4>1 DEF Met, Pops
      <4>2. CASE QueuedAt(u, d)
        <5>1. u \in Uses
          BY <1>0, <4>2 DEF QueuedAt, Waiting
        <5> QED BY <1>1, <1>h, <1>4, <1>7, <4>2, <5>1
      <4> QED BY <1>h, <1>0, <4>1, <4>2 DEF InFront
    <3>3. InFront'
      <4>1. \A u \in Reach[Depth'] : Met(u)' \/ QueuedAt(u, d)'
        BY <2>3, <3>2
      <4>2. \A u \in Uses : QueuedAt(u, d)' <=> \E n \in 1 .. Len(queue') : queue'[n] = <<u, Depth'>>
        BY <2>3 DEF QueuedAt
      <4> QED BY <1>h, <1>10, <2>3, <3>2 DEF InFront, QueuedAt
    <3> QED BY <1>9, <1>13, <3>1, <3>3 DEF BreadthFirst
  <2>4. CASE Depth' = d + 1
    <3>0. d + 1 < MAX_DEPTH /\ d \in Nat /\ Closed'
      BY <1>1, <1>h, <1>10, <2>2, <2>4
    <3>1. \A n \in 1 .. Len(queue') : queue'[n][2] = d + 1
      <4> TAKE n \in 1 .. Len(queue')
      <4>1. 1 <= n /\ queue'[1][2] <= queue'[n][2] /\ queue'[n][2] \in {d, d + 1}
        BY <1>11, <2>1
      <4> QED BY <1>1, <1>h, <2>1, <2>4, <4>1
    <3>2. ByDepth'
      BY <1>1, <1>h, <2>4, <3>1 DEF ByDepth
    <3>3. \A u \in Uses : Queued(u)' => \E n \in 1 .. Len(queue') : queue'[n] = <<u, Depth'>>
      <4> SUFFICES ASSUME NEW u \in Uses, NEW e \in 0 .. MAX_DEPTH - 1, NEW n \in 1 .. Len(queue'), queue'[n] = <<u, e>>
                   PROVE  queue'[n] = <<u, Depth'>>
        BY DEF Queued, QueuedAt
      <4> QED BY <2>4, <3>1
    <3>4. ASSUME NEW u \in Reach[d] PROVE Met(u)'
      <4>1. CASE Met(u)
        BY <1>h, <4>1 DEF Met, Pops
      <4>2. CASE QueuedAt(u, d)
        <5>1. u \in Uses
          BY <1>0, <4>2 DEF QueuedAt, Waiting
        <5>2. ~QueuedAt(u, d)'
          <6> SUFFICES ASSUME NEW n \in 1 .. Len(queue'), queue'[n] = <<u, d>> PROVE FALSE
            BY DEF QueuedAt
          <6> QED BY <1>1, <1>h, <3>1
        <5> QED BY <1>1, <1>h, <1>4, <1>7, <4>2, <5>1, <5>2
      <4> QED BY <1>h, <1>0, <4>1, <4>2 DEF InFront
    <3>5. ASSUME NEW u \in Reach[d + 1] PROVE Met(u)' \/ Queued(u)'
      <4>1. u \in Onward(Reach[d])
        BY <3>0, ReachNext
      <4>2. CASE u \in Reach[d]
        BY <3>4, <4>2
      <4>3. CASE u \notin Reach[d]
        <5>1. PICK w \in (Reach[d] \cap Composites) \ Known : u \in ToSet(nested[w])
          BY <4>1, <4>3 DEF Onward
        <5>2. w \in DOMAIN index' \cap Composites
          BY <3>4, <5>1, LookupAssumption DEF Met
        <5> QED BY <3>0, <5>1, <5>2 DEF Closed
      <4> QED BY <4>2, <4>3
    <3>6. ASSUME NEW u \in Reach[d + 1] PROVE Met(u)' \/ \E n \in 1 .. Len(queue') : queue'[n] = <<u, Depth'>>
      <4>1. Queued(u)' => u \in Uses
        BY <1>0 DEF Queued, QueuedAt, Waiting
      <4> QED BY <3>3, <3>5, <4>1
    <3>7. InFront'
      BY <1>h, <2>4, <3>0, <3>6 DEF InFront, QueuedAt
    <3> QED BY <1>9, <1>13, <3>2, <3>7 DEF BreadthFirst
  <2> QED BY <2>2, <2>3, <2>4
<1> QED BY <1>12, <1>13

LEMMA BreadthFirstNext == LookupShape /\ LookupShape' /\ BreadthFirst /\ [LookupNext]_lookupVars => BreadthFirst'
<1> SUFFICES ASSUME LookupShape, LookupShape', BreadthFirst, [LookupNext]_lookupVars PROVE BreadthFirst'
  OBVIOUS
<1>0. queue \in Waiting /\ Asked /\ <<>> \in Waiting
  BY DEF LookupShape, Waiting
<1>a. queue # <<>> => Tail(queue) \o <<>> = Tail(queue) /\ Use \in Uses /\ Depth \in 0 .. MAX_DEPTH - 1
  <2> HAVE queue # <<>>
  <2>1. Tail(queue) \in Waiting
    BY <1>0, HeadWaits
  <2> QED BY <1>0, <2>1, HeadWaits DEF Waiting
<1>b. CASE refused # {}
  <2>1. refused' # {}
    BY <1>b DEF LookupNext, SkipUse, BeginLookup, ReadManifest, NextName, RecordMissing, RequestFails, LookupFails, lookupVars
  <2> QED BY <2>1 DEF BreadthFirst
<1>c. ASSUME refused = {}, UNCHANGED <<queue, index, refused>> PROVE BreadthFirst'
  BY <1>c DEF BreadthFirst, ByDepth, RootsCovered, InFront, Finished, Closed, Met, Queued, QueuedAt, Depth
<1> SUFFICES ASSUME refused = {} PROVE BreadthFirst'
  BY <1>b
<1>1. CASE SkipUse
  <2>1. Pops(<<>>) /\ queue # <<>>
    BY <1>a, <1>1 DEF SkipUse, Skipped, Pops
  <2> QED BY <1>0, <2>1, PopsKeep
<1>2. CASE ReadManifest
  <2>1. queue # <<>>
    BY <1>0, <1>2 DEF ReadManifest, Asked
  <2>2. Use \in Uses /\ Depth \in Nat
    BY <1>a, <2>1
  <2>3. PICK kids \in Waiting :
          /\ Behind(Use, Depth) = Tail(queue) \o kids
          /\ \A n \in 1 .. Len(kids) : kids[n][2] = Depth + 1
          /\ Use \in Composites /\ Depth + 1 < MAX_DEPTH
               => \A v \in ToSet(nested[Use]) : \E n \in 1 .. Len(kids) : kids[n] = <<v, Depth + 1>>
    BY <1>0, <2>1, <2>2, KidsWait
  <2>4. DOMAIN index' = DOMAIN index \cup {Use} /\ queue' = Behind(Use, Depth)
    BY <1>2 DEF ReadManifest
  <2>5. Pops(kids)
    BY <2>3, <2>4 DEF Pops
  <2> QED BY <2>1, <2>5, PopsKeep
<1>3. CASE RecordMissing
  <2>1. try # NoRequest
    BY <1>3 DEF RecordMissing, NoRequest
  <2>2. queue # <<>>
    BY <1>0, <2>1 DEF Asked
  <2>3. DOMAIN index' = DOMAIN index \cup {Use} /\ queue' = Tail(queue) /\ Use \notin Composites
    BY <1>3 DEF RecordMissing
  <2>4. Pops(<<>>)
    BY <1>a, <2>2, <2>3 DEF Pops
  <2> QED BY <1>0, <2>2, <2>4, PopsKeep
<1>4. ASSUME NEW cause \in Causes, LookupFails(cause) PROVE BreadthFirst'
  BY <1>4 DEF LookupFails, BreadthFirst
<1> QED BY <1>c, <1>1, <1>2, <1>3, <1>4 DEF LookupNext, BeginLookup, NextName, RequestFails, lookupVars

LEMMA BreadthFirstInv == LookupSpec => [](LookupShape /\ BreadthFirst)
<1>1. LookupSpec => []LookupShape
  BY LookupShapeInv
<1> QED BY <1>1, BreadthFirstInit, BreadthFirstNext, PTL DEF LookupSpec

LEMMA FinishedIsComplete ==
  ASSUME LookupShape, BreadthFirst, queue = <<>>, refused = {}
  PROVE  \A u \in Reach[MAX_DEPTH - 1] : Met(u)
<1>0. MAX_DEPTH - 1 \in Nat
  BY LookupAssumption
<1>1. Finished /\ RootsCovered /\ \A u : ~Queued(u)
  BY DEF BreadthFirst, Queued, QueuedAt
<1>2. CASE Closed
  <2> DEFINE There(d) == \A u \in Reach[d] : Met(u)
             T == {d \in 0 .. MAX_DEPTH - 1 : ~There(d)}
  <2> SUFFICES ASSUME T # {} PROVE FALSE
    BY <1>0
  <2>1. PICK d \in T : \A x \in T : d <= x
    <3>1. T \in SUBSET Nat
      OBVIOUS
    <3> HIDE DEF T
    <3> QED BY <3>1, LeastNumber
  <2>2. CASE d = 0
    BY <1>1, <2>2, RootsReached DEF RootsCovered
  <2>3. CASE d # 0
    <3>0. d \in 0 .. MAX_DEPTH - 1
      OBVIOUS
    <3>1. d - 1 \in 0 .. MAX_DEPTH - 1 /\ d - 1 \notin T /\ (d - 1) + 1 = d /\ d - 1 \in Nat /\ d < MAX_DEPTH
      <4> HIDE DEF T
      <4>1. d - 1 \in 0 .. MAX_DEPTH - 1 /\ (d - 1) + 1 = d /\ d - 1 \in Nat /\ d < MAX_DEPTH /\ ~(d <= d - 1)
        BY <1>0, <2>3, <3>0, LookupAssumption
      <4> QED BY <2>1, <4>1
    <3>2. There(d - 1) /\ Reach[d] = Onward(Reach[d - 1])
      <4>1. There(d - 1)
        BY <3>1
      <4>2. Reach[(d - 1) + 1] = Onward(Reach[d - 1])
        BY <3>1, ReachNext
      <4> QED BY <3>1, <4>1, <4>2
    <3>3. ASSUME NEW u \in Reach[d] PROVE Met(u)
      <4>1. CASE u \in Reach[d - 1]
        BY <3>2, <4>1
      <4>2. CASE u \notin Reach[d - 1]
        <5>1. PICK w \in (Reach[d - 1] \cap Composites) \ Known : u \in ToSet(nested[w])
          BY <3>2, <3>3, <4>2 DEF Onward
        <5>2. w \in DOMAIN index \cap Composites
          BY <3>2, <5>1, LookupAssumption DEF Met
        <5> QED BY <1>1, <1>2, <5>1, <5>2 DEF Closed
      <4> QED BY <4>1, <4>2
    <3> QED BY <2>1, <3>3
  <2> QED BY <2>2, <2>3
<1> QED BY <1>1, <1>2 DEF Finished

\* A lookup that ends within its budget has every action up to MAX_DEPTH composites deep, for every
\* graph of composites (resolve_actions, whose queue is first in, first out).
THEOREM IndexCompleteHolds == LookupSpec => []IndexComplete
<1>1. LookupShape /\ BreadthFirst => IndexComplete
  BY FinishedIsComplete DEF IndexComplete, Met
<1> QED BY <1>1, BreadthFirstInv, PTL

-----------------------------------------------------------------------------
(* The types of logs. *)

\* The rows that ask for the log of a job and the fetchers at it are no more than were asked for.
FetchersOf(j) == {f \in Writers : job[f] = j}

LogCounted ==
  /\ queued \in [LogJobs -> Nat]
  /\ asks \in 0 .. MaxAsks /\ faults \in 0 .. MaxLogFaults
  /\ \A j \in LogJobs : queued[j] + Cardinality(FetchersOf(j)) <= asks
  /\ \A f \in Writers : handle[f] # NoFile <=> at[f] \in Writing

LEMMA FetchersAreFinite ==
  ASSUME NEW S \in SUBSET Writers
  PROVE  IsFiniteSet(S) /\ Cardinality(S) \in Nat
<1>1. IsFiniteSet(S)
  BY LogAssumption, FS_Subset
<1> QED BY <1>1, FS_CardinalityType

LEMMA LogCountedInit == LogInit => LogCounted
<1> SUFFICES ASSUME LogInit PROVE LogCounted
  OBVIOUS
<1>1. \A j \in LogJobs : FetchersOf(j) = {}
  BY LogAssumption DEF LogInit, FetchersOf
<1>2. \A j \in LogJobs : queued[j] + Cardinality(FetchersOf(j)) = 0
  BY <1>1, FS_EmptySet DEF LogInit
<1> QED BY <1>2, LogAssumption DEF LogInit, LogCounted, FilesInit, Writing

\* A fetcher that leaves its job is one less at it.
LEMMA FetcherLeaves ==
  ASSUME LogInv, NEW f \in Writers, NEW k \in LogJobs, job[f] = k, job' = [job EXCEPT ![f] = NoLogJob]
  PROVE  /\ Cardinality(FetchersOf(k)') + 1 = Cardinality(FetchersOf(k))
         /\ \A j \in LogJobs : Cardinality(FetchersOf(j)') <= Cardinality(FetchersOf(j))
<1>1. job \in [Writers -> LogJobs \cup {NoLogJob}]
  BY DEF LogInv, LogShape
<1>2. FetchersOf(k)' = FetchersOf(k) \ {f} /\ f \in FetchersOf(k)
  BY <1>1, LogAssumption DEF FetchersOf
<1>3. \A j \in LogJobs : FetchersOf(j)' \subseteq FetchersOf(j) /\ FetchersOf(j) \subseteq Writers
  BY <1>1, LogAssumption DEF FetchersOf
<1>4. \A j \in LogJobs : Cardinality(FetchersOf(j)') <= Cardinality(FetchersOf(j))
  BY <1>3, FetchersAreFinite, FS_Subset
<1>5. IsFiniteSet(FetchersOf(k)) /\ Cardinality(FetchersOf(k)) \in Nat
  BY <1>3, FetchersAreFinite
<1>6. Cardinality(FetchersOf(k) \ {f}) = Cardinality(FetchersOf(k)) - 1
  BY <1>2, <1>5, FS_RemoveElement
<1>7. Cardinality(FetchersOf(k)') + 1 = Cardinality(FetchersOf(k))
  BY <1>2, <1>5, <1>6
<1> QED BY <1>4, <1>7

LEMMA LogCountedNext == LogInv /\ OnceInv /\ LogCounted /\ [LogNext]_logVars => LogCounted'
<1> SUFFICES ASSUME LogInv, OnceInv, LogCounted, [LogNext]_logVars PROVE LogCounted'
  OBVIOUS
<1>0. /\ LogShape /\ KnowsItsJob /\ queued \in [LogJobs -> Nat] /\ MaxAsks \in Nat /\ MaxLogFaults \in Nat
      /\ asks \in 0 .. MaxAsks /\ faults \in 0 .. MaxLogFaults /\ NoFile \notin Inodes /\ NoLogJob \notin LogJobs
      /\ \A j \in LogJobs : FetchersOf(j) \subseteq Writers /\ Cardinality(FetchersOf(j)) \in Nat
  BY LogAssumption, FileAssumption, FetchersAreFinite DEF LogInv, LogCounted, FetchersOf
<1>q. ASSUME UNCHANGED job PROVE \A j \in LogJobs : FetchersOf(j)' = FetchersOf(j)
  BY <1>q DEF FetchersOf
<1>1. CASE AskForLogs
  <2>1. /\ queued' \in [LogJobs -> Nat] /\ asks' = asks + 1 /\ asks' \in 0 .. MaxAsks
        /\ \A j \in LogJobs : queued'[j] <= queued[j] + 1
        /\ UNCHANGED <<faults, at, job, handle>>
    BY <1>0, <1>1 DEF AskForLogs, fileVars, fetchers
  <2>2. \A j \in LogJobs : queued'[j] + Cardinality(FetchersOf(j)') <= asks'
    BY <1>0, <1>q, <2>1 DEF LogCounted
  <2> QED BY <1>0, <2>1, <2>2 DEF LogCounted
<1>2. ASSUME NEW f \in Writers, NEW j \in LogJobs, BeginLog(f, j) PROVE LogCounted'
  <2>1. /\ queued' = [queued EXCEPT ![j] = @ - 1] /\ queued[j] > 0 /\ at[f] = "idle"
        /\ UNCHANGED <<asks, faults, handle>>
    BY <1>2 DEF BeginLog, fileVars
  <2>2. queued' \in [LogJobs -> Nat]
    BY <1>0, <2>1
  <2>3. \A g \in Writers : at'[g] \in Writing <=> at[g] \in Writing
    BY <1>0, <1>2 DEF BeginLog, LogShape, Writing, fetchers
  <2>4. \A k \in LogJobs : Cardinality(FetchersOf(k)') <= Cardinality(FetchersOf(k)) + (IF k = j THEN 1 ELSE 0)
    <3>1. CASE UNCHANGED job
      BY <1>0, <1>q, <3>1
    <3>2. CASE job' = [job EXCEPT ![f] = j]
      <4>1. job[f] = NoLogJob
        BY <2>1 DEF OnceInv
      <4>2. FetchersOf(j)' = FetchersOf(j) \cup {f} /\ \A k \in LogJobs \ {j} : FetchersOf(k)' = FetchersOf(k)
        BY <1>0, <3>2, <4>1 DEF FetchersOf, LogShape
      <4>3. f \notin FetchersOf(j) /\ IsFiniteSet(FetchersOf(j))
        BY <1>0, <4>1, FetchersAreFinite DEF FetchersOf
      <4>4. Cardinality(FetchersOf(j) \cup {f}) = Cardinality(FetchersOf(j)) + 1
        BY <4>3, FS_AddElement
      <4> QED BY <1>0, <4>2, <4>4
    <3> QED BY <1>2, <3>1, <3>2 DEF BeginLog, fetchers
  <2>5. \A k \in LogJobs : queued'[k] + Cardinality(FetchersOf(k)') <= asks'
    <3> TAKE k \in LogJobs
    <3>1. Cardinality(FetchersOf(k)') \in Nat
      BY FetchersAreFinite DEF FetchersOf
    <3>2. queued[k] + Cardinality(FetchersOf(k)) <= asks /\ queued[k] \in Nat
      BY <1>0 DEF LogCounted
    <3>3. CASE k = j
      BY <1>0, <2>1, <2>4, <3>1, <3>2, <3>3
    <3>4. CASE k # j
      BY <1>0, <2>1, <2>4, <3>1, <3>2, <3>4
    <3> QED BY <3>3, <3>4
  <2> QED BY <1>0, <2>1, <2>2, <2>3, <2>5 DEF LogCounted
<1>3. ASSUME NEW f \in Writers, FetchData(f) \/ AlreadyStored(f) \/ OpenTemp(f) \/ WriteTemp(f) \/ Publish(f)
      PROVE  LogCounted'
  <2>1. UNCHANGED <<queued, asks, faults, job>>
    BY <1>3 DEF FetchData, AlreadyStored, OpenTemp, WriteTemp, Publish, logHistory
  <2>2. \A g \in Writers : handle'[g] # NoFile <=> at'[g] \in Writing
    <3>1. CASE FetchData(f) \/ AlreadyStored(f)
      BY <1>0, <3>1 DEF FetchData, AlreadyStored, LogShape, LogCounted, Writing, fileVars
    <3>2. CASE OpenTemp(f)
      <4>1. PICK i : handle' = [handle EXCEPT ![f] = i] /\ i # NoFile
        <5> DEFINE n == Temp(f, remote[job[f]])
        <5>1. Exists(n) \/ Unused # {}
          BY <3>2 DEF OpenTemp, OpenFile
        <5>2. handle' = [handle EXCEPT ![f] = IF Exists(n) THEN dir[n] ELSE CHOOSE i \in Unused : TRUE]
          BY <3>2 DEF OpenTemp, OpenFile
        <5>3. (IF Exists(n) THEN dir[n] ELSE CHOOSE i \in Unused : TRUE) # NoFile
          BY <1>0, <5>1 DEF Exists, Unused
        <5> QED BY <5>2, <5>3
      <4> QED BY <1>0, <3>2, <4>1 DEF OpenTemp, LogShape, FilesTypeOK, LogCounted, Writing
    <3>3. CASE WriteTemp(f)
      BY <1>0, <3>3 DEF WriteTemp, WriteFile, LogShape, LogCounted, Writing
    <3>4. CASE Publish(f)
      BY <1>0, <3>4 DEF Publish, Rename, LogShape, FilesTypeOK, LogCounted, Writing
    <3> QED BY <1>3, <3>1, <3>2, <3>3, <3>4
  <2> QED BY <1>0, <1>q, <2>1, <2>2 DEF LogCounted
<1>4. ASSUME NEW f \in Writers, FetchExpired(f) \/ InsertChunk(f) PROVE LogCounted'
  <2>1. UNCHANGED <<queued, asks, faults, handle>> /\ job' = [job EXCEPT ![f] = NoLogJob] /\ job[f] \in LogJobs
    BY <1>0, <1>4 DEF FetchExpired, InsertChunk, Finish, logHistory, fileVars, KnowsItsJob
  <2>2. \A g \in Writers : at'[g] \in Writing <=> at[g] \in Writing
    BY <1>0, <1>4 DEF FetchExpired, InsertChunk, Finish, LogShape, Writing
  <2>3. \A j \in LogJobs : Cardinality(FetchersOf(j)') <= Cardinality(FetchersOf(j)) /\ Cardinality(FetchersOf(j)') \in Nat
    BY <2>1, FetcherLeaves, FetchersAreFinite DEF FetchersOf
  <2>4. \A j \in LogJobs : queued'[j] + Cardinality(FetchersOf(j)') <= asks'
    BY <1>0, <2>1, <2>3 DEF LogCounted
  <2> QED BY <1>0, <2>1, <2>2, <2>4 DEF LogCounted
<1>5. ASSUME NEW f \in Writers, Raises(f) \/ Dies(f) PROVE LogCounted'
  <2>1. /\ queued' = [queued EXCEPT ![job[f]] = @ + 1] /\ faults' = faults + 1 /\ faults < MaxLogFaults
        /\ asks' = asks /\ job' = [job EXCEPT ![f] = NoLogJob] /\ at[f] \notin {"idle", "dead"}
    BY <1>5 DEF Raises, Dies, GiveBack, Finish
  <2>2. job[f] \in LogJobs
    BY <1>0, <2>1 DEF LogShape, KnowsItsJob
  <2>3. \A g \in Writers : handle'[g] # NoFile <=> at'[g] \in Writing
    <3>1. (\A g \in Writers \ {f} : at'[g] = at[g]) /\ at'[f] \in {"idle", "dead"}
      BY <1>0, <1>5 DEF Raises, Dies, GiveBack, Finish, LogShape
    <3>2. (\A g \in Writers \ {f} : handle'[g] = handle[g]) /\ handle'[f] = NoFile
      BY <1>0, <1>5 DEF Raises, Dies, Unlink, Close, LogShape, FilesTypeOK, LogCounted, Writing, fileVars
    <3> QED BY <3>1, <3>2 DEF LogCounted, Writing
  <2>4. PICK k : k = job[f] /\ k \in LogJobs
    BY <2>2
  <2>5. \A j \in LogJobs : Cardinality(FetchersOf(j)') \in Nat
    BY FetchersAreFinite DEF FetchersOf
  <2>6. /\ Cardinality(FetchersOf(k)') + 1 = Cardinality(FetchersOf(k))
        /\ \A j \in LogJobs : Cardinality(FetchersOf(j)') <= Cardinality(FetchersOf(j))
    BY <2>1, <2>4, FetcherLeaves
  <2>7. \A j \in LogJobs : queued'[j] + Cardinality(FetchersOf(j)') <= asks'
    <3> TAKE j \in LogJobs
    <3>1. queued[j] + Cardinality(FetchersOf(j)) <= asks /\ queued[j] \in Nat
      BY <1>0 DEF LogCounted
    <3>2. CASE j = k
      BY <1>0, <2>1, <2>4, <2>5, <2>6, <3>1, <3>2
    <3>3. CASE j # k
      BY <1>0, <2>1, <2>4, <2>5, <2>6, <3>1, <3>3
    <3> QED BY <3>2, <3>3
  <2> QED BY <1>0, <2>1, <2>2, <2>3, <2>7 DEF LogCounted
<1>6. CASE UNCHANGED logVars
  BY <1>0, <1>6, <1>q DEF logVars, fileVars, fetchers, logHistory, LogCounted
<1> QED BY <1>1, <1>2, <1>3, <1>4, <1>5, <1>6 DEF LogNext

LEMMA LogTypes == LogInv /\ OnceInv /\ LogCounted => LogTypeOK
<1> SUFFICES ASSUME LogInv, OnceInv, LogCounted PROVE LogTypeOK
  OBVIOUS
<1>1. \A j \in LogJobs : queued[j] \in 0 .. MaxAsks
  <2> TAKE j \in LogJobs
  <2>1. Cardinality(FetchersOf(j)) \in Nat
    BY FetchersAreFinite DEF FetchersOf
  <2> QED BY <2>1, LogAssumption DEF LogCounted
<1>2. queued \in [LogJobs -> 0 .. MaxAsks]
  BY <1>1 DEF LogCounted
<1> QED BY <1>2 DEF LogTypeOK, LogInv, LogShape, OnceInv, LogCounted, Writing

-----------------------------------------------------------------------------
(* The types of previews. *)

PreviewCounted ==
  /\ scope \in [Writers -> SUBSET Workflows]
  /\ last \in Contents \cup {Torn}
  /\ failures \in 0 .. MaxFailures

LEMMA PreviewCountedInit == PreviewInit => PreviewCounted
BY PreviewAssumption DEF PreviewInit, PreviewCounted

LEMMA PreviewCountedNext == PreviewInv /\ PreviewCounted /\ [PreviewNext]_previewVars => PreviewCounted'
<1> SUFFICES ASSUME PreviewInv, PreviewCounted, [PreviewNext]_previewVars PROVE PreviewCounted'
  OBVIOUS
<1>0. /\ source \in [Writers -> SUBSET Workflows] /\ scope \in [Writers -> SUBSET Workflows]
      /\ last \in Contents \cup {Torn} /\ failures \in 0 .. MaxFailures
      /\ Contents = SUBSET Workflows /\ MaxFailures \in Nat
  BY PreviewAssumption DEF PreviewInv, PreviewShape, PreviewCounted
<1>1. ASSUME NEW w \in Writers, StartPreview(w) PROVE PreviewCounted'
  BY <1>0, <1>1 DEF StartPreview, PreviewCounted
<1>2. ASSUME NEW w \in Writers, NEW p \in Workflows, CaptureFile(w, p) PROVE PreviewCounted'
  BY <1>0, <1>2 DEF CaptureFile, PreviewCounted
<1>3. ASSUME NEW w \in Writers, CaptureFails(w) \/ PreviewDies(w) PROVE PreviewCounted'
  BY <1>0, <1>3 DEF CaptureFails, PreviewDies, EndPreview, PreviewCounted
<1>4. ASSUME NEW w \in Writers, CaptureDone(w) \/ OpenSnapshot(w) \/ WriteSnapshot(w) PROVE PreviewCounted'
  BY <1>0, <1>4 DEF CaptureDone, OpenSnapshot, WriteSnapshot, PreviewCounted
<1>5. ASSUME NEW w \in Writers, ReplaceSnapshot(w) \/ ReplaceFails(w) PROVE PreviewCounted'
  BY <1>0, <1>5 DEF ReplaceSnapshot, ReplaceFails, EndPreview, PreviewCounted
<1>6. CASE UNCHANGED previewVars
  BY <1>0, <1>6 DEF previewVars, PreviewCounted
<1> QED BY <1>1, <1>2, <1>3, <1>4, <1>5, <1>6 DEF PreviewNext

LEMMA PreviewTypes == PreviewInv /\ PreviewCounted => PreviewTypeOK
BY DEF PreviewInv, PreviewShape, PreviewCounted, PreviewTypeOK

-----------------------------------------------------------------------------
(* The types of commits. *)

CommitCounted ==
  /\ todo \in [Backfillers -> SUBSET Shas]
  /\ late \subseteq runs
  /\ passes \in 0 .. MaxPasses /\ cuts \in 0 .. MaxCuts

LEMMA UnfetchedAreShas == runs \subseteq Runs => Unfetched \subseteq Shas
BY DEF Unfetched, FirstOf, Shas

LEMMA CommitCountedInv == CommitSpec => []CommitCounted
<1>1. CommitInit => CommitCounted
  BY CommitAssumption DEF CommitInit, CommitCounted
<1>2. CommitInv /\ CommitCounted /\ [CommitNext]_commitVars => CommitCounted'
  <2> SUFFICES ASSUME CommitInv, CommitCounted, [CommitNext]_commitVars PROVE CommitCounted'
    OBVIOUS
  <2>0. /\ runs \subseteq Runs /\ MaxPasses \in Nat /\ MaxCuts \in Nat /\ late \subseteq runs
        /\ todo \in [Backfillers -> SUBSET Shas] /\ passes \in 0 .. MaxPasses /\ cuts \in 0 .. MaxCuts
    BY CommitAssumption DEF CommitInv, CommitShape, CommitCounted
  <2>1. ASSUME NEW r \in Runs, RunArrives(r) PROVE CommitCounted'
    BY <2>0, <2>1 DEF RunArrives, CommitCounted
  <2>2. ASSUME NEW b \in Backfillers, BeginPass(b) PROVE CommitCounted'
    <3>1. todo' = [todo EXCEPT ![b] = Unfetched] /\ passes' \in 0 .. MaxPasses /\ UNCHANGED <<runs, late, cuts>>
      BY <2>0, <2>2 DEF BeginPass
    <3> QED BY <2>0, <3>1, UnfetchedAreShas DEF CommitCounted
  <2>3. ASSUME NEW b \in Backfillers, NEW c \in Shas, FetchCommit(b, c) PROVE CommitCounted'
    BY <2>0, <2>3 DEF FetchCommit, CommitCounted
  <2>4. ASSUME NEW b \in Backfillers, StoreCommits(b) PROVE CommitCounted'
    BY <2>0, <2>4 DEF StoreCommits, CommitCounted
  <2>5. ASSUME NEW b \in Backfillers, FillTrees(b) \/ PassCut(b) PROVE CommitCounted'
    BY <2>0, <2>5 DEF FillTrees, PassCut, EndPass, CommitCounted
  <2>6. CASE UNCHANGED commitVars
    BY <2>0, <2>6 DEF commitVars, CommitCounted
  <2> QED BY <2>1, <2>2, <2>3, <2>4, <2>5, <2>6 DEF CommitNext
<1> QED BY <1>1, <1>2, CommitInitially, CommitInductive, PTL DEF CommitSpec

LEMMA CommitTypeOKInv == CommitSpec => []CommitTypeOK
<1>1. CommitInv /\ CommitCounted => CommitTypeOK
  <2> SUFFICES ASSUME CommitInv, CommitCounted PROVE CommitTypeOK
    OBVIOUS
  <2>1. CommitShape /\ CommitsOwn /\ RecordsOwn /\ RunsOwn
    BY DEF CommitInv, CommitShape
  <2>2. NoTree \in Trees /\ \A c \in Shas : treeOf[c] \in Trees
    BY DEF Trees
  <2>3. \A r \in Runs : runTree[r] \in Trees
    BY <2>1, <2>2, HeadsAreCommits DEF RunsOwn
  <2>4. \A c \in Shas : commits[c] \in Trees \cup {NoCommit}
    BY <2>1, <2>2 DEF CommitsOwn
  <2>5. runTree \in [Runs -> Trees] /\ commits \in [Shas -> Trees \cup {NoCommit}]
    BY <2>1, <2>3, <2>4 DEF CommitShape
  <2>6. \A b \in Backfillers : DOMAIN records[b] \subseteq Shas /\ \A c \in DOMAIN records[b] : records[b][c] \in Trees
    BY <2>1, <2>2 DEF RecordsOwn
  <2> QED BY <2>1, <2>5, <2>6 DEF CommitShape, CommitCounted, CommitTypeOK
<1> QED BY <1>1, CommitCountedInv, CommitInitially, CommitInductive, PTL DEF CommitSpec

-----------------------------------------------------------------------------
(* The types of workflow files. *)

LEMMA ConfigTypeOKInv == ConfigSpec => []ConfigTypeOK
BY ConfigInvHolds, PTL DEF ConfigInv

-----------------------------------------------------------------------------
(* All of them as scenes of one specification. *)

\* Logs and previews share the file system, so each is right in a behaviour of its own.
SceneInv ==
  /\ scene = "logs" => LogInv /\ OnceInv /\ LogCounted
  /\ scene = "previews" => PreviewInv /\ PreviewCounted

LEMMA SceneInvHolds == Spec => []SceneInv
<1>1. Init => SceneInv
  BY LogInitially, OnceInitially, LogCountedInit, PreviewInitially, PreviewCountedInit DEF Init, SceneInv
<1>2. SceneInv /\ [Next]_stores => SceneInv'
  <2> SUFFICES ASSUME SceneInv, [Next]_stores PROVE SceneInv'
    OBVIOUS
  <2>1. scene' = scene
    BY DEF Next, stores, LogStep, PreviewStep, CommitStep, ConfigStep, LookupStep
  <2>2. CASE scene = "logs"
    <3>1. [LogNext]_logVars
      BY <2>2 DEF Next, stores, LogStep, PreviewStep, CommitStep, ConfigStep, LookupStep
    <3>2. LogInv' /\ OnceInv' /\ LogCounted'
      BY <2>2, <3>1, LogInductive, OnceInductive, LogCountedNext DEF SceneInv
    <3> QED BY <2>1, <2>2, <3>2 DEF SceneInv
  <2>3. CASE scene = "previews"
    <3>1. [PreviewNext]_previewVars
      BY <2>3 DEF Next, stores, LogStep, PreviewStep, CommitStep, ConfigStep, LookupStep
    <3>2. PreviewInv' /\ PreviewCounted'
      BY <2>3, <3>1, PreviewInductive, PreviewCountedNext DEF SceneInv
    <3> QED BY <2>1, <2>3, <3>2 DEF SceneInv
  <2>4. CASE scene \notin {"logs", "previews"}
    BY <2>1, <2>4 DEF SceneInv
  <2> QED BY <2>2, <2>3, <2>4
<1> QED BY <1>1, <1>2, PTL DEF Spec

\* The state of each store is of the types TypeOK gives: in particular no log has more rows and
\* fetchers than it was asked for.
THEOREM TypesOfStores == Spec => []TypeOK
<1>1. Init => CommitInit /\ ConfigInit /\ LookupInit
  BY DEF Init
<1>2. [Next]_stores => [CommitNext]_commitVars
  BY DEF Next, stores, LogStep, PreviewStep, CommitStep, ConfigStep, LookupStep
<1>3. [Next]_stores => [ConfigNext]_configVars
  BY DEF Next, stores, LogStep, PreviewStep, CommitStep, ConfigStep, LookupStep
<1>4. [Next]_stores => [LookupNext]_lookupVars
  BY DEF Next, stores, LogStep, PreviewStep, CommitStep, ConfigStep, LookupStep
<1>5. Spec => CommitSpec /\ ConfigSpec /\ LookupSpec
  BY <1>1, <1>2, <1>3, <1>4, PTL DEF Spec, CommitSpec, ConfigSpec, LookupSpec
<1>6. SceneInv /\ CommitTypeOK /\ ConfigTypeOK /\ LookupShape => TypeOK
  BY LogTypes, PreviewTypes DEF SceneInv, LookupShape, TypeOK
<1> QED BY <1>5, <1>6, SceneInvHolds, CommitTypeOKInv, ConfigTypeOKInv, LookupShapeInv, PTL
==============================================================================
