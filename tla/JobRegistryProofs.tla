-------------------------- MODULE JobRegistryProofs --------------------------
(***************************************************************************)
(* What the readers of a job and its owner may rely on, for any number of  *)
(* jobs, files and requests.  The argument has three layers: what the      *)
(* place of a job's goroutine says of its status, list and files (Staged), *)
(* what a request that has looked at the job may conclude (Informed), and  *)
(* what the prune cannot take from a job before its TTL (Kept).            *)
(***************************************************************************)
EXTENDS JobRegistry, TLAPS

\* What a request knows: the status it asks for, or the file it fetches.
Asking == [at : {"found", "checked"}, op : {"status"}, job : Jobs]

Fetching == [at : {"found", "checked", "listed"}, op : {"download", "preview"},
             job : Jobs, file : Files]

Answered == [at : {"replied"}, names : SUBSET Files] \cup [at : {"served"}, got : {"partial", "whole"}]

ReaderStates == {Idle} \cup Asking \cup Fetching \cup Answered

Typed == TypeOK /\ reader \in [Readers -> ReaderStates]

\* A file is cut short only while it is written, or once the job has failed.
Staged ==
  \A j \in Jobs :
    /\ status[j] = "done" => run[j] = "ended" /\ files[j] = Files
    /\ run[j] = "listed" => files[j] = Files
    /\ status[j] = "error" => run[j] \in {"failing", "ended"}
    /\ run[j] = "failing" => status[j] = "error"
    /\ run[j] \in {"none", "queued", "running"} => j \notin onDisk
    /\ run[j] = "ended" /\ status[j] = "error" => j \notin onDisk
    /\ j \notin onDisk => content[j] = Empty
    /\ \A f \in Files : content[j][f] = "partial" =>
         \/ run[j] = "writing" /\ open[j] = {f}
         \/ status[j] = "error"

Informed ==
  \A r \in Readers :
    /\ reader[r].at \in {"checked", "listed"} => status[reader[r].job] = "done"
    /\ reader[r].at = "replied" => reader[r].names = Files
    /\ reader[r].at = "served" => reader[r].got = "whole"

Kept ==
  /\ unvisited \subseteq expired
  /\ \A x \in removing : x.job \in expired
  /\ \A j \in Jobs :
       /\ run[j] \in {"scanning", "scanned", "writing", "written", "listed"}
            \/ status[j] = "done" => j \in dirSet
       /\ run[j] \in {"written", "listed"} \/ status[j] = "done" => left[j] = {} /\ open[j] = {}
       /\ \A f, g \in open[j] : f = g
       /\ j \notin expired =>
            /\ run[j] # "none" => j \in registered
            /\ run[j] = "writing" => j \in onDisk
            /\ status[j] # "error" =>
                 \A f \in Files : f \in left[j] \/ f \in open[j] \/ content[j][f] = "whole"

Inv == Typed /\ Staged /\ Informed /\ Kept

-----------------------------------------------------------------------------
LEMMA EmptyTyped == Empty \in [Files -> {"absent", "partial", "whole"}]
  BY DEF Empty

\* A request goes from one of its states to another.
LEMMA HandledTyped ==
  ASSUME TypeOK, NEW r \in Readers, reader[r] \in ReaderStates, Handle(r)
  PROVE  \E state \in ReaderStates : Become(r, state)
<1>0. Idle \in ReaderStates
  BY DEF ReaderStates
<1>1. CASE Lookup(r)
  <2>1. PICK j \in registered :
          \/ Become(r, [at |-> "found", op |-> "status", job |-> j])
          \/ \E op \in {"download", "preview"}, f \in Files :
               Become(r, [at |-> "found", op |-> op, job |-> j, file |-> f])
    BY <1>1 DEF Lookup
  <2>2. j \in Jobs
    BY DEF TypeOK
  <2>3. [at |-> "found", op |-> "status", job |-> j] \in ReaderStates
    BY <2>2 DEF ReaderStates, Asking
  <2>4. \A op \in {"download", "preview"}, f \in Files :
          [at |-> "found", op |-> op, job |-> j, file |-> f] \in ReaderStates
    BY <2>2 DEF ReaderStates, Fetching
  <2> QED
    BY <2>1, <2>3, <2>4
<1>2. ASSUME NEW place \in {"checked", "listed"}, reader[r].at \in {"found", "checked"},
             place = "listed" => reader[r].op = "download"
      PROVE  [reader[r] EXCEPT !.at = place] \in ReaderStates
  <2>1. reader[r] \in Asking \cup Fetching
    BY <1>2 DEF ReaderStates, Idle, Answered
  <2>2. CASE reader[r] \in Asking
    BY <1>2, <2>2 DEF Asking, ReaderStates
  <2>3. CASE reader[r] \in Fetching
    BY <2>3 DEF Fetching, ReaderStates
  <2> QED
    BY <2>1, <2>2, <2>3
<1>3. CASE CheckStatus(r)
  BY <1>0, <1>2, <1>3 DEF CheckStatus
<1>4. CASE CheckListed(r)
  BY <1>0, <1>2, <1>4 DEF CheckListed
<1>5. CASE ReplyStatus(r)
  <2>1. reader[r].job \in Jobs
    BY <1>5 DEF ReplyStatus, ReaderStates, Idle, Answered, Asking, Fetching
  <2>2. [at |-> "replied", names |-> files[reader[r].job]] \in ReaderStates
    BY <2>1 DEF TypeOK, ReaderStates, Answered
  <2> QED
    BY <1>5, <2>2 DEF ReplyStatus
<1>6. CASE Serve(r)
  <2>1. reader[r] \in Fetching
    BY <1>6 DEF Serve, ReaderStates, Idle, Answered, Asking
  <2>2. reader[r].job \in Jobs /\ reader[r].file \in Files
    BY <2>1 DEF Fetching
  <2>3. content[reader[r].job][reader[r].file] # "absent" =>
          [at |-> "served", got |-> content[reader[r].job][reader[r].file]] \in ReaderStates
    BY <2>2 DEF TypeOK, ReaderStates, Answered
  <2> QED
    BY <1>0, <1>6, <2>3 DEF Serve
<1>7. CASE EndRequest(r)
  BY <1>0, <1>7 DEF EndRequest
<1> QED
  BY <1>1, <1>3, <1>4, <1>5, <1>6, <1>7 DEF Handle

LEMMA TypedStep == Typed /\ [Next]_vars => Typed'
<1> SUFFICES ASSUME Typed, [Next]_vars PROVE Typed'
  OBVIOUS
<1> USE DEF Typed, TypeOK, Goto, SetStatus, Places, writeVars, jobVars, diskVars, pruneVars
<1>1. ASSUME NEW j \in Jobs, Submit(j) \/ Expire(j) PROVE Typed'
  BY <1>1 DEF Submit, Expire
<1>2. ASSUME NEW j \in Jobs, Start(j) \/ MakeDir(j) \/ MakeDirFails(j) \/ SetDir(j) PROVE Typed'
  BY <1>2 DEF Start, MakeDir, MakeDirFails, SetDir
<1>3. ASSUME NEW j \in Jobs, ScanSucceeds(j) \/ BeginWrite(j) \/ EndWrite(j) \/ Fail(j) PROVE Typed'
  BY <1>3 DEF ScanSucceeds, BeginWrite, EndWrite, Fail
<1>4. ASSUME NEW j \in Jobs, NEW f \in Files, CreateFile(j, f) PROVE Typed'
  BY <1>4 DEF CreateFile
<1>5. ASSUME NEW j \in Jobs, NEW f \in Files, CloseFile(j, f) PROVE Typed'
  BY <1>5 DEF CloseFile
<1>6. ASSUME NEW j \in Jobs, SetFiles(j) \/ SetDone(j) PROVE Typed'
  BY <1>6 DEF SetFiles, SetDone
<1>12. ASSUME NEW j \in Jobs, CleanUp(j) PROVE Typed'
  <2>1. content' \in [Jobs -> [Files -> {"absent", "partial", "whole"}]]
    BY <1>12, EmptyTyped DEF CleanUp
  <2> QED
    BY <1>12, <2>1 DEF CleanUp
<1>7. ASSUME BeginPrune \/ EndPrune PROVE Typed'
  BY <1>7 DEF BeginPrune, EndPrune
<1>8. ASSUME NEW j \in Jobs, PruneReads(j) PROVE Typed'
  BY <1>8 DEF PruneReads
<1>9. ASSUME NEW x \in removing, PruneForgets(x) PROVE Typed'
  <2>1. x.job \in Jobs
    OBVIOUS
  <2>2. content' \in [Jobs -> [Files -> {"absent", "partial", "whole"}]]
    BY <1>9, <2>1, EmptyTyped DEF PruneForgets
  <2> QED
    BY <1>9, <2>1, <2>2 DEF PruneForgets
<1>10. ASSUME NEW r \in Readers, Handle(r) PROVE Typed'
  <2>1. PICK state : Become(r, state) /\ state \in ReaderStates
    BY <1>10, HandledTyped DEF Typed
  <2> QED
    BY <2>1 DEF Become
<1>11. CASE UNCHANGED vars
  BY <1>11 DEF vars
<1> QED
  BY <1>1, <1>2, <1>3, <1>4, <1>5, <1>6, <1>7, <1>8, <1>9, <1>10, <1>11, <1>12 DEF Next, RunScan, Prune

-----------------------------------------------------------------------------
LEMMA StagedStep == Typed /\ Staged /\ [Next]_vars => Staged'
<1> SUFFICES ASSUME Typed, Staged, [Next]_vars PROVE Staged'
  OBVIOUS
<1> USE DEF Typed, TypeOK, Staged, Goto, SetStatus, Places, Empty
<1> USE DEF writeVars, jobVars, diskVars, pruneVars
<1>1. ASSUME NEW j \in Jobs, Submit(j) \/ Expire(j) PROVE Staged'
  BY <1>1 DEF Submit, Expire
<1>2. ASSUME NEW j \in Jobs, Start(j) PROVE Staged'
  BY <1>2 DEF Start
<1>15. ASSUME NEW j \in Jobs, MakeDirFails(j) PROVE Staged'
  BY <1>15 DEF MakeDirFails
<1>16. ASSUME NEW j \in Jobs, SetDir(j) PROVE Staged'
  BY <1>16 DEF SetDir
<1>3. ASSUME NEW j \in Jobs, ScanSucceeds(j) PROVE Staged'
  BY <1>3 DEF ScanSucceeds
<1>18. ASSUME NEW j \in Jobs, EndWrite(j) PROVE Staged'
  <2>1. status' = status /\ files' = files /\ onDisk' = onDisk /\ content' = content /\ open' = open
    BY <1>18 DEF EndWrite
  <2>2. run[j] = "writing" /\ run' = [run EXCEPT ![j] = "written"] /\ open[j] = {}
    BY <1>18 DEF EndWrite
  <2>3. \A f \in Files : content[j][f] # "partial"
    BY <2>2
  <2> QED
    BY <2>1, <2>2, <2>3
<1>13. ASSUME NEW j \in Jobs, MakeDir(j) PROVE Staged'
  BY <1>13 DEF MakeDir
<1>17. ASSUME NEW j \in Jobs, BeginWrite(j) PROVE Staged'
  BY <1>17 DEF BeginWrite
<1>14. ASSUME NEW j \in Jobs, Fail(j) PROVE Staged'
  <2>1. /\ run[j] \in {"scanning", "writing"}
        /\ run' = [run EXCEPT ![j] = "failing"]
        /\ status' = [status EXCEPT ![j] = "error"]
    BY <1>14 DEF Fail
  <2>2. files' = files /\ onDisk' = onDisk /\ content' = content /\ open' = open
    BY <1>14 DEF Fail
  <2> QED
    BY <2>1, <2>2
<1>4. ASSUME NEW j \in Jobs, NEW f \in Files, CreateFile(j, f) PROVE Staged'
  <2>1. /\ run[j] = "writing" /\ j \in onDisk /\ open[j] = {}
        /\ open' = [open EXCEPT ![j] = {f}]
        /\ content' = [content EXCEPT ![j][f] = "partial"]
    BY <1>4 DEF CreateFile
  <2>2. status' = status /\ files' = files /\ run' = run /\ onDisk' = onDisk
    BY <1>4 DEF CreateFile
  <2>3. status[j] # "error" /\ \A g \in Files : content[j][g] # "partial"
    BY <2>1
  <2>4. open'[j] = {f} /\ \A g \in Files : content'[j][g] = "partial" => g = f
    BY <2>1, <2>3
  <2>5. \A k \in Jobs \ {j} : content'[k] = content[k] /\ open'[k] = open[k]
    BY <2>1
  <2> HIDE DEF Empty
  <2> QED
    BY <2>1, <2>2, <2>4, <2>5
<1>5. ASSUME NEW j \in Jobs, NEW f \in Files, CloseFile(j, f) PROVE Staged'
  BY <1>5 DEF CloseFile
<1>6. ASSUME NEW j \in Jobs, SetFiles(j) \/ SetDone(j) PROVE Staged'
  BY <1>6 DEF SetFiles, SetDone
<1>7. ASSUME NEW j \in Jobs, CleanUp(j) PROVE Staged'
  BY <1>7 DEF CleanUp
<1>8. ASSUME BeginPrune \/ EndPrune PROVE Staged'
  BY <1>8 DEF BeginPrune, EndPrune
<1>9. ASSUME NEW j \in Jobs, PruneReads(j) PROVE Staged'
  BY <1>9 DEF PruneReads
<1>10. ASSUME NEW x \in removing, PruneForgets(x) PROVE Staged'
  BY <1>10 DEF PruneForgets
<1>11. ASSUME NEW r \in Readers, Handle(r) PROVE Staged'
  BY <1>11, HandledTyped DEF Become, Typed
<1>12. CASE UNCHANGED vars
  BY <1>12 DEF vars
<1> QED
  BY <1>1, <1>2, <1>3, <1>4, <1>5, <1>6, <1>7, <1>8, <1>9, <1>10, <1>11, <1>12,
     <1>13, <1>14, <1>15, <1>16, <1>17, <1>18
     DEF Next, RunScan, Prune

LEMMA KeptStep == Typed /\ Staged /\ Kept /\ [Next]_vars => Kept'
<1> SUFFICES ASSUME Typed, Staged, Kept, [Next]_vars PROVE Kept'
  OBVIOUS
<1> USE DEF Typed, TypeOK, Staged, Kept, Goto, SetStatus, Places
<1> USE DEF writeVars, jobVars, diskVars, pruneVars
<1>1. ASSUME NEW j \in Jobs, Submit(j) \/ Expire(j) PROVE Kept'
  BY <1>1 DEF Submit, Expire
<1>2. ASSUME NEW j \in Jobs, Start(j) \/ MakeDir(j) \/ MakeDirFails(j) \/ SetDir(j) PROVE Kept'
  BY <1>2 DEF Start, MakeDir, MakeDirFails, SetDir
<1>3. ASSUME NEW j \in Jobs, ScanSucceeds(j) \/ BeginWrite(j) \/ EndWrite(j) \/ Fail(j) PROVE Kept'
  BY <1>3 DEF ScanSucceeds, BeginWrite, EndWrite, Fail
<1>4. ASSUME NEW j \in Jobs, NEW f \in Files, CreateFile(j, f) PROVE Kept'
  BY <1>4 DEF CreateFile
<1>5. ASSUME NEW j \in Jobs, NEW f \in Files, CloseFile(j, f) PROVE Kept'
  BY <1>5 DEF CloseFile
<1>6. ASSUME NEW j \in Jobs, SetFiles(j) \/ SetDone(j) PROVE Kept'
  BY <1>6 DEF SetFiles, SetDone
<1>7. ASSUME NEW j \in Jobs, CleanUp(j) PROVE Kept'
  BY <1>7 DEF CleanUp
<1>8. ASSUME BeginPrune \/ EndPrune PROVE Kept'
  BY <1>8 DEF BeginPrune, EndPrune
<1>9. ASSUME NEW j \in Jobs, PruneReads(j) PROVE Kept'
  BY <1>9 DEF PruneReads
<1>10. ASSUME NEW x \in removing, PruneForgets(x) PROVE Kept'
  BY <1>10 DEF PruneForgets
<1>11. ASSUME NEW r \in Readers, Handle(r) PROVE Kept'
  BY <1>11, HandledTyped DEF Become, Typed
<1>12. CASE UNCHANGED vars
  BY <1>12 DEF vars
<1> QED
  BY <1>1, <1>2, <1>3, <1>4, <1>5, <1>6, <1>7, <1>8, <1>9, <1>10, <1>11, <1>12
     DEF Next, RunScan, Prune

\* Nothing but a request of its own changes what a reader knows, and no step
\* takes back that a job is done.
LEMMA DoneStays ==
  ASSUME Typed, Staged, [Next]_vars
  PROVE  /\ \A j \in Jobs : status[j] = "done" => status'[j] = "done"
         /\ (\E r \in Readers : Handle(r)) \/ reader' = reader
<1> USE DEF Typed, TypeOK, Staged, Goto, SetStatus
<1> USE DEF writeVars, jobVars, diskVars, pruneVars
<1>1. ASSUME NEW j \in Jobs, Submit(j) \/ Expire(j)
      PROVE  reader' = reader /\ \A k \in Jobs : status[k] = "done" => status'[k] = "done"
  BY <1>1 DEF Submit, Expire
<1>2. ASSUME NEW j \in Jobs, RunScan(j)
      PROVE  reader' = reader /\ \A k \in Jobs : status[k] = "done" => status'[k] = "done"
  <2>1. reader' = reader
    BY <1>2 DEF RunScan, Start, MakeDir, MakeDirFails, SetDir, ScanSucceeds, BeginWrite,
                EndWrite, CreateFile, CloseFile, Fail, CleanUp, SetFiles, SetDone
  <2>2. /\ run[j] # "ended"
        /\ status' = status \/ \E s \in {"running", "error", "done"} : status' = [status EXCEPT ![j] = s]
    BY <1>2 DEF RunScan, Start, MakeDir, MakeDirFails, SetDir, ScanSucceeds, BeginWrite,
                EndWrite, CreateFile, CloseFile, Fail, CleanUp, SetFiles, SetDone
  <2> QED
    BY <2>1, <2>2
<1>3. CASE Prune
  BY <1>3 DEF Prune, BeginPrune, EndPrune, PruneReads, PruneForgets
<1>4. CASE \E r \in Readers : Handle(r)
  BY <1>4 DEF Handle, Lookup, CheckStatus, ReplyStatus, CheckListed, Serve, EndRequest, Become
<1>5. CASE UNCHANGED vars
  BY <1>5 DEF vars
<1> QED
  BY <1>1, <1>2, <1>3, <1>4, <1>5 DEF Next

LEMMA InformedStep == Typed /\ Staged /\ Informed /\ [Next]_vars => Informed'
<1> SUFFICES ASSUME Typed, Staged, Informed, [Next]_vars PROVE Informed'
  OBVIOUS
<1>1. \A j \in Jobs : status[j] = "done" => status'[j] = "done"
  BY DoneStays
<1>2. \A r \in Readers : reader[r].at \in {"checked", "listed"} => reader[r].job \in Jobs
  BY DEF Typed, ReaderStates, Idle, Asking, Fetching, Answered
<1>3. CASE reader' = reader
  BY <1>1, <1>2, <1>3 DEF Informed
<1>4. ASSUME NEW r \in Readers, Handle(r) PROVE Informed'
  <2>1. ASSUME NEW state, Become(r, state),
               state.at \in {"checked", "listed"} => state.job \in Jobs /\ status[state.job] = "done",
               state.at = "replied" => state.names = Files,
               state.at = "served" => state.got = "whole"
        PROVE  Informed'
    BY <1>1, <1>2, <2>1 DEF Informed, Become, Typed, jobVars
  <2>2. ASSUME Become(r, Idle) PROVE Informed'
    BY <2>1, <2>2 DEF Idle
  <2>3. CASE Lookup(r)
    BY <2>1, <2>3 DEF Lookup
  <2>4. ASSUME NEW place \in {"checked", "listed"}, status[reader[r].job] = "done",
               reader[r].at \in {"found", "checked"},
               Become(r, [reader[r] EXCEPT !.at = place])
        PROVE  Informed'
    <3>1. reader[r] \in Asking \cup Fetching
      BY <2>4 DEF Typed, ReaderStates, Idle, Answered
    <3>2. /\ [reader[r] EXCEPT !.at = place].at = place
          /\ [reader[r] EXCEPT !.at = place].job = reader[r].job
          /\ reader[r].job \in Jobs
      BY <3>1 DEF Asking, Fetching
    <3> QED
      BY <2>1, <2>4, <3>2
  <2>5. CASE CheckStatus(r)
    BY <2>2, <2>4, <2>5 DEF CheckStatus
  <2>6. CASE CheckListed(r)
    BY <2>2, <2>4, <2>6 DEF CheckListed, Informed
  <2>7. CASE ReplyStatus(r)
    <3>1. files[reader[r].job] = Files
      BY <1>2, <2>7 DEF ReplyStatus, Informed, Staged
    <3> QED
      BY <2>1, <2>7, <3>1 DEF ReplyStatus
  <2>8. CASE Serve(r)
    <3>1. reader[r] \in Fetching /\ status[reader[r].job] = "done"
      BY <2>8 DEF Serve, Informed, Typed, ReaderStates, Idle, Answered, Asking
    <3>2. content[reader[r].job][reader[r].file] \in {"absent", "whole"}
      BY <3>1 DEF Fetching, Typed, TypeOK, Staged
    <3> QED
      BY <2>1, <2>2, <2>8, <3>2 DEF Serve
  <2>9. CASE EndRequest(r)
    BY <2>2, <2>9 DEF EndRequest
  <2> QED
    BY <1>4, <2>3, <2>5, <2>6, <2>7, <2>8, <2>9 DEF Handle
<1> QED
  BY <1>3, <1>4, DoneStays

LEMMA InvHolds == Spec => []Inv
<1>1. Init => Inv
  <2> SUFFICES ASSUME Init PROVE Inv
    OBVIOUS
  <2>1. Typed
    BY EmptyTyped DEF Init, Typed, TypeOK, ReaderStates, Places
  <2>2. Staged
    BY DEF Init, Staged, Empty
  <2>3. Informed
    BY DEF Init, Informed, Idle
  <2>4. Kept
    BY DEF Init, Kept
  <2> QED
    BY <2>1, <2>2, <2>3, <2>4 DEF Inv
<1>2. Inv /\ [Next]_vars => Inv'
  BY TypedStep, StagedStep, InformedStep, KeptStep DEF Inv
<1> QED
  BY <1>1, <1>2, PTL DEF Spec

-----------------------------------------------------------------------------
\* For any number of jobs, files and requests: a status reply that says done
\* names every file (snapshot, getFiles and runScan's two critical sections).
THEOREM RepliesListFiles == Spec => []DoneListsFiles
<1>1. Inv => DoneListsFiles
  BY DEF Inv, Informed, DoneListsFiles
<1> QED
  BY <1>1, InvHolds, PTL

\* A download or a preview never serves a file cut short, although neither
\* locks anything while the scan writes and the prune removes.
THEOREM NothingServedEarly == Spec => []ServedIsWhole
<1>1. Inv => ServedIsWhole
  BY DEF Inv, Informed, ServedIsWhole
<1> QED
  BY <1>1, InvHolds, PTL

\* The error path of runScan leaves no directory, whatever the prune did.
THEOREM FailuresCleanUp == Spec => []FailedLeavesNothing
<1>1. Inv => FailedLeavesNothing
  BY DEF Inv, Staged, FailedLeavesNothing
<1> QED
  BY <1>1, InvHolds, PTL

\* Before its TTL a finished job is registered and all its files are there:
\* the prune takes nothing from it while it works on others.
THEOREM LinksHold == Spec => []LinksWorkUntilTtl
<1>1. Inv => LinksWorkUntilTtl
  <2> SUFFICES ASSUME Inv, NEW j \in Jobs, status[j] = "done", j \notin expired
               PROVE  j \in registered /\ j \in dirSet /\ \A f \in Files : content[j][f] = "whole"
    BY DEF LinksWorkUntilTtl
  <2>1. run[j] = "ended"
    BY DEF Inv, Staged
  <2> QED
    BY <2>1 DEF Inv, Kept
<1> QED
  BY <1>1, InvHolds, PTL

-----------------------------------------------------------------------------
\* The job is over, nobody knows it any more, and its directory is gone.
NotOrphaned(j) == run[j] = "ended" /\ j \notin registered => j \notin onDisk

\* What the prune has read of j is read of a job that is over, so where it saw
\* no directory there is none.
Reclaiming(j) ==
  /\ run[j] = "ended" => status[j] \in {"done", "error"}
  /\ NotOrphaned(j)
  /\ \A x \in removing : x.job = j => run[j] = "ended" /\ (~x.dirSet => j \notin onDisk)

\* The prune takes the directory with the entry if the job is over by then.
LEMMA ReclaimingStep ==
  ASSUME NEW j \in Jobs, Inv, InTime(j), Reclaiming(j), [Next]_vars
  PROVE  Reclaiming(j)'
<1> USE DEF Typed, TypeOK, Goto, SetStatus, Reclaiming, NotOrphaned
<1> USE DEF writeVars, jobVars, diskVars, pruneVars
<1>0. /\ Typed /\ Kept /\ unvisited \subseteq expired
      /\ run[j] \notin {"none", "ended"} => j \in registered
      /\ run[j] = "ended" /\ status[j] = "error" => j \notin onDisk
      /\ status[j] = "done" => j \in dirSet
      /\ j \in expired => run[j] = "ended"
  BY DEF Inv, Staged, Kept, InTime
<1>1. ASSUME NEW k \in Jobs, Submit(k) \/ Expire(k) PROVE Reclaiming(j)'
  BY <1>0, <1>1 DEF Submit, Expire
<1>2. ASSUME NEW k \in Jobs, RunScan(k) PROVE Reclaiming(j)'
  <2>1. /\ registered' = registered /\ removing' = removing
        /\ run[k] \notin {"none", "ended"}
        /\ \E place \in Places : run' = [run EXCEPT ![k] = place]
        /\ status' = status \/ \E st : status' = [status EXCEPT ![k] = st]
        /\ k # j => (j \in onDisk' <=> j \in onDisk)
    BY <1>0, <1>2 DEF RunScan, Start, MakeDir, MakeDirFails, SetDir, ScanSucceeds, BeginWrite,
                EndWrite, CreateFile, CloseFile, Fail, CleanUp, SetFiles, SetDone, Places
  <2>2. CASE k # j
    BY <1>0, <2>1, <2>2
  <2>3. CASE k = j
    <3>1. j \in registered' /\ \A x \in removing' : x.job # j
      BY <1>0, <2>1, <2>3
    <3>2. run'[j] = "ended" => status'[j] \in {"done", "error"}
      BY <1>0, <1>2, <2>3 DEF Inv, Staged, RunScan, Start, MakeDir, MakeDirFails, SetDir,
         ScanSucceeds, BeginWrite, EndWrite, CreateFile, CloseFile, Fail, CleanUp, SetFiles, SetDone
    <3> QED BY <3>1, <3>2
  <2> QED BY <2>2, <2>3
<1>3. CASE BeginPrune \/ EndPrune
  BY <1>3 DEF BeginPrune, EndPrune
<1>4. ASSUME NEW k \in Jobs, PruneReads(k) PROVE Reclaiming(j)'
  <2>1. /\ run' = run /\ status' = status /\ registered' = registered /\ onDisk' = onDisk
        /\ k \in expired /\ removing' = {[job |-> k, dirSet |-> k \in dirSet]}
    BY <1>0, <1>4 DEF PruneReads
  <2>2. CASE k = j
    <3>1. run[j] = "ended" /\ (j \notin dirSet => j \notin onDisk)
      BY <1>0, <2>1, <2>2
    <3>2. ASSUME NEW x \in removing' PROVE x.dirSet <=> j \in dirSet
      <4> DEFINE seen == j \in dirSet
      <4>1. removing' = {[job |-> j, dirSet |-> seen]}
        BY <2>1, <2>2
      <4> HIDE DEF seen
      <4>2. x = [job |-> j, dirSet |-> seen]
        BY <4>1
      <4>3. x.dirSet = seen
        BY <4>2
      <4> QED BY <4>3 DEF seen
    <3> QED BY <2>1, <3>1, <3>2
  <2>3. CASE k # j
    BY <2>1, <2>3
  <2> QED BY <2>2, <2>3
<1>5. ASSUME NEW x \in removing, PruneForgets(x) PROVE Reclaiming(j)'
  BY <1>0, <1>5 DEF PruneForgets
<1>6. ASSUME NEW r \in Readers, Handle(r) PROVE Reclaiming(j)'
  <2>1. PICK state : Become(r, state)
    BY <1>0, <1>6, HandledTyped
  <2> QED BY <2>1 DEF Become
<1>7. CASE UNCHANGED vars
  BY <1>7 DEF vars
<1> QED
  BY <1>1, <1>2, <1>3, <1>4, <1>5, <1>6, <1>7 DEF Next, Prune

\* prune's age test is all that stands between it and a running scan: of a job
\* that is over before its TTL, the directory never outlives the entry, however
\* many jobs run and fail beside it.  Without the hypothesis this is
\* NoOrphanedDir, which does not hold.
THEOREM TimelyJobsLeaveNothing ==
  ASSUME NEW j \in Jobs
  PROVE  Spec /\ []InTime(j) => []NotOrphaned(j)
<1>1. Init => Reclaiming(j)
  BY DEF Init, Reclaiming, NotOrphaned
<1>2. Inv /\ InTime(j) /\ Reclaiming(j) /\ [Next]_vars => Reclaiming(j)'
  BY ReclaimingStep
<1>3. Reclaiming(j) => NotOrphaned(j)
  BY DEF Reclaiming
<1> QED
  BY <1>1, <1>2, <1>3, InvHolds, PTL DEF Spec
=============================================================================
