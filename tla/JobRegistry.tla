----------------------------- MODULE JobRegistry -----------------------------
(***************************************************************************)
(* The web UI's jobs (webui/main.go): POST /api/run registers a job and    *)
(* starts runScan in a goroutine, the status, download and preview         *)
(* handlers read it while it runs, and the prune loop forgets every job    *)
(* older than the TTL together with its directory.  reg.mu guards the map, *)
(* each job's mu its fields, and nothing the files on disk.                *)
(*                                                                         *)
(* A step is what one critical section or one file operation does.         *)
(* os.RemoveAll is one step.  The scan itself is Scan; here it succeeds or *)
(* fails.                                                                  *)
(***************************************************************************)
EXTENDS Integers, FiniteSets

CONSTANTS
  Jobs,               \* the random job ids
  Files,              \* the file names a report writes
  Readers             \* requests served at the same time

ASSUME RegistryAssumption ==
  /\ IsFiniteSet(Jobs)
  /\ IsFiniteSet(Files)

VARIABLES
  registered,   \* the keys of reg.jobs
  expired,      \* the jobs whose created time is before the cutoff
  status,       \* job.status, "none" before the job exists
  dirSet,       \* the jobs whose dir field is set
  files,        \* job.files
  run,          \* where the job's runScan is
  left,         \* the files Report.Write has yet to create
  open,         \* the file it is writing
  onDisk,       \* the jobs whose temporary directory exists
  content,      \* how much of each file is in it
  pruning,      \* the prune holds reg.mu
  unvisited,    \* the jobs its loop has not come to
  removing,     \* the one it has read, and whether its dir was set
  reader        \* what each request knows

writeVars == <<left, open>>
jobVars   == <<status, dirSet, files, run, writeVars>>
diskVars  == <<onDisk, content>>
pruneVars == <<pruning, unvisited, removing>>
vars == <<registered, expired, jobVars, diskVars, pruneVars, reader>>

Places == {"none", "queued", "running", "made", "scanning", "scanned",
           "writing", "written", "listed", "failing", "ended"}

Idle == [at |-> "idle"]

Empty == [f \in Files |-> "absent"]

Init ==
  /\ registered = {}
  /\ expired = {}
  /\ status = [j \in Jobs |-> "none"]
  /\ dirSet = {}
  /\ files = [j \in Jobs |-> {}]
  /\ run = [j \in Jobs |-> "none"]
  /\ left = [j \in Jobs |-> Files]
  /\ open = [j \in Jobs |-> {}]
  /\ onDisk = {}
  /\ content = [j \in Jobs |-> Empty]
  /\ pruning = FALSE
  /\ unvisited = {}
  /\ removing = {}
  /\ reader = [r \in Readers |-> Idle]

Goto(j, from, to) == run[j] = from /\ run' = [run EXCEPT ![j] = to]

SetStatus(j, s) == status' = [status EXCEPT ![j] = s]

-----------------------------------------------------------------------------
\* handleRun

Submit(j) ==
  /\ ~pruning
  /\ Goto(j, "none", "queued")
  /\ SetStatus(j, "queued")
  /\ registered' = registered \cup {j}
  /\ UNCHANGED <<expired, dirSet, files, writeVars, diskVars, pruneVars, reader>>

-----------------------------------------------------------------------------
\* runScan

Start(j) ==
  /\ Goto(j, "queued", "running")
  /\ SetStatus(j, "running")
  /\ UNCHANGED <<registered, expired, dirSet, files, writeVars, diskVars, pruneVars, reader>>

MakeDir(j) ==
  /\ Goto(j, "running", "made")
  /\ onDisk' = onDisk \cup {j}
  /\ UNCHANGED <<registered, expired, status, dirSet, files, writeVars, content, pruneVars, reader>>

MakeDirFails(j) ==
  /\ Goto(j, "running", "ended")
  /\ SetStatus(j, "error")
  /\ UNCHANGED <<registered, expired, dirSet, files, writeVars, diskVars, pruneVars, reader>>

SetDir(j) ==
  /\ Goto(j, "made", "scanning")
  /\ dirSet' = dirSet \cup {j}
  /\ UNCHANGED <<registered, expired, status, files, writeVars, diskVars, pruneVars, reader>>

ScanSucceeds(j) ==
  /\ Goto(j, "scanning", "scanned")
  /\ UNCHANGED <<registered, expired, status, dirSet, files, writeVars, diskVars, pruneVars, reader>>

\* Report.Write starts with MkdirAll.
BeginWrite(j) ==
  /\ Goto(j, "scanned", "writing")
  /\ onDisk' = onDisk \cup {j}
  /\ UNCHANGED <<registered, expired, status, dirSet, files, writeVars, content, pruneVars, reader>>

\* Creating a file fails once the directory is gone; a file that is open
\* when it goes is written to its end and lost without an error.
CreateFile(j, f) ==
  /\ run[j] = "writing"
  /\ j \in onDisk
  /\ open[j] = {}
  /\ f \in left[j]
  /\ left' = [left EXCEPT ![j] = @ \ {f}]
  /\ open' = [open EXCEPT ![j] = {f}]
  /\ content' = [content EXCEPT ![j][f] = "partial"]
  /\ UNCHANGED <<registered, expired, status, dirSet, files, run, onDisk, pruneVars, reader>>

CloseFile(j, f) ==
  /\ run[j] = "writing"
  /\ f \in open[j]
  /\ open' = [open EXCEPT ![j] = {}]
  /\ content' = IF j \in onDisk THEN [content EXCEPT ![j][f] = "whole"] ELSE content
  /\ UNCHANGED <<registered, expired, status, dirSet, files, run, left, onDisk, pruneVars, reader>>

\* Fault: the job is done before its files are listed.
EndWriteDone(j) ==
  /\ Goto(j, "writing", "written")
  /\ left[j] = {}
  /\ open[j] = {}
  /\ SetStatus(j, "done")
  /\ UNCHANGED <<registered, expired, dirSet, files, writeVars, diskVars, pruneVars, reader>>

EndWrite(j) ==
  /\ Goto(j, "writing", "written")
  /\ left[j] = {}
  /\ open[j] = {}
  /\ UNCHANGED <<registered, expired, status, dirSet, files, writeVars, diskVars, pruneVars, reader>>

\* Fault: the error path returns without removing the directory.
FailAndReturn(j) ==
  /\ \/ Goto(j, "scanning", "ended")
     \/ Goto(j, "writing", "ended")
  /\ SetStatus(j, "error")
  /\ UNCHANGED <<registered, expired, dirSet, files, writeVars, diskVars, pruneVars, reader>>

\* The billing client, the scan, or a write fails.
Fail(j) ==
  /\ \/ Goto(j, "scanning", "failing")
     \/ Goto(j, "writing", "failing")
  /\ SetStatus(j, "error")
  /\ UNCHANGED <<registered, expired, dirSet, files, writeVars, diskVars, pruneVars, reader>>

\* os.RemoveAll(dir)
CleanUp(j) ==
  /\ Goto(j, "failing", "ended")
  /\ onDisk' = onDisk \ {j}
  /\ content' = [content EXCEPT ![j] = Empty]
  /\ UNCHANGED <<registered, expired, status, dirSet, files, writeVars, pruneVars, reader>>

SetFiles(j) ==
  /\ Goto(j, "written", "listed")
  /\ files' = [files EXCEPT ![j] = Files]
  /\ UNCHANGED <<registered, expired, status, dirSet, writeVars, diskVars, pruneVars, reader>>

SetDone(j) ==
  /\ Goto(j, "listed", "ended")
  /\ SetStatus(j, "done")
  /\ UNCHANGED <<registered, expired, dirSet, files, writeVars, diskVars, pruneVars, reader>>

RunScan(j) ==
  \/ Start(j) \/ MakeDir(j) \/ MakeDirFails(j) \/ SetDir(j)
  \/ ScanSucceeds(j) \/ BeginWrite(j) \/ EndWrite(j)
  \/ \E f \in Files : CreateFile(j, f) \/ CloseFile(j, f)
  \/ Fail(j) \/ CleanUp(j)
  \/ SetFiles(j) \/ SetDone(j)

-----------------------------------------------------------------------------
\* The prune loop.  The jobs that are not past the cutoff are looked at and
\* left alone, so the loop's visits to them are left out.

\* The job's created time falls behind now - ttl.
Expire(j) ==
  /\ run[j] # "none"
  /\ j \notin expired
  /\ expired' = expired \cup {j}
  /\ UNCHANGED <<registered, jobVars, diskVars, pruneVars, reader>>

\* Fault: the cutoff is not applied.
BeginPruneAll ==
  /\ ~pruning
  /\ registered # {}
  /\ pruning' = TRUE
  /\ unvisited' = registered
  /\ UNCHANGED <<registered, expired, jobVars, diskVars, removing, reader>>

BeginPrune ==
  /\ ~pruning
  /\ registered \cap expired # {}
  /\ pruning' = TRUE
  /\ unvisited' = registered \cap expired
  /\ UNCHANGED <<registered, expired, jobVars, diskVars, removing, reader>>

\* dir := j.dir, under the job's lock only
PruneReads(j) ==
  /\ removing = {}
  /\ j \in unvisited
  /\ unvisited' = unvisited \ {j}
  /\ removing' = {[job |-> j, dirSet |-> j \in dirSet]}
  /\ UNCHANGED <<registered, expired, jobVars, diskVars, pruning, reader>>

\* Fault: the job is forgotten and its directory is not.
PruneForgetsOnly(x) ==
  /\ x \in removing
  /\ removing' = {}
  /\ registered' = registered \ {x.job}
  /\ UNCHANGED <<expired, jobVars, diskVars, pruning, unvisited, reader>>

\* os.RemoveAll(dir) if dir was set, then delete(reg.jobs, id)
PruneForgets(x) ==
  /\ x \in removing
  /\ removing' = {}
  /\ registered' = registered \ {x.job}
  /\ IF x.dirSet
       THEN /\ onDisk' = onDisk \ {x.job}
            /\ content' = [content EXCEPT ![x.job] = Empty]
       ELSE UNCHANGED diskVars
  /\ UNCHANGED <<expired, jobVars, pruning, unvisited, reader>>

EndPrune ==
  /\ pruning
  /\ unvisited = {}
  /\ removing = {}
  /\ pruning' = FALSE
  /\ UNCHANGED <<registered, expired, jobVars, diskVars, unvisited, removing, reader>>

Prune ==
  \/ BeginPrune \/ EndPrune
  \/ \E j \in Jobs : PruneReads(j)
  \/ \E x \in removing : PruneForgets(x)

-----------------------------------------------------------------------------
\* The handlers that read a job: status, download and preview.

Become(r, state) ==
  /\ reader' = [reader EXCEPT ![r] = state]
  /\ UNCHANGED <<registered, expired, jobVars, diskVars, pruneVars>>

\* An unknown job is answered 404 at once.
Lookup(r) ==
  /\ ~pruning
  /\ reader[r].at = "idle"
  /\ \E j \in registered :
       \/ Become(r, [at |-> "found", op |-> "status", job |-> j])
       \/ \E op \in {"download", "preview"}, f \in Files :
            Become(r, [at |-> "found", op |-> op, job |-> j, file |-> f])

\* Fault: only a failed job is turned away.
CheckNotFailed(r) ==
  /\ reader[r].at = "found"
  /\ IF status[reader[r].job] # "error"
       THEN Become(r, [reader[r] EXCEPT !.at = "checked"])
       ELSE Become(r, Idle)

\* snapshot: anything but done ends the request.
CheckStatus(r) ==
  /\ reader[r].at = "found"
  /\ IF status[reader[r].job] = "done"
       THEN Become(r, [reader[r] EXCEPT !.at = "checked"])
       ELSE Become(r, Idle)

\* handleJobStatus: out["files"] = j.getFiles()
ReplyStatus(r) ==
  /\ reader[r].at = "checked"
  /\ reader[r].op = "status"
  /\ Become(r, [at |-> "replied", names |-> files[reader[r].job]])

\* handleDownload: only a file of the job's list
CheckListed(r) ==
  /\ reader[r].at = "checked"
  /\ reader[r].op = "download"
  /\ IF reader[r].file \in files[reader[r].job]
       THEN Become(r, [reader[r] EXCEPT !.at = "listed"])
       ELSE Become(r, Idle)

\* The preview reads its file without looking whether it is listed.
Serve(r) ==
  /\ \/ reader[r].at = "listed"
     \/ reader[r].at = "checked" /\ reader[r].op = "preview"
  /\ LET j == reader[r].job
         f == reader[r].file
     IN  IF j \in dirSet /\ content[j][f] # "absent"
           THEN Become(r, [at |-> "served", got |-> content[j][f]])
           ELSE Become(r, Idle)

EndRequest(r) ==
  /\ reader[r].at \in {"replied", "served"}
  /\ Become(r, Idle)

Handle(r) ==
  Lookup(r) \/ CheckStatus(r) \/ ReplyStatus(r) \/ CheckListed(r) \/ Serve(r) \/ EndRequest(r)

Next ==
  \/ \E j \in Jobs : Submit(j) \/ RunScan(j) \/ Expire(j)
  \/ Prune
  \/ \E r \in Readers : Handle(r)

Spec == Init /\ [][Next]_vars

\* A scan and its writes end, the ticker fires, and time goes by.
Fairness ==
  /\ \A j \in Jobs : WF_vars(RunScan(j)) /\ WF_vars(Expire(j))
  /\ WF_vars(Prune)

FairSpec == Spec /\ Fairness

-----------------------------------------------------------------------------
TypeOK ==
  /\ registered \subseteq Jobs
  /\ expired \subseteq Jobs
  /\ status \in [Jobs -> {"none", "queued", "running", "done", "error"}]
  /\ dirSet \subseteq Jobs
  /\ files \in [Jobs -> SUBSET Files]
  /\ run \in [Jobs -> Places]
  /\ left \in [Jobs -> SUBSET Files]
  /\ open \in [Jobs -> SUBSET Files]
  /\ onDisk \subseteq Jobs
  /\ content \in [Jobs -> [Files -> {"absent", "partial", "whole"}]]
  /\ pruning \in BOOLEAN
  /\ unvisited \subseteq Jobs
  /\ removing \subseteq [job : Jobs, dirSet : BOOLEAN]

\* A status reply that says done names every file of the report, although the
\* status and the list are read, and were written, in two critical sections.
DoneListsFiles == \A r \in Readers : reader[r].at = "replied" => reader[r].names = Files

\* What is served was written to its end, although the handler holds no lock
\* while the job or the prune works on the directory.
ServedIsWhole == \A r \in Readers : reader[r].at = "served" => reader[r].got = "whole"

\* A failed job leaves no directory behind, whatever the prune did meanwhile.
FailedLeavesNothing ==
  \A j \in Jobs : run[j] = "ended" /\ status[j] = "error" => j \notin onDisk

\* --job-ttl, "how long to keep job dirs and download links": before it the
\* links of a finished job work ...
LinksWorkUntilTtl ==
  \A j \in Jobs : status[j] = "done" /\ j \notin expired =>
    j \in registered /\ j \in dirSet /\ \A f \in Files : content[j][f] = "whole"

\* ... and once the job is forgotten and its goroutine over, so is its dir.
NoOrphanedDir ==
  \A j \in Jobs : run[j] = "ended" /\ j \notin registered => j \notin onDisk

\* The job is over before it reaches its TTL.
InTime(j) == j \in expired => run[j] = "ended"

\* The directory of such a job is reclaimed in the end, by its own error path
\* or by the prune, whatever becomes of the other jobs.
DirsAreReclaimed ==
  \A j \in Jobs : []InTime(j) => (j \in onDisk ~> j \notin onDisk)
=============================================================================
